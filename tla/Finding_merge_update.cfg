SPECIFICATION Spec
CONSTANTS
  Doc = {d1}
  Val = {v1, v2}
  NoRow = NoRow
  Thread = {t1, t2}
  NoThread = NoThread
  Tag = {1, 2, 3, 4, 5}
  MAX_SEGMENTS = 3
  MAX_PROGRESSION = 1
  Ops = {"commit", "update", "query"}
  LateOps = {}
  DumpOnDelete = FALSE
  UpdateOnDisk = TRUE
  IoFaults = {}
  CrashAt = {}
  MaxTid = 2
  MaxCrashes = 0
PROPERTY RefinesDocStore
