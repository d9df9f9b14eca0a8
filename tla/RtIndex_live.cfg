SPECIFICATION FairSpec
CONSTANTS
  Doc = {d1}
  Val = {v1}
  NoRow = NoRow
  Thread = {t1, t2}
  NoThread = NoThread
  Tag = {1, 2, 3, 4, 5}
  MAX_SEGMENTS = 3
  MAX_PROGRESSION = 1
  Ops = {"commit", "disk", "update", "optimize"}
  LateOps = {}
  DumpOnDelete = FALSE
  UpdateOnDisk = TRUE
  IoFaults = {}
  CrashAt = {}
  MaxTid = 3
  MaxCrashes = 0
PROPERTY CommitEnds
CHECK_DEADLOCK FALSE
