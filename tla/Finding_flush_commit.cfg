SPECIFICATION Spec
CONSTANTS
  Doc = {d1}
  Val = {v1}
  NoRow = NoRow
  Thread = {t1, t2}
  NoThread = NoThread
  Tag = {1, 2, 3, 4, 5}
  MAX_SEGMENTS = 3
  MAX_PROGRESSION = 1
  Ops = {"commit", "flush", "query"}
  LateOps = {}
  DumpOnDelete = FALSE
  UpdateOnDisk = TRUE
  IoFaults = {}
  CrashAt = {"idle"}
  MaxTid = 1
  MaxCrashes = 1
SYMMETRY DataSymmetry
INVARIANT Durable
CHECK_DEADLOCK FALSE
