SPECIFICATION Spec
CONSTANTS
  Doc = {d1}
  Val = {v1, v2}
  NoRow = NoRow
  Thread = {t1}
  NoThread = NoThread
  Tag = {1, 2, 3, 4, 5}
  MAX_SEGMENTS = 3
  MAX_PROGRESSION = 1
  Ops = {"commit", "disk", "flush", "shutdown", "truncate", "query", "update", "saveattrs"}
  LateOps = {"update", "saveattrs"}
  DumpOnDelete = FALSE
  UpdateOnDisk = FALSE
  IoFaults = {"flush", "optimize"}
  CrashAt <- OtherPoints
  MaxTid = 3
  MaxCrashes = 2
SYMMETRY DataSymmetry
INVARIANT Durable Restartable
