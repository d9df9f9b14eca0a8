SPECIFICATION Spec
CONSTANTS
  Doc = {d1}
  Val = {v1}
  NoRow = NoRow
  Thread = {t1}
  NoThread = NoThread
  Tag = {1, 2, 3, 4, 5}
  MAX_SEGMENTS = 3
  MAX_PROGRESSION = 1
  Ops = {"commit", "disk", "flush", "query"}
  LateOps = {}
  DumpOnDelete = FALSE
  UpdateOnDisk = TRUE
  IoFaults = {}
  CrashAt <- SaveWindow
  MaxTid = 2
  MaxCrashes = 1
SYMMETRY DataSymmetry
INVARIANT Durable
