SPECIFICATION Spec
CONSTANTS
  Doc = {d1, d2}
  Val = {v1}
  NoRow = NoRow
  Thread = {t1}
  NoThread = NoThread
  Tag = {1, 2, 3, 4, 5}
  MAX_SEGMENTS = 3
  MAX_PROGRESSION = 1
  Ops = {"commit", "disk", "query"}
  LateOps = {}
  DumpOnDelete = TRUE
  UpdateOnDisk = TRUE
  IoFaults = {}
  CrashAt = {"idle"}
  MaxTid = 3
  MaxCrashes = 1
SYMMETRY DataSymmetry
INVARIANT Durable
