SPECIFICATION Spec
CONSTANTS
  Doc = {d1}
  Val = {v1, v2}
  NoRow = NoRow
  Thread = {t1, t2}
  NoThread = NoThread
  Tag = {1, 2, 3, 4, 5}
  MAX_SEGMENTS = 3
  MAX_PROGRESSION = 1
  Ops = {"commit", "disk", "query", "truncate", "optimize"}
  LateOps = {}
  DumpOnDelete = FALSE
  UpdateOnDisk = TRUE
  IoFaults = {"flush", "optimize"}
  CrashAt = {}
  MaxTid = 3
  MaxCrashes = 0
SYMMETRY Symmetry
INVARIANT Locking SnapshotRead SavedChunkComplete MetaNamesChunks
PROPERTY SnapshotStable RefinesDocStore
