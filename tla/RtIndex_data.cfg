SPECIFICATION Spec
CONSTANTS
  Doc = {d1, d2}
  Val = {v1, v2}
  NoRow = NoRow
  Thread = {t1}
  NoThread = NoThread
  Tag = {1, 2, 3, 4, 5}
  MAX_SEGMENTS = 3
  MAX_PROGRESSION = 1
  Ops = {"commit", "disk", "update", "truncate", "optimize"}
  LateOps = {}
  DumpOnDelete = TRUE
  UpdateOnDisk = TRUE
  IoFaults = {"flush", "optimize"}
  CrashAt = {}
  MaxTid = 3
  MaxCrashes = 0
SYMMETRY DataSymmetry
INVARIANT TypeOK AtMostOneAlive TotalMatchesVisible NoDupesToMerge
PROPERTY RefinesDocStore
