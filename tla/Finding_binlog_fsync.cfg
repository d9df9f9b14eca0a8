SPECIFICATION Spec
CONSTANTS
  Index = {a}
  Mode = "fsync"
  RestartSize = 0
  CrashKind = {"process"}
  Torn = {}
  EmptyLog = TRUE
  UnlinkWindow = FALSE
  MaxTid = 2
  MaxCrashes = 1
  MaxFlushes = 0
CHECK_DEADLOCK FALSE
INVARIANT Durable
