SPECIFICATION Spec
CONSTANTS
  Index = {a}
  Mode = "write"
  RestartSize = 0
  CrashKind = {"process"}
  Torn = {}
  EmptyLog = FALSE
  UnlinkWindow = TRUE
  MaxTid = 2
  MaxCrashes = 1
  MaxFlushes = 1
CHECK_DEADLOCK FALSE
INVARIANT Recoverable
