SPECIFICATION FairSpec
CONSTANTS
  Index = {a}
  Mode = "none"
  RestartSize = 3
  CrashKind = {"process", "os"}
  Torn = {}
  EmptyLog = FALSE
  UnlinkWindow = FALSE
  MaxTid = 5
  MaxCrashes = 2
  MaxFlushes = 2
CHECK_DEADLOCK FALSE
INVARIANT NoOtherGap
PROPERTY EventuallySynced
