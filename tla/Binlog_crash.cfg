SPECIFICATION Spec
CONSTANTS
  Index = {a, b}
  Mode = "write"
  RestartSize = 4
  CrashKind = {"process", "os"}
  Torn = {"torn_body"}
  EmptyLog = FALSE
  UnlinkWindow = FALSE
  MaxTid = 2
  MaxCrashes = 2
  MaxFlushes = 2
CHECK_DEADLOCK FALSE
SYMMETRY Symmetry
INVARIANT TypeOK Durable NeededLogged Recoverable
PROPERTY OnlyFlushedGoes
