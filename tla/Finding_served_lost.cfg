SPECIFICATION FairSpec
CONSTANTS
  p = p
  q = q
  r = r
  Index = {p, q}
  RtIndex = {}
  Start = {p, q}
  Removable = {}
  Session = {}
  Main = Main
  Rotator = Rotator
  NoThread = NoThread
  NoIndex = NoIndex
  Searches <- NoPairs
  Updates = {}
  Attaches <- NoPairs
  NExt = 1
  Faults = {}
  IndexerWindow = FALSE
  CrashAt = {}
  MaxBuilds = 2
  MaxEdits = 0
  MaxCrashes = 0
PROPERTY BuildsAreServed
CHECK_DEADLOCK FALSE
