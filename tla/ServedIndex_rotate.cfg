SPECIFICATION FairSpec
CONSTANTS
  p = p
  q = q
  r = r
  Index = {p, r}
  RtIndex = {r}
  Start = {}
  Removable = {p, r}
  Session = {s1}
  Main = Main
  Rotator = Rotator
  NoThread = NoThread
  NoIndex = NoIndex
  Searches <- OnePlain
  Updates = {p}
  Attaches <- PlainToRt
  NExt = 2
  Faults = {"load", "cur", "new", "back", "attach"}
  IndexerWindow = FALSE
  CrashAt = {"old", "swap"}
  MaxBuilds = 2
  MaxEdits = 1
  MaxCrashes = 1
INVARIANT TypeOK ServesItsFiles StartsAgain
PROPERTY SearchGetsIndex
CHECK_DEADLOCK FALSE
