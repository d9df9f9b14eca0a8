SPECIFICATION Spec
CONSTANTS
  p = p
  q = q
  r = r
  Index = {p, r}
  RtIndex = {r}
  Start = {p, r}
  Removable = {p}
  Session = {s1, s2}
  Main = Main
  Rotator = Rotator
  NoThread = NoThread
  NoIndex = NoIndex
  Searches <- BothIndexes
  Updates = {p}
  Attaches <- PlainToRt
  NExt = 2
  Faults = {}
  IndexerWindow = FALSE
  CrashAt = {}
  MaxBuilds = 2
  MaxEdits = 1
  MaxCrashes = 0
SYMMETRY Symmetry
INVARIANT SearchesEnabled
CHECK_DEADLOCK FALSE
