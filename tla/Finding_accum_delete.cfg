SPECIFICATION Spec
CONSTANTS
  rt1 = rt1  rt2 = rt2  s1 = s1  s2 = s2  d1 = d1  d2 = d2
  one = one  two = two  none = none  twice = twice  x = x  y = y
  Index = {rt1, rt2}
  Session = {s1}
  Doc = {d1, d2}
  Text = {one, two, none}
  Word = {x, y}
  Hits <- HitsOf
  Inserts <- InsertsOf
  Deletes <- DeletesOf
  Changing = {rt1}
  BadRow = BadRow  BadText = BadText  Garbage = Garbage
  NoIndex = NoIndex  NoRow = NoRow  Kept = Kept  NoStatement = NoStatement
  DeleteOwn = TRUE
  AlterInTxn = FALSE
  DropInTxn = FALSE
  MaxRows = 3
  MaxAfterRollback = 1
  MaxAlters = 0
PROPERTY RefinesTxnStore
