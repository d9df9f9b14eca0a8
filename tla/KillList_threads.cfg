SPECIFICATION Spec
CONSTANTS
  DocId = {1, 2, 3}
  Thread = {t1, t2, t3}
  NoThread = NoThread
  MAX_SMALL_SIZE = 3
  MaxTxn = 2
  Ops = {"txn", "query", "update", "save", "dump"}
SYMMETRY Symmetry
INVARIANT SortedWhenRead KilledStayHidden HoldsTheKilled
