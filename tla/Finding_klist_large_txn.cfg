SPECIFICATION Spec
CONSTANTS
  DocId = {1, 2, 3, 4}
  Thread = {t1, t2}
  NoThread = NoThread
  MAX_SMALL_SIZE = 3
  MaxTxn = 3
  Ops = {"txn", "query"}
SYMMETRY Symmetry
INVARIANT SortedWhenRead
