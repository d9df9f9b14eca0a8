SPECIFICATION Spec
CONSTANTS
  Null = Null
  MaxDocs = 3
  MaxHits = 3
  SkipBlock = 2
  DOCID_MAX = 1000
  Never = 1000
  Deadlines = {1, 2, 3}
  Queries <- AndNot
  Texts <- SomeTexts
  Setups <- TimedSetups
INVARIANT MatchesExact
