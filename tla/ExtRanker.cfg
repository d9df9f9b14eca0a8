SPECIFICATION Spec
CONSTANTS
  Null = Null
  MaxDocs = 3
  MaxHits = 3
  SkipBlock = 2
  DOCID_MAX = 1000
  Never = 1000
  Deadlines = {1, 3}
  Queries <- AllQueries
  Texts <- SomeTexts
  Setups <- AllSetups
INVARIANT MatchesExact HitsExact
