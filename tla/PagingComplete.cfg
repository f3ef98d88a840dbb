SPECIFICATION FairSpec
CONSTANTS
  Last = 4
  Reader = {r1}
  Loops <- AllLoops
  Limit = 2
  Cap = 3
  MaxWrites = 1
INVARIANT TypeOK
PROPERTIES ListingsAreComplete ListingsEnd EmbeddingsSurvive
CHECK_DEADLOCK FALSE
