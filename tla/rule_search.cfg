SPECIFICATION FairSearch
CONSTANTS
  Hash <- SixHashes
  MaxSize = 5
  Word = 64
CHECK_DEADLOCK FALSE
INVARIANTS IndexInRule SearchDecides
PROPERTY SearchEnds
