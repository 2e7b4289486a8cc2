\* Four ranks, two steps, two rounds; two of the ranks reduce in place.
CONSTANTS
  csize = 4
  InPlace = {1, 2}
  Count <- GrowAndShrink
  MaxRounds = 2
SPECIFICATION FairSpec
INVARIANTS
  NothingLeft
  MessagesExact
  MessagesFit
PROPERTIES
  ReductionSpec
  AllreduceReturns
