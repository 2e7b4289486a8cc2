\* A number of ranks that is not a power of two.
CONSTANTS
  csize = 3
  InPlace = {}
  Count <- SameCount
  MaxRounds = 1
SPECIFICATION Spec
INVARIANT Reduced
