SPECIFICATION FairSpec
CONSTANTS
  Whole = 16
  Sizes <- PowersOfTwo
  MaxRanges = 3
INVARIANT TunnelsExactlyTheRest
INVARIANT AllocatesLowestFree
PROPERTY Terminates
