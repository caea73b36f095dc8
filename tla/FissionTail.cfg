\* Any position of the increment, any order of the addresses.
SPECIFICATION Spec
CONSTANTS
  BodySize = 4
  Canonical = FALSE
  ICacheSize = 4
  OverflowPenalty = 5
  HeaderSize = 3
  MaxCarried = 0
  HEURSTICS = {FALSE, TRUE}
INVARIANT LastTwoAreIncAndBr
CHECK_DEADLOCK FALSE
