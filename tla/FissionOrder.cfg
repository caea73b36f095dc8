\* Two instructions, the increment and the branch: enough for a backward
\* dependence between two partitions.
SPECIFICATION Spec
CONSTANTS
  BodySize = 4
  Canonical = TRUE
  ICacheSize = 4
  OverflowPenalty = 5
  HeaderSize = 3
  MaxCarried = 0
  HEURSTICS = {FALSE}
INVARIANT OrderKeepsDependences
CHECK_DEADLOCK FALSE
