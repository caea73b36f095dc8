\* Three instructions, the increment and the branch: every def-use relation
\* and every combination of directions.
SPECIFICATION Spec
CONSTANTS
  BodySize = 5
  Canonical = TRUE
  ICacheSize = 4
  OverflowPenalty = 5
  HeaderSize = 3
  MaxCarried = 1
  HEURSTICS = {FALSE, TRUE}
INVARIANTS
  MemDepsAreExact
  RemovalsAreSafe
  PartitionsAreFinest
  OverflowsOnlyIfForced
  EachRunsOnce
  OnlyCarriedDangle
CHECK_DEADLOCK FALSE
