\* Five cells: two blocks next to each other, or a block that grows to three
\* cells and moves, with the headers in front.
SPECIFICATION Spec
CONSTANTS
  HeapSize = 5
  MaxSize = 3
  VaListByReference = TRUE
INVARIANTS
  
  HeadersAreTrue
  FreeKnowsItsBlocks
  KnownOfBlocks
PROPERTY OthersStayKnown
CHECK_DEADLOCK FALSE
