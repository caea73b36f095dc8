\* Three adjacent loops of up to three partitions each, split in any order.
SPECIFICATION FairSpec
CONSTANTS
  NumLoops = 3
  BodySize = 5
INVARIANTS
  TypeOK
  PhisMatchPredecessors
  PartitionsRunInOrder
  EachRunsOnce
PROPERTY
  AllLoopsGetSplit
CHECK_DEADLOCK FALSE
