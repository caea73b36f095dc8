\* Four statements and the exit condition, up to three dependences: cycles of
\* three partitions, scalars shared by references.
SPECIFICATION Spec
CONSTANTS
  NumStmts = 5
  MaxDeps = 3
INVARIANTS
  RdgTypeOK
  ReferencesInOnePartition
  PartitionsHoldOperands
  SccsAreComponents
CHECK_DEADLOCK FALSE
