\* Two statements and the exit condition, one dependence.
SPECIFICATION Spec
CONSTANTS
  NumStmts = 3
  MaxDeps = 1
INVARIANT PlanKeepsDependences
CHECK_DEADLOCK FALSE
