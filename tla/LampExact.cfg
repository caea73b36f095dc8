\* One byte in every nest of up to two loops: re-entered, entered one level too
\* deep, up to five iterations in all, the clock running out.  Iterations are
\* measured, each dependence is counted up to twice.
SPECIFICATION TruthSpec
CONSTANTS
  LoopId = {loopA}
  WholeRun = WholeRun
  MaxLoopDepth = 3
  MaxDepDistance = 2
  Load = {i0}
  Store = {i1}
  Call = {}
  FirstInstr = i0
  Addr = {0}
  Width = {1}
  MeasureIterations = TRUE
  ProfileOutput = FALSE
  TimeStampMax = 4
  Unknown = Unknown
  Invalid = Invalid
  NoEntry = NoEntry
  MaxTime = 5
  MaxCount = 2
  Outside = Outside
INVARIANTS
  HooksTypeOK
  StampsAreLive
  DependencesAreExact
  LoopCountsIterations
CHECK_DEADLOCK FALSE
