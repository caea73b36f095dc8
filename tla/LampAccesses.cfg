\* Accesses of two and four bytes, aligned and not, that overlap: a wide access
\* meets gaps and stamps that alternate.  Output dependences are profiled, each
\* counted at most once.
SPECIFICATION TruthSpec
CONSTANTS
  LoopId = {loopA}
  WholeRun = WholeRun
  MaxLoopDepth = 2
  MaxDepDistance = 2
  Load = {}
  Store = {st}
  Call = {call}
  FirstInstr = st
  Addr = {0, 1, 2, 3}
  Width = {2, 4}
  MeasureIterations = FALSE
  ProfileOutput = TRUE
  TimeStampMax = 3
  Unknown = Unknown
  Invalid = Invalid
  NoEntry = NoEntry
  MaxTime = 3
  MaxCount = 1
  Outside = Outside
INVARIANTS
  CountedIffMet
CHECK_DEADLOCK FALSE
