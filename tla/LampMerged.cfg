\* One load that meets the stores of one instruction in several loops.
SPECIFICATION TruthSpec
CONSTANTS
  LoopId = {loopA, loopB}
  WholeRun = WholeRun
  MaxLoopDepth = 3
  MaxDepDistance = 2
  Load = {i0}
  Store = {i1}
  Call = {}
  FirstInstr = i0
  Addr = {0}
  Width = {1}
  MeasureIterations = TRUE
  ProfileOutput = FALSE
  TimeStampMax = 3
  Unknown = Unknown
  Invalid = Invalid
  NoEntry = NoEntry
  MaxTime = 4
  MaxCount = 2
  Outside = Outside
INVARIANTS
  EntriesKeepTheirLoop
CHECK_DEADLOCK FALSE
