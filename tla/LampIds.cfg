\* Up to two loads, stores and calls anywhere in the nine blocks, the passes in
\* every order, two iterations of each loop per entry.  Loop numbers are two bits
\* wide: with two instructions the last loop's no longer fits.
SPECIFICATION Spec
CONSTANTS
  NumBlocks = 9
  Succ <- MCSucc
  LoopOrder <- MCLoopOrder
  Body <- MCBody
  Preheader <- MCPreheader
  Latch <- MCLatch
  LoopIdMax = 3
  NoLoop = NoLoop
  MaxInstrs = 2
  MaxTrips = 2
  MaxEntries = 2
  MaxTotal = 2
INVARIANTS
  TypeOK
  HooksTrackTheNest
  ProfileComesBack
  NoNumberTooLarge
CHECK_DEADLOCK FALSE
