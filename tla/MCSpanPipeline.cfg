SPECIFICATION Spec
CONSTANTS
  s1 = s1
  s2 = s2
  op1 = op1
  op2 = op2
  addr = addr
  None = None
  Overflow = Overflow
  NaN = NaN
  Settings <- MCSettings
  SkipBefore = 2
  OldestAllowed = 1
  EnableExpHist = TRUE
  MaxTries = 2
  MaxFaults = 1
INVARIANTS
  CollectFindsDimensions
  DeltaConserved
  SeriesWellFormed
  AckedStored
  NoWriteAfterClose
CHECK_DEADLOCK FALSE
