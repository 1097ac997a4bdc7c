CONSTANTS
  MaxResets = 2
  MaxWork = 2
  MaxCnt = 2
  SeqMod = 4
SPECIFICATION FairSpec
PROPERTY ResetReturns
CHECK_DEADLOCK FALSE
