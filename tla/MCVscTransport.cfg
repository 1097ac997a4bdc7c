CONSTANTS
  MaxResets = 5
  MaxWork = 4
  MaxCnt = 3
  SeqMod = 3
SPECIFICATION Spec
INVARIANTS TypeOK AckIsOwn NoMessageWaits   IrqBalanced
CHECK_DEADLOCK FALSE
