CONSTANTS
  Users = {u1}
  MaxOps = 1
  None = None
SPECIFICATION Spec
INVARIANT NoAccessAfterFree
CHECK_DEADLOCK FALSE
