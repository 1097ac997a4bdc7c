CONSTANTS
  Users = {u1}
  MaxOps = 1
  None = None
SPECIFICATION FairSpec
PROPERTIES OperationReturns RemovalEnds
CHECK_DEADLOCK FALSE
