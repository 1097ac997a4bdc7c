CONSTANTS
  u1 = u1
  u2 = u2
  None = None
  Users = {u1, u2}
  PseCmds <- MCPseCmds
  AdCmds <- MCAdCmds
  Pieces = 2
  MaxLog = 1
  MaxOps = 2
SPECIFICATION FairSpec
INVARIANTS TypeOK AnswerOwn PowerWhole PowerFilled Quiescent
PROPERTY Terminates
CHECK_DEADLOCK FALSE
