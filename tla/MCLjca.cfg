CONSTANTS
  t1 = t1
  t2 = t2
  Threads = {t1, t2}
  Workers = {t2}
  Stubs = {"s1"}
  Cmds = {c1, c2}
  MaxCalls = 1
  None = None
  StubOf <- MCStubOfPair
SPECIFICATION FairSpec
INVARIANTS TypeOK AnswerIsOwn  FreedQuiescent
PROPERTIES AckNotLost CallReturns Implements
CHECK_DEADLOCK FALSE
