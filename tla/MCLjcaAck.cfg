CONSTANTS
  t1 = t1
  t2 = t2
  Threads = {t1}
  Workers = {}
  Stubs = {"s1"}
  Cmds = {c1}
  MaxCalls = 2
  None = None
  StubOf <- MCStubOfOne
SPECIFICATION Spec
INVARIANT AckIdentified
CHECK_DEADLOCK FALSE
