SPECIFICATION Spec
CHECK_DEADLOCK FALSE
CONSTANTS
  a = a
  b = b
  k1 = k1
  k2 = k2
  m1 = m1
  m2 = m2
  NoCall = NoCall
  None = None
  Raised = Raised
  AsyncM = m1
  Calls <- TwoCalls
  Masters <- TwoMasters
  Closers <- NoClosers
  Programs <- OwnMasters
  Workers = 1
  MaxFailures = 0
INVARIANT SeparateCalls
