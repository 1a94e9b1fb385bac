CONSTANTS
  Dim = 2
  MaxProcs = 3
  MinTag = 1
  MaxTag = 2
  Unbounded = 100
  Jobs <- MCJobs
SPECIFICATION Spec
INVARIANTS ExchangeTrue MessagesMatch
PROPERTY ExchangesEnd
CHECK_DEADLOCK FALSE
