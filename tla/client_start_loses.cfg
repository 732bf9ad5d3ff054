CONSTANTS
  a = a
  b = b
  Callers = {a, b}
  MaxProcs = 1
  MaxCalls <- OneEach
  PipeCap = 1
  RestartOnCrash = TRUE
  Ops <- Starting
  Sizes = {"small"}
  Replies = {"result"}
SPECIFICATION FairSpec
PROPERTIES
  EveryOpReturns
CHECK_DEADLOCK FALSE
