CONSTANTS
  a = a
  b = b
  Callers = {a, b}
  MaxProcs = 2
  MaxCalls <- OneEach
  PipeCap = 1
  RestartOnCrash = TRUE
  Ops <- Ending
  Sizes = {"small"}
  Replies = {"result", "garbage"}
SPECIFICATION FairSpec
INVARIANTS
  TypeOK
  NoLostCall
PROPERTIES
  EveryOpReturns
  CancelReturns
  CloseReturns
