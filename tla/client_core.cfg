CONSTANTS
  a = a
  b = b
  Callers = {a, b}
  MaxProcs = 2
  MaxCalls <- TwoAndOne
  PipeCap = 1
  RestartOnCrash = TRUE
  Ops <- Mixed
  Sizes = {"small"}
  Replies = {"result", "garbage"}
SPECIFICATION Spec
INVARIANTS
  NoBlockedSend
  OwnAnswer
  NoLeakedProcess
  ClosedIsQuiet
  FailureIsOwn
PROPERTIES
  NeverReplayed
CHECK_DEADLOCK FALSE
