CONSTANTS
  a = a
  b = b
  Callers = {a, b}
  MaxCalls <- TwoAndOne
  MaxProcs = 3
  Ops = {"generate", "close", "cancel"}
  Sizes = {"small", "large"}
  Replies = {"result", "error", "garbage"}
SPECIFICATION FairSpec
INVARIANTS
  TypeOK
  OwnLine
  InStep
  OneRuntime
PROPERTIES
  NeverReplayed
  EveryOpReturns
  CancelReturns
