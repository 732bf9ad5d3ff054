CONSTANTS
  a = a
  b = b
  Callers = {a, b}
  MaxCalls <- OneEach
  MaxProcs = 2
  Ops = {"generate", "close"}
  Sizes = {"small"}
  Replies = {"result"}
SPECIFICATION Spec
PROPERTIES
  StartsClean
