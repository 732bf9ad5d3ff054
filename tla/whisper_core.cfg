CONSTANTS
  a = a
  b = b
  Callers = {a, b}
  MaxCalls <- OneEach
  MaxProcs = 3
  Ops = {"transcribe", "start", "close", "cancel"}
SPECIFICATION FairSpec
INVARIANTS
  TypeOK
  NoOrphan
  ClosedIsFinal
  WorksOnCurrent
PROPERTIES
  NeverReplayed
  EveryOpReturns
  CancelReturns
