CONSTANTS
  MaxRequests = 3
  Attempts = 3
SPECIFICATION FairSpec
INVARIANTS
  TypeOK
  RuntimesReaped
  AllAnswered
PROPERTIES
  RequestsAnswered
  EndsWithHost
