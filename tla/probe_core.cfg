CONSTANTS
  Chunks = 6
  PartialAfter = 1
  PartialInterval = 2
SPECIFICATION FairSpec
INVARIANTS
  TypeOK
  OneInference
  Accounted
  BeforeRelease
PROPERTIES
  EndsClean
