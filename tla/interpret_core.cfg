CONSTANTS
  Length <- TwoLabels
  Group <- Office
  Inputs <- MCInputs
  Parses <- MCParses
  CallSeqs <- MCCallSeqs
  RawPlans <- MCRawPlans
SPECIFICATION Spec
INVARIANTS
  Grounded
  Cautious
  EffectKept
  RunnerPlansPass
