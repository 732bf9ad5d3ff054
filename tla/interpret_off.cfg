CONSTANTS
  Length <- TwoLabels
  Group <- Office
  Inputs <- MCInputs
  Parses <- MCParses
  CallSeqs <- MCCallSeqs
  RawPlans <- MCRawPlans
SPECIFICATION Spec
INVARIANT
  OffWins
