CONSTANTS
  Modes = {"rules", "model", "hybrid"}
  MaxCases = 2
SPECIFICATION Spec
INVARIANTS
  ReportAddsUp
