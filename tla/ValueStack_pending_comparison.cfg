CONSTANTS
  N = 4
  MaxTemps = 6
  REGN = 2
  Inputs <- MCInputs
  Languages <- MCPendingComparison
SPECIFICATION Spec
INVARIANT Faithful
