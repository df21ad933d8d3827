CONSTANTS
  N = 4
  MaxTemps = 6
  REGN = 2
  Inputs <- MCInputs
  Languages <- MCLanguages
SPECIFICATION Spec
INVARIANTS TypeOK Faithful MemoryAgrees PathsAgree JumpsHeld ArgumentsPassed LazyOnlyOnTop
