CONSTANTS
  x = x
  y = y
  Names = {x, y}
  MaxSyms = 4
  MaxDepth = 3
  Dialects <- MCDialects
SPECIFICATION Spec
INVARIANTS TypeOK LiveOnly GlobalReappears NoDuplicates
PROPERTY ScopesNest
