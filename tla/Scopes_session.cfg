CONSTANTS
  x = x
  y = y
  Names = {x, y}
  MaxSyms = 4
  MaxDepth = 3
  Dialects <- MCSession
SPECIFICATION Spec
INVARIANT LiveOnly
