CONSTANTS
  X = X f1 = f1 f2 = f2
  Files = {f1, f2}
  Main = Main
  None = None
  Macros = {X}
  Dialects <- MCDialects
  IncludeDepth = 3
  IfDepth = 4
SPECIFICATION FairSpec
INVARIANTS TypeOK ActiveLines CacheSound
PROPERTIES OncePerUnit Verdicts UnitEnds
