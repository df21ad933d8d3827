CONSTANTS
  ByteBits = 2
  IntBits = 4
  LongBits = 6
  Variables <- Extremes
  Constants <- Literals
  WidenNarrowed = FALSE
SPECIFICATION Spec
INVARIANTS TypeAsC ValueAsC ConstantsExtended
