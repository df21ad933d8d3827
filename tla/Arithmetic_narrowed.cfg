CONSTANTS
  ByteBits = 2
  IntBits = 4
  LongBits = 6
  Variables <- Extremes
  Constants <- Literals
  WidenNarrowed = TRUE
SPECIFICATION Spec
INVARIANTS ValueAsC
