\* Objects of two libraries at the same address in their library.
CONSTANTS
  Code <- MCAliasCode
  World <- MCWorld
  OnceName = {"once"}
SPECIFICATION Spec
INVARIANTS RunTimeAgrees
CHECK_DEADLOCK FALSE
