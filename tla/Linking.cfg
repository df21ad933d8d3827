\* Archives of up to two members, pairs of link-once objects, two libraries.
CONSTANTS
  Code <- MCCode
  World <- MCWorld
  OnceName = {"once"}
SPECIFICATION Spec
INVARIANTS Verdict RelocsMeant RunTimeAgrees
PROPERTIES LoadsOnDemand Terminates
CHECK_DEADLOCK FALSE
