CONSTANTS
  Words = {"f", "g", "1", "ff", "fg", "f1", "gf", "gg", "g1", "1f", "1g", "11"}
  Numbers = {"1", "1f", "1g", "11"}
SPECIFICATION Spec
INVARIANTS ExpandedAsC ArgumentsFound StackAligned LaidOutAsABI BitFieldsApart CaseAsC
CHECK_DEADLOCK FALSE
