\* One name, every kind of symbol, three different contributions.
CONSTANTS
  n1 = n1 n2 = n2 n3 = n3 n4 = n4 n5 = n5 v1 = v1 v2 = v2
  Names = {n1}
  Values = {v1, v2}
  ElfHash <- MCHash
  Contribution <- MCKindContribution
  Absent = Absent
  MaxSyms = 2
  MaxCalls = 3
  MaxPatched = 0
SPECIFICATION Spec
INVARIANTS DuplicatesReported
PROPERTIES KeepsPromises VisibilityTightens
