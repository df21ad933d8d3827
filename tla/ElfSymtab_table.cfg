\* Five names, rebuilds to 2 and then 4 buckets.
CONSTANTS
  n1 = n1 n2 = n2 n3 = n3 n4 = n4 n5 = n5 v1 = v1 v2 = v2
  Names = {n1, n2, n3, n4, n5}
  Values = {v1}
  ElfHash <- MCHash
  Contribution <- MCTableContribution
  Absent = Absent
  MaxSyms = 5
  MaxCalls = 5
  MaxPatched = 1
SPECIFICATION FairSpec
INVARIANTS TypeOK ChainsOK UniqueGlobals
PROPERTIES FindAnswers CallsReturn
