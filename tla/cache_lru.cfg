SPECIFICATION HSpec
CONSTANTS
  Associativity = 2
  LineBytes = 2
  NumSets = 2
  NumTags = 4
  CtrMod = 16
  TraceLen = 5
  Addresses = {0, 4, 9, 2}
  Policies <- AllPolicies
  Quotas = {0, 2}
INVARIANT LRUStack
PROPERTY ImplementsLRU
