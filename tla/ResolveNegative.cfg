SPECIFICATION Spec
CONSTANTS
  Name = {n1}
  Address = {a1}
  NxDomain = NxDomain
  NoData = NoData
  None = None
  Query = {q1}
  Configured <- MCPlain
  MaxDepth = 1
  MinTTL = 1
  MaxTTL = 1
  MaxTime = 1
  MaxChanges = 0
  n1 = n1
  n2 = n2
  a1 = a1
INVARIANTS
  SuccessConfirmed
