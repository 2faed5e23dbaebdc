SPECIFICATION Spec
CONSTANTS
  Name = {n1, n2}
  Address = {a1}
  NxDomain = NxDomain
  NoData = NoData
  None = None
  Query = {q1, q2}
  Configured <- MCPlain
  MaxDepth = 1
  MinTTL = 1
  MaxTTL = 1
  MaxTime = 3
  MaxChanges = 1
  n1 = n1
  n2 = n2
  a1 = a1
SYMMETRY MCBoth
INVARIANTS
  TypeOK
  AnswersChained
  ServedAge
  NegativeHonest
