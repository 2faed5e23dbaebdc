SPECIFICATION FairSpec
CONSTANTS
  Name = {n1, n2}
  Address = {a1}
  NxDomain = NxDomain
  NoData = NoData
  None = None
  Query = {q1}
  Configured <- MCMixed
  MaxDepth = 2
  MinTTL = 1
  MaxTTL = 1
  MaxTime = 1
  MaxChanges = 1
  n1 = n1
  n2 = n2
  a1 = a1
PROPERTIES
  QuestionsAnswered
  StepsRunOut
INVARIANTS
  EncryptedFirst
