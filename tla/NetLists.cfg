SPECIFICATION FairSpec
CONSTANTS
  V4 = {x1, x2}
  V6 = {y1}
  Configured = 0
  Default = 2
  Forever = Forever
  Client = {c1, c2}
  None = None
INVARIANTS
  TypeOK
  SetsMatchConfig
PROPERTIES
  StraysExpire
  StraysRunDown
