SPECIFICATION Spec
CONSTANTS
  Name = {n1, n2}
  Address = {a1}
  Routable = {a1}
  Client = {c1, c2}
  Ttl <- MCTtl
  Timeout = 5
  NoSoa = NoSoa
  Pause <- MCPause
  None = None
SYMMETRY MCSymmetry
INVARIANTS
  TypeOK
  RoutedWhileUsed
  DrainsInAnHour
PROPERTIES
  LifetimesBounded
