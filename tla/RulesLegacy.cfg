SPECIFICATION Spec
CONSTANTS
  Label <- MCLabel
  DomainLine <- MCDomains
  SuffixLine <- MCSuffixes
  Asked <- MCAsked
  List = {0}
  Legacy = TRUE
  Root = Root
  Endpoint = {Root}
  Client = {c1}
  None = None
  com = com
  ex = ex
  www = www
  c1 = c1
  c2 = c2
SYMMETRY MCClients
INVARIANTS
  RoutingMatchesConfig
