SPECIFICATION Spec
CONSTANTS
  Label <- MCLabel
  DomainLine <- MCDomains
  SuffixLine <- MCSuffixes
  Asked <- MCAsked
  List = {0, 1}
  Legacy = FALSE
  Root = Root
  Endpoint = {Root, 1}
  Client = {c1, c2}
  None = None
  com = com
  ex = ex
  www = www
  c1 = c1
  c2 = c2
SYMMETRY MCClients
CONSTRAINT MCBound
INVARIANTS
  TypeOK
  RoutingMatchesConfig
  AnswersTrue
