SPECIFICATION FairSpec
CONSTANTS
  Addr = {a1, a2}
  Request = {r1, r2}
  MaxQuestions = 1
INVARIANTS
  TypeOK
  GracefulExit
  StopWaitsForWatched
PROPERTIES
  ShutdownEnds
CHECK_DEADLOCK FALSE
