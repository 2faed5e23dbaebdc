SPECIFICATION Spec
CONSTANTS
  Entry = {d1}
  Backed = {d1}
  Static = {s1, s2}
  BackupOn = {s1}
  Caller = {c1, c2}
  NoCaller = NoCaller
  Unreadable = Unreadable
  None = None
  MaxLines = 1
  MaxFaults = 2
  d1 = d1
  s1 = s1
  s2 = s2
INVARIANTS
  TypeOK
  ConfigFileLoadable
  UnsavedAccounted
  MuHeldInside
  EditsSurvive
  BackupIsSavedVersion
PROPERTIES
  ImplementsAtomic
CHECK_DEADLOCK FALSE
