SPECIFICATION Spec
CONSTANTS
  Entry = {d1}
  Backed = {d1}
  Static = {s1}
  BackupOn = {s1}
  Caller = {c1, c2}
  NoCaller = NoCaller
  Unreadable = Unreadable
  None = None
  MaxLines = 1
  MaxFaults = 0
  d1 = d1
  s1 = s1
  s2 = s2
PROPERTIES
  BackupCurrent
