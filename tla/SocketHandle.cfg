SPECIFICATION Spec
CONSTANTS
  s1 = s1
  s2 = s2
  s3 = s3
  Sockets = {s1, s2, s3}
  MaxFd = 4
  MaxOpened = 3
SYMMETRY Symmetry
INVARIANTS
  TypeOK
  OwnSocket
  EndedByItself
  NoLeak
CHECK_DEADLOCK FALSE
