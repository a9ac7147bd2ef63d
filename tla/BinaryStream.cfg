SPECIFICATION Spec
CONSTANTS
  Capacity = 9
  IndexLimit = 20
  Values = {0, 1}
  MaxBlock = 2
  Junk = Junk
INVARIANTS
  TypeOK
  StaysInside
  ReadsBack
  EndsWhereWritten
CHECK_DEADLOCK FALSE
