SPECIFICATION FairSpec
CONSTANTS
  p1 = p1
  Packages = {p1}
  DelayMs = 1
  HalfSecond <- MCHalfSecond
  TimeOut <- MCTimeOut
  Lag = 1
  MaxInbox = 2
INVARIANTS
  TypeOK
  InTime
  ResentInTime
PROPERTY EarlyAnswerReturns
CHECK_DEADLOCK FALSE
