SPECIFICATION FairSpec
CONSTANTS
  UnsafeIndex <- MCUnsafeIndex
  MaxCommands <- MCMaxCommands
  d1 = d1
  d2 = d2
  Data = {d1, d2}
INVARIANTS
  TypeOK
  InOrderExactlyOnce
  NothingForgotten
  EndsAgree
PROPERTIES
  LostConfirmIsFinal
  ImplementsFairFifo
