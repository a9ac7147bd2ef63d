SPECIFICATION Spec
CONSTANTS
  UnsafeIndex = 9
  c1 = c1
  c2 = c2
  Clients = {c1, c2}
  MaxUsers = 1
  NoUser = NoUser
  MaxSends = 2
  MaxServerSends = 1
  MaxOpened = 1
INVARIANT
  SessionStream
PROPERTY ImplementsService
SYMMETRY Symmetry
CHECK_DEADLOCK FALSE
