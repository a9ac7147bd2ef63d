SPECIFICATION Spec
CONSTANTS
  UnsafeIndex = 9
  c1 = c1
  c2 = c2
  Clients = {c1, c2}
  MaxUsers = 2
  NoUser = NoUser
  MaxSends = 1
  MaxServerSends = 2
  MaxOpened = 1
SYMMETRY Symmetry
INVARIANT
  DownstreamKept
CHECK_DEADLOCK FALSE
