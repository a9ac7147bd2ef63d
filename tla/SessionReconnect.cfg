SPECIFICATION Spec
CONSTANTS
  UnsafeIndex = 9
  c1 = c1
  Clients = {c1}
  MaxUsers = 1
  NoUser = NoUser
  MaxSends = 3
  MaxServerSends = 1
  MaxOpened = 2
PROPERTY ConnectReturnsConnected
CHECK_DEADLOCK FALSE
