SPECIFICATION Spec
CONSTANTS
  UnsafeIndex = 9
  c1 = c1
  Clients = {c1}
  MaxUsers = 2
  NoUser = NoUser
  MaxSends = 3
  MaxServerSends = 2
  MaxOpened = 2
INVARIANTS
  TypeOK
  UniqueAddress
  ViewsAgree
  UpstreamKept
  GoodbyeKept
PROPERTIES
  ConnectsOnce
  ImplementsService
CHECK_DEADLOCK FALSE
