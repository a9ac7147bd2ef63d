SPECIFICATION Spec
CONSTANTS
  TicksPerSecond = 2
  ClientPoll = 1
  ServerPoll = 2
  Delay = 1
  MaxLosses = 1
  MaxClientThrows = 1
  MaxServerThrows = 1
  MaxLeft = 1
  MaxAborts = 1
INVARIANTS
  TypeOK
  KeptAlive
  DroppedInTime
