\* One peer is enough: its request arrives in the tick in which its deadline expires.
SPECIFICATION Spec
CONSTANTS
  c1 = c1
  c2 = c2
  c3 = c3
  Clients <- TwoClients
  Descriptors = 2
  DebugBuild = FALSE
PROPERTY CloseCancelsRead
CHECK_DEADLOCK FALSE
