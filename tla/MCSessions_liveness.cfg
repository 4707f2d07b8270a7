\* Two peers and one descriptor: the second connection can find none left.
SPECIFICATION FairSpec
CONSTANTS
  c1 = c1
  c2 = c2
  c3 = c3
  Clients <- TwoClients
  Descriptors = 1
  DebugBuild = TRUE
PROPERTIES
  SessionEnds
  TickReturns
\* An exception that leaves ProcessTick ends the process.
CHECK_DEADLOCK FALSE
