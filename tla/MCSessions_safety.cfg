\* Three peers compete for two descriptors: one can be queued behind two sessions.
SPECIFICATION Spec
CONSTANTS
  c1 = c1
  c2 = c2
  c3 = c3
  Clients <- ThreeClients
  Descriptors = 2
  DebugBuild = FALSE
SYMMETRY ClientSymmetry
INVARIANTS
  TypeOK
  DeadlineArmed
  ClosedIsQuiet
  ExchangeOrder
  OneIncoming
PROPERTIES
  RepliesInGameMode
  HungForever
  ImplementsConnections
\* An exception that leaves ProcessTick ends the process.
CHECK_DEADLOCK FALSE
