\* Two peers and one descriptor, so that an accept can fail; two slots and two names.
SPECIFICATION ServerSpec
CONSTANTS
  Clients = {c1, c2}
  Descriptors = 1
  DebugBuild = FALSE
  Ids = {i1, i2}
  Names = {anna, bert}
  NoName = NoName
INVARIANT
  EffectsAnswered
PROPERTY
  ImplementsCommands
\* An exception that leaves ProcessTick ends the process.
CHECK_DEADLOCK FALSE
