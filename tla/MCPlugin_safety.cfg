\* Ports of 4 bits, words of 6, longs of 12; sixteen ports, of which another process may have the seventh; every shape of the disk.
SPECIFICATION Spec
CONSTANTS
  Files <- MCFiles
  Unreadable = Unreadable
  Number <- MCNumber
  Ports = 16
  Words = 64
  Longs = 4096
  InUse = {{}, {7}}
  DebugBuild = TRUE
INVARIANTS
  TypeOK
  MadeBeforeUse
  LoadedIsWhole
  GivenUp
\* A refused, thrown or unloaded plugin has stopped.
CHECK_DEADLOCK FALSE
