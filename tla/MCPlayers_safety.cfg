\* Three slots; four names, so that a full pool can still be renamed into a login in use.
SPECIFICATION Spec
CONSTANTS
  anna = anna
  bert = bert
  carl = carl
  dora = dora
  Ids = {i1, i2, i3}
  Names <- FourNames
  NoName = NoName
  Address <- Addresses
  AddrSize = 3
SYMMETRY PlayerSymmetry
INVARIANTS
  TypeOK
  RegistryIsPool
  InvalidMeansAbsent
  LoginsToldApart
PROPERTIES
  OneGoesByLogin
  ListIsPool
