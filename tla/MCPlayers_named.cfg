\* One player and two names are enough.
SPECIFICATION Spec
CONSTANTS
  anna = anna
  bert = bert
  carl = carl
  dora = dora
  Ids = {i1, i2}
  Names <- TwoNames
  NoName = NoName
  Address <- Addresses
  AddrSize = 3
PROPERTY NamedPlayerGoes
