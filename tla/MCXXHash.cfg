\* Two states, one a copy of the other at times; segments that fill, miss and jump both buffers;
\* a counter that goes round.
SPECIFICATION MCSpec
CONSTANTS
  States = {s1, s2}
  Seeds = {0}
  Lengths = {0, 11, 21, 66}
  Wrap = 32
  MaxFed = 77
SYMMETRY StateSymmetry
INVARIANTS
  TypeOK
  Accounted
  DigestIsOneShot
  Comparable
  TypeOK64
  Accounted64
  DigestIsOneShot64
  Comparable64
\* MaxFed bounds the input.
CHECK_DEADLOCK FALSE
