\* Three handles; nine bytes in allocations of two, three and nine.
SPECIFICATION Spec
CONSTANTS
  Handles = {h1, h2, h3}
  First = h1
  Size = 9
  Lengths = {2, 3, 9}
INVARIANTS
  TypeOK
  BlocksApart
  RewoundWhenEmpty
  MemoryStays
  RefusedOnlyWhenSpent
PROPERTY SpaceReturnsAtOnce
\* When the last handle is gone, nothing more happens.
CHECK_DEADLOCK FALSE
