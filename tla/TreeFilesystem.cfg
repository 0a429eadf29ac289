\* Every tree of depth one over two names.
CONSTANTS
  Names = {a, b}
  Chunks = {c}
  Missing = Missing
  Directory = Directory
  Closed = Closed
  MaxDepth = 1
  MaxRecorded = 3
  Hosts = {h}
  MaxChildren = 2
  MaxLevels = 3
SPECIFICATION TreeSpec
INVARIANT TreeTypeOK
PROPERTY NullParentIsNeverFollowed
\* An assert that fails and undefined behaviour end the process.
CHECK_DEADLOCK FALSE
