\* Every tree of depth two over two names, with files of one chunk.
CONSTANTS
  Names = {a, b}
  Chunks = {c}
  Missing = Missing
  Directory = Directory
  Closed = Closed
  MaxDepth = 2
  MaxRecorded = 3
SPECIFICATION Spec
INVARIANT TypeOK
\* An assert that fails ends the process.
CHECK_DEADLOCK FALSE
