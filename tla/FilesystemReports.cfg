\* Every tree of depth one over one name: what the operations report.
CONSTANTS
  Names = {a}
  Chunks = {c}
  Missing = Missing
  Directory = Directory
  Closed = Closed
  MaxDepth = 1
  MaxRecorded = 2
SPECIFICATION Spec
PROPERTY SuccessMeansDone
\* An assert that fails ends the process.
CHECK_DEADLOCK FALSE
