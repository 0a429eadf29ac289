\* Two files, each missing, empty, written or a directory at first.
CONSTANTS
  FileNames = {f, g}
  Chunks = {c}
  Missing = Missing
  Directory = Directory
  Closed = Closed
  NoObject = NoObject
  MaxLength = 3
SPECIFICATION Spec
INVARIANT TypeOK
INVARIANT GoodStreamIsTheNamedFile
PROPERTY BufferReachesItsFile
\* An assert that fails ends the process.
CHECK_DEADLOCK FALSE
