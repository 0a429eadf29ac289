\* Two instances and a table of three descriptors, shared with other files.
CONSTANTS
  Instances = {i1, i2}
  Descriptors = {3, 4, 5}
  HeaderSize = 3
  BufferSize = 2
  Sizes = {0, 10}
  Uninitialised = {10}
  MaxInbox = 3
  Reparameterise = FALSE
SPECIFICATION Spec
INVARIANT TypeOK
INVARIANT EstablishedOwnsItsConnection
PROPERTY ImplementsConnections
\* An assert that fails, a signal and undefined behaviour end the process.
CHECK_DEADLOCK FALSE
