\* One instance and whole messages.
CONSTANTS
  Instances = {i1}
  Descriptors = {3, 4}
  HeaderSize = 3
  BufferSize = 2
  Sizes = {0, 1}
  Uninitialised = {1, 10}
  MaxInbox = 8
  Reparameterise = FALSE
SPECIFICATION Spec
PROPERTY ReceiveReturnsThePayload
\* An assert that fails, a signal and undefined behaviour end the process.
CHECK_DEADLOCK FALSE
