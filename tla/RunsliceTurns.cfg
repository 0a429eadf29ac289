\* Round robin, while the program keeps calling run().
CONSTANTS
  Identifiers = {id1, id2}
  Callables = {f}
  Arguments = {}
  NullPtr = NullPtr
  Indeterminate = Indeterminate
  NoArguments = NoArguments
  MaxEntries = 2
  MaxDepth = 1
SPECIFICATION FairSpec
PROPERTY EveryHandlerGetsItsTurn
\* An assert that fails ends the process.
CHECK_DEADLOCK FALSE
