\* Two callers meet in runTask.
CONSTANTS
  Callers = {main, worker}
  Lookups = {}
  TaskKinds <- PlainKinds
  Hardware = 2
  HalfShort = 3
  DuringCalls = {}
  MaxTasks = 2
  MaxThreads = 1
SPECIFICATION Spec
PROPERTY LoserMovesOn
\* An assert that fails ends the process.
CHECK_DEADLOCK FALSE
