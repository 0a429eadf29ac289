\* The queue is reordered while a runTask waits in join().
CONSTANTS
  Callers = {main}
  Lookups = {}
  TaskKinds <- PlainKinds
  Hardware = 2
  HalfShort = 4
  DuringCalls <- Operations
  MaxTasks = 2
  MaxThreads = 1
SPECIFICATION Spec
PROPERTY StartedTaskLeavesQueue
\* An assert that fails ends the process.
CHECK_DEADLOCK FALSE
