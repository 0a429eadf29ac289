\* Two callers, a common variable, and joined, detached and
\* permanent tasks that use it.
CONSTANTS
  Callers = {main, worker}
  Lookups = {v}
  TaskKinds <- SharingKinds
  Hardware = 2
  HalfShort = 3
  DuringCalls <- Orderly
  MaxTasks = 2
  MaxThreads = 1
SYMMETRY Symmetry
SPECIFICATION Spec
INVARIANT TypeOK
INVARIANT CountMatchesQueue
INVARIANT IdLedger
INVARIANT FlagIsHeldByOneJoin
PROPERTY StartedTaskLeavesQueue
PROPERTY QueueGrowsAtTheFront
\* An assert that fails ends the process.
CHECK_DEADLOCK FALSE
