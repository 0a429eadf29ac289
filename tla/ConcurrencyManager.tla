------------------------ MODULE ConcurrencyManager ------------------------
(***************************************************************************)
(* concurrency_manager (defs_concurrency.h): tasks are queued and each     *)
(* call of runTask starts the one at the back of the queue in a thread of  *)
(* its own, which it joins or detaches.  Common variables are enlisted by  *)
(* name and counted by the tasks that use them.                            *)
(*                                                                         *)
(* Only runTask is guarded (an atomic_flag); it is two steps when it joins *)
(* its thread: the thread it waits for, and other callers, use the manager *)
(* in between.  All other operations are taken as one step: the class has  *)
(* no lock for them, so a program that overlaps two of them races.         *)
(*                                                                         *)
(* enlistCommonVariable is modelled as written; its body does not          *)
(* instantiate (atomic_flag has no assignment).                            *)
(***************************************************************************)
EXTENDS DebugStatus, SequencesExt

CONSTANTS
  Callers,    \* threads that start tasks
  Lookups,    \* names of common variables
  TaskKinds,  \* what enqueueTask is called with: see AllTaskKinds
  Hardware,   \* thread::hardware_concurrency()
  HalfShort,  \* a short holds -HalfShort .. HalfShort - 1; 2^15 in the build
  DuringCalls, \* operations threads use while a caller is inside a call
  MaxTasks,   \* bound on the queue
  MaxThreads  \* bound on detached threads

AllTaskKinds ==
  [join : BOOLEAN, permanent : BOOLEAN, reoccuring : BOOLEAN,
   parameters : SUBSET Lookups]

Reordering == {"forwardTasks", "enqueuePermanent"}

Operations == Reordering \cup
  {"enqueueTask", "commonVariables", "setTasks", "endTasks", "setAllTasks",
   "endAllTasks"}

ASSUME ConcurrencyAssumption ==
  /\ TaskKinds \subseteq AllTaskKinds
  /\ Hardware \in Nat /\ HalfShort \in Nat /\ MaxTasks \in Nat
  /\ MaxThreads \in Nat /\ MaxTasks < HalfShort /\ 1 < HalfShort
  /\ DuringCalls \subseteq Operations

VARIABLES
  concurrency_critical_section,
  concurrency_permanent_thread_count,
  concurrency_scheduled_thread_count,
  concurrency_running_scheduled_tasks,
  concurrency_primary_launch_ran,
  concurrency_scheduled_exit_set,
  concurrency_permanent_exit_set,
  concurrency_local_thread_count,
  concurrency_system_parameters, \* lookup -> see Variables
  concurrency_task_queue,        \* front of the list first
  concurrency_last_id_death,     \* top of the stack first
  callers,                       \* what each caller is doing
  detached                       \* detached threads still running

counterVars == <<concurrency_permanent_thread_count,
                 concurrency_scheduled_thread_count,
                 concurrency_running_scheduled_tasks,
                 concurrency_local_thread_count>>
flagVars == <<concurrency_primary_launch_ran, concurrency_scheduled_exit_set,
              concurrency_permanent_exit_set>>
taskVars == <<concurrency_task_queue, concurrency_last_id_death>>
threadVars == <<concurrency_critical_section, callers, detached>>
stateVars == <<counterVars, flagVars, taskVars, threadVars,
               concurrency_system_parameters>>
vars == <<stateVars, debugVars>>

concurrency_local_errors ==
  <<"Cannot enlist common variable", "Cannot remove common variable",
    "Cannot get common variable lock", "Cannot run task">>

cannot_enlist_common_variable == 0
cannot_remove_common_variable == 1
cannot_get_common_variable_lock == 2
cannot_run_task == 3

fail(code) == setReturnCode(concurrency_local_errors, code)

(***************************************************************************)
(* Conversion to short.                                                    *)
(***************************************************************************)
Short(n) == ((n + HalfShort) % (2 * HalfShort)) - HalfShort

(***************************************************************************)
(* A task: id is task_id; stale: a common variable it points to was erased.*)
(***************************************************************************)
Tasks ==
  [id : Int, kind : AllTaskKinds, stale : BOOLEAN]

(***************************************************************************)
(* A common variable: its lock, its access count and the pointers to its   *)
(* lock that threads have been given and may still use.                    *)
(***************************************************************************)
Variables ==
  [enlisted : BOOLEAN, locked : BOOLEAN, count : Int,
   pointers : SUBSET {"valid", "dangling"}]

NoVariable ==
  [enlisted |-> FALSE, locked |-> FALSE, count |-> 0, pointers |-> {}]

Enlisted == {v \in Lookups : concurrency_system_parameters[v].enlisted}

CallerStates ==
  [op : {"idle", "runTask", "forceTasks", "setAllTasks"}, left : Nat,
   ignore : BOOLEAN, joining : BOOLEAN, poped_task : Int]

Idle == [op |-> "idle", left |-> 0, ignore |-> FALSE, joining |-> FALSE,
         poped_task |-> 0]

Joining == {c \in Callers : callers[c].joining}

(***************************************************************************)
(* A caller: left counts the calls of runTask still to make, poped_task is *)
(* the id of the task a joining caller started.                            *)
(***************************************************************************)
Calling(op, left, ignore_allocation) ==
  [Idle EXCEPT !.op = op, !.left = left, !.ignore = ignore_allocation]

(***************************************************************************)
(* What threads do while a caller is inside runTask, forceTasks or         *)
(* setAllTasks, the thread it waits for included, is up to the program.    *)
(***************************************************************************)
May(operation) ==
  /\ process = "running"
  /\ (\A c \in Callers : callers[c] = Idle) \/ operation \in DuringCalls

Abort ==
  /\ process' = "aborted"
  /\ UNCHANGED <<stateVars, debug_class_return_code>>

Undefined ==
  /\ process' = "undefined"
  /\ UNCHANGED <<stateVars, debug_class_return_code>>

Init ==
  /\ InitDebug
  /\ concurrency_critical_section = FALSE
  /\ concurrency_permanent_thread_count = 1
  /\ concurrency_scheduled_thread_count = 0
  /\ concurrency_running_scheduled_tasks = 0
  /\ concurrency_primary_launch_ran = FALSE
  /\ concurrency_scheduled_exit_set = FALSE
  /\ concurrency_permanent_exit_set = FALSE
  /\ concurrency_local_thread_count = 0
  /\ concurrency_system_parameters = [v \in Lookups |-> NoVariable]
  /\ concurrency_task_queue = <<>>
  /\ concurrency_last_id_death = <<>>
  /\ callers = [c \in Callers |-> Idle]
  /\ detached = 0

----------------------------------------------------------------------------
(***************************************************************************)
(* Common variables.                                                       *)
(***************************************************************************)
enlistCommonVariable(v, get_lock) ==
  /\ May("commonVariables")
  /\ IF v \in Enlisted
       THEN /\ fail(cannot_enlist_common_variable)
            /\ UNCHANGED stateVars
       ELSE /\ concurrency_system_parameters' =
                 [concurrency_system_parameters EXCEPT
                    ![v].enlisted = TRUE,
                    ![v].pointers = @ \cup IF get_lock THEN {"valid"} ELSE {}]
            /\ UNCHANGED <<counterVars, flagVars, taskVars, threadVars, debugVars>>

Stale(task, v) ==
  [task EXCEPT !.stale = task.stale \/ v \in task.kind.parameters]

Removable(v) ==
  /\ v \in Enlisted
  /\ ~ concurrency_system_parameters[v].locked
  /\ concurrency_system_parameters[v].count = 0

(***************************************************************************)
(* v is erased: pointers to its lock dangle, tasks that use it are stale.  *)
(***************************************************************************)
Erase(v) ==
  /\ concurrency_system_parameters' =
       [concurrency_system_parameters EXCEPT
          ![v] = [NoVariable EXCEPT !.pointers =
                    {"dangling" : p \in concurrency_system_parameters[v].pointers}]]
  /\ concurrency_task_queue' =
       [k \in 1 .. Len(concurrency_task_queue) |->
          Stale(concurrency_task_queue[k], v)]
  /\ UNCHANGED <<counterVars, flagVars, concurrency_last_id_death, threadVars,
                 debugVars>>

(***************************************************************************)
(* The lock is given back through the iterator that was just erased (line  *)
(* 303): a write to freed memory, which may go unnoticed or not.           *)
(***************************************************************************)
removeCommonVariable(v) ==
  /\ May("commonVariables")
  /\ IF Removable(v)
       THEN Erase(v) \/ Undefined
       ELSE /\ fail(cannot_remove_common_variable)
            /\ UNCHANGED stateVars

(***************************************************************************)
(* getCommonVariableLock hands out the pointer and takes no lock.          *)
(***************************************************************************)
getCommonVariableLock(v) ==
  /\ May("commonVariables")
  /\ IF v \in Enlisted
       THEN /\ concurrency_system_parameters' =
                 [concurrency_system_parameters EXCEPT
                    ![v].pointers = @ \cup {"valid"}]
            /\ UNCHANGED <<counterVars, flagVars, taskVars, threadVars, debugVars>>
       ELSE /\ fail(cannot_get_common_variable_lock)
            /\ UNCHANGED stateVars

(***************************************************************************)
(* The program takes and gives back a lock through a pointer it was given; *)
(* nobody tells it that the variable has been removed since.               *)
(***************************************************************************)
lockCommonVariable(v) ==
  /\ May("commonVariables")
  /\ \/ /\ "valid" \in concurrency_system_parameters[v].pointers
        /\ ~ concurrency_system_parameters[v].locked
        /\ concurrency_system_parameters' =
             [concurrency_system_parameters EXCEPT ![v].locked = TRUE]
        /\ UNCHANGED <<counterVars, flagVars, taskVars, threadVars, debugVars>>
     \/ /\ "dangling" \in concurrency_system_parameters[v].pointers
        /\ Undefined

releaseCommonVariable(v) ==
  /\ May("commonVariables")
  /\ concurrency_system_parameters[v].locked
  /\ concurrency_system_parameters' =
       [concurrency_system_parameters EXCEPT ![v].locked = FALSE]
  /\ UNCHANGED <<counterVars, flagVars, taskVars, threadVars, debugVars>>

----------------------------------------------------------------------------
(***************************************************************************)
(* Tasks.  is_exit points to the exit flag of the task's class.            *)
(***************************************************************************)
is_exit(kind) ==
  IF kind.permanent THEN concurrency_permanent_exit_set
                    ELSE concurrency_scheduled_exit_set

(***************************************************************************)
(* The destructor asserts that a permanent task ends after its exit flag   *)
(* is set.  A reoccuring task is queued again, through a new local task    *)
(* whose own destructor does the same: the recursion has no end.           *)
(***************************************************************************)
DestructorAsserts(kind) == kind.permanent => is_exit(kind)

DestructorRecurses(kind) == kind.reoccuring /\ ~ is_exit(kind)

ConstructorAsserts(kind) ==
  /\ kind.permanent => ~ concurrency_primary_launch_ran
  /\ kind.parameters \subseteq Enlisted

(***************************************************************************)
(* Mutant of NewId: dead ids are not used again.                           *)
(***************************************************************************)
FreshId == Short(concurrency_local_thread_count + 1)

NewId ==
  IF concurrency_last_id_death # <<>>
    THEN Head(concurrency_last_id_death)
    ELSE Short(concurrency_local_thread_count + 1)

(***************************************************************************)
(* Mutant of Queued: every task is put where the next one is taken from.   *)
(***************************************************************************)
QueuedAtBack(task) == Append(concurrency_task_queue, task)

(***************************************************************************)
(* Permanent tasks are put at the back, the others at the front.           *)
(***************************************************************************)
Queued(task) ==
  IF task.kind.permanent THEN Append(concurrency_task_queue, task)
                         ELSE Cons(task, concurrency_task_queue)

(***************************************************************************)
(* enqueueTask builds a local task, copies it into the queue and destroys  *)
(* it: the constructor's increments of the access counts are undone, the   *)
(* count of running tasks is decremented.                                  *)
(***************************************************************************)
enqueueTask(kind) ==
  LET task == [id |-> NewId, kind |-> kind, stale |-> FALSE]
  IN  /\ May(IF kind.permanent THEN "enqueuePermanent" ELSE "enqueueTask")
      /\ Len(concurrency_task_queue) < MaxTasks
      /\ IF ~ ConstructorAsserts(kind) \/ ~ DestructorAsserts(kind)
           THEN Abort
           ELSE IF DestructorRecurses(kind)
             THEN Undefined
             ELSE /\ concurrency_task_queue' = Queued(task)
                  /\ concurrency_last_id_death' =
                       IF concurrency_last_id_death = <<>> THEN <<>>
                         ELSE Tail(concurrency_last_id_death)
                  /\ concurrency_local_thread_count' =
                       Short(concurrency_local_thread_count + 1)
                  /\ concurrency_permanent_thread_count' =
                       IF kind.permanent
                         THEN Short(concurrency_permanent_thread_count + 1)
                         ELSE concurrency_permanent_thread_count
                  /\ concurrency_scheduled_thread_count' =
                       IF kind.permanent
                         THEN concurrency_scheduled_thread_count
                         ELSE Short(concurrency_scheduled_thread_count + 1)
                  /\ concurrency_running_scheduled_tasks' =
                       Short(concurrency_running_scheduled_tasks - 1)
                  /\ UNCHANGED <<flagVars, threadVars, debugVars,
                                 concurrency_system_parameters>>

(***************************************************************************)
(* The sort of forwardTasks: its comparison is TRUE whenever its first     *)
(* argument is not selected, which is no order; list::sort then leaves the *)
(* selected tasks at the back, in order, and reverses the others.  The     *)
(* task at j comes to stand before the one at k when SortedBefore.         *)
(***************************************************************************)
SortedBefore(queue, task_ids, j, k) ==
  IF queue[k].id \in task_ids
    THEN queue[j].id \in task_ids => j < k
    ELSE queue[j].id \notin task_ids /\ j > k

SortedPlace(queue, task_ids, k) ==
  1 + Cardinality({j \in 1 .. Len(queue) : SortedBefore(queue, task_ids, j, k)})

Forwarded(queue, task_ids) ==
  [n \in 1 .. Len(queue) |->
     queue[CHOOSE k \in 1 .. Len(queue) : SortedPlace(queue, task_ids, k) = n]]

forwardTasks(task_ids) ==
  /\ May("forwardTasks")
  /\ IF ~ concurrency_primary_launch_ran
       THEN Abort
       ELSE /\ concurrency_task_queue' =
                 Forwarded(concurrency_task_queue, task_ids)
            /\ UNCHANGED <<counterVars, flagVars, concurrency_last_id_death,
                           threadVars, debugVars,
                           concurrency_system_parameters>>

setTasks ==
  /\ May("setTasks")
  /\ IF ~ concurrency_primary_launch_ran
       THEN Abort
       ELSE /\ concurrency_scheduled_exit_set' = FALSE
            /\ UNCHANGED <<counterVars, concurrency_primary_launch_ran, taskVars,
                           concurrency_permanent_exit_set, threadVars, debugVars,
                           concurrency_system_parameters>>

endTasks ==
  /\ May("endTasks")
  /\ IF ~ concurrency_primary_launch_ran
       THEN Abort
       ELSE /\ concurrency_scheduled_exit_set' = TRUE
            /\ UNCHANGED <<counterVars, concurrency_primary_launch_ran, taskVars,
                           concurrency_permanent_exit_set, threadVars, debugVars,
                           concurrency_system_parameters>>

endAllTasks ==
  /\ May("endAllTasks")
  /\ IF ~ concurrency_primary_launch_ran
       THEN Abort
       ELSE /\ concurrency_scheduled_exit_set' = TRUE
            /\ concurrency_permanent_exit_set' = TRUE
            /\ concurrency_primary_launch_ran' = FALSE
            /\ UNCHANGED <<counterVars, taskVars, threadVars, debugVars,
                           concurrency_system_parameters>>

----------------------------------------------------------------------------
(***************************************************************************)
(* Callers of runTask: once, or in the loops of forceTasks and setAllTasks.*)
(***************************************************************************)
runTaskCall(c, ignore_allocation) ==
  /\ process = "running"
  /\ callers[c] = Idle
  /\ callers' = [callers EXCEPT ![c] = Calling("runTask", 1, ignore_allocation)]
  /\ UNCHANGED <<counterVars, flagVars, taskVars, concurrency_critical_section,
                 detached, debugVars, concurrency_system_parameters>>

forceTasksCall(c, task_ids) ==
  /\ May("forwardTasks")
  /\ callers[c] = Idle
  /\ task_ids # {}
  /\ IF ~ concurrency_primary_launch_ran
       THEN Abort
       ELSE /\ concurrency_task_queue' =
                 Forwarded(concurrency_task_queue, task_ids)
            /\ callers' = [callers EXCEPT ![c] =
                 Calling("forceTasks", Cardinality(task_ids), TRUE)]
            /\ UNCHANGED <<counterVars, flagVars, concurrency_last_id_death,
                           concurrency_critical_section, detached, debugVars,
                           concurrency_system_parameters>>

setAllTasksCall(c) ==
  /\ May("setAllTasks")
  /\ callers[c] = Idle
  /\ callers' = [callers EXCEPT ![c] =
       Calling("setAllTasks", Len(concurrency_task_queue), FALSE)]
  /\ UNCHANGED <<counterVars, flagVars, taskVars, concurrency_critical_section,
                 detached, debugVars, concurrency_system_parameters>>

LoopOver(c) == callers[c].left = 0

(***************************************************************************)
(* The loop is over: setAllTasks sets its flags.                           *)
(***************************************************************************)
callReturns(c) ==
  /\ process = "running"
  /\ callers[c].op # "idle" /\ LoopOver(c)
  /\ callers' = [callers EXCEPT ![c] = Idle]
  /\ IF callers[c].op = "setAllTasks"
       THEN /\ concurrency_scheduled_exit_set' = FALSE
            /\ concurrency_permanent_exit_set' = FALSE
            /\ concurrency_primary_launch_ran' = TRUE
       ELSE UNCHANGED flagVars
  /\ UNCHANGED <<counterVars, taskVars, concurrency_critical_section, detached,
                 debugVars, concurrency_system_parameters>>

(***************************************************************************)
(* setResources: the recommended number of threads.                        *)
(***************************************************************************)
concurrency_cpu_count ==
  LET c == Short(Hardware - concurrency_permanent_thread_count)
  IN  CASE c > 0 -> c
        [] c = 0 -> 1
        [] OTHER -> Short(c + 2)

available_task_allocation ==
  Short(concurrency_cpu_count - concurrency_running_scheduled_tasks)

MayStart(ignore_allocation) == available_task_allocation > 0 \/ ignore_allocation

(***************************************************************************)
(* pop_back destroys whatever task is at the back NOW; running is the      *)
(* count of running tasks before.                                          *)
(***************************************************************************)
PopBack(running) ==
  LET task == Last(concurrency_task_queue)
  IN  /\ concurrency_task_queue' = Front(concurrency_task_queue)
      /\ concurrency_running_scheduled_tasks' = Short(running - 1)
      /\ concurrency_system_parameters' =
           [v \in Lookups |->
              IF v \in task.kind.parameters
                THEN [concurrency_system_parameters[v] EXCEPT
                        !.count = Short(@ - 1)]
                ELSE concurrency_system_parameters[v]]

DestructionUndefined(task) ==
  DestructorRecurses(task.kind) \/ task.stale

(***************************************************************************)
(* Mutant of Startable: the flag is not tested.                            *)
(***************************************************************************)

StartableUnguarded(ignore_allocation) ==
  /\ ~ concurrency_scheduled_exit_set
  /\ concurrency_task_queue # <<>>
  /\ MayStart(ignore_allocation)

(***************************************************************************)
(* One runTask, up to the join.  Contention for the flag, a set exit flag  *)
(* (the flag then stays taken), an empty queue and a full pool are all     *)
(* reported with the same code.                                            *)
(***************************************************************************)
Startable(ignore_allocation) ==
  /\ ~ concurrency_critical_section
  /\ ~ concurrency_scheduled_exit_set
  /\ concurrency_task_queue # <<>>
  /\ MayStart(ignore_allocation)

(***************************************************************************)
(* Mutant of Launch: the count of tasks is not decremented.                *)
(***************************************************************************)

LaunchUncounted(task) ==
  /\ concurrency_local_thread_count' = concurrency_local_thread_count
  /\ concurrency_last_id_death' = Cons(task.id, concurrency_last_id_death)
  /\ concurrency_scheduled_thread_count' =
       IF task.kind.permanent THEN concurrency_scheduled_thread_count
         ELSE Short(concurrency_scheduled_thread_count - 1)

Launch(task) ==
  /\ concurrency_local_thread_count' = Short(concurrency_local_thread_count - 1)
  /\ concurrency_last_id_death' = Cons(task.id, concurrency_last_id_death)
  /\ concurrency_scheduled_thread_count' =
       IF task.kind.permanent THEN concurrency_scheduled_thread_count
         ELSE Short(concurrency_scheduled_thread_count - 1)

(***************************************************************************)
(* Mutant of NextTask: the front of the queue is started, the back popped. *)
(***************************************************************************)
NextTaskAtFront == Head(concurrency_task_queue)

NextTask == Last(concurrency_task_queue)

runTask(c) ==
  LET task == NextTask
  IN  /\ process = "running"
      /\ callers[c].left > 0 /\ ~ callers[c].joining
      /\ detached < MaxThreads
      /\ IF ~ Startable(callers[c].ignore)
           THEN /\ fail(cannot_run_task)
                /\ concurrency_critical_section' =
                     (concurrency_critical_section \/ concurrency_scheduled_exit_set)
                /\ UNCHANGED <<counterVars, flagVars, taskVars, callers, detached,
                               concurrency_system_parameters>>
           ELSE IF task.stale
             THEN Undefined
             ELSE IF task.kind.join
               THEN /\ Launch(task)
                    /\ concurrency_running_scheduled_tasks' =
                         Short(concurrency_running_scheduled_tasks + 1)
                    /\ concurrency_critical_section' = TRUE
                    /\ callers' = [callers EXCEPT ![c].joining = TRUE,
                                                  ![c].poped_task = task.id]
                    /\ UNCHANGED <<flagVars, concurrency_task_queue, detached,
                                   concurrency_permanent_thread_count,
                                   concurrency_system_parameters, debugVars>>
               ELSE IF ~ DestructorAsserts(task.kind)
                 THEN Abort
                 ELSE IF DestructionUndefined(task)
                   THEN Undefined
                   ELSE /\ Launch(task)
                        /\ PopBack(concurrency_running_scheduled_tasks + 1)
                        /\ detached' = detached + 1
                        /\ callers' = [callers EXCEPT ![c].left = @ - 1]
                        /\ UNCHANGED <<flagVars, concurrency_critical_section,
                                       concurrency_permanent_thread_count,
                                       debugVars>>

(***************************************************************************)
(* The joined thread has ended: the rest of runTask.                       *)
(***************************************************************************)
joinReturns(c) ==
  LET task == Last(concurrency_task_queue)
  IN  /\ process = "running"
      /\ callers[c].joining
      /\ IF ~ DestructorAsserts(task.kind)
           THEN Abort
           ELSE IF DestructionUndefined(task)
             THEN Undefined
             ELSE /\ PopBack(concurrency_running_scheduled_tasks)
                  /\ concurrency_critical_section' = FALSE
                  /\ callers' = [callers EXCEPT ![c].left = @ - 1,
                                                ![c].joining = FALSE,
                                                ![c].poped_task = 0]
                  /\ UNCHANGED <<flagVars, concurrency_last_id_death, detached,
                                 concurrency_permanent_thread_count,
                                 concurrency_scheduled_thread_count,
                                 concurrency_local_thread_count, debugVars>>

threadEnds ==
  /\ process = "running"
  /\ detached > 0
  /\ detached' = detached - 1
  /\ UNCHANGED <<counterVars, flagVars, taskVars, callers, debugVars,
                 concurrency_critical_section, concurrency_system_parameters>>

----------------------------------------------------------------------------
TaskIds == 1 .. MaxTasks

Next ==
  \/ \E v \in Lookups, get_lock \in BOOLEAN : enlistCommonVariable(v, get_lock)
  \/ \E v \in Lookups : removeCommonVariable(v)
  \/ \E v \in Lookups : getCommonVariableLock(v)
  \/ \E v \in Lookups : lockCommonVariable(v)
  \/ \E v \in Lookups : releaseCommonVariable(v)
  \/ \E kind \in TaskKinds : enqueueTask(kind)
  \/ \E ids \in SUBSET TaskIds : forwardTasks(ids)
  \/ setTasks
  \/ endTasks
  \/ endAllTasks
  \/ \E c \in Callers, ignore \in BOOLEAN : runTaskCall(c, ignore)
  \/ \E c \in Callers, ids \in SUBSET TaskIds : forceTasksCall(c, ids)
  \/ \E c \in Callers : setAllTasksCall(c)
  \/ \E c \in Callers : callReturns(c)
  \/ \E c \in Callers : runTask(c)
  \/ \E c \in Callers : joinReturns(c)
  \/ threadEnds

Spec == Init /\ [][Next]_vars

----------------------------------------------------------------------------
Shorts == -HalfShort .. HalfShort - 1

(***************************************************************************)
(* Type invariant.                                                         *)
(***************************************************************************)
TypeOK ==
  /\ concurrency_critical_section \in BOOLEAN
  /\ concurrency_permanent_thread_count \in Shorts
  /\ concurrency_scheduled_thread_count \in Shorts
  /\ concurrency_running_scheduled_tasks \in Shorts
  /\ concurrency_local_thread_count \in Shorts
  /\ concurrency_primary_launch_ran \in BOOLEAN
  /\ concurrency_scheduled_exit_set \in BOOLEAN
  /\ concurrency_permanent_exit_set \in BOOLEAN
  /\ concurrency_system_parameters \in [Lookups -> Variables]
  /\ concurrency_task_queue \in Seq(Tasks)
  /\ concurrency_last_id_death \in Seq(Int)
  /\ callers \in [Callers -> CallerStates]
  /\ detached \in Nat
  /\ debug_class_return_code \in {NotSet} \cup LegalCodes(4)
  /\ process \in ProcessStates

(***************************************************************************)
(* The manager's own count of tasks is the length of its queue, but for    *)
(* the task a runTask has started and not yet taken off: the ids of new    *)
(* tasks are drawn from that count.                                        *)
(***************************************************************************)
CountMatchesQueue ==
  concurrency_local_thread_count + Cardinality(Joining) =
    Len(concurrency_task_queue)

(***************************************************************************)
(* Ids are never shared and never lost: the waiting tasks and the stack of *)
(* dead ids hold every id up to their number exactly once.  A task queued  *)
(* while runTask waits in join() already has the id of the task it waits   *)
(* for.  This holds as long as nobody reorders the back of the queue while *)
(* a runTask waits (DuringCalls without Reordering).                       *)
(***************************************************************************)
WaitingTasks ==
  IF Joining = {} THEN concurrency_task_queue ELSE Front(concurrency_task_queue)

IdsInUse == {WaitingTasks[k].id : k \in 1 .. Len(WaitingTasks)}

IdLedger ==
  IdsInUse \cup ToSet(concurrency_last_id_death) =
    1 .. Len(WaitingTasks) + Len(concurrency_last_id_death)

(***************************************************************************)
(* While the process lives the flag of runTask is taken exactly while one  *)
(* caller waits in join(): no path of runTask leaves it taken and goes on. *)
(***************************************************************************)
FlagIsHeldByOneJoin ==
  process = "running" =>
    /\ concurrency_critical_section <=> Joining # {}
    /\ Cardinality(Joining) <= 1

----------------------------------------------------------------------------
(***************************************************************************)
(* What the comments of runTask and forwardTasks say: the task that        *)
(* runTask takes off the queue is the one it started.  The code does it as *)
(* long as nobody reorders the back of the queue while it waits.           *)
(***************************************************************************)
StartedTaskLeavesQueue ==
  [][\A c \in Callers :
       joinReturns(c) =>
         Last(concurrency_task_queue).id = callers[c].poped_task]_vars

(***************************************************************************)
(* What the file's own comment says of callers that meet: "Instead of      *)
(* waiting, MOVE ON" (lines 15-18).  A caller that finds runTask taken by  *)
(* another one, which waits for its thread, returns and goes on.  The code *)
(* reports it with an illegal code, and the assert on it ends the process. *)
(***************************************************************************)
LoserMovesOn ==
  [][\A c \in Callers :
       runTask(c) /\ Joining # {} => process' = "running"]_vars

(***************************************************************************)
(* While a runTask waits in join() the queue only grows at its front, with *)
(* the same restriction: pop_back then takes off the task that was started *)
(* and no other one that was given the same id meanwhile.                  *)
(***************************************************************************)
QueueGrowsAtTheFront ==
  [][\A c \in Callers :
       callers[c].joining /\ callers'[c].joining =>
         LET more == Len(concurrency_task_queue') - Len(concurrency_task_queue)
         IN  /\ more >= 0
             /\ \A k \in 1 .. Len(concurrency_task_queue) :
                  /\ concurrency_task_queue'[k + more].id =
                       concurrency_task_queue[k].id
                  /\ concurrency_task_queue'[k + more].kind =
                       concurrency_task_queue[k].kind]_vars
============================================================================
