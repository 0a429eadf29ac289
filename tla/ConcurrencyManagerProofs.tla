--------------------- MODULE ConcurrencyManagerProofs ---------------------
(***************************************************************************)
(* Proofs about concurrency_manager, for every set of callers, common      *)
(* variables and task kinds and for every bound.                           *)
(***************************************************************************)
EXTENDS ConcurrencyManager, ListLemmas, FiniteSetTheorems

----------------------------------------------------------------------------
(***************************************************************************)
(* Shorts.                                                                 *)
(***************************************************************************)

(***************************************************************************)
(* A conversion to short is a short, and keeps what fits.                  *)
(***************************************************************************)
LEMMA HalfShortPositive == HalfShort \in Nat /\ HalfShort > 1
BY ConcurrencyAssumption

LEMMA ShortType == \A n \in Int : Short(n) \in Shorts /\ Short(n) \in Int
BY HalfShortPositive DEF Short, Shorts

LEMMA ShortFits == \A n \in Shorts : Short(n) = n
BY HalfShortPositive DEF Short, Shorts

----------------------------------------------------------------------------
(***************************************************************************)
(* The sort of forwardTasks.                                               *)
(***************************************************************************)

(***************************************************************************)
(* The places the sort assigns are a renumbering of the places.            *)
(***************************************************************************)
LEMMA SortedPlaces ==
  ASSUME NEW q \in Seq(Tasks), NEW ids
  PROVE  /\ \A k \in 1 .. Len(q) : SortedPlace(q, ids, k) \in 1 .. Len(q)
         /\ \A n \in 1 .. Len(q) : \E k \in 1 .. Len(q) : SortedPlace(q, ids, k) = n
<1> DEFINE before(k) == {j \in 1 .. Len(q) : SortedBefore(q, ids, j, k)}
           place == [k \in 1 .. Len(q) |-> SortedPlace(q, ids, k)]
<1>1. Len(q) \in Nat
  BY LenProperties
<1>2. IsFiniteSet(1 .. Len(q)) /\ Cardinality(1 .. Len(q)) = Len(q)
  BY <1>1, FS_Interval
<1>3. ASSUME NEW k \in 1 .. Len(q)
      PROVE  IsFiniteSet(before(k)) /\ Cardinality(before(k)) \in 0 .. Len(q) - 1
  <2>1. before(k) \in SUBSET ((1 .. Len(q)) \ {k})
    BY <1>1 DEF SortedBefore
  <2>2. /\ IsFiniteSet((1 .. Len(q)) \ {k})
        /\ Cardinality((1 .. Len(q)) \ {k}) = Len(q) - 1
    BY <1>2, FS_RemoveElement
  <2>3. IsFiniteSet(before(k)) /\ Cardinality(before(k)) <= Len(q) - 1
    <3> HIDE DEF before
    <3> QED BY <2>1, <2>2, FS_Subset
  <2> QED BY <1>1, <2>3, FS_CardinalityType
<1>4. ASSUME NEW k \in 1 .. Len(q) PROVE SortedPlace(q, ids, k) \in 1 .. Len(q)
  <2>1. SortedPlace(q, ids, k) = 1 + Cardinality(before(k))
    BY DEF SortedPlace
  <2> HIDE DEF before
  <2> QED BY <1>1, <1>3, <2>1
<1>5. ASSUME NEW j \in 1 .. Len(q), NEW k \in 1 .. Len(q), SortedBefore(q, ids, j, k)
      PROVE  SortedPlace(q, ids, j) # SortedPlace(q, ids, k)
  <2>1. before(j) \cup {j} \subseteq before(k) /\ j \notin before(j)
    BY <1>1, <1>5 DEF SortedBefore
  <2>2. /\ IsFiniteSet(before(j) \cup {j})
        /\ Cardinality(before(j) \cup {j}) = Cardinality(before(j)) + 1
    <3> HIDE DEF before
    <3> QED BY <1>3, <2>1, FS_AddElement
  <2>3. Cardinality(before(j) \cup {j}) <= Cardinality(before(k))
    <3> HIDE DEF before
    <3> QED BY <1>3, <2>1, FS_Subset
  <2>4. /\ SortedPlace(q, ids, j) = 1 + Cardinality(before(j))
        /\ SortedPlace(q, ids, k) = 1 + Cardinality(before(k))
    BY DEF SortedPlace
  <2> HIDE DEF before
  <2> QED BY <1>3, <2>2, <2>3, <2>4
<1>6. ASSUME NEW j \in 1 .. Len(q), NEW k \in 1 .. Len(q), j # k
      PROVE  SortedBefore(q, ids, j, k) \/ SortedBefore(q, ids, k, j)
  BY <1>1, <1>6 DEF SortedBefore
<1>7. place \in Injection(1 .. Len(q), 1 .. Len(q))
  BY <1>4, <1>5, <1>6 DEF Injection, IsInjective
<1>8. place \in Surjection(1 .. Len(q), 1 .. Len(q))
  <2> HIDE DEF place
  <2> QED BY <1>2, <1>7, FS_Injection
<1> QED BY <1>4, <1>8 DEF Surjection

(***************************************************************************)
(* The sort loses no task and makes none.                                  *)
(***************************************************************************)
LEMMA ForwardedList ==
  ASSUME NEW q \in Seq(Tasks), NEW ids
  PROVE  /\ Forwarded(q, ids) \in Seq(Tasks)
         /\ Len(Forwarded(q, ids)) = Len(q)
         /\ \A n \in 1 .. Len(q) : \E k \in 1 .. Len(q) : Forwarded(q, ids)[n] = q[k]
         /\ \A k \in 1 .. Len(q) : \E n \in 1 .. Len(q) : Forwarded(q, ids)[n] = q[k]
<1> DEFINE at(n) == CHOOSE k \in 1 .. Len(q) : SortedPlace(q, ids, k) = n
           new == [n \in 1 .. Len(q) |-> q[at(n)]]
<1>1. Len(q) \in Nat /\ \A k \in 1 .. Len(q) : q[k] \in Tasks
  BY LenProperties, ElementOfSeq
<1>2. ASSUME NEW n \in 1 .. Len(q)
      PROVE  at(n) \in 1 .. Len(q) /\ SortedPlace(q, ids, at(n)) = n
  BY SortedPlaces
<1>3. Forwarded(q, ids) = new
  BY DEF Forwarded
<1>4. ASSUME NEW k \in 1 .. Len(q) PROVE \E n \in 1 .. Len(q) : new[n] = q[k]
  <2> DEFINE places == [n \in 1 .. Len(q) |-> at(n)]
  <2>1. IsFiniteSet(1 .. Len(q)) /\ Cardinality(1 .. Len(q)) = Len(q)
    BY <1>1, FS_Interval
  <2>2. places \in Injection(1 .. Len(q), 1 .. Len(q))
    BY <1>2 DEF Injection, IsInjective
  <2>3. places \in Surjection(1 .. Len(q), 1 .. Len(q))
    <3> HIDE DEF places
    <3> QED BY <2>1, <2>2, FS_Injection
  <2>4. PICK n \in 1 .. Len(q) : places[n] = k
    BY <2>3 DEF Surjection
  <2>5. at(n) = k
    BY <2>4
  <2> HIDE DEF at
  <2>6. new[n] = q[k]
    BY <2>5
  <2> QED BY <2>6
<1> HIDE DEF at
<1>5. new \in [1 .. Len(q) -> Tasks]
  BY <1>1, <1>2
<1>6. new \in Seq(Tasks) /\ Len(new) = Len(q)
  <2> HIDE DEF new
  <2> QED BY <1>1, <1>5, LenProperties
<1>7. \A n \in 1 .. Len(q) : \E k \in 1 .. Len(q) : new[n] = q[k]
  BY <1>2
<1> QED BY <1>3, <1>4, <1>6, <1>7

----------------------------------------------------------------------------
(***************************************************************************)
(* The inductive invariant.  The queue stays below the bound, so that its  *)
(* count never wraps; at most one caller waits in join(), the queue then   *)
(* still holds a task, and the flag of runTask says so.                    *)
(***************************************************************************)
QueueBounded == Len(concurrency_task_queue) <= MaxTasks

OneJoin ==
  /\ Joining = {} \/ \E c \in Callers : Joining = {c}
  /\ Joining # {} => concurrency_task_queue # <<>>
  /\ \A c \in Callers : callers[c].joining => callers[c].left > 0

FlagMatches ==
  process = "running" => (concurrency_critical_section <=> Joining # {})

CountMatches ==
  concurrency_local_thread_count =
    Len(concurrency_task_queue) - (IF Joining = {} THEN 0 ELSE 1)

IInv == TypeOK /\ QueueBounded /\ OneJoin /\ FlagMatches /\ CountMatches

LEMMA InitIInv == Init => IInv
<1> SUFFICES ASSUME Init PROVE IInv
  OBVIOUS
<1>1. Joining = {}
  BY DEF Init, Joining, Idle
<1>2. TypeOK
  <2>1. 0 \in Shorts /\ 1 \in Shorts
    BY HalfShortPositive DEF Shorts
  <2>2. NoVariable \in Variables /\ Idle \in CallerStates
    BY DEF Variables, NoVariable, CallerStates, Idle
  <2>3. <<>> \in Seq(Tasks) /\ <<>> \in Seq(Int)
    OBVIOUS
  <2> QED BY <2>1, <2>2, <2>3 DEF Init, InitDebug, TypeOK, ProcessStates
<1>3. QueueBounded /\ OneJoin /\ FlagMatches /\ CountMatches
  BY <1>1, ConcurrencyAssumption
     DEF Init, QueueBounded, OneJoin, FlagMatches, CountMatches, Idle
<1> QED BY <1>2, <1>3 DEF IInv

(***************************************************************************)
(* What setReturnCode may do to the code and to the process.               *)
(***************************************************************************)
LEMMA FailTypes ==
  ASSUME TypeOK, NEW code, fail(code)
  PROVE  /\ debug_class_return_code' \in {NotSet} \cup LegalCodes(4)
         /\ process' \in ProcessStates
         /\ process' = "running" => process = "running"
BY DEF TypeOK, fail, setReturnCode, concurrency_local_errors, ProcessStates

LEMMA CannotRunAborts ==
  ASSUME fail(cannot_run_task)
  PROVE  process' = "aborted" /\ UNCHANGED debug_class_return_code
BY DEF fail, setReturnCode, cannot_run_task, LegalCodes, concurrency_local_errors,
       debug_standard_max_error, debug_class_min_error

(***************************************************************************)
(* A step that changes nothing but the process and its code keeps the      *)
(* invariant, unless it starts a process anew.                             *)
(***************************************************************************)
LEMMA StateKept ==
  ASSUME IInv, UNCHANGED stateVars,
         debug_class_return_code' \in {NotSet} \cup LegalCodes(4),
         process' \in ProcessStates,
         process' = "running" => process = "running"
  PROVE  IInv'
<1> USE DEF stateVars, counterVars, flagVars, taskVars, threadVars
<1>1. TypeOK'
  BY DEF IInv, TypeOK
<1>2. Joining' = Joining
  BY DEF Joining
<1> QED BY <1>1, <1>2 DEF IInv, QueueBounded, OneJoin, FlagMatches, CountMatches

LEMMA ReportIInv ==
  ASSUME IInv, NEW code, fail(code), UNCHANGED stateVars
  PROVE  IInv'
BY FailTypes, StateKept DEF IInv

LEMMA AbortIInv ==
  ASSUME IInv, Abort
  PROVE  IInv'
BY StateKept DEF IInv, TypeOK, Abort, ProcessStates

LEMMA UndefinedIInv ==
  ASSUME IInv, Undefined
  PROVE  IInv'
BY StateKept DEF IInv, TypeOK, Undefined, ProcessStates

(***************************************************************************)
(* What a step keeps that changes neither the queue's length, nor the      *)
(* count, nor who waits.                                                   *)
(***************************************************************************)
LEMMA CountKept ==
  ASSUME IInv, TypeOK',
         Len(concurrency_task_queue') = Len(concurrency_task_queue),
         UNCHANGED <<concurrency_local_thread_count, callers, process,
                     concurrency_critical_section>>
  PROVE  IInv'
<1>1. Joining' = Joining
  BY DEF Joining
<1>2. concurrency_task_queue # <<>> => concurrency_task_queue' # <<>>
  BY EmptySeq DEF IInv, TypeOK
<1> QED BY <1>1, <1>2 DEF IInv, QueueBounded, OneJoin, FlagMatches, CountMatches

----------------------------------------------------------------------------
(***************************************************************************)
(* Common variables.                                                       *)
(***************************************************************************)
LEMMA VariablesIInv ==
  ASSUME IInv, NEW params \in [Lookups -> Variables],
         concurrency_system_parameters' = params,
         UNCHANGED <<counterVars, flagVars, taskVars, threadVars, debugVars>>
  PROVE  IInv'
<1> USE DEF counterVars, flagVars, taskVars, threadVars, debugVars
<1>1. TypeOK'
  BY DEF IInv, TypeOK
<1> QED BY <1>1, CountKept

LEMMA EnlistIInv ==
  ASSUME IInv, NEW v \in Lookups, NEW get_lock \in BOOLEAN,
         enlistCommonVariable(v, get_lock)
  PROVE  IInv'
<1>1. CASE v \in Enlisted
  BY <1>1, ReportIInv DEF enlistCommonVariable
<1>2. CASE v \notin Enlisted
  <2>1. concurrency_system_parameters' \in [Lookups -> Variables]
    <3>1. PICK more \in SUBSET {"valid", "dangling"} :
            concurrency_system_parameters' =
              [concurrency_system_parameters EXCEPT
                 ![v].enlisted = TRUE, ![v].pointers = @ \cup more]
      BY <1>2 DEF enlistCommonVariable
    <3> QED BY <3>1 DEF IInv, TypeOK, Variables
  <2> QED BY <1>2, <2>1, VariablesIInv DEF enlistCommonVariable
<1> QED BY <1>1, <1>2

LEMMA LockIInv ==
  ASSUME IInv, NEW v \in Lookups,
         \/ getCommonVariableLock(v) \/ lockCommonVariable(v)
         \/ releaseCommonVariable(v)
  PROVE  IInv'
<1>1. CASE fail(cannot_get_common_variable_lock) /\ UNCHANGED stateVars
  BY <1>1, ReportIInv
<1>2. ASSUME NEW b \in BOOLEAN,
             concurrency_system_parameters' =
               [concurrency_system_parameters EXCEPT ![v].locked = b],
             UNCHANGED <<counterVars, flagVars, taskVars, threadVars, debugVars>>
      PROVE  IInv'
  <2>1. concurrency_system_parameters' \in [Lookups -> Variables]
    BY <1>2 DEF IInv, TypeOK, Variables
  <2> QED BY <1>2, <2>1, VariablesIInv
<1>3. ASSUME concurrency_system_parameters' =
               [concurrency_system_parameters EXCEPT
                  ![v].pointers = @ \cup {"valid"}],
             UNCHANGED <<counterVars, flagVars, taskVars, threadVars, debugVars>>
      PROVE  IInv'
  <2>1. concurrency_system_parameters' \in [Lookups -> Variables]
    BY <1>3 DEF IInv, TypeOK, Variables
  <2> QED BY <1>3, <2>1, VariablesIInv
<1> QED BY <1>1, <1>2, <1>3, UndefinedIInv
        DEF getCommonVariableLock, lockCommonVariable, releaseCommonVariable

(***************************************************************************)
(* The removal of a variable makes tasks stale and keeps their number.     *)
(***************************************************************************)
LEMMA StaleList ==
  ASSUME NEW q \in Seq(Tasks), NEW v
  PROVE  LET new == [k \in 1 .. Len(q) |-> Stale(q[k], v)]
         IN  /\ new \in Seq(Tasks)
             /\ Len(new) = Len(q)
             /\ \A k \in 1 .. Len(q) : new[k].id = q[k].id /\ new[k].kind = q[k].kind
<1> DEFINE new == [k \in 1 .. Len(q) |-> Stale(q[k], v)]
<1>1. Len(q) \in Nat /\ \A k \in 1 .. Len(q) : q[k] \in Tasks
  BY LenProperties, ElementOfSeq
<1>2. \A k \in 1 .. Len(q) : /\ Stale(q[k], v) \in Tasks
                             /\ Stale(q[k], v).id = q[k].id
                             /\ Stale(q[k], v).kind = q[k].kind
  BY <1>1 DEF Tasks, Stale
<1>3. new \in [1 .. Len(q) -> Tasks]
  BY <1>2
<1>4. new \in Seq(Tasks) /\ Len(new) = Len(q)
  <2> HIDE DEF new
  <2> QED BY <1>1, <1>3, LenProperties
<1> QED BY <1>2, <1>4

LEMMA RemoveIInv ==
  ASSUME IInv, NEW v \in Lookups, removeCommonVariable(v)
  PROVE  IInv'
<1>1. CASE ~ Removable(v)
  BY <1>1, ReportIInv DEF removeCommonVariable
<1>2. CASE Removable(v)
  <2> USE DEF counterVars, flagVars, threadVars, debugVars
  <2>0. SUFFICES ASSUME Erase(v) PROVE IInv'
    BY <1>2, UndefinedIInv DEF removeCommonVariable
  <2>1. /\ concurrency_task_queue' =
             [k \in 1 .. Len(concurrency_task_queue) |->
                Stale(concurrency_task_queue[k], v)]
        /\ UNCHANGED <<counterVars, flagVars, concurrency_last_id_death,
                       threadVars, debugVars>>
    BY <2>0 DEF Erase
  <2>2. /\ concurrency_task_queue' \in Seq(Tasks)
        /\ Len(concurrency_task_queue') = Len(concurrency_task_queue)
    BY <2>1, StaleList DEF IInv, TypeOK
  <2>3. concurrency_system_parameters' \in [Lookups -> Variables]
    <3>1. PICK dangling \in SUBSET {"valid", "dangling"} :
            concurrency_system_parameters' =
              [concurrency_system_parameters EXCEPT
                 ![v] = [NoVariable EXCEPT !.pointers = dangling]]
      <4>1. {"dangling" : p \in concurrency_system_parameters[v].pointers}
              \in SUBSET {"valid", "dangling"}
        OBVIOUS
      <4> QED BY <2>0, <4>1, Zenon DEF Erase
    <3>2. [NoVariable EXCEPT !.pointers = dangling] \in Variables
      <4>1. NoVariable \in Variables
        BY DEF Variables, NoVariable
      <4> QED BY <4>1 DEF Variables
    <3> QED BY <3>1, <3>2 DEF IInv, TypeOK
  <2>4. TypeOK'
    BY <2>1, <2>2, <2>3 DEF IInv, TypeOK
  <2> QED BY <2>1, <2>2, <2>4, CountKept
<1> QED BY <1>1, <1>2

----------------------------------------------------------------------------
(***************************************************************************)
(* The queue and the exit flags.                                           *)
(***************************************************************************)

(***************************************************************************)
(* The id of a new task is an Int, the count of a queue below its bound is *)
(* a short.                                                                *)
(***************************************************************************)
LEMMA NewIdType ==
  ASSUME TypeOK
  PROVE  NewId \in Int
<1>1. Short(concurrency_local_thread_count + 1) \in Int
  BY ShortType DEF TypeOK, Shorts
<1>2. CASE concurrency_last_id_death # <<>>
  <2>1. Head(concurrency_last_id_death) \in Int
    BY <1>2, HeadTailProperties DEF TypeOK
  <2> QED BY <1>2, <2>1 DEF NewId
<1> QED BY <1>1, <1>2 DEF NewId

LEMMA EnqueueIInv ==
  ASSUME IInv, NEW kind \in TaskKinds, enqueueTask(kind)
  PROVE  IInv'
<1> DEFINE task == [id |-> NewId, kind |-> kind, stale |-> FALSE]
           queue == concurrency_task_queue
<1>1. CASE ~ ConstructorAsserts(kind) \/ ~ DestructorAsserts(kind)
  BY <1>1, AbortIInv DEF enqueueTask
<1>2. CASE ConstructorAsserts(kind) /\ DestructorAsserts(kind) /\ DestructorRecurses(kind)
  BY <1>2, UndefinedIInv DEF enqueueTask
<1>3. CASE ConstructorAsserts(kind) /\ DestructorAsserts(kind) /\ ~ DestructorRecurses(kind)
  <2>1. /\ Len(queue) < MaxTasks
        /\ queue' = IF kind.permanent THEN Append(queue, task) ELSE Cons(task, queue)
        /\ concurrency_last_id_death' =
             IF concurrency_last_id_death = <<>> THEN <<>>
               ELSE Tail(concurrency_last_id_death)
        /\ concurrency_local_thread_count' =
             Short(concurrency_local_thread_count + 1)
        /\ concurrency_permanent_thread_count' =
             IF kind.permanent
               THEN Short(concurrency_permanent_thread_count + 1)
               ELSE concurrency_permanent_thread_count
        /\ concurrency_scheduled_thread_count' =
             IF kind.permanent
               THEN concurrency_scheduled_thread_count
               ELSE Short(concurrency_scheduled_thread_count + 1)
        /\ concurrency_running_scheduled_tasks' =
             Short(concurrency_running_scheduled_tasks - 1)
        /\ UNCHANGED <<flagVars, threadVars, debugVars,
                       concurrency_system_parameters>>
    BY <1>3 DEF enqueueTask, Queued
  <2>2. task \in Tasks
    BY NewIdType, ConcurrencyAssumption DEF IInv, Tasks
  <2>3. queue \in Seq(Tasks) /\ Len(queue) \in Nat
    BY LenProperties DEF IInv, TypeOK
  <2>4. queue' \in Seq(Tasks) /\ Len(queue') = Len(queue) + 1
    <3> HIDE DEF task, queue
    <3>1. Append(queue, task) \in Seq(Tasks) /\ Len(Append(queue, task)) = Len(queue) + 1
      BY <2>2, <2>3, AppendProperties
    <3>2. Cons(task, queue) \in Seq(Tasks) /\ Len(Cons(task, queue)) = Len(queue) + 1
      BY <2>2, <2>3, ConsList
    <3> QED BY <2>1, <3>1, <3>2
  <2>5. concurrency_last_id_death' \in Seq(Int)
    BY <2>1, HeadTailProperties DEF IInv, TypeOK
  <2>6. /\ concurrency_local_thread_count' \in Shorts
        /\ concurrency_permanent_thread_count' \in Shorts
        /\ concurrency_scheduled_thread_count' \in Shorts
        /\ concurrency_running_scheduled_tasks' \in Shorts
    <3>1. \A n \in Shorts : Short(n + 1) \in Shorts /\ Short(n - 1) \in Shorts
      BY ShortType, HalfShortPositive DEF Shorts
    <3> QED BY <2>1, <3>1 DEF IInv, TypeOK
  <2> USE DEF flagVars, threadVars, debugVars
  <2>7. TypeOK'
    BY <2>1, <2>4, <2>5, <2>6 DEF IInv, TypeOK
  <2>8. Joining' = Joining
    BY <2>1 DEF Joining
  <2>9. concurrency_local_thread_count' = concurrency_local_thread_count + 1
    <3>1. concurrency_local_thread_count + 1 \in Shorts
      BY <2>1, <2>3, ConcurrencyAssumption DEF IInv, CountMatches, Shorts
    <3> QED BY <2>1, <3>1, ShortFits
  <2>10. QueueBounded' /\ CountMatches'
    <3>1. Len(queue) < MaxTasks
      BY <2>1
    <3>2. QueueBounded'
      BY <2>3, <2>4, <3>1, ConcurrencyAssumption DEF QueueBounded
    <3>3. CASE Joining = {}
      BY <2>3, <2>4, <2>8, <2>9, <3>2, <3>3 DEF IInv, CountMatches
    <3>4. CASE Joining # {}
      BY <2>3, <2>4, <2>8, <2>9, <3>2, <3>4 DEF IInv, CountMatches
    <3> QED BY <3>2, <3>3, <3>4
  <2>11. OneJoin' /\ FlagMatches'
    <3>1. queue' # <<>>
      BY <2>3, <2>4, EmptySeq
    <3> QED BY <2>1, <2>8, <3>1 DEF IInv, OneJoin, FlagMatches
  <2> QED BY <2>7, <2>10, <2>11 DEF IInv
<1> QED BY <1>1, <1>2, <1>3

LEMMA ForwardIInv ==
  ASSUME IInv, NEW ids, forwardTasks(ids)
  PROVE  IInv'
<1>1. CASE ~ concurrency_primary_launch_ran
  BY <1>1, AbortIInv DEF forwardTasks
<1>2. CASE concurrency_primary_launch_ran
  <2> USE DEF counterVars, flagVars, threadVars, debugVars
  <2>1. /\ concurrency_task_queue' = Forwarded(concurrency_task_queue, ids)
        /\ UNCHANGED <<counterVars, flagVars, concurrency_last_id_death,
                       threadVars, debugVars, concurrency_system_parameters>>
    BY <1>2 DEF forwardTasks
  <2>2. /\ concurrency_task_queue' \in Seq(Tasks)
        /\ Len(concurrency_task_queue') = Len(concurrency_task_queue)
    BY <2>1, ForwardedList DEF IInv, TypeOK
  <2>3. TypeOK'
    BY <2>1, <2>2 DEF IInv, TypeOK
  <2> QED BY <2>1, <2>2, <2>3, CountKept
<1> QED BY <1>1, <1>2

LEMMA ExitIInv ==
  ASSUME IInv, setTasks \/ endTasks \/ endAllTasks
  PROVE  IInv'
<1>1. CASE Abort
  BY <1>1, AbortIInv
<1>2. CASE ~ Abort
  <2> USE DEF counterVars, taskVars, threadVars, debugVars
  <2>1. /\ concurrency_scheduled_exit_set' \in BOOLEAN
        /\ concurrency_permanent_exit_set' \in BOOLEAN
        /\ concurrency_primary_launch_ran' \in BOOLEAN
        /\ UNCHANGED <<counterVars, taskVars, threadVars, debugVars,
                       concurrency_system_parameters>>
    BY <1>2 DEF IInv, TypeOK, setTasks, endTasks, endAllTasks
  <2>2. TypeOK'
    BY <2>1 DEF IInv, TypeOK
  <2> QED BY <2>1, <2>2, CountKept
<1> QED BY <1>1, <1>2

----------------------------------------------------------------------------
(***************************************************************************)
(* Callers.                                                                *)
(***************************************************************************)

(***************************************************************************)
(* A caller that enters or leaves a call, and waits neither before nor     *)
(* after.                                                                  *)
(***************************************************************************)
LEMMA CallerIInv ==
  ASSUME IInv, process = "running", NEW c \in Callers, NEW s \in CallerStates,
         ~ callers[c].joining, ~ s.joining,
         callers' = [callers EXCEPT ![c] = s],
         concurrency_task_queue' \in Seq(Tasks),
         Len(concurrency_task_queue') = Len(concurrency_task_queue),
         concurrency_primary_launch_ran' \in BOOLEAN,
         concurrency_scheduled_exit_set' \in BOOLEAN,
         concurrency_permanent_exit_set' \in BOOLEAN,
         UNCHANGED <<counterVars, concurrency_last_id_death,
                     concurrency_critical_section, detached, debugVars,
                     concurrency_system_parameters>>
  PROVE  IInv'
<1> USE DEF counterVars, debugVars
<1>1. callers' \in [Callers -> CallerStates]
  BY DEF IInv, TypeOK
<1>2. TypeOK'
  BY <1>1 DEF IInv, TypeOK
<1>3. Joining' = Joining
  BY DEF Joining, IInv, TypeOK
<1>4. concurrency_task_queue # <<>> => concurrency_task_queue' # <<>>
  BY EmptySeq DEF IInv, TypeOK
<1>5. \A d \in Callers : callers'[d].joining => callers'[d].left > 0
  BY DEF IInv, TypeOK, OneJoin
<1> QED BY <1>2, <1>3, <1>4, <1>5
        DEF IInv, QueueBounded, OneJoin, FlagMatches, CountMatches

LEMMA IdleType ==
  /\ Idle \in CallerStates /\ Idle.joining = FALSE
  /\ Idle.op = "idle" /\ Idle.left = 0
BY DEF Idle, CallerStates

LEMMA CallingType ==
  ASSUME NEW op \in {"runTask", "forceTasks", "setAllTasks"},
         NEW left \in Nat, NEW ignore \in BOOLEAN
  PROVE  /\ Calling(op, left, ignore) \in CallerStates
         /\ ~ Calling(op, left, ignore).joining
         /\ Calling(op, left, ignore).op = op
         /\ Calling(op, left, ignore).left = left
BY IdleType DEF Calling, CallerStates

LEMMA RunTaskCallIInv ==
  ASSUME IInv, NEW c \in Callers, NEW ignore \in BOOLEAN, runTaskCall(c, ignore)
  PROVE  IInv'
<1> DEFINE s == Calling("runTask", 1, ignore)
<1>1. s \in CallerStates /\ ~ s.joining
  BY CallingType
<1>2. /\ process = "running" /\ ~ callers[c].joining
      /\ callers' = [callers EXCEPT ![c] = s]
      /\ UNCHANGED <<counterVars, flagVars, taskVars, detached, debugVars,
                     concurrency_critical_section, concurrency_system_parameters>>
  BY IdleType DEF runTaskCall
<1> HIDE DEF s
<1> QED BY <1>1, <1>2, CallerIInv DEF IInv, TypeOK, flagVars, taskVars

LEMMA ForceTasksCallIInv ==
  ASSUME IInv, NEW c \in Callers, NEW ids \in SUBSET TaskIds, forceTasksCall(c, ids)
  PROVE  IInv'
<1>1. CASE ~ concurrency_primary_launch_ran
  BY <1>1, AbortIInv DEF forceTasksCall
<1>2. CASE concurrency_primary_launch_ran
  <2> DEFINE s == Calling("forceTasks", Cardinality(ids), TRUE)
  <2>1. Cardinality(ids) \in Nat
    <3>1. IsFiniteSet(TaskIds)
      BY FS_Interval, ConcurrencyAssumption DEF TaskIds
    <3>2. IsFiniteSet(ids)
      BY <3>1, FS_Subset
    <3> QED BY <3>2, FS_CardinalityType
  <2>2. s \in CallerStates /\ ~ s.joining
    BY <2>1, CallingType
  <2>3. /\ concurrency_task_queue' = Forwarded(concurrency_task_queue, ids)
        /\ callers' = [callers EXCEPT ![c] = s]
        /\ ~ callers[c].joining /\ process = "running"
        /\ UNCHANGED <<counterVars, flagVars, concurrency_last_id_death,
                       concurrency_critical_section, detached, debugVars,
                       concurrency_system_parameters>>
    BY <1>2, IdleType DEF forceTasksCall, May
  <2>4. /\ concurrency_task_queue' \in Seq(Tasks)
        /\ Len(concurrency_task_queue') = Len(concurrency_task_queue)
    BY <2>3, ForwardedList DEF IInv, TypeOK
  <2> HIDE DEF s
  <2> QED BY <2>2, <2>3, <2>4, CallerIInv DEF IInv, TypeOK, flagVars
<1> QED BY <1>1, <1>2

LEMMA SetAllTasksCallIInv ==
  ASSUME IInv, NEW c \in Callers, setAllTasksCall(c)
  PROVE  IInv'
<1> DEFINE s == Calling("setAllTasks", Len(concurrency_task_queue), FALSE)
<1>1. s \in CallerStates /\ ~ s.joining
  BY CallingType, LenProperties DEF IInv, TypeOK
<1>2. /\ process = "running" /\ ~ callers[c].joining
      /\ callers' = [callers EXCEPT ![c] = s]
      /\ UNCHANGED <<counterVars, flagVars, taskVars, detached, debugVars,
                     concurrency_critical_section, concurrency_system_parameters>>
  BY IdleType DEF setAllTasksCall, May
<1> HIDE DEF s
<1> QED BY <1>1, <1>2, CallerIInv DEF IInv, TypeOK, flagVars, taskVars

LEMMA CallReturnsIInv ==
  ASSUME IInv, NEW c \in Callers, callReturns(c)
  PROVE  IInv'
<1>1. ~ callers[c].joining
  BY DEF callReturns, LoopOver, IInv, OneJoin
<1>2. /\ concurrency_primary_launch_ran' \in BOOLEAN
      /\ concurrency_scheduled_exit_set' \in BOOLEAN
      /\ concurrency_permanent_exit_set' \in BOOLEAN
  BY DEF callReturns, IInv, TypeOK, flagVars
<1> QED BY <1>1, <1>2, IdleType, CallerIInv
        DEF callReturns, IInv, TypeOK, taskVars

----------------------------------------------------------------------------
(***************************************************************************)
(* runTask.                                                                *)
(***************************************************************************)

(***************************************************************************)
(* The task at the back destroyed.                                         *)
(***************************************************************************)
LEMMA PopBackTypes ==
  ASSUME TypeOK, concurrency_task_queue # <<>>, NEW running \in Int,
         PopBack(running)
  PROVE  /\ concurrency_task_queue' \in Seq(Tasks)
         /\ Len(concurrency_task_queue') = Len(concurrency_task_queue) - 1
         /\ concurrency_running_scheduled_tasks' \in Shorts
         /\ concurrency_system_parameters' \in [Lookups -> Variables]
<1>1. /\ concurrency_task_queue' \in Seq(Tasks)
      /\ Len(concurrency_task_queue') = Len(concurrency_task_queue) - 1
  BY FrontList DEF TypeOK, PopBack
<1>2. concurrency_running_scheduled_tasks' \in Shorts
  BY ShortType DEF PopBack
<1>3. concurrency_system_parameters' \in [Lookups -> Variables]
  <2>1. ASSUME NEW r \in Variables PROVE [r EXCEPT !.count = Short(@ - 1)] \in Variables
    BY ShortType DEF Variables
  <2> QED BY <2>1 DEF TypeOK, PopBack
<1> QED BY <1>1, <1>2, <1>3

LEMMA LaunchTypes ==
  ASSUME TypeOK, NEW task \in Tasks, Launch(task)
  PROVE  /\ concurrency_local_thread_count' \in Shorts
         /\ concurrency_scheduled_thread_count' \in Shorts
         /\ concurrency_last_id_death' \in Seq(Int)
<1>1. \A n \in Shorts : Short(n - 1) \in Shorts
  BY ShortType, HalfShortPositive DEF Shorts
<1>2. task.id \in Int
  BY DEF Tasks
<1>3. Cons(task.id, concurrency_last_id_death) \in Seq(Int)
  BY <1>2, ConsList DEF TypeOK
<1> QED BY <1>1, <1>3 DEF TypeOK, Launch

(***************************************************************************)
(* The cases of runTask.  A task can be started only while nobody waits.   *)
(***************************************************************************)
RunTaskJoins(c) ==
  LET task == Last(concurrency_task_queue)
  IN  /\ Startable(callers[c].ignore)
      /\ ~ task.stale /\ task.kind.join
      /\ Launch(task)
      /\ concurrency_running_scheduled_tasks' =
           Short(concurrency_running_scheduled_tasks + 1)
      /\ concurrency_critical_section' = TRUE
      /\ callers' = [callers EXCEPT ![c].joining = TRUE, ![c].poped_task = task.id]
      /\ UNCHANGED <<flagVars, concurrency_task_queue, detached,
                     concurrency_permanent_thread_count,
                     concurrency_system_parameters, debugVars>>

RunTaskDetaches(c) ==
  LET task == Last(concurrency_task_queue)
  IN  /\ Startable(callers[c].ignore)
      /\ Launch(task)
      /\ PopBack(concurrency_running_scheduled_tasks + 1)
      /\ detached' = detached + 1
      /\ callers' = [callers EXCEPT ![c].left = @ - 1]
      /\ UNCHANGED <<flagVars, concurrency_critical_section,
                     concurrency_permanent_thread_count, debugVars>>

RunTaskRefused ==
  /\ process' = "aborted"
  /\ concurrency_critical_section' =
       (concurrency_critical_section \/ concurrency_scheduled_exit_set)
  /\ UNCHANGED <<counterVars, flagVars, taskVars, callers, detached,
                 concurrency_system_parameters, debug_class_return_code>>

LEMMA RunTaskCases ==
  ASSUME NEW c, runTask(c)
  PROVE  /\ process = "running" /\ callers[c].left > 0 /\ ~ callers[c].joining
         /\ \/ RunTaskRefused \/ Undefined \/ Abort
            \/ RunTaskJoins(c) \/ RunTaskDetaches(c)
BY CannotRunAborts DEF runTask, NextTask, RunTaskRefused, RunTaskJoins, RunTaskDetaches

LEMMA StartableFacts ==
  ASSUME IInv, process = "running", NEW ignore, Startable(ignore)
  PROVE  /\ Joining = {}
         /\ concurrency_task_queue # <<>>
         /\ concurrency_task_queue \in Seq(Tasks)
         /\ Last(concurrency_task_queue) \in Tasks
         /\ Len(concurrency_task_queue) \in Nat \ {0}
         /\ concurrency_local_thread_count = Len(concurrency_task_queue)
         /\ Short(concurrency_local_thread_count - 1) =
              concurrency_local_thread_count - 1
<1>1. Joining = {} /\ concurrency_task_queue # <<>>
  BY DEF Startable, IInv, FlagMatches
<1>2. /\ concurrency_task_queue \in Seq(Tasks)
      /\ Last(concurrency_task_queue) \in Tasks
      /\ Len(concurrency_task_queue) \in Nat \ {0}
  BY <1>1, FrontList DEF IInv, TypeOK
<1>3. concurrency_local_thread_count = Len(concurrency_task_queue)
  BY <1>1, <1>2 DEF IInv, CountMatches
<1>4. concurrency_local_thread_count - 1 \in Shorts
  BY <1>2, <1>3, ConcurrencyAssumption DEF IInv, QueueBounded, Shorts
<1> QED BY <1>1, <1>2, <1>3, <1>4, ShortFits

LEMMA RunTaskIInv ==
  ASSUME IInv, NEW c \in Callers, runTask(c)
  PROVE  IInv'
<1>1. process = "running" /\ callers[c].left > 0 /\ ~ callers[c].joining
  BY RunTaskCases
<1>2. CASE Undefined \/ Abort
  BY <1>2, UndefinedIInv, AbortIInv
<1>3. CASE RunTaskRefused
  <2> USE DEF counterVars, flagVars, taskVars
  <2>1. TypeOK'
    <3>1. concurrency_critical_section' \in BOOLEAN
      BY <1>3 DEF RunTaskRefused
    <3> QED BY <1>3, <3>1 DEF IInv, TypeOK, RunTaskRefused, ProcessStates
  <2>2. Joining' = Joining
    BY <1>3 DEF RunTaskRefused, Joining
  <2> QED BY <1>3, <2>1, <2>2 DEF IInv, RunTaskRefused, QueueBounded, OneJoin,
       FlagMatches, CountMatches
<1>4. CASE RunTaskJoins(c)
  <2> DEFINE task == Last(concurrency_task_queue)
  <2>1. /\ Joining = {} /\ concurrency_task_queue # <<>>
        /\ task \in Tasks /\ Len(concurrency_task_queue) \in Nat \ {0}
        /\ concurrency_local_thread_count = Len(concurrency_task_queue)
        /\ Short(concurrency_local_thread_count - 1) =
             concurrency_local_thread_count - 1
    BY <1>1, <1>4, StartableFacts DEF RunTaskJoins
  <2>2. /\ Launch(task)
        /\ concurrency_running_scheduled_tasks' =
             Short(concurrency_running_scheduled_tasks + 1)
        /\ concurrency_critical_section' = TRUE
        /\ callers' = [callers EXCEPT ![c].joining = TRUE, ![c].poped_task = task.id]
        /\ UNCHANGED <<flagVars, concurrency_task_queue, detached,
                       concurrency_permanent_thread_count,
                       concurrency_system_parameters, debugVars>>
    BY <1>4 DEF RunTaskJoins
  <2> HIDE DEF task
  <2>3. task.id \in Int
    BY <2>1 DEF Tasks
  <2>4. /\ callers' \in [Callers -> CallerStates]
        /\ callers'[c].joining /\ callers'[c].left > 0
        /\ \A d \in Callers \ {c} : callers'[d] = callers[d]
    BY <1>1, <2>2, <2>3 DEF IInv, TypeOK, CallerStates
  <2>5. concurrency_running_scheduled_tasks' \in Shorts
    BY <2>2, ShortType DEF IInv, TypeOK, Shorts
  <2>6. TypeOK'
    BY <2>1, <2>2, <2>4, <2>5, LaunchTypes
       DEF IInv, TypeOK, flagVars, debugVars
  <2>7. Joining' = {c}
    BY <2>1, <2>4 DEF Joining
  <2>8. QueueBounded' /\ FlagMatches'
    BY <2>2, <2>7 DEF IInv, QueueBounded, FlagMatches
  <2>9. OneJoin'
    BY <2>1, <2>2, <2>4, <2>7 DEF IInv, OneJoin, Joining
  <2>10. CountMatches'
    <3>1. concurrency_local_thread_count' = Len(concurrency_task_queue) - 1
      BY <2>1, <2>2 DEF Launch
    <3> QED BY <2>2, <2>7, <3>1 DEF CountMatches
  <2> QED BY <2>6, <2>8, <2>9, <2>10 DEF IInv
<1>5. CASE RunTaskDetaches(c)
  <2> DEFINE task == Last(concurrency_task_queue)
  <2>1. /\ Joining = {} /\ concurrency_task_queue # <<>>
        /\ task \in Tasks /\ Len(concurrency_task_queue) \in Nat \ {0}
        /\ concurrency_local_thread_count = Len(concurrency_task_queue)
        /\ Short(concurrency_local_thread_count - 1) =
             concurrency_local_thread_count - 1
    BY <1>1, <1>5, StartableFacts DEF RunTaskDetaches
  <2>2. /\ Launch(task)
        /\ PopBack(concurrency_running_scheduled_tasks + 1)
        /\ detached' = detached + 1
        /\ callers' = [callers EXCEPT ![c].left = @ - 1]
        /\ UNCHANGED <<flagVars, concurrency_critical_section,
                       concurrency_permanent_thread_count, debugVars>>
    BY <1>5 DEF RunTaskDetaches
  <2> HIDE DEF task
  <2>3. concurrency_running_scheduled_tasks + 1 \in Int
    BY DEF IInv, TypeOK, Shorts
  <2>4. /\ concurrency_task_queue' \in Seq(Tasks)
        /\ Len(concurrency_task_queue') = Len(concurrency_task_queue) - 1
        /\ concurrency_running_scheduled_tasks' \in Shorts
        /\ concurrency_system_parameters' \in [Lookups -> Variables]
    BY <2>1, <2>2, <2>3, PopBackTypes DEF IInv
  <2>5. /\ callers' \in [Callers -> CallerStates]
        /\ ~ callers'[c].joining
        /\ \A d \in Callers \ {c} : callers'[d] = callers[d]
    <3> DEFINE s == [callers[c] EXCEPT !.left = callers[c].left - 1]
    <3>1. callers[c] \in CallerStates /\ callers \in [Callers -> CallerStates]
      BY DEF IInv, TypeOK
    <3>2. s \in CallerStates /\ ~ s.joining
      BY <1>1, <3>1 DEF CallerStates
    <3>3. callers' = [callers EXCEPT ![c] = s]
      BY <2>2
    <3> HIDE DEF s
    <3> QED BY <3>1, <3>2, <3>3
  <2>6. TypeOK'
    BY <2>1, <2>2, <2>4, <2>5, LaunchTypes
       DEF IInv, TypeOK, flagVars, debugVars
  <2>7. Joining' = {}
    BY <2>1, <2>5 DEF Joining
  <2>8. QueueBounded' /\ FlagMatches'
    BY <2>1, <2>2, <2>4, <2>7, ConcurrencyAssumption
       DEF IInv, QueueBounded, FlagMatches, debugVars
  <2>9. OneJoin'
    BY <2>7 DEF OneJoin, Joining
  <2>10. CountMatches'
    <3>1. concurrency_local_thread_count' = Len(concurrency_task_queue) - 1
      BY <2>1, <2>2 DEF Launch
    <3> QED BY <2>1, <2>4, <2>7, <3>1 DEF CountMatches
  <2> QED BY <2>6, <2>8, <2>9, <2>10 DEF IInv
<1> QED BY <1>2, <1>3, <1>4, <1>5, RunTaskCases

(***************************************************************************)
(* The rest of runTask, after join(): the task destroyed is the one at the *)
(* back, and there is one.                                                 *)
(***************************************************************************)
JoinEnds(c) ==
  /\ PopBack(concurrency_running_scheduled_tasks)
  /\ concurrency_critical_section' = FALSE
  /\ callers' = [callers EXCEPT ![c].left = @ - 1, ![c].joining = FALSE,
                                ![c].poped_task = 0]
  /\ UNCHANGED <<flagVars, concurrency_last_id_death, detached,
                 concurrency_permanent_thread_count,
                 concurrency_scheduled_thread_count,
                 concurrency_local_thread_count, debugVars>>

LEMMA JoinCases ==
  ASSUME NEW c, joinReturns(c)
  PROVE  /\ process = "running" /\ callers[c].joining
         /\ Undefined \/ Abort \/ JoinEnds(c)
BY DEF joinReturns, JoinEnds

LEMMA JoinFacts ==
  ASSUME IInv, NEW c \in Callers, callers[c].joining
  PROVE  /\ Joining = {c}
         /\ concurrency_task_queue # <<>>
         /\ concurrency_task_queue \in Seq(Tasks)
         /\ Len(concurrency_task_queue) \in Nat \ {0}
         /\ concurrency_local_thread_count = Len(concurrency_task_queue) - 1
<1>1. c \in Joining
  BY DEF Joining
<1>2. Joining = {c} /\ concurrency_task_queue # <<>>
  BY <1>1 DEF IInv, OneJoin
<1>3. concurrency_task_queue \in Seq(Tasks) /\ Len(concurrency_task_queue) \in Nat \ {0}
  BY <1>2, FrontList DEF IInv, TypeOK
<1> QED BY <1>2, <1>3 DEF IInv, CountMatches

LEMMA JoinedState ==
  ASSUME NEW s \in CallerStates, NEW n \in Nat
  PROVE  LET new == [s EXCEPT !.left = n, !.joining = FALSE, !.poped_task = 0]
         IN  new \in CallerStates /\ ~ new.joining
<1> DEFINE one == [s EXCEPT !.left = n]
           two == [one EXCEPT !.joining = FALSE]
           new == [two EXCEPT !.poped_task = 0]
<1>1. one \in CallerStates
  BY DEF CallerStates
<1>2. [s EXCEPT !.left = n, !.joining = FALSE, !.poped_task = 0] = new
  BY Zenon
<1> HIDE DEF one
<1>3. two \in CallerStates /\ two.joining = FALSE
  BY <1>1 DEF CallerStates
<1> HIDE DEF two
<1>4. new \in CallerStates /\ new.joining = FALSE
  BY <1>3 DEF CallerStates
<1> HIDE DEF new
<1> QED BY <1>2, <1>4

LEMMA JoinReturnsIInv ==
  ASSUME IInv, NEW c \in Callers, joinReturns(c)
  PROVE  IInv'
<1>1. process = "running" /\ callers[c].joining
  BY JoinCases
<1>2. CASE Undefined \/ Abort
  BY <1>2, UndefinedIInv, AbortIInv
<1>3. CASE JoinEnds(c)
  <2>1. /\ Joining = {c} /\ concurrency_task_queue # <<>>
        /\ Len(concurrency_task_queue) \in Nat \ {0}
        /\ concurrency_local_thread_count = Len(concurrency_task_queue) - 1
    BY <1>1, JoinFacts
  <2>2. /\ concurrency_task_queue' \in Seq(Tasks)
        /\ Len(concurrency_task_queue') = Len(concurrency_task_queue) - 1
        /\ concurrency_running_scheduled_tasks' \in Shorts
        /\ concurrency_system_parameters' \in [Lookups -> Variables]
    BY <1>3, <2>1, PopBackTypes DEF JoinEnds, IInv, TypeOK, Shorts
  <2>3. /\ callers' \in [Callers -> CallerStates]
        /\ ~ callers'[c].joining
        /\ \A d \in Callers \ {c} : callers'[d] = callers[d]
    <3> DEFINE s == [callers[c] EXCEPT !.left = callers[c].left - 1,
                                       !.joining = FALSE, !.poped_task = 0]
    <3>1. /\ callers[c] \in CallerStates /\ callers \in [Callers -> CallerStates]
          /\ callers[c].left > 0
      BY <1>1 DEF IInv, TypeOK, OneJoin
    <3>2. s \in CallerStates /\ ~ s.joining
      <4>1. callers[c].left - 1 \in Nat
        BY <3>1 DEF CallerStates
      <4> QED BY <3>1, <4>1, JoinedState
    <3>3. callers' = [callers EXCEPT ![c] = s]
      BY <1>3 DEF JoinEnds
    <3> HIDE DEF s
    <3> QED BY <3>1, <3>2, <3>3
  <2>4. TypeOK'
    BY <1>3, <2>2, <2>3 DEF IInv, TypeOK, JoinEnds, flagVars, debugVars
  <2>5. Joining' = {}
    BY <2>1, <2>3 DEF Joining
  <2>6. QueueBounded' /\ FlagMatches'
    BY <1>3, <2>1, <2>2, <2>5, ConcurrencyAssumption
       DEF IInv, JoinEnds, QueueBounded, FlagMatches
  <2>7. OneJoin'
    BY <2>5 DEF OneJoin, Joining
  <2>8. CountMatches'
    BY <1>3, <2>1, <2>2, <2>5 DEF JoinEnds, CountMatches
  <2> QED BY <2>4, <2>6, <2>7, <2>8 DEF IInv
<1> QED BY <1>2, <1>3, JoinCases

LEMMA ThreadEndsIInv ==
  ASSUME IInv, threadEnds
  PROVE  IInv'
<1> USE DEF counterVars, flagVars, taskVars, debugVars
<1>1. TypeOK'
  BY DEF IInv, TypeOK, threadEnds
<1> QED BY <1>1, CountKept DEF threadEnds

LEMMA NextIInv ==
  ASSUME IInv, [Next]_vars
  PROVE  IInv'
<1>1. CASE UNCHANGED vars
  BY <1>1, StateKept DEF vars, debugVars, IInv, TypeOK
<1> QED BY <1>1, EnlistIInv, RemoveIInv, LockIInv, EnqueueIInv, ForwardIInv,
        ExitIInv, RunTaskCallIInv, ForceTasksCallIInv, SetAllTasksCallIInv,
        CallReturnsIInv, RunTaskIInv, JoinReturnsIInv, ThreadEndsIInv DEF Next

(***************************************************************************)
(* Every behaviour of concurrency_manager stays within the inductive       *)
(* invariant, whatever threads do while a caller is inside a call.         *)
(***************************************************************************)
THEOREM Invariance == Spec => []IInv
<1>1. IInv /\ [Next]_vars => IInv'
  BY NextIInv
<1> QED BY <1>1, InitIInv, PTL DEF Spec

(***************************************************************************)
(* The state of concurrency_manager keeps its types: no counter leaves the *)
(* range of a short, no call is counted down below none.                   *)
(***************************************************************************)
THEOREM TypeCorrect == Spec => []TypeOK
<1>1. IInv => TypeOK
  BY DEF IInv
<1> QED BY <1>1, Invariance, PTL

(***************************************************************************)
(* concurrency_local_thread_count is the number of queued tasks, but for   *)
(* the task a runTask waits for.                                           *)
(***************************************************************************)
THEOREM CountIsQueueLength == Spec => []CountMatchesQueue
<1>1. IInv => CountMatchesQueue
  <2> SUFFICES ASSUME IInv PROVE CountMatchesQueue
    OBVIOUS
  <2>1. Len(concurrency_task_queue) \in Nat
    BY LenProperties DEF IInv, TypeOK
  <2>2. CASE Joining = {}
    BY <2>1, <2>2, FS_EmptySet DEF IInv, CountMatches, CountMatchesQueue
  <2>3. CASE Joining # {}
    <3>1. Cardinality(Joining) = 1
      BY <2>3, FS_Singleton DEF IInv, OneJoin
    <3> QED BY <2>1, <2>3, <3>1 DEF IInv, CountMatches, CountMatchesQueue
  <2> QED BY <2>2, <2>3
<1> QED BY <1>1, Invariance, PTL

(***************************************************************************)
(* The atomic_flag of runTask is taken exactly while one caller waits in   *)
(* join(): no path of runTask goes on with the flag left taken, and no two *)
(* callers are past it.                                                    *)
(***************************************************************************)
THEOREM FlagIsMutex == Spec => []FlagIsHeldByOneJoin
<1>1. IInv => FlagIsHeldByOneJoin
  <2> SUFFICES ASSUME IInv PROVE FlagIsHeldByOneJoin
    OBVIOUS
  <2>1. Cardinality(Joining) <= 1
    <3>1. Cardinality(Joining) = 0 \/ Cardinality(Joining) = 1
      BY FS_EmptySet, FS_Singleton DEF IInv, OneJoin
    <3> QED BY <3>1
  <2> QED BY <2>1 DEF IInv, FlagMatches, FlagIsHeldByOneJoin
<1> QED BY <1>1, Invariance, PTL

----------------------------------------------------------------------------
(***************************************************************************)
(* Permanent tasks.  While one is queued no runTask waits, and no          *)
(* setAllTasks is past its last runTask: the first would destroy the task, *)
(* the second would clear the exit flags.                                  *)
(***************************************************************************)
Permanent(queue) == \E k \in 1 .. Len(queue) : queue[k].kind.permanent

LoopsAreOpen ==
  \A c \in Callers : callers[c].op = "setAllTasks" => callers[c].left > 0

Stranded ==
  /\ Permanent(concurrency_task_queue) =>
       /\ concurrency_scheduled_exit_set /\ ~ concurrency_primary_launch_ran
       /\ Joining = {} /\ LoopsAreOpen
  /\ concurrency_permanent_exit_set /\ ~ concurrency_primary_launch_ran =>
       concurrency_scheduled_exit_set

(***************************************************************************)
(* A step that leaves flags and callers alone and queues no permanent task.*)
(***************************************************************************)
LEMMA StrandedKept ==
  ASSUME Stranded, UNCHANGED flagVars, UNCHANGED callers,
         Permanent(concurrency_task_queue') => Permanent(concurrency_task_queue)
  PROVE  Stranded'
BY DEF Stranded, flagVars, Joining, LoopsAreOpen, Permanent

LEMMA StrandedSame ==
  ASSUME Stranded, UNCHANGED flagVars, UNCHANGED callers,
         UNCHANGED concurrency_task_queue
  PROVE  Stranded'
BY StrandedKept

LEMMA PermanentCons ==
  ASSUME NEW q \in Seq(Tasks), NEW t \in Tasks, ~ t.kind.permanent, Permanent(Cons(t, q))
  PROVE  Permanent(q)
<1>1. PICK k \in 1 .. Len(Cons(t, q)) : Cons(t, q)[k].kind.permanent
  BY DEF Permanent
<1>2. /\ Len(q) \in Nat /\ Len(Cons(t, q)) = Len(q) + 1 /\ Cons(t, q)[1] = t
      /\ \A j \in 1 .. Len(q) : Cons(t, q)[j + 1] = q[j]
  BY ConsList, LenProperties
<1>3. k - 1 \in 1 .. Len(q) /\ Cons(t, q)[(k - 1) + 1] = q[k - 1] /\ (k - 1) + 1 = k
  BY <1>1, <1>2
<1> QED BY <1>1, <1>3 DEF Permanent

LEMMA PermanentFront ==
  ASSUME NEW q \in Seq(Tasks), q # <<>>, Permanent(Front(q))
  PROVE  Permanent(q)
<1>1. PICK k \in 1 .. Len(Front(q)) : Front(q)[k].kind.permanent
  BY DEF Permanent
<1>2. /\ Len(q) \in Nat \ {0} /\ Len(Front(q)) = Len(q) - 1
      /\ \A j \in 1 .. Len(q) - 1 : Front(q)[j] = q[j]
  BY FrontList
<1>3. k \in 1 .. Len(q) /\ Front(q)[k] = q[k]
  BY <1>1, <1>2
<1> QED BY <1>1, <1>3 DEF Permanent

LEMMA PermanentForwarded ==
  ASSUME NEW q \in Seq(Tasks), NEW ids, Permanent(Forwarded(q, ids))
  PROVE  Permanent(q)
<1>1. PICK n \in 1 .. Len(Forwarded(q, ids)) : Forwarded(q, ids)[n].kind.permanent
  BY DEF Permanent
<1>2. PICK k \in 1 .. Len(q) : Forwarded(q, ids)[n] = q[k]
  BY <1>1, ForwardedList
<1> QED BY <1>1, <1>2 DEF Permanent

LEMMA StrandedEnqueue ==
  ASSUME "enqueuePermanent" \notin DuringCalls, IInv, Stranded,
         NEW kind \in TaskKinds, enqueueTask(kind)
  PROVE  Stranded'
<1> DEFINE task == [id |-> NewId, kind |-> kind, stale |-> FALSE]
<1>1. task \in Tasks /\ concurrency_task_queue \in Seq(Tasks)
  BY NewIdType, ConcurrencyAssumption DEF IInv, TypeOK, Tasks
<1>2. CASE Abort \/ Undefined
  BY <1>2, StrandedSame DEF Abort, Undefined, stateVars, taskVars, threadVars
<1>3. CASE ~ (Abort \/ Undefined)
  <2>1. /\ DestructorAsserts(kind) /\ ConstructorAsserts(kind)
        /\ UNCHANGED <<flagVars, threadVars>>
        /\ concurrency_task_queue' =
             IF kind.permanent THEN Append(concurrency_task_queue, task)
                               ELSE Cons(task, concurrency_task_queue)
    BY <1>3 DEF enqueueTask, Queued
  <2>2. CASE kind.permanent
    <3>1. \A c \in Callers : callers[c] = Idle
      BY <2>2 DEF enqueueTask, May
    <3>2. Joining = {} /\ LoopsAreOpen
      BY <3>1, IdleType DEF Joining, LoopsAreOpen
    <3>3. concurrency_permanent_exit_set /\ ~ concurrency_primary_launch_ran
      BY <2>1, <2>2 DEF DestructorAsserts, ConstructorAsserts, is_exit
    <3> QED BY <2>1, <3>2, <3>3
            DEF Stranded, flagVars, threadVars, Joining, LoopsAreOpen
  <2>3. CASE ~ kind.permanent
    <3>1. Permanent(Cons(task, concurrency_task_queue)) =>
            Permanent(concurrency_task_queue)
      BY <1>1, <2>3, PermanentCons
    <3> HIDE DEF task
    <3> QED BY <2>1, <2>3, <3>1, StrandedKept DEF threadVars
  <2> QED BY <2>2, <2>3
<1> QED BY <1>2, <1>3

(***************************************************************************)
(* A caller enters or leaves a call that is not the end of a setAllTasks.  *)
(***************************************************************************)
LEMMA StrandedCaller ==
  ASSUME IInv, Stranded, NEW c \in Callers, NEW s \in CallerStates, ~ s.joining,
         callers' = [callers EXCEPT ![c] = s],
         Permanent(concurrency_task_queue) /\ s.op = "setAllTasks" => s.left > 0,
         UNCHANGED flagVars, UNCHANGED concurrency_task_queue
  PROVE  Stranded'
<1>1. callers \in [Callers -> CallerStates]
  BY DEF IInv, TypeOK
<1>2. Joining = {} => Joining' = {}
  BY <1>1 DEF Joining
<1>3. Permanent(concurrency_task_queue) /\ LoopsAreOpen => LoopsAreOpen'
  BY <1>1 DEF LoopsAreOpen
<1> QED BY <1>2, <1>3 DEF Stranded, flagVars

LEMMA StrandedNext ==
  ASSUME "enqueuePermanent" \notin DuringCalls, IInv, Stranded, [Next]_vars
  PROVE  Stranded'
<1> USE DEF stateVars, taskVars, threadVars
<1>1. concurrency_task_queue \in Seq(Tasks) /\ Len(concurrency_task_queue) \in Nat
  BY LenProperties DEF IInv, TypeOK
<1>2. CASE UNCHANGED flagVars /\ UNCHANGED callers /\ UNCHANGED concurrency_task_queue
  BY <1>2, StrandedSame
<1>3. ASSUME NEW v \in Lookups, removeCommonVariable(v) PROVE Stranded'
  <2>1. CASE ~ Removable(v)
    BY <1>2, <1>3, <2>1 DEF removeCommonVariable
  <2>2. CASE Removable(v)
    <3>0. SUFFICES ASSUME Erase(v) PROVE Stranded'
      BY <1>2, <1>3, <2>2 DEF removeCommonVariable, Undefined
    <3>1. /\ concurrency_task_queue' =
               [k \in 1 .. Len(concurrency_task_queue) |->
                  Stale(concurrency_task_queue[k], v)]
          /\ UNCHANGED flagVars /\ UNCHANGED callers
      BY <3>0 DEF Erase
    <3>2. /\ Len(concurrency_task_queue') = Len(concurrency_task_queue)
          /\ \A k \in 1 .. Len(concurrency_task_queue) :
               concurrency_task_queue'[k].kind = concurrency_task_queue[k].kind
      BY <1>1, <3>1, StaleList
    <3> QED BY <3>1, <3>2, StrandedKept DEF Permanent
  <2> QED BY <2>1, <2>2
<1>4. ASSUME NEW v \in Lookups, NEW get_lock \in BOOLEAN,
             \/ enlistCommonVariable(v, get_lock) \/ getCommonVariableLock(v)
             \/ lockCommonVariable(v) \/ releaseCommonVariable(v)
      PROVE  Stranded'
  BY <1>2, <1>4 DEF enlistCommonVariable, getCommonVariableLock,
     lockCommonVariable, releaseCommonVariable, Undefined
<1>5. ASSUME NEW ids, forwardTasks(ids) PROVE Stranded'
  <2>1. CASE concurrency_primary_launch_ran
    <3>1. /\ concurrency_task_queue' = Forwarded(concurrency_task_queue, ids)
          /\ UNCHANGED flagVars /\ UNCHANGED callers
      BY <1>5, <2>1 DEF forwardTasks
    <3>2. Permanent(concurrency_task_queue') => Permanent(concurrency_task_queue)
      BY <1>1, <3>1, PermanentForwarded
    <3> QED BY <3>1, <3>2, StrandedKept
  <2>2. CASE ~ concurrency_primary_launch_ran
    BY <1>2, <1>5, <2>2 DEF forwardTasks, Abort
  <2> QED BY <2>1, <2>2
<1>6. ASSUME setTasks \/ endTasks \/ endAllTasks PROVE Stranded'
  <2>1. CASE concurrency_primary_launch_ran
    <3>1. ~ Permanent(concurrency_task_queue)
      BY <2>1 DEF Stranded
    <3>2. UNCHANGED concurrency_task_queue
      BY <1>6, <2>1 DEF setTasks, endTasks, endAllTasks
    <3>3. ~ Permanent(concurrency_task_queue')
      BY <3>1, <3>2
    <3>4. concurrency_primary_launch_ran' \/ concurrency_scheduled_exit_set'
      BY <1>6, <2>1 DEF setTasks, endTasks, endAllTasks
    <3> QED BY <3>3, <3>4 DEF Stranded
  <2>2. CASE ~ concurrency_primary_launch_ran
    BY <1>2, <1>6, <2>2 DEF setTasks, endTasks, endAllTasks, Abort
  <2> QED BY <2>1, <2>2
<1>7. ASSUME NEW c \in Callers, NEW ignore \in BOOLEAN, runTaskCall(c, ignore)
      PROVE  Stranded'
  <2> DEFINE s == Calling("runTask", 1, ignore)
  <2>1. s \in CallerStates /\ ~ s.joining /\ s.op = "runTask"
    BY CallingType
  <2>2. /\ callers' = [callers EXCEPT ![c] = s]
        /\ UNCHANGED flagVars /\ UNCHANGED concurrency_task_queue
    BY <1>7 DEF runTaskCall
  <2> HIDE DEF s
  <2> QED BY <2>1, <2>2, StrandedCaller
<1>8. ASSUME NEW c \in Callers, setAllTasksCall(c) PROVE Stranded'
  <2> DEFINE s == Calling("setAllTasks", Len(concurrency_task_queue), FALSE)
  <2>1. s \in CallerStates /\ ~ s.joining /\ s.left = Len(concurrency_task_queue)
    BY <1>1, CallingType
  <2>2. /\ callers' = [callers EXCEPT ![c] = s]
        /\ UNCHANGED flagVars /\ UNCHANGED concurrency_task_queue
    BY <1>8 DEF setAllTasksCall
  <2>3. Permanent(concurrency_task_queue) => Len(concurrency_task_queue) > 0
    BY <1>1 DEF Permanent
  <2> HIDE DEF s
  <2> QED BY <2>1, <2>2, <2>3, StrandedCaller
<1>9. ASSUME NEW c \in Callers, NEW ids \in SUBSET TaskIds, forceTasksCall(c, ids)
      PROVE  Stranded'
  <2>1. CASE concurrency_primary_launch_ran
    <3>1. ~ Permanent(concurrency_task_queue)
      BY <2>1 DEF Stranded
    <3>2. /\ concurrency_task_queue' = Forwarded(concurrency_task_queue, ids)
          /\ UNCHANGED flagVars
      BY <1>9, <2>1 DEF forceTasksCall
    <3>3. ~ Permanent(concurrency_task_queue')
      BY <1>1, <3>1, <3>2, PermanentForwarded
    <3>4. concurrency_primary_launch_ran'
      BY <2>1, <3>2 DEF flagVars
    <3> QED BY <3>3, <3>4 DEF Stranded
  <2>2. CASE ~ concurrency_primary_launch_ran
    BY <1>2, <1>9, <2>2 DEF forceTasksCall, Abort
  <2> QED BY <2>1, <2>2
<1>10. ASSUME NEW c \in Callers, callReturns(c) PROVE Stranded'
  <2>1. callers' = [callers EXCEPT ![c] = Idle] /\ UNCHANGED concurrency_task_queue
    BY <1>10 DEF callReturns
  <2>2. CASE callers[c].op = "setAllTasks"
    <3>1. ~ LoopsAreOpen
      BY <1>10, <2>2 DEF callReturns, LoopOver, LoopsAreOpen
    <3>2. ~ Permanent(concurrency_task_queue)
      BY <3>1 DEF Stranded
    <3>3. ~ Permanent(concurrency_task_queue')
      BY <2>1, <3>2
    <3>4. concurrency_primary_launch_ran'
      BY <1>10, <2>2 DEF callReturns
    <3> QED BY <3>3, <3>4 DEF Stranded
  <2>3. CASE callers[c].op # "setAllTasks"
    <3>1. UNCHANGED flagVars
      BY <1>10, <2>3 DEF callReturns
    <3> QED BY <2>1, <3>1, IdleType, StrandedCaller
  <2> QED BY <2>2, <2>3
<1>11. ASSUME NEW c \in Callers, runTask(c) PROVE Stranded'
  <2>1. CASE RunTaskRefused \/ Undefined \/ Abort
    BY <1>2, <2>1 DEF RunTaskRefused, Undefined, Abort
  <2>2. CASE RunTaskJoins(c) \/ RunTaskDetaches(c)
    <3>1. /\ ~ concurrency_scheduled_exit_set
          /\ UNCHANGED flagVars
          /\ \/ UNCHANGED concurrency_task_queue
             \/ concurrency_task_queue' = Front(concurrency_task_queue)
      BY <2>2 DEF RunTaskJoins, RunTaskDetaches, Startable, PopBack
    <3>2. concurrency_task_queue # <<>>
      BY <2>2 DEF RunTaskJoins, RunTaskDetaches, Startable
    <3>3. ~ Permanent(concurrency_task_queue)
      BY <3>1 DEF Stranded
    <3>4. ~ Permanent(Front(concurrency_task_queue))
      BY <1>1, <3>2, <3>3, PermanentFront
    <3>5. ~ Permanent(concurrency_task_queue')
      BY <3>1, <3>3, <3>4
    <3> QED BY <3>1, <3>5 DEF Stranded, flagVars
  <2> QED BY <1>11, <2>1, <2>2, RunTaskCases
<1>12. ASSUME NEW c \in Callers, joinReturns(c) PROVE Stranded'
  <2>1. CASE Undefined \/ Abort
    BY <1>2, <2>1 DEF Undefined, Abort
  <2>2. CASE JoinEnds(c)
    <3>1. Joining # {} /\ concurrency_task_queue # <<>>
      BY <1>12, JoinCases, JoinFacts
    <3>2. ~ Permanent(concurrency_task_queue)
      BY <3>1 DEF Stranded
    <3>3. UNCHANGED flagVars /\ concurrency_task_queue' = Front(concurrency_task_queue)
      BY <2>2 DEF JoinEnds, PopBack
    <3>4. ~ Permanent(concurrency_task_queue')
      BY <1>1, <3>1, <3>2, <3>3, PermanentFront
    <3> QED BY <3>3, <3>4 DEF Stranded, flagVars
  <2> QED BY <1>12, <2>1, <2>2, JoinCases
<1>13. CASE threadEnds
  BY <1>2, <1>13 DEF threadEnds
<1>14. CASE UNCHANGED vars
  BY <1>2, <1>14 DEF vars
<1> QED BY <1>3, <1>4, <1>5, <1>6, <1>7, <1>8, <1>9, <1>10, <1>11, <1>12, <1>13,
        <1>14, StrandedEnqueue DEF Next

(***************************************************************************)
(* A permanent task is in the queue only when runTask starts none, as an   *)
(* exit is set, and no call can clear it, as the launch did not run.       *)
(***************************************************************************)
PermanentTasksAreStranded ==
  Permanent(concurrency_task_queue) =>
    concurrency_scheduled_exit_set /\ ~ concurrency_primary_launch_ran

(***************************************************************************)
(* How far a defect goes.  enqueueTask offers tasks "run as a primary task"*)
(* and setAllTasks is to "start primary tasks" (lines 340, 444); the       *)
(* destructor of enqueueTask's own local task asserts an exit flag, so one *)
(* can be queued only after endAllTasks, and from then on no runTask       *)
(* starts anything, no forwardTasks or setTasks passes its assert and      *)
(* setAllTasks does not get to clear the flags: no permanent task is ever  *)
(* started, in any order of calls.  The queue has to be left alone while a *)
(* setAllTasks runs: one past its last runTask would clear the flags.      *)
(***************************************************************************)
THEOREM PermanentTasksNeverStart ==
  ASSUME "enqueuePermanent" \notin DuringCalls
  PROVE  Spec => []PermanentTasksAreStranded
<1>1. Init => Stranded
  BY DEF Init, Stranded, Permanent
<1>2. IInv /\ Stranded /\ [Next]_vars => Stranded'
  BY StrandedNext
<1>3. Stranded => PermanentTasksAreStranded
  BY DEF Stranded, PermanentTasksAreStranded
<1> QED BY <1>1, <1>2, <1>3, Invariance, PTL DEF Spec

----------------------------------------------------------------------------
(***************************************************************************)
(* The ledger of ids.  Ids(w) are the ids of the tasks in w.               *)
(***************************************************************************)
Ids(w) == {w[k].id : k \in 1 .. Len(w)}

Ledger(w, d) == Ids(w) \cup ToSet(d) = 1 .. Len(w) + Len(d)

LEMMA ToSetCons ==
  ASSUME NEW S, NEW d \in Seq(S), NEW e \in S
  PROVE  ToSet(Cons(e, d)) = {e} \cup ToSet(d)
<1>1. /\ Cons(e, d) \in Seq(S) /\ Len(d) \in Nat
      /\ Len(Cons(e, d)) = Len(d) + 1 /\ Cons(e, d)[1] = e
      /\ \A j \in 1 .. Len(d) : Cons(e, d)[j + 1] = d[j]
  BY ConsList, LenProperties
<1>2. DOMAIN Cons(e, d) = 1 .. Len(d) + 1 /\ DOMAIN d = 1 .. Len(d)
  BY <1>1, LenProperties
<1>3. \A j \in 2 .. Len(d) + 1 : j - 1 \in 1 .. Len(d) /\ Cons(e, d)[j] = d[j - 1]
  <2> TAKE j \in 2 .. Len(d) + 1
  <2>1. j - 1 \in 1 .. Len(d) /\ (j - 1) + 1 = j
    BY <1>1
  <2>2. Cons(e, d)[(j - 1) + 1] = d[j - 1]
    BY <1>1, <2>1
  <2> QED BY <2>1, <2>2
<1>4. ASSUME NEW x \in ToSet(Cons(e, d)) PROVE x \in {e} \cup ToSet(d)
  <2>1. PICK j \in 1 .. Len(d) + 1 : x = Cons(e, d)[j]
    BY <1>2 DEF ToSet
  <2>2. CASE j = 1
    BY <1>1, <2>1, <2>2
  <2>3. CASE j # 1
    <3>1. j - 1 \in DOMAIN d /\ x = d[j - 1]
      BY <1>1, <1>2, <1>3, <2>1, <2>3
    <3> QED BY <3>1 DEF ToSet
  <2> QED BY <2>2, <2>3
<1>5. ASSUME NEW x \in {e} \cup ToSet(d) PROVE x \in ToSet(Cons(e, d))
  <2>1. CASE x = e
    <3>1. 1 \in DOMAIN Cons(e, d)
      BY <1>1, <1>2
    <3> QED BY <1>1, <2>1, <3>1 DEF ToSet
  <2>2. CASE x \in ToSet(d)
    <3>1. PICK j \in 1 .. Len(d) : x = d[j]
      BY <1>2, <2>2 DEF ToSet
    <3>2. j + 1 \in DOMAIN Cons(e, d) /\ Cons(e, d)[j + 1] = x
      BY <1>1, <1>2, <3>1
    <3> QED BY <3>2 DEF ToSet
  <2> QED BY <2>1, <2>2
<1> QED BY <1>4, <1>5

LEMMA ToSetHeadTail ==
  ASSUME NEW d \in Seq(Int), d # <<>>
  PROVE  ToSet(d) = {Head(d)} \cup ToSet(Tail(d))
<1>1. /\ Len(d) \in Nat \ {0} /\ Tail(d) \in Seq(Int) /\ Len(Tail(d)) = Len(d) - 1
      /\ Head(d) = d[1]
      /\ \A j \in 1 .. Len(Tail(d)) : Tail(d)[j] = d[j + 1]
  BY HeadTailProperties, EmptySeq, LenProperties
<1>2. DOMAIN d = 1 .. Len(d) /\ DOMAIN Tail(d) = 1 .. Len(d) - 1
  BY <1>1, LenProperties
<1>3. \A j \in 2 .. Len(d) : j - 1 \in 1 .. Len(d) - 1 /\ Tail(d)[j - 1] = d[j]
  <2> TAKE j \in 2 .. Len(d)
  <2>1. j - 1 \in 1 .. Len(d) - 1 /\ (j - 1) + 1 = j
    BY <1>1
  <2>2. Tail(d)[j - 1] = d[(j - 1) + 1]
    BY <1>1, <2>1
  <2> QED BY <2>1, <2>2
<1>4. ASSUME NEW x \in ToSet(d) PROVE x \in {Head(d)} \cup ToSet(Tail(d))
  <2>1. PICK j \in 1 .. Len(d) : x = d[j]
    BY <1>2 DEF ToSet
  <2>2. CASE j = 1
    BY <1>1, <2>1, <2>2
  <2>3. CASE j # 1
    <3>1. j - 1 \in DOMAIN Tail(d) /\ x = Tail(d)[j - 1]
      BY <1>1, <1>2, <1>3, <2>1, <2>3
    <3> QED BY <3>1 DEF ToSet
  <2> QED BY <2>2, <2>3
<1>5. ASSUME NEW x \in {Head(d)} \cup ToSet(Tail(d)) PROVE x \in ToSet(d)
  <2>1. CASE x = Head(d)
    <3>1. 1 \in DOMAIN d
      BY <1>1, <1>2
    <3> QED BY <1>1, <2>1, <3>1 DEF ToSet
  <2>2. CASE x \in ToSet(Tail(d))
    <3>1. PICK j \in 1 .. Len(d) - 1 : x = Tail(d)[j]
      BY <1>2, <2>2 DEF ToSet
    <3>2. j + 1 \in DOMAIN d /\ d[j + 1] = x
      BY <1>1, <1>2, <3>1
    <3> QED BY <3>2 DEF ToSet
  <2> QED BY <2>1, <2>2
<1> QED BY <1>4, <1>5

(***************************************************************************)
(* Ids of the queues the operations make.                                  *)
(***************************************************************************)
LEMMA IdsCons ==
  ASSUME NEW q \in Seq(Tasks), NEW t \in Tasks
  PROVE  Ids(Cons(t, q)) = Ids(q) \cup {t.id}
<1>1. /\ Len(q) \in Nat /\ Len(Cons(t, q)) = Len(q) + 1 /\ Cons(t, q)[1] = t
      /\ \A j \in 1 .. Len(q) : Cons(t, q)[j + 1] = q[j]
  BY ConsList, LenProperties
<1>2. ASSUME NEW x \in Ids(Cons(t, q)) PROVE x \in Ids(q) \cup {t.id}
  <2>1. PICK j \in 1 .. Len(q) + 1 : x = Cons(t, q)[j].id
    BY <1>1 DEF Ids
  <2>2. CASE j = 1
    BY <1>1, <2>1, <2>2
  <2>3. CASE j # 1
    <3>1. j - 1 \in 1 .. Len(q) /\ (j - 1) + 1 = j
      BY <1>1, <2>1, <2>3
    <3>2. Cons(t, q)[(j - 1) + 1] = q[j - 1]
      BY <1>1, <3>1
    <3>3. x = q[j - 1].id
      BY <2>1, <3>1, <3>2
    <3> QED BY <3>1, <3>3 DEF Ids
  <2> QED BY <2>2, <2>3
<1>3. ASSUME NEW x \in Ids(q) \cup {t.id} PROVE x \in Ids(Cons(t, q))
  <2>1. CASE x = t.id
    <3>1. 1 \in 1 .. Len(Cons(t, q))
      BY <1>1
    <3> QED BY <1>1, <2>1, <3>1 DEF Ids
  <2>2. CASE x \in Ids(q)
    <3>1. PICK j \in 1 .. Len(q) : x = q[j].id
      BY <2>2 DEF Ids
    <3>2. j + 1 \in 1 .. Len(Cons(t, q)) /\ Cons(t, q)[j + 1].id = x
      BY <1>1, <3>1
    <3> QED BY <3>2 DEF Ids
  <2> QED BY <2>1, <2>2
<1> QED BY <1>2, <1>3

LEMMA IdsAppend ==
  ASSUME NEW q \in Seq(Tasks), NEW t \in Tasks
  PROVE  Ids(Append(q, t)) = Ids(q) \cup {t.id}
<1>1. /\ Len(q) \in Nat /\ Len(Append(q, t)) = Len(q) + 1
      /\ \A j \in 1 .. Len(q) : Append(q, t)[j] = q[j]
      /\ Append(q, t)[Len(q) + 1] = t
  BY AppendProperties, LenProperties
<1>2. ASSUME NEW x \in Ids(Append(q, t)) PROVE x \in Ids(q) \cup {t.id}
  <2>1. PICK j \in 1 .. Len(q) + 1 : x = Append(q, t)[j].id
    BY <1>1 DEF Ids
  <2>2. CASE j = Len(q) + 1
    BY <1>1, <2>1, <2>2
  <2>3. CASE j # Len(q) + 1
    <3>1. j \in 1 .. Len(q) /\ x = q[j].id
      BY <1>1, <2>1, <2>3
    <3> QED BY <3>1 DEF Ids
  <2> QED BY <2>2, <2>3
<1>3. ASSUME NEW x \in Ids(q) \cup {t.id} PROVE x \in Ids(Append(q, t))
  <2>1. CASE x = t.id
    <3>1. Len(q) + 1 \in 1 .. Len(Append(q, t))
      BY <1>1
    <3> QED BY <1>1, <2>1, <3>1 DEF Ids
  <2>2. CASE x \in Ids(q)
    <3>1. PICK j \in 1 .. Len(q) : x = q[j].id
      BY <2>2 DEF Ids
    <3>2. j \in 1 .. Len(Append(q, t)) /\ Append(q, t)[j].id = x
      BY <1>1, <3>1
    <3> QED BY <3>2 DEF Ids
  <2> QED BY <2>1, <2>2
<1> QED BY <1>2, <1>3

LEMMA IdsFront ==
  ASSUME NEW q \in Seq(Tasks), q # <<>>
  PROVE  Ids(q) = Ids(Front(q)) \cup {Last(q).id}
<1>1. /\ Len(q) \in Nat \ {0} /\ Len(Front(q)) = Len(q) - 1 /\ Last(q) = q[Len(q)]
      /\ \A j \in 1 .. Len(q) - 1 : Front(q)[j] = q[j]
  BY FrontList
<1>2. ASSUME NEW x \in Ids(q) PROVE x \in Ids(Front(q)) \cup {Last(q).id}
  <2>1. PICK j \in 1 .. Len(q) : x = q[j].id
    BY DEF Ids
  <2>2. CASE j = Len(q)
    BY <1>1, <2>1, <2>2
  <2>3. CASE j # Len(q)
    <3>1. j \in 1 .. Len(Front(q)) /\ x = Front(q)[j].id
      BY <1>1, <2>1, <2>3
    <3> QED BY <3>1 DEF Ids
  <2> QED BY <2>2, <2>3
<1>3. ASSUME NEW x \in Ids(Front(q)) \cup {Last(q).id} PROVE x \in Ids(q)
  <2>1. CASE x = Last(q).id
    <3>1. Len(q) \in 1 .. Len(q)
      BY <1>1
    <3> QED BY <1>1, <2>1, <3>1 DEF Ids
  <2>2. CASE x \in Ids(Front(q))
    <3>1. PICK j \in 1 .. Len(q) - 1 : x = Front(q)[j].id
      BY <1>1, <2>2 DEF Ids
    <3>2. j \in 1 .. Len(q) /\ q[j].id = x
      BY <1>1, <3>1
    <3> QED BY <3>2 DEF Ids
  <2> QED BY <2>1, <2>2
<1> QED BY <1>2, <1>3

LEMMA IdsForwarded ==
  ASSUME NEW q \in Seq(Tasks), NEW ids
  PROVE  Ids(Forwarded(q, ids)) = Ids(q)
<1>1. /\ Len(Forwarded(q, ids)) = Len(q)
      /\ \A n \in 1 .. Len(q) : \E k \in 1 .. Len(q) : Forwarded(q, ids)[n] = q[k]
      /\ \A k \in 1 .. Len(q) : \E n \in 1 .. Len(q) : Forwarded(q, ids)[n] = q[k]
  BY ForwardedList
<1>2. ASSUME NEW x \in Ids(q) PROVE x \in Ids(Forwarded(q, ids))
  <2>1. PICK k \in 1 .. Len(q) : x = q[k].id
    BY DEF Ids
  <2>2. PICK n \in 1 .. Len(q) : Forwarded(q, ids)[n] = q[k]
    BY <1>1
  <2> QED BY <1>1, <2>1, <2>2 DEF Ids
<1>3. ASSUME NEW x \in Ids(Forwarded(q, ids)) PROVE x \in Ids(q)
  <2>1. PICK n \in 1 .. Len(q) : x = Forwarded(q, ids)[n].id
    BY <1>1 DEF Ids
  <2>2. PICK k \in 1 .. Len(q) : Forwarded(q, ids)[n] = q[k]
    BY <1>1
  <2> QED BY <2>1, <2>2 DEF Ids
<1> QED BY <1>2, <1>3

LEMMA IdsSame ==
  ASSUME NEW q \in Seq(Tasks), NEW r \in Seq(Tasks), Len(r) = Len(q),
         \A k \in 1 .. Len(q) : r[k].id = q[k].id
  PROVE  Ids(r) = Ids(q)
BY DEF Ids

(***************************************************************************)
(* What the operations do to the ledger.  A task that is started leaves    *)
(* its id to the stack; a new task takes its id from there, or the next    *)
(* number when the stack is empty.                                         *)
(***************************************************************************)
LEMMA LedgerLeaves ==
  ASSUME NEW w \in Seq(Tasks), w # <<>>, NEW d \in Seq(Int), Ledger(w, d)
  PROVE  Ledger(Front(w), Cons(Last(w).id, d))
<1>1. /\ Len(w) \in Nat \ {0} /\ Len(Front(w)) = Len(w) - 1 /\ Last(w) \in Tasks
  BY FrontList
<1>2. Len(d) \in Nat /\ Last(w).id \in Int
  BY <1>1, LenProperties DEF Tasks
<1> DEFINE e == Last(w).id
           r == Cons(e, d)
<1>3. Len(r) = Len(d) + 1 /\ ToSet(r) = {e} \cup ToSet(d)
  <2> DEFINE I == Int
  <2>1. d \in Seq(I) /\ e \in I
    BY <1>2
  <2> HIDE DEF e, I
  <2>2. Len(r) = Len(d) + 1
    BY <2>1, ConsList
  <2> QED BY <2>1, <2>2, ToSetCons
<1>4. Ids(w) = Ids(Front(w)) \cup {e}
  BY IdsFront
<1> HIDE DEF e, r
<1>5. Ids(Front(w)) \cup ToSet(r) = Ids(w) \cup ToSet(d)
  BY <1>3, <1>4
<1>6. Len(Front(w)) + Len(r) = Len(w) + Len(d)
  BY <1>1, <1>2, <1>3
<1>7. Ledger(Front(w), r)
  BY <1>5, <1>6 DEF Ledger
<1> QED BY <1>7 DEF r, e

LEMMA LedgerReuses ==
  ASSUME NEW w \in Seq(Tasks), NEW d \in Seq(Int), d # <<>>, Ledger(w, d),
         NEW r \in Seq(Tasks), Len(r) = Len(w) + 1,
         Ids(r) = Ids(w) \cup {Head(d)}
  PROVE  Ledger(r, Tail(d))
<1>1. Len(w) \in Nat /\ Len(d) \in Nat \ {0}
  BY LenProperties, EmptySeq
<1>2. Len(Tail(d)) = Len(d) - 1
  BY HeadTailProperties
<1>3. Ids(r) \cup ToSet(Tail(d)) = Ids(w) \cup ToSet(d)
  BY ToSetHeadTail
<1>4. Len(r) + Len(Tail(d)) = Len(w) + Len(d)
  BY <1>1, <1>2
<1> QED BY <1>3, <1>4 DEF Ledger

LEMMA LedgerGrows ==
  ASSUME NEW w \in Seq(Tasks), Ledger(w, <<>>),
         NEW r \in Seq(Tasks), Len(r) = Len(w) + 1,
         Ids(r) = Ids(w) \cup {Len(w) + 1}
  PROVE  Ledger(r, <<>>)
<1>1. Len(w) \in Nat /\ Len(<<>>) = 0
  BY LenProperties
<1>2. ToSet(<<>>) = {}
  BY DEF ToSet
<1>3. Len(w) + Len(<<>>) = Len(w)
  BY <1>1
<1>4. Ids(w) = 1 .. Len(w)
  BY <1>2, <1>3 DEF Ledger
<1>5. Ids(r) = 1 .. Len(r)
  BY <1>1, <1>4
<1>6. Len(r) + Len(<<>>) = Len(r)
  BY <1>1
<1> QED BY <1>2, <1>5, <1>6 DEF Ledger

(***************************************************************************)
(* The waiting tasks, and how the queue's changes change them.             *)
(***************************************************************************)
Waiting(q, joined) == IF joined THEN Front(q) ELSE q

LEMMA WaitingFacts ==
  ASSUME IInv
  PROVE  /\ WaitingTasks = Waiting(concurrency_task_queue, Joining # {})
         /\ WaitingTasks \in Seq(Tasks)
         /\ Len(WaitingTasks) \in Nat
         /\ Len(WaitingTasks) = concurrency_local_thread_count
<1>1. concurrency_task_queue \in Seq(Tasks) /\ Len(concurrency_task_queue) \in Nat
  BY LenProperties DEF IInv, TypeOK
<1>2. CASE Joining = {}
  BY <1>1, <1>2 DEF IInv, CountMatches, WaitingTasks, Waiting
<1>3. CASE Joining # {}
  <2>1. concurrency_task_queue # <<>>
    BY <1>3 DEF IInv, OneJoin
  <2>2. /\ Front(concurrency_task_queue) \in Seq(Tasks)
        /\ Len(Front(concurrency_task_queue)) = Len(concurrency_task_queue) - 1
    BY <1>1, <2>1, FrontList
  <2>3. Len(Front(concurrency_task_queue)) \in Nat
    BY <2>2, LenProperties
  <2> QED BY <1>1, <1>3, <2>2, <2>3 DEF IInv, CountMatches, WaitingTasks, Waiting
<1> QED BY <1>2, <1>3

LEMMA WaitingCons ==
  ASSUME NEW q \in Seq(Tasks), NEW t \in Tasks, NEW joined \in BOOLEAN,
         joined => q # <<>>
  PROVE  /\ Waiting(Cons(t, q), joined) \in Seq(Tasks)
         /\ Len(Waiting(Cons(t, q), joined)) = Len(Waiting(q, joined)) + 1
         /\ Ids(Waiting(Cons(t, q), joined)) = Ids(Waiting(q, joined)) \cup {t.id}
<1> DEFINE c == Cons(t, q)
<1>1. /\ c \in Seq(Tasks) /\ Len(c) = Len(q) + 1 /\ c[1] = t
      /\ \A j \in 1 .. Len(q) : c[j + 1] = q[j]
      /\ Ids(c) = Ids(q) \cup {t.id}
  <2>1. Ids(c) = Ids(q) \cup {t.id}
    BY IdsCons
  <2> QED BY <2>1, ConsList
<1>2. CASE ~ joined
  BY <1>1, <1>2 DEF Waiting
<1>3. CASE joined
  <2>1. /\ Len(q) \in Nat \ {0} /\ Front(q) \in Seq(Tasks)
        /\ Len(Front(q)) = Len(q) - 1
        /\ \A j \in 1 .. Len(q) - 1 : Front(q)[j] = q[j]
    BY <1>3, FrontList
  <2>2. c # <<>>
    BY <1>1, <2>1, EmptySeq
  <2> DEFINE f == Cons(t, Front(q))
  <2>3. /\ f \in Seq(Tasks) /\ Len(f) = Len(Front(q)) + 1 /\ f[1] = t
        /\ \A j \in 1 .. Len(Front(q)) : f[j + 1] = Front(q)[j]
        /\ Ids(f) = Ids(Front(q)) \cup {t.id}
    <3>1. Ids(f) = Ids(Front(q)) \cup {t.id}
      BY <2>1, IdsCons
    <3> QED BY <2>1, <3>1, ConsList
  <2> HIDE DEF c, f
  <2>4. /\ Front(c) \in Seq(Tasks) /\ Len(Front(c)) = Len(c) - 1
        /\ \A j \in 1 .. Len(c) - 1 : Front(c)[j] = c[j]
    BY <1>1, <2>2, FrontList
  <2>5. Len(Front(c)) = Len(f) /\ Len(f) = Len(q)
    BY <1>1, <2>1, <2>3, <2>4
  <2>6. ASSUME NEW j \in 1 .. Len(q) PROVE Front(c)[j] = f[j]
    <3>1. Front(c)[j] = c[j]
      BY <1>1, <2>1, <2>4
    <3>2. CASE j = 1
      BY <1>1, <2>3, <3>1, <3>2
    <3>3. CASE j # 1
      <4>1. /\ j - 1 \in 1 .. Len(q) /\ j - 1 \in 1 .. Len(Front(q))
            /\ j - 1 \in 1 .. Len(q) - 1 /\ (j - 1) + 1 = j
        BY <2>1, <3>3
      <4>2. c[(j - 1) + 1] = q[j - 1] /\ f[(j - 1) + 1] = Front(q)[j - 1]
            /\ Front(q)[j - 1] = q[j - 1]
        BY <1>1, <2>1, <2>3, <4>1
      <4> QED BY <3>1, <4>1, <4>2
    <3> QED BY <3>2, <3>3
  <2>7. Front(c) = f
    BY <2>3, <2>4, <2>5, <2>6, SeqEqual
  <2>8. Waiting(c, joined) = f /\ Waiting(q, joined) = Front(q)
    BY <1>3, <2>7 DEF Waiting
  <2>9. Waiting(Cons(t, q), joined) = f
    BY <2>8 DEF c
  <2> QED BY <2>3, <2>8, <2>9
<1> QED BY <1>2, <1>3

LEMMA WaitingSame ==
  ASSUME NEW q \in Seq(Tasks), NEW r \in Seq(Tasks), Len(r) = Len(q),
         \A k \in 1 .. Len(q) : r[k].id = q[k].id,
         NEW joined \in BOOLEAN, joined => q # <<>>
  PROVE  /\ Len(Waiting(r, joined)) = Len(Waiting(q, joined))
         /\ Ids(Waiting(r, joined)) = Ids(Waiting(q, joined))
<1>1. CASE ~ joined
  BY <1>1, IdsSame DEF Waiting
<1>2. CASE joined
  <2>1. Len(q) \in Nat \ {0} /\ q # <<>> /\ r # <<>>
    BY <1>2, EmptySeq, LenProperties
  <2>2. /\ Front(q) \in Seq(Tasks) /\ Len(Front(q)) = Len(q) - 1
        /\ \A j \in 1 .. Len(q) - 1 : Front(q)[j] = q[j]
    BY <2>1, FrontList
  <2>3. /\ Front(r) \in Seq(Tasks) /\ Len(Front(r)) = Len(r) - 1
        /\ \A j \in 1 .. Len(r) - 1 : Front(r)[j] = r[j]
    BY <2>1, FrontList
  <2>4. Len(Front(r)) = Len(Front(q))
    BY <2>2, <2>3
  <2>5. \A k \in 1 .. Len(Front(q)) : Front(r)[k].id = Front(q)[k].id
    BY <2>1, <2>2, <2>3
  <2>6. Ids(Front(r)) = Ids(Front(q))
    BY <2>2, <2>3, <2>4, <2>5, IdsSame
  <2> QED BY <1>2, <2>4, <2>6 DEF Waiting
<1> QED BY <1>1, <1>2

(***************************************************************************)
(* The steps.  Nobody waits in join() when the back of the queue is put in *)
(* another order or a permanent task is queued there.                      *)
(***************************************************************************)
LEMMA LedgerIs ==
  IdLedger <=> Ledger(WaitingTasks, concurrency_last_id_death)
BY DEF IdLedger, IdsInUse, Ledger, Ids

LEMMA LedgerWas ==
  IdLedger' <=> Ledger(WaitingTasks', concurrency_last_id_death')
BY DEF IdLedger, IdsInUse, Ledger, Ids

LEMMA LedgerKept ==
  ASSUME IdLedger, UNCHANGED concurrency_last_id_death,
         Len(WaitingTasks') = Len(WaitingTasks),
         Ids(WaitingTasks') = Ids(WaitingTasks)
  PROVE  IdLedger'
BY LedgerIs, LedgerWas DEF Ledger

LEMMA LedgerSame ==
  ASSUME IdLedger, UNCHANGED <<concurrency_last_id_death, concurrency_task_queue>>,
         Joining' = Joining
  PROVE  IdLedger'
<1>1. WaitingTasks' = WaitingTasks
  BY DEF WaitingTasks
<1> QED BY <1>1, LedgerIs, LedgerWas

LEMMA ReorderingWaits ==
  ASSUME DuringCalls \cap Reordering = {}, NEW op \in Reordering, May(op)
  PROVE  Joining = {}
<1>1. \A c \in Callers : callers[c] = Idle
  BY DEF May
<1> QED BY <1>1, IdleType DEF Joining

LEMMA LedgerEnqueue ==
  ASSUME DuringCalls \cap Reordering = {}, IInv, IdLedger,
         NEW kind \in TaskKinds, enqueueTask(kind)
  PROVE  IdLedger'
<1> DEFINE task == [id |-> NewId, kind |-> kind, stale |-> FALSE]
           queue == concurrency_task_queue
           death == concurrency_last_id_death
           joined == Joining # {}
<1>1. task \in Tasks /\ queue \in Seq(Tasks) /\ death \in Seq(Int) /\ task.id = NewId
  BY NewIdType, ConcurrencyAssumption DEF IInv, TypeOK, Tasks
<1>2. CASE Abort \/ Undefined
  BY <1>2, LedgerSame DEF Abort, Undefined, stateVars, taskVars, threadVars, Joining
<1>3. CASE ~ (Abort \/ Undefined)
  <2>1. /\ UNCHANGED threadVars
        /\ queue' = IF kind.permanent THEN Append(queue, task) ELSE Cons(task, queue)
        /\ death' = IF death = <<>> THEN <<>> ELSE Tail(death)
        /\ Len(queue) < MaxTasks
    BY <1>3 DEF enqueueTask, Queued
  <2>2. Joining' = Joining
    BY <2>1 DEF threadVars, Joining
  <2>3. /\ WaitingTasks = Waiting(queue, joined) /\ WaitingTasks \in Seq(Tasks)
        /\ Len(WaitingTasks) \in Nat
        /\ Len(WaitingTasks) = concurrency_local_thread_count
    BY WaitingFacts
  <2>4. WaitingTasks' = Waiting(queue', joined)
    BY <2>2 DEF WaitingTasks, Waiting
  <2>5. joined \in BOOLEAN /\ (joined => queue # <<>>)
    BY DEF IInv, OneJoin
  <2>6. kind.permanent => ~ joined
    <3>1. kind.permanent => May("enqueuePermanent")
      BY DEF enqueueTask
    <3>2. "enqueuePermanent" \in Reordering
      BY DEF Reordering
    <3> QED BY <3>1, <3>2, ReorderingWaits
  <2>7. death = <<>> => NewId = Len(WaitingTasks) + 1
    <3>1. concurrency_local_thread_count + 1 \in Shorts
      <4>1. Len(queue) \in Nat
        BY <1>1, LenProperties
      <4> QED BY <2>1, <4>1, ConcurrencyAssumption DEF IInv, CountMatches, Shorts
    <3> QED BY <2>3, <3>1, ShortFits DEF NewId
  <2>8. death # <<>> => NewId = Head(death)
    BY DEF NewId
  <2>9. Ledger(WaitingTasks, death)
    BY LedgerIs
  <2> HIDE DEF task, queue, death, joined
  <2>10. /\ WaitingTasks' \in Seq(Tasks)
         /\ Len(WaitingTasks') = Len(WaitingTasks) + 1
         /\ Ids(WaitingTasks') = Ids(WaitingTasks) \cup {NewId}
    <3>1. CASE kind.permanent
      <4>1. WaitingTasks = queue /\ WaitingTasks' = Append(queue, task)
        BY <2>1, <2>3, <2>4, <2>6, <3>1 DEF Waiting
      <4>2. /\ Append(queue, task) \in Seq(Tasks)
            /\ Len(Append(queue, task)) = Len(queue) + 1
        BY <1>1, AppendProperties
      <4>3. Ids(Append(queue, task)) = Ids(queue) \cup {NewId}
        BY <1>1, IdsAppend
      <4> QED BY <4>1, <4>2, <4>3
    <3>2. CASE ~ kind.permanent
      <4>1. WaitingTasks' = Waiting(Cons(task, queue), joined)
        BY <2>1, <2>4, <3>2
      <4> QED BY <1>1, <2>3, <2>5, <4>1, WaitingCons
    <3> QED BY <3>1, <3>2
  <2>11. CASE death = <<>>
    <3>1. Ledger(WaitingTasks', <<>>)
      BY <2>3, <2>7, <2>9, <2>10, <2>11, LedgerGrows
    <3> QED BY <2>1, <2>11, <3>1, LedgerWas DEF death
  <2>12. CASE death # <<>>
    <3>1. Ledger(WaitingTasks', Tail(death))
      BY <1>1, <2>3, <2>8, <2>9, <2>10, <2>12, LedgerReuses
    <3> QED BY <2>1, <2>12, <3>1, LedgerWas DEF death
  <2> QED BY <2>11, <2>12
<1> QED BY <1>2, <1>3

(***************************************************************************)
(* A task started leaves the waiting tasks at once, whether runTask joins  *)
(* its thread or not.                                                      *)
(***************************************************************************)
LEMMA LedgerRunTask ==
  ASSUME IInv, IdLedger, NEW c \in Callers, runTask(c)
  PROVE  IdLedger'
<1>1. process = "running" /\ callers[c].left > 0 /\ ~ callers[c].joining
  BY RunTaskCases
<1>2. CASE RunTaskRefused \/ Undefined \/ Abort
  BY <1>2, LedgerSame
     DEF RunTaskRefused, Undefined, Abort, stateVars, taskVars, threadVars, Joining
<1>3. CASE RunTaskJoins(c) \/ RunTaskDetaches(c)
  <2>1. /\ Joining = {} /\ concurrency_task_queue # <<>>
        /\ concurrency_task_queue \in Seq(Tasks)
    BY <1>1, <1>3, StartableFacts DEF RunTaskJoins, RunTaskDetaches
  <2>2. WaitingTasks = concurrency_task_queue
    BY <2>1 DEF WaitingTasks
  <2>3. concurrency_last_id_death' =
          Cons(Last(concurrency_task_queue).id, concurrency_last_id_death)
    BY <1>3 DEF RunTaskJoins, RunTaskDetaches, Launch
  <2>4. WaitingTasks' = Front(concurrency_task_queue)
    <3>1. callers \in [Callers -> CallerStates]
      BY DEF IInv, TypeOK
    <3>2. CASE RunTaskJoins(c)
      <4>1. callers'[c].joining
        <5>1. callers[c] \in CallerStates
          BY <3>1
        <5> QED BY <3>1, <3>2, <5>1 DEF RunTaskJoins, CallerStates
      <4>2. Joining' # {} /\ concurrency_task_queue' = concurrency_task_queue
        BY <3>2, <4>1 DEF RunTaskJoins, Joining
      <4> QED BY <4>2 DEF WaitingTasks
    <3>3. CASE RunTaskDetaches(c)
      <4>1. callers' = [callers EXCEPT ![c].left = @ - 1]
        BY <3>3 DEF RunTaskDetaches
      <4>2. \A d \in Callers : callers'[d].joining = callers[d].joining
        BY <3>1, <4>1 DEF CallerStates
      <4>3. Joining' = {} /\ concurrency_task_queue' = Front(concurrency_task_queue)
        BY <2>1, <3>3, <4>2 DEF RunTaskDetaches, PopBack, Joining
      <4> QED BY <4>3 DEF WaitingTasks
    <3> QED BY <1>3, <3>2, <3>3
  <2>5. Ledger(concurrency_task_queue, concurrency_last_id_death)
    BY <2>2, LedgerIs
  <2>6. concurrency_last_id_death \in Seq(Int)
    BY DEF IInv, TypeOK
  <2>7. Ledger(Front(concurrency_task_queue),
               Cons(Last(concurrency_task_queue).id, concurrency_last_id_death))
    BY <2>1, <2>5, <2>6, LedgerLeaves
  <2> QED BY <2>3, <2>4, <2>7, LedgerWas
<1> QED BY <1>2, <1>3, RunTaskCases

LEMMA LedgerJoinReturns ==
  ASSUME IInv, IdLedger, NEW c \in Callers, joinReturns(c)
  PROVE  IdLedger'
<1>1. CASE Undefined \/ Abort
  BY <1>1, LedgerSame DEF Undefined, Abort, stateVars, taskVars, threadVars, Joining
<1>2. CASE JoinEnds(c)
  <2>1. Joining = {c}
    BY JoinCases, JoinFacts
  <2>2. callers \in [Callers -> CallerStates]
    BY DEF IInv, TypeOK
  <2>3. \A d \in Callers : ~ callers'[d].joining
    <3>1. \A d \in Callers \ {c} : callers'[d] = callers[d] /\ ~ callers[d].joining
      BY <1>2, <2>1, <2>2 DEF JoinEnds, Joining
    <3>2. callers[c] \in CallerStates /\ callers[c].left \in Int
      BY <2>2 DEF CallerStates
    <3>3. ~ callers'[c].joining
      <4>1. callers'[c] = [callers[c] EXCEPT !.left = callers[c].left - 1,
                                             !.joining = FALSE, !.poped_task = 0]
        BY <1>2, <2>2 DEF JoinEnds
      <4>2. callers[c].left - 1 \in Nat
        BY <3>2, JoinCases DEF IInv, OneJoin, CallerStates
      <4> QED BY <3>2, <4>1, <4>2, JoinedState
    <3> QED BY <3>1, <3>3
  <2>4. Joining' = {}
    BY <2>3 DEF Joining
  <2>5. /\ concurrency_task_queue' = Front(concurrency_task_queue)
        /\ UNCHANGED concurrency_last_id_death
    BY <1>2 DEF JoinEnds, PopBack
  <2>6. WaitingTasks' = WaitingTasks
    BY <2>1, <2>4, <2>5 DEF WaitingTasks
  <2> QED BY <2>5, <2>6, LedgerIs, LedgerWas
<1> QED BY <1>1, <1>2, JoinCases

LEMMA LedgerForward ==
  ASSUME DuringCalls \cap Reordering = {}, IInv, IdLedger, NEW ids,
         May("forwardTasks"), Joining' = Joining,
         concurrency_task_queue' = Forwarded(concurrency_task_queue, ids),
         UNCHANGED concurrency_last_id_death
  PROVE  IdLedger'
<1>1. Joining = {}
  BY ReorderingWaits DEF Reordering
<1>2. /\ WaitingTasks = concurrency_task_queue
      /\ WaitingTasks' = Forwarded(concurrency_task_queue, ids)
  BY <1>1 DEF WaitingTasks
<1>3. concurrency_task_queue \in Seq(Tasks)
  BY DEF IInv, TypeOK
<1>4. Len(WaitingTasks') = Len(WaitingTasks)
  BY <1>2, <1>3, ForwardedList
<1>5. Ids(WaitingTasks') = Ids(WaitingTasks)
  BY <1>2, <1>3, IdsForwarded
<1> QED BY <1>4, <1>5, LedgerKept

LEMMA LedgerRemove ==
  ASSUME IInv, IdLedger, NEW v \in Lookups, removeCommonVariable(v)
  PROVE  IdLedger'
<1>1. CASE ~ Removable(v)
  BY <1>1, LedgerSame DEF removeCommonVariable, stateVars, taskVars, threadVars, Joining
<1>2. CASE Removable(v)
  <2>0. SUFFICES ASSUME Erase(v) PROVE IdLedger'
    BY <1>2, LedgerSame DEF removeCommonVariable, Undefined, stateVars, taskVars,
       threadVars, Joining
  <2>1. /\ concurrency_task_queue' =
             [k \in 1 .. Len(concurrency_task_queue) |->
                Stale(concurrency_task_queue[k], v)]
        /\ UNCHANGED <<callers, concurrency_last_id_death>>
    BY <2>0 DEF Erase, threadVars
  <2>2. concurrency_task_queue \in Seq(Tasks)
    BY DEF IInv, TypeOK
  <2>3. /\ concurrency_task_queue' \in Seq(Tasks)
        /\ Len(concurrency_task_queue') = Len(concurrency_task_queue)
        /\ \A k \in 1 .. Len(concurrency_task_queue) :
             concurrency_task_queue'[k].id = concurrency_task_queue[k].id
    BY <2>1, <2>2, StaleList
  <2> DEFINE joined == Joining # {}
  <2>4. joined \in BOOLEAN /\ (joined => concurrency_task_queue # <<>>)
    BY DEF IInv, OneJoin
  <2>5. /\ WaitingTasks = Waiting(concurrency_task_queue, joined)
        /\ WaitingTasks' = Waiting(concurrency_task_queue', joined)
    BY <2>1 DEF WaitingTasks, Waiting, Joining
  <2> HIDE DEF joined
  <2>6. /\ Len(WaitingTasks') = Len(WaitingTasks)
        /\ Ids(WaitingTasks') = Ids(WaitingTasks)
    BY <2>2, <2>3, <2>4, <2>5, WaitingSame
  <2> QED BY <2>1, <2>6, LedgerKept
<1> QED BY <1>1, <1>2

LEMMA LedgerNext ==
  ASSUME DuringCalls \cap Reordering = {}, IInv, IdLedger, [Next]_vars
  PROVE  IdLedger'
<1> USE DEF stateVars, taskVars, threadVars
<1>1. CASE UNCHANGED <<concurrency_last_id_death, concurrency_task_queue, callers>>
  BY <1>1, LedgerSame DEF Joining
<1>2. ASSUME NEW v \in Lookups, NEW get_lock \in BOOLEAN,
             \/ enlistCommonVariable(v, get_lock) \/ getCommonVariableLock(v)
             \/ lockCommonVariable(v) \/ releaseCommonVariable(v)
      PROVE  IdLedger'
  BY <1>1, <1>2 DEF enlistCommonVariable, getCommonVariableLock,
     lockCommonVariable, releaseCommonVariable, Undefined
<1>3. ASSUME NEW ids, forwardTasks(ids) PROVE IdLedger'
  <2>1. CASE concurrency_primary_launch_ran
    BY <1>3, <2>1, LedgerForward DEF forwardTasks, Joining
  <2>2. CASE ~ concurrency_primary_launch_ran
    BY <1>1, <1>3, <2>2 DEF forwardTasks, Abort
  <2> QED BY <2>1, <2>2
<1>4. ASSUME setTasks \/ endTasks \/ endAllTasks PROVE IdLedger'
  BY <1>1, <1>4 DEF setTasks, endTasks, endAllTasks, Abort
<1>5. ASSUME NEW c \in Callers, NEW s \in CallerStates, ~ s.joining,
             ~ callers[c].joining, callers' = [callers EXCEPT ![c] = s]
      PROVE  Joining' = Joining
  BY <1>5 DEF Joining, IInv, TypeOK
<1>6. ASSUME NEW c \in Callers, NEW ignore \in BOOLEAN, runTaskCall(c, ignore)
      PROVE  IdLedger'
  <2>1. Joining' = Joining
    BY <1>5, <1>6, CallingType, IdleType DEF runTaskCall
  <2> QED BY <1>6, <2>1, LedgerSame DEF runTaskCall
<1>7. ASSUME NEW c \in Callers, setAllTasksCall(c) PROVE IdLedger'
  <2>1. Len(concurrency_task_queue) \in Nat
    BY LenProperties DEF IInv, TypeOK
  <2>2. Joining' = Joining
    BY <1>5, <1>7, <2>1, CallingType, IdleType DEF setAllTasksCall
  <2> QED BY <1>7, <2>2, LedgerSame DEF setAllTasksCall
<1>8. ASSUME NEW c \in Callers, NEW ids \in SUBSET TaskIds, forceTasksCall(c, ids)
      PROVE  IdLedger'
  <2>1. CASE concurrency_primary_launch_ran
    <3>1. Cardinality(ids) \in Nat
      <4>1. IsFiniteSet(TaskIds)
        BY FS_Interval, ConcurrencyAssumption DEF TaskIds
      <4>2. IsFiniteSet(ids)
        BY <4>1, FS_Subset
      <4> QED BY <4>2, FS_CardinalityType
    <3>2. Joining' = Joining
      BY <1>5, <1>8, <2>1, <3>1, CallingType, IdleType DEF forceTasksCall
    <3> QED BY <1>8, <2>1, <3>2, LedgerForward DEF forceTasksCall
  <2>2. CASE ~ concurrency_primary_launch_ran
    BY <1>1, <1>8, <2>2 DEF forceTasksCall, Abort
  <2> QED BY <2>1, <2>2
<1>9. ASSUME NEW c \in Callers, callReturns(c) PROVE IdLedger'
  <2>1. ~ callers[c].joining
    BY <1>9 DEF callReturns, LoopOver, IInv, OneJoin
  <2>2. Joining' = Joining
    BY <1>5, <1>9, <2>1, IdleType DEF callReturns
  <2> QED BY <1>9, <2>2, LedgerSame DEF callReturns
<1>10. CASE threadEnds
  BY <1>1, <1>10 DEF threadEnds
<1>11. CASE UNCHANGED vars
  BY <1>1, <1>11 DEF vars
<1> QED BY <1>2, <1>3, <1>4, <1>6, <1>7, <1>8, <1>9, <1>10, <1>11, LedgerEnqueue,
        LedgerRemove, LedgerRunTask, LedgerJoinReturns DEF Next

(***************************************************************************)
(* Task ids are never shared and never lost: the waiting tasks and the     *)
(* stack concurrency_last_id_death together hold every id up to their      *)
(* number, although enqueueTask draws ids from the stack or from the count *)
(* and runTask gives them back before the task has left the queue.  It     *)
(* needs the back of the queue to be left alone while a runTask waits.     *)
(***************************************************************************)
THEOREM IdsAreKept ==
  ASSUME DuringCalls \cap Reordering = {}
  PROVE  Spec => []IdLedger
<1>1. Init => IdLedger
  <2> SUFFICES ASSUME Init PROVE IdLedger
    OBVIOUS
  <2>1. Joining = {}
    BY DEF Init, Joining, Idle
  <2>2. WaitingTasks = <<>> /\ concurrency_last_id_death = <<>>
    BY <2>1 DEF Init, WaitingTasks
  <2>3. IdsInUse = {} /\ ToSet(<<>>) = {} /\ 1 .. 0 + 0 = {} /\ Len(<<>>) = 0
    BY <2>2 DEF IdsInUse, ToSet
  <2> QED BY <2>2, <2>3 DEF IdLedger
<1>2. IInv /\ IdLedger /\ [Next]_vars => IdLedger'
  BY LedgerNext
<1> QED BY <1>1, <1>2, Invariance, PTL DEF Spec

(***************************************************************************)
(* No two waiting tasks have the same id, and none has an id that is still *)
(* on the stack for a new task: a list of n entries that holds n different *)
(* ids holds each once.                                                    *)
(***************************************************************************)
NoIdTwice ==
  LET n == Len(WaitingTasks)
  IN  /\ \A j, k \in 1 .. n : WaitingTasks[j].id = WaitingTasks[k].id => j = k
      /\ \A j \in 1 .. n : WaitingTasks[j].id \notin ToSet(concurrency_last_id_death)

LEMMA LedgerIsInjective ==
  ASSUME NEW w \in Seq(Tasks), NEW d \in Seq(Int), Ledger(w, d)
  PROVE  /\ \A j, k \in 1 .. Len(w) : w[j].id = w[k].id => j = k
         /\ \A j \in 1 .. Len(w) : w[j].id \notin ToSet(d)
<1> DEFINE n == Len(w)
           all == n + Len(d)
           f == [i \in 1 .. all |-> IF i <= n THEN w[i].id ELSE d[i - n]]
<1>1. n \in Nat /\ Len(d) \in Nat /\ DOMAIN d = 1 .. Len(d)
  BY LenProperties
<1>2. \A x \in 1 .. all : \E i \in 1 .. all : f[i] = x
  <2> TAKE x \in 1 .. all
  <2>1. x \in Ids(w) \/ x \in ToSet(d)
    BY DEF Ledger
  <2>2. CASE x \in Ids(w)
    <3>1. PICK i \in 1 .. n : w[i].id = x
      BY <2>2 DEF Ids
    <3>2. i \in 1 .. all /\ i <= n
      BY <1>1
    <3> QED BY <3>1, <3>2
  <2>3. CASE x \in ToSet(d)
    <3>1. PICK i \in 1 .. Len(d) : d[i] = x
      BY <1>1, <2>3 DEF ToSet
    <3>2. i + n \in 1 .. all /\ ~ (i + n <= n) /\ (i + n) - n = i
      BY <1>1
    <3>3. f[i + n] = d[(i + n) - n]
      BY <3>2
    <3> QED BY <3>1, <3>2, <3>3
  <2> QED BY <2>1, <2>2, <2>3
<1>3. \A i \in 1 .. all : f[i] \in 1 .. all
  <2> TAKE i \in 1 .. all
  <2>1. CASE i <= n
    <3>1. f[i] = w[i].id /\ i \in 1 .. Len(w)
      BY <1>1, <2>1
    <3>2. f[i] \in Ids(w)
      BY <3>1 DEF Ids
    <3> QED BY <3>2 DEF Ledger
  <2>2. CASE ~ (i <= n)
    <3>1. f[i] = d[i - n] /\ i - n \in DOMAIN d
      BY <1>1, <2>2
    <3>2. f[i] \in ToSet(d)
      BY <3>1 DEF ToSet
    <3> QED BY <3>2 DEF Ledger
  <2> QED BY <2>1, <2>2
<1>4. f \in Surjection(1 .. all, 1 .. all)
  BY <1>2, <1>3 DEF Surjection
<1>5. f \in Injection(1 .. all, 1 .. all)
  <2>1. IsFiniteSet(1 .. all)
    BY <1>1, FS_Interval
  <2> HIDE DEF f, all
  <2> QED BY <1>4, <2>1, FS_SurjSameCardinalityImpliesInj
<1>6. \A i, j \in 1 .. all : f[i] = f[j] => i = j
  <2> HIDE DEF f, all
  <2> QED BY <1>5 DEF Injection, IsInjective
<1>7. ASSUME NEW j \in 1 .. n, NEW k \in 1 .. n, w[j].id = w[k].id PROVE j = k
  <2>1. /\ j \in 1 .. all /\ k \in 1 .. all
        /\ f[j] = w[j].id /\ f[k] = w[k].id
    BY <1>1
  <2> HIDE DEF f, all
  <2> QED BY <1>6, <1>7, <2>1
<1>8. ASSUME NEW j \in 1 .. n, w[j].id \in ToSet(d) PROVE FALSE
  <2>1. PICK i \in 1 .. Len(d) : d[i] = w[j].id
    BY <1>1, <1>8 DEF ToSet
  <2>2. j \in 1 .. all /\ i + n \in 1 .. all /\ j # i + n
    BY <1>1
  <2>3. j <= n /\ ~ (i + n <= n) /\ (i + n) - n = i
    BY <1>1
  <2>4. f[j] = w[j].id /\ f[i + n] = d[(i + n) - n]
    BY <2>2, <2>3
  <2>5. f[j] = f[i + n]
    BY <2>1, <2>3, <2>4
  <2> HIDE DEF f, all
  <2> QED BY <1>6, <2>2, <2>5
<1> QED BY <1>7, <1>8

(***************************************************************************)
(* Under the same condition no id that enqueueTask gives out is in use     *)
(* twice: no two waiting tasks have the same id, and none has an id that   *)
(* is on the stack concurrency_last_id_death for a new task.               *)
(***************************************************************************)
THEOREM IdsAreUnique ==
  ASSUME DuringCalls \cap Reordering = {}
  PROVE  Spec => []NoIdTwice
<1>1. IInv /\ IdLedger => NoIdTwice
  <2> SUFFICES ASSUME IInv, IdLedger PROVE NoIdTwice
    OBVIOUS
  <2>1. WaitingTasks \in Seq(Tasks) /\ concurrency_last_id_death \in Seq(Int)
    BY WaitingFacts DEF IInv, TypeOK
  <2> QED BY <2>1, LedgerIs, LedgerIsInjective DEF NoIdTwice
<1> QED BY <1>1, IdsAreKept, Invariance, PTL

----------------------------------------------------------------------------
(***************************************************************************)
(* The task a waiting runTask has started.                                 *)
(***************************************************************************)

(***************************************************************************)
(* List r is list q, entries being told apart by id and kind, with some    *)
(* more in front.                                                          *)
(***************************************************************************)
Grown(q, r) ==
  LET more == Len(r) - Len(q)
  IN  /\ more >= 0
      /\ \A k \in 1 .. Len(q) : /\ r[k + more].id = q[k].id
                                /\ r[k + more].kind = q[k].kind

LEMMA GrownSame ==
  ASSUME NEW q \in Seq(Tasks), NEW r \in Seq(Tasks), Len(r) = Len(q),
         \A k \in 1 .. Len(q) : r[k].id = q[k].id /\ r[k].kind = q[k].kind
  PROVE  Grown(q, r)
<1>1. Len(q) \in Nat /\ Len(r) - Len(q) = 0
  BY LenProperties
<1>2. \A k \in 1 .. Len(q) : k + (Len(r) - Len(q)) = k
  BY <1>1
<1> QED BY <1>1, <1>2 DEF Grown

LEMMA GrownCons ==
  ASSUME NEW q \in Seq(Tasks), NEW t \in Tasks
  PROVE  Grown(q, Cons(t, q))
<1>1. /\ Len(Cons(t, q)) = Len(q) + 1 /\ Len(q) \in Nat
      /\ \A k \in 1 .. Len(q) : Cons(t, q)[k + 1] = q[k]
  BY ConsList, LenProperties
<1>2. Len(Cons(t, q)) - Len(q) = 1
  BY <1>1
<1> QED BY <1>1, <1>2 DEF Grown

(***************************************************************************)
(* What stands at the back then still stands there.                        *)
(***************************************************************************)
LEMMA GrownKeepsLast ==
  ASSUME NEW q \in Seq(Tasks), NEW r \in Seq(Tasks), q # <<>>, Grown(q, r)
  PROVE  Last(r).id = Last(q).id
<1>1. Len(q) \in Nat \ {0} /\ Len(r) \in Nat
  BY LenProperties, EmptySeq
<1>2. Len(q) \in 1 .. Len(q) /\ Len(q) + (Len(r) - Len(q)) = Len(r)
  BY <1>1
<1>3. r[Len(q) + (Len(r) - Len(q))].id = q[Len(q)].id
  BY <1>2 DEF Grown
<1> QED BY <1>2, <1>3 DEF Last

(***************************************************************************)
(* What a step means to the callers that wait after it: one that waited    *)
(* before finds the queue grown at its front, and one that starts waiting  *)
(* has started the task at the back.                                       *)
(***************************************************************************)
WaitStep ==
  \A c \in Callers : callers'[c].joining =>
    \/ /\ callers[c].joining
       /\ callers'[c].poped_task = callers[c].poped_task
       /\ Grown(concurrency_task_queue, concurrency_task_queue')
    \/ /\ ~ callers[c].joining
       /\ callers'[c].poped_task = Last(concurrency_task_queue').id

LEMMA WaitSame ==
  ASSUME IInv, UNCHANGED <<callers, concurrency_task_queue>>
  PROVE  WaitStep
<1>1. concurrency_task_queue \in Seq(Tasks)
  BY DEF IInv, TypeOK
<1>2. Grown(concurrency_task_queue, concurrency_task_queue)
  BY <1>1, GrownSame
<1> QED BY <1>2 DEF WaitStep

LEMMA NobodyWaits ==
  ASSUME \A c \in Callers : ~ callers'[c].joining
  PROVE  WaitStep
BY DEF WaitStep

(***************************************************************************)
(* A caller that waits neither before nor after changes its state.         *)
(***************************************************************************)
LEMMA WaitCaller ==
  ASSUME IInv, NEW c \in Callers, NEW s, ~ s.joining,
         callers' = [callers EXCEPT ![c] = s], UNCHANGED concurrency_task_queue
  PROVE  WaitStep
<1>1. Grown(concurrency_task_queue, concurrency_task_queue')
  BY GrownSame DEF IInv, TypeOK
<1>2. callers \in [Callers -> CallerStates]
  BY DEF IInv, TypeOK
<1>3. \A d \in Callers \ {c} : callers'[d] = callers[d]
  BY <1>2
<1>4. ~ callers'[c].joining
  BY <1>2
<1> QED BY <1>1, <1>3, <1>4 DEF WaitStep

LEMMA WaitEnqueue ==
  ASSUME DuringCalls \cap Reordering = {}, IInv,
         NEW kind \in TaskKinds, enqueueTask(kind)
  PROVE  WaitStep
<1> DEFINE task == [id |-> NewId, kind |-> kind, stale |-> FALSE]
<1>1. task \in Tasks /\ concurrency_task_queue \in Seq(Tasks)
  BY NewIdType, ConcurrencyAssumption DEF IInv, TypeOK, Tasks
<1>2. CASE Abort \/ Undefined
  BY <1>2, WaitSame DEF Abort, Undefined, stateVars, taskVars, threadVars
<1>3. CASE ~ (Abort \/ Undefined)
  <2>1. /\ callers' = callers
        /\ concurrency_task_queue' =
             IF kind.permanent THEN Append(concurrency_task_queue, task)
                               ELSE Cons(task, concurrency_task_queue)
    BY <1>3 DEF enqueueTask, Queued, threadVars
  <2>2. CASE kind.permanent
    <3>1. May("enqueuePermanent") /\ "enqueuePermanent" \in Reordering
      BY <2>2 DEF enqueueTask, Reordering
    <3>2. Joining = {}
      BY <3>1, ReorderingWaits
    <3> QED BY <2>1, <3>2, NobodyWaits DEF Joining
  <2>3. CASE ~ kind.permanent
    <3> HIDE DEF task
    <3>1. Grown(concurrency_task_queue, concurrency_task_queue')
      BY <1>1, <2>1, <2>3, GrownCons
    <3> QED BY <2>1, <3>1 DEF WaitStep
  <2> QED BY <2>2, <2>3
<1> QED BY <1>2, <1>3

LEMMA WaitRemove ==
  ASSUME IInv, NEW v \in Lookups, removeCommonVariable(v)
  PROVE  WaitStep
<1>1. CASE ~ Removable(v)
  BY <1>1, WaitSame DEF removeCommonVariable, stateVars, taskVars, threadVars
<1>2. CASE Removable(v)
  <2>0. SUFFICES ASSUME Erase(v) PROVE WaitStep
    BY <1>2, WaitSame DEF removeCommonVariable, Undefined, stateVars, taskVars,
       threadVars, Joining
  <2>1. /\ concurrency_task_queue' =
             [k \in 1 .. Len(concurrency_task_queue) |->
                Stale(concurrency_task_queue[k], v)]
        /\ callers' = callers
    BY <2>0 DEF Erase, threadVars
  <2>2. concurrency_task_queue \in Seq(Tasks)
    BY DEF IInv, TypeOK
  <2>3. /\ concurrency_task_queue' \in Seq(Tasks)
        /\ Len(concurrency_task_queue') = Len(concurrency_task_queue)
        /\ \A k \in 1 .. Len(concurrency_task_queue) :
             /\ concurrency_task_queue'[k].id = concurrency_task_queue[k].id
             /\ concurrency_task_queue'[k].kind = concurrency_task_queue[k].kind
    BY <2>1, <2>2, StaleList
  <2>4. Grown(concurrency_task_queue, concurrency_task_queue')
    BY <2>2, <2>3, GrownSame
  <2> QED BY <2>1, <2>4 DEF WaitStep
<1> QED BY <1>1, <1>2

(***************************************************************************)
(* runTask starts a task only when nobody waits.                           *)
(***************************************************************************)
LEMMA WaitRunTask ==
  ASSUME IInv, NEW c \in Callers, runTask(c)
  PROVE  WaitStep
<1>1. process = "running" /\ ~ callers[c].joining
  BY RunTaskCases
<1>2. callers \in [Callers -> CallerStates] /\ callers[c] \in CallerStates
  BY DEF IInv, TypeOK
<1>3. CASE RunTaskRefused \/ Undefined \/ Abort
  BY <1>3, WaitSame DEF RunTaskRefused, Undefined, Abort, stateVars, taskVars, threadVars
<1>4. CASE RunTaskJoins(c)
  <2> DEFINE id == Last(concurrency_task_queue).id
             one == [callers[c] EXCEPT !.joining = TRUE]
             new == [one EXCEPT !.poped_task = id]
  <2>1. Joining = {}
    BY <1>1, <1>4, StartableFacts DEF RunTaskJoins
  <2>2. /\ callers' = [callers EXCEPT ![c].joining = TRUE, ![c].poped_task = id]
        /\ concurrency_task_queue' = concurrency_task_queue
    BY <1>4 DEF RunTaskJoins
  <2> HIDE DEF id
  <2>3. callers' = [callers EXCEPT ![c] = new]
    BY <1>2, <2>2
  <2>4. one \in CallerStates
    BY <1>2 DEF CallerStates
  <2> HIDE DEF one
  <2>5. new.poped_task = id
    BY <2>4 DEF CallerStates
  <2> HIDE DEF new
  <2>6. callers'[c].poped_task = id
    BY <1>2, <2>3, <2>5
  <2>7. \A d \in Callers \ {c} : ~ callers'[d].joining
    BY <1>2, <2>1, <2>3 DEF Joining
  <2> QED BY <1>1, <2>2, <2>6, <2>7 DEF WaitStep, id
<1>5. CASE RunTaskDetaches(c)
  <2>1. Joining = {}
    BY <1>1, <1>5, StartableFacts DEF RunTaskDetaches
  <2>2. callers' = [callers EXCEPT ![c] = [callers[c] EXCEPT !.left = callers[c].left - 1]]
    BY <1>2, <1>5 DEF RunTaskDetaches
  <2>3. ~ [callers[c] EXCEPT !.left = callers[c].left - 1].joining
    BY <1>1, <1>2 DEF CallerStates
  <2>4. \A d \in Callers : ~ callers'[d].joining
    BY <1>2, <2>1, <2>2, <2>3 DEF Joining
  <2> QED BY <2>4, NobodyWaits
<1> QED BY <1>3, <1>4, <1>5, RunTaskCases

(***************************************************************************)
(* When a join returns nobody waits any more.                              *)
(***************************************************************************)
LEMMA WaitJoinReturns ==
  ASSUME IInv, NEW c \in Callers, joinReturns(c)
  PROVE  WaitStep
<1>1. CASE Undefined \/ Abort
  BY <1>1, WaitSame DEF Undefined, Abort, stateVars, taskVars, threadVars
<1>2. CASE JoinEnds(c)
  <2>1. Joining = {c}
    BY JoinCases, JoinFacts
  <2>2. callers \in [Callers -> CallerStates] /\ callers[c] \in CallerStates
    BY DEF IInv, TypeOK
  <2>3. \A d \in Callers \ {c} : ~ callers'[d].joining
    BY <1>2, <2>1, <2>2 DEF JoinEnds, Joining
  <2>4. callers'[c] = [callers[c] EXCEPT !.left = callers[c].left - 1,
                                         !.joining = FALSE, !.poped_task = 0]
    BY <1>2, <2>2 DEF JoinEnds
  <2>5. callers[c].left - 1 \in Nat
    BY <2>2, JoinCases DEF IInv, OneJoin, CallerStates
  <2>6. ~ callers'[c].joining
    BY <2>2, <2>4, <2>5, JoinedState
  <2> QED BY <2>3, <2>6, NobodyWaits
<1> QED BY <1>1, <1>2, JoinCases

(***************************************************************************)
(* The operations that sort the queue find nobody waiting.                 *)
(***************************************************************************)
LEMMA WaitForward ==
  ASSUME DuringCalls \cap Reordering = {}, IInv,
         \/ \E ids \in SUBSET TaskIds : forwardTasks(ids)
         \/ \E c \in Callers, ids \in SUBSET TaskIds : forceTasksCall(c, ids)
  PROVE  WaitStep
<1>1. CASE Abort
  BY <1>1, WaitSame DEF Abort, stateVars, taskVars, threadVars
<1>2. \A c \in Callers : ~ callers[c].joining
  <2>1. May("forwardTasks") /\ "forwardTasks" \in Reordering
    BY DEF forwardTasks, forceTasksCall, Reordering
  <2> QED BY <2>1, ReorderingWaits DEF Joining
<1>3. callers \in [Callers -> CallerStates]
  BY DEF IInv, TypeOK
<1>4. ASSUME NEW ids \in SUBSET TaskIds, forwardTasks(ids), ~ Abort PROVE WaitStep
  BY <1>2, <1>4, NobodyWaits DEF forwardTasks, threadVars
<1>5. ASSUME NEW c \in Callers, NEW ids \in SUBSET TaskIds, forceTasksCall(c, ids), ~ Abort
      PROVE  WaitStep
  <2> DEFINE s == Calling("forceTasks", Cardinality(ids), TRUE)
  <2>1. callers' = [callers EXCEPT ![c] = s]
    BY <1>5 DEF forceTasksCall
  <2>2. ~ s.joining
    BY DEF Calling, Idle
  <2> HIDE DEF s
  <2>3. \A d \in Callers : ~ callers'[d].joining
    BY <1>2, <1>3, <2>1, <2>2
  <2> QED BY <2>3, NobodyWaits
<1> QED BY <1>1, <1>4, <1>5

LEMMA WaitNext ==
  ASSUME DuringCalls \cap Reordering = {}, IInv, [Next]_vars
  PROVE  WaitStep
<1> USE DEF stateVars, taskVars, threadVars
<1>1. CASE UNCHANGED <<callers, concurrency_task_queue>>
  BY <1>1, WaitSame
<1>2. ASSUME NEW v \in Lookups, NEW get_lock \in BOOLEAN,
             \/ enlistCommonVariable(v, get_lock) \/ getCommonVariableLock(v)
             \/ lockCommonVariable(v) \/ releaseCommonVariable(v)
      PROVE  WaitStep
  BY <1>1, <1>2 DEF enlistCommonVariable, getCommonVariableLock,
     lockCommonVariable, releaseCommonVariable, Undefined
<1>3. ASSUME setTasks \/ endTasks \/ endAllTasks \/ threadEnds \/ UNCHANGED vars
      PROVE  WaitStep
  BY <1>1, <1>3 DEF setTasks, endTasks, endAllTasks, Abort, threadEnds, vars
<1>4. \A op, left, ignore : ~ Calling(op, left, ignore).joining
  BY DEF Calling, Idle
<1>5. ASSUME NEW c \in Callers, NEW ignore \in BOOLEAN, runTaskCall(c, ignore)
      PROVE  WaitStep
  BY <1>4, <1>5, WaitCaller DEF runTaskCall
<1>6. ASSUME NEW c \in Callers, setAllTasksCall(c) PROVE WaitStep
  BY <1>4, <1>6, WaitCaller DEF setAllTasksCall
<1>7. ASSUME NEW c \in Callers, callReturns(c) PROVE WaitStep
  BY <1>7, IdleType, WaitCaller DEF callReturns
<1> QED BY <1>2, <1>3, <1>5, <1>6, <1>7, WaitEnqueue, WaitRemove, WaitForward,
        WaitRunTask, WaitJoinReturns DEF Next

(***************************************************************************)
(* As long as nobody reorders the back of the queue during calls, a        *)
(* runTask that waits in join() sees tasks come in at the front and none   *)
(* leave or change places, however many are queued meanwhile.              *)
(***************************************************************************)
THEOREM JoinsSeeTheQueueGrow ==
  ASSUME DuringCalls \cap Reordering = {}
  PROVE  Spec => QueueGrowsAtTheFront
<1> DEFINE P == \A c \in Callers : callers[c].joining /\ callers'[c].joining =>
                  Grown(concurrency_task_queue, concurrency_task_queue')
<1>1. IInv /\ [Next]_vars => P
  BY WaitNext DEF WaitStep
<1> QED BY <1>1, Invariance, PTL DEF Spec, QueueGrowsAtTheFront, Grown

(***************************************************************************)
(* Inductive: the task at the back is the one a waiting caller started.    *)
(***************************************************************************)
StartedTaskIsLast ==
  \A c \in Callers :
    callers[c].joining => Last(concurrency_task_queue).id = callers[c].poped_task

(***************************************************************************)
(* Under the same condition the pop_back of runTask takes off the task     *)
(* whose thread it has joined.                                             *)
(***************************************************************************)
THEOREM JoinTakesOffItsTask ==
  ASSUME DuringCalls \cap Reordering = {}
  PROVE  Spec => StartedTaskLeavesQueue
<1>1. Init => StartedTaskIsLast
  BY IdleType DEF Init, StartedTaskIsLast
<1>2. IInv /\ IInv' /\ StartedTaskIsLast /\ [Next]_vars => StartedTaskIsLast'
  <2> SUFFICES ASSUME IInv, IInv', StartedTaskIsLast, [Next]_vars,
                      NEW c \in Callers, callers'[c].joining
               PROVE  Last(concurrency_task_queue').id = callers'[c].poped_task
    BY DEF StartedTaskIsLast
  <2>1. CASE callers[c].joining
    <3>1. concurrency_task_queue \in Seq(Tasks) /\ concurrency_task_queue # <<>>
      BY <2>1, JoinFacts
    <3>2. concurrency_task_queue' \in Seq(Tasks)
      BY DEF IInv, TypeOK
    <3>3. /\ Grown(concurrency_task_queue, concurrency_task_queue')
          /\ callers'[c].poped_task = callers[c].poped_task
      BY <2>1, WaitNext DEF WaitStep
    <3>4. Last(concurrency_task_queue').id = Last(concurrency_task_queue).id
      BY <3>1, <3>2, <3>3, GrownKeepsLast
    <3> QED BY <2>1, <3>3, <3>4 DEF StartedTaskIsLast
  <2>2. CASE ~ callers[c].joining
    BY <2>2, WaitNext DEF WaitStep
  <2> QED BY <2>1, <2>2
<1> DEFINE P == \A c \in Callers : joinReturns(c) =>
                  Last(concurrency_task_queue).id = callers[c].poped_task
<1>3. StartedTaskIsLast => P
  BY DEF StartedTaskIsLast, joinReturns
<1> QED BY <1>1, <1>2, <1>3, Invariance, PTL DEF Spec, StartedTaskLeavesQueue
============================================================================
