------------------------- MODULE RunsliceScheduler -------------------------
(***************************************************************************)
(* scheduler_runslice (defs_scheduler.h): handlers are registered under an *)
(* identifier, in a priority or a normal queue; each call of run() calls   *)
(* one of them.                                                            *)
(*                                                                         *)
(* The class is meant for one thread, but a handler is called in the       *)
(* middle of run() and may use the scheduler: run() is two steps, run and  *)
(* callbackReturns, with any operation, run() too, in between.             *)
(***************************************************************************)
EXTENDS DebugStatus, HandlerCallback, SequencesExt

CONSTANTS
  Identifiers, \* identifiers the program uses
  MaxEntries,  \* bound on the entries of the two queues together
  MaxDepth     \* bound on calls of run() nested in handlers

ASSUME BoundsAssumption == MaxEntries \in Nat /\ MaxDepth \in Nat

VARIABLES
  scheduler_priority_runs_last,
  scheduler_priority_queue,     \* front of the list first
  scheduler_normal_queue,
  scheduler_is_priority_lookup, \* identifier -> the queue it is said to be in
  scheduler_mode,
  frames                        \* calls of run() whose handler has not returned

queueVars == <<scheduler_priority_queue, scheduler_normal_queue>>
stateVars == <<queueVars, scheduler_is_priority_lookup, scheduler_mode,
               scheduler_priority_runs_last, frames>>
vars == <<stateVars, debugVars>>

Modes == {"round_robin", "priority_round_robin", "priority_only_round_robin"}

scheduler_runslice_local_errors ==
  <<"Identifier not available", "Identifier is occupied",
    "No tasks available", "No priority tasks available">>

identifier_not_available == 0
identifier_is_occupied == 1
no_tasks_available == 2
no_priority_tasks_available == 3

fail(code) == setReturnCode(scheduler_runslice_local_errors, code)

Entries == [id : Identifiers, persist : BOOLEAN, handler : Handlers]

Frames == [id : Identifiers, persist : BOOLEAN, only : BOOLEAN]

(***************************************************************************)
(* The lookup maps an identifier to its is_priority flag, written here as  *)
(* the queue the flag names; "none": the map has no such key.              *)
(***************************************************************************)
QueueOf(is_priority) == IF is_priority THEN "priority" ELSE "normal"

Queue(name) ==
  IF name = "priority" THEN scheduler_priority_queue
                       ELSE scheduler_normal_queue

Registered == {i \in Identifiers : scheduler_is_priority_lookup[i] # "none"}

(***************************************************************************)
(* Mutant of find_if: the search starts at the other end.                  *)
(***************************************************************************)

find_if_from_back(queue, identifier) ==
  SelectLastInSeq(queue, LAMBDA e : e.id = identifier)

(***************************************************************************)
(* find_if over a queue: the place of its first entry of an identifier, 0  *)
(* for end().  No caller in the class compares the result with end().      *)
(***************************************************************************)
find_if(queue, identifier) ==
  SelectInSeq(queue, LAMBDA e : e.id = identifier)

InQueue(queue, identifier) == \E k \in 1 .. Len(queue) : queue[k].id = identifier

Found(identifier) ==
  InQueue(Queue(scheduler_is_priority_lookup[identifier]), identifier)

RegisteredEntry(identifier) ==
  LET queue == Queue(scheduler_is_priority_lookup[identifier])
  IN  queue[find_if(queue, identifier)]

SetQueue(name, queue) ==
  /\ scheduler_priority_queue' =
       IF name = "priority" THEN queue ELSE scheduler_priority_queue
  /\ scheduler_normal_queue' =
       IF name = "priority" THEN scheduler_normal_queue ELSE queue

Abort ==
  /\ process' = "aborted"
  /\ UNCHANGED <<stateVars, debug_class_return_code>>

Undefined ==
  /\ process' = "undefined"
  /\ UNCHANGED <<stateVars, debug_class_return_code>>

Init ==
  /\ InitDebug
  /\ scheduler_priority_runs_last = 0
  /\ scheduler_priority_queue = <<>>
  /\ scheduler_normal_queue = <<>>
  /\ scheduler_is_priority_lookup = [i \in Identifiers |-> "none"]
  /\ scheduler_mode = "round_robin"
  /\ frames = <<>>

----------------------------------------------------------------------------
(***************************************************************************)
(* Registration.                                                           *)
(***************************************************************************)
enqueueShared(identifier, callback_payload, is_priority, persist) ==
  LET name  == QueueOf(is_priority)
      entry == [id |-> identifier, persist |-> persist,
                handler |-> callback_payload]
  IN  IF identifier \in Registered
        THEN /\ fail(identifier_is_occupied)
             /\ UNCHANGED stateVars
        ELSE /\ SetQueue(name, Cons(entry, Queue(name)))
             /\ scheduler_is_priority_lookup' =
                  [scheduler_is_priority_lookup EXCEPT ![identifier] = name]
             /\ UNCHANGED <<scheduler_mode, scheduler_priority_runs_last,
                            frames, debugVars>>

RoomForEntry ==
  Len(scheduler_priority_queue) + Len(scheduler_normal_queue) < MaxEntries

enqueueRegistration(identifier, function_pointer, is_priority, persist) ==
  /\ process = "running"
  /\ RoomForEntry
  /\ enqueueShared(identifier,
                   setBoundOrFreeFunction(handler_callback, function_pointer),
                   is_priority, persist)

enqueueRegistrationParameters(id, function_pointer, args, is_priority, persist) ==
  /\ process = "running"
  /\ RoomForEntry
  /\ enqueueShared(id, setFunction(function_pointer, args),
                   is_priority, persist)

(***************************************************************************)
(* Updates.  updateSharedHelper finds the entry the lookup names; the      *)
(* handler of that entry is replaced by h, unless legal is FALSE: the      *)
(* assert of the handler then fails.                                       *)
(***************************************************************************)
updateShared(identifier, h, legal) ==
  LET name  == scheduler_is_priority_lookup[identifier]
      place == find_if(Queue(name), identifier)
  IN  IF identifier \notin Registered
        THEN /\ fail(identifier_not_available)
             /\ UNCHANGED stateVars
        ELSE IF ~ Found(identifier)
          THEN Undefined
          ELSE IF ~ legal
            THEN Abort
            ELSE /\ SetQueue(name, [Queue(name) EXCEPT ![place].handler = h])
                 /\ UNCHANGED <<scheduler_is_priority_lookup, scheduler_mode,
                                scheduler_priority_runs_last, frames, debugVars>>

updateRegistration(identifier, function_pointer) ==
  /\ process = "running"
  /\ updateShared(identifier,
       setBoundOrFreeFunction(RegisteredEntry(identifier).handler,
                              function_pointer),
       TRUE)

(***************************************************************************)
(* A null function keeps the function and replaces its arguments; it is    *)
(* also all that updateRegistrationParametersOnly does.                    *)
(***************************************************************************)
updateRegistrationParameters(identifier, function_pointer, args) ==
  LET h == RegisteredEntry(identifier).handler
  IN  /\ process = "running"
      /\ IF function_pointer = NullPtr
           THEN updateShared(identifier, setParameters(h, args),
                             setParametersAsserts(h))
           ELSE updateShared(identifier, setFunction(function_pointer, args),
                             TRUE)

(***************************************************************************)
(* updateRegistrationPriority moves the entry to the FRONT of the other    *)
(* queue.                                                                  *)
(***************************************************************************)
updateRegistrationPriority(identifier, is_priority) ==
  LET from  == scheduler_is_priority_lookup[identifier]
      to    == QueueOf(is_priority)
      place == find_if(Queue(from), identifier)
      moved == Cons(Queue(from)[place], Queue(to))
      left  == RemoveAt(Queue(from), place)
  IN  /\ process = "running"
      /\ IF identifier \notin Registered
           THEN /\ fail(identifier_not_available)
                /\ UNCHANGED stateVars
           ELSE IF from = to
             THEN UNCHANGED vars
             ELSE IF ~ Found(identifier)
               THEN Undefined
               ELSE /\ scheduler_priority_queue' = (IF is_priority THEN moved ELSE left)
                    /\ scheduler_normal_queue' = (IF is_priority THEN left ELSE moved)
                    /\ scheduler_is_priority_lookup' =
                         [scheduler_is_priority_lookup EXCEPT ![identifier] = to]
                    /\ UNCHANGED <<scheduler_mode, frames, debugVars,
                                   scheduler_priority_runs_last>>

(***************************************************************************)
(* Mutant of removeRegistration: the entry leaves the queue, the lookup    *)
(* keeps the identifier.                                                   *)
(***************************************************************************)

removeRegistrationKeepsLookup(identifier) ==
  LET name  == scheduler_is_priority_lookup[identifier]
      place == find_if(Queue(name), identifier)
  IN  /\ process = "running"
      /\ Found(identifier)
      /\ SetQueue(name, RemoveAt(Queue(name), place))
      /\ UNCHANGED <<scheduler_is_priority_lookup, scheduler_mode, frames,
                     scheduler_priority_runs_last, debugVars>>

removeRegistration(identifier) ==
  LET name  == scheduler_is_priority_lookup[identifier]
      place == find_if(Queue(name), identifier)
  IN  /\ process = "running"
      /\ IF identifier \notin Registered
           THEN /\ fail(identifier_not_available)
                /\ UNCHANGED stateVars
           ELSE IF ~ Found(identifier)
             THEN Undefined
             ELSE /\ SetQueue(name, RemoveAt(Queue(name), place))
                  /\ scheduler_is_priority_lookup' =
                       [scheduler_is_priority_lookup EXCEPT ![identifier] = "none"]
                  /\ UNCHANGED <<scheduler_mode, scheduler_priority_runs_last,
                                 frames, debugVars>>

setAlgorithmMode(designated_allocator) ==
  /\ process = "running"
  /\ scheduler_mode' = designated_allocator
  /\ UNCHANGED <<queueVars, scheduler_is_priority_lookup, frames, debugVars,
                 scheduler_priority_runs_last>>

(***************************************************************************)
(* Mutant of clean: the lookup is forgotten.                               *)
(***************************************************************************)

cleanKeepsLookup ==
  /\ process = "running"
  /\ scheduler_priority_runs_last' = 0
  /\ scheduler_mode' = "round_robin"
  /\ scheduler_priority_queue' = <<>>
  /\ scheduler_normal_queue' = <<>>
  /\ UNCHANGED <<scheduler_is_priority_lookup, frames, debugVars>>

clean ==
  /\ process = "running"
  /\ scheduler_priority_runs_last' = 0
  /\ scheduler_mode' = "round_robin"
  /\ scheduler_priority_queue' = <<>>
  /\ scheduler_normal_queue' = <<>>
  /\ scheduler_is_priority_lookup' = [i \in Identifiers |-> "none"]
  /\ UNCHANGED <<frames, debugVars>>

----------------------------------------------------------------------------
(***************************************************************************)
(* run().  Which queue is run, and the credit kept for the priority queue. *)
(***************************************************************************)
PriorityTurn ==
  \/ scheduler_mode = "priority_only_round_robin"
  \/ scheduler_priority_runs_last # 0 /\ scheduler_priority_queue # <<>>
  \/ scheduler_normal_queue = <<>>

Flag(b) == IF b THEN 1 ELSE 0

ROUND_ROBIN_PRIORITY_CYCLES == 1
(***************************************************************************)
(* Mutant of PRIORITY_ROUND_ROBIN_PRIORITY_CYCLES: no cycle.               *)
(***************************************************************************)

NoCycles == 0

PRIORITY_ROUND_ROBIN_PRIORITY_CYCLES == 1

NextRunsLast(runs_last, mode) ==
  LET a == runs_last + Flag(mode = "round_robin")
      b == a * Flag(a > ROUND_ROBIN_PRIORITY_CYCLES)
      c == b + Flag(mode = "priority_round_robin")
  IN  c * Flag(c > PRIORITY_ROUND_ROBIN_PRIORITY_CYCLES)

(***************************************************************************)
(* runOperationInline gets a COPY of the queue and calls the handler at    *)
(* its back; back() of an empty list is undefined.  What it still needs    *)
(* after the call is in the copy, hence in the frame.                      *)
(***************************************************************************)
runOperationInline(run_queue) ==
  LET back == Last(run_queue)
  IN  IF run_queue = <<>>
        THEN Undefined
        ELSE IF ~ runAsserts(back.handler)
          THEN Abort
          ELSE /\ frames' = Cons([id |-> back.id, persist |-> back.persist,
                                  only |-> scheduler_mode =
                                             "priority_only_round_robin"],
                                 frames)
               /\ UNCHANGED <<queueVars, scheduler_is_priority_lookup, debugVars,
                              scheduler_mode, scheduler_priority_runs_last>>

run ==
  /\ process = "running"
  /\ Len(frames) < MaxDepth
  /\ IF Registered = {}
       THEN /\ fail(no_tasks_available)
            /\ UNCHANGED stateVars
       ELSE IF /\ scheduler_mode = "priority_only_round_robin"
               /\ scheduler_priority_queue = <<>>
         THEN /\ fail(no_priority_tasks_available)
              /\ scheduler_priority_runs_last' = 0
              /\ UNCHANGED <<queueVars, scheduler_is_priority_lookup,
                             scheduler_mode, frames>>
         ELSE runOperationInline(IF PriorityTurn THEN scheduler_priority_queue
                                                 ELSE scheduler_normal_queue)

(***************************************************************************)
(* The handler returns: the rest of runOperationInline, which changes the  *)
(* copy of the queue only, and of run(), which reads the mode anew.        *)
(***************************************************************************)
callbackReturns ==
  /\ process = "running"
  /\ frames # <<>>
  /\ scheduler_is_priority_lookup' =
       IF frames[1].persist
         THEN scheduler_is_priority_lookup
         ELSE [scheduler_is_priority_lookup EXCEPT ![frames[1].id] = "none"]
  /\ scheduler_priority_runs_last' =
       IF frames[1].only THEN 0
         ELSE NextRunsLast(scheduler_priority_runs_last, scheduler_mode)
  /\ frames' = Tail(frames)
  /\ UNCHANGED <<queueVars, scheduler_mode, debugVars>>

----------------------------------------------------------------------------
Next ==
  \/ \E i \in Identifiers, f \in Callables \cup {NullPtr}, p, s \in BOOLEAN :
       enqueueRegistration(i, f, p, s)
  \/ \E i \in Identifiers, f \in Callables, a \in Arguments, p, s \in BOOLEAN :
       enqueueRegistrationParameters(i, f, a, p, s)
  \/ \E i \in Identifiers, f \in Callables \cup {NullPtr} :
       updateRegistration(i, f)
  \/ \E i \in Identifiers, f \in Callables \cup {NullPtr}, a \in Arguments :
       updateRegistrationParameters(i, f, a)
  \/ \E i \in Identifiers, p \in BOOLEAN : updateRegistrationPriority(i, p)
  \/ \E i \in Identifiers : removeRegistration(i)
  \/ \E m \in Modes : setAlgorithmMode(m)
  \/ clean
  \/ run
  \/ callbackReturns

Spec == Init /\ [][Next]_vars

(***************************************************************************)
(* A program that keeps calling run(), with handlers that return.          *)
(***************************************************************************)
FairSpec == Spec /\ WF_vars(run) /\ WF_vars(callbackReturns)

----------------------------------------------------------------------------
(***************************************************************************)
(* Type invariant.                                                         *)
(***************************************************************************)
TypeOK ==
  /\ scheduler_priority_runs_last \in Nat
  /\ scheduler_priority_queue \in Seq(Entries)
  /\ scheduler_normal_queue \in Seq(Entries)
  /\ scheduler_is_priority_lookup \in [Identifiers -> {"none", "priority", "normal"}]
  /\ scheduler_mode \in Modes
  /\ frames \in Seq(Frames)
  /\ debug_class_return_code \in {NotSet} \cup LegalCodes(4)
  /\ process \in ProcessStates

(***************************************************************************)
(* Every identifier of the lookup has an entry in the queue the lookup     *)
(* names.  The code never tests the result of find_if ("this should be     *)
(* handled internally"), so all its updates and removals rest on this,     *)
(* through re-entrant runs and the entries that outlive their lookup.      *)
(***************************************************************************)
LookupBacked == \A i \in Registered : Found(i)

(***************************************************************************)
(* No sequence of calls dereferences end(), reads back() of an empty list  *)
(* or otherwise leaves the defined behaviour.                              *)
(***************************************************************************)
NeverUndefined == process # "undefined"

(***************************************************************************)
(* run() never gives the priority queue a turn of its own: the counter     *)
(* that would grant it is multiplied back to 0 after every run, in every   *)
(* mode, also when the mode changes while a handler runs.  The priority    *)
(* queue is served only while the normal queue is empty or in the          *)
(* priority-only mode.                                                     *)
(***************************************************************************)
PriorityCreditNeverAccrues == scheduler_priority_runs_last = 0

(***************************************************************************)
(* A handler whose arguments may be replaced holds the function it was     *)
(* registered with, never the uninitialised pointer of the constructor,    *)
(* whatever order registrations, function updates and argument updates     *)
(* come in.                                                                *)
(***************************************************************************)
SoundHandler(h) ==
  /\ h.formatted.fn # Indeterminate
  /\ ~ h.free => h.formatted.fn = h.unbound

SoundQueue(queue) == \A k \in 1 .. Len(queue) : SoundHandler(queue[k].handler)

ArgumentsBindKnownFunction ==
  SoundQueue(scheduler_priority_queue) /\ SoundQueue(scheduler_normal_queue)

(***************************************************************************)
(* What the lookup and the queues together mean: the registration of an    *)
(* identifier is the FIRST entry of it in the queue the lookup names,      *)
(* whatever stale entries of the same identifier the queues still hold.    *)
(* Seen that way the scheduler implements a plain map of registrations.    *)
(***************************************************************************)
Registration(i) ==
  [priority |-> scheduler_is_priority_lookup[i],
   persist  |-> RegisteredEntry(i).persist,
   handler  |-> RegisteredEntry(i).handler]

registrations == [i \in Registered |-> Registration(i)]

R == INSTANCE Registry

ImplementsRegistry == R!Spec

----------------------------------------------------------------------------
(***************************************************************************)
(* What the comments say, and the code does not do.                        *)
(***************************************************************************)

(***************************************************************************)
(* Round robin: a handler that stays registered is called again and again  *)
(* while run() is.                                                         *)
(***************************************************************************)
Waiting(i) ==
  i \in Registered /\ scheduler_mode = "round_robin" /\ process = "running"

EveryHandlerGetsItsTurn ==
  \A i \in Identifiers :
    <>[]Waiting(i) => []<>(frames # <<>> /\ frames[1].id = i)
============================================================================
