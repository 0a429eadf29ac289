---------------------- MODULE RunsliceSchedulerProofs ----------------------
(***************************************************************************)
(* Proofs about scheduler_runslice, for every set of identifiers,          *)
(* functions and argument lists and for every bound.                       *)
(***************************************************************************)
EXTENDS RunsliceScheduler, ListLemmas

----------------------------------------------------------------------------
(***************************************************************************)
(* The queues.                                                             *)
(***************************************************************************)

(***************************************************************************)
(* find_if returns the first entry of an identifier that has one.          *)
(***************************************************************************)
LEMMA FindIf ==
  ASSUME NEW S, NEW q \in Seq(S), NEW i, InQueue(q, i)
  PROVE  /\ find_if(q, i) \in 1 .. Len(q)
         /\ q[find_if(q, i)].id = i
         /\ \A k \in 1 .. Len(q) : q[k].id = i => find_if(q, i) <= k
<1> DEFINE places == {k \in 1 .. Len(q) : q[k].id = i}
<1>1. places \in SUBSET Nat /\ places # {}
  BY DEF InQueue
<1>2. find_if(q, i) = Min(places)
  BY <1>1 DEF find_if, SelectInSeq
<1>3. Min(places) \in places /\ \A k \in places : Min(places) <= k
  <2> HIDE DEF places
  <2> QED BY <1>1, MinExists
<1> QED BY <1>2, <1>3

(***************************************************************************)
(* An entry put at the front, an entry of another identifier erased and a  *)
(* changed handler keep every identifier in its queue.                     *)
(***************************************************************************)
LEMMA InQueueCons ==
  ASSUME NEW q \in Seq(Entries), NEW e \in Entries
  PROVE  /\ InQueue(Cons(e, q), e.id)
         /\ \A i : InQueue(q, i) => InQueue(Cons(e, q), i)
<1>1. Len(q) \in Nat
  BY LenProperties
<1>2. /\ Len(Cons(e, q)) = Len(q) + 1
      /\ Cons(e, q)[1] = e
      /\ \A k \in 1 .. Len(q) : Cons(e, q)[k + 1] = q[k]
  BY ConsList
<1> QED BY <1>1, <1>2 DEF InQueue

LEMMA InQueueRemoveAt ==
  ASSUME NEW q \in Seq(Entries), NEW k \in 1 .. Len(q), NEW i,
         i # q[k].id, InQueue(q, i)
  PROVE  InQueue(RemoveAt(q, k), i)
<1>1. Len(q) \in Nat /\ k \in Nat
  BY LenProperties
<1>2. PICK j \in 1 .. Len(q) : q[j].id = i
  BY DEF InQueue
<1>3. /\ Len(RemoveAt(q, k)) = Len(q) - 1
      /\ \A l \in 1 .. k - 1 : RemoveAt(q, k)[l] = q[l]
      /\ \A l \in k .. Len(q) - 1 : RemoveAt(q, k)[l] = q[l + 1]
  BY RemoveAtList
<1>4. CASE j < k
  BY <1>1, <1>2, <1>3, <1>4 DEF InQueue
<1>5. CASE j > k
  <2>1. j - 1 \in k .. Len(q) - 1 /\ j - 1 \in 1 .. Len(q) - 1 /\ (j - 1) + 1 = j
    BY <1>1, <1>5
  <2> QED BY <1>2, <1>3, <2>1 DEF InQueue
<1> QED BY <1>1, <1>2, <1>4, <1>5

LEMMA HandlerUpdate ==
  ASSUME NEW q \in Seq(Entries), NEW k \in 1 .. Len(q), NEW h \in Handlers
  PROVE  /\ [q EXCEPT ![k].handler = h] \in Seq(Entries)
         /\ Len([q EXCEPT ![k].handler = h]) = Len(q)
         /\ \A j \in 1 .. Len(q) :
              [q EXCEPT ![k].handler = h][j] =
                IF j = k THEN [q[k] EXCEPT !.handler = h] ELSE q[j]
<1>1. q[k] \in Entries
  BY ElementOfSeq
<1>2. [q[k] EXCEPT !.handler = h] \in Entries
  BY <1>1 DEF Entries
<1>3. [q EXCEPT ![k].handler = h] = [q EXCEPT ![k] = [q[k] EXCEPT !.handler = h]]
  OBVIOUS
<1> QED BY <1>2, <1>3, ExceptSeq

LEMMA InQueueUpdate ==
  ASSUME NEW q \in Seq(Entries), NEW k \in 1 .. Len(q), NEW h \in Handlers,
         NEW i, InQueue(q, i)
  PROVE  InQueue([q EXCEPT ![k].handler = h], i)
<1>1. q[k] \in Entries
  BY ElementOfSeq
<1>2. [q[k] EXCEPT !.handler = h].id = q[k].id
  BY <1>1 DEF Entries
<1> QED BY <1>2, HandlerUpdate DEF InQueue

----------------------------------------------------------------------------
(***************************************************************************)
(* Types.                                                                  *)
(***************************************************************************)

(***************************************************************************)
(* The handler operations stay within handlers.                            *)
(***************************************************************************)
LEMMA HandlerTypes ==
  /\ handler_callback \in Handlers
  /\ \A f \in Callables, a \in Arguments : setFunction(f, a) \in Handlers
  /\ \A h \in Handlers, f \in Callables \cup {NullPtr} :
       setBoundOrFreeFunction(h, f) \in Handlers
  /\ \A h \in Handlers, a \in Arguments : setParameters(h, a) \in Handlers
BY DEF Handlers, Formatted, handler_callback, setFunction,
       setBoundOrFreeFunction, setParameters

(***************************************************************************)
(* setReturnCode keeps the code and the process within their types.        *)
(***************************************************************************)
LEMMA FailTypes ==
  ASSUME TypeOK, NEW code, fail(code)
  PROVE  /\ debug_class_return_code' \in {NotSet} \cup LegalCodes(4)
         /\ process' \in ProcessStates
         /\ process' # "undefined" \/ process' = process
BY DEF TypeOK, fail, setReturnCode, scheduler_runslice_local_errors, ProcessStates

(***************************************************************************)
(* The entry the lookup names is an entry, when find_if finds one.         *)
(***************************************************************************)
LEMMA EntryFound ==
  ASSUME TypeOK, NEW i \in Identifiers, Found(i)
  PROVE  LET name  == scheduler_is_priority_lookup[i]
             place == find_if(Queue(name), i)
         IN  /\ Queue(name) \in Seq(Entries)
             /\ place \in 1 .. Len(Queue(name))
             /\ Queue(name)[place].id = i
             /\ Queue(name)[place] \in Entries
             /\ RegisteredEntry(i) = Queue(name)[place]
<1> DEFINE name == scheduler_is_priority_lookup[i]
<1>1. Queue(name) \in Seq(Entries)
  BY DEF TypeOK, Queue
<1>2. InQueue(Queue(name), i)
  BY DEF Found
<1> HIDE DEF name
<1>3. /\ find_if(Queue(name), i) \in 1 .. Len(Queue(name))
      /\ Queue(name)[find_if(Queue(name), i)].id = i
  BY <1>1, <1>2, FindIf
<1>4. Queue(name)[find_if(Queue(name), i)] \in Entries
  BY <1>1, <1>3, ElementOfSeq
<1> QED BY <1>1, <1>3, <1>4 DEF RegisteredEntry, name

----------------------------------------------------------------------------
(***************************************************************************)
(* The inductive invariant: the checked invariants together.  None of them *)
(* needs an auxiliary variable; LookupBacked and the types of the queues   *)
(* are what the branches that would be undefined behaviour rest on.        *)
(***************************************************************************)
IInv ==
  /\ TypeOK
  /\ LookupBacked
  /\ NeverUndefined
  /\ PriorityCreditNeverAccrues
  /\ ArgumentsBindKnownFunction

LEMMA InitIInv == Init => IInv
<1> SUFFICES ASSUME Init PROVE IInv
  OBVIOUS
<1>1. TypeOK
  BY DEF Init, InitDebug, TypeOK, Modes, ProcessStates
<1>2. LookupBacked /\ NeverUndefined /\ PriorityCreditNeverAccrues
  BY DEF Init, InitDebug, LookupBacked, Registered, NeverUndefined,
         PriorityCreditNeverAccrues
<1>3. ArgumentsBindKnownFunction
  BY DEF Init, ArgumentsBindKnownFunction, SoundQueue
<1> QED BY <1>1, <1>2, <1>3 DEF IInv

(***************************************************************************)
(* A step that only reports, or that ends the process by an assert, keeps  *)
(* the invariant.                                                          *)
(***************************************************************************)
LEMMA FailIInv ==
  ASSUME IInv, NEW code, fail(code), UNCHANGED stateVars
  PROVE  IInv'
<1> USE DEF IInv
<1>1. TypeOK'
  BY FailTypes DEF TypeOK, stateVars, queueVars
<1>2. NeverUndefined'
  BY FailTypes DEF NeverUndefined
<1>3. LookupBacked' /\ PriorityCreditNeverAccrues' /\ ArgumentsBindKnownFunction'
  BY DEF LookupBacked, Registered, Found, Queue, PriorityCreditNeverAccrues,
         ArgumentsBindKnownFunction, stateVars, queueVars
<1> QED BY <1>1, <1>2, <1>3

LEMMA AbortIInv ==
  ASSUME IInv, Abort
  PROVE  IInv'
BY DEF IInv, Abort, TypeOK, ProcessStates, NeverUndefined, LookupBacked,
       Registered, Found, Queue, PriorityCreditNeverAccrues,
       ArgumentsBindKnownFunction, stateVars, queueVars

(***************************************************************************)
(* Entries put at the front, erased or given another handler.              *)
(***************************************************************************)
LEMMA SoundCons ==
  ASSUME NEW q \in Seq(Entries), NEW e \in Entries,
         SoundQueue(q), SoundHandler(e.handler)
  PROVE  SoundQueue(Cons(e, q))
<1>1. Len(q) \in Nat
  BY LenProperties
<1>2. /\ Len(Cons(e, q)) = Len(q) + 1
      /\ Cons(e, q)[1] = e
      /\ \A k \in 1 .. Len(q) : Cons(e, q)[k + 1] = q[k]
  BY ConsList
<1>3. ASSUME NEW k \in 1 .. Len(Cons(e, q))
      PROVE  SoundHandler(Cons(e, q)[k].handler)
  <2>1. CASE k = 1
    BY <1>2, <2>1
  <2>2. CASE k # 1
    <3>1. k - 1 \in 1 .. Len(q) /\ (k - 1) + 1 = k
      BY <1>1, <1>2, <2>2
    <3> QED BY <1>2, <3>1 DEF SoundQueue
  <2> QED BY <2>1, <2>2
<1> QED BY <1>3 DEF SoundQueue

LEMMA SoundRemoveAt ==
  ASSUME NEW q \in Seq(Entries), NEW k \in 1 .. Len(q), SoundQueue(q)
  PROVE  SoundQueue(RemoveAt(q, k))
<1>1. Len(q) \in Nat /\ k \in Nat
  BY LenProperties
<1>2. /\ Len(RemoveAt(q, k)) = Len(q) - 1
      /\ \A l \in 1 .. k - 1 : RemoveAt(q, k)[l] = q[l]
      /\ \A l \in k .. Len(q) - 1 : RemoveAt(q, k)[l] = q[l + 1]
  BY RemoveAtList
<1>3. ASSUME NEW j \in 1 .. Len(RemoveAt(q, k))
      PROVE  SoundHandler(RemoveAt(q, k)[j].handler)
  <2>1. CASE j < k
    <3>1. j \in 1 .. k - 1 /\ j \in 1 .. Len(q)
      BY <1>1, <1>2, <2>1
    <3> QED BY <1>2, <3>1 DEF SoundQueue
  <2>2. CASE ~ (j < k)
    <3>1. j \in k .. Len(q) - 1 /\ j + 1 \in 1 .. Len(q)
      BY <1>1, <1>2, <2>2
    <3> QED BY <1>2, <3>1 DEF SoundQueue
  <2> QED BY <2>1, <2>2
<1> QED BY <1>3 DEF SoundQueue

LEMMA SoundUpdate ==
  ASSUME NEW q \in Seq(Entries), NEW k \in 1 .. Len(q), NEW h \in Handlers,
         SoundQueue(q), SoundHandler(h)
  PROVE  SoundQueue([q EXCEPT ![k].handler = h])
<1>1. q[k] \in Entries
  BY ElementOfSeq
<1>2. [q[k] EXCEPT !.handler = h].handler = h
  BY <1>1 DEF Entries
<1> QED BY <1>2, HandlerUpdate DEF SoundQueue

(***************************************************************************)
(* The handler operations keep a handler sound; setParameters does because *)
(* of its assert.                                                          *)
(***************************************************************************)
LEMMA SoundHandlers ==
  /\ SoundHandler(handler_callback)
  /\ \A f \in Callables, a \in Arguments : SoundHandler(setFunction(f, a))
  /\ \A h \in Handlers, f \in Callables \cup {NullPtr} :
       SoundHandler(setBoundOrFreeFunction(h, f))
  /\ \A h \in Handlers, a \in Arguments :
       SoundHandler(h) /\ setParametersAsserts(h) =>
         SoundHandler(setParameters(h, a))
BY HandlerAssumption
   DEF SoundHandler, Handlers, Formatted, handler_callback, setFunction,
       setBoundOrFreeFunction, setParameters, setParametersAsserts

----------------------------------------------------------------------------
(***************************************************************************)
(* Each operation keeps the invariant.                                     *)
(***************************************************************************)
LEMMA EnqueueIInv ==
  ASSUME IInv, process = "running",
         NEW i \in Identifiers, NEW h \in Handlers, SoundHandler(h),
         NEW p \in BOOLEAN, NEW s \in BOOLEAN,
         enqueueShared(i, h, p, s)
  PROVE  IInv'
<1>1. CASE i \in Registered
  BY <1>1, FailIInv DEF enqueueShared
<1>2. CASE i \notin Registered
  <2> DEFINE name  == QueueOf(p)
             entry == [id |-> i, persist |-> s, handler |-> h]
  <2>1. /\ SetQueue(name, Cons(entry, Queue(name)))
        /\ scheduler_is_priority_lookup' =
             [scheduler_is_priority_lookup EXCEPT ![i] = name]
        /\ UNCHANGED <<scheduler_mode, scheduler_priority_runs_last,
                       frames, debugVars>>
    BY <1>2 DEF enqueueShared
  <2>2. name \in {"priority", "normal"}
    BY DEF QueueOf
  <2>3. entry \in Entries /\ entry.id = i /\ entry.handler = h
    BY DEF Entries
  <2>4. Queue(name) \in Seq(Entries) /\ SoundQueue(Queue(name))
    BY DEF IInv, TypeOK, ArgumentsBindKnownFunction, Queue
  <2> HIDE DEF name, entry
  <2>5. /\ Cons(entry, Queue(name)) \in Seq(Entries)
        /\ SoundQueue(Cons(entry, Queue(name)))
        /\ InQueue(Cons(entry, Queue(name)), i)
        /\ \A j : InQueue(Queue(name), j) => InQueue(Cons(entry, Queue(name)), j)
    BY <2>3, <2>4, ConsList, SoundCons, InQueueCons
  <2>6. TypeOK'
    BY <2>1, <2>2, <2>5 DEF IInv, TypeOK, SetQueue, debugVars
  <2>7. ASSUME NEW j \in Registered' PROVE Found(j)'
    <3>1. CASE j = i
      BY <2>1, <2>2, <2>5, <3>1 DEF IInv, TypeOK, Found, Queue, SetQueue
    <3>2. CASE j # i
      <4>1. /\ scheduler_is_priority_lookup'[j] = scheduler_is_priority_lookup[j]
            /\ j \in Registered
        BY <2>1, <3>2 DEF IInv, TypeOK, Registered
      <4>2. InQueue(Queue(scheduler_is_priority_lookup[j]), j)
        BY <4>1 DEF IInv, LookupBacked, Found
      <4> QED BY <2>1, <2>2, <2>5, <4>1, <4>2 DEF Found, Queue, SetQueue
    <3> QED BY <3>1, <3>2
  <2>8. ArgumentsBindKnownFunction'
    BY <2>1, <2>5 DEF IInv, ArgumentsBindKnownFunction, SetQueue
  <2>9. NeverUndefined' /\ PriorityCreditNeverAccrues'
    BY <2>1 DEF IInv, NeverUndefined, PriorityCreditNeverAccrues, debugVars
  <2> QED BY <2>6, <2>7, <2>8, <2>9 DEF IInv, LookupBacked
<1> QED BY <1>1, <1>2

LEMMA UpdateIInv ==
  ASSUME IInv, process = "running", NEW i \in Identifiers, NEW h, NEW legal \in BOOLEAN,
         i \in Registered /\ legal => h \in Handlers /\ SoundHandler(h),
         updateShared(i, h, legal)
  PROVE  IInv'
<1>1. CASE i \notin Registered
  BY <1>1, FailIInv DEF updateShared
<1>2. CASE i \in Registered
  <2>1. Found(i)
    BY <1>2 DEF IInv, LookupBacked
  <2>2. CASE ~ legal
    BY <1>2, <2>1, <2>2, AbortIInv DEF updateShared
  <2>3. CASE legal
    <3> DEFINE name  == scheduler_is_priority_lookup[i]
               place == find_if(Queue(name), i)
               queue == [Queue(name) EXCEPT ![place].handler = h]
    <3>1. /\ SetQueue(name, queue)
          /\ UNCHANGED <<scheduler_is_priority_lookup, scheduler_mode,
                         scheduler_priority_runs_last, frames, debugVars>>
      BY <1>2, <2>1, <2>3 DEF updateShared
    <3>2. name \in {"priority", "normal"}
      BY <1>2 DEF IInv, TypeOK, Registered
    <3>3. h \in Handlers /\ SoundHandler(h)
      BY <1>2, <2>3
    <3>4. Queue(name) \in Seq(Entries) /\ place \in 1 .. Len(Queue(name))
      BY <2>1, EntryFound DEF IInv
    <3>5. SoundQueue(Queue(name))
      BY DEF IInv, ArgumentsBindKnownFunction, Queue
    <3> HIDE DEF name, place
    <3>6. /\ queue \in Seq(Entries)
          /\ SoundQueue(queue)
          /\ \A j : InQueue(Queue(name), j) => InQueue(queue, j)
      BY <3>3, <3>4, <3>5, HandlerUpdate, SoundUpdate, InQueueUpdate
    <3> HIDE DEF queue
    <3>7. TypeOK'
      BY <3>1, <3>6 DEF IInv, TypeOK, SetQueue, debugVars
    <3>8. ASSUME NEW j \in Registered' PROVE Found(j)'
      <4>1. j \in Registered
        BY <3>1 DEF Registered
      <4>2. InQueue(Queue(scheduler_is_priority_lookup[j]), j)
        BY <4>1 DEF IInv, LookupBacked, Found
      <4> QED BY <3>1, <3>2, <3>6, <4>1, <4>2 DEF Found, Queue, SetQueue
    <3>9. /\ ArgumentsBindKnownFunction'
          /\ NeverUndefined' /\ PriorityCreditNeverAccrues'
      BY <3>1, <3>6 DEF IInv, ArgumentsBindKnownFunction, SetQueue,
         NeverUndefined, PriorityCreditNeverAccrues, debugVars
    <3> QED BY <3>7, <3>8, <3>9 DEF IInv, LookupBacked
  <2> QED BY <2>2, <2>3
<1> QED BY <1>1, <1>2

LEMMA PriorityIInv ==
  ASSUME IInv, NEW i \in Identifiers, NEW p \in BOOLEAN,
         updateRegistrationPriority(i, p)
  PROVE  IInv'
<1> DEFINE from  == scheduler_is_priority_lookup[i]
           to    == QueueOf(p)
           place == find_if(Queue(from), i)
           moved == Cons(Queue(from)[place], Queue(to))
           left  == RemoveAt(Queue(from), place)
<1>1. CASE i \notin Registered
  BY <1>1, FailIInv DEF updateRegistrationPriority
<1>2. CASE i \in Registered /\ from = to
  <2>1. UNCHANGED vars
    BY <1>2 DEF updateRegistrationPriority
  <2> QED BY <2>1 DEF IInv, TypeOK, LookupBacked, Registered, Found, Queue,
       NeverUndefined, PriorityCreditNeverAccrues, ArgumentsBindKnownFunction,
       vars, stateVars, queueVars, debugVars
<1>3. CASE i \in Registered /\ from # to
  <2>1. Found(i)
    BY <1>3 DEF IInv, LookupBacked
  <2>2. /\ scheduler_priority_queue' = (IF p THEN moved ELSE left)
        /\ scheduler_normal_queue' = (IF p THEN left ELSE moved)
        /\ scheduler_is_priority_lookup' =
             [scheduler_is_priority_lookup EXCEPT ![i] = to]
        /\ UNCHANGED <<scheduler_mode, frames, debugVars,
                       scheduler_priority_runs_last>>
    BY <1>3, <2>1 DEF updateRegistrationPriority
  <2>3. /\ from \in {"priority", "normal"} /\ to \in {"priority", "normal"}
        /\ p => to = "priority" /\ from = "normal"
        /\ ~ p => to = "normal" /\ from = "priority"
    BY <1>3 DEF IInv, TypeOK, Registered, QueueOf
  <2>4. /\ Queue(from) \in Seq(Entries) /\ place \in 1 .. Len(Queue(from))
        /\ Queue(from)[place] \in Entries
        /\ Queue(from)[place].id = i
    BY <2>1, EntryFound DEF IInv
  <2>5. /\ Queue(to) \in Seq(Entries)
        /\ SoundQueue(Queue(to)) /\ SoundQueue(Queue(from))
    BY DEF IInv, TypeOK, ArgumentsBindKnownFunction, Queue
  <2> HIDE DEF from, to, place
  <2>6. SoundHandler(Queue(from)[place].handler)
    BY <2>4, <2>5 DEF SoundQueue
  <2>7. /\ moved \in Seq(Entries) /\ SoundQueue(moved) /\ InQueue(moved, i)
        /\ \A j : InQueue(Queue(to), j) => InQueue(moved, j)
    BY <2>4, <2>5, <2>6, ConsList, SoundCons, InQueueCons
  <2>8. /\ left \in Seq(Entries) /\ SoundQueue(left)
        /\ \A j : j # i /\ InQueue(Queue(from), j) => InQueue(left, j)
    BY <2>4, <2>5, RemoveAtList, SoundRemoveAt, InQueueRemoveAt
  <2> HIDE DEF moved, left
  <2>9. TypeOK'
    BY <2>2, <2>3, <2>7, <2>8 DEF IInv, TypeOK, debugVars
  <2>10. ASSUME NEW j \in Registered' PROVE Found(j)'
    <3>1. CASE j = i
      BY <2>2, <2>3, <2>7, <3>1 DEF IInv, TypeOK, Found, Queue
    <3>2. CASE j # i
      <4>1. /\ scheduler_is_priority_lookup'[j] = scheduler_is_priority_lookup[j]
            /\ scheduler_is_priority_lookup[j] \in {"priority", "normal"}
            /\ j \in Registered
        BY <2>2, <3>2 DEF IInv, TypeOK, Registered
      <4>2. InQueue(Queue(scheduler_is_priority_lookup[j]), j)
        BY <4>1 DEF IInv, LookupBacked, Found
      <4>3. CASE scheduler_is_priority_lookup[j] = to
        BY <2>2, <2>3, <2>7, <4>1, <4>2, <4>3 DEF Found, Queue
      <4>4. CASE scheduler_is_priority_lookup[j] = from
        BY <2>2, <2>3, <2>8, <3>2, <4>1, <4>2, <4>4 DEF Found, Queue
      <4> QED BY <2>3, <4>1, <4>3, <4>4
    <3> QED BY <3>1, <3>2
  <2>11. /\ ArgumentsBindKnownFunction'
         /\ NeverUndefined' /\ PriorityCreditNeverAccrues'
    BY <2>2, <2>7, <2>8 DEF IInv, ArgumentsBindKnownFunction, NeverUndefined,
       PriorityCreditNeverAccrues, debugVars
  <2> QED BY <2>9, <2>10, <2>11 DEF IInv, LookupBacked
<1> QED BY <1>1, <1>2, <1>3

LEMMA RemoveIInv ==
  ASSUME IInv, NEW i \in Identifiers, removeRegistration(i)
  PROVE  IInv'
<1>1. CASE i \notin Registered
  BY <1>1, FailIInv DEF removeRegistration
<1>2. CASE i \in Registered
  <2> DEFINE name  == scheduler_is_priority_lookup[i]
             place == find_if(Queue(name), i)
             left  == RemoveAt(Queue(name), place)
  <2>1. Found(i)
    BY <1>2 DEF IInv, LookupBacked
  <2>2. /\ SetQueue(name, left)
        /\ scheduler_is_priority_lookup' =
             [scheduler_is_priority_lookup EXCEPT ![i] = "none"]
        /\ UNCHANGED <<scheduler_mode, scheduler_priority_runs_last,
                       frames, debugVars>>
    BY <1>2, <2>1 DEF removeRegistration
  <2>3. name \in {"priority", "normal"}
    BY <1>2 DEF IInv, TypeOK, Registered
  <2>4. /\ Queue(name) \in Seq(Entries) /\ place \in 1 .. Len(Queue(name))
        /\ Queue(name)[place].id = i
    BY <2>1, EntryFound DEF IInv
  <2>5. SoundQueue(Queue(name))
    BY DEF IInv, ArgumentsBindKnownFunction, Queue
  <2> HIDE DEF name, place
  <2>6. /\ left \in Seq(Entries) /\ SoundQueue(left)
        /\ \A j : j # i /\ InQueue(Queue(name), j) => InQueue(left, j)
    BY <2>4, <2>5, RemoveAtList, SoundRemoveAt, InQueueRemoveAt
  <2> HIDE DEF left
  <2>7. TypeOK'
    BY <2>2, <2>6 DEF IInv, TypeOK, SetQueue, debugVars
  <2>8. ASSUME NEW j \in Registered' PROVE Found(j)'
    <3>1. j # i /\ j \in Registered
          /\ scheduler_is_priority_lookup'[j] = scheduler_is_priority_lookup[j]
      BY <2>2 DEF IInv, TypeOK, Registered
    <3>2. InQueue(Queue(scheduler_is_priority_lookup[j]), j)
      BY <3>1 DEF IInv, LookupBacked, Found
    <3> QED BY <2>2, <2>3, <2>6, <3>1, <3>2 DEF Found, Queue, SetQueue
  <2>9. /\ ArgumentsBindKnownFunction'
        /\ NeverUndefined' /\ PriorityCreditNeverAccrues'
    BY <2>2, <2>6 DEF IInv, ArgumentsBindKnownFunction, SetQueue,
       NeverUndefined, PriorityCreditNeverAccrues, debugVars
  <2> QED BY <2>7, <2>8, <2>9 DEF IInv, LookupBacked
<1> QED BY <1>1, <1>2

LEMMA CleanIInv ==
  ASSUME IInv, clean
  PROVE  IInv'
<1>1. TypeOK'
  BY DEF IInv, TypeOK, clean, debugVars, Modes
<1>2. LookupBacked'
  BY DEF clean, LookupBacked, Registered
<1>3. ArgumentsBindKnownFunction'
  BY DEF clean, ArgumentsBindKnownFunction, SoundQueue
<1>4. NeverUndefined' /\ PriorityCreditNeverAccrues'
  BY DEF IInv, clean, NeverUndefined, PriorityCreditNeverAccrues, debugVars
<1> QED BY <1>1, <1>2, <1>3, <1>4 DEF IInv

LEMMA ModeIInv ==
  ASSUME IInv, NEW m \in Modes, setAlgorithmMode(m)
  PROVE  IInv'
BY DEF IInv, setAlgorithmMode, TypeOK, LookupBacked, Registered, Found, Queue,
       NeverUndefined, PriorityCreditNeverAccrues, ArgumentsBindKnownFunction,
       queueVars, debugVars

(***************************************************************************)
(* run() with a registration finds an entry to call: LookupBacked says     *)
(* that one of the queues is not empty.                                    *)
(***************************************************************************)
LEMMA RunIInv ==
  ASSUME IInv, run
  PROVE  IInv'
<1>1. CASE Registered = {}
  BY <1>1, FailIInv DEF run
<1>2. CASE /\ Registered # {}
           /\ scheduler_mode = "priority_only_round_robin"
           /\ scheduler_priority_queue = <<>>
  <2>1. fail(no_priority_tasks_available) /\ UNCHANGED stateVars
    BY <1>2 DEF run, IInv, PriorityCreditNeverAccrues, stateVars, queueVars
  <2> QED BY <2>1, FailIInv
<1>3. CASE /\ Registered # {}
           /\ ~ /\ scheduler_mode = "priority_only_round_robin"
                /\ scheduler_priority_queue = <<>>
  <2> DEFINE queue == IF PriorityTurn THEN scheduler_priority_queue
                                      ELSE scheduler_normal_queue
             back  == Last(queue)
             frame == [id |-> back.id, persist |-> back.persist,
                       only |-> scheduler_mode = "priority_only_round_robin"]
  <2>1. queue # <<>>
    <3>1. PICK j \in Registered : Found(j)
      BY <1>3 DEF IInv, LookupBacked
    <3>2. Queue(scheduler_is_priority_lookup[j]) # <<>>
      BY <3>1 DEF Found, InQueue
    <3>3. scheduler_priority_queue # <<>> \/ scheduler_normal_queue # <<>>
      BY <3>2 DEF Queue
    <3> QED BY <1>3, <3>3 DEF PriorityTurn
  <2>2. queue \in Seq(Entries)
    BY DEF IInv, TypeOK
  <2>3. runOperationInline(queue)
    BY <1>3 DEF run
  <2> HIDE DEF queue
  <2>4. back \in Entries
    <3>1. Len(queue) \in 1 .. Len(queue)
      BY <2>1, <2>2, EmptySeq, LenProperties
    <3> QED BY <2>2, <3>1, ElementOfSeq DEF Last
  <2>5. CASE ~ runAsserts(back.handler)
    BY <2>1, <2>3, <2>5, AbortIInv DEF runOperationInline
  <2>6. CASE runAsserts(back.handler)
    <3>1. /\ frames' = Cons(frame, frames)
          /\ UNCHANGED <<queueVars, scheduler_is_priority_lookup, debugVars,
                         scheduler_mode, scheduler_priority_runs_last>>
      BY <2>1, <2>3, <2>6 DEF runOperationInline
    <3>2. frame \in Frames
      BY <2>4 DEF Frames, Entries
    <3>3. frames' \in Seq(Frames)
      <4> HIDE DEF frame
      <4> QED BY <3>1, <3>2, ConsList DEF IInv, TypeOK
    <3> QED BY <3>1, <3>3 DEF IInv, TypeOK, LookupBacked, Registered, Found,
         Queue, NeverUndefined, PriorityCreditNeverAccrues,
         ArgumentsBindKnownFunction, queueVars, debugVars
  <2> QED BY <2>5, <2>6
<1> QED BY <1>1, <1>2, <1>3

(***************************************************************************)
(* The counter is back at 0 after a run that started with 0.               *)
(***************************************************************************)
LEMMA NoCredit == \A m \in Modes : NextRunsLast(0, m) = 0
BY DEF NextRunsLast, Modes, Flag, ROUND_ROBIN_PRIORITY_CYCLES,
       PRIORITY_ROUND_ROBIN_PRIORITY_CYCLES

LEMMA ReturnIInv ==
  ASSUME IInv, callbackReturns
  PROVE  IInv'
<1>1. /\ frames # <<>> /\ frames' = Tail(frames)
      /\ UNCHANGED <<queueVars, scheduler_mode, debugVars>>
  BY DEF callbackReturns
<1>2. frames' \in Seq(Frames) /\ frames[1] \in Frames
  <2>1. 1 \in 1 .. Len(frames)
    BY <1>1, EmptySeq, LenProperties DEF IInv, TypeOK
  <2> QED BY <1>1, <2>1, HeadTailProperties, ElementOfSeq DEF IInv, TypeOK
<1>3. scheduler_priority_runs_last' = 0
  BY NoCredit DEF IInv, TypeOK, PriorityCreditNeverAccrues, callbackReturns
<1>4. /\ scheduler_is_priority_lookup' \in
           [Identifiers -> {"none", "priority", "normal"}]
      /\ \A j \in Identifiers :
           scheduler_is_priority_lookup'[j] \in
             {"none", scheduler_is_priority_lookup[j]}
  BY <1>2 DEF IInv, TypeOK, callbackReturns, Frames
<1>5. TypeOK'
  BY <1>1, <1>2, <1>3, <1>4 DEF IInv, TypeOK, queueVars, debugVars
<1>6. LookupBacked'
  BY <1>1, <1>4 DEF IInv, LookupBacked, Registered, Found, Queue, queueVars
<1>7. /\ ArgumentsBindKnownFunction'
      /\ NeverUndefined' /\ PriorityCreditNeverAccrues'
  BY <1>1, <1>3 DEF IInv, ArgumentsBindKnownFunction, NeverUndefined,
     PriorityCreditNeverAccrues, queueVars, debugVars
<1> QED BY <1>5, <1>6, <1>7 DEF IInv

LEMMA NextIInv == IInv /\ [Next]_vars => IInv'
<1> SUFFICES ASSUME IInv, [Next]_vars PROVE IInv'
  OBVIOUS
<1>1. ASSUME NEW i \in Identifiers, NEW f \in Callables \cup {NullPtr},
             NEW p \in BOOLEAN, NEW s \in BOOLEAN,
             enqueueRegistration(i, f, p, s)
      PROVE  IInv'
  <2> DEFINE h == setBoundOrFreeFunction(handler_callback, f)
  <2>1. h \in Handlers /\ SoundHandler(h)
    BY HandlerTypes, SoundHandlers
  <2>2. process = "running" /\ enqueueShared(i, h, p, s)
    BY <1>1 DEF enqueueRegistration
  <2> HIDE DEF h
  <2> QED BY <2>1, <2>2, EnqueueIInv
<1>2. ASSUME NEW i \in Identifiers, NEW f \in Callables, NEW a \in Arguments,
             NEW p \in BOOLEAN, NEW s \in BOOLEAN,
             enqueueRegistrationParameters(i, f, a, p, s)
      PROVE  IInv'
  <2> DEFINE h == setFunction(f, a)
  <2>1. h \in Handlers /\ SoundHandler(h)
    BY HandlerTypes, SoundHandlers
  <2>2. process = "running" /\ enqueueShared(i, h, p, s)
    BY <1>2 DEF enqueueRegistrationParameters
  <2> HIDE DEF h
  <2> QED BY <2>1, <2>2, EnqueueIInv
<1>3. ASSUME NEW i \in Identifiers, i \in Registered
      PROVE  /\ RegisteredEntry(i).handler \in Handlers
             /\ SoundHandler(RegisteredEntry(i).handler)
  <2> DEFINE name  == scheduler_is_priority_lookup[i]
             place == find_if(Queue(name), i)
  <2>1. Found(i)
    BY <1>3 DEF IInv, LookupBacked
  <2>2. /\ place \in 1 .. Len(Queue(name))
        /\ RegisteredEntry(i) = Queue(name)[place]
        /\ RegisteredEntry(i) \in Entries
    BY <2>1, EntryFound DEF IInv
  <2>3. SoundQueue(Queue(name))
    BY DEF IInv, ArgumentsBindKnownFunction, Queue
  <2> QED BY <2>2, <2>3 DEF Entries, SoundQueue
<1>4. ASSUME NEW i \in Identifiers, NEW f \in Callables \cup {NullPtr},
             updateRegistration(i, f)
      PROVE  IInv'
  <2> DEFINE h == setBoundOrFreeFunction(RegisteredEntry(i).handler, f)
  <2>1. i \in Registered => h \in Handlers /\ SoundHandler(h)
    BY <1>3, HandlerTypes, SoundHandlers
  <2>2. process = "running" /\ updateShared(i, h, TRUE)
    BY <1>4 DEF updateRegistration
  <2> HIDE DEF h
  <2> QED BY <2>1, <2>2, UpdateIInv
<1>5. ASSUME NEW i \in Identifiers, NEW f \in Callables \cup {NullPtr},
             NEW a \in Arguments, updateRegistrationParameters(i, f, a)
      PROVE  IInv'
  <2>1. process = "running"
    BY <1>5 DEF updateRegistrationParameters
  <2>2. CASE f = NullPtr
    <3> DEFINE old == RegisteredEntry(i).handler
               h == setParameters(old, a)
               legal == setParametersAsserts(old)
    <3>1. updateShared(i, h, legal)
      BY <1>5, <2>2 DEF updateRegistrationParameters
    <3>2. legal \in BOOLEAN
      BY DEF setParametersAsserts
    <3>3. i \in Registered /\ legal => h \in Handlers /\ SoundHandler(h)
      BY <1>3, HandlerTypes, SoundHandlers
    <3> HIDE DEF h, legal
    <3> QED BY <2>1, <3>1, <3>2, <3>3, UpdateIInv
  <2>3. CASE f # NullPtr
    <3> DEFINE h == setFunction(f, a)
    <3>1. updateShared(i, h, TRUE)
      BY <1>5, <2>3 DEF updateRegistrationParameters
    <3>2. h \in Handlers /\ SoundHandler(h)
      BY <2>3, HandlerTypes, SoundHandlers
    <3> HIDE DEF h
    <3> QED BY <2>1, <3>1, <3>2, UpdateIInv
  <2> QED BY <2>2, <2>3
<1>6. CASE UNCHANGED vars
  BY <1>6 DEF IInv, TypeOK, LookupBacked, Registered, Found, Queue,
     NeverUndefined, PriorityCreditNeverAccrues, ArgumentsBindKnownFunction,
     vars, stateVars, queueVars, debugVars
<1> QED BY <1>1, <1>2, <1>4, <1>5, <1>6, PriorityIInv, RemoveIInv, CleanIInv,
        ModeIInv, RunIInv, ReturnIInv DEF Next

(***************************************************************************)
(* Every behaviour of scheduler_runslice stays within the inductive        *)
(* invariant.                                                              *)
(***************************************************************************)
THEOREM Invariance == Spec => []IInv
BY InitIInv, NextIInv, PTL DEF Spec

(***************************************************************************)
(* The state of scheduler_runslice keeps its types through every sequence  *)
(* of calls.                                                               *)
(***************************************************************************)
THEOREM TypeCorrect == Spec => []TypeOK
<1>1. IInv => TypeOK
  BY DEF IInv
<1> QED BY <1>1, Invariance, PTL

(***************************************************************************)
(* The results of find_if need no test: an identifier in the lookup is in  *)
(* the queue the lookup names ("this should be handled internally").       *)
(***************************************************************************)
THEOREM LookupIsBacked == Spec => []LookupBacked
<1>1. IInv => LookupBacked
  BY DEF IInv
<1> QED BY <1>1, Invariance, PTL

(***************************************************************************)
(* No sequence of calls, re-entrant ones included, erases or dereferences  *)
(* end() or calls back() on an empty list.                                 *)
(***************************************************************************)
THEOREM NeverLeavesDefinedBehaviour == Spec => []NeverUndefined
<1>1. IInv => NeverUndefined
  BY DEF IInv
<1> QED BY <1>1, Invariance, PTL

(***************************************************************************)
(* scheduler_priority_runs_last is 0 for ever: run() never prefers the     *)
(* priority queue to a normal queue that has an entry.                     *)
(***************************************************************************)
THEOREM PriorityQueueHasNoTurn == Spec => []PriorityCreditNeverAccrues
<1>1. IInv => PriorityCreditNeverAccrues
  BY DEF IInv
<1> QED BY <1>1, Invariance, PTL

(***************************************************************************)
(* setParameters never binds arguments to the pointer the constructor      *)
(* leaves uninitialised.                                                   *)
(***************************************************************************)
THEOREM ArgumentsAreBoundToAFunction == Spec => []ArgumentsBindKnownFunction
<1>1. IInv => ArgumentsBindKnownFunction
  BY DEF IInv
<1> QED BY <1>1, Invariance, PTL

============================================================================
