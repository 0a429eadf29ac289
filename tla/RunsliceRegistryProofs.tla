---------------------- MODULE RunsliceRegistryProofs ----------------------
(***************************************************************************)
(* scheduler_runslice implements Registry: whatever stale entries its      *)
(* queues hold, the lookup and the queues together are a plain map from    *)
(* identifiers to registrations.                                           *)
(***************************************************************************)
EXTENDS RunsliceSchedulerProofs

----------------------------------------------------------------------------
(***************************************************************************)
(* The first entry of an identifier, which find_if finds.                  *)
(***************************************************************************)
First(q, i) == q[find_if(q, i)]

(***************************************************************************)
(* An entry with no entry of the same identifier before it is the one that *)
(* find_if returns.                                                        *)
(***************************************************************************)
LEMMA FirstPlace ==
  ASSUME NEW q \in Seq(Entries), NEW i, NEW k \in 1 .. Len(q), q[k].id = i,
         \A j \in 1 .. k - 1 : q[j].id # i
  PROVE  find_if(q, i) = k
<1>1. InQueue(q, i)
  BY DEF InQueue
<1>2. /\ find_if(q, i) \in 1 .. Len(q)
      /\ q[find_if(q, i)].id = i
      /\ find_if(q, i) <= k
  BY <1>1, FindIf
<1>3. Len(q) \in Nat
  BY LenProperties
<1> QED BY <1>2, <1>3

(***************************************************************************)
(* An entry put at the front is the first of its identifier and hides no   *)
(* entry of another one.                                                   *)
(***************************************************************************)
LEMMA FirstCons ==
  ASSUME NEW q \in Seq(Entries), NEW e \in Entries
  PROVE  /\ First(Cons(e, q), e.id) = e
         /\ \A i : i # e.id /\ InQueue(q, i) => First(Cons(e, q), i) = First(q, i)
<1> DEFINE new == Cons(e, q)
<1>1. Len(q) \in Nat
  BY LenProperties
<1>2. /\ new \in Seq(Entries) /\ Len(new) = Len(q) + 1 /\ new[1] = e
      /\ \A k \in 1 .. Len(q) : new[k + 1] = q[k]
  BY ConsList
<1> HIDE DEF new
<1>3. find_if(new, e.id) = 1
  BY <1>1, <1>2, FirstPlace
<1>4. ASSUME NEW i, i # e.id, InQueue(q, i)
      PROVE  First(new, i) = First(q, i)
  <2> DEFINE k == find_if(q, i)
  <2>1. /\ k \in 1 .. Len(q) /\ q[k].id = i
        /\ \A j \in 1 .. Len(q) : q[j].id = i => k <= j
    BY <1>4, FindIf
  <2> HIDE DEF k
  <2>2. k + 1 \in 1 .. Len(new) /\ new[k + 1] = q[k]
    BY <1>1, <1>2, <2>1
  <2>3. ASSUME NEW j \in 1 .. (k + 1) - 1 PROVE new[j].id # i
    <3>1. CASE j = 1
      BY <1>2, <1>4, <3>1
    <3>2. CASE j # 1
      <4>1. j - 1 \in 1 .. Len(q) /\ (j - 1) + 1 = j /\ ~ (k <= j - 1)
        BY <1>1, <2>1, <3>2
      <4> QED BY <1>2, <2>1, <4>1
    <3> QED BY <3>1, <3>2
  <2>4. find_if(new, i) = k + 1
    BY <1>2, <2>1, <2>2, <2>3, FirstPlace
  <2> QED BY <2>2, <2>4 DEF First, k
<1> QED BY <1>2, <1>3, <1>4 DEF First, new

(***************************************************************************)
(* An erased entry hides no entry of another identifier.                   *)
(***************************************************************************)
LEMMA FirstRemoveAt ==
  ASSUME NEW q \in Seq(Entries), NEW p \in 1 .. Len(q), NEW i,
         i # q[p].id, InQueue(q, i)
  PROVE  First(RemoveAt(q, p), i) = First(q, i)
<1> DEFINE new == RemoveAt(q, p)
           k == find_if(q, i)
<1>1. Len(q) \in Nat /\ p \in Nat
  BY LenProperties
<1>2. /\ new \in Seq(Entries) /\ Len(new) = Len(q) - 1
      /\ \A j \in 1 .. p - 1 : new[j] = q[j]
      /\ \A j \in p .. Len(q) - 1 : new[j] = q[j + 1]
  BY RemoveAtList
<1>3. /\ k \in 1 .. Len(q) /\ q[k].id = i
      /\ \A j \in 1 .. Len(q) : q[j].id = i => k <= j
  BY FindIf
<1> HIDE DEF new, k
<1>4. CASE k < p
  <2>1. k \in 1 .. Len(new) /\ new[k] = q[k]
    BY <1>1, <1>2, <1>3, <1>4
  <2>2. ASSUME NEW j \in 1 .. k - 1 PROVE new[j].id # i
    <3>1. j \in 1 .. p - 1 /\ j \in 1 .. Len(q) /\ ~ (k <= j)
      BY <1>1, <1>3, <1>4
    <3> QED BY <1>2, <1>3, <3>1
  <2>3. find_if(new, i) = k
    BY <1>2, <1>3, <2>1, <2>2, FirstPlace
  <2> QED BY <2>1, <2>3 DEF First, k, new
<1>5. CASE k > p
  <2>1. /\ k - 1 \in 1 .. Len(new) /\ k - 1 \in p .. Len(q) - 1
        /\ (k - 1) + 1 = k
    BY <1>1, <1>2, <1>3, <1>5
  <2>2. new[k - 1] = q[k]
    BY <1>2, <2>1
  <2>3. ASSUME NEW j \in 1 .. (k - 1) - 1 PROVE new[j].id # i
    <3>1. CASE j < p
      <4>1. j \in 1 .. p - 1 /\ j \in 1 .. Len(q) /\ ~ (k <= j)
        BY <1>1, <1>3, <3>1
      <4> QED BY <1>2, <1>3, <4>1
    <3>2. CASE ~ (j < p)
      <4>1. j \in p .. Len(q) - 1 /\ j + 1 \in 1 .. Len(q) /\ ~ (k <= j + 1)
        BY <1>1, <1>3, <3>2
      <4> QED BY <1>2, <1>3, <4>1
    <3> QED BY <3>1, <3>2
  <2>4. find_if(new, i) = k - 1
    BY <1>2, <1>3, <2>1, <2>2, <2>3, FirstPlace
  <2> QED BY <2>2, <2>4 DEF First, k, new
<1> QED BY <1>1, <1>3, <1>4, <1>5

(***************************************************************************)
(* The handler of the first entry of an identifier replaced: that entry    *)
(* keeps the rest, other identifiers keep theirs.                          *)
(***************************************************************************)
WithHandler(q, i, h) == [q EXCEPT ![find_if(q, i)].handler = h]

LEMMA FirstUpdate ==
  ASSUME NEW q \in Seq(Entries), NEW i, InQueue(q, i), NEW h \in Handlers
  PROVE  /\ First(WithHandler(q, i, h), i) = [First(q, i) EXCEPT !.handler = h]
         /\ \A j : j # i /\ InQueue(q, j) =>
              First(WithHandler(q, i, h), j) = First(q, j)
<1> DEFINE p == find_if(q, i)
           new == [q EXCEPT ![p].handler = h]
<1>1. Len(q) \in Nat
  BY LenProperties
<1>2. p \in 1 .. Len(q) /\ q[p].id = i
  BY FindIf
<1>3. q[p] \in Entries
  BY <1>2, ElementOfSeq
<1>4. [q[p] EXCEPT !.handler = h].id = i
  BY <1>2, <1>3 DEF Entries
<1> HIDE DEF p
<1>5. /\ new \in Seq(Entries) /\ Len(new) = Len(q)
      /\ \A j \in 1 .. Len(q) :
           new[j] = IF j = p THEN [q[p] EXCEPT !.handler = h] ELSE q[j]
  BY <1>2, HandlerUpdate
<1> HIDE DEF new
<1>6. \A j \in 1 .. Len(q) : new[j].id = q[j].id
  BY <1>2, <1>4, <1>5
<1>7. ASSUME NEW j, InQueue(q, j)
      PROVE  find_if(new, j) = find_if(q, j) /\ find_if(q, j) \in 1 .. Len(q)
  <2> DEFINE k == find_if(q, j)
  <2>1. /\ k \in 1 .. Len(q) /\ q[k].id = j
        /\ \A l \in 1 .. Len(q) : q[l].id = j => k <= l
    BY <1>7, FindIf
  <2> HIDE DEF k
  <2>2. k \in 1 .. Len(new) /\ new[k].id = j
    BY <1>5, <1>6, <2>1
  <2>3. ASSUME NEW l \in 1 .. k - 1 PROVE new[l].id # j
    <3>1. l \in 1 .. Len(q) /\ ~ (k <= l)
      BY <1>1, <2>1
    <3> QED BY <1>6, <2>1, <3>1
  <2>4. find_if(new, j) = k
    BY <1>5, <2>2, <2>3, FirstPlace
  <2> QED BY <2>1, <2>4 DEF k
<1>8. First(new, i) = [First(q, i) EXCEPT !.handler = h]
  BY <1>2, <1>5, <1>7 DEF First, p
<1>9. ASSUME NEW j, j # i, InQueue(q, j)
      PROVE  First(new, j) = First(q, j)
  <2>1. find_if(q, j) # p
    BY <1>2, <1>9, FindIf
  <2> QED BY <1>5, <1>7, <1>9, <2>1 DEF First
<1> QED BY <1>8, <1>9 DEF new, p, WithHandler

----------------------------------------------------------------------------
(***************************************************************************)
(* Steps of the scheduler as steps of the map.                             *)
(***************************************************************************)

(***************************************************************************)
(* The map at an identifier of the lookup.                                 *)
(***************************************************************************)
LEMMA Mapped ==
  ASSUME IInv
  PROVE  /\ DOMAIN registrations = Registered
         /\ \A i \in Registered :
              /\ i \in Identifiers
              /\ scheduler_is_priority_lookup[i] \in {"priority", "normal"}
              /\ RegisteredEntry(i) \in Entries
              /\ registrations[i].priority = scheduler_is_priority_lookup[i]
              /\ registrations[i].persist = RegisteredEntry(i).persist
              /\ registrations[i].handler = RegisteredEntry(i).handler
<1>1. DOMAIN registrations = Registered
  BY DEF registrations
<1>2. ASSUME NEW i \in Registered
      PROVE  /\ i \in Identifiers
             /\ scheduler_is_priority_lookup[i] \in {"priority", "normal"}
             /\ RegisteredEntry(i) \in Entries
             /\ registrations[i] = Registration(i)
  <2>1. i \in Identifiers /\ Found(i)
    BY DEF IInv, LookupBacked, Registered
  <2>2. RegisteredEntry(i) \in Entries
    BY <2>1, EntryFound DEF IInv
  <2> QED BY <2>1, <2>2 DEF IInv, TypeOK, Registered, registrations
<1> QED BY <1>1, <1>2 DEF Registration

(***************************************************************************)
(* A step that keeps the lookup and, in both queues, the first entry of    *)
(* every identifier but i keeps the registrations of all but i.            *)
(***************************************************************************)
FirstsKept(i) ==
  \A j : j # i =>
    /\ InQueue(scheduler_priority_queue, j) =>
         First(scheduler_priority_queue', j) = First(scheduler_priority_queue, j)
    /\ InQueue(scheduler_normal_queue, j) =>
         First(scheduler_normal_queue', j) = First(scheduler_normal_queue, j)

LookupKept(i) ==
  \A j \in Identifiers \ {i} :
    scheduler_is_priority_lookup'[j] = scheduler_is_priority_lookup[j]

LEMMA OthersKept ==
  ASSUME IInv, NEW i \in Identifiers, LookupKept(i), FirstsKept(i)
  PROVE  R!OthersKept(i)
<1>1. Registered' \ {i} = Registered \ {i}
  BY DEF LookupKept, Registered
<1>2. DOMAIN registrations = Registered /\ DOMAIN registrations' = Registered'
  BY DEF registrations
<1>3. ASSUME NEW j \in Registered \ {i} PROVE registrations'[j] = registrations[j]
  <2>1. j \in Registered /\ j \in Registered' /\ j \in Identifiers \ {i}
    BY <1>1 DEF Registered
  <2>2. scheduler_is_priority_lookup'[j] = scheduler_is_priority_lookup[j]
    BY <2>1 DEF LookupKept
  <2>3. InQueue(Queue(scheduler_is_priority_lookup[j]), j)
    BY <2>1 DEF IInv, LookupBacked, Found
  <2>4. RegisteredEntry(j)' = RegisteredEntry(j)
    <3>1. CASE scheduler_is_priority_lookup[j] = "priority"
      <4>1. /\ RegisteredEntry(j) = First(scheduler_priority_queue, j)
            /\ RegisteredEntry(j)' = First(scheduler_priority_queue', j)
        BY <2>2, <3>1 DEF RegisteredEntry, Queue, First
      <4> QED BY <2>1, <2>3, <3>1, <4>1 DEF Queue, FirstsKept
    <3>2. CASE scheduler_is_priority_lookup[j] # "priority"
      <4>1. /\ RegisteredEntry(j) = First(scheduler_normal_queue, j)
            /\ RegisteredEntry(j)' = First(scheduler_normal_queue', j)
        BY <2>2, <3>2 DEF RegisteredEntry, Queue, First
      <4> QED BY <2>1, <2>3, <3>2, <4>1 DEF Queue, FirstsKept
    <3> QED BY <3>1, <3>2
  <2>5. Registration(j)' = Registration(j)
    BY <2>2, <2>4 DEF Registration
  <2> QED BY <2>1, <2>5 DEF registrations
<1> QED BY <1>1, <1>2, <1>3 DEF R!OthersKept

LEMMA Stutter ==
  ASSUME UNCHANGED <<queueVars, scheduler_is_priority_lookup>>
  PROVE  UNCHANGED registrations
BY DEF registrations, Registered, Registration, RegisteredEntry, Queue, queueVars

LEMMA StutterVars ==
  ASSUME UNCHANGED stateVars
  PROVE  UNCHANGED registrations
BY Stutter DEF stateVars

(***************************************************************************)
(* enqueueRegistration enters an identifier that the map does not have.    *)
(***************************************************************************)
LEMMA EnqueueEnters ==
  ASSUME IInv, NEW i \in Identifiers, NEW h \in Handlers,
         NEW p \in BOOLEAN, NEW s \in BOOLEAN,
         enqueueShared(i, h, p, s)
  PROVE  R!Enter(i) \/ UNCHANGED registrations
<1>1. CASE i \in Registered
  BY <1>1, StutterVars DEF enqueueShared
<1>2. CASE i \notin Registered
  <2> DEFINE name  == QueueOf(p)
             entry == [id |-> i, persist |-> s, handler |-> h]
             new   == Cons(entry, Queue(name))
  <2>1. /\ SetQueue(name, new)
        /\ scheduler_is_priority_lookup' =
             [scheduler_is_priority_lookup EXCEPT ![i] = name]
    BY <1>2 DEF enqueueShared
  <2>2. name \in {"priority", "normal"}
    BY DEF QueueOf
  <2>3. /\ entry \in Entries /\ entry.id = i
        /\ entry.persist = s /\ entry.handler = h
    BY DEF Entries
  <2>4. Queue(name) \in Seq(Entries)
    BY DEF IInv, TypeOK, Queue
  <2> HIDE DEF name, entry
  <2>5. /\ First(new, i) = entry
        /\ \A j : j # i /\ InQueue(Queue(name), j) =>
             First(new, j) = First(Queue(name), j)
    BY <2>3, <2>4, FirstCons
  <2> HIDE DEF new
  <2>6. scheduler_is_priority_lookup'[i] = name /\ i \in Registered'
    BY <2>1, <2>2 DEF IInv, TypeOK, Registered
  <2>7. LookupKept(i) /\ FirstsKept(i)
    BY <2>1, <2>5 DEF IInv, TypeOK, LookupKept, FirstsKept, SetQueue, Queue
  <2>8. R!OthersKept(i)
    BY <2>7, OthersKept
  <2>9. i \notin DOMAIN registrations /\ i \in DOMAIN registrations'
    BY <1>2, <2>6 DEF registrations
  <2>10. registrations'[i] = Registration(i)'
    BY <2>6 DEF registrations
  <2>11. RegisteredEntry(i)' = entry
    BY <2>1, <2>2, <2>5, <2>6 DEF RegisteredEntry, First, Queue, SetQueue
  <2>12. Registration(i)' \in R!Registrations
    BY <2>2, <2>3, <2>6, <2>11 DEF Registration, R!Registrations, R!Names,
       R!Handlers, Handlers, R!Formatted, Formatted
  <2> QED BY <2>8, <2>9, <2>10, <2>12 DEF R!Enter
<1> QED BY <1>1, <1>2

(***************************************************************************)
(* updateRegistration and its variants change one handler.                 *)
(***************************************************************************)
LEMMA UpdateChangesHandler ==
  ASSUME IInv, NEW i \in Identifiers, NEW h, NEW legal \in BOOLEAN,
         i \in Registered /\ legal => h \in Handlers,
         updateShared(i, h, legal)
  PROVE  R!ChangeHandler(i) \/ UNCHANGED registrations
<1>1. CASE i \notin Registered
  BY <1>1, StutterVars DEF updateShared
<1>2. CASE i \in Registered /\ ~ legal
  <2>1. Abort
    BY <1>2 DEF updateShared, IInv, LookupBacked
  <2> QED BY <2>1, StutterVars DEF Abort
<1>3. CASE i \in Registered /\ legal
  <2> DEFINE name == scheduler_is_priority_lookup[i]
             new  == WithHandler(Queue(name), i, h)
  <2>1. Found(i) /\ h \in Handlers
    BY <1>3 DEF IInv, LookupBacked
  <2>2. SetQueue(name, new) /\ UNCHANGED scheduler_is_priority_lookup
    BY <1>3, <2>1 DEF updateShared, WithHandler
  <2>3. /\ name \in {"priority", "normal"}
        /\ i \in Registered' /\ scheduler_is_priority_lookup'[i] = name
    BY <1>3, <2>2 DEF IInv, TypeOK, Registered
  <2>4. Queue(name) \in Seq(Entries) /\ InQueue(Queue(name), i)
    BY <2>1 DEF IInv, TypeOK, Queue, Found
  <2>5. First(Queue(name), i) = RegisteredEntry(i) /\ RegisteredEntry(i) \in Entries
    BY <2>1, EntryFound DEF IInv, First, RegisteredEntry
  <2> HIDE DEF name
  <2>6. /\ First(new, i) = [First(Queue(name), i) EXCEPT !.handler = h]
        /\ \A j : j # i /\ InQueue(Queue(name), j) =>
             First(new, j) = First(Queue(name), j)
    BY <2>1, <2>4, FirstUpdate
  <2> HIDE DEF new
  <2>7. R!OthersKept(i)
    <3>1. LookupKept(i) /\ FirstsKept(i)
      BY <2>2, <2>6 DEF LookupKept, FirstsKept, SetQueue, Queue
    <3> QED BY <3>1, OthersKept
  <2>8. RegisteredEntry(i)' = [RegisteredEntry(i) EXCEPT !.handler = h]
    <3>1. RegisteredEntry(i)' = First(new, i)
      BY <2>2, <2>3 DEF RegisteredEntry, First, Queue, SetQueue
    <3> QED BY <2>5, <2>6, <3>1
  <2>9. /\ RegisteredEntry(i)'.handler = h
        /\ RegisteredEntry(i)'.persist = RegisteredEntry(i).persist
    BY <2>5, <2>8 DEF Entries
  <2>10. /\ i \in DOMAIN registrations /\ i \in DOMAIN registrations'
         /\ registrations[i] = Registration(i)
         /\ registrations'[i] = Registration(i)'
    BY <1>3, <2>3 DEF registrations
  <2>11. /\ registrations'[i].handler \in R!Handlers
         /\ registrations'[i].priority = registrations[i].priority
         /\ registrations'[i].persist = registrations[i].persist
    BY <2>1, <2>3, <2>9, <2>10 DEF Registration, name, R!Handlers, Handlers,
       R!Formatted, Formatted
  <2> QED BY <2>7, <2>10, <2>11 DEF R!ChangeHandler
<1> QED BY <1>1, <1>2, <1>3

(***************************************************************************)
(* updateRegistrationPriority changes one priority, and keeps the handler  *)
(* it moves.                                                               *)
(***************************************************************************)
LEMMA PriorityChangesPriority ==
  ASSUME IInv, NEW i \in Identifiers, NEW p \in BOOLEAN,
         updateRegistrationPriority(i, p)
  PROVE  R!ChangePriority(i) \/ UNCHANGED registrations
<1> DEFINE from  == scheduler_is_priority_lookup[i]
           to    == QueueOf(p)
           place == find_if(Queue(from), i)
           moved == Cons(Queue(from)[place], Queue(to))
           left  == RemoveAt(Queue(from), place)
<1>1. CASE i \notin Registered
  BY <1>1, StutterVars DEF updateRegistrationPriority
<1>2. CASE i \in Registered /\ from = to
  <2>1. UNCHANGED vars
    BY <1>2 DEF updateRegistrationPriority
  <2> QED BY <2>1, StutterVars DEF vars
<1>3. CASE i \in Registered /\ from # to
  <2>1. Found(i)
    BY <1>3 DEF IInv, LookupBacked
  <2>2. /\ scheduler_priority_queue' = (IF p THEN moved ELSE left)
        /\ scheduler_normal_queue' = (IF p THEN left ELSE moved)
        /\ scheduler_is_priority_lookup' =
             [scheduler_is_priority_lookup EXCEPT ![i] = to]
    BY <1>3, <2>1 DEF updateRegistrationPriority
  <2>3. /\ p => to = "priority" /\ from = "normal"
        /\ ~ p => to = "normal" /\ from = "priority"
    BY <1>3 DEF IInv, TypeOK, Registered, QueueOf
  <2>4. /\ Queue(from) \in Seq(Entries) /\ place \in 1 .. Len(Queue(from))
        /\ Queue(from)[place] \in Entries
        /\ Queue(from)[place].id = i
        /\ RegisteredEntry(i) = Queue(from)[place]
    BY <2>1, EntryFound DEF IInv
  <2>5. Queue(to) \in Seq(Entries)
    BY DEF IInv, TypeOK, Queue
  <2>6. /\ scheduler_is_priority_lookup'[i] = to /\ i \in Registered'
        /\ LookupKept(i)
    BY <2>2, <2>3 DEF IInv, TypeOK, Registered, LookupKept
  <2> HIDE DEF from, to, place
  <2>7. /\ First(moved, i) = RegisteredEntry(i)
        /\ \A j : j # i /\ InQueue(Queue(to), j) =>
             First(moved, j) = First(Queue(to), j)
    BY <2>4, <2>5, FirstCons
  <2>8. \A j : j # i /\ InQueue(Queue(from), j) =>
             First(left, j) = First(Queue(from), j)
    BY <2>4, FirstRemoveAt
  <2> HIDE DEF moved, left
  <2>9. R!OthersKept(i)
    <3>1. FirstsKept(i)
      BY <2>2, <2>3, <2>7, <2>8 DEF FirstsKept, Queue
    <3> QED BY <2>6, <3>1, OthersKept
  <2>10. RegisteredEntry(i)' = RegisteredEntry(i)
    <3>1. RegisteredEntry(i)' = First(moved, i)
      BY <2>2, <2>3, <2>6 DEF RegisteredEntry, First, Queue
    <3> QED BY <2>7, <3>1
  <2>11. /\ i \in DOMAIN registrations /\ i \in DOMAIN registrations'
         /\ registrations[i] = Registration(i)
         /\ registrations'[i] = Registration(i)'
    BY <1>3, <2>6 DEF registrations
  <2>12. /\ registrations'[i].priority \in R!Names
         /\ registrations'[i].handler = registrations[i].handler
         /\ registrations'[i].persist = registrations[i].persist
    BY <2>3, <2>6, <2>10, <2>11 DEF Registration, R!Names
  <2> QED BY <2>9, <2>11, <2>12 DEF R!ChangePriority
<1> QED BY <1>1, <1>2, <1>3

(***************************************************************************)
(* removeRegistration takes one identifier out of the map; an entry of it  *)
(* that a run left behind does not come back in its place.                 *)
(***************************************************************************)
LEMMA RemoveLeaves ==
  ASSUME IInv, NEW i \in Identifiers, removeRegistration(i)
  PROVE  R!Leave(i) \/ UNCHANGED registrations
<1>1. CASE i \notin Registered
  BY <1>1, StutterVars DEF removeRegistration
<1>2. CASE i \in Registered
  <2> DEFINE name  == scheduler_is_priority_lookup[i]
             place == find_if(Queue(name), i)
             left  == RemoveAt(Queue(name), place)
  <2>1. Found(i)
    BY <1>2 DEF IInv, LookupBacked
  <2>2. /\ SetQueue(name, left)
        /\ scheduler_is_priority_lookup' =
             [scheduler_is_priority_lookup EXCEPT ![i] = "none"]
    BY <1>2, <2>1 DEF removeRegistration
  <2>3. /\ Queue(name) \in Seq(Entries) /\ place \in 1 .. Len(Queue(name))
        /\ Queue(name)[place].id = i
    BY <2>1, EntryFound DEF IInv
  <2> HIDE DEF name, place
  <2>4. \A j : j # i /\ InQueue(Queue(name), j) =>
             First(left, j) = First(Queue(name), j)
    BY <2>3, FirstRemoveAt
  <2> HIDE DEF left
  <2>5. LookupKept(i) /\ FirstsKept(i) /\ i \notin Registered'
    BY <2>2, <2>4 DEF IInv, TypeOK, LookupKept, FirstsKept, SetQueue, Queue,
       Registered
  <2>6. R!OthersKept(i)
    BY <2>5, OthersKept
  <2> QED BY <1>2, <2>5, <2>6 DEF R!Leave, registrations
<1> QED BY <1>1, <1>2

(***************************************************************************)
(* The end of a run that does not persist takes its identifier out of the  *)
(* map, when it is still, or again, in it.                                 *)
(***************************************************************************)
LEMMA ReturnLeaves ==
  ASSUME IInv, callbackReturns
  PROVE  (\E i \in Identifiers : R!Leave(i)) \/ UNCHANGED registrations
<1> DEFINE i == frames[1].id
<1>1. UNCHANGED queueVars
  BY DEF callbackReturns
<1>2. CASE frames[1].persist
  BY <1>1, <1>2, Stutter DEF callbackReturns
<1>3. CASE ~ frames[1].persist
  <2>1. i \in Identifiers
    <3>1. 1 \in 1 .. Len(frames)
      BY EmptySeq, LenProperties DEF IInv, TypeOK, callbackReturns
    <3>2. frames[1] \in Frames
      BY <3>1, ElementOfSeq DEF IInv, TypeOK
    <3> QED BY <3>2 DEF Frames
  <2>2. scheduler_is_priority_lookup' =
          [scheduler_is_priority_lookup EXCEPT ![i] = "none"]
    BY <1>3 DEF callbackReturns
  <2> HIDE DEF i
  <2>3. CASE i \notin Registered
    <3>1. UNCHANGED scheduler_is_priority_lookup
      BY <2>1, <2>2, <2>3 DEF IInv, TypeOK, Registered
    <3> QED BY <1>1, <3>1, Stutter
  <2>4. CASE i \in Registered
    <3>1. LookupKept(i) /\ FirstsKept(i) /\ i \notin Registered'
      BY <1>1, <2>2 DEF IInv, TypeOK, LookupKept, FirstsKept, queueVars, Registered
    <3>2. R!OthersKept(i)
      BY <2>1, <3>1, OthersKept
    <3> QED BY <2>1, <2>4, <3>1, <3>2 DEF R!Leave, registrations
  <2> QED BY <2>3, <2>4
<1> QED BY <1>2, <1>3

----------------------------------------------------------------------------
(***************************************************************************)
(* Every step of the scheduler is a step of the map or leaves it alone.    *)
(***************************************************************************)
LEMMA StepsMap ==
  ASSUME IInv, [Next]_vars
  PROVE  [R!RegistryNext]_registrations
<1>1. ASSUME NEW i \in Identifiers, NEW f \in Callables \cup {NullPtr},
             NEW p \in BOOLEAN, NEW s \in BOOLEAN,
             enqueueRegistration(i, f, p, s)
      PROVE  R!Enter(i) \/ UNCHANGED registrations
  <2> DEFINE h == setBoundOrFreeFunction(handler_callback, f)
  <2>1. h \in Handlers
    BY HandlerTypes
  <2>2. enqueueShared(i, h, p, s)
    BY <1>1 DEF enqueueRegistration
  <2> HIDE DEF h
  <2> QED BY <2>1, <2>2, EnqueueEnters
<1>2. ASSUME NEW i \in Identifiers, NEW f \in Callables, NEW a \in Arguments,
             NEW p \in BOOLEAN, NEW s \in BOOLEAN,
             enqueueRegistrationParameters(i, f, a, p, s)
      PROVE  R!Enter(i) \/ UNCHANGED registrations
  <2> DEFINE h == setFunction(f, a)
  <2>1. h \in Handlers
    BY HandlerTypes
  <2>2. enqueueShared(i, h, p, s)
    BY <1>2 DEF enqueueRegistrationParameters
  <2> HIDE DEF h
  <2> QED BY <2>1, <2>2, EnqueueEnters
<1>3. ASSUME NEW i \in Identifiers, i \in Registered
      PROVE  RegisteredEntry(i).handler \in Handlers
  BY <1>3, Mapped DEF Entries
<1>4. ASSUME NEW i \in Identifiers, NEW f \in Callables \cup {NullPtr},
             updateRegistration(i, f)
      PROVE  R!ChangeHandler(i) \/ UNCHANGED registrations
  <2> DEFINE h == setBoundOrFreeFunction(RegisteredEntry(i).handler, f)
  <2>1. i \in Registered => h \in Handlers
    BY <1>3, HandlerTypes
  <2>2. updateShared(i, h, TRUE)
    BY <1>4 DEF updateRegistration
  <2> HIDE DEF h
  <2> QED BY <2>1, <2>2, UpdateChangesHandler
<1>5. ASSUME NEW i \in Identifiers, NEW f \in Callables \cup {NullPtr},
             NEW a \in Arguments, updateRegistrationParameters(i, f, a)
      PROVE  R!ChangeHandler(i) \/ UNCHANGED registrations
  <2>1. CASE f = NullPtr
    <3> DEFINE old == RegisteredEntry(i).handler
               h == setParameters(old, a)
               legal == setParametersAsserts(old)
    <3>1. updateShared(i, h, legal)
      BY <1>5, <2>1 DEF updateRegistrationParameters
    <3>2. legal \in BOOLEAN
      BY DEF setParametersAsserts
    <3>3. i \in Registered => h \in Handlers
      BY <1>3, HandlerTypes
    <3> HIDE DEF h, legal
    <3> QED BY <3>1, <3>2, <3>3, UpdateChangesHandler
  <2>2. CASE f # NullPtr
    <3> DEFINE h == setFunction(f, a)
    <3>1. updateShared(i, h, TRUE)
      BY <1>5, <2>2 DEF updateRegistrationParameters
    <3>2. h \in Handlers
      BY <2>2, HandlerTypes
    <3> HIDE DEF h
    <3> QED BY <3>1, <3>2, UpdateChangesHandler
  <2> QED BY <2>1, <2>2
<1>6. ASSUME clean PROVE R!LeaveAll
  BY <1>6 DEF clean, R!LeaveAll, registrations, Registered
<1>7. ASSUME run PROVE UNCHANGED registrations
  <2>1. UNCHANGED <<queueVars, scheduler_is_priority_lookup>>
    BY <1>7 DEF run, runOperationInline, Undefined, Abort, stateVars
  <2> QED BY <2>1, Stutter
<1>8. ASSUME NEW m \in Modes, setAlgorithmMode(m) PROVE UNCHANGED registrations
  BY <1>8, Stutter DEF setAlgorithmMode
<1>9. ASSUME UNCHANGED vars PROVE UNCHANGED registrations
  BY <1>9, StutterVars DEF vars
<1> HIDE DEF registrations
<1> QED BY <1>1, <1>2, <1>4, <1>5, <1>6, <1>7, <1>8, <1>9,
        PriorityChangesPriority, RemoveLeaves, ReturnLeaves
        DEF Next, R!RegistryNext

(***************************************************************************)
(* scheduler_runslice implements the plain map of registrations: through   *)
(* re-entrant runs and stale entries, an operation changes the             *)
(* registration it names, in the part it names, and no other.              *)
(***************************************************************************)
THEOREM SchedulerImplementsRegistry == Spec => ImplementsRegistry
<1>1. Init => R!RegistryInit
  BY DEF Init, R!RegistryInit, registrations, Registered
<1>2. IInv /\ [Next]_vars => [R!RegistryNext]_registrations
  BY StepsMap
<1> HIDE DEF registrations
<1> QED BY <1>1, <1>2, Invariance, PTL DEF Spec, R!Spec, ImplementsRegistry

============================================================================
