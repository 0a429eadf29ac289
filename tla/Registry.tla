------------------------------ MODULE Registry ------------------------------
(***************************************************************************)
(* What the registration interface of scheduler_runslice promises: a       *)
(* partial map from identifiers to registrations.  An identifier is taken  *)
(* at most once, an update changes one registration and only the part it   *)
(* names, and nothing but a removal, the end of a run or clean() loses one.*)
(***************************************************************************)
EXTENDS HandlerCallback

CONSTANT Identifiers

VARIABLE registrations

Names == {"priority", "normal"}

Registrations == [priority : Names, persist : BOOLEAN, handler : Handlers]

(***************************************************************************)
(* A step that touches the registration of i and of no other identifier.   *)
(***************************************************************************)
OthersKept(i) ==
  /\ DOMAIN registrations' \ {i} = DOMAIN registrations \ {i}
  /\ \A j \in DOMAIN registrations \ {i} : registrations'[j] = registrations[j]

RegistryInit == DOMAIN registrations = {}

Enter(i) ==
  /\ i \notin DOMAIN registrations
  /\ i \in DOMAIN registrations'
  /\ registrations'[i] \in Registrations
  /\ OthersKept(i)

ChangeHandler(i) ==
  /\ i \in DOMAIN registrations /\ i \in DOMAIN registrations'
  /\ registrations'[i].handler \in Handlers
  /\ registrations'[i].priority = registrations[i].priority
  /\ registrations'[i].persist = registrations[i].persist
  /\ OthersKept(i)

ChangePriority(i) ==
  /\ i \in DOMAIN registrations /\ i \in DOMAIN registrations'
  /\ registrations'[i].priority \in Names
  /\ registrations'[i].handler = registrations[i].handler
  /\ registrations'[i].persist = registrations[i].persist
  /\ OthersKept(i)

Leave(i) ==
  /\ i \in DOMAIN registrations
  /\ i \notin DOMAIN registrations'
  /\ OthersKept(i)

LeaveAll == DOMAIN registrations' = {}

RegistryNext ==
  \/ \E i \in Identifiers :
       Enter(i) \/ ChangeHandler(i) \/ ChangePriority(i) \/ Leave(i)
  \/ LeaveAll

Spec == RegistryInit /\ [][RegistryNext]_registrations
============================================================================
