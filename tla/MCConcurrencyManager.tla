----------------------- MODULE MCConcurrencyManager -----------------------
(***************************************************************************)
(* Instances of ConcurrencyManager for TLC.                                *)
(***************************************************************************)
EXTENDS ConcurrencyManager

Kind(join, permanent, reoccuring, parameters) ==
  [join |-> join, permanent |-> permanent, reoccuring |-> reoccuring,
   parameters |-> parameters]

(***************************************************************************)
(* Joined and detached tasks that use no common variable.                  *)
(***************************************************************************)
PlainKinds ==
  {Kind(TRUE, FALSE, FALSE, {}), Kind(FALSE, FALSE, FALSE, {})}

(***************************************************************************)
(* A joined task, a detached one and a permanent one, which use every      *)
(* common variable.                                                        *)
(***************************************************************************)
SharingKinds ==
  {Kind(TRUE, FALSE, FALSE, Lookups), Kind(FALSE, FALSE, FALSE, Lookups),
   Kind(TRUE, TRUE, FALSE, Lookups)}

Symmetry == Permutations(Callers)

(***************************************************************************)
(* Nobody changes the back of the queue while a caller is inside a call.   *)
(***************************************************************************)
Orderly == Operations \ Reordering
============================================================================
