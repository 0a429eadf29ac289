------------------------ MODULE MCRunsliceScheduler ------------------------
(***************************************************************************)
(* Instances of RunsliceScheduler for TLC.  Identifiers are interchangeable*)
(* for the safety properties; the runs of liveness properties do not use   *)
(* the symmetry.                                                           *)
(***************************************************************************)
EXTENDS RunsliceScheduler

Symmetry == Permutations(Identifiers)
============================================================================
