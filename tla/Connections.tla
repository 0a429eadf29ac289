---------------------------- MODULE Connections ----------------------------
(***************************************************************************)
(* What the instances of network_instance promise one another: each has at *)
(* most one connection, opened by itself and closed by itself, and there   *)
(* is no connection besides these.                                         *)
(***************************************************************************)
CONSTANTS Instances, Descriptors

VARIABLES
  connection, \* the descriptors of each instance's connection: one or none
  open        \* the descriptors that are connections

ConnectionsInit ==
  /\ connection = [i \in Instances |-> {}]
  /\ open = {}

Establish(i, d) ==
  /\ connection[i] = {}
  /\ d \notin open
  /\ connection' = [connection EXCEPT ![i] = {d}]
  /\ open' = open \cup {d}

Terminate(i) ==
  /\ connection[i] # {}
  /\ connection' = [connection EXCEPT ![i] = {}]
  /\ open' = open \ connection[i]

ConnectionsNext ==
  \E i \in Instances : Terminate(i) \/ \E d \in Descriptors : Establish(i, d)

Spec == ConnectionsInit /\ [][ConnectionsNext]_<<connection, open>>
============================================================================
