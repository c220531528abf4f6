----------------------------- MODULE MCRouting -----------------------------
(***************************************************************************)
(* Routing and HashTag for TLC: all slots of all sizes of server, and, on  *)
(* a server with one shard, all keys.  The two do not depend on each other,*)
(* so the products of slots and keys are not visited.                      *)
(***************************************************************************)
EXTENDS Routing, HashTag

MCInit == Init /\ TagInit

MCNext ==
    \/ Next /\ key = <<>> /\ UNCHANGED key
    \/ n = 1 /\ slot = 0 /\ TagNext /\ UNCHANGED vars

MCSpec == MCInit /\ [][MCNext]_<<vars, key>>
============================================================================
