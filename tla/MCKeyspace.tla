----------------------------- MODULE MCKeyspace -----------------------------
(***************************************************************************)
(* Three keys that share the only bucket of the smallest table.  k2 and k3 *)
(* stay together when it is doubled; k3 is a large object.  Two addresses  *)
(* per key.                                                                *)
(***************************************************************************)
EXTENDS Keyspace

CONSTANTS k1, k2, k3

MCHash == [k \in Keys |-> CASE k = k1 -> 0 [] k = k2 -> 1 [] k = k3 -> 3]
MCHome == [o \in Objs |-> CASE o % 3 = 1 -> k1 [] o % 3 = 2 -> k2 [] o % 3 = 0 -> k3]
MCClass == [k \in Keys |-> IF k = k3 THEN 1 ELSE 0]
=============================================================================
