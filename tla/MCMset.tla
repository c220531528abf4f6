------------------------------ MODULE MCMset ------------------------------
(***************************************************************************)
(* Instances of Mset for TLC.                                              *)
(***************************************************************************)
EXTENDS Mset

CONSTANTS k1, k2, k3, t1, t2, t3, c1, c2, c3

\* A ring: three shards with a key and a connection each, three MSETs that
\* each want the key of their own shard and that of the next one.
RingOwner == [k \in Keys |-> CASE k = k1 -> 0 [] k = k2 -> 1 [] k = k3 -> 2]
RingHome  == [c \in Conns |-> CASE c = c1 -> 0 [] c = c2 -> 1 [] c = c3 -> 2]
RingProg  == [c \in Conns |-> <<CASE c = c1 -> t1 [] c = c2 -> t2 [] c = c3 -> t3>>]
RingPairs == [t \in Txns |-> CASE t = t1 -> <<k1, k2>>
                               [] t = t2 -> <<k2, k3>>
                               [] t = t3 -> <<k3, k1>>]

\* Two shards, k2 on shard 1; three MSETs that all want k1 and k2.
PairOwner == [k \in Keys |-> IF k = k2 THEN 1 ELSE 0]
PairHome  == [c \in Conns |-> IF c = c1 THEN 0 ELSE 1]
PairPairs == [t \in Txns |-> IF t = t2 THEN <<k2, k1>> ELSE <<k1, k2>>]

\* The same shards; c1 pipelines t1 and t2, c2 sends t3.  Repeated keys.
PipeProg  == [c \in Conns |-> IF c = c1 THEN <<t1, t2>> ELSE <<t3>>]
DupPairs  == [t \in Txns |-> CASE t = t1 -> <<k1, k2, k1>>
                               [] t = t2 -> <<k2, k2>>
                               [] t = t3 -> <<k2, k2, k1>>]
============================================================================
