------------------------------ MODULE Routing ------------------------------
(***************************************************************************)
(* Which shard a slot belongs to: the formula by which every reactor routes *)
(* a key (core/routing.h), and the table of slot ranges the CLUSTER SLOTS   *)
(* reply gives to clients (protocol/resp_handler.h), who then connect to    *)
(* the port of the shard they found.  A connection to such a port executes *)
(* its commands on that shard, whatever the formula says.                  *)
(*                                                                         *)
(* The state is a client's walk over the slots of a server with n shards.  *)
(***************************************************************************)
EXTENDS Integers

CONSTANTS Slots,      \* 16384
          MaxShards   \* bound: sizes of server considered

ASSUME SlotsAssumption  == Slots \in Nat \ {0}
ASSUME ShardsAssumption == MaxShards \in 1..Slots

VARIABLES n, slot
vars == <<n, slot>>

\* Mutant of shard_for_slot: slots dealt out in blocks of Slots / n.
blocks_of(k, m) == k \div (Slots \div m)

\* The product is computed in 64 bits and cannot wrap.
shard_for_slot(k, m) == (k * m) \div Slots

\* Mutant of slot_end: ranges share their ends.
slot_end_shared(sid, m) == (Slots * (sid + 1)) \div m

slot_start(sid, m) == (Slots * sid) \div m
slot_end(sid, m)   == (Slots * (sid + 1)) \div m - 1

\* The shards whose range in the CLUSTER SLOTS reply holds slot k.
Announced(k, m) ==
    {sid \in 0..m-1 : slot_start(sid, m) <= k /\ k <= slot_end(sid, m)}

Init == n \in 1..MaxShards /\ slot = 0
Next == slot + 1 < Slots /\ slot' = slot + 1 /\ UNCHANGED n
Spec == Init /\ [][Next]_vars

---------------------------------------------------------------------------

\* Type invariant.
TypeOK == n \in 1..MaxShards /\ slot \in 0..Slots-1

\* CLUSTER SLOTS announces every slot, and each one for one shard only.
Partition == \E sid \in 0..n-1 : Announced(slot, n) = {sid}

\* The formula sends every slot to a shard that exists: the announced one or
\* the one before it.
RoutesNearby ==
    /\ shard_for_slot(slot, n) \in 0..n-1
    /\ \A sid \in Announced(slot, n) : shard_for_slot(slot, n) \in {sid - 1, sid}

\* When the number of shards divides the number of slots, formula and table
\* agree.
AgreesWhenEven ==
    Slots % n = 0 => Announced(slot, n) = {shard_for_slot(slot, n)}
=============================================================================
