--------------------------- MODULE RoutingProofs ---------------------------
(***************************************************************************)
(* Routing for any number of slots and shards.  The argument: sid is       *)
(* announced for slot k of m shards exactly if                             *)
(*        Slots * sid <= (k + 1) * m - 1 < Slots * (sid + 1)               *)
(* so the announced shard is ((k + 1) * m - 1) \div Slots, which compares  *)
(* directly with the formula's (k * m) \div Slots.                         *)
(***************************************************************************)
EXTENDS Routing, HashTag, TLAPS

\* A quotient is determined by its two bounds.
LEMMA DivBounds ==
    ASSUME NEW a \in Nat, NEW b \in Nat \ {0}
    PROVE  /\ a \div b \in Nat
           /\ b * (a \div b) <= a
           /\ a < b * (a \div b) + b
OBVIOUS

\* A quotient is determined by its bounds, as in the slot arithmetic of the
\* routing code.
LEMMA DivUnique ==
    ASSUME NEW a \in Nat, NEW b \in Nat \ {0}, NEW q \in Nat,
           b * q <= a, a < b * q + b
    PROVE  a \div b = q
<1> DEFINE d == a \div b
<1>1. d \in Nat /\ b * d <= a /\ a < b * d + b
  BY DivBounds
<1>2. b * d < b * (q + 1) /\ b * q < b * (d + 1)
  BY <1>1
<1>3. d < q + 1 /\ q < d + 1
  BY <1>1, <1>2
<1> QED
  BY <1>1, <1>3

\* a \div m <= k compares a with a multiple of m.
LEMMA FloorAtMost ==
    ASSUME NEW a \in Nat, NEW m \in Nat \ {0}, NEW k \in Nat
    PROVE  a \div m <= k <=> a < (k + 1) * m
<1> DEFINE d == a \div m
<1>1. d \in Nat /\ m * d <= a /\ a < m * d + m
  BY DivBounds
<1>2. ASSUME d <= k PROVE a < (k + 1) * m
  <2>1. m * d <= m * k
    BY <1>1, <1>2
  <2> QED
    BY <1>1, <2>1
<1>3. ASSUME a < (k + 1) * m PROVE d <= k
  <2>1. m * d < m * (k + 1)
    BY <1>1, <1>3
  <2>2. d < k + 1
    BY <1>1, <2>1
  <2> QED
    BY <1>1, <2>2
<1> QED
  BY <1>2, <1>3

\* The shard the CLUSTER SLOTS reply names for a slot.
AnnouncedShard(k, m) == ((k + 1) * m - 1) \div Slots

\* A slot lies in the range CLUSTER SLOTS announces for a shard exactly when
\* the products compare this way: no division is left.
LEMMA AnnouncedIff ==
    ASSUME NEW k \in 0..Slots-1, NEW m \in Nat \ {0}, NEW sid \in Nat
    PROVE  /\ slot_start(sid, m) <= k <=> Slots * sid < (k + 1) * m
           /\ k <= slot_end(sid, m) <=> (k + 1) * m <= Slots * (sid + 1)
<1>1. k \in Nat /\ Slots * sid \in Nat /\ Slots * (sid + 1) \in Nat
  BY SlotsAssumption
<1>2. (Slots * sid) \div m <= k <=> Slots * sid < (k + 1) * m
  BY <1>1, FloorAtMost
<1>3. (Slots * (sid + 1)) \div m <= k <=> Slots * (sid + 1) < (k + 1) * m
  BY <1>1, FloorAtMost
<1>4. (Slots * (sid + 1)) \div m \in Nat
  BY <1>1, DivBounds
<1>5. (k + 1) * m \in Nat
  BY <1>1
<1>6. k <= slot_end(sid, m) <=> ~((Slots * (sid + 1)) \div m <= k)
  BY <1>1, <1>4 DEF slot_end
<1> QED
  BY <1>1, <1>2, <1>3, <1>5, <1>6 DEF slot_start

\* The ranges CLUSTER SLOTS announces hold every slot, each one once.
LEMMA AnnouncedIs ==
    ASSUME NEW k \in 0..Slots-1, NEW m \in Nat \ {0}
    PROVE  /\ AnnouncedShard(k, m) \in 0..m-1
           /\ Announced(k, m) = {AnnouncedShard(k, m)}
<1> DEFINE p == (k + 1) * m - 1
           d == p \div Slots
<1>1. p \in Nat /\ p < Slots * m
  <2>1. k \in Nat /\ k + 1 <= Slots /\ Slots \in Nat
    BY SlotsAssumption
  <2>2. (k + 1) * m <= Slots * m
    BY <2>1
  <2>3. (k + 1) * m >= m
    BY <2>1
  <2> QED
    BY <2>1, <2>2, <2>3
<1>2. d \in Nat /\ Slots * d <= p /\ p < Slots * d + Slots
  BY <1>1, DivBounds, SlotsAssumption
<1>3. d \in 0..m-1
  <2>1. Slots * d < Slots * m
    BY <1>1, <1>2, SlotsAssumption
  <2>2. d < m
    BY <1>2, <2>1, SlotsAssumption
  <2> QED
    BY <1>2, <2>2
<1>4. d \in Announced(k, m)
  <2>1. Slots * d < (k + 1) * m /\ (k + 1) * m <= Slots * (d + 1)
    BY <1>1, <1>2, SlotsAssumption
  <2> QED
    BY <1>2, <1>3, <2>1, AnnouncedIff DEF Announced
<1>5. ASSUME NEW sid \in Announced(k, m) PROVE sid = d
  <2>1. sid \in Nat /\ Slots * sid < (k + 1) * m /\ (k + 1) * m <= Slots * (sid + 1)
    BY AnnouncedIff DEF Announced
  <2>2. Slots * sid <= p /\ p < Slots * sid + Slots
    BY <1>1, <2>1, SlotsAssumption
  <2> QED
    BY <1>1, <2>1, <2>2, DivUnique, SlotsAssumption
<1> QED
  BY <1>3, <1>4, <1>5 DEF AnnouncedShard

\* The walk stays among the slots, and the number of shards does not change.
THEOREM Typed == Spec => []TypeOK
<1>1. Init => TypeOK
  BY SlotsAssumption, ShardsAssumption DEF Init, TypeOK
<1>2. TypeOK /\ [Next]_vars => TypeOK'
  BY SlotsAssumption DEF TypeOK, Next, vars
<1> QED
  BY <1>1, <1>2, PTL DEF Spec

\* Whatever the number of shards, the CLUSTER SLOTS reply announces each slot
\* for exactly one shard.
THEOREM SlotsPartitioned == Spec => []Partition
<1>1. TypeOK => Partition
  <2> SUFFICES ASSUME TypeOK PROVE Partition
    OBVIOUS
  <2>1. n \in Nat \ {0} /\ slot \in 0..Slots-1
    BY ShardsAssumption DEF TypeOK
  <2> QED
    BY <2>1, AnnouncedIs DEF Partition
<1> QED
  BY <1>1, Typed, PTL

\* Whatever the number of shards, shard_for_slot names the announced shard or
\* the one before it.
THEOREM RoutedNearby == Spec => []RoutesNearby
<1>1. TypeOK => RoutesNearby
  <2> SUFFICES ASSUME TypeOK PROVE RoutesNearby
    OBVIOUS
  <2> DEFINE a == slot * n
             p == (slot + 1) * n - 1
             f == a \div Slots
             d == p \div Slots
  <2>1. /\ n \in Nat \ {0} /\ n <= Slots /\ slot \in 0..Slots-1
        /\ Slots \in Nat \ {0} /\ slot \in Nat
    BY ShardsAssumption, SlotsAssumption DEF TypeOK
  <2>2. a \in Nat /\ p \in Nat /\ a <= p /\ p < a + Slots
    BY <2>1
  <2>3. f \in Nat /\ Slots * f <= a /\ a < Slots * f + Slots
    BY <2>1, <2>2, DivBounds
  <2>4. d \in Nat /\ Slots * d <= p /\ p < Slots * d + Slots
    BY <2>1, <2>2, DivBounds
  <2>5. f <= d
    <3>1. Slots * f < Slots * (d + 1)
      BY <2>1, <2>2, <2>3, <2>4
    <3>2. f < d + 1
      BY <2>1, <2>3, <2>4, <3>1
    <3> QED
      BY <2>3, <2>4, <3>2
  <2>6. d <= f + 1
    <3>1. Slots * d < Slots * (f + 2)
      BY <2>1, <2>2, <2>3, <2>4
    <3>2. d < f + 2
      BY <2>1, <2>3, <2>4, <3>1
    <3> QED
      BY <2>3, <2>4, <3>2
  <2>7. d \in 0..n-1 /\ Announced(slot, n) = {d}
    BY <2>1, AnnouncedIs DEF AnnouncedShard
  <2>8. shard_for_slot(slot, n) = f
    BY DEF shard_for_slot
  <2>9. f \in 0..n-1 /\ f \in {d - 1, d}
    BY <2>1, <2>3, <2>4, <2>5, <2>6, <2>7
  <2> QED
    BY <2>7, <2>8, <2>9 DEF RoutesNearby
<1> QED
  BY <1>1, Typed, PTL

\* The formula and the table agree on every slot whenever the number of shards
\* divides the number of slots.
THEOREM AgreementWhenEven == Spec => []AgreesWhenEven
<1>1. TypeOK => AgreesWhenEven
  <2> SUFFICES ASSUME TypeOK, Slots % n = 0
               PROVE  Announced(slot, n) = {shard_for_slot(slot, n)}
    BY DEF AgreesWhenEven
  <2> DEFINE a == slot * n
             p == (slot + 1) * n - 1
             c == Slots \div n
             q == slot \div c
  <2>1. /\ n \in Nat \ {0} /\ slot \in 0..Slots-1
        /\ Slots \in Nat \ {0} /\ slot \in Nat
    BY ShardsAssumption, SlotsAssumption DEF TypeOK
  <2>2. c \in Nat \ {0} /\ Slots = n * c
    BY <2>1
  <2>3. q \in Nat /\ c * q <= slot /\ slot < c * q + c
    BY <2>1, <2>2, DivBounds
  <2>4. a \in Nat /\ p \in Nat /\ a <= p
    BY <2>1
  <2>5. Slots * q <= a
    <3>1. (c * q) * n <= slot * n
      BY <2>1, <2>2, <2>3
    <3> QED
      BY <2>1, <2>2, <2>3, <3>1
  <2>6. p < Slots * q + Slots
    <3>1. (slot + 1) * n <= (c * q + c) * n
      BY <2>1, <2>2, <2>3
    <3>2. (c * q + c) * n = (n * c) * q + n * c
      BY <2>1, <2>2, <2>3
    <3> QED
      BY <2>1, <2>2, <2>3, <3>1, <3>2
  <2>7. a \div Slots = q /\ p \div Slots = q
    <3>1. Slots * q \in Nat
      BY <2>1, <2>3
    <3>2. a < Slots * q + Slots /\ Slots * q <= p
      BY <2>1, <2>4, <2>5, <2>6, <3>1
    <3> QED
      BY <2>1, <2>3, <2>4, <2>5, <2>6, <3>2, DivUnique
  <2> QED
    BY <2>1, <2>7, AnnouncedIs DEF AnnouncedShard, shard_for_slot
<1> QED
  BY <1>1, Typed, PTL

(* Hash tags, for any alphabet and keys of any length.                     *)

\* The least element of a set of positions of a key.
LEMMA MinPosition ==
    ASSUME NEW S \in SUBSET Nat, NEW m \in S, \A p \in S : m <= p
    PROVE  Min(S) = m
<1>1. Min(S) \in S /\ \A p \in S : Min(S) <= p
  BY Zenon DEF Min
<1> DEFINE x == Min(S)
<1>2. x \in Nat /\ m \in Nat /\ x <= m /\ m <= x
  <2> HIDE DEF x
  <2> QED BY <1>1 DEF x
<1> HIDE DEF x
<1>3. x = m
  BY <1>2
<1> QED
  BY <1>3 DEF x

\* memchr finds the character at j if it is the first one from i on.
LEMMA MemchrFirst ==
    ASSUME NEW s \in Seq(Chars), NEW c, NEW i \in Nat \ {0}, NEW j \in i..Len(s),
           s[j] = c, \A p \in i..j-1 : s[p] # c
    PROVE  memchr(s, c, i) = j
<1> DEFINE at == {p \in i..Len(s) : s[p] = c}
<1>1. at \in SUBSET Nat /\ j \in at /\ \A p \in at : j <= p
  OBVIOUS
<1>2. Min(at) = j
  <2> HIDE DEF at
  <2> QED BY <1>1, MinPosition
<1> QED
  BY <1>1, <1>2 DEF memchr

\* Keys are sequences of characters.
LEMMA KeyTyped == TagSpec => []TagTypeOK
<1>1. TagInit => TagTypeOK
  BY DEF TagInit, TagTypeOK
<1>2. TagTypeOK /\ [TagNext]_key => TagTypeOK'
  BY DEF TagNext, TagTypeOK
<1> QED
  BY <1>1, <1>2, PTL DEF TagSpec

\* For keys of any length over any alphabet: a key with a non-empty hash tag
\* is hashed by its tag alone (slot_for_key), so that keys with one tag share
\* a slot.
THEOREM TaggedCoLocated == TagSpec => []CoLocated
<1>1. TagTypeOK => CoLocated
  <2> SUFFICES ASSUME key \in Seq(Chars), NEW i \in 1..Len(key), NEW j \in 1..Len(key),
                      i + 1 < j, key[i] = Open, key[j] = Close,
                      \A p \in 1..i-1 : key[p] # Open,
                      \A p \in i+1..j-1 : key[p] # Close
               PROVE  hashed(key) = SubSeq(key, i + 1, j - 1)
    BY DEF CoLocated, TagTypeOK
  <2>1. memchr(key, Open, 1) = i
    BY MemchrFirst
  <2>2. memchr(key, Close, i + 1) = j
    BY MemchrFirst
  <2> QED
    BY <2>1, <2>2 DEF hashed
<1> QED
  BY <1>1, KeyTyped, PTL
=============================================================================
