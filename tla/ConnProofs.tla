----------------------------- MODULE ConnProofs -----------------------------
(***************************************************************************)
(* Proofs about Conn and the operators of Pipeline, for any clients, any   *)
(* scripts of requests and any sizes of the ring and the buffers.  The     *)
(* argument: every operation on a connection preserves what holds of one   *)
(* connection; a step works on one connection and leaves the others and    *)
(* their places on the lists alone, so an invariant of one connection and  *)
(* its places is enough.                                                   *)
(***************************************************************************)
EXTENDS Conn, TLAPS

---------------------------------------------------------------------------
(* One connection *)

Fields ==
    {"state", "fd", "sock", "eof", "rst", "edge", "want_write", "sent", "got",
     "nb", "refs", "cap", "len", "parsed", "wbuf", "wbuf_sent", "size", "slots",
     "in", "out", "freed", "over"}
IsConn(c) == c = [x \in Fields |-> c[x]]

\* c and d are connections that differ in the fields of S at most.
Same(c, d, S) == IsConn(d) /\ \A x \in Fields \ S : d[x] = c[x]

SlotType == [state : {"empty", "local", "pending", "done"}, req : Nat, nb : Nat,
             at : Nat]

\* The ring holds the requests in flight, each at its place.
RingOK(c) ==
    /\ c.size \in Nat \ {0} /\ c.in \in Nat /\ c.out \in Nat
    /\ c.out <= c.in /\ c.in <= c.out + c.size
    /\ c.slots \in [0..c.size-1 -> SlotType]
    /\ \A q \in Used(c) : SlotAt(c, q).req = q + 1

\* The replies received, and those in the write buffer, are the first ones.
Writes(got, wbuf, sent, out) ==
    /\ got \in Seq(Nat) /\ wbuf \in Seq(Nat) /\ sent \in 0..Len(wbuf)
    /\ Len(got) + Len(wbuf) - sent = out
    /\ \A i \in 1..Len(got) : got[i] = i
    /\ \A j \in sent+1..Len(wbuf) : wbuf[j] = Len(got) + j - sent
WritesOK(c) == Writes(c.got, c.wbuf, c.wbuf_sent, c.out)

\* The requests in flight that lie in buffer b, and the connection's own
\* reference to the newest one.
Within(c, b) == {q \in Used(c) : SlotAt(c, q).nb = b - 1}
Own(c, b) == IF b = c.nb + 1 /\ c.freed = 0 THEN 1 ELSE 0

\* The counts of the input buffers.
BuffersOK(c) ==
    /\ c.nb \in Nat /\ c.refs \in Seq(Int) /\ Len(c.refs) = c.nb + 1
    /\ c.cap \in Nat /\ c.len \in Nat /\ c.parsed \in Nat /\ c.parsed <= c.len
    /\ c.freed \in Nat
    /\ \A q \in Used(c) : SlotAt(c, q).nb <= c.nb
    /\ c.freed < 2 =>
          \A b \in 1..c.nb+1 : c.refs[b] = Cardinality(Within(c, b)) + Own(c, b)

ConnOK(c) == IsConn(c) /\ RingOK(c) /\ WritesOK(c) /\ BuffersOK(c)

---------------------------------------------------------------------------
(* The ring *)

\* Multiplication by a natural number is monotone.
LEMMA TimesMono ==
    ASSUME NEW n \in Nat, NEW a \in Int, NEW b \in Int, a <= b
    PROVE  n * a <= n * b
<1>1. b - a \in Nat
  OBVIOUS
<1>2. n * (b - a) \in Nat
  BY <1>1
<1>3. n * (b - a) = n * b - n * a
  OBVIOUS
<1> QED BY <1>2, <1>3

\* Sequence numbers less than the size of the ring apart have different places
\* in it.
LEMMA PlacesDiffer ==
    ASSUME NEW n \in Nat \ {0}, NEW a \in Nat, NEW b \in Nat, a < b, b < a + n
    PROVE  a % n # b % n
<1>1. SUFFICES ASSUME a % n = b % n PROVE FALSE
  BY Zenon
<1>2. PICK p \in Int : p = a \div n
  OBVIOUS
<1>3. PICK q \in Int : q = b \div n
  OBVIOUS
<1>4. a = n * p + (a % n) /\ b = n * q + (b % n) /\ a % n \in Nat
  BY <1>2, <1>3
<1>5. n * q - n * p = b - a /\ n * p \in Int /\ n * q \in Int
  BY <1>1, <1>4
<1>6. CASE q <= p
  <2>1. n * q <= n * p
    BY <1>6, TimesMono, Zenon
  <2> QED BY <1>5, <2>1
<1>7. CASE p < q
  <2>1. n * (p + 1) <= n * q
    BY <1>7, TimesMono
  <2>2. n * (p + 1) = n * p + n
    OBVIOUS
  <2> QED BY <1>5, <2>1, <2>2
<1> QED BY <1>6, <1>7

\* A place in the ring.
LEMMA PlaceInRing ==
    ASSUME NEW n \in Nat \ {0}, NEW a \in Nat
    PROVE  a % n \in 0..n-1
  OBVIOUS

\* The types of the ring.
LEMMA RingTypes ==
    ASSUME NEW c, RingOK(c)
    PROVE  /\ c.size \in Nat \ {0} /\ c.in \in Nat /\ c.out \in Nat
           /\ c.out <= c.in /\ c.in <= c.out + c.size
           /\ \A q \in Used(c) : q \in Nat /\ c.out <= q /\ q < c.in
<1>1. /\ c.size \in Nat \ {0} /\ c.in \in Nat /\ c.out \in Nat
      /\ c.out <= c.in /\ c.in <= c.out + c.size
  BY Zenon DEF RingOK
<1> QED BY <1>1 DEF Used

\* The places of the ring, and that no two requests share one.
LEMMA RingPlaces ==
    ASSUME NEW c, RingOK(c)
    PROVE  /\ c.slots \in [0..c.size-1 -> SlotType]
           /\ \A q \in Nat : q % c.size \in 0..c.size-1
           /\ \A q \in Used(c) : SlotAt(c, q) \in SlotType
           /\ \A p, q \in Nat : p # q /\ p < q + c.size /\ q < p + c.size
                                => p % c.size # q % c.size
<1>1. \A q \in Nat : q % c.size \in 0..c.size-1
  BY RingTypes, PlaceInRing, Zenon
<1>2. ASSUME NEW q \in Used(c) PROVE SlotAt(c, q) \in SlotType
  BY <1>1, RingTypes, Zenon DEF SlotAt, Index, RingOK
<1>3. ASSUME NEW p \in Nat, NEW q \in Nat, p # q, p < q + c.size, q < p + c.size
      PROVE  p % c.size # q % c.size
  BY <1>3, RingTypes, PlacesDiffer
<1> QED BY <1>1, <1>2, <1>3, Zenon DEF RingOK

\* net_pipeline_resize keeps every request in flight.
LEMMA ResizedSlots ==
    ASSUME NEW c, IsConn(c), RingOK(c)
    PROVE  /\ Same(c, Resized(c), {"size", "slots"})
           /\ Resized(c).size = 2 * c.size
           /\ Resized(c).slots \in [0..2*c.size-1 -> SlotType]
           /\ \A q \in Used(c) : SlotAt(Resized(c), q) = SlotAt(c, q)
<1> DEFINE of(i) == {seq \in Used(c) : seq % (2 * c.size) = i}
           ring == [i \in 0..2*c.size-1 |-> IF of(i) = {} THEN NoSlot
                                            ELSE SlotAt(c, CHOOSE seq \in of(i) : TRUE)]
<1>1. Resized(c) = [c EXCEPT !.size = 2 * c.size, !.slots = ring]
  BY Zenon DEF Resized
<1>2. 2 * c.size \in Nat \ {0}
  BY RingTypes
<1>3. ring \in [0..2*c.size-1 -> SlotType]
  <2>1. NoSlot \in SlotType
    BY Zenon DEF NoSlot, SlotType
  <2>2. ASSUME NEW i, of(i) # {} PROVE SlotAt(c, CHOOSE seq \in of(i) : TRUE) \in SlotType
    BY <2>2, RingPlaces, Zenon
  <2> HIDE DEF of
  <2> QED BY <2>1, <2>2, Zenon
<1>4. ASSUME NEW q \in Used(c) PROVE ring[q % (2 * c.size)] = SlotAt(c, q)
  <2>1. of(q % (2 * c.size)) = {q}
    <3>1. ASSUME NEW p \in Used(c), p % (2 * c.size) = q % (2 * c.size) PROVE p = q
      <4>1. /\ p \in Nat /\ q \in Nat
            /\ p < q + 2 * c.size /\ q < p + 2 * c.size
        BY RingTypes DEF Used
      <4> QED BY <1>2, <3>1, <4>1, PlacesDiffer
    <3> QED BY <3>1, Zenon
  <2>2. q % (2 * c.size) \in 0..2*c.size-1
    BY <1>2, RingTypes, PlaceInRing, Zenon
  <2>3. (CHOOSE seq \in of(q % (2 * c.size)) : TRUE) = q
    <3> HIDE DEF of
    <3> QED BY <2>1, Zenon
  <2> HIDE DEF of
  <2> QED BY <2>1, <2>2, <2>3, Zenon
<1> HIDE DEF ring
<1>5. /\ Same(c, Resized(c), {"size", "slots"})
      /\ Resized(c).size = 2 * c.size /\ Resized(c).slots = ring
  BY <1>1, Zenon DEF IsConn, Fields, Same
<1> QED BY <1>3, <1>4, <1>5, Zenon DEF SlotAt, Index

\* ... and the order of the ring.
LEMMA ResizedRing ==
    ASSUME NEW c, IsConn(c), RingOK(c)
    PROVE  RingOK(Resized(c)) /\ Used(Resized(c)) = Used(c)
<1> DEFINE d == Resized(c)
<1>1. d.in = c.in /\ d.out = c.out
  BY ResizedSlots, Zenon DEF Same, Fields
<1>2. /\ d.size = 2 * c.size /\ d.slots \in [0..2*c.size-1 -> SlotType]
      /\ \A q \in Used(c) : SlotAt(d, q) = SlotAt(c, q)
  BY ResizedSlots, Zenon
<1> HIDE DEF d
<1>3. Used(d) = Used(c)
  BY <1>1, Zenon DEF Used
<1>4. d.size \in Nat \ {0} /\ d.in <= d.out + d.size
  BY <1>1, <1>2, RingTypes
<1>5. RingOK(d)
  BY <1>1, <1>2, <1>3, <1>4, Zenon DEF RingOK
<1> QED BY <1>3, <1>5, Zenon DEF d

\* net_pipeline_enqueue takes a sequence number when the ring has room: every
\* request in flight is then less than a ring's size behind it.
LEMMA Behind ==
    ASSUME NEW in \in Nat, NEW out \in Nat, NEW size \in Nat \ {0}, NEW q \in Nat,
           in <= out + size, in - out # size, out <= q, q < in
    PROVE  q # in /\ in < q + size /\ q < in + size
  OBVIOUS

\* net_pipeline_enqueue: the request takes the place after the last one, and
\* disturbs none that is in flight.
LEMMA EnqueuedSlots ==
    ASSUME NEW c, IsConn(c), RingOK(c), ~Full(c), NEW kind,
           c.nb \in Nat, c.parsed \in Nat, c.len \in Nat,
           c.refs \in Seq(Int), Len(c.refs) = c.nb + 1
    PROVE  LET d == Enqueued(c, kind)
           IN  /\ Same(c, d, {"slots", "refs", "in", "parsed", "len"})
               /\ d.in = c.in + 1
               /\ d.len - d.parsed = c.len - c.parsed - Unit
               /\ \/ d.parsed = c.parsed + Unit /\ d.len = c.len
                  \/ d.parsed = 0 /\ d.len = 0
               /\ d.slots \in [0..c.size-1 -> SlotType]
               /\ d.refs = [c.refs EXCEPT ![c.nb + 1] = @ + 1]
               /\ \A q \in Used(c) : SlotAt(d, q) = SlotAt(c, q)
               /\ SlotAt(d, c.in).req = c.in + 1 /\ SlotAt(d, c.in).nb = c.nb
<1> DEFINE new == [state |-> IF kind = "local" THEN "local" ELSE "pending",
                   req |-> c.in + 1, nb |-> c.nb, at |-> c.parsed]
           ring == [c.slots EXCEPT ![c.in % c.size] = new]
           counts == [c.refs EXCEPT ![c.nb + 1] = @ + 1]
           e == [c EXCEPT !.slots = ring, !.refs = counts, !.in = c.in + 1,
                          !.parsed = c.parsed + Unit]
           d == Enqueued(c, kind)
<1>1. d = Reset(e)
  BY Zenon DEF Enqueued
<1>2. new \in SlotType /\ new.req = c.in + 1 /\ new.nb = c.nb
  BY RingTypes DEF SlotType
<1> HIDE DEF new
<1>3. /\ ring \in [0..c.size-1 -> SlotType] /\ ring[c.in % c.size] = new
      /\ \A i \in 0..c.size-1 : i # c.in % c.size => ring[i] = c.slots[i]
  BY <1>2, RingTypes, RingPlaces, Zenon
<1>4. ASSUME NEW q \in Used(c)
      PROVE  q % c.size \in 0..c.size-1 /\ q % c.size # c.in % c.size
  <2>1. /\ q \in Nat /\ c.in \in Nat /\ q # c.in
        /\ c.in < q + c.size /\ q < c.in + c.size
    <3>1. /\ c.in \in Nat /\ c.out \in Nat /\ c.size \in Nat \ {0}
          /\ c.in <= c.out + c.size /\ c.in - c.out # c.size
          /\ q \in Nat /\ c.out <= q /\ q < c.in
      BY RingTypes, Zenon DEF Full
    <3> QED BY <3>1, Behind, Zenon
  <2> QED BY <2>1, RingPlaces, Zenon
<1> HIDE DEF ring, counts
<1>5. /\ Same(c, e, {"slots", "refs", "in", "parsed"}) /\ e.slots = ring
      /\ e.refs = counts /\ e.in = c.in + 1 /\ e.parsed = c.parsed + Unit
      /\ e.len = c.len
  BY Zenon DEF IsConn, Fields, Same
<1> HIDE DEF e
<1>6. /\ Same(c, d, {"slots", "refs", "in", "parsed", "len"}) /\ d.slots = ring
      /\ d.refs = counts /\ d.in = c.in + 1
      /\ \/ e.parsed = e.len /\ d.parsed = 0 /\ d.len = 0
         \/ e.parsed # e.len /\ d.parsed = e.parsed /\ d.len = e.len
  BY <1>1, <1>5, Zenon DEF Reset, IsConn, Fields, Same
<1>7. d.size = c.size
  BY <1>6, Zenon DEF Same, Fields
<1> HIDE DEF d
<1>8. /\ d.len - d.parsed = c.len - c.parsed - Unit
      /\ \/ d.parsed = c.parsed + Unit /\ d.len = c.len
         \/ d.parsed = 0 /\ d.len = 0
  BY <1>5, <1>6 DEF Unit
<1>9. \A q \in Used(c) : SlotAt(d, q) = SlotAt(c, q)
  BY <1>3, <1>4, <1>6, <1>7, Zenon DEF SlotAt, Index
<1>10. SlotAt(d, c.in).req = c.in + 1 /\ SlotAt(d, c.in).nb = c.nb
  BY <1>2, <1>3, <1>6, <1>7, Zenon DEF SlotAt, Index
<1> QED BY <1>3, <1>6, <1>8, <1>9, <1>10, Zenon DEF d, counts

---------------------------------------------------------------------------
(* Flushing *)

\* Facts that take induction; they are proved where the theorems are.
LeastFact ==
    \A S \in SUBSET Nat : S # {} => \E m \in S : \A x \in S : m <= x
CardFact ==
    /\ Cardinality({}) = 0
    /\ \A a, b \in Int : IsFiniteSet(a..b)
    /\ \A S : IsFiniteSet(S) =>
          /\ Cardinality(S) \in Nat
          /\ \A x : x \notin S => Cardinality(S \cup {x}) = Cardinality(S) + 1
          /\ \A T \in SUBSET S : /\ IsFiniteSet(T)
                                 /\ Cardinality(S \ T) = Cardinality(S) - Cardinality(T)

\* net_pipeline_try_flush stops at the first slot without a reply.
LEMMA FlushEndFacts ==
    ASSUME LeastFact, NEW c, RingOK(c)
    PROVE  /\ FlushEnd(c) \in Nat /\ c.out <= FlushEnd(c) /\ FlushEnd(c) <= c.in
           /\ \A p \in c.out..FlushEnd(c)-1 : Replied(c, p)
           /\ FlushEnd(c) = c.in \/ ~Replied(c, FlushEnd(c))
<1> DEFINE S == {q \in c.out..c.in : q = c.in \/ ~Replied(c, q)}
<1>0. c.in \in Nat /\ c.out \in Nat /\ c.out <= c.in
  BY RingTypes, Zenon
<1>1. S \in SUBSET Nat /\ c.in \in S
  BY <1>0
<1>2. PICK m \in S : \A x \in S : m <= x
  <2> HIDE DEF S
  <2> QED BY <1>1, Zenon DEF LeastFact
<1>3. ASSUME NEW p \in c.out..m-1 PROVE Replied(c, p)
  <2>1. p \in c.out..c.in /\ p < m
    BY <1>0
  <2>2. p \notin S
    <3> HIDE DEF S
    <3> QED BY <1>0, <1>1, <1>2, <2>1
  <2> QED BY <2>1, <2>2, Zenon
<1> DEFINE stop(q) == /\ \A p \in c.out..q-1 : Replied(c, p)
                      /\ q = c.in \/ ~Replied(c, q)
<1>4. \E q \in c.out..c.in : stop(q)
  BY <1>3, Zenon
<1>5. FlushEnd(c) = CHOOSE q \in c.out..c.in : stop(q)
  BY Zenon DEF FlushEnd
<1>6. FlushEnd(c) \in c.out..c.in /\ stop(FlushEnd(c))
  <2> HIDE DEF stop
  <2> QED BY <1>4, <1>5, Zenon
<1> QED BY <1>0, <1>6

\* The slots up to the end are empty, the others are as they were.
LEMMA FlushedSlots ==
    ASSUME NEW c, IsConn(c), RingOK(c), NEW end \in Nat, c.out <= end, end <= c.in
    PROVE  LET d == FlushedTo(c, end)
           IN  /\ Same(c, d, {"wbuf", "refs", "slots", "out"})
               /\ d.out = end
               /\ d.wbuf = c.wbuf \o [i \in 1..end-c.out |-> SlotAt(c, c.out + i - 1).req]
               /\ d.refs = Released(c, c.out..end-1)
               /\ d.slots \in [0..c.size-1 -> SlotType]
               /\ \A q \in end..c.in-1 : SlotAt(d, q) = SlotAt(c, q)
<1> DEFINE new == c.wbuf \o [i \in 1..end-c.out |-> SlotAt(c, c.out + i - 1).req]
           counts == Released(c, c.out..end-1)
           ring == [i \in DOMAIN c.slots |->
                      IF \E q \in c.out..end-1 : Index(c, q) = i THEN NoSlot ELSE c.slots[i]]
           d == FlushedTo(c, end)
<1>1. d = [c EXCEPT !.wbuf = new, !.refs = counts, !.slots = ring, !.out = end]
  BY Zenon DEF FlushedTo, Replies, Cleared
<1>2. ring \in [0..c.size-1 -> SlotType]
  <2>1. NoSlot \in SlotType
    BY Zenon DEF NoSlot, SlotType
  <2> QED BY <2>1, RingPlaces, Zenon
<1>3. ASSUME NEW q \in end..c.in-1 PROVE ring[q % c.size] = c.slots[q % c.size]
  <2>1. q \in Nat
    BY RingTypes
  <2>2. ASSUME NEW p \in c.out..end-1 PROVE p % c.size # q % c.size
    <3>1. /\ p \in Nat /\ p # q /\ p < q + c.size /\ q < p + c.size
      <4>1. /\ c.in \in Nat /\ c.out \in Nat /\ c.size \in Nat \ {0}
            /\ c.in <= c.out + c.size
        BY RingTypes, Zenon
      <4> QED BY <4>1
    <3> QED BY <2>1, <3>1, RingPlaces, Zenon
  <2>3. q % c.size \in DOMAIN c.slots
    BY <2>1, RingPlaces, Zenon
  <2> QED BY <2>2, <2>3, Zenon DEF Index
<1> HIDE DEF new, counts, ring
<1>4. /\ Same(c, d, {"wbuf", "refs", "slots", "out"})
      /\ d.out = end /\ d.wbuf = new /\ d.refs = counts /\ d.slots = ring
  BY <1>1, Zenon DEF IsConn, Fields, Same
<1>5. d.size = c.size
  BY <1>4, Zenon DEF Same, Fields
<1> HIDE DEF d
<1>6. \A q \in end..c.in-1 : SlotAt(d, q) = SlotAt(c, q)
  BY <1>3, <1>4, <1>5, Zenon DEF SlotAt, Index
<1> QED BY <1>2, <1>4, <1>6, Zenon DEF d, new, counts

\* net_pipeline_try_flush leaves the requests behind the flushed ones in
\* their places.
LEMMA FlushedRing ==
    ASSUME NEW c, IsConn(c), RingOK(c), NEW end \in Nat, c.out <= end, end <= c.in
    PROVE  RingOK(FlushedTo(c, end)) /\ Used(FlushedTo(c, end)) = end..c.in-1
<1> DEFINE d == FlushedTo(c, end)
<1>1. d.in = c.in /\ d.size = c.size /\ d.out = end
  BY FlushedSlots DEF Same, Fields
<1>2. /\ d.slots \in [0..c.size-1 -> SlotType]
      /\ \A q \in end..c.in-1 : SlotAt(d, q) = SlotAt(c, q)
  BY FlushedSlots, Zenon
<1> HIDE DEF d
<1>3. /\ c.size \in Nat \ {0} /\ c.in \in Nat /\ c.out \in Nat
      /\ c.in <= c.out + c.size
  BY RingTypes, Zenon
<1>4. Used(d) = end..c.in-1
  BY <1>1, Zenon DEF Used
<1>5. \A q \in end..c.in-1 : q \in Used(c)
  BY <1>3 DEF Used
<1>6. \A q \in end..c.in-1 : SlotAt(d, q).req = q + 1
  BY <1>2, <1>5, Zenon DEF RingOK
<1>7. d.in <= d.out + d.size
  BY <1>1, <1>3
<1>8. RingOK(d)
  BY <1>1, <1>2, <1>3, <1>4, <1>6, <1>7, Zenon DEF RingOK
<1> QED BY <1>4, <1>8, Zenon DEF d

\* One sequence behind another: how TLA+ reads the appends of the code.
LEMMA Joined ==
    ASSUME NEW S, NEW a \in Seq(S), NEW b \in Seq(S)
    PROVE  /\ a \o b \in Seq(S) /\ Len(a \o b) = Len(a) + Len(b)
           /\ \A j \in 1..Len(a)+Len(b) :
                (a \o b)[j] = IF j <= Len(a) THEN a[j] ELSE b[j - Len(a)]
  OBVIOUS

\* A sequence of n numbers behind another sequence.
LEMMA AppendedMore ==
    ASSUME NEW w \in Seq(Nat), NEW n \in Nat, NEW m \in [1..n -> Nat]
    PROVE  /\ w \o m \in Seq(Nat) /\ Len(w \o m) = Len(w) + n
           /\ \A j \in 1..Len(w)+n :
                 (w \o m)[j] = IF j <= Len(w) THEN w[j] ELSE m[j - Len(w)]
<1>1. m \in Seq(Nat) /\ Len(m) = n
  OBVIOUS
<1>2. PICK s \in Seq(Nat) : s = m /\ Len(s) = n
  BY <1>1, Zenon
<1>3. /\ w \o s \in Seq(Nat) /\ Len(w \o s) = Len(w) + n
      /\ \A j \in 1..Len(w)+n :
            (w \o s)[j] = IF j <= Len(w) THEN w[j] ELSE s[j - Len(w)]
  <2>1. /\ w \o s \in Seq(Nat) /\ Len(w \o s) = Len(w) + Len(s)
        /\ \A j \in 1..Len(w)+Len(s) :
              (w \o s)[j] = IF j <= Len(w) THEN w[j] ELSE s[j - Len(w)]
    BY Joined, Zenon
  <2> QED BY <1>2, <2>1, Zenon
<1> QED BY <1>2, <1>3, Zenon

\* The replies are written in the order of the requests.
LEMMA FlushedWrites ==
    ASSUME NEW c, IsConn(c), RingOK(c), WritesOK(c),
           NEW end \in Nat, c.out <= end, end <= c.in
    PROVE  WritesOK(FlushedTo(c, end))
<1> DEFINE d == FlushedTo(c, end)
           more == [i \in 1..end-c.out |-> SlotAt(c, c.out + i - 1).req]
<1>1. d.got = c.got /\ d.wbuf_sent = c.wbuf_sent /\ d.out = end
  BY FlushedSlots DEF Same, Fields
<1>2. d.wbuf = c.wbuf \o more
  BY FlushedSlots, Zenon
<1>3. PICK n \in Nat, o \in Nat : o = c.out /\ n = end - o
  <2>1. c.out \in Nat /\ end - c.out \in Nat
    BY RingTypes
  <2> QED BY <2>1, Zenon
<1>4. /\ c.got \in Seq(Nat) /\ c.wbuf \in Seq(Nat) /\ c.wbuf_sent \in 0..Len(c.wbuf)
      /\ Len(c.got) + Len(c.wbuf) - c.wbuf_sent = o
  BY <1>3, Zenon DEF WritesOK, Writes
<1>5a. PICK lg \in Nat : lg = Len(c.got)
  BY <1>4
<1>5b. PICK lw \in Nat : lw = Len(c.wbuf)
  BY <1>4
<1>5c. PICK ws \in Nat : ws = c.wbuf_sent
  BY <1>4
<1>5. /\ lg = Len(c.got) /\ lw = Len(c.wbuf) /\ ws = c.wbuf_sent /\ ws <= lw
      /\ lg + lw - ws = o
  BY <1>4, <1>5a, <1>5b, <1>5c
<1>5d. ws <= lw /\ lg + lw - ws = o /\ n = end - o
  BY <1>3, <1>5, Zenon
<1>5e. PICK w \in Seq(Nat) : w = c.wbuf
  BY <1>4, Zenon
<1>6. more \in [1..n -> Nat] /\ \A i \in 1..n : more[i] = o + i
  <2>1. ASSUME NEW i \in 1..n PROVE SlotAt(c, o + i - 1).req = o + i
    <3>1. o + i - 1 \in Used(c) /\ (o + i - 1) + 1 = o + i
      <4>1. PICK top \in Nat : top = c.in
        BY RingTypes, Zenon
      <4>2. Used(c) = o..top-1
        BY <1>3, <4>1, Zenon DEF Used
      <4>3. o + i - 1 \in o..top-1 /\ (o + i - 1) + 1 = o + i
        <5>1. n = end - o /\ o <= end /\ end <= top
          BY <1>3, <4>1, Zenon
        <5> QED BY <5>1
      <4> QED BY <4>2, <4>3, Zenon
    <3> QED BY <3>1, Zenon DEF RingOK
  <2>2. \A i \in 1..n : o + i \in Nat
    OBVIOUS
  <2>3. more = [i \in 1..n |-> SlotAt(c, o + i - 1).req]
    BY <1>3, Zenon
  <2> QED BY <2>1, <2>2, <2>3, Zenon
<1> HIDE DEF d, more
<1>7. /\ d.wbuf \in Seq(Nat) /\ Len(d.wbuf) = lw + n
      /\ \A j \in 1..lw+n :
            d.wbuf[j] = IF j <= lw THEN c.wbuf[j] ELSE more[j - lw]
  <2>1. Len(w) = lw
    BY <1>5b, <1>5e, Zenon
  <2>2. /\ w \o more \in Seq(Nat) /\ Len(w \o more) = lw + n
        /\ \A j \in 1..lw+n :
              (w \o more)[j] = IF j <= lw THEN w[j] ELSE more[j - lw]
    BY <1>6, <2>1, AppendedMore, Zenon
  <2> QED BY <1>2, <1>5e, <2>2, Zenon
<1>8. ASSUME NEW j \in ws+1..lw+n PROVE d.wbuf[j] = lg + j - ws
  <2>1. CASE j <= lw
    <3>1. j \in ws+1..lw /\ j \in 1..lw+n
      BY <2>1
    <3>2. c.wbuf[j] = lg + j - ws
      BY <1>5, <3>1, Zenon DEF WritesOK, Writes
    <3> QED BY <1>7, <2>1, <3>1, <3>2, Zenon
  <2>2. CASE j > lw
    <3>1. j - lw \in 1..n /\ j \in 1..lw+n /\ ~(j <= lw)
      BY <2>2
    <3>2. more[j - lw] = o + (j - lw)
      BY <1>6, <3>1, Zenon
    <3>3. d.wbuf[j] = o + (j - lw)
      BY <1>7, <3>1, <3>2, Zenon
    <3>4. o + (j - lw) = lg + j - ws
      BY <1>5d
    <3> QED BY <3>3, <3>4, Zenon
  <2> QED BY <2>1, <2>2
<1>9. ws \in 0..lw+n /\ lg + (lw + n) - ws = end
  BY <1>5d
<1>10. WritesOK(d)
  BY <1>1, <1>4, <1>5, <1>7, <1>8, <1>9, Zenon DEF WritesOK, Writes
<1> QED BY <1>10, Zenon DEF d

---------------------------------------------------------------------------
(* The input buffers *)

\* The requests that lie in a buffer can be counted.
LEMMA WithinFinite ==
    ASSUME CardFact, NEW c, RingOK(c), NEW b
    PROVE  IsFiniteSet(Within(c, b)) /\ Cardinality(Within(c, b)) \in Nat
<1>1. IsFiniteSet(Used(c))
  <2>1. PICK a \in Int, b1 \in Int : a = c.out /\ b1 = c.in - 1
    BY RingTypes
  <2>2. IsFiniteSet(a..b1)
    BY Zenon DEF CardFact
  <2> QED BY <2>1, <2>2, Zenon DEF Used
<1>2. Within(c, b) \in SUBSET Used(c)
  BY Zenon DEF Within
<1> QED BY <1>1, <1>2, Zenon DEF CardFact

\* The counts depend on the requests in flight and on where they lie.
LEMMA BuffersFrame ==
    ASSUME NEW c, NEW d, BuffersOK(c), Used(d) = Used(c),
           \A q \in Used(c) : SlotAt(d, q).nb = SlotAt(c, q).nb,
           d.nb = c.nb, d.refs = c.refs, d.cap = c.cap, d.freed = c.freed,
           d.len \in Nat, d.parsed \in Nat, d.parsed <= d.len
    PROVE  BuffersOK(d)
<1>1. ASSUME NEW b PROVE Within(d, b) = Within(c, b) /\ Own(d, b) = Own(c, b)
  BY Zenon DEF Within, Own
<1> QED BY <1>1, Zenon DEF BuffersOK

\* A reply that is written gives up its request's buffer.
LEMMA FlushedBuffers ==
    ASSUME CardFact, NEW c, IsConn(c), RingOK(c), BuffersOK(c),
           NEW end \in Nat, c.out <= end, end <= c.in
    PROVE  BuffersOK(FlushedTo(c, end))
<1> DEFINE d == FlushedTo(c, end)
           gone(b) == {q \in c.out..end-1 : SlotAt(c, q).nb = b - 1}
<1>1. /\ d.nb = c.nb /\ d.cap = c.cap /\ d.len = c.len /\ d.parsed = c.parsed
      /\ d.freed = c.freed
  BY FlushedSlots DEF Same, Fields
<1>2. /\ d.refs = Released(c, c.out..end-1)
      /\ \A q \in end..c.in-1 : SlotAt(d, q) = SlotAt(c, q)
  BY FlushedSlots, Zenon
<1>3. Used(d) = end..c.in-1
  BY FlushedRing, Zenon
<1> HIDE DEF d
<1>4. c.in \in Nat /\ c.out \in Nat
  BY RingTypes, Zenon
<1>5. /\ c.nb \in Nat /\ c.refs \in Seq(Int) /\ Len(c.refs) = c.nb + 1
      /\ DOMAIN c.refs = 1..c.nb+1
  BY DEF BuffersOK
<1>6. ASSUME NEW b
      PROVE  /\ gone(b) \in SUBSET Within(c, b)
             /\ Within(d, b) = Within(c, b) \ gone(b)
             /\ Own(d, b) = Own(c, b)
  <2>1. \A q \in c.out..end-1 : q \in Used(c)
    BY <1>4 DEF Used
  <2>2. \A q : q \in end..c.in-1 <=> q \in Used(c) /\ q \notin c.out..end-1
    BY <1>4 DEF Used
  <2> QED BY <1>1, <1>2, <1>3, <2>1, <2>2, Zenon DEF Within, Own
<1>7. ASSUME NEW b
      PROVE  /\ Cardinality(gone(b)) \in Nat /\ Cardinality(Within(c, b)) \in Nat
             /\ Cardinality(Within(d, b)) =
                   Cardinality(Within(c, b)) - Cardinality(gone(b))
  <2> HIDE DEF gone
  <2> QED BY <1>6, WithinFinite, Zenon DEF CardFact
<1>8. d.refs = [b \in 1..c.nb+1 |-> c.refs[b] - Cardinality(gone(b))]
  BY <1>2, <1>5, Zenon DEF Released
<1> HIDE DEF gone
<1>9. d.refs \in Seq(Int) /\ Len(d.refs) = c.nb + 1
  <2>1. PICK n \in Nat : n = c.nb + 1
    BY <1>5
  <2>2. d.refs \in [1..n -> Int]
    BY <1>5, <1>7, <1>8, <2>1
  <2>3. d.refs \in Seq(Int) /\ Len(d.refs) = n
    BY <2>2
  <2> QED BY <2>1, <2>3, Zenon
<1>10. ASSUME d.freed < 2, NEW b \in 1..d.nb+1
       PROVE  d.refs[b] = Cardinality(Within(d, b)) + Own(d, b)
  <2>1. c.refs[b] = Cardinality(Within(c, b)) + Own(c, b)
    BY <1>1, <1>10, Zenon DEF BuffersOK
  <2>2. d.refs[b] = c.refs[b] - Cardinality(gone(b))
    BY <1>1, <1>8, Zenon
  <2>3. Own(c, b) \in Nat /\ Own(d, b) = Own(c, b)
    BY <1>6, Zenon DEF Own
  <2> QED BY <1>7, <2>1, <2>2, <2>3
<1>11. \A q \in Used(d) : SlotAt(d, q).nb <= d.nb
  <2>1. \A q \in Used(d) : q \in Used(c) /\ SlotAt(d, q) = SlotAt(c, q)
    <3>1. \A q \in end..c.in-1 : q \in Used(c)
      BY <1>4 DEF Used
    <3> QED BY <1>2, <1>3, <3>1, Zenon
  <2> QED BY <1>1, <2>1, Zenon DEF BuffersOK
<1>12. /\ d.nb \in Nat /\ d.cap \in Nat /\ d.len \in Nat /\ d.parsed \in Nat
       /\ d.parsed <= d.len /\ d.freed \in Nat
  BY <1>1, Zenon DEF BuffersOK
<1>13. BuffersOK(d)
  BY <1>1, <1>9, <1>10, <1>11, <1>12, Zenon DEF BuffersOK
<1> QED BY <1>13, Zenon DEF d

\* Resizing leaves every request where it lies.
LEMMA ResizedBuffers ==
    ASSUME NEW c, IsConn(c), RingOK(c), BuffersOK(c)
    PROVE  BuffersOK(Resized(c))
<1> DEFINE d == Resized(c)
<1>1. /\ d.nb = c.nb /\ d.refs = c.refs /\ d.cap = c.cap /\ d.freed = c.freed
      /\ d.len = c.len /\ d.parsed = c.parsed
  BY ResizedSlots, Zenon DEF Same, Fields
<1>2. Used(d) = Used(c) /\ \A q \in Used(c) : SlotAt(d, q) = SlotAt(c, q)
  BY ResizedSlots, ResizedRing, Zenon
<1> HIDE DEF d
<1>3. BuffersOK(d)
  BY <1>1, <1>2, BuffersFrame, Zenon DEF BuffersOK
<1> QED BY <1>3, Zenon DEF d

\* A request that is enqueued is the newest one in the ring.
LEMMA EnqueuedRing ==
    ASSUME NEW c, IsConn(c), RingOK(c), BuffersOK(c), ~Full(c), NEW kind
    PROVE  /\ RingOK(Enqueued(c, kind))
           /\ Used(Enqueued(c, kind)) = Used(c) \cup {c.in}
           /\ c.in \notin Used(c)
<1> DEFINE d == Enqueued(c, kind)
<1>0. /\ c.nb \in Nat /\ c.parsed \in Nat /\ c.len \in Nat
      /\ c.refs \in Seq(Int) /\ Len(c.refs) = c.nb + 1
  BY Zenon DEF BuffersOK
<1>1. d.size = c.size /\ d.out = c.out
  <2>1. Same(c, d, {"slots", "refs", "in", "parsed", "len"})
    BY <1>0, EnqueuedSlots, Zenon
  <2> HIDE DEF d
  <2> QED BY <2>1, Zenon DEF Same, Fields
<1>2. /\ d.in = c.in + 1 /\ d.slots \in [0..c.size-1 -> SlotType]
      /\ \A q \in Used(c) : SlotAt(d, q) = SlotAt(c, q)
      /\ SlotAt(d, c.in).req = c.in + 1
  BY <1>0, EnqueuedSlots, Zenon
<1> HIDE DEF d
<1>3. /\ c.size \in Nat \ {0} /\ c.in \in Nat /\ c.out \in Nat
      /\ c.out <= c.in /\ c.in <= c.out + c.size /\ c.in - c.out # c.size
  BY RingTypes, Zenon DEF Full
<1>4. d.out <= d.in /\ d.in <= d.out + d.size /\ d.in \in Nat
  BY <1>1, <1>2, <1>3
<1>5. Used(d) = Used(c) \cup {c.in} /\ c.in \notin Used(c)
  <2>1. d.out = c.out /\ d.in - 1 = c.in
    BY <1>1, <1>2, <1>3
  <2>2. c.out..c.in = (c.out..c.in-1) \cup {c.in} /\ c.in \notin c.out..c.in-1
    BY <1>3
  <2> QED BY <2>1, <2>2, Zenon DEF Used
<1>6. \A q \in Used(d) : SlotAt(d, q).req = q + 1
  BY <1>2, <1>5, Zenon DEF RingOK
<1>7. RingOK(d)
  BY <1>1, <1>2, <1>3, <1>4, <1>6, Zenon DEF RingOK
<1> QED BY <1>5, <1>7, Zenon DEF d

\* ... and holds the buffer it lies in (net_rbuf_ref).
LEMMA EnqueuedBuffers ==
    ASSUME CardFact, NEW c, IsConn(c), RingOK(c), BuffersOK(c), ~Full(c), Complete(c),
           NEW kind
    PROVE  BuffersOK(Enqueued(c, kind))
<1> DEFINE d == Enqueued(c, kind)
<1>0. /\ c.nb \in Nat /\ c.parsed \in Nat /\ c.len \in Nat
      /\ c.refs \in Seq(Int) /\ Len(c.refs) = c.nb + 1 /\ DOMAIN c.refs = 1..c.nb+1
  BY DEF BuffersOK
<1>1. d.nb = c.nb /\ d.cap = c.cap /\ d.freed = c.freed
  <2>1. Same(c, d, {"slots", "refs", "in", "parsed", "len"})
    BY <1>0, EnqueuedSlots, Zenon
  <2> HIDE DEF d
  <2> QED BY <2>1, Zenon DEF Same, Fields
<1>2. /\ d.refs = [c.refs EXCEPT ![c.nb + 1] = @ + 1]
      /\ \A q \in Used(c) : SlotAt(d, q) = SlotAt(c, q)
      /\ SlotAt(d, c.in).nb = c.nb
      /\ \/ d.parsed = c.parsed + Unit /\ d.len = c.len
         \/ d.parsed = 0 /\ d.len = 0
  BY <1>0, EnqueuedSlots, Zenon
<1>3. Used(d) = Used(c) \cup {c.in} /\ c.in \notin Used(c)
  BY EnqueuedRing, Zenon
<1> HIDE DEF d
<1>4. d.parsed \in Nat /\ d.len \in Nat /\ d.parsed <= d.len
  BY <1>0, <1>2 DEF Complete, Unit
<1>5. d.refs \in Seq(Int) /\ Len(d.refs) = c.nb + 1
  BY <1>0, <1>2
<1>6. \A q \in Used(d) : SlotAt(d, q).nb <= d.nb
  BY <1>0, <1>1, <1>2, <1>3 DEF BuffersOK
<1>7. ASSUME d.freed < 2, NEW b \in 1..d.nb+1
      PROVE  d.refs[b] = Cardinality(Within(d, b)) + Own(d, b)
  <2>1. c.refs[b] = Cardinality(Within(c, b)) + Own(c, b)
    BY <1>1, <1>7, Zenon DEF BuffersOK
  <2>2. Own(c, b) \in Nat /\ Own(d, b) = Own(c, b)
    BY <1>1, Zenon DEF Own
  <2>3. CASE b = c.nb + 1
    <3>1. Within(d, b) = Within(c, b) \cup {c.in} /\ c.in \notin Within(c, b)
      <4>1. b - 1 = c.nb
        BY <1>0, <2>3
      <4> QED BY <1>2, <1>3, <4>1, Zenon DEF Within
    <3>2. Cardinality(Within(d, b)) = Cardinality(Within(c, b)) + 1
          /\ Cardinality(Within(c, b)) \in Nat
      BY <3>1, WithinFinite, Zenon DEF CardFact
    <3>3. d.refs[b] = c.refs[b] + 1
      BY <1>0, <1>1, <1>2, <2>3, Zenon
    <3> QED BY <2>1, <2>2, <3>2, <3>3
  <2>4. CASE b # c.nb + 1
    <3>1. Within(d, b) = Within(c, b)
      <4>1. c.nb # b - 1
        BY <1>0, <1>1, <2>4
      <4> QED BY <1>2, <1>3, <4>1, Zenon DEF Within
    <3>2. d.refs[b] = c.refs[b]
      BY <1>0, <1>1, <1>2, <2>4, Zenon
    <3> QED BY <2>1, <2>2, <3>1, <3>2, Zenon
  <2> QED BY <2>3, <2>4, Zenon
<1>8. d.nb \in Nat /\ d.cap \in Nat /\ d.freed \in Nat
  BY <1>1, Zenon DEF BuffersOK
<1>9. BuffersOK(d)
  BY <1>1, <1>4, <1>5, <1>6, <1>7, <1>8, Zenon DEF BuffersOK
<1> QED BY <1>9, Zenon DEF d

\* net_rbuf_grow: the connection's own reference moves to the new buffer.
LEMMA GrownBuffers ==
    ASSUME CardFact, NEW c, IsConn(c), RingOK(c), BuffersOK(c), c.freed = 0
    PROVE  LET d == Grown(c)
           IN  /\ Same(c, d, {"refs", "nb", "cap", "len", "parsed"})
               /\ d.len = c.len - c.parsed /\ d.parsed = 0
               /\ BuffersOK(d)
<1> DEFINE d == Grown(c)
           counts == Append([c.refs EXCEPT ![c.nb + 1] = @ - 1], 1)
<1>0. /\ c.nb \in Nat /\ c.parsed \in Nat /\ c.len \in Nat /\ c.parsed <= c.len
      /\ c.cap \in Nat
      /\ c.refs \in Seq(Int) /\ Len(c.refs) = c.nb + 1 /\ DOMAIN c.refs = 1..c.nb+1
  BY DEF BuffersOK
<1>1. PICK n \in Nat : n = c.nb
  BY <1>0, Zenon
<1>2. PICK f \in Seq(Int) : f = c.refs /\ Len(f) = n + 1
  BY <1>0, <1>1, Zenon
<1>3. /\ counts \in Seq(Int) /\ Len(counts) = n + 2 /\ counts[n + 2] = 1
      /\ counts[n + 1] = f[n + 1] - 1 /\ \A b \in 1..n : counts[b] = f[b]
  <2>1. counts = Append([f EXCEPT ![n + 1] = f[n + 1] - 1], 1)
    BY <1>1, <1>2, Zenon
  <2> DEFINE g == [f EXCEPT ![n + 1] = f[n + 1] - 1]
  <2>2. /\ g \in Seq(Int) /\ Len(g) = n + 1
        /\ g[n + 1] = f[n + 1] - 1 /\ \A b \in 1..n : g[b] = f[b]
    <3>1. f[n + 1] \in Int /\ f[n + 1] - 1 \in Int /\ DOMAIN f = 1..n+1
      BY <1>2
    <3>2. g \in Seq(Int)
      BY <1>2, <3>1
    <3>3. Len(g) = n + 1
      BY <1>2, <3>1
    <3> QED BY <3>1, <3>2, <3>3
  <2>3. counts = Append(g, 1)
    BY <2>1, Zenon
  <2> HIDE DEF counts, g
  <2> QED BY <2>2, <2>3
<1> HIDE DEF counts
<1>4. /\ Same(c, d, {"refs", "nb", "cap", "len", "parsed"})
      /\ d.refs = counts /\ d.nb = c.nb + 1 /\ d.cap = 2 * c.cap
      /\ d.len = c.len - c.parsed /\ d.parsed = 0
  <2>1. d = [c EXCEPT !.refs = counts, !.nb = c.nb + 1, !.cap = 2 * c.cap,
                      !.len = c.len - c.parsed, !.parsed = 0]
    BY Zenon DEF Grown, counts
  <2> HIDE DEF d
  <2> QED BY <2>1, Zenon DEF IsConn, Fields, Same
<1> HIDE DEF d
<1>5. /\ d.in = c.in /\ d.out = c.out /\ d.size = c.size /\ d.slots = c.slots
      /\ d.freed = 0
  BY <1>4, Zenon DEF Same, Fields
<1>6. Used(d) = Used(c) /\ \A q : SlotAt(d, q) = SlotAt(c, q)
  BY <1>5, Zenon DEF Used, SlotAt, Index
<1>7. \A q \in Used(c) : SlotAt(c, q).nb \in Nat /\ SlotAt(c, q).nb <= n
  BY <1>1, RingPlaces, Zenon DEF BuffersOK, SlotType
<1>8. ASSUME NEW b \in 1..n+2
      PROVE  d.refs[b] = Cardinality(Within(d, b)) + Own(d, b)
  <2>1. Within(d, b) = Within(c, b) /\ Cardinality(Within(c, b)) \in Nat
    <3>1. Within(d, b) = Within(c, b)
      BY <1>6 DEF Within
    <3> QED BY <3>1, WithinFinite, Zenon
  <2>2. CASE b = n + 2
    <3>1. \A q \in Used(c) : SlotAt(c, q).nb # b - 1
      BY <1>7, <2>2
    <3>2. Within(c, b) = {}
      BY <3>1, Zenon DEF Within
    <3>3. Own(d, b) = 1
      BY <1>1, <1>4, <1>5, <2>2 DEF Own
    <3>4. Cardinality(Within(d, b)) = 0
      BY <2>1, <3>2, Zenon DEF CardFact
    <3> QED BY <1>3, <1>4, <2>2, <3>3, <3>4
  <2>3. CASE b # n + 2
    <3>1. Own(d, b) = 0 /\ b \in 1..n+1
      BY <1>1, <1>4, <1>5, <2>3 DEF Own
    <3>2. f[b] = Cardinality(Within(c, b)) + Own(c, b)
      BY <1>1, <1>2, <3>1 DEF BuffersOK
    <3>3. Own(c, b) = IF b = n + 1 THEN 1 ELSE 0
      BY <1>1, Zenon DEF Own
    <3>4. counts[b] = IF b = n + 1 THEN f[b] - 1 ELSE f[b]
      BY <1>3, <3>1, SMTT(40)
    <3>5. counts[b] = Cardinality(Within(c, b))
      BY <2>1, <3>2, <3>3, <3>4
    <3> QED BY <1>4, <2>1, <3>1, <3>5
  <2> QED BY <2>2, <2>3, Zenon
<1>9. \A q \in Used(d) : SlotAt(d, q).nb <= d.nb
  BY <1>1, <1>4, <1>6, <1>7
<1>10. /\ d.nb \in Nat /\ d.refs \in Seq(Int) /\ Len(d.refs) = d.nb + 1 /\ d.nb + 1 = n + 2
       /\ d.cap \in Nat /\ d.len \in Nat /\ d.parsed \in Nat /\ d.parsed <= d.len
       /\ d.freed \in Nat
  <2>1. d.nb = n + 1 /\ d.freed = 0 /\ d.refs = counts
    BY <1>1, <1>4, <1>5, Zenon
  <2>2. d.cap \in Nat /\ d.len \in Nat /\ d.parsed \in Nat /\ d.parsed <= d.len
    <3>1. PICK a \in Nat, e \in Nat, p \in Nat : a = c.cap /\ e = c.len /\ p = c.parsed /\ p <= e
      BY <1>0, Zenon
    <3>2. d.cap = 2 * a /\ d.len = e - p /\ d.parsed = 0
      BY <1>4, <3>1, Zenon
    <3> QED BY <3>1, <3>2, SMTT(40)
  <2> QED BY <1>3, <2>1, <2>2
<1>11. BuffersOK(d)
  BY <1>8, <1>9, <1>10, Zenon DEF BuffersOK
<1> QED BY <1>4, <1>11, Zenon DEF d

---------------------------------------------------------------------------
(* Writing *)

\* What is left of the write buffer.
LEMMA LeftToSend ==
    ASSUME NEW w \in Seq(Nat), NEW s \in 0..Len(w)
    PROVE  /\ SubSeq(w, s + 1, Len(w)) \in Seq(Nat)
           /\ Len(SubSeq(w, s + 1, Len(w))) = Len(w) - s
           /\ \A i \in 1..Len(w)-s : SubSeq(w, s + 1, Len(w))[i] = w[s + i]
           /\ SubSeq(w, s + 1, Len(w)) = << >> <=> s = Len(w)
<1>1. /\ SubSeq(w, s + 1, Len(w)) \in Seq(Nat)
      /\ Len(SubSeq(w, s + 1, Len(w))) = Len(w) - s
      /\ \A i \in 1..Len(w)-s : SubSeq(w, s + 1, Len(w))[i] = w[s + i]
  <2>1. PICK n \in Nat : n = Len(w)
    OBVIOUS
  <2>2. PICK m \in Nat : m = s + 1 /\ m \in 1..n+1
    BY <2>1
  <2>3. SubSeq(w, m, n) \in Seq(Nat)
    BY <2>1, <2>2
  <2>4. Len(SubSeq(w, m, n)) = n - m + 1
    BY <2>1, <2>2
  <2>5. \A i \in 1..n-m+1 : SubSeq(w, m, n)[i] = w[m + i - 1]
    BY <2>1, <2>2
  <2> QED BY <2>1, <2>2, <2>3, <2>4, <2>5
<1>2. SubSeq(w, s + 1, Len(w)) = << >> <=> s = Len(w)
  <2>1. Len(w) \in Nat /\ s \in Nat
    OBVIOUS
  <2>2. Len(SubSeq(w, s + 1, Len(w))) = 0 <=> s = Len(w)
    BY <1>1, <2>1
  <2> DEFINE v == SubSeq(w, s + 1, Len(w))
  <2>3. v \in Seq(Nat)
    BY <1>1, Zenon
  <2> HIDE DEF v
  <2>4. v = << >> <=> Len(v) = 0
    BY <2>3
  <2> QED BY <2>2, <2>4, Zenon DEF v
<1> QED BY <1>1, <1>2, Zenon

\* The part of the write buffer that net_write_handler has still to send.
LEMMA UnsentFacts ==
    ASSUME NEW c, WritesOK(c)
    PROVE  /\ Unsent(c) \in Seq(Nat)
           /\ Len(Unsent(c)) = Len(c.wbuf) - c.wbuf_sent
           /\ Unsent(c) = << >> <=> c.wbuf_sent = Len(c.wbuf)
<1>1. c.wbuf \in Seq(Nat) /\ c.wbuf_sent \in 0..Len(c.wbuf)
  BY Zenon DEF WritesOK, Writes
<1> QED BY <1>1, LeftToSend, Zenon DEF Unsent

\* One more reply is sent.
LEMMA OneSent ==
    ASSUME NEW g, NEW w, NEW s, NEW o, Writes(g, w, s, o), s # Len(w)
    PROVE  Writes(Append(g, w[s + 1]), w, s + 1, o)
<1>1. /\ g \in Seq(Nat) /\ w \in Seq(Nat) /\ s \in 0..Len(w)
      /\ Len(g) \in Nat /\ Len(w) \in Nat
      /\ Len(g) + Len(w) - s = o
      /\ \A i \in 1..Len(g) : g[i] = i
      /\ \A j \in s+1..Len(w) : w[j] = Len(g) + j - s
  BY DEF Writes
<1>2. s + 1 \in s+1..Len(w) /\ s + 1 \in 0..Len(w)
  BY <1>1
<1>3. w[s + 1] = Len(g) + 1
  BY <1>1, <1>2
<1>4. PICK v \in Nat : v = w[s + 1]
  BY <1>1, <1>3
<1> DEFINE h == Append(g, v)
<1>5. /\ h \in Seq(Nat) /\ Len(h) = Len(g) + 1
      /\ \A i \in 1..Len(g) : h[i] = g[i] /\ h[Len(g) + 1] = v
  BY <1>1
<1>6. h[Len(g) + 1] = v
  BY <1>1
<1> HIDE DEF h
<1>7. Len(h) + Len(w) - (s + 1) = o
  BY <1>1, <1>5
<1>8. \A i \in 1..Len(h) : h[i] = i
  <2>1. ASSUME NEW i \in 1..Len(h) PROVE i \in 1..Len(g) \/ i = Len(g) + 1
    BY <1>1, <1>5
  <2> QED BY <1>1, <1>3, <1>4, <1>5, <1>6, <2>1, Zenon
<1>9. \A j \in (s+1)+1..Len(w) : w[j] = Len(h) + j - (s + 1)
  <2>1. ASSUME NEW j \in (s+1)+1..Len(w)
        PROVE  j \in s+1..Len(w) /\ Len(g) + j - s = Len(h) + j - (s + 1)
    BY <1>1, <1>5
  <2> QED BY <1>1, <2>1, Zenon
<1>10. Writes(h, w, s + 1, o)
  BY <1>1, <1>2, <1>5, <1>7, <1>8, <1>9, Zenon DEF Writes
<1> QED BY <1>4, <1>10, Zenon DEF h

\* The write buffer is emptied once everything in it was sent.
LEMMA AllSent ==
    ASSUME NEW g, NEW w, NEW s, NEW o, Writes(g, w, s, o), s = Len(w)
    PROVE  Writes(g, << >>, 0, o)
<1>1. /\ g \in Seq(Nat) /\ w \in Seq(Nat) /\ Len(w) \in Nat /\ Len(g) \in Nat
      /\ Len(g) + Len(w) - s = o
      /\ \A i \in 1..Len(g) : g[i] = i
  BY DEF Writes
<1>2. << >> \in Seq(Nat) /\ Len(<< >>) = 0
  OBVIOUS
<1>3. Len(g) + 0 - 0 = o
  BY <1>1
<1> QED BY <1>1, <1>2, <1>3 DEF Writes

\* What the client has received and what is still to be sent, together.
LEMMA InOrder ==
    ASSUME NEW g, NEW w, NEW s, NEW o \in Nat, Writes(g, w, s, o)
    PROVE  g \o SubSeq(w, s + 1, Len(w)) = [i \in 1..o |-> i]
<1>1. /\ g \in Seq(Nat) /\ w \in Seq(Nat) /\ s \in 0..Len(w)
      /\ Len(g) \in Nat /\ Len(w) \in Nat
      /\ Len(g) + Len(w) - s = o
      /\ \A i \in 1..Len(g) : g[i] = i
      /\ \A j \in s+1..Len(w) : w[j] = Len(g) + j - s
  BY DEF Writes
<1> DEFINE v == SubSeq(w, s + 1, Len(w))
<1>2. /\ v \in Seq(Nat) /\ Len(v) = Len(w) - s
      /\ \A i \in 1..Len(w)-s : v[i] = w[s + i]
  BY <1>1, LeftToSend, Zenon
<1> HIDE DEF v
<1>3. ASSUME NEW i \in 1..Len(v) PROVE v[i] = Len(g) + i
  <2>1. i \in 1..Len(w)-s /\ s + i \in s+1..Len(w) /\ Len(g) + (s + i) - s = Len(g) + i
    BY <1>1, <1>2
  <2> QED BY <1>1, <1>2, <2>1, Zenon
<1>4. Len(g) + Len(v) = o
  BY <1>1, <1>2, Zenon
<1> DEFINE all == g \o v
<1>5. /\ all \in Seq(Nat) /\ Len(all) = o
      /\ \A i \in 1..o : all[i] = IF i <= Len(g) THEN g[i] ELSE v[i - Len(g)]
  <2>1. PICK n \in Nat : n = Len(v) /\ v \in [1..n -> Nat]
    BY <1>2
  <2>2. /\ g \o v \in Seq(Nat) /\ Len(g \o v) = Len(g) + n
        /\ \A i \in 1..Len(g)+n :
              (g \o v)[i] = IF i <= Len(g) THEN g[i] ELSE v[i - Len(g)]
    BY <1>1, <2>1, AppendedMore, Zenon
  <2>3. Len(g) + n = o
    BY <1>4, <2>1, Zenon
  <2> QED BY <2>2, <2>3, Zenon
<1> HIDE DEF all
<1>6. ASSUME NEW i \in 1..o PROVE all[i] = i
  <2>1. CASE i <= Len(g)
    <3>1. i \in 1..Len(g)
      BY <1>1, <2>1
    <3> QED BY <1>1, <1>5, <2>1, <3>1, Zenon
  <2>2. CASE ~(i <= Len(g))
    <3>1. i - Len(g) \in 1..Len(v) /\ Len(g) + (i - Len(g)) = i
      BY <1>1, <1>4, <2>2
    <3> QED BY <1>3, <1>5, <2>2, <3>1, Zenon
  <2> QED BY <2>1, <2>2, Zenon
<1>7. all = [i \in 1..o |-> i]
  BY <1>5, <1>6
<1> QED BY <1>7, Zenon DEF all, v

---------------------------------------------------------------------------
(* The operations on a connection *)

\* The fields that say nothing of the ring and the buffers.
Outer == {"state", "fd", "sock", "eof", "rst", "edge", "want_write", "sent", "over"}

\* Socket, state and descriptor of a connection do not matter to its rings
\* and buffers.
LEMMA ConnFrame ==
    ASSUME NEW c, NEW d, ConnOK(c), Same(c, d, Outer)
    PROVE  /\ ConnOK(d) /\ Used(d) = Used(c) /\ Unsent(d) = Unsent(c)
           /\ \A q : SlotAt(d, q) = SlotAt(c, q)
           /\ FlushEnd(d) = FlushEnd(c) /\ Drained(d) = Drained(c)
           /\ Complete(d) = Complete(c)
<1>1. /\ d.in = c.in /\ d.out = c.out /\ d.size = c.size /\ d.slots = c.slots
      /\ d.got = c.got /\ d.wbuf = c.wbuf /\ d.wbuf_sent = c.wbuf_sent
      /\ d.nb = c.nb /\ d.refs = c.refs /\ d.cap = c.cap /\ d.len = c.len
      /\ d.parsed = c.parsed /\ d.freed = c.freed /\ IsConn(d)
  BY Zenon DEF Same, Fields, Outer
<1>2. Used(d) = Used(c) /\ \A q : SlotAt(d, q) = SlotAt(c, q)
  BY <1>1, Zenon DEF Used, SlotAt, Index
<1>3. RingOK(d)
  BY <1>1, <1>2, Zenon DEF ConnOK, RingOK
<1>4. WritesOK(d)
  BY <1>1, Zenon DEF ConnOK, WritesOK
<1>5. BuffersOK(d)
  <2>1. BuffersOK(c) /\ d.len \in Nat /\ d.parsed \in Nat /\ d.parsed <= d.len
    BY <1>1, Zenon DEF ConnOK, BuffersOK
  <2> QED BY <1>1, <1>2, <2>1, BuffersFrame, Zenon
<1>6. FlushEnd(d) = FlushEnd(c)
  BY <1>1, <1>2 DEF FlushEnd, Replied
<1> QED BY <1>1, <1>2, <1>3, <1>4, <1>5, <1>6, Zenon DEF ConnOK, Unsent, Drained, Complete

\* net_pipeline_try_flush leaves no reply that is ready in the ring.
LEMMA FlushedConn ==
    ASSUME LeastFact, CardFact, NEW c, ConnOK(c)
    PROVE  LET d == Flushed(c)
           IN  /\ ConnOK(d) /\ Same(c, d, {"wbuf", "refs", "slots", "out"})
               /\ FlushEnd(d) = d.out /\ c.out <= d.out
<1> DEFINE end == FlushEnd(c)
           d == FlushedTo(c, end)
<1>0. IsConn(c) /\ RingOK(c) /\ WritesOK(c) /\ BuffersOK(c)
  BY Zenon DEF ConnOK
<1>1. /\ end \in Nat /\ c.out <= end /\ end <= c.in
      /\ end = c.in \/ ~Replied(c, end)
  BY <1>0, FlushEndFacts, Zenon
<1> HIDE DEF end
<1>2. /\ Same(c, d, {"wbuf", "refs", "slots", "out"}) /\ d.out = end
      /\ \A q \in end..c.in-1 : SlotAt(d, q) = SlotAt(c, q)
  BY <1>0, <1>1, FlushedSlots, Zenon
<1>3. RingOK(d) /\ WritesOK(d) /\ BuffersOK(d)
  BY <1>0, <1>1, FlushedRing, FlushedWrites, FlushedBuffers, Zenon
<1> HIDE DEF d
<1>4. d.in = c.in /\ IsConn(d)
  BY <1>2, Zenon DEF Same, Fields
<1>5. FlushEnd(d) = end
  <2>1. /\ FlushEnd(d) \in Nat /\ end <= FlushEnd(d) /\ FlushEnd(d) <= c.in
        /\ \A p \in end..FlushEnd(d)-1 : Replied(d, p)
    BY <1>2, <1>3, <1>4, FlushEndFacts, Zenon
  <2>2. SUFFICES ASSUME end # FlushEnd(d) PROVE FALSE
    BY Zenon
  <2>3. end \in end..FlushEnd(d)-1 /\ end \in end..c.in-1 /\ end # c.in
    <3>1. c.in \in Nat
      BY <1>0, RingTypes, Zenon
    <3> QED BY <1>1, <2>1, <2>2, <3>1
  <2>4. Replied(d, end) /\ SlotAt(d, end) = SlotAt(c, end)
    BY <1>2, <2>1, <2>3, Zenon
  <2> QED BY <1>1, <2>3, <2>4, Zenon DEF Replied
<1>6. Flushed(c) = d
  BY Zenon DEF Flushed, d, end
<1> QED BY <1>1, <1>2, <1>3, <1>4, <1>5, <1>6, Zenon DEF ConnOK

\* The end of a write handler's turn.
LEMMA SentConn ==
    ASSUME NEW c, ConnOK(c)
    PROVE  ConnOK(Sent(c)) /\ Same(c, Sent(c), {"got", "wbuf_sent"})
<1> DEFINE d == Sent(c)
<1>0. IsConn(c) /\ WritesOK(c) /\ RingOK(c) /\ BuffersOK(c)
  BY Zenon DEF ConnOK
<1>1. CASE Unsent(c) = << >>
  <2>1. d = c
    BY <1>1, Zenon DEF Sent
  <2> QED BY <1>0, <2>1, Zenon DEF Same, ConnOK
<1>2. CASE Unsent(c) # << >>
  <2>1. d = [c EXCEPT !.got = Append(c.got, c.wbuf[c.wbuf_sent + 1]),
                      !.wbuf_sent = c.wbuf_sent + 1]
    BY <1>2, Zenon DEF Sent
  <2> HIDE DEF d
  <2>2. /\ Same(c, d, {"got", "wbuf_sent"})
        /\ d.got = Append(c.got, c.wbuf[c.wbuf_sent + 1])
        /\ d.wbuf_sent = c.wbuf_sent + 1
    BY <1>0, <2>1, Zenon DEF IsConn, Fields, Same
  <2>3. /\ d.in = c.in /\ d.out = c.out /\ d.size = c.size /\ d.slots = c.slots
        /\ d.wbuf = c.wbuf
        /\ d.nb = c.nb /\ d.refs = c.refs /\ d.cap = c.cap /\ d.len = c.len
        /\ d.parsed = c.parsed /\ d.freed = c.freed /\ IsConn(d)
    BY <2>2, Zenon DEF Same, Fields
  <2>4. Used(d) = Used(c) /\ \A q : SlotAt(d, q) = SlotAt(c, q)
    BY <2>3, Zenon DEF Used, SlotAt, Index
  <2>5. RingOK(d)
    BY <1>0, <2>3, <2>4, Zenon DEF RingOK
  <2>6. BuffersOK(d)
    <3>1. d.len \in Nat /\ d.parsed \in Nat /\ d.parsed <= d.len
      BY <1>0, <2>3, Zenon DEF BuffersOK
    <3> QED BY <1>0, <2>3, <2>4, <3>1, BuffersFrame, Zenon
  <2>7. c.wbuf_sent # Len(c.wbuf)
    BY <1>0, <1>2, UnsentFacts, Zenon
  <2>8. WritesOK(d)
    BY <1>0, <2>2, <2>3, <2>7, OneSent, Zenon DEF WritesOK
  <2>9. ConnOK(d) /\ Same(c, d, {"got", "wbuf_sent"})
    BY <2>2, <2>3, <2>5, <2>6, <2>8, Zenon DEF ConnOK
  <2> QED BY <2>9, Zenon DEF d
<1> QED BY <1>1, <1>2, Zenon

\* A write buffer that has been sent is used from its start.
LEMMA EmptiedConn ==
    ASSUME NEW c, ConnOK(c), Unsent(c) = << >>, NEW e,
           Same(c, e, {"wbuf", "wbuf_sent", "want_write"}), e.wbuf = << >>, e.wbuf_sent = 0
    PROVE  ConnOK(e) /\ e.out = c.out /\ FlushEnd(e) = FlushEnd(c) /\ Unsent(e) = << >>
<1>1. IsConn(c) /\ WritesOK(c) /\ RingOK(c) /\ BuffersOK(c)
  BY Zenon DEF ConnOK
<1>2. /\ e.in = c.in /\ e.out = c.out /\ e.size = c.size /\ e.slots = c.slots
      /\ e.got = c.got
      /\ e.nb = c.nb /\ e.refs = c.refs /\ e.cap = c.cap /\ e.len = c.len
      /\ e.parsed = c.parsed /\ e.freed = c.freed /\ IsConn(e)
  BY Zenon DEF Same, Fields
<1>3. Used(e) = Used(c) /\ \A q : SlotAt(e, q) = SlotAt(c, q)
  BY <1>2, Zenon DEF Used, SlotAt, Index
<1>4. RingOK(e)
  BY <1>1, <1>2, <1>3, Zenon DEF RingOK
<1>5. e.len \in Nat /\ e.parsed \in Nat /\ e.parsed <= e.len
  BY <1>1, <1>2, Zenon DEF BuffersOK
<1>6. BuffersOK(e)
  BY <1>1, <1>2, <1>3, <1>5, BuffersFrame, Zenon
<1>7. c.wbuf_sent = Len(c.wbuf)
  BY <1>1, UnsentFacts, Zenon
<1>8. WritesOK(e)
  BY <1>1, <1>2, <1>7, AllSent, Zenon DEF WritesOK
<1>9. FlushEnd(e) = FlushEnd(c)
  BY <1>2, Zenon DEF FlushEnd, Replied, SlotAt, Index
<1>10. Unsent(e) = << >>
  <2>1. e.wbuf_sent = Len(e.wbuf)
    OBVIOUS
  <2> QED BY <1>8, <2>1, UnsentFacts, Zenon
<1> QED BY <1>2, <1>4, <1>6, <1>8, <1>9, <1>10, Zenon DEF ConnOK

\* net_write_handler flushes the pipeline into a write buffer it has emptied.
LEMMA RefillConn ==
    ASSUME LeastFact, CardFact, NEW c, ConnOK(c)
    PROVE  LET d == Refill(c)
           IN  /\ ConnOK(d) /\ Same(c, d, {"wbuf", "wbuf_sent", "refs", "slots", "out"})
               /\ Unsent(d) = << >> => FlushEnd(d) = d.out
               /\ c.out <= d.out
<1> DEFINE e == [c EXCEPT !.wbuf = << >>, !.wbuf_sent = 0]
           d == Refill(c)
<1>0. IsConn(c) /\ WritesOK(c) /\ RingOK(c) /\ BuffersOK(c)
  BY Zenon DEF ConnOK
<1>1. CASE Unsent(c) # << >>
  <2>1. d = c
    BY <1>1, Zenon DEF Refill
  <2>2. c.out <= c.out
    BY <1>0, RingTypes
  <2> QED BY <1>0, <1>1, <2>1, <2>2, Zenon DEF Same, ConnOK
<1>2. CASE Unsent(c) = << >>
  <2>1. d = Flushed(e)
    BY <1>2, Zenon DEF Refill
  <2>2. ConnOK(e) /\ Same(c, e, {"wbuf", "wbuf_sent"}) /\ e.out = c.out
    <3>1. Same(c, e, {"wbuf", "wbuf_sent"}) /\ e.wbuf = << >> /\ e.wbuf_sent = 0
      BY <1>0, Zenon DEF IsConn, Fields, Same
    <3> HIDE DEF e
    <3>2. Same(c, e, {"wbuf", "wbuf_sent", "want_write"})
      BY <3>1, Zenon DEF Same
    <3> QED BY <1>2, <3>1, <3>2, EmptiedConn, Zenon
  <2> HIDE DEF e
  <2>3. /\ ConnOK(d) /\ Same(e, d, {"wbuf", "refs", "slots", "out"})
        /\ FlushEnd(d) = d.out /\ c.out <= d.out
    BY <2>1, <2>2, FlushedConn, Zenon
  <2> HIDE DEF d
  <2>4. Same(c, d, {"wbuf", "wbuf_sent", "refs", "slots", "out"})
    BY <2>2, <2>3, Zenon DEF Same
  <2> QED BY <2>3, <2>4, Zenon DEF d
<1> QED BY <1>1, <1>2, Zenon

\* Reading changes the input buffers only, and loses nothing that was not
\* parsed.
Input == {"sock", "refs", "nb", "cap", "len", "parsed", "over"}

\* The input buffer is compacted or grown before a read (net_rbuf_grow).
LEMMA WithRoomConn ==
    ASSUME CardFact, NEW c, ConnOK(c), c.freed = 0
    PROVE  LET d == WithRoom(c)
           IN  /\ ConnOK(d) /\ Same(c, d, Input) /\ d.sock = c.sock
               /\ d.len - d.parsed = c.len - c.parsed
<1> DEFINE d == Grown(c)
<1>0. IsConn(c) /\ WritesOK(c) /\ RingOK(c) /\ BuffersOK(c)
  BY Zenon DEF ConnOK
<1>1. CASE c.len # c.cap
  <2>1. WithRoom(c) = c
    BY <1>1, Zenon DEF WithRoom
  <2> QED BY <1>0, <2>1, Zenon DEF Same
<1>2. CASE c.len = c.cap
  <2>1. WithRoom(c) = d
    BY <1>2, Zenon DEF WithRoom
  <2>2. /\ Same(c, d, {"refs", "nb", "cap", "len", "parsed"})
        /\ d.len = c.len - c.parsed /\ d.parsed = 0 /\ BuffersOK(d)
    BY <1>0, GrownBuffers, Zenon
  <2> HIDE DEF d
  <2>3. /\ d.in = c.in /\ d.out = c.out /\ d.size = c.size /\ d.slots = c.slots
        /\ d.got = c.got /\ d.wbuf = c.wbuf /\ d.wbuf_sent = c.wbuf_sent
        /\ d.sock = c.sock /\ IsConn(d)
    BY <2>2, Zenon DEF Same, Fields
  <2>4. RingOK(d)
    <3>1. Used(d) = Used(c) /\ \A q : SlotAt(d, q) = SlotAt(c, q)
      BY <2>3, Zenon DEF Used, SlotAt, Index
    <3> QED BY <1>0, <2>3, <3>1, Zenon DEF RingOK
  <2>5. WritesOK(d)
    BY <1>0, <2>3, Zenon DEF WritesOK
  <2>6. Same(c, d, Input)
    BY <2>2, Zenon DEF Same, Input
  <2>7. d.len - d.parsed = c.len - c.parsed
    <3>1. c.len \in Nat /\ c.parsed \in Nat
      BY <1>0, Zenon DEF BuffersOK
    <3> QED BY <2>2, <3>1
  <2> QED BY <2>1, <2>2, <2>3, <2>4, <2>5, <2>6, <2>7, Zenon DEF ConnOK
<1> QED BY <1>1, <1>2, Zenon

\* One read from the socket into the input buffer.
LEMMA ReadUnitConn ==
    ASSUME NEW c, ConnOK(c)
    PROVE  LET d == ReadUnit(c)
           IN  /\ ConnOK(d) /\ Same(c, d, Input) /\ d.sock = c.sock - 1
               /\ d.len = c.len + 1 /\ d.parsed = c.parsed
<1> DEFINE hit == {SlotAt(c, q).req : q \in
                  {q \in Used(c) : /\ SlotAt(c, q).state = "pending"
                                   /\ SlotAt(c, q).nb = c.nb
                                   /\ c.len \in SlotAt(c, q).at..SlotAt(c, q).at+Unit-1}}
           new == c.over \cup hit
           d == ReadUnit(c)
<1>0. IsConn(c) /\ WritesOK(c) /\ RingOK(c) /\ BuffersOK(c)
  BY Zenon DEF ConnOK
<1>1. d = [c EXCEPT !.sock = c.sock - 1, !.len = c.len + 1, !.over = new]
  BY Zenon DEF ReadUnit
<1> HIDE DEF d, new, hit
<1>2. /\ Same(c, d, {"sock", "len", "over"})
      /\ d.sock = c.sock - 1 /\ d.len = c.len + 1
  BY <1>0, <1>1, Zenon DEF IsConn, Fields, Same
<1>3. /\ d.in = c.in /\ d.out = c.out /\ d.size = c.size /\ d.slots = c.slots
      /\ d.got = c.got /\ d.wbuf = c.wbuf /\ d.wbuf_sent = c.wbuf_sent
      /\ d.nb = c.nb /\ d.refs = c.refs /\ d.cap = c.cap /\ d.freed = c.freed
      /\ d.parsed = c.parsed /\ IsConn(d)
  BY <1>2, Zenon DEF Same, Fields
<1>4. Used(d) = Used(c) /\ \A q : SlotAt(d, q) = SlotAt(c, q)
  BY <1>3, Zenon DEF Used, SlotAt, Index
<1>5. RingOK(d)
  BY <1>0, <1>3, <1>4, Zenon DEF RingOK
<1>6. WritesOK(d)
  BY <1>0, <1>3, Zenon DEF WritesOK
<1>7. d.len \in Nat /\ d.parsed \in Nat /\ d.parsed <= d.len
  BY <1>0, <1>2, <1>3 DEF BuffersOK
<1>8. BuffersOK(d)
  BY <1>0, <1>3, <1>4, <1>7, BuffersFrame, Zenon
<1>9. Same(c, d, Input)
  BY <1>2, Zenon DEF Same, Input
<1>10. ConnOK(d)
  BY <1>3, <1>5, <1>6, <1>8, Zenon DEF ConnOK
<1> QED BY <1>2, <1>3, <1>9, <1>10, Zenon DEF d

\* One turn of the read loop.
LEMMA ReadTurnConn ==
    ASSUME CardFact, NEW c, ConnOK(c), c.freed = 0
    PROVE  LET d == ReadUnit(WithRoom(c))
           IN  /\ ConnOK(d) /\ Same(c, d, Input) /\ d.sock = c.sock - 1
               /\ d.len - d.parsed = c.len - c.parsed + 1 /\ d.freed = 0
<1> DEFINE e == WithRoom(c)
           d == ReadUnit(e)
<1>1. /\ ConnOK(e) /\ Same(c, e, Input) /\ e.sock = c.sock
      /\ e.len - e.parsed = c.len - c.parsed
  BY WithRoomConn, Zenon
<1> HIDE DEF e
<1>2. /\ ConnOK(d) /\ Same(e, d, Input) /\ d.sock = e.sock - 1
      /\ d.len = e.len + 1 /\ d.parsed = e.parsed
  BY <1>1, ReadUnitConn, Zenon
<1> HIDE DEF d
<1>3. Same(c, d, Input)
  BY <1>1, <1>2, Zenon DEF Same
<1>4. d.freed = 0
  BY <1>3, Zenon DEF Same, Input, Fields
<1>5. /\ e.len \in Nat /\ e.parsed \in Nat /\ c.len \in Nat /\ c.parsed \in Nat
  BY <1>1, Zenon DEF ConnOK, BuffersOK
<1>6. d.len - d.parsed = c.len - c.parsed + 1
  BY <1>1, <1>2, <1>5
<1> QED BY <1>1, <1>2, <1>3, <1>4, <1>6, Zenon DEF d, e

\* Every unit a client has sent is in the socket, in the input buffer or in a
\* request that was parsed; n is the number of requests of its script.
InputOK(c, n) ==
    /\ c.state \in {"none", "alive", "closing", "dead"}
    /\ c.fd \in BOOLEAN /\ c.eof \in BOOLEAN /\ c.rst \in BOOLEAN
    /\ c.sock \in Nat /\ c.sent \in Nat /\ c.sent <= Unit * n
    /\ c.sent >= c.sock + Unit * c.in + (c.len - c.parsed)
    /\ ~c.rst => c.sent = c.sock + Unit * c.in + (c.len - c.parsed)

\* What InputOK depends on.
LEMMA InputFrame ==
    ASSUME NEW c, NEW d, NEW n \in Nat, ConnOK(c), ConnOK(d), InputOK(c, n),
           d.state \in {"none", "alive", "closing", "dead"}, d.fd \in BOOLEAN,
           d.eof = c.eof, d.rst = c.rst, d.sent = c.sent, d.sock \in Nat,
           d.sock + Unit * d.in + (d.len - d.parsed) =
              c.sock + Unit * c.in + (c.len - c.parsed)
    PROVE  InputOK(d, n)
  BY Zenon DEF InputOK

\* What the parse loop may change.
Parsing == {"slots", "size", "refs", "in", "parsed", "len", "state", "fd"}
Killed(c, d) == (d.state = c.state /\ d.fd = c.fd) \/ (d.state = "dead" /\ ~d.fd)

\* net_reactor_mark_dead, for the connection itself.
LEMMA DeadConn ==
    ASSUME NEW c, ConnOK(c), NEW n \in Nat, InputOK(c, n)
    PROVE  LET d == Dead(c)
           IN  /\ ConnOK(d) /\ InputOK(d, n) /\ Same(c, d, {"state", "fd"})
               /\ d.state = "dead" /\ d.fd = FALSE
<1> DEFINE d == Dead(c)
<1>1. /\ Same(c, d, {"state", "fd"}) /\ d.state = "dead" /\ d.fd = FALSE
  BY Zenon DEF Dead, ConnOK, IsConn, Fields, Same
<1> HIDE DEF d
<1>2. Same(c, d, Outer)
  BY <1>1, Zenon DEF Same, Outer
<1>3. ConnOK(d)
  BY <1>2, ConnFrame, Zenon
<1>4. /\ d.eof = c.eof /\ d.rst = c.rst /\ d.sent = c.sent /\ d.sock = c.sock
      /\ d.in = c.in /\ d.len = c.len /\ d.parsed = c.parsed
  BY <1>1, Zenon DEF Same, Fields
<1>5. d.sock \in Nat
  BY <1>4, Zenon DEF InputOK
<1>6. InputOK(d, n)
  BY <1>1, <1>3, <1>4, <1>5, InputFrame, Zenon
<1> QED BY <1>1, <1>3, <1>6, Zenon DEF d

\* The next request is enqueued, in a ring that was resized if it was full.
LEMMA EnqueuedConn ==
    ASSUME CardFact, NEW c, ConnOK(c), NEW n \in Nat, InputOK(c, n), Complete(c),
           NEW kind
    PROVE  LET d == Enqueued(IF Full(c) THEN Resized(c) ELSE c, kind)
           IN  /\ ConnOK(d) /\ InputOK(d, n) /\ Same(c, d, Parsing \ {"state", "fd"})
               /\ d.in = c.in + 1
<1> DEFINE e == IF Full(c) THEN Resized(c) ELSE c
           d == Enqueued(e, kind)
<1>0. IsConn(c) /\ WritesOK(c) /\ RingOK(c) /\ BuffersOK(c)
  BY Zenon DEF ConnOK
<1>1. /\ ConnOK(e) /\ Same(c, e, {"size", "slots"}) /\ ~Full(e)
      /\ e.in = c.in /\ e.len = c.len /\ e.parsed = c.parsed
  <2>1. CASE ~Full(c)
    BY <1>0, <2>1, Zenon DEF Same
  <2>2. CASE Full(c)
    <3>1. e = Resized(c)
      BY <2>2, Zenon
    <3>2. /\ Same(c, e, {"size", "slots"}) /\ e.size = 2 * c.size
          /\ RingOK(e) /\ BuffersOK(e)
      BY <1>0, <3>1, ResizedSlots, ResizedRing, ResizedBuffers, Zenon
    <3> HIDE DEF e
    <3>3. /\ e.in = c.in /\ e.out = c.out /\ e.got = c.got /\ e.wbuf = c.wbuf
          /\ e.wbuf_sent = c.wbuf_sent /\ e.len = c.len /\ e.parsed = c.parsed
          /\ IsConn(e)
      BY <3>2, Zenon DEF Same, Fields
    <3>4. WritesOK(e)
      BY <1>0, <3>3, Zenon DEF WritesOK
    <3>5. ~Full(e)
      <4>1. c.size \in Nat \ {0} /\ c.in - c.out = c.size
        BY <1>0, <2>2, RingTypes, Zenon DEF Full
      <4> QED BY <3>2, <3>3, <4>1 DEF Full
    <3> QED BY <3>2, <3>3, <3>4, <3>5, Zenon DEF ConnOK
  <2> QED BY <2>1, <2>2, Zenon
<1> HIDE DEF e
<1>2. IsConn(e) /\ RingOK(e) /\ BuffersOK(e) /\ WritesOK(e)
  BY <1>1, Zenon DEF ConnOK
<1>3. Complete(e)
  BY <1>1, Zenon DEF Complete
<1>4. RingOK(d) /\ BuffersOK(d)
  BY <1>1, <1>2, <1>3, EnqueuedRing, EnqueuedBuffers, Zenon
<1>5. /\ Same(e, d, {"slots", "refs", "in", "parsed", "len"})
      /\ d.in = e.in + 1 /\ d.len - d.parsed = e.len - e.parsed - Unit
  <2>1. /\ e.nb \in Nat /\ e.parsed \in Nat /\ e.len \in Nat
        /\ e.refs \in Seq(Int) /\ Len(e.refs) = e.nb + 1
    BY <1>2, Zenon DEF BuffersOK
  <2> QED BY <1>1, <1>2, <2>1, EnqueuedSlots, Zenon
<1> HIDE DEF d
<1>6. /\ d.got = e.got /\ d.wbuf = e.wbuf /\ d.wbuf_sent = e.wbuf_sent /\ d.out = e.out
      /\ IsConn(d)
  BY <1>5, Zenon DEF Same, Fields
<1>7. WritesOK(d)
  BY <1>2, <1>6, Zenon DEF WritesOK
<1>8. ConnOK(d)
  BY <1>4, <1>6, <1>7, Zenon DEF ConnOK
<1>9. Same(c, d, Parsing \ {"state", "fd"})
  BY <1>1, <1>5, Zenon DEF Same, Parsing
<1>10. /\ d.state = c.state /\ d.fd = c.fd /\ d.eof = c.eof /\ d.rst = c.rst
       /\ d.sent = c.sent /\ d.sock = c.sock
  BY <1>9, Zenon DEF Same, Fields, Parsing
<1>11. /\ d.state \in {"none", "alive", "closing", "dead"} /\ d.fd \in BOOLEAN
       /\ d.sock \in Nat
  BY <1>10, Zenon DEF InputOK
<1>12. d.sock + Unit * d.in + (d.len - d.parsed) =
         c.sock + Unit * c.in + (c.len - c.parsed)
  <2>1. c.in \in Nat /\ c.len \in Nat /\ c.parsed \in Nat /\ c.sock \in Nat
    BY <1>0, RingTypes, Zenon DEF BuffersOK, InputOK
  <2>2. /\ d.in = c.in + 1 /\ d.len - d.parsed = c.len - c.parsed - 2
        /\ d.sock = c.sock
    BY <1>1, <1>5, <1>10, Zenon DEF Unit
  <2> QED BY <2>1, <2>2 DEF Unit
<1>13. InputOK(d, n)
  BY <1>8, <1>10, <1>11, <1>12, InputFrame, Zenon
<1> QED BY <1>1, <1>5, <1>8, <1>9, <1>13, Zenon DEF d, e

\* One turn of the parse loop: it ends, kills the connection, or takes one
\* more request.
LEMMA ParseTurn ==
    ASSUME CardFact, NEW c, ConnOK(c), NEW script \in Seq(Kinds), NEW oom \in BOOLEAN,
           InputOK(c, Len(script))
    PROVE  LET d == ParseOne(c, script, oom)
           IN  /\ ConnOK(d) /\ InputOK(d, Len(script)) /\ Same(c, d, Parsing)
               /\ Killed(c, d)
               /\ (d = c /\ ~Complete(c)) \/ d.state = "dead" \/ d.in = c.in + 1
<1> DEFINE d == ParseOne(c, script, oom)
           k == script[c.in + 1]
           n == Len(script)
<1>0. IsConn(c) /\ n \in Nat
  BY DEF ConnOK
<1> HIDE DEF n
<1>1. CASE ~Complete(c) \/ c.state = "dead"
  <2>1. d = c
    BY <1>1, Zenon DEF ParseOne
  <2>2. Same(c, c, Parsing) /\ Killed(c, c)
    BY <1>0, Zenon DEF Same, Killed
  <2> QED BY <1>1, <2>1, <2>2, Zenon
<1>2. CASE Complete(c) /\ c.state # "dead" /\ (k = "bad" \/ (Full(c) /\ oom))
  <2>1. d = Dead(c)
    BY <1>2, Zenon DEF ParseOne
  <2>2. /\ ConnOK(d) /\ InputOK(d, n) /\ Same(c, d, {"state", "fd"})
        /\ d.state = "dead" /\ d.fd = FALSE
    BY <1>0, <2>1, DeadConn, Zenon DEF n
  <2> HIDE DEF d
  <2>3. Same(c, d, Parsing) /\ Killed(c, d)
    BY <2>2, Zenon DEF Same, Killed, Parsing
  <2> QED BY <2>2, <2>3, Zenon DEF d, n
<1>3. CASE Complete(c) /\ c.state # "dead" /\ ~(k = "bad" \/ (Full(c) /\ oom))
  <2>1. d = Enqueued(IF Full(c) THEN Resized(c) ELSE c, k)
    BY <1>3, Zenon DEF ParseOne
  <2>2. /\ ConnOK(d) /\ InputOK(d, n) /\ Same(c, d, Parsing \ {"state", "fd"})
        /\ d.in = c.in + 1
    BY <1>0, <1>3, <2>1, EnqueuedConn, Zenon DEF n
  <2> HIDE DEF d
  <2>3. d.state = c.state /\ d.fd = c.fd /\ Same(c, d, Parsing)
    BY <2>2, Zenon DEF Same, Fields, Parsing
  <2> QED BY <2>2, <2>3, Zenon DEF d, n, Killed
<1> QED BY <1>1, <1>2, <1>3, Zenon

\* A connection has no more requests than its client's script, so that as many
\* turns as the script is long take them all.
LEMMA ParseEnds ==
    ASSUME NEW c, ConnOK(c), NEW n \in Nat, InputOK(c, n), c.in >= n
    PROVE  ~Complete(c)
<1>1. /\ c.in \in Nat /\ c.len \in Nat /\ c.parsed \in Nat /\ c.sock \in Nat
      /\ c.sent \in Nat /\ c.sent <= 2 * n
      /\ c.sent >= c.sock + 2 * c.in + (c.len - c.parsed)
  BY RingTypes, Zenon DEF ConnOK, BuffersOK, InputOK, Unit
<1>2. c.len - c.parsed >= 2 => FALSE
  BY <1>1
<1> QED BY <1>2, Zenon DEF Complete, Unit

\* One turn of the write loop.
Writing == {"wbuf", "wbuf_sent", "got", "refs", "slots", "out"}

\* One turn of the write loop of net_write_handler.
LEMMA WriteTurn ==
    ASSUME LeastFact, CardFact, NEW c, ConnOK(c)
    PROVE  LET d == Sent(Refill(c))
           IN  ConnOK(d) /\ Same(c, d, Writing) /\ c.out <= d.out
<1> DEFINE e == Refill(c)
           d == Sent(e)
<1>1. /\ ConnOK(e) /\ Same(c, e, {"wbuf", "wbuf_sent", "refs", "slots", "out"})
      /\ c.out <= e.out
  BY RefillConn, Zenon
<1> HIDE DEF e
<1>2. ConnOK(d) /\ Same(e, d, {"got", "wbuf_sent"})
  BY <1>1, SentConn, Zenon
<1> HIDE DEF d
<1>3. d.out = e.out
  BY <1>2, Zenon DEF Same, Fields
<1>4. Same(c, d, Writing)
  BY <1>1, <1>2, Zenon DEF Same, Writing
<1> QED BY <1>1, <1>2, <1>3, <1>4, Zenon DEF d, e

\* A reply arrives for a request in flight.
LEMMA DoneConn ==
    ASSUME NEW c, ConnOK(c), NEW seq \in Used(c)
    PROVE  LET d == [c EXCEPT !.slots[Index(c, seq)].state = "done"]
           IN  ConnOK(d) /\ Same(c, d, {"slots"})
<1> DEFINE ring == [c.slots EXCEPT ![Index(c, seq)].state = "done"]
           d == [c EXCEPT !.slots[Index(c, seq)].state = "done"]
<1>0. IsConn(c) /\ WritesOK(c) /\ RingOK(c) /\ BuffersOK(c)
  BY Zenon DEF ConnOK
<1>1. PICK i \in 0..c.size-1 : i = Index(c, seq)
  BY <1>0, RingTypes, RingPlaces, Zenon DEF Index
<1>2. /\ c.slots \in [0..c.size-1 -> SlotType]
  BY <1>0, RingPlaces, Zenon
<1>3. /\ ring \in [0..c.size-1 -> SlotType]
      /\ \A j \in 0..c.size-1 : ring[j].req = c.slots[j].req /\ ring[j].nb = c.slots[j].nb
  BY <1>1, <1>2, Zenon DEF SlotType
<1>4. Same(c, d, {"slots"}) /\ d.slots = ring
  <2>1. d = [c EXCEPT !.slots = ring]
    BY Zenon
  <2> HIDE DEF ring, d
  <2> QED BY <1>0, <2>1, Zenon DEF IsConn, Fields, Same
<1> HIDE DEF ring, d
<1>5. /\ d.in = c.in /\ d.out = c.out /\ d.size = c.size
      /\ d.got = c.got /\ d.wbuf = c.wbuf /\ d.wbuf_sent = c.wbuf_sent
      /\ d.nb = c.nb /\ d.refs = c.refs /\ d.cap = c.cap /\ d.len = c.len
      /\ d.parsed = c.parsed /\ d.freed = c.freed /\ IsConn(d)
  BY <1>4, Zenon DEF Same, Fields
<1>6. /\ Used(d) = Used(c)
      /\ \A q \in Used(c) : /\ SlotAt(d, q).req = SlotAt(c, q).req
                             /\ SlotAt(d, q).nb = SlotAt(c, q).nb
  <2>1. Used(d) = Used(c)
    BY <1>5, Zenon DEF Used
  <2>2. \A q \in Used(c) : q % c.size \in 0..c.size-1
    BY <1>0, RingTypes, RingPlaces, Zenon
  <2> QED BY <1>3, <1>4, <1>5, <2>1, <2>2 DEF SlotAt, Index
<1>7. RingOK(d)
  BY <1>0, <1>3, <1>4, <1>5, <1>6 DEF RingOK
<1>8. WritesOK(d)
  BY <1>0, <1>5, Zenon DEF WritesOK
<1>9. d.len \in Nat /\ d.parsed \in Nat /\ d.parsed <= d.len
  BY <1>0, <1>5, Zenon DEF BuffersOK
<1>10. BuffersOK(d)
  BY <1>0, <1>5, <1>6, <1>9, BuffersFrame, Zenon
<1>11. ConnOK(d)
  BY <1>5, <1>7, <1>8, <1>10, Zenon DEF ConnOK
<1> QED BY <1>4, <1>11, Zenon DEF d

\* net_conn_free gives up the connection's own reference.
LEMMA FreedConn ==
    ASSUME CardFact, NEW c, ConnOK(c)
    PROVE  LET d == [c EXCEPT !.fd = FALSE, !.freed = @ + 1, !.refs[c.nb + 1] = @ - 1]
           IN  /\ ConnOK(d) /\ Same(c, d, {"fd", "freed", "refs"})
               /\ d.fd = FALSE /\ d.freed = c.freed + 1
<1> DEFINE counts == [c.refs EXCEPT ![c.nb + 1] = @ - 1]
           d == [c EXCEPT !.fd = FALSE, !.freed = @ + 1, !.refs[c.nb + 1] = @ - 1]
<1>0. IsConn(c) /\ WritesOK(c) /\ RingOK(c) /\ BuffersOK(c)
  BY Zenon DEF ConnOK
<1>1. /\ c.nb \in Nat /\ c.refs \in Seq(Int) /\ Len(c.refs) = c.nb + 1
      /\ DOMAIN c.refs = 1..c.nb+1 /\ c.freed \in Nat
  BY <1>0, SMTT(40) DEF BuffersOK
<1>2. /\ Same(c, d, {"fd", "freed", "refs"}) /\ d.refs = counts /\ d.fd = FALSE
      /\ d.freed = c.freed + 1
  <2>1. d = [c EXCEPT !.fd = FALSE, !.freed = c.freed + 1, !.refs = counts]
    BY <1>0, Zenon DEF IsConn, Fields
  <2> HIDE DEF counts, d
  <2> QED BY <1>0, <2>1, Zenon DEF IsConn, Fields, Same
<1>3. counts \in Seq(Int) /\ Len(counts) = c.nb + 1
  BY <1>1
<1> HIDE DEF d
<1>4. /\ d.in = c.in /\ d.out = c.out /\ d.size = c.size /\ d.slots = c.slots
      /\ d.got = c.got /\ d.wbuf = c.wbuf /\ d.wbuf_sent = c.wbuf_sent
      /\ d.nb = c.nb /\ d.cap = c.cap /\ d.len = c.len
      /\ d.parsed = c.parsed /\ IsConn(d)
  BY <1>2, Zenon DEF Same, Fields
<1>5. Used(d) = Used(c) /\ \A q : SlotAt(d, q) = SlotAt(c, q)
  BY <1>4, Zenon DEF Used, SlotAt, Index
<1>6. RingOK(d)
  BY <1>0, <1>4, <1>5, Zenon DEF RingOK
<1>7. WritesOK(d)
  BY <1>0, <1>4, Zenon DEF WritesOK
<1>8. ASSUME d.freed < 2, NEW b \in 1..d.nb+1
      PROVE  d.refs[b] = Cardinality(Within(d, b)) + Own(d, b)
  <2>1. c.freed = 0 /\ d.freed = 1 /\ b \in 1..c.nb+1
    BY <1>1, <1>2, <1>4, <1>8
  <2>2. c.refs[b] = Cardinality(Within(c, b)) + Own(c, b)
    BY <1>0, <2>1 DEF BuffersOK
  <2>3. Within(d, b) = Within(c, b)
    BY <1>5 DEF Within
  <2>4. Cardinality(Within(c, b)) \in Nat
    BY <1>0, WithinFinite, Zenon
  <2>5. Own(c, b) = (IF b = c.nb + 1 THEN 1 ELSE 0) /\ Own(d, b) = 0
    BY <2>1, Zenon DEF Own
  <2>6. d.refs[b] = c.refs[b] - IF b = c.nb + 1 THEN 1 ELSE 0
    BY <1>1, <1>2, <2>1
  <2> QED BY <2>2, <2>3, <2>4, <2>5, <2>6
<1>9. BuffersOK(d)
  <2>1. \A q \in Used(d) : SlotAt(d, q).nb <= d.nb
    BY <1>0, <1>4, <1>5, Zenon DEF BuffersOK
  <2>2. /\ d.nb \in Nat /\ d.cap \in Nat /\ d.len \in Nat /\ d.parsed \in Nat
        /\ d.parsed <= d.len /\ d.freed \in Nat
    BY <1>0, <1>1, <1>2, <1>4, SMTT(40) DEF BuffersOK
  <2>3. d.refs \in Seq(Int) /\ Len(d.refs) = d.nb + 1
    BY <1>2, <1>3, <1>4, Zenon
  <2> HIDE DEF counts
  <2> QED BY <1>8, <2>1, <2>2, <2>3, Zenon DEF BuffersOK
<1>10. ConnOK(d)
  BY <1>4, <1>6, <1>7, <1>9, Zenon DEF ConnOK
<1> QED BY <1>2, <1>10, Zenon DEF d

\* A new connection.
LEMMA NewConnOK ==
    ASSUME CardFact, NEW n \in Nat
    PROVE  ConnOK(NewConn) /\ InputOK(NewConn, n)
<1> USE PipelineAssumption
<1> DEFINE c == NewConn
<1>1. IsConn(c)
  BY Zenon DEF NewConn, IsConn, Fields
<1>2. /\ c.in = 0 /\ c.out = 0 /\ c.size = InitPipe
      /\ c.slots = [i \in 0..InitPipe-1 |-> NoSlot]
      /\ c.got = << >> /\ c.wbuf = << >> /\ c.wbuf_sent = 0
      /\ c.nb = 0 /\ c.refs = <<1>> /\ c.cap = InitBuf /\ c.len = 0
      /\ c.parsed = 0 /\ c.freed = 0
  BY Zenon DEF NewConn
<1> HIDE DEF c
<1>3. Used(c) = {}
  BY <1>2 DEF Used
<1>4. RingOK(c)
  <2>1. NoSlot \in SlotType
    BY Zenon DEF NoSlot, SlotType
  <2>2. c.slots \in [0..c.size-1 -> SlotType]
    BY <1>2, <2>1, Zenon
  <2>3. c.size \in Nat \ {0}
    BY <1>2, Zenon DEF PipelineAssumption
  <2> QED BY <1>2, <1>3, <2>2, <2>3 DEF RingOK
<1>5. WritesOK(c)
  BY <1>2 DEF WritesOK, Writes
<1>6. BuffersOK(c)
  <2>1. c.refs \in Seq(Int) /\ Len(c.refs) = 1 /\ c.refs[1] = 1
    BY <1>2
  <2>2. ASSUME NEW b \in 1..c.nb+1 PROVE c.refs[b] = Cardinality(Within(c, b)) + Own(c, b)
    <3>1. b = 1
      BY <1>2
    <3>2. Within(c, b) = {}
      BY <1>3, Zenon DEF Within
    <3>3. Cardinality(Within(c, b)) = 0
      BY <3>2, Zenon DEF CardFact
    <3>4. Own(c, b) = 1
      BY <1>2, <3>1 DEF Own
    <3> QED BY <2>1, <3>1, <3>3, <3>4
  <2>3. c.cap \in Nat
    BY <1>2, Zenon DEF PipelineAssumption
  <2> QED BY <1>2, <1>3, <2>1, <2>2, <2>3 DEF BuffersOK
<1>7. InputOK(c, n)
  <2>1. /\ c.state = "none" /\ c.fd = FALSE /\ c.eof = FALSE /\ c.rst = FALSE
        /\ c.sock = 0 /\ c.sent = 0
    BY Zenon DEF c, NewConn
  <2>2. c.in = 0 /\ c.len = 0 /\ c.parsed = 0
    BY <1>2, Zenon
  <2>3. 0 <= Unit * n /\ 0 >= 0 + Unit * 0 + (0 - 0) /\ 0 = 0 + Unit * 0 + (0 - 0) /\ 0 \in Nat
    BY DEF Unit
  <2> QED BY <2>1, <2>2, <2>3, Zenon DEF InputOK
<1> QED BY <1>1, <1>4, <1>5, <1>6, <1>7, Zenon DEF ConnOK, c

---------------------------------------------------------------------------
(* The lists *)

Distinct(l) == \A i, j \in DOMAIN l : l[i] = l[j] => i = j

\* Taking the i-th element out of a list.
LEMMA Cut ==
    ASSUME NEW S, NEW l \in Seq(S), NEW i \in 1..Len(l)
    PROVE  LET m == SubSeq(l, 1, i - 1) \o SubSeq(l, i + 1, Len(l))
           IN  /\ m \in Seq(S) /\ Len(m) = Len(l) - 1
               /\ \A j \in 1..Len(l)-1 : m[j] = IF j < i THEN l[j] ELSE l[j + 1]
<1>1. PICK n \in Nat : n = Len(l) /\ i <= n
  OBVIOUS
<1> DEFINE a == SubSeq(l, 1, i - 1)
           b == SubSeq(l, i + 1, n)
<1>2. a \in Seq(S) /\ Len(a) = i - 1 /\ \A j \in 1..i-1 : a[j] = l[j]
  BY <1>1
<1>3. b \in Seq(S) /\ Len(b) = n - i /\ \A j \in 1..n-i : b[j] = l[j + i]
  BY <1>1
<1> HIDE DEF a, b
<1>4. /\ a \o b \in Seq(S) /\ Len(a \o b) = Len(a) + Len(b)
      /\ \A j \in 1..Len(a)+Len(b) :
           (a \o b)[j] = IF j <= Len(a) THEN a[j] ELSE b[j - Len(a)]
  BY <1>2, <1>3, Joined, Zenon
<1>5. Len(a) + Len(b) = n - 1
  BY <1>2, <1>3
<1>6. ASSUME NEW j \in 1..n-1 PROVE (a \o b)[j] = IF j < i THEN l[j] ELSE l[j + 1]
  <2>1. CASE j < i
    <3>1. j \in 1..i-1 /\ j \in 1..Len(a)+Len(b) /\ j <= Len(a)
      BY <1>2, <1>5, <2>1
    <3> QED BY <1>2, <1>4, <2>1, <3>1, Zenon
  <2>2. CASE ~(j < i)
    <3>1. /\ j - (i - 1) \in 1..n-i /\ j \in 1..Len(a)+Len(b) /\ ~(j <= Len(a))
          /\ j - (i - 1) + i = j + 1 /\ j - Len(a) = j - (i - 1)
      BY <1>2, <1>5, <2>2
    <3> QED BY <1>3, <1>4, <2>2, <3>1, Zenon
  <2> QED BY <2>1, <2>2, Zenon
<1> QED BY <1>1, <1>4, <1>5, <1>6, Zenon DEF a, b

\* Unlinking a connection from a list it is on once.
LEMMA WithoutFacts ==
    ASSUME NEW S, NEW l \in Seq(S), Distinct(l), NEW c
    PROVE  /\ Without(l, c) \in Seq(S) /\ Distinct(Without(l, c))
           /\ Range(Without(l, c)) = Range(l) \ {c}
<1> DEFINE at == {i \in DOMAIN l : l[i] = c}
           cut(i) == SubSeq(l, 1, i - 1) \o SubSeq(l, i + 1, Len(l))
<1>1. CASE at = {}
  <2>1. Without(l, c) = l
    BY <1>1, Zenon DEF Without
  <2>2. c \notin Range(l)
    BY <1>1, Zenon DEF Range
  <2> QED BY <2>1, <2>2, Zenon
<1>2. CASE at # {}
  <2>1. PICK i \in at : Without(l, c) = cut(i)
    BY <1>2, Zenon DEF Without
  <2>2. i \in 1..Len(l) /\ l[i] = c /\ DOMAIN l = 1..Len(l)
    BY <2>1
  <2> DEFINE m == cut(i)
  <2>3. /\ m \in Seq(S) /\ Len(m) = Len(l) - 1
        /\ \A j \in 1..Len(l)-1 : m[j] = IF j < i THEN l[j] ELSE l[j + 1]
    BY <2>2, Cut, Zenon
  <2> HIDE DEF m, at
  <2>4. PICK n \in Nat : n = Len(l)
    OBVIOUS
  <2>5. DOMAIN m = 1..n-1 /\ DOMAIN l = 1..n /\ i \in 1..n
    BY <2>2, <2>3, <2>4
  <2>6. \A j \in 1..n-1 : m[j] = IF j < i THEN l[j] ELSE l[j + 1]
    BY <2>3, <2>4, Zenon
  <2>7. ASSUME NEW j \in 1..n-1, NEW k \in 1..n-1, m[j] = m[k] PROVE j = k
    <3> DEFINE up(x) == IF x < i THEN x ELSE x + 1
    <3>1. m[j] = l[up(j)] /\ m[k] = l[up(k)] /\ up(j) \in 1..n /\ up(k) \in 1..n
      BY <2>5, <2>6
    <3>2. up(j) = up(k)
      <4> HIDE DEF up
      <4> QED BY <2>5, <2>7, <3>1, Zenon DEF Distinct
    <3> QED BY <2>5, <3>2
  <2>8. Distinct(m)
    BY <2>5, <2>7, Zenon DEF Distinct
  <2>9. Range(m) = Range(l) \ {c}
    <3>1. ASSUME NEW x \in Range(m) PROVE x \in Range(l) \ {c}
      <4>1. PICK j \in 1..n-1 : x = m[j]
        BY <2>5, Zenon DEF Range
      <4>2. PICK k \in 1..n : k = (IF j < i THEN j ELSE j + 1) /\ k # i
        BY <2>5
      <4>3. x = l[k]
        BY <2>6, <4>1, <4>2, Zenon
      <4> QED BY <2>2, <2>5, <4>2, <4>3, Zenon DEF Distinct, Range
    <3>2. ASSUME NEW x \in Range(l) \ {c} PROVE x \in Range(m)
      <4>1. PICK k \in 1..n : x = l[k]
        BY <2>5, Zenon DEF Range
      <4>2. k # i
        BY <2>2, <4>1, Zenon
      <4>3. PICK j \in 1..n-1 : k = IF j < i THEN j ELSE j + 1
        <5>1. CASE k < i
          <6>1. k \in 1..n-1
            BY <2>5, <5>1
          <6> QED BY <5>1, <6>1, Zenon
        <5>2. CASE k > i
          <6>1. k - 1 \in 1..n-1 /\ ~(k - 1 < i) /\ k = (k - 1) + 1
            BY <2>5, <5>2
          <6> QED BY <6>1, Zenon
        <5> QED BY <2>5, <4>2, <5>1, <5>2
      <4>4. x = m[j]
        BY <2>6, <4>1, <4>3, Zenon
      <4> QED BY <2>5, <4>4, Zenon DEF Range
    <3> QED BY <3>1, <3>2, Zenon
  <2> QED BY <2>1, <2>3, <2>8, <2>9, Zenon DEF m
<1> QED BY <1>1, <1>2, Zenon

\* A connection is put at the head of a list.
LEMMA PushFacts ==
    ASSUME NEW S, NEW l \in Seq(S), Distinct(l), NEW c \in S, c \notin Range(l)
    PROVE  /\ <<c>> \o l \in Seq(S) /\ Distinct(<<c>> \o l)
           /\ Range(<<c>> \o l) = Range(l) \cup {c}
<1> DEFINE m == <<c>> \o l
<1>1. PICK n \in Nat : n = Len(l) /\ DOMAIN l = 1..n
  OBVIOUS
<1>2. /\ m \in Seq(S) /\ Len(m) = n + 1 /\ m[1] = c
      /\ \A j \in 1..n : m[j + 1] = l[j]
  BY <1>1
<1> HIDE DEF m
<1>3. DOMAIN m = 1..n+1 /\ \A j \in 2..n+1 : j - 1 \in 1..n /\ m[j] = l[j - 1]
  <2>1. ASSUME NEW j \in 2..n+1 PROVE j - 1 \in 1..n /\ m[j] = l[j - 1]
    <3>1. j - 1 \in 1..n /\ (j - 1) + 1 = j
      OBVIOUS
    <3> QED BY <1>2, <3>1, Zenon
  <2> QED BY <1>2, <2>1
<1>4. \A j \in 1..n+1 : j = 1 \/ j \in 2..n+1
  OBVIOUS
<1>5. ASSUME NEW j \in 1..n+1, NEW k \in 1..n+1, m[j] = m[k] PROVE j = k
  <2>1. CASE j = 1 /\ k # 1
    BY <1>1, <1>2, <1>3, <1>4, <1>5, <2>1 DEF Range
  <2>2. CASE j # 1 /\ k = 1
    BY <1>1, <1>2, <1>3, <1>4, <1>5, <2>2 DEF Range
  <2>3. CASE j # 1 /\ k # 1
    <3>1. j - 1 \in 1..n /\ k - 1 \in 1..n /\ l[j - 1] = l[k - 1]
      BY <1>3, <1>4, <1>5, <2>3, Zenon
    <3>2. j - 1 = k - 1
      BY <1>1, <3>1, Zenon DEF Distinct
    <3> QED BY <3>2
  <2> QED BY <2>1, <2>2, <2>3, Zenon
<1>6. Distinct(m)
  BY <1>3, <1>5, Zenon DEF Distinct
<1>7. Range(m) = Range(l) \cup {c}
  <2>1. ASSUME NEW x \in Range(m) PROVE x \in Range(l) \cup {c}
    BY <1>1, <1>2, <1>3, <1>4 DEF Range
  <2>2. c \in Range(m)
    <3>1. 1 \in DOMAIN m
      BY <1>3
    <3> QED BY <1>2, <3>1, Zenon DEF Range
  <2>3. ASSUME NEW x \in Range(l) PROVE x \in Range(m)
    <3>1. PICK j \in 1..n : x = l[j]
      BY <1>1, Zenon DEF Range
    <3>2. j + 1 \in DOMAIN m /\ m[j + 1] = x
      BY <1>2, <1>3, <3>1
    <3> QED BY <3>2, Zenon DEF Range
  <2> QED BY <2>1, <2>2, <2>3, Zenon
<1> QED BY <1>2, <1>6, <1>7, Zenon DEF m

---------------------------------------------------------------------------
(* The reactor *)

Parts == {"conn", "dirty", "dead"}
InDirty(g, c) == c \in Range(g.dirty)
InDead(g, c) == c \in Range(g.dead)

\* The reactor's connections and lists; no connection is listed twice.
ReactorOK(g) ==
    /\ g = [x \in Parts |-> g[x]]
    /\ g.conn = [c \in Conns |-> g.conn[c]]
    /\ g.dirty \in Seq(Conns) /\ Distinct(g.dirty)
    /\ g.dead \in Seq(Conns) /\ Distinct(g.dead)
    /\ \A c \in Conns : ~(InDirty(g, c) /\ InDead(g, c))

\* h differs from g in connection c and its places on the lists at most.
Apart(g, h, c) ==
    /\ ReactorOK(h)
    /\ \A d \in Conns \ {c} : /\ h.conn[d] = g.conn[d]
                              /\ InDirty(h, d) <=> InDirty(g, d)
                              /\ InDead(h, d) <=> InDead(g, d)

\* Two steps that touch one connection touch one connection.
LEMMA ApartTrans ==
    ASSUME NEW f, NEW g, NEW h, NEW c, Apart(f, g, c), Apart(g, h, c)
    PROVE  Apart(f, h, c)
  BY Zenon DEF Apart

\* Doing nothing touches no other connection.
LEMMA ApartSelf == ASSUME NEW g, ReactorOK(g), NEW c PROVE Apart(g, g, c)
  BY Zenon DEF Apart

\* A connection changes.
LEMMA SetConn ==
    ASSUME NEW g, ReactorOK(g), NEW c \in Conns, NEW k
    PROVE  LET h == [g EXCEPT !.conn[c] = k]
           IN  /\ Apart(g, h, c) /\ h.conn[c] = k
               /\ InDirty(h, c) <=> InDirty(g, c)
               /\ InDead(h, c) <=> InDead(g, c)
<1> DEFINE h == [g EXCEPT !.conn[c] = k]
<1>1. h = [x \in Parts |-> h[x]] /\ h.dirty = g.dirty /\ h.dead = g.dead
      /\ h.conn = [g.conn EXCEPT ![c] = k]
  BY Zenon DEF ReactorOK, Parts
<1> HIDE DEF h
<1>2. h.conn = [d \in Conns |-> h.conn[d]] /\ h.conn[c] = k
      /\ \A d \in Conns \ {c} : h.conn[d] = g.conn[d]
  BY <1>1, Zenon DEF ReactorOK
<1>3. \A d : InDirty(h, d) = InDirty(g, d) /\ InDead(h, d) = InDead(g, d)
  BY <1>1, Zenon DEF InDirty, InDead
<1>4. ReactorOK(h)
  BY <1>1, <1>2, <1>3, Zenon DEF ReactorOK
<1> QED BY <1>2, <1>3, <1>4, Zenon DEF Apart, h

\* Connections leave the lists and enter them.
LEMMA RemoveFacts ==
    ASSUME NEW g, ReactorOK(g), NEW c \in Conns
    PROVE  LET h == ListRemove(g, c)
           IN  Apart(g, h, c) /\ h.conn = g.conn /\ ~InDirty(h, c) /\ ~InDead(h, c)
<1> DEFINE h == ListRemove(g, c)
<1>1. /\ h = [x \in Parts |-> h[x]] /\ h.conn = g.conn
      /\ h.dirty = Without(g.dirty, c) /\ h.dead = Without(g.dead, c)
  BY Zenon DEF ReactorOK, Parts, ListRemove
<1> HIDE DEF h
<1>2. /\ h.dirty \in Seq(Conns) /\ Distinct(h.dirty)
      /\ Range(h.dirty) = Range(g.dirty) \ {c}
  BY <1>1, WithoutFacts, SMTT(40) DEF ReactorOK
<1>3. /\ h.dead \in Seq(Conns) /\ Distinct(h.dead)
      /\ Range(h.dead) = Range(g.dead) \ {c}
  BY <1>1, WithoutFacts DEF ReactorOK
<1>4. /\ ~InDirty(h, c) /\ ~InDead(h, c)
      /\ \A d \in Conns \ {c} : /\ InDirty(h, d) <=> InDirty(g, d)
                                /\ InDead(h, d) <=> InDead(g, d)
  BY <1>2, <1>3, Zenon DEF InDirty, InDead
<1>5. ReactorOK(h)
  BY <1>1, <1>2, <1>3, <1>4, Zenon DEF ReactorOK
<1> QED BY <1>1, <1>4, <1>5, Zenon DEF Apart, h

\* net_reactor_mark_dirty puts the connection on the dirty list alone.
LEMMA MarkDirtyFacts ==
    ASSUME NEW g, ReactorOK(g), NEW c \in Conns
    PROVE  LET h == MarkDirty(g, c)
           IN  Apart(g, h, c) /\ h.conn = g.conn /\ InDirty(h, c) /\ ~InDead(h, c)
<1> DEFINE h == MarkDirty(g, c)
           f == ListRemove(g, c)
<1>1. CASE InDirty(g, c)
  <2>1. h = g
    BY <1>1, Zenon DEF MarkDirty, InDirty
  <2> QED BY <1>1, <2>1, ApartSelf, Zenon DEF ReactorOK
<1>2. CASE ~InDirty(g, c)
  <2>1. Apart(g, f, c) /\ f.conn = g.conn /\ ~InDirty(f, c) /\ ~InDead(f, c)
    BY RemoveFacts, Zenon
  <2>2. h = [f EXCEPT !.dirty = <<c>> \o f.dirty]
    BY <1>2, Zenon DEF MarkDirty, InDirty
  <2> HIDE DEF f, h
  <2>3. ReactorOK(f)
    BY <2>1, Zenon DEF Apart
  <2>4. /\ h = [x \in Parts |-> h[x]] /\ h.conn = f.conn
        /\ h.dirty = <<c>> \o f.dirty /\ h.dead = f.dead
    BY <2>2, <2>3, Zenon DEF ReactorOK, Parts
  <2>5. /\ h.dirty \in Seq(Conns) /\ Distinct(h.dirty)
        /\ Range(h.dirty) = Range(f.dirty) \cup {c}
    <3>1. f.dirty \in Seq(Conns) /\ Distinct(f.dirty) /\ c \notin Range(f.dirty)
      BY <2>1, <2>3, Zenon DEF ReactorOK, InDirty
    <3>2. PICK l \in Seq(Conns) : l = f.dirty
      BY <3>1, Zenon
    <3>3. /\ <<c>> \o l \in Seq(Conns) /\ Distinct(<<c>> \o l)
          /\ Range(<<c>> \o l) = Range(l) \cup {c}
      BY <3>1, <3>2, PushFacts
    <3> QED BY <2>4, <3>2, <3>3, Zenon
  <2>6. /\ InDirty(h, c) /\ ~InDead(h, c)
        /\ \A d \in Conns \ {c} : /\ InDirty(h, d) <=> InDirty(f, d)
                                  /\ InDead(h, d) <=> InDead(f, d)
    BY <2>1, <2>4, <2>5, Zenon DEF InDirty, InDead
  <2>7. \A d \in Conns : ~(InDirty(h, d) /\ InDead(h, d))
    BY <2>3, <2>6, Zenon DEF ReactorOK
  <2>8. ReactorOK(h)
    BY <2>3, <2>4, <2>5, <2>7, Zenon DEF ReactorOK
  <2>9. Apart(f, h, c)
    BY <2>4, <2>6, <2>8, Zenon DEF Apart
  <2> QED BY <2>1, <2>4, <2>6, <2>9, ApartTrans, Zenon DEF h
<1> QED BY <1>1, <1>2, Zenon

\* net_reactor_mark_dead puts the connection on the dead list alone.
LEMMA MarkDeadFacts ==
    ASSUME NEW g, ReactorOK(g), NEW c \in Conns, ~InDead(g, c)
    PROVE  LET h == MarkDead(g, c)
           IN  /\ Apart(g, h, c) /\ h.conn[c] = Dead(g.conn[c])
               /\ ~InDirty(h, c) /\ InDead(h, c)
<1> DEFINE f == ListRemove(g, c)
           k == Dead(f.conn[c])
           e == [f EXCEPT !.conn[c] = k]
           h == MarkDead(g, c)
<1>1. Apart(g, f, c) /\ f.conn = g.conn /\ ~InDirty(f, c) /\ ~InDead(f, c)
  BY RemoveFacts, Zenon
<1>2. h = [f EXCEPT !.conn[c] = k, !.dead = <<c>> \o f.dead]
  BY Zenon DEF MarkDead, InDead
<1> HIDE DEF f, h, k
<1>3. ReactorOK(f)
  BY <1>1, Zenon DEF Apart
<1>4. Apart(f, e, c) /\ e.conn[c] = k /\ ~InDirty(e, c) /\ ~InDead(e, c)
  BY <1>1, <1>3, SetConn, Zenon
<1>5. h = [e EXCEPT !.dead = <<c>> \o e.dead]
  BY <1>2, <1>3, Zenon DEF ReactorOK, Parts
<1> HIDE DEF e
<1>6. ReactorOK(e)
  BY <1>4, Zenon DEF Apart
<1>7. /\ h = [x \in Parts |-> h[x]] /\ h.conn = e.conn
      /\ h.dead = <<c>> \o e.dead /\ h.dirty = e.dirty
  BY <1>5, <1>6, Zenon DEF ReactorOK, Parts
<1>8. /\ h.dead \in Seq(Conns) /\ Distinct(h.dead)
      /\ Range(h.dead) = Range(e.dead) \cup {c}
  <2>1. e.dead \in Seq(Conns) /\ Distinct(e.dead) /\ c \notin Range(e.dead)
    BY <1>4, <1>6, Zenon DEF ReactorOK, InDead
  <2>2. PICK l \in Seq(Conns) : l = e.dead
    BY <2>1, Zenon
  <2>3. /\ <<c>> \o l \in Seq(Conns) /\ Distinct(<<c>> \o l)
        /\ Range(<<c>> \o l) = Range(l) \cup {c}
    BY <2>1, <2>2, PushFacts
  <2> QED BY <1>7, <2>2, <2>3, Zenon
<1>9. /\ InDead(h, c) /\ ~InDirty(h, c)
      /\ \A d \in Conns \ {c} : /\ InDirty(h, d) <=> InDirty(e, d)
                                /\ InDead(h, d) <=> InDead(e, d)
  BY <1>4, <1>7, <1>8, Zenon DEF InDirty, InDead
<1>10. \A d \in Conns : ~(InDirty(h, d) /\ InDead(h, d))
  BY <1>6, <1>9, Zenon DEF ReactorOK
<1>11. ReactorOK(h)
  BY <1>6, <1>7, <1>8, <1>10, Zenon DEF ReactorOK
<1>12. Apart(e, h, c)
  BY <1>7, <1>9, <1>11, Zenon DEF Apart
<1>13. Apart(g, h, c)
  BY <1>1, <1>4, <1>12, ApartTrans, Zenon
<1> QED BY <1>1, <1>4, <1>7, <1>9, <1>13, Zenon DEF h, k

---------------------------------------------------------------------------
(* The invariant of one connection *)

Quiet(k) == FlushEnd(k) = k.out /\ Unsent(k) = << >>
Good(k, c) == ConnOK(k) /\ InputOK(k, Len(Script[c]))

\* A connection's life: what has happened when it is closing, dead or freed.
LifeOK(k) ==
    /\ k.state = "closing" => k.eof /\ ~k.rst /\ k.sock = 0
    /\ k.state # "dead" => ~Complete(k)
    /\ k.fd => k.state \in {"alive", "closing"} /\ k.freed = 0
    /\ k.state = "alive" \/ (k.state = "closing" /\ k.freed = 0) => k.fd
    /\ k.state = "none" => k.freed = 0 /\ Quiet(k) /\ Drained(k)
    /\ k.freed > 0 => Drained(k) /\ k.state \in {"closing", "dead"}
    /\ k.freed > 0 /\ k.state = "closing" => Unsent(k) = << >>
    /\ k.freed > 1 => k.state = "closing" /\ k.got # << >>

\* Where it may be: on the dirty list, on the dead list.
Placed(k, dirty, dead) ==
    /\ dead => k.state = "dead"
    /\ dirty \/ dead => k.freed = 0 /\ k.state # "none"
    /\ k.fd /\ ~dirty => Quiet(k)

Fine(g, c) ==
    /\ Good(g.conn[c], c) /\ LifeOK(g.conn[c])
    /\ Placed(g.conn[c], InDirty(g, c), InDead(g, c))

CInv == ReactorOK(r) /\ \A c \in Conns : Fine(r, c)

\* A connection the reactor may read from and write to.
Live(k) ==
    /\ k.fd /\ k.freed = 0 /\ k.state \in {"alive", "closing"}
    /\ k.state = "closing" => k.eof /\ ~k.rst /\ k.sock = 0

\* What the loops do, for any number of turns; proved at the end.
Read(k, d) ==
    /\ ConnOK(d) /\ Same(k, d, Input) /\ d.sock = 0
    /\ d.len - d.parsed = k.len - k.parsed + k.sock
Parsed(k, d, n) ==
    /\ ConnOK(d) /\ InputOK(d, n) /\ Same(k, d, Parsing) /\ Killed(k, d)
    /\ d.state = "dead" \/ ~Complete(d)
Written(k, d) ==
    /\ ConnOK(d) /\ Same(k, d, Writing) /\ k.out <= d.out
    /\ Unsent(d) = << >> => FlushEnd(d) = d.out
LoopFacts ==
    /\ LeastFact /\ CardFact
    /\ \A k : ConnOK(k) /\ k.freed = 0 /\ k.sock \in Nat => Read(k, ReadAll(k))
    /\ \A k, oom : \A script \in Seq(Kinds) :
          ConnOK(k) /\ InputOK(k, Len(script)) /\ oom \in BOOLEAN =>
             Parsed(k, ParseAll(k, script, oom), Len(script))
    /\ \A k : \A room \in Nat : ConnOK(k) => Written(k, WriteAll(k, room))

\* The requests of a client are a finite sequence.
LEMMA Scripts == ASSUME NEW c \in Conns
                 PROVE  Script[c] \in Seq(Kinds) /\ Len(Script[c]) \in Nat
<1>1. Script[c] \in Seq(Kinds)
  BY ConnAssumption, Zenon
<1> QED BY <1>1

\* The other connections are as fine as they were.
LEMMA OthersFine ==
    ASSUME NEW g, NEW h, NEW c, Apart(g, h, c), \A d \in Conns \ {c} : Fine(g, d),
           Fine(h, c)
    PROVE  ReactorOK(h) /\ \A d \in Conns : Fine(h, d)
<1>1. ASSUME NEW d \in Conns \ {c} PROVE Fine(h, d)
  <2>1. /\ h.conn[d] = g.conn[d] /\ Fine(g, d)
        /\ InDirty(h, d) <=> InDirty(g, d)
        /\ InDead(h, d) <=> InDead(g, d)
    BY Zenon DEF Apart
  <2> QED BY <2>1, Zenon DEF Fine, Placed
<1> QED BY <1>1, Zenon DEF Apart

\* net_reactor_mark_dead.
LEMMA KilledFine ==
    ASSUME NEW g, ReactorOK(g), NEW c \in Conns, Good(g.conn[c], c),
           g.conn[c].freed = 0, ~InDead(g, c)
    PROVE  LET h == MarkDead(g, c)
           IN  /\ Apart(g, h, c) /\ Fine(h, c) /\ h.conn[c].freed = 0
               /\ h.conn[c].state = "dead"
<1> DEFINE h == MarkDead(g, c)
           k == g.conn[c]
           d == h.conn[c]
<1>1. Apart(g, h, c) /\ d = Dead(k) /\ ~InDirty(h, c) /\ InDead(h, c)
  BY MarkDeadFacts, Zenon
<1> HIDE DEF h
<1>2. /\ ConnOK(d) /\ InputOK(d, Len(Script[c])) /\ Same(k, d, {"state", "fd"})
      /\ d.state = "dead" /\ d.fd = FALSE
  BY <1>1, DeadConn, Scripts, Zenon DEF Good
<1>3. d.freed = 0
  BY <1>2, Zenon DEF Same, Fields
<1>4. LifeOK(d) /\ Placed(d, InDirty(h, c), InDead(h, c))
  BY <1>1, <1>2, <1>3 DEF LifeOK, Placed
<1> QED BY <1>1, <1>2, <1>3, <1>4, Zenon DEF Fine, Good, h

---------------------------------------------------------------------------
(* Reading *)

\* The input of a live connection is read, and what was sent is still there.
LEMMA ReadGood ==
    ASSUME LoopFacts, NEW c \in Conns, NEW k, Good(k, c), Live(k), ~k.rst
    PROVE  LET d == ReadAll(k)
           IN  /\ Good(d, c) /\ d.fd /\ d.freed = 0 /\ d.state = k.state /\ d.sock = 0
               /\ d.eof = k.eof /\ ~d.rst
<1> DEFINE d == ReadAll(k)
<1>1. ConnOK(k) /\ InputOK(k, Len(Script[c])) /\ k.sock \in Nat /\ Len(Script[c]) \in Nat
  BY Scripts, Zenon DEF Good, InputOK
<1>2. Read(k, d)
  BY <1>1, Zenon DEF LoopFacts, Live
<1> HIDE DEF d
<1>3. /\ d.state = k.state /\ d.fd = k.fd /\ d.freed = k.freed /\ d.eof = k.eof
      /\ d.rst = k.rst /\ d.sent = k.sent /\ d.in = k.in
  BY <1>2, Zenon DEF Read, Same, Input, Fields
<1>4. d.sock + Unit * d.in + (d.len - d.parsed) = k.sock + Unit * k.in + (k.len - k.parsed)
  <2>1. k.in \in Nat /\ k.len \in Nat /\ k.parsed \in Nat
    BY <1>1, RingTypes, Zenon DEF ConnOK, BuffersOK
  <2>2. d.sock = 0 /\ d.in = k.in /\ d.len - d.parsed = k.len - k.parsed + k.sock
    BY <1>2, <1>3, Zenon DEF Read
  <2> QED BY <1>1, <2>1, <2>2 DEF Unit
<1>5. /\ d.state \in {"none", "alive", "closing", "dead"} /\ d.fd \in BOOLEAN
      /\ d.sock \in Nat /\ ConnOK(d)
  BY <1>1, <1>2, <1>3 DEF InputOK, Read
<1>6. InputOK(d, Len(Script[c]))
  BY <1>1, <1>3, <1>4, <1>5, InputFrame, Zenon
<1> QED BY <1>2, <1>3, <1>5, <1>6, Zenon DEF Good, Live, Read, d

\* The client has closed: the connection is closing once the input is read.
LEMMA ClosingFacts ==
    ASSUME NEW g, ReactorOK(g), NEW c \in Conns, Good(g.conn[c], c)
    PROVE  LET h == MarkClosing(g, c)
               k == g.conn[c]
               d == h.conn[c]
           IN  /\ Apart(g, h, c) /\ Good(d, c) /\ Same(k, d, {"state"})
               /\ k.state = "alive" =>
                     d.state = "closing" /\ InDirty(h, c) /\ ~InDead(h, c)
               /\ k.state # "alive" => h = g
<1> DEFINE h == MarkClosing(g, c)
           k == g.conn[c]
           e == [k EXCEPT !.state = "closing"]
           f == [g EXCEPT !.conn[c] = e]
<1>1. CASE k.state # "alive"
  <2>1. h = g
    BY <1>1, Zenon DEF MarkClosing
  <2> QED BY <1>1, <2>1, ApartSelf, Zenon DEF Good, ConnOK, Same
<1>2. CASE k.state = "alive"
  <2>1. h = MarkDirty(f, c)
    BY <1>2, Zenon DEF MarkClosing
  <2>2. Same(k, e, {"state"}) /\ e.state = "closing"
    BY Zenon DEF Good, ConnOK, IsConn, Fields, Same
  <2> HIDE DEF e, k
  <2>3. Good(e, c)
    <3>0. Same(k, e, Outer)
      BY <2>2, Zenon DEF Same, Outer
    <3>1. ConnOK(k) /\ ConnOK(e)
      BY <3>0, ConnFrame, Zenon DEF Good, k
    <3>2. /\ e.fd = k.fd /\ e.eof = k.eof /\ e.rst = k.rst /\ e.sent = k.sent
          /\ e.sock = k.sock /\ e.in = k.in /\ e.len = k.len /\ e.parsed = k.parsed
      BY <2>2, Zenon DEF Same, Fields
    <3>3. InputOK(k, Len(Script[c])) /\ Len(Script[c]) \in Nat
      BY Scripts, Zenon DEF Good, k
    <3>4. e.fd \in BOOLEAN /\ e.sock \in Nat
      BY <3>2, <3>3, Zenon DEF InputOK
    <3>5. InputOK(e, Len(Script[c]))
      BY <2>2, <3>1, <3>2, <3>3, <3>4, InputFrame, Zenon
    <3> QED BY <3>1, <3>5, Zenon DEF Good
  <2>4. Apart(g, f, c) /\ f.conn[c] = e
    BY SetConn, Zenon
  <2> HIDE DEF f
  <2>5. ReactorOK(f)
    BY <2>4, Zenon DEF Apart
  <2>6. Apart(f, h, c) /\ h.conn = f.conn /\ InDirty(h, c) /\ ~InDead(h, c)
    BY <2>1, <2>5, MarkDirtyFacts, Zenon
  <2> HIDE DEF h
  <2>7. Apart(g, h, c)
    BY <2>4, <2>6, ApartTrans, Zenon
  <2> QED BY <1>2, <2>2, <2>3, <2>4, <2>6, <2>7, Zenon DEF h, k
<1> QED BY <1>1, <1>2, Zenon

\* The parse loop: the connection dies, or no whole request is left.
LEMMA ParseFacts ==
    ASSUME LoopFacts, NEW g, ReactorOK(g), NEW c \in Conns, NEW oom \in BOOLEAN,
           Good(g.conn[c], c), g.conn[c].freed = 0, g.conn[c].state # "dead",
           ~InDead(g, c)
    PROVE  LET h == Parse(g, c, oom)
               k == g.conn[c]
               d == h.conn[c]
           IN  /\ Apart(g, h, c) /\ Good(d, c) /\ d.freed = 0
               /\ \/ d.state = "dead" /\ Fine(h, c)
                  \/ /\ Same(k, d, Parsing) /\ d.state = k.state /\ d.fd = k.fd
                     /\ ~Complete(d) /\ ~InDead(h, c)
                     /\ InDirty(h, c) <=> InDirty(g, c)
<1> DEFINE h == Parse(g, c, oom)
           k == g.conn[c]
           e == ParseAll(k, Script[c], oom)
           f == [g EXCEPT !.conn[c] = e]
<1>1. h = IF e.state = "dead" THEN MarkDead(f, c) ELSE f
  BY Zenon DEF Parse
<1>2. Parsed(k, e, Len(Script[c]))
  BY Scripts, Zenon DEF LoopFacts, Good
<1>3. /\ Apart(g, f, c) /\ f.conn[c] = e
      /\ InDirty(f, c) <=> InDirty(g, c)
      /\ InDead(f, c) <=> InDead(g, c)
  BY SetConn, Zenon
<1> HIDE DEF e, f, h
<1>4. Good(e, c) /\ e.freed = 0 /\ ReactorOK(f)
  <2>1. e.freed = k.freed
    BY <1>2, Zenon DEF Parsed, Same, Parsing, Fields
  <2> QED BY <1>2, <1>3, <2>1, Zenon DEF Parsed, Good, Apart
<1>5. CASE e.state = "dead"
  <2>1. h = MarkDead(f, c)
    BY <1>1, <1>5, Zenon
  <2>2. /\ Apart(f, h, c) /\ Fine(h, c) /\ h.conn[c].freed = 0
        /\ h.conn[c].state = "dead"
    BY <1>3, <1>4, <2>1, KilledFine, Zenon
  <2>3. Apart(g, h, c)
    BY <1>3, <2>2, ApartTrans, Zenon
  <2> QED BY <2>2, <2>3, Zenon DEF Fine, h
<1>6. CASE e.state # "dead"
  <2>1. h = f
    BY <1>1, <1>6, Zenon
  <2>2. e.state = k.state /\ e.fd = k.fd /\ ~Complete(e) /\ Same(k, e, Parsing)
    BY <1>2, <1>6, Zenon DEF Parsed, Killed
  <2> QED BY <1>3, <1>4, <2>1, <2>2, Zenon DEF h
<1> QED BY <1>5, <1>6, Zenon

\* What a reply on its way out changes of a connection.
Output == {"wbuf", "wbuf_sent", "got", "refs", "slots", "out", "want_write"}

\* Replies go out without touching the input.
LEMMA OutputFrame ==
    ASSUME NEW c \in Conns, NEW k, NEW d, Good(k, c), ConnOK(d), Same(k, d, Output)
    PROVE  /\ Good(d, c)
           /\ d.state = k.state /\ d.fd = k.fd /\ d.freed = k.freed /\ d.in = k.in
           /\ d.sock = k.sock /\ d.eof = k.eof /\ d.rst = k.rst /\ d.sent = k.sent
           /\ Complete(d) <=> Complete(k)
           /\ Torn(d) <=> Torn(k)
<1>1. /\ d.state = k.state /\ d.fd = k.fd /\ d.freed = k.freed /\ d.in = k.in
      /\ d.sock = k.sock /\ d.eof = k.eof /\ d.rst = k.rst /\ d.sent = k.sent
      /\ d.len = k.len /\ d.parsed = k.parsed
  BY Zenon DEF Same, Output, Fields
<1>2. InputOK(d, Len(Script[c]))
  BY <1>1, Zenon DEF Good, InputOK
<1> QED BY <1>1, <1>2, Zenon DEF Good, Complete, Torn

\* A live connection without a whole request left over is as it should be
\* when it is on the dirty list or has nothing to do.
LEMMA LiveFine ==
    ASSUME NEW g, NEW c, Good(g.conn[c], c), Live(g.conn[c]), ~Complete(g.conn[c]),
           ~InDead(g, c), InDirty(g, c) \/ Quiet(g.conn[c])
    PROVE  Fine(g, c)
<1>1. LifeOK(g.conn[c])
  BY DEF Live, LifeOK
<1>2. Placed(g.conn[c], InDirty(g, c), InDead(g, c))
  BY Zenon DEF Live, Placed
<1> QED BY <1>1, <1>2, Zenon DEF Fine

\* net_pipeline_try_flush, called by the reactor.
LEMMA FlushFacts ==
    ASSUME LoopFacts, NEW g, ReactorOK(g), NEW c \in Conns, Good(g.conn[c], c)
    PROVE  LET h == TryFlush(g, c)
               k == g.conn[c]
               d == h.conn[c]
           IN  /\ Apart(g, h, c) /\ Good(d, c) /\ Same(k, d, Output)
               /\ FlushEnd(d) = d.out /\ k.out <= d.out
               /\ InDirty(h, c) <=> InDirty(g, c)
               /\ InDead(h, c) <=> InDead(g, c)
<1> DEFINE h == TryFlush(g, c)
           k == g.conn[c]
           e == Flushed(k)
<1>1. h = [g EXCEPT !.conn[c] = e]
  BY Zenon DEF TryFlush
<1>2. /\ Apart(g, h, c) /\ h.conn[c] = e
      /\ InDirty(h, c) <=> InDirty(g, c)
      /\ InDead(h, c) <=> InDead(g, c)
  BY <1>1, SetConn
<1>3. /\ ConnOK(e) /\ Same(k, e, {"wbuf", "refs", "slots", "out"})
      /\ FlushEnd(e) = e.out /\ k.out <= e.out
  BY FlushedConn, Zenon DEF LoopFacts, Good
<1> HIDE DEF e, h
<1>4. Same(k, e, Output)
  BY <1>3, Zenon DEF Same, Output
<1>5. Good(e, c)
  BY <1>3, <1>4, OutputFrame, Zenon
<1> QED BY <1>2, <1>3, <1>4, <1>5, Zenon DEF h

\* The end of handle_read_resp: what is ready is flushed, and the connection
\* is marked dirty unless nothing is left to do for it.
LEMMA SettleFacts ==
    ASSUME LoopFacts, NEW g, ReactorOK(g), NEW c \in Conns, Good(g.conn[c], c),
           Live(g.conn[c]), ~Complete(g.conn[c]), ~InDead(g, c)
    PROVE  LET h == Settle(g, c)
               k == g.conn[c]
               d == h.conn[c]
           IN  /\ Apart(g, h, c) /\ Fine(h, c) /\ Same(k, d, Output) /\ ~InDead(h, c)
<1> DEFINE h == Settle(g, c)
           f == TryFlush(g, c)
           k == g.conn[c]
           e == f.conn[c]
<1>1. h = IF Drained(e) /\ e.wbuf = << >> THEN f ELSE MarkDirty(f, c)
  BY Zenon DEF Settle, Live
<1>2. /\ Apart(g, f, c) /\ Good(e, c) /\ Same(k, e, Output)
      /\ FlushEnd(e) = e.out
      /\ ~InDead(f, c)
  BY FlushFacts, Zenon
<1> HIDE DEF f, h
<1>3. Live(e) /\ ~Complete(e)
  <2> HIDE DEF e
  <2>1. /\ e.state = k.state /\ e.fd = k.fd /\ e.freed = k.freed /\ e.sock = k.sock
        /\ e.eof = k.eof /\ e.rst = k.rst
        /\ Complete(e) <=> Complete(k)
    BY <1>2, OutputFrame DEF Good
  <2> QED BY <2>1, Zenon DEF Live
<1>4. CASE Drained(e) /\ e.wbuf = << >>
  <2>1. h = f
    BY <1>1, <1>4, Zenon
  <2>2. WritesOK(e)
    BY <1>2, Zenon DEF Good, ConnOK
  <2>3. e.wbuf_sent = Len(e.wbuf)
    BY <1>4, <2>2 DEF WritesOK, Writes
  <2>4. Unsent(e) = << >>
    BY <2>2, <2>3, UnsentFacts, Zenon
  <2>5. Fine(f, c)
    BY <1>2, <1>3, <2>4, LiveFine, Zenon DEF Quiet
  <2> QED BY <1>2, <2>1, <2>5, Zenon DEF h
<1>5. CASE ~(Drained(e) /\ e.wbuf = << >>)
  <2>1. h = MarkDirty(f, c)
    BY <1>1, <1>5, Zenon
  <2>2. ReactorOK(f)
    BY <1>2, Zenon DEF Apart
  <2>3. Apart(f, h, c) /\ h.conn = f.conn /\ InDirty(h, c) /\ ~InDead(h, c)
    BY <2>1, <2>2, MarkDirtyFacts, Zenon
  <2>4. h.conn[c] = e
    BY <2>3, Zenon
  <2>5. Fine(h, c)
    BY <1>2, <1>3, <2>3, <2>4, LiveFine, Zenon
  <2>6. Apart(g, h, c)
    BY <1>2, <2>3, ApartTrans, Zenon
  <2> QED BY <1>2, <2>3, <2>4, <2>5, <2>6, Zenon DEF h
<1> QED BY <1>4, <1>5, Zenon

\* What handle_read_resp leaves: a dead connection, or one whose socket is
\* empty and that is closing if its client has closed.
WasRead(k, g, c) ==
    LET d == g.conn[c]
    IN  /\ Fine(g, c) /\ d.freed = 0
        /\ \/ d.state = "dead"
           \/ /\ Live(d) /\ ~Complete(d) /\ ~InDead(g, c)
              /\ d.sock = 0 /\ ~d.rst /\ d.eof = k.eof
              /\ k.eof => d.state = "closing"

\* handle_read_resp, when the client has closed or not.
LEMMA ClosedFacts ==
    ASSUME NEW g, ReactorOK(g), NEW c \in Conns, Good(g.conn[c], c), Live(g.conn[c]),
           g.conn[c].sock = 0, ~g.conn[c].rst, ~InDead(g, c)
    PROVE  LET k == g.conn[c]
               h == IF k.eof THEN MarkClosing(g, c) ELSE g
               d == h.conn[c]
           IN  /\ Apart(g, h, c) /\ Good(d, c) /\ Live(d) /\ ~InDead(h, c)
               /\ d.sock = 0 /\ ~d.rst /\ d.eof = k.eof
               /\ k.eof => d.state = "closing"
               /\ Complete(d) <=> Complete(k)
               /\ InDirty(g, c) => InDirty(h, c)
<1> DEFINE k == g.conn[c]
           h == IF k.eof THEN MarkClosing(g, c) ELSE g
           m == MarkClosing(g, c)
           d == h.conn[c]
<1>0. k.eof \in BOOLEAN /\ k.state \in {"alive", "closing"} /\ ConnOK(k)
  BY Zenon DEF Good, InputOK, Live
<1>1. CASE ~k.eof
  <2>1. h = g
    BY <1>1, Zenon
  <2> QED BY <1>1, <2>1, ApartSelf, Zenon
<1>2. CASE k.eof /\ k.state = "closing"
  <2>1. h = g
    BY <1>2, Zenon DEF MarkClosing
  <2> QED BY <1>2, <2>1, ApartSelf, Zenon
<1>3. CASE k.eof /\ k.state = "alive"
  <2>1. h = m
    BY <1>3, Zenon
  <2>2. /\ Apart(g, h, c) /\ Good(d, c) /\ Same(k, d, {"state"})
        /\ d.state = "closing" /\ InDirty(h, c) /\ ~InDead(h, c)
    BY <1>3, <2>1, ClosingFacts, Zenon
  <2> HIDE DEF h
  <2>3. /\ d.fd = k.fd /\ d.freed = k.freed /\ d.eof = k.eof /\ d.rst = k.rst
        /\ d.sock = k.sock /\ d.len = k.len /\ d.parsed = k.parsed
    BY <2>2, Zenon DEF Same, Fields
  <2>4. Live(d)
    BY <1>3, <2>2, <2>3, Zenon DEF Live
  <2>5. Complete(d) <=> Complete(k)
    BY <2>3, Zenon DEF Complete
  <2> QED BY <2>2, <2>3, <2>4, <2>5, Zenon DEF h
<1> QED BY <1>0, <1>1, <1>2, <1>3, Zenon

\* handle_read_resp as a whole.
LEMMA HandleReadFacts ==
    ASSUME LoopFacts, NEW g, ReactorOK(g), NEW c \in Conns, NEW oom \in BOOLEAN,
           Good(g.conn[c], c), Live(g.conn[c]), ~InDead(g, c)
    PROVE  LET h == HandleRead(g, c, oom)
           IN  Apart(g, h, c) /\ WasRead(g.conn[c], h, c)
<1> DEFINE k == g.conn[c]
           h == HandleRead(g, c, oom)
           e == ReadAll(k)
           f1 == [g EXCEPT !.conn[c] = e]
           f2 == IF k.eof THEN MarkClosing(f1, c) ELSE f1
           f3 == Parse(f2, c, oom)
<1>0. k.freed = 0 /\ k.eof \in BOOLEAN /\ k.state \in {"alive", "closing"}
  BY Zenon DEF Good, InputOK, Live
<1>1. CASE k.rst \/ (oom /\ NeedsRoom(k))
  <2>1. h = MarkDead(g, c)
    BY <1>1, Zenon DEF HandleRead
  <2> QED BY <1>0, <2>1, KilledFine, Zenon DEF WasRead
<1>2. CASE ~(k.rst \/ (oom /\ NeedsRoom(k)))
  <2>1. h = Settle(f3, c)
    BY <1>2, Zenon DEF HandleRead
  <2>2. /\ Good(e, c) /\ e.fd /\ e.freed = 0 /\ e.state = k.state /\ e.sock = 0
        /\ e.eof = k.eof /\ ~e.rst
    BY <1>2, ReadGood, Zenon
  <2>3. Live(e)
    BY <2>2, Zenon DEF Live
  <2>4. /\ Apart(g, f1, c) /\ f1.conn[c] = e
        /\ InDead(f1, c) <=> InDead(g, c)
    BY SetConn, Zenon
  <2> HIDE DEF e, f1, f3, h
  <2>5. ReactorOK(f1)
    BY <2>4, Zenon DEF Apart
  <2> DEFINE d2 == f2.conn[c]
  <2>6. /\ Apart(f1, f2, c) /\ Good(d2, c) /\ Live(d2) /\ ~InDead(f2, c)
        /\ d2.sock = 0 /\ ~d2.rst /\ d2.eof = k.eof
        /\ k.eof => d2.state = "closing"
    BY <2>2, <2>3, <2>4, <2>5, ClosedFacts, Zenon
  <2> HIDE DEF f2
  <2>7. ReactorOK(f2) /\ d2.freed = 0 /\ d2.state # "dead"
    BY <2>6, Zenon DEF Apart, Live
  <2> DEFINE d3 == f3.conn[c]
  <2>8. /\ Apart(f2, f3, c) /\ Good(d3, c) /\ d3.freed = 0
        /\ \/ d3.state = "dead" /\ Fine(f3, c)
           \/ /\ Same(d2, d3, Parsing) /\ d3.state = d2.state /\ d3.fd = d2.fd
              /\ ~Complete(d3) /\ ~InDead(f3, c)
    BY <2>6, <2>7, ParseFacts, Zenon DEF f3
  <2>9. Apart(g, f3, c) /\ ReactorOK(f3)
    BY <2>4, <2>6, <2>8, ApartTrans, Zenon DEF Apart
  <2>10. CASE d3.state = "dead" /\ Fine(f3, c)
    <3>1. h = f3
      BY <2>1, <2>10, Zenon DEF Settle
    <3> QED BY <2>8, <2>9, <2>10, <3>1, Zenon DEF WasRead, h
  <2>11. CASE /\ Same(d2, d3, Parsing) /\ d3.state = d2.state /\ d3.fd = d2.fd
              /\ ~Complete(d3) /\ ~InDead(f3, c)
    <3> HIDE DEF d2, d3
    <3>1. d3.eof = d2.eof /\ d3.rst = d2.rst /\ d3.sock = d2.sock
      BY <2>11, Zenon DEF Same, Parsing, Fields
    <3>2. Live(d3) /\ d3.sock = 0 /\ ~d3.rst /\ d3.eof = k.eof
          /\ (k.eof => d3.state = "closing")
      BY <2>6, <2>8, <2>11, <3>1, Zenon DEF Live
    <3> DEFINE d == h.conn[c]
    <3>3. Apart(f3, h, c) /\ Fine(h, c) /\ Same(d3, d, Output) /\ ~InDead(h, c)
      BY <2>1, <2>8, <2>9, <2>11, <3>2, SettleFacts, Zenon DEF d3
    <3> HIDE DEF d
    <3>4. /\ d.state = d3.state /\ d.fd = d3.fd /\ d.freed = d3.freed /\ d.sock = d3.sock
          /\ d.eof = d3.eof /\ d.rst = d3.rst
          /\ Complete(d) <=> Complete(d3)
      BY <2>8, <3>3, OutputFrame DEF Fine, Good, d
    <3>5. Live(d)
      BY <3>2, <3>4, Zenon DEF Live
    <3>6. WasRead(k, h, c)
      BY <2>8, <2>11, <3>2, <3>3, <3>4, <3>5, Zenon DEF WasRead, d
    <3>7. Apart(g, h, c)
      BY <2>9, <3>3, ApartTrans, Zenon
    <3> QED BY <3>6, <3>7, Zenon DEF h
  <2> QED BY <2>8, <2>10, <2>11, Zenon
<1> QED BY <1>1, <1>2, Zenon

---------------------------------------------------------------------------
(* Writing and releasing *)

Releasable(k) == Drained(k) /\ (k.state = "closing" => Unsent(k) = << >>)

\* net_conn_try_free: nothing, or the connection is off the lists, closed and
\* given back.
LEMMA TryFreeFacts ==
    ASSUME LoopFacts, NEW g, ReactorOK(g), NEW c \in Conns, Good(g.conn[c], c)
    PROVE  LET h == TryFree(g, c)
               k == g.conn[c]
               d == h.conn[c]
           IN  /\ ~Releasable(k) => h = g
               /\ Releasable(k) =>
                     /\ Apart(g, h, c) /\ Good(d, c) /\ Same(k, d, {"fd", "freed", "refs"})
                     /\ d.fd = FALSE /\ d.freed = k.freed + 1
                     /\ ~InDirty(h, c) /\ ~InDead(h, c)
<1> DEFINE h == TryFree(g, c)
           k == g.conn[c]
           l == ListRemove(g, c)
           f == [l EXCEPT !.conn[c].fd = FALSE]
           e == [k EXCEPT !.fd = FALSE, !.freed = @ + 1, !.refs[k.nb + 1] = @ - 1]
           i == [l EXCEPT !.conn[c] = e]
<1>1. CASE ~Releasable(k)
  BY <1>1, Zenon DEF TryFree, Releasable
<1>2. CASE Releasable(k)
  <2>1. h = Freed(f, c)
    BY <1>2, Zenon DEF TryFree, Releasable
  <2>2. Apart(g, l, c) /\ l.conn = g.conn /\ ~InDirty(l, c) /\ ~InDead(l, c)
    BY RemoveFacts, Zenon
  <2> HIDE DEF l
  <2>3. ReactorOK(l)
    BY <2>2, Zenon DEF Apart
  <2>4. ConnOK(k) /\ IsConn(k)
    BY Zenon DEF Good, ConnOK
  <2>5. h = i
    <3>1. f = [l EXCEPT !.conn = [l.conn EXCEPT ![c] = [k EXCEPT !.fd = FALSE]]]
      BY <2>2, <2>3, Zenon DEF ReactorOK, Parts
    <3> DEFINE k1 == [k EXCEPT !.fd = FALSE]
    <3>2. f.conn = [l.conn EXCEPT ![c] = k1] /\ f.conn[c] = k1 /\ k1.nb = k.nb
      BY <2>3, <2>4, <3>1, Zenon DEF ReactorOK, Parts, IsConn, Fields
    <3>3. h = [f EXCEPT !.conn = [f.conn EXCEPT ![c] =
                  [k1 EXCEPT !.freed = @ + 1, !.refs[k.nb + 1] = @ - 1]]]
      <4>0. f = [x \in Parts |-> f[x]] /\ f.conn = [d \in Conns |-> f.conn[d]]
        BY <2>3, <3>1, <3>2, Zenon DEF ReactorOK, Parts
      <4>1. IsConn(k1)
        BY <2>4, Zenon DEF IsConn, Fields
      <4> HIDE DEF f, k1, h, k
      <4>2. h = [f EXCEPT !.conn[c].freed = @ + 1, !.conn[c].refs[k.nb + 1] = @ - 1]
        BY <2>1, <3>2, Zenon DEF Freed
      <4> QED BY <3>2, <4>0, <4>1, <4>2, Zenon DEF Parts, IsConn, Fields
    <3>4. [k1 EXCEPT !.freed = @ + 1, !.refs[k.nb + 1] = @ - 1] = e
      BY <2>4, Zenon DEF IsConn, Fields
    <3> HIDE DEF f, e, k1, h, k
    <3>5. h = [f EXCEPT !.conn = [f.conn EXCEPT ![c] = e]]
      BY <3>3, <3>4, Zenon
    <3>6. f = [l EXCEPT !.conn = [l.conn EXCEPT ![c] = k1]]
      BY <3>1, Zenon DEF k1
    <3>7. [f.conn EXCEPT ![c] = e] = [l.conn EXCEPT ![c] = e]
      BY <2>3, <3>2, Zenon DEF ReactorOK
    <3> QED BY <2>3, <3>5, <3>6, <3>7, Zenon DEF ReactorOK, Parts
  <2>6. /\ ConnOK(e) /\ Same(k, e, {"fd", "freed", "refs"})
        /\ e.fd = FALSE /\ e.freed = k.freed + 1
    BY <2>4, FreedConn, Zenon DEF LoopFacts
  <2> HIDE DEF e
  <2>7. /\ Apart(l, i, c) /\ i.conn[c] = e /\ ~InDirty(i, c) /\ ~InDead(i, c)
    BY <2>2, <2>3, SetConn, Zenon
  <2> HIDE DEF i, h
  <2>8. Good(e, c)
    <3>1. /\ e.state = k.state /\ e.eof = k.eof /\ e.rst = k.rst /\ e.sock = k.sock
          /\ e.sent = k.sent /\ e.in = k.in /\ e.len = k.len /\ e.parsed = k.parsed
      BY <2>6, Zenon DEF Same, Fields
    <3> QED BY <2>6, <3>1, Zenon DEF Good, InputOK
  <2>9. Apart(g, h, c)
    BY <2>2, <2>5, <2>7, ApartTrans, Zenon
  <2> QED BY <1>2, <2>5, <2>6, <2>7, <2>8, <2>9, Zenon DEF h
<1> QED BY <1>1, <1>2, Zenon

\* A connection that may be released: closing or dead, and not yet released,
\* or closing and its client has received replies.
Leaving(k) ==
    /\ k.state \in {"closing", "dead"}
    /\ k.state = "closing" => k.eof /\ ~k.rst /\ k.sock = 0 /\ ~Complete(k)
    /\ k.freed = 0 \/ (k.state = "closing" /\ k.got # << >>)

\* net_conn_try_free of a connection it may release.
LEMMA FreeFine ==
    ASSUME LoopFacts, NEW g, ReactorOK(g), NEW c \in Conns, Good(g.conn[c], c),
           Leaving(g.conn[c]), Releasable(g.conn[c])
    PROVE  LET h == TryFree(g, c)
               k == g.conn[c]
               d == h.conn[c]
           IN  /\ Apart(g, h, c) /\ Fine(h, c) /\ d.freed = k.freed + 1
               /\ d.got = k.got /\ d.state = k.state
               /\ ~d.fd /\ ~InDirty(h, c) /\ ~InDead(h, c)
<1> DEFINE h == TryFree(g, c)
           k == g.conn[c]
           d == h.conn[c]
<1>1. /\ Apart(g, h, c) /\ Good(d, c) /\ Same(k, d, {"fd", "freed", "refs"})
      /\ d.fd = FALSE /\ d.freed = k.freed + 1
      /\ ~InDirty(h, c) /\ ~InDead(h, c)
  BY TryFreeFacts, Zenon
<1>2. k.freed \in Nat
  BY Zenon DEF Good, ConnOK, BuffersOK
<1> HIDE DEF h, k, d
<1>3. /\ d.state = k.state /\ d.eof = k.eof /\ d.rst = k.rst /\ d.sock = k.sock
      /\ d.got = k.got /\ d.in = k.in /\ d.out = k.out /\ d.len = k.len
      /\ d.parsed = k.parsed /\ d.wbuf = k.wbuf /\ d.wbuf_sent = k.wbuf_sent
  BY <1>1, Zenon DEF Same, Fields
<1>4. /\ Drained(d)
      /\ Complete(d) <=> Complete(k)
      /\ Unsent(d) = Unsent(k)
  BY <1>3, Zenon DEF Releasable, Drained, Complete, Unsent, k
<1>5. LifeOK(d)
  <2>1. (k.freed = 0 => ~(d.freed > 1)) /\ d.freed # 0
    BY <1>1, <1>2
  <2>2. d.state \in {"closing", "dead"} /\ d.state # "alive" /\ d.state # "none"
    BY <1>3, Zenon DEF Leaving, k
  <2>3. d.state = "closing" => d.eof /\ ~d.rst /\ d.sock = 0 /\ ~Complete(d)
    BY <1>3, <1>4, Zenon DEF Leaving, k
  <2>4. d.state = "closing" => Unsent(d) = << >>
    BY <1>3, <1>4, Zenon DEF Releasable, k
  <2>5. d.freed > 1 => d.state = "closing" /\ d.got # << >>
    BY <1>3, <2>1, Zenon DEF Leaving, k
  <2> QED BY <1>1, <1>4, <2>1, <2>2, <2>3, <2>4, <2>5, Zenon DEF LifeOK
<1>6. Placed(d, InDirty(h, c), InDead(h, c))
  BY <1>1, Zenon DEF Placed
<1> QED BY <1>1, <1>3, <1>5, <1>6, Zenon DEF Fine, h, k, d

\* What net_write_handler leaves of a live connection: it may have been
\* released, and then its client has received the replies there were.
WasWritten(k, g, c) ==
    LET d == g.conn[c]
    IN  /\ Fine(g, c)
        /\ d.freed = 0 \/ (d.state = "closing" /\ (k.out > 0 => d.got # << >>))

\* net_write_handler has sent all there is.
LEMMA WriteDoneFacts ==
    ASSUME LoopFacts, NEW g, ReactorOK(g), NEW c \in Conns, Good(g.conn[c], c),
           Live(g.conn[c]), ~Complete(g.conn[c]), ~InDead(g, c), Quiet(g.conn[c])
    PROVE  LET h == WriteDone(g, c)
           IN  Apart(g, h, c) /\ WasWritten(g.conn[c], h, c)
<1> DEFINE k == g.conn[c]
           h == WriteDone(g, c)
<1>0. k.state \in {"alive", "closing"} /\ k.freed = 0
  BY Zenon DEF Live
<1>1. CASE k.state = "alive"
  <2>1. h = ListRemove(g, c)
    BY <1>1, Zenon DEF WriteDone
  <2>2. Apart(g, h, c) /\ h.conn = g.conn /\ ~InDirty(h, c) /\ ~InDead(h, c)
    BY <2>1, RemoveFacts, Zenon
  <2> HIDE DEF h
  <2>3. h.conn[c] = k
    BY <2>2, Zenon
  <2>4. Fine(h, c)
    BY <2>2, <2>3, LiveFine, Zenon
  <2> QED BY <1>0, <2>2, <2>3, <2>4, Zenon DEF WasWritten, h
<1>2. CASE k.state = "closing"
  <2>1. h = TryFree(g, c)
    BY <1>2, Zenon DEF WriteDone
  <2>2. CASE ~Releasable(k)
    <3>1. h = g
      BY <2>1, <2>2, TryFreeFacts, Zenon
    <3>2. Fine(g, c)
      BY LiveFine, Zenon
    <3> QED BY <1>0, <3>1, <3>2, ApartSelf, Zenon DEF WasWritten
  <2>3. CASE Releasable(k)
    <3>1. Leaving(k)
      BY <1>2, Zenon DEF Leaving, Live
    <3>2. /\ Apart(g, h, c) /\ Fine(h, c) /\ h.conn[c].got = k.got
          /\ h.conn[c].state = "closing"
      BY <1>2, <2>1, <2>3, <3>1, FreeFine, SMTT(40)
    <3>3. k.out > 0 => k.got # << >>
      <4>1. WritesOK(k) /\ RingOK(k) /\ Unsent(k) = << >>
        BY Zenon DEF Good, ConnOK, Quiet
      <4> HIDE DEF k
      <4>2. k.wbuf_sent = Len(k.wbuf) /\ Len(k.wbuf) \in Nat /\ k.out \in Nat
        <5>1. k.wbuf \in Seq(Nat) /\ k.out \in Nat
          BY <4>1, Zenon DEF WritesOK, Writes, RingOK
        <5>2. k.wbuf_sent = Len(k.wbuf)
          BY <4>1, UnsentFacts, Zenon
        <5> QED BY <5>1, <5>2
      <4>3. Len(k.got) + Len(k.wbuf) - k.wbuf_sent = k.out /\ k.got \in Seq(Nat)
        BY <4>1, Zenon DEF WritesOK, Writes
      <4>4. Len(k.got) = k.out
        BY <4>2, <4>3
      <4> QED BY <4>2, <4>3, <4>4
    <3> QED BY <3>2, <3>3, Zenon DEF WasWritten
  <2> QED BY <2>2, <2>3, Zenon
<1> QED BY <1>0, <1>1, <1>2, Zenon

\* net_write_handler as a whole.
LEMMA WriteFacts ==
    ASSUME LoopFacts, NEW g, ReactorOK(g), NEW c \in Conns, NEW room \in Nat,
           Good(g.conn[c], c), Live(g.conn[c]), ~Complete(g.conn[c]), ~InDead(g, c)
    PROVE  LET h == WriteHandler(g, c, room)
           IN  Apart(g, h, c) /\ WasWritten(g.conn[c], h, c)
<1> DEFINE k == g.conn[c]
           h == WriteHandler(g, c, room)
           e == WriteAll(k, room)
           e1 == [e EXCEPT !.want_write = FALSE, !.wbuf = << >>, !.wbuf_sent = 0]
           e2 == [e EXCEPT !.want_write = TRUE]
           f == [g EXCEPT !.conn[c] = e]
           f1 == [g EXCEPT !.conn[c] = e1]
           f2 == [g EXCEPT !.conn[c] = e2]
<1>1. h = CASE Unsent(e) = << >> -> WriteDone(f1, c)
            [] Unsent(e) # << >> /\ e.rst -> MarkDead(f, c)
            [] OTHER -> MarkDirty(f2, c)
  BY Zenon DEF WriteHandler, Wrote
<1>2. Written(k, e)
  BY Zenon DEF LoopFacts, Good
<1> HIDE DEF e, h
<1>3. ConnOK(k) /\ ConnOK(e) /\ Same(k, e, Output) /\ IsConn(e) /\ k.out <= e.out
  BY <1>2, Zenon DEF Written, Same, Writing, Output, Good, ConnOK
<1>4. /\ Good(e, c)
      /\ e.state = k.state /\ e.fd = k.fd /\ e.freed = k.freed /\ e.in = k.in
      /\ e.sock = k.sock /\ e.eof = k.eof /\ e.rst = k.rst
      /\ Complete(e) <=> Complete(k)
  BY <1>3, OutputFrame
<1>5. e.out \in Nat /\ k.out \in Nat /\ e.rst \in BOOLEAN
  BY <1>3, <1>4, Zenon DEF ConnOK, RingOK, Good, InputOK
<1>6. CASE Unsent(e) = << >>
  <2>1. h = WriteDone(f1, c)
    BY <1>1, <1>6, Zenon
  <2>2. /\ Same(e, e1, {"wbuf", "wbuf_sent", "want_write"})
        /\ e1.wbuf = << >> /\ e1.wbuf_sent = 0
    BY <1>3, Zenon DEF IsConn, Fields, Same
  <2> HIDE DEF e1
  <2>3. ConnOK(e1) /\ e1.out = e.out /\ FlushEnd(e1) = FlushEnd(e) /\ Unsent(e1) = << >>
    BY <1>3, <1>6, <2>2, EmptiedConn, Zenon
  <2>4. Same(e, e1, Output)
    BY <2>2, Zenon DEF Same, Output
  <2>5. /\ Good(e1, c)
        /\ e1.state = e.state /\ e1.fd = e.fd /\ e1.freed = e.freed
        /\ e1.sock = e.sock /\ e1.eof = e.eof /\ e1.rst = e.rst
        /\ Complete(e1) <=> Complete(e)
    BY <1>4, <2>3, <2>4, OutputFrame
  <2>6. Live(e1) /\ ~Complete(e1)
    BY <1>4, <2>5, Zenon DEF Live
  <2>7. Quiet(e1)
    BY <1>2, <1>6, <2>3, Zenon DEF Written, Quiet
  <2>8. /\ Apart(g, f1, c) /\ f1.conn[c] = e1
        /\ InDead(f1, c) <=> InDead(g, c)
    BY SetConn, Zenon
  <2> HIDE DEF f1
  <2>9. ReactorOK(f1)
    BY <2>8, Zenon DEF Apart
  <2>10. Apart(f1, h, c) /\ WasWritten(e1, h, c)
    BY <2>1, <2>5, <2>6, <2>7, <2>8, <2>9, WriteDoneFacts, Zenon
  <2>11. Apart(g, h, c)
    BY <2>8, <2>10, ApartTrans, Zenon
  <2>12. k.out > 0 => e1.out > 0
    BY <1>3, <1>5, <2>3
  <2> QED BY <2>10, <2>11, <2>12, Zenon DEF WasWritten, h
<1>7. CASE Unsent(e) # << >> /\ e.rst
  <2>1. h = MarkDead(f, c)
    BY <1>1, <1>7, Zenon
  <2>2. /\ Apart(g, f, c) /\ f.conn[c] = e
        /\ InDead(f, c) <=> InDead(g, c)
    BY SetConn, Zenon
  <2> HIDE DEF f
  <2>3. ReactorOK(f) /\ e.freed = 0
    BY <1>4, <2>2, Zenon DEF Apart, Live
  <2>4. Apart(f, h, c) /\ Fine(h, c) /\ h.conn[c].freed = 0
    BY <1>4, <2>1, <2>2, <2>3, KilledFine, Zenon
  <2>5. Apart(g, h, c)
    BY <2>2, <2>4, ApartTrans, Zenon
  <2> QED BY <2>4, <2>5, Zenon DEF WasWritten, h
<1>8. CASE Unsent(e) # << >> /\ ~e.rst
  <2>1. h = MarkDirty(f2, c)
    BY <1>1, <1>8, Zenon
  <2>2. Same(e, e2, {"want_write"})
    BY <1>3, Zenon DEF IsConn, Fields, Same
  <2> HIDE DEF e2
  <2>3. Same(e, e2, Outer) /\ Same(e, e2, Output)
    BY <2>2, Zenon DEF Same, Outer, Output
  <2>4. ConnOK(e2)
    BY <1>3, <2>3, ConnFrame, Zenon
  <2>5. /\ Good(e2, c)
        /\ e2.state = e.state /\ e2.fd = e.fd /\ e2.freed = e.freed
        /\ e2.sock = e.sock /\ e2.eof = e.eof /\ e2.rst = e.rst
        /\ Complete(e2) <=> Complete(e)
    BY <1>4, <2>3, <2>4, OutputFrame, Zenon
  <2>6. Live(e2) /\ ~Complete(e2)
    BY <1>4, <2>5, Zenon DEF Live
  <2>7. Apart(g, f2, c) /\ f2.conn[c] = e2
    BY SetConn, Zenon
  <2> HIDE DEF f2
  <2>8. ReactorOK(f2)
    BY <2>7, Zenon DEF Apart
  <2>9. Apart(f2, h, c) /\ h.conn = f2.conn /\ InDirty(h, c) /\ ~InDead(h, c)
    BY <2>1, <2>8, MarkDirtyFacts, Zenon
  <2>10. h.conn[c] = e2
    BY <2>7, <2>9, Zenon
  <2>11. Fine(h, c)
    BY <2>5, <2>6, <2>9, <2>10, LiveFine, Zenon
  <2>12. Apart(g, h, c)
    BY <2>7, <2>9, ApartTrans, Zenon
  <2> QED BY <2>6, <2>10, <2>11, <2>12, Zenon DEF WasWritten, Live, h
<1> QED BY <1>5, <1>6, <1>7, <1>8, Zenon

---------------------------------------------------------------------------
(* The handlers and the Master Flush *)

\* The end of a turn of the Master Flush: a closing connection is released
\* when it may be.
LEMMA CloseFacts ==
    ASSUME LoopFacts, NEW g, ReactorOK(g), NEW c \in Conns, Fine(g, c),
           g.conn[c].freed = 0 \/ (g.conn[c].state = "closing" /\ g.conn[c].got # << >>)
    PROVE  LET h == IF g.conn[c].state = "closing" THEN TryFree(g, c) ELSE g
           IN  Apart(g, h, c) /\ Fine(h, c)
<1> DEFINE k == g.conn[c]
<1>0. Good(k, c) /\ LifeOK(k)
  BY Zenon DEF Fine
<1>1. CASE k.state = "closing" /\ Releasable(k)
  <2>1. Leaving(k)
    BY <1>0, <1>1, Zenon DEF Leaving, LifeOK
  <2> QED BY <1>0, <1>1, <2>1, FreeFine, Zenon
<1>2. CASE k.state = "closing" /\ ~Releasable(k)
  <2>1. TryFree(g, c) = g
    BY <1>0, <1>2, TryFreeFacts, Zenon
  <2> QED BY <2>1, ApartSelf, Zenon
<1>3. CASE k.state # "closing"
  BY <1>3, ApartSelf, Zenon
<1> QED BY <1>1, <1>2, <1>3, Zenon

\* A connection with a descriptor is live, and is not on the dead list.
LEMMA OpenIsLive ==
    ASSUME NEW g, NEW c, Fine(g, c), g.conn[c].fd
    PROVE  /\ Good(g.conn[c], c) /\ Live(g.conn[c]) /\ ~Complete(g.conn[c])
           /\ ~InDead(g, c)
<1>1. LifeOK(g.conn[c]) /\ Placed(g.conn[c], InDirty(g, c), InDead(g, c))
  BY Zenon DEF Fine
<1>2. g.conn[c].state \in {"alive", "closing"}
  BY <1>1, Zenon DEF LifeOK
<1>3. Live(g.conn[c]) /\ ~Complete(g.conn[c])
  BY <1>1, <1>2, Zenon DEF LifeOK, Live
<1>4. ~InDead(g, c)
  BY <1>1, <1>2, Zenon DEF Placed
<1> QED BY <1>3, <1>4, Zenon DEF Fine

\* EPOLLOUT: what net_write_handler does for a connection that is not dead.
LEMMA OutFacts ==
    ASSUME LoopFacts, NEW g, ReactorOK(g), NEW c \in Conns, NEW room \in Nat,
           NEW writable \in BOOLEAN, Fine(g, c),
           g.conn[c].state = "dead" \/ g.conn[c].fd
    PROVE  LET h == IF writable /\ g.conn[c].state # "dead"
                    THEN WriteHandler(g, c, room) ELSE g
           IN  Apart(g, h, c) /\ Fine(h, c)
<1>1. CASE writable /\ g.conn[c].state # "dead"
  <2>1. /\ Good(g.conn[c], c) /\ Live(g.conn[c]) /\ ~Complete(g.conn[c])
        /\ ~InDead(g, c)
    BY <1>1, OpenIsLive, Zenon
  <2>2. LET h == WriteHandler(g, c, room)
        IN  Apart(g, h, c) /\ WasWritten(g.conn[c], h, c)
    BY <2>1, WriteFacts, Zenon
  <2> QED BY <1>1, <2>2, Zenon DEF WasWritten
<1>2. CASE ~(writable /\ g.conn[c].state # "dead")
  BY <1>2, ApartSelf, Zenon
<1> QED BY <1>1, <1>2, Zenon

\* net_read_handler marks the connection dirty, a dead one too.
LEMMA ReadHandlerFacts ==
    ASSUME LoopFacts, NEW g, ReactorOK(g), NEW c \in Conns, NEW oom \in BOOLEAN,
           Good(g.conn[c], c), Live(g.conn[c]), ~InDead(g, c)
    PROVE  LET h == ReadHandler(g, c, oom)
               k == g.conn[c]
               d == h.conn[c]
           IN  /\ Apart(g, h, c) /\ Fine(h, c) /\ InDirty(h, c) /\ ~InDead(h, c)
               /\ \/ d.state = "dead"
                  \/ /\ Live(d) /\ ~Complete(d) /\ d.sock = 0 /\ ~d.rst /\ d.eof = k.eof
<1> DEFINE k == g.conn[c]
           f == HandleRead(g, c, oom)
           h == ReadHandler(g, c, oom)
           d == f.conn[c]
<1>1. Apart(g, f, c) /\ WasRead(k, f, c)
  BY HandleReadFacts, Zenon
<1>2. h = MarkDirty(f, c)
  BY Zenon DEF ReadHandler
<1> HIDE DEF f, h
<1>3. ReactorOK(f)
  BY <1>1, Zenon DEF Apart
<1>4. Apart(f, h, c) /\ h.conn = f.conn /\ InDirty(h, c) /\ ~InDead(h, c)
  BY <1>2, <1>3, MarkDirtyFacts, Zenon
<1>5. h.conn[c] = d /\ Apart(g, h, c)
  BY <1>1, <1>4, ApartTrans, Zenon
<1>6. Good(d, c) /\ LifeOK(d) /\ d.freed = 0
  BY <1>1, Zenon DEF WasRead, Fine
<1>7. d.state # "none"
  <2>1. CASE d.state = "dead"
    BY <2>1, Zenon
  <2>2. CASE Live(d)
    BY <2>2, Zenon DEF Live
  <2> QED BY <1>1, <2>1, <2>2, Zenon DEF WasRead
<1>8. Fine(h, c)
  BY <1>4, <1>5, <1>6, <1>7 DEF Fine, Placed
<1> QED BY <1>1, <1>4, <1>5, <1>8, Zenon DEF WasRead, h

\* What an epoll event leads to.
LEMMA HandledFacts ==
    ASSUME LoopFacts, NEW g, ReactorOK(g), NEW c \in Conns, NEW oom \in BOOLEAN,
           NEW room \in Nat, NEW writable \in BOOLEAN, Fine(g, c), g.conn[c].fd
    PROVE  LET h == Handled(g, c, writable, room, oom)
           IN  Apart(g, h, c) /\ Fine(h, c)
<1> DEFINE k == g.conn[c]
           h == Handled(g, c, writable, room, oom)
           f1 == ReadHandler(g, c, oom)
           f2 == IF k.eof THEN MarkClosing(f1, c) ELSE f1
           out(f) == IF writable /\ f.conn[c].state # "dead"
                     THEN WriteHandler(f, c, room) ELSE f
<1>1. Good(k, c) /\ Live(k) /\ ~Complete(k) /\ ~InDead(g, c) /\ k.freed = 0
  BY OpenIsLive, Zenon DEF Live
<1>2. h = CASE k.rst -> MarkDead(g, c)
            [] ~k.rst /\ (k.sock > 0 \/ k.eof) -> out(f2)
            [] OTHER -> out(g)
  BY Zenon DEF Handled
<1>3. CASE k.rst
  <2>1. h = MarkDead(g, c)
    BY <1>2, <1>3, Zenon
  <2> QED BY <1>1, <2>1, KilledFine, Zenon
<1>4. CASE ~k.rst /\ (k.sock > 0 \/ k.eof)
  <2>1. h = out(f2)
    BY <1>2, <1>4, Zenon
  <2> DEFINE d1 == f1.conn[c]
  <2>2. /\ Apart(g, f1, c) /\ Fine(f1, c) /\ InDirty(f1, c) /\ ~InDead(f1, c)
        /\ \/ d1.state = "dead"
           \/ /\ Live(d1) /\ ~Complete(d1) /\ d1.sock = 0 /\ ~d1.rst /\ d1.eof = k.eof
    BY <1>1, ReadHandlerFacts, Zenon
  <2> HIDE DEF f1, h
  <2>3. ReactorOK(f1) /\ Good(d1, c)
    BY <2>2, Zenon DEF Apart, Fine
  <2>4. Apart(f1, f2, c) /\ Fine(f2, c) /\ (f2.conn[c].state = "dead" \/ f2.conn[c].fd)
    <3>1. CASE d1.state = "dead"
      <4>1. f2 = f1
        BY <3>1, Zenon DEF MarkClosing
      <4> QED BY <2>2, <2>3, <3>1, <4>1, ApartSelf, Zenon
    <3>2. CASE Live(d1) /\ ~Complete(d1) /\ d1.sock = 0 /\ ~d1.rst /\ d1.eof = k.eof
      <4> DEFINE d2 == f2.conn[c]
      <4>1. /\ Apart(f1, f2, c) /\ Good(d2, c) /\ Live(d2) /\ ~InDead(f2, c)
            /\ ~Complete(d2) /\ InDirty(f2, c)
        BY <2>2, <2>3, <3>2, ClosedFacts
      <4> HIDE DEF f2
      <4>2. Fine(f2, c) /\ d2.fd
        BY <4>1, LiveFine, Zenon DEF Live
      <4> QED BY <4>1, <4>2, Zenon
    <3> QED BY <2>2, <3>1, <3>2, Zenon
  <2> HIDE DEF f2
  <2>5. ReactorOK(f2)
    BY <2>4, Zenon DEF Apart
  <2>6. Apart(f2, h, c) /\ Fine(h, c)
    BY <2>1, <2>4, <2>5, OutFacts, Zenon
  <2>7. Apart(g, h, c)
    BY <2>2, <2>4, <2>6, ApartTrans, Zenon
  <2> QED BY <2>6, <2>7, Zenon DEF h
<1>5. CASE ~k.rst /\ ~(k.sock > 0 \/ k.eof)
  <2>1. h = out(g)
    BY <1>2, <1>5, Zenon
  <2> QED BY <2>1, OutFacts, Zenon
<1> QED BY <1>3, <1>4, <1>5, Zenon

\* The Master Flush after the read: flush, write, release.
LEMMA RestFacts ==
    ASSUME LoopFacts, NEW g, ReactorOK(g), NEW c \in Conns, NEW room \in Nat,
           Good(g.conn[c], c), g.conn[c].freed = 0, ~InDead(g, c),
           \/ Live(g.conn[c]) /\ ~Complete(g.conn[c])
           \/ g.conn[c].state = "dead" /\ ~g.conn[c].fd
    PROVE  LET f == TryFlush(g, c)
               w == IF f.conn[c].fd /\ Unsent(f.conn[c]) # << >>
                    THEN WriteHandler(f, c, room) ELSE f
               h == IF w.conn[c].state = "closing" THEN TryFree(w, c) ELSE w
           IN  Apart(g, h, c) /\ Fine(h, c)
<1> DEFINE f == TryFlush(g, c)
           w == IF f.conn[c].fd /\ Unsent(f.conn[c]) # << >>
                THEN WriteHandler(f, c, room) ELSE f
           h == IF w.conn[c].state = "closing" THEN TryFree(w, c) ELSE w
           k == g.conn[c]
           e == f.conn[c]
<1>1. /\ Apart(g, f, c) /\ Good(e, c) /\ Same(k, e, Output) /\ FlushEnd(e) = e.out
      /\ InDead(f, c) <=> InDead(g, c)
  BY FlushFacts, Zenon
<1> HIDE DEF f
<1>2. ReactorOK(f) /\ ConnOK(e)
  BY <1>1, Zenon DEF Apart, Good
<1>3. /\ e.state = k.state /\ e.fd = k.fd /\ e.freed = k.freed
      /\ e.sock = k.sock /\ e.eof = k.eof /\ e.rst = k.rst
      /\ Complete(e) <=> Complete(k)
  BY <1>1, <1>2, OutputFrame
<1>4. CASE Live(k) /\ ~Complete(k)
  <2>1. Live(e) /\ ~Complete(e) /\ ~InDead(f, c) /\ e.fd
    BY <1>1, <1>3, <1>4, Zenon DEF Live
  <2>2. /\ Apart(f, w, c) /\ Fine(w, c)
        /\ \/ w.conn[c].freed = 0
           \/ w.conn[c].state = "closing" /\ w.conn[c].got # << >>
    <3>1. CASE Unsent(e) # << >>
      <4>1. w = WriteHandler(f, c, room)
        BY <2>1, <3>1, Zenon
      <4>2. Apart(f, w, c) /\ WasWritten(e, w, c)
        BY <1>1, <1>2, <2>1, <4>1, WriteFacts, Zenon
      <4>3. e.out > 0
        <5> HIDE DEF e
        <5>1. WritesOK(e)
          BY <1>2, Zenon DEF ConnOK
        <5>2. Len(Unsent(e)) = Len(e.wbuf) - e.wbuf_sent /\ Unsent(e) \in Seq(Nat)
          BY <5>1, UnsentFacts, Zenon
        <5>3. PICK n \in Nat : n = Len(Unsent(e)) /\ n # 0
          BY <3>1, <5>2
        <5>4. /\ e.got \in Seq(Nat) /\ e.wbuf \in Seq(Nat) /\ e.wbuf_sent \in 0..Len(e.wbuf)
              /\ Len(e.got) + Len(e.wbuf) - e.wbuf_sent = e.out
          BY <5>1, Zenon DEF WritesOK, Writes
        <5>5. PICK lg \in Nat : lg = Len(e.got)
          BY <5>4
        <5>6. PICK lw \in Nat : lw = Len(e.wbuf)
          BY <5>4
        <5>7. lg + lw - e.wbuf_sent = e.out /\ n = lw - e.wbuf_sent /\ e.wbuf_sent \in 0..lw
          BY <5>2, <5>3, <5>4, <5>5, <5>6, Zenon
        <5> QED BY <5>3, <5>7
      <4> QED BY <4>2, <4>3, Zenon DEF WasWritten
    <3>2. CASE Unsent(e) = << >>
      <4>1. w = f
        BY <3>2, Zenon
      <4>2. Fine(f, c)
        BY <1>1, <2>1, <3>2, LiveFine, Zenon DEF Quiet
      <4> QED BY <1>2, <2>1, <4>1, <4>2, ApartSelf, Zenon DEF Live
    <3> QED BY <3>1, <3>2, Zenon
  <2> HIDE DEF w
  <2>3. ReactorOK(w)
    BY <2>2, Zenon DEF Apart
  <2>4. Apart(w, h, c) /\ Fine(h, c)
    BY <2>2, <2>3, CloseFacts, Zenon
  <2> HIDE DEF h
  <2>5. Apart(g, h, c)
    BY <1>1, <2>2, <2>4, ApartTrans, Zenon
  <2> QED BY <2>4, <2>5, Zenon DEF h, w, f
<1>5. CASE k.state = "dead" /\ ~k.fd
  <2>1. e.state = "dead" /\ ~e.fd /\ e.freed = 0
    BY <1>3, <1>5, Zenon
  <2>2. w = f
    BY <2>1, Zenon
  <2>3. h = f
    BY <2>1, <2>2, Zenon
  <2>4. LifeOK(e) /\ Placed(e, InDirty(f, c), InDead(f, c))
    BY <2>1 DEF LifeOK, Placed
  <2>5. Fine(f, c)
    BY <1>1, <2>4, Zenon DEF Fine
  <2> QED BY <1>1, <2>3, <2>5, Zenon DEF f
<1> QED BY <1>4, <1>5, Zenon

\* One turn of the Master Flush.
LEMMA FlushOfFacts ==
    ASSUME LoopFacts, NEW f, ReactorOK(f), NEW c \in Conns, NEW room \in Nat,
           NEW oom \in BOOLEAN, Fine(f, c), InDirty(f, c)
    PROVE  LET h == FlushOf(ListRemove(f, c), c, room, oom)
           IN  Apart(f, h, c) /\ Fine(h, c)
<1> DEFINE g == ListRemove(f, c)
           k == g.conn[c]
           h == FlushOf(g, c, room, oom)
           n == HandleRead(g, c, oom)
           flushed(x) == TryFlush(x, c)
           wrote(x) == IF x.conn[c].fd /\ Unsent(x.conn[c]) # << >>
                       THEN WriteHandler(x, c, room) ELSE x
           closed(x) == IF x.conn[c].state = "closing" THEN TryFree(x, c) ELSE x
<1>1. Apart(f, g, c) /\ g.conn = f.conn /\ ~InDirty(g, c) /\ ~InDead(g, c)
  BY RemoveFacts, Zenon
<1>2. Good(k, c) /\ LifeOK(k) /\ k.freed = 0 /\ k.state # "none" /\ k.fd \in BOOLEAN
  BY <1>1, Zenon DEF Fine, Placed, Good, InputOK
<1>3. h = LET read == k.fd /\ Torn(k)
              x == IF read THEN n ELSE g
          IN  IF read /\ x.conn[c].state = "dead" THEN x
              ELSE closed(wrote(flushed(x)))
  BY Zenon DEF FlushOf
<1> HIDE DEF g, n, h
<1>4. ReactorOK(g)
  BY <1>1, Zenon DEF Apart
<1>5. \/ Live(k) /\ ~Complete(k)
      \/ k.state = "dead" /\ ~k.fd
  <2>1. k.state \in {"alive", "closing", "dead"}
    BY <1>2, Zenon DEF Good, InputOK
  <2>2. CASE k.state = "dead"
    BY <1>2, <2>2, Zenon DEF LifeOK
  <2>3. CASE k.state \in {"alive", "closing"}
    BY <1>2, <2>3, Zenon DEF LifeOK, Live
  <2> QED BY <2>1, <2>2, <2>3, Zenon
<1>6. CASE k.fd /\ Torn(k)
  <2>1. Live(k)
    BY <1>5, <1>6, Zenon
  <2>2. Apart(g, n, c) /\ WasRead(k, n, c)
    BY <1>1, <1>2, <1>4, <2>1, HandleReadFacts, Zenon DEF n
  <2>3. ReactorOK(n)
    BY <2>2, Zenon DEF Apart
  <2>4. CASE n.conn[c].state = "dead"
    <3>1. h = n
      BY <1>3, <1>6, <2>4, Zenon
    <3>2. Apart(f, n, c) /\ Fine(n, c)
      BY <1>1, <2>2, ApartTrans, Zenon DEF WasRead
    <3> QED BY <3>1, <3>2, Zenon DEF h, g
  <2>5. CASE n.conn[c].state # "dead"
    <3>1. h = closed(wrote(flushed(n)))
      BY <1>3, <1>6, <2>5, Zenon
    <3> DEFINE d == n.conn[c]
    <3>2. Good(d, c) /\ d.freed = 0 /\ ~InDead(n, c) /\ Live(d) /\ ~Complete(d)
      BY <2>2, <2>5, Zenon DEF WasRead, Fine
    <3>3. Apart(n, h, c) /\ Fine(h, c)
      BY <2>3, <3>1, <3>2, RestFacts, Zenon
    <3>4. Apart(f, h, c)
      BY <1>1, <2>2, <3>3, ApartTrans, Zenon
    <3> QED BY <3>3, <3>4, Zenon DEF h, g
  <2> QED BY <2>4, <2>5, Zenon
<1>7. CASE ~(k.fd /\ Torn(k))
  <2>1. h = closed(wrote(flushed(g)))
    BY <1>3, <1>7, Zenon
  <2>2. Apart(g, h, c) /\ Fine(h, c)
    BY <1>1, <1>2, <1>4, <1>5, <2>1, RestFacts, Zenon
  <2>3. Apart(f, h, c)
    BY <1>1, <2>2, ApartTrans, Zenon
  <2> QED BY <2>2, <2>3, Zenon DEF h, g
<1> QED BY <1>6, <1>7, Zenon

---------------------------------------------------------------------------
(* The steps *)

\* The client's side of a connection changes.
LEMMA ClientFacts ==
    ASSUME NEW g, ReactorOK(g), NEW c \in Conns, Fine(g, c), NEW d,
           Same(g.conn[c], d, {"sock", "eof", "rst", "edge", "sent"}),
           InputOK(d, Len(Script[c])),
           g.conn[c].state = "closing" => d.eof /\ ~d.rst /\ d.sock = 0
    PROVE  LET h == [g EXCEPT !.conn[c] = d]
           IN  Apart(g, h, c) /\ Fine(h, c) /\ h.conn[c] = d
<1> DEFINE k == g.conn[c]
           h == [g EXCEPT !.conn[c] = d]
<1>1. /\ Apart(g, h, c) /\ h.conn[c] = d
      /\ InDirty(h, c) <=> InDirty(g, c)
      /\ InDead(h, c) <=> InDead(g, c)
  BY SetConn, Zenon
<1> HIDE DEF h
<1>2. Good(k, c) /\ LifeOK(k) /\ Placed(k, InDirty(g, c), InDead(g, c))
  BY Zenon DEF Fine
<1>3. Same(k, d, Outer)
  BY Zenon DEF Same, Outer
<1>4. ConnOK(d) /\ Unsent(d) = Unsent(k) /\ FlushEnd(d) = FlushEnd(k)
  BY <1>2, <1>3, ConnFrame, Zenon DEF Good
<1> HIDE DEF k
<1>5. /\ d.state = k.state /\ d.fd = k.fd /\ d.freed = k.freed /\ d.got = k.got
      /\ d.in = k.in /\ d.out = k.out /\ d.len = k.len /\ d.parsed = k.parsed
  BY Zenon DEF Same, Fields, k
<1>6. /\ Drained(d) <=> Drained(k)
      /\ Complete(d) <=> Complete(k)
      /\ Quiet(d) <=> Quiet(k)
  BY <1>4, <1>5, Zenon DEF Drained, Complete, Quiet
<1>7. d.state = "closing" => d.eof /\ ~d.rst /\ d.sock = 0
  BY <1>5, Zenon DEF k
<1>8. LifeOK(d)
  BY <1>2, <1>4, <1>5, <1>6, <1>7, Zenon DEF LifeOK
<1>9. Placed(d, InDirty(h, c), InDead(h, c))
  BY <1>1, <1>2, <1>5, <1>6, Zenon DEF Placed
<1> QED BY <1>1, <1>4, <1>8, <1>9, Zenon DEF Fine, Good, h

\* A step that works on one connection keeps the invariant.
LEMMA OneConn ==
    ASSUME CInv, NEW c \in Conns, Apart(r, r', c), Fine(r', c)
    PROVE  CInv'
<1>1. ReactorOK(r') /\ \A d \in Conns : Fine(r', d)
  BY OthersFine, Zenon DEF CInv
<1> QED BY <1>1, Zenon DEF CInv

\* net_accept_handler keeps the invariant.
LEMMA AcceptKeeps ==
    ASSUME LoopFacts, CInv, NEW c \in Conns, NEW added \in BOOLEAN, Accept(c, added)
    PROVE  CInv'
<1> DEFINE k == r.conn[c]
           d == [k EXCEPT !.state = "alive", !.fd = TRUE]
           g == [r EXCEPT !.conn[c] = d]
<1>1. /\ Good(k, c) /\ LifeOK(k) /\ Placed(k, InDirty(r, c), InDead(r, c))
      /\ k.state = "none" /\ ReactorOK(r)
  BY Zenon DEF CInv, Fine, Accept
<1>2. [r EXCEPT !.conn[c].state = "alive", !.conn[c].fd = TRUE] = g
  BY <1>1, Zenon DEF ReactorOK, Parts, Good, ConnOK, IsConn, Fields
<1>3. r' = IF added THEN g ELSE MarkDead(g, c)
  BY <1>2 DEF Accept
<1>4. Same(k, d, {"state", "fd"}) /\ d.state = "alive" /\ d.fd = TRUE
  BY <1>1, Zenon DEF Good, ConnOK, IsConn, Fields, Same
<1>5. /\ Apart(r, g, c) /\ g.conn[c] = d
      /\ InDirty(g, c) <=> InDirty(r, c)
      /\ InDead(g, c) <=> InDead(r, c)
  BY <1>1, SetConn, Zenon
<1> HIDE DEF d, g
<1>6. Same(k, d, Outer)
  BY <1>4, Zenon DEF Same, Outer
<1>7. ConnOK(d) /\ Unsent(d) = Unsent(k) /\ FlushEnd(d) = FlushEnd(k)
  BY <1>1, <1>6, ConnFrame, Zenon DEF Good
<1>8. /\ d.freed = k.freed /\ d.eof = k.eof /\ d.rst = k.rst /\ d.sock = k.sock
      /\ d.sent = k.sent /\ d.in = k.in /\ d.out = k.out /\ d.len = k.len
      /\ d.parsed = k.parsed
  BY <1>4, Zenon DEF Same, Fields
<1>9. Good(d, c)
  BY <1>1, <1>4, <1>7, <1>8, Zenon DEF Good, InputOK
<1>10. Live(d) /\ ~Complete(d) /\ Quiet(d)
  BY <1>1, <1>4, <1>7, <1>8, Zenon DEF Live, LifeOK, Complete, Quiet
<1>11. ~InDead(g, c) /\ d.freed = 0 /\ ReactorOK(g)
  BY <1>1, <1>5, <1>10, Zenon DEF Placed, Live, Apart
<1>12. CASE added
  <2>1. Fine(g, c)
    BY <1>5, <1>9, <1>10, <1>11, LiveFine, Zenon
  <2>2. r' = g
    BY <1>3, <1>12, Zenon
  <2> QED BY <1>5, <2>1, <2>2, OneConn, Zenon
<1>13. CASE ~added
  <2>1. r' = MarkDead(g, c)
    BY <1>3, <1>13, Zenon
  <2>2. Apart(g, r', c) /\ Fine(r', c)
    BY <1>5, <1>9, <1>11, <2>1, KilledFine, Zenon
  <2>3. Apart(r, r', c)
    BY <1>5, <2>2, ApartTrans, Zenon
  <2> QED BY <2>2, <2>3, OneConn, Zenon
<1> QED BY <1>12, <1>13, Zenon

\* What is sent is in the socket, in the requests parsed, or in the buffer.
LEMMA SentMore ==
    ASSUME NEW a \in Nat, NEW s \in Nat, NEW i \in Nat, NEW l \in Nat, NEW p \in Nat,
           NEW n \in Nat, a = s + 2 * i + (l - p)
    PROVE  /\ a + n = (s + n) + 2 * i + (l - p) /\ s + n \in Nat /\ a + n \in Nat
           /\ a >= 0 + 2 * i + (l - p)
  OBVIOUS

\* A client sends: the bytes wait in the socket.
LEMMA SendKeeps ==
    ASSUME CInv, NEW c \in Conns, NEW n \in 1..Unit, Send(c, n)
    PROVE  CInv'
<1> DEFINE k == r.conn[c]
           d == [k EXCEPT !.sent = @ + n, !.sock = @ + n, !.edge = TRUE]
<1>1. Good(k, c) /\ LifeOK(k) /\ ReactorOK(r) /\ ~k.eof /\ ~k.rst /\ Fine(r, c)
  BY Zenon DEF CInv, Fine, Send, Connected
<1>2. r' = [r EXCEPT !.conn[c] = d]
  BY <1>1, Zenon DEF Send, ReactorOK, Parts, Good, ConnOK, IsConn, Fields
<1>3. /\ Same(k, d, {"sock", "eof", "rst", "edge", "sent"})
      /\ d.sent = k.sent + n /\ d.sock = k.sock + n /\ d.eof = k.eof /\ d.rst = k.rst
  BY <1>1, Zenon DEF Good, ConnOK, IsConn, Fields, Same
<1> HIDE DEF d
<1>4. /\ d.state = k.state /\ d.fd = k.fd /\ d.in = k.in /\ d.len = k.len
      /\ d.parsed = k.parsed
  BY <1>3, Zenon DEF Same, Fields
<1>5. k.sent + n <= Unit * Len(Script[c]) /\ n \in Nat
  BY DEF Send, Unit
<1>6. k.in \in Nat /\ k.len \in Nat /\ k.parsed \in Nat
  BY <1>1, Zenon DEF Good, ConnOK, RingOK, BuffersOK
<1>7. InputOK(d, Len(Script[c]))
  <2>1. /\ InputOK(k, Len(Script[c])) /\ k.sock \in Nat /\ k.sent \in Nat
        /\ k.sent = k.sock + Unit * k.in + (k.len - k.parsed)
    BY <1>1, Zenon DEF Good, InputOK
  <2>2. /\ k.sent + n = (k.sock + n) + 2 * k.in + (k.len - k.parsed)
        /\ k.sock + n \in Nat /\ k.sent + n \in Nat
    <3>1. k.sent = k.sock + 2 * k.in + (k.len - k.parsed)
      BY <2>1, Zenon DEF Unit
    <3>2. k.sent \in Nat /\ k.sock \in Nat /\ n \in Nat
      BY <1>5, <2>1, Zenon
    <3> HIDE DEF k
    <3> QED BY <1>6, <3>1, <3>2, SentMore
  <2>3. d.sent = d.sock + Unit * d.in + (d.len - d.parsed)
    BY <1>3, <1>4, <2>2, Zenon DEF Unit
  <2>4. d.sock \in Nat /\ d.sent \in Nat /\ d.sent <= Unit * Len(Script[c])
    BY <1>3, <1>5, <2>2, Zenon
  <2>5. d.sent >= d.sock + Unit * d.in + (d.len - d.parsed)
    BY <2>3, <2>4
  <2> QED BY <1>3, <1>4, <2>1, <2>3, <2>4, <2>5, Zenon DEF InputOK
<1>8. k.state # "closing"
  BY <1>1, Zenon DEF LifeOK
<1>9. Apart(r, r', c) /\ Fine(r', c)
  BY <1>1, <1>2, <1>3, <1>7, <1>8, ClientFacts, Zenon
<1> QED BY <1>9, OneConn, Zenon

\* A client closes or resets its connection.
LEMMA CloseKeeps ==
    ASSUME CInv, NEW c \in Conns, Close(c) \/ PeerReset(c)
    PROVE  CInv'
<1> DEFINE k == r.conn[c]
           e == [k EXCEPT !.eof = TRUE, !.edge = TRUE]
           d == [k EXCEPT !.rst = TRUE, !.edge = TRUE, !.sock = 0]
<1>1. Good(k, c) /\ LifeOK(k) /\ ReactorOK(r) /\ ~k.eof /\ ~k.rst /\ Fine(r, c)
  BY Zenon DEF CInv, Fine, Close, PeerReset, Connected
<1>2. k.state # "closing"
  BY <1>1, Zenon DEF LifeOK
<1>3. k.in \in Nat /\ k.len \in Nat /\ k.parsed \in Nat
  BY <1>1, Zenon DEF Good, ConnOK, RingOK, BuffersOK
<1>4. CASE Close(c)
  <2>1. r' = [r EXCEPT !.conn[c] = e]
    BY <1>1, <1>4, Zenon DEF Close, ReactorOK, Parts, Good, ConnOK, IsConn, Fields
  <2>2. /\ Same(k, e, {"sock", "eof", "rst", "edge", "sent"})
        /\ e.sent = k.sent /\ e.sock = k.sock /\ e.eof = TRUE /\ e.rst = k.rst
    BY <1>1, Zenon DEF Good, ConnOK, IsConn, Fields, Same
  <2> HIDE DEF e
  <2>3. /\ e.state = k.state /\ e.fd = k.fd /\ e.in = k.in /\ e.len = k.len
        /\ e.parsed = k.parsed
    BY <2>2, Zenon DEF Same, Fields
  <2>4. InputOK(e, Len(Script[c]))
    BY <1>1, <2>2, <2>3, Zenon DEF Good, InputOK
  <2>5. Apart(r, r', c) /\ Fine(r', c)
    BY <1>1, <1>2, <2>1, <2>2, <2>4, ClientFacts, Zenon
  <2> QED BY <2>5, OneConn, Zenon
<1>5. CASE PeerReset(c)
  <2>1. r' = [r EXCEPT !.conn[c] = d]
    BY <1>1, <1>5, Zenon DEF PeerReset, ReactorOK, Parts, Good, ConnOK, IsConn, Fields
  <2>2. /\ Same(k, d, {"sock", "eof", "rst", "edge", "sent"})
        /\ d.sent = k.sent /\ d.sock = 0 /\ d.eof = k.eof /\ d.rst = TRUE
    BY <1>1, Zenon DEF Good, ConnOK, IsConn, Fields, Same
  <2> HIDE DEF d
  <2>3. /\ d.state = k.state /\ d.fd = k.fd /\ d.in = k.in /\ d.len = k.len
        /\ d.parsed = k.parsed
    BY <2>2, Zenon DEF Same, Fields
  <2>4. InputOK(d, Len(Script[c]))
    <3>1. /\ InputOK(k, Len(Script[c])) /\ k.sock \in Nat /\ k.sent \in Nat
          /\ k.sent = k.sock + Unit * k.in + (k.len - k.parsed)
      BY <1>1, Zenon DEF Good, InputOK
    <3>2. k.sent >= 0 + 2 * k.in + (k.len - k.parsed)
      BY <1>3, <3>1, SentMore, Zenon DEF Unit
    <3>3. d.sent >= d.sock + Unit * d.in + (d.len - d.parsed)
      BY <2>2, <2>3, <3>2, Zenon DEF Unit
    <3>4. d.sock \in Nat /\ d.sent \in Nat /\ d.sent <= Unit * Len(Script[c])
      BY <2>2, <3>1 DEF InputOK
    <3> QED BY <2>2, <2>3, <3>1, <3>3, <3>4, Zenon DEF InputOK
  <2>5. Apart(r, r', c) /\ Fine(r', c)
    BY <1>1, <1>2, <2>1, <2>2, <2>4, ClientFacts, Zenon
  <2> QED BY <2>5, OneConn, Zenon
<1> QED BY <1>4, <1>5, Zenon

\* The handlers of an epoll event keep the invariant.
LEMMA EventKeeps ==
    ASSUME LoopFacts, CInv, NEW c \in Conns, NEW writable \in BOOLEAN,
           NEW room \in Nat, NEW oom \in BOOLEAN, Event(c, writable, room, oom)
    PROVE  CInv'
<1> DEFINE k == r.conn[c]
           d == [k EXCEPT !.edge = FALSE]
           g == [r EXCEPT !.conn[c] = d]
<1>1. Good(k, c) /\ LifeOK(k) /\ ReactorOK(r) /\ Fine(r, c) /\ k.fd
  BY Zenon DEF CInv, Fine, Event
<1>2. r' = Handled(g, c, writable, room, oom)
  BY <1>1, Zenon DEF Event, ReactorOK, Parts
<1>3. Same(k, d, {"sock", "eof", "rst", "edge", "sent"}) /\ Same(k, d, {"edge"})
  BY <1>1, Zenon DEF Good, ConnOK, IsConn, Fields, Same
<1> HIDE DEF d
<1>4. /\ d.state = k.state /\ d.fd = k.fd /\ d.in = k.in /\ d.len = k.len
      /\ d.parsed = k.parsed /\ d.eof = k.eof /\ d.rst = k.rst /\ d.sock = k.sock
      /\ d.sent = k.sent
  BY <1>3, Zenon DEF Same, Fields
<1>5. InputOK(d, Len(Script[c]))
  BY <1>1, <1>4, Zenon DEF Good, InputOK
<1>6. k.state = "closing" => d.eof /\ ~d.rst /\ d.sock = 0
  BY <1>1, <1>4, Zenon DEF LifeOK
<1>0. g = [r EXCEPT !.conn[c] = d]
  BY Zenon
<1> HIDE DEF g
<1>7. Apart(r, g, c) /\ Fine(g, c) /\ g.conn[c] = d
  BY <1>0, <1>1, <1>3, <1>5, <1>6, ClientFacts, SMTT(40)
<1>8. ReactorOK(g) /\ g.conn[c].fd
  BY <1>1, <1>4, <1>7, Zenon DEF Apart
<1>9. Apart(g, r', c) /\ Fine(r', c)
  BY <1>2, <1>7, <1>8, HandledFacts, Zenon
<1>10. Apart(r, r', c)
  BY <1>7, <1>9, ApartTrans, Zenon
<1> QED BY <1>9, <1>10, OneConn, Zenon

\* The reply of another shard (net_reactor_proxy_reply_callback) completes a
\* slot and marks the connection dirty.
LEMMA ReplyKeeps ==
    ASSUME CInv, NEW c \in Conns, NEW seq, Reply(c, seq)
    PROVE  CInv'
<1> DEFINE k == r.conn[c]
           d == [k EXCEPT !.slots[Index(k, seq)].state = "done"]
           g == [r EXCEPT !.conn[c] = d]
<1>1. /\ Good(k, c) /\ LifeOK(k) /\ ReactorOK(r) /\ seq \in Used(k)
      /\ Placed(k, InDirty(r, c), InDead(r, c))
  BY Zenon DEF CInv, Fine, Reply, Used
<1>2. r' = MarkDirty(g, c)
  BY <1>1, Zenon DEF Reply, ReactorOK, Parts
<1>3. ConnOK(d) /\ Same(k, d, {"slots"})
  BY <1>1, DoneConn, Zenon DEF Good
<1> HIDE DEF d
<1>4. Apart(r, g, c) /\ g.conn[c] = d
  BY <1>1, SetConn, Zenon
<1> HIDE DEF g
<1>5. Same(k, d, Output)
  BY <1>3, Zenon DEF Same, Output
<1>6. /\ Good(d, c)
      /\ d.state = k.state /\ d.fd = k.fd /\ d.freed = k.freed
      /\ d.sock = k.sock /\ d.eof = k.eof /\ d.rst = k.rst
      /\ Complete(d) <=> Complete(k)
  BY <1>1, <1>3, <1>5, OutputFrame
<1>7. ~Drained(k)
  <2>1. k.in \in Nat /\ k.out \in Nat /\ seq \in k.out..k.in-1
    BY <1>1, Zenon DEF Good, ConnOK, RingOK, Used
  <2>2. k.in # k.out
    BY <2>1
  <2> QED BY <2>2, Zenon DEF Drained
<1>8. k.freed = 0 /\ k.state # "none"
  <2>1. ~(k.freed > 0) /\ k.state # "none"
    BY <1>1, <1>7, Zenon DEF LifeOK
  <2>2. k.freed \in Nat
    BY <1>1, Zenon DEF Good, ConnOK, BuffersOK
  <2> HIDE DEF k
  <2> QED BY <2>1, <2>2
<1>9. LifeOK(d)
  BY <1>1, <1>6, <1>8 DEF LifeOK
<1>10. ReactorOK(g)
  BY <1>4, Zenon DEF Apart
<1>11. Apart(g, r', c) /\ r'.conn = g.conn /\ InDirty(r', c) /\ ~InDead(r', c)
  BY <1>2, <1>10, MarkDirtyFacts, Zenon
<1>12. r'.conn[c] = d
  BY <1>4, <1>11, Zenon
<1>13. Fine(r', c)
  BY <1>6, <1>8, <1>9, <1>11, <1>12, Zenon DEF Fine, Placed
<1>14. Apart(r, r', c)
  BY <1>4, <1>11, ApartTrans, Zenon
<1> QED BY <1>13, <1>14, OneConn, Zenon

\* A turn of the Master Flush keeps the invariant.
LEMMA FlushKeeps ==
    ASSUME LoopFacts, CInv, NEW room \in Nat, NEW oom \in BOOLEAN, FlushOne(room, oom)
    PROVE  CInv'
<1>1. r.dirty \in Seq(Conns) /\ r.dirty # << >> /\ ReactorOK(r)
  BY Zenon DEF CInv, ReactorOK, FlushOne
<1>2. PICK c : c = Head(r.dirty)
  BY Zenon
<1>3. c \in Conns /\ InDirty(r, c)
  <2>1. PICK l \in Seq(Conns) : l = r.dirty /\ l # << >>
    BY <1>1, Zenon
  <2>2. Head(l) = l[1] /\ 1 \in DOMAIN l /\ l[1] \in Conns
    BY <2>1
  <2> QED BY <1>2, <2>1, <2>2, Zenon DEF InDirty, Range
<1>4. r' = FlushOf(ListRemove(r, c), c, room, oom)
  BY <1>2, Zenon DEF FlushOne
<1>5. Apart(r, r', c) /\ Fine(r', c)
  BY <1>1, <1>3, <1>4, FlushOfFacts, Zenon DEF CInv
<1> QED BY <1>3, <1>5, OneConn, Zenon

\* One connection of the dead list.
LEMMA BuryFacts ==
    ASSUME LoopFacts, NEW g, ReactorOK(g), \A d \in Conns : Fine(g, d),
           NEW c \in Conns, InDead(g, c)
    PROVE  LET h == TryFree(g, c)
           IN  Apart(g, h, c) /\ ReactorOK(h) /\ \A d \in Conns : Fine(h, d)
<1> DEFINE k == g.conn[c]
           h == TryFree(g, c)
<1>1. Good(k, c) /\ k.state = "dead" /\ k.freed = 0 /\ Fine(g, c)
  BY Zenon DEF Fine, Placed
<1>2. CASE Releasable(k)
  <2>1. Leaving(k)
    BY <1>1, Zenon DEF Leaving
  <2>2. Apart(g, h, c) /\ Fine(h, c)
    BY <1>1, <1>2, <2>1, FreeFine, Zenon
  <2> HIDE DEF h
  <2>3. ReactorOK(h) /\ \A d \in Conns : Fine(h, d)
    BY <2>2, OthersFine, Zenon
  <2> QED BY <2>2, <2>3, Zenon DEF h
<1>3. CASE ~Releasable(k)
  <2>1. h = g
    BY <1>1, <1>3, TryFreeFacts, Zenon
  <2> QED BY <2>1, ApartSelf, Zenon
<1> QED BY <1>2, <1>3, Zenon

---------------------------------------------------------------------------
(* What the turns of the loops keep, from the first to the last *)

\* The read loop of handle_read_resp.
ReadStep(c, q, n, x) == ReadUnit(WithRoom(x))
Reading(c, q, n, x) ==
    /\ ConnOK(x) /\ Same(c, x, Input) /\ x.sock = c.sock - n /\ x.freed = 0
    /\ x.len - x.parsed = c.len - c.parsed + n

\* handle_read_resp takes the bytes of the socket into the buffer, one by one.
LEMMA ReadKept ==
    ASSUME CardFact, NEW k, ConnOK(k), k.freed = 0, k.sock \in Nat
    PROVE  /\ Reading(k, 0, 0, k)
           /\ \A n \in 1..k.sock : \A x :
                 Reading(k, 0, n - 1, x) => Reading(k, 0, n, ReadStep(k, 0, n, x))
           /\ \A e : Reading(k, 0, k.sock, e) => Read(k, WithRoom(e))
<1>0. IsConn(k) /\ k.len \in Nat /\ k.parsed \in Nat
  BY Zenon DEF ConnOK, BuffersOK
<1>1. Reading(k, 0, 0, k)
  <2>1. k.sock - 0 = k.sock /\ (k.len - k.parsed) + 0 = k.len - k.parsed
    BY <1>0
  <2> QED BY <1>0, <2>1, Zenon DEF Reading, Same
<1>2. ASSUME NEW n \in 1..k.sock, NEW x, Reading(k, 0, n - 1, x)
      PROVE  Reading(k, 0, n, ReadStep(k, 0, n, x))
  <2> DEFINE d == ReadStep(k, 0, n, x)
  <2>1. ConnOK(x) /\ Same(k, x, Input) /\ x.sock = k.sock - (n - 1) /\ x.freed = 0
        /\ x.len - x.parsed = k.len - k.parsed + (n - 1)
    BY <1>2, Zenon DEF Reading
  <2>2. /\ ConnOK(d) /\ Same(x, d, Input) /\ d.sock = x.sock - 1
        /\ d.len - d.parsed = x.len - x.parsed + 1 /\ d.freed = 0
    BY <2>1, ReadTurnConn DEF ReadStep
  <2> HIDE DEF d
  <2>3. Same(k, d, Input)
    BY <2>1, <2>2, Zenon DEF Same
  <2>4. d.sock = k.sock - n /\ d.len - d.parsed = k.len - k.parsed + n
    BY <1>0, <2>1, <2>2
  <2> QED BY <2>2, <2>3, <2>4 DEF Reading, d
<1>3. ASSUME NEW e, Reading(k, 0, k.sock, e) PROVE Read(k, WithRoom(e))
  <2> DEFINE d == WithRoom(e)
  <2>1. /\ ConnOK(d) /\ Same(e, d, Input) /\ d.sock = e.sock
        /\ d.len - d.parsed = e.len - e.parsed
    BY <1>3, WithRoomConn, Zenon DEF Reading
  <2> HIDE DEF d
  <2>2. Same(k, d, Input)
    BY <1>3, <2>1, Zenon DEF Reading, Same
  <2>3. d.sock = 0 /\ d.len - d.parsed = k.len - k.parsed + k.sock
    BY <1>3, <2>1 DEF Reading
  <2> QED BY <2>1, <2>2, <2>3 DEF Read, d
<1> QED BY <1>1, <1>2, <1>3, Zenon

\* The parse loop.
ParseStep(p, oom, n, x) == ParseOne(x, p[2], oom)
IsParsing(p, oom, n, x) ==
    /\ ConnOK(x) /\ InputOK(x, Len(p[2])) /\ Same(p[1], x, Parsing) /\ Killed(p[1], x)
    /\ x.state = "dead" \/ ~Complete(x) \/ x.in >= p[1].in + n

\* Each turn of handle_read_resp's parse loop takes a whole request, or there
\* is none, or the connection died.
LEMMA ParseKept ==
    ASSUME CardFact, NEW k, NEW oom \in BOOLEAN, NEW script \in Seq(Kinds), ConnOK(k),
           InputOK(k, Len(script))
    PROVE  /\ IsParsing(<<k, script>>, oom, 0, k)
           /\ \A n \in 1..Len(script) : \A x :
                 IsParsing(<<k, script>>, oom, n - 1, x) =>
                    IsParsing(<<k, script>>, oom, n, ParseStep(<<k, script>>, oom, n, x))
           /\ \A e : IsParsing(<<k, script>>, oom, Len(script), e) =>
                 Parsed(k, e, Len(script))
<1>1. PICK N \in Nat : N = Len(script)
  OBVIOUS
<1>0. <<k, script>>[1] = k /\ <<k, script>>[2] = script
  BY Zenon
<1>2. PICK p : p = <<k, script>> /\ p[1] = k /\ p[2] = script
  BY <1>0, Zenon
<1>3. IsParsing(p, oom, 0, k)
  <2>1. k.in \in Nat /\ IsConn(k)
    BY Zenon DEF ConnOK, RingOK
  <2>2. k.in >= k.in + 0
    BY <2>1
  <2> QED BY <1>2, <2>1, <2>2 DEF IsParsing, Killed, Same
<1>4. ASSUME NEW n \in 1..N, NEW x, IsParsing(p, oom, n - 1, x)
      PROVE  IsParsing(p, oom, n, ParseStep(p, oom, n, x))
  <2> DEFINE d == ParseOne(x, script, oom)
  <2>1. /\ ConnOK(x) /\ InputOK(x, N) /\ Same(k, x, Parsing) /\ Killed(k, x)
        /\ x.state = "dead" \/ ~Complete(x) \/ x.in >= k.in + (n - 1)
    BY <1>1, <1>2, <1>4 DEF IsParsing
  <2>2. /\ ConnOK(d) /\ InputOK(d, N) /\ Same(x, d, Parsing) /\ Killed(x, d)
        /\ (d = x /\ ~Complete(x)) \/ d.state = "dead" \/ d.in = x.in + 1
    BY <1>1, <2>1, ParseTurn
  <2>3. ~Complete(x) => d = x
    BY Zenon DEF ParseOne
  <2> HIDE DEF d
  <2>4. Same(k, d, Parsing) /\ Killed(k, d)
    BY <2>1, <2>2 DEF Same, Killed
  <2>5. d.state = "dead" \/ ~Complete(d) \/ d.in >= k.in + n
    <3>1. CASE x.state = "dead"
      BY <2>2, <3>1 DEF Killed
    <3>2. CASE ~Complete(x)
      BY <2>3, <3>2
    <3>3. CASE x.in >= k.in + (n - 1) /\ d.in = x.in + 1
      <4>1. k.in \in Nat /\ x.in \in Nat
        BY <2>1, Zenon DEF ConnOK, RingOK
      <4>2. d.in >= k.in + n
        BY <3>3, <4>1
      <4> QED BY <4>2, Zenon
    <3> QED BY <2>1, <2>2, <3>1, <3>2, <3>3, SMTT(40)
  <2>6. IsParsing(p, oom, n, d)
    BY <1>1, <1>2, <2>2, <2>4, <2>5, SMTT(40) DEF IsParsing
  <2> QED BY <1>2, <2>6 DEF ParseStep, d
<1>5. ASSUME NEW e, IsParsing(p, oom, N, e) PROVE Parsed(k, e, N)
  <2>1. /\ ConnOK(e) /\ InputOK(e, N) /\ Same(k, e, Parsing) /\ Killed(k, e)
        /\ e.state = "dead" \/ ~Complete(e) \/ e.in >= k.in + N
    BY <1>1, <1>2, <1>5 DEF IsParsing
  <2>2. e.in >= k.in + N => ~Complete(e)
    <3>1. k.in \in Nat /\ e.in \in Nat
      BY <2>1, Zenon DEF ConnOK, RingOK
    <3>2. e.in >= k.in + N => e.in >= N
      BY <3>1
    <3> QED BY <2>1, <3>2, ParseEnds
  <2> QED BY <2>1, <2>1, <2>2 DEF Parsed
<1> QED BY <1>1, <1>2, <1>3, <1>4, <1>5, Zenon

\* The write loop of net_write_handler.
WriteStep(c, q, n, x) == Sent(Refill(x))
IsWriting(c, q, n, x) == ConnOK(x) /\ Same(c, x, Writing) /\ c.out <= x.out

\* net_write_handler refills the write buffer and sends from it, turn by turn.
LEMMA WriteKept ==
    ASSUME LeastFact, CardFact, NEW k, NEW room \in Nat, ConnOK(k)
    PROVE  /\ IsWriting(k, 0, 0, k)
           /\ \A n \in 1..room : \A x :
                 IsWriting(k, 0, n - 1, x) => IsWriting(k, 0, n, WriteStep(k, 0, n, x))
           /\ \A e : IsWriting(k, 0, room, e) => Written(k, Refill(e))
<1>0. k.out \in Nat /\ IsConn(k)
  BY Zenon DEF ConnOK, RingOK
<1>1. IsWriting(k, 0, 0, k)
  BY <1>0 DEF IsWriting, Same
<1>2. ASSUME NEW n \in 1..room, NEW x, IsWriting(k, 0, n - 1, x)
      PROVE  IsWriting(k, 0, n, WriteStep(k, 0, n, x))
  <2> DEFINE d == WriteStep(k, 0, n, x)
  <2>1. ConnOK(x) /\ Same(k, x, Writing) /\ k.out <= x.out
    BY <1>2, Zenon DEF IsWriting
  <2>2. ConnOK(d) /\ Same(x, d, Writing) /\ x.out <= d.out
    BY <2>1, WriteTurn DEF WriteStep
  <2> HIDE DEF d
  <2>3. Same(k, d, Writing)
    BY <2>1, <2>2, SMTT(40) DEF Same
  <2>4. x.out \in Nat /\ d.out \in Nat
    BY <2>1, <2>2 DEF ConnOK, RingOK
  <2>5. k.out <= d.out
    BY <1>0, <2>1, <2>2, <2>4
  <2> QED BY <2>2, <2>3, <2>5 DEF IsWriting, d
<1>3. ASSUME NEW e, IsWriting(k, 0, room, e) PROVE Written(k, Refill(e))
  <2> DEFINE d == Refill(e)
  <2>1. /\ ConnOK(d) /\ Same(e, d, {"wbuf", "wbuf_sent", "refs", "slots", "out"})
        /\ Unsent(d) = << >> => FlushEnd(d) = d.out
        /\ e.out <= d.out
    BY <1>3, RefillConn DEF IsWriting
  <2> HIDE DEF d
  <2>2. Same(k, d, Writing)
    BY <1>3, <2>1, SMTT(40) DEF IsWriting, Same, Writing
  <2>3. e.out \in Nat /\ d.out \in Nat /\ k.out <= e.out
    BY <1>3, <2>1 DEF IsWriting, ConnOK, RingOK
  <2>4. k.out <= d.out
    BY <1>0, <2>1, <2>3
  <2> QED BY <2>1, <2>2, <2>4 DEF Written, d
<1> QED BY <1>1, <1>2, <1>3, Zenon

\* The dead list is freed from its head to its end.
Bury(g, q, n, x) == TryFree(x, g.dead[n])
IsBuried(g, q, n, x) ==
    /\ ReactorOK(x) /\ \A c \in Conns : Fine(x, c)
    /\ \A i \in n+1..Len(g.dead) : InDead(x, g.dead[i])

\* net_conn_try_free of one connection leaves the rest of the dead list.
LEMMA BuryKept ==
    ASSUME LoopFacts, CInv
    PROVE  /\ Len(r.dead) \in Nat
           /\ IsBuried(r, 0, 0, r)
           /\ \A n \in 1..Len(r.dead) : \A x :
                 IsBuried(r, 0, n - 1, x) => IsBuried(r, 0, n, Bury(r, 0, n, x))
<1>1. PICK N \in Nat : N = Len(r.dead)
  BY DEF CInv, ReactorOK
<1>2. /\ ReactorOK(r) /\ \A c \in Conns : Fine(r, c)
      /\ \A i \in 1..N : r.dead[i] \in Conns
      /\ \A i, j \in 1..N : r.dead[i] = r.dead[j] => i = j
  <2>1. ReactorOK(r) /\ \A c \in Conns : Fine(r, c)
    BY Zenon DEF CInv
  <2>2. r.dead \in Seq(Conns) /\ \A i, j \in DOMAIN r.dead : r.dead[i] = r.dead[j] => i = j
    BY <2>1, Zenon DEF ReactorOK, Distinct
  <2>3. DOMAIN r.dead = 1..N /\ \A i \in 1..N : r.dead[i] \in Conns
    BY <1>1, <2>2
  <2> QED BY <2>1, <2>2, <2>3, Zenon
<1>2a. DOMAIN r.dead = 1..N
  BY <1>1 DEF CInv, ReactorOK
<1>3. IsBuried(r, 0, 0, r)
  <2>1. \A i \in 0+1..N : InDead(r, r.dead[i])
    <3>1. \A i \in 0+1..N : i \in DOMAIN r.dead
      BY <1>2a
    <3> QED BY <3>1, Zenon DEF InDead, Range
  <2> QED BY <1>1, <1>2, <2>1, Zenon DEF IsBuried
<1>4. ASSUME NEW n \in 1..N, NEW x, IsBuried(r, 0, n - 1, x)
      PROVE  IsBuried(r, 0, n, Bury(r, 0, n, x))
  <2> DEFINE c == r.dead[n]
             h == TryFree(x, c)
  <2>1. (n - 1) + 1 = n /\ n \in n..N
    OBVIOUS
  <2>2. /\ ReactorOK(x) /\ \A d \in Conns : Fine(x, d)
        /\ \A i \in n..N : InDead(x, r.dead[i])
    BY <1>1, <1>4, <2>1 DEF IsBuried
  <2>3. c \in Conns /\ InDead(x, c)
    BY <1>2, <2>1, <2>2, SMTT(40)
  <2>4. Apart(x, h, c) /\ ReactorOK(h) /\ \A d \in Conns : Fine(h, d)
    BY <2>2, <2>3, BuryFacts, SMTT(40)
  <2> HIDE DEF h
  <2>5. ASSUME NEW i \in n+1..N PROVE InDead(h, r.dead[i])
    <3>1. i \in n..N /\ i \in 1..N /\ i # n
      OBVIOUS
    <3>2. r.dead[i] \in Conns \ {c} /\ InDead(x, r.dead[i])
      BY <1>2, <2>2, <3>1
    <3> QED BY <2>4, <3>2 DEF Apart
  <2>6. IsBuried(r, 0, n, h)
    BY <1>1, <2>4, <2>5 DEF IsBuried
  <2> QED BY <2>6 DEF Bury, h
<1> QED BY <1>1, <1>3, <1>4, Zenon

---------------------------------------------------------------------------
(* The invariant, and what follows from it *)

\* No connection has been accepted, and both lists are empty.
LEMMA InitHolds == ASSUME LoopFacts, Init PROVE CInv
<1>0. CardFact /\ LeastFact
  BY Zenon DEF LoopFacts
<1>1. /\ r = [conn |-> [c \in Conns |-> NewConn], dirty |-> << >>, dead |-> << >>]
      /\ r.conn = [c \in Conns |-> NewConn] /\ r.dirty = << >> /\ r.dead = << >>
  BY Zenon DEF Init
<1>2. ReactorOK(r) /\ \A c \in Conns : ~InDirty(r, c) /\ ~InDead(r, c)
  <2>1. r = [x \in Parts |-> r[x]]
    BY <1>1, Zenon DEF Parts
  <2>2. r.dirty \in Seq(Conns) /\ Distinct(r.dirty) /\ r.dead \in Seq(Conns) /\ Distinct(r.dead)
    BY <1>1 DEF Distinct
  <2>3. \A c \in Conns : ~InDirty(r, c) /\ ~InDead(r, c)
    BY <1>1 DEF InDirty, InDead, Range
  <2>4. r.conn = [c \in Conns |-> r.conn[c]]
    BY <1>1, Zenon
  <2> QED BY <2>1, <2>2, <2>3, <2>4 DEF ReactorOK
<1>3. ASSUME NEW c \in Conns PROVE Fine(r, c)
  <2> DEFINE k == NewConn
  <2>1. r.conn[c] = k
    BY <1>1
  <2>2. Len(Script[c]) \in Nat
    BY Scripts
  <2>3. Good(k, c)
    BY <1>0, <2>2, NewConnOK DEF Good
  <2>4. /\ k.state = "none" /\ k.fd = FALSE /\ k.freed = 0 /\ k.in = 0 /\ k.out = 0
        /\ k.wbuf = << >> /\ k.wbuf_sent = 0 /\ k.len = 0 /\ k.parsed = 0
    BY Zenon DEF NewConn
  <2>5. ~Complete(k)
    BY <2>4 DEF Complete, Unit
  <2>6. Quiet(k) /\ Drained(k)
    <3>1. FlushEnd(k) \in Nat /\ k.out <= FlushEnd(k) /\ FlushEnd(k) <= k.in
      BY <1>0, <2>3, FlushEndFacts DEF Good, ConnOK
    <3>2. Unsent(k) = << >>
      BY <2>4 DEF Unsent
    <3> QED BY <2>4, <3>1, <3>2 DEF Quiet, Drained
  <2> HIDE DEF k
  <2>7. LifeOK(k)
    BY <2>4, <2>5, <2>6 DEF LifeOK
  <2>8. Placed(k, InDirty(r, c), InDead(r, c))
    BY <1>2, <2>4 DEF Placed
  <2> QED BY <2>1, <2>3, <2>7, <2>8 DEF Fine
<1> QED BY <1>2, <1>3 DEF CInv

\* The socket takes some number of replies, and memory runs out or it does not.
LEMMA Choices ==
    /\ Memory \subseteq BOOLEAN /\ Seqs \subseteq Nat
    /\ \A c \in Conns : Rooms(c) \subseteq Nat
<1>1. ASSUME NEW c \in Conns PROVE Rooms(c) \subseteq Nat
  <2>1. PICK N \in Nat : N = Len(Script[c])
    BY Scripts
  <2>2. 0..N \subseteq Nat /\ {0} \subseteq Nat /\ {N} \subseteq Nat
    OBVIOUS
  <2>3. CASE r.conn[c].rst
    BY <2>2, <2>3, Zenon DEF Rooms
  <2>4. CASE ~r.conn[c].rst /\ faults = MaxFaults
    BY <2>1, <2>2, <2>4 DEF Rooms
  <2>5. CASE ~r.conn[c].rst /\ faults # MaxFaults
    BY <2>1, <2>2, <2>5 DEF Rooms
  <2> QED BY <2>3, <2>4, <2>5
<1>2. ASSUME NEW c \in Conns, NEW n \in 0..Len(Script[c]) PROVE n \in Nat
  BY Scripts
<1>3. Seqs \subseteq Nat
  BY <1>2 DEF Seqs
<1>4. Memory \subseteq BOOLEAN
  BY Zenon DEF Memory
<1> QED BY <1>1, <1>3, <1>4

\* Every action keeps the invariant; EndTurn has its own lemma.
LEMMA StepHolds == ASSUME LoopFacts, CInv, [Next]_vars, ~EndTurn PROVE CInv'
<1>1. ASSUME NEW c \in Conns, Client(c) PROVE CInv'
  <2>1. ASSUME NEW added \in BOOLEAN, Accept(c, added) PROVE CInv'
    BY <2>1, AcceptKeeps
  <2>2. ASSUME NEW n \in 1..Unit, Send(c, n) PROVE CInv'
    BY <2>2, SendKeeps
  <2>3. CASE Close(c) \/ PeerReset(c)
    BY <2>3, CloseKeeps
  <2> QED BY <1>1, <2>1, <2>2, <2>3, Zenon DEF Client
<1>2. ASSUME NEW c \in Conns, Poll(c) PROVE CInv'
  <2>1. Rooms(c) \subseteq Nat /\ Memory \subseteq BOOLEAN
    BY Choices, Zenon
  <2>2. ASSUME NEW writable \in BOOLEAN, NEW room \in Rooms(c), NEW oom \in Memory,
               Event(c, writable, room, oom)
        PROVE  CInv'
    BY <2>1, <2>2, EventKeeps, Zenon
  <2> QED BY <1>2, <2>2, Zenon DEF Poll
<1>3. ASSUME NEW c \in Conns, NEW seq \in Seqs, Reply(c, seq) PROVE CInv'
  BY <1>3, ReplyKeeps
<1>4. CASE StartFlush \/ UNCHANGED vars
  BY <1>4 DEF StartFlush, vars, CInv
<1>5. ASSUME Flush PROVE CInv'
  <2>1. ASSUME NEW room \in Seqs, NEW oom \in Memory, FlushOne(room, oom) PROVE CInv'
    <3>1. room \in Nat /\ oom \in BOOLEAN
      BY Choices
    <3> QED BY <2>1, <3>1, FlushKeeps
  <2> QED BY <1>5, <2>1, Zenon DEF Flush
<1> QED BY <1>1, <1>2, <1>3, <1>4, <1>5, Zenon DEF Next

\* Received and unsent replies are the replies let go by
\* net_pipeline_try_flush.
LEMMA OrderNow == CInv => RepliesInOrder
<1> SUFFICES ASSUME CInv, NEW c \in Conns
             PROVE  r.conn[c].got \o Unsent(r.conn[c]) = [i \in 1..r.conn[c].out |-> i]
  BY Zenon DEF RepliesInOrder
<1> DEFINE k == r.conn[c]
<1>1. k.out \in Nat /\ Writes(k.got, k.wbuf, k.wbuf_sent, k.out)
  BY DEF CInv, Fine, Good, ConnOK, RingOK, WritesOK
<1> QED BY <1>1, InOrder, Zenon DEF Unsent

\* The references of net_rbuf_ref are those of the slots and the connection.
LEMMA CountsNow == CInv => BuffersHeld
<1> SUFFICES ASSUME CInv, NEW c \in Conns, r.conn[c].freed < 2,
                    NEW b \in DOMAIN r.conn[c].refs
             PROVE  r.conn[c].refs[b] =
                      Cardinality({q \in Used(r.conn[c]) : SlotAt(r.conn[c], q).nb = b - 1})
                      + IF b = r.conn[c].nb + 1 /\ r.conn[c].freed = 0 THEN 1 ELSE 0
  BY Zenon DEF BuffersHeld
<1> DEFINE k == r.conn[c]
<1>1. BuffersOK(k)
  BY Zenon DEF CInv, Fine, Good, ConnOK
<1> HIDE DEF k
<1>2. DOMAIN k.refs = 1..k.nb+1
  BY <1>1 DEF BuffersOK
<1>3. k.freed < 2 /\ b \in 1..k.nb+1
  BY <1>2 DEF k
<1>4. k.refs[b] = Cardinality(Within(k, b)) + Own(k, b)
  BY <1>1, <1>3 DEF BuffersOK
<1> QED BY <1>4, Zenon DEF Within, Own, k

\* A closing connection that net_conn_try_free let go has been answered.
LEMMA GraceNow == CInv => GracefulClose
<1> SUFFICES ASSUME CInv, NEW c \in Conns, r.conn[c].freed > 0, r.conn[c].state = "closing"
             PROVE  Len(r.conn[c].got) = r.conn[c].sent \div Unit
  BY Zenon DEF GracefulClose
<1> DEFINE k == r.conn[c]
<1>1. Good(k, c) /\ LifeOK(k) /\ k.freed > 0 /\ k.state = "closing"
  BY Zenon DEF CInv, Fine
<1> HIDE DEF k
<1>2. k.in = k.out /\ Unsent(k) = << >> /\ ~Complete(k) /\ k.sock = 0 /\ ~k.rst
  BY <1>1, Zenon DEF LifeOK, Drained
<1>3. PICK got \in Seq(Nat), wbuf \in Seq(Nat), out \in Nat, sent \in Nat :
          k.got = got /\ k.wbuf = wbuf /\ k.out = out /\ k.wbuf_sent = sent
  BY <1>1 DEF Good, ConnOK, RingOK, WritesOK, Writes
<1>4. sent <= Len(wbuf) /\ Len(got) + Len(wbuf) - sent = out
  BY <1>1, <1>3 DEF Good, ConnOK, WritesOK, Writes
<1>5. SubSeq(wbuf, sent + 1, Len(wbuf)) = << >>
  BY <1>2, <1>3 DEF Unsent
<1>6. Len(got) = out
  <2>1. Len(SubSeq(wbuf, sent + 1, Len(wbuf))) = Len(wbuf) - sent
    BY <1>4
  <2>2. Len(wbuf) - sent = 0
    BY <1>5, <2>1, Zenon
  <2> QED BY <1>4, <2>2
<1>7. PICK n \in Nat, m \in Nat : n = k.sent /\ m = k.len - k.parsed
  BY <1>1 DEF Good, ConnOK, BuffersOK, InputOK
<1>8. n = Unit * out + m /\ m < Unit
  BY <1>1, <1>2, <1>3, <1>7 DEF Good, InputOK, Complete, Unit
<1>9. n \div Unit = out
  BY <1>8 DEF Unit
<1> QED BY <1>3, <1>6, <1>7, <1>9 DEF k

\* A connection off the dirty list has nothing to do.
LEMMA QuietNow == CInv => NothingForgotten
<1> SUFFICES ASSUME CInv, NEW c \in Conns, r.conn[c].fd, c \notin Range(r.dirty)
             PROVE  /\ FlushEnd(r.conn[c]) = r.conn[c].out
                    /\ Unsent(r.conn[c]) = << >> /\ ~Complete(r.conn[c])
  BY Zenon DEF NothingForgotten
<1>1. LifeOK(r.conn[c]) /\ Placed(r.conn[c], InDirty(r, c), InDead(r, c)) /\ ~InDirty(r, c)
  BY DEF CInv, Fine, InDirty
<1> QED BY <1>1, Zenon DEF LifeOK, Placed, Quiet

\* net_conn_try_free has been through at most once, or the client closed.
LEMMA OnceNow == CInv => FreedOnce
  BY Zenon DEF CInv, Fine, LifeOK, FreedOnce

---------------------------------------------------------------------------
(* The facts that take induction *)

ReadLoop == INSTANCE Loops WITH Body <- ReadStep, Inv <- Reading

\* Of the slots without a reply there is a first.
LEMMA Least == LeastFact
  BY ReadLoop!LeastNat, Zenon DEF LeastFact

\* handle_read_resp reads until the socket is empty.
LEMMA ReadsAll ==
    ASSUME CardFact, NEW k, ConnOK(k), k.freed = 0, k.sock \in Nat
    PROVE  Read(k, ReadAll(k))
<1> DEFINE e == ReadLoop!Loop(k, 0, k, k.sock)
<1>1. Reading(k, 0, k.sock, e)
  BY ReadKept, ReadLoop!LoopInvariant
<1>2. ReadAll(k) = WithRoom(e)
  BY Zenon DEF ReadAll, ReadStep, ReadLoop!Loop, ReadLoop!IsRun
<1> QED BY <1>1, <1>2, ReadKept, Zenon

ParseLoop == INSTANCE Loops WITH Body <- ParseStep, Inv <- IsParsing

\* handle_read_resp parses until no whole request is left, or the connection
\* died.
LEMMA ParsesAll ==
    ASSUME CardFact, NEW k, NEW oom \in BOOLEAN, NEW script \in Seq(Kinds), ConnOK(k),
           InputOK(k, Len(script))
    PROVE  Parsed(k, ParseAll(k, script, oom), Len(script))
<1> DEFINE p == <<k, script>>
           e == ParseLoop!Loop(p, oom, k, Len(script))
<1>1. Len(script) \in Nat /\ p[2] = script
  OBVIOUS
<1>2. IsParsing(p, oom, Len(script), e)
  <2>1. /\ IsParsing(p, oom, 0, k)
        /\ \A n \in 1..Len(script) : \A x :
              IsParsing(p, oom, n - 1, x) => IsParsing(p, oom, n, ParseStep(p, oom, n, x))
    BY ParseKept, Zenon
  <2> HIDE DEF p
  <2> QED BY <1>1, <2>1, ParseLoop!LoopInvariant, SMTT(40)
<1>3. ParseAll(k, script, oom) = e
  <2> HIDE DEF p
  <2> QED BY <1>1, Zenon DEF ParseAll, ParseStep, ParseLoop!Loop, ParseLoop!IsRun
<1> HIDE DEF e
<1> QED BY <1>2, <1>3, ParseKept, Zenon

WriteLoop == INSTANCE Loops WITH Body <- WriteStep, Inv <- IsWriting

\* net_write_handler writes until the socket is full or nothing is left.
LEMMA WritesAll ==
    ASSUME LeastFact, CardFact, NEW k, NEW room \in Nat, ConnOK(k)
    PROVE  Written(k, WriteAll(k, room))
<1> DEFINE e == WriteLoop!Loop(k, 0, k, room)
<1>1. IsWriting(k, 0, room, e)
  BY WriteKept, WriteLoop!LoopInvariant, SMTT(40)
<1>2. WriteAll(k, room) = Refill(e)
  BY Zenon DEF WriteAll, WriteStep, WriteLoop!Loop, WriteLoop!IsRun
<1> QED BY <1>1, <1>2, WriteKept, Zenon

BuryLoop == INSTANCE Loops WITH Body <- Bury, Inv <- IsBuried

\* The end of a turn frees what it may of the dead list.
LEMMA EndTurnKeeps ==
    ASSUME LoopFacts, CInv, EndTurn
    PROVE  CInv'
<1> DEFINE e == BuryLoop!Loop(r, 0, r, Len(r.dead))
<1>1. IsBuried(r, 0, Len(r.dead), e)
  BY BuryKept, BuryLoop!LoopInvariant, SMTT(40)
<1>2. r' = e
  BY Zenon DEF EndTurn, Bury, BuryLoop!Loop, BuryLoop!IsRun
<1> HIDE DEF e
<1>3. ReactorOK(r') /\ \A c \in Conns : Fine(r', c)
  BY <1>1, <1>2, Zenon DEF IsBuried
<1> QED BY <1>3, Zenon DEF CInv

INSTANCE FiniteSetTheorems

\* The slots that refer to a buffer are finitely many.
LEMMA Cardinals == CardFact
<1>1. Cardinality({}) = 0
  BY FS_EmptySet, Zenon
<1>2. ASSUME NEW a \in Int, NEW b \in Int PROVE IsFiniteSet(a..b)
  BY FS_Interval, Zenon
<1>3. ASSUME NEW S, IsFiniteSet(S)
      PROVE  /\ Cardinality(S) \in Nat
             /\ \A x : x \notin S => Cardinality(S \cup {x}) = Cardinality(S) + 1
             /\ \A T \in SUBSET S : /\ IsFiniteSet(T)
                                    /\ Cardinality(S \ T) = Cardinality(S) - Cardinality(T)
  <2>1. Cardinality(S) \in Nat
    BY <1>3, FS_CardinalityType, Zenon
  <2>2. ASSUME NEW x, x \notin S PROVE Cardinality(S \cup {x}) = Cardinality(S) + 1
    BY <1>3, <2>2, FS_AddElement, Zenon
  <2>3. ASSUME NEW T \in SUBSET S
        PROVE  IsFiniteSet(T) /\ Cardinality(S \ T) = Cardinality(S) - Cardinality(T)
    <3>1. IsFiniteSet(T)
      BY <1>3, FS_Subset, Zenon
    <3>2. Cardinality(S \ T) = Cardinality(S) - Cardinality(S \cap T)
      BY <1>3, FS_Difference, Zenon
    <3>3. S \cap T = T
      BY Zenon
    <3> QED BY <3>1, <3>2, <3>3, Zenon
  <2> QED BY <2>1, <2>2, <2>3, Zenon
<1> QED BY <1>1, <1>2, <1>3, Zenon DEF CardFact

\* The facts about the loops that the lemmas above assume.
LEMMA LoopsRun == LoopFacts
  BY Least, Cardinals, ReadsAll, ParsesAll, WritesAll, SMTT(40) DEF LoopFacts

---------------------------------------------------------------------------
(* The theorems *)

\* The inductive invariant: each connection's ring, write buffer, input
\* buffers and state fit together, and the dirty and the dead list hold it
\* where they must.
THEOREM ConnInvariant == Spec => []CInv
<1>1. Init => CInv
  BY LoopsRun, InitHolds, Zenon
<1>2. CInv /\ [Next]_vars => CInv'
  BY LoopsRun, StepHolds, EndTurnKeeps, Zenon
<1> QED BY <1>1, <1>2, PTL DEF Spec

\* net_pipeline_try_flush and net_write_handler give every client its replies
\* in the order of its requests, whatever the number of connections and
\* requests and whatever the sizes of the ring and the buffers.
THEOREM AnsweredInOrder == Spec => []RepliesInOrder
  BY OrderNow, ConnInvariant, PTL

\* net_rbuf_ref and net_rbuf_try_free keep the count of every input buffer.
THEOREM BuffersCounted == Spec => []BuffersHeld
  BY CountsNow, ConnInvariant, PTL

\* net_conn_try_free lets go of a connection its client closed only once the
\* client has every reply it waits for.
THEOREM ClosedGracefully == Spec => []GracefulClose
  BY GraceNow, ConnInvariant, PTL

\* A connection that net_reactor_mark_dirty has not put on the list has no
\* reply to flush, nothing to write and no request to parse.
THEOREM NoneForgotten == Spec => []NothingForgotten
  BY QuietNow, ConnInvariant, PTL

\* net_conn_try_free gives a connection back once, but for one that was
\* closing with replies to write.
THEOREM GivenBackOnce == Spec => []FreedOnce
  BY OnceNow, ConnInvariant, PTL
=============================================================================
