--------------------------- MODULE MemoryProofs ---------------------------
(***************************************************************************)
(* What the operations of the hash table (Htable) and of the index of      *)
(* expiry times (TtlIndex) do, for tables and heaps of any size.  A table  *)
(* is summed up by the set of its entries, an index by the time it has for *)
(* each object: the proofs about Keyspace see nothing else of the two.     *)
(* Then the invariant of the whole memory of a shard, and what a single    *)
(* step on its table, index, lists or objects does to it.                  *)
(***************************************************************************)
EXTENDS Keyspace, TLAPS

---------------------------------------------------------------------------
(* The heap *)

Node == [at : Nat \ {0}, obj : Objs]

\* The array and the back pointers agree.
Linked(h) ==
    /\ h = [heap |-> h.heap, heap_idx |-> h.heap_idx]
    /\ h.heap \in Seq(Node) /\ h.heap_idx \in [Objs -> Nat]
    /\ \A i \in DOMAIN h.heap : h.heap_idx[h.heap[i].obj] = i
    /\ \A o \in Objs : h.heap_idx[o] # 0 =>
          h.heap_idx[o] \in DOMAIN h.heap /\ h.heap[h.heap_idx[o]].obj = o

\* The times in the array.
Ats(h) == [i \in 1..Len(h.heap) |-> h.heap[i].at]

\* Every parent is at most its children, of all nodes of A, but for the node i
\* (which may be smaller than its parent), but for the children of i.
Ordered(n, A) == \A j \in 1..n : j > 1 => A[j \div 2] <= A[j]
Skips(n, A, i) == \A j \in 1..n : j > 1 /\ j \div 2 = i /\ i > 1 => A[i \div 2] <= A[j]
UpOrdered(n, A, i) == (\A j \in 1..n : j > 1 /\ j # i => A[j \div 2] <= A[j]) /\ Skips(n, A, i)
DownOrdered(n, A, i) ==
    (\A j \in 1..n : j > 1 /\ j \div 2 # i => A[j \div 2] <= A[j]) /\ Skips(n, A, i)

HeapOK(h) == Linked(h) /\ Ordered(Len(h.heap), Ats(h))

\* The time the index has for an object, 0 without one.
NodeAt(h, o) == IF h.heap_idx[o] = 0 THEN 0 ELSE h.heap[h.heap_idx[o]].at
SameNodes(h, g) == \A o \in Objs : NodeAt(g, o) = NodeAt(h, o)

\* The parent of a node.
LEMMA Half ==
    ASSUME NEW j \in Nat, j > 1
    PROVE  /\ j \div 2 \in Nat /\ j \div 2 >= 1 /\ j \div 2 < j
           /\ 2 * (j \div 2) <= j /\ j < 2 * (j \div 2) + 2
  OBVIOUS

Swapped(n, A, B, a, b) ==
    B = [j \in 1..n |-> IF j = a THEN A[b] ELSE IF j = b THEN A[a] ELSE A[j]]

\* A node that changes places with its larger parent: only the new place can
\* be out of order.
LEMMA UpOrder ==
    ASSUME NEW n \in Nat, NEW A \in [1..n -> Nat], NEW i \in 1..n, i > 1,
           UpOrdered(n, A, i), A[i \div 2] > A[i], NEW B, Swapped(n, A, B, i \div 2, i)
    PROVE  UpOrdered(n, B, i \div 2)
<1> DEFINE p == i \div 2
<1>1. p \in 1..n /\ p # i
  BY Half
<1>2. \A j \in 1..n : j > 1 => j \div 2 \in 1..n /\ j \div 2 # j
  BY Half
<1>3. \A j \in 1..n : B[j] = IF j = p THEN A[i] ELSE IF j = i THEN A[p] ELSE A[j]
  BY DEF Swapped
<1> HIDE DEF p
<1>4. A[p] > A[i] /\ p = i \div 2
  BY DEF p
<1>5. ASSUME NEW j \in 1..n, j > 1, j # p PROVE B[j \div 2] <= B[j]
  <2>1. PICK q \in 1..n : q = j \div 2 /\ q # j
    BY <1>5
  <2>2. j # i => A[q] <= A[j]
    BY <2>1 DEF UpOrdered
  <2>3. q = i => A[p] <= A[j]
    BY <1>4, <1>5, <2>1 DEF UpOrdered, Skips
  <2>4. j = i => q = p
    BY <1>4, <2>1
  <2>5. A[i] \in Nat /\ A[p] \in Nat /\ A[j] \in Nat /\ A[q] \in Nat
    BY <1>1, <2>1
  <2>6. B[q] <= B[j]
    <3>1. CASE j = i
      BY <1>3, <1>4, <2>4, <2>5, <3>1
    <3>2. CASE j # i
      <4>1. B[j] = A[j] /\ A[q] <= A[j] /\ A[i] < A[p]
        BY <1>3, <1>4, <1>5, <2>2, <3>2
      <4>2. B[q] = IF q = p THEN A[i] ELSE IF q = i THEN A[p] ELSE A[q]
        BY <1>3, Zenon
      <4> QED BY <2>3, <2>5, <4>1, <4>2
    <3> QED BY <3>1, <3>2, Zenon
  <2> QED BY <2>1, <2>6, Zenon
<1>6. ASSUME NEW j \in 1..n, j > 1, j \div 2 = p, p > 1 PROVE B[p \div 2] <= B[j]
  <2>1. PICK q \in 1..n : q = p \div 2 /\ q # p /\ q < p /\ p < i
    BY <1>2, <1>4, <1>6, Half
  <2>2. A[q] <= A[p]
    BY <1>6, <2>1 DEF UpOrdered
  <2>3. j # i => A[p] <= A[j]
    BY <1>6 DEF UpOrdered
  <2>4. q # i /\ j # p
    BY <1>6, <2>1, SMTT(40)
  <2> QED BY <1>1, <1>3, <2>1, <2>2, <2>3, <2>4
<1> QED BY <1>5, <1>6 DEF UpOrdered, Skips, p

\* A node that changes places with the smallest of its children: only the new
\* place's children can be out of order.
LEMMA DownOrder ==
    ASSUME NEW n \in Nat, NEW A \in [1..n -> Nat], NEW i \in 1..n,
           DownOrdered(n, A, i), NEW s \in 1..n, s > 1, s \div 2 = i, A[s] < A[i],
           \A j \in 1..n : j > 1 /\ j \div 2 = i => A[s] <= A[j],
           NEW B, Swapped(n, A, B, i, s)
    PROVE  DownOrdered(n, B, s)
<1>3. \A j \in 1..n : B[j] = IF j = i THEN A[s] ELSE IF j = s THEN A[i] ELSE A[j]
  BY DEF Swapped
<1>5. ASSUME NEW j \in 1..n, j > 1, j \div 2 # s PROVE B[j \div 2] <= B[j]
  <2>1. PICK q \in 1..n : q = j \div 2 /\ q # j
    BY <1>5
  <2>2. q # i => A[q] <= A[j]
    BY <2>1 DEF DownOrdered
  <2>3. j = i => A[q] <= A[s]
    BY <2>1 DEF DownOrdered, Skips
  <2>4. q = i => A[s] <= A[j]
    BY <2>1
  <2> QED BY <1>3, <1>5, <2>1, <2>2, <2>3, <2>4, SMTT(40)
<1>6. ASSUME NEW j \in 1..n, j > 1, j \div 2 = s PROVE B[s \div 2] <= B[j]
  <2>1. A[s] <= A[j] /\ j # i /\ j # s
    BY <1>6, Half DEF DownOrdered
  <2> QED BY <1>3, <2>1
<1> QED BY <1>5, <1>6 DEF DownOrdered, Skips

\* Sequences as functions.
LEMMA SeqIsFcn ==
    ASSUME NEW S, NEW l \in Seq(S)
    PROVE  Len(l) \in Nat /\ l \in [1..Len(l) -> S] /\ DOMAIN l = 1..Len(l)
  OBVIOUS

\* A function on 1..n is a sequence.
LEMMA FcnIsSeq ==
    ASSUME NEW S, NEW n \in Nat, NEW f \in [1..n -> S]
    PROVE  f \in Seq(S) /\ Len(f) = n
  OBVIOUS

\* The fields of a heap that is linked.
LEMMA LinkedFacts ==
    ASSUME NEW h, Linked(h)
    PROVE  /\ Len(h.heap) \in Nat /\ DOMAIN h.heap = 1..Len(h.heap)
           /\ \A i \in 1..Len(h.heap) : /\ h.heap[i] \in Node /\ h.heap[i].obj \in Objs
                                       /\ h.heap[i].at \in Nat \ {0}
                                       /\ h.heap_idx[h.heap[i].obj] = i
           /\ Ats(h) \in [1..Len(h.heap) -> Nat]
           /\ \A i \in 1..Len(h.heap) : Ats(h)[i] = h.heap[i].at
<1>1. Len(h.heap) \in Nat /\ h.heap \in [1..Len(h.heap) -> Node] /\ DOMAIN h.heap = 1..Len(h.heap)
  BY SeqIsFcn, Zenon DEF Linked
<1>2. ASSUME NEW i \in 1..Len(h.heap)
      PROVE  /\ h.heap[i] \in Node /\ h.heap[i].obj \in Objs /\ h.heap[i].at \in Nat \ {0}
             /\ h.heap_idx[h.heap[i].obj] = i
  <2>1. h.heap[i] \in Node
    BY <1>1, Zenon
  <2> QED BY <2>1 DEF Node, Linked
<1> QED BY <1>2 DEF Ats

\* Two nodes change places.
LEMMA SwapFacts ==
    ASSUME NEW h, Linked(h), NEW a \in 1..Len(h.heap), NEW b \in 1..Len(h.heap), a # b
    PROVE  /\ Linked(Swap(h, a, b)) /\ SameNodes(h, Swap(h, a, b))
           /\ Len(Swap(h, a, b).heap) = Len(h.heap)
           /\ Swapped(Len(h.heap), Ats(h), Ats(Swap(h, a, b)), a, b)
<1>1. PICK n \in Nat : n = Len(h.heap)
  BY LinkedFacts, Zenon
<1> DEFINE H == h.heap
           I == h.heap_idx
           G == [H EXCEPT ![a] = H[b], ![b] = H[a]]
           J == [I EXCEPT ![H[b].obj] = a, ![H[a].obj] = b]
           g == Swap(h, a, b)
<1>2. g = [heap |-> G, heap_idx |-> J]
  BY DEF Swap
<1>3. g.heap = G /\ g.heap_idx = J /\ g = [heap |-> g.heap, heap_idx |-> g.heap_idx]
  <2> HIDE DEF G, J, g
  <2> QED BY <1>2
<1> HIDE DEF g
<1>4. /\ DOMAIN H = 1..n /\ H \in [1..n -> Node] /\ I \in [Objs -> Nat]
      /\ \A i \in 1..n : I[H[i].obj] = i /\ H[i].obj \in Objs /\ H[i].at \in Nat \ {0}
      /\ a \in 1..n /\ b \in 1..n
      /\ \A o \in Objs : I[o] # 0 => I[o] \in 1..n /\ H[I[o]].obj = o
  <2>1. h.heap \in Seq(Node) /\ Len(h.heap) = n
    BY <1>1, Zenon DEF Linked
  <2>2. DOMAIN H = 1..n /\ H \in [1..n -> Node]
    BY <2>1
  <2>3. \A i \in 1..n : I[H[i].obj] = i /\ H[i].obj \in Objs /\ H[i].at \in Nat \ {0}
    BY <2>1, LinkedFacts, Zenon
  <2> QED BY <1>1, <2>2, <2>3, Zenon DEF Linked
<1> HIDE DEF H, I
<1>5. H[a].obj # H[b].obj /\ H[a].obj \in Objs /\ H[b].obj \in Objs
  BY <1>4
<1>6. /\ G \in [1..n -> Node]
      /\ \A i \in 1..n : G[i] = IF i = a THEN H[b] ELSE IF i = b THEN H[a] ELSE H[i]
  BY <1>4
<1>7. /\ J \in [Objs -> Nat]
      /\ \A o \in Objs : J[o] = IF o = H[a].obj THEN b ELSE IF o = H[b].obj THEN a ELSE I[o]
  BY <1>4, <1>5
<1> HIDE DEF G, J
<1>8. G \in Seq(Node) /\ Len(G) = n /\ DOMAIN G = 1..n
  BY <1>6, FcnIsSeq
<1>9. ASSUME NEW i \in 1..n PROVE J[G[i].obj] = i
  <2>1. CASE i = a
    BY <1>5, <1>6, <1>7, <2>1, Zenon
  <2>2. CASE i = b
    BY <1>5, <1>6, <1>7, <2>2, Zenon
  <2>3. CASE i # a /\ i # b
    <3>1. G[i] = H[i] /\ H[i].obj # H[a].obj /\ H[i].obj # H[b].obj
      BY <1>4, <1>6, <2>3
    <3> QED BY <1>4, <1>7, <3>1
  <2> QED BY <2>1, <2>2, <2>3, Zenon
<1>10. ASSUME NEW o \in Objs
       PROVE  /\ J[o] = 0 <=> I[o] = 0
              /\ J[o] # 0 => J[o] \in 1..n /\ G[J[o]].obj = o /\ G[J[o]] = H[I[o]]
  <2>1. CASE o = H[a].obj
    <3>1. J[o] = b /\ I[o] = a /\ G[b] = H[a]
      BY <1>4, <1>6, <1>7, <2>1, Zenon
    <3>2. a # 0 /\ b # 0
      BY <1>4
    <3> QED BY <1>4, <2>1, <3>1, <3>2, Zenon
  <2>2. CASE o = H[b].obj
    <3>1. J[o] = a /\ I[o] = b /\ G[a] = H[b]
      BY <1>4, <1>5, <1>6, <1>7, <2>2, Zenon
    <3>2. a # 0 /\ b # 0
      BY <1>4
    <3> QED BY <1>4, <2>2, <3>1, <3>2, Zenon
  <2>3. CASE o # H[a].obj /\ o # H[b].obj
    <3>1. J[o] = I[o]
      BY <1>7, <2>3, Zenon
    <3>2. CASE I[o] # 0
      <4>1. I[o] \in 1..n /\ H[I[o]].obj = o
        BY <1>4, <3>2, Zenon
      <4>2. I[o] # a /\ I[o] # b
        BY <2>3, <4>1, Zenon
      <4>3. G[I[o]] = H[I[o]]
        BY <1>6, <4>1, <4>2, Zenon
      <4> QED BY <3>1, <4>1, <4>3, Zenon
    <3> QED BY <3>1, <3>2, Zenon
  <2> QED BY <2>1, <2>2, <2>3, Zenon
<1>11. Linked(g)
  BY <1>3, <1>7, <1>8, <1>9, <1>10, Zenon DEF Linked
<1>12. SameNodes(h, g)
  BY <1>3, <1>10, Zenon DEF SameNodes, NodeAt, H, I
<1>13. Swapped(n, Ats(h), Ats(g), a, b)
  <2>1. Ats(g) = [i \in 1..n |-> G[i].at] /\ Ats(h) = [i \in 1..n |-> H[i].at]
    BY <1>1, <1>3, <1>8, Zenon DEF Ats, H
  <2>2. \A i \in 1..n : G[i].at = IF i = a THEN Ats(h)[b] ELSE IF i = b THEN Ats(h)[a] ELSE Ats(h)[i]
    BY <1>4, <1>6, <2>1
  <2> QED BY <2>1, <2>2, Zenon DEF Swapped
<1> QED BY <1>1, <1>3, <1>8, <1>11, <1>12, <1>13, Zenon DEF g

\* A sifting loop of h that stands at x.i.
Sifting(h, x) ==
    /\ x = [i |-> x.i, h |-> x.h] /\ Linked(x.h) /\ Len(x.h.heap) = Len(h.heap)
    /\ x.i \in 1..Len(h.heap) /\ SameNodes(h, x.h)

\* What holds after n turns: the loop has ended, or it has come n places up,
\* or down.
Upward(h, n, x) ==
    LET N == Len(h.heap)
    IN  /\ Sifting(h, x) /\ UpOrdered(N, Ats(x.h), x.i)
        /\ Ordered(N, Ats(x.h)) \/ x.i + n <= N
Downward(h, n, x) ==
    LET N == Len(h.heap)
    IN  /\ Sifting(h, x) /\ DownOrdered(N, Ats(x.h), x.i)
        /\ Ordered(N, Ats(x.h)) \/ x.i > n

\* A swap on the way.
LEMMA SiftSwap ==
    ASSUME NEW h, Linked(h), NEW x, Sifting(h, x), NEW a \in 1..Len(h.heap),
           NEW b \in 1..Len(h.heap), a # b, NEW c \in {a, b}
    PROVE  LET g == Swap(x.h, a, b)
           IN  /\ Sifting(h, [i |-> c, h |-> g])
               /\ Swapped(Len(h.heap), Ats(x.h), Ats(g), a, b)
<1> DEFINE g == Swap(x.h, a, b)
           y == [i |-> c, h |-> g]
<1>1. Len(x.h.heap) = Len(h.heap) /\ Linked(x.h) /\ SameNodes(h, x.h)
  BY Zenon DEF Sifting
<1>2. /\ Linked(g) /\ SameNodes(x.h, g) /\ Len(g.heap) = Len(h.heap)
      /\ Swapped(Len(h.heap), Ats(x.h), Ats(g), a, b)
  BY <1>1, SwapFacts, Zenon
<1> HIDE DEF g
<1>3. SameNodes(h, g)
  BY <1>1, <1>2, Zenon DEF SameNodes
<1>4. y = [i |-> y.i, h |-> y.h] /\ y.i = c /\ y.h = g
  OBVIOUS
<1>5. c \in 1..Len(h.heap)
  BY Zenon
<1> HIDE DEF y
<1>6. Sifting(h, y)
  BY <1>2, <1>3, <1>4, <1>5, Zenon DEF Sifting
<1> QED BY <1>2, <1>6, Zenon DEF g, y

\* One turn upwards.
LEMMA UpTurnKept ==
    ASSUME NEW h, Linked(h), NEW n \in 1..Len(h.heap), NEW x, Upward(h, n - 1, x)
    PROVE  Upward(h, n, UpTurn(x))
<1>1. PICK N \in Nat : N = Len(h.heap)
  BY LinkedFacts, Zenon
<1> DEFINE A == Ats(x.h)
           p == x.i \div 2
<1>2. /\ Sifting(h, x) /\ UpOrdered(N, A, x.i) /\ (Ordered(N, A) \/ x.i + (n - 1) <= N)
      /\ x.i \in 1..N /\ Linked(x.h) /\ Len(x.h.heap) = N
  BY <1>1, Zenon DEF Upward, Sifting
<1>3. A \in [1..N -> Nat] /\ \A j \in 1..N : A[j] = x.h.heap[j].at
  BY <1>2, LinkedFacts, Zenon
<1>4. CASE x.i > 1 /\ x.h.heap[p].at > x.h.heap[x.i].at
  <2>1. p \in 1..N /\ p # x.i /\ p < x.i
    BY <1>2, <1>4, Half
  <2> DEFINE g == Swap(x.h, p, x.i)
             y == [i |-> p, h |-> g]
  <2>2. UpTurn(x) = y
    BY <1>4, Zenon DEF UpTurn
  <2>3. Sifting(h, y) /\ Swapped(N, A, Ats(g), p, x.i)
    BY <1>1, <1>2, <2>1, SiftSwap, Zenon
  <2>4. A[p] > A[x.i]
    BY <1>2, <1>3, <1>4, <2>1, Zenon
  <2> HIDE DEF g, A
  <2>5. UpOrdered(N, Ats(g), p)
    BY <1>2, <1>3, <1>4, <2>3, <2>4, UpOrder, Zenon
  <2>6. ~Ordered(N, A)
    BY <1>2, <1>3, <1>4, <2>1, <2>4 DEF Ordered
  <2>7. p + n <= N
    BY <1>2, <2>1, <2>6
  <2>8. y.i = p /\ y.h = g
    OBVIOUS
  <2> HIDE DEF y, p
  <2> QED BY <1>1, <2>2, <2>3, <2>5, <2>7, <2>8, Zenon DEF Upward
<1>5. CASE ~(x.i > 1 /\ x.h.heap[p].at > x.h.heap[x.i].at)
  <2>1. UpTurn(x) = x
    BY <1>5, Zenon DEF UpTurn
  <2>2. x.i > 1 => p \in 1..N /\ p < x.i
    BY <1>2, Half
  <2>3. x.i > 1 => A[p] <= A[x.i]
    <3>1. x.i > 1 => A[p] = x.h.heap[p].at /\ A[x.i] = x.h.heap[x.i].at /\ A[p] \in Nat /\ A[x.i] \in Nat
      BY <1>2, <1>3, <2>2, Zenon
    <3> QED BY <1>5, <3>1
  <2> HIDE DEF A
  <2>4. Ordered(N, A)
    BY <1>2, <2>3 DEF Ordered, UpOrdered
  <2> QED BY <1>1, <1>2, <2>1, <2>4, Zenon DEF Upward, A
<1> QED BY <1>4, <1>5, Zenon

\* One or two numbers have a least.
LEMMA LeastOfTwo ==
    ASSUME NEW a, NEW b, NEW K \in SUBSET {a, b}, K # {}, NEW F, \A c \in K : F[c] \in Nat
    PROVE  \E c \in K : \A d \in K : F[c] <= F[d]
<1>1. CASE a \notin K
  <2>1. b \in K /\ \A d \in K : d = b
    BY <1>1, Zenon
  <2> QED BY <2>1
<1>2. CASE b \notin K
  <2>1. a \in K /\ \A d \in K : d = a
    BY <1>2, Zenon
  <2> QED BY <2>1
<1>3. CASE a \in K /\ b \in K
  <2>1. F[a] \in Nat /\ F[b] \in Nat /\ \A d \in K : d = a \/ d = b
    BY <1>3, Zenon
  <2>2. CASE F[a] <= F[b]
    BY <2>1, <2>2
  <2>3. CASE F[b] <= F[a]
    BY <2>1, <2>3
  <2> QED BY <2>2, <2>3
<1> QED BY <1>1, <1>2, <1>3, Zenon

\* The smallest of a node and its children.
LEMMA SmallestFacts ==
    ASSUME NEW h, Linked(h), NEW i \in 1..Len(h.heap)
    PROVE  LET s == Smallest(h.heap, i)
               A == Ats(h)
               N == Len(h.heap)
           IN  /\ s = i => \A j \in 1..N : j > 1 /\ j \div 2 = i => A[i] <= A[j]
               /\ s # i => /\ s \in 1..N /\ s > 1 /\ s \div 2 = i /\ A[s] < A[i]
                           /\ \A j \in 1..N : j > 1 /\ j \div 2 = i => A[s] <= A[j]
<1>1. PICK N \in Nat : N = Len(h.heap)
  BY LinkedFacts, Zenon
<1> DEFINE s == Smallest(h.heap, i)
           A == Ats(h)
           kids == {c \in {2 * i, 2 * i + 1} : c <= Len(h.heap) /\ h.heap[c].at < h.heap[i].at}
           first == {c \in kids : \A d \in kids : h.heap[c].at <= h.heap[d].at}
<1>2. A \in [1..N -> Nat] /\ \A j \in 1..N : A[j] = h.heap[j].at
  BY <1>1, LinkedFacts, Zenon
<1>3. i \in 1..N
  BY <1>1
<1>4. \A j \in 1..N : j > 1 /\ j \div 2 = i <=> j \in {2 * i, 2 * i + 1}
  BY Half
<1>5. \A c : c \in kids <=> c \in {2 * i, 2 * i + 1} /\ c \in 1..N /\ A[c] < A[i]
  BY <1>1, <1>2, <1>3
<1>6. s = IF kids = {} THEN i ELSE Min(first)
  BY Zenon DEF Smallest
<1> HIDE DEF A
<1>7. CASE kids = {}
  <2>1. s = i
    BY <1>6, <1>7, Zenon
  <2>2. ASSUME NEW j \in 1..N, j > 1, j \div 2 = i PROVE A[i] <= A[j]
    <3>1. ~(A[j] < A[i])
      BY <1>4, <1>5, <1>7, <2>2, Zenon
    <3> QED BY <1>2, <1>3, <3>1
  <2> QED BY <1>1, <2>1, <2>2, Zenon DEF A
<1>8. CASE kids # {}
  <2>1. \A c, d \in kids : h.heap[c].at = A[c] /\ A[c] \in Nat /\ A[d] \in Nat
    BY <1>2, <1>5, Zenon
  <2>2. \E c \in kids : \A d \in kids : A[c] <= A[d]
    <3>1. kids \in SUBSET {2 * i, 2 * i + 1}
      OBVIOUS
    <3>2. \A c \in kids : A[c] \in Nat
      BY <2>1, Zenon
    <3> HIDE DEF kids
    <3>3. PICK a, b : a = 2 * i /\ b = 2 * i + 1
      OBVIOUS
    <3>4. kids \in SUBSET {a, b}
      BY <3>1, <3>3, Zenon
    <3> QED BY <1>8, <3>2, <3>4, LeastOfTwo, Zenon
  <2>3. first = {c \in kids : \A d \in kids : A[c] <= A[d]}
    BY <2>1, Zenon
  <2>4. first # {} /\ first \subseteq kids /\ kids \subseteq {2 * i, 2 * i + 1}
    BY <2>2, <2>3, Zenon
  <2> HIDE DEF kids
  <2>5. \E m \in first : \A y \in first : m <= y
    <3> DEFINE id == [c \in first |-> c]
    <3>1. first \in SUBSET {2 * i, 2 * i + 1} /\ first # {}
      BY <2>4, Zenon
    <3> HIDE DEF first
    <3>2. \A c \in first : id[c] = c /\ id[c] \in Nat
      BY <3>1
    <3> HIDE DEF id
    <3>3. PICK a, b : a = 2 * i /\ b = 2 * i + 1
      OBVIOUS
    <3>4. first \in SUBSET {a, b}
      BY <3>1, <3>3, Zenon
    <3>5. \E c \in first : \A d \in first : id[c] <= id[d]
      BY <3>1, <3>2, <3>4, LeastOfTwo, Zenon
    <3> QED BY <3>2, <3>5, Zenon
  <2>6. Min(first) \in first
    <3> HIDE DEF first
    <3> QED BY <2>5, Zenon DEF Min
  <2>7. s \in kids /\ \A d \in kids : A[s] <= A[d]
    BY <1>6, <1>8, <2>3, <2>6, Zenon
  <2>8. s \in 1..N /\ s \in {2 * i, 2 * i + 1} /\ A[s] < A[i]
    BY <1>5, <2>7, Zenon
  <2>9. s > 1 /\ s \div 2 = i /\ s # i
    BY <1>4, <2>8
  <2>10. ASSUME NEW j \in 1..N, j > 1, j \div 2 = i PROVE A[s] <= A[j]
    <3>1. A[j] < A[i] => A[s] <= A[j]
      BY <1>4, <1>5, <2>7, <2>10, Zenon
    <3>2. A[j] \in Nat /\ A[s] \in Nat /\ A[i] \in Nat
      BY <1>2, <1>3, <2>8, Zenon
    <3> QED BY <2>8, <3>1, <3>2
  <2> QED BY <1>1, <2>8, <2>9, <2>10, Zenon DEF A
<1> QED BY <1>7, <1>8, Zenon

\* One turn downwards.
LEMMA DownTurnKept ==
    ASSUME NEW h, Linked(h), NEW n \in 1..Len(h.heap), NEW x, Downward(h, n - 1, x)
    PROVE  Downward(h, n, DownTurn(x))
<1>1. PICK N \in Nat : N = Len(h.heap)
  BY LinkedFacts, Zenon
<1> DEFINE A == Ats(x.h)
           s == Smallest(x.h.heap, x.i)
<1>2. /\ Sifting(h, x) /\ DownOrdered(N, A, x.i) /\ (Ordered(N, A) \/ x.i > n - 1)
      /\ x.i \in 1..N /\ Linked(x.h) /\ Len(x.h.heap) = N
  BY <1>1, Zenon DEF Downward, Sifting
<1>3. A \in [1..N -> Nat] /\ \A j \in 1..N : A[j] = x.h.heap[j].at
  BY <1>2, LinkedFacts, Zenon
<1>4. /\ s = x.i => \A j \in 1..N : j > 1 /\ j \div 2 = x.i => A[x.i] <= A[j]
      /\ s # x.i => /\ s \in 1..N /\ s > 1 /\ s \div 2 = x.i /\ A[s] < A[x.i]
                    /\ \A j \in 1..N : j > 1 /\ j \div 2 = x.i => A[s] <= A[j]
  BY <1>2, SmallestFacts, Zenon
<1>5. CASE s # x.i
  <2> DEFINE g == Swap(x.h, x.i, s)
             y == [i |-> s, h |-> g]
  <2>1. DownTurn(x) = y
    BY <1>5, Zenon DEF DownTurn
  <2> HIDE DEF s
  <2>2. Sifting(h, y) /\ Swapped(N, A, Ats(g), x.i, s)
    BY <1>1, <1>2, <1>4, <1>5, SiftSwap, Zenon
  <2> HIDE DEF g, A
  <2>3. DownOrdered(N, Ats(g), s)
    BY <1>2, <1>3, <1>4, <1>5, <2>2, DownOrder, Zenon
  <2>4. ~Ordered(N, A)
    BY <1>3, <1>4, <1>5 DEF Ordered
  <2>5. s > n
    BY <1>2, <1>4, <1>5, <2>4, Half
  <2>6. y.i = s /\ y.h = g
    OBVIOUS
  <2> HIDE DEF y
  <2> QED BY <1>1, <2>1, <2>2, <2>3, <2>5, <2>6, Zenon DEF Downward
<1>6. CASE s = x.i
  <2>1. DownTurn(x) = x
    BY <1>6, Zenon DEF DownTurn
  <2>2. \A j \in 1..N : j > 1 /\ j \div 2 = x.i => A[x.i] <= A[j]
    BY <1>4, <1>6, Zenon
  <2> HIDE DEF A, s
  <2>3. Ordered(N, A)
    BY <1>2, <2>2 DEF Ordered, DownOrdered
  <2> QED BY <1>1, <1>2, <2>1, <2>3, Zenon DEF Downward, A
<1> QED BY <1>5, <1>6, Zenon

---------------------------------------------------------------------------
(* Loops.  A loop's turns are functions here, and what holds after n turns *)
(* is a set of states.  What is said of a loop rests on induction over the *)
(* natural numbers, which module Loops proves from the library: the lemmas *)
(* below take it as an hypothesis, and the theorems discharge it.          *)

NatInductive ==
    \A S : (0 \in S /\ \A n \in Nat : n \in S => n + 1 \in S) => Nat \subseteq S

\* What a turn preserves holds after any number of turns.
LEMMA TurnsKeep ==
    ASSUME NatInductive, NEW N \in Nat, NEW f, NEW q, f[0] \in q[0],
           \A n \in 1..N : f[n-1] \in q[n-1] => f[n] \in q[n]
    PROVE  \A n \in 0..N : f[n] \in q[n]
<1> DEFINE S == {n \in Nat : n <= N => f[n] \in q[n]}
<1>1. 0 \in S
  OBVIOUS
<1>2. ASSUME NEW n \in Nat, n \in S PROVE n + 1 \in S
  <2>1. SUFFICES ASSUME n + 1 <= N PROVE f[n + 1] \in q[n + 1]
    OBVIOUS
  <2>2. n + 1 \in 1..N /\ (n + 1) - 1 = n /\ n <= N
    BY <2>1
  <2> QED BY <1>2, <2>2
<1> HIDE DEF S
<1>3. Nat \subseteq S
  BY <1>1, <1>2, Zenon DEF NatInductive
<1> QED BY <1>3 DEF S

\* A non-empty set of natural numbers has a least element.
LEMMA LeastNat ==
    ASSUME NatInductive, NEW S \in SUBSET Nat, S # {}
    PROVE  \E m \in S : \A x \in S : m <= x
<1> DEFINE T == {n \in Nat : \A x \in S : n < x}
<1>1. SUFFICES ASSUME \A m \in S : \E x \in S : ~(m <= x) PROVE FALSE
  OBVIOUS
<1>2. 0 \in T
  <2>1. ASSUME NEW x \in S PROVE 0 < x
    <3>1. x # 0
      BY <1>1
    <3> QED BY <3>1
  <2> QED BY <2>1
<1>3. ASSUME NEW n \in Nat, n \in T PROVE n + 1 \in T
  <2>1. ASSUME NEW x \in S PROVE n + 1 < x
    <3>1. x # n + 1
      BY <1>1, <1>3
    <3>2. n < x
      BY <1>3
    <3> QED BY <3>1, <3>2
  <2> QED BY <2>1
<1>4. Nat \subseteq T
  <2> HIDE DEF T
  <2> QED BY <1>2, <1>3, Zenon DEF NatInductive
<1>5. PICK x \in S : TRUE
  BY Zenon
<1>6. x \in T
  BY <1>4
<1>7. x < x
  BY <1>6, Zenon
<1> QED BY <1>7

Runs(N, base, step, f) == f = [n \in 0..N |-> IF n = 0 THEN base ELSE step[n][f[n-1]]]

\* A loop has a run of any number of turns.
LEMMA RunExists ==
    ASSUME NatInductive, NEW N \in Nat, NEW base, NEW step
    PROVE  \E f : Runs(N, base, step, f)
<1> DEFINE S == {n \in Nat : \E f : Runs(n, base, step, f)}
<1>1. 0 \in S
  <2> DEFINE f == [n \in 0..0 |-> base]
  <2>1. f = [n \in 0..0 |-> IF n = 0 THEN base ELSE step[n][f[n-1]]]
    OBVIOUS
  <2> QED BY <2>1, Zenon DEF Runs
<1>2. ASSUME NEW m \in Nat, m \in S PROVE m + 1 \in S
  <2>1. PICK f : Runs(m, base, step, f)
    BY <1>2
  <2> DEFINE g == [n \in 0..m+1 |-> IF n = m + 1 THEN step[n][f[m]] ELSE f[n]]
  <2>2. ASSUME NEW n \in 0..m+1
        PROVE  g[n] = IF n = 0 THEN base ELSE step[n][g[n-1]]
    <3>1. CASE n = m + 1
      BY <3>1
    <3>2. CASE n # m + 1
      <4>1. n \in 0..m /\ g[n] = f[n] /\ (n # 0 => g[n-1] = f[n-1])
        BY <3>2
      <4>2. f[n] = IF n = 0 THEN base ELSE step[n][f[n-1]]
        BY <2>1, <4>1, Zenon DEF Runs
      <4> HIDE DEF g
      <4> QED BY <4>1, <4>2
    <3> QED BY <3>2
  <2>3. g = [n \in 0..m+1 |-> g[n]]
    OBVIOUS
  <2> HIDE DEF g
  <2>4. Runs(m + 1, base, step, g)
    BY <2>2, <2>3, Zenon DEF Runs
  <2> QED BY <2>4
<1> HIDE DEF S
<1>3. Nat \subseteq S
  BY <1>1, <1>2, Zenon DEF NatInductive
<1> QED BY <1>3 DEF S

Keeps(N, q, step) == \A n \in 1..N : \A x \in q[n-1] : step[n][x] \in q[n]
IsRunOf(N, q, base, step, f) ==
    /\ f = [n \in 0..N |-> IF n = 0 THEN base ELSE step[n][f[n-1]]]
    /\ \A n \in 0..N : f[n] \in q[n]

\* A loop has a run, which stays in the states its turns are functions of.
LEMMA Run ==
    ASSUME NatInductive, NEW N \in Nat, NEW q, NEW base \in q[0], NEW step, Keeps(N, q, step)
    PROVE  \E f : IsRunOf(N, q, base, step, f)
<1>1. \E f : Runs(N, base, step, f)
  BY RunExists, Zenon
<1>2. PICK f : f = [n \in 0..N |-> IF n = 0 THEN base ELSE step[n][f[n-1]]]
  BY <1>1, Zenon DEF Runs
<1>3. \A n \in 0..N : f[n] = IF n = 0 THEN base ELSE step[n][f[n-1]]
  BY <1>2, Zenon
<1>4. f[0] \in q[0]
  BY <1>3
<1>5. ASSUME NEW n \in 1..N, f[n-1] \in q[n-1] PROVE f[n] \in q[n]
  <2>1. n \in 0..N /\ n # 0
    OBVIOUS
  <2>2. f[n] = step[n][f[n-1]]
    BY <1>3, <2>1, Zenon
  <2> QED BY <1>5, <2>2, Zenon DEF Keeps
<1>6. \A n \in 0..N : f[n] \in q[n]
  BY <1>4, <1>5, TurnsKeep, Zenon
<1> QED BY <1>2, <1>6, Zenon DEF IsRunOf

---------------------------------------------------------------------------
(* Sifting *)

Nodes == Seq(Node)
Sifts == [i : Nat, h : [heap : Nodes, heap_idx : [Objs -> Nat]]]

\* The state of a sift is a place and a heap.
LEMMA SiftTyped ==
    ASSUME NEW h, NEW x, Linked(h), Sifting(h, x)
    PROVE  x \in Sifts
<1>1. x.h = [heap |-> x.h.heap, heap_idx |-> x.h.heap_idx]
  BY Zenon DEF Sifting, Linked
<1>2. x.h.heap \in Nodes /\ x.h.heap_idx \in [Objs -> Nat]
  BY Zenon DEF Sifting, Linked, Nodes
<1> HIDE DEF Nodes
<1>3. x.h \in [heap : Nodes, heap_idx : [Objs -> Nat]]
  BY <1>1, <1>2
<1>4. x.i \in Nat
  BY DEF Sifting
<1>5. x = [i |-> x.i, h |-> x.h]
  BY Zenon DEF Sifting
<1> QED BY <1>3, <1>4, <1>5 DEF Sifts

\* Sifting a node up, in a heap that is in order but for that node.
LEMMA SiftUpFacts ==
    ASSUME NatInductive, NEW h, Linked(h), NEW i \in 1..Len(h.heap),
           UpOrdered(Len(h.heap), Ats(h), i)
    PROVE  HeapOK(SiftUp(h, i)) /\ SameNodes(h, SiftUp(h, i))
<1>1. PICK N \in Nat : N = Len(h.heap)
  BY LinkedFacts, Zenon
<1> DEFINE base == [i |-> i, h |-> h]
           Q == [n \in 0..N |-> {x \in Sifts : Upward(h, n, x)}]
           step == [n \in 1..N |-> [x \in Sifts |-> UpTurn(x)]]
           IsRun(f) == f = [n \in 0..N |-> IF n = 0 THEN base ELSE UpTurn(f[n-1])]
           g == CHOOSE f : IsRun(f)
<1>2. base \in Q[0]
  <2>1. base = [i |-> base.i, h |-> base.h] /\ base.i = i /\ base.h = h /\ i + 0 <= N /\ 0 \in 0..N
    BY <1>1
  <2> HIDE DEF base
  <2>2. Sifting(h, base)
    BY <2>1, Zenon DEF Sifting, SameNodes
  <2>3. Upward(h, 0, base)
    BY <1>1, <2>1, <2>2, Zenon DEF Upward
  <2> QED BY <2>1, <2>2, <2>3, SiftTyped, Zenon
<1>3. ASSUME NEW n \in 1..N, NEW x \in Q[n-1]
      PROVE  /\ step[n][x] = UpTurn(x) /\ UpTurn(x) \in Q[n]
  <2>1. n - 1 \in 0..N /\ n \in 0..N
    OBVIOUS
  <2>2. x \in Sifts /\ Upward(h, n - 1, x)
    BY <2>1, Zenon
  <2>3. Upward(h, n, UpTurn(x))
    BY <1>1, <2>2, UpTurnKept, Zenon
  <2>4. UpTurn(x) \in Sifts
    BY <2>3, SiftTyped, Zenon DEF Upward
  <2> QED BY <2>1, <2>2, <2>3, <2>4, Zenon
<1>4. PICK f : /\ f = [n \in 0..N |-> IF n = 0 THEN base ELSE step[n][f[n-1]]]
               /\ \A n \in 0..N : f[n] \in Q[n]
  <2> HIDE DEF Q, step, base
  <2>1. Keeps(N, Q, step)
    BY <1>3 DEF Keeps
  <2>2. \E f : IsRunOf(N, Q, base, step, f)
    BY <1>2, <2>1, Run, Zenon
  <2> QED BY <2>2, Zenon DEF IsRunOf
<1> HIDE DEF Q, step, base
<1>5. IsRun(f)
  <2>1. ASSUME NEW n \in 0..N PROVE f[n] = IF n = 0 THEN base ELSE UpTurn(f[n-1])
    <3>1. f[n] = IF n = 0 THEN base ELSE step[n][f[n-1]]
      BY <1>4, Zenon
    <3>2. CASE n # 0
      <4>1. n \in 1..N /\ n - 1 \in 0..N
        BY <3>2
      <4> QED BY <1>3, <1>4, <3>1, <3>2, <4>1, Zenon
    <3> QED BY <3>1, <3>2, Zenon
  <2>2. f = [n \in 0..N |-> f[n]]
    BY <1>4, Zenon
  <2> QED BY <2>1, <2>2, Zenon
<1>6. IsRun(g)
  BY <1>5, Zenon
<1>7. SiftUp(h, i) = g[N].h
  BY <1>1, Zenon DEF SiftUp, base
<1>8. \A n \in 0..N : g[n] = IF n = 0 THEN base ELSE UpTurn(g[n-1])
  <2> HIDE DEF g
  <2> QED BY <1>6, Zenon
<1> HIDE DEF g
<1>9. g[0] \in Q[0] /\ \A n \in 1..N : g[n-1] \in Q[n-1] => g[n] \in Q[n]
  <2>1. g[0] = base
    BY <1>8
  <2>2. ASSUME NEW n \in 1..N PROVE g[n] = UpTurn(g[n-1])
    <3>1. n \in 0..N /\ n # 0
      OBVIOUS
    <3> QED BY <1>8, <3>1, Zenon
  <2> QED BY <1>2, <1>3, <2>1, <2>2, Zenon
<1>10. N \in 0..N /\ g[N] \in Q[N]
  <2>1. N \in 0..N
    OBVIOUS
  <2> QED BY <1>9, <2>1, TurnsKeep, Zenon
<1>11. Upward(h, N, g[N])
  BY <1>10, Zenon DEF Q
<1>12. Ordered(N, Ats(g[N].h))
  <2>1. ~(g[N].i + N <= N)
    BY <1>11 DEF Upward, Sifting
  <2> QED BY <1>1, <1>11, <2>1, Zenon DEF Upward
<1> QED BY <1>1, <1>7, <1>11, <1>12, Zenon DEF Upward, Sifting, HeapOK

\* Sifting a node down, in a heap that is in order but for the node's children.
LEMMA SiftDownFacts ==
    ASSUME NatInductive, NEW h, Linked(h), NEW i \in 1..Len(h.heap),
           DownOrdered(Len(h.heap), Ats(h), i)
    PROVE  HeapOK(SiftDown(h, i)) /\ SameNodes(h, SiftDown(h, i))
<1>1. PICK N \in Nat : N = Len(h.heap)
  BY LinkedFacts, Zenon
<1> DEFINE base == [i |-> i, h |-> h]
           Q == [n \in 0..N |-> {x \in Sifts : Downward(h, n, x)}]
           step == [n \in 1..N |-> [x \in Sifts |-> DownTurn(x)]]
           IsRun(f) == f = [n \in 0..N |-> IF n = 0 THEN base ELSE DownTurn(f[n-1])]
           g == CHOOSE f : IsRun(f)
<1>2. base \in Q[0]
  <2>1. base = [i |-> base.i, h |-> base.h] /\ base.i = i /\ base.h = h /\ i > 0 /\ 0 \in 0..N
    BY <1>1
  <2> HIDE DEF base
  <2>2. Sifting(h, base)
    BY <2>1, Zenon DEF Sifting, SameNodes
  <2>3. Downward(h, 0, base)
    BY <2>1, <2>2, Zenon DEF Downward
  <2> QED BY <2>1, <2>2, <2>3, SiftTyped, Zenon
<1>3. ASSUME NEW n \in 1..N, NEW x \in Q[n-1]
      PROVE  /\ step[n][x] = DownTurn(x) /\ DownTurn(x) \in Q[n]
  <2>1. n - 1 \in 0..N /\ n \in 0..N
    OBVIOUS
  <2>2. x \in Sifts /\ Downward(h, n - 1, x)
    BY <2>1, Zenon
  <2>3. Downward(h, n, DownTurn(x))
    BY <1>1, <2>2, DownTurnKept, Zenon
  <2>4. DownTurn(x) \in Sifts
    BY <2>3, SiftTyped, Zenon DEF Downward
  <2> QED BY <2>1, <2>2, <2>3, <2>4, Zenon
<1>4. PICK f : /\ f = [n \in 0..N |-> IF n = 0 THEN base ELSE step[n][f[n-1]]]
               /\ \A n \in 0..N : f[n] \in Q[n]
  <2> HIDE DEF Q, step, base
  <2>1. Keeps(N, Q, step)
    BY <1>3 DEF Keeps
  <2>2. \E f : IsRunOf(N, Q, base, step, f)
    BY <1>2, <2>1, Run, Zenon
  <2> QED BY <2>2, Zenon DEF IsRunOf
<1> HIDE DEF Q, step, base
<1>5. IsRun(f)
  <2>1. ASSUME NEW n \in 0..N PROVE f[n] = IF n = 0 THEN base ELSE DownTurn(f[n-1])
    <3>1. f[n] = IF n = 0 THEN base ELSE step[n][f[n-1]]
      BY <1>4, Zenon
    <3>2. CASE n # 0
      <4>1. n \in 1..N /\ n - 1 \in 0..N
        BY <3>2
      <4> QED BY <1>3, <1>4, <3>1, <3>2, <4>1, Zenon
    <3> QED BY <3>1, <3>2, Zenon
  <2>2. f = [n \in 0..N |-> f[n]]
    BY <1>4, Zenon
  <2> QED BY <2>1, <2>2, Zenon
<1>6. IsRun(g)
  BY <1>5, Zenon
<1>7. SiftDown(h, i) = g[N].h
  BY <1>1, Zenon DEF SiftDown, base
<1>8. \A n \in 0..N : g[n] = IF n = 0 THEN base ELSE DownTurn(g[n-1])
  <2> HIDE DEF g
  <2> QED BY <1>6, Zenon
<1> HIDE DEF g
<1>9. g[0] \in Q[0] /\ \A n \in 1..N : g[n-1] \in Q[n-1] => g[n] \in Q[n]
  <2>1. g[0] = base
    BY <1>8
  <2>2. ASSUME NEW n \in 1..N PROVE g[n] = DownTurn(g[n-1])
    <3>1. n \in 0..N /\ n # 0
      OBVIOUS
    <3> QED BY <1>8, <3>1, Zenon
  <2> QED BY <1>2, <1>3, <2>1, <2>2, Zenon
<1>10. N \in 0..N /\ g[N] \in Q[N]
  <2>1. N \in 0..N
    OBVIOUS
  <2> QED BY <1>9, <2>1, TurnsKeep, Zenon
<1>11. Downward(h, N, g[N])
  BY <1>10, Zenon DEF Q
<1>12. Ordered(N, Ats(g[N].h))
  <2>1. ~(g[N].i > N)
    BY <1>1, <1>11 DEF Downward, Sifting
  <2> QED BY <1>1, <1>11, <2>1, Zenon DEF Downward
<1> QED BY <1>1, <1>7, <1>11, <1>12, Zenon DEF Downward, Sifting, HeapOK

\* ttl_node_fix, after the time of one node of a heap in order has changed.
LEMMA FixFacts ==
    ASSUME NatInductive, NEW h, Linked(h), NEW i \in 1..Len(h.heap), NEW A,
           A \in [1..Len(h.heap) -> Nat], Ordered(Len(h.heap), A),
           \A j \in 1..Len(h.heap) : j # i => Ats(h)[j] = A[j]
    PROVE  HeapOK(Fix(h, i)) /\ SameNodes(h, Fix(h, i))
<1>1. PICK N \in Nat : N = Len(h.heap)
  BY LinkedFacts, Zenon
<1> DEFINE B == Ats(h)
<1>2. B \in [1..N -> Nat] /\ \A j \in 1..N : B[j] = h.heap[j].at
  BY <1>1, LinkedFacts, Zenon
<1>3. \A j \in 1..N : j > 1 => j \div 2 \in 1..N /\ j \div 2 < j
  BY Half
<1>4. \A j \in 1..N : j # i => B[j] = A[j]
  BY <1>1, Zenon
<1> HIDE DEF B
<1>5. Skips(N, B, i)
  <2> SUFFICES ASSUME NEW j \in 1..N, j > 1, j \div 2 = i, i > 1 PROVE B[i \div 2] <= B[j]
    BY Zenon DEF Skips
  <2>1. PICK q \in 1..N : q = i \div 2 /\ q < i /\ i < j
    BY <1>3
  <2>2. A[q] <= A[i] /\ A[i] <= A[j]
    BY <1>1, <2>1, Zenon DEF Ordered
  <2>3. B[q] = A[q] /\ B[j] = A[j]
    BY <1>4, <2>1
  <2>4. A[q] \in Nat /\ A[i] \in Nat /\ A[j] \in Nat
    BY <1>1, Zenon
  <2>5. B[q] <= B[j]
    BY <2>2, <2>3, <2>4
  <2> QED BY <2>1, <2>5, Zenon
<1>6. ASSUME NEW j \in 1..N, j > 1, j # i, j \div 2 # i PROVE B[j \div 2] <= B[j]
  <2>1. PICK q \in 1..N : q = j \div 2
    BY <1>6
  <2>2. A[q] <= A[j] /\ B[q] = A[q] /\ B[j] = A[j]
    BY <1>1, <1>4, <1>6, <2>1 DEF Ordered
  <2> QED BY <2>1, <2>2
<1>7. CASE i > 1 /\ h.heap[i].at < h.heap[i \div 2].at
  <2>1. PICK p \in 1..N : p = i \div 2 /\ p < i
    BY <1>1, <1>3, <1>7
  <2>2. B[i] < B[p]
    BY <1>1, <1>2, <1>7, <2>1
  <2>3. ASSUME NEW j \in 1..N, j > 1, j \div 2 = i PROVE B[i] <= B[j]
    <3>1. B[p] <= B[j]
      BY <1>5, <1>7, <2>1, <2>3, Zenon DEF Skips
    <3>2. B[p] \in Nat /\ B[i] \in Nat /\ B[j] \in Nat
      BY <1>1, <1>2, Zenon
    <3> QED BY <2>2, <3>1, <3>2
  <2>4. UpOrdered(N, B, i)
    BY <1>5, <1>6, <2>3 DEF UpOrdered
  <2>5. Fix(h, i) = SiftUp(h, i)
    BY <1>7, Zenon DEF Fix
  <2> QED BY <1>1, <2>4, <2>5, SiftUpFacts, Zenon DEF B
<1>8. CASE ~(i > 1 /\ h.heap[i].at < h.heap[i \div 2].at)
  <2>1. ASSUME NEW j \in 1..N, j > 1, j = i PROVE B[j \div 2] <= B[j]
    <3>1. PICK p \in 1..N : p = i \div 2
      BY <2>1
    <3>2. ~(h.heap[i].at < h.heap[p].at)
      BY <1>8, <2>1, <3>1
    <3>3. B[i] = h.heap[i].at /\ B[p] = h.heap[p].at /\ B[i] \in Nat /\ B[p] \in Nat
      BY <1>1, <1>2, Zenon
    <3>4. B[p] <= B[i]
      BY <3>2, <3>3
    <3> QED BY <2>1, <3>1, <3>4, Zenon
  <2>2. DownOrdered(N, B, i)
    BY <1>5, <1>6, <2>1, Zenon DEF DownOrdered
  <2>3. Fix(h, i) = SiftDown(h, i)
    BY <1>8, Zenon DEF Fix
  <2> QED BY <1>1, <2>2, <2>3, SiftDownFacts, Zenon DEF B
<1> QED BY <1>7, <1>8, Zenon

---------------------------------------------------------------------------
(* The operations of the index *)

\* g is the index h with the time at for o.
Indexed(h, g, o, at) ==
    /\ HeapOK(g)
    /\ \A q \in Objs : NodeAt(g, q) = IF q = o THEN at ELSE NodeAt(h, q)

\* An object has a time when it has a node.
LEMMA NodeFacts ==
    ASSUME NEW h, Linked(h), NEW o \in Objs
    PROVE  NodeAt(h, o) \in Nat /\ (NodeAt(h, o) = 0 <=> h.heap_idx[o] = 0)
<1>1. CASE h.heap_idx[o] = 0
  BY <1>1 DEF NodeAt
<1>2. CASE h.heap_idx[o] # 0
  <2>1. h.heap_idx[o] \in 1..Len(h.heap)
    BY <1>2, LinkedFacts DEF Linked
  <2>2. NodeAt(h, o) \in Nat \ {0}
    BY <1>2, <2>1, LinkedFacts, Zenon DEF NodeAt
  <2> QED BY <1>2, <2>2
<1> QED BY <1>1, <1>2, Zenon

\* ttl_index_node_push.
LEMMA PushFacts ==
    ASSUME NatInductive, NEW h, HeapOK(h), NEW o \in Objs, h.heap_idx[o] = 0, NEW at \in Nat \ {0}
    PROVE  Indexed(h, Push(h, o, at), o, at)
<1>1. PICK n \in Nat : n = Len(h.heap)
  BY LinkedFacts, Zenon DEF HeapOK
<1> DEFINE H == h.heap
           I == h.heap_idx
           node == [at |-> at, obj |-> o]
           G == Append(H, node)
           J == [I EXCEPT ![o] = n + 1]
           g == [heap |-> G, heap_idx |-> J]
<1>2. /\ H \in Seq(Node) /\ Len(H) = n /\ DOMAIN H = 1..n /\ H \in [1..n -> Node]
      /\ I \in [Objs -> Nat] /\ I[o] = 0
  BY <1>1, SeqIsFcn, Zenon DEF HeapOK, Linked
<1>3. /\ \A i \in 1..n : I[H[i].obj] = i /\ H[i].obj \in Objs
      /\ \A q \in Objs : I[q] # 0 => I[q] \in 1..n /\ H[I[q]].obj = q
  BY <1>2, LinkedFacts, Zenon DEF HeapOK, Linked
<1>4. g.heap = G /\ g.heap_idx = J /\ g = [heap |-> g.heap, heap_idx |-> g.heap_idx]
  <2> HIDE DEF G, J
  <2> QED OBVIOUS
<1>5. Push(h, o, at) = SiftUp(g, n + 1)
  BY <1>1, Zenon DEF Push
<1> HIDE DEF H, I, g
<1>6. node \in Node /\ node.at = at /\ node.obj = o
  BY DEF Node
<1> HIDE DEF node
<1>7. /\ G \in Seq(Node) /\ Len(G) = n + 1 /\ DOMAIN G = 1..n+1
      /\ G[n + 1] = node /\ \A i \in 1..n : G[i] = H[i]
  BY <1>2, <1>6
<1>8. J \in [Objs -> Nat] /\ J[o] = n + 1 /\ \A q \in Objs : q # o => J[q] = I[q]
  BY <1>2
<1> HIDE DEF G, J
<1>9. ASSUME NEW i \in 1..n+1 PROVE J[G[i].obj] = i
  <2>1. CASE i = n + 1
    BY <1>6, <1>7, <1>8, <2>1, Zenon
  <2>2. CASE i \in 1..n
    <3>1. H[i].obj # o
      BY <1>2, <1>3, <2>2
    <3> QED BY <1>3, <1>7, <1>8, <2>2, <3>1, Zenon
  <2> QED BY <2>1, <2>2
<1>10. ASSUME NEW q \in Objs
       PROVE  /\ J[q] # 0 => J[q] \in 1..n+1 /\ G[J[q]].obj = q
              /\ q # o => J[q] = I[q] /\ (I[q] # 0 => G[I[q]] = H[I[q]])
  <2>1. CASE q = o
    <3>1. n + 1 \in 1..n+1
      OBVIOUS
    <3> QED BY <1>6, <1>7, <1>8, <2>1, <3>1, Zenon
  <2>2. CASE q # o
    <3>1. J[q] = I[q] /\ (I[q] # 0 => I[q] \in 1..n /\ H[I[q]].obj = q)
      BY <1>3, <1>8, <2>2, Zenon
    <3>2. I[q] # 0 => I[q] \in 1..n+1 /\ G[I[q]] = H[I[q]]
      BY <1>7, <3>1
    <3> QED BY <3>1, <3>2, Zenon
  <2> QED BY <2>1, <2>2, Zenon
<1>11. Linked(g)
  BY <1>4, <1>7, <1>8, <1>9, <1>10, Zenon DEF Linked
<1>12. \A q \in Objs : NodeAt(g, q) = IF q = o THEN at ELSE NodeAt(h, q)
  <2>1. n + 1 # 0
    OBVIOUS
  <2>2. NodeAt(g, o) = at
    BY <1>4, <1>6, <1>7, <1>8, <2>1, Zenon DEF NodeAt
  <2>3. ASSUME NEW q \in Objs, q # o PROVE NodeAt(g, q) = NodeAt(h, q)
    <3>1. J[q] = I[q] /\ (I[q] # 0 => G[I[q]] = H[I[q]])
      BY <1>10, <2>3, Zenon
    <3> QED BY <1>4, <3>1, Zenon DEF NodeAt, H, I
  <2> QED BY <2>2, <2>3, Zenon
<1>13. UpOrdered(n + 1, Ats(g), n + 1)
  <2>1. \A j \in 1..n+1 : Ats(g)[j] = G[j].at
    <3>1. Len(g.heap) = n + 1
      BY <1>4, <1>7, Zenon
    <3> QED BY <1>4, <1>11, <3>1, LinkedFacts
  <2>2. \A j \in 1..n : Ats(g)[j] = Ats(h)[j]
    <3>1. \A j \in 1..n : j \in 1..n+1
      OBVIOUS
    <3>2. \A j \in 1..n : Ats(h)[j] = H[j].at
      BY <1>1, LinkedFacts, Zenon DEF HeapOK, H
    <3> QED BY <1>7, <2>1, <3>1, <3>2
  <2>3. Ordered(n, Ats(h))
    BY <1>1, Zenon DEF HeapOK
  <2>4. ASSUME NEW j \in 1..n+1, j > 1, j # n + 1 PROVE Ats(g)[j \div 2] <= Ats(g)[j]
    <3>1. PICK q \in 1..n : q = j \div 2 /\ j \in 1..n
      BY <2>4, Half
    <3>2. Ats(h)[q] <= Ats(h)[j]
      BY <2>3, <2>4, <3>1 DEF Ordered
    <3> QED BY <2>2, <3>1, <3>2, Zenon
  <2>5. \A j \in 1..n+1 : j > 1 => j \div 2 # n + 1
    BY Half
  <2> QED BY <2>4, <2>5, Zenon DEF UpOrdered, Skips
<1>14. Len(g.heap) = n + 1 /\ n + 1 \in 1..n+1
  BY <1>4, <1>7
<1>15. HeapOK(SiftUp(g, n + 1)) /\ SameNodes(g, SiftUp(g, n + 1))
  BY <1>11, <1>13, <1>14, SiftUpFacts, Zenon
<1> QED BY <1>5, <1>12, <1>15, Zenon DEF Indexed, SameNodes

\* ttl_index_node_update.
LEMMA UpdateFacts ==
    ASSUME NatInductive, NEW h, HeapOK(h), NEW o \in Objs, h.heap_idx[o] # 0, NEW at \in Nat \ {0}
    PROVE  Indexed(h, Update(h, o, at), o, at)
<1>1. PICK n \in Nat : n = Len(h.heap)
  BY LinkedFacts, Zenon DEF HeapOK
<1> DEFINE H == h.heap
           I == h.heap_idx
           p == I[o]
           G == [H EXCEPT ![p].at = at]
           g == [h EXCEPT !.heap[h.heap_idx[o]].at = at]
<1>2. /\ H \in Seq(Node) /\ Len(H) = n /\ DOMAIN H = 1..n /\ H \in [1..n -> Node]
      /\ I \in [Objs -> Nat] /\ I[o] # 0
  BY <1>1, SeqIsFcn, Zenon DEF HeapOK, Linked
<1>3. /\ \A i \in 1..n : I[H[i].obj] = i /\ H[i].obj \in Objs
      /\ \A q \in Objs : I[q] # 0 => I[q] \in 1..n /\ H[I[q]].obj = q
  BY <1>2, LinkedFacts, Zenon DEF HeapOK, Linked
<1>4. p \in 1..n /\ H[p].obj = o
  BY <1>3, Zenon
<1>5. g = [heap |-> G, heap_idx |-> I]
  <2>1. h = [heap |-> H, heap_idx |-> I]
    BY Zenon DEF HeapOK, Linked
  <2> HIDE DEF H, I
  <2> QED BY <2>1
<1>6. Update(h, o, at) = Fix(g, p)
  BY Zenon DEF Update
<1> HIDE DEF g, p, H, I
<1>7. g.heap = G /\ g.heap_idx = I /\ g = [heap |-> g.heap, heap_idx |-> g.heap_idx]
  <2> HIDE DEF G
  <2> QED BY <1>5
<1>8. H[p] \in Node
  BY <1>2, <1>4, Zenon
<1>9. /\ G \in [1..n -> Node] /\ G[p].at = at
      /\ \A i \in 1..n : G[i].obj = H[i].obj /\ (i # p => G[i] = H[i])
  BY <1>2, <1>4, <1>8, SMTT(40) DEF Node
<1> HIDE DEF G
<1>10. G \in Seq(Node) /\ Len(G) = n /\ DOMAIN G = 1..n
  BY <1>9, FcnIsSeq
<1>11. Linked(g)
  BY <1>2, <1>3, <1>7, <1>9, <1>10, Zenon DEF Linked
<1>12. \A q \in Objs : NodeAt(g, q) = IF q = o THEN at ELSE NodeAt(h, q)
  <2>1. ASSUME NEW q \in Objs, q # o, I[q] # 0 PROVE I[q] # p /\ I[q] \in 1..n
    BY <1>3, <1>4, <2>1
  <2> QED BY <1>4, <1>7, <1>9, <2>1, Zenon DEF NodeAt, H, I, p
<1>13. Ats(h) \in [1..n -> Nat] /\ \A j \in 1..n : j # p => Ats(g)[j] = Ats(h)[j]
  <2>1. \A j \in 1..n : Ats(g)[j] = G[j].at
    BY <1>7, <1>10, <1>11, LinkedFacts, Zenon
  <2>2. Ats(h) \in [1..n -> Nat] /\ \A j \in 1..n : Ats(h)[j] = H[j].at
    BY <1>1, LinkedFacts, Zenon DEF HeapOK, H
  <2> QED BY <1>9, <2>1, <2>2, Zenon
<1>14. Len(g.heap) = n /\ Ordered(n, Ats(h))
  BY <1>1, <1>7, <1>10, Zenon DEF HeapOK
<1>15. HeapOK(Fix(g, p)) /\ SameNodes(g, Fix(g, p))
  BY <1>4, <1>11, <1>13, <1>14, FixFacts, Zenon
<1> QED BY <1>6, <1>12, <1>15, Zenon DEF Indexed, SameNodes

\* The index without the node at place p, whose place the last node takes.
Filled(h, p) ==
    LET n == Len(h.heap)
    IN  IF p = n
        THEN [heap |-> Front(h.heap), heap_idx |-> [h.heap_idx EXCEPT ![h.heap[p].obj] = 0]]
        ELSE [heap     |-> [Front(h.heap) EXCEPT ![p] = h.heap[n]],
              heap_idx |-> [h.heap_idx EXCEPT ![h.heap[p].obj] = 0, ![h.heap[n].obj] = p]]

\* Filling a hole with the last node leaves a linked heap that is in order but
\* at the hole.
LEMMA FilledFacts ==
    ASSUME NEW h, HeapOK(h), NEW p \in 1..Len(h.heap)
    PROVE  LET g == Filled(h, p)
               n == Len(h.heap)
           IN  /\ Linked(g) /\ Len(g.heap) = n - 1
               /\ Ats(h) \in [1..n -> Nat] /\ Ordered(n, Ats(h))
               /\ \A j \in 1..n-1 : j # p => Ats(g)[j] = Ats(h)[j]
               /\ h.heap[p].obj \in Objs
               /\ \A q \in Objs : NodeAt(g, q) = IF q = h.heap[p].obj THEN 0 ELSE NodeAt(h, q)
<1>1. PICK n \in Nat : n = Len(h.heap) /\ p \in 1..n
  BY LinkedFacts, Zenon DEF HeapOK
<1> DEFINE H == h.heap
           I == h.heap_idx
           G == IF p = n THEN Front(H) ELSE [Front(H) EXCEPT ![p] = H[n]]
           J == IF p = n THEN [I EXCEPT ![H[p].obj] = 0]
                ELSE [I EXCEPT ![H[p].obj] = 0, ![H[n].obj] = p]
           g == Filled(h, p)
<1>2. /\ H \in Seq(Node) /\ Len(H) = n /\ DOMAIN H = 1..n /\ H \in [1..n -> Node]
      /\ I \in [Objs -> Nat]
  BY <1>1, SeqIsFcn, Zenon DEF HeapOK, Linked
<1>3. /\ \A i \in 1..n : I[H[i].obj] = i /\ H[i].obj \in Objs
      /\ \A q \in Objs : I[q] # 0 => I[q] \in 1..n /\ H[I[q]].obj = q
  BY <1>2, LinkedFacts, Zenon DEF HeapOK, Linked
<1>4. g = [heap |-> G, heap_idx |-> J]
  BY <1>1, Zenon DEF Filled
<1> HIDE DEF g, H, I
<1>5. g.heap = G /\ g.heap_idx = J /\ g = [heap |-> g.heap, heap_idx |-> g.heap_idx]
  <2> HIDE DEF G, J
  <2> QED BY <1>4
<1>6. n \in 1..n /\ n # 0 /\ n - 1 \in Nat
  BY <1>1
<1>7. Front(H) \in [1..n-1 -> Node] /\ \A j \in 1..n-1 : Front(H)[j] = H[j]
  <2>1. Front(H) \in Seq(Node) /\ Len(Front(H)) = n - 1 /\ \A j \in 1..n-1 : Front(H)[j] = H[j]
    BY <1>2, <1>6 DEF Front
  <2> QED BY <2>1, SeqIsFcn
<1>8. /\ G \in [1..n-1 -> Node]
      /\ \A j \in 1..n-1 : G[j] = IF j = p THEN H[n] ELSE H[j]
  <2>1. CASE p = n
    <3>1. \A j \in 1..n-1 : j # p
      BY <2>1
    <3> QED BY <1>7, <2>1, <3>1, Zenon
  <2>2. CASE p # n
    BY <1>2, <1>6, <1>7, <2>2
  <2> QED BY <2>1, <2>2, Zenon
<1>9. \A q \in Objs : q = H[n].obj /\ q = H[p].obj => n = p
  BY <1>1, <1>3, <1>6, Zenon
<1>10. /\ J \in [Objs -> Nat]
       /\ \A q \in Objs : J[q] = CASE q = H[p].obj -> 0 [] q = H[n].obj /\ q # H[p].obj -> p
                                   [] OTHER -> I[q]
  <2>1. CASE p = n
    BY <1>2, <1>3, <2>1
  <2>2. CASE p # n
    BY <1>2, <1>3, <1>6, <1>9, <2>2
  <2> QED BY <2>1, <2>2, Zenon
<1> HIDE DEF G, J
<1>11. G \in Seq(Node) /\ Len(G) = n - 1 /\ DOMAIN G = 1..n-1
  BY <1>6, <1>8, FcnIsSeq
<1>12. ASSUME NEW i \in 1..n-1 PROVE J[G[i].obj] = i
  <2>1. i \in 1..n /\ i # n /\ H[i].obj \in Objs /\ I[H[i].obj] = i /\ H[n].obj \in Objs /\ H[p].obj \in Objs
    BY <1>1, <1>3, <1>6
  <2>2. CASE i = p
    <3>1. G[i] = H[n] /\ H[n].obj # H[p].obj
      BY <1>8, <1>9, <2>1, <2>2, Zenon
    <3> QED BY <1>10, <2>1, <2>2, <3>1, Zenon
  <2>3. CASE i # p
    <3>1. G[i] = H[i] /\ H[i].obj # H[p].obj /\ H[i].obj # H[n].obj
      BY <1>1, <1>3, <1>6, <1>8, <2>1, <2>3
    <3> QED BY <1>10, <2>1, <3>1, Zenon
  <2> QED BY <2>2, <2>3, Zenon
<1>13. ASSUME NEW q \in Objs
       PROVE  /\ q = H[p].obj => J[q] = 0
              /\ q # H[p].obj => /\ J[q] = 0 <=> I[q] = 0
                                 /\ J[q] # 0 => /\ J[q] \in 1..n-1 /\ G[J[q]].obj = q
                                                /\ G[J[q]] = H[I[q]]
  <2>1. CASE q = H[p].obj
    BY <1>10, <2>1, Zenon
  <2>2. CASE q # H[p].obj /\ q = H[n].obj
    <3>1. J[q] = p /\ I[q] = n
      BY <1>3, <1>6, <1>10, <2>2, Zenon
    <3>2. p # n
      BY <2>2, Zenon
    <3>3. p \in 1..n-1 /\ p # 0
      BY <1>1, <3>2
    <3>4. G[p] = H[n]
      BY <1>8, <3>3, Zenon
    <3> QED BY <1>6, <2>2, <3>1, <3>3, <3>4, Zenon
  <2>3. CASE q # H[p].obj /\ q # H[n].obj
    <3>1. J[q] = I[q]
      BY <1>10, <2>3, Zenon
    <3>2. CASE I[q] # 0
      <4>1. I[q] \in 1..n /\ H[I[q]].obj = q
        BY <1>3, <3>2, Zenon
      <4>2. I[q] # p /\ I[q] # n
        BY <2>3, <4>1, Zenon
      <4>3. I[q] \in 1..n-1
        BY <4>1, <4>2
      <4>4. G[I[q]] = H[I[q]]
        BY <1>8, <4>2, <4>3, Zenon
      <4> QED BY <2>3, <3>1, <4>1, <4>3, <4>4, Zenon
    <3> QED BY <3>1, <3>2, Zenon
  <2> QED BY <2>1, <2>2, <2>3, Zenon
<1>14. \A q \in Objs : J[q] # 0 => J[q] \in DOMAIN G /\ G[J[q]].obj = q
  BY <1>11, <1>13, Zenon
<1>15. Linked(g)
  BY <1>5, <1>10, <1>11, <1>12, <1>14, Zenon DEF Linked
<1>16. ASSUME NEW q \in Objs PROVE NodeAt(g, q) = IF q = H[p].obj THEN 0 ELSE NodeAt(h, q)
  BY <1>5, <1>13, Zenon DEF NodeAt, H, I
<1>17. ASSUME NEW j \in 1..n-1, j # p PROVE Ats(g)[j] = Ats(h)[j]
  <2>1. Len(g.heap) = n - 1 /\ j \in 1..n
    BY <1>5, <1>11
  <2>2. Ats(g)[j] = G[j].at
    BY <1>5, <1>15, <2>1, LinkedFacts
  <2>3. Ats(h)[j] = H[j].at
    BY <1>1, <2>1, LinkedFacts DEF HeapOK, H
  <2> QED BY <1>8, <1>17, <2>2, <2>3, Zenon
<1>18. Ats(h) \in [1..n -> Nat] /\ Ordered(n, Ats(h)) /\ H[p].obj \in Objs
  BY <1>1, <1>3, LinkedFacts, Zenon DEF HeapOK
<1> QED BY <1>1, <1>5, <1>11, <1>15, <1>16, <1>17, <1>18, Zenon DEF g, H

\* Putting that heap in order again.
LEMMA RefilledFacts ==
    ASSUME NatInductive, NEW h, HeapOK(h), NEW p \in 1..Len(h.heap)
    PROVE  LET g == IF p = Len(h.heap) THEN Filled(h, p) ELSE Fix(Filled(h, p), p)
           IN  Indexed(h, g, h.heap[p].obj, 0)
<1>1. PICK n \in Nat : n = Len(h.heap) /\ p \in 1..n
  BY LinkedFacts, Zenon DEF HeapOK
<1> DEFINE f == Filled(h, p)
           A == Ats(h)
<1>2. /\ Linked(f) /\ Len(f.heap) = n - 1 /\ A \in [1..n -> Nat] /\ Ordered(n, A)
      /\ \A j \in 1..n-1 : j # p => Ats(f)[j] = A[j]
      /\ \A q \in Objs : NodeAt(f, q) = IF q = h.heap[p].obj THEN 0 ELSE NodeAt(h, q)
  BY <1>1, FilledFacts, Zenon
<1> DEFINE B == [j \in 1..n-1 |-> A[j]]
<1> HIDE DEF f, A
<1>3. /\ B \in [1..n-1 -> Nat] /\ Ordered(n - 1, B)
      /\ \A j \in 1..n-1 : j # p => Ats(f)[j] = B[j]
  <2>1. B \in [1..n-1 -> Nat] /\ \A j \in 1..n-1 : B[j] = A[j] /\ j \in 1..n
    BY <1>2
  <2> HIDE DEF B
  <2>2. ASSUME NEW j \in 1..n-1, j > 1 PROVE B[j \div 2] <= B[j]
    <3>1. PICK q \in 1..n-1 : q = j \div 2
      BY <2>2, Half
    <3>2. A[q] <= A[j]
      BY <1>2, <2>1, <2>2, <3>1, Zenon DEF Ordered
    <3> QED BY <2>1, <3>1, <3>2, Zenon
  <2> QED BY <1>2, <2>1, <2>2, Zenon DEF Ordered
<1>4. CASE p = n
  <2>1. \A j \in 1..n-1 : j # p
    BY <1>4
  <2>2. Ordered(n - 1, Ats(f))
    <3>1. Ats(f) = B
      <4>1. Ats(f) = [j \in 1..n-1 |-> Ats(f)[j]]
        BY <1>2, Zenon DEF Ats
      <4> QED BY <1>3, <2>1, <4>1, Zenon
    <3> QED BY <1>3, <3>1, Zenon
  <2> QED BY <1>1, <1>2, <1>4, <2>2, Zenon DEF Indexed, HeapOK, f
<1>5. CASE p # n
  <2>1. p \in 1..n-1
    BY <1>1, <1>5
  <2> HIDE DEF B
  <2>2. HeapOK(Fix(f, p)) /\ SameNodes(f, Fix(f, p))
    BY <1>2, <1>3, <2>1, FixFacts, Zenon
  <2> QED BY <1>1, <1>2, <1>5, <2>2, Zenon DEF Indexed, SameNodes, f
<1> QED BY <1>4, <1>5, Zenon

\* ttl_index_node_remove: nothing is left of an object's time.
LEMMA RemoveNodeFacts ==
    ASSUME NatInductive, NEW h, HeapOK(h), NEW o \in Objs
    PROVE  Indexed(h, RemoveNode(h, o), o, 0)
<1> DEFINE pos == h.heap_idx[o]
<1>1. CASE pos = 0
  <2>1. RemoveNode(h, o) = h
    BY <1>1, Zenon DEF RemoveNode
  <2> QED BY <1>1, <2>1, Zenon DEF Indexed, NodeAt
<1>2. CASE pos # 0
  <2>1. pos \in 1..Len(h.heap) /\ h.heap[pos].obj = o
    BY <1>2, LinkedFacts DEF HeapOK, Linked
  <2>2. RemoveNode(h, o) = IF pos = Len(h.heap) THEN Filled(h, pos) ELSE Fix(Filled(h, pos), pos)
    <3> DEFINE gone == [heap |-> Front(h.heap), heap_idx |-> [h.heap_idx EXCEPT ![o] = 0]]
    <3>2. CASE pos = Len(h.heap)
      BY <1>2, <2>1, <3>2, Zenon DEF RemoveNode, Filled
    <3>3. CASE pos # Len(h.heap)
      <4> DEFINE last == h.heap[Len(h.heap)]
                 filled == [heap     |-> [gone.heap EXCEPT ![pos] = last],
                            heap_idx |-> [gone.heap_idx EXCEPT ![last.obj] = pos]]
      <4>1. RemoveNode(h, o) = Fix(filled, pos)
        BY <1>2, <3>3, Zenon DEF RemoveNode
      <4>2. filled = Filled(h, pos)
        <5>1. filled = [heap |-> [Front(h.heap) EXCEPT ![pos] = last],
                        heap_idx |-> [[h.heap_idx EXCEPT ![o] = 0] EXCEPT ![last.obj] = pos]]
          BY Zenon
        <5> QED BY <2>1, <3>3, <5>1 DEF Filled
      <4> QED BY <3>3, <4>1, <4>2, Zenon
    <3> QED BY <3>2, <3>3, Zenon
  <2> QED BY <2>1, <2>2, RefilledFacts, Zenon
<1> QED BY <1>1, <1>2, Zenon

\* ttl_index_node_pop.
LEMMA PopFacts ==
    ASSUME NatInductive, NEW h, HeapOK(h), h.heap # << >>
    PROVE  /\ Head(h.heap) \in Node /\ NodeAt(h, Head(h.heap).obj) = Head(h.heap).at
           /\ Indexed(h, Pop(h), Head(h.heap).obj, 0)
<1> DEFINE H == h.heap
<1>1. PICK n \in Nat : n = Len(H) /\ 1 \in 1..n
  BY DEF HeapOK, Linked
<1>2. Head(H) = H[1] /\ H[1] \in Node /\ H[1].obj \in Objs /\ h.heap_idx[H[1].obj] = 1
  BY LinkedFacts, SMTT(40) DEF HeapOK, Linked
<1>3. NodeAt(h, H[1].obj) = H[1].at
  BY <1>2 DEF NodeAt
<1>4. Pop(h) = IF 1 = n THEN Filled(h, 1) ELSE Fix(Filled(h, 1), 1)
  <2> DEFINE gone == [heap |-> Front(H), heap_idx |-> [h.heap_idx EXCEPT ![Head(H).obj] = 0]]
  <2>1. gone.heap = Front(H) /\ gone.heap_idx = [h.heap_idx EXCEPT ![H[1].obj] = 0]
    BY <1>2
  <2>2. Front(H) = << >> <=> n = 1
    <3>1. H \in Seq(Node)
      BY Zenon DEF HeapOK, Linked
    <3> HIDE DEF H
    <3>2. Front(H) \in Seq(Node) /\ Len(Front(H)) = n - 1
      BY <1>1, <3>1 DEF Front
    <3> QED BY <3>2
  <2>3. CASE n = 1
    BY <1>1, <1>2, <2>1, <2>2, <2>3, Zenon DEF Pop, Filled
  <2>4. CASE n # 1
    <3> DEFINE last == H[Len(H)]
               filled == [heap     |-> [gone.heap EXCEPT ![1] = last],
                          heap_idx |-> [gone.heap_idx EXCEPT ![last.obj] = 1]]
    <3>1. Pop(h) = SiftDown(filled, 1)
      BY <2>2, <2>4, Zenon DEF Pop
    <3>2. filled = Filled(h, 1)
      <4>1. filled = [heap |-> [Front(H) EXCEPT ![1] = last],
                      heap_idx |-> [[h.heap_idx EXCEPT ![H[1].obj] = 0] EXCEPT ![last.obj] = 1]]
        BY <2>1, Zenon
      <4> QED BY <1>1, <2>4, <4>1 DEF Filled
    <3>3. Fix(filled, 1) = SiftDown(filled, 1)
      BY DEF Fix
    <3> QED BY <2>4, <3>1, <3>2, <3>3, Zenon
  <2> QED BY <2>3, <2>4, Zenon
<1>5. Indexed(h, Pop(h), H[1].obj, 0)
  BY <1>1, <1>4, RefilledFacts, Zenon
<1> QED BY <1>2, <1>3, <1>5, Zenon

\* An empty index.
LEMMA NoTtlFacts == HeapOK(NoTtl) /\ \A o \in Objs : NodeAt(NoTtl, o) = 0
<1>1. /\ NoTtl.heap = << >> /\ NoTtl.heap_idx = [o \in Objs |-> 0]
      /\ NoTtl = [heap |-> NoTtl.heap, heap_idx |-> NoTtl.heap_idx]
  BY DEF NoTtl
<1>2. << >> \in Seq(Node) /\ DOMAIN << >> = {} /\ Len(<< >>) = 0
  OBVIOUS
<1>3. [o \in Objs |-> 0] \in [Objs -> Nat] /\ \A o \in Objs : [p \in Objs |-> 0][o] = 0
  OBVIOUS
<1>4. Linked(NoTtl)
  BY <1>1, <1>2, <1>3, Zenon DEF Linked
<1>5. Ordered(Len(NoTtl.heap), Ats(NoTtl))
  BY <1>1, <1>2 DEF Ordered
<1> QED BY <1>1, <1>3, <1>4, <1>5, Zenon DEF HeapOK, NodeAt

---------------------------------------------------------------------------
(* The table *)

Ent == [key : Keys, obj : Nat, expire : Nat, locked : BOOLEAN]
Chains == [Buckets -> Seq(Ent)]
Tables == [buckets : Chains, cap : Nat, old_cap : Nat, used : Int, rehash_idx : Int,
           rehash_disabled : BOOLEAN, ovf_pool_cap : Int, ovf_free : Int,
           lost : SUBSET Nat, dropped : SUBSET Nat]

\* The entries of all chains, each key's in one place.
All(B) == UNION {Range(B[i]) : i \in Buckets}
Single(B) ==
    \A i, m \in Buckets : \A j \in DOMAIN B[i], n \in DOMAIN B[m] :
        B[i][j].key = B[m][n].key => i = m /\ j = n

\* An entry is in its new bucket, or in its old one if that is still to be
\* moved.
Belongs(t, i, k) ==
    \/ i = Index(k, t.cap)
    \/ t.rehash_idx >= 0 /\ i = Index(k, t.old_cap) /\ i >= t.rehash_idx
Placed(t) == \A i \in Buckets : \A j \in DOMAIN t.buckets[i] : Belongs(t, i, t.buckets[i][j].key)

Sized(t) == t.cap \in 1..MaxCap
Rehashing(t) == t.old_cap \in 1..MaxCap /\ t.rehash_idx \in 0..t.old_cap
RehashOK(t) == \/ t.rehash_idx = -1
               \/ Rehashing(t) /\ t.rehash_idx < t.old_cap

Filed(t) == t \in Tables /\ Sized(t) /\ Placed(t) /\ Single(t.buckets)
TableOK(t) == Filed(t) /\ RehashOK(t)

\* u is the table t but for the chains, the counts and what follows.
Steady(t, u) ==
    /\ u.cap = t.cap /\ u.old_cap = t.old_cap /\ u.rehash_idx = t.rehash_idx
    /\ u.lost = t.lost /\ u.dropped = t.dropped

\* The table u is t without the entries of D, which are lost.
ObjsOf(D) == {e.obj : e \in D}
Shed(t, u, D) ==
    /\ D \subseteq Entries(t) /\ Entries(u) = Entries(t) \ D
    /\ u.lost = t.lost \cup ObjsOf(D) /\ u.dropped = t.dropped \cup ObjsOf(D)

\* The fields of a table.
LEMMA TableTyped ==
    ASSUME NEW t \in Tables
    PROVE  /\ t.buckets \in Chains /\ t.cap \in Nat /\ t.old_cap \in Nat /\ t.used \in Int
           /\ t.rehash_idx \in Int /\ t.rehash_disabled \in BOOLEAN
           /\ t.ovf_pool_cap \in Int /\ t.ovf_free \in Int
           /\ t.lost \in SUBSET Nat /\ t.dropped \in SUBSET Nat
<1> HIDE DEF Chains
<1> QED BY DEF Tables

\* Where the entries are.
LEMMA InAll ==
    ASSUME NEW B \in Chains
    PROVE  /\ \A e \in All(B) : \E i \in Buckets : \E j \in DOMAIN B[i] : e = B[i][j]
           /\ \A i \in Buckets : \A j \in DOMAIN B[i] : B[i][j] \in All(B)
           /\ All(B) \subseteq Ent
           /\ \A i \in Buckets : B[i] \in Seq(Ent)
<1>1. \A i \in Buckets : B[i] \in Seq(Ent)
  BY Zenon DEF Chains
<1>2. \A i \in Buckets : \A j \in DOMAIN B[i] : B[i][j] \in Ent
  BY <1>1, SeqIsFcn, Zenon
<1>3. ASSUME NEW e \in All(B) PROVE \E i \in Buckets : \E j \in DOMAIN B[i] : e = B[i][j]
  <2>1. PICK i \in Buckets : e \in Range(B[i])
    BY Zenon DEF All
  <2> QED BY <2>1, Zenon DEF Range
<1>4. ASSUME NEW i \in Buckets, NEW j \in DOMAIN B[i] PROVE B[i][j] \in All(B)
  <2>1. B[i][j] \in Range(B[i])
    BY Zenon DEF Range
  <2> QED BY <2>1, Zenon DEF All
<1>5. All(B) \subseteq Ent
  BY <1>2, <1>3, Zenon
<1> QED BY <1>1, <1>3, <1>4, <1>5, Zenon

\* The entries of a table are those of its buckets.
LEMMA EntriesAll == \A t : Entries(t) = All(t.buckets)
  BY Zenon DEF Entries, All

\* Two entries have different keys.
LEMMA SingleKeys ==
    ASSUME NEW B \in Chains, Single(B), NEW e \in All(B), NEW f \in All(B), e.key = f.key
    PROVE  e = f
<1>1. PICK i \in Buckets : \E j \in DOMAIN B[i] : e = B[i][j]
  BY InAll, Zenon
<1>2. PICK j \in DOMAIN B[i] : e = B[i][j]
  BY <1>1, Zenon
<1>3. PICK m \in Buckets : \E n \in DOMAIN B[m] : f = B[m][n]
  BY InAll, Zenon
<1>4. PICK n \in DOMAIN B[m] : f = B[m][n]
  BY <1>3, Zenon
<1>5. B[i][j].key = B[m][n].key
  BY <1>2, <1>4, Zenon
<1>6. i = m /\ j = n
  BY <1>5 DEF Single
<1> QED BY <1>2, <1>4, <1>6, Zenon

\* A bucket of a key.
LEMMA IndexIn ==
    ASSUME NEW k \in Keys, NEW cap \in 1..MaxCap
    PROVE  Index(k, cap) \in Buckets /\ Index(k, cap) < cap
<1>1. Hash[k] \in Nat /\ MaxCap \in Nat
  BY HtableAssumption
<1> QED BY <1>1 DEF Index, Buckets

Linking(B, i, e) == [B EXCEPT ![i] = Append(@, e)]

\* An entry at the end of a chain, of a key the table does not have.
LEMMA LinkedIn ==
    ASSUME NEW B \in Chains, Single(B), NEW i \in Buckets, NEW e \in Ent,
           \A f \in All(B) : f.key # e.key
    PROVE  LET C == Linking(B, i, e)
           IN  /\ C \in Chains /\ Single(C) /\ All(C) = All(B) \cup {e}
               /\ \A m \in Buckets : \A j \in DOMAIN C[m] :
                     \/ m = i /\ C[m][j] = e
                     \/ j \in DOMAIN B[m] /\ C[m][j] = B[m][j]
<1> DEFINE C == Linking(B, i, e)
<1>1. B[i] \in Seq(Ent) /\ Append(B[i], e) \in Seq(Ent)
  BY InAll
<1>2. PICK n \in Nat : n = Len(B[i]) /\ DOMAIN B[i] = 1..n
  BY <1>1, SeqIsFcn, Zenon
<1>3. /\ DOMAIN Append(B[i], e) = 1..n+1 /\ Append(B[i], e)[n + 1] = e
      /\ \A j \in 1..n : Append(B[i], e)[j] = B[i][j]
  BY <1>2
<1>4. C \in Chains /\ C[i] = Append(B[i], e) /\ \A m \in Buckets : m # i => C[m] = B[m]
  <2>2. PICK a : a = Append(B[i], e)
    BY Zenon
  <2>3. C = [B EXCEPT ![i] = a] /\ a \in Seq(Ent)
    BY <1>1, <2>2, Zenon DEF Linking
  <2> HIDE DEF C
  <2> QED BY <2>2, <2>3, Zenon DEF Chains
<1> HIDE DEF C
<1>5. \A j \in 1..n+1 : j = n + 1 \/ j \in 1..n
  BY <1>2
<1>6. ASSUME NEW m \in Buckets, NEW j \in DOMAIN C[m]
      PROVE  \/ m = i /\ j = n + 1 /\ C[m][j] = e
             \/ j \in DOMAIN B[m] /\ C[m][j] = B[m][j]
  BY <1>2, <1>3, <1>4, <1>5, Zenon
<1>7. All(C) = All(B) \cup {e}
  <2>1. ASSUME NEW f \in All(C) PROVE f \in All(B) \cup {e}
    <3>1. PICK m \in Buckets : \E j \in DOMAIN C[m] : f = C[m][j]
      BY <1>4, InAll, Zenon
    <3>2. PICK j \in DOMAIN C[m] : f = C[m][j]
      BY <3>1, Zenon
    <3> QED BY <1>6, <3>2, InAll, Zenon
  <2>2. e \in All(C)
    <3>1. n + 1 \in 1..n+1
      OBVIOUS
    <3>2. n + 1 \in DOMAIN C[i] /\ C[i][n + 1] = e
      BY <1>3, <1>4, <3>1, Zenon
    <3>3. C[i][n + 1] \in All(C)
      BY <1>4, <3>2, InAll, Zenon
    <3> QED BY <3>2, <3>3, Zenon
  <2>3. ASSUME NEW f \in All(B) PROVE f \in All(C)
    <3>1. PICK m \in Buckets : \E j \in DOMAIN B[m] : f = B[m][j]
      BY InAll, Zenon
    <3>2. PICK j \in DOMAIN B[m] : f = B[m][j]
      BY <3>1, Zenon
    <3>3. j \in DOMAIN C[m] /\ C[m][j] = B[m][j]
      <4>1. CASE m # i
        BY <1>4, <4>1, Zenon
      <4>2. CASE m = i
        <5>1. j \in 1..n /\ j \in 1..n+1
          BY <1>2, <4>2
        <5> QED BY <1>3, <1>4, <4>2, <5>1, Zenon
      <4> QED BY <4>1, <4>2, Zenon
    <3> QED BY <1>4, <3>2, <3>3, InAll, Zenon
  <2> QED BY <2>1, <2>2, <2>3, Zenon
<1>8. Single(C)
  <2> SUFFICES ASSUME NEW a \in Buckets, NEW b \in Buckets, NEW j \in DOMAIN C[a],
                      NEW l \in DOMAIN C[b], C[a][j].key = C[b][l].key
               PROVE  a = b /\ j = l
    BY Zenon DEF Single
  <2>1. \A m \in Buckets : \A x \in DOMAIN B[m] : B[m][x].key # e.key
    BY InAll, Zenon
  <2>2. \/ a = i /\ j = n + 1 /\ C[a][j] = e
        \/ j \in DOMAIN B[a] /\ C[a][j] = B[a][j]
    BY <1>6, Zenon
  <2>3. \/ b = i /\ l = n + 1 /\ C[b][l] = e
        \/ l \in DOMAIN B[b] /\ C[b][l] = B[b][l]
    BY <1>6, Zenon
  <2> QED BY <2>1, <2>2, <2>3 DEF Single
<1> QED BY <1>4, <1>6, <1>7, <1>8, Zenon DEF C

\* The two largest of two numbers are numbers.
LEMMA NewPoolCap ==
    ASSUME NEW c \in Int
    PROVE  Min({MaxOvf, 2 * Max({c, 1})}) \in Int
<1>1. PICK m \in Int : m = Max({c, 1})
  <2>1. \E x \in {c, 1} : \A y \in {c, 1} : x >= y
    OBVIOUS
  <2>2. Max({c, 1}) \in {c, 1}
    BY <2>1, Zenon DEF Max
  <2> QED BY <2>2
<1>2. \E x \in {MaxOvf, 2 * m} : \A y \in {MaxOvf, 2 * m} : x <= y
  BY HtableAssumption
<1>3. Min({MaxOvf, 2 * m}) \in {MaxOvf, 2 * m}
  BY <1>2, Zenon DEF Min
<1> QED BY <1>1, <1>3, HtableAssumption

\* ht_chain_node_insert: the entry is at the end of its chain, or the pool of
\* overflow buckets is empty and nothing has changed.
LEMMA ChainInsertFacts ==
    ASSUME NEW t \in Tables, NEW i \in Buckets, NEW e \in Ent, NEW room \in BOOLEAN
    PROVE  LET r == ChainInsert(t, i, e, room)
           IN  /\ r.ok \in BOOLEAN
               /\ r.ok => /\ r.t \in Tables /\ Steady(t, r.t)
                          /\ r.t.buckets = Linking(t.buckets, i, e)
               /\ ~r.ok => r.t = t
<1> DEFINE r == ChainInsert(t, i, e, room)
           B == t.buckets
<1>1. B \in Chains /\ B[i] \in Seq(Ent) /\ Append(B[i], e) \in Seq(Ent)
  BY TableTyped, InAll
<1>2. Linking(B, i, e) \in Chains
  <2>1. PICK a \in Seq(Ent) : a = Append(B[i], e)
    BY <1>1, Zenon
  <2>2. Linking(B, i, e) = [B EXCEPT ![i] = a]
    BY <2>1, Zenon DEF Linking
  <2> QED BY <1>1, <2>2, Zenon DEF Chains
<1>3. CASE B[i] = << >>
  <2>1. Append(B[i], e) = <<e>>
    BY <1>3
  <2>2. r = [ok |-> TRUE, t |-> [t EXCEPT !.buckets[i] = <<e>>]]
    BY <1>3, Zenon DEF ChainInsert
  <2>3. r.ok = TRUE /\ r.t = [t EXCEPT !.buckets = Linking(B, i, e)]
    BY <2>1, <2>2 DEF Linking
  <2> HIDE DEF r, B
  <2>4. r.t \in Tables /\ Steady(t, r.t) /\ r.t.buckets = Linking(B, i, e)
    <3> HIDE DEF Chains
    <3> QED BY <1>2, <2>3 DEF Steady, Tables
  <2> QED BY <2>3, <2>4, Zenon DEF r, B
<1>4. CASE B[i] # << >>
  <2> DEFINE a == OvfAlloc(t, room)
             newcap == Min({MaxOvf, 2 * Max({t.ovf_pool_cap, 1})})
  <2>1. r = IF a.ok THEN [a EXCEPT !.t.buckets[i] = Append(@, e)] ELSE a
    BY <1>4, Zenon DEF ChainInsert
  <2>2. newcap \in Int
    BY TableTyped, NewPoolCap, Zenon
  <2>3. \/ a = [ok |-> FALSE, t |-> t]
        \/ \E x, y \in Int : a = [ok |-> TRUE, t |-> [t EXCEPT !.ovf_free = x, !.ovf_pool_cap = y]]
    <3> HIDE DEF newcap
    <3>1. CASE t.ovf_free > 0
      <4>1. a = [ok |-> TRUE, t |-> [t EXCEPT !.ovf_free = @ - 1]]
        BY <3>1 DEF OvfAlloc
      <4>2. t.ovf_free - 1 \in Int /\ t.ovf_pool_cap \in Int
        BY TableTyped
      <4>3. [t EXCEPT !.ovf_free = @ - 1] = [t EXCEPT !.ovf_free = t.ovf_free - 1, !.ovf_pool_cap = t.ovf_pool_cap]
        <5> HIDE DEF Chains
        <5> QED BY Zenon DEF Tables
      <4> QED BY <4>1, <4>2, <4>3, Zenon
    <3>2. CASE t.ovf_free = 0 /\ t.ovf_pool_cap < MaxOvf /\ room
      <4>1. a = [ok |-> TRUE,
                 t  |-> [t EXCEPT !.ovf_free = newcap - t.ovf_pool_cap - 1, !.ovf_pool_cap = newcap]]
        BY <3>2 DEF OvfAlloc, newcap
      <4>2. newcap - t.ovf_pool_cap - 1 \in Int
        BY <2>2, TableTyped
      <4> QED BY <2>2, <4>1, <4>2, Zenon
    <3>3. CASE ~(t.ovf_free > 0) /\ ~(t.ovf_free = 0 /\ t.ovf_pool_cap < MaxOvf /\ room)
      BY <3>3, Zenon DEF OvfAlloc
    <3> QED BY <3>1, <3>2, <3>3, Zenon
  <2> HIDE DEF a
  <2>4. CASE a = [ok |-> FALSE, t |-> t]
    BY <2>1, <2>4
  <2>5. ASSUME NEW x \in Int, NEW y \in Int, a = [ok |-> TRUE, t |-> [t EXCEPT !.ovf_free = x, !.ovf_pool_cap = y]]
        PROVE  r.ok = TRUE /\ r.t \in Tables /\ Steady(t, r.t) /\ r.t.buckets = Linking(B, i, e)
    <3> DEFINE u == [t EXCEPT !.ovf_free = x, !.ovf_pool_cap = y]
    <3>1. u \in Tables /\ u.buckets = B /\ Steady(t, u)
      <4> HIDE DEF Chains
      <4> QED BY Zenon DEF Tables, Steady
    <3>2. a.ok = TRUE /\ a.t = u /\ a = [ok |-> TRUE, t |-> u]
      <4> HIDE DEF u
      <4> QED BY <2>5 DEF u
    <3> HIDE DEF u
    <3>3. r = [a EXCEPT !.t.buckets[i] = Append(@, e)]
      BY <2>1, <3>2
    <3> HIDE DEF r
    <3>4. r.ok = TRUE /\ r.t = [u EXCEPT !.buckets = Linking(B, i, e)]
      BY <3>1, <3>2, <3>3, Zenon DEF Linking
    <3>5. r.t \in Tables /\ Steady(u, r.t) /\ r.t.buckets = Linking(B, i, e)
      <4> HIDE DEF Chains, B
      <4> QED BY <1>2, <3>1, <3>4 DEF Tables, Steady
    <3>6. Steady(t, r.t)
      BY <3>1, <3>5, Zenon DEF Steady
    <3> QED BY <3>4, <3>5, <3>6, Zenon
  <2> QED BY <2>3, <2>4, <2>5, Zenon
<1> QED BY <1>3, <1>4, Zenon

\* The sizes and the state of the rehash are the same.
Alike(t, u) == u.cap = t.cap /\ u.old_cap = t.old_cap /\ u.rehash_idx = t.rehash_idx

\* An entry at the end of the chain it belongs to.
LEMMA FiledIn ==
    ASSUME NEW t, Filed(t), NEW e \in Ent, \A f \in Entries(t) : f.key # e.key,
           NEW u \in Tables, Alike(t, u),
           u.buckets = Linking(t.buckets, Index(e.key, t.cap), e)
    PROVE  Filed(u) /\ Entries(u) = Entries(t) \cup {e}
<1> DEFINE B == t.buckets
           i == Index(e.key, t.cap)
           C == u.buckets
<1>1. t \in Tables /\ B \in Chains /\ Single(B) /\ Sized(t) /\ Placed(t)
  BY TableTyped, Zenon DEF Filed
<1>2. i \in Buckets
  <2>1. e.key \in Keys
    BY DEF Ent
  <2> QED BY <1>1, <2>1, IndexIn, Zenon DEF Sized
<1>3. \A f \in All(B) : f.key # e.key
  BY EntriesAll, Zenon
<1>4. C = Linking(B, i, e)
  BY Zenon
<1> HIDE DEF C, i, B
<1>5. /\ C \in Chains /\ Single(C) /\ All(C) = All(B) \cup {e}
      /\ \A m \in Buckets : \A j \in DOMAIN C[m] :
            (m = i /\ C[m][j] = e) \/ (j \in DOMAIN B[m] /\ C[m][j] = B[m][j])
  <2> DEFINE L == Linking(B, i, e)
  <2>1. /\ L \in Chains /\ Single(L) /\ All(L) = All(B) \cup {e}
        /\ \A m \in Buckets : \A j \in DOMAIN L[m] :
              \/ m = i /\ L[m][j] = e
              \/ j \in DOMAIN B[m] /\ L[m][j] = B[m][j]
    BY <1>1, <1>2, <1>3, LinkedIn, Zenon
  <2> HIDE DEF L
  <2> QED BY <1>4, <2>1 DEF L
<1>6. \A m \in Buckets : \A k : Belongs(t, m, k) => Belongs(u, m, k)
  BY Zenon DEF Belongs, Alike
<1>7. Placed(u)
  <2> SUFFICES ASSUME NEW m \in Buckets, NEW j \in DOMAIN C[m] PROVE Belongs(u, m, C[m][j].key)
    BY Zenon DEF Placed, C
  <2>1. CASE m = i /\ C[m][j] = e
    BY <2>1, Zenon DEF Belongs, i, Alike
  <2>2. CASE j \in DOMAIN B[m] /\ C[m][j] = B[m][j]
    <3>1. Belongs(t, m, B[m][j].key)
      BY <1>1, <2>2, Zenon DEF Placed, B
    <3> QED BY <1>6, <2>2, <3>1, Zenon
  <2> QED BY <1>5, <2>1, <2>2, Zenon
<1>8. Sized(u)
  BY <1>1, Zenon DEF Sized, Alike
<1> QED BY <1>5, <1>7, <1>8, EntriesAll, Zenon DEF Filed, B, C

\* Inserting an entry of a new key.
LEMMA InsertFacts ==
    ASSUME NEW t, Filed(t), NEW e \in Ent, \A f \in Entries(t) : f.key # e.key, NEW room \in BOOLEAN
    PROVE  LET r == ChainInsert(t, Index(e.key, t.cap), e, room)
           IN  /\ r.ok \in BOOLEAN
               /\ r.ok => Filed(r.t) /\ Steady(t, r.t) /\ Entries(r.t) = Entries(t) \cup {e}
               /\ ~r.ok => r.t = t
<1> DEFINE i == Index(e.key, t.cap)
           r == ChainInsert(t, i, e, room)
<1>1. t \in Tables /\ i \in Buckets
  <2>1. e.key \in Keys
    BY DEF Ent
  <2> QED BY <2>1, IndexIn, Zenon DEF Sized, Filed
<1> HIDE DEF i
<1>2. /\ r.ok \in BOOLEAN
      /\ r.ok => r.t \in Tables /\ Steady(t, r.t) /\ r.t.buckets = Linking(t.buckets, i, e)
      /\ ~r.ok => r.t = t
  BY <1>1, ChainInsertFacts, Zenon
<1> HIDE DEF r
<1>3. ASSUME r.ok PROVE Filed(r.t) /\ Entries(r.t) = Entries(t) \cup {e}
  <2>1. Alike(t, r.t)
    BY <1>2, <1>3, Zenon DEF Alike, Steady
  <2> QED BY <1>2, <1>3, <2>1, FiledIn, Zenon DEF i
<1> QED BY <1>2, <1>3, Zenon DEF r, i

\* u is t with the entry e, or e is lost.
Carried(t, u, e) ==
    /\ Filed(u) /\ Alike(t, u)
    /\ \/ Entries(u) = Entries(t) \cup {e} /\ u.lost = t.lost /\ u.dropped = t.dropped
       \/ /\ Entries(u) = Entries(t) /\ u.lost = t.lost \cup {e.obj}
          /\ u.dropped = t.dropped \cup {e.obj}

\* An entry of an old bucket is moved, or dropped.
LEMMA MoveEntryFacts ==
    ASSUME NEW t, Filed(t), NEW chain \in Seq(Ent), NEW n \in 1..Len(chain), NEW room \in BOOLEAN,
           \A f \in Entries(t) : f.key # chain[n].key
    PROVE  Carried(t, MoveEntry(chain, room, n, t), chain[n])
<1> DEFINE u == MoveEntry(chain, room, n, t)
           e == chain[n]
           i == Index(e.key, t.cap)
<1>1. e \in Ent /\ t \in Tables
  BY SeqIsFcn, Zenon DEF Filed
<1>2. CASE n = 1
  <2> DEFINE r == ChainInsert(t, i, e, room)
             d == [r.t EXCEPT !.lost = @ \cup {e.obj}, !.dropped = @ \cup {e.obj}]
  <2>1. u = IF r.ok THEN r.t ELSE d
    BY <1>2, Zenon DEF MoveEntry, MovePrimary
  <2> HIDE DEF e
  <2>2. /\ r.ok \in BOOLEAN
        /\ r.ok => Filed(r.t) /\ Steady(t, r.t) /\ Entries(r.t) = Entries(t) \cup {e}
        /\ ~r.ok => r.t = t
    BY <1>1, InsertFacts, Zenon DEF e
  <2> HIDE DEF r
  <2>3. CASE r.ok
    BY <2>1, <2>2, <2>3, Zenon DEF Steady, Alike, Carried, e
  <2>4. CASE ~r.ok
    <3>1. u = [t EXCEPT !.lost = @ \cup {e.obj}, !.dropped = @ \cup {e.obj}]
      BY <2>1, <2>2, <2>4, Zenon
    <3>2. e.obj \in Nat
      BY <1>1 DEF Ent
    <3> HIDE DEF u
    <3>3. /\ u \in Tables /\ u.buckets = t.buckets /\ Alike(t, u)
          /\ u.lost = t.lost \cup {e.obj} /\ u.dropped = t.dropped \cup {e.obj}
      <4> HIDE DEF Chains
      <4> QED BY <1>1, <3>1, <3>2, Zenon DEF Tables, Alike
    <3>4. Filed(u)
      BY <3>3, Zenon DEF Filed, Alike, Sized, Placed, Belongs
    <3>5. Entries(u) = Entries(t)
      BY <3>3, EntriesAll, Zenon
    <3> QED BY <3>3, <3>4, <3>5, Zenon DEF Carried, u, e
  <2> QED BY <2>3, <2>4, Zenon
<1>3. CASE n # 1
  <2> DEFINE B == t.buckets
  <2>1. u = IF B[i] = << >> THEN [t EXCEPT !.buckets[i] = <<e>>, !.ovf_free = @ + 1]
            ELSE [t EXCEPT !.buckets[i] = Append(@, e)]
    BY <1>3, Zenon DEF MoveEntry, MoveOverflow
  <2> HIDE DEF u, e
  <2>2. B \in Chains /\ i \in Buckets
    <3>1. e.key \in Keys
      BY <1>1 DEF Ent
    <3> QED BY <3>1, TableTyped, IndexIn, Zenon DEF Filed, Sized
  <2> HIDE DEF i
  <2>3. B[i] \in Seq(Ent) /\ Append(B[i], e) \in Seq(Ent)
    BY <1>1, <2>2, InAll
  <2>4. Linking(B, i, e) \in Chains
    <3>1. PICK a \in Seq(Ent) : a = Append(B[i], e)
      BY <2>3, Zenon
    <3>2. Linking(B, i, e) = [B EXCEPT ![i] = a]
      BY <3>1, Zenon DEF Linking
    <3> QED BY <2>2, <3>2, Zenon DEF Chains
  <2>5. PICK x \in Int : u = [t EXCEPT !.buckets = Linking(B, i, e), !.ovf_free = x]
    <3>1. t.ovf_free \in Int /\ t.ovf_free + 1 \in Int
      BY <1>1, TableTyped
    <3>2. CASE B[i] = << >>
      <4>1. Append(B[i], e) = <<e>>
        BY <3>2
      <4>2. u = [t EXCEPT !.buckets = Linking(B, i, e), !.ovf_free = t.ovf_free + 1]
        <5> HIDE DEF Chains
        <5> QED BY <2>1, <3>2, <4>1 DEF Linking, Tables
      <4> QED BY <3>1, <4>2, Zenon
    <3>3. CASE B[i] # << >>
      <4>1. u = [t EXCEPT !.buckets = Linking(B, i, e), !.ovf_free = t.ovf_free]
        <5> HIDE DEF Chains
        <5> QED BY <2>1, <3>3, Zenon DEF Linking, Tables
      <4> QED BY <3>1, <4>1, Zenon
    <3> QED BY <3>2, <3>3, Zenon
  <2>6. /\ u \in Tables /\ u.buckets = Linking(B, i, e) /\ Alike(t, u)
        /\ u.lost = t.lost /\ u.dropped = t.dropped
    <3> HIDE DEF Chains, B
    <3> QED BY <1>1, <2>4, <2>5, Zenon DEF Tables, Alike
  <2>7. Filed(u) /\ Entries(u) = Entries(t) \cup {e}
    BY <1>1, <2>6, FiledIn, Zenon DEF i, e
  <2> QED BY <2>6, <2>7, Zenon DEF Carried, u, e
<1> QED BY <1>2, <1>3, Zenon

---------------------------------------------------------------------------
(* Rehashing *)

\* The table is in order but for bucket i, which is next to be moved.
Opened(t, i) ==
    /\ t \in Tables /\ Sized(t) /\ Single(t.buckets) /\ i \in Buckets
    /\ \A m \in Buckets \ {i} : \A j \in DOMAIN t.buckets[m] : Belongs(t, m, t.buckets[m][j].key)

\* The entries of bucket i that come after the n-th.
Rest(t, i, n) == {t.buckets[i][m] : m \in n+1..Len(t.buckets[i])}

\* What has become of the entries after n have been moved: those of D are lost.
Moved(t, i, n, u, D) ==
    /\ D \subseteq Entries(t) /\ D \cap Rest(t, i, n) = {}
    /\ Entries(u) = (Entries(t) \ Rest(t, i, n)) \ D
    /\ u.lost = t.lost \cup ObjsOf(D) /\ u.dropped = t.dropped \cup ObjsOf(D)
Moving(t, i, n, u) == Filed(u) /\ Alike(t, u) /\ \E D : Moved(t, i, n, u, D)

\* The bucket is cleared first.
LEMMA ClearedFacts ==
    ASSUME NEW t, NEW i, Opened(t, i)
    PROVE  Moving(t, i, 0, [t EXCEPT !.buckets[i] = << >>])
<1> DEFINE B == t.buckets
           C == [B EXCEPT ![i] = << >>]
           u == [t EXCEPT !.buckets[i] = << >>]
<1>1. t \in Tables /\ B \in Chains /\ Single(B) /\ i \in Buckets /\ Sized(t)
  BY TableTyped, Zenon DEF Opened
<1>2. C \in Chains /\ C[i] = << >> /\ \A m \in Buckets : m # i => C[m] = B[m]
  BY <1>1 DEF Chains
<1>3. u = [t EXCEPT !.buckets = C]
  OBVIOUS
<1> HIDE DEF u, C
<1>4. u \in Tables /\ u.buckets = C /\ Alike(t, u) /\ u.lost = t.lost /\ u.dropped = t.dropped
  <2> HIDE DEF Chains, B
  <2> QED BY <1>1, <1>2, <1>3 DEF Tables, Alike
<1>5. \A m \in Buckets : \A j \in DOMAIN C[m] : m # i /\ j \in DOMAIN B[m] /\ C[m][j] = B[m][j]
  BY <1>2
<1>6. Single(C)
  <2> SUFFICES ASSUME NEW a \in Buckets, NEW b \in Buckets, NEW j \in DOMAIN C[a],
                      NEW l \in DOMAIN C[b], C[a][j].key = C[b][l].key
               PROVE  a = b /\ j = l
    BY Zenon DEF Single
  <2>1. /\ j \in DOMAIN B[a] /\ C[a][j] = B[a][j]
        /\ l \in DOMAIN B[b] /\ C[b][l] = B[b][l]
    BY <1>5, Zenon
  <2>2. B[a][j].key = B[b][l].key
    BY <2>1, Zenon
  <2> QED BY <1>1, <2>1, <2>2 DEF Single
<1>7. Placed(u)
  <2> SUFFICES ASSUME NEW m \in Buckets, NEW j \in DOMAIN C[m] PROVE Belongs(u, m, C[m][j].key)
    BY <1>4, Zenon DEF Placed
  <2>1. Belongs(t, m, C[m][j].key)
    BY <1>5, Zenon DEF Opened
  <2> QED BY <1>4, <2>1, Zenon DEF Belongs, Alike
<1>8. Filed(u)
  BY <1>1, <1>4, <1>6, <1>7, Zenon DEF Filed, Sized, Alike
<1>9. Rest(t, i, 0) = {B[i][m] : m \in DOMAIN B[i]}
  <2>1. DOMAIN B[i] = 1..Len(B[i])
    BY <1>1, InAll, SeqIsFcn, Zenon
  <2> QED BY <2>1 DEF Rest
<1>10. All(C) = All(B) \ Rest(t, i, 0)
  <2>1. ASSUME NEW e \in All(C) PROVE e \in All(B) \ Rest(t, i, 0)
    <3>1. PICK m \in Buckets : \E j \in DOMAIN C[m] : e = C[m][j]
      BY <1>2, InAll, Zenon
    <3>2. PICK j \in DOMAIN C[m] : e = C[m][j]
      BY <3>1, Zenon
    <3>3. m # i /\ j \in DOMAIN B[m] /\ e = B[m][j]
      BY <1>5, <3>2, Zenon
    <3>4. e \in All(B)
      BY <1>1, <3>3, InAll, Zenon
    <3>5. ASSUME NEW l \in DOMAIN B[i] PROVE e # B[i][l]
      <4>1. B[m][j].key = B[i][l].key => m = i
        BY <1>1, <3>3, Zenon DEF Single
      <4> QED BY <3>3, <4>1, Zenon
    <3> QED BY <1>9, <3>4, <3>5, Zenon
  <2>2. ASSUME NEW e \in All(B), e \notin Rest(t, i, 0) PROVE e \in All(C)
    <3>1. PICK m \in Buckets : \E j \in DOMAIN B[m] : e = B[m][j]
      BY <1>1, InAll, Zenon
    <3>2. PICK j \in DOMAIN B[m] : e = B[m][j]
      BY <3>1, Zenon
    <3>3. m # i
      BY <1>9, <2>2, <3>2, Zenon
    <3>4. j \in DOMAIN C[m] /\ e = C[m][j]
      BY <1>2, <3>2, <3>3, Zenon
    <3>5. C[m][j] \in All(C)
      BY <1>2, <3>4, InAll, Zenon
    <3> QED BY <3>4, <3>5, Zenon
  <2> QED BY <2>1, <2>2, Zenon
<1>11. Moved(t, i, 0, u, {})
  <2>1. ObjsOf({}) = {}
    BY Zenon DEF ObjsOf
  <2>2. Entries(u) = Entries(t) \ Rest(t, i, 0)
    BY <1>4, <1>10, EntriesAll, Zenon
  <2> QED BY <1>4, <2>1, <2>2 DEF Moved
<1> QED BY <1>4, <1>8, <1>11, Zenon DEF Moving, u

\* The next entry of the bucket.
LEMMA MovingKept ==
    ASSUME NEW t, NEW i, Opened(t, i), NEW room \in BOOLEAN, NEW n \in 1..Len(t.buckets[i]),
           NEW x, Moving(t, i, n - 1, x)
    PROVE  Moving(t, i, n, MoveEntry(t.buckets[i], room, n, x))
<1> DEFINE chain == t.buckets[i]
           e == chain[n]
           y == MoveEntry(chain, room, n, x)
           E == Entries(t)
           Before == Rest(t, i, n - 1)
           After == Rest(t, i, n)
<1>1. /\ t.buckets \in Chains /\ i \in Buckets /\ Single(t.buckets)
      /\ chain \in Seq(Ent) /\ DOMAIN chain = 1..Len(chain) /\ Len(chain) \in Nat
      /\ n \in 1..Len(chain)
  BY TableTyped, InAll, SeqIsFcn, Zenon DEF Opened
<1>2. PICK D : Moved(t, i, n - 1, x, D)
  BY Zenon DEF Moving
<1>3. Before = After \cup {e}
  <2>1. PICK N \in Nat : N = Len(chain) /\ n \in 1..N
    BY <1>1, Zenon
  <2>2. (n - 1) + 1 = n /\ \A m : m \in n..N <=> m = n \/ m \in n+1..N
    BY <2>1
  <2>3. Before = {chain[m] : m \in n..N} /\ After = {chain[m] : m \in n+1..N}
    BY <2>1, <2>2, Zenon DEF Rest
  <2> HIDE DEF Before, After, chain
  <2> QED BY <2>2, <2>3, Zenon
<1>4. e \notin After
  <2>1. ASSUME NEW m \in n+1..Len(chain) PROVE chain[m] # e
    <3>1. m \in DOMAIN chain /\ n \in DOMAIN chain /\ m # n
      BY <1>1
    <3>2. chain[m].key = chain[n].key => m = n
      BY <1>1, <3>1, Zenon DEF Single
    <3> QED BY <3>1, <3>2, Zenon
  <2> QED BY <2>1, Zenon DEF Rest
<1>5. e \in E /\ \A f \in E : f.key = e.key => f = e
  <2>1. e \in All(t.buckets)
    BY <1>1, InAll, Zenon
  <2> QED BY <1>1, <2>1, EntriesAll, SingleKeys, Zenon
<1> HIDE DEF E, Before, After
<1>6. /\ D \subseteq E /\ D \cap Before = {} /\ Entries(x) = (E \ Before) \ D
      /\ x.lost = t.lost \cup ObjsOf(D) /\ x.dropped = t.dropped \cup ObjsOf(D)
  BY <1>2, Zenon DEF Moved, E, Before
<1>7. \A f \in Entries(x) : f.key # e.key
  BY <1>3, <1>5, <1>6, Zenon
<1>8. Filed(x) /\ Alike(t, x)
  BY Zenon DEF Moving
<1> HIDE DEF chain
<1>9. /\ Filed(y) /\ Alike(x, y)
      /\ \/ Entries(y) = Entries(x) \cup {e} /\ y.lost = x.lost /\ y.dropped = x.dropped
         \/ /\ Entries(y) = Entries(x) /\ y.lost = x.lost \cup {e.obj}
            /\ y.dropped = x.dropped \cup {e.obj}
  <2>1. Carried(x, y, e)
    BY <1>1, <1>7, <1>8, MoveEntryFacts, Zenon
  <2> HIDE DEF y, e
  <2> QED BY <2>1, Zenon DEF Carried
<1> HIDE DEF y, e
<1>10. Alike(t, y)
  BY <1>8, <1>9, Zenon DEF Alike
<1>11. CASE Entries(y) = Entries(x) \cup {e} /\ y.lost = x.lost /\ y.dropped = x.dropped
  <2>1. D \cap After = {} /\ Entries(y) = (E \ After) \ D
    BY <1>3, <1>4, <1>5, <1>6, <1>11, Zenon
  <2>2. Moved(t, i, n, y, D)
    BY <1>6, <1>11, <2>1, Zenon DEF Moved, E, After
  <2> QED BY <1>9, <1>10, <2>2, Zenon DEF Moving, y, chain
<1>12. CASE /\ Entries(y) = Entries(x) /\ y.lost = x.lost \cup {e.obj}
            /\ y.dropped = x.dropped \cup {e.obj}
  <2> DEFINE F == D \cup {e}
  <2>1. F \subseteq E /\ F \cap After = {} /\ Entries(y) = (E \ After) \ F
    BY <1>3, <1>4, <1>5, <1>6, <1>12
  <2>2. ObjsOf(F) = ObjsOf(D) \cup {e.obj}
    BY Zenon DEF ObjsOf
  <2>3. y.lost = t.lost \cup ObjsOf(F) /\ y.dropped = t.dropped \cup ObjsOf(F)
    BY <1>6, <1>12, <2>2, Zenon
  <2> HIDE DEF F
  <2>4. Moved(t, i, n, y, F)
    BY <2>1, <2>3, Zenon DEF Moved, E, After
  <2> QED BY <1>9, <1>10, <2>4, Zenon DEF Moving, y, chain
<1> QED BY <1>9, <1>11, <1>12, Zenon

\* All entries of a bucket.
LEMMA MoveBucketFacts ==
    ASSUME NatInductive, NEW t, NEW i, Opened(t, i), NEW room \in BOOLEAN
    PROVE  LET u == MoveBucket(t, i, room)
           IN  Filed(u) /\ Alike(t, u) /\ \E D : Shed(t, u, D)
<1> DEFINE chain == t.buckets[i]
<1>1. /\ t.buckets \in Chains /\ i \in Buckets
      /\ chain \in Seq(Ent) /\ Len(chain) \in Nat
  BY TableTyped, InAll, SeqIsFcn, Zenon DEF Opened
<1>2. PICK N \in Nat : N = Len(chain)
  BY <1>1, Zenon
<1> DEFINE base == [t EXCEPT !.buckets[i] = << >>]
           Q == [n \in 0..N |-> {x \in Tables : Moving(t, i, n, x)}]
           step == [n \in 1..N |-> [x \in Tables |-> MoveEntry(chain, room, n, x)]]
           IsRun(f) == f = [n \in 0..N |-> IF n = 0 THEN base ELSE MoveEntry(chain, room, n, f[n-1])]
           g == CHOOSE f : IsRun(f)
<1>3. base \in Q[0]
  <2>1. Moving(t, i, 0, base)
    BY ClearedFacts, Zenon
  <2>2. base \in Tables /\ 0 \in 0..N
    BY <2>1 DEF Moving, Filed
  <2> HIDE DEF base
  <2> QED BY <2>1, <2>2, Zenon
<1>4. ASSUME NEW n \in 1..N, NEW x \in Q[n-1]
      PROVE  step[n][x] = MoveEntry(chain, room, n, x) /\ MoveEntry(chain, room, n, x) \in Q[n]
  <2>1. n - 1 \in 0..N /\ n \in 0..N
    OBVIOUS
  <2>2. x \in Tables /\ Moving(t, i, n - 1, x)
    BY <2>1, Zenon
  <2>3. Moving(t, i, n, MoveEntry(chain, room, n, x))
    BY <1>2, <2>2, MovingKept, Zenon
  <2>4. MoveEntry(chain, room, n, x) \in Tables
    BY <2>3, Zenon DEF Moving, Filed
  <2> QED BY <2>1, <2>2, <2>3, <2>4, Zenon
<1>5. PICK f : /\ f = [n \in 0..N |-> IF n = 0 THEN base ELSE step[n][f[n-1]]]
               /\ \A n \in 0..N : f[n] \in Q[n]
  <2> HIDE DEF Q, step, base
  <2>1. Keeps(N, Q, step)
    BY <1>4 DEF Keeps
  <2>2. \E f : IsRunOf(N, Q, base, step, f)
    BY <1>3, <2>1, Run, Zenon
  <2> QED BY <2>2, Zenon DEF IsRunOf
<1> HIDE DEF Q, step, base
<1>6. IsRun(f)
  <2>1. ASSUME NEW n \in 0..N PROVE f[n] = IF n = 0 THEN base ELSE MoveEntry(chain, room, n, f[n-1])
    <3>1. f[n] = IF n = 0 THEN base ELSE step[n][f[n-1]]
      BY <1>5, Zenon
    <3>2. CASE n # 0
      <4>1. n \in 1..N /\ n - 1 \in 0..N
        BY <3>2
      <4> QED BY <1>4, <1>5, <3>1, <3>2, <4>1, Zenon
    <3> QED BY <3>1, <3>2, Zenon
  <2>2. f = [n \in 0..N |-> f[n]]
    BY <1>5, Zenon
  <2> QED BY <2>1, <2>2, Zenon
<1>7. IsRun(g)
  BY <1>6, Zenon
<1>8. MoveBucket(t, i, room) = g[N]
  BY <1>2, Zenon DEF MoveBucket, base
<1>9. \A n \in 0..N : g[n] = IF n = 0 THEN base ELSE MoveEntry(chain, room, n, g[n-1])
  <2> HIDE DEF g
  <2> QED BY <1>7, Zenon
<1> HIDE DEF g
<1>10. g[0] \in Q[0] /\ \A n \in 1..N : g[n-1] \in Q[n-1] => g[n] \in Q[n]
  <2>1. g[0] = base
    BY <1>9
  <2>2. ASSUME NEW n \in 1..N PROVE g[n] = MoveEntry(chain, room, n, g[n-1])
    <3>1. n \in 0..N /\ n # 0
      OBVIOUS
    <3> QED BY <1>9, <3>1, Zenon
  <2> QED BY <1>3, <1>4, <2>1, <2>2, Zenon
<1>11. N \in 0..N /\ g[N] \in Q[N]
  <2>1. N \in 0..N
    OBVIOUS
  <2> QED BY <1>10, <2>1, TurnsKeep, Zenon
<1>12. Moving(t, i, N, g[N])
  BY <1>11, Zenon DEF Q
<1>13. Rest(t, i, N) = {}
  <2>1. N+1..N = {}
    OBVIOUS
  <2> QED BY <1>2, <2>1, Zenon DEF Rest
<1>14. PICK D : Moved(t, i, N, g[N], D)
  BY <1>12, Zenon DEF Moving
<1>15. Shed(t, g[N], D)
  BY <1>13, <1>14, Zenon DEF Shed, Moved
<1> QED BY <1>8, <1>12, <1>15, Zenon DEF Moving

\* Nothing is lost, or more is.
LEMMA ShedNone == \A t : Shed(t, t, {})
<1>1. ObjsOf({}) = {}
  BY Zenon DEF ObjsOf
<1> QED BY <1>1 DEF Shed

\* Entries that are dropped one after the other are dropped together.
LEMMA ShedMore ==
    ASSUME NEW t, NEW u, NEW v, NEW D, NEW F, Shed(t, u, D), Shed(u, v, F)
    PROVE  Shed(t, v, D \cup F)
<1>1. ObjsOf(D \cup F) = ObjsOf(D) \cup ObjsOf(F)
  BY Zenon DEF ObjsOf
<1> HIDE DEF ObjsOf
<1> QED BY <1>1, Zenon DEF Shed

\* One bucket of a rehash.
Ticking(t, x) == Filed(x) /\ Rehashing(x) /\ \E D : Shed(t, x, D)

\* Moving one bucket keeps the table filed, but for the entries it drops.
LEMMA RehashOneFacts ==
    ASSUME NatInductive, NEW t, NEW x, Ticking(t, x), NEW room \in BOOLEAN
    PROVE  Ticking(t, RehashOne(x, room))
<1>1. CASE x.rehash_idx >= x.old_cap
  BY <1>1, Zenon DEF RehashOne
<1>2. CASE ~(x.rehash_idx >= x.old_cap)
  <2> DEFINE i == x.rehash_idx
             u == [x EXCEPT !.rehash_idx = @ + 1]
             v == MoveBucket(u, i, room)
  <2>1. RehashOne(x, room) = v
    BY <1>2, Zenon DEF RehashOne
  <2>2. x \in Tables /\ Sized(x) /\ Placed(x) /\ Single(x.buckets) /\ Rehashing(x)
    BY Zenon DEF Ticking, Filed
  <2>3. i \in Int /\ i \in 0..x.old_cap-1 /\ x.old_cap \in 1..MaxCap /\ MaxCap \in Nat
    BY <1>2, <2>2, HtableAssumption DEF Rehashing
  <2>4. i \in Buckets
    BY <2>3 DEF Buckets
  <2>5. /\ u \in Tables /\ u.buckets = x.buckets /\ u.cap = x.cap /\ u.old_cap = x.old_cap
        /\ u.rehash_idx = i + 1 /\ u.lost = x.lost /\ u.dropped = x.dropped
    <3> HIDE DEF Chains
    <3> QED BY <2>2, <2>3 DEF Tables
  <2> HIDE DEF u, v
  <2>6. ASSUME NEW m \in Buckets, m # i, NEW k, Belongs(x, m, k) PROVE Belongs(u, m, k)
    <3>1. m \in Int
      BY DEF Buckets
    <3>2. i + 1 >= 0 /\ (m >= i => m >= i + 1)
      BY <2>3, <2>6, <3>1
    <3> QED BY <2>5, <2>6, <3>2, Zenon DEF Belongs
  <2>7. Opened(u, i)
    <3>1. \A m \in Buckets \ {i} : \A j \in DOMAIN u.buckets[m] : Belongs(u, m, u.buckets[m][j].key)
      BY <2>2, <2>5, <2>6, Zenon DEF Placed
    <3> HIDE DEF i
    <3> QED BY <2>2, <2>4, <2>5, <3>1, Zenon DEF Opened, Sized
  <2>8. Filed(v) /\ Alike(u, v) /\ \E D : Shed(u, v, D)
    BY <2>7, MoveBucketFacts, Zenon DEF v
  <2>9. Rehashing(v)
    <3>1. v.old_cap = x.old_cap /\ v.rehash_idx = i + 1
      BY <2>5, <2>8, Zenon DEF Alike
    <3> QED BY <2>3, <3>1 DEF Rehashing
  <2>10. PICK D, F : Shed(t, x, D) /\ Shed(u, v, F)
    BY <2>8, Zenon DEF Ticking
  <2>11. Shed(x, v, F)
    <3>1. Entries(u) = Entries(x)
      BY <2>5, EntriesAll, Zenon
    <3> QED BY <2>5, <2>10, <3>1, Zenon DEF Shed
  <2>12. Shed(t, v, D \cup F)
    BY <2>10, <2>11, ShedMore, Zenon
  <2> QED BY <2>1, <2>8, <2>9, <2>12, Zenon DEF Ticking
<1> QED BY <1>1, <1>2, Zenon

\* ht_rehash_tick: some entries may be lost, the others are where lookup finds
\* them.
LEMMA RehashTickFacts ==
    ASSUME NatInductive, NEW t, TableOK(t), t.rehash_idx >= 0, NEW room \in BOOLEAN
    PROVE  LET u == RehashTick(t, room)
           IN  TableOK(u) /\ \E D : Shed(t, u, D)
<1>1. PICK N \in Nat : N = RehashStep
  BY HtableAssumption
<1> DEFINE Q == [n \in 0..N |-> {x \in Tables : Ticking(t, x)}]
           step == [n \in 1..N |-> [x \in Tables |-> RehashOne(x, room)]]
           IsRun(f) == f = [n \in 0..N |-> IF n = 0 THEN t ELSE RehashOne(f[n-1], room)]
           g == CHOOSE f : IsRun(f)
<1>2. t \in Q[0]
  <2>1. Filed(t) /\ Rehashing(t)
    BY DEF TableOK, RehashOK
  <2>2. Ticking(t, t) /\ t \in Tables /\ 0 \in 0..N
    BY <2>1, ShedNone DEF Ticking, Filed
  <2> QED BY <2>2, Zenon
<1>3. ASSUME NEW n \in 1..N, NEW x \in Q[n-1]
      PROVE  step[n][x] = RehashOne(x, room) /\ RehashOne(x, room) \in Q[n]
  <2>1. n - 1 \in 0..N /\ n \in 0..N
    OBVIOUS
  <2>2. x \in Tables /\ Ticking(t, x)
    BY <2>1, Zenon
  <2>3. Ticking(t, RehashOne(x, room))
    BY <2>2, RehashOneFacts, Zenon
  <2>4. RehashOne(x, room) \in Tables
    BY <2>3, Zenon DEF Ticking, Filed
  <2> QED BY <2>1, <2>2, <2>3, <2>4, Zenon
<1>4. PICK f : /\ f = [n \in 0..N |-> IF n = 0 THEN t ELSE step[n][f[n-1]]]
               /\ \A n \in 0..N : f[n] \in Q[n]
  <2> HIDE DEF Q, step
  <2>1. Keeps(N, Q, step)
    BY <1>3 DEF Keeps
  <2>2. \E f : IsRunOf(N, Q, t, step, f)
    BY <1>2, <2>1, Run, Zenon
  <2> QED BY <2>2, Zenon DEF IsRunOf
<1> HIDE DEF Q, step
<1>5. IsRun(f)
  <2>1. ASSUME NEW n \in 0..N PROVE f[n] = IF n = 0 THEN t ELSE RehashOne(f[n-1], room)
    <3>1. f[n] = IF n = 0 THEN t ELSE step[n][f[n-1]]
      BY <1>4, Zenon
    <3>2. CASE n # 0
      <4>1. n \in 1..N /\ n - 1 \in 0..N
        BY <3>2
      <4> QED BY <1>3, <1>4, <3>1, <3>2, <4>1, Zenon
    <3> QED BY <3>1, <3>2, Zenon
  <2>2. f = [n \in 0..N |-> f[n]]
    BY <1>4, Zenon
  <2> QED BY <2>1, <2>2, Zenon
<1>6. IsRun(g)
  BY <1>5, Zenon
<1>7. RehashTick(t, room) = RehashEnd(g[N])
  BY <1>1, Zenon DEF RehashTick
<1>8. \A n \in 0..N : g[n] = IF n = 0 THEN t ELSE RehashOne(g[n-1], room)
  <2> HIDE DEF g
  <2> QED BY <1>6, Zenon
<1> HIDE DEF g
<1>9. g[0] \in Q[0] /\ \A n \in 1..N : g[n-1] \in Q[n-1] => g[n] \in Q[n]
  <2>1. g[0] = t
    BY <1>8
  <2>2. ASSUME NEW n \in 1..N PROVE g[n] = RehashOne(g[n-1], room)
    <3>1. n \in 0..N /\ n # 0
      OBVIOUS
    <3> QED BY <1>8, <3>1, Zenon
  <2> QED BY <1>2, <1>3, <2>1, <2>2, Zenon
<1>10. N \in 0..N /\ g[N] \in Q[N]
  <2>1. N \in 0..N
    OBVIOUS
  <2> QED BY <1>9, <2>1, TurnsKeep, Zenon
<1>11. PICK x : x = g[N] /\ Ticking(t, x)
  BY <1>10, Zenon DEF Q
<1>12. CASE x.rehash_idx >= x.old_cap
  <2> DEFINE u == [x EXCEPT !.old_cap = 0, !.rehash_idx = -1]
  <2>1. RehashEnd(x) = u
    BY <1>12, Zenon DEF RehashEnd
  <2>2. x \in Tables /\ Sized(x) /\ Placed(x) /\ Single(x.buckets) /\ Rehashing(x)
    BY <1>11, Zenon DEF Ticking, Filed
  <2>3. /\ u \in Tables /\ u.buckets = x.buckets /\ u.cap = x.cap
        /\ u.rehash_idx = -1 /\ u.lost = x.lost /\ u.dropped = x.dropped
    <3>1. PICK a \in Int, b \in Nat : a = -1 /\ b = 0
      OBVIOUS
    <3>2. u = [x EXCEPT !.old_cap = b, !.rehash_idx = a]
      BY <3>1, Zenon
    <3> HIDE DEF Chains, u
    <3>3. u \in Tables
      BY <2>2, <3>2, Zenon DEF Tables
    <3>4. u.buckets = x.buckets /\ u.cap = x.cap /\ u.rehash_idx = a
      BY <3>2 DEF Tables
    <3>5. u.lost = x.lost /\ u.dropped = x.dropped
      BY <3>2 DEF Tables
    <3> QED BY <3>1, <3>3, <3>4, <3>5, Zenon
  <2> HIDE DEF u
  <2>4. ASSUME NEW m \in Buckets, NEW j \in DOMAIN x.buckets[m] PROVE Belongs(u, m, x.buckets[m][j].key)
    <3> DEFINE k == x.buckets[m][j].key
    <3>1. k \in Keys
      <4>1. x.buckets[m][j] \in Ent
        BY <2>2, TableTyped, InAll, Zenon
      <4> QED BY <4>1 DEF Ent
    <3> HIDE DEF k
    <3>2. x.old_cap \in 1..MaxCap /\ x.rehash_idx \in Nat
      BY <2>2, HtableAssumption DEF Rehashing
    <3>3. Index(k, x.old_cap) < x.old_cap /\ Index(k, x.old_cap) \in Int
      BY <3>1, <3>2, IndexIn DEF Buckets
    <3>4. Belongs(x, m, k)
      BY <2>2, Zenon DEF Placed, k
    <3>5. ~(m = Index(k, x.old_cap) /\ m >= x.rehash_idx)
      BY <1>12, <3>2, <3>3, HtableAssumption
    <3>6. m = Index(k, x.cap)
      BY <3>4, <3>5, Zenon DEF Belongs
    <3> QED BY <2>3, <3>6, Zenon DEF Belongs, k
  <2>5. TableOK(u)
    BY <2>2, <2>3, <2>4, Zenon DEF TableOK, Filed, Placed, Sized, RehashOK
  <2>6. Entries(u) = Entries(x)
    BY <2>3, EntriesAll, Zenon
  <2>7. \E D : Shed(t, u, D)
    BY <1>11, <2>3, <2>6, Zenon DEF Shed, Ticking
  <2> QED BY <1>7, <1>11, <2>1, <2>5, <2>7, Zenon
<1>13. CASE ~(x.rehash_idx >= x.old_cap)
  <2>1. RehashEnd(x) = x
    BY <1>13, Zenon DEF RehashEnd
  <2>2. x.rehash_idx < x.old_cap
    BY <1>11, <1>13, HtableAssumption DEF Ticking, Rehashing
  <2> QED BY <1>7, <1>11, <2>1, <2>2, Zenon DEF TableOK, RehashOK, Ticking
<1> QED BY <1>12, <1>13, Zenon

\* ht_rehash_start: the entries stay, in what are now their old buckets.
LEMMA RehashStartFacts ==
    ASSUME NEW t, TableOK(t), NEW room \in BOOLEAN
    PROVE  LET u == RehashStart(t, room)
           IN  TableOK(u) /\ Entries(u) = Entries(t) /\ u.lost = t.lost /\ u.dropped = t.dropped
<1> DEFINE u == RehashStart(t, room)
           stay == t.rehash_disabled \/ t.rehash_idx >= 0 \/ 5 * t.used <= 6 * t.cap
<1>1. t \in Tables /\ Sized(t) /\ Placed(t) /\ Single(t.buckets) /\ RehashOK(t)
  BY Zenon DEF TableOK, Filed
<1>2. CASE stay
  <2>1. u = t
    BY <1>2, Zenon DEF RehashStart
  <2> QED BY <2>1, Zenon
<1>3. CASE ~stay /\ 2 * t.cap <= MaxCap /\ room
  <2>1. u = [t EXCEPT !.old_cap = t.cap, !.cap = 2 * t.cap, !.rehash_idx = 0]
    BY <1>3, Zenon DEF RehashStart
  <2> HIDE DEF u
  <2>2. t.cap \in 1..MaxCap /\ t.cap \in Nat /\ 2 * t.cap \in Nat /\ 2 * t.cap \in 1..MaxCap
    BY <1>1, <1>3, HtableAssumption DEF Sized
  <2>3. /\ u \in Tables /\ u.buckets = t.buckets /\ u.cap = 2 * t.cap /\ u.old_cap = t.cap
        /\ u.rehash_idx = 0 /\ u.lost = t.lost /\ u.dropped = t.dropped
    <3>1. PICK a \in Nat, b \in Nat, c \in Int : a = t.cap /\ b = 2 * t.cap /\ c = 0
      BY <2>2
    <3>2. u = [t EXCEPT !.old_cap = a, !.cap = b, !.rehash_idx = c]
      BY <2>1, <3>1, Zenon
    <3> HIDE DEF Chains
    <3>3. u \in Tables
      BY <1>1, <3>2, Zenon DEF Tables
    <3>4. u.buckets = t.buckets /\ u.cap = b /\ u.old_cap = a /\ u.rehash_idx = c
      BY <3>2 DEF Tables
    <3>5. u.lost = t.lost /\ u.dropped = t.dropped
      BY <3>2 DEF Tables
    <3> QED BY <3>1, <3>3, <3>4, <3>5, Zenon
  <2>4. RehashOK(u) /\ Sized(u)
    BY <2>2, <2>3, HtableAssumption DEF RehashOK, Rehashing, Sized
  <2>5. t.rehash_idx = -1
    BY <1>1, <1>3, HtableAssumption DEF RehashOK, Rehashing
  <2>6. ASSUME NEW m \in Buckets, NEW k, Belongs(t, m, k) PROVE Belongs(u, m, k)
    <3>1. m = Index(k, t.cap) /\ m >= 0 /\ 0 >= 0
      BY <2>5, <2>6 DEF Belongs, Buckets
    <3> QED BY <2>3, <3>1, Zenon DEF Belongs
  <2>7. Placed(u)
    BY <1>1, <2>3, <2>6, Zenon DEF Placed
  <2>8. Entries(u) = Entries(t)
    BY <2>3, EntriesAll, Zenon
  <2>9. TableOK(u)
    BY <2>3, <2>4, <2>7, Zenon DEF TableOK, Filed
  <2> QED BY <2>3, <2>8, <2>9, Zenon DEF u
<1>4. CASE ~stay /\ ~(2 * t.cap <= MaxCap /\ room)
  <2>1. u = [t EXCEPT !.rehash_disabled = TRUE]
    BY <1>4, Zenon DEF RehashStart
  <2> HIDE DEF u
  <2>2. u \in Tables /\ u.buckets = t.buckets /\ Steady(t, u)
    <3> HIDE DEF Chains
    <3> QED BY <1>1, <2>1, Zenon DEF Tables, Steady
  <2>3. TableOK(u)
    BY <2>2, Zenon DEF TableOK, Filed, Placed, Sized, RehashOK, Rehashing, Belongs, Steady
  <2>4. Entries(u) = Entries(t)
    BY <2>2, EntriesAll, Zenon
  <2> QED BY <2>2, <2>3, <2>4, Zenon DEF u, Steady
<1> QED BY <1>2, <1>3, <1>4, Zenon

---------------------------------------------------------------------------
(* Lookup *)

\* p is the place of the key k.
Found(B, k, p) ==
    \E i \in Buckets : \E j \in DOMAIN B[i] : p = <<i, j>> /\ B[i][j].key = k

\* A chain has the key once.
LEMMA ChainFindFacts ==
    ASSUME NEW t, Filed(t), NEW i \in Buckets, NEW k
    PROVE  LET p == ChainFind(t, i, k)
               B == t.buckets
           IN  /\ p = Nowhere => \A j \in DOMAIN B[i] : B[i][j].key # k
               /\ p # Nowhere => Found(B, k, p)
               /\ (\E j \in DOMAIN B[i] : B[i][j].key = k) => p # Nowhere
<1> DEFINE B == t.buckets
           at == {j \in DOMAIN B[i] : B[i][j].key = k}
           p == ChainFind(t, i, k)
<1>1. p = IF at = {} THEN Nowhere ELSE <<i, Min(at)>>
  BY Zenon DEF ChainFind
<1>2. CASE at = {}
  BY <1>1, <1>2, Zenon
<1>3. CASE at # {}
  <2>1. PICK j \in DOMAIN B[i] : B[i][j].key = k
    BY <1>3, Zenon
  <2>2. Single(B)
    BY Zenon DEF Filed
  <2>3. at = {j}
    <3>1. ASSUME NEW l \in DOMAIN B[i], B[i][l].key = k PROVE l = j
      <4>1. B[i][l].key = B[i][j].key
        BY <2>1, <3>1, Zenon
      <4> QED BY <2>2, <4>1, Zenon DEF Single
    <3> QED BY <2>1, <3>1, Zenon
  <2>4. j \in Nat
    <3>2. Len(B[i]) \in Nat
      BY TableTyped, InAll, SeqIsFcn, Zenon DEF Filed
    <3> QED BY <3>2
  <2>5. Min(at) = j
    <3> HIDE DEF at
    <3>1. j <= j /\ \A x, y \in at : x = j /\ y = j
      BY <2>3, <2>4
    <3> QED BY <2>3, <3>1, Zenon DEF Min
  <2> HIDE DEF at
  <2>6. p = <<i, j>>
    BY <1>1, <1>3, <2>5, Zenon
  <2>7. i # -1
    BY DEF Buckets
  <2>8. p # Nowhere
    BY <2>6, <2>7 DEF Nowhere
  <2> HIDE DEF p, B
  <2>9. Found(B, k, p)
    BY <2>1, <2>6, Zenon DEF Found
  <2> QED BY <2>8, <2>9, Zenon DEF p, B
<1> QED BY <1>2, <1>3, Zenon

\* ht_key_lookup finds the key if and only if some entry has it, in the middle
\* of a rehash too.
LEMMA LocateFacts ==
    ASSUME NEW t, TableOK(t), NEW k \in Keys
    PROVE  LET p == Locate(t, k)
           IN  /\ p = Nowhere => \A e \in Entries(t) : e.key # k
               /\ p # Nowhere => Found(t.buckets, k, p)
<1> DEFINE B == t.buckets
           new == Index(k, t.cap)
           old == IF t.rehash_idx < 0 THEN 0 ELSE Index(k, t.old_cap)
           p == Locate(t, k)
           a == ChainFind(t, new, k)
           b == ChainFind(t, old, k)
<1>1. Filed(t) /\ t \in Tables /\ B \in Chains /\ new \in Buckets
  BY TableTyped, IndexIn, Zenon DEF TableOK, Filed, Sized
<1>2. t.rehash_idx \in Int
  BY <1>1, TableTyped, Zenon
<1>3. p = IF t.rehash_idx < 0 \/ old < t.rehash_idx THEN a ELSE IF b # Nowhere THEN b ELSE a
  BY Zenon DEF Locate
<1>4. /\ a = Nowhere => \A j \in DOMAIN B[new] : B[new][j].key # k
      /\ a # Nowhere => Found(B, k, a)
      /\ (\E j \in DOMAIN B[new] : B[new][j].key = k) => a # Nowhere
  BY <1>1, ChainFindFacts, Zenon
<1>5. ~(t.rehash_idx < 0) => old \in Buckets /\ old = Index(k, t.old_cap)
  <2> SUFFICES ASSUME ~(t.rehash_idx < 0) PROVE old \in Buckets /\ old = Index(k, t.old_cap)
    BY Zenon
  <2>1. t.old_cap \in 1..MaxCap
    BY DEF TableOK, RehashOK, Rehashing
  <2> QED BY <2>1, IndexIn, Zenon
<1>6. ~(t.rehash_idx < 0) =>
        /\ b = Nowhere => \A j \in DOMAIN B[old] : B[old][j].key # k
        /\ b # Nowhere => Found(B, k, b)
  BY <1>1, <1>5, ChainFindFacts, Zenon
<1> HIDE DEF a, b, new
<1>7. p # Nowhere => Found(B, k, p)
  BY <1>3, <1>4, <1>6, Zenon
<1>8. ASSUME p = Nowhere, NEW e \in Entries(t), e.key = k PROVE FALSE
  <2>1. PICK i \in Buckets : \E j \in DOMAIN B[i] : e = B[i][j]
    BY <1>1, EntriesAll, InAll, Zenon
  <2>2. PICK j \in DOMAIN B[i] : e = B[i][j]
    BY <2>1, Zenon
  <2>3. Belongs(t, i, k)
    BY <1>1, <1>8, <2>2, Zenon DEF Filed, Placed
  <2>4. a = Nowhere
    BY <1>3, <1>8, Zenon
  <2>5. i # new
    BY <1>4, <1>8, <2>2, <2>4, Zenon
  <2>6. t.rehash_idx >= 0 /\ i = Index(k, t.old_cap) /\ i >= t.rehash_idx
    BY <2>3, <2>5, Zenon DEF Belongs, new
  <2>7. ~(t.rehash_idx < 0)
    BY <1>2, <2>6
  <2>8. old = i
    BY <2>6, <2>7, Zenon
  <2>9. ~(old < t.rehash_idx)
    <3>1. i \in Int
      BY DEF Buckets
    <3> HIDE DEF old
    <3> QED BY <1>2, <2>6, <2>8, <3>1
  <2>10. b = Nowhere
    BY <1>3, <1>8, <2>7, <2>9, Zenon
  <2> QED BY <1>6, <1>8, <2>2, <2>7, <2>8, <2>10, Zenon
<1> QED BY <1>7, <1>8, Zenon

\* The entry that lookup finds is the key's only one.
LEMMA FoundFacts ==
    ASSUME NEW t, TableOK(t), NEW k \in Keys, NEW p, Found(t.buckets, k, p)
    PROVE  /\ At(t, p) \in Entries(t) /\ At(t, p) \in Ent /\ At(t, p).key = k
           /\ \A e \in Entries(t) : e.key = k => e = At(t, p)
<1> DEFINE B == t.buckets
<1>1. B \in Chains /\ Single(B)
  BY TableTyped, Zenon DEF TableOK, Filed
<1>2. PICK i \in Buckets : \E j \in DOMAIN B[i] : p = <<i, j>> /\ B[i][j].key = k
  BY Zenon DEF Found
<1>3. PICK j \in DOMAIN B[i] : p = <<i, j>> /\ B[i][j].key = k
  BY <1>2, Zenon
<1>4. p[1] = i /\ p[2] = j
  BY <1>3
<1>5. At(t, p) = B[i][j]
  BY <1>4, Zenon DEF At
<1> HIDE DEF B
<1>6. B[i][j] \in All(B) /\ B[i][j] \in Ent
  BY <1>1, InAll, Zenon
<1>7. \A e \in All(B) : e.key = k => e = B[i][j]
  BY <1>1, <1>3, <1>6, SingleKeys, Zenon
<1> QED BY <1>3, <1>5, <1>6, <1>7, EntriesAll, Zenon DEF B

\* What the table says of a key.
LEMMA LookupFacts ==
    ASSUME NEW t, TableOK(t), NEW k \in Keys
    PROVE  \/ /\ \A e \in Entries(t) : e.key # k
              /\ Locate(t, k) = Nowhere /\ ObjOf(t, k) = NoObj /\ ~IsLocked(t, k)
              /\ ExpireGet(t, k) = -1
           \/ \E e \in Entries(t) : /\ e.key = k /\ Locate(t, k) # Nowhere
                                   /\ At(t, Locate(t, k)) = e /\ ObjOf(t, k) = e.obj
                                   /\ IsLocked(t, k) = e.locked /\ ExpireGet(t, k) = e.expire
<1> DEFINE p == Locate(t, k)
<1>1. /\ p = Nowhere => \A e \in Entries(t) : e.key # k
      /\ p # Nowhere => Found(t.buckets, k, p)
  BY LocateFacts, Zenon
<1>2. CASE p = Nowhere
  BY <1>1, <1>2, Zenon DEF ObjOf, IsLocked, ExpireGet
<1>3. CASE p # Nowhere
  <2> DEFINE e == At(t, p)
  <2>1. e \in Entries(t) /\ e.key = k /\ e \in Ent
    BY <1>1, <1>3, FoundFacts, Zenon
  <2>2. ObjOf(t, k) = e.obj /\ ExpireGet(t, k) = e.expire
    BY <1>3, Zenon DEF ObjOf, ExpireGet
  <2>3. IsLocked(t, k) = e.locked
    <3>1. e.locked \in BOOLEAN
      BY <2>1 DEF Ent
    <3>2. IsLocked(t, k) = (p # Nowhere /\ e.locked)
      BY Zenon DEF IsLocked
    <3> HIDE DEF e, p
    <3> QED BY <1>3, <3>1, <3>2
  <2> QED BY <1>3, <2>1, <2>2, <2>3, Zenon
<1> QED BY <1>2, <1>3, Zenon

---------------------------------------------------------------------------
(* Taking an entry out, writing one in place *)

\* One sequence behind another.
LEMMA Behind ==
    ASSUME NEW S, NEW a \in Seq(S), NEW b \in Seq(S)
    PROVE  /\ a \o b \in Seq(S) /\ Len(a \o b) = Len(a) + Len(b)
           /\ \A j \in 1..Len(a)+Len(b) :
                (a \o b)[j] = IF j <= Len(a) THEN a[j] ELSE b[j - Len(a)]
  OBVIOUS

\* A sequence without its i-th element: what comes after it moves up.
LEMMA CutFacts ==
    ASSUME NEW S, NEW l \in Seq(S), NEW i \in DOMAIN l
    PROVE  LET n == Len(l)
               c == Cut(l, i)
           IN  /\ n \in Nat /\ i \in 1..n /\ DOMAIN l = 1..n
               /\ c \in Seq(S) /\ Len(c) = n - 1 /\ DOMAIN c = 1..n-1
               /\ \A j \in 1..n-1 : IF j < i THEN j \in 1..n /\ c[j] = l[j]
                                    ELSE j + 1 \in 1..n /\ c[j] = l[j + 1]
<1>1. PICK n \in Nat : n = Len(l) /\ DOMAIN l = 1..n /\ i \in 1..n
  OBVIOUS
<1> DEFINE a == SubSeq(l, 1, i - 1)
           b == SubSeq(l, i + 1, n)
           c == Cut(l, i)
<1>2. a \in Seq(S) /\ Len(a) = i - 1 /\ \A j \in 1..i-1 : a[j] = l[j]
  BY <1>1
<1>3. b \in Seq(S) /\ Len(b) = n - i /\ \A j \in 1..n-i : b[j] = l[j + i]
  BY <1>1
<1>4. c = a \o b
  BY <1>1, Zenon DEF Cut
<1> HIDE DEF a, b
<1>5. /\ c \in Seq(S) /\ Len(c) = Len(a) + Len(b)
      /\ \A j \in 1..Len(a)+Len(b) : c[j] = IF j <= Len(a) THEN a[j] ELSE b[j - Len(a)]
  <2>1. /\ a \o b \in Seq(S) /\ Len(a \o b) = Len(a) + Len(b)
        /\ \A j \in 1..Len(a)+Len(b) :
             (a \o b)[j] = IF j <= Len(a) THEN a[j] ELSE b[j - Len(a)]
    BY <1>2, <1>3, Behind, Zenon
  <2> HIDE DEF c
  <2> QED BY <1>4, <2>1
<1> HIDE DEF c
<1>6. Len(a) + Len(b) = n - 1
  <2>2. Len(a) = i - 1 /\ Len(b) = n - i
    BY <1>2, <1>3, Zenon
  <2> QED BY <2>2
<1>7. ASSUME NEW j \in 1..n-1
      PROVE  IF j < i THEN j \in 1..n /\ c[j] = l[j] ELSE j + 1 \in 1..n /\ c[j] = l[j + 1]
  <2>1. CASE j < i
    <3>1. j \in 1..i-1 /\ j \in 1..Len(a)+Len(b) /\ j <= Len(a) /\ j \in 1..n
      BY <1>2, <1>6, <2>1
    <3> QED BY <1>2, <1>5, <2>1, <3>1, Zenon
  <2>2. CASE ~(j < i)
    <3>1. /\ j - (i - 1) \in 1..n-i /\ j \in 1..Len(a)+Len(b) /\ ~(j <= Len(a))
          /\ j - (i - 1) + i = j + 1 /\ j - Len(a) = j - (i - 1) /\ j + 1 \in 1..n
      BY <1>2, <1>6, <2>2, SMTT(40)
    <3> QED BY <1>3, <1>5, <2>2, <3>1, Zenon
  <2> QED BY <2>1, <2>2, Zenon
<1>8. DOMAIN c = 1..n-1 /\ Len(c) = n - 1
  <2>1. Len(c) = n - 1
    BY <1>5, <1>6, Zenon
  <2> QED BY <1>5, <2>1, SeqIsFcn, Zenon
<1> QED BY <1>1, <1>5, <1>7, <1>8, Zenon DEF c

\* What is left of a sequence, and where it was.
LEMMA CutPlaces ==
    ASSUME NEW S, NEW l \in Seq(S), NEW i \in DOMAIN l
    PROVE  LET c == Cut(l, i)
               from == [j \in DOMAIN c |-> IF j < i THEN j ELSE j + 1]
           IN  /\ c \in Seq(S)
               /\ \A j \in DOMAIN c : from[j] \in DOMAIN l /\ from[j] # i /\ c[j] = l[from[j]]
               /\ \A j, k \in DOMAIN c : from[j] = from[k] => j = k
               /\ \A m \in DOMAIN l : m # i => \E j \in DOMAIN c : from[j] = m
<1> DEFINE c == Cut(l, i)
           from == [j \in DOMAIN c |-> IF j < i THEN j ELSE j + 1]
<1>1. PICK n \in Nat : n = Len(l)
  BY SeqIsFcn, Zenon
<1>2. /\ i \in 1..n /\ DOMAIN l = 1..n /\ c \in Seq(S) /\ DOMAIN c = 1..n-1
      /\ \A j \in 1..n-1 : IF j < i THEN j \in 1..n /\ c[j] = l[j]
                           ELSE j + 1 \in 1..n /\ c[j] = l[j + 1]
  BY <1>1, CutFacts, Zenon
<1> HIDE DEF c
<1>3. \A j \in 1..n-1 : from[j] = IF j < i THEN j ELSE j + 1
  BY <1>2, Zenon
<1> HIDE DEF from
<1>4. ASSUME NEW j \in DOMAIN c PROVE from[j] \in DOMAIN l /\ from[j] # i /\ c[j] = l[from[j]]
  <2>1. j \in 1..n-1 /\ (j < i => j # i) /\ (~(j < i) => j + 1 # i)
    BY <1>2
  <2> QED BY <1>2, <1>3, <2>1, Zenon
<1>5. ASSUME NEW j \in DOMAIN c, NEW k \in DOMAIN c, from[j] = from[k] PROVE j = k
  BY <1>2, <1>3, <1>5
<1>6. ASSUME NEW m \in DOMAIN l, m # i PROVE \E j \in DOMAIN c : from[j] = m
  <2>1. CASE m < i
    <3>1. m \in 1..n-1 /\ from[m] = m
      BY <1>2, <1>3, <2>1
    <3> QED BY <1>2, <3>1, Zenon
  <2>2. CASE m > i
    <3>1. m - 1 \in 1..n-1 /\ from[m - 1] = m
      BY <1>2, <1>3, <2>2
    <3> QED BY <1>2, <3>1, Zenon
  <2> QED BY <1>6, <2>1, <2>2
<1> QED BY <1>2, <1>4, <1>5, <1>6, Zenon DEF c, from

\* An entry is where its key was.
Kept(B, C) == \A m \in Buckets : \A j \in DOMAIN C[m] : \E l \in DOMAIN B[m] : C[m][j].key = B[m][l].key

\* A table whose entries stay where their keys were stays in order.
LEMMA KeptOK ==
    ASSUME NEW t, TableOK(t), NEW u \in Tables, Alike(t, u), Single(u.buckets),
           Kept(t.buckets, u.buckets)
    PROVE  TableOK(u)
<1>1. t \in Tables /\ Sized(t) /\ Placed(t) /\ RehashOK(t)
  BY Zenon DEF TableOK, Filed
<1>2. Placed(u)
  <2> SUFFICES ASSUME NEW m \in Buckets, NEW j \in DOMAIN u.buckets[m]
               PROVE  Belongs(u, m, u.buckets[m][j].key)
    BY Zenon DEF Placed
  <2>1. PICK l \in DOMAIN t.buckets[m] : u.buckets[m][j].key = t.buckets[m][l].key
    BY Zenon DEF Kept
  <2>2. Belongs(t, m, t.buckets[m][l].key)
    BY <1>1, Zenon DEF Placed
  <2> QED BY <2>1, <2>2, Zenon DEF Belongs, Alike
<1>3. Sized(u) /\ RehashOK(u)
  BY <1>1, Zenon DEF Sized, RehashOK, Rehashing, Alike
<1> QED BY <1>2, <1>3, Zenon DEF TableOK, Filed

Cutting(B, i, x) == [B EXCEPT ![i] = Cut(@, x)]

\* A chain without one of its entries.
LEMMA CutChain ==
    ASSUME NEW B \in Chains, Single(B), NEW i \in Buckets, NEW x \in DOMAIN B[i]
    PROVE  LET C == Cutting(B, i, x)
           IN  /\ C \in Chains /\ Single(C) /\ Kept(B, C)
               /\ All(C) = {e \in All(B) : e.key # B[i][x].key}
<1> DEFINE C == Cutting(B, i, x)
           c == Cut(B[i], x)
           from == [j \in DOMAIN c |-> IF j < x THEN j ELSE j + 1]
<1>1. B[i] \in Seq(Ent)
  BY InAll, Zenon
<1>2. /\ c \in Seq(Ent)
      /\ \A j \in DOMAIN c : from[j] \in DOMAIN B[i] /\ from[j] # x /\ c[j] = B[i][from[j]]
      /\ \A j, k \in DOMAIN c : from[j] = from[k] => j = k
      /\ \A m \in DOMAIN B[i] : m # x => \E j \in DOMAIN c : from[j] = m
  BY <1>1, CutPlaces, Zenon
<1> HIDE DEF from
<1>3. C \in Chains /\ C[i] = c /\ \A m \in Buckets : m # i => C[m] = B[m]
  <2>1. PICK a \in Seq(Ent) : a = c
    BY <1>2, Zenon
  <2>2. C = [B EXCEPT ![i] = a]
    BY <2>1, Zenon DEF Cutting
  <2>3. B \in [Buckets -> Seq(Ent)]
    BY Zenon DEF Chains
  <2> HIDE DEF C, c
  <2> QED BY <2>1, <2>2, <2>3, Zenon DEF Chains
<1> HIDE DEF C, c
<1> DEFINE src(m, j) == IF m = i THEN from[j] ELSE j
<1>4. ASSUME NEW m \in Buckets, NEW j \in DOMAIN C[m]
      PROVE  /\ src(m, j) \in DOMAIN B[m] /\ C[m][j] = B[m][src(m, j)]
             /\ m = i => src(m, j) # x
  <2>1. CASE m = i
    BY <1>2, <1>3, <2>1, Zenon
  <2>2. CASE m # i
    BY <1>3, <2>2, Zenon
  <2> QED BY <2>1, <2>2, Zenon
<1>5. Single(C)
  <2> SUFFICES ASSUME NEW a \in Buckets, NEW b \in Buckets, NEW j \in DOMAIN C[a],
                      NEW l \in DOMAIN C[b], C[a][j].key = C[b][l].key
               PROVE  a = b /\ j = l
    BY Zenon DEF Single
  <2>1. PICK p \in DOMAIN B[a], q \in DOMAIN B[b] :
               /\ p = src(a, j) /\ q = src(b, l) /\ B[a][p] = C[a][j] /\ B[b][q] = C[b][l]
    <3>1. src(a, j) \in DOMAIN B[a] /\ C[a][j] = B[a][src(a, j)]
      BY <1>4, Zenon
    <3>2. src(b, l) \in DOMAIN B[b] /\ C[b][l] = B[b][src(b, l)]
      BY <1>4, Zenon
    <3> HIDE DEF src
    <3> QED BY <3>1, <3>2, Zenon
  <2>2. a = b /\ src(a, j) = src(b, l)
    <3> HIDE DEF src
    <3>1. B[a][p].key = B[b][q].key
      BY <2>1, Zenon
    <3>2. a = b /\ p = q
      BY <3>1 DEF Single
    <3> QED BY <2>1, <3>2, Zenon
  <2>3. CASE a = i
    BY <1>2, <1>3, <2>2, <2>3, Zenon
  <2>4. CASE a # i
    BY <2>2, <2>4, Zenon
  <2> QED BY <2>3, <2>4, Zenon
<1>6. Kept(B, C)
  <2> SUFFICES ASSUME NEW m \in Buckets, NEW j \in DOMAIN C[m]
               PROVE  \E l \in DOMAIN B[m] : C[m][j].key = B[m][l].key
    BY Zenon DEF Kept
  <2> HIDE DEF src
  <2> QED BY <1>4, Zenon
<1>7. ASSUME NEW e \in All(C) PROVE e \in All(B) /\ e.key # B[i][x].key
  <2>1. PICK m \in Buckets : \E j \in DOMAIN C[m] : e = C[m][j]
    BY <1>3, InAll, Zenon
  <2>2. PICK j \in DOMAIN C[m] : e = C[m][j]
    BY <2>1, Zenon
  <2>3. src(m, j) \in DOMAIN B[m] /\ e = B[m][src(m, j)] /\ (m = i => src(m, j) # x)
    BY <1>4, <2>2, Zenon
  <2> HIDE DEF src
  <2>4. PICK p \in DOMAIN B[m] : e = B[m][p] /\ (m = i => p # x)
    BY <2>3, Zenon
  <2>5. B[m][p].key # B[i][x].key
    BY <2>4, Zenon DEF Single
  <2> QED BY <2>4, <2>5, InAll, Zenon
<1>8. ASSUME NEW e \in All(B), e.key # B[i][x].key PROVE e \in All(C)
  <2>1. PICK m \in Buckets : \E j \in DOMAIN B[m] : e = B[m][j]
    BY InAll, Zenon
  <2>2. PICK j \in DOMAIN B[m] : e = B[m][j]
    BY <2>1, Zenon
  <2>3. \E l \in DOMAIN C[m] : C[m][l] = e
    <3>1. CASE m = i
      <4>1. j # x
        BY <1>8, <2>2, <3>1, Zenon
      <4>2. PICK l \in DOMAIN c : from[l] = j
        BY <1>2, <3>1, <4>1, Zenon
      <4>3. c[l] = B[i][j]
        BY <1>2, <4>2, Zenon
      <4> QED BY <1>3, <2>2, <3>1, <4>3, Zenon
    <3>2. CASE m # i
      BY <1>3, <2>2, <3>2, Zenon
    <3> QED BY <3>1, <3>2, Zenon
  <2> QED BY <1>3, <2>3, InAll, Zenon
<1>9. All(C) = {e \in All(B) : e.key # B[i][x].key}
  BY <1>7, <1>8, Zenon
<1> QED BY <1>3, <1>5, <1>6, <1>9, Zenon DEF C

Writing(B, i, x, e) == [B EXCEPT ![i] = [@ EXCEPT ![x] = e]]

\* An entry in the place of another of the same key.
LEMMA WriteChain ==
    ASSUME NEW B \in Chains, Single(B), NEW i \in Buckets, NEW x \in DOMAIN B[i],
           NEW e \in Ent, e.key = B[i][x].key
    PROVE  LET C == Writing(B, i, x, e)
           IN  /\ C \in Chains /\ Single(C) /\ Kept(B, C)
               /\ All(C) = {f \in All(B) : f.key # e.key} \cup {e}
<1> DEFINE C == Writing(B, i, x, e)
           c == [B[i] EXCEPT ![x] = e]
<1>1. B[i] \in Seq(Ent) /\ c \in Seq(Ent)
  BY InAll
<1>2. DOMAIN c = DOMAIN B[i] /\ c[x] = e /\ \A j \in DOMAIN B[i] : j # x => c[j] = B[i][j]
  BY Zenon
<1>3. C \in Chains /\ C[i] = c /\ \A m \in Buckets : m # i => C[m] = B[m]
  <2>1. PICK a \in Seq(Ent) : a = c
    BY <1>1, Zenon
  <2>2. C = [B EXCEPT ![i] = a]
    BY <2>1, Zenon DEF Writing
  <2>3. B \in [Buckets -> Seq(Ent)]
    BY Zenon DEF Chains
  <2> HIDE DEF C, c
  <2> QED BY <2>1, <2>2, <2>3, Zenon DEF Chains
<1> HIDE DEF C, c
<1>4. ASSUME NEW m \in Buckets
      PROVE  /\ DOMAIN C[m] = DOMAIN B[m]
             /\ \A j \in DOMAIN B[m] : IF m = i /\ j = x THEN C[m][j] = e ELSE C[m][j] = B[m][j]
             /\ \A j \in DOMAIN B[m] : C[m][j].key = B[m][j].key
  <2>1. CASE m = i
    BY <1>2, <1>3, <2>1, Zenon
  <2>2. CASE m # i
    BY <1>3, <2>2, Zenon
  <2> QED BY <2>1, <2>2, Zenon
<1>5. Single(C)
  <2> SUFFICES ASSUME NEW a \in Buckets, NEW b \in Buckets, NEW j \in DOMAIN C[a],
                      NEW l \in DOMAIN C[b], C[a][j].key = C[b][l].key
               PROVE  a = b /\ j = l
    BY Zenon DEF Single
  <2>1. j \in DOMAIN B[a] /\ l \in DOMAIN B[b]
    BY <1>4, Zenon
  <2>2. B[a][j].key = B[b][l].key
    BY <1>4, <2>1, Zenon
  <2> QED BY <2>1, <2>2 DEF Single
<1>6. Kept(B, C)
  BY <1>4, Zenon DEF Kept
<1>7. ASSUME NEW f \in All(C) PROVE f = e \/ (f \in All(B) /\ f.key # e.key)
  <2>1. PICK m \in Buckets : \E j \in DOMAIN C[m] : f = C[m][j]
    BY <1>3, InAll, Zenon
  <2>2. PICK j \in DOMAIN C[m] : f = C[m][j]
    BY <2>1, Zenon
  <2>3. CASE m = i /\ j = x
    BY <1>4, <2>2, <2>3, Zenon
  <2>4. CASE ~(m = i /\ j = x)
    <3>1. f = B[m][j] /\ j \in DOMAIN B[m]
      BY <1>4, <2>2, <2>4, Zenon
    <3>2. B[m][j].key # B[i][x].key
      BY <2>4, <3>1 DEF Single
    <3> QED BY <3>1, <3>2, InAll, Zenon
  <2> QED BY <2>3, <2>4, Zenon
<1>8. ASSUME NEW f \in All(B), f.key # e.key PROVE f \in All(C)
  <2>1. PICK m \in Buckets : \E j \in DOMAIN B[m] : f = B[m][j]
    BY InAll, Zenon
  <2>2. PICK j \in DOMAIN B[m] : f = B[m][j]
    BY <2>1, Zenon
  <2>3. j \in DOMAIN C[m] /\ C[m][j] = f
    BY <1>4, <1>8, <2>2, Zenon
  <2> QED BY <1>3, <2>3, InAll, Zenon
<1>9. e \in All(C)
  <2>1. x \in DOMAIN C[i] /\ C[i][x] = e
    BY <1>4, Zenon
  <2>2. C[i][x] \in All(C)
    BY <1>3, <2>1, InAll, Zenon
  <2> QED BY <2>1, <2>2, Zenon
<1>10. All(C) = {f \in All(B) : f.key # e.key} \cup {e}
  BY <1>7, <1>8, <1>9, Zenon
<1> QED BY <1>3, <1>5, <1>6, <1>10, Zenon DEF C

\* Only these fields of a table matter to its entries.
LEMMA TableLike ==
    ASSUME NEW t, TableOK(t), NEW u \in Tables, Alike(t, u), u.buckets = t.buckets
    PROVE  TableOK(u) /\ Entries(u) = Entries(t)
  BY EntriesAll, Zenon
     DEF TableOK, Filed, Placed, Sized, RehashOK, Rehashing, Belongs, Alike

\* The objects a rehash has dropped are kept in two sets of their own.
LEMMA LostFacts ==
    ASSUME NEW t, TableOK(t), NEW A \in SUBSET Nat
    PROVE  LET u == [t EXCEPT !.lost = A]
           IN  /\ TableOK(u) /\ Entries(u) = Entries(t)
               /\ u.lost = A /\ u.dropped = t.dropped
<1> DEFINE u == [t EXCEPT !.lost = A]
<1>1. t \in Tables
  BY Zenon DEF TableOK, Filed
<1> HIDE DEF Chains
<1>2. u \in Tables /\ Alike(t, u) /\ u.buckets = t.buckets /\ u.lost = A /\ u.dropped = t.dropped
  BY <1>1 DEF Tables, Alike
<1> HIDE DEF u
<1> QED BY <1>2, TableLike, Zenon DEF u

\* The mark of dropped entries has no part in the order of the table.
LEMMA DroppedFacts ==
    ASSUME NEW t, TableOK(t), NEW A \in SUBSET Nat
    PROVE  LET u == [t EXCEPT !.dropped = A]
           IN  /\ TableOK(u) /\ Entries(u) = Entries(t)
               /\ u.lost = t.lost /\ u.dropped = A
<1> DEFINE u == [t EXCEPT !.dropped = A]
<1>1. t \in Tables
  BY Zenon DEF TableOK, Filed
<1> HIDE DEF Chains
<1>2. u \in Tables /\ Alike(t, u) /\ u.buckets = t.buckets /\ u.lost = t.lost /\ u.dropped = A
  BY <1>1 DEF Tables, Alike
<1> HIDE DEF u
<1> QED BY <1>2, TableLike, Zenon DEF u

\* ht_bucket_node_unlink: the entry of the key is gone, the others stay.
LEMMA UnlinkFacts ==
    ASSUME NEW t, TableOK(t), NEW k \in Keys, NEW p, Found(t.buckets, k, p)
    PROVE  LET u == Unlink(t, p)
           IN  /\ TableOK(u) /\ Entries(u) = {e \in Entries(t) : e.key # k}
               /\ u.lost = t.lost /\ u.dropped = t.dropped
<1> DEFINE B == t.buckets
           u == Unlink(t, p)
           C == u.buckets
<1>1. t \in Tables /\ B \in Chains /\ Single(B) /\ t.used \in Int /\ t.ovf_free \in Int
  BY TableTyped, Zenon DEF TableOK, Filed
<1>2. PICK i \in Buckets : \E j \in DOMAIN B[i] : p = <<i, j>> /\ B[i][j].key = k
  BY Zenon DEF Found
<1>3. PICK j \in DOMAIN B[i] : p = <<i, j>> /\ B[i][j].key = k
  BY <1>2, Zenon
<1>4. p[1] = i /\ p[2] = j
  BY <1>3
<1>5. PICK b : b = Cutting(B, i, j)
  OBVIOUS
<1>6. b \in Chains /\ Single(b) /\ Kept(B, b) /\ All(b) = {e \in All(B) : e.key # k}
  <2>1. LET c == Cutting(B, i, j)
        IN  /\ c \in Chains /\ Single(c) /\ Kept(B, c)
            /\ All(c) = {e \in All(B) : e.key # B[i][j].key}
    BY <1>1, CutChain, Zenon
  <2> QED BY <1>3, <1>5, <2>1
<1>7. PICK n \in Int, m \in Int : u = [t EXCEPT !.buckets = b, !.used = n, !.ovf_free = m]
  <2>1. PICK n \in Int : n = t.used - 1
    BY <1>1
  <2>2. PICK m \in Int : m = IF Len(B[p[1]]) > 1 THEN t.ovf_free + 1 ELSE t.ovf_free
    BY <1>1
  <2>3. [B EXCEPT ![p[1]] = Cut(B[p[1]], p[2])] = b
    BY <1>4, <1>5 DEF Cutting
  <2> HIDE DEF B
  <2>4. [t EXCEPT !.buckets = b].used = t.used
    BY DEF Tables
  <2>5. u = [t EXCEPT !.buckets = b, !.used = n, !.ovf_free = m]
    BY <2>1, <2>2, <2>3, <2>4, Zenon DEF Unlink, B
  <2> QED BY <2>5, Zenon
<1> HIDE DEF u, Chains, B
<1>8. /\ u \in Tables /\ Alike(t, u) /\ C = b /\ u.lost = t.lost /\ u.dropped = t.dropped
  BY <1>1, <1>6, <1>7, Zenon DEF Tables, Alike
<1>9. TableOK(u)
  <2> QED BY <1>6, <1>8, KeptOK, Zenon DEF B
<1>10. Entries(u) = {e \in Entries(t) : e.key # k}
  BY <1>6, <1>8, EntriesAll, Zenon DEF B
<1> QED BY <1>8, <1>9, <1>10, Zenon DEF u

Over(t, p, e) == [t EXCEPT !.buckets[p[1]][p[2]] = e]

\* An entry of the key k is written over the one that lookup has found.
LEMMA WriteFacts ==
    ASSUME NEW t, TableOK(t), NEW k \in Keys, NEW p, Found(t.buckets, k, p), NEW e \in Ent, e.key = k
    PROVE  LET u == Over(t, p, e)
           IN  /\ TableOK(u) /\ Entries(u) = {f \in Entries(t) : f.key # k} \cup {e}
               /\ u.lost = t.lost /\ u.dropped = t.dropped
<1> DEFINE B == t.buckets
           u == Over(t, p, e)
           C == u.buckets
<1>1. t \in Tables /\ B \in Chains /\ Single(B)
  BY TableTyped, Zenon DEF TableOK, Filed
<1>2. PICK i \in Buckets : \E j \in DOMAIN B[i] : p = <<i, j>> /\ B[i][j].key = k
  BY Zenon DEF Found
<1>3. PICK j \in DOMAIN B[i] : p = <<i, j>> /\ B[i][j].key = k
  BY <1>2, Zenon
<1>4. p[1] = i /\ p[2] = j
  BY <1>3
<1>5. PICK b : b = Writing(B, i, j, e)
  OBVIOUS
<1>6. b \in Chains /\ Single(b) /\ Kept(B, b) /\ All(b) = {f \in All(B) : f.key # k} \cup {e}
  <2>1. LET c == Writing(B, i, j, e)
        IN  /\ c \in Chains /\ Single(c) /\ Kept(B, c)
            /\ All(c) = {f \in All(B) : f.key # e.key} \cup {e}
    <3>1. e.key = B[i][j].key
      BY <1>3, Zenon
    <3> HIDE DEF B
    <3> QED BY <1>1, <3>1, WriteChain
  <2> QED BY <1>5, <2>1, SMTT(40)
<1>7. u = [t EXCEPT !.buckets = b]
  <2>1. [B EXCEPT ![p[1]] = [B[p[1]] EXCEPT ![p[2]] = e]] = b
    BY <1>4, <1>5 DEF Writing
  <2> QED BY <2>1, Zenon DEF Over
<1> HIDE DEF u, Chains, B
<1>8. /\ u \in Tables /\ Alike(t, u) /\ C = b /\ u.lost = t.lost /\ u.dropped = t.dropped
  BY <1>1, <1>6, <1>7 DEF Tables, Alike
<1>9. TableOK(u)
  BY <1>6, <1>8, KeptOK, Zenon DEF B
<1>10. Entries(u) = {f \in Entries(t) : f.key # k} \cup {e}
  BY <1>6, <1>8, EntriesAll, Zenon DEF B
<1> QED BY <1>8, <1>9, <1>10, Zenon DEF u

\* u is t without the key k.
Cleared(t, u, k) ==
    /\ TableOK(u) /\ Entries(u) = {e \in Entries(t) : e.key # k}
    /\ u.lost = t.lost /\ u.dropped = t.dropped

\* ht_bucket_take.
LEMMA TakeFacts ==
    ASSUME NEW t, TableOK(t), NEW k \in Keys
    PROVE  Cleared(t, Take(t, k), k)
<1> DEFINE p == Locate(t, k)
<1>1. /\ p = Nowhere => \A e \in Entries(t) : e.key # k
      /\ p # Nowhere => Found(t.buckets, k, p)
  BY LocateFacts, Zenon
<1>2. CASE p = Nowhere
  <2>1. Take(t, k) = t
    BY <1>2, Zenon DEF Take
  <2>2. Entries(t) = {e \in Entries(t) : e.key # k}
    BY <1>1, <1>2, Zenon
  <2> QED BY <2>1, <2>2, Zenon DEF Cleared
<1>3. CASE p # Nowhere
  <2>1. Take(t, k) = Unlink(t, p)
    BY <1>3, Zenon DEF Take
  <2> HIDE DEF p
  <2>2. Cleared(t, Unlink(t, p), k)
    BY <1>1, <1>3, UnlinkFacts, Zenon DEF Cleared
  <2> QED BY <2>1, <2>2, Zenon
<1> QED BY <1>2, <1>3, Zenon

\* ht_bucket_take_if_unlocked: it takes the entry of the object o, it says that
\* the entry is locked, or there is no entry of the key with this object.
LEMMA TakeIfUnlockedFacts ==
    ASSUME NEW t, TableOK(t), NEW k \in Keys, NEW o
    PROVE  LET r == TakeIfUnlocked(t, k, o)
           IN  /\ r.taken \in BOOLEAN /\ r.locked \in BOOLEAN /\ ~(r.taken /\ r.locked)
               /\ r.taken => /\ Cleared(t, r.t, k)
                             /\ \E e \in Entries(t) : e.key = k /\ e.obj = o /\ ~e.locked
               /\ r.locked => \E e \in Entries(t) : e.key = k /\ e.obj = o /\ e.locked
               /\ ~r.taken /\ ~r.locked => \A e \in Entries(t) : e.key = k => e.obj # o
<1> DEFINE p == Locate(t, k)
           r == TakeIfUnlocked(t, k, o)
           e == At(t, p)
           none == [taken |-> FALSE, locked |-> FALSE, t |-> t]
<1>1. /\ p = Nowhere => \A f \in Entries(t) : f.key # k
      /\ p # Nowhere => Found(t.buckets, k, p)
  BY LocateFacts, Zenon
<1>2. CASE p = Nowhere
  <2>1. r = none
    BY <1>2, Zenon DEF TakeIfUnlocked
  <2>2. r.taken = FALSE /\ r.locked = FALSE
    BY <2>1
  <2> QED BY <1>1, <1>2, <2>2, Zenon
<1>3. CASE p # Nowhere
  <2>1. /\ e \in Entries(t) /\ e \in Ent /\ e.key = k
        /\ \A f \in Entries(t) : f.key = k => f = e
    BY <1>1, <1>3, FoundFacts, Zenon
  <2>3. Cleared(t, Unlink(t, p), k)
    BY <1>1, <1>3, UnlinkFacts, Zenon DEF Cleared
  <2>4. r = CASE e.obj # o -> none
              [] e.obj = o /\ e.locked -> [none EXCEPT !.locked = TRUE]
              [] OTHER -> [none EXCEPT !.taken = TRUE, !.t = Unlink(t, p)]
    BY <1>3, Zenon DEF TakeIfUnlocked
  <2> HIDE DEF r, e
  <2>5. CASE e.obj # o
    <3>1. r = none
      BY <2>4, <2>5, Zenon
    <3>2. r.taken = FALSE /\ r.locked = FALSE
      BY <3>1
    <3> QED BY <2>1, <2>5, <3>2, Zenon DEF r
  <2>6. CASE e.obj = o /\ e.locked
    <3>1. r = [none EXCEPT !.locked = TRUE]
      BY <2>4, <2>6, Zenon
    <3>2. r.taken = FALSE /\ r.locked = TRUE
      BY <3>1
    <3> QED BY <2>1, <2>6, <3>2, Zenon DEF r
  <2>7. CASE e.obj = o /\ ~e.locked
    <3>1. r = [none EXCEPT !.taken = TRUE, !.t = Unlink(t, p)]
      BY <2>4, <2>7, Zenon
    <3>2. r.taken = TRUE /\ r.locked = FALSE /\ r.t = Unlink(t, p)
      BY <3>1
    <3> QED BY <2>1, <2>3, <2>7, <3>2, Zenon DEF r
  <2> QED BY <2>5, <2>6, <2>7, Zenon
<1> QED BY <1>2, <1>3, Zenon

\* u is t with the lock of k set to v.
Relocked(t, u, k, v) ==
    /\ TableOK(u) /\ u.lost = t.lost /\ u.dropped = t.dropped
    /\ \A e \in Entries(t) : e.key # k => e \in Entries(u)
    /\ \A e \in Entries(t) : e.key = k => [e EXCEPT !.locked = v] \in Entries(u)
    /\ \A f \in Entries(u) : \/ f \in Entries(t) /\ f.key # k
                             \/ \E e \in Entries(t) : e.key = k /\ f = [e EXCEPT !.locked = v]

\* ht_bucket_set_lock_status.
LEMMA SetLockFacts ==
    ASSUME NEW t, TableOK(t), NEW k \in Keys, NEW v \in BOOLEAN
    PROVE  Relocked(t, SetLockStatus(t, k, v), k, v)
<1> DEFINE p == Locate(t, k)
           e == At(t, p)
           u == SetLockStatus(t, k, v)
<1>1. /\ p = Nowhere => \A f \in Entries(t) : f.key # k
      /\ p # Nowhere => Found(t.buckets, k, p)
  BY LocateFacts, Zenon
<1>2. CASE p = Nowhere
  <2>1. u = t
    BY <1>2, Zenon DEF SetLockStatus
  <2> QED BY <1>1, <1>2, <2>1, Zenon DEF Relocked
<1>3. CASE p # Nowhere
  <2>1. /\ e \in Entries(t) /\ e \in Ent /\ e.key = k
        /\ \A f \in Entries(t) : f.key = k => f = e
    BY <1>1, <1>3, FoundFacts, Zenon
  <2>2. PICK g : g = [e EXCEPT !.locked = v]
    BY Zenon
  <2>3. g \in Ent /\ g.key = k
    <3> HIDE DEF e
    <3> QED BY <2>1, <2>2 DEF Ent
  <2>4. u = [t EXCEPT !.buckets[p[1]][p[2]].locked = v]
    BY <1>3, Zenon DEF SetLockStatus
  <2>5. u = Over(t, p, g)
    BY <2>2, <2>4, Zenon DEF At, Over
  <2> HIDE DEF u, e, p
  <2>6. /\ TableOK(u) /\ Entries(u) = {f \in Entries(t) : f.key # k} \cup {g}
        /\ u.lost = t.lost /\ u.dropped = t.dropped
    <3>1. LET w == Over(t, p, g)
          IN  /\ TableOK(w) /\ Entries(w) = {f \in Entries(t) : f.key # k} \cup {g}
              /\ w.lost = t.lost /\ w.dropped = t.dropped
      BY <1>1, <1>3, <2>3, WriteFacts
    <3> QED BY <2>5, <3>1
  <2>7. \A f \in Entries(t) : f.key = k => [f EXCEPT !.locked = v] = g
    BY <2>1, <2>2, Zenon
  <2> QED BY <2>1, <2>2, <2>6, <2>7, Zenon DEF Relocked, u
<1> QED BY <1>2, <1>3, Zenon

\* The entry e has taken the place of the key's entry, or there was none and e
\* is added, or there was none and no overflow bucket for e either.
PutIn(u, e, ok, old, w) ==
    LET had == {f \in Entries(u) : f.key = e.key}
    IN  /\ TableOK(w) /\ ok \in BOOLEAN
        /\ ok => /\ Entries(w) = {f \in Entries(u) : f.key # e.key} \cup {e}
                 /\ w.lost = u.lost \ {e.obj} /\ w.dropped = u.dropped
        /\ ~ok => w = u /\ had = {}
        /\ IF had = {} THEN old = NoObj ELSE \E f \in had : old = f.obj

\* ht_bucket_put: first a rehash may have dropped some entries.
PutDone(t, e, ok, old, w, u, D) == TableOK(u) /\ Shed(t, u, D) /\ PutIn(u, e, ok, old, w)

\* ht_bucket_put keeps the table in order, whether or not there is room.
LEMMA PutFacts ==
    ASSUME NatInductive, NEW t, TableOK(t), NEW e \in Ent, NEW room \in BOOLEAN
    PROVE  LET r == Put(t, e, room)
           IN  \E u, D : PutDone(t, e, r.ok, r.old, r.t, u, D)
<1> DEFINE k == e.key
           v == IF t.rehash_idx >= 0 THEN RehashTick(t, room) ELSE t
           u == RehashStart(v, room)
           p == Locate(u, k)
           r == Put(t, e, room)
<1>1. k \in Keys
  BY DEF Ent
<1>2. PICK D : TableOK(v) /\ Shed(t, v, D)
  <2>1. CASE t.rehash_idx >= 0
    <3>1. v = RehashTick(t, room)
      BY <2>1, Zenon
    <3> HIDE DEF v
    <3> QED BY <2>1, <3>1, RehashTickFacts, Zenon
  <2>2. CASE ~(t.rehash_idx >= 0)
    <3>1. v = t
      BY <2>2, Zenon
    <3> HIDE DEF v
    <3> QED BY <3>1, ShedNone, Zenon
  <2> QED BY <2>1, <2>2, Zenon
<1> HIDE DEF v
<1>3. TableOK(u) /\ Entries(u) = Entries(v) /\ u.lost = v.lost /\ u.dropped = v.dropped
  BY <1>2, RehashStartFacts, Zenon
<1> HIDE DEF u
<1>4. Shed(t, u, D)
  BY <1>2, <1>3, Zenon DEF Shed
<1> DEFINE in(w) == [w EXCEPT !.lost = @ \ {e.obj}]
           i == ChainInsert(u, Index(k, u.cap), e, room)
<1>6. r = IF p = Nowhere
          THEN IF i.ok THEN [ok |-> TRUE, old |-> NoObj, t |-> in([i.t EXCEPT !.used = @ + 1])]
               ELSE [ok |-> FALSE, old |-> NoObj, t |-> i.t]
          ELSE [ok |-> TRUE, old |-> At(u, p).obj, t |-> in(Over(u, p, e))]
  BY Zenon DEF Put, u, v, Over
<1>7. /\ p = Nowhere => \A f \in Entries(u) : f.key # k
      /\ p # Nowhere => Found(u.buckets, k, p)
  BY <1>1, <1>3, LocateFacts, Zenon
<1>8. ASSUME NEW w, TableOK(w)
      PROVE  /\ TableOK(in(w)) /\ Entries(in(w)) = Entries(w)
             /\ in(w).lost = w.lost \ {e.obj} /\ in(w).dropped = w.dropped
  <2>1. PICK A : A = w.lost \ {e.obj}
    BY Zenon
  <2>2. A \in SUBSET Nat
    <3>1. w.lost \in SUBSET Nat
      BY <1>8, TableTyped, Zenon DEF TableOK, Filed
    <3> QED BY <2>1, <3>1
  <2>3. LET x == [w EXCEPT !.lost = A]
        IN  TableOK(x) /\ Entries(x) = Entries(w) /\ x.lost = A /\ x.dropped = w.dropped
    BY <1>8, <2>2, LostFacts, Zenon
  <2> QED BY <2>1, <2>3
<1> HIDE DEF in, r, p
<1>9. CASE p = Nowhere
  <2>1. {f \in Entries(u) : f.key = e.key} = {}
    BY <1>7, <1>9, Zenon
  <2>2. /\ i.ok \in BOOLEAN
        /\ i.ok => Filed(i.t) /\ Steady(u, i.t) /\ Entries(i.t) = Entries(u) \cup {e}
        /\ ~i.ok => i.t = u
    <3>1. \A f \in Entries(u) : f.key # e.key
      BY <1>7, <1>9, Zenon
    <3>2. Filed(u)
      BY <1>3, Zenon DEF TableOK
    <3> QED BY <3>1, <3>2, InsertFacts, Zenon
  <2> HIDE DEF i
  <2>3. CASE i.ok
    <3>1. PICK w : w = [i.t EXCEPT !.used = @ + 1]
      BY Zenon
    <3>2. r = [ok |-> TRUE, old |-> NoObj, t |-> in(w)]
      BY <1>6, <1>9, <2>3, <3>1, Zenon
    <3>3. r.ok = TRUE /\ r.old = NoObj /\ r.t = in(w)
      BY <3>2
    <3>4. i.t \in Tables /\ TableOK(i.t)
      BY <1>3, <2>2, <2>3, Zenon DEF Filed, TableOK, RehashOK, Rehashing, Steady
    <3>5. TableOK(w) /\ Entries(w) = Entries(i.t) /\ w.lost = i.t.lost /\ w.dropped = i.t.dropped
      <4>1. PICK n \in Int : n = i.t.used + 1
        <5>1. i.t.used \in Int
          BY <3>4, TableTyped, Zenon
        <5> QED BY <5>1
      <4>2. w = [i.t EXCEPT !.used = n]
        BY <3>1, <4>1, Zenon
      <4>3. /\ w \in Tables /\ Alike(i.t, w) /\ w.buckets = i.t.buckets
            /\ w.lost = i.t.lost /\ w.dropped = i.t.dropped
        <5> HIDE DEF Chains
        <5> QED BY <3>4, <4>2 DEF Tables, Alike
      <4> QED BY <3>4, <4>3, TableLike, Zenon
    <3>6. i.t.lost = u.lost /\ i.t.dropped = u.dropped
      BY <2>2, <2>3, Zenon DEF Steady
    <3>7. /\ TableOK(r.t) /\ Entries(r.t) = Entries(u) \cup {e}
          /\ r.t.lost = u.lost \ {e.obj} /\ r.t.dropped = u.dropped
      <4>1. /\ TableOK(in(w)) /\ Entries(in(w)) = Entries(w)
            /\ in(w).lost = w.lost \ {e.obj} /\ in(w).dropped = w.dropped
        BY <1>8, <3>5, Zenon
      <4> QED BY <2>2, <2>3, <3>3, <3>5, <3>6, <4>1
    <3>8. Entries(u) = {f \in Entries(u) : f.key # e.key}
      BY <1>7, <1>9, Zenon
    <3>9. PutIn(u, e, r.ok, r.old, r.t)
      BY <3>3, <3>7, <3>8, Zenon DEF PutIn
    <3> QED BY <1>3, <1>4, <3>9, Zenon DEF r, PutDone
  <2>4. CASE ~i.ok
    <3>1. r = [ok |-> FALSE, old |-> NoObj, t |-> u]
      BY <1>6, <1>9, <2>2, <2>4, Zenon
    <3>2. r.ok = FALSE /\ r.old = NoObj /\ r.t = u
      BY <3>1
    <3>3. PutIn(u, e, r.ok, r.old, r.t)
      BY <1>3, <2>1, <3>2, Zenon DEF PutIn
    <3> QED BY <1>3, <1>4, <3>3, Zenon DEF r, PutDone
  <2> QED BY <2>3, <2>4, Zenon
<1>10. CASE p # Nowhere
  <2> DEFINE w == Over(u, p, e)
             f == At(u, p)
  <2>1. r = [ok |-> TRUE, old |-> f.obj, t |-> in(w)]
    BY <1>6, <1>10, Zenon
  <2>2. r.ok = TRUE /\ r.old = f.obj /\ r.t = in(w)
    BY <2>1
  <2>3. /\ TableOK(w) /\ Entries(w) = {g \in Entries(u) : g.key # k} \cup {e}
        /\ w.lost = u.lost /\ w.dropped = u.dropped
    BY <1>1, <1>3, <1>7, <1>10, WriteFacts, Zenon
  <2>4. f \in Entries(u) /\ f.key = k
    BY <1>1, <1>3, <1>7, <1>10, FoundFacts
  <2> HIDE DEF w, f
  <2>5. /\ TableOK(r.t) /\ Entries(r.t) = {g \in Entries(u) : g.key # e.key} \cup {e}
        /\ r.t.lost = u.lost \ {e.obj} /\ r.t.dropped = u.dropped
    <3>1. /\ TableOK(in(w)) /\ Entries(in(w)) = Entries(w)
          /\ in(w).lost = w.lost \ {e.obj} /\ in(w).dropped = w.dropped
      BY <1>8, <2>3, Zenon
    <3> QED BY <2>2, <2>3, <3>1
  <2>6. f \in {g \in Entries(u) : g.key = e.key}
    BY <2>4, Zenon
  <2>7. PutIn(u, e, r.ok, r.old, r.t)
    BY <2>2, <2>5, <2>6, Zenon DEF PutIn
  <2> QED BY <1>3, <1>4, <2>7, Zenon DEF r, PutDone
<1> QED BY <1>9, <1>10, Zenon

\* An empty table has no entries.
LEMMA EmptyChains ==
    LET B == [i \in Buckets |-> << >>]
    IN  B \in Chains /\ Single(B) /\ All(B) = {}
<1> DEFINE B == [i \in Buckets |-> << >>]
<1>1. \A i \in Buckets : B[i] = << >> /\ DOMAIN B[i] = {} /\ Range(B[i]) = {}
  BY DEF Range
<1>2. B \in Chains
  <2>1. << >> \in Seq(Ent)
    OBVIOUS
  <2> QED BY <2>1, Zenon DEF Chains
<1> HIDE DEF B
<1>3. Single(B) /\ All(B) = {}
  BY <1>1, Zenon DEF Single, All
<1> QED BY <1>2, <1>3, Zenon DEF B

\* ht_table_create and ht_table_flush.
LEMMA NewTableFacts ==
    TableOK(NewTable) /\ Entries(NewTable) = {} /\ NewTable.lost = {} /\ NewTable.dropped = {}
<1> DEFINE t == NewTable
<1>1. PICK b : b = [i \in Buckets |-> << >>]
  BY Zenon
<1>2. b \in Chains /\ Single(b) /\ All(b) = {} /\ \A i \in Buckets : DOMAIN b[i] = {}
  <2>1. \A i \in Buckets : DOMAIN b[i] = {}
    BY <1>1
  <2> QED BY <1>1, <2>1, EmptyChains
<1>3. t = [buckets |-> b, cap |-> InitCap, old_cap |-> 0, used |-> 0,
           rehash_idx |-> -1, rehash_disabled |-> FALSE,
           ovf_pool_cap |-> InitOvf, ovf_free |-> InitOvf, lost |-> {}, dropped |-> {}]
  BY <1>1, Zenon DEF NewTable
<1> HIDE DEF t, Chains
<1>4. /\ t \in Tables /\ t.buckets = b /\ t.cap = InitCap /\ t.rehash_idx = -1
      /\ t.lost = {} /\ t.dropped = {}
  BY <1>2, <1>3, HtableAssumption DEF Tables
<1>5. Placed(t)
  BY <1>2, <1>4, Zenon DEF Placed
<1>6. TableOK(t)
  BY <1>2, <1>4, <1>5, HtableAssumption, Zenon DEF TableOK, Filed, Sized, RehashOK
<1> QED BY <1>2, <1>4, <1>6, EntriesAll, Zenon DEF t

\* ht_table_flush leaves an empty table.
LEMMA FlushTableFacts ==
    ASSUME NEW t, TableOK(t), OvfUsed(t) \in Int
    PROVE  LET u == FlushTable(t)
           IN  TableOK(u) /\ Entries(u) = {} /\ u.lost = t.lost /\ u.dropped = t.dropped
<1> DEFINE u == FlushTable(t)
<1>1. PICK b : b = [i \in Buckets |-> << >>]
  BY Zenon
<1>2. b \in Chains /\ Single(b) /\ All(b) = {} /\ \A i \in Buckets : DOMAIN b[i] = {}
  <2>1. \A i \in Buckets : DOMAIN b[i] = {}
    BY <1>1
  <2> QED BY <1>1, <2>1, EmptyChains
<1>3. t \in Tables /\ Sized(t)
  BY Zenon DEF TableOK, Filed
<1>4. PICK n \in Int : n = t.ovf_free + OvfUsed(t)
  <2>1. t.ovf_free \in Int
    BY <1>3, TableTyped, Zenon
  <2> QED BY <2>1
<1>5. u = [t EXCEPT !.buckets = b, !.ovf_free = n, !.old_cap = 0, !.rehash_idx = -1, !.used = 0]
  <2>1. [t EXCEPT !.buckets = b].ovf_free = t.ovf_free
    BY DEF Tables
  <2> QED BY <1>1, <1>4, <2>1 DEF FlushTable
<1> HIDE DEF u, Chains
<1>6. u \in Tables
  <2>1. PICK a \in Nat, c \in Int, z \in Int : a = 0 /\ c = -1 /\ z = 0
    OBVIOUS
  <2>2. u = [t EXCEPT !.buckets = b, !.ovf_free = n, !.old_cap = a, !.rehash_idx = c, !.used = z]
    BY <1>5, <2>1, Zenon
  <2> QED BY <1>2, <1>3, <2>2, Zenon DEF Tables
<1>7. u.buckets = b /\ u.cap = t.cap /\ u.rehash_idx = -1 /\ u.lost = t.lost /\ u.dropped = t.dropped
  BY <1>5 DEF Tables
<1>8. Placed(u)
  BY <1>2, <1>7, Zenon DEF Placed
<1>9. TableOK(u)
  BY <1>2, <1>3, <1>6, <1>7, <1>8, Zenon DEF TableOK, Filed, Sized, RehashOK
<1> QED BY <1>2, <1>7, <1>9, EntriesAll, Zenon DEF u

---------------------------------------------------------------------------
(* The invariant.  An operation has objects in hand that are not yet, or no *)
(* longer, where they belong: L.  The MSET of a key of K is about to end.   *)

Classes == 0..NrClasses-1
Lists == [Classes -> Seq(Objs)]
MsetType == [Keys -> [new : Nat, old : Nat]]
Ttls == [heap : Seq(Node), heap_idx : [Objs -> Nat]]
Mem == [table : Tables, ttl : Ttls, lru : Lists, key : [Objs -> Keys \cup {NoKey}]]

InTable(t, o) == \E e \in Entries(t) : e.obj = o

\* Every list holds objects of its class, each once.
Listed(list, key) ==
    \A c \in Classes : /\ IsInjective(list[c])
                       /\ \A o \in Range(list[c]) : key[o] # NoKey /\ Class[key[o]] = c

\* What an MSET m that is in progress on the key k has locked.
Held(t, ttl, key, m, k) ==
    /\ m.new \in Objs /\ key[m.new] = k /\ NodeAt(ttl, m.new) = 0
    /\ m.old # NoObj => m.old \in Objs /\ key[m.old] = k /\ m.old # m.new
    /\ \A e \in Entries(t) : e.key = k =>
          e.locked /\ e.obj = IF m.old = NoObj THEN m.new ELSE m.old

\* An entry is of an object with its key.
Owned(t, key) == \A e \in Entries(t) : e.obj \in Objs /\ key[e.obj] = e.key

\* The TTL index has the time of every entry, and of no object that is freed.
Timed(t, ttl, L) == \A e \in Entries(t) : e.obj \notin L => e.expire = NodeAt(ttl, e.obj)
Alive(ttl, key) == \A o \in Objs : NodeAt(ttl, o) # 0 => key[o] # NoKey

\* An object is in the table, unless an MSET or a rehash has it.
Reached(t, key, ms, L) ==
    \A o \in Objs : key[o] # NoKey /\ o \notin L =>
        InTable(t, o) \/ o = ms[key[o]].new \/ o \in t.lost

\* The object of a key that commands can see is on a list.
Evictable(t, lru, ms, L) ==
    \A e \in Entries(t) : e.obj \notin L /\ e.obj \notin t.dropped /\ ms[e.key] = NoMset =>
        e.obj \in Range(lru[Class[e.key]])

Locking(t, ttl, key, ms, K) ==
    \A k \in Keys : k \notin K /\ ms[k] # NoMset => Held(t, ttl, key, ms[k], k)

\* The fields of the shard's memory, each as it has to be with the others.
Agree(t, ttl, lru, key, ms, L, K) ==
    /\ TableOK(t) /\ HeapOK(ttl) /\ Listed(lru, key) /\ Owned(t, key) /\ Timed(t, ttl, L)
    /\ Alive(ttl, key) /\ Reached(t, key, ms, L) /\ Evictable(t, lru, ms, L)
    /\ Locking(t, ttl, key, ms, K)

Core(g, ms, L, K) ==
    /\ g \in Mem /\ ms \in MsetType
    /\ Agree(g.table, g.ttl, g.lru, g.key, ms, L, K)

KInv == Core(ks, mset, {}, {})

---------------------------------------------------------------------------
(* The lists *)

\* lru_node_remove of a list that the object is on at most once.
LEMMA WithoutFacts ==
    ASSUME NEW l \in Seq(Objs), IsInjective(l), NEW o
    PROVE  /\ Without(l, o) \in Seq(Objs) /\ IsInjective(Without(l, o))
           /\ Range(Without(l, o)) = Range(l) \ {o}
<1> DEFINE at == {i \in DOMAIN l : l[i] = o}
<1>1. CASE at = {}
  <2>1. Without(l, o) = l
    BY <1>1, Zenon DEF Without
  <2>2. Range(l) = Range(l) \ {o}
    BY <1>1, Zenon DEF Range
  <2> QED BY <2>1, <2>2, Zenon
<1>2. CASE at # {}
  <2>1. PICK i \in at : Without(l, o) = Cut(l, i)
    BY <1>2, Zenon DEF Without
  <2>2. i \in DOMAIN l /\ l[i] = o
    BY Zenon
  <2> DEFINE c == Cut(l, i)
             from == [j \in DOMAIN c |-> IF j < i THEN j ELSE j + 1]
  <2>3. /\ c \in Seq(Objs)
        /\ \A j \in DOMAIN c : from[j] \in DOMAIN l /\ from[j] # i /\ c[j] = l[from[j]]
        /\ \A j, k \in DOMAIN c : from[j] = from[k] => j = k
        /\ \A m \in DOMAIN l : m # i => \E j \in DOMAIN c : from[j] = m
    BY <2>2, CutPlaces, Zenon
  <2> HIDE DEF c, from, at
  <2>4. IsInjective(c)
    BY <2>3, SMTT(40) DEF IsInjective
  <2>5. Range(c) = Range(l) \ {o}
    <3>1. ASSUME NEW x \in Range(c) PROVE x \in Range(l) /\ x # o
      <4>1. PICK j \in DOMAIN c : x = c[j]
        BY Zenon DEF Range
      <4>2. PICK m \in DOMAIN l : m # i /\ x = l[m]
        BY <2>3, <4>1, Zenon
      <4> QED BY <2>2, <4>2, Zenon DEF Range, IsInjective
    <3>2. ASSUME NEW x \in Range(l), x # o PROVE x \in Range(c)
      <4>1. PICK m \in DOMAIN l : x = l[m]
        BY Zenon DEF Range
      <4>2. m # i
        BY <2>2, <3>2, <4>1, Zenon
      <4>3. PICK j \in DOMAIN c : from[j] = m
        BY <2>3, <4>2, Zenon
      <4>4. x = c[j]
        BY <2>3, <4>1, <4>3, Zenon
      <4> QED BY <4>4, Zenon DEF Range
    <3> QED BY <3>1, <3>2, Zenon
  <2> QED BY <2>1, <2>3, <2>4, <2>5, Zenon DEF c
<1> QED BY <1>1, <1>2, Zenon

\* lru_node_prepend.
LEMMA HeadFacts ==
    ASSUME NEW l \in Seq(Objs), IsInjective(l), NEW o \in Objs, o \notin Range(l)
    PROVE  /\ <<o>> \o l \in Seq(Objs) /\ IsInjective(<<o>> \o l)
           /\ Range(<<o>> \o l) = Range(l) \cup {o}
<1> DEFINE m == <<o>> \o l
<1>1. PICK n \in Nat : n = Len(l) /\ DOMAIN l = 1..n
  OBVIOUS
<1>2. m \in Seq(Objs) /\ DOMAIN m = 1..n+1 /\ m[1] = o /\ \A j \in 1..n : m[j + 1] = l[j]
  BY <1>1
<1> HIDE DEF m
<1>3. \A j \in 1..n+1 : j = 1 \/ (j - 1 \in 1..n /\ m[j] = l[j - 1])
  <2> SUFFICES ASSUME NEW j \in 1..n+1, j # 1 PROVE j - 1 \in 1..n /\ m[j] = l[j - 1]
    BY Zenon
  <2>1. j - 1 \in 1..n /\ (j - 1) + 1 = j
    OBVIOUS
  <2> QED BY <1>2, <2>1, Zenon
<1>4. \A j \in 1..n : l[j] # o
  BY <1>1, Zenon DEF Range
<1>5. IsInjective(m)
  <2> SUFFICES ASSUME NEW j \in 1..n+1, NEW k \in 1..n+1, m[j] = m[k] PROVE j = k
    BY <1>2, Zenon DEF IsInjective
  <2>1. CASE j = 1 \/ k = 1
    BY <1>2, <1>3, <1>4, <2>1, Zenon
  <2>2. CASE j # 1 /\ k # 1
    <3>1. j - 1 \in 1..n /\ k - 1 \in 1..n /\ l[j - 1] = l[k - 1]
      BY <1>3, <2>2, Zenon
    <3>2. j - 1 = k - 1
      BY <1>1, <3>1, Zenon DEF IsInjective
    <3> QED BY <3>2
  <2> QED BY <2>1, <2>2, Zenon
<1>6. Range(m) = Range(l) \cup {o}
  <2>1. ASSUME NEW x \in Range(m) PROVE x \in Range(l) \cup {o}
    <3>1. PICK j \in 1..n+1 : x = m[j]
      BY <1>2, Zenon DEF Range
    <3> QED BY <1>1, <1>2, <1>3, <3>1, Zenon DEF Range
  <2>2. ASSUME NEW x \in Range(l) PROVE x \in Range(m)
    <3>1. PICK j \in 1..n : x = l[j]
      BY <1>1, Zenon DEF Range
    <3>2. j + 1 \in 1..n+1
      OBVIOUS
    <3> QED BY <1>2, <3>1, <3>2, Zenon DEF Range
  <2>3. o \in Range(m)
    <3>1. 1 \in 1..n+1
      OBVIOUS
    <3> QED BY <1>2, <3>1, Zenon DEF Range
  <2> QED BY <2>1, <2>2, <2>3, Zenon
<1> QED BY <1>2, <1>5, <1>6, Zenon DEF m

\* What the assumption says of the constants, as the proofs use it.
LEMMA ConstantFacts ==
    /\ NoKey \notin Keys /\ NrClasses \in Nat /\ NrClasses > 0
    /\ \A k \in Keys : Class[k] \in Classes
    /\ Objs \subseteq Nat \ {0} /\ NoObj \notin Objs
    /\ EvictBatch \in Nat /\ MaxWork \in Nat /\ LargeClass \in Classes
  BY KeyspaceAssumption DEF Classes, NoObj, LargeClass

\* The lists without an object, and with an object at the head of its list.
Unlisted(lru, m, o) ==
    m \in Lists /\ \A c \in Classes : Range(m[c]) = Range(lru[c]) \ {o}
Fronted(lru, m, o, c0) ==
    /\ m \in Lists
    /\ \A c \in Classes : Range(m[c]) = IF c = c0 THEN (Range(lru[c]) \ {o}) \cup {o}
                                        ELSE Range(lru[c]) \ {o}

\* The lists are of objects.
LEMMA OnList ==
    ASSUME NEW lru \in Lists, NEW c \in Classes, NEW x \in Range(lru[c])
    PROVE  x \in Objs
<1>1. lru[c] \in Seq(Objs)
  BY Zenon DEF Lists
<1>2. PICK i \in DOMAIN lru[c] : x = lru[c][i]
  BY Zenon DEF Range
<1>3. PICK l \in Seq(Objs) : l = lru[c]
  BY <1>1, Zenon
<1>4. i \in DOMAIN l /\ x = l[i]
  BY <1>2, <1>3, Zenon
<1> QED BY <1>4

\* lru_node_remove takes the object off every list.
LEMMA UnlistFacts ==
    ASSUME NEW lru \in Lists, NEW key \in [Objs -> Keys \cup {NoKey}], Listed(lru, key),
           NEW o \in Objs, key[o] # NoKey
    PROVE  LET m == [lru EXCEPT ![Class[key[o]]] = Without(@, o)]
           IN  Unlisted(lru, m, o) /\ Listed(m, key)
<1>1. PICK c0 \in Classes : c0 = Class[key[o]]
  BY ConstantFacts, Zenon
<1>2. PICK w : w = Without(lru[c0], o)
  BY Zenon
<1>3. w \in Seq(Objs) /\ IsInjective(w) /\ Range(w) = Range(lru[c0]) \ {o}
  <2>1. lru[c0] \in Seq(Objs) /\ IsInjective(lru[c0])
    BY Zenon DEF Lists, Listed
  <2>2. /\ Without(lru[c0], o) \in Seq(Objs) /\ IsInjective(Without(lru[c0], o))
        /\ Range(Without(lru[c0], o)) = Range(lru[c0]) \ {o}
    BY <2>1, WithoutFacts, Zenon
  <2> QED BY <1>2, <2>2, Zenon
<1> DEFINE m == [lru EXCEPT ![c0] = w]
<1>4. m \in Lists /\ m[c0] = w /\ \A c \in Classes : c # c0 => m[c] = lru[c]
  BY <1>3, Zenon DEF Lists
<1>5. m = [lru EXCEPT ![Class[key[o]]] = Without(@, o)]
  BY <1>1, <1>2, Zenon
<1> HIDE DEF m
<1>6. ASSUME NEW c \in Classes
      PROVE  IsInjective(m[c]) /\ Range(m[c]) = Range(lru[c]) \ {o}
  <2>1. CASE c = c0
    BY <1>3, <1>4, <2>1, Zenon
  <2>2. CASE c # c0
    <3>1. o \notin Range(lru[c])
      BY <1>1, <2>2, Zenon DEF Listed
    <3>2. m[c] = lru[c] /\ Range(lru[c]) = Range(lru[c]) \ {o}
      BY <1>4, <2>2, <3>1, Zenon
    <3> QED BY <3>2, Zenon DEF Listed
  <2> QED BY <2>1, <2>2, Zenon
<1>7. Listed(m, key)
  <2>1. \A c \in Classes : \A x \in Range(m[c]) : x \in Range(lru[c])
    BY <1>6, Zenon
  <2> QED BY <1>6, <2>1, Zenon DEF Listed
<1> QED BY <1>4, <1>5, <1>6, <1>7, Zenon DEF Unlisted

\* lru_node_prepend of an object that is on no list.
LEMMA FrontFacts ==
    ASSUME NEW lru \in Lists, NEW key \in [Objs -> Keys \cup {NoKey}], Listed(lru, key),
           NEW o \in Objs, key[o] # NoKey, \A c \in Classes : o \notin Range(lru[c])
    PROVE  LET m == [lru EXCEPT ![Class[key[o]]] = <<o>> \o @]
           IN  Fronted(lru, m, o, Class[key[o]]) /\ Listed(m, key)
<1>1. PICK c0 \in Classes : c0 = Class[key[o]]
  BY ConstantFacts, Zenon
<1>2. PICK w : w = <<o>> \o lru[c0]
  BY Zenon
<1>3. w \in Seq(Objs) /\ IsInjective(w) /\ Range(w) = Range(lru[c0]) \cup {o}
  <2>1. lru[c0] \in Seq(Objs) /\ IsInjective(lru[c0]) /\ o \notin Range(lru[c0])
    BY Zenon DEF Lists, Listed
  <2>2. LET x == <<o>> \o lru[c0]
        IN  x \in Seq(Objs) /\ IsInjective(x) /\ Range(x) = Range(lru[c0]) \cup {o}
    BY <2>1, HeadFacts, Zenon
  <2> QED BY <1>2, <2>2, Zenon
<1> DEFINE m == [lru EXCEPT ![c0] = w]
<1>4. m \in Lists /\ m[c0] = w /\ \A c \in Classes : c # c0 => m[c] = lru[c]
  BY <1>3, Zenon DEF Lists
<1>5. m = [lru EXCEPT ![Class[key[o]]] = <<o>> \o @]
  BY <1>1, <1>2, Zenon
<1> HIDE DEF m
<1>6. ASSUME NEW c \in Classes
      PROVE  /\ IsInjective(m[c])
             /\ Range(m[c]) = IF c = c0 THEN (Range(lru[c]) \ {o}) \cup {o} ELSE Range(lru[c]) \ {o}
             /\ \A x \in Range(m[c]) : key[x] # NoKey /\ Class[key[x]] = c
  <2>1. CASE c = c0
    BY <1>1, <1>3, <1>4, <2>1 DEF Listed
  <2>2. CASE c # c0
    <3>1. m[c] = lru[c] /\ o \notin Range(lru[c])
      BY <1>4, <2>2, Zenon
    <3> QED BY <2>2, <3>1, Zenon DEF Listed
  <2> QED BY <2>1, <2>2, Zenon
<1>7. Listed(m, key)
  BY <1>6, Zenon DEF Listed
<1> QED BY <1>1, <1>4, <1>5, <1>6, <1>7, Zenon DEF Fronted

---------------------------------------------------------------------------
(* The fields of the shard's memory *)

\* The parts of the memory.
LEMMA MemTyped ==
    ASSUME NEW g \in Mem
    PROVE  /\ g.table \in Tables /\ g.ttl \in Ttls /\ g.lru \in Lists
           /\ g.key \in [Objs -> Keys \cup {NoKey}]
           /\ g = [table |-> g.table, ttl |-> g.ttl, lru |-> g.lru, key |-> g.key]
<1> HIDE DEF Tables, Ttls, Lists
<1> QED BY Zenon DEF Mem

\* Memory made of its parts.
LEMMA MemMade ==
    ASSUME NEW t \in Tables, NEW h \in Ttls, NEW l \in Lists, NEW k \in [Objs -> Keys \cup {NoKey}]
    PROVE  LET g == [table |-> t, ttl |-> h, lru |-> l, key |-> k]
           IN  g \in Mem /\ g.table = t /\ g.ttl = h /\ g.lru = l /\ g.key = k
<1> HIDE DEF Tables, Ttls, Lists
<1> QED BY Zenon DEF Mem

\* The types of a table and of an index.
LEMMA PartsTyped ==
    /\ \A t : TableOK(t) => t \in Tables
    /\ \A h : HeapOK(h) => h \in Ttls
<1>1. ASSUME NEW h, HeapOK(h) PROVE h \in Ttls
  <2>1. /\ h = [heap |-> h.heap, heap_idx |-> h.heap_idx]
        /\ h.heap \in Seq(Node) /\ h.heap_idx \in [Objs -> Nat]
    BY <1>1, Zenon DEF HeapOK, Linked
  <2> QED BY <2>1, Zenon DEF Ttls
<1> QED BY <1>1, Zenon DEF TableOK, Filed

\* lru_node_remove, lru_node_prepend and shard_obj_destroy, field by field.
LEMMA RemoveIs ==
    ASSUME NEW g \in Mem, NEW o \in Objs
    PROVE  LruRemove(g, o) =
              [table |-> g.table, ttl |-> g.ttl,
               lru   |-> [g.lru EXCEPT ![Class[g.key[o]]] = Without(@, o)],
               key   |-> g.key]
<1>1. PICK t, h, l, k : t = g.table /\ h = g.ttl /\ l = g.lru /\ k = g.key
  BY Zenon
<1>2. g = [table |-> t, ttl |-> h, lru |-> l, key |-> k]
  BY <1>1, MemTyped, Zenon
<1>3. PICK m : m = [l EXCEPT ![Class[k[o]]] = Without(@, o)]
  BY Zenon
<1>4. LruRemove(g, o) = [table |-> t, ttl |-> h, lru |-> m, key |-> k]
  BY <1>2, <1>3 DEF LruRemove
<1> QED BY <1>1, <1>3, <1>4, Zenon

\* lru_node_prepend, part by part.
LEMMA PrependIs ==
    ASSUME NEW g \in Mem, NEW o \in Objs
    PROVE  LruPrepend(g, o) =
              [table |-> [g.table EXCEPT !.dropped = @ \ {o}], ttl |-> g.ttl,
               lru   |-> [LruRemove(g, o).lru EXCEPT ![Class[g.key[o]]] = <<o>> \o @],
               key   |-> g.key]
<1>1. PICK t, h, l, k : t = g.table /\ h = g.ttl /\ l = LruRemove(g, o).lru /\ k = g.key
  BY Zenon
<1>2. LruRemove(g, o) = [table |-> t, ttl |-> h, lru |-> l, key |-> k]
  BY <1>1, RemoveIs
<1>3. PICK m : m = [l EXCEPT ![Class[k[o]]] = <<o>> \o @]
  BY Zenon
<1>4. PICK u : u = [t EXCEPT !.dropped = @ \ {o}]
  BY Zenon
<1>5. PICK r, x : r = LruRemove(g, o) /\ x = [r EXCEPT !.lru = m]
  BY Zenon
<1>6. x = [table |-> t, ttl |-> h, lru |-> m, key |-> k] /\ x.table = t
  BY <1>2, <1>5
<1>7. LruPrepend(g, o) = [x EXCEPT !.table = [x.table EXCEPT !.dropped = x.table.dropped \ {o}]]
  <2>1. x = [r EXCEPT !.lru[Class[g.key[o]]] = <<o>> \o @]
    BY <1>1, <1>3, <1>5, Zenon
  <2> QED BY <1>5, <2>1, Zenon DEF LruPrepend
<1>8. LruPrepend(g, o) = [x EXCEPT !.table = u]
  BY <1>4, <1>6, <1>7, Zenon
<1>9. LruPrepend(g, o) = [table |-> u, ttl |-> h, lru |-> m, key |-> k]
  BY <1>6, <1>8, Zenon
<1> QED BY <1>1, <1>3, <1>4, <1>9, Zenon

---------------------------------------------------------------------------
(* Single steps on memory that agrees *)

\* Where an entry is from: the object knows the key, the key the entry.
LEMMA EntryFacts ==
    ASSUME NEW t, TableOK(t), NEW key, Owned(t, key)
    PROVE  /\ \A e \in Entries(t) : /\ e \in Ent /\ e.key \in Keys /\ e.obj \in Objs
                                    /\ key[e.obj] = e.key /\ key[e.obj] # NoKey
           /\ \A e, f \in Entries(t) : e.obj = f.obj \/ e.key = f.key => e = f
<1>1. t.buckets \in Chains /\ Single(t.buckets)
  BY TableTyped, Zenon DEF TableOK, Filed
<1>2. ASSUME NEW e \in Entries(t)
      PROVE  /\ e \in Ent /\ e.key \in Keys /\ e.obj \in Objs
             /\ key[e.obj] = e.key /\ key[e.obj] # NoKey
  <2>1. e \in Ent
    BY <1>1, InAll, EntriesAll, Zenon
  <2>2. e.key \in Keys
    BY <2>1, Zenon DEF Ent
  <2> QED BY <2>1, <2>2, ConstantFacts, Zenon DEF Owned
<1>3. ASSUME NEW e \in Entries(t), NEW f \in Entries(t), e.obj = f.obj \/ e.key = f.key PROVE e = f
  <2>1. e.key = f.key
    BY <1>2, <1>3, Zenon
  <2> QED BY <1>1, <2>1, SingleKeys, EntriesAll, Zenon
<1> QED BY <1>2, <1>3, Zenon

\* Most of what agrees looks at the entries of the table only.
LEMMA SameEntries ==
    ASSUME NEW t, NEW u, Entries(u) = Entries(t), u.lost = t.lost,
           NEW ttl, NEW key, NEW ms, NEW L, NEW K
    PROVE  /\ Owned(t, key) => Owned(u, key)
           /\ Timed(t, ttl, L) => Timed(u, ttl, L)
           /\ Reached(t, key, ms, L) => Reached(u, key, ms, L)
           /\ Locking(t, ttl, key, ms, K) => Locking(u, ttl, key, ms, K)
<1>1. Owned(t, key) => Owned(u, key)
  BY Zenon DEF Owned
<1>2. Timed(t, ttl, L) => Timed(u, ttl, L)
  BY Zenon DEF Timed
<1>3. Reached(t, key, ms, L) => Reached(u, key, ms, L)
  BY Zenon DEF Reached, InTable
<1>4. Locking(t, ttl, key, ms, K) => Locking(u, ttl, key, ms, K)
  <2>1. \A m, k : Held(t, ttl, key, m, k) => Held(u, ttl, key, m, k)
    BY Zenon DEF Held
  <2> QED BY <2>1, Zenon DEF Locking
<1> QED BY <1>1, <1>2, <1>3, <1>4, Zenon

\* An object that is not in the table is taken off its list.
LEMMA RemoveCore ==
    ASSUME NEW g, NEW ms, NEW L, NEW K, Core(g, ms, L, K),
           NEW o \in Objs, g.key[o] # NoKey, ~InTable(g.table, o)
    PROVE  LET h == LruRemove(g, o)
           IN  Core(h, ms, L, K) /\ h.table = g.table /\ h.ttl = g.ttl /\ h.key = g.key
<1> DEFINE h == LruRemove(g, o)
           m == [g.lru EXCEPT ![Class[g.key[o]]] = Without(@, o)]
<1>1. g \in Mem /\ ms \in MsetType /\ Agree(g.table, g.ttl, g.lru, g.key, ms, L, K)
  BY Zenon DEF Core
<1>2. /\ g.table \in Tables /\ g.ttl \in Ttls /\ g.lru \in Lists
      /\ g.key \in [Objs -> Keys \cup {NoKey}]
  BY <1>1, MemTyped, Zenon
<1>3. Unlisted(g.lru, m, o) /\ Listed(m, g.key)
  BY <1>1, <1>2, UnlistFacts, Zenon DEF Agree
<1>4. h = [table |-> g.table, ttl |-> g.ttl, lru |-> m, key |-> g.key]
  BY <1>1, RemoveIs, Zenon
<1> HIDE DEF m, h
<1>5. h \in Mem /\ h.table = g.table /\ h.ttl = g.ttl /\ h.lru = m /\ h.key = g.key
  BY <1>2, <1>3, <1>4, MemMade, Zenon DEF Unlisted
<1>6. Evictable(g.table, m, ms, L)
  <2> SUFFICES ASSUME NEW e \in Entries(g.table), e.obj \notin L, e.obj \notin g.table.dropped,
                      ms[e.key] = NoMset
               PROVE  e.obj \in Range(m[Class[e.key]])
    BY Zenon DEF Evictable
  <2>1. e.obj \in Range(g.lru[Class[e.key]])
    BY <1>1, Zenon DEF Agree, Evictable
  <2>2. e.obj # o
    BY Zenon DEF InTable
  <2>3. Class[e.key] \in Classes
    BY <1>1, EntryFacts, ConstantFacts, Zenon DEF Agree
  <2> QED BY <1>3, <2>1, <2>2, <2>3, Zenon DEF Unlisted
<1>7. Agree(h.table, h.ttl, h.lru, h.key, ms, L, K)
  BY <1>1, <1>3, <1>5, <1>6, Zenon DEF Agree
<1> QED BY <1>5, <1>7, Zenon DEF Core, h

\* An object in use is put at the head of its list.
LEMMA PrependCore ==
    ASSUME NEW g, NEW ms, NEW L, NEW K, Core(g, ms, L, K), NEW o \in Objs, g.key[o] # NoKey
    PROVE  LET h == LruPrepend(g, o)
           IN  /\ Core(h, ms, L, K) /\ h.ttl = g.ttl /\ h.key = g.key
               /\ Entries(h.table) = Entries(g.table) /\ h.table.lost = g.table.lost
               /\ h.table.dropped = g.table.dropped \ {o}
               /\ o \in Range(h.lru[Class[g.key[o]]])
               /\ \A c \in Classes : Range(h.lru[c]) \subseteq Range(g.lru[c]) \cup {o}
<1> DEFINE h == LruPrepend(g, o)
           l == LruRemove(g, o).lru
           m == [l EXCEPT ![Class[g.key[o]]] = <<o>> \o @]
           u == [g.table EXCEPT !.dropped = @ \ {o}]
<1>1. g \in Mem /\ ms \in MsetType /\ Agree(g.table, g.ttl, g.lru, g.key, ms, L, K)
  BY Zenon DEF Core
<1>2. /\ g.table \in Tables /\ g.ttl \in Ttls /\ g.lru \in Lists
      /\ g.key \in [Objs -> Keys \cup {NoKey}]
  BY <1>1, MemTyped, Zenon
<1>3. Unlisted(g.lru, l, o) /\ Listed(l, g.key)
  <2>1. l = [g.lru EXCEPT ![Class[g.key[o]]] = Without(@, o)]
    BY <1>1, RemoveIs
  <2>2. LET x == [g.lru EXCEPT ![Class[g.key[o]]] = Without(@, o)]
        IN  Unlisted(g.lru, x, o) /\ Listed(x, g.key)
    BY <1>1, <1>2, UnlistFacts, Zenon DEF Agree
  <2> QED BY <2>1, <2>2, Zenon
<1>4. h = [table |-> u, ttl |-> g.ttl, lru |-> m, key |-> g.key]
  BY <1>1, PrependIs, Zenon
<1> HIDE DEF l
<1>5. Fronted(l, m, o, Class[g.key[o]]) /\ Listed(m, g.key)
  <2>1. l \in Lists /\ \A c \in Classes : o \notin Range(l[c])
    BY <1>3, Zenon DEF Unlisted
  <2> QED BY <1>2, <1>3, <2>1, FrontFacts, Zenon
<1>6. TableOK(u) /\ Entries(u) = Entries(g.table) /\ u.lost = g.table.lost
      /\ u.dropped = g.table.dropped \ {o}
  <2>1. PICK A \in SUBSET Nat : A = g.table.dropped \ {o}
    BY <1>2, TableTyped, Zenon
  <2>2. u = [g.table EXCEPT !.dropped = A]
    BY <2>1, Zenon
  <2>3. TableOK(g.table)
    BY <1>1, Zenon DEF Agree
  <2>4. LET w == [g.table EXCEPT !.dropped = A]
        IN  TableOK(w) /\ Entries(w) = Entries(g.table) /\ w.lost = g.table.lost /\ w.dropped = A
    BY <2>3, DroppedFacts, Zenon
  <2> HIDE DEF u
  <2> QED BY <2>1, <2>2, <2>4, Zenon
<1> HIDE DEF m, h, u
<1>7. h \in Mem /\ h.table = u /\ h.ttl = g.ttl /\ h.lru = m /\ h.key = g.key
  BY <1>2, <1>4, <1>5, <1>6, PartsTyped, MemMade, Zenon DEF Fronted
<1>8. /\ o \in Range(m[Class[g.key[o]]])
      /\ \A c \in Classes : /\ Range(m[c]) \subseteq Range(g.lru[c]) \cup {o}
                            /\ \A x \in Range(g.lru[c]) : x # o => x \in Range(m[c])
  <2>1. Class[g.key[o]] \in Classes
    BY <1>2, ConstantFacts, Zenon
  <2> QED BY <1>3, <1>5, <2>1, Zenon DEF Fronted, Unlisted
<1>9. Evictable(u, m, ms, L)
  <2> SUFFICES ASSUME NEW e \in Entries(g.table), e.obj \notin L,
                      e.obj \notin g.table.dropped \ {o}, ms[e.key] = NoMset
               PROVE  e.obj \in Range(m[Class[e.key]])
    BY <1>6, Zenon DEF Evictable
  <2>1. Class[e.key] \in Classes /\ g.key[e.obj] = e.key
    <3>1. TableOK(g.table) /\ Owned(g.table, g.key)
      BY <1>1, Zenon DEF Agree
    <3>2. e.key \in Keys /\ g.key[e.obj] = e.key
      BY <3>1, EntryFacts
    <3> QED BY <3>2, ConstantFacts, Zenon
  <2>2. CASE e.obj = o
    BY <1>8, <2>1, <2>2, Zenon
  <2>3. CASE e.obj # o
    <3>1. e.obj \in Range(g.lru[Class[e.key]])
      BY <1>1, <2>3, Zenon DEF Agree, Evictable
    <3> QED BY <1>8, <2>1, <2>3, <3>1, Zenon
  <2> QED BY <2>2, <2>3, Zenon
<1>10. Agree(u, g.ttl, m, g.key, ms, L, K)
  BY <1>1, <1>5, <1>6, <1>9, SameEntries, Zenon DEF Agree
<1> QED BY <1>6, <1>7, <1>8, <1>10, Zenon DEF Core, h

\* No MSET has the key, or one that is about to end.
Loose(ms, k, K) == k \in K \/ ms[k] = NoMset

\* In h, the object o is freed; it has no entry.
Gone(g, h, o) ==
    /\ h.key = [g.key EXCEPT ![o] = NoKey]
    /\ Entries(h.table) = Entries(g.table)
    /\ h.table.lost = g.table.lost \ {o} /\ h.table.dropped = g.table.dropped \ {o}
    /\ \A q \in Objs : q # o => NodeAt(h.ttl, q) = NodeAt(g.ttl, q)
    /\ \A c \in Classes : Range(h.lru[c]) = Range(g.lru[c]) \ {o}

\* An object that is in use and not in the table is freed; if an MSET has it,
\* then one that is about to end.
LEMMA DestroyCore ==
    ASSUME NatInductive, NEW g, NEW ms, NEW L, NEW K, Core(g, ms, L, K), NEW o \in Objs, g.key[o] # NoKey,
           ~InTable(g.table, o), Loose(ms, g.key[o], K)
    PROVE  LET h == Destroy(g, o)
           IN  Core(h, ms, L \ {o}, K) /\ Gone(g, h, o)
<1> DEFINE h == Destroy(g, o)
           m == LruRemove(g, o).lru
           u == [g.table EXCEPT !.lost = @ \ {o}, !.dropped = @ \ {o}]
           w == RemoveNode(g.ttl, o)
           key == [g.key EXCEPT ![o] = NoKey]
<1>1. g \in Mem /\ ms \in MsetType /\ Agree(g.table, g.ttl, g.lru, g.key, ms, L, K)
  BY Zenon DEF Core
<1>2. /\ g.table \in Tables /\ g.ttl \in Ttls /\ g.lru \in Lists
      /\ g.key \in [Objs -> Keys \cup {NoKey}]
  BY <1>1, MemTyped, Zenon
<1>3. Unlisted(g.lru, m, o) /\ Listed(m, g.key)
  <2>1. m = [g.lru EXCEPT ![Class[g.key[o]]] = Without(@, o)]
    BY <1>1, RemoveIs
  <2>2. LET x == [g.lru EXCEPT ![Class[g.key[o]]] = Without(@, o)]
        IN  Unlisted(g.lru, x, o) /\ Listed(x, g.key)
    BY <1>1, <1>2, UnlistFacts, Zenon DEF Agree
  <2> QED BY <2>1, <2>2, Zenon
<1>4. h = [table |-> u, ttl |-> w, lru |-> m, key |-> key]
  BY ConstantFacts, Zenon DEF Destroy
<1>5. /\ TableOK(u) /\ Entries(u) = Entries(g.table) /\ u.lost = g.table.lost \ {o}
      /\ u.dropped = g.table.dropped \ {o}
  <2>1. PICK A \in SUBSET Nat, C \in SUBSET Nat : A = g.table.lost \ {o} /\ C = g.table.dropped \ {o}
    BY <1>2, TableTyped, Zenon
  <2>2. PICK x : x = [g.table EXCEPT !.lost = A]
    BY Zenon
  <2>3. TableOK(g.table)
    BY <1>1, Zenon DEF Agree
  <2>4. /\ TableOK(x) /\ Entries(x) = Entries(g.table) /\ x.lost = A
        /\ x.dropped = g.table.dropped
    BY <2>2, <2>3, LostFacts, Zenon
  <2>5. u = [x EXCEPT !.dropped = C]
    BY <2>1, <2>2, <2>4, Zenon
  <2>6. LET y == [x EXCEPT !.dropped = C]
        IN  TableOK(y) /\ Entries(y) = Entries(x) /\ y.lost = x.lost /\ y.dropped = C
    BY <2>4, DroppedFacts, Zenon
  <2> HIDE DEF u
  <2> QED BY <2>1, <2>4, <2>5, <2>6, Zenon
<1>6. HeapOK(w) /\ NodeAt(w, o) = 0 /\ \A q \in Objs : q # o => NodeAt(w, q) = NodeAt(g.ttl, q)
  <2>1. HeapOK(g.ttl)
    BY <1>1, Zenon DEF Agree
  <2>2. Indexed(g.ttl, w, o, 0)
    BY <2>1, RemoveNodeFacts, Zenon
  <2> QED BY <2>2, Zenon DEF Indexed
<1>7. /\ key \in [Objs -> Keys \cup {NoKey}] /\ key[o] = NoKey
      /\ \A q \in Objs : q # o => key[q] = g.key[q]
  BY <1>2, Zenon
<1>8. /\ h \in Mem /\ h.table = u /\ h.ttl = w /\ h.lru = m /\ h.key = key
  <2> HIDE DEF u, w, m, key, h
  <2> QED BY <1>3, <1>4, <1>5, <1>6, <1>7, PartsTyped, MemMade, Zenon DEF Unlisted
<1> HIDE DEF h, m, u, w, key
<1>9. \A e \in Entries(g.table) : /\ e.obj \in Objs /\ e.obj # o /\ g.key[e.obj] = e.key
                                  /\ key[e.obj] = e.key /\ Class[e.key] \in Classes
  <2> SUFFICES ASSUME NEW e \in Entries(g.table)
               PROVE  /\ e.obj \in Objs /\ e.obj # o /\ g.key[e.obj] = e.key
                      /\ key[e.obj] = e.key /\ Class[e.key] \in Classes
    BY Zenon
  <2>1. TableOK(g.table) /\ Owned(g.table, g.key)
    BY <1>1, Zenon DEF Agree
  <2>2. e.key \in Keys /\ e.obj \in Objs /\ g.key[e.obj] = e.key
    BY <2>1, EntryFacts, Zenon
  <2>3. e.obj # o
    BY Zenon DEF InTable
  <2> QED BY <1>7, <2>2, <2>3, ConstantFacts, Zenon
<1>10. Owned(u, key)
  BY <1>5, <1>9, Zenon DEF Owned
<1>11. Timed(u, w, L \ {o})
  <2> SUFFICES ASSUME NEW e \in Entries(g.table), e.obj \notin L \ {o}
               PROVE  e.expire = NodeAt(w, e.obj)
    BY <1>5, Zenon DEF Timed
  <2>1. e.obj \notin L /\ e.obj # o /\ e.obj \in Objs
    BY <1>9, Zenon
  <2>2. e.expire = NodeAt(g.ttl, e.obj)
    BY <1>1, <2>1, Zenon DEF Agree, Timed
  <2> QED BY <1>6, <2>1, <2>2, Zenon
<1>12. Alive(w, key)
  BY <1>1, <1>6, <1>7, Zenon DEF Agree, Alive
<1>13. Reached(u, key, ms, L \ {o})
  <2> SUFFICES ASSUME NEW q \in Objs, key[q] # NoKey, q \notin L \ {o}
               PROVE  InTable(u, q) \/ q = ms[key[q]].new \/ q \in u.lost
    BY Zenon DEF Reached
  <2>1. q # o /\ q \notin L /\ key[q] = g.key[q]
    BY <1>7, Zenon
  <2>2. InTable(g.table, q) \/ q = ms[g.key[q]].new \/ q \in g.table.lost
    BY <1>1, <2>1, Zenon DEF Agree, Reached
  <2> QED BY <1>5, <2>1, <2>2, Zenon DEF InTable
<1>14. Evictable(u, m, ms, L \ {o})
  <2> SUFFICES ASSUME NEW e \in Entries(g.table), e.obj \notin L \ {o}, e.obj \notin u.dropped,
                      ms[e.key] = NoMset
               PROVE  e.obj \in Range(m[Class[e.key]])
    BY <1>5, Zenon DEF Evictable
  <2>1. e.obj # o /\ e.obj \notin L /\ e.obj \notin g.table.dropped /\ Class[e.key] \in Classes
    BY <1>5, <1>9, Zenon
  <2>2. e.obj \in Range(g.lru[Class[e.key]])
    BY <1>1, <2>1, Zenon DEF Agree, Evictable
  <2> QED BY <1>3, <2>1, <2>2, Zenon DEF Unlisted
<1>15. Locking(u, w, key, ms, K)
  <2> SUFFICES ASSUME NEW k \in Keys, k \notin K, ms[k] # NoMset PROVE Held(u, w, key, ms[k], k)
    BY Zenon DEF Locking
  <2>1. Held(g.table, g.ttl, g.key, ms[k], k)
    BY <1>1, Zenon DEF Agree, Locking
  <2>2. k # g.key[o]
    BY Zenon DEF Loose
  <2>3. \A q \in Objs : g.key[q] = k => key[q] = k /\ NodeAt(w, q) = NodeAt(g.ttl, q)
    BY <1>6, <1>7, <2>2, Zenon
  <2>4. PICK n : n = ms[k]
    BY Zenon
  <2>5. Held(g.table, g.ttl, g.key, n, k)
    BY <2>1, <2>4, Zenon
  <2>6. Held(u, w, key, n, k)
    BY <1>5, <2>3, <2>5, Zenon DEF Held
  <2> QED BY <2>4, <2>6, Zenon
<1>16. Listed(m, key)
  <2>1. ASSUME NEW c \in Classes, NEW x \in Range(m[c]) PROVE key[x] = g.key[x]
    <3>1. x # o /\ x \in Range(g.lru[c])
      BY <1>3, Zenon DEF Unlisted
    <3>2. x \in Objs
      BY <1>2, <3>1, OnList, Zenon
    <3> QED BY <1>7, <3>1, <3>2, Zenon
  <2> QED BY <1>3, <2>1, Zenon DEF Listed
<1>17. Agree(u, w, m, key, ms, L \ {o}, K)
  BY <1>5, <1>6, <1>10, <1>11, <1>12, <1>13, <1>14, <1>15, <1>16, Zenon DEF Agree
<1> QED BY <1>3, <1>5, <1>6, <1>8, <1>17, Zenon DEF Core, Unlisted, Gone, h, key

\* A field of its own is replaced.
LEMMA MemTable ==
    ASSUME NEW g \in Mem, NEW t \in Tables
    PROVE  LET h == [g EXCEPT !.table = t]
           IN  h \in Mem /\ h.table = t /\ h.ttl = g.ttl /\ h.lru = g.lru /\ h.key = g.key
<1> HIDE DEF Tables, Ttls, Lists
<1> QED BY Zenon DEF Mem

\* A change of the TTL index only.
LEMMA MemTtl ==
    ASSUME NEW g \in Mem, NEW w \in Ttls
    PROVE  LET h == [g EXCEPT !.ttl = w]
           IN  h \in Mem /\ h.table = g.table /\ h.ttl = w /\ h.lru = g.lru /\ h.key = g.key
<1> HIDE DEF Tables, Ttls, Lists
<1> QED BY Zenon DEF Mem

\* A change of the objects in use only.
LEMMA MemKey ==
    ASSUME NEW g \in Mem, NEW k \in [Objs -> Keys \cup {NoKey}]
    PROVE  LET h == [g EXCEPT !.key = k]
           IN  h \in Mem /\ h.table = g.table /\ h.ttl = g.ttl /\ h.lru = g.lru /\ h.key = k
<1> HIDE DEF Tables, Ttls, Lists
<1> QED BY Zenon DEF Mem

\* More may be in hand.
LEMMA CoreMore ==
    ASSUME NEW g, NEW ms, NEW L, NEW K, NEW M, NEW J, Core(g, ms, L, K), L \subseteq M, K \subseteq J
    PROVE  Core(g, ms, M, J)
<1> DEFINE t == g.table
<1>3. Timed(t, g.ttl, L) => Timed(t, g.ttl, M)
  BY Zenon DEF Timed
<1>4. Reached(t, g.key, ms, L) => Reached(t, g.key, ms, M)
  BY Zenon DEF Reached
<1>5. Evictable(t, g.lru, ms, L) => Evictable(t, g.lru, ms, M)
  BY Zenon DEF Evictable
<1>6. Locking(t, g.ttl, g.key, ms, K) => Locking(t, g.ttl, g.key, ms, J)
  BY Zenon DEF Locking
<1> QED BY <1>3, <1>4, <1>5, <1>6, Zenon DEF Core, Agree

\* An object that has come to where it belongs is no longer in hand.
LEMMA Settled ==
    ASSUME NEW g, NEW ms, NEW L, NEW K, NEW o, Core(g, ms, L \cup {o}, K),
           \A e \in Entries(g.table) : e.obj = o =>
               /\ e.expire = NodeAt(g.ttl, o)
               /\ o \notin g.table.dropped /\ ms[e.key] = NoMset => o \in Range(g.lru[Class[e.key]]),
           o \in Objs /\ g.key[o] # NoKey =>
               InTable(g.table, o) \/ o = ms[g.key[o]].new \/ o \in g.table.lost
    PROVE  Core(g, ms, L, K)
<1> DEFINE t == g.table
           M == L \cup {o}
<1>1. g \in Mem /\ ms \in MsetType /\ Agree(t, g.ttl, g.lru, g.key, ms, M, K)
  BY Zenon DEF Core
<1>2. \A q : q \notin L => q = o \/ q \notin M
  BY Zenon
<1> HIDE DEF M, t
<1>3. Timed(t, g.ttl, L)
  <2> SUFFICES ASSUME NEW e \in Entries(t), e.obj \notin L PROVE e.expire = NodeAt(g.ttl, e.obj)
    BY Zenon DEF Timed
  <2>1. CASE e.obj = o
    BY <2>1, Zenon DEF t
  <2>2. CASE e.obj \notin M
    BY <1>1, <2>2, Zenon DEF Agree, Timed
  <2> QED BY <1>2, <2>1, <2>2, Zenon
<1>4. Reached(t, g.key, ms, L)
  <2> SUFFICES ASSUME NEW q \in Objs, g.key[q] # NoKey, q \notin L
               PROVE  InTable(t, q) \/ q = ms[g.key[q]].new \/ q \in t.lost
    BY Zenon DEF Reached
  <2>1. CASE q = o
    BY <2>1, Zenon DEF t
  <2>2. CASE q \notin M
    BY <1>1, <2>2, Zenon DEF Agree, Reached
  <2> QED BY <1>2, <2>1, <2>2, Zenon
<1>5. Evictable(t, g.lru, ms, L)
  <2> SUFFICES ASSUME NEW e \in Entries(t), e.obj \notin L, e.obj \notin t.dropped, ms[e.key] = NoMset
               PROVE  e.obj \in Range(g.lru[Class[e.key]])
    BY Zenon DEF Evictable
  <2>1. CASE e.obj = o
    BY <2>1, Zenon DEF t
  <2>2. CASE e.obj \notin M
    BY <1>1, <2>2, Zenon DEF Agree, Evictable
  <2> QED BY <1>2, <2>1, <2>2, Zenon
<1>6. Agree(t, g.ttl, g.lru, g.key, ms, L, K)
  BY <1>1, <1>3, <1>4, <1>5, Zenon DEF Agree
<1> QED BY <1>6, Zenon DEF Core, t

\* An object of a key that an MSET has locked gets no time.
MayTime(ms, k, K, at) == at = 0 \/ Loose(ms, k, K)
Retimed(g, h, w) == h.table = g.table /\ h.ttl = w /\ h.lru = g.lru /\ h.key = g.key

\* The TTL index has a new time for an object, 0 for none.
LEMMA TtlCore ==
    ASSUME NEW g, NEW ms, NEW L, NEW K, Core(g, ms, L, K), NEW o \in Objs, g.key[o] # NoKey,
           NEW at, NEW w, Indexed(g.ttl, w, o, at), MayTime(ms, g.key[o], K, at)
    PROVE  LET h == [g EXCEPT !.ttl = w]
           IN  Core(h, ms, L \cup {o}, K) /\ Retimed(g, h, w)
<1> DEFINE h == [g EXCEPT !.ttl = w]
           t == g.table
           M == L \cup {o}
<1>1. g \in Mem /\ ms \in MsetType /\ Agree(t, g.ttl, g.lru, g.key, ms, L, K)
  BY Zenon DEF Core
<1>2. /\ HeapOK(w) /\ NodeAt(w, o) = at
      /\ \A q \in Objs : q # o => NodeAt(w, q) = NodeAt(g.ttl, q)
  BY Zenon DEF Indexed
<1>3. h \in Mem /\ h.table = t /\ h.ttl = w /\ h.lru = g.lru /\ h.key = g.key
  BY <1>1, <1>2, PartsTyped, MemTtl, Zenon
<1>4. Core(g, ms, M, K)
  <2> QED BY CoreMore, Zenon
<1>5. Agree(t, g.ttl, g.lru, g.key, ms, M, K)
  BY <1>4, Zenon DEF Core
<1>6. \A q : q \notin M => q # o
  BY Zenon
<1> HIDE DEF h, t, M
<1>7. Timed(t, w, M)
  <2>1. \A e \in Entries(t) : e.obj \in Objs
    BY <1>1, Zenon DEF Agree, Owned
  <2> QED BY <1>2, <1>5, <1>6, <2>1, Zenon DEF Agree, Timed
<1>8. Alive(w, g.key)
  BY <1>2, <1>5, Zenon DEF Agree, Alive
<1>9. Locking(t, w, g.key, ms, K)
  <2> SUFFICES ASSUME NEW k \in Keys, k \notin K, ms[k] # NoMset PROVE Held(t, w, g.key, ms[k], k)
    BY Zenon DEF Locking
  <2>1. PICK n : n = ms[k]
    BY Zenon
  <2>2. Held(t, g.ttl, g.key, n, k)
    BY <1>1, <2>1, Zenon DEF Agree, Locking
  <2>3. n.new \in Objs /\ g.key[n.new] = k /\ NodeAt(g.ttl, n.new) = 0
    BY <2>2, Zenon DEF Held
  <2>4. NodeAt(w, n.new) = 0
    <3>1. CASE n.new # o
      BY <1>2, <2>3, <3>1, Zenon
    <3>2. CASE n.new = o
      <4>1. g.key[o] = k
        BY <2>3, <3>2, Zenon
      <4>2. at = 0
        BY <4>1, Zenon DEF MayTime, Loose
      <4> QED BY <1>2, <3>2, <4>2, Zenon
    <3> QED BY <3>1, <3>2, Zenon
  <2>5. Held(t, w, g.key, n, k)
    BY <2>2, <2>4, Zenon DEF Held
  <2> QED BY <2>1, <2>5, Zenon
<1>10. Agree(t, w, g.lru, g.key, ms, M, K)
  BY <1>2, <1>5, <1>7, <1>8, <1>9, Zenon DEF Agree
<1> QED BY <1>3, <1>10, Zenon DEF Core, Retimed, h, t, M

\* The entries of u are among those of t: what is gone is in hand, or is lost.
Fewer(t, u, M) ==
    /\ Entries(u) \subseteq Entries(t) /\ t.lost \subseteq u.lost /\ t.dropped \subseteq u.dropped
    /\ \A e \in Entries(t) : e \in Entries(u) \/ e.obj \in M \/ e.obj \in u.lost

\* A table that has lost entries whose objects are in hand or recorded as lost.
LEMMA FewerCore ==
    ASSUME NEW g, NEW ms, NEW L, NEW K, Core(g, ms, L, K), NEW t, TableOK(t),
           NEW M, L \subseteq M, Fewer(g.table, t, M)
    PROVE  LET h == [g EXCEPT !.table = t]
           IN  /\ Core(h, ms, M, K)
               /\ h.table = t /\ h.ttl = g.ttl /\ h.lru = g.lru /\ h.key = g.key
<1> DEFINE h == [g EXCEPT !.table = t]
<1>0. /\ Entries(t) \subseteq Entries(g.table)
      /\ g.table.lost \subseteq t.lost /\ g.table.dropped \subseteq t.dropped
      /\ \A e \in Entries(g.table) : e \in Entries(t) \/ e.obj \in M \/ e.obj \in t.lost
  BY Zenon DEF Fewer
<1>1. g \in Mem /\ ms \in MsetType /\ Agree(g.table, g.ttl, g.lru, g.key, ms, L, K)
  BY Zenon DEF Core
<1>2. h \in Mem /\ h.table = t /\ h.ttl = g.ttl /\ h.lru = g.lru /\ h.key = g.key
  BY <1>1, PartsTyped, MemTable, Zenon
<1>3. Agree(g.table, g.ttl, g.lru, g.key, ms, M, K)
  <2>1. Core(g, ms, M, K)
    BY CoreMore, Zenon
  <2> QED BY <2>1, Zenon DEF Core
<1> HIDE DEF h
<1>4. Owned(t, g.key) /\ Timed(t, g.ttl, M) /\ Evictable(t, g.lru, ms, M)
  <2>1. \A x : x \notin t.dropped => x \notin g.table.dropped
    BY <1>0, Zenon
  <2>2. Owned(t, g.key)
    BY <1>0, <1>3, Zenon DEF Agree, Owned
  <2>3. Timed(t, g.ttl, M)
    BY <1>0, <1>3, Zenon DEF Agree, Timed
  <2>4. Evictable(t, g.lru, ms, M)
    BY <1>0, <1>3, <2>1, Zenon DEF Agree, Evictable
  <2> QED BY <2>2, <2>3, <2>4, Zenon
<1>5. Reached(t, g.key, ms, M)
  <2> SUFFICES ASSUME NEW q \in Objs, g.key[q] # NoKey, q \notin M
               PROVE  InTable(t, q) \/ q = ms[g.key[q]].new \/ q \in t.lost
    BY Zenon DEF Reached
  <2>1. InTable(g.table, q) \/ q = ms[g.key[q]].new \/ q \in g.table.lost
    BY <1>3, Zenon DEF Agree, Reached
  <2>2. ASSUME InTable(g.table, q) PROVE InTable(t, q) \/ q \in t.lost
    <3>1. PICK e \in Entries(g.table) : e.obj = q
      BY <2>2, Zenon DEF InTable
    <3>2. e \in Entries(t) \/ q \in t.lost
      BY <1>0, <3>1, Zenon
    <3> QED BY <3>1, <3>2, Zenon DEF InTable
  <2> QED BY <1>0, <2>1, <2>2, Zenon
<1>6. Locking(t, g.ttl, g.key, ms, K)
  <2>1. \A m, k : Held(g.table, g.ttl, g.key, m, k) => Held(t, g.ttl, g.key, m, k)
    BY <1>0, Zenon DEF Held
  <2> QED BY <1>3, <2>1, Zenon DEF Agree, Locking
<1>7. Agree(t, g.ttl, g.lru, g.key, ms, M, K)
  BY <1>3, <1>4, <1>5, <1>6, Zenon DEF Agree
<1> QED BY <1>2, <1>7, Zenon DEF Core, h

\* A rehash has dropped some entries.
LEMMA ShedCore ==
    ASSUME NEW g, NEW ms, NEW L, NEW K, Core(g, ms, L, K), NEW t, TableOK(t), NEW D,
           Shed(g.table, t, D)
    PROVE  LET h == [g EXCEPT !.table = t]
           IN  /\ Core(h, ms, L, K)
               /\ h.table = t /\ h.ttl = g.ttl /\ h.lru = g.lru /\ h.key = g.key
<1>1. \A e \in D : e.obj \in ObjsOf(D)
  BY Zenon DEF ObjsOf
<1>2. Fewer(g.table, t, L)
  BY <1>1, Zenon DEF Shed, Fewer
<1>3. L \subseteq L
  BY Zenon
<1> QED BY <1>2, <1>3, FewerCore

\* In h, the object o of the key k is freed, and its entry gone.
Removed(g, h, o, k) ==
    /\ h.key = [g.key EXCEPT ![o] = NoKey]
    /\ Entries(h.table) = {e \in Entries(g.table) : e.key # k}
    /\ h.table.lost = g.table.lost \ {o} /\ h.table.dropped = g.table.dropped \ {o}
    /\ \A q \in Objs : q # o => NodeAt(h.ttl, q) = NodeAt(g.ttl, q)
    /\ \A c \in Classes : Range(h.lru[c]) = Range(g.lru[c]) \ {o}
Only(t, k, o) == \A e \in Entries(t) : e.key = k => e.obj = o

\* The entry of an object is taken out and the object is freed, of a key that
\* is not locked.
LEMMA FreeCore ==
    ASSUME NatInductive, NEW g, NEW ms, NEW L, NEW K, Core(g, ms, L, K), NEW o \in Objs, g.key[o] \in Keys,
           ms[g.key[o]] = NoMset, NEW t, Cleared(g.table, t, g.key[o]),
           Only(g.table, g.key[o], o)
    PROVE  LET h == Destroy([g EXCEPT !.table = t], o)
           IN  Core(h, ms, L \ {o}, K) /\ Removed(g, h, o, g.key[o])
<1>k. PICK k \in Keys : k = g.key[o]
  BY Zenon
<1> DEFINE f == [g EXCEPT !.table = t]
           M == L \cup {o}
<1>1. /\ TableOK(t) /\ Entries(t) = {e \in Entries(g.table) : e.key # k}
      /\ t.lost = g.table.lost /\ t.dropped = g.table.dropped
  BY <1>k, Zenon DEF Cleared
<1>2. /\ Core(f, ms, M, K) /\ f.table = t /\ f.ttl = g.ttl /\ f.lru = g.lru /\ f.key = g.key
  <2>1. L \subseteq M
    BY Zenon
  <2>2. \A e \in Entries(g.table) : e \in Entries(t) \/ e.obj \in M \/ e.obj \in t.lost
    BY <1>k, <1>1, Zenon DEF Only
  <2> HIDE DEF M
  <2>3. Fewer(g.table, t, M)
    BY <1>1, <2>2, Zenon DEF Fewer
  <2> QED BY <1>1, <2>1, <2>3, FewerCore
<1>3. ~InTable(t, o)
  <2>1. ASSUME NEW e \in Entries(t), e.obj = o PROVE FALSE
    <3>1. e.key # k /\ e \in Entries(g.table)
      BY <1>1, Zenon
    <3>2. Owned(g.table, g.key)
      BY Zenon DEF Core, Agree
    <3>3. g.key[e.obj] = e.key
      BY <3>1, <3>2, Zenon DEF Owned
    <3> QED BY <1>k, <2>1, <3>1, <3>3, Zenon
  <2> QED BY <2>1, Zenon DEF InTable
<1> HIDE DEF f, M
<1>4. f.key[o] # NoKey /\ Loose(ms, f.key[o], K) /\ ~InTable(f.table, o)
  BY <1>2, <1>3, ConstantFacts, Zenon DEF Loose
<1>5. Core(Destroy(f, o), ms, M \ {o}, K) /\ Gone(f, Destroy(f, o), o)
  BY <1>2, <1>4, DestroyCore, Zenon
<1>6. M \ {o} = L \ {o}
  BY Zenon DEF M
<1> DEFINE h == Destroy(f, o)
<1> HIDE DEF h
<1>7. /\ Core(h, ms, L \ {o}, K) /\ h.key = [g.key EXCEPT ![o] = NoKey]
      /\ Entries(h.table) = {e \in Entries(g.table) : e.key # k}
      /\ h.table.lost = g.table.lost \ {o} /\ h.table.dropped = g.table.dropped \ {o}
      /\ \A q \in Objs : q # o => NodeAt(h.ttl, q) = NodeAt(g.ttl, q)
      /\ \A c \in Classes : Range(h.lru[c]) = Range(g.lru[c]) \ {o}
  BY <1>1, <1>2, <1>5, <1>6, Zenon DEF h, Gone
<1>8. Core(h, ms, L \ {o}, K) /\ Removed(g, h, o, g.key[o])
  BY <1>k, <1>7, Zenon DEF Removed
<1> QED BY <1>8, Zenon DEF h, f

\* In h, the entry e is in the table: its object is in hand, and the one it
\* replaces.
OfKey(g, e) == e.obj \in Objs /\ g.key[e.obj] = e.key
Written(g, h, ms, L, e, old) ==
    /\ Core(h, ms, L \cup {e.obj, old}, {e.key})
    /\ h.ttl = g.ttl /\ h.lru = g.lru /\ h.key = g.key
    /\ \A f \in Entries(h.table) : f.key = e.key => f = e
    /\ e \in Entries(h.table)

\* An entry has been put in.
LEMMA PutCore ==
    ASSUME NEW g, NEW ms, NEW L, Core(g, ms, L, {}), NEW e \in Ent, OfKey(g, e),
           NEW old, NEW t, PutIn(g.table, e, TRUE, old, t)
    PROVE  Written(g, [g EXCEPT !.table = t], ms, L, e, old)
<1> DEFINE h == [g EXCEPT !.table = t]
           M == L \cup {e.obj, old}
           k == e.key
           K == {k}
<1>0. e.obj \in Objs /\ g.key[e.obj] = e.key
  BY Zenon DEF OfKey
<1>1. g \in Mem /\ ms \in MsetType /\ TableOK(t)
  BY Zenon DEF Core, PutIn
<1>2. h \in Mem /\ h.table = t /\ h.ttl = g.ttl /\ h.lru = g.lru /\ h.key = g.key
  BY <1>1, PartsTyped, MemTable, Zenon
<1>3. Agree(g.table, g.ttl, g.lru, g.key, ms, M, K)
  <2>1. L \subseteq M /\ {} \subseteq K
    BY Zenon
  <2>2. Core(g, ms, M, K)
    <3> HIDE DEF M, K
    <3> QED BY <2>1, CoreMore
  <2> QED BY <2>2, Zenon DEF Core
<1>4. /\ Entries(t) = {f \in Entries(g.table) : f.key # k} \cup {e}
      /\ t.lost = g.table.lost \ {e.obj} /\ t.dropped = g.table.dropped
  BY Zenon DEF PutIn
<1>5. \A f \in Entries(g.table) : f.key = k => f.obj = old
  <2> SUFFICES ASSUME NEW f \in Entries(g.table), f.key = k PROVE f.obj = old
    BY Zenon
  <2>1. PICK x \in Entries(g.table) : x.key = k /\ old = x.obj
    <3>2. \E x \in {y \in Entries(g.table) : y.key = e.key} : old = x.obj
      BY Zenon DEF PutIn
    <3> QED BY <3>2, Zenon
  <2>2. x = f
    <3>1. TableOK(g.table) /\ Owned(g.table, g.key)
      BY <1>3, Zenon DEF Agree
    <3>2. x.key = f.key
      BY <2>1, Zenon
    <3> QED BY <3>1, <3>2, EntryFacts, Zenon
  <2> QED BY <2>1, <2>2, Zenon
<1>6. e.obj \in M /\ old \in M
  BY Zenon
<1> HIDE DEF h, M
<1>7. \A f \in Entries(t) : f = e \/ (f \in Entries(g.table) /\ f.key # k)
  BY <1>4, Zenon
<1>8. Owned(t, g.key)
  BY <1>0, <1>3, <1>7, Zenon DEF Agree, Owned
<1>9. Timed(t, g.ttl, M)
  BY <1>3, <1>6, <1>7, Zenon DEF Agree, Timed
<1>10. Evictable(t, g.lru, ms, M)
  BY <1>3, <1>4, <1>6, <1>7, Zenon DEF Agree, Evictable
<1>11. Reached(t, g.key, ms, M)
  <2> SUFFICES ASSUME NEW q \in Objs, g.key[q] # NoKey, q \notin M
               PROVE  InTable(t, q) \/ q = ms[g.key[q]].new \/ q \in t.lost
    BY Zenon DEF Reached
  <2>1. InTable(g.table, q) \/ q = ms[g.key[q]].new \/ q \in g.table.lost
    BY <1>3, Zenon DEF Agree, Reached
  <2>2. q # e.obj /\ q # old
    BY <1>6, Zenon
  <2>3. ASSUME InTable(g.table, q) PROVE InTable(t, q)
    <3>1. PICK f \in Entries(g.table) : f.obj = q
      BY <2>3, Zenon DEF InTable
    <3>2. f \in Entries(t)
      BY <1>4, <1>5, <2>2, <3>1, Zenon
    <3> QED BY <3>1, <3>2, Zenon DEF InTable
  <2> QED BY <1>4, <2>1, <2>2, <2>3, Zenon
<1>12. Locking(t, g.ttl, g.key, ms, K)
  <2> SUFFICES ASSUME NEW j \in Keys, j \notin K, ms[j] # NoMset
               PROVE  Held(t, g.ttl, g.key, ms[j], j)
    BY Zenon DEF Locking
  <2>1. PICK n : n = ms[j]
    BY Zenon
  <2>2. Held(g.table, g.ttl, g.key, n, j)
    BY <1>3, <2>1, Zenon DEF Agree, Locking
  <2>3. \A f \in Entries(t) : f.key = j => f \in Entries(g.table)
    BY <1>7, Zenon
  <2>4. Held(t, g.ttl, g.key, n, j)
    BY <2>2, <2>3, Zenon DEF Held
  <2> QED BY <2>1, <2>4, Zenon
<1>13. Agree(t, g.ttl, g.lru, g.key, ms, M, K)
  BY <1>1, <1>3, <1>8, <1>9, <1>10, <1>11, <1>12, Zenon DEF Agree
<1>14. e \in Entries(t) /\ \A f \in Entries(t) : f.key = k => f = e
  BY <1>4, <1>7, Zenon
<1> QED BY <1>2, <1>13, <1>14, Zenon DEF Core, Written, h, M

\* The memory h is g with the lock of k set to v.
Latched(g, h, k, v) ==
    /\ h.ttl = g.ttl /\ h.lru = g.lru /\ h.key = g.key
    /\ h.table.lost = g.table.lost /\ h.table.dropped = g.table.dropped
    /\ \A f \in Entries(h.table) : f.key = k =>
          /\ f.locked = v
          /\ \E e \in Entries(g.table) : e.key = k /\ e.obj = f.obj /\ e.expire = f.expire
    /\ \A o : InTable(g.table, o) => InTable(h.table, o)

\* The lock of a key is set or cleared, while the MSET of the key begins or ends.
LEMMA LockCore ==
    ASSUME NEW g, NEW ms, NEW L, NEW K, Core(g, ms, L, K), NEW k \in K, k \in Keys, NEW v \in BOOLEAN
    PROVE  LET h == [g EXCEPT !.table = SetLockStatus(@, k, v)]
           IN  Core(h, ms, L, K) /\ Latched(g, h, k, v)
<1> DEFINE h == [g EXCEPT !.table = SetLockStatus(@, k, v)]
<1>1. PICK t : t = SetLockStatus(g.table, k, v)
  BY Zenon
<1>2. h = [g EXCEPT !.table = t]
  BY <1>1, Zenon
<1>3. g \in Mem /\ ms \in MsetType /\ Agree(g.table, g.ttl, g.lru, g.key, ms, L, K)
  BY Zenon DEF Core
<1>4. TableOK(g.table) /\ Owned(g.table, g.key)
  BY <1>3, Zenon DEF Agree
<1>5. Relocked(g.table, t, k, v)
  BY <1>1, <1>4, SetLockFacts, Zenon
<1>6. TableOK(t) /\ t.lost = g.table.lost /\ t.dropped = g.table.dropped
  BY <1>5, Zenon DEF Relocked
<1>7. h \in Mem /\ h.table = t /\ h.ttl = g.ttl /\ h.lru = g.lru /\ h.key = g.key
  <2>1. t \in Tables
    BY <1>6, PartsTyped, Zenon
  <2> HIDE DEF h
  <2> QED BY <1>2, <1>3, <2>1, MemTable, Zenon
<1> HIDE DEF h
<1>8. ASSUME NEW e \in Entries(g.table), NEW f, f = [e EXCEPT !.locked = v]
      PROVE  f.key = e.key /\ f.obj = e.obj /\ f.expire = e.expire /\ f.locked = v
  <2>1. e \in Ent
    BY <1>4, EntryFacts, Zenon
  <2> QED BY <1>8, <2>1, Zenon DEF Ent
<1>9. ASSUME NEW f \in Entries(t)
      PROVE  \E e \in Entries(g.table) :
                /\ e.key = f.key /\ e.obj = f.obj /\ e.expire = f.expire
                /\ f.key # k => f = e
                /\ f.key = k => f.locked = v
  <2>1. CASE f \in Entries(g.table) /\ f.key # k
    BY <2>1, Zenon
  <2>2. CASE \E e \in Entries(g.table) : e.key = k /\ f = [e EXCEPT !.locked = v]
    <3>1. PICK e \in Entries(g.table) : e.key = k /\ f = [e EXCEPT !.locked = v]
      BY <2>2, Zenon
    <3>2. f.key = e.key /\ f.obj = e.obj /\ f.expire = e.expire /\ f.locked = v
      BY <1>8, <3>1, Zenon
    <3> QED BY <3>1, <3>2, Zenon
  <2> QED BY <1>5, <2>1, <2>2, Zenon DEF Relocked
<1>10. ASSUME NEW e \in Entries(g.table) PROVE \E f \in Entries(t) : f.obj = e.obj
  <2>1. CASE e.key # k
    BY <1>5, <2>1, Zenon DEF Relocked
  <2>2. CASE e.key = k
    <3>1. PICK f : f = [e EXCEPT !.locked = v]
      BY Zenon
    <3>2. f \in Entries(t)
      BY <1>5, <2>2, <3>1, Zenon DEF Relocked
    <3>3. f.obj = e.obj
      BY <1>8, <3>1, Zenon
    <3> QED BY <3>2, <3>3, Zenon
  <2> QED BY <2>1, <2>2, Zenon
<1>11. \A o : InTable(g.table, o) => InTable(t, o)
  BY <1>10, Zenon DEF InTable
<1>12. Owned(t, g.key)
  <2> SUFFICES ASSUME NEW f \in Entries(t) PROVE f.obj \in Objs /\ g.key[f.obj] = f.key
    BY Zenon DEF Owned
  <2>1. PICK e \in Entries(g.table) : e.key = f.key /\ e.obj = f.obj
    BY <1>9, Zenon
  <2> QED BY <1>4, <2>1, Zenon DEF Owned
<1>13. Timed(t, g.ttl, L)
  <2> SUFFICES ASSUME NEW f \in Entries(t), f.obj \notin L PROVE f.expire = NodeAt(g.ttl, f.obj)
    BY Zenon DEF Timed
  <2>1. PICK e \in Entries(g.table) : e.obj = f.obj /\ e.expire = f.expire
    BY <1>9, Zenon
  <2>2. Timed(g.table, g.ttl, L)
    BY <1>3, Zenon DEF Agree
  <2> QED BY <2>1, <2>2, Zenon DEF Timed
<1>14. Reached(t, g.key, ms, L)
  BY <1>3, <1>6, <1>11, Zenon DEF Agree, Reached
<1>15. Evictable(t, g.lru, ms, L)
  <2> SUFFICES ASSUME NEW f \in Entries(t), f.obj \notin L, f.obj \notin g.table.dropped,
                      ms[f.key] = NoMset
               PROVE  f.obj \in Range(g.lru[Class[f.key]])
    BY <1>6, Zenon DEF Evictable
  <2>1. PICK e \in Entries(g.table) : e.key = f.key /\ e.obj = f.obj
    BY <1>9, Zenon
  <2>2. Evictable(g.table, g.lru, ms, L)
    BY <1>3, Zenon DEF Agree
  <2> QED BY <2>1, <2>2, Zenon DEF Evictable
<1>16. Locking(t, g.ttl, g.key, ms, K)
  <2> SUFFICES ASSUME NEW j \in Keys, j \notin K, ms[j] # NoMset
               PROVE  Held(t, g.ttl, g.key, ms[j], j)
    BY Zenon DEF Locking
  <2>1. PICK n : n = ms[j]
    BY Zenon
  <2>2. Held(g.table, g.ttl, g.key, n, j)
    BY <1>3, <2>1, Zenon DEF Agree, Locking
  <2>3. j # k
    BY Zenon
  <2>4. \A f \in Entries(t) : f.key = j => f \in Entries(g.table)
    BY <1>9, <2>3, Zenon
  <2>5. Held(t, g.ttl, g.key, n, j)
    BY <2>2, <2>4, Zenon DEF Held
  <2> QED BY <2>1, <2>5, Zenon
<1>17. Agree(t, g.ttl, g.lru, g.key, ms, L, K)
  BY <1>3, <1>6, <1>12, <1>13, <1>14, <1>15, <1>16, Zenon DEF Agree
<1>18. Core(h, ms, L, K)
  BY <1>7, <1>17, Zenon DEF Core
<1>19. \A f \in Entries(t) : f.key = k =>
          /\ f.locked = v
          /\ \E e \in Entries(g.table) : e.key = k /\ e.obj = f.obj /\ e.expire = f.expire
  <2> SUFFICES ASSUME NEW f \in Entries(t), f.key = k
               PROVE  /\ f.locked = v
                      /\ \E e \in Entries(g.table) : e.key = k /\ e.obj = f.obj /\ e.expire = f.expire
    BY Zenon
  <2>1. PICK e \in Entries(g.table) : /\ e.key = f.key /\ e.obj = f.obj /\ e.expire = f.expire
                                      /\ f.key = k => f.locked = v
    BY <1>9, Zenon
  <2> QED BY <2>1, Zenon
<1>20. Latched(g, h, k, v)
  BY <1>6, <1>7, <1>11, <1>19, Zenon DEF Latched
<1> QED BY <1>18, <1>20, Zenon DEF h

\* An MSET begins or ends.
LEMMA MsetCore ==
    ASSUME NEW g, NEW ms, NEW L, NEW K, Core(g, ms, L, K), NEW k \in Keys, k \in K,
           NEW m \in [new : Nat, old : Nat],
           \A o \in Objs : g.key[o] = k /\ o \notin L =>
               InTable(g.table, o) \/ o = m.new \/ o \in g.table.lost,
           m = NoMset => \A e \in Entries(g.table) :
               e.key = k /\ e.obj \notin L /\ e.obj \notin g.table.dropped =>
                   e.obj \in Range(g.lru[Class[k]]),
           m # NoMset => Held(g.table, g.ttl, g.key, m, k)
    PROVE  Core(g, [ms EXCEPT ![k] = m], L, K \ {k})
<1> DEFINE n == [ms EXCEPT ![k] = m]
           t == g.table
<1>1. g \in Mem /\ ms \in MsetType /\ Agree(t, g.ttl, g.lru, g.key, ms, L, K)
  BY Zenon DEF Core
<1>2. n \in MsetType /\ n[k] = m /\ \A j \in Keys : j # k => n[j] = ms[j]
  BY <1>1, Zenon DEF MsetType
<1>3. g.key \in [Objs -> Keys \cup {NoKey}] /\ TableOK(t) /\ Owned(t, g.key)
  BY <1>1, MemTyped, Zenon DEF Agree
<1> HIDE DEF n, t
<1>4. Reached(t, g.key, n, L)
  <2> SUFFICES ASSUME NEW q \in Objs, g.key[q] # NoKey, q \notin L
               PROVE  InTable(t, q) \/ q = n[g.key[q]].new \/ q \in t.lost
    BY Zenon DEF Reached
  <2>1. CASE g.key[q] = k
    <3>1. InTable(t, q) \/ q = m.new \/ q \in t.lost
      BY <2>1, Zenon DEF t
    <3>2. n[g.key[q]] = m
      BY <1>2, <2>1, Zenon
    <3> QED BY <3>1, <3>2, Zenon
  <2>2. CASE g.key[q] # k
    <3>1. n[g.key[q]] = ms[g.key[q]]
      BY <1>2, <1>3, <2>2, Zenon
    <3> QED BY <1>1, <3>1, Zenon DEF Agree, Reached
  <2> QED BY <2>1, <2>2, Zenon
<1>5. Evictable(t, g.lru, n, L)
  <2> SUFFICES ASSUME NEW e \in Entries(t), e.obj \notin L, e.obj \notin t.dropped, n[e.key] = NoMset
               PROVE  e.obj \in Range(g.lru[Class[e.key]])
    BY Zenon DEF Evictable
  <2>1. CASE e.key = k
    <3>1. m = NoMset
      BY <1>2, <2>1, Zenon
    <3>2. e.obj \in Range(g.lru[Class[k]])
      BY <2>1, <3>1, Zenon DEF t
    <3> QED BY <2>1, <3>2, Zenon
  <2>2. CASE e.key # k
    <3>1. e.key \in Keys
      BY <1>3, EntryFacts, Zenon
    <3>2. ms[e.key] = NoMset
      BY <1>2, <2>2, <3>1, Zenon
    <3> QED BY <1>1, <3>2, Zenon DEF Agree, Evictable
  <2> QED BY <2>1, <2>2, Zenon
<1>6. Locking(t, g.ttl, g.key, n, K \ {k})
  <2> SUFFICES ASSUME NEW j \in Keys, j \notin K \ {k}, n[j] # NoMset
               PROVE  Held(t, g.ttl, g.key, n[j], j)
    BY Zenon DEF Locking
  <2>1. CASE j = k
    <3>1. n[j] = m /\ m # NoMset
      BY <1>2, <2>1, Zenon
    <3>2. Held(t, g.ttl, g.key, m, k)
      BY <3>1, Zenon DEF t
    <3> QED BY <2>1, <3>1, <3>2, Zenon
  <2>2. CASE j # k
    <3>1. n[j] = ms[j] /\ j \notin K
      BY <1>2, <2>2, Zenon
    <3>2. ms[j] # NoMset
      BY <3>1, Zenon
    <3>3. Held(t, g.ttl, g.key, ms[j], j)
      BY <1>1, <3>1, <3>2, Zenon DEF Agree, Locking
    <3> QED BY <3>1, <3>3, Zenon
  <2> QED BY <2>1, <2>2, Zenon
<1>7. Agree(t, g.ttl, g.lru, g.key, n, L, K \ {k})
  BY <1>1, <1>4, <1>5, <1>6, Zenon DEF Agree
<1> QED BY <1>2, <1>7, Zenon DEF Core, n, t
=============================================================================
