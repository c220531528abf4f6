------------------------------ MODULE TtlIndex ------------------------------
(***************************************************************************)
(* The index of expiry times (core/ttl_index.h): a binary heap of nodes    *)
(* [at, obj] in an array, and in every object the place of its node,       *)
(* heap_idx.  The array is heap, counted from 1; heap_idx is 0 for an      *)
(* object that has no node (HEAP_IDX_NONE).                                *)
(***************************************************************************)
EXTENDS Integers, Sequences, FiniteSetsExt

CONSTANT Objs    \* the objects

Front(heap) == SubSeq(heap, 1, Len(heap) - 1)

NoTtl == [heap |-> << >>, heap_idx |-> [o \in Objs |-> 0]]

\* ttl_node_swap, back pointers included.
Swap(h, a, b) ==
    [heap     |-> [h.heap EXCEPT ![a] = h.heap[b], ![b] = h.heap[a]],
     heap_idx |-> [h.heap_idx EXCEPT ![h.heap[b].obj] = a, ![h.heap[a].obj] = b]]

\* One turn of a sifting loop that stands at x.i; a turn that does not swap
\* ends the loop, so further turns change nothing.
UpTurn(x) ==
    LET p == x.i \div 2
    IN  IF x.i > 1 /\ x.h.heap[p].at > x.h.heap[x.i].at
        THEN [i |-> p, h |-> Swap(x.h, p, x.i)] ELSE x

\* The smaller of the node i and its children.
Smallest(heap, i) ==
    LET kids == {c \in {2 * i, 2 * i + 1} : c <= Len(heap) /\ heap[c].at < heap[i].at}
        first == {c \in kids : \A d \in kids : heap[c].at <= heap[d].at}
    IN  IF kids = {} THEN i ELSE Min(first)

DownTurn(x) ==
    LET down(s) == IF s = x.i THEN x ELSE [i |-> s, h |-> Swap(x.h, x.i, s)]
    IN  down(Smallest(x.h.heap, x.i))

SiftUp(h, i) ==
    LET x[n \in 0..Len(h.heap)] == IF n = 0 THEN [i |-> i, h |-> h] ELSE UpTurn(x[n-1])
    IN  x[Len(h.heap)].h

SiftDown(h, i) ==
    LET x[n \in 0..Len(h.heap)] == IF n = 0 THEN [i |-> i, h |-> h] ELSE DownTurn(x[n-1])
    IN  x[Len(h.heap)].h

\* ttl_node_fix.
\* Mutant of Fix: a node is only ever sifted down.
FixDown(h, i) == SiftDown(h, i)

Fix(h, i) ==
    IF i > 1 /\ h.heap[i].at < h.heap[i \div 2].at THEN SiftUp(h, i) ELSE SiftDown(h, i)

Push(h, o, at) ==
    SiftUp([heap     |-> Append(h.heap, [at |-> at, obj |-> o]),
            heap_idx |-> [h.heap_idx EXCEPT ![o] = Len(h.heap) + 1]],
           Len(h.heap) + 1)

Update(h, o, at) == Fix([h EXCEPT !.heap[h.heap_idx[o]].at = at], h.heap_idx[o])

\* The last node takes the place of the node of o.
RemoveNode(h, o) ==
    LET pos  == h.heap_idx[o]
        last == h.heap[Len(h.heap)]
        gone == [heap |-> Front(h.heap), heap_idx |-> [h.heap_idx EXCEPT ![o] = 0]]
    IN  CASE pos = 0 -> h
          [] pos # 0 /\ pos = Len(h.heap) -> gone
          [] OTHER -> Fix([heap     |-> [gone.heap EXCEPT ![pos] = last],
                           heap_idx |-> [gone.heap_idx EXCEPT ![last.obj] = pos]], pos)

\* ttl_index_node_pop; the node itself is Head(h.heap).
Pop(h) ==
    LET last == h.heap[Len(h.heap)]
        gone == [heap     |-> Front(h.heap),
                 heap_idx |-> [h.heap_idx EXCEPT ![Head(h.heap).obj] = 0]]
    IN  IF gone.heap = << >> THEN gone
        ELSE SiftDown([heap     |-> [gone.heap EXCEPT ![1] = last],
                       heap_idx |-> [gone.heap_idx EXCEPT ![last.obj] = 1]], 1)

Due(h, now) == h.heap # << >> /\ Head(h.heap).at <= now
=============================================================================
