------------------------------- MODULE Buddy -------------------------------
(***************************************************************************)
(* The buddy allocator of logical pages (mem/mem_buddy.h), as operators on *)
(* its state: the flags of every page and one LIFO list of free blocks per *)
(* order.  Freed blocks are merged with their buddies only when            *)
(* buddy_span_check finds no block that is large enough.                   *)
(***************************************************************************)
EXTENDS Integers, Sequences, FiniteSets, FiniteSetsExt, SequencesExt

CONSTANTS
    NrPages,    \* pages of the reserved range
    MaxOrder    \* BUDDY_MAX_ORDER

ASSUME BuddyAssumption == NrPages \in Nat \ {0} /\ MaxOrder \in Nat \ {0}

INVALID == -1
AllPages == 0..NrPages-1
Orders == 0..MaxOrder-1

\* The pages of a block or a span.
Run(i, n) == i..i+n-1

\* buddy_alloc_init, on zeroed pages.
NoPages ==
    [nr_pages    |-> 0,
     free        |-> [p \in AllPages |-> FALSE],
     buddy_order |-> [p \in AllPages |-> 0],
     span_size   |-> [p \in AllPages |-> 0],
     free_heads  |-> [o \in Orders |-> << >>]]

CeilLog2(n) == Min({o \in 0..n : 2^o >= n})

PushBlock(b, i, o) ==
    [b EXCEPT !.buddy_order[i] = o, !.free_heads[o] = <<i>> \o @]

RemoveBlock(b, i) ==
    [b EXCEPT !.free_heads[b.buddy_order[i]] = Remove(@, i)]

\* The order of the block that starts at pos when the pages up to last are
\* freed: no longer than what remains, aligned to its size.
BlockOrder(pos, last) ==
    Max({o \in Orders : 2^o <= last - pos + 1 /\ pos % 2^o = 0})

\* Position and allocator after page p of a span up to last: a block is pushed
\* at each page where the last one ended.
FreeBlockAt(a, p, last) ==
    IF p # a.pos THEN a
    ELSE LET o == BlockOrder(p, last)
         IN  [pos |-> p + 2^o, b |-> PushBlock(a.b, p, o)]

SpanFree(b, i, n) ==
    LET run     == Run(i, n)
        cleared == [b EXCEPT
            !.free        = [p \in AllPages |-> p \in run \/ @[p]],
            !.span_size   = [p \in AllPages |-> IF p \in run THEN 0 ELSE @[p]],
            !.buddy_order = [p \in AllPages |-> IF p \in run THEN 0 ELSE @[p]]]
        step(a, p) == FreeBlockAt(a, p, i + n - 1)
    IN  FoldLeft(step, [pos |-> i, b |-> cleared], [k \in 1..n |-> i + k - 1]).b

\* One block idx of order ord with its buddy, if the buddy is a free block of
\* the same order.
MergeWithBuddy(b, idx, ord) ==
    LET even   == idx - (idx % 2^(ord + 1))
        buddy  == IF idx = even THEN idx + 2^ord ELSE even
    IN  IF /\ Contains(b.free_heads[ord], idx)
           /\ buddy < b.nr_pages /\ b.free[buddy] /\ b.buddy_order[buddy] = ord
        THEN PushBlock(RemoveBlock(RemoveBlock(b, idx), buddy), even, ord + 1)
        ELSE b

\* Order by order, until there is a block of the target order.
\* Mutant of SpanCoalesce: the lowest order is left out.
SpanCoalesceFromOne(b, target) ==
    LET merge(c, ord) ==
          IF c.free_heads[target] # << >> THEN c
          ELSE FoldLeft(LAMBDA d, idx : MergeWithBuddy(d, idx, ord), c,
                        c.free_heads[ord])
    IN  FoldLeft(merge, b, [k \in 1..target-1 |-> k])

SpanCoalesce(b, target) ==
    LET merge(c, ord) ==
          IF c.free_heads[target] # << >> THEN c
          ELSE FoldLeft(LAMBDA d, idx : MergeWithBuddy(d, idx, ord), c,
                        c.free_heads[ord])
    IN  FoldLeft(merge, b, [k \in 1..target |-> k - 1])

HasBlock(b, order) == \E o \in order..MaxOrder-1 : b.free_heads[o] # << >>

\* buddy_span_check(n): whether n pages could be allocated, and the allocator
\* after the coalescing that may have taken place.
SpanCheck(b, n) ==
    LET target   == CeilLog2(n)
        after(c) == [ok |-> c.free_heads[target] # << >>, b |-> c]
    IN  CASE target >= MaxOrder  -> [ok |-> FALSE, b |-> b]
          [] HasBlock(b, target) -> [ok |-> TRUE, b |-> b]
          [] OTHER               -> after(SpanCoalesce(b, target))

\* The block idx of order found cut down to one of order: the halves go free.
Split(b, idx, found, order) ==
    FoldLeft(LAMBDA c, o : PushBlock([c EXCEPT !.free[idx + 2^o] = TRUE],
                                     idx + 2^o, o),
             RemoveBlock(b, idx), [k \in 1..found-order |-> found - k])

\* The first n pages of the block idx of order are taken, the rest is freed.
\* Mutant of TakePages: the rest of the block is forgotten.
TakePagesOnly(b, idx, n, order) ==
    LET run == Run(idx, n)
    IN  [idx |-> idx,
         b   |-> [b EXCEPT
            !.free        = [p \in AllPages |-> p \notin run /\ @[p]],
            !.span_size   = [p \in AllPages |-> IF p \in run THEN n ELSE @[p]],
            !.buddy_order = [p \in AllPages |-> IF p \in run THEN 0 ELSE @[p]]]]

TakePages(b, idx, n, order) ==
    LET run   == Run(idx, n)
        taken == [b EXCEPT
            !.free        = [p \in AllPages |-> p \notin run /\ @[p]],
            !.span_size   = [p \in AllPages |-> IF p \in run THEN n ELSE @[p]],
            !.buddy_order = [p \in AllPages |-> IF p \in run THEN 0 ELSE @[p]]]
    IN  [idx |-> idx,
         b   |-> IF 2^order = n THEN taken
                 ELSE SpanFree(taken, idx + n, 2^order - n)]

\* buddy_span_alloc(n): from the head of the smallest order with a block.
SpanAlloc(b, n) ==
    LET order       == CeilLog2(n)
        found       == Min({o \in order..MaxOrder-1 : b.free_heads[o] # << >>})
        from(idx, o) == TakePages(Split(b, idx, o, order), idx, n, order)
    IN  IF HasBlock(b, order) THEN from(Head(b.free_heads[found]), found)
        ELSE [idx |-> INVALID, b |-> b]

\* The free blocks as <<first page, order>>.
FreeBlocks(b) ==
    UNION {{<<i, o>> : i \in ToSet(b.free_heads[o])} : o \in Orders}
===========================================================================
