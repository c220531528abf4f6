------------------------------- MODULE Heap -------------------------------
(***************************************************************************)
(* The memory of one shard (mem/mem_pool.c, mem/mem_api.c, mem/mem_heap.c):*)
(* pools of small objects in spans of pages, large objects straight from   *)
(* the buddy allocator, and the frees of the snapshot worker, which reach  *)
(* a pool later, through its merge queue.                                  *)
(*                                                                         *)
(* A span is named by its first page.  Which object of a span is allocated *)
(* does not matter, only how many are, so a free list is a number.  The    *)
(* descriptor of a span (struct span_info) is itself an object of the meta *)
(* pool; the descriptor of a meta span is its own first object.            *)
(***************************************************************************)
EXTENDS Buddy

CONSTANTS
    Pools,          \* the pools of small objects
    Meta,           \* span_meta_pool
    Lpages,         \* lpages_per_span of a pool
    Objs,           \* objs_per_span
    SpanInfoSized,  \* pools whose obj_size is sizeof(struct span_info)
    LargeSizes,     \* bound: sizes of large objects, in pages
    MaxLarge,       \* bound: large objects at a time
    MaxSpans,       \* bound: spans of a pool of small objects
    HPage,          \* pages by which the heap grows
    QSize,          \* merge_q_size
    IncLimit        \* spans merged by one incremental merge

ASSUME PoolsAssumption ==
    /\ Meta \notin Pools /\ SpanInfoSized \subseteq Pools
    /\ Lpages \in [Pools \cup {Meta} -> Nat \ {0}]
    /\ Objs \in [Pools \cup {Meta} -> Nat \ {0}] /\ Objs[Meta] > 1

VARIABLES
    h,      \* buddy allocator, spans, span lists, merge queues, large objects
    w       \* the worker: snapshot in progress, page and span it is at

vars == <<h, w>>

NoSpan == [pool |-> "none"]
NoPage == -1

---------------------------------------------------------------------------
(* Spans.                                                                  *)

NewSpan(pool, info, nr_alloc) ==
    [pool |-> pool, info |-> info, nr_alloc |-> nr_alloc,
     freelist |-> Objs[pool] - nr_alloc, snap_freelist |-> 0]

\* pool_obj_alloc on a pool with a partial span.
TakeObj(g, pool) ==
    LET s == Head(g.partial[pool])
    IN  [g EXCEPT !.span[s].freelist = @ - 1,
                  !.span[s].nr_alloc = @ + 1,
                  !.partial[pool] = IF g.span[s].freelist = 1 THEN Tail(@) ELSE @]

\* Put span s at the head of the list its counters call for.
\* Mutant of Relist: an emptied span stays in the partial list as well.
RelistTwice(g, pool, s, was_full, keeps, moves) ==
    LET out == IF was_full \/ ~moves THEN g.partial[pool] ELSE Remove(g.partial[pool], s)
    IN  IF g.span[s].nr_alloc = 0 /\ ~keeps
        THEN [g EXCEPT !.empty[pool] = <<s>> \o @]
        ELSE IF was_full \/ moves THEN [g EXCEPT !.partial[pool] = <<s>> \o out] ELSE g

Relist(g, pool, s, was_full, keeps, moves) ==
    LET out == IF was_full THEN g.partial[pool] ELSE Remove(g.partial[pool], s)
    IN  IF g.span[s].nr_alloc = 0 /\ ~keeps
        THEN [g EXCEPT !.partial[pool] = out, !.empty[pool] = <<s>> \o @]
        ELSE IF was_full \/ moves THEN [g EXCEPT !.partial[pool] = <<s>> \o out] ELSE g

\* pool_obj_free: spans of the meta pool, and of the pool with objects of the
\* same size, stay in the partial list when they become empty.
ObjFree(g, s) ==
    LET pool == g.span[s].pool
        freed == [g EXCEPT !.span[s].freelist = @ + 1, !.span[s].nr_alloc = @ - 1]
    IN  Relist(freed, pool, s, g.span[s].freelist = 0,
               pool \in SpanInfoSized \cup {Meta}, TRUE)

\* span_merge_logic: the objects the worker freed become free.
MergeSpan(g, pool, s) ==
    IF g.span[s] = NoSpan \/ g.span[s].snap_freelist = 0 THEN g
    ELSE LET n == g.span[s].snap_freelist
             merged == [g EXCEPT !.span[s].freelist = @ + n,
                                 !.span[s].nr_alloc = @ - n,
                                 !.span[s].snap_freelist = 0]
         IN  Relist(merged, pool, s, g.span[s].freelist = 0, FALSE, FALSE)

MergeSpans(g, pool, ss) == FoldLeft(LAMBDA f, s : MergeSpan(f, pool, s), g, ss)

MergeIncremental(g, pool, limit) ==
    LET n == Min({limit, Len(g.merge_queue[pool])})
    IN  [MergeSpans(g, pool, SubSeq(g.merge_queue[pool], 1, n))
           EXCEPT !.merge_queue[pool] = SubSeq(@, n + 1, Len(@))]

\* pool_snap_merge: the queue, then the stack that takes its overflow.
SnapMerge(g, pool) ==
    [MergeSpans(MergeIncremental(g, pool, QSize), pool, g.to_merge[pool])
       EXCEPT !.to_merge[pool] = << >>]

\* What pool_obj_alloc does before it asks for more pages.
MergeFor(g, pool) ==
    LET rest(f) == IF f.partial[pool] # << >> THEN f ELSE SnapMerge(f, pool)
    IN  IF g.partial[pool] # << >> THEN g
        ELSE rest(MergeIncremental(g, pool, IncLimit))

Failed(g) == [ok |-> FALSE, h |-> g, s |-> NoPage]
Taken(g, pool) == [ok |-> TRUE, h |-> TakeObj(g, pool), s |-> Head(g.partial[pool])]

\* pool_obj_alloc on the meta pool.  The span it asks for first, a1, is not
\* the one pool_meta_alloc makes, a2: its pages are never used nor freed.
MetaSpan(g, a1, a2) ==
    IF a2.idx = INVALID
    THEN Failed([g EXCEPT !.b = SpanFree(a1.b, a1.idx, Lpages[Meta])])
    ELSE Taken([g EXCEPT !.b = a2.b,
                         !.span[a2.idx] = NewSpan(Meta, a2.idx, 1),
                         !.partial[Meta] = <<a2.idx>>,
                         !.leaked = @ \cup Run(a1.idx, Lpages[Meta])], Meta)

MetaObjAlloc(g) ==
    LET then(a) == IF a.idx = INVALID THEN Failed(g)
                   ELSE MetaSpan(g, a, SpanAlloc(a.b, Lpages[Meta]))
    IN  IF g.partial[Meta] # << >> THEN Taken(g, Meta)
        ELSE then(SpanAlloc(g.b, Lpages[Meta]))

\* pool_obj_alloc on another pool: a new span s needs pages and a descriptor,
\* the outcome m of asking the meta pool for it.
Described(m, s, pool) ==
    IF ~m.ok THEN Failed([m.h EXCEPT !.b = SpanFree(m.h.b, s, Lpages[pool])])
    ELSE Taken([m.h EXCEPT !.span[s] = NewSpan(pool, m.s, 0),
                           !.partial[pool] = <<s>>], pool)

ObjAllocMerged(g, pool) ==
    LET then(a) == IF a.idx = INVALID THEN Failed(g)
                   ELSE Described(MetaObjAlloc([g EXCEPT !.b = a.b]), a.idx, pool)
    IN  IF g.partial[pool] # << >> THEN Taken(g, pool)
        ELSE then(SpanAlloc(g.b, Lpages[pool]))

ObjAlloc(g, pool) == ObjAllocMerged(MergeFor(g, pool), pool)

---------------------------------------------------------------------------
(* Growing, under the memory limit and the pressure of the machine.        *)

\* pool_span_force_reclaim_all: the empty spans and their descriptors.
\* Mutant of ReclaimSpan: the descriptor is kept.
ReclaimSpanKeepingInfo(g, s) ==
    LET pool == g.span[s].pool
    IN  [g EXCEPT !.b = SpanFree(g.b, s, Lpages[pool]),
                  !.empty[pool] = Remove(@, s),
                  !.span[s] = NoSpan]

ReclaimSpan(g, s) ==
    LET pool == g.span[s].pool
        back == [g EXCEPT !.b = SpanFree(g.b, s, Lpages[pool]),
                          !.empty[pool] = Remove(@, s),
                          !.span[s] = NoSpan]
    IN  ObjFree(back, g.span[s].info)

Reclaim(g) ==
    FoldLeft(LAMBDA f, s : ReclaimSpan(f, s), g,
             FlattenSeq(SetToSeq({g.empty[pool] : pool \in Pools})))

\* A victim of shard_mem_evict whose last reference goes: one object of a
\* span, or a large object.
Victims(g) ==
    {s \in AllPages : g.span[s] # NoSpan /\ g.span[s].pool # Meta
                      /\ g.span[s].nr_alloc > g.span[s].snap_freelist} \cup g.large

FreeObject(g, s) ==
    IF s \in g.large
    THEN [g EXCEPT !.b = SpanFree(g.b, s, g.b.span_size[s]), !.large = @ \ {s}]
    ELSE ObjFree(g, s)

\* shard_mem_evict(HPage pages), called when the machine is short of memory:
\* V is what eviction gets back, nothing or one object.
Evict(g, V) ==
    LET outcome(c, f) == [ok |-> c.ok, h |-> [f EXCEPT !.b = c.b]]
        last(f)       == outcome(SpanCheck(f.b, HPage), f)
        next(e)       == IF e.ok \/ V = {} THEN e
                         ELSE last(FreeObject(e.h, CHOOSE v \in V : TRUE))
    IN  next(last(Reclaim(g)))

\* HPage more pages.
Commit(g) ==
    [ok |-> TRUE,
     h  |-> [g EXCEPT !.b = SpanFree([g.b EXCEPT !.nr_pages = @ + HPage],
                                     g.b.nr_pages, HPage)]]

\* mem_data_grow: refused beyond the limit, and under pressure unless evicting
\* helps and relieves it.
Grow(g, pressure, V) ==
    LET under(e) == IF e.ok /\ pressure = "relieved" THEN Commit(e.h)
                    ELSE [ok |-> FALSE, h |-> e.h]
    IN  CASE g.b.nr_pages + HPage > NrPages -> [ok |-> FALSE, h |-> g]
          [] g.b.nr_pages + HPage <= NrPages /\ pressure = "none" -> Commit(g)
          [] OTHER -> under(Evict(g, V))

---------------------------------------------------------------------------
(* The shard thread.                                                       *)

\* The pressure and the victims matter only when the heap may still grow.
Inputs(pressure, V) ==
    /\ pressure = "none" => V = {}
    /\ pressure # "none" => h.b.nr_pages + HPage <= NrPages

\* mem_malloc: from the pool or the buddy, else after growing the heap once.
MallocSmall(pool, pressure, V) ==
    LET again(g) == IF g.ok THEN ObjAlloc(g.h, pool).h ELSE g.h
        then(a)  == IF a.ok THEN a.h ELSE again(Grow(a.h, pressure, V))
    IN  /\ \/ h.partial[pool] # << >>
           \/ Cardinality({s \in AllPages : h.span[s].pool = pool}) < MaxSpans
        /\ Inputs(pressure, V)
        /\ h' = then(ObjAlloc(h, pool))
        /\ UNCHANGED w

LargeAlloc(g, n) ==
    LET then(a) == IF a.idx = INVALID THEN Failed(g)
                   ELSE [ok |-> TRUE, s |-> a.idx,
                         h  |-> [g EXCEPT !.b = a.b, !.large = @ \cup {a.idx}]]
    IN  then(SpanAlloc(g.b, n))

MallocLarge(n, pressure, V) ==
    LET again(g) == IF g.ok THEN LargeAlloc(g.h, n).h ELSE g.h
        then(a)  == IF a.ok THEN a.h ELSE again(Grow(a.h, pressure, V))
    IN  /\ Cardinality(h.large) + Len(h.snap_large_freelist) < MaxLarge
        /\ Inputs(pressure, V)
        /\ h' = then(LargeAlloc(h, n))
        /\ UNCHANGED w

\* mem_free.
MemFree(s) ==
    /\ h' = FreeObject(h, s)
    /\ UNCHANGED w

\* The allocator's part of snap_engine_tick.
Tick ==
    /\ ~w.busy
    /\ LET merged == FoldLeft(SnapMerge, h, SetToSeq(Pools \cup {Meta}))
           free(g, s) == [g EXCEPT !.b = SpanFree(g.b, s, g.b.span_size[s])]
       IN  h' = [FoldLeft(free, merged, h.snap_large_freelist)
                   EXCEPT !.snap_large_freelist = << >>]
    /\ w' = [busy |-> TRUE, page |-> NoPage, span |-> NoPage]

---------------------------------------------------------------------------
(* The worker thread, in page order.                                       *)

\* Leaving a span: it is queued for the shard if anything was freed in it.
\* If the span was reclaimed meanwhile, the worker still reads an empty
\* snap_freelist in its descriptor, since pages of the meta pool stay.
\* Mutant of Enqueue: the span is queued whether or not anything was freed.
EnqueueAlways(g, s) ==
    IF s = NoPage THEN g
    ELSE IF g.span[s] = NoSpan THEN g
    ELSE [g EXCEPT !.merge_queue[g.span[s].pool] = Append(@, s)]

Enqueue(g, s) ==
    IF s = NoPage THEN g
    ELSE IF g.span[s] = NoSpan THEN g
    ELSE IF g.span[s].snap_freelist = 0 THEN g
    ELSE LET pool == g.span[s].pool
         IN  IF Len(g.merge_queue[pool]) < QSize - 1
             THEN [g EXCEPT !.merge_queue[pool] = Append(@, s)]
             ELSE [g EXCEPT !.to_merge[pool] = <<s>> \o @]

\* The worker comes to a dirty page of another span.
SnapVisit(s) ==
    /\ w.busy
    /\ s > w.page
    /\ h' = Enqueue(h, w.span)
    /\ w' = [w EXCEPT !.page = s, !.span = s]

\* mem_snap_free of an object of the span the worker is at, or a large one.
SnapFreeSmall ==
    /\ w.span \in Victims(h)
    /\ h' = [h EXCEPT !.span[w.span].snap_freelist = @ + 1]
    /\ UNCHANGED w

SnapFreeLarge(s) ==
    /\ w.busy
    /\ s > w.page
    /\ h' = [Enqueue(h, w.span) EXCEPT !.large = @ \ {s},
                                       !.snap_large_freelist = <<s>> \o @]
    /\ w' = [w EXCEPT !.page = s, !.span = NoPage]

\* The end of the epoch; after a failed write the last span is not queued.
SnapEnd(failed) ==
    /\ w.busy
    /\ h' = IF failed THEN h ELSE Enqueue(h, w.span)
    /\ w' = [busy |-> FALSE, page |-> NoPage, span |-> NoPage]

---------------------------------------------------------------------------
Empty(S) == [p \in S |-> << >>]

Init ==
    /\ h = [b |-> SpanFree([NoPages EXCEPT !.nr_pages = HPage], 0, HPage),
            span |-> [p \in AllPages |-> NoSpan],
            partial |-> Empty(Pools \cup {Meta}), empty |-> Empty(Pools \cup {Meta}),
            merge_queue |-> Empty(Pools \cup {Meta}),
            to_merge |-> Empty(Pools \cup {Meta}),
            large |-> {}, snap_large_freelist |-> << >>, leaked |-> {}]
    /\ w = [busy |-> FALSE, page |-> NoPage, span |-> NoPage]

Pressures == {"none", "relieved", "critical"}

\* MemFree and an eviction take any object in use.
Evictions == {{}} \cup {{v} : v \in Victims(h)}

Next ==
    \/ \E pool \in Pools, pr \in Pressures, V \in Evictions : MallocSmall(pool, pr, V)
    \/ \E n \in LargeSizes, pr \in Pressures, V \in Evictions : MallocLarge(n, pr, V)
    \/ \E s \in Victims(h) : MemFree(s)
    \/ Tick
    \/ \E s \in Victims(h) \ h.large : SnapVisit(s)
    \/ SnapFreeSmall
    \/ \E s \in h.large : SnapFreeLarge(s)
    \/ \E failed \in BOOLEAN : SnapEnd(failed)

Spec == Init /\ [][Next]_vars

---------------------------------------------------------------------------
(* Properties.                                                             *)

Spans == {s \in AllPages : h.span[s] # NoSpan}
LargeHeads == h.large \cup ToSet(h.snap_large_freelist)

BlocksOfBuddy == {<<f[1], 2^f[2]>> : f \in FreeBlocks(h.b)}

\* Everything that owns pages, as <<kind, first page, number of pages>>.
Owned ==
    {<<"block">> \o f : f \in BlocksOfBuddy}
    \cup {<<"span", s, Lpages[h.span[s].pool]>> : s \in Spans}
    \cup {<<"large", s, h.b.span_size[s]>> : s \in LargeHeads}
    \cup {<<"leaked", p, 1>> : p \in h.leaked}

\* Splitting, freeing in odd pieces, coalescing, growing and reclaiming never
\* lose a page nor give it to two owners, and the flags that coalescing trusts
\* say of every page whether it is free.  The only pages without an owner are
\* those pool_obj_alloc drops when the meta pool grows (leaked).
PagesAccounted ==
    /\ UNION {Run(o[2], o[3]) : o \in Owned} = Run(0, h.b.nr_pages)
    /\ FoldSet(LAMBDA o, n : n + o[3], 0, Owned) = h.b.nr_pages
    /\ UNION {Run(f[1], f[2]) : f \in BlocksOfBuddy} = {p \in AllPages : h.b.free[p]}

FreeRun(n) ==
    \E i \in AllPages :
      /\ i % n = 0 /\ i + n <= h.b.nr_pages
      /\ \A p \in Run(i, n) : h.b.free[p]

\* buddy_span_check, on which eviction relies to stop, is exact: it says yes
\* if and only if some aligned run of free pages is long enough, however
\* scattered over the lists its pieces are.
CheckIsExact ==
    \A n \in {2^o : o \in Orders} : SpanCheck(h.b, n).ok <=> FreeRun(n)

\* The list a span is in follows its counters, whichever thread freed its
\* objects: it is in no list when it is full, in exactly one otherwise, and
\* only spans without objects are in the list that reclaiming empties.
SpansListed ==
    \A s \in Spans :
      LET r == h.span[s]
          partial == h.partial[r.pool]
          empty   == h.empty[r.pool]
          times   == Cardinality({i \in DOMAIN partial : partial[i] = s})
                     + Cardinality({i \in DOMAIN empty : empty[i] = s})
      IN  /\ r.freelist + r.nr_alloc = Objs[r.pool]
          /\ times = IF r.freelist = 0 THEN 0 ELSE 1
          /\ Contains(empty, s) => r.nr_alloc = 0
          /\ (r.nr_alloc = 0 /\ r.pool \notin SpanInfoSized) => Contains(empty, s)

\* A span waits in the merge queue or on its overflow stack at most once (the
\* stack is linked through the span), still belongs to the pool, and its
\* objects the worker freed keep it from being reclaimed meanwhile.
QueuedSpansStay ==
    \A pool \in Pools :
      LET q == h.merge_queue[pool] \o h.to_merge[pool]
      IN  \A i \in DOMAIN q :
            /\ \A j \in DOMAIN q : i # j => q[i] # q[j]
            /\ q[i] \in Spans
            /\ h.span[q[i]].pool = pool
            /\ h.span[q[i]].nr_alloc >= h.span[q[i]].snap_freelist
            /\ h.span[q[i]].snap_freelist > 0

\* Every descriptor of a span is one object of the meta pool, and the meta
\* pool holds nothing else: error paths and reclaiming give descriptors back.
DescriptorsHeld ==
    \A m \in Spans :
      h.span[m].pool = Meta =>
        h.span[m].nr_alloc = Cardinality({s \in Spans : h.span[s].info = m})
===========================================================================
