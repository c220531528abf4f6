------------------------------- MODULE Htable -------------------------------
(***************************************************************************)
(* The hash table of a shard (hashtable/htable.c), as operators on its     *)
(* state: an array of buckets that is doubled in place and rehashed a few  *)
(* buckets at a time, with a pool of overflow buckets.  A chain is the     *)
(* primary bucket followed by its overflow buckets; no operation leaves    *)
(* overflow buckets behind an empty primary, so a chain is a sequence of   *)
(* entries of which all but the first occupy an overflow bucket.           *)
(***************************************************************************)
EXTENDS Integers, Sequences, FiniteSets, FiniteSetsExt

CONSTANTS
    Keys,
    Hash,          \* hash of a key
    InitCap,       \* buckets at the start
    MaxCap,        \* buckets the reserved range of the arena has room for
    InitOvf,       \* overflow buckets at the start
    MaxOvf,        \* overflow buckets the arena has room for
    RehashStep     \* HT_REHASH_STEP, buckets moved by one put

ASSUME HtableAssumption ==
    /\ Hash \in [Keys -> Nat] /\ MaxCap \in Nat /\ MaxOvf \in Nat
    /\ InitCap \in 1..MaxCap /\ InitOvf \in 0..MaxOvf /\ RehashStep \in Nat \ {0}

NoObj == 0
Nowhere == <<-1, 0>>
Buckets == 0..MaxCap-1

\* ht_table_create.  lost and dropped are no part of the code's state: the
\* objects whose entry a rehash has thrown away, and those it has thrown away
\* since they were last put on their LRU list, back in the table or not.
NewTable ==
    [buckets |-> [i \in Buckets |-> << >>],
     cap |-> InitCap, old_cap |-> 0, used |-> 0,
     rehash_idx |-> -1, rehash_disabled |-> FALSE,
     ovf_pool_cap |-> InitOvf, ovf_free |-> InitOvf,
     lost |-> {}, dropped |-> {}]

\* A sequence without its i-th element.
Cut(s, i) == SubSeq(s, 1, i - 1) \o SubSeq(s, i + 1, Len(s))

Index(k, cap) == Hash[k] % cap
Entry(k, o, at) == [key |-> k, obj |-> o, expire |-> at, locked |-> FALSE]

\* ht_ovf_bucket_alloc: the pool is doubled when it is empty.  room says
\* whether linear_arena_grow succeeds.
OvfAlloc(t, room) ==
    LET newcap == Min({MaxOvf, 2 * Max({t.ovf_pool_cap, 1})})
    IN  CASE t.ovf_free > 0 -> [ok |-> TRUE, t |-> [t EXCEPT !.ovf_free = @ - 1]]
          [] t.ovf_free = 0 /\ t.ovf_pool_cap < MaxOvf /\ room ->
               [ok |-> TRUE,
                t  |-> [t EXCEPT !.ovf_free = newcap - t.ovf_pool_cap - 1,
                                 !.ovf_pool_cap = newcap]]
          [] OTHER -> [ok |-> FALSE, t |-> t]

ChainInsert(t, i, e, room) ==
    LET linked(a) == IF a.ok THEN [a EXCEPT !.t.buckets[i] = Append(@, e)] ELSE a
    IN  IF t.buckets[i] = << >>
        THEN [ok |-> TRUE, t |-> [t EXCEPT !.buckets[i] = <<e>>]]
        ELSE linked(OvfAlloc(t, room))

\* ht_rehash_tick moves the primary entry of a bucket first; one that stays is
\* alone in its bucket again.  It does not look at what the insertion returns:
\* the bucket is cleared all the same.
MovePrimary(t, e, room) ==
    LET after(r) == IF r.ok THEN r.t
                    ELSE [r.t EXCEPT !.lost = @ \cup {e.obj}, !.dropped = @ \cup {e.obj}]
    IN  after(ChainInsert(t, Index(e.key, t.cap), e, room))

\* An overflow bucket keeps its memory unless the new primary is empty.
MoveOverflow(t, e) ==
    LET to == Index(e.key, t.cap)
    IN  IF t.buckets[to] = << >>
        THEN [t EXCEPT !.buckets[to] = <<e>>, !.ovf_free = @ + 1]
        ELSE [t EXCEPT !.buckets[to] = Append(@, e)]

MoveEntry(chain, room, n, t) ==
    IF n = 1 THEN MovePrimary(t, chain[1], room) ELSE MoveOverflow(t, chain[n])

MoveBucket(t, i, room) ==
    LET chain == t.buckets[i]
        moved[n \in 0..Len(chain)] ==
          IF n = 0 THEN [t EXCEPT !.buckets[i] = << >>]
          ELSE MoveEntry(chain, room, n, moved[n-1])
    IN  moved[Len(chain)]

RehashEnd(t) ==
    IF t.rehash_idx >= t.old_cap
    THEN [t EXCEPT !.old_cap = 0, !.rehash_idx = -1] ELSE t

RehashOne(t, room) ==
    IF t.rehash_idx >= t.old_cap THEN t
    ELSE MoveBucket([t EXCEPT !.rehash_idx = @ + 1], t.rehash_idx, room)

RehashTick(t, room) ==
    LET ticked[n \in 0..RehashStep] ==
          IF n = 0 THEN t ELSE RehashOne(ticked[n-1], room)
    IN  RehashEnd(ticked[RehashStep])

\* Load above HT_LOAD_MAX, 1.2.  A start that fails is never tried again.
RehashStart(t, room) ==
    CASE t.rehash_disabled \/ t.rehash_idx >= 0 \/ 5 * t.used <= 6 * t.cap -> t
      [] OTHER -> IF 2 * t.cap <= MaxCap /\ room
                  THEN [t EXCEPT !.old_cap = t.cap, !.cap = 2 * t.cap,
                                 !.rehash_idx = 0]
                  ELSE [t EXCEPT !.rehash_disabled = TRUE]

\* ht_chain_node_find, as <<bucket, place in its chain>>.
ChainFind(t, i, k) ==
    LET at == {j \in DOMAIN t.buckets[i] : t.buckets[i][j].key = k}
    IN  IF at = {} THEN Nowhere ELSE <<i, Min(at)>>

\* ht_key_lookup: during a rehash a key may be in its old or its new bucket.
\* Mutant of Locate: a bucket that is about to be moved counts as moved.
LocateOne(t, k) ==
    LET old == IF t.rehash_idx < 0 THEN 0 ELSE Index(k, t.old_cap)
        found(p) == IF p # Nowhere THEN p ELSE ChainFind(t, Index(k, t.cap), k)
    IN  IF t.rehash_idx < 0 \/ old <= t.rehash_idx
        THEN ChainFind(t, Index(k, t.cap), k) ELSE found(ChainFind(t, old, k))

Locate(t, k) ==
    LET old == IF t.rehash_idx < 0 THEN 0 ELSE Index(k, t.old_cap)
        found(p) == IF p # Nowhere THEN p ELSE ChainFind(t, Index(k, t.cap), k)
    IN  IF t.rehash_idx < 0 \/ old < t.rehash_idx
        THEN ChainFind(t, Index(k, t.cap), k) ELSE found(ChainFind(t, old, k))

At(t, p) == t.buckets[p[1]][p[2]]

\* ht_bucket_get with time 0: the object of a key, expired or not.
ObjOf(t, k) ==
    LET of(p) == IF p = Nowhere THEN NoObj ELSE At(t, p).obj
    IN  of(Locate(t, k))

\* ht_bucket_is_locked.
IsLocked(t, k) ==
    LET of(p) == p # Nowhere /\ At(t, p).locked
    IN  of(Locate(t, k))

\* ht_bucket_node_unlink: an entry that is not alone frees an overflow bucket,
\* its own or the one whose content moves up into the primary.
Unlink(t, p) ==
    [t EXCEPT !.buckets[p[1]] = Cut(@, p[2]), !.used = @ - 1,
              !.ovf_free = IF Len(t.buckets[p[1]]) > 1 THEN @ + 1 ELSE @]

\* ht_bucket_put without NX or XX, which no caller passes: the new table, the
\* object that was replaced, and whether the entry is in.  Replacing writes the
\* whole meta word, the lock bit included.
Put(t, e, room) ==
    LET in(u) == [u EXCEPT !.lost = @ \ {e.obj}]
        inserted(r) ==
          IF r.ok THEN [ok |-> TRUE, old |-> NoObj, t |-> in([r.t EXCEPT !.used = @ + 1])]
          ELSE [ok |-> FALSE, old |-> NoObj, t |-> r.t]
        placed(u, p) ==
          IF p = Nowhere THEN inserted(ChainInsert(u, Index(e.key, u.cap), e, room))
          ELSE [ok |-> TRUE, old |-> At(u, p).obj,
                t |-> in([u EXCEPT !.buckets[p[1]][p[2]] = e])]
        started(u) == placed(u, Locate(u, e.key))
        ticked(u) == started(RehashStart(u, room))
    IN  ticked(IF t.rehash_idx >= 0 THEN RehashTick(t, room) ELSE t)

\* ht_bucket_set_lock_status.
SetLockStatus(t, k, locked) ==
    LET at(p) == IF p = Nowhere THEN t
                 ELSE [t EXCEPT !.buckets[p[1]][p[2]].locked = locked]
    IN  at(Locate(t, k))

\* ht_bucket_take, and ht_bucket_take_if_unlocked of the object o.
Take(t, k) ==
    LET at(p) == IF p = Nowhere THEN t ELSE Unlink(t, p)
    IN  at(Locate(t, k))

TakeIfUnlocked(t, k, o) ==
    LET none == [taken |-> FALSE, locked |-> FALSE, t |-> t]
        of(p, e) == CASE e.obj # o -> none
                      [] e.obj = o /\ e.locked -> [none EXCEPT !.locked = TRUE]
                      [] OTHER -> [none EXCEPT !.taken = TRUE, !.t = Unlink(t, p)]
        at(p) == IF p = Nowhere THEN none ELSE of(p, At(t, p))
    IN  at(Locate(t, k))

\* ht_expire_get; -1 without the key.
ExpireGet(t, k) ==
    LET of(p) == IF p = Nowhere THEN -1 ELSE At(t, p).expire
    IN  of(Locate(t, k))

\* Every entry, wherever it is.
Entries(t) == UNION {Range(t.buckets[i]) : i \in Buckets}
NrEntries(t) == Cardinality(UNION {{i} \X DOMAIN t.buckets[i] : i \in Buckets})
OvfUsed(t) == NrEntries(t) - Cardinality({i \in Buckets : t.buckets[i] # << >>})

\* ht_table_flush: the array keeps its size.
FlushTable(t) ==
    [t EXCEPT !.buckets = [i \in Buckets |-> << >>],
              !.ovf_free = @ + OvfUsed(t), !.old_cap = 0, !.rehash_idx = -1,
              !.used = 0]
=============================================================================
