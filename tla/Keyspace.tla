------------------------------ MODULE Keyspace ------------------------------
(***************************************************************************)
(* The keys of one shard (core/shard.c): the objects, the hash table that  *)
(* finds them, the LRU lists that say which to evict and the TTL index     *)
(* that says which have expired.  Every command works on all of them.  All *)
(* runs on the shard's thread; what interleaves are commands, the expiry   *)
(* drain of the reactor's timer and the two phases of an MSET, which locks *)
(* its keys in between.                                                    *)
(***************************************************************************)
EXTENDS Htable, TtlIndex

CONSTANTS
    Class,        \* LRU list of a key's objects (pool_idx); the last is the
                  \* list of large objects
    NrClasses,    \* LRU_POOLS
    Home,         \* address -> the key whose objects live there: a bound on
                  \* the addresses malloc may choose from
    Quota,        \* objects the shard's memory limit has room for
    Times,        \* expiry times
    TtlKeys,      \* keys that are given one
    MaxTime,      \* bound on the clock
    MaxMsets,     \* bound on the keys locked at a time
    EvictBatch,   \* 100 in shard_mem_evict
    MaxWork       \* max_work of shard_ttl_drain

NoKey == "no key"

ASSUME KeyspaceAssumption ==
    /\ NoKey \notin Keys /\ NrClasses \in Nat \ {0}
    /\ Class \in [Keys -> 0..NrClasses-1] /\ Times \subseteq Nat \ {0}
    /\ Objs \subseteq Nat \ {0} /\ Home \in [Objs -> Keys] /\ Quota \in Nat
    /\ TtlKeys \subseteq Keys
    /\ EvictBatch \in Nat \ {0} /\ MaxWork \in Nat \ {0}

VARIABLES
    ks,     \* the shard's memory: table, ttl, lru (head first), and the key of
            \* every allocated object
    mset,   \* per key the objects of the MSET that has locked it
    now     \* time

vars == <<ks, mset, now>>

LargeClass == NrClasses - 1
NoMset == [new |-> NoObj, old |-> NoObj]
Idle(k) == mset[k] = NoMset

---------------------------------------------------------------------------
(* Memory and LRU *)

InUse(g) == {o \in Objs : g.key[o] # NoKey}

\* An object is on a list at most once.
Without(list, o) ==
    LET at == {i \in DOMAIN list : list[i] = o}
    IN  IF at = {} THEN list ELSE Cut(list, CHOOSE i \in at : TRUE)

\* lru_node_remove, lru_node_prepend.
LruRemove(g, o) == [g EXCEPT !.lru[Class[g.key[o]]] = Without(@, o)]

\* Mutant of LruPrepend: the object is not taken out of the list first.
LruPrependAgain(g, o) == [g EXCEPT !.lru[Class[g.key[o]]] = <<o>> \o @]

LruPrepend(g, o) ==
    [LruRemove(g, o) EXCEPT !.lru[Class[g.key[o]]] = <<o>> \o @, !.table.dropped = @ \ {o}]

\* shard_obj_destroy, of an object nobody else has a reference to.
Destroy(g, o) ==
    IF o = NoObj THEN g
    ELSE [table |-> [g.table EXCEPT !.lost = @ \ {o}, !.dropped = @ \ {o}],
          ttl   |-> RemoveNode(g.ttl, o),
          lru   |-> LruRemove(g, o).lru,
          key   |-> [g.key EXCEPT ![o] = NoKey]]

Tails(g) == {c \in 0..NrClasses-1 : g.lru[c] # << >>}

\* Mutant of EvictOne: the victim is the newest object.
EvictOneNewest(x, target) ==
    LET from == IF target \in Tails(x.g) THEN target ELSE Max(Tails(x.g))
        drop(v, r) ==
          CASE r.taken  -> [any |-> TRUE, g |-> Destroy([x.g EXCEPT !.table = r.t], v)]
            [] r.locked -> [x EXCEPT !.g = LruPrepend(@, v)]
            [] OTHER    -> [x EXCEPT !.g = LruRemove(@, v)]
        victim(v) == drop(v, TakeIfUnlocked(x.g.table, x.g.key[v], v))
    IN  IF Tails(x.g) = {} THEN x ELSE victim(Head(x.g.lru[from]))

\* The victim is the oldest object of the wanted class; without one, of the
\* last class that has objects.
EvictOne(x, target) ==
    LET from == IF target \in Tails(x.g) THEN target ELSE Max(Tails(x.g))
        drop(v, r) ==
          CASE r.taken  -> [any |-> TRUE, g |-> Destroy([x.g EXCEPT !.table = r.t], v)]
            [] r.locked -> [x EXCEPT !.g = LruPrepend(@, v)]
            [] OTHER    -> [x EXCEPT !.g = LruRemove(@, v)]
        victim(v) == drop(v, TakeIfUnlocked(x.g.table, x.g.key[v], v))
    IN  IF Tails(x.g) = {} THEN x ELSE victim(x.g.lru[from][Len(x.g.lru[from])])

\* One batch of shard_mem_evict; any says whether something was evicted.
Evict(g, target) ==
    LET batch[n \in 0..EvictBatch] ==
          IF n = 0 THEN [any |-> FALSE, g |-> g] ELSE EvictOne(batch[n-1], target)
    IN  batch[EvictBatch]

\* mem_malloc for an object of key k.  At the limit of the shard it fails at
\* once; under memory pressure it evicts a batch of the key's class first.
Malloc(g, k, pressure) ==
    LET free(h) == {o \in Objs \ InUse(h) : Home[o] = k}
        full == Cardinality(InUse(g)) >= Quota \/ free(g) = {}
        taken(h) == [obj |-> Min(free(h)), g |-> [h EXCEPT !.key[Min(free(h))] = k]]
        none(h) == [obj |-> NoObj, g |-> h]
        evicted(x) == IF x.any THEN taken(x.g) ELSE none(x.g)
    IN  CASE full                -> none(g)
          [] ~full /\ pressure  -> evicted(Evict(g, Class[k]))
          [] OTHER               -> taken(g)

\* shard_bucket_put: a put that finds no overflow bucket evicts and tries again.
\* The key belongs to the object, so the entry's key is that of the object.
BucketPut(g, o, at, room) ==
    LET put(h) == Put(h.table, Entry(h.key[o], o, at), room)
        done(h, r) == [ok |-> r.ok, old |-> r.old, g |-> [h EXCEPT !.table = r.t]]
        evicted(x) == IF x.any THEN done(x.g, put(x.g))
                      ELSE [ok |-> FALSE, old |-> NoObj, g |-> x.g]
        first(r) == IF r.ok THEN done(g, r)
                    ELSE evicted(Evict([g EXCEPT !.table = r.t], LargeClass))
    IN  first(put(g))

---------------------------------------------------------------------------
(* Commands, on keys no MSET has locked (a command on a locked key waits) *)

\* A rehash that drops the entry of a locked key drops its lock bit, and the
\* code then lets commands on the key go ahead; they are left out here.

\* Whether the arenas grow and whether memory is short is the environment's
\* choice, where it makes a difference.
Rooms == IF ks.table.ovf_free = 0 \/ 5 * ks.table.used > 6 * ks.table.cap
         THEN BOOLEAN ELSE {TRUE}
Memory == [room : Rooms, pressure : {FALSE}] \cup
          [room : {TRUE}, pressure : {Tails(ks) # {}}]

\* The expiry times a command on k may set: 0 is none.
ExpiryTimes(k) == {0} \cup {at \in Times : k \in TtlKeys /\ at > now}

\* shard_key_set.  NX and XX only decide whether it is called to the end.
Stored(r, o, at) ==
    LET in(h) == IF at > 0 THEN [h EXCEPT !.ttl = Push(@, o, at)] ELSE h
    IN  IF r.ok THEN in(Destroy(LruPrepend(r.g, o), r.old)) ELSE Destroy(r.g, o)

Set(k, at, m) ==
    LET put(a) == IF a.obj = NoObj THEN a.g
                  ELSE Stored(BucketPut(a.g, a.obj, at, m.room), a.obj, at)
    IN  /\ Idle(k)
        /\ ks' = put(Malloc(ks, k, m.pressure))
        /\ UNCHANGED <<mset, now>>

\* shard_key_get: lazy expiry, or a touch.
Get(k) ==
    LET o == ObjOf(ks.table, k)
        at == ExpireGet(ks.table, k)
    IN  /\ Idle(k) /\ o # NoObj
        /\ ks' = IF at = 0 \/ now < at THEN LruPrepend(ks, o)
                 ELSE Destroy([ks EXCEPT !.table = Take(@, k)], o)
        /\ UNCHANGED <<mset, now>>

\* shard_key_delete.
Delete(k) ==
    LET o == ObjOf(ks.table, k)
    IN  /\ Idle(k) /\ o # NoObj
        /\ ks' = Destroy([ks EXCEPT !.table = Take(@, k)], o)
        /\ UNCHANGED <<mset, now>>

\* shard_key_expire: the same object is put again with the new time, whatever
\* the put returns; 0 is PERSIST.
Reindexed(h, o, at) ==
    CASE at = 0                             -> RemoveNode(h, o)
      [] at > 0 /\ h.heap_idx[o] = 0        -> Push(h, o, at)
      [] OTHER                              -> Update(h, o, at)

Expire(k, at, room) ==
    LET o == ObjOf(ks.table, k)
        put(r) == [r.g EXCEPT !.ttl = Reindexed(@, o, at)]
    IN  /\ Idle(k) /\ o # NoObj
        /\ at # 0 \/ ExpireGet(ks.table, k) # 0
        /\ ks' = put(BucketPut(ks, o, at, room))
        /\ UNCHANGED <<mset, now>>

\* shard_table_flush, while no MSET is in progress: it frees the objects of
\* the table without a look at locks.
Flush ==
    /\ \A k \in Keys : Idle(k)
    /\ LET gone == {e.obj : e \in Entries(ks.table)}
       IN  ks' = [table |-> FlushTable(ks.table), ttl |-> NoTtl,
                  lru   |-> [c \in 0..NrClasses-1 |-> << >>],
                  key   |-> [o \in Objs |-> IF o \in gone THEN NoKey ELSE ks.key[o]]]
    /\ UNCHANGED <<mset, now>>

---------------------------------------------------------------------------
(* Expiry *)

\* One turn of shard_ttl_drain.  The node of a locked key goes back.
DrainOne(g) ==
    LET node == Head(g.ttl.heap)
        popped == [g EXCEPT !.ttl = Pop(@)]
        took(r) == CASE r.locked -> [popped EXCEPT !.ttl = Push(@, node.obj, node.at)]
                     [] r.taken  -> Destroy([popped EXCEPT !.table = r.t], node.obj)
                     [] OTHER    -> popped
    IN  IF Due(g.ttl, now)
        THEN took(TakeIfUnlocked(g.table, g.key[node.obj], node.obj)) ELSE g

TtlDrain ==
    /\ Due(ks.ttl, now)
    /\ LET drained[n \in 0..MaxWork] == IF n = 0 THEN ks ELSE DrainOne(drained[n-1])
       IN  ks' = drained[MaxWork]
    /\ UNCHANGED <<mset, now>>

Clock == now < MaxTime /\ now' = now + 1 /\ UNCHANGED <<ks, mset>>

---------------------------------------------------------------------------
(* An MSET on one key, as mset_exec.c works on the shard's state *)

\* mset_prepare_key, without contention: a new key gets a tentative entry at
\* once, and the key is locked.  The object found before the allocation is used
\* after it; that the allocation has evicted this very object is left out.
Prepare(k, m) ==
    LET old == ObjOf(ks.table, k)
        lock(h) == [h EXCEPT !.table = SetLockStatus(@, k, TRUE)]
        tentative(a, r) ==
          IF r.ok THEN /\ ks' = lock(r.g)
                       /\ mset' = [mset EXCEPT ![k] = [new |-> a.obj, old |-> NoObj]]
          ELSE ks' = Destroy(r.g, a.obj) /\ UNCHANGED mset
        with(a) ==
          CASE a.obj = NoObj -> ks' = a.g /\ UNCHANGED mset
            [] a.obj # NoObj /\ old # NoObj ->
                 /\ ObjOf(a.g.table, k) = old
                 /\ ks' = lock(a.g)
                 /\ mset' = [mset EXCEPT ![k] = [new |-> a.obj, old |-> old]]
            [] OTHER -> tentative(a, BucketPut(a.g, a.obj, 0, m.room))
    IN  /\ Idle(k) /\ Cardinality({j \in Keys : ~Idle(j)}) < MaxMsets
        /\ with(Malloc(ks, k, m.pressure))
        /\ UNCHANGED now

\* mset_fin_one_cmd with nobody waiting for the lock.  The result of the put is
\* ignored.
Fin(k, room) ==
    LET new == mset[k].new
        put(r) == Destroy(IF r.ok THEN r.g ELSE [r.g EXCEPT !.table.lost = @ \cup {new}],
                          mset[k].old)
        swapped == IF ObjOf(ks.table, k) = new THEN ks
                   ELSE put(BucketPut(ks, new, 0, room))
        unlock(h) == [h EXCEPT !.table = SetLockStatus(@, k, FALSE)]
    IN  /\ ~Idle(k)
        /\ ks' = unlock(LruPrepend(swapped, new))
        /\ mset' = [mset EXCEPT ![k] = NoMset]
        /\ UNCHANGED now

---------------------------------------------------------------------------

Init ==
    /\ ks = [table |-> NewTable, ttl |-> NoTtl,
             lru   |-> [c \in 0..NrClasses-1 |-> << >>],
             key   |-> [o \in Objs |-> NoKey]]
    /\ mset = [k \in Keys |-> NoMset]
    /\ now = 0

Next ==
    \/ \E k \in Keys, m \in Memory : \E at \in ExpiryTimes(k) : Set(k, at, m)
    \/ \E k \in Keys : Get(k)
    \/ \E k \in Keys : Delete(k)
    \/ \E k \in TtlKeys, room \in Rooms : \E at \in ExpiryTimes(k) : Expire(k, at, room)
    \/ Flush
    \/ TtlDrain
    \/ Clock
    \/ \E k \in Keys, m \in Memory : Prepare(k, m)
    \/ \E k \in Keys, room \in Rooms : Fin(k, room)

Spec == Init /\ [][Next]_vars

---------------------------------------------------------------------------
(* Properties *)

\* The shapes of the shard's state; a rehash in progress has buckets left to
\* move.
TypeOK ==
    /\ ks.table.cap \in 1..MaxCap /\ ks.table.old_cap \in 0..MaxCap-1
    /\ ks.table.rehash_idx \in -1..ks.table.old_cap-1
    /\ ks.table.ovf_pool_cap \in 0..MaxOvf /\ ks.table.ovf_free \in 0..MaxOvf
    /\ \A e \in Entries(ks.table) : /\ e.key \in Keys /\ e.obj \in Objs
                                   /\ e.expire \in Times \cup {0}
    /\ ks.ttl.heap_idx \in [Objs -> 0..Quota]
    /\ ks.key \in [Objs -> Keys \cup {NoKey}]
    /\ mset \in [Keys -> [new : Objs \cup {NoObj}, old : Objs \cup {NoObj}]]
    /\ now \in 0..MaxTime

\* In the middle of any rehash, lookup finds every object that was put and not
\* removed, and nothing else is in the table: no entry is hidden behind
\* another, in a bucket lookup passes over, or left after its object is freed.
\* The one exception are the entries that ht_rehash_tick drops when the
\* overflow pool cannot grow (lost).
LookupFindsAll ==
    /\ \A o \in InUse(ks) : \/ ObjOf(ks.table, ks.key[o]) = o
                            \/ o = mset[ks.key[o]].new
                            \/ o \in ks.table.lost
    /\ \A e \in Entries(ks.table) : ks.key[e.obj] = e.key
    /\ NrEntries(ks.table) = Cardinality({k \in Keys : ObjOf(ks.table, k) # NoObj})

\* Every key that commands can see is once on the LRU list of its class, where
\* eviction can find it, and no list holds an object that has been freed.  The
\* one exception is a key whose entry ht_rehash_tick drops in the very put that
\* EXPIRE makes of it: the eviction before the second try may take it off its
\* list, and it comes back with the next touch only.
KeysEvictable ==
    /\ \A c \in 0..NrClasses-1 :
          /\ IsInjective(ks.lru[c])
          /\ \A o \in Range(ks.lru[c]) : o \in InUse(ks) /\ Class[ks.key[o]] = c
    /\ \A e \in Entries(ks.table) :
          Idle(e.key) /\ e.obj \notin ks.table.dropped =>
              e.obj \in Range(ks.lru[Class[e.key]])

\* Eviction spares no key that is older than one it takes from the same list,
\* unless an MSET has locked the older one.
EvictsOldest ==
    \A c \in 0..NrClasses-1 :
        LET list == ks.lru[c]
            kept(g) == {i \in DOMAIN list : list[i] \in InUse(g)}
            inOrder(K) == \A i, j \in DOMAIN list :
                i < j /\ i \notin K /\ j \in K =>
                    \/ IsLocked(ks.table, ks.key[list[j]])
                    \/ ObjOf(ks.table, ks.key[list[j]]) # list[j]
        IN  inOrder(kept(Evict(ks, c).g))

\* A key with an expiry time has exactly one node in the TTL index, with that
\* time, at the place its heap_idx says, and the first node is the earliest:
\* the drain comes to every key that has expired.
ExpiryIndexed ==
    LET heap == ks.ttl.heap
    IN  /\ \A i \in DOMAIN heap : /\ i > 1 => heap[i \div 2].at <= heap[i].at
                                /\ heap[i].obj \in InUse(ks)
        /\ \A o \in Objs : {i \in DOMAIN heap : heap[i].obj = o} =
                            {ks.ttl.heap_idx[o]} \ {0}
        /\ \A e \in Entries(ks.table) :
              e.expire = IF ks.ttl.heap_idx[e.obj] = 0 THEN 0
                         ELSE heap[ks.ttl.heap_idx[e.obj]].at

\* A SET on a shard that is at its limit evicts: it is refused for want of
\* memory only if no key could be evicted.
QuotaEvicts ==
    \A k \in Keys : Idle(k) /\ Malloc(ks, k, FALSE).obj = NoObj =>
        \A c \in 0..NrClasses-1, o \in Objs :
            o \in Range(ks.lru[c]) => IsLocked(ks.table, ks.key[o])
=============================================================================
