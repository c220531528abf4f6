--------------------------- MODULE CommandProofs ---------------------------
(***************************************************************************)
(* The expiry drain and both phases of an MSET keep the shard's memory in  *)
(* order (KInv) as well, and what follows from that for a lookup, for      *)
(* eviction and for expiry.                                                *)
(***************************************************************************)
EXTENDS KeyspaceProofs

---------------------------------------------------------------------------
(* Expiry *)

\* A turn of shard_ttl_drain.
LEMMA DrainOneCore ==
    ASSUME NatInductive, NEW g, NEW ms, Core(g, ms, {}, {})
    PROVE  Core(DrainOne(g), ms, {}, {})
<1>1. CASE ~Due(g.ttl, now)
  BY <1>1, Zenon DEF DrainOne
<1>2. CASE Due(g.ttl, now)
  <2>1. PICK o, at, w, k : /\ o = Head(g.ttl.heap).obj /\ at = Head(g.ttl.heap).at
                           /\ w = Pop(g.ttl) /\ k = g.key[o]
    BY Zenon
  <2>2. PICK p, r : p = [g EXCEPT !.ttl = w] /\ r = TakeIfUnlocked(g.table, k, o)
    BY Zenon
  <2>3. DrainOne(g) = CASE r.locked -> [p EXCEPT !.ttl = Push(@, o, at)]
                        [] r.taken  -> Destroy([p EXCEPT !.table = r.t], o)
                        [] OTHER    -> p
    BY <1>2, <2>1, <2>2, Zenon DEF DrainOne
  <2>4. g \in Mem /\ HeapOK(g.ttl) /\ TableOK(g.table) /\ Owned(g.table, g.key)
    BY Zenon DEF Core, Agree
  <2>5. /\ Head(g.ttl.heap) \in Node /\ NodeAt(g.ttl, o) = at /\ Indexed(g.ttl, w, o, 0)
    BY <1>2, <2>1, <2>4, PopFacts, Zenon DEF Due
  <2>6. o \in Objs /\ at \in Nat \ {0}
    BY <2>1, <2>5, Zenon DEF Node
  <2>7. g.key[o] # NoKey
    BY <2>5, <2>6, Zenon DEF Core, Agree, Alive
  <2>8. k \in Keys
    BY <2>1, <2>4, <2>6, <2>7, MemTyped, SMTT(40)
  <2>9. MayTime(ms, g.key[o], {}, 0)
    BY Zenon DEF MayTime
  <2>10. Core(p, ms, {} \cup {o}, {}) /\ Retimed(g, p, w)
    BY <2>2, <2>5, <2>6, <2>7, <2>9, TtlCore, Zenon
  <2>11. /\ r.taken \in BOOLEAN /\ r.locked \in BOOLEAN /\ ~(r.taken /\ r.locked)
         /\ r.taken => /\ Cleared(g.table, r.t, k)
                       /\ \E e \in Entries(g.table) : e.key = k /\ e.obj = o /\ ~e.locked
         /\ ~r.taken /\ ~r.locked => \A e \in Entries(g.table) : e.key = k => e.obj # o
    BY <2>2, <2>4, <2>8, TakeIfUnlockedFacts, SMTT(40)
  <2>12. CASE r.locked
    <3>1. PICK v : v = Push(w, o, at)
      BY Zenon
    <3>2. HeapOK(w) /\ NodeAt(w, o) = 0 /\ \A q \in Objs : q # o => NodeAt(w, q) = NodeAt(g.ttl, q)
      BY <2>5, <2>6, Zenon DEF Indexed
    <3>3. w.heap_idx[o] = 0
      BY <2>6, <3>2, NodeFacts, Zenon DEF HeapOK
    <3>4. Indexed(w, v, o, at)
      BY <2>6, <3>1, <3>2, <3>3, PushFacts, Zenon
    <3>5. HeapOK(v) /\ \A q \in Objs : NodeAt(v, q) = NodeAt(g.ttl, q)
      BY <2>5, <3>4, Zenon DEF Indexed
    <3>6. Core([g EXCEPT !.ttl = v], ms, {}, {})
      BY <3>5, SameTtlCore, Zenon
    <3>7. [p EXCEPT !.ttl = Push(@, o, at)] = [p EXCEPT !.ttl = v]
      BY <2>10, <3>1, Zenon DEF Retimed
    <3>8. [p EXCEPT !.ttl = v] = [g EXCEPT !.ttl = v]
      BY <2>2, Zenon DEF Mem
    <3>9. DrainOne(g) = [p EXCEPT !.ttl = Push(@, o, at)]
      BY <2>3, <2>11, <2>12, Zenon
    <3> QED BY <3>6, <3>7, <3>8, <3>9, Zenon
  <2>13. CASE r.taken
    <3>1. PICK e \in Entries(g.table) : e.key = k /\ e.obj = o /\ ~e.locked
      BY <2>11, <2>13, Zenon
    <3>2. ms[k] = NoMset
      BY <2>8, <3>1, Zenon DEF Core, Agree, Locking, Held
    <3>3. Only(p.table, k, o)
      BY <2>4, <2>10, <3>1, EntryFacts, Zenon DEF Only, Retimed
    <3>4. p.key[o] = k /\ Cleared(p.table, r.t, k)
      BY <2>1, <2>10, <2>11, <2>13, Zenon DEF Retimed
    <3>5. Core(Destroy([p EXCEPT !.table = r.t], o), ms, ({} \cup {o}) \ {o}, {})
      BY <2>6, <2>8, <2>10, <3>2, <3>3, <3>4, FreeCore, SMTT(40)
    <3>6. ({} \cup {o}) \ {o} = {}
      BY Zenon
    <3> QED BY <2>3, <2>11, <2>13, <3>5, <3>6, Zenon
  <2>14. CASE ~r.taken /\ ~r.locked
    <3>1. \A e \in Entries(p.table) : e.obj # o
      BY <2>1, <2>4, <2>10, <2>11, <2>14, Zenon DEF Owned, Retimed
    <3>a. InTable(g.table, o) \/ o = ms[g.key[o]].new \/ o \in g.table.lost
      BY <2>6, <2>7, Zenon DEF Core, Agree, Reached
    <3>2. InTable(p.table, o) \/ o = ms[p.key[o]].new \/ o \in p.table.lost
      BY <2>10, <3>a DEF Retimed
    <3>3. Core(p, ms, {}, {})
      BY <2>10, <3>1, <3>2, Settled, Zenon
    <3> QED BY <2>3, <2>14, <3>3, Zenon
  <2> QED BY <2>12, <2>13, <2>14, Zenon
<1> QED BY <1>1, <1>2, Zenon

\* A drain makes at most MaxWork turns.
LEMMA DrainCore ==
    ASSUME NatInductive, NEW g, NEW ms, Core(g, ms, {}, {})
    PROVE  LET drained[n \in 0..MaxWork] == IF n = 0 THEN g ELSE DrainOne(drained[n-1])
           IN  Core(drained[MaxWork], ms, {}, {})
<1>1. PICK N \in Nat : N = MaxWork
  BY ConstantFacts, Zenon
<1> DEFINE Q == [n \in 0..N |-> {x \in Mem : Core(x, ms, {}, {})}]
           step == [n \in 1..N |-> [x \in Mem |-> DrainOne(x)]]
           IsRun(f) == f = [n \in 0..N |-> IF n = 0 THEN g ELSE DrainOne(f[n-1])]
           b == CHOOSE f : IsRun(f)
<1>2. g \in Q[0]
  <2>1. g \in Mem /\ 0 \in 0..N
    BY DEF Core
  <2> QED BY <2>1, Zenon
<1>3. ASSUME NEW n \in 1..N, NEW x \in Q[n-1]
      PROVE  step[n][x] = DrainOne(x) /\ DrainOne(x) \in Q[n]
  <2>1. n - 1 \in 0..N /\ n \in 0..N
    OBVIOUS
  <2>2. x \in Mem /\ Core(x, ms, {}, {})
    BY <2>1, Zenon
  <2>3. Core(DrainOne(x), ms, {}, {})
    BY <2>2, DrainOneCore, Zenon
  <2>4. DrainOne(x) \in Mem
    BY <2>3, Zenon DEF Core
  <2> QED BY <2>1, <2>3, <2>4, Zenon
<1>4. PICK f : /\ f = [n \in 0..N |-> IF n = 0 THEN g ELSE step[n][f[n-1]]]
               /\ \A n \in 0..N : f[n] \in Q[n]
  <2> HIDE DEF Q, step
  <2>1. Keeps(N, Q, step)
    BY <1>3, Zenon DEF Keeps
  <2>2. \E f : IsRunOf(N, Q, g, step, f)
    BY <1>2, <2>1, Run, Zenon
  <2> QED BY <2>2, Zenon DEF IsRunOf
<1> HIDE DEF Q, step
<1>5. IsRun(f)
  <2>1. ASSUME NEW n \in 0..N PROVE f[n] = IF n = 0 THEN g ELSE DrainOne(f[n-1])
    <3>1. f[n] = IF n = 0 THEN g ELSE step[n][f[n-1]]
      BY <1>4, Zenon
    <3>2. CASE n # 0
      <4>1. n \in 1..N /\ n - 1 \in 0..N
        BY <3>2
      <4> QED BY <1>3, <1>4, <3>1, <3>2, <4>1, Zenon
    <3> QED BY <3>1, <3>2, Zenon
  <2>2. f = [n \in 0..N |-> f[n]]
    BY <1>4, Zenon
  <2> QED BY <2>1, <2>2, Zenon
<1>6. IsRun(b)
  BY <1>5, Zenon
<1>7. \A n \in 0..N : b[n] = IF n = 0 THEN g ELSE DrainOne(b[n-1])
  <2> HIDE DEF b
  <2> QED BY <1>6, Zenon
<1>8. b[0] \in Q[0] /\ \A n \in 1..N : b[n-1] \in Q[n-1] => b[n] \in Q[n]
  <2> HIDE DEF b
  <2>1. b[0] = g
    BY <1>7
  <2>2. ASSUME NEW n \in 1..N PROVE b[n] = DrainOne(b[n-1])
    <3>1. n \in 0..N /\ n # 0
      OBVIOUS
    <3> QED BY <1>7, <3>1, Zenon
  <2> QED BY <1>2, <1>3, <2>1, <2>2, Zenon
<1>9. b[N] \in Q[N]
  <2> HIDE DEF b
  <2>1. N \in 0..N
    OBVIOUS
  <2> QED BY <1>8, <2>1, TurnsKeep, Zenon
<1>10. Core(b[N], ms, {}, {})
  <2> HIDE DEF b
  <2>1. N \in 0..N
    OBVIOUS
  <2> QED BY <1>9, <2>1, Zenon DEF Q
<1> QED BY <1>1, <1>10, Zenon

\* shard_ttl_drain.
LEMMA TtlDrainStep ==
    ASSUME NatInductive, KInv, TtlDrain
    PROVE  KInv'
<1>1. Core(ks', mset, {}, {})
  BY DrainCore, Zenon DEF TtlDrain, KInv
<1> QED BY <1>1, Zenon DEF KInv, TtlDrain

---------------------------------------------------------------------------
(* FLUSHALL *)

\* FLUSHALL while no MSET is in progress.  Objects that a rehash has dropped
\* are not freed.
LEMMA FlushStep ==
    ASSUME KInv, Flush, OvfUsed(ks.table) \in Int
    PROVE  KInv'
<1>a. PICK u, l, gone : /\ u = FlushTable(ks.table) /\ l = [c \in Classes |-> << >>]
                        /\ gone = {e.obj : e \in Entries(ks.table)}
  BY Zenon
<1>b. PICK y : y = [o \in Objs |-> IF o \in gone THEN NoKey ELSE ks.key[o]]
  BY Zenon
<1>2. /\ ks' = [table |-> u, ttl |-> NoTtl, lru |-> l, key |-> y] /\ mset' = mset
      /\ \A k \in Keys : mset[k] = NoMset
  BY <1>a, <1>b, Zenon DEF Flush, Idle, Classes
<1>3. ks \in Mem /\ mset \in MsetType /\ TableOK(ks.table) /\ Reached(ks.table, ks.key, mset, {})
  BY Zenon DEF KInv, Core, Agree
<1>4. TableOK(u) /\ Entries(u) = {} /\ u.lost = ks.table.lost
  BY <1>a, <1>3, FlushTableFacts, Zenon
<1>5. HeapOK(NoTtl) /\ \A o \in Objs : NodeAt(NoTtl, o) = 0
  BY NoTtlFacts, Zenon
<1>6. l \in Lists /\ \A k : Listed(l, k)
  BY <1>a DEF Lists, Listed, IsInjective, Range
<1>7. y \in [Objs -> Keys \cup {NoKey}]
  BY <1>b, <1>3, MemTyped, Zenon
<1>8. Reached(u, y, mset, {})
  <2> SUFFICES ASSUME NEW o \in Objs, y[o] # NoKey PROVE o = mset[y[o]].new \/ o \in u.lost
    BY Zenon DEF Reached
  <2>1. y[o] = ks.key[o] /\ o \notin gone
    BY <1>b, Zenon
  <2>2. ~InTable(ks.table, o)
    BY <1>a, <2>1, Zenon DEF InTable
  <2> QED BY <1>3, <1>4, <2>1, <2>2, Zenon DEF Reached
<1>9. Agree(u, NoTtl, l, y, mset, {}, {})
  BY <1>2, <1>4, <1>5, <1>6, <1>8, Zenon DEF Agree, Owned, Timed, Alive, Evictable, Locking
<1>10. u \in Tables /\ NoTtl \in Ttls
  BY <1>4, <1>5, PartsTyped, Zenon
<1> QED BY <1>2, <1>6, <1>7, <1>9, <1>10, MemMade, SMTT(40) DEF KInv, Core

---------------------------------------------------------------------------
(* An MSET *)

\* What an MSET of the key k has when it locks it.
Ready(g, k, new, old) ==
    /\ new \in Objs /\ g.key[new] = k /\ NodeAt(g.ttl, new) = 0
    /\ old # NoObj => old \in Objs /\ g.key[old] = k /\ old # new
    /\ \A e \in Entries(g.table) : e.key = k =>
          /\ e.obj = IF old = NoObj THEN new ELSE old
          /\ e.obj = new => e.expire = 0

\* The key is locked, and the MSET has its objects.
LEMMA LockedCore ==
    ASSUME NEW g, NEW ms, NEW k \in Keys, NEW new, NEW old \in Nat, Core(g, ms, {new}, {}),
           ms[k] = NoMset, Ready(g, k, new, old)
    PROVE  Core([g EXCEPT !.table = SetLockStatus(@, k, TRUE)],
                [ms EXCEPT ![k] = [new |-> new, old |-> old]], {}, {})
<1>1. PICK m : m = [new |-> new, old |-> old]
  BY Zenon
<1>2. new \in Nat /\ new # NoObj
  BY ConstantFacts, Zenon DEF Ready
<1>3. m \in [new : Nat, old : Nat] /\ m.new = new /\ m.old = old /\ m # NoMset
  BY <1>1, <1>2, Zenon DEF NoMset
<1>4. PICK h : h = [g EXCEPT !.table = SetLockStatus(@, k, TRUE)]
  BY Zenon
<1>5. Core(g, ms, {new}, {k})
  <2> QED BY CoreMore
<1>6. Core(h, ms, {new}, {k}) /\ Latched(g, h, k, TRUE)
  <2>1. k \in {k} /\ TRUE \in BOOLEAN
    BY Zenon
  <2> QED BY <1>4, <1>5, <2>1, LockCore, Zenon
<1>7. ASSUME NEW o \in Objs, h.key[o] = k, o \notin {new}
      PROVE  InTable(h.table, o) \/ o = m.new \/ o \in h.table.lost
  <2>1. ms[k].new = NoObj
    BY DEF NoMset
  <2>2. InTable(g.table, o) \/ o \in g.table.lost
    <3>1. g.key[o] = k /\ o \notin {new} /\ o # NoObj /\ k # NoKey
      BY <1>6, <1>7, ConstantFacts, Zenon DEF Latched
    <3> QED BY <2>1, <3>1, Zenon DEF Core, Agree, Reached
  <2> QED BY <1>6, <2>2, Zenon DEF Latched
<1>8. Held(h.table, h.ttl, h.key, m, k)
  <2>1. h.ttl = g.ttl /\ h.key = g.key
    BY <1>6, Zenon DEF Latched
  <2>2. \A f \in Entries(h.table) : f.key = k => f.locked /\ f.obj = IF old = NoObj THEN new ELSE old
    BY <1>6, Zenon DEF Latched, Ready
  <2> QED BY <1>3, <2>1, <2>2, Zenon DEF Held, Ready
<1>9. Core(h, [ms EXCEPT ![k] = m], {new}, {k} \ {k})
  <2>1. k \in {k}
    BY Zenon
  <2> QED BY <1>3, <1>6, <1>7, <1>8, <2>1, MsetCore, Zenon
<1>10. PICK w : w = [ms EXCEPT ![k] = m]
  BY Zenon
<1>11. Core(h, w, {} \cup {new}, {})
  BY <1>9, <1>10, Zenon
<1>12. w[k] = m
  BY <1>10, Zenon DEF Core, MsetType
<1>13. ASSUME NEW f \in Entries(h.table), f.obj = new
       PROVE  /\ f.expire = NodeAt(h.ttl, new)
              /\ new \notin h.table.dropped /\ w[f.key] = NoMset => new \in Range(h.lru[Class[f.key]])
  <2>1. f.key = k
    BY <1>6, <1>13, Zenon DEF Core, Agree, Owned, Ready, Latched
  <2>2. f.expire = NodeAt(h.ttl, new)
    <3>1. PICK e \in Entries(g.table) : e.key = k /\ e.obj = new /\ e.expire = f.expire
      BY <1>6, <1>13, <2>1, Zenon DEF Latched
    <3>2. h.ttl = g.ttl
      BY <1>6, Zenon DEF Latched
    <3> QED BY <3>1, <3>2, Zenon DEF Ready
  <2> QED BY <1>3, <1>12, <2>1, <2>2, Zenon
<1>14. new = w[h.key[new]].new
  BY <1>3, <1>6, <1>12, Zenon DEF Ready, Latched
<1>15. Core(h, w, {}, {})
  BY <1>11, <1>13, <1>14, Settled, Zenon
<1> QED BY <1>1, <1>4, <1>10, <1>15, Zenon

\* A new key gets a tentative entry.
LEMMA TentativeCore ==
    ASSUME NEW g, NEW ms, NEW k \in Keys, NEW new, Core(g, ms, {new}, {}), Fresh(g, new, k),
           ms[k] = NoMset, \A e \in Entries(g.table) : e.key # k, NEW r,
           PutResult(g, ms, {new}, new, 0, r), r.ok
    PROVE  Core([r.g EXCEPT !.table = SetLockStatus(@, k, TRUE)],
                [ms EXCEPT ![k] = [new |-> new, old |-> NoObj]], {}, {})
<1>0. new \in Objs /\ g.key[new] = k /\ k # NoKey /\ 0 \in Nat /\ NoObj \in Nat
  BY ConstantFacts, Zenon DEF Fresh, NoObj
<1>1. PICK h : Entered(g, ms, {new}, new, 0, r, h, k)
  BY <1>0, PutOk, Zenon
<1>2. PICK e : e = Entry(k, new, 0)
  BY Zenon
<1>3. e.key = k /\ e.obj = new /\ e.expire = 0
  BY <1>2, Zenon DEF Entry
<1>4. /\ Core(r.g, ms, {new} \cup {new, r.old}, {k}) /\ Around(g, h, k)
      /\ r.g.ttl = h.ttl /\ r.g.key = h.key
      /\ \A f \in Entries(r.g.table) : f.key = k => f = e
  BY <1>1, <1>2, Zenon DEF Entered
<1>5. r.old = NoObj
  BY <1>1, Zenon DEF Entered, Around
<1>6. Core(r.g, ms, {new}, {})
  <2>1. {new} \cup {new, r.old} = {new} \cup {NoObj}
    BY <1>5, Zenon
  <2>2. Core(r.g, ms, {new}, {k})
    BY <1>4, <2>1, DropNoObj, Zenon
  <2> QED BY <2>2, DropKeys, Zenon
<1>7. r.g.key[new] = k /\ NodeAt(r.g.ttl, new) = 0
  BY <1>0, <1>4, Zenon DEF Around, Fresh
<1>8. Ready(r.g, k, new, NoObj)
  BY <1>0, <1>3, <1>4, <1>7, Zenon DEF Ready
<1> QED BY <1>0, <1>6, <1>8, LockedCore, Zenon

\* mset_prepare_key.
LEMMA PrepareStep ==
    ASSUME NatInductive, KInv, NEW k \in Keys, NEW m, m.room \in BOOLEAN, m.pressure \in BOOLEAN,
           Prepare(k, m)
    PROVE  KInv'
<1>1. PICK a, old : a = Malloc(ks, k, m.pressure) /\ old = ObjOf(ks.table, k)
  BY Zenon
<1>2. PICK r : r = BucketPut(a.g, a.obj, 0, m.room)
  BY Zenon
<1> DEFINE lock(h) == [h EXCEPT !.table = SetLockStatus(@, k, TRUE)]
<1>3. /\ mset[k] = NoMset
      /\ \/ a.obj = NoObj /\ ks' = a.g /\ mset' = mset
         \/ /\ a.obj # NoObj /\ old # NoObj /\ ObjOf(a.g.table, k) = old /\ ks' = lock(a.g)
            /\ mset' = [mset EXCEPT ![k] = [new |-> a.obj, old |-> old]]
         \/ /\ a.obj # NoObj /\ old = NoObj /\ r.ok /\ ks' = lock(r.g)
            /\ mset' = [mset EXCEPT ![k] = [new |-> a.obj, old |-> NoObj]]
         \/ /\ a.obj # NoObj /\ old = NoObj /\ ~r.ok
            /\ ks' = Destroy(r.g, a.obj) /\ mset' = mset
  <2> HIDE DEF lock
  <2>1. CASE a.obj = NoObj
    BY <1>1, <2>1, Zenon DEF Prepare, Idle
  <2>2. CASE a.obj # NoObj /\ old # NoObj
    BY <1>1, <2>2, Zenon DEF Prepare, Idle, lock
  <2>3. CASE a.obj # NoObj /\ old = NoObj
    BY <1>1, <1>2, <2>3, Zenon DEF Prepare, Idle, lock
  <2> QED BY <2>1, <2>2, <2>3, Zenon
<1>4. Allocated(ks, mset, k, a)
  BY <1>1, MallocFacts, Zenon DEF KInv
<1>5. CASE a.obj = NoObj
  <2>1. Core(a.g, mset, {}, {})
    BY <1>4, <1>5, ConstantFacts, Zenon DEF Allocated, Fresh
  <2> QED BY <1>3, <1>5, <2>1, Zenon DEF KInv
<1>6. CASE a.obj # NoObj
  <2>1. /\ Core(a.g, mset, {a.obj}, {}) /\ Fresh(a.g, a.obj, k)
        /\ Entries(a.g.table) \subseteq Entries(ks.table)
    BY <1>4, <1>6, Zenon DEF Allocated
  <2>2. CASE old # NoObj
    <3>1. ObjOf(a.g.table, k) = old
      BY <1>3, <1>6, <2>2, Zenon
    <3>2. PICK e : Finds(a.g, k, old, e)
      BY <2>1, <2>2, <3>1, FoundEntry, Zenon
    <3>3. Ready(a.g, k, a.obj, old)
      BY <2>1, <2>2, <3>2, Zenon DEF Ready, Finds, Fresh, InTable
    <3>4. old \in Nat
      BY <3>2, ConstantFacts, Zenon DEF Finds
    <3>5. Core(lock(a.g), [mset EXCEPT ![k] = [new |-> a.obj, old |-> old]], {}, {})
      BY <1>3, <2>1, <3>3, <3>4, LockedCore, Zenon
    <3> QED BY <1>3, <1>6, <2>2, <3>5, Zenon DEF KInv
  <2>3. CASE old = NoObj
    <3>1. \A e \in Entries(ks.table) : e.key # k
      <4>1. TableOK(ks.table) /\ Owned(ks.table, ks.key)
        BY Zenon DEF KInv, Core, Agree
      <4>2. \A e \in Entries(ks.table) : e.obj # NoObj
        BY <4>1, ConstantFacts, Zenon DEF Owned
      <4>3. \/ \A e \in Entries(ks.table) : e.key # k
            \/ \E e \in Entries(ks.table) : ObjOf(ks.table, k) = e.obj
        BY <4>1, LookupFacts
      <4> QED BY <1>1, <2>3, <4>2, <4>3, Zenon
    <3>2. \A e \in Entries(a.g.table) : e.key # k
      BY <2>1, <3>1, Zenon
    <3>3. a.obj \in Objs /\ a.g.key[a.obj] = k /\ 0 \in Nat
      BY <2>1, Zenon DEF Fresh
    <3>4. PutResult(a.g, mset, {a.obj}, a.obj, 0, r)
      BY <1>2, <2>1, <3>3, BucketPutFacts, Zenon
    <3>5. CASE r.ok
      <4>1. Core(lock(r.g), [mset EXCEPT ![k] = [new |-> a.obj, old |-> NoObj]], {}, {})
        BY <1>3, <2>1, <3>2, <3>4, <3>5, TentativeCore, Zenon
      <4> QED BY <1>3, <1>6, <2>3, <3>5, <4>1, Zenon DEF KInv
    <3>6. CASE ~r.ok
      <4>1. Core(Destroy(r.g, a.obj), mset, {}, {})
        BY <1>3, <2>1, <3>3, <3>4, <3>6, UnputCore, Zenon
      <4> QED BY <1>3, <1>6, <2>3, <3>6, <4>1, Zenon DEF KInv
    <3> QED BY <3>5, <3>6, Zenon
  <2> QED BY <2>2, <2>3, Zenon
<1> QED BY <1>5, <1>6, Zenon

\* The MSET of the key k has put its object new; the one it had before is old.
Exchanged(g, k, new, old) ==
    /\ new \in Objs /\ g.key[new] = k
    /\ \A e \in Entries(g.table) : e.key = k => e.obj = new /\ e.expire = NodeAt(g.ttl, new)
    /\ \A o \in Objs : g.key[o] = k /\ o # old => InTable(g.table, o) \/ o \in g.table.lost

\* The end of mset_fin_one_cmd: the new object goes on its list, and the key is
\* unlocked.
LEMMA UnlockedCore ==
    ASSUME NEW g, NEW ms, NEW k \in Keys, NEW new, Core(g, ms, {new}, {k}), Exchanged(g, k, new, NoObj)
    PROVE  Core([LruPrepend(g, new) EXCEPT !.table = SetLockStatus(@, k, FALSE)],
                [ms EXCEPT ![k] = NoMset], {}, {})
<1>1. new \in Objs /\ g.key[new] = k /\ k # NoKey /\ k \in {k} /\ FALSE \in BOOLEAN
  BY ConstantFacts, Zenon DEF Exchanged
<1>2. PICK p : p = LruPrepend(g, new)
  BY Zenon
<1>3. /\ Core(p, ms, {new}, {k}) /\ p.ttl = g.ttl /\ p.key = g.key
      /\ Entries(p.table) = Entries(g.table) /\ p.table.lost = g.table.lost
      /\ new \in Range(p.lru[Class[k]])
  BY <1>1, <1>2, PrependCore, SMTT(40)
<1>4. PICK h : h = [p EXCEPT !.table = SetLockStatus(@, k, FALSE)]
  BY Zenon
<1>5. Core(h, ms, {new}, {k}) /\ Latched(p, h, k, FALSE)
  BY <1>3, <1>4, LockCore, Zenon
<1>6. /\ h.ttl = g.ttl /\ h.key = g.key /\ h.lru = p.lru /\ h.table.lost = g.table.lost
      /\ \A o : InTable(g.table, o) => InTable(h.table, o)
      /\ \A f \in Entries(h.table) : f.key = k => f.obj = new /\ f.expire = NodeAt(g.ttl, new)
  <2>1. \A o : InTable(g.table, o) => InTable(p.table, o)
    BY <1>3, Zenon DEF InTable
  <2>2. \A f \in Entries(h.table) : f.key = k => f.obj = new /\ f.expire = NodeAt(g.ttl, new)
    BY <1>3, <1>5, Zenon DEF Latched, Exchanged
  <2> QED BY <1>3, <1>5, <2>1, <2>2, Zenon DEF Latched
<1>7. NoMset \in [new : Nat, old : Nat] /\ NoObj \notin Objs
  BY ConstantFacts, Zenon DEF NoMset, NoObj
<1>8. ASSUME NEW o \in Objs, h.key[o] = k PROVE InTable(h.table, o) \/ o \in h.table.lost
  BY <1>6, <1>7, <1>8, Zenon DEF Exchanged
<1>9. \A e \in Entries(h.table) : e.key = k => e.obj \in {new}
  BY <1>6, Zenon
<1>10. Core(h, [ms EXCEPT ![k] = NoMset], {new}, {k} \ {k})
  BY <1>5, <1>7, <1>8, <1>9, MsetCore, Zenon
<1>11. PICK w : w = [ms EXCEPT ![k] = NoMset]
  BY Zenon
<1>12. Core(h, w, {} \cup {new}, {})
  BY <1>10, <1>11, Zenon
<1>13. ASSUME NEW f \in Entries(h.table), f.obj = new
       PROVE  /\ f.expire = NodeAt(h.ttl, new)
              /\ new \notin h.table.dropped /\ w[f.key] = NoMset => new \in Range(h.lru[Class[f.key]])
  <2>1. f.key = k
    BY <1>1, <1>5, <1>6, <1>13, Zenon DEF Core, Agree, Owned
  <2> QED BY <1>3, <1>6, <2>1, Zenon
<1>14. InTable(h.table, new) \/ new \in h.table.lost
  BY <1>1, <1>6, <1>8, Zenon
<1>15. Core(h, w, {}, {})
  BY <1>12, <1>13, <1>14, Settled, Zenon
<1> QED BY <1>2, <1>4, <1>11, <1>15, SMTT(40)

Handed(g, ms, k, new, old) ==
    /\ Core(g, ms, {new, old}, {k}) /\ Exchanged(g, k, new, old)
    /\ old # NoObj => old \in Objs /\ g.key[old] = k /\ old # new

\* The object that the MSET has replaced is freed.
LEMMA OldFreed ==
    ASSUME NatInductive, NEW g, NEW ms, NEW k \in Keys, NEW new, NEW old, Handed(g, ms, k, new, old)
    PROVE  Core(Destroy(g, old), ms, {new}, {k}) /\ Exchanged(Destroy(g, old), k, new, NoObj)
<1>0. /\ Core(g, ms, {new, old}, {k}) /\ Exchanged(g, k, new, old)
      /\ old # NoObj => old \in Objs /\ g.key[old] = k /\ old # new
  BY Zenon DEF Handed
<1>1. CASE old = NoObj
  <2>1. Destroy(g, old) = g
    BY <1>1, Zenon DEF Destroy
  <2>2. {new, old} = {new} \cup {NoObj}
    BY <1>1, Zenon
  <2>3. Core(g, ms, {new}, {k})
    BY <1>0, <2>2, DropNoObj, Zenon
  <2> QED BY <1>0, <1>1, <2>1, <2>3, Zenon
<1>2. CASE old # NoObj
  <2>1. old \in Objs /\ g.key[old] = k /\ old # new /\ k # NoKey
    BY <1>0, <1>2, ConstantFacts, Zenon
  <2>2. ~InTable(g.table, old)
    BY <1>0, <2>1, Zenon DEF InTable, Exchanged, Core, Agree, Owned
  <2>3. Loose(ms, g.key[old], {k})
    BY <2>1, Zenon DEF Loose
  <2>4. PICK d : d = Destroy(g, old)
    BY Zenon
  <2>5. Core(d, ms, {new, old} \ {old}, {k}) /\ Gone(g, d, old)
    BY <1>0, <2>1, <2>2, <2>3, <2>4, DestroyCore, SMTT(40)
  <2>6. {new, old} \ {old} = {new}
    BY <2>1, Zenon
  <2>7. g \in Mem
    BY <1>0, Zenon DEF Core
  <2>8. d.key[old] = NoKey /\ \A o \in Objs : o # old => d.key[o] = g.key[o]
    BY <2>1, <2>5, <2>7, MemTyped, Zenon DEF Gone
  <2>9. NodeAt(d.ttl, new) = NodeAt(g.ttl, new) /\ d.key[new] = k /\ new \in Objs
    BY <1>0, <2>1, <2>5, <2>8, Zenon DEF Gone, Exchanged
  <2>10. Entries(d.table) = Entries(g.table) /\ d.table.lost = g.table.lost \ {old}
    BY <2>5, Zenon DEF Gone
  <2>11. ASSUME NEW o \in Objs, d.key[o] = k PROVE InTable(d.table, o) \/ o \in d.table.lost
    <3>1. o # old /\ g.key[o] = k
      BY <2>1, <2>8, <2>11, Zenon
    <3>2. InTable(g.table, o) \/ o \in g.table.lost
      BY <1>0, <3>1, Zenon DEF Exchanged
    <3> QED BY <2>10, <3>1, <3>2, Zenon DEF InTable
  <2>12. Exchanged(d, k, new, NoObj)
    BY <1>0, <2>9, <2>10, <2>11, Zenon DEF Exchanged
  <2> QED BY <2>4, <2>5, <2>6, <2>12, Zenon
<1> QED BY <1>1, <1>2, Zenon

\* The put that ends an MSET.
LEMMA FinOk ==
    ASSUME NEW g, NEW ms, Core(g, ms, {}, {}), NEW k \in Keys, NEW new, NEW old,
           new = ms[k].new, old = ms[k].old, Held(g.table, g.ttl, g.key, ms[k], k),
           NEW r, PutResult(g, ms, {}, new, 0, r), r.ok
    PROVE  Handed(r.g, ms, k, new, old)
<1>1. /\ new \in Objs /\ g.key[new] = k /\ k # NoKey /\ NodeAt(g.ttl, new) = 0
      /\ old # NoObj => old \in Objs /\ g.key[old] = k /\ old # new
      /\ \A e \in Entries(g.table) : e.key = k => e.obj = IF old = NoObj THEN new ELSE old
  BY ConstantFacts, Zenon DEF Held
<1>2. 0 \in Nat
  BY Zenon
<1>3. PICK h : Entered(g, ms, {}, new, 0, r, h, k)
  BY <1>1, <1>2, PutOk, Zenon
<1>4. PICK e : e = Entry(k, new, 0)
  BY Zenon
<1>5. e.key = k /\ e.obj = new /\ e.expire = 0
  BY <1>4, Zenon DEF Entry
<1>6. /\ Core(r.g, ms, {} \cup {new, r.old}, {k}) /\ Around(g, h, k)
      /\ r.g.ttl = h.ttl /\ r.g.key = h.key /\ e \in Entries(r.g.table)
      /\ \A f \in Entries(r.g.table) : f.key = k => f = e
  BY <1>3, <1>4, Zenon DEF Entered
<1>7. r.old = NoObj \/ r.old = new \/ r.old = old
  BY <1>1, <1>3, <1>6, Zenon DEF Entered, Around
<1>8. Core(r.g, ms, {new, old}, {k})
  <2>1. {} \cup {new, r.old} \subseteq {new, old} \cup {NoObj} /\ {k} \subseteq {k}
    BY <1>7, Zenon
  <2>2. Core(r.g, ms, {new, old} \cup {NoObj}, {k})
    BY <1>6, <2>1, CoreMore, SMTT(40)
  <2> QED BY <2>2, DropNoObj, Zenon
<1>9. r.g.key[new] = k /\ NodeAt(r.g.ttl, new) = 0 /\ (old # NoObj => r.g.key[old] = k)
  BY <1>1, <1>6, Zenon DEF Around
<1>10. InTable(r.g.table, new)
  BY <1>5, <1>6, Zenon DEF InTable
<1>11. ASSUME NEW o \in Objs, r.g.key[o] = k, o # old
       PROVE  InTable(r.g.table, o) \/ o \in r.g.table.lost
  <2>1. CASE o = new
    BY <1>10, <2>1, Zenon
  <2>2. CASE o # new
    <3>1. o \notin {new, old} /\ r.g.key[o] # NoKey /\ o # ms[r.g.key[o]].new
      BY <1>1, <1>11, <2>2, Zenon
    <3> QED BY <1>8, <3>1, Zenon DEF Core, Agree, Reached
  <2> QED BY <2>1, <2>2, Zenon
<1>12. Exchanged(r.g, k, new, old)
  BY <1>1, <1>5, <1>6, <1>9, <1>11, Zenon DEF Exchanged
<1> QED BY <1>1, <1>8, <1>9, <1>12, Zenon DEF Handed

\* The result of the put is ignored: if it fails the object is out of reach.
LEMMA FinNo ==
    ASSUME NEW g, NEW ms, Core(g, ms, {}, {}), NEW k \in Keys, NEW new, NEW old,
           new = ms[k].new, old = ms[k].old, Held(g.table, g.ttl, g.key, ms[k], k),
           NEW r, PutResult(g, ms, {}, new, 0, r), ~r.ok
    PROVE  Handed([r.g EXCEPT !.table.lost = @ \cup {new}], ms, k, new, old)
<1>1. /\ new \in Objs /\ g.key[new] = k /\ k # NoKey
      /\ old # NoObj => old \in Objs /\ g.key[old] = k /\ old # new
  BY ConstantFacts, Zenon DEF Held
<1>2. /\ Core(r.g, ms, {}, {}) /\ Around(g, r.g, k)
      /\ \A e \in Entries(r.g.table) : e.key # k
  <2> QED BY <1>1, PutNo, Zenon
<1>3. TableOK(r.g.table) /\ r.g.table.lost \in SUBSET Nat
  BY <1>2, PartsTyped, TableTyped, Zenon DEF Core, Agree
<1>4. PICK u, A : A = r.g.table.lost \cup {new} /\ u = [r.g.table EXCEPT !.lost = A]
  BY Zenon
<1>5. A \in SUBSET Nat
  BY <1>1, <1>3, <1>4, ConstantFacts, SMTT(40)
<1>6. TableOK(u) /\ Entries(u) = Entries(r.g.table) /\ u.lost = A /\ u.dropped = r.g.table.dropped
  BY <1>3, <1>4, <1>5, LostFacts, SMTT(40)
<1>7. Fewer(r.g.table, u, {})
  BY <1>4, <1>6, Zenon DEF Fewer
<1>8. PICK d : d = [r.g EXCEPT !.table = u]
  BY Zenon
<1>9. Core(d, ms, {}, {}) /\ d.table = u /\ d.key = r.g.key
  BY <1>2, <1>6, <1>7, <1>8, FewerCore, SMTT(40)
<1>10. [r.g EXCEPT !.table.lost = @ \cup {new}] = d
  BY <1>4, <1>8, Zenon
<1>11. Core(d, ms, {new, old}, {k})
  <2> QED BY <1>9, CoreMore, SMTT(40)
<1>12. d.key[new] = k /\ (old # NoObj => d.key[old] = k)
  BY <1>1, <1>2, <1>9, Zenon DEF Around
<1>13. ASSUME NEW o \in Objs, d.key[o] = k PROVE InTable(d.table, o) \/ o \in d.table.lost
  <2>1. InTable(d.table, o) \/ o = ms[d.key[o]].new \/ o \in d.table.lost
    BY <1>1, <1>9, <1>13, Zenon DEF Core, Agree, Reached
  <2>2. new \in d.table.lost
    BY <1>4, <1>6, <1>9, Zenon
  <2> QED BY <1>13, <2>1, <2>2, Zenon
<1>14. Exchanged(d, k, new, old)
  BY <1>1, <1>2, <1>6, <1>9, <1>12, <1>13, Zenon DEF Exchanged
<1>15. Handed(d, ms, k, new, old)
  BY <1>1, <1>11, <1>12, <1>14, Zenon DEF Handed
<1> QED BY <1>10, <1>15, Zenon

\* mset_fin_one_cmd.
LEMMA FinStep ==
    ASSUME NatInductive, KInv, NEW k \in Keys, NEW room \in BOOLEAN, Fin(k, room)
    PROVE  KInv'
<1>1. PICK new, old : new = mset[k].new /\ old = mset[k].old
  BY Zenon
<1>2. PICK r : r = BucketPut(ks, new, 0, room)
  BY Zenon
<1> DEFINE lost == [r.g EXCEPT !.table.lost = @ \cup {new}]
<1>3. PICK d : d = IF ObjOf(ks.table, k) = new THEN ks
                   ELSE Destroy(IF r.ok THEN r.g ELSE lost, old)
  BY Zenon
<1>4. /\ mset[k] # NoMset /\ mset' = [mset EXCEPT ![k] = NoMset]
      /\ ks' = [LruPrepend(d, new) EXCEPT !.table = SetLockStatus(@, k, FALSE)]
  BY <1>1, <1>2, <1>3, Zenon DEF Fin, Idle
<1>5. Core(ks, mset, {}, {}) /\ Held(ks.table, ks.ttl, ks.key, mset[k], k)
  BY <1>4, Zenon DEF KInv, Core, Agree, Locking
<1>6. new \in Objs /\ ks.key[new] = k /\ (old # NoObj => old # new) /\ k # NoKey
  BY <1>1, <1>5, ConstantFacts, Zenon DEF Held
<1>7. Core(d, mset, {new}, {k}) /\ Exchanged(d, k, new, NoObj)
  <2>1. CASE ObjOf(ks.table, k) = new
    <3>1. d = ks
      BY <1>3, <2>1, Zenon
    <3>2. {} \subseteq {new} /\ {} \subseteq {k} /\ new # NoObj
      BY <1>6, ConstantFacts, Zenon
    <3>3. Core(ks, mset, {new}, {k})
      BY <1>5, CoreMore, SMTT(40)
    <3>4. PICK e : Finds(ks, k, new, e)
      BY <1>5, <2>1, <3>2, FoundEntry, Zenon
    <3>5. \A f \in Entries(ks.table) : f.key = k => f.obj = new /\ f.expire = NodeAt(ks.ttl, new)
      BY <1>5, <3>4, Zenon DEF Finds, Core, Agree, Timed
    <3>6. InTable(ks.table, new)
      BY <3>4, Zenon DEF Finds, InTable
    <3>7. ASSUME NEW o \in Objs, ks.key[o] = k PROVE InTable(ks.table, o) \/ o \in ks.table.lost
      <4>1. InTable(ks.table, o) \/ o = mset[ks.key[o]].new \/ o \in ks.table.lost
        BY <1>5, <1>6, <3>7, Zenon DEF Core, Agree, Reached
      <4> QED BY <1>1, <3>6, <3>7, <4>1, SMTT(40)
    <3>8. Exchanged(ks, k, new, NoObj)
      BY <1>6, <3>5, <3>7, Zenon DEF Exchanged
    <3> QED BY <3>1, <3>3, <3>8, Zenon
  <2>2. CASE ObjOf(ks.table, k) # new
    <3> HIDE DEF lost
    <3>1. PutResult(ks, mset, {}, new, 0, r)
      <4>1. 0 \in Nat
        BY Zenon
      <4> QED BY <1>2, <1>5, <1>6, <4>1, BucketPutFacts, Zenon
    <3>2. r.ok => Handed(r.g, mset, k, new, old)
      BY <1>1, <1>5, <3>1, FinOk, Zenon
    <3>3. ~r.ok => Handed(lost, mset, k, new, old)
      BY <1>1, <1>5, <3>1, FinNo, Zenon DEF lost
    <3>4. PICK p : p = IF r.ok THEN r.g ELSE lost
      BY Zenon
    <3>5. Handed(p, mset, k, new, old)
      BY <3>2, <3>3, <3>4, Zenon
    <3>6. d = Destroy(p, old)
      BY <1>3, <2>2, <3>4, Zenon
    <3> QED BY <3>5, <3>6, OldFreed, Zenon
  <2> QED BY <2>1, <2>2, Zenon
<1>8. Core(ks', mset', {}, {})
  BY <1>4, <1>7, UnlockedCore, Zenon
<1> QED BY <1>8, Zenon DEF KInv

---------------------------------------------------------------------------
(* What follows from the invariant *)

\* The shard starts with an empty table.
LEMMA InitStep ==
    ASSUME Init
    PROVE  KInv
<1>1. PICK l, y, t : /\ l = [c \in Classes |-> << >>] /\ y = [o \in Objs |-> NoKey] /\ t = NewTable
  BY Zenon
<1>2. /\ ks = [table |-> t, ttl |-> NoTtl, lru |-> l, key |-> y]
      /\ mset = [k \in Keys |-> NoMset]
  BY <1>1, Zenon DEF Init, Classes
<1>3. mset \in MsetType /\ \A k \in Keys : mset[k] = NoMset
  BY <1>2, Zenon DEF MsetType, NoMset, NoObj
<1>4. TableOK(t) /\ Entries(t) = {}
  BY <1>1, NewTableFacts, Zenon
<1>5. HeapOK(NoTtl) /\ \A o \in Objs : NodeAt(NoTtl, o) = 0
  BY NoTtlFacts, Zenon
<1>6. l \in Lists /\ \A k : Listed(l, k)
  BY <1>1 DEF Lists, Listed, IsInjective, Range
<1>7. y \in [Objs -> Keys \cup {NoKey}] /\ \A o \in Objs : y[o] = NoKey
  BY <1>1, Zenon
<1>8. Agree(t, NoTtl, l, y, mset, {}, {})
  BY <1>3, <1>4, <1>5, <1>6, <1>7, Zenon
     DEF Agree, Owned, Timed, Alive, Reached, Evictable, Locking
<1>9. t \in Tables /\ NoTtl \in Ttls
  BY <1>4, <1>5, PartsTyped, Zenon
<1> QED BY <1>2, <1>3, <1>6, <1>7, <1>8, <1>9, MemMade, SMTT(40) DEF KInv, Core

\* The lists of a shard whose memory is in order.
LEMMA ListsHold ==
    ASSUME KInv
    PROVE  KeysEvictable
<1>1. Listed(ks.lru, ks.key) /\ Evictable(ks.table, ks.lru, mset, {}) /\ ks.lru \in Lists
  BY MemTyped, Zenon DEF KInv, Core, Agree
<1>2. ASSUME NEW c \in Classes, NEW o \in Range(ks.lru[c])
      PROVE  o \in InUse(ks) /\ Class[ks.key[o]] = c
  BY <1>1, OnList, Zenon DEF Listed, InUse
<1>3. \A c \in Classes : IsInjective(ks.lru[c])
  BY <1>1, Zenon DEF Listed
<1>4. \A e \in Entries(ks.table) : mset[e.key] = NoMset /\ e.obj \notin ks.table.dropped =>
          e.obj \in Range(ks.lru[Class[e.key]])
  BY <1>1, Zenon DEF Evictable
<1> QED BY <1>2, <1>3, <1>4, Zenon DEF KeysEvictable, Classes, Idle

\* The TTL index of a shard whose memory is in order.
LEMMA IndexHolds ==
    ASSUME KInv
    PROVE  ExpiryIndexed
<1>0. PICK H : H = ks.ttl.heap
  BY Zenon
<1>1. PICK n : n = Len(H) /\ H = ks.ttl.heap
  BY <1>0, Zenon
<1>2. PICK I \in [Objs -> Nat] : I = ks.ttl.heap_idx
  BY Zenon DEF KInv, Core, Agree, HeapOK, Linked
<1>3. /\ n \in Nat /\ DOMAIN H = 1..n
      /\ \A i \in 1..n : H[i] \in Node /\ H[i].obj \in Objs /\ H[i].at \in Nat \ {0}
  <2>1. Linked(ks.ttl)
    BY Zenon DEF KInv, Core, Agree, HeapOK
  <2> QED BY <1>1, <2>1, LinkedFacts, Zenon
<1>4. Linked(ks.ttl) /\ Ordered(n, Ats(ks.ttl))
  BY <1>1, Zenon DEF KInv, Core, Agree, HeapOK
<1>5. /\ \A i \in 1..n : I[H[i].obj] = i
      /\ \A o \in Objs : I[o] # 0 => I[o] \in 1..n /\ H[I[o]].obj = o
  BY <1>1, <1>2, <1>3, <1>4, Zenon DEF Linked
<1>6. \A i \in 1..n : Ats(ks.ttl)[i] = H[i].at
  BY <1>1, Zenon DEF Ats
<1>7. ASSUME NEW i \in 1..n, i > 1 PROVE H[i \div 2].at <= H[i].at
  <2>1. i \div 2 \in 1..n
    BY <1>3, <1>7, SMTT(40)
  <2> QED BY <1>4, <1>6, <1>7, <2>1, SMTT(40) DEF Ordered
<1>8. ASSUME NEW i \in 1..n PROVE H[i].obj \in InUse(ks)
  <2>1. PICK o \in Objs : o = H[i].obj
    BY <1>3, Zenon
  <2>2. I[o] = i /\ i # 0
    BY <1>5, <2>1
  <2>3. NodeAt(ks.ttl, o) # 0
    BY <1>1, <1>2, <1>3, <2>2, Zenon DEF NodeAt
  <2>4. ks.key[o] # NoKey
    BY <2>3, Zenon DEF KInv, Core, Agree, Alive
  <2> QED BY <2>1, <2>4, Zenon DEF InUse
<1>9. ASSUME NEW o \in Objs PROVE {i \in 1..n : H[i].obj = o} = {I[o]} \ {0}
  BY <1>5, SMTT(40)
<1>10. \A e \in Entries(ks.table) : e.expire = IF I[e.obj] = 0 THEN 0 ELSE H[I[e.obj]].at
  BY <1>1, <1>2, Zenon DEF KInv, Core, Agree, Timed, NodeAt
<1> QED BY <1>1, <1>2, <1>3, <1>7, <1>8, <1>9, <1>10, Zenon DEF ExpiryIndexed

\* A batch of evictions from a shard whose memory is in order.
LEMMA OrderHolds ==
    ASSUME NatInductive, KInv
    PROVE  EvictsOldest
<1> SUFFICES ASSUME NEW c \in Classes, NEW list, list = ks.lru[c], NEW h, h = Evict(ks, c).g,
                    NEW i \in DOMAIN list, NEW j \in DOMAIN list, i < j,
                    list[i] \notin InUse(h), list[j] \in InUse(h)
             PROVE  \/ IsLocked(ks.table, ks.key[list[j]])
                    \/ ObjOf(ks.table, ks.key[list[j]]) # list[j]
  BY Zenon DEF EvictsOldest, Classes
<1>1. Core(ks, mset, {}, {}) /\ Core(h, mset, {}, {}) /\ InOrder(ks, h, c)
  BY EvictFacts, Zenon DEF KInv, Evicted
<1>2. ks.lru \in Lists /\ h.lru \in Lists /\ Listed(ks.lru, ks.key) /\ Listed(h.lru, h.key)
  BY <1>1, MemTyped, Zenon DEF Core, Agree
<1>3. PICK n \in Nat, N \in Nat, cur \in Seq(Objs) : /\ cur = h.lru[c] /\ n = Len(list) /\ N = Len(cur)
                                                     /\ list \in Seq(Objs)
  <2>1. list \in Seq(Objs) /\ h.lru[c] \in Seq(Objs)
    BY <1>2, Zenon DEF Lists
  <2>2. Len(list) \in Nat /\ Len(h.lru[c]) \in Nat
    BY <2>1
  <2> QED BY <2>1, <2>2, Zenon
<1>4. DOMAIN list = 1..n /\ DOMAIN cur = 1..N /\ i \in 1..n /\ j \in 1..n /\ list[i] \in Objs /\ list[j] \in Objs
  BY <1>3
<1>5. PICK m \in Nat : /\ m <= N
                       /\ \A q \in 1..m : cur[N - m + q] = list[q]
                       /\ \A q \in m+1..n : h.key[list[q]] = NoKey \/ Spared(ks, list[q])
  BY <1>1, <1>3, Zenon DEF InOrder, DownTo
<1>6. ~(i <= m)
  <2> SUFFICES ASSUME i <= m PROVE FALSE
    BY Zenon
  <2>1. i \in 1..m /\ N - m + i \in 1..N
    BY <1>4, <1>5, SMTT(40)
  <2>2. list[i] \in Range(cur)
    BY <1>4, <1>5, <2>1, Zenon DEF Range
  <2>3. h.key[list[i]] # NoKey
    BY <1>2, <1>3, <2>2, Zenon DEF Listed
  <2> QED BY <1>4, <2>3, Zenon DEF InUse
<1>7. j \in m+1..n /\ h.key[list[j]] # NoKey
  BY <1>4, <1>6, SMTT(40) DEF InUse
<1>8. Spared(ks, list[j])
  BY <1>5, <1>7, Zenon
<1>9. PICK o, k : o = list[j] /\ k = ks.key[o]
  BY Zenon
<1>10. k \in Keys /\ o \in Objs /\ o # NoObj
  <2>1. o \in Range(list) /\ k # NoKey
    BY <1>2, <1>9, SMTT(40) DEF Range, Listed
  <2>2. ks.key \in [Objs -> Keys \cup {NoKey}]
    BY <1>1, MemTyped, Zenon DEF Core
  <2> QED BY <1>4, <1>9, <2>1, <2>2, ConstantFacts, Zenon
<1>11. ASSUME ObjOf(ks.table, k) = o PROVE IsLocked(ks.table, k)
  <2>1. PICK e : Finds(ks, k, o, e)
    BY <1>1, <1>10, <1>11, FoundEntry, SMTT(40)
  <2> QED BY <1>8, <1>9, <2>1, Zenon DEF Finds, Spared
<1> QED BY <1>9, <1>11, Zenon

\* Lookup finds the object of an entry.
LEMMA LookupHolds ==
    ASSUME KInv
    PROVE  /\ \A e \in Entries(ks.table) : ObjOf(ks.table, e.key) = e.obj /\ ks.key[e.obj] = e.key
           /\ \A k \in Keys : ObjOf(ks.table, k) # NoObj <=> \E e \in Entries(ks.table) : e.key = k
           /\ \A o \in InUse(ks) : \/ ObjOf(ks.table, ks.key[o]) = o
                                   \/ o = mset[ks.key[o]].new
                                   \/ o \in ks.table.lost
<1>1. TableOK(ks.table) /\ Owned(ks.table, ks.key) /\ Reached(ks.table, ks.key, mset, {})
  BY Zenon DEF KInv, Core, Agree
<1>2. ASSUME NEW e \in Entries(ks.table)
      PROVE  /\ ObjOf(ks.table, e.key) = e.obj /\ ks.key[e.obj] = e.key
             /\ e.key \in Keys /\ e.obj # NoObj
  <2>1. e.key \in Keys /\ e.obj \in Objs /\ ks.key[e.obj] = e.key
    BY <1>1, EntryFacts, Zenon
  <2>2. PICK f \in Entries(ks.table) : f.key = e.key /\ ObjOf(ks.table, e.key) = f.obj
    BY <1>1, <2>1, LookupFacts, SMTT(40)
  <2>3. f = e
    BY <1>1, <2>2, EntryFacts, Zenon
  <2> QED BY <2>1, <2>2, <2>3, ConstantFacts, Zenon
<1>3. ASSUME NEW k \in Keys, ObjOf(ks.table, k) # NoObj PROVE \E e \in Entries(ks.table) : e.key = k
  BY <1>3, FoundEntry, SMTT(40) DEF Finds, KInv
<1>4. ASSUME NEW o \in InUse(ks)
      PROVE  ObjOf(ks.table, ks.key[o]) = o \/ o = mset[ks.key[o]].new \/ o \in ks.table.lost
  <2>1. InTable(ks.table, o) \/ o = mset[ks.key[o]].new \/ o \in ks.table.lost
    BY <1>1, Zenon DEF Reached, InUse
  <2> QED BY <1>2, <2>1, Zenon DEF InTable
<1> QED BY <1>2, <1>3, <1>4, Zenon

Slots(t) == UNION {{i} \X DOMAIN t.buckets[i] : i \in Buckets}

\* The key of each entry, from the places of the table onto the keys it finds.
LEMMA EntryPerKey ==
    ASSUME KInv
    PROVE  \E f \in [Slots(ks.table) -> {k \in Keys : ObjOf(ks.table, k) # NoObj}] :
              /\ \A p, q \in Slots(ks.table) : f[p] = f[q] => p = q
              /\ \A k \in Keys : ObjOf(ks.table, k) # NoObj => \E p \in Slots(ks.table) : f[p] = k
<1> DEFINE S == Slots(ks.table)
           T == {k \in Keys : ObjOf(ks.table, k) # NoObj}
           B == ks.table.buckets
           f == [p \in S |-> B[p[1]][p[2]].key]
<1>1. TableOK(ks.table) /\ ks.table \in Tables /\ Owned(ks.table, ks.key) /\ Single(B)
  BY Zenon DEF KInv, Core, Agree, TableOK, Filed
<1>2. ASSUME NEW p \in S
      PROVE  p = <<p[1], p[2]>> /\ p[1] \in Buckets /\ p[2] \in DOMAIN B[p[1]] /\ B[p[1]][p[2]] \in Entries(ks.table)
  <2>1. PICK i \in Buckets : p \in {i} \X DOMAIN B[i]
    BY Zenon DEF Slots
  <2>2. p = <<p[1], p[2]>> /\ p[1] = i /\ p[2] \in DOMAIN B[i]
    BY <2>1, SMTT(40)
  <2>3. B[i][p[2]] \in Entries(ks.table)
    <3>1. B[i][p[2]] \in Range(B[i])
      BY <2>2, Zenon DEF Range
    <3> HIDE DEF B
    <3> QED BY <3>1, Zenon DEF Entries, B
  <2> QED BY <2>2, <2>3, SMTT(40)
<1>3. ASSUME NEW e \in Entries(ks.table) PROVE \E p \in S : B[p[1]][p[2]] = e
  <2>a. PICK i \in Buckets : e \in Range(B[i])
    BY Zenon DEF Entries
  <2>1. PICK j \in DOMAIN B[i] : e = B[i][j]
    BY <2>a, Zenon DEF Range
  <2>2. <<i, j>> \in {i} \X DOMAIN B[i] /\ <<i, j>>[1] = i /\ <<i, j>>[2] = j
    BY Zenon
  <2>3. <<i, j>> \in S
    BY <2>2, Zenon DEF Slots
  <2> QED BY <2>1, <2>3, SMTT(40)
<1>4. \A e \in Entries(ks.table) : e.key \in T
  <2>1. \A e \in Entries(ks.table) : e.key \in Keys
    BY <1>1, EntryFacts, Zenon
  <2> QED BY <2>1, LookupHolds, Zenon
<1>5. \A k \in T : \E e \in Entries(ks.table) : e.key = k
  BY LookupHolds, Zenon
<1> HIDE DEF S, T, B
<1>6. f \in [S -> T]
  BY <1>2, <1>4, Zenon
<1>7. \A p, q \in S : f[p] = f[q] => p = q
  <2> SUFFICES ASSUME NEW p \in S, NEW q \in S, f[p] = f[q] PROVE p = q
    BY Zenon
  <2>2. p[1] = q[1] /\ p[2] = q[2]
    <3> DEFINE i == p[1]  j == p[2]  m == q[1]  n == q[2]
    <3>1. i \in Buckets /\ j \in DOMAIN B[i] /\ m \in Buckets /\ n \in DOMAIN B[m]
      BY <1>2, Zenon
    <3>2. B[i][j].key = B[m][n].key
      BY Zenon
    <3> HIDE DEF i, j, m, n
    <3>3. i = m /\ j = n
      BY <1>1, <3>1, <3>2, SMTT(40) DEF Single
    <3> QED BY <3>3, Zenon DEF i, j, m, n
  <2> QED BY <1>2, <2>2, Zenon
<1>8. \A k \in T : \E p \in S : f[p] = k
  BY <1>3, <1>5, Zenon
<1>9. \A k \in Keys : ObjOf(ks.table, k) # NoObj => \E p \in S : f[p] = k
  BY <1>8, Zenon DEF T
<1> HIDE DEF f
<1> QED BY <1>6, <1>7, <1>9, Zenon DEF S, T

\* Every step keeps the memory in order.
LEMMA NextStep ==
    ASSUME NatInductive, OvfUsed(ks.table) \in Int, KInv, [Next]_vars
    PROVE  KInv'
<1>1. ASSUME NEW k \in Keys, NEW m \in Memory, NEW at \in ExpiryTimes(k), Set(k, at, m) PROVE KInv'
  <2>1. at \in Nat
    BY MemoryFacts, Zenon
  <2>2. m.room \in BOOLEAN /\ m.pressure \in BOOLEAN
    BY MemoryFacts, Zenon
  <2> QED BY <1>1, <2>1, <2>2, SetStep, SMTT(40)
<1>2. ASSUME NEW k \in Keys, Get(k) PROVE KInv'
  BY <1>2, GetStep, Zenon
<1>3. ASSUME NEW k \in Keys, Delete(k) PROVE KInv'
  BY <1>3, DeleteStep, Zenon
<1>4. ASSUME NEW k \in TtlKeys, NEW room \in Rooms, NEW at \in ExpiryTimes(k), Expire(k, at, room)
      PROVE  KInv'
  <2>1. k \in Keys
    BY KeyspaceAssumption, Zenon
  <2>2. at \in Nat /\ room \in BOOLEAN
    BY <2>1, MemoryFacts, Zenon
  <2> QED BY <1>4, <2>1, <2>2, ExpireStep, Zenon
<1>5. CASE Flush
  BY <1>5, FlushStep, Zenon
<1>6. CASE TtlDrain
  BY <1>6, TtlDrainStep, Zenon
<1>7. CASE Clock \/ vars' = vars
  <2>1. ks' = ks /\ mset' = mset
    BY <1>7, Zenon DEF Clock, vars
  <2> QED BY <2>1, Zenon DEF KInv
<1>8. ASSUME NEW k \in Keys, NEW m \in Memory, Prepare(k, m) PROVE KInv'
  <2>1. m.room \in BOOLEAN /\ m.pressure \in BOOLEAN
    BY MemoryFacts, Zenon
  <2> QED BY <1>8, <2>1, PrepareStep, SMTT(40)
<1>9. ASSUME NEW k \in Keys, NEW room \in Rooms, Fin(k, room) PROVE KInv'
  BY <1>9, MemoryFacts, FinStep, Zenon
<1> QED BY <1>1, <1>2, <1>3, <1>4, <1>5, <1>6, <1>7, <1>8, <1>9, Zenon DEF Next

---------------------------------------------------------------------------
(* Counting, and the theorems *)

Sets == INSTANCE FiniteSetTheorems

\* The library's theorems speak of their own copy of the operators.
LEMMA SameSets ==
    /\ \A S : Sets!Cardinality(S) = Cardinality(S)
    /\ \A S : Sets!IsFiniteSet(S) = IsFiniteSet(S)
<1>1. ASSUME NEW S PROVE Sets!Cardinality(S) = Cardinality(S)
  BY Zenon DEF Sets!Cardinality, Cardinality
<1>2. ASSUME NEW S PROVE Sets!IsFiniteSet(S) = IsFiniteSet(S)
  BY Zenon DEF Sets!IsFiniteSet, IsFiniteSet
<1> QED BY <1>1, <1>2, Zenon

Step(p, q, n, x) == x
Any(p, q, n, x) == TRUE
Rule == INSTANCE Loops WITH Body <- Step, Inv <- Any

\* The hypothesis of the lemmas about loops.
LEMMA Induction == NatInductive
  BY Rule!NatSetInduction, Zenon DEF NatInductive

\* A table has finitely many entries.
LEMMA FewSlots ==
    ASSUME NEW t \in Tables
    PROVE  Sets!IsFiniteSet(Slots(t)) /\ OvfUsed(t) \in Int
<1> DEFINE row(i) == {i} \X DOMAIN t.buckets[i]
           S == {row(i) : i \in Buckets}
           f == [i \in Buckets |-> row(i)]
           B == {i \in Buckets : t.buckets[i] # << >>}
<1>1. Sets!IsFiniteSet(Buckets)
  <2>1. 0 \in Int /\ MaxCap - 1 \in Int
    BY HtableAssumption, SMTT(40)
  <2> QED BY <2>1, Sets!FS_Interval, SMTT(40) DEF Buckets
<1>2. ASSUME NEW i \in Buckets PROVE Sets!IsFiniteSet(row(i))
  <2>1. t.buckets[i] \in Seq(Ent)
    BY TableTyped, Zenon DEF Chains
  <2>2. PICK n \in Nat : DOMAIN t.buckets[i] = 1..n
    BY <2>1, SMTT(40)
  <2>3. Sets!IsFiniteSet(1..n)
    <3> QED BY Sets!FS_Interval, SMTT(40)
  <2>4. Sets!IsFiniteSet({i})
    BY Sets!FS_Singleton, Zenon
  <2> QED BY <2>2, <2>3, <2>4, Sets!FS_Product, SMTT(40)
<1>3. Sets!IsFiniteSet(S)
  <2>1. f \in Sets!Surjection(Buckets, S)
    BY Zenon DEF Sets!Surjection
  <2> HIDE DEF f, S
  <2> QED BY <1>1, <2>1, Sets!FS_Surjection, Zenon
<1>4. \A T \in S : Sets!IsFiniteSet(T)
  BY <1>2, Zenon
<1>5. Sets!IsFiniteSet(UNION S)
  <2> HIDE DEF S
  <2> QED BY <1>3, <1>4, Sets!FS_UNION, Zenon
<1>6. Slots(t) = UNION S
  BY Zenon DEF Slots
<1>7. Sets!IsFiniteSet(B)
  BY <1>1, Sets!FS_Subset, Zenon
<1>8. Sets!Cardinality(UNION S) \in Int /\ Sets!Cardinality(B) \in Int
  <2> HIDE DEF S, B
  <2> QED BY <1>5, <1>7, Sets!FS_CardinalityType, SMTT(40)
<1>9. OvfUsed(t) = Sets!Cardinality(UNION S) - Sets!Cardinality(B)
  BY SameSets, Zenon DEF OvfUsed, NrEntries
<1> HIDE DEF S, B
<1> QED BY <1>5, <1>6, <1>8, <1>9, SMTT(40)

\* The table has an entry for every key it finds, and no other.
LEMMA CountHolds ==
    ASSUME KInv
    PROVE  NrEntries(ks.table) = Cardinality({k \in Keys : ObjOf(ks.table, k) # NoObj})
<1> DEFINE S == Slots(ks.table)
           T == {k \in Keys : ObjOf(ks.table, k) # NoObj}
<1>1. PICK f \in [S -> T] : (\A p, q \in S : f[p] = f[q] => p = q) /\ \A k \in T : \E p \in S : f[p] = k
  BY EntryPerKey, Zenon
<1>2. Sets!IsFiniteSet(S)
  <2>1. ks.table \in Tables
    BY PartsTyped, Zenon DEF KInv, Core, Agree
  <2> QED BY <2>1, FewSlots, Zenon
<1> HIDE DEF S, T
<1>3. Sets!ExistsBijection(S, T)
  BY <1>1, Zenon DEF Sets!ExistsBijection, Sets!Bijection, Sets!Injection, Sets!IsInjective, Sets!Surjection
<1>4. Sets!Cardinality(T) = Sets!Cardinality(S)
  BY <1>2, <1>3, Sets!FS_Bijection, Zenon
<1>5. NrEntries(ks.table) = Sets!Cardinality(S)
  BY SameSets, Zenon DEF NrEntries, S, Slots
<1> QED BY <1>4, <1>5, SameSets, Zenon DEF T

\* Between commands the shard's memory is in order: the table, the TTL index,
\* the lists and the objects agree (shard.c), however the commands, the drain
\* and the phases of an MSET interleave and whatever allocation fails.
THEOREM MemoryInOrder == Spec => []KInv
<1>1. Init => KInv
  BY InitStep, Zenon
<1>2. ASSUME KInv, [Next]_vars PROVE KInv'
  <2>1. ks.table \in Tables
    BY <1>2, PartsTyped, Zenon DEF KInv, Core, Agree
  <2> QED BY <1>2, <2>1, FewSlots, Induction, NextStep, Zenon
<1> QED BY <1>1, <1>2, PTL DEF Spec

\* In the middle of any rehash a lookup finds every object that was put and
\* not removed (ht_bucket_get, ht_rehash_tick).
THEOREM LookupComplete == Spec => []LookupFindsAll
<1>1. KInv => LookupFindsAll
  BY LookupHolds, CountHolds, Zenon DEF LookupFindsAll
<1> QED BY <1>1, MemoryInOrder, PTL

\* Eviction can find every key that commands can see, and never comes to an
\* object that has been freed (lru_node_prepend, lru_node_remove).
THEOREM ListsComplete == Spec => []KeysEvictable
<1>1. KInv => KeysEvictable
  BY ListsHold, Zenon
<1> QED BY <1>1, MemoryInOrder, PTL

\* Eviction takes the keys of a list oldest first (shard_mem_evict).
THEOREM EvictionInOrder == Spec => []EvictsOldest
<1>1. KInv => EvictsOldest
  BY Induction, OrderHolds, Zenon
<1> QED BY <1>1, MemoryInOrder, PTL

\* The TTL index is a heap with one node per key that has an expiry time
\* (ttl_index_update, ttl_index_remove).
THEOREM IndexComplete == Spec => []ExpiryIndexed
<1>1. KInv => ExpiryIndexed
  BY IndexHolds, Zenon
<1> QED BY <1>1, MemoryInOrder, PTL
=============================================================================
