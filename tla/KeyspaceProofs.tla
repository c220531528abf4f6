--------------------------- MODULE KeyspaceProofs ---------------------------
(***************************************************************************)
(* Eviction, allocation and the commands on one key keep the shard's       *)
(* memory in order, whatever the number and the hashes of the keys, the    *)
(* sizes of the table and of its overflow pool, the quota and the          *)
(* addresses malloc chooses from.                                          *)
(***************************************************************************)
EXTENDS MemoryProofs

---------------------------------------------------------------------------
(* Eviction *)

\* What eviction leaves of g in h: it destroys objects whose entry is not
\* locked, with their entries, and nothing else.
Frame(g, h) ==
    /\ Entries(h.table) \subseteq Entries(g.table)
    /\ \A o \in Objs :
          /\ \/ h.key[o] = g.key[o]
             \/ h.key[o] = NoKey /\ \E e \in Entries(g.table) : e.obj = o /\ ~e.locked
          /\ h.key[o] # NoKey => /\ NodeAt(h.ttl, o) = NodeAt(g.ttl, o)
                                 /\ \A e \in Entries(g.table) : e.obj = o => e \in Entries(h.table)
          /\ o \in g.table.dropped => o \in h.table.dropped \/ InTable(g.table, o)

\* An object that eviction may not take.
Spared(g, o) == \A e \in Entries(g.table) : e.obj = o => e.locked

\* Of the list c, eviction has come down to the object m: those before it are
\* where they were, those behind it are gone or spared.
DownTo(g, h, c, m) ==
    LET list == g.lru[c]
        cur == h.lru[c]
    IN  /\ m \in 0..Len(list) /\ m <= Len(cur)
        /\ \A i \in 1..m : cur[Len(cur) - m + i] = list[i]
        /\ \A i \in m+1..Len(list) : h.key[list[i]] = NoKey \/ Spared(g, list[i])
InOrder(g, h, c) == \E m \in Nat : DownTo(g, h, c, m)

\* What becomes of a victim v.
Freed(x, y, v) == \E t : /\ y = [any |-> TRUE, g |-> Destroy([x.g EXCEPT !.table = t], v)]
                         /\ Cleared(x.g.table, t, x.g.key[v])
                         /\ \E e \in Entries(x.g.table) : e.key = x.g.key[v] /\ e.obj = v /\ ~e.locked
PutBack(x, y, v) == /\ y = [any |-> x.any, g |-> LruPrepend(x.g, v)]
                    /\ \E e \in Entries(x.g.table) : e.obj = v /\ e.locked
Skipped(x, y, v) == y = [any |-> x.any, g |-> LruRemove(x.g, v)] /\ ~InTable(x.g.table, v)
Fate(x, y, v) == Freed(x, y, v) \/ PutBack(x, y, v) \/ Skipped(x, y, v)

Evictions == [any : BOOLEAN, g : Mem]

\* The last of some numbers.
LEMMA MaxFacts ==
    ASSUME NatInductive, NEW N \in Nat, NEW S \in SUBSET (0..N), S # {}
    PROVE  Max(S) \in S
<1> DEFINE T == {N - x : x \in S}
<1>1. T \in SUBSET Nat /\ T # {}
  <2>1. \A x \in S : N - x \in Nat
    OBVIOUS
  <2> QED BY <2>1, Zenon
<1>2. PICK m \in T : \A y \in T : m <= y
  <2> HIDE DEF T
  <2> QED BY <1>1, LeastNat, Zenon
<1>3. PICK x \in S : m = N - x
  BY Zenon
<1>4. \A y \in S : x >= y
  <2> SUFFICES ASSUME NEW y \in S PROVE x >= y
    BY Zenon
  <2>1. N - x <= N - y
    BY <1>2, <1>3, Zenon
  <2> QED BY <2>1
<1> QED BY <1>4, Zenon DEF Max

\* The last object of a list is taken off.
LEMMA LastOut ==
    ASSUME NEW l \in Seq(Objs), IsInjective(l), Len(l) > 0
    PROVE  LET w == Without(l, l[Len(l)])
           IN  Len(w) = Len(l) - 1 /\ \A j \in 1..Len(l)-1 : w[j] = l[j]
<1>a. PICK n \in Nat : n = Len(l) /\ n > 0
  OBVIOUS
<1>b. PICK v : v = l[n]
  BY Zenon
<1> DEFINE at == {i \in DOMAIN l : l[i] = v}
<1>1. n \in DOMAIN l /\ DOMAIN l = 1..n
  BY <1>a
<1>2. at # {}
  BY <1>b, <1>1, Zenon
<1>3. PICK i \in at : Without(l, v) = Cut(l, i)
  BY <1>2, Zenon DEF Without
<1>4. i \in DOMAIN l /\ l[i] = l[n]
  BY <1>b, <1>3, Zenon
<1>5. i = n
  BY <1>1, <1>4, Zenon DEF IsInjective
<1>6. PICK c : c = Cut(l, n) /\ c = Without(l, v)
  BY <1>3, <1>5, Zenon
<1>7. /\ c \in Seq(Objs) /\ DOMAIN c = 1..n-1
      /\ \A j \in 1..n-1 : IF j < n THEN j \in 1..n /\ c[j] = l[j]
                           ELSE j + 1 \in 1..n /\ c[j] = l[j + 1]
  <2> DEFINE d == Cut(l, n)
  <2>1. /\ d \in Seq(Objs) /\ DOMAIN d = 1..Len(l)-1
        /\ \A j \in 1..Len(l)-1 : IF j < n THEN j \in 1..Len(l) /\ d[j] = l[j]
                                  ELSE j + 1 \in 1..Len(l) /\ d[j] = l[j + 1]
    BY <1>1, CutFacts, Zenon
  <2>2. d = c
    BY <1>6, Zenon
  <2> HIDE DEF d
  <2> QED BY <1>a, <2>1, <2>2, Zenon
<1>8. Len(c) = n - 1
  BY <1>a, <1>7, SMTT(40)
<1>9. \A j \in 1..n-1 : c[j] = l[j]
  BY <1>7
<1> QED BY <1>a, <1>b, <1>6, <1>8, <1>9, Zenon

\* shard_mem_evict picks the last object of the wanted list, if there is one.
LEMMA VictimFacts ==
    ASSUME NatInductive, NEW x \in Evictions, NEW ms, NEW L, Core(x.g, ms, L, {}), NEW target, Tails(x.g) # {}
    PROVE  \E c \in Classes, v \in Objs :
              LET l == x.g.lru[c]
              IN  /\ target \in Tails(x.g) => c = target
                  /\ l \in Seq(Objs) /\ Len(l) > 0 /\ v = l[Len(l)] /\ v \in Range(l)
                  /\ x.g.key[v] \in Keys /\ Class[x.g.key[v]] = c
                  /\ Fate(x, EvictOne(x, target), v)
<1>1. PICK g : g = x.g
  BY Zenon
<1>2. x.any \in BOOLEAN /\ g \in Mem /\ x = [any |-> x.any, g |-> g]
  BY <1>1, Zenon DEF Evictions
<1>3. /\ g \in Mem /\ g.lru \in Lists /\ g.key \in [Objs -> Keys \cup {NoKey}]
      /\ TableOK(g.table) /\ Listed(g.lru, g.key) /\ Owned(g.table, g.key)
  BY <1>1, MemTyped, Zenon DEF Core, Agree
<1>4. PICK c : c = IF target \in Tails(g) THEN target ELSE Max(Tails(g))
  BY Zenon
<1>5. c \in Tails(g)
  <2>1. PICK N \in Nat : N = NrClasses - 1
    BY ConstantFacts
  <2>2. Tails(g) \in SUBSET (0..N)
    BY <2>1, Zenon DEF Tails
  <2>3. Max(Tails(g)) \in Tails(g)
    BY <1>1, <2>2, MaxFacts, Zenon
  <2> QED BY <1>4, <2>3, Zenon
<1>6. c \in Classes /\ g.lru[c] # << >>
  BY <1>5, Zenon DEF Tails, Classes
<1>7. PICK l \in Seq(Objs) : l = g.lru[c]
  BY <1>3, <1>6, Zenon DEF Lists
<1>8. Len(l) \in Nat /\ Len(l) > 0 /\ Len(l) \in DOMAIN l
  BY <1>6, <1>7
<1>9. PICK v : v = l[Len(l)]
  BY Zenon
<1>10. v \in Range(l) /\ v \in Objs
  BY <1>8, <1>9 DEF Range
<1>11. g.key[v] \in Keys /\ Class[g.key[v]] = c
  BY <1>3, <1>6, <1>7, <1>10, Zenon DEF Listed
<1>12. PICK k : k = g.key[v]
  BY Zenon
<1>13. PICK r : r = TakeIfUnlocked(g.table, k, v)
  BY Zenon
<1>14. /\ r.taken \in BOOLEAN /\ r.locked \in BOOLEAN /\ ~(r.taken /\ r.locked)
       /\ r.taken => /\ Cleared(g.table, r.t, k)
                     /\ \E e \in Entries(g.table) : e.key = k /\ e.obj = v /\ ~e.locked
       /\ r.locked => \E e \in Entries(g.table) : e.key = k /\ e.obj = v /\ e.locked
       /\ ~r.taken /\ ~r.locked => \A e \in Entries(g.table) : e.key = k => e.obj # v
  <2>1. TableOK(g.table) /\ k \in Keys
    BY <1>3, <1>11, <1>12, Zenon
  <2> QED BY <1>13, <2>1, TakeIfUnlockedFacts
<1>15. PICK y : y = EvictOne(x, target)
  BY Zenon
<1>16. y = CASE r.taken  -> [any |-> TRUE, g |-> Destroy([x.g EXCEPT !.table = r.t], v)]
             [] r.locked -> [x EXCEPT !.g = LruPrepend(@, v)]
             [] OTHER    -> [x EXCEPT !.g = LruRemove(@, v)]
  BY <1>1, <1>4, <1>5, <1>7, <1>9, <1>12, <1>13, <1>15, Zenon DEF EvictOne
<1>17. Fate(x, y, v)
  <2>1. CASE r.taken
    <3>1. y = [any |-> TRUE, g |-> Destroy([x.g EXCEPT !.table = r.t], v)]
      BY <1>14, <1>16, <2>1, Zenon
    <3>2. Freed(x, y, v)
      BY <1>1, <1>12, <1>14, <2>1, <3>1, Zenon DEF Freed
    <3> QED BY <3>2, Zenon DEF Fate
  <2>2. CASE r.locked
    <3>1. y = [x EXCEPT !.g = LruPrepend(g, v)]
      BY <1>1, <1>14, <1>16, <2>2, Zenon
    <3>2. y = [any |-> x.any, g |-> LruPrepend(g, v)]
      BY <1>2, <3>1, Zenon
    <3>3. PutBack(x, y, v)
      BY <1>1, <1>14, <2>2, <3>2, Zenon DEF PutBack
    <3> QED BY <3>3, Zenon DEF Fate
  <2>3. CASE ~r.taken /\ ~r.locked
    <3>1. y = [x EXCEPT !.g = LruRemove(g, v)]
      BY <1>1, <1>16, <2>3, Zenon
    <3>2. y = [any |-> x.any, g |-> LruRemove(g, v)]
      BY <1>2, <3>1, Zenon
    <3>3. ~InTable(g.table, v)
      BY <1>3, <1>12, <1>14, <2>3, Zenon DEF InTable, Owned
    <3>4. Skipped(x, y, v)
      BY <1>1, <3>2, <3>3, Zenon DEF Skipped
    <3> QED BY <3>4, Zenon DEF Fate
  <2> QED BY <2>1, <2>2, <2>3, Zenon
<1>18. target \in Tails(g) => c = target
  BY <1>4, Zenon
<1> QED BY <1>1, <1>6, <1>7, <1>8, <1>9, <1>10, <1>11, <1>15, <1>17, <1>18, Zenon

\* One turn of shard_mem_evict, on the shard's memory.
LEMMA FateCore ==
    ASSUME NatInductive, NEW x \in Evictions, NEW y, NEW ms, NEW L, Core(x.g, ms, L, {}),
           NEW v \in Objs, x.g.key[v] \in Keys, Fate(x, y, v)
    PROVE  y \in Evictions /\ Core(y.g, ms, L, {}) /\ Frame(x.g, y.g)
<1>1. PICK g, h : g = x.g /\ h = y.g
  BY Zenon
<1>2. x.any \in BOOLEAN /\ g \in Mem /\ g.key[v] # NoKey
  BY <1>1, ConstantFacts, Zenon DEF Evictions
<1>3. /\ g.key \in [Objs -> Keys \cup {NoKey}] /\ TableOK(g.table)
      /\ Owned(g.table, g.key) /\ Locking(g.table, g.ttl, g.key, ms, {})
  BY <1>1, MemTyped, Zenon DEF Core, Agree
<1>4. CASE Freed(x, y, v)
  <2>1. PICK t : /\ y = [any |-> TRUE, g |-> Destroy([g EXCEPT !.table = t], v)]
                 /\ Cleared(g.table, t, g.key[v])
                 /\ \E e \in Entries(g.table) : e.key = g.key[v] /\ e.obj = v /\ ~e.locked
    BY <1>1, <1>4, Zenon DEF Freed
  <2>2. PICK e \in Entries(g.table) : e.key = g.key[v] /\ e.obj = v /\ ~e.locked
    BY <2>1, Zenon
  <2>3. PICK k \in Keys : k = g.key[v]
    BY <1>1, Zenon
  <2>4. ms[k] = NoMset
    <3>1. ~Held(g.table, g.ttl, g.key, ms[k], k)
      BY <2>2, <2>3, Zenon DEF Held
    <3> QED BY <1>3, <3>1, Zenon DEF Locking
  <2>5. \A f \in Entries(g.table) : f.key = k => f.obj = v
    BY <1>3, <2>2, <2>3, EntryFacts, SMTT(40)
  <2>6. h = Destroy([g EXCEPT !.table = t], v) /\ y = [any |-> TRUE, g |-> h]
    BY <1>1, <2>1, Zenon
  <2>7. /\ Core(h, ms, L \ {v}, {}) /\ h.key = [g.key EXCEPT ![v] = NoKey]
        /\ Entries(h.table) = {f \in Entries(g.table) : f.key # k}
        /\ h.table.dropped = g.table.dropped \ {v}
        /\ \A q \in Objs : q # v => NodeAt(h.ttl, q) = NodeAt(g.ttl, q)
    <3>1. Core(g, ms, L, {}) /\ Cleared(g.table, t, g.key[v]) /\ ms[g.key[v]] = NoMset
      BY <1>1, <2>1, <2>3, <2>4, Zenon
    <3>2. Only(g.table, g.key[v], v) /\ g.key[v] \in Keys
      BY <2>3, <2>5, Zenon DEF Only
    <3>3. Core(h, ms, L \ {v}, {}) /\ Removed(g, h, v, g.key[v])
      BY <2>6, <3>1, <3>2, FreeCore, Zenon
    <3> QED BY <2>3, <3>3, Zenon DEF Removed
  <2>8. Core(h, ms, L, {})
    <3>1. PICK M, K : M = L \ {v} /\ K = {}
      BY Zenon
    <3>2. Core(h, ms, M, K) /\ M \subseteq L /\ K \subseteq K
      BY <2>7, <3>1, Zenon
    <3>3. Core(h, ms, L, K)
      BY <3>2, CoreMore, Zenon
    <3> QED BY <3>1, <3>3, Zenon
  <2>9. ASSUME NEW o \in Objs
        PROVE  /\ \/ h.key[o] = g.key[o]
                  \/ h.key[o] = NoKey /\ \E f \in Entries(g.table) : f.obj = o /\ ~f.locked
               /\ h.key[o] # NoKey =>
                     /\ NodeAt(h.ttl, o) = NodeAt(g.ttl, o)
                     /\ \A f \in Entries(g.table) : f.obj = o => f \in Entries(h.table)
               /\ o \in g.table.dropped => o \in h.table.dropped \/ InTable(g.table, o)
    <3>1. CASE o = v
      <4>1. h.key[o] = NoKey
        BY <1>3, <2>7, <3>1, Zenon
      <4>2. InTable(g.table, o)
        BY <2>2, <3>1, Zenon DEF InTable
      <4> QED BY <2>2, <3>1, <4>1, <4>2, Zenon
    <3>2. CASE o # v
      <4>1. h.key[o] = g.key[o]
        BY <1>3, <2>7, <3>2, Zenon
      <4>2. \A f \in Entries(g.table) : f.obj = o => f \in Entries(h.table)
        BY <2>5, <2>7, <3>2, Zenon
      <4> QED BY <2>7, <3>2, <4>1, <4>2, Zenon
    <3> QED BY <3>1, <3>2, Zenon
  <2>10. Frame(g, h)
    BY <2>7, <2>9, Zenon DEF Frame
  <2>11. y \in Evictions
    BY <2>6, <2>8, Zenon DEF Evictions, Core
  <2> QED BY <1>1, <2>8, <2>10, <2>11, Zenon
<1>5. CASE PutBack(x, y, v)
  <2>1. PICK e \in Entries(g.table) : e.obj = v
    BY <1>1, <1>5, Zenon DEF PutBack
  <2>2. h = LruPrepend(g, v) /\ y = [any |-> x.any, g |-> h]
    BY <1>1, <1>5, Zenon DEF PutBack
  <2>3. /\ Core(h, ms, L, {}) /\ h.ttl = g.ttl /\ h.key = g.key
        /\ Entries(h.table) = Entries(g.table) /\ h.table.dropped = g.table.dropped \ {v}
    BY <1>1, <1>2, <2>2, PrependCore, SMTT(40)
  <2>4. Frame(g, h)
    BY <2>1, <2>3, Zenon DEF Frame, InTable
  <2>5. y \in Evictions
    BY <2>2, <2>3, Zenon DEF Evictions, Core
  <2> QED BY <1>1, <2>3, <2>4, <2>5, Zenon
<1>6. CASE Skipped(x, y, v)
  <2>1. h = LruRemove(g, v) /\ y = [any |-> x.any, g |-> h] /\ ~InTable(g.table, v)
    BY <1>1, <1>6, Zenon DEF Skipped
  <2>2. Core(h, ms, L, {}) /\ h.ttl = g.ttl /\ h.key = g.key /\ h.table = g.table
    BY <1>1, <1>2, <2>1, RemoveCore, SMTT(40)
  <2>3. Frame(g, h)
    BY <2>2, Zenon DEF Frame
  <2>4. y \in Evictions
    BY <2>1, <2>2, Zenon DEF Evictions, Core
  <2> QED BY <1>1, <2>2, <2>3, <2>4, Zenon
<1> QED BY <1>4, <1>5, <1>6, Zenon DEF Fate

\* The lists after lru_node_remove and lru_node_prepend.
LEMMA ListsAre ==
    ASSUME NEW g \in Mem, NEW o \in Objs
    PROVE  LET c == Class[g.key[o]]
               r == LruRemove(g, o).lru
           IN  /\ r = [g.lru EXCEPT ![c] = Without(g.lru[c], o)]
               /\ LruPrepend(g, o).lru = [r EXCEPT ![c] = <<o>> \o r[c]]
<1>1. PICK t, h, l, k : /\ t = g.table /\ h = g.ttl /\ k = g.key
                        /\ l = [g.lru EXCEPT ![Class[g.key[o]]] = Without(g.lru[Class[g.key[o]]], o)]
  BY Zenon
<1>2. LruRemove(g, o) = [table |-> t, ttl |-> h, lru |-> l, key |-> k]
  BY <1>1, RemoveIs, Zenon
<1>3. LruRemove(g, o).lru = l
  BY <1>2
<1>4. PICK u, m : /\ u = [g.table EXCEPT !.dropped = @ \ {o}]
                  /\ m = [LruRemove(g, o).lru EXCEPT ![Class[g.key[o]]] = <<o>> \o @]
  BY Zenon
<1>5. LruPrepend(g, o) = [table |-> u, ttl |-> h, lru |-> m, key |-> k]
  BY <1>1, <1>4, PrependIs, Zenon
<1>6. LruPrepend(g, o).lru = m
  BY <1>5
<1> QED BY <1>1, <1>3, <1>4, <1>6, Zenon

\* The victim is off the end of its list, and at the head if it is locked.
OffEnd(x, y, v) ==
    LET c == Class[x.g.key[v]]
    IN  /\ \/ y.g.lru[c] = Without(x.g.lru[c], v)
           \/ y.g.lru[c] = <<v>> \o Without(x.g.lru[c], v)
        /\ Freed(x, y, v) => y.g.key[v] = NoKey

\* Where the victim is on its list afterwards.
LEMMA FateList ==
    ASSUME NEW x \in Evictions, NEW y, NEW v \in Objs, x.g.key[v] \in Keys, Fate(x, y, v)
    PROVE  OffEnd(x, y, v)
<1>0. PICK c \in Classes : c = Class[x.g.key[v]]
  BY ConstantFacts, Zenon
<1>1. PICK g, h : g = x.g /\ h = y.g
  BY Zenon
<1>2. g \in Mem /\ g.lru \in Lists /\ g.key \in [Objs -> Keys \cup {NoKey}]
  BY <1>1, MemTyped, Zenon DEF Evictions
<1>3. PICK l, w : l = g.lru /\ w = Without(l[c], v)
  BY Zenon
<1>4. DOMAIN l = Classes
  BY <1>2, <1>3, Zenon DEF Lists
<1>5. LruRemove(g, v).lru = [l EXCEPT ![c] = w] /\ [l EXCEPT ![c] = w][c] = w
  <2>1. LruRemove(g, v).lru = [g.lru EXCEPT ![Class[g.key[v]]] = Without(g.lru[Class[g.key[v]]], v)]
    BY <1>2, ListsAre, Zenon
  <2>2. Class[g.key[v]] = c
    BY <1>0, <1>1, Zenon
  <2> QED BY <1>3, <1>4, <2>1, <2>2, Zenon
<1>6. CASE Freed(x, y, v)
  <2>1. PICK u : /\ y = [any |-> TRUE, g |-> Destroy([g EXCEPT !.table = u], v)]
                 /\ Cleared(g.table, u, g.key[v])
    BY <1>1, <1>6, Zenon DEF Freed
  <2>2. u \in Tables
    BY <2>1, PartsTyped, Zenon DEF Cleared
  <2>3. PICK f : f = [g EXCEPT !.table = u]
    BY Zenon
  <2>4. f \in Mem /\ f.lru = l /\ f.key = g.key
    BY <1>2, <1>3, <2>2, <2>3, MemTable, Zenon
  <2>5. h = Destroy(f, v) /\ v # NoObj
    BY <1>1, <2>1, <2>3, ConstantFacts, Zenon
  <2>6. h.lru = LruRemove(f, v).lru /\ h.key = [g.key EXCEPT ![v] = NoKey]
    BY <2>4, <2>5, Zenon DEF Destroy
  <2>7. LruRemove(f, v).lru = [l EXCEPT ![c] = w]
    <3>1. LruRemove(f, v).lru = [f.lru EXCEPT ![Class[f.key[v]]] = Without(f.lru[Class[f.key[v]]], v)]
      BY <2>4, ListsAre, Zenon
    <3> QED BY <1>0, <1>1, <1>3, <2>4, <3>1, Zenon
  <2>8. h.lru[c] = w /\ h.key[v] = NoKey
    BY <1>2, <1>5, <2>6, <2>7, Zenon
  <2> QED BY <1>0, <1>1, <1>3, <2>8, Zenon DEF OffEnd
<1>7. CASE PutBack(x, y, v)
  <2>1. h = LruPrepend(g, v)
    BY <1>1, <1>7, Zenon DEF PutBack
  <2>2. PICK z : z = [l EXCEPT ![c] = w]
    BY Zenon
  <2>3. h.lru = [z EXCEPT ![c] = <<v>> \o @]
    <3>1. LruRemove(g, v).lru = z /\ Class[g.key[v]] = c
      BY <1>0, <1>1, <1>5, <2>2, Zenon
    <3>2. h.lru = [LruRemove(g, v).lru EXCEPT ![Class[g.key[v]]] = <<v>> \o @]
      BY <1>2, <2>1, ListsAre, Zenon
    <3> QED BY <3>1, <3>2, Zenon
  <2>4. h.lru[c] = <<v>> \o w
    BY <1>4, <2>2, <2>3, Zenon
  <2>5. ~Freed(x, y, v) \/ h.key[v] = NoKey
    BY <1>1, <1>6, Zenon DEF OffEnd
  <2> QED BY <1>0, <1>1, <1>3, <2>4, <2>5, Zenon DEF OffEnd
<1>8. CASE Skipped(x, y, v)
  <2>1. h = LruRemove(g, v)
    BY <1>1, <1>8, Zenon DEF Skipped
  <2>2. h.lru[c] = w
    BY <1>5, <2>1, Zenon
  <2>3. ~Freed(x, y, v) \/ h.key[v] = NoKey
    BY <1>1, <1>6, Zenon DEF OffEnd
  <2> QED BY <1>0, <1>1, <1>3, <2>2, <2>3, Zenon DEF OffEnd
<1> QED BY <1>6, <1>7, <1>8, Zenon DEF Fate

\* What is left of what is left.
LEMMA FrameMore ==
    ASSUME NEW g, NEW h, NEW j, Frame(g, h), Frame(h, j), Owned(g.table, g.key)
    PROVE  Frame(g, j)
<1>1. Entries(j.table) \subseteq Entries(g.table) /\ Entries(h.table) \subseteq Entries(g.table)
  BY Zenon DEF Frame
<1>2. ASSUME NEW o \in Objs
      PROVE  /\ \/ j.key[o] = g.key[o]
                \/ j.key[o] = NoKey /\ \E e \in Entries(g.table) : e.obj = o /\ ~e.locked
             /\ j.key[o] # NoKey => /\ NodeAt(j.ttl, o) = NodeAt(g.ttl, o)
                                    /\ \A e \in Entries(g.table) : e.obj = o => e \in Entries(j.table)
             /\ o \in g.table.dropped => o \in j.table.dropped \/ InTable(g.table, o)
  <2>1. /\ \/ h.key[o] = g.key[o]
           \/ h.key[o] = NoKey /\ \E e \in Entries(g.table) : e.obj = o /\ ~e.locked
        /\ h.key[o] # NoKey => /\ NodeAt(h.ttl, o) = NodeAt(g.ttl, o)
                               /\ \A e \in Entries(g.table) : e.obj = o => e \in Entries(h.table)
        /\ o \in g.table.dropped => o \in h.table.dropped \/ InTable(g.table, o)
    BY Zenon DEF Frame
  <2>2. /\ \/ j.key[o] = h.key[o]
           \/ j.key[o] = NoKey /\ \E e \in Entries(h.table) : e.obj = o /\ ~e.locked
        /\ j.key[o] # NoKey => /\ NodeAt(j.ttl, o) = NodeAt(h.ttl, o)
                               /\ \A e \in Entries(h.table) : e.obj = o => e \in Entries(j.table)
        /\ o \in h.table.dropped => o \in j.table.dropped \/ InTable(h.table, o)
    BY Zenon DEF Frame
  <2>3. InTable(h.table, o) => InTable(g.table, o)
    BY <1>1, Zenon DEF InTable
  <2>4. \/ j.key[o] = g.key[o]
        \/ j.key[o] = NoKey /\ \E e \in Entries(g.table) : e.obj = o /\ ~e.locked
    BY <1>1, <2>1, <2>2, Zenon
  <2>5. j.key[o] # NoKey => h.key[o] # NoKey
    BY <2>2, Zenon
  <2> QED BY <2>1, <2>2, <2>3, <2>4, <2>5, Zenon
<1> QED BY <1>2, Zenon DEF Frame

\* Eviction goes down the list by one object.
LEMMA FateOrder ==
    ASSUME NatInductive, NEW g, NEW ms, NEW L, Core(g, ms, L, {}), NEW x \in Evictions, Core(x.g, ms, L, {}),
           NEW target \in Classes, Frame(g, x.g), InOrder(g, x.g, target),
           NEW y \in Evictions, y = EvictOne(x, target), Tails(x.g) # {}, Frame(x.g, y.g)
    PROVE  InOrder(g, y.g, target)
<1>1. PICK f, h : f = x.g /\ h = y.g
  BY Zenon
<1>2. PICK m \in Nat : DownTo(g, f, target, m)
  BY <1>1, Zenon DEF InOrder
<1>3. PICK list \in Seq(Objs), cur \in Seq(Objs), new \in Seq(Objs) :
          list = g.lru[target] /\ cur = f.lru[target] /\ new = h.lru[target]
  <2>1. g \in Mem /\ f \in Mem /\ h \in Mem
    BY <1>1, Zenon DEF Evictions, Core
  <2>2. g.lru \in Lists /\ f.lru \in Lists /\ h.lru \in Lists
    BY <2>1, MemTyped, Zenon
  <2> QED BY <2>2, Zenon DEF Lists
<1>4. PICK N \in Nat, n \in Nat, p \in Nat : N = Len(list) /\ n = Len(cur) /\ p = Len(new)
  OBVIOUS
<1>5. /\ m <= N /\ m <= n
      /\ \A i \in 1..m : cur[n - m + i] = list[i]
      /\ \A i \in m+1..N : f.key[list[i]] = NoKey \/ Spared(g, list[i])
  BY <1>2, <1>3, <1>4 DEF DownTo
<1>6. \A i \in m+1..N : h.key[list[i]] = NoKey \/ Spared(g, list[i])
  <2> SUFFICES ASSUME NEW i \in m+1..N, f.key[list[i]] = NoKey
               PROVE  h.key[list[i]] = NoKey
    BY <1>5, Zenon
  <2>1. list[i] \in Objs
    BY <1>4
  <2> QED BY <1>1, <2>1, Zenon DEF Frame
<1>7. CASE m = 0
  <2>1. DownTo(g, h, target, 0)
    BY <1>3, <1>4, <1>6, <1>7, SMTT(40) DEF DownTo
  <2> QED BY <1>1, <2>1, Zenon DEF InOrder
<1>8. CASE m > 0
  <2>1. target \in Tails(f)
    BY <1>3, <1>4, <1>5, <1>8, SMTT(40) DEF Tails, Classes
  <2>2. PICK c \in Classes, v \in Objs :
            /\ target \in Tails(f) => c = target
            /\ v = f.lru[c][Len(f.lru[c])]
            /\ f.key[v] \in Keys /\ Class[f.key[v]] = c
            /\ Fate(x, y, v)
    <3> QED BY <1>1, VictimFacts, Zenon
  <2>3. c = target /\ v = cur[n] /\ Class[f.key[v]] = target
    BY <1>3, <1>4, <2>1, <2>2, Zenon
  <2>4. v = list[m]
    <3>1. m \in 1..m /\ n - m + m = n
      BY <1>8
    <3> QED BY <1>5, <2>3, <3>1, Zenon
  <2>5. IsInjective(cur) /\ TableOK(f.table) /\ f.key \in [Objs -> Keys \cup {NoKey}]
    BY <1>1, <1>3, MemTyped, Zenon DEF Core, Agree, Listed
  <2>6. PICK w : w = Without(cur, v)
    BY Zenon
  <2>7. Len(w) = n - 1 /\ \A j \in 1..n-1 : w[j] = cur[j]
    <3>1. Len(cur) > 0
      BY <1>4, <1>5, <1>8, SMTT(40)
    <3>2. LET z == Without(cur, cur[Len(cur)])
          IN  Len(z) = Len(cur) - 1 /\ \A j \in 1..Len(cur)-1 : z[j] = cur[j]
      BY <2>5, <3>1, LastOut, Zenon
    <3> QED BY <1>4, <2>3, <2>6, <3>2, Zenon
  <2>8. w \in Seq(Objs)
    BY <2>5, <2>6, WithoutFacts, Zenon
  <2>9. /\ new = w \/ new = <<v>> \o w
        /\ Freed(x, y, v) => h.key[v] = NoKey
    <3>1. x.g.key[v] \in Keys
      BY <1>1, <2>2, Zenon
    <3>2. OffEnd(x, y, v)
      BY <2>2, <3>1, FateList, Zenon
    <3> QED BY <1>1, <1>3, <2>3, <2>6, <3>2, Zenon DEF OffEnd
  <2>10. PICK d \in Nat : d + 1 = m
    <3>1. m - 1 \in Nat /\ (m - 1) + 1 = m
      BY <1>8
    <3> QED BY <3>1, Zenon
  <2>11. d <= p /\ \A i \in 1..d : new[p - d + i] = list[i]
    <3>1. \A i \in 1..d : n - m + i \in 1..n-1 /\ i \in 1..m
      BY <1>5, <2>10
    <3>2. \A i \in 1..d : w[n - m + i] = list[i]
      BY <1>5, <2>7, <3>1, Zenon
    <3>3. CASE new = w
      <4>1. p = n - 1
        BY <1>4, <2>7, <3>3, Zenon
      <4>2. \A i \in 1..d : p - d + i = n - m + i
        BY <2>10, <4>1, SMTT(40)
      <4>3. d <= p
        BY <1>5, <2>10, <4>1
      <4> QED BY <3>2, <3>3, <4>2, <4>3, Zenon
    <3>4. CASE new = <<v>> \o w
      <4>1. p = n /\ \A j \in 1..n-1 : new[j + 1] = w[j]
        BY <1>4, <2>7, <2>8, <3>4, SMTT(40)
      <4>2. \A i \in 1..d : p - d + i = (n - m + i) + 1
        BY <2>10, <4>1, SMTT(40)
      <4>3. d <= p
        BY <1>5, <2>10, <4>1, SMTT(40)
      <4> QED BY <3>1, <3>2, <4>1, <4>2, <4>3, Zenon
    <3> QED BY <2>9, <3>3, <3>4, Zenon
  <2>12. h.key[v] = NoKey \/ Spared(g, v)
    <3>1. CASE Freed(x, y, v)
      BY <2>9, <3>1, Zenon
    <3>2. CASE PutBack(x, y, v)
      <4>1. PICK e \in Entries(f.table) : e.obj = v /\ e.locked
        BY <1>1, <3>2, Zenon DEF PutBack
      <4>2. e \in Entries(g.table)
        BY <1>1, Zenon DEF Frame
      <4>3. TableOK(g.table) /\ Owned(g.table, g.key)
        BY Zenon DEF Core, Agree
      <4> QED BY <4>1, <4>2, <4>3, EntryFacts, Zenon DEF Spared
    <3>3. CASE Skipped(x, y, v)
      <4>1. ~InTable(f.table, v) /\ f.key[v] # NoKey
        BY <1>1, <2>2, <3>3, ConstantFacts, Zenon DEF Skipped
      <4> QED BY <1>1, <4>1, Zenon DEF Frame, Spared, InTable
    <3> QED BY <2>2, <3>1, <3>2, <3>3, Zenon DEF Fate
  <2>13. \A i \in d+1..N : h.key[list[i]] = NoKey \/ Spared(g, list[i])
    <3> SUFFICES ASSUME NEW i \in d+1..N PROVE h.key[list[i]] = NoKey \/ Spared(g, list[i])
      BY Zenon
    <3>1. i = m \/ i \in m+1..N
      BY <2>10
    <3> QED BY <1>6, <2>4, <2>12, <3>1, Zenon
  <2>14. DownTo(g, h, target, d)
    <3>1. d \in 0..N
      BY <1>5, <2>10
    <3> QED BY <1>3, <1>4, <2>11, <2>13, <3>1, Zenon DEF DownTo
  <2> QED BY <1>1, <2>14, Zenon DEF InOrder
<1> QED BY <1>7, <1>8

\* What a batch of eviction has made of g so far.
Evicted(g, ms, L, target, h) ==
    Core(h, ms, L, {}) /\ Frame(g, h) /\ InOrder(g, h, target)

\* A batch of shard_mem_evict.
LEMMA EvictFacts ==
    ASSUME NatInductive, NEW g, NEW ms, NEW L, Core(g, ms, L, {}), NEW target \in Classes
    PROVE  LET r == Evict(g, target)
           IN  r.any \in BOOLEAN /\ Evicted(g, ms, L, target, r.g)
<1>1. PICK N \in Nat : N = EvictBatch
  BY ConstantFacts, Zenon
<1> DEFINE base == [any |-> FALSE, g |-> g]
           I(x) == Evicted(g, ms, L, target, x.g)
           Q == [n \in 0..N |-> {x \in Evictions : I(x)}]
           step == [n \in 1..N |-> [x \in Evictions |-> EvictOne(x, target)]]
           IsRun(f) == f = [n \in 0..N |-> IF n = 0 THEN base ELSE EvictOne(f[n-1], target)]
           b == CHOOSE f : IsRun(f)
<1>2. base \in Q[0]
  <2>1. g \in Mem /\ base.g = g /\ base \in Evictions /\ 0 \in 0..N
    BY DEF Core, Evictions
  <2>2. Frame(g, g)
    BY Zenon DEF Frame
  <2>3. InOrder(g, g, target)
    <3>1. PICK l \in Seq(Objs) : l = g.lru[target]
      BY <2>1, MemTyped, Zenon DEF Lists
    <3>2. PICK n \in Nat : n = Len(l)
      OBVIOUS
    <3>3. \A i \in 1..n : n - n + i = i
      OBVIOUS
    <3>4. n \in 0..n /\ n <= n /\ ~(\E i \in Int : i \in n+1..n)
      OBVIOUS
    <3>5. DownTo(g, g, target, n)
      BY <3>1, <3>2, <3>3, <3>4, SMTT(40) DEF DownTo
    <3> QED BY <3>5, Zenon DEF InOrder
  <2> HIDE DEF base
  <2>4. I(base)
    BY <2>1, <2>2, <2>3, Zenon DEF Evicted
  <2> QED BY <2>1, <2>4, Zenon
<1>3. ASSUME NEW n \in 1..N, NEW x \in Q[n-1]
      PROVE  step[n][x] = EvictOne(x, target) /\ EvictOne(x, target) \in Q[n]
  <2>1. n - 1 \in 0..N /\ n \in 0..N
    OBVIOUS
  <2>2. x \in Evictions /\ I(x)
    BY <2>1, Zenon
  <2>3. Core(x.g, ms, L, {}) /\ Frame(g, x.g) /\ InOrder(g, x.g, target)
    BY <2>2, Zenon DEF Evicted
  <2>4. PICK y : y = EvictOne(x, target)
    BY Zenon
  <2>5. y \in Evictions /\ I(y)
    <3>1. CASE Tails(x.g) = {}
      <4>1. y = x
        BY <2>4, <3>1, Zenon DEF EvictOne
      <4> QED BY <2>2, <4>1, Zenon
    <3>2. CASE Tails(x.g) # {}
      <4>1. PICK v \in Objs : x.g.key[v] \in Keys /\ Fate(x, EvictOne(x, target), v)
        BY <2>2, <2>3, <3>2, VictimFacts, Zenon
      <4>2. Fate(x, y, v)
        BY <2>4, <4>1, Zenon
      <4>3. y \in Evictions /\ Core(y.g, ms, L, {}) /\ Frame(x.g, y.g)
        BY <2>2, <2>3, <4>1, <4>2, FateCore, Zenon
      <4>4. Owned(g.table, g.key)
        BY Zenon DEF Core, Agree
      <4>5. Frame(g, y.g)
        BY <2>3, <4>3, <4>4, FrameMore, Zenon
      <4>6. InOrder(g, y.g, target)
        BY <2>2, <2>3, <2>4, <3>2, <4>3, FateOrder, Zenon
      <4> QED BY <4>3, <4>5, <4>6, Zenon DEF Evicted
    <3> QED BY <3>1, <3>2, Zenon
  <2>6. y \in Q[n]
    BY <2>1, <2>5, Zenon
  <2>7. step[n][x] = y
    BY <2>2, <2>4, Zenon
  <2> QED BY <2>4, <2>6, <2>7, Zenon
<1>4. PICK f : /\ f = [n \in 0..N |-> IF n = 0 THEN base ELSE step[n][f[n-1]]]
               /\ \A n \in 0..N : f[n] \in Q[n]
  <2> HIDE DEF Q, step, base
  <2>1. Keeps(N, Q, step)
    BY <1>3, Zenon DEF Keeps
  <2>2. \E f : IsRunOf(N, Q, base, step, f)
    BY <1>2, <2>1, Run, Zenon
  <2> QED BY <2>2, Zenon DEF IsRunOf
<1> HIDE DEF Q, step, base
<1>5. IsRun(f)
  <2>1. ASSUME NEW n \in 0..N PROVE f[n] = IF n = 0 THEN base ELSE EvictOne(f[n-1], target)
    <3>1. f[n] = IF n = 0 THEN base ELSE step[n][f[n-1]]
      BY <1>4, Zenon
    <3>2. CASE n # 0
      <4>1. n \in 1..N /\ n - 1 \in 0..N
        BY <3>2
      <4> QED BY <1>3, <1>4, <3>1, <3>2, <4>1, Zenon
    <3> QED BY <3>1, <3>2, Zenon
  <2>2. f = [n \in 0..N |-> f[n]]
    BY <1>4, Zenon
  <2> QED BY <2>1, <2>2, Zenon
<1>6. IsRun(b)
  BY <1>5, Zenon
<1>7. Evict(g, target) = b[N]
  BY <1>1, Zenon DEF Evict, base
<1>8. \A n \in 0..N : b[n] = IF n = 0 THEN base ELSE EvictOne(b[n-1], target)
  <2> HIDE DEF b
  <2> QED BY <1>6, Zenon
<1> HIDE DEF b
<1>9. b[0] \in Q[0] /\ \A n \in 1..N : b[n-1] \in Q[n-1] => b[n] \in Q[n]
  <2>1. b[0] = base
    BY <1>8
  <2>2. ASSUME NEW n \in 1..N PROVE b[n] = EvictOne(b[n-1], target)
    <3>1. n \in 0..N /\ n # 0
      OBVIOUS
    <3> QED BY <1>8, <3>1, Zenon
  <2> QED BY <1>2, <1>3, <2>1, <2>2, Zenon
<1>10. N \in 0..N /\ b[N] \in Q[N]
  <2>1. N \in 0..N
    OBVIOUS
  <2> QED BY <1>9, <2>1, TurnsKeep, Zenon
<1>11. b[N] \in Evictions /\ I(b[N])
  BY <1>10, Zenon DEF Q
<1>12. b[N].any \in BOOLEAN
  BY <1>11, Zenon DEF Evictions
<1> QED BY <1>7, <1>11, <1>12, Zenon

---------------------------------------------------------------------------
(* Allocation, and putting an object *)

\* What a put of the key k has done to the rest before it writes the entry:
\* the objects of k stay, and an entry of k is there or dropped by a rehash.
Around(g, h, k) ==
    /\ Entries(h.table) \subseteq Entries(g.table)
    /\ \A q \in Objs :
          /\ g.key[q] = k => h.key[q] = k
          /\ h.key[q] # NoKey => h.key[q] = g.key[q] /\ NodeAt(h.ttl, q) = NodeAt(g.ttl, q)
    /\ \A e \in Entries(g.table) : e.key = k => e \in Entries(h.table) \/ e.obj \in h.table.dropped

\* shard_bucket_put of the object o: up to the memory h, then the entry.
PutFrom(g, ms, L, o, at, h, ok, old, w) ==
    /\ Core(h, ms, L, {}) /\ Around(g, h, g.key[o])
    /\ PutIn(h.table, Entry(g.key[o], o, at), ok, old, w)

\* A rehash before the put.
LEMMA AroundShed ==
    ASSUME NEW g, NEW f, NEW h, NEW k, NEW D, Around(g, f, k), Shed(f.table, h.table, D),
           h.key = f.key, h.ttl = f.ttl
    PROVE  Around(g, h, k)
<1>1. \A e \in Entries(f.table) : e \in Entries(h.table) \/ e.obj \in h.table.dropped
  BY Zenon DEF Shed, ObjsOf
<1>2. Entries(h.table) \subseteq Entries(f.table) /\ f.table.dropped \subseteq h.table.dropped
  BY Zenon DEF Shed
<1>3. Entries(h.table) \subseteq Entries(g.table)
  BY <1>2, Zenon DEF Around
<1>5. \A e \in Entries(g.table) : e.key = k => e \in Entries(h.table) \/ e.obj \in h.table.dropped
  BY <1>1, <1>2, Zenon DEF Around
<1> QED BY <1>3, <1>5, Zenon DEF Around

\* The eviction after a put has failed: none of the key's entries is left, so
\* none of its objects is evicted.
LEMMA AroundEvict ==
    ASSUME NEW g, NEW f, NEW h, NEW k \in Keys, Around(g, f, k), Frame(f, h), Owned(g.table, g.key),
           Owned(f.table, f.key), \A e \in Entries(f.table) : e.key # k
    PROVE  Around(g, h, k)
<1>1. Entries(h.table) \subseteq Entries(g.table)
  BY Zenon DEF Around, Frame
<1>2. ASSUME NEW q \in Objs, f.key[q] = k PROVE ~InTable(f.table, q)
  <2>1. ASSUME NEW e \in Entries(f.table), e.obj = q PROVE FALSE
    <3>1. f.key[e.obj] = e.key /\ e.key # k
      BY Zenon DEF Owned
    <3> QED BY <1>2, <2>1, <3>1, Zenon
  <2> QED BY <2>1, Zenon DEF InTable
<1>3. \A q \in Objs :
          /\ g.key[q] = k => h.key[q] = k
          /\ h.key[q] # NoKey => h.key[q] = g.key[q] /\ NodeAt(h.ttl, q) = NodeAt(g.ttl, q)
  <2> SUFFICES ASSUME NEW q \in Objs
               PROVE  /\ g.key[q] = k => h.key[q] = k
                      /\ h.key[q] # NoKey => /\ h.key[q] = g.key[q]
                                             /\ NodeAt(h.ttl, q) = NodeAt(g.ttl, q)
    BY Zenon
  <2>1. /\ g.key[q] = k => f.key[q] = k
        /\ f.key[q] # NoKey => f.key[q] = g.key[q] /\ NodeAt(f.ttl, q) = NodeAt(g.ttl, q)
    BY Zenon DEF Around
  <2>2. /\ h.key[q] = f.key[q] \/ (h.key[q] = NoKey /\ InTable(f.table, q))
        /\ h.key[q] # NoKey => NodeAt(h.ttl, q) = NodeAt(f.ttl, q)
    BY Zenon DEF Frame, InTable
  <2>3. f.key[q] = k => h.key[q] = k
    BY <1>2, <2>2, Zenon
  <2> QED BY <2>1, <2>2, <2>3, Zenon
<1>4. ASSUME NEW e \in Entries(g.table), e.key = k PROVE e.obj \in h.table.dropped
  <2>1. e.obj \in f.table.dropped
    BY <1>4, Zenon DEF Around
  <2>2. e.obj \in Objs /\ g.key[e.obj] = k
    BY <1>4, Zenon DEF Owned
  <2>3. f.key[e.obj] = k
    BY <2>2, Zenon DEF Around
  <2>4. ~InTable(f.table, e.obj)
    BY <1>2, <2>2, <2>3, Zenon
  <2> QED BY <2>1, <2>2, <2>4, Zenon DEF Frame
<1> QED BY <1>1, <1>3, <1>4, Zenon DEF Around

\* What a try of ht_bucket_put returns, on the memory f.
Tried(g, f, ms, L, o, at, r) ==
    \E h \in Mem : /\ PutFrom(g, ms, L, o, at, h, r.ok, r.old, r.t)
                   /\ h = [f EXCEPT !.table = h.table]
                   /\ [f EXCEPT !.table = r.t] = [h EXCEPT !.table = r.t]

\* A try of ht_bucket_put.
LEMMA TryFacts ==
    ASSUME NatInductive, NEW g, NEW f, NEW ms, NEW L, Core(f, ms, L, {}), NEW o \in Objs, NEW at \in Nat,
           NEW room \in BOOLEAN, g.key[o] \in Keys, Around(g, f, g.key[o])
    PROVE  Tried(g, f, ms, L, o, at, Put(f.table, Entry(f.key[o], o, at), room))
<1>1. PICK k, e : k \in Keys /\ k = g.key[o] /\ e = Entry(k, o, at)
  BY Zenon
<1>2. f.key[o] = k /\ f \in Mem /\ TableOK(f.table)
  BY <1>1, Zenon DEF Around, Core, Agree
<1>3. e \in Ent
  BY <1>1, KeyspaceAssumption, Zenon DEF Ent, Entry
<1>4. PICK r : r = Put(f.table, e, room)
  BY Zenon
<1>5. PICK u, D : PutDone(f.table, e, r.ok, r.old, r.t, u, D)
  BY <1>2, <1>3, <1>4, PutFacts, Zenon
<1>6. TableOK(u) /\ Shed(f.table, u, D) /\ PutIn(u, e, r.ok, r.old, r.t)
  BY <1>5, Zenon DEF PutDone
<1>7. PICK h : h = [f EXCEPT !.table = u]
  BY Zenon
<1>8. /\ Core(h, ms, L, {})
      /\ h.table = u /\ h.ttl = f.ttl /\ h.lru = f.lru /\ h.key = f.key
  BY <1>6, <1>7, ShedCore
<1>9. Around(g, h, k)
  BY <1>1, <1>6, <1>8, AroundShed, Zenon
<1>10. PutFrom(g, ms, L, o, at, h, r.ok, r.old, r.t)
  BY <1>1, <1>6, <1>8, <1>9, Zenon DEF PutFrom
<1>11. PICK t : t = r.t
  BY Zenon
<1>13. [f EXCEPT !.table = t] = [h EXCEPT !.table = t]
  BY <1>7, Zenon DEF Mem
<1>14. h \in Mem /\ h = [f EXCEPT !.table = h.table]
  BY <1>7, <1>8, Zenon DEF Core
<1> QED BY <1>1, <1>2, <1>4, <1>10, <1>11, <1>13, <1>14, Zenon DEF Tried

\* What shard_bucket_put returns.
PutResult(g, ms, L, o, at, r) ==
    \E h \in Mem : /\ PutFrom(g, ms, L, o, at, h, r.ok, r.old, r.g.table)
                   /\ r.g = [h EXCEPT !.table = r.g.table]

\* shard_bucket_put, with its eviction and the second try.
LEMMA BucketPutFacts ==
    ASSUME NatInductive, NEW g, NEW ms, NEW L, Core(g, ms, L, {}), NEW o \in Objs, NEW at \in Nat,
           NEW room \in BOOLEAN, g.key[o] \in Keys
    PROVE  PutResult(g, ms, L, o, at, BucketPut(g, o, at, room))
<1>1. PICK k \in Keys : k = g.key[o]
  BY Zenon
<1>2. g \in Mem /\ Owned(g.table, g.key) /\ Around(g, g, k)
  BY Zenon DEF Core, Agree, Around
<1>3. PICK r1 : r1 = Put(g.table, Entry(g.key[o], o, at), room)
  BY Zenon
<1>4. PICK h1 \in Mem : /\ PutFrom(g, ms, L, o, at, h1, r1.ok, r1.old, r1.t)
                        /\ h1 = [g EXCEPT !.table = h1.table]
                        /\ [g EXCEPT !.table = r1.t] = [h1 EXCEPT !.table = r1.t]
  <2>1. g.key[o] \in Keys /\ Around(g, g, g.key[o])
    BY <1>1, <1>2, Zenon
  <2>2. Tried(g, g, ms, L, o, at, Put(g.table, Entry(g.key[o], o, at), room))
    BY <2>1, TryFacts, Zenon
  <2> QED BY <1>3, <2>2, Zenon DEF Tried
<1>5. /\ Core(h1, ms, L, {}) /\ Around(g, h1, k)
      /\ PutIn(h1.table, Entry(k, o, at), r1.ok, r1.old, r1.t)
  BY <1>1, <1>4, Zenon DEF PutFrom
<1>7. PICK r : r = BucketPut(g, o, at, room)
  BY Zenon
<1>8. CASE r1.ok
  <2>1. r = [ok |-> r1.ok, old |-> r1.old, g |-> [h1 EXCEPT !.table = r1.t]]
    BY <1>3, <1>4, <1>7, <1>8, Zenon DEF BucketPut
  <2>2. PICK j : j = [h1 EXCEPT !.table = r1.t]
    BY Zenon
  <2>3. j.table = r1.t
    BY <2>2, Zenon DEF Mem
  <2>4. r.ok = r1.ok /\ r.old = r1.old /\ r.g = j
    BY <2>1, <2>2, Zenon
  <2> QED BY <1>4, <1>7, <2>2, <2>3, <2>4, Zenon DEF PutResult
<1>9. CASE ~r1.ok
  <2>1. r1.t = h1.table /\ \A e \in Entries(h1.table) : e.key # k
    BY <1>5, <1>9, Zenon DEF PutIn, Entry
  <2>2. PICK x : x = Evict(h1, LargeClass)
    BY Zenon
  <2>3. x.any \in BOOLEAN /\ Core(x.g, ms, L, {}) /\ Frame(h1, x.g)
    BY <1>5, <2>2, EvictFacts, ConstantFacts, Zenon DEF Evicted
  <2>4. PICK f : f = x.g
    BY Zenon
  <2>5. Owned(h1.table, h1.key) /\ Core(f, ms, L, {}) /\ TableOK(f.table) /\ f \in Mem
    BY <1>5, <2>3, <2>4, Zenon DEF Core, Agree
  <2>6. Around(g, f, k)
    BY <1>2, <1>5, <2>1, <2>3, <2>4, <2>5, AroundEvict, Zenon
  <2>7. [g EXCEPT !.table = r1.t] = h1
    BY <1>4, <2>1, Zenon
  <2>8. CASE x.any
    <3>1. PICK r2 : r2 = Put(f.table, Entry(f.key[o], o, at), room)
      BY Zenon
    <3>2. PICK h2 \in Mem : /\ PutFrom(g, ms, L, o, at, h2, r2.ok, r2.old, r2.t)
                            /\ [f EXCEPT !.table = r2.t] = [h2 EXCEPT !.table = r2.t]
      <4>1. g.key[o] \in Keys /\ Around(g, f, g.key[o])
        BY <1>1, <2>6, Zenon
      <4>2. Tried(g, f, ms, L, o, at, Put(f.table, Entry(f.key[o], o, at), room))
        BY <2>5, <4>1, TryFacts, Zenon
      <4> QED BY <3>1, <4>2, Zenon DEF Tried
    <3>3. r = [ok |-> r2.ok, old |-> r2.old, g |-> [h2 EXCEPT !.table = r2.t]]
      BY <1>3, <1>7, <1>9, <2>2, <2>4, <2>7, <2>8, <3>1, <3>2, Zenon DEF BucketPut
    <3>4. PICK j : j = [h2 EXCEPT !.table = r2.t]
      BY Zenon
    <3>5. j.table = r2.t
      BY <3>4, Zenon DEF Mem
    <3>6. r.ok = r2.ok /\ r.old = r2.old /\ r.g = j
      BY <3>3, <3>4, Zenon
    <3> QED BY <1>7, <3>2, <3>4, <3>5, <3>6, Zenon DEF PutResult
  <2>9. CASE ~x.any
    <3>1. r = [ok |-> FALSE, old |-> NoObj, g |-> f]
      BY <1>3, <1>7, <1>9, <2>2, <2>4, <2>7, <2>9, Zenon DEF BucketPut
    <3>2. r.ok = FALSE /\ r.old = NoObj /\ r.g = f
      BY <3>1, Zenon
    <3>3. f = [f EXCEPT !.table = f.table]
      BY <2>5, Zenon DEF Mem
    <3>4. \A e \in Entries(f.table) : e.key # k
      BY <2>1, <2>3, <2>4, Zenon DEF Frame
    <3>5. {e \in Entries(f.table) : e.key = k} = {}
      BY <3>4, Zenon
    <3>6. PICK e : e = Entry(k, o, at)
      BY Zenon
    <3>7. e.key = k
      BY <3>6, Zenon DEF Entry
    <3>8. PutIn(f.table, e, FALSE, NoObj, f.table)
      BY <2>5, <3>5, <3>7, Zenon DEF PutIn
    <3>9. PutFrom(g, ms, L, o, at, f, FALSE, NoObj, f.table)
      BY <1>1, <2>5, <2>6, <3>6, <3>8, Zenon DEF PutFrom
    <3> QED BY <1>7, <2>5, <3>2, <3>3, <3>9, Zenon DEF PutResult
  <2> QED BY <2>8, <2>9, Zenon
<1> QED BY <1>8, <1>9, Zenon

\* An object that is given to a key and is nowhere yet.
Fresh(g, o, k) ==
    o \in Objs /\ g.key[o] = k /\ NodeAt(g.ttl, o) = 0 /\ ~InTable(g.table, o)

\* mem_malloc gives out an object that is free.
LEMMA GivenCore ==
    ASSUME NEW g, NEW ms, Core(g, ms, {}, {}), NEW o \in Objs, g.key[o] = NoKey, NEW k \in Keys
    PROVE  LET h == [g EXCEPT !.key[o] = k]
           IN  /\ Core(h, ms, {o}, {}) /\ Fresh(h, o, k) /\ h.table = g.table
               /\ \A q \in Objs : q # o => h.key[q] = g.key[q]
<1>1. /\ g \in Mem /\ g.key \in [Objs -> Keys \cup {NoKey}] /\ ms \in MsetType
      /\ Agree(g.table, g.ttl, g.lru, g.key, ms, {}, {})
  BY MemTyped, Zenon DEF Core
<1>2. PICK key : key = [g.key EXCEPT ![o] = k]
  BY Zenon
<1>3. /\ key \in [Objs -> Keys \cup {NoKey}] /\ key[o] = k
      /\ \A q \in Objs : q # o => key[q] = g.key[q]
  BY <1>1, <1>2, Zenon
<1>4. PICK h : h = [g EXCEPT !.key = key]
  BY Zenon
<1>5. h \in Mem /\ h.table = g.table /\ h.ttl = g.ttl /\ h.lru = g.lru /\ h.key = key
  BY <1>1, <1>3, <1>4, MemKey, Zenon
<1>6. PICK t, ttl, lru : t = g.table /\ ttl = g.ttl /\ lru = g.lru
  BY Zenon
<1>7. /\ Listed(lru, g.key) /\ Owned(t, g.key) /\ Alive(ttl, g.key) /\ Timed(t, ttl, {})
      /\ Reached(t, g.key, ms, {}) /\ Evictable(t, lru, ms, {}) /\ Locking(t, ttl, g.key, ms, {})
      /\ TableOK(t) /\ HeapOK(ttl) /\ lru \in Lists
  BY <1>1, <1>6, MemTyped, Zenon DEF Agree
<1>8. Listed(lru, key)
  <2>1. ASSUME NEW c \in Classes, NEW x \in Range(lru[c]) PROVE key[x] = g.key[x]
    <3>1. g.key[x] # NoKey /\ x \in Objs
      BY <1>7, OnList, Zenon DEF Listed
    <3> QED BY <1>3, <3>1, Zenon
  <2> QED BY <1>7, <2>1, Zenon DEF Listed
<1>9. \A e \in Entries(t) : e.obj # o
  <2> SUFFICES ASSUME NEW e \in Entries(t) PROVE e.obj # o
    BY Zenon
  <2>1. e.key \in Keys /\ g.key[e.obj] = e.key
    BY <1>7, EntryFacts, Zenon
  <2> QED BY <2>1, ConstantFacts, Zenon
<1>10. Owned(t, key)
  BY <1>3, <1>7, <1>9, Zenon DEF Owned
<1>11. Alive(ttl, key) /\ NodeAt(ttl, o) = 0
  BY <1>3, <1>7, Zenon DEF Alive
<1>12. Reached(t, key, ms, {o})
  BY <1>3, <1>7, Zenon DEF Reached
<1>13. Locking(t, ttl, key, ms, {})
  <2> SUFFICES ASSUME NEW j \in Keys, ms[j] # NoMset PROVE Held(t, ttl, key, ms[j], j)
    BY Zenon DEF Locking
  <2>1. PICK m : m = ms[j]
    BY Zenon
  <2>2. Held(t, ttl, g.key, m, j)
    BY <1>7, <2>1, Zenon DEF Locking
  <2>3. j # NoKey
    BY ConstantFacts, Zenon
  <2>4. ASSUME NEW q \in Objs, g.key[q] = j PROVE key[q] = j
    BY <1>3, <2>3, <2>4, Zenon
  <2>5. Held(t, ttl, key, m, j)
    BY <2>2, <2>4, Zenon DEF Held
  <2> QED BY <2>1, <2>5, Zenon
<1>14. Timed(t, ttl, {o}) /\ Evictable(t, lru, ms, {o})
  BY <1>7, Zenon DEF Timed, Evictable
<1>15. Agree(t, ttl, lru, key, ms, {o}, {})
  BY <1>7, <1>8, <1>10, <1>11, <1>12, <1>13, <1>14, Zenon DEF Agree
<1>16. Core(h, ms, {o}, {})
  BY <1>5, <1>6, <1>15, Zenon DEF Core
<1>17. Fresh(h, o, k)
  BY <1>3, <1>5, <1>6, <1>9, <1>11, Zenon DEF Fresh, InTable
<1> QED BY <1>2, <1>4, <1>5, <1>16, <1>17, SMTT(40)

\* What mem_malloc returns: no object, or a fresh one of the key.
Allocated(g, ms, k, a) ==
    \/ a.obj = NoObj /\ Core(a.g, ms, {}, {})
    \/ /\ Core(a.g, ms, {a.obj}, {}) /\ Fresh(a.g, a.obj, k)
       /\ Entries(a.g.table) \subseteq Entries(g.table)

\* mem_malloc.
LEMMA MallocFacts ==
    ASSUME NatInductive, NEW g, NEW ms, Core(g, ms, {}, {}), NEW k \in Keys, NEW pressure \in BOOLEAN
    PROVE  Allocated(g, ms, k, Malloc(g, k, pressure))
<1> DEFINE free(h) == {o \in Objs \ InUse(h) : Home[o] = k}
           full == Cardinality(InUse(g)) >= Quota \/ free(g) = {}
           taken(h) == [obj |-> Min(free(h)), g |-> [h EXCEPT !.key[Min(free(h))] = k]]
<1>1. PICK a : a = Malloc(g, k, pressure)
  BY Zenon
<1>2. ASSUME NEW h, Core(h, ms, {}, {}), Entries(h.table) \subseteq Entries(g.table), free(h) # {}
      PROVE  Allocated(g, ms, k, taken(h))
  <2>1. PICK o : o = Min(free(h))
    BY Zenon
  <2>2. o \in free(h)
    <3>1. free(h) \in SUBSET Nat
      BY ConstantFacts, Zenon
    <3> HIDE DEF free
    <3>2. PICK m \in free(h) : \A x \in free(h) : m <= x
      BY <1>2, <3>1, LeastNat, Zenon
    <3> QED BY <2>1, <3>2, Zenon DEF Min
  <2>3. o \in Objs /\ h.key[o] = NoKey
    BY <2>2, Zenon DEF InUse
  <2>4. PICK j : j = [h EXCEPT !.key[o] = k]
    BY Zenon
  <2>5. Core(j, ms, {o}, {}) /\ Fresh(j, o, k) /\ j.table = h.table
    BY <1>2, <2>3, <2>4, GivenCore, SMTT(40)
  <2>6. taken(h).obj = o /\ taken(h).g = j
    BY <2>1, <2>4, Zenon
  <2> HIDE DEF taken
  <2> QED BY <1>2, <2>5, <2>6, Zenon DEF Allocated
<1>3. CASE full
  <2>1. a = [obj |-> NoObj, g |-> g]
    BY <1>1, <1>3, Zenon DEF Malloc
  <2>2. a.obj = NoObj /\ a.g = g
    BY <2>1, Zenon
  <2> QED BY <1>1, <2>2, Zenon DEF Allocated
<1>4. CASE ~full /\ pressure
  <2>1. PICK x : x = Evict(g, Class[k])
    BY Zenon
  <2>2. x.any \in BOOLEAN /\ Core(x.g, ms, {}, {}) /\ Frame(g, x.g)
    <3>1. Class[k] \in Classes
      BY ConstantFacts, Zenon
    <3> QED BY <2>1, <3>1, EvictFacts, Zenon DEF Evicted
  <2>3. CASE x.any
    <3>1. free(x.g) # {}
      <4>1. PICK o \in Objs : o \notin InUse(g) /\ Home[o] = k
        BY <1>4, Zenon
      <4>2. g.key[o] = NoKey
        BY <4>1, Zenon DEF InUse
      <4>3. x.g.key[o] = NoKey
        BY <2>2, <4>2, Zenon DEF Frame
      <4>4. o \notin InUse(x.g)
        BY <4>3, Zenon DEF InUse
      <4> QED BY <4>1, <4>4, Zenon
    <3>2. Entries(x.g.table) \subseteq Entries(g.table)
      BY <2>2, Zenon DEF Frame
    <3>3. Allocated(g, ms, k, taken(x.g))
      BY <1>2, <2>2, <3>1, <3>2, Zenon
    <3>4. a = taken(x.g)
      BY <1>1, <1>4, <2>1, <2>3, Zenon DEF Malloc
    <3> HIDE DEF taken
    <3> QED BY <1>1, <3>3, <3>4, Zenon
  <2>4. CASE ~x.any
    <3>1. a = [obj |-> NoObj, g |-> x.g]
      BY <1>1, <1>4, <2>1, <2>4, Zenon DEF Malloc
    <3>2. a.obj = NoObj /\ a.g = x.g
      BY <3>1, Zenon
    <3> QED BY <1>1, <2>2, <3>2, Zenon DEF Allocated
  <2> QED BY <2>3, <2>4, Zenon
<1>5. CASE ~full /\ ~pressure
  <2>1. a = taken(g)
    BY <1>1, <1>5, Zenon DEF Malloc
  <2>2. Allocated(g, ms, k, taken(g))
    BY <1>2, <1>5, Zenon
  <2> HIDE DEF taken
  <2> QED BY <1>1, <2>1, <2>2, Zenon
<1> QED BY <1>3, <1>4, <1>5, Zenon

---------------------------------------------------------------------------
(* The ends of an operation *)

\* The keys of K are not locked after all.
LEMMA DropKeys ==
    ASSUME NEW g, NEW ms, NEW L, NEW K, Core(g, ms, L, K), \A k \in K : ms[k] = NoMset
    PROVE  Core(g, ms, L, {})
<1>1. g \in Mem /\ ms \in MsetType /\ Agree(g.table, g.ttl, g.lru, g.key, ms, L, K)
  BY Zenon DEF Core
<1>2. Locking(g.table, g.ttl, g.key, ms, {})
  BY <1>1, Zenon DEF Agree, Locking
<1> QED BY <1>2, Zenon DEF Core, Agree

\* NoObj is no object.
LEMMA DropNoObj ==
    ASSUME NEW g, NEW ms, NEW L, NEW K, Core(g, ms, L \cup {NoObj}, K)
    PROVE  Core(g, ms, L, K)
<1>1. TableOK(g.table) /\ Owned(g.table, g.key)
  BY Zenon DEF Core, Agree
<1>2. \A e \in Entries(g.table) : e.obj # NoObj
  BY <1>1, ConstantFacts, Zenon DEF Owned
<1>3. NoObj \notin Objs
  BY ConstantFacts, Zenon
<1> QED BY <1>2, <1>3, Settled, Zenon

\* The TTL index is another one with the same times.
LEMMA SameTtlCore ==
    ASSUME NEW g, NEW ms, NEW L, NEW K, Core(g, ms, L, K), NEW w, HeapOK(w),
           \A o \in Objs : NodeAt(w, o) = NodeAt(g.ttl, o)
    PROVE  Core([g EXCEPT !.ttl = w], ms, L, K)
<1>1. g \in Mem /\ ms \in MsetType /\ Agree(g.table, g.ttl, g.lru, g.key, ms, L, K)
  BY Zenon DEF Core
<1>2. PICK h : h = [g EXCEPT !.ttl = w]
  BY Zenon
<1>3. h \in Mem /\ h.table = g.table /\ h.ttl = w /\ h.lru = g.lru /\ h.key = g.key
  <2>1. w \in Ttls
    BY PartsTyped, Zenon
  <2> QED BY <1>1, <1>2, <2>1, MemTtl, Zenon
<1>5. Timed(g.table, w, L)
  BY <1>1, Zenon DEF Agree, Timed, Owned
<1>6. Alive(w, g.key)
  BY <1>1, Zenon DEF Agree, Alive
<1>7. Locking(g.table, w, g.key, ms, K)
  <2> SUFFICES ASSUME NEW j \in Keys, j \notin K, ms[j] # NoMset
               PROVE  Held(g.table, w, g.key, ms[j], j)
    BY Zenon DEF Locking
  <2>1. PICK m : m = ms[j]
    BY Zenon
  <2>2. Held(g.table, g.ttl, g.key, m, j)
    BY <1>1, <2>1, Zenon DEF Agree, Locking
  <2>3. Held(g.table, w, g.key, m, j)
    BY <2>2, Zenon DEF Held
  <2> QED BY <2>1, <2>3, Zenon
<1>8. Agree(g.table, w, g.lru, g.key, ms, L, K)
  BY <1>1, <1>5, <1>6, <1>7, Zenon DEF Agree
<1> QED BY <1>2, <1>3, <1>8, Zenon DEF Core

\* The put has written the entry: what it is, and what the old one was.
Entered(g, ms, L, o, at, r, h, k) ==
    /\ Core(r.g, ms, L \cup {o, r.old}, {k}) /\ Core(h, ms, L, {}) /\ Around(g, h, k)
    /\ r.g.ttl = h.ttl /\ r.g.lru = h.lru /\ r.g.key = h.key
    /\ r.g.table.dropped = h.table.dropped
    /\ Entry(k, o, at) \in Entries(r.g.table)
    /\ \A f \in Entries(r.g.table) : f.key = k => f = Entry(k, o, at)
    /\ r.old = NoObj \/ \E f \in Entries(h.table) : f.key = k /\ r.old = f.obj

\* shard_bucket_put has worked.
LEMMA PutOk ==
    ASSUME NEW g, NEW ms, NEW L, NEW o \in Objs, NEW at \in Nat, NEW r,
           PutResult(g, ms, L, o, at, r), r.ok, g.key[o] \in Keys
    PROVE  \E h : Entered(g, ms, L, o, at, r, h, g.key[o])
<1>1. PICK k, e : k \in Keys /\ k = g.key[o] /\ e = Entry(k, o, at)
  BY Zenon
<1>2. e \in Ent /\ e.key = k /\ e.obj = o
  BY <1>1, KeyspaceAssumption, Zenon DEF Ent, Entry
<1>3. PICK h \in Mem : /\ PutFrom(g, ms, L, o, at, h, r.ok, r.old, r.g.table)
                       /\ r.g = [h EXCEPT !.table = r.g.table]
  BY Zenon DEF PutResult
<1>4. PICK t, old, j : t = r.g.table /\ old = r.old /\ j = r.g
  BY Zenon
<1>5. Core(h, ms, L, {}) /\ Around(g, h, k) /\ PutIn(h.table, e, r.ok, old, t)
  BY <1>1, <1>3, <1>4, Zenon DEF PutFrom
<1>7. PutIn(h.table, e, TRUE, old, t)
  BY <1>5, Zenon
<1>8. OfKey(h, e)
  BY <1>1, <1>2, <1>5, Zenon DEF Around, OfKey
<1>9. j = [h EXCEPT !.table = t]
  BY <1>3, <1>4, Zenon
<1>10. Written(h, j, ms, L, e, old)
  <2>1. Written(h, [h EXCEPT !.table = t], ms, L, e, old)
    BY <1>2, <1>5, <1>7, <1>8, PutCore, Zenon
  <2> QED BY <1>9, <2>1, Zenon
<1>11. t.dropped = h.table.dropped
  BY <1>7, Zenon DEF PutIn
<1>12. old = NoObj \/ \E f \in Entries(h.table) : f.key = k /\ old = f.obj
  BY <1>2, <1>7, Zenon DEF PutIn
<1>13. Entered(g, ms, L, o, at, r, h, k)
  BY <1>1, <1>2, <1>4, <1>5, <1>10, <1>11, <1>12, SMTT(40) DEF Entered, Written
<1> QED BY <1>1, <1>13, Zenon

\* shard_bucket_put has failed: no entry of the key is left.
LEMMA PutNo ==
    ASSUME NEW g, NEW ms, NEW L, NEW o \in Objs, NEW at \in Nat, NEW r,
           PutResult(g, ms, L, o, at, r), ~r.ok
    PROVE  /\ Core(r.g, ms, L, {}) /\ Around(g, r.g, g.key[o])
           /\ \A e \in Entries(r.g.table) : e.key # g.key[o]
<1>1. PICK k, e : k = g.key[o] /\ e = Entry(k, o, at)
  BY Zenon
<1>2. e.key = k
  BY <1>1, Zenon DEF Entry
<1>3. PICK h \in Mem : /\ PutFrom(g, ms, L, o, at, h, r.ok, r.old, r.g.table)
                       /\ r.g = [h EXCEPT !.table = r.g.table]
  BY Zenon DEF PutResult
<1>4. PICK t : t = r.g.table
  BY Zenon
<1>5. Core(h, ms, L, {}) /\ Around(g, h, k) /\ PutIn(h.table, e, r.ok, r.old, t)
  BY <1>1, <1>3, <1>4, Zenon DEF PutFrom
<1>6. t = h.table /\ {f \in Entries(h.table) : f.key = e.key} = {}
  BY <1>5, Zenon DEF PutIn
<1>7. r.g = h
  <2>1. h = [h EXCEPT !.table = h.table]
    BY Zenon DEF Mem
  <2> QED BY <1>3, <1>4, <1>6, <2>1, Zenon
<1>8. \A f \in Entries(h.table) : f.key # k
  BY <1>2, <1>6, Zenon
<1> QED BY <1>1, <1>5, <1>7, <1>8, Zenon

---------------------------------------------------------------------------
(* What the commands are made of *)

\* A put of a fresh object that failed: the object is freed again.
LEMMA UnputCore ==
    ASSUME NatInductive, NEW g, NEW ms, NEW o, NEW k \in Keys, Fresh(g, o, k), ms[k] = NoMset,
           NEW at \in Nat, NEW r, PutResult(g, ms, {o}, o, at, r), ~r.ok
    PROVE  Core(Destroy(r.g, o), ms, {}, {})
<1>1. o \in Objs /\ g.key[o] = k
  BY Zenon DEF Fresh
<1>2. /\ Core(r.g, ms, {o}, {}) /\ Around(g, r.g, k) /\ \A e \in Entries(r.g.table) : e.key # k
  BY <1>1, PutNo, Zenon
<1>3. PICK h : h = r.g
  BY Zenon
<1>4. h.key[o] = k /\ k # NoKey
  BY <1>1, <1>2, <1>3, ConstantFacts, Zenon DEF Around
<1>5. ~InTable(h.table, o)
  <2>1. Owned(h.table, h.key)
    BY <1>2, <1>3, Zenon DEF Core, Agree
  <2> QED BY <1>2, <1>3, <1>4, <2>1, Zenon DEF InTable, Owned
<1>6. h.key[o] # NoKey /\ Loose(ms, h.key[o], {}) /\ Core(h, ms, {o}, {})
  BY <1>2, <1>3, <1>4, Zenon DEF Loose
<1>7. Core(Destroy(h, o), ms, {o} \ {o}, {})
  BY <1>1, <1>5, <1>6, DestroyCore, Zenon
<1>8. {o} \ {o} = {}
  BY Zenon
<1> QED BY <1>3, <1>7, <1>8, Zenon

\* shard_key_set, once the object is in the table.
LEMMA StoredCore ==
    ASSUME NatInductive, NEW g, NEW ms, NEW o, NEW k \in Keys, Core(g, ms, {o}, {}), Fresh(g, o, k),
           ms[k] = NoMset, NEW at \in Nat, NEW room \in BOOLEAN
    PROVE  Core(Stored(BucketPut(g, o, at, room), o, at), ms, {}, {})
<1>1. o \in Objs /\ g.key[o] = k /\ NodeAt(g.ttl, o) = 0 /\ ~InTable(g.table, o)
  BY Zenon DEF Fresh
<1>2. PICK r : r = BucketPut(g, o, at, room)
  BY Zenon
<1>3. PutResult(g, ms, {o}, o, at, r)
  BY <1>1, <1>2, BucketPutFacts, Zenon
<1>4. CASE ~r.ok
  <2>1. Core(Destroy(r.g, o), ms, {}, {})
    BY <1>3, <1>4, UnputCore, Zenon
  <2> QED BY <1>2, <1>4, <2>1, Zenon DEF Stored
<1>5. CASE r.ok
  <2>1. PICK h : Entered(g, ms, {o}, o, at, r, h, k)
    BY <1>1, <1>3, <1>5, PutOk, Zenon
  <2>2. PICK f, old, e : f = r.g /\ old = r.old /\ e = Entry(k, o, at)
    BY Zenon
  <2>3. e.key = k /\ e.obj = o /\ e.expire = at /\ k # NoKey
    BY <2>2, ConstantFacts, Zenon DEF Entry
  <2>4. /\ Core(f, ms, {o, old}, {k}) /\ Around(g, h, k) /\ Owned(h.table, h.key)
        /\ f.ttl = h.ttl /\ f.key = h.key /\ e \in Entries(f.table)
        /\ \A d \in Entries(f.table) : d.key = k => d = e
        /\ old = NoObj \/ \E d \in Entries(h.table) : d.key = k /\ old = d.obj
    <3>1. {o} \cup {o, old} = {o, old}
      BY Zenon
    <3>2. Owned(h.table, h.key)
      BY <2>1, Zenon DEF Entered, Core, Agree
    <3> QED BY <2>1, <2>2, <3>1, <3>2, Zenon DEF Entered
  <2>5. h.key[o] = k /\ NodeAt(f.ttl, o) = 0 /\ f.key[o] = k
    BY <1>1, <2>3, <2>4, Zenon DEF Around
  <2>6. PICK p : p = LruPrepend(f, o)
    BY Zenon
  <2>7. /\ Core(p, ms, {o, old}, {k}) /\ p.ttl = f.ttl /\ p.key = f.key
        /\ Entries(p.table) = Entries(f.table) /\ o \in Range(p.lru[Class[k]])
    <3>1. o \in Objs /\ f.key[o] # NoKey /\ Core(f, ms, {o, old}, {k})
      BY <1>1, <2>3, <2>4, <2>5, Zenon
    <3>2. /\ Core(p, ms, {o, old}, {k}) /\ p.ttl = f.ttl /\ p.key = f.key
          /\ Entries(p.table) = Entries(f.table) /\ o \in Range(p.lru[Class[f.key[o]]])
      BY <2>6, <3>1, PrependCore, SMTT(40)
    <3> QED BY <2>5, <3>2, Zenon
  <2>8. PICK q : q = Destroy(p, old)
    BY Zenon
  <2>9. /\ Core(q, ms, {o}, {k}) /\ Entries(q.table) = Entries(p.table)
        /\ NodeAt(q.ttl, o) = 0 /\ q.key[o] = k /\ o \in Range(q.lru[Class[k]])
    <3>1. CASE old = NoObj
      <4>1. q = p
        BY <2>8, <3>1, Zenon DEF Destroy
      <4>2. {o, old} = {o} \cup {NoObj}
        BY <3>1, Zenon
      <4>3. Core(p, ms, {o}, {k})
        BY <2>7, <4>2, DropNoObj, SMTT(40)
      <4> QED BY <2>5, <2>7, <4>1, <4>3, Zenon
    <3>2. CASE old # NoObj
      <4>1. PICK d \in Entries(h.table) : d.key = k /\ old = d.obj
        BY <2>4, <3>2, Zenon
      <4>2. old \in Objs /\ h.key[old] = k
        BY <2>4, <4>1, Zenon DEF Owned
      <4>3. d \in Entries(g.table)
        BY <2>4, Zenon DEF Around
      <4>4. old # o
        BY <1>1, <4>1, <4>3, Zenon DEF InTable
      <4>5. p.key[old] = k
        BY <2>4, <2>7, <4>2, Zenon
      <4>6. ~InTable(p.table, old)
        <5>1. Owned(p.table, p.key)
          BY <2>7, Zenon DEF Core, Agree
        <5>2. ASSUME NEW b \in Entries(p.table), b.obj = old PROVE FALSE
          <6>1. b.key = k
            BY <4>5, <5>1, <5>2, Zenon DEF Owned
          <6> QED BY <2>3, <2>4, <2>7, <4>4, <5>2, <6>1, SMTT(40)
        <5> QED BY <5>2, Zenon DEF InTable
      <4>7. p.key[old] # NoKey /\ Loose(ms, p.key[old], {k})
        BY <2>3, <4>5, Zenon DEF Loose
      <4>8. Core(q, ms, {o, old} \ {old}, {k}) /\ Gone(p, q, old)
        BY <2>7, <2>8, <4>2, <4>6, <4>7, DestroyCore, SMTT(40)
      <4>9. {o, old} \ {old} = {o}
        BY <4>4, Zenon
      <4>10. NodeAt(q.ttl, o) = 0
        BY <1>1, <2>5, <2>7, <4>4, <4>8, Zenon DEF Gone
      <4>11. q.key[o] = k
        <5>1. p.key \in [Objs -> Keys \cup {NoKey}]
          BY <2>7, MemTyped, Zenon DEF Core
        <5> QED BY <1>1, <2>5, <2>7, <4>4, <4>8, <5>1, Zenon DEF Gone
      <4>12. Class[k] \in Classes
        BY ConstantFacts, Zenon
      <4>13. o \in Range(q.lru[Class[k]]) /\ Entries(q.table) = Entries(p.table)
        BY <2>7, <4>4, <4>8, <4>12, Zenon DEF Gone
      <4> QED BY <4>8, <4>9, <4>10, <4>11, <4>13, Zenon
    <3> QED BY <3>1, <3>2, Zenon
  <2>10. PICK z : z = IF at > 0 THEN [q EXCEPT !.ttl = Push(@, o, at)] ELSE q
    BY Zenon
  <2>11. /\ Core(z, ms, {o}, {k}) /\ Entries(z.table) = Entries(p.table)
         /\ NodeAt(z.ttl, o) = at /\ z.key[o] = k /\ o \in Range(z.lru[Class[k]])
    <3>1. CASE at = 0
      BY <2>9, <2>10, <3>1, SMTT(40)
    <3>2. CASE at # 0
      <4>1. at \in Nat \ {0} /\ z = [q EXCEPT !.ttl = Push(q.ttl, o, at)]
        BY <2>10, <3>2
      <4>2. HeapOK(q.ttl) /\ Linked(q.ttl)
        BY <2>9, Zenon DEF Core, Agree, HeapOK
      <4>3. q.ttl.heap_idx[o] = 0
        BY <1>1, <2>9, <4>2, NodeFacts, Zenon
      <4>4. PICK w : w = Push(q.ttl, o, at)
        BY Zenon
      <4>5. Indexed(q.ttl, w, o, at)
        BY <1>1, <4>1, <4>2, <4>3, <4>4, PushFacts, SMTT(40)
      <4>6. q.key[o] # NoKey /\ MayTime(ms, q.key[o], {k}, at)
        BY <2>3, <2>9, Zenon DEF Loose, MayTime
      <4>7. Core(z, ms, {o} \cup {o}, {k}) /\ Retimed(q, z, w)
        BY <1>1, <2>9, <4>1, <4>4, <4>5, <4>6, TtlCore, Zenon
      <4>8. {o} \cup {o} = {o} /\ NodeAt(w, o) = at
        BY <1>1, <4>5, Zenon DEF Indexed
      <4> QED BY <2>9, <4>7, <4>8, Zenon DEF Retimed
    <3> QED BY <3>1, <3>2, Zenon
  <2>12. Core(z, ms, {}, {k})
    <3>1. {o} = {} \cup {o} /\ TableOK(z.table) /\ Owned(z.table, z.key)
      BY <2>11, Zenon DEF Core, Agree
    <3>2. ASSUME NEW b \in Entries(z.table), b.obj = o
          PROVE  b.expire = NodeAt(z.ttl, o) /\ o \in Range(z.lru[Class[b.key]])
      <4>1. b.key = k
        BY <2>11, <3>1, <3>2, Zenon DEF Owned
      <4>2. b = e
        BY <2>4, <2>7, <2>11, <4>1, Zenon
      <4> QED BY <2>3, <2>11, <4>1, <4>2, Zenon
    <3>3. InTable(z.table, o)
      BY <2>3, <2>4, <2>7, <2>11, Zenon DEF InTable
    <3>4. Core(z, ms, {} \cup {o}, {k})
      BY <2>11, Zenon
    <3> QED BY <3>2, <3>3, <3>4, Settled, Zenon
  <2>13. Core(z, ms, {}, {})
    <3> QED BY <2>12, DropKeys, Zenon
  <2> QED BY <1>2, <1>5, <2>2, <2>6, <2>8, <2>10, <2>13, Zenon DEF Stored
<1> QED BY <1>4, <1>5, Zenon

---------------------------------------------------------------------------
(* Commands *)

\* What the environment may choose.
LEMMA MemoryFacts ==
    /\ \A m \in Memory : m.room \in BOOLEAN /\ m.pressure \in BOOLEAN
    /\ \A room \in Rooms : room \in BOOLEAN
    /\ \A k \in Keys : ExpiryTimes(k) \subseteq Nat
<1>1. Rooms \subseteq BOOLEAN
  BY Zenon DEF Rooms
<1>2. ASSUME NEW m \in Memory PROVE m.room \in BOOLEAN /\ m.pressure \in BOOLEAN
  <2> DEFINE full == (Tails(ks) # {})
  <2>1. full \in BOOLEAN
    BY Zenon
  <2> HIDE DEF full
  <2>2. m \in [room : Rooms, pressure : {FALSE}] \cup [room : {TRUE}, pressure : {full}]
    BY Zenon DEF Memory, full
  <2> QED BY <1>1, <2>1, <2>2, Zenon
<1>3. ASSUME NEW k \in Keys PROVE ExpiryTimes(k) \subseteq Nat
  <2>1. Times \subseteq Nat
    BY KeyspaceAssumption, Zenon
  <2>2. 0 \in Nat
    BY Zenon
  <2> QED BY <2>1, <2>2, Zenon DEF ExpiryTimes
<1> QED BY <1>1, <1>2, <1>3, Zenon

\* SET.
LEMMA SetStep ==
    ASSUME NatInductive, KInv, NEW k \in Keys, NEW at \in Nat,
           NEW m, m.room \in BOOLEAN, m.pressure \in BOOLEAN, Set(k, at, m)
    PROVE  KInv'
<1>1. PICK a : a = Malloc(ks, k, m.pressure)
  BY Zenon
<1>2. /\ mset' = mset /\ mset[k] = NoMset
      /\ ks' = IF a.obj = NoObj THEN a.g
               ELSE Stored(BucketPut(a.g, a.obj, at, m.room), a.obj, at)
  BY <1>1, Zenon DEF Set, Idle
<1>3. Allocated(ks, mset, k, a)
  BY <1>1, MallocFacts, Zenon DEF KInv
<1>4. CASE a.obj = NoObj
  <2>1. Core(a.g, mset, {}, {})
    BY <1>3, <1>4, ConstantFacts, Zenon DEF Allocated, Fresh
  <2> QED BY <1>2, <1>4, <2>1, Zenon DEF KInv
<1>5. CASE a.obj # NoObj
  <2>1. Core(a.g, mset, {a.obj}, {}) /\ Fresh(a.g, a.obj, k)
    BY <1>3, <1>5, Zenon DEF Allocated
  <2>2. Core(ks', mset, {}, {})
    BY <1>2, <1>5, <2>1, StoredCore, Zenon
  <2> QED BY <1>2, <2>2, Zenon DEF KInv
<1> QED BY <1>4, <1>5, Zenon

\* The entry a lookup finds.
Finds(g, k, o, e) ==
    /\ e \in Entries(g.table) /\ e.key = k /\ e.obj = o /\ o \in Objs /\ g.key[o] = k
    /\ e.expire = ExpireGet(g.table, k) /\ e.locked = IsLocked(g.table, k)
    /\ \A f \in Entries(g.table) : f.obj = o \/ f.key = k => f = e

\* A lookup that finds an object finds the one entry of the key.
LEMMA FoundEntry ==
    ASSUME NEW g, NEW ms, NEW L, NEW K, Core(g, ms, L, K), NEW k \in Keys, ObjOf(g.table, k) # NoObj
    PROVE  \E e : Finds(g, k, ObjOf(g.table, k), e)
<1>1. TableOK(g.table) /\ Owned(g.table, g.key)
  BY Zenon DEF Core, Agree
<1>2. PICK e \in Entries(g.table) :
          /\ e.key = k /\ ObjOf(g.table, k) = e.obj
          /\ IsLocked(g.table, k) = e.locked /\ ExpireGet(g.table, k) = e.expire
  BY <1>1, LookupFacts
<1>3. /\ e.obj \in Objs /\ g.key[e.obj] = k
      /\ \A f \in Entries(g.table) : f.obj = e.obj \/ f.key = k => f = e
  BY <1>1, <1>2, EntryFacts, Zenon
<1> QED BY <1>2, <1>3, Zenon DEF Finds

\* A key that no MSET has locked is taken out and its object freed.
LEMMA TakenCore ==
    ASSUME NatInductive, NEW g, NEW ms, Core(g, ms, {}, {}), NEW k \in Keys, ms[k] = NoMset,
           NEW o, o = ObjOf(g.table, k), o # NoObj
    PROVE  Core(Destroy([g EXCEPT !.table = Take(@, k)], o), ms, {}, {})
<1>1. PICK e : Finds(g, k, o, e)
  BY FoundEntry, Zenon
<1>2. Only(g.table, k, o) /\ o \in Objs /\ g.key[o] = k
  BY <1>1, Zenon DEF Only, Finds
<1>3. PICK t : t = Take(g.table, k)
  BY Zenon
<1>4. Cleared(g.table, t, k)
  BY <1>3, TakeFacts, Zenon DEF Core, Agree
<1>5. Core(Destroy([g EXCEPT !.table = t], o), ms, {} \ {o}, {})
  BY <1>2, <1>4, FreeCore, Zenon
<1>6. {} \ {o} = {}
  BY Zenon
<1> QED BY <1>3, <1>5, <1>6, Zenon

\* GET: a touch, or the lazy expiry of the key.
LEMMA GetStep ==
    ASSUME NatInductive, KInv, NEW k \in Keys, Get(k)
    PROVE  KInv'
<1>1. PICK o : o = ObjOf(ks.table, k)
  BY Zenon
<1>2. /\ mset' = mset /\ mset[k] = NoMset /\ o # NoObj
      /\ \/ ks' = LruPrepend(ks, o)
         \/ ks' = Destroy([ks EXCEPT !.table = Take(@, k)], o)
  BY <1>1, Zenon DEF Get, Idle
<1>3. o \in Objs /\ ks.key[o] = k
  BY <1>1, <1>2, FoundEntry, Zenon DEF KInv, Finds
<1>4. Core(LruPrepend(ks, o), mset, {}, {})
  BY <1>3, PrependCore, ConstantFacts, Zenon DEF KInv
<1>5. Core(Destroy([ks EXCEPT !.table = Take(@, k)], o), mset, {}, {})
  BY <1>1, <1>2, TakenCore, Zenon DEF KInv
<1> QED BY <1>2, <1>4, <1>5, Zenon DEF KInv

\* DEL.
LEMMA DeleteStep ==
    ASSUME NatInductive, KInv, NEW k \in Keys, Delete(k)
    PROVE  KInv'
<1>1. PICK o : o = ObjOf(ks.table, k)
  BY Zenon
<1>2. /\ mset' = mset /\ mset[k] = NoMset /\ o # NoObj
      /\ ks' = Destroy([ks EXCEPT !.table = Take(@, k)], o)
  BY <1>1, Zenon DEF Delete, Idle
<1>3. Core(ks', mset, {}, {})
  BY <1>1, <1>2, TakenCore, Zenon DEF KInv
<1> QED BY <1>2, <1>3, Zenon DEF KInv

\* shard_ttl_push, _update or _remove, as the object's heap_idx says.
LEMMA ReindexedFacts ==
    ASSUME NatInductive, NEW h, HeapOK(h), NEW o \in Objs, NEW at \in Nat
    PROVE  Indexed(h, Reindexed(h, o, at), o, at)
<1>1. CASE at = 0
  BY <1>1, RemoveNodeFacts DEF Reindexed
<1>2. CASE at # 0
  <2>1. at \in Nat \ {0} /\ at > 0
    BY <1>2
  <2>2. CASE h.heap_idx[o] = 0
    BY <2>1, <2>2, PushFacts, Zenon DEF Reindexed
  <2>3. CASE h.heap_idx[o] # 0
    BY <2>1, <2>3, UpdateFacts, Zenon DEF Reindexed
  <2> QED BY <2>2, <2>3, Zenon
<1> QED BY <1>1, <1>2, Zenon

\* EXPIRE whose put fails: the rehash that began the put had dropped the entry.
LEMMA ExpireNo ==
    ASSUME NatInductive, NEW g, NEW ms, Core(g, ms, {}, {}), NEW k \in Keys, ms[k] = NoMset,
           NEW o \in Objs, g.key[o] = k, NEW at \in Nat, NEW r,
           PutResult(g, ms, {}, o, at, r), ~r.ok
    PROVE  Core([r.g EXCEPT !.ttl = Reindexed(@, o, at)], ms, {}, {})
<1>1. /\ Core(r.g, ms, {}, {}) /\ Around(g, r.g, k)
      /\ \A e \in Entries(r.g.table) : e.key # k
  BY PutNo, Zenon
<1>2. r.g.key[o] = k /\ k # NoKey
  BY <1>1, ConstantFacts, Zenon DEF Around
<1>3. PICK w : w = Reindexed(r.g.ttl, o, at)
  BY Zenon
<1>4. Indexed(r.g.ttl, w, o, at)
  BY <1>1, <1>3, ReindexedFacts, Zenon DEF Core, Agree
<1>5. MayTime(ms, r.g.key[o], {}, at)
  BY <1>2, Zenon DEF MayTime, Loose
<1>6. PICK h : h = [r.g EXCEPT !.ttl = w]
  BY Zenon
<1>7. Core(h, ms, {} \cup {o}, {}) /\ Retimed(r.g, h, w)
  BY <1>1, <1>2, <1>4, <1>5, <1>6, TtlCore, Zenon
<1>8. \A e \in Entries(h.table) : e.obj # o
  BY <1>1, <1>2, <1>7, Zenon DEF Core, Agree, Owned, Retimed
<1>9. InTable(h.table, o) \/ o = ms[h.key[o]].new \/ o \in h.table.lost
  BY <1>1, <1>2, <1>7, Zenon DEF Core, Agree, Reached, Retimed
<1>10. Core(h, ms, {}, {})
  BY <1>7, <1>8, <1>9, Settled, Zenon
<1> QED BY <1>3, <1>6, <1>10, Zenon

\* EXPIRE whose put succeeds.  An entry that the put's own rehash has dropped
\* is back, of an object that the eviction may have taken off its list.
LEMMA ExpireOk ==
    ASSUME NatInductive, NEW g, NEW ms, Core(g, ms, {}, {}), NEW k \in Keys, ms[k] = NoMset,
           NEW o, NEW d, Finds(g, k, o, d), NEW at \in Nat, NEW r,
           PutResult(g, ms, {}, o, at, r), r.ok
    PROVE  Core([r.g EXCEPT !.ttl = Reindexed(@, o, at)], ms, {}, {})
<1>0. o \in Objs /\ g.key[o] = k /\ k # NoKey
  BY ConstantFacts, Zenon DEF Finds
<1>1. PICK h : Entered(g, ms, {}, o, at, r, h, k)
  BY <1>0, PutOk, Zenon
<1>2. PICK e : e = Entry(k, o, at)
  BY Zenon
<1>3. /\ Core(r.g, ms, {} \cup {o, r.old}, {k}) /\ Core(h, ms, {}, {}) /\ Around(g, h, k)
      /\ r.g.lru = h.lru /\ r.g.key = h.key /\ r.g.table.dropped = h.table.dropped
      /\ e \in Entries(r.g.table) /\ \A f \in Entries(r.g.table) : f.key = k => f = e
  BY <1>1, <1>2, Zenon DEF Entered
<1>4. r.old = NoObj \/ r.old = o
  BY <1>1, Zenon DEF Entered, Finds, Around
<1>5. Core(r.g, ms, {o}, {})
  <2>1. {} \cup {o, r.old} \subseteq {o} \cup {NoObj} /\ {k} \subseteq {k}
    BY <1>4, Zenon
  <2>2. Core(r.g, ms, {o} \cup {NoObj}, {k})
    BY <1>3, <2>1, CoreMore, Zenon
  <2>3. Core(r.g, ms, {o}, {k})
    BY <2>2, DropNoObj, Zenon
  <2> QED BY <2>3, DropKeys, Zenon
<1>6. r.g.key[o] = k
  BY <1>0, <1>3, Zenon DEF Around
<1>7. PICK w : w = Reindexed(r.g.ttl, o, at)
  BY Zenon
<1>8. Indexed(r.g.ttl, w, o, at)
  BY <1>0, <1>5, <1>7, ReindexedFacts, Zenon DEF Core, Agree
<1>9. MayTime(ms, r.g.key[o], {}, at)
  BY <1>6, Zenon DEF MayTime, Loose
<1>10. PICK j : j = [r.g EXCEPT !.ttl = w]
  BY Zenon
<1>11. Core(j, ms, {o} \cup {o}, {}) /\ Retimed(r.g, j, w)
  BY <1>0, <1>5, <1>6, <1>8, <1>9, <1>10, TtlCore, Zenon
<1>12. Core(j, ms, {} \cup {o}, {})
  BY <1>11, Zenon
<1>13. e.key = k /\ e.obj = o /\ e.expire = at
  BY <1>2, Zenon DEF Entry
<1>14. InTable(j.table, o)
  BY <1>3, <1>11, <1>13, Zenon DEF InTable, Retimed
<1>15. ASSUME NEW f \in Entries(j.table), f.obj = o
       PROVE  /\ f.expire = NodeAt(j.ttl, o)
              /\ o \notin j.table.dropped /\ ms[f.key] = NoMset => o \in Range(j.lru[Class[f.key]])
  <2>1. f.key = k
    BY <1>6, <1>11, <1>15, Zenon DEF Core, Agree, Owned, Retimed
  <2>2. f = e
    BY <1>3, <1>11, <2>1, Zenon DEF Retimed
  <2>3. f.expire = NodeAt(j.ttl, o)
    BY <1>0, <1>8, <1>11, <1>13, <2>2, Zenon DEF Indexed, Retimed
  <2>4. ASSUME o \notin j.table.dropped PROVE o \in Range(j.lru[Class[k]])
    <3>1. o \notin h.table.dropped
      BY <1>3, <1>11, <2>4, Zenon DEF Retimed
    <3>2. d \in Entries(h.table) /\ d.obj = o /\ d.key = k
      BY <1>3, <3>1, Zenon DEF Around, Finds
    <3>3. o \in Range(h.lru[Class[k]])
      BY <1>3, <3>1, <3>2, Zenon DEF Core, Agree, Evictable
    <3> QED BY <1>3, <1>11, <3>3, Zenon DEF Retimed
  <2> QED BY <2>1, <2>3, <2>4, Zenon
<1>16. Core(j, ms, {}, {})
  BY <1>12, <1>14, <1>15, Settled, Zenon
<1> QED BY <1>7, <1>10, <1>16, Zenon

\* EXPIRE and PERSIST.
LEMMA ExpireStep ==
    ASSUME NatInductive, KInv, NEW k \in Keys, NEW at \in Nat, NEW room \in BOOLEAN, Expire(k, at, room)
    PROVE  KInv'
<1>1. PICK o : o = ObjOf(ks.table, k)
  BY Zenon
<1>2. PICK r : r = BucketPut(ks, o, at, room)
  BY Zenon
<1>3. /\ mset' = mset /\ mset[k] = NoMset /\ o # NoObj
      /\ ks' = [r.g EXCEPT !.ttl = Reindexed(@, o, at)]
  BY <1>1, <1>2, Zenon DEF Expire, Idle
<1>4. PICK d : Finds(ks, k, o, d)
  BY <1>1, <1>3, FoundEntry, Zenon DEF KInv
<1>5. o \in Objs /\ ks.key[o] = k
  BY <1>4, Zenon DEF Finds
<1>6. PutResult(ks, mset, {}, o, at, r)
  BY <1>2, <1>5, BucketPutFacts, Zenon DEF KInv
<1>7. Core(ks', mset, {}, {})
  BY <1>3, <1>4, <1>5, <1>6, ExpireOk, ExpireNo, Zenon DEF KInv
<1> QED BY <1>3, <1>7, Zenon DEF KInv
=============================================================================
