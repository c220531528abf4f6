--------------------------- MODULE SnapshotProofs ---------------------------
(***************************************************************************)
(* Proofs about Snapshot, for any slots, pages and words of the bitmaps,   *)
(* any keys and any bounds.  The argument: as long as no epoch has failed  *)
(* and no object was deleted behind the worker's back (bad = Never), the   *)
(* reference count of a slot is the number of those who will still give a  *)
(* reference back, and whether the worker is one of them can be read off   *)
(* the bitmaps.  Every step keeps the counts, and with them what the       *)
(* worker and the shard rely on.                                           *)
(***************************************************************************)
EXTENDS Snapshot, TLAPS

Working == w.pc \in {"visit", "put", "leave"}

\* The worker visits s before the end of this epoch.
Coming(s) ==
    /\ s \in snap_slot_bits
    /\ \/ PageOf[s] \in snap_dirty_bits \cup w.word
       \/ PageOf[s] = w.page /\ w.pc = "visit" /\ s >= w.slot
       \/ PageOf[s] = w.page /\ w.pc = "put" /\ s > w.slot

\* The worker visits s in the next epoch.
Marked(s) == s \in slot_bits /\ PageOf[s] \in dirty_bits

\* The worker has seen that s is dead and drops its reference next.
Dropping(s) == w.pc = "put" /\ w.slot = s /\ w.deleted

InTable(s) == \E k \in Keys : table[k] = s
ShardRef(s)  == InTable(s) \/ job.slot = s
WorkerRef(s) == InTable(s) \/ Marked(s) \/ Coming(s) \/ Dropping(s)
One(p) == IF p THEN 1 ELSE 0

WorkerType ==
    [pc : {"asleep", "word", "visit", "put", "leave", "finish", "compact",
           "unlink"},
     word : SUBSET Pages, page : Nat, slot : Slots \cup {NoSlot},
     deleted : BOOLEAN, epoch : 0..MaxEpoch, ents : Seq(Entry)]

ObjType == [key : Keys \cup {NoKey}, val : 0..MaxWrites, refcount : 0..RefLimit-1,
            snap_flag : Flags, marked_deletion : BOOLEAN]

\* The types of TypeOK and of the records' fields.
HeapTypes ==
    /\ table \in [Keys -> Slots \cup {NoSlot}]
    /\ obj \in [Slots -> ObjType]
    /\ lent \in SUBSET Slots
    /\ free \in SUBSET Slots /\ snap_freelist \in SUBSET Slots
    /\ to_merge \in SUBSET (Pages \ LargePages)
BitTypes ==
    /\ dirty_bits \in SUBSET Pages /\ snap_dirty_bits \in SUBSET Pages
    /\ slot_bits \in SUBSET Slots /\ snap_slot_bits \in SUBSET Slots
JobTypes ==
    /\ job \in [pc : {"idle", "flag", "unref"}, slot : Slots \cup {NoSlot},
                visit : BOOLEAN]
    /\ job.pc = "idle" <=> job.slot = NoSlot
    /\ replay \in Seq(Entry)
EpochTypes ==
    /\ is_snapshotting \in BOOLEAN /\ snap_eventfd \in BOOLEAN
    /\ current_epoch \in 0..MaxEpoch /\ ticks \in 0..MaxEpoch
    /\ current_epoch <= ticks
    /\ snap_eventfd => current_epoch # 0
    /\ writes \in 0..MaxWrites /\ bad \in 0..Never
WorkerTypes ==
    /\ w \in WorkerType
    /\ w.pc # "asleep" => w.epoch # 0
    /\ base \in [epoch : 0..MaxEpoch, ents : Seq(Entry)]
    /\ deltas \in [1..MaxEpoch -> Seq(Entry)]
Types == HeapTypes /\ BitTypes /\ JobTypes /\ EpochTypes /\ WorkerTypes

\* Slots that hold, or held, an object of this run of the server.
Used == {s \in Slots : obj[s].key \in Keys}
UsedSlots ==
    /\ slot_bits \subseteq Used /\ snap_slot_bits \subseteq Used
    /\ \A k \in Keys : table[k] # NoSlot => table[k] \in Used
    /\ w.pc \in {"visit", "put"} => /\ w.slot \in snap_slot_bits
                                    /\ PageOf[w.slot] = w.page
    /\ Working => \A p \in w.word : w.page < p

\* The eventfd is only set for a worker that is not in an epoch.
WakeOnce == snap_eventfd => w.pc \in {"asleep", "compact", "unlink"}

\* Where the marks of the frozen bitmaps are, and that none of a small object
\* is left over.
Bitmaps ==
    /\ w.pc \in {"asleep", "word", "finish", "compact", "unlink"} => w.word = {}
    /\ w.pc = "finish" \/ ~is_snapshotting => snap_dirty_bits = {}
    /\ w.word \cap snap_dirty_bits = {}
    /\ Working => w.page \notin snap_dirty_bits
    /\ \A s \in Small(slot_bits) : PageOf[s] \in dirty_bits
    /\ \A s \in Small(snap_slot_bits) :
          \/ PageOf[s] \in snap_dirty_bits \cup w.word
          \/ Working /\ PageOf[s] = w.page

\* An object leads a single life: one key, one free list, and a slot freed by
\* the worker is where the shard will look for it.
Places ==
    /\ \A j, k \in Keys : table[j] = table[k] /\ table[j] # NoSlot => j = k
    /\ free \cap snap_freelist = {}
    /\ \A s \in snap_freelist :
          \/ PageOf[s] \in LargePages \cup to_merge
          \/ Working /\ PageOf[s] = w.page

\* The references of a slot.
RefOK(s) ==
    /\ obj[s].refcount = One(ShardRef(s)) + One(WorkerRef(s)) + One(s \in lent)
    /\ s \in free \cup snap_freelist <=> obj[s].refcount = 0
    /\ job.slot = s => ~InTable(s) /\ Marked(s)
    /\ obj[s].refcount > 0 /\ ~InTable(s) => obj[s].marked_deletion

\* The flag of an object: of one that is alive, of one whose destruction has
\* begun, of one that is dead.
Flagging(s) == job.pc = "flag" /\ job.slot = s
Alive(s) == InTable(s) \/ Flagging(s)
FlagOK(s) ==
    /\ Alive(s) => obj[s].snap_flag \in {"LIVE_FRESH", "LIVE_VISITED"}
    /\ Alive(s) /\ Coming(s) => obj[s].snap_flag = "LIVE_FRESH"
    /\ InTable(s) /\ Coming(s) => ~Marked(s)
    /\ InTable(s) /\ Marked(s) => obj[s].snap_flag = "LIVE_FRESH"
    /\ Flagging(s) /\ Coming(s) => job.visit
    /\ Flagging(s) /\ job.visit /\ obj[s].snap_flag = "LIVE_FRESH" => Coming(s)
    /\ ~Alive(s) /\ Marked(s) /\ Coming(s) => obj[s].snap_flag = "DEAD_PENDING"
    /\ ~Alive(s) /\ Marked(s) /\ ~Coming(s) => obj[s].snap_flag = "DEAD_SAFE"
    /\ ~Alive(s) /\ ~Marked(s) /\ Coming(s) => obj[s].snap_flag = "DEAD_SAFE"
    /\ Dropping(s) => ~Alive(s) /\ ~Marked(s)

\* Facts about the model's operators that take induction: the step lemmas use
\* them, and they are proved once, at the end.
OpFacts ==
    /\ \A S \in SUBSET Nat : S # {} => Min(S) \in S /\ \A x \in S : Min(S) <= x
    /\ \A es \in Seq(Entry) : Accepted(es) \in Seq(Entry)
    /\ \A b : \A d \in Seq(Seq(Entry)) :
          b.ents \in Seq(Entry) => EntriesRead(b, d) \in Seq(Entry)

\* What holds whatever failed, and what holds until something does.
Shape == Types /\ UsedSlots /\ WakeOnce /\ TickWaitsForWorker
Refs  == Bitmaps /\ Places /\ \A s \in Slots : RefOK(s) /\ FlagOK(s)
IInv  == Shape /\ (bad = Never => Refs)

---------------------------------------------------------------------------
(* Operators of the model.                                                 *)

\* The first set bit of a word: a set of numbers that is not empty has a
\* least one.
LEMMA MinNat ==
    ASSUME OpFacts, NEW S \in SUBSET Nat, S # {}
    PROVE  Min(S) \in S /\ \A x \in S : Min(S) <= x
  BY Zenon DEF OpFacts

\* Slots and pages are numbers, and 0 is not a slot.
LEMMA Numbers ==
    /\ Slots \in SUBSET Nat /\ NoSlot \notin Slots
    /\ Pages \in SUBSET Nat /\ \A s \in Slots : PageOf[s] \in Pages
    /\ MaxWrites \in Nat /\ MaxEpoch \in Nat /\ Never \in Nat /\ Never > MaxEpoch
  BY SlotsAssumption, PagesAssumption, BoundsAssumption
     DEF NoSlot, Pages, Never

\* The counter stays within its width, and counts within it.
LEMMA WithinWidth ==
    ASSUME NEW n \in Nat, n < RefLimit
    PROVE  /\ Decremented(n) \in Nat /\ Decremented(n) < RefLimit
           /\ Incremented(n) \in Nat /\ Incremented(n) < RefLimit
           /\ n > 0 => Decremented(n) = n - 1
           /\ n < 10 => Incremented(n) = n + 1
  BY DEF Decremented, Incremented, RefLimit

\* The counter of an object has room for the few holders there are.
LEMMA WidthTyped == RefLimit \in Int /\ RefLimit > 10
  BY DEF RefLimit

\* shard_obj_ref and shard_obj_unref stay within the width of the counter,
\* and count by one while it does not wrap.
LEMMA CountsTyped ==
    ASSUME NEW n \in 0..RefLimit-1
    PROVE  /\ Decremented(n) \in 0..RefLimit-1 /\ Incremented(n) \in 0..RefLimit-1
           /\ n > 0 => Decremented(n) = n - 1
           /\ n < 10 => Incremented(n) = n + 1
<1>1. RefLimit \in Int
  BY WidthTyped, Zenon
<1>2. n \in Nat /\ n < RefLimit
  BY <1>1
<1> QED BY <1>1, <1>2, WithinWidth

\* The worker after it has moved on in its loops, and nothing else.
Moved(v, pc, word, page, slot) ==
    /\ v \in WorkerType
    /\ v.pc = pc /\ v.word = word /\ v.page = page /\ v.slot = slot
    /\ v.deleted = w.deleted /\ v.epoch = w.epoch /\ v.ents = w.ents

\* Where it goes from a set of pages: to the first marked slot of the first
\* page that is not skipped.
Entered(v, ps, p, s) ==
    /\ Moved(v, "visit", {q \in ps : q > p}, p, s)
    /\ p \in ps /\ ~Skipped(p) /\ \A q \in ps : q < p => Skipped(q)
    /\ s \in ModifiedSlots(p) /\ \A t \in ModifiedSlots(p) : s <= t
NoneEntered(v, ps) ==
    Moved(v, "word", {}, 0, w.slot) /\ \A p \in ps : Skipped(p)

\* The worker enters the first of the pages left that has a marked slot, or
\* is done with the word.
LEMMA FirstSlotFacts ==
    ASSUME OpFacts, w \in WorkerType, NEW ps \in SUBSET Pages
    PROVE  \/ NoneEntered(FirstSlot(w, ps), ps)
           \/ \E p, s : Entered(FirstSlot(w, ps), ps, p, s)
<1> DEFINE todo == {p \in ps : ~Skipped(p)}
           v == FirstSlot(w, ps)
<1>1. CASE todo = {}
  <2>1. v = [w EXCEPT !.pc = "word", !.word = {}, !.page = 0]
    BY <1>1, Zenon DEF FirstSlot
  <2> HIDE DEF v
  <2>2. Moved(v, "word", {}, 0, w.slot)
    BY <2>1, Zenon DEF Moved, WorkerType
  <2> QED BY <1>1, <2>2, Zenon DEF NoneEntered, v
<1>2. CASE todo # {}
  <2> DEFINE p == Min(todo)
             s == Min(ModifiedSlots(p))
  <2>1. todo \in SUBSET Nat
    BY Numbers, Zenon
  <2>2. v = [w EXCEPT !.pc = "visit", !.word = {q \in ps : q > p},
                      !.page = p, !.slot = s]
    BY <1>2, Zenon DEF FirstSlot
  <2> HIDE DEF v
  <2>3. p \in todo /\ \A q \in todo : p <= q
    <3> HIDE DEF todo
    <3> QED BY <1>2, <2>1, MinNat, Zenon
  <2> HIDE DEF p, todo
  <2>4. ModifiedSlots(p) # {} /\ ModifiedSlots(p) \in SUBSET Nat
    BY <2>3, Numbers, Zenon DEF Skipped, ModifiedSlots, SlotsOf, todo
  <2>5. s \in ModifiedSlots(p) /\ \A t \in ModifiedSlots(p) : s <= t
    BY <2>4, MinNat, Zenon
  <2>6. p \in ps /\ ~Skipped(p) /\ \A q \in ps : q < p => Skipped(q)
    BY <2>3, Numbers DEF todo
  <2> HIDE DEF s
  <2>7. p \in Nat /\ s \in Slots /\ {q \in ps : q > p} \in SUBSET Pages
    BY <2>5, <2>6, Numbers, Zenon DEF ModifiedSlots, SlotsOf
  <2>8. Moved(v, "visit", {q \in ps : q > p}, p, s)
    BY <2>2, <2>7, Zenon DEF Moved, WorkerType
  <2> QED BY <2>5, <2>6, <2>8, Zenon DEF Entered, v
<1> QED BY <1>1, <1>2, Zenon

\* Where it goes after a slot: to the next marked one of the page.
PageDone(v) ==
    /\ v.pc = "leave" /\ v.slot = NoSlot
    /\ \A t \in ModifiedSlots(w.page) : t <= w.slot
NextInPage(v) ==
    /\ v.pc = "visit" /\ v.slot \in ModifiedSlots(w.page) /\ v.slot > w.slot
    /\ \A t \in ModifiedSlots(w.page) : t > w.slot => v.slot <= t

\* The worker goes on to the next marked slot of its page, or leaves the page.
LEMMA AfterSlotFacts ==
    ASSUME OpFacts, w \in WorkerType, w.slot \in Slots,
           obj[w.slot].key \in Keys, obj[w.slot].val \in 0..MaxWrites
    PROVE  LET v == AfterSlot(WithEntry(w))
           IN  /\ v \in WorkerType /\ v.word = w.word /\ v.page = w.page
               /\ v.deleted = FALSE /\ v.epoch = w.epoch
               /\ PageDone(v) \/ NextInPage(v)
<1> DEFINE e == [slot |-> w.slot, deleted |-> w.deleted,
                 key |-> obj[w.slot].key, val |-> obj[w.slot].val]
           u == WithEntry(w)
           rest == {s \in ModifiedSlots(u.page) : s > u.slot}
           v == AfterSlot(u)
<1>0. u = [w EXCEPT !.ents = Append(w.ents, e)] /\ e \in Entry
  BY Zenon DEF WithEntry, WorkerType, Entry
<1>1. u \in WorkerType /\ u.word = w.word /\ u.page = w.page /\ u.epoch = w.epoch
      /\ u.slot = w.slot
  <2> HIDE DEF u, e
  <2>1. w.ents \in Seq(Entry)
    BY Zenon DEF WorkerType
  <2>2. Append(w.ents, e) \in Seq(Entry)
    BY <1>0, <2>1
  <2> HIDE DEF Entry
  <2> QED BY <1>0, <2>2, Zenon DEF WorkerType
<1>2. rest \in SUBSET Nat /\ rest \in SUBSET Slots
  BY Numbers, Zenon DEF ModifiedSlots, SlotsOf
<1> HIDE DEF u
<1>3. CASE rest = {}
  <2>1. v = [u EXCEPT !.pc = "leave", !.slot = NoSlot, !.deleted = FALSE]
    BY <1>3, Zenon DEF AfterSlot
  <2> HIDE DEF v
  <2>2. v \in WorkerType /\ v.word = u.word /\ v.page = u.page /\ v.slot = NoSlot
        /\ v.deleted = FALSE /\ v.epoch = u.epoch /\ v.pc = "leave"
    BY <1>1, <2>1, Zenon DEF WorkerType
  <2>3. \A t \in ModifiedSlots(w.page) : t <= w.slot
    <3>1. w.slot \in Nat /\ ModifiedSlots(w.page) \in SUBSET Nat
      BY Numbers, Zenon DEF ModifiedSlots, SlotsOf
    <3> QED BY <1>1, <1>3, <3>1
  <2>4. PageDone(v)
    BY <2>2, <2>3, Zenon DEF PageDone
  <2> QED BY <1>1, <2>2, <2>4, Zenon DEF v, u
<1>4. CASE rest # {}
  <2> DEFINE s == Min(rest)
  <2>1. v = [u EXCEPT !.pc = "visit", !.slot = s, !.deleted = FALSE]
    BY <1>4, Zenon DEF AfterSlot
  <2> HIDE DEF v
  <2>2. s \in rest /\ \A t \in rest : s <= t
    <3> HIDE DEF rest
    <3> QED BY <1>2, <1>4, MinNat, Zenon
  <2> HIDE DEF s
  <2>3. s \in Slots
    BY <1>2, <2>2, Zenon
  <2>4. v \in WorkerType /\ v.word = u.word /\ v.page = u.page /\ v.slot = s
        /\ v.deleted = FALSE /\ v.epoch = u.epoch /\ v.pc = "visit"
    BY <1>1, <2>1, <2>3, Zenon DEF WorkerType
  <2>5. NextInPage(v)
    BY <1>1, <2>2, <2>4, Zenon DEF NextInPage
  <2> QED BY <1>1, <2>4, <2>5, Zenon DEF v, u
<1> QED BY <1>3, <1>4, Zenon

---------------------------------------------------------------------------
(* The invariant: its consequences, and the initial state.                 *)

\* The types of the records' fields give the type invariant of the model.
LEMMA TypesTypeOK == ASSUME Types PROVE TypeOK
<1>1. HeapTypes /\ BitTypes /\ JobTypes /\ EpochTypes /\ WorkerTypes
  BY Zenon DEF Types
<1>2. /\ table \in [Keys -> Slots \cup {NoSlot}]
      /\ obj \in [Slots -> [key : Keys \cup {NoKey}, val : 0..MaxWrites,
                            refcount : 0..RefLimit-1,
                            snap_flag : Flags, marked_deletion : BOOLEAN]]
  BY <1>1, Zenon DEF HeapTypes, ObjType
<1>3. /\ lent \cup free \cup snap_freelist \subseteq Slots
      /\ to_merge \subseteq Pages \ LargePages
  BY <1>1, Zenon DEF HeapTypes
<1>4. /\ dirty_bits \cup snap_dirty_bits \subseteq Pages
      /\ slot_bits \cup snap_slot_bits \subseteq Slots
  BY <1>1, Zenon DEF BitTypes
<1>5. /\ is_snapshotting \in BOOLEAN /\ snap_eventfd \in BOOLEAN
      /\ current_epoch \in 0..MaxEpoch
  BY <1>1, Zenon DEF EpochTypes
<1>6. job.pc \in {"idle", "flag", "unref"} /\ job.slot \in Slots \cup {NoSlot}
  BY <1>1, Zenon DEF JobTypes
<1>7. /\ w.word \subseteq Pages /\ w.slot \in Slots \cup {NoSlot}
      /\ w.ents \in Seq(Entry) /\ base.ents \in Seq(Entry)
  BY <1>1, Zenon DEF WorkerTypes, WorkerType
<1>8. deltas \in [1..MaxEpoch -> Seq(Entry)]
  BY <1>1, Zenon DEF WorkerTypes
<1> HIDE DEF Entry
<1>9. /\ \A i \in DOMAIN w.ents : w.ents[i] \in Entry
      /\ \A i \in DOMAIN base.ents : base.ents[i] \in Entry
  BY <1>7
<1>10. /\ DOMAIN deltas = 1..MaxEpoch
       /\ \A e \in 1..MaxEpoch : \A i \in DOMAIN deltas[e] : deltas[e][i] \in Entry
  BY <1>8
<1> QED BY <1>2, <1>3, <1>4, <1>5, <1>6, <1>7, <1>9, <1>10, Zenon DEF TypeOK

\* In a state where nothing is marked and no object is in use, every slot is
\* as it should be.
Fresh ==
    /\ table = [k \in Keys |-> NoSlot]
    /\ obj = [s \in Slots |-> NoObj]
    /\ lent = {} /\ free = Slots /\ snap_freelist = {} /\ to_merge = {}
    /\ dirty_bits = {} /\ slot_bits = {}
    /\ snap_dirty_bits = {} /\ snap_slot_bits = {}
    /\ is_snapshotting = FALSE /\ current_epoch = 0 /\ snap_eventfd = FALSE
    /\ job = Idle /\ w = Asleep

\* In a heap without objects nobody holds a reference.
LEMMA FreshRefs == ASSUME Fresh PROVE Refs
<1>1. Bitmaps
  BY Zenon DEF Fresh, Bitmaps, Small, Asleep, Working
<1>2. Places
  BY Zenon DEF Fresh, Places
<1>3. ASSUME NEW s \in Slots PROVE RefOK(s) /\ FlagOK(s)
  <2>1. ~InTable(s) /\ job.slot # s /\ job.pc # "flag"
    BY Numbers, Zenon DEF Fresh, InTable, Idle
  <2>2. ~Marked(s) /\ ~Coming(s)
    BY Zenon DEF Fresh, Marked, Coming
  <2>3. ~Dropping(s)
    BY Zenon DEF Fresh, Dropping, Asleep
  <2>4. obj[s].refcount = 0 /\ s \notin lent /\ s \in free
    BY Zenon DEF Fresh, NoObj
  <2>5. RefOK(s)
    BY <2>1, <2>2, <2>3, <2>4 DEF RefOK, ShardRef, WorkerRef, One
  <2>6. FlagOK(s)
    BY <2>1, <2>2, <2>3, Zenon DEF FlagOK, Alive, Flagging
  <2> QED BY <2>5, <2>6, Zenon
<1> QED BY <1>1, <1>2, <1>3, Zenon DEF Refs

\* A heap without objects, and a worker asleep, have their shape.
LEMMA FreshShape ==
    ASSUME Fresh
    PROVE  /\ HeapTypes /\ BitTypes /\ UsedSlots /\ WakeOnce /\ TickWaitsForWorker
           /\ job \in [pc : {"idle", "flag", "unref"}, slot : Slots \cup {NoSlot},
                       visit : BOOLEAN]
           /\ job.pc = "idle" /\ job.slot = NoSlot
           /\ w \in WorkerType /\ w.pc = "asleep"
<1>1. NoObj \in ObjType
  BY Numbers, WidthTyped DEF NoObj, ObjType, Flags
<1>2. HeapTypes
  BY <1>1, Zenon DEF Fresh, HeapTypes
<1>3. BitTypes
  BY Zenon DEF Fresh, BitTypes
<1>4. UsedSlots /\ WakeOnce /\ TickWaitsForWorker
  BY Zenon DEF Fresh, UsedSlots, WakeOnce, TickWaitsForWorker, Asleep, Working
<1>5. w \in WorkerType /\ w.pc = "asleep"
  <2>1. << >> \in Seq(Entry)
    OBVIOUS
  <2> HIDE DEF Entry
  <2> QED BY <2>1, Numbers DEF Fresh, Asleep, WorkerType
<1>6. /\ job \in [pc : {"idle", "flag", "unref"}, slot : Slots \cup {NoSlot},
                  visit : BOOLEAN]
      /\ job.pc = "idle" /\ job.slot = NoSlot
  BY Zenon DEF Fresh, Idle
<1> QED BY <1>2, <1>3, <1>4, <1>5, <1>6, Zenon


---------------------------------------------------------------------------
(* The worker's steps keep the shape of the state.                         *)

\* snap_background_worker wakes: the shape of the state is kept.
LEMMA WakeShape == ASSUME Shape, Wake PROVE Shape'
<1> USE DEF shardVars, serving, slotVars, frozenVars, activeVars
<1>1. HeapTypes' /\ BitTypes' /\ JobTypes'
  BY Zenon DEF Shape, Types, HeapTypes, BitTypes, JobTypes, Wake
<1>2. EpochTypes'
  BY Zenon DEF Shape, Types, EpochTypes, Wake
<1>3. WorkerTypes'
  <2>1. w' \in WorkerType /\ w'.pc = "word" /\ w'.epoch = current_epoch
    BY Zenon DEF Shape, Types, WorkerTypes, EpochTypes, WorkerType, Wake
  <2>2. current_epoch # 0
    BY Zenon DEF Shape, Types, EpochTypes, Wake
  <2>3. deltas' \in [1..MaxEpoch -> Seq(Entry)]
    <3>1. << >> \in Seq(Entry)
      OBVIOUS
    <3> HIDE DEF Entry
    <3> QED BY <3>1, Zenon DEF Shape, Types, WorkerTypes, Wake
  <2> QED BY <2>1, <2>2, <2>3, Zenon DEF Shape, Types, WorkerTypes, Wake
<1>4. UsedSlots'
  BY Zenon DEF Shape, Types, WorkerTypes, WorkerType, UsedSlots, Used, Working, Wake
<1>5. WakeOnce' /\ TickWaitsForWorker'
  BY Zenon DEF Shape, Types, WorkerTypes, WorkerType, WakeOnce, TickWaitsForWorker, Wake
<1> QED BY <1>1, <1>2, <1>3, <1>4, <1>5, Zenon DEF Shape, Types

\* TakeWord either ends the epoch or takes some of the dirty pages and goes to
\* the first of them that is not skipped.
TookWord ==
    \/ /\ Moved(w', "finish", w.word, w.page, w.slot)
       /\ snap_dirty_bits = {} /\ snap_dirty_bits' = {}
    \/ \E ps \in SUBSET snap_dirty_bits :
         /\ snap_dirty_bits' = snap_dirty_bits \ ps
         /\ NoneEntered(w', ps) \/ \E p, s : Entered(w', ps, p, s)

\* The worker reads and clears a word of the frozen page bitmap: what it then
\* holds.
LEMMA TakeWordFacts == ASSUME OpFacts, w \in WorkerType, BitTypes, TakeWord PROVE TookWord
<1>1. CASE snap_dirty_bits = {}
  BY <1>1, Zenon DEF TakeWord, Moved, WorkerType, TookWord
<1>2. CASE snap_dirty_bits # {}
  <2> DEFINE i  == Min({WordOf[p] : p \in snap_dirty_bits})
             ps == {p \in snap_dirty_bits : WordOf[p] = i}
  <2>1. w' = FirstSlot(w, ps) /\ snap_dirty_bits' = snap_dirty_bits \ ps
    BY <1>2, Zenon DEF TakeWord
  <2>2. ps \in SUBSET snap_dirty_bits
    BY Zenon
  <2> HIDE DEF ps
  <2>3. ps \in SUBSET Pages
    BY <2>2, Zenon DEF BitTypes
  <2> QED BY <2>1, <2>2, <2>3, FirstSlotFacts, Zenon DEF TookWord
<1> QED BY <1>1, <1>2, Zenon

\* The worker takes a word: the shape of the state is kept.
LEMMA TakeWordShape == ASSUME OpFacts, Shape, TakeWord PROVE Shape'
<1> USE DEF shardVars, serving, slotVars, activeVars, diskVars
<1>0. /\ w \in WorkerType /\ w.pc = "word" /\ w.epoch # 0
      /\ BitTypes /\ UsedSlots
  BY Zenon DEF Shape, Types, WorkerTypes, TakeWord
<1>1. HeapTypes' /\ JobTypes' /\ EpochTypes'
  BY Zenon DEF Shape, Types, HeapTypes, JobTypes, EpochTypes, TakeWord
<1>2. TookWord
  BY <1>0, TakeWordFacts, Zenon
<1>3. w' \in WorkerType /\ w'.epoch = w.epoch /\ w'.pc \in {"word", "visit", "finish"}
  BY <1>2, Zenon DEF Moved, Entered, NoneEntered, TookWord
<1>4. WorkerTypes'
  BY <1>0, <1>3, Zenon DEF Shape, Types, WorkerTypes, TakeWord
<1>5. BitTypes'
  BY <1>0, <1>2, Zenon DEF BitTypes, TakeWord, TookWord
<1>6. UsedSlots'
  <2>1. /\ w'.pc \in {"visit", "put"} => /\ w'.slot \in snap_slot_bits
                                         /\ PageOf[w'.slot] = w'.page
        /\ w'.pc \in {"visit", "put", "leave"} => \A p \in w'.word : w'.page < p
    BY <1>2, Zenon DEF Moved, Entered, NoneEntered, ModifiedSlots, SlotsOf, TookWord
  <2> QED BY <1>0, <2>1, Zenon DEF UsedSlots, Used, Working, TakeWord
<1>7. WakeOnce' /\ TickWaitsForWorker'
  BY <1>0, <1>3, Zenon DEF Shape, WakeOnce, TickWaitsForWorker, TakeWord
<1> QED BY <1>1, <1>4, <1>5, <1>6, <1>7, Zenon DEF Shape, Types

\* The slot the worker is at belongs to an object.
LEMMA VisitedSlot ==
    ASSUME Shape, w.pc \in {"visit", "put"}
    PROVE  /\ w.slot \in Slots /\ w.slot \in snap_slot_bits
           /\ PageOf[w.slot] = w.page
           /\ obj[w.slot] \in ObjType /\ obj[w.slot].key \in Keys
  BY Zenon DEF Shape, Types, BitTypes, HeapTypes, UsedSlots, Used

\* The worker visits a slot (its exchange on snap_flag): the shape of the
\* state is kept.
LEMMA VisitShape == ASSUME Shape, Visit PROVE Shape'
<1> USE DEF shardVars, serving, frozenVars, activeVars, diskVars
<1>0. /\ w \in WorkerType /\ w.pc = "visit" /\ w.epoch # 0 /\ HeapTypes
      /\ UsedSlots /\ w.slot \in Slots
  BY VisitedSlot, Zenon DEF Shape, Types, WorkerTypes, Visit
<1>1. BitTypes' /\ JobTypes' /\ EpochTypes'
  BY Zenon DEF Shape, Types, BitTypes, JobTypes, EpochTypes, Visit
<1>2. /\ obj' \in [Slots -> ObjType]
      /\ \A s \in Slots : obj'[s].key = obj[s].key
  <2>1. \A f \in Flags : Visited(f) \in Flags
    BY Zenon DEF Visited, Flags
  <2> QED BY <1>0, <2>1, Zenon DEF HeapTypes, ObjType, Visit
<1>3. HeapTypes'
  BY <1>0, <1>2, Zenon DEF HeapTypes, Visit
<1>4. /\ w' \in WorkerType /\ w'.pc = "put" /\ w'.epoch = w.epoch
      /\ w'.word = w.word /\ w'.page = w.page /\ w'.slot = w.slot
  BY <1>0, Zenon DEF WorkerType, Visit
<1>5. WorkerTypes'
  BY <1>0, <1>4, Zenon DEF Shape, Types, WorkerTypes, Visit
<1>6. UsedSlots'
  BY <1>0, <1>2, <1>4 DEF UsedSlots, Used, Working, Visit
<1>7. WakeOnce' /\ TickWaitsForWorker'
  BY <1>0, <1>4, Zenon DEF Shape, WakeOnce, TickWaitsForWorker, Visit
<1> QED BY <1>1, <1>3, <1>5, <1>6, <1>7, Zenon DEF Shape, Types

\* A change of the counter of one slot.
LEMMA CountChanged ==
    ASSUME obj \in [Slots -> ObjType], NEW s \in Slots, NEW n \in 0..RefLimit-1,
           obj' = [obj EXCEPT ![s].refcount = n]
    PROVE  /\ obj' \in [Slots -> ObjType]
           /\ \A t \in Slots : /\ t # s => obj'[t] = obj[t]
                               /\ obj'[t].key = obj[t].key
                               /\ obj'[t].snap_flag = obj[t].snap_flag
                               /\ obj'[t].marked_deletion = obj[t].marked_deletion
           /\ obj'[s].refcount = n
  BY Zenon DEF ObjType

\* A slot marked for deletion.
LEMMA MarkedDeleted ==
    ASSUME obj \in [Slots -> ObjType], NEW s \in Slots,
           obj' = [obj EXCEPT ![s].marked_deletion = TRUE]
    PROVE  /\ obj' \in [Slots -> ObjType]
           /\ \A t \in Slots : /\ t # s => obj'[t] = obj[t]
                               /\ obj'[t].key = obj[t].key
                               /\ obj'[t].snap_flag = obj[t].snap_flag
                               /\ obj'[t].refcount = obj[t].refcount
           /\ obj'[s].marked_deletion
  BY Zenon DEF ObjType

\* A change of the flag of one slot.
LEMMA FlagChanged ==
    ASSUME obj \in [Slots -> ObjType], NEW s \in Slots, NEW f \in Flags,
           obj' = [obj EXCEPT ![s].snap_flag = f]
    PROVE  /\ obj' \in [Slots -> ObjType]
           /\ \A t \in Slots : /\ t # s => obj'[t] = obj[t]
                               /\ obj'[t].key = obj[t].key
                               /\ obj'[t].refcount = obj[t].refcount
                               /\ obj'[t].marked_deletion = obj[t].marked_deletion
           /\ obj'[s].snap_flag = f
  BY Zenon DEF ObjType

\* The worker writes a record: the shape of the state is kept.
LEMMA PutEntryShape == ASSUME OpFacts, Shape, PutEntry PROVE Shape'
<1> USE DEF shardVars, serving, frozenVars, activeVars, diskVars
<1>0. /\ w \in WorkerType /\ w.pc = "put" /\ w.epoch # 0 /\ HeapTypes
      /\ UsedSlots /\ w.slot \in Slots /\ obj[w.slot] \in ObjType
      /\ obj[w.slot].key \in Keys /\ PageOf[w.slot] = w.page
  BY VisitedSlot, Zenon DEF Shape, Types, WorkerTypes, PutEntry
<1>1. BitTypes' /\ JobTypes' /\ EpochTypes'
  BY Zenon DEF Shape, Types, BitTypes, JobTypes, EpochTypes, PutEntry
<1>2. /\ obj' \in [Slots -> ObjType]
      /\ \A s \in Slots : obj'[s].key = obj[s].key
  <2>1. CASE w.deleted
    <3>1. obj[w.slot].refcount \in 0..RefLimit-1
      BY <1>0, Zenon DEF ObjType
    <3>2. Decremented(obj[w.slot].refcount) \in 0..RefLimit-1
      BY <3>1, CountsTyped, Zenon
    <3>3. obj' = [obj EXCEPT ![w.slot].refcount = Decremented(obj[w.slot].refcount)]
      BY <2>1, Zenon DEF PutEntry
    <3> QED BY <1>0, <3>2, <3>3, CountChanged, Zenon DEF HeapTypes
  <2>2. CASE ~w.deleted
    BY <1>0, <2>2, Zenon DEF HeapTypes, PutEntry
  <2> QED BY <2>1, <2>2, Zenon
<1>3. HeapTypes'
  BY <1>0, <1>2, Zenon DEF HeapTypes, PutEntry
<1>4. LET v == w' IN /\ v \in WorkerType /\ v.word = w.word /\ v.page = w.page
                     /\ v.deleted = FALSE /\ v.epoch = w.epoch
                     /\ PageDone(v) \/ NextInPage(v)
  BY <1>0, AfterSlotFacts, Zenon DEF PutEntry, ObjType
<1>5. WorkerTypes'
  BY <1>0, <1>4, Zenon DEF Shape, Types, WorkerTypes, PutEntry, PageDone, NextInPage
<1>6. UsedSlots'
  BY <1>0, <1>2, <1>4, Zenon
     DEF UsedSlots, Used, Working, PutEntry, PageDone, NextInPage, ModifiedSlots, SlotsOf
<1>7. WakeOnce' /\ TickWaitsForWorker'
  BY <1>0, <1>4, Zenon DEF Shape, WakeOnce, TickWaitsForWorker, PutEntry, PageDone, NextInPage
<1> QED BY <1>1, <1>3, <1>5, <1>6, <1>7, Zenon DEF Shape, Types

\* The worker leaves a page and hands over what it freed there: the shape of
\* the state is kept.
LEMMA LeavePageShape == ASSUME OpFacts, Shape, LeavePage PROVE Shape'
<1> USE DEF shardVars, serving, activeVars, diskVars
<1>0. /\ w \in WorkerType /\ w.pc = "leave" /\ w.epoch # 0 /\ HeapTypes
      /\ UsedSlots /\ BitTypes /\ w.word \in SUBSET Pages
  BY Zenon DEF Shape, Types, WorkerTypes, WorkerType, LeavePage
<1>1. BitTypes' /\ JobTypes' /\ EpochTypes'
  BY Zenon DEF Shape, Types, BitTypes, JobTypes, EpochTypes, LeavePage
<1>2. HeapTypes'
  <2>1. w.page \notin LargePages /\ SlotsOf(w.page) \cap snap_freelist # {}
        => w.page \in Pages \ LargePages
    BY Zenon DEF SlotsOf, Pages
  <2> QED BY <1>0, <2>1, Zenon DEF HeapTypes, LeavePage
<1>3. NoneEntered(w', w.word) \/ \E p, s : Entered(w', w.word, p, s)
  BY <1>0, FirstSlotFacts, Zenon DEF LeavePage
<1>4. w' \in WorkerType /\ w'.epoch = w.epoch /\ w'.pc \in {"word", "visit"}
  BY <1>3, Zenon DEF Moved, Entered, NoneEntered
<1>5. WorkerTypes'
  BY <1>0, <1>4, Zenon DEF Shape, Types, WorkerTypes, LeavePage
<1>6. UsedSlots'
  <2>1. \A p \in w.word : w.page < p /\ w.page \in Nat
    BY <1>0, Zenon DEF UsedSlots, Working, WorkerType
  <2>2. CASE NoneEntered(w', w.word)
    BY <1>0, <2>2, Zenon DEF NoneEntered, Moved, UsedSlots, Used, Working, LeavePage
  <2>3. CASE \E p, s : Entered(w', w.word, p, s)
    <3>1. PICK p, s : Entered(w', w.word, p, s)
      BY <2>3, Zenon
    <3>2. p # w.page
      BY <1>0, <2>1, <3>1, Numbers, Zenon DEF Entered
    <3>3. w'.slot \in snap_slot_bits' /\ PageOf[w'.slot] = w'.page
      BY <3>1, <3>2, Zenon DEF Entered, Moved, ModifiedSlots, SlotsOf, LeavePage
    <3>4. \A q \in w'.word : w'.page < q
      BY <3>1, Zenon DEF Entered, Moved
    <3> QED BY <1>0, <3>3, <3>4, Zenon DEF UsedSlots, Used, LeavePage
  <2> QED BY <1>3, <2>2, <2>3, Zenon
<1>7. WakeOnce' /\ TickWaitsForWorker'
  BY <1>0, <1>4, Zenon DEF Shape, WakeOnce, TickWaitsForWorker, LeavePage
<1> QED BY <1>1, <1>2, <1>5, <1>6, <1>7, Zenon DEF Shape, Types

\* A worker that is not at a page.
Resting(v) == v.pc \in {"asleep", "word", "finish", "compact", "unlink"}

\* An entry of a sequence of sequences is replaced.
LEMMA DeltaWritten ==
    ASSUME NEW d \in [1..MaxEpoch -> Seq(Entry)], NEW e, NEW es \in Seq(Entry)
    PROVE  [d EXCEPT ![e] = es] \in [1..MaxEpoch -> Seq(Entry)]
  BY Zenon

\* A worker that waits for its eventfd has no word left.
LEMMA AsleepTyped ==
    Asleep \in WorkerType /\ Asleep.pc = "asleep" /\ Asleep.word = {}
<1>1. << >> \in Seq(Entry)
  OBVIOUS
<1> HIDE DEF Entry
<1> QED BY <1>1, Numbers DEF Asleep, WorkerType

\* The worker completes its delta: the shape of the state is kept.
LEMMA FinishShape == ASSUME Shape, Finish PROVE Shape'
<1> USE DEF shardVars, serving, slotVars, frozenVars, activeVars
<1>0. w \in WorkerType /\ w.pc = "finish" /\ w.epoch # 0 /\ w.ents \in Seq(Entry)
  BY Zenon DEF Shape, Types, WorkerTypes, WorkerType, Finish
<1>1. HeapTypes' /\ BitTypes' /\ JobTypes'
  BY Zenon DEF Shape, Types, HeapTypes, BitTypes, JobTypes, Finish
<1>2. EpochTypes'
  BY Zenon DEF Shape, Types, EpochTypes, Finish
<1>3. w' \in WorkerType /\ w'.pc = "compact" /\ w'.epoch = w.epoch
  <2>1. << >> \in Seq(Entry)
    OBVIOUS
  <2> HIDE DEF Entry
  <2> QED BY <1>0, <2>1, Zenon DEF WorkerType, Finish
<1>4. WorkerTypes'
  BY <1>0, <1>3, DeltaWritten, Zenon DEF Shape, Types, WorkerTypes, Finish
<1>5. UsedSlots'
  BY <1>3, Zenon DEF Shape, UsedSlots, Used, Working, Finish
<1>6. WakeOnce' /\ TickWaitsForWorker'
  BY <1>0, <1>3, Zenon DEF Shape, WakeOnce, TickWaitsForWorker, Finish
<1> QED BY <1>1, <1>2, <1>4, <1>5, <1>6, Zenon DEF Shape, Types

\* Compaction replaces the base file: the shape of the state is kept.
LEMMA RenameShape == ASSUME OpFacts, Shape, Rename PROVE Shape'
<1> USE DEF serving, slotVars, frozenVars, activeVars
<1>0. /\ w \in WorkerType /\ w.pc = "compact" /\ w.epoch \in 1..MaxEpoch
      /\ base.ents \in Seq(Entry) /\ deltas[w.epoch] \in Seq(Entry)
  BY DEF Shape, Types, WorkerTypes, WorkerType, Rename
<1>1. HeapTypes' /\ BitTypes' /\ JobTypes' /\ EpochTypes'
  BY Zenon DEF Shape, Types, HeapTypes, BitTypes, JobTypes, EpochTypes, Rename
<1>2. w' \in WorkerType /\ w'.pc = "unlink" /\ w'.epoch = w.epoch
  BY <1>0, Zenon DEF WorkerType, Rename
<1>3. base' \in [epoch : 0..MaxEpoch, ents : Seq(Entry)]
  <2> DEFINE es == Compacted(base, deltas[w.epoch])
  <2>1. es \in Seq(Entry)
    <3>1. deltas[w.epoch] \o base.ents \in Seq(Entry)
      BY <1>0
    <3> QED BY <3>1, Zenon DEF Compacted, OpFacts
  <2>2. base' = [epoch |-> w.epoch, ents |-> es]
    BY Zenon DEF Rename
  <2> HIDE DEF es, Entry
  <2> QED BY <1>0, <2>1, <2>2, Numbers
<1>4. WorkerTypes'
  BY <1>0, <1>2, <1>3, Zenon DEF Shape, Types, WorkerTypes, Rename
<1>5. UsedSlots'
  BY <1>2, Zenon DEF Shape, UsedSlots, Used, Working, Rename
<1>6. WakeOnce' /\ TickWaitsForWorker'
  BY <1>0, <1>2, Zenon DEF Shape, WakeOnce, TickWaitsForWorker, Rename
<1> QED BY <1>1, <1>4, <1>5, <1>6, Zenon DEF Shape, Types

\* Compaction removes the delta it merged: the shape of the state is kept.
LEMMA UnlinkDeltaShape == ASSUME Shape, UnlinkDelta PROVE Shape'
<1> USE DEF shardVars, serving, slotVars, frozenVars, activeVars
<1>1. HeapTypes' /\ BitTypes' /\ JobTypes' /\ EpochTypes'
  BY Zenon DEF Shape, Types, HeapTypes, BitTypes, JobTypes, EpochTypes, UnlinkDelta
<1>2. w' \in WorkerType /\ w'.pc = "asleep"
  BY AsleepTyped, Zenon DEF UnlinkDelta
<1>3. WorkerTypes'
  <2>1. << >> \in Seq(Entry)
    OBVIOUS
  <2> QED BY <1>2, <2>1, DeltaWritten, Zenon DEF Shape, Types, WorkerTypes, UnlinkDelta
<1>4. UsedSlots'
  BY <1>2, Zenon DEF Shape, UsedSlots, Used, Working, UnlinkDelta
<1>5. WakeOnce' /\ TickWaitsForWorker'
  BY <1>2, Zenon DEF Shape, WakeOnce, TickWaitsForWorker, UnlinkDelta
<1> QED BY <1>1, <1>3, <1>4, <1>5, Zenon DEF Shape, Types

\* A failure is recorded in bad, which stays below Never from then on.
LEMMA BadMin ==
    ASSUME OpFacts, bad \in 0..Never, NEW e \in 0..MaxEpoch, bad' = Min({bad, e})
    PROVE  bad' \in 0..Never /\ bad' # Never
<1>1. {bad, e} \in SUBSET Nat /\ {bad, e} # {}
  BY Numbers
<1>2. Min({bad, e}) \in {bad, e} /\ \A x \in {bad, e} : Min({bad, e}) <= x
  BY <1>1, MinNat, Zenon
<1> QED BY <1>2, Numbers

\* The worker gives up an epoch; the shape is kept, and the failure is noted.
LEMMA EpochFailsShape == ASSUME OpFacts, Shape, EpochFails PROVE Shape' /\ bad' # Never
<1> USE DEF shardVars, serving, slotVars, frozenVars, activeVars
<1>0. w.epoch \in 0..MaxEpoch /\ bad \in 0..Never /\ w.ents \in Seq(Entry)
  BY Zenon DEF Shape, Types, WorkerTypes, WorkerType, EpochTypes
<1>1. HeapTypes' /\ BitTypes' /\ JobTypes'
  BY Zenon DEF Shape, Types, HeapTypes, BitTypes, JobTypes, EpochFails
<1>2. bad' \in 0..Never /\ bad' # Never
  BY <1>0, BadMin, Zenon DEF EpochFails
<1>3. EpochTypes'
  BY <1>2, Zenon DEF Shape, Types, EpochTypes, EpochFails
<1>4. w' \in WorkerType /\ w'.pc = "asleep"
  BY AsleepTyped, Zenon DEF EpochFails
<1>5. WorkerTypes'
  <2>1. << >> \in Seq(Entry)
    OBVIOUS
  <2> QED BY <1>0, <1>4, <2>1, DeltaWritten DEF Shape, Types, WorkerTypes, EpochFails
<1>6. UsedSlots'
  BY <1>4, Zenon DEF Shape, UsedSlots, Used, Working, EpochFails
<1>7. WakeOnce' /\ TickWaitsForWorker'
  BY <1>4, Zenon DEF Shape, WakeOnce, TickWaitsForWorker, EpochFails
<1> QED BY <1>1, <1>2, <1>3, <1>5, <1>6, <1>7, Zenon DEF Shape, Types

\* Compaction fails; the shape is kept, and the failure is noted.
LEMMA CompactFailsShape == ASSUME OpFacts, Shape, CompactFails PROVE Shape' /\ bad' # Never
<1> USE DEF shardVars, serving, slotVars, frozenVars, activeVars, diskVars
<1>0. w.epoch \in 0..MaxEpoch /\ bad \in 0..Never
  BY Zenon DEF Shape, Types, WorkerTypes, WorkerType, EpochTypes
<1>1. HeapTypes' /\ BitTypes' /\ JobTypes'
  BY Zenon DEF Shape, Types, HeapTypes, BitTypes, JobTypes, CompactFails
<1>2. bad' \in 0..Never /\ bad' # Never
  BY <1>0, BadMin, Zenon DEF CompactFails
<1>3. EpochTypes'
  BY <1>2, Zenon DEF Shape, Types, EpochTypes, CompactFails
<1>4. w' \in WorkerType /\ w'.pc = "asleep"
  BY AsleepTyped, Zenon DEF CompactFails
<1>5. WorkerTypes'
  BY <1>4, Zenon DEF Shape, Types, WorkerTypes, CompactFails
<1>6. UsedSlots'
  BY <1>4, Zenon DEF Shape, UsedSlots, Used, Working, CompactFails
<1>7. WakeOnce' /\ TickWaitsForWorker'
  BY <1>4, Zenon DEF Shape, WakeOnce, TickWaitsForWorker, CompactFails
<1> QED BY <1>1, <1>2, <1>3, <1>5, <1>6, <1>7, Zenon DEF Shape, Types

---------------------------------------------------------------------------
(* So do a restart and the steps of the shard.                             *)

\* A heap without objects, all together.
LEMMA FreshAll ==
    Fresh => Refs /\ HeapTypes /\ BitTypes /\ UsedSlots /\ WakeOnce
                  /\ TickWaitsForWorker
  BY FreshShape, FreshRefs, Zenon

\* The same of the state after a crash.
LEMMA FreshNext ==
    Fresh' => Refs' /\ HeapTypes' /\ BitTypes' /\ UsedSlots' /\ WakeOnce'
                    /\ TickWaitsForWorker'
  BY FreshAll, PTL

\* After a crash memory is empty; the entries to set again are those of the
\* files.
LEMMA RestartIInv == ASSUME OpFacts, Shape, Restart PROVE Shape' /\ Refs'
<1>1. Fresh'
  BY Zenon DEF Restart, Empty, Fresh
<1>2. job' = Idle /\ w' = Asleep /\ deltas' = deltas /\ base' = base
  BY Zenon DEF Restart, Empty, diskVars
<1>3. JobTypes'
  <2>1. base.ents \in Seq(Entry) /\ deltas \in [1..MaxEpoch -> Seq(Entry)]
    BY Zenon DEF Shape, Types, WorkerTypes
  <2>2. deltas \in Seq(Seq(Entry))
    BY <2>1, Numbers
  <2>3. EntriesRead(base, deltas) \in Seq(Entry)
    BY <2>1, <2>2, Zenon DEF OpFacts
  <2>4. replay' \in Seq(Entry)
    BY <2>3, Zenon DEF Restart, OpFacts
  <2> QED BY <1>2, <2>4, Zenon DEF JobTypes, Idle
<1>4. EpochTypes'
  <2>1. /\ is_snapshotting' = FALSE /\ current_epoch' = 0 /\ snap_eventfd' = FALSE
        /\ writes' = writes /\ ticks' = ticks /\ bad' = bad
    BY Zenon DEF Restart, Empty
  <2>2. /\ ticks \in 0..MaxEpoch /\ writes \in 0..MaxWrites /\ bad \in 0..Never
    BY Zenon DEF Shape, Types, EpochTypes
  <2>3. 0 \in 0..MaxEpoch /\ current_epoch' <= ticks
    BY <2>1, <2>2, Numbers
  <2> QED BY <2>1, <2>2, <2>3, Zenon DEF EpochTypes
<1>5. WorkerTypes'
  BY <1>2, AsleepTyped, Zenon DEF Shape, Types, WorkerTypes
<1> QED BY <1>1, <1>3, <1>4, <1>5, FreshNext, Zenon DEF Shape, Types

\* What a set and a deletion mark.
LEMMA MarkTyped ==
    ASSUME BitTypes, UsedSlots, NEW S \in SUBSET Slots, Mark(S),
           snap_dirty_bits' = snap_dirty_bits, snap_slot_bits' = snap_slot_bits
    PROVE  BitTypes'
  BY Zenon DEF BitTypes, Mark, Pages

\* shard_obj_destroy starts: the slot it is to drop, and whether the worker
\* is expected to visit it.
LEMMA BeginDestroyFacts ==
    ASSUME OpFacts, bad \in 0..Never, current_epoch \in 0..MaxEpoch,
           NEW s \in Slots \cup {NoSlot}, BeginDestroy(s)
    PROVE  /\ job' \in [pc : {"idle", "flag", "unref"}, slot : Slots \cup {NoSlot},
                        visit : BOOLEAN]
           /\ job'.pc = "idle" <=> job'.slot = NoSlot
           /\ bad' \in 0..Never
           /\ job'.slot = s
           /\ s \in Slots => job'.pc = "flag" /\ job'.visit = SnapWillVisit(s)
           /\ bad' = Never => bad = Never /\ (s \in Slots => ~Overtaken(s))
<1>1. CASE s = NoSlot
  <2>1. job' = Idle /\ bad' = bad /\ s \notin Slots
    BY <1>1, Numbers, Zenon DEF BeginDestroy
  <2>2. /\ Idle \in [pc : {"idle", "flag", "unref"}, slot : Slots \cup {NoSlot},
                     visit : BOOLEAN]
        /\ Idle.pc = "idle" /\ Idle.slot = NoSlot
    BY Zenon DEF Idle
  <2> QED BY <1>1, <2>1, <2>2, Zenon
<1>2. CASE s # NoSlot
  <2>1. SnapWillVisit(s) \in BOOLEAN
    BY Zenon DEF SnapWillVisit
  <2>2. job' = [pc |-> "flag", slot |-> s, visit |-> SnapWillVisit(s)]
    BY <1>2, Zenon DEF BeginDestroy
  <2>3. CASE Overtaken(s)
    <3>1. bad' = Min({bad, current_epoch})
      BY <1>2, <2>3, Zenon DEF BeginDestroy
    <3> QED BY <1>2, <2>1, <2>2, <3>1, BadMin, Zenon
  <2>4. CASE ~Overtaken(s)
    <3>1. bad' = bad
      BY <1>2, <2>4, Zenon DEF BeginDestroy
    <3> QED BY <1>2, <2>1, <2>2, <2>4, <3>1, Zenon
  <2> QED BY <2>3, <2>4, Zenon
<1> QED BY <1>1, <1>2, Zenon

\* The heap after a slot was allocated.
LEMMA AllocTyped ==
    ASSUME HeapTypes, NEW s \in Slots, Alloc(s)
    PROVE  /\ free' \in SUBSET Slots /\ snap_freelist' \in SUBSET Slots
           /\ to_merge' \in SUBSET (Pages \ LargePages)
  BY Zenon DEF HeapTypes, Alloc, Merged

\* shard_key_set, for the objects and the table.
LEMMA PutObj ==
    ASSUME HeapTypes, NEW k \in Keys, NEW v \in 0..MaxWrites, NEW s \in Slots,
           Put(k, v, s)
    PROVE  /\ obj' \in [Slots -> ObjType] /\ table' \in [Keys -> Slots \cup {NoSlot}]
           /\ \A t \in Slots : obj[t].key \in Keys => obj'[t].key \in Keys
           /\ obj'[s].key = k /\ obj'[s].refcount = 2 /\ obj'[s].snap_flag = "LIVE_FRESH"
           /\ \A t \in Slots \ {s} :
                /\ obj'[t].refcount = obj[t].refcount
                /\ obj'[t].snap_flag = obj[t].snap_flag
                /\ obj'[t].key = obj[t].key
                /\ t = table[k] => obj'[t].marked_deletion
                /\ t # table[k] => obj'[t] = obj[t]
<1> DEFINE new == [key |-> k, val |-> v, refcount |-> 2,
                   snap_flag |-> "LIVE_FRESH", marked_deletion |-> FALSE]
           mid == [obj EXCEPT ![s] = new]
<1>1. new \in ObjType /\ new.key = k /\ new.refcount = 2 /\ new.snap_flag = "LIVE_FRESH"
  <2>1. 2 \in 0..RefLimit-1
    BY WidthTyped
  <2> QED BY <2>1, Zenon DEF ObjType, Flags
<1>2. obj' = [mid EXCEPT ![table[k]].marked_deletion = TRUE]
  BY Zenon DEF Put
<1> HIDE DEF new
<1>3. mid \in [Slots -> ObjType] /\ mid[s] = new /\ \A t \in Slots \ {s} : mid[t] = obj[t]
  BY <1>1, Zenon DEF HeapTypes
<1> HIDE DEF mid
<1>4. /\ obj' \in [Slots -> ObjType]
      /\ \A t \in Slots : /\ obj'[t].refcount = mid[t].refcount
                          /\ obj'[t].snap_flag = mid[t].snap_flag
                          /\ obj'[t].key = mid[t].key
                          /\ t = table[k] => obj'[t].marked_deletion
                          /\ t # table[k] => obj'[t] = mid[t]
  <2> HIDE DEF Flags
  <2> QED BY <1>2, <1>3 DEF ObjType
<1>5. table' \in [Keys -> Slots \cup {NoSlot}]
  BY Zenon DEF HeapTypes, Put
<1> QED BY <1>1, <1>3, <1>4, <1>5, Zenon

\* shard_key_set: all of the shape but the files.
LEMMA PutShape ==
    ASSUME OpFacts, Shape, NEW k \in Keys, NEW v \in 0..MaxWrites, NEW s \in Slots,
           Put(k, v, s)
    PROVE  /\ HeapTypes' /\ BitTypes' /\ WorkerTypes' /\ UsedSlots' /\ WakeOnce'
           /\ TickWaitsForWorker' /\ bad' \in 0..Never
           /\ job' \in [pc : {"idle", "flag", "unref"}, slot : Slots \cup {NoSlot},
                        visit : BOOLEAN]
           /\ job'.pc = "idle" <=> job'.slot = NoSlot
<1> USE DEF frozenVars, tickVars, diskVars
<1>0. HeapTypes /\ BitTypes /\ UsedSlots /\ table[k] \in Slots \cup {NoSlot}
      /\ {s} \cup ({table[k]} \ {NoSlot}) \in SUBSET Slots
      /\ bad \in 0..Never /\ current_epoch \in 0..MaxEpoch
  BY Zenon DEF Shape, Types, HeapTypes, EpochTypes
<1>1. HeapTypes'
  BY <1>0, AllocTyped, PutObj, Zenon DEF HeapTypes, Put
<1>2. BitTypes'
  BY <1>0, MarkTyped, Zenon DEF Put
<1>3. WorkerTypes'
  BY Zenon DEF Shape, Types, WorkerTypes, Put
<1>4. UsedSlots'
  <2>1. \A t \in Slots : obj[t].key \in Keys => obj'[t].key \in Keys
    BY <1>0, PutObj, Zenon
  <2>2. obj'[s].key \in Keys
    BY <1>0, PutObj
  <2>3. table[k] # NoSlot => obj'[table[k]].key \in Keys
    BY <1>0, <2>1, Zenon DEF UsedSlots, Used
  <2>4. slot_bits' \subseteq Used' /\ snap_slot_bits' \subseteq Used'
    BY <1>0, <2>1, <2>2, <2>3, Zenon DEF UsedSlots, Used, Mark, Put
  <2>5. \A j \in Keys : table'[j] # NoSlot => table'[j] \in Used'
    BY <1>0, <2>1, <2>2, Zenon DEF UsedSlots, Used, HeapTypes, Put
  <2> QED BY <1>0, <2>4, <2>5, Zenon DEF UsedSlots, Working, Put
<1>5. WakeOnce' /\ TickWaitsForWorker'
  BY Zenon DEF Shape, WakeOnce, TickWaitsForWorker, Put
<1>6. BeginDestroy(table[k])
  BY Zenon DEF Put
<1> QED BY <1>0, <1>1, <1>2, <1>3, <1>4, <1>5, <1>6, BeginDestroyFacts, Zenon

\* A SET keeps the shape of the state.
LEMMA SetShape ==
    ASSUME OpFacts, Shape, NEW k \in Keys, NEW s \in Slots, Set(k, s)
    PROVE  Shape'
<1>1. writes + 1 \in 0..MaxWrites /\ writes' \in 0..MaxWrites /\ Put(k, writes + 1, s)
  BY Numbers DEF Shape, Types, EpochTypes, Set
<1>2. JobTypes' /\ bad' \in 0..Never
  BY <1>1, PutShape, Zenon DEF Shape, Types, JobTypes, Set
<1>3. EpochTypes'
  BY <1>1, <1>2, Zenon DEF Shape, Types, EpochTypes, Put, tickVars
<1> QED BY <1>1, <1>2, <1>3, PutShape, Zenon DEF Shape, Types

\* Restoring a record after a crash keeps the shape of the state.
LEMMA ReplayShape ==
    ASSUME OpFacts, Shape, NEW s \in Slots, Replay(s)
    PROVE  Shape'
<1> DEFINE e == Head(replay)
<1>1. replay \in Seq(Entry) /\ replay # << >>
  BY Zenon DEF Shape, Types, JobTypes, Replay
<1>2. e \in Entry /\ Tail(replay) \in Seq(Entry)
  <2> HIDE DEF Entry
  <2> QED BY <1>1
<1>3. e.key \in Keys /\ e.val \in 0..MaxWrites
  <2> HIDE DEF e
  <2> QED BY <1>2, Zenon DEF Entry
<1>4. Put(e.key, e.val, s) /\ replay' = Tail(replay) /\ writes' = writes
  BY Zenon DEF Replay
<1> HIDE DEF e
<1>5. JobTypes' /\ bad' \in 0..Never
  BY <1>2, <1>3, <1>4, PutShape, Zenon DEF JobTypes
<1>6. EpochTypes'
  BY <1>4, <1>5, Zenon DEF Shape, Types, EpochTypes, Put, tickVars
<1> QED BY <1>3, <1>4, <1>5, <1>6, PutShape, Zenon DEF Shape, Types

\* A DEL, for the objects and the table.
LEMMA DeleteObj ==
    ASSUME HeapTypes, NEW k \in Keys, Delete(k)
    PROVE  /\ table[k] \in Slots
           /\ obj' \in [Slots -> ObjType] /\ table' \in [Keys -> Slots \cup {NoSlot}]
           /\ \A t \in Slots : /\ obj'[t].refcount = obj[t].refcount
                               /\ obj'[t].snap_flag = obj[t].snap_flag
                               /\ obj'[t].key = obj[t].key
                               /\ t = table[k] => obj'[t].marked_deletion
                               /\ t # table[k] => obj'[t] = obj[t]
<1>1. table[k] \in Slots /\ table' \in [Keys -> Slots \cup {NoSlot}]
  BY Zenon DEF HeapTypes, Delete
<1>2. /\ obj \in [Slots -> ObjType]
      /\ obj' = [obj EXCEPT ![table[k]].marked_deletion = TRUE]
  BY Zenon DEF HeapTypes, Delete
<1> QED BY <1>1, <1>2, MarkedDeleted, Zenon

\* A DEL keeps the shape of the state.
LEMMA DeleteShape ==
    ASSUME OpFacts, Shape, NEW k \in Keys, Delete(k)
    PROVE  Shape'
<1> USE DEF frozenVars, tickVars, diskVars
<1>0. HeapTypes /\ BitTypes /\ UsedSlots /\ table[k] \in Slots
      /\ bad \in 0..Never /\ current_epoch \in 0..MaxEpoch
  BY DeleteObj, Zenon DEF Shape, Types, EpochTypes
<1>1. HeapTypes'
  BY <1>0, DeleteObj, Zenon DEF HeapTypes, Delete
<1>2. BitTypes'
  BY <1>0, MarkTyped, Zenon DEF Delete
<1>3. WorkerTypes'
  BY Zenon DEF Shape, Types, WorkerTypes, Delete
<1>4. UsedSlots'
  <2>1. \A t \in Slots : obj'[t].key = obj[t].key
    BY <1>0, DeleteObj, Zenon
  <2>2. Used' = Used /\ table[k] \in Used
    BY <1>0, <2>1, Zenon DEF Used, UsedSlots, Delete
  <2>3. \A j \in Keys : table'[j] # NoSlot => table'[j] \in Used
    BY <1>0, Zenon DEF UsedSlots, HeapTypes, Delete
  <2> QED BY <1>0, <2>2, <2>3, Zenon DEF UsedSlots, Working, Mark, Delete
<1>5. WakeOnce' /\ TickWaitsForWorker'
  BY Zenon DEF Shape, WakeOnce, TickWaitsForWorker, Delete
<1>6. BeginDestroy(table[k])
  BY Zenon DEF Delete
<1>7. JobTypes' /\ bad' \in 0..Never
  BY <1>0, <1>6, BeginDestroyFacts, Zenon DEF Shape, Types, JobTypes, Delete
<1>8. EpochTypes'
  BY <1>7, Zenon DEF Shape, Types, EpochTypes, Delete
<1> QED BY <1>1, <1>2, <1>3, <1>4, <1>5, <1>7, <1>8, Zenon DEF Shape, Types

\* The flag with which an object enters its destruction.
LEMMA DestroyFlagObj ==
    ASSUME obj \in [Slots -> ObjType], job.slot \in Slots, DestroyFlag
    PROVE  \E f \in Flags :
              /\ f = IF job.visit /\ obj[job.slot].snap_flag = "LIVE_FRESH"
                     THEN "DEAD_PENDING" ELSE "DEAD_SAFE"
              /\ obj' = [obj EXCEPT ![job.slot].snap_flag = f]
<1> DEFINE f == IF job.visit /\ obj[job.slot].snap_flag = "LIVE_FRESH"
                THEN "DEAD_PENDING" ELSE "DEAD_SAFE"
<1>1. f \in Flags
  BY Zenon DEF Flags
<1>2. obj' = [obj EXCEPT ![job.slot].snap_flag = f]
  BY Zenon DEF DestroyFlag
<1> QED BY <1>1, <1>2, Zenon

\* shard_obj_destroy, its exchange on snap_flag: the shape is kept.
LEMMA DestroyFlagShape == ASSUME Shape, DestroyFlag PROVE Shape'
<1> USE DEF activeVars, frozenVars, tickVars, diskVars, auxVars
<1>0. HeapTypes /\ UsedSlots
  BY Zenon DEF Shape, Types
<1>1. /\ obj' \in [Slots -> ObjType]
      /\ \A s \in Slots : obj'[s].key = obj[s].key
  <2>1. obj \in [Slots -> ObjType] /\ job.slot \in Slots
    BY <1>0, Zenon DEF Shape, Types, JobTypes, HeapTypes, DestroyFlag
  <2>2. PICK f \in Flags : obj' = [obj EXCEPT ![job.slot].snap_flag = f]
    BY <2>1, DestroyFlagObj, Zenon
  <2> QED BY <2>1, <2>2, FlagChanged, Zenon
<1>2. HeapTypes'
  BY <1>0, <1>1, Zenon DEF HeapTypes, DestroyFlag
<1>3. BitTypes' /\ EpochTypes' /\ WorkerTypes'
  BY Zenon DEF Shape, Types, BitTypes, EpochTypes, WorkerTypes, DestroyFlag
<1>4. JobTypes'
  BY Zenon DEF Shape, Types, JobTypes, DestroyFlag
<1>5. UsedSlots'
  <2>1. Used' = Used
    BY <1>1, Zenon DEF Used
  <2> QED BY <1>0, <2>1, Zenon DEF UsedSlots, Working, DestroyFlag
<1>6. WakeOnce' /\ TickWaitsForWorker'
  BY Zenon DEF Shape, WakeOnce, TickWaitsForWorker, DestroyFlag
<1> QED BY <1>2, <1>3, <1>4, <1>5, <1>6, Zenon DEF Shape, Types

\* shard_obj_unref: the counter and perhaps the free list.
LEMMA UnrefFacts ==
    ASSUME HeapTypes, NEW s \in Slots, Unref(s)
    PROVE  /\ obj' \in [Slots -> ObjType] /\ free' \in SUBSET Slots
           /\ obj' = [obj EXCEPT ![s].refcount = Decremented(obj[s].refcount)]
           /\ \A t \in Slots : /\ t # s => obj'[t] = obj[t]
                               /\ obj'[t].key = obj[t].key
                               /\ obj'[t].snap_flag = obj[t].snap_flag
                               /\ obj'[t].marked_deletion = obj[t].marked_deletion
           /\ obj[s].refcount > 0 => obj'[s].refcount = obj[s].refcount - 1
<1>1. obj \in [Slots -> ObjType] /\ obj[s].refcount \in 0..RefLimit-1
  BY Zenon DEF HeapTypes, ObjType
<1>2. /\ Decremented(obj[s].refcount) \in 0..RefLimit-1
      /\ obj[s].refcount > 0 => Decremented(obj[s].refcount) = obj[s].refcount - 1
  BY <1>1, CountsTyped, Zenon
<1>3. obj' = [obj EXCEPT ![s].refcount = Decremented(obj[s].refcount)]
  BY Zenon DEF Unref
<1>4. free' \in SUBSET Slots
  BY Zenon DEF Unref, HeapTypes
<1> QED BY <1>1, <1>2, <1>3, <1>4, CountChanged, Zenon

\* shard_obj_destroy drops its reference: the shape is kept.
LEMMA DestroyUnrefShape == ASSUME Shape, DestroyUnref PROVE Shape'
<1> USE DEF activeVars, frozenVars, tickVars, diskVars, auxVars
<1>0. HeapTypes /\ UsedSlots /\ job.slot \in Slots
  BY Zenon DEF Shape, Types, JobTypes, DestroyUnref
<1>1. /\ obj' \in [Slots -> ObjType] /\ free' \in SUBSET Slots
      /\ \A s \in Slots : obj'[s].key = obj[s].key
  BY <1>0, UnrefFacts, Zenon DEF DestroyUnref
<1>2. HeapTypes'
  BY <1>0, <1>1, Zenon DEF HeapTypes, DestroyUnref
<1>3. BitTypes' /\ EpochTypes' /\ WorkerTypes'
  BY Zenon DEF Shape, Types, BitTypes, EpochTypes, WorkerTypes, DestroyUnref
<1>4. JobTypes'
  BY Zenon DEF Shape, Types, JobTypes, DestroyUnref, Idle
<1>5. UsedSlots'
  <2>1. Used' = Used
    BY <1>1, Zenon DEF Used
  <2> QED BY <1>0, <2>1, Zenon DEF UsedSlots, Working, DestroyUnref
<1>6. WakeOnce' /\ TickWaitsForWorker'
  BY Zenon DEF Shape, WakeOnce, TickWaitsForWorker, DestroyUnref
<1> QED BY <1>2, <1>3, <1>4, <1>5, <1>6, Zenon DEF Shape, Types

\* A reference lent to another shard comes back: the shape is kept.
LEMMA ReleaseShape ==
    ASSUME Shape, NEW s \in Slots, Release(s)
    PROVE  Shape'
<1> USE DEF activeVars, frozenVars, tickVars, diskVars, auxVars
<1>0. HeapTypes /\ UsedSlots
  BY Zenon DEF Shape, Types
<1>1. /\ obj' \in [Slots -> ObjType] /\ free' \in SUBSET Slots
      /\ \A t \in Slots : obj'[t].key = obj[t].key
  BY <1>0, UnrefFacts, Zenon DEF Release
<1>2. HeapTypes'
  BY <1>0, <1>1, Zenon DEF HeapTypes, Release
<1>3. BitTypes' /\ EpochTypes' /\ WorkerTypes' /\ JobTypes'
  BY Zenon DEF Shape, Types, BitTypes, EpochTypes, WorkerTypes, JobTypes, Release
<1>5. UsedSlots'
  <2>1. Used' = Used
    BY <1>1, Zenon DEF Used
  <2> QED BY <1>0, <2>1, Zenon DEF UsedSlots, Working, Release
<1>6. WakeOnce' /\ TickWaitsForWorker'
  BY Zenon DEF Shape, WakeOnce, TickWaitsForWorker, Release
<1> QED BY <1>2, <1>3, <1>5, <1>6, Zenon DEF Shape, Types

\* A GET from another shard takes a reference to the object of a key.
LEMMA LendObj ==
    ASSUME HeapTypes, NEW k \in Keys, Lend(k)
    PROVE  /\ table[k] \in Slots /\ obj' \in [Slots -> ObjType]
           /\ \A t \in Slots : /\ t # table[k] => obj'[t] = obj[t]
                               /\ obj'[t].key = obj[t].key
                               /\ obj'[t].snap_flag = obj[t].snap_flag
                               /\ obj'[t].marked_deletion = obj[t].marked_deletion
           /\ obj[table[k]].refcount < 10 =>
                obj'[table[k]].refcount = obj[table[k]].refcount + 1
<1> DEFINE s == table[k]
<1>0. s \in Slots
  BY Zenon DEF HeapTypes, Lend
<1>1. obj \in [Slots -> ObjType] /\ obj[s].refcount \in 0..RefLimit-1
  BY <1>0, Zenon DEF HeapTypes, ObjType
<1>2. /\ Incremented(obj[s].refcount) \in 0..RefLimit-1
      /\ obj[s].refcount < 10 => Incremented(obj[s].refcount) = obj[s].refcount + 1
  BY <1>1, CountsTyped, Zenon
<1>3. obj' = [obj EXCEPT ![s].refcount = Incremented(obj[s].refcount)]
  BY Zenon DEF Lend
<1> HIDE DEF s
<1>4. /\ obj' \in [Slots -> ObjType]
      /\ \A t \in Slots : /\ t # s => obj'[t] = obj[t]
                          /\ obj'[t].key = obj[t].key
                          /\ obj'[t].snap_flag = obj[t].snap_flag
                          /\ obj'[t].marked_deletion = obj[t].marked_deletion
      /\ obj'[s].refcount = Incremented(obj[s].refcount)
  BY <1>0, <1>1, <1>2, <1>3, CountChanged, Zenon
<1> QED BY <1>0, <1>2, <1>4, Zenon DEF s

\* Lending a reference keeps the shape of the state.
LEMMA LendShape ==
    ASSUME Shape, NEW k \in Keys, Lend(k)
    PROVE  Shape'
<1> USE DEF activeVars, frozenVars, tickVars, diskVars, auxVars
<1>0. HeapTypes /\ UsedSlots
  BY Zenon DEF Shape, Types
<1>1. /\ table[k] \in Slots /\ obj' \in [Slots -> ObjType]
      /\ \A t \in Slots : obj'[t].key = obj[t].key
  BY <1>0, LendObj, Zenon
<1>2. HeapTypes'
  BY <1>0, <1>1, Zenon DEF HeapTypes, Lend
<1>3. BitTypes' /\ EpochTypes' /\ WorkerTypes' /\ JobTypes'
  BY Zenon DEF Shape, Types, BitTypes, EpochTypes, WorkerTypes, JobTypes, Lend
<1>5. UsedSlots'
  <2>1. Used' = Used
    BY <1>1, Zenon DEF Used
  <2> QED BY <1>0, <2>1, Zenon DEF UsedSlots, Working, Lend
<1>6. WakeOnce' /\ TickWaitsForWorker'
  BY Zenon DEF Shape, WakeOnce, TickWaitsForWorker, Lend
<1> QED BY <1>2, <1>3, <1>5, <1>6, Zenon DEF Shape, Types

\* snap_engine_tick keeps the shape of the state.
LEMMA TickShape == ASSUME Shape, Tick PROVE Shape'
<1> USE DEF diskVars
<1>0. HeapTypes /\ UsedSlots
  BY Zenon DEF Shape, Types
<1>1. HeapTypes'
  BY <1>0, Zenon DEF HeapTypes, Merged, Tick
<1>2. BitTypes' /\ WorkerTypes' /\ JobTypes'
  BY Zenon DEF Shape, Types, BitTypes, WorkerTypes, JobTypes, Tick
<1>3. EpochTypes'
  <2>1. /\ current_epoch \in 0..MaxEpoch /\ ticks \in 0..MaxEpoch /\ current_epoch <= ticks
        /\ ticks < MaxEpoch /\ ticks' = ticks + 1 /\ current_epoch' = current_epoch + 1
    BY Zenon DEF Shape, Types, EpochTypes, Tick
  <2>2. /\ current_epoch' \in 0..MaxEpoch /\ ticks' \in 0..MaxEpoch
        /\ current_epoch' <= ticks' /\ current_epoch' # 0
    BY <2>1, Numbers
  <2> QED BY <2>2, Zenon DEF Shape, Types, EpochTypes, Tick
<1>4. UsedSlots'
  <2>1. w.pc \in {"asleep", "compact", "unlink"} /\ w' = w
    BY Zenon DEF Shape, TickWaitsForWorker, Tick
  <2> QED BY <1>0, <2>1, Zenon DEF UsedSlots, Used, Working, Tick
<1>5. WakeOnce' /\ TickWaitsForWorker'
  BY Zenon DEF Shape, Types, EpochTypes, WorkerTypes, WorkerType, WakeOnce,
         TickWaitsForWorker, Tick
<1> QED BY <1>1, <1>2, <1>3, <1>4, <1>5, Zenon DEF Shape, Types


---------------------------------------------------------------------------
(* The references: a step touches one slot, or two, and leaves the others  *)
(* alone.                                                                  *)

\* A step that leaves a slot alone: its object, who refers to it, and where
\* the bitmaps say it is.
Alone(s) ==
    /\ obj'[s] = obj[s]
    /\ InTable(s)' <=> InTable(s)
    /\ job'.slot = s <=> job.slot = s
    /\ job.slot = s => job' = job
    /\ Marked(s)' <=> Marked(s)
    /\ Coming(s)' <=> Coming(s)
    /\ Dropping(s)' <=> Dropping(s)
    /\ s \in lent' <=> s \in lent
    /\ s \in free' \cup snap_freelist' <=> s \in free \cup snap_freelist

\* A slot whose holders a step does not touch stays in order.
LEMMA LeftAlone ==
    ASSUME NEW s \in Slots, RefOK(s), FlagOK(s), Alone(s)
    PROVE  RefOK(s)' /\ FlagOK(s)'
<1>1. RefOK(s)'
  BY Zenon DEF RefOK, Alone, ShardRef, WorkerRef, One
<1>2. FlagOK(s)'
  BY Zenon DEF FlagOK, Alone, Alive, Flagging
<1> QED BY <1>1, <1>2, Zenon

\* A marked slot of a page in the frozen bitmaps is in use, so that its page
\* is not skipped.
LEMMA ComingNotFree ==
    ASSUME Shape, Refs, NEW s \in Slots, Coming(s)
    PROVE  s \notin free
<1>1. RefOK(s)
  BY Zenon DEF Refs
<1>2. obj[s].refcount # 0
  BY <1>1 DEF RefOK, WorkerRef, ShardRef, One
<1> QED BY <1>1, <1>2, Zenon DEF RefOK

\* snap_background_worker wakes, and no holder changes.
LEMMA WakeRefs == ASSUME Shape, Refs, Wake PROVE Refs'
<1> USE DEF shardVars, serving, slotVars, frozenVars, activeVars
<1>1. w.pc = "asleep" /\ w'.pc = "word" /\ w'.word = w.word
  BY Zenon DEF Shape, Types, WorkerTypes, WorkerType, Wake
<1>2. Bitmaps'
  BY <1>1, Zenon DEF Refs, Bitmaps, Working, Small, Wake
<1>3. Places'
  BY <1>1, Zenon DEF Refs, Places, Working, Wake
<1>4. ASSUME NEW s \in Slots PROVE RefOK(s)' /\ FlagOK(s)'
  <2>1. (Coming(s)' <=> Coming(s)) /\ (Dropping(s)' <=> Dropping(s))
    BY <1>1, Zenon DEF Coming, Dropping, Wake
  <2>2. (Marked(s)' <=> Marked(s)) /\ (InTable(s)' <=> InTable(s))
    BY Zenon DEF Marked, InTable, Wake
  <2>3. Alone(s)
    BY <2>1, <2>2, Zenon DEF Alone, Wake
  <2> QED BY <2>3, LeftAlone, Zenon DEF Refs
<1> QED BY <1>2, <1>3, <1>4, Zenon DEF Refs

\* The worker takes a word: the slots of its pages are as much to be visited
\* as before.
LEMMA TakeWordRefs == ASSUME OpFacts, Shape, Refs, TakeWord PROVE Refs'
<1> USE DEF shardVars, serving, slotVars, activeVars, diskVars
<1>0. w \in WorkerType /\ BitTypes /\ Bitmaps /\ Places /\ w.pc = "word" /\ w.word = {}
  BY Zenon DEF Shape, Types, WorkerTypes, Refs, Bitmaps, TakeWord
<1>1. TookWord
  BY <1>0, TakeWordFacts, Zenon
<1>2. CASE snap_dirty_bits = {} /\ Moved(w', "finish", w.word, w.page, w.slot)
           /\ snap_dirty_bits' = {}
  <2>1. Bitmaps'
    BY <1>0, <1>2, Zenon DEF Bitmaps, Moved, Working, Small, TakeWord
  <2>2. Places'
    BY <1>0, <1>2, Zenon DEF Places, Moved, Working, TakeWord
  <2>3. ASSUME NEW s \in Slots PROVE Alone(s)
    <3>1. (Coming(s)' <=> Coming(s)) /\ (Dropping(s)' <=> Dropping(s))
      BY <1>0, <1>2, Zenon DEF Coming, Dropping, Moved, TakeWord
    <3>2. (Marked(s)' <=> Marked(s)) /\ (InTable(s)' <=> InTable(s))
      BY Zenon DEF Marked, InTable, TakeWord
    <3> QED BY <3>1, <3>2, Zenon DEF Alone, TakeWord
  <2> QED BY <2>1, <2>2, <2>3, LeftAlone, Zenon DEF Refs
<1>3. ASSUME NEW ps \in SUBSET snap_dirty_bits,
             snap_dirty_bits' = snap_dirty_bits \ ps,
             NoneEntered(w', ps) \/ \E p, s : Entered(w', ps, p, s)
      PROVE  Refs'
  <2>1. ASSUME NEW s \in snap_slot_bits, PageOf[s] \in ps
        PROVE  ~Skipped(PageOf[s])
    <3>1. s \in Slots /\ Coming(s)
      BY <1>0, <2>1, Zenon DEF BitTypes, Coming
    <3>2. s \notin free
      BY <3>1, ComingNotFree, Zenon
    <3> QED BY <2>1, <3>1, <3>2, Zenon DEF Skipped, ModifiedSlots, SlotsOf
  <2>2. CASE NoneEntered(w', ps)
    <3>1. \A s \in snap_slot_bits : PageOf[s] \notin ps
      BY <2>1, <2>2, Zenon DEF NoneEntered
    <3>2. w'.pc = "word" /\ w'.word = {}
      BY <2>2, Zenon DEF NoneEntered, Moved
    <3>3. Bitmaps'
      BY <1>0, <1>3, <3>1, <3>2, Zenon DEF Shape, TickWaitsForWorker, Bitmaps, Working, Small, TakeWord
    <3>4. Places'
      BY <1>0, <3>2, Zenon DEF Places, Working, TakeWord
    <3>5. ASSUME NEW s \in Slots PROVE Alone(s)
      <4>1. (Coming(s)' <=> Coming(s)) /\ (Dropping(s)' <=> Dropping(s))
        BY <1>0, <1>3, <3>1, <3>2, Zenon DEF Coming, Dropping, TakeWord
      <4>2. (Marked(s)' <=> Marked(s)) /\ (InTable(s)' <=> InTable(s))
        BY Zenon DEF Marked, InTable, TakeWord
      <4> QED BY <4>1, <4>2, Zenon DEF Alone, TakeWord
    <3> QED BY <3>3, <3>4, <3>5, LeftAlone, Zenon DEF Refs
  <2>3. ASSUME NEW p, NEW s0, Entered(w', ps, p, s0)
        PROVE  Refs'
    <3>1. /\ w'.pc = "visit" /\ w'.word = {q \in ps : q > p} /\ w'.page = p /\ w'.slot = s0
          /\ p \in ps
      BY <2>3, Zenon DEF Entered, Moved
    <3>2. ASSUME NEW s \in snap_slot_bits, PageOf[s] \in ps
          PROVE  PageOf[s] > p \/ (PageOf[s] = p /\ s >= s0)
      <4>1. ~Skipped(PageOf[s])
        BY <2>1, <3>2, Zenon
      <4>2. ~(PageOf[s] < p)
        BY <2>3, <3>2, <4>1, Zenon DEF Entered
      <4>3. PageOf[s] \in Nat /\ p \in Nat
        BY <1>0, <3>1, <3>2, Numbers, Zenon DEF BitTypes
      <4>4. PageOf[s] = p => s \in ModifiedSlots(p)
        BY <1>0, Zenon DEF BitTypes, ModifiedSlots, SlotsOf
      <4>5. PageOf[s] = p => s >= s0
        BY <2>3, <4>4, Zenon DEF Entered
      <4> QED BY <4>2, <4>3, <4>5
    <3>3. Bitmaps'
      <4>1. \A s \in Small(snap_slot_bits) :
               PageOf[s] \in snap_dirty_bits' \cup w'.word \/ PageOf[s] = p
        BY <1>0, <1>3, <3>1, <3>2, Zenon DEF Bitmaps, Small, Working
      <4>2. is_snapshotting'
        BY <1>0, Zenon DEF Shape, TickWaitsForWorker, TakeWord
      <4> QED BY <1>0, <1>3, <3>1, <4>1, <4>2, Zenon DEF Bitmaps, Small, Working, TakeWord
    <3>4. Places'
      BY <1>0, <3>1, Zenon DEF Places, Working, TakeWord
    <3>5. ASSUME NEW s \in Slots PROVE Alone(s)
      <4>1. (Coming(s)' <=> Coming(s))
        BY <1>0, <1>3, <3>1, <3>2, Zenon DEF Coming, TakeWord
      <4>2. (Dropping(s)' <=> Dropping(s))
        BY <1>0, <3>1, Zenon DEF Dropping
      <4>3. (Marked(s)' <=> Marked(s)) /\ (InTable(s)' <=> InTable(s))
        BY Zenon DEF Marked, InTable, TakeWord
      <4> QED BY <4>1, <4>2, <4>3, Zenon DEF Alone, TakeWord
    <3> QED BY <3>3, <3>4, <3>5, LeftAlone, Zenon DEF Refs
  <2> QED BY <1>3, <2>2, <2>3, Zenon
<1> QED BY <1>1, <1>2, <1>3, Zenon DEF TookWord

\* The worker visits a slot, and takes over the reference of one that
\* shard_obj_destroy left to it.
LEMMA VisitRefs == ASSUME Shape, Refs, Visit PROVE Refs'
<1> USE DEF shardVars, serving, frozenVars, activeVars, diskVars
<1>a. PICK s0 \in Slots : s0 = w.slot
  BY VisitedSlot, Zenon DEF Visit
<1>0. /\ w \in WorkerType /\ Bitmaps /\ Places /\ w.pc = "visit"
      /\ s0 \in snap_slot_bits /\ PageOf[s0] = w.page
      /\ w.page \notin snap_dirty_bits \cup w.word
      /\ obj \in [Slots -> ObjType]
  <2>1. w.page \notin w.word
    BY DEF Shape, Types, UsedSlots, WorkerTypes, WorkerType, Working, Visit
  <2> QED BY <1>a, <2>1, VisitedSlot, Zenon
      DEF Shape, Types, WorkerTypes, HeapTypes, Refs, Bitmaps, Working, Visit
<1>1. /\ w'.pc = "put" /\ w'.word = w.word /\ w'.page = w.page /\ w'.slot = s0
      /\ w'.deleted = (obj[s0].snap_flag = "DEAD_SAFE")
  BY <1>a, <1>0, Zenon DEF WorkerType, Visit
<1>2. /\ \A s \in Slots \ {s0} : obj'[s] = obj[s]
      /\ obj'[s0].snap_flag = Visited(obj[s0].snap_flag)
      /\ obj'[s0].refcount = obj[s0].refcount
      /\ obj'[s0].marked_deletion = obj[s0].marked_deletion
  BY <1>a, <1>0, Zenon DEF ObjType, Visit
<1>3. Bitmaps'
  BY <1>a, <1>0, <1>1 DEF Bitmaps, Working, Small, Visit
<1>4. Places'
  BY <1>a, <1>0, <1>1, Zenon DEF Places, Working, Visit
<1>5. ASSUME NEW s \in Slots \ {s0} PROVE Alone(s)
  <2>1. s >= s0 <=> s > s0
    BY <1>0, Numbers
  <2>2. (Coming(s)' <=> Coming(s)) /\ (Dropping(s)' <=> Dropping(s))
    BY <1>a, <1>0, <1>1, <2>1, Zenon DEF Coming, Dropping, Visit
  <2>3. (Marked(s)' <=> Marked(s)) /\ (InTable(s)' <=> InTable(s))
    BY Zenon DEF Marked, InTable, Visit
  <2> QED BY <1>2, <2>2, <2>3, Zenon DEF Alone, Visit
<1>6. RefOK(s0)' /\ FlagOK(s0)'
  <2>1. RefOK(s0) /\ FlagOK(s0)
    BY <1>0, Zenon DEF Refs
  <2>2. Coming(s0) /\ ~Coming(s0)' /\ ~Dropping(s0)
    BY <1>a, <1>0, <1>1, Numbers DEF Coming, Dropping, Visit
  <2>3. Dropping(s0)' = (obj[s0].snap_flag = "DEAD_SAFE")
    BY <1>a, <1>1, Zenon DEF Dropping
  <2>4. (Marked(s0)' <=> Marked(s0)) /\ (InTable(s0)' <=> InTable(s0))
    BY <1>1, Zenon DEF Marked, InTable, Visit
  <2>5. /\ job' = job /\ lent' = lent /\ free' = free /\ snap_freelist' = snap_freelist
    BY Zenon DEF Visit
  <2>6. /\ Visited("LIVE_FRESH") = "LIVE_VISITED" /\ Visited("DEAD_PENDING") = "DEAD_SAFE"
        /\ Visited("DEAD_SAFE") = "DEAD_SAFE"
    BY Zenon DEF Visited
  <2>8. InTable(s0) \/ Marked(s0) \/ Dropping(s0)'
    BY <2>1, <2>2, <2>3, Zenon DEF FlagOK, Alive, Flagging, RefOK
  <2>9. RefOK(s0)'
    BY <1>2, <2>1, <2>2, <2>4, <2>5, <2>8, Zenon DEF RefOK, ShardRef, WorkerRef, One
  <2>10. FlagOK(s0)'
    BY <1>2, <2>1, <2>2, <2>3, <2>4, <2>5, <2>6, Zenon DEF FlagOK, Alive, Flagging, RefOK
  <2> QED BY <2>9, <2>10, Zenon
<1>7. ASSUME NEW s \in Slots PROVE RefOK(s)' /\ FlagOK(s)'
  BY <1>5, <1>6, LeftAlone, Zenon DEF Refs
<1> QED BY <1>3, <1>4, <1>7, Zenon DEF Refs

\* The worker writes the record of a slot, drops the reference it took over
\* and goes on.
LEMMA PutEntryRefs == ASSUME OpFacts, Shape, Refs, PutEntry PROVE Refs'
<1> USE DEF shardVars, serving, frozenVars, activeVars, diskVars
<1>a. PICK s0 \in Slots : s0 = w.slot
  BY VisitedSlot, Zenon DEF PutEntry
<1>0. /\ w \in WorkerType /\ Bitmaps /\ Places /\ w.pc = "put"
      /\ s0 \in snap_slot_bits /\ PageOf[s0] = w.page
      /\ w.page \notin snap_dirty_bits \cup w.word
      /\ obj \in [Slots -> ObjType] /\ obj[s0] \in ObjType /\ obj[s0].key \in Keys
      /\ snap_slot_bits \in SUBSET Slots
  <2>1. w.page \notin w.word
    BY DEF Shape, Types, UsedSlots, WorkerTypes, WorkerType, Working, PutEntry
  <2> QED BY <1>a, <2>1, VisitedSlot, Zenon
      DEF Shape, Types, WorkerTypes, HeapTypes, BitTypes, Refs, Bitmaps, Working, PutEntry
<1>1. LET v == w' IN /\ v \in WorkerType /\ v.word = w.word /\ v.page = w.page
                     /\ v.deleted = FALSE /\ v.epoch = w.epoch
                     /\ PageDone(v) \/ NextInPage(v)
  BY <1>a, <1>0, AfterSlotFacts, Zenon DEF PutEntry, ObjType
<1>2. Bitmaps'
  BY <1>0, <1>1, Zenon DEF Bitmaps, Working, Small, PutEntry, PageDone, NextInPage
<1>3. ASSUME NEW s \in Slots
      PROVE  /\ (Coming(s)' <=> Coming(s)) /\ (Marked(s)' <=> Marked(s))
             /\ (InTable(s)' <=> InTable(s)) /\ ~Dropping(s)'
             /\ Dropping(s) <=> s = s0 /\ w.deleted
  <2>1. (Coming(s)' <=> Coming(s))
    <3>1. CASE PageDone(w')
      BY <1>a, <1>0, <1>1, <3>1, Numbers DEF Coming, PageDone, ModifiedSlots, SlotsOf, PutEntry
    <3>2. CASE NextInPage(w')
      BY <1>a, <1>0, <1>1, <3>2, Numbers DEF Coming, NextInPage, ModifiedSlots, SlotsOf, PutEntry
    <3> QED BY <1>1, <3>1, <3>2, Zenon
  <2>2. (Marked(s)' <=> Marked(s)) /\ (InTable(s)' <=> InTable(s))
    BY Zenon DEF Marked, InTable, PutEntry
  <2>3. ~Dropping(s)' /\ (Dropping(s) <=> s = s0 /\ w.deleted)
    BY <1>a, <1>0, <1>1, Zenon DEF Dropping
  <2> QED BY <2>1, <2>2, <2>3, Zenon
<1>4. /\ job' = job /\ lent' = lent /\ free' = free /\ to_merge' = to_merge
  BY Zenon DEF PutEntry
<1>5. CASE ~w.deleted
  <2>1. obj' = obj /\ snap_freelist' = snap_freelist
    BY <1>5, Zenon DEF PutEntry
  <2>2. Places'
    BY <1>0, <1>1, <2>1, Zenon DEF Places, Working, PutEntry, PageDone, NextInPage
  <2>3. ASSUME NEW s \in Slots PROVE Alone(s)
    BY <1>3, <1>4, <1>5, <2>1, Zenon DEF Alone
  <2> QED BY <1>2, <2>2, <2>3, LeftAlone, Zenon DEF Refs
<1>6. CASE w.deleted
  <2>1. RefOK(s0) /\ FlagOK(s0) /\ Dropping(s0)
    BY <1>3, <1>6, Zenon DEF Refs
  <2>2. ~Coming(s0) /\ ~Marked(s0) /\ ~InTable(s0) /\ ~Flagging(s0) /\ job.slot # s0
    <3>1. ~Coming(s0)
      BY <1>a, <1>0, Numbers DEF Coming
    <3> QED BY <2>1, <3>1, Zenon DEF FlagOK, RefOK, Alive
  <2>3. obj[s0].refcount = 1 + One(s0 \in lent)
    BY <2>1, <2>2 DEF RefOK, ShardRef, WorkerRef, One
  <2>4. obj[s0].refcount \in 0..RefLimit-1
    BY <1>0, Zenon DEF ObjType
  <2>5. Decremented(obj[s0].refcount) = obj[s0].refcount - 1
        /\ Decremented(obj[s0].refcount) \in 0..RefLimit-1
    BY <2>3, <2>4, CountsTyped DEF One
  <2>6. obj' = [obj EXCEPT ![s0].refcount = Decremented(obj[s0].refcount)]
    BY <1>a, <1>6, Zenon DEF PutEntry
  <2>7. /\ \A t \in Slots : /\ t # s0 => obj'[t] = obj[t]
                            /\ obj'[t].snap_flag = obj[t].snap_flag
                            /\ obj'[t].marked_deletion = obj[t].marked_deletion
        /\ obj'[s0].refcount = One(s0 \in lent)
    BY <1>0, <2>3, <2>5, <2>6, CountChanged DEF One
  <2>8. snap_freelist' = IF s0 \in lent THEN snap_freelist ELSE snap_freelist \cup {s0}
    BY <1>a, <1>6, <2>3 DEF PutEntry, One
  <2>9. s0 \notin free \cup snap_freelist
    BY <2>1, <2>3 DEF RefOK, One
  <2>10. Places'
    BY <1>0, <1>1, <2>8, <2>9, Zenon DEF Places, Working, PutEntry, PageDone, NextInPage
  <2>11. ASSUME NEW s \in Slots \ {s0} PROVE Alone(s)
    BY <1>3, <1>4, <2>7, <2>8, Zenon DEF Alone
  <2>12. RefOK(s0)' /\ FlagOK(s0)'
    <3>1. RefOK(s0)'
      BY <1>3, <1>4, <2>1, <2>2, <2>3, <2>7, <2>8, <2>9, SMTT(40) DEF RefOK, ShardRef, WorkerRef, One
    <3>2. FlagOK(s0)'
      BY <1>3, <1>4, <2>1, <2>2, <2>7, Zenon DEF FlagOK, Alive, Flagging
    <3> QED BY <3>1, <3>2, Zenon
  <2> QED BY <1>2, <2>10, <2>11, <2>12, LeftAlone, Zenon DEF Refs
<1> QED BY <1>5, <1>6, Zenon

\* The worker leaves a page with no slot of it left to visit.
LEMMA LeavePageRefs == ASSUME OpFacts, Shape, Refs, LeavePage PROVE Refs'
<1> USE DEF shardVars, serving, activeVars, diskVars
<1>0. /\ w \in WorkerType /\ Bitmaps /\ Places /\ BitTypes /\ HeapTypes /\ w.pc = "leave"
      /\ w.page \notin snap_dirty_bits \cup w.word
      /\ w.word \in SUBSET Pages
  <2>1. w.page \notin w.word
    BY SMT, Z3, Zenon DEF Shape, Types, UsedSlots, WorkerTypes, WorkerType, Working, LeavePage
  <2> QED BY <2>1, Zenon DEF Shape, Types, WorkerTypes, WorkerType, Refs, Bitmaps, Working, LeavePage
<1>1. NoneEntered(w', w.word) \/ \E p, s : Entered(w', w.word, p, s)
  BY <1>0, FirstSlotFacts, Zenon DEF LeavePage
<1>2. ASSUME NEW s \in snap_slot_bits, PageOf[s] \in w.word
      PROVE  ~Skipped(PageOf[s])
  <2>1. s \in Slots /\ Coming(s)
    BY <1>0, <1>2, Zenon DEF BitTypes, Coming
  <2>2. s \notin free
    BY <2>1, ComingNotFree, Zenon
  <2> QED BY <1>2, <2>1, <2>2, Zenon DEF Skipped, ModifiedSlots, SlotsOf
<1>3. /\ job' = job /\ lent' = lent /\ free' = free /\ snap_freelist' = snap_freelist
      /\ obj' = obj /\ snap_dirty_bits' = snap_dirty_bits
      /\ snap_slot_bits' = snap_slot_bits \ SlotsOf(w.page)
      /\ is_snapshotting' = is_snapshotting /\ is_snapshotting
  BY <1>0, Zenon DEF LeavePage, Shape, TickWaitsForWorker
<1>4. ASSUME NEW s \in Slots
      PROVE  (Marked(s)' <=> Marked(s)) /\ (InTable(s)' <=> InTable(s))
  BY Zenon DEF Marked, InTable, LeavePage
<1>5. \A s \in snap_freelist : PageOf[s] \in LargePages \cup to_merge'
  <2>1. \A s \in snap_freelist : PageOf[s] = w.page =>
            SlotsOf(w.page) \cap snap_freelist # {}
    BY <1>0, Zenon DEF HeapTypes, SlotsOf
  <2> QED BY <1>0, <2>1, Zenon DEF Places, LeavePage
<1>6. Places'
  BY <1>0, <1>3, <1>5, Zenon DEF Places, LeavePage
<1>7. CASE NoneEntered(w', w.word)
  <2>1. \A s \in snap_slot_bits : PageOf[s] \notin w.word
    BY <1>2, <1>7, Zenon DEF NoneEntered
  <2>2. w'.pc = "word" /\ w'.word = {}
    BY <1>7, Zenon DEF NoneEntered, Moved
  <2>3. Bitmaps'
    BY <1>0, <1>3, <2>1, <2>2 DEF BitTypes, Bitmaps, Working, Small, SlotsOf, LeavePage
  <2>4. ASSUME NEW s \in Slots PROVE Alone(s)
    <3>1. (Coming(s)' <=> Coming(s)) /\ (Dropping(s)' <=> Dropping(s))
      BY <1>0, <1>3, <2>1, <2>2, Zenon DEF Coming, Dropping, SlotsOf
    <3> QED BY <1>3, <1>4, <3>1, Zenon DEF Alone
  <2> QED BY <1>6, <2>3, <2>4, LeftAlone, Zenon DEF Refs
<1>8. ASSUME NEW p, NEW s0, Entered(w', w.word, p, s0)
      PROVE  Refs'
  <2>1. /\ w'.pc = "visit" /\ w'.word = {q \in w.word : q > p} /\ w'.page = p
        /\ w'.slot = s0 /\ p \in w.word
    BY <1>8, Zenon DEF Entered, Moved
  <2>2. ASSUME NEW s \in snap_slot_bits, PageOf[s] \in w.word
        PROVE  PageOf[s] > p \/ (PageOf[s] = p /\ s >= s0)
    <3>1. ~Skipped(PageOf[s])
      BY <1>2, <2>2, Zenon
    <3>2. ~(PageOf[s] < p)
      BY <1>8, <2>2, <3>1, Zenon DEF Entered
    <3>3. PageOf[s] \in Nat /\ p \in Nat
      BY <1>0, <2>1, <2>2, Numbers, Zenon DEF BitTypes
    <3>4. PageOf[s] = p => s \in ModifiedSlots(p)
      BY <1>0, Zenon DEF BitTypes, ModifiedSlots, SlotsOf
    <3>5. PageOf[s] = p => s >= s0
      BY <1>8, <3>4, Zenon DEF Entered
    <3> QED BY <3>2, <3>3, <3>5
  <2>3. Bitmaps'
    <3>1. \A s \in Small(snap_slot_bits') :
             PageOf[s] \in snap_dirty_bits \cup w'.word \/ PageOf[s] = p
      BY <1>0, <1>3, <2>1, <2>2, Zenon DEF Bitmaps, BitTypes, Small, SlotsOf, Working
    <3>2. w'.word \cap snap_dirty_bits = {} /\ p \notin snap_dirty_bits
      BY <1>0, <2>1, Zenon DEF Bitmaps
    <3> QED BY <1>0, <1>3, <2>1, <3>1, <3>2 DEF Bitmaps, Small, Working, LeavePage
  <2>4. ASSUME NEW s \in Slots PROVE Alone(s)
    <3>1. (Coming(s)' <=> Coming(s))
      BY <1>0, <1>3, <2>1, <2>2, Zenon DEF Coming, SlotsOf
    <3>2. (Dropping(s)' <=> Dropping(s))
      BY <1>0, <2>1, Zenon DEF Dropping
    <3> QED BY <1>3, <1>4, <3>1, <3>2, Zenon DEF Alone
  <2> QED BY <1>6, <2>3, <2>4, LeftAlone, Zenon DEF Refs
<1> QED BY <1>1, <1>7, <1>8, Zenon

\* Between epochs the worker moves without a page in its hands.
LEMMA RestingRefs ==
    ASSUME Shape, Refs, Resting(w), Resting(w'), w'.word = {},
           is_snapshotting' = is_snapshotting \/ snap_dirty_bits = {},
           w'.pc # "finish",
           UNCHANGED <<table, lent, activeVars, job, slotVars, frozenVars>>
    PROVE  Refs'
<1> USE DEF slotVars, frozenVars, activeVars
<1>1. w.word = {} /\ ~Working /\ ~Working'
  BY Zenon DEF Refs, Bitmaps, Resting, Working
<1>2. Bitmaps'
  BY <1>1, Zenon DEF Refs, Bitmaps, Small, Resting
<1>3. Places'
  BY <1>1, Zenon DEF Refs, Places
<1>4. ASSUME NEW s \in Slots PROVE Alone(s)
  <2>1. (Coming(s)' <=> Coming(s)) /\ (Dropping(s)' <=> Dropping(s))
    BY <1>1, Zenon DEF Coming, Dropping, Resting
  <2>2. (Marked(s)' <=> Marked(s)) /\ (InTable(s)' <=> InTable(s))
    BY Zenon DEF Marked, InTable
  <2> QED BY <2>1, <2>2, Zenon DEF Alone
<1> QED BY <1>2, <1>3, <1>4, LeftAlone, Zenon DEF Refs

\* The delta is complete, and no holder changes.
LEMMA FinishRefs == ASSUME Shape, Refs, Finish PROVE Refs'
<1>1. /\ w.pc = "finish" /\ w'.pc = "compact" /\ w'.word = w.word
  BY Zenon DEF Shape, Types, WorkerTypes, WorkerType, Finish
<1>2. w'.word = {} /\ snap_dirty_bits = {}
  BY <1>1, Zenon DEF Refs, Bitmaps
<1> QED BY <1>1, <1>2, RestingRefs, Zenon DEF Resting, Finish, shardVars, serving

\* Compaction replaces the base file, and no holder changes.
LEMMA RenameRefs == ASSUME Shape, Refs, Rename PROVE Refs'
<1>1. /\ w.pc = "compact" /\ w'.pc = "unlink" /\ w'.word = w.word
  BY Zenon DEF Shape, Types, WorkerTypes, WorkerType, Rename
<1>2. w'.word = {} /\ is_snapshotting' = is_snapshotting
  BY <1>1, Zenon DEF Refs, Bitmaps, Rename
<1> QED BY <1>1, <1>2, RestingRefs, Zenon DEF Resting, Rename, serving

\* Compaction removes the delta, and the worker sleeps with nothing to visit.
LEMMA UnlinkDeltaRefs == ASSUME Shape, Refs, UnlinkDelta PROVE Refs'
<1>1. /\ w.pc = "unlink" /\ w'.pc = "asleep" /\ w'.word = {}
      /\ is_snapshotting' = is_snapshotting
  BY AsleepTyped, Zenon DEF UnlinkDelta
<1> QED BY <1>1, RestingRefs, Zenon DEF Resting, UnlinkDelta, shardVars, serving

\* A step of the shard that touches neither the bitmaps nor the table: the
\* marks are where they were.
LEMMA MarksKept ==
    ASSUME Refs, UNCHANGED <<table, activeVars, frozenVars, is_snapshotting, w,
                             snap_freelist, to_merge>>
    PROVE  /\ Bitmaps'
           /\ free' \cap snap_freelist = {} => Places'
           /\ \A s \in Slots : /\ Marked(s)' <=> Marked(s)
                               /\ Coming(s)' <=> Coming(s)
                               /\ Dropping(s)' <=> Dropping(s)
                               /\ InTable(s)' <=> InTable(s)
<1> USE DEF activeVars, frozenVars
<1>1. Bitmaps'
  BY Zenon DEF Refs, Bitmaps, Working, Small
<1>2. free' \cap snap_freelist = {} => Places'
  BY Zenon DEF Refs, Places, Working
<1>3. ASSUME NEW s \in Slots
      PROVE  /\ Marked(s)' <=> Marked(s)
             /\ Coming(s)' <=> Coming(s)
             /\ Dropping(s)' <=> Dropping(s)
             /\ InTable(s)' <=> InTable(s)
  BY Zenon DEF Marked, Coming, Dropping, InTable
<1> QED BY <1>1, <1>2, <1>3, Zenon

\* A GET from another shard: one reference more, and it is lent.
LEMMA LendRefs == ASSUME Shape, Refs, NEW k \in Keys, Lend(k) PROVE Refs'
<1>a. PICK s0 \in Slots : s0 = table[k]
  BY LendObj, Zenon DEF Shape, Types
<1>0. HeapTypes /\ RefOK(s0) /\ FlagOK(s0) /\ InTable(s0) /\ s0 \notin lent
  BY <1>a, Zenon DEF Shape, Types, Refs, InTable, Lend
<1>1. /\ lent' = lent \cup {s0} /\ job' = job
      /\ free' = free /\ snap_freelist' = snap_freelist
  BY <1>a, Zenon DEF Lend
<1>2. obj[s0].refcount = 2
  BY <1>0, SMTT(40) DEF RefOK, ShardRef, WorkerRef, One
<1>3. /\ \A t \in Slots : /\ t # s0 => obj'[t] = obj[t]
                          /\ obj'[t].snap_flag = obj[t].snap_flag
                          /\ obj'[t].marked_deletion = obj[t].marked_deletion
      /\ obj'[s0].refcount = 3
  BY <1>a, <1>0, <1>2, LendObj, SMTT(40)
<1>4. /\ Bitmaps' /\ Places'
      /\ \A s \in Slots : /\ Marked(s)' <=> Marked(s)
                          /\ Coming(s)' <=> Coming(s)
                          /\ Dropping(s)' <=> Dropping(s)
                          /\ InTable(s)' <=> InTable(s)
  BY <1>1, MarksKept, Zenon DEF Lend, Refs, Places, tickVars
<1>5. ASSUME NEW s \in Slots \ {s0} PROVE Alone(s)
  BY <1>1, <1>3, <1>4, Zenon DEF Alone
<1>6. RefOK(s0)'
  BY <1>0, <1>1, <1>2, <1>3, <1>4, SMTT(40) DEF RefOK, ShardRef, WorkerRef, One
<1>7. FlagOK(s0)'
  BY <1>0, <1>1, <1>3, <1>4, Zenon DEF FlagOK, Alive, Flagging
<1> QED BY <1>4, <1>5, <1>6, <1>7, LeftAlone, Zenon DEF Refs

\* A lent reference comes back, and the last one frees the slot.
LEMMA ReleaseRefs == ASSUME Shape, Refs, NEW s0 \in Slots, Release(s0) PROVE Refs'
<1>0. /\ HeapTypes /\ RefOK(s0) /\ FlagOK(s0) /\ s0 \in lent /\ Unref(s0)
      /\ Places /\ job.slot # s0
  BY Numbers, Zenon DEF Shape, Types, Refs, Release, Running, Idle
<1>1. /\ lent' = lent \ {s0} /\ job' = job /\ snap_freelist' = snap_freelist
  BY Zenon DEF Release
<1>2. /\ obj[s0].refcount = One(ShardRef(s0)) + One(WorkerRef(s0)) + 1
      /\ obj[s0].refcount > 0 /\ obj[s0].refcount \in Nat
  BY <1>0, SMTT(40) DEF RefOK, One
<1>3. /\ \A t \in Slots : /\ t # s0 => obj'[t] = obj[t]
                          /\ obj'[t].snap_flag = obj[t].snap_flag
                          /\ obj'[t].marked_deletion = obj[t].marked_deletion
      /\ obj'[s0].refcount = obj[s0].refcount - 1
  BY <1>0, <1>2, UnrefFacts, Zenon
<1>4. /\ free' = IF obj[s0].refcount = 1 THEN free \cup {s0} ELSE free
      /\ s0 \notin free \cup snap_freelist
  <2>1. obj[s0].refcount = 1 => ~InTable(s0)
    BY <1>2 DEF ShardRef, WorkerRef, One
  <2>2. obj[s0].refcount = 1 => obj[s0].marked_deletion
    BY <1>0, <1>2, <2>1, Zenon DEF RefOK
  <2> QED BY <1>0, <1>2, <2>2 DEF Unref, RefOK
<1>5. /\ Bitmaps' /\ Places'
      /\ \A s \in Slots : /\ Marked(s)' <=> Marked(s)
                          /\ Coming(s)' <=> Coming(s)
                          /\ Dropping(s)' <=> Dropping(s)
                          /\ InTable(s)' <=> InTable(s)
  <2>1. free' \cap snap_freelist = {}
    BY <1>0, <1>4, Zenon DEF Places
  <2> QED BY <1>1, <2>1, MarksKept, Zenon DEF Release, tickVars
<1>6. ASSUME NEW s \in Slots \ {s0} PROVE Alone(s)
  BY <1>1, <1>3, <1>4, <1>5, Zenon DEF Alone
<1>7. RefOK(s0)'
  BY <1>0, <1>1, <1>2, <1>3, <1>4, <1>5, SMTT(40) DEF RefOK, ShardRef, WorkerRef, One
<1>8. FlagOK(s0)'
  BY <1>0, <1>1, <1>3, <1>5, Zenon DEF FlagOK, Alive, Flagging
<1> QED BY <1>5, <1>6, <1>7, <1>8, LeftAlone, Zenon DEF Refs

\* The exchange on snap_flag decides who drops the reference: the shard or
\* the worker.
LEMMA DestroyFlagRefs == ASSUME Shape, Refs, DestroyFlag PROVE Refs'
<1>a. PICK s0 \in Slots : s0 = job.slot
  BY Zenon DEF Shape, Types, JobTypes, DestroyFlag
<1>0. /\ obj \in [Slots -> ObjType] /\ RefOK(s0) /\ FlagOK(s0)
      /\ job.pc = "flag" /\ ~InTable(s0) /\ Marked(s0) /\ Flagging(s0)
  BY <1>a, Zenon DEF Shape, Types, HeapTypes, Refs, DestroyFlag, RefOK, Flagging
<1>1. /\ lent' = lent /\ free' = free /\ snap_freelist' = snap_freelist
      /\ job'.pc = "unref" /\ job'.slot = s0
  BY <1>a, Zenon DEF DestroyFlag, Shape, Types, JobTypes
<1>2. /\ \A t \in Slots : /\ t # s0 => obj'[t] = obj[t]
                          /\ obj'[t].refcount = obj[t].refcount
                          /\ obj'[t].marked_deletion = obj[t].marked_deletion
      /\ obj'[s0].snap_flag = IF job.visit /\ obj[s0].snap_flag = "LIVE_FRESH"
                              THEN "DEAD_PENDING" ELSE "DEAD_SAFE"
  BY <1>a, <1>0, DestroyFlagObj, FlagChanged, Zenon
<1>3. /\ Bitmaps' /\ Places'
      /\ \A s \in Slots : /\ Marked(s)' <=> Marked(s)
                          /\ Coming(s)' <=> Coming(s)
                          /\ Dropping(s)' <=> Dropping(s)
                          /\ InTable(s)' <=> InTable(s)
  BY <1>1, MarksKept, Zenon DEF DestroyFlag, Refs, Places, tickVars
<1>4. ASSUME NEW s \in Slots \ {s0} PROVE Alone(s)
  BY <1>a, <1>1, <1>2, <1>3, Zenon DEF Alone
<1>5. RefOK(s0)'
  BY <1>a, <1>0, <1>1, <1>2, <1>3, Zenon DEF RefOK, ShardRef, WorkerRef, One
<1>6. FlagOK(s0)'
  BY <1>a, <1>0, <1>1, <1>2, <1>3, Zenon DEF FlagOK, Alive, Flagging
<1> QED BY <1>3, <1>4, <1>5, <1>6, LeftAlone, Zenon DEF Refs

\* shard_obj_destroy drops its reference, and the last one frees the slot.
LEMMA DestroyUnrefRefs == ASSUME Shape, Refs, DestroyUnref PROVE Refs'
<1>a. PICK s0 \in Slots : s0 = job.slot
  BY Zenon DEF Shape, Types, JobTypes, DestroyUnref
<1>0. /\ HeapTypes /\ RefOK(s0) /\ FlagOK(s0) /\ Unref(s0)
      /\ job.pc = "unref" /\ ~InTable(s0) /\ Marked(s0) /\ ~Flagging(s0)
  BY <1>a, Zenon DEF Shape, Types, Refs, DestroyUnref, RefOK, Flagging
<1>1. /\ lent' = lent /\ snap_freelist' = snap_freelist
      /\ job'.pc = "idle" /\ job'.slot \notin Slots
  BY Numbers, Zenon DEF DestroyUnref, Idle
<1>2. obj[s0].refcount = 2 + One(s0 \in lent)
  BY <1>a, <1>0, SMTT(40) DEF RefOK, ShardRef, WorkerRef, One
<1>3. /\ \A t \in Slots : /\ t # s0 => obj'[t] = obj[t]
                          /\ obj'[t].snap_flag = obj[t].snap_flag
                          /\ obj'[t].marked_deletion = obj[t].marked_deletion
      /\ obj'[s0].refcount = 1 + One(s0 \in lent)
  BY <1>0, <1>2, UnrefFacts DEF One
<1>4. free' = free
  BY <1>0, <1>2 DEF Unref, One
<1>5. /\ Bitmaps' /\ Places'
      /\ \A s \in Slots : /\ Marked(s)' <=> Marked(s)
                          /\ Coming(s)' <=> Coming(s)
                          /\ Dropping(s)' <=> Dropping(s)
                          /\ InTable(s)' <=> InTable(s)
  BY <1>4, MarksKept, Zenon DEF DestroyUnref, Refs, Places, tickVars
<1>6. ASSUME NEW s \in Slots \ {s0} PROVE Alone(s)
  BY <1>a, <1>1, <1>3, <1>4, <1>5, Zenon DEF Alone
<1>7. RefOK(s0)'
  BY <1>0, <1>1, <1>2, <1>3, <1>4, <1>5, SMTT(40) DEF RefOK, ShardRef, WorkerRef, One
<1>8. FlagOK(s0)'
  BY <1>0, <1>1, <1>3, <1>5, Zenon DEF FlagOK, Alive, Flagging
<1> QED BY <1>5, <1>6, <1>7, <1>8, LeftAlone, Zenon DEF Refs

\* snap_engine_tick swaps the bitmaps: what was marked is now to be visited.
LEMMA TickRefs == ASSUME Shape, Refs, Tick PROVE Refs'
<1>0. /\ w' = w /\ w.pc \in {"asleep", "compact", "unlink"} /\ w.word = {} /\ ~Working
      /\ snap_dirty_bits = {} /\ snap_slot_bits' = slot_bits
      /\ snap_dirty_bits' = dirty_bits /\ dirty_bits' = {} /\ slot_bits' = snap_slot_bits
  BY Zenon DEF Shape, TickWaitsForWorker, Refs, Bitmaps, Working, Tick
<1>1. /\ table' = table /\ obj' = obj /\ lent' = lent /\ job' = job /\ is_snapshotting'
      /\ ~(job.pc = "flag")
  BY Zenon DEF Tick, Running, Idle
<1>2. Bitmaps'
  <2>1. Small(snap_slot_bits) = {}
    BY <1>0, Zenon DEF Refs, Bitmaps
  <2>2. \A s \in Small(slot_bits) : PageOf[s] \in dirty_bits
    BY Zenon DEF Refs, Bitmaps
  <2>3. Small(slot_bits)' = Small(snap_slot_bits) /\ Small(snap_slot_bits)' = Small(slot_bits)
    BY <1>0, Zenon DEF Small
  <2> QED BY <1>0, <1>1, <2>1, <2>2, <2>3, Zenon DEF Bitmaps, Working
<1>3. /\ snap_freelist' = {} /\ free' = free \cup snap_freelist
  <2>1. \A s \in snap_freelist : PageOf[s] \in LargePages \cup to_merge
    BY <1>0, Zenon DEF Refs, Places
  <2>2. Merged(to_merge \cup LargePages) = free \cup snap_freelist
    BY <2>1, Zenon DEF Merged
  <2> QED BY <2>2, Zenon DEF Tick
<1>4. Places'
  BY <1>1, <1>3, Zenon DEF Refs, Places
<1>5. ASSUME NEW s \in Slots PROVE RefOK(s)' /\ FlagOK(s)'
  <2>1. /\ ~Coming(s) /\ ~Dropping(s) /\ ~Dropping(s)' /\ ~Marked(s)'
        /\ Coming(s)' <=> Marked(s)
        /\ InTable(s)' <=> InTable(s)
    BY <1>0, <1>1, Zenon DEF Coming, Dropping, Marked, InTable
  <2>2. RefOK(s) /\ FlagOK(s) /\ job.slot # s
    BY Numbers, Zenon DEF Refs, Tick, Running, Idle
  <2>3. RefOK(s)'
    BY <1>1, <1>3, <2>1, <2>2, Zenon DEF RefOK, ShardRef, WorkerRef, One
  <2>4. FlagOK(s)'
    BY <1>1, <2>1, <2>2, Zenon DEF FlagOK, Alive, Flagging
  <2> QED BY <2>3, <2>4, Zenon
<1> QED BY <1>2, <1>4, <1>5, Zenon DEF Refs

\* Marking slots says nothing about the others, although the bit of a page is
\* shared by its slots: a small slot with a bit left has its page marked, and
\* a large page has one slot.
LEMMA MarkRefs ==
    ASSUME Shape, Refs, NEW S \in SUBSET Slots, Mark(S),
           UNCHANGED <<w, frozenVars, is_snapshotting>>
    PROVE  /\ Bitmaps'
           /\ \A t \in Slots : /\ t \in S => Marked(t)'
                               /\ t \notin S => (Marked(t)' <=> Marked(t))
                               /\ Coming(t)' <=> Coming(t)
                               /\ Dropping(t)' <=> Dropping(t)
<1> USE DEF frozenVars
<1>0. slot_bits \in SUBSET Slots
  BY Zenon DEF Shape, Types, BitTypes
<1>1. Bitmaps'
  BY Zenon DEF Refs, Bitmaps, Working, Small, Mark
<1>2. ASSUME NEW t \in Slots \ S PROVE Marked(t)' <=> Marked(t)
  <2>1. t \in slot_bits' <=> t \in slot_bits
    BY <1>2, Zenon DEF Mark
  <2>2. Marked(t) => Marked(t)'
    BY Zenon DEF Marked, Mark
  <2>3. ASSUME Marked(t)' PROVE Marked(t)
    <3>1. CASE PageOf[t] \in LargePages
      <4>1. \A s \in S : PageOf[s] # PageOf[t]
        BY <1>2, <3>1, LargeAssumption, Zenon
      <4> QED BY <2>1, <2>3, <4>1, Zenon DEF Marked, Mark
    <3>2. CASE PageOf[t] \notin LargePages
      BY <2>1, <2>3, <3>2, Zenon DEF Marked, Refs, Bitmaps, Small
    <3> QED BY <3>1, <3>2, Zenon
  <2> QED BY <2>2, <2>3, Zenon
<1>3. ASSUME NEW t \in Slots
      PROVE  /\ t \in S => Marked(t)'
             /\ Coming(t)' <=> Coming(t)
             /\ Dropping(t)' <=> Dropping(t)
  BY Zenon DEF Marked, Mark, Coming, Dropping
<1> QED BY <1>1, <1>2, <1>3, Zenon

\* An object that leaves the table: the job of destroying it holds the shard's
\* reference, the mark the worker's.
LEMMA DestroyedSlot ==
    ASSUME OpFacts, Shape, Refs, bad' = Never, NEW o \in Slots, InTable(o), BeginDestroy(o),
           ~InTable(o)', Marked(o)', Coming(o)' <=> Coming(o), Dropping(o)' <=> Dropping(o),
           lent' = lent,
           o \in free' \cup snap_freelist' <=> o \in free \cup snap_freelist,
           obj'[o].refcount = obj[o].refcount, obj'[o].snap_flag = obj[o].snap_flag,
           obj'[o].marked_deletion
    PROVE  RefOK(o)' /\ FlagOK(o)'
<1>0. RefOK(o) /\ FlagOK(o) /\ bad \in 0..Never /\ current_epoch \in 0..MaxEpoch
  BY Zenon DEF Refs, Shape, Types, EpochTypes
<1>1. /\ job'.slot = o /\ job'.pc = "flag" /\ job'.visit = SnapWillVisit(o)
      /\ ~Overtaken(o)
  BY <1>0, BeginDestroyFacts, Zenon
<1>2. Coming(o) <=> SnapWillVisit(o)
  BY <1>1, Zenon DEF Coming, SnapWillVisit, Overtaken, Refs, Bitmaps
<1>3. RefOK(o)'
  BY <1>0, <1>1, Zenon DEF RefOK, ShardRef, WorkerRef, One
<1>4. FlagOK(o)'
  BY <1>0, <1>1, <1>2, Zenon DEF FlagOK, Alive, Flagging
<1> QED BY <1>3, <1>4, Zenon

\* A DEL takes the object out of the table and starts to destroy it.
LEMMA DeleteRefs ==
    ASSUME OpFacts, Shape, Refs, NEW k \in Keys, Delete(k), bad' = Never
    PROVE  Refs'
<1>a. PICK o \in Slots : o = table[k]
  BY DeleteObj, Zenon DEF Shape, Types
<1>0. /\ HeapTypes /\ Places /\ InTable(o) /\ BeginDestroy(o) /\ job = Idle
  BY <1>a, Zenon DEF Shape, Types, Refs, InTable, Delete, Running
<1>1. /\ lent' = lent /\ free' = free /\ snap_freelist' = snap_freelist
      /\ to_merge' = to_merge /\ w' = w
      /\ table' = [table EXCEPT ![k] = NoSlot]
  BY Zenon DEF Delete
<1>2. /\ Bitmaps' /\ Marked(o)'
      /\ \A t \in Slots : /\ t # o => (Marked(t)' <=> Marked(t))
                          /\ Coming(t)' <=> Coming(t)
                          /\ Dropping(t)' <=> Dropping(t)
  BY <1>a, MarkRefs DEF Delete, tickVars
<1>3. \A j \in Keys \ {k} : table[j] # o
  BY <1>a, <1>0, Numbers, Zenon DEF Places
<1>4. ~InTable(o)' /\ \A t \in Slots \ {o} : InTable(t)' <=> InTable(t)
  BY <1>a, <1>0, <1>1, <1>3, Numbers, Zenon DEF InTable, HeapTypes
<1>5. Places'
  BY <1>0, <1>1, Zenon DEF Places, HeapTypes, Working
<1>6. RefOK(o)' /\ FlagOK(o)'
  BY <1>a, <1>0, <1>1, <1>2, <1>4, DeleteObj, DestroyedSlot, Zenon
<1>7. ASSUME NEW t \in Slots \ {o} PROVE Alone(t)
  <2>1. obj'[t] = obj[t]
    BY <1>a, <1>0, DeleteObj, Zenon
  <2>2. job.slot # t /\ job'.slot # t
    BY <1>0, Numbers DEF Idle, BeginDestroy
  <2> QED BY <1>1, <1>2, <1>4, <2>1, <2>2, Zenon DEF Alone
<1> QED BY <1>2, <1>5, <1>6, <1>7, LeftAlone, Zenon DEF Refs

\* A slot that is allocated was free and is so no longer; the others may move
\* from the worker's list to the shard's.
LEMMA AllocRefs ==
    ASSUME HeapTypes, Places, NEW s \in Slots, Alloc(s)
    PROVE  /\ s \in free \cup snap_freelist /\ s \notin free' \cup snap_freelist'
           /\ free' \cap snap_freelist' = {}
           /\ \A t \in Slots \ {s} :
                t \in free' \cup snap_freelist' <=> t \in free \cup snap_freelist
           /\ \A t \in snap_freelist' :
                \/ PageOf[t] \in LargePages \cup to_merge'
                \/ Working /\ PageOf[t] = w.page
<1>1. CASE MustMerge(s)
  BY <1>1, Zenon DEF Alloc, Merged, Places, HeapTypes
<1>2. CASE ~MustMerge(s)
  BY <1>2, Zenon DEF Alloc, Places, HeapTypes
<1> QED BY <1>1, <1>2, Zenon

\* shard_key_set stores a new object and starts to destroy the one it replaces.
LEMMA PutRefs ==
    ASSUME OpFacts, Shape, Refs, NEW k \in Keys, NEW v \in 0..MaxWrites, NEW s \in Slots,
           job = Idle, Put(k, v, s), bad' = Never
    PROVE  Refs'
<1>a. PICK o \in Slots \cup {NoSlot} : o = table[k]
  BY Zenon DEF Shape, Types, HeapTypes
<1>0. /\ HeapTypes /\ Places /\ Alloc(s) /\ BeginDestroy(o)
      /\ \A t \in Slots : RefOK(t) /\ FlagOK(t)
  BY <1>a, Zenon DEF Shape, Types, Refs, Put
<1>1. /\ lent' = lent /\ w' = w /\ table' = [table EXCEPT ![k] = s]
  BY Zenon DEF Put
<1>2. /\ ~InTable(s) /\ ~Marked(s) /\ ~Coming(s) /\ ~Dropping(s) /\ s \notin lent
      /\ o # s
  <2>1. obj[s].refcount = 0 /\ RefOK(s)
    BY <1>0, AllocRefs, Zenon DEF RefOK
  <2>2. ~InTable(s) /\ ~Marked(s) /\ ~Coming(s) /\ ~Dropping(s) /\ s \notin lent
    BY <2>1 DEF RefOK, ShardRef, WorkerRef, One
  <2> QED BY <1>a, <2>2, Zenon DEF InTable
<1>3. /\ Bitmaps' /\ Marked(s)' /\ (o \in Slots => Marked(o)')
      /\ \A t \in Slots : /\ t # o /\ t # s => (Marked(t)' <=> Marked(t))
                          /\ Coming(t)' <=> Coming(t)
                          /\ Dropping(t)' <=> Dropping(t)
  <2>1. {s} \cup ({o} \ {NoSlot}) \in SUBSET Slots /\ NoSlot \notin Slots
    BY Numbers, Zenon
  <2>2. Mark({s} \cup ({o} \ {NoSlot})) /\ UNCHANGED <<w, frozenVars, is_snapshotting>>
    BY <1>a, Zenon DEF Put, tickVars
  <2> QED BY <2>1, <2>2, MarkRefs, Zenon
<1>4. \A j \in Keys \ {k} : table[j] = o => o = NoSlot
  BY <1>a, <1>0, Zenon DEF Places
<1>5. /\ InTable(s)' /\ (o \in Slots => ~InTable(o)')
      /\ \A t \in Slots : t # o /\ t # s => (InTable(t)' <=> InTable(t))
  BY <1>a, <1>0, <1>1, <1>2, <1>4, Numbers, Zenon DEF InTable, HeapTypes
<1>6. Places'
  <2>1. \A i, j \in Keys : table'[i] = table'[j] /\ table'[i] # NoSlot => i = j
    BY <1>0, <1>1, <1>2, Zenon DEF Places, InTable, HeapTypes
  <2> QED BY <1>0, <1>1, <2>1, AllocRefs, Zenon DEF Places, Working
<1>7. ASSUME o \in Slots PROVE RefOK(o)' /\ FlagOK(o)'
  <2>1. InTable(o)
    BY <1>a, Zenon DEF InTable
  <2>2. o \in free' \cup snap_freelist' <=> o \in free \cup snap_freelist
    BY <1>0, <1>2, <1>7, AllocRefs, Zenon
  <2>3. /\ obj'[o].refcount = obj[o].refcount /\ obj'[o].snap_flag = obj[o].snap_flag
        /\ obj'[o].marked_deletion
    BY <1>a, <1>0, <1>2, <1>7, PutObj, SMTT(40)
  <2> QED BY <1>0, <1>1, <1>3, <1>5, <1>7, <2>1, <2>2, <2>3, DestroyedSlot, Zenon
<1>8. job'.slot = o
  BY <1>0, BeginDestroyFacts, Zenon DEF Shape, Types, EpochTypes
<1>9. RefOK(s)' /\ FlagOK(s)'
  <2>1. obj'[s].refcount = 2 /\ obj'[s].snap_flag = "LIVE_FRESH"
    BY <1>0, PutObj, SMTT(40)
  <2>2. s \notin free' \cup snap_freelist'
    BY <1>0, AllocRefs, Zenon
  <2>3. ~Flagging(s)' /\ job'.slot # s
    BY <1>2, <1>8, Zenon DEF Flagging
  <2>4. RefOK(s)'
    BY <1>1, <1>2, <1>3, <1>5, <2>1, <2>2, <2>3, SMTT(40) DEF RefOK, ShardRef, WorkerRef, One
  <2>5. FlagOK(s)'
    BY <1>2, <1>3, <1>5, <2>1, <2>3, Zenon DEF FlagOK, Alive
  <2> QED BY <2>4, <2>5, Zenon
<1>10. ASSUME NEW t \in Slots, t # s, t # o PROVE Alone(t)
  <2>1. obj'[t] = obj[t]
    BY <1>a, <1>0, <1>10, PutObj, SMTT(40)
  <2>2. job.slot # t /\ job'.slot # t
    BY <1>8, <1>10, Numbers, Zenon DEF Idle
  <2>3. t \in free' \cup snap_freelist' <=> t \in free \cup snap_freelist
    BY <1>0, <1>10, AllocRefs, Zenon
  <2> QED BY <1>1, <1>3, <1>5, <1>10, <2>1, <2>2, <2>3, Zenon DEF Alone
<1>11. ASSUME NEW t \in Slots PROVE RefOK(t)' /\ FlagOK(t)'
  BY <1>0, <1>7, <1>9, <1>10, LeftAlone, Zenon
<1> QED BY <1>3, <1>6, <1>11, Zenon DEF Refs

---------------------------------------------------------------------------
(* The invariant holds.                                                    *)

\* Every step keeps the shape; a step that leaves bad at Never began there and
\* keeps the references.
LEMMA WorkerStep == ASSUME OpFacts, IInv, Worker PROVE IInv'
<1>0. Shape /\ bad' = bad /\ (bad = Never => Refs)
  BY Zenon DEF IInv, Worker, Wake, TakeWord, Visit, PutEntry, LeavePage, Finish, Rename,
         UnlinkDelta
<1>1. CASE Wake
  BY <1>0, <1>1, WakeShape, WakeRefs, Zenon DEF IInv
<1>2. CASE TakeWord
  BY <1>0, <1>2, TakeWordShape, TakeWordRefs, Zenon DEF IInv
<1>3. CASE Visit
  BY <1>0, <1>3, VisitShape, VisitRefs, Zenon DEF IInv
<1>4. CASE PutEntry
  BY <1>0, <1>4, PutEntryShape, PutEntryRefs, Zenon DEF IInv
<1>5. CASE LeavePage
  BY <1>0, <1>5, LeavePageShape, LeavePageRefs, Zenon DEF IInv
<1>6. CASE Finish
  BY <1>0, <1>6, FinishShape, FinishRefs, Zenon DEF IInv
<1>7. CASE Rename
  BY <1>0, <1>7, RenameShape, RenameRefs, Zenon DEF IInv
<1>8. CASE UnlinkDelta
  BY <1>0, <1>8, UnlinkDeltaShape, UnlinkDeltaRefs, Zenon DEF IInv
<1> QED BY <1>1, <1>2, <1>3, <1>4, <1>5, <1>6, <1>7, <1>8, Zenon DEF Worker

\* Every step of the shard keeps the inductive invariant.
LEMMA ShardStep == ASSUME OpFacts, IInv, Shard PROVE IInv'
<1>0. /\ Shape /\ (bad = Never => Refs) /\ HeapTypes
      /\ bad \in 0..Never /\ current_epoch \in 0..MaxEpoch
  BY Zenon DEF IInv, Shape, Types, EpochTypes
<1>a. ASSUME NEW s \in Slots \cup {NoSlot}, BeginDestroy(s), bad' = Never
      PROVE  bad = Never
  BY <1>0, <1>a, BeginDestroyFacts, Zenon
<1>1. ASSUME NEW k \in Keys, NEW s \in Slots, Set(k, s) PROVE IInv'
  <2>1. Shape'
    BY <1>0, <1>1, SetShape, Zenon
  <2>2. /\ writes + 1 \in 0..MaxWrites /\ job = Idle /\ Put(k, writes + 1, s)
        /\ table[k] \in Slots \cup {NoSlot} /\ BeginDestroy(table[k])
    BY <1>0, <1>1, Numbers DEF Shape, Types, EpochTypes, HeapTypes, Set, Running, Put
  <2>3. bad' = Never => Refs'
    BY <1>0, <1>a, <2>2, PutRefs, Zenon
  <2> QED BY <2>1, <2>3, Zenon DEF IInv
<1>2. ASSUME NEW s \in Slots, Replay(s) PROVE IInv'
  <2> DEFINE e == Head(replay)
  <2>1. Shape'
    BY <1>0, <1>2, ReplayShape, Zenon
  <2>2. replay \in Seq(Entry) /\ replay # << >>
    BY <1>0, <1>2, Zenon DEF Shape, Types, JobTypes, Replay
  <2>3. e \in Entry
    <3> HIDE DEF Entry
    <3> QED BY <2>2
  <2>4. job = Idle /\ Put(e.key, e.val, s)
    BY <1>2, Zenon DEF Replay
  <2> HIDE DEF e
  <2>5. e.key \in Keys /\ e.val \in 0..MaxWrites
    BY <2>3, Zenon DEF Entry
  <2>6. table[e.key] \in Slots \cup {NoSlot} /\ BeginDestroy(table[e.key])
    BY <1>0, <2>4, <2>5, Zenon DEF HeapTypes, Put
  <2>7. bad' = Never => Refs'
    BY <1>0, <1>a, <2>4, <2>5, <2>6, PutRefs, Zenon
  <2> QED BY <2>1, <2>7, Zenon DEF IInv
<1>3. ASSUME NEW k \in Keys, Delete(k) PROVE IInv'
  <2>1. table[k] \in Slots /\ BeginDestroy(table[k])
    BY <1>0, <1>3, DeleteObj, Zenon DEF Delete
  <2>2. bad' = Never => bad = Never
    BY <1>a, <2>1, Zenon
  <2> QED BY <1>0, <1>3, <2>2, DeleteShape, DeleteRefs, Zenon DEF IInv
<1>4. ASSUME NEW k \in Keys, Lend(k) PROVE IInv'
  <2>1. bad' = bad
    BY <1>4, Zenon DEF Lend, auxVars
  <2> QED BY <1>0, <1>4, <2>1, LendShape, LendRefs, Zenon DEF IInv
<1>5. ASSUME NEW s \in Slots, Release(s) PROVE IInv'
  <2>1. bad' = bad
    BY <1>5, Zenon DEF Release, auxVars
  <2> QED BY <1>0, <1>5, <2>1, ReleaseShape, ReleaseRefs, Zenon DEF IInv
<1>6. CASE DestroyFlag
  <2>1. bad' = bad
    BY <1>6, Zenon DEF DestroyFlag, auxVars
  <2> QED BY <1>0, <1>6, <2>1, DestroyFlagShape, DestroyFlagRefs, Zenon DEF IInv
<1>7. CASE DestroyUnref
  <2>1. bad' = bad
    BY <1>7, Zenon DEF DestroyUnref, auxVars
  <2> QED BY <1>0, <1>7, <2>1, DestroyUnrefShape, DestroyUnrefRefs, Zenon DEF IInv
<1>8. CASE Tick
  <2>1. bad' = bad
    BY <1>8, Zenon DEF Tick
  <2> QED BY <1>0, <1>8, <2>1, TickShape, TickRefs, Zenon DEF IInv
<1> QED BY <1>1, <1>2, <1>3, <1>4, <1>5, <1>6, <1>7, <1>8, Zenon DEF Shard

\* So does a step of something else.
LEMMA StutterStep == ASSUME IInv, UNCHANGED vars PROVE IInv'
<1> USE DEF vars, heapVars, activeVars, frozenVars, tickVars, diskVars, auxVars
<1>1. Types'
  BY Zenon DEF IInv, Shape, Types, HeapTypes, BitTypes, JobTypes, EpochTypes, WorkerTypes
<1>2. UsedSlots' /\ WakeOnce' /\ TickWaitsForWorker'
  BY Zenon DEF IInv, Shape, UsedSlots, Used, Working, WakeOnce, TickWaitsForWorker
<1>3. ASSUME Refs PROVE Refs'
  <2>1. Bitmaps' /\ Places'
    BY <1>3, MarksKept, Zenon DEF Refs, Places
  <2>2. ASSUME NEW s \in Slots PROVE Alone(s)
    BY <1>3, MarksKept, Zenon DEF Alone
  <2> QED BY <1>3, <2>1, <2>2, LeftAlone, Zenon DEF Refs
<1> QED BY <1>1, <1>2, <1>3, Zenon DEF IInv, Shape

---------------------------------------------------------------------------
(* The facts that take induction.                                          *)

\* Every turn of the loops of restore and compaction leaves a sequence of
\* entries.
AreEntries(p, q, n, es) == es \in Seq(Entry)
AcceptTurn(es, q, n, kept) == Accept(es, n, kept)
AcceptLoop == INSTANCE Loops WITH Body <- AcceptTurn, Inv <- AreEntries
ReadTurn(d, q, n, es) == es \o d[Len(d) - n + 1]
ReadLoop == INSTANCE Loops WITH Body <- ReadTurn, Inv <- AreEntries

\* The records the restore accepts are records.
LEMMA AcceptedEntries ==
    ASSUME NEW es \in Seq(Entry)
    PROVE  Accepted(es) \in Seq(Entry)
<1>1. AreEntries(es, 0, 0, << >>)
  BY DEF AreEntries
<1>2. \A n \in 1..Len(es) : \A x : AreEntries(es, 0, n - 1, x) =>
                                   AreEntries(es, 0, n, AcceptTurn(es, 0, n, x))
  BY DEF AreEntries, AcceptTurn, Accept
<1>3. AreEntries(es, 0, Len(es), AcceptLoop!Loop(es, 0, << >>, Len(es)))
  BY <1>1, <1>2, AcceptLoop!LoopInvariant
<1>4. Accepted(es) = AcceptLoop!Loop(es, 0, << >>, Len(es))
  BY Zenon DEF Accepted, AcceptTurn, AcceptLoop!Loop, AcceptLoop!IsRun
<1> QED BY <1>3, <1>4, Zenon DEF AreEntries

\* So are those compaction reads from the base and its deltas.
LEMMA EntriesReadEntries ==
    ASSUME NEW b, b.ents \in Seq(Entry), NEW d \in Seq(Seq(Entry))
    PROVE  EntriesRead(b, d) \in Seq(Entry)
<1> DEFINE start == b.ents
<1>1. AreEntries(d, 0, 0, start)
  BY Zenon DEF AreEntries
<1>2. \A n \in 1..Len(d) : \A x : AreEntries(d, 0, n - 1, x) =>
                                  AreEntries(d, 0, n, ReadTurn(d, 0, n, x))
  BY DEF AreEntries, ReadTurn
<1>3. AreEntries(d, 0, Len(d), ReadLoop!Loop(d, 0, start, Len(d)))
  <2>1. Len(d) \in Nat
    OBVIOUS
  <2> HIDE DEF start
  <2> QED BY <1>1, <1>2, <2>1, ReadLoop!LoopInvariant, Zenon
<1>4. EntriesRead(b, d) = ReadLoop!Loop(d, 0, start, Len(d))
  BY Zenon DEF EntriesRead, ReadTurn, ReadLoop!Loop, ReadLoop!IsRun
<1> QED BY <1>3, <1>4, Zenon DEF AreEntries

\* The facts about folds and least elements that the lemmas above assume.
LEMMA OperatorFacts == OpFacts
  BY ReadLoop!LeastNat, AcceptedEntries, EntriesReadEntries, Zenon DEF OpFacts, Min

\* An empty shard meets the inductive invariant.
LEMMA InitIInv == Init => IInv
<1> SUFFICES ASSUME Init PROVE IInv
  BY Zenon
<1>1. Fresh
  BY Zenon DEF Init, Fresh
<1>2. JobTypes
  BY <1>1, FreshShape DEF JobTypes, Init
<1>3. EpochTypes
  <2>1. /\ is_snapshotting = FALSE /\ current_epoch = 0 /\ snap_eventfd = FALSE
        /\ writes = 0 /\ ticks = 0 /\ bad = Never
    BY Zenon DEF Init
  <2>2. 0 \in 0..MaxEpoch /\ 0 \in 0..MaxWrites /\ bad \in 0..Never
    BY <2>1, Numbers
  <2>3. current_epoch <= ticks
    BY <2>1
  <2> QED BY <2>1, <2>2, <2>3, Zenon DEF EpochTypes
<1>4. WorkerTypes
  <2>1. << >> \in Seq(Entry)
    OBVIOUS
  <2> HIDE DEF Entry
  <2>2. deltas \in [1..MaxEpoch -> Seq(Entry)]
    BY <2>1, Zenon DEF Init
  <2>3. base \in [epoch : 0..MaxEpoch, ents : Seq(Entry)]
    BY <2>1, Numbers DEF Init
  <2> QED BY <1>1, <2>2, <2>3, FreshShape, Zenon DEF WorkerTypes
<1> QED BY <1>1, <1>2, <1>3, <1>4, FreshShape, FreshRefs, Zenon DEF IInv, Shape, Types

\* Every step of shard, worker and crash keeps the inductive invariant.
LEMMA StepIInv == IInv /\ [Next]_vars => IInv'
<1> SUFFICES ASSUME OpFacts, IInv, [Next]_vars PROVE IInv'
  BY OperatorFacts, Zenon
<1>1. CASE Worker
  BY <1>1, WorkerStep, Zenon
<1>2. CASE Shard
  BY <1>2, ShardStep, Zenon
<1>3. CASE EpochFails
  BY <1>3, EpochFailsShape, Zenon DEF IInv
<1>4. CASE CompactFails
  BY <1>4, CompactFailsShape, Zenon DEF IInv
<1>5. CASE Restart
  BY <1>5, RestartIInv, Zenon DEF IInv
<1>6. CASE UNCHANGED vars
  BY <1>6, StutterStep, Zenon
<1> QED BY <1>1, <1>2, <1>3, <1>4, <1>5, <1>6 DEF Next

\* The inductive invariant holds throughout.
LEMMA SpecIInv == Spec => []IInv
  BY InitIInv, StepIInv, PTL DEF Spec

---------------------------------------------------------------------------
(* The theorems.                                                           *)

\* Every variable always has the shape of the field or file it stands for;
\* the reference counters of struct kv_obj stay within their width.
THEOREM SnapshotTyped == Spec => []TypeOK
<1>1. IInv => TypeOK
  BY TypesTypeOK, Zenon DEF IInv, Shape
<1> QED BY <1>1, SpecIInv, PTL

\* is_snapshotting (snap_engine_tick) is set exactly while a worker is writing
\* or has been woken, whatever fails.
THEOREM TickWaits == Spec => []TickWaitsForWorker
<1>1. IInv => TickWaitsForWorker
  BY Zenon DEF IInv, Shape
<1> QED BY <1>1, SpecIInv, PTL

\* shard_obj_unref and the worker's snap_obj_unref never free the slot of an
\* object a key leads to or another shard still reads, in a behaviour without
\* a failed epoch or a deletion behind the worker's back.
THEOREM NeverFreedEarly == Spec => []NoEarlyFree
<1>1. IInv => NoEarlyFree
  <2> SUFFICES ASSUME IInv, bad = Never, NEW s \in Slots, s \in lent \/ InTable(s)
               PROVE  s \notin free \cup snap_freelist
    BY Zenon DEF NoEarlyFree, InTable
  <2>1. RefOK(s)
    BY Zenon DEF IInv, Refs
  <2> QED BY <2>1 DEF RefOK, ShardRef, WorkerRef, One
<1> QED BY <1>1, SpecIInv, PTL

\* A slot that is neither free nor in use is on its way back: it waits for a
\* visit of the worker or sits where pool_snap_merge will find it.  The same
\* behaviours are meant.
THEOREM SlotsComeBack == Spec => []NoSlotLost
<1>1. IInv => NoSlotLost
  <2> SUFFICES ASSUME IInv, bad = Never, NEW s \in Slots \ free
               PROVE  \/ s \in lent \/ job.slot = s \/ \E k \in Keys : table[k] = s
                      \/ s \in slot_bits /\ PageOf[s] \in dirty_bits
                      \/ WorkerWillVisit(s)
                      \/ /\ s \in snap_freelist
                         /\ PageOf[s] \in LargePages \cup to_merge \cup {w.page}
    BY Zenon DEF NoSlotLost
  <2>1. RefOK(s) /\ Refs /\ Shape
    BY Zenon DEF IInv, Refs
  <2>2. CASE s \in snap_freelist
    BY <2>1, <2>2, Zenon DEF Refs, Places
  <2>3. CASE s \notin snap_freelist
    <3>1. obj[s].refcount # 0
      BY <2>1, <2>3, Zenon DEF RefOK
    <3>2. ShardRef(s) \/ WorkerRef(s) \/ s \in lent
      BY <2>1, <3>1 DEF RefOK, One
    <3>3. Coming(s) \/ Dropping(s) => WorkerWillVisit(s)
      BY <2>1, Zenon DEF Coming, Dropping, WorkerWillVisit, Shape, UsedSlots
    <3> QED BY <3>2, <3>3, Zenon DEF ShardRef, WorkerRef, InTable, Marked
  <2> QED BY <2>2, <2>3, Zenon
<1> QED BY <1>1, SpecIInv, PTL
============================================================================
