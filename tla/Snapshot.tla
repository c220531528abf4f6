----------------------------- MODULE Snapshot -----------------------------
(***************************************************************************)
(* Incremental snapshots of one shard (core/snapshot.c) and the life of a  *)
(* key object while they are taken (core/shard.c).                         *)
(*                                                                         *)
(* The shard thread marks the slots it touches in the active bitmaps.  A   *)
(* tick swaps them with the frozen ones and wakes the worker thread, which *)
(* writes the marked slots to a delta file, lets the next tick happen, and *)
(* then merges the delta into the base file.  An object carries one        *)
(* reference for the shard and one for the worker, and a flag on which the *)
(* two threads race when it is deleted during a snapshot.                  *)
(*                                                                         *)
(* Every step makes at most one access to what both threads use.  A crash  *)
(* loses everything but the files; what a restart at this moment would     *)
(* load is Restored, so the properties about it quantify over crashes at   *)
(* every step.                                                             *)
(***************************************************************************)
EXTENDS Integers, Sequences, FiniteSets, FiniteSetsExt

CONSTANTS
    Keys,
    Slots,          \* memory slots, numbered in address order
    PageOf,         \* logical page of a slot
    WordOf,         \* word of the dirty bitmap a page belongs to
    LargePages,     \* pages of objects that come from the buddy allocator
    MaxWrites,      \* bound: SET commands; the n-th one writes value n
    MaxEpoch,       \* bound: ticks, over all runs of the server
    MaxLent,        \* bound: objects lent at a time
    MaxFaults       \* bound: failing file operations and crashes

NoSlot == 0
NoKey  == "none"
Pages  == {PageOf[s] : s \in Slots}
SlotsOf(p) == {s \in Slots : PageOf[s] = p}

ASSUME SlotsAssumption == Slots \subseteq Nat \ {0} /\ IsFiniteSet(Slots)
ASSUME PagesAssumption == PageOf \in [Slots -> Nat] /\ WordOf \in [Pages -> Nat]
\* A large object has pages of its own.
ASSUME LargeAssumption ==
    \A s, t \in Slots : PageOf[s] = PageOf[t] /\ PageOf[s] \in LargePages => s = t
ASSUME BoundsAssumption == {MaxWrites, MaxEpoch, MaxLent, MaxFaults} \subseteq Nat

VARIABLES
    table,                  \* slot of the object of a key
    obj,                    \* struct kv_obj in every slot
    lent,                   \* slots lent to another shard for a reply
    free,                   \* slots in the free lists of the shard
    snap_freelist,          \* slots freed by the worker
    to_merge,               \* spans handed back by the worker (merge_queue)
    dirty_bits, slot_bits,  \* active bitmaps
    snap_dirty_bits, snap_slot_bits,
    is_snapshotting, current_epoch, snap_eventfd,
    job,                    \* shard_obj_destroy in progress
    replay,                 \* entries snap_engine_restore has yet to set
    w,                      \* the worker: where it is, its local variables
    base, deltas            \* the files

\* Auxiliary variables: SETs, ticks and failures so far; the contents of the
\* shard at the ticks that are not yet overtaken by the base; the first epoch
\* in which a write failed or an object was deleted between the clearing of
\* its page's word and its visit.
VARIABLES writes, ticks, fails, session, ticked, bad

heapVars  == <<table, obj, lent, free, snap_freelist, to_merge>>
activeVars == <<dirty_bits, slot_bits>>
frozenVars == <<snap_dirty_bits, snap_slot_bits>>
tickVars  == <<is_snapshotting, current_epoch, snap_eventfd>>
diskVars  == <<base, deltas>>
auxVars   == <<writes, ticks, fails, session, ticked, bad>>
vars == <<heapVars, activeVars, frozenVars, tickVars, job, replay, w,
          diskVars, auxVars>>

Flags == {"LIVE_FRESH", "DEAD_SAFE", "DEAD_PENDING", "LIVE_VISITED"}
Idle  == [pc |-> "idle", slot |-> NoSlot, visit |-> FALSE]
Asleep == [pc |-> "asleep", word |-> {}, page |-> 0, slot |-> NoSlot,
           deleted |-> FALSE, epoch |-> 0, ents |-> << >>]

\* The value a key has now; 0 if it has none.
Nothing  == [k \in Keys |-> 0]
Contents == [k \in Keys |-> IF table[k] = NoSlot THEN 0 ELSE obj[table[k]].val]

---------------------------------------------------------------------------
(* Restore: the base first, then the deltas from the newest to the oldest; *)
(* of the entries with the same slot only the first one counts.  Entries   *)
(* have no expiry time here.                                               *)

EntriesRead(b, d) ==
    LET read[n \in 0..Len(d)] ==
          IF n = 0 THEN b.ents ELSE read[n-1] \o d[Len(d) - n + 1]
    IN  read[Len(d)]

\* dedup_insert is called for tombstones too.
FirstOfSlot(es) ==
    {i \in 1..Len(es) : \A j \in 1..i-1 : es[j].slot # es[i].slot}

Accept(es, n, kept) ==
    IF n \in FirstOfSlot(es) /\ ~es[n].deleted THEN Append(kept, es[n]) ELSE kept

Accepted(es) ==
    LET kept[n \in 0..Len(es)] ==
          IF n = 0 THEN << >> ELSE Accept(es, n, kept[n-1])
    IN  kept[Len(es)]

\* What shard_key_set leaves after all accepted entries, in this order.
Restored(b, d) ==
    LET es == Accepted(EntriesRead(b, d))
        at(k) == {i \in 1..Len(es) : es[i].key = k}
    IN  [k \in Keys |-> IF at(k) = {} THEN 0 ELSE es[Max(at(k))].val]

\* snap_compact_delta_into_base: the entries of the delta, then those of the
\* old base whose slot the delta does not mention; tombstones are dropped.
Compacted(b, delta) == Accepted(delta \o b.ents)

---------------------------------------------------------------------------
(* The shard thread.                                                       *)

Running == job = Idle /\ replay = << >>

\* The free slots after pool_snap_merge of the spans in ps.
Merged(ps) == free \cup {s \in snap_freelist : PageOf[s] \in ps}

\* Small objects come from a span with a free slot, and only if there is none
\* from the spans the worker handed back.  Large ones come from the buddy
\* allocator, to which the worker's frees return at the next tick.
Small(S) == {s \in S : PageOf[s] \notin LargePages}

MustMerge(s) == PageOf[s] \notin LargePages /\ Small(free) = {}

Alloc(s) ==
    /\ s \in IF MustMerge(s) THEN Merged(to_merge) ELSE free
    /\ IF MustMerge(s)
       THEN /\ free' = Merged(to_merge) \ {s}
            /\ snap_freelist' = snap_freelist \ Merged(to_merge)
            /\ to_merge' = {}
       ELSE free' = free \ {s} /\ UNCHANGED <<snap_freelist, to_merge>>

\* snap_obj_mark, for all objects an operation touches.
\* Mutant of Mark: a slot the worker is about to visit is not marked again.
MarkUnlessFrozen(S) ==
    /\ dirty_bits' = dirty_bits \cup {PageOf[s] : s \in S \ snap_slot_bits}
    /\ slot_bits' = slot_bits \cup (S \ snap_slot_bits)

Mark(S) ==
    /\ dirty_bits' = dirty_bits \cup {PageOf[s] : s \in S}
    /\ slot_bits' = slot_bits \cup S

\* Mutant of SnapWillVisit: the active bitmaps are tested.
SnapWillVisitActive(s) ==
    is_snapshotting /\ PageOf[s] \in dirty_bits /\ s \in slot_bits

SnapWillVisit(s) ==
    is_snapshotting /\ PageOf[s] \in snap_dirty_bits /\ s \in snap_slot_bits

\* The worker has cleared the word of the page, but has not come to the slot.
Overtaken(s) ==
    /\ s \in snap_slot_bits
    /\ \/ PageOf[s] \in w.word
       \/ PageOf[s] = w.page /\ w.pc = "visit" /\ s >= w.slot
       \/ PageOf[s] = w.page /\ w.pc = "put" /\ s > w.slot

\* shard_obj_destroy up to the test whether the worker will visit the slot.
BeginDestroy(s) ==
    IF s = NoSlot THEN job' = Idle /\ UNCHANGED bad
    ELSE /\ job' = [pc |-> "flag", slot |-> s, visit |-> SnapWillVisit(s)]
         /\ bad' = IF Overtaken(s) THEN Min({bad, current_epoch}) ELSE bad

\* shard_key_set after the NX and XX tests: a new object, then the old one goes.
Put(k, v, s) ==
    /\ Alloc(s)
    /\ obj' = [obj EXCEPT
                 ![s] = [key |-> k, val |-> v, refcount |-> 2,
                         snap_flag |-> "LIVE_FRESH", marked_deletion |-> FALSE],
                 ![table[k]].marked_deletion = TRUE]
    /\ table' = [table EXCEPT ![k] = s]
    /\ Mark({s} \cup ({table[k]} \ {NoSlot}))
    /\ BeginDestroy(table[k])
    /\ UNCHANGED <<lent, frozenVars, tickVars, w, diskVars, ticks, fails, session,
                   ticked>>

Set(k, s) ==
    /\ Running
    /\ writes < MaxWrites
    /\ writes' = writes + 1
    /\ Put(k, writes + 1, s)
    /\ UNCHANGED replay

Delete(k) ==
    /\ Running
    /\ table[k] # NoSlot
    /\ table' = [table EXCEPT ![k] = NoSlot]
    /\ obj' = [obj EXCEPT ![table[k]].marked_deletion = TRUE]
    /\ Mark({table[k]})
    /\ BeginDestroy(table[k])
    /\ UNCHANGED <<lent, free, snap_freelist, to_merge, frozenVars, tickVars,
                   replay, w, diskVars, writes, ticks, fails, session, ticked>>

\* The shard's only access to snap_flag.
DestroyFlag ==
    /\ job.pc = "flag"
    /\ obj' = [obj EXCEPT ![job.slot].snap_flag =
                 IF job.visit /\ @ = "LIVE_FRESH" THEN "DEAD_PENDING" ELSE "DEAD_SAFE"]
    /\ job' = [job EXCEPT !.pc = "unref"]
    /\ UNCHANGED <<table, lent, free, snap_freelist, to_merge, activeVars,
                   frozenVars, tickVars, replay, w, diskVars, auxVars>>

\* The counter is unsigned: below zero it is a very large number, for which
\* RefLimit - 1 stands.
RefLimit == 65536
Incremented(n) == (n + 1) % RefLimit
Decremented(n) == (n - 1) % RefLimit

\* shard_obj_unref: the last reference frees an object marked for deletion.
Unref(s) ==
    /\ obj' = [obj EXCEPT ![s].refcount = Decremented(@)]
    /\ free' = IF obj[s].refcount = 1 /\ obj[s].marked_deletion
               THEN free \cup {s} ELSE free

DestroyUnref ==
    /\ job.pc = "unref"
    /\ Unref(job.slot)
    /\ job' = Idle
    /\ UNCHANGED <<table, lent, snap_freelist, to_merge, activeVars, frozenVars,
                   tickVars, replay, w, diskVars, auxVars>>

\* A GET from another shard takes a reference, which comes back in a message
\* once the reply is written.
Lend(k) ==
    /\ Running
    /\ table[k] \notin lent \cup {NoSlot}
    /\ Cardinality(lent) < MaxLent
    /\ lent' = lent \cup {table[k]}
    /\ obj' = [obj EXCEPT ![table[k]].refcount = Incremented(@)]
    /\ UNCHANGED <<table, free, snap_freelist, to_merge, activeVars, frozenVars,
                   tickVars, job, replay, w, diskVars, auxVars>>

Release(s) ==
    /\ Running
    /\ s \in lent
    /\ lent' = lent \ {s}
    /\ Unref(s)
    /\ UNCHANGED <<table, snap_freelist, to_merge, activeVars, frozenVars,
                   tickVars, job, replay, w, diskVars, auxVars>>

\* snap_engine_tick: merge what the worker freed, swap the bitmaps, wake it.
Tick ==
    /\ Running
    /\ ticks < MaxEpoch
    /\ ticks' = ticks + 1
    /\ ~is_snapshotting
    /\ is_snapshotting' = TRUE
    /\ free' = Merged(to_merge \cup LargePages)
    /\ snap_freelist' = snap_freelist \ Merged(to_merge \cup LargePages)
    /\ to_merge' = {}
    /\ current_epoch' = current_epoch + 1
    /\ dirty_bits' = snap_dirty_bits /\ snap_dirty_bits' = dirty_bits
    /\ slot_bits' = snap_slot_bits /\ snap_slot_bits' = slot_bits
    /\ snap_eventfd' = TRUE
    /\ ticked' = IF session = 1 THEN [ticked EXCEPT ![current_epoch + 1] = Contents]
                 ELSE ticked
    /\ UNCHANGED <<table, obj, lent, job, replay, w, diskVars, writes, fails,
                   session, bad>>

---------------------------------------------------------------------------
(* The worker thread.                                                      *)

serving   == <<table, lent, activeVars, current_epoch, job, replay, writes,
               ticks, session>>
shardVars == <<serving, ticked>>
slotVars  == <<obj, free, snap_freelist, to_merge>>

\* snap_background_worker: read the eventfd, open the delta file.
Wake ==
    /\ w.pc = "asleep"
    /\ snap_eventfd
    /\ snap_eventfd' = FALSE
    /\ w' = [w EXCEPT !.pc = "word", !.epoch = current_epoch]
    /\ deltas' = [deltas EXCEPT ![current_epoch] = << >>]
    /\ UNCHANGED <<shardVars, slotVars, frozenVars, is_snapshotting, base, fails, bad>>

ModifiedSlots(p) == SlotsOf(p) \cap snap_slot_bits

\* A page without a marked slot is skipped, and so is a large page whose
\* object is gone (its slot bit stays).
Skipped(p) == \/ ModifiedSlots(p) = {}
              \/ p \in LargePages /\ SlotsOf(p) \subseteq free

\* The first slot to visit in the pages ps of a word, or the next word.
FirstSlot(v, ps) ==
    LET todo == {p \in ps : ~Skipped(p)}
    IN  IF todo = {} THEN [v EXCEPT !.pc = "word", !.word = {}, !.page = 0]
        ELSE [v EXCEPT !.pc = "visit", !.word = {p \in ps : p > Min(todo)},
                       !.page = Min(todo), !.slot = Min(ModifiedSlots(Min(todo)))]

\* The word is read and cleared before the first of its pages is visited.
TakeWord ==
    /\ w.pc = "word"
    /\ IF snap_dirty_bits = {}
       THEN w' = [w EXCEPT !.pc = "finish"] /\ UNCHANGED snap_dirty_bits
       ELSE LET i  == Min({WordOf[p] : p \in snap_dirty_bits})
                ps == {p \in snap_dirty_bits : WordOf[p] = i}
            IN  /\ w' = FirstSlot(w, ps)
                /\ snap_dirty_bits' = snap_dirty_bits \ ps
    /\ UNCHANGED <<shardVars, slotVars, snap_slot_bits, is_snapshotting,
                   snap_eventfd, diskVars, fails, bad>>

\* What a visit makes of the flag.
Visited(flag) ==
    CASE flag = "LIVE_FRESH" -> "LIVE_VISITED"
      [] flag = "DEAD_PENDING" -> "DEAD_SAFE"
      [] OTHER -> flag

Visit ==
    /\ w.pc = "visit"
    /\ obj' = [obj EXCEPT ![w.slot].snap_flag = Visited(@)]
    /\ w' = [w EXCEPT !.pc = "put", !.deleted = obj[w.slot].snap_flag = "DEAD_SAFE"]
    /\ UNCHANGED <<shardVars, free, snap_freelist, to_merge, frozenVars,
                   is_snapshotting, snap_eventfd, diskVars, fails, bad>>

\* After a slot: the next marked slot of the page, or the end of the page.
AfterSlot(v) ==
    LET rest == {s \in ModifiedSlots(v.page) : s > v.slot}
    IN  IF rest = {} THEN [v EXCEPT !.pc = "leave", !.slot = NoSlot, !.deleted = FALSE]
        ELSE [v EXCEPT !.pc = "visit", !.slot = Min(rest), !.deleted = FALSE]

\* The entry with the object's key and value, or the tombstone of a dead one,
\* whose reference of the worker is then dropped.
WithEntry(v) ==
    [v EXCEPT !.ents = Append(@, [slot |-> v.slot, deleted |-> v.deleted,
                                  key |-> obj[v.slot].key, val |-> obj[v.slot].val])]

\* Mutant of PutEntry: the worker frees the object whoever still uses it.
PutEntryFrees ==
    /\ w.pc = "put"
    /\ w' = AfterSlot(WithEntry(w))
    /\ obj' = IF w.deleted THEN [obj EXCEPT ![w.slot].refcount = Decremented(@)] ELSE obj
    /\ snap_freelist' = IF w.deleted THEN snap_freelist \cup {w.slot} ELSE snap_freelist
    /\ UNCHANGED <<shardVars, free, to_merge, frozenVars, is_snapshotting,
                   snap_eventfd, diskVars, fails, bad>>

PutEntry ==
    /\ w.pc = "put"
    /\ w' = AfterSlot(WithEntry(w))
    /\ obj' = IF w.deleted THEN [obj EXCEPT ![w.slot].refcount = Decremented(@)] ELSE obj
    /\ snap_freelist' = IF w.deleted /\ obj[w.slot].refcount = 1
                        THEN snap_freelist \cup {w.slot} ELSE snap_freelist
    /\ UNCHANGED <<shardVars, free, to_merge, frozenVars, is_snapshotting,
                   snap_eventfd, diskVars, fails, bad>>

\* The slot bits of the page are cleared and its span handed to the pool if
\* anything was freed in it.
LeavePage ==
    /\ w.pc = "leave"
    /\ snap_slot_bits' = snap_slot_bits \ SlotsOf(w.page)
    /\ to_merge' = IF w.page \notin LargePages /\ SlotsOf(w.page) \cap snap_freelist # {}
                   THEN to_merge \cup {w.page} ELSE to_merge
    /\ w' = FirstSlot(w, w.word)
    /\ UNCHANGED <<shardVars, obj, free, snap_freelist, snap_dirty_bits,
                   is_snapshotting, snap_eventfd, diskVars, fails, bad>>

\* The delta is complete: its header gets the number of records, and the
\* shard may tick again.
Finish ==
    /\ w.pc = "finish"
    /\ deltas' = [deltas EXCEPT ![w.epoch] = w.ents]
    /\ is_snapshotting' = FALSE
    /\ w' = [w EXCEPT !.pc = "compact", !.ents = << >>]
    /\ UNCHANGED <<shardVars, slotVars, frozenVars, snap_eventfd, base, fails, bad>>

\* Compaction writes a temporary file and renames it over the base.
Rename ==
    /\ w.pc = "compact"
    /\ base' = [epoch |-> w.epoch, ents |-> Compacted(base, deltas[w.epoch])]
    /\ w' = [w EXCEPT !.pc = "unlink"]
    /\ ticked' = [ticked EXCEPT ![w.epoch - 1] = Nothing]
    /\ UNCHANGED <<serving, slotVars, frozenVars, is_snapshotting,
                   snap_eventfd, deltas, fails, bad>>

UnlinkDelta ==
    /\ w.pc = "unlink"
    /\ deltas' = [deltas EXCEPT ![w.epoch] = << >>]
    /\ w' = Asleep
    /\ UNCHANGED <<shardVars, slotVars, frozenVars, is_snapshotting,
                   snap_eventfd, base, fails, bad>>

\* A file operation of the epoch fails: the file cannot be opened or written
\* (what was written is unlinked), or it is written and cannot be closed.
\* The worker goes back to sleep; the dirty bits it took are gone.
\* Mutant of EpochFails: the error path returns before is_snapshotting is reset.
EpochFailsLocked ==
    /\ fails < MaxFaults
    /\ w.pc \in {"word", "put", "finish"}
    /\ deltas' = [deltas EXCEPT ![w.epoch] = << >>]
    /\ fails' = fails + 1
    /\ bad' = Min({bad, w.epoch})
    /\ w' = Asleep
    /\ UNCHANGED <<shardVars, slotVars, frozenVars, is_snapshotting, snap_eventfd, base>>

EpochFails ==
    /\ fails < MaxFaults
    /\ \/ /\ w.pc \in {"word", "put", "finish"}
          /\ deltas' = [deltas EXCEPT ![w.epoch] = << >>]
       \/ /\ w.pc = "finish"
          /\ deltas' = [deltas EXCEPT ![w.epoch] = w.ents]
    /\ fails' = fails + 1
    /\ bad' = Min({bad, w.epoch})
    /\ is_snapshotting' = FALSE
    /\ w' = Asleep
    /\ UNCHANGED <<shardVars, slotVars, frozenVars, snap_eventfd, base>>

\* Compaction fails: the delta stays, and no later compaction reads it.
CompactFails ==
    /\ fails < MaxFaults
    /\ w.pc = "compact"
    /\ fails' = fails + 1
    /\ bad' = Min({bad, w.epoch})
    /\ w' = Asleep
    /\ UNCHANGED <<shardVars, slotVars, frozenVars, is_snapshotting,
                   snap_eventfd, diskVars>>

---------------------------------------------------------------------------
(* Crash and restart: memory is gone, snap_engine_restore sets the accepted *)
(* entries one after the other before the shard serves commands.           *)

NoObj == [key |-> NoKey, val |-> 0, refcount |-> 0,
          snap_flag |-> "LIVE_FRESH", marked_deletion |-> FALSE]
Never == MaxEpoch + 1

Empty ==
    /\ table' = [k \in Keys |-> NoSlot]
    /\ obj' = [s \in Slots |-> NoObj]
    /\ lent' = {} /\ free' = Slots /\ snap_freelist' = {} /\ to_merge' = {}
    /\ dirty_bits' = {} /\ slot_bits' = {}
    /\ snap_dirty_bits' = {} /\ snap_slot_bits' = {}
    /\ is_snapshotting' = FALSE /\ current_epoch' = 0 /\ snap_eventfd' = FALSE
    /\ job' = Idle /\ w' = Asleep

Restart ==
    /\ fails < MaxFaults
    /\ fails' = fails + 1
    /\ Empty
    /\ replay' = Accepted(EntriesRead(base, deltas))
    /\ session' = session + 1
    /\ ticked' = [e \in 0..MaxEpoch |-> Nothing]
    /\ UNCHANGED <<diskVars, writes, ticks, bad>>

Replay(s) ==
    /\ job = Idle
    /\ replay # << >>
    /\ Put(Head(replay).key, Head(replay).val, s)
    /\ replay' = Tail(replay)
    /\ UNCHANGED writes

Init ==
    /\ table = [k \in Keys |-> NoSlot]
    /\ obj = [s \in Slots |-> NoObj]
    /\ lent = {} /\ free = Slots /\ snap_freelist = {} /\ to_merge = {}
    /\ dirty_bits = {} /\ slot_bits = {}
    /\ snap_dirty_bits = {} /\ snap_slot_bits = {}
    /\ is_snapshotting = FALSE /\ current_epoch = 0 /\ snap_eventfd = FALSE
    /\ job = Idle /\ replay = << >> /\ w = Asleep
    /\ base = [epoch |-> 0, ents |-> << >>]
    /\ deltas = [e \in 1..MaxEpoch |-> << >>]
    /\ writes = 0 /\ ticks = 0 /\ fails = 0 /\ session = 1 /\ bad = Never
    /\ ticked = [e \in 0..MaxEpoch |-> Nothing]

Worker == \/ Wake \/ TakeWord \/ Visit \/ PutEntry \/ LeavePage
          \/ Finish \/ Rename \/ UnlinkDelta
Shard  == \/ \E k \in Keys, s \in Slots : Set(k, s)
          \/ \E k \in Keys : Delete(k) \/ Lend(k)
          \/ \E s \in Slots : Release(s) \/ Replay(s)
          \/ DestroyFlag \/ DestroyUnref \/ Tick

Next == Worker \/ Shard \/ EpochFails \/ CompactFails \/ Restart

Spec == Init /\ [][Next]_vars

---------------------------------------------------------------------------
(* Properties.                                                             *)

Entry == [slot : Slots, deleted : BOOLEAN, key : Keys, val : 0..MaxWrites]

\* Every variable has the shape of the field or file it stands for.
TypeOK ==
    /\ table \in [Keys -> Slots \cup {NoSlot}]
    /\ obj \in [Slots -> [key : Keys \cup {NoKey}, val : 0..MaxWrites, refcount : 0..RefLimit-1,
                          snap_flag : Flags, marked_deletion : BOOLEAN]]
    /\ lent \cup free \cup snap_freelist \subseteq Slots
    /\ to_merge \subseteq Pages \ LargePages
    /\ dirty_bits \cup snap_dirty_bits \subseteq Pages
    /\ slot_bits \cup snap_slot_bits \subseteq Slots
    /\ is_snapshotting \in BOOLEAN /\ snap_eventfd \in BOOLEAN
    /\ current_epoch \in 0..MaxEpoch
    /\ job.pc \in {"idle", "flag", "unref"} /\ job.slot \in Slots \cup {NoSlot}
    /\ w.word \subseteq Pages /\ w.slot \in Slots \cup {NoSlot}
    /\ \A i \in DOMAIN w.ents : w.ents[i] \in Entry
    /\ \A i \in DOMAIN base.ents : base.ents[i] \in Entry
    /\ DOMAIN deltas = 1..MaxEpoch
    /\ \A e \in 1..MaxEpoch : \A i \in DOMAIN deltas[e] : deltas[e][i] \in Entry

\* A crash at any step, once epoch e is compacted and no newer delta exists,
\* restores exactly what the shard held at tick e, in spite of the SETs and
\* DELs the shard went on serving while the worker wrote: the protocol of
\* snap_flag in shard_obj_destroy and snap_serialize_epoch makes every
\* snapshot the picture of one moment.  Excepted are the epochs from the
\* first failed write, and from the first deletion of an object whose page's
\* word was cleared before its visit (line 342 of snapshot.c).
RestoreExact ==
    (session = 1 /\ base.epoch < bad
       /\ \A e \in base.epoch+1..MaxEpoch : deltas[e] = << >>)
    => Restored(base, deltas) = ticked[base.epoch]

\* The two references of an object (shard and worker) never let its slot be
\* freed while a key leads to it or another shard still reads it.
NoEarlyFree ==
    bad = Never =>
      \A s \in Slots :
        (s \in lent \/ \E k \in Keys : table[k] = s)
          => s \notin free \cup snap_freelist

WorkerWillVisit(s) ==
    /\ s \in snap_slot_bits
    /\ PageOf[s] \in snap_dirty_bits \cup w.word \/ PageOf[s] = w.page

\* No slot is lost: one that is neither free nor in use waits for a visit of
\* the worker, now or after the next tick, or sits in a span that was handed
\* back.  A deletion during a snapshot must therefore mark the active bitmaps
\* even when the frozen ones already have the slot.
NoSlotLost ==
    bad = Never =>
      \A s \in Slots \ free :
        \/ s \in lent \/ job.slot = s \/ \E k \in Keys : table[k] = s
        \/ s \in slot_bits /\ PageOf[s] \in dirty_bits
        \/ WorkerWillVisit(s)
        \/ /\ s \in snap_freelist
           /\ PageOf[s] \in LargePages \cup to_merge \cup {w.page}

\* The next tick waits for a worker that is writing or has been woken, and for
\* nothing else: no error path of the epoch leaves is_snapshotting set, and
\* none resets it while the frozen bitmaps are in use.
TickWaitsForWorker ==
    is_snapshotting <=>
      snap_eventfd \/ w.pc \notin {"asleep", "compact", "unlink"}

\* snapshot.h on snap_engine_restore: the files are read newest first, so the
\* newest entry of a slot wins.  (Files of one run of the server, no window.)
NewestWins ==
    (session = 1 /\ bad = Never) =>
      \E e \in base.epoch..MaxEpoch :
        /\ \A f \in e+1..MaxEpoch : deltas[f] = << >>
        /\ Restored(base, deltas) = ticked[e]
===========================================================================
