------------------------------- MODULE Mset -------------------------------
(***************************************************************************)
(* The asynchronous MSET protocol of core/mset_exec.c: two phases over the *)
(* shards that own the keys, per-key locks with wound-wait, early commit   *)
(* by whoever meets a fully prepared holder, and back-pressure on the      *)
(* coordinator.                                                            *)
(*                                                                         *)
(* A shard is a single thread that runs one handler at a time.  Handlers   *)
(* nest (a prepare commits another MSET early, whose commit promotes a     *)
(* third one, whose commit ...), so each shard has a stack of frames: the  *)
(* calls that remain to be made.  One step of a shard makes at most one    *)
(* access to what other shards touch: the counters and list heads of an    *)
(* mset_stat, or a queue.  The state of a key belongs to its shard alone.  *)
(*                                                                         *)
(* An object is a pair <<t, i>>: the value MSET t gives in its i-th        *)
(* key-value pair, or <<None, k>>: the value key k had at the start.       *)
(***************************************************************************)
EXTENDS Integers, Sequences, SequencesExt, FiniteSets

CONSTANTS
    N,            \* number of shards
    Keys, Txns, Conns,
    None,         \* NULL
    Owner,        \* shard_for_key
    Home,         \* the shard whose reactor accepted the connection
    Prog,         \* the MSETs a connection sends, in order
    Pairs,        \* the keys of an MSET's pairs, in order
    Present,      \* keys that may exist at the start
    Cap,          \* slots in a connection's pipeline
    MaxInflight,  \* mset_max_concurrent
    MaxOom        \* bound: allocations that fail in one behaviour

Shards == 0 .. N-1

ASSUME ShardAssumption == N \in Nat \ {0} /\ Owner \in [Keys -> Shards]
                          /\ Home \in [Conns -> Shards]
ASSUME ProgAssumption ==
    /\ Prog \in [Conns -> Seq(Txns)] /\ Pairs \in [Txns -> Seq(Keys)]
    /\ \A t \in Txns : Pairs[t] # << >>
    /\ \A t \in Txns : \E c \in Conns : \E p \in DOMAIN Prog[c] : Prog[c][p] = t
ASSUME NoneAssumption == None \notin Txns \union Keys
ASSUME LimitAssumption == Cap \in Nat \ {0} /\ MaxInflight \in Nat \ {0}
                          /\ MaxOom \in Nat /\ Present \subseteq Keys

VARIABLES
    ht,        \* the hash tables: the object of a key, or None
    lockbit,   \* HT_META_LOCK_BIT of a key's slot
    refs,      \* references an object has (1 from its allocation)
    anchor,    \* obj_ptr of a key's lock entry; None: no entry
    holder,    \* le->holder: the MSET that has the lock
    waitq,     \* the anchors of le's closed groups, in queue order
    cmd,       \* cmd_info of an MSET for a key
    heads,     \* stat->shard_heads: keys with a cmd_info, newest first
    ack, fin_ack,
    stat,      \* is the mset_stat allocated: "none", "live", "freed"
    ts,        \* stat->txn
    slot,      \* kv_obj_ptr of a connection's pipeline slots
    oks,       \* how many times +OK was written for an MSET
    failed,    \* MSETs answered with an error
    sent,      \* how many MSETs a connection has handed to its reactor
    inflight,  \* shard->mset_inflight
    pending,   \* shard->mset_pending_conn_head ..
    chan,      \* chan[r][s]: the queue from shard r to shard s
    stack,     \* the frames of a shard
    oom,       \* allocations that may still fail
    log        \* auxiliary: objects committed to a key, in order

keyVars  == <<ht, lockbit, refs, anchor, holder, waitq, cmd, log>>
cntVars  == <<ack, fin_ack>>
startVars == <<ts, sent>>
connVars == <<slot, oks, failed>>
flowVars == <<inflight, pending>>
vars == <<keyVars, heads, cntVars, stat, startVars, connVars, flowVars, chan,
          stack, oom>>

Conn(t)  == CHOOSE c \in Conns : \E p \in DOMAIN Prog[c] : Prog[c][p] = t
Seqno(t) == CHOOSE p \in DOMAIN Prog[Conn(t)] : Prog[Conn(t)][p] = t
conn     == [t \in Txns |-> Conn(t)]
seqno    == [t \in Txns |-> Seqno(t)]

Coord(t)  == Home[conn[t]]
Total(t)  == Len(Pairs[t])
KeysOf(t) == {Pairs[t][i] : i \in 1..Total(t)}

\* txn_id_cmp(a, b) < 0.  Time stamps come from one monotonic clock.
Older(t, u) == ts[t] < ts[u]

\* seq & (cap - 1)
SlotOf(p) == p % Cap

CmdSet == [new : Txns \X Nat, old : (Txns \X Nat) \union ({None} \X Keys)
                                     \union {None}, acks : Nat]
Objs   == UNION {{t} \X (1..Total(t)) : t \in Txns} \union ({None} \X Keys)

---------------------------------------------------------------------------
(* Frames: the calls a shard still has to make.                            *)

PrepareF(t, i)   == [op |-> "prepare", t |-> t, i |-> i]
WoundF(t, i, e)  == [op |-> "wound", t |-> t, i |-> i, early |-> e]
AckF(t)          == [op |-> "ack", t |-> t]
BatchF(t, r)     == [op |-> "batch", t |-> t, to |-> r]
SendFinF(t, r)   == [op |-> "send_fin", t |-> t, to |-> r]
FinF(q, n, e)    == [op |-> "fin", q |-> q, n |-> n, early |-> e]
CloseF(t, last)  == [op |-> "close", t |-> t, last |-> last]
ResumeF          == [op |-> "resume"]

Top(s) == Head(stack[s])
At(s, op) == stack[s] # << >> /\ Top(s).op = op

\* Replace the top frame by the given ones.
Call(s, fs) == stack' = [stack EXCEPT ![s] = fs \o Tail(@)]

ShardSeq == [j \in 1..N |-> j-1]
OwnPairs(t, s) == SelectSeq([i \in 1..Total(t) |-> i],
                            LAMBDA i : Owner[Pairs[t][i]] = s)

\* The pairs of a batch are prepared in order.  Mutant: from the last one.
PrepareFsDown(t, s) == [j \in DOMAIN OwnPairs(t, s) |->
                           PrepareF(t, Reverse(OwnPairs(t, s))[j])]
PrepareFs(t, s) == [j \in DOMAIN OwnPairs(t, s) |->
                       PrepareF(t, OwnPairs(t, s)[j])]
Remote(t, s) == SelectSeq(ShardSeq, LAMBDA r : r # s /\ OwnPairs(t, r) # << >>)
BatchFs(t, s) == [j \in DOMAIN Remote(t, s) |-> BatchF(t, Remote(t, s)[j])]

\* Mutant of SendFinFs: the loop starts at the coordinator's own shard.
SendFinFsUp(t, s) ==
    IF Coord(t) # s THEN << >>
    ELSE LET others == SelectSeq(ShardSeq, LAMBDA r : r > s)
         IN  [j \in DOMAIN others |-> SendFinF(t, others[j])]

\* mset_send_fin_to_remotes: one visit per shard, on the coordinator only.
SendFinFs(t, s) ==
    IF Coord(t) # s THEN << >>
    ELSE LET others == SelectSeq(ShardSeq, LAMBDA r : r # s)
         IN  [j \in DOMAIN others |-> SendFinF(t, others[j])]

RunFinFs(t, s) == SendFinFs(t, s) \o <<FinF(<<t>>, 0, FALSE)>>

Send(r, s, m) == chan' = [chan EXCEPT ![r][s] = Append(@, m)]

Detached(t) == [slot EXCEPT ![conn[t]][SlotOf(seqno[t])] = None]

---------------------------------------------------------------------------

Init ==
    /\ \E here \in SUBSET Present :
         /\ ht = [k \in Keys |-> IF k \in here THEN <<None, k>> ELSE None]
         /\ log = [k \in Keys |-> IF k \in here THEN <<<<None, k>>>> ELSE << >>]
         /\ refs = [o \in Objs |-> IF o[1] = None /\ o[2] \in here THEN 1 ELSE 0]
    /\ lockbit = [k \in Keys |-> FALSE]
    /\ anchor = [k \in Keys |-> None] /\ holder = [k \in Keys |-> None]
    /\ waitq = [k \in Keys |-> << >>]
    /\ cmd = [t \in Txns |-> [k \in Keys |-> None]]
    /\ heads = [t \in Txns |-> [s \in Shards |-> << >>]]
    /\ ack = [t \in Txns |-> 0] /\ fin_ack = [t \in Txns |-> 0]
    /\ stat = [t \in Txns |-> "none"]
    /\ ts = [t \in Txns |-> 0]
    /\ slot = [c \in Conns |-> [j \in 0..Cap-1 |-> None]]
    /\ oks = [t \in Txns |-> 0] /\ failed = {}
    /\ sent = [c \in Conns |-> 0]
    /\ inflight = [s \in Shards |-> 0] /\ pending = [s \in Shards |-> << >>]
    /\ chan = [r \in Shards |-> [s \in Shards |-> << >>]]
    /\ stack = [s \in Shards |-> << >>]
    /\ oom = MaxOom

---------------------------------------------------------------------------
(* The coordinator: dispatch and back-pressure.                            *)

Answered(t) == oks[t] > 0 \/ t \in failed

\* mset_coordinator_dispatch_argv up to its second pass; the prepares of the
\* local keys and the batches for the other shards are the frames it leaves.
Start(s, t, rest) ==
    /\ inflight' = [inflight EXCEPT ![s] = @ + 1]
    /\ stat' = [stat EXCEPT ![t] = "live"]
    /\ ts' = [ts EXCEPT ![t] = 1 + Cardinality({u \in Txns : ts[u] > 0})]
    /\ slot' = [slot EXCEPT ![conn[t]][SlotOf(seqno[t])] = t]
    /\ stack' = [stack EXCEPT ![s] = PrepareFs(t, s) \o BatchFs(t, s) \o rest]

\* Refused for lack of memory: the client is answered with an error.
Refuse(t) ==
    /\ oom > 0 /\ oom' = oom - 1
    /\ failed' = failed \union {t}
    /\ slot' = Detached(t)

\* mset_pending_conn_enqueue: the connection is paused.
Pause(s, c, t) ==
    /\ pending' = [pending EXCEPT ![s] = Append(@, c)]
    /\ slot' = Detached(t)

\* The reactor of c has read the next MSET.  Its pipeline slot is free: the
\* replies of the MSETs that had the slot before have been flushed.
Dispatch(c) ==
    LET s == Home[c]
        p == sent[c] + 1
        t == Prog[c][p]
    IN  /\ stack[s] = << >>
        /\ sent[c] < Len(Prog[c])
        /\ ~Contains(pending[s], c)
        /\ \A q \in 1 .. p-Cap : Answered(Prog[c][q])
        /\ sent' = [sent EXCEPT ![c] = p]
        /\ \/ /\ inflight[s] < MaxInflight
              /\ Start(s, t, << >>)
              /\ UNCHANGED <<pending, failed, oom>>
           \/ /\ inflight[s] >= MaxInflight
              /\ Pause(s, c, t)
              /\ UNCHANGED <<inflight, stat, ts, stack, failed, oom>>
           \/ /\ Refuse(t)
              /\ UNCHANGED <<inflight, pending, stat, ts, stack>>
        /\ UNCHANGED <<keyVars, heads, cntVars, oks, chan>>

\* mset_pending_conn_drain: one turn of its loop, or its end.
Resume(s) ==
    /\ At(s, "resume")
    /\ IF inflight[s] < MaxInflight /\ pending[s] # << >>
         THEN LET c == Head(pending[s])
                  t == Prog[c][sent[c]]
              IN  /\ pending' = [pending EXCEPT ![s] = Tail(@)]
                  /\ \/ /\ Start(s, t, stack[s])
                        /\ UNCHANGED <<failed, oom>>
                     \/ /\ Refuse(t)
                        /\ UNCHANGED <<inflight, stat, ts, stack>>
         ELSE /\ Call(s, << >>)
              /\ UNCHANGED <<inflight, pending, stat, ts, slot, failed, oom>>
    /\ UNCHANGED <<keyVars, heads, cntVars, sent, oks, chan>>

\* The end of the reactor's loop also calls mset_pending_conn_drain.
Tick(s) ==
    /\ stack[s] = << >> /\ pending[s] # << >> /\ inflight[s] < MaxInflight
    /\ stack' = [stack EXCEPT ![s] = <<ResumeF>>]
    /\ UNCHANGED <<keyVars, heads, cntVars, stat, startVars, connVars, flowVars,
                   chan, oom>>

\* The third pass: one MSG_CMD_MSET_KEY_BATCH per remote shard.
SendBatch(s) ==
    /\ At(s, "batch")
    /\ Send(s, Top(s).to, [type |-> "KEY_BATCH", t |-> Top(s).t])
    /\ Call(s, << >>)
    /\ UNCHANGED <<keyVars, heads, cntVars, stat, startVars, connVars, flowVars, oom>>

---------------------------------------------------------------------------
(* PREPARE: mset_prepare_key.                                              *)

NewCmd(o, old) == [new |-> o, old |-> old, acks |-> 1]

Link(t, k, c) ==
    /\ cmd' = [cmd EXCEPT ![t][k] = c]
    /\ heads' = [heads EXCEPT ![t][Owner[k]] = <<k>> \o @]

\* lock_manager_insert with cmd as holder, and the lock bit.  Mutant: without
\* ht_bucket_set_lock_status.
LockNoBit(t, k, o) ==
    /\ anchor' = [anchor EXCEPT ![k] = o]
    /\ holder' = [holder EXCEPT ![k] = t]
    /\ waitq' = [waitq EXCEPT ![k] = << >>]
    /\ UNCHANGED lockbit

Lock(t, k, o) ==
    /\ anchor' = [anchor EXCEPT ![k] = o]
    /\ holder' = [holder EXCEPT ![k] = t]
    /\ waitq' = [waitq EXCEPT ![k] = << >>]
    /\ lockbit' = [lockbit EXCEPT ![k] = TRUE]

\* lock_manager_lookup(lm, lock_key, ..): entries are found by object.  Mutant:
\* the entry is missed.
LockedNever(k) == FALSE
Locked(k) == ht[k] # None /\ anchor[k] = ht[k]

\* Case A, no lock entry: acquire.  A new key gets a tentative object.
Acquire(s, t, i, k) ==
    /\ ~Locked(k)
    /\ refs' = [refs EXCEPT ![<<t, i>>] = 1]
    /\ ht' = [ht EXCEPT ![k] = IF @ = None THEN <<t, i>> ELSE @]
    /\ Link(t, k, NewCmd(<<t, i>>, ht[k]))
    /\ Lock(t, k, ht'[k])
    /\ Call(s, <<AckF(t)>>)

\* A repeated key is merged into the cmd_info of its first pair.
Merged(t, i, k) == [cmd EXCEPT ![t][k].new = <<t, i>>, ![t][k].acks = @ + 1]

\* The pair repeats a key this MSET has locked.  Overwriting a slot of the
\* hash table clears its lock bit.
DupHeld(s, t, i, k) ==
    /\ Locked(k) /\ holder[k] = t
    /\ IF cmd[t][k].old = None
         THEN /\ ht' = [ht EXCEPT ![k] = <<t, i>>]
              /\ lockbit' = [lockbit EXCEPT ![k] = FALSE]
              /\ anchor' = [anchor EXCEPT ![k] = <<t, i>>]
         ELSE UNCHANGED <<ht, lockbit, anchor>>
    /\ refs' = [refs EXCEPT ![<<t, i>>] = 1, ![cmd[t][k].new] = @ - 1]
    /\ cmd' = Merged(t, i, k)
    /\ Call(s, <<AckF(t)>>)
    /\ UNCHANGED <<holder, waitq, heads>>

\* The pair repeats a key this MSET is queueing for.
DupWaiting(s, t, i, k) ==
    /\ Locked(k) /\ holder[k] # t /\ Contains(waitq[k], t)
    /\ LET c == cmd[t][k]
           dead == (IF c.old = None THEN {ht[k]} ELSE {}) \union {c.new}
       IN  /\ IF c.old = None
                THEN /\ ht' = [ht EXCEPT ![k] = <<t, i>>]
                     /\ lockbit' = [lockbit EXCEPT ![k] = FALSE]
                ELSE UNCHANGED <<ht, lockbit>>
           /\ refs' = [o \in Objs |-> CASE o = <<t, i>> -> 1
                                        [] o \in dead -> refs[o] - 1
                                        [] OTHER -> refs[o]]
    /\ cmd' = Merged(t, i, k)
    /\ Call(s, <<AckF(t)>>)
    /\ UNCHANGED <<anchor, holder, waitq, heads>>

\* Case B, locked by another MSET: if that one is fully prepared commit it
\* here and now, then (frame "wound") see who has the lock.
Contend(s, t, i, k) ==
    /\ Locked(k) /\ holder[k] # t /\ ~Contains(waitq[k], t)
    /\ refs' = [refs EXCEPT ![<<t, i>>] = 1]
    /\ Link(t, k, NewCmd(<<t, i>>, ht[k]))
    /\ LET u == holder[k]
           early == u # None /\ ack[u] = Total(u)
       IN  Call(s, (IF early THEN <<FinF(<<u>>, 0, TRUE)>> ELSE << >>)
                       \o <<WoundF(t, i, early)>>)
    /\ UNCHANGED <<ht, lockbit, anchor, holder, waitq>>

\* No memory for the object, the cmd_info, the hash table slot or the lock
\* entry: what was done is undone, and the pair is acknowledged all the same.
PrepareFails(s, t) ==
    /\ oom > 0 /\ oom' = oom - 1
    /\ Call(s, <<AckF(t)>>)
    /\ UNCHANGED <<ht, lockbit, refs, anchor, holder, waitq, cmd, heads>>

Prepare(s) ==
    /\ At(s, "prepare")
    /\ LET t == Top(s).t
           i == Top(s).i
           k == Pairs[t][i]
       IN  \/ /\ \/ Acquire(s, t, i, k)
                 \/ DupHeld(s, t, i, k)
                 \/ DupWaiting(s, t, i, k)
                 \/ Contend(s, t, i, k)
              /\ UNCHANGED oom
           \/ PrepareFails(s, t)
    /\ UNCHANGED <<log, cntVars, stat, startVars, connVars, flowVars, chan>>

\* wq_sorted_insert: oldest first.  Mutant: youngest first.
QueuedYoungest(q, t) ==
    LET younger == SelectSeq(q, LAMBDA u : Older(t, u))
    IN  younger \o <<t>> \o SelectSeq(q, LAMBDA u : ~Older(t, u))

Queued(q, t) ==
    LET older == SelectSeq(q, LAMBDA u : ~Older(t, u))
    IN  older \o <<t>> \o SelectSeq(q, LAMBDA u : Older(t, u))

\* lock_wq_add_mset; without memory for the group the anchor is dropped.
Enqueue(t, k) ==
    \/ waitq' = [waitq EXCEPT ![k] = Queued(@, t)] /\ UNCHANGED oom
    \/ oom > 0 /\ oom' = oom - 1 /\ UNCHANGED waitq

\* The early commit freed the lock: take it, or fail to insert the entry.
Reacquire(s, t, i, k) ==
    /\ Top(s).early /\ holder[k] = None
    /\ Call(s, <<AckF(t)>>)
    /\ ht' = [ht EXCEPT ![k] = IF @ = None THEN <<t, i>> ELSE @]
    /\ \/ /\ cmd' = [cmd EXCEPT ![t][k].old = ht[k]]
          /\ Lock(t, k, ht'[k])
          /\ UNCHANGED <<heads, oom>>
       \/ /\ oom > 0 /\ oom' = oom - 1
          /\ cmd' = [cmd EXCEPT ![t][k] = None]
          /\ heads' = [heads EXCEPT ![t][s] = Tail(@)]
          /\ UNCHANGED <<lockbit, anchor, holder, waitq>>
    /\ UNCHANGED ack

\* Mutants of CanPreempt: nobody is wounded; the younger MSET wounds the
\* older.
PreemptNobody(t, u)   == FALSE
PreemptOlder(t, u)    == /\ u # None /\ 0 < ack[u] /\ ack[u] < Total(u)
                         /\ conn[t] # conn[u] /\ Older(u, t)

\* t takes the lock away from the holder u, whose acknowledgement for the
\* key is withdrawn by a compare-and-swap that fails once all are in.
CanPreempt(t, u) ==
    /\ u # None
    /\ 0 < ack[u] /\ ack[u] < Total(u)
    /\ conn[t] # conn[u]
    /\ Older(t, u)

\* The winner inherits old_obj, and the loser will replace the winner's value.
\* Mutant: old_obj stays what the winner found in the hash table.
KeepOldObj(t, u, k)    == [cmd EXCEPT ![u][k].old = cmd[t][k].new]
InheritOldObj(t, u, k) == [cmd EXCEPT ![t][k].old = cmd[u][k].old,
                                      ![u][k].old = cmd[t][k].new]

\* Mutant: the loser's acknowledgement is not withdrawn.
AckKept(u)      == ack
AckWithdrawn(u) == [ack EXCEPT ![u] = @ - 1]

Wound(s, t, k) ==
    /\ ~(Top(s).early /\ holder[k] = None)
    /\ CanPreempt(t, holder[k])
    /\ LET u == holder[k]
       IN  /\ ack' = AckWithdrawn(u)
           /\ cmd' = InheritOldObj(t, u, k)
           /\ Enqueue(u, k)
    /\ holder' = [holder EXCEPT ![k] = t]
    /\ Call(s, <<AckF(t)>>)
    /\ UNCHANGED <<ht, lockbit, anchor, heads>>

Wait(s, t, k) ==
    /\ ~(Top(s).early /\ holder[k] = None)
    /\ ~CanPreempt(t, holder[k])
    /\ Enqueue(t, k)
    /\ Call(s, << >>)
    /\ UNCHANGED <<ht, lockbit, anchor, holder, cmd, heads, ack>>

WoundWait(s) ==
    /\ At(s, "wound")
    /\ LET t == Top(s).t
           i == Top(s).i
           k == Pairs[t][i]
       IN  Reacquire(s, t, i, k) \/ Wound(s, t, k) \/ Wait(s, t, k)
    /\ UNCHANGED <<refs, log, fin_ack, stat, startVars, connVars, flowVars, chan>>

\* prev + 1 == stat->total.
AllAcked(t)    == ack[t] + 1 = Total(t)

\* try_send_ack.  Only the coordinator goes on to FIN by itself: at once, or
\* after the commits in progress when mset_run_fin promoted the MSET.
TrySendAck(s) ==
    LET t == Top(s).t
        full == AllAcked(t)
        below == Tail(stack[s])
        queueing == below # << >> /\ Head(below).op = "fin"
                    /\ ~Head(below).early
    IN  /\ At(s, "ack")
        /\ ack' = [ack EXCEPT ![t] = @ + 1]
        /\ IF full /\ Coord(t) = s
             THEN IF queueing
                    THEN /\ stack' = [stack EXCEPT ![s] =
                                SendFinFs(t, s)
                                \o <<[Head(below) EXCEPT !.q = Append(@, t)]>>
                                \o Tail(below)]
                         /\ UNCHANGED <<slot, chan>>
                    ELSE /\ Call(s, RunFinFs(t, s))
                         /\ slot' = Detached(t)
                         /\ UNCHANGED chan
             ELSE /\ Call(s, << >>)
                  /\ IF full
                       THEN Send(s, Coord(t), [type |-> "ACK", t |-> t])
                       ELSE UNCHANGED chan
                  /\ UNCHANGED slot
        /\ UNCHANGED <<keyVars, heads, fin_ack, stat, startVars, oks, failed,
                       flowVars, oom>>

---------------------------------------------------------------------------
(* FIN: mset_run_fin and mset_try_early_commit.                            *)

\* mset_send_fin_to_remotes looks at one shard's list and sends MSET_FIN.
SendFin(s) ==
    /\ At(s, "send_fin")
    /\ LET t == Top(s).t
           r == Top(s).to
       IN  IF heads[t][r] # << >>
             THEN Send(s, r, [type |-> "FIN", t |-> t])
             ELSE UNCHANGED chan
    /\ Call(s, << >>)
    /\ UNCHANGED <<keyVars, heads, cntVars, stat, startVars, connVars, flowVars, oom>>

\* Of the object replaced in the hash table and old_obj, only old_obj is
\* destroyed.
Replaced(c, o) == IF c.old = None THEN refs ELSE [refs EXCEPT ![c.old] = @ - 1]

\* mset_drain_waitqueue: the first anchor in the queue is promoted.
Promoted(k) == IF waitq[k] = << >> THEN None ELSE Head(waitq[k])

\* mset_fin_one_cmd for MSET t and key k.
CommitKey(t, k) ==
    LET c    == cmd[t][k]
        swap == ht[k] # c.new
        next == Promoted(k)
        h    == CASE next # None    -> next
                  [] holder[k] = t  -> None
                  [] OTHER          -> holder[k]
    IN  /\ ht' = [ht EXCEPT ![k] = c.new]
        /\ refs' = IF swap THEN Replaced(c, ht[k]) ELSE refs
        /\ holder' = [holder EXCEPT ![k] = h]
        /\ waitq' = IF next = None THEN waitq
                    ELSE [waitq EXCEPT ![k] = Tail(@)]
        /\ lockbit' = [lockbit EXCEPT ![k] = h # None]
        /\ anchor' = [anchor EXCEPT ![k] = CASE h = None -> None
                                             [] swap     -> c.new
                                             [] OTHER    -> @]
        /\ cmd' = IF next = None \/ next = t
                    THEN [cmd EXCEPT ![t][k] = None]
                    ELSE [cmd EXCEPT ![t][k] = None, ![next][k].old = c.new]
        /\ log' = [log EXCEPT ![k] = Append(@, c.new)]

\* Pop the next cmd_info of the MSET being finished on this shard.
FinCmd(s) ==
    /\ At(s, "fin")
    /\ LET f == Top(s)
           t == Head(f.q)
           k == Head(heads[t][s])
           g == [f EXCEPT !.n = @ + cmd[t][k].acks]
       IN  /\ heads[t][s] # << >>
           /\ heads' = [heads EXCEPT ![t][s] = Tail(@)]
           /\ CommitKey(t, k)
           /\ Call(s, IF Promoted(k) = None THEN <<g>>
                      ELSE <<AckF(Promoted(k)), g>>)
    /\ UNCHANGED <<cntVars, stat, startVars, connVars, flowVars, chan, oom>>

\* The frame of the MSETs still to be finished in the same mset_run_fin.
NextFs(f) == IF Len(f.q) = 1 THEN << >>
             ELSE <<[f EXCEPT !.q = Tail(@), !.n = 0]>>

\* What a shard adds to fin_ack.  Mutant: as if it had committed every key.
CountedAll(t, n) == Total(t)
Counted(t, n)    == n

\* All its cmd_infos here are done: count them in fin_ack, if there were any.
FinCount(s) ==
    /\ At(s, "fin")
    /\ LET f == Top(s)
           t == Head(f.q)
       IN  /\ heads[t][s] = << >>
           /\ IF f.n > 0
                THEN /\ fin_ack' = [fin_ack EXCEPT ![t] = @ + Counted(t, f.n)]
                     /\ Call(s, <<CloseF(t, fin_ack'[t] = Total(t))>>
                                   \o NextFs(f))
                ELSE /\ Call(s, NextFs(f))
                     /\ UNCHANGED fin_ack
    /\ UNCHANGED <<keyVars, heads, ack, stat, startVars, connVars, flowVars,
                   chan, oom>>

\* mset_set_ok_reply, on the coordinator.
SetOkReply(t) ==
    /\ oks' = [oks EXCEPT ![t] = @ + 1]
    /\ slot' = Detached(t)

\* stat_free_real.  Mutant: without mset_inflight--.
StatFreeKeepsSlot(s, t) ==
    /\ stat' = [stat EXCEPT ![t] = "freed"]
    /\ UNCHANGED inflight
StatFreeReal(s, t) ==
    /\ stat' = [stat EXCEPT ![t] = "freed"]
    /\ inflight' = [inflight EXCEPT ![s] = @ - 1]

\* Compare with stat->total; the last shard answers the client, or tells the
\* coordinator to.
Close(s) ==
    /\ At(s, "close")
    /\ LET t == Top(s).t
       IN  CASE Top(s).last /\ Coord(t) = s ->
                    SetOkReply(t) /\ StatFreeReal(s, t) /\ UNCHANGED chan
             [] Top(s).last /\ Coord(t) # s ->
                    /\ Send(s, Coord(t), [type |-> "FIN_ACK", t |-> t])
                    /\ UNCHANGED <<oks, slot, stat, inflight>>
             [] OTHER -> UNCHANGED <<chan, oks, slot, stat, inflight>>
    /\ Call(s, << >>)
    /\ UNCHANGED <<keyVars, heads, cntVars, startVars, failed, pending, oom>>

---------------------------------------------------------------------------
(* shard_msg_drain: one message from shard r.                              *)

\* mset_on_ack finds the MSET in the connection's pipeline slot.
OnAck(s, t) ==
    LET u == slot[conn[t]][SlotOf(seqno[t])]
    IN  /\ stack' = [stack EXCEPT ![s] =
                        (IF u = None THEN << >> ELSE RunFinFs(u, s))
                            \o <<ResumeF>>]
        /\ slot' = Detached(t)
        /\ UNCHANGED <<oks, stat, inflight>>

OnFinAck(s, t) ==
    /\ SetOkReply(t)
    /\ StatFreeReal(s, t)
    /\ stack' = [stack EXCEPT ![s] = <<ResumeF>>]

Receive(s, r) ==
    /\ stack[s] = << >> /\ chan[r][s] # << >>
    /\ chan' = [chan EXCEPT ![r][s] = Tail(@)]
    /\ LET m == Head(chan[r][s])
       IN  \/ /\ m.type = "KEY_BATCH"
              /\ stack' = [stack EXCEPT ![s] = PrepareFs(m.t, s)]
              /\ UNCHANGED <<oks, slot, stat, inflight>>
           \/ m.type = "ACK" /\ OnAck(s, m.t)
           \/ /\ m.type = "FIN"
              /\ stack' = [stack EXCEPT ![s] = RunFinFs(m.t, s)]
              /\ UNCHANGED <<oks, slot, stat, inflight>>
           \/ m.type = "FIN_ACK" /\ OnFinAck(s, m.t)
    /\ UNCHANGED <<keyVars, heads, cntVars, startVars, failed, pending, oom>>

---------------------------------------------------------------------------

\* A step of the handler shard s is in.
Step(s) ==
    \/ Resume(s) \/ SendBatch(s) \/ Prepare(s) \/ WoundWait(s)
    \/ TrySendAck(s) \/ SendFin(s) \/ FinCmd(s) \/ FinCount(s) \/ Close(s)

\* Every client has been answered and nothing is left to do.
Quiet ==
    /\ \A s \in Shards : stack[s] = << >>
    /\ \A r, s \in Shards : chan[r][s] = << >>

Done ==
    /\ Quiet
    /\ \A t \in Txns : Answered(t)
    /\ UNCHANGED vars

Next ==
    \/ \E c \in Conns : Dispatch(c)
    \/ \E s \in Shards : Step(s) \/ Tick(s)
    \/ \E r, s \in Shards : Receive(s, r)
    \/ Done

Spec == Init /\ [][Next]_vars

\* A reactor thread that has something to do is scheduled, and its loop
\* looks at every queue.  Clients owe nothing.
Fairness == \A s \in Shards : /\ WF_vars(Step(s))
                              /\ WF_vars(Tick(s))
                              /\ WF_vars(\E r \in Shards : Receive(s, r))

FairSpec == Spec /\ Fairness

---------------------------------------------------------------------------
(* Properties.                                                             *)

Messages == [type : {"KEY_BATCH", "ACK", "FIN", "FIN_ACK"}, t : Txns]

Frames ==
    [op : {"prepare"}, t : Txns, i : Nat]
    \union [op : {"wound"}, t : Txns, i : Nat, early : BOOLEAN]
    \union [op : {"ack"}, t : Txns]
    \union [op : {"batch", "send_fin"}, t : Txns, to : Shards]
    \union [op : {"fin"}, q : Seq(Txns) \ {<< >>}, n : Nat, early : BOOLEAN]
    \union [op : {"close"}, t : Txns, last : BOOLEAN]
    \union [op : {"resume"}]

\* Type invariant.  Among the types: an object is never destroyed more often
\* than it was allocated, and the counters of an mset_stat never leave the
\* range 0..total, so the unsigned fields cannot wrap.
TypeOK ==
    /\ ht \in [Keys -> Objs \union {None}]
    /\ lockbit \in [Keys -> BOOLEAN]
    /\ refs \in [Objs -> Nat]
    /\ anchor \in [Keys -> Objs \union {None}]
    /\ holder \in [Keys -> Txns \union {None}]
    /\ waitq \in [Keys -> Seq(Txns)]
    /\ cmd \in [Txns -> [Keys -> CmdSet \union {None}]]
    /\ heads \in [Txns -> [Shards -> Seq(Keys)]]
    /\ \A t \in Txns : ack[t] \in 0..Total(t) /\ fin_ack[t] \in 0..Total(t)
    /\ stat \in [Txns -> {"none", "live", "freed"}]
    /\ ts \in [Txns -> Nat]
    /\ slot \in [Conns -> [0..Cap-1 -> Txns \union {None}]]
    /\ oks \in [Txns -> Nat]
    /\ failed \in SUBSET Txns
    /\ sent \in [Conns -> Nat]
    /\ inflight \in [Shards -> 0..MaxInflight]
    /\ pending \in [Shards -> Seq(Conns)]
    /\ chan \in [Shards -> [Shards -> Seq(Messages)]]
    /\ stack \in [Shards -> Seq(Frames)]
    /\ oom \in 0..MaxOom
    /\ log \in [Keys -> Seq(Objs)]

CommittedTo(t, k) == \E j \in DOMAIN log[k] : log[k][j][1] = t

\* All or nothing, as seen by readers: once one key of an MSET shows its new
\* value, every other key of it shows it too, or is locked by it with the
\* lock bit set, so that a reader is deferred (mset_check_lock_defer).
AtomicVisibility ==
    \A t \in Txns :
        (\E k \in KeysOf(t) : CommittedTo(t, k)) =>
            \A k \in KeysOf(t) :
                CommittedTo(t, k) \/ (holder[k] = t /\ lockbit[k])

\* A key whose lock bit is clear, which commands read without asking the
\* lock manager, shows the value committed last, never a tentative object.
NoDirtyRead ==
    \A k \in Keys : ~lockbit[k] =>
        ht[k] = IF log[k] = << >> THEN None ELSE Last(log[k])

Before(t, u, k) ==
    \E i, j \in DOMAIN log[k] : i < j /\ log[k][i][1] = t /\ log[k][j][1] = u

\* MSETs are serializable: there is one order of all of them that agrees with
\* the order of commits on every key, whichever shards, wounds and early
\* commits decided it.
SerialOrder ==
    \E rank \in [Txns -> 1..Cardinality(Txns)] :
        \A t, u \in Txns : \A k \in Keys : Before(t, u, k) => rank[t] < rank[u]

\* MSETs pipelined on one connection take effect in the order they were sent,
\* even when a later one met no contention and an earlier one was wounded.
PipelineOrder ==
    \A t, u \in Txns : \A k \in Keys :
        conn[t] = conn[u] /\ seqno[t] < seqno[u] => ~Before(u, t, k)

\* When an MSET repeats a key, the value of its last pair is the one kept,
\* and it is committed once.
LastPairWins ==
    \A k \in Keys : \A j \in DOMAIN log[k] : \A t \in Txns :
        log[k][j][1] = t =>
            /\ \A i \in 1..Total(t) : Pairs[t][i] = k => i <= log[k][j][2]
            /\ \A m \in DOMAIN log[k] : log[k][m][1] = t => m = j

\* +OK is written at most once per MSET, and not before every key of it has
\* been committed on every shard.
OkMeansCommitted ==
    \A t \in Txns : /\ oks[t] <= 1
                    /\ oks[t] = 1 => \A k \in KeysOf(t) : CommittedTo(t, k)

\* Objects are neither used after destruction nor leaked: what the hash table
\* and the cmd_infos point to is alive, and once nothing is in flight the
\* objects alive are those in the hash table.
ObjectsOwned ==
    /\ \A k \in Keys : ht[k] # None => refs[ht[k]] = 1
    /\ \A t \in Txns, k \in Keys : cmd[t][k] # None =>
          /\ refs[cmd[t][k].new] = 1
          /\ holder[k] = t /\ cmd[t][k].old # None => refs[cmd[t][k].old] = 1
    /\ Quiet /\ (\A t \in Txns : stat[t] # "live") =>
          \A o \in Objs : refs[o] = 1 => \E k \in Keys : ht[k] = o

\* Wound-wait: an MSET waits only for an older one, for one that is already
\* fully prepared, or for an earlier one of its own connection.  So no cycle
\* of MSETs waiting for each other can form.
WaitsForOlder ==
    \A k \in Keys : \A j \in DOMAIN waitq[k] :
        LET u == holder[k]
        IN  /\ u # None
            /\ Older(u, waitq[k][j]) \/ ack[u] = Total(u)

\* When no handler runs and no message is in flight, every MSET that was
\* started has been answered and its mset_stat freed: none is left waiting
\* for a lock, an ACK or a FIN_ACK.
NoneStranded == Quiet => \A t \in Txns : stat[t] # "live"

\* The mset_stats a shard's next step reads or writes.
Touched(s) ==
    IF stack[s] = << >> THEN {}
    ELSE CASE Top(s).op = "fin"    -> {Head(Top(s).q)}
           [] Top(s).op = "resume" -> {}
           [] OTHER                -> {Top(s).t}

\* A shard that still has keys of an MSET to prepare, to acknowledge or to
\* commit, or that answers the client, finds its mset_stat alive.  Only two
\* steps touch one that the coordinator may have freed: the comparison of
\* fin_ack with total after a shard has counted its keys, and a FIN that comes
\* after the shard has committed early.
StatAlive ==
    \A s \in Shards : \A t \in Touched(s) :
        \/ stat[t] = "live"
        \/ Top(s).op = "close" /\ ~Top(s).last
        \/ Top(s).op = "fin" /\ heads[t][s] = << >> /\ Top(s).n = 0

OutOfMemory == oom < MaxOom

\* Every MSET that is started is answered, unless an allocation has failed.
Completes == \A t \in Txns : stat[t] = "live" ~> oks[t] = 1 \/ OutOfMemory

\* A connection paused because its shard has MaxInflight MSETs is resumed,
\* unless an allocation has failed (a stranded MSET keeps its place).
Resumes == \A c \in Conns :
    Contains(pending[Home[c]], c) ~> ~Contains(pending[Home[c]], c) \/ OutOfMemory
============================================================================
