------------------------------- MODULE Spsc -------------------------------
(***************************************************************************)
(* The queue from one shard to another (core/spsc.h) together with the     *)
(* protocol that wakes the receiving reactor (core/shard.c, net/reactor.c).*)
(*                                                                         *)
(* The queue is a circular list of fixed-size segments.  The producer      *)
(* moves along the list and splices in a new segment when the next one is  *)
(* still occupied by the consumer.  The consumer's position is published   *)
(* through c_seg_shared only, never through tail.                          *)
(*                                                                         *)
(* Producer and consumer are two threads; each step below contains at most *)
(* one access to memory the other thread uses.  The accesses are           *)
(* interleaved sequentially: on the build's target (x86) the release store *)
(* of head followed by the exchange of wake_edge, and the seq_cst store of *)
(* wake_edge followed by the load of head, are not reordered.              *)
(***************************************************************************)
EXTENDS Integers, Sequences, FiniteSets

CONSTANTS
    Msgs,      \* message contents
    NoMsg,     \* content of a slot nobody has written
    Segs,      \* memory the producer's allocator can hand out as segments
    SegSize,   \* SPSC_SEG_SIZE
    MaxMsgs,   \* bound: messages sent in one behaviour
    Payload    \* the messages the producer sends, in order

ASSUME SegSizeAssumption == SegSize \in Nat \ {0}
ASSUME NoMsgAssumption   == NoMsg \notin Msgs
ASSUME SegsAssumption    == Segs # {}
ASSUME MaxMsgsAssumption == MaxMsgs \in Nat
ASSUME PayloadAssumption == Payload \in [1..MaxMsgs -> Msgs]

VARIABLES
    head, tail,       \* q->head, q->tail
    p_seg, c_seg,     \* producer's and consumer's segment
    c_seg_shared,     \* the consumer's segment as the producer may see it
    used,             \* segments allocated so far (they are never freed)
    next,             \* seg->next
    slots,            \* seg->slots
    wake_edge,        \* TRUE iff q->wake_edge = 1
    eventfd,          \* TRUE iff the consumer's eventfd counter is not 0
    owed,             \* kinds of deferred sends whose wake-up is still owed
    ppc, pmsg, pmode, \* producer: where it is, message and kind of the send
    cpc, out          \* consumer: where it is, message popped last

\* Auxiliary variables: the messages published so far, and the segment of
\* each run of SegSize consecutive messages, in order.
VARIABLES sent, order

queueVars == <<head, tail, p_seg, c_seg, c_seg_shared, used, next, slots>>
wakeVars  == <<wake_edge, eventfd, owed>>
prodVars  == <<ppc, pmsg, pmode>>
consVars  == <<cpc, out>>
auxVars   == <<sent, order>>
vars == <<queueVars, wakeVars, prodVars, consVars, auxVars>>

Offset(i) == i % SegSize

\* h > 0 && (h & SPSC_SEG_MASK) == 0
AtBoundary(i) == i > 0 /\ Offset(i) = 0

(* How a message is sent.  "wake": shard_send_msg_wake.  "deferred":        *)
(* shard_send_msg_deferred with a mask that the calling function flushes.  *)
(* "release": the same with the reactor's proxy_wake_mask, which only the  *)
(* end of the next handle_read_resp flushes.                               *)
Modes   == {"wake", "deferred", "release"}
PSteps  == {"idle", "look", "grow", "store", "publish", "edge", "signal"}
CSteps  == {"sleep", "pop", "advance", "share", "read", "disarm", "recheck",
            "rearm"}

---------------------------------------------------------------------------

\* spsc_queue_init: one segment linked to itself.
Init ==
    /\ head = 0 /\ tail = 0
    /\ \E s \in Segs :
          /\ p_seg = s /\ c_seg = s /\ c_seg_shared = s
          /\ used = {s}
          /\ order = <<s>>
    /\ next = [s \in Segs |-> s]
    /\ slots = [s \in Segs |-> [i \in 0..SegSize-1 |-> NoMsg]]
    /\ wake_edge = FALSE /\ eventfd = FALSE /\ owed = {}
    /\ ppc = "idle" /\ pmsg = NoMsg /\ pmode = "wake"
    /\ cpc = "sleep" /\ out = NoMsg
    /\ sent = << >>

---------------------------------------------------------------------------
(* Producer: shard_send_msg_wake and shard_send_msg_deferred.              *)

\* The sender calls spsc_queue_push, which first tests the segment boundary.
PushStart(m, mode) ==
    /\ ppc = "idle"
    /\ head < MaxMsgs /\ m = Payload[head + 1]
    /\ pmsg' = m /\ pmode' = mode
    /\ ppc' = IF AtBoundary(head) THEN "look" ELSE "store"
    /\ UNCHANGED <<queueVars, wakeVars, consVars, auxVars>>

\* Mutant of PushLook: enter the next segment without looking who is in it.
PushLookBlind ==
    /\ ppc = "look"
    /\ p_seg' = next[p_seg]
    /\ order' = Append(order, next[p_seg])
    /\ ppc' = "store"
    /\ UNCHANGED <<head, tail, c_seg, c_seg_shared, used, next, slots,
                   wakeVars, pmsg, pmode, consVars, sent>>

\* Compare the next segment with the one the consumer has announced.
PushLook ==
    /\ ppc = "look"
    /\ IF next[p_seg] = c_seg_shared
         THEN /\ ppc' = "grow"
              /\ UNCHANGED <<p_seg, order>>
         ELSE /\ p_seg' = next[p_seg]
              /\ order' = Append(order, next[p_seg])
              /\ ppc' = "store"
    /\ UNCHANGED <<head, tail, c_seg, c_seg_shared, used, next, slots,
                   wakeVars, pmsg, pmode, consVars, sent>>

\* Splice a new segment between p_seg and its successor.
PushGrow ==
    /\ ppc = "grow"
    /\ \E s \in Segs \ used :
          /\ used' = used \union {s}
          /\ next' = [next EXCEPT ![s] = next[p_seg], ![p_seg] = s]
          /\ p_seg' = s
          /\ order' = Append(order, s)
    /\ ppc' = "store"
    /\ UNCHANGED <<head, tail, c_seg, c_seg_shared, slots, wakeVars, pmsg,
                   pmode, consVars, sent>>

\* Mutant of PushRetry: ask for memory again without looking again.
PushRetryBlind ==
    /\ ppc = "grow"
    /\ Segs \ used = {}
    /\ UNCHANGED vars

\* No memory: push returns false; the caller yields and calls it again.
PushRetry ==
    /\ ppc = "grow"
    /\ Segs \ used = {}
    /\ ppc' = "look"
    /\ UNCHANGED <<queueVars, wakeVars, pmsg, pmode, consVars, auxVars>>

PushStore ==
    /\ ppc = "store"
    /\ slots' = [slots EXCEPT ![p_seg][Offset(head)] = pmsg]
    /\ ppc' = "publish"
    /\ UNCHANGED <<head, tail, p_seg, c_seg, c_seg_shared, used, next,
                   wakeVars, pmsg, pmode, consVars, auxVars>>

\* Store head; a deferred send then only notes the wake-up it owes.
PushPublish ==
    /\ ppc = "publish"
    /\ head' = head + 1
    /\ sent' = Append(sent, pmsg)
    /\ IF pmode = "wake"
         THEN ppc' = "edge" /\ UNCHANGED owed
         ELSE ppc' = "idle" /\ owed' = owed \union {pmode}
    /\ UNCHANGED <<tail, p_seg, c_seg, c_seg_shared, used, next, slots,
                   wake_edge, eventfd, pmsg, pmode, consVars, order>>

\* atomic_exchange(&q->wake_edge, 1)
SendEdge ==
    /\ ppc = "edge"
    /\ wake_edge' = TRUE
    /\ ppc' = IF wake_edge THEN "idle" ELSE "signal"
    /\ UNCHANGED <<queueVars, eventfd, owed, pmsg, pmode, consVars,
                   auxVars>>

\* shard_wakeup_one
SendSignal ==
    /\ ppc = "signal"
    /\ eventfd' = TRUE
    /\ ppc' = "idle"
    /\ UNCHANGED <<queueVars, wake_edge, owed, pmsg, pmode, consVars,
                   auxVars>>

\* Mutant of FlushWakeup: only a queue whose wake_edge is up is signalled.
FlushWakeupOnEdge(mode) ==
    /\ ppc = "idle"
    /\ mode \in owed
    /\ wake_edge
    /\ owed' = owed \ {mode}
    /\ eventfd' = TRUE
    /\ UNCHANGED <<queueVars, wake_edge, prodVars, consVars, auxVars>>

\* shard_flush_wakeup: one unconditional eventfd write for what is owed.
FlushWakeup(mode) ==
    /\ ppc = "idle"
    /\ mode \in owed
    /\ owed' = owed \ {mode}
    /\ eventfd' = TRUE
    /\ UNCHANGED <<queueVars, wake_edge, prodVars, consVars, auxVars>>

---------------------------------------------------------------------------
(* Consumer: the reactor thread of the receiving shard.                    *)

\* epoll reports the eventfd; spsc_queue_on_readable resets it, then drains.
ReactorWake ==
    /\ cpc = "sleep"
    /\ eventfd
    /\ eventfd' = FALSE
    /\ cpc' = "pop"
    /\ UNCHANGED <<queueVars, wake_edge, owed, prodVars, out, auxVars>>

\* An MGET waiting for its parts drains the inboxes without being woken.
ReactorPoll ==
    /\ cpc = "sleep"
    /\ cpc' = "pop"
    /\ UNCHANGED <<queueVars, wakeVars, prodVars, out, auxVars>>

\* Another sender writes the same eventfd.
OtherWake ==
    /\ eventfd' = TRUE
    /\ UNCHANGED <<queueVars, wake_edge, owed, prodVars, consVars,
                   auxVars>>

\* spsc_queue_pop up to its first access to the segment list
PopCheck ==
    /\ cpc = "pop"
    /\ cpc' = CASE tail = head                          -> "disarm"
                [] tail # head /\ AtBoundary(tail)      -> "advance"
                [] tail # head /\ ~ AtBoundary(tail)    -> "read"
    /\ UNCHANGED <<queueVars, wakeVars, prodVars, out, auxVars>>

\* Mutant of PopAdvance: the consumer stays in its segment.
PopAdvanceStuck ==
    /\ cpc = "advance"
    /\ cpc' = "share"
    /\ UNCHANGED <<queueVars, wakeVars, prodVars, out, auxVars>>

PopAdvance ==
    /\ cpc = "advance"
    /\ c_seg' = next[c_seg]
    /\ cpc' = "share"
    /\ UNCHANGED <<head, tail, p_seg, c_seg_shared, used, next, slots,
                   wakeVars, prodVars, out, auxVars>>

PopShare ==
    /\ cpc = "share"
    /\ c_seg_shared' = c_seg
    /\ cpc' = "read"
    /\ UNCHANGED <<head, tail, p_seg, c_seg, used, next, slots, wakeVars,
                   prodVars, out, auxVars>>

\* Copy the slot out and store tail, which the producer never reads.
PopRead ==
    /\ cpc = "read"
    /\ out' = slots[c_seg][Offset(tail)]
    /\ tail' = tail + 1
    /\ cpc' = "pop"
    /\ UNCHANGED <<head, p_seg, c_seg, c_seg_shared, used, next, slots,
                   wakeVars, prodVars, auxVars>>

\* spsc_queue_try_disarm_wake: clear the edge ...
Disarm ==
    /\ cpc = "disarm"
    /\ wake_edge' = FALSE
    /\ cpc' = "recheck"
    /\ UNCHANGED <<queueVars, eventfd, owed, prodVars, out, auxVars>>

\* Mutant of Recheck: sleep without looking again.
RecheckBlind ==
    /\ cpc = "recheck"
    /\ cpc' = "sleep"
    /\ UNCHANGED <<queueVars, wakeVars, prodVars, out, auxVars>>

\* ... look again whether the queue is empty ...
Recheck ==
    /\ cpc = "recheck"
    /\ cpc' = IF tail = head THEN "sleep" ELSE "rearm"
    /\ UNCHANGED <<queueVars, wakeVars, prodVars, out, auxVars>>

\* ... and if it is not, set the edge and go on popping.
Rearm ==
    /\ cpc = "rearm"
    /\ wake_edge' = TRUE
    /\ cpc' = "pop"
    /\ UNCHANGED <<queueVars, eventfd, owed, prodVars, out, auxVars>>

---------------------------------------------------------------------------

ProducerStep ==
    \/ PushLook \/ PushGrow \/ PushRetry \/ PushStore \/ PushPublish
    \/ SendEdge \/ SendSignal

ConsumerStep ==
    \/ ReactorWake \/ PopCheck \/ PopAdvance \/ PopShare \/ PopRead
    \/ Disarm \/ Recheck \/ Rearm

Next ==
    \/ \E m \in Msgs, mode \in Modes : PushStart(m, mode)
    \/ ProducerStep
    \/ \E mode \in Modes : FlushWakeup(mode)
    \/ ConsumerStep
    \/ ReactorPoll
    \/ OtherWake

Spec == Init /\ [][Next]_vars

\* A thread in the middle of a send goes on running, a reactor whose eventfd
\* is readable is scheduled, and a function that sends deferred with a mask of
\* its own flushes it before it returns.  Nobody has to start a send, nothing
\* ever forces a flush of proxy_wake_mask (that takes another request from a
\* client), and no other sender or MGET has to come to the rescue.
FairSpec ==
    /\ Spec
    /\ WF_vars(ProducerStep)
    /\ WF_vars(FlushWakeup("deferred"))
    /\ WF_vars(ConsumerStep)

---------------------------------------------------------------------------
(* Properties                                                              *)

\* Type invariant.  The positions of producer and consumer are segments that
\* have been allocated.
TypeOK ==
    /\ head \in Nat /\ tail \in Nat
    /\ p_seg \in used /\ c_seg \in used /\ c_seg_shared \in used
    /\ used \subseteq Segs
    /\ next \in [Segs -> Segs]
    /\ slots \in [Segs -> [0..SegSize-1 -> Msgs \union {NoMsg}]]
    /\ wake_edge \in BOOLEAN /\ eventfd \in BOOLEAN
    /\ owed \subseteq Modes
    /\ ppc \in PSteps /\ pmsg \in Msgs \union {NoMsg} /\ pmode \in Modes
    /\ cpc \in CSteps /\ out \in Msgs \union {NoMsg}
    /\ sent \in Seq(Msgs)
    /\ order \in Seq(Segs)

\* The run of SegSize messages that message i belongs to; runs count from 1
\* as order does.
Run(i) == (i \div SegSize) + 1

\* A push never writes a slot whose message the consumer has still to pop,
\* although the producer's only view of the consumer is the c_seg_shared it
\* read when it entered the segment (spsc_queue_push, the test of next_seg).
NoOverwrite ==
    \A i \in tail..head-1 : slots[order[Run(i)]][Offset(i)] = sent[i + 1]

\* Messages leave the queue in the order in which they entered it, each
\* exactly once (spsc_queue_push and spsc_queue_pop across segments).
Queue == INSTANCE Fifo WITH queue <- SubSeq(sent, tail + 1, head),
                            last  <- out
FifoSpec == Queue!Spec

\* A reactor never sleeps on a message that nobody is going to wake it for:
\* the race between spsc_queue_try_disarm_wake and the exchange of wake_edge
\* in shard_send_msg_wake loses no wake-up.
NoLostWake ==
    cpc = "sleep" /\ tail < head
        => eventfd \/ owed # {} \/ ppc \in {"edge", "signal"}

\* A sender spinning for memory inside spsc_queue_push while it still owes the
\* consumer the wake-up of an earlier deferred send.
SpinsBeforeFlush ==
    ppc \in {"look", "grow"} /\ Segs = used /\ owed # {}

\* Whatever has been sent when a sender is about to wake the consumer, or owes
\* it a wake-up from a deferred send, is eventually popped
\* (shard_send_msg_wake, shard_flush_wakeup, shard_msg_drain).  The exception
\* is a sender that runs out of memory before it flushes: it spins inside
\* shard_send_msg_deferred and the flush never comes.
Delivered ==
    \A n \in 1..MaxMsgs :
        head = n /\ (ppc = "edge" \/ "deferred" \in owed)
            ~> tail >= n \/ SpinsBeforeFlush

\* A sender that spins on a full queue and owes no wake-up gets its message
\* in: the consumer goes on freeing segments although the sender has not
\* returned (while (!spsc_queue_push(q, msg)) sched_yield()).
PushReturns == ppc = "look" /\ owed = {} ~> ppc \in {"edge", "idle"}

---------------------------------------------------------------------------
(* The inductive invariant behind the safety properties.                   *)

\* Runs of the consumer's segment, of the segment it has announced, and of
\* the producer's segment.
CRun == IF AtBoundary(tail) /\ cpc \notin {"share", "read"}
          THEN Run(tail) - 1 ELSE Run(tail)
SRun == IF cpc = "share" THEN CRun - 1 ELSE CRun
PRun == IF AtBoundary(head) /\ ppc \notin {"store", "publish"}
          THEN Run(head) - 1 ELSE Run(head)

\* The counters agree with the histories and with the program counters.
Counters ==
    /\ tail <= head
    /\ Len(sent) = head
    /\ Len(order) = PRun
    /\ cpc \in {"advance", "share", "read"} => tail < head
    /\ cpc \in {"advance", "share"} => AtBoundary(tail)
    /\ cpc = "read" => CRun = Run(tail)
    /\ ppc \in {"look", "grow"} => AtBoundary(head)
    /\ ppc # "idle" => pmsg \in Msgs
    /\ ppc = "publish" => slots[p_seg][Offset(head)] = pmsg

\* The segments between the announced one and the producer's are distinct and
\* linked in order, and no two allocated segments have the same successor:
\* so the successor of p_seg is either the announced segment or free.
Ring ==
    /\ c_seg = order[CRun]
    /\ c_seg_shared = order[SRun]
    /\ p_seg = order[PRun]
    /\ \A j, k \in SRun..PRun : order[j] = order[k] => j = k
    /\ \A k \in SRun..PRun - 1 : next[order[k]] = order[k + 1]
    /\ \A k \in SRun..PRun : order[k] \in used
    /\ \A s \in used : next[s] \in used
    /\ \A s, t \in used : next[s] = next[t] => s = t

\* An armed edge means that a wake-up is on its way to a consumer that sleeps
\* or is about to.
EdgeHasWake ==
    cpc \in {"sleep", "recheck"} /\ wake_edge => eventfd \/ ppc = "signal"

\* Everything above holds in every reachable state of the queue.
IInv ==
    TypeOK /\ Counters /\ Ring /\ NoOverwrite /\ EdgeHasWake /\ NoLostWake
=============================================================================
