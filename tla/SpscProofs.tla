---------------------------- MODULE SpscProofs ----------------------------
(***************************************************************************)
(* Proofs about Spsc for every segment size, every set of segments and     *)
(* messages, and any number of messages.                                   *)
(***************************************************************************)
EXTENDS Spsc, SequenceTheorems, TLAPS

(* Arithmetic of segments.  The proofs below use Run and Offset only       *)
(* through these lemmas.                                                   *)

\* Multiplication by a natural number is monotone.
LEMMA MulMono ==
    ASSUME NEW n \in Nat, NEW a \in Int, NEW b \in Int, a <= b
    PROVE  n * a <= n * b
<1>1. b - a \in Nat
  OBVIOUS
<1>2. n * (b - a) \in Nat
  BY <1>1
<1>3. n * (b - a) = n * b - n * a
  OBVIOUS
<1> QED BY <1>2, <1>3

\* Division with remainder by SegSize.
LEMMA DivMod ==
    ASSUME NEW i \in Nat
    PROVE  /\ Offset(i) \in 0..SegSize-1
           /\ Run(i) \in Nat \ {0}
           /\ i = SegSize * (Run(i) - 1) + Offset(i)
  BY SegSizeAssumption DEF Offset, Run

\* A run and an offset determine the message.
LEMMA RunOffsetUnique ==
    ASSUME NEW q1 \in Int, NEW r1 \in 0..SegSize-1,
           NEW q2 \in Int, NEW r2 \in 0..SegSize-1,
           SegSize * q1 + r1 = SegSize * q2 + r2
    PROVE  q1 = q2 /\ r1 = r2
<1>1. ASSUME NEW a \in Int, NEW b \in Int, NEW c \in 0..SegSize-1,
             NEW d \in 0..SegSize-1,
             SegSize * a + c = SegSize * b + d, a < b
      PROVE  FALSE
  <2>1. a + 1 <= b
    BY <1>1
  <2>2. SegSize * (a + 1) <= SegSize * b
    BY <1>1, <2>1, MulMono, SegSizeAssumption
  <2>3. SegSize * (a + 1) = SegSize * a + SegSize
    BY SegSizeAssumption
  <2>4. SegSize * a \in Int /\ SegSize * b \in Int
    BY SegSizeAssumption
  <2> QED BY <1>1, <2>2, <2>3, <2>4, SegSizeAssumption
<1>2. ~ (q1 < q2) /\ ~ (q2 < q1)
  BY <1>1
<1>3. q1 = q2
  BY <1>2
<1>4. SegSize * q1 \in Int
  BY SegSizeAssumption
<1> QED BY <1>3, <1>4, SegSizeAssumption

\* Different messages of the same run have different offsets.
LEMMA RunInjective ==
    ASSUME NEW i \in Nat, NEW j \in Nat, Run(i) = Run(j), Offset(i) = Offset(j)
    PROVE  i = j
  BY DivMod

\* The next message is in the next run iff its offset is 0.
LEMMA RunSucc ==
    ASSUME NEW i \in Nat
    PROVE  Run(i + 1) = IF Offset(i + 1) = 0 THEN Run(i) + 1 ELSE Run(i)
<1>1. i + 1 = SegSize * (Run(i + 1) - 1) + Offset(i + 1)
  BY DivMod
<1>2. i = SegSize * (Run(i) - 1) + Offset(i)
  BY DivMod
<1>3. /\ Offset(i) \in 0..SegSize-1 /\ Offset(i + 1) \in 0..SegSize-1
      /\ Run(i) \in Int /\ Run(i + 1) \in Int
  BY DivMod
<1>4. CASE Offset(i) = SegSize - 1
  <2>1. SegSize * Run(i) = SegSize * (Run(i) - 1) + SegSize
    BY <1>3, SegSizeAssumption
  <2>2. SegSize * Run(i) + 0 = SegSize * (Run(i + 1) - 1) + Offset(i + 1)
    BY <1>1, <1>2, <1>3, <1>4, <2>1, SegSizeAssumption
  <2>3. 0 \in 0..SegSize-1 /\ Run(i + 1) - 1 \in Int
    BY <1>3, SegSizeAssumption
  <2>4. Run(i) = Run(i + 1) - 1 /\ 0 = Offset(i + 1)
    BY <1>3, <2>2, <2>3, RunOffsetUnique
  <2> QED BY <1>3, <2>4
<1>5. CASE Offset(i) # SegSize - 1
  <2>1. Offset(i) + 1 \in 0..SegSize-1
    BY <1>3, <1>5, SegSizeAssumption
  <2>2. SegSize * (Run(i) - 1) + (Offset(i) + 1)
          = SegSize * (Run(i + 1) - 1) + Offset(i + 1)
    BY <1>1, <1>2, <1>3, SegSizeAssumption
  <2>3. Run(i) - 1 = Run(i + 1) - 1 /\ Offset(i) + 1 = Offset(i + 1)
    BY <1>3, <2>1, <2>2, RunOffsetUnique
  <2> QED BY <1>3, <2>3
<1> QED BY <1>4, <1>5

\* Later messages are in later runs.
LEMMA RunMono ==
    ASSUME NEW i \in Nat, NEW j \in Nat, i <= j
    PROVE  Run(i) <= Run(j)
<1> SUFFICES ASSUME Run(j) < Run(i) PROVE FALSE
  BY DivMod
<1>1. /\ Offset(i) \in 0..SegSize-1 /\ Offset(j) \in 0..SegSize-1
      /\ Run(i) \in Int /\ Run(j) \in Int
      /\ i = SegSize * (Run(i) - 1) + Offset(i)
      /\ j = SegSize * (Run(j) - 1) + Offset(j)
  BY DivMod
<1>2. SegSize * Run(j) <= SegSize * (Run(i) - 1)
  BY <1>1, MulMono, SegSizeAssumption
<1>3. SegSize * Run(j) = SegSize * (Run(j) - 1) + SegSize
  BY <1>1, SegSizeAssumption
<1> QED BY <1>1, <1>2, <1>3, SegSizeAssumption

\* What precedes a segment boundary is in an earlier run.
LEMMA RunBoundary ==
    ASSUME NEW i \in Nat, NEW j \in Nat, i < j, Offset(j) = 0
    PROVE  Run(i) <= Run(j) - 1
<1>1. j - 1 \in Nat /\ i <= j - 1 /\ (j - 1) + 1 = j
  OBVIOUS
<1>2. Run(j) = Run(j - 1) + 1
  BY <1>1, RunSucc
<1>3. Run(i) <= Run(j - 1)
  BY <1>1, RunMono
<1> QED BY <1>1, <1>2, <1>3, DivMod

---------------------------------------------------------------------------
(* Where the two threads are.                                              *)

\* The announced run is at most the consumer's, which is at most the
\* producer's, and every unread message lies between them.
LEMMA RunFacts ==
    ASSUME TypeOK, Counters
    PROVE  /\ SRun \in Nat \ {0} /\ CRun \in Nat \ {0} /\ PRun \in Nat \ {0}
           /\ SRun <= CRun /\ CRun <= PRun
           /\ \A i \in tail..head-1 : Run(i) \in CRun..PRun
<1>1. tail \in Nat /\ head \in Nat /\ tail <= head
  BY DEF TypeOK, Counters
<1>2. /\ Run(tail) \in Nat \ {0} /\ Run(head) \in Nat \ {0}
      /\ Run(tail) <= Run(head)
  BY <1>1, DivMod, RunMono
<1>3. Run(0) \in Nat \ {0}
  BY DivMod
<1>4. AtBoundary(tail) => Run(tail) >= 2
  BY <1>1, <1>2, <1>3, RunBoundary DEF AtBoundary
<1>5. AtBoundary(head) => Run(head) >= 2
  BY <1>1, <1>2, <1>3, RunBoundary DEF AtBoundary
<1>6. CRun \in Nat \ {0} /\ CRun <= Run(tail) /\ CRun >= Run(tail) - 1
  BY <1>2, <1>4 DEF CRun
<1>7. SRun \in Nat \ {0} /\ SRun <= CRun
  BY <1>2, <1>4, <1>6 DEF SRun, CRun, Counters
<1>8. PRun \in Nat \ {0} /\ PRun <= Run(head) /\ PRun >= Run(head) - 1
  BY <1>2, <1>5 DEF PRun
<1>9. ASSUME NEW i \in tail..head-1
      PROVE  Run(i) \in CRun..PRun
  <2>1. i \in Nat /\ tail <= i /\ i < head
    BY <1>1
  <2>2. Run(i) \in Nat /\ Run(tail) <= Run(i) /\ Run(i) <= Run(head)
    BY <1>1, <2>1, DivMod, RunMono
  <2>3. AtBoundary(head) => Run(i) <= Run(head) - 1
    BY <1>1, <2>1, RunBoundary DEF AtBoundary
  <2>4. Run(i) <= PRun
    BY <1>2, <2>2, <2>3 DEF PRun
  <2> QED BY <1>2, <1>6, <1>8, <2>2, <2>4
<1>10. CRun <= PRun
  <2>1. CASE tail < head
    BY <1>1, <1>6, <1>8, <1>9, <2>1
  <2>2. CASE tail = head
    BY <1>2, <1>6, <1>8, <2>2 DEF CRun, PRun, Counters
  <2> QED BY <1>1, <2>1, <2>2
<1> QED BY <1>6, <1>7, <1>8, <1>9, <1>10

---------------------------------------------------------------------------
(* The invariant is inductive.                                             *)

\* The first message is in the first run.
LEMMA RunZero == Run(0) = 1
<1>1. /\ Run(0) \in Nat \ {0} /\ Offset(0) \in 0..SegSize-1
      /\ 0 = SegSize * (Run(0) - 1) + Offset(0)
  BY DivMod
<1>2. 0 \in 0..SegSize-1 /\ Run(0) - 1 \in Int /\ SegSize * 0 + 0 = 0
  BY <1>1, SegSizeAssumption
<1>3. 0 = Run(0) - 1
  BY <1>1, <1>2, RunOffsetUnique
<1> QED BY <1>1, <1>3

\* spsc_queue_init establishes the invariant.
LEMMA InitIInv == Init => IInv
<1> SUFFICES ASSUME Init PROVE IInv
  OBVIOUS
<1>1. PICK s \in Segs : /\ p_seg = s /\ c_seg = s /\ c_seg_shared = s
                        /\ used = {s} /\ order = <<s>>
  BY DEF Init
<1>2. head = 0 /\ tail = 0 /\ cpc = "sleep" /\ ppc = "idle" /\ sent = << >>
  BY DEF Init
<1>3. ~ AtBoundary(0)
  BY DEF AtBoundary
<1>4. CRun = 1 /\ SRun = 1 /\ PRun = 1
  BY <1>2, <1>3, RunZero DEF CRun, SRun, PRun
<1>5. TypeOK
  <2>1. slots \in [Segs -> [0..SegSize-1 -> Msgs \union {NoMsg}]]
    BY DEF Init
  <2>2. next \in [Segs -> Segs]
    BY DEF Init
  <2>3. sent \in Seq(Msgs) /\ order \in Seq(Segs)
    BY <1>1, <1>2
  <2>4. wake_edge \in BOOLEAN /\ eventfd \in BOOLEAN
    BY DEF Init
  <2>5. owed \subseteq Modes /\ pmode \in Modes /\ pmsg = NoMsg /\ out = NoMsg
    BY DEF Init, Modes
  <2> QED BY <1>1, <1>2, <2>1, <2>2, <2>3, <2>4, <2>5
          DEF TypeOK, PSteps, CSteps
<1>6. Counters
  BY <1>1, <1>2, <1>4 DEF Counters
<1>7. Ring
  BY <1>1, <1>4 DEF Ring, Init
<1>8. NoOverwrite /\ EdgeHasWake /\ NoLostWake
  BY <1>2 DEF Init, NoOverwrite, EdgeHasWake, NoLostWake
<1> QED BY <1>5, <1>6, <1>7, <1>8 DEF IInv

\* A step that leaves the queue alone and both threads in their runs keeps
\* the ring and the unread messages.
LEMMA QueueKept ==
    ASSUME IInv, UNCHANGED <<queueVars, auxVars>>,
           CRun' = CRun, SRun' = SRun, PRun' = PRun
    PROVE  Ring' /\ NoOverwrite'
  BY DEF IInv, Ring, NoOverwrite, queueVars, auxVars

\* Appending to a sequence.
LEMMA AppendFacts ==
    ASSUME NEW S, NEW seq \in Seq(S), NEW e \in S
    PROVE  /\ Append(seq, e) \in Seq(S)
           /\ Len(Append(seq, e)) = Len(seq) + 1
           /\ Append(seq, e)[Len(seq) + 1] = e
           /\ \A k \in 1..Len(seq) : Append(seq, e)[k] = seq[k]
  BY AppendProperties

\* Every step keeps the types.
LEMMA TypeStep == IInv /\ [Next]_vars => TypeOK'
<1> SUFFICES ASSUME IInv, [Next]_vars PROVE TypeOK'
  OBVIOUS
<1>0. TypeOK /\ Counters /\ Ring
  BY DEF IInv
<1> USE <1>0 DEF TypeOK
<1>1. ASSUME NEW m \in Msgs, NEW mode \in Modes, PushStart(m, mode)
      PROVE  TypeOK'
  BY <1>1 DEF PushStart, queueVars, wakeVars, consVars, auxVars, PSteps
<1>2. CASE PushLook
  <2>1. next[p_seg] \in used
    BY DEF Ring
  <2>2. next[p_seg] \in Segs
    BY <2>1
  <2>3. Append(order, next[p_seg]) \in Seq(Segs)
    BY <2>2, AppendFacts
  <2> QED BY <1>2, <2>1, <2>3 DEF PushLook, wakeVars, consVars, PSteps
<1>3. CASE PushGrow
  <2>1. PICK s \in Segs \ used :
              /\ used' = used \union {s}
              /\ next' = [next EXCEPT ![s] = next[p_seg], ![p_seg] = s]
              /\ p_seg' = s
              /\ order' = Append(order, s)
    BY <1>3 DEF PushGrow
  <2>2. order' \in Seq(Segs)
    BY <2>1, AppendFacts
  <2>3. next' \in [Segs -> Segs]
    BY <2>1
  <2>4. /\ p_seg' \in used' /\ c_seg' \in used' /\ c_seg_shared' \in used'
        /\ used' \subseteq Segs
    BY <1>3, <2>1 DEF PushGrow
  <2>5. /\ UNCHANGED <<head, tail, slots, wakeVars, pmsg, pmode, consVars, sent>>
        /\ ppc' \in PSteps
    BY <1>3 DEF PushGrow, PSteps
  <2> QED BY <2>2, <2>3, <2>4, <2>5 DEF wakeVars, consVars
<1>4. CASE PushRetry
  BY <1>4 DEF PushRetry, queueVars, wakeVars, consVars, auxVars, PSteps
<1>5. CASE PushStore
  <2>1. slots' \in [Segs -> [0..SegSize-1 -> Msgs \union {NoMsg}]]
    BY <1>5 DEF PushStore
  <2> QED BY <1>5, <2>1 DEF PushStore, wakeVars, consVars, auxVars, PSteps
<1>6. CASE PushPublish
  <2>1. sent' \in Seq(Msgs)
    BY <1>6, AppendFacts DEF PushPublish, Counters
  <2> QED BY <1>6, <2>1 DEF PushPublish, wakeVars, consVars, auxVars, PSteps
<1>7. CASE SendEdge
  BY <1>7 DEF SendEdge, queueVars, consVars, auxVars, PSteps
<1>8. CASE SendSignal
  BY <1>8 DEF SendSignal, queueVars, consVars, auxVars, PSteps
<1>9. ASSUME NEW mode \in Modes, FlushWakeup(mode)
      PROVE  TypeOK'
  BY <1>9 DEF FlushWakeup, queueVars, prodVars, consVars, auxVars
<1>10. CASE ReactorWake
  BY <1>10 DEF ReactorWake, queueVars, prodVars, auxVars, CSteps
<1>11. CASE PopCheck
  BY <1>11 DEF PopCheck, queueVars, wakeVars, prodVars, auxVars, CSteps
<1>12. CASE PopAdvance
  BY <1>12 DEF PopAdvance, Ring, wakeVars, prodVars, auxVars, CSteps
<1>13. CASE PopShare
  BY <1>13 DEF PopShare, wakeVars, prodVars, auxVars, CSteps
<1>14. CASE PopRead
  <2>1. Offset(tail) \in 0..SegSize-1
    BY DivMod
  <2>2. c_seg \in Segs
    OBVIOUS
  <2>3. slots[c_seg][Offset(tail)] \in Msgs \union {NoMsg}
    BY <2>1, <2>2
  <2> QED BY <1>14, <2>3 DEF PopRead, wakeVars, prodVars, auxVars, CSteps
<1>15. CASE Disarm
  BY <1>15 DEF Disarm, queueVars, prodVars, auxVars, CSteps
<1>16. CASE Recheck
  BY <1>16 DEF Recheck, queueVars, wakeVars, prodVars, auxVars, CSteps
<1>17. CASE Rearm
  BY <1>17 DEF Rearm, queueVars, prodVars, auxVars, CSteps
<1>18. CASE ReactorPoll
  BY <1>18 DEF ReactorPoll, queueVars, wakeVars, prodVars, auxVars, CSteps
<1>19. CASE OtherWake
  BY <1>19 DEF OtherWake, queueVars, prodVars, consVars, auxVars
<1>20. CASE UNCHANGED vars
  BY <1>20 DEF vars, queueVars, wakeVars, prodVars, consVars, auxVars
<1> QED BY <1>1, <1>2, <1>3, <1>4, <1>5, <1>6, <1>7, <1>8, <1>9, <1>10, <1>11,
           <1>12, <1>13, <1>14, <1>15, <1>16, <1>17, <1>18, <1>19, <1>20
        DEF Next, ProducerStep, ConsumerStep

\* No step loses a wake-up.
LEMMA WakeStep == IInv /\ [Next]_vars => EdgeHasWake' /\ NoLostWake'
<1> SUFFICES ASSUME IInv, [Next]_vars PROVE EdgeHasWake' /\ NoLostWake'
  OBVIOUS
<1>0. /\ EdgeHasWake /\ NoLostWake
      /\ tail \in Nat /\ head \in Nat /\ tail <= head
  BY DEF IInv, TypeOK, Counters
<1> USE <1>0 DEF EdgeHasWake, NoLostWake
<1>1. ASSUME NEW m \in Msgs, NEW mode \in Modes, PushStart(m, mode)
      PROVE  EdgeHasWake' /\ NoLostWake'
  BY <1>1 DEF PushStart, queueVars, wakeVars, consVars
<1>2. CASE PushLook \/ PushGrow \/ PushRetry \/ PushStore
  BY <1>2 DEF PushLook, PushGrow, PushRetry, PushStore, queueVars, wakeVars,
              consVars
<1>3. CASE PushPublish
  BY <1>3 DEF PushPublish, consVars
<1>4. CASE SendEdge \/ SendSignal
  BY <1>4 DEF SendEdge, SendSignal, queueVars, consVars
<1>5. ASSUME NEW mode \in Modes, FlushWakeup(mode)
      PROVE  EdgeHasWake' /\ NoLostWake'
  BY <1>5 DEF FlushWakeup
<1>6. CASE ReactorWake \/ PopCheck \/ PopAdvance \/ PopShare \/ PopRead
           \/ ReactorPoll
  BY <1>6 DEF ReactorWake, PopCheck, PopAdvance, PopShare, PopRead, ReactorPoll
<1>7. CASE Disarm \/ Rearm
  BY <1>7 DEF Disarm, Rearm
<1>8. CASE Recheck
  BY <1>8 DEF Recheck, queueVars, wakeVars, prodVars
<1>9. CASE OtherWake
  BY <1>9 DEF OtherWake
<1>10. CASE UNCHANGED vars
  BY <1>10 DEF vars, queueVars, wakeVars, prodVars, consVars
<1> QED BY <1>1, <1>2, <1>3, <1>4, <1>5, <1>6, <1>7, <1>8, <1>9, <1>10
        DEF Next, ProducerStep, ConsumerStep

\* The run of the message after i, as the threads compute it.
LEMMA RunAfter ==
    ASSUME NEW i \in Nat
    PROVE  (IF AtBoundary(i + 1) THEN Run(i + 1) - 1 ELSE Run(i + 1)) = Run(i)
  BY RunSucc, DivMod DEF AtBoundary

\* Steps that move no thread to another run and touch no slot.
LEMMA QuietStep ==
    ASSUME IInv,
           \/ \E m \in Msgs, mode \in Modes : PushStart(m, mode)
           \/ PushRetry \/ SendEdge \/ SendSignal
           \/ \E mode \in Modes : FlushWakeup(mode)
           \/ ReactorWake \/ PopCheck \/ Disarm \/ Recheck \/ Rearm
           \/ ReactorPoll \/ OtherWake \/ UNCHANGED vars
    PROVE  Counters' /\ Ring' /\ NoOverwrite'
<1>0. /\ TypeOK /\ Counters
      /\ tail \in Nat /\ head \in Nat
  BY DEF IInv, TypeOK
<1>1. UNCHANGED <<queueVars, auxVars>>
  BY DEF PushStart, PushRetry, SendEdge, SendSignal, FlushWakeup, ReactorWake,
         PopCheck, Disarm, Recheck, Rearm, ReactorPoll, OtherWake, vars
<1>2. AtBoundary(head)' = AtBoundary(head) /\ AtBoundary(tail)' = AtBoundary(tail)
  BY <1>1 DEF queueVars, AtBoundary
<1>3. PRun' = PRun
  <2>1. ppc' \in {"store", "publish"} /\ AtBoundary(head)
          <=> ppc \in {"store", "publish"} /\ AtBoundary(head)
    BY DEF PushStart, PushRetry, SendEdge, SendSignal, FlushWakeup, ReactorWake,
           PopCheck, Disarm, Recheck, Rearm, ReactorPoll, OtherWake, vars,
           prodVars
  <2> QED BY <1>1, <1>2, <2>1 DEF PRun, queueVars
<1>4. /\ cpc' \in {"share", "read"} /\ AtBoundary(tail)
           <=> cpc \in {"share", "read"} /\ AtBoundary(tail)
      /\ cpc' = "share" <=> cpc = "share"
  BY DEF PushStart, PushRetry, SendEdge, SendSignal, FlushWakeup, ReactorWake,
         PopCheck, Disarm, Recheck, Rearm, ReactorPoll, OtherWake, vars,
         consVars
<1>5. CRun' = CRun /\ SRun' = SRun
  BY <1>1, <1>2, <1>4 DEF CRun, SRun, queueVars
<1>6. Counters'
  <2>1. /\ cpc' \in {"advance", "share", "read"} => tail < head
        /\ cpc' \in {"advance", "share"} => AtBoundary(tail)
        /\ cpc' = "read" => CRun = Run(tail)
    BY <1>0 DEF Counters, CRun, PushStart, PushRetry, SendEdge, SendSignal,
           FlushWakeup, ReactorWake, PopCheck, Disarm, Recheck, Rearm,
           ReactorPoll, OtherWake, vars, consVars
  <2>2. /\ ppc' \in {"look", "grow"} => AtBoundary(head)
        /\ ppc' # "idle" => pmsg' \in Msgs
        /\ ppc' = "publish" => ppc = "publish" /\ pmsg' = pmsg
    BY <1>0 DEF Counters, PushStart, PushRetry, SendEdge, SendSignal,
           FlushWakeup, ReactorWake, PopCheck, Disarm, Recheck, Rearm,
           ReactorPoll, OtherWake, vars, prodVars
  <2> QED BY <1>0, <1>1, <1>2, <1>3, <1>5, <2>1, <2>2
          DEF Counters, queueVars, auxVars
<1> QED BY <1>1, <1>3, <1>5, <1>6, QueueKept

\* Entering a segment, free or new: the run of the producer grows by one, and
\* the segment entered is none of those between consumer and producer.
LEMMA EnterSegment ==
    ASSUME IInv, NEW s \in Segs,
           AtBoundary(head), ppc \in {"look", "grow"}, ppc' = "store",
           p_seg' = s, order' = Append(order, s),
           UNCHANGED <<head, tail, c_seg, c_seg_shared, slots, pmsg, consVars,
                       sent>>,
           \A k \in SRun..PRun : order[k] # s,
           \A k \in SRun..PRun - 1 : next'[order[k]] = next[order[k]],
           next'[p_seg] = s,
           used \subseteq used', s \in used',
           \A t \in used' : next'[t] \in used',
           \A t, u \in used' : next'[t] = next'[u] => t = u
    PROVE  Counters' /\ Ring' /\ NoOverwrite'
<1>0. TypeOK /\ Counters /\ Ring /\ NoOverwrite
  BY DEF IInv
<1>1. /\ SRun \in Nat \ {0} /\ CRun \in Nat \ {0} /\ PRun \in Nat \ {0}
      /\ SRun <= CRun /\ CRun <= PRun
      /\ \A i \in tail..head-1 : Run(i) \in CRun..PRun
  BY <1>0, RunFacts
<1>2. CRun' = CRun /\ SRun' = SRun
  BY DEF CRun, SRun, AtBoundary, consVars
<1>3. head \in Nat /\ tail \in Nat /\ Run(head) \in Nat
  BY <1>0, DivMod DEF TypeOK
<1>4. PRun' = PRun + 1
  BY <1>3 DEF PRun, AtBoundary
<1>5. /\ Len(order) = PRun /\ order \in Seq(Segs)
      /\ Len(order') = PRun + 1
      /\ order'[PRun + 1] = s
      /\ \A k \in 1..PRun : order'[k] = order[k]
  BY <1>0, AppendFacts DEF Counters, TypeOK
<1>6. Counters'
  BY <1>0, <1>2, <1>4, <1>5 DEF Counters, consVars, AtBoundary
<1>7. Ring'
  <2>1. c_seg' = order'[CRun'] /\ c_seg_shared' = order'[SRun']
    BY <1>0, <1>1, <1>2, <1>5 DEF Ring
  <2>2. p_seg' = order'[PRun']
    BY <1>4, <1>5
  <2>3. ASSUME NEW j \in SRun..PRun + 1, NEW k \in SRun..PRun + 1,
               order'[j] = order'[k]
        PROVE  j = k
    <3>1. CASE j = PRun + 1 /\ k # PRun + 1
      BY <1>1, <1>5, <2>3, <3>1
    <3>2. CASE j # PRun + 1 /\ k = PRun + 1
      BY <1>1, <1>5, <2>3, <3>2
    <3>3. CASE j # PRun + 1 /\ k # PRun + 1
      BY <1>0, <1>1, <1>5, <2>3, <3>3 DEF Ring
    <3> QED BY <3>1, <3>2, <3>3
  <2>4. ASSUME NEW k \in SRun..PRun
        PROVE  next'[order'[k]] = order'[k + 1]
    <3>1. CASE k = PRun
      BY <1>0, <1>1, <1>5, <3>1 DEF Ring
    <3>2. CASE k # PRun
      BY <1>0, <1>1, <1>5, <3>2 DEF Ring
    <3> QED BY <3>1, <3>2
  <2>5. \A k \in SRun..PRun + 1 : order'[k] \in used'
    BY <1>0, <1>1, <1>5 DEF Ring
  <2>6. PRun' - 1 = PRun
    BY <1>1, <1>4
  <2> QED BY <1>2, <1>4, <2>1, <2>2, <2>3, <2>4, <2>5, <2>6 DEF Ring
<1>8. NoOverwrite'
  <2>1. ASSUME NEW i \in tail..head-1
        PROVE  order'[Run(i)] = order[Run(i)]
    BY <1>1, <1>5, <2>1
  <2> QED BY <1>0, <2>1 DEF NoOverwrite
<1> QED BY <1>6, <1>7, <1>8

\* The test of spsc_queue_push is sound: a successor of p_seg that is not the
\* announced segment is free.
LEMMA LookStep ==
    ASSUME IInv, PushLook
    PROVE  Counters' /\ Ring' /\ NoOverwrite'
<1>0. TypeOK /\ Counters /\ Ring
  BY DEF IInv
<1>1. AtBoundary(head) /\ ppc = "look"
  BY <1>0 DEF PushLook, Counters
<1>2. CASE next[p_seg] = c_seg_shared
  <2>1. /\ UNCHANGED <<queueVars, auxVars, pmsg, consVars>>
        /\ ppc' = "grow"
    BY <1>2 DEF PushLook, queueVars, auxVars
  <2>2. CRun' = CRun /\ SRun' = SRun /\ PRun' = PRun
    BY <1>1, <2>1 DEF CRun, SRun, PRun, AtBoundary, queueVars, consVars
  <2>3. Counters'
    BY <1>0, <1>1, <2>1, <2>2
    DEF Counters, AtBoundary, queueVars, auxVars, consVars
  <2> QED BY <2>1, <2>2, <2>3, QueueKept
<1>3. CASE next[p_seg] # c_seg_shared
  <2> DEFINE s == next[p_seg]
  <2>1. /\ SRun \in Nat \ {0} /\ CRun \in Nat \ {0} /\ PRun \in Nat \ {0}
        /\ SRun <= CRun /\ CRun <= PRun
    BY <1>0, RunFacts
  <2>2. s \in used /\ s \in Segs
    BY <1>0 DEF TypeOK, Ring
  <2>3. ASSUME NEW k \in SRun..PRun, order[k] = s
        PROVE  FALSE
    <3>1. CASE k = SRun
      BY <1>0, <1>3, <2>3, <3>1 DEF Ring
    <3>2. CASE k # SRun
      <4>1. k - 1 \in SRun..PRun - 1 /\ k - 1 \in SRun..PRun
        BY <2>1, <3>2
      <4>2. next[order[k - 1]] = order[k]
        BY <1>0, <2>1, <4>1 DEF Ring
      <4>3. order[k - 1] \in used /\ order[PRun] \in used
        BY <1>0, <2>1, <4>1 DEF Ring
      <4>4. order[k - 1] = order[PRun]
        BY <1>0, <2>3, <4>2, <4>3 DEF Ring
      <4>5. k - 1 = PRun
        BY <1>0, <2>1, <4>1, <4>4 DEF Ring
      <4> QED BY <2>1, <4>5
    <3> QED BY <3>1, <3>2
  <2>4. /\ p_seg' = s /\ order' = Append(order, s) /\ ppc' = "store"
        /\ UNCHANGED <<head, tail, c_seg, c_seg_shared, used, next, slots, pmsg,
                       consVars, sent>>
    BY <1>3 DEF PushLook
  <2>5. /\ \A t \in used : next[t] \in used
        /\ \A t, u \in used : next[t] = next[u] => t = u
    BY <1>0 DEF Ring
  <2> HIDE DEF s
  <2>6. next'[p_seg] = s
    BY <2>4 DEF s
  <2> QED BY <1>1, <2>2, <2>3, <2>4, <2>5, <2>6, EnterSegment
<1> QED BY <1>2, <1>3

\* Splicing in a new segment keeps the list a ring.
LEMMA GrowStep ==
    ASSUME IInv, PushGrow
    PROVE  Counters' /\ Ring' /\ NoOverwrite'
<1>0. TypeOK /\ Counters /\ Ring
  BY DEF IInv
<1>1. AtBoundary(head) /\ ppc = "grow"
  BY <1>0 DEF PushGrow, Counters
<1>2. /\ SRun \in Nat \ {0} /\ CRun \in Nat \ {0} /\ PRun \in Nat \ {0}
      /\ SRun <= CRun /\ CRun <= PRun
  BY <1>0, RunFacts
<1>3. PICK s \in Segs \ used :
            /\ used' = used \union {s}
            /\ next' = [next EXCEPT ![s] = next[p_seg], ![p_seg] = s]
            /\ p_seg' = s
            /\ order' = Append(order, s)
  BY DEF PushGrow
<1>4. /\ p_seg \in used /\ p_seg = order[PRun]
      /\ next \in [Segs -> Segs] /\ used \subseteq Segs
      /\ \A t \in used : next[t] \in used
      /\ \A t, u \in used : next[t] = next[u] => t = u
  BY <1>0 DEF TypeOK, Ring
<1>5. /\ next'[s] = next[p_seg] /\ next'[p_seg] = s
      /\ \A t \in used : t # p_seg => next'[t] = next[t]
  BY <1>3, <1>4
<1>6. \A k \in SRun..PRun : order[k] # s
  BY <1>0, <1>3 DEF Ring
<1>7. ASSUME NEW k \in SRun..PRun - 1
      PROVE  next'[order[k]] = next[order[k]]
  <2>1. order[k] # p_seg /\ order[k] \in used
    BY <1>0, <1>2, <1>4 DEF Ring
  <2> QED BY <1>5, <2>1
<1>8. \A t \in used' : next'[t] \in used'
  BY <1>3, <1>4, <1>5
<1>9. \A t, u \in used' : next'[t] = next'[u] => t = u
  BY <1>3, <1>4, <1>5
<1>10. /\ ppc' = "store"
       /\ UNCHANGED <<head, tail, c_seg, c_seg_shared, slots, pmsg, consVars,
                      sent>>
  BY DEF PushGrow
<1>11. used \subseteq used' /\ s \in used' /\ s \in Segs
  BY <1>3
<1> QED BY <1>1, <1>3, <1>5, <1>6, <1>7, <1>8, <1>9, <1>10, <1>11, EnterSegment

\* Writing a slot destroys no unread message.
LEMMA StoreStep ==
    ASSUME IInv, PushStore
    PROVE  Counters' /\ Ring' /\ NoOverwrite'
<1>0. TypeOK /\ Counters /\ Ring /\ NoOverwrite
  BY DEF IInv
<1>1. /\ ppc = "store" /\ ppc' = "publish"
      /\ UNCHANGED <<head, tail, p_seg, c_seg, c_seg_shared, used, next, pmsg,
                     consVars, sent, order>>
      /\ slots' = [slots EXCEPT ![p_seg][Offset(head)] = pmsg]
  BY DEF PushStore, auxVars
<1>2. CRun' = CRun /\ SRun' = SRun /\ PRun' = PRun /\ PRun = Run(head)
  BY <1>1 DEF CRun, SRun, PRun, AtBoundary, consVars
<1>3. /\ head \in Nat /\ tail \in Nat /\ p_seg \in Segs
      /\ Offset(head) \in 0..SegSize-1
  BY <1>0, DivMod DEF TypeOK
<1>4. slots'[p_seg][Offset(head)] = pmsg
  BY <1>0, <1>1, <1>3 DEF TypeOK
<1>5. Counters'
  BY <1>0, <1>1, <1>2, <1>4 DEF Counters, consVars, AtBoundary
<1>6. Ring'
  BY <1>0, <1>1, <1>2 DEF Ring
<1>7. ASSUME NEW i \in tail..head-1
      PROVE  slots'[order[Run(i)]][Offset(i)] = slots[order[Run(i)]][Offset(i)]
  <2>1. i \in Nat /\ i # head /\ Offset(i) \in 0..SegSize-1
    BY <1>3, DivMod
  <2>2. /\ SRun \in Nat /\ CRun \in Nat /\ PRun \in Nat
        /\ SRun <= CRun /\ CRun <= PRun /\ Run(i) \in CRun..PRun
    BY <1>0, RunFacts
  <2>3. order[Run(i)] \in used /\ order[Run(i)] \in Segs
    BY <1>0, <2>2 DEF Ring, TypeOK
  <2>4. CASE order[Run(i)] = p_seg
    <3>1. Run(i) = PRun
      BY <1>0, <2>2, <2>4 DEF Ring
    <3>2. Offset(i) # Offset(head)
      BY <1>2, <1>3, <2>1, <3>1, RunInjective
    <3> QED BY <1>0, <1>1, <1>3, <2>1, <2>3, <3>2 DEF TypeOK
  <2>5. CASE order[Run(i)] # p_seg
    BY <1>0, <1>1, <1>3, <2>1, <2>3, <2>5 DEF TypeOK
  <2> QED BY <2>4, <2>5
<1>8. NoOverwrite'
  BY <1>0, <1>1, <1>7 DEF NoOverwrite
<1> QED BY <1>5, <1>6, <1>8

\* Publishing head makes exactly the written message readable.
LEMMA PublishStep ==
    ASSUME IInv, PushPublish
    PROVE  Counters' /\ Ring' /\ NoOverwrite'
<1>0. TypeOK /\ Counters /\ Ring /\ NoOverwrite
  BY DEF IInv
<1>1. /\ ppc = "publish" /\ ppc' \in {"edge", "idle"}
      /\ head' = head + 1 /\ sent' = Append(sent, pmsg)
      /\ UNCHANGED <<tail, p_seg, c_seg, c_seg_shared, used, next, slots, pmsg,
                     consVars, order>>
  BY DEF PushPublish
<1>2. head \in Nat /\ tail \in Nat /\ tail <= head /\ pmsg \in Msgs
  BY <1>0, <1>1 DEF TypeOK, Counters
<1>3. CRun' = CRun /\ SRun' = SRun
  BY <1>1 DEF CRun, SRun, AtBoundary, consVars
<1>4. PRun = Run(head) /\ PRun' = Run(head)
  BY <1>1, <1>2, RunAfter DEF PRun, AtBoundary
<1>5. /\ Len(sent') = head + 1 /\ sent'[head + 1] = pmsg
      /\ \A k \in 1..head : sent'[k] = sent[k]
  BY <1>0, <1>1, <1>2, AppendFacts DEF TypeOK, Counters
<1>6. Counters'
  BY <1>0, <1>1, <1>2, <1>3, <1>4, <1>5 DEF Counters, consVars, AtBoundary
<1>7. Ring'
  BY <1>0, <1>1, <1>3, <1>4 DEF Ring
<1>8. ASSUME NEW i \in tail..head
      PROVE  slots[order[Run(i)]][Offset(i)] = sent'[i + 1]
  <2>1. CASE i = head
    BY <1>0, <1>1, <1>4, <1>5, <2>1 DEF Ring, Counters
  <2>2. CASE i # head
    <3>1. i \in tail..head-1 /\ i + 1 \in 1..head
      BY <1>2, <2>2
    <3> QED BY <1>0, <1>5, <3>1 DEF NoOverwrite
  <2> QED BY <2>1, <2>2
<1>9. head' - 1 = head
  BY <1>1, <1>2
<1>10. NoOverwrite'
  BY <1>1, <1>8, <1>9 DEF NoOverwrite
<1> QED BY <1>6, <1>7, <1>10

\* The consumer moves to the segment that holds the next message.
LEMMA AdvanceStep ==
    ASSUME IInv, PopAdvance
    PROVE  Counters' /\ Ring' /\ NoOverwrite'
<1>0. TypeOK /\ Counters /\ Ring /\ NoOverwrite
  BY DEF IInv
<1>1. /\ cpc = "advance" /\ cpc' = "share" /\ c_seg' = next[c_seg]
      /\ UNCHANGED <<head, tail, p_seg, c_seg_shared, used, next, slots, ppc,
                     pmsg, sent, order>>
  BY DEF PopAdvance, prodVars, auxVars
<1>2. /\ AtBoundary(tail) /\ tail < head /\ tail \in Nat /\ head \in Nat
      /\ Run(tail) \in Nat
  BY <1>0, <1>1, DivMod DEF Counters, TypeOK
<1>3. /\ SRun \in Nat \ {0} /\ CRun \in Nat \ {0} /\ PRun \in Nat \ {0}
      /\ SRun <= CRun /\ CRun <= PRun /\ Run(tail) \in CRun..PRun
  BY <1>0, <1>2, RunFacts
<1>4. /\ CRun = Run(tail) - 1 /\ SRun = CRun
      /\ CRun' = Run(tail) /\ SRun' = Run(tail) - 1 /\ PRun' = PRun
  BY <1>1, <1>2 DEF CRun, SRun, PRun, AtBoundary
<1>5. Counters'
  BY <1>0, <1>1, <1>2, <1>4 DEF Counters, AtBoundary
<1>6. c_seg' = order'[CRun']
  <2>1. CRun \in SRun..PRun - 1 /\ CRun + 1 = Run(tail)
    BY <1>2, <1>3, <1>4
  <2>2. next[order[CRun]] = order[Run(tail)]
    BY <1>0, <2>1 DEF Ring
  <2> QED BY <1>0, <1>1, <1>4, <2>2 DEF Ring
<1>7. SRun' = SRun
  BY <1>4
<1>8. Ring'
  BY <1>0, <1>1, <1>4, <1>6, <1>7 DEF Ring
<1>9. NoOverwrite'
  BY <1>0, <1>1 DEF NoOverwrite
<1> QED BY <1>5, <1>8, <1>9

\* Announcing the segment gives up only the one the consumer has left.
LEMMA ShareStep ==
    ASSUME IInv, PopShare
    PROVE  Counters' /\ Ring' /\ NoOverwrite'
<1>0. TypeOK /\ Counters /\ Ring /\ NoOverwrite
  BY DEF IInv
<1>1. /\ cpc = "share" /\ cpc' = "read" /\ c_seg_shared' = c_seg
      /\ UNCHANGED <<head, tail, p_seg, c_seg, used, next, slots, ppc, pmsg,
                     sent, order>>
  BY DEF PopShare, prodVars, auxVars
<1>2. CRun = Run(tail) /\ CRun' = CRun /\ SRun' = CRun /\ PRun' = PRun
  BY <1>1 DEF CRun, SRun, PRun, AtBoundary
<1>3. /\ SRun \in Nat \ {0} /\ CRun \in Nat \ {0} /\ PRun \in Nat \ {0}
      /\ SRun <= CRun /\ CRun <= PRun
  BY <1>0, RunFacts
<1>4. Counters'
  BY <1>0, <1>1, <1>2 DEF Counters, AtBoundary
<1>5. CRun..PRun \subseteq SRun..PRun /\ CRun..PRun-1 \subseteq SRun..PRun-1
  BY <1>3
<1>6. Ring'
  BY <1>0, <1>1, <1>2, <1>5 DEF Ring
<1>7. NoOverwrite'
  BY <1>0, <1>1 DEF NoOverwrite
<1> QED BY <1>4, <1>6, <1>7

\* Popping reads the oldest unread message.
LEMMA ReadStep ==
    ASSUME IInv, PopRead
    PROVE  Counters' /\ Ring' /\ NoOverwrite' /\ out' = sent[tail + 1]
<1>0. TypeOK /\ Counters /\ Ring /\ NoOverwrite
  BY DEF IInv
<1>1. /\ cpc = "read" /\ cpc' = "pop" /\ tail' = tail + 1
      /\ out' = slots[c_seg][Offset(tail)]
      /\ UNCHANGED <<head, p_seg, c_seg, c_seg_shared, used, next, slots, ppc,
                     pmsg, sent, order>>
  BY DEF PopRead, prodVars, auxVars
<1>2. tail \in Nat /\ head \in Nat /\ tail < head /\ CRun = Run(tail)
  BY <1>0, <1>1 DEF TypeOK, Counters
<1>3. SRun = CRun /\ CRun' = CRun /\ SRun' = CRun /\ PRun' = PRun
  BY <1>1, <1>2, RunAfter DEF CRun, SRun, PRun, AtBoundary
<1>4. Counters'
  BY <1>0, <1>1, <1>2, <1>3 DEF Counters, AtBoundary
<1>5. Ring'
  BY <1>0, <1>1, <1>3 DEF Ring
<1>6. NoOverwrite'
  BY <1>0, <1>1, <1>2 DEF NoOverwrite
<1>7. out' = sent[tail + 1]
  BY <1>0, <1>1, <1>2 DEF NoOverwrite, Ring
<1> QED BY <1>4, <1>5, <1>6, <1>7

\* Every step keeps the invariant.
LEMMA NextIInv == IInv /\ [Next]_vars => IInv'
<1> SUFFICES ASSUME IInv, [Next]_vars PROVE IInv'
  OBVIOUS
<1>1. TypeOK' /\ EdgeHasWake' /\ NoLostWake'
  BY TypeStep, WakeStep
<1>2. Counters' /\ Ring' /\ NoOverwrite'
  BY QuietStep, LookStep, GrowStep, StoreStep, PublishStep, AdvanceStep,
     ShareStep, ReadStep DEF Next, ProducerStep, ConsumerStep
<1> QED BY <1>1, <1>2 DEF IInv

\* The queue keeps its types, overwrites no unread message and loses no
\* wake-up (spsc_queue_push, spsc_queue_pop, spsc_queue_try_disarm_wake and
\* shard_send_msg_wake), for every segment size and any number of messages.
THEOREM SpscSafe == Spec => [](TypeOK /\ NoOverwrite /\ NoLostWake)
<1>1. IInv => TypeOK /\ NoOverwrite /\ NoLostWake
  BY DEF IInv
<1> QED BY InitIInv, NextIInv, <1>1, PTL DEF Spec

\* No message is written over one that was not read yet (spsc_queue_push).
THEOREM NothingOverwritten == Spec => []NoOverwrite
  BY SpscSafe, PTL

---------------------------------------------------------------------------
(* Spsc implements Fifo: publishing head is Send, popping is Receive, and  *)
(* every other step leaves the abstract queue alone.                       *)

\* The unread messages after one more has been published.
LEMMA SubSeqAppend ==
    ASSUME NEW S, NEW seq \in Seq(S), NEW e \in S, NEW t \in 0..Len(seq)
    PROVE  SubSeq(Append(seq, e), t + 1, Len(seq) + 1)
             = Append(SubSeq(seq, t + 1, Len(seq)), e)
<1> DEFINE n == Len(seq)
           a == SubSeq(Append(seq, e), t + 1, n + 1)
           b == SubSeq(seq, t + 1, n)
<1>1. n \in Nat /\ t \in Nat /\ t <= n
  OBVIOUS
<1>2. /\ Append(seq, e) \in Seq(S) /\ Len(Append(seq, e)) = n + 1
      /\ Append(seq, e)[n + 1] = e
      /\ \A k \in 1..n : Append(seq, e)[k] = seq[k]
  BY AppendFacts
<1>3. \A i \in t + 1..n + 1 : Append(seq, e)[i] \in S
  BY <1>1, <1>2, ElementOfSeq
<1>4. /\ a \in Seq(S) /\ Len(a) = n - t + 1
      /\ \A i \in 1..n - t + 1 : a[i] = Append(seq, e)[t + i]
  <2> DEFINE c == Append(seq, e)
             lo == t + 1
             hi == n + 1
  <2>1. \A i \in lo..hi : c[i] \in S
    BY <1>3
  <2>2. lo \in Int /\ hi \in Int /\ lo <= hi
    BY <1>1
  <2> HIDE DEF c, lo, hi
  <2>3. /\ SubSeq(c, lo, hi) \in Seq(S)
        /\ Len(SubSeq(c, lo, hi)) = hi - lo + 1
        /\ \A i \in 1..hi - lo + 1 : SubSeq(c, lo, hi)[i] = c[lo + i - 1]
    BY <2>1, <2>2, SubSeqProperties
  <2>4. a = SubSeq(c, lo, hi) /\ c = Append(seq, e)
    BY DEF c, lo, hi
  <2>5. hi - lo + 1 = n - t + 1
    BY <1>1 DEF lo, hi
  <2>6. ASSUME NEW i \in 1..n - t + 1
        PROVE  a[i] = Append(seq, e)[t + i]
    <3>1. a[i] = c[lo + i - 1]
      <4> HIDE DEF a, n
      <4> QED BY <2>3, <2>4, <2>5
    <3>2. lo + i - 1 = t + i
      BY <1>1 DEF lo
    <3> QED BY <2>4, <3>1, <3>2
  <2>7. a \in Seq(S) /\ Len(a) = n - t + 1
    <3> HIDE DEF a, n
    <3> QED BY <2>3, <2>4, <2>5
  <2> QED BY <2>6, <2>7
<1>5. \A i \in t + 1..n : seq[i] \in S
  BY <1>1, ElementOfSeq
<1>6. /\ b \in Seq(S) /\ Len(b) = n - t
      /\ \A i \in 1..n - t : b[i] = seq[t + i]
  BY <1>1, <1>5, SubSeqProperties
<1>7. /\ Append(b, e) \in Seq(S) /\ Len(Append(b, e)) = n - t + 1
      /\ Append(b, e)[n - t + 1] = e
      /\ \A k \in 1..n - t : Append(b, e)[k] = b[k]
  BY <1>6, AppendFacts
<1>8. ASSUME NEW i \in 1..n - t + 1
      PROVE  a[i] = Append(b, e)[i]
  <2>1. CASE i = n - t + 1
    BY <1>1, <1>2, <1>4, <1>7, <2>1
  <2>2. CASE i # n - t + 1
    BY <1>1, <1>2, <1>4, <1>6, <1>7, <2>2
  <2> QED BY <2>1, <2>2
<1> HIDE DEF a, b, n
<1>9. a = Append(b, e)
  BY <1>4, <1>7, <1>8, SeqEqual
<1> QED BY <1>9 DEF a, b, n

\* Messages come out of the segmented queue in the order in which they went
\* in, each exactly once (spsc_queue_push and spsc_queue_pop).
THEOREM SpscImplementsFifo == Spec => FifoSpec
<1>1. Init => Queue!Init
  <2> SUFFICES ASSUME Init PROVE Queue!Init
    OBVIOUS
  <2>1. SubSeq(sent, tail + 1, head) = << >>
    BY SubSeqEmpty DEF Init
  <2> QED BY <2>1, NoMsgAssumption DEF Init, Queue!Init
<1>2. IInv /\ [Next]_vars => [Queue!Next]_Queue!vars
  <2> SUFFICES ASSUME IInv, [Next]_vars PROVE [Queue!Next]_Queue!vars
    OBVIOUS
  <2>0. /\ TypeOK /\ Counters /\ Len(sent) = head
        /\ head \in Nat /\ tail \in Nat /\ tail <= head
    BY DEF IInv, TypeOK, Counters
  <2>1. CASE PushPublish
    <3>1. /\ head' = head + 1 /\ sent' = Append(sent, pmsg)
          /\ tail' = tail /\ out' = out /\ pmsg \in Msgs
      BY <2>0, <2>1 DEF PushPublish, consVars, Counters
    <3>2. SubSeq(sent', tail' + 1, head')
            = Append(SubSeq(sent, tail + 1, head), pmsg)
      BY <2>0, <3>1, SubSeqAppend DEF TypeOK
    <3>3. Queue!Send(pmsg)
      BY <3>1, <3>2 DEF Queue!Send
    <3> QED BY <3>1, <3>3 DEF Queue!Next
  <2>2. CASE PopRead
    <3>1. /\ head' = head /\ sent' = sent /\ tail' = tail + 1
          /\ out' = sent[tail + 1] /\ tail < head
      BY <2>0, <2>2, ReadStep DEF PopRead, auxVars, Counters
    <3>2. tail + 1 \in 1..Len(sent) /\ head \in tail + 1..Len(sent)
      BY <2>0, <3>1
    <3>3. /\ Head(SubSeq(sent, tail + 1, head)) = sent[tail + 1]
          /\ Tail(SubSeq(sent, tail + 1, head)) = SubSeq(sent, tail + 2, head)
      BY <2>0, <3>2, HeadTailOfSubSeq DEF TypeOK
    <3>4. SubSeq(sent, tail + 1, head) # << >>
      <4>1. \A i \in tail + 1..head : sent[i] \in Msgs
        BY <2>0, ElementOfSeq DEF TypeOK
      <4>2. Len(SubSeq(sent, tail + 1, head)) = head - tail
        BY <2>0, <3>1, <4>1, SubSeqProperties
      <4> QED BY <2>0, <3>1, <4>2
    <3>5. SubSeq(sent', tail' + 1, head') = SubSeq(sent, tail + 2, head)
      BY <2>0, <3>1
    <3>6. Queue!Receive
      BY <3>1, <3>3, <3>4, <3>5 DEF Queue!Receive
    <3> QED BY <3>6 DEF Queue!Next
  <2>3. CASE ~ PushPublish /\ ~ PopRead
    <3>1. UNCHANGED <<head, tail, sent, out>>
      BY <2>3 DEF Next, ProducerStep, ConsumerStep, PushStart, PushLook,
         PushGrow, PushRetry, PushStore, SendEdge, SendSignal, FlushWakeup,
         ReactorWake, PopCheck, PopAdvance, PopShare, Disarm, Recheck, Rearm,
         ReactorPoll, OtherWake, vars, queueVars, consVars, auxVars
    <3> QED BY <3>1 DEF Queue!vars
  <2> QED BY <2>1, <2>2, <2>3
<1> QED BY <1>1, <1>2, InitIInv, NextIInv, PTL DEF Spec, FifoSpec, Queue!Spec
=============================================================================
