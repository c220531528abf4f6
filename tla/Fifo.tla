------------------------------- MODULE Fifo -------------------------------
(***************************************************************************)
(* What an inter-shard queue promises, independently of segments, atomics  *)
(* and wake-ups: messages come out in the order they went in, each exactly *)
(* once.  Spsc implements this specification.                              *)
(***************************************************************************)
EXTENDS Sequences

CONSTANT Msgs      \* the messages a shard may send to another one

VARIABLES queue,   \* messages sent and not yet received, oldest first
          last     \* the message received last

vars == <<queue, last>>

Init ==
    /\ queue = << >>
    /\ last \notin Msgs

\* spsc_queue_push
Send(m) ==
    /\ queue' = Append(queue, m)
    /\ UNCHANGED last

\* spsc_queue_pop that returns true
Receive ==
    /\ queue # << >>
    /\ last' = Head(queue)
    /\ queue' = Tail(queue)

Next == Receive \/ \E m \in Msgs : Send(m)

Spec == Init /\ [][Next]_vars
=============================================================================
