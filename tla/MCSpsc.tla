------------------------------ MODULE MCSpsc ------------------------------
(***************************************************************************)
(* Spsc with three segments of two messages.  The producer reuses segments *)
(* and splices one in at either boundary; seven messages are one more than *)
(* fit, so that it also runs out of memory and waits for the consumer.     *)
(* All messages are distinct: the queue never looks at one, and a lost,    *)
(* repeated or swapped message shows.                                      *)
(***************************************************************************)
EXTENDS Spsc
CONSTANTS s1, s2, s3
Numbered == [n \in 1..MaxMsgs |-> n]
=============================================================================
