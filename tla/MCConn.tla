------------------------------- MODULE MCConn -------------------------------
(***************************************************************************)
(* Instances of Conn for TLC: a client that pipelines and one that does   *)
(* not speak RESP.                                                         *)
(***************************************************************************)
EXTENDS Conn

CONSTANTS c1, c2

TwoScripts == [c \in Conns |-> IF c = c1 THEN <<"remote", "local", "remote">>
                               ELSE <<"bad">>]
=============================================================================
