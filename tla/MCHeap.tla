------------------------------ MODULE MCHeap ------------------------------
(***************************************************************************)
(* A pool with spans of one page, one with spans of five pages (not a      *)
(* power of two), and descriptors of which three fit in a page.            *)
(***************************************************************************)
EXTENDS Heap

MCPools  == {"a", "c"}
MCLpages == [a |-> 1, c |-> 5, meta |-> 1]
MCObjs   == [a |-> 2, c |-> 1, meta |-> 3]
===========================================================================
