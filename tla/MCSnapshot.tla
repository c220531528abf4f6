---------------------------- MODULE MCSnapshot ----------------------------
(***************************************************************************)
(* A page of two small objects and a page with a large one, both in the    *)
(* same word of the dirty bitmap.                                          *)
(***************************************************************************)
EXTENDS Snapshot, TLC

MCSlots  == 1..3
MCPageOf == <<1, 1, 2>>
MCWordOf == <<0, 0>>
MCLargePages == {2}
KeySymmetry == Permutations(Keys)
===========================================================================
