------------------------------ MODULE HashTag ------------------------------
(***************************************************************************)
(* slot_for_key (core/routing.h): which part of a key is hashed.  A key is *)
(* a sequence over a small alphabet; the state is a key that grows by one  *)
(* character at a time.  The CRC is left out: equal parts give equal       *)
(* slots, which is all that co-location needs.                             *)
(***************************************************************************)
EXTENDS Integers, Sequences, SequencesExt, FiniteSets, FiniteSetsExt

CONSTANTS Open, Close,   \* the characters { and }
          Plain,         \* other characters
          MaxLen         \* bound: length of keys

ASSUME CharAssumption == Open # Close /\ {Open, Close} \cap Plain = {}
ASSUME LenAssumption  == MaxLen \in Nat

VARIABLE key

Chars == {Open, Close} \cup Plain

\* Position of the first c in s at or after position i, 0 if there is none.
memchr(s, c, i) ==
    LET at == {p \in i..Len(s) : s[p] = c}
    IN  IF at = {} THEN 0 ELSE Min(at)

\* Mutant of hashed: the closing brace is searched from the start of the key.
hashed_anywhere(k) ==
    LET s == memchr(k, Open, 1)
        e == memchr(k, Close, 1)
    IN  IF s # 0 /\ e > s + 1 THEN SubSeq(k, s + 1, e - 1) ELSE k

\* The bytes given to routing_crc16.
hashed(k) ==
    LET s == memchr(k, Open, 1)
        e == memchr(k, Close, s + 1)
    IN  IF s # 0 /\ e > s + 1 THEN SubSeq(k, s + 1, e - 1) ELSE k

TagInit == key = <<>>
TagNext == Len(key) < MaxLen /\ \E c \in Chars : key' = Append(key, c)
TagSpec == TagInit /\ [][TagNext]_key

---------------------------------------------------------------------------

TagTypeOK == key \in Seq(Chars)

\* A key <prefix>{<tag>}<suffix> with a non-empty tag, where { is the first
\* one of the key and } the next one after it, is hashed by its tag alone:
\* such keys with one tag share a slot.
CoLocated ==
    \A i, j \in 1..Len(key) :
        /\ i + 1 < j /\ key[i] = Open /\ key[j] = Close
        /\ \A p \in 1..i-1 : key[p] # Open
        /\ \A p \in i+1..j-1 : key[p] # Close
        => hashed(key) = SubSeq(key, i + 1, j - 1)
=============================================================================
