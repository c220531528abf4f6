------------------------------- MODULE Loops -------------------------------
(***************************************************************************)
(* The proof rule for loops.  The modules write a loop of the code as a    *)
(* recursive function of the number of turns made.  A component's proofs   *)
(* take this module with INSTANCE, with the body of one of its loops for   *)
(* Body and what every turn preserves for Inv, and cite LoopInvariant.     *)
(* Both have two parameters that the loop leaves alone.                    *)
(***************************************************************************)
EXTENDS Integers, WellFoundedInduction, TLAPS

CONSTANTS Body(_, _, _, _),  \* Body(p, q, n, x): the n-th turn, from state x
          Inv(_, _, _, _)    \* Inv(p, q, n, x): what holds after n turns

IsRun(p, q, base, N, f) ==
    f = [n \in 0..N |-> IF n = 0 THEN base ELSE Body(p, q, n, f[n-1])]
Loop(p, q, base, N) == (CHOOSE f : IsRun(p, q, base, N, f))[N]

\* Induction over the natural numbers, with a set for the property.
LEMMA NatSetInduction ==
    ASSUME NEW S, 0 \in S, \A n \in Nat : n \in S => n + 1 \in S
    PROVE  Nat \subseteq S
<1> DEFINE T == Nat \ S
           R == OpToRel(<, Nat)
<1>1. SUFFICES ASSUME T # {} PROVE FALSE
  OBVIOUS
<1>2. IsWellFoundedOn(R, Nat)
  BY NatLessThanWellFounded
<1>3. PICK x \in T : \A y \in T : ~(<<y, x>> \in R)
  <2> HIDE DEF R
  <2> QED BY <1>1, <1>2, WFMin
<1>4. x # 0 /\ x - 1 \in Nat
  OBVIOUS
<1>5. x - 1 \in T
  OBVIOUS
<1>6. <<x - 1, x>> \in R
  BY <1>4 DEF OpToRel
<1> QED BY <1>3, <1>5, <1>6

\* A non-empty set of natural numbers has a least element.
LEMMA LeastNat ==
    ASSUME NEW S \in SUBSET Nat, S # {}
    PROVE  \E m \in S : \A x \in S : m <= x
<1> DEFINE R == OpToRel(<, Nat)
<1>1. IsWellFoundedOn(R, Nat)
  BY NatLessThanWellFounded
<1>2. PICK m \in S : \A x \in S : ~(<<x, m>> \in R)
  <2> HIDE DEF R
  <2> QED BY <1>1, WFMin
<1>3. ASSUME NEW x \in S PROVE m <= x
  <2>1. x \in Nat /\ m \in Nat
    OBVIOUS
  <2>2. x < m => <<x, m>> \in R
    BY <2>1 DEF OpToRel
  <2> HIDE DEF R
  <2> QED BY <1>2, <2>1, <2>2
<1> QED BY <1>3

\* A loop has a run of any number of turns.
LEMMA RunExists ==
    ASSUME NEW p, NEW q, NEW base, NEW N \in Nat
    PROVE  \E f : IsRun(p, q, base, N, f)
<1> DEFINE S == {n \in Nat : \E f : IsRun(p, q, base, n, f)}
<1>1. 0 \in S
  <2> DEFINE f == [n \in 0..0 |-> base]
  <2>1. f = [n \in 0..0 |-> IF n = 0 THEN base ELSE Body(p, q, n, f[n-1])]
    OBVIOUS
  <2> QED BY <2>1 DEF IsRun
<1>2. ASSUME NEW m \in Nat, m \in S PROVE m + 1 \in S
  <2>1. PICK f : IsRun(p, q, base, m, f)
    BY <1>2
  <2> DEFINE g == [n \in 0..m+1 |-> IF n = m + 1 THEN Body(p, q, n, f[m])
                                    ELSE f[n]]
  <2>2. ASSUME NEW n \in 0..m+1
        PROVE  g[n] = IF n = 0 THEN base ELSE Body(p, q, n, g[n-1])
    <3>1. CASE n = m + 1
      BY <3>1
    <3>2. CASE n # m + 1
      <4>1. n \in 0..m /\ g[n] = f[n] /\ (n # 0 => g[n-1] = f[n-1])
        BY <3>2
      <4>2. f[n] = IF n = 0 THEN base ELSE Body(p, q, n, f[n-1])
        BY <2>1, <4>1 DEF IsRun
      <4> HIDE DEF g
      <4> QED BY <4>1, <4>2
    <3> QED BY <3>1, <3>2
  <2>3. g = [n \in 0..m+1 |-> g[n]]
    OBVIOUS
  <2> HIDE DEF g
  <2>4. IsRun(p, q, base, m + 1, g)
    BY <2>2, <2>3 DEF IsRun
  <2> QED BY <2>4
<1>3. N \in S
  <2> HIDE DEF S
  <2> QED BY <1>1, <1>2, NatSetInduction
<1> QED BY <1>3

\* What holds before a loop and is preserved by each of its turns holds after
\* the loop, however many turns it makes.
THEOREM LoopInvariant ==
    ASSUME NEW p, NEW q, NEW base, NEW N \in Nat, Inv(p, q, 0, base),
           \A n \in 1..N : \A x :
               Inv(p, q, n - 1, x) => Inv(p, q, n, Body(p, q, n, x))
    PROVE  Inv(p, q, N, Loop(p, q, base, N))
<1> DEFINE f == CHOOSE g : IsRun(p, q, base, N, g)
           Good == {n \in Nat : n <= N => Inv(p, q, n, f[n])}
<1>1. IsRun(p, q, base, N, f)
  BY RunExists
<1>2. Loop(p, q, base, N) = f[N]
  BY DEF Loop
<1> HIDE DEF f
<1>3. \A n \in 0..N : f[n] = IF n = 0 THEN base ELSE Body(p, q, n, f[n-1])
  BY <1>1 DEF IsRun
<1>4. 0 \in Good
  BY <1>3
<1>5. ASSUME NEW n \in Nat, n \in Good PROVE n + 1 \in Good
  <2> SUFFICES ASSUME n + 1 <= N PROVE Inv(p, q, n + 1, f[n + 1])
    OBVIOUS
  <2>1. Inv(p, q, n, f[n]) /\ n + 1 \in 1..N /\ (n + 1) - 1 = n
    BY <1>5
  <2>2. f[n + 1] = Body(p, q, n + 1, f[n])
    BY <1>3, <2>1
  <2> QED BY <2>1, <2>2
<1>6. N \in Good
  <2> HIDE DEF Good
  <2> QED BY <1>4, <1>5, NatSetInduction
<1> QED BY <1>2, <1>6
============================================================================
