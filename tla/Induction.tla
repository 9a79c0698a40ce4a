------------------------------ MODULE Induction ------------------------------
(***************************************************************************)
(* Induction over the natural numbers, for sets of numbers: the form of it *)
(* that needs no operator as a parameter, and the functions that recursion *)
(* defines.  What is proved of the recursive definitions of this project   *)
(* rests on it.                                                            *)
(***************************************************************************)
EXTENDS Integers, WellFoundedInduction, TLAPS

LEMMA LeastNumber ==
  ASSUME NEW S \in SUBSET Nat, S # {}
  PROVE  \E m \in S : \A n \in S : m <= n
<1> DEFINE Less == OpToRel(<, Nat)
<1>1. IsWellFoundedOn(Less, Nat)
  BY NatLessThanWellFounded
<1>2. \A x, y \in Nat : x < y => <<x, y>> \in Less
  BY DEF OpToRel
<1> HIDE DEF Less
<1>3. PICK m \in S : \A n \in S : ~ <<n, m>> \in Less
  BY <1>1, WFMin
<1>4. ASSUME NEW n \in S
      PROVE  m <= n
  <2>1. ~ n < m
    BY <1>2, <1>3
  <2> QED BY <2>1
<1> QED BY <1>4

\* What holds of 0, and of n + 1 if it holds of n, holds of every number.
LEMMA SetInduction ==
  ASSUME NEW S, 0 \in S, \A n \in Nat : n \in S => n + 1 \in S
  PROVE  Nat \subseteq S
<1> SUFFICES ASSUME Nat \ S # {} PROVE FALSE
  OBVIOUS
<1>1. PICK m \in Nat \ S : \A n \in Nat \ S : m <= n
  BY LeastNumber
<1>2. m # 0 /\ m - 1 \in Nat /\ m - 1 \notin Nat \ S
  BY <1>1
<1> QED BY <1>1, <1>2

-----------------------------------------------------------------------------
\* The values of a function that is defined by its value at 0 and by a step from
\* the value at n - 1 to the one at n.
IsRecursion(f, N, first, step) ==
    f = [n \in 0 .. N |-> IF n = 0 THEN first ELSE step[n][f[n - 1]]]

LEMMA PrimitiveRecursion ==
  ASSUME NEW N \in Nat, NEW V, NEW first \in V, NEW step \in [1 .. N -> [V -> V]]
  PROVE  \E f \in [0 .. N -> V] : IsRecursion(f, N, first, step)
<1> DEFINE S == {n \in Nat : n <= N => \E f \in [0 .. n -> V] : IsRecursion(f, n, first, step)}
<1>1. 0 \in S
  <2> DEFINE f == [n \in 0 .. 0 |-> first]
  <2>1. f \in [0 .. 0 -> V] /\ IsRecursion(f, 0, first, step)
    BY DEF IsRecursion
  <2> HIDE DEF f
  <2> QED BY <2>1
<1>2. ASSUME NEW n \in Nat, n \in S
      PROVE  n + 1 \in S
  <2> SUFFICES ASSUME n + 1 <= N
               PROVE  \E f \in [0 .. n + 1 -> V] : IsRecursion(f, n + 1, first, step)
    OBVIOUS
  <2>1. PICK g \in [0 .. n -> V] : IsRecursion(g, n, first, step)
    BY <1>2
  <2> DEFINE f == [m \in 0 .. n + 1 |-> IF m = n + 1 THEN step[n + 1][g[n]] ELSE g[m]]
  <2>2. step[n + 1][g[n]] \in V
    <3>1. step[n + 1] \in [V -> V] /\ g[n] \in V
      OBVIOUS
    <3> QED BY <3>1
  <2>3. f \in [0 .. n + 1 -> V]
    BY <2>2
  <2>4. ASSUME NEW m \in 0 .. n + 1
        PROVE  f[m] = IF m = 0 THEN first ELSE step[m][f[m - 1]]
    <3>1. CASE m = n + 1
      BY <3>1
    <3>2. CASE m # n + 1
      <4>1. m \in 0 .. n /\ (m # 0 => m - 1 \in 0 .. n)
        BY <3>2
      <4>2. f[m] = g[m] /\ (m # 0 => f[m - 1] = g[m - 1])
        BY <4>1
      <4> HIDE DEF f
      <4> QED BY <2>1, <4>1, <4>2 DEF IsRecursion
    <3> QED BY <3>1, <3>2
  <2> HIDE DEF f
  <2>5. IsRecursion(f, n + 1, first, step)
    BY <2>3, <2>4 DEF IsRecursion
  <2> QED BY <2>3, <2>5
<1> HIDE DEF S
<1>3. N \in S
  BY <1>1, <1>2, SetInduction
<1> QED BY <1>3 DEF S
=============================================================================
