------------------------------ MODULE Counting ------------------------------
(***************************************************************************)
(* Lemmas about natural numbers and about repeating a step, for the proofs  *)
(* that need an induction: a recursive function of a model is what its      *)
(* equation says only if some function satisfies that equation.             *)
(***************************************************************************)
EXTENDS Integers, WellFoundedInduction, TLAPS

LEMMA LeastNumber ==
  ASSUME NEW S \in SUBSET Nat, S # {}
  PROVE  \E s \in S : \A t \in S : s <= t
<1> DEFINE R == OpToRel(<, Nat)
<1>1. PICK s \in S : \A t \in S : ~(<<t, s>> \in R)
  <2>1. IsWellFoundedOn(R, Nat)
    BY NatLessThanWellFounded
  <2> HIDE DEF R
  <2> QED  BY <2>1, WFMin
<1>2. \A t \in S : s <= t
  <2> SUFFICES ASSUME NEW t \in S PROVE ~(t < s)
    OBVIOUS
  <2> QED  BY <1>1 DEF OpToRel
<1> QED  BY <1>2

(* A set that holds 0, and n + 1 whenever it holds n, holds 0 .. N. *)
LEMMA UpTo ==
  ASSUME NEW N \in Nat, NEW S, 0 \in S,
         \A n \in 0 .. N - 1 : n \in S => n + 1 \in S
  PROVE  \A n \in 0 .. N : n \in S
<1> SUFFICES ASSUME (0 .. N) \ S # {} PROVE FALSE
  OBVIOUS
<1>1. PICK m \in (0 .. N) \ S : \A k \in (0 .. N) \ S : m <= k
  <2>1. (0 .. N) \ S \in SUBSET Nat
    OBVIOUS
  <2> QED  BY <2>1, LeastNumber
<1>2. m # 0 /\ m - 1 \in 0 .. N - 1 /\ m - 1 \in S
  BY <1>1
<1> QED  BY <1>1, <1>2

(* What the steps 1 .. N make of a first value, one after the other. *)
Follows(f, N, X, first, step) ==
  /\ f \in [0 .. N -> X]
  /\ f[0] = first
  /\ \A n \in 1 .. N : f[n] = step[n][f[n - 1]]

LEMMA Recursion ==
  ASSUME NEW N \in Nat, NEW X, NEW first \in X, NEW step \in [1 .. N -> [X -> X]]
  PROVE  \E f : Follows(f, N, X, first, step)
<1> DEFINE Good(k, f) == f[0] = first /\ \A n \in 1 .. k : f[n] = step[n][f[n - 1]]
           K == {k \in 0 .. N : \E f \in [0 .. k -> X] : Good(k, f)}
<1>1. 0 \in K
  <2> DEFINE g == [n \in 0 .. 0 |-> first]
  <2>1. g \in [0 .. 0 -> X] /\ Good(0, g)
    OBVIOUS
  <2>2. 0 \in 0 .. N
    OBVIOUS
  <2> HIDE DEF g, Good
  <2> QED  BY <2>1, <2>2
<1>2. ASSUME NEW k \in 0 .. N - 1, k \in K PROVE k + 1 \in K
  <2>1. PICK f \in [0 .. k -> X] : Good(k, f)
    BY <1>2
  <2> DEFINE last == step[k + 1][f[k]]
             g == [n \in 0 .. k + 1 |-> IF n <= k THEN f[n] ELSE last]
  <2>2. last \in X
    <3>1. k + 1 \in 1 .. N /\ f[k] \in X
      OBVIOUS
    <3> QED  BY <3>1
  <2> HIDE DEF last
  <2>3. g \in [0 .. k + 1 -> X]
    BY <2>2
  <2>4. Good(k + 1, g)
    <3>1. g[0] = first
      BY <2>1
    <3>2. ASSUME NEW n \in 1 .. k + 1 PROVE g[n] = step[n][g[n - 1]]
      <4>1. CASE n <= k
        <5>1. g[n] = f[n] /\ g[n - 1] = f[n - 1] /\ n \in 1 .. k
          BY <4>1
        <5> QED  BY <2>1, <5>1
      <4>2. CASE n = k + 1
        <5>1. g[n] = last /\ g[n - 1] = f[k] /\ n = k + 1
          BY <4>2
        <5> QED  BY <5>1 DEF last
      <4> QED  BY <4>1, <4>2
    <3> QED  BY <3>1, <3>2
  <2> HIDE DEF g, Good
  <2>5. k + 1 \in 0 .. N
    OBVIOUS
  <2> QED  BY <2>3, <2>4, <2>5
<1> HIDE DEF K
<1>3. \A n \in 0 .. N : n \in K
  BY <1>1, <1>2, UpTo, Zenon
<1>4. N \in K
  BY <1>3
<1> QED  BY <1>4 DEF K, Follows

(* The same step N times. *)
Iterates(f, N, X, first, step) ==
  /\ f \in [0 .. N -> X]
  /\ f[0] = first
  /\ \A n \in 1 .. N : f[n] = step[f[n - 1]]

LEMMA Iteration ==
  ASSUME NEW N \in Nat, NEW X, NEW first \in X, NEW step \in [X -> X]
  PROVE  \E f : Iterates(f, N, X, first, step)
<1> DEFINE always == [n \in 1 .. N |-> step]
<1>1. always \in [1 .. N -> [X -> X]]
  OBVIOUS
<1>2. \A n \in 1 .. N : always[n] = step
  OBVIOUS
<1> HIDE DEF always
<1>3. PICK f : Follows(f, N, X, first, always)
  BY <1>1, Recursion
<1> QED  BY <1>2, <1>3 DEF Follows, Iterates

=============================================================================
