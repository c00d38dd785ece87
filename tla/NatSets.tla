------------------------------- MODULE NatSets -------------------------------
(***************************************************************************)
(* Facts about sets of natural numbers that proofs about positions in a    *)
(* stream and about recursive functions need: there is a first one, and    *)
(* induction, with a set in place of the predicate.  So what a loop        *)
(* computes, n times a step that stays in a set, exists and stays there.   *)
(***************************************************************************)
EXTENDS Integers, WellFoundedInduction, TLAPS

\* A set of natural numbers that is not empty has a least element.
LEMMA LeastOf ==
    ASSUME NEW T, T \subseteq Nat, T # {}
    PROVE  \E m \in T : \A k \in T : m <= k
<1> DEFINE R == OpToRel(<, Nat)
<1>1. IsWellFoundedOn(R, Nat)
  BY NatLessThanWellFounded
<1>2. \A x, y \in Nat : <<y, x>> \in R <=> y < x
  BY DEF OpToRel
<1> HIDE DEF R
<1>3. PICK x \in T : \A y \in T : ~ (<<y, x>> \in R)
  BY <1>1, WFMin
<1>4. ASSUME NEW y \in T PROVE x <= y
  <2>1. x \in Nat /\ y \in Nat /\ ~ (y < x)
    BY <1>2, <1>3
  <2> QED BY <2>1
<1> QED BY <1>4

\* A set that holds 0 and with a natural number the next holds them all.
LEMMA NatSet ==
    ASSUME NEW S, 0 \in S, \A n \in Nat : n \in S => n + 1 \in S
    PROVE  \A n \in Nat : n \in S
<1> SUFFICES ASSUME Nat \ S # {} PROVE FALSE
  OBVIOUS
<1>1. PICK m \in Nat \ S : \A k \in Nat \ S : m <= k
  BY LeastOf
<1>2. m - 1 \in Nat
  BY <1>1
<1>3. m - 1 \in S
  BY <1>1, <1>2
<1>4. m - 1 + 1 \in S
  BY <1>2, <1>3
<1> QED BY <1>1, <1>4
---------------------------------------------------------------------------
(* Recursive functions on 0 .. n. *)

\* f is what n steps make of a.
Iteration(f, a, n, g, S) ==
    f \in [0 .. n -> S] /\ f[0] = a /\ \A k \in 1 .. n : f[k] = g[<<k, f[k - 1]>>]

\* From a, n times a step g that stays in S.
LEMMA Iterates ==
    ASSUME NEW S, NEW a \in S, NEW n \in Nat, NEW g,
           \A k \in 1 .. n : \A x \in S : g[<<k, x>>] \in S
    PROVE  \E f : Iteration(f, a, n, g, S)
<1> DEFINE Is(f, m) == f[0] = a /\ \A k \in 1 .. m : f[k] = g[<<k, f[k - 1]>>]
           Reached == {m \in Nat : m <= n => \E f \in [0 .. m -> S] : Is(f, m)}
<1>1. 0 \in Reached
  <2> DEFINE f == [k \in 0 .. 0 |-> a]
  <2>1. f \in [0 .. 0 -> S] /\ Is(f, 0)
    OBVIOUS
  <2> QED BY <2>1
<1>2. ASSUME NEW m \in Nat, m \in Reached PROVE m + 1 \in Reached
  <2> SUFFICES ASSUME m + 1 <= n PROVE \E f \in [0 .. m + 1 -> S] : Is(f, m + 1)
    OBVIOUS
  <2>1. PICK f \in [0 .. m -> S] : Is(f, m)
    BY <1>2
  <2>2. g[<<m + 1, f[m]>>] \in S
    <3>1. m + 1 \in 1 .. n /\ f[m] \in S
      OBVIOUS
    <3> QED BY <3>1
  <2> DEFINE h == [k \in 0 .. m + 1 |-> IF k = m + 1 THEN g[<<m + 1, f[m]>>] ELSE f[k]]
  <2>3. h \in [0 .. m + 1 -> S] /\ \A k \in 0 .. m : h[k] = f[k]
    BY <2>2
  <2>4. h[m + 1] = g[<<m + 1, f[m]>>]
    OBVIOUS
  <2>5. ASSUME NEW k \in 1 .. m + 1 PROVE h[k] = g[<<k, h[k - 1]>>]
    <3>1. CASE k = m + 1
      <4>1. k - 1 = m /\ m \in 0 .. m
        BY <3>1
      <4> HIDE DEF h
      <4> QED BY <2>3, <2>4, <3>1, <4>1
    <3>2. CASE k # m + 1
      <4>1. k \in 1 .. m /\ k \in 0 .. m /\ k - 1 \in 0 .. m
        BY <3>2
      <4> HIDE DEF h
      <4> QED BY <2>1, <2>3, <4>1
    <3> QED BY <3>1, <3>2
  <2>6. h[0] = a
    BY <2>1, <2>3
  <2> HIDE DEF h
  <2>7. Is(h, m + 1)
    BY <2>5, <2>6
  <2> QED BY <2>3, <2>7
<1> HIDE DEF Reached
<1>3. n \in Reached
  BY <1>1, <1>2, NatSet
<1> QED BY <1>3 DEF Reached, Iteration

\* What holds at 0 and is passed on holds up to n.
LEMMA PassedOn ==
    ASSUME NEW S, NEW n \in Nat, NEW f, f[0] \in S,
           \A k \in 1 .. n : f[k - 1] \in S => f[k] \in S
    PROVE  \A k \in 0 .. n : f[k] \in S
<1> DEFINE T == {m \in Nat : m <= n => f[m] \in S}
<1>1. 0 \in T
  OBVIOUS
<1>2. ASSUME NEW m \in Nat, m \in T PROVE m + 1 \in T
  <2> SUFFICES ASSUME m + 1 <= n PROVE f[m + 1] \in S
    OBVIOUS
  <2>1. m + 1 \in 1 .. n /\ m + 1 - 1 = m /\ f[m] \in S
    BY <1>2
  <2>2. f[m + 1 - 1] \in S
    BY <2>1
  <2> QED BY <2>1, <2>2
<1> HIDE DEF T
<1>3. \A m \in Nat : m \in T
  BY <1>1, <1>2, NatSet
<1> QED BY <1>3 DEF T

\* A sum of integers, one after the other, is a function.
LEMMA Sums ==
    ASSUME NEW g, NEW n \in Nat, \A k \in 1 .. n : g[k] \in Int
    PROVE  \E f : f = [k \in 0 .. n |-> IF k = 0 THEN 0 ELSE f[k - 1] + g[k]]
<1> DEFINE G == [x \in (1 .. n) \X Int |-> x[2] + g[x[1]]]
<1>1. \A k \in 1 .. n : \A x \in Int : G[<<k, x>>] = x + g[k]
  OBVIOUS
<1> HIDE DEF G
<1>2. PICK f : Iteration(f, 0, n, G, Int)
  <2>1. ASSUME NEW k \in 1 .. n, NEW x \in Int PROVE G[<<k, x>>] \in Int
    <3>1. G[<<k, x>>] = x + g[k] /\ g[k] \in Int
      BY <1>1
    <3> QED BY <3>1
  <2>2. 0 \in Int
    OBVIOUS
  <2> QED BY <2>1, <2>2, Iterates
<1>3. ASSUME NEW k \in 1 .. n PROVE f[k] = f[k - 1] + g[k]
  <2>1. f[k] = G[<<k, f[k - 1]>>] /\ f[k - 1] \in Int
    BY <1>2 DEF Iteration
  <2> QED BY <1>1, <2>1
<1>4. f = [k \in 0 .. n |-> IF k = 0 THEN 0 ELSE f[k - 1] + g[k]]
  BY <1>2, <1>3 DEF Iteration
<1> QED BY <1>4

---------------------------------------------------------------------------
(* How many pieces of b it takes for a. *)

\* All but the last end before a, and the last does not.
LEMMA PiecesOf ==
    ASSUME NEW a \in Nat, NEW b \in Nat \ {0}, NEW m, m = (a + b - 1) \div b
    PROVE  /\ m \in Nat /\ a <= m * b /\ (m = 0 <=> a = 0)
           /\ \A k \in 1 .. m : (k - 1) * b \in Nat /\ (k - 1) * b < a /\ k * b = (k - 1) * b + b
           /\ \A k \in 1 .. m - 1 : k * b < a
<1>1. m \in Int /\ b * m <= a + b - 1 /\ a + b - 1 < b * m + b
  BY SMTT(30)
<1>2. a <= b * m /\ b * m <= a + b - 1
  BY <1>1
<1>3. \A x, y \in Int : b * x < b * y => x < y
  BY SMTT(30)
<1>4. \A x, y \in Int : x <= y => b * x <= b * y
  BY SMTT(30)
<1> QED BY <1>1, <1>2, <1>3, <1>4
==============================================================================
