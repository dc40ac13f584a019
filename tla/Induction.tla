------------------------------ MODULE Induction ------------------------------
(***************************************************************************)
(* Induction and recursion over the natural numbers, stated with sets      *)
(* instead of predicates so that they can be used for any formula.  Both   *)
(* rest on the order of the numbers being well founded.                    *)
(***************************************************************************)
EXTENDS Integers, Sequences, WellFoundedInduction, TLAPS

\* A set of numbers that is not empty has a least element.
LEMMA LeastNat ==
    ASSUME NEW T \in SUBSET Nat, T # {}
    PROVE  \E m \in T : \A k \in T : m <= k
<1>1. PICK R : R = OpToRel(<, Nat)
  OBVIOUS
<1>2. IsWellFoundedOn(R, Nat)
  BY <1>1, NatLessThanWellFounded
<1>3. PICK m \in T : \A y \in T : ~ (<<y, m>> \in R)
  BY <1>2, WFMin
<1>4. \A x, y \in Nat : y < x => <<y, x>> \in R
  BY <1>1 DEF OpToRel
<1>5. \A k \in T : k \in Nat /\ m \in Nat /\ ~(k < m)
  BY <1>3, <1>4
<1> QED BY <1>5

\* Induction: a set of numbers that holds 0 and the successor of each of its
\* elements holds every number.
LEMMA SetInduction ==
    ASSUME NEW T \in SUBSET Nat, 0 \in T, \A n \in T : n + 1 \in T
    PROVE  \A n \in Nat : n \in T
<1> SUFFICES ASSUME Nat \ T # {} PROVE FALSE
  OBVIOUS
<1>1. PICK m \in Nat \ T : \A k \in Nat \ T : m <= k
  BY LeastNat
<1>2. m # 0 /\ m - 1 \in Nat /\ ~(m <= m - 1)
  BY <1>1
<1>3. m - 1 \in T
  BY <1>1, <1>2
<1>4. (m - 1) + 1 = m
  BY <1>1
<1> QED BY <1>1, <1>3, <1>4

\* g starts with r and goes on by `step`.
Recursive(g, R, r, step) ==
    g \in [Nat -> R] /\ g[0] = r /\ \A n \in Nat : g[n + 1] = step[n][g[n]]

\* Recursion: a start and a step define a function on the numbers.
LEMMA Recursion ==
    ASSUME NEW R, NEW r \in R, NEW step \in [Nat -> [R -> R]]
    PROVE  \E g : Recursive(g, R, r, step)
<1> DEFINE Runs(h, n) == /\ h \in [0..n -> R] /\ h[0] = r
                         /\ \A k \in 1..n : h[k] = step[k - 1][h[k - 1]]
           T == {n \in Nat : \E h : Runs(h, n)}
<1>1. \A n \in Nat : n \in T
  <2>1. 0 \in T
    <3>1. Runs([k \in 0..0 |-> r], 0)
      OBVIOUS
    <3> QED BY <3>1
  <2>2. ASSUME NEW n \in T PROVE n + 1 \in T
    <3>1. PICK h : Runs(h, n)
      BY <2>2
    <3> DEFINE i == [k \in 0..n + 1 |-> IF k = n + 1 THEN step[n][h[n]] ELSE h[k]]
    <3>2. n \in Nat /\ h[n] \in R /\ step[n][h[n]] \in R
      BY <3>1, <2>2
    <3>3. i \in [0..n + 1 -> R] /\ i[0] = r
      BY <3>1, <3>2
    <3>4. ASSUME NEW k \in 1..n + 1 PROVE i[k] = step[k - 1][i[k - 1]]
      <4>1. k - 1 \in 0..n /\ i[k - 1] = h[k - 1]
        BY <3>2, <3>4
      <4>2. CASE k = n + 1
        BY <3>2, <4>1, <4>2
      <4>3. CASE k # n + 1
        <5>1. k \in 1..n /\ k \in 0..n + 1
          BY <3>2, <3>4, <4>3
        <5>2. i[k] = h[k]
          BY <5>1, <4>3
        <5> QED BY <3>1, <5>1, <5>2, <4>1
      <4> QED BY <4>2, <4>3
    <3>5. Runs(i, n + 1)
      BY <3>3, <3>4
    <3>6. n + 1 \in Nat
      BY <3>2
    <3> HIDE DEF Runs, i
    <3> QED BY <3>5, <3>6
  <2> HIDE DEF T
  <2>3. T \in SUBSET Nat
    BY DEF T
  <2> QED BY <2>1, <2>2, <2>3, SetInduction
<1> DEFINE H(n) == CHOOSE h : Runs(h, n)
           g == [n \in Nat |-> H(n)[n]]
<1>2. \A n \in Nat : Runs(H(n), n)
  BY <1>1
<1> HIDE DEF H
<1>3. ASSUME NEW n \in Nat
      PROVE  H(n + 1)[n] = H(n)[n]
  <2> DEFINE S == {k \in Nat : k <= n => H(n + 1)[k] = H(n)[k]}
  <2>1. 0 \in S
    BY <1>2
  <2>2. ASSUME NEW k \in S PROVE k + 1 \in S
    <3>1. CASE k + 1 <= n
      <4>1. H(n + 1)[k] = H(n)[k]
        BY <2>2, <3>1
      <4>2. k + 1 \in 1..n /\ k + 1 \in 1..n + 1 /\ (k + 1) - 1 = k /\ k \in Nat /\ n + 1 \in Nat
        BY <2>2, <3>1
      <4>3. H(n)[k + 1] = step[k][H(n)[k]]
        BY <1>2, <4>2
      <4>4. H(n + 1)[k + 1] = step[k][H(n + 1)[k]]
        BY <1>2, <4>2
      <4> QED BY <4>1, <4>2, <4>3, <4>4
    <3>2. CASE ~(k + 1 <= n)
      BY <2>2, <3>2
    <3> QED BY <3>1, <3>2
  <2>3. S \in SUBSET Nat
    OBVIOUS
  <2>4. n \in S
    <3> HIDE DEF S
    <3> QED BY <2>1, <2>2, <2>3, SetInduction
  <2> QED BY <2>4
<1>4. g \in [Nat -> R] /\ g[0] = r
  BY <1>2
<1>5. ASSUME NEW n \in Nat PROVE g[n + 1] = step[n][g[n]]
  <2>1. n + 1 \in Nat /\ n + 1 \in 1..n + 1 /\ (n + 1) - 1 = n
    OBVIOUS
  <2>2. H(n + 1)[n + 1] = step[n][H(n + 1)[n]]
    BY <1>2, <2>1
  <2> QED BY <1>3, <2>1, <2>2
<1>6. Recursive(g, R, r, step)
  BY <1>4, <1>5 DEF Recursive
<1> QED BY <1>6
==============================================================================
