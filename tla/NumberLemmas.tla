------------------------------ MODULE NumberLemmas ------------------------------
(***************************************************************************)
(* Facts about numbers that the proofs of several modules cite.            *)
(***************************************************************************)
EXTENDS Integers, FiniteSetsExt, WellFoundedInduction, TLAPS

(* The minimum of two numbers.                                              *)
LEMMA MinOfTwo ==
  ASSUME NEW a \in Int, NEW b \in Int
  PROVE  Min({a, b}) \in {a, b} /\ Min({a, b}) <= a /\ Min({a, b}) <= b
<1>1. \E x \in {a, b} : \A y \in {a, b} : x <= y
  <2>1. CASE a <= b  BY <2>1
  <2>2. CASE ~(a <= b)  BY <2>2
  <2> QED  BY <2>1, <2>2
<1> QED  BY <1>1 DEF Min

Below == {p \in Nat \X Nat : p[1] < p[2]}

(* Every set of natural numbers that is not empty has a least one: an       *)
(* induction by minimal counterexample that names no predicate.             *)
LEMMA Least ==
  ASSUME NEW S \in SUBSET Nat, S # {}
  PROVE  \E m \in S : \A k \in S : m <= k
<1>1. IsWellFoundedOn(Below, Nat)
  <2>1. Below = OpToRel(<, Nat)  BY DEF Below, OpToRel
  <2> QED  BY <2>1, NatLessThanWellFounded
<1>2. PICK x \in S : \A y \in S : ~(<<y, x>> \in Below)
  BY <1>1, WFMin, Zenon
<1>3. SUFFICES ASSUME NEW k \in S PROVE x <= k
  OBVIOUS
<1>4. x \in Nat /\ k \in Nat
  OBVIOUS
<1>5. ~(k < x)
  BY <1>2, <1>4 DEF Below
<1> QED  BY <1>4, <1>5

(* The minimum of such a set.                                               *)
LEMMA MinIsLeast ==
  ASSUME NEW S \in SUBSET Nat, S # {}
  PROVE  Min(S) \in S /\ \A k \in S : Min(S) <= k
BY Least DEF Min
-----------------------------------------------------------------------------
(* Induction up to N, over a set in the place of a predicate.               *)
LEMMA UpTo ==
  ASSUME NEW N \in Nat, NEW S, 0 \in S, \A n \in 1..N : n - 1 \in S => n \in S
  PROVE  \A n \in 0..N : n \in S
<1> DEFINE out == {n \in 0..N : n \notin S}
<1>1. SUFFICES ASSUME out # {} PROVE FALSE
  OBVIOUS
<1>2. PICK n \in out : \A k \in out : n <= k
  <2>1. out \in SUBSET Nat  OBVIOUS
  <2> HIDE DEF out
  <2> QED  BY <1>1, <2>1, Least
<1>3. n \in 1..N /\ n - 1 \in 0..N /\ ~(n <= n - 1)  BY <1>2
<1>4. n - 1 \in S  BY <1>2, <1>3
<1> QED  BY <1>2, <1>3, <1>4

(***************************************************************************)
(* A loop that carries a value of A through N passes, the n-th of them     *)
(* taking it to step[n][value]: a function defined by recursion.           *)
(***************************************************************************)
IsLoop(g, N, start, step) ==
  /\ g[0] = start
  /\ \A n \in 1..N : g[n] = step[n][g[n - 1]]

(* A loop of N passes, each a function of what was there before, has its    *)
(* states.                                                                  *)
LEMMA LoopExists ==
  ASSUME NEW N \in Nat, NEW A, NEW start \in A, NEW step \in [1..N -> [A -> A]]
  PROVE  \E g \in [0..N -> A] : IsLoop(g, N, start, step)
<1> DEFINE S == {n \in 0..N : \E g \in [0..n -> A] : IsLoop(g, n, start, step)}
<1>1. 0 \in S
  <2>1. [k \in 0..0 |-> start] \in [0..0 -> A]  OBVIOUS
  <2>2. 0 \in 0..0 /\ 1..0 = {}  OBVIOUS
  <2>3. IsLoop([k \in 0..0 |-> start], 0, start, step)  BY <2>2, Zenon DEF IsLoop
  <2>4. 0 \in 0..N  OBVIOUS
  <2> QED  BY <2>1, <2>3, <2>4
<1>2. ASSUME NEW n \in 1..N, n - 1 \in S PROVE n \in S
  <2>1. PICK g \in [0..n - 1 -> A] : IsLoop(g, n - 1, start, step)  BY <1>2
  <2>2. PICK v \in A : v = step[n][g[n - 1]]
    <3>1. n - 1 \in 0..n - 1  OBVIOUS
    <3> QED  BY <2>1, <3>1
  <2> DEFINE h == [k \in 0..n |-> IF k = n THEN v ELSE g[k]]
  <2>3. h \in [0..n -> A]  BY <2>1
  <2>4. h[0] = start  BY <2>1 DEF IsLoop
  <2>5. ASSUME NEW k \in 1..n PROVE h[k] = step[k][h[k - 1]]
    <3>1. CASE k = n
      <4>1. n \in 0..n /\ n - 1 \in 0..n /\ n - 1 # n  OBVIOUS
      <4>2. h[n] = v /\ h[n - 1] = g[n - 1]  BY <4>1
      <4> HIDE DEF h
      <4> QED  BY <2>2, <3>1, <4>2
    <3>2. CASE k # n
      <4>1. k \in 1..n - 1 /\ k \in 0..n /\ k - 1 \in 0..n /\ k - 1 # n  BY <3>2
      <4>2. g[k] = step[k][g[k - 1]]  BY <2>1, <4>1 DEF IsLoop
      <4>3. h[k] = g[k] /\ h[k - 1] = g[k - 1]  BY <3>2, <4>1
      <4> HIDE DEF h
      <4> QED  BY <4>2, <4>3
    <3> QED  BY <3>1, <3>2
  <2>6. IsLoop(h, n, start, step)
    <3> HIDE DEF h
    <3> QED  BY <2>4, <2>5 DEF IsLoop
  <2> QED  BY <2>3, <2>6
<1> HIDE DEF S
<1>3. \A n \in 0..N : n \in S  BY <1>1, <1>2, UpTo
<1>4. N \in S  BY <1>3
<1> QED  BY <1>4 DEF S
=================================================================================
