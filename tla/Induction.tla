------------------------------ MODULE Induction ------------------------------
(***************************************************************************)
(* Induction over the natural numbers as a statement about sets.  The      *)
(* library's induction theorems take the property as an operator, which no *)
(* prover here instantiates; a set of the numbers that have the property   *)
(* says the same, and the provers do instantiate it.                       *)
(***************************************************************************)
EXTENDS Integers, WellFoundedInduction, TLAPS

(* A set of natural numbers that is not empty has a least element.           *)
LEMMA LeastNatural ==
  ASSUME NEW S \in SUBSET Nat, S # {}
  PROVE  \E n \in S : \A m \in S : n <= m
<1> DEFINE R == {ss \in Nat \X Nat : ss[1] < ss[2]}
<1>1. IsWellFoundedOn(R, Nat)
  BY NatLessThanWellFounded, Zenon DEF OpToRel
<1>2. \A x, y \in Nat : x < y => <<x, y>> \in R
  OBVIOUS
<1> HIDE DEF R
<1>3. PICK n \in S : \A m \in S : ~ (<<m, n>> \in R)
  BY <1>1, WFMin
<1>4. n \in Nat
  OBVIOUS
<1>5. ASSUME NEW m \in S PROVE n <= m
  <2>1. m \in Nat /\ ~ (<<m, n>> \in R)
    BY <1>3
  <2>2. ~ (m < n)
    BY <1>2, <1>4, <2>1
  <2> QED
    BY <1>4, <2>1, <2>2
<1> QED
  BY <1>5

(* Induction up to a bound: of a set, that it holds every number.            *)
LEMMA UpTo ==
  ASSUME NEW N \in Nat, NEW S, 0 \in S, \A n \in 0..(N - 1) : n \in S => n + 1 \in S
  PROVE  \A n \in 0..N : n \in S
<1> SUFFICES ASSUME \E n \in 0..N : n \notin S PROVE FALSE
  OBVIOUS
<1> DEFINE T == {n \in 0..N : n \notin S}
<1>1. T \in SUBSET Nat /\ T # {}
  OBVIOUS
<1>2. PICK n \in T : \A m \in T : n <= m
  BY <1>1, LeastNatural
<1>3. n \in 0..N /\ n # 0 /\ n \notin S
  BY <1>2
<1>4. n - 1 \in 0..(N - 1)
  BY <1>3
<1>5. n - 1 \in S
  BY <1>2, <1>3, <1>4
<1> QED
  BY <1>3, <1>4, <1>5

(* Every sequence of numbers has its partial sums: what a recursive function *)
(* that adds them up is.                                                     *)
LEMMA SumsExist ==
  ASSUME NEW N \in Nat, NEW w \in [1..N -> Nat]
  PROVE  \E f \in [0..N -> Nat] : f[0] = 0 /\ \A d \in 1..N : f[d] = f[d - 1] + w[d]
<1> DEFINE P(n, f) == f[0] = 0 /\ \A d \in 1..n : f[d] = f[d - 1] + w[d]
           S == {n \in 0..N : \E f \in [0..n -> Nat] : P(n, f)}
<1>1. 0 \in S
  <2> DEFINE g == [d \in 0..0 |-> 0]
  <2>1. g \in [0..0 -> Nat] /\ P(0, g)
    OBVIOUS
  <2>2. 0 \in 0..N
    OBVIOUS
  <2> HIDE DEF g, P
  <2> QED
    BY <2>1, <2>2
<1>2. ASSUME NEW n \in 0..(N - 1), n \in S PROVE n + 1 \in S
  <2>1. PICK f \in [0..n -> Nat] : P(n, f)
    BY <1>2
  <2> DEFINE g == [d \in 0..(n + 1) |-> IF d <= n THEN f[d] ELSE f[n] + w[n + 1]]
  <2>2. g \in [0..(n + 1) -> Nat]
    OBVIOUS
  <2>3. g[0] = 0
    BY <2>1
  <2>4. ASSUME NEW d \in 1..(n + 1) PROVE g[d] = g[d - 1] + w[d]
    <3>1. CASE d <= n
      BY <2>1, <3>1
    <3>2. CASE d = n + 1
      BY <2>1, <3>2
    <3> QED
      BY <3>1, <3>2
  <2>5. P(n + 1, g)
    BY <2>3, <2>4
  <2>6. n + 1 \in 0..N
    OBVIOUS
  <2> HIDE DEF g, P
  <2> QED
    BY <2>2, <2>5, <2>6
<1>3. N \in S
  <2> HIDE DEF S
  <2>1. \A n \in 0..N : n \in S
    BY <1>1, <1>2, UpTo
  <2> QED
    BY <2>1
<1> QED
  BY <1>3

(* A function can be iterated: what a recursive function that applies it     *)
(* again and again is.                                                       *)
Iterates(N, x, F, f) == f[0] = x /\ \A d \in 1..N : f[d] = F[f[d - 1]]

LEMMA IteratesExist ==
  ASSUME NEW N \in Nat, NEW S, NEW x \in S, NEW F \in [S -> S]
  PROVE  \E f \in [0..N -> S] : Iterates(N, x, F, f)
<1> DEFINE P(n, f) == f[0] = x /\ \A d \in 1..n : f[d] = F[f[d - 1]]
           T == {n \in 0..N : \E f \in [0..n -> S] : P(n, f)}
<1>1. 0 \in T
  <2> DEFINE g == [d \in 0..0 |-> x]
  <2>1. g \in [0..0 -> S] /\ P(0, g)
    OBVIOUS
  <2>2. 0 \in 0..N
    OBVIOUS
  <2> HIDE DEF g, P
  <2> QED
    BY <2>1, <2>2
<1>2. ASSUME NEW n \in 0..(N - 1), n \in T PROVE n + 1 \in T
  <2>1. PICK f \in [0..n -> S] : P(n, f)
    BY <1>2
  <2> DEFINE g == [d \in 0..(n + 1) |-> IF d <= n THEN f[d] ELSE F[f[n]]]
  <2>2. g \in [0..(n + 1) -> S]
    <3>1. f[n] \in S /\ F[f[n]] \in S
      OBVIOUS
    <3> QED
      BY <3>1
  <2>3. g[0] = x
    BY <2>1
  <2>4. ASSUME NEW d \in 1..(n + 1) PROVE g[d] = F[g[d - 1]]
    <3>1. CASE d <= n
      BY <2>1, <3>1
    <3>2. CASE d = n + 1
      BY <2>1, <3>2
    <3> QED
      BY <3>1, <3>2
  <2>5. P(n + 1, g)
    BY <2>3, <2>4
  <2>6. n + 1 \in 0..N
    OBVIOUS
  <2> HIDE DEF g, P
  <2> QED
    BY <2>2, <2>5, <2>6
<1>3. N \in T
  <2> HIDE DEF T
  <2>1. \A n \in 0..N : n \in T
    BY <1>1, <1>2, UpTo
  <2> QED
    BY <2>1
<1> QED
  BY <1>3 DEF Iterates
=============================================================================
