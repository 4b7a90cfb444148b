------------------------------ MODULE Recursion ------------------------------
(***************************************************************************)
(* Induction on the natural numbers for proofs about what the models       *)
(* define by recursion on the length of a sequence.  Both principles are   *)
(* stated with sets and functions in the place of predicates and           *)
(* operators: a proof names the set of the numbers it is about.            *)
(***************************************************************************)
EXTENDS Integers, Sequences, WellFoundedInduction, TLAPS

(* A set with a natural number has a least one. *)
LEMMA LeastNumber ==
  ASSUME NEW S \in SUBSET Nat, NEW n \in S
  PROVE  \E m \in S : \A k \in S : m <= k
<1> DEFINE R == OpToRel(<, Nat)
<1>1. IsWellFoundedOn(R, Nat)
  BY NatLessThanWellFounded
<1>2. \A k, m \in Nat : <<k, m>> \in R <=> k < m
  BY DEF OpToRel
<1> HIDE DEF R
<1>3. PICK m \in S : \A k \in S : ~(<<k, m>> \in R)
  BY <1>1, WFMin
<1>4. \A k \in S : k \in Nat /\ m \in Nat /\ ~(k < m)
  BY <1>2, <1>3
<1> QED
  BY <1>4

LEMMA Induction ==
  ASSUME NEW S, 0 \in S, \A n \in Nat : n \in S => n + 1 \in S
  PROVE  \A n \in Nat : n \in S
<1> SUFFICES ASSUME NEW n \in Nat, n \notin S PROVE FALSE
  OBVIOUS
<1> DEFINE Missing == {m \in Nat : m \notin S}
<1>1. PICK m \in Missing : \A k \in Missing : m <= k
  <2>1. Missing \in SUBSET Nat /\ n \in Missing
    OBVIOUS
  <2> HIDE DEF Missing
  <2> QED
    BY <2>1, LeastNumber
<1>2. m # 0 /\ m \in Nat
  OBVIOUS
<1>3. m - 1 \in Nat /\ m - 1 + 1 = m
  BY <1>2
<1>4. m - 1 \in S
  BY <1>1, <1>3
<1> QED
  BY <1>1, <1>3, <1>4

(* A function on the naturals may be defined by its value at 0 and by how  *)
(* each value follows from the one before.                                 *)
Obeys(f, n, x0, step) ==
  f[0] = x0 /\ \A i \in 0 .. n - 1 : f[i + 1] = step[i + 1][f[i]]

LEMMA Recursion ==
  ASSUME NEW X, NEW x0 \in X, NEW step \in [Nat -> [X -> X]]
  PROVE  \A n \in Nat : \E f \in [0 .. n -> X] : Obeys(f, n, x0, step)
<1> DEFINE S == {n \in Nat : \E f \in [0 .. n -> X] : Obeys(f, n, x0, step)}
<1>1. 0 \in S
  <2> DEFINE f == [i \in 0 .. 0 |-> x0]
  <2>1. f \in [0 .. 0 -> X] /\ f[0] = x0
    OBVIOUS
  <2>2. Obeys(f, 0, x0, step)
    BY <2>1 DEF Obeys
  <2> HIDE DEF f
  <2> QED
    BY <2>1, <2>2
<1>2. ASSUME NEW n \in Nat, n \in S  PROVE n + 1 \in S
  <2>1. PICK f \in [0 .. n -> X] : Obeys(f, n, x0, step)
    BY <1>2
  <2> DEFINE g == [i \in 0 .. n + 1 |-> IF i = n + 1 THEN step[n + 1][f[n]] ELSE f[i]]
  <2>2. step[n + 1][f[n]] \in X
    OBVIOUS
  <2>3. g \in [0 .. n + 1 -> X]
    BY <2>2
  <2>4. Obeys(g, n + 1, x0, step)
    BY <2>1 DEF Obeys
  <2> HIDE DEF g
  <2> QED
    BY <2>3, <2>4
<1> HIDE DEF S
<1>3. \A n \in Nat : n \in S
  BY <1>1, <1>2, Induction
<1> QED
  BY <1>3 DEF S

LEMMA RecursionIsUnique ==
  ASSUME NEW X, NEW x0, NEW step, NEW n \in Nat,
         NEW f \in [0 .. n -> X], Obeys(f, n, x0, step),
         NEW g \in [0 .. n -> X], Obeys(g, n, x0, step)
  PROVE  \A i \in 0 .. n : f[i] = g[i]
<1> DEFINE S == {i \in Nat : i <= n => f[i] = g[i]}
<1>1. 0 \in S
  BY DEF Obeys
<1>2. \A i \in Nat : i \in S => i + 1 \in S
  BY DEF Obeys
<1> HIDE DEF S
<1>3. \A i \in Nat : i \in S
  BY <1>1, <1>2, Induction
<1> QED
  BY <1>3 DEF S
=============================================================================
