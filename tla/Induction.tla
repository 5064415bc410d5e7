------------------------------ MODULE Induction ------------------------------
(***************************************************************************)
(* Induction over the natural numbers, stated of a set instead of a        *)
(* predicate, and what it gives for functions defined by recursion on      *)
(* 0..n: the sums, replays and folds along the sequences of the models.    *)
(***************************************************************************)
EXTENDS Integers, WellFoundedInduction, TLAPS

(* Every set of natural numbers that is not empty has a least element.     *)
LEMMA LeastNumber ==
    ASSUME NEW T, T \subseteq Nat, T # {}
    PROVE  \E x \in T : \A y \in T : x <= y
<1>1. IsWellFoundedOn(OpToRel(<, Nat), Nat)
  BY NatLessThanWellFounded
<1>2. PICK x \in T : \A y \in T : <<y, x>> \notin OpToRel(<, Nat)
  BY <1>1, WFMin, Zenon
<1>3. ASSUME NEW y \in T PROVE x <= y
  <2>1. <<y, x>> \notin OpToRel(<, Nat)
    BY <1>2
  <2> QED
    BY <2>1 DEF OpToRel
<1> QED
  BY <1>3

(* A set with 0 that is closed under successor, up to n, holds all up to n.*)
LEMMA InductionTo ==
    ASSUME NEW n \in Nat, NEW S, 0 \in S,
           \A i \in 1..n : i - 1 \in S => i \in S
    PROVE  0..n \subseteq S
<1> SUFFICES ASSUME (0..n) \ S # {} PROVE FALSE
  OBVIOUS
<1>1. PICK x \in (0..n) \ S : \A y \in (0..n) \ S : x <= y
  <2>1. (0..n) \ S \subseteq Nat
    OBVIOUS
  <2> QED
    BY <2>1, LeastNumber
<1>2. x \in 1..n /\ x - 1 \in 0..n
  BY <1>1
<1>3. x - 1 \in S
  BY <1>1, <1>2
<1> QED
  BY <1>1, <1>2, <1>3

(* A recursion of length n: its value at 0 is a, and step[i][v] is the one  *)
(* at i when the one at i - 1 is v.                                        *)
IsStep(step, n, A) == step \in [1..n -> [A -> A]]
Recurses(g, n, A, a, step) ==
    g \in [0..n -> A] /\ g[0] = a /\ \A i \in 1..n : g[i] = step[i][g[i - 1]]

(* There is a function that it defines.                                    *)
LEMMA RecursionDefines ==
    ASSUME NEW n \in Nat, NEW A, NEW a \in A, NEW step, IsStep(step, n, A)
    PROVE  \E g : Recurses(g, n, A, a, step)
<1> DEFINE S == {k \in 0..n : \E g : Recurses(g, k, A, a, step)}
<1>1. 0 \in S
  <2> DEFINE g == [i \in 0..0 |-> a]
  <2>1. Recurses(g, 0, A, a, step) /\ 0 \in 0..n
    BY DEF Recurses
  <2> HIDE DEF g
  <2> QED
    BY <2>1
<1>2. ASSUME NEW k \in 1..n, k - 1 \in S PROVE k \in S
  <2>1. PICK g : Recurses(g, k - 1, A, a, step)
    BY <1>2
  <2> DEFINE h == [i \in 0..k |-> IF i = k THEN step[k][g[k - 1]] ELSE g[i]]
  <2>2. g[k - 1] \in A
    BY <2>1 DEF Recurses
  <2>3. step[k][g[k - 1]] \in A
    BY <2>2 DEF IsStep
  <2>4. h \in [0..k -> A]
    BY <2>1, <2>3 DEF Recurses
  <2>5. h[0] = a
    BY <2>1 DEF Recurses
  <2>6. ASSUME NEW i \in 1..k PROVE h[i] = step[i][h[i - 1]]
    <3>1. CASE i = k
      BY <3>1
    <3>2. CASE i # k
      BY <2>1, <3>2 DEF Recurses
    <3> QED
      BY <3>1, <3>2
  <2>7. Recurses(h, k, A, a, step)
    BY <2>4, <2>5, <2>6 DEF Recurses
  <2> HIDE DEF h
  <2> QED
    BY <2>7
<1>3. n \in S
  <2> HIDE DEF S
  <2>1. 0..n \subseteq S
    BY <1>1, <1>2, InductionTo
  <2> QED
    BY <2>1
<1> QED
  BY <1>3

(* Two recursions that agree at each step agree.                           *)
Agree(f, g, n) == \A i \in 0..n : f[i] = g[i]
AgreeStepwise(f, g, n) ==
    f[0] = g[0] /\ \A i \in 1..n : f[i - 1] = g[i - 1] => f[i] = g[i]

LEMMA RecursionsAgree ==
    ASSUME NEW n \in Nat, NEW f, NEW g, AgreeStepwise(f, g, n)
    PROVE  Agree(f, g, n)
<1> DEFINE S == {i \in 0..n : f[i] = g[i]}
<1>1. 0 \in S /\ \A i \in 1..n : i - 1 \in S => i \in S
  BY DEF AgreeStepwise
<1>2. 0..n \subseteq S
  <2> HIDE DEF S
  <2> QED
    BY <1>1, InductionTo
<1> QED
  BY <1>2 DEF Agree
=============================================================================
