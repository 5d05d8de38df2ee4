-------------------------- MODULE RecursionLemmas --------------------------
(***************************************************************************)
(* What a function that is defined by recursion on a number computes.  The *)
(* induction is over a set of numbers: to show that a property holds of    *)
(* 0 to N, show that the set of those of which it holds has 0 and, with    *)
(* every n - 1, n.  The modules whose proofs need it state their           *)
(* recursions as functions on 0..N for that.                               *)
(***************************************************************************)
EXTENDS Integers, WellFoundedInduction, TLAPS

\* A set of numbers that is not empty has a least one.  WFMin, on which this
\* rests, takes a relation and no operator, and so can be cited.
LEMMA SetHasLeast ==
  ASSUME NEW T \in SUBSET Nat, T # {}
  PROVE  \E n \in T : \A m \in T : n <= m
<1> DEFINE R == OpToRel(<, Nat)
<1>1. IsWellFoundedOn(R, Nat)
  BY NatLessThanWellFounded
<1>2. \A x, y \in Nat : x < y => <<x, y>> \in R
  BY DEF OpToRel
<1> HIDE DEF R
<1>3. PICK x \in T : \A y \in T : ~ (<<y, x>> \in R)
  BY <1>1, WFMin
<1>4. \A y \in T : ~ (y < x)
  BY <1>2, <1>3
<1>5. QED
  BY <1>4

\* What a set of numbers holds when it holds 0 and each number after one of its own.
LEMMA UpTo ==
  ASSUME NEW N \in Nat, NEW T, 0 \in T, \A n \in 1..N : n - 1 \in T => n \in T
  PROVE  0..N \subseteq T
<1> SUFFICES ASSUME (0..N) \ T # {} PROVE FALSE
  OBVIOUS
<1> DEFINE missing == (0..N) \ T
<1>0. missing \in SUBSET Nat /\ missing # {}
  OBVIOUS
<1> HIDE DEF missing
<1>1. PICK n \in missing : \A m \in missing : n <= m
  BY <1>0, SetHasLeast
<1> USE DEF missing
<1>2. n \in 1..N /\ n - 1 \in 0..N
  BY <1>1
<1>3. n - 1 \in T
  BY <1>1, <1>2
<1>4. QED
  BY <1>1, <1>2, <1>3

\* f is base at 0, and what step makes of the value before everywhere else.
Recurs(f, N, base, step) == f[0] = base /\ \A n \in 1..N : f[n] = step[n][f[n - 1]]

\* A function that is defined by recursion on a number exists.
LEMMA RecursionExists ==
  ASSUME NEW N \in Nat, NEW S, NEW base \in S, NEW step \in [1..N -> [S -> S]]
  PROVE  \E f \in [0..N -> S] : Recurs(f, N, base, step)
<1> DEFINE Until(n) == {f \in [0..n -> S] :
                          f[0] = base /\ \A m \in 1..n : f[m] = step[m][f[m - 1]]}
           T == {n \in 0..N : Until(n) # {}}
<1>1. 0 \in T
  <2>1. [m \in 0..0 |-> base] \in Until(0)
    OBVIOUS
  <2>2. QED
    BY <2>1
<1>2. ASSUME NEW n \in 1..N, n - 1 \in T PROVE n \in T
  <2>1. PICK f \in Until(n - 1) : TRUE
    BY <1>2
  <2>2. f \in [0..n - 1 -> S] /\ f[0] = base /\ \A m \in 1..n - 1 : f[m] = step[m][f[m - 1]]
    BY <2>1
  <2> DEFINE g == [m \in 0..n |-> IF m = n THEN step[n][f[n - 1]] ELSE f[m]]
  <2>3. step[n][f[n - 1]] \in S
    BY <2>2
  <2>4. g \in [0..n -> S]
    BY <2>2, <2>3
  <2>5. g[0] = base
    BY <2>2
  <2>6. ASSUME NEW m \in 1..n PROVE g[m] = step[m][g[m - 1]]
    <3>1. CASE m = n
      BY <3>1
    <3>2. CASE m # n
      <4>1. m \in 1..n - 1 /\ g[m] = f[m] /\ g[m - 1] = f[m - 1]
        BY <3>2
      <4>2. QED
        BY <4>1, <2>2
    <3>3. QED
      BY <3>1, <3>2
  <2> HIDE DEF g
  <2>7. g \in Until(n)
    BY <2>4, <2>5, <2>6
  <2>8. QED
    <3> HIDE DEF Until
    <3>1. QED
      BY <2>7
<1> HIDE DEF T
<1>3. N \in T
  <2>1. 0..N \subseteq T
    BY <1>1, <1>2, UpTo
  <2>2. QED
    BY <2>1
<1>4. PICK f \in Until(N) : TRUE
  BY <1>3 DEF T
<1>5. QED
  BY <1>4 DEF Recurs
=============================================================================
