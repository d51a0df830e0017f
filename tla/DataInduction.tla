--------------------------- MODULE DataInduction ---------------------------
(***************************************************************************)
(* Induction over data, in a form the provers can use: the library states  *)
(* it with an operator as parameter; here the set of the counterexamples   *)
(* is the parameter, or the functions that make the steps of an iteration. *)
(***************************************************************************)
EXTENDS Integers, WellFoundedInduction, TLAPS

\* A set of numbers that is not empty has a least member.
LEMMA LeastNat ==
    ASSUME NEW T, T \subseteq Nat, T # {}
    PROVE  \E x \in T : \A y \in T : x <= y
<1> DEFINE R == OpToRel(<, Nat)
<1>1. IsWellFoundedOn(R, Nat) BY NatLessThanWellFounded
<1> HIDE DEF R
<1>2. PICK x \in T : \A y \in T : ~ (<<y, x>> \in R) BY <1>1, WFMin
<1>3. \A y \in T : ~(y < x) BY <1>2 DEF R, OpToRel
<1> QED BY <1>3

\* A set of numbers that has 0, and with each number below n the next one, has
\* them all up to n.
LEMMA UpTo ==
    ASSUME NEW n \in Nat, NEW T, 0 \in T, \A i \in 0..(n - 1) : i \in T => i + 1 \in T
    PROVE  0..n \subseteq T
<1> DEFINE Bad == (0..n) \ T
<1> SUFFICES ASSUME Bad # {} PROVE FALSE OBVIOUS
<1>1. PICK x \in Bad : \A y \in Bad : x <= y
  <2>1. Bad \subseteq Nat OBVIOUS
  <2> HIDE DEF Bad
  <2> QED BY <2>1, LeastNat
<1>2. x - 1 \in 0..(n - 1) /\ x - 1 \in T BY <1>1
<1>3. (x - 1) + 1 \in T BY <1>2
<1> QED BY <1>1, <1>3

\* The sequences of n steps within S, from first.
Iterations(n, S, first, step) ==
    {g \in [0..n -> S] : g[0] = first /\ \A i \in 1..n : g[i] = step[i][g[i - 1]]}

\* What one step keeps, n steps keep: from a member of S, steps that
\* take members of S to members of S can be iterated, within S.
LEMMA Iteration ==
    ASSUME NEW n \in Nat, NEW S, NEW first \in S, NEW step \in [1..n -> [S -> S]]
    PROVE  Iterations(n, S, first, step) # {}
<1> DEFINE Runs(g, k) == g[0] = first /\ \A i \in 1..k : g[i] = step[i][g[i - 1]]
<1> DEFINE Good == {k \in 0..n : \E g \in [0..k -> S] : Runs(g, k)}
<1>1. 0 \in Good
  <2> DEFINE g == [i \in 0..0 |-> first]
  <2>1. g \in [0..0 -> S] /\ Runs(g, 0) OBVIOUS
  <2> HIDE DEF g, Runs
  <2> QED BY <2>1
<1>2. ASSUME NEW k \in 0..(n - 1), k \in Good PROVE k + 1 \in Good
  <2>1. PICK g \in [0..k -> S] : Runs(g, k)
    <3> HIDE DEF Runs
    <3> QED BY <1>2
  <2> DEFINE h == [i \in 0..(k + 1) |-> IF i <= k THEN g[i] ELSE step[k + 1][g[k]]]
  <2>2. step[k + 1][g[k]] \in S
    <3>1. k + 1 \in 1..n /\ g[k] \in S OBVIOUS
    <3> QED BY <3>1
  <2>3. h \in [0..(k + 1) -> S] BY <2>2
  <2>4. h[0] = first BY <2>1
  <2>5. ASSUME NEW i \in 1..(k + 1) PROVE h[i] = step[i][h[i - 1]]
    <3>1. h[i - 1] = g[i - 1] OBVIOUS
    <3>2. CASE i <= k BY <3>1, <3>2, <2>1
    <3>3. CASE i = k + 1
      <4>1. h[k + 1] = step[k + 1][g[k]] /\ i - 1 = k BY <3>3
      <4> QED BY <3>1, <3>3, <4>1
    <3> QED BY <3>2, <3>3
  <2>6. Runs(h, k + 1) BY <2>4, <2>5
  <2>7. k + 1 \in 0..n OBVIOUS
  <2> HIDE DEF h, Runs
  <2> QED BY <2>3, <2>6, <2>7
<1>3. 0..n \subseteq Good
  <2> HIDE DEF Good
  <2> QED BY <1>1, <1>2, UpTo
<1>4. n \in Good BY <1>3
<1> QED BY <1>4 DEF Iterations
=============================================================================
