----------------------------- MODULE Loops_proofs -----------------------------
(***************************************************************************)
(* Lemmas about loops, the recursive functions of module Loops: a loop     *)
(* whose every round keeps the state within a set of states, which may     *)
(* depend on the round, has a state after each round and ends in the last  *)
(* set.  The induction over the rounds is that a set of numbers that is    *)
(* not empty has a least one.                                              *)
(***************************************************************************)
EXTENDS Integers, Sequences, WellFoundedInduction, TLAPS

\* A set of natural numbers that is not empty has a least element.
LEMMA LeastElement ==
    ASSUME NEW S \in SUBSET Nat, S # {}
    PROVE  \E m \in S : \A k \in S : m <= k
<1>1. PICK m \in S : \A k \in S : <<k, m>> \notin OpToRel(<, Nat)
  BY NatLessThanWellFounded, WFMin
<1>2. ASSUME NEW k \in S PROVE m <= k
  <2>1. ~(k < m) BY <1>1 DEF OpToRel
  <2>2. QED BY <2>1
<1>3. QED BY <1>2

\* If the first state is good, and each round leads from good states to good
\* ones, then all are good.
LEMMA RoundsKeep ==
    ASSUME NEW n \in Nat, NEW Good, NEW after, after[0] \in Good[0],
           \A i \in 1 .. n : after[i - 1] \in Good[i - 1] => after[i] \in Good[i]
    PROVE  \A i \in 0 .. n : after[i] \in Good[i]
<1> DEFINE bad == {i \in 0 .. n : after[i] \notin Good[i]}
<1>1. SUFFICES ASSUME bad # {} PROVE FALSE
  OBVIOUS
<1>2. PICK m \in bad : \A k \in bad : m <= k
  <2>1. bad \in SUBSET Nat OBVIOUS
  <2>2. QED BY <1>1, <2>1, LeastElement
<1>3. m # 0 BY <1>2
<1>4. m \in 1 .. n /\ m - 1 \in 0 .. n /\ m - 1 < m BY <1>2, <1>3
<1>5. m - 1 \notin bad BY <1>2, <1>4
<1>6. after[m - 1] \in Good[m - 1] BY <1>4, <1>5
<1>7. after[m] \in Good[m] BY <1>4, <1>6
<1>8. QED BY <1>2, <1>7

\* f lists the states of the first k rounds.
Unrolled(f, k, start, Round) ==
    /\ f[0] = start
    /\ \A i \in 1 .. k : f[i] = Round[i][f[i - 1]]

\* f is the recursive function of n rounds.
Loop(f, n, start, Round) ==
    f = [i \in 0 .. n |-> IF i = 0 THEN start ELSE Round[i][f[i - 1]]]

\* It exists, and its states are good ones.
LEMMA LoopExists ==
    ASSUME NEW n \in Nat, NEW Good, NEW start \in Good[0], NEW Round,
           \A i \in 1 .. n : \A a \in Good[i - 1] : Round[i][a] \in Good[i]
    PROVE  \E f : Loop(f, n, start, Round) /\ \A i \in 0 .. n : f[i] \in Good[i]
<1> DEFINE P(k) == \E f : /\ f = [i \in 0 .. k |-> f[i]]
                          /\ Unrolled(f, k, start, Round) /\ f[k] \in Good[k]
           bad == {k \in 0 .. n : ~P(k)}
<1>1. P(0)
  <2> DEFINE f == [i \in 0 .. 0 |-> start]
  <2>1. f[0] = start /\ f = [i \in 0 .. 0 |-> f[i]] OBVIOUS
  <2> HIDE DEF f
  <2>2. Unrolled(f, 0, start, Round) BY <2>1 DEF Unrolled
  <2>3. QED BY <2>1, <2>2
<1>2. ASSUME NEW k \in 1 .. n, P(k - 1) PROVE P(k)
  <2>1. PICK f : /\ f = [i \in 0 .. k - 1 |-> f[i]]
                 /\ Unrolled(f, k - 1, start, Round) /\ f[k - 1] \in Good[k - 1]
    BY <1>2
  <2> DEFINE g == [i \in 0 .. k |-> IF i = k THEN Round[k][f[k - 1]] ELSE f[i]]
  <2>2. g = [i \in 0 .. k |-> g[i]] OBVIOUS
  <2>3. g[k] = Round[k][f[k - 1]] /\ \A i \in 0 .. k - 1 : g[i] = f[i] OBVIOUS
  <2> HIDE DEF g
  <2>4. g[k] \in Good[k] BY <2>1, <2>3
  <2>5. Unrolled(g, k, start, Round)
    <3>1. g[0] = start BY <2>1, <2>3 DEF Unrolled
    <3>2. ASSUME NEW i \in 1 .. k PROVE g[i] = Round[i][g[i - 1]]
      <4>1. CASE i = k BY <2>3, <4>1
      <4>2. CASE i # k
        <5>1. i \in 1 .. k - 1 /\ i - 1 \in 0 .. k - 1 /\ i \in 0 .. k - 1 BY <4>2
        <5>2. g[i] = f[i] /\ g[i - 1] = f[i - 1] BY <2>3, <5>1
        <5>3. f[i] = Round[i][f[i - 1]] BY <2>1, <5>1 DEF Unrolled
        <5>4. QED BY <5>2, <5>3
      <4>3. QED BY <4>1, <4>2
    <3>3. QED BY <3>1, <3>2 DEF Unrolled
  <2>6. QED BY <2>2, <2>4, <2>5
<1> HIDE DEF P
<1>3. bad = {}
  <2>1. SUFFICES ASSUME bad # {} PROVE FALSE
    OBVIOUS
  <2>2. bad \in SUBSET Nat OBVIOUS
  <2>3. PICK m \in bad : \A k \in bad : m <= k BY <2>1, <2>2, LeastElement
  <2>4. m # 0 BY <1>1, <2>3
  <2>5. m \in 1 .. n /\ m - 1 \in 0 .. n /\ m - 1 < m BY <2>3, <2>4
  <2>6. m - 1 \notin bad BY <2>3, <2>5
  <2>7. P(m) BY <1>2, <2>5, <2>6
  <2>8. QED BY <2>3, <2>7
<1>4. PICK f : f = [i \in 0 .. n |-> f[i]] /\ Unrolled(f, n, start, Round)
  <2>1. n \in 0 .. n OBVIOUS
  <2>2. P(n) BY <1>3, <2>1
  <2>3. QED BY <2>2 DEF P
<1>5. f[0] = start /\ \A i \in 1 .. n : f[i] = Round[i][f[i - 1]] BY <1>4 DEF Unrolled
<1>6. f = [i \in 0 .. n |-> IF i = 0 THEN start ELSE Round[i][f[i - 1]]]
  <2>1. \A i \in 0 .. n : f[i] = IF i = 0 THEN start ELSE Round[i][f[i - 1]] BY <1>5
  <2>2. QED BY <1>4, <2>1
<1>7. \A i \in 0 .. n : f[i] \in Good[i] BY <1>5, RoundsKeep
<1>8. QED BY <1>6, <1>7 DEF Loop
=============================================================================
