-------------------------------- MODULE Loops --------------------------------
(***************************************************************************)
(* Loops of sequential code as recursive functions of the round.  They say *)
(* the same as FoldLeft of the community modules, but bind the state after *)
(* each round to a variable, so that it is evaluated once however often    *)
(* the step refers to it.                                                  *)
(***************************************************************************)
EXTENDS Integers, Sequences

Only(S) == CHOOSE x \in S : TRUE

\* for each element x of s in order: the state a becomes Step(a, x)
ForEach(Step(_, _), start, s) ==
    LET after[i \in 0 .. Len(s)] ==
          IF i = 0 THEN start ELSE Only({Step(a, s[i]) : a \in {after[i - 1]}})
    IN  after[Len(s)]

\* for each i from 1 to n
ForUpTo(Step(_, _), start, n) ==
    LET after[i \in 0 .. n] ==
          IF i = 0 THEN start ELSE Only({Step(a, i) : a \in {after[i - 1]}})
    IN  after[n]
=============================================================================
