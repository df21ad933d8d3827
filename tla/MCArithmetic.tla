----------------------------- MODULE MCArithmetic -----------------------------
(***************************************************************************)
(* Integer expressions from the boundary values of every type.             *)
(***************************************************************************)
EXTENDS Arithmetic

Values == {x \in [t : Types, n : -(2 ^ (LongBits - 1)) .. 2 ^ LongBits - 1] : InRange(x.t, x.n)}

\* of each type the extremes; -1 is all ones in every width
Extremes == {x \in Values : x.n \in {Lowest[x.t], Highest[x.t]} \/ x = [t |-> TInt, n |-> -1]}

\* constants have no type shorter than int; 0, 1, 2 and -1 are what is treated apart
Literals == {x \in Values : /\ x.t \in {TInt, TUInt, TLong, TULong}
                            /\ x.n \in {Lowest[x.t], -1, 0, 1, 2, Highest[x.t]}}
=============================================================================
