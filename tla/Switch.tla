-------------------------------- MODULE Switch --------------------------------
(***************************************************************************)
(* The switch statement (block and gcase in tccgen.c).  The cases are      *)
(* sorted by their constants, which are held as long long, and found by a  *)
(* binary search in the code that is generated.  A value is the integer n  *)
(* of a type t; gen_op compares it as C does (ValueAsC of Arithmetic).  A  *)
(* case is [v1, v2], integers of type long long.                           *)
(***************************************************************************)
EXTENDS CIntegers, Sequences, SequencesExt

DEFAULT == 0    \* where the program goes: the number of a case, to the default,
ERROR == -1     \* or nowhere, because the switch is refused

\* the numbers of the cases in the order of case_cmp
Sorted(cases) == SortSeq([i \in DOMAIN cases |-> i], LAMBDA i, j : cases[i].v1 < cases[j].v1)

Duplicates(cases, order) == \E i \in 2 .. Len(order) : cases[order[i - 1]].v2 >= cases[order[i]].v1

\* mutant: a value of type unsigned long long is compared as such
ComparedUnsigned(x) == x

\* the sorting is signed, so the compared value has to be if it is a long long
Compared(x) == IF x.t = TULong THEN [t |-> TLong, n |-> Converted(x.n, TLong)] ELSE x

\* a comparison in the code; vpushi cuts a constant to an int
Holds(op, x, n) ==
    LET t == IF x.t.b = "long" THEN TLong ELSE TInt
    IN  Result(op, x, [t |-> t, n |-> Converted(n, t)]).n = 1

\* gcase
Search(x, cases, order) ==
    LET Case(i) == cases[order[i]]
        Hit(i) == IF Case(i).v1 = Case(i).v2 THEN Holds("==", x, Case(i).v2)
                  ELSE Holds("<=", x, Case(i).v2) /\ Holds(">=", x, Case(i).v1)
        \* among len cases, of which base come before
        Found[base \in 0 .. Len(order), len \in 0 .. Len(order)] ==
            LET half == len \div 2
                p == base + half + 1
            IN  IF len = 0 THEN DEFAULT
                ELSE IF len <= 4 THEN IF Hit(base + 1) THEN order[base + 1] ELSE Found[base + 1, len - 1]
                ELSE IF ~Holds("<=", x, Case(p).v2) THEN Found[p, len - half - 1]
                ELSE IF Holds(">=", x, Case(p).v1) THEN order[p] ELSE Found[base, half]
    IN  Found[0, Len(order)]

\* the case that the program goes to
Selected(x, cases) == LET order == Sorted(cases)
                      IN  IF Duplicates(cases, order) THEN ERROR ELSE Search(Compared(x), cases, order)

\* The constants are not converted to the type of the value.  Those that the
\* conversion would change, and empty ranges, are left out.
Kept(c, t) == /\ c.v1 <= c.v2
              /\ \A v \in {c.v1, c.v2} : Converted(Converted(v, t), TLong) = v
              /\ t = TULong => (c.v1 < 0) = (c.v2 < 0)

-----------------------------------------------------------------------------
\* C: the cases whose constants, converted to the promoted type of the value, have it
Matching(x, cases) ==
    LET t == Promoted(x.t)
        n == Converted(x.n, t)
    IN  {i \in DOMAIN cases : Converted(cases[i].v1, t) <= n /\ n <= Converted(cases[i].v2, t)}

Overlap(t, cases) == \E n \in Lowest[t] .. Highest[t] : Cardinality(Matching([t |-> t, n |-> n], cases)) > 1
=============================================================================
