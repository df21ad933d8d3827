--------------------------- MODULE MCConditionals ---------------------------
(***************************************************************************)
(* Instances of Conditionals for TLC: dialects, each with the lines that   *)
(* make one kind of trouble.                                               *)
(***************************************************************************)
EXTENDS Conditionals

CONSTANTS X, f1, f2

Only(main, one, two, n0, n1, n2, least, units) ==
    [units |-> units,
     lines |-> [f \in Texts |-> CASE f = Main -> main [] f = f1 -> one [] OTHER -> two],
     min |-> [f \in Texts |-> IF f = Main THEN 0 ELSE least],
     len |-> [f \in Texts |-> CASE f = Main -> n0 [] f = f1 -> n1 [] OTHER -> n2]]

ElseEndif == {Plain("else"), Plain("endif")}

\* one file: every nesting of groups, on conditions that change meanwhile
Groups ==
    Only({Line("if", FALSE), Line("ifdef", X), Line("elif", X), Line("define", X), Plain("code")}
         \cup ElseEndif, {}, {}, 6, 0, 0, 0, 1)
\* a group that begins in one file and goes on in another
Across ==
    Only({Line("if", TRUE), Line("if", FALSE), Line("include", f1)} \cup ElseEndif,
         {Line("if", FALSE), Line("elif", TRUE), Plain("code")} \cup ElseEndif,
         {}, 4, 4, 0, 0, 1)
\* include guards that are complete, or not quite
Guards ==
    Only({Line("include", f1), Line("undef", X)},
         {Line("ifndef", X), Line("define", X), Line("include", f2),
          Plain("code"), Plain("null")} \cup ElseEndif,
         {Plain("code")}, 3, 5, 1, 1, 1)
\* #pragma once, and files that include each other
OnceOnly ==
    Only({Line("include", f1), Line("include", f2)},
         {Plain("once"), Line("include", f2), Line("ifndef", X), Line("define", X), Plain("endif")},
         {Plain("once"), Line("include", f1)}, 3, 4, 2, 1, 2)

\* #line in a guarded file, which names itself, and in the file that includes it
Renumbered ==
    Only({Line("include", f1), Line("line", f1)},
         {Line("ifndef", X), Line("define", X), Line("line", f1), Plain("once"), Plain("endif")},
         {}, 3, 4, 0, 2, 1)

MCDialects == {Groups, Across, Guards, OnceOnly, Renumbered}

\* the hypothesis of the theorems about the cache
ASSUME MCDialectsPlain == \A d \in MCDialects : PlainDialect(d)

\* a file that may be empty, in a file that is not all guarded
MCEmptyDialects ==
    {Only({Line("include", f1)},
          {Plain("code"), Line("include", f2), Line("ifndef", X), Line("define", X), Plain("endif")},
          {}, 2, 5, 0, 0, 1)}
=============================================================================
