---------------------------- MODULE MCValueStack ----------------------------
(***************************************************************************)
(* Instances of ValueStack for TLC: words of two bits, so that every value *)
(* is also the address of one of the four variables, and three inputs on   *)
(* which conditions turn out differently.  A run explores several          *)
(* languages, each with the tokens that make one kind of trouble and as    *)
(* long as that takes.                                                     *)
(***************************************************************************)
EXTENDS ValueStack

Memory(a, b, c, d) == [v \in Word |-> CASE v = 0 -> a [] v = 1 -> b [] v = 2 -> c [] OTHER -> d]

MCInputs == <<Memory(0, 2, 3, 1), Memory(1, 0, 2, 3), Memory(3, 1, 0, 2)>>

Lang(vs, cs, ts, len) ==
    [vars |-> vs, consts |-> cs, tokens |-> ts \cup {"stmt", "var"}, len |-> len,
     args |-> 0, wide |-> FALSE, lazy |-> FALSE]

\* more pending values than registers, one of them claimed by shifts
Registers == Lang({1}, {}, {"deref", "-", "<<"}, 7)
\* operators of every kind, on constants, variables and pointers
Operators == Lang({1}, {0, 1, 2}, {"const", "deref", "+", "*", "<<", "/", "%", "<"}, 4)
\* assignments through pointers, one inside the other
Assignments == Lang({0, 1}, {1}, {"const", "deref", "addr", "=", "+=", "++", "post++", ","}, 5)

\* conditions nested in each other, with constants among their operands
Conditions == Lang({0}, {0, 1}, {"const", "&&", "||", "?", "!"}, 4)
\* conditions on comparisons, and values in different registers
Comparing == Lang({0, 1}, {}, {"&&", "||", "!", "?", "<", "%"}, 4)
\* calls as arguments and in conditions
Calls == [Lang({0, 1}, {}, {"call", "call0", "&&", "<"}, 4) EXCEPT !.args = 3]
\* arguments that are passed in memory between others
WideArguments == [Lang({1}, {}, {"call", "call0", "<", "deref"}, 4)
                  EXCEPT !.args = 3, !.wide = TRUE]
\* if and else with constant conditions, in functions and in ({...})
Branches == Lang({0}, {0, 1}, {"const", "({", "if", "else"}, 5)
\* calls and assignments under an if, in the middle of an expression
Nested == Lang({0}, {}, {"({", "if", "<", "call0", "="}, 6)

MCLanguages == {Registers, Operators, Assignments,
                Conditions, Comparing, Calls, WideArguments, Branches, Nested}

\* two arguments, one of them in memory, and &&
MCBuriedJump == {[Lang({0, 1}, {}, {"call", "&&"}, 4) EXCEPT !.args = 2, !.wide = TRUE]}
\* ({...}) after a comparison, with a call under an if
MCPendingComparison ==
    {[Lang({0, 1}, {}, {"+", "({", "if", "<", "call0"}, 7) EXCEPT !.lazy = TRUE]}
=============================================================================
