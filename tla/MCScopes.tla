------------------------------ MODULE MCScopes ------------------------------
(***************************************************************************)
(* Instances of Scopes for TLC.                                            *)
(***************************************************************************)
EXTENDS Scopes

CONSTANTS x, y

Plain(names, spaces, syms) ==
    [names |-> names, syms |-> syms, spaces |-> spaces, reuse |-> FALSE, session |-> FALSE]

\* One name in one and in two name spaces, and two names that are pushed in any
\* order.  One symbol of each function is the dummy on the local stack; the others
\* are enough for a chain of a global symbol and two local ones.
MCDialects == {Plain({x}, {"ident"}, 4), Plain({x}, {"struct", "label"}, 4),
               Plain({x, y}, {"ident"}, 3), Plain({x, y}, {"label"}, 3)}

\* labels and functions whose names were local to a ({...})
MCReuse == {[Plain({x}, {"ident", "label"}, 4) EXCEPT !.reuse = TRUE]}

\* another string after an error
MCSession == {[Plain({x}, {"ident"}, 4) EXCEPT !.session = TRUE]}
=============================================================================
