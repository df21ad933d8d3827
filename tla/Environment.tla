---------------------------- MODULE Environment ----------------------------
(***************************************************************************)
(* What the symbol tables of a C compiler promise.  A program is a nest of *)
(* scopes: scope 1 is the file, scope 2 a function with its parameters,    *)
(* the others blocks.  A name means the declaration in the innermost scope *)
(* that has one; leaving a scope brings back what it hid.  Identifiers,    *)
(* tags and labels do not interfere, and a program is refused only when it *)
(* gives a reason.                                                         *)
(***************************************************************************)
EXTENDS Naturals, Sequences

CONSTANTS
    Names,
    Decls,       \* what declarations are told apart by
    None         \* no declaration, not one of Decls

VARIABLES
    scopes,      \* for each open scope, what each name of each space is declared to be
    used,        \* labels that are used and not defined yet
    defined,     \* labels that are defined
    means,       \* what each name means here
    refused      \* why the last program was refused, or ""

envVars == <<scopes, used, defined, means, refused>>

Spaces == {"ident", "struct", "label"}
Empty == [sp \in Spaces |-> [v \in Names |-> None]]
Depth == Len(scopes)

\* The scopes of s that declare name v, and what the innermost of them makes of it
Having(s, sp, v) == {i \in DOMAIN s : s[i][sp][v] # None}
Innermost(s, sp, v) ==
    IF Having(s, sp, v) = {} THEN None
    ELSE s[CHOOSE i \in Having(s, sp, v) : \A j \in Having(s, sp, v) : j <= i][sp][v]
Meaning(s) == [sp \in Spaces |-> [v \in Names |-> Innermost(s, sp, v)]]

EnvInit ==
    /\ scopes = <<Empty>> /\ used = {} /\ defined = {} /\ means = Empty
    /\ refused = ""

\* A scope is entered with the declarations that come with it: parameters, __label__
Enter ==
    /\ \E after \in {scopes'} : Len(after) = Depth + 1 /\ SubSeq(after, 1, Depth) = scopes
    /\ UNCHANGED <<used, defined>>

\* A declaration in the innermost scope; one in the file, if the name means nothing;
\* or the first use or the definition of a label, which belongs to the function
Declare ==
    \E before \in {scopes}, after \in {scopes'} :
       Len(after) = Len(before) /\ \E i \in DOMAIN before, sp \in Spaces, v \in Names :
        LET d == after[i][sp][v]
        IN /\ d # before[i][sp][v] /\ d # None
           /\ after = [before EXCEPT ![i][sp][v] = d]
           /\ IF sp = "label" THEN i = 2 ELSE i \in {1, Len(before)}
           /\ sp = "label" \/ i < Len(before) => means[sp][v] = None
           /\ IF sp = "label"
              THEN <<used', defined'>> \in {<<used \cup {d}, defined>>, <<used, defined \cup {d}>>}
              ELSE UNCHANGED <<used, defined>>

\* A label that has a declaration is used or defined
UseLabel ==
    /\ \E v \in Names : LET d == means["label"][v] IN
          d \notin defined \cup {None} /\ used' = used \cup {d}
    /\ UNCHANGED <<scopes, defined>>
DefineLabel ==
    /\ \E v \in Names : LET d == means["label"][v] IN
          /\ d \notin defined \cup {None}
          /\ defined' = defined \cup {d} /\ used' = used \ {d}
    /\ UNCHANGED scopes

Closing == {scopes[Depth]["label"][v] : v \in Names}
Leave ==
    /\ Depth > 1 /\ Closing \cap used = {}
    /\ scopes' = SubSeq(scopes, 1, Depth - 1)
    /\ defined' = defined \ Closing
    /\ UNCHANGED used

Accept ==
    /\ Enter \/ Declare \/ UseLabel \/ DefineLabel \/ Leave
    /\ \E after \in {scopes'} : means' = Meaning(after)
    /\ refused' = ""

\* The program ends, or is refused for a reason, and another one follows
Reason(why) ==
    CASE why = "redeclaration" ->
             \E sp \in Spaces, v \in Names : scopes[Depth][sp][v] # None
      [] why = "undefined label" -> Closing \cap used # {}
      [] why = "duplicate label" -> \E v \in Names : means["label"][v] \in defined
      [] why = "" -> Depth = 1
      [] why = "syntax" -> TRUE
Restart ==
    /\ Reason(refused')
    /\ scopes' = <<Empty>> /\ used' = {} /\ defined' = {} /\ means' = Empty

EnvSpec == EnvInit /\ [][Accept \/ Restart]_envVars
============================================================================
