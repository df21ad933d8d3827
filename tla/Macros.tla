-------------------------------- MODULE Macros --------------------------------
(***************************************************************************)
(* Macro substitution (tccpp.c): macro_subst goes over a token string and  *)
(* macro_subst_tok replaces a macro in it.  What is left of a string while *)
(* a macro in it is replaced is a level of the macro stack, from which the *)
(* arguments are read, and when it is used up from the level below, down   *)
(* to the file.  nested_list has the macros being replaced, one for every  *)
(* level; the entry of a level that ends is cleared.                       *)
(*                                                                         *)
(* A token is a string; white space is left out.  EMPTY is TOK_PLCHLDR,    *)
(* KEEP is TOK_NOSUBST, and END the -1 that ends an argument.              *)
(***************************************************************************)
EXTENDS Integers, Sequences, SequencesExt, FiniteSetsExt

CONSTANTS Words,     \* the tokens that can be pasted
          Numbers    \* those that take more than one int in a token string

EMPTY == "<empty>"
KEEP  == "<keep>"
END   == "<end>"

\* S.levels: the macro stack; S.file: the rest of the file; S.nest: nested_list,
\* the macro entered last at the end; S.failed: tcc_error was called
Start(text) == [levels |-> <<>>, file |-> text, nest |-> <<>>, failed |-> FALSE]
Failed(S) == [S EXCEPT !.failed = TRUE]

\* mutant: the scope of a macro does not end with the level it stands on
ClearedNever(nest) == nest

\* the innermost entry of nested_list that is not cleared is cleared
Cleared(nest) ==
    LET I == {i \in DOMAIN nest : nest[i] # ""}
    IN  IF I = {} THEN nest ELSE [nest EXCEPT ![Max(I)] = ""]

LevelEnds(S) == [S EXCEPT !.levels = Front(@), !.nest = Cleared(@)]

\* next_argstream: the levels that are used up end
RECURSIVE Reading(_)
Reading(S) == IF S.levels # <<>> /\ Last(S.levels) = <<>> THEN Reading(LevelEnds(S)) ELSE S

Ahead(S) == IF S.levels # <<>> THEN Last(S.levels) ELSE Append(S.file, END)
Past(S) == IF S.levels # <<>> THEN [S EXCEPT !.levels = Append(Front(@), Tail(Last(@)))]
           ELSE IF S.file = <<>> THEN S ELSE [S EXCEPT !.file = Tail(@)]

\* the same before the parenthesis of a call: placeholders are looked past
RECURSIVE Peeking(_)
Peeking(S) ==
    LET rest == SelectSeq(Ahead(S), LAMBDA t : t # EMPTY)
    IN  IF S.levels # <<>> /\ rest = <<>> THEN Peeking(LevelEnds(S)) ELSE S

RECURSIVE Parenthesis(_)
Parenthesis(S) == IF Head(Ahead(S)) = EMPTY THEN Parenthesis(Past(S)) ELSE S

\* one argument: the tokens up to the comma or parenthesis that ends it
RECURSIVE Argument(_, _, _, _)
Argument(S, arg, depth, rest) ==
    LET R == Reading(S)
        t == Head(Ahead(R))
    IN  IF t = END \/ (depth = 0 /\ (t = ")" \/ (t = "," /\ ~rest)))
        THEN [S |-> IF depth > 0 THEN Failed(R) ELSE R, arg |-> Append(arg, END)]
        ELSE Argument(Past(R), Append(arg, t),
                      IF t = "(" THEN depth + 1 ELSE IF t = ")" THEN depth - 1 ELSE depth, rest)

\* all of them; S is behind the parenthesis or the comma
RECURSIVE Arguments(_, _, _, _)
Arguments(S, params, rest, args) ==
    LET R == Reading(S)
        more == Len(args) < Len(params)
        a == Argument(R, <<>>, 0, rest /\ Len(args) + 1 = Len(params))
        b == Append(args, a.arg)
    IN  IF R.failed THEN [S |-> R, args |-> args]
        ELSE IF params = <<>> /\ Head(Ahead(R)) = ")" THEN [S |-> Past(R), args |-> <<>>]
        ELSE IF ~more \/ a.S.failed THEN [S |-> Failed(R), args |-> args]
        ELSE CASE Head(Ahead(a.S)) = ")" ->
                    IF Len(b) = Len(params) THEN [S |-> Past(a.S), args |-> b]
                    ELSE IF rest /\ Len(b) + 1 = Len(params)
                    THEN [S |-> Past(a.S), args |-> Append(b, <<END>>)]
                    ELSE [S |-> Failed(a.S), args |-> b]
               [] Head(Ahead(a.S)) = "," -> Arguments(Past(a.S), params, rest, b)
               [] OTHER -> [S |-> Failed(a.S), args |-> b]

\* macro_twosharps: pastes from the left, through the placeholders
RECURSIVE Pasted(_, _)
Pasted(out, str) ==
    IF str = <<>> THEN out
    ELSE IF Head(str) = "##" THEN Pasted(out, Tail(str))
    ELSE IF Len(str) < 2 \/ str[2] # "##" THEN Pasted(Append(out, Head(str)), Tail(str))
    ELSE LET kept == SelectInSeq(Reverse(out), LAMBDA t : t # KEEP)
             bare == IF kept = 0 THEN <<>> ELSE SubSeq(out, 1, Len(out) - kept + 1)
             next == SelectInSubSeq(str, 3, Len(str), LAMBDA t : t # KEEP)
             a == Head(str)
             b == str[next]
             after == SubSeq(str, next + 1, Len(str))
         IN  IF next = 0 \/ b = "##" THEN Pasted(bare, <<a>> \o SubSeq(str, 3, Len(str)))
             ELSE IF a = EMPTY THEN Pasted(bare, <<b>> \o after)
             ELSE IF b = EMPTY THEN Pasted(bare, <<a>> \o after)
             ELSE IF a \in Words /\ b \in Words THEN Pasted(bare, <<a \o b>> \o after)
             ELSE Pasted(Append(bare, a), <<b>> \o after)

RECURSIVE Subst(_, _, _, _, _)
RECURSIVE SubstTok(_, _, _, _)

\* the operator #; that quotes are escaped is left out
Spelled(arg) ==
    "'" \o FoldLeft(LAMBDA s, t : IF t \in {END, EMPTY, KEEP} THEN s ELSE s \o t, "", arg) \o "'"

\* macro_arg_subst: the body of a macro with its arguments; a placeholder where
\* one is empty.  (An argument of one int behind , ## gets one too.)
ArgSubst(D, S, m, args) ==
    LET param(t) == SelectInSeq(m.params, LAMBDA p : p = t)
        Tokens(arg) == SelectSeq(arg, LAMBDA t : t # END)
        value == [k \in DOMAIN args |-> Subst(D, S, <<>>, args[k], 0)]
        At(i) == IF i \in DOMAIN m.body THEN m.body[i] ELSE ""
        comma(i) == /\ At(i - 1) = "##" /\ At(i - 2) = "," /\ m.rest
                    /\ param(At(i)) = Len(m.params)
        plain(i) == param(At(i)) # 0 /\ At(i - 1) \notin {"#", "##"} /\ At(i + 1) # "##"
        single(s) == Len(s) = 1 /\ Head(s) \notin Numbers
        OrEmpty(s) == IF s = <<>> THEN <<EMPTY>> ELSE s
        Step(str, i) ==
            LET t == At(i)
                k == param(t)
            IN  IF t = "#" THEN str
                ELSE IF At(i - 1) = "#" THEN Append(str, Spelled(args[k]))
                ELSE IF k = 0 THEN Append(str, t)
                ELSE IF plain(i) THEN str \o OrEmpty(value[k].out)
                ELSE IF ~comma(i) THEN str \o OrEmpty(Tokens(args[k]))
                ELSE IF args[k] = <<END>> THEN SubSeq(str, 1, Len(str) - 2)
                ELSE Front(str) \o value[k].out \o (IF single(value[k].out) THEN <<EMPTY>> ELSE <<>>)
    IN  [failed |-> \E i \in DOMAIN m.body : (plain(i) \/ comma(i)) /\ value[param(At(i))].S.failed,
         str |-> FoldLeft(Step, <<>>, [i \in DOMAIN m.body |-> i])]

\* the replacement of the macro t: what it expands to is added to out
Replace(D, S, out, t, body) ==
    LET r == Subst(D, [S EXCEPT !.nest = Append(@, t)], out, Pasted(<<>>, body), 0)
    IN  [S |-> [r.S EXCEPT !.nest = Front(@)], out |-> r.out]

SubstTok(D, S, out, t) ==
    LET m == D[t]
        R == Peeking(S)
        called == Head(SelectSeq(Ahead(R), LAMBDA u : u # EMPTY)) = "("
        a == Arguments(Past(Parenthesis(R)), m.params, m.rest, <<>>)
    IN  IF ~m.fn THEN Replace(D, S, out, t, m.body)
        ELSE IF ~called THEN [S |-> R, out |-> Append(out, t)]
        ELSE IF a.S.failed THEN [S |-> a.S, out |-> out]
        ELSE LET body == ArgSubst(D, a.S, m, a.args)
             IN  IF body.failed THEN [S |-> Failed(a.S), out |-> out]
                 ELSE Replace(D, a.S, out, t, body.str)

\* macro_subst; nosubst = 1 after a marker
Subst(D, S, out, str, nosubst) ==
    IF S.failed \/ str = <<>> \/ Head(str) = END THEN [S |-> S, out |-> out]
    ELSE LET t == Head(str) IN
         IF nosubst = 0 /\ t \in DOMAIN D
         THEN IF t \in Range(S.nest) THEN Subst(D, S, out \o <<KEEP, t>>, Tail(str), 0)
              ELSE LET S1 == [S EXCEPT !.levels = Append(@, Tail(str))]
                       r  == SubstTok(D, S1, out, t)
                   IN  IF r.S.failed \/ Len(r.S.levels) < Len(S1.levels) THEN r
                       ELSE Subst(D, [r.S EXCEPT !.levels = Front(@)], r.out, Last(r.S.levels), 0)
         ELSE Subst(D, S, Append(out, t), Tail(str), IF t = KEEP THEN 1 ELSE 0)

\* next, until the end of the file
RECURSIVE Expansion(_, _, _)
Expansion(D, S, out) ==
    IF S.failed THEN <<"failed">>
    ELSE IF S.file = <<>> THEN SelectSeq(out, LAMBDA t : t \notin {KEEP, EMPTY})
    ELSE LET t == Head(S.file)
             r == SubstTok(D, [S EXCEPT !.file = Tail(@)], <<>>, t)
         IN  IF t \in DOMAIN D THEN Expansion(D, r.S, out \o r.out)
             ELSE Expansion(D, [S EXCEPT !.file = Tail(@)], Append(out, t))

Expanded(D, text) == Expansion(D, Start(text), <<>>)
=============================================================================
