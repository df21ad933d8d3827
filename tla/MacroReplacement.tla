--------------------------- MODULE MacroReplacement ---------------------------
(***************************************************************************)
(* What C says of macro replacement (C99 6.10.3), as the algorithm from    *)
(* which the text of the standard was made: a token carries the set of     *)
(* the macros that it comes from and is not replaced by any of them.       *)
(***************************************************************************)
EXTENDS Integers, Sequences, SequencesExt, FiniteSets

CONSTANT Words

T(t, hide) == [t |-> t, hide |-> hide]
Bare(text) == [i \in DOMAIN text |-> T(text[i], {})]
Hidden(s, hide) == [i \in DOMAIN s |-> T(s[i].t, s[i].hide \cup hide)]

\* the call that begins with the parenthesis s[1]: its arguments and its end
RECURSIVE Call(_, _, _, _, _)
Call(s, i, depth, args, rest) ==
    IF i > Len(s) THEN [end |-> 0, args |-> <<>>]
    ELSE LET t == s[i].t
             add == Append(Front(args), Append(Last(args), s[i]))
         IN  CASE t = ")" /\ depth = 0 -> [end |-> i, args |-> args]
               [] t = "," /\ depth = 0 /\ Len(args) # rest
                    -> Call(s, i + 1, 0, Append(args, <<>>), rest)
               [] OTHER -> Call(s, i + 1, IF t = "(" THEN depth + 1
                                          ELSE IF t = ")" THEN depth - 1 ELSE depth, add, rest)

Glued(a, b) ==
    IF a = <<>> THEN b ELSE IF b = <<>> THEN a
    ELSE IF Last(a).t \in Words /\ Head(b).t \in Words
    THEN Front(a) \o <<T(Last(a).t \o Head(b).t, Last(a).hide \cap Head(b).hide)>> \o Tail(b)
    ELSE a \o b

RECURSIVE Replaced(_, _)
RECURSIVE Filled(_, _, _, _, _)

\* the body from i on, with the arguments
Filled(D, m, args, i, out) ==
    LET at(j) == IF j \in DOMAIN m.body THEN m.body[j] ELSE ""
        param(t) == SelectInSeq(m.params, LAMBDA p : p = t)
        k == param(at(i))
        n == param(at(i + 1))
        spelled(a) == "'" \o FoldLeft(LAMBDA s, x : s \o x.t, "", a) \o "'"
        glue(b) == IF b = <<>> THEN out ELSE Glued(out, b)
    IN  IF i > Len(m.body) THEN out
        ELSE CASE at(i) = "," /\ at(i + 1) = "##" /\ m.rest /\ param(at(i + 2)) = Len(m.params) ->
                    LET rest == args[Len(m.params)]
                    IN  Filled(D, m, args, i + 3,
                               IF rest = <<>> THEN out ELSE Append(out, T(",", {})) \o Replaced(D, rest))
               [] at(i) = "#" /\ n # 0 ->
                    Filled(D, m, args, i + 2, Append(out, T(spelled(args[n]), {})))
               [] at(i) = "##" -> 
                    Filled(D, m, args, i + 2, Glued(out, IF n # 0 THEN args[n] ELSE Bare(<<at(i + 1)>>)))
               [] k # 0 /\ at(i + 1) = "##" /\ args[k] = <<>> ->
                    IF param(at(i + 2)) # 0
                    THEN Filled(D, m, args, i + 3, out \o args[param(at(i + 2))])
                    ELSE Filled(D, m, args, i + 3, Append(out, T(at(i + 2), {})))
               [] k # 0 -> Filled(D, m, args, i + 1,
                                  out \o (IF at(i + 1) = "##" THEN args[k] ELSE Replaced(D, args[k])))
               [] OTHER -> Filled(D, m, args, i + 1, Append(out, T(at(i), {})))

\* <<>> stands for an invalid call
Replaced(D, s) ==
    IF s = <<>> THEN s
    ELSE LET h == Head(s)
             m == D[h.t]
             c == Call(s, 3, 0, <<<<>>>>, IF m.rest THEN Len(m.params) ELSE 0)
             args == IF m.params = <<>> /\ c.args = <<<<>>>> THEN <<>>
                     ELSE IF m.rest /\ Len(c.args) + 1 = Len(m.params) THEN Append(c.args, <<>>)
                     ELSE c.args
             body(a, hide) == Hidden(Filled(D, m, a, 1, <<>>), hide \cup {h.t})
         IN  IF h.t \notin DOMAIN D \/ h.t \in h.hide \/ (m.fn /\ (Len(s) = 1 \/ s[2].t # "("))
             THEN <<h>> \o Replaced(D, Tail(s))
             ELSE IF ~m.fn THEN Replaced(D, body(<<>>, h.hide) \o Tail(s))
             ELSE IF c.end = 0 \/ Len(args) # Len(m.params) THEN <<T("failed", {})>>
             ELSE Replaced(D, body(args, h.hide \cap s[c.end].hide) \o SubSeq(s, c.end + 1, Len(s)))

Replacement(D, text) ==
    LET r == Replaced(D, Bare(text))
    IN  IF \E i \in DOMAIN r : r[i].t = "failed" THEN <<"failed">> ELSE [i \in DOMAIN r |-> r[i].t]
=============================================================================
