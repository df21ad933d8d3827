------------------------------- MODULE Scopes -------------------------------
(***************************************************************************)
(* The symbol tables of tccgen.c and tccpp.c.  A declaration is a Sym that *)
(* is at once on a stack (global_stack, local_stack, global_label_stack or *)
(* local_label_stack), from which it is popped when its scope is left, and *)
(* on the chain of the declarations of its name, whose head is in the      *)
(* token (sym_identifier, sym_struct or sym_label) and whose links are     *)
(* prev_tok: what a name means is read off the head, and popping a symbol  *)
(* writes its link into the head.                                          *)
(*                                                                         *)
(* A program is any sequence of declarations, labels, blocks and functions *)
(* that the parser reads; ctx has a frame for each open block() or for.    *)
(* Types are left out, except for what symbols of one kind may not do.     *)
(***************************************************************************)
EXTENDS Integers, Sequences, FiniteSets, SequencesExt, Loops

CONSTANTS
    Names,        \* tokens
    MaxSyms,      \* symbols
    MaxDepth,     \* bound on the nesting of blocks
    Dialects      \* the kinds of programs that are considered, see below

\* A dialect: its names and name spaces, and how many symbols there may be at a
\* time; whether a name may be put on a global stack after
\* a ({...}) before it had a local declaration of that name; and whether another
\* string is compiled in the same process after an error (only without labels: the
\* label stacks are not emptied, and label_pop() leaves freed labels on them when it
\* finds one that is not defined)
Dialect == [names : SUBSET Names, syms : Nat, spaces : SUBSET {"ident", "struct", "label"},
            reuse : BOOLEAN, session : BOOLEAN]

ASSUME ScopesAssumption ==
    /\ MaxSyms \in Nat /\ MaxDepth \in Nat \ {0} /\ IsFiniteSet(Names) /\ "" \notin Names
    /\ Dialects \subseteq Dialect
    /\ \A d \in Dialects : d.syms <= MaxSyms /\ (d.session => "label" \notin d.spaces)

VARIABLES
    dialect,
    tab,          \* the symbol tables
    local_scope,  \* the nesting of scopes
    ctx,          \* the frames of the parser
    gone,         \* symbols that are only kept on their stack (history variable)
    msg           \* the error that ended the last program, or ""

vars == <<dialect, tab, local_scope, ctx, gone, msg>>

Spaces == {"ident", "struct", "label"}
Stacks == {"global", "local", "global_label", "local_label"}
Syms == 1 .. MaxSyms
NULL == 0

\* v: the name, "" if it is not recorded; sp: its name space; prev_tok: the next
\* symbol of the chain; sym_scope; r: what matters of the type, or LABEL_xxx
Sym(v, sp, r) == [v |-> v, sp |-> sp, prev_tok |-> NULL, sym_scope |-> 0, r |-> r]
Blank == Sym("", "ident", "")
NoTable ==
    [sym   |-> [i \in Syms |-> Blank],
     stack |-> [st \in Stacks |-> <<>>],
     head  |-> [sp \in Spaces |-> [v \in Names |-> NULL]]]

On(t) == UNION {Range(t.stack[st]) : st \in Stacks}
Free(t) == Syms \ On(t)
Room(t, n) == Cardinality(On(t)) + n <= dialect.syms
sym_malloc(t) == CHOOSE i \in Free(t) : \A j \in Free(t) : i <= j

sym_find(v)    == tab.head["ident"][v]
struct_find(v) == tab.head["struct"][v]
label_find(v)  == tab.head["label"][v]

-----------------------------------------------------------------------------
(* Pushing and popping *)

\* A new symbol on stack st
sym_push2(t, st, s) ==
    LET i == sym_malloc(t)
    IN [t EXCEPT !.sym[i] = s, !.stack[st] = Append(@, i)]

\* mutant: the symbol does not lead to the one it hides
PushHeadOnly(t, st, s) ==
    [sym_push2(t, st, s) EXCEPT !.head[s.sp][s.v] = sym_malloc(t)]

\* ... that is the head of its chain
PushHead(t, st, s) ==
    [sym_push2(t, st, [s EXCEPT !.prev_tok = t.head[s.sp][s.v]])
     EXCEPT !.head[s.sp][s.v] = sym_malloc(t)]

\* ... that is the last one of its chain
Walk(t, sp, v) ==
    LET walk[n \in 0 .. MaxSyms] ==
            IF n = 0 THEN t.head[sp][v]
            ELSE IF walk[n - 1] = NULL THEN NULL ELSE t.sym[walk[n - 1]].prev_tok
    IN walk
Chain(t, sp, v) == {Walk(t, sp, v)[n] : n \in 0 .. MaxSyms} \ {NULL}
PushLast(t, st, s) ==
    LET i == sym_malloc(t)
        ends == {j \in Chain(t, s.sp, s.v) : t.sym[j].prev_tok = NULL}
        pushed == sym_push2(t, st, s)
    IN IF ends = {} THEN [pushed EXCEPT !.head[s.sp][s.v] = i]
       ELSE [pushed EXCEPT !.sym[CHOOSE j \in ends : TRUE].prev_tok = i]

sym_push(t, s, scope) ==
    PushHead(t, IF t.stack["local"] # <<>> THEN "local" ELSE "global",
             [s EXCEPT !.sym_scope = scope])
\* mutant: nothing is compared
RedeclaresNot(s) == FALSE
Redeclares(s) ==
    LET hidden == tab.head[s.sp][s.v]
    IN hidden # NULL /\ tab.sym[hidden].sym_scope = local_scope

global_identifier_push(t, s) == PushLast(t, "global", s)
label_push(t, st, s) ==
    IF st = "global_label" THEN PushLast(t, st, s) ELSE PushHead(t, st, s)

\* sym_pop() and label_pop(): symbols of stack st from the top (if top) down to position b
\* are taken from their chains, and freed and taken from the stack unless they are kept.
Unlinked(t, popped, top) ==
    \* The last one of a name to be popped, the lowest, decides what remains its head.
    LET Of(sp, v) == {i \in DOMAIN popped : t.sym[popped[i]].v = v /\ t.sym[popped[i]].sp = sp}
    IN [sp \in Spaces |-> [v \in Names |->
           IF Of(sp, v) = {} THEN t.head[sp][v]
           ELSE t.sym[popped[IF top THEN Min(Of(sp, v)) ELSE Max(Of(sp, v))]].prev_tok]]
Freeing(t, popped, keep) ==
    [i \in Syms |-> IF i \in Range(popped) /\ ~keep THEN Blank ELSE t.sym[i]]
PopFrom(t, st, b, keep, top) ==
    LET popped == SubSeq(t.stack[st], b + 1, Len(t.stack[st]))
        rest == IF keep THEN t.stack[st] ELSE SubSeq(t.stack[st], 1, b)
    IN [sym |-> Freeing(t, popped, keep), stack |-> [t.stack EXCEPT ![st] = rest],
        head |-> Unlinked(t, popped, top)]

\* mutants: the symbols are popped from the lowest up; the symbols of a statement
\* expression stay in their chains
PopUp(t, st, b, keep) == PopFrom(t, st, b, keep, FALSE)
PopKeeps(t, st, b, keep) == IF keep THEN t ELSE PopFrom(t, st, b, keep, TRUE)

Pop(t, st, b, keep) == PopFrom(t, st, b, keep, TRUE)

\* A label of them that is used and not defined is an error
UndefinedLabel(t, st, b) ==
    \E i \in b + 1 .. Len(t.stack[st]) : t.sym[t.stack[st][i]].r = "forward"
-----------------------------------------------------------------------------
(* The parser *)

\* s, l: the tops of the local stacks when the block began; done: a for has its body
Frame(keep, loop) ==
    [keep |-> keep, loop |-> loop, done |-> FALSE,
     s |-> Len(tab.stack["local"]), l |-> Len(tab.stack["local_label"])]

Init ==
    /\ dialect \in Dialects
    /\ tab = NoTable /\ local_scope = 0 /\ ctx = <<>> /\ gone = {} /\ msg = ""

\* tcc_error() in state t of the tables: tcc_compile() pops the symbols, and either
\* the process exits or it compiles another string
Error(why, t) ==
    /\ msg' = why
    /\ ctx' = <<>>
    /\ IF dialect.session
       THEN /\ tab' = Pop(Pop(t, "global", 0, FALSE), "local", 0, FALSE)
            /\ gone' = gone \cap On(tab')
            /\ UNCHANGED local_scope
       ELSE tab' = NoTable /\ gone' = {} /\ local_scope' = 0

SyntaxError == Error("syntax", tab)

EndFile ==
    /\ ctx = <<>>
    /\ tab' = Pop(Pop(tab, "global", 0, FALSE), "local", 0, FALSE)
    /\ msg' = ""
    /\ UNCHANGED <<local_scope, ctx, gone>>

Ready(sp) == sp \in dialect.spaces /\ (ctx # <<>> => ~Last(ctx).done) /\ Room(tab, 1)
InFunction == ctx # <<>>
Quiet == msg' = "" /\ UNCHANGED <<local_scope, ctx, gone>>

\* sym_push() and its check; only automatic variables and tags keep their scope:
\* that of the others is overwritten, or shares its place with something else
Push(s, scoped) ==
    IF Redeclares(s) THEN Error("redeclaration", sym_push(tab, s, local_scope))
    ELSE tab' = sym_push(tab, s, IF scoped THEN local_scope ELSE 0) /\ Quiet

\* A variable; in the file only one that is not declared yet is pushed
Variable ==
    /\ Ready("ident")
    /\ \E v \in dialect.names, static \in BOOLEAN :
          /\ InFunction \/ sym_find(v) = NULL
          /\ IF InFunction /\ ~static THEN Push(Sym(v, "ident", "auto"), TRUE)
             ELSE Push(Sym(v, "ident", ""), FALSE)

Typedef ==
    /\ Ready("ident")
    /\ \E v \in dialect.names :
          LET s == sym_find(v)
          IN IF s # NULL /\ tab.sym[s].sym_scope = local_scope
             THEN tab.sym[s].r # "typedef" /\ Error("redeclaration", tab)
             ELSE Push(Sym(v, "ident", "typedef"), FALSE)

Enumerator ==
    /\ Ready("ident")
    /\ \E v \in dialect.names :
          IF sym_find(v) # NULL /\ ~InFunction THEN Error("redeclaration", tab)
          ELSE Push(Sym(v, "ident", ""), FALSE)

\* A prototype or an extern variable
External ==
    /\ Ready("ident")
    /\ \E v \in dialect.names :
          sym_find(v) = NULL /\ Push(Sym(v, "ident", ""), FALSE)

\* After ({...}), a name that had a declaration in it
Kept(sp, v) == \E i \in gone : tab.sym[i].v = v /\ tab.sym[i].sp = sp

\* A call of a function that is not declared, or the definition of one
Function ==
    /\ Ready("ident")
    /\ \E v \in dialect.names :
          /\ sym_find(v) = NULL
          /\ Kept("ident", v) => dialect.reuse
          /\ tab' = global_identifier_push(tab, Sym(v, "ident", ""))
    /\ Quiet

\* struct v, or struct v { ... }
Tag ==
    /\ Ready("struct")
    /\ \E v \in dialect.names, body \in BOOLEAN :
          LET s == struct_find(v)
              old == s # NULL /\ (tab.sym[s].sym_scope = local_scope \/ ~body)
          IN CASE old /\ body /\ tab.sym[s].r = "complete" -> Error("redeclaration", tab)
               [] old /\ body /\ tab.sym[s].r # "complete" ->
                      tab' = [tab EXCEPT !.sym[s].r = "complete"] /\ Quiet
               [] ~old -> Push(Sym(v, "struct", IF body THEN "complete" ELSE ""), TRUE)
               [] OTHER -> FALSE

\* goto v, or && v
Goto ==
    /\ InFunction /\ Ready("label")
    /\ \E v \in dialect.names :
          LET s == label_find(v)
          IN IF s = NULL
             THEN /\ Kept("label", v) => dialect.reuse
                  /\ tab' = label_push(tab, "global_label", Sym(v, "label", "forward"))
             ELSE tab.sym[s].r = "declared" /\ tab' = [tab EXCEPT !.sym[s].r = "forward"]
    /\ Quiet

Label ==
    /\ InFunction /\ Ready("label")
    /\ \E v \in dialect.names :
          LET s == label_find(v)
          IN CASE s = NULL ->
                      /\ Kept("label", v) => dialect.reuse
                      /\ tab' = label_push(tab, "global_label", Sym(v, "label", "defined"))
                      /\ Quiet
               [] s # NULL /\ tab.sym[s].r = "defined" -> Error("duplicate label", tab)
               [] s # NULL /\ tab.sym[s].r # "defined" ->
                      tab' = [tab EXCEPT !.sym[s].r = "defined"] /\ Quiet

-----------------------------------------------------------------------------
(* Functions and blocks *)

\* __label__
LabelSets == IF "label" \in dialect.spaces THEN SUBSET dialect.names ELSE {{}}
DeclareLabels(t, L) ==
    ForEach(LAMBDA u, v : label_push(u, "local_label", Sym(v, "label", "declared")),
            t, SetToSeq(L))

\* gen_function() up to the body: a dummy symbol directs sym_push() to the local stack
Parameters(t, P) ==
    ForEach(LAMBDA u, v : sym_push(u, Sym(v, "ident", "auto"), 1),
            sym_push2(t, "local", Blank), SetToSeq(P))
BeginFunction ==
    /\ ctx = <<>>
    /\ \E P \in SUBSET (IF "ident" \in dialect.spaces THEN dialect.names ELSE {}), L \in LabelSets :
          /\ Room(tab, 1 + Cardinality(P) + Cardinality(L))
          /\ tab' = DeclareLabels(Parameters(tab, P), L)
    /\ ctx' = <<Frame(FALSE, FALSE)>>
    /\ local_scope' = 1
    /\ msg' = ""
    /\ UNCHANGED gone

\* { or ({; a { directly in a ({...}) is also kept
Inner(keep, loop) ==
    /\ InFunction /\ ~Last(ctx).done /\ Len(ctx) < MaxDepth
    /\ ctx' = Append(IF Last(ctx).loop /\ ~keep THEN [ctx EXCEPT ![Len(ctx)].done = TRUE] ELSE ctx,
                     Frame(keep, loop))
    /\ local_scope' = local_scope + 1
    /\ msg' = ""
    /\ UNCHANGED gone
BeginBlock ==
    \E keep \in BOOLEAN, L \in LabelSets :
        /\ Inner(keep, FALSE)
        /\ Room(tab, Cardinality(L))
        /\ tab' = DeclareLabels(tab, L)
BeginFor == Inner(FALSE, TRUE) /\ UNCHANGED tab

Above(st, b) == Range(SubSeq(tab.stack[st], b + 1, Len(tab.stack[st])))
EndBlock ==
    /\ Len(ctx) > 1 /\ ~Last(ctx).loop
    /\ LET f == Last(ctx)
       IN IF UndefinedLabel(tab, "local_label", f.l) THEN Error("undefined label", tab)
          ELSE /\ tab' = Pop(Pop(tab, "local_label", f.l, f.keep), "local", f.s, f.keep)
               /\ gone' = IF f.keep THEN gone \cup Above("local", f.s) \cup Above("local_label", f.l)
                          ELSE gone \cap On(tab')
               /\ local_scope' = local_scope - 1
               /\ ctx' = Front(ctx)
               /\ msg' = ""

\* mutant: the scope of the loop is not left
EndForStays ==
    /\ InFunction /\ Last(ctx).loop
    /\ tab' = Pop(tab, "local", Last(ctx).s, FALSE)
    /\ gone' = gone \cap On(tab')
    /\ ctx' = Front(ctx)
    /\ msg' = ""
    /\ UNCHANGED local_scope

EndFor ==
    /\ InFunction /\ Last(ctx).loop
    /\ tab' = Pop(tab, "local", Last(ctx).s, FALSE)
    /\ gone' = gone \cap On(tab')
    /\ local_scope' = local_scope - 1
    /\ ctx' = Front(ctx)
    /\ msg' = ""

\* The body ends, and with it the function
EndFunction ==
    /\ Len(ctx) = 1
    /\ IF UndefinedLabel(tab, "local_label", 0) \/ UndefinedLabel(tab, "global_label", 0)
       THEN Error("undefined label", tab)
       ELSE /\ tab' = Pop(Pop(Pop(tab, "local_label", 0, FALSE), "global_label", 0, FALSE),
                          "local", 0, FALSE)
            /\ gone' = gone \cap On(tab')
            /\ local_scope' = 0
            /\ ctx' = <<>>
            /\ msg' = ""

Next ==
    /\ \/ SyntaxError \/ EndFile
       \/ Variable \/ Typedef \/ Enumerator \/ External \/ Function \/ Tag \/ Goto \/ Label
       \/ BeginFunction \/ BeginBlock \/ BeginFor \/ EndBlock \/ EndFor \/ EndFunction
    /\ UNCHANGED dialect

Spec == Init /\ [][Next]_vars

-----------------------------------------------------------------------------
(* Correctness *)

SymType ==
    [v : Names \cup {""}, sp : Spaces, prev_tok : Syms \cup {NULL}, sym_scope : 0 .. MaxDepth,
     r : {"", "auto", "typedef", "complete", "declared", "forward", "defined"}]
TypeOK ==
    /\ tab.sym \in [Syms -> SymType]
    /\ tab.stack \in [Stacks -> Seq(Syms)]
    /\ tab.head \in [Spaces -> [Names -> Syms \cup {NULL}]]
    /\ local_scope = Len(ctx) /\ Len(ctx) <= MaxDepth
    /\ gone \subseteq Above("local", 0) \cup Above("local_label", 0)

\* "do remove them from the token array" (sym_pop): no name leads to a symbol that
\* has been popped, whatever the order in which the four stacks are emptied.
LiveOnly ==
    \A sp \in Spaces, v \in Names : \A i \in Chain(tab, sp, v) :
        i \in On(tab) /\ tab.sym[i].v = v /\ tab.sym[i].sp = sp

\* "so that sym_identifier will point to 's' when popped" (label_push, and
\* global_identifier_push): a symbol of a global stack, which may be pushed while
\* local ones of its name are in scope, is found as soon as these are gone.
GlobalReappears ==
    \A st \in {"global", "global_label"} : \A i \in Above(st, 0) :
        i \in Chain(tab, tab.sym[i].sp, tab.sym[i].v)

\* One name is not declared twice in the same scope, even when other declarations,
\* blocks and statement expressions come between: sym_push() compares the number
\* of the scope with that of the one symbol that it hides.
NoDuplicates ==
    \A k \in DOMAIN ctx :
        LET end == IF k = Len(ctx) THEN Len(tab.stack["local"]) ELSE ctx[k + 1].s
            here == {tab.stack["local"][i] : i \in ctx[k].s + 1 .. end} \ gone
        IN \A i, j \in here : tab.sym[i].v = tab.sym[j].v /\ tab.sym[i].r = "auto"
                              /\ tab.sym[j].r = "auto" => i = j

\* The last of the symbols from b + 1 to e of stack st that declares v and is in scope
LastOn(st, b, e, sp, v) ==
    LET here == {p \in b + 1 .. e : LET i == tab.stack[st][p] IN
                    i \notin gone /\ tab.sym[i].v = v /\ tab.sym[i].sp = sp}
    IN IF here = {} THEN NULL ELSE tab.stack[st][Max(here)]

\* The scopes that the stacks stand for: scope k is that of frame k - 1, and has
\* the symbols of a global stack if k is the scope of these
Declared(k, sp, v) ==
    LET local == IF sp = "label" THEN "local_label" ELSE "local"
        global == IF sp = "label" THEN "global_label" ELSE "global"
        Begin(f) == IF sp = "label" THEN f.l ELSE f.s
        inner == IF k = 1 THEN NULL
                 ELSE LastOn(local, Begin(ctx[k - 1]),
                             IF k - 1 = Len(ctx) THEN Len(tab.stack[local]) ELSE Begin(ctx[k]), sp, v)
    IN IF inner = NULL /\ k = (IF sp = "label" THEN 2 ELSE 1)
       THEN LastOn(global, 0, Len(tab.stack[global]), sp, v) ELSE inner
OpenScopes ==
    [k \in 1 .. Len(ctx) + 1 |-> [sp \in Spaces |-> [v \in Names |-> Declared(k, sp, v)]]]
Labels(r) == {i \in On(tab) \ gone : tab.sym[i].sp = "label" /\ tab.sym[i].r = r}

\* The tables do what Environment promises: a name means the innermost declaration
\* in scope, and a program is refused only for what it does.
Env == INSTANCE Environment WITH
    Decls <- Syms, None <- NULL,
    scopes <- OpenScopes,
    used <- Labels("forward"),
    defined <- Labels("defined"),
    means <- tab.head,
    refused <- msg
ScopesNest == Env!EnvSpec
=============================================================================
