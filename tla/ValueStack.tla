----------------------------- MODULE ValueStack -----------------------------
(***************************************************************************)
(* The expression parser of tccgen.c driving the code generator.  Any      *)
(* token that the grammar allows may come next; the parser's C call stack  *)
(* is ctx, a sequence of frames with the local variables that live across  *)
(* the parsing of an operand.                                              *)
(*                                                                         *)
(* Beside the code generator runs the language: src.stack has the value of *)
(* each pending expression on every input (or the object, for an lvalue),  *)
(* src.mem the variables, and src.act the inputs on which the expression   *)
(* being parsed is evaluated at all.  C leaves it open when an lvalue is   *)
(* read between two sequence points; here it is read when its value is     *)
(* needed, as TinyCC does.                                                 *)
(***************************************************************************)
EXTENDS CodeGen

CONSTANTS
    Inputs,       \* a sequence of initial contents of the variables
    Languages     \* what functions may be made of, see below

\* A language: the variables and constants that may be named, the tokens, bounds
\* on the length of a function and on the arguments of a call, whether arguments
\* may be of a type that is passed in memory, and whether ({...}) may follow a
\* pending comparison or jump
Language == [vars : SUBSET Word, consts : SUBSET Word, tokens : SUBSET STRING, len : Nat,
             args : Nat, wide : BOOLEAN, lazy : BOOLEAN]

ASSUME ValueStackAssumption ==
    /\ \A i \in DOMAIN Inputs : Inputs[i] \in [Word -> Word]
    /\ Languages \subseteq Language

VARIABLES
    lang,    \* the language of the program
    cg,      \* the state of the code generator and of the machines
    src,     \* the source program's own semantics
    ctx,     \* the frames of the parser
    need,    \* what comes next: "stmt", "operand", or "after" a complete operand
    toks     \* the number of tokens read

vars == <<lang, cg, src, ctx, need, toks>>

Paths == DOMAIN Inputs

-----------------------------------------------------------------------------
(* The language *)

Value(kind, den, live) == [kind |-> kind, den |-> den, live |-> live]
SPush(s, v) == [s EXCEPT !.stack = Append(@, v)]
SPop(s)     == [s EXCEPT !.stack = Front(@)]
STop(s)     == Last(s.stack)
STop1(s)    == s.stack[Len(s.stack) - 1]

\* The value of an operand on each input where it has one
Rvalue(s, v) ==
    [k \in Paths |-> IF k \in v.live /\ v.kind = "loc" THEN s.mem[k][v.den[k]] ELSE v.den[k]]
True(s) == LET v == Rvalue(s, STop(s)) IN {k \in s.act : v[k] # 0}
Result(s, kind, Val(_)) ==
    Value(kind, [k \in Paths |-> IF k \in s.act THEN Val(k) ELSE 0], s.act)
Void(s) == Result(s, "void", LAMBDA k : 0)

Assigned(s, v, Val(_)) ==
    [s EXCEPT !.mem = [k \in Paths |-> IF k \in s.act
                                       THEN [s.mem[k] EXCEPT ![v.den[k]] = Val(k)]
                                       ELSE s.mem[k]]]

SBinary(s, op) ==
    LET x == Rvalue(s, STop1(s))
        y == Rvalue(s, STop(s))
    IN SPush(SPop(SPop(s)), Result(s, IF op \in Comparisons THEN "bool" ELSE "val",
                                   LAMBDA k : Alu(op, x[k], y[k])))
SAssign(s) ==
    LET y == Rvalue(s, STop(s))
    IN SPush(SPop(SPop(Assigned(s, STop1(s), LAMBDA k : y[k]))),
             Result(s, "val", LAMBDA k : y[k]))

-----------------------------------------------------------------------------
(* Frames: op is the operator, t, u and sv are local variables of the      *)
(* parsing function, c the constant condition or -1; val and act are the   *)
(* source value that goes with sv and the inputs on which the whole        *)
(* expression is evaluated.                                                *)

Frame(k, op) ==
    [k |-> k, op |-> op, t |-> {}, u |-> {}, c |-> -1, dead |-> FALSE, sv |-> Const(0),
     val |-> Void(src), act |-> src.act, n |-> 0, i |-> 1, wide |-> {}]
Top(k) == ctx # <<>> /\ Last(ctx).k = k
Enter(f) == ctx' = Append(ctx, f)
Leave == ctx' = Front(ctx)
Become(f) == ctx' = Append(Front(ctx), f)

\* In ({...}) the value of the last statement is kept on the stack
IsExpr == Top("block")

\* The length of a function is counted without its operands, which can then
\* always follow the token that calls for them
Read1(t) == t \in lang.tokens /\ toks < lang.len /\ toks' = toks + 1

Machine0(k) ==
    [reg |-> [r \in RC_INT |-> Junk],
     mem |-> [a \in -MaxTemps .. N - 1 |-> IF a >= 0 THEN Inputs[k][a] ELSE Junk],
     fl |-> NoFlags, at |-> 0, arg |-> [i \in 1 .. REGN |-> Junk], stk |-> <<>>, got |-> <<>>]

\* gen_function(): nothing is on the value stack
Code0 == [vs |-> <<>>, nocode |-> 0, loc |-> 0, ind |-> 0, open |-> {},
          m |-> [k \in Paths |-> Machine0(k)], buried |-> FALSE]
Source0 == [stack |-> <<>>, mem |-> Inputs, act |-> Paths, want |-> [k \in Paths |-> <<>>]]

Init ==
    /\ lang \in Languages
    /\ cg = Code0
    /\ src = Source0
    /\ ctx = <<>>
    /\ need = "stmt"
    /\ toks = 0

-----------------------------------------------------------------------------
(* Operands *)

PushConst ==
    /\ need = "operand" /\ "const" \in lang.tokens
    /\ \E c \in lang.consts :
          /\ cg' = vsetc(cg, Const(c))
          /\ src' = SPush(src, Result(src, "val", LAMBDA k : c))
    /\ need' = "after"
    /\ UNCHANGED <<ctx, toks>>

PushVar ==
    /\ need = "operand" /\ "var" \in lang.tokens
    /\ \E v \in lang.vars :
          /\ cg' = vsetc(cg, Local(v))
          /\ src' = SPush(src, Result(src, "loc", LAMBDA k : v))
    /\ need' = "after"
    /\ UNCHANGED <<ctx, toks>>

\* *e; the result of a comparison is not a pointer
Deref ==
    /\ need = "after" /\ STop(src).kind # "bool" /\ Read1("deref")
    /\ cg' = indir(cg)
    /\ LET v == Rvalue(src, STop(src))
       IN src' = SPush(SPop(src), Result(src, "loc", LAMBDA k : v[k]))
    /\ UNCHANGED <<ctx, need>>

\* &e
AddressOf ==
    /\ need = "after" /\ STop(src).kind = "loc" /\ Read1("addr")
    /\ cg' = gaddrof(cg)
    /\ src' = SPush(SPop(src), [STop(src) EXCEPT !.kind = "val"])
    /\ UNCHANGED <<ctx, need>>

\* e++ and ++e
Increment ==
    /\ need = "after" /\ STop(src).kind = "loc"
    /\ \E post \in BOOLEAN :
          LET old == Rvalue(src, STop(src))
              New(k) == Alu("+", old[k], 1)
          IN /\ Read1(IF post THEN "post++" ELSE "++")
             /\ cg' = inc(cg, post)
             /\ src' = SPush(SPop(Assigned(src, STop(src), New)),
                             Result(src, "val", LAMBDA k : IF post THEN old[k] ELSE New(k)))
    /\ UNCHANGED <<ctx, need>>

\* !e
NotJump(g) == vsetc(g.s, Jump("jmp", g.t))
Negate(s) ==
    CASE IsConst(vtop(s)) -> SetTop(s, Const(IF vtop(s).c = 0 THEN 1 ELSE 0))
      [] vtop(s).r = "cmp" -> SetTop(s, Flags(Opposite(vtop(s).op)))
      [] OTHER -> NotJump(gvtst(save_regs(s, 1), 1, {}))
Not ==
    /\ need = "after" /\ Read1("!")
    /\ cg' = Negate(cg)
    /\ src' = SPush(SPop(src), Result(src, "bool", LAMBDA k : IF k \in True(src) THEN 0 ELSE 1))
    /\ UNCHANGED <<ctx, need>>

-----------------------------------------------------------------------------
(* Binary operators and assignments *)

Binary ==
    /\ need = "after"
    /\ \E op \in {"+", "-", "*", "<<", "/", "%", "<", "=="} : Read1(op) /\ Enter(Frame("bin", op))
    /\ need' = "operand"
    /\ UNCHANGED <<cg, src>>

DividesByZero ==
    /\ Last(ctx).op \in {"/", "%"}
    /\ \E k \in src.act : Rvalue(src, STop(src))[k] = 0

EndBinary ==
    /\ need = "after" /\ Top("bin") /\ ~DividesByZero
    /\ LET op == Last(ctx).op
       IN /\ cg' = gen_op(cg, op)
          /\ src' = SBinary(src, op)
    /\ Leave
    /\ UNCHANGED <<need, toks>>

Assign ==
    /\ need = "after" /\ STop(src).kind = "loc" /\ Read1("=")
    /\ Enter(Frame("assign", "="))
    /\ need' = "operand"
    /\ UNCHANGED <<cg, src>>

EndAssign ==
    /\ need = "after" /\ Top("assign")
    /\ cg' = vstore(cg)
    /\ src' = SAssign(src)
    /\ Leave
    /\ UNCHANGED <<need, toks>>

\* e += ...
OpAssign ==
    /\ need = "after" /\ STop(src).kind = "loc" /\ Read1("+=")
    /\ Enter(Frame("opassign", "+"))
    /\ cg' = vdup(cg)
    /\ src' = SPush(src, STop(src))
    /\ need' = "operand"

EndOpAssign ==
    /\ need = "after" /\ Top("opassign")
    /\ cg' = vstore(gen_op(cg, Last(ctx).op))
    /\ src' = SAssign(SBinary(src, Last(ctx).op))
    /\ Leave
    /\ UNCHANGED <<need, toks>>

\* The left operand of a comma is dropped
Comma ==
    /\ need = "after" /\ Read1(",")
    /\ cg' = vpop(cg)
    /\ src' = SPop(src)
    /\ need' = "operand"
    /\ UNCHANGED ctx

-----------------------------------------------------------------------------
(* expr_land() and expr_lor().  An operand that decides the result at      *)
(* compile time stays on the stack as that result, and the rest is parsed  *)
(* without generating code.                                                *)

Decides(f) == IF f.op = "&&" THEN 0 ELSE 1

Tested(g, f) == [s |-> g.s, f |-> [f EXCEPT !.t = g.t]]
LogicOperand(s, f) ==
    LET stops == (IF vtop(s).c = 0 THEN 0 ELSE 1) = Decides(f)
    IN CASE f.dead \/ (IsConst(vtop(s)) /\ ~stops) -> [s |-> vpop(s), f |-> f]
         [] ~f.dead /\ IsConst(vtop(s)) /\ stops ->
                [s |-> [SetTop(s, Const(Decides(f))) EXCEPT !.nocode = @ + 1],
                 f |-> [f EXCEPT !.dead = TRUE]]
         [] OTHER -> Tested(gvtst(IF f.t = {} THEN save_regs(s, 1) ELSE s, 1 - Decides(f), f.t), f)

\* mutant: the jumps of the operands before the constant are forgotten
LogicEndForgets(s, f) ==
    IF f.dead THEN [s EXCEPT !.nocode = @ - 1]
    ELSE vsetc(s, IF f.t = {} THEN Const(1 - Decides(f))
                  ELSE Jump(IF f.op = "&&" THEN "jmpi" ELSE "jmp", f.t))

LogicEnd(s, f) ==
    IF f.dead THEN gsym([s EXCEPT !.nocode = @ - 1], f.t)
    ELSE vsetc(s, IF f.t = {} THEN Const(1 - Decides(f))
                  ELSE Jump(IF f.op = "&&" THEN "jmpi" ELSE "jmp", f.t))

\* The inputs on which the operands so far leave the result open
Undecided(s, f) == IF f.op = "&&" THEN True(s) ELSE s.act \ True(s)
Decided(f) == Value("bool", [k \in Paths |-> IF k \in f.act THEN Decides(f) ELSE 0], f.act)
SOperand(s, f, f1) ==
    IF f1.dead /\ ~f.dead
    THEN [SPush(SPop(s), Decided(f)) EXCEPT !.act = Undecided(s, f)]
    ELSE [SPop(s) EXCEPT !.act = Undecided(s, f)]

\* && or || after an operand; f is the frame so far, step what its last operand does
Continue(f, more, step) ==
    /\ cg' = step.s
    /\ src' = SOperand(src, f, step.f)
    /\ IF more THEN Become(step.f) ELSE Enter(step.f)
Logic ==
    /\ need = "after"
    /\ \E op \in {"&&", "||"} :
          LET more == Top("logic") /\ Last(ctx).op = op
              f == IF more THEN Last(ctx) ELSE Frame("logic", op)
          IN Read1(op) /\ Continue(f, more, LogicOperand(cg, f))
    /\ need' = "operand"

\* The value of the whole expression
SLogic(f) ==
    LET open == Undecided(src, f)
    IN Value("bool", [k \in Paths |-> IF k \notin f.act THEN 0
                                      ELSE IF k \in open THEN 1 - Decides(f) ELSE Decides(f)], f.act)
Finish(f, step) ==
    LET last == SOperand(src, f, step.f)
    IN /\ cg' = LogicEnd(step.s, step.f)
       /\ src' = [SPush(IF step.f.dead THEN SPop(last) ELSE last, SLogic(f)) EXCEPT !.act = f.act]
EndLogic ==
    /\ need = "after" /\ Top("logic")
    /\ Finish(Last(ctx), LogicOperand(cg, Last(ctx)))
    /\ Leave
    /\ UNCHANGED <<need, toks>>

-----------------------------------------------------------------------------
(* expr_cond() *)

condition_3way(e) == IF ~IsConst(e) THEN -1 ELSE IF e.c = 0 THEN 0 ELSE 1

\* A condition is complete: g is the test of it, and what depends on it follows
Guarded(outer, f, g) ==
    /\ cg' = IF f.c = 0 THEN [g.s EXCEPT !.nocode = @ + 1] ELSE g.s
    /\ ctx' = Append(outer, [f EXCEPT !.t = g.t])
    /\ src' = [SPop(src) EXCEPT !.act = True(src)]

Question ==
    /\ need = "after" /\ Read1("?")
    /\ LET c == condition_3way(vtop(cg))
       IN Guarded(ctx, [Frame("cond1", "?") EXCEPT !.c = c],
                  IF c < 0 THEN gvtst(save_regs(gv(cg, RC_INT), 1), 1, {})
                  ELSE [s |-> vpop(cg), t |-> {}])
    /\ need' = "operand"

Colon ==
    /\ need = "after" /\ Top("cond1")
    /\ LET f == Last(ctx)
           j == IF f.c < 0 THEN gjmp(Drop(cg), {}) ELSE [s |-> Drop(cg), t |-> {}]
       IN /\ cg' = [gsym(j.s, f.t) EXCEPT
                       !.nocode = IF f.c = 0 THEN @ - 1 ELSE IF f.c = 1 THEN @ + 1 ELSE @]
          /\ Become([f EXCEPT !.k = "cond2", !.t = {}, !.u = j.t, !.sv = vtop(cg),
                              !.val = STop(src)])
          /\ src' = [SPop(src) EXCEPT !.act = f.act \ @]
    /\ need' = "operand"
    /\ UNCHANGED toks

\* Both values end up in the register of the second one
SameRegister(s, r2) == SetTop(move_reg(s, r2, vtop(s).r), InReg(r2))
FirstValue(f, r2, j) == gsym(SameRegister(gv(SetTop(gsym(j.s, f.u), f.sv), RC_INT), r2), j.t)
SecondValue(f, s) == FirstValue(f, vtop(s).r, gjmp(s, {}))
CondJoin(s, f) == SecondValue(f, gv(s, RC_INT))

EndCond ==
    /\ need = "after" /\ Top("cond2")
    /\ LET f == Last(ctx)
           x == Rvalue(src, f.val)
           y == Rvalue(src, STop(src))
           whole == [SPop(src) EXCEPT !.act = f.act]
       IN /\ cg' = CASE f.c < 0 -> CondJoin(cg, f)
                     [] f.c = 0 -> cg
                     [] f.c = 1 -> SetTop([cg EXCEPT !.nocode = @ - 1], f.sv)
          /\ src' = SPush(whole,
                        CASE f.c < 0 -> Result(whole, "val", LAMBDA k :
                                            IF k \in f.val.live THEN x[k] ELSE y[k])
                          [] f.c = 0 -> STop(src)
                          [] f.c = 1 -> f.val)
    /\ Leave
    /\ UNCHANGED <<need, toks>>

-----------------------------------------------------------------------------
(* Calls *)

\* f(); f is a function that the code has to preserve nothing for
CallNoArgs ==
    /\ need = "operand" /\ Read1("call0")
    /\ cg' = vsetc(gfunc_call(vsetc(cg, FuncSym), 0, {}, {}), InReg(REG_IRET))
    /\ src' = [SPush(src, Result(src, "val", LAMBDA k : Callee(<<>>)))
               EXCEPT !.want = [k \in Paths |-> IF k \in src.act THEN <<>> ELSE @[k]]]
    /\ need' = "after"
    /\ UNCHANGED ctx

Call ==
    /\ need = "operand" /\ Read1("call")
    /\ \E n \in 1 .. lang.args : Enter([Frame("call", "") EXCEPT !.n = n])
    /\ cg' = vsetc(cg, FuncSym)
    /\ src' = SPush(src, Void(src))
    /\ need' = "operand"

\* The arguments of wide types so far; one of them is a variable here
Wide(f) ==
    LET variable == vtop(cg).r = "local" /\ STop(src).kind = "loc"
    IN {f.wide} \cup IF lang.wide /\ variable THEN {f.wide \cup {f.i}} ELSE {}

NextArg ==
    /\ need = "after" /\ Top("call") /\ Last(ctx).i < Last(ctx).n
    /\ \E wide \in Wide(Last(ctx)) : Become([Last(ctx) EXCEPT !.i = @ + 1, !.wide = wide])
    /\ need' = "operand"
    /\ UNCHANGED <<cg, src, toks>>

EndCall ==
    /\ need = "after" /\ Top("call") /\ Last(ctx).i = Last(ctx).n
    /\ \E wide \in Wide(Last(ctx)) :
       LET f == Last(ctx)
           d == Len(src.stack) - f.n
           arg == [p \in 1 .. f.n |-> Rvalue(src, src.stack[d + p])]
           args == [k \in Paths |-> [p \in 1 .. f.n |-> arg[p][k]]]
           onstack == wide \cup {p \in 1 .. f.n : Rank((1 .. f.n) \ wide, p) > REGN}
           rest == [src EXCEPT !.stack = SubSeq(@, 1, d - 1),
                               !.want = [k \in Paths |-> IF k \in src.act THEN args[k] ELSE @[k]]]
       IN /\ cg' = vsetc(gfunc_call(cg, f.n, onstack, wide), InReg(REG_IRET))
          /\ src' = SPush(rest, Result(src, "val", LAMBDA k : Callee(args[k])))
    /\ Leave
    /\ UNCHANGED <<need, toks>>

-----------------------------------------------------------------------------
(* Statements.  In ({...}) block() pushes a void value for each statement, *)
(* which replaces the value of the one before.                             *)

NewStatement(s) == IF IsExpr THEN vsetc(vpop(s), Const(0)) ELSE s
SNewStatement(s) == IF IsExpr THEN SPush(SPop(s), Void(s)) ELSE s

\* ({...}) needs an expression for its value, which is always at hand
Expression ==
    /\ need = "stmt"
    /\ IF IsExpr /\ STop(src).kind = "void" THEN "stmt" \in lang.tokens /\ UNCHANGED toks
       ELSE Read1("stmt")
    /\ cg' = IF IsExpr THEN vpop(NewStatement(cg)) ELSE cg
    /\ src' = IF IsExpr THEN SPop(src) ELSE src
    /\ Enter(Frame("expr", ""))
    /\ need' = "operand"

EndExpression ==
    /\ need = "after" /\ Top("expr")
    /\ LET kept == Len(ctx) > 1 /\ ctx[Len(ctx) - 1].k = "block"
       IN /\ cg' = IF kept THEN cg ELSE vpop(cg)
          /\ src' = IF kept THEN src ELSE SPop(src)
    /\ Leave
    /\ need' = "stmt"
    /\ UNCHANGED toks

If ==
    /\ need = "stmt" /\ Read1("if")
    /\ cg' = NewStatement(cg)
    /\ src' = SNewStatement(src)
    /\ Enter(Frame("if", ""))
    /\ need' = "operand"

\* The condition is complete; the statement that depends on it follows
Then ==
    /\ need = "after" /\ Top("if")
    /\ LET c == condition_3way(vtop(cg))
       IN Guarded(Front(ctx), [Frame("then", "") EXCEPT !.c = c],
                  IF c = 1 THEN [s |-> vpop(cg), t |-> {}] ELSE gvtst(cg, 1, {}))
    /\ need' = "operand"
    /\ UNCHANGED toks

EndThen ==
    /\ need = "after" /\ Top("then")
    /\ LET f == Last(ctx)
           s == vpop(cg)
       IN cg' = gsym([s EXCEPT !.nocode = IF f.c = 0 THEN @ - 1 ELSE @], f.t)
    /\ src' = [SPop(src) EXCEPT !.act = Last(ctx).act]
    /\ Leave
    /\ need' = "stmt"
    /\ UNCHANGED toks

Else ==
    /\ need = "after" /\ Top("then") /\ Read1("else")
    /\ LET f == Last(ctx)
           s == vpop(cg)
           d == gjmp([s EXCEPT !.nocode = IF f.c = 0 THEN @ - 1 ELSE @], {})
       IN /\ cg' = [gsym(d.s, f.t) EXCEPT !.nocode = IF f.c = 1 THEN @ + 1 ELSE @]
          /\ Become([f EXCEPT !.k = "else", !.t = d.t])
          /\ src' = [SPop(src) EXCEPT !.act = f.act \ @]
    /\ need' = "operand"

EndElse ==
    /\ need = "after" /\ Top("else")
    /\ LET f == Last(ctx)
           s == gsym(vpop(cg), f.t)
       IN cg' = [s EXCEPT !.nocode = IF f.c = 1 THEN @ - 1 ELSE @]
    /\ src' = [SPop(src) EXCEPT !.act = Last(ctx).act]
    /\ Leave
    /\ need' = "stmt"
    /\ UNCHANGED toks

\* ({ ... })
Block ==
    /\ need = "operand" /\ Read1("({")
    /\ Len(cg.vs) > 0 /\ vtop(cg).r \in Lazy => lang.lazy
    /\ cg' = vsetc(save_regs(cg, 0), Const(0))
    /\ src' = SPush(src, Void(src))
    /\ Enter(Frame("block", ""))
    /\ need' = "stmt"

EndBlock ==
    /\ need = "stmt" /\ Top("block") /\ STop(src).kind # "void"
    /\ need' = "after"
    /\ Leave
    /\ UNCHANGED <<cg, src, toks>>

\* The function ends and another one is compiled
EndFunction ==
    /\ need = "stmt" /\ ctx = <<>> /\ toks > 0
    /\ cg' = Code0
    /\ src' = Source0
    /\ need' = "stmt"
    /\ toks' = 0
    /\ UNCHANGED ctx

\* A program that divides by 0 has no meaning to preserve: it is not followed
Undefined ==
    /\ need = "after" /\ Top("bin") /\ DividesByZero
    /\ cg' = Code0
    /\ src' = Source0
    /\ ctx' = <<>>
    /\ need' = "stmt"
    /\ toks' = 0

-----------------------------------------------------------------------------
Step ==
    \/ PushConst \/ PushVar \/ Deref \/ AddressOf \/ Increment \/ Not
    \/ Binary \/ EndBinary \/ Assign \/ EndAssign \/ OpAssign \/ EndOpAssign \/ Comma
    \/ Logic \/ EndLogic \/ Question \/ Colon \/ EndCond
    \/ CallNoArgs \/ Call \/ NextArg \/ EndCall
    \/ Expression \/ EndExpression \/ If \/ Then \/ EndThen \/ Else \/ EndElse
    \/ Block \/ EndBlock \/ EndFunction \/ Undefined

\* A function has at most MaxTemps temporaries here
Next == Step /\ cg'.loc >= -MaxTemps /\ UNCHANGED lang

Spec == Init /\ [][Next]_vars

-----------------------------------------------------------------------------
(* Correctness *)

EntryType ==
    [r : RC_INT \cup Lazy \cup {"const", "sym", "local", "llocal"}, lval : BOOLEAN,
     c : -MaxTemps .. N - 1, op : Comparisons \cup {""}, t : SUBSET (1 .. cg.ind)]
MachineType ==
    [reg : [RC_INT -> Word \cup {Junk}], mem : [-MaxTemps .. N - 1 -> Word \cup {Junk}],
     fl : (Word \cup {Junk}) \X (Word \cup {Junk}), at : 0 .. cg.ind,
     arg : [1 .. REGN -> Word \cup {Junk}], stk : Seq(Word \cup {Junk}),
     got : Seq(Word \cup {Junk})]
TypeOK ==
    /\ cg.vs \in Seq(EntryType) /\ Len(cg.vs) = Len(src.stack)
    /\ cg.loc \in -MaxTemps .. 0 /\ cg.ind \in Nat /\ cg.nocode \in Nat
    /\ cg.open \subseteq 1 .. cg.ind
    /\ \A k \in Paths : cg.m[k] \in MachineType
    /\ src.act \subseteq Paths /\ \A k \in Paths : src.mem[k] \in [Word -> Word]
    /\ need \in {"stmt", "operand", "after"} /\ toks \in 0 .. lang.len

\* What entry e stands for on machine m agrees with the source value v on path k
Represents(e, v, k) ==
    LET m == cg.m[k]
        through == IF e.r = "jmp" THEN 0 ELSE 1
    IN CASE v.kind = "void" -> TRUE
         [] v.kind = "loc" -> e.lval /\ Base(m, e) = v.den[k]
         [] v.kind \in {"val", "bool"} /\ e.r \in Jmps ->
                v.den[k] = IF m.at \in e.t THEN 1 - through ELSE through
         [] v.kind \in {"val", "bool"} /\ e.r \notin Jmps -> Read(m, e) = v.den[k]

\* Whatever code is generated between the moment a value is pushed and the
\* moment it is used, and whichever path the program takes through it, the
\* stack entry still leads to that value: registers are not reused or
\* clobbered, and a value is saved on all the paths that will look for it.
Faithful ==
    /\ \A i \in DOMAIN cg.vs : \A k \in src.stack[i].live :
          Represents(cg.vs[i], src.stack[i], k)
    /\ \A i \in DOMAIN ctx : \A k \in ctx[i].val.live :
          ctx[i].k = "cond2" => Represents(ctx[i].sv, ctx[i].val, k)

\* The code runs on exactly the inputs on which the source evaluates what is
\* being parsed, and the jumps of a VT_JMP on the stack are taken on the others;
\* while no code is generated, nothing is to be evaluated.
PathsAgree ==
    src.act = IF cg.nocode # 0 THEN {}
              ELSE {k \in Paths : \/ cg.m[k].at = 0
                                  \/ \E i \in DOMAIN cg.vs : cg.m[k].at \in cg.vs[i].t}

\* Every forward jump whose target is unknown is in exactly one chain: it will
\* be patched, and only once.
JumpsHeld ==
    LET held == {<<"vs", i>> : i \in DOMAIN cg.vs} \cup {<<x, i>> : x \in {"t", "u", "sv"}, i \in DOMAIN ctx}
        Chain(h) == CASE h[1] = "vs" -> cg.vs[h[2]].t [] h[1] = "t" -> ctx[h[2]].t
                      [] h[1] = "u" -> ctx[h[2]].u [] h[1] = "sv" -> ctx[h[2]].sv.t
    IN /\ cg.open = UNION {Chain(h) : h \in held}
       /\ \A g, h \in held : g # h => Chain(g) \cap Chain(h) = {}

\* The variables have the values that the source program gives them, on every
\* path, also on those that skip the code being generated.
MemoryAgrees == \A k \in Paths : \A v \in Word : cg.m[k].mem[v] = src.mem[k][v]

\* A function that is called receives the arguments the source passes to it.
ArgumentsPassed == \A k \in Paths : cg.m[k].got = src.want[k]

\* "cannot let cpu flags if other instruction are generated. Also avoid leaving
\* VT_JMP anywhere except on the top of the stack" (vsetc): while code is
\* emitted no comparison and no pending jump is below the top of the stack.
LazyOnlyOnTop == ~cg.buried
=============================================================================
