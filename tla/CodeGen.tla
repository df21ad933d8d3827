------------------------------ MODULE CodeGen ------------------------------
(***************************************************************************)
(* The code generator of tccgen.c and x86_64-gen.c as operators on its     *)
(* state, for values of one integer type as wide as a pointer.             *)
(*                                                                         *)
(* TinyCC has no syntax tree: each function below both changes the value   *)
(* stack, which says where every pending value is, and emits code.  Here   *)
(* emitted code is executed at once, on one machine per input: a state is  *)
(*   vs     vstack[0..vtop]: r (vtop->r without VT_LVAL), lval (VT_LVAL),  *)
(*          c (c.i of constants and frame offsets), op (the comparison of  *)
(*          a VT_CMP), t (the chain of a VT_JMP or VT_JMPI)                *)
(*   nocode nocode_wanted: no code is emitted while it is not 0            *)
(*   loc    the offset of the last temporary allocated in the frame        *)
(*   ind    the number of jump instructions emitted so far                 *)
(*   open   the jumps whose target is not yet known                        *)
(*   m      the machines; at # 0 is the open jump that the path has taken  *)
(*   buried whether code was emitted while a VT_CMP or a VT_JMP was below  *)
(*          the top of the stack (a history variable)                      *)
(* A chain of jumps is a set; a frame offset of a variable is 0..N-1, that *)
(* of a temporary is negative.                                             *)
(***************************************************************************)
EXTENDS Integers, Sequences, FiniteSets, SequencesExt, Loops

CONSTANTS
    N,          \* machine words are 0..N-1, which is also the addresses of variables
    MaxTemps,   \* bound on the temporaries of a function
    REGN        \* integer arguments passed in registers (6 in the source)

ASSUME CodeGenAssumption == N \in Nat \ {0, 1} /\ MaxTemps \in Nat /\ REGN \in Nat

\* What a register holds that the code did not set
Junk == N
Word == 0 .. N - 1

\* RC_INT, in the order of their numbers, and the other classes used here
RegOrder == <<"rax", "rcx", "rdx">>
RC_INT == {"rax", "rcx", "rdx"}
REG_IRET == "rax"
Lowest(R) == RegOrder[CHOOSE i \in 1 .. 3 :
                 RegOrder[i] \in R /\ \A j \in 1 .. i - 1 : RegOrder[j] \notin R]

Jmps == {"jmp", "jmpi"}
Lazy == Jmps \cup {"cmp"}

-----------------------------------------------------------------------------
(* Stack entries *)

Entry(r, lval, c) == [r |-> r, lval |-> lval, c |-> c, op |-> "", t |-> {}]
Const(c)   == Entry("const", FALSE, c)
Local(c)   == Entry("local", TRUE, c)
InReg(r)   == Entry(r, FALSE, 0)
Flags(op)  == [Entry("cmp", FALSE, 0) EXCEPT !.op = op]
Jump(r, t) == [Entry(r, FALSE, 0) EXCEPT !.t = t]
FuncSym    == Entry("sym", FALSE, 0)

IsConst(e) == e.r = "const" /\ ~e.lval

vtop(s)  == s.vs[Len(s.vs)]
vtop1(s) == s.vs[Len(s.vs) - 1]
SetTop(s, e)  == [s EXCEPT !.vs = Append(Front(@), e)]
SetTop1(s, e) == [s EXCEPT !.vs = Front(Front(@)) \o <<e, Last(@)>>]
Drop(s) == [s EXCEPT !.vs = Front(s.vs)]       \* vtop--
Push(s, e) == [s EXCEPT !.vs = Append(s.vs, e)]

-----------------------------------------------------------------------------
(* The machine *)

\* Operations on machine words; what is computed from junk is junk
Holds(op, x, y) ==
    CASE op = "=="  -> x = y
      [] op = "!=" -> x # y
      [] op = "<"  -> x < y
      [] op = ">=" -> x >= y
Comparisons == {"==", "!=", "<", ">="}
Opposite(op) == CASE op = "==" -> "!=" [] op = "!=" -> "==" [] op = "<" -> ">=" [] op = ">=" -> "<"
Alu(op, x, y) ==
    CASE x = Junk \/ y = Junk -> Junk
      [] op = "+"  -> (x + y) % N
      [] op = "-"  -> (x - y) % N
      [] op = "*"  -> (x * y) % N
      [] op = "<<" -> (x * 2^y) % N
      [] op = ">>" -> x \div 2^y
      [] op = "/"  -> IF y = 0 THEN Junk ELSE x \div y
      [] op = "%"  -> IF y = 0 THEN Junk ELSE x % y
      [] op \in Comparisons -> IF Holds(op, x, y) THEN 1 ELSE 0

\* What the function called by the program returns
Callee(args) == FoldLeft(LAMBDA x, y : Alu("+", x, y), 1, args)

Peek(m, a) == IF a \in DOMAIN m.mem THEN m.mem[a] ELSE Junk
Base(m, e) ==      \* the address that an lvalue denotes
    CASE e.r \in {"local", "const"} -> e.c
      [] e.r = "llocal" -> Peek(m, e.c)
      [] e.r \in RC_INT -> m.reg[e.r]
Read(m, e) ==
    CASE e.lval -> Peek(m, Base(m, e))
      [] e.r \in {"const", "local"} -> e.c
      [] e.r \in RC_INT -> m.reg[e.r]
      [] e.r = "cmp" -> Alu(e.op, m.fl[1], m.fl[2])

NoFlags == <<Junk, Junk>>
SetReg(m, r, v) == [m EXCEPT !.reg[r] = v]
SetMem(m, a, v) == IF a \in DOMAIN m.mem THEN [m EXCEPT !.mem[a] = v] ELSE m
\* an arithmetic instruction also changes the flags
Compute(m, r, v) == [m EXCEPT !.reg[r] = v, !.fl = NoFlags]

\* o(), g(), oad(): emit instructions, that is, execute them on every path
\* that gets here
Emit(s, Instr(_)) ==
    IF s.nocode # 0 THEN s
    ELSE [s EXCEPT !.m = [k \in DOMAIN s.m |->
                             LET m == s.m[k] IN IF m.at = 0 THEN Instr(m) ELSE m],
                   !.buried = @ \/ \E i \in 1 .. Len(s.vs) - 1 : s.vs[i].r \in Lazy]

\* gsym(): the jumps of chain t go here
gsym(s, t) ==
    [s EXCEPT !.m = [k \in DOMAIN s.m |->
                        LET m == s.m[k] IN IF m.at \in t THEN [m EXCEPT !.at = 0] ELSE m],
              !.open = @ \ t]

\* A conditional jump, added to chain t: the result has the state and the chain
Branch(s, t, Taken(_)) ==
    IF s.nocode # 0 THEN [s |-> s, t |-> t]
    ELSE LET site == s.ind + 1
             emitted == Emit(s, LAMBDA m : IF Taken(m) THEN [m EXCEPT !.at = site] ELSE m)
         IN [s |-> [emitted EXCEPT !.ind = site, !.open = @ \cup {site}],
             t |-> t \cup {site}]
gjmp(s, t) == Branch(s, t, LAMBDA m : TRUE)

\* Move the value of e into register r
load(s, r, e) ==
    IF e.r \in Jmps
    THEN \* mov $t,r; jmp over; the chain lands here: mov $1-t,r
         LET through == IF e.r = "jmp" THEN 0 ELSE 1
             set == [k \in DOMAIN s.m |->
                        LET m == s.m[k]
                        IN CASE s.nocode # 0 -> m
                             [] s.nocode = 0 /\ m.at = 0 -> SetReg(m, r, through)
                             [] s.nocode = 0 /\ m.at \in e.t -> SetReg(m, r, 1 - through)
                             [] OTHER -> m]
         IN gsym([Emit(s, LAMBDA m : m) EXCEPT !.m = set], e.t)
    ELSE Emit(s, LAMBDA m : SetReg(m, r, Read(m, e)))

\* Move register r to the place that the lvalue e denotes
store(s, r, e) == Emit(s, LAMBDA m : SetMem(m, Base(m, e), m.reg[r]))

-----------------------------------------------------------------------------
(* Registers *)

Users(s, r) == {i \in DOMAIN s.vs : s.vs[i].r = r}

\* save_reg() for each register of R: every entry that uses it, also the top
\* one, is from now on in a temporary
Save(s, R) ==
    LET used == {r \in R : Users(s, r) # {}}
        temp == [r \in used |->
                    s.loc - Cardinality({q \in used : Lowest({q, r}) = q})]
        stored == Emit(s, LAMBDA m :
                    [m EXCEPT !.mem = [a \in DOMAIN m.mem |->
                        IF \E r \in used : temp[r] = a
                        THEN m.reg[CHOOSE r \in used : temp[r] = a] ELSE m.mem[a]]])
    IN IF s.nocode # 0 THEN s
       ELSE [stored EXCEPT
                !.loc = @ - Cardinality(used),
                !.vs = [i \in 1 .. Len(s.vs) |->
                    IF s.vs[i].r \notin used THEN s.vs[i]
                    ELSE Entry(IF s.vs[i].lval THEN "llocal" ELSE "local", TRUE,
                               temp[s.vs[i].r])]]
save_reg(s, r) == Save(s, {r})

\* save_regs(n): the registers used up to n entries below the top
save_regs(s, n) == Save(s, RC_INT \cap {s.vs[i].r : i \in 1 .. Len(s.vs) - n})

\* A free register of the class, or the one that the lowest entry holds, saved
get_reg(s, rc) ==
    LET free == {r \in rc : Users(s, r) = {}}
        holders == {i \in DOMAIN s.vs : s.vs[i].r \in rc}
        lowest == s.vs[CHOOSE i \in holders : \A j \in holders : i <= j].r
    IN CASE s.nocode # 0 -> [s |-> s, r |-> Lowest(rc)]
         [] s.nocode = 0 /\ free # {} -> [s |-> s, r |-> Lowest(free)]
         [] s.nocode = 0 /\ free = {} -> [s |-> save_reg(s, lowest), r |-> lowest]

move_reg(s, r, from) ==
    IF r = from THEN s ELSE load(save_reg(s, r), r, InReg(from))

\* The value of the top entry goes to a register of the class
LoadTop(g) == SetTop(load(g.s, g.r, vtop(g.s)), InReg(g.r))
gv(s, rc) == IF vtop(s).r \in rc /\ ~vtop(s).lval THEN s ELSE LoadTop(get_reg(s, rc))

-----------------------------------------------------------------------------
(* The value stack *)

\* Flags and jumps on the top become a register before they are covered
Settle(s) ==
    IF Len(s.vs) > 0 /\ s.nocode = 0 /\ vtop(s).r \in Lazy THEN gv(s, RC_INT) ELSE s

vsetc(s, e) == Push(Settle(s), e)

Swapped(s) == SetTop1(SetTop(s, vtop1(s)), vtop(s))
vswap(s) == Swapped(Settle(s))

vpop(s) == IF vtop(s).r \in Jmps THEN Drop(gsym(s, vtop(s).t)) ELSE Drop(s)

vdup(s) == Push(s, vtop(s))

\* I1 ... In -> I2 ... In I1
vrotb(s, n) ==
    LET d == Len(s.vs) - n
    IN [s EXCEPT !.vs = SubSeq(@, 1, d) \o SubSeq(@, d + 2, d + n) \o <<@[d + 1]>>]

gaddrof(s) ==
    SetTop(s, IF vtop(s).r = "llocal" THEN Local(vtop(s).c)
              ELSE [vtop(s) EXCEPT !.lval = FALSE])

\* mutant: the first operand is not reloaded when the second displaced it
gv2NoReload(s, rc1, rc2) ==
    IF vtop(s).r \notin Lazy THEN gv(vswap(gv(vswap(s), rc1)), rc2)
    ELSE vswap(gv(vswap(gv(s, rc2)), rc1))

\* Both operands to registers; the one loaded first is reloaded if the other displaced it
Reload1(s, rc1) == IF vtop1(s).r \in RC_INT THEN s ELSE vswap(gv(vswap(s), rc1))
Reload(s, rc2) == IF vtop(s).r \in RC_INT THEN s ELSE gv(s, rc2)
gv2(s, rc1, rc2) ==
    IF vtop(s).r \notin Lazy THEN Reload1(gv(vswap(gv(vswap(s), rc1)), rc2), rc1)
    ELSE Reload(vswap(gv(vswap(gv(s, rc2)), rc1)), rc2)

Copied(g, r) == SetTop(vdup(load(g.s, g.r, InReg(r))), InReg(g.r))
CopyTop(s) == Copied(get_reg(s, RC_INT), vtop(s).r)
gv_dup(s) == CopyTop(gv(s, RC_INT))

-----------------------------------------------------------------------------
(* Operators *)

Compute2(m, op, r, x, y) ==
    IF op \in Comparisons THEN [m EXCEPT !.fl = <<x, y>>] ELSE Compute(m, r, Alu(op, x, y))

\* The second operand is a constant, and is part of the instruction
WithConstant(s, op) ==
    LET r == vtop1(s).r
        c == vtop(s).c
    IN Drop(Emit(s, LAMBDA m : Compute2(m, op, r, m.reg[r], c)))
Immediate(s, op) == WithConstant(vswap(gv(vswap(s), RC_INT)), op)

\* Both operands are registers; the result is left in the first
WithRegister(s, op) ==
    LET r == vtop1(s).r
        fr == vtop(s).r
    IN Drop(Emit(s, LAMBDA m : Compute2(m, op, r, m.reg[r], m.reg[fr])))
TwoRegisters(s, op) == WithRegister(gv2(s, RC_INT, IF op \in {"<<", ">>"} THEN {"rcx"} ELSE RC_INT), op)

\* The quotient is left in rax and the remainder in rdx
DivideBy(s, op, fr) ==
    LET Div(m) == Compute(SetReg(m, "rdx", Alu("%", m.reg["rax"], m.reg[fr])),
                          "rax", Alu("/", m.reg["rax"], m.reg[fr]))
    IN SetTop(Emit(save_reg(Drop(s), "rdx"), Div), InReg(IF op = "%" THEN "rdx" ELSE "rax"))
DivideTop(s, op) == DivideBy(s, op, vtop(s).r)
Divide(s, op) == DivideTop(gv2(s, {"rax"}, {"rcx"}), op)

Compared(s, op) == IF op \in Comparisons THEN SetTop(s, Flags(op)) ELSE s
gen_opi(s, op) ==
    IF op \in {"/", "%"} THEN Divide(s, op)
    ELSE Compared(IF IsConst(vtop(s)) /\ op # "*" THEN Immediate(s, op) ELSE TwoRegisters(s, op), op)

IsPowerOf2(c) == \E n \in 0 .. N : c = 2^n
Log2(c) == CHOOSE n \in 0 .. N : c = 2^n

\* What is left of an operation on constants: the stack, and the operator that the
\* back end has to generate, or "" if the result is there; s has been swapped so
\* that the only constant is the top entry, whose value is l2, if right
Folded(s, op) == [s |-> s, op |-> op]
FoldBoth(s, op, l1, l2) ==
    IF op \in {"/", "%"} /\ l2 = 0 THEN Folded(s, op)
    ELSE Folded(SetTop(Drop(s), Const(Alu(op, l1, l2))), "")

\* mutant: the second operand is not removed when nothing has to be computed
FoldOneKeeps(s, op, l2) ==
    IF l2 = 1 /\ op \in {"*", "/"} THEN Folded(s, "") ELSE Folded(s, op)

FoldOne(s, op, l2) ==
    CASE (l2 = 0 /\ op = "*") \/ (l2 = 1 /\ op = "%") -> Folded(SetTop(Drop(s), Const(0)), "")
      [] (l2 = 1 /\ op \in {"*", "/"}) \/ (l2 = 0 /\ op \in {"+", "-", "<<", ">>"}) ->
             Folded(Drop(s), "")
      [] op \in {"*", "/"} /\ l2 > 1 /\ IsPowerOf2(l2) ->
             Folded(SetTop(s, Const(Log2(l2))), IF op = "*" THEN "<<" ELSE ">>")
      [] op \in {"+", "-"} /\ l2 # 0 /\ vtop1(s).r = "local" /\ ~vtop1(s).lval ->
             Folded(SetTop(Drop(s), [vtop1(s) EXCEPT !.c = Alu(op, @, l2)]), "")
      [] OTHER -> Folded(s, op)

Fold(s, op) ==
    LET c1 == IsConst(vtop1(s))
        c2 == IsConst(vtop(s))
        l1 == vtop1(s).c
        l2 == vtop(s).c
    IN CASE c1 /\ c2 -> FoldBoth(s, op, l1, l2)
         [] c1 /\ ~c2 /\ l1 = 0 /\ op \in {"<<", ">>"} -> Folded(Drop(s), "")
         [] c1 /\ ~c2 /\ op \in {"+", "*"} -> FoldOne(vswap(s), op, l1)
         [] ~c1 /\ c2 -> FoldOne(s, op, l2)
         [] OTHER -> Folded(s, op)

Generate(f) == IF f.op = "" THEN f.s ELSE gen_opi(f.s, f.op)
gen_opic(s, op) == Generate(Fold(s, op))

\* The operands pass through gen_cast(), the first one at the top of the stack
NoLvalue(s) == IF vtop(s).lval THEN gv(s, RC_INT) ELSE s
gen_op(s, op) == NoLvalue(gen_opic(vswap(vswap(s)), op))

-----------------------------------------------------------------------------
(* Tests and jumps.  The result has the state, without the top entry, and  *)
(* the chain t with the jumps taken when the value is false (inv = 1) or   *)
(* true (inv = 0).                                                         *)

\* mutant: the jumps of the value are joined to those of the chain whatever they mean
gtstMixes(s, inv, t) ==
    LET e == vtop(s)
        Taken(m) == Alu(e.op, m.fl[1], m.fl[2]) = 1 - inv
        b == CASE s.nocode # 0 -> [s |-> s, t |-> t]
               [] s.nocode = 0 /\ e.r = "cmp" -> Branch(s, t, Taken)
               [] s.nocode = 0 /\ e.r \in Jmps -> [s |-> s, t |-> t \cup e.t]
    IN [s |-> Drop(b.s), t |-> b.t]

gtst(s, inv, t) ==
    LET e == vtop(s)
        parity == IF e.r = "jmp" THEN 0 ELSE 1
        through == gjmp(s, t)
        Taken(m) == Alu(e.op, m.fl[1], m.fl[2]) = 1 - inv
        b == CASE s.nocode # 0 -> [s |-> s, t |-> t]
               [] s.nocode = 0 /\ e.r = "cmp" -> Branch(s, t, Taken)
               [] s.nocode = 0 /\ e.r \in Jmps /\ parity = inv -> [s |-> s, t |-> t \cup e.t]
               [] s.nocode = 0 /\ e.r \in Jmps /\ parity # inv ->
                      [s |-> gsym(through.s, e.t), t |-> through.t]
    IN [s |-> Drop(b.s), t |-> b.t]

TestTop(s, inv, t) ==
    LET e == vtop(s)
        always == IF (e.c # 0) = (inv = 0) THEN gjmp(s, t) ELSE [s |-> s, t |-> t]
    IN IF IsConst(e) THEN [s |-> Drop(always.s), t |-> always.t] ELSE gtst(s, inv, t)
gvtst(s, inv, t) ==
    TestTop(IF vtop(s).r \in Lazy THEN s ELSE gen_op(vsetc(s, Const(0)), "!="), inv, t)

-----------------------------------------------------------------------------
(* Memory *)

\* The top entry becomes an lvalue: the object that it points to
Dereferenced(s) == SetTop(s, [vtop(s) EXCEPT !.lval = TRUE])
indir(s) == Dereferenced(NoLvalue(s))

\* mutant: the address that was saved is taken for the object
LoadAddressNot(s) ==
    IF vtop1(s).r = "llocal" THEN SetTop1(s, Local(vtop1(s).c)) ELSE s

\* If the address of the lvalue was saved, it is read back
AddressIn(g) == SetTop1(load(g.s, g.r, Local(vtop1(g.s).c)), [InReg(g.r) EXCEPT !.lval = TRUE])
LoadAddress(s) == IF vtop1(s).r = "llocal" THEN AddressIn(get_reg(s, RC_INT)) ELSE s

\* Store the top entry in the lvalue below it, and leave it as the result
StoreReg(s, r) == Drop(vswap(store(s, r, vtop1(s))))
StoreTop(s) == StoreReg(LoadAddress(s), vtop(s).r)
vstore(s) == StoreTop(gv(s, RC_INT))

\* x++ and ++x
Discard(s, post) == IF post THEN vpop(s) ELSE s
inc(s, post) ==
    LET operands == IF post THEN vrotb(vrotb(gv_dup(vdup(s)), 3), 3) ELSE vdup(s)
    IN Discard(vstore(gen_op(vsetc(operands, Const(1)), "+")), post)

-----------------------------------------------------------------------------
(* gfunc_call(): the function and its n arguments are on the stack.  Those *)
(* in onstack, by their position, are passed in memory; those in wide are  *)
(* passed there because of their type, without a general register.         *)

Rank(P, p) == Cardinality({q \in P : q <= p})

\* mutant: an argument is popped where it is, without rotating it to the top
StackArgsInPlace(s, n, onstack, wide) ==
    LET One(acc, i) ==
            LET p  == n + 1 - i
                s1 == IF p \in wide THEN acc.s ELSE gv(acc.s, RC_INT)
                PushArg(m) == [m EXCEPT !.stk = <<Read(m, vtop(s1))>> \o @]
            IN IF p \notin onstack THEN [acc EXCEPT !.skipped = @ + 1]
               ELSE [acc EXCEPT !.s = vpop(Emit(s1, PushArg))]
    IN ForUpTo(One, [s |-> s, skipped |-> 0], n).s

\* The stack arguments are handled first, from right to left
StackArgs(s, n, onstack, wide) ==
    LET One(acc, i) ==
            LET p  == n + 1 - i
                s1 == vrotb(acc.s, acc.skipped + 1)
                s2 == IF p \in wide THEN s1 ELSE gv(s1, RC_INT)
                PushArg(m) == [m EXCEPT !.stk = <<Read(m, vtop(s2))>> \o @]
            IN IF p \notin onstack THEN [acc EXCEPT !.skipped = @ + 1]
               ELSE [acc EXCEPT !.s = vpop(Emit(s2, PushArg))]
    IN ForUpTo(One, [s |-> s, skipped |-> 0], n).s

\* Then the others, into the registers where the callee expects them
RegisterArgs(s, n, onstack) ==
    LET One(st, i) ==
            LET p  == n + 1 - i
                s1 == gv(st, RC_INT)
                Move(m) == [m EXCEPT !.arg[Rank((1 .. n) \ onstack, p)] = m.reg[vtop(s1).r]]
            IN IF p \in onstack THEN st ELSE Drop(Emit(s1, Move))
    IN ForUpTo(One, s, n)

Received(m, n, onstack) ==
    [p \in 1 .. n |->
        IF p \notin onstack THEN m.arg[Rank((1 .. n) \ onstack, p)]
        ELSE IF Rank(onstack, p) <= Len(m.stk) THEN m.stk[Rank(onstack, p)] ELSE Junk]

\* the call instruction: the callee returns, and has used the registers
Invoke(s, n, onstack) ==
    LET Call(m) == [m EXCEPT !.reg = [r \in RC_INT |-> IF r = REG_IRET
                                                       THEN Callee(Received(m, n, onstack))
                                                       ELSE Junk],
                             !.fl = NoFlags, !.stk = <<>>, !.got = Received(m, n, onstack),
                             !.arg = [i \in DOMAIN m.arg |-> Junk]]
    IN Drop(Emit(s, Call))

\* mutant: an argument that is a pending comparison is left as it is
FetchFlagsNot(s) == s

\* A comparison becomes a value before any code is generated
FetchFlags(s) == IF vtop(s).r = "cmp" THEN gv(s, RC_INT) ELSE s

gfunc_call(s, n, onstack, wide) ==
    LET memory == save_regs(StackArgs(FetchFlags(s), n, onstack, wide), 0)
    IN Invoke(save_regs(RegisterArgs(memory, n, onstack), 0), n, onstack)
==============================================================================
