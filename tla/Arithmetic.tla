------------------------------ MODULE Arithmetic ------------------------------
(***************************************************************************)
(* Integer expressions in tccgen.c: gen_op finds the type of an operation  *)
(* and converts its operands (gen_cast), gen_opic folds constants and      *)
(* leaves out what has no effect, and the x86-64 back end does the rest    *)
(* when the program runs (gen_opi, load).                                  *)
(*                                                                         *)
(* The state is the expression on the top of the value stack.  A constant  *)
(* is held in c.i, of LongBits bits; an lvalue is memory of LongBits bits, *)
(* of which a load takes what its type says; a register has LongBits bits, *)
(* of which an operation of type int takes the lower IntBits and clears    *)
(* the others.  The values of lvalues and registers are those that they    *)
(* have when the program runs.                                             *)
(***************************************************************************)
EXTENDS CIntegers

CONSTANTS Variables,     \* the operands in memory, and
          Constants,     \* the constants: values of C
          WidenNarrowed  \* whether a computed long long that was converted to
                         \* unsigned int is used as a wider type

ASSUME OperandAssumption ==
    \A x \in Variables \cup Constants : x.t \in Types /\ x.n \in Int /\ InRange(x.t, x.n)

VARIABLES vtop,      \* the entry of the value stack
          value,     \* the value of the expression in C
          narrowed   \* vtop is a computed long long converted to int or unsigned int
vars == <<vtop, value, narrowed>>

-----------------------------------------------------------------------------
(* Entries                                                                 *)

\* r: where the value is; v: c.i, the memory, or the register; access: the type
\* of an access to the lvalue if that is a bool or a byte; must: VT_MUSTCAST
Entry(t, r, v) == [t |-> t, r |-> r, v |-> v, access |-> TInt, must |-> FALSE]

Low(n, bits) == n % (2 ^ bits)
Extended(n, bits, unsigned) ==
    LET low == Low(n, bits)
    IN  Low(IF ~unsigned /\ low >= 2 ^ (bits - 1) THEN low - 2 ^ bits ELSE low, LongBits)

\* vpushi, and the constants of a program
Const(t, n) == Entry(t, "const", Low(n, LongBits))
Lvalue(t, n) == [Entry(t, "lvalue", Low(n, IF t = TBool THEN ByteBits ELSE Bits[t]))
                   EXCEPT !.access = IF t.b \in {"bool", "byte"} THEN t ELSE TInt]
Reg(t, v) == Entry(t, "reg", v)

\* gv: the value in a register
Loaded(e) ==
    LET t == IF e.r = "lvalue" /\ e.access # TInt THEN e.access ELSE e.t
    IN  IF e.r = "reg" \/ t.b = "long" THEN e.v
        ELSE IF e.r = "lvalue" /\ t.b # "int"
        THEN Low(Extended(e.v, ByteBits, t.u), IntBits)
        ELSE Low(e.v, IntBits)

-----------------------------------------------------------------------------
(* The operations of the processor                                         *)

Unsigned(op) == CASE op = ">>" -> "u>>" [] op = "/" -> "u/" [] op = "%" -> "u%" [] op = "<" -> "u<"
                  [] op = ">" -> "u>" [] op = "<=" -> "u<=" [] op = ">=" -> "u>=" [] OTHER -> op

Truth(p) == IF p THEN 1 ELSE 0

\* gen_opi: x and y have the width w
RunOp(op, w, x, y) ==
    LET s(n) == IF n >= 2 ^ (w - 1) THEN n - 2 ^ w ELSE n
        count == y % w
    IN  CASE op = "+" -> Low(x + y, w) [] op = "-" -> Low(x - y, w) [] op = "*" -> Low(x * y, w)
          [] op \in Bitwise -> BitOp(op, x, y)
          [] op = "<<" -> Low(x * 2 ^ count, w) [] op = "u>>" -> x \div 2 ^ count
          [] op = ">>" -> Low(s(x) \div 2 ^ count, w)
          [] op = "/" -> Low(Truncated(s(x), s(y)), w) [] op = "u/" -> x \div y
          [] op = "%" -> Low(s(x) - s(y) * Truncated(s(x), s(y)), w) [] op = "u%" -> x % y
          [] op = "<" -> Truth(s(x) < s(y)) [] op = "u<" -> Truth(x < y)
          [] op = ">" -> Truth(s(x) > s(y)) [] op = "u>" -> Truth(x > y)
          [] op = "<=" -> Truth(s(x) <= s(y)) [] op = "u<=" -> Truth(x <= y)
          [] op = ">=" -> Truth(s(x) >= s(y)) [] op = "u>=" -> Truth(x >= y)
          [] op = "==" -> Truth(x = y) [] op = "!=" -> Truth(x # y)

Width(t) == IF t.b = "long" THEN LongBits ELSE IntBits
Generated(op, a, b) ==
    LET w == Width(a.t) IN Reg(a.t, RunOp(op, w, Low(Loaded(a), w), Low(Loaded(b), Width(b.t))))

-----------------------------------------------------------------------------
(* gen_opic                                                                *)

\* l1 and l2: of LongBits bits, extended from the type
Wide(e) == IF e.t.b = "long" THEN e.v ELSE Extended(e.v, IntBits, e.t.u)

AllOnes == 2 ^ LongBits - 1
IntOnes == 2 ^ IntBits - 1
IsPower(n) == \E i \in 0 .. LongBits - 1 : n = 2 ^ i
Exponent(n) == CHOOSE i \in 0 .. LongBits - 1 : n = 2 ^ i

\* both are constants
FoldedOp(op, a, b) ==
    LET x == Wide(a)
        y == Wide(b)
        count == Low(b.v, LongBits) % Width(a.t)
        r == IF op = "<<" THEN Low(x * 2 ^ count, LongBits)
             ELSE IF op = "u>>" THEN x \div 2 ^ count
             ELSE IF op = ">>" THEN IF x >= 2 ^ (LongBits - 1)
                                    THEN AllOnes - ((AllOnes - x) \div 2 ^ count) ELSE x \div 2 ^ count
             ELSE RunOp(op, LongBits, x, y)
    IN  [a EXCEPT !.v = IF a.t.b = "long" THEN r ELSE Extended(r, IntBits, a.t.u)]

\* x & 0, x * 0, x | -1 and x % 1 are constants
Absorbs(op, b) ==
    \/ Wide(b) = 0 /\ op \in {"&", "*"}
    \/ op = "|" /\ (Wide(b) = AllOnes \/ (Wide(b) = IntOnes /\ b.t.b # "long"))
    \/ Wide(b) = 1 /\ op \in {"%", "u%"}

\* x * 1, x - 0, x & -1 and so on are x
Neutral(op, b) ==
    \/ Wide(b) = 1 /\ op \in {"*", "/", "u/"}
    \/ Wide(b) = 0 /\ op \in {"+", "-", "|", "^", "<<", ">>", "u>>"}
    \/ op = "&" /\ (Wide(b) = AllOnes \/ (Wide(b) = IntOnes /\ b.t.b # "long"))

\* mutant: a constant of a signed type divides as a shift as well
ByShiftSigned(op, b) == IsPower(Wide(b)) /\ op \in {"*", "u/", "/"}

\* a shift in place of a multiplication or division
ByShift(op, b) == IsPower(Wide(b)) /\ op \in {"*", "u/"}

\* so are 0 << x, 0 >> x and -1 >> x
ShiftsOut(op, a) == \/ Wide(a) = 0 /\ op \in {"<<", ">>", "u>>"}
                    \/ Wide(a) = AllOnes /\ op = ">>"

OneConst(op, a, b) ==
    IF a.r = "const" /\ ShiftsOut(op, a) THEN a
    ELSE IF b.r # "const" THEN Generated(op, a, b)
    ELSE IF Absorbs(op, b) THEN IF Wide(b) = 1 THEN [b EXCEPT !.v = 0] ELSE b
    ELSE IF Neutral(op, b) THEN Reg(a.t, Loaded(a))      \* at the end of gen_op
    ELSE IF ByShift(op, b) THEN Generated(IF op = "*" THEN "<<" ELSE "u>>", a,
                                          [b EXCEPT !.v = Exponent(Wide(b))])
    ELSE Generated(op, a, b)

Opic(op, a, b) ==
    IF a.r = "const" /\ b.r = "const" THEN FoldedOp(op, a, b)
    ELSE IF a.r = "const" /\ op \in {"+", "&", "^", "|", "*"} THEN OneConst(op, b, a)
    ELSE OneConst(op, a, b)

-----------------------------------------------------------------------------
(* gen_op and gen_cast                                                     *)

\* mutant: a constant is cut to its type and not extended again
ConstCastCut(e, t) ==
    Const(t, IF t = TBool THEN Truth(e.v # 0) ELSE IF t.b = "long" THEN e.v ELSE Low(e.v, Bits[t]))

\* gen_cast of a constant
ConstCast(e, t) ==
    LET c == IF e.t = TULong THEN e.v
             ELSE IF e.t.u THEN Low(e.v, IntBits)
             ELSE IF e.t.b # "long" THEN Extended(e.v, IntBits, FALSE) ELSE e.v
    IN  Const(t, CASE t.b = "long" -> c
                   [] t = TBool -> Truth(c # 0)
                   [] OTHER -> Extended(c, Bits[t], t.u))

\* gen_cast to int or long long
CastWide(e, t) ==
    IF e.t = t THEN e
    ELSE IF e.r = "const" THEN ConstCast(e, t)
    ELSE IF t.b = "long" /\ e.t.b # "long"
    THEN Reg(t, IF e.t = TUInt THEN Loaded(e) ELSE Extended(Loaded(e), IntBits, FALSE))
    ELSE [e EXCEPT !.t = t]

\* mutant: an operation with an unsigned operand is unsigned, whatever its width
OpTypeAnyUnsigned(op, t1, t2) ==
    Ty(IF t1.b = "long" \/ (t2.b = "long" /\ op \notin Shifts) THEN "long" ELSE "int", t1.u \/ t2.u)

\* the type of an operation; unsigned int only if it is just that
OpType(op, t1, t2) ==
    IF op \in Shifts THEN Ty(IF t1.b = "long" THEN "long" ELSE "int", t1 \in {TUInt, TULong})
    ELSE IF "long" \in {t1.b, t2.b} THEN Ty("long", TULong \in {t1, t2})
    ELSE Ty("int", TUInt \in {t1, t2})

GenOp(op, e1, e2) ==
    LET t == OpType(op, e1.t, e2.t)
        r == Opic(IF t.u THEN Unsigned(op) ELSE op,
                  CastWide(e1, t), CastWide(e2, IF op \in Shifts THEN TInt ELSE t))
    IN  [r EXCEPT !.t = IF op \in Relations THEN TInt ELSE t]

\* force_charshort_cast
Forced(e, t) ==
    LET count == Const(TInt, Width(e.t) - ByteBits)
    IN  IF t.u THEN GenOp("&", e, Const(TInt, 2 ^ ByteBits - 1))
        ELSE GenOp(">>", [GenOp("<<", e, count) EXCEPT !.t.u = FALSE], count)

Settled(e) == IF e.must THEN Forced([e EXCEPT !.must = FALSE], e.t) ELSE e

GenCast(e0, t) ==
    LET e == Settled(e0)
    IN  IF e.t = t THEN e
        ELSE IF e.r = "const" THEN ConstCast(e, t)
        ELSE IF t = TBool THEN [GenOp("!=", e, Const(TInt, 0)) EXCEPT !.t = TBool]
        ELSE IF t.b = "byte" THEN [Forced(e, t) EXCEPT !.t = t]
        ELSE CastWide(e, t)

\* vstore: the value of an assignment to a variable of type t; the conversion
\* from int to char is left for later
Stored(e, t) ==
    IF e.t.b = "int" /\ t.b = "byte"
    THEN [Reg(t, Loaded([e EXCEPT !.t = t])) EXCEPT !.must = TRUE]
    ELSE LET c == GenCast(e, t) IN Reg(t, Loaded(c))

-----------------------------------------------------------------------------

Operand(x, constant) == IF constant THEN Const(x.t, x.n) ELSE Lvalue(x.t, x.n)
Sources == [value : Variables, constant : {FALSE}] \cup [value : Constants, constant : {TRUE}]

\* the conversion of a long long in a register to int does nothing, that of a
\* long long to char leaves a long long in a register
Narrows(e, t) == e.t.b = "long" /\ ((e.r = "reg" /\ t.b = "int") \/ (e.r # "const" /\ t = TByte))
Widens(t) == narrowed /\ vtop.t = TUInt /\ t.b = "long"

Init == \E o \in Sources :
          /\ vtop = Operand(o.value, o.constant)
          /\ value = o.value
          /\ narrowed = FALSE

Cast(t) ==
    /\ WidenNarrowed \/ ~Widens(t)
    /\ vtop' = GenCast(vtop, t)
    /\ value' = [t |-> t, n |-> Converted(value.n, t)]
    /\ narrowed' = (Narrows(vtop, t) \/ (narrowed /\ t \in {TInt, TUInt, TByte}))

Assign(t) ==
    /\ WidenNarrowed \/ ~Widens(t)
    /\ vtop' = Stored(vtop, t)
    /\ value' = [t |-> t, n |-> Converted(value.n, t)]
    /\ narrowed' = (Narrows(vtop, t) \/ (narrowed /\ t \in {TInt, TUInt, TByte}))

\* with another operand on the right, or on the left
Binary(op, o, right) ==
    LET a == IF right THEN value ELSE o.value
        b == IF right THEN o.value ELSE value
        other == Operand(o.value, o.constant)
        t == OpType(op, a.t, b.t)
    IN  /\ Defined(op, a, b)
        /\ WidenNarrowed \/ ~Widens(t)
        /\ vtop' = IF right THEN GenOp(op, Settled(vtop), other) ELSE GenOp(op, other, Settled(vtop))
        /\ value' = Result(op, a, b)
        /\ narrowed' = (narrowed /\ o.constant /\ t.b = "int")

Next == \/ \E t \in Types : Cast(t) \/ Assign(t)
        \/ \E op \in Operators, o \in Sources, right \in BOOLEAN : Binary(op, o, right)

Spec == Init /\ [][Next]_vars

-----------------------------------------------------------------------------
\* the integer that vtop stands for
Meaning(e) ==
    LET v == IF e.r = "const" THEN e.v ELSE Loaded(Settled(e))
    IN  IF e.t = TBool THEN v ELSE Converted(v, e.t)

\* The type that gen_op and gen_cast find is the type that the expression has in C.
TypeAsC == vtop.t = value.t

\* The expression has the value it has in C, whichever operands are constants and
\* whatever is folded, left out or converted late.
ValueAsC == Meaning(vtop) = value.n

\* Constants are held extended from their type, whatever they were made of:
\* case labels, array sizes and initialisers read c.i as it is.
ConstantsExtended == vtop.r = "const" => vtop.v = Low(value.n, LongBits)
=============================================================================
