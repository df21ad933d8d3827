--------------------------- MODULE Arithmetic_proofs ---------------------------
(***************************************************************************)
(* Proofs about Arithmetic: whatever the widths of the types, gen_op,      *)
(* gen_cast and vstore give every expression the type that it has in C.    *)
(***************************************************************************)
EXTENDS Arithmetic, TLAPS

\* An entry of the value stack; its value plays no part here.
IsEntry(e) ==
    /\ e = [t |-> e.t, r |-> e.r, v |-> e.v, access |-> e.access, must |-> e.must]
    /\ e.t \in Types

\* ... of which no conversion is still to be made.
IsSettled(e) == IsEntry(e) /\ e.must = FALSE

\* The seven types, each with its basic type and its sign.
LEMMA TheTypes ==
    /\ TInt.b = "int" /\ TInt.u = FALSE /\ TUInt.b = "int" /\ TUInt.u = TRUE
    /\ TLong.b = "long" /\ TLong.u = FALSE /\ TULong.b = "long" /\ TULong.u = TRUE
    /\ TByte.b = "byte" /\ TByte.u = FALSE /\ TUByte.b = "byte" /\ TUByte.u = TRUE
    /\ TBool.b = "bool" /\ TBool.u = FALSE
    /\ {TInt, TUInt, TLong, TULong, TBool, TByte, TUByte} = Types
BY DEF Types, TInt, TUInt, TLong, TULong, TBool, TByte, TUByte, Ty

\* A type is an operand type, or has the rank of char or _Bool.
LEMMA TypeCases ==
    ASSUME NEW t \in Types
    PROVE  \/ t \in {TInt, TUInt, TLong, TULong} /\ Promoted(t) = t
           \/ t \in {TBool, TByte, TUByte} /\ Promoted(t) = TInt
BY TheTypes DEF Promoted

-----------------------------------------------------------------------------
(* The type of an operation                                                *)

\* The two types of each of the two widths.
LEMMA TyIs ==
    ASSUME NEW P \in BOOLEAN
    PROVE  /\ Ty("long", P) = IF P THEN TULong ELSE TLong
           /\ Ty("int", P) = IF P THEN TUInt ELSE TInt
<1>1. CASE P = TRUE BY <1>1 DEF TULong, TUInt
<1>2. CASE P = FALSE BY <1>2 DEF TLong, TInt
<1>3. QED BY <1>1, <1>2

\* The type that gen_op finds, spelled out.
LEMMA OpTypeIs ==
    ASSUME NEW op, NEW t1, NEW t2
    PROVE  OpType(op, t1, t2) =
             IF op \in Shifts
             THEN IF t1.b = "long" THEN IF t1 \in {TUInt, TULong} THEN TULong ELSE TLong
                  ELSE IF t1 \in {TUInt, TULong} THEN TUInt ELSE TInt
             ELSE IF "long" \in {t1.b, t2.b} THEN IF TULong \in {t1, t2} THEN TULong ELSE TLong
                  ELSE IF TUInt \in {t1, t2} THEN TUInt ELSE TInt
<1>1. ASSUME NEW x, NEW S
      PROVE  /\ Ty("long", x \in S) = IF x \in S THEN TULong ELSE TLong
             /\ Ty("int", x \in S) = IF x \in S THEN TUInt ELSE TInt
  <2>1. CASE x \in S
    <3>1. (x \in S) = TRUE BY <2>1
    <3>2. QED BY <2>1, <3>1 DEF TULong, TUInt
  <2>2. CASE x \notin S
    <3>1. (x \in S) = FALSE BY <2>2
    <3>2. QED BY <2>2, <3>1 DEF TLong, TInt
  <2>3. QED BY <2>1, <2>2
<1>2. CASE op \in Shifts
  <2>1. OpType(op, t1, t2) = Ty(IF t1.b = "long" THEN "long" ELSE "int", t1 \in {TUInt, TULong})
    BY <1>2 DEF OpType
  <2>2. CASE t1.b = "long"
    <3>1. OpType(op, t1, t2) = Ty("long", t1 \in {TUInt, TULong}) BY <2>1, <2>2
    <3>2. Ty("long", t1 \in {TUInt, TULong}) = IF t1 \in {TUInt, TULong} THEN TULong ELSE TLong
      BY <1>1
    <3>3. QED BY <1>2, <2>2, <3>1, <3>2
  <2>3. CASE t1.b # "long"
    <3>1. OpType(op, t1, t2) = Ty("int", t1 \in {TUInt, TULong}) BY <2>1, <2>3
    <3>2. Ty("int", t1 \in {TUInt, TULong}) = IF t1 \in {TUInt, TULong} THEN TUInt ELSE TInt
      BY <1>1
    <3>3. QED BY <1>2, <2>3, <3>1, <3>2
  <2>4. QED BY <2>2, <2>3
<1>3. CASE op \notin Shifts
  <2>1. CASE "long" \in {t1.b, t2.b}
    <3>1. OpType(op, t1, t2) = Ty("long", TULong \in {t1, t2}) BY <1>3, <2>1 DEF OpType
    <3>2. Ty("long", TULong \in {t1, t2}) = IF TULong \in {t1, t2} THEN TULong ELSE TLong
      BY <1>1
    <3>3. QED BY <1>3, <2>1, <3>1, <3>2
  <2>2. CASE "long" \notin {t1.b, t2.b}
    <3>1. OpType(op, t1, t2) = Ty("int", TUInt \in {t1, t2}) BY <1>3, <2>2 DEF OpType
    <3>2. Ty("int", TUInt \in {t1, t2}) = IF TUInt \in {t1, t2} THEN TUInt ELSE TInt
      BY <1>1
    <3>3. QED BY <1>3, <2>2, <3>1, <3>2
  <2>3. QED BY <2>1, <2>2
<1>4. QED BY <1>2, <1>3

\* gen_op finds int or long long, and only looks at the promoted types.
LEMMA OpTypeType ==
    ASSUME NEW op, NEW t1 \in Types, NEW t2 \in Types
    PROVE  /\ OpType(op, t1, t2) \in {TInt, TUInt, TLong, TULong}
           /\ OpType(op, t1, t2) = OpType(op, Promoted(t1), Promoted(t2))
<1>1. OpType(op, t1, t2) \in {TInt, TUInt, TLong, TULong} BY OpTypeIs
<1>2. ASSUME NEW t \in Types
      PROVE  /\ (Promoted(t).b = "long") <=> (t.b = "long")
             /\ (Promoted(t) = TULong) <=> (t = TULong)
             /\ (Promoted(t) = TUInt) <=> (t = TUInt)
  <2>1. CASE t \in {TInt, TUInt, TLong, TULong} /\ Promoted(t) = t BY <2>1
  <2>2. CASE t \in {TBool, TByte, TUByte} /\ Promoted(t) = TInt BY <2>2, TheTypes
  <2>3. QED BY <2>1, <2>2, TypeCases
<1>3. OpType(op, t1, t2) = OpType(op, Promoted(t1), Promoted(t2))
  BY <1>2, OpTypeIs
<1>4. QED BY <1>1, <1>3

\* The usual arithmetic conversions of C, for operands that are promoted.
LEMMA CommonType ==
    ASSUME NEW p1 \in {TInt, TUInt, TLong, TULong}, NEW p2 \in {TInt, TUInt, TLong, TULong},
           NEW b, b = IF \E t \in {p1, p2} : t.b = "long" THEN "long" ELSE "int",
           NEW u \in BOOLEAN, u <=> \E t \in {p1, p2} : t.u /\ t.b = b
    PROVE  Ty(b, u) = IF "long" \in {p1.b, p2.b}
                      THEN IF TULong \in {p1, p2} THEN TULong ELSE TLong
                      ELSE IF TUInt \in {p1, p2} THEN TUInt ELSE TInt
<1>1. CASE "long" \in {p1.b, p2.b}
  <2>1. b = "long" BY <1>1
  <2>2. \A t \in {p1, p2} : t.u /\ t.b = "long" <=> t = TULong BY TheTypes
  <2>3. u <=> TULong \in {p1, p2} BY <2>1, <2>2
  <2>4. Ty("long", u) = IF u THEN TULong ELSE TLong BY TyIs
  <2>5. QED BY <1>1, <2>1, <2>3, <2>4
<1>2. CASE "long" \notin {p1.b, p2.b}
  <2>1. b = "int" BY <1>2
  <2>2. \A t \in {p1, p2} : t.u /\ t.b = "int" <=> t = TUInt BY <1>2, TheTypes
  <2>3. u <=> TUInt \in {p1, p2} BY <2>1, <2>2
  <2>4. Ty("int", u) = IF u THEN TUInt ELSE TInt BY TyIs
  <2>5. QED BY <1>2, <2>1, <2>3, <2>4
<1>3. QED BY <1>1, <1>2

\* gen_op finds the type of C: the promoted left operand for a shift, and
\* otherwise the common type of the usual arithmetic conversions.
LEMMA OpTypeAsC ==
    ASSUME NEW op \in Operators, NEW t1 \in Types, NEW t2 \in Types
    PROVE  ResultType(op, t1, t2) = IF op \in Relations THEN TInt ELSE OpType(op, t1, t2)
<1> DEFINE p1 == Promoted(t1)
           p2 == Promoted(t2)
<1>1. /\ p1 \in {TInt, TUInt, TLong, TULong} /\ p2 \in {TInt, TUInt, TLong, TULong}
      /\ OpType(op, t1, t2) = OpType(op, p1, p2)
  BY TypeCases, OpTypeType
<1>2. CASE op \in Relations BY <1>2 DEF ResultType
<1>3. CASE op \in Shifts
  <2>1. op \notin Relations BY <1>3 DEF Shifts, Relations
  <2>2. ResultType(op, t1, t2) = p1 BY <1>3, <2>1 DEF ResultType
  <2> HIDE DEF p1, p2
  <2>3. OpType(op, p1, p2) = p1 BY <1>1, <1>3, OpTypeIs, TheTypes
  <2>4. QED BY <1>1, <2>1, <2>2, <2>3
<1>4. CASE op \notin Relations \cup Shifts
  <2> DEFINE b == IF \E t \in {p1, p2} : t.b = "long" THEN "long" ELSE "int"
             u == \E t \in {p1, p2} : t.u /\ t.b = b
  <2>1. ResultType(op, t1, t2) = Ty(b, u)
    <3> DEFINE ts == <<t1, t2>>
    <3>1. ts \in Types \X Types /\ ts[1] = t1 /\ ts[2] = t2 OBVIOUS
    <3> HIDE DEF ts
    <3>2. Common[ts] = Ty(b, u) BY <3>1 DEF Common
    <3>3. QED BY <1>4, <3>2 DEF ResultType, ts
  <2>2. /\ b = IF \E t \in {p1, p2} : t.b = "long" THEN "long" ELSE "int"
        /\ u \in BOOLEAN /\ (u <=> \E t \in {p1, p2} : t.u /\ t.b = b)
    OBVIOUS
  <2> HIDE DEF p1, p2, b, u
  <2>3. Ty(b, u) = IF "long" \in {p1.b, p2.b} THEN IF TULong \in {p1, p2} THEN TULong ELSE TLong
                   ELSE IF TUInt \in {p1, p2} THEN TUInt ELSE TInt
    BY <1>1, <2>2, CommonType
  <2>4. OpType(op, p1, p2)
        = IF "long" \in {p1.b, p2.b} THEN IF TULong \in {p1, p2} THEN TULong ELSE TLong
          ELSE IF TUInt \in {p1, p2} THEN TUInt ELSE TInt
    BY <1>4, OpTypeIs
  <2>5. QED BY <1>1, <1>4, <2>1, <2>3, <2>4
<1>5. QED BY <1>2, <1>3, <1>4

-----------------------------------------------------------------------------
(* Entries                                                                 *)

\* A constant is an entry with nothing pending, of the type it was given.
LEMMA ConstSettled ==
    ASSUME NEW t \in Types, NEW n PROVE IsSettled(Const(t, n)) /\ Const(t, n).t = t
BY DEF Const, Entry, IsSettled, IsEntry

\* So is a value in a register.
LEMMA RegSettled ==
    ASSUME NEW t \in Types, NEW v PROVE IsSettled(Reg(t, v)) /\ Reg(t, v).t = t
BY DEF Reg, Entry, IsSettled, IsEntry

\* So is an lvalue, a _Bool or byte object being read at its own width.
LEMMA LvalueSettled ==
    ASSUME NEW t \in Types, NEW n PROVE IsSettled(Lvalue(t, n)) /\ Lvalue(t, n).t = t
<1> DEFINE v == Low(n, IF t = TBool THEN ByteBits ELSE Bits[t])
           a == IF t.b \in {"bool", "byte"} THEN t ELSE TInt
<1>1. Lvalue(t, n) = [Entry(t, "lvalue", v) EXCEPT !.access = a] BY DEF Lvalue
<1> HIDE DEF v, a
<1>2. QED BY <1>1 DEF Entry, IsSettled, IsEntry

\* The conversion to a type that operations have.
LEMMA CastWideType ==
    ASSUME NEW e, IsSettled(e), NEW t \in Types
    PROVE  IsSettled(CastWide(e, t)) /\ CastWide(e, t).t = t
<1>1. CASE e.t = t BY <1>1 DEF CastWide
<1>2. CASE e.t # t /\ e.r = "const" BY <1>2, ConstSettled DEF CastWide, ConstCast
<1>3. CASE e.t # t /\ e.r # "const" /\ t.b = "long" /\ e.t.b # "long"
  BY <1>3, RegSettled DEF CastWide
<1>4. CASE e.t # t /\ e.r # "const" /\ ~(t.b = "long" /\ e.t.b # "long")
  <2>1. CastWide(e, t) = [e EXCEPT !.t = t] BY <1>4 DEF CastWide
  <2>2. QED BY <2>1 DEF IsSettled, IsEntry
<1>5. QED BY <1>1, <1>2, <1>3, <1>4

\* Whatever gen_opic folds or leaves out, its result is an entry.
LEMMA OpicSettled ==
    ASSUME NEW op, NEW a, NEW b, IsSettled(a), IsSettled(b)
    PROVE  IsSettled(Opic(op, a, b))
<1>1. ASSUME NEW o, NEW x, NEW y, IsSettled(x) PROVE IsSettled(Generated(o, x, y))
  <2>1. x.t \in Types BY <1>1 DEF IsSettled, IsEntry
  <2>2. PICK v : Generated(o, x, y) = Reg(x.t, v) BY DEF Generated
  <2>3. QED BY <2>1, <2>2, RegSettled
<1>2. \A x, n : IsSettled(x) => IsSettled([x EXCEPT !.v = n])
  BY DEF IsSettled, IsEntry
<1>3. \A x : IsSettled(x) => IsSettled(Reg(x.t, Loaded(x)))
  BY RegSettled DEF IsSettled, IsEntry
<1>4. ASSUME NEW x, NEW y, IsSettled(x), IsSettled(y) PROVE IsSettled(OneConst(op, x, y))
  BY <1>1, <1>2, <1>3, <1>4 DEF OneConst
<1>5. IsSettled(FoldedOp(op, a, b)) BY <1>2 DEF FoldedOp
<1>6. QED BY <1>4, <1>5 DEF Opic

\* The type that gen_op gives its result.
LEMMA GenOpType ==
    ASSUME NEW op, NEW a, NEW b, IsSettled(a), IsSettled(b)
    PROVE  /\ IsSettled(GenOp(op, a, b))
           /\ GenOp(op, a, b).t = IF op \in Relations THEN TInt ELSE OpType(op, a.t, b.t)
<1> DEFINE t == OpType(op, a.t, b.t)
           r == Opic(IF t.u THEN Unsigned(op) ELSE op,
                     CastWide(a, t), CastWide(b, IF op \in Shifts THEN TInt ELSE t))
<1>1. t \in Types /\ TInt \in Types BY OpTypeType DEF IsSettled, IsEntry, Types
<1>2. IsSettled(r) BY <1>1, CastWideType, OpicSettled
<1>3. GenOp(op, a, b) = [r EXCEPT !.t = IF op \in Relations THEN TInt ELSE t] BY DEF GenOp
<1> HIDE DEF t, r
<1>4. IsSettled(GenOp(op, a, b))
      /\ GenOp(op, a, b).t = IF op \in Relations THEN TInt ELSE t
  BY <1>1, <1>2, <1>3 DEF IsSettled, IsEntry
<1>5. QED BY <1>4 DEF t

\* What force_charshort_cast and vstore leave: an entry whose late conversion is
\* still to be made has a narrow type, which arithmetic widens to int.
IsPending(e) == IsEntry(e) /\ e.must \in BOOLEAN /\ (e.must => e.t.b = "byte")

\* Nothing pending is a case of at most a narrowing pending.
LEMMA SettledPending == ASSUME NEW e, IsSettled(e) PROVE IsPending(e)
<1>1. IsEntry(e) /\ e.must = FALSE BY DEF IsSettled
<1>2. QED BY <1>1 DEF IsPending

\* VT_MUSTCAST is not a part of the type.
LEMMA MustSet ==
    ASSUME NEW e, IsEntry(e), NEW w
    PROVE  /\ IsEntry([e EXCEPT !.must = w])
           /\ [e EXCEPT !.must = w].must = w /\ [e EXCEPT !.must = w].t = e.t
BY DEF IsEntry

\* The signed type of the same width.
LEMMA MadeSigned ==
    /\ [TInt EXCEPT !.u = FALSE] = TInt /\ [TUInt EXCEPT !.u = FALSE] = TInt
    /\ [TLong EXCEPT !.u = FALSE] = TLong /\ [TULong EXCEPT !.u = FALSE] = TLong
<1>1. ASSUME NEW b, NEW u, NEW w PROVE [Ty(b, u) EXCEPT !.u = w] = Ty(b, w)
  BY DEF Ty
<1>2. QED BY <1>1, Zenon DEF TInt, TUInt, TLong, TULong

\* force_charshort_cast: the narrowed value is computed as an int.
LEMMA ForcedType ==
    ASSUME NEW e, IsSettled(e), NEW t \in {TByte, TUByte}
    PROVE  IsSettled(Forced(e, t)) /\ (e.t = t => Forced(e, t).t = TInt)
<1> DEFINE count == Const(TInt, Width(e.t) - ByteBits)
           mask == Const(TInt, 2 ^ ByteBits - 1)
           left == GenOp("<<", e, count)
           signed == [left EXCEPT !.t.u = FALSE]
<1>1. /\ IsSettled(count) /\ count.t = TInt /\ IsSettled(mask) /\ mask.t = TInt
      /\ TInt \in Types /\ TUInt \in Types
  BY ConstSettled, TheTypes
<1>2. "&" \notin Shifts \cup Relations /\ "<<" \in Shifts \ Relations /\ ">>" \in Shifts \ Relations
  BY DEF Shifts, Relations
<1> HIDE DEF count, mask
<1>3. CASE t.u
  <2>1. Forced(e, t) = GenOp("&", e, mask) BY <1>3 DEF Forced, mask
  <2>2. IsSettled(Forced(e, t)) /\ Forced(e, t).t = OpType("&", e.t, TInt)
    BY <1>1, <1>2, <2>1, GenOpType
  <2>3. t = TUByte BY <1>3, TheTypes
  <2>4. OpType("&", TUByte, TInt) = TInt BY <1>2, OpTypeIs, TheTypes
  <2>5. QED BY <2>2, <2>3, <2>4
<1>4. CASE ~t.u
  <2>1. t = TByte BY <1>4, TheTypes
  <2>2. IsSettled(left) /\ left.t = OpType("<<", e.t, TInt) BY <1>1, <1>2, GenOpType
  <2>3. left.t \in {TInt, TUInt, TLong, TULong} /\ (e.t = t => left.t = TInt)
    BY <1>2, <2>1, <2>2, OpTypeIs, TheTypes
  <2> HIDE DEF left
  <2>4. IsSettled(signed) /\ signed.t \in {TInt, TLong} /\ (e.t = t => signed.t = TInt)
    <3> DEFINE tt == [left.t EXCEPT !.u = FALSE]
    <3>1. left.t \in {TInt, TUInt} => tt = TInt BY MadeSigned
    <3>2. left.t \in {TLong, TULong} => tt = TLong BY MadeSigned
    <3>3. left.t = TInt => tt = TInt BY <3>1
    <3>4. signed = [left EXCEPT !.t = tt] BY <2>2 DEF IsSettled, IsEntry
    <3>5. tt \in {TInt, TLong} /\ tt \in Types BY <2>3, <3>1, <3>2, TheTypes
    <3> HIDE DEF tt, signed
    <3>6. QED BY <2>2, <2>3, <3>3, <3>4, <3>5 DEF IsSettled, IsEntry
  <2> HIDE DEF signed
  <2>5. Forced(e, t) = GenOp(">>", signed, count) BY <1>4 DEF Forced, signed, left, count
  <2>6. IsSettled(Forced(e, t)) /\ Forced(e, t).t = OpType(">>", signed.t, TInt)
    BY <1>1, <1>2, <2>4, <2>5, GenOpType
  <2>7. OpType(">>", TInt, TInt) = TInt BY <1>2, OpTypeIs, TheTypes
  <2>8. QED BY <2>4, <2>6, <2>7
<1>5. QED BY <1>3, <1>4

\* An entry used as an operand is settled, and promotes as its type does in C.
LEMMA SettledType ==
    ASSUME NEW e, IsPending(e)
    PROVE  IsSettled(Settled(e)) /\ Promoted(Settled(e).t) = Promoted(e.t)
<1>1. CASE ~e.must BY <1>1 DEF Settled, IsPending, IsSettled, IsEntry
<1>2. CASE e.must
  <2> DEFINE d == [e EXCEPT !.must = FALSE]
  <2>1. IsSettled(d) /\ d.t = e.t BY MustSet DEF IsPending, IsSettled
  <2>2. Settled(e) = Forced(d, e.t) BY <1>2 DEF Settled
  <2> HIDE DEF d
  <2>3. e.t \in {TByte, TUByte} BY <1>2, TheTypes DEF IsPending, IsEntry
  <2>4. IsSettled(Settled(e)) /\ Settled(e).t = TInt BY <2>1, <2>2, <2>3, ForcedType
  <2>5. QED BY <2>3, <2>4, TypeCases, TheTypes DEF Promoted
<1>3. QED BY <1>1, <1>2 DEF IsPending

\* gen_cast gives the type that it was asked for.
LEMMA GenCastType ==
    ASSUME NEW e, IsPending(e), NEW t \in Types
    PROVE  IsSettled(GenCast(e, t)) /\ GenCast(e, t).t = t
<1> DEFINE d == Settled(e)
<1>1. IsSettled(d) BY SettledType
<1>2. GenCast(e, t) = IF d.t = t THEN d
                      ELSE IF d.r = "const" THEN ConstCast(d, t)
                      ELSE IF t = TBool THEN [GenOp("!=", d, Const(TInt, 0)) EXCEPT !.t = TBool]
                      ELSE IF t.b = "byte" THEN [Forced(d, t) EXCEPT !.t = t]
                      ELSE CastWide(d, t)
  BY DEF GenCast
<1> HIDE DEF d
<1>3. ASSUME NEW x, IsSettled(x) PROVE IsSettled([x EXCEPT !.t = t]) /\ [x EXCEPT !.t = t].t = t
  BY <1>3 DEF IsSettled, IsEntry
<1>4. IsSettled(ConstCast(d, t)) /\ ConstCast(d, t).t = t BY ConstSettled DEF ConstCast
<1>5. IsSettled(GenOp("!=", d, Const(TInt, 0)))
  BY <1>1, ConstSettled, GenOpType, TheTypes
<1>6. t.b = "byte" => IsSettled(Forced(d, t)) BY <1>1, ForcedType, TheTypes
<1>7. CastWide(d, t).t = t /\ IsSettled(CastWide(d, t)) BY <1>1, CastWideType
<1>8. QED BY <1>1, <1>2, <1>3, <1>4, <1>5, <1>6, <1>7

\* vstore gives the type of the variable.
LEMMA StoredType ==
    ASSUME NEW e, IsPending(e), NEW t \in Types
    PROVE  IsPending(Stored(e, t)) /\ Stored(e, t).t = t
<1>1. CASE e.t.b = "int" /\ t.b = "byte"
  <2> DEFINE v == Loaded([e EXCEPT !.t = t])
  <2>1. Stored(e, t) = [Reg(t, v) EXCEPT !.must = TRUE] BY <1>1 DEF Stored
  <2>2. IsSettled(Reg(t, v)) /\ Reg(t, v).t = t BY RegSettled
  <2> HIDE DEF v
  <2>3. IsEntry(Stored(e, t)) /\ Stored(e, t).must = TRUE /\ Stored(e, t).t = t
    BY <2>1, <2>2, MustSet DEF IsSettled
  <2>4. QED BY <1>1, <2>3 DEF IsPending
<1>2. CASE ~(e.t.b = "int" /\ t.b = "byte")
  <2>1. Stored(e, t) = Reg(t, Loaded(GenCast(e, t))) BY <1>2 DEF Stored
  <2>2. QED BY <2>1, RegSettled, SettledPending
<1>3. QED BY <1>1, <1>2

-----------------------------------------------------------------------------
(* The theorem                                                             *)

\* The inductive invariant: TypeAsC, and what the next operation relies on.
TypeInv == IsPending(vtop) /\ value.t = vtop.t

\* What an operand of an expression is on the value stack.
LEMMA OperandType ==
    ASSUME NEW o \in Sources
    PROVE  LET e == Operand(o.value, o.constant)
           IN  IsSettled(e) /\ e.t = o.value.t /\ o.value.t \in Types
<1>1. o.value \in Variables \cup Constants /\ o.constant \in BOOLEAN BY DEF Sources
<1>2. o.value.t \in Types BY <1>1, OperandAssumption
<1>3. CASE o.constant BY <1>2, <1>3, ConstSettled DEF Operand
<1>4. CASE ~o.constant BY <1>2, <1>4, LvalueSettled DEF Operand
<1>5. QED BY <1>1, <1>2, <1>3, <1>4

\* The first operand has its type.
LEMMA TypeInvInit == Init => TypeInv
<1>1. SUFFICES ASSUME Init PROVE TypeInv
  OBVIOUS
<1>2. PICK o \in Sources : vtop = Operand(o.value, o.constant) /\ value = o.value
  BY <1>1 DEF Init
<1>3. QED BY <1>2, OperandType, SettledPending DEF TypeInv

\* An operation on entries of the types of a and b.
LEMMA BinaryType ==
    ASSUME NEW op \in Operators, NEW e1, NEW e2, IsSettled(e1), IsSettled(e2),
           NEW a, NEW b, a.t \in Types, b.t \in Types,
           Promoted(e1.t) = Promoted(a.t), Promoted(e2.t) = Promoted(b.t)
    PROVE  IsPending(GenOp(op, e1, e2)) /\ Result(op, a, b).t = GenOp(op, e1, e2).t
<1>1. e1.t \in Types /\ e2.t \in Types BY DEF IsSettled, IsEntry
<1>2. OpType(op, e1.t, e2.t) = OpType(op, a.t, b.t) BY <1>1, OpTypeType
<1>3. /\ IsSettled(GenOp(op, e1, e2))
      /\ GenOp(op, e1, e2).t = IF op \in Relations THEN TInt ELSE OpType(op, a.t, b.t)
  BY <1>2, GenOpType
<1>4. Result(op, a, b).t = ResultType(op, a.t, b.t) BY DEF Result
<1>5. QED BY <1>3, <1>4, OpTypeAsC, SettledPending

\* Every operation keeps the type of vtop that of the value C gives it.
LEMMA TypeInvNext == TypeInv /\ [Next]_vars => TypeInv'
<1>1. SUFFICES ASSUME TypeInv, [Next]_vars PROVE TypeInv'
  OBVIOUS
<1>2. IsPending(vtop) /\ value.t = vtop.t /\ vtop.t \in Types
  BY <1>1 DEF TypeInv, IsPending, IsEntry
<1>3. ASSUME NEW t \in Types, Cast(t) PROVE TypeInv'
  <2>1. vtop' = GenCast(vtop, t) /\ value'.t = t BY <1>3 DEF Cast
  <2>2. QED BY <1>2, <2>1, GenCastType, SettledPending DEF TypeInv
<1>4. ASSUME NEW t \in Types, Assign(t) PROVE TypeInv'
  <2>1. vtop' = Stored(vtop, t) /\ value'.t = t BY <1>4 DEF Assign
  <2>2. QED BY <1>2, <2>1, StoredType DEF TypeInv
<1>5. ASSUME NEW op \in Operators, NEW o \in Sources, NEW right \in BOOLEAN,
             Binary(op, o, right)
      PROVE  TypeInv'
  <2> DEFINE other == Operand(o.value, o.constant)
             e == Settled(vtop)
  <2>1. IsSettled(other) /\ other.t = o.value.t /\ o.value.t \in Types BY OperandType
  <2>2. IsSettled(e) /\ Promoted(e.t) = Promoted(value.t) BY <1>2, SettledType
  <2>3. CASE right
    <3>1. vtop' = GenOp(op, e, other) /\ value' = Result(op, value, o.value)
      BY <1>5, <2>3 DEF Binary
    <3> HIDE DEF other, e
    <3>2. QED BY <1>2, <2>1, <2>2, <3>1, BinaryType DEF TypeInv
  <2>4. CASE ~right
    <3>1. vtop' = GenOp(op, other, e) /\ value' = Result(op, o.value, value)
      BY <1>5, <2>4 DEF Binary
    <3> HIDE DEF other, e
    <3>2. QED BY <1>2, <2>1, <2>2, <3>1, BinaryType DEF TypeInv
  <2>5. QED BY <2>3, <2>4
<1>6. CASE UNCHANGED vars BY <1>1, <1>6 DEF vars, TypeInv
<1>7. QED BY <1>1, <1>3, <1>4, <1>5, <1>6 DEF Next

\* The type that gen_op, gen_cast and vstore find is the type that the
\* expression has in C, through every sequence of operations, folded or not.
THEOREM TypesAsC == Spec => []TypeAsC
<1>1. TypeInv => TypeAsC BY DEF TypeInv, TypeAsC
<1>2. QED BY TypeInvInit, TypeInvNext, <1>1, PTL DEF Spec
=============================================================================
