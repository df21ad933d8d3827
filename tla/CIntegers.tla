------------------------------ MODULE CIntegers ------------------------------
(***************************************************************************)
(* The integers of C (C99 6.2.5, 6.3.1, 6.5): values are integers, every   *)
(* type has a range, and operands are converted before an operation.       *)
(***************************************************************************)
EXTENDS Integers

CONSTANTS ByteBits, IntBits, LongBits    \* the widths of char, int and long long

ASSUME WidthAssumption == /\ {ByteBits, IntBits, LongBits} \subseteq Nat \ {0, 1}
                          /\ ByteBits < IntBits /\ IntBits < LongBits
                          /\ LongBits <= 2 ^ (IntBits - 1)

\* a type: the basic one, and whether it is unsigned
Ty(b, u) == [b |-> b, u |-> u]
TInt   == Ty("int", FALSE)
TUInt  == Ty("int", TRUE)
TLong  == Ty("long", FALSE)
TULong == Ty("long", TRUE)
TBool  == Ty("bool", FALSE)
TByte  == Ty("byte", FALSE)
TUByte == Ty("byte", TRUE)
Types == {TInt, TUInt, TLong, TULong, TBool, TByte, TUByte}

Bits[t \in Types] == CASE t.b = "bool" -> 1 [] t.b = "byte" -> ByteBits
                        [] t.b = "int" -> IntBits [] t.b = "long" -> LongBits
Lowest[t \in Types]  == IF t.u \/ t = TBool THEN 0 ELSE -(2 ^ (Bits[t] - 1))
Highest[t \in Types] == IF t.u \/ t = TBool THEN 2 ^ Bits[t] - 1 ELSE 2 ^ (Bits[t] - 1) - 1
InRange(t, n) == Lowest[t] <= n /\ n <= Highest[t]

\* n converted to t
Converted(n, t) == IF t = TBool THEN IF n = 0 THEN 0 ELSE 1
                   ELSE ((n - Lowest[t]) % (2 ^ Bits[t])) + Lowest[t]

Promoted(t) == IF t.b \in {"bool", "byte"} THEN TInt ELSE t
Common[ts \in Types \X Types] ==
    LET p == {Promoted(ts[1]), Promoted(ts[2])}
        b == IF \E t \in p : t.b = "long" THEN "long" ELSE "int"
    IN  Ty(b, \E t \in p : t.u /\ t.b = b)

Shifts == {"<<", ">>"}
Relations == {"<", ">", "<=", ">=", "==", "!="}
Bitwise == {"&", "|", "^"}
Operators == {"+", "-", "*", "/", "%"} \cup Shifts \cup Relations \cup Bitwise

\* the bit operators on natural numbers
And[x \in Nat, y \in Nat] ==
    IF x = 0 \/ y = 0 THEN 0 ELSE (x % 2) * (y % 2) + 2 * And[x \div 2, y \div 2]
BitOp(op, x, y) == CASE op = "&" -> And[x, y] [] op = "|" -> x + y - And[x, y]
                     [] op = "^" -> x + y - 2 * And[x, y]

Truncated(x, y) == LET q == (IF x < 0 THEN -x ELSE x) \div (IF y < 0 THEN -y ELSE y)
                   IN  IF (x < 0) = (y < 0) THEN q ELSE -q

ResultType(op, t1, t2) == IF op \in Relations THEN TInt ELSE IF op \in Shifts THEN Promoted(t1)
                          ELSE Common[<<t1, t2>>]

\* the result before it is converted to the type of the operation
Exact(op, x, y, t) ==
    CASE op = "+" -> x + y [] op = "-" -> x - y [] op = "*" -> x * y
      [] op = "/" -> Truncated(x, y) [] op = "%" -> x - y * Truncated(x, y)
      [] op = "<<" -> x * 2 ^ y [] op = ">>" -> x \div 2 ^ y
      [] op = "<" -> IF x < y THEN 1 ELSE 0 [] op = ">" -> IF x > y THEN 1 ELSE 0
      [] op = "<=" -> IF x <= y THEN 1 ELSE 0 [] op = ">=" -> IF x >= y THEN 1 ELSE 0
      [] op = "==" -> IF x = y THEN 1 ELSE 0 [] op = "!=" -> IF x # y THEN 1 ELSE 0
      [] OTHER -> BitOp(op, x % (2 ^ Bits[t]), y % (2 ^ Bits[t]))

\* a value: [t |-> its type, n |-> the integer]
Operands(op, a, b) == IF op \in Shifts THEN <<a.n, b.n>>
                      ELSE LET t == Common[<<a.t, b.t>>] IN <<Converted(a.n, t), Converted(b.n, t)>>

\* what C defines: no overflow of a signed type, no division by zero, no shift
\* by more than the width or of a negative number to the left
Defined(op, a, b) ==
    LET x == Operands(op, a, b)[1]
        y == Operands(op, a, b)[2]
        t == ResultType(op, a.t, b.t)
    IN  /\ op \in {"/", "%"} => y # 0 /\ InRange(t, Truncated(x, y))
        /\ op \in Shifts => 0 <= y /\ y < Bits[t]
        /\ op = "<<" /\ ~t.u => x >= 0
        /\ op \in {"+", "-", "*", "<<"} /\ ~t.u => InRange(t, Exact(op, x, y, t))

Result(op, a, b) ==
    LET x == Operands(op, a, b)
        t == ResultType(op, a.t, b.t)
    IN  [t |-> t, n |-> Converted(Exact(op, x[1], x[2], Common[<<a.t, b.t>>]), t)]
=============================================================================
