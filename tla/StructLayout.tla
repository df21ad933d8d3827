----------------------------- MODULE StructLayout -----------------------------
(***************************************************************************)
(* Where the members of a structure are (struct_layout and struct_decl in  *)
(* tccgen.c), and which bits of it are read and written for a bit-field    *)
(* (gv, vstore, load_packed_bf, store_packed_bf).  A member is the size of *)
(* its type, the width of a bit-field or PLAIN, whether it has a name, and *)
(* whether it is packed.                                                   *)
(***************************************************************************)
EXTENDS Integers, Sequences, SequencesExt, Loops

PLAIN == -1
Member(size, bits, named, packed) == [size |-> size, bits |-> bits, named |-> named, packed |-> packed]

Aligned(n, a) == ((n + a - 1) \div a) * a
Larger(a, b) == IF a > b THEN a ELSE b

\* struct_decl: a bit-field as wide as its type is none, unless it is packed.
\* The attribute of a structure is known here only if it stands before the brace.
Declared(m, known) == IF m.bits = m.size * 8 /\ ~(m.packed /\ known) THEN [m EXCEPT !.bits = PLAIN] ELSE m

\* mutant: the bits before the member in its container are forgotten
CrossesFull(c, pos, m, align) == m.bits + pos > m.size * 8

\* the bits of the containers that a bit-field would touch are too many
Crosses(c, pos, m, align) ==
    (((c * 8 + pos) % (align * 8)) + m.bits + align * 8 - 1) \div (align * 8) > m.size \div align

\* the first pass.  a.c, a.pos: the next member; a.fields: the members so far
Place(a, m) ==
    LET zero == m.bits = 0
        packed == m.packed /\ ~zero
        align == IF packed THEN 1 ELSE m.size
        begin == Aligned(a.c + (a.pos + 7) \div 8, align)
        new == zero \/ (~packed /\ Crosses(a.c, a.pos, m, align))
        c == IF new THEN begin ELSE a.c + align * (a.pos \div (align * 8))
        pos == IF new THEN 0 ELSE a.pos % (align * 8)
        \* in pcc mode, long long bit-fields have type int if they fit
        size == IF m.size = 8 /\ m.bits <= 32 THEN 4 ELSE m.size
        field(o, p, s) == [m |-> m, c |-> o, pos |-> p, size |-> s, bytewise |-> FALSE]
    IN  IF m.bits = PLAIN
        THEN [c |-> begin + m.size, pos |-> 0, align |-> Larger(a.align, align),
              fields |-> Append(a.fields, field(begin, 0, m.size))]
        ELSE [c |-> c, pos |-> pos + m.bits, align |-> Larger(a.align, IF m.named THEN align ELSE 1),
              fields |-> Append(a.fields, field(c, pos, size))]

\* mutant: a bit-field is also read through a type that goes beyond the structure
WithinAnything(end, size) == TRUE

\* an access that ends there stays in the structure
Within(end, size) == end <= size

\* the second pass: the address, and the size, of the access to a bit-field.  The
\* alignment is that of the size found last, until the address stays.
Access(f) ==
    LET first == f.c * 8 + f.pos
        at(align) == (first \div (8 * align)) * align
        needed(cx) == LET s == (first - cx * 8 + f.m.bits + 7) \div 8
                      IN  IF s > 4 THEN 8 ELSE IF s > 2 THEN 4 ELSE IF s > 1 THEN 2 ELSE 1
        found[align \in {1, 2, 4, 8}] ==
            LET s == needed(at(align)) IN IF at(s) = at(align) THEN <<at(align), s>> ELSE found[s]
    IN  [c |-> found[1][1], size |-> found[1][2], pos |-> first - found[1][1] * 8]

Accessible(f, size) ==
    IF f.m.bits <= 0 \/ (f.pos + f.m.bits <= f.size * 8 /\ Within(f.c + f.size, size)) THEN f
    ELSE LET a == Access(f)
         IN  IF a.pos + f.m.bits <= a.size * 8 /\ Within(a.c + a.size, size)
             THEN [f EXCEPT !.c = a.c, !.pos = a.pos, !.size = a.size]
             ELSE [f EXCEPT !.bytewise = TRUE]

Layout(members, known) ==
    LET a == ForEach(Place, [c |-> 0, pos |-> 0, align |-> 1, fields |-> <<>>],
                     [i \in DOMAIN members |-> Declared(members[i], known)])
        size == Aligned(a.c + (a.pos + 7) \div 8, a.align)
    IN  [size |-> size, align |-> a.align,
         fields |-> [i \in DOMAIN a.fields |-> Accessible(a.fields[i], size)]]

-----------------------------------------------------------------------------
(* Accesses.  A bit of the structure is named by its number.               *)

\* load_packed_bf and store_packed_bf, a byte at a time: the bits in the order of
\* the value
Bytewise(f) ==
    LET Round(a, byte) ==
          LET n == IF 8 - a.pos > a.left THEN a.left ELSE 8 - a.pos
          IN  IF a.left = 0 THEN a
              ELSE [bits |-> a.bits \o [i \in 1 .. n |-> a.byte * 8 + a.pos + i - 1],
                    byte |-> a.byte + 1, pos |-> 0, left |-> a.left - n]
    IN  ForEach(Round, [bits |-> <<>>, byte |-> f.c + f.pos \div 8, pos |-> f.pos % 8,
                        left |-> f.m.bits], [i \in 1 .. 9 |-> i]).bits

\* gv and vstore: shifts in a word; what is not in the word is lost
Word(f) == [i \in 1 .. f.m.bits |-> IF f.pos + i <= f.size * 8 THEN f.c * 8 + f.pos + i - 1 ELSE -1]

Accessed(f) == IF f.bytewise THEN Bytewise(f) ELSE Word(f)
Touched(f) == IF f.bytewise THEN {b \div 8 : b \in Range(Bytewise(f))} ELSE f.c .. f.c + f.size - 1

-----------------------------------------------------------------------------
(* The ABI: a bit-field is in a container of its type, aligned as the type *)
(* is, unless it is packed.                                                *)

Abi(members) ==
    LET Next(a, m) ==
          LET align == IF m.packed /\ m.bits # 0 THEN 1 ELSE m.size
              fits == m.bits > 0 /\ (m.packed \/ a.bit \div (8 * align) = (a.bit + m.bits - 1) \div (8 * align))
              at == IF m.bits = PLAIN \/ ~fits
                    THEN Aligned(a.bit, IF m.packed /\ m.bits # 0 THEN 8 ELSE 8 * align) ELSE a.bit
          IN  [bit |-> at + (IF m.bits = PLAIN THEN 8 * m.size ELSE m.bits),
               align |-> IF m.named THEN Larger(a.align, align) ELSE a.align,
               at |-> Append(a.at, at)]
        a == ForEach(Next, [bit |-> 0, align |-> 1, at |-> <<>>], members)
    IN  [size |-> Aligned((a.bit + 7) \div 8, a.align), align |-> a.align, at |-> a.at]

=============================================================================
