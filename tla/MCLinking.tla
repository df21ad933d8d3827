------------------------------ MODULE MCLinking ------------------------------
(***************************************************************************)
(* Instances of Linking for TLC: worlds of archives, which refer to one    *)
(* another in every way; of objects with link-once sections; and of shared *)
(* libraries.                                                              *)
(***************************************************************************)
EXTENDS Linking

S(n, b, sec) == [name |-> n, bind |-> b, sec |-> sec, vis |-> "DEFAULT"]

\* an object with one section, which refers to its undefined symbols
Plain(syms) ==
    [secs |-> <<"data">>, syms |-> syms,
     rels |-> LET refs == SelectSeq([i \in DOMAIN syms |-> <<i, syms[i].sec>>],
                                    LAMBDA p : p[2] = 0)
              IN  <<>> \o [i \in DOMAIN refs |-> [sec |-> 1, off |-> i, sym |-> refs[i][1]]]]

Obj(o)     == [kind |-> "obj", objs |-> <<o>>]
Ar(objs)   == [kind |-> "ar", objs |-> objs]
Group(fs)  == [kind |-> "script", lists |-> <<[group |-> TRUE, files |-> fs]>>]
Input(fs)  == [kind |-> "script", lists |-> <<[group |-> FALSE, files |-> fs],
                                              [group |-> TRUE, files |-> fs]>>]
Cmd(fs)    == <<>> \o [i \in DOMAIN fs |-> [f |-> fs[i], whole |-> FALSE]]
Whole(fs)  == <<>> \o [i \in DOMAIN fs |-> [f |-> fs[i], whole |-> fs[i] = "x"]]

-----------------------------------------------------------------------------
Names == {"a", "b", "c"}

\* a member defines one name and refers to at most one other; one weak definition
Member == {Plain(IF r = d THEN <<S(d, "GLOBAL", 1)>> ELSE <<S(d, "GLOBAL", 1), S(r, "GLOBAL", 0)>>) :
             d \in Names, r \in Names}
          \cup {Plain(<<S("b", "WEAK", 1), S("c", "GLOBAL", 0)>>)}

\* main refers strongly to a, and perhaps weakly to b, which no member refers to
\* strongly then: see README
Main == {Plain(<<S("a", "GLOBAL", 0), S("b", "GLOBAL", 0)>>),
         [Plain(<<S("a", "GLOBAL", -1), S("c", "GLOBAL", 0)>>) EXCEPT !.rels = <<>>]}
WeakMain == Plain(<<S("a", "GLOBAL", 0), S("b", "WEAK", 0)>>)

Lines == {Cmd(<<"m", "x", "y">>), Cmd(<<"m", "x", "y", "x">>), Cmd(<<"m", "g">>),
          Cmd(<<"m", "i", "y">>)}

Files(main, x1, y1) == [m |-> Obj(main), x |-> Ar(x1), y |-> Ar(y1),
                        g |-> Group(<<"x", "y">>), i |-> Input(<<"y", "x">>)]

RefersTo(n, o) == \E i \in DOMAIN o.syms : o.syms[i].name = n /\ o.syms[i].sec = 0

\* the one member of the second archive
Other == {o \in Member : o.syms[1].name # "a" /\ Len(o.syms) = 2 /\ o.syms[1].bind = "GLOBAL"}

ArchiveCode ==
    [cmd: Lines, main: Main, x1: Member, x2: Member, y: Other]
    \cup {c \in [cmd: Lines, main: {WeakMain}, x1: Member, x2: Member, y: Other] :
            ~RefersTo("b", c.x1) /\ ~RefersTo("b", c.x2) /\ ~RefersTo("b", c.y)}
    \cup [cmd: {Whole(<<"m", "x", "y">>)}, main: Main, x1: Other, x2: Other, y: Member]

-----------------------------------------------------------------------------
\* objects with a link-once section that holds the global f and a local symbol,
\* and with a section that the linker ignores; last is the section of the last
\* global symbol; R is what the code refers to
OnceObject(main, last, R, own) ==
    LET globals == IF last = 2 THEN <<S(main, "GLOBAL", 1), S("f", "GLOBAL", 2)>>
                   ELSE <<S("f", "GLOBAL", 2), S(main, "GLOBAL", 1)>>
        syms == <<S("", "LOCAL", 1), S("", "LOCAL", 2), S("", "LOCAL", 3)>> \o globals
                \o <<S("h", "GLOBAL", 0)>>
    IN  [secs |-> <<"data", "once", "note">>, syms |-> syms,
         rels |-> <<>> \o [i \in DOMAIN R |-> [sec |-> 1, off |-> i, sym |-> R[i]]]
                  \o (IF own THEN <<[sec |-> 2, off |-> 1, sym |-> 6]>> ELSE <<>>)]

\* what the last symbol decides for all relocations of the object: see README
OnceKind ==
    {s \in [last: {1, 2}, refs: {<<1>>, <<2>>, <<3>>, <<4>>, <<1, 5>>, <<2, 4>>, <<3, 5>>,
                                 <<4, 6>>, <<5, 1, 6>>, <<1, 2, 4, 6>>}] :
       /\ 2 \in Range(s.refs) => s.last = 2
       /\ 3 \in Range(s.refs) => s.last = 1}

OnceFiles(c) == [m |-> Obj(OnceObject("main", c.p.last, c.p.refs, c.own)),
                 n |-> Obj(OnceObject("other", c.q.last, c.q.refs, c.own)),
                 h |-> Obj(Plain(<<S("h", "GLOBAL", 1)>>))]

-----------------------------------------------------------------------------
D(l, n, b, shndx, type, value) ==
    [name |-> n, bind |-> b, vis |-> "DEFAULT", shndx |-> shndx, type |-> type,
     value |-> value, dll |-> l]
Dll(syms, needed) == [kind |-> "dll", syms |-> syms, needed |-> needed]

\* the first library has an object with a weak and a strong name, and needs the
\* second one, which needs the first; v is the place of the object of the second
DllFiles(main, v) ==
    [m |-> Obj(Plain(main)),
     p |-> Dll(<<D(1, "e", "WEAK", "data", "object", 1), D(1, "E", "GLOBAL", "data", "object", 1),
               D(1, "f", "GLOBAL", "data", "func", 2), D(1, "g", "GLOBAL", "UNDEF", "none", 0)>>,
               <<"q">>),
     q |-> Dll(<<D(2, "g", "GLOBAL", "data", "object", v),
               D(2, "e", "GLOBAL", "UNDEF", "none", 0), D(2, "u", "GLOBAL", "UNDEF", "none", 0)>>,
               <<"p">>)]

\* what main has to do with a name: nothing, a reference, a definition
Uses(n) == {<<>>, <<S(n, "GLOBAL", 0)>>, <<S(n, "WEAK", 0)>>, <<S(n, "GLOBAL", 1)>>}
Mains == {e \o f \o g \o u : e \in Uses("e"), f \in Uses("f"), g \in Uses("g"), u \in Uses("u")}

DllLines == {Cmd(<<"m", "p">>), Cmd(<<"m", "q">>), Cmd(<<"m", "p", "q">>), Cmd(<<"m", "q", "p">>),
             Cmd(<<"m">>)}

-----------------------------------------------------------------------------
\* a world is coded by the record of what it is made from
MCWorld(c) ==
    CASE "x1" \in DOMAIN c -> [cmd |-> c.cmd, file |-> Files(c.main, <<c.x1, c.x2>>, <<c.y>>)]
      [] "own" \in DOMAIN c -> [cmd |-> Cmd(<<"m", "n", "h">>), file |-> OnceFiles(c)]
      [] "v" \in DOMAIN c -> [cmd |-> c.cmd, file |-> DllFiles(c.main, c.v)]

MCCode      == ArchiveCode \cup [own: {FALSE}, p: OnceKind, q: OnceKind]
               \cup [cmd: DllLines, main: Mains, v: {3}]
MCOnceCode  == [own: {TRUE}, p: OnceKind, q: OnceKind]
MCAliasCode == [cmd: DllLines, main: Mains, v: {1}]

\* the worlds are such as the theorems are about
ASSUME MCWorldsPlain ==
    \A c \in MCCode : LET w == MCWorld(c) IN PlainWorld(w) /\ RelocWorld(w) /\ BoundWorld(w)

=============================================================================
