------------------------- MODULE Conditionals_proofs -------------------------
(***************************************************************************)
(* Proofs about Conditionals: for every text of the files, with groups and *)
(* inclusions nested to any depth that the stacks have, the stacks agree   *)
(* with the structure of the files (TypeCorrect), exactly the lines that C *)
(* asks for are processed (ActiveLinesRead), a file or unit is refused for *)
(* a reason (VerdictsRight), and the cache says that a file may be skipped *)
(* only if reading it would do nothing (CacheSoundness, ReadOncePerUnit).  *)
(***************************************************************************)
EXTENDS Conditionals, FiniteSetTheorems, Loops_proofs

-----------------------------------------------------------------------------
(* The structure of a file: t is its text, p a line                        *)

\* What a line does to the depth
Change(l) == IF Opens(l) THEN 1 ELSE IF l.k = "endif" THEN -1 ELSE 0

\* The lines of a kind before p
Before(K, p) == {q \in 1 .. p - 1 : q \in K}

\* The number of lines of a kind grows with each of them.
LEMMA CountNext ==
    ASSUME NEW K, NEW p \in Nat \ {0}
    PROVE  /\ Cardinality(Before(K, p)) \in Nat
           /\ Cardinality(Before(K, p + 1)) = Cardinality(Before(K, p)) + IF p \in K THEN 1 ELSE 0
<1>1. IsFiniteSet(1 .. p - 1) BY 1 \in Int, p - 1 \in Int, FS_Interval
<1>2. IsFiniteSet(Before(K, p)) BY <1>1, FS_Subset DEF Before
<1>3. Cardinality(Before(K, p)) \in Nat BY <1>2, FS_CardinalityType
<1>4. CASE p \in K
  <2>1. Before(K, p + 1) = Before(K, p) \cup {p} BY <1>4 DEF Before
  <2>2. p \notin Before(K, p) BY DEF Before
  <2>3. QED BY <1>2, <1>3, <1>4, <2>1, <2>2, FS_AddElement
<1>5. CASE p \notin K
  <2>1. Before(K, p + 1) = Before(K, p) BY <1>5 DEF Before
  <2>2. QED BY <1>3, <1>5, <2>1
<1>6. QED BY <1>3, <1>4, <1>5

\* The lines that open a group and those that close one
Openings(t) == {q \in Nat : Opens(t[q])}
Closings(t) == {q \in Nat : t[q].k = "endif"}

\* The depth with these sets
LEMMA DepthIs ==
    ASSUME NEW t, NEW p \in Nat
    PROVE  Depth(t, p) = Cardinality(Before(Openings(t), p)) - Cardinality(Before(Closings(t), p))
<1>1. Before(Openings(t), p) = {q \in 1 .. p - 1 : Opens(t[q])} BY DEF Before, Openings
<1>2. Before(Closings(t), p) = {q \in 1 .. p - 1 : t[q].k = "endif"} BY DEF Before, Closings
<1>3. QED BY <1>1, <1>2 DEF Depth

\* The depth changes by one line at a time.
LEMMA DepthNext ==
    ASSUME NEW t, NEW p \in Nat \ {0}
    PROVE  Depth(t, p) \in Int /\ Depth(t, p + 1) = Depth(t, p) + Change(t[p])
<1> DEFINE op(q) == Cardinality(Before(Openings(t), q))
           cl(q) == Cardinality(Before(Closings(t), q))
<1>1. Depth(t, p) = op(p) - cl(p) /\ Depth(t, p + 1) = op(p + 1) - cl(p + 1) BY DepthIs
<1>2. op(p) \in Nat /\ op(p + 1) = op(p) + IF p \in Openings(t) THEN 1 ELSE 0 BY CountNext
<1>3. cl(p) \in Nat /\ cl(p + 1) = cl(p) + IF p \in Closings(t) THEN 1 ELSE 0 BY CountNext
<1> HIDE DEF op, cl
<1>4. p \in Openings(t) <=> Opens(t[p]) BY DEF Openings
<1>5. p \in Closings(t) <=> t[p].k = "endif" BY DEF Closings
<1>6. Opens(t[p]) => t[p].k # "endif" BY DEF Opens
<1>7. Depth(t, p) \in Int BY <1>1, <1>2, <1>3
<1>8. CASE Opens(t[p]) BY <1>1, <1>2, <1>3, <1>4, <1>5, <1>6, <1>8 DEF Change
<1>9. CASE ~Opens(t[p]) /\ t[p].k = "endif" BY <1>1, <1>2, <1>3, <1>4, <1>5, <1>9 DEF Change
<1>10. CASE ~Opens(t[p]) /\ t[p].k # "endif" BY <1>1, <1>2, <1>3, <1>4, <1>5, <1>10 DEF Change
<1>11. QED BY <1>7, <1>8, <1>9, <1>10

\* A file begins outside of its groups.
LEMMA DepthFirst == ASSUME NEW t PROVE Depth(t, 1) = 0
<1>1. Before(Openings(t), 1) = {} /\ Before(Closings(t), 1) = {} BY DEF Before
<1>2. Depth(t, 1) = Cardinality({}) - Cardinality({}) BY <1>1, DepthIs
<1>3. QED BY <1>2, FS_EmptySet

\* The first n lines are the same.
Same(t, u, n) == \A q \in 1 .. n : u[q] = t[q]

\* The structure of a file up to a line depends on the lines before it.
LEMMA StructureSame ==
    ASSUME NEW t, NEW u, NEW p \in Nat, Same(t, u, p - 1)
    PROVE  /\ \A q \in 1 .. p : Depth(u, q) = Depth(t, q)
           /\ \A q \in 1 .. p : Around(u, q) = Around(t, q)
           /\ \A s \in 1 .. p, q \in 1 .. p : Heads(u, s, q) = Heads(t, s, q)
<1>1. ASSUME NEW q \in 1 .. p PROVE Depth(u, q) = Depth(t, q)
  <2>1. Before(Openings(u), q) = Before(Openings(t), q) BY <1>1 DEF Before, Openings, Same
  <2>2. Before(Closings(u), q) = Before(Closings(t), q) BY <1>1 DEF Before, Closings, Same
  <2>3. QED BY <1>1, <2>1, <2>2, DepthIs
<1>2. ASSUME NEW q \in 1 .. p PROVE Around(u, q) = Around(t, q)
  <2>1. \A s \in 1 .. q - 1 : Opens(u[s]) <=> Opens(t[s]) BY <1>2 DEF Same
  <2>2. \A s \in 1 .. q - 1 : Depth(u, s) = Depth(t, s) BY <1>1
  <2>3. \A s \in 1 .. q - 1 : \A r \in s + 1 .. q : Depth(u, r) = Depth(t, r) BY <1>1
  <2>4. \A s \in 1 .. q - 1 : (\A r \in s + 1 .. q : Depth(u, r) > Depth(u, s))
                              <=> (\A r \in s + 1 .. q : Depth(t, r) > Depth(t, s))
    BY <2>2, <2>3
  <2>5. QED BY <2>1, <2>4 DEF Around
<1>3. ASSUME NEW s \in 1 .. p, NEW q \in 1 .. p PROVE Heads(u, s, q) = Heads(t, s, q)
  <2>1. \A h \in s + 1 .. q - 1 : u[h].k = t[h].k /\ Depth(u, h) = Depth(t, h)
    BY <1>1 DEF Same
  <2>2. Depth(u, s) = Depth(t, s) BY <1>1
  <2>3. QED BY <2>1, <2>2 DEF Heads
<1>4. QED BY <1>1, <1>2, <1>3

\* A set of lines that is not empty has a last one.
LEMMA LastLine ==
    ASSUME NEW n \in Nat, NEW S \in SUBSET (1 .. n), S # {}
    PROVE  Max(S) \in S /\ \A h \in S : h <= Max(S)
<1> DEFINE D == {n - h : h \in S}
<1>1. D \in SUBSET Nat /\ D # {}
  <2>1. \A h \in S : h \in 1 .. n OBVIOUS
  <2>2. \A h \in 1 .. n : n - h \in Nat OBVIOUS
  <2>3. QED BY <2>1, <2>2
<1>2. PICK m \in D : \A k \in D : m <= k BY <1>1, LeastElement
<1>3. PICK h \in S : m = n - h BY <1>2
<1>4. ASSUME NEW g \in S PROVE h >= g
  <2>1. n - g \in D OBVIOUS
  <2>2. n - h <= n - g BY <1>2, <1>3, <2>1
  <2>3. QED BY <2>2
<1>5. \E x \in S : \A y \in S : x >= y BY <1>4
<1>6. QED BY <1>5 DEF Max

\* Sections begin in the file, the first one with its group.
LEMMA HeadsAre ==
    ASSUME NEW t, NEW p \in Nat, NEW s \in 1 .. p - 1
    PROVE  /\ s \in Heads(t, s, p) /\ Heads(t, s, p) \subseteq 1 .. p - 1
           /\ Max(Heads(t, s, p)) \in Heads(t, s, p)
           /\ \A h \in Heads(t, s, p) : h <= Max(Heads(t, s, p))
           /\ \A h \in Heads(t, s, p) : h >= s
<1>1. s \in Heads(t, s, p) /\ Heads(t, s, p) \subseteq 1 .. p - 1 BY DEF Heads
<1>2. p - 1 \in Nat OBVIOUS
<1>3. Heads(t, s, p) \in SUBSET (1 .. p - 1) /\ Heads(t, s, p) # {} BY <1>1
<1>4. \A h \in Heads(t, s, p) : h >= s BY DEF Heads
<1>5. QED BY <1>1, <1>2, <1>3, <1>4, LastLine

\* The section that is to be read depends on the lines before and their conditions.
LEMMA ChosenSame ==
    ASSUME NEW t, NEW u, NEW p \in Nat, Same(t, u, p - 1), NEW s \in 1 .. p - 1,
           NEW y, NEW z, \A q \in 1 .. p - 1 : q \in y <=> q \in z
    PROVE  Chosen(u, s, p, z) <=> Chosen(t, s, p, y)
<1>1. Heads(u, s, p) = Heads(t, s, p) BY StructureSame
<1>2. /\ Heads(t, s, p) \subseteq 1 .. p - 1
      /\ Max(Heads(t, s, p)) \in 1 .. p - 1
  BY HeadsAre
<1>3. \A h \in 1 .. p - 1 : u[h].k = t[h].k BY DEF Same
<1>4. QED BY <1>1, <1>2, <1>3 DEF Chosen

\* A misplaced line is one that the lines up to it show to be misplaced.
LEMMA MisplacedSame ==
    ASSUME NEW t, NEW u, NEW p \in Nat, Same(t, u, p), NEW q \in 1 .. p
    PROVE  Misplaced(u, q) <=> Misplaced(t, q)
<1>1. Same(t, u, p - 1) BY DEF Same
<1>2. \A r \in 1 .. p : Depth(u, r) = Depth(t, r) /\ Around(u, r) = Around(t, r)
  BY <1>1, StructureSame
<1>3. \A r \in 1 .. p : u[r].k = t[r].k BY DEF Same
<1>4. \A r \in 1 .. q - 1 : r \in 1 .. p OBVIOUS
<1>5. QED BY <1>2, <1>3, <1>4 DEF Misplaced

-----------------------------------------------------------------------------
(* A file that is read: t its text, fl the BufferedFile                    *)

\* What a BufferedFile has about the lines read so far
Reader(fl) ==
    /\ fl.pos \in Nat \ {0} /\ fl.base \in Nat
    /\ fl.run \subseteq 1 .. fl.pos - 1 /\ fl.yes \subseteq 1 .. fl.pos - 1

\* The file after another line
Later(fl, gl) ==
    /\ gl.f = fl.f /\ gl.base = fl.base /\ gl.pos = fl.pos + 1
    /\ gl.run \in {fl.run, fl.run \cup {fl.pos}} /\ gl.yes \in {fl.yes, fl.yes \cup {fl.pos}}

\* The groups that are open in the file, of which there are those on ifdef_stack
\* between base and top, and k that preprocess_skip() counts
Sits(t, fl, top, k) ==
    /\ Depth(t, fl.pos) = top - fl.base + k
    /\ \A p \in 1 .. fl.pos : Depth(t, p) >= 0

\* A line that belongs to no group of its file
Lost(t, p) == t[p].k \in {"else", "elif", "endif"} /\ Depth(t, p) <= 0
Placed(t, fl) == \A p \in 1 .. fl.pos - 1 : ~Lost(t, p)

\* The group at line s is open, the d-th one; v is its element of ifdef_stack: bit 1
\* is set if there was an #else, and the bits differ if a section was taken before it;
\* and its section is to be read or not
OpenGroup(t, fl, s, d, v, chosen) ==
    LET heads == Heads(t, s, fl.pos)
    IN  /\ s \in Around(t, fl.pos)
        /\ Depth(t, s) = d - 1
        /\ v \in {0, 1} <=> \A h \in heads : t[h].k # "else"
        /\ v \in {0, 3} <=> \A h \in heads : h \notin fl.yes
        /\ chosen <=> Chosen(t, s, fl.pos, fl.yes)

\* The groups of the file are those on its part of ifdef_stack
Groups(t, fl, st, top, skipping) ==
    \A m \in fl.base + 1 .. top : \E s \in 1 .. fl.pos - 1 :
        OpenGroup(t, fl, s, m - fl.base, st[m], ~(skipping /\ m = top))

\* After a line the file has one more line.
LEMMA ReaderNext ==
    ASSUME NEW fl, NEW gl, Reader(fl), Later(fl, gl)
    PROVE  Reader(gl) /\ \A q \in 1 .. fl.pos - 1 : /\ q \in gl.yes <=> q \in fl.yes
                                                    /\ q \in gl.run <=> q \in fl.run
<1>1. fl.pos \in Nat /\ fl.pos > 0 /\ gl.pos = fl.pos + 1 /\ gl.base = fl.base
  BY DEF Reader, Later
<1>2. gl.run \subseteq 1 .. gl.pos - 1 /\ gl.yes \subseteq 1 .. gl.pos - 1
  <2>1. fl.run \subseteq 1 .. gl.pos - 1 /\ fl.yes \subseteq 1 .. gl.pos - 1 BY <1>1 DEF Reader
  <2>2. fl.pos \in 1 .. gl.pos - 1 BY <1>1
  <2>3. QED BY <2>1, <2>2 DEF Later
<1>3. \A q \in 1 .. fl.pos - 1 : q # fl.pos BY <1>1
<1>4. QED BY <1>1, <1>2, <1>3 DEF Reader, Later

\* The depth after a line
LEMMA SitsNext ==
    ASSUME NEW t, NEW fl, NEW gl, Reader(fl), Later(fl, gl),
           NEW top \in Nat, NEW k \in Nat, Sits(t, fl, top, k),
           NEW top2 \in Nat, NEW k2 \in Nat, top2 + k2 = top + k + Change(t[fl.pos]),
           top2 + k2 >= fl.base
    PROVE  Sits(t, gl, top2, k2)
<1>1. fl.pos \in Nat \ {0} /\ fl.base \in Nat /\ gl.pos = fl.pos + 1 /\ gl.base = fl.base
  BY DEF Reader, Later
<1>2. Depth(t, gl.pos) = Depth(t, fl.pos) + Change(t[fl.pos]) BY <1>1, DepthNext
<1>3. Change(t[fl.pos]) \in Int BY DEF Change
<1>4. Depth(t, gl.pos) = top2 - gl.base + k2 BY <1>1, <1>2, <1>3 DEF Sits
<1>5. ASSUME NEW p \in 1 .. gl.pos PROVE Depth(t, p) >= 0
  <2>1. CASE p = gl.pos BY <1>1, <1>4, <2>1
  <2>2. CASE p # gl.pos
    <3>1. p \in 1 .. fl.pos BY <1>1, <2>2
    <3>2. QED BY <3>1 DEF Sits
  <2>3. QED BY <2>1, <2>2
<1>6. QED BY <1>4, <1>5 DEF Sits

\* A group stays open over a line at its depth or a deeper one that begins no
\* section of it.
LEMMA GroupKept ==
    ASSUME NEW t, NEW fl, NEW gl, Reader(fl), Later(fl, gl), NEW s \in 1 .. fl.pos - 1, NEW d \in Int,
           NEW v, NEW c, OpenGroup(t, fl, s, d, v, c), Depth(t, fl.pos + 1) >= d,
           ~(t[fl.pos].k \in {"elif", "else"} /\ Depth(t, fl.pos) = d)
    PROVE  s \in 1 .. gl.pos - 1 /\ OpenGroup(t, gl, s, d, v, c)
<1>1. fl.pos \in Nat \ {0} /\ gl.pos = fl.pos + 1 BY DEF Reader, Later
<1>2. s \in 1 .. gl.pos - 1 BY <1>1
<1>3. s \in Around(t, fl.pos) /\ Depth(t, s) = d - 1 BY DEF OpenGroup
<1>4. s \in Around(t, gl.pos)
  <2>1. ASSUME NEW q \in s + 1 .. gl.pos PROVE Depth(t, q) > Depth(t, s)
    <3>1. CASE q = gl.pos
      <4>1. Depth(t, q) \in Int BY <1>1, <3>1, DepthNext
      <4>2. QED BY <1>1, <1>3, <3>1, <4>1
    <3>2. CASE q # gl.pos
      <4>1. q \in s + 1 .. fl.pos BY <1>1, <3>2
      <4>2. QED BY <1>3, <4>1 DEF Around
    <3>3. QED BY <3>1, <3>2
  <2>2. Opens(t[s]) BY <1>3 DEF Around
  <2>3. QED BY <1>2, <2>1, <2>2 DEF Around
<1>5. Heads(t, s, gl.pos) = Heads(t, s, fl.pos)
  <2>1. Depth(t, s) + 1 = d BY <1>3
  <2>2. ~(t[fl.pos].k \in {"elif", "else"} /\ Depth(t, fl.pos) = Depth(t, s) + 1) BY <2>1
  <2>3. \A h : h \in s + 1 .. gl.pos - 1 <=> h \in s + 1 .. fl.pos - 1 \/ h = fl.pos BY <1>1
  <2>4. QED BY <2>2, <2>3 DEF Heads
<1>6. Heads(t, s, fl.pos) \subseteq 1 .. fl.pos - 1 /\ Max(Heads(t, s, fl.pos)) \in 1 .. fl.pos - 1
  BY <1>1, HeadsAre
<1>7. \A h \in 1 .. fl.pos - 1 : h \in gl.yes <=> h \in fl.yes BY ReaderNext
<1>8. Chosen(t, s, gl.pos, gl.yes) <=> Chosen(t, s, fl.pos, fl.yes)
  BY <1>5, <1>6, <1>7 DEF Chosen
<1>9. (\A h \in Heads(t, s, gl.pos) : h \notin gl.yes) <=> (\A h \in Heads(t, s, fl.pos) : h \notin fl.yes)
  BY <1>5, <1>6, <1>7
<1>10. QED BY <1>2, <1>3, <1>4, <1>5, <1>8, <1>9 DEF OpenGroup

\* The element of ifdef_stack after #elif or #else, and whether its section is taken
AfterHead(k, v, y) ==
    IF k = "else" THEN IF v = 0 THEN 3 ELSE 2
    ELSE IF v = 0 /\ y THEN 1 ELSE v
TakesHead(k, v, y) == v = 0 /\ (k = "else" \/ y)

\* Another section of a group begins.
LEMMA GroupHead ==
    ASSUME NEW t, NEW fl, NEW gl, Reader(fl), Later(fl, gl), NEW s \in 1 .. fl.pos - 1, NEW d \in Int,
           NEW v \in {0, 1}, NEW c, OpenGroup(t, fl, s, d, v, c),
           t[fl.pos].k \in {"elif", "else"}, Depth(t, fl.pos) = d,
           t[fl.pos].k = "else" => fl.pos \notin gl.yes
    PROVE  s \in 1 .. gl.pos - 1 /\ OpenGroup(t, gl, s, d, AfterHead(t[fl.pos].k, v, fl.pos \in gl.yes),
                                              TakesHead(t[fl.pos].k, v, fl.pos \in gl.yes))
<1> DEFINE H == Heads(t, s, fl.pos)
           G == Heads(t, s, gl.pos)
           k == t[fl.pos].k
           y == fl.pos \in gl.yes
<1>1. fl.pos \in Nat \ {0} /\ gl.pos = fl.pos + 1 BY DEF Reader, Later
<1>2. s \in 1 .. gl.pos - 1 BY <1>1
<1>3. s \in Around(t, fl.pos) /\ Depth(t, s) = d - 1 BY DEF OpenGroup
<1>4. Depth(t, gl.pos) = d
  <2>1. Change(t[fl.pos]) = 0 BY DEF Change, Opens
  <2>2. QED BY <1>1, <2>1, DepthNext
<1>5. s \in Around(t, gl.pos)
  <2>1. ASSUME NEW q \in s + 1 .. gl.pos PROVE Depth(t, q) > Depth(t, s)
    <3>1. CASE q = gl.pos BY <1>3, <1>4, <3>1
    <3>2. CASE q # gl.pos
      <4>1. q \in s + 1 .. fl.pos BY <1>1, <3>2
      <4>2. QED BY <1>3, <4>1 DEF Around
    <3>3. QED BY <3>1, <3>2
  <2>2. Opens(t[s]) BY <1>3 DEF Around
  <2>3. QED BY <1>2, <2>1, <2>2 DEF Around
<1>6. G = H \cup {fl.pos}
  <2>1. Depth(t, fl.pos) = Depth(t, s) + 1 BY <1>3
  <2>2. fl.pos \in s + 1 .. gl.pos - 1 BY <1>1
  <2>3. \A h : h \in s + 1 .. gl.pos - 1 <=> h \in s + 1 .. fl.pos - 1 \/ h = fl.pos BY <1>1
  <2>4. QED BY <2>1, <2>2, <2>3 DEF Heads
<1>7. H \subseteq 1 .. fl.pos - 1 /\ s \in H BY <1>1, HeadsAre
<1>8. \A h \in 1 .. fl.pos - 1 : h \in gl.yes <=> h \in fl.yes BY ReaderNext
<1>9. Max(G) = fl.pos
  <2>1. Max(G) \in G /\ \A h \in G : h <= Max(G) BY <1>1, <1>2, HeadsAre
  <2>2. fl.pos <= Max(G) BY <1>6, <2>1
  <2>3. \A h \in G : h <= fl.pos BY <1>1, <1>6, <1>7
  <2>4. \A h \in G : h \in Nat BY <1>1, <1>6, <1>7
  <2>5. QED BY <1>1, <2>1, <2>2, <2>3, <2>4
<1>10. fl.pos \notin H BY <1>1, <1>7
<1>11. \A h \in H : h \in gl.yes <=> h \in fl.yes BY <1>7, <1>8
<1>12. /\ v \in {0, 1} <=> \A h \in H : t[h].k # "else"
       /\ v \in {0, 3} <=> \A h \in H : h \notin fl.yes
  BY DEF OpenGroup
<1>13. (\A h \in G : t[h].k # "else") <=> k # "else"
  BY <1>6, <1>12
<1>14. (\A h \in G : h \notin gl.yes) <=> v = 0 /\ ~y
  BY <1>6, <1>11, <1>12
<1>15. Chosen(t, s, gl.pos, gl.yes) <=> (y \/ k = "else") /\ \A h \in H : h \notin gl.yes
  <2>1. G \ {fl.pos} = H BY <1>6, <1>10
  <2>2. QED BY <1>9, <2>1 DEF Chosen
<1>16. Chosen(t, s, gl.pos, gl.yes) <=> TakesHead(k, v, y)
  BY <1>11, <1>12, <1>15 DEF TakesHead
<1>17. AfterHead(k, v, y) \in {0, 1} <=> k # "else" BY DEF AfterHead
<1>18. AfterHead(k, v, y) \in {0, 3} <=> v = 0 /\ ~y BY DEF AfterHead
<1> HIDE DEF H, G
<1>19. QED BY <1>2, <1>3, <1>5, <1>13, <1>14, <1>16, <1>17, <1>18 DEF OpenGroup, G

\* A group begins.
LEMMA GroupOpened ==
    ASSUME NEW t, NEW fl, NEW gl, Reader(fl), Later(fl, gl), Opens(t[fl.pos]), NEW d \in Int,
           Depth(t, fl.pos) = d - 1
    PROVE  fl.pos \in 1 .. gl.pos - 1
           /\ OpenGroup(t, gl, fl.pos, d, IF fl.pos \in gl.yes THEN 1 ELSE 0, fl.pos \in gl.yes)
<1> DEFINE s == fl.pos
<1>1. s \in Nat \ {0} /\ gl.pos = s + 1 BY DEF Reader, Later
<1>2. Depth(t, s + 1) = d
  <2>1. Change(t[s]) = 1 BY DEF Change
  <2>2. QED BY <1>1, <2>1, DepthNext
<1>3. s \in Around(t, gl.pos)
  <2>1. \A q \in s + 1 .. gl.pos : q = s + 1 BY <1>1
  <2>2. \A q \in s + 1 .. gl.pos : Depth(t, q) > Depth(t, s) BY <1>2, <2>1
  <2>3. s \in 1 .. gl.pos - 1 BY <1>1
  <2>4. QED BY <2>2, <2>3 DEF Around
<1>4. Heads(t, s, gl.pos) = {s}
  <2>1. s + 1 .. gl.pos - 1 = {} BY <1>1
  <2>2. QED BY <2>1 DEF Heads
<1>5. Max({s}) = s
  <2>1. \E x \in {s} : \A y \in {s} : x >= y BY <1>1
  <2>2. QED BY <2>1 DEF Max
<1>6. t[s].k # "else" BY DEF Opens
<1>7. Chosen(t, s, gl.pos, gl.yes) <=> s \in gl.yes
  <2>1. {s} \ {s} = {} OBVIOUS
  <2>2. QED BY <1>4, <1>5, <1>6, <2>1 DEF Chosen
<1>8. QED BY <1>1, <1>3, <1>4, <1>6, <1>7 DEF OpenGroup

-----------------------------------------------------------------------------
(* The file that is being read, with ifdef_stack st, in mode c             *)

\* preprocess_skip() in a file skips a section of a group of the file that includes it
Doomed(fl, st, c) == c = "skip" /\ Len(st) = fl.base

\* n is what preprocess_skip() counts.  All sections around that being read or skipped
\* are taken; the groups are those of the text, unless an #else or #elif has been
\* taken for one of the including file: then the section cannot end without an error.
Tracks(t, fl, st, n, c) ==
    /\ Sits(t, fl, Len(st), n)
    /\ c = "read" => n = 0
    /\ c = "skip" => st # <<>>
    /\ \A m \in 1 .. Len(st) : st[m] \in {1, 3} \/ (c = "skip" /\ m = Len(st))
    /\ IF Doomed(fl, st, c)
       THEN st[Len(st)] # 0 /\ \E p \in 1 .. fl.pos - 1 : Lost(t, p)
       ELSE Placed(t, fl) /\ Groups(t, fl, st, Len(st), c = "skip")

\* ifdef_stack
Stack(st) == st \in Seq(0 .. 3)
Modes == {"read", "skip"}

\* What is used of a file and the stack
LEMMA TracksParts ==
    ASSUME NEW t, NEW fl, NEW st, NEW n \in Nat, NEW c, Reader(fl), Stack(st), fl.base <= Len(st),
           Tracks(t, fl, st, n, c)
    PROVE  /\ fl.pos \in Nat \ {0} /\ fl.base \in Nat /\ Len(st) \in Nat
           /\ DOMAIN st = 1 .. Len(st) /\ \A m \in 1 .. Len(st) : st[m] \in 0 .. 3
           /\ Depth(t, fl.pos) = Len(st) - fl.base + n
           /\ Depth(t, fl.pos + 1) = Depth(t, fl.pos) + Change(t[fl.pos])
           /\ Sits(t, fl, Len(st), n)
<1>1. fl.pos \in Nat \ {0} /\ fl.base \in Nat BY DEF Reader
<1>2. Len(st) \in Nat /\ DOMAIN st = 1 .. Len(st) /\ \A m \in 1 .. Len(st) : st[m] \in 0 .. 3
  BY DEF Stack
<1>3. Depth(t, fl.pos + 1) = Depth(t, fl.pos) + Change(t[fl.pos]) BY <1>1, DepthNext
<1>4. Sits(t, fl, Len(st), n) BY DEF Tracks
<1>5. QED BY <1>1, <1>2, <1>3, <1>4 DEF Sits

\* The next line begins no section of the groups up to top2, and their elements of
\* ifdef_stack remain.
Untouched(t, fl, st, top, skipping, st2, top2, skipping2) ==
    \A m \in fl.base + 1 .. top2 :
        /\ st2[m] = st[m]
        /\ (skipping2 /\ m = top2) <=> (skipping /\ m = top)
        /\ ~(t[fl.pos].k \in {"elif", "else"} /\ Depth(t, fl.pos) = m - fl.base)

\* Such groups stay open.
LEMMA GroupsKept ==
    ASSUME NEW t, NEW fl, NEW gl, Reader(fl), Later(fl, gl), NEW st, NEW top \in Nat, NEW skipping,
           Groups(t, fl, st, top, skipping), NEW st2, NEW top2 \in Nat, NEW skipping2, top2 <= top,
           Untouched(t, fl, st, top, skipping, st2, top2, skipping2),
           NEW x \in Int, Depth(t, fl.pos + 1) = x, x >= top2 - fl.base
    PROVE  Groups(t, gl, st2, top2, skipping2)
<1>1. fl.base \in Nat /\ gl.base = fl.base BY DEF Reader, Later
<1>2. ASSUME NEW m \in fl.base + 1 .. top2
      PROVE  \E s \in 1 .. gl.pos - 1 :
                 OpenGroup(t, gl, s, m - gl.base, st2[m], ~(skipping2 /\ m = top2))
  <2>1. m \in fl.base + 1 .. top /\ m \in Nat BY <1>1
  <2>2. PICK s \in 1 .. fl.pos - 1 : OpenGroup(t, fl, s, m - fl.base, st[m], ~(skipping /\ m = top))
    BY <2>1 DEF Groups
  <2>3. m - fl.base \in Int /\ Depth(t, fl.pos + 1) >= m - fl.base BY <1>1, <2>1
  <2>4. ~(t[fl.pos].k \in {"elif", "else"} /\ Depth(t, fl.pos) = m - fl.base) BY DEF Untouched
  <2>5. s \in 1 .. gl.pos - 1
        /\ OpenGroup(t, gl, s, m - fl.base, st[m], ~(skipping /\ m = top))
    BY <2>2, <2>3, <2>4, GroupKept
  <2>6. st2[m] = st[m] /\ (~(skipping2 /\ m = top2) <=> ~(skipping /\ m = top)) BY DEF Untouched
  <2>7. QED BY <1>1, <2>5, <2>6 DEF OpenGroup
<1>3. QED BY <1>1, <1>2 DEF Groups

\* Lines in their place
LEMMA PlacedNext ==
    ASSUME NEW t, NEW fl, NEW gl, Reader(fl), Later(fl, gl), Placed(t, fl), ~Lost(t, fl.pos)
    PROVE  Placed(t, gl)
<1>1. \A p \in 1 .. gl.pos - 1 : p = fl.pos \/ p \in 1 .. fl.pos - 1 BY DEF Reader, Later
<1>2. QED BY <1>1 DEF Placed

\* A line out of its place remains in the file.
LEMMA LostStays ==
    ASSUME NEW t, NEW fl, NEW gl, Reader(fl), Later(fl, gl),
           Lost(t, fl.pos) \/ \E p \in 1 .. fl.pos - 1 : Lost(t, p)
    PROVE  \E p \in 1 .. gl.pos - 1 : Lost(t, p)
<1>1. fl.pos \in 1 .. gl.pos - 1 /\ \A p \in 1 .. fl.pos - 1 : p \in 1 .. gl.pos - 1
  BY DEF Reader, Later
<1>2. QED BY <1>1

\* A line that is neither the beginning nor the end of a section
SectionKinds == {"if", "ifdef", "ifndef", "else", "elif", "endif"}

\* Such a line in a section that is read
LEMMA TracksPlain ==
    ASSUME NEW t, NEW fl, NEW gl, NEW st, Reader(fl), Later(fl, gl), Stack(st), fl.base <= Len(st),
           Tracks(t, fl, st, 0, "read"), t[fl.pos].k \notin SectionKinds
    PROVE  Tracks(t, gl, st, 0, "read")
<1>1. /\ fl.pos \in Nat \ {0} /\ fl.base \in Nat /\ Len(st) \in Nat
      /\ Depth(t, fl.pos) = Len(st) - fl.base
      /\ Depth(t, fl.pos + 1) = Depth(t, fl.pos) + Change(t[fl.pos])
      /\ Sits(t, fl, Len(st), 0)
  BY TracksParts
<1>2. Change(t[fl.pos]) = 0 /\ t[fl.pos].k \notin {"elif", "else", "endif"}
  BY DEF Change, Opens, SectionKinds
<1>3. ~Doomed(fl, st, "read") /\ ~Doomed(gl, st, "read") BY DEF Doomed
<1>4. Sits(t, gl, Len(st), 0)
  <2>1. 0 \in Nat /\ Len(st) + 0 = Len(st) + 0 + Change(t[fl.pos]) /\ Len(st) + 0 >= fl.base BY <1>1, <1>2
  <2>2. QED BY <1>1, <2>1, SitsNext
<1>5. Placed(t, fl) /\ Groups(t, fl, st, Len(st), "read" = "skip") BY <1>3 DEF Tracks
<1>6. Placed(t, gl) BY <1>2, <1>5, PlacedNext DEF Lost
<1>7. Groups(t, gl, st, Len(st), "read" = "skip")
  <2>1. Depth(t, fl.pos + 1) = Len(st) - fl.base /\ Len(st) - fl.base \in Int BY <1>1, <1>2
  <2>2. Len(st) <= Len(st) /\ Len(st) - fl.base >= Len(st) - fl.base BY <1>1
  <2>3. Untouched(t, fl, st, Len(st), "read" = "skip", st, Len(st), "read" = "skip")
    BY <1>2 DEF Untouched
  <2>4. QED BY <1>1, <1>5, <2>1, <2>2, <2>3, GroupsKept
<1>8. QED BY <1>3, <1>4, <1>6, <1>7 DEF Tracks

\* preprocess_skip(): a line of a section that is skipped
AfterSkip(n, l) == IF Opens(l) THEN n + 1 ELSE IF l.k = "endif" THEN n - 1 ELSE n
LEMMA TracksSkip ==
    ASSUME NEW t, NEW fl, NEW gl, NEW st, NEW n \in Nat, Reader(fl), Later(fl, gl), Stack(st),
           fl.base <= Len(st), Tracks(t, fl, st, n, "skip"),
           n = 0 => t[fl.pos].k \notin {"else", "elif", "endif"}
    PROVE  AfterSkip(n, t[fl.pos]) \in Nat /\ Tracks(t, gl, st, AfterSkip(n, t[fl.pos]), "skip")
<1> DEFINE n2 == AfterSkip(n, t[fl.pos])
<1>1. /\ fl.pos \in Nat \ {0} /\ fl.base \in Nat /\ Len(st) \in Nat
      /\ Depth(t, fl.pos) = Len(st) - fl.base + n
      /\ Depth(t, fl.pos + 1) = Depth(t, fl.pos) + Change(t[fl.pos])
      /\ Sits(t, fl, Len(st), n)
  BY TracksParts
<1>2. n2 \in Nat /\ n2 = n + Change(t[fl.pos])
  <2>1. CASE Opens(t[fl.pos]) BY <2>1 DEF AfterSkip, Change
  <2>2. CASE ~Opens(t[fl.pos]) /\ t[fl.pos].k = "endif"
    <3>1. n # 0 BY <2>2
    <3>2. QED BY <2>2, <3>1 DEF AfterSkip, Change
  <2>3. CASE ~Opens(t[fl.pos]) /\ t[fl.pos].k # "endif" BY <2>3 DEF AfterSkip, Change
  <2>4. QED BY <2>1, <2>2, <2>3
<1> HIDE DEF n2
<1>3. Doomed(gl, st, "skip") <=> Doomed(fl, st, "skip") BY DEF Doomed, Later
<1>4. Sits(t, gl, Len(st), n2)
  <2>1. Len(st) + n2 = Len(st) + n + Change(t[fl.pos]) /\ Len(st) + n2 >= fl.base
    <3>1. Change(t[fl.pos]) \in Int BY DEF Change
    <3>2. QED BY <1>1, <1>2, <3>1
  <2>2. QED BY <1>1, <1>2, <2>1, SitsNext
<1>5. /\ st # <<>>
      /\ \A m \in 1 .. Len(st) : st[m] \in {1, 3} \/ ("skip" = "skip" /\ m = Len(st))
  BY DEF Tracks
<1>6. CASE Doomed(fl, st, "skip")
  <2>1. st[Len(st)] # 0 /\ \E p \in 1 .. fl.pos - 1 : Lost(t, p) BY <1>6 DEF Tracks
  <2>2. \E p \in 1 .. gl.pos - 1 : Lost(t, p) BY <2>1, LostStays
  <2>3. Tracks(t, gl, st, n2, "skip") BY <1>2, <1>3, <1>4, <1>5, <1>6, <2>1, <2>2 DEF Tracks
  <2>4. QED BY <1>2, <2>3 DEF n2
<1>7. CASE ~Doomed(fl, st, "skip")
  <2>1. Placed(t, fl) /\ Groups(t, fl, st, Len(st), "skip" = "skip") BY <1>7 DEF Tracks
  <2>2. Len(st) > fl.base BY <1>1, <1>7 DEF Doomed
  <2>3. ~Lost(t, fl.pos) BY <1>1, <2>2 DEF Lost
  <2>4. Placed(t, gl) BY <2>1, <2>3, PlacedNext
  <2>5. Groups(t, gl, st, Len(st), "skip" = "skip")
    <3>1. Change(t[fl.pos]) \in Int BY DEF Change
    <3>2. Depth(t, fl.pos + 1) = Len(st) - fl.base + n2 /\ Len(st) - fl.base + n2 \in Int
      BY <1>1, <1>2, <3>1
    <3>3. Len(st) - fl.base + n2 >= Len(st) - fl.base /\ Len(st) <= Len(st) BY <1>1, <1>2
    <3>4. ASSUME NEW m \in fl.base + 1 .. Len(st)
          PROVE  ~(t[fl.pos].k \in {"elif", "else"} /\ Depth(t, fl.pos) = m - fl.base)
      <4>1. SUFFICES ASSUME t[fl.pos].k \in {"elif", "else"} PROVE Depth(t, fl.pos) # m - fl.base
        OBVIOUS
      <4>2. n > 0 BY <4>1
      <4>3. QED BY <1>1, <4>2
    <3>5. Untouched(t, fl, st, Len(st), "skip" = "skip", st, Len(st), "skip" = "skip")
      BY <3>4 DEF Untouched
    <3>6. QED BY <1>1, <2>1, <3>2, <3>3, <3>5, GroupsKept
  <2>6. Tracks(t, gl, st, n2, "skip") BY <1>2, <1>3, <1>4, <1>5, <1>7, <2>4, <2>5 DEF Tracks
  <2>7. QED BY <1>2, <2>6 DEF n2
<1>8. QED BY <1>6, <1>7

\* One more group, which is the top one
LEMMA GroupsTop ==
    ASSUME NEW t, NEW fl, Reader(fl), NEW st, NEW top \in Nat, top > fl.base,
           Groups(t, fl, st, top - 1, FALSE), NEW skipping,
           \E s \in 1 .. fl.pos - 1 : OpenGroup(t, fl, s, top - fl.base, st[top], ~skipping)
    PROVE  Groups(t, fl, st, top, skipping)
<1>1. fl.base \in Nat BY DEF Reader
<1>2. ASSUME NEW m \in fl.base + 1 .. top
      PROVE  \E s \in 1 .. fl.pos - 1 : OpenGroup(t, fl, s, m - fl.base, st[m], ~(skipping /\ m = top))
  <2>1. CASE m = top BY <2>1
  <2>2. CASE m # top
    <3>1. m \in fl.base + 1 .. top - 1 BY <1>1, <2>2
    <3>2. PICK s \in 1 .. fl.pos - 1 :
              OpenGroup(t, fl, s, m - fl.base, st[m], ~(FALSE /\ m = top - 1))
      BY <3>1 DEF Groups
    <3>3. ~(FALSE /\ m = top - 1) <=> ~(skipping /\ m = top) BY <2>2
    <3>4. QED BY <3>2, <3>3 DEF OpenGroup
  <2>3. QED BY <2>1, <2>2
<1>3. QED BY <1>2 DEF Groups

\* #if, #ifdef, #ifndef in a section that is read: the new element and the new mode
BeginsGroup(fl, gl, v, c) ==
    /\ v = IF fl.pos \in gl.yes THEN 1 ELSE 0
    /\ c = IF fl.pos \in gl.yes THEN "read" ELSE "skip"
LEMMA TracksIf ==
    ASSUME NEW t, NEW fl, NEW gl, NEW st, Reader(fl), Later(fl, gl), Stack(st), fl.base <= Len(st),
           Tracks(t, fl, st, 0, "read"), Opens(t[fl.pos]),
           NEW v, NEW c2, BeginsGroup(fl, gl, v, c2)
    PROVE  LET st2 == Append(st, v)
           IN Stack(st2) /\ Len(st2) = Len(st) + 1 /\ Tracks(t, gl, st2, 0, c2)
<1> DEFINE y == fl.pos \in gl.yes
           st2 == Append(st, v)
<1>0. (v = IF y THEN 1 ELSE 0) /\ (c2 = IF y THEN "read" ELSE "skip") BY DEF BeginsGroup
<1> HIDE DEF y
<1>1. /\ fl.pos \in Nat \ {0} /\ fl.base \in Nat /\ Len(st) \in Nat
      /\ Depth(t, fl.pos) = Len(st) - fl.base
      /\ Depth(t, fl.pos + 1) = Depth(t, fl.pos) + Change(t[fl.pos])
      /\ Sits(t, fl, Len(st), 0)
  BY TracksParts
<1>2. Change(t[fl.pos]) = 1 /\ t[fl.pos].k \notin {"elif", "else", "endif"} BY DEF Change, Opens
<1>3. /\ Stack(st2) /\ Len(st2) = Len(st) + 1 /\ st2[Len(st) + 1] = v
      /\ \A m \in 1 .. Len(st) : st2[m] = st[m]
  <2>1. v \in 0 .. 3 BY <1>0
  <2>2. QED BY <2>1 DEF Stack
<1>4. c2 \in Modes /\ (c2 = "skip" <=> ~y) /\ (c2 = "read" <=> y) BY <1>0 DEF Modes
<1>5. gl.base = fl.base /\ Len(st2) \in Nat BY <1>1, <1>3 DEF Later
<1>6. ~Doomed(fl, st, "read") /\ ~Doomed(gl, st2, c2) BY <1>1, <1>3, <1>5 DEF Doomed
<1>7. /\ \A m \in 1 .. Len(st) : st[m] \in {1, 3}
      /\ Placed(t, fl) /\ Groups(t, fl, st, Len(st), "read" = "skip")
  BY <1>6 DEF Tracks
<1> HIDE DEF st2
<1>8. Sits(t, gl, Len(st2), 0)
  <2>1. 0 \in Nat /\ Len(st2) + 0 = Len(st) + 0 + Change(t[fl.pos]) /\ Len(st2) + 0 >= fl.base
    BY <1>1, <1>2, <1>3
  <2>2. QED BY <1>1, <1>5, <2>1, SitsNext
<1>9. Placed(t, gl) BY <1>2, <1>7, PlacedNext DEF Lost
<1>10. Groups(t, gl, st2, Len(st2), c2 = "skip")
  <2>1. Depth(t, fl.pos + 1) = Len(st) + 1 - fl.base /\ Len(st) + 1 - fl.base \in Int
        /\ Len(st) + 1 - fl.base >= Len(st) - fl.base /\ Len(st) <= Len(st)
    BY <1>1, <1>2
  <2>2. \A m \in fl.base + 1 .. Len(st) : st2[m] = st[m] BY <1>1, <1>3
  <2>3. Groups(t, gl, st2, Len(st), FALSE)
    <3>1. Untouched(t, fl, st, Len(st), "read" = "skip", st2, Len(st), FALSE)
      BY <1>2, <2>2 DEF Untouched
    <3>2. QED BY <1>1, <1>7, <2>1, <3>1, GroupsKept
  <2>4. Depth(t, fl.pos) = (Len(st2) - gl.base) - 1 /\ Len(st2) - gl.base \in Int BY <1>1, <1>3, <1>5
  <2>5. fl.pos \in 1 .. gl.pos - 1
        /\ OpenGroup(t, gl, fl.pos, Len(st2) - gl.base, IF fl.pos \in gl.yes THEN 1 ELSE 0, fl.pos \in gl.yes)
    BY <2>4, GroupOpened
  <2>6. OpenGroup(t, gl, fl.pos, Len(st2) - gl.base, st2[Len(st2)], ~(c2 = "skip"))
    <3>1. st2[Len(st2)] = IF fl.pos \in gl.yes THEN 1 ELSE 0 BY <1>0, <1>3 DEF y
    <3>2. fl.pos \in gl.yes <=> ~(c2 = "skip") BY <1>4 DEF y
    <3>3. QED BY <2>5, <3>1, <3>2 DEF OpenGroup
  <2>7. Reader(gl) BY ReaderNext
  <2>8. Len(st2) - 1 = Len(st) /\ Len(st2) > gl.base BY <1>1, <1>3, <1>5
  <2>9. QED BY <1>5, <2>3, <2>5, <2>6, <2>7, <2>8, GroupsTop
<1>11. \A m \in 1 .. Len(st2) : st2[m] \in {1, 3} \/ (c2 = "skip" /\ m = Len(st2))
  BY <1>0, <1>1, <1>3, <1>4, <1>7
<1>12. st2 # <<>> BY <1>1, <1>3
<1>13. Tracks(t, gl, st2, 0, c2) BY <1>4, <1>6, <1>8, <1>9, <1>10, <1>11, <1>12 DEF Tracks
<1>14. QED BY <1>3, <1>13 DEF st2

\* #else and #elif: the element becomes w, and the mode c
BeginsSection(fl, gl, k, v, w, c) ==
    /\ w = AfterHead(k, v, fl.pos \in gl.yes)
    /\ c = IF TakesHead(k, v, fl.pos \in gl.yes) THEN "read" ELSE "skip"
HeadLine(t, fl, gl, st, c, k) ==
    /\ c \in Modes /\ Tracks(t, fl, st, 0, c) /\ st # <<>> /\ st[Len(st)] \in {0, 1}
    /\ k \in {"elif", "else"} /\ t[fl.pos].k = k /\ (k = "else" => fl.pos \notin gl.yes)
LEMMA TracksHead ==
    ASSUME NEW t, NEW fl, NEW gl, NEW st, Reader(fl), Later(fl, gl), Stack(st), fl.base <= Len(st),
           NEW c, NEW k, HeadLine(t, fl, gl, st, c, k), NEW w, NEW c2, BeginsSection(fl, gl, k, st[Len(st)], w, c2)
    PROVE  LET st2 == [st EXCEPT ![Len(st)] = w]
           IN Stack(st2) /\ Len(st2) = Len(st) /\ Tracks(t, gl, st2, 0, c2)
<1> DEFINE n == Len(st)
           v == st[n]
           y == fl.pos \in gl.yes
           takes == TakesHead(k, v, y)
           st2 == [st EXCEPT ![n] = w]
<1>0. w = AfterHead(k, v, y) /\ (c2 = IF takes THEN "read" ELSE "skip") BY DEF BeginsSection
<1> c \in Modes /\ Tracks(t, fl, st, 0, c) /\ st # <<>> /\ st[Len(st)] \in {0, 1}
    /\ k \in {"elif", "else"} /\ t[fl.pos].k = k /\ (k = "else" => fl.pos \notin gl.yes)
  BY DEF HeadLine
<1>1. /\ fl.pos \in Nat \ {0} /\ fl.base \in Nat /\ n \in Nat
      /\ Depth(t, fl.pos) = n - fl.base
      /\ Depth(t, fl.pos + 1) = Depth(t, fl.pos) + Change(t[fl.pos])
      /\ Sits(t, fl, n, 0)
  BY TracksParts
<1>2. Change(t[fl.pos]) = 0 BY DEF Change, Opens
<1>3. n \in 1 .. n /\ n > 0 BY <1>1 DEF Stack
<1>4. w \in 0 .. 3 /\ (takes => w \in {1, 3}) /\ (v = 1 => w # 0 /\ ~takes)
  BY <1>0 DEF AfterHead, TakesHead
<1>5. /\ Stack(st2) /\ Len(st2) = n /\ st2[n] = w
      /\ \A m \in 1 .. n : m # n => st2[m] = st[m]
  <2>1. st2 \in Seq(0 .. 3) BY <1>3, <1>4 DEF Stack
  <2>2. QED BY <1>3, <2>1 DEF Stack
<1>6. c2 \in Modes /\ (c2 = "skip" <=> ~takes) /\ (c2 = "read" <=> takes) BY <1>0 DEF Modes, TakesHead
<1>7. gl.base = fl.base BY DEF Later
<1>8. \A m \in 1 .. n : st[m] \in {1, 3} \/ (c = "skip" /\ m = n) BY DEF Tracks
<1>9. takes \in BOOLEAN BY DEF TakesHead
<1> HIDE DEF st2, takes, v
<1>10. Sits(t, gl, Len(st2), 0)
  <2>1. 0 \in Nat /\ n + 0 = n + 0 + Change(t[fl.pos]) /\ n + 0 >= fl.base BY <1>1, <1>2
  <2>2. Sits(t, gl, n, 0) BY <1>1, <2>1, SitsNext
  <2>3. QED BY <1>5, <2>2
<1>11. \A m \in 1 .. Len(st2) : st2[m] \in {1, 3} \/ (c2 = "skip" /\ m = Len(st2))
  <2>1. ASSUME NEW m \in 1 .. n PROVE st2[m] \in {1, 3} \/ (c2 = "skip" /\ m = n)
    <3>1. CASE m = n BY <1>4, <1>5, <1>6, <3>1
    <3>2. CASE m # n BY <1>5, <1>8, <3>2
    <3>3. QED BY <3>1, <3>2
  <2>2. QED BY <1>5, <2>1
<1>12. st2 # <<>> BY <1>3, <1>5
<1>13. CASE n = fl.base
  <2>1. v = 1
    <3>1. v \in {0, 1} BY DEF v
    <3>2. CASE c = "read"
      <4>1. st[n] \in {1, 3} BY <1>3, <1>8, <3>2
      <4>2. QED BY <3>1, <4>1 DEF v
    <3>3. CASE c = "skip"
      <4>1. Doomed(fl, st, c) BY <1>13, <3>3 DEF Doomed
      <4>2. st[n] # 0 BY <4>1 DEF Tracks
      <4>3. QED BY <3>1, <4>2 DEF v
    <3>4. QED BY <3>2, <3>3 DEF Modes
  <2>2. w # 0 /\ c2 = "skip" BY <1>4, <1>6, <2>1
  <2>3. Doomed(gl, st2, c2) BY <1>5, <1>7, <1>13, <2>2 DEF Doomed
  <2>4. Lost(t, fl.pos) BY <1>1, <1>13 DEF Lost
  <2>5. \E p \in 1 .. gl.pos - 1 : Lost(t, p) BY <2>4, LostStays
  <2>6. Tracks(t, gl, st2, 0, c2)
    BY <1>5, <1>6, <1>10, <1>11, <1>12, <2>2, <2>3, <2>5 DEF Tracks
  <2>7. QED BY <1>5, <2>6 DEF st2
<1>14. CASE n # fl.base
  <2>1. n > fl.base BY <1>1, <1>14
  <2>2. ~Doomed(fl, st, c) /\ ~Doomed(gl, st2, c2) BY <1>5, <1>7, <1>14 DEF Doomed
  <2>3. Placed(t, fl) /\ Groups(t, fl, st, n, c = "skip") BY <2>2 DEF Tracks
  <2>4. ~Lost(t, fl.pos) BY <1>1, <2>1 DEF Lost
  <2>5. Placed(t, gl) BY <2>3, <2>4, PlacedNext
  <2>6. Groups(t, gl, st2, n - 1, FALSE)
    <3>1. Depth(t, fl.pos + 1) = n - fl.base /\ n - fl.base \in Int /\ n - fl.base >= (n - 1) - fl.base
          /\ n - 1 \in Nat /\ n - 1 <= n
      BY <1>1, <1>2, <1>3
    <3>2. \A m \in fl.base + 1 .. n - 1 : st2[m] = st[m] /\ m # n /\ Depth(t, fl.pos) # m - fl.base
      BY <1>1, <1>5
    <3>3. Untouched(t, fl, st, n, c = "skip", st2, n - 1, FALSE) BY <3>2 DEF Untouched
    <3>4. QED BY <1>1, <2>3, <3>1, <3>3, GroupsKept
  <2>7. PICK s \in 1 .. fl.pos - 1 : OpenGroup(t, fl, s, n - fl.base, v, ~(c = "skip" /\ n = n))
    <3>1. n \in fl.base + 1 .. n BY <1>1, <2>1
    <3>2. QED BY <2>3, <3>1 DEF Groups, v
  <2>8. s \in 1 .. gl.pos - 1 /\ OpenGroup(t, gl, s, n - fl.base, w, takes)
    <3>1. n - fl.base \in Int /\ Depth(t, fl.pos) = n - fl.base BY <1>1
    <3>2. v \in {0, 1} BY DEF v
    <3>3. t[fl.pos].k = "else" => fl.pos \notin gl.yes OBVIOUS
    <3>4. s \in 1 .. gl.pos - 1
          /\ OpenGroup(t, gl, s, n - fl.base, AfterHead(t[fl.pos].k, v, fl.pos \in gl.yes),
                       TakesHead(t[fl.pos].k, v, fl.pos \in gl.yes))
      BY <2>7, <3>1, <3>2, <3>3, GroupHead
    <3>5. AfterHead(t[fl.pos].k, v, fl.pos \in gl.yes) = w BY <1>0 DEF AfterHead
    <3>6. TakesHead(t[fl.pos].k, v, fl.pos \in gl.yes) <=> takes BY DEF takes, TakesHead
    <3>7. QED BY <3>4, <3>5, <3>6 DEF OpenGroup
  <2>9. OpenGroup(t, gl, s, n - gl.base, st2[n], ~(c2 = "skip"))
    BY <1>5, <1>6, <1>7, <2>8 DEF OpenGroup
  <2>10. Reader(gl) BY ReaderNext
  <2>11. Groups(t, gl, st2, n, c2 = "skip") BY <1>1, <1>7, <2>1, <2>6, <2>8, <2>9, <2>10, GroupsTop
  <2>12. Tracks(t, gl, st2, 0, c2)
    BY <1>5, <1>6, <1>10, <1>11, <1>12, <2>2, <2>5, <2>11 DEF Tracks
  <2>13. QED BY <1>5, <2>12 DEF st2
<1>15. QED BY <1>13, <1>14

\* #endif
LEMMA TracksEndif ==
    ASSUME NEW t, NEW fl, NEW gl, NEW st, Reader(fl), Later(fl, gl), Stack(st), fl.base < Len(st),
           NEW c \in Modes, Tracks(t, fl, st, 0, c), t[fl.pos].k = "endif"
    PROVE  LET st2 == SubSeq(st, 1, Len(st) - 1)
           IN Stack(st2) /\ Len(st2) = Len(st) - 1 /\ Tracks(t, gl, st2, 0, "read")
<1> DEFINE n == Len(st) - 1
           st2 == SubSeq(st, 1, n)
<1>1. /\ fl.pos \in Nat \ {0} /\ fl.base \in Nat /\ Len(st) \in Nat
      /\ Depth(t, fl.pos) = Len(st) - fl.base
      /\ Depth(t, fl.pos + 1) = Depth(t, fl.pos) + Change(t[fl.pos])
      /\ Sits(t, fl, Len(st), 0)
  <2>1. fl.base <= Len(st) BY DEF Reader, Stack
  <2>2. QED BY <2>1, TracksParts
<1>2. Change(t[fl.pos]) = -1 BY DEF Change, Opens
<1>3. Len(st) = n + 1 /\ n \in Nat /\ n >= fl.base BY <1>1
<1>4. Stack(st2) /\ Len(st2) = n /\ \A m \in 1 .. n : st2[m] = st[m] BY <1>3 DEF Stack
<1> HIDE DEF n, st2
<1>5. ~Doomed(fl, st, c) /\ ~Doomed(gl, st2, "read") BY <1>1 DEF Doomed
<1>6. /\ \A m \in 1 .. Len(st) : st[m] \in {1, 3} \/ (c = "skip" /\ m = Len(st))
      /\ Placed(t, fl) /\ Groups(t, fl, st, Len(st), c = "skip")
  BY <1>5 DEF Tracks
<1>7. \A m \in 1 .. Len(st2) : st2[m] \in {1, 3} BY <1>3, <1>4, <1>6
<1>8. Sits(t, gl, Len(st2), 0)
  <2>1. 0 \in Nat /\ n + 0 = Len(st) + 0 + Change(t[fl.pos]) /\ n + 0 >= fl.base BY <1>2, <1>3
  <2>2. Sits(t, gl, n, 0) BY <1>1, <1>3, <2>1, SitsNext
  <2>3. QED BY <1>4, <2>2
<1>9. ~Lost(t, fl.pos) BY <1>1 DEF Lost
<1>10. Placed(t, gl) BY <1>6, <1>9, PlacedNext
<1>11. Groups(t, gl, st2, Len(st2), "read" = "skip")
  <2>1. Depth(t, fl.pos + 1) = n - fl.base /\ n - fl.base \in Int /\ n - fl.base >= n - fl.base
        /\ n <= Len(st)
    BY <1>1, <1>2, <1>3
  <2>2. \A m \in fl.base + 1 .. n : st2[m] = st[m] /\ m # Len(st) BY <1>1, <1>3, <1>4
  <2>3. Untouched(t, fl, st, Len(st), c = "skip", st2, n, "read" = "skip")
    BY <2>2 DEF Untouched
  <2>4. Groups(t, gl, st2, n, "read" = "skip") BY <1>1, <1>3, <1>6, <2>1, <2>3, GroupsKept
  <2>5. QED BY <1>4, <2>4
<1>12. Tracks(t, gl, st2, 0, "read") BY <1>5, <1>7, <1>8, <1>10, <1>11 DEF Tracks
<1>13. QED BY <1>4, <1>12 DEF n, st2

-----------------------------------------------------------------------------
(* All files that are open: T the texts, fs the files, st ifdef_stack      *)

\* A file that includes another one, which was opened with top groups open
Outer(t, fl, st, top) ==
    Sits(t, fl, top, 0) /\ Placed(t, fl) /\ Groups(t, fl, st, top, FALSE)

Whole(T, fs, st, n, c) ==
    LET fl == fs[Len(fs)]
    IN  /\ Tracks(T[fl.f], fl, st, n, c)
        /\ ~Doomed(fl, st, c) =>
             \A i \in 1 .. Len(fs) - 1 : Outer(T[fs[i].f], fs[i], st, fs[i + 1].base)

\* The lines before the current one are processed as C asks for.
Active(t, fl) ==
    (\A p \in 1 .. fl.pos - 1 : ~Misplaced(t, p)) =>
    \A p \in 1 .. fl.pos - 1 :
       ~Opens(t[p]) /\ t[p].k \notin {"elif", "else", "endif"} =>
          (p \in fl.run <=> \A s \in Around(t, p) : Chosen(t, s, p, fl.yes))

\* The depths depend on the lines that have been read.
LEMMA SitsSame ==
    ASSUME NEW t, NEW u, NEW fl, Reader(fl), Same(t, u, fl.pos - 1),
           NEW top, NEW k, Sits(t, fl, top, k)
    PROVE  Sits(u, fl, top, k)
<1>1. fl.pos \in Nat /\ fl.pos \in 1 .. fl.pos BY DEF Reader
<1>2. \A q \in 1 .. fl.pos : Depth(u, q) = Depth(t, q) BY <1>1, StructureSame
<1>3. QED BY <1>1, <1>2 DEF Sits

\* So does whether a line is out of its place.
LEMMA LostSame ==
    ASSUME NEW t, NEW u, NEW fl, Reader(fl), Same(t, u, fl.pos - 1), NEW p \in 1 .. fl.pos - 1
    PROVE  Lost(u, p) <=> Lost(t, p)
<1>1. fl.pos \in Nat /\ p \in 1 .. fl.pos BY DEF Reader
<1>2. Depth(u, p) = Depth(t, p) BY <1>1, StructureSame
<1>3. QED BY <1>2 DEF Lost, Same

\* And which groups are open.
LEMMA GroupsSame ==
    ASSUME NEW t, NEW u, NEW fl, Reader(fl), Same(t, u, fl.pos - 1),
           NEW st, NEW top \in Nat, NEW skipping, Groups(t, fl, st, top, skipping)
    PROVE  Groups(u, fl, st, top, skipping)
<1>1. fl.pos \in Nat \ {0} /\ fl.pos \in 1 .. fl.pos BY DEF Reader
<1>2. ASSUME NEW m \in fl.base + 1 .. top
      PROVE  \E s \in 1 .. fl.pos - 1 :
                 OpenGroup(u, fl, s, m - fl.base, st[m], ~(skipping /\ m = top))
  <2> DEFINE v == st[m]
             c == ~(skipping /\ m = top)
             d == m - fl.base
  <2>1. PICK s \in 1 .. fl.pos - 1 : OpenGroup(t, fl, s, d, v, c) BY DEF Groups
  <2> HIDE DEF v, c, d
  <2>2. s \in 1 .. fl.pos BY <1>1
  <2>3. /\ Depth(u, s) = Depth(t, s) /\ Around(u, fl.pos) = Around(t, fl.pos)
        /\ Heads(u, s, fl.pos) = Heads(t, s, fl.pos)
    BY <1>1, <2>2, StructureSame
  <2>4. Heads(t, s, fl.pos) \subseteq 1 .. fl.pos - 1 BY <1>1, HeadsAre
  <2>5. \A h \in Heads(t, s, fl.pos) : u[h].k = t[h].k BY <2>4 DEF Same
  <2>6. Chosen(u, s, fl.pos, fl.yes) <=> Chosen(t, s, fl.pos, fl.yes)
    BY <1>1, ChosenSame
  <2>7. OpenGroup(u, fl, s, d, v, c) BY <2>1, <2>3, <2>5, <2>6 DEF OpenGroup
  <2>8. QED BY <2>7 DEF v, c, d
<1>3. QED BY <1>2 DEF Groups

\* And what is expected of the current file
LEMMA TracksSame ==
    ASSUME NEW t, NEW u, NEW fl, Reader(fl), Same(t, u, fl.pos - 1),
           NEW st, Stack(st), NEW n, NEW c, Tracks(t, fl, st, n, c)
    PROVE  Tracks(u, fl, st, n, c)
<1>1. Sits(u, fl, Len(st), n) BY SitsSame DEF Tracks
<1>2. Len(st) \in Nat BY DEF Stack
<1>3. CASE Doomed(fl, st, c)
  <2>1. PICK p \in 1 .. fl.pos - 1 : Lost(t, p) BY <1>3 DEF Tracks
  <2>2. Lost(u, p) BY <2>1, LostSame
  <2>3. QED BY <1>1, <1>3, <2>2 DEF Tracks
<1>4. CASE ~Doomed(fl, st, c)
  <2>1. Placed(t, fl) /\ Groups(t, fl, st, Len(st), c = "skip") BY <1>4 DEF Tracks
  <2>2. Placed(u, fl) BY <2>1, LostSame DEF Placed
  <2>3. Groups(u, fl, st, Len(st), c = "skip") BY <1>2, <2>1, GroupsSame
  <2>4. QED BY <1>1, <1>4, <2>2, <2>3 DEF Tracks
<1>5. QED BY <1>3, <1>4

\* Or of one that includes others
LEMMA OuterSame ==
    ASSUME NEW t, NEW u, NEW fl, Reader(fl), Same(t, u, fl.pos - 1),
           NEW st, NEW top \in Nat, Outer(t, fl, st, top)
    PROVE  Outer(u, fl, st, top)
<1>1. Sits(u, fl, top, 0) BY SitsSame DEF Outer
<1>2. Placed(u, fl) BY LostSame DEF Outer, Placed
<1>3. Groups(u, fl, st, top, FALSE) BY GroupsSame DEF Outer
<1>4. QED BY <1>1, <1>2, <1>3 DEF Outer

\* And which lines should have been processed
LEMMA ActiveSame ==
    ASSUME NEW t, NEW u, NEW fl, Reader(fl), Same(t, u, fl.pos - 1), Active(t, fl)
    PROVE  Active(u, fl)
<1> DEFINE n == fl.pos - 1
<1>1. n \in Nat /\ fl.pos \in Nat /\ Same(t, u, n) BY DEF Reader
<1>2. SUFFICES ASSUME \A p \in 1 .. n : ~Misplaced(u, p), NEW p \in 1 .. n,
                      ~Opens(u[p]) /\ u[p].k \notin {"elif", "else", "endif"}
               PROVE  p \in fl.run <=> \A s \in Around(u, p) : Chosen(u, s, p, fl.yes)
  BY DEF Active
<1>3. \A q \in 1 .. n : ~Misplaced(t, q) BY <1>1, <1>2, MisplacedSame
<1>4. u[p] = t[p] BY <1>1 DEF Same
<1>5. p \in fl.run <=> \A s \in Around(t, p) : Chosen(t, s, p, fl.yes)
  BY <1>2, <1>3, <1>4 DEF Active
<1>6. p \in Nat /\ p \in 1 .. p /\ Same(t, u, p - 1) BY <1>1 DEF Same
<1>7. Around(u, p) = Around(t, p) BY <1>6, StructureSame
<1>8. \A s \in Around(t, p) : Chosen(u, s, p, fl.yes) <=> Chosen(t, s, p, fl.yes)
  <2>1. \A s \in Around(t, p) : s \in 1 .. p - 1 BY DEF Around
  <2>2. QED BY <1>6, <2>1, ChosenSame
<1>9. QED BY <1>5, <1>7, <1>8

\* There is one line that opens the group at a depth.
LEMMA OneOpener ==
    ASSUME NEW t, NEW p \in Nat, NEW r \in Around(t, p), NEW s \in Around(t, p),
           Depth(t, r) = Depth(t, s)
    PROVE  r = s
<1>1. r \in 1 .. p - 1 /\ s \in 1 .. p - 1 BY DEF Around
<1>2. Depth(t, r) \in Int /\ Depth(t, s) \in Int BY <1>1, DepthNext
<1>3. CASE r < s
  <2>1. s \in r + 1 .. p BY <1>1, <1>3
  <2>2. Depth(t, s) > Depth(t, r) BY <2>1 DEF Around
  <2>3. QED BY <1>2, <2>2
<1>4. CASE s < r
  <2>1. r \in s + 1 .. p BY <1>1, <1>4
  <2>2. Depth(t, r) > Depth(t, s) BY <2>1 DEF Around
  <2>3. QED BY <1>2, <2>2
<1>5. QED BY <1>1, <1>3, <1>4

\* The mode says whether each group around the next line is in the section to be read.
LEMMA ReadingIff ==
    ASSUME NEW t, NEW fl, NEW st, NEW n \in Nat, NEW c \in Modes, Reader(fl), Stack(st),
           fl.base <= Len(st), Tracks(t, fl, st, n, c), ~Doomed(fl, st, c)
    PROVE  c = "read" <=> \A s \in Around(t, fl.pos) : Chosen(t, s, fl.pos, fl.yes)
<1>1. /\ fl.pos \in Nat \ {0} /\ fl.base \in Nat /\ Len(st) \in Nat
      /\ Depth(t, fl.pos) = Len(st) - fl.base + n
      /\ Sits(t, fl, Len(st), n)
  BY TracksParts
<1>2. Groups(t, fl, st, Len(st), c = "skip") /\ (c = "read" => n = 0) BY DEF Tracks
<1>3. CASE c = "read"
  <2>1. ASSUME NEW s \in Around(t, fl.pos) PROVE Chosen(t, s, fl.pos, fl.yes)
    <3> DEFINE m == fl.base + Depth(t, s) + 1
    <3>1. s \in 1 .. fl.pos - 1 /\ \A q \in s + 1 .. fl.pos : Depth(t, q) > Depth(t, s)
      BY DEF Around
    <3>2. fl.pos \in s + 1 .. fl.pos /\ s \in 1 .. fl.pos BY <1>1, <3>1
    <3>3. Depth(t, fl.pos) > Depth(t, s) /\ Depth(t, s) >= 0 BY <1>1, <3>1, <3>2 DEF Sits
    <3>4. Depth(t, s) \in Int BY <3>1, DepthNext
    <3>5. m \in fl.base + 1 .. Len(st) /\ m - fl.base = Depth(t, s) + 1
      BY <1>1, <1>2, <1>3, <3>3, <3>4
    <3> HIDE DEF m
    <3>6. PICK r \in 1 .. fl.pos - 1 :
              OpenGroup(t, fl, r, m - fl.base, st[m], ~(c = "skip" /\ m = Len(st)))
      BY <1>2, <3>5 DEF Groups
    <3>7. r \in Around(t, fl.pos) /\ Depth(t, r) = (m - fl.base) - 1 /\ Chosen(t, r, fl.pos, fl.yes)
      BY <1>3, <3>6 DEF OpenGroup
    <3>8. Depth(t, r) = Depth(t, s) BY <3>4, <3>5, <3>7
    <3>9. r = s BY <1>1, <3>7, <3>8, OneOpener
    <3>10. QED BY <3>7, <3>9
  <2>2. QED BY <1>3, <2>1
<1>4. CASE c = "skip"
  <2>1. Len(st) \in fl.base + 1 .. Len(st) BY <1>1, <1>4 DEF Doomed
  <2>2. PICK r \in 1 .. fl.pos - 1 :
            OpenGroup(t, fl, r, Len(st) - fl.base, st[Len(st)], ~(c = "skip" /\ Len(st) = Len(st)))
    BY <1>2, <2>1 DEF Groups
  <2>3. r \in Around(t, fl.pos) /\ ~Chosen(t, r, fl.pos, fl.yes) BY <1>4, <2>2 DEF OpenGroup
  <2>4. QED BY <1>4, <2>3
<1>5. QED BY <1>3, <1>4 DEF Modes

\* A line that belongs to no group is misplaced.
LEMMA LostMisplaced == ASSUME NEW t, NEW p, Lost(t, p) PROVE Misplaced(t, p)
BY DEF Lost, Misplaced

\* A line that begins or ends no section is processed in the mode to read, and no other line
RunsIn(t, fl, gl, c) ==
    ~Opens(t[fl.pos]) /\ t[fl.pos].k \notin {"elif", "else", "endif"} =>
        (fl.pos \in gl.run <=> c = "read")

\* The lines before the next one are processed as C asks for.
LEMMA ActiveNext ==
    ASSUME NEW t, NEW fl, NEW gl, NEW st, NEW n \in Nat, NEW c \in Modes,
           Reader(fl), Later(fl, gl), Stack(st), fl.base <= Len(st),
           Tracks(t, fl, st, n, c), Active(t, fl), RunsIn(t, fl, gl, c)
    PROVE  Active(t, gl)
<1>1. fl.pos \in Nat \ {0} /\ gl.pos = fl.pos + 1 BY DEF Reader, Later
<1>2. SUFFICES ASSUME \A p \in 1 .. gl.pos - 1 : ~Misplaced(t, p), NEW p \in 1 .. gl.pos - 1,
                      ~Opens(t[p]) /\ t[p].k \notin {"elif", "else", "endif"}
               PROVE  p \in gl.run <=> \A s \in Around(t, p) : Chosen(t, s, p, gl.yes)
  BY DEF Active
<1>3. \A q \in 1 .. fl.pos - 1 : q \in 1 .. gl.pos - 1 BY <1>1
<1>4. \A q \in 1 .. fl.pos - 1 : ~Misplaced(t, q) BY <1>2, <1>3
<1>5. ~Doomed(fl, st, c) BY <1>4, LostMisplaced DEF Tracks
<1>6. p \in Nat /\ Same(t, t, p - 1) BY <1>1 DEF Same
<1>7. \A q \in 1 .. fl.pos - 1 : q \in gl.yes <=> q \in fl.yes BY ReaderNext
<1>8. \A q \in 1 .. fl.pos - 1 : q \in gl.run <=> q \in fl.run BY ReaderNext
<1>9. \A q \in 1 .. p - 1 : q \in 1 .. fl.pos - 1 BY <1>1
<1>10. \A q \in 1 .. p - 1 : q \in fl.yes <=> q \in gl.yes BY <1>7, <1>9
<1>11. \A s \in Around(t, p) : Chosen(t, s, p, gl.yes) <=> Chosen(t, s, p, fl.yes)
  <2>1. \A s \in Around(t, p) : s \in 1 .. p - 1 BY DEF Around
  <2>2. ASSUME NEW s \in 1 .. p - 1 PROVE Chosen(t, s, p, gl.yes) <=> Chosen(t, s, p, fl.yes)
    BY <1>6, <1>10, ChosenSame
  <2>3. QED BY <2>1, <2>2
<1>12. CASE p = fl.pos
  <2>1. p \in gl.run <=> c = "read" BY <1>2, <1>12 DEF RunsIn
  <2>2. c = "read" <=> \A s \in Around(t, p) : Chosen(t, s, p, fl.yes)
    BY <1>5, <1>12, ReadingIff
  <2>3. QED BY <1>11, <2>1, <2>2
<1>13. CASE p # fl.pos
  <2>1. p \in 1 .. fl.pos - 1 BY <1>1, <1>13
  <2>2. p \in fl.run <=> \A s \in Around(t, p) : Chosen(t, s, p, fl.yes)
    BY <1>2, <1>4, <2>1 DEF Active
  <2>3. QED BY <1>8, <1>11, <2>1, <2>2
<1>14. QED BY <1>12, <1>13

\* The groups of an including file stay as they are while the groups that it had
\* opened before the current one was included do.
LEMMA OuterKept ==
    ASSUME NEW t, NEW fl, Reader(fl), NEW st, NEW st2, NEW top \in Nat, Outer(t, fl, st, top),
           \A m \in 1 .. top : st2[m] = st[m]
    PROVE  Outer(t, fl, st2, top)
<1>1. fl.base \in Nat BY DEF Reader
<1>2. Groups(t, fl, st2, top, FALSE)
  <2>1. \A m \in fl.base + 1 .. top : st2[m] = st[m] BY <1>1
  <2>2. Groups(t, fl, st, top, FALSE) BY DEF Outer
  <2>3. QED BY <2>1, <2>2 DEF Groups
<1>3. QED BY <1>2 DEF Outer

-----------------------------------------------------------------------------
(* The stack of files                                                      *)

FileType ==
    [f : Texts, name : Texts, pos : Nat, base : Nat, guard : Macros \cup {None},
     saved : Macros \cup {None}, run : SUBSET Nat, yes : SUBSET Nat]

Fits(T, fl, st) ==
    /\ Reader(fl) /\ fl.pos <= Len(T[fl.f]) + 1 /\ fl.base <= Len(st)
    /\ Active(T[fl.f], fl)

\* Every file open has its part of ifdef_stack, and has been processed as C asks for.
FilesFit(T, fs, st) ==
    /\ fs \in Seq(FileType) /\ Len(fs) >= 1
    /\ \A i \in 1 .. Len(fs) : Fits(T, fs[i], st)
    /\ \A i, j \in 1 .. Len(fs) : i <= j => fs[i].base <= fs[j].base

\* More is known of the texts.
Grows(T, U) == \A f \in Texts : Len(U[f]) >= Len(T[f]) /\ Same(T[f], U[f], Len(T[f]))

\* What is used of the stack of files
LEMMA FilesParts ==
    ASSUME NEW T, NEW fs, NEW st, FilesFit(T, fs, st)
    PROVE  /\ Len(fs) \in Nat /\ Len(fs) \in 1 .. Len(fs) /\ DOMAIN fs = 1 .. Len(fs)
           /\ \A i \in 1 .. Len(fs) :
                /\ fs[i] \in FileType /\ fs[i].f \in Texts /\ Fits(T, fs[i], st)
                /\ fs[i].base \in Nat /\ fs[i].pos \in Nat \ {0}
<1>1. /\ fs \in Seq(FileType) /\ Len(fs) >= 1 /\ \A i \in 1 .. Len(fs) : Fits(T, fs[i], st)
  BY DEF FilesFit
<1>2. Len(fs) \in Nat /\ DOMAIN fs = 1 .. Len(fs) /\ \A i \in 1 .. Len(fs) : fs[i] \in FileType
  BY <1>1
<1>3. \A i \in 1 .. Len(fs) : fs[i].f \in Texts /\ fs[i].base \in Nat /\ fs[i].pos \in Nat \ {0}
  BY <1>1, <1>2 DEF FileType, Fits, Reader
<1>4. QED BY <1>1, <1>2, <1>3

\* All remains as it was when a line becomes known.
LEMMA Grown ==
    ASSUME NEW T \in [Texts -> Seq(Lines)], NEW U \in [Texts -> Seq(Lines)], Grows(T, U),
           NEW fs, NEW st, Stack(st), FilesFit(T, fs, st)
    PROVE  /\ FilesFit(U, fs, st)
           /\ \A n, c : Whole(T, fs, st, n, c) => Whole(U, fs, st, n, c)
<1>1. /\ Len(fs) \in Nat /\ Len(fs) \in 1 .. Len(fs)
      /\ \A i \in 1 .. Len(fs) :
           /\ fs[i] \in FileType /\ fs[i].f \in Texts /\ Fits(T, fs[i], st)
           /\ fs[i].base \in Nat /\ fs[i].pos \in Nat \ {0}
  BY FilesParts
<1>2. ASSUME NEW i \in 1 .. Len(fs)
      PROVE  Same(T[fs[i].f], U[fs[i].f], fs[i].pos - 1) /\ Fits(U, fs[i], st)
  <2> DEFINE t == T[fs[i].f]
             u == U[fs[i].f]
  <2>1. fs[i].f \in Texts /\ Fits(T, fs[i], st) /\ fs[i].pos \in Nat \ {0} BY <1>1
  <2>2. Len(t) \in Nat /\ Len(u) \in Nat /\ Len(u) >= Len(t) /\ Same(t, u, Len(t))
    BY <2>1 DEF Grows
  <2> HIDE DEF t, u
  <2>3. Reader(fs[i]) /\ fs[i].pos <= Len(t) + 1 /\ fs[i].base <= Len(st) /\ Active(t, fs[i])
    BY <2>1 DEF Fits, t
  <2>4. Same(t, u, fs[i].pos - 1)
    <3>1. \A q \in 1 .. fs[i].pos - 1 : q \in 1 .. Len(t) BY <2>1, <2>2, <2>3
    <3>2. QED BY <2>2, <3>1 DEF Same
  <2>5. Active(u, fs[i]) BY <2>3, <2>4, ActiveSame
  <2>6. fs[i].pos <= Len(u) + 1 BY <2>1, <2>2, <2>3
  <2>7. QED BY <2>3, <2>4, <2>5, <2>6 DEF Fits, t, u
<1>3. FilesFit(U, fs, st) BY <1>2 DEF FilesFit
<1>4. ASSUME NEW n, NEW c, Whole(T, fs, st, n, c) PROVE Whole(U, fs, st, n, c)
  <2> DEFINE k == Len(fs)
             fl == fs[k]
  <2>1. k \in 1 .. k /\ Reader(fl) /\ Same(T[fl.f], U[fl.f], fl.pos - 1) BY <1>1, <1>2 DEF Fits
  <2>2. Tracks(U[fl.f], fl, st, n, c) BY <1>4, <2>1, TracksSame DEF Whole
  <2>3. ASSUME ~Doomed(fl, st, c), NEW i \in 1 .. k - 1
        PROVE  Outer(U[fs[i].f], fs[i], st, fs[i + 1].base)
    <3>1. i \in 1 .. k /\ i + 1 \in 1 .. k BY <1>1
    <3>2. Outer(T[fs[i].f], fs[i], st, fs[i + 1].base) BY <1>4, <2>3 DEF Whole
    <3>3. Reader(fs[i]) /\ Same(T[fs[i].f], U[fs[i].f], fs[i].pos - 1) /\ fs[i + 1].base \in Nat
      BY <1>1, <1>2, <3>1 DEF Fits
    <3>4. QED BY <3>2, <3>3, OuterSame
  <2>4. QED BY <2>2, <2>3 DEF Whole
<1>5. QED BY <1>3, <1>4

\* The groups of the including files are not touched, unless there will be an error.
Aside(fl, gl, st, st2, c, c2) ==
    ~Doomed(gl, st2, c2) => ~Doomed(fl, st, c) /\ \A m \in 1 .. fl.base : st2[m] = st[m]

\* The current file goes on to its next line.
LEMMA Advance ==
    ASSUME NEW T \in [Texts -> Seq(Lines)], NEW fs, NEW st, FilesFit(T, fs, st), Stack(st),
           NEW n \in Nat, NEW c \in Modes, Whole(T, fs, st, n, c),
           NEW gl \in FileType, Later(fs[Len(fs)], gl),
           fs[Len(fs)].pos <= Len(T[fs[Len(fs)].f]),
           RunsIn(T[fs[Len(fs)].f], fs[Len(fs)], gl, c),
           NEW st2, Stack(st2), Len(st2) >= fs[Len(fs)].base, NEW n2, NEW c2,
           Tracks(T[fs[Len(fs)].f], gl, st2, n2, c2),
           Aside(fs[Len(fs)], gl, st, st2, c, c2)
    PROVE  LET fs2 == [fs EXCEPT ![Len(fs)] = gl]
           IN FilesFit(T, fs2, st2) /\ Whole(T, fs2, st2, n2, c2)
<1> DEFINE k == Len(fs)
           fl == fs[k]
           fs2 == [fs EXCEPT ![k] = gl]
<1>1. /\ k \in Nat /\ k \in 1 .. k /\ DOMAIN fs = 1 .. k
      /\ \A i \in 1 .. k :
           /\ fs[i] \in FileType /\ fs[i].f \in Texts /\ Fits(T, fs[i], st)
           /\ fs[i].base \in Nat /\ fs[i].pos \in Nat \ {0}
  BY FilesParts
<1>2. fs \in Seq(FileType) /\ \A i, j \in 1 .. k : i <= j => fs[i].base <= fs[j].base
  BY DEF FilesFit
<1>3. /\ fs2 \in Seq(FileType) /\ Len(fs2) = k /\ fs2[k] = gl
      /\ \A i \in 1 .. k : i # k => fs2[i] = fs[i]
  <2>1. fs2 \in Seq(FileType) BY <1>1, <1>2
  <2>2. DOMAIN fs2 = 1 .. k BY <1>1
  <2>3. Len(fs2) = k
    <3> HIDE DEF fs2, k
    <3>1. QED BY <1>1, <2>1, <2>2
  <2>4. fs2[k] = gl /\ \A i \in 1 .. k : i # k => fs2[i] = fs[i] BY <1>1
  <2>5. QED BY <2>1, <2>3, <2>4
<1> HIDE DEF fs2, k
<1>4. gl.f = fl.f /\ gl.base = fl.base /\ gl.pos = fl.pos + 1 BY DEF Later, k
<1>5. Reader(fl) /\ fl.base <= Len(st) /\ Active(T[fl.f], fl) BY <1>1 DEF Fits
<1>6. Tracks(T[fl.f], fl, st, n, c)
      /\ (~Doomed(fl, st, c) =>
            \A i \in 1 .. k - 1 : Outer(T[fs[i].f], fs[i], st, fs[i + 1].base))
  BY DEF Whole, k
<1>7. Len(st2) \in Nat /\ Len(st2) >= fl.base BY DEF Stack, k
<1>8. Fits(T, gl, st2)
  <2>1. Active(T[fl.f], gl) BY <1>5, <1>6, ActiveNext DEF k
  <2>2. Reader(gl) BY <1>5, ReaderNext DEF k
  <2>3. Len(T[fl.f]) \in Nat /\ fl.pos \in Nat BY <1>1
  <2>4. gl.pos <= Len(T[fl.f]) + 1 BY <1>4, <2>3 DEF k
  <2>5. QED BY <1>4, <1>7, <2>1, <2>2, <2>4 DEF Fits
<1>9. FilesFit(T, fs2, st2)
  <2>1. ASSUME NEW i \in 1 .. k PROVE Fits(T, fs2[i], st2)
    <3>1. CASE i = k BY <1>3, <1>8, <3>1
    <3>2. CASE i # k
      <4>1. fs[i].base <= fl.base /\ fs[i].base \in Nat /\ fl.base \in Nat BY <1>1, <1>2
      <4>2. fs[i].base <= Len(st2) BY <1>7, <4>1
      <4>3. QED BY <1>1, <1>3, <3>2, <4>2 DEF Fits
    <3>3. QED BY <3>1, <3>2
  <2>2. \A i \in 1 .. k : fs2[i].base = fs[i].base
    <3>1. fs2[k].base = fs[k].base BY <1>3, <1>4
    <3>2. \A i \in 1 .. k : i # k => fs2[i].base = fs[i].base BY <1>3
    <3>3. QED BY <3>1, <3>2
  <2>3. Len(fs2) >= 1 BY <1>1, <1>3
  <2>4. QED BY <1>2, <1>3, <2>1, <2>2, <2>3 DEF FilesFit
<1>10. Whole(T, fs2, st2, n2, c2)
  <2>1. Tracks(T[gl.f], gl, st2, n2, c2) BY <1>4 DEF k
  <2>2. ASSUME ~Doomed(gl, st2, c2), NEW i \in 1 .. k - 1
        PROVE  Outer(T[fs2[i].f], fs2[i], st2, fs2[i + 1].base)
    <3>1. i \in 1 .. k /\ i + 1 \in 1 .. k /\ i # k BY <1>1
    <3>2. ~Doomed(fl, st, c) /\ \A m \in 1 .. fl.base : st2[m] = st[m] BY <2>2 DEF Aside, k
    <3>3. Outer(T[fs[i].f], fs[i], st, fs[i + 1].base) BY <1>6, <3>2
    <3>4. fs2[i + 1].base = fs[i + 1].base
      <4>1. CASE i + 1 = k BY <1>3, <1>4, <4>1
      <4>2. CASE i + 1 # k BY <1>3, <3>1, <4>2
      <4>3. QED BY <4>1, <4>2
    <3>5. fs[i + 1].base \in Nat /\ fl.base \in Nat /\ fs[i + 1].base <= fl.base BY <1>1, <1>2, <3>1
    <3>6. \A m \in 1 .. fs[i + 1].base : st2[m] = st[m] BY <3>2, <3>5
    <3>7. Reader(fs[i]) BY <1>1, <3>1 DEF Fits
    <3>8. Outer(T[fs[i].f], fs[i], st2, fs[i + 1].base) BY <3>3, <3>5, <3>6, <3>7, OuterKept
    <3>9. QED BY <1>3, <3>1, <3>4, <3>8
  <2>3. QED BY <1>3, <2>1, <2>2 DEF Whole
<1>11. QED BY <1>9, <1>10 DEF fs2, k

\* A file is opened.
LEMMA FileOpened ==
    ASSUME NEW T \in [Texts -> Seq(Lines)], NEW fs, NEW st, FilesFit(T, fs, st), Stack(st),
           Whole(T, fs, st, 0, "read"),
           NEW op \in FileType, op.pos = 1, op.base = Len(st), op.run = {}, op.yes = {}
    PROVE  LET fs2 == Append(fs, op)
           IN FilesFit(T, fs2, st) /\ Whole(T, fs2, st, 0, "read")
<1> DEFINE k == Len(fs)
           fs2 == Append(fs, op)
           t == T[op.f]
<1>1. /\ k \in Nat /\ k \in 1 .. k
      /\ \A i \in 1 .. k :
           /\ fs[i] \in FileType /\ fs[i].f \in Texts /\ Fits(T, fs[i], st)
           /\ fs[i].base \in Nat /\ fs[i].pos \in Nat \ {0}
  BY FilesParts
<1>2. fs \in Seq(FileType) /\ \A i, j \in 1 .. k : i <= j => fs[i].base <= fs[j].base
  BY DEF FilesFit
<1>3. /\ fs2 \in Seq(FileType) /\ Len(fs2) = k + 1 /\ fs2[k + 1] = op
      /\ \A i \in 1 .. k : fs2[i] = fs[i]
  BY <1>1, <1>2
<1>4. Len(st) \in Nat /\ DOMAIN st = 1 .. Len(st) BY DEF Stack
<1>5. op.f \in Texts /\ Len(t) \in Nat
  <2>1. op.f \in Texts BY DEF FileType
  <2>2. QED BY <2>1
<1> HIDE DEF fs2, k, t
<1>6. Reader(op)
  <2>1. op.pos \in Nat \ {0} /\ op.base \in Nat BY <1>4
  <2>2. op.run \subseteq 1 .. op.pos - 1 /\ op.yes \subseteq 1 .. op.pos - 1 OBVIOUS
  <2>3. QED BY <2>1, <2>2 DEF Reader
<1>7. 1 .. op.pos - 1 = {} OBVIOUS
<1>8. Fits(T, op, st)
  <2>1. Active(t, op) BY <1>7 DEF Active
  <2>2. op.pos <= Len(t) + 1 /\ op.base <= Len(st) BY <1>4, <1>5
  <2>3. QED BY <1>6, <2>1, <2>2 DEF Fits, t
<1>9. FilesFit(T, fs2, st)
  <2>1. \A i \in 1 .. k + 1 : i = k + 1 \/ i \in 1 .. k BY <1>1
  <2>2. \A i \in 1 .. k + 1 : Fits(T, fs2[i], st) BY <1>1, <1>3, <1>8, <2>1
  <2>3. \A i \in 1 .. k : fs[i].base <= Len(st) BY <1>1 DEF Fits
  <2>4. ASSUME NEW i \in 1 .. k + 1, NEW j \in 1 .. k + 1, i <= j PROVE fs2[i].base <= fs2[j].base
    <3>1. CASE j = k + 1
      <4>1. CASE i = k + 1 BY <1>3, <1>4, <3>1, <4>1
      <4>2. CASE i # k + 1
        <5>1. i \in 1 .. k BY <2>1, <4>2
        <5>2. QED BY <1>3, <2>3, <3>1, <5>1
      <4>3. QED BY <4>1, <4>2
    <3>2. CASE j # k + 1
      <4>1. i \in 1 .. k /\ j \in 1 .. k BY <1>1, <2>4, <3>2
      <4>2. QED BY <1>2, <1>3, <2>4, <4>1
    <3>3. QED BY <3>1, <3>2
  <2>5. Len(fs2) >= 1 BY <1>1, <1>3
  <2>6. QED BY <1>3, <2>2, <2>4, <2>5 DEF FilesFit
<1>10. ~Doomed(fs[k], st, "read") BY DEF Doomed
<1>11. /\ Tracks(T[fs[k].f], fs[k], st, 0, "read")
       /\ \A i \in 1 .. k - 1 : Outer(T[fs[i].f], fs[i], st, fs[i + 1].base)
  BY <1>10 DEF Whole, k
<1>12. Tracks(t, op, st, 0, "read")
  <2>1. Sits(t, op, Len(st), 0)
    <3>1. Depth(t, 1) = 0 BY DepthFirst
    <3>2. \A p \in 1 .. op.pos : p = 1 OBVIOUS
    <3>3. Depth(t, op.pos) = Len(st) - op.base + 0 BY <1>4, <3>1
    <3>4. \A p \in 1 .. op.pos : Depth(t, p) >= 0 BY <3>1, <3>2
    <3>5. QED BY <3>3, <3>4 DEF Sits
  <2>2. \A m \in 1 .. Len(st) : st[m] \in {1, 3} \/ ("read" = "skip" /\ m = Len(st))
    BY <1>11 DEF Tracks
  <2>3. ~Doomed(op, st, "read") BY DEF Doomed
  <2>4. Placed(t, op) BY <1>7 DEF Placed
  <2>5. Groups(t, op, st, Len(st), "read" = "skip")
    <3>1. op.base + 1 .. Len(st) = {} BY <1>4
    <3>2. QED BY <3>1 DEF Groups
  <2>6. QED BY <2>1, <2>2, <2>3, <2>4, <2>5 DEF Tracks
<1>13. Outer(T[fs[k].f], fs[k], st, Len(st))
  <2>1. Placed(T[fs[k].f], fs[k]) /\ Groups(T[fs[k].f], fs[k], st, Len(st), "read" = "skip")
        /\ Sits(T[fs[k].f], fs[k], Len(st), 0)
    BY <1>10, <1>11 DEF Tracks
  <2>2. Groups(T[fs[k].f], fs[k], st, Len(st), FALSE) BY <2>1 DEF Groups
  <2>3. QED BY <2>1, <2>2 DEF Outer
<1>14. Whole(T, fs2, st, 0, "read")
  <2>1. ASSUME NEW i \in 1 .. k PROVE Outer(T[fs2[i].f], fs2[i], st, fs2[i + 1].base)
    <3>1. CASE i = k BY <1>3, <1>13, <3>1
    <3>2. CASE i # k
      <4>1. i \in 1 .. k - 1 /\ i + 1 \in 1 .. k BY <1>1, <3>2
      <4>2. QED BY <1>3, <1>11, <4>1
    <3>3. QED BY <3>1, <3>2
  <2>2. Len(fs2) - 1 = k BY <1>1, <1>3
  <2>3. Tracks(T[fs2[Len(fs2)].f], fs2[Len(fs2)], st, 0, "read") BY <1>3, <1>12 DEF t
  <2>4. QED BY <2>1, <2>2, <2>3 DEF Whole
<1>15. QED BY <1>9, <1>14 DEF fs2, k

\* A file whose groups are balanced is left.
LEMMA FileLeft ==
    ASSUME NEW T \in [Texts -> Seq(Lines)], NEW fs, NEW st, FilesFit(T, fs, st), Stack(st),
           Whole(T, fs, st, 0, "read"), Len(fs) # 1, Len(st) = fs[Len(fs)].base
    PROVE  LET fs2 == SubSeq(fs, 1, Len(fs) - 1)
           IN FilesFit(T, fs2, st) /\ Whole(T, fs2, st, 0, "read") /\ Len(fs2) = Len(fs) - 1
<1> DEFINE n == Len(fs) - 1
           fs2 == SubSeq(fs, 1, n)
<1>1. /\ Len(fs) \in Nat /\ Len(fs) \in 1 .. Len(fs)
      /\ \A i \in 1 .. Len(fs) :
           /\ fs[i] \in FileType /\ fs[i].f \in Texts /\ Fits(T, fs[i], st)
           /\ fs[i].base \in Nat /\ fs[i].pos \in Nat \ {0}
  BY FilesParts
<1>2. fs \in Seq(FileType) /\ \A i, j \in 1 .. Len(fs) : i <= j => fs[i].base <= fs[j].base
  BY DEF FilesFit
<1>3. Len(fs) = n + 1 /\ n \in Nat \ {0} /\ n \in 1 .. n
  <2>1. Len(fs) \in Nat /\ Len(fs) >= 1 /\ Len(fs) # 1 BY <1>1
  <2>2. \A x \in Nat : x >= 1 /\ x # 1 => x = (x - 1) + 1 /\ x - 1 \in Nat \ {0} OBVIOUS
  <2>3. n \in Nat \ {0} /\ Len(fs) = n + 1 BY <2>1, <2>2
  <2> HIDE DEF n
  <2>4. QED BY <2>3
<1>4. fs2 \in Seq(FileType) /\ Len(fs2) = n /\ \A i \in 1 .. n : fs2[i] = fs[i]
  BY <1>2, <1>3
<1>5. Len(st) \in Nat BY DEF Stack
<1> HIDE DEF fs2, n
<1>6. \A i \in 1 .. n : i \in 1 .. Len(fs) BY <1>3
<1>7. FilesFit(T, fs2, st)
  <2>1. \A i \in 1 .. n : Fits(T, fs2[i], st) BY <1>1, <1>4, <1>6
  <2>2. \A i, j \in 1 .. n : i <= j => fs2[i].base <= fs2[j].base BY <1>2, <1>4, <1>6
  <2>3. QED BY <1>3, <1>4, <2>1, <2>2 DEF FilesFit
<1>8. ~Doomed(fs[Len(fs)], st, "read") /\ ~Doomed(fs[n], st, "read") BY DEF Doomed
<1>9. /\ Tracks(T[fs[Len(fs)].f], fs[Len(fs)], st, 0, "read")
      /\ \A i \in 1 .. n : Outer(T[fs[i].f], fs[i], st, fs[i + 1].base)
  BY <1>8 DEF Whole, n
<1>10. Tracks(T[fs[n].f], fs[n], st, 0, "read")
  <2>1. Outer(T[fs[n].f], fs[n], st, Len(st)) BY <1>3, <1>9
  <2>2. \A m \in 1 .. Len(st) : st[m] \in {1, 3} \/ ("read" = "skip" /\ m = Len(st))
    BY <1>9 DEF Tracks
  <2>3. Sits(T[fs[n].f], fs[n], Len(st), 0) /\ Placed(T[fs[n].f], fs[n])
        /\ Groups(T[fs[n].f], fs[n], st, Len(st), FALSE)
    BY <2>1 DEF Outer
  <2>4. Groups(T[fs[n].f], fs[n], st, Len(st), "read" = "skip") BY <2>3 DEF Groups
  <2>5. QED BY <1>8, <2>2, <2>3, <2>4 DEF Tracks
<1>11. Whole(T, fs2, st, 0, "read")
  <2>1. ASSUME NEW i \in 1 .. n - 1 PROVE Outer(T[fs2[i].f], fs2[i], st, fs2[i + 1].base)
    <3>1. i \in 1 .. n /\ i + 1 \in 1 .. n BY <1>3
    <3>2. QED BY <1>4, <1>9, <3>1
  <2>2. Tracks(T[fs2[n].f], fs2[n], st, 0, "read") BY <1>3, <1>4, <1>10
  <2>3. QED BY <1>4, <2>1, <2>2 DEF Whole
<1>12. QED BY <1>4, <1>7, <1>11 DEF fs2, n

-----------------------------------------------------------------------------
(* The state                                                               *)

Types ==
    /\ dialect \in Dialects
    /\ text \in [Texts -> Seq(Lines)] /\ closed \subseteq Texts
    /\ pc \in Modes \cup {"done", "error"} /\ a \in Nat
    /\ Len(inc) <= IncludeDepth + 1
    /\ Stack(ifs) /\ Len(ifs) <= IfDepth
    /\ defs \subseteq Macros

\* The inductive invariant
IInv ==
    /\ Types
    /\ FilesFit(text, inc, ifs)
    /\ pc \in Modes => Whole(text, inc, ifs, a, pc)

\* Kinds of lines
LEMMA LineKinds ==
    ASSUME NEW l \in Lines, l.k = "ifndef"
    PROVE  l.x \in Macros
BY DEF Lines, Plain, Line

\* g and h differ in what has nothing to do with the lines read so far.
Likewise(g, h) ==
    h.f = g.f /\ h.base = g.base /\ h.pos = g.pos /\ h.run = g.run /\ h.yes = g.yes

\* The fields that #line, #ifndef, #endif and #else set
LEMMA NameField ==
    ASSUME NEW g \in FileType, NEW n \in Texts
    PROVE  [g EXCEPT !.name = n] \in FileType /\ Likewise(g, [g EXCEPT !.name = n])
BY DEF FileType, Likewise

\* ifndef_macro
LEMMA GuardField ==
    ASSUME NEW g \in FileType, NEW m \in Macros \cup {None}
    PROVE  [g EXCEPT !.guard = m] \in FileType /\ Likewise(g, [g EXCEPT !.guard = m])
BY DEF FileType, Likewise

\* ifndef_macro_saved
LEMMA SavedField ==
    ASSUME NEW g \in FileType, NEW s \in Macros \cup {None}, NEW m \in Macros \cup {None}
    PROVE  /\ [g EXCEPT !.saved = s, !.guard = m] \in FileType
           /\ Likewise(g, [g EXCEPT !.saved = s, !.guard = m])
BY DEF FileType, Likewise

\* The fields that every line sets
LEMMA LineFields ==
    ASSUME NEW g \in FileType, NEW p \in Nat, NEW y \in SUBSET Nat, NEW r \in SUBSET Nat
    PROVE  /\ [g EXCEPT !.pos = p, !.yes = y] \in FileType
           /\ [g EXCEPT !.run = r] \in FileType
BY DEF FileType

\* The current file after a line
LEMMA PastIs ==
    ASSUME file \in FileType, Reader(file), NEW l
    PROVE  /\ Past(l) \in FileType /\ Later(file, Past(l)) /\ Past(l).run = file.run
           /\ file.pos \in Past(l).yes <=> Holds(l)
<1> DEFINE y == IF Holds(l) THEN file.yes \cup {file.pos} ELSE file.yes
<1>1. file.pos \in Nat \ {0} /\ file.yes \subseteq 1 .. file.pos - 1 BY DEF Reader
<1>2. y \in SUBSET Nat /\ y \in {file.yes, file.yes \cup {file.pos}} /\ (file.pos \in y <=> Holds(l))
  BY <1>1
<1>3. Past(l) = [file EXCEPT !.pos = file.pos + 1, !.yes = y] BY DEF Past
<1> HIDE DEF y
<1>4. [file EXCEPT !.pos = file.pos + 1, !.yes = y] \in FileType
  <2>1. file.pos + 1 \in Nat BY <1>1
  <2>2. QED BY <1>2, <2>1, LineFields
<1>5. Past(l).f = file.f /\ Past(l).base = file.base /\ Past(l).pos = file.pos + 1
      /\ Past(l).run = file.run /\ Past(l).yes = y
  BY <1>3 DEF FileType
<1>6. QED BY <1>2, <1>3, <1>4, <1>5 DEF Later

\* The current file after a line that is processed
LEMMA RanIs ==
    ASSUME file \in FileType, Reader(file), NEW l
    PROVE  Ran(l) \in FileType /\ Later(file, Ran(l)) /\ file.pos \in Ran(l).run
<1>1. /\ Past(l) \in FileType /\ Later(file, Past(l)) /\ Past(l).run = file.run
  BY PastIs
<1>2. file.pos \in Nat BY DEF Reader
<1>3. Ran(l) = [Past(l) EXCEPT !.run = file.run \cup {file.pos}] BY <1>1 DEF Ran
<1>4. file.run \cup {file.pos} \in SUBSET Nat
  <2>1. file.run \in SUBSET Nat BY DEF FileType
  <2>2. QED BY <1>2, <2>1
<1>5. Ran(l) \in FileType BY <1>1, <1>3, <1>4, LineFields
<1>6. /\ Ran(l).f = Past(l).f /\ Ran(l).base = Past(l).base /\ Ran(l).pos = Past(l).pos
      /\ Ran(l).yes = Past(l).yes /\ Ran(l).run = file.run \cup {file.pos}
  BY <1>1, <1>3 DEF FileType
<1>7. QED BY <1>1, <1>5, <1>6 DEF Later

\* A file that is the same in that respect
LEMMA LaterLikewise ==
    ASSUME NEW fl, NEW g, Later(fl, g), NEW h, Likewise(g, h)
    PROVE  Later(fl, h)
BY DEF Later, Likewise

\* What is known of the current file
LEMMA FileParts ==
    ASSUME IInv
    PROVE  /\ file \in FileType /\ Reader(file) /\ file.f \in Texts /\ file.base <= Len(ifs)
           /\ file.pos \in Nat \ {0} /\ file.base \in Nat /\ Len(ifs) \in Nat
           /\ file.pos <= Len(text[file.f]) + 1 /\ Len(text[file.f]) \in Nat
           /\ Len(inc) \in Nat /\ file = inc[Len(inc)]
           /\ pc \in Modes => Tracks(text[file.f], file, ifs, a, pc)
<1>1. FilesFit(text, inc, ifs) BY DEF IInv
<1>2. /\ Len(inc) \in Nat /\ Len(inc) \in 1 .. Len(inc)
      /\ \A i \in 1 .. Len(inc) :
           /\ inc[i] \in FileType /\ inc[i].f \in Texts /\ Fits(text, inc[i], ifs)
           /\ inc[i].base \in Nat /\ inc[i].pos \in Nat \ {0}
  BY <1>1, FilesParts
<1>3. /\ file \in FileType /\ file.f \in Texts /\ Fits(text, file, ifs)
      /\ file.base \in Nat /\ file.pos \in Nat \ {0}
  BY <1>2 DEF file
<1>4. Len(ifs) \in Nat BY DEF IInv, Types, Stack
<1>5. text[file.f] \in Seq(Lines) BY <1>3 DEF IInv, Types
<1>6. Len(text[file.f]) \in Nat BY <1>5
<1>7. pc \in Modes => Tracks(text[file.f], file, ifs, a, pc) BY DEF IInv, Whole, file
<1>8. QED BY <1>2, <1>3, <1>4, <1>6, <1>7 DEF Fits, file

\* The line at hand
LineRead(l) ==
    /\ text' \in [Texts -> Seq(Lines)] /\ closed' \subseteq Texts /\ Grows(text, text')
    /\ l \in Lines /\ file.pos <= Len(text'[file.f]) /\ text'[file.f][file.pos] = l
LEMMA AtIs ==
    ASSUME IInv, NEW l, At(l)
    PROVE  LineRead(l)
<1> DEFINE f == file.f
           n == Len(text[f])
<1>1. f \in Texts /\ file.pos \in Nat \ {0} /\ file.pos <= n + 1 /\ n \in Nat BY FileParts
<1>2. text \in [Texts -> Seq(Lines)] /\ closed \subseteq Texts /\ dialect \in Dialects
  BY DEF IInv, Types
<1>3. \A g \in Texts : text[g] \in Seq(Lines) /\ Len(text[g]) \in Nat BY <1>2
<1>4. CASE file.pos <= n
  <2>1. l = text[f][file.pos] /\ text' = text /\ closed' = closed BY <1>4 DEF At
  <2>2. file.pos \in 1 .. n BY <1>1, <1>4
  <2>3. text[f] \in Seq(Lines) BY <1>1, <1>3
  <2>4. l \in Lines BY <2>1, <2>2, <2>3
  <2>5. Grows(text, text') BY <1>3, <2>1 DEF Grows, Same
  <2>6. QED BY <1>2, <1>4, <2>1, <2>4, <2>5 DEF LineRead
<1>5. CASE ~(file.pos <= n)
  <2>1. /\ l \in dialect.lines[f] /\ closed' = closed
        /\ text' = [text EXCEPT ![f] = Append(text[f], l)]
    BY <1>5 DEF At
  <2>2. l \in Lines
    <3>1. dialect \in Dialect BY <1>2, ConditionalsAssumption
    <3>2. dialect.lines \in [Texts -> SUBSET Lines] BY <3>1 DEF Dialect
    <3>3. QED BY <1>1, <2>1, <3>2
  <2>3. file.pos = n + 1 BY <1>1, <1>5
  <2>4. text[f] \in Seq(Lines) BY <1>1, <1>3
  <2>5. /\ Append(text[f], l) \in Seq(Lines) /\ Len(Append(text[f], l)) = n + 1
        /\ Append(text[f], l)[n + 1] = l
        /\ \A q \in 1 .. n : Append(text[f], l)[q] = text[f][q]
    BY <2>2, <2>4
  <2> HIDE DEF f, n
  <2>6. text'[f] = Append(text[f], l) /\ \A g \in Texts : g # f => text'[g] = text[g]
    BY <1>1, <1>2, <2>1
  <2>7. text' \in [Texts -> Seq(Lines)] BY <1>2, <2>1, <2>5
  <2>8. ASSUME NEW g \in Texts PROVE Len(text'[g]) >= Len(text[g]) /\ Same(text[g], text'[g], Len(text[g]))
    <3>1. CASE g = f BY <1>1, <2>5, <2>6, <3>1 DEF Same, n
    <3>2. CASE g # f BY <1>3, <2>6, <3>2 DEF Same
    <3>3. QED BY <3>1, <3>2
  <2>9. Grows(text, text') BY <2>8 DEF Grows
  <2>10. file.pos <= Len(text'[f]) /\ text'[f][file.pos] = l BY <1>1, <2>3, <2>5, <2>6
  <2>11. QED BY <1>2, <2>1, <2>2, <2>7, <2>9, <2>10 DEF LineRead, f
<1>6. QED BY <1>4, <1>5

\* The files when the line at hand is known
LEMMA LineKnown ==
    ASSUME IInv, NEW l, LineRead(l)
    PROVE  /\ FilesFit(text', inc, ifs)
           /\ pc \in Modes => /\ Whole(text', inc, ifs, a, pc)
                              /\ Tracks(text'[file.f], file, ifs, a, pc)
<1>1. /\ text \in [Texts -> Seq(Lines)] /\ text' \in [Texts -> Seq(Lines)] /\ Grows(text, text')
      /\ Stack(ifs) /\ FilesFit(text, inc, ifs)
  BY DEF IInv, Types, LineRead
<1>2. /\ FilesFit(text', inc, ifs)
      /\ \A n, c : Whole(text, inc, ifs, n, c) => Whole(text', inc, ifs, n, c)
  BY <1>1, Grown
<1>3. pc \in Modes => Whole(text', inc, ifs, a, pc) BY <1>2 DEF IInv
<1>4. Whole(text', inc, ifs, a, pc) => Tracks(text'[file.f], file, ifs, a, pc) BY DEF Whole, file
<1>5. QED BY <1>2, <1>3, <1>4

\* The current file goes on to its next line.
LEMMA LineDone ==
    ASSUME IInv, pc \in Modes, NEW l, LineRead(l),
           NEW gl \in FileType, Later(file, gl),
           ~Opens(l) /\ l.k \notin {"elif", "else", "endif"} => (file.pos \in gl.run <=> pc = "read"),
           NEW st2, Stack(st2), Len(st2) >= file.base, NEW n2, NEW c2,
           Tracks(text'[file.f], gl, st2, n2, c2), Aside(file, gl, ifs, st2, pc, c2)
    PROVE  LET inc2 == [inc EXCEPT ![Len(inc)] = gl]
           IN  /\ FilesFit(text', inc2, st2) /\ Whole(text', inc2, st2, n2, c2)
               /\ Len(inc2) = Len(inc) /\ Len(inc) \in Nat
<1>1. /\ text' \in [Texts -> Seq(Lines)]
      /\ file.pos <= Len(text'[file.f]) /\ text'[file.f][file.pos] = l
  BY DEF LineRead
<1>2. FilesFit(text', inc, ifs) /\ Whole(text', inc, ifs, a, pc) BY LineKnown
<1>3. Stack(ifs) /\ a \in Nat BY DEF IInv, Types
<1>4. RunsIn(text'[file.f], file, gl, pc) BY <1>1 DEF RunsIn
<1>5. file = inc[Len(inc)] BY DEF file
<1>6. Len(inc) \in Nat /\ DOMAIN inc = 1 .. Len(inc) BY <1>2, FilesParts
<1> DEFINE inc2 == [inc EXCEPT ![Len(inc)] = gl]
<1>7. FilesFit(text', inc2, st2) /\ Whole(text', inc2, st2, n2, c2)
  BY <1>1, <1>2, <1>3, <1>4, <1>5, Advance
<1>8. DOMAIN inc2 = 1 .. Len(inc) BY <1>6
<1> HIDE DEF inc2
<1>9. Len(inc2) \in Nat /\ DOMAIN inc2 = 1 .. Len(inc2) BY <1>7, FilesParts
<1>10. Len(inc2) = Len(inc)
  <2>1. \A m, n \in Nat : 1 .. m = 1 .. n => m = n
    <3>1. ASSUME NEW m \in Nat, NEW n \in Nat, 1 .. m = 1 .. n, m # n PROVE FALSE
      <4>1. CASE m < n
        <5>1. n \in 1 .. n /\ n \notin 1 .. m BY <4>1
        <5>2. QED BY <3>1, <5>1
      <4>2. CASE n < m
        <5>1. m \in 1 .. m /\ m \notin 1 .. n BY <4>2
        <5>2. QED BY <3>1, <5>1
      <4>3. QED BY <3>1, <4>1, <4>2
    <3>2. QED BY <3>1
  <2>2. QED BY <1>6, <1>8, <1>9, <2>1
<1>11. QED BY <1>6, <1>7, <1>10 DEF inc2

\* The invariant after a line
LEMMA LineKeeps ==
    ASSUME IInv, pc \in Modes, NEW l, LineRead(l),
           NEW gl \in FileType, Later(file, gl), inc' = [inc EXCEPT ![Len(inc)] = gl],
           ~Opens(l) /\ l.k \notin {"elif", "else", "endif"} => (file.pos \in gl.run <=> pc = "read"),
           Stack(ifs'), Len(ifs') >= file.base, Len(ifs') <= IfDepth,
           Tracks(text'[file.f], gl, ifs', a', pc'), Aside(file, gl, ifs, ifs', pc, pc'),
           a' \in Nat, pc' \in Modes, defs' \subseteq Macros, dialect' = dialect
    PROVE  IInv'
<1>1. /\ FilesFit(text', inc', ifs') /\ Whole(text', inc', ifs', a', pc')
      /\ Len(inc') = Len(inc)
  BY LineDone
<1>2. Types'
  <2>1. dialect' \in Dialects /\ Len(inc') <= IncludeDepth + 1 BY <1>1 DEF IInv, Types
  <2>2. text' \in [Texts -> Seq(Lines)] /\ closed' \subseteq Texts BY DEF LineRead
  <2>3. pc' \in Modes \cup {"done", "error"} OBVIOUS
  <2>4. QED BY <2>1, <2>2, <2>3 DEF Types
<1>3. QED BY <1>1, <1>2 DEF IInv

\* The invariant after an error
LEMMA ErrorKeeps ==
    ASSUME IInv, text' \in [Texts -> Seq(Lines)], closed' \subseteq Texts, Grows(text, text'), Error
    PROVE  IInv'
<1>1. /\ pc' = "error" /\ a' = a /\ inc' = inc /\ ifs' = ifs /\ defs' = defs /\ dialect' = dialect
  BY DEF Error
<1>2. Types /\ FilesFit(text, inc, ifs) BY DEF IInv
<1>3. Types' BY <1>1, <1>2 DEF Types
<1>4. FilesFit(text', inc, ifs) BY <1>2, Grown DEF Types
<1>5. pc' \notin Modes BY <1>1 DEF Modes
<1>6. QED BY <1>1, <1>3, <1>4, <1>5 DEF IInv

\* A line in a section that is read, which begins or ends no section
LEMMA PlainKeeps ==
    ASSUME IInv, pc = "read", NEW l, At(l), l.k \notin SectionKinds,
           NEW gl \in FileType, Later(file, gl), file.pos \in gl.run
    PROVE  /\ LineRead(l)
           /\ FilesFit(text', [inc EXCEPT ![Len(inc)] = gl], ifs)
           /\ Whole(text', [inc EXCEPT ![Len(inc)] = gl], ifs, 0, "read")
           /\ Len([inc EXCEPT ![Len(inc)] = gl]) = Len(inc) /\ Len(inc) \in Nat
           /\ a = 0 /\ Tracks(text'[file.f], gl, ifs, 0, "read")
           /\ Aside(file, gl, ifs, ifs, "read", "read")
<1>1. LineRead(l) BY AtIs
<1>2. pc \in Modes BY DEF Modes
<1>3. Reader(file) /\ file.base <= Len(ifs) /\ Stack(ifs) /\ Len(ifs) \in Nat /\ file.base \in Nat
  BY FileParts DEF IInv, Types
<1>4. Tracks(text'[file.f], file, ifs, a, pc) BY <1>1, <1>2, LineKnown
<1>5. a = 0 BY <1>4 DEF Tracks
<1>6. Tracks(text'[file.f], gl, ifs, 0, "read")
  <2>1. text'[file.f][file.pos].k \notin SectionKinds BY <1>1 DEF LineRead
  <2>2. QED BY <1>3, <1>4, <1>5, <2>1, TracksPlain
<1>7. Aside(file, gl, ifs, ifs, "read", "read") BY DEF Aside, Doomed
<1>8. QED BY <1>1, <1>2, <1>3, <1>5, <1>6, <1>7, LineDone

-----------------------------------------------------------------------------
(* The steps                                                               *)

\* A plain line after which ifdef_stack is the same, and the mode too
LEMMA PlainStep ==
    ASSUME IInv, pc = "read", NEW l, At(l), l.k \notin SectionKinds,
           NEW gl \in FileType, Later(file, gl), file.pos \in gl.run,
           inc' = [inc EXCEPT ![Len(inc)] = gl],
           ifs' = ifs, a' = a, pc' = pc, dialect' = dialect, defs' \subseteq Macros
    PROVE  IInv'
<1>1. /\ LineRead(l)
      /\ a = 0 /\ Tracks(text'[file.f], gl, ifs, 0, "read")
      /\ Aside(file, gl, ifs, ifs, "read", "read")
  BY PlainKeeps
<1>2. Stack(ifs') /\ Len(ifs') >= file.base /\ Len(ifs') <= IfDepth
  <2>1. file.base <= Len(ifs) /\ Len(ifs) \in Nat /\ file.base \in Nat BY FileParts
  <2>2. QED BY <2>1 DEF IInv, Types
<1>3. pc \in Modes /\ a' \in Nat /\ pc' \in Modes BY <1>1 DEF Modes
<1>4. Tracks(text'[file.f], gl, ifs', a', pc') /\ Aside(file, gl, ifs, ifs', pc, pc')
  BY <1>1
<1>5. QED BY <1>1, <1>2, <1>3, <1>4, LineKeeps

\* A token
LEMMA CodeKeeps == ASSUME IInv, Code PROVE IInv'
<1> DEFINE l == Plain("code")
<1>1. /\ pc = "read" /\ At(l) /\ inc' = [inc EXCEPT ![Len(inc)] = Ran(l)]
      /\ ifs' = ifs /\ a' = a /\ pc' = pc /\ dialect' = dialect /\ defs' = defs
  BY DEF Code, Current
<1>2. l.k \notin SectionKinds BY DEF Plain, SectionKinds
<1>3. Ran(l) \in FileType /\ Later(file, Ran(l)) /\ file.pos \in Ran(l).run BY FileParts, RanIs
<1>4. defs' \subseteq Macros BY <1>1 DEF IInv, Types
<1> HIDE DEF l
<1>5. QED BY <1>1, <1>2, <1>3, <1>4, PlainStep

\* #
LEMMA NullDirectiveKeeps == ASSUME IInv, NullDirective PROVE IInv'
<1> DEFINE l == Plain("null")
<1>1. /\ pc = "read" /\ At(l) /\ inc' = [inc EXCEPT ![Len(inc)] = Ran(l)]
      /\ ifs' = ifs /\ a' = a /\ pc' = pc /\ dialect' = dialect /\ defs' = defs
  BY DEF NullDirective, Current
<1>2. l.k \notin SectionKinds BY DEF Plain, SectionKinds
<1>3. Ran(l) \in FileType /\ Later(file, Ran(l)) /\ file.pos \in Ran(l).run BY FileParts, RanIs
<1>4. defs' \subseteq Macros BY <1>1 DEF IInv, Types
<1> HIDE DEF l
<1>5. QED BY <1>1, <1>2, <1>3, <1>4, PlainStep

\* #define and #undef
LEMMA DefineKeeps == ASSUME IInv, Define PROVE IInv'
<1>1. PICK m \in Macros, k \in {"define", "undef"} :
        /\ pc = "read" /\ At(Line(k, m)) /\ inc' = [inc EXCEPT ![Len(inc)] = Ran(Line(k, m))]
        /\ defs' = IF k = "define" THEN defs \cup {m} ELSE defs \ {m}
        /\ ifs' = ifs /\ a' = a /\ pc' = pc /\ dialect' = dialect
  BY DEF Define, Current
<1> DEFINE l == Line(k, m)
<1>2. l.k \notin SectionKinds BY DEF Line, SectionKinds
<1>3. Ran(l) \in FileType /\ Later(file, Ran(l)) /\ file.pos \in Ran(l).run BY FileParts, RanIs
<1>4. defs' \subseteq Macros BY <1>1 DEF IInv, Types
<1> HIDE DEF l
<1>5. QED BY <1>1, <1>2, <1>3, <1>4, PlainStep DEF l

\* #pragma once
LEMMA OnceKeeps == ASSUME IInv, Once PROVE IInv'
<1> DEFINE l == Plain("once")
<1>1. /\ pc = "read" /\ At(l) /\ inc' = [inc EXCEPT ![Len(inc)] = Ran(l)]
      /\ ifs' = ifs /\ a' = a /\ pc' = pc /\ dialect' = dialect /\ defs' = defs
  BY DEF Once, Current
<1>2. l.k \notin SectionKinds BY DEF Plain, SectionKinds
<1>3. Ran(l) \in FileType /\ Later(file, Ran(l)) /\ file.pos \in Ran(l).run BY FileParts, RanIs
<1>4. defs' \subseteq Macros BY <1>1 DEF IInv, Types
<1> HIDE DEF l
<1>5. QED BY <1>1, <1>2, <1>3, <1>4, PlainStep

\* #line
LEMMA LineDirectiveKeeps == ASSUME IInv, LineDirective PROVE IInv'
<1>1. PICK g \in Files :
        /\ pc = "read" /\ At(Line("line", g))
        /\ inc' = [inc EXCEPT ![Len(inc)] = [Ran(Line("line", g)) EXCEPT !.name = g]]
        /\ ifs' = ifs /\ a' = a /\ pc' = pc /\ dialect' = dialect /\ defs' = defs
  BY DEF LineDirective, Current
<1> DEFINE l == Line("line", g)
           r == Ran(l)
           gl == [r EXCEPT !.name = g]
<1>2. l.k \notin SectionKinds BY DEF Line, SectionKinds
<1> HIDE DEF l
<1>3. r \in FileType /\ Later(file, r) /\ file.pos \in r.run BY FileParts, RanIs
<1> HIDE DEF r
<1>4. gl \in FileType /\ Likewise(r, gl)
  <2>1. g \in Texts BY DEF Texts
  <2>2. QED BY <1>3, <2>1, NameField
<1>5. Later(file, gl) /\ file.pos \in gl.run BY <1>3, <1>4, LaterLikewise DEF Likewise
<1>6. defs' \subseteq Macros BY <1>1 DEF IInv, Types
<1>7. At(l) /\ inc' = [inc EXCEPT ![Len(inc)] = gl] BY <1>1 DEF l, r
<1> HIDE DEF gl
<1>8. QED BY <1>1, <1>2, <1>4, <1>5, <1>6, <1>7, PlainStep

\* #include
LEMMA IncludeKeeps == ASSUME IInv, Include PROVE IInv'
<1>1. PICK f \in Files :
        /\ pc = "read" /\ At(Line("include", f))
        /\ IF Len(inc) > IncludeDepth
           THEN Error
           ELSE /\ IF Cached(f)
                   THEN Current(Ran(Line("include", f))) /\ flags' = NoFlags
                   ELSE /\ inc' = Append([inc EXCEPT ![Len(inc)] = Resumed(f)], Opened(f))
                        /\ flags' = AtBof
                /\ UNCHANGED <<dialect, pc, a, ifs, defs, cache, pp_once, onces>>
  BY DEF Include
<1> DEFINE l == Line("include", f)
           r == Ran(l)
           op == Opened(f)
           inc2 == [inc EXCEPT ![Len(inc)] = r]
<1>2. l.k \notin SectionKinds BY DEF Line, SectionKinds
<1> HIDE DEF l
<1>3. r \in FileType /\ Later(file, r) /\ file.pos \in r.run BY FileParts, RanIs
<1>4. At(l) /\ pc = "read" BY <1>1 DEF l
<1>5. Resumed(f) = r BY DEF Resumed, l
<1>6. CASE Len(inc) > IncludeDepth
  <2>1. LineRead(l) BY <1>4, AtIs
  <2>2. Error BY <1>1, <1>6
  <2>3. QED BY <2>1, <2>2, ErrorKeeps DEF LineRead
<1>7. CASE ~(Len(inc) > IncludeDepth) /\ Cached(f)
  <2>1. /\ inc' = [inc EXCEPT ![Len(inc)] = r]
        /\ ifs' = ifs /\ a' = a /\ pc' = pc /\ dialect' = dialect /\ defs' = defs
    BY <1>1, <1>7 DEF Current, l
  <2>2. defs' \subseteq Macros BY <2>1 DEF IInv, Types
  <2> HIDE DEF r
  <2>3. QED BY <1>2, <1>3, <1>4, <2>1, <2>2, PlainStep
<1>8. CASE ~(Len(inc) > IncludeDepth) /\ ~Cached(f)
  <2>1. /\ inc' = Append(inc2, op)
        /\ ifs' = ifs /\ a' = a /\ pc' = pc /\ dialect' = dialect /\ defs' = defs
    BY <1>1, <1>5, <1>8
  <2> HIDE DEF r
  <2>2. /\ LineRead(l)
        /\ FilesFit(text', inc2, ifs) /\ Whole(text', inc2, ifs, 0, "read")
        /\ Len(inc2) = Len(inc) /\ Len(inc) \in Nat /\ a = 0
    BY <1>2, <1>3, <1>4, PlainKeeps
  <2>3. Stack(ifs) /\ Len(ifs) \in Nat BY DEF IInv, Types, Stack
  <2>4. op \in FileType /\ op.pos = 1 /\ op.base = Len(ifs) /\ op.run = {} /\ op.yes = {}
    <3>1. f \in Texts BY DEF Texts
    <3>2. QED BY <2>3, <3>1 DEF Opened, FileType
  <2>5. text' \in [Texts -> Seq(Lines)] BY <2>2 DEF LineRead
  <2> HIDE DEF op, inc2
  <2>6. FilesFit(text', Append(inc2, op), ifs) /\ Whole(text', Append(inc2, op), ifs, 0, "read")
    BY <2>2, <2>3, <2>4, <2>5, FileOpened
  <2>7. Len(inc') <= IncludeDepth + 1
    <3>1. inc2 \in Seq(FileType) BY <2>2 DEF FilesFit
    <3>2. Len(Append(inc2, op)) = Len(inc2) + 1 BY <2>4, <3>1
    <3>3. IncludeDepth \in Nat BY ConditionalsAssumption
    <3>4. QED BY <1>8, <2>1, <2>2, <3>2, <3>3
  <2>8. Types' BY <2>1, <2>2, <2>7 DEF IInv, Types, LineRead
  <2>9. FilesFit(text', inc', ifs') /\ Whole(text', inc', ifs', a', pc') BY <1>4, <2>1, <2>2, <2>6
  <2>10. QED BY <2>8, <2>9 DEF IInv
<1>9. QED BY <1>6, <1>7, <1>8

\* #if, #ifdef, #ifndef
LEMMA IfKeeps == ASSUME IInv, If PROVE IInv'
<1>1. PICK l \in Lines :
        /\ l.k \in {"if", "ifdef", "ifndef"} /\ pc = "read" /\ At(l)
        /\ IF Len(ifs) = IfDepth
           THEN Error
           ELSE /\ Current(IF l.k = "ifndef" /\ flags.bof
                           THEN [Past(l) EXCEPT !.guard = l.x] ELSE Past(l))
                /\ ifs' = Append(ifs, IF Holds(l) THEN 1 ELSE 0)
                /\ Section(Holds(l))
                /\ flags' = NoFlags
                /\ UNCHANGED <<dialect, defs, cache, pp_once, onces>>
  BY DEF If
<1>2. LineRead(l) BY <1>1, AtIs
<1>3. CASE Len(ifs) = IfDepth
  <2>1. Error BY <1>1, <1>3
  <2>2. QED BY <1>2, <2>1, ErrorKeeps DEF LineRead
<1>4. CASE Len(ifs) # IfDepth
  <2> DEFINE g == Past(l)
             guards == l.k = "ifndef" /\ flags.bof
             gl == IF guards THEN [g EXCEPT !.guard = l.x] ELSE g
             y == file.pos \in gl.yes
             c2 == IF y THEN "read" ELSE "skip"
             st2 == Append(ifs, IF y THEN 1 ELSE 0)
             t == text'[file.f]
  <2>1. /\ file \in FileType /\ Reader(file) /\ file.base <= Len(ifs)
        /\ file.pos \in Nat \ {0} /\ file.base \in Nat /\ Len(ifs) \in Nat
    BY FileParts
  <2>2. g \in FileType /\ Later(file, g) /\ (file.pos \in g.yes <=> Holds(l)) BY <2>1, PastIs
  <2> HIDE DEF g
  <2>3. gl \in FileType /\ Likewise(g, gl)
    <3>1. CASE guards
      <4>1. l.x \in Macros \cup {None} BY <3>1, LineKinds
      <4> HIDE DEF guards
      <4>2. [g EXCEPT !.guard = l.x] \in FileType /\ Likewise(g, [g EXCEPT !.guard = l.x])
        BY <2>2, <4>1, GuardField
      <4>3. QED BY <3>1, <4>2
    <3>2. CASE ~guards
      <4> HIDE DEF guards
      <4>1. QED BY <2>2, <3>2 DEF Likewise
    <3>3. QED BY <3>1, <3>2
  <2>4. inc' = [inc EXCEPT ![Len(inc)] = gl] /\ dialect' = dialect /\ defs' = defs /\ a' = 0
    BY <1>1, <1>4 DEF Current, Section, g
  <2>5. ifs' = Append(ifs, IF Holds(l) THEN 1 ELSE 0) /\ pc' = IF Holds(l) THEN "read" ELSE "skip"
    BY <1>1, <1>4 DEF Section
  <2> HIDE DEF gl
  <2>6. Later(file, gl) /\ (y <=> Holds(l)) BY <2>2, <2>3, LaterLikewise DEF Likewise
  <2>7. ifs' = st2 /\ pc' = c2 BY <2>5, <2>6
  <2>8. pc \in Modes /\ Stack(ifs) BY <1>1 DEF Modes, IInv, Types
  <2>9. Tracks(t, file, ifs, a, pc) /\ Opens(t[file.pos])
    BY <1>1, <1>2, <2>8, LineKnown DEF LineRead, Opens
  <2>10. a = 0 BY <1>1, <2>9 DEF Tracks
  <2>12. /\ Stack(st2) /\ Len(st2) = Len(ifs) + 1
         /\ Tracks(t, gl, st2, 0, c2)
    <3> DEFINE v == IF y THEN 1 ELSE 0
    <3>1. Tracks(t, file, ifs, 0, "read") BY <1>1, <2>9, <2>10
    <3>2. BeginsGroup(file, gl, v, c2) BY DEF BeginsGroup
    <3>3. st2 = Append(ifs, v) OBVIOUS
    <3> HIDE DEF t, st2, c2, v
    <3>4. QED BY <2>1, <2>6, <2>8, <2>9, <3>1, <3>2, <3>3, TracksIf
  <2>13. Aside(file, gl, ifs, st2, pc, c2)
    <3>1. \A m \in 1 .. file.base : m \in 1 .. Len(ifs) BY <2>1
    <3>2. \A m \in 1 .. Len(ifs) : st2[m] = ifs[m] BY <2>8 DEF Stack
    <3>3. ~Doomed(file, ifs, pc) BY <1>1 DEF Doomed
    <3>4. QED BY <3>1, <3>2, <3>3 DEF Aside
  <2> HIDE DEF st2, c2
  <2>14. Opens(l) BY <1>1 DEF Opens
  <2>15. Len(st2) >= file.base /\ Len(st2) <= IfDepth
    <3>1. Len(ifs) <= IfDepth /\ IfDepth \in Nat BY ConditionalsAssumption DEF IInv, Types
    <3>2. QED BY <1>4, <2>1, <2>12, <3>1
  <2>16. a' \in Nat /\ pc' \in Modes /\ defs' \subseteq Macros
    BY <2>4, <2>7 DEF IInv, Types, c2, Modes
  <2>17. Stack(ifs') /\ Len(ifs') >= file.base /\ Len(ifs') <= IfDepth BY <2>7, <2>12, <2>15
  <2>18. Tracks(text'[file.f], gl, ifs', a', pc') /\ Aside(file, gl, ifs, ifs', pc, pc')
    BY <2>4, <2>7, <2>12, <2>13
  <2>19. QED BY <1>2, <2>3, <2>4, <2>6, <2>8, <2>14, <2>16, <2>17, <2>18, LineKeeps
<1>5. QED BY <1>3, <1>4

\* Where a directive is met
LEMMA DirectiveIs ==
    ASSUME IInv, Directive
    PROVE  pc \in Modes /\ a = 0
<1>1. pc \in Modes BY DEF Directive, Modes
<1>2. Tracks(text[file.f], file, ifs, a, pc) BY <1>1, FileParts
<1>3. QED BY <1>1, <1>2 DEF Directive, Tracks

\* #else and #elif
LEMMA HeadKeeps ==
    ASSUME IInv, Directive, NEW k \in {"elif", "else"}, NEW l, At(l), l.k = k,
           ifs # <<>>, ~(ifs[Len(ifs)] > 1),
           NEW gl \in FileType, Later(file, gl), k = "else" => file.pos \notin gl.yes,
           inc' = [inc EXCEPT ![Len(inc)] = gl],
           NEW w, BeginsSection(file, gl, k, ifs[Len(ifs)], w, pc'),
           ifs' = [ifs EXCEPT ![Len(ifs)] = w],
           a' = 0, dialect' = dialect, defs' = defs
    PROVE  IInv'
<1> DEFINE t == text'[file.f]
<1>1. LineRead(l) BY AtIs
<1>2. /\ file \in FileType /\ Reader(file) /\ file.base <= Len(ifs)
      /\ file.pos \in Nat \ {0} /\ file.base \in Nat /\ Len(ifs) \in Nat
  BY FileParts
<1>3. pc \in Modes /\ a = 0 BY DirectiveIs
<1>4. Stack(ifs) BY DEF IInv, Types
<1>5. Tracks(t, file, ifs, 0, pc) /\ t[file.pos].k = k BY <1>1, <1>3, LineKnown DEF LineRead
<1> HIDE DEF t
<1>6. ifs[Len(ifs)] \in {0, 1}
  <2>1. Len(ifs) \in 1 .. Len(ifs) BY <1>2, <1>4 DEF Stack
  <2>2. ifs[Len(ifs)] \in 0 .. 3 BY <1>4, <2>1 DEF Stack
  <2>3. QED BY <2>2
<1>7. Stack(ifs') /\ Len(ifs') = Len(ifs) /\ Tracks(t, gl, ifs', 0, pc')
  <2> DEFINE st2 == [ifs EXCEPT ![Len(ifs)] = w]
             c2 == pc'
             v == ifs[Len(ifs)]
  <2>1. BeginsSection(file, gl, k, v, w, c2) OBVIOUS
  <2>2. HeadLine(t, file, gl, ifs, pc, k) BY <1>3, <1>5, <1>6 DEF HeadLine
  <2> HIDE DEF c2
  <2>3. Stack(st2) /\ Len(st2) = Len(ifs) /\ Tracks(t, gl, st2, 0, c2)
    BY <1>2, <1>4, <2>1, <2>2, TracksHead
  <2>4. QED BY <2>3 DEF c2
<1>8. Aside(file, gl, ifs, ifs', pc, pc')
  <2>1. SUFFICES ASSUME ~Doomed(gl, ifs', pc')
                 PROVE  ~Doomed(file, ifs, pc) /\ \A m \in 1 .. file.base : ifs'[m] = ifs[m]
    BY DEF Aside
  <2>2. Placed(t, gl) BY <1>7, <2>1 DEF Tracks
  <2>3. file.pos \in 1 .. gl.pos - 1 BY <1>2 DEF Later
  <2>4. ~Lost(t, file.pos) BY <2>2, <2>3 DEF Placed
  <2>5. Depth(t, file.pos) = Len(ifs) - file.base + 0 BY <1>5 DEF Tracks, Sits
  <2>6. Len(ifs) # file.base BY <1>2, <1>5, <2>4, <2>5 DEF Lost
  <2>7. \A m \in 1 .. file.base : m # Len(ifs) /\ m \in 1 .. Len(ifs) BY <1>2, <2>6
  <2>8. \A m \in 1 .. Len(ifs) : m # Len(ifs) => ifs'[m] = ifs[m]
    <3>1. DOMAIN ifs = 1 .. Len(ifs) BY <1>4 DEF Stack
    <3>2. QED BY <3>1
  <2>9. QED BY <2>6, <2>7, <2>8 DEF Doomed
<1>9. ~(~Opens(l) /\ l.k \notin {"elif", "else", "endif"}) OBVIOUS
<1>10. Len(ifs') >= file.base /\ Len(ifs') <= IfDepth BY <1>2, <1>7 DEF IInv, Types
<1>11. a' \in Nat /\ pc' \in Modes /\ defs' \subseteq Macros BY DEF IInv, Types, Modes, BeginsSection
<1>12. Tracks(text'[file.f], gl, ifs', a', pc') BY <1>7 DEF t
<1>13. QED BY <1>1, <1>3, <1>7, <1>8, <1>9, <1>10, <1>11, <1>12, LineKeeps

\* The current file after #else or #elif
LEMMA TestElseIs ==
    ASSUME IInv, NEW l
    PROVE  TestElse(l) \in FileType /\ Later(file, TestElse(l)) /\ (file.pos \in TestElse(l).yes <=> Holds(l))
<1> DEFINE g == Past(l)
<1>1. file \in FileType /\ Reader(file) BY FileParts
<1>2. g \in FileType /\ Later(file, g) /\ (file.pos \in g.yes <=> Holds(l)) BY <1>1, PastIs
<1>3. TestElse(l) = IF Len(ifs) = file.base + 1 THEN [g EXCEPT !.guard = None] ELSE g
  BY DEF TestElse
<1> HIDE DEF g
<1>4. CASE Len(ifs) = file.base + 1
  <2>1. [g EXCEPT !.guard = None] \in FileType /\ Likewise(g, [g EXCEPT !.guard = None])
    <3>1. None \in Macros \cup {None} OBVIOUS
    <3>2. QED BY <1>2, <3>1, GuardField
  <2>2. TestElse(l) \in FileType /\ Likewise(g, TestElse(l)) BY <1>3, <1>4, <2>1
  <2>3. QED BY <1>2, <2>2, LaterLikewise DEF Likewise
<1>5. CASE Len(ifs) # file.base + 1 BY <1>2, <1>3, <1>5
<1>6. QED BY <1>4, <1>5

\* #else
LEMMA ElseKeeps == ASSUME IInv, Else PROVE IInv'
<1> DEFINE l == Plain("else")
           v == ifs[Len(ifs)]
           gl == TestElse(l)
<1>1. Directive /\ At(l) BY DEF Else
<1>2. l.k = "else" /\ ~Holds(l) BY DEF Plain, Holds
<1>3. CASE ifs = <<>> \/ v > 1
  <2>1. LineRead(l) BY <1>1, AtIs
  <2>2. Error BY <1>3 DEF Else
  <2>3. QED BY <2>1, <2>2, ErrorKeeps DEF LineRead
<1>4. CASE ~(ifs = <<>> \/ v > 1)
  <2>1. /\ inc' = [inc EXCEPT ![Len(inc)] = gl]
        /\ ifs' = [ifs EXCEPT ![Len(ifs)] = Flipped(v)]
        /\ pc' = (IF v = 0 THEN "read" ELSE "skip") /\ a' = 0
        /\ dialect' = dialect /\ defs' = defs
    BY <1>4 DEF Else, Current, Section
  <2>2. gl \in FileType /\ Later(file, gl) /\ file.pos \notin gl.yes BY <1>2, TestElseIs
  <2>3. v \in {0, 1}
    <3>1. Stack(ifs) BY DEF IInv, Types
    <3>2. Len(ifs) \in 1 .. Len(ifs) BY <1>4, <3>1 DEF Stack
    <3>3. v \in 0 .. 3 BY <3>1, <3>2 DEF Stack
    <3>4. QED BY <1>4, <3>3
  <2> HIDE DEF l, gl
  <2>4. BeginsSection(file, gl, "else", v, Flipped(v), pc')
    BY <2>1, <2>2, <2>3 DEF BeginsSection, Flipped, AfterHead, TakesHead
  <2>5. QED BY <1>1, <1>2, <1>4, <2>1, <2>2, <2>4, HeadKeeps
<1>5. QED BY <1>3, <1>4

\* #elif
LEMMA ElifKeeps == ASSUME IInv, Elif PROVE IInv'
<1>1. PICK c \in Macros \cup BOOLEAN :
        /\ Directive
        /\ At(Line("elif", c))
        /\ IF ifs = <<>> \/ ifs[Len(ifs)] > 1
           THEN Error
           ELSE LET l == Line("elif", c) IN
                /\ Current(TestElse(l))
                /\ ifs' = IF ElifTaken(l) THEN [ifs EXCEPT ![Len(ifs)] = 1] ELSE ifs
                /\ Section(ElifTaken(l))
                /\ flags' = NoFlags
                /\ UNCHANGED <<dialect, defs, cache, pp_once, onces>>
  BY DEF Elif
<1> DEFINE l == Line("elif", c)
           v == ifs[Len(ifs)]
           gl == TestElse(l)
           y == file.pos \in gl.yes
<1>2. l.k = "elif" BY DEF Line
<1>3. Directive /\ At(l) BY <1>1
<1>4. CASE ifs = <<>> \/ v > 1
  <2>1. LineRead(l) BY <1>3, AtIs
  <2>2. Error BY <1>1, <1>4
  <2>3. QED BY <2>1, <2>2, ErrorKeeps DEF LineRead
<1>5. CASE ~(ifs = <<>> \/ v > 1)
  <2>1. /\ inc' = [inc EXCEPT ![Len(inc)] = gl]
        /\ ifs' = IF ElifTaken(l) THEN [ifs EXCEPT ![Len(ifs)] = 1] ELSE ifs
        /\ pc' = (IF ElifTaken(l) THEN "read" ELSE "skip") /\ a' = 0
        /\ dialect' = dialect /\ defs' = defs
    BY <1>1, <1>5 DEF Current, Section
  <2> HIDE DEF l
  <2>2. gl \in FileType /\ Later(file, gl) /\ (y <=> Holds(l)) BY TestElseIs
  <2>3. ElifTaken(l) <=> v = 0 /\ y BY <2>2 DEF ElifTaken
  <2>4. Stack(ifs) BY DEF IInv, Types
  <2> DEFINE w == IF ElifTaken(l) THEN 1 ELSE v
  <2>5. ifs' = [ifs EXCEPT ![Len(ifs)] = w]
    <3>1. CASE ElifTaken(l) BY <2>1, <3>1
    <3>2. CASE ~ElifTaken(l)
      <4>1. [ifs EXCEPT ![Len(ifs)] = ifs[Len(ifs)]] = ifs BY <2>4 DEF Stack
      <4>2. QED BY <2>1, <3>2, <4>1
    <3>3. QED BY <3>1, <3>2
  <2>6. BeginsSection(file, gl, "elif", v, w, pc')
    BY <2>1, <2>3 DEF BeginsSection, AfterHead, TakesHead
  <2> HIDE DEF gl, w
  <2>7. QED BY <1>2, <1>3, <1>5, <2>1, <2>2, <2>5, <2>6, HeadKeeps
<1>6. QED BY <1>4, <1>5

\* #endif
LEMMA EndifKeeps == ASSUME IInv, Endif PROVE IInv'
<1> DEFINE l == Plain("endif")
           g == Past(l)
           guards == file.guard # None /\ Len(ifs) - 1 = file.base
           gl == IF guards THEN [g EXCEPT !.saved = file.guard, !.guard = None] ELSE g
           st2 == SubSeq(ifs, 1, Len(ifs) - 1)
           t == text'[file.f]
<1>1. Directive /\ At(l) BY DEF Endif
<1>2. LineRead(l) BY <1>1, AtIs
<1>3. l.k = "endif" BY DEF Plain
<1>4. CASE Unmatched
  <2>1. Error BY <1>4 DEF Endif
  <2>2. QED BY <1>2, <2>1, ErrorKeeps DEF LineRead
<1>5. CASE ~Unmatched
  <2>1. /\ inc' = [inc EXCEPT ![Len(inc)] = gl] /\ ifs' = st2 /\ pc' = "read" /\ a' = 0
        /\ dialect' = dialect /\ defs' = defs
    BY <1>5, Zenon DEF Endif, Current
  <2>2. /\ file \in FileType /\ Reader(file) /\ file.base <= Len(ifs)
        /\ file.pos \in Nat \ {0} /\ file.base \in Nat /\ Len(ifs) \in Nat
    BY FileParts
  <2> HIDE DEF l, guards
  <2>3. g \in FileType /\ Later(file, g) BY <2>2, PastIs
  <2> HIDE DEF g
  <2>4. gl \in FileType /\ Likewise(g, gl)
    <3>1. CASE guards
      <4>1. None \in Macros \cup {None} /\ file.guard \in Macros \cup {None}
        BY <2>2 DEF FileType
      <4>2. /\ [g EXCEPT !.saved = file.guard, !.guard = None] \in FileType
            /\ Likewise(g, [g EXCEPT !.saved = file.guard, !.guard = None])
        BY <2>3, <4>1, SavedField
      <4>3. QED BY <3>1, <4>2
    <3>2. CASE ~guards BY <2>3, <3>2 DEF Likewise
    <3>3. QED BY <3>1, <3>2
  <2> HIDE DEF gl
  <2>5. Later(file, gl) BY <2>3, <2>4, LaterLikewise
  <2>6. pc \in Modes /\ a = 0 BY <1>1, DirectiveIs
  <2>7. Tracks(t, file, ifs, 0, pc) /\ t[file.pos].k = "endif"
    BY <1>2, <1>3, <2>6, LineKnown DEF LineRead
  <2> HIDE DEF t
  <2>8. Stack(ifs) BY DEF IInv, Types
  <2>9. file.base < Len(ifs) BY <1>5, <2>2 DEF Unmatched
  <2>10. Stack(st2) /\ Len(st2) = Len(ifs) - 1 /\ Tracks(t, gl, st2, 0, "read")
    BY <2>2, <2>5, <2>6, <2>7, <2>8, <2>9, TracksEndif
  <2>11. Aside(file, gl, ifs, st2, pc, "read")
    <3>1. \A m \in 1 .. file.base : m \in 1 .. Len(ifs) - 1 BY <2>2, <2>9
    <3>2. \A m \in 1 .. Len(ifs) - 1 : st2[m] = ifs[m] BY <2>2, <2>8, <2>9 DEF Stack
    <3>3. Len(ifs) # file.base BY <2>2, <2>9
    <3>4. QED BY <3>1, <3>2, <3>3 DEF Aside, Doomed
  <2> HIDE DEF st2
  <2>12. Len(st2) >= file.base /\ Len(st2) <= IfDepth
    <3>1. Len(ifs) <= IfDepth /\ IfDepth \in Nat BY ConditionalsAssumption DEF IInv, Types
    <3>2. QED BY <2>2, <2>9, <2>10, <3>1
  <2>13. a' \in Nat /\ pc' \in Modes /\ defs' \subseteq Macros BY <2>1 DEF IInv, Types, Modes
  <2>14. /\ Stack(ifs') /\ Len(ifs') >= file.base /\ Len(ifs') <= IfDepth
         /\ Tracks(text'[file.f], gl, ifs', a', pc') /\ Aside(file, gl, ifs, ifs', pc, pc')
    BY <2>1, <2>10, <2>11, <2>12 DEF t
  <2>15. QED BY <1>2, <1>3, <2>1, <2>4, <2>5, <2>6, <2>13, <2>14, LineKeeps
<1>6. QED BY <1>4, <1>5

\* A line that preprocess_skip() passes over
LEMMA SkipKeeps == ASSUME IInv, Skip PROVE IInv'
<1>1. PICK l \in Lines :
        /\ pc = "skip"
        /\ a = 0 => l.k \notin {"else", "elif", "endif"}
        /\ At(l)
        /\ Current(Past(l))
        /\ a' = CASE l.k \in {"if", "ifdef", "ifndef"} -> a + 1
                  [] l.k = "endif" -> a - 1
                  [] OTHER -> a
        /\ UNCHANGED <<dialect, pc, ifs, defs, flags, cache, pp_once, onces>>
  BY DEF Skip
<1> DEFINE gl == Past(l)
           t == text'[file.f]
<1>2. LineRead(l) BY <1>1, AtIs
<1>3. /\ file \in FileType /\ Reader(file) /\ file.base <= Len(ifs)
      /\ file.pos \in Nat \ {0} /\ file.base \in Nat /\ Len(ifs) \in Nat
  BY FileParts
<1>4. gl \in FileType /\ Later(file, gl) /\ gl.run = file.run BY <1>3, PastIs
<1>5. file.pos \notin gl.run
  <2>1. file.pos \notin 1 .. file.pos - 1 BY <1>3
  <2>2. QED BY <1>3, <1>4, <2>1 DEF Reader
<1>6. inc' = [inc EXCEPT ![Len(inc)] = gl] /\ dialect' = dialect /\ defs' = defs /\ pc' = pc /\ ifs' = ifs
  BY <1>1 DEF Current
<1> HIDE DEF gl
<1>7. pc \in Modes /\ a \in Nat /\ Stack(ifs) BY <1>1 DEF Modes, IInv, Types
<1>8. Tracks(t, file, ifs, a, "skip") /\ t[file.pos] = l
  BY <1>1, <1>2, <1>7, LineKnown DEF LineRead
<1> HIDE DEF t
<1>9. a' = AfterSkip(a, l)
  <2>1. CASE l.k \in {"if", "ifdef", "ifndef"} BY <1>1, <2>1 DEF AfterSkip, Opens
  <2>2. CASE l.k = "endif" BY <1>1, <2>2 DEF AfterSkip, Opens
  <2>3. CASE ~(l.k \in {"if", "ifdef", "ifndef"}) /\ l.k # "endif" BY <1>1, <2>3 DEF AfterSkip, Opens
  <2>4. QED BY <2>1, <2>2, <2>3
<1>10. AfterSkip(a, l) \in Nat /\ Tracks(t, gl, ifs, AfterSkip(a, l), "skip")
  <2>1. a = 0 => t[file.pos].k \notin {"else", "elif", "endif"} BY <1>1, <1>8
  <2>2. AfterSkip(a, t[file.pos]) \in Nat /\ Tracks(t, gl, ifs, AfterSkip(a, t[file.pos]), "skip")
    BY <1>3, <1>4, <1>7, <1>8, <2>1, TracksSkip
  <2>3. QED BY <1>8, <2>2
<1>11. Aside(file, gl, ifs, ifs, "skip", "skip")
  <2>1. gl.base = file.base BY <1>4 DEF Later
  <2>2. QED BY <2>1 DEF Aside, Doomed
<1>12. /\ Stack(ifs') /\ Len(ifs') >= file.base /\ Len(ifs') <= IfDepth
       /\ a' \in Nat /\ pc' \in Modes /\ defs' \subseteq Macros
  BY <1>3, <1>6, <1>7, <1>9, <1>10 DEF IInv, Types
<1>13. Tracks(text'[file.f], gl, ifs', a', pc') /\ Aside(file, gl, ifs, ifs', pc, pc')
  BY <1>1, <1>6, <1>9, <1>10, <1>11 DEF t
<1>14. file.pos \in gl.run <=> pc = "read" BY <1>1, <1>5
<1>15. QED BY <1>2, <1>4, <1>6, <1>7, <1>12, <1>13, <1>14, LineKeeps

\* The end of a file
LEMMA AtEndIs ==
    ASSUME IInv, AtEnd
    PROVE  /\ text' = text /\ closed' \subseteq Texts /\ Grows(text, text')
           /\ text' \in [Texts -> Seq(Lines)] /\ file.pos = Len(text[file.f]) + 1
<1>1. file.f \in Texts /\ file.pos \in Nat \ {0} /\ file.pos <= Len(text[file.f]) + 1
      /\ Len(text[file.f]) \in Nat
  BY FileParts
<1>2. text \in [Texts -> Seq(Lines)] /\ closed \subseteq Texts BY DEF IInv, Types
<1>3. text' = text /\ closed' = closed \cup {file.f} /\ file.pos > Len(text[file.f]) BY DEF AtEnd
<1>4. file.pos = Len(text[file.f]) + 1 BY <1>1, <1>3
<1>5. Grows(text, text')
  <2>1. \A f \in Texts : text[f] \in Seq(Lines) BY <1>2
  <2>2. \A f \in Texts : Len(text[f]) \in Nat BY <2>1
  <2>3. QED BY <1>3, <2>2 DEF Grows, Same
<1>6. QED BY <1>1, <1>2, <1>3, <1>4, <1>5

\* The end of a file in a section that is skipped
LEMMA EndInSkipKeeps == ASSUME IInv, EndInSkip PROVE IInv'
BY AtEndIs, ErrorKeeps DEF EndInSkip

\* The end of a file
LEMMA EofKeeps == ASSUME IInv, Eof PROVE IInv'
<1>1. pc = "read" /\ AtEnd BY DEF Eof
<1>2. /\ text' = text /\ closed' \subseteq Texts /\ Grows(text, text')
      /\ text' \in [Texts -> Seq(Lines)]
  BY <1>1, AtEndIs
<1>3. CASE OpenGroups
  <2>1. Error BY <1>3 DEF Eof
  <2>2. QED BY <1>2, <2>1, ErrorKeeps
<1>4. CASE ~OpenGroups /\ Len(inc) = 1
  <2>1. pc' = "done" /\ UNCHANGED <<dialect, a, inc, ifs, defs>> BY <1>4 DEF Eof
  <2>2. Types' BY <1>2, <2>1 DEF IInv, Types
  <2>3. FilesFit(text', inc', ifs') BY <1>2, <2>1 DEF IInv
  <2>4. pc' \notin Modes BY <2>1 DEF Modes
  <2>5. QED BY <2>2, <2>3, <2>4 DEF IInv
<1>5. CASE ~OpenGroups /\ Len(inc) # 1
  <2> DEFINE inc2 == SubSeq(inc, 1, Len(inc) - 1)
  <2>1. inc' = inc2 /\ UNCHANGED <<dialect, pc, a, ifs, defs>> BY <1>5 DEF Eof
  <2>2. pc \in Modes /\ Stack(ifs) BY <1>1 DEF Modes, IInv, Types
  <2>3. Tracks(text[file.f], file, ifs, a, pc) BY <2>2, FileParts
  <2>4. a = 0 BY <1>1, <2>3 DEF Tracks
  <2>5. /\ text \in [Texts -> Seq(Lines)] /\ FilesFit(text, inc, ifs) /\ Whole(text, inc, ifs, 0, "read")
    BY <1>1, <2>2, <2>4 DEF IInv, Types
  <2>6. Len(ifs) = inc[Len(inc)].base BY <1>5 DEF OpenGroups, file
  <2> HIDE DEF inc2
  <2>7. FilesFit(text, inc2, ifs) /\ Whole(text, inc2, ifs, 0, "read") /\ Len(inc2) = Len(inc) - 1
    BY <1>5, <2>2, <2>5, <2>6, FileLeft DEF inc2
  <2>8. Len(inc') <= IncludeDepth + 1
    <3>1. Len(inc) \in Nat /\ Len(inc) <= IncludeDepth + 1 /\ IncludeDepth \in Nat
      BY FileParts, ConditionalsAssumption DEF IInv, Types
    <3>2. QED BY <2>1, <2>7, <3>1
  <2>9. Types' BY <1>2, <2>1, <2>8 DEF IInv, Types
  <2>10. QED BY <1>1, <1>2, <2>1, <2>4, <2>7, <2>9 DEF IInv
<1>6. QED BY <1>3, <1>4, <1>5

\* The string or file with which a unit begins
LEMMA FirstFile ==
    ASSUME NEW T \in [Texts -> Seq(Lines)], NEW fl \in FileType,
           fl.pos = 1, fl.base = 0, fl.run = {}, fl.yes = {}
    PROVE  FilesFit(T, <<fl>>, <<>>) /\ Whole(T, <<fl>>, <<>>, 0, "read")
<1> DEFINE t == T[fl.f]
           fs == <<fl>>
           st == <<>>
<1>1. fs \in Seq(FileType) /\ Len(fs) = 1 /\ fs[1] = fl OBVIOUS
<1>2. Len(st) = 0 OBVIOUS
<1>3. Len(t) \in Nat
  <2>1. fl.f \in Texts BY DEF FileType
  <2>2. t \in Seq(Lines) BY <2>1
  <2>3. QED BY <2>2
<1> HIDE DEF t, fs, st
<1>4. 1 .. fl.pos - 1 = {} OBVIOUS
<1>5. Reader(fl) BY <1>4 DEF Reader
<1>6. Active(t, fl) BY <1>4 DEF Active
<1>7. Fits(T, fl, st) BY <1>2, <1>3, <1>5, <1>6 DEF Fits, t
<1>8. \A i \in 1 .. Len(fs) : i = 1 BY <1>1
<1>9. FilesFit(T, fs, st)
  <2>1. \A i \in 1 .. Len(fs) : Fits(T, fs[i], st) BY <1>1, <1>7, <1>8
  <2>2. \A i, j \in 1 .. Len(fs) : i <= j => fs[i].base <= fs[j].base
    <3>1. fs[1].base <= fs[1].base BY <1>1
    <3>2. QED BY <1>8, <3>1
  <2>3. QED BY <1>1, <2>1, <2>2 DEF FilesFit
<1>10. Tracks(t, fl, st, 0, "read")
  <2>1. Sits(t, fl, Len(st), 0)
    <3>1. Depth(t, 1) = 0 BY DepthFirst
    <3>2. \A p \in 1 .. fl.pos : p = 1 OBVIOUS
    <3>3. Depth(t, fl.pos) = Len(st) - fl.base + 0 BY <1>2, <3>1
    <3>4. \A p \in 1 .. fl.pos : Depth(t, p) >= 0 BY <3>1, <3>2
    <3>5. QED BY <3>3, <3>4 DEF Sits
  <2>2. 1 .. Len(st) = {} /\ fl.base + 1 .. Len(st) = {} BY <1>2
  <2>3. ~Doomed(fl, st, "read") BY DEF Doomed
  <2>4. Placed(t, fl) BY <1>4 DEF Placed
  <2>5. Groups(t, fl, st, Len(st), "read" = "skip") BY <2>2 DEF Groups
  <2>6. QED BY <2>1, <2>2, <2>3, <2>4, <2>5 DEF Tracks
<1>11. Whole(T, fs, st, 0, "read")
  <2>1. 1 .. Len(fs) - 1 = {} BY <1>1
  <2>2. Tracks(T[fs[Len(fs)].f], fs[Len(fs)], st, 0, "read") BY <1>1, <1>10 DEF t
  <2>3. QED BY <2>1, <2>2 DEF Whole
<1>12. QED BY <1>9, <1>11 DEF fs, st

\* The record of that file
LEMMA MainFile ==
    LET fl == [f |-> Main, name |-> Main, pos |-> 1, base |-> 0, guard |-> None,
               saved |-> None, run |-> {}, yes |-> {}]
    IN fl \in FileType /\ fl.pos = 1 /\ fl.base = 0 /\ fl.run = {} /\ fl.yes = {}
BY DEF FileType, Texts

\* The first unit
LEMMA InitHolds == ASSUME Init PROVE IInv
<1> DEFINE fl == [f |-> Main, name |-> Main, pos |-> 1, base |-> 0, guard |-> None,
                  saved |-> None, run |-> {}, yes |-> {}]
<1>1. fl \in FileType /\ fl.pos = 1 /\ fl.base = 0 /\ fl.run = {} /\ fl.yes = {} BY MainFile
<1>2. /\ inc = <<fl>> /\ ifs = <<>> /\ a = 0 /\ pc = "read" /\ text = [f \in Texts |-> <<>>]
      /\ dialect \in Dialects /\ closed = {} /\ defs = {}
  BY DEF Init
<1> HIDE DEF fl
<1>3. text \in [Texts -> Seq(Lines)] BY <1>2
<1>4. FilesFit(text, inc, ifs) /\ Whole(text, inc, ifs, a, pc) BY <1>1, <1>2, <1>3, FirstFile
<1>5. Types
  <2>1. Len(inc) = 1 /\ Len(ifs) = 0 /\ Stack(ifs) BY <1>2 DEF Stack
  <2>2. IncludeDepth \in Nat /\ IfDepth \in Nat BY ConditionalsAssumption
  <2>3. Len(inc) <= IncludeDepth + 1 /\ Len(ifs) <= IfDepth BY <2>1, <2>2
  <2>4. pc \in Modes \cup {"done", "error"} /\ a \in Nat BY <1>2 DEF Modes
  <2>5. QED BY <1>2, <1>3, <2>1, <2>3, <2>4 DEF Types
<1>6. QED BY <1>4, <1>5 DEF IInv

\* The next one
LEMMA NewUnitKeeps == ASSUME IInv, NewUnit PROVE IInv'
<1> DEFINE fl == [f |-> Main, name |-> Main, pos |-> 1, base |-> 0, guard |-> None,
                  saved |-> None, run |-> {}, yes |-> {}]
<1>1. fl \in FileType /\ fl.pos = 1 /\ fl.base = 0 /\ fl.run = {} /\ fl.yes = {} BY MainFile
<1>2. /\ inc' = <<fl>> /\ ifs' = <<>> /\ a' = 0 /\ pc' = "read" /\ text' = [text EXCEPT ![Main] = <<>>]
      /\ dialect' = dialect /\ closed' = closed \ {Main} /\ defs' = {}
  BY DEF NewUnit
<1> HIDE DEF fl
<1>3. text' \in [Texts -> Seq(Lines)]
  <2>1. text \in [Texts -> Seq(Lines)] BY DEF IInv, Types
  <2>2. <<>> \in Seq(Lines) OBVIOUS
  <2>3. QED BY <1>2, <2>1, <2>2
<1>4. FilesFit(text', inc', ifs') /\ Whole(text', inc', ifs', a', pc') BY <1>1, <1>2, <1>3, FirstFile
<1>5. Types'
  <2>1. Len(inc') = 1 /\ Len(ifs') = 0 /\ Stack(ifs') BY <1>2 DEF Stack
  <2>2. IncludeDepth \in Nat /\ IfDepth \in Nat BY ConditionalsAssumption
  <2>3. Len(inc') <= IncludeDepth + 1 /\ Len(ifs') <= IfDepth BY <2>1, <2>2
  <2>4. pc' \in Modes \cup {"done", "error"} /\ a' \in Nat BY <1>2 DEF Modes
  <2>5. closed' \subseteq Texts /\ dialect' \in Dialects BY <1>2 DEF IInv, Types
  <2>6. QED BY <1>2, <1>3, <2>1, <2>3, <2>4, <2>5 DEF Types
<1>6. QED BY <1>4, <1>5 DEF IInv

\* Steps that change nothing
LEMMA StutterKeeps == ASSUME IInv, UNCHANGED vars PROVE IInv'
BY DEF IInv, Types, vars

\* The invariant is inductive.
THEOREM Inductive == Spec => []IInv
<1>1. Init => IInv BY InitHolds
<1>2. IInv /\ [Next]_vars => IInv'
  <2> SUFFICES ASSUME IInv, [Next]_vars PROVE IInv'
    OBVIOUS
  <2>1. CASE Code BY <2>1, CodeKeeps
  <2>2. CASE NullDirective BY <2>2, NullDirectiveKeeps
  <2>3. CASE Define BY <2>3, DefineKeeps
  <2>4. CASE Include BY <2>4, IncludeKeeps
  <2>5. CASE Once BY <2>5, OnceKeeps
  <2>6. CASE LineDirective BY <2>6, LineDirectiveKeeps
  <2>7. CASE If BY <2>7, IfKeeps
  <2>8. CASE Else BY <2>8, ElseKeeps
  <2>9. CASE Elif BY <2>9, ElifKeeps
  <2>10. CASE Endif BY <2>10, EndifKeeps
  <2>11. CASE Skip BY <2>11, SkipKeeps
  <2>12. CASE EndInSkip BY <2>12, EndInSkipKeeps
  <2>13. CASE Eof BY <2>13, EofKeeps
  <2>14. CASE NewUnit BY <2>14, NewUnitKeeps
  <2>15. CASE UNCHANGED vars BY <2>15, StutterKeeps
  <2>16. QED
    BY <2>1, <2>2, <2>3, <2>4, <2>5, <2>6, <2>7, <2>8, <2>9, <2>10, <2>11, <2>12, <2>13, <2>14, <2>15
    DEF Next, Reads, Ended
<1>3. QED BY <1>1, <1>2, PTL DEF Spec

-----------------------------------------------------------------------------
(* Theorems                                                                *)

\* Every variable has its type, whatever the files are: no file is read past
\* what is known of it, and the open groups of the files are disjoint parts of
\* ifdef_stack, in the order of the inclusions, within the limits.
THEOREM TypeCorrect == Spec => []TypeOK
<1>1. IInv => TypeOK
  <2> SUFFICES ASSUME IInv PROVE TypeOK
    OBVIOUS
  <2>1. /\ FilesFit(text, inc, ifs)
        /\ text \in [Texts -> Seq(Lines)] /\ closed \subseteq Texts
        /\ pc \in Modes \cup {"done", "error"} /\ a \in Nat
        /\ Len(inc) <= IncludeDepth + 1
        /\ Stack(ifs) /\ Len(ifs) <= IfDepth /\ defs \subseteq Macros
    BY DEF IInv, Types
  <2>2. /\ Len(inc) \in Nat /\ Len(inc) \in 1 .. Len(inc) /\ DOMAIN inc = 1 .. Len(inc)
        /\ \A i \in 1 .. Len(inc) :
             /\ inc[i] \in FileType /\ inc[i].f \in Texts /\ Fits(text, inc[i], ifs)
             /\ inc[i].base \in Nat /\ inc[i].pos \in Nat \ {0}
    BY <2>1, FilesParts
  <2>3. pc \in {"read", "skip", "done", "error"} BY <2>1 DEF Modes
  <2>4. Len(inc) \in 1 .. IncludeDepth + 1 BY <2>1, <2>2, ConditionalsAssumption
  <2>5. \A i \in DOMAIN ifs : ifs[i] \in 0 .. 3 BY <2>1 DEF Stack
  <2>6. \A i \in DOMAIN inc : inc[i].base <= Len(ifs) /\ inc[i].pos <= Len(text[inc[i].f]) + 1
    BY <2>2 DEF Fits
  <2>7. ASSUME NEW i \in DOMAIN inc, i > 1 PROVE inc[i - 1].base <= inc[i].base
    <3>1. i \in 1 .. Len(inc) /\ i - 1 \in 1 .. Len(inc) /\ i - 1 <= i BY <2>2, <2>7
    <3>2. \A j, k \in 1 .. Len(inc) : j <= k => inc[j].base <= inc[k].base BY <2>1 DEF FilesFit
    <3>3. QED BY <3>1, <3>2
  <2>8. QED BY <2>1, <2>3, <2>4, <2>5, <2>6, <2>7 DEF TypeOK
<1>2. QED BY <1>1, Inductive, PTL

\* A line is processed exactly if in each group around it the section it is in
\* is the first one with a true condition, or the #else after none, for all
\* files: the stack of 2-bit elements, the count of preprocess_skip() and the
\* stack of files say together which section of the text is the current one.
THEOREM ActiveLinesRead == Spec => []ActiveLines
<1>1. IInv => ActiveLines
  <2> SUFFICES ASSUME IInv PROVE ActiveLines
    OBVIOUS
  <2>1. FilesFit(text, inc, ifs) BY DEF IInv
  <2>2. DOMAIN inc = 1 .. Len(inc) /\ \A i \in 1 .. Len(inc) : Fits(text, inc[i], ifs)
    BY <2>1, FilesParts
  <2>3. \A i \in DOMAIN inc : Active(text[inc[i].f], inc[i]) BY <2>2 DEF Fits
  <2>4. QED BY <2>3 DEF ActiveLines, Active
<1>2. QED BY <1>1, Inductive, PTL

\* At the end of a file that is left its groups are balanced.
LEMMA EofBalanced ==
    ASSUME IInv, Eof, pc' # "error"
    PROVE  LET t == text'[file.f]
           IN  /\ Depth(t, Len(t) + 1) = 0
               /\ \A p \in DOMAIN t : t[p].k \in {"else", "elif", "endif"} => Depth(t, p) > 0
<1> DEFINE t == text[file.f]
<1>1. pc = "read" /\ AtEnd /\ Len(ifs) = file.base
  BY DEF Eof, Error, OpenGroups
<1>2. text' = text /\ file.pos = Len(t) + 1 BY <1>1, AtEndIs
<1>3. Tracks(t, file, ifs, a, "read") BY <1>1, FileParts DEF Modes
<1>4. t \in Seq(Lines)
  <2>1. text \in [Texts -> Seq(Lines)] BY DEF IInv, Types
  <2>2. QED BY <2>1, FileParts
<1>5. Len(t) \in Nat /\ DOMAIN t = 1 .. Len(t) BY <1>4
<1>6. file.base \in Nat /\ Len(ifs) \in Nat /\ file.pos \in Nat BY FileParts
<1>7. a = 0 /\ Sits(t, file, Len(ifs), a) /\ Placed(t, file)
  <2>1. ~Doomed(file, ifs, "read") BY DEF Doomed
  <2>2. QED BY <1>3, <2>1 DEF Tracks
<1> HIDE DEF t
<1>8. Depth(t, Len(t) + 1) = 0 BY <1>1, <1>2, <1>6, <1>7 DEF Sits
<1>9. ASSUME NEW p \in DOMAIN t, t[p].k \in {"else", "elif", "endif"} PROVE Depth(t, p) > 0
  <2>1. p \in 1 .. file.pos - 1 /\ p \in Nat \ {0} BY <1>2, <1>5
  <2>2. ~Lost(t, p) BY <1>7, <2>1 DEF Placed
  <2>3. Depth(t, p) \in Int BY <2>1, DepthNext
  <2>4. QED BY <1>9, <2>2, <2>3 DEF Lost
<1>10. QED BY <1>2, <1>8, <1>9 DEF t

\* What can be said of the line at hand
LEMMA HereIs ==
    ASSUME IInv, pc \in Modes, NEW l, LineRead(l)
    PROVE  /\ file.pos \in DOMAIN text'[file.f] /\ text'[file.f][file.pos] = l
           /\ Tracks(text'[file.f], file, ifs, a, pc)
<1>1. file.pos \in Nat \ {0} /\ file.f \in Texts BY FileParts
<1>2. text'[file.f] \in Seq(Lines) BY <1>1 DEF LineRead
<1>3. DOMAIN text'[file.f] = 1 .. Len(text'[file.f]) /\ Len(text'[file.f]) \in Nat BY <1>2
<1>4. QED BY <1>1, <1>3, LineKnown DEF LineRead

\* #else, #elif or #endif where no group of the file is open
LEMMA NoGroupHere ==
    ASSUME IInv, Directive, NEW l, LineRead(l), l.k \in {"else", "elif", "endif"},
           Len(ifs) = file.base
    PROVE  \E p \in DOMAIN text'[file.f] : Misplaced(text'[file.f], p)
<1> DEFINE t == text'[file.f]
<1>1. pc \in Modes /\ a = 0 BY DirectiveIs
<1>2. file.pos \in DOMAIN t /\ t[file.pos] = l /\ Tracks(t, file, ifs, a, pc) BY <1>1, HereIs
<1> HIDE DEF t
<1>3. Len(ifs) \in Nat BY FileParts
<1>4. Depth(t, file.pos) = 0 BY <1>1, <1>2, <1>3 DEF Tracks, Sits
<1>5. Lost(t, file.pos) BY <1>2, <1>4 DEF Lost
<1>6. Misplaced(t, file.pos) BY <1>5, LostMisplaced
<1>7. QED BY <1>2, <1>6 DEF t

\* #else or #elif in a group whose element of ifdef_stack says that it had an #else
LEMMA ElseTwice ==
    ASSUME NEW t, NEW fl, Reader(fl), NEW s \in 1 .. fl.pos - 1, NEW d \in Int, NEW v, NEW c,
           OpenGroup(t, fl, s, d, v, c), v \notin {0, 1}, Depth(t, fl.pos) = d,
           t[fl.pos].k \in {"else", "elif"}
    PROVE  Misplaced(t, fl.pos)
<1> DEFINE P == fl.pos
<1>1. P \in Nat \ {0} BY DEF Reader
<1> HIDE DEF P
<1>2. s \in Around(t, P) /\ Depth(t, s) = d - 1 /\ s \in 1 .. P - 1 BY DEF OpenGroup, P
<1>3. PICK h \in Heads(t, s, P) : t[h].k = "else" BY DEF OpenGroup, P
<1>4. Opens(t[s]) /\ \A q \in s + 1 .. P : Depth(t, q) > Depth(t, s) BY <1>2 DEF Around
<1>5. h # s BY <1>3, <1>4 DEF Opens
<1>6. h \in s + 1 .. P - 1 /\ Depth(t, h) = d BY <1>2, <1>3, <1>5 DEF Heads
<1>7. Depth(t, P) = d BY DEF P
<1>8. \A q \in 1 .. P : Depth(t, q) \in Int
  <2>1. \A q \in 1 .. P : q \in Nat \ {0} BY <1>1
  <2>2. QED BY <2>1, DepthNext
<1>9. \A q \in s + 1 .. P : Depth(t, q) >= d
  <2>1. \A q \in s + 1 .. P : q \in 1 .. P BY <1>1, <1>2
  <2>2. QED BY <1>2, <1>4, <1>8, <2>1
<1>10. Around(t, P) \subseteq Around(t, h)
  <2> SUFFICES ASSUME NEW r \in Around(t, P) PROVE r \in Around(t, h)
    OBVIOUS
  <2>1. r \in 1 .. P - 1 /\ Opens(t[r]) /\ \A q \in r + 1 .. P : Depth(t, q) > Depth(t, r)
    BY DEF Around
  <2>2. r # h BY <1>3, <2>1 DEF Opens
  <2>3. ~(r > h)
    <3> SUFFICES ASSUME r > h PROVE FALSE
      OBVIOUS
    <3>1. r \in s + 1 .. P BY <1>1, <1>2, <1>6, <2>1
    <3>2. Depth(t, r) >= d BY <1>9, <3>1
    <3>3. P \in r + 1 .. P BY <1>1, <2>1
    <3>4. Depth(t, P) > Depth(t, r) BY <2>1, <3>3
    <3>5. Depth(t, r) \in Int
      <4>1. r \in 1 .. P BY <1>1, <2>1
      <4>2. QED BY <1>8, <4>1
    <3>6. QED BY <1>7, <3>2, <3>4, <3>5
  <2>4. r \in 1 .. h - 1 BY <1>1, <1>2, <1>6, <2>1, <2>2, <2>3
  <2>5. \A q \in r + 1 .. h : q \in r + 1 .. P BY <1>1, <1>2, <1>6, <2>4
  <2>6. QED BY <2>1, <2>4, <2>5 DEF Around
<1>11. Around(t, h) \subseteq Around(t, P)
  <2> SUFFICES ASSUME NEW r \in Around(t, h) PROVE r \in Around(t, P)
    OBVIOUS
  <2>1. r \in 1 .. h - 1 /\ Opens(t[r]) /\ \A q \in r + 1 .. h : Depth(t, q) > Depth(t, r)
    BY DEF Around
  <2>2. r \in 1 .. P - 1 /\ r \in 1 .. P BY <1>1, <1>2, <1>6, <2>1
  <2>3. h \in r + 1 .. h BY <1>2, <1>6, <2>1
  <2>4. d > Depth(t, r) BY <1>6, <2>1, <2>3
  <2>5. ASSUME NEW q \in r + 1 .. P PROVE Depth(t, q) > Depth(t, r)
    <3>1. CASE q \in r + 1 .. h BY <2>1, <3>1
    <3>2. CASE q \notin r + 1 .. h
      <4>1. q \in s + 1 .. P /\ q \in 1 .. P BY <1>1, <1>2, <1>6, <2>1, <3>2
      <4>2. Depth(t, q) >= d /\ Depth(t, q) \in Int /\ Depth(t, r) \in Int
        BY <1>8, <1>9, <2>2, <4>1
      <4>3. QED BY <2>4, <4>2
    <3>3. QED BY <3>1, <3>2
  <2>6. QED BY <2>1, <2>2, <2>5 DEF Around
<1>12. Around(t, P) = Around(t, h) BY <1>10, <1>11
<1>13. h \in 1 .. P - 1 BY <1>1, <1>2, <1>6
<1>14. t[P].k \in {"else", "elif"} BY DEF P
<1>15. Misplaced(t, P) BY <1>3, <1>12, <1>13, <1>14 DEF Misplaced
<1>16. QED BY <1>15 DEF P

\* #else or #elif that is refused
LEMMA HeadRefused ==
    ASSUME IInv, Directive, NEW l, LineRead(l), l.k \in {"else", "elif"},
           ifs = <<>> \/ ifs[Len(ifs)] > 1
    PROVE  \E p \in DOMAIN text'[file.f] : Misplaced(text'[file.f], p)
<1>1. pc \in Modes /\ a = 0 BY DirectiveIs
<1>2. /\ file.base <= Len(ifs) /\ Len(ifs) \in Nat /\ file.base \in Nat /\ Reader(file)
      /\ file.pos \in Nat
  BY FileParts
<1>3. CASE Len(ifs) = file.base BY <1>3, NoGroupHere
<1>4. CASE Len(ifs) # file.base
  <2> DEFINE t == text'[file.f]
  <2>1. file.pos \in DOMAIN t /\ t[file.pos] = l /\ Tracks(t, file, ifs, a, pc) BY <1>1, HereIs
  <2> HIDE DEF t
  <2>2. ~Doomed(file, ifs, pc) BY <1>4 DEF Doomed
  <2>3. Groups(t, file, ifs, Len(ifs), pc = "skip") /\ Sits(t, file, Len(ifs), a)
    BY <2>1, <2>2 DEF Tracks
  <2>4. Len(ifs) \in file.base + 1 .. Len(ifs) BY <1>2, <1>4
  <2>5. PICK s \in 1 .. file.pos - 1 :
          OpenGroup(t, file, s, Len(ifs) - file.base, ifs[Len(ifs)], ~((pc = "skip") /\ Len(ifs) = Len(ifs)))
    BY <2>3, <2>4 DEF Groups
  <2>6. Len(ifs) # 0 BY <1>2, <1>4
  <2>7. ifs # <<>> BY <2>6
  <2>8. ifs[Len(ifs)] \notin {0, 1} BY <2>7
  <2>9. Depth(t, file.pos) = Len(ifs) - file.base /\ Len(ifs) - file.base \in Int
    BY <1>1, <1>2, <2>3 DEF Sits
  <2>10. Misplaced(t, file.pos) BY <1>2, <2>1, <2>5, <2>8, <2>9, ElseTwice
  <2>11. QED BY <2>1, <2>10 DEF t
<1>5. QED BY <1>3, <1>4

\* The end of a file in a group or section that is open
LEMMA EndRefused ==
    ASSUME IInv, AtEnd, pc = "skip" \/ (pc = "read" /\ OpenGroups)
    PROVE  LET t == text'[file.f]
           IN  Depth(t, Len(t) + 1) # 0 \/ \E p \in DOMAIN t : Misplaced(t, p)
<1> DEFINE t == text[file.f]
<1>1. text' = text /\ file.pos = Len(t) + 1 BY AtEndIs
<1>2. Tracks(t, file, ifs, a, pc) /\ Len(t) \in Nat BY FileParts DEF Modes
<1>3. t \in Seq(Lines)
  <2>1. text \in [Texts -> Seq(Lines)] BY DEF IInv, Types
  <2>2. QED BY <2>1, FileParts
<1>4. DOMAIN t = 1 .. Len(t) BY <1>3
<1>5. file.base \in Nat /\ Len(ifs) \in Nat /\ file.base <= Len(ifs) /\ file.pos \in Nat BY FileParts
<1>6. a \in Nat BY DEF IInv, Types
<1> HIDE DEF t
<1>7. CASE Doomed(file, ifs, pc)
  <2>1. PICK p \in 1 .. file.pos - 1 : Lost(t, p) BY <1>2, <1>7 DEF Tracks
  <2>2. Misplaced(t, p) BY <2>1, LostMisplaced
  <2>3. p \in DOMAIN t BY <1>1, <1>2, <1>4
  <2>4. QED BY <1>1, <2>2, <2>3 DEF t
<1>8. CASE ~Doomed(file, ifs, pc)
  <2>1. Len(ifs) # file.base BY <1>8 DEF Doomed, OpenGroups
  <2>2. Depth(t, file.pos) = Len(ifs) - file.base + a BY <1>2 DEF Tracks, Sits
  <2>3. Depth(t, file.pos) # 0 BY <1>5, <1>6, <2>1, <2>2
  <2>4. QED BY <1>1, <2>3 DEF t
<1>9. QED BY <1>7, <1>8

\* Why a unit ends with an error
Reason ==
    LET t == text'[file.f]
    IN  \/ Depth(t, Len(t) + 1) # 0 \/ \E p \in DOMAIN t : Misplaced(t, p)
        \/ Len(inc) > IncludeDepth \/ Len(ifs) = IfDepth

\* Each error has one.
LEMMA ErrorsHaveReasons == ASSUME IInv, Next, pc # "error", pc' = "error" PROVE Reason
<1>1. ~(Code \/ NullDirective \/ Define \/ Once \/ LineDirective \/ Skip)
  BY DEF Code, NullDirective, Define, Once, LineDirective, Skip
<1>2. ~(NewUnit \/ Ended) BY DEF NewUnit, Ended, vars
<1>3. CASE Include BY <1>3 DEF Include, Reason
<1>4. CASE If BY <1>4 DEF If, Section, Reason
<1>5. CASE Else
  <2>1. Directive /\ At(Plain("else")) BY <1>5 DEF Else
  <2>2. Plain("else").k = "else" BY DEF Plain
  <2>3. ifs = <<>> \/ ifs[Len(ifs)] > 1 BY <1>5 DEF Else, Section
  <2>4. LineRead(Plain("else")) BY <2>1, AtIs
  <2>5. QED BY <2>1, <2>2, <2>3, <2>4, HeadRefused DEF Reason
<1>6. CASE Elif
  <2>1. PICK c \in Macros \cup BOOLEAN : Directive /\ At(Line("elif", c)) /\ (ifs = <<>> \/ ifs[Len(ifs)] > 1)
    BY <1>6 DEF Elif, Section
  <2>2. Line("elif", c).k = "elif" BY DEF Line
  <2>3. LineRead(Line("elif", c)) BY <2>1, AtIs
  <2>4. QED BY <2>1, <2>2, <2>3, HeadRefused DEF Reason
<1>7. CASE Endif
  <2>1. Directive /\ At(Plain("endif")) /\ Unmatched BY <1>7 DEF Endif
  <2>2. Plain("endif").k = "endif" BY DEF Plain
  <2>3. LineRead(Plain("endif")) BY <2>1, AtIs
  <2>4. Len(ifs) = file.base
    <3>1. Len(ifs) \in Nat /\ file.base \in Nat /\ file.base <= Len(ifs) BY FileParts
    <3>2. QED BY <2>1, <3>1 DEF Unmatched
  <2>5. QED BY <2>1, <2>2, <2>3, <2>4, NoGroupHere DEF Reason
<1>8. CASE EndInSkip BY <1>8, EndRefused DEF EndInSkip, Reason
<1>9. CASE Eof
  <2>1. pc = "read" /\ AtEnd /\ OpenGroups BY <1>9 DEF Eof
  <2>2. QED BY <2>1, EndRefused DEF Reason
<1>10. QED BY <1>1, <1>2, <1>3, <1>4, <1>5, <1>6, <1>7, <1>8, <1>9 DEF Next, Reads

\* A file is left at its end only if its own groups are balanced, and a unit is
\* refused only for a reason, for all files: although ifdef_stack is shared and
\* test_else looks at the including file's group, an #else or #elif taken for it
\* cannot be undone, and the unit ends with an error in this file.
THEOREM VerdictsRight == Spec => Verdicts
<1>1. IInv /\ [Next]_vars =>
        [/\ Eof /\ pc' # "error" =>
              LET t == text'[file.f]
              IN  /\ Depth(t, Len(t) + 1) = 0
                  /\ \A p \in DOMAIN t : t[p].k \in {"else", "elif", "endif"} => Depth(t, p) > 0
         /\ pc # "error" /\ pc' = "error" => Reason]_vars
  BY EofBalanced, ErrorsHaveReasons
<1>2. QED BY <1>1, Inductive, PTL DEF Spec, Verdicts, Reason

-----------------------------------------------------------------------------
(* The include cache                                                       *)

\* No line up to n that does something is outside of the section that is read while
\* m is undefined, and that section is all of its group.
Shielded(t, n, m) ==
    \A p \in 1 .. n :
        \/ t[p].k = "null" \/ t[p] = Line("ifndef", m)
        \/ Depth(t, p) >= 1 /\ (t[p].k \in {"elif", "else"} => Depth(t, p) >= 2)

\* ifndef_macro is set in a file, of which top groups are open, while all of it is
\* shielded by the macro.
Guarding(t, fl, top) == fl.guard # None => top > fl.base /\ Shielded(t, fl.pos - 1, fl.guard)

\* file->filename is the file, where it matters.
Named(fl, d) == fl.name = fl.f \/ (fl.f = Main /\ Plain("once") \notin d.lines[Main])

\* How many groups are open in or around the i-th file
TopOf(fs, st, i) == IF i = Len(fs) THEN Len(st) ELSE fs[i + 1].base

\* The files that are open, each of them but the last one at its #include of the next
Sheltered(T, fs, st, d) ==
    \A i \in 1 .. Len(fs) :
        /\ Named(fs[i], d)
        /\ fs[i].f \in Files => Guarding(T[fs[i].f], fs[i], TopOf(fs, st, i))
        /\ i > 1 => fs[i].f \in Files
        /\ i < Len(fs) => /\ fs[i].pos > 1
                          /\ T[fs[i].f][fs[i].pos - 1] = Line("include", fs[i + 1].f)

\* The lines of the files are lines that the dialect has.
Written(T, d) == \A f \in Texts : \A i \in 1 .. Len(T[f]) : T[f][i] \in d.lines[f]

\* tok_flags: nothing has been read yet, or only null directives since the #endif
\* that ended the guard.
FlagsMean(t, fl, fg) ==
    fl.f \in Files =>
        /\ fg.bof => \A p \in 1 .. fl.pos - 1 : t[p].k = "null"
        /\ fg.endif => fl.saved # None /\ Shielded(t, fl.pos - 1, fl.saved)

\* The entries of the cache
GuardsMean(T, cl, c) ==
    \A f \in Files : c[f].guard # None => f \in cl /\ Shielded(T[f], Len(T[f]), c[f].guard)
OncesMean(T, c, unit, on) ==
    \A f \in Files :
        /\ c[f].once <= unit /\ (c[f].once = unit <=> f \in on)
        /\ c[f].once # 0 => \E i \in 1 .. Len(T[f]) : T[f][i].k = "once"

CacheTypes ==
    /\ flags \in [bof : BOOLEAN, endif : BOOLEAN] /\ pp_once \in Nat \ {0}
    /\ cache \in [Texts -> [guard : Macros \cup {None}, once : Nat]]

\* The inductive invariant of the cache
CInv ==
    /\ CacheTypes
    /\ Written(text, dialect) /\ Sheltered(text, inc, ifs, dialect)
    /\ FlagsMean(text[file.f], file, flags)
    /\ pc = "skip" => flags = NoFlags
    /\ GuardsMean(text, closed, cache)
    /\ OncesMean(text, cache, pp_once, onces)


\* The hypothesis of the theorems about the cache
PlainFiles == \A d \in Dialects : PlainDialect(d)

\* A line in more than d groups has one around it that begins at depth d.
LEMMA GroupAt ==
    ASSUME NEW t, NEW p \in Nat \ {0}, NEW d \in Nat, Depth(t, p) > d
    PROVE  \E r \in Around(t, p) : Depth(t, r) = d
<1> DEFINE S == {q \in 1 .. p : Depth(t, q) <= d}
<1>1. \A q \in 1 .. p : q \in Nat \ {0} /\ Depth(t, q) \in Int
  <2>1. \A q \in 1 .. p : q \in Nat \ {0} OBVIOUS
  <2>2. QED BY <2>1, DepthNext
<1>2. 1 \in S
  <2>1. Depth(t, 1) = 0 BY DepthFirst
  <2>2. QED BY <2>1
<1>3. S \in SUBSET (1 .. p) /\ S # {} BY <1>2
<1> DEFINE r == Max(S)
<1>4. r \in S /\ \A h \in S : h <= r BY <1>3, LastLine
<1> HIDE DEF r
<1>5. r \in 1 .. p /\ Depth(t, r) <= d BY <1>4
<1>6. p \in 1 .. p OBVIOUS
<1>7. r # p /\ r \in 1 .. p - 1 /\ r + 1 \in 1 .. p
  <2>1. Depth(t, p) \in Int BY <1>1, <1>6
  <2>2. r # p BY <1>5, <2>1
  <2>3. QED BY <1>5, <2>2
<1>8. \A q \in r + 1 .. p : Depth(t, q) > d
  <2> SUFFICES ASSUME NEW q \in r + 1 .. p PROVE Depth(t, q) > d
    OBVIOUS
  <2>1. q \in 1 .. p /\ ~(q <= r) BY <1>7
  <2>2. q \notin S BY <1>4, <2>1
  <2>3. ~(Depth(t, q) <= d) BY <2>1, <2>2
  <2>4. QED BY <1>1, <2>1, <2>3
<1>9. Depth(t, r + 1) = Depth(t, r) + Change(t[r]) /\ Depth(t, r) \in Int
  BY <1>1, <1>5, DepthNext
<1>10. Depth(t, r + 1) > d BY <1>7, <1>8
<1>11. Opens(t[r]) /\ Depth(t, r) = d
  <2>1. CASE Opens(t[r])
    <3>1. Change(t[r]) = 1 BY <2>1 DEF Change
    <3>2. QED BY <1>5, <1>9, <1>10, <2>1, <3>1
  <2>2. CASE ~Opens(t[r])
    <3>1. Change(t[r]) = 0 \/ Change(t[r]) = -1 BY <2>2 DEF Change
    <3>2. QED BY <1>5, <1>9, <1>10, <3>1
  <2>3. QED BY <2>1, <2>2
<1>12. r \in Around(t, p) BY <1>7, <1>8, <1>11 DEF Around
<1>13. QED BY <1>11, <1>12

\* A file that is shielded is guarded, as the cache is to say.
LEMMA ShieldedGuarded ==
    ASSUME NEW f \in closed, text[f] \in Seq(Lines), NEW m, Shielded(text[f], Len(text[f]), m)
    PROVE  GuardedBy(f, m)
<1> DEFINE t == text[f]
<1>1. DOMAIN t = 1 .. Len(t) /\ Len(t) \in Nat OBVIOUS
<1>2. Shielded(t, Len(t), m) OBVIOUS
<1> HIDE DEF t
<1>3. ASSUME NEW p \in DOMAIN t, Around(t, p) = {}, t[p].k # "endif", t[p].k # "null"
      PROVE  t[p] = Line("ifndef", m)
  <2>1. p \in 1 .. Len(t) /\ p \in Nat \ {0} BY <1>1
  <2>2. ~(Depth(t, p) > 0) BY <1>3, <2>1, GroupAt
  <2>3. Depth(t, p) \in Int BY <2>1, DepthNext
  <2>4. QED BY <1>2, <1>3, <2>1, <2>2, <2>3 DEF Shielded
<1>4. ASSUME NEW p \in DOMAIN t, NEW s \in DOMAIN t, t[p].k \in {"elif", "else"}, Around(t, p) = {s}
      PROVE  FALSE
  <2>1. p \in 1 .. Len(t) /\ p \in Nat \ {0} BY <1>1
  <2>2. t[p].k # "null" /\ t[p] # Line("ifndef", m) BY <1>4 DEF Line
  <2>3. Depth(t, p) >= 2 BY <1>2, <1>4, <2>1, <2>2 DEF Shielded
  <2>4. Depth(t, p) \in Int BY <2>1, DepthNext
  <2>5. PICK r \in Around(t, p) : Depth(t, r) = 0 BY <2>1, <2>3, <2>4, GroupAt
  <2>6. PICK q \in Around(t, p) : Depth(t, q) = 1 BY <2>1, <2>3, <2>4, GroupAt
  <2>7. r = s /\ q = s BY <1>4, <2>5, <2>6
  <2>8. QED BY <2>5, <2>6, <2>7
<1>5. \A p \in {p \in DOMAIN t : Around(t, p) = {} /\ t[p].k # "endif" /\ t[p].k # "null"
                                 /\ ~(t[p].k = "include" /\ t[p].x \in Blank)} :
        t[p] = Line("ifndef", m)
  BY <1>3
<1>6. \A p, s \in DOMAIN t : t[p].k \in {"elif", "else"} => Around(t, p) # {s} BY <1>4
<1>7. QED BY <1>5, <1>6 DEF GuardedBy, t

\* Whether lines are shielded depends on the lines up to there.
LEMMA ShieldedSame ==
    ASSUME NEW t, NEW u, NEW n \in Nat, Same(t, u, n), NEW m, Shielded(t, n, m)
    PROVE  Shielded(u, n, m)
<1>1. Same(t, u, (n + 1) - 1) /\ n + 1 \in Nat
  <2>1. (n + 1) - 1 = n OBVIOUS
  <2>2. QED BY <2>1
<1>2. \A q \in 1 .. n + 1 : Depth(u, q) = Depth(t, q) BY <1>1, StructureSame
<1>3. \A q \in 1 .. n : Depth(u, q) = Depth(t, q) /\ u[q] = t[q]
  <2>1. \A q \in 1 .. n : q \in 1 .. n + 1 OBVIOUS
  <2>2. QED BY <1>2, <2>1 DEF Same
<1>4. QED BY <1>3 DEF Shielded

\* The line at hand is shielded too.
LEMMA ShieldedNext ==
    ASSUME NEW t, NEW n \in Nat, NEW m, Shielded(t, n - 1, m), n > 0,
           \/ t[n].k = "null" \/ t[n] = Line("ifndef", m)
           \/ Depth(t, n) >= 1 /\ (t[n].k \in {"elif", "else"} => Depth(t, n) >= 2)
    PROVE  Shielded(t, n, m)
<1>1. \A p \in 1 .. n : p = n \/ p \in 1 .. n - 1 OBVIOUS
<1>2. QED BY <1>1 DEF Shielded

\* A macro that guards the file still does after a line in its group.
LEMMA GuardingNext ==
    ASSUME NEW t, NEW fl, NEW gl, Reader(fl), Later(fl, gl), NEW top \in Nat, NEW k \in Nat,
           Sits(t, fl, top, k), Guarding(t, fl, top), NEW top2 \in Nat,
           gl.guard = None \/ /\ gl.guard = fl.guard /\ top2 > fl.base
                              /\ t[fl.pos].k \in {"elif", "else"} => top + k > fl.base + 1
    PROVE  Guarding(t, gl, top2)
<1> SUFFICES ASSUME gl.guard # None PROVE top2 > gl.base /\ Shielded(t, gl.pos - 1, gl.guard)
  BY DEF Guarding
<1>1. /\ gl.guard = fl.guard /\ top2 > fl.base
      /\ t[fl.pos].k \in {"elif", "else"} => top + k > fl.base + 1
  OBVIOUS
<1>2. top > fl.base /\ Shielded(t, fl.pos - 1, fl.guard) BY <1>1 DEF Guarding
<1>3. fl.pos \in Nat /\ fl.pos > 0 /\ fl.base \in Nat /\ gl.pos = fl.pos + 1 /\ gl.base = fl.base
  BY DEF Reader, Later
<1>4. Depth(t, fl.pos) = top - fl.base + k BY DEF Sits
<1>5. Depth(t, fl.pos) >= 1 BY <1>2, <1>3, <1>4
<1>6. t[fl.pos].k \in {"elif", "else"} => Depth(t, fl.pos) >= 2 BY <1>1, <1>3, <1>4
<1>7. Shielded(t, fl.pos, fl.guard) BY <1>2, <1>3, <1>5, <1>6, ShieldedNext
<1>8. gl.pos - 1 = fl.pos BY <1>3
<1>9. QED BY <1>1, <1>3, <1>7, <1>8

\* The line at hand is one that the dialect has, and changes no file that is known
\* to its end.
LEMMA AtText ==
    ASSUME IInv, NEW l, At(l), Written(text, dialect)
    PROVE  /\ closed' = closed /\ \A f \in closed : text'[f] = text[f]
           /\ Written(text', dialect)
<1> DEFINE f == file.f
           n == Len(text[f])
<1>1. f \in Texts /\ n \in Nat BY FileParts
<1>2. text \in [Texts -> Seq(Lines)] /\ closed \subseteq Texts BY DEF IInv, Types
<1>3. CASE file.pos <= n BY <1>3 DEF At
<1>4. CASE ~(file.pos <= n)
  <2>1. /\ l \in dialect.lines[f] /\ closed' = closed /\ f \notin closed
        /\ text' = [text EXCEPT ![f] = Append(text[f], l)]
    BY <1>4 DEF At
  <2>2. l \in Lines /\ text[f] \in Seq(Lines)
    <3>1. LineRead(l) BY AtIs
    <3>2. QED BY <1>1, <1>2, <3>1 DEF LineRead
  <2>3. /\ Len(Append(text[f], l)) = n + 1 /\ Append(text[f], l)[n + 1] = l
        /\ \A q \in 1 .. n : Append(text[f], l)[q] = text[f][q]
    BY <2>2
  <2>4. \A i \in 1 .. n : text[f][i] \in dialect.lines[f] BY <1>1 DEF Written
  <2> HIDE DEF f, n
  <2>5. text'[f] = Append(text[f], l) /\ \A g \in Texts : g # f => text'[g] = text[g]
    BY <1>1, <1>2, <2>1
  <2>6. \A g \in closed : text'[g] = text[g] BY <1>2, <2>1, <2>5
  <2>7. ASSUME NEW g \in Texts, NEW i \in 1 .. Len(text'[g]) PROVE text'[g][i] \in dialect.lines[g]
    <3>1. CASE g = f
      <4>1. i \in 1 .. n \/ i = n + 1 BY <1>1, <2>3, <2>5, <2>7, <3>1
      <4>2. QED BY <2>1, <2>3, <2>4, <2>5, <3>1, <4>1
    <3>2. CASE g # f BY <2>5, <2>7, <3>2 DEF Written
    <3>3. QED BY <3>1, <3>2
  <2>8. QED BY <2>1, <2>6, <2>7 DEF Written
<1>5. QED BY <1>3, <1>4

\* What more is known of the files does not change what is known of #pragma once.
LEMMA OncesMeanKept ==
    ASSUME NEW T \in [Texts -> Seq(Lines)], NEW U \in [Texts -> Seq(Lines)], Grows(T, U),
           NEW f \in Texts, \E i \in 1 .. Len(T[f]) : T[f][i].k = "once"
    PROVE  \E i \in 1 .. Len(U[f]) : U[f][i].k = "once"
<1>1. PICK i \in 1 .. Len(T[f]) : T[f][i].k = "once" OBVIOUS
<1>2. Len(U[f]) >= Len(T[f]) /\ Same(T[f], U[f], Len(T[f])) BY DEF Grows
<1>3. T[f] \in Seq(Lines) /\ U[f] \in Seq(Lines) OBVIOUS
<1>4. Len(T[f]) \in Nat /\ Len(U[f]) \in Nat BY <1>3
<1>5. i \in 1 .. Len(U[f]) BY <1>2, <1>4
<1>6. QED BY <1>1, <1>2, <1>5 DEF Same

\* The other fields of a BufferedFile after a line
LEMMA PastFields ==
    ASSUME file \in FileType, NEW l
    PROVE  /\ Past(l).name = file.name /\ Past(l).guard = file.guard /\ Past(l).saved = file.saved
           /\ Past(l).f = file.f
           /\ Ran(l).name = file.name /\ Ran(l).guard = file.guard /\ Ran(l).saved = file.saved
           /\ Ran(l).f = file.f
BY DEF Past, Ran, FileType

\* What is known of the files that are open when a line becomes known
LEMMA ShelteredGrown ==
    ASSUME NEW T \in [Texts -> Seq(Lines)], NEW U \in [Texts -> Seq(Lines)], Grows(T, U),
           NEW fs, NEW st, FilesFit(T, fs, st), NEW d, Sheltered(T, fs, st, d)
    PROVE  /\ Sheltered(U, fs, st, d)
           /\ \A i \in 1 .. Len(fs) : Same(T[fs[i].f], U[fs[i].f], fs[i].pos - 1)
<1>1. \A i \in 1 .. Len(fs) : /\ fs[i].f \in Texts /\ Fits(T, fs[i], st) /\ fs[i].pos \in Nat \ {0}
  BY FilesParts
<1>2. ASSUME NEW i \in 1 .. Len(fs)
      PROVE  Same(T[fs[i].f], U[fs[i].f], fs[i].pos - 1)
  <2> DEFINE t == T[fs[i].f]
             u == U[fs[i].f]
  <2>1. fs[i].f \in Texts /\ fs[i].pos \in Nat /\ fs[i].pos <= Len(t) + 1 BY <1>1 DEF Fits
  <2>2. t \in Seq(Lines) /\ Same(t, u, Len(t)) BY <2>1 DEF Grows
  <2>3. Len(t) \in Nat BY <2>2
  <2> HIDE DEF t, u
  <2>4. \A q \in 1 .. fs[i].pos - 1 : q \in 1 .. Len(t) BY <2>1, <2>3
  <2>5. Same(t, u, fs[i].pos - 1) BY <2>2, <2>4 DEF Same
  <2>6. QED BY <2>5 DEF t, u
<1>3. ASSUME NEW i \in 1 .. Len(fs), fs[i].f \in Files
      PROVE  Guarding(U[fs[i].f], fs[i], TopOf(fs, st, i))
  <2>1. Guarding(T[fs[i].f], fs[i], TopOf(fs, st, i)) BY <1>3 DEF Sheltered
  <2>2. fs[i].pos - 1 \in Nat BY <1>1
  <2>3. QED BY <1>2, <2>1, <2>2, ShieldedSame DEF Guarding
<1>4. ASSUME NEW i \in 1 .. Len(fs), i < Len(fs)
      PROVE  U[fs[i].f][fs[i].pos - 1] = Line("include", fs[i + 1].f)
  <2>1. fs[i].pos > 1 /\ T[fs[i].f][fs[i].pos - 1] = Line("include", fs[i + 1].f)
    BY <1>4 DEF Sheltered
  <2>2. fs[i].pos - 1 \in 1 .. fs[i].pos - 1 BY <1>1, <2>1
  <2>3. QED BY <1>2, <2>1, <2>2 DEF Same
<1>5. QED BY <1>2, <1>3, <1>4 DEF Sheltered

\* And of the flags
LEMMA FlagsMeanSame ==
    ASSUME NEW t, NEW u, NEW fl, fl.pos \in Nat \ {0}, Same(t, u, fl.pos - 1), NEW fg, FlagsMean(t, fl, fg)
    PROVE  FlagsMean(u, fl, fg)
<1>1. fl.pos - 1 \in Nat OBVIOUS
<1>2. fl.f \in Files /\ fg.endif => Shielded(u, fl.pos - 1, fl.saved)
  BY <1>1, ShieldedSame DEF FlagsMean
<1>3. QED BY <1>2 DEF FlagsMean, Same

\* The current file goes on to gl.
LEMMA ShelteredNext ==
    ASSUME NEW T, NEW fs, NEW st, FilesFit(T, fs, st), NEW d, Sheltered(T, fs, st, d),
           NEW gl, Later(fs[Len(fs)], gl), Named(gl, d), NEW st2,
           gl.f \in Files => Guarding(T[gl.f], gl, Len(st2))
    PROVE  Sheltered(T, [fs EXCEPT ![Len(fs)] = gl], st2, d)
<1> DEFINE k == Len(fs)
           fs2 == [fs EXCEPT ![k] = gl]
<1>1. k \in Nat /\ k \in 1 .. k /\ DOMAIN fs = 1 .. k BY FilesParts
<1>2. fs \in Seq(FileType) BY DEF FilesFit
<1>3. fs2[k] = gl /\ \A i \in 1 .. k : i # k => fs2[i] = fs[i] BY <1>1
<1>4. Len(fs2) = k
  <2>1. fs2 = [i \in 1 .. k |-> IF i = k THEN gl ELSE fs[i]] BY <1>1, <1>2
  <2> HIDE DEF fs2, k
  <2>2. QED BY <1>1, <2>1
<1>5. gl.f = fs[k].f /\ gl.base = fs[k].base BY DEF Later
<1> HIDE DEF fs2, k
<1>6. \A i \in 1 .. k : fs2[i].f = fs[i].f /\ fs2[i].base = fs[i].base BY <1>3, <1>5
<1>7. \A i \in 1 .. k : i # k => i + 1 \in 1 .. k BY <1>1
<1>8. \A i \in 1 .. k : i # k => TopOf(fs2, st2, i) = TopOf(fs, st, i)
  BY <1>4, <1>6, <1>7 DEF TopOf, k
<1>9. TopOf(fs2, st2, k) = Len(st2) BY <1>4 DEF TopOf
<1>10. ASSUME NEW i \in 1 .. k
       PROVE  /\ Named(fs2[i], d)
              /\ fs2[i].f \in Files => Guarding(T[fs2[i].f], fs2[i], TopOf(fs2, st2, i))
              /\ i > 1 => fs2[i].f \in Files
              /\ i < k => /\ fs2[i].pos > 1
                          /\ T[fs2[i].f][fs2[i].pos - 1] = Line("include", fs2[i + 1].f)
  <2>1. /\ Named(fs[i], d)
        /\ fs[i].f \in Files => Guarding(T[fs[i].f], fs[i], TopOf(fs, st, i))
        /\ i > 1 => fs[i].f \in Files
        /\ i < k => /\ fs[i].pos > 1
                    /\ T[fs[i].f][fs[i].pos - 1] = Line("include", fs[i + 1].f)
    BY DEF Sheltered, k
  <2>2. CASE i = k BY <1>1, <1>3, <1>6, <1>9, <2>1, <2>2
  <2>3. CASE i # k
    <3>1. fs2[i] = fs[i] /\ fs2[i + 1].f = fs[i + 1].f BY <1>3, <1>6, <1>7, <2>3
    <3>2. QED BY <1>8, <2>1, <2>3, <3>1
  <2>4. QED BY <2>2, <2>3
<1>11. QED BY <1>4, <1>10 DEF Sheltered, fs2, k

\* The invariant after a line: what the step has to show
LEMMA CLine ==
    ASSUME IInv, CInv, pc \in Modes, NEW l, At(l), NEW gl \in FileType, Later(file, gl),
           inc' = [inc EXCEPT ![Len(inc)] = gl], IInv', dialect' = dialect,
           Named(gl, dialect), gl.f \in Files => Guarding(text'[gl.f], gl, Len(ifs')),
           CacheTypes', gl.f \in Files => FlagsMean(text'[gl.f], gl, flags'),
           pc' = "skip" => flags' = NoFlags,
           \A f \in Files : cache'[f].guard = cache[f].guard,
           OncesMean(text', cache', pp_once', onces')
    PROVE  CInv'
<1>1. LineRead(l) BY AtIs
<1>2. /\ closed' = closed /\ \A f \in closed : text'[f] = text[f]
      /\ Written(text', dialect)
  BY AtText DEF CInv
<1>3. /\ text \in [Texts -> Seq(Lines)] /\ text' \in [Texts -> Seq(Lines)] /\ Grows(text, text')
      /\ FilesFit(text, inc, ifs) /\ FilesFit(text', inc, ifs)
  BY <1>1, LineKnown DEF IInv, Types, LineRead
<1>4. Sheltered(text', inc, ifs, dialect) BY <1>3, ShelteredGrown DEF CInv
<1>5. Sheltered(text', inc', ifs', dialect)
  <2>1. Later(inc[Len(inc)], gl) BY DEF file
  <2>2. QED BY <1>3, <1>4, <2>1, ShelteredNext
<1>6. file' = gl
  <2>1. inc \in Seq(FileType) /\ Len(inc) \in 1 .. Len(inc) /\ DOMAIN inc = 1 .. Len(inc)
        /\ Len(inc) \in Nat
    BY <1>3, FilesParts DEF FilesFit
  <2>2. inc'[Len(inc)] = gl BY <2>1
  <2>3. Len(inc') = Len(inc)
    <3> DEFINE k == Len(inc)
    <3>1. inc' = [i \in 1 .. k |-> IF i = k THEN gl ELSE inc[i]] BY <2>1
    <3>2. k \in Nat BY <2>1
    <3> HIDE DEF k
    <3>3. Len(inc') = k BY <3>1, <3>2
    <3>4. QED BY <3>3 DEF k
  <2>4. QED BY <2>2, <2>3 DEF file
<1>7. FlagsMean(text'[gl.f], gl, flags') BY DEF FlagsMean
<1>8. GuardsMean(text', closed', cache') BY <1>2 DEF CInv, GuardsMean
<1>9. QED BY <1>2, <1>5, <1>6, <1>7, <1>8 DEF CInv

\* The entries for #pragma once where none is added
LEMMA OncesKept ==
    ASSUME IInv, CInv, text' \in [Texts -> Seq(Lines)], Grows(text, text')
    PROVE  OncesMean(text', cache, pp_once, onces)
<1>1. text \in [Texts -> Seq(Lines)] BY DEF IInv, Types
<1>2. OncesMean(text, cache, pp_once, onces) BY DEF CInv
<1>3. ASSUME NEW f \in Files, cache[f].once # 0
      PROVE  \E i \in 1 .. Len(text'[f]) : text'[f][i].k = "once"
  <2>1. f \in Texts /\ \E i \in 1 .. Len(text[f]) : text[f][i].k = "once"
    BY <1>2, <1>3 DEF OncesMean, Texts
  <2>2. QED BY <1>1, <2>1, OncesMeanKept
<1>4. QED BY <1>2, <1>3 DEF OncesMean

\* The current file
LEMMA FileSheltered ==
    ASSUME IInv, CInv, pc \in Modes, NEW l, LineRead(l)
    PROVE  /\ Named(file, dialect) /\ file \in FileType /\ Reader(file)
           /\ file.pos \in Nat \ {0} /\ file.base \in Nat /\ Len(ifs) \in Nat /\ a \in Nat
           /\ text'[file.f][file.pos] = l
           /\ Sits(text'[file.f], file, Len(ifs), a)
           /\ file.f \in Files => Guarding(text'[file.f], file, Len(ifs))
           /\ FlagsMean(text'[file.f], file, flags)
<1>1. /\ file \in FileType /\ Reader(file) /\ file = inc[Len(inc)]
      /\ file.pos \in Nat \ {0} /\ file.base \in Nat /\ Len(ifs) \in Nat /\ Len(inc) \in Nat
  BY FileParts
<1>2. /\ text \in [Texts -> Seq(Lines)] /\ text' \in [Texts -> Seq(Lines)] /\ Grows(text, text')
      /\ FilesFit(text, inc, ifs) /\ a \in Nat
  BY DEF IInv, Types, LineRead
<1>3. Len(inc) \in 1 .. Len(inc) BY <1>2, FilesParts
<1>4. /\ Sheltered(text', inc, ifs, dialect)
      /\ Same(text[file.f], text'[file.f], file.pos - 1)
  BY <1>1, <1>2, <1>3, ShelteredGrown DEF CInv
<1>5. Named(file, dialect) /\ (file.f \in Files => Guarding(text'[file.f], file, Len(ifs)))
  BY <1>1, <1>3, <1>4 DEF Sheltered, TopOf
<1>6. FlagsMean(text'[file.f], file, flags) BY <1>1, <1>4, FlagsMeanSame DEF CInv
<1>7. Sits(text'[file.f], file, Len(ifs), a)
  <2>1. Tracks(text'[file.f], file, ifs, a, pc) BY LineKnown
  <2>2. QED BY <2>1 DEF Tracks
<1>8. QED BY <1>1, <1>2, <1>5, <1>6, <1>7 DEF LineRead

\* A line that is no part of a conditional, and leaves the flags or clears them
LEMMA CPlain ==
    ASSUME IInv, CInv, pc \in Modes, NEW l, At(l), l.k \notin {"elif", "else"},
           NEW gl \in FileType, Later(file, gl), gl.guard = file.guard, gl.saved = file.saved,
           inc' = [inc EXCEPT ![Len(inc)] = gl], IInv', dialect' = dialect, Named(gl, dialect),
           ifs' = ifs, pc' = "skip" => flags' = NoFlags,
           flags' = NoFlags \/ (flags' = flags /\ l.k = "null"),
           cache' \in [Texts -> [guard : Macros \cup {None}, once : Nat]], pp_once' = pp_once,
           \A f \in Files : cache'[f].guard = cache[f].guard,
           OncesMean(text', cache', pp_once', onces')
    PROVE  CInv'
<1>1. LineRead(l) BY AtIs
<1> DEFINE t == text'[file.f]
<1>2. /\ Named(file, dialect) /\ file \in FileType /\ Reader(file)
      /\ file.pos \in Nat \ {0} /\ file.base \in Nat /\ Len(ifs) \in Nat /\ a \in Nat
      /\ t[file.pos] = l /\ Sits(t, file, Len(ifs), a)
      /\ file.f \in Files => Guarding(t, file, Len(ifs))
      /\ FlagsMean(t, file, flags)
  BY <1>1, FileSheltered
<1> HIDE DEF t
<1>3. gl.f = file.f /\ gl.pos = file.pos + 1 /\ gl.pos - 1 = file.pos BY <1>2 DEF Later
<1>4. gl.f \in Files => Guarding(t, gl, Len(ifs))
  <2> SUFFICES ASSUME gl.f \in Files PROVE Guarding(t, gl, Len(ifs))
    OBVIOUS
  <2>1. Guarding(t, file, Len(ifs)) BY <1>2, <1>3
  <2>2. gl.guard = None \/ Len(ifs) > file.base BY <2>1 DEF Guarding
  <2>3. QED BY <1>2, <2>1, <2>2, GuardingNext
<1>5. CacheTypes'
  <2>1. flags \in [bof : BOOLEAN, endif : BOOLEAN] /\ pp_once \in Nat \ {0} BY DEF CInv, CacheTypes
  <2>2. NoFlags \in [bof : BOOLEAN, endif : BOOLEAN] BY DEF NoFlags
  <2>3. flags' \in [bof : BOOLEAN, endif : BOOLEAN] BY <2>1, <2>2
  <2>4. pp_once' \in Nat \ {0} BY <2>1
  <2>5. QED BY <2>3, <2>4 DEF CacheTypes
<1>6. gl.f \in Files => FlagsMean(t, gl, flags')
  <2>1. CASE flags' = NoFlags BY <2>1 DEF FlagsMean, NoFlags
  <2>2. CASE flags' = flags /\ l.k = "null"
    <3>1. \A p \in 1 .. file.pos : p = file.pos \/ p \in 1 .. file.pos - 1 BY <1>2
    <3>2. ASSUME NEW m, Shielded(t, file.pos - 1, m) PROVE Shielded(t, file.pos, m)
      BY <1>2, <2>2, <3>2, ShieldedNext
    <3>3. QED BY <1>2, <1>3, <2>2, <3>1, <3>2 DEF FlagsMean
  <2>3. QED BY <2>1, <2>2
<1>7. QED BY <1>3, <1>4, <1>5, <1>6, CLine DEF t

\* Such a line that is processed, without effect on the cache
LEMMA RanKeepsC ==
    ASSUME IInv, CInv, IInv', pc = "read", NEW l, At(l), l.k \notin {"elif", "else"},
           inc' = [inc EXCEPT ![Len(inc)] = Ran(l)],
           UNCHANGED <<ifs, pc, dialect, cache, pp_once, onces>>,
           flags' = NoFlags \/ (flags' = flags /\ l.k = "null")
    PROVE  CInv'
<1>1. LineRead(l) /\ pc \in Modes BY AtIs DEF Modes
<1>2. file \in FileType /\ Reader(file) /\ Named(file, dialect) BY <1>1, FileSheltered
<1>3. Ran(l) \in FileType /\ Later(file, Ran(l)) BY <1>2, RanIs
<1>4. /\ Ran(l).guard = file.guard /\ Ran(l).saved = file.saved
      /\ Named(Ran(l), dialect)
  BY <1>2, PastFields DEF Named
<1>5. OncesMean(text', cache', pp_once', onces') BY <1>1, OncesKept DEF LineRead
<1>6. cache' \in [Texts -> [guard : Macros \cup {None}, once : Nat]] BY DEF CInv, CacheTypes
<1>7. QED BY <1>1, <1>3, <1>4, <1>5, <1>6, CPlain

\* A token
LEMMA CodeKeepsC == ASSUME IInv, CInv, IInv', Code PROVE CInv'
<1> DEFINE l == Plain("code")
<1>1. /\ pc = "read" /\ At(l) /\ inc' = [inc EXCEPT ![Len(inc)] = Ran(l)]
      /\ UNCHANGED <<ifs, pc, dialect, cache, pp_once, onces>> /\ flags' = NoFlags
  BY DEF Code, Current
<1>2. l.k = "code" BY DEF Plain
<1> HIDE DEF l
<1>3. QED BY <1>1, <1>2, RanKeepsC

\* #
LEMMA NullDirectiveKeepsC == ASSUME IInv, CInv, IInv', NullDirective PROVE CInv'
<1> DEFINE l == Plain("null")
<1>1. /\ pc = "read" /\ At(l) /\ inc' = [inc EXCEPT ![Len(inc)] = Ran(l)]
      /\ UNCHANGED <<ifs, pc, dialect, flags, cache, pp_once, onces>>
  BY DEF NullDirective, Current
<1>2. l.k = "null" BY DEF Plain
<1> HIDE DEF l
<1>3. QED BY <1>1, <1>2, RanKeepsC

\* #define and #undef
LEMMA DefineKeepsC == ASSUME IInv, CInv, IInv', Define PROVE CInv'
<1>1. PICK m \in Macros, k \in {"define", "undef"} :
        /\ pc = "read" /\ At(Line(k, m)) /\ inc' = [inc EXCEPT ![Len(inc)] = Ran(Line(k, m))]
        /\ UNCHANGED <<ifs, pc, dialect, cache, pp_once, onces>> /\ flags' = NoFlags
  BY DEF Define, Current
<1> DEFINE l == Line(k, m)
<1>2. l.k \notin {"elif", "else"} BY DEF Line
<1>3. pc = "read" /\ At(l) /\ inc' = [inc EXCEPT ![Len(inc)] = Ran(l)] BY <1>1
<1> HIDE DEF l
<1>4. QED BY <1>1, <1>2, <1>3, RanKeepsC

\* #pragma once
LEMMA OnceKeepsC == ASSUME IInv, CInv, IInv', Once PROVE CInv'
<1> DEFINE l == Plain("once")
<1>1. /\ pc = "read" /\ At(l) /\ inc' = [inc EXCEPT ![Len(inc)] = Ran(l)]
      /\ UNCHANGED <<ifs, pc, dialect, pp_once>> /\ flags' = NoFlags
      /\ cache' = [cache EXCEPT ![file.name].once = pp_once]
      /\ onces' = onces \cup {file.f}
  BY DEF Once, Current
<1>2. l.k = "once" BY DEF Plain
<1>3. LineRead(l) /\ pc \in Modes BY <1>1, AtIs DEF Modes
<1>4. /\ file \in FileType /\ Reader(file) /\ Named(file, dialect) /\ file.pos \in Nat \ {0}
      /\ text'[file.f][file.pos] = l /\ file.f \in Texts
  BY <1>3, FileSheltered, FileParts
<1>5. file.name = file.f
  <2>1. file.pos \in 1 .. Len(text'[file.f])
    <3>1. text'[file.f] \in Seq(Lines) /\ file.pos <= Len(text'[file.f]) BY <1>3, <1>4 DEF LineRead
    <3>2. Len(text'[file.f]) \in Nat BY <3>1
    <3>3. QED BY <1>4, <3>1, <3>2
  <2>2. l \in dialect.lines[file.f]
    <3>1. Written(text', dialect) BY <1>1, AtText DEF CInv
    <3>2. QED BY <1>4, <2>1, <3>1 DEF Written
  <2>3. QED BY <1>4, <2>2 DEF Named
<1> DEFINE n == file.f
<1>6. /\ cache \in [Texts -> [guard : Macros \cup {None}, once : Nat]] /\ pp_once \in Nat \ {0}
      /\ n \in Texts /\ cache' = [cache EXCEPT ![n].once = pp_once]
  BY <1>1, <1>4, <1>5 DEF CInv, CacheTypes
<1>7. /\ cache' \in [Texts -> [guard : Macros \cup {None}, once : Nat]]
      /\ \A f \in Texts : cache'[f].guard = cache[f].guard
      /\ cache'[n].once = pp_once
      /\ \A f \in Texts : f # n => cache'[f].once = cache[f].once
  BY <1>6
<1>8. OncesMean(text', cache', pp_once', onces')
  <2>1. OncesMean(text', cache, pp_once, onces) BY <1>3, OncesKept DEF LineRead
  <2>2. \E i \in 1 .. Len(text'[n]) : text'[n][i].k = "once"
    <3>1. text'[n] \in Seq(Lines) /\ file.pos <= Len(text'[n]) BY <1>3, <1>6 DEF LineRead
    <3>2. Len(text'[n]) \in Nat BY <3>1
    <3>3. file.pos \in 1 .. Len(text'[n]) BY <1>4, <3>1, <3>2
    <3>4. QED BY <1>2, <1>4, <3>3
  <2>3. ASSUME NEW f \in Files
        PROVE  /\ cache'[f].once <= pp_once /\ (cache'[f].once = pp_once <=> f \in onces')
               /\ cache'[f].once # 0 => \E i \in 1 .. Len(text'[f]) : text'[f][i].k = "once"
    <3>1. CASE f = n
      <4>1. cache'[f].once = pp_once /\ f \in onces' BY <1>1, <1>7, <3>1
      <4>2. pp_once <= pp_once BY <1>6
      <4>3. QED BY <2>2, <3>1, <4>1, <4>2
    <3>2. CASE f # n
      <4>1. cache'[f].once = cache[f].once /\ (f \in onces' <=> f \in onces)
        BY <1>1, <1>7, <3>2 DEF Texts
      <4>2. QED BY <2>1, <4>1 DEF OncesMean
    <3>3. QED BY <3>1, <3>2
  <2>4. QED BY <1>1, <2>3 DEF OncesMean
<1>9. Ran(l) \in FileType /\ Later(file, Ran(l)) BY <1>4, RanIs
<1>10. /\ Ran(l).guard = file.guard /\ Ran(l).saved = file.saved /\ Named(Ran(l), dialect)
  BY <1>4, PastFields DEF Named
<1>11. \A f \in Files : cache'[f].guard = cache[f].guard BY <1>7 DEF Texts
<1> HIDE DEF l, n
<1>12. QED BY <1>1, <1>2, <1>3, <1>7, <1>8, <1>9, <1>10, <1>11, CPlain

\* #line
LEMMA LineDirectiveKeepsC == ASSUME PlainFiles, IInv, CInv, IInv', LineDirective PROVE CInv'
<1>1. PICK g \in Files :
        /\ pc = "read" /\ At(Line("line", g))
        /\ inc' = [inc EXCEPT ![Len(inc)] = [Ran(Line("line", g)) EXCEPT !.name = g]]
        /\ UNCHANGED <<ifs, pc, dialect, cache, pp_once, onces>> /\ flags' = NoFlags
  BY DEF LineDirective, Current
<1> DEFINE l == Line("line", g)
           r == Ran(l)
           gl == [r EXCEPT !.name = g]
<1>2. l.k = "line" BY DEF Line
<1>3. LineRead(l) /\ pc \in Modes BY <1>1, AtIs DEF Modes
<1>4. /\ file \in FileType /\ Reader(file) /\ file.pos \in Nat \ {0}
      /\ text'[file.f][file.pos] = l /\ file.f \in Texts
  BY <1>3, FileSheltered, FileParts
<1>5. r \in FileType /\ Later(file, r) /\ r.guard = file.guard /\ r.saved = file.saved /\ r.f = file.f
  BY <1>4, RanIs, PastFields
<1> HIDE DEF r
<1>6. gl \in FileType /\ Likewise(r, gl)
  <2>1. g \in Texts BY DEF Texts
  <2>2. QED BY <1>5, <2>1, NameField
<1>7. gl.guard = file.guard /\ gl.saved = file.saved /\ gl.name = g /\ gl.f = file.f
  BY <1>5 DEF FileType
<1>8. Later(file, gl) BY <1>5, <1>6, LaterLikewise
<1>9. l \in dialect.lines[file.f]
  <2>1. text'[file.f] \in Seq(Lines) /\ file.pos <= Len(text'[file.f]) BY <1>3, <1>4 DEF LineRead
  <2>2. Len(text'[file.f]) \in Nat BY <2>1
  <2>3. file.pos \in 1 .. Len(text'[file.f]) BY <1>4, <2>1, <2>2
  <2>4. Written(text', dialect) BY <1>1, AtText DEF CInv
  <2>5. QED BY <1>4, <2>3, <2>4 DEF Written
<1>10. Named(gl, dialect)
  <2>1. dialect \in Dialects BY DEF IInv, Types
  <2>2. file.f = g \/ (file.f = Main /\ Plain("once") \notin dialect.lines[file.f])
    BY <1>4, <1>9, <2>1 DEF PlainFiles, PlainDialect
  <2>3. QED BY <1>7, <2>2 DEF Named
<1>11. OncesMean(text', cache', pp_once', onces') BY <1>1, <1>3, OncesKept DEF LineRead
<1>12. cache' \in [Texts -> [guard : Macros \cup {None}, once : Nat]] BY <1>1 DEF CInv, CacheTypes
<1>13. pc = "read" /\ At(l) /\ inc' = [inc EXCEPT ![Len(inc)] = gl] BY <1>1 DEF r
<1> HIDE DEF l, gl
<1>14. QED BY <1>1, <1>2, <1>3, <1>6, <1>7, <1>8, <1>10, <1>11, <1>12, <1>13, CPlain

\* A step that leaves the files at their lines: an error, or the end of the unit
LEMMA HaltKeepsC ==
    ASSUME IInv, CInv, text' \in [Texts -> Seq(Lines)], Grows(text, text'), closed \subseteq closed',
           \A f \in closed : text'[f] = text[f], Written(text', dialect),
           UNCHANGED <<dialect, inc, ifs, flags, cache, pp_once, onces>>, pc' # "skip"
    PROVE  CInv'
<1>1. /\ text \in [Texts -> Seq(Lines)] /\ FilesFit(text, inc, ifs)
      /\ Len(inc) \in 1 .. Len(inc) /\ file = inc[Len(inc)] /\ file.pos \in Nat \ {0}
  <2>1. FilesFit(text, inc, ifs) BY DEF IInv
  <2>2. QED BY <2>1, FilesParts, FileParts DEF IInv, Types
<1>2. /\ Sheltered(text', inc, ifs, dialect)
      /\ Same(text[file.f], text'[file.f], file.pos - 1)
  BY <1>1, ShelteredGrown DEF CInv
<1>3. FlagsMean(text'[file.f], file, flags) BY <1>1, <1>2, FlagsMeanSame DEF CInv
<1>4. file' = file BY DEF file
<1>5. OncesMean(text', cache, pp_once, onces) BY OncesKept
<1>6. GuardsMean(text', closed', cache) BY DEF CInv, GuardsMean
<1>7. CacheTypes' BY DEF CInv, CacheTypes
<1>8. QED BY <1>2, <1>3, <1>4, <1>5, <1>6, <1>7 DEF CInv

\* An error at a line
LEMMA ErrorKeepsC == ASSUME IInv, CInv, NEW l, At(l), Error PROVE CInv'
<1>1. LineRead(l) BY AtIs
<1>2. closed' = closed /\ \A f \in closed : text'[f] = text[f] BY AtText DEF CInv
<1>3. UNCHANGED <<dialect, inc, ifs, flags, cache, pp_once, onces>> /\ pc' # "skip" BY DEF Error
<1>4. Written(text', dialect) BY AtText DEF CInv
<1>5. QED BY <1>1, <1>2, <1>3, <1>4, HaltKeepsC DEF LineRead

\* A file is opened.
LEMMA ShelteredOpened ==
    ASSUME NEW T, NEW fs, NEW st, FilesFit(T, fs, st), Stack(st), NEW d,
           Sheltered(T, fs, st, d), NEW op \in FileType, op.base = Len(st), op.guard = None,
           op.name = op.f, op.f \in Files, fs[Len(fs)].pos > 1,
           T[fs[Len(fs)].f][fs[Len(fs)].pos - 1] = Line("include", op.f)
    PROVE  Sheltered(T, Append(fs, op), st, d)
<1> DEFINE k == Len(fs)
           fs2 == Append(fs, op)
<1>1. k \in Nat /\ k \in 1 .. k BY FilesParts
<1>2. fs \in Seq(FileType) BY DEF FilesFit
<1>3. Len(fs2) = k + 1 /\ fs2[k + 1] = op /\ \A i \in 1 .. k : fs2[i] = fs[i] BY <1>1, <1>2
<1>4. fs[k].pos > 1 /\ T[fs[k].f][fs[k].pos - 1] = Line("include", op.f) OBVIOUS
<1>5. \A i \in 1 .. k : /\ Named(fs[i], d)
                        /\ fs[i].f \in Files => Guarding(T[fs[i].f], fs[i], TopOf(fs, st, i))
                        /\ i > 1 => fs[i].f \in Files
                        /\ i < k => /\ fs[i].pos > 1
                                    /\ T[fs[i].f][fs[i].pos - 1] = Line("include", fs[i + 1].f)
  BY DEF Sheltered
<1>6. ASSUME NEW i \in 1 .. k PROVE TopOf(fs2, st, i) = TopOf(fs, st, i)
  <2>1. CASE i = k
    <3>1. TopOf(fs, st, i) = Len(st) BY <2>1 DEF TopOf
    <3>2. TopOf(fs2, st, i) = fs2[k + 1].base BY <1>1, <1>3, <2>1 DEF TopOf
    <3>3. QED BY <1>3, <3>1, <3>2
  <2>2. CASE i # k
    <3>1. i + 1 \in 1 .. k /\ i # k + 1 BY <1>1, <2>2
    <3>2. QED BY <1>3, <2>2, <3>1 DEF TopOf
  <2>3. QED BY <2>1, <2>2
<1> HIDE DEF fs2, k
<1>7. ASSUME NEW i \in 1 .. k + 1
      PROVE  /\ Named(fs2[i], d)
             /\ fs2[i].f \in Files => Guarding(T[fs2[i].f], fs2[i], TopOf(fs2, st, i))
             /\ i > 1 => fs2[i].f \in Files
             /\ i < k + 1 => /\ fs2[i].pos > 1
                             /\ T[fs2[i].f][fs2[i].pos - 1] = Line("include", fs2[i + 1].f)
  <2>1. CASE i = k + 1
    <3>1. fs2[i] = op /\ ~(i < k + 1) BY <1>1, <1>3, <2>1
    <3>2. QED BY <3>1 DEF Named, Guarding
  <2>2. CASE i = k
    <3>1. fs2[i] = fs[k] /\ fs2[i + 1] = op BY <1>1, <1>3, <2>2
    <3>2. QED BY <1>1, <1>4, <1>5, <1>6, <2>2, <3>1
  <2>3. CASE i # k + 1 /\ i # k
    <3>1. i \in 1 .. k /\ i + 1 \in 1 .. k /\ i < k BY <1>1, <2>3
    <3>2. fs2[i] = fs[i] /\ fs2[i + 1] = fs[i + 1] BY <1>3, <3>1
    <3>3. QED BY <1>5, <1>6, <3>1, <3>2
  <2>4. QED BY <2>1, <2>2, <2>3
<1>8. QED BY <1>3, <1>7 DEF Sheltered, fs2

\* #include
LEMMA IncludeKeepsC == ASSUME IInv, CInv, IInv', Include PROVE CInv'
<1>1. PICK f \in Files :
        /\ pc = "read" /\ At(Line("include", f))
        /\ IF Len(inc) > IncludeDepth
           THEN Error
           ELSE /\ IF Cached(f)
                   THEN Current(Ran(Line("include", f))) /\ flags' = NoFlags
                   ELSE /\ inc' = Append([inc EXCEPT ![Len(inc)] = Resumed(f)], Opened(f))
                        /\ flags' = AtBof
                /\ UNCHANGED <<dialect, pc, a, ifs, defs, cache, pp_once, onces>>
  BY DEF Include
<1> DEFINE l == Line("include", f)
<1>2. At(l) /\ LineRead(l) /\ pc \in Modes BY <1>1, AtIs DEF Modes
<1>3. CASE Len(inc) > IncludeDepth BY <1>1, <1>3, ErrorKeepsC
<1>4. CASE ~(Len(inc) > IncludeDepth) /\ Cached(f)
  <2>1. /\ inc' = [inc EXCEPT ![Len(inc)] = Ran(l)] /\ flags' = NoFlags
        /\ UNCHANGED <<ifs, pc, dialect, cache, pp_once, onces>>
    BY <1>1, <1>4 DEF Current
  <2>2. l.k \notin {"elif", "else"} BY DEF Line
  <2> HIDE DEF l
  <2>3. QED BY <1>1, <1>2, <2>1, <2>2, RanKeepsC
<1>5. CASE ~(Len(inc) > IncludeDepth) /\ ~Cached(f)
  <2> DEFINE gl == Ran(l)
             op == Opened(f)
             inc2 == [inc EXCEPT ![Len(inc)] = gl]
  <2>1. /\ inc' = Append(inc2, op) /\ flags' = AtBof
        /\ UNCHANGED <<ifs, pc, dialect, a, cache, pp_once, onces>>
    BY <1>1, <1>5 DEF Resumed
  <2>2. l.k \notin SectionKinds BY DEF Line, SectionKinds
  <2>3. /\ Named(file, dialect) /\ file \in FileType /\ Reader(file)
        /\ file.pos \in Nat \ {0} /\ file.base \in Nat /\ Len(ifs) \in Nat /\ a \in Nat
        /\ text'[file.f][file.pos] = l
        /\ Sits(text'[file.f], file, Len(ifs), a)
        /\ file.f \in Files => Guarding(text'[file.f], file, Len(ifs))
    BY <1>2, FileSheltered
  <2>4. /\ gl \in FileType /\ Later(file, gl) /\ file.pos \in gl.run
        /\ gl.guard = file.guard /\ gl.name = file.name /\ gl.f = file.f /\ gl.pos = file.pos + 1
    BY <2>3, RanIs, PastFields DEF Later
  <2>5. Named(gl, dialect) BY <2>3, <2>4 DEF Named
  <2>6. op \in FileType /\ op.base = Len(ifs) /\ op.guard = None /\ op.name = op.f /\ op.f = f
        /\ op.pos = 1
    <3>1. f \in Texts BY DEF Texts
    <3>2. QED BY <2>3, <3>1 DEF Opened, FileType
  <2>7. l = Line("include", op.f) BY <2>6
  <2>8. op.f \in Files BY <2>6
  <2> HIDE DEF l, gl, op
  <2>9. gl.f \in Files => Guarding(text'[gl.f], gl, Len(ifs))
    <3> SUFFICES ASSUME gl.f \in Files PROVE Guarding(text'[file.f], gl, Len(ifs))
      BY <2>4
    <3> DEFINE t == text'[file.f]
    <3>1. Guarding(t, file, Len(ifs)) /\ Sits(t, file, Len(ifs), a) BY <2>3, <2>4
    <3>2. t[file.pos].k \notin {"elif", "else"} BY <2>2, <2>3 DEF SectionKinds
    <3> HIDE DEF t
    <3>3. gl.guard = None \/ Len(ifs) > file.base BY <2>4, <3>1 DEF Guarding
    <3>4. Guarding(t, gl, Len(ifs)) BY <2>3, <2>4, <3>1, <3>2, <3>3, GuardingNext
    <3>5. QED BY <3>4 DEF t
  <2>10. /\ FilesFit(text', inc2, ifs) /\ Len(inc2) = Len(inc) /\ Len(inc) \in Nat
    BY <1>1, <1>2, <2>2, <2>4, PlainKeeps
  <2>11. /\ text \in [Texts -> Seq(Lines)] /\ text' \in [Texts -> Seq(Lines)] /\ Grows(text, text')
         /\ FilesFit(text, inc, ifs) /\ FilesFit(text', inc, ifs) /\ Stack(ifs)
    BY <1>2, LineKnown DEF IInv, Types, LineRead
  <2>12. Sheltered(text', inc, ifs, dialect) BY <2>11, ShelteredGrown DEF CInv
  <2>13. Sheltered(text', inc2, ifs, dialect)
    <3>1. Later(inc[Len(inc)], gl) BY <2>4 DEF file
    <3>2. QED BY <2>5, <2>9, <2>11, <2>12, <3>1, ShelteredNext
  <2>14. inc2[Len(inc2)] = gl
    <3>1. Len(inc) \in DOMAIN inc BY <2>11, FilesParts
    <3>2. QED BY <2>10, <3>1
  <2> HIDE DEF inc2
  <2>15. Sheltered(text', Append(inc2, op), ifs, dialect)
    <3>1. gl.pos > 1 /\ gl.pos - 1 = file.pos BY <2>3, <2>4
    <3>2. text'[gl.f][gl.pos - 1] = Line("include", op.f) BY <2>3, <2>4, <2>7, <3>1
    <3>3. QED BY <2>6, <2>8, <2>10, <2>11, <2>13, <2>14, <3>1, <3>2, ShelteredOpened
  <2>16. file' = op
    <3>1. inc2 \in Seq(FileType) BY <2>10 DEF FilesFit
    <3>2. Len(Append(inc2, op)) = Len(inc2) + 1 /\ Append(inc2, op)[Len(inc2) + 1] = op
      BY <2>6, <3>1
    <3>3. inc'[Len(inc')] = op BY <2>1, <3>2
    <3>4. QED BY <3>3 DEF file
  <2>17. FlagsMean(text'[op.f], op, flags')
    <3>1. 1 .. op.pos - 1 = {} BY <2>6
    <3>2. QED BY <2>1, <3>1 DEF FlagsMean, AtBof
  <2>18. CacheTypes'
    <3>1. AtBof \in [bof : BOOLEAN, endif : BOOLEAN] BY DEF AtBof
    <3>2. QED BY <2>1, <3>1 DEF CInv, CacheTypes
  <2>19. /\ closed' = closed /\ Written(text', dialect) /\ \A g \in closed : text'[g] = text[g]
    BY <1>2, AtText DEF CInv
  <2>20. GuardsMean(text', closed', cache') BY <2>1, <2>19 DEF CInv, GuardsMean
  <2>21. OncesMean(text', cache', pp_once', onces') BY <2>1, <2>11, OncesKept
  <2>22. pc' # "skip" BY <1>1, <2>1
  <2>23. Sheltered(text', inc', ifs', dialect') /\ Written(text', dialect') BY <2>1, <2>15, <2>19
  <2>24. QED BY <2>16, <2>17, <2>18, <2>20, <2>21, <2>22, <2>23 DEF CInv
<1>6. QED BY <1>3, <1>4, <1>5

\* A line of a conditional, after which no flag is set
LEMMA CSection ==
    ASSUME IInv, CInv, IInv', pc \in Modes, NEW l, At(l), NEW gl \in FileType, Later(file, gl),
           inc' = [inc EXCEPT ![Len(inc)] = gl], dialect' = dialect, gl.name = file.name,
           gl.f \in Files => Guarding(text'[gl.f], gl, Len(ifs')),
           flags' = NoFlags, UNCHANGED <<cache, pp_once, onces>>
    PROVE  CInv'
<1>1. LineRead(l) BY AtIs
<1>2. Named(gl, dialect)
  <2>1. Named(file, dialect) /\ gl.f = file.f BY <1>1, FileSheltered DEF Later
  <2>2. QED BY <2>1 DEF Named
<1>3. CacheTypes'
  <2>1. NoFlags \in [bof : BOOLEAN, endif : BOOLEAN] BY DEF NoFlags
  <2>2. QED BY <2>1 DEF CInv, CacheTypes
<1>4. FlagsMean(text'[gl.f], gl, flags') BY DEF FlagsMean, NoFlags
<1>5. OncesMean(text', cache', pp_once', onces') BY <1>1, OncesKept DEF LineRead
<1>6. QED BY <1>2, <1>3, <1>4, <1>5, CLine

\* #if, #ifdef, #ifndef
LEMMA IfKeepsC == ASSUME IInv, CInv, IInv', If PROVE CInv'
<1>1. PICK l \in Lines :
        /\ l.k \in {"if", "ifdef", "ifndef"} /\ pc = "read" /\ At(l)
        /\ IF Len(ifs) = IfDepth
           THEN Error
           ELSE /\ Current(IF l.k = "ifndef" /\ flags.bof
                           THEN [Past(l) EXCEPT !.guard = l.x] ELSE Past(l))
                /\ ifs' = Append(ifs, IF Holds(l) THEN 1 ELSE 0)
                /\ Section(Holds(l))
                /\ flags' = NoFlags
                /\ UNCHANGED <<dialect, defs, cache, pp_once, onces>>
  BY DEF If
<1>2. CASE Len(ifs) = IfDepth BY <1>1, <1>2, ErrorKeepsC
<1>3. CASE Len(ifs) # IfDepth
  <2> DEFINE g == Past(l)
             guards == l.k = "ifndef" /\ flags.bof
             gl == IF guards THEN [g EXCEPT !.guard = l.x] ELSE g
             t == text'[file.f]
  <2>1. LineRead(l) /\ pc \in Modes BY <1>1, AtIs DEF Modes
  <2>2. /\ file \in FileType /\ Reader(file) /\ file.pos \in Nat \ {0} /\ file.base \in Nat
        /\ Len(ifs) \in Nat /\ a \in Nat /\ t[file.pos] = l /\ Sits(t, file, Len(ifs), a)
        /\ file.f \in Files => Guarding(t, file, Len(ifs))
        /\ FlagsMean(t, file, flags)
    BY <2>1, FileSheltered
  <2>3. /\ inc' = [inc EXCEPT ![Len(inc)] = gl] /\ ifs' = Append(ifs, IF Holds(l) THEN 1 ELSE 0)
        /\ UNCHANGED <<dialect, cache, pp_once, onces>> /\ flags' = NoFlags
    BY <1>1, <1>3 DEF Current
  <2>4. /\ g \in FileType /\ Later(file, g) /\ g.name = file.name /\ g.guard = file.guard
        /\ g.f = file.f
    BY <2>2, PastIs, PastFields
  <2> HIDE DEF g, t
  <2>5. Len(ifs') = Len(ifs) + 1 /\ Len(ifs') \in Nat
    <3>1. Stack(ifs) BY DEF IInv, Types
    <3>2. ifs \in Seq(0 .. 3) BY <3>1 DEF Stack
    <3>3. QED BY <2>2, <2>3, <3>2
  <2>6. Len(ifs') > file.base
    <3>1. file.base <= Len(ifs) BY FileParts
    <3>2. QED BY <2>2, <2>5, <3>1
  <2>7. CASE guards
    <3>1. l.x \in Macros \cup {None} /\ l = Line("ifndef", l.x)
      <4>1. l.x \in Macros BY <2>7, LineKinds
      <4>2. l = Line("ifndef", l.x) BY <1>1, <2>7 DEF Lines, Plain, Line
      <4>3. QED BY <4>1, <4>2
    <3>2. gl = [g EXCEPT !.guard = l.x] BY <2>7
    <3>3. gl \in FileType /\ Likewise(g, gl) BY <2>4, <3>1, <3>2, GuardField
    <3>4. gl.guard = l.x /\ gl.name = file.name /\ gl.f = file.f BY <2>4, <3>2 DEF FileType
    <3>5. Later(file, gl) BY <2>4, <3>3, LaterLikewise
    <3>6. flags.bof BY <2>7
    <3> HIDE DEF gl
    <3>7. gl.f \in Files => Guarding(text'[gl.f], gl, Len(ifs'))
      <4> SUFFICES ASSUME gl.f \in Files PROVE Guarding(t, gl, Len(ifs'))
        BY <3>4 DEF t
      <4>1. \A p \in 1 .. file.pos - 1 : t[p].k = "null" BY <2>2, <3>4, <3>6 DEF FlagsMean
      <4>2. Shielded(t, file.pos - 1, l.x) BY <4>1 DEF Shielded
      <4>3. Shielded(t, file.pos, l.x)
        <5>1. t[file.pos] = Line("ifndef", l.x) BY <2>2, <3>1
        <5>2. QED BY <2>2, <4>2, <5>1, ShieldedNext
      <4>4. gl.pos - 1 = file.pos /\ gl.base = file.base BY <2>2, <3>5 DEF Later
      <4>5. QED BY <2>6, <3>4, <4>3, <4>4 DEF Guarding
    <3>8. QED BY <1>1, <2>1, <2>3, <3>3, <3>4, <3>5, <3>7, CSection
  <2>8. CASE ~guards
    <3>1. gl = g BY <2>8
    <3>2. t[file.pos].k \notin {"elif", "else"} BY <1>1, <2>2
    <3>3. g.f \in Files => Guarding(text'[g.f], g, Len(ifs'))
      <4> SUFFICES ASSUME g.f \in Files PROVE Guarding(t, g, Len(ifs'))
        BY <2>4 DEF t
      <4>1. QED BY <2>2, <2>4, <2>5, <2>6, <3>2, GuardingNext
    <3>4. inc' = [inc EXCEPT ![Len(inc)] = g] BY <2>3, <3>1
    <3>5. QED BY <1>1, <2>1, <2>3, <2>4, <3>3, <3>4, CSection
  <2>9. QED BY <2>7, <2>8
<1>4. QED BY <1>2, <1>3

\* The guard after #else or #elif
LEMMA TestElseGuard ==
    ASSUME IInv, CInv, Directive, NEW l, At(l), l.k \in {"elif", "else"}, Len(ifs') = Len(ifs)
    PROVE  LET gl == TestElse(l)
           IN  /\ gl \in FileType /\ Later(file, gl) /\ gl.name = file.name
               /\ gl.f \in Files => Guarding(text'[gl.f], gl, Len(ifs'))
<1> DEFINE g == Past(l)
           gl == TestElse(l)
           t == text'[file.f]
<1>1. LineRead(l) /\ pc \in Modes /\ a = 0 BY AtIs, DirectiveIs
<1>2. /\ file \in FileType /\ Reader(file) /\ file.pos \in Nat \ {0} /\ file.base \in Nat
      /\ Len(ifs) \in Nat /\ t[file.pos] = l /\ Sits(t, file, Len(ifs), 0)
      /\ file.f \in Files => Guarding(t, file, Len(ifs))
  BY <1>1, FileSheltered
<1>3. g \in FileType /\ g.name = file.name /\ g.guard = file.guard BY <1>2, PastIs, PastFields
<1>4. gl = IF Len(ifs) = file.base + 1 THEN [g EXCEPT !.guard = None] ELSE g BY DEF TestElse
<1>5. gl \in FileType /\ Later(file, gl) BY TestElseIs
<1> HIDE DEF g, gl, t
<1>6. /\ gl.name = file.name /\ gl.f = file.f
      /\ Len(ifs) = file.base + 1 => gl.guard = None
      /\ Len(ifs) # file.base + 1 => gl.guard = file.guard
  <2>1. gl.f = file.f BY <1>5 DEF Later
  <2>2. CASE Len(ifs) = file.base + 1
    <3>1. gl = [g EXCEPT !.guard = None] BY <1>4, <2>2
    <3>2. gl.name = file.name /\ gl.guard = None BY <1>3, <3>1 DEF FileType
    <3>3. QED BY <2>1, <2>2, <3>2
  <2>3. CASE Len(ifs) # file.base + 1 BY <1>3, <1>4, <2>1, <2>3
  <2>4. QED BY <2>2, <2>3
<1>7. gl.f \in Files => Guarding(t, gl, Len(ifs'))
  <2> SUFFICES ASSUME gl.f \in Files PROVE Guarding(t, gl, Len(ifs))
    OBVIOUS
  <2>1. Guarding(t, file, Len(ifs)) BY <1>2, <1>6
  <2>2. CASE gl.guard = None BY <2>2 DEF Guarding
  <2>3. CASE gl.guard # None
    <3>1. gl.guard = file.guard /\ Len(ifs) # file.base + 1 BY <1>6, <2>3
    <3>2. Len(ifs) > file.base BY <2>1, <2>3, <3>1 DEF Guarding
    <3>3. Len(ifs) + 0 > file.base + 1 BY <1>2, <3>1, <3>2
    <3>4. QED BY <1>2, <1>5, <2>1, <3>1, <3>2, <3>3, GuardingNext
  <2>4. QED BY <2>2, <2>3
<1>8. QED BY <1>5, <1>6, <1>7 DEF gl, t

\* #else
LEMMA ElseKeepsC == ASSUME IInv, CInv, IInv', Else PROVE CInv'
<1> DEFINE l == Plain("else")
           gl == TestElse(l)
<1>1. Directive /\ At(l) BY DEF Else
<1>2. l.k = "else" BY DEF Plain
<1>3. CASE ifs = <<>> \/ ifs[Len(ifs)] > 1
  <2>1. Error BY <1>3 DEF Else
  <2>2. QED BY <1>1, <2>1, ErrorKeepsC
<1>4. CASE ~(ifs = <<>> \/ ifs[Len(ifs)] > 1)
  <2>1. /\ inc' = [inc EXCEPT ![Len(inc)] = gl]
        /\ ifs' = [ifs EXCEPT ![Len(ifs)] = Flipped(ifs[Len(ifs)])]
        /\ UNCHANGED <<dialect, cache, pp_once, onces>> /\ flags' = NoFlags
    BY <1>4 DEF Else, Current
  <2>2. Len(ifs') = Len(ifs)
    <3>1. Stack(ifs) BY DEF IInv, Types
    <3>2. QED BY <2>1, <3>1 DEF Stack
  <2> HIDE DEF l
  <2>3. /\ gl \in FileType /\ Later(file, gl) /\ gl.name = file.name
        /\ gl.f \in Files => Guarding(text'[gl.f], gl, Len(ifs'))
    BY <1>1, <1>2, <2>2, TestElseGuard
  <2>4. pc \in Modes BY <1>1, DirectiveIs
  <2> HIDE DEF gl
  <2>5. QED BY <1>1, <2>1, <2>3, <2>4, CSection
<1>5. QED BY <1>3, <1>4

\* #elif
LEMMA ElifKeepsC == ASSUME IInv, CInv, IInv', Elif PROVE CInv'
<1>1. PICK c \in Macros \cup BOOLEAN :
        /\ Directive
        /\ At(Line("elif", c))
        /\ IF ifs = <<>> \/ ifs[Len(ifs)] > 1
           THEN Error
           ELSE LET l == Line("elif", c) IN
                /\ Current(TestElse(l))
                /\ ifs' = IF ElifTaken(l) THEN [ifs EXCEPT ![Len(ifs)] = 1] ELSE ifs
                /\ Section(ElifTaken(l))
                /\ flags' = NoFlags
                /\ UNCHANGED <<dialect, defs, cache, pp_once, onces>>
  BY DEF Elif
<1> DEFINE l == Line("elif", c)
           gl == TestElse(l)
<1>2. Directive /\ At(l) BY <1>1
<1>3. l.k = "elif" BY DEF Line
<1>4. CASE ifs = <<>> \/ ifs[Len(ifs)] > 1
  <2>1. Error BY <1>1, <1>4
  <2>2. QED BY <1>2, <2>1, ErrorKeepsC
<1>5. CASE ~(ifs = <<>> \/ ifs[Len(ifs)] > 1)
  <2>1. /\ inc' = [inc EXCEPT ![Len(inc)] = gl]
        /\ ifs' = IF ElifTaken(l) THEN [ifs EXCEPT ![Len(ifs)] = 1] ELSE ifs
        /\ UNCHANGED <<dialect, cache, pp_once, onces>> /\ flags' = NoFlags
    BY <1>1, <1>5 DEF Current
  <2>2. Len(ifs') = Len(ifs)
    <3>1. Stack(ifs) BY DEF IInv, Types
    <3>2. Len([ifs EXCEPT ![Len(ifs)] = 1]) = Len(ifs) BY <3>1 DEF Stack
    <3>3. QED BY <2>1, <3>2
  <2> HIDE DEF l
  <2>3. /\ gl \in FileType /\ Later(file, gl) /\ gl.name = file.name
        /\ gl.f \in Files => Guarding(text'[gl.f], gl, Len(ifs'))
    BY <1>2, <1>3, <2>2, TestElseGuard
  <2>4. pc \in Modes BY <1>2, DirectiveIs
  <2> HIDE DEF gl
  <2>5. QED BY <1>2, <2>1, <2>3, <2>4, CSection
<1>6. QED BY <1>4, <1>5

\* #endif
LEMMA EndifKeepsC == ASSUME IInv, CInv, IInv', Endif PROVE CInv'
<1> DEFINE l == Plain("endif")
           g == Past(l)
           guards == file.guard # None /\ Len(ifs) - 1 = file.base
           gl == IF guards THEN [g EXCEPT !.saved = file.guard, !.guard = None] ELSE g
           t == text'[file.f]
<1>1. Directive /\ At(l) /\ l.k = "endif" BY DEF Endif, Plain
<1>2. CASE Unmatched
  <2>1. Error BY <1>2 DEF Endif
  <2>2. QED BY <1>1, <2>1, ErrorKeepsC
<1>3. CASE ~Unmatched
  <2>1. /\ inc' = [inc EXCEPT ![Len(inc)] = gl] /\ ifs' = SubSeq(ifs, 1, Len(ifs) - 1)
        /\ pc' = "read" /\ flags' = [NoFlags EXCEPT !.endif = guards]
        /\ UNCHANGED <<dialect, cache, pp_once, onces>>
    BY <1>3, Zenon DEF Endif, Current
  <2>2. LineRead(l) /\ pc \in Modes /\ a = 0 BY <1>1, AtIs, DirectiveIs
  <2>3. /\ Named(file, dialect) /\ file \in FileType /\ Reader(file)
        /\ file.pos \in Nat \ {0} /\ file.base \in Nat /\ Len(ifs) \in Nat
        /\ t[file.pos] = l /\ Sits(t, file, Len(ifs), 0)
        /\ file.f \in Files => Guarding(t, file, Len(ifs))
    BY <2>2, FileSheltered
  <2>4. /\ g \in FileType /\ Later(file, g) /\ g.name = file.name /\ g.guard = file.guard
        /\ g.f = file.f
    BY <2>3, PastIs, PastFields
  <2>5. file.base < Len(ifs) BY <1>3, <2>3 DEF Unmatched
  <2>6. Len(ifs') = Len(ifs) - 1 /\ Len(ifs') \in Nat
    <3>1. ifs \in Seq(0 .. 3) BY DEF IInv, Types, Stack
    <3> DEFINE k == Len(ifs) - 1
    <3>2. ifs' = SubSeq(ifs, 1, k) BY <2>1
    <3>3. k \in Nat /\ k <= Len(ifs) BY <2>3, <2>5
    <3> HIDE DEF k, gl, guards
    <3>4. Len(SubSeq(ifs, 1, k)) = k BY <3>1, <3>3
    <3>5. QED BY <3>2, <3>3, <3>4 DEF k
  <2>7. t[file.pos].k \notin {"elif", "else"} BY <1>1, <2>3
  <2>8. OncesMean(text', cache', pp_once', onces') BY <2>1, <2>2, OncesKept DEF LineRead
  <2> HIDE DEF l, g, t
  <2>9. CacheTypes'
    <3>1. guards \in BOOLEAN OBVIOUS
    <3> HIDE DEF guards
    <3>2. flags' \in [bof : BOOLEAN, endif : BOOLEAN] BY <2>1, <3>1 DEF NoFlags
    <3>3. QED BY <2>1, <3>2 DEF CInv, CacheTypes
  <2>10. CASE guards
    <3>1. gl = [g EXCEPT !.saved = file.guard, !.guard = None] BY <2>10
    <3>2. file.guard \in Macros \cup {None} /\ None \in Macros \cup {None} BY <2>3 DEF FileType
    <3>3. gl \in FileType /\ Likewise(g, gl) BY <2>4, <3>1, <3>2, SavedField
    <3>4. gl.guard = None /\ gl.saved = file.guard /\ gl.name = file.name /\ gl.f = file.f
      BY <2>4, <3>1 DEF FileType
    <3>5. Later(file, gl) BY <2>4, <3>3, LaterLikewise
    <3>6. file.guard # None BY <2>10
    <3> HIDE DEF gl, guards
    <3>7. Named(gl, dialect) BY <2>3, <3>4 DEF Named
    <3>8. gl.f \in Files => Guarding(text'[gl.f], gl, Len(ifs')) BY <3>4 DEF Guarding
    <3>9. gl.f \in Files => FlagsMean(text'[gl.f], gl, flags')
      <4> SUFFICES ASSUME gl.f \in Files PROVE FlagsMean(t, gl, flags')
        BY <3>4 DEF t
      <4>1. Guarding(t, file, Len(ifs)) BY <2>3, <3>4
      <4>2. Shielded(t, file.pos - 1, file.guard) BY <3>6, <4>1 DEF Guarding
      <4>3. Depth(t, file.pos) = Len(ifs) - file.base + 0 BY <2>3 DEF Sits
      <4>4. Depth(t, file.pos) >= 1 BY <2>3, <2>5, <4>3
      <4>5. Shielded(t, file.pos, file.guard) BY <2>3, <2>7, <4>2, <4>4, ShieldedNext
      <4>6. gl.pos - 1 = file.pos BY <2>3, <3>5 DEF Later
      <4>7. ~flags'.bof BY <2>1 DEF NoFlags
      <4>8. QED BY <3>4, <3>6, <4>5, <4>6, <4>7 DEF FlagsMean
    <3>10. pc' # "skip" BY <2>1
    <3>11. QED BY <1>1, <2>1, <2>2, <2>8, <2>9, <3>3, <3>5, <3>7, <3>8, <3>9, <3>10, CLine
  <2>11. CASE ~guards
    <3>1. gl = g BY <2>11
    <3>2. inc' = [inc EXCEPT ![Len(inc)] = g] BY <2>1, <3>1
    <3>3. flags' = NoFlags BY <2>1, <2>11 DEF NoFlags
    <3>4. g.f \in Files => Guarding(text'[g.f], g, Len(ifs'))
      <4> SUFFICES ASSUME g.f \in Files PROVE Guarding(t, g, Len(ifs'))
        BY <2>4 DEF t
      <4>1. Guarding(t, file, Len(ifs)) BY <2>3, <2>4
      <4>2. g.guard = None \/ Len(ifs') > file.base
        <5>1. file.guard # None => Len(ifs) - 1 # file.base BY <2>11
        <5> HIDE DEF guards
        <5>2. Len(ifs) - 1 # file.base => Len(ifs') > file.base BY <2>3, <2>5, <2>6
        <5>3. QED BY <2>4, <5>1, <5>2
      <4> HIDE DEF guards, gl
      <4>3. QED BY <2>3, <2>4, <2>6, <2>7, <4>1, <4>2, GuardingNext
    <3> HIDE DEF guards, gl
    <3>5. QED BY <1>1, <2>1, <2>2, <2>4, <3>2, <3>3, <3>4, CSection
  <2>12. QED BY <2>10, <2>11
<1>4. QED BY <1>2, <1>3

\* A line that preprocess_skip() passes over
LEMMA SkipKeepsC == ASSUME IInv, CInv, IInv', Skip PROVE CInv'
<1>1. PICK l \in Lines :
        /\ pc = "skip"
        /\ a = 0 => l.k \notin {"else", "elif", "endif"}
        /\ At(l)
        /\ Current(Past(l))
        /\ a' = CASE l.k \in {"if", "ifdef", "ifndef"} -> a + 1
                  [] l.k = "endif" -> a - 1
                  [] OTHER -> a
        /\ UNCHANGED <<dialect, pc, ifs, defs, flags, cache, pp_once, onces>>
  BY DEF Skip
<1> DEFINE g == Past(l)
           t == text'[file.f]
<1>2. LineRead(l) /\ pc \in Modes BY <1>1, AtIs DEF Modes
<1>3. /\ file \in FileType /\ Reader(file) /\ file.pos \in Nat \ {0} /\ file.base \in Nat
      /\ Len(ifs) \in Nat /\ a \in Nat /\ t[file.pos] = l /\ Sits(t, file, Len(ifs), a)
      /\ file.f \in Files => Guarding(t, file, Len(ifs))
  BY <1>2, FileSheltered
<1>4. /\ g \in FileType /\ Later(file, g) /\ g.name = file.name /\ g.guard = file.guard
      /\ g.f = file.f
  BY <1>3, PastIs, PastFields
<1>5. inc' = [inc EXCEPT ![Len(inc)] = g] BY <1>1 DEF Current
<1> HIDE DEF g, t
<1>6. g.f \in Files => Guarding(text'[g.f], g, Len(ifs'))
  <2> SUFFICES ASSUME g.f \in Files PROVE Guarding(t, g, Len(ifs))
    BY <1>1, <1>4 DEF t
  <2>1. Guarding(t, file, Len(ifs)) BY <1>3, <1>4
  <2>2. CASE g.guard = None BY <2>2 DEF Guarding
  <2>3. CASE g.guard # None
    <3>1. Len(ifs) > file.base BY <1>4, <2>1, <2>3 DEF Guarding
    <3>2. t[file.pos].k \in {"elif", "else"} => Len(ifs) + a > file.base + 1
      <4>1. t[file.pos].k \in {"elif", "else"} => a # 0 BY <1>1, <1>3
      <4>2. QED BY <1>3, <3>1, <4>1
    <3>3. QED BY <1>3, <1>4, <2>1, <3>1, <3>2, GuardingNext
  <2>4. QED BY <2>2, <2>3
<1>7. flags' = NoFlags BY <1>1 DEF CInv
<1>8. QED BY <1>1, <1>2, <1>4, <1>5, <1>6, <1>7, CSection

\* The end of a file
LEMMA AtEndText ==
    ASSUME IInv, CInv, AtEnd
    PROVE  /\ text' = text /\ closed \subseteq closed' /\ file.f \in closed' /\ Written(text', dialect)
           /\ text' \in [Texts -> Seq(Lines)] /\ Grows(text, text')
           /\ file.pos - 1 = Len(text[file.f]) /\ Len(text[file.f]) >= dialect.min[file.f]
<1>1. /\ text' = text /\ text' \in [Texts -> Seq(Lines)] /\ Grows(text, text')
      /\ file.pos = Len(text[file.f]) + 1 /\ Len(text[file.f]) \in Nat
  BY AtEndIs, FileParts
<1>2. closed' = closed \cup {file.f} /\ Len(text[file.f]) >= dialect.min[file.f] BY DEF AtEnd
<1>3. file.pos - 1 = Len(text[file.f]) BY <1>1
<1>4. QED BY <1>1, <1>2, <1>3 DEF CInv

\* The end of a file in a section that is skipped
LEMMA EndInSkipKeepsC == ASSUME IInv, CInv, EndInSkip PROVE CInv'
<1>1. AtEnd /\ Error BY DEF EndInSkip
<1>2. UNCHANGED <<dialect, inc, ifs, flags, cache, pp_once, onces>> /\ pc' # "skip" BY <1>1 DEF Error
<1>3. QED BY <1>1, <1>2, AtEndText, HaltKeepsC

\* A file that an included file includes has a line that is more than a null directive.
LEMMA NotBlank ==
    ASSUME PlainFiles, IInv, CInv, AtEnd, Len(inc) # 1, inc[Len(inc) - 1].f \in Files
    PROVE  ~flags.bof
<1> DEFINE n == Len(inc) - 1
           fl == inc[n]
           f == file.f
<1>1. /\ Len(inc) \in Nat /\ Len(inc) \in 1 .. Len(inc) /\ file = inc[Len(inc)]
      /\ \A i \in 1 .. Len(inc) : /\ inc[i] \in FileType /\ inc[i].f \in Texts /\ Fits(text, inc[i], ifs)
                                  /\ inc[i].base \in Nat /\ inc[i].pos \in Nat \ {0}
  <2>1. FilesFit(text, inc, ifs) BY DEF IInv
  <2>2. QED BY <2>1, FilesParts, FileParts
<1>2. n \in 1 .. Len(inc) /\ n < Len(inc) /\ n + 1 = Len(inc) /\ Len(inc) > 1
  <2>1. Len(inc) \in Nat /\ Len(inc) >= 1 /\ Len(inc) # 1 BY <1>1
  <2>2. QED BY <2>1
<1>3. fl.pos > 1 /\ text[fl.f][fl.pos - 1] = Line("include", f)
  <2>1. inc[n].pos > 1 /\ text[inc[n].f][inc[n].pos - 1] = Line("include", inc[n + 1].f)
    BY <1>2 DEF CInv, Sheltered
  <2>2. QED BY <1>1, <1>2, <2>1
<1>4. f \in Files
  <2>1. inc[Len(inc)].f \in Files BY <1>1, <1>2 DEF CInv, Sheltered
  <2>2. QED BY <1>1, <2>1
<1>5. fl.f \in Texts /\ fl.pos \in Nat /\ fl.pos <= Len(text[fl.f]) + 1 /\ fl.f \in Files
  BY <1>1, <1>2 DEF Fits
<1>6. text \in [Texts -> Seq(Lines)] /\ dialect \in Dialects BY DEF IInv, Types
<1> HIDE DEF fl, f, n
<1>7. Line("include", f) \in dialect.lines[fl.f]
  <2>1. text[fl.f] \in Seq(Lines) BY <1>5, <1>6
  <2>2. Len(text[fl.f]) \in Nat BY <2>1
  <2>3. fl.pos - 1 \in 1 .. Len(text[fl.f]) BY <1>3, <1>5, <2>2
  <2>4. Written(text, dialect) BY DEF CInv
  <2>5. text[fl.f][fl.pos - 1] \in dialect.lines[fl.f] BY <1>5, <2>3, <2>4 DEF Written
  <2>6. QED BY <1>3, <2>5
<1>8. dialect.min[f] > 0 /\ Plain("null") \notin dialect.lines[f]
  BY <1>4, <1>5, <1>6, <1>7 DEF PlainFiles, PlainDialect
<1>9. SUFFICES ASSUME flags.bof PROVE FALSE
  OBVIOUS
<1>10. f \in Texts BY <1>4 DEF Texts
<1>11. text[f] \in Seq(Lines) BY <1>6, <1>10
<1>12. Len(text[f]) \in Nat BY <1>11
<1>13. file.pos - 1 = Len(text[f]) /\ Len(text[f]) >= dialect.min[f] BY AtEndText DEF f
<1>14. Len(text[f]) > 0
  <2>1. dialect \in Dialect BY <1>6, ConditionalsAssumption
  <2>2. dialect.min[f] \in Nat BY <1>10, <2>1 DEF Dialect
  <2>3. QED BY <1>8, <1>12, <1>13, <2>2
<1>15. 1 \in 1 .. Len(text[f]) BY <1>12, <1>14
<1>16. text[f][1].k = "null"
  <2>1. FlagsMean(text[f], file, flags) /\ file.f = f BY DEF CInv, f
  <2>2. QED BY <1>4, <1>9, <1>13, <1>15, <2>1 DEF FlagsMean
<1>17. text[f][1] \in Lines BY <1>11, <1>15
<1>18. text[f][1] = Plain("null") BY <1>16, <1>17 DEF Lines, Plain, Line
<1>19. text[f][1] \in dialect.lines[f]
  <2>1. Written(text, dialect) BY DEF CInv
  <2>2. QED BY <1>10, <1>15, <2>1 DEF Written
<1>20. QED BY <1>8, <1>18, <1>19

\* The end of a file
LEMMA EofKeepsC == ASSUME PlainFiles, IInv, CInv, IInv', Eof PROVE CInv'
<1>1. pc = "read" /\ AtEnd BY DEF Eof
<1>2. /\ text' = text /\ closed \subseteq closed' /\ file.f \in closed' /\ Written(text', dialect)
      /\ text' \in [Texts -> Seq(Lines)] /\ Grows(text, text')
      /\ file.pos - 1 = Len(text[file.f])
  BY <1>1, AtEndText
<1>3. CASE OpenGroups
  <2>1. Error BY <1>3 DEF Eof
  <2>2. UNCHANGED <<dialect, inc, ifs, flags, cache, pp_once, onces>> /\ pc' # "skip" BY <2>1 DEF Error
  <2>3. QED BY <1>2, <2>2, HaltKeepsC
<1>4. CASE ~OpenGroups /\ Len(inc) = 1
  <2>1. UNCHANGED <<dialect, inc, ifs, flags, cache, pp_once, onces>> /\ pc' # "skip"
    BY <1>4 DEF Eof
  <2>2. QED BY <1>2, <2>1, HaltKeepsC
<1>5. CASE ~OpenGroups /\ Len(inc) # 1
  <2> DEFINE n == Len(inc) - 1
             inc2 == SubSeq(inc, 1, n)
  <2>1. /\ cache' = IF Guarded THEN [cache EXCEPT ![file.name].guard = file.saved] ELSE cache
        /\ inc' = inc2 /\ flags' = [flags EXCEPT !.endif = FALSE]
        /\ UNCHANGED <<dialect, pc, a, ifs, defs, pp_once, onces>>
    BY <1>5 DEF Eof
  <2>2. /\ inc \in Seq(FileType) /\ Len(inc) \in Nat /\ Len(inc) \in 1 .. Len(inc)
        /\ file = inc[Len(inc)] /\ file \in FileType /\ file.f \in Texts
    <3>1. FilesFit(text, inc, ifs) BY DEF IInv
    <3>2. QED BY <3>1, FilesParts, FileParts DEF FilesFit
  <2>3. n \in Nat /\ n >= 1 /\ n \in 1 .. n /\ n + 1 = Len(inc)
    <3> DEFINE k == Len(inc)
    <3>1. k \in Nat /\ k >= 1 /\ k # 1 BY <1>5, <2>2
    <3> HIDE DEF k
    <3>2. k - 1 \in Nat /\ k - 1 >= 1 /\ (k - 1) + 1 = k BY <3>1
    <3>3. n \in Nat /\ n >= 1 /\ n + 1 = Len(inc) BY <3>2, Zenon DEF k
    <3> HIDE DEF n
    <3>4. n \in 1 .. n BY <3>3
    <3>5. QED BY <3>3, <3>4
  <2>4. Len(inc2) = n /\ \A i \in 1 .. n : inc2[i] = inc[i] BY <2>2, <2>3
  <2>5. file' = inc[n] BY <2>1, <2>3, <2>4 DEF file
  <2>6. \A i \in 1 .. Len(inc) :
          /\ Named(inc[i], dialect)
          /\ inc[i].f \in Files => Guarding(text[inc[i].f], inc[i], TopOf(inc, ifs, i))
          /\ i > 1 => inc[i].f \in Files
          /\ i < Len(inc) => /\ inc[i].pos > 1
                             /\ text[inc[i].f][inc[i].pos - 1] = Line("include", inc[i + 1].f)
    BY DEF CInv, Sheltered
  <2>7. Len(ifs) = inc[n + 1].base BY <1>5, <2>2, <2>3 DEF OpenGroups
  <2>8. flags \in [bof : BOOLEAN, endif : BOOLEAN] /\ pp_once \in Nat \ {0}
        /\ cache \in [Texts -> [guard : Macros \cup {None}, once : Nat]]
    BY DEF CInv, CacheTypes
  <2>9. flags' \in [bof : BOOLEAN, endif : BOOLEAN] /\ ~flags'.endif /\ (flags'.bof <=> flags.bof)
    BY <2>1, <2>8
  <2>10. file.f \in Files /\ file.name = file.f
    <3>1. Named(file, dialect) /\ file.f \in Files BY <2>2, <2>3, <2>6
    <3>2. QED BY <3>1, ConditionalsAssumption DEF Named
  <2> HIDE DEF inc2, n
  <2>11. Sheltered(text, inc2, ifs, dialect)
    <3>1. ASSUME NEW i \in 1 .. n
          PROVE  /\ Named(inc2[i], dialect)
                 /\ inc2[i].f \in Files => Guarding(text[inc2[i].f], inc2[i], TopOf(inc2, ifs, i))
                 /\ i > 1 => inc2[i].f \in Files
                 /\ i < n => /\ inc2[i].pos > 1
                             /\ text[inc2[i].f][inc2[i].pos - 1] = Line("include", inc2[i + 1].f)
      <4>1. i \in 1 .. Len(inc) /\ inc2[i] = inc[i] /\ i < Len(inc) BY <2>3, <2>4
      <4>2. TopOf(inc2, ifs, i) = TopOf(inc, ifs, i)
        <5>1. CASE i = n BY <2>3, <2>4, <2>7, <5>1 DEF TopOf
        <5>2. CASE i # n
          <6>1. i + 1 \in 1 .. n BY <2>3, <5>2
          <6>2. QED BY <2>4, <4>1, <5>2, <6>1 DEF TopOf
        <5>3. QED BY <5>1, <5>2
      <4>3. i < n => inc2[i + 1] = inc[i + 1]
        <5>1. i < n => i + 1 \in 1 .. n BY <2>3
        <5>2. QED BY <2>4, <5>1
      <4>4. QED BY <2>6, <4>1, <4>2, <4>3
    <3>2. QED BY <2>4, <3>1 DEF Sheltered
  <2>12. FlagsMean(text[inc[n].f], inc[n], flags')
    <3>1. inc[n].f \in Files => ~flags.bof BY <1>1, <1>5, NotBlank DEF n
    <3>2. QED BY <2>9, <3>1 DEF FlagsMean
  <2>13. file.saved \in Macros \cup {None} BY <2>2 DEF FileType
  <2>14. /\ cache' \in [Texts -> [guard : Macros \cup {None}, once : Nat]]
         /\ \A f \in Texts : cache'[f].once = cache[f].once
         /\ \A f \in Texts : cache'[f].guard = cache[f].guard
                             \/ (flags.endif /\ f = file.f /\ cache'[f].guard = file.saved)
    <3>1. CASE Guarded
      <4>1. cache' = [cache EXCEPT ![file.f].guard = file.saved] BY <2>1, <2>10, <3>1
      <4>2. QED BY <2>2, <2>8, <2>13, <3>1, <4>1 DEF Guarded
    <3>2. CASE ~Guarded BY <2>1, <2>8, <3>2
    <3>3. QED BY <3>1, <3>2
  <2>15. GuardsMean(text, closed', cache')
    <3>1. ASSUME NEW f \in Files, cache'[f].guard # None
          PROVE  f \in closed' /\ Shielded(text[f], Len(text[f]), cache'[f].guard)
      <4>1. f \in Texts BY DEF Texts
      <4>2. CASE cache'[f].guard = cache[f].guard
        BY <1>2, <3>1, <4>2 DEF CInv, GuardsMean
      <4>3. CASE flags.endif /\ f = file.f /\ cache'[f].guard = file.saved
        <5>1. Shielded(text[file.f], file.pos - 1, file.saved) BY <2>10, <4>3 DEF CInv, FlagsMean
        <5>2. QED BY <1>2, <4>3, <5>1
      <4>4. QED BY <2>14, <4>1, <4>2, <4>3
    <3>2. QED BY <3>1 DEF GuardsMean
  <2>16. OncesMean(text, cache', pp_once, onces)
    <3>1. \A f \in Files : f \in Texts BY DEF Texts
    <3>2. QED BY <2>14, <3>1 DEF CInv, OncesMean
  <2>17. CacheTypes' BY <2>1, <2>8, <2>9, <2>14 DEF CacheTypes
  <2>18. pc' # "skip" BY <1>1, <2>1
  <2>19. /\ Sheltered(text', inc', ifs', dialect') /\ Written(text', dialect')
         /\ GuardsMean(text', closed', cache') /\ OncesMean(text', cache', pp_once', onces')
         /\ FlagsMean(text'[(file').f], file', flags')
    BY <1>2, <2>1, <2>5, <2>11, <2>12, <2>15, <2>16
  <2>20. QED BY <2>17, <2>18, <2>19 DEF CInv
<1>6. QED BY <1>3, <1>4, <1>5


\* Nothing changes.
LEMMA SameKeepsC == ASSUME CInv, UNCHANGED vars PROVE CInv'
<1>1. /\ UNCHANGED <<dialect, text, closed, pc>> /\ UNCHANGED <<a, inc, ifs, defs>>
      /\ UNCHANGED <<flags, cache, pp_once, onces>>
  BY DEF vars
<1>2. file' = file BY <1>1 DEF file
<1>3. CacheTypes' BY <1>1 DEF CInv, CacheTypes
<1>4. QED BY <1>1, <1>2, <1>3 DEF CInv

\* The first file of a unit
LEMMA MainOpenedC ==
    ASSUME NEW st, NEW d,
           NEW T \in [Texts -> Seq(Lines)],
           NEW fl, fl.f = Main, fl.name = Main
    PROVE  /\ Sheltered(T, <<fl>>, st, d) /\ FlagsMean(T[Main], fl, AtBof)
           /\ Main \notin Files
<1>1. Main \notin Files BY ConditionalsAssumption
<1>2. Len(<<fl>>) = 1 /\ <<fl>>[1] = fl OBVIOUS
<1>3. \A i \in 1 .. 1 : i = 1 OBVIOUS
<1>4. Sheltered(T, <<fl>>, st, d) BY <1>1, <1>2, <1>3 DEF Sheltered, Named
<1>5. QED BY <1>1, <1>4 DEF FlagsMean

\* The cache is empty at first.
LEMMA StartsC == ASSUME Init, IInv PROVE CInv
<1>1. /\ dialect \in Dialects /\ text = [f \in Texts |-> <<>>] /\ closed = {}
      /\ pc = "read" /\ flags = AtBof
      /\ cache = [f \in Texts |-> [guard |-> None, once |-> 0]]
      /\ pp_once = 1 /\ onces = {}
  BY DEF Init
<1>2. PICK fl : inc = <<fl>> /\ fl.f = Main /\ fl.name = Main BY DEF Init
<1>3. file = fl BY <1>2 DEF file
<1>4. text \in [Texts -> Seq(Lines)] BY DEF IInv, Types
<1>5. Sheltered(text, inc, ifs, dialect) /\ FlagsMean(text[file.f], file, flags)
  BY <1>1, <1>2, <1>3, <1>4, MainOpenedC
<1>6. CacheTypes BY <1>1 DEF CacheTypes, AtBof
<1>7. \A f \in Texts : Len(text[f]) = 0 BY <1>1
<1>8. Written(text, dialect) BY <1>7 DEF Written
<1>9. \A f \in Files : cache[f].guard = None /\ cache[f].once = 0 BY <1>1 DEF Texts
<1>10. GuardsMean(text, closed, cache) BY <1>9 DEF GuardsMean
<1>11. OncesMean(text, cache, pp_once, onces) BY <1>1, <1>9 DEF OncesMean
<1>12. QED BY <1>1, <1>5, <1>6, <1>8, <1>10, <1>11 DEF CInv

\* The next string: what was learnt of the files remains, and no file has asked in
\* this unit to be read once.
LEMMA NewUnitKeepsC == ASSUME IInv, CInv, IInv', NewUnit PROVE CInv'
<1>1. /\ pp_once' = pp_once + 1 /\ text' = [text EXCEPT ![Main] = <<>>] /\ closed' = closed \ {Main}
      /\ pc' = "read" /\ flags' = AtBof /\ onces' = {} /\ UNCHANGED <<dialect, cache>>
  BY DEF NewUnit
<1>2. PICK fl : inc' = <<fl>> /\ fl.f = Main /\ fl.name = Main BY DEF NewUnit
<1>3. file' = fl BY <1>2 DEF file
<1>4. text \in [Texts -> Seq(Lines)] /\ text' \in [Texts -> Seq(Lines)] BY DEF IInv, Types
<1>5. /\ Sheltered(text', inc', ifs', dialect') /\ FlagsMean(text'[(file').f], file', flags')
      /\ Main \notin Files
  BY <1>1, <1>2, <1>3, <1>4, MainOpenedC
<1>6. pp_once \in Nat \ {0} /\ cache \in [Texts -> [guard : Macros \cup {None}, once : Nat]]
  BY DEF CInv, CacheTypes
<1>7. CacheTypes' BY <1>1, <1>6 DEF CacheTypes, AtBof
<1>8. text'[Main] = <<>> /\ \A f \in Texts : f # Main => text'[f] = text[f] BY <1>1, <1>4 DEF Texts
<1>9. \A f \in Files : text'[f] = text[f] /\ f \in Texts BY <1>5, <1>8 DEF Texts
<1>10. Written(text', dialect')
  <2>1. ASSUME NEW f \in Texts, NEW i \in 1 .. Len(text'[f]) PROVE text'[f][i] \in dialect.lines[f]
    <3>1. CASE f = Main BY <1>8, <2>1, <3>1
    <3>2. CASE f # Main BY <1>8, <2>1, <3>2 DEF CInv, Written
    <3>3. QED BY <3>1, <3>2
  <2>2. QED BY <1>1, <2>1 DEF Written
<1>11. GuardsMean(text', closed', cache') BY <1>1, <1>5, <1>9 DEF CInv, GuardsMean
<1>12. OncesMean(text', cache', pp_once', onces')
  <2>1. OncesMean(text, cache, pp_once, onces) BY DEF CInv
  <2>2. \A f \in Files : cache[f].once <= pp_once + 1 /\ cache[f].once # pp_once + 1
    BY <1>6, <1>9, <2>1 DEF OncesMean
  <2>3. QED BY <1>1, <1>9, <2>1, <2>2 DEF OncesMean
<1>13. QED BY <1>1, <1>5, <1>7, <1>10, <1>11, <1>12 DEF CInv

\* No step that changes a variable makes it false.
LEMMA NextKeepsC == ASSUME PlainFiles, IInv, CInv, IInv', Next PROVE CInv'
<1>1. CASE Code BY <1>1, CodeKeepsC
<1>2. CASE NullDirective BY <1>2, NullDirectiveKeepsC
<1>3. CASE Define BY <1>3, DefineKeepsC
<1>4. CASE Include BY <1>4, IncludeKeepsC
<1>5. CASE Once BY <1>5, OnceKeepsC
<1>6. CASE LineDirective BY <1>6, LineDirectiveKeepsC
<1>7. CASE If BY <1>7, IfKeepsC
<1>8. CASE Else BY <1>8, ElseKeepsC
<1>9. CASE Elif BY <1>9, ElifKeepsC
<1>10. CASE Endif BY <1>10, EndifKeepsC
<1>11. CASE Skip BY <1>11, SkipKeepsC
<1>12. CASE EndInSkip BY <1>12, EndInSkipKeepsC
<1>13. CASE Eof BY <1>13, EofKeepsC
<1>14. CASE NewUnit BY <1>14, NewUnitKeepsC
<1>15. CASE Ended BY <1>15, SameKeepsC DEF Ended
<1>16. QED BY <1>1, <1>2, <1>3, <1>4, <1>5, <1>6, <1>7, <1>8, <1>9, <1>10, <1>11, <1>12,
              <1>13, <1>14, <1>15 DEF Next, Reads

\* The invariants of the stacks and of the cache, of files that are plain
THEOREM CacheInductive == ASSUME PlainFiles PROVE Spec => [](IInv /\ CInv)
<1>1. Init /\ IInv => CInv BY StartsC
<1>2. IInv /\ CInv /\ IInv' /\ [Next]_vars => CInv' BY NextKeepsC, SameKeepsC
<1>3. QED BY <1>1, <1>2, Inductive, PTL DEF Spec

\* When the cache says that a file may be skipped, it is one group for which the macro
\* must be undefined and nothing else, or has asked to be read once: whatever files
\* include each other, in whichever order their groups and ends are met.
THEOREM CacheSoundness == ASSUME PlainFiles PROVE Spec => []CacheSound
<1>1. ASSUME IInv, CInv PROVE CacheSound
  <2>1. /\ GuardsMean(text, closed, cache) /\ OncesMean(text, cache, pp_once, onces)
        /\ text \in [Texts -> Seq(Lines)]
    BY <1>1 DEF CInv, IInv, Types
  <2>2. ASSUME NEW f \in Files PROVE text[f] \in Seq(Lines) /\ DOMAIN text[f] = 1 .. Len(text[f])
    <3>1. text[f] \in Seq(Lines) BY <2>1 DEF Texts
    <3>2. QED BY <3>1
  <2>3. ASSUME NEW f \in Files, cache[f].guard # None PROVE GuardedBy(f, cache[f].guard)
    <3>1. f \in closed /\ Shielded(text[f], Len(text[f]), cache[f].guard) BY <2>1, <2>3 DEF GuardsMean
    <3>2. QED BY <2>2, <3>1, ShieldedGuarded
  <2>4. ASSUME NEW f \in Files, cache[f].once # 0 PROVE \E i \in DOMAIN text[f] : text[f][i].k = "once"
    BY <2>1, <2>2, <2>4 DEF OncesMean
  <2>5. QED BY <2>3, <2>4 DEF CacheSound
<1>2. QED BY <1>1, CacheInductive, PTL

\* What an #include that succeeds does with f
LEMMA IncludeDoes ==
    ASSUME IInv, CInv, NEW f \in Files, Include, pc' = "read", text'[file.f][file.pos] = Line("include", f)
    PROVE  IF Len(inc') > Len(inc) THEN f \notin onces
           ELSE f \in onces \/ \E m \in defs : GuardedBy(f, m)
<1>1. PICK g \in Files :
        /\ pc = "read" /\ At(Line("include", g))
        /\ ~(Len(inc) > IncludeDepth)
        /\ IF Cached(g)
           THEN inc' = [inc EXCEPT ![Len(inc)] = Ran(Line("include", g))]
           ELSE inc' = Append([inc EXCEPT ![Len(inc)] = Resumed(g)], Opened(g))
  BY DEF Include, Error, Current
<1>2. g = f
  <2>1. text'[file.f][file.pos] = Line("include", g) BY <1>1, AtIs DEF LineRead
  <2>2. Line("include", g).x = g /\ Line("include", f).x = f BY DEF Line
  <2>3. QED BY <2>1, <2>2
<1>3. inc \in Seq(FileType) /\ Len(inc) \in Nat /\ DOMAIN inc = 1 .. Len(inc)
  <2>1. FilesFit(text, inc, ifs) BY DEF IInv
  <2>2. QED BY <2>1, FilesParts DEF FilesFit
<1>4. \A gl : Len([inc EXCEPT ![Len(inc)] = gl]) = Len(inc)
  <2> DEFINE k == Len(inc)
  <2>1. k \in Nat BY <1>3
  <2>2. \A gl : [inc EXCEPT ![k] = gl] = [i \in 1 .. k |-> IF i = k THEN gl ELSE inc[i]] BY <1>3
  <2> HIDE DEF k
  <2>3. \A gl : Len([i \in 1 .. k |-> IF i = k THEN gl ELSE inc[i]]) = k BY <2>1
  <2>4. QED BY <2>2, <2>3 DEF k
<1>5. /\ GuardsMean(text, closed, cache) /\ OncesMean(text, cache, pp_once, onces)
      /\ text \in [Texts -> Seq(Lines)] /\ defs \subseteq Macros /\ f \in Texts
  BY DEF CInv, IInv, Types, Texts
<1>6. CASE Cached(f)
  <2>1. Len(inc') = Len(inc) BY <1>1, <1>2, <1>4, <1>6
  <2>2. cache[f].once = pp_once => f \in onces BY <1>5 DEF OncesMean
  <2>3. ASSUME cache[f].guard \in defs PROVE GuardedBy(f, cache[f].guard)
    <3>1. cache[f].guard # None BY <1>5, <2>3, ConditionalsAssumption
    <3>2. f \in closed /\ Shielded(text[f], Len(text[f]), cache[f].guard) BY <1>5, <3>1 DEF GuardsMean
    <3>3. text[f] \in Seq(Lines) BY <1>5
    <3>4. QED BY <3>2, <3>3, ShieldedGuarded
  <2>4. ~(Len(inc') > Len(inc)) BY <1>3, <2>1
  <2>5. QED BY <1>6, <2>2, <2>3, <2>4 DEF Cached
<1>7. CASE ~Cached(f)
  <2> DEFINE fs == [inc EXCEPT ![Len(inc)] = Resumed(f)]
  <2>1. f \notin onces BY <1>5, <1>7 DEF Cached, OncesMean
  <2>2. Resumed(f) \in FileType BY <1>1, <1>3, RanIs, FileParts DEF Resumed
  <2>3. fs \in Seq(FileType) /\ Len(fs) = Len(inc)
    <3>1. Len(fs) = Len(inc) BY <1>4
    <3> DEFINE k == Len(inc)
               r == Resumed(f)
    <3>2. fs = [i \in 1 .. k |-> IF i = k THEN r ELSE inc[i]] BY <1>3
    <3>3. k \in Nat /\ r \in FileType /\ \A i \in 1 .. k : inc[i] \in FileType BY <1>3, <2>2
    <3> HIDE DEF fs, k, r
    <3>4. fs \in Seq(FileType) BY <3>2, <3>3
    <3>5. QED BY <3>1, <3>4
  <2>4. inc' = Append(fs, Opened(f)) BY <1>1, <1>2, <1>7
  <2> HIDE DEF fs
  <2>5. Len(Append(fs, Opened(f))) = Len(fs) + 1 BY <2>3
  <2>6. Len(inc') > Len(inc) BY <1>3, <2>3, <2>4, <2>5
  <2>7. QED BY <2>1, <2>6
<1>8. QED BY <1>6, <1>7

\* A file that has asked to be read once is not opened again in this unit and is opened
\* in the next one, and a file is passed over only if it has asked for that or has
\* nothing to say, for all files that are plain.
THEOREM ReadOncePerUnit == ASSUME PlainFiles PROVE Spec => OncePerUnit
<1>1. IInv /\ CInv =>
        [\A f \in Files :
           Include /\ pc' = "read" /\ text'[file.f][file.pos] = Line("include", f) =>
              IF Len(inc') > Len(inc) THEN f \notin onces
              ELSE f \in onces \/ \E m \in defs : GuardedBy(f, m)]_vars
  BY IncludeDoes
<1>2. QED BY <1>1, CacheInductive, PTL DEF OncePerUnit

=============================================================================
