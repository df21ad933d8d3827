---------------------------- MODULE Linking_proofs ----------------------------
(***************************************************************************)
(* Proofs about Linking, for every plain world: any number of files, each  *)
(* with any symbols, sections and relocations.  The linker keeps an        *)
(* invariant (LinkInductive); with it, it loads what is needed, and all of *)
(* it (DemandLoaded), also when a round of a group goes on behind an       *)
(* object that could not be loaded.  It relocates every place to the       *)
(* symbol that is meant (RelocsRight), and it fails only if something is   *)
(* missing, and then always (VerdictRight): for the worlds in which no     *)
(* such object is in the archives of a group.                              *)
(***************************************************************************)
EXTENDS Linking, Loops_proofs, FiniteSetTheorems, SequenceTheorems

-----------------------------------------------------------------------------
(* Tables of symbols                                                       *)

GlobalNames(T)  == {T[i].name : i \in {j \in DOMAIN T : T[j].bind # "LOCAL"}}
DefinedNames(T) == {T[i].name : i \in {j \in DOMAIN T : T[j].bind # "LOCAL" /\ T[j].shndx # "UNDEF"}}
GlobalName(s)  == {n \in {s.name} : s.bind # "LOCAL"}
DefinedName(s) == {n \in {s.name} : s.bind # "LOCAL" /\ s.shndx # "UNDEF"}
OneEach(T) == \A i, j \in DOMAIN T : T[i].bind # "LOCAL" /\ T[j].bind # "LOCAL" /\ T[i].name = T[j].name => i = j

\* U has the names of T and that of the symbol s.
Grown(U, T, s) ==
    /\ GlobalNames(U) = GlobalNames(T) \cup GlobalName(s)
    /\ DefinedNames(U) = DefinedNames(T) \cup DefinedName(s)

\* X is a set of symbols which has what Resolved makes of two of them.
Mergeable(X) ==
    \A x, y \in X :
       x.name = y.name /\ x.bind # "LOCAL" /\ y.bind # "LOCAL" =>
          LET z == Resolved(x, y)
          IN  /\ z \in X /\ z.name = x.name /\ z.bind # "LOCAL"
              /\ z.shndx = "UNDEF" <=> x.shndx = "UNDEF" /\ y.shndx = "UNDEF"

\* The record r has the global fields of the linker, and perhaps others.
HasTable(r) == r = [x \in DOMAIN r |-> r[x]] /\ {"tab", "newUndef", "twice", "index"} \subseteq DOMAIN r

\* b is the table a when s has been entered.
Entered(a, b, s) ==
    /\ Len(b.tab) \in {Len(a.tab), Len(a.tab) + 1} /\ b.index \in 1 .. Len(b.tab)
    /\ \A i \in 1 .. Len(a.tab) :
          /\ b.tab[i].name = a.tab[i].name
          /\ b.tab[i].bind = "LOCAL" <=> a.tab[i].bind = "LOCAL"
          /\ i # b.index \/ a.tab[i].bind = "LOCAL" => b.tab[i] = a.tab[i]
    /\ b.tab[b.index].name = s.name
    /\ b.tab[b.index].bind = "LOCAL" <=> s.bind = "LOCAL"
    /\ b.index <= Len(a.tab) =>
          /\ Len(b.tab) = Len(a.tab) /\ s.bind # "LOCAL"
          /\ b.tab[b.index].shndx = "UNDEF" <=> a.tab[b.index].shndx = "UNDEF" /\ s.shndx = "UNDEF"
          /\ a.tab[b.index].shndx = "UNDEF" /\ s.shndx # "UNDEF" => b.newUndef = TRUE
    /\ b.index > Len(a.tab) =>
          /\ b.tab[b.index] = s
          /\ s.bind # "LOCAL" => \A i \in 1 .. Len(a.tab) : a.tab[i].bind = "LOCAL" \/ a.tab[i].name # s.name
    /\ a.newUndef = TRUE => b.newUndef = TRUE

\* The entry of a name, if there is one.
LEMMA LookupIs ==
    ASSUME NEW X, NEW T \in Seq(X), NEW n
    PROVE  /\ Lookup(T, n) = 0 => \A i \in 1 .. Len(T) : T[i].bind = "LOCAL" \/ T[i].name # n
           /\ Lookup(T, n) # 0 => /\ Lookup(T, n) \in 1 .. Len(T)
                                  /\ T[Lookup(T, n)].name = n /\ T[Lookup(T, n)].bind # "LOCAL"
           /\ n \in GlobalNames(T) <=> Lookup(T, n) # 0
<1> DEFINE I == {i \in DOMAIN T : T[i].name = n /\ T[i].bind # "LOCAL"}
<1>1. DOMAIN T = 1 .. Len(T) /\ Len(T) \in Nat OBVIOUS
<1>2. CASE I = {}
  <2>1. Lookup(T, n) = 0 BY <1>2 DEF Lookup
  <2>2. QED BY <1>1, <1>2, <2>1 DEF GlobalNames
<1>3. CASE I # {}
  <2>1. Lookup(T, n) \in I BY <1>3 DEF Lookup
  <2>2. QED BY <1>1, <2>1 DEF GlobalNames
<1>4. QED BY <1>2, <1>3

\* set_elf_sym enters a symbol.
LEMMA SetElfSymEnters ==
    ASSUME NEW X, Mergeable(X), NEW a, HasTable(a), a.tab \in Seq(X),
           a.newUndef \in BOOLEAN, a.twice \subseteq STRING, NEW s \in X, s.name \in STRING
    PROVE  LET b == SetElfSym(a, s)
           IN  /\ HasTable(b) /\ DOMAIN b = DOMAIN a
               /\ \A x \in DOMAIN a \ {"tab", "newUndef", "twice", "index"} : b[x] = a[x]
               /\ b.tab \in Seq(X) /\ b.newUndef \in BOOLEAN /\ b.twice \subseteq STRING
               /\ Entered(a, b, s)
<1> DEFINE b == SetElfSym(a, s)
           T == a.tab
           i == IF s.bind = "LOCAL" THEN 0 ELSE Lookup(T, s.name)
<1>1. T \in Seq(X) /\ Len(T) \in Nat /\ DOMAIN T = 1 .. Len(T) OBVIOUS
<1>2. CASE i = 0
  <2>1. b = [a EXCEPT !.tab = Append(@, s), !.index = Len(a.tab) + 1] BY <1>2 DEF SetElfSym
  <2>2. /\ HasTable(b) /\ DOMAIN b = DOMAIN a /\ b.tab = Append(T, s) /\ b.index = Len(T) + 1
        /\ b.newUndef = a.newUndef /\ b.twice = a.twice
        /\ \A x \in DOMAIN a \ {"tab", "newUndef", "twice", "index"} : b[x] = a[x]
    BY <2>1 DEF HasTable
  <2>3. /\ b.tab \in Seq(X) /\ Len(b.tab) = Len(T) + 1 /\ b.tab[Len(T) + 1] = s
        /\ \A j \in 1 .. Len(T) : b.tab[j] = T[j]
    BY <1>1, <2>2, AppendProperties
  <2>4. s.bind # "LOCAL" => \A j \in 1 .. Len(T) : T[j].bind = "LOCAL" \/ T[j].name # s.name
    BY <1>1, <1>2, LookupIs
  <2> HIDE DEF b
  <2>5. Entered(a, b, s) BY <1>1, <2>2, <2>3, <2>4 DEF Entered
  <2>6. QED BY <2>2, <2>3, <2>5 DEF b
<1>3. CASE i # 0
  <2>1. /\ i \in 1 .. Len(T) /\ T[i].name = s.name /\ T[i].bind # "LOCAL" /\ s.bind # "LOCAL"
        /\ T[i] \in X
    BY <1>1, <1>3, LookupIs
  <2>2. CASE T[i] = s
    <3>1. b = [a EXCEPT !.index = i] BY <1>3, <2>2 DEF SetElfSym
    <3>2. /\ HasTable(b) /\ DOMAIN b = DOMAIN a /\ b.tab = T /\ b.index = i
          /\ b.newUndef = a.newUndef /\ b.twice = a.twice
          /\ \A x \in DOMAIN a \ {"tab", "newUndef", "twice", "index"} : b[x] = a[x]
      BY <3>1 DEF HasTable
    <3> HIDE DEF b, i
    <3>3. Entered(a, b, s) BY <1>1, <2>1, <2>2, <3>2 DEF Entered
    <3>4. QED BY <3>2, <3>3 DEF b
  <2>3. CASE T[i] # s
    <3> DEFINE z == Resolved(T[i], s)
    <3>1. /\ z \in X /\ z.name = s.name /\ z.bind # "LOCAL"
          /\ z.shndx = "UNDEF" <=> T[i].shndx = "UNDEF" /\ s.shndx = "UNDEF"
      BY <2>1 DEF Mergeable
    <3>2. b = [a EXCEPT !.tab[i] = Resolved(T[i], s), !.index = i,
                       !.newUndef = @ \/ T[i].shndx = "UNDEF" \/ Overrides(T[i], s),
                       !.twice = IF T[i].shndx # "UNDEF" /\ Clashes(T[i], s)
                                 THEN @ \cup {s.name} ELSE @]
      BY <1>3, <2>3 DEF SetElfSym
    <3> DEFINE U  == [T EXCEPT ![i] = z]
               nu == a.newUndef \/ T[i].shndx = "UNDEF" \/ Overrides(T[i], s)
               tw == IF T[i].shndx # "UNDEF" /\ Clashes(T[i], s) THEN a.twice \cup {s.name} ELSE a.twice
    <3>6. b = [a EXCEPT !.tab = U, !.index = i, !.newUndef = nu, !.twice = tw]
      BY <3>2 DEF HasTable
    <3>7. tw \subseteq STRING /\ nu \in BOOLEAN /\ (a.newUndef => nu) /\ (T[i].shndx = "UNDEF" => nu)
      OBVIOUS
    <3> HIDE DEF b, z, i, U, nu, tw
    <3>3. /\ HasTable(b) /\ DOMAIN b = DOMAIN a /\ b.tab = U /\ b.index = i
          /\ b.newUndef = nu /\ b.twice = tw
          /\ \A x \in DOMAIN a \ {"tab", "newUndef", "twice", "index"} : b[x] = a[x]
      BY <3>6 DEF HasTable
    <3>4. /\ b.tab \in Seq(X) /\ Len(b.tab) = Len(T)
          /\ \A j \in 1 .. Len(T) : b.tab[j] = IF j = i THEN z ELSE T[j]
      BY <1>1, <2>1, <3>1, <3>3, ExceptSeq DEF U
    <3>5. Entered(a, b, s) BY <1>1, <2>1, <3>1, <3>3, <3>4, <3>7 DEF Entered
    <3>8. QED BY <3>3, <3>4, <3>5, <3>7 DEF b
  <2>4. QED BY <2>2, <2>3
<1>4. QED BY <1>2, <1>3

\* What the names of the table are then.
LEMMA EnteredNames ==
    ASSUME NEW X, NEW a, NEW b, NEW s, a.tab \in Seq(X), b.tab \in Seq(X), Entered(a, b, s), OneEach(a.tab)
    PROVE  /\ OneEach(b.tab) /\ Grown(b.tab, a.tab, s)
           /\ DefinedName(s) \cap GlobalNames(a.tab) \subseteq DefinedNames(a.tab) \/ b.newUndef = TRUE
<1> DEFINE T == a.tab
           U == b.tab
           k == b.index
<1>1. /\ Len(T) \in Nat /\ DOMAIN T = 1 .. Len(T) /\ Len(U) \in Nat /\ DOMAIN U = 1 .. Len(U)
  OBVIOUS
<1>2. \A i \in 1 .. Len(T) : /\ i \in 1 .. Len(U) /\ U[i].name = T[i].name
                             /\ (U[i].bind = "LOCAL" <=> T[i].bind = "LOCAL")
                             /\ (i # k => U[i] = T[i])
  BY <1>1 DEF Entered
<1>3. /\ k \in 1 .. Len(U) /\ U[k].name = s.name /\ (U[k].bind = "LOCAL" <=> s.bind = "LOCAL")
      /\ \A i \in 1 .. Len(U) : i \in 1 .. Len(T) \/ (i = k /\ k > Len(T))
  BY <1>1 DEF Entered
<1>4. k \in 1 .. Len(T) => /\ s.bind # "LOCAL"
                           /\ (U[k].shndx = "UNDEF" <=> T[k].shndx = "UNDEF" /\ s.shndx = "UNDEF")
                           /\ (T[k].shndx = "UNDEF" /\ s.shndx # "UNDEF" => b.newUndef = TRUE)
  BY <1>1 DEF Entered
<1>5. k \notin 1 .. Len(T) =>
          U[k] = s /\ (s.bind # "LOCAL" => \A i \in 1 .. Len(T) : T[i].bind = "LOCAL" \/ T[i].name # s.name)
  BY <1>1, <1>3 DEF Entered
<1>0. OneEach(T) OBVIOUS
<1> HIDE DEF T, U, k
<1>6. GlobalNames(U) = GlobalNames(T) \cup GlobalName(s)
  BY <1>1, <1>2, <1>3 DEF GlobalNames, GlobalName
<1>7. OneEach(U)
  BY <1>0, <1>1, <1>2, <1>3, <1>4, <1>5 DEF OneEach
<1>8. DefinedNames(U) = DefinedNames(T) \cup
                    DefinedName(s)
  <2>1. CASE k \in 1 .. Len(T)
    BY <1>1, <1>2, <1>3, <1>0, <1>4, <2>1 DEF OneEach, DefinedNames, DefinedName
  <2>2. CASE k \notin 1 .. Len(T)
    BY <1>1, <1>2, <1>3, <1>5, <2>2 DEF DefinedNames, DefinedName
  <2>3. QED BY <2>1, <2>2
<1>9. ASSUME NEW n \in DefinedName(s) \cap GlobalNames(T), n \notin DefinedNames(T)
      PROVE  b.newUndef = TRUE
  <2>0. n = s.name /\ s.bind # "LOCAL" /\ s.shndx # "UNDEF" BY DEF DefinedName
  <2>1. PICK i \in 1 .. Len(T) : T[i].bind # "LOCAL" /\ T[i].name = s.name /\ T[i].shndx = "UNDEF"
    BY <1>1, <1>9, <2>0 DEF GlobalNames, DefinedNames
  <2>2. k = i BY <1>1, <1>2, <1>3, <1>4, <1>0, <1>5, <2>0, <2>1 DEF OneEach
  <2>3. QED BY <1>4, <2>0, <2>1, <2>2
<1>10. QED BY <1>6, <1>7, <1>8, <1>9 DEF T, U, Grown

\* A set of symbols which does not depend on their visibility
VisBlind(X) ==
    \A e \in X : /\ e = [x \in DOMAIN e |-> e[x]] /\ {"name", "bind", "shndx", "vis"} \subseteq DOMAIN e
                 /\ e.name \in STRING /\ e.vis \in Visibilities
                 /\ \A v \in Visibilities : [e EXCEPT !.vis = v] \in X

\* Tables of such symbols can be merged.
LEMMA VisBlindMerges == ASSUME NEW X, VisBlind(X) PROVE Mergeable(X)
<1>1. SUFFICES ASSUME NEW x \in X, NEW y \in X, x.name = y.name, x.bind # "LOCAL", y.bind # "LOCAL"
               PROVE  LET z == Resolved(x, y)
                      IN  /\ z \in X /\ z.name = x.name /\ z.bind # "LOCAL"
                          /\ z.shndx = "UNDEF" <=> x.shndx = "UNDEF" /\ y.shndx = "UNDEF"
  BY DEF Mergeable
<1> DEFINE v == MergedVis(x.vis, y.vis)
<1>2. v \in Visibilities BY DEF VisBlind, MergedVis
<1> HIDE DEF v
<1>3. ASSUME NEW e \in X
      PROVE  LET z == [e EXCEPT !.vis = v]
             IN  z \in X /\ z.name = e.name /\ z.bind = e.bind /\ z.shndx = e.shndx
  <2>1. e = [f \in DOMAIN e |-> e[f]] /\ {"name", "bind", "shndx", "vis"} \subseteq DOMAIN e BY DEF VisBlind
  <2>2. [e EXCEPT !.vis = v] \in X BY <1>2 DEF VisBlind
  <2>3. QED BY <2>1, <2>2
<1>4. Resolved(x, y) = IF x.shndx = "UNDEF" THEN y
                       ELSE IF Overrides(x, y) THEN [y EXCEPT !.vis = v] ELSE [x EXCEPT !.vis = v]
  BY DEF Resolved, v
<1>5. Overrides(x, y) => y.shndx # "UNDEF" BY DEF Overrides
<1>6. QED BY <1>1, <1>3, <1>4, <1>5

\* set_elf_sym for each symbol of a list
TableOf(X) == [tab : Seq(X), newUndef : BOOLEAN, twice : SUBSET STRING, index : Nat]

Globals(s, i)  == {s[j].name : j \in {k \in 1 .. i : s[k].bind # "LOCAL"}}
Defining(s, i) == {s[j].name : j \in {k \in 1 .. i : s[k].bind # "LOCAL" /\ s[k].shndx # "UNDEF"}}

\* The names of one more symbol of a list
LEMMA NextNames ==
    ASSUME NEW s, NEW i \in Nat \ {0}
    PROVE  /\ Globals(s, i) = Globals(s, i - 1) \cup GlobalName(s[i])
           /\ Defining(s, i) = Defining(s, i - 1) \cup
                    DefinedName(s[i])
<1>1. \A k \in Nat : k \in 1 .. i <=> k \in 1 .. i - 1 \/ k = i OBVIOUS
<1>2. \A k \in 1 .. i : k \in Nat OBVIOUS
<1>3. \A k \in 1 .. i - 1 : k \in Nat OBVIOUS
<1>4. Globals(s, i) = Globals(s, i - 1) \cup GlobalName(s[i])
  BY <1>1, <1>2, <1>3 DEF Globals, GlobalName
<1>5. Defining(s, i) = Defining(s, i - 1) \cup
                    DefinedName(s[i])
  BY <1>1, <1>2, <1>3 DEF Defining, DefinedName
<1>6. QED BY <1>4, <1>5

\* The table after all symbols of a list have been entered
LEMMA AllEntered ==
    ASSUME NEW X, VisBlind(X), NEW a \in TableOf(X), OneEach(a.tab), NEW s \in Seq(X)
    PROVE  LET b == ForEach(AddDynamic, a, s)
           IN  /\ b \in TableOf(X) /\ OneEach(b.tab) /\ (a.newUndef = TRUE => b.newUndef = TRUE)
               /\ GlobalNames(b.tab) = GlobalNames(a.tab) \cup Globals(s, Len(s))
               /\ DefinedNames(b.tab) = DefinedNames(a.tab) \cup Defining(s, Len(s))
<1> DEFINE n == Len(s)
           After(i) == {b \in TableOf(X) :
                          /\ OneEach(b.tab) /\ (a.newUndef = TRUE => b.newUndef = TRUE)
                          /\ GlobalNames(b.tab) = GlobalNames(a.tab) \cup Globals(s, i)
                          /\ DefinedNames(b.tab) = DefinedNames(a.tab) \cup Defining(s, i)}
           Good == [i \in 0 .. n |-> After(i)]
           Round == [i \in 1 .. n |-> [u \in TableOf(X) |-> AddDynamic(u, s[i])]]
<1>1. n \in Nat /\ \A i \in 1 .. n : s[i] \in X OBVIOUS
<1>2. a \in After(0)
  <2>1. Globals(s, 0) = {} /\ Defining(s, 0) = {} BY DEF Globals, Defining
  <2>2. QED BY <2>1
<1>3. ASSUME NEW i \in 1 .. n, NEW u \in After(i - 1) PROVE AddDynamic(u, s[i]) \in After(i)
  <2>1. CASE s[i].bind # "LOCAL"
    <3> DEFINE b == SetElfSym(u, s[i])
    <3>1. u \in TableOf(X) /\ OneEach(u.tab) OBVIOUS
    <3>2. /\ HasTable(u) /\ DOMAIN u = {"tab", "newUndef", "twice", "index"}
          /\ u.tab \in Seq(X) /\ u.newUndef \in BOOLEAN /\ u.twice \subseteq STRING
      BY <3>1 DEF TableOf, HasTable
    <3>3. s[i] \in X /\ s[i].name \in STRING BY <1>1 DEF VisBlind
    <3>4. /\ HasTable(b) /\ DOMAIN b = DOMAIN u
          /\ b.tab \in Seq(X) /\ b.newUndef \in BOOLEAN /\ b.twice \subseteq STRING
          /\ Entered(u, b, s[i])
      BY <3>2, <3>3, VisBlindMerges, SetElfSymEnters
    <3> HIDE DEF b
    <3>5. b \in TableOf(X)
      <4>1. b.index \in Nat BY <3>4 DEF Entered
      <4>2. QED BY <3>2, <3>4, <4>1 DEF TableOf, HasTable
    <3>6. /\ OneEach(b.tab)
          /\ GlobalNames(b.tab) = GlobalNames(u.tab) \cup GlobalName(s[i])
          /\ DefinedNames(b.tab) = DefinedNames(u.tab) \cup
                      DefinedName(s[i])
      <4>1. u.tab \in Seq(X) /\ b.tab \in Seq(X) /\ Entered(u, b, s[i]) /\ OneEach(u.tab) BY <3>1, <3>2, <3>4
      <4>2. OneEach(b.tab) /\ Grown(b.tab, u.tab, s[i]) BY <4>1, EnteredNames
      <4>3. QED BY <4>2 DEF Grown
    <3>7. a.newUndef = TRUE => b.newUndef = TRUE BY <3>4 DEF Entered
    <3>8. /\ GlobalNames(b.tab) = GlobalNames(a.tab) \cup Globals(s, i)
          /\ DefinedNames(b.tab) = DefinedNames(a.tab) \cup Defining(s, i)
      <4>1. i \in Nat \ {0} BY <1>1
      <4>2. QED BY <3>6, <4>1, NextNames
    <3>9. b \in After(i) BY <3>5, <3>6, <3>7, <3>8
    <3>10. QED BY <2>1, <3>9 DEF AddDynamic, b
  <2>2. CASE s[i].bind = "LOCAL"
    <3>1. AddDynamic(u, s[i]) = u BY <2>2 DEF AddDynamic
    <3>2. GlobalName(s[i]) = {} /\ DefinedName(s[i]) = {} BY <2>2 DEF GlobalName, DefinedName
    <3>3. i \in Nat \ {0} BY <1>1
    <3>4. Globals(s, i) = Globals(s, i - 1) /\ Defining(s, i) = Defining(s, i - 1)
      <4>1. /\ Globals(s, i) = Globals(s, i - 1) \cup GlobalName(s[i])
            /\ Defining(s, i) = Defining(s, i - 1) \cup DefinedName(s[i])
        BY ONLY <3>3, NextNames
      <4>2. QED BY ONLY <3>2, <4>1
    <3>5. QED BY <3>1, <3>4
  <2>3. QED BY <2>1, <2>2
<1>4. \A i \in 0 .. n : Good[i] = After(i) OBVIOUS
<1>5. \A i \in 1 .. n : \A u \in TableOf(X) : Round[i][u] = AddDynamic(u, s[i]) OBVIOUS
<1>6. \A i \in 0 .. n : \A u \in After(i) : u \in TableOf(X) OBVIOUS
<1>7. \A b \in After(n) : /\ b \in TableOf(X) /\ OneEach(b.tab) /\ (a.newUndef = TRUE => b.newUndef = TRUE)
               /\ GlobalNames(b.tab) = GlobalNames(a.tab) \cup Globals(s, Len(s))
               /\ DefinedNames(b.tab) = DefinedNames(a.tab) \cup Defining(s, Len(s))
  OBVIOUS
<1> HIDE DEF After, Good, Round
<1>8. \A i \in 1 .. n : \A u \in Good[i - 1] : Round[i][u] \in Good[i]
  <2>1. \A i \in 1 .. n : i - 1 \in 0 .. n /\ i \in 0 .. n BY <1>1
  <2>2. QED BY <1>3, <1>4, <1>5, <1>6, <2>1
<1>9. a \in Good[0] BY <1>1, <1>2, <1>4
<1>10. PICK f : Loop(f, n, a, Round) /\ \A i \in 0 .. n : f[i] \in Good[i]
  BY <1>1, <1>8, <1>9, LoopExists
<1>11. f = [i \in 0 .. n |-> IF i = 0 THEN a ELSE Only({AddDynamic(u, s[i]) : u \in {f[i - 1]}})]
  <2>1. ASSUME NEW i \in 0 .. n, i # 0
        PROVE  Round[i][f[i - 1]] = Only({AddDynamic(u, s[i]) : u \in {f[i - 1]}})
    <3>1. i \in 1 .. n /\ i - 1 \in 0 .. n BY <1>1, <2>1
    <3>2. f[i - 1] \in TableOf(X) BY <1>4, <1>6, <1>10, <3>1
    <3>3. Round[i][f[i - 1]] = AddDynamic(f[i - 1], s[i]) BY <1>5, <3>1, <3>2
    <3>4. QED BY <3>3 DEF Only
  <2>2. QED BY <1>10, <2>1 DEF Loop
<1> DEFINE after == CHOOSE h : h = [i \in 0 .. n |-> IF i = 0 THEN a ELSE Only({AddDynamic(u, s[i]) : u \in {h[i - 1]}})]
<1>12. after = [i \in 0 .. n |-> IF i = 0 THEN a ELSE Only({AddDynamic(u, s[i]) : u \in {after[i - 1]}})]
  BY <1>11
<1>13. ForEach(AddDynamic, a, s) = after[n] BY DEF ForEach
<1> HIDE DEF after
<1>14. after[0] = a /\ \A i \in 1 .. n : after[i] = AddDynamic(after[i - 1], s[i])
  <2>1. \A i \in 1 .. n : i \in 0 .. n /\ i # 0 BY <1>1
  <2>2. 0 \in 0 .. n BY <1>1
  <2>3. QED BY <1>12, <2>1, <2>2 DEF Only
<1>15. \A i \in 0 .. n : after[i] \in Good[i]
  <2>1. ASSUME NEW i \in 1 .. n, after[i - 1] \in Good[i - 1] PROVE after[i] \in Good[i]
    <3>1. i - 1 \in 0 .. n /\ i \in 0 .. n BY <1>1
    <3>2. after[i - 1] \in After(i - 1) BY <1>4, <2>1, <3>1
    <3>3. QED BY <1>3, <1>4, <1>14, <3>1, <3>2
  <2>2. QED BY <1>1, <1>9, <1>14, <2>1, RoundsKeep
<1>16. after[n] \in After(n) BY <1>1, <1>4, <1>15
<1>17. QED BY <1>7, <1>13, <1>16

-----------------------------------------------------------------------------
(* The world                                                               *)

PlainCode == \A c \in Code : PlainWorld(World(c))

ObjectGlobals(o, i) == {o.syms[j].name : j \in {k \in 1 .. i : o.syms[k].bind # "LOCAL"}}
ObjectDefs(o, i) == {o.syms[j].name : j \in {k \in 1 .. i : o.syms[k].bind # "LOCAL" /\ o.syms[k].sec # 0}}

\* What Complete adds to the files is what they contain.
LibraryMeans ==
    /\ \A m : m \in DOMAIN world.lib <=>
          \E f \in OfKind(world, {"obj", "ar"}) : \E k \in DOMAIN File(f).objs : m = [f |-> f, k |-> k]
    /\ \A m \in DOMAIN world.lib :
          LET o == Object(m) IN
          /\ o \in ObjectFile /\ o \in ObjectsOf(world) /\ Referring(o)
          /\ world.lib[m].defs = ObjectDefs(o, Len(o.syms))
          /\ world.lib[m].defs \cup world.lib[m].refs = ObjectGlobals(o, Len(o.syms))
          /\ world.lib[m].offers \subseteq world.lib[m].defs

IndexMeans ==
    \A f \in OfKind(world, {"ar"}) :
       /\ Len(world.index[f]) \in Nat
       /\ \A i \in 1 .. Len(world.index[f]) :
             LET e == world.index[f][i]
             IN  e.f = f /\ e.k \in DOMAIN File(f).objs /\ e.name \in world.lib[[f |-> f, k |-> e.k]].offers
       /\ \A k \in DOMAIN File(f).objs : \A n \in world.lib[[f |-> f, k |-> k]].offers :
             \E i \in 1 .. Len(world.index[f]) : world.index[f][i].name = n

WorldKnown == PlainWorld(world) /\ LibraryMeans /\ IndexMeans

-----------------------------------------------------------------------------
(* The invariant                                                           *)

EntryType == [name : STRING, bind : Binds, vis : Visibilities, shndx : Shndxs, at : Int \X Int]

Frame ==
    [k : {"cmd"}, i : Nat \ {0}]
    \cup [k : {"whole", "script", "dll"}, f : DOMAIN world.file, i : Nat \ {0}]
    \cup [k : {"ar"}, f : DOMAIN world.file, i : Nat \ {0}, bound : BOOLEAN]
    \cup [k : {"list"}, f : DOMAIN world.file, l : Nat, i : Nat \ {0}, again : BOOLEAN]

LinkTypes ==
    /\ pc \in {"load", "bind", "done", "failed"}
    /\ stack \in Seq(Frame) /\ newUndef \in BOOLEAN /\ twice \subseteq STRING
    /\ dyn \in Seq(DllSymbol) /\ OneEach(dyn)
    /\ loaded \in Seq(DOMAIN world.lib)

\* the call c of the file or list that p has come to; a list that is gone through
\* again is a group
Calls(p, c) ==
    CASE p.k = "cmd" ->
           /\ p.i - 1 \in DOMAIN world.cmd /\ c.f = world.cmd[p.i - 1].f
           /\ c.k \in {"whole", "ar", "script", "dll"}
           /\ File(c.f).kind = IF c.k = "whole" THEN "ar" ELSE c.k
           /\ c.k = "whole" => world.cmd[p.i - 1].whole
      [] p.k = "script" ->
           /\ c.k = "list" /\ c.f = p.f /\ c.l = p.i - 1 /\ c.l \in DOMAIN File(c.f).lists
           /\ c.again = TRUE => File(c.f).lists[c.l].group = TRUE
      [] p.k = "list" ->
           /\ p.i - 1 \in DOMAIN File(p.f).lists[p.l].files
           /\ c.f = File(p.f).lists[p.l].files[p.i - 1]
           /\ c.k \in {"ar", "dll"} /\ File(c.f).kind = c.k
      [] p.k = "dll" -> c.k = "dll" /\ File(c.f).kind = "dll"
      [] OTHER -> FALSE

Called(stk) ==
    /\ Len(stk) >= 1 /\ stk[1].k = "cmd"
    /\ \A j \in 2 .. Len(stk) : Calls(stk[j - 1], stk[j])

\* the table has the names of the objects loaded, and what they define
Tabled(T, M) ==
    /\ T \in Seq(EntryType) /\ OneEach(T)
    /\ GlobalNames(T) = UNION {world.lib[m].defs \cup world.lib[m].refs : m \in M}
    /\ DefinedNames(T) = UNION {world.lib[m].defs : m \in M}

OncesKept(O, M) == \A n \in DOMAIN O : n \in OnceName /\ \E m \in M : n \in Range(Object(m).secs)

Missing(M) == (UNION {world.lib[m].refs : m \in M}) \ (UNION {world.lib[m].defs : m \in M})
Wanted(m, M) == world.lib[m].offers \cap Missing(M) # {}

\* what a search has gone through gives nothing more, unless it will be gone
\* through again
Exhausted(stk, nu, M) ==
    \A j \in DOMAIN stk :
       /\ stk[j].k = "ar" /\ ~stk[j].bound =>
             \A x \in 1 .. Len(world.index[stk[j].f]) : x < stk[j].i => world.index[stk[j].f][x].name \notin Missing(M)
       /\ stk[j].k = "list" /\ nu = FALSE /\ File(stk[j].f).lists[stk[j].l].group =>
             LET fs == File(stk[j].f).lists[stk[j].l].files IN
             \A x \in 1 .. Len(fs) :
                x < stk[j].i /\ (x = stk[j].i - 1 => Last(stk).k # "ar") /\ File(fs[x]).kind = "ar" =>
                   \A m \in Members(fs[x]) : ~Wanted(m, M)

\* an object of a file that is named once was loaded when the file was come to
Fresh(stk, M) ==
    \A m \in M :
       /\ m.f \in Listed(world) \/ \E x \in DOMAIN world.cmd : x < stk[1].i /\ world.cmd[x].f = m.f
       /\ Len(stk) > 1 /\ stk[2].k = "whole" /\ m.f = stk[2].f => m.k < stk[2].i

LInv ==
    /\ WorldKnown /\ LinkTypes /\ Called(stack)
    /\ pc \in {"load", "bind"} => /\ Tabled(tab, Range(loaded))
                                  /\ OncesKept(once, Range(loaded))
                                  /\ Exhausted(stack, newUndef, Range(loaded))
                                  /\ Fresh(stack, Range(loaded))
    /\ pc = "bind" => Len(stack) = 1

\* SetToSeq lists a finite set.
LEMMA Listing ==
    ASSUME NEW S, IsFiniteSet(S)
    PROVE  LET s == SetToSeq(S)
           IN s \in Seq(S) /\ \A x \in S : \E i \in 1 .. Len(s) : s[i] = x
<1> DEFINE n == Cardinality(S)
           s == SetToSeq(S)
<1>1. n \in Nat /\ ExistsBijection(1 .. n, S) BY FS_CardinalityType
<1>2. PICK f : f \in [1 .. n -> S] /\ IsInjective(f)
  BY <1>1 DEF ExistsBijection, Bijection, Injection
<1>3. s \in [1 .. n -> S] /\ IsInjective(s)
  BY <1>2 DEF SetToSeq
<1> HIDE DEF s
<1>4. s \in Seq(S) BY <1>1, <1>3, SeqDef
<1>5. DOMAIN s = 1 .. n /\ DOMAIN s = 1 .. Len(s) BY <1>1, <1>3, <1>4, LenProperties
<1>6. s \in Surjection(1 .. n, S)
  <2>1. s \in Injection(1 .. n, S) BY <1>3 DEF Injection
  <2>2. IsFiniteSet(1 .. n) /\ Cardinality(1 .. n) = n
    <3>1. 1 \in Int /\ n \in Int BY <1>1
    <3>2. Cardinality(1 .. n) = IF 1 > n THEN 0 ELSE n - 1 + 1 BY <3>1, FS_Interval
    <3>3. QED BY <1>1, <3>1, <3>2, FS_Interval
  <2>3. QED BY <2>1, <2>2, FS_Injection DEF n
<1>7. \A x \in S : \E i \in 1 .. n : s[i] = x BY <1>6 DEF Surjection
<1>8. QED BY <1>4, <1>5, <1>7 DEF s

\* t has the elements of the first m sequences of s.
Flat(s, t, m) ==
    /\ \A i \in 1 .. Len(t) : \E k \in 1 .. m : \E j \in 1 .. Len(s[k]) : t[i] = s[k][j]
    /\ \A k \in 1 .. m : \A j \in 1 .. Len(s[k]) : \E i \in 1 .. Len(t) : t[i] = s[k][j]

\* One more sequence behind the sequences that are concatenated
LEMMA FlatMore ==
    ASSUME NEW S, NEW s, NEW t \in Seq(S), NEW m \in Nat, Flat(s, t, m), s[m + 1] \in Seq(S)
    PROVE  t \o s[m + 1] \in Seq(S) /\ Flat(s, t \o s[m + 1], m + 1)
<1> DEFINE r == s[m + 1]
           u == t \o r
<1>1. r \in Seq(S) /\ Len(r) \in Nat /\ Len(t) \in Nat OBVIOUS
<1>2. /\ u \in Seq(S) /\ Len(u) = Len(t) + Len(r)
      /\ \A i \in 1 .. Len(t) + Len(r) : u[i] = IF i <= Len(t) THEN t[i] ELSE r[i - Len(t)]
  BY <1>1, ConcatProperties
<1> HIDE DEF u
<1>3. \A k \in 1 .. m + 1 : k \in 1 .. m \/ k = m + 1 OBVIOUS
<1>4. \A k \in 1 .. m : k \in 1 .. m + 1 OBVIOUS
<1>5. m + 1 \in 1 .. m + 1 OBVIOUS
<1>6. \A i \in 1 .. Len(u) : \E k \in 1 .. m + 1 : \E j \in 1 .. Len(s[k]) : u[i] = s[k][j]
  <2>1. SUFFICES ASSUME NEW i \in 1 .. Len(u)
                 PROVE  \E k \in 1 .. m + 1 : \E j \in 1 .. Len(s[k]) : u[i] = s[k][j]
    OBVIOUS
  <2>2. CASE i <= Len(t)
    <3>1. i \in 1 .. Len(t) /\ u[i] = t[i] BY <1>1, <1>2, <2>2
    <3>2. PICK k \in 1 .. m : \E j \in 1 .. Len(s[k]) : t[i] = s[k][j] BY <3>1 DEF Flat
    <3>3. k \in 1 .. m + 1 BY <1>4
    <3>4. QED BY <3>1, <3>2, <3>3
  <2>3. CASE ~(i <= Len(t))
    <3>1. i - Len(t) \in 1 .. Len(r) /\ u[i] = r[i - Len(t)] BY <1>1, <1>2, <2>3
    <3>2. QED BY <1>5, <3>1
  <2>4. QED BY <2>2, <2>3
<1>7. \A k \in 1 .. m + 1 : \A j \in 1 .. Len(s[k]) : \E i \in 1 .. Len(u) : u[i] = s[k][j]
  <2>1. SUFFICES ASSUME NEW k \in 1 .. m + 1, NEW j \in 1 .. Len(s[k])
                 PROVE  \E i \in 1 .. Len(u) : u[i] = s[k][j]
    OBVIOUS
  <2>2. CASE k \in 1 .. m
    <3>1. PICK i \in 1 .. Len(t) : t[i] = s[k][j] BY <2>2 DEF Flat
    <3>2. i \in 1 .. Len(t) + Len(r) /\ i <= Len(t) BY <1>1
    <3>3. i \in 1 .. Len(u) /\ u[i] = t[i] BY <1>2, <3>2
    <3>4. QED BY <3>1, <3>3
  <2>3. CASE k = m + 1
    <3>1. j \in 1 .. Len(r) BY <2>3
    <3> HIDE DEF r
    <3>2. /\ Len(t) + j \in 1 .. Len(t) + Len(r) /\ ~(Len(t) + j <= Len(t))
          /\ (Len(t) + j) - Len(t) = j
      BY <1>1, <3>1
    <3>3. Len(t) + j \in 1 .. Len(u) /\ u[Len(t) + j] = r[j] BY <1>2, <3>2
    <3>4. QED BY <2>3, <3>3 DEF r
  <2>4. QED BY <1>3, <2>2, <2>3
<1>8. Flat(s, u, m + 1) BY <1>6, <1>7 DEF Flat
<1>9. QED BY <1>2, <1>8 DEF u

\* FlattenSeq has the elements of all sequences.
LEMMA Flattening ==
    ASSUME NEW S, NEW s \in Seq(Seq(S))
    PROVE  FlattenSeq(s) \in Seq(S) /\ Flat(s, FlattenSeq(s), Len(s))
<1> DEFINE n == Len(s)
<1>1. n \in Nat /\ \A k \in 1 .. n : s[k] \in Seq(S) OBVIOUS
<1>2. CASE n = 0
  <2>1. FlattenSeq(s) = s /\ s = <<>> BY <1>2 DEF FlattenSeq
  <2>2. QED BY <1>2, <2>1 DEF Flat
<1>3. CASE n > 0
  <2> DEFINE A(m) == {t \in Seq(S) : m > 0 => Flat(s, t, m)}
             R(m, t) == IF m = 1 THEN s[m] ELSE t \o s[m]
             Good == [m \in 0 .. n |-> A(m)]
             Round == [m \in 1 .. n |-> [t \in Seq(S) |-> R(m, t)]]
  <2>1. \A m \in 0 .. n : Good[m] = A(m) OBVIOUS
  <2>2. \A m \in 1 .. n : \A t \in Seq(S) : Round[m][t] = R(m, t) OBVIOUS
  <2>3. ASSUME NEW m \in 1 .. n, NEW t \in A(m - 1) PROVE R(m, t) \in A(m)
    <3>1. CASE m = 1
      <4>1. s[1] \in Seq(S) BY <1>1, <3>1
      <4>2. Flat(s, s[1], 1)
        <5>1. \A k \in 1 .. 1 : k = 1 OBVIOUS
        <5>2. QED BY <5>1 DEF Flat
      <4>3. QED BY <3>1, <4>1, <4>2
    <3>2. CASE m # 1
      <4>1. m - 1 \in Nat /\ m - 1 > 0 /\ (m - 1) + 1 = m /\ s[m] \in Seq(S) BY <1>1, <3>2
      <4>2. t \in Seq(S) /\ Flat(s, t, m - 1) BY <4>1
      <4>3. t \o s[m] \in Seq(S) /\ Flat(s, t \o s[m], m) BY <4>1, <4>2, FlatMore
      <4>4. QED BY <3>2, <4>3
    <3>3. QED BY <3>1, <3>2
  <2>4. <<>> \in A(0) OBVIOUS
  <2>5. \A m \in 0 .. n : \A t \in A(m) : t \in Seq(S) OBVIOUS
  <2>6. \A t \in A(n) : t \in Seq(S) /\ Flat(s, t, n) BY <1>3
  <2>7. \A m, t : R(m, t) = IF m = 1 THEN s[m] ELSE t \o s[m] OBVIOUS
  <2>0. n = Len(s) OBVIOUS
  <2> HIDE DEF A, R, Good, Round, n
  <2>8. \A m \in 1 .. n : \A t \in Good[m - 1] : Round[m][t] \in Good[m]
    <3>1. \A m \in 1 .. n : m - 1 \in 0 .. n /\ m \in 0 .. n BY <1>1
    <3>2. QED BY <2>1, <2>2, <2>3, <2>5, <3>1
  <2>9. <<>> \in Good[0] BY <1>1, <2>1, <2>4
  <2>10. PICK f : Loop(f, n, <<>>, Round) /\ \A m \in 0 .. n : f[m] \in Good[m]
    BY <1>1, <2>8, <2>9, LoopExists
  <2> DEFINE g == [m \in 1 .. n |-> f[m]]
  <2>11. \A m \in 1 .. n : f[m] = R(m, f[m - 1])
    <3>1. \A m \in 1 .. n : m - 1 \in 0 .. n /\ m \in 0 .. n /\ m # 0 BY <1>1
    <3>2. \A m \in 1 .. n : f[m] = Round[m][f[m - 1]] BY <2>10, <3>1 DEF Loop
    <3>3. QED BY <2>1, <2>2, <2>5, <2>10, <3>1, <3>2
  <2>12. g = [m \in 1 .. n |-> IF m = 1 THEN s[m] ELSE g[m - 1] \o s[m]]
    <3>1. \A m \in 1 .. n : m # 1 => m - 1 \in 1 .. n BY <1>1
    <3>2. \A m \in 1 .. n : g[m] = IF m = 1 THEN s[m] ELSE g[m - 1] \o s[m] BY <2>7, <2>11, <3>1
    <3>3. QED BY <3>2
  <2> HIDE DEF g
  <2> DEFINE flatten == CHOOSE h : h = [m \in 1 .. n |-> IF m = 1 THEN s[m] ELSE h[m - 1] \o s[m]]
  <2>13. flatten = [m \in 1 .. n |-> IF m = 1 THEN s[m] ELSE flatten[m - 1] \o s[m]] BY <2>12
  <2>14. FlattenSeq(s) = flatten[n] BY <1>1, <1>3 DEF FlattenSeq, n
  <2> HIDE DEF flatten
  <2>15. \A m \in 1 .. n : flatten[m] = R(m, flatten[m - 1])
    BY <2>7, <2>13
  <2> DEFINE F == [m \in 0 .. n |-> IF m = 0 THEN <<>> ELSE flatten[m]]
  <2>16. \A m \in 0 .. n : F[m] \in Good[m]
    <3>1. F[0] = <<>> BY <1>1
    <3>2. ASSUME NEW m \in 1 .. n, F[m - 1] \in Good[m - 1] PROVE F[m] \in Good[m]
      <4>1. m - 1 \in 0 .. n /\ m \in 0 .. n /\ m # 0 /\ (m # 1 => m - 1 # 0) BY <1>1
      <4>2. F[m] = R(m, F[m - 1])
        <5>1. F[m] = flatten[m] /\ (m # 1 => F[m - 1] = flatten[m - 1]) BY <4>1
        <5>2. QED BY <2>7, <2>15, <5>1
      <4>3. QED BY <2>1, <2>3, <3>2, <4>1, <4>2
    <3> HIDE DEF F
    <3>3. QED BY <1>1, <2>9, <3>1, <3>2, RoundsKeep
  <2>17. flatten[n] \in A(n)
    <3>1. n \in 0 .. n /\ n # 0 BY <1>1, <1>3
    <3>2. F[n] = flatten[n] BY <3>1
    <3>3. QED BY <2>1, <2>16, <3>1, <3>2
  <2>18. QED BY <2>0, <2>6, <2>14, <2>17
<1>4. QED BY <1>1, <1>2, <1>3

\* The index of an archive lists what its members offer.
LEMMA IndexLists ==
    ASSUME NEW f, NEW objs \in Seq(ObjectFile)
    PROVE  LET t == ArIndex(f, objs)
           IN /\ Len(t) \in Nat
              /\ \A i \in 1 .. Len(t) :
                    t[i].f = f /\ t[i].k \in DOMAIN objs /\ t[i].name \in Indexed(objs[t[i].k])
              /\ \A k \in DOMAIN objs : \A n \in Indexed(objs[k]) : \E i \in 1 .. Len(t) : t[i].name = n
<1> DEFINE Entries(k) == {[f |-> f, k |-> k, name |-> n] : n \in Indexed(objs[k])}
           s == [k \in DOMAIN objs |-> SetToSeq(Entries(k))]
           E == UNION {Entries(k) : k \in DOMAIN objs}
           t == FlattenSeq(s)
<1>1. Len(objs) \in Nat /\ DOMAIN objs = 1 .. Len(objs) OBVIOUS
<1>2. ASSUME NEW k \in DOMAIN objs PROVE IsFiniteSet(Entries(k))
  <2> DEFINE syms == objs[k].syms
             all == {[f |-> f, k |-> k, name |-> syms[i].name] : i \in 1 .. Len(syms)}
             h == [i \in 1 .. Len(syms) |-> [f |-> f, k |-> k, name |-> syms[i].name]]
  <2>1. objs[k] \in ObjectFile BY <1>1
  <2>2. Len(syms) \in Nat /\ DOMAIN syms = 1 .. Len(syms) BY <2>1 DEF ObjectFile
  <2>3. h \in Surjection(1 .. Len(syms), all) BY DEF Surjection
  <2>4. IsFiniteSet(all)
    <3>1. ExistsSurjection(1 .. Len(syms), all) BY <2>3 DEF ExistsSurjection
    <3> HIDE DEF all, h
    <3>2. QED BY <2>2, <3>1, FS_NatSurjection
  <2>5. Entries(k) \subseteq all BY <2>2 DEF Indexed, Range
  <2>6. QED BY <2>4, <2>5, FS_Subset
<1>3. \A k \in DOMAIN objs : s[k] \in Seq(Entries(k)) /\ \A x \in Entries(k) : \E i \in 1 .. Len(s[k]) : s[k][i] = x
  <2> SUFFICES ASSUME NEW k \in DOMAIN objs
               PROVE  s[k] \in Seq(Entries(k)) /\ \A x \in Entries(k) : \E i \in 1 .. Len(s[k]) : s[k][i] = x
    OBVIOUS
  <2>1. s[k] = SetToSeq(Entries(k)) OBVIOUS
  <2> HIDE DEF Entries, s
  <2>2. QED BY <1>2, <2>1, Listing
<1>4. \A k \in DOMAIN objs : \A x \in Entries(k) : x.f = f /\ x.k = k /\ x.name \in Indexed(objs[k])
  OBVIOUS
<1>5. ASSUME NEW k \in DOMAIN objs, NEW n \in Indexed(objs[k]) PROVE \E x \in Entries(k) : x.name = n
  <2>1. [f |-> f, k |-> k, name |-> n] \in Entries(k) OBVIOUS
  <2>2. QED BY <2>1
<1>6. ArIndex(f, objs) = t BY DEF ArIndex
<1>7. DOMAIN s = DOMAIN objs /\ s = [k \in 1 .. Len(objs) |-> s[k]] BY <1>1
<1>8. \A k \in DOMAIN objs : Entries(k) \subseteq E OBVIOUS
<1> HIDE DEF Entries, s, E
<1>9. \A k \in DOMAIN objs : s[k] \in Seq(E) BY <1>3, <1>8, SeqMonotonic
<1>10. s \in Seq(Seq(E)) /\ Len(s) = Len(objs)
  <2>1. s \in [1 .. Len(objs) -> Seq(E)] BY <1>1, <1>7, <1>9
  <2>2. s \in Seq(Seq(E)) BY <1>1, <2>1, SeqDef
  <2>3. DOMAIN s = 1 .. Len(s) /\ Len(s) \in Nat BY <2>2, LenProperties
  <2>4. QED BY <1>1, <1>7, <2>2, <2>3
<1>11. t \in Seq(E) /\ Flat(s, t, Len(objs)) BY <1>10, Flattening
<1> HIDE DEF t
<1>12. Len(t) \in Nat BY <1>11
<1>13. ASSUME NEW i \in 1 .. Len(t)
       PROVE  t[i].f = f /\ t[i].k \in DOMAIN objs /\ t[i].name \in Indexed(objs[t[i].k])
  <2>1. PICK k \in DOMAIN objs : \E j \in 1 .. Len(s[k]) : t[i] = s[k][j]
    BY <1>1, <1>11 DEF Flat
  <2>2. PICK j \in 1 .. Len(s[k]) : t[i] = s[k][j] BY <2>1
  <2>3. t[i] \in Entries(k) BY <1>3, <2>2, ElementOfSeq
  <2>4. QED BY <1>4, <2>3
<1>14. ASSUME NEW k \in DOMAIN objs, NEW n \in Indexed(objs[k]) PROVE \E i \in 1 .. Len(t) : t[i].name = n
  <2>1. PICK x \in Entries(k) : x.name = n BY <1>5
  <2>2. PICK j \in 1 .. Len(s[k]) : s[k][j] = x BY <1>3
  <2>3. PICK i \in 1 .. Len(t) : t[i] = s[k][j] BY <1>1, <1>11 DEF Flat
  <2>4. QED BY <2>1, <2>2, <2>3
<1>15. QED BY <1>6, <1>12, <1>13, <1>14

\* The parts of a completed world
LEMMA Completed ==
    ASSUME NEW w, world = Complete(w), PlainWorld(w)
    PROVE  /\ world.cmd = w.cmd /\ world.file = w.file
           /\ PlainWorld(world)
<1>1. world.cmd = w.cmd /\ world.file = w.file BY DEF Complete
<1>2. \A K : OfKind(world, K) = OfKind(w, K) BY <1>1 DEF OfKind
<1>3. ObjectsOf(world) = ObjectsOf(w) BY <1>1, <1>2 DEF ObjectsOf
<1>4. Listed(world) = Listed(w) BY <1>1, <1>2 DEF Listed, CommandLine
<1>5. WellTyped(world) BY <1>1, <1>2 DEF PlainWorld, WellTyped
<1>6. NamedOnce(world) BY <1>1, <1>4 DEF PlainWorld, NamedOnce
<1>7. QED BY <1>1, <1>3, <1>5, <1>6 DEF PlainWorld

\* The names that Complete takes from an object are those of its symbols.
LEMMA NamesOf ==
    ASSUME NEW o, o.syms \in Seq([name : STRING, bind : Binds, sec : Int, vis : Visibilities])
    PROVE  LET global == {s \in Range(o.syms) : s.bind # "LOCAL"}
               defs == {s.name : s \in {t \in global : t.sec # 0}}
               refs == {s.name : s \in {t \in global : t.sec = 0}}
           IN  defs = ObjectDefs(o, Len(o.syms)) /\ defs \cup refs = ObjectGlobals(o, Len(o.syms))
<1> DEFINE global == {s \in Range(o.syms) : s.bind # "LOCAL"}
           defs == {s.name : s \in {t \in global : t.sec # 0}}
           refs == {s.name : s \in {t \in global : t.sec = 0}}
<1>1. DOMAIN o.syms = 1 .. Len(o.syms) OBVIOUS
<1>2. \A s : s \in global <=> \E j \in 1 .. Len(o.syms) : s = o.syms[j] /\ s.bind # "LOCAL"
  BY <1>1 DEF Range
<1>3. \A n : n \in defs <=> \E s \in global : s.sec # 0 /\ n = s.name OBVIOUS
<1>4. \A n : n \in refs <=> \E s \in global : s.sec = 0 /\ n = s.name OBVIOUS
<1>5. \A n : n \in ObjectDefs(o, Len(o.syms)) <=>
            \E j \in 1 .. Len(o.syms) : o.syms[j].bind # "LOCAL" /\ o.syms[j].sec # 0 /\ n = o.syms[j].name
  BY DEF ObjectDefs
<1>6. \A n : n \in ObjectGlobals(o, Len(o.syms)) <=>
            \E j \in 1 .. Len(o.syms) : o.syms[j].bind # "LOCAL" /\ n = o.syms[j].name
  BY DEF ObjectGlobals
<1> HIDE DEF global, defs, refs
<1>7. \A n : n \in defs <=> n \in ObjectDefs(o, Len(o.syms)) BY <1>2, <1>3, <1>5
<1>8. \A n : n \in defs \/ n \in refs <=> n \in ObjectGlobals(o, Len(o.syms))
  <2>1. \A n : n \in defs \/ n \in refs <=> \E s \in global : n = s.name BY <1>3, <1>4
  <2>2. QED BY <1>2, <1>6, <2>1
<1>9. defs = ObjectDefs(o, Len(o.syms)) BY <1>7
<1>10. defs \cup refs = ObjectGlobals(o, Len(o.syms)) BY <1>8
<1>11. QED BY <1>9, <1>10 DEF defs, refs, global

\* What is known of a world once it is complete
LEMMA KnownOnceComplete ==
    ASSUME NEW w, world = Complete(w), PlainWorld(w)
    PROVE  WorldKnown
<1>1. world.cmd = w.cmd /\ world.file = w.file /\ PlainWorld(world) BY Completed
<1>0. WellTyped(world) BY <1>1 DEF PlainWorld
<1> DEFINE ars == {f \in DOMAIN w.file : w.file[f].kind = "ar"}
           objects == UNION {{[f |-> f, k |-> k] : k \in DOMAIN w.file[f].objs} :
                            f \in ars \cup {f \in DOMAIN w.file : w.file[f].kind = "obj"}}
           global(m) == {s \in Range(w.file[m.f].objs[m.k].syms) : s.bind # "LOCAL"}
           rec(m) == [defs   |-> {s.name : s \in {t \in global(m) : t.sec # 0}},
                     offers |-> Indexed(w.file[m.f].objs[m.k]),
                     refs   |-> {s.name : s \in {t \in global(m) : t.sec = 0}}]
<1>2. world.index = [f \in ars |-> ArIndex(f, w.file[f].objs)] BY DEF Complete
<1>3. world.lib = [m \in objects |-> rec(m)] BY DEF Complete
<1>4. ars = OfKind(world, {"ar"}) /\ ars \cup {f \in DOMAIN w.file : w.file[f].kind = "obj"} = OfKind(world, {"obj", "ar"})
  BY <1>1 DEF OfKind
<1>5. \A m : m \in DOMAIN world.lib <=>
          \E f \in OfKind(world, {"obj", "ar"}) : \E k \in DOMAIN File(f).objs : m = [f |-> f, k |-> k]
  <2>1. DOMAIN world.lib = objects BY <1>3
  <2>2. objects = UNION {{[f |-> f, k |-> k] : k \in DOMAIN w.file[f].objs} : f \in OfKind(world, {"obj", "ar"})}
    BY <1>4
  <2>3. \A f : File(f) = w.file[f] BY <1>1 DEF File
  <2> HIDE DEF objects
  <2>4. QED BY <2>1, <2>2, <2>3
<1>6. \A m \in DOMAIN world.lib : world.lib[m] = rec(m) BY <1>3
<1>7. \A f \in OfKind(world, {"ar"}) : world.index[f] = ArIndex(f, File(f).objs) BY <1>1, <1>2, <1>4 DEF File
<1>8. \A m : rec(m).defs = {s.name : s \in {t \in global(m) : t.sec # 0}}
             /\ rec(m).refs = {s.name : s \in {t \in global(m) : t.sec = 0}}
             /\ rec(m).offers = Indexed(w.file[m.f].objs[m.k])
  OBVIOUS
<1>9. \A f \in OfKind(world, {"obj", "ar"}) : File(f).objs \in Seq(ObjectFile)
  BY <1>0 DEF WellTyped, OfKind, File
<1> HIDE DEF ars, objects, rec
<1>10. ASSUME NEW m \in DOMAIN world.lib
       PROVE  LET o == Object(m) IN
              /\ o \in ObjectFile /\ o \in ObjectsOf(world) /\ Referring(o)
              /\ world.lib[m].defs = ObjectDefs(o, Len(o.syms))
              /\ world.lib[m].defs \cup world.lib[m].refs = ObjectGlobals(o, Len(o.syms))
              /\ world.lib[m].offers \subseteq world.lib[m].defs
              /\ world.lib[m].offers = Indexed(o)
  <2> DEFINE o == Object(m)
  <2>1. PICK f \in OfKind(world, {"obj", "ar"}) : \E k \in DOMAIN File(f).objs : m = [f |-> f, k |-> k]
    BY <1>5
  <2>2. m.f = f /\ m.k \in DOMAIN File(f).objs BY <2>1
  <2>3. o = File(f).objs[m.k] BY <2>2 DEF Object
  <2>4. o \in ObjectFile BY <1>9, <2>2, <2>3
  <2>5. o \in ObjectsOf(world) BY <2>2, <2>3 DEF ObjectsOf, Range, File
  <2>6. Referring(o) BY <1>1, <2>5 DEF PlainWorld
  <2>7. DOMAIN o.syms = 1 .. Len(o.syms) BY <2>4 DEF ObjectFile
  <2>8. global(m) = {s \in Range(o.syms) : s.bind # "LOCAL"} /\ o = w.file[m.f].objs[m.k]
    BY <1>1, <2>2, <2>3 DEF File
  <2>14. /\ world.lib[m].defs = {s.name : s \in {t \in global(m) : t.sec # 0}}
         /\ world.lib[m].refs = {s.name : s \in {t \in global(m) : t.sec = 0}}
    BY <1>6, <1>8
  <2>9. /\ world.lib[m].defs = ObjectDefs(o, Len(o.syms))
        /\ world.lib[m].defs \cup world.lib[m].refs = ObjectGlobals(o, Len(o.syms))
    <3>1. o.syms \in Seq([name : STRING, bind : Binds, sec : Int, vis : Visibilities]) BY <2>4 DEF ObjectFile
    <3> HIDE DEF o
    <3>2. QED BY <2>8, <2>14, <3>1, NamesOf
  <2>11. world.lib[m].offers = Indexed(o) BY <1>6, <1>8, <2>8
  <2>12. Indexed(o) \subseteq ObjectDefs(o, Len(o.syms)) BY <2>7 DEF Indexed, ObjectDefs, Range
  <2>13. QED BY <2>4, <2>5, <2>6, <2>9, <2>11, <2>12
<1>11. LibraryMeans BY <1>5, <1>10 DEF LibraryMeans
<1>12. IndexMeans
  <2>1. SUFFICES ASSUME NEW f \in OfKind(world, {"ar"})
                 PROVE  /\ Len(world.index[f]) \in Nat
                        /\ \A i \in 1 .. Len(world.index[f]) :
                             LET e == world.index[f][i]
                             IN  e.f = f /\ e.k \in DOMAIN File(f).objs /\ e.name \in world.lib[[f |-> f, k |-> e.k]].offers
                        /\ \A k \in DOMAIN File(f).objs : \A n \in world.lib[[f |-> f, k |-> k]].offers :
                             \E i \in 1 .. Len(world.index[f]) : world.index[f][i].name = n
    BY DEF IndexMeans
  <2>2. f \in OfKind(world, {"obj", "ar"}) BY DEF OfKind
  <2>3. ASSUME NEW k \in DOMAIN File(f).objs
        PROVE  world.lib[[f |-> f, k |-> k]].offers = Indexed(File(f).objs[k])
    <3>1. [f |-> f, k |-> k] \in DOMAIN world.lib BY <1>5, <2>2
    <3>2. Object([f |-> f, k |-> k]) = File(f).objs[k] BY DEF Object
    <3>3. QED BY <1>10, <3>1, <3>2
  <2>4. File(f).objs \in Seq(ObjectFile) BY <1>9, <2>2
  <2> DEFINE t == world.index[f]
             objs == File(f).objs
  <2>5. t = ArIndex(f, objs) BY <1>7
  <2> HIDE DEF t, objs
  <2>6. /\ Len(t) \in Nat
        /\ \A i \in 1 .. Len(t) : t[i].f = f /\ t[i].k \in DOMAIN objs /\ t[i].name \in Indexed(objs[t[i].k])
        /\ \A k \in DOMAIN objs : \A n \in Indexed(objs[k]) : \E i \in 1 .. Len(t) : t[i].name = n
    BY <2>4, <2>5, IndexLists DEF objs
  <2>7. \A k \in DOMAIN objs : world.lib[[f |-> f, k |-> k]].offers = Indexed(objs[k]) BY <2>3 DEF objs
  <2>8. QED BY <2>6, <2>7 DEF t, objs
<1>13. QED BY <1>1, <1>11, <1>12 DEF WorldKnown

-----------------------------------------------------------------------------
(* Loading an object file                                                  *)

\* a symbol whose section is not in the program, and the entry of another one
Skipped(o, s) == s.sec > 0 /\ (Discarded(o, s.sec) \/ Ignored(o, s.sec))
EntryOf(o, k, s) ==
    Entry(s, IF s.sec = 0 THEN "UNDEF" ELSE IF s.sec < 0 THEN "COMMON"
             ELSE IF o.secs[s.sec] = "bss" THEN "bss" ELSE "data",
          IF s.sec = 0 THEN <<0, 0>> ELSE <<k, s.sec>>)

\* the entries keep their places, their names, and whether they are local
Stable(T, U) ==
    \A i \in 1 .. Len(T) :
       /\ i <= Len(U) /\ U[i].name = T[i].name
       /\ U[i].bind = "LOCAL" <=> T[i].bind = "LOCAL"
       /\ T[i].bind = "LOCAL" => U[i] = T[i]

SymState(X) == [tab : Seq(X), newUndef : BOOLEAN, twice : SUBSET STRING, index : Nat,
                map : Seq(Nat), once : BOOLEAN]

\* U has the names of T and of the first i symbols of o
WithNames(U, T, o, i) ==
    /\ GlobalNames(U) = GlobalNames(T) \cup ObjectGlobals(o, i)
    /\ DefinedNames(U) = DefinedNames(T) \cup ObjectDefs(o, i)

\* where the first i symbols of o are
MapMeans(o, k, a, i) ==
    /\ Len(a.map) = i
    /\ \A j \in 1 .. i :
          LET s == o.syms[j] IN
          /\ s.bind # "LOCAL" => /\ a.map[j] \in 1 .. Len(a.tab)
                                 /\ a.tab[a.map[j]].name = s.name /\ a.tab[a.map[j]].bind # "LOCAL"
          /\ s.bind = "LOCAL" /\ Skipped(o, s) => a.map[j] = 0
          /\ s.bind = "LOCAL" /\ ~Skipped(o, s) => /\ a.map[j] \in 1 .. Len(a.tab)
                                                   /\ a.tab[a.map[j]] = EntryOf(o, k, s)

\* whether the last of them that is in a section is in one that is discarded
OnceMeans(o, a, i) ==
    a.once = TRUE <=> \E j \in 1 .. i : /\ o.syms[j].sec > 0 /\ Discarded(o, o.syms[j].sec)
                                        /\ \A l \in 1 .. i : l > j => o.syms[l].sec <= 0

\* after i rounds
Added(o, k, a, i) ==
    /\ OneEach(a.tab) /\ Stable(tab, a.tab) /\ WithNames(a.tab, tab, o, i)
    /\ newUndef = TRUE => a.newUndef = TRUE
    /\ a.newUndef = TRUE \/ ObjectDefs(o, i) \cap GlobalNames(tab) \subseteq DefinedNames(tab)
    /\ MapMeans(o, k, a, i) /\ OnceMeans(o, a, i)

Symbol == [name : STRING, bind : Binds, sec : Int, vis : Visibilities]

\* The names of one more symbol of an object
LEMMA NextObjectNames ==
    ASSUME NEW o, NEW i \in Nat \ {0}
    PROVE  LET s == o.syms[i] IN
           /\ ObjectGlobals(o, i) = ObjectGlobals(o, i - 1) \cup {n \in {s.name} : s.bind # "LOCAL"}
           /\ ObjectDefs(o, i) = ObjectDefs(o, i - 1) \cup {n \in {s.name} : s.bind # "LOCAL" /\ s.sec # 0}
<1>1. \A k \in Nat : k \in 1 .. i <=> k \in 1 .. i - 1 \/ k = i OBVIOUS
<1>2. \A k \in 1 .. i : k \in Nat OBVIOUS
<1>3. \A k \in 1 .. i - 1 : k \in Nat OBVIOUS
<1>4. ObjectGlobals(o, i) = ObjectGlobals(o, i - 1) \cup {n \in {o.syms[i].name} : o.syms[i].bind # "LOCAL"}
  BY <1>1, <1>2, <1>3 DEF ObjectGlobals
<1>5. ObjectDefs(o, i) = ObjectDefs(o, i - 1) \cup
                {n \in {o.syms[i].name} : o.syms[i].bind # "LOCAL" /\ o.syms[i].sec # 0}
  BY <1>1, <1>2, <1>3 DEF ObjectDefs
<1>6. QED BY <1>4, <1>5

\* What the entry of a symbol is
LEMMA EntryFields ==
    ASSUME NEW o, NEW k, NEW s
    PROVE  LET e == EntryOf(o, k, s) IN
           /\ e.name = s.name /\ e.bind = s.bind /\ e.vis = s.vis
           /\ e.shndx = "UNDEF" <=> s.sec = 0
           /\ e.at = IF s.sec = 0 THEN <<0, 0>> ELSE <<k, s.sec>>
           /\ GlobalName(e) = {n \in {s.name} : s.bind # "LOCAL"}
           /\ DefinedName(e) = {n \in {s.name} : s.bind # "LOCAL" /\ s.sec # 0}
<1> DEFINE e == EntryOf(o, k, s)
<1>1. /\ e.name = s.name /\ e.bind = s.bind /\ e.vis = s.vis
      /\ e.shndx = "UNDEF" <=> s.sec = 0
      /\ e.at = IF s.sec = 0 THEN <<0, 0>> ELSE <<k, s.sec>>
  BY DEF EntryOf, Entry
<1> HIDE DEF e
<1>2. GlobalName(e) = {n \in {s.name} : s.bind # "LOCAL"} BY <1>1 DEF GlobalName
<1>3. DefinedName(e) = {n \in {s.name} : s.bind # "LOCAL" /\ s.sec # 0} BY <1>1 DEF DefinedName
<1>4. QED BY <1>1, <1>2, <1>3 DEF e

\* Skipping a symbol: the table stays as it is.
LEMMA SkippedNames ==
    ASSUME NEW o, NEW T, NEW U, NEW i \in Nat \ {0}, WithNames(U, T, o, i - 1),
           o.syms[i].bind # "LOCAL" => o.syms[i].name \in DefinedNames(T), DefinedNames(T) \subseteq GlobalNames(T)
    PROVE  WithNames(U, T, o, i)
<1> DEFINE s == o.syms[i]
<1>1. /\ ObjectGlobals(o, i) = ObjectGlobals(o, i - 1) \cup {n \in {s.name} : s.bind # "LOCAL"}
      /\ ObjectDefs(o, i) = ObjectDefs(o, i - 1) \cup {n \in {s.name} : s.bind # "LOCAL" /\ s.sec # 0}
  BY NextObjectNames
<1>2. {n \in {s.name} : s.bind # "LOCAL"} \subseteq GlobalNames(T)
      /\ {n \in {s.name} : s.bind # "LOCAL" /\ s.sec # 0} \subseteq DefinedNames(T)
  OBVIOUS
<1> HIDE DEF s
<1>3. GlobalNames(U) = GlobalNames(T) \cup ObjectGlobals(o, i)
  <2>1. GlobalNames(U) = GlobalNames(T) \cup ObjectGlobals(o, i - 1) BY DEF WithNames
  <2>2. QED BY <1>1, <1>2, <2>1
<1>4. DefinedNames(U) = DefinedNames(T) \cup ObjectDefs(o, i)
  <2>1. DefinedNames(U) = DefinedNames(T) \cup ObjectDefs(o, i - 1) BY DEF WithNames
  <2>2. QED BY <1>1, <1>2, <2>1
<1>5. QED BY <1>3, <1>4 DEF WithNames

\* Names that are defined are names of the table.
LEMMA DefinedAreGlobal == ASSUME NEW T PROVE DefinedNames(T) \subseteq GlobalNames(T)
BY DEF DefinedNames, GlobalNames

\* One entry of a stable table
LEMMA StableAt ==
    ASSUME NEW X, NEW T \in Seq(X), NEW U \in Seq(X), Stable(T, U), NEW y \in 1 .. Len(T)
    PROVE  /\ y \in 1 .. Len(U) /\ U[y].name = T[y].name
           /\ (U[y].bind = "LOCAL" <=> T[y].bind = "LOCAL")
           /\ (T[y].bind = "LOCAL" => U[y] = T[y])
<1>1. Len(T) \in Nat /\ Len(U) \in Nat OBVIOUS
<1>2. y <= Len(U) /\ y >= 1 /\ y \in Nat BY <1>1 DEF Stable
<1>3. QED BY <1>1, <1>2 DEF Stable

\* One more symbol in the map
LEMMA MapMore ==
    ASSUME NEW X, NEW o \in ObjectFile, NEW k, NEW i \in 1 .. Len(o.syms), NEW a \in SymState(X), NEW b \in SymState(X),
           MapMeans(o, k, a, i - 1), Stable(a.tab, b.tab), NEW x \in Nat, b.map = Append(a.map, x),
           LET s == o.syms[i] IN
           /\ s.bind # "LOCAL" => /\ x \in 1 .. Len(b.tab)
                                  /\ b.tab[x].name = s.name /\ b.tab[x].bind # "LOCAL"
           /\ s.bind = "LOCAL" /\ Skipped(o, s) => x = 0
           /\ s.bind = "LOCAL" /\ ~Skipped(o, s) => x \in 1 .. Len(b.tab) /\ b.tab[x] = EntryOf(o, k, s)
    PROVE  MapMeans(o, k, b, i)
<1>1. /\ Len(a.map) = i - 1 /\ a.map \in Seq(Nat) /\ i \in Nat /\ i - 1 \in Nat
      /\ a.tab \in Seq(X) /\ b.tab \in Seq(X) /\ Len(a.tab) \in Nat /\ Len(b.tab) \in Nat
  BY DEF MapMeans, SymState
<1>2. /\ Len(b.map) = i /\ b.map[i] = x /\ \A j \in 1 .. i - 1 : b.map[j] = a.map[j]
  BY <1>1, AppendProperties
<1>3. ASSUME NEW j \in 1 .. i - 1
      PROVE  LET s == o.syms[j] IN
          /\ s.bind # "LOCAL" => /\ b.map[j] \in 1 .. Len(b.tab)
                                 /\ b.tab[b.map[j]].name = s.name /\ b.tab[b.map[j]].bind # "LOCAL"
          /\ s.bind = "LOCAL" /\ Skipped(o, s) => b.map[j] = 0
          /\ s.bind = "LOCAL" /\ ~Skipped(o, s) => /\ b.map[j] \in 1 .. Len(b.tab)
                                                   /\ b.tab[b.map[j]] = EntryOf(o, k, s)
  <2> DEFINE s == o.syms[j]
             y == a.map[j]
  <2>1. b.map[j] = y BY <1>2
  <2>2. /\ s.bind # "LOCAL" => y \in 1 .. Len(a.tab) /\ a.tab[y].name = s.name /\ a.tab[y].bind # "LOCAL"
        /\ s.bind = "LOCAL" /\ Skipped(o, s) => y = 0
        /\ s.bind = "LOCAL" /\ ~Skipped(o, s) => y \in 1 .. Len(a.tab) /\ a.tab[y] = EntryOf(o, k, s)
    BY DEF MapMeans
  <2>4. EntryOf(o, k, s).bind = s.bind BY DEF EntryOf, Entry
  <2> HIDE DEF s, y
  <2>3. ASSUME y \in 1 .. Len(a.tab)
        PROVE  /\ y \in 1 .. Len(b.tab) /\ b.tab[y].name = a.tab[y].name
               /\ (b.tab[y].bind = "LOCAL" <=> a.tab[y].bind = "LOCAL")
               /\ (a.tab[y].bind = "LOCAL" => b.tab[y] = a.tab[y])
    <3> DEFINE T == a.tab
               U == b.tab
    <3>1. T \in Seq(X) /\ U \in Seq(X) /\ Stable(T, U) /\ y \in 1 .. Len(T) BY <1>1, <2>3
    <3> HIDE DEF T, U
    <3>2. /\ y \in 1 .. Len(U) /\ U[y].name = T[y].name
          /\ (U[y].bind = "LOCAL" <=> T[y].bind = "LOCAL")
          /\ (T[y].bind = "LOCAL" => U[y] = T[y])
      BY <3>1, StableAt
    <3>3. QED BY <3>2 DEF T, U
  <2>5. QED BY <2>1, <2>2, <2>3, <2>4 DEF s
<1>4. \A j \in 1 .. i : j \in 1 .. i - 1 \/ j = i BY <1>1
<1>5. QED BY <1>2, <1>3, <1>4 DEF MapMeans

\* One more symbol for the flag link_once
LEMMA OnceMore ==
    ASSUME NEW o \in ObjectFile, NEW i \in 1 .. Len(o.syms), NEW a, NEW b, OnceMeans(o, a, i - 1),
           \/ o.syms[i].sec > 0 /\ (b.once = TRUE <=> Discarded(o, o.syms[i].sec))
           \/ o.syms[i].sec <= 0 /\ b.once = a.once
    PROVE  OnceMeans(o, b, i)
<1>0. o.syms \in Seq(Symbol) BY DEF ObjectFile, Symbol
<1>8. o.syms[i] \in Symbol BY <1>0, ElementOfSeq
<1>1. i \in Nat /\ i - 1 \in Nat /\ o.syms[i].sec \in Int BY <1>0, <1>8 DEF Symbol
<1>2. \A j \in 1 .. i : j \in 1 .. i - 1 \/ j = i BY <1>1
<1>3. \A j \in 1 .. i - 1 : j \in 1 .. i /\ i > j /\ ~(j > i) BY <1>1
<1>4. i \in 1 .. i /\ ~(i > i) BY <1>1
<1>5. CASE o.syms[i].sec > 0 /\ (b.once = TRUE <=> Discarded(o, o.syms[i].sec))
  <2>1. ~(o.syms[i].sec <= 0) BY <1>1, <1>5
  <2>2. \A l \in 1 .. i : ~(l > i) BY <1>2, <1>3, <1>4
  <2>3. QED BY <1>2, <1>3, <1>4, <1>5, <2>1, <2>2 DEF OnceMeans
<1>6. CASE o.syms[i].sec <= 0 /\ b.once = a.once
  <2>1. ~(o.syms[i].sec > 0) BY <1>1, <1>6
  <2>2. QED BY <1>2, <1>3, <1>4, <1>6, <2>1 DEF OnceMeans
<1>7. QED BY <1>5, <1>6

\* A table is stable when nothing happens,
LEMMA StableRefl == ASSUME NEW X, NEW T \in Seq(X) PROVE Stable(T, T)
BY DEF Stable

\* from one change to the next,
LEMMA StableTrans ==
    ASSUME NEW X, NEW T \in Seq(X), NEW U \in Seq(X), NEW V \in Seq(X), Stable(T, U), Stable(U, V)
    PROVE  Stable(T, V)
<1>1. SUFFICES ASSUME NEW i \in 1 .. Len(T)
               PROVE  /\ i <= Len(V) /\ V[i].name = T[i].name
                      /\ V[i].bind = "LOCAL" <=> T[i].bind = "LOCAL"
                      /\ T[i].bind = "LOCAL" => V[i] = T[i]
  BY DEF Stable
<1>2. /\ i \in 1 .. Len(U) /\ U[i].name = T[i].name
      /\ (U[i].bind = "LOCAL" <=> T[i].bind = "LOCAL")
      /\ (T[i].bind = "LOCAL" => U[i] = T[i])
  BY StableAt
<1>3. /\ i \in 1 .. Len(V) /\ V[i].name = U[i].name
      /\ (V[i].bind = "LOCAL" <=> U[i].bind = "LOCAL")
      /\ (U[i].bind = "LOCAL" => V[i] = U[i])
  BY <1>2, StableAt
<1>4. i <= Len(V) BY <1>3
<1>5. QED BY <1>2, <1>3, <1>4

\* and when a symbol is entered.
LEMMA EnteredStable ==
    ASSUME NEW X, NEW a, NEW b, NEW s, a.tab \in Seq(X), b.tab \in Seq(X), Entered(a, b, s)
    PROVE  Stable(a.tab, b.tab)
<1>1. Len(a.tab) \in Nat /\ Len(b.tab) \in Nat /\ Len(b.tab) \in {Len(a.tab), Len(a.tab) + 1}
  BY DEF Entered
<1>2. ASSUME NEW i \in 1 .. Len(a.tab)
      PROVE  /\ i <= Len(b.tab) /\ b.tab[i].name = a.tab[i].name
             /\ b.tab[i].bind = "LOCAL" <=> a.tab[i].bind = "LOCAL"
             /\ a.tab[i].bind = "LOCAL" => b.tab[i] = a.tab[i]
  <2>1. i <= Len(b.tab) BY <1>1
  <2>2. QED BY <2>1 DEF Entered
<1>3. QED BY <1>2 DEF Stable

\* A symbol that is left out
LEMMA AddSkipped ==
    ASSUME NEW X, NEW o \in ObjectFile, NEW k, NEW i \in 1 .. Len(o.syms), tab \in Seq(X),
           NEW u \in SymState(X), Added(o, k, u, i - 1), NEW b \in SymState(X), NEW x \in Nat,
           b.tab = u.tab, b.newUndef = u.newUndef, b.map = Append(u.map, x), Skipped(o, o.syms[i]),
           b.once = TRUE <=> Discarded(o, o.syms[i].sec),
           o.syms[i].bind # "LOCAL" => /\ o.syms[i].name \in DefinedNames(tab)
                                       /\ x = Lookup(u.tab, o.syms[i].name),
           o.syms[i].bind = "LOCAL" => x = 0
    PROVE  Added(o, k, b, i)
<1> DEFINE s == o.syms[i]
<1>0. i \in Nat \ {0} /\ u.tab \in Seq(X)
  <2>1. Len(o.syms) \in Nat BY DEF ObjectFile
  <2>2. QED BY <2>1 DEF SymState
<1>1. /\ OneEach(u.tab) /\ Stable(tab, u.tab) /\ WithNames(u.tab, tab, o, i - 1)
      /\ newUndef = TRUE => u.newUndef = TRUE
      /\ u.newUndef = TRUE \/ ObjectDefs(o, i - 1) \cap GlobalNames(tab) \subseteq DefinedNames(tab)
      /\ MapMeans(o, k, u, i - 1) /\ OnceMeans(o, u, i - 1)
  BY DEF Added
<1>2. DefinedNames(tab) \subseteq GlobalNames(tab) BY DefinedAreGlobal
<1>3. WithNames(b.tab, tab, o, i) BY <1>0, <1>1, <1>2, SkippedNames
<1>4. ObjectDefs(o, i) = ObjectDefs(o, i - 1) \cup {n \in {s.name} : s.bind # "LOCAL" /\ s.sec # 0}
  BY <1>0, NextObjectNames
<1>5. b.newUndef = TRUE \/ ObjectDefs(o, i) \cap GlobalNames(tab) \subseteq DefinedNames(tab)
  BY <1>1, <1>4
<1>6. s.bind # "LOCAL" => /\ x \in 1 .. Len(b.tab)
                          /\ b.tab[x].name = s.name /\ b.tab[x].bind # "LOCAL"
  <2>1. SUFFICES ASSUME s.bind # "LOCAL"
                 PROVE  x \in 1 .. Len(u.tab) /\ u.tab[x].name = s.name /\ u.tab[x].bind # "LOCAL"
    OBVIOUS
  <2>2. s.name \in GlobalNames(u.tab) BY <1>1, <1>2, <2>1 DEF WithNames
  <2>3. QED BY <1>0, <2>1, <2>2, LookupIs
<1>7. MapMeans(o, k, b, i)
  <2>1. Stable(u.tab, b.tab) BY <1>0, StableRefl
  <2> HIDE DEF s
  <2>2. LET t == o.syms[i] IN
           /\ t.bind # "LOCAL" => /\ x \in 1 .. Len(b.tab)
                                  /\ b.tab[x].name = t.name /\ b.tab[x].bind # "LOCAL"
           /\ t.bind = "LOCAL" /\ Skipped(o, t) => x = 0
           /\ t.bind = "LOCAL" /\ ~Skipped(o, t) => x \in 1 .. Len(b.tab) /\ b.tab[x] = EntryOf(o, k, t)
    BY <1>6 DEF s
  <2>3. QED BY <1>1, <2>1, <2>2, MapMore
<1>8. OnceMeans(o, b, i)
  <2>1. o.syms[i].sec > 0 BY DEF Skipped
  <2>2. QED BY <1>1, <2>1, OnceMore
<1>9. QED BY <1>1, <1>3, <1>5, <1>7, <1>8 DEF Added

\* A symbol that is entered
LEMMA AddEntered ==
    ASSUME NEW X, NEW o \in ObjectFile, NEW k, NEW i \in 1 .. Len(o.syms), tab \in Seq(X),
           NEW u \in SymState(X), Added(o, k, u, i - 1), NEW b \in SymState(X),
           ~Skipped(o, o.syms[i]), Entered(u, b, EntryOf(o, k, o.syms[i])),
           b.map = Append(u.map, b.index),
           b.once = IF o.syms[i].sec > 0 THEN FALSE ELSE u.once
    PROVE  Added(o, k, b, i)
<1> DEFINE s == o.syms[i]
           e == EntryOf(o, k, s)
<1>0. /\ i \in Nat \ {0} /\ u.tab \in Seq(X) /\ b.tab \in Seq(X) /\ b.index \in Nat
      /\ Len(u.tab) \in Nat /\ Len(b.tab) \in Nat
  <2>1. Len(o.syms) \in Nat BY DEF ObjectFile
  <2>2. QED BY <2>1 DEF SymState
<1>1. /\ OneEach(u.tab) /\ Stable(tab, u.tab) /\ WithNames(u.tab, tab, o, i - 1)
      /\ newUndef = TRUE => u.newUndef = TRUE
      /\ u.newUndef = TRUE \/ ObjectDefs(o, i - 1) \cap GlobalNames(tab) \subseteq DefinedNames(tab)
      /\ MapMeans(o, k, u, i - 1) /\ OnceMeans(o, u, i - 1)
  BY DEF Added
<1>2. /\ OneEach(b.tab) /\ Grown(b.tab, u.tab, e)
      /\ DefinedName(e) \cap GlobalNames(u.tab) \subseteq DefinedNames(u.tab) \/ b.newUndef = TRUE
  BY <1>0, <1>1, EnteredNames
<1>3. /\ GlobalName(e) = {n \in {s.name} : s.bind # "LOCAL"}
      /\ DefinedName(e) = {n \in {s.name} : s.bind # "LOCAL" /\ s.sec # 0}
  <2>1. e.name = s.name /\ e.bind = s.bind /\ (e.shndx = "UNDEF" <=> s.sec = 0) BY DEF EntryOf, Entry
  <2> HIDE DEF e, s
  <2>2. GlobalName(e) = {n \in {s.name} : s.bind # "LOCAL"} BY <2>1 DEF GlobalName
  <2>3. DefinedName(e) = {n \in {s.name} : s.bind # "LOCAL" /\ s.sec # 0} BY <2>1 DEF DefinedName
  <2>4. QED BY <2>2, <2>3
<1>4. /\ ObjectGlobals(o, i) = ObjectGlobals(o, i - 1) \cup {n \in {s.name} : s.bind # "LOCAL"}
      /\ ObjectDefs(o, i) = ObjectDefs(o, i - 1) \cup {n \in {s.name} : s.bind # "LOCAL" /\ s.sec # 0}
  BY ONLY <1>0, NextObjectNames DEF s
<1>11. u.newUndef = TRUE => b.newUndef = TRUE BY DEF Entered
<1> HIDE DEF e, s
<1>5. WithNames(b.tab, tab, o, i)
  <2>1. GlobalNames(b.tab) = GlobalNames(tab) \cup ObjectGlobals(o, i)
    <3>1. GlobalNames(u.tab) = GlobalNames(tab) \cup ObjectGlobals(o, i - 1) BY <1>1 DEF WithNames
    <3>2. GlobalNames(b.tab) = GlobalNames(u.tab) \cup GlobalName(e) BY <1>2 DEF Grown
    <3>3. QED BY <1>3, <1>4, <3>1, <3>2
  <2>2. DefinedNames(b.tab) = DefinedNames(tab) \cup ObjectDefs(o, i)
    <3>1. DefinedNames(u.tab) = DefinedNames(tab) \cup ObjectDefs(o, i - 1) BY <1>1 DEF WithNames
    <3>2. DefinedNames(b.tab) = DefinedNames(u.tab) \cup DefinedName(e) BY <1>2 DEF Grown
    <3>3. QED BY <1>3, <1>4, <3>1, <3>2
  <2>3. QED BY <2>1, <2>2 DEF WithNames
<1>6. Stable(u.tab, b.tab) BY <1>0, EnteredStable
<1>7. Stable(tab, b.tab) BY <1>0, <1>1, <1>6, StableTrans
<1>8. b.newUndef = TRUE \/ ObjectDefs(o, i) \cap GlobalNames(tab) \subseteq DefinedNames(tab)
  <2>1. SUFFICES ASSUME b.newUndef # TRUE, NEW n \in ObjectDefs(o, i) \cap GlobalNames(tab), n \notin DefinedNames(tab)
                 PROVE  FALSE
    OBVIOUS
  <2>2. ObjectDefs(o, i - 1) \cap GlobalNames(tab) \subseteq DefinedNames(tab) BY <1>1, <1>11, <2>1
  <2>3. n \in DefinedName(e) /\ n \notin ObjectDefs(o, i - 1) BY <1>3, <1>4, <2>1, <2>2
  <2>4. n \in GlobalNames(u.tab) BY <1>1, <2>1 DEF WithNames
  <2>5. n \in DefinedNames(u.tab) BY <1>2, <2>1, <2>3, <2>4
  <2>6. QED BY <1>1, <2>1, <2>3, <2>5 DEF WithNames
<1>9. MapMeans(o, k, b, i)
  <2>1. /\ b.index \in 1 .. Len(b.tab) /\ b.tab[b.index].name = e.name
        /\ (b.tab[b.index].bind = "LOCAL" <=> e.bind = "LOCAL")
        /\ (b.index <= Len(u.tab) => e.bind # "LOCAL") /\ (b.index > Len(u.tab) => b.tab[b.index] = e)
    BY DEF Entered, e, s
  <2>2. e.name = s.name /\ e.bind = s.bind BY DEF EntryOf, Entry, e
  <2>3. s.bind = "LOCAL" => b.tab[b.index] = e BY <1>0, <2>1, <2>2
  <2>4. LET t == o.syms[i] IN
           /\ t.bind # "LOCAL" => /\ b.index \in 1 .. Len(b.tab)
                                  /\ b.tab[b.index].name = t.name /\ b.tab[b.index].bind # "LOCAL"
           /\ t.bind = "LOCAL" /\ Skipped(o, t) => b.index = 0
           /\ t.bind = "LOCAL" /\ ~Skipped(o, t) => b.index \in 1 .. Len(b.tab) /\ b.tab[b.index] = EntryOf(o, k, t)
    BY <2>1, <2>2, <2>3 DEF s, e
  <2>5. QED BY <1>0, <1>1, <1>6, <2>4, MapMore
<1>10. OnceMeans(o, b, i)
  <2>1. CASE o.syms[i].sec > 0
    <3>1. ~Discarded(o, o.syms[i].sec) /\ b.once = FALSE BY <2>1 DEF Skipped
    <3>2. QED BY <1>1, <2>1, <3>1, OnceMore
  <2>2. CASE ~(o.syms[i].sec > 0)
    <3>1. o.syms[i].sec \in Int
      <4>1. o.syms \in Seq(Symbol) BY DEF ObjectFile, Symbol
      <4>2. o.syms[i] \in Symbol BY <4>1, ElementOfSeq
      <4>3. QED BY <4>2 DEF Symbol
    <3> DEFINE x == o.syms[i].sec
    <3>2. b.once = u.once BY <2>2
    <3>3. x <= 0
      <4>1. x \in Int /\ ~(x > 0) BY <2>2, <3>1
      <4> HIDE DEF x
      <4>2. QED BY <4>1
    <3>4. QED BY <1>1, <3>2, <3>3, OnceMore
  <2>3. QED BY <2>1, <2>2
<1>12. QED BY <1>1, <1>2, <1>5, <1>7, <1>8, <1>9, <1>10, <1>11 DEF Added

\* What the code knows of the names of discarded sections: they are defined.
DiscardedDefined(o) ==
    \A s \in Range(o.syms) : s.bind # "LOCAL" /\ s.sec > 0 /\ Discarded(o, s.sec) => s.name \in DefinedNames(tab)

\* One round of the second pass
LEMMA AddSymbolStep ==
    ASSUME NEW X, VisBlind(X), NEW o \in ObjectFile, Referring(o), DiscardedDefined(o), NEW k,
           NEW i \in 1 .. Len(o.syms), tab \in Seq(X), NEW u \in SymState(X), Added(o, k, u, i - 1),
           ~Skipped(o, o.syms[i]) => EntryOf(o, k, o.syms[i]) \in X
    PROVE  LET b == AddSymbol(o, k, u, o.syms[i]) IN b \in SymState(X) /\ Added(o, k, b, i)
<1> DEFINE s == o.syms[i]
           b == AddSymbol(o, k, u, s)
<1>1. o.syms \in Seq(Symbol) /\ s \in Symbol /\ s \in Range(o.syms)
  <2>1. o.syms \in Seq(Symbol) BY DEF ObjectFile, Symbol
  <2>2. i \in DOMAIN o.syms BY <2>1
  <2>3. QED BY <2>1, <2>2, ElementOfSeq DEF Range
<1>2. s.sec \in Int /\ s.name \in STRING /\ s.bind \in Binds BY <1>1 DEF Symbol
<1>3. /\ u.tab \in Seq(X) /\ u.newUndef \in BOOLEAN /\ u.twice \subseteq STRING /\ u.index \in Nat
      /\ u.map \in Seq(Nat) /\ u.once \in BOOLEAN
      /\ HasTable(u) /\ DOMAIN u = {"tab", "newUndef", "twice", "index", "map", "once"}
  BY DEF SymState, HasTable
<1>4. CASE s.sec > 0 /\ Discarded(o, s.sec)
  <2> DEFINE x == IF s.bind = "LOCAL" THEN 0 ELSE Lookup(u.tab, s.name)
  <2>1. b = [u EXCEPT !.map = Append(u.map, x), !.once = TRUE] BY <1>3, <1>4 DEF AddSymbol, HasTable
  <2>2. x \in Nat
    <3>1. Lookup(u.tab, s.name) = 0 \/ Lookup(u.tab, s.name) \in 1 .. Len(u.tab) BY <1>3, LookupIs
    <3>2. Len(u.tab) \in Nat BY <1>3
    <3>3. Lookup(u.tab, s.name) \in Nat BY <3>1, <3>2
    <3>4. QED BY <3>3
  <2>3. s.bind # "LOCAL" => s.name \in DefinedNames(tab) /\ x = Lookup(u.tab, s.name)
    BY <1>1, <1>4 DEF DiscardedDefined
  <2>4. s.bind = "LOCAL" => x = 0 OBVIOUS
  <2>5. Skipped(o, s) BY <1>4 DEF Skipped
  <2>9. Discarded(o, s.sec) BY <1>4
  <2> HIDE DEF b, x, s
  <2>6. Append(u.map, x) \in Seq(Nat) BY <1>3, <2>2
  <2>7. b \in SymState(X) /\ b.tab = u.tab /\ b.newUndef = u.newUndef /\ b.map = Append(u.map, x) /\ b.once = TRUE
    BY <1>3, <2>1, <2>6 DEF SymState
  <2>8. Added(o, k, b, i) BY <2>2, <2>3, <2>4, <2>5, <2>7, <2>9, AddSkipped DEF s
  <2>10. QED BY <2>7, <2>8 DEF b, s
<1>5. CASE s.sec > 0 /\ ~Discarded(o, s.sec) /\ Ignored(o, s.sec)
  <2>1. b = [u EXCEPT !.map = Append(u.map, 0), !.once = FALSE] BY <1>3, <1>5 DEF AddSymbol, HasTable
  <2>3. s.bind = "LOCAL" BY <1>1, <1>5 DEF Referring, Ignored
  <2>5. Skipped(o, s) BY <1>5 DEF Skipped
  <2>9. ~Discarded(o, s.sec) BY <1>5
  <2> HIDE DEF b, s
  <2>6. Append(u.map, 0) \in Seq(Nat) BY <1>3
  <2>7. b \in SymState(X) /\ b.tab = u.tab /\ b.newUndef = u.newUndef /\ b.map = Append(u.map, 0) /\ b.once = FALSE
    BY <1>3, <2>1, <2>6 DEF SymState
  <2>8. Added(o, k, b, i) BY <2>3, <2>5, <2>7, <2>9, AddSkipped DEF s
  <2>10. QED BY <2>7, <2>8 DEF b, s
<1>6. CASE ~Skipped(o, s)
  <2> DEFINE e == EntryOf(o, k, s)
             c == SetElfSym(u, e)
  <2>1. b = [c EXCEPT !.map = Append(@, c.index), !.once = IF s.sec > 0 THEN FALSE ELSE @]
    BY <1>6 DEF AddSymbol, Skipped, EntryOf
  <2>2. e \in X /\ e.name \in STRING BY <1>2, <1>6 DEF VisBlind
  <2>5. ~Skipped(o, s) BY <1>6
  <2> HIDE DEF b, e
  <2>3. /\ HasTable(c) /\ DOMAIN c = DOMAIN u
        /\ \A x \in DOMAIN u \ {"tab", "newUndef", "twice", "index"} : c[x] = u[x]
        /\ c.tab \in Seq(X) /\ c.newUndef \in BOOLEAN /\ c.twice \subseteq STRING
        /\ Entered(u, c, e)
    BY <1>3, <2>2, VisBlindMerges, SetElfSymEnters
  <2> HIDE DEF c, s
  <2>4. c.index \in Nat /\ c.map = u.map /\ c.once = u.once
    <3>1. c.index \in Nat BY <2>3 DEF Entered
    <3>2. QED BY <1>3, <2>3, <3>1
  <2> DEFINE once2 == IF s.sec > 0 THEN FALSE ELSE u.once
  <2>6. once2 \in BOOLEAN /\ Append(u.map, c.index) \in Seq(Nat)
    <3>1. u.once \in BOOLEAN BY <1>3
    <3>2. once2 \in BOOLEAN BY <3>1, Zenon
    <3>3. Append(u.map, c.index) \in Seq(Nat) BY <1>3, <2>4
    <3>4. QED BY <3>2, <3>3
  <2>7. b = [c EXCEPT !.map = Append(u.map, c.index), !.once = once2] BY <1>3, <2>1, <2>3, <2>4 DEF HasTable
  <2>14. once2 = IF s.sec > 0 THEN FALSE ELSE u.once OBVIOUS
  <2> HIDE DEF once2
  <2>8. /\ b \in SymState(X) /\ b.tab = c.tab /\ b.newUndef = c.newUndef /\ b.index = c.index
        /\ b.map = Append(u.map, c.index) /\ b.once = once2
    BY <1>3, <2>3, <2>4, <2>6, <2>7 DEF SymState, HasTable
  <2>9. Entered(u, b, e) BY <2>3, <2>8 DEF Entered
  <2>10. b.once = IF s.sec > 0 THEN FALSE ELSE u.once BY <2>8, <2>14
  <2>11. b.map = Append(u.map, b.index) BY <2>8
  <2>12. Added(o, k, b, i)
    BY <2>5, <2>8, <2>9, <2>10, <2>11, AddEntered DEF s, e
  <2>13. QED BY <2>8, <2>12 DEF b, s
<1>7. QED BY <1>4, <1>5, <1>6 DEF Skipped

\* The second pass of tcc_load_object_file
LEMMA SymbolsAdded ==
    ASSUME NEW X, VisBlind(X), NEW o \in ObjectFile, Referring(o), DiscardedDefined(o), NEW k,
           tab \in Seq(X), OneEach(tab), newUndef \in BOOLEAN, twice \subseteq STRING,
           \A s \in Range(o.syms) : ~Skipped(o, s) => EntryOf(o, k, s) \in X
    PROVE  Symbols(o, k) \in SymState(X) /\ Added(o, k, Symbols(o, k), Len(o.syms))
<1> DEFINE n == Len(o.syms)
           s == o.syms
           a == [tab |-> tab, newUndef |-> newUndef, twice |-> twice, index |-> 0, map |-> <<>>, once |-> FALSE]
           Step(u, t) == AddSymbol(o, k, u, t)
           After(i) == {b \in SymState(X) : Added(o, k, b, i)}
           Good == [i \in 0 .. n |-> After(i)]
           Round == [i \in 1 .. n |-> [u \in SymState(X) |-> Step(u, s[i])]]
<1>1. n \in Nat /\ \A i \in 1 .. n : s[i] \in Range(s) BY DEF ObjectFile, Range
<1>2. a \in After(0)
  <2>0. <<>> \in Seq(Nat) /\ Len(<<>>) = 0 OBVIOUS
  <2>1. a \in SymState(X)
    <3>1. /\ a.tab \in Seq(X) /\ a.newUndef \in BOOLEAN /\ a.twice \subseteq STRING /\ a.index \in Nat
          /\ a.map \in Seq(Nat) /\ a.once \in BOOLEAN
      BY <2>0
    <3>2. QED BY <2>0 DEF SymState
  <2>2. a.tab = tab /\ a.newUndef = newUndef /\ a.map = <<>> /\ a.once = FALSE OBVIOUS
  <2> HIDE DEF a
  <2>3. ObjectGlobals(o, 0) = {} /\ ObjectDefs(o, 0) = {} BY DEF ObjectGlobals, ObjectDefs
  <2>4. WithNames(a.tab, tab, o, 0) BY <2>2, <2>3 DEF WithNames
  <2>5. MapMeans(o, k, a, 0) BY <2>0, <2>2 DEF MapMeans
  <2>6. OnceMeans(o, a, 0) BY <2>2 DEF OnceMeans
  <2>7. Stable(tab, a.tab) BY <2>2, StableRefl
  <2>9. a.newUndef = TRUE \/ ObjectDefs(o, 0) \cap GlobalNames(tab) \subseteq DefinedNames(tab) BY <2>3
  <2>10. OneEach(a.tab) /\ (newUndef = TRUE => a.newUndef = TRUE) BY <2>2
  <2>11. Added(o, k, a, 0) BY <2>10, <2>7, <2>4, <2>9, <2>5, <2>6 DEF Added
  <2>8. QED BY <2>1, <2>11
<1>3. ASSUME NEW i \in 1 .. n, NEW u \in After(i - 1) PROVE Step(u, s[i]) \in After(i)
  <2>1. u \in SymState(X) /\ Added(o, k, u, i - 1) OBVIOUS
  <2>2. ~Skipped(o, o.syms[i]) => EntryOf(o, k, o.syms[i]) \in X BY <1>1
  <2>3. Step(u, s[i]) \in SymState(X) /\ Added(o, k, Step(u, s[i]), i) BY <2>1, <2>2, AddSymbolStep
  <2>4. QED BY <2>3
<1>4. \A i \in 0 .. n : Good[i] = After(i) OBVIOUS
<1>5. \A i \in 1 .. n : \A u \in SymState(X) : Round[i][u] = Step(u, s[i]) OBVIOUS
<1>6. \A i \in 0 .. n : \A u \in After(i) : u \in SymState(X) OBVIOUS
<1>7. \A b \in After(n) : b \in SymState(X) /\ Added(o, k, b, n) OBVIOUS
<1>18. Symbols(o, k) = ForEach(Step, a, s) BY DEF Symbols
<1> HIDE DEF After, Good, Round, a
<1>8. \A i \in 1 .. n : \A u \in Good[i - 1] : Round[i][u] \in Good[i]
  <2>1. \A i \in 1 .. n : i - 1 \in 0 .. n /\ i \in 0 .. n BY <1>1
  <2> HIDE DEF Step
  <2>2. QED BY <1>3, <1>4, <1>5, <1>6, <2>1
<1>9. a \in Good[0] BY <1>1, <1>2, <1>4
<1>10. PICK f : Loop(f, n, a, Round) /\ \A i \in 0 .. n : f[i] \in Good[i]
  BY <1>1, <1>8, <1>9, LoopExists
<1>13. Symbols(o, k) = (CHOOSE h : h = [i \in 0 .. n |-> IF i = 0 THEN a ELSE Only({Step(u, s[i]) : u \in {h[i - 1]}})])[n]
  BY <1>18 DEF ForEach
<1> HIDE DEF Step
<1>11. f = [i \in 0 .. n |-> IF i = 0 THEN a ELSE Only({Step(u, s[i]) : u \in {f[i - 1]}})]
  <2>1. ASSUME NEW i \in 0 .. n, i # 0
        PROVE  Round[i][f[i - 1]] = Only({Step(u, s[i]) : u \in {f[i - 1]}})
    <3>1. i \in 1 .. n /\ i - 1 \in 0 .. n BY <1>1, <2>1
    <3>2. f[i - 1] \in SymState(X) BY <1>4, <1>6, <1>10, <3>1
    <3>3. Round[i][f[i - 1]] = Step(f[i - 1], s[i]) BY <1>5, <3>1, <3>2
    <3>4. QED BY <3>3 DEF Only
  <2>2. QED BY <1>10, <2>1 DEF Loop
<1> DEFINE after == CHOOSE h : h = [i \in 0 .. n |-> IF i = 0 THEN a ELSE Only({Step(u, s[i]) : u \in {h[i - 1]}})]
<1>12. after = [i \in 0 .. n |-> IF i = 0 THEN a ELSE Only({Step(u, s[i]) : u \in {after[i - 1]}})]
  BY <1>11
<1>19. Symbols(o, k) = after[n] BY <1>13
<1> HIDE DEF after
<1>14. after[0] = a /\ \A i \in 1 .. n : after[i] = Step(after[i - 1], s[i])
  <2>1. \A i \in 1 .. n : i \in 0 .. n /\ i # 0 BY <1>1
  <2>2. 0 \in 0 .. n BY <1>1
  <2>3. QED BY <1>12, <2>1, <2>2 DEF Only
<1>15. \A i \in 0 .. n : after[i] \in Good[i]
  <2>1. ASSUME NEW i \in 1 .. n, after[i - 1] \in Good[i - 1] PROVE after[i] \in Good[i]
    <3>1. i - 1 \in 0 .. n /\ i \in 0 .. n BY <1>1
    <3>2. after[i - 1] \in After(i - 1) BY <1>4, <2>1, <3>1
    <3>3. QED BY <1>3, <1>4, <1>14, <3>1, <3>2
  <2>2. QED BY <1>1, <1>9, <1>14, <2>1, RoundsKeep
<1>16. after[n] \in After(n) BY <1>1, <1>4, <1>15
<1>17. QED BY <1>7, <1>16, <1>19

\* Visibility does not matter for the type of an entry.
LEMMA EntryTypeBlind == VisBlind(EntryType)
<1>1. SUFFICES ASSUME NEW e \in EntryType
               PROVE  /\ e = [x \in DOMAIN e |-> e[x]] /\ {"name", "bind", "shndx", "vis"} \subseteq DOMAIN e
                      /\ e.name \in STRING /\ e.vis \in Visibilities
                      /\ \A v \in Visibilities : [e EXCEPT !.vis = v] \in EntryType
  BY DEF VisBlind
<1>2. QED BY DEF EntryType

\* The entries of an object have this type.
LEMMA EntryTyped ==
    ASSUME NEW o \in ObjectFile, NEW k \in Nat, NEW s \in Range(o.syms) PROVE EntryOf(o, k, s) \in EntryType
<1>1. o.syms \in Seq(Symbol) BY DEF ObjectFile, Symbol
<1>2. s \in Symbol
  <2>1. PICK i \in DOMAIN o.syms : o.syms[i] = s BY DEF Range
  <2>2. QED BY <1>1, <2>1, ElementOfSeq
<1>3. QED BY <1>2 DEF Symbol, EntryOf, Entry, EntryType, Shndxs

\* A link-once section of an object has the globals of the copy that was kept.
LEMMA DiscardedHaveNames ==
    ASSUME WorldKnown, NEW M \in SUBSET DOMAIN world.lib, Tabled(tab, M), OncesKept(once, M), NEW m \in DOMAIN world.lib
    PROVE  DiscardedDefined(Object(m))
<1> DEFINE o == Object(m)
<1>1. SUFFICES ASSUME NEW s \in Range(o.syms), s.bind # "LOCAL", s.sec > 0, Discarded(o, s.sec)
               PROVE  s.name \in DefinedNames(tab)
  BY DEF DiscardedDefined
<1>2. o \in ObjectFile /\ o \in ObjectsOf(world) /\ Referring(o)
  BY DEF WorldKnown, LibraryMeans
<1> DEFINE n == o.secs[s.sec]
<1>3. PICK q \in M : n \in OnceName /\ n \in Range(Object(q).secs) BY <1>1 DEF OncesKept, Discarded
<1> DEFINE p == Object(q)
<1>4. p \in ObjectFile /\ p \in ObjectsOf(world) /\ world.lib[q].defs = ObjectDefs(p, Len(p.syms))
  BY DEF WorldKnown, LibraryMeans
<1>5. s.sec \in DOMAIN o.secs
  <2>1. s.sec \in -1 .. Len(o.secs) BY <1>2 DEF Referring
  <2>2. DOMAIN o.secs = 1 .. Len(o.secs) /\ Len(o.secs) \in Nat BY <1>2 DEF ObjectFile
  <2> DEFINE x == s.sec
  <2>3. x \in -1 .. Len(o.secs) /\ x > 0 BY <1>1, <2>1
  <2> HIDE DEF x
  <2>4. x \in 1 .. Len(o.secs) BY <2>2, <2>3
  <2>5. QED BY <2>2, <2>4 DEF x
<1>6. n \in Range(o.secs) BY <1>5 DEF Range
<1> HIDE DEF o, p, n
<1>7. GlobalsIn(o, n) = GlobalsIn(p, n)
  <2>1. \A o1, p1 \in ObjectsOf(world) : \A n1 \in OnceName \cap Range(o1.secs) \cap Range(p1.secs) :
         GlobalsIn(o1, n1) = GlobalsIn(p1, n1)
    BY DEF WorldKnown, PlainWorld
  <2>2. n \in OnceName \cap Range(o.secs) \cap Range(p.secs) BY <1>3, <1>6 DEF p
  <2>3. QED BY <1>2, <1>4, <2>1, <2>2
<1>8. s.name \in GlobalsIn(o, n) BY <1>1 DEF GlobalsIn, o, n
<1>9. PICK t \in Range(p.syms) : t.bind # "LOCAL" /\ t.sec > 0 /\ t.name = s.name BY <1>7, <1>8 DEF GlobalsIn
<1>10. PICK j \in DOMAIN p.syms : p.syms[j] = t BY DEF Range
<1>11. s.name \in ObjectDefs(p, Len(p.syms))
  <2>1. p.syms \in Seq(Symbol) BY <1>4 DEF ObjectFile, Symbol
  <2>2. DOMAIN p.syms = 1 .. Len(p.syms) BY <2>1
  <2>3. t \in Symbol BY <2>1, <1>10, ElementOfSeq
  <2> DEFINE x == t.sec
  <2>4. x # 0
    <3>1. x \in Int /\ x > 0 BY <1>9, <2>3 DEF Symbol
    <3> HIDE DEF x
    <3>2. QED BY <3>1
  <2>5. j \in 1 .. Len(p.syms) /\ p.syms[j].bind # "LOCAL" /\ p.syms[j].sec # 0 /\ p.syms[j].name = s.name
    BY <1>9, <1>10, <2>2, <2>4
  <2>6. QED BY <2>5 DEF ObjectDefs
<1>12. QED BY <1>4, <1>11 DEF Tabled

\* What loading an object changes
LEMMA LoadObjectDoes ==
    ASSUME WorldKnown, LinkTypes, Tabled(tab, Range(loaded)), OncesKept(once, Range(loaded)),
           NEW m \in DOMAIN world.lib, NEW stk, LoadObject(m, stk)
    PROVE  /\ Range(loaded') = Range(loaded) \cup {m} /\ loaded' \in Seq(DOMAIN world.lib)
           /\ newUndef' \in BOOLEAN /\ twice' \subseteq STRING /\ pc' \in {pc, "failed"}
           /\ stack' = stk \/ (Repeated(stk) # {} /\ stack' = SubSeq(stk, 1, Max(Repeated(stk))))
           /\ Tabled(tab', Range(loaded) \cup {m}) /\ OncesKept(once', Range(loaded) \cup {m})
           /\ newUndef = TRUE => newUndef' = TRUE
           /\ newUndef' = TRUE \/ world.lib[m].defs \cap GlobalNames(tab) \subseteq DefinedNames(tab)
<1> DEFINE o == Object(m)
           k == Len(loaded) + 1
           M == Range(loaded)
           a == Symbols(o, k)
<1>1. loaded \in Seq(DOMAIN world.lib) /\ newUndef \in BOOLEAN /\ twice \subseteq STRING BY DEF LinkTypes
<1>2. k \in Nat BY <1>1
<1>3. M \subseteq DOMAIN world.lib BY <1>1, ElementOfSeq DEF Range
<1>4. /\ o \in ObjectFile /\ Referring(o)
      /\ world.lib[m].defs = ObjectDefs(o, Len(o.syms))
      /\ world.lib[m].defs \cup world.lib[m].refs = ObjectGlobals(o, Len(o.syms))
  BY DEF WorldKnown, LibraryMeans
<1>5. /\ tab' = a.tab /\ newUndef' = a.newUndef /\ twice' = a.twice /\ loaded' = Append(loaded, m)
      /\ pc' \in {pc, "failed"}
      /\ stack' = stk \/ (Repeated(stk) # {} /\ stack' = SubSeq(stk, 1, Max(Repeated(stk))))
      /\ DOMAIN once' = DOMAIN once \cup
             {o.secs[j] : j \in {i \in DOMAIN o.secs : o.secs[i] \in OnceName /\ ~Discarded(o, i)}}
  BY DEF LoadObject
<1>6. DiscardedDefined(o) BY <1>3, DiscardedHaveNames
<1>7. \A s \in Range(o.syms) : EntryOf(o, k, s) \in EntryType BY <1>2, <1>4, EntryTyped
<1>8. tab \in Seq(EntryType) /\ OneEach(tab) BY DEF Tabled
<1> HIDE DEF o, k, a
<1>9. a \in SymState(EntryType) /\ Added(o, k, a, Len(o.syms))
  BY <1>1, <1>2, <1>4, <1>6, <1>7, <1>8, EntryTypeBlind, SymbolsAdded DEF a
<1>10. a.tab \in Seq(EntryType) /\ a.newUndef \in BOOLEAN /\ a.twice \subseteq STRING BY <1>9 DEF SymState
<1>11. /\ OneEach(a.tab) /\ WithNames(a.tab, tab, o, Len(o.syms)) /\ (newUndef = TRUE => a.newUndef = TRUE)
       /\ a.newUndef = TRUE \/ ObjectDefs(o, Len(o.syms)) \cap GlobalNames(tab) \subseteq DefinedNames(tab)
  BY <1>9 DEF Added
<1>12. Range(loaded') = M \cup {m} /\ loaded' \in Seq(DOMAIN world.lib)
  <2>1. /\ loaded' \in Seq(DOMAIN world.lib) /\ Len(loaded') = Len(loaded) + 1 /\ loaded'[Len(loaded) + 1] = m
        /\ \A i \in 1 .. Len(loaded) : loaded'[i] = loaded[i]
    BY <1>1, <1>5, AppendProperties
  <2>2. /\ DOMAIN loaded = 1 .. Len(loaded) /\ DOMAIN loaded' = 1 .. Len(loaded) + 1 /\ Len(loaded) \in Nat BY <1>1, <2>1
  <2>3. \A i \in 1 .. Len(loaded) + 1 : i \in 1 .. Len(loaded) \/ i = Len(loaded) + 1 BY <2>2
  <2>4. \A i \in 1 .. Len(loaded) : i \in 1 .. Len(loaded) + 1 BY <2>2
  <2>5. Len(loaded) + 1 \in 1 .. Len(loaded) + 1 BY <2>2
  <2>6. QED BY <2>1, <2>2, <2>3, <2>4, <2>5 DEF Range
<1>13. GlobalNames(a.tab) = UNION {world.lib[q].defs \cup world.lib[q].refs : q \in M \cup {m}}
  <2>1. GlobalNames(a.tab) = GlobalNames(tab) \cup ObjectGlobals(o, Len(o.syms)) BY <1>11 DEF WithNames
  <2>2. GlobalNames(tab) = UNION {world.lib[q].defs \cup world.lib[q].refs : q \in M} BY DEF Tabled
  <2>3. GlobalNames(a.tab) = (UNION {world.lib[q].defs \cup world.lib[q].refs : q \in M})
                             \cup (world.lib[m].defs \cup world.lib[m].refs)
    BY <1>4, <2>1, <2>2
  <2> DEFINE f == [q \in M \cup {m} |-> world.lib[q].defs \cup world.lib[q].refs]
  <2>4. \A q \in M \cup {m} : f[q] = world.lib[q].defs \cup world.lib[q].refs OBVIOUS
  <2> HIDE DEF f
  <2>5. QED BY <2>3, <2>4
<1>14. DefinedNames(a.tab) = UNION {world.lib[q].defs : q \in M \cup {m}}
  <2>1. DefinedNames(a.tab) = DefinedNames(tab) \cup ObjectDefs(o, Len(o.syms)) BY <1>11 DEF WithNames
  <2>2. DefinedNames(tab) = UNION {world.lib[q].defs : q \in M} BY DEF Tabled
  <2>3. DefinedNames(a.tab) = (UNION {world.lib[q].defs : q \in M}) \cup world.lib[m].defs
    BY <1>4, <2>1, <2>2
  <2>4. QED BY <2>3
<1>15. Tabled(tab', M \cup {m}) BY <1>5, <1>10, <1>11, <1>13, <1>14 DEF Tabled
<1>16. OncesKept(once', M \cup {m})
  <2>1. SUFFICES ASSUME NEW n \in DOMAIN once' PROVE n \in OnceName /\ \E q \in M \cup {m} : n \in Range(Object(q).secs)
    BY DEF OncesKept
  <2>2. CASE n \in DOMAIN once BY <2>2 DEF OncesKept
  <2>3. CASE n \notin DOMAIN once
    <3>1. PICK j \in DOMAIN o.secs : n = o.secs[j] /\ n \in OnceName BY <1>5, <2>1, <2>3
    <3>2. n \in Range(o.secs) BY <3>1 DEF Range
    <3>3. QED BY <3>1, <3>2 DEF o
  <2>4. QED BY <2>2, <2>3
<1>17. newUndef' = TRUE \/ world.lib[m].defs \cap GlobalNames(tab) \subseteq DefinedNames(tab)
  BY <1>4, <1>5, <1>11
<1>18. newUndef = TRUE => newUndef' = TRUE BY <1>5, <1>11
<1>19. QED BY <1>5, <1>10, <1>12, <1>15, <1>16, <1>17, <1>18

-----------------------------------------------------------------------------
(* The stack of calls                                                      *)

SameCall(c, d) == \/ c.k = "cmd" /\ d.k = "cmd"
                  \/ c.k \in {"whole", "script", "dll", "ar"} /\ d.k = c.k /\ d.f = c.f
                  \/ /\ c.k = "list" /\ d.k = "list" /\ d.f = c.f /\ d.l = c.l
                     /\ d.again = TRUE => c.again = TRUE \/ File(c.f).lists[c.l].group = TRUE

\* A frame that has moved on is called by the same one.
LEMMA SameCalls ==
    ASSUME NEW p, NEW c, NEW d, SameCall(c, d), Calls(p, c) PROVE Calls(p, d)
<1>1. CASE p.k = "cmd" BY <1>1 DEF SameCall, Calls
<1>2. CASE p.k = "script" BY <1>2 DEF SameCall, Calls
<1>3. CASE p.k = "list" BY <1>3 DEF SameCall, Calls
<1>4. CASE p.k = "dll" BY <1>4 DEF SameCall, Calls
<1>5. QED BY <1>1, <1>2, <1>3, <1>4 DEF Calls

\* another frame in the place of the last one
LEMMA Replaced ==
    ASSUME NEW S, NEW s \in Seq(S), Called(s), NEW c \in S, SameCall(Last(s), c)
    PROVE  LET t == Append(Front(s), c) IN
           /\ t \in Seq(S) /\ Called(t) /\ Len(t) = Len(s) /\ Last(t) = c /\ t[Len(s)] = c
           /\ \A j \in 1 .. Len(s) : j # Len(s) => t[j] = s[j]
<1> DEFINE n == Len(s)
           t == Append(Front(s), c)
<1>1. n \in Nat /\ n >= 1 /\ Last(s) = s[n] /\ s[1].k = "cmd" /\ \A j \in 2 .. n : Calls(s[j - 1], s[j])
  BY DEF Called, Last
<1>2. /\ Front(s) \in Seq(S) /\ Len(Front(s)) = n - 1 /\ \A j \in 1 .. n - 1 : Front(s)[j] = s[j]
  <2> DEFINE u == SubSeq(s, 1, n - 1)
  <2>1. Front(s) = u BY DEF Front
  <2>2. u \in Seq(S) /\ Len(u) = n - 1 /\ \A j \in 1 .. n - 1 : u[j] = s[j]
    <3>1. \A i \in 1 .. n - 1 : s[i] \in S BY <1>1, ElementOfSeq
    <3>2. CASE n = 1
      <4>1. u = <<>> BY <3>2, SubSeqEmpty
      <4>2. QED BY <3>2, <4>1
    <3>3. CASE n > 1 BY <1>1, <3>3
    <3>4. n = 1 \/ n > 1
      <4>1. n \in Nat /\ n >= 1 BY <1>1
      <4> HIDE DEF n, u, t
      <4>2. QED BY <4>1
    <3> HIDE DEF u
    <3>5. QED BY <3>2, <3>3, <3>4
  <2> HIDE DEF u
  <2>3. QED BY <2>1, <2>2
<1>3. /\ t \in Seq(S) /\ Len(t) = n /\ t[n] = c /\ \A j \in 1 .. n - 1 : t[j] = s[j]
  <2> DEFINE u == Front(s)
  <2>1. u \in Seq(S) /\ Len(u) = n - 1 /\ \A j \in 1 .. n - 1 : u[j] = s[j] BY <1>2
  <2> HIDE DEF u
  <2>2. Append(u, c) \in Seq(S) /\ Len(Append(u, c)) = n /\ Append(u, c)[n] = c
        /\ \A j \in 1 .. n - 1 : Append(u, c)[j] = u[j]
    BY <1>1, <2>1, AppendProperties
  <2>3. t = Append(u, c) BY DEF u
  <2> HIDE DEF t
  <2>4. QED BY <2>1, <2>2, <2>3
<1> HIDE DEF t
<1>4. Last(t) = c BY <1>3 DEF Last
<1>5. \A j \in 1 .. n : j # n => t[j] = s[j] BY <1>1, <1>3
<1>6. Called(t)
  <2>1. t[1].k = "cmd"
    <3>1. CASE n = 1 BY <1>1, <1>3, <3>1 DEF SameCall
    <3>2. CASE n # 1
      <4>1. 1 \in 1 .. n /\ 1 # n BY <1>1, <3>2
      <4> HIDE DEF n
      <4>2. t[1] = s[1] BY <1>5, <4>1
      <4>3. QED BY <1>1, <4>2
    <3>3. QED BY <3>1, <3>2
  <2>2. ASSUME NEW j \in 2 .. n PROVE Calls(t[j - 1], t[j])
    <3>1. j - 1 \in 1 .. n /\ j \in 1 .. n /\ j - 1 # n BY <1>1
    <3>2. t[j - 1] = s[j - 1] BY <1>5, <3>1
    <3>3. CASE j = n BY <1>1, <1>3, <3>2, <3>3, SameCalls
    <3>4. CASE j # n BY <1>1, <1>5, <3>1, <3>2, <3>4
    <3>5. QED BY <3>3, <3>4
  <2>3. QED BY <1>1, <1>3, <2>1, <2>2 DEF Called
<1>7. QED BY <1>3, <1>4, <1>5, <1>6 DEF t

\* a further call
LEMMA Pushed ==
    ASSUME NEW S, NEW s \in Seq(S), Called(s), NEW c \in S, Calls(Last(s), c)
    PROVE  LET t == Append(s, c) IN
           /\ t \in Seq(S) /\ Called(t) /\ Len(t) = Len(s) + 1 /\ Last(t) = c /\ t[Len(s) + 1] = c
           /\ \A j \in 1 .. Len(s) : t[j] = s[j]
<1> DEFINE n == Len(s)
           t == Append(s, c)
<1>1. n \in Nat /\ n >= 1 /\ Last(s) = s[n] /\ s[1].k = "cmd" /\ \A j \in 2 .. n : Calls(s[j - 1], s[j])
  BY DEF Called, Last
<1>2. /\ t \in Seq(S) /\ Len(t) = n + 1 /\ t[n + 1] = c /\ \A j \in 1 .. n : t[j] = s[j]
  BY AppendProperties
<1> HIDE DEF t
<1>3. Last(t) = c BY <1>2 DEF Last
<1>4. Called(t)
  <2>1. t[1].k = "cmd" BY <1>1, <1>2
  <2>2. ASSUME NEW j \in 2 .. n + 1 PROVE Calls(t[j - 1], t[j])
    <3>1. j - 1 \in 1 .. n BY <1>1
    <3>2. t[j - 1] = s[j - 1] BY <1>2, <3>1
    <3>3. CASE j = n + 1
      <4>1. j - 1 = n BY <1>1, <3>3
      <4>2. QED BY <1>1, <1>2, <3>2, <3>3, <4>1
    <3>4. CASE j # n + 1
      <4>1. j \in 2 .. n /\ j \in 1 .. n BY <1>1, <3>4
      <4>2. QED BY <1>1, <1>2, <3>2, <4>1
    <3>5. QED BY <3>3, <3>4
  <2>3. QED BY <1>1, <1>2, <2>1, <2>2 DEF Called
<1>5. QED BY <1>2, <1>3, <1>4 DEF t

\* the end of a call
LEMMA Popped ==
    ASSUME NEW S, NEW s \in Seq(S), Called(s), Len(s) > 1
    PROVE  LET t == Front(s) IN
           /\ t \in Seq(S) /\ Called(t) /\ Len(t) = Len(s) - 1 /\ Last(t) = s[Len(s) - 1]
           /\ \A j \in 1 .. Len(s) - 1 : t[j] = s[j]
<1> DEFINE n == Len(s)
           t == Front(s)
<1>1. n \in Nat /\ n > 1 /\ s[1].k = "cmd" /\ \A j \in 2 .. n : Calls(s[j - 1], s[j])
  BY DEF Called
<1>2. t = SubSeq(s, 1, n - 1) BY DEF Front
<1>3. /\ t \in Seq(S) /\ Len(t) = n - 1 /\ \A j \in 1 .. n - 1 : t[j] = s[j] BY <1>1, <1>2
<1> HIDE DEF t
<1>4. Last(t) = s[n - 1] BY <1>1, <1>3 DEF Last
<1>5. Called(t)
  <2>1. t[1].k = "cmd" BY <1>1, <1>3
  <2>2. ASSUME NEW j \in 2 .. n - 1 PROVE Calls(t[j - 1], t[j])
    <3>1. j - 1 \in 1 .. n - 1 /\ j \in 1 .. n - 1 /\ j \in 2 .. n BY <1>1
    <3>2. QED BY <1>1, <1>3, <3>1
  <2>3. QED BY <1>1, <1>3, <2>1, <2>2 DEF Called
<1>6. QED BY <1>3, <1>4, <1>5 DEF t

\* where in the stack the calls are
LEMMA Positions ==
    ASSUME NEW S, NEW s \in Seq(S), Called(s), NEW j \in 1 .. Len(s)
    PROVE  /\ s[j].k = "cmd" <=> j = 1
           /\ s[j].k \in {"whole", "script"} => j = 2
           /\ s[j].k = "list" => j = 3 /\ s[2].k = "script"
           /\ s[j].k = "ar" => j = Len(s) /\ (j = 2 \/ (j = 4 /\ s[3].k = "list"))
<1>1. Len(s) \in Nat /\ j \in Nat /\ s[1].k = "cmd" /\ \A x \in 2 .. Len(s) : Calls(s[x - 1], s[x])
  BY DEF Called
<1>2. ASSUME NEW x \in 2 .. Len(s) PROVE x - 1 \in 1 .. Len(s) /\ x - 1 >= 1
  BY <1>1
<1>3. \A x \in 2 .. Len(s) :
         /\ s[x].k # "cmd"
         /\ s[x].k \in {"whole", "script"} => s[x - 1].k = "cmd"
         /\ s[x].k = "list" => s[x - 1].k = "script"
         /\ s[x].k = "ar" => s[x - 1].k \in {"cmd", "list"}
         /\ s[x - 1].k # "ar"
  BY <1>1 DEF Calls
<1>4. \A x \in 1 .. Len(s) : s[x].k = "cmd" <=> x = 1
  <2>1. \A x \in 1 .. Len(s) : x = 1 \/ x \in 2 .. Len(s) BY <1>1
  <2>2. QED BY <1>1, <1>3, <2>1
<1>5. \A x \in 1 .. Len(s) : s[x].k \in {"whole", "script"} => x = 2
  <2>1. SUFFICES ASSUME NEW x \in 1 .. Len(s), s[x].k \in {"whole", "script"} PROVE x = 2
    OBVIOUS
  <2>2. x # 1 BY <1>4, <2>1
  <2>3. x \in 2 .. Len(s) /\ x - 1 \in 1 .. Len(s) BY <1>1, <2>2
  <2>4. x - 1 = 1 BY <1>3, <1>4, <2>1, <2>3
  <2>5. QED BY <1>1, <2>4
<1>6. \A x \in 1 .. Len(s) : s[x].k = "list" => x = 3 /\ s[2].k = "script"
  <2>1. SUFFICES ASSUME NEW x \in 1 .. Len(s), s[x].k = "list" PROVE x = 3 /\ s[2].k = "script"
    OBVIOUS
  <2>2. x # 1 BY <1>4, <2>1
  <2>3. x \in 2 .. Len(s) /\ x - 1 \in 1 .. Len(s) BY <1>1, <2>2
  <2>4. s[x - 1].k = "script" BY <1>3, <2>1, <2>3
  <2>5. x - 1 = 2 BY <1>5, <2>3, <2>4
  <2>6. QED BY <1>1, <2>4, <2>5
<1>7. s[j].k = "ar" => j = Len(s) /\ (j = 2 \/ (j = 4 /\ s[3].k = "list"))
  <2>1. SUFFICES ASSUME s[j].k = "ar" PROVE j = Len(s) /\ (j = 2 \/ (j = 4 /\ s[3].k = "list"))
    OBVIOUS
  <2>2. j # 1 BY <1>4, <2>1
  <2>3. j \in 2 .. Len(s) /\ j - 1 \in 1 .. Len(s) BY <1>1, <2>2
  <2>4. s[j - 1].k \in {"cmd", "list"} BY <1>3, <2>1, <2>3
  <2>5. j = Len(s)
    <3>1. SUFFICES ASSUME j # Len(s) PROVE FALSE OBVIOUS
    <3>2. j + 1 \in 2 .. Len(s) /\ (j + 1) - 1 = j BY <1>1, <3>1
    <3>3. s[(j + 1) - 1].k # "ar" BY <1>3, <3>2
    <3>4. QED BY <2>1, <3>2, <3>3
  <2>6. CASE s[j - 1].k = "cmd"
    <3>1. j - 1 = 1 BY <1>4, <2>3, <2>6
    <3>2. j = 2 BY <1>1, <3>1
    <3>3. QED BY <2>5, <3>2
  <2>7. CASE s[j - 1].k = "list"
    <3>1. j - 1 = 3 BY <1>6, <2>3, <2>7
    <3>2. j = 4 BY <1>1, <3>1
    <3>3. QED BY <2>5, <2>7, <3>1, <3>2
  <2>8. QED BY <2>4, <2>6, <2>7
<1>8. QED BY <1>4, <1>5, <1>6, <1>7

-----------------------------------------------------------------------------
(* Every step keeps the invariant                                          *)

\* The parts of the invariant in the next state, when the world is the same
LEMMA SameWorld ==
    ASSUME world' = world
    PROVE  /\ WorldKnown => WorldKnown'
           /\ Frame' = Frame
           /\ Called(stack)' <=> Called(stack')
           /\ Tabled(tab, Range(loaded))' <=> Tabled(tab', Range(loaded'))
           /\ OncesKept(once, Range(loaded))' <=> OncesKept(once', Range(loaded'))
           /\ Exhausted(stack, newUndef, Range(loaded))' <=> Exhausted(stack', newUndef', Range(loaded'))
           /\ Fresh(stack, Range(loaded))' <=> Fresh(stack', Range(loaded'))
<1>1. WorldKnown => WorldKnown'
  BY DEF WorldKnown, LibraryMeans, IndexMeans, Object, File
<1>2. Frame' = Frame BY DEF Frame
<1>3. Called(stack)' <=> Called(stack') BY DEF Called, Calls, File
<1>4. Tabled(tab, Range(loaded))' <=> Tabled(tab', Range(loaded')) BY DEF Tabled
<1>5. OncesKept(once, Range(loaded))' <=> OncesKept(once', Range(loaded')) BY DEF OncesKept, Object, File
<1>6. Exhausted(stack, newUndef, Range(loaded))' <=> Exhausted(stack', newUndef', Range(loaded'))
  BY DEF Exhausted, Missing, Wanted, Members, File
<1>7. Fresh(stack, Range(loaded))' <=> Fresh(stack', Range(loaded')) BY DEF Fresh
<1>8. QED BY <1>1, <1>2, <1>3, <1>4, <1>5, <1>6, <1>7

\* What is to be shown of a step
LEMMA Concluded ==
    ASSUME LInv, world' = world, pc' \in {"load", "bind", "done", "failed"},
           stack' \in Seq(Frame), newUndef' \in BOOLEAN, twice' \subseteq STRING,
           dyn' \in Seq(DllSymbol), OneEach(dyn'), loaded' \in Seq(DOMAIN world.lib), Called(stack'),
           pc' \in {"load", "bind"} => /\ Tabled(tab', Range(loaded')) /\ OncesKept(once', Range(loaded'))
                                       /\ Exhausted(stack', newUndef', Range(loaded'))
                                       /\ Fresh(stack', Range(loaded')),
           pc' = "bind" => Len(stack') = 1
    PROVE  LInv'
<1>1. WorldKnown' BY SameWorld DEF LInv
<1>2. LinkTypes'
  <2>1. OneEach(dyn)' BY DEF OneEach
  <2>2. (stack \in Seq(Frame))' BY SameWorld
  <2>3. QED BY <2>1, <2>2 DEF LinkTypes
<1>3. Called(stack)' BY SameWorld
<1>4. (pc \in {"load", "bind"} => /\ Tabled(tab, Range(loaded)) /\ OncesKept(once, Range(loaded))
                                  /\ Exhausted(stack, newUndef, Range(loaded))
                                  /\ Fresh(stack, Range(loaded)))'
  BY SameWorld
<1>5. QED BY <1>1, <1>2, <1>3, <1>4 DEF LInv

\* What the files of the calls are
LEMMA FramesMean ==
    ASSUME WorldKnown, stack \in Seq(Frame), Called(stack), NEW j \in 1 .. Len(stack)
    PROVE  /\ stack[j].k # "cmd" => stack[j].f \in DOMAIN world.file
           /\ j = 2 => /\ stack[1].i - 1 \in DOMAIN world.cmd /\ stack[2].f = world.cmd[stack[1].i - 1].f
                       /\ stack[2].k = "whole" => world.cmd[stack[1].i - 1].whole
           /\ stack[j].k \in {"whole", "ar"} => File(stack[j].f).kind = "ar"
           /\ stack[j].k \in {"script", "dll"} => File(stack[j].f).kind = stack[j].k
           /\ stack[j].k = "list" => /\ stack[j].f \in OfKind(world, {"script"}) \cap CommandLine(world)
                                     /\ stack[j].l \in DOMAIN File(stack[j].f).lists
                                     /\ stack[j].again = TRUE => File(stack[j].f).lists[stack[j].l].group = TRUE
           /\ j = 4 => /\ stack[3].k = "list"  => stack[3].i - 1 \in DOMAIN File(stack[3].f).lists[stack[3].l].files
                       /\ stack[3].k = "list"  => stack[4].f = File(stack[3].f).lists[stack[3].l].files[stack[3].i - 1]
<1>1. /\ Len(stack) \in Nat /\ stack[1].k = "cmd" /\ \A x \in 2 .. Len(stack) : Calls(stack[x - 1], stack[x])
  BY DEF Called
<1>2. stack[j].k # "cmd" => stack[j].f \in DOMAIN world.file
  <2>1. stack[j] \in Frame BY ElementOfSeq
  <2>2. QED BY <2>1 DEF Frame
<1>3. /\ j = 2 => /\ stack[1].i - 1 \in DOMAIN world.cmd /\ stack[2].f = world.cmd[stack[1].i - 1].f
                  /\ stack[2].k = "whole" => world.cmd[stack[1].i - 1].whole
  <2>1. SUFFICES ASSUME j = 2
                 PROVE /\ stack[1].i - 1 \in DOMAIN world.cmd /\ stack[2].f = world.cmd[stack[1].i - 1].f
                       /\ stack[2].k = "whole" => world.cmd[stack[1].i - 1].whole
    OBVIOUS
  <2>2. 2 \in 2 .. Len(stack) /\ 2 - 1 = 1 BY <1>1, <2>1
  <2>3. Calls(stack[1], stack[2]) BY <1>1, <2>2
  <2>4. QED BY <1>1, <2>3 DEF Calls
<1>4. j = 1 \/ (j \in 2 .. Len(stack) /\ Calls(stack[j - 1], stack[j]) /\ j - 1 \in 1 .. Len(stack))
  <2>1. j = 1 \/ (j \in 2 .. Len(stack) /\ j - 1 \in 1 .. Len(stack)) BY <1>1
  <2>2. QED BY <1>1, <2>1
<1>5. /\ stack[j].k \in {"whole", "ar"} => File(stack[j].f).kind = "ar"
      /\ stack[j].k \in {"script", "dll"} => File(stack[j].f).kind = stack[j].k
  BY <1>1, <1>4 DEF Calls
<1>6. stack[j].k = "list" => /\ stack[j].f \in OfKind(world, {"script"}) \cap CommandLine(world)
                             /\ stack[j].l \in DOMAIN File(stack[j].f).lists
                             /\ stack[j].again = TRUE => File(stack[j].f).lists[stack[j].l].group = TRUE
  <2>1. SUFFICES ASSUME stack[j].k = "list"
                 PROVE  /\ stack[j].f \in OfKind(world, {"script"}) \cap CommandLine(world)
                        /\ stack[j].l \in DOMAIN File(stack[j].f).lists
                        /\ stack[j].again = TRUE => File(stack[j].f).lists[stack[j].l].group = TRUE
    OBVIOUS
  <2>2. j = 3 /\ stack[2].k = "script" BY <2>1, Positions
  <2>3. 2 \in 2 .. Len(stack) /\ 3 \in 2 .. Len(stack) /\ 2 - 1 = 1 /\ 3 - 1 = 2 BY <1>1, <2>2
  <2>4. Calls(stack[1], stack[2]) /\ Calls(stack[2], stack[3]) BY <1>1, <2>3
  <2>5. /\ stack[3].f = stack[2].f /\ stack[3].l \in DOMAIN File(stack[3].f).lists
        /\ stack[3].again = TRUE => File(stack[3].f).lists[stack[3].l].group = TRUE
    BY <2>2, <2>4 DEF Calls
  <2>6. /\ File(stack[2].f).kind = "script" /\ stack[1].i - 1 \in DOMAIN world.cmd
        /\ stack[2].f = world.cmd[stack[1].i - 1].f
    BY <1>1, <2>2, <2>4 DEF Calls
  <2>7. stack[3].f \in DOMAIN world.file BY <1>2, <2>1, <2>2
  <2>8. QED BY <2>2, <2>5, <2>6, <2>7 DEF OfKind, CommandLine, File, Range
<1>7. ASSUME j = 4, stack[3].k = "list"
      PROVE  /\ stack[3].i - 1 \in DOMAIN File(stack[3].f).lists[stack[3].l].files
             /\ stack[4].f = File(stack[3].f).lists[stack[3].l].files[stack[3].i - 1]
  <2>1. 4 \in 2 .. Len(stack) /\ 4 - 1 = 3 BY <1>1, <1>7
  <2>2. Calls(stack[3], stack[4]) BY <1>1, <2>1
  <2>3. QED BY <1>7, <2>2 DEF Calls
<1>8. QED BY <1>2, <1>3, <1>5, <1>6, <1>7

\* tcc_load_dll
LEMMA AddDllKeeps ==
    ASSUME WorldKnown, LinkTypes, NEW f \in OfKind(world, {"dll"}), NEW level, AddDll(f, level)
    PROVE  /\ dyn' \in Seq(DllSymbol) /\ OneEach(dyn') /\ newUndef' \in BOOLEAN
           /\ newUndef = TRUE => newUndef' = TRUE
<1> DEFINE a == [tab |-> dyn, newUndef |-> newUndef, twice |-> {}, index |-> 0]
           b == ForEach(AddDynamic, a, File(f).syms)
<1>1. dyn \in Seq(DllSymbol) /\ OneEach(dyn) /\ newUndef \in BOOLEAN BY DEF LinkTypes
<1>2. CASE {i \in DOMAIN dlls : dlls[i].f = f} # {} BY <1>1, <1>2 DEF AddDll
<1>3. CASE {i \in DOMAIN dlls : dlls[i].f = f} = {}
  <2>1. dyn' = b.tab /\ newUndef' = b.newUndef BY <1>3 DEF AddDll
  <2>2. VisBlind(DllSymbol)
    <3>1. SUFFICES ASSUME NEW e \in DllSymbol
                   PROVE  /\ e = [x \in DOMAIN e |-> e[x]] /\ {"name", "bind", "shndx", "vis"} \subseteq DOMAIN e
                          /\ e.name \in STRING /\ e.vis \in Visibilities
                          /\ \A v \in Visibilities : [e EXCEPT !.vis = v] \in DllSymbol
      BY DEF VisBlind
    <3>2. QED BY DEF DllSymbol
  <2>3. a \in TableOf(DllSymbol) /\ OneEach(a.tab) /\ a.newUndef = newUndef BY <1>1 DEF TableOf
  <2>4. File(f).syms \in Seq(DllSymbol) BY DEF WorldKnown, PlainWorld, WellTyped, File
  <2> HIDE DEF a
  <2>5. b \in TableOf(DllSymbol) /\ OneEach(b.tab) /\ (a.newUndef = TRUE => b.newUndef = TRUE)
    BY <2>2, <2>3, <2>4, AllEntered
  <2> HIDE DEF b
  <2>6. QED BY <2>1, <2>3, <2>5 DEF TableOf
<1>4. QED BY <1>2, <1>3

\* The invariant holds at the beginning.
LEMMA InitInv == ASSUME PlainCode, Init PROVE LInv
<1>1. PICK c \in Code : world = Complete(World(c)) BY DEF Init
<1>2. PlainWorld(World(c)) BY DEF PlainCode
<1> DEFINE w == World(c)
<1> HIDE DEF w
<1>3. WorldKnown
  <2>1. PlainWorld(w) /\ world = Complete(w) BY <1>1, <1>2 DEF w
  <2>2. QED BY <2>1, KnownOnceComplete
<1>4. /\ stack = <<[k |-> "cmd", i |-> 1]>> /\ pc = "load"
      /\ tab = <<>> /\ newUndef = FALSE /\ once = <<>> /\ dyn = <<>> /\ twice = {} /\ loaded = <<>>
  BY DEF Init
<1>5. Len(stack) = 1 /\ stack[1] = [k |-> "cmd", i |-> 1] BY <1>4
<1>6. LinkTypes
  <2>1. [k |-> "cmd", i |-> 1] \in Frame BY DEF Frame
  <2>2. stack \in Seq(Frame) BY <1>4, <2>1
  <2>3. OneEach(dyn) BY <1>4 DEF OneEach
  <2>4. newUndef \in BOOLEAN /\ twice \subseteq STRING BY <1>4
  <2>5. <<>> \in Seq(DllSymbol) /\ <<>> \in Seq(DOMAIN world.lib) OBVIOUS
  <2>6. QED BY <1>4, <2>2, <2>3, <2>4, <2>5 DEF LinkTypes
<1>7. Called(stack) BY <1>5 DEF Called
<1>8. Range(loaded) = {} BY <1>4 DEF Range
<1>9. Tabled(tab, {}) BY <1>4 DEF Tabled, OneEach, GlobalNames, DefinedNames
<1>10. OncesKept(once, {}) BY <1>4 DEF OncesKept
<1>11. Exhausted(stack, newUndef, {})
  <2>1. \A j \in DOMAIN stack : stack[j].k = "cmd" BY <1>4
  <2>2. QED BY <2>1 DEF Exhausted
<1>12. Fresh(stack, {}) BY DEF Fresh
<1>13. QED BY <1>3, <1>4, <1>6, <1>7, <1>8, <1>9, <1>10, <1>11, <1>12 DEF LInv

\* The frame on top, and the one that takes its place
LEMMA TopIs ==
    ASSUME stack \in Seq(Frame), Called(stack)
    PROVE  /\ Len(stack) \in Nat /\ Len(stack) >= 1 /\ top = stack[Len(stack)] /\ top \in Frame
           /\ top.i \in Nat \ {0} /\ stack[1].i \in Nat \ {0}
<1>1. Len(stack) \in Nat /\ Len(stack) >= 1 BY DEF Called
<1>2. top = stack[Len(stack)] BY DEF Last, top
<1>3. Len(stack) \in 1 .. Len(stack) /\ 1 \in 1 .. Len(stack) BY <1>1
<1>4. top \in Frame /\ stack[1] \in Frame BY <1>2, <1>3, ElementOfSeq
<1>5. \A c \in Frame : c.i \in Nat \ {0} BY DEF Frame
<1>6. QED BY <1>1, <1>2, <1>4, <1>5

\* A frame which has come to another place
LEMMA WithI ==
    ASSUME NEW c \in Frame, NEW i \in Nat \ {0}
    PROVE  LET d == [c EXCEPT !.i = i] IN
           /\ d \in Frame /\ SameCall(c, d) /\ d.i = i /\ d.k = c.k
           /\ c.k # "cmd" => d.f = c.f
           /\ c.k = "ar" => d.bound = c.bound
<1>1. CASE c \in [k : {"cmd"}, i : Nat \ {0}] BY <1>1 DEF Frame, SameCall
<1>2. CASE c \in [k : {"whole", "script", "dll"}, f : DOMAIN world.file, i : Nat \ {0}] BY <1>2 DEF Frame, SameCall
<1>3. CASE c \in [k : {"ar"}, f : DOMAIN world.file, i : Nat \ {0}, bound : BOOLEAN] BY <1>3 DEF Frame, SameCall
<1>4. CASE c \in [k : {"list"}, f : DOMAIN world.file, l : Nat, i : Nat \ {0}, again : BOOLEAN]
  BY <1>4 DEF Frame, SameCall
<1>5. QED BY <1>1, <1>2, <1>3, <1>4 DEF Frame

\* and one which remembers whether something was loaded
LEMMA WithBound ==
    ASSUME NEW c \in Frame, c.k = "ar", NEW i \in Nat \ {0}, NEW b \in BOOLEAN
    PROVE  LET d == [c EXCEPT !.i = i, !.bound = b] IN
           d \in Frame /\ SameCall(c, d) /\ d.i = i /\ d.k = "ar" /\ d.f = c.f /\ d.bound = b
<1>1. c \in [k : {"ar"}, f : DOMAIN world.file, i : Nat \ {0}, bound : BOOLEAN] BY DEF Frame
<1>2. QED BY <1>1 DEF Frame, SameCall

\* and one which goes through its group again
LEMMA WithAgain ==
    ASSUME NEW c \in Frame, c.k = "list", File(c.f).lists[c.l].group = TRUE
    PROVE  LET d == [c EXCEPT !.i = 1, !.again = TRUE] IN
           d \in Frame /\ SameCall(c, d) /\ d.i = 1 /\ d.k = "list" /\ d.f = c.f /\ d.l = c.l /\ d.again = TRUE
<1> DEFINE d == [c EXCEPT !.i = 1, !.again = TRUE]
<1>1. c \in [k : {"list"}, f : DOMAIN world.file, l : Nat, i : Nat \ {0}, again : BOOLEAN] BY DEF Frame
<1> DEFINE e == [c EXCEPT !.i = 1]
<1>2. e \in Frame /\ SameCall(c, e) /\ e.i = 1 /\ e.k = "list" /\ e.f = c.f /\ e.l = c.l
  <2>1. e \in [k : {"list"}, f : DOMAIN world.file, l : Nat, i : Nat \ {0}, again : BOOLEAN] BY <1>1
  <2>2. e.i = 1 BY <1>1
  <2>3. e.k = c.k /\ e.f = c.f /\ e.l = c.l BY <1>1
  <2> HIDE DEF e
  <2>4. QED BY <2>1, <2>2, <2>3 DEF Frame, SameCall
<1>3. d = [e EXCEPT !.again = TRUE] BY <1>1
<1> HIDE DEF d, e
<1>4. e \in [k : {"list"}, f : DOMAIN world.file, l : Nat, i : Nat \ {0}, again : BOOLEAN]
  BY ONLY <1>2 DEF Frame
<1>5. d \in [k : {"list"}, f : DOMAIN world.file, l : Nat, i : Nat \ {0}, again : BOOLEAN] BY ONLY <1>3, <1>4
<1>6. d.again = TRUE BY ONLY <1>3, <1>4
<1>7. d.i = e.i /\ d.k = e.k BY ONLY <1>3, <1>4
<1>8. d.f = e.f /\ d.l = e.l BY ONLY <1>3, <1>4
<1>9. d \in Frame BY ONLY <1>5 DEF Frame
<1>10. SameCall(c, d) BY <1>2, <1>7, <1>8 DEF SameCall
<1>11. QED BY <1>2, <1>6, <1>7, <1>8, <1>9, <1>10 DEF d

\* A stack for the stack s whose last frame has been replaced by c
Instead(s, t, c) ==
    /\ t \in Seq(Frame) /\ Called(t) /\ Len(t) = Len(s) /\ Last(t) = c /\ t[Len(s)] = c
    /\ \A j \in 1 .. Len(s) : j # Len(s) => t[j] = s[j]
\* and for one on which c has been pushed
Onto(s, t, c) ==
    /\ t \in Seq(Frame) /\ Called(t) /\ Len(t) = Len(s) + 1 /\ Last(t) = c /\ t[Len(s) + 1] = c
    /\ \A j \in 1 .. Len(s) : t[j] = s[j]

\* The stack when the frame on top has moved on
LEMMA AdvancedIs ==
    ASSUME stack \in Seq(Frame), Called(stack)
    PROVE  LET d == [top EXCEPT !.i = @ + 1] IN
           /\ Instead(stack, Advanced, d)
           /\ d \in Frame /\ d.i = top.i + 1 /\ d.k = top.k
           /\ top.k # "cmd" => d.f = top.f
<1> DEFINE c == top
           i == top.i + 1
           d == [c EXCEPT !.i = i]
<1>1. c \in Frame /\ i \in Nat \ {0} /\ c = Last(stack)
  <2>1. c \in Frame /\ c.i \in Nat BY TopIs
  <2>2. QED BY <2>1 DEF top
<1>2. Advanced = Append(Front(stack), d) BY DEF Advanced, pop
<1>5. d = [top EXCEPT !.i = @ + 1] OBVIOUS
<1> HIDE DEF c, i
<1>3. d \in Frame /\ SameCall(c, d) /\ d.i = i /\ d.k = c.k /\ (c.k # "cmd" => d.f = c.f) BY <1>1, WithI
<1> HIDE DEF d
<1>4. Instead(stack, Append(Front(stack), d), d) BY <1>1, <1>3, Replaced DEF Instead
<1> DEFINE e == [top EXCEPT !.i = @ + 1]
<1>7. d = e BY <1>5
<1> HIDE DEF e
<1>8. Instead(stack, Advanced, e) /\ e \in Frame /\ e.i = top.i + 1 /\ e.k = top.k /\ (top.k # "cmd" => e.f = top.f)
  BY <1>2, <1>3, <1>4, <1>7 DEF c, i
<1>6. QED BY <1>8 DEF e

-----------------------------------------------------------------------------
(* What is known of the searches and of the files named once               *)

\* Searches that have just begun have gone through nothing.
LEMMA NothingSearched ==
    ASSUME NEW s \in Seq(Frame), NEW nu, NEW M, \A j \in 1 .. Len(s) : s[j].k \in {"ar", "list"} => s[j].i = 1
    PROVE  Exhausted(s, nu, M)
<1>1. ASSUME NEW j \in DOMAIN s, s[j].k \in {"ar", "list"}, NEW n, NEW x \in 1 .. n PROVE ~(x < s[j].i)
  <2>1. s[j].i = 1 BY <1>1
  <2>2. QED BY <2>1
<1>2. QED BY <1>1 DEF Exhausted

\* What searches have gone through is kept when only new ones begin.
LEMMA SearchedKept ==
    ASSUME NEW s \in Seq(Frame), NEW t \in Seq(Frame), NEW nu, NEW nu2, NEW M, Exhausted(s, nu, M),
           nu2 = FALSE => nu = FALSE, Last(s).k = "ar" => Last(t).k = "ar",
           \A j \in 1 .. Len(t) : t[j].k \in {"ar", "list"} => t[j].i = 1 \/ (j \in 1 .. Len(s) /\ t[j] = s[j])
    PROVE  Exhausted(t, nu2, M)
<1>1. ASSUME NEW j \in DOMAIN t, t[j].k \in {"ar", "list"}, t[j].i = 1, NEW n, NEW x \in 1 .. n PROVE ~(x < t[j].i)
  <2>1. QED BY <1>1
<1>2. SUFFICES ASSUME NEW j \in DOMAIN t
               PROVE  /\ t[j].k = "ar" /\ ~t[j].bound =>
                           \A x \in 1 .. Len(world.index[t[j].f]) : x < t[j].i => world.index[t[j].f][x].name \notin Missing(M)
                      /\ t[j].k = "list" /\ nu2 = FALSE /\ File(t[j].f).lists[t[j].l].group =>
                           LET fs == File(t[j].f).lists[t[j].l].files IN
                           \A x \in 1 .. Len(fs) :
                              x < t[j].i /\ (x = t[j].i - 1 => Last(t).k # "ar") /\ File(fs[x]).kind = "ar" =>
                                 \A m \in Members(fs[x]) : ~Wanted(m, M)
  BY DEF Exhausted
<1>3. CASE t[j].k \notin {"ar", "list"} BY <1>3
<1>4. CASE t[j].k \in {"ar", "list"} /\ t[j].i = 1 BY <1>1, <1>4
<1>5. CASE j \in DOMAIN s /\ t[j] = s[j] BY <1>5 DEF Exhausted
<1>6. DOMAIN t = 1 .. Len(t) /\ DOMAIN s = 1 .. Len(s) OBVIOUS
<1>7. t[j].k \notin {"ar", "list"} \/ (t[j].k \in {"ar", "list"} /\ t[j].i = 1) \/ (j \in DOMAIN s /\ t[j] = s[j])
  BY <1>6
<1>8. QED BY <1>3, <1>4, <1>5, <1>7

\* What was not loaded is not loaded when nothing is.
LEMMA FreshKept ==
    ASSUME WorldKnown,
           NEW s \in Seq(Frame), NEW t \in Seq(Frame), Called(s), Called(t), NEW M, Fresh(s, M), t[1].i >= s[1].i,
           \A m \in M : Len(t) > 1 /\ t[2].k = "whole" /\ m.f = t[2].f => m.k < t[2].i
    PROVE  Fresh(t, M)
<1>1. s[1] \in Frame /\ t[1] \in Frame
  <2>1. Len(s) \in Nat /\ Len(s) >= 1 /\ Len(t) \in Nat /\ Len(t) >= 1 BY DEF Called
  <2>2. 1 \in 1 .. Len(s) /\ 1 \in 1 .. Len(t) BY <2>1
  <2>3. QED BY <2>2, ElementOfSeq
<1>2. s[1].i \in Nat /\ t[1].i \in Nat BY <1>1 DEF Frame
<1>3. \A x \in DOMAIN world.cmd : x \in Nat
  <2>1. world.cmd \in Seq([f : DOMAIN world.file, whole : BOOLEAN]) BY DEF WorldKnown, PlainWorld, WellTyped
  <2>2. QED BY <2>1
<1>4. \A x \in Nat : x < s[1].i => x < t[1].i BY <1>2
<1>5. QED BY <1>3, <1>4 DEF Fresh

\* The parts of the invariant, for the load phase
LEMMA InvFacts ==
    ASSUME LInv
    PROVE  /\ WorldKnown /\ LinkTypes /\ Called(stack) /\ stack \in Seq(Frame)
           /\ twice \subseteq STRING /\ newUndef \in BOOLEAN /\ dyn \in Seq(DllSymbol) /\ OneEach(dyn)
           /\ loaded \in Seq(DOMAIN world.lib)
           /\ pc = "load" => /\ Tabled(tab, Range(loaded)) /\ OncesKept(once, Range(loaded))
                             /\ Exhausted(stack, newUndef, Range(loaded)) /\ Fresh(stack, Range(loaded))
BY DEF LInv, LinkTypes

\* What the files of a world are
LEMMA FileKinds ==
    ASSUME WorldKnown
    PROVE  /\ world.cmd \in Seq([f : DOMAIN world.file, whole : BOOLEAN])
           /\ \A f \in DOMAIN world.file : File(f).kind \in {"obj", "ar", "script", "dll"}
           /\ \A f \in DOMAIN world.file : File(f).kind = "obj" => [f |-> f, k |-> 1] \in DOMAIN world.lib
           /\ \A f \in DOMAIN world.file : File(f).kind = "ar" =>
                 /\ File(f).objs \in Seq(ObjectFile)
                 /\ \A k \in DOMAIN File(f).objs : [f |-> f, k |-> k] \in DOMAIN world.lib
           /\ \A f \in DOMAIN world.file : File(f).kind = "script" =>
                 File(f).lists \in Seq([group : BOOLEAN, files : Seq(OfKind(world, {"ar", "dll"}))])
           /\ \A f \in DOMAIN world.file : File(f).kind = "dll" =>
                 f \in OfKind(world, {"dll"}) /\ File(f).needed \in Seq(OfKind(world, {"dll"}))
<1>1. WellTyped(world) BY DEF WorldKnown, PlainWorld
<1>2. world.cmd \in Seq([f : DOMAIN world.file, whole : BOOLEAN]) BY <1>1 DEF WellTyped
<1>3. \A f \in DOMAIN world.file : File(f).kind \in {"obj", "ar", "script", "dll"}
  BY <1>1 DEF WellTyped, OfKind, File
<1>4. \A f \in DOMAIN world.file : \A K : File(f).kind \in K => f \in OfKind(world, K) BY DEF OfKind, File
<1>5. \A f \in OfKind(world, {"obj", "ar"}) : \A k \in DOMAIN File(f).objs : [f |-> f, k |-> k] \in DOMAIN world.lib
  BY DEF WorldKnown, LibraryMeans
<1>6. \A f \in DOMAIN world.file : File(f).kind = "obj" => [f |-> f, k |-> 1] \in DOMAIN world.lib
  <2>1. SUFFICES ASSUME NEW f \in DOMAIN world.file, File(f).kind = "obj" PROVE [f |-> f, k |-> 1] \in DOMAIN world.lib
    OBVIOUS
  <2>2. f \in OfKind(world, {"obj"}) /\ f \in OfKind(world, {"obj", "ar"}) BY <1>4, <2>1
  <2>3. File(f).objs \in Seq(ObjectFile) /\ Len(File(f).objs) = 1 BY <1>1, <2>2 DEF WellTyped, File
  <2>4. 1 \in DOMAIN File(f).objs BY <2>3
  <2>5. QED BY <1>5, <2>2, <2>4
<1>7. \A f \in DOMAIN world.file : File(f).kind = "ar" =>
                 /\ File(f).objs \in Seq(ObjectFile)
                 /\ \A k \in DOMAIN File(f).objs : [f |-> f, k |-> k] \in DOMAIN world.lib
  <2>1. \A f \in DOMAIN world.file : File(f).kind = "ar" => f \in OfKind(world, {"ar"}) /\ f \in OfKind(world, {"obj", "ar"})
    BY <1>4
  <2>2. QED BY <1>1, <1>5, <2>1 DEF WellTyped, File
<1>8. \A f \in DOMAIN world.file : File(f).kind = "script" =>
                 File(f).lists \in Seq([group : BOOLEAN, files : Seq(OfKind(world, {"ar", "dll"}))])
  <2>1. \A f \in DOMAIN world.file : File(f).kind = "script" => f \in OfKind(world, {"script"}) BY <1>4
  <2>2. QED BY <1>1, <2>1 DEF WellTyped, File
<1>9. \A f \in DOMAIN world.file : File(f).kind = "dll" =>
                 f \in OfKind(world, {"dll"}) /\ File(f).needed \in Seq(OfKind(world, {"dll"}))
  <2>1. \A f \in DOMAIN world.file : File(f).kind = "dll" => f \in OfKind(world, {"dll"}) BY <1>4
  <2>2. QED BY <1>1, <2>1 DEF WellTyped, File
<1>10. QED BY <1>2, <1>3, <1>6, <1>7, <1>8, <1>9

\* Outside a list no group is gone through again.
LEMMA NoneRepeated ==
    ASSUME NEW s \in Seq(Frame), Called(s), Len(s) < 3 PROVE Repeated(s) = {}
<1>1. DOMAIN s = 1 .. Len(s) /\ Len(s) \in Nat OBVIOUS
<1>2. \A j \in 1 .. Len(s) : j # 3 BY <1>1
<1>3. \A j \in 1 .. Len(s) : s[j].k # "list" BY <1>2, Positions
<1>4. QED BY <1>1, <1>3 DEF Repeated

\* Outside a list the caller goes on, or the program ends.
LEMMA NotCaught ==
    ASSUME LInv, pc = "load", NEW m \in DOMAIN world.lib, NEW stk \in Seq(Frame), LoadObject(m, stk),
           Called(stk), Len(stk) < 3
    PROVE  stack' = stk
<1>1. /\ WorldKnown /\ LinkTypes /\ Tabled(tab, Range(loaded)) /\ OncesKept(once, Range(loaded))
  BY InvFacts
<1>3. Repeated(stk) = {} BY NoneRepeated
<1>4. QED BY <1>1, <1>3, LoadObjectDoes

\* In a list the search of an archive ends, and the group that is gone through
\* again goes on.
LEMMA CaughtIs ==
    ASSUME NEW t \in Seq(Frame), Called(t), Last(t).k = "ar", Repeated(t) # {}
    PROVE  LET s == SubSeq(t, 1, Max(Repeated(t)))
           IN  /\ Len(t) = 4 /\ t[3].k = "list" /\ t[2].k = "script"
               /\ File(t[3].f).lists[t[3].l].group = TRUE
               /\ s = Front(t) /\ s \in Seq(Frame) /\ Called(s) /\ Len(s) = 3 /\ Last(s) = t[3]
               /\ s[1] = t[1] /\ s[2] = t[2] /\ s[3] = t[3]
<1> DEFINE R == Repeated(t)
<1>1. Len(t) \in Nat /\ Len(t) >= 1 /\ DOMAIN t = 1 .. Len(t) /\ Last(t) = t[Len(t)] BY DEF Called, Last
<1>2. PICK j \in DOMAIN t : t[j].k = "list" /\ j \in R BY DEF Repeated
<1>3. \A i \in R : i \in 1 .. Len(t) /\ t[i].k = "list" BY <1>1 DEF Repeated
<1>4. \A i \in R : i = 3 BY <1>3, Positions
<1>5. t[3].k = "list" /\ t[2].k = "script" /\ 3 \in R BY <1>1, <1>2, <1>4, Positions
<1>6. Len(t) = 4
  <2>1. Len(t) \in 1 .. Len(t) /\ t[Len(t)].k = "ar" BY <1>1
  <2>2. Len(t) = 2 \/ Len(t) = 4 BY <2>1, Positions
  <2>3. Len(t) # 2
    <3>1. 3 \in 1 .. Len(t) BY <1>3, <1>5
    <3>2. 3 <= Len(t) BY ONLY <1>1, <3>1
    <3>3. QED BY ONLY <1>1, <3>2
  <2>4. QED BY ONLY <2>2, <2>3
<1>7. t[3].again = TRUE
  <2>1. t[3].again BY <1>5 DEF Repeated
  <2>2. t[3] \in Frame BY <1>1, <1>6, ElementOfSeq
  <2>3. t[3].again \in BOOLEAN BY <1>5, <2>2 DEF Frame
  <2>4. QED BY <2>1, <2>3
<1>14. File(t[3].f).lists[t[3].l].group = TRUE
  <2>1. 3 \in 2 .. Len(t) /\ 3 - 1 = 2 BY <1>6
  <2>2. Calls(t[3 - 1], t[3]) BY <2>1 DEF Called
  <2>3. Calls(t[2], t[3]) BY <2>1, <2>2
  <2>4. QED BY <1>5, <1>7, <2>3 DEF Calls
<1> HIDE DEF R
<1>8. Max(R) = 3
  <2>1. R = {3} BY <1>4, <1>5
  <2>2. 3 >= 3 OBVIOUS
  <2>3. Max({3}) = 3 BY <2>2 DEF Max
  <2>4. QED BY <2>1, <2>3
<1> DEFINE s == SubSeq(t, 1, Max(Repeated(t)))
<1>9. s = Front(t) BY <1>6, <1>8 DEF Front, R
<1>10. Len(t) > 1 /\ Len(t) - 1 = 3 BY <1>6
<1> HIDE DEF s
<1>11. s \in Seq(Frame) /\ Called(s) /\ Len(s) = 3 /\ Last(s) = t[3] /\ \A i \in 1 .. 3 : s[i] = t[i]
  BY <1>9, <1>10, Popped
<1>12. s[1] = t[1] /\ s[2] = t[2] /\ s[3] = t[3] BY <1>11
<1>13. QED BY <1>5, <1>6, <1>9, <1>11, <1>12, <1>14 DEF s

\* A step that loads an object
LEMMA LoadedInv ==
    ASSUME LInv, pc = "load", NEW m \in DOMAIN world.lib, NEW stk, LoadObject(m, stk),
           world' = world, dyn' = dyn,
           stack' \in Seq(Frame), Called(stack'),
           Exhausted(stack', newUndef', Range(loaded) \cup {m}), Fresh(stack', Range(loaded) \cup {m})
    PROVE  LInv'
<1>1. /\ WorldKnown /\ LinkTypes /\ Tabled(tab, Range(loaded)) /\ OncesKept(once, Range(loaded))
      /\ dyn \in Seq(DllSymbol) /\ OneEach(dyn)
  BY InvFacts
<1>2. /\ Range(loaded') = Range(loaded) \cup {m} /\ loaded' \in Seq(DOMAIN world.lib)
      /\ newUndef' \in BOOLEAN /\ twice' \subseteq STRING /\ pc' \in {pc, "failed"}
      /\ Tabled(tab', Range(loaded) \cup {m}) /\ OncesKept(once', Range(loaded) \cup {m})
  BY <1>1, LoadObjectDoes
<1>3. pc' \in {"load", "failed"} BY <1>2
<1>4. Tabled(tab', Range(loaded')) /\ OncesKept(once', Range(loaded')) BY <1>2
<1>5. Exhausted(stack', newUndef', Range(loaded')) /\ Fresh(stack', Range(loaded')) BY <1>2
<1>6. dyn' \in Seq(DllSymbol) /\ OneEach(dyn') BY <1>1
<1>7. QED BY <1>2, <1>3, <1>4, <1>5, <1>6, Concluded

\* A step that does not
LEMMA KeptInv ==
    ASSUME LInv, pc = "load", UNCHANGED <<world, tab, once, twice, loaded>>, newUndef' \in BOOLEAN,
           dyn' \in Seq(DllSymbol), OneEach(dyn'), pc' \in {"load", "bind"}, stack' \in Seq(Frame), Called(stack'),
           Exhausted(stack', newUndef', Range(loaded)), Fresh(stack', Range(loaded)),
           pc' = "bind" => Len(stack') = 1
    PROVE  LInv'
<1>1. /\ Tabled(tab, Range(loaded)) /\ OncesKept(once, Range(loaded))
      /\ twice \subseteq STRING /\ loaded \in Seq(DOMAIN world.lib)
  BY InvFacts
<1>2. loaded' = loaded /\ tab' = tab /\ once' = once /\ twice' = twice /\ world' = world OBVIOUS
<1>4. Tabled(tab', Range(loaded')) /\ OncesKept(once', Range(loaded')) BY <1>1, <1>2
<1>5. Exhausted(stack', newUndef', Range(loaded')) /\ Fresh(stack', Range(loaded')) BY <1>2
<1>6. twice' \subseteq STRING /\ loaded' \in Seq(DOMAIN world.lib) BY <1>1, <1>2
<1>7. QED BY <1>2, <1>4, <1>5, <1>6, Concluded

\* A library is opened, or is known already
LEMMA DllOpenedInv ==
    ASSUME LInv, pc = "load", NEW f \in OfKind(world, {"dll"}), NEW whole, NEW level, NEW stk \in Seq(Frame), Called(stk),
           AddFile(f, whole, level, stk), world' = world, Last(stk).k # "ar",
           \A c \in Frame : c.k = "dll" /\ c.f = f => Calls(Last(stk), c),
           Exhausted(stk, newUndef, Range(loaded)), Fresh(stk, Range(loaded))
    PROVE  LInv'
<1>1. WorldKnown /\ LinkTypes BY InvFacts
<1>2. f \in DOMAIN world.file /\ File(f).kind = "dll" BY DEF OfKind, File
<1>3. /\ AddDll(f, level)
      /\ stack' = IF \E i \in DOMAIN dlls : dlls[i].f = f THEN stk
                  ELSE Append(stk, [k |-> "dll", f |-> f, i |-> 1])
      /\ UNCHANGED <<tab, once, rels, twice, loaded, pc>>
  BY <1>2 DEF AddFile
<1>4. dyn' \in Seq(DllSymbol) /\ OneEach(dyn') /\ newUndef' \in BOOLEAN /\ (newUndef = TRUE => newUndef' = TRUE)
  BY <1>1, <1>3, AddDllKeeps
<1>5. newUndef' = FALSE => newUndef = FALSE BY <1>1, <1>4 DEF LinkTypes
<1>6. pc' \in {"load", "bind"} /\ pc' # "bind" BY <1>3
<1>7. UNCHANGED <<world, tab, once, twice, loaded>> BY <1>3
<1>8. CASE stack' = stk
  <2>1. Exhausted(stack', newUndef', Range(loaded))
    <3>1. Exhausted(stk, newUndef', Range(loaded)) BY <1>5, SearchedKept
    <3>2. QED BY <3>1, <1>8
  <2>2. stack' \in Seq(Frame) /\ Called(stack') /\ Fresh(stack', Range(loaded)) BY <1>8
  <2>3. QED BY <1>4, <1>6, <1>7, <2>1, <2>2, KeptInv
<1>9. CASE stack' = Append(stk, [k |-> "dll", f |-> f, i |-> 1])
  <2> DEFINE c == [k |-> "dll", f |-> f, i |-> 1]
             t == Append(stk, c)
  <2>1. c \in Frame /\ c.k = "dll" /\ c.f = f /\ stack' = t BY <1>2, <1>9 DEF Frame
  <2>2. Calls(Last(stk), c) BY <2>1
  <2> HIDE DEF c
  <2>3. Onto(stk, t, c) BY <2>1, <2>2, Pushed DEF Onto
  <2> HIDE DEF t
  <2>4. /\ t \in Seq(Frame) /\ Called(t) /\ Len(t) = Len(stk) + 1 /\ t[Len(stk) + 1] = c
        /\ \A j \in 1 .. Len(stk) : t[j] = stk[j]
    BY <2>3 DEF Onto
  <2>5. Len(stk) \in Nat /\ Len(stk) >= 1 BY DEF Called
  <2>6. Exhausted(t, newUndef', Range(loaded))
    <3>1. \A j \in 1 .. Len(t) : j = Len(stk) + 1 \/ j \in 1 .. Len(stk) BY <2>4, <2>5
    <3>2. \A j \in 1 .. Len(t) : t[j].k \in {"ar", "list"} => t[j].i = 1 \/ (j \in 1 .. Len(stk) /\ t[j] = stk[j])
      BY <2>1, <2>4, <3>1
    <3>3. QED BY <1>5, <2>4, <3>2, SearchedKept
  <2>7. Fresh(t, Range(loaded))
    <3>1. t[1] = stk[1] /\ stk[1].i \in Nat
      <4>1. 1 \in 1 .. Len(stk) BY <2>5
      <4>2. stk[1] \in Frame BY <4>1, ElementOfSeq
      <4>3. QED BY <2>4, <4>1, <4>2 DEF Frame
    <3>2. ASSUME NEW m \in Range(loaded), Len(t) > 1, t[2].k = "whole", m.f = t[2].f PROVE m.k < t[2].i
      <4>1. Len(stk) > 1
        <5> DEFINE n == Len(stk)
        <5>1. n \in Nat /\ n >= 1 /\ t[n + 1] = c BY <2>4, <2>5
        <5>2. n # 1
          <6>1. SUFFICES ASSUME n = 1 PROVE FALSE OBVIOUS
          <6>2. t[2] = c BY <5>1, <6>1
          <6>3. QED BY <2>1, <3>2, <6>2
        <5> HIDE DEF n
        <5>3. n > 1 BY <5>1, <5>2
        <5>4. QED BY <5>3 DEF n
      <4>2. t[2] = stk[2] BY <2>4, <2>5, <4>1
      <4>3. QED BY <3>2, <4>1, <4>2 DEF Fresh
    <3>3. t[1].i >= stk[1].i BY <3>1
    <3>4. QED BY <1>1, <2>4, <3>2, <3>3, FreshKept
  <2>8. stack' \in Seq(Frame) /\ Called(stack') BY <2>1, <2>4
  <2>9. Exhausted(stack', newUndef', Range(loaded)) /\ Fresh(stack', Range(loaded)) BY <2>1, <2>6, <2>7
  <2>10. QED BY <1>4, <1>6, <1>7, <2>8, <2>9, KeptInv
<1>10. QED BY <1>3, <1>8, <1>9

\* A step that calls
LEMMA CalledInv ==
    ASSUME LInv, pc = "load", UNCHANGED <<world, tab, once, twice, loaded, dyn, pc>>, newUndef' \in BOOLEAN,
           NEW stk \in Seq(Frame), Called(stk), NEW c \in Frame, Calls(Last(stk), c), stack' = Append(stk, c),
           Onto(stk, Append(stk, c), c) => Exhausted(Append(stk, c), newUndef', Range(loaded)),
           Fresh(stk, Range(loaded)), c.k = "whole" => \A m \in Range(loaded) : m.f # c.f
    PROVE  LInv'
<1> DEFINE t == Append(stk, c)
<1>1. WorldKnown /\ LinkTypes /\ dyn \in Seq(DllSymbol) /\ OneEach(dyn) BY InvFacts
<1>2. Onto(stk, t, c) BY Pushed DEF Onto
<1>3. Exhausted(t, newUndef', Range(loaded)) BY <1>2
<1>9. stack' = t OBVIOUS
<1> HIDE DEF t
<1>4. /\ t \in Seq(Frame) /\ Called(t) /\ Len(t) = Len(stk) + 1 /\ t[Len(stk) + 1] = c
      /\ \A j \in 1 .. Len(stk) : t[j] = stk[j]
  BY <1>2 DEF Onto
<1>5. Len(stk) \in Nat /\ Len(stk) >= 1 BY DEF Called
<1>6. Fresh(t, Range(loaded))
    <3>1. t[1] = stk[1] /\ stk[1].i \in Nat
      <4>1. 1 \in 1 .. Len(stk) BY <1>5
      <4>2. stk[1] \in Frame BY <4>1, ElementOfSeq
      <4>3. QED BY <1>4, <4>1, <4>2 DEF Frame
    <3>2. ASSUME NEW m \in Range(loaded), Len(t) > 1, t[2].k = "whole", m.f = t[2].f PROVE m.k < t[2].i
      <4>1. Len(stk) > 1
        <5> DEFINE n == Len(stk)
        <5>1. n \in Nat /\ n >= 1 /\ t[n + 1] = c BY <1>4, <1>5
        <5>2. n # 1
          <6>1. SUFFICES ASSUME n = 1 PROVE FALSE OBVIOUS
          <6>2. t[2] = c BY <5>1, <6>1
          <6>3. QED BY <3>2, <6>2
        <5> HIDE DEF n
        <5>3. n > 1 BY <5>1, <5>2
        <5>4. QED BY <5>3 DEF n
      <4>2. t[2] = stk[2] BY <1>4, <1>5, <4>1
      <4>3. QED BY <3>2, <4>1, <4>2 DEF Fresh
    <3>3. t[1].i >= stk[1].i BY <3>1
    <3>4. QED BY <1>1, <1>4, <3>2, <3>3, FreshKept
<1>7. pc' \in {"load", "bind"} /\ pc' # "bind" OBVIOUS
<1>8. dyn' \in Seq(DllSymbol) /\ OneEach(dyn') BY <1>1
<1>10. /\ stack' \in Seq(Frame) /\ Called(stack')
       /\ Exhausted(stack', newUndef', Range(loaded)) /\ Fresh(stack', Range(loaded))
  BY <1>3, <1>4, <1>6, <1>9
<1>11. QED BY <1>7, <1>8, <1>10, KeptInv

\* What the members are
LEMMA MemberIs ==
    ASSUME WorldKnown, LinkTypes
    PROVE  /\ Range(loaded) \subseteq DOMAIN world.lib
           /\ \A m \in DOMAIN world.lib : /\ m.k \in Nat /\ m.f \in DOMAIN world.file /\ m = [f |-> m.f, k |-> m.k]
                                         /\ File(m.f).kind \in {"obj", "ar"} /\ m.k \in DOMAIN File(m.f).objs
<1>1. Range(loaded) \subseteq DOMAIN world.lib
  <2>1. loaded \in Seq(DOMAIN world.lib) BY DEF LinkTypes
  <2>2. QED BY <2>1, ElementOfSeq DEF Range
<1>2. ASSUME NEW m \in DOMAIN world.lib
      PROVE  /\ m.k \in Nat /\ m.f \in DOMAIN world.file /\ m = [f |-> m.f, k |-> m.k]
             /\ File(m.f).kind \in {"obj", "ar"} /\ m.k \in DOMAIN File(m.f).objs
  <2>1. PICK f \in OfKind(world, {"obj", "ar"}) : \E k \in DOMAIN File(f).objs : m = [f |-> f, k |-> k]
    BY DEF WorldKnown, LibraryMeans
  <2>2. PICK k \in DOMAIN File(f).objs : m = [f |-> f, k |-> k] BY <2>1
  <2>3. File(f).objs \in Seq(ObjectFile)
    BY DEF WorldKnown, PlainWorld, WellTyped, OfKind, File
  <2>4. k \in Nat BY <2>2, <2>3
  <2>5. QED BY <2>2, <2>4 DEF OfKind, File
<1>3. QED BY <1>1, <1>2

\* A step after which no search goes on
LEMMA FreshAdvanced ==
    ASSUME LInv, pc = "load"
    PROVE  /\ Len(stack) = 1 => /\ Fresh(Advanced, Range(loaded))
                                /\ \A nu : Exhausted(Advanced, nu, Range(loaded))
           /\ Len(stack) > 1 => /\ Advanced[1] = stack[1]
                                /\ Fresh(Advanced, Range(loaded))
<1> DEFINE t == Advanced
           c == [top EXCEPT !.i = @ + 1]
           n == Len(stack)
           M == Range(loaded)
<1>1. WorldKnown /\ stack \in Seq(Frame) /\ Called(stack) /\ Fresh(stack, M) BY InvFacts
<1>2. /\ Instead(stack, t, c) /\ c.i = top.i + 1 /\ c.k = top.k /\ (top.k # "cmd" => c.f = top.f)
  BY <1>1, AdvancedIs
<1>3. n \in Nat /\ n >= 1 /\ top = stack[n] /\ top.i \in Nat /\ stack[1].i \in Nat BY <1>1, TopIs
<1>9. \A m \in M : m.k \in Nat BY MemberIs, InvFacts
<1> HIDE DEF t, c, n, M
<1>4. /\ t \in Seq(Frame) /\ Called(t) /\ Len(t) = n /\ t[n] = c
      /\ \A j \in 1 .. n : j # n => t[j] = stack[j]
  BY <1>2 DEF Instead, n
<1>5. CASE n = 1
  <2>1. t[1].i >= stack[1].i BY <1>2, <1>3, <1>4, <1>5
  <2>2. Fresh(t, M)
    <3>1. ~(Len(t) > 1) BY <1>4, <1>5
    <3>2. \A m \in M : Len(t) > 1 /\ t[2].k = "whole" /\ m.f = t[2].f => m.k < t[2].i BY <3>1
    <3>3. QED BY <1>1, <1>4, <2>1, <3>2, FreshKept
  <2>3. stack[1].k = "cmd" BY <1>1 DEF Called
  <2>4. \A j \in 1 .. Len(t) : t[j].k = "cmd"
    <3>1. \A j \in 1 .. Len(t) : j = 1 BY <1>4, <1>5
    <3>2. t[1].k = "cmd" BY <1>2, <1>3, <1>4, <1>5, <2>3
    <3>3. QED BY <3>1, <3>2
  <2>5. \A nu : Exhausted(t, nu, M) BY <1>4, <2>4, NothingSearched
  <2>6. ~(n > 1) BY <1>5
  <2>7. QED BY <2>2, <2>5, <2>6 DEF t, n, M
<1>6. CASE n > 1
  <2>1. t[1] = stack[1] BY <1>3, <1>4, <1>6
  <2>2. t[1].i >= stack[1].i BY <1>3, <2>1
  <2>3. ASSUME NEW m \in M, Len(t) > 1, t[2].k = "whole", m.f = t[2].f PROVE m.k < t[2].i
    <3>1. Len(stack) > 1 BY <1>6 DEF n
    <3>2. CASE n = 2
      <4>1. t[2] = c BY <1>4, <3>2
      <4>2. stack[2] = top BY <1>3, <3>2
      <4>3. top.k = "whole" /\ m.f = top.f BY <1>2, <2>3, <4>1
      <4>5. m.k < top.i BY <1>1, <2>3, <3>1, <4>2, <4>3 DEF Fresh
      <4>6. m.k \in Nat BY <1>9, <2>3
      <4>7. QED BY <1>2, <1>3, <4>1, <4>5, <4>6
    <3>3. CASE n # 2
      <4>1. t[2] = stack[2] BY <1>3, <1>4, <1>6, <3>3
      <4>2. QED BY <1>1, <2>3, <3>1, <4>1 DEF Fresh
    <3>4. QED BY <3>2, <3>3
  <2>4. Fresh(t, M) BY <1>1, <1>4, <2>2, <2>3, FreshKept
  <2>5. n # 1 BY <1>6
  <2>6. QED BY <2>1, <2>4, <2>5 DEF t, n, M
<1>7. n = 1 \/ n > 1 BY <1>3
<1>8. QED BY <1>5, <1>6, <1>7

\* One more object is loaded.
LEMMA FreshMore ==
    ASSUME NEW t, NEW M, Fresh(t, M), NEW m,
           m.f \in Listed(world) \/ \E x \in DOMAIN world.cmd : x < t[1].i /\ world.cmd[x].f = m.f,
           Len(t) > 1 /\ t[2].k = "whole" /\ m.f = t[2].f => m.k < t[2].i
    PROVE  Fresh(t, M \cup {m})
BY DEF Fresh

\* Binding keeps the invariant.
LEMMA BindExeInv == ASSUME LInv, BindExe PROVE LInv'
<1>1. /\ UNCHANGED <<world, stack, newUndef, once, rels, dyn, dlls, twice, loaded>>
      /\ pc' \in {"failed", "done"}
  BY DEF BindExe
<1>2. /\ pc' \notin {"load", "bind"} /\ pc' # "bind" /\ pc' \in {"load", "bind", "done", "failed"} BY <1>1
<1>3. /\ Called(stack) /\ stack \in Seq(Frame)
      /\ twice \subseteq STRING /\ newUndef \in BOOLEAN /\ dyn \in Seq(DllSymbol) /\ OneEach(dyn)
      /\ loaded \in Seq(DOMAIN world.lib)
  BY InvFacts
<1>4. /\ Called(stack') /\ stack' \in Seq(Frame)
      /\ twice' \subseteq STRING /\ newUndef' \in BOOLEAN /\ dyn' \in Seq(DllSymbol) /\ OneEach(dyn')
      /\ loaded' \in Seq(DOMAIN world.lib)
  BY <1>1, <1>3
<1>5. QED BY <1>1, <1>2, <1>4, Concluded

\* So does the next file of the command line,
LEMMA NextFileInv == ASSUME LInv, NextFile PROVE LInv'
<1> DEFINE M == Range(loaded)
           i == top.i
           t == Advanced
           f == world.cmd[i].f
           whole == world.cmd[i].whole
<1>1. /\ WorldKnown /\ LinkTypes /\ Called(stack) /\ stack \in Seq(Frame) BY InvFacts
<1>2. pc = "load" /\ top.k = "cmd" /\ world' = world BY DEF NextFile, Doing
<1>3. Len(stack) = 1 /\ top = stack[1] /\ i \in Nat \ {0}
  <2>1. Len(stack) \in 1 .. Len(stack) /\ top = stack[Len(stack)] /\ i \in Nat \ {0} BY <1>1, TopIs
  <2>2. Len(stack) = 1 BY <1>1, <1>2, <2>1, Positions
  <2>3. QED BY <2>1, <2>2
<1>4. /\ newUndef \in BOOLEAN /\ dyn \in Seq(DllSymbol) /\ OneEach(dyn)
      /\ Exhausted(stack, newUndef, M) /\ Fresh(stack, M)
  BY <1>2, InvFacts
<1>5. CASE i > Len(world.cmd)
  <2>1. pc' = "bind" /\ UNCHANGED <<stack, symbols, dyn, dlls>>
    <3>1. world.cmd \in Seq([f : DOMAIN world.file, whole : BOOLEAN]) BY <1>1, FileKinds
    <3>2. Len(world.cmd) \in Nat BY <3>1
    <3>3. ~(i <= Len(world.cmd)) BY <1>3, <1>5, <3>2
    <3>4. QED BY <3>3 DEF NextFile
  <2>2. UNCHANGED <<world, tab, once, twice, loaded>> /\ newUndef' = newUndef /\ stack' = stack /\ dyn' = dyn
    BY <1>2, <2>1 DEF symbols
  <2>3. /\ newUndef' \in BOOLEAN /\ dyn' \in Seq(DllSymbol) /\ OneEach(dyn') /\ pc' \in {"load", "bind"}
        /\ stack' \in Seq(Frame) /\ Called(stack') /\ Len(stack') = 1
        /\ Exhausted(stack', newUndef', M) /\ Fresh(stack', M)
    BY <1>1, <1>3, <1>4, <2>1, <2>2
  <2>4. QED BY <1>2, <2>2, <2>3, KeptInv
<1>6. CASE i <= Len(world.cmd)
  <2>1. AddFile(f, whole, 0, t) BY <1>6 DEF NextFile
  <2>2. i \in DOMAIN world.cmd /\ f \in DOMAIN world.file /\ whole \in BOOLEAN
        /\ File(f).kind \in {"obj", "ar", "script", "dll"}
    <3>1. world.cmd \in Seq([f : DOMAIN world.file, whole : BOOLEAN]) BY <1>1, FileKinds
    <3>2. i \in 1 .. Len(world.cmd) BY <1>3, <1>6, <3>1
    <3>3. i \in DOMAIN world.cmd /\ world.cmd[i] \in [f : DOMAIN world.file, whole : BOOLEAN]
      <4> HIDE DEF i
      <4>1. i \in DOMAIN world.cmd BY <3>1, <3>2
      <4>2. QED BY <3>1, <3>2, <4>1, ElementOfSeq
    <3>4. f \in DOMAIN world.file /\ whole \in BOOLEAN BY <3>3
    <3>5. QED BY <1>1, <3>3, <3>4, FileKinds
  <2>3. Fresh(t, M) /\ \A nu : Exhausted(t, nu, M) BY <1>2, <1>3, FreshAdvanced
  <2> DEFINE c == [top EXCEPT !.i = @ + 1]
  <2>4. Instead(stack, t, c) /\ c.i = i + 1 /\ c.k = "cmd" BY <1>1, <1>2, AdvancedIs
  <2> HIDE DEF c, t, f, whole, i
  <2>5. t \in Seq(Frame) /\ Called(t) /\ Len(t) = 1 /\ Last(t) = c /\ t[1] = c BY <1>3, <2>4 DEF Instead
  <2>6. ASSUME NEW d \in Frame, d.k \in {"whole", "ar", "script", "dll"}, d.f = f,
               File(f).kind = IF d.k = "whole" THEN "ar" ELSE d.k, d.k = "whole" => whole = TRUE
        PROVE  Calls(Last(t), d)
    <3>1. c.i - 1 = i BY <1>3, <2>4 DEF i
    <3>2. QED BY <2>2, <2>4, <2>5, <2>6, <3>1 DEF Calls, f, whole
  <2>7. CASE File(f).kind = "obj"
    <3> DEFINE m == [f |-> f, k |-> 1]
    <3>7. LoadObject(m, t) /\ dyn' = dyn BY <2>1, <2>7 DEF AddFile
    <3>2. m \in DOMAIN world.lib BY <1>1, <2>2, <2>7, FileKinds
    <3>8. stack' = t
      <4> HIDE DEF m
      <4>1. Len(t) < 3 BY <2>5
      <4>2. QED BY <1>2, <2>5, <3>2, <3>7, <4>1, NotCaught
    <3>1. LoadObject(m, t) /\ stack' = t /\ dyn' = dyn BY <3>7, <3>8
    <3>3. Fresh(t, M \cup {m})
      <4>1. \E x \in DOMAIN world.cmd : x < t[1].i /\ world.cmd[x].f = m.f
        <5>1. i < t[1].i BY <1>3, <2>4, <2>5 DEF i
        <5>2. QED BY <2>2, <5>1 DEF f
      <4>2. ~(Len(t) > 1) BY <2>5
      <4>3. QED BY <2>3, <4>1, <4>2, FreshMore
    <3>4. Exhausted(t, newUndef', M \cup {m})
      <4>1. \A j \in 1 .. Len(t) : t[j].k = "cmd" BY <2>4, <2>5
      <4>2. QED BY <2>5, <4>1, NothingSearched
    <3> HIDE DEF m
    <3>5. /\ stack' \in Seq(Frame) /\ Called(stack') /\ Exhausted(stack', newUndef', M \cup {m}) /\ Fresh(stack', M \cup {m})
      BY <2>5, <3>1, <3>3, <3>4
    <3>6. QED BY <1>2, <3>1, <3>2, <3>5, LoadedInv
  <2>8. CASE File(f).kind = "dll"
    <3>1. f \in OfKind(world, {"dll"}) BY <1>1, <2>2, <2>8, FileKinds
    <3>2. Last(t).k # "ar" BY <2>4, <2>5
    <3>3. \A d \in Frame : d.k = "dll" /\ d.f = f => Calls(Last(t), d) BY <2>6, <2>8
    <3>4. Exhausted(t, newUndef, M) BY <2>3
    <3>5. QED BY <1>2, <2>1, <2>3, <2>5, <3>1, <3>2, <3>3, <3>4, DllOpenedInv
  <2>9. ASSUME NEW d \in Frame, d.k \in {"whole", "ar", "script"}, d.f = f, d.i = 1,
               File(f).kind = IF d.k = "whole" THEN "ar" ELSE d.k, d.k = "whole" => whole = TRUE,
               stack' = Append(t, d), UNCHANGED <<symbols, dyn, dlls, pc>>
        PROVE  LInv'
    <3>1. Calls(Last(t), d) BY <2>6, <2>9
    <3>2. UNCHANGED <<world, tab, once, twice, loaded, dyn, pc>> /\ newUndef' = newUndef BY <1>2, <2>9 DEF symbols
    <3>3. newUndef' \in BOOLEAN BY <1>4, <3>2
    <3>4. Onto(t, Append(t, d), d) => Exhausted(Append(t, d), newUndef', M)
      <4> DEFINE u == Append(t, d)
      <4>1. SUFFICES ASSUME Onto(t, u, d) PROVE Exhausted(u, newUndef', M)
        OBVIOUS
      <4> HIDE DEF u
      <4>2. u \in Seq(Frame) /\ Len(u) = 2 /\ u[2] = d /\ u[1] = t[1] BY <2>5, <4>1 DEF Onto
      <4>3. \A j \in 1 .. Len(u) : j = 1 \/ j = 2 BY <4>2
      <4>4. \A j \in 1 .. Len(u) : u[j].k \in {"ar", "list"} => u[j].i = 1 BY <2>4, <2>5, <2>9, <4>2, <4>3
      <4>5. QED BY <4>2, <4>4, NothingSearched
    <3>5. ASSUME d.k = "whole", NEW m \in M PROVE m.f # d.f
      <4>1. SUFFICES ASSUME m.f = f PROVE FALSE BY <2>9
      <4>2. NamedOnce(world) BY <1>1 DEF WorldKnown, PlainWorld
      <4>3. world.file[f].kind = "ar" /\ whole = TRUE BY <2>9, <3>5 DEF File
      <4>4. f \notin Listed(world) /\ \A j \in DOMAIN world.cmd : world.cmd[j].f = f => j = i
        BY <2>2, <4>2, <4>3 DEF NamedOnce, f, whole
      <4>5. \E x \in DOMAIN world.cmd : x < stack[1].i /\ world.cmd[x].f = f BY <1>4, <4>1, <4>4 DEF Fresh
      <4>6. i < i BY <1>3, <4>4, <4>5 DEF i
      <4>7. QED BY <1>3, <4>6 DEF i
    <3> HIDE DEF M
    <3>6. \A m \in Range(loaded) : d.k = "whole" => m.f # d.f BY <3>5 DEF M
    <3>7. QED BY <1>2, <2>3, <2>5, <2>9, <3>1, <3>2, <3>3, <3>4, <3>6, CalledInv DEF M
  <2>10. CASE File(f).kind = "ar"
    <3>1. /\ stack' = Append(t, IF whole THEN [k |-> "whole", f |-> f, i |-> 1]
                             ELSE [k |-> "ar", f |-> f, i |-> 1, bound |-> FALSE])
          /\ UNCHANGED <<symbols, dyn, dlls, pc>>
      BY <2>1, <2>10 DEF AddFile
    <3>2. CASE whole = TRUE
      <4> DEFINE d == [k |-> "whole", f |-> f, i |-> 1]
      <4>1. d \in Frame /\ d.k = "whole" /\ d.f = f /\ d.i = 1 BY <2>2 DEF Frame
      <4>2. stack' = Append(t, d) BY <3>1, <3>2
      <4> HIDE DEF d
      <4>3. QED BY <2>9, <2>10, <3>1, <3>2, <4>1, <4>2
    <3>3. CASE whole # TRUE
      <4> DEFINE d == [k |-> "ar", f |-> f, i |-> 1, bound |-> FALSE]
      <4>1. d \in Frame /\ d.k = "ar" /\ d.f = f /\ d.i = 1 BY <2>2 DEF Frame
      <4>4. whole = FALSE BY <2>2, <3>3
      <4>2. stack' = Append(t, d) BY <3>1, <4>4
      <4> HIDE DEF d
      <4>3. QED BY <2>9, <2>10, <3>1, <3>3, <4>1, <4>2
    <3>4. QED BY <3>2, <3>3
  <2>11. CASE File(f).kind = "script"
    <3> DEFINE d == [k |-> "script", f |-> f, i |-> 1]
    <3>1. stack' = Append(t, d) /\ UNCHANGED <<symbols, dyn, dlls, pc>> BY <2>1, <2>11 DEF AddFile
    <3>2. d \in Frame /\ d.k = "script" /\ d.f = f /\ d.i = 1 BY <2>2 DEF Frame
    <3> HIDE DEF d
    <3>3. QED BY <2>9, <2>11, <3>1, <3>2
  <2>12. QED BY <2>2, <2>7, <2>8, <2>10, <2>11
<1>7. i <= Len(world.cmd) \/ i > Len(world.cmd)
  <2>1. world.cmd \in Seq([f : DOMAIN world.file, whole : BOOLEAN]) BY <1>1, FileKinds
  <2>2. Len(world.cmd) \in Nat BY <2>1
  <2>3. QED BY <1>3, <2>2
<1>8. QED BY <1>5, <1>6, <1>7

\* What is known of the top of the stack
LEMMA TopMeans ==
    ASSUME LInv
    PROVE  /\ top.k # "cmd" => top.f \in DOMAIN world.file /\ Len(stack) > 1
           /\ top.k \in {"whole", "script"} => Len(stack) = 2 /\ stack[2] = top /\ stack[1].k = "cmd"
           /\ top.k = "list" => Len(stack) = 3 /\ stack[3] = top /\ stack[2].k = "script"
           /\ top.k = "ar" => \/ Len(stack) = 2 /\ stack[2] = top
                              \/ Len(stack) = 4 /\ stack[4] = top /\ stack[3].k = "list"
           /\ top.k \in {"whole", "ar"} => File(top.f).kind = "ar"
           /\ top.k \in {"script", "dll"} => File(top.f).kind = top.k
<1>1. WorldKnown /\ Called(stack) /\ stack \in Seq(Frame) BY InvFacts
<1>2. Len(stack) \in Nat /\ Len(stack) >= 1 /\ top = stack[Len(stack)] BY <1>1, TopIs
<1>3. Len(stack) \in 1 .. Len(stack) BY <1>2
<1>4. stack[1].k = "cmd" BY <1>1 DEF Called
<1>5. /\ top.k \in {"whole", "ar"} => File(top.f).kind = "ar"
      /\ top.k \in {"script", "dll"} => File(top.f).kind = top.k
      /\ top.k # "cmd" => top.f \in DOMAIN world.file
  BY <1>1, <1>2, <1>3, FramesMean
<1>6. top.k # "cmd" => Len(stack) > 1
  <2>1. SUFFICES ASSUME top.k # "cmd" PROVE Len(stack) > 1 OBVIOUS
  <2> DEFINE n == Len(stack)
  <2>2. n # 1 /\ n \in Nat /\ n >= 1 BY <1>2, <1>4, <2>1
  <2> HIDE DEF n
  <2>3. n > 1 BY <2>2
  <2>4. QED BY <2>3 DEF n
<1>7. top.k \in {"whole", "script"} => Len(stack) = 2 BY <1>1, <1>2, <1>3, Positions
<1>8. top.k = "list" => Len(stack) = 3 /\ stack[2].k = "script" BY <1>1, <1>2, <1>3, Positions
<1>9. top.k = "ar" => Len(stack) = 2 \/ (Len(stack) = 4 /\ stack[3].k = "list") BY <1>1, <1>2, <1>3, Positions
<1>10. /\ top.k \in {"whole", "script"} => Len(stack) = 2 /\ stack[2] = top /\ stack[1].k = "cmd" BY <1>2, <1>4, <1>7
<1>11. top.k = "list" => Len(stack) = 3 /\ stack[3] = top /\ stack[2].k = "script" BY <1>2, <1>8
<1>12. top.k = "ar" => \/ Len(stack) = 2 /\ stack[2] = top
                       \/ Len(stack) = 4 /\ stack[4] = top /\ stack[3].k = "list"
  BY <1>2, <1>9
<1>13. QED BY <1>5, <1>6, <1>10, <1>11, <1>12

\* A step that only ends a call
LEMMA EndedInv ==
    ASSUME LInv, pc = "load", UNCHANGED <<world, tab, once, twice, loaded, dyn, pc>>, newUndef' \in BOOLEAN,
           top.k # "cmd", stack' = pop,
           \A s \in Seq(Frame) : Called(s) /\ Len(s) = Len(stack) - 1 /\ Last(s) = stack[Len(stack) - 1]
                               /\ (\A j \in 1 .. Len(s) : s[j] = stack[j])
              => Exhausted(s, newUndef', Range(loaded))
    PROVE  LInv'
<1> DEFINE t == pop
           n == Len(stack)
           M == Range(loaded)
<1>1. WorldKnown /\ Called(stack) /\ stack \in Seq(Frame) /\ Fresh(stack, M) /\ dyn \in Seq(DllSymbol) /\ OneEach(dyn)
  BY InvFacts
<1>2. n > 1 /\ n \in Nat BY <1>1, TopMeans
<1>3. t \in Seq(Frame) /\ Called(t) /\ Len(t) = n - 1 /\ Last(t) = stack[n - 1] /\ \A j \in 1 .. n - 1 : t[j] = stack[j]
  BY <1>1, <1>2, Popped DEF pop
<1>4. Exhausted(t, newUndef', M) BY <1>3
<1>12. stack[1].i \in Nat BY <1>1, TopIs
<1> HIDE DEF t, n, M
<1>5. t[1] = stack[1] BY <1>2, <1>3
<1>6. t[1].i >= stack[1].i BY <1>5, <1>12
<1>7. ASSUME NEW m \in M, Len(t) > 1, t[2].k = "whole", m.f = t[2].f PROVE m.k < t[2].i
  <2>1. t[2] = stack[2] /\ n > 1 BY <1>2, <1>3, <1>7
  <2>2. QED BY <1>1, <1>7, <2>1 DEF Fresh, n
<1>8. Fresh(t, M) BY <1>1, <1>3, <1>6, <1>7, FreshKept
<1>9. pc' \in {"load", "bind"} /\ pc' # "bind" OBVIOUS
<1>10. /\ stack' \in Seq(Frame) /\ Called(stack') /\ dyn' \in Seq(DllSymbol) /\ OneEach(dyn')
       /\ Exhausted(stack', newUndef', Range(loaded)) /\ Fresh(stack', Range(loaded))
  BY <1>1, <1>3, <1>4, <1>8 DEF t, M
<1>11. QED BY <1>9, <1>10, KeptInv

\* The end of a call when nothing is being searched
LEMMA PlainEnd ==
    ASSUME LInv, pc = "load", UNCHANGED <<world, tab, once, twice, loaded, dyn, pc>>, newUndef' \in BOOLEAN,
           top.k \in {"whole", "script", "list"}, stack' = pop
    PROVE  LInv'
<1>1. Called(stack) /\ stack \in Seq(Frame) BY InvFacts
<1>2. ASSUME NEW s \in Seq(Frame), Len(s) = Len(stack) - 1, \A j \in 1 .. Len(s) : s[j] = stack[j]
      PROVE  Exhausted(s, newUndef', Range(loaded))
  <2>0. stack[1].k = "cmd" BY <1>1 DEF Called
  <2>1. CASE top.k \in {"whole", "script"}
    <3>1. Len(stack) = 2 BY <2>1, TopMeans
    <3>2. Len(s) = 1 BY <1>2, <3>1
    <3>6. 1 \in 1 .. 1 /\ \A j \in 1 .. 1 : j = 1 OBVIOUS
    <3>3. s[1] = stack[1] /\ \A j \in 1 .. Len(s) : j = 1 BY <1>2, <3>2, <3>6, Zenon
    <3>4. \A j \in 1 .. Len(s) : s[j].k \in {"ar", "list"} => s[j].i = 1 BY <2>0, <3>3
    <3>5. QED BY <3>4, NothingSearched
  <2>2. CASE top.k = "list"
    <3>1. Len(stack) = 3 /\ stack[2].k = "script" BY <2>2, TopMeans
    <3>2. Len(s) = 2 BY <1>2, <3>1
    <3>6. 1 \in 1 .. 2 /\ 2 \in 1 .. 2 /\ \A j \in 1 .. 2 : j = 1 \/ j = 2 OBVIOUS
    <3>3. s[1] = stack[1] /\ s[2] = stack[2] /\ \A j \in 1 .. Len(s) : j = 1 \/ j = 2 BY <1>2, <3>2, <3>6, Zenon
    <3>4. \A j \in 1 .. Len(s) : s[j].k \in {"ar", "list"} => s[j].i = 1 BY <2>0, <3>1, <3>3
    <3>5. QED BY <3>4, NothingSearched
  <2>3. QED BY <2>1, <2>2
<1>3. top.k # "cmd" OBVIOUS
<1>4. QED BY <1>2, <1>3, EndedInv

\* the next member of an archive of which everything is taken,
LEMMA WholeArchiveInv == ASSUME LInv, WholeArchive PROVE LInv'
<1> DEFINE M == Range(loaded)
           i == top.i
           t == Advanced
           f == top.f
<1>1. /\ WorldKnown /\ LinkTypes /\ Called(stack) /\ stack \in Seq(Frame) /\ newUndef \in BOOLEAN BY InvFacts
<1>2. pc = "load" /\ top.k = "whole" /\ world' = world /\ dyn' = dyn BY DEF WholeArchive, Doing
<1>3. /\ Len(stack) = 2 /\ stack[2] = top /\ stack[1].k = "cmd"
      /\ f \in DOMAIN world.file /\ File(f).kind = "ar" /\ i \in Nat \ {0}
  BY <1>1, <1>2, TopMeans, TopIs
<1>4. File(f).objs \in Seq(ObjectFile) /\ \A k \in DOMAIN File(f).objs : [f |-> f, k |-> k] \in DOMAIN world.lib
  BY <1>1, <1>3, FileKinds
<1>5. CASE i <= Len(File(f).objs)
  <2> DEFINE m == [f |-> f, k |-> i]
             c == [top EXCEPT !.i = @ + 1]
  <2>1. LoadObject(m, t) BY <1>5 DEF WholeArchive
  <2>2. m \in DOMAIN world.lib
    <3>1. i \in 1 .. Len(File(f).objs) BY <1>3, <1>4, <1>5
    <3>2. i \in DOMAIN File(f).objs BY <1>4, <3>1
    <3>3. QED BY <1>4, <3>2
  <2>3. t[1] = stack[1] /\ Fresh(t, M) BY <1>2, <1>3, FreshAdvanced
  <2>4. Instead(stack, t, c) /\ c.i = i + 1 /\ c.k = "whole" /\ c.f = f BY <1>1, <1>2, AdvancedIs
  <2>5. m.f = f /\ m.k = i OBVIOUS
  <2> HIDE DEF c, t, i, f, m
  <2>6. t \in Seq(Frame) /\ Called(t) /\ Len(t) = 2 /\ t[2] = c BY <1>3, <2>4 DEF Instead
  <2>7. \E x \in DOMAIN world.cmd : x < t[1].i /\ world.cmd[x].f = f
    <3>1. 2 \in 1 .. Len(stack) BY <1>3
    <3>2. stack[1].i - 1 \in DOMAIN world.cmd /\ stack[2].f = world.cmd[stack[1].i - 1].f BY <1>1, <3>1, FramesMean
    <3>3. stack[1].i \in Nat BY <1>1, TopIs
    <3>4. stack[1].i - 1 < stack[1].i BY <3>3
    <3>5. QED BY <1>3, <2>3, <3>2, <3>4 DEF f
  <2>8. m.k < t[2].i BY <1>3, <2>4, <2>5, <2>6
  <2>9. Fresh(t, M \cup {m}) BY <2>3, <2>5, <2>7, <2>8, FreshMore
  <2>10. Exhausted(t, newUndef', M \cup {m})
    <3>1. \A j \in 1 .. Len(t) : j = 1 \/ j = 2 BY <2>6
    <3>2. \A j \in 1 .. Len(t) : t[j].k \in {"ar", "list"} => t[j].i = 1 BY <1>3, <2>3, <2>4, <2>6, <3>1
    <3>3. QED BY <2>6, <3>2, NothingSearched
  <2>13. stack' = t
    <3>1. Len(t) < 3 BY <2>6
    <3>2. QED BY <1>2, <2>1, <2>2, <2>6, <3>1, NotCaught
  <2>11. /\ stack' \in Seq(Frame) /\ Called(stack') /\ Exhausted(stack', newUndef', M \cup {m}) /\ Fresh(stack', M \cup {m})
    BY <2>6, <2>9, <2>10, <2>13
  <2>12. QED BY <1>2, <2>1, <2>2, <2>11, LoadedInv
<1>6. CASE ~(i <= Len(File(f).objs))
  <2>1. stack' = pop /\ UNCHANGED <<symbols, pc>> BY <1>6 DEF WholeArchive
  <2>2. UNCHANGED <<world, tab, once, twice, loaded, dyn, pc>> /\ newUndef' = newUndef BY <1>2, <2>1 DEF symbols
  <2>3. newUndef' \in BOOLEAN BY <1>1, <2>2
  <2>4. QED BY <1>2, <2>1, <2>2, <2>3, PlainEnd
<1>7. QED BY <1>5, <1>6

\* the next list of a script,
LEMMA ScriptInv == ASSUME LInv, Script PROVE LInv'
<1> DEFINE M == Range(loaded)
           i == top.i
           t == Advanced
           f == top.f
<1>1. /\ WorldKnown /\ LinkTypes /\ Called(stack) /\ stack \in Seq(Frame) /\ newUndef \in BOOLEAN BY InvFacts
<1>2. pc = "load" /\ top.k = "script" /\ UNCHANGED <<world, tab, once, twice, loaded, dyn, pc>> BY DEF Script, Doing
<1>3. /\ Len(stack) = 2 /\ stack[2] = top /\ stack[1].k = "cmd"
      /\ f \in DOMAIN world.file /\ File(f).kind = "script" /\ i \in Nat \ {0}
  BY <1>1, <1>2, TopMeans, TopIs
<1>4. File(f).lists \in Seq([group : BOOLEAN, files : Seq(OfKind(world, {"ar", "dll"}))])
  BY <1>1, <1>3, FileKinds
<1>5. CASE i <= Len(File(f).lists)
  <2> DEFINE d == [k |-> "list", f |-> f, l |-> i, i |-> 1, again |-> FALSE]
             c == [top EXCEPT !.i = @ + 1]
  <2>1. newUndef' = FALSE /\ stack' = Append(t, d) BY <1>5 DEF Script
  <2>2. i \in DOMAIN File(f).lists
    <3>1. i \in 1 .. Len(File(f).lists) BY <1>3, <1>4, <1>5
    <3>2. QED BY <1>4, <3>1
  <2>3. t[1] = stack[1] /\ Fresh(t, M) BY <1>2, <1>3, FreshAdvanced
  <2>4. Instead(stack, t, c) /\ c.i = i + 1 /\ c.k = "script" /\ c.f = f BY <1>1, <1>2, AdvancedIs
  <2>5. d \in Frame /\ d.k = "list" /\ d.f = f /\ d.l = i /\ d.i = 1 /\ d.again = FALSE BY <1>3 DEF Frame
  <2> HIDE DEF c, d, t, i, f
  <2>6. t \in Seq(Frame) /\ Called(t) /\ Len(t) = 2 /\ t[2] = c /\ Last(t) = c BY <1>3, <2>4 DEF Instead
  <2>7. Calls(Last(t), d)
    <3>1. c.i - 1 = i BY <1>3, <2>4
    <3>2. QED BY <2>2, <2>4, <2>5, <2>6, <3>1 DEF Calls
  <2>8. ASSUME Onto(t, Append(t, d), d) PROVE Exhausted(Append(t, d), newUndef', M)
    <3> DEFINE u == Append(t, d)
    <3>0. Onto(t, u, d) BY <2>8
    <3> HIDE DEF u
    <3>1. u \in Seq(Frame) /\ Len(u) = 3 /\ u[3] = d /\ u[1] = t[1] /\ u[2] = t[2] BY <2>6, <3>0 DEF Onto
    <3>2. \A j \in 1 .. Len(u) : j = 1 \/ j = 2 \/ j = 3 BY <3>1
    <3>3. \A j \in 1 .. Len(u) : u[j].k \in {"ar", "list"} => u[j].i = 1 BY <1>3, <2>3, <2>4, <2>5, <2>6, <3>1, <3>2
    <3>4. Exhausted(u, newUndef', M) BY <3>1, <3>3, NothingSearched
    <3>5. QED BY <3>4 DEF u
  <2>9. d.k # "whole" /\ newUndef' \in BOOLEAN BY <2>1, <2>5
  <2>10. QED BY <1>2, <2>1, <2>3, <2>5, <2>6, <2>7, <2>8, <2>9, CalledInv
<1>6. CASE ~(i <= Len(File(f).lists))
  <2>1. stack' = pop /\ newUndef' = newUndef BY <1>6 DEF Script
  <2>3. newUndef' \in BOOLEAN BY <1>1, <2>1
  <2>4. QED BY <1>2, <2>1, <2>3, PlainEnd
<1>7. QED BY <1>5, <1>6

\* the end of a list,
LEMMA ListDoneInv == ASSUME LInv, ListDone PROVE LInv'
<1> DEFINE M == Range(loaded)
           f == top.f
<1>1. /\ WorldKnown /\ LinkTypes /\ Called(stack) /\ stack \in Seq(Frame) /\ newUndef \in BOOLEAN
      /\ dyn \in Seq(DllSymbol) /\ OneEach(dyn)
  BY InvFacts
<1>2. pc = "load" /\ top.k = "list" /\ UNCHANGED <<world, tab, once, twice, loaded, dyn, pc>> BY DEF ListDone, Doing
<1>3. Fresh(stack, M) BY <1>2, InvFacts
<1>4. newUndef' = (IF List.group THEN FALSE ELSE newUndef)
      /\ stack' = IF List.group /\ newUndef THEN Append(pop, [top EXCEPT !.i = 1, !.again = TRUE]) ELSE pop
  BY DEF ListDone
<1>5. newUndef' \in BOOLEAN BY <1>1, <1>4
<1>6. CASE stack' = pop BY <1>2, <1>5, <1>6, PlainEnd
<1>7. CASE List.group = TRUE /\ stack' = Append(pop, [top EXCEPT !.i = 1, !.again = TRUE])
  <2> DEFINE c == top
             d == [c EXCEPT !.i = 1, !.again = TRUE]
             t == Append(pop, d)
  <2>0. stack' = t BY <1>7
  <2>1. Len(stack) = 3 /\ stack[3] = top /\ stack[2].k = "script" BY <1>2, TopMeans
  <2>2. c \in Frame /\ c = Last(stack) /\ c.k = "list" /\ stack[1].i \in Nat BY <1>1, <1>2, TopIs DEF top
  <2>12. File(c.f).lists[c.l].group = TRUE BY <1>7 DEF List
  <2> HIDE DEF c
  <2>3. d \in Frame /\ SameCall(c, d) /\ d.i = 1 /\ d.k = c.k BY <2>2, <2>12, WithAgain
  <2> HIDE DEF d
  <2>4. Instead(stack, t, d) BY <1>1, <2>2, <2>3, Replaced DEF Instead, pop
  <2> HIDE DEF t
  <2>9. 1 \in 1 .. 3 /\ 2 \in 1 .. 3 /\ 1 # 3 /\ 2 # 3 /\ \A j \in 1 .. 3 : j = 1 \/ j = 2 \/ j = 3 OBVIOUS
  <2>5. t \in Seq(Frame) /\ Called(t) /\ Len(t) = 3 /\ t[3] = d /\ t[1] = stack[1] /\ t[2] = stack[2]
    BY <2>1, <2>4, <2>9 DEF Instead
  <2>6. Exhausted(t, newUndef', M)
    <3>1. stack[1].k = "cmd" BY <1>1 DEF Called
    <3>2. \A j \in 1 .. Len(t) : t[j].k \in {"ar", "list"} => t[j].i = 1 BY <2>1, <2>3, <2>5, <2>9, <3>1
    <3>3. QED BY <2>5, <3>2, NothingSearched
  <2>7. Fresh(t, M)
    <3>1. t[1].i >= stack[1].i BY <2>2, <2>5
    <3>2. t[2].k # "whole" BY <2>1, <2>5
    <3>3. QED BY <1>1, <1>3, <2>5, <3>1, <3>2, FreshKept
  <2>8. pc' \in {"load", "bind"} /\ pc' # "bind" BY <1>2
  <2>10. /\ stack' \in Seq(Frame) /\ Called(stack') /\ dyn' \in Seq(DllSymbol) /\ OneEach(dyn')
         /\ Exhausted(stack', newUndef', M) /\ Fresh(stack', M)
    BY <1>1, <1>2, <2>0, <2>5, <2>6, <2>7
  <2>11. QED BY <1>2, <1>5, <2>8, <2>10, KeptInv
<1>8. List.group => List.group = TRUE OBVIOUS
<1>9. QED BY <1>4, <1>6, <1>7, <1>8

\* Going on in a library changes nothing for the searches.
LEMMA DllAdvanced ==
    ASSUME LInv, pc = "load", top.k = "dll"
    PROVE  /\ Advanced \in Seq(Frame) /\ Called(Advanced) /\ Fresh(Advanced, Range(loaded))
           /\ Exhausted(Advanced, newUndef, Range(loaded))
           /\ Last(Advanced).k = "dll"
<1> DEFINE M == Range(loaded)
           c == [top EXCEPT !.i = @ + 1]
           t == Advanced
           n == Len(stack)
<1>1. WorldKnown /\ Called(stack) /\ stack \in Seq(Frame) /\ Exhausted(stack, newUndef, M) BY InvFacts
<1>2. Instead(stack, t, c) /\ c.k = "dll" BY <1>1, AdvancedIs
<1>3. Fresh(t, M) BY TopMeans, FreshAdvanced
<1>4. n \in Nat /\ n >= 1 /\ top = stack[n] /\ top = Last(stack) BY <1>1, TopIs DEF top
<1>9. Last(stack).k # "ar" BY <1>4
<1> HIDE DEF c, t
<1>5. t \in Seq(Frame) /\ Called(t) /\ Len(t) = n /\ t[n] = c /\ Last(t) = c
      /\ \A j \in 1 .. n : j # n => t[j] = stack[j]
  BY <1>2 DEF Instead
<1>6. \A j \in 1 .. Len(t) : t[j].k \in {"ar", "list"} => t[j].i = 1 \/ (j \in 1 .. Len(stack) /\ t[j] = stack[j])
  BY <1>2, <1>5
<1>7. Exhausted(t, newUndef, M) BY <1>1, <1>5, <1>6, <1>9, SearchedKept
<1>8. QED BY <1>2, <1>3, <1>5, <1>7 DEF t

\* the next library that a library needs,
LEMMA DllNeedsInv == ASSUME LInv, DllNeeds PROVE LInv'
<1> DEFINE M == Range(loaded)
           i == top.i
           f == top.f
           needed == File(f).needed
<1>1. /\ WorldKnown /\ LinkTypes /\ Called(stack) /\ stack \in Seq(Frame) /\ newUndef \in BOOLEAN
      /\ dyn \in Seq(DllSymbol) /\ OneEach(dyn)
  BY InvFacts
<1>2. pc = "load" /\ top.k = "dll" /\ world' = world BY DEF DllNeeds, Doing
<1>3. Exhausted(stack, newUndef, M) BY <1>2, InvFacts
<1>4. /\ f \in DOMAIN world.file /\ File(f).kind = "dll" /\ i \in Nat \ {0}
      /\ top = Last(stack) /\ Len(stack) > 1 /\ Len(stack) \in Nat
  BY <1>1, <1>2, TopMeans, TopIs DEF top
<1>5. needed \in Seq(OfKind(world, {"dll"})) BY <1>1, <1>4, FileKinds
<1>6. /\ Advanced \in Seq(Frame) /\ Called(Advanced) /\ Fresh(Advanced, M) /\ Exhausted(Advanced, newUndef, M)
      /\ Last(Advanced).k = "dll"
  BY <1>2, DllAdvanced
<1>7. CASE stack' = pop /\ UNCHANGED <<symbols, dyn, dlls, pc>>
  <2>1. UNCHANGED <<world, tab, once, twice, loaded, dyn, pc>> /\ newUndef' = newUndef BY <1>2, <1>7 DEF symbols
  <2>2. newUndef' \in BOOLEAN /\ top.k # "cmd" BY <1>1, <1>2, <2>1
  <2>3. ASSUME NEW s \in Seq(Frame), Len(s) = Len(stack) - 1, \A j \in 1 .. Len(s) : s[j] = stack[j]
        PROVE  Exhausted(s, newUndef', M)
    <3>1. \A j \in 1 .. Len(s) : j \in 1 .. Len(stack) /\ s[j] = stack[j] BY <1>4, <2>3
    <3>2. Last(stack).k # "ar" BY <1>2, <1>4
    <3>3. Exhausted(s, newUndef, M) BY <1>1, <1>3, <3>1, <3>2, SearchedKept
    <3>4. QED BY <2>1, <3>3
  <2>4. QED BY <1>2, <1>7, <2>1, <2>2, <2>3, EndedInv
<1>8. CASE stack' = Advanced /\ UNCHANGED <<symbols, dyn, dlls, pc>>
  <2>1. UNCHANGED <<world, tab, once, twice, loaded, dyn, pc>> /\ newUndef' = newUndef BY <1>2, <1>8 DEF symbols
  <2>2. newUndef' \in BOOLEAN /\ pc' \in {"load", "bind"} /\ pc' # "bind" BY <1>1, <1>2, <2>1
  <2>3. /\ stack' \in Seq(Frame) /\ Called(stack') /\ dyn' \in Seq(DllSymbol) /\ OneEach(dyn')
        /\ Exhausted(stack', newUndef', M) /\ Fresh(stack', M)
    BY <1>1, <1>6, <1>8, <2>1
  <2>4. QED BY <1>2, <2>1, <2>2, <2>3, KeptInv
<1>9. CASE i <= Len(needed) /\ AddFile(needed[i], WholeArchives, 1, Advanced)
  <2> DEFINE g == needed[i]
             t == Advanced
  <2>1. g \in OfKind(world, {"dll"})
    <3> HIDE DEF i, needed
    <3>1. i \in 1 .. Len(needed) BY <1>4, <1>5, <1>9 DEF i
    <3>2. QED BY <1>5, <3>1, ElementOfSeq
  <2>2. AddFile(g, WholeArchives, 1, t) BY <1>9
  <2>3. \A d \in Frame : d.k = "dll" /\ d.f = g => Calls(Last(t), d)
    <3>1. File(g).kind = "dll" BY <2>1 DEF OfKind, File
    <3> HIDE DEF t, g
    <3>2. Last(t).k = "dll" BY <1>6 DEF t
    <3>3. QED BY <3>1, <3>2 DEF Calls
  <2> HIDE DEF g
  <2>4. Last(t).k # "ar" BY <1>6
  <2>5. QED BY <1>2, <1>6, <2>1, <2>2, <2>3, <2>4, DllOpenedInv
<1>10. (i <= Len(needed) \/ i > Len(needed)) BY <1>4, <1>5
<1>11. QED BY <1>7, <1>8, <1>9, <1>10 DEF DllNeeds

\* The names that are missing are the undefined ones of the table.
LEMMA MissingIs ==
    ASSUME NEW T, NEW M, Tabled(T, M), NEW n
    PROVE  /\ n \in Missing(M) <=> Lookup(T, n) # 0 /\ T[Lookup(T, n)].shndx = "UNDEF"
           /\ n \in Missing(M) <=> n \in GlobalNames(T) /\ n \notin DefinedNames(T)
<1>1. /\ T \in Seq(EntryType) /\ OneEach(T)
      /\ GlobalNames(T) = UNION {world.lib[m].defs \cup world.lib[m].refs : m \in M}
      /\ DefinedNames(T) = UNION {world.lib[m].defs : m \in M}
  BY DEF Tabled
<1>2. n \in Missing(M) <=> n \in GlobalNames(T) /\ n \notin DefinedNames(T)
  BY <1>1 DEF Missing
<1> DEFINE x == Lookup(T, n)
<1>3. /\ n \in GlobalNames(T) <=> x # 0
      /\ x # 0 => x \in 1 .. Len(T) /\ T[x].name = n /\ T[x].bind # "LOCAL"
  BY <1>1, LookupIs
<1> HIDE DEF x
<1>4. DOMAIN T = 1 .. Len(T) BY <1>1
<1>5. x # 0 => (T[x].shndx = "UNDEF" <=> n \notin DefinedNames(T))
  BY <1>1, <1>3, <1>4 DEF DefinedNames, OneEach
<1>6. QED BY <1>2, <1>3, <1>5 DEF x

\* An archive whose index is read is named by the command line or by a list.
LEMMA ArchiveIs ==
    ASSUME LInv, top.k = "ar"
    PROVE  /\ top.f \in Listed(world) \/ \E x \in DOMAIN world.cmd : x < stack[1].i /\ world.cmd[x].f = top.f
           /\ stack[2].k # "whole"
           /\ top.f \in DOMAIN world.file /\ top.f \in OfKind(world, {"ar"})
<1>1. WorldKnown /\ Called(stack) /\ stack \in Seq(Frame) BY InvFacts
<1>2. top.f \in DOMAIN world.file /\ File(top.f).kind = "ar" BY TopMeans
<1>3. stack[1].i \in Nat BY <1>1, TopIs
<1>4. CASE Len(stack) = 2 /\ stack[2] = top
  <2>1. 2 \in 1 .. Len(stack) BY <1>4
  <2>2. stack[1].i - 1 \in DOMAIN world.cmd /\ stack[2].f = world.cmd[stack[1].i - 1].f BY <1>1, <2>1, FramesMean
  <2>3. stack[1].i - 1 < stack[1].i BY <1>3
  <2>4. QED BY <1>2, <1>4, <2>2, <2>3 DEF OfKind, File
<1>5. CASE Len(stack) = 4 /\ stack[4] = top /\ stack[3].k = "list"
  <2>1. 3 \in 1 .. Len(stack) /\ 4 \in 1 .. Len(stack) BY <1>5
  <2>2. stack[2].k = "script" BY <1>1, <1>5, <2>1, Positions
  <2>3. /\ stack[3].f \in OfKind(world, {"script"}) \cap CommandLine(world)
        /\ stack[3].l \in DOMAIN File(stack[3].f).lists
    BY <1>1, <1>5, <2>1, FramesMean
  <2>4. /\ stack[3].i - 1 \in DOMAIN File(stack[3].f).lists[stack[3].l].files
        /\ stack[4].f = File(stack[3].f).lists[stack[3].l].files[stack[3].i - 1]
    BY <1>1, <1>5, <2>1, FramesMean
  <2> DEFINE g == stack[3].f
             l == File(g).lists[stack[3].l]
  <2>7. /\ g \in OfKind(world, {"script"}) \cap CommandLine(world) /\ l \in Range(world.file[g].lists)
        /\ stack[4].f \in Range(l.files)
    <3>1. \A F : \A y \in DOMAIN F : F[y] \in Range(F) BY DEF Range
    <3>2. l \in Range(world.file[g].lists) BY <2>3, <3>1 DEF File
    <3>3. stack[4].f \in Range(l.files) BY <2>4, <3>1
    <3>4. QED BY <2>3, <3>2, <3>3
  <2> HIDE DEF g, l
  <2>5. stack[4].f \in Listed(world) BY <2>7 DEF Listed
  <2>6. QED BY <1>2, <1>5, <2>2, <2>5 DEF OfKind, File
<1>6. QED BY <1>4, <1>5, TopMeans

\* A name of the index
LEMMA IndexedIs ==
    ASSUME LInv, top.k = "ar", top.i <= Len(world.index[top.f])
    PROVE  LET e == world.index[top.f][top.i]
               m == [f |-> e.f, k |-> e.k]
           IN  /\ e.f = top.f /\ m \in DOMAIN world.lib /\ m \in Members(top.f)
               /\ e.name \in world.lib[m].offers /\ e.name \in world.lib[m].defs
<1> DEFINE f == top.f
           e == world.index[f][top.i]
           m == [f |-> e.f, k |-> e.k]
<1>1. WorldKnown /\ Called(stack) /\ stack \in Seq(Frame) BY InvFacts
<1>2. f \in DOMAIN world.file /\ File(f).kind = "ar" /\ f \in OfKind(world, {"ar"}) BY ArchiveIs, TopMeans
<1>3. top.i \in 1 .. Len(world.index[f])
  <2>1. top.i \in Nat \ {0} BY <1>1, TopIs
  <2>2. Len(world.index[f]) \in Nat BY <1>1, <1>2 DEF WorldKnown, IndexMeans
  <2>3. QED BY <2>1, <2>2
<1>4. e.f = f /\ e.k \in DOMAIN File(f).objs /\ e.name \in world.lib[[f |-> f, k |-> e.k]].offers
  BY <1>1, <1>2, <1>3 DEF WorldKnown, IndexMeans
<1> HIDE DEF f, e
<1>5. m \in DOMAIN world.lib BY <1>1, <1>2, <1>4, FileKinds
<1>6. m \in Members(f) BY <1>4 DEF Members
<1>7. e.name \in world.lib[m].offers BY <1>4
<1>8. e.name \in world.lib[m].defs BY <1>1, <1>5, <1>7 DEF WorldKnown, LibraryMeans
<1>9. QED BY <1>4, <1>5, <1>6, <1>7, <1>8 DEF f, e

\* the next name of an index,
LEMMA ArchiveNameInv == ASSUME LInv, ArchiveName PROVE LInv'
<1> DEFINE M == Range(loaded)
           i == top.i
           f == top.f
           e == world.index[f][i]
           m == [f |-> e.f, k |-> e.k]
           x == Lookup(tab, e.name)
<1>1. /\ WorldKnown /\ LinkTypes /\ Called(stack) /\ stack \in Seq(Frame) /\ newUndef \in BOOLEAN
      /\ dyn \in Seq(DllSymbol) /\ OneEach(dyn)
  BY InvFacts
<1>2. pc = "load" /\ top.k = "ar" /\ world' = world /\ dyn' = dyn /\ i <= Len(world.index[f])
  BY DEF ArchiveName, Doing
<1>3. /\ Tabled(tab, M) /\ OncesKept(once, M) /\ Exhausted(stack, newUndef, M) /\ Fresh(stack, M) BY <1>2, InvFacts
<1>4. /\ f \in DOMAIN world.file /\ i \in Nat \ {0} /\ top \in Frame
      /\ top = Last(stack) /\ Len(stack) > 1 /\ Len(stack) \in Nat /\ stack[1].i \in Nat /\ top = stack[Len(stack)]
  BY <1>1, <1>2, TopMeans, TopIs DEF top
<1>5. e.f = f /\ m \in DOMAIN world.lib /\ e.name \in world.lib[m].offers /\ e.name \in world.lib[m].defs
  BY <1>2, IndexedIs
<1>6. /\ f \in Listed(world) \/ \E y \in DOMAIN world.cmd : y < stack[1].i /\ world.cmd[y].f = f
      /\ stack[2].k # "whole"
  BY <1>2, ArchiveIs
<1>7. /\ e.name \in Missing(M) <=> x # 0 /\ tab[x].shndx = "UNDEF"
      /\ e.name \in Missing(M) <=> e.name \in GlobalNames(tab) /\ e.name \notin DefinedNames(tab)
  BY <1>3, MissingIs
<1>8. CASE x # 0 /\ tab[x].shndx = "UNDEF"
  <2> DEFINE c == top
             j == i + 1
             d == [c EXCEPT !.i = j, !.bound = TRUE]
             t == Append(pop, d)
  <2>1. LoadObject(m, t) BY <1>8 DEF ArchiveName
  <2>2. newUndef' = TRUE
    <3>1. newUndef' = TRUE \/ world.lib[m].defs \cap GlobalNames(tab) \subseteq DefinedNames(tab)
      BY <1>1, <1>3, <1>5, <2>1, LoadObjectDoes
    <3>2. QED BY <1>5, <1>7, <1>8, <3>1
  <2>3. j \in Nat \ {0} /\ c \in Frame /\ c = Last(stack) /\ c.k = "ar" /\ TRUE \in BOOLEAN
    <3>1. i + 1 \in Nat \ {0} BY <1>4
    <3>2. QED BY <1>2, <1>4, <3>1
  <2> HIDE DEF c, j, m
  <2>4. d \in Frame /\ SameCall(c, d) /\ d.i = j /\ d.k = "ar" /\ d.f = c.f /\ d.bound = TRUE BY <2>3, WithBound
  <2> HIDE DEF d
  <2>5. Instead(stack, t, d) BY <1>1, <2>3, <2>4, Replaced DEF Instead, pop
  <2> HIDE DEF t
  <2>6. t \in Seq(Frame) /\ Called(t) /\ Len(t) = Len(stack) /\ t[Len(t)] = d
        /\ \A y \in 1 .. Len(stack) : y # Len(stack) => t[y] = stack[y]
    BY <2>5 DEF Instead
  <2>7. Exhausted(t, newUndef', M \cup {m})
    <3>1. ASSUME NEW y \in 1 .. Len(t), t[y].k = "ar" PROVE t[y].bound = TRUE
      <4>1. y = Len(t) BY <2>6, <3>1, Positions
      <4>2. QED BY <2>4, <2>6, <4>1
    <3>2. DOMAIN t = 1 .. Len(t) BY <2>6
    <3>3. newUndef' # FALSE BY <2>2
    <3>4. QED BY <3>1, <3>2, <3>3 DEF Exhausted
  <2>8. Fresh(t, M \cup {m})
    <3>1. t[1] = stack[1] /\ t[2].k # "whole"
      <4> DEFINE n == Len(stack)
      <4>1. n > 1 /\ n \in Nat /\ t[n] = d /\ \A y \in 1 .. n : y # n => t[y] = stack[y] BY <1>4, <2>6
      <4> HIDE DEF n
      <4>2. t[1] = stack[1] BY <4>1
      <4>3. t[2].k # "whole" BY <1>6, <2>4, <4>1
      <4>4. QED BY <4>2, <4>3
    <3>2. t[1].i >= stack[1].i BY <1>4, <3>1
    <3>3. Fresh(t, M) BY <1>1, <1>3, <2>6, <3>1, <3>2, FreshKept
    <3>4. m.f = f BY <1>5 DEF m
    <3>5. QED BY <1>6, <3>1, <3>3, <3>4, FreshMore
  <2>9. CASE stack' = t
    <3>1. /\ stack' \in Seq(Frame) /\ Called(stack')
          /\ Exhausted(stack', newUndef', M \cup {m}) /\ Fresh(stack', M \cup {m})
      BY <2>6, <2>7, <2>8, <2>9
    <3>2. m \in DOMAIN world.lib BY <1>5 DEF m
    <3>3. QED BY <1>2, <2>1, <3>1, <3>2, LoadedInv
  <2>10. CASE Repeated(t) # {} /\ stack' = SubSeq(t, 1, Max(Repeated(t)))
    <3> DEFINE s == SubSeq(t, 1, Max(Repeated(t)))
    <3>1. Last(t).k = "ar" BY <2>4, <2>6 DEF Last
    <3>2. /\ Len(t) = 4 /\ t[3].k = "list" /\ t[2].k = "script"
          /\ s \in Seq(Frame) /\ Called(s) /\ Len(s) = 3 /\ s[1] = t[1] /\ s[2] = t[2] /\ s[3] = t[3]
      BY <2>6, <2>10, <3>1, CaughtIs
    <3>3. stack' = s BY <2>10
    <3> HIDE DEF s
    <3>4. \A y \in 1 .. Len(s) : y = 1 \/ y = 2 \/ y = 3 BY <3>2
    <3>5. Exhausted(s, newUndef', M \cup {m})
      <4>1. s[1].k = "cmd" BY <3>2 DEF Called
      <4>2. \A y \in DOMAIN s : s[y].k # "ar" BY <3>2, <3>4, <4>1
      <4>3. newUndef' # FALSE BY <2>2
      <4>4. QED BY <4>2, <4>3 DEF Exhausted
    <3>6. Fresh(s, M \cup {m}) BY <2>8, <3>2 DEF Fresh
    <3>7. /\ stack' \in Seq(Frame) /\ Called(stack')
          /\ Exhausted(stack', newUndef', M \cup {m}) /\ Fresh(stack', M \cup {m})
      BY <3>2, <3>3, <3>5, <3>6
    <3>8. m \in DOMAIN world.lib BY <1>5 DEF m
    <3>9. QED BY <1>2, <2>1, <3>7, <3>8, LoadedInv
  <2>11. stack' = t \/ (Repeated(t) # {} /\ stack' = SubSeq(t, 1, Max(Repeated(t))))
    <3>1. m \in DOMAIN world.lib BY <1>5 DEF m
    <3>2. QED BY <1>1, <1>3, <2>1, <3>1, LoadObjectDoes
  <2>12. QED BY <2>9, <2>10, <2>11
<1>9. CASE ~(x # 0 /\ tab[x].shndx = "UNDEF")
  <2>1. stack' = Advanced /\ UNCHANGED <<symbols, pc>> BY <1>9 DEF ArchiveName
  <2>2. e.name \notin Missing(M) BY <1>7, <1>9
  <2> DEFINE c == [top EXCEPT !.i = @ + 1]
             t == Advanced
  <2>3. Instead(stack, t, c) /\ c.i = i + 1 /\ c.k = "ar" /\ c.f = f BY <1>1, <1>2, AdvancedIs
  <2>4. c.bound = top.bound BY <1>2, <1>4 DEF Frame
  <2>5. Fresh(t, M) BY <1>2, <1>4, FreshAdvanced
  <2> HIDE DEF c, t, x, m
  <2>6. t \in Seq(Frame) /\ Called(t) /\ Len(t) = Len(stack) /\ t[Len(t)] = c /\ Last(t) = c
        /\ \A y \in 1 .. Len(stack) : y # Len(stack) => t[y] = stack[y]
    BY <2>3 DEF Instead
  <2>7. Exhausted(t, newUndef, M)
    <3>1. SUFFICES ASSUME NEW j \in DOMAIN t
               PROVE  /\ t[j].k = "ar" /\ ~t[j].bound =>
                           \A y \in 1 .. Len(world.index[t[j].f]) : y < t[j].i => world.index[t[j].f][y].name \notin Missing(M)
                      /\ t[j].k = "list" /\ newUndef = FALSE /\ File(t[j].f).lists[t[j].l].group =>
                           LET fs == File(t[j].f).lists[t[j].l].files IN
                           \A y \in 1 .. Len(fs) :
                              y < t[j].i /\ (y = t[j].i - 1 => Last(t).k # "ar") /\ File(fs[y]).kind = "ar" =>
                                 \A q \in Members(fs[y]) : ~Wanted(q, M)
      BY DEF Exhausted
    <3>2. j \in 1 .. Len(stack) /\ DOMAIN stack = 1 .. Len(stack) /\ Len(stack) \in DOMAIN stack
      <4>1. DOMAIN t = 1 .. Len(stack) BY <2>6
      <4>2. Len(stack) \in 1 .. Len(stack) BY <1>4
      <4>3. DOMAIN stack = 1 .. Len(stack) BY <1>1
      <4>4. QED BY <4>1, <4>2, <4>3
    <3>3. CASE j # Len(stack)
      <4>1. t[j] = stack[j] BY <2>6, <3>2, <3>3
      <4>2. Last(stack).k = "ar" /\ Last(t).k = "ar" BY <1>2, <1>4, <2>3, <2>6
      <4>3. QED BY <1>3, <3>2, <4>1, <4>2 DEF Exhausted
    <3>4. CASE j = Len(stack)
      <4>1. t[j] = c /\ stack[j] = top BY <1>4, <2>6, <3>4
      <4>2. ASSUME ~c.bound, NEW y \in 1 .. Len(world.index[f]), y < i + 1
            PROVE  world.index[f][y].name \notin Missing(M)
        <5>1. y < i \/ y = i BY <1>4, <4>2
        <5>2. CASE y < i
          <6>1. stack[j].k = "ar" /\ ~stack[j].bound /\ stack[j].f = f /\ stack[j].i = i BY <1>2, <2>4, <4>1, <4>2
          <6> HIDE DEF f, i
          <6>2. QED BY <1>3, <3>2, <4>2, <5>2, <6>1 DEF Exhausted
        <5>3. CASE y = i BY <2>2, <5>3
        <5>4. QED BY <5>1, <5>2, <5>3
      <4> HIDE DEF f, i
      <4>3. QED BY <2>3, <4>1, <4>2
    <3>5. QED BY <3>3, <3>4
  <2>8. UNCHANGED <<world, tab, once, twice, loaded, dyn, pc>> /\ newUndef' = newUndef BY <1>2, <2>1 DEF symbols
  <2>9. newUndef' \in BOOLEAN /\ pc' \in {"load", "bind"} /\ pc' # "bind" BY <1>1, <1>2, <2>8
  <2>10. stack' = t BY <2>1 DEF t
  <2>11. /\ stack' \in Seq(Frame) /\ Called(stack') /\ dyn' \in Seq(DllSymbol) /\ OneEach(dyn')
         /\ Exhausted(stack', newUndef', M) /\ Fresh(stack', M)
    BY <1>1, <2>5, <2>6, <2>7, <2>8, <2>10
  <2>12. QED BY <1>2, <2>8, <2>9, <2>11, KeptInv
<1>10. QED BY <1>8, <1>9

\* An archive that has been gone through without success gives nothing.
LEMMA ArchiveExhausted ==
    ASSUME LInv, pc = "load", top.k = "ar", top.bound = FALSE, top.i > Len(world.index[top.f])
    PROVE  \A m \in Members(top.f) : ~Wanted(m, Range(loaded))
<1> DEFINE M == Range(loaded)
           f == top.f
           n == Len(stack)
<1>1. WorldKnown /\ Called(stack) /\ stack \in Seq(Frame) /\ Exhausted(stack, newUndef, M) BY InvFacts
<1>2. f \in OfKind(world, {"ar"}) BY ArchiveIs
<1>3. n \in DOMAIN stack /\ stack[n] = top /\ top.i \in Nat
  <2>1. n \in Nat /\ n >= 1 /\ stack[n] = top /\ top.i \in Nat BY <1>1, TopIs
  <2>2. n \in 1 .. n BY <2>1
  <2>3. QED BY <1>1, <2>1, <2>2
<1>4. Len(world.index[f]) \in Nat BY <1>1, <1>2 DEF WorldKnown, IndexMeans
<1>5. \A x \in 1 .. Len(world.index[f]) : x < top.i => world.index[f][x].name \notin Missing(M)
  <2>1. stack[n].k = "ar" /\ ~stack[n].bound /\ stack[n].f = f /\ stack[n].i = top.i BY <1>3
  <2> HIDE DEF n, M, f
  <2>2. QED BY <1>1, <1>3, <2>1 DEF Exhausted
<1>6. \A x \in 1 .. Len(world.index[f]) : world.index[f][x].name \notin Missing(M)
  <2>1. \A x \in 1 .. Len(world.index[f]) : x < top.i BY <1>3, <1>4
  <2>2. QED BY <1>5, <2>1
<1>7. \A k \in DOMAIN File(f).objs : \A a \in world.lib[[f |-> f, k |-> k]].offers :
             \E i \in 1 .. Len(world.index[f]) : world.index[f][i].name = a
  BY <1>1, <1>2 DEF WorldKnown, IndexMeans
<1> HIDE DEF f, M
<1>8. \A k \in DOMAIN File(f).objs : \A a \in world.lib[[f |-> f, k |-> k]].offers : a \notin Missing(M)
  BY <1>6, <1>7
<1>9. \A m \in Members(f) : ~Wanted(m, M) BY <1>8 DEF Members, Wanted
<1>10. QED BY <1>9 DEF f, M

\* What a list has come to
LEMMA ListSearched ==
    ASSUME NEW s \in Seq(Frame), NEW nu, NEW M, Exhausted(s, nu, M), NEW j \in 1 .. Len(s), s[j].k = "list", nu = FALSE,
           File(s[j].f).lists[s[j].l].group = TRUE
    PROVE  LET fs == File(s[j].f).lists[s[j].l].files IN
           \A x \in 1 .. Len(fs) :
              x < s[j].i /\ (x = s[j].i - 1 => Last(s).k # "ar") /\ File(fs[x]).kind = "ar" =>
                 \A m \in Members(fs[x]) : ~Wanted(m, M)
<1>1. j \in DOMAIN s OBVIOUS
<1>2. QED BY <1>1 DEF Exhausted

\* Three frames, the last a list
LEMMA ListExhausted ==
    ASSUME NEW t \in Seq(Frame), NEW nu, NEW M, Len(t) = 3 \/ (Len(t) = 4 /\ t[4].k = "ar" /\ t[4].i = 1),
           t[1].k = "cmd", t[2].k = "script", t[3].k = "list",
           LET l == File(t[3].f).lists[t[3].l] IN
           nu = FALSE /\ l.group = TRUE => \A x \in 1 .. Len(l.files) :
              x < t[3].i /\ (x = t[3].i - 1 => Last(t).k # "ar") /\ File(l.files[x]).kind = "ar" =>
                 \A m \in Members(l.files[x]) : ~Wanted(m, M)
    PROVE  Exhausted(t, nu, M)
<1>1. ASSUME NEW j \in DOMAIN t, t[j].k = "ar", NEW n, NEW x \in 1 .. n PROVE ~(x < t[j].i)
  <2>1. j = 1 \/ j = 2 \/ j = 3 \/ (j = 4 /\ t[4].i = 1)
    <3>1. DOMAIN t = 1 .. Len(t) OBVIOUS
    <3>2. \A y \in 1 .. 3 : y = 1 \/ y = 2 \/ y = 3 OBVIOUS
    <3>3. \A y \in 1 .. 4 : y = 1 \/ y = 2 \/ y = 3 \/ y = 4 OBVIOUS
    <3>4. CASE Len(t) = 3 BY <3>1, <3>2, <3>4, Zenon
    <3>5. CASE Len(t) = 4 /\ t[4].k = "ar" /\ t[4].i = 1 BY <3>1, <3>3, <3>5, Zenon
    <3>6. QED BY <3>4, <3>5
  <2>2. t[j].i = 1 BY <1>1, <2>1
  <2>3. QED BY <2>2
<1>2. ASSUME NEW j \in DOMAIN t, t[j].k = "list" PROVE j = 3
    <3>1. DOMAIN t = 1 .. Len(t) OBVIOUS
    <3>2. \A y \in 1 .. 3 : y = 1 \/ y = 2 \/ y = 3 OBVIOUS
    <3>3. \A y \in 1 .. 4 : y = 1 \/ y = 2 \/ y = 3 \/ y = 4 OBVIOUS
    <3>4. CASE Len(t) = 3 BY <1>2, <3>1, <3>2, <3>4
    <3>5. CASE Len(t) = 4 /\ t[4].k = "ar" /\ t[4].i = 1 BY <1>2, <3>1, <3>3, <3>5
    <3>6. QED BY <3>4, <3>5
<1>3. SUFFICES ASSUME NEW j \in DOMAIN t
               PROVE  /\ t[j].k = "ar" /\ ~t[j].bound =>
                           \A y \in 1 .. Len(world.index[t[j].f]) : y < t[j].i => world.index[t[j].f][y].name \notin Missing(M)
                      /\ t[j].k = "list" /\ nu = FALSE /\ File(t[j].f).lists[t[j].l].group =>
                           LET fs == File(t[j].f).lists[t[j].l].files IN
                           \A y \in 1 .. Len(fs) :
                              y < t[j].i /\ (y = t[j].i - 1 => Last(t).k # "ar") /\ File(fs[y]).kind = "ar" =>
                                 \A q \in Members(fs[y]) : ~Wanted(q, M)
  BY DEF Exhausted
<1>4. t[j].k = "ar" /\ ~t[j].bound =>
        \A y \in 1 .. Len(world.index[t[j].f]) : y < t[j].i => world.index[t[j].f][y].name \notin Missing(M)
  BY <1>1
<1>5. ASSUME t[j].k = "list", nu = FALSE, File(t[j].f).lists[t[j].l].group
      PROVE  LET fs == File(t[j].f).lists[t[j].l].files IN
             \A y \in 1 .. Len(fs) :
                y < t[j].i /\ (y = t[j].i - 1 => Last(t).k # "ar") /\ File(fs[y]).kind = "ar" =>
                   \A q \in Members(fs[y]) : ~Wanted(q, M)
  <2>1. j = 3 BY <1>2, <1>5
  <2>2. File(t[3].f).lists[t[3].l].group = TRUE BY <1>5, <2>1
  <2>3. QED BY <1>5, <2>1, <2>2
<1>6. QED BY <1>4, <1>5

\* the end of an index,
LEMMA ArchiveDoneInv == ASSUME LInv, ArchiveDone PROVE LInv'
<1> DEFINE M == Range(loaded)
           f == top.f
           n == Len(stack)
<1>1. /\ WorldKnown /\ LinkTypes /\ Called(stack) /\ stack \in Seq(Frame) /\ newUndef \in BOOLEAN
      /\ dyn \in Seq(DllSymbol) /\ OneEach(dyn)
  BY InvFacts
<1>2. /\ pc = "load" /\ top.k = "ar" /\ top.i > Len(world.index[f])
      /\ UNCHANGED <<world, tab, once, twice, loaded, dyn, pc, newUndef>>
  BY DEF ArchiveDone, Doing, symbols
<1>3. Exhausted(stack, newUndef, M) /\ Fresh(stack, M) BY <1>2, InvFacts
<1>4. /\ n \in Nat /\ n > 1 /\ top = stack[n] /\ top \in Frame /\ top = Last(stack) /\ stack[1].i \in Nat
      /\ stack[2].k # "whole"
  BY <1>1, <1>2, TopIs, TopMeans, ArchiveIs DEF top
<1>5. CASE top.bound = TRUE
  <2> DEFINE c == top
             d == [c EXCEPT !.i = 1, !.bound = FALSE]
             t == Append(pop, d)
  <2>1. stack' = t BY <1>5 DEF ArchiveDone
  <2>2. c \in Frame /\ c.k = "ar" /\ c = Last(stack) /\ FALSE \in BOOLEAN /\ 1 \in Nat \ {0} BY <1>2, <1>4
  <2> HIDE DEF c
  <2>3. d \in Frame /\ SameCall(c, d) /\ d.i = 1 /\ d.k = "ar" BY ONLY <2>2, WithBound DEF d
  <2> HIDE DEF d
  <2>4. Instead(stack, t, d) BY <1>1, <2>2, <2>3, Replaced DEF Instead, pop
  <2> HIDE DEF t
  <2>5. t \in Seq(Frame) /\ Called(t) /\ Len(t) = n /\ t[n] = d /\ Last(t) = d
        /\ \A y \in 1 .. n : y # n => t[y] = stack[y]
    BY <2>4 DEF Instead
  <2>6. Exhausted(t, newUndef, M)
    <3>1. \A j \in 1 .. Len(t) : t[j].k \in {"ar", "list"} => t[j].i = 1 \/ (j \in 1 .. n /\ t[j] = stack[j])
      BY <2>3, <2>5
    <3>2. Last(stack).k = "ar" => Last(t).k = "ar" BY <2>3, <2>5
    <3>3. QED BY <1>1, <1>3, <2>5, <3>1, <3>2, SearchedKept
  <2>7. Fresh(t, M)
    <3> HIDE DEF n
    <3>1. t[1] = stack[1] /\ t[2].k # "whole"
      <4>1. t[1] = stack[1] BY <1>4, <2>5
      <4>2. n = 2 \/ n > 2 BY <1>4
      <4>3. CASE n = 2 BY <2>3, <2>5, <4>3
      <4>4. CASE n > 2 BY <1>4, <2>5, <4>4
      <4>5. QED BY <4>1, <4>2, <4>3, <4>4
    <3>2. t[1].i >= stack[1].i BY <1>4, <3>1
    <3>3. QED BY <1>1, <1>3, <2>5, <3>1, <3>2, FreshKept
  <2>8. newUndef' \in BOOLEAN /\ pc' \in {"load", "bind"} /\ pc' # "bind" BY <1>1, <1>2
  <2>9. /\ stack' \in Seq(Frame) /\ Called(stack') /\ dyn' \in Seq(DllSymbol) /\ OneEach(dyn')
         /\ Exhausted(stack', newUndef', M) /\ Fresh(stack', M)
    BY <1>1, <1>2, <2>1, <2>5, <2>6, <2>7
  <2>10. QED BY <1>2, <2>8, <2>9, KeptInv
<1>6. CASE top.bound = FALSE
  <2>1. stack' = pop BY <1>6 DEF ArchiveDone
  <2>2. ASSUME NEW s \in Seq(Frame), Called(s), Len(s) = n - 1, Last(s) = stack[n - 1], \A j \in 1 .. Len(s) : s[j] = stack[j]
        PROVE  Exhausted(s, newUndef, M)
    <3>1. stack[1].k = "cmd" BY <1>1 DEF Called
    <3>2. CASE n = 2
      <4>1. Len(s) = 1 BY <2>2, <3>2
      <4>2. 1 \in 1 .. 1 /\ \A j \in 1 .. 1 : j = 1 OBVIOUS
      <4>3. s[1] = stack[1] /\ \A j \in 1 .. Len(s) : j = 1 BY <2>2, <4>1, <4>2, Zenon
      <4>4. \A j \in 1 .. Len(s) : s[j].k \in {"ar", "list"} => s[j].i = 1 BY <3>1, <4>3
      <4>5. QED BY <4>4, NothingSearched
    <3>3. CASE n = 4 /\ stack[4] = top /\ stack[3].k = "list"
      <4>1. Len(s) = 3 BY <2>2, <3>3
      <4>2. 1 \in 1 .. 3 /\ 2 \in 1 .. 3 /\ 3 \in 1 .. 3 /\ 3 \in 1 .. 4 /\ 4 \in 1 .. 4 /\ 4 - 1 = 3 OBVIOUS
      <4>3. s[1] = stack[1] /\ s[2] = stack[2] /\ s[3] = stack[3] /\ Last(s) = stack[3]
        BY <2>2, <3>3, <4>1, <4>2, Zenon
      <4>4. stack[2].k = "script" BY <1>1, <3>3, <4>2, Positions
      <4> DEFINE l == File(s[3].f).lists[s[3].l]
      <4>5. l.files[s[3].i - 1] = top.f BY <1>1, <3>3, <4>2, <4>3, FramesMean
      <4>6. s[3].i \in Nat
        <5>1. s[3] \in Frame BY <4>1, <4>2, ElementOfSeq
        <5>2. QED BY <5>1 DEF Frame
      <4>7. ASSUME newUndef = FALSE, l.group = TRUE, NEW x \in 1 .. Len(l.files), x < s[3].i, File(l.files[x]).kind = "ar"
            PROVE  \A m \in Members(l.files[x]) : ~Wanted(m, M)
        <5>1. CASE x = s[3].i - 1
          <6>1. l.files[x] = top.f BY <4>5, <5>1
          <6>2. \A m \in Members(top.f) : ~Wanted(m, M) BY <1>2, <1>6, ArchiveExhausted
          <6> HIDE DEF l
          <6>3. QED BY <6>1, <6>2
        <5>2. CASE x # s[3].i - 1
          <6>1. 3 \in 1 .. n BY <3>3, <4>2
          <6>2. LET fs == File(stack[3].f).lists[stack[3].l].files IN
                \A y \in 1 .. Len(fs) :
                   y < stack[3].i /\ (y = stack[3].i - 1 => Last(stack).k # "ar") /\ File(fs[y]).kind = "ar" =>
                      \A m \in Members(fs[y]) : ~Wanted(m, M)
            <7>1. File(stack[3].f).lists[stack[3].l].group = TRUE BY <4>3, <4>7
            <7>2. QED BY <1>1, <1>3, <3>3, <4>7, <6>1, <7>1, ListSearched
          <6>3. QED BY <4>3, <4>7, <5>2, <6>2
        <5>3. QED BY <5>1, <5>2
      <4>8. s[1].k = "cmd" /\ s[2].k = "script" /\ s[3].k = "list" BY <3>1, <3>3, <4>3, <4>4
      <4>9. QED BY <4>1, <4>7, <4>8, ListExhausted
    <3>4. QED BY <1>2, <3>2, <3>3, TopMeans
  <2>3. newUndef' = newUndef /\ newUndef' \in BOOLEAN /\ top.k # "cmd" BY <1>1, <1>2
  <2>4. UNCHANGED <<world, tab, once, twice, loaded, dyn, pc>> BY <1>2
  <2>5. \A s \in Seq(Frame) : Called(s) /\ Len(s) = Len(stack) - 1 /\ Last(s) = stack[Len(stack) - 1]
                               /\ (\A j \in 1 .. Len(s) : s[j] = stack[j])
              => Exhausted(s, newUndef', Range(loaded))
    BY <2>2, <2>3
  <2>6. QED BY <1>2, <2>1, <2>3, <2>4, <2>5, EndedInv
<1>7. top.bound \in BOOLEAN BY <1>2, <1>4 DEF Frame
<1>8. QED BY <1>5, <1>6, <1>7

\* Of the archives that a script names only what is needed is taken.
LEMMA OnDemand ==
    ASSUME WorldKnown, stack \in Seq(Frame), Called(stack), Len(stack) >= 2, stack[2].k = "script"
    PROVE  WholeArchives = FALSE
<1>1. 2 \in 1 .. Len(stack)
  <2>1. Len(stack) \in Nat OBVIOUS
  <2>2. QED BY <2>1
<1> DEFINE x == stack[1].i - 1
<1>2. x \in DOMAIN world.cmd /\ stack[2].f = world.cmd[x].f /\ File(stack[2].f).kind = "script"
  BY <1>1, FramesMean
<1> HIDE DEF x
<1>3. world.cmd[x] \in Range(world.cmd) BY <1>2 DEF Range
<1>4. world.cmd[x].whole = FALSE BY <1>2, <1>3 DEF WorldKnown, PlainWorld, File
<1>5. QED BY <1>4 DEF WholeArchives, x

\* the next file of a list,
LEMMA ListFileInv == ASSUME LInv, ListFile PROVE LInv'
<1> DEFINE M == Range(loaded)
           i == top.i
           f == top.f
           t == Advanced
           c == [top EXCEPT !.i = @ + 1]
           fs == List.files
           g == fs[i]
<1>1. /\ WorldKnown /\ LinkTypes /\ Called(stack) /\ stack \in Seq(Frame) /\ newUndef \in BOOLEAN
      /\ dyn \in Seq(DllSymbol) /\ OneEach(dyn)
  BY InvFacts
<1>2. pc = "load" /\ top.k = "list" /\ world' = world /\ i <= Len(fs) /\ AddFile(g, WholeArchives, 0, t)
  BY DEF ListFile, Doing
<1>3. Exhausted(stack, newUndef, M) BY <1>2, InvFacts
<1>4. /\ Len(stack) = 3 /\ stack[3] = top /\ stack[2].k = "script" /\ stack[1].k = "cmd"
      /\ i \in Nat \ {0} /\ top \in Frame /\ Last(stack).k = "list"
  BY <1>1, <1>2, TopMeans, TopIs DEF Called, top
<1>5. 1 \in 1 .. 3 /\ 2 \in 1 .. 3 /\ 3 \in 1 .. 3 /\ 1 # 3 /\ 2 # 3 OBVIOUS
<1>6. /\ f \in OfKind(world, {"script"}) \cap CommandLine(world)
      /\ top.l \in DOMAIN File(f).lists
  <2>1. 3 \in 1 .. Len(stack) BY <1>4, <1>5
  <2>2. QED BY <1>1, <1>2, <1>4, <2>1, FramesMean
<1>7. fs \in Seq(OfKind(world, {"ar", "dll"}))
  <2>1. f \in DOMAIN world.file /\ File(f).kind = "script" BY <1>6 DEF OfKind, File
  <2>2. File(f).lists \in Seq([group : BOOLEAN, files : Seq(OfKind(world, {"ar", "dll"}))])
    BY <1>1, <2>1, FileKinds
  <2> DEFINE ls == File(f).lists
             L == [group : BOOLEAN, files : Seq(OfKind(world, {"ar", "dll"}))]
  <2>5. List = ls[top.l] /\ ls \in Seq(L) /\ top.l \in DOMAIN ls BY <1>6, <2>2 DEF List
  <2> HIDE DEF ls, L
  <2>6. ls[top.l] \in L
    <3>1. DOMAIN ls = 1 .. Len(ls) BY <2>5
    <3>2. QED BY <2>5, <3>1, ElementOfSeq
  <2>3. List \in [group : BOOLEAN, files : Seq(OfKind(world, {"ar", "dll"}))] BY <2>5, <2>6 DEF L
  <2>4. QED BY <2>3
<1>8. i \in 1 .. Len(fs) /\ i \in DOMAIN fs /\ g \in OfKind(world, {"ar", "dll"})
  <2> HIDE DEF fs, i
  <2>1. Len(fs) \in Nat /\ DOMAIN fs = 1 .. Len(fs) BY <1>7
  <2>2. i \in 1 .. Len(fs) BY <1>2, <1>4, <2>1
  <2>3. i \in DOMAIN fs BY <2>1, <2>2
  <2>4. QED BY <1>7, <2>2, <2>3, ElementOfSeq
<1>9. Instead(stack, t, c) /\ c.i = i + 1 /\ c.k = "list" /\ c.f = f BY <1>1, <1>2, AdvancedIs
<1>10. c.l = top.l BY <1>2, <1>4 DEF Frame
<1>11. Fresh(t, M) BY <1>2, <1>4, FreshAdvanced
<1>12. File(f).lists[top.l] = List BY DEF List
<1> HIDE DEF c, t
<1>13. /\ t \in Seq(Frame) /\ Called(t) /\ Len(t) = 3 /\ t[3] = c /\ Last(t) = c
       /\ t[1] = stack[1] /\ t[2] = stack[2]
  BY <1>4, <1>5, <1>9 DEF Instead
<1>14. File(t[3].f).lists[t[3].l] = List BY <1>9, <1>10, <1>12, <1>13
\* what was gone through before
<1>15. ASSUME newUndef = FALSE, List.group = TRUE, NEW x \in 1 .. Len(fs), x < i, File(fs[x]).kind = "ar"
       PROVE  \A m \in Members(fs[x]) : ~Wanted(m, M)
  <2>1. 3 \in 1 .. Len(stack) BY <1>4, <1>5
  <2>2. Last(stack).k # "ar" BY <1>4
  <2>3. /\ stack[3].k = "list" /\ stack[3].i = i /\ File(stack[3].f).lists[stack[3].l] = List
    BY <1>2, <1>4, <1>12
  <2>4. LET s3 == File(stack[3].f).lists[stack[3].l].files IN
        \A y \in 1 .. Len(s3) :
           y < stack[3].i /\ (y = stack[3].i - 1 => Last(stack).k # "ar") /\ File(s3[y]).kind = "ar" =>
              \A m \in Members(s3[y]) : ~Wanted(m, M)
    BY <1>1, <1>3, <1>15, <2>1, <2>3, ListSearched
  <2> HIDE DEF i
  <2>5. QED BY <1>15, <2>2, <2>3, <2>4
<1>16. ASSUME NEW d \in Frame, d.k \in {"ar", "dll"}, File(g).kind = d.k, d.f = g PROVE Calls(Last(t), d)
  <2>1. c.i - 1 = i BY <1>4, <1>9
  <2>2. Last(t).k = "list" /\ File(Last(t).f).lists[Last(t).l] = List BY <1>9, <1>13, <1>14
  <2> HIDE DEF i
  <2>3. QED BY <1>8, <1>13, <1>16, <2>1, <2>2 DEF Calls
<1>17. t[1].k = "cmd" /\ t[2].k = "script" /\ t[3].k = "list" /\ t[3].i = i + 1 BY <1>4, <1>9, <1>13
<1>18. CASE File(g).kind = "dll"
  <2>1. g \in OfKind(world, {"dll"}) BY <1>8, <1>18 DEF OfKind, File
  <2>2. Exhausted(t, newUndef, M)
    <3>1. ASSUME newUndef = FALSE, List.group = TRUE, NEW x \in 1 .. Len(fs), x < i + 1, File(fs[x]).kind = "ar"
          PROVE  \A m \in Members(fs[x]) : ~Wanted(m, M)
      <4>1. x # i BY <1>18, <3>1
      <4>2. x < i BY <1>4, <3>1, <4>1
      <4>3. QED BY <1>15, <3>1, <4>2
    <3> HIDE DEF i, fs, g
    <3>2. LET l == File(t[3].f).lists[t[3].l] IN
          newUndef = FALSE /\ l.group = TRUE => \A x \in 1 .. Len(l.files) :
              x < t[3].i /\ (x = t[3].i - 1 => Last(t).k # "ar") /\ File(l.files[x]).kind = "ar" =>
                 \A m \in Members(l.files[x]) : ~Wanted(m, M)
      BY <1>14, <1>17, <3>1 DEF fs
    <3>3. QED BY <1>13, <1>17, <3>2, ListExhausted
  <2>3. \A d \in Frame : d.k = "dll" /\ d.f = g => Calls(Last(t), d) BY <1>16, <1>18
  <2>4. Last(t).k # "ar" BY <1>9, <1>13
  <2> HIDE DEF g
  <2>5. QED BY <1>2, <1>11, <1>13, <2>1, <2>2, <2>3, <2>4, DllOpenedInv
<1>19. CASE File(g).kind = "ar"
  <2> DEFINE d == [k |-> "ar", f |-> g, i |-> 1, bound |-> FALSE]
  <2>9. WholeArchives = FALSE BY <1>1, <1>4, OnDemand
  <2>1. stack' = Append(t, d) /\ UNCHANGED <<symbols, dyn, dlls, pc>> BY <1>2, <1>19, <2>9 DEF AddFile
  <2>2. UNCHANGED <<world, tab, once, twice, loaded, dyn, pc>> /\ newUndef' = newUndef BY <1>2, <2>1 DEF symbols
  <2>3. d \in Frame /\ d.k = "ar" /\ d.f = g /\ d.i = 1
    <3>1. g \in DOMAIN world.file BY <1>8 DEF OfKind
    <3> HIDE DEF g
    <3>2. QED BY <3>1 DEF Frame
  <2> HIDE DEF d
  <2>4. Calls(Last(t), d) BY <1>16, <1>19, <2>3
  <2>5. ASSUME Onto(t, Append(t, d), d) PROVE Exhausted(Append(t, d), newUndef, M)
    <3> DEFINE u == Append(t, d)
    <3>0. Onto(t, u, d) BY <2>5
    <3> HIDE DEF u
    <3>1. u \in Seq(Frame) /\ Len(u) = 4 /\ u[4] = d /\ u[1] = t[1] /\ u[2] = t[2] /\ u[3] = t[3] /\ Last(u) = d
      BY <1>5, <1>13, <3>0 DEF Onto
    <3>2. File(u[3].f).lists[u[3].l] = List /\ u[3].i = i + 1 BY <1>14, <1>17, <3>1
    <3>3. ASSUME newUndef = FALSE, List.group = TRUE, NEW x \in 1 .. Len(fs), x < i + 1, x # i, File(fs[x]).kind = "ar"
          PROVE  \A m \in Members(fs[x]) : ~Wanted(m, M)
      <4>1. x < i BY <1>4, <3>3
      <4>2. QED BY <1>15, <3>3, <4>1
    <3>6. Last(u).k = "ar" /\ (i + 1) - 1 = i BY <1>4, <2>3, <3>1
    <3> HIDE DEF i, fs, g
    <3>4. LET l == File(u[3].f).lists[u[3].l] IN
          newUndef = FALSE /\ l.group = TRUE => \A x \in 1 .. Len(l.files) :
              x < u[3].i /\ (x = u[3].i - 1 => Last(u).k # "ar") /\ File(l.files[x]).kind = "ar" =>
                 \A m \in Members(l.files[x]) : ~Wanted(m, M)
      BY <3>2, <3>3, <3>6 DEF fs
    <3>7. u[1].k = "cmd" /\ u[2].k = "script" /\ u[3].k = "list" /\ u[4].k = "ar" /\ u[4].i = 1 BY <1>17, <2>3, <3>1
    <3>5. Exhausted(u, newUndef, M) BY <3>1, <3>4, <3>7, ListExhausted
    <3>8. QED BY <3>5 DEF u
  <2>6. newUndef' \in BOOLEAN /\ d.k # "whole" BY <1>1, <2>2, <2>3
  <2>7. Onto(t, Append(t, d), d) => Exhausted(Append(t, d), newUndef', Range(loaded)) BY <2>2, <2>5
  <2>8. QED BY <1>2, <1>11, <1>13, <2>1, <2>2, <2>3, <2>4, <2>6, <2>7, CalledInv
<1>20. File(g).kind \in {"ar", "dll"} BY <1>8 DEF OfKind, File
<1>21. QED BY <1>18, <1>19, <1>20

\* and so does every step.
LEMMA StepInv == ASSUME LInv, [Next]_vars PROVE LInv'
<1>1. CASE NextFile BY <1>1, NextFileInv
<1>2. CASE WholeArchive BY <1>2, WholeArchiveInv
<1>3. CASE ArchiveName BY <1>3, ArchiveNameInv
<1>4. CASE ArchiveDone BY <1>4, ArchiveDoneInv
<1>5. CASE Script BY <1>5, ScriptInv
<1>6. CASE ListFile BY <1>6, ListFileInv
<1>7. CASE ListDone BY <1>7, ListDoneInv
<1>8. CASE DllNeeds BY <1>8, DllNeedsInv
<1>9. CASE BindExe BY <1>9, BindExeInv
<1>10. CASE UNCHANGED vars
  <2>1. /\ UNCHANGED <<world, stack, pc, tab, newUndef, once, dyn, twice, loaded>> BY <1>10 DEF vars
  <2>2. /\ Called(stack) /\ stack \in Seq(Frame) /\ pc \in {"load", "bind", "done", "failed"}
        /\ twice \subseteq STRING /\ newUndef \in BOOLEAN /\ dyn \in Seq(DllSymbol) /\ OneEach(dyn)
        /\ loaded \in Seq(DOMAIN world.lib)
    BY DEF LInv, LinkTypes
  <2>3. pc \in {"load", "bind"} => /\ Tabled(tab, Range(loaded)) /\ OncesKept(once, Range(loaded))
                                   /\ Exhausted(stack, newUndef, Range(loaded))
                                   /\ Fresh(stack, Range(loaded))
    BY DEF LInv
  <2>4. pc = "bind" => Len(stack) = 1 BY DEF LInv
  <2>5. QED BY <2>1, <2>2, <2>3, <2>4, Concluded
<1>11. QED BY <1>1, <1>2, <1>3, <1>4, <1>5, <1>6, <1>7, <1>8, <1>9, <1>10 DEF Next

\* The invariant holds of the linker when its worlds are plain.
THEOREM LinkInductive == ASSUME PlainCode PROVE Spec => []LInv
<1>1. Init => LInv BY InitInv
<1>2. LInv /\ [Next]_vars => LInv' BY StepInv
<1>3. QED BY <1>1, <1>2, PTL DEF Spec


-----------------------------------------------------------------------------
(* Loading on demand                                                       *)

ArchivesAmong(F) == UNION {IF File(f).kind = "ar" THEN Members(f) ELSE {} : f \in F}

SearchingIn(stk) ==
    LET busy == {i \in DOMAIN stk : stk[i].k \in {"list", "ar"}}
        s == stk[CHOOSE i \in busy : \A j \in busy : i <= j]
    IN  IF busy = {} THEN {}
        ELSE IF s.k = "ar" THEN Members(s.f)
        ELSE IF File(s.f).lists[s.l].group THEN ArchivesAmong(Range(File(s.f).lists[s.l].files))
        ELSE UNION {ArchivesAmong({stk[i].f}) : i \in busy}

\* the same, by the shape of the stack
InArchive(stk) == Len(stk) = 2 /\ stk[2].k = "ar"
InList(stk)    == Len(stk) >= 3 /\ stk[3].k = "list"
ListOf(stk)    == File(stk[3].f).lists[stk[3].l]

SearchingOf(w, stk) ==
    LET busy == {i \in DOMAIN stk : stk[i].k \in {"list", "ar"}}
        s == stk[CHOOSE i \in busy : \A j \in busy : i <= j]
        members(f) == {[f |-> f, k |-> k] : k \in DOMAIN w.file[f].objs}
        among(F) == UNION {IF w.file[f].kind = "ar" THEN members(f) ELSE {} : f \in F}
    IN  IF busy = {} THEN {}
        ELSE IF s.k = "ar" THEN members(s.f)
        ELSE IF w.file[s.f].lists[s.l].group THEN among(Range(w.file[s.f].lists[s.l].files))
        ELSE UNION {among({stk[i].f}) : i \in busy}

\* Searching is a function of the stack.
LEMMA SearchingIsIn ==
    /\ Searching = SearchingIn(stack)
    /\ world' = world => Searching' = SearchingIn(stack')
<1>1. Searching = SearchingOf(world, stack)
  BY DEF Searching, SearchingOf, Members, File
<1>2. Searching' = SearchingOf(world', stack')
  BY DEF Searching, SearchingOf, Members, File
<1>3. \A stk : SearchingIn(stk) = SearchingOf(world, stk)
  BY DEF SearchingIn, SearchingOf, ArchivesAmong, Members, File
<1>4. QED BY <1>1, <1>2, <1>3

\* Without an archive or a list, nothing is searched;
LEMMA SoughtNothing ==
    ASSUME NEW s \in Seq(Frame), Called(s), ~InArchive(s), ~InList(s) PROVE SearchingIn(s) = {}
<1>1. Len(s) \in Nat /\ DOMAIN s = 1 .. Len(s) OBVIOUS
<1>2. ASSUME NEW i \in 1 .. Len(s), s[i].k \in {"list", "ar"} PROVE FALSE
  <2>1. CASE s[i].k = "list"
    <3>1. i = 3 BY <2>1, Positions
    <3>2. Len(s) >= 3 BY <1>1, <3>1
    <3>3. QED BY <2>1, <3>1, <3>2 DEF InList
  <2>2. CASE s[i].k = "ar"
    <3>1. i = Len(s) /\ (i = 2 \/ (i = 4 /\ s[3].k = "list")) BY <2>2, Positions
    <3>2. CASE i = 2 BY <2>2, <3>1, <3>2 DEF InArchive
    <3>3. CASE i = 4 /\ s[3].k = "list"
      <4>1. Len(s) = 4 BY <3>1, <3>3
      <4>2. Len(s) >= 3 BY <4>1
      <4>3. QED BY <3>3, <4>2 DEF InList
    <3>4. QED BY <3>1, <3>2, <3>3
  <2>3. QED BY <1>2, <2>1, <2>2
<1>3. {i \in DOMAIN s : s[i].k \in {"list", "ar"}} = {} BY <1>1, <1>2
<1>4. QED BY <1>3 DEF SearchingIn

\* an archive is searched for itself,
LEMMA SoughtInArchive ==
    ASSUME NEW s \in Seq(Frame), Called(s), InArchive(s) PROVE SearchingIn(s) = Members(s[2].f)
<1> DEFINE busy == {i \in DOMAIN s : s[i].k \in {"list", "ar"}}
           x == CHOOSE i \in busy : \A j \in busy : i <= j
<1>1. Len(s) = 2 /\ DOMAIN s = 1 .. 2 /\ s[2].k = "ar" /\ s[1].k = "cmd" BY DEF InArchive, Called
<1>2. busy = {2}
  <2>1. \A j \in 1 .. 2 : j = 1 \/ j = 2 OBVIOUS
  <2>2. 2 \in 1 .. 2 OBVIOUS
  <2>3. QED BY <1>1, <2>1, <2>2
<1>3. SearchingIn(s) = IF busy = {} THEN {}
        ELSE IF s[x].k = "ar" THEN Members(s[x].f)
        ELSE IF File(s[x].f).lists[s[x].l].group THEN ArchivesAmong(Range(File(s[x].f).lists[s[x].l].files))
        ELSE UNION {ArchivesAmong({s[i].f}) : i \in busy}
  BY DEF SearchingIn
<1>4. x = 2
  <2>1. 2 \in busy /\ \A j \in busy : 2 <= j BY <1>2
  <2> HIDE DEF busy
  <2>2. x \in busy BY <2>1
  <2>3. QED BY <1>2, <2>2
<1> HIDE DEF busy, x
<1>5. QED BY <1>1, <1>2, <1>3, <1>4

\* and a list with the archives that it names, or the one at hand.
LEMMA SoughtInList ==
    ASSUME NEW s \in Seq(Frame), Called(s), InList(s)
    PROVE  /\ ListOf(s).group => SearchingIn(s) = ArchivesAmong(Range(ListOf(s).files))
           /\ ~ListOf(s).group => SearchingIn(s) = ArchivesAmong({s[i].f : i \in {j \in DOMAIN s : s[j].k \in {"list", "ar"}}})
<1> DEFINE busy == {i \in DOMAIN s : s[i].k \in {"list", "ar"}}
           x == CHOOSE i \in busy : \A j \in busy : i <= j
<1>1. Len(s) \in Nat /\ Len(s) >= 3 /\ DOMAIN s = 1 .. Len(s) /\ s[3].k = "list" /\ s[1].k = "cmd" BY DEF InList, Called
<1>2. 3 \in busy BY <1>1
<1>3. \A j \in busy : 3 <= j
  <2>1. SUFFICES ASSUME NEW j \in busy PROVE 3 <= j OBVIOUS
  <2>2. j \in 1 .. Len(s) /\ s[j].k \in {"list", "ar"} BY <1>1
  <2>3. j = 3 \/ (j = Len(s) /\ (j = 2 \/ j = 4)) BY <2>2, Positions
  <2>4. QED BY <1>1, <2>3
<1>4. SearchingIn(s) = IF busy = {} THEN {}
        ELSE IF s[x].k = "ar" THEN Members(s[x].f)
        ELSE IF File(s[x].f).lists[s[x].l].group THEN ArchivesAmong(Range(File(s[x].f).lists[s[x].l].files))
        ELSE UNION {ArchivesAmong({s[i].f}) : i \in busy}
  BY DEF SearchingIn
<1>8. \A j \in busy : j \in Nat BY <1>1
<1> HIDE DEF busy
<1>5. x = 3
  <2>2. x \in busy /\ \A j \in busy : x <= j BY <1>2, <1>3
  <2> HIDE DEF x
  <2>3. x <= 3 /\ 3 <= x /\ x \in Nat BY <1>2, <1>3, <1>8, <2>2
  <2>4. QED BY <2>3
<1> HIDE DEF x
<1>6. UNION {ArchivesAmong({s[i].f}) : i \in busy} = ArchivesAmong({s[i].f : i \in busy})
  BY DEF ArchivesAmong
<1>7. QED BY <1>1, <1>2, <1>4, <1>5, <1>6 DEF ListOf, busy

\* What is searched, by the shape of the stack
Held(s) ==
    IF InArchive(s) THEN Members(s[2].f)
    ELSE IF InList(s)
    THEN IF ListOf(s).group THEN ArchivesAmong(Range(ListOf(s).files))
         ELSE IF Len(s) = 4 /\ s[4].k = "ar" THEN Members(s[4].f) ELSE {}
    ELSE {}

\* In short: what is searched is what the stack holds.
LEMMA SoughtIsHeld == ASSUME NEW s \in Seq(Frame), Called(s) PROVE SearchingIn(s) = Held(s)
<1>1. CASE InArchive(s) BY <1>1, SoughtInArchive DEF Held
<1>2. CASE ~InArchive(s) /\ ~InList(s) BY <1>2, SoughtNothing DEF Held
<1>3. CASE ~InArchive(s) /\ InList(s) /\ ListOf(s).group BY <1>3, SoughtInList DEF Held
<1>4. CASE ~InArchive(s) /\ InList(s) /\ ~ListOf(s).group
  <2> DEFINE busy == {j \in DOMAIN s : s[j].k \in {"list", "ar"}}
             n == Len(s)
             F == {s[i].f : i \in busy}
  <2>1. SearchingIn(s) = ArchivesAmong(F) BY <1>4, SoughtInList
  <2>2. n \in Nat /\ n >= 3 /\ DOMAIN s = 1 .. n /\ s[3].k = "list" BY <1>4 DEF InList
  <2>3. s[2].k = "script" /\ s[3].f = s[2].f /\ File(s[2].f).kind = "script"
    <3>1. 3 \in 1 .. Len(s) /\ 3 \in 2 .. Len(s) /\ 2 \in 2 .. Len(s) BY <2>2
    <3>2. s[2].k = "script" BY <2>2, <3>1, Positions
    <3>3. Calls(s[3 - 1], s[3]) /\ Calls(s[2 - 1], s[2]) BY <3>1 DEF Called
    <3>4. Calls(s[2], s[3]) /\ Calls(s[1], s[2]) BY <3>3
    <3>5. s[3].f = s[2].f BY <3>2, <3>4 DEF Calls
    <3>6. s[1].k = "cmd" BY DEF Called
    <3>7. File(s[2].f).kind = "script" BY <3>2, <3>4, <3>6 DEF Calls
    <3>8. QED BY <3>2, <3>5, <3>7
  <2>4. \A j \in busy : j = 3 \/ (j = 4 /\ n = 4 /\ s[4].k = "ar")
    <3>1. SUFFICES ASSUME NEW j \in busy PROVE j = 3 \/ (j = 4 /\ n = 4 /\ s[4].k = "ar") OBVIOUS
    <3>2. j \in 1 .. Len(s) /\ s[j].k \in {"list", "ar"} BY <2>2
    <3>3. j = 3 \/ (s[j].k = "ar" /\ j = Len(s) /\ (j = 2 \/ j = 4)) BY <3>2, Positions
    <3>4. QED BY <2>2, <3>3
  <2>5. 3 \in busy BY <2>2
  <2>6. n = 4 /\ s[4].k = "ar" => 4 \in busy BY <2>2
  <2>7. Held(s) = IF n = 4 /\ s[4].k = "ar" THEN Members(s[4].f) ELSE {} BY <1>4 DEF Held
  <2> HIDE DEF busy, n
  <2>8. CASE n = 4 /\ s[4].k = "ar"
    <3>1. F = {s[3].f, s[4].f} BY <2>4, <2>5, <2>6, <2>8
    <3>2. File(s[3].f).kind # "ar" BY <2>3
    <3>3. File(s[4].f).kind = "ar"
      <4>1. 4 \in 2 .. Len(s) BY <2>8 DEF n
      <4>2. Calls(s[4 - 1], s[4]) BY <4>1 DEF Called
      <4>3. Calls(s[3], s[4]) BY <4>2
      <4>4. QED BY <2>2, <2>8, <4>3 DEF Calls
    <3>4. ArchivesAmong({s[3].f, s[4].f}) = Members(s[4].f) BY <3>2, <3>3 DEF ArchivesAmong
    <3>5. QED BY <2>1, <2>7, <2>8, <3>1, <3>4
  <2>9. CASE ~(n = 4 /\ s[4].k = "ar")
    <3>1. F = {s[3].f} BY <2>4, <2>5, <2>9
    <3>2. File(s[3].f).kind # "ar" BY <2>3
    <3>3. ArchivesAmong({s[3].f}) = {} BY <3>2 DEF ArchivesAmong
    <3>5. QED BY <2>1, <2>7, <2>9, <3>1, <3>3
  <2>10. QED BY <2>8, <2>9
<1>5. QED BY <1>1, <1>2, <1>3, <1>4

\* The calls that do not search leave what is searched as it is,
LEMMA HeldBelow ==
    ASSUME NEW s \in Seq(Frame), NEW u \in Seq(Frame), Called(s), Called(u), Len(u) = Len(s) + 1,
           \A j \in 1 .. Len(s) : u[j] = s[j], u[Len(u)].k \in {"whole", "script", "dll"}
    PROVE  Held(u) = Held(s)
<1> DEFINE n == Len(s)
           c == u[n + 1]
<1>1. n \in Nat /\ n >= 1 /\ Len(u) = n + 1 /\ c.k \in {"whole", "script", "dll"} BY DEF Called
<1>2. \A j \in 1 .. n : u[j] = s[j] OBVIOUS
<1>3. s[n].k # "ar"
  <2>1. n + 1 \in 2 .. Len(u) BY <1>1
  <2>2. Calls(u[(n + 1) - 1], u[n + 1]) BY <2>1 DEF Called
  <2>3. (n + 1) - 1 = n BY <1>1
  <2>4. n \in 1 .. n BY <1>1
  <2>5. u[n] = s[n] BY <1>2, <2>4
  <2>6. Calls(s[n], c) BY <2>2, <2>3, <2>5
  <2>7. QED BY <2>6 DEF Calls
<1>4. /\ InArchive(s) <=> n = 2 /\ s[2].k = "ar"
      /\ InArchive(u) <=> n + 1 = 2 /\ u[2].k = "ar"
      /\ InList(s) <=> n >= 3 /\ s[3].k = "list"
      /\ InList(u) <=> n + 1 >= 3 /\ u[3].k = "list"
      /\ Held(s) = IF InArchive(s) THEN Members(s[2].f)
                   ELSE IF InList(s)
                   THEN IF ListOf(s).group THEN ArchivesAmong(Range(ListOf(s).files))
                        ELSE IF n = 4 /\ s[4].k = "ar" THEN Members(s[4].f) ELSE {}
                   ELSE {}
      /\ Held(u) = IF InArchive(u) THEN Members(u[2].f)
                   ELSE IF InList(u)
                   THEN IF ListOf(u).group THEN ArchivesAmong(Range(ListOf(u).files))
                        ELSE IF n + 1 = 4 /\ u[4].k = "ar" THEN Members(u[4].f) ELSE {}
                   ELSE {}
  BY <1>1 DEF InArchive, InList, Held
<1>5. u[3] = s[3] => ListOf(u) = ListOf(s) BY DEF ListOf
<1>7. u[n + 1] = c OBVIOUS
<1> HIDE DEF n, c
<1>6. n = 1 \/ n = 2 \/ n = 3 \/ n > 3 BY <1>1
<1>8. CASE n = 1
  <2>1. ~InArchive(s) /\ ~InList(s) /\ ~InList(u) BY <1>4, <1>8
  <2>2. u[2] = c BY <1>7, <1>8
  <2>3. ~InArchive(u) BY <1>1, <1>4, <2>2
  <2>4. QED BY <1>4, <2>1, <2>3
<1>9. CASE n = 2
  <2>1. ~InArchive(s) /\ ~InList(s) /\ ~InArchive(u) BY <1>3, <1>4, <1>9
  <2>2. u[3] = c BY <1>7, <1>9
  <2>3. ~InList(u) BY <1>1, <1>4, <2>2
  <2>4. QED BY <1>4, <2>1, <2>3
<1>10. CASE n = 3
  <2>1. ~InArchive(s) /\ ~InArchive(u) BY <1>4, <1>10
  <2>2. u[4] = c /\ u[3] = s[3]
    <3>1. 3 \in 1 .. 3 OBVIOUS
    <3>2. QED BY <1>2, <1>7, <1>10, <3>1
  <2>3. InList(u) <=> InList(s) BY <1>4, <1>10, <2>2
  <2>4. n # 4 /\ ~(n + 1 = 4 /\ u[4].k = "ar") BY <1>1, <1>10, <2>2
  <2>5. QED BY <1>4, <1>5, <2>1, <2>2, <2>3, <2>4
<1>11. CASE n > 3
  <2>1. ~InArchive(s) /\ ~InArchive(u) BY <1>1, <1>4, <1>11
  <2>2. u[3] = s[3]
    <3>1. 3 \in 1 .. n BY <1>1, <1>11
    <3>2. QED BY <1>2, <3>1
  <2>3. InList(u) <=> InList(s) BY <1>1, <1>4, <1>11, <2>2
  <2>4. n + 1 # 4 /\ ~(n = 4 /\ s[4].k = "ar") BY <1>1, <1>3, <1>11
  <2>5. QED BY <1>4, <1>5, <2>1, <2>2, <2>3, <2>4
<1>12. QED BY <1>6, <1>8, <1>9, <1>10, <1>11

\* and so does going on in a call.
LEMMA HeldInstead ==
    ASSUME NEW s \in Seq(Frame), NEW u \in Seq(Frame), Called(s), NEW c \in Frame, Instead(s, u, c), SameCall(Last(s), c)
    PROVE  Held(u) = Held(s)
<1> DEFINE n == Len(s)
<1>1. n \in Nat /\ n >= 1 /\ Len(u) = n /\ u[n] = c /\ SameCall(s[n], c) /\ \A j \in 1 .. n : j # n => u[j] = s[j]
  BY DEF Called, Instead, Last
<1>2. \A j \in 1 .. n : u[j] = s[j] \/ SameCall(s[j], u[j]) BY <1>1
<1> HIDE DEF n
<1>3. \A j \in 1 .. n : /\ u[j].k = s[j].k
                        /\ s[j].k \in {"list", "ar"} => u[j].f = s[j].f
                        /\ s[j].k = "list" => u[j].l = s[j].l
  BY <1>2 DEF SameCall
<1>4. /\ n = 2 => u[2].k = s[2].k /\ (s[2].k = "ar" => u[2].f = s[2].f)
      /\ n >= 3 => u[3].k = s[3].k /\ (s[3].k = "list" => u[3].f = s[3].f /\ u[3].l = s[3].l)
      /\ n = 4 => u[4].k = s[4].k /\ (s[4].k = "ar" => u[4].f = s[4].f)
  <2>1. CASE n = 2
    <3>1. 2 \in 1 .. n BY <2>1
    <3>2. QED BY <1>3, <2>1, <3>1
  <2>2. CASE n >= 3 /\ n # 4
    <3>1. 3 \in 1 .. n BY <1>1, <2>2
    <3>2. QED BY <1>3, <2>2, <3>1
  <2>3. CASE n = 4
    <3>1. 3 \in 1 .. n /\ 4 \in 1 .. n BY <2>3
    <3>2. QED BY <1>3, <2>3, <3>1
  <2>4. CASE n = 1 BY <2>4
  <2>5. QED BY <1>1, <2>1, <2>2, <2>3, <2>4
<1>5. /\ InArchive(s) <=> n = 2 /\ s[2].k = "ar"
      /\ InArchive(u) <=> n = 2 /\ u[2].k = "ar"
      /\ InList(s) <=> n >= 3 /\ s[3].k = "list"
      /\ InList(u) <=> n >= 3 /\ u[3].k = "list"
      /\ Held(s) = IF InArchive(s) THEN Members(s[2].f)
                   ELSE IF InList(s)
                   THEN IF ListOf(s).group THEN ArchivesAmong(Range(ListOf(s).files))
                        ELSE IF n = 4 /\ s[4].k = "ar" THEN Members(s[4].f) ELSE {}
                   ELSE {}
      /\ Held(u) = IF InArchive(u) THEN Members(u[2].f)
                   ELSE IF InList(u)
                   THEN IF ListOf(u).group THEN ArchivesAmong(Range(ListOf(u).files))
                        ELSE IF n = 4 /\ u[4].k = "ar" THEN Members(u[4].f) ELSE {}
                   ELSE {}
  BY <1>1 DEF InArchive, InList, Held, n
<1>6. InArchive(u) <=> InArchive(s) BY <1>4, <1>5
<1>7. InList(u) <=> InList(s) BY <1>4, <1>5
<1>8. InList(s) => ListOf(u) = ListOf(s) BY <1>4, <1>5 DEF ListOf
<1>9. CASE InArchive(s) BY <1>4, <1>5, <1>6, <1>9
<1>10. CASE ~InArchive(s) /\ ~InList(s) BY <1>5, <1>6, <1>7, <1>10
<1>11. CASE ~InArchive(s) /\ InList(s)
  <2>1. CASE n = 4 /\ s[4].k = "ar" BY <1>4, <1>5, <1>6, <1>7, <1>8, <1>11, <2>1
  <2>2. CASE ~(n = 4 /\ s[4].k = "ar") 
    <3>1. ~(n = 4 /\ u[4].k = "ar") BY <1>4, <2>2
    <3>2. QED BY <1>5, <1>6, <1>7, <1>8, <1>11, <2>2, <3>1
  <2>3. QED BY <2>1, <2>2
<1>12. QED BY <1>9, <1>10, <1>11

AskedOf(w) ==
    UNION {{[f |-> f, k |-> k] : k \in DOMAIN w.file[f].objs} : f \in
              {g \in DOMAIN w.file : w.file[g].kind = "obj"}
              \cup {c.f : c \in {d \in Range(w.cmd) : w.file[d.f].kind = "ar" /\ d.whole}}}

\* The steps of DemandLoading, in the terms of the linker
LEMMA NothingDemanded ==
    ASSUME world' = world, SearchingIn(stack') = SearchingIn(stack), Range(loaded') = Range(loaded)
    PROVE  [Demand!DemandNext]_Demand!demandVars
<1>1. Searching' = Searching BY SearchingIsIn
<1>2. UNCHANGED Demand!demandVars BY <1>1 DEF Demand!demandVars, Members, File
<1>3. QED BY <1>2

\* A step that loads a member which is asked for, or wanted
LEMMA MemberDemanded ==
    ASSUME world' = world, SearchingIn(stack') = SearchingIn(stack),
           NEW m \in DOMAIN world.lib, m \notin Range(loaded), Range(loaded') = Range(loaded) \cup {m},
           m \in AskedOf(world) \/ (m \in SearchingIn(stack) /\ Wanted(m, Range(loaded)))
    PROVE  [Demand!DemandNext]_Demand!demandVars
<1>1. Searching' = Searching /\ Searching = SearchingIn(stack) BY SearchingIsIn
<1>2. Demand!Load(m)
  <2>1. Demand!Needed(m) <=> Wanted(m, Range(loaded))
    BY DEF Demand!Needed, Wanted, Demand!Undefined, Missing
  <2>2. Range(loaded)' = Range(loaded) \cup {m} OBVIOUS
  <2>3. world.lib' = world.lib OBVIOUS
  <2>4. QED BY <1>1, <2>1, <2>2, <2>3 DEF Demand!Load, Members, File, AskedOf
<1>3. QED BY <1>2 DEF Demand!DemandNext

\* A step that begins a search
LEMMA SearchBegins ==
    ASSUME world' = world, SearchingIn(stack) = {}, SearchingIn(stack') \subseteq DOMAIN world.lib,
           Range(loaded') = Range(loaded)
    PROVE  [Demand!DemandNext]_Demand!demandVars
<1>1. Searching' = SearchingIn(stack') /\ Searching = SearchingIn(stack) BY SearchingIsIn
<1>2. Demand!Search
  <2>1. Searching' \in SUBSET DOMAIN world.lib BY <1>1
  <2>2. QED BY <1>1, <2>1 DEF Demand!Search, Members, File
<1>3. QED BY <1>2 DEF Demand!DemandNext

\* A step that ends a search
LEMMA SearchEnds ==
    ASSUME world' = world, \A m \in SearchingIn(stack) : ~Wanted(m, Range(loaded)), SearchingIn(stack') = {},
           Range(loaded') = Range(loaded)
    PROVE  [Demand!DemandNext]_Demand!demandVars
<1>1. Searching' = SearchingIn(stack') /\ Searching = SearchingIn(stack) BY SearchingIsIn
<1>2. Demand!Leave
  <2>1. \A m : Demand!Needed(m) <=> Wanted(m, Range(loaded))
    BY DEF Demand!Needed, Wanted, Demand!Undefined, Missing
  <2>2. QED BY <1>1, <2>1 DEF Demand!Leave, Members, File
<1>3. QED BY <1>2 DEF Demand!DemandNext

\* An archive and what it has
LEMMA MembersKnown ==
    ASSUME WorldKnown
    PROVE  /\ \A f \in DOMAIN world.file : File(f).kind = "ar" => Members(f) \subseteq DOMAIN world.lib
           /\ \A F \in SUBSET DOMAIN world.file : ArchivesAmong(F) \subseteq DOMAIN world.lib
<1>1. ASSUME NEW f \in DOMAIN world.file, File(f).kind = "ar" PROVE Members(f) \subseteq DOMAIN world.lib
  BY <1>1, FileKinds DEF Members
<1>2. QED BY <1>1 DEF ArchivesAmong

\* What is known of the stacks before and after a step
LEMMA After ==
    ASSUME LInv, LInv', world' = world
    PROVE  /\ stack' \in Seq(Frame) /\ Called(stack') /\ SearchingIn(stack') = Held(stack')
           /\ stack \in Seq(Frame) /\ Called(stack) /\ SearchingIn(stack) = Held(stack)
<1>1. (stack \in Seq(Frame))' /\ Called(stack)' BY DEF LInv, LinkTypes
<1>2. stack' \in Seq(Frame) /\ Called(stack') BY <1>1, SameWorld
<1>3. stack \in Seq(Frame) /\ Called(stack) BY InvFacts
<1>4. QED BY <1>2, <1>3, SoughtIsHeld

\* A sequence with one more element
LEMMA Appended ==
    ASSUME NEW S, NEW s \in Seq(S), NEW c
    PROVE  LET t == Append(s, c) IN
           Len(t) = Len(s) + 1 /\ t[Len(s) + 1] = c /\ t[Len(t)] = c /\ \A j \in 1 .. Len(s) : t[j] = s[j]
<1>1. s \in Seq(S \cup {c}) /\ c \in S \cup {c} BY SMT
<1> DEFINE t == Append(s, c)
<1>2. Len(t) = Len(s) + 1 /\ t[Len(s) + 1] = c /\ \A j \in 1 .. Len(s) : t[j] = s[j] BY <1>1, AppendProperties
<1>3. QED BY <1>2

\* The frame on top moves on in the same search.
LEMMA AdvancedHeld ==
    ASSUME stack \in Seq(Frame), Called(stack)
    PROVE  Advanced \in Seq(Frame) /\ Called(Advanced) /\ Held(Advanced) = Held(stack) /\ Len(Advanced) = Len(stack)
<1> DEFINE i == top.i + 1
           d == [top EXCEPT !.i = i]
<1>1. top \in Frame /\ top.i \in Nat \ {0} BY TopIs
<1>2. i \in Nat \ {0} BY <1>1
<1>3. Instead(stack, Advanced, [top EXCEPT !.i = @ + 1]) BY AdvancedIs
<1>4. Instead(stack, Advanced, d) BY <1>3
<1> HIDE DEF i
<1>5. d \in Frame /\ SameCall(top, d) BY <1>1, <1>2, WithI
<1>6. SameCall(Last(stack), d) BY <1>5 DEF top
<1> HIDE DEF d
<1>7. Advanced \in Seq(Frame) /\ Called(Advanced) /\ Len(Advanced) = Len(stack) BY <1>4 DEF Instead
<1>8. QED BY <1>4, <1>5, <1>6, <1>7, HeldInstead

\* In a group, the call that searches one of its files searches the group.
LEMMA GroupBelow ==
    ASSUME NEW s \in Seq(Frame), NEW u \in Seq(Frame), Called(s), Len(u) = Len(s) + 1,
           \A j \in 1 .. Len(s) : u[j] = s[j], InList(s), ListOf(s).group
    PROVE  Held(u) = Held(s)
<1>1. Len(s) \in Nat /\ Len(s) >= 3 /\ s[3].k = "list" BY DEF InList
<1>2. 3 \in 1 .. Len(s) BY <1>1
<1>3. u[3] = s[3] BY <1>2
<1>4. InList(u) /\ ~InArchive(u) /\ ~InArchive(s) BY <1>1, <1>3 DEF InList, InArchive
<1>5. ListOf(u) = ListOf(s) BY <1>3 DEF ListOf
<1>6. QED BY <1>4, <1>5 DEF Held

\* A library is opened: no search changes.
LEMMA DllStep ==
    ASSUME LInv, LInv', world' = world, NEW f, NEW whole, NEW level, File(f).kind = "dll",
           AddFile(f, whole, level, Advanced)
    PROVE  [Demand!DemandNext]_Demand!demandVars
<1> DEFINE t == Advanced
           c == [k |-> "dll", f |-> f, i |-> 1]
<1>1. loaded' = loaded /\ (stack' = t \/ stack' = Append(t, c)) BY DEF AddFile
<1>2. /\ stack' \in Seq(Frame) /\ Called(stack') /\ SearchingIn(stack') = Held(stack')
      /\ stack \in Seq(Frame) /\ Called(stack) /\ SearchingIn(stack) = Held(stack)
  BY After
<1>3. t \in Seq(Frame) /\ Called(t) /\ Held(t) = Held(stack) BY <1>2, AdvancedHeld
<1>4. c.k = "dll" OBVIOUS
<1> HIDE DEF t, c
<1>5. Held(stack') = Held(t)
  <2>1. CASE stack' = t BY <2>1
  <2>2. CASE stack' = Append(t, c)
    <3> DEFINE u == Append(t, c)
    <3>1. Len(u) = Len(t) + 1 /\ u[Len(u)] = c /\ \A j \in 1 .. Len(t) : u[j] = t[j] BY <1>3, Appended
    <3>2. u \in Seq(Frame) /\ Called(u) BY <1>2, <2>2
    <3>3. u[Len(u)].k \in {"whole", "script", "dll"} BY <1>4, <3>1
    <3> HIDE DEF u
    <3>4. Held(u) = Held(t) BY <1>3, <3>1, <3>2, <3>3, HeldBelow
    <3>5. QED BY <2>2, <3>4 DEF u
  <2>3. QED BY <1>1, <2>1, <2>2
<1>6. QED BY <1>1, <1>2, <1>3, <1>5, NothingDemanded

\* The next library that a library needs
LEMMA DllNeedsDemands == ASSUME LInv, LInv', DllNeeds PROVE [Demand!DemandNext]_Demand!demandVars
<1> DEFINE needed == File(top.f).needed
<1>1. world' = world /\ top.k = "dll" /\ pc = "load" BY DEF DllNeeds, Doing
<1>2. /\ stack' \in Seq(Frame) /\ Called(stack') /\ SearchingIn(stack') = Held(stack')
      /\ stack \in Seq(Frame) /\ Called(stack) /\ SearchingIn(stack) = Held(stack)
  BY <1>1, After
<1>3. CASE top.i > Len(needed)
  <2>1. stack' = pop /\ loaded' = loaded BY <1>3 DEF DllNeeds, symbols
  <2>2. Len(stack) > 1 BY <1>1, TopMeans
  <2>3. Len(pop) = Len(stack) - 1 /\ (\A j \in 1 .. Len(stack) - 1 : pop[j] = stack[j]) BY <1>2, <2>2, Popped DEF pop
  <2>4. Len(stack) \in Nat /\ stack[Len(stack)].k = "dll" BY <1>1, <1>2, TopIs
  <2> DEFINE s == stack'
  <2>5. s \in Seq(Frame) /\ Called(s) /\ Len(stack) = Len(s) + 1 /\ \A j \in 1 .. Len(s) : stack[j] = s[j]
    BY <1>2, <2>1, <2>3, <2>4
  <2> HIDE DEF s
  <2>6. Held(stack) = Held(s) BY <1>2, <2>4, <2>5, HeldBelow
  <2>7. QED BY <1>1, <1>2, <2>1, <2>6, NothingDemanded DEF s
<1>4. CASE top.i <= Len(needed) /\ \E i \in DOMAIN dlls : dlls[i].f = needed[top.i]
  <2>1. ~(top.i > Len(needed))
    <3>1. top.i \in Nat BY <1>2, TopIs
    <3>2. Len(needed) \in Nat BY <1>1, TopMeans, InvFacts, FileKinds
    <3>3. QED BY <1>4, <3>1, <3>2
  <2>2. stack' = Advanced /\ loaded' = loaded BY <1>4, <2>1 DEF DllNeeds, symbols
  <2>3. Held(Advanced) = Held(stack) BY <1>2, AdvancedHeld
  <2>4. QED BY <1>1, <1>2, <2>2, <2>3, NothingDemanded
<1>5. CASE ~(top.i > Len(needed)) /\ ~\E i \in DOMAIN dlls : dlls[i].f = needed[top.i]
  <2>1. AddFile(needed[top.i], WholeArchives, 1, Advanced) BY <1>5 DEF DllNeeds
  <2>2. WorldKnown /\ top.i \in Nat \ {0} BY <1>2, InvFacts, TopIs
  <2>3. top.f \in DOMAIN world.file /\ File(top.f).kind = "dll" BY <1>1, TopMeans
  <2>4. needed \in Seq(OfKind(world, {"dll"})) BY <2>2, <2>3, FileKinds
  <2>5. top.i \in DOMAIN needed BY <1>5, <2>2, <2>4
  <2>6. needed[top.i] \in OfKind(world, {"dll"}) BY <2>4, <2>5, ElementOfSeq
  <2>7. File(needed[top.i]).kind = "dll" BY <2>6 DEF OfKind, File
  <2>8. QED BY <1>1, <2>1, <2>7, DllStep
<1>6. top.i > Len(needed) \/ top.i <= Len(needed)
  <2>1. top.i \in Nat BY <1>2, TopIs
  <2>2. Len(needed) \in Nat BY <1>1, TopMeans, InvFacts, FileKinds
  <2>3. QED BY <2>1, <2>2
<1>7. QED BY <1>3, <1>4, <1>5, <1>6

\* The next list of a script
LEMMA ScriptDemands == ASSUME LInv, LInv', Script PROVE [Demand!DemandNext]_Demand!demandVars
<1>1. world' = world /\ top.k = "script" /\ loaded' = loaded BY DEF Script, Doing
<1>2. /\ stack' \in Seq(Frame) /\ Called(stack') /\ SearchingIn(stack') = Held(stack')
      /\ stack \in Seq(Frame) /\ Called(stack) /\ SearchingIn(stack) = Held(stack)
  BY <1>1, After
<1>3. Len(stack) = 2 /\ stack[2] = top /\ WorldKnown BY <1>1, TopMeans, InvFacts
<1>4. Held(stack) = {} BY <1>1, <1>3 DEF Held, InArchive, InList
<1>5. CASE top.i <= Len(File(top.f).lists)
  <2> DEFINE c == [k |-> "list", f |-> top.f, l |-> top.i, i |-> 1, again |-> FALSE]
  <2>1. stack' = Append(Advanced, c) BY <1>5 DEF Script
  <2>2. Advanced \in Seq(Frame) /\ Len(Advanced) = 2 BY <1>2, <1>3, AdvancedHeld
  <2>3. Len(stack') = 3 /\ stack'[3] = c
    <3> DEFINE t == Advanced
    <3>1. t \in Seq(Frame) /\ Len(t) = 2 /\ stack' = Append(t, c) BY <2>1, <2>2
    <3> HIDE DEF t, c
    <3>2. Len(Append(t, c)) = Len(t) + 1 /\ Append(t, c)[Len(t) + 1] = c BY <3>1, Appended
    <3>3. Len(t) + 1 = 3 BY <3>1
    <3>4. QED BY <3>1, <3>2, <3>3
  <2>4. top.f \in DOMAIN world.file /\ File(top.f).kind = "script" /\ top.i \in Nat \ {0} BY <1>1, <1>2, TopMeans, TopIs
  <2> DEFINE ls == File(top.f).lists
             L == [group : BOOLEAN, files : Seq(OfKind(world, {"ar", "dll"}))]
  <2>5. ls \in Seq(L) BY <1>3, <2>4, FileKinds
  <2> HIDE DEF L
  <2>6. ls[top.i] \in L
    <3>1. top.i \in DOMAIN ls BY <1>5, <2>4, <2>5
    <3>2. QED BY <2>5, <3>1, ElementOfSeq
  <2>7. ls[top.i].files \in Seq(OfKind(world, {"ar", "dll"})) BY <2>6 DEF L
  <2>8. Range(ls[top.i].files) \subseteq DOMAIN world.file
    <3>1. \A x \in Range(ls[top.i].files) : x \in OfKind(world, {"ar", "dll"})
      BY <2>7, ElementOfSeq DEF Range
    <3>2. QED BY <3>1 DEF OfKind
  <2>9. ArchivesAmong(Range(ls[top.i].files)) \subseteq DOMAIN world.lib BY <1>3, <2>8, MembersKnown
  <2>10. ListOf(stack') = ls[top.i] BY <2>3 DEF ListOf
  <2>11. Held(stack') \subseteq DOMAIN world.lib
    <3>1. ~InArchive(stack') /\ Len(stack') # 4 BY <2>3 DEF InArchive
    <3>2. Held(stack') \in {{}, ArchivesAmong(Range(ListOf(stack').files))} BY <3>1 DEF Held
    <3>3. QED BY <2>9, <2>10, <3>2
  <2>12. QED BY <1>1, <1>2, <1>4, <2>11, SearchBegins
<1>6. CASE ~(top.i <= Len(File(top.f).lists))
  <2>1. stack' = pop BY <1>6 DEF Script
  <2>2. Len(stack') = 1
    <3>1. Len(stack) > 1 BY <1>3
    <3>2. Len(pop) = Len(stack) - 1 BY <1>2, <3>1, Popped DEF pop
    <3>3. QED BY <1>3, <2>1, <3>2
  <2>3. Held(stack') = {} BY <2>2 DEF Held, InArchive, InList
  <2>4. QED BY <1>1, <1>2, <1>4, <2>3, NothingDemanded
<1>7. QED BY <1>5, <1>6

\* Binding loads nothing.
LEMMA BindExeDemands == ASSUME LInv, LInv', BindExe PROVE [Demand!DemandNext]_Demand!demandVars
<1>1. world' = world /\ stack' = stack /\ loaded' = loaded BY DEF BindExe
<1>2. QED BY <1>1, NothingDemanded

\* A stuttering step
LEMMA IdleDemands == ASSUME UNCHANGED vars PROVE [Demand!DemandNext]_Demand!demandVars
<1>1. world' = world /\ stack' = stack /\ loaded' = loaded BY DEF vars
<1>2. QED BY <1>1, NothingDemanded

\* What is loaded by name: an object file, or a member of an archive
LEMMA LoadedIsNew ==
    ASSUME LInv, LInv', world' = world, pc = "load", NEW m \in DOMAIN world.lib, NEW stk, LoadObject(m, stk)
    PROVE  Range(loaded') = Range(loaded) \cup {m}
<1>1. WorldKnown /\ LinkTypes /\ Tabled(tab, Range(loaded)) /\ OncesKept(once, Range(loaded)) BY InvFacts
<1>2. QED BY <1>1, LoadObjectDoes

\* The objects named on the command line are asked for.
LEMMA Asked ==
    ASSUME WorldKnown
    PROVE  /\ \A f \in DOMAIN world.file : File(f).kind = "obj" => [f |-> f, k |-> 1] \in AskedOf(world)
           /\ \A c \in Range(world.cmd) : File(c.f).kind = "ar" /\ c.whole = TRUE => Members(c.f) \subseteq AskedOf(world)
<1>1. ASSUME NEW f \in DOMAIN world.file, File(f).kind = "obj" PROVE [f |-> f, k |-> 1] \in AskedOf(world)
  <2>1. Len(world.file[f].objs) = 1 /\ world.file[f].objs \in Seq(ObjectFile)
    BY <1>1 DEF WorldKnown, PlainWorld, WellTyped, OfKind, File
  <2>2. 1 \in DOMAIN world.file[f].objs BY <2>1
  <2>3. QED BY <1>1, <2>2 DEF AskedOf, File
<1>2. ASSUME NEW c \in Range(world.cmd), File(c.f).kind = "ar", c.whole = TRUE PROVE Members(c.f) \subseteq AskedOf(world)
  BY <1>2 DEF AskedOf, File, Members
<1>3. QED BY <1>1, <1>2

\* The next member of an archive of which everything is taken
LEMMA WholeArchiveDemands == ASSUME LInv, LInv', WholeArchive PROVE [Demand!DemandNext]_Demand!demandVars
<1> DEFINE i == top.i
           f == top.f
           m == [f |-> f, k |-> i]
<1>1. world' = world /\ top.k = "whole" /\ pc = "load" BY DEF WholeArchive, Doing
<1>2. /\ stack' \in Seq(Frame) /\ Called(stack') /\ SearchingIn(stack') = Held(stack')
      /\ stack \in Seq(Frame) /\ Called(stack) /\ SearchingIn(stack) = Held(stack)
  BY <1>1, After
<1>3. Len(stack) = 2 /\ stack[2] = top /\ WorldKnown /\ LinkTypes /\ i \in Nat \ {0} BY <1>1, <1>2, TopMeans, InvFacts, TopIs
<1>4. Held(stack) = {} BY <1>1, <1>3 DEF Held, InArchive, InList
<1>5. f \in DOMAIN world.file /\ File(f).kind = "ar" BY <1>1, TopMeans
<1>6. CASE i <= Len(File(f).objs)
  <2>8. LoadObject(m, Advanced) BY <1>6 DEF WholeArchive
  <2>2. m \in DOMAIN world.lib /\ m \in Members(f)
    <3>1. File(f).objs \in Seq(ObjectFile) BY <1>3, <1>5, FileKinds
    <3>2. i \in DOMAIN File(f).objs BY <1>3, <1>6, <3>1
    <3>3. QED BY <1>3, <1>5, <3>2, FileKinds DEF Members
  <2>1. LoadObject(m, Advanced) /\ stack' = Advanced
    <3> DEFINE stk == Advanced
    <3>1. stk \in Seq(Frame) /\ Called(stk) /\ Len(stk) < 3
      <4>1. stack \in Seq(Frame) /\ Called(stack) BY <1>2
      <4>2. Advanced \in Seq(Frame) /\ Called(Advanced) /\ Len(Advanced) = Len(stack) BY ONLY <4>1, AdvancedHeld
      <4>3. Len(Advanced) = 2 BY <1>3, <4>2
      <4>4. QED BY <4>2, <4>3
    <3>2. LoadObject(m, stk) BY <2>8
    <3> HIDE DEF m, stk
    <3>3. stack' = stk BY <1>1, <2>2, <3>1, <3>2, NotCaught
    <3>4. QED BY <3>2, <3>3 DEF stk
  <2>3. m \notin Range(loaded)
    <3>1. SUFFICES ASSUME m \in Range(loaded) PROVE FALSE OBVIOUS
    <3>2. Fresh(stack, Range(loaded)) BY <1>1, InvFacts
    <3>3. Len(stack) > 1 /\ stack[2].k = "whole" /\ m.f = stack[2].f /\ m.k = i /\ stack[2].i = i BY <1>1, <1>3
    <3> HIDE DEF m, i
    <3>4. i < i BY <3>1, <3>2, <3>3 DEF Fresh
    <3>5. QED BY <1>3, <3>4
  <2>4. m \in AskedOf(world)
    <3>1. 2 \in 1 .. Len(stack) BY <1>3
    <3>2. /\ stack[1].i - 1 \in DOMAIN world.cmd /\ stack[2].f = world.cmd[stack[1].i - 1].f
          /\ stack[2].k = "whole" => world.cmd[stack[1].i - 1].whole
      BY <1>2, <1>3, <3>1, FramesMean
    <3> DEFINE c == world.cmd[stack[1].i - 1]
    <3>3. c \in Range(world.cmd) /\ c.f = f /\ c.whole BY <1>1, <1>3, <3>2 DEF Range
    <3> HIDE DEF c, f, i
    <3>6. c.whole = TRUE
      <4>1. world.cmd \in Seq([f : DOMAIN world.file, whole : BOOLEAN]) BY <1>3, FileKinds
      <4> DEFINE cmd == world.cmd
                 C == [f : DOMAIN world.file, whole : BOOLEAN]
      <4>2. cmd \in Seq(C) BY <4>1
      <4>3. \E x \in DOMAIN cmd : c = cmd[x] BY <3>3 DEF Range
      <4>4. \A b \in C : b.whole \in BOOLEAN OBVIOUS
      <4> HIDE DEF cmd, C
      <4>5. c \in C BY <4>2, <4>3, ElementOfSeq
      <4>6. QED BY <3>3, <4>4, <4>5
    <3>4. Members(c.f) \subseteq AskedOf(world) BY <1>3, <1>5, <3>3, <3>6, Asked
    <3>5. QED BY <2>2, <3>3, <3>4
  <2>5. Range(loaded') = Range(loaded) \cup {m} BY <1>1, <2>1, <2>2, LoadedIsNew
  <2>6. Held(Advanced) = Held(stack) BY <1>2, AdvancedHeld
  <2> HIDE DEF m
  <2>7. QED BY <1>1, <1>2, <2>1, <2>2, <2>3, <2>4, <2>5, <2>6, MemberDemanded
<1>7. CASE ~(i <= Len(File(f).objs))
  <2>1. stack' = pop /\ loaded' = loaded BY <1>7 DEF WholeArchive, symbols
  <2>2. Len(stack') = 1
    <3>1. Len(stack) > 1 BY <1>3
    <3>2. Len(pop) = Len(stack) - 1 BY <1>2, <3>1, Popped DEF pop
    <3>3. QED BY <1>3, <2>1, <3>2
  <2>3. Held(stack') = {} BY <2>2 DEF Held, InArchive, InList
  <2>4. QED BY <1>1, <1>2, <1>4, <2>1, <2>3, NothingDemanded
<1>8. QED BY <1>6, <1>7

\* The next file of the command line
LEMMA NextFileDemands == ASSUME LInv, LInv', NextFile PROVE [Demand!DemandNext]_Demand!demandVars
<1> DEFINE i == top.i
           f == world.cmd[i].f
           whole == world.cmd[i].whole
           t == Advanced
<1>1. world' = world /\ top.k = "cmd" /\ pc = "load" BY DEF NextFile, Doing
<1>2. /\ stack' \in Seq(Frame) /\ Called(stack') /\ SearchingIn(stack') = Held(stack')
      /\ stack \in Seq(Frame) /\ Called(stack) /\ SearchingIn(stack) = Held(stack)
  BY <1>1, After
<1>3. WorldKnown /\ LinkTypes /\ i \in Nat \ {0} /\ top = stack[Len(stack)] /\ Len(stack) \in Nat /\ Len(stack) >= 1
  BY <1>2, InvFacts, TopIs
<1>4. Len(stack) = 1
  <2>1. Len(stack) \in 1 .. Len(stack) BY <1>3
  <2>2. QED BY <1>1, <1>2, <1>3, <2>1, Positions
<1>5. stack[1] = top /\ Held(stack) = {} BY <1>3, <1>4 DEF Held, InArchive, InList
<1>6. t \in Seq(Frame) /\ Called(t) /\ Held(t) = {} /\ Len(t) = 1 BY <1>2, <1>4, <1>5, AdvancedHeld
<1>7. CASE ~(i <= Len(world.cmd))
  <2>1. stack' = stack /\ loaded' = loaded BY <1>7 DEF NextFile, symbols
  <2>2. QED BY <1>1, <2>1, NothingDemanded
<1>8. CASE i <= Len(world.cmd)
  <2>1. AddFile(f, whole, 0, t) BY <1>8 DEF NextFile
  <2>2. /\ i \in DOMAIN world.cmd /\ world.cmd[i] \in Range(world.cmd) /\ f \in DOMAIN world.file
        /\ DOMAIN world.cmd = 1 .. Len(world.cmd)
    <3>1. world.cmd \in Seq([f : DOMAIN world.file, whole : BOOLEAN]) BY <1>3, FileKinds
    <3>2. i \in DOMAIN world.cmd /\ DOMAIN world.cmd = 1 .. Len(world.cmd) BY <1>3, <1>8, <3>1
    <3> DEFINE cmd == world.cmd
               C == [f : DOMAIN world.file, whole : BOOLEAN]
    <3>3. cmd \in Seq(C) /\ i \in DOMAIN cmd BY <3>1, <3>2
    <3> HIDE DEF cmd, C, i
    <3>4. cmd[i] \in C BY <3>3, ElementOfSeq
    <3>5. cmd[i] \in Range(cmd) BY <3>3 DEF Range
    <3>6. QED BY <3>2, <3>3, <3>4, <3>5 DEF cmd, C
  <2>3. CASE File(f).kind = "obj"
    <3> DEFINE m == [f |-> f, k |-> 1]
    <3>6. LoadObject(m, t) BY <2>1, <2>3 DEF AddFile
    <3>2. m \in DOMAIN world.lib /\ m \in AskedOf(world) BY <1>3, <2>2, <2>3, FileKinds, Asked
    <3>1. LoadObject(m, t) /\ stack' = t
      <4> HIDE DEF m, t
      <4>1. Len(t) < 3 BY <1>6
      <4>2. QED BY <1>1, <1>6, <3>2, <3>6, <4>1, NotCaught
    <3>3. m \notin Range(loaded)
      <4>1. SUFFICES ASSUME m \in Range(loaded) PROVE FALSE OBVIOUS
      <4>2. Fresh(stack, Range(loaded)) BY <1>1, InvFacts
      <4>3. f \notin Listed(world) /\ \A j \in DOMAIN world.cmd : world.cmd[j].f = f => j = i
        BY <1>3, <2>2, <2>3 DEF WorldKnown, PlainWorld, NamedOnce, File
      <4>4. m.f = f OBVIOUS
      <4> HIDE DEF m, f
      <4>5. \E x \in DOMAIN world.cmd : x < stack[1].i /\ world.cmd[x].f = f BY <4>1, <4>2, <4>3, <4>4 DEF Fresh
      <4>6. i < i BY <1>5, <4>3, <4>5
      <4>7. QED BY <1>3, <4>6
    <3>4. Range(loaded') = Range(loaded) \cup {m} BY <1>1, <3>1, <3>2, LoadedIsNew
    <3> HIDE DEF m
    <3>5. QED BY <1>1, <1>2, <1>5, <1>6, <3>1, <3>2, <3>3, <3>4, MemberDemanded
  <2>4. CASE File(f).kind \in {"ar", "script"}
    <3> DEFINE c == IF File(f).kind = "script" THEN [k |-> "script", f |-> f, i |-> 1]
                    ELSE IF whole THEN [k |-> "whole", f |-> f, i |-> 1]
                    ELSE [k |-> "ar", f |-> f, i |-> 1, bound |-> FALSE]
    <3>1. stack' = Append(t, c) /\ loaded' = loaded
      <4>1. CASE File(f).kind = "ar" BY <2>1, <4>1 DEF AddFile, symbols
      <4>2. CASE File(f).kind = "script" BY <2>1, <4>2 DEF AddFile, symbols
      <4>3. QED BY <2>4, <4>1, <4>2
    <3>2. c.f = f /\ (c.k = "ar" => File(f).kind = "ar") BY <2>4
    <3> HIDE DEF c, t
    <3>3. Len(Append(t, c)) = 2 /\ Append(t, c)[2] = c
      <4>1. Len(Append(t, c)) = Len(t) + 1 /\ Append(t, c)[Len(t) + 1] = c BY <1>6, Appended
      <4>2. Len(t) + 1 = 2 BY <1>6
      <4>3. QED BY <4>1, <4>2
    <3>4. Held(stack') = IF c.k = "ar" THEN Members(f) ELSE {}
      <4>1. Len(stack') = 2 /\ stack'[2] = c BY <3>1, <3>3
      <4>2. QED BY <3>2, <4>1 DEF Held, InArchive, InList
    <3>5. Held(stack') \subseteq DOMAIN world.lib BY <1>3, <2>2, <3>2, <3>4, MembersKnown
    <3>6. QED BY <1>1, <1>2, <1>5, <3>1, <3>5, SearchBegins
  <2>5. CASE File(f).kind = "dll" BY <1>1, <2>1, <2>5, DllStep
  <2>6. File(f).kind \in {"obj", "ar", "script", "dll"} BY <1>3, <2>2, FileKinds
  <2>7. QED BY <2>3, <2>4, <2>5, <2>6
<1>9. QED BY <1>7, <1>8

\* An archive that is being searched is part of what is searched.
LEMMA ArchiveHeld ==
    ASSUME LInv, top.k = "ar" PROVE Members(top.f) \subseteq Held(stack)
<1>1. WorldKnown /\ Called(stack) /\ stack \in Seq(Frame) BY InvFacts
<1>2. top.f \in DOMAIN world.file /\ File(top.f).kind = "ar" BY TopMeans
<1>3. CASE Len(stack) = 2 /\ stack[2] = top BY <1>3 DEF Held, InArchive
<1>4. CASE Len(stack) = 4 /\ stack[4] = top /\ stack[3].k = "list"
  <2>1. InList(stack) /\ ~InArchive(stack) BY <1>4 DEF InList, InArchive
  <2>2. CASE ~ListOf(stack).group BY <1>4, <2>1, <2>2 DEF Held
  <2>3. CASE ListOf(stack).group
    <3> DEFINE fs == ListOf(stack).files
    <3>1. stack[3].i - 1 \in DOMAIN fs /\ stack[4].f = fs[stack[3].i - 1]
      <4>1. 4 \in 1 .. Len(stack) BY <1>4
      <4>2. QED BY <1>1, <1>4, <4>1, FramesMean DEF ListOf
    <3>2. top.f \in Range(fs) BY <1>4, <3>1 DEF Range
    <3> HIDE DEF fs
    <3>3. Members(top.f) \subseteq ArchivesAmong(Range(fs)) BY <1>2, <3>2 DEF ArchivesAmong
    <3>4. QED BY <2>1, <2>3, <3>3 DEF Held, fs
  <2>4. QED BY <2>2, <2>3
<1>5. QED BY <1>3, <1>4, TopMeans

\* The next name of an index
LEMMA ArchiveNameDemands == ASSUME LInv, LInv', ArchiveName PROVE [Demand!DemandNext]_Demand!demandVars
<1> DEFINE M == Range(loaded)
           f == top.f
           e == world.index[f][top.i]
           m == [f |-> e.f, k |-> e.k]
           x == Lookup(tab, e.name)
           j == top.i + 1
           d == [top EXCEPT !.i = j, !.bound = TRUE]
           t == Append(pop, d)
<1>1. pc = "load" /\ top.k = "ar" /\ world' = world /\ top.i <= Len(world.index[f]) BY DEF ArchiveName, Doing
<1>2. /\ stack' \in Seq(Frame) /\ Called(stack') /\ SearchingIn(stack') = Held(stack')
      /\ stack \in Seq(Frame) /\ Called(stack) /\ SearchingIn(stack) = Held(stack)
  BY <1>1, After
<1>3. WorldKnown /\ LinkTypes /\ Tabled(tab, M) /\ OncesKept(once, M) BY <1>1, InvFacts
<1>4. /\ m \in DOMAIN world.lib /\ m \in Members(f) /\ e.name \in world.lib[m].offers /\ e.name \in world.lib[m].defs
  BY <1>1, IndexedIs
<1>5. CASE x # 0 /\ tab[x].shndx = "UNDEF"
  <2>1. LoadObject(m, t) BY <1>5 DEF ArchiveName
  <2>2. e.name \in Missing(M) BY <1>3, <1>5, MissingIs
  <2>3. m \notin M BY <1>4, <2>2 DEF Missing
  <2>4. Wanted(m, M) BY <1>4, <2>2 DEF Wanted
  <2>5. m \in Held(stack) BY <1>1, <1>4, ArchiveHeld
  <2>6. Range(loaded') = M \cup {m} BY <1>1, <1>4, <2>1, LoadedIsNew
  <2>7. Held(t) = Held(stack) /\ t \in Seq(Frame) /\ Called(t) /\ Last(t).k = "ar"
    <3>1. top \in Frame /\ j \in Nat \ {0} /\ TRUE \in BOOLEAN
      <4>1. top \in Frame /\ top.i \in Nat \ {0} BY <1>2, TopIs
      <4>2. QED BY <4>1
    <3> HIDE DEF j
    <3>2. d \in Frame /\ SameCall(top, d) /\ d.k = "ar" BY <1>1, <3>1, WithBound
    <3> HIDE DEF d
    <3>3. SameCall(Last(stack), d) BY <3>2 DEF top
    <3>4. Instead(stack, t, d) BY <1>2, <3>2, <3>3, Replaced DEF Instead, pop
    <3>5. t \in Seq(Frame) /\ Called(t) /\ Last(t) = d BY <3>4 DEF Instead
    <3> HIDE DEF t
    <3>6. Held(t) = Held(stack) BY <1>2, <3>2, <3>3, <3>4, <3>5, HeldInstead
    <3>7. QED BY <3>2, <3>5, <3>6
  <2>10. m \in DOMAIN world.lib BY <1>4
  <2> HIDE DEF m, t
  <2>9. Held(stack') = Held(t)
    <3>1. stack' = t \/ (Repeated(t) # {} /\ stack' = SubSeq(t, 1, Max(Repeated(t))))
      BY <1>3, <2>1, <2>10, LoadObjectDoes
    <3>2. CASE stack' = t BY <3>2
    <3>3. CASE Repeated(t) # {} /\ stack' = SubSeq(t, 1, Max(Repeated(t)))
      <4> DEFINE s == SubSeq(t, 1, Max(Repeated(t)))
      <4>1. /\ Len(t) = 4 /\ t[3].k = "list" /\ File(t[3].f).lists[t[3].l].group = TRUE
            /\ s \in Seq(Frame) /\ Called(s) /\ Len(s) = 3 /\ s[1] = t[1] /\ s[2] = t[2] /\ s[3] = t[3]
        BY <2>7, <3>3, CaughtIs
      <4>2. stack' = s BY <3>3
      <4> HIDE DEF s
      <4>3. \A y \in 1 .. Len(s) : y = 1 \/ y = 2 \/ y = 3 BY <4>1
      <4>4. Len(t) = Len(s) + 1 /\ \A y \in 1 .. Len(s) : t[y] = s[y] BY <4>1, <4>3
      <4>5. InList(s) /\ ListOf(s).group BY <4>1 DEF InList, ListOf
      <4>6. Held(t) = Held(s) BY <2>7, <4>1, <4>4, <4>5, GroupBelow
      <4>7. QED BY <4>2, <4>6
    <3>4. QED BY <3>1, <3>2, <3>3
  <2>8. QED BY <1>1, <1>2, <1>4, <2>3, <2>4, <2>5, <2>6, <2>7, <2>9, <2>10, MemberDemanded
<1>6. CASE ~(x # 0 /\ tab[x].shndx = "UNDEF")
  <2>1. stack' = Advanced /\ loaded' = loaded BY <1>6 DEF ArchiveName, symbols
  <2>2. Held(Advanced) = Held(stack) BY <1>2, AdvancedHeld
  <2>3. QED BY <1>1, <1>2, <2>1, <2>2, NothingDemanded
<1>7. QED BY <1>5, <1>6

\* starting a call anew
LEMMA RestartHeld ==
    ASSUME stack \in Seq(Frame), Called(stack), NEW d \in Frame, SameCall(top, d) PROVE Held(Append(pop, d)) = Held(stack)
<1> DEFINE t == Append(pop, d)
<1>3. SameCall(Last(stack), d) BY DEF top
<1>4. Instead(stack, t, d) BY <1>3, Replaced DEF Instead, pop
<1>5. t \in Seq(Frame) BY <1>4 DEF Instead
<1> HIDE DEF t
<1>6. Held(t) = Held(stack) BY <1>3, <1>4, <1>5, HeldInstead
<1>7. QED BY <1>6 DEF t

\* The end of an index
LEMMA ArchiveDoneDemands == ASSUME LInv, LInv', ArchiveDone PROVE [Demand!DemandNext]_Demand!demandVars
<1> DEFINE M == Range(loaded)
           f == top.f
<1>1. pc = "load" /\ top.k = "ar" /\ world' = world /\ top.i > Len(world.index[f]) /\ loaded' = loaded
  BY DEF ArchiveDone, Doing, symbols
<1>2. /\ stack' \in Seq(Frame) /\ Called(stack') /\ SearchingIn(stack') = Held(stack')
      /\ stack \in Seq(Frame) /\ Called(stack) /\ SearchingIn(stack) = Held(stack)
  BY <1>1, After
<1>3. top \in Frame /\ top.bound \in BOOLEAN
  <2>1. top \in Frame BY <1>2, TopIs
  <2>2. QED BY <1>1, <2>1 DEF Frame
<1>4. CASE top.bound = TRUE
  <2> DEFINE d == [top EXCEPT !.i = 1, !.bound = FALSE]
  <2>1. stack' = Append(pop, d) BY <1>4 DEF ArchiveDone
  <2>5. 1 \in Nat \ {0} /\ FALSE \in BOOLEAN OBVIOUS
  <2>2. d \in Frame /\ SameCall(top, d) BY <1>1, <1>3, <2>5, WithBound
  <2> HIDE DEF d
  <2>3. Held(stack') = Held(stack) BY <1>2, <2>1, <2>2, RestartHeld
  <2>4. QED BY <1>1, <1>2, <2>3, NothingDemanded
<1>5. CASE top.bound = FALSE
  <2>1. stack' = pop BY <1>5 DEF ArchiveDone
  <2>2. \A m \in Members(f) : ~Wanted(m, M) BY <1>1, <1>5, ArchiveExhausted
  <2>3. Len(stack) > 1 BY <1>1, TopMeans
  <2>4. Len(pop) = Len(stack) - 1 /\ (\A y \in 1 .. Len(stack) - 1 : pop[y] = stack[y]) BY <1>2, <2>3, Popped DEF pop
  <2>5. CASE Len(stack) = 2 /\ stack[2] = top
    <3>1. Held(stack) = Members(f) BY <1>1, <2>5 DEF Held, InArchive
    <3>2. Len(stack') = 1 BY <2>1, <2>4, <2>5
    <3>3. Held(stack') = {} BY <3>2 DEF Held, InArchive, InList
    <3>4. QED BY <1>1, <1>2, <2>2, <3>1, <3>3, SearchEnds
  <2>6. CASE Len(stack) = 4 /\ stack[4] = top /\ stack[3].k = "list"
    <3> DEFINE s == stack'
    <3>1. Len(s) = 3 /\ Len(stack) = Len(s) + 1 /\ (\A y \in 1 .. Len(s) : stack[y] = s[y]) BY <2>1, <2>4, <2>6
    <3>2. s[3] = stack[3]
      <4>1. 3 \in 1 .. 3 OBVIOUS
      <4>2. QED BY <3>1, <4>1
    <3>3. s \in Seq(Frame) /\ Called(s) BY <1>2
    <3> HIDE DEF s
    <3>4. InList(s) /\ InList(stack) /\ ~InArchive(stack) /\ ~InArchive(s) /\ ListOf(s) = ListOf(stack)
      BY <2>6, <3>1, <3>2 DEF InList, InArchive, ListOf
    <3>5. CASE ListOf(s).group
      <4>1. Held(stack) = Held(s) BY <1>2, <3>1, <3>3, <3>4, <3>5, GroupBelow
      <4>2. QED BY <1>1, <1>2, <4>1, NothingDemanded DEF s
    <3>6. CASE ~ListOf(s).group
      <4>1. Held(stack) = Members(f) BY <1>1, <2>6, <3>4, <3>6 DEF Held
      <4>2. Held(s) = {} BY <3>1, <3>4, <3>6 DEF Held
      <4>3. QED BY <1>1, <1>2, <2>2, <4>1, <4>2, SearchEnds DEF s
    <3>7. QED BY <3>5, <3>6
  <2>7. QED BY <1>1, <2>5, <2>6, TopMeans
<1>6. QED BY <1>3, <1>4, <1>5

\* The next file of a list
LEMMA ListFileDemands == ASSUME LInv, LInv', ListFile PROVE [Demand!DemandNext]_Demand!demandVars
<1> DEFINE i == top.i
           f == top.f
           t == Advanced
           fs == List.files
           g == fs[i]
<1>1. pc = "load" /\ top.k = "list" /\ world' = world /\ i <= Len(fs) /\ AddFile(g, WholeArchives, 0, t)
  BY DEF ListFile, Doing
<1>2. /\ stack' \in Seq(Frame) /\ Called(stack') /\ SearchingIn(stack') = Held(stack')
      /\ stack \in Seq(Frame) /\ Called(stack) /\ SearchingIn(stack) = Held(stack)
  BY <1>1, After
<1>3. WorldKnown /\ Len(stack) = 3 /\ stack[3] = top /\ stack[2].k = "script" /\ i \in Nat \ {0}
  BY <1>1, <1>2, InvFacts, TopMeans, TopIs
<1>4. ListOf(stack) = List BY <1>3 DEF ListOf, List
<1>5. g \in OfKind(world, {"ar", "dll"})
  <2>1. 3 \in 1 .. Len(stack) BY <1>3
  <2>2. f \in OfKind(world, {"script"}) /\ top.l \in DOMAIN File(f).lists BY <1>1, <1>2, <1>3, <2>1, FramesMean
  <2>3. f \in DOMAIN world.file /\ File(f).kind = "script" BY <2>2 DEF OfKind, File
  <2> DEFINE ls == File(f).lists
             L == [group : BOOLEAN, files : Seq(OfKind(world, {"ar", "dll"}))]
  <2>4. ls \in Seq(L) /\ top.l \in DOMAIN ls /\ List = ls[top.l] BY <1>3, <2>2, <2>3, FileKinds DEF List
  <2> HIDE DEF ls, L
  <2>5. List \in L BY <2>4, ElementOfSeq
  <2>6. fs \in Seq(OfKind(world, {"ar", "dll"})) BY <2>5 DEF L
  <2> HIDE DEF fs, i
  <2>7. i \in DOMAIN fs BY <1>1, <1>3, <2>6
  <2>8. QED BY <2>6, <2>7, ElementOfSeq
<1>6. g \in DOMAIN world.file /\ (File(g).kind = "ar" \/ File(g).kind = "dll") BY <1>5 DEF OfKind, File
<1>7. CASE File(g).kind = "dll" BY <1>1, <1>7, DllStep
<1>8. CASE File(g).kind = "ar"
  <2> DEFINE c == [k |-> "ar", f |-> g, i |-> 1, bound |-> FALSE]
             u == Append(t, c)
  <2>0. WholeArchives = FALSE BY <1>2, <1>3, OnDemand
  <2>1. stack' = u /\ loaded' = loaded BY <1>1, <1>8, <2>0 DEF AddFile, symbols
  <2>2. t \in Seq(Frame) /\ Called(t) /\ Held(t) = Held(stack) /\ Len(t) = 3 BY <1>2, <1>3, AdvancedHeld
  <2>3. c.k = "ar" /\ c.f = g OBVIOUS
  <2>4. t[3].k = "list" /\ ListOf(t) = List
    <3>1. Instead(stack, t, [top EXCEPT !.i = @ + 1]) BY <1>2, AdvancedIs
    <3>2. t[3] = [top EXCEPT !.i = @ + 1] BY <1>3, <3>1 DEF Instead
    <3>3. top \in Frame BY <1>2, TopIs
    <3>4. t[3].k = "list" /\ t[3].f = top.f /\ t[3].l = top.l BY <1>1, <3>2, <3>3 DEF Frame
    <3>5. QED BY <3>4 DEF ListOf, List
  <2> HIDE DEF c, t
  <2>5. Len(u) = Len(t) + 1 /\ u[Len(t) + 1] = c /\ \A y \in 1 .. Len(t) : u[y] = t[y]
    <3>1. t \in Seq(Frame) BY <2>2
    <3> HIDE DEF fs, g, i, f
    <3>2. QED BY ONLY <3>1, Appended
  <2>6. u \in Seq(Frame) BY <1>2, <2>1
  <2> HIDE DEF u
  <2>7. InList(t) BY <2>2, <2>4 DEF InList
  <2>8. CASE ListOf(t).group
    <3>1. Held(u) = Held(t) BY <2>2, <2>5, <2>6, <2>7, <2>8, GroupBelow
    <3>2. QED BY <1>1, <1>2, <2>1, <2>2, <3>1, NothingDemanded
  <2>9. CASE ~ListOf(t).group
    <3>1. Held(stack) = {} BY <1>1, <1>3, <1>4, <2>4, <2>9 DEF Held, InArchive, InList
    <3>2. Len(u) = 4 /\ u[4] = c /\ u[3] = t[3]
      <4>1. 3 \in 1 .. 3 /\ 3 + 1 = 4 OBVIOUS
      <4>2. QED BY <2>2, <2>5, <4>1
    <3>3. InList(u) /\ ~InArchive(u) /\ ListOf(u) = ListOf(t) BY <2>4, <3>2 DEF InList, InArchive, ListOf
    <3>4. Held(u) = Members(g) BY <2>3, <2>9, <3>2, <3>3 DEF Held
    <3>5. Held(stack') \subseteq DOMAIN world.lib BY <1>3, <1>6, <1>8, <2>1, <3>4, MembersKnown
    <3>6. QED BY <1>1, <1>2, <2>1, <3>1, <3>5, SearchBegins
  <2>10. QED BY <2>8, <2>9
<1>9. QED BY <1>6, <1>7, <1>8

\* The end of a list
LEMMA ListDoneDemands == ASSUME LInv, LInv', ListDone PROVE [Demand!DemandNext]_Demand!demandVars
<1> DEFINE M == Range(loaded)
           fs == List.files
           i == top.i
<1>1. /\ pc = "load" /\ top.k = "list" /\ world' = world /\ i > Len(fs) /\ loaded' = loaded
      /\ stack' = IF List.group /\ newUndef THEN Append(pop, [top EXCEPT !.i = 1, !.again = TRUE]) ELSE pop
  BY DEF ListDone, Doing
<1>2. /\ stack' \in Seq(Frame) /\ Called(stack') /\ SearchingIn(stack') = Held(stack')
      /\ stack \in Seq(Frame) /\ Called(stack) /\ SearchingIn(stack) = Held(stack)
  BY <1>1, After
<1>3. /\ WorldKnown /\ newUndef \in BOOLEAN /\ Len(stack) = 3 /\ stack[3] = top /\ stack[2].k = "script"
      /\ Exhausted(stack, newUndef, M) /\ i \in Nat \ {0} /\ top \in Frame
  BY <1>1, <1>2, InvFacts, TopMeans, TopIs
<1>4. ListOf(stack) = List /\ InList(stack) /\ ~InArchive(stack) BY <1>1, <1>3 DEF ListOf, List, InList, InArchive
<1>5. CASE List.group /\ newUndef
  <2> DEFINE d == [top EXCEPT !.i = 1, !.again = TRUE]
  <2>1. stack' = Append(pop, d) BY <1>1, <1>5
  <2>2. File(top.f).lists[top.l].group = TRUE
    <3>1. List.group = TRUE BY <1>5
    <3>2. QED BY <3>1 DEF List
  <2>3. d \in Frame /\ SameCall(top, d) BY <1>1, <1>3, <2>2, WithAgain
  <2> HIDE DEF d
  <2>4. Held(stack') = Held(stack) BY <1>2, <2>1, <2>3, RestartHeld
  <2>5. QED BY <1>1, <1>2, <2>4, NothingDemanded
<1>6. CASE ~(List.group /\ newUndef)
  <2>1. stack' = pop BY <1>1, <1>6
  <2>2. Len(stack) > 1 BY <1>3
  <2>3. Len(pop) = Len(stack) - 1 /\ (\A y \in 1 .. Len(stack) - 1 : pop[y] = stack[y]) BY <1>2, <2>2, Popped DEF pop
  <2>4. Len(stack') = 2 /\ stack'[2] = stack[2]
    <3>1. 2 \in 1 .. 3 - 1 /\ 3 - 1 = 2 OBVIOUS
    <3>2. QED BY <1>3, <2>1, <2>3, <3>1
  <2>5. Held(stack') = {} BY <1>3, <2>4 DEF Held, InArchive, InList
  <2>6. CASE ~List.group
    <3>1. Held(stack) = {} BY <1>3, <1>4, <2>6 DEF Held
    <3>2. QED BY <1>1, <1>2, <2>5, <3>1, NothingDemanded
  <2>7. CASE List.group /\ ~newUndef
    <3>1. Held(stack) = ArchivesAmong(Range(fs)) BY <1>4, <2>7 DEF Held
    <3>2. fs \in Seq(OfKind(world, {"ar", "dll"}))
      <4>1. 3 \in 1 .. Len(stack) BY <1>3
      <4>2. top.f \in OfKind(world, {"script"}) /\ top.l \in DOMAIN File(top.f).lists BY <1>1, <1>2, <1>3, <4>1, FramesMean
      <4>3. top.f \in DOMAIN world.file /\ File(top.f).kind = "script" BY <4>2 DEF OfKind, File
      <4> DEFINE ls == File(top.f).lists
                 L == [group : BOOLEAN, files : Seq(OfKind(world, {"ar", "dll"}))]
      <4>4. ls \in Seq(L) /\ top.l \in DOMAIN ls /\ List = ls[top.l] BY <1>3, <4>2, <4>3, FileKinds DEF List
      <4> HIDE DEF ls, L
      <4>5. List \in L BY <4>4, ElementOfSeq
      <4>6. QED BY <4>5 DEF L
    <3>9. newUndef = FALSE /\ List.group = TRUE
      <4>1. newUndef = FALSE BY <1>3, <2>7
      <4>2. List.group \in BOOLEAN
        <5>1. 3 \in 1 .. Len(stack) BY <1>3
        <5>2. top.f \in OfKind(world, {"script"}) /\ top.l \in DOMAIN File(top.f).lists BY <1>1, <1>2, <1>3, <5>1, FramesMean
        <5>3. top.f \in DOMAIN world.file /\ File(top.f).kind = "script" BY <5>2 DEF OfKind, File
        <5> DEFINE ls == File(top.f).lists
                   L == [group : BOOLEAN, files : Seq(OfKind(world, {"ar", "dll"}))]
        <5>4. ls \in Seq(L) /\ top.l \in DOMAIN ls /\ List = ls[top.l] BY <1>3, <5>2, <5>3, FileKinds DEF List
        <5> HIDE DEF ls, L
        <5>5. List \in L BY <5>4, ElementOfSeq
        <5>6. QED BY <5>5 DEF L
      <4>3. QED BY <2>7, <4>1, <4>2
    <3>3. /\ 3 \in 1 .. Len(stack) /\ stack[3].k = "list" /\ Last(stack).k # "ar"
          /\ File(stack[3].f).lists[stack[3].l] = List /\ stack[3].i = i
      <4>1. 3 \in 1 .. Len(stack) /\ stack[3].k = "list" BY <1>1, <1>3
      <4>2. Last(stack).k # "ar" BY <1>1 DEF top
      <4>3. File(stack[3].f).lists[stack[3].l] = List BY <1>3 DEF List
      <4>4. QED BY <1>3, <4>1, <4>2, <4>3
    <3>4. LET s3 == File(stack[3].f).lists[stack[3].l].files IN
          \A y \in 1 .. Len(s3) :
             y < stack[3].i /\ (y = stack[3].i - 1 => Last(stack).k # "ar") /\ File(s3[y]).kind = "ar" =>
                \A m \in Members(s3[y]) : ~Wanted(m, M)
      BY <1>2, <1>3, <3>3, <3>9, ListSearched
    <3> HIDE DEF fs, i
    <3>5. \A y \in 1 .. Len(fs) : y < i /\ File(fs[y]).kind = "ar" => \A m \in Members(fs[y]) : ~Wanted(m, M)
      BY <3>3, <3>4 DEF fs
    <3>6. \A y \in 1 .. Len(fs) : File(fs[y]).kind = "ar" => \A m \in Members(fs[y]) : ~Wanted(m, M)
      <4>1. Len(fs) \in Nat BY <3>2
      <4>2. \A y \in 1 .. Len(fs) : y < i BY <1>1, <1>3, <4>1
      <4>3. QED BY <3>5, <4>2
    <3>7. \A m \in ArchivesAmong(Range(fs)) : ~Wanted(m, M)
      <4>1. DOMAIN fs = 1 .. Len(fs) BY <3>2
      <4>2. \A g \in Range(fs) : \E y \in 1 .. Len(fs) : g = fs[y] BY <4>1 DEF Range
      <4>3. \A g \in Range(fs) : File(g).kind = "ar" => \A m \in Members(g) : ~Wanted(m, M) BY <3>6, <4>2
      <4>4. QED BY <4>3 DEF ArchivesAmong
    <3>8. QED BY <1>1, <1>2, <2>5, <3>1, <3>7, SearchEnds
  <2>8. QED BY <1>6, <2>6, <2>7
<1>7. QED BY <1>5, <1>6

\* At the beginning nothing is loaded.
LEMMA DemandInitially == ASSUME PlainCode, Init PROVE Demand!DemandInit
<1>1. LInv BY InitInv
<1>2. WorldKnown /\ stack \in Seq(Frame) /\ Called(stack) BY <1>1, InvFacts
<1>3. Len(stack) = 1 /\ loaded = <<>> BY DEF Init
<1>4. Searching = {}
  <2>1. ~InArchive(stack) /\ ~InList(stack) BY <1>3 DEF InArchive, InList
  <2>2. QED BY <1>2, <2>1, SoughtNothing, SearchingIsIn
<1>5. Range(loaded) = {} BY <1>3 DEF Range
<1>6. AskedOf(world) \subseteq DOMAIN world.lib
  <2>1. ASSUME NEW f \in DOMAIN world.file, File(f).kind = "obj", NEW k \in DOMAIN File(f).objs
        PROVE  [f |-> f, k |-> k] \in DOMAIN world.lib
    <3>1. Len(world.file[f].objs) = 1 /\ world.file[f].objs \in Seq(ObjectFile)
      BY <1>2, <2>1 DEF WorldKnown, PlainWorld, WellTyped, OfKind, File
    <3>2. k = 1 BY <2>1, <3>1 DEF File
    <3>3. QED BY <1>2, <2>1, <3>2, FileKinds
  <2>2. ASSUME NEW f \in DOMAIN world.file, File(f).kind = "ar", NEW k \in DOMAIN File(f).objs
        PROVE  [f |-> f, k |-> k] \in DOMAIN world.lib
    BY <1>2, <2>2, FileKinds
  <2>3. \A c \in Range(world.cmd) : c.f \in DOMAIN world.file
    <3>1. world.cmd \in Seq([f : DOMAIN world.file, whole : BOOLEAN]) BY <1>2, FileKinds
    <3> DEFINE cmd == world.cmd
               C == [f : DOMAIN world.file, whole : BOOLEAN]
    <3>2. \A b \in C : b.f \in DOMAIN world.file OBVIOUS
    <3>3. cmd \in Seq(C) BY <3>1
    <3> HIDE DEF cmd, C
    <3>4. \A c \in Range(cmd) : c \in C BY <3>3, ElementOfSeq DEF Range
    <3>5. \A c \in Range(cmd) : c.f \in DOMAIN world.file BY <3>2, <3>4
    <3>6. QED BY <3>5 DEF cmd
  <2>4. QED BY <2>1, <2>2, <2>3 DEF AskedOf, File
<1>7. QED BY <1>4, <1>5, <1>6 DEF Demand!DemandInit, AskedOf, Members, File

\* The linker implements loading on demand when its worlds are plain.
THEOREM DemandLoaded == ASSUME PlainCode PROVE Spec => LoadsOnDemand
<1>1. Init => Demand!DemandInit BY DemandInitially
<1>2. ASSUME LInv, LInv', [Next]_vars PROVE [Demand!DemandNext]_Demand!demandVars
  <2>1. CASE NextFile BY <1>2, <2>1, NextFileDemands
  <2>2. CASE WholeArchive BY <1>2, <2>2, WholeArchiveDemands
  <2>3. CASE ArchiveName BY <1>2, <2>3, ArchiveNameDemands
  <2>4. CASE ArchiveDone BY <1>2, <2>4, ArchiveDoneDemands
  <2>5. CASE Script BY <1>2, <2>5, ScriptDemands
  <2>6. CASE ListFile BY <1>2, <2>6, ListFileDemands
  <2>7. CASE ListDone BY <1>2, <2>7, ListDoneDemands
  <2>8. CASE DllNeeds BY <1>2, <2>8, DllNeedsDemands
  <2>9. CASE BindExe BY <1>2, <2>9, BindExeDemands
  <2>10. CASE UNCHANGED vars BY <2>10, IdleDemands
  <2>11. QED BY <1>2, <2>1, <2>2, <2>3, <2>4, <2>5, <2>6, <2>7, <2>8, <2>9, <2>10 DEF Next
<1>3. Spec => []LInv BY LinkInductive
<1>4. QED BY <1>1, <1>2, <1>3, PTL DEF Spec, LoadsOnDemand, Demand!DemandSpec

-----------------------------------------------------------------------------
(* The relocations                                                         *)

\* Place, for the sections O of link-once names and the objects L
PlaceIn(O, L, k, j) == LET n == Object(L[k]).secs[j] IN IF n \in OnceName THEN O[n] ELSE <<k, j>>

\* symbol y of T is what relocation r of the k-th object is to
Meant(T, O, L, k, r, y) ==
    LET s == Object(L[k]).syms[r.sym] IN
    /\ s.bind # "LOCAL" => y \in 1 .. Len(T) /\ T[y].name = s.name /\ T[y].bind # "LOCAL"
    /\ s.bind = "LOCAL" => IF PlaceIn(O, L, k, s.sec) = <<k, s.sec>>
                           THEN y \in 1 .. Len(T) /\ T[y].bind = "LOCAL" /\ T[y].at = <<k, s.sec>>
                           ELSE y = 0

\* the entries whose section is in the program
Placed(O, L) ==
    {e \in EntryType :
       /\ e.bind = "LOCAL" => e.shndx \in {"bss", "data"}
       /\ e.shndx = "COMMON" => e.at[2] < 0
       /\ e.shndx \in {"bss", "data"} /\ e.at[1] > 0 /\ e.at[2] > 0 =>
             /\ e.at[1] \in 1 .. Len(L) /\ e.at[2] \in DOMAIN Object(L[e.at[1]]).secs
             /\ PlaceIn(O, L, e.at[1], e.at[2]) = e.at}

Relocation == [at : Nat \X Nat, off : Nat, sym : Nat]

OnceLoaded(O, L) ==
    /\ \A n \in DOMAIN O : \E k \in 1 .. Len(L) : \E j \in DOMAIN Object(L[k]).secs : O[n] = <<k, j>>
    /\ \A k \in 1 .. Len(L) : \A j \in DOMAIN Object(L[k]).secs :
          Object(L[k]).secs[j] \in OnceName => Object(L[k]).secs[j] \in DOMAIN O

\* every relocation of the objects is in R, once, and nothing else is
Relocated(T, R, O, L) ==
    /\ R \in Seq(Relocation)
    /\ \A i \in 1 .. Len(R) : \E k \in 1 .. Len(L) : \E r \in Range(Object(L[k]).rels) :
          R[i].at = <<k, r.sec>> /\ R[i].off = r.off /\ Meant(T, O, L, k, r, R[i].sym)
    /\ \A k \in 1 .. Len(L) : \A r \in Range(Object(L[k]).rels) :
          \E i \in 1 .. Len(R) : R[i].at = <<k, r.sec>> /\ R[i].off = r.off
    /\ \A i, j \in 1 .. Len(R) : R[i].at = R[j].at /\ R[i].off = R[j].off => i = j

RelocInv ==
    pc # "failed" => /\ tab \in Seq(Placed(once, loaded)) /\ OnceLoaded(once, loaded)
                     /\ Relocated(tab, rels, once, loaded)

\* An object is loaded: the sections that were in the program stay there, and those
\* of the object are in it unless they are discarded.
LEMMA SectionsLoaded ==
    ASSUME WorldKnown, RelocWorld(world), LinkTypes, OncesKept(once, Range(loaded)), OnceLoaded(once, loaded),
           NEW m \in DOMAIN world.lib, NEW stk, LoadObject(m, stk)
    PROVE  LET o == Object(m)
               k == Len(loaded) + 1
           IN  /\ o \in ObjectFile /\ Relocating(o) /\ Len(loaded) \in Nat
               /\ Len(loaded') = k /\ loaded'[k] = m /\ \A i \in 1 .. Len(loaded) : loaded'[i] = loaded[i]
               /\ OnceLoaded(once', loaded')
               /\ \A i \in 1 .. Len(loaded) : \A j \in DOMAIN Object(loaded[i]).secs :
                     PlaceIn(once', loaded', i, j) = PlaceIn(once, loaded, i, j)
               /\ \A j \in DOMAIN o.secs : Discarded(o, j) <=> PlaceIn(once', loaded', k, j) # <<k, j>>
<1> DEFINE o == Object(m)
           k == Len(loaded) + 1
           new == {j \in DOMAIN o.secs : o.secs[j] \in OnceName /\ ~Discarded(o, j)}
<1>1. loaded \in Seq(DOMAIN world.lib) /\ loaded' = Append(loaded, m) BY DEF LinkTypes, LoadObject
<1>2. o \in ObjectFile /\ o \in ObjectsOf(world) BY DEF WorldKnown, LibraryMeans
<1>3. Relocating(o) BY <1>2 DEF RelocWorld
<1>4. /\ Len(loaded) \in Nat /\ Len(loaded') = k /\ loaded'[k] = m
      /\ \A i \in 1 .. Len(loaded) : loaded'[i] = loaded[i]
  BY <1>1, AppendProperties
<1>5. once' = [n \in DOMAIN once \cup {o.secs[j] : j \in new} |->
                      IF n \in DOMAIN once THEN once[n] ELSE <<k, CHOOSE j \in new : o.secs[j] = n>>]
  BY DEF LoadObject
<1>6. \A n \in DOMAIN once : n \in DOMAIN once' /\ once'[n] = once[n] /\ n \in OnceName
  BY <1>5 DEF OncesKept
<1>7. ASSUME NEW j \in new PROVE o.secs[j] \in DOMAIN once' /\ once'[o.secs[j]] = <<k, j>>
  <2> DEFINE n == o.secs[j]
             c == CHOOSE i \in new : o.secs[i] = n
  <2>1. n \notin DOMAIN once /\ n \in OnceName /\ j \in DOMAIN o.secs BY <1>7 DEF Discarded
  <2>2. c \in new /\ o.secs[c] = n BY <1>7
  <2>3. c = j
    <3>1. \A x, y \in DOMAIN o.secs : o.secs[x] = o.secs[y] /\ o.secs[x] \in OnceName => x = y BY <1>3 DEF Relocating
    <3>2. c \in DOMAIN o.secs BY <2>2
    <3> HIDE DEF c
    <3>3. QED BY <2>1, <2>2, <3>1, <3>2
  <2>4. n \in {o.secs[x] : x \in new} BY <1>7
  <2>5. once'[n] = <<k, c>> /\ n \in DOMAIN once' BY <1>5, <2>1, <2>4
  <2>6. QED BY <2>3, <2>5
<1>8. \A n \in DOMAIN once' : n \in DOMAIN once \/ \E j \in new : n = o.secs[j] BY <1>5
<1>9. \A j \in DOMAIN o.secs : o.secs[j] \in OnceName => j \in new \/ o.secs[j] \in DOMAIN once BY DEF Discarded
<1>10. \A j \in DOMAIN o.secs : Discarded(o, j) <=> o.secs[j] \in DOMAIN once BY DEF Discarded
<1>11. \A j \in new : j \in DOMAIN o.secs /\ o.secs[j] \notin DOMAIN once BY DEF Discarded
<1>12. k \notin 1 .. Len(loaded) /\ k \in 1 .. k /\ \A i \in 1 .. k : i \in 1 .. Len(loaded) \/ i = k
  <2>1. Len(loaded) \in Nat BY <1>4
  <2> DEFINE l == Len(loaded)
  <2> HIDE DEF l
  <2>2. l + 1 \notin 1 .. l /\ l + 1 \in 1 .. l + 1 /\ \A i \in 1 .. l + 1 : i \in 1 .. l \/ i = l + 1 BY <2>1 DEF l
  <2>3. QED BY <2>2 DEF l
<1>13. \A i \in 1 .. Len(loaded) : i \in 1 .. k BY <1>4
<1>14. Object(loaded'[k]) = o BY <1>4
<1>15. \A i \in 1 .. Len(loaded) : Object(loaded'[i]) = Object(loaded[i]) BY <1>4
<1> HIDE DEF o, new, k
<1>16. OnceLoaded(once', loaded')
  <2>1. ASSUME NEW n \in DOMAIN once'
        PROVE  \E i \in 1 .. k : \E j \in DOMAIN Object(loaded'[i]).secs : once'[n] = <<i, j>>
    <3>1. CASE n \in DOMAIN once
      <4>1. PICK i \in 1 .. Len(loaded) : \E j \in DOMAIN Object(loaded[i]).secs : once[n] = <<i, j>>
        BY <3>1 DEF OnceLoaded
      <4>2. QED BY <1>6, <1>13, <1>15, <3>1, <4>1
    <3>2. CASE n \notin DOMAIN once
      <4>1. PICK j \in new : n = o.secs[j] BY <1>8, <3>2
      <4>2. QED BY <1>7, <1>11, <1>12, <1>14, <4>1
    <3>3. QED BY <3>1, <3>2
  <2>2. ASSUME NEW i \in 1 .. k, NEW j \in DOMAIN Object(loaded'[i]).secs, Object(loaded'[i]).secs[j] \in OnceName
        PROVE  Object(loaded'[i]).secs[j] \in DOMAIN once'
    <3>1. CASE i \in 1 .. Len(loaded)
      <4>1. Object(loaded[i]).secs[j] \in DOMAIN once BY <1>15, <2>2, <3>1 DEF OnceLoaded
      <4>2. QED BY <1>6, <1>15, <3>1, <4>1
    <3>2. CASE i = k BY <1>6, <1>7, <1>9, <1>14, <2>2, <3>2
    <3>3. QED BY <1>12, <3>1, <3>2
  <2>3. Len(loaded') = k BY <1>4
  <2>4. QED BY <2>1, <2>2, <2>3 DEF OnceLoaded
<1>17. ASSUME NEW i \in 1 .. Len(loaded), NEW j \in DOMAIN Object(loaded[i]).secs
       PROVE  PlaceIn(once', loaded', i, j) = PlaceIn(once, loaded, i, j)
  <2> DEFINE n == Object(loaded[i]).secs[j]
  <2>1. Object(loaded'[i]).secs[j] = n BY <1>15
  <2>2. n \in OnceName => n \in DOMAIN once BY DEF OnceLoaded
  <2>3. n \in OnceName => once'[n] = once[n] BY <1>6, <2>2
  <2>4. QED BY <2>1, <2>3 DEF PlaceIn
<1>18. ASSUME NEW j \in DOMAIN o.secs PROVE Discarded(o, j) <=> PlaceIn(once', loaded', k, j) # <<k, j>>
  <2> DEFINE n == o.secs[j]
  <2>1. PlaceIn(once', loaded', k, j) = IF n \in OnceName THEN once'[n] ELSE <<k, j>> BY <1>14 DEF PlaceIn
  <2>2. CASE Discarded(o, j)
    <3>1. n \in DOMAIN once BY <1>10, <2>2
    <3>2. PICK i \in 1 .. Len(loaded) : \E x \in DOMAIN Object(loaded[i]).secs : once[n] = <<i, x>>
      BY <3>1 DEF OnceLoaded
    <3>3. PICK x : once[n] = <<i, x>> BY <3>2
    <3>4. i # k BY <1>12
    <3>5. once'[n] = <<i, x>> /\ n \in OnceName BY <1>6, <3>1, <3>3
    <3>6. QED BY <2>1, <2>2, <3>4, <3>5
  <2>3. CASE ~Discarded(o, j)
    <3>1. n \in OnceName => once'[n] = <<k, j>> BY <1>7, <1>9, <1>10, <2>3
    <3>2. QED BY <2>1, <2>3, <3>1
  <2>4. QED BY <2>2, <2>3
<1>19. QED BY <1>2, <1>3, <1>4, <1>16, <1>17, <1>18 DEF o, k

\* the entries and the loaded objects are those of O and L, and a further object
MoreSections(O, L, O2, L2, m) ==
    LET o == Object(m)
        k == Len(L) + 1
    IN  /\ Len(L) \in Nat /\ Len(L2) = k /\ L2[k] = m /\ \A i \in 1 .. Len(L) : L2[i] = L[i]
        /\ \A i \in 1 .. Len(L) : \A j \in DOMAIN Object(L[i]).secs : PlaceIn(O2, L2, i, j) = PlaceIn(O, L, i, j)
        /\ \A j \in DOMAIN o.secs : Discarded(o, j) <=> PlaceIn(O2, L2, k, j) # <<k, j>>

\* Visibility says nothing about where an entry is.
LEMMA PlacedBlind == ASSUME NEW O, NEW L PROVE VisBlind(Placed(O, L))
<1> SUFFICES ASSUME NEW e \in Placed(O, L)
             PROVE  /\ e = [x \in DOMAIN e |-> e[x]] /\ {"name", "bind", "shndx", "vis"} \subseteq DOMAIN e
                    /\ e.name \in STRING /\ e.vis \in Visibilities
                    /\ \A v \in Visibilities : [e EXCEPT !.vis = v] \in Placed(O, L)
  BY DEF VisBlind
<1>1. e \in EntryType BY DEF Placed
<1>2. /\ e = [x \in DOMAIN e |-> e[x]] /\ {"name", "bind", "shndx", "vis"} \subseteq DOMAIN e
      /\ e.name \in STRING /\ e.vis \in Visibilities
  BY <1>1, EntryTypeBlind DEF VisBlind
<1>3. ASSUME NEW v \in Visibilities PROVE [e EXCEPT !.vis = v] \in Placed(O, L)
  <2> DEFINE f == [e EXCEPT !.vis = v]
  <2>1. f \in EntryType BY <1>1, EntryTypeBlind DEF VisBlind
  <2>2. f.bind = e.bind /\ f.shndx = e.shndx /\ f.at = e.at BY <1>1 DEF EntryType
  <2> HIDE DEF f
  <2>3. f \in Placed(O, L) BY <2>1, <2>2 DEF Placed
  <2>4. QED BY <2>3 DEF f
<1>4. QED BY <1>2, <1>3

\* What was in the program stays there.
LEMMA PlacedStays ==
    ASSUME NEW O, NEW L, NEW O2, NEW L2, NEW m, MoreSections(O, L, O2, L2, m)
    PROVE  Placed(O, L) \subseteq Placed(O2, L2)
<1> SUFFICES ASSUME NEW e \in Placed(O, L) PROVE e \in Placed(O2, L2) OBVIOUS
<1>1. e \in EntryType /\ (e.bind = "LOCAL" => e.shndx \in {"bss", "data"}) /\ (e.shndx = "COMMON" => e.at[2] < 0)
  BY DEF Placed
<1>2. ASSUME e.shndx \in {"bss", "data"}, e.at[1] > 0, e.at[2] > 0
      PROVE  /\ e.at[1] \in 1 .. Len(L2) /\ e.at[2] \in DOMAIN Object(L2[e.at[1]]).secs
             /\ PlaceIn(O2, L2, e.at[1], e.at[2]) = e.at
  <2>1. /\ e.at[1] \in 1 .. Len(L) /\ e.at[2] \in DOMAIN Object(L[e.at[1]]).secs
        /\ PlaceIn(O, L, e.at[1], e.at[2]) = e.at
    BY <1>2 DEF Placed
  <2> DEFINE k == e.at[1]
             j == e.at[2]
  <2> HIDE DEF k, j
  <2>2. k \in 1 .. Len(L) /\ j \in DOMAIN Object(L[k]).secs /\ PlaceIn(O, L, k, j) = e.at BY <2>1 DEF k, j
  <2>3. Len(L) \in Nat /\ Len(L2) = Len(L) + 1 BY DEF MoreSections
  <2>4. k \in 1 .. Len(L2)
    <3> DEFINE l == Len(L)
    <3> HIDE DEF l
    <3>1. l \in Nat /\ k \in 1 .. l /\ Len(L2) = l + 1 BY <2>2, <2>3 DEF l
    <3>2. QED BY <3>1
  <2>5. L2[k] = L[k] /\ PlaceIn(O2, L2, k, j) = PlaceIn(O, L, k, j) BY <2>2 DEF MoreSections
  <2>6. QED BY <2>2, <2>4, <2>5 DEF k, j
<1>3. QED BY <1>1, <1>2 DEF Placed

\* The symbols of the object are entered where its sections are.
LEMMA PlacedSymbol ==
    ASSUME NEW O, NEW L, NEW O2, NEW L2, NEW m, MoreSections(O, L, O2, L2, m),
           Object(m) \in ObjectFile, Relocating(Object(m)), Referring(Object(m)),
           NEW s \in Range(Object(m).syms), ~Skipped(Object(m), s)
    PROVE  EntryOf(Object(m), Len(L) + 1, s) \in Placed(O2, L2)
<1> DEFINE o == Object(m)
           k == Len(L) + 1
           e == EntryOf(o, k, s)
<1>1. k \in Nat /\ k > 0 /\ Len(L2) = k /\ L2[k] = m BY DEF MoreSections
<1>2. e \in EntryType BY <1>1, EntryTyped
<1>3. s \in Symbol
  <2>1. o.syms \in Seq(Symbol) BY DEF ObjectFile, Symbol
  <2>2. QED BY <2>1 DEF Range
<1>4. s.sec \in Int /\ s.sec \in -1 .. Len(o.secs) /\ (s.bind = "LOCAL" => s.sec > 0) BY <1>3 DEF Symbol, Referring, Relocating
<1>5. s.sec > 0 => s.sec \in DOMAIN o.secs
  <2>1. o.secs \in Seq(STRING) BY DEF ObjectFile
  <2>2. DOMAIN o.secs = 1 .. Len(o.secs) /\ Len(o.secs) \in Nat BY <2>1
  <2>3. QED BY <1>4, <2>2
<1>6. s.sec > 0 => PlaceIn(O2, L2, k, s.sec) = <<k, s.sec>> BY <1>5 DEF Skipped, MoreSections
<1>7. e.at = (IF s.sec = 0 THEN <<0, 0>> ELSE <<k, s.sec>>) /\ e.bind = s.bind BY EntryFields
<1>8. e.shndx = IF s.sec = 0 THEN "UNDEF" ELSE IF s.sec < 0 THEN "COMMON"
             ELSE IF o.secs[s.sec] = "bss" THEN "bss" ELSE "data" BY DEF EntryOf, Entry
<1>9. 1 \in Nat /\ k \in 1 .. Len(L2) BY <1>1
<1> HIDE DEF e, k, o
<1>10. e.bind = "LOCAL" => e.shndx \in {"bss", "data"} BY <1>4, <1>7, <1>8
<1>11. e.shndx = "COMMON" => e.at[2] < 0 BY <1>4, <1>7, <1>8
<1>12. ASSUME e.shndx \in {"bss", "data"}, e.at[1] > 0, e.at[2] > 0
       PROVE  /\ e.at[1] \in 1 .. Len(L2) /\ e.at[2] \in DOMAIN Object(L2[e.at[1]]).secs
              /\ PlaceIn(O2, L2, e.at[1], e.at[2]) = e.at
  <2>1. s.sec > 0 BY <1>4, <1>8, <1>12
  <2>2. e.at = <<k, s.sec>> BY <1>7, <2>1
  <2>3. Object(L2[k]) = o BY <1>1 DEF o
  <2>4. QED BY <1>5, <1>6, <1>9, <2>1, <2>2, <2>3
<1>13. QED BY <1>2, <1>10, <1>11, <1>12 DEF Placed, e, k, o

\* What a relocation is to stays the same.
LEMMA MeantStays ==
    ASSUME NEW O, NEW L, NEW O2, NEW L2, NEW m, MoreSections(O, L, O2, L2, m), NEW X, NEW T \in Seq(X), NEW U \in Seq(X),
           Stable(T, U), NEW k \in 1 .. Len(L), Object(L[k]) \in ObjectFile, Referring(Object(L[k])), Relocating(Object(L[k])),
           NEW r \in Range(Object(L[k]).rels), NEW y, Meant(T, O, L, k, r, y)
    PROVE  Meant(U, O2, L2, k, r, y)
<1> DEFINE o == Object(L[k])
           s == o.syms[r.sym]
<1>1. L2[k] = L[k] /\ Object(L2[k]) = o BY DEF MoreSections
<1>2. s \in Range(o.syms) /\ s \in Symbol
  <2>1. o.syms \in Seq(Symbol) BY DEF ObjectFile, Symbol
  <2>2. r.sym \in DOMAIN o.syms BY DEF Referring
  <2>3. QED BY <2>1, <2>2 DEF Range
<1>3. s.bind = "LOCAL" => s.sec > 0 /\ s.sec \in DOMAIN o.secs
  <2>1. o.secs \in Seq(STRING) BY DEF ObjectFile
  <2>2. DOMAIN o.secs = 1 .. Len(o.secs) /\ Len(o.secs) \in Nat BY <2>1
  <2>3. s.sec \in Int /\ s.sec \in -1 .. Len(o.secs) /\ (s.bind = "LOCAL" => s.sec > 0) BY <1>2 DEF Symbol, Referring, Relocating
  <2>4. QED BY <2>2, <2>3
<1>4. s.bind = "LOCAL" => PlaceIn(O2, L2, k, s.sec) = PlaceIn(O, L, k, s.sec) BY <1>3 DEF MoreSections
<1>5. \A i \in 1 .. Len(T) : /\ i \in 1 .. Len(U) /\ U[i].name = T[i].name
                             /\ (U[i].bind = "LOCAL" <=> T[i].bind = "LOCAL")
                             /\ (T[i].bind = "LOCAL" => U[i] = T[i])
  BY StableAt
<1>6. /\ s.bind # "LOCAL" => y \in 1 .. Len(T) /\ T[y].name = s.name /\ T[y].bind # "LOCAL"
      /\ s.bind = "LOCAL" => IF PlaceIn(O, L, k, s.sec) = <<k, s.sec>>
                             THEN y \in 1 .. Len(T) /\ T[y].bind = "LOCAL" /\ T[y].at = <<k, s.sec>>
                             ELSE y = 0
  BY DEF Meant
<1>7. Object(L2[k]).syms[r.sym] = s BY <1>1
<1> HIDE DEF s, o
<1>8. s.bind # "LOCAL" => y \in 1 .. Len(U) /\ U[y].name = s.name /\ U[y].bind # "LOCAL" BY <1>5, <1>6
<1>9. s.bind = "LOCAL" => IF PlaceIn(O2, L2, k, s.sec) = <<k, s.sec>>
                          THEN y \in 1 .. Len(U) /\ U[y].bind = "LOCAL" /\ U[y].at = <<k, s.sec>>
                          ELSE y = 0
  BY <1>4, <1>5, <1>6
<1>10. QED BY <1>7, <1>8, <1>9 DEF Meant

\* What the relocations of the object are to, when the linker accepts them
LEMMA MeantAtFirst ==
    ASSUME NEW O, NEW L, NEW O2, NEW L2, NEW m, MoreSections(O, L, O2, L2, m), "note" \notin OnceName,
           \A n \in DOMAIN once : n \in OnceName,
           Object(m) \in ObjectFile, Referring(Object(m)), Relocating(Object(m)),
           NEW a, a.once \in BOOLEAN, MapMeans(Object(m), Len(L) + 1, a, Len(Object(m).syms)),
           OnceMeans(Object(m), a, Len(Object(m).syms)),
           NEW r \in Range(Object(m).rels), ~(a.map[r.sym] = 0 /\ ~a.once)
    PROVE  Meant(a.tab, O2, L2, Len(L) + 1, r, a.map[r.sym])
<1> DEFINE o == Object(m)
           k == Len(L) + 1
           s == o.syms[r.sym]
           y == a.map[r.sym]
<1>1. Object(L2[k]) = o BY DEF MoreSections
<1>2. r.sym \in 1 .. Len(o.syms) /\ s \in Range(o.syms) /\ s \in Symbol
  <2>1. o.syms \in Seq(Symbol) BY DEF ObjectFile, Symbol
  <2>2. r.sym \in DOMAIN o.syms BY DEF Referring
  <2>3. QED BY <2>1, <2>2 DEF Range
<1>3. s.bind = "LOCAL" => s.sec > 0 /\ s.sec \in DOMAIN o.secs
  <2>1. o.secs \in Seq(STRING) BY DEF ObjectFile
  <2>2. DOMAIN o.secs = 1 .. Len(o.secs) /\ Len(o.secs) \in Nat BY <2>1
  <2>3. s.sec \in Int /\ s.sec \in -1 .. Len(o.secs) /\ (s.bind = "LOCAL" => s.sec > 0) BY <1>2 DEF Symbol, Referring, Relocating
  <2>4. QED BY <2>2, <2>3
<1>4. s.bind = "LOCAL" => (Discarded(o, s.sec) <=> PlaceIn(O2, L2, k, s.sec) # <<k, s.sec>>)
  BY <1>3 DEF MoreSections
<1>5. /\ s.bind # "LOCAL" => y \in 1 .. Len(a.tab) /\ a.tab[y].name = s.name /\ a.tab[y].bind # "LOCAL"
      /\ s.bind = "LOCAL" /\ Skipped(o, s) => y = 0
      /\ s.bind = "LOCAL" /\ ~Skipped(o, s) => y \in 1 .. Len(a.tab) /\ a.tab[y] = EntryOf(o, k, s)
  BY <1>2 DEF MapMeans
<1>6. s.bind = "LOCAL" /\ Discarded(o, s.sec) => Skipped(o, s) BY <1>3 DEF Skipped
<1>7. s.bind = "LOCAL" /\ ~Discarded(o, s.sec) /\ Skipped(o, s) => FALSE
  <2> SUFFICES ASSUME s.bind = "LOCAL", ~Discarded(o, s.sec), Skipped(o, s) PROVE FALSE OBVIOUS
  <2>1. o.secs[s.sec] = "note" BY DEF Skipped, Ignored
  <2>2. y = 0 BY <1>5
  <2>3. a.once = TRUE BY <2>2
  <2>4. PICK j \in 1 .. Len(o.syms) : /\ o.syms[j].sec > 0 /\ Discarded(o, o.syms[j].sec)
                                      /\ \A l \in 1 .. Len(o.syms) : l > j => o.syms[l].sec <= 0
    BY <2>3 DEF OnceMeans
  <2>5. o.secs[o.syms[j].sec] \in OnceName BY <2>4 DEF Discarded
  <2>6. DOMAIN o.syms = 1 .. Len(o.syms)
    <3>1. o.syms \in Seq(Symbol) BY DEF ObjectFile, Symbol
    <3>2. QED BY <3>1
  <2>7. LastIn(o, o.secs[o.syms[j].sec]) BY <2>4, <2>6 DEF LastIn
  <2>8. \A n \in OnceName : ~LastIn(o, n) BY <2>1 DEF Relocating
  <2>9. QED BY <2>5, <2>7, <2>8
<1>8. s.bind = "LOCAL" => EntryOf(o, k, s).at = <<k, s.sec>> /\ EntryOf(o, k, s).bind = "LOCAL"
  <2>1. EntryOf(o, k, s).at = (IF s.sec = 0 THEN <<0, 0>> ELSE <<k, s.sec>>) /\ EntryOf(o, k, s).bind = s.bind
    BY EntryFields
  <2>2. s.bind = "LOCAL" => s.sec # 0 BY <1>3
  <2> HIDE DEF s, o, k
  <2>3. QED BY <2>1, <2>2
<1>9. Object(L2[k]).syms[r.sym] = s BY <1>1
<1> HIDE DEF s, o, y, k
<1>10. s.bind = "LOCAL" => IF PlaceIn(O2, L2, k, s.sec) = <<k, s.sec>>
                           THEN y \in 1 .. Len(a.tab) /\ a.tab[y].bind = "LOCAL" /\ a.tab[y].at = <<k, s.sec>>
                           ELSE y = 0
  BY <1>4, <1>5, <1>6, <1>7, <1>8
<1>11. Meant(a.tab, O2, L2, k, r, y) BY <1>5, <1>9, <1>10 DEF Meant
<1>12. QED BY <1>11 DEF k, y

\* Relocations N are those of the object o, which is object number k.
OfObject(N, o, k, U, O2, L2) ==
    /\ N \in Seq(Relocation) /\ Len(N) = Len(o.rels)
    /\ \A i \in 1 .. Len(N) : N[i].at = <<k, o.rels[i].sec>> /\ N[i].off = o.rels[i].off
                              /\ Meant(U, O2, L2, k, o.rels[i], N[i].sym)

\* The relocations of one more object
LEMMA RelocsAppended ==
    ASSUME NEW O, NEW L, NEW O2, NEW L2, NEW m, MoreSections(O, L, O2, L2, m), NEW T, NEW U, NEW R, NEW N,
           Object(m) \in ObjectFile, Relocating(Object(m)), Relocated(T, R, O, L), OfObject(N, Object(m), Len(L) + 1, U, O2, L2),
           \A k \in 1 .. Len(L) : \A r \in Range(Object(L[k]).rels) : \A y :
              Meant(T, O, L, k, r, y) => Meant(U, O2, L2, k, r, y)
    PROVE  Relocated(U, R \o N, O2, L2)
<1> DEFINE o == Object(m)
           k == Len(L) + 1
           W == R \o N
<1>1. /\ Len(L) \in Nat /\ Len(L2) = k /\ Object(L2[k]) = o
      /\ \A j \in 1 .. Len(L) : Object(L2[j]) = Object(L[j])
  BY DEF MoreSections
<1>2. k \in 1 .. k /\ k \notin 1 .. Len(L) /\ (\A j \in 1 .. k : j \in 1 .. Len(L) \/ j = k) /\ \A j \in 1 .. Len(L) : j \in 1 .. k
  <2> DEFINE l == Len(L)
  <2> HIDE DEF l
  <2>1. l \in Nat BY <1>1 DEF l
  <2>2. l + 1 \in 1 .. l + 1 /\ l + 1 \notin 1 .. l /\ (\A j \in 1 .. l + 1 : j \in 1 .. l \/ j = l + 1) /\ \A j \in 1 .. l : j \in 1 .. l + 1
    BY <2>1
  <2>3. QED BY <2>2 DEF l
<1>3. R \in Seq(Relocation) /\ N \in Seq(Relocation) BY DEF Relocated, OfObject
<1>4. /\ W \in Seq(Relocation) /\ Len(R) \in Nat /\ Len(N) \in Nat /\ Len(W) = Len(R) + Len(N)
      /\ \A i \in 1 .. Len(R) : W[i] = R[i]
      /\ \A i \in 1 .. Len(N) : W[Len(R) + i] = N[i]
  BY <1>3, ConcatProperties
<1>5. \A i \in 1 .. Len(W) : i \in 1 .. Len(R) \/ \E j \in 1 .. Len(N) : i = Len(R) + j
  <2> DEFINE n == Len(R)
             p == Len(N)
  <2> HIDE DEF n, p
  <2>1. n \in Nat /\ p \in Nat /\ Len(W) = n + p BY <1>4 DEF n, p
  <2>2. ASSUME NEW i \in 1 .. n + p PROVE i \in 1 .. n \/ \E j \in 1 .. p : i = n + j
    <3>1. i \in 1 .. n \/ (i - n \in 1 .. p /\ i = n + (i - n)) BY <2>1
    <3>2. QED BY <3>1
  <2>3. QED BY <2>1, <2>2 DEF n, p
<1>6. /\ \A i \in 1 .. Len(R) : i \in 1 .. Len(W)
      /\ \A i \in 1 .. Len(N) : Len(R) + i \in 1 .. Len(W)
  <2> DEFINE n == Len(R)
             p == Len(N)
  <2> HIDE DEF n, p
  <2>1. n \in Nat /\ p \in Nat /\ Len(W) = n + p BY <1>4 DEF n, p
  <2>2. (\A i \in 1 .. n : i \in 1 .. n + p) /\ \A i \in 1 .. p : n + i \in 1 .. n + p BY <2>1
  <2>3. QED BY <2>1, <2>2 DEF n, p
<1>7. o.rels \in Seq([sec : Nat, off : Nat, sym : Nat]) BY DEF ObjectFile
<1>8. DOMAIN o.rels = 1 .. Len(o.rels) BY <1>7
<1>9. Len(N) = Len(o.rels) BY DEF OfObject
<1>10. \A i \in 1 .. Len(N) : /\ o.rels[i] \in Range(o.rels)
                              /\ W[Len(R) + i].at = <<k, o.rels[i].sec>> /\ W[Len(R) + i].off = o.rels[i].off
                              /\ Meant(U, O2, L2, k, o.rels[i], W[Len(R) + i].sym)
  BY <1>4, <1>8, <1>9 DEF OfObject, Range
<1>11. \A i \in 1 .. Len(R) : \E j \in 1 .. Len(L) : \E r \in Range(Object(L[j]).rels) :
          W[i].at = <<j, r.sec>> /\ W[i].off = r.off /\ Meant(T, O, L, j, r, W[i].sym)
  BY <1>4 DEF Relocated
<1> HIDE DEF W, o, k
<1>12. ASSUME NEW i \in 1 .. Len(W)
       PROVE  \E j \in 1 .. Len(L2) : \E r \in Range(Object(L2[j]).rels) :
                 W[i].at = <<j, r.sec>> /\ W[i].off = r.off /\ Meant(U, O2, L2, j, r, W[i].sym)
  <2>1. CASE i \in 1 .. Len(R)
    <3>1. PICK j \in 1 .. Len(L) : \E r \in Range(Object(L[j]).rels) :
             W[i].at = <<j, r.sec>> /\ W[i].off = r.off /\ Meant(T, O, L, j, r, W[i].sym)
      BY <1>11, <2>1
    <3>2. PICK r \in Range(Object(L[j]).rels) :
             W[i].at = <<j, r.sec>> /\ W[i].off = r.off /\ Meant(T, O, L, j, r, W[i].sym)
      BY <3>1
    <3>3. Meant(U, O2, L2, j, r, W[i].sym) BY <3>2
    <3>4. j \in 1 .. Len(L2) /\ r \in Range(Object(L2[j]).rels) BY <1>1, <1>2
    <3>5. QED BY <3>2, <3>3, <3>4
  <2>2. CASE \E x \in 1 .. Len(N) : i = Len(R) + x
    <3>1. PICK x \in 1 .. Len(N) : i = Len(R) + x BY <2>2
    <3>2. k \in 1 .. Len(L2) /\ o.rels[x] \in Range(Object(L2[k]).rels) BY <1>1, <1>2, <1>10
    <3>3. QED BY <1>10, <3>1, <3>2
  <2>3. QED BY <1>5, <2>1, <2>2
<1>13. ASSUME NEW j \in 1 .. Len(L2), NEW r \in Range(Object(L2[j]).rels)
       PROVE  \E i \in 1 .. Len(W) : W[i].at = <<j, r.sec>> /\ W[i].off = r.off
  <2>1. CASE j \in 1 .. Len(L)
    <3>1. r \in Range(Object(L[j]).rels) BY <1>1, <2>1
    <3>2. PICK i \in 1 .. Len(R) : R[i].at = <<j, r.sec>> /\ R[i].off = r.off BY <2>1, <3>1 DEF Relocated
    <3>3. QED BY <1>4, <1>6, <3>2
  <2>2. CASE j = k
    <3>1. r \in Range(o.rels) BY <1>1, <2>2
    <3>2. PICK x \in 1 .. Len(N) : r = o.rels[x] BY <1>8, <1>9, <3>1 DEF Range
    <3>3. QED BY <1>6, <1>10, <2>2, <3>2
  <2>3. QED BY <1>1, <1>2, <2>1, <2>2
<1>14. \A i \in 1 .. Len(R) : \A y : W[i].at # <<k, y>>
  <2> SUFFICES ASSUME NEW i \in 1 .. Len(R), NEW y, W[i].at = <<k, y>> PROVE FALSE OBVIOUS
  <2>1. PICK j \in 1 .. Len(L) : \E r \in Range(Object(L[j]).rels) : W[i].at = <<j, r.sec>> BY <1>11
  <2>2. QED BY <1>2, <2>1
<1>15. ASSUME NEW i \in 1 .. Len(W), NEW j \in 1 .. Len(W), W[i].at = W[j].at, W[i].off = W[j].off PROVE i = j
  <2>1. CASE i \in 1 .. Len(R) /\ j \in 1 .. Len(R) BY <1>4, <1>15, <2>1 DEF Relocated
  <2>2. CASE i \in 1 .. Len(R) /\ \E x \in 1 .. Len(N) : j = Len(R) + x BY <1>10, <1>14, <1>15, <2>2
  <2>3. CASE j \in 1 .. Len(R) /\ \E x \in 1 .. Len(N) : i = Len(R) + x BY <1>10, <1>14, <1>15, <2>3
  <2>4. CASE (\E x \in 1 .. Len(N) : i = Len(R) + x) /\ \E x \in 1 .. Len(N) : j = Len(R) + x
    <3>1. PICK x \in 1 .. Len(N) : i = Len(R) + x BY <2>4
    <3>2. PICK y \in 1 .. Len(N) : j = Len(R) + y BY <2>4
    <3>3. o.rels[x].sec = o.rels[y].sec /\ o.rels[x].off = o.rels[y].off BY <1>10, <1>15, <3>1, <3>2
    <3>4. x \in DOMAIN o.rels /\ y \in DOMAIN o.rels BY <1>8, <1>9
    <3>5. x = y BY <3>3, <3>4 DEF Relocating, o
    <3>6. QED BY <3>1, <3>2, <3>5
  <2>5. QED BY <1>5, <2>1, <2>2, <2>3, <2>4
<1>16. Relocated(U, W, O2, L2) BY <1>4, <1>12, <1>13, <1>15 DEF Relocated
<1>17. QED BY <1>16 DEF W

\* a relocation of o has no symbol in a
Refuses(o, a) == \E r \in Range(o.rels) : Invalid(o, a, r)

\* The linker refuses an object if and only if a relocation is to a section that it
\* does not load.
LEMMA Refused ==
    ASSUME "note" \notin OnceName, \A n \in DOMAIN once : n \in OnceName, NEW m,
           Object(m) \in ObjectFile, Referring(Object(m)), Relocating(Object(m)),
           NEW k, NEW a, a.once \in BOOLEAN, MapMeans(Object(m), k, a, Len(Object(m).syms)),
           OnceMeans(Object(m), a, Len(Object(m).syms))
    PROVE  Refuses(Object(m), a) <=> Loses(Object(m))
<1> DEFINE o == Object(m)
<1>1. DOMAIN o.syms = 1 .. Len(o.syms) /\ o.syms \in Seq(Symbol)
  <2>1. o.syms \in Seq(Symbol) BY DEF ObjectFile, Symbol
  <2>2. QED BY <2>1
<1>2. ASSUME NEW r \in Range(o.rels)
      PROVE  LET s == o.syms[r.sym] IN
             (a.map[r.sym] = 0 /\ ~a.once) <=> (s.sec > 0 /\ Ignored(o, s.sec))
  <2> DEFINE s == o.syms[r.sym]
             y == a.map[r.sym]
  <2>1. r.sym \in 1 .. Len(o.syms) /\ s \in Range(o.syms) /\ s \in Symbol
    <3>1. r.sym \in DOMAIN o.syms BY DEF Referring
    <3>2. QED BY <1>1, <3>1 DEF Range
  <2>2. /\ s.sec \in Int /\ s.bind = "LOCAL" => s.sec > 0
        /\ s.sec > 0 /\ o.secs[s.sec] = "note" => s.bind = "LOCAL"
    BY <2>1 DEF Symbol, Relocating, Referring
  <2>3. /\ s.bind # "LOCAL" => y \in 1 .. Len(a.tab)
        /\ s.bind = "LOCAL" /\ Skipped(o, s) => y = 0
        /\ s.bind = "LOCAL" /\ ~Skipped(o, s) => y \in 1 .. Len(a.tab)
    BY <2>1 DEF MapMeans
  <2>4. /\ s.bind = "LOCAL" /\ o.secs[s.sec] \in OnceName => LastIn(o, o.secs[s.sec])
        /\ s.bind = "LOCAL" /\ o.secs[s.sec] = "note" => \A n \in OnceName : ~LastIn(o, n)
    BY DEF Relocating
  <2>5. ASSUME s.sec > 0, Ignored(o, s.sec) PROVE y = 0 /\ ~a.once
    <3>1. o.secs[s.sec] = "note" /\ s.bind = "LOCAL" /\ Skipped(o, s) BY <2>2, <2>5 DEF Ignored, Skipped
    <3>2. SUFFICES ASSUME a.once = TRUE PROVE FALSE BY <2>3, <3>1
    <3>3. PICK j \in 1 .. Len(o.syms) : /\ o.syms[j].sec > 0 /\ Discarded(o, o.syms[j].sec)
                                        /\ \A l \in 1 .. Len(o.syms) : l > j => o.syms[l].sec <= 0
      BY <3>2 DEF OnceMeans
    <3>4. o.secs[o.syms[j].sec] \in OnceName BY <3>3 DEF Discarded
    <3>5. LastIn(o, o.secs[o.syms[j].sec]) BY <1>1, <3>3 DEF LastIn
    <3>6. QED BY <2>4, <3>1, <3>4, <3>5
  <2>6. ASSUME y = 0, ~a.once PROVE s.sec > 0 /\ Ignored(o, s.sec)
    <3>1. s.bind = "LOCAL" /\ Skipped(o, s)
      <4>1. \A x \in 1 .. Len(a.tab) : x # 0 OBVIOUS
      <4> HIDE DEF y, s, o
      <4>2. QED BY <2>3, <2>6, <4>1
    <3>2. s.sec > 0 /\ (Discarded(o, s.sec) \/ Ignored(o, s.sec)) BY <3>1 DEF Skipped
    <3>3. SUFFICES ASSUME Discarded(o, s.sec) PROVE FALSE BY <3>2
    <3>4. o.secs[s.sec] \in OnceName BY <3>3 DEF Discarded
    <3>5. LastIn(o, o.secs[s.sec]) BY <2>4, <3>1, <3>4
    <3>6. PICK j \in 1 .. Len(o.syms) : /\ o.syms[j].sec > 0 /\ o.secs[o.syms[j].sec] = o.secs[s.sec]
                                        /\ \A l \in 1 .. Len(o.syms) : l > j => o.syms[l].sec <= 0
      BY <1>1, <3>5 DEF LastIn
    <3>7. Discarded(o, o.syms[j].sec) BY <3>3, <3>6 DEF Discarded
    <3>8. a.once = TRUE BY <3>6, <3>7 DEF OnceMeans
    <3>9. QED BY <2>6, <3>8
  <2>7. QED BY <2>5, <2>6
<1>3. Loses(o) <=> \E r \in Range(o.rels) : LET j == o.syms[r.sym].sec IN j > 0 /\ Ignored(o, j)
  BY DEF Loses, Ignored
<1>4. Refuses(o, a) <=> \E r \in Range(o.rels) : a.map[r.sym] = 0 /\ ~a.once
  BY DEF Refuses, Invalid
<1>5. QED BY <1>2, <1>3, <1>4

\* Nobody overlooks that an object cannot be loaded: it is loaded where that ends the
\* program, or it can be loaded.
Heeded(m, stk) == Repeated(stk) = {} \/ ~Loses(Object(m))

\* An object with a relocation to a section that no program contains ends the
\* program; the relocations of the others are converted.
LEMMA Accepted ==
    ASSUME pc = "load", "note" \notin OnceName, \A n \in DOMAIN once : n \in OnceName, NEW m, NEW stk,
           LoadObject(m, stk), Heeded(m, stk),
           Object(m) \in ObjectFile, Referring(Object(m)), Relocating(Object(m)),
           NEW a, a = Symbols(Object(m), Len(loaded) + 1), a.once \in BOOLEAN,
           MapMeans(Object(m), Len(loaded) + 1, a, Len(Object(m).syms)),
           OnceMeans(Object(m), a, Len(Object(m).syms))
    PROVE  LET o == Object(m)
               k == Len(loaded) + 1
           IN  /\ tab' = a.tab /\ pc' = IF Loses(o) THEN "failed" ELSE "load"
               /\ pc' # "failed" => /\ \A r \in Range(o.rels) : ~Invalid(o, a, r)
                                    /\ rels' = rels \o [i \in DOMAIN o.rels |-> Converted(o, k, a, o.rels[i])]
<1> DEFINE o == Object(m)
           k == Len(loaded) + 1
           N == [i \in DOMAIN o.rels |-> Adjusted(o, k, a, i)]
           C == [i \in DOMAIN o.rels |-> Converted(o, k, a, o.rels[i])]
<1>1. /\ tab' = a.tab /\ rels' = rels \o N
      /\ pc' = IF (\A r \in Range(o.rels) : ~Invalid(o, a, r)) \/ Repeated(stk) # {} THEN pc ELSE "failed"
  BY DEF LoadObject
<1>2. Refuses(o, a) <=> Loses(o)
  <2> HIDE DEF k
  <2>1. MapMeans(Object(m), k, a, Len(Object(m).syms)) BY DEF k
  <2>2. QED BY <2>1, Refused DEF o
<1>3. Refuses(o, a) <=> ~\A r \in Range(o.rels) : ~Invalid(o, a, r) BY DEF Refuses
<1>4. Repeated(stk) # {} => ~Loses(o) BY DEF Heeded
<1>5. pc' = IF Loses(o) THEN "failed" ELSE "load"
  <2> HIDE DEF o
  <2>1. QED BY <1>1, <1>2, <1>3, <1>4
<1>6. ASSUME \A r \in Range(o.rels) : ~Invalid(o, a, r) PROVE N = C
  <2>1. o.rels \in Seq([sec : Nat, off : Nat, sym : Nat]) BY DEF ObjectFile
  <2>2. DOMAIN o.rels = 1 .. Len(o.rels) /\ Len(o.rels) \in Nat BY <2>1
  <2>3. \A i \in DOMAIN o.rels : o.rels[i] \in Range(o.rels) BY DEF Range
  <2> HIDE DEF o, k
  <2>4. ASSUME NEW i \in DOMAIN o.rels PROVE Adjusted(o, k, a, i) = Converted(o, k, a, o.rels[i])
    <3>1. \A j \in 1 .. i : j \in DOMAIN o.rels BY <2>2
    <3>2. ~\E j \in 1 .. i : Invalid(o, a, o.rels[j]) BY <1>6, <2>3, <3>1
    <3>3. QED BY <3>2 DEF Adjusted
  <2>5. QED BY <2>4
<1>7. pc' # "failed" => \A r \in Range(o.rels) : ~Invalid(o, a, r)
  <2> HIDE DEF o
  <2>1. QED BY <1>2, <1>3, <1>5
<1>8. QED BY <1>1, <1>5, <1>6, <1>7

\* An object is loaded, and the linker goes on.
LEMMA RelocsLoaded ==
    ASSUME LInv, pc = "load", RelocWorld(world), RelocInv, NEW m \in DOMAIN world.lib, NEW stk,
           LoadObject(m, stk), Heeded(m, stk), pc' # "failed"
    PROVE  /\ tab' \in Seq(Placed(once', loaded')) /\ OnceLoaded(once', loaded')
           /\ Relocated(tab', rels', once', loaded')
<1> DEFINE o == Object(m)
           k == Len(loaded) + 1
           a == Symbols(o, k)
           O == once
           L == loaded
           O2 == once'
           L2 == loaded'
           X == Placed(O2, L2)
           N == [i \in DOMAIN o.rels |-> Converted(o, k, a, o.rels[i])]
<1>1. /\ WorldKnown /\ LinkTypes /\ twice \subseteq STRING /\ newUndef \in BOOLEAN
      /\ loaded \in Seq(DOMAIN world.lib)
      /\ Tabled(tab, Range(loaded)) /\ OncesKept(once, Range(loaded))
  BY InvFacts
<1>2. tab \in Seq(Placed(O, L)) /\ OnceLoaded(O, L) /\ Relocated(tab, rels, O, L) BY DEF RelocInv
<1>3. /\ o \in ObjectFile /\ Relocating(o) /\ Len(L) \in Nat
      /\ Len(L2) = k /\ L2[k] = m /\ \A i \in 1 .. Len(L) : L2[i] = L[i]
      /\ OnceLoaded(O2, L2)
      /\ \A i \in 1 .. Len(L) : \A j \in DOMAIN Object(L[i]).secs : PlaceIn(O2, L2, i, j) = PlaceIn(O, L, i, j)
      /\ \A j \in DOMAIN o.secs : Discarded(o, j) <=> PlaceIn(O2, L2, k, j) # <<k, j>>
  BY <1>1, <1>2, SectionsLoaded
<1>4. Referring(o) BY <1>1 DEF WorldKnown, LibraryMeans
<1>5. MoreSections(O, L, O2, L2, m) BY <1>3 DEF MoreSections
<1>6. tab \in Seq(X)
  <2>1. Placed(O, L) \subseteq X BY <1>5, PlacedStays
  <2>2. \A i \in 1 .. Len(tab) : tab[i] \in X BY <1>2, <2>1
  <2>3. QED BY <1>2, <2>2
<1>7. DiscardedDefined(o)
  <2>1. Range(loaded) \in SUBSET DOMAIN world.lib BY <1>1 DEF Range
  <2>2. QED BY <1>1, <2>1, DiscardedHaveNames
<1>8. OneEach(tab) BY <1>1 DEF Tabled
<1>9. \A s \in Range(o.syms) : ~Skipped(o, s) => EntryOf(o, k, s) \in X
  BY <1>3, <1>4, <1>5, PlacedSymbol
<1>10. a \in SymState(X) /\ Added(o, k, a, Len(o.syms))
  <2>1. VisBlind(X) BY PlacedBlind
  <2>2. QED BY <1>1, <1>3, <1>4, <1>6, <1>7, <1>8, <1>9, <2>1, SymbolsAdded
<1>11. a.tab \in Seq(X) /\ a.once \in BOOLEAN /\ a.map \in Seq(Nat) BY <1>10 DEF SymState
<1>12. Stable(tab, a.tab) /\ MapMeans(o, k, a, Len(o.syms)) /\ OnceMeans(o, a, Len(o.syms)) BY <1>10 DEF Added
<1>13. \A n \in DOMAIN once : n \in OnceName BY <1>1 DEF OncesKept
<1>14. tab' = a.tab /\ rels' = rels \o N /\ \A r \in Range(o.rels) : ~Invalid(o, a, r)
  <2>1. "note" \notin OnceName BY DEF RelocWorld
  <2> HIDE DEF a, X
  <2>2. a = Symbols(Object(m), Len(loaded) + 1) BY DEF a
  <2>3. a.once \in BOOLEAN /\ MapMeans(Object(m), Len(loaded) + 1, a, Len(Object(m).syms))
        /\ OnceMeans(Object(m), a, Len(Object(m).syms))
    BY <1>11, <1>12
  <2>4. Object(m) \in ObjectFile /\ Relocating(Object(m)) /\ Referring(Object(m)) BY <1>3, <1>4
  <2>5. QED BY ONLY pc = "load", LoadObject(m, stk), Heeded(m, stk), pc' # "failed", <1>13, <2>1, <2>2, <2>3, <2>4, Accepted
<1>15. \A i \in DOMAIN o.rels : ~(a.map[o.rels[i].sym] = 0 /\ ~a.once) BY <1>14 DEF Invalid, Range
<1>16. o.rels \in Seq([sec : Nat, off : Nat, sym : Nat]) /\ "note" \notin OnceName BY <1>3 DEF ObjectFile, RelocWorld
<1>17. DOMAIN o.rels = 1 .. Len(o.rels) /\ Len(o.rels) \in Nat BY <1>16
<1>18. k \in Nat BY <1>3
<1>19. ASSUME NEW i \in DOMAIN o.rels
       PROVE  /\ N[i] \in Relocation /\ N[i].at = <<k, o.rels[i].sec>> /\ N[i].off = o.rels[i].off
              /\ Meant(a.tab, O2, L2, k, o.rels[i], N[i].sym)
  <2> DEFINE r == o.rels[i]
  <2>1. r \in Range(o.rels) /\ r.sec \in Nat /\ r.off \in Nat /\ r.sym \in Nat
    <3>1. r \in Range(o.rels) BY DEF Range
    <3> DEFINE F == [sec : Nat, off : Nat, sym : Nat]
    <3>2. r \in F BY <1>16, <1>17, ElementOfSeq
    <3>3. QED BY <3>1, <3>2
  <2>2. ~Discarded(o, r.sec)
    <3>1. o.secs[r.sec] \notin OnceName BY <1>3, <2>1 DEF Relocating
    <3>2. QED BY <1>13, <3>1 DEF Discarded
  <2>3. N[i] = [at |-> <<k, r.sec>>, off |-> r.off, sym |-> a.map[r.sym]] BY <2>2 DEF Converted
  <2>4. a.map[r.sym] \in Nat
    <3>1. r.sym \in DOMAIN o.syms BY <1>4, <2>1 DEF Referring
    <3>2. o.syms \in Seq(Symbol) BY <1>3 DEF ObjectFile, Symbol
    <3>3. Len(a.map) = Len(o.syms) BY <1>12 DEF MapMeans
    <3>4. r.sym \in 1 .. Len(a.map) BY <3>1, <3>2, <3>3
    <3>5. QED BY <1>11, <3>4
  <2>5. Meant(a.tab, O2, L2, k, r, a.map[r.sym])
    <3>1. ~(a.map[r.sym] = 0 /\ ~a.once) BY <1>15
    <3>2. r \in Range(o.rels) BY <2>1
    <3> HIDE DEF r, N, a, X
    <3>3. QED BY ONLY <1>3, <1>4, <1>5, <1>11, <1>12, <1>13, <1>16, <3>1, <3>2, MeantAtFirst
  <2> HIDE DEF r, N, a, k, o
  <2>6. N[i] \in Relocation BY <1>18, <2>1, <2>3, <2>4 DEF Relocation
  <2>7. N[i].at = <<k, r.sec>> /\ N[i].off = r.off /\ N[i].sym = a.map[r.sym] BY <2>3
  <2>8. QED BY <2>5, <2>6, <2>7 DEF r
<1>20. OfObject(N, o, k, a.tab, O2, L2)
  <2>1. N \in Seq(Relocation) /\ Len(N) = Len(o.rels)
    <3>1. \A i \in DOMAIN o.rels : N[i] \in Relocation BY <1>19
    <3>2. N = [i \in 1 .. Len(o.rels) |-> Converted(o, k, a, o.rels[i])] BY <1>17
    <3> DEFINE n == Len(o.rels)
    <3> HIDE DEF a, o, k
    <3>3. \A i \in 1 .. n : Converted(o, k, a, o.rels[i]) \in Relocation BY <1>17, <3>1, <3>2
    <3>4. QED BY <1>17, <3>2, <3>3
  <2>2. \A i \in 1 .. Len(N) : i \in DOMAIN o.rels BY <1>17, <2>1
  <2>3. QED BY <1>19, <2>1, <2>2 DEF OfObject
<1>21. ASSUME NEW j \in 1 .. Len(L), NEW r \in Range(Object(L[j]).rels), NEW y, Meant(tab, O, L, j, r, y)
       PROVE  Meant(a.tab, O2, L2, j, r, y)
  <2>1. L[j] \in DOMAIN world.lib BY <1>1
  <2>2. Object(L[j]) \in ObjectFile /\ Object(L[j]) \in ObjectsOf(world) /\ Referring(Object(L[j]))
    BY <1>1, <2>1 DEF WorldKnown, LibraryMeans
  <2>3. Relocating(Object(L[j])) BY <2>2 DEF RelocWorld
  <2>4. QED BY <1>5, <1>6, <1>11, <1>12, <1>21, <2>2, <2>3, MeantStays
<1>22. Relocated(a.tab, rels \o N, O2, L2)
  <2> HIDE DEF a, N
  <2>1. QED BY <1>2, <1>3, <1>5, <1>20, <1>21, RelocsAppended
<1>23. QED BY <1>3, <1>14, <1>11, <1>22

-----------------------------------------------------------------------------
(* Binding an executable                                                   *)

\* what the libraries define has a type and a value, and what they need has none
DynMeans ==
    \A d \in 1 .. Len(dyn) : dyn[d].bind # "LOCAL" => /\ dyn[d].shndx = "UNDEF" <=> dyn[d].type = "none"
                                                      /\ dyn[d].shndx = "UNDEF" <=> dyn[d].value = 0

\* The entries of a table may get copies of the objects of libraries.
Bindable(X) ==
    /\ VisBlind(X) /\ X \subseteq EntryType
    /\ \A e \in X : e.bind = "LOCAL" => e.shndx \in {"bss", "data"}
    /\ \A n \in STRING, b \in Binds, d \in Nat : DynEntry(n, b, "bss", <<0, d>>) \in X

BindState(X) == [tab : Seq(X), dynsym : Seq(EntryType), undef : SUBSET STRING]

Unbound(T, j) == T[j].shndx = "UNDEF" /\ T[j].bind # "WEAK" /\ Lookup(dyn, T[j].name) = 0

\* what becomes of the undefined symbol j of T
Outcome(T, a, j) ==
    LET d == Lookup(dyn, T[j].name) IN
    /\ d = 0 => a.tab[j] = T[j] /\ (T[j].bind # "WEAK" => T[j].name \in a.undef)
    /\ d # 0 /\ dyn[d].type = "func" => T[j].name \in GlobalNames(a.dynsym)
    /\ d # 0 /\ dyn[d].type = "object" => a.tab[j].shndx # "UNDEF"
    /\ d # 0 /\ dyn[d].type = "none" => a.tab[j] = T[j]

\* after i rounds
BoundUpTo(T, a, i) ==
    /\ Len(a.tab) = Len(T)
    /\ \A j \in 1 .. Len(T) :
          /\ a.tab[j].name = T[j].name
          /\ a.tab[j].bind = "LOCAL" <=> T[j].bind = "LOCAL"
          /\ j > i \/ T[j].shndx # "UNDEF" => a.tab[j] = T[j]
          /\ j <= i /\ T[j].shndx = "UNDEF" => Outcome(T, a, j)
          /\ a.tab[j].shndx # "UNDEF" /\ DynMeans => T[j].shndx # "UNDEF" \/ T[j].name \in DefinedNames(dyn)
    /\ \A n \in a.undef : \E j \in 1 .. Len(T) : T[j].name = n /\ Unbound(T, j)
    /\ DynMeans => GlobalNames(a.dynsym) \subseteq DefinedNames(dyn)

\* The table after the round of symbol i
TableAfter(T, u, b, i) ==
    \/ b.tab = u.tab
    \/ \E z : /\ T[i].shndx = "UNDEF" /\ T[i].bind # "LOCAL" /\ b.tab = [u.tab EXCEPT ![i] = z]
              /\ z.name = T[i].name /\ z.bind # "LOCAL" /\ z.shndx # "UNDEF"
              /\ Lookup(dyn, T[i].name) # 0 /\ dyn[Lookup(dyn, T[i].name)].type = "object"
              /\ DynMeans => T[i].name \in DefinedNames(dyn)

\* One round, whatever it does
LEMMA BoundMore ==
    ASSUME NEW X, NEW T \in Seq(X), NEW i \in 1 .. Len(T), NEW u \in BindState(X), NEW b \in BindState(X),
           BoundUpTo(T, u, i - 1), TableAfter(T, u, b, i),
           GlobalNames(u.dynsym) \subseteq GlobalNames(b.dynsym),
           DynMeans => GlobalNames(b.dynsym) \subseteq GlobalNames(u.dynsym) \cup DefinedNames(dyn),
           u.undef \subseteq b.undef, \A n \in b.undef : n \in u.undef \/ (n = T[i].name /\ Unbound(T, i)),
           T[i].shndx = "UNDEF" => Outcome(T, b, i)
    PROVE  BoundUpTo(T, b, i)
<1>1. Len(T) \in Nat /\ i \in Nat /\ u.tab \in Seq(X) BY DEF BindState
<1>2. Len(u.tab) = Len(T) BY DEF BoundUpTo
<1>3. /\ Len(b.tab) = Len(T)
      /\ \A j \in 1 .. Len(T) : j # i => b.tab[j] = u.tab[j]
  <2>1. CASE b.tab = u.tab BY <1>2, <2>1
  <2>2. CASE \E z : b.tab = [u.tab EXCEPT ![i] = z]
    <3>1. PICK z : b.tab = [u.tab EXCEPT ![i] = z] BY <2>2
    <3>2. DOMAIN u.tab = 1 .. Len(T) BY <1>1, <1>2
    <3>3. b.tab \in Seq(X) BY DEF BindState
    <3>4. DOMAIN b.tab = 1 .. Len(T) BY <3>1, <3>2
    <3>5. Len(b.tab) = Len(T) BY <1>1, <3>3, <3>4
    <3>6. QED BY <3>1, <3>2, <3>5
  <2>3. QED BY <2>1, <2>2 DEF TableAfter
<1>4. ASSUME NEW j \in 1 .. Len(T), j # i
      PROVE  /\ b.tab[j].name = T[j].name
             /\ b.tab[j].bind = "LOCAL" <=> T[j].bind = "LOCAL"
             /\ j > i \/ T[j].shndx # "UNDEF" => b.tab[j] = T[j]
             /\ j <= i /\ T[j].shndx = "UNDEF" => Outcome(T, b, j)
             /\ b.tab[j].shndx # "UNDEF" /\ DynMeans => T[j].shndx # "UNDEF" \/ T[j].name \in DefinedNames(dyn)
  <2>1. b.tab[j] = u.tab[j] BY <1>3, <1>4
  <2>2. j > i => j > i - 1 BY <1>1
  <2>3. j <= i => j <= i - 1 BY <1>1, <1>4
  <2>4. /\ u.tab[j].name = T[j].name
        /\ u.tab[j].bind = "LOCAL" <=> T[j].bind = "LOCAL"
        /\ j > i - 1 \/ T[j].shndx # "UNDEF" => u.tab[j] = T[j]
        /\ j <= i - 1 /\ T[j].shndx = "UNDEF" => Outcome(T, u, j)
        /\ u.tab[j].shndx # "UNDEF" /\ DynMeans => T[j].shndx # "UNDEF" \/ T[j].name \in DefinedNames(dyn)
    BY DEF BoundUpTo
  <2>5. Outcome(T, u, j) => Outcome(T, b, j) BY <2>1 DEF Outcome
  <2>6. QED BY <2>1, <2>2, <2>3, <2>4, <2>5
<1>5. /\ b.tab[i].name = T[i].name
      /\ b.tab[i].bind = "LOCAL" <=> T[i].bind = "LOCAL"
      /\ i > i \/ T[i].shndx # "UNDEF" => b.tab[i] = T[i]
      /\ i <= i /\ T[i].shndx = "UNDEF" => Outcome(T, b, i)
      /\ b.tab[i].shndx # "UNDEF" /\ DynMeans => T[i].shndx # "UNDEF" \/ T[i].name \in DefinedNames(dyn)
  <2>1. i > i - 1 /\ ~(i > i) BY <1>1
  <2>2. u.tab[i] = T[i] BY <2>1 DEF BoundUpTo
  <2>3. CASE b.tab = u.tab BY <2>1, <2>2, <2>3
  <2>4. CASE b.tab # u.tab
    <3>1. PICK z : /\ T[i].shndx = "UNDEF" /\ T[i].bind # "LOCAL" /\ b.tab = [u.tab EXCEPT ![i] = z]
                   /\ z.name = T[i].name /\ z.bind # "LOCAL" /\ z.shndx # "UNDEF"
                   /\ DynMeans => T[i].name \in DefinedNames(dyn)
      BY <2>4 DEF TableAfter
    <3>2. i \in DOMAIN u.tab BY <1>1, <1>2
    <3>3. b.tab[i] = z BY <3>1, <3>2
    <3>4. QED BY <2>1, <3>1, <3>3
  <2>5. QED BY <2>3, <2>4
<1>6. \A n \in b.undef : \E j \in 1 .. Len(T) : T[j].name = n /\ Unbound(T, j) BY DEF BoundUpTo
<1>7. DynMeans => GlobalNames(b.dynsym) \subseteq DefinedNames(dyn) BY DEF BoundUpTo
<1>8. \A j \in 1 .. Len(T) :
          /\ b.tab[j].name = T[j].name
          /\ b.tab[j].bind = "LOCAL" <=> T[j].bind = "LOCAL"
          /\ j > i \/ T[j].shndx # "UNDEF" => b.tab[j] = T[j]
          /\ j <= i /\ T[j].shndx = "UNDEF" => Outcome(T, b, j)
          /\ b.tab[j].shndx # "UNDEF" /\ DynMeans => T[j].shndx # "UNDEF" \/ T[j].name \in DefinedNames(dyn)
  <2> SUFFICES ASSUME NEW j \in 1 .. Len(T)
      PROVE  /\ b.tab[j].name = T[j].name
             /\ b.tab[j].bind = "LOCAL" <=> T[j].bind = "LOCAL"
             /\ j > i \/ T[j].shndx # "UNDEF" => b.tab[j] = T[j]
             /\ j <= i /\ T[j].shndx = "UNDEF" => Outcome(T, b, j)
             /\ b.tab[j].shndx # "UNDEF" /\ DynMeans => T[j].shndx # "UNDEF" \/ T[j].name \in DefinedNames(dyn)
    OBVIOUS
  <2>1. CASE j # i BY <1>4, <2>1
  <2>2. CASE j = i BY <1>5, <2>2
  <2>3. QED BY <2>1, <2>2
<1>9. QED BY <1>3, <1>6, <1>7, <1>8 DEF BoundUpTo

\* The names of a table with one more entry
LEMMA AppendNames ==
    ASSUME NEW X, NEW T \in Seq(X), NEW e \in X
    PROVE  Append(T, e) \in Seq(X) /\ GlobalNames(Append(T, e)) = GlobalNames(T) \cup GlobalName(e)
<1> DEFINE U == Append(T, e)
           n == Len(T)
<1>1. U \in Seq(X) /\ Len(U) = n + 1 /\ U[n + 1] = e /\ \A i \in 1 .. n : U[i] = T[i] BY AppendProperties
<1>2. n \in Nat /\ DOMAIN T = 1 .. n /\ DOMAIN U = 1 .. n + 1 BY <1>1
<1> HIDE DEF U, n
<1>3. (\A i \in 1 .. n + 1 : i \in 1 .. n \/ i = n + 1) /\ (\A i \in 1 .. n : i \in 1 .. n + 1) /\ n + 1 \in 1 .. n + 1
  BY <1>2
<1>4. GlobalNames(U) = GlobalNames(T) \cup GlobalName(e) BY <1>1, <1>2, <1>3 DEF GlobalNames, GlobalName
<1>5. QED BY <1>1, <1>4 DEF U

\* What the executable gets for a symbol of a library
LEMMA DynEntryFields ==
    ASSUME NEW n \in STRING, NEW b \in Binds, b # "LOCAL", NEW shndx \in Shndxs, NEW d \in Nat
    PROVE  LET e == DynEntry(n, b, shndx, <<0, d>>) IN
           /\ e \in EntryType /\ e.name = n /\ e.bind # "LOCAL" /\ e.shndx = shndx /\ GlobalName(e) = {n}
<1> DEFINE e == DynEntry(n, b, shndx, <<0, d>>)
<1>1. e = [name |-> n, bind |-> b, vis |-> "DEFAULT", shndx |-> shndx, at |-> <<0, d>>] BY DEF DynEntry
<1>2. <<0, d>> \in Int \X Int /\ "DEFAULT" \in Visibilities BY DEF Visibilities
<1>3. e \in EntryType BY <1>1, <1>2 DEF EntryType
<1>4. e.name = n /\ e.bind = b /\ e.shndx = shndx BY <1>1
<1> HIDE DEF e
<1>5. GlobalName(e) = {n} BY <1>4 DEF GlobalName
<1>6. QED BY <1>3, <1>4, <1>5 DEF e

\* An entry of the libraries' table
LEMMA DynIs ==
    ASSUME dyn \in Seq(DllSymbol), NEW n, Lookup(dyn, n) # 0
    PROVE  LET d == Lookup(dyn, n) IN
           /\ d \in 1 .. Len(dyn) /\ d \in Nat /\ dyn[d] \in DllSymbol /\ dyn[d].name = n /\ dyn[d].bind # "LOCAL"
           /\ dyn[d].bind \in Binds /\ dyn[d].type \in {"func", "object", "none"} /\ n \in STRING
           /\ DynMeans /\ dyn[d].type # "none" => n \in DefinedNames(dyn)
<1> DEFINE d == Lookup(dyn, n)
<1>1. d \in 1 .. Len(dyn) /\ dyn[d].name = n /\ dyn[d].bind # "LOCAL" BY LookupIs
<1> HIDE DEF d
<1>2. Len(dyn) \in Nat /\ DOMAIN dyn = 1 .. Len(dyn) OBVIOUS
<1>3. d \in Nat BY <1>1, <1>2
<1>4. dyn[d] \in DllSymbol BY <1>1
<1>5. dyn[d].bind \in Binds /\ dyn[d].type \in {"func", "object", "none"} /\ dyn[d].name \in STRING BY <1>4 DEF DllSymbol
<1>6. ASSUME DynMeans, dyn[d].type # "none" PROVE n \in DefinedNames(dyn)
  <2>1. dyn[d].shndx # "UNDEF" BY <1>1, <1>6 DEF DynMeans
  <2>2. QED BY <1>1, <1>2, <2>1 DEF DefinedNames
<1>7. QED BY <1>1, <1>3, <1>4, <1>5, <1>6 DEF d

\* The first strong symbol of a library with the value v
LEMMA AliasIs ==
    ASSUME dyn \in Seq(DllSymbol), NEW v, NEW A, A = {j \in DOMAIN dyn : dyn[j].value = v /\ dyn[j].bind = "GLOBAL"},
           NEW c \in A
    PROVE  /\ dyn[c].name \in STRING /\ dyn[c].bind \in Binds /\ dyn[c].bind # "LOCAL"
           /\ DynMeans /\ v # 0 => dyn[c].name \in DefinedNames(dyn)
<1>1. DOMAIN dyn = 1 .. Len(dyn) /\ Len(dyn) \in Nat OBVIOUS
<1>5. c \in 1 .. Len(dyn) /\ c \in DOMAIN dyn /\ dyn[c].value = v /\ dyn[c].bind = "GLOBAL" BY <1>1
<1>6. dyn[c] \in DllSymbol BY <1>5, ElementOfSeq
<1>7. dyn[c].name \in STRING /\ dyn[c].bind \in Binds BY <1>6 DEF DllSymbol
<1>8. ASSUME DynMeans, v # 0 PROVE dyn[c].name \in DefinedNames(dyn)
  <2>1. dyn[c].shndx # "UNDEF" BY <1>5, <1>8 DEF DynMeans
  <2>2. QED BY <1>5, <2>1 DEF DefinedNames
<1>9. QED BY <1>5, <1>7, <1>8

\* what the executable exports when it gets a copy
CopyExports(S, d, n) ==
    LET A == {j \in DOMAIN dyn : dyn[j].value = dyn[d].value /\ dyn[j].bind = "GLOBAL"}
        c == CHOOSE j \in A : \A k \in A : j <= k
        e == DynEntry(n, dyn[d].bind, "bss", <<0, d>>)
    IN  IF dyn[d].bind = "WEAK" /\ A # {} THEN S \o <<e, DynEntry(dyn[c].name, dyn[c].bind, "bss", <<0, d>>)>>
        ELSE Append(S, e)

\* The names of it are those of the copied object.
LEMMA CopyExported ==
    ASSUME dyn \in Seq(DllSymbol), NEW S \in Seq(EntryType), NEW d \in Nat, NEW n \in STRING,
           d \in 1 .. Len(dyn), dyn[d].bind # "LOCAL", dyn[d].bind \in Binds, dyn[d].type # "none",
           DynMeans => n \in DefinedNames(dyn)
    PROVE  LET D == CopyExports(S, d, n) IN
           /\ D \in Seq(EntryType) /\ GlobalNames(S) \cup {n} \subseteq GlobalNames(D)
           /\ DynMeans => GlobalNames(D) \subseteq GlobalNames(S) \cup DefinedNames(dyn)
<1> DEFINE A == {j \in DOMAIN dyn : dyn[j].value = dyn[d].value /\ dyn[j].bind = "GLOBAL"}
           c == CHOOSE j \in A : \A k \in A : j <= k
           e == DynEntry(n, dyn[d].bind, "bss", <<0, d>>)
           p == dyn[c].name
           f == DynEntry(p, dyn[c].bind, "bss", <<0, d>>)
           V == Append(S, e)
           D == CopyExports(S, d, n)
<1>1. "bss" \in Shndxs BY DEF Shndxs
<1>2. e \in EntryType /\ GlobalName(e) = {n} BY <1>1, DynEntryFields
<1>3. D = IF dyn[d].bind = "WEAK" /\ A # {} THEN S \o <<e, f>> ELSE V BY DEF CopyExports
<1>4. A # {} => /\ p \in STRING /\ dyn[c].bind \in Binds /\ dyn[c].bind # "LOCAL"
                /\ DynMeans /\ dyn[d].value # 0 => p \in DefinedNames(dyn)
  <2> SUFFICES ASSUME A # {} PROVE /\ p \in STRING /\ dyn[c].bind \in Binds /\ dyn[c].bind # "LOCAL"
                                   /\ DynMeans /\ dyn[d].value # 0 => p \in DefinedNames(dyn)
    OBVIOUS
  <2> DEFINE v == dyn[d].value
  <2>1. A = {j \in DOMAIN dyn : dyn[j].value = v /\ dyn[j].bind = "GLOBAL"} OBVIOUS
  <2>2. c \in A
    <3>1. DOMAIN dyn = 1 .. Len(dyn) /\ Len(dyn) \in Nat OBVIOUS
    <3>2. A \subseteq Nat BY <3>1
    <3> HIDE DEF A
    <3>3. \E j \in A : \A k \in A : j <= k BY <3>2, LeastElement
    <3>4. QED BY <3>3
  <2> HIDE DEF A, c, v
  <2>3. /\ dyn[c].name \in STRING /\ dyn[c].bind \in Binds /\ dyn[c].bind # "LOCAL"
        /\ DynMeans /\ v # 0 => dyn[c].name \in DefinedNames(dyn)
    BY <2>1, <2>2, AliasIs
  <2>4. QED BY <2>3 DEF v
<1>5. DynMeans => dyn[d].value # 0 BY DEF DynMeans
<1> HIDE DEF A, c, p
<1>6. A # {} => f \in EntryType /\ GlobalName(f) = {p}
  <2> SUFFICES ASSUME A # {} PROVE f \in EntryType /\ GlobalName(f) = {p} OBVIOUS
  <2> DEFINE q == dyn[c].bind
  <2>1. p \in STRING /\ q \in Binds /\ q # "LOCAL" BY <1>4
  <2> HIDE DEF q
  <2>2. LET g == DynEntry(p, q, "bss", <<0, d>>) IN g \in EntryType /\ GlobalName(g) = {p} BY <1>1, <2>1, DynEntryFields
  <2>3. QED BY <2>2 DEF q
<1> HIDE DEF e, f
<1>7. V \in Seq(EntryType) /\ GlobalNames(V) = GlobalNames(S) \cup {n}
  <2>1. Append(S, e) \in Seq(EntryType) /\ GlobalNames(Append(S, e)) = GlobalNames(S) \cup GlobalName(e)
    BY <1>2, AppendNames
  <2>2. QED BY <1>2, <2>1
<1> HIDE DEF D
<1>8. CASE dyn[d].bind = "WEAK" /\ A # {}
  <2>1. f \in EntryType /\ GlobalName(f) = {p} BY <1>6, <1>8
  <2>2. S \o <<e, f>> = Append(V, f) BY <1>2, <2>1
  <2>3. D = Append(V, f) BY <1>3, <1>8, <2>2
  <2> HIDE DEF V
  <2>4. Append(V, f) \in Seq(EntryType) /\ GlobalNames(Append(V, f)) = GlobalNames(V) \cup GlobalName(f)
    BY <1>7, <2>1, AppendNames
  <2>5. D \in Seq(EntryType) /\ GlobalNames(D) = (GlobalNames(S) \cup {n}) \cup {p} BY <1>7, <2>1, <2>3, <2>4
  <2>6. DynMeans => p \in DefinedNames(dyn) BY <1>4, <1>5, <1>8
  <2>7. QED BY <2>5, <2>6 DEF D
<1>9. CASE ~(dyn[d].bind = "WEAK" /\ A # {})
  <2>1. D = V BY <1>3, <1>9
  <2> HIDE DEF V
  <2>2. QED BY <1>7, <2>1 DEF D
<1>10. QED BY <1>8, <1>9

\* bind_exe_dynsyms copies an object.
LEMMA BindCopyStep ==
    ASSUME NEW X, Bindable(X), dyn \in Seq(DllSymbol), NEW T \in Seq(X), NEW i \in 1 .. Len(T), NEW u \in BindState(X),
           BoundUpTo(T, u, i - 1), T[i].shndx = "UNDEF",
           Lookup(dyn, T[i].name) # 0, dyn[Lookup(dyn, T[i].name)].type = "object"
    PROVE  LET b == BindCopy(u, i, Lookup(dyn, T[i].name)) IN b \in BindState(X) /\ BoundUpTo(T, b, i)
<1> DEFINE n == T[i].name
           d == Lookup(dyn, n)
           b == BindCopy(u, i, d)
           e == DynEntry(n, dyn[d].bind, "bss", <<0, d>>)
           z == Resolved(u.tab[i], e)
           D == CopyExports(u.dynsym, d, n)
           W == [u.tab EXCEPT ![i] = z]
<1>1. /\ d \in 1 .. Len(dyn) /\ d \in Nat /\ dyn[d].bind # "LOCAL"
      /\ dyn[d].bind \in Binds /\ n \in STRING
      /\ DynMeans => n \in DefinedNames(dyn)
  BY DynIs
<1>2. Len(T) \in Nat /\ i \in Nat /\ T[i] \in X BY ElementOfSeq
<1>3. u.tab[i] = T[i] /\ Len(u.tab) = Len(T)
  <2>1. i > i - 1 BY <1>2
  <2>2. QED BY <2>1 DEF BoundUpTo
<1>4. u.tab \in Seq(X) /\ u.dynsym \in Seq(EntryType) /\ u.undef \in SUBSET STRING BY DEF BindState
<1>5. e \in EntryType /\ e.name = n /\ e.bind # "LOCAL" /\ e.shndx = "bss"
  <2> DEFINE q == dyn[d].bind
  <2>1. "bss" \in Shndxs BY DEF Shndxs
  <2>2. d \in Nat /\ q \in Binds /\ q # "LOCAL" /\ n \in STRING BY <1>1
  <2> HIDE DEF q, d, n
  <2>3. LET g == DynEntry(n, q, "bss", <<0, d>>) IN g \in EntryType /\ g.name = n /\ g.bind # "LOCAL" /\ g.shndx = "bss"
    BY <2>1, <2>2, DynEntryFields
  <2>4. QED BY <2>3 DEF q
<1>6. e \in X BY <1>1 DEF Bindable
<1>7. T[i].bind # "LOCAL" BY <1>2 DEF Bindable
<1>8. z = e BY <1>3 DEF Resolved
<1>9. b = [u EXCEPT !.tab = W, !.dynsym = D]
  <2>1. u.tab[i].name = n BY <1>3
  <2>2. u = [tab |-> u.tab, dynsym |-> u.dynsym, undef |-> u.undef] BY DEF BindState
  <2>3. QED BY <2>1, <2>2 DEF BindCopy, CopyExports
<1>10. /\ D \in Seq(EntryType) /\ GlobalNames(u.dynsym) \cup {n} \subseteq GlobalNames(D)
       /\ DynMeans => GlobalNames(D) \subseteq GlobalNames(u.dynsym) \cup DefinedNames(dyn)
  <2> HIDE DEF n, d
  <2>1. dyn[d].type # "none" BY DEF d, n
  <2>2. QED BY <1>1, <1>4, <2>1, CopyExported
<1> HIDE DEF D, z, e
<1>11. W \in Seq(X) /\ i \in DOMAIN u.tab
  <2>1. z \in X /\ i \in 1 .. Len(u.tab) BY <1>3, <1>6, <1>8
  <2>2. QED BY <1>4, <2>1, ExceptSeq
<1>12. z.name = n /\ z.bind # "LOCAL" /\ z.shndx # "UNDEF" BY <1>5, <1>8
<1>13. W[i] = z BY <1>11
<1> DEFINE c == [u EXCEPT !.tab = W, !.dynsym = D]
<1>14. c \in BindState(X) /\ c.tab = W /\ c.undef = u.undef /\ c.dynsym = D
  <2>1. u.undef \in SUBSET STRING /\ D \in Seq(EntryType) /\ W \in Seq(X) BY <1>4, <1>10, <1>11
  <2> HIDE DEF W, b, d, n
  <2>2. LET q == [u EXCEPT !.tab = W, !.dynsym = D] IN
        q \in BindState(X) /\ q.tab = W /\ q.undef = u.undef /\ q.dynsym = D
    BY <2>1 DEF BindState
  <2>3. QED BY <2>2
<1>15. b = c BY <1>9
<1> HIDE DEF b, c
<1>16. b \in BindState(X) /\ b.tab = W /\ b.undef = u.undef /\ b.dynsym = D BY <1>14, <1>15
<1>17. TableAfter(T, u, b, i) BY <1>1, <1>7, <1>12, <1>16 DEF TableAfter
<1>18. Outcome(T, b, i) BY <1>12, <1>13, <1>16 DEF Outcome
<1>19. BoundUpTo(T, b, i)
  <2>1. GlobalNames(u.dynsym) \subseteq GlobalNames(b.dynsym) BY <1>10, <1>16
  <2>2. DynMeans => GlobalNames(b.dynsym) \subseteq GlobalNames(u.dynsym) \cup DefinedNames(dyn) BY <1>10, <1>16
  <2>3. u.undef \subseteq b.undef /\ \A x \in b.undef : x \in u.undef \/ (x = T[i].name /\ Unbound(T, i)) BY <1>16
  <2> HIDE DEF n, d, W
  <2>4. QED BY <1>16, <1>17, <1>18, <2>1, <2>2, <2>3, BoundMore
<1>20. QED BY <1>16, <1>19 DEF b

\* bind_exe_dynsyms: a symbol that is defined, or that no library has, or not as an object
LEMMA BindOtherStep ==
    ASSUME NEW X, Bindable(X), dyn \in Seq(DllSymbol), NEW T \in Seq(X), NEW i \in 1 .. Len(T), NEW u \in BindState(X),
           BoundUpTo(T, u, i - 1), NEW D \in Seq(EntryType), NEW U \in SUBSET STRING,
           T[i].shndx # "UNDEF" \/ Lookup(dyn, T[i].name) = 0 \/ dyn[Lookup(dyn, T[i].name)].type # "object",
           IF T[i].shndx = "UNDEF" /\ Lookup(dyn, T[i].name) # 0 /\ dyn[Lookup(dyn, T[i].name)].type = "func"
           THEN D = Append(u.dynsym, DynEntry(T[i].name, "GLOBAL", "UNDEF", <<0, 0>>)) ELSE D = u.dynsym,
           U = IF Unbound(T, i) THEN u.undef \cup {T[i].name} ELSE u.undef
    PROVE  LET b == [u EXCEPT !.dynsym = D, !.undef = U] IN b \in BindState(X) /\ BoundUpTo(T, b, i)
<1> DEFINE b == [u EXCEPT !.dynsym = D, !.undef = U]
           n == T[i].name
           d == Lookup(dyn, n)
<1>1. b \in BindState(X) /\ b.tab = u.tab /\ b.dynsym = D /\ b.undef = U BY DEF BindState
<1>2. Len(T) \in Nat /\ i \in Nat /\ T[i] \in X BY ElementOfSeq
<1>3. u.tab[i] = T[i]
  <2>1. i > i - 1 BY <1>2
  <2>2. QED BY <2>1 DEF BoundUpTo
<1>4. n \in STRING BY <1>2 DEF Bindable, VisBlind
<1>5. u.dynsym \in Seq(EntryType) /\ u.undef \in SUBSET STRING BY DEF BindState
<1>6. d # 0 => /\ dyn[d].type \in {"func", "object", "none"}
               /\ DynMeans /\ dyn[d].type # "none" => n \in DefinedNames(dyn)
  BY DynIs
<1> HIDE DEF b
<1>7. TableAfter(T, u, b, i) BY <1>1 DEF TableAfter
<1>8. /\ GlobalNames(u.dynsym) \subseteq GlobalNames(b.dynsym)
      /\ DynMeans => GlobalNames(b.dynsym) \subseteq GlobalNames(u.dynsym) \cup DefinedNames(dyn)
      /\ T[i].shndx = "UNDEF" /\ d # 0 /\ dyn[d].type = "func" => n \in GlobalNames(b.dynsym)
  <2>1. CASE T[i].shndx = "UNDEF" /\ d # 0 /\ dyn[d].type = "func"
    <3> DEFINE e == DynEntry(n, "GLOBAL", "UNDEF", <<0, 0>>)
    <3>1. e \in EntryType /\ GlobalName(e) = {n}
      <4>1. "GLOBAL" \in Binds /\ "GLOBAL" # "LOCAL" /\ "UNDEF" \in Shndxs /\ 0 \in Nat BY DEF Binds, Shndxs
      <4> HIDE DEF n
      <4>2. QED BY <1>4, <4>1, DynEntryFields
    <3>2. D = Append(u.dynsym, e) BY <2>1
    <3> HIDE DEF e, n, d
    <3>3. GlobalNames(D) = GlobalNames(u.dynsym) \cup {n}
      <4>1. GlobalNames(Append(u.dynsym, e)) = GlobalNames(u.dynsym) \cup GlobalName(e) BY <1>5, <3>1, AppendNames
      <4>2. QED BY <3>1, <3>2, <4>1
    <3>4. QED BY <1>1, <1>6, <2>1, <3>3
  <2>2. CASE ~(T[i].shndx = "UNDEF" /\ d # 0 /\ dyn[d].type = "func")
    <3>1. b.dynsym = u.dynsym BY <1>1, <2>2
    <3>2. QED BY <2>2, <3>1
  <2>3. QED BY <2>1, <2>2
<1>9. u.undef \subseteq b.undef /\ \A x \in b.undef : x \in u.undef \/ (x = T[i].name /\ Unbound(T, i)) BY <1>1
<1>10. T[i].shndx = "UNDEF" => Outcome(T, b, i)
  <2> SUFFICES ASSUME T[i].shndx = "UNDEF" PROVE Outcome(T, b, i) OBVIOUS
  <2>1. b.tab[i] = T[i] BY <1>1, <1>3
  <2>2. d = 0 /\ T[i].bind # "WEAK" => n \in b.undef BY <1>1 DEF Unbound
  <2>3. d # 0 /\ dyn[d].type = "func" => n \in GlobalNames(b.dynsym) BY <1>8
  <2>4. ~(d # 0 /\ dyn[d].type = "object") OBVIOUS
  <2> HIDE DEF d, n
  <2>5. /\ d = 0 => b.tab[i] = T[i] /\ (T[i].bind # "WEAK" => n \in b.undef)
        /\ d # 0 /\ dyn[d].type = "func" => n \in GlobalNames(b.dynsym)
        /\ d # 0 /\ dyn[d].type = "object" => b.tab[i].shndx # "UNDEF"
        /\ d # 0 /\ dyn[d].type = "none" => b.tab[i] = T[i]
    BY <2>1, <2>2, <2>3, <2>4
  <2>6. QED BY <2>5 DEF Outcome, d, n
<1>11. BoundUpTo(T, b, i)
  <2>1. GlobalNames(u.dynsym) \subseteq GlobalNames(b.dynsym) BY <1>8
  <2>2. DynMeans => GlobalNames(b.dynsym) \subseteq GlobalNames(u.dynsym) \cup DefinedNames(dyn) BY <1>8
  <2> HIDE DEF n, d
  <2>3. QED BY <1>1, <1>7, <1>9, <1>10, <2>1, <2>2, BoundMore
<1>12. QED BY <1>1, <1>11 DEF b

\* One round
LEMMA BindSymbolStep ==
    ASSUME NEW X, Bindable(X), dyn \in Seq(DllSymbol), NEW T \in Seq(X), NEW i \in 1 .. Len(T), NEW u \in BindState(X),
           BoundUpTo(T, u, i - 1)
    PROVE  LET b == BindSymbol(u, i) IN b \in BindState(X) /\ BoundUpTo(T, b, i)
<1> DEFINE b == BindSymbol(u, i)
           n == T[i].name
           d == Lookup(dyn, n)
           F == T[i].shndx = "UNDEF" /\ d # 0 /\ dyn[d].type = "func"
           D == IF F THEN Append(u.dynsym, DynEntry(n, "GLOBAL", "UNDEF", <<0, 0>>)) ELSE u.dynsym
           U == IF Unbound(T, i) THEN u.undef \cup {n} ELSE u.undef
           c == [u EXCEPT !.dynsym = D, !.undef = U]
<1>1. u.tab[i] = T[i]
  <2>1. i > i - 1 /\ i \in Nat OBVIOUS
  <2>2. QED BY <2>1 DEF BoundUpTo
<1>2. T[i] \in X BY ElementOfSeq
<1>3. n \in STRING BY <1>2 DEF Bindable, VisBlind
<1>4. u.dynsym \in Seq(EntryType) /\ u.undef \in SUBSET STRING BY DEF BindState
<1>5. d # 0 => dyn[d].type \in {"func", "object", "none"} BY DynIs
<1>6. CASE T[i].shndx = "UNDEF" /\ d # 0 /\ dyn[d].type = "object"
  <2>1. b = BindCopy(u, i, d) BY <1>1, <1>6 DEF BindSymbol
  <2>2. LET q == BindCopy(u, i, d) IN q \in BindState(X) /\ BoundUpTo(T, q, i)
    BY <1>6, BindCopyStep
  <2> HIDE DEF b
  <2>3. b \in BindState(X) /\ BoundUpTo(T, b, i) BY <2>1, <2>2
  <2>4. QED BY <2>3 DEF b
<1>7. CASE ~(T[i].shndx = "UNDEF" /\ d # 0 /\ dyn[d].type = "object")
  <2>1. D \in Seq(EntryType)
    <3> DEFINE e == DynEntry(n, "GLOBAL", "UNDEF", <<0, 0>>)
    <3>1. e \in EntryType
      <4>1. "GLOBAL" \in Binds /\ "GLOBAL" # "LOCAL" /\ "UNDEF" \in Shndxs /\ 0 \in Nat BY DEF Binds, Shndxs
      <4> HIDE DEF n
      <4>2. QED BY <1>3, <4>1, DynEntryFields
    <3> HIDE DEF e
    <3>2. Append(u.dynsym, e) \in Seq(EntryType) BY <1>4, <3>1, AppendProperties
    <3>3. QED BY <1>4, <3>2 DEF e
  <2>2. U \in SUBSET STRING BY <1>3, <1>4
  <2>3. u = [tab |-> u.tab, dynsym |-> u.dynsym, undef |-> u.undef] BY DEF BindState
  <2>4. b = c
    <3>1. CASE T[i].shndx # "UNDEF" \/ (d # 0 /\ dyn[d].type = "none")
      <4>1. b = u BY <1>1, <3>1 DEF BindSymbol
      <4>2. D = u.dynsym /\ U = u.undef BY <3>1 DEF Unbound
      <4> HIDE DEF D, U
      <4>3. c = u BY <2>3, <4>2
      <4>4. QED BY <4>1, <4>3
    <3>2. CASE T[i].shndx = "UNDEF" /\ d = 0
      <4>1. b = [u EXCEPT !.undef = IF T[i].bind = "WEAK" THEN u.undef ELSE u.undef \cup {n}]
        BY <1>1, <2>3, <3>2 DEF BindSymbol
      <4>2. D = u.dynsym /\ U = IF T[i].bind = "WEAK" THEN u.undef ELSE u.undef \cup {n} BY <3>2 DEF Unbound
      <4> HIDE DEF D, U
      <4>3. b = [u EXCEPT !.undef = U] BY <4>1, <4>2
      <4>4. c = [u EXCEPT !.undef = U] BY <2>3, <4>2
      <4>5. QED BY <4>3, <4>4
    <3>3. CASE F
      <4>1. b = [u EXCEPT !.dynsym = D] BY <1>1, <2>3, <3>3 DEF BindSymbol
      <4>2. U = u.undef BY <3>3 DEF Unbound
      <4> HIDE DEF D, U
      <4>3. c = [u EXCEPT !.dynsym = D] BY <2>3, <4>2
      <4>4. QED BY <4>1, <4>3
    <3>4. QED BY <1>5, <1>7, <3>1, <3>2, <3>3
  <2>5. /\ IF F THEN D = Append(u.dynsym, DynEntry(n, "GLOBAL", "UNDEF", <<0, 0>>)) ELSE D = u.dynsym
        /\ U = IF Unbound(T, i) THEN u.undef \cup {n} ELSE u.undef
    OBVIOUS
  <2> HIDE DEF D, U, b
  <2>6. c \in BindState(X) /\ BoundUpTo(T, c, i)
    BY <1>7, <2>1, <2>2, <2>5, BindOtherStep
  <2> HIDE DEF c
  <2>7. b \in BindState(X) /\ BoundUpTo(T, b, i) BY <2>4, <2>6
  <2>8. QED BY <2>7 DEF b
<1>8. QED BY <1>6, <1>7

\* bind_exe_dynsyms
LEMMA SymbolsBound ==
    ASSUME NEW X, Bindable(X), dyn \in Seq(DllSymbol), NEW T \in Seq(X)
    PROVE  LET b == ForUpTo(BindSymbol, [tab |-> T, dynsym |-> <<>>, undef |-> {}], Len(T))
           IN  b \in BindState(X) /\ BoundUpTo(T, b, Len(T))
<1> DEFINE n == Len(T)
           a == [tab |-> T, dynsym |-> <<>>, undef |-> {}]
           Bounded(i) == {b \in BindState(X) : BoundUpTo(T, b, i)}
           Good == [i \in 0 .. n |-> Bounded(i)]
           Round == [i \in 1 .. n |-> [u \in BindState(X) |-> BindSymbol(u, i)]]
<1>1. n \in Nat OBVIOUS
<1>2. a \in Bounded(0)
  <2>1. <<>> \in Seq(EntryType) /\ {} \in SUBSET STRING /\ GlobalNames(<<>>) = {} BY DEF GlobalNames
  <2>2. a \in BindState(X) BY <2>1 DEF BindState
  <2>3. a.tab = T /\ a.dynsym = <<>> /\ a.undef = {} OBVIOUS
  <2>4. \A j \in 1 .. n : ~(j <= 0) BY <1>1
  <2> HIDE DEF a
  <2>5. BoundUpTo(T, a, 0) BY <2>1, <2>3, <2>4 DEF BoundUpTo
  <2>6. QED BY <2>2, <2>5
<1>3. ASSUME NEW i \in 1 .. n, NEW u \in Bounded(i - 1) PROVE BindSymbol(u, i) \in Bounded(i)
  <2>1. u \in BindState(X) /\ BoundUpTo(T, u, i - 1) OBVIOUS
  <2>2. BindSymbol(u, i) \in BindState(X) /\ BoundUpTo(T, BindSymbol(u, i), i) BY <2>1, BindSymbolStep
  <2>3. QED BY <2>2
<1>4. \A i \in 0 .. n : Good[i] = Bounded(i) OBVIOUS
<1>5. \A i \in 1 .. n : \A u \in BindState(X) : Round[i][u] = BindSymbol(u, i) OBVIOUS
<1>6. \A i \in 0 .. n : \A u \in Bounded(i) : u \in BindState(X) OBVIOUS
<1>7. \A b \in Bounded(n) : b \in BindState(X) /\ BoundUpTo(T, b, n) OBVIOUS
<1> HIDE DEF After, Good, Round, a
<1>8. \A i \in 1 .. n : \A u \in Good[i - 1] : Round[i][u] \in Good[i]
  <2>1. \A i \in 1 .. n : i - 1 \in 0 .. n /\ i \in 0 .. n BY <1>1
  <2>2. QED BY <1>3, <1>4, <1>5, <1>6, <2>1
<1>9. a \in Good[0] BY <1>1, <1>2, <1>4
<1>10. PICK f : Loop(f, n, a, Round) /\ \A i \in 0 .. n : f[i] \in Good[i]
  BY <1>1, <1>8, <1>9, LoopExists
<1>11. f = [i \in 0 .. n |-> IF i = 0 THEN a ELSE Only({BindSymbol(u, i) : u \in {f[i - 1]}})]
  <2>1. ASSUME NEW i \in 0 .. n, i # 0
        PROVE  Round[i][f[i - 1]] = Only({BindSymbol(u, i) : u \in {f[i - 1]}})
    <3>1. i \in 1 .. n /\ i - 1 \in 0 .. n BY <1>1, <2>1
    <3>2. f[i - 1] \in BindState(X) BY <1>4, <1>6, <1>10, <3>1
    <3>3. Round[i][f[i - 1]] = BindSymbol(f[i - 1], i) BY <1>5, <3>1, <3>2
    <3>4. QED BY <3>3 DEF Only
  <2>2. QED BY <1>10, <2>1 DEF Loop
<1> DEFINE after == CHOOSE h : h = [i \in 0 .. n |-> IF i = 0 THEN a ELSE Only({BindSymbol(u, i) : u \in {h[i - 1]}})]
<1>12. after = [i \in 0 .. n |-> IF i = 0 THEN a ELSE Only({BindSymbol(u, i) : u \in {after[i - 1]}})]
  BY <1>11
<1>13. ForUpTo(BindSymbol, a, n) = after[n] BY DEF ForUpTo
<1> HIDE DEF after
<1>14. after[0] = a /\ \A i \in 1 .. n : after[i] = BindSymbol(after[i - 1], i)
  <2>1. \A i \in 1 .. n : i \in 0 .. n /\ i # 0 BY <1>1
  <2>2. 0 \in 0 .. n BY <1>1
  <2>3. QED BY <1>12, <2>1, <2>2 DEF Only
<1>15. \A i \in 0 .. n : after[i] \in Good[i]
  <2>1. ASSUME NEW i \in 1 .. n, after[i - 1] \in Good[i - 1] PROVE after[i] \in Good[i]
    <3>1. i - 1 \in 0 .. n /\ i \in 0 .. n BY <1>1
    <3>2. after[i - 1] \in Bounded(i - 1) BY <1>4, <2>1, <3>1
    <3>3. QED BY <1>3, <1>4, <1>14, <3>1, <3>2
  <2>2. QED BY <1>1, <1>9, <1>14, <2>1, RoundsKeep
<1>16. after[n] \in Bounded(n) BY <1>1, <1>4, <1>15
<1>17. QED BY <1>7, <1>13, <1>16 DEF a

\* what the rounds of bind_libs_dynsyms keep: the table, and the names exported
ExportState(a) ==
    {b \in [tab : {a.tab}, dynsym : Seq(EntryType), undef : {a.undef}] :
       /\ GlobalNames(a.dynsym) \subseteq GlobalNames(b.dynsym)
       /\ GlobalNames(b.dynsym) \subseteq GlobalNames(a.dynsym) \cup DefinedNames(a.tab)}

\* One round
LEMMA ExportedStep ==
    ASSUME NEW X, X \subseteq EntryType, NEW a \in BindState(X), NEW u \in ExportState(a), NEW e
    PROVE  Exported(u, e) \in ExportState(a)
<1> DEFINE i == Lookup(u.tab, e.name)
           s == u.tab[i]
           t == [s EXCEPT !.vis = "DEFAULT"]
           r == [tab |-> u.dynsym, newUndef |-> FALSE, twice |-> {}, index |-> 0]
           b == SetElfSym(r, t)
           v == [u EXCEPT !.dynsym = b.tab]
<1>1. u.tab = a.tab /\ u.dynsym \in Seq(EntryType) /\ u.undef = a.undef /\ a.tab \in Seq(X)
  BY DEF ExportState, BindState
<1>2. CASE i = 0 \/ u.tab[i].shndx = "UNDEF"
  <2>1. Exported(u, e) = u BY <1>2 DEF Exported
  <2>2. QED BY <2>1
<1>3. CASE ~(i = 0 \/ u.tab[i].shndx = "UNDEF")
  <2>1. Exported(u, e) = v BY <1>3 DEF Exported
  <2>2. i \in 1 .. Len(a.tab) /\ s.bind # "LOCAL" BY <1>1, <1>3, LookupIs
  <2>3. i \in DOMAIN a.tab /\ s \in X
    <3> HIDE DEF i
    <3>1. QED BY <1>1, <2>2, ElementOfSeq
  <2>4. s \in EntryType /\ s.name \in STRING BY <2>3 DEF EntryType
  <2>5. s.name \in DefinedNames(a.tab) BY <1>1, <1>3, <2>2, <2>3 DEF DefinedNames
  <2>6. t \in EntryType /\ t.name = s.name /\ t.bind = s.bind
    <3>1. "DEFAULT" \in Visibilities BY DEF Visibilities
    <3> HIDE DEF s
    <3>2. QED BY <2>4, <3>1 DEF EntryType
  <2>7. HasTable(r) /\ r.tab = u.dynsym /\ r.newUndef \in BOOLEAN /\ r.twice \subseteq STRING BY DEF HasTable
  <2> HIDE DEF t, r
  <2>8. b.tab \in Seq(EntryType) /\ Entered(r, b, t)
    <3>1. Mergeable(EntryType) BY EntryTypeBlind, VisBlindMerges
    <3>2. QED BY <1>1, <2>4, <2>6, <2>7, <3>1, SetElfSymEnters
  <2> HIDE DEF b
  <2>9. /\ Len(u.dynsym) \in Nat /\ DOMAIN u.dynsym = 1 .. Len(u.dynsym)
        /\ Len(b.tab) \in Nat /\ DOMAIN b.tab = 1 .. Len(b.tab)
    BY <1>1, <2>8
  <2>10. Stable(u.dynsym, b.tab) BY <1>1, <2>7, <2>8, EnteredStable
  <2>11. GlobalNames(u.dynsym) \subseteq GlobalNames(b.tab)
    <3>1. \A j \in 1 .. Len(u.dynsym) : /\ j \in 1 .. Len(b.tab) /\ b.tab[j].name = u.dynsym[j].name
                                        /\ b.tab[j].bind = "LOCAL" <=> u.dynsym[j].bind = "LOCAL"
      BY <1>1, <2>8, <2>10, StableAt
    <3>2. QED BY <2>9, <3>1 DEF GlobalNames
  <2>12. GlobalNames(b.tab) \subseteq GlobalNames(u.dynsym) \cup DefinedNames(a.tab)
    <3> SUFFICES ASSUME NEW j \in 1 .. Len(b.tab), b.tab[j].bind # "LOCAL"
                 PROVE  b.tab[j].name \in GlobalNames(u.dynsym) \cup DefinedNames(a.tab)
      BY <2>9 DEF GlobalNames
    <3>1. CASE j \in 1 .. Len(u.dynsym)
      <4>1. b.tab[j].name = u.dynsym[j].name /\ (b.tab[j].bind = "LOCAL" <=> u.dynsym[j].bind = "LOCAL")
        BY <2>7, <2>8, <3>1 DEF Entered
      <4>2. QED BY <2>9, <3>1, <4>1 DEF GlobalNames
    <3>2. CASE j \notin 1 .. Len(u.dynsym)
      <4>1. Len(b.tab) \in {Len(u.dynsym), Len(u.dynsym) + 1} /\ b.index \in 1 .. Len(b.tab) BY <2>7, <2>8 DEF Entered
      <4>2. j = Len(u.dynsym) + 1 /\ Len(b.tab) = Len(u.dynsym) + 1 BY <2>9, <3>2, <4>1
      <4>3. b.index > Len(u.dynsym)
        <5>1. b.index <= Len(u.dynsym) => Len(b.tab) = Len(u.dynsym) BY <2>7, <2>8 DEF Entered
        <5>2. QED BY <2>9, <4>1, <4>2, <5>1
      <4>4. b.index = j BY <2>9, <4>1, <4>2, <4>3
      <4>5. b.tab[j].name = t.name BY <2>8, <4>4 DEF Entered
      <4>6. QED BY <2>5, <2>6, <4>5
    <3>3. QED BY <3>1, <3>2
  <2>13. v.tab = a.tab /\ v.dynsym = b.tab /\ v.undef = a.undef /\ v = [tab |-> v.tab, dynsym |-> v.dynsym, undef |-> v.undef]
    BY <1>1 DEF ExportState
  <2>14. /\ GlobalNames(a.dynsym) \subseteq GlobalNames(u.dynsym)
         /\ GlobalNames(u.dynsym) \subseteq GlobalNames(a.dynsym) \cup DefinedNames(a.tab)
    BY DEF ExportState
  <2> HIDE DEF v
  <2>15. v \in ExportState(a) BY <2>8, <2>11, <2>12, <2>13, <2>14 DEF ExportState
  <2>16. QED BY <2>1, <2>15
<1>4. QED BY <1>2, <1>3

\* bind_libs_dynsyms
LEMMA AllExported ==
    ASSUME NEW X, X \subseteq EntryType, NEW a \in BindState(X), dyn \in Seq(DllSymbol)
    PROVE  ForEach(Exported, a, dyn) \in ExportState(a)
<1> DEFINE n == Len(dyn)
           Exporting == ExportState(a)
           Good == [i \in 0 .. n |-> Exporting]
           Round == [i \in 1 .. n |-> [u \in Exporting |-> Exported(u, dyn[i])]]
<1>1. n \in Nat OBVIOUS
<1>2. a \in Exporting
  <2>1. a = [tab |-> a.tab, dynsym |-> a.dynsym, undef |-> a.undef] /\ a.dynsym \in Seq(EntryType) BY DEF BindState
  <2>2. QED BY <2>1 DEF ExportState
<1>3. ASSUME NEW i \in 1 .. n, NEW u \in Exporting PROVE Exported(u, dyn[i]) \in Exporting
  BY ExportedStep
<1>4. \A i \in 0 .. n : Good[i] = Exporting OBVIOUS
<1>5. \A i \in 1 .. n : \A u \in Exporting : Round[i][u] = Exported(u, dyn[i]) OBVIOUS
<1> HIDE DEF Exporting, Good, Round
<1>8. \A i \in 1 .. n : \A u \in Good[i - 1] : Round[i][u] \in Good[i]
  <2>1. \A i \in 1 .. n : i - 1 \in 0 .. n /\ i \in 0 .. n BY <1>1
  <2>2. QED BY <1>3, <1>4, <1>5, <2>1
<1>9. a \in Good[0] BY <1>1, <1>2, <1>4
<1>10. PICK f : Loop(f, n, a, Round) /\ \A i \in 0 .. n : f[i] \in Good[i]
  BY <1>1, <1>8, <1>9, LoopExists
<1>11. f = [i \in 0 .. n |-> IF i = 0 THEN a ELSE Only({Exported(u, dyn[i]) : u \in {f[i - 1]}})]
  <2>1. ASSUME NEW i \in 0 .. n, i # 0
        PROVE  Round[i][f[i - 1]] = Only({Exported(u, dyn[i]) : u \in {f[i - 1]}})
    <3>1. i \in 1 .. n /\ i - 1 \in 0 .. n BY <1>1, <2>1
    <3>2. f[i - 1] \in Exporting BY <1>4, <1>10, <3>1
    <3>3. Round[i][f[i - 1]] = Exported(f[i - 1], dyn[i]) BY <1>5, <3>1, <3>2
    <3>4. QED BY <3>3 DEF Only
  <2>2. QED BY <1>10, <2>1 DEF Loop
<1> DEFINE after == CHOOSE h : h = [i \in 0 .. n |-> IF i = 0 THEN a ELSE Only({Exported(u, dyn[i]) : u \in {h[i - 1]}})]
<1>12. after = [i \in 0 .. n |-> IF i = 0 THEN a ELSE Only({Exported(u, dyn[i]) : u \in {after[i - 1]}})]
  BY <1>11
<1>13. ForEach(Exported, a, dyn) = after[n] BY DEF ForEach
<1> HIDE DEF after
<1>14. after[0] = a /\ \A i \in 1 .. n : after[i] = Exported(after[i - 1], dyn[i])
  <2>1. \A i \in 1 .. n : i \in 0 .. n /\ i # 0 BY <1>1
  <2>2. 0 \in 0 .. n BY <1>1
  <2>3. QED BY <1>12, <2>1, <2>2 DEF Only
<1>15. \A i \in 0 .. n : after[i] \in Good[i]
  <2>1. ASSUME NEW i \in 1 .. n, after[i - 1] \in Good[i - 1] PROVE after[i] \in Good[i]
    <3>1. i - 1 \in 0 .. n /\ i \in 0 .. n BY <1>1
    <3>2. after[i - 1] \in Exporting BY <1>4, <2>1, <3>1
    <3>3. QED BY <1>3, <1>4, <1>14, <3>1, <3>2
  <2>2. QED BY <1>1, <1>9, <1>14, <2>1, RoundsKeep
<1>16. after[n] \in Exporting BY <1>1, <1>4, <1>15
<1>17. QED BY <1>13, <1>16 DEF Exporting

\* Common symbols may be allocated.
Allocatable(X) == \A e \in X : e.shndx = "COMMON" => [e EXCEPT !.shndx = "bss"] \in X

\* relocate_common_syms
LEMMA CommonAllocated ==
    ASSUME NEW X, X \subseteq EntryType, Allocatable(X), tab \in Seq(X)
    PROVE  /\ Allocated \in Seq(X) /\ Len(Allocated) = Len(tab)
           /\ \A j \in 1 .. Len(tab) :
                 /\ Allocated[j].name = tab[j].name /\ Allocated[j].bind = tab[j].bind
                 /\ Allocated[j].shndx = "UNDEF" <=> tab[j].shndx = "UNDEF"
                 /\ tab[j].shndx # "COMMON" => Allocated[j] = tab[j]
<1> DEFINE n == Len(tab)
           A(e) == IF e.shndx = "COMMON" THEN [e EXCEPT !.shndx = "bss"] ELSE e
<1>1. DOMAIN tab = 1 .. n /\ n \in Nat OBVIOUS
<1>2. \A e \in X : A(e) \in X BY DEF Allocatable
<1>3. \A j \in 1 .. n : tab[j] \in X OBVIOUS
<1>4. Allocated = [j \in 1 .. n |-> A(tab[j])] BY <1>1 DEF Allocated
<1>5. \A e \in EntryType : /\ A(e).name = e.name /\ A(e).bind = e.bind
                           /\ A(e).shndx = "UNDEF" <=> e.shndx = "UNDEF"
                           /\ e.shndx # "COMMON" => A(e) = e
  BY DEF EntryType
<1> HIDE DEF A, n
<1>6. Allocated \in Seq(X) /\ Len(Allocated) = n BY <1>1, <1>2, <1>3, <1>4
<1>7. \A j \in 1 .. n : Allocated[j] = A(tab[j]) /\ tab[j] \in EntryType BY <1>3, <1>4
<1>8. QED BY <1>5, <1>6, <1>7 DEF n

\* Binding, step by step
LEMMA BindExeIs ==
    ASSUME NEW X, Bindable(X), Allocatable(X), tab \in Seq(X), dyn \in Seq(DllSymbol), BindExe
    PROVE  \E a \in BindState(X) :
              /\ BoundUpTo(Allocated, a, Len(tab)) /\ tab' = a.tab
              /\ \E b \in ExportState(a) : pc' = IF a.undef # {} \/ StillUndefined(b) # {} THEN "failed" ELSE "done"
<1> DEFINE a == ForUpTo(BindSymbol, [tab |-> Allocated, dynsym |-> <<>>, undef |-> {}], Len(tab))
           b == ForEach(Exported, a, dyn)
<1>1. X \subseteq EntryType BY DEF Bindable
<1>2. Allocated \in Seq(X) /\ Len(Allocated) = Len(tab) BY <1>1, CommonAllocated
<1>3. a \in BindState(X) /\ BoundUpTo(Allocated, a, Len(tab))
  <2>1. LET c == ForUpTo(BindSymbol, [tab |-> Allocated, dynsym |-> <<>>, undef |-> {}], Len(Allocated))
        IN  c \in BindState(X) /\ BoundUpTo(Allocated, c, Len(Allocated))
    BY <1>2, SymbolsBound
  <2>2. QED BY <1>2, <2>1
<1>4. tab' = b.tab /\ pc' = IF a.undef # {} \/ StillUndefined(b) # {} THEN "failed" ELSE "done" BY DEF BindExe
<1> HIDE DEF a
<1>5. b \in ExportState(a) BY <1>1, <1>3, AllExported
<1> HIDE DEF b
<1>6. b.tab = a.tab BY <1>5 DEF ExportState
<1>7. QED BY <1>3, <1>4, <1>5, <1>6

\* The entries that there were stay.
LEMMA BoundStable ==
    ASSUME NEW X, Bindable(X), Allocatable(X), tab \in Seq(X), NEW a \in BindState(X), BoundUpTo(Allocated, a, Len(tab))
    PROVE  a.tab \in Seq(X) /\ Stable(tab, a.tab)
<1>1. a.tab \in Seq(X) BY DEF BindState
<1>2. /\ Allocated \in Seq(X) /\ Len(Allocated) = Len(tab)
      /\ \A j \in 1 .. Len(tab) :
            /\ Allocated[j].name = tab[j].name /\ Allocated[j].bind = tab[j].bind
            /\ Allocated[j].shndx = "UNDEF" <=> tab[j].shndx = "UNDEF"
            /\ tab[j].shndx # "COMMON" => Allocated[j] = tab[j]
  BY CommonAllocated DEF Bindable
<1>3. ASSUME NEW j \in 1 .. Len(tab)
      PROVE  /\ j <= Len(a.tab) /\ a.tab[j].name = tab[j].name
             /\ a.tab[j].bind = "LOCAL" <=> tab[j].bind = "LOCAL"
             /\ tab[j].bind = "LOCAL" => a.tab[j] = tab[j]
  <2>1. Len(tab) \in Nat /\ j \in 1 .. Len(Allocated) BY <1>2
  <2>2. /\ Len(a.tab) = Len(Allocated) /\ a.tab[j].name = Allocated[j].name
        /\ a.tab[j].bind = "LOCAL" <=> Allocated[j].bind = "LOCAL"
        /\ Allocated[j].shndx # "UNDEF" => a.tab[j] = Allocated[j]
    BY <2>1 DEF BoundUpTo
  <2>3. j <= Len(a.tab) BY <1>2, <2>1, <2>2
  <2>4. tab[j].bind = "LOCAL" => tab[j].shndx # "UNDEF" /\ tab[j].shndx # "COMMON"
    <3>1. tab[j] \in X BY ElementOfSeq
    <3>2. QED BY <3>1 DEF Bindable
  <2>5. QED BY <1>2, <2>2, <2>3, <2>4
<1>4. QED BY <1>1, <1>3 DEF Stable

-----------------------------------------------------------------------------
(* What the steps change                                                   *)

\* an object is loaded, or a library, or neither
Changes ==
    \/ \E m \in DOMAIN world.lib : \E stk : LoadObject(m, stk) /\ Heeded(m, stk) /\ UNCHANGED <<dyn, dlls>>
    \/ /\ UNCHANGED <<tab, once, rels, loaded>> /\ pc' \in {"load", "bind"}
       /\ UNCHANGED <<dyn, dlls>> \/ \E f \in OfKind(world, {"dll"}) : \E level \in {0, 1} : AddDll(f, level)

\* Opening a file
LEMMA FileChanges ==
    ASSUME WorldKnown, pc = "load", NEW f \in DOMAIN world.file, NEW whole, NEW level \in {0, 1}, NEW stk, AddFile(f, whole, level, stk),
           File(f).kind = "obj" => Repeated(stk) = {}
    PROVE  Changes
<1>1. File(f).kind \in {"obj", "ar", "script", "dll"} BY FileKinds
<1>2. CASE File(f).kind = "obj"
  <2>1. [f |-> f, k |-> 1] \in DOMAIN world.lib BY <1>2, FileKinds
  <2>2. LoadObject([f |-> f, k |-> 1], stk) /\ UNCHANGED <<dyn, dlls>> BY <1>2 DEF AddFile
  <2>3. Heeded([f |-> f, k |-> 1], stk) BY <1>2 DEF Heeded
  <2>4. QED BY <2>1, <2>2, <2>3 DEF Changes
<1>3. CASE File(f).kind \in {"ar", "script"}
  <2>1. UNCHANGED <<symbols, dyn, dlls, pc>> BY <1>3 DEF AddFile
  <2>2. QED BY <2>1 DEF Changes, symbols
<1>4. CASE File(f).kind = "dll"
  <2>1. AddDll(f, level) /\ UNCHANGED <<tab, once, rels, twice, loaded, pc>> BY <1>4 DEF AddFile
  <2>2. f \in OfKind(world, {"dll"}) BY <1>4, FileKinds
  <2>3. QED BY <2>1, <2>2 DEF Changes
<1>5. QED BY <1>1, <1>2, <1>3, <1>4

\* The command line is read when nothing else is.
LEMMA TopAlone == ASSUME LInv, top.k = "cmd" PROVE Len(stack) = 1
<1>1. Called(stack) /\ stack \in Seq(Frame) BY InvFacts
<1>2. Len(stack) \in Nat /\ Len(stack) >= 1 /\ top = stack[Len(stack)] BY <1>1, TopIs
<1>3. Len(stack) \in 1 .. Len(stack) BY <1>2
<1>4. QED BY <1>1, <1>2, <1>3, Positions

\* When a group is gone through again, its archives have only members that can be
\* loaded.
LEMMA MemberHeeded ==
    ASSUME LInv, RelocWorld(world), top.k = "ar", NEW m \in DOMAIN world.lib, m.f = top.f, m \in Members(top.f)
    PROVE  Heeded(m, Append(pop, [top EXCEPT !.i = @ + 1, !.bound = TRUE]))
<1> DEFINE c == top
           j == top.i + 1
           d == [c EXCEPT !.i = j, !.bound = TRUE]
           t == Append(pop, d)
<1>1. WorldKnown /\ Called(stack) /\ stack \in Seq(Frame) BY InvFacts
<1>2. j \in Nat \ {0} /\ c \in Frame /\ c = Last(stack) /\ c.k = "ar" /\ TRUE \in BOOLEAN
  <2>1. top \in Frame /\ top.i \in Nat \ {0} BY <1>1, TopIs
  <2>2. top.i + 1 \in Nat \ {0} BY <2>1
  <2>3. QED BY <2>1, <2>2 DEF top
<1>3. t = Append(pop, [top EXCEPT !.i = @ + 1, !.bound = TRUE]) OBVIOUS
<1> HIDE DEF c, j
<1>4. d \in Frame /\ SameCall(c, d) /\ d.k = "ar" BY <1>1, <1>2, WithBound
<1> HIDE DEF d
<1>5. Instead(stack, t, d) BY <1>1, <1>2, <1>4, Replaced DEF Instead, pop
<1>6. SUFFICES ASSUME Repeated(t) # {} PROVE ~Loses(Object(m)) BY <1>3 DEF Heeded
<1> HIDE DEF t
<1>7. t \in Seq(Frame) /\ Called(t) /\ Len(t) = Len(stack) /\ Last(t) = d
      /\ \A y \in 1 .. Len(stack) : y # Len(stack) => t[y] = stack[y]
  BY <1>5 DEF Instead
<1>8. Len(t) = 4 /\ t[3].k = "list" /\ File(t[3].f).lists[t[3].l].group = TRUE BY <1>4, <1>6, <1>7, CaughtIs
<1>9. Len(stack) = 4 /\ t[3] = stack[3] /\ 3 \in 1 .. Len(stack) /\ 4 \in 1 .. Len(stack)
  <2>1. Len(stack) = 4 BY <1>7, <1>8
  <2>2. 3 \in 1 .. 4 /\ 3 # 4 /\ 4 \in 1 .. 4 OBVIOUS
  <2>3. QED BY <1>7, <2>1, <2>2
<1>10. stack[4] = top BY <1>1, <1>9, TopIs
<1> DEFINE f == stack[3].f
           l == stack[3].l
           L == File(f).lists[l]
           x == stack[3].i - 1
<1>11. f \in OfKind(world, {"script"}) \cap CommandLine(world) /\ l \in DOMAIN File(f).lists
  BY <1>1, <1>8, <1>9, FramesMean
<1>12. x \in DOMAIN L.files /\ top.f = L.files[x] BY <1>1, <1>8, <1>9, <1>10, FramesMean
<1>13. L \in Range(world.file[f].lists) /\ L.group = TRUE BY <1>8, <1>9, <1>11 DEF Range, File
<1>14. top.f \in Range(L.files) BY <1>12 DEF Range
<1> HIDE DEF f, l, L, x
<1>15. top.f \in Grouped(world)
  <2> DEFINE K(g) == {k \in Range(world.file[g].lists) : k.group}
             G(g) == UNION {Range(k.files) : k \in K(g)}
             S == OfKind(world, {"script"}) \cap CommandLine(world)
  <2>1. L \in K(f) BY <1>13
  <2>2. Grouped(world) = UNION {G(g) : g \in S} BY DEF Grouped
  <2>3. f \in S BY <1>11
  <2> HIDE DEF K, S
  <2>4. top.f \in G(f) BY <1>14, <2>1
  <2> HIDE DEF G
  <2>5. QED BY <2>2, <2>3, <2>4
<1>16. top.f \in OfKind(world, {"ar"}) BY ArchiveIs
<1>17. \A o \in Range(world.file[top.f].objs) : ~Loses(o) BY <1>15, <1>16 DEF RelocWorld
<1>18. Object(m) \in Range(world.file[top.f].objs)
  <2>1. m.k \in DOMAIN File(top.f).objs BY DEF Members
  <2>2. QED BY <2>1 DEF Object, File, Range
<1>19. QED BY <1>17, <1>18

\* The calls and the files that they open
LEMMA StepChanges ==
    ASSUME LInv, RelocWorld(world), Next, pc = "load"
    PROVE  world' = world /\ Changes
<1>1. /\ WorldKnown /\ LinkTypes /\ Called(stack) /\ stack \in Seq(Frame) BY InvFacts
<1>2. top \in Frame /\ top.i \in Nat \ {0} BY <1>1, TopIs
<1>3. ASSUME NextFile PROVE world' = world /\ Changes
  <2> DEFINE i == top.i
  <2>1. world' = world BY <1>3 DEF NextFile
  <2>2. CASE i <= Len(world.cmd)
    <3> DEFINE f == world.cmd[i].f
    <3>1. AddFile(f, world.cmd[i].whole, 0, Advanced) BY <1>3, <2>2 DEF NextFile
    <3>2. f \in DOMAIN world.file
      <4> DEFINE C == [f : DOMAIN world.file, whole : BOOLEAN]
                 cmd == world.cmd
      <4>1. cmd \in Seq(C) BY <1>1, FileKinds
      <4> HIDE DEF C, i, cmd
      <4>2. Len(cmd) \in Nat BY <4>1
      <4>3. i \in 1 .. Len(cmd) BY <1>2, <2>2, <4>2 DEF i, cmd
      <4>4. cmd[i] \in C BY <4>1, <4>3, ElementOfSeq
      <4>5. QED BY <4>4 DEF C, cmd
    <3>3. Repeated(Advanced) = {}
      <4>1. Instead(stack, Advanced, [top EXCEPT !.i = @ + 1]) BY <1>1, AdvancedIs
      <4>2. top.k = "cmd" BY <1>3 DEF NextFile, Doing
      <4>3. Len(stack) = 1 BY <4>2, TopAlone
      <4>4. Advanced \in Seq(Frame) /\ Called(Advanced) /\ Len(Advanced) < 3 BY <4>1, <4>3 DEF Instead
      <4>5. QED BY <4>4, NoneRepeated
    <3> HIDE DEF f, i
    <3>4. QED BY <1>1, <2>1, <3>1, <3>2, <3>3, FileChanges
  <2>3. CASE ~(i <= Len(world.cmd))
    <3>1. pc' = "bind" /\ UNCHANGED <<symbols, dyn, dlls>> BY <1>3, <2>3 DEF NextFile
    <3>2. QED BY <2>1, <3>1 DEF Changes, symbols
  <2>4. QED BY <2>2, <2>3
<1>4. ASSUME WholeArchive PROVE world' = world /\ Changes
  <2> DEFINE i == top.i
             f == top.f
             objs == File(f).objs
             m == [f |-> f, k |-> i]
  <2>1. world' = world /\ top.k = "whole" /\ UNCHANGED <<dyn, dlls>> BY <1>4 DEF WholeArchive, Doing
  <2>2. f \in DOMAIN world.file /\ File(f).kind = "ar" BY <2>1, TopMeans
  <2>3. objs \in Seq(ObjectFile) /\ \A k \in DOMAIN objs : [f |-> f, k |-> k] \in DOMAIN world.lib
    BY <1>1, <2>2, FileKinds
  <2>4. CASE i <= Len(objs)
    <3>1. LoadObject(m, Advanced) BY <1>4, <2>4 DEF WholeArchive
    <3>2. i \in DOMAIN objs
      <4> HIDE DEF i, objs
      <4>1. Len(objs) \in Nat /\ DOMAIN objs = 1 .. Len(objs) BY <2>3
      <4>2. QED BY <1>2, <2>4, <4>1 DEF i
    <3>3. m \in DOMAIN world.lib BY <2>3, <3>2
    <3> HIDE DEF m
    <3>4. Heeded(m, Advanced)
      <4>1. Instead(stack, Advanced, [top EXCEPT !.i = @ + 1]) BY <1>1, AdvancedIs
      <4>2. Len(stack) = 2 BY <2>1, TopMeans
      <4>3. Advanced \in Seq(Frame) /\ Called(Advanced) /\ Len(Advanced) < 3 BY <4>1, <4>2 DEF Instead
      <4>4. QED BY <4>3, NoneRepeated DEF Heeded
    <3>5. QED BY <2>1, <3>1, <3>3, <3>4 DEF Changes
  <2>5. CASE ~(i <= Len(objs))
    <3>1. UNCHANGED <<symbols, pc>> BY <1>4, <2>5 DEF WholeArchive
    <3>2. QED BY <2>1, <3>1 DEF Changes, symbols
  <2>6. QED BY <2>4, <2>5
<1>5. ASSUME ArchiveName PROVE world' = world /\ Changes
  <2> DEFINE e == world.index[top.f][top.i]
             x == Lookup(tab, e.name)
             m == [f |-> e.f, k |-> e.k]
  <2>1. world' = world /\ top.k = "ar" /\ top.i <= Len(world.index[top.f]) /\ UNCHANGED <<dyn, dlls>>
    BY <1>5 DEF ArchiveName, Doing
  <2>2. m \in DOMAIN world.lib BY <2>1, IndexedIs
  <2> DEFINE t == Append(pop, [top EXCEPT !.i = @ + 1, !.bound = TRUE])
  <2>3. LoadObject(m, t) \/ UNCHANGED <<symbols, pc>> BY <1>5 DEF ArchiveName
  <2>4. Heeded(m, t)
    <3>1. m.f = top.f /\ m \in Members(top.f) BY <2>1, IndexedIs
    <3> HIDE DEF m
    <3>2. QED BY <2>1, <2>2, <3>1, MemberHeeded
  <2> HIDE DEF m, t
  <2>5. QED BY <2>1, <2>2, <2>3, <2>4 DEF Changes, symbols
<1>6. ASSUME ArchiveDone \/ Script \/ ListDone PROVE world' = world /\ Changes
  <2>1. world' = world /\ UNCHANGED <<tab, once, rels, loaded, pc, dyn, dlls>>
    BY <1>6 DEF ArchiveDone, Script, ListDone, symbols
  <2>2. QED BY <2>1 DEF Changes
<1>7. ASSUME ListFile PROVE world' = world /\ Changes
  <2> DEFINE i == top.i
             f == top.f
             g == List.files[i]
  <2>1. world' = world /\ top.k = "list" /\ i <= Len(List.files) /\ AddFile(g, WholeArchives, 0, Advanced)
    BY <1>7 DEF ListFile, Doing
  <2>2. Len(stack) = 3 /\ stack[3] = top BY <2>1, TopMeans
  <2>3. 3 \in 1 .. Len(stack) BY <2>2
  <2>4. f \in OfKind(world, {"script"}) /\ top.l \in DOMAIN File(f).lists BY <1>1, <2>1, <2>2, <2>3, FramesMean
  <2>5. f \in DOMAIN world.file /\ File(f).kind = "script" BY <2>4 DEF OfKind, File
  <2>6. File(f).lists \in Seq([group : BOOLEAN, files : Seq(OfKind(world, {"ar", "dll"}))]) BY <1>1, <2>5, FileKinds
  <2> DEFINE ls == File(f).lists
             L == [group : BOOLEAN, files : Seq(OfKind(world, {"ar", "dll"}))]
  <2>7. List = ls[top.l] /\ ls \in Seq(L) /\ top.l \in DOMAIN ls BY <2>4, <2>6 DEF List
  <2>8. List.files \in Seq(OfKind(world, {"ar", "dll"}))
    <3> HIDE DEF ls, L
    <3>1. ls[top.l] \in L
      <4>1. DOMAIN ls = 1 .. Len(ls) BY <2>7
      <4>2. QED BY <2>7, <4>1, ElementOfSeq
    <3>2. List \in L BY <2>7, <3>1
    <3>3. QED BY <3>2 DEF L
  <2>9. g \in OfKind(world, {"ar", "dll"})
    <3> DEFINE fs == List.files
               K == OfKind(world, {"ar", "dll"})
    <3>1. fs \in Seq(K) BY <2>8
    <3> HIDE DEF fs, K, i
    <3>2. Len(fs) \in Nat BY <3>1
    <3>3. i \in 1 .. Len(fs) BY <1>2, <2>1, <3>2 DEF i, fs
    <3>4. fs[i] \in K BY <3>1, <3>3, ElementOfSeq
    <3>5. QED BY <3>4 DEF K, fs
  <2> HIDE DEF g
  <2>10. g \in DOMAIN world.file /\ File(g).kind # "obj" BY <2>9 DEF OfKind, File
  <2>11. QED BY <1>1, <2>1, <2>10, FileChanges
<1>8. ASSUME DllNeeds PROVE world' = world /\ Changes
  <2> DEFINE i == top.i
             f == top.f
             fs == File(f).needed
             g == fs[i]
  <2>1. world' = world /\ top.k = "dll" BY <1>8 DEF DllNeeds, Doing
  <2>2. f \in DOMAIN world.file /\ File(f).kind = "dll" BY <2>1, TopMeans
  <2>3. fs \in Seq(OfKind(world, {"dll"})) BY <1>1, <2>2, FileKinds
  <2>4. CASE i > Len(fs) \/ \E j \in DOMAIN dlls : dlls[j].f = g
    <3>1. UNCHANGED <<symbols, dyn, dlls, pc>> BY <1>8, <2>4 DEF DllNeeds
    <3>2. QED BY <2>1, <3>1 DEF Changes, symbols
  <2>5. CASE ~(i > Len(fs) \/ \E j \in DOMAIN dlls : dlls[j].f = g)
    <3>1. AddFile(g, WholeArchives, 1, Advanced) BY <1>8, <2>5 DEF DllNeeds
    <3>2. g \in OfKind(world, {"dll"})
      <4> DEFINE K == OfKind(world, {"dll"})
      <4> HIDE DEF K, i, fs
      <4>1. Len(fs) \in Nat BY <2>3
      <4>2. i \in 1 .. Len(fs) BY <1>2, <2>5, <4>1 DEF i
      <4>3. fs[i] \in K BY <2>3, <4>2, ElementOfSeq DEF K
      <4>4. QED BY <4>3 DEF K
    <3> HIDE DEF g
    <3>3. g \in DOMAIN world.file /\ File(g).kind # "obj" BY <3>2 DEF OfKind, File
    <3>4. QED BY <1>1, <2>1, <3>1, <3>3, FileChanges
  <2>6. QED BY <2>4, <2>5
<1>9. ~BindExe BY DEF BindExe
<1>10. QED BY <1>3, <1>4, <1>5, <1>6, <1>7, <1>8, <1>9 DEF Next

\* The entries of the table may be bound.
LEMMA PlacedBindable == ASSUME NEW O, NEW L PROVE Bindable(Placed(O, L)) /\ Allocatable(Placed(O, L))
<1> DEFINE X == Placed(O, L)
<1>1. VisBlind(X) BY PlacedBlind
<1>2. X \subseteq EntryType /\ \A e \in X : e.bind = "LOCAL" => e.shndx \in {"bss", "data"} BY DEF Placed
<1>3. ASSUME NEW n \in STRING, NEW b \in Binds, NEW d \in Nat PROVE DynEntry(n, b, "bss", <<0, d>>) \in X
  <2> DEFINE e == [name |-> n, bind |-> b, vis |-> "DEFAULT", shndx |-> "bss", at |-> <<0, d>>]
  <2>1. <<0, d>> \in Int \X Int OBVIOUS
  <2>2. e \in EntryType BY <2>1 DEF EntryType, Visibilities, Shndxs
  <2>3. e.shndx = "bss" /\ e.at[1] = 0 OBVIOUS
  <2> HIDE DEF e
  <2>4. e \in X BY <2>2, <2>3 DEF Placed
  <2>5. QED BY <2>4 DEF DynEntry, e
<1>4. ASSUME NEW e \in X, e.shndx = "COMMON" PROVE [e EXCEPT !.shndx = "bss"] \in X
  <2> DEFINE f == [e EXCEPT !.shndx = "bss"]
  <2>1. e \in EntryType /\ e.at[2] < 0 BY <1>4 DEF Placed
  <2>2. f \in EntryType /\ f.at = e.at /\ f.shndx = "bss" BY <2>1 DEF EntryType, Shndxs
  <2>3. e.at[2] \in Int BY <2>1 DEF EntryType
  <2>4. ~(f.at[2] > 0) BY <2>1, <2>2, <2>3
  <2> HIDE DEF f
  <2>5. QED BY <2>2, <2>4 DEF Placed, f
<1>5. QED BY <1>1, <1>2, <1>3, <1>4 DEF Bindable, Allocatable

\* What is to be shown of a step
LEMMA RelocsConcluded ==
    ASSUME world' = world, RelocWorld(world),
           pc' # "failed" => /\ tab' \in Seq(Placed(once', loaded')) /\ OnceLoaded(once', loaded')
                             /\ Relocated(tab', rels', once', loaded')
    PROVE  RelocWorld(world)' /\ RelocInv'
<1>1. RelocWorld(world)' BY DEF RelocWorld, ObjectsOf, OfKind, Grouped, CommandLine
<1>2. Placed(once, loaded)' = Placed(once', loaded') BY DEF Placed, PlaceIn, Object, File
<1>3. OnceLoaded(once, loaded)' <=> OnceLoaded(once', loaded') BY DEF OnceLoaded, Object, File
<1>4. Relocated(tab, rels, once, loaded)' <=> Relocated(tab', rels', once', loaded')
  <2>1. ASSUME NEW k, NEW r, NEW i
        PROVE  Meant(tab, once, loaded, k, r, rels[i].sym)' <=> Meant(tab', once', loaded', k, r, rels'[i].sym)
    BY DEF Meant, PlaceIn, Object, File
  <2>2. (\A i \in 1 .. Len(rels) : \E k \in 1 .. Len(loaded) : \E r \in Range(Object(loaded[k]).rels) :
            rels[i].at = <<k, r.sec>> /\ rels[i].off = r.off /\ Meant(tab, once, loaded, k, r, rels[i].sym))'
        <=> (\A i \in 1 .. Len(rels') : \E k \in 1 .. Len(loaded') : \E r \in Range(Object(loaded'[k]).rels) :
            rels'[i].at = <<k, r.sec>> /\ rels'[i].off = r.off /\ Meant(tab', once', loaded', k, r, rels'[i].sym))
    BY <2>1 DEF Object, File
  <2>3. (\A k \in 1 .. Len(loaded) : \A r \in Range(Object(loaded[k]).rels) :
            \E i \in 1 .. Len(rels) : rels[i].at = <<k, r.sec>> /\ rels[i].off = r.off)'
        <=> (\A k \in 1 .. Len(loaded') : \A r \in Range(Object(loaded'[k]).rels) :
            \E i \in 1 .. Len(rels') : rels'[i].at = <<k, r.sec>> /\ rels'[i].off = r.off)
    BY DEF Object, File
  <2>4. QED BY <2>2, <2>3 DEF Relocated
<1>5. QED BY <1>1, <1>2, <1>3, <1>4 DEF RelocInv

\* A relocation is to the same symbol of a table with the same entries.
LEMMA MeantInTable ==
    ASSUME NEW O, NEW L, NEW X, NEW T \in Seq(X), NEW U \in Seq(X), Stable(T, U),
           NEW k, NEW r, NEW y, Meant(T, O, L, k, r, y)
    PROVE  Meant(U, O, L, k, r, y)
<1>1. \A i \in 1 .. Len(T) : /\ i \in 1 .. Len(U) /\ U[i].name = T[i].name
                             /\ (U[i].bind = "LOCAL" <=> T[i].bind = "LOCAL")
                             /\ (T[i].bind = "LOCAL" => U[i] = T[i])
  BY StableAt
<1>2. QED BY <1>1 DEF Meant

\* Binding keeps the relocations.
LEMMA RelocsBound ==
    ASSUME LInv, RelocWorld(world), RelocInv, BindExe
    PROVE  RelocWorld(world)' /\ RelocInv'
<1> DEFINE X == Placed(once, loaded)
<1>1. dyn \in Seq(DllSymbol) BY InvFacts
<1>2. pc = "bind" /\ UNCHANGED <<world, once, rels, loaded>> BY DEF BindExe
<1>3. tab \in Seq(X) /\ OnceLoaded(once, loaded) /\ Relocated(tab, rels, once, loaded) BY <1>2 DEF RelocInv
<1>4. Bindable(X) /\ Allocatable(X) BY PlacedBindable
<1> HIDE DEF X
<1>5. PICK a \in BindState(X) : BoundUpTo(Allocated, a, Len(tab)) /\ tab' = a.tab BY <1>1, <1>3, <1>4, BindExeIs
<1>6. a.tab \in Seq(X) /\ Stable(tab, a.tab) BY <1>3, <1>4, <1>5, BoundStable
<1>7. Relocated(a.tab, rels, once, loaded)
  <2>1. \A k, r, y : Meant(tab, once, loaded, k, r, y) => Meant(a.tab, once, loaded, k, r, y)
    BY <1>3, <1>6, MeantInTable
  <2>2. QED BY <1>3, <2>1 DEF Relocated
<1>8. QED BY <1>2, <1>3, <1>5, <1>6, <1>7, RelocsConcluded DEF X

\* Every step keeps the relocations.
LEMMA RelocsStep ==
    ASSUME LInv, RelocWorld(world), RelocInv, [Next]_vars
    PROVE  RelocWorld(world)' /\ RelocInv'
<1>1. CASE UNCHANGED vars
  <2>1. UNCHANGED <<world, pc, tab, rels, once, loaded>> BY <1>1 DEF vars
  <2>2. QED BY <2>1, RelocsConcluded DEF RelocInv
<1>2. CASE Next /\ pc = "load"
  <2>1. world' = world /\ Changes BY <1>2, StepChanges
  <2>2. CASE \E m \in DOMAIN world.lib : \E stk : LoadObject(m, stk) /\ Heeded(m, stk)
    <3>1. PICK m \in DOMAIN world.lib : \E stk : LoadObject(m, stk) /\ Heeded(m, stk) BY <2>2
    <3>2. PICK stk : LoadObject(m, stk) /\ Heeded(m, stk) BY <3>1
    <3>3. pc' # "failed" => /\ tab' \in Seq(Placed(once', loaded')) /\ OnceLoaded(once', loaded')
                            /\ Relocated(tab', rels', once', loaded')
      BY <1>2, <3>2, RelocsLoaded
    <3>4. QED BY <2>1, <3>3, RelocsConcluded
  <2>3. CASE UNCHANGED <<tab, once, rels, loaded>>
    <3>1. pc # "failed" BY <1>2
    <3>2. QED BY <2>1, <2>3, <3>1, RelocsConcluded DEF RelocInv
  <2>4. QED BY <2>1, <2>2, <2>3 DEF Changes
<1>3. CASE Next /\ pc # "load"
  <2>1. BindExe
    BY <1>3 DEF Next, NextFile, WholeArchive, ArchiveName, ArchiveDone, Script, ListFile, ListDone, DllNeeds, Doing
  <2>2. QED BY <2>1, RelocsBound
<1>4. QED BY <1>1, <1>2, <1>3

\* What the invariant says of one relocation
LEMMA OneRelocation ==
    ASSUME LInv, RelocWorld(world), RelocInv, pc # "failed", NEW k \in DOMAIN loaded, NEW r \in Range(Object(loaded[k]).rels)
    PROVE  LET s  == Object(loaded[k]).syms[r.sym]
               at == {i \in DOMAIN rels : rels[i].at = Place(k, r.sec) /\ rels[i].off = r.off}
           IN  /\ Cardinality(at) = 1
               /\ \A i \in at : IF s.bind # "LOCAL" THEN /\ rels[i].sym # 0
                                                        /\ tab[rels[i].sym].name = s.name
                                                        /\ tab[rels[i].sym].bind # "LOCAL"
                                ELSE IF Place(k, s.sec) = <<k, s.sec>>
                                THEN rels[i].sym # 0 /\ tab[rels[i].sym].at = <<k, s.sec>>
                                ELSE rels[i].sym = 0
<1> DEFINE o  == Object(loaded[k])
           s  == o.syms[r.sym]
           at == {i \in DOMAIN rels : rels[i].at = Place(k, r.sec) /\ rels[i].off = r.off}
<1>1. Relocated(tab, rels, once, loaded) /\ rels \in Seq(Relocation) BY DEF RelocInv, Relocated
<1>2. k \in 1 .. Len(loaded) /\ loaded \in Seq(DOMAIN world.lib) BY InvFacts
<1>3. Relocating(o) /\ \A j \in 1 .. Len(loaded) : Relocating(Object(loaded[j]))
  <2>1. \A j \in 1 .. Len(loaded) : loaded[j] \in DOMAIN world.lib BY <1>2
  <2>2. \A j \in 1 .. Len(loaded) : Object(loaded[j]) \in ObjectsOf(world) BY <2>1, InvFacts DEF WorldKnown, LibraryMeans
  <2>3. QED BY <1>2, <2>2 DEF RelocWorld
<1>4. Place(k, r.sec) = <<k, r.sec>>
  <2>1. o.secs[r.sec] \notin OnceName BY <1>3 DEF Relocating
  <2>2. QED BY <2>1 DEF Place
<1>5. DOMAIN rels = 1 .. Len(rels) BY <1>1
<1>6. \A j : Place(k, j) = PlaceIn(once, loaded, k, j) BY DEF Place, PlaceIn
<1>7. PICK i \in 1 .. Len(rels) : rels[i].at = <<k, r.sec>> /\ rels[i].off = r.off BY <1>1, <1>2 DEF Relocated
<1>8. at = {i}
  <2>1. \A j \in 1 .. Len(rels) : rels[j].at = rels[i].at /\ rels[j].off = rels[i].off => j = i BY <1>1, <1>7 DEF Relocated
  <2>2. QED BY <1>4, <1>5, <1>7, <2>1
<1>9. Meant(tab, once, loaded, k, r, rels[i].sym)
  <2>1. PICK l \in 1 .. Len(loaded) : \E q \in Range(Object(loaded[l]).rels) :
               rels[i].at = <<l, q.sec>> /\ rels[i].off = q.off /\ Meant(tab, once, loaded, l, q, rels[i].sym)
    BY <1>1 DEF Relocated
  <2>2. PICK q \in Range(Object(loaded[l]).rels) :
               rels[i].at = <<l, q.sec>> /\ rels[i].off = q.off /\ Meant(tab, once, loaded, l, q, rels[i].sym)
    BY <2>1
  <2>3. l = k /\ q.sec = r.sec /\ q.off = r.off BY <1>7, <2>2
  <2>4. q = r
    <3>1. q \in Range(o.rels) /\ r \in Range(o.rels) BY <2>2, <2>3
    <3>2. PICK x \in DOMAIN o.rels : q = o.rels[x] BY <3>1 DEF Range
    <3>3. PICK y \in DOMAIN o.rels : r = o.rels[y] BY <3>1 DEF Range
    <3> HIDE DEF o
    <3>4. x = y BY <1>3, <2>3, <3>2, <3>3 DEF Relocating
    <3>5. QED BY <3>2, <3>3, <3>4
  <2>5. QED BY <2>2, <2>3, <2>4
<1>10. Cardinality({i}) = 1 BY FS_Singleton
<1>11. /\ s.bind # "LOCAL" => /\ rels[i].sym \in 1 .. Len(tab) /\ tab[rels[i].sym].name = s.name
                              /\ tab[rels[i].sym].bind # "LOCAL"
       /\ s.bind = "LOCAL" => IF Place(k, s.sec) = <<k, s.sec>>
                              THEN rels[i].sym \in 1 .. Len(tab) /\ tab[rels[i].sym].at = <<k, s.sec>>
                              ELSE rels[i].sym = 0
  BY <1>6, <1>9 DEF Meant
<1>12. rels[i].sym \in 1 .. Len(tab) => rels[i].sym # 0 OBVIOUS
<1>13. QED
  <2> HIDE DEF s
  <2>1. IF s.bind # "LOCAL" THEN /\ rels[i].sym # 0
                                 /\ tab[rels[i].sym].name = s.name
                                 /\ tab[rels[i].sym].bind # "LOCAL"
        ELSE IF Place(k, s.sec) = <<k, s.sec>>
        THEN rels[i].sym # 0 /\ tab[rels[i].sym].at = <<k, s.sec>>
        ELSE rels[i].sym = 0
    BY <1>11, <1>12
  <2>2. QED BY <1>8, <1>10, <2>1 DEF s

\* What the invariant says of the relocations of the program
LEMMA RelocsRead == ASSUME LInv, RelocWorld(world), RelocInv PROVE RelocsMeant
<1>1. SUFFICES ASSUME pc # "failed"
               PROVE  /\ \A k \in DOMAIN loaded : LET o == Object(loaded[k]) IN
                           \A r \in Range(o.rels) :
                               LET s  == o.syms[r.sym]
                                   at == {i \in DOMAIN rels : rels[i].at = Place(k, r.sec) /\ rels[i].off = r.off}
                               IN  /\ Cardinality(at) = 1
                                   /\ Place(k, r.sec) = <<k, r.sec>> =>
                                        \A i \in at :
                                           IF s.bind # "LOCAL" THEN /\ rels[i].sym # 0
                                                                   /\ tab[rels[i].sym].name = s.name
                                                                   /\ tab[rels[i].sym].bind # "LOCAL"
                                           ELSE IF Place(k, s.sec) = <<k, s.sec>>
                                           THEN rels[i].sym # 0 /\ tab[rels[i].sym].at = <<k, s.sec>>
                                           ELSE rels[i].sym = 0
                      /\ \A i \in DOMAIN tab : tab[i].shndx \in {"bss", "data"} /\ tab[i].at[1] > 0 /\ tab[i].at[2] > 0
                            => Place(tab[i].at[1], tab[i].at[2]) = tab[i].at
  BY DEF RelocsMeant
<1>2. ASSUME NEW i \in DOMAIN tab, tab[i].shndx \in {"bss", "data"}, tab[i].at[1] > 0, tab[i].at[2] > 0
      PROVE  Place(tab[i].at[1], tab[i].at[2]) = tab[i].at
  <2>1. tab \in Seq(Placed(once, loaded)) BY <1>1 DEF RelocInv
  <2>2. tab[i] \in Placed(once, loaded) BY <2>1, ElementOfSeq
  <2>3. PlaceIn(once, loaded, tab[i].at[1], tab[i].at[2]) = tab[i].at BY <1>2, <2>2 DEF Placed
  <2>4. QED BY <2>3 DEF Place, PlaceIn
<1>3. QED BY <1>1, <1>2, OneRelocation

\* At the beginning there is nothing to relocate.
LEMMA RelocsInitially ==
    ASSUME \A c \in Code : RelocWorld(World(c)), Init
    PROVE  RelocWorld(world) /\ RelocInv
<1>1. PICK c \in Code : world = Complete(World(c)) BY DEF Init
<1>2. RelocWorld(world)
  <2> DEFINE w == World(c)
  <2>1. world.file = w.file BY <1>1 DEF Complete
  <2>2. RelocWorld(w) OBVIOUS
  <2> HIDE DEF w
  <2>3. ObjectsOf(world) = ObjectsOf(w) /\ OfKind(world, {"ar"}) = OfKind(w, {"ar"}) BY <2>1 DEF ObjectsOf, OfKind
  <2>4. Grouped(world) = Grouped(w)
    <3>1. world.cmd = w.cmd BY <1>1 DEF Complete, w
    <3>2. CommandLine(world) = CommandLine(w) BY <3>1 DEF CommandLine
    <3>3. QED BY <2>1, <3>2 DEF Grouped, OfKind
  <2>5. QED BY <2>1, <2>2, <2>3, <2>4 DEF RelocWorld
<1>3. tab = <<>> /\ rels = <<>> /\ once = <<>> /\ loaded = <<>> BY DEF Init
<1>4. OnceLoaded(once, loaded) BY <1>3 DEF OnceLoaded
<1>5. Relocated(tab, rels, once, loaded) BY <1>3 DEF Relocated
<1>6. QED BY <1>2, <1>3, <1>4, <1>5 DEF RelocInv

\* The relocations are right when the worlds are plain, their objects are relocated
\* in sections of the program that are not link-once sections, and the archives of
\* groups have no object that cannot be loaded (tccelf.c:2966).
THEOREM RelocsRight ==
    ASSUME PlainCode, \A c \in Code : RelocWorld(World(c))
    PROVE  Spec => []RelocsMeant
<1>1. Init => RelocWorld(world) /\ RelocInv BY RelocsInitially
<1>2. LInv /\ RelocWorld(world) /\ RelocInv /\ [Next]_vars => RelocWorld(world)' /\ RelocInv' BY RelocsStep
<1>3. LInv /\ RelocWorld(world) /\ RelocInv => RelocsMeant BY RelocsRead
<1>4. Spec => []LInv BY LinkInductive
<1>5. QED BY <1>1, <1>2, <1>3, <1>4, PTL DEF Spec

-----------------------------------------------------------------------------
(* The verdict                                                             *)

\* The entries of a table of the objects M: what is undefined is what they refer to.
Referenced(M) ==
    {e \in EntryType : e.shndx = "UNDEF" =>
        \E m \in M : \E s \in Range(Object(m).syms) : s.sec = 0 /\ s.name = e.name /\ s.bind = e.bind}

\* what the libraries define has a type and a value, and what they need has none
DllMeant == {e \in DllSymbol : e.bind # "LOCAL" => /\ e.shndx = "UNDEF" <=> e.type = "none"
                                                   /\ e.shndx = "UNDEF" <=> e.value = 0}

InDlls(Q, n) == \E i \in DOMAIN Q : \E s \in Range(File(Q[i].f).syms) :
                   s.name = n /\ s.bind # "LOCAL" /\ s.shndx # "UNDEF"

\* the table T of the libraries' symbols has what the libraries Q define
DllsKnown(T, Q) ==
    /\ Q \in Seq([f : OfKind(world, {"dll"}), level : {0, 1}])
    /\ T \in Seq(DllMeant)
    /\ \A n : n \in DefinedNames(T) <=> InDlls(Q, n)

VerdictInv ==
    /\ pc # "failed" => \A m \in Range(loaded) : ~Loses(Object(m))
    /\ pc \in {"load", "bind"} => tab \in Seq(Referenced(Range(loaded))) /\ DllsKnown(dyn, dlls)
    /\ Verdict

\* Visibility says nothing about references.
LEMMA ReferencedBlind == ASSUME NEW M PROVE VisBlind(Referenced(M))
<1>1. SUFFICES ASSUME NEW e \in Referenced(M)
               PROVE  /\ e = [x \in DOMAIN e |-> e[x]] /\ {"name", "bind", "shndx", "vis"} \subseteq DOMAIN e
                      /\ e.name \in STRING /\ e.vis \in Visibilities
                      /\ \A v \in Visibilities : [e EXCEPT !.vis = v] \in Referenced(M)
  BY DEF VisBlind
<1>2. e \in EntryType BY DEF Referenced
<1>3. /\ e = [x \in DOMAIN e |-> e[x]] /\ {"name", "bind", "shndx", "vis"} \subseteq DOMAIN e
      /\ e.name \in STRING /\ e.vis \in Visibilities
  BY <1>2 DEF EntryType
<1>4. ASSUME NEW v \in Visibilities PROVE [e EXCEPT !.vis = v] \in Referenced(M)
  <2> DEFINE f == [e EXCEPT !.vis = v]
  <2>1. f \in EntryType /\ f.name = e.name /\ f.bind = e.bind /\ f.shndx = e.shndx BY <1>2 DEF EntryType
  <2> HIDE DEF f
  <2>2. f \in Referenced(M) BY <2>1 DEF Referenced
  <2>3. QED BY <2>2 DEF f
<1>5. QED BY <1>3, <1>4

\* An object is loaded.
LEMMA LoadObjectVerdict ==
    ASSUME LInv, pc = "load", RelocWorld(world), tab \in Seq(Referenced(Range(loaded))),
           NEW m \in DOMAIN world.lib, NEW stk, LoadObject(m, stk), Heeded(m, stk)
    PROVE  /\ Range(loaded') = Range(loaded) \cup {m}
           /\ tab' \in Seq(Referenced(Range(loaded) \cup {m}))
           /\ pc' = IF Loses(Object(m)) THEN "failed" ELSE "load"
<1> DEFINE o == Object(m)
           k == Len(loaded) + 1
           a == Symbols(o, k)
           M == Range(loaded) \cup {m}
           X == Referenced(M)
<1>1. /\ WorldKnown /\ LinkTypes /\ twice \subseteq STRING /\ newUndef \in BOOLEAN
      /\ loaded \in Seq(DOMAIN world.lib)
      /\ Tabled(tab, Range(loaded)) /\ OncesKept(once, Range(loaded))
  BY InvFacts
<1>2. Range(loaded') = M BY <1>1, LoadObjectDoes
<1>3. o \in ObjectFile /\ o \in ObjectsOf(world) /\ Referring(o) BY <1>1 DEF WorldKnown, LibraryMeans
<1>4. Relocating(o) /\ "note" \notin OnceName BY <1>3 DEF RelocWorld
<1>5. tab \in Seq(X)
  <2> DEFINE Y == Referenced(Range(loaded))
  <2>1. Y \subseteq X BY DEF Referenced
  <2>2. tab \in Seq(Y) OBVIOUS
  <2> HIDE DEF X, Y
  <2>3. \A i \in 1 .. Len(tab) : tab[i] \in X BY <2>1, <2>2
  <2>4. QED BY <2>2, <2>3
<1>6. DiscardedDefined(o)
  <2>1. Range(loaded) \in SUBSET DOMAIN world.lib BY <1>1 DEF Range
  <2>2. QED BY <1>1, <2>1, DiscardedHaveNames
<1>7. OneEach(tab) BY <1>1 DEF Tabled
<1>8. ASSUME NEW s \in Range(o.syms) PROVE EntryOf(o, k, s) \in X
  <2> DEFINE e == EntryOf(o, k, s)
  <2>1. k \in Nat BY <1>1
  <2>2. e \in EntryType BY <1>3, <2>1, EntryTyped
  <2>4. m \in M OBVIOUS
  <2> HIDE DEF k
  <2>3. e.name = s.name /\ e.bind = s.bind /\ (e.shndx = "UNDEF" <=> s.sec = 0)
    BY DEF EntryOf, Entry
  <2> HIDE DEF e
  <2>5. e \in X BY <2>2, <2>3, <2>4 DEF Referenced
  <2>6. QED BY <2>5 DEF e
<1>9. a \in SymState(X) /\ Added(o, k, a, Len(o.syms))
  <2>1. VisBlind(X) BY ReferencedBlind
  <2> HIDE DEF X
  <2>2. QED BY <1>1, <1>3, <1>5, <1>6, <1>7, <1>8, <2>1, SymbolsAdded
<1>10. a.tab \in Seq(X) /\ a.once \in BOOLEAN BY <1>9 DEF SymState
<1>11. MapMeans(o, k, a, Len(o.syms)) /\ OnceMeans(o, a, Len(o.syms)) BY <1>9 DEF Added
<1>12. \A n \in DOMAIN once : n \in OnceName BY <1>1 DEF OncesKept
<1>13. tab' = a.tab /\ pc' = IF Loses(o) THEN "failed" ELSE "load"
  <2> HIDE DEF a, X
  <2>1. a = Symbols(Object(m), Len(loaded) + 1) BY DEF a
  <2>2. a.once \in BOOLEAN /\ MapMeans(Object(m), Len(loaded) + 1, a, Len(Object(m).syms))
        /\ OnceMeans(Object(m), a, Len(Object(m).syms))
    BY <1>10, <1>11
  <2>3. Object(m) \in ObjectFile /\ Relocating(Object(m)) /\ Referring(Object(m)) BY <1>3, <1>4
  <2>4. QED BY ONLY pc = "load", LoadObject(m, stk), Heeded(m, stk), <1>4, <1>12, <2>1, <2>2, <2>3, Accepted
<1>14. QED BY <1>2, <1>10, <1>13

\* Visibility says nothing about what a library has.
LEMMA DllMeantBlind == VisBlind(DllMeant)
<1>1. SUFFICES ASSUME NEW e \in DllMeant
               PROVE  /\ e = [x \in DOMAIN e |-> e[x]] /\ {"name", "bind", "shndx", "vis"} \subseteq DOMAIN e
                      /\ e.name \in STRING /\ e.vis \in Visibilities
                      /\ \A v \in Visibilities : [e EXCEPT !.vis = v] \in DllMeant
  BY DEF VisBlind
<1>2. /\ e \in DllSymbol
      /\ e.bind # "LOCAL" => (e.shndx = "UNDEF" <=> e.type = "none") /\ (e.shndx = "UNDEF" <=> e.value = 0)
  BY DEF DllMeant
<1>3. /\ e = [x \in DOMAIN e |-> e[x]] /\ {"name", "bind", "shndx", "vis"} \subseteq DOMAIN e
      /\ e.name \in STRING /\ e.vis \in Visibilities
  BY <1>2 DEF DllSymbol
<1>4. ASSUME NEW v \in Visibilities PROVE [e EXCEPT !.vis = v] \in DllMeant
  <2> DEFINE f == [e EXCEPT !.vis = v]
  <2>1. f \in DllSymbol /\ f.bind = e.bind /\ f.shndx = e.shndx /\ f.type = e.type /\ f.value = e.value
    BY <1>2 DEF DllSymbol
  <2> HIDE DEF f
  <2>2. f \in DllMeant BY <1>2, <2>1 DEF DllMeant
  <2>3. QED BY <2>2 DEF f
<1>5. QED BY <1>3, <1>4

\* The symbols of a library are such as are expected of one.
LEMMA DllSymbolsMeant ==
    ASSUME WorldKnown, BoundWorld(world), NEW f \in OfKind(world, {"dll"})
    PROVE  File(f).syms \in Seq(DllMeant)
<1> DEFINE ss == File(f).syms
<1>1. ss \in Seq(DllSymbol) BY DEF WorldKnown, PlainWorld, WellTyped, File
<1>2. \A s \in Range(ss) : s.bind # "LOCAL" =>
                            (s.shndx = "UNDEF" <=> s.type = "none") /\ (s.shndx = "UNDEF" <=> s.value = 0)
  BY DEF BoundWorld, File
<1> HIDE DEF ss
<1>3. ASSUME NEW i \in 1 .. Len(ss) PROVE ss[i] \in DllMeant
  <2>1. ss[i] \in DllSymbol BY <1>1
  <2>2. ss[i] \in Range(ss) BY <1>1 DEF Range
  <2>3. QED BY <1>2, <2>1, <2>2 DEF DllMeant
<1>4. ss \in Seq(DllMeant) BY <1>1, <1>3
<1>5. QED BY <1>4 DEF ss

\* A library that is known already
LEMMA KnownDll ==
    ASSUME DllsKnown(dyn, dlls), NEW f, NEW level \in {0, 1}, AddDll(f, level), \E i \in DOMAIN dlls : dlls[i].f = f
    PROVE  DllsKnown(dyn', dlls')
<1> DEFINE E == [f : OfKind(world, {"dll"}), level : {0, 1}]
<1>1. dlls \in Seq(E) BY DEF DllsKnown
<1>2. /\ dyn' = dyn
      /\ \E known : dlls' = [i \in DOMAIN dlls |-> IF i \in known /\ level < dlls[i].level
                                                   THEN [dlls[i] EXCEPT !.level = level] ELSE dlls[i]]
  <2>1. {i \in DOMAIN dlls : dlls[i].f = f} # {} OBVIOUS
  <2>2. QED BY <2>1 DEF AddDll
<1>3. PICK known : dlls' = [i \in DOMAIN dlls |-> IF i \in known /\ level < dlls[i].level
                                                  THEN [dlls[i] EXCEPT !.level = level] ELSE dlls[i]]
  BY <1>2
<1>4. \A e \in E : [e EXCEPT !.level = level] \in E /\ [e EXCEPT !.level = level].f = e.f OBVIOUS
<1> HIDE DEF E
<1>5. DOMAIN dlls = 1 .. Len(dlls) /\ Len(dlls) \in Nat /\ \A i \in 1 .. Len(dlls) : dlls[i] \in E BY <1>1
<1>6. DOMAIN dlls' = DOMAIN dlls /\ \A i \in DOMAIN dlls : dlls'[i] \in E /\ dlls'[i].f = dlls[i].f
  BY <1>3, <1>4, <1>5
<1>7. dlls' \in Seq(E)
  <2> DEFINE d == [i \in DOMAIN dlls |-> IF i \in known /\ level < dlls[i].level
                                         THEN [dlls[i] EXCEPT !.level = level] ELSE dlls[i]]
             n == Len(dlls)
  <2>1. d = dlls' BY <1>3
  <2>2. d = [i \in 1 .. n |-> d[i]] /\ n \in Nat BY <1>5
  <2>3. \A i \in 1 .. n : d[i] \in E BY <1>5, <1>6, <2>1
  <2> HIDE DEF d, n
  <2>4. d \in Seq(E) BY <2>2, <2>3
  <2>5. QED BY <2>1, <2>4
<1>8. \A n : InDlls(dlls', n) <=> InDlls(dlls, n) BY <1>6 DEF InDlls
<1>9. QED BY <1>2, <1>7, <1>8 DEF DllsKnown, E

\* A library that is not known yet
LEMMA NewDll ==
    ASSUME LInv, BoundWorld(world), DllsKnown(dyn, dlls), NEW f \in OfKind(world, {"dll"}), NEW level \in {0, 1},
           AddDll(f, level), ~(\E i \in DOMAIN dlls : dlls[i].f = f)
    PROVE  DllsKnown(dyn', dlls')
<1> DEFINE E == [f : OfKind(world, {"dll"}), level : {0, 1}]
           a == [tab |-> dyn, newUndef |-> newUndef, twice |-> {}, index |-> 0]
           ss == File(f).syms
           b == ForEach(AddDynamic, a, ss)
           x == [f |-> f, level |-> level]
<1>1. dyn' = b.tab /\ dlls' = Append(dlls, x)
  <2>1. {i \in DOMAIN dlls : dlls[i].f = f} = {} OBVIOUS
  <2>2. QED BY <2>1 DEF AddDll
<1>2. dlls \in Seq(E) /\ dyn \in Seq(DllMeant) /\ \A n : n \in DefinedNames(dyn) <=> InDlls(dlls, n) BY DEF DllsKnown
<1>3. OneEach(dyn) /\ newUndef \in BOOLEAN /\ WorldKnown BY InvFacts
<1>4. ss \in Seq(DllMeant) BY <1>3, DllSymbolsMeant
<1>5. a \in TableOf(DllMeant) /\ OneEach(a.tab) /\ a.tab = dyn BY <1>2, <1>3 DEF TableOf
<1>6. b \in TableOf(DllMeant) /\ DefinedNames(b.tab) = DefinedNames(a.tab) \cup Defining(ss, Len(ss))
  <2>1. VisBlind(DllMeant) BY DllMeantBlind
  <2> HIDE DEF a, ss
  <2>2. QED BY <1>4, <1>5, <2>1, AllEntered
<1>7. dyn' \in Seq(DllMeant) BY <1>1, <1>6 DEF TableOf
<1>8. \A n : n \in Defining(ss, Len(ss)) <=>
              \E s \in Range(ss) : s.name = n /\ s.bind # "LOCAL" /\ s.shndx # "UNDEF"
  <2> HIDE DEF ss
  <2>1. Range(ss) = {ss[j] : j \in 1 .. Len(ss)} BY <1>4 DEF Range
  <2>2. QED BY <2>1 DEF Defining
<1>9. x \in E /\ x.f = f OBVIOUS
<1> HIDE DEF x, E
<1>10. /\ dlls' \in Seq(E) /\ Len(dlls') = Len(dlls) + 1 /\ dlls'[Len(dlls) + 1] = x
       /\ \A i \in 1 .. Len(dlls) : dlls'[i] = dlls[i]
  BY <1>1, <1>2, <1>9, AppendProperties
<1>11. \A n : InDlls(dlls', n) <=>
          InDlls(dlls, n) \/ \E s \in Range(ss) : s.name = n /\ s.bind # "LOCAL" /\ s.shndx # "UNDEF"
  <2>1. /\ DOMAIN dlls = 1 .. Len(dlls) /\ DOMAIN dlls' = 1 .. Len(dlls) + 1 /\ Len(dlls) \in Nat BY <1>2, <1>10
  <2> DEFINE l == Len(dlls)
  <2>2. \A i \in 1 .. l + 1 : i \in 1 .. l \/ i = l + 1
    <3> HIDE DEF l
    <3>1. QED BY <2>1 DEF l
  <2>3. \A i \in 1 .. l : i \in 1 .. l + 1 BY <2>1
  <2>4. l + 1 \in 1 .. l + 1 BY <2>1
  <2>5. File(dlls'[l + 1].f).syms = ss BY <1>9, <1>10
  <2> HIDE DEF l, ss
  <2>6. \A i \in DOMAIN dlls' : i \in DOMAIN dlls \/ i = l + 1 BY <2>1, <2>2 DEF l
  <2>7. \A i \in DOMAIN dlls : i \in DOMAIN dlls' /\ dlls'[i] = dlls[i] BY <1>10, <2>1, <2>3 DEF l
  <2>8. l + 1 \in DOMAIN dlls' BY <2>1, <2>4 DEF l
  <2>9. QED BY <2>5, <2>6, <2>7, <2>8 DEF InDlls
<1>12. \A n : n \in DefinedNames(dyn') <=> InDlls(dlls', n)
  <2> HIDE DEF b, a, ss
  <2>1. DefinedNames(dyn') = DefinedNames(dyn) \cup Defining(ss, Len(ss)) BY <1>1, <1>5, <1>6
  <2>2. QED BY <1>2, <1>8, <1>11, <2>1
<1>13. QED BY <1>7, <1>10, <1>12 DEF DllsKnown, E

\* the strong references that no library defines
Lacking(T) == {j \in 1 .. Len(T) : T[j].shndx = "UNDEF" /\ T[j].bind # "WEAK" /\ T[j].name \notin DefinedNames(dyn)}

\* An executable is refused if and only if a strong reference lacks a definition.
LEMMA BindingRefused ==
    ASSUME NEW X, Bindable(X), tab \in Seq(X), OneEach(tab), dyn \in Seq(DllSymbol), OneEach(dyn), DynMeans,
           NEW T \in Seq(X), Len(T) = Len(tab),
           \A j \in 1 .. Len(tab) : /\ T[j].name = tab[j].name /\ T[j].bind = tab[j].bind
                                    /\ (T[j].shndx = "UNDEF" <=> tab[j].shndx = "UNDEF"),
           NEW a \in BindState(X), BoundUpTo(T, a, Len(tab)), NEW b \in ExportState(a)
    PROVE  (a.undef # {} \/ StillUndefined(b) # {}) <=> Lacking(tab) # {}
<1> DEFINE l == Len(tab)
<1>1. Len(a.tab) = l /\ a.tab \in Seq(X) /\ l \in Nat BY DEF BoundUpTo, BindState
<1>2. \A j \in 1 .. l : /\ a.tab[j].name = tab[j].name
                        /\ (a.tab[j].bind = "LOCAL" <=> tab[j].bind = "LOCAL")
                        /\ T[j].shndx # "UNDEF" => a.tab[j] = T[j]
                        /\ T[j].shndx = "UNDEF" => Outcome(T, a, j)
  BY DEF BoundUpTo
<1>3. \A n \in a.undef : \E j \in 1 .. l : T[j].name = n /\ Unbound(T, j) BY DEF BoundUpTo
<1>4. GlobalNames(a.dynsym) \subseteq DefinedNames(dyn) BY DEF BoundUpTo
<1>5. b.tab = a.tab /\ GlobalNames(a.dynsym) \subseteq GlobalNames(b.dynsym)
      /\ GlobalNames(b.dynsym) \subseteq GlobalNames(a.dynsym) \cup DefinedNames(a.tab)
      /\ b.dynsym \in Seq(EntryType)
  BY DEF ExportState
<1>6. \A n \in DefinedNames(dyn) : Lookup(dyn, n) # 0
  <2>1. DefinedNames(dyn) \subseteq GlobalNames(dyn) BY DEF DefinedNames, GlobalNames
  <2>2. QED BY <2>1, LookupIs
<1>7. ASSUME NEW n, Lookup(dyn, n) # 0
      PROVE  /\ dyn[Lookup(dyn, n)].type \in {"func", "object", "none"}
             /\ dyn[Lookup(dyn, n)].type = "none" <=> n \notin DefinedNames(dyn)
  <2> DEFINE d == Lookup(dyn, n)
  <2>1. /\ d \in 1 .. Len(dyn) /\ dyn[d].name = n /\ dyn[d].bind # "LOCAL"
        /\ dyn[d].type \in {"func", "object", "none"}
        /\ dyn[d].type # "none" => n \in DefinedNames(dyn)
    BY <1>7, DynIs
  <2>2. dyn[d].type = "none" => dyn[d].shndx = "UNDEF" BY <2>1 DEF DynMeans
  <2>3. ASSUME n \in DefinedNames(dyn) PROVE dyn[d].shndx # "UNDEF"
    <3>1. PICK i \in DOMAIN dyn : dyn[i].name = n /\ dyn[i].bind # "LOCAL" /\ dyn[i].shndx # "UNDEF"
      BY <2>3 DEF DefinedNames
    <3>2. d \in DOMAIN dyn BY <2>1
    <3> HIDE DEF d
    <3>3. i = d BY <2>1, <3>1, <3>2 DEF OneEach
    <3>4. QED BY <3>1, <3>3
  <2>4. QED BY <2>1, <2>2, <2>3
<1>8. \A j \in 1 .. l : tab[j].shndx = "UNDEF" => tab[j].bind # "LOCAL"
  <2>1. \A j \in 1 .. l : tab[j] \in X OBVIOUS
  <2>2. \A e \in X : e.bind = "LOCAL" => e.shndx \in {"bss", "data"} BY DEF Bindable
  <2>3. QED BY <2>1, <2>2
<1>9. /\ DOMAIN tab = 1 .. l /\ DOMAIN T = 1 .. l /\ DOMAIN a.tab = 1 .. l BY <1>1
<1>10. \A j \in 1 .. l : T[j].name = tab[j].name /\ T[j].bind = tab[j].bind /\ (T[j].shndx = "UNDEF" <=> tab[j].shndx = "UNDEF")
  OBVIOUS
<1> HIDE DEF l
<1>11. ASSUME a.undef # {} PROVE Lacking(tab) # {}
  <2>1. PICK n \in a.undef : TRUE BY <1>11
  <2>2. PICK j \in 1 .. l : T[j].name = n /\ Unbound(T, j) BY <1>3
  <2>3. j \in Lacking(tab) BY <1>6, <1>10, <2>2 DEF Unbound, Lacking, l
  <2>4. QED BY <2>3
<1>12. ASSUME StillUndefined(b) # {} PROVE Lacking(tab) # {}
  <2>1. PICK j \in DOMAIN b.tab : b.tab[j].shndx = "UNDEF" /\ b.tab[j].bind # "WEAK" /\ Lookup(b.dynsym, b.tab[j].name) = 0
    BY <1>12 DEF StillUndefined
  <2>2. j \in 1 .. l /\ a.tab[j].shndx = "UNDEF" /\ a.tab[j].bind # "WEAK" /\ Lookup(b.dynsym, a.tab[j].name) = 0
    BY <1>5, <1>9, <2>1
  <2>3. T[j].shndx = "UNDEF" /\ Outcome(T, a, j) BY <1>2, <2>2
  <2> DEFINE n == T[j].name
             d == Lookup(dyn, n)
  <2>4. n = tab[j].name /\ n = a.tab[j].name BY <1>2, <1>10, <2>2
  <2>5. n \notin DefinedNames(dyn) /\ a.tab[j] = T[j]
    <3>1. CASE d = 0 BY <1>6, <2>3, <3>1 DEF Outcome
    <3>2. CASE d # 0
      <4>1. dyn[d].type # "object" BY <2>2, <2>3, <3>2 DEF Outcome
      <4>2. dyn[d].type # "func"
        <5>1. SUFFICES ASSUME dyn[d].type = "func" PROVE FALSE OBVIOUS
        <5>2. n \in GlobalNames(b.dynsym) BY <1>5, <2>3, <3>2, <5>1 DEF Outcome
        <5>3. Lookup(b.dynsym, n) # 0 BY <1>5, <5>2, LookupIs
        <5>4. QED BY <2>2, <2>4, <5>3
      <4>3. dyn[d].type = "none" BY <1>7, <3>2, <4>1, <4>2
      <4>4. QED BY <1>7, <2>3, <3>2, <4>3 DEF Outcome
    <3>3. QED BY <3>1, <3>2
  <2>6. tab[j].bind # "WEAK" /\ tab[j].shndx = "UNDEF" BY <1>10, <2>2, <2>3, <2>5
  <2>7. j \in Lacking(tab) BY <2>2, <2>4, <2>5, <2>6 DEF Lacking, l
  <2>8. QED BY <2>7
<1>13. ASSUME NEW j \in Lacking(tab) PROVE a.undef # {} \/ StillUndefined(b) # {}
  <2>1. j \in 1 .. l /\ tab[j].shndx = "UNDEF" /\ tab[j].bind # "WEAK" /\ tab[j].name \notin DefinedNames(dyn)
    BY DEF Lacking, l
  <2> DEFINE n == T[j].name
             d == Lookup(dyn, n)
  <2>2. n = tab[j].name /\ T[j].shndx = "UNDEF" /\ T[j].bind # "WEAK" BY <1>10, <2>1
  <2>3. Outcome(T, a, j) BY <1>2, <2>1, <2>2
  <2>4. CASE d = 0
    <3>1. n \in a.undef BY <2>2, <2>3, <2>4 DEF Outcome
    <3>2. QED BY <3>1
  <2>5. CASE d # 0
    <3>1. dyn[d].type = "none" BY <1>7, <2>1, <2>2, <2>5
    <3>2. a.tab[j] = T[j] BY <2>3, <2>5, <3>1 DEF Outcome
    <3>3. n \notin DefinedNames(a.tab)
      <4>1. SUFFICES ASSUME NEW i \in 1 .. l, a.tab[i].name = n, a.tab[i].bind # "LOCAL", a.tab[i].shndx # "UNDEF"
                     PROVE  FALSE
        BY <1>9 DEF DefinedNames
      <4>2. tab[i].name = n /\ tab[i].bind # "LOCAL" BY <1>2, <4>1
      <4>3. tab[j].bind # "LOCAL" /\ tab[j].name = n BY <1>8, <2>1, <2>2
      <4> HIDE DEF n
      <4>4. i = j BY <1>9, <2>1, <4>2, <4>3 DEF OneEach
      <4>5. QED BY <2>2, <3>2, <4>1, <4>4
    <3>4. n \notin GlobalNames(b.dynsym) BY <1>4, <1>5, <2>1, <2>2, <3>3
    <3>5. Lookup(b.dynsym, n) = 0 BY <1>5, <3>4, LookupIs
    <3>6. b.tab[j] = T[j] /\ j \in DOMAIN b.tab BY <1>5, <1>9, <2>1, <3>2
    <3>7. n \in StillUndefined(b)
      <4>1. b.tab[j].shndx = "UNDEF" /\ b.tab[j].bind # "WEAK" /\ Lookup(b.dynsym, b.tab[j].name) = 0
        BY <2>2, <3>5, <3>6
      <4>2. b.tab[j].name = n BY <3>6
      <4> HIDE DEF n
      <4>3. QED BY <3>6, <4>1, <4>2 DEF StillUndefined
    <3>8. QED BY <3>7
  <2>6. QED BY <2>4, <2>5
<1>14. QED BY <1>11, <1>12, <1>13

\* What is lacking in the table is what an object needs and no file has.
LEMMA LackingMeans ==
    ASSUME LInv, pc = "bind", BoundWorld(world), RelocInv, tab \in Seq(Referenced(Range(loaded))), DllsKnown(dyn, dlls)
    PROVE  Lacking(tab) # {} <=>
             \E m \in Range(loaded) : \E n \in world.lib[m].refs : Wants(m, n) /\ ~Defined(n) /\ ~InDll(n)
<1> DEFINE M == Range(loaded)
<1>1. Tabled(tab, M) /\ WorldKnown /\ loaded \in Seq(DOMAIN world.lib) BY InvFacts DEF LInv
<1>2. \A m \in M : m \in DOMAIN world.lib BY <1>1, ElementOfSeq DEF Range
<1>3. \A m \in M : Object(m) \in ObjectsOf(world) /\ Object(m) \in ObjectFile BY <1>1, <1>2 DEF WorldKnown, LibraryMeans
<1>4. \A n : n \in DefinedNames(tab) <=> Defined(n) BY <1>1 DEF Tabled, Defined
<1>5. \A n : n \in DefinedNames(dyn) <=> InDll(n) BY DEF DllsKnown, InDlls, InDll
<1>6. OneEach(tab) /\ tab \in Seq(EntryType) BY <1>1 DEF Tabled
<1>7. DOMAIN tab = 1 .. Len(tab) BY <1>6
<1>8. \A j \in 1 .. Len(tab) : tab[j].shndx = "UNDEF" => tab[j].bind # "LOCAL"
  <2>1. tab \in Seq(Placed(once, loaded)) BY DEF RelocInv
  <2> DEFINE X == Placed(once, loaded)
  <2>2. \A e \in X : e.bind = "LOCAL" => e.shndx \in {"bss", "data"} BY DEF Placed
  <2> HIDE DEF X
  <2>3. \A j \in 1 .. Len(tab) : tab[j] \in X BY <2>1 DEF X
  <2>4. QED BY <2>2, <2>3
<1>9. \A j \in 1 .. Len(tab) : tab[j].shndx = "UNDEF" =>
        \E m \in M : \E s \in Range(Object(m).syms) : s.sec = 0 /\ s.name = tab[j].name /\ s.bind = tab[j].bind
  <2> DEFINE X == Referenced(M)
  <2>1. \A e \in X : e.shndx = "UNDEF" =>
          \E m \in M : \E s \in Range(Object(m).syms) : s.sec = 0 /\ s.name = e.name /\ s.bind = e.bind
    BY DEF Referenced
  <2> HIDE DEF X
  <2>2. \A j \in 1 .. Len(tab) : tab[j] \in X BY DEF X
  <2>3. QED BY <2>1, <2>2
<1>10. ASSUME NEW m \in M, NEW s \in Range(Object(m).syms), s.sec = 0, s.bind # "LOCAL"
       PROVE  s.name \in world.lib[m].defs \cup world.lib[m].refs
  <2>1. PICK i \in DOMAIN Object(m).syms : s = Object(m).syms[i] BY DEF Range
  <2>2. Object(m).syms \in Seq(Symbol) BY <1>3 DEF ObjectFile, Symbol
  <2>3. i \in 1 .. Len(Object(m).syms) BY <2>1, <2>2
  <2>4. s.name \in ObjectGlobals(Object(m), Len(Object(m).syms)) BY <1>10, <2>1, <2>3 DEF ObjectGlobals
  <2>5. QED BY <1>1, <1>2, <2>4 DEF WorldKnown, LibraryMeans
<1>11. ASSUME NEW j \in Lacking(tab)
       PROVE  \E m \in M : \E n \in world.lib[m].refs : Wants(m, n) /\ ~Defined(n) /\ ~InDll(n)
  <2>1. j \in 1 .. Len(tab) /\ tab[j].shndx = "UNDEF" /\ tab[j].bind # "WEAK" /\ tab[j].name \notin DefinedNames(dyn)
    BY DEF Lacking
  <2>2. PICK m \in M : \E s \in Range(Object(m).syms) : s.sec = 0 /\ s.name = tab[j].name /\ s.bind = tab[j].bind
    BY <1>9, <2>1
  <2>3. PICK s \in Range(Object(m).syms) : s.sec = 0 /\ s.name = tab[j].name /\ s.bind = tab[j].bind BY <2>2
  <2> DEFINE n == tab[j].name
  <2>4. tab[j].bind # "LOCAL" BY <1>8, <2>1
  <2>5. s.bind = "GLOBAL"
    <3>1. Object(m).syms \in Seq(Symbol) BY <1>3 DEF ObjectFile, Symbol
    <3>2. s \in Symbol BY <3>1, ElementOfSeq DEF Range
    <3>3. s.bind \in Binds BY <3>2 DEF Symbol
    <3>4. QED BY <2>1, <2>3, <2>4, <3>3 DEF Binds
  <2>6. n \in world.lib[m].defs \cup world.lib[m].refs BY <1>10, <2>3, <2>5
  <2>7. Wants(m, n) BY <2>3, <2>5 DEF Wants
  <2>8. n \notin DefinedNames(tab)
    <3>1. SUFFICES ASSUME NEW i \in DOMAIN tab, tab[i].name = tab[j].name, tab[i].bind # "LOCAL", tab[i].shndx # "UNDEF"
                   PROVE  FALSE
      BY DEF DefinedNames
    <3>2. i = j BY <1>6, <1>7, <2>1, <2>4, <3>1 DEF OneEach
    <3>3. QED BY <2>1, <3>1, <3>2
  <2>9. ~Defined(n) /\ ~InDll(n) BY <1>4, <1>5, <2>1, <2>8
  <2> HIDE DEF n
  <2>10. n \in world.lib[m].refs BY <2>6, <2>9 DEF Defined
  <2>11. QED BY <2>7, <2>9, <2>10
<1>12. ASSUME NEW m \in M, NEW n \in world.lib[m].refs, Wants(m, n), ~Defined(n), ~InDll(n)
       PROVE  Lacking(tab) # {}
  <2>1. PICK s \in Range(Object(m).syms) : s.name = n /\ s.sec = 0 /\ s.bind = "GLOBAL" BY <1>12 DEF Wants
  <2>2. n \in GlobalNames(tab) BY <1>1 DEF Tabled
  <2>3. PICK j \in DOMAIN tab : tab[j].name = n /\ tab[j].bind # "LOCAL" BY <2>2 DEF GlobalNames
  <2>4. tab[j].shndx = "UNDEF" BY <1>4, <1>12, <2>3 DEF DefinedNames
  <2>5. PICK m2 \in M : \E t \in Range(Object(m2).syms) : t.sec = 0 /\ t.name = tab[j].name /\ t.bind = tab[j].bind
    BY <1>7, <1>9, <2>4
  <2>6. PICK t \in Range(Object(m2).syms) : t.sec = 0 /\ t.name = tab[j].name /\ t.bind = tab[j].bind BY <2>5
  <2>7. s.bind = t.bind
    <3>1. \A o, p \in ObjectsOf(world) : \A x \in Range(o.syms), y \in Range(p.syms) :
            x.sec = 0 /\ y.sec = 0 /\ x.name = y.name => x.bind = y.bind
      BY DEF BoundWorld
    <3> DEFINE o == Object(m)
               p == Object(m2)
    <3>2. o \in ObjectsOf(world) /\ p \in ObjectsOf(world) BY <1>3
    <3>3. s \in Range(o.syms) /\ t \in Range(p.syms) BY <2>1, <2>6
    <3> HIDE DEF o, p
    <3>4. QED BY <2>1, <2>3, <2>6, <3>1, <3>2, <3>3
  <2>8. tab[j].bind # "WEAK" BY <2>1, <2>6, <2>7
  <2>9. tab[j].name \notin DefinedNames(dyn) BY <1>5, <1>12, <2>3
  <2>10. j \in Lacking(tab) BY <1>7, <2>3, <2>4, <2>8, <2>9 DEF Lacking
  <2>11. QED BY <2>10
<1>13. QED BY <1>11, <1>12

\* What an object needs, and neither the objects M nor the libraries Q have
Lacks(m, M, Q) ==
    \E n \in world.lib[m].refs : Wants(m, n) /\ ~(\E q \in M : n \in world.lib[q].defs) /\ ~InDlls(Q, n)

\* What is to be shown of a step
LEMMA VerdictConcluded ==
    ASSUME world' = world, BoundWorld(world),
           pc' # "failed" => \A m \in Range(loaded') : ~Loses(Object(m)),
           pc' \in {"load", "bind"} => tab' \in Seq(Referenced(Range(loaded'))) /\ DllsKnown(dyn', dlls'),
           pc' \in {"done", "failed"} =>
              (pc' = "failed" <=> \E m \in Range(loaded') : Loses(Object(m)) \/ Lacks(m, Range(loaded'), dlls'))
    PROVE  BoundWorld(world)' /\ VerdictInv'
<1>1. BoundWorld(world)' BY DEF BoundWorld, ObjectsOf, OfKind
<1>2. ASSUME NEW m PROVE Loses(Object(m))' <=> Loses(Object(m)) BY DEF Loses, Object, File
<1>3. Referenced(Range(loaded))' = Referenced(Range(loaded')) BY DEF Referenced, Object, File
<1>4. ASSUME NEW n PROVE InDlls(dlls, n)' <=> InDlls(dlls', n) BY DEF InDlls, File
<1>5. DllsKnown(dyn, dlls)' <=> DllsKnown(dyn', dlls') BY DEF DllsKnown, InDlls, File, OfKind
<1>6. ASSUME NEW n PROVE InDll(n)' <=> InDlls(dlls', n) BY DEF InDll, InDlls, File
<1>7. ASSUME NEW n PROVE Defined(n)' <=> \E q \in Range(loaded') : n \in world.lib[q].defs BY DEF Defined
<1>8. ASSUME NEW m, NEW n PROVE Wants(m, n)' <=> Wants(m, n) BY DEF Wants, Object, File
<1>9. ASSUME NEW m
      PROVE  (\E n \in world.lib[m].refs : Wants(m, n) /\ ~Defined(n) /\ ~InDll(n))' <=> Lacks(m, Range(loaded'), dlls')
  BY <1>6, <1>7, <1>8 DEF Lacks
<1>10. Verdict' BY <1>2, <1>9 DEF Verdict
<1>11. QED BY <1>1, <1>2, <1>3, <1>5, <1>10 DEF VerdictInv

\* The verdict of now
LEMMA VerdictNow ==
    ASSUME VerdictInv
    PROVE  pc \in {"done", "failed"} =>
              (pc = "failed" <=> \E m \in Range(loaded) : Loses(Object(m)) \/ Lacks(m, Range(loaded), dlls))
<1>1. \A n : InDll(n) <=> InDlls(dlls, n) BY DEF InDll, InDlls
<1>2. QED BY <1>1 DEF VerdictInv, Verdict, Defined, Lacks

\* Binding gives the verdict.
LEMMA VerdictBound ==
    ASSUME LInv, BoundWorld(world), RelocInv, VerdictInv, BindExe
    PROVE  BoundWorld(world)' /\ VerdictInv'
<1> DEFINE X == Placed(once, loaded)
<1>1. dyn \in Seq(DllSymbol) /\ OneEach(dyn) BY InvFacts
<1>2. pc = "bind" /\ UNCHANGED <<world, dlls, loaded>> BY DEF BindExe
<1>3. tab \in Seq(X) BY <1>2 DEF RelocInv
<1>4. Bindable(X) /\ Allocatable(X) /\ X \subseteq EntryType BY PlacedBindable DEF Bindable
<1>5. OneEach(tab) BY <1>2 DEF LInv, Tabled
<1>6. /\ \A m \in Range(loaded) : ~Loses(Object(m))
      /\ tab \in Seq(Referenced(Range(loaded))) /\ DllsKnown(dyn, dlls)
  BY <1>2 DEF VerdictInv
<1>7. DynMeans
  <2>1. \A d \in 1 .. Len(dyn) : dyn[d] \in DllMeant BY <1>6 DEF DllsKnown
  <2>2. QED BY <2>1 DEF DynMeans, DllMeant
<1> HIDE DEF X
<1>8. PICK a \in BindState(X) :
         /\ BoundUpTo(Allocated, a, Len(tab))
         /\ \E b \in ExportState(a) : pc' = IF a.undef # {} \/ StillUndefined(b) # {} THEN "failed" ELSE "done"
  BY <1>1, <1>3, <1>4, BindExeIs
<1>9. PICK b \in ExportState(a) : pc' = IF a.undef # {} \/ StillUndefined(b) # {} THEN "failed" ELSE "done" BY <1>8
<1>10. /\ Allocated \in Seq(X) /\ Len(Allocated) = Len(tab)
       /\ \A j \in 1 .. Len(tab) : /\ Allocated[j].name = tab[j].name /\ Allocated[j].bind = tab[j].bind
                                   /\ (Allocated[j].shndx = "UNDEF" <=> tab[j].shndx = "UNDEF")
  BY <1>3, <1>4, CommonAllocated
<1>11. (a.undef # {} \/ StillUndefined(b) # {}) <=> Lacking(tab) # {}
  BY <1>1, <1>3, <1>4, <1>5, <1>7, <1>8, <1>10, BindingRefused
<1>12. Lacking(tab) # {} <=> \E m \in Range(loaded) : Lacks(m, Range(loaded), dlls)
  <2>1. \A n : InDll(n) <=> InDlls(dlls, n) BY DEF InDll, InDlls
  <2>2. QED BY <1>2, <1>6, <2>1, LackingMeans DEF Lacks, Defined
<1>13. pc' \in {"done", "failed"} /\ (pc' = "failed" <=> Lacking(tab) # {}) BY <1>9, <1>11
<1>14. pc' = "failed" <=> \E m \in Range(loaded') : Loses(Object(m)) \/ Lacks(m, Range(loaded'), dlls')
  BY <1>2, <1>6, <1>12, <1>13
<1>15. \A m \in Range(loaded') : ~Loses(Object(m)) BY <1>2, <1>6
<1>16. QED BY <1>2, <1>13, <1>14, <1>15, VerdictConcluded

\* Every step keeps the verdict.
LEMMA VerdictStep ==
    ASSUME LInv, RelocWorld(world), BoundWorld(world), RelocInv, VerdictInv, [Next]_vars
    PROVE  BoundWorld(world)' /\ VerdictInv'
<1>1. CASE UNCHANGED vars
  <2>1. UNCHANGED <<world, pc, tab, dyn, dlls, loaded>> BY <1>1 DEF vars
  <2>2. /\ pc # "failed" => \A m \in Range(loaded) : ~Loses(Object(m))
        /\ pc \in {"load", "bind"} => tab \in Seq(Referenced(Range(loaded))) /\ DllsKnown(dyn, dlls)
    BY DEF VerdictInv
  <2>3. QED BY <2>1, <2>2, VerdictNow, VerdictConcluded
<1>2. CASE Next /\ pc = "load"
  <2>1. world' = world /\ Changes BY <1>2, StepChanges
  <2>2. /\ \A m \in Range(loaded) : ~Loses(Object(m))
        /\ tab \in Seq(Referenced(Range(loaded))) /\ DllsKnown(dyn, dlls)
    BY <1>2 DEF VerdictInv
  <2>3. CASE \E m \in DOMAIN world.lib : \E stk : LoadObject(m, stk) /\ Heeded(m, stk) /\ UNCHANGED <<dyn, dlls>>
    <3>1. PICK m \in DOMAIN world.lib : \E stk : LoadObject(m, stk) /\ Heeded(m, stk) /\ UNCHANGED <<dyn, dlls>> BY <2>3
    <3>2. PICK stk : LoadObject(m, stk) /\ Heeded(m, stk) /\ UNCHANGED <<dyn, dlls>> BY <3>1
    <3>3. /\ Range(loaded') = Range(loaded) \cup {m}
          /\ tab' \in Seq(Referenced(Range(loaded) \cup {m}))
          /\ pc' = IF Loses(Object(m)) THEN "failed" ELSE "load"
      BY <1>2, <2>2, <3>2, LoadObjectVerdict
    <3>4. pc' # "failed" => \A q \in Range(loaded') : ~Loses(Object(q)) BY <2>2, <3>3
    <3>5. pc' \in {"done", "failed"} =>
             (pc' = "failed" <=> \E q \in Range(loaded') : Loses(Object(q)) \/ Lacks(q, Range(loaded'), dlls'))
      BY <3>3
    <3>6. tab' \in Seq(Referenced(Range(loaded'))) /\ DllsKnown(dyn', dlls') BY <2>2, <3>2, <3>3
    <3>7. QED BY <2>1, <3>4, <3>5, <3>6, VerdictConcluded
  <2>4. CASE /\ UNCHANGED <<tab, once, rels, loaded>> /\ pc' \in {"load", "bind"}
             /\ UNCHANGED <<dyn, dlls>> \/ \E f \in OfKind(world, {"dll"}) : \E level \in {0, 1} : AddDll(f, level)
    <3>1. DllsKnown(dyn', dlls')
      <4>1. CASE UNCHANGED <<dyn, dlls>> BY <2>2, <4>1
      <4>2. CASE \E f \in OfKind(world, {"dll"}) : \E level \in {0, 1} : AddDll(f, level)
        <5>1. PICK f \in OfKind(world, {"dll"}), level \in {0, 1} : AddDll(f, level) BY <4>2
        <5>2. CASE \E i \in DOMAIN dlls : dlls[i].f = f BY <2>2, <5>1, <5>2, KnownDll
        <5>3. CASE ~(\E i \in DOMAIN dlls : dlls[i].f = f) BY <2>2, <5>1, <5>3, NewDll
        <5>4. QED BY <5>2, <5>3
      <4>3. QED BY <2>4, <4>1, <4>2
    <3>2. QED BY <2>1, <2>2, <2>4, <3>1, VerdictConcluded
  <2>5. QED BY <2>1, <2>3, <2>4 DEF Changes
<1>3. CASE Next /\ pc # "load"
  <2>1. BindExe
    BY <1>3 DEF Next, NextFile, WholeArchive, ArchiveName, ArchiveDone, Script, ListFile, ListDone, DllNeeds, Doing
  <2>2. QED BY <2>1, VerdictBound
<1>4. QED BY <1>1, <1>2, <1>3

\* At the beginning nothing is loaded.
LEMMA VerdictInitially ==
    ASSUME \A c \in Code : BoundWorld(World(c)), Init
    PROVE  BoundWorld(world) /\ VerdictInv
<1>1. PICK c \in Code : world = Complete(World(c)) BY DEF Init
<1>2. BoundWorld(world)
  <2> DEFINE w == World(c)
  <2>1. world.file = w.file BY <1>1 DEF Complete
  <2>2. BoundWorld(w) OBVIOUS
  <2> HIDE DEF w
  <2>3. ObjectsOf(world) = ObjectsOf(w) /\ OfKind(world, {"dll"}) = OfKind(w, {"dll"}) BY <2>1 DEF ObjectsOf, OfKind
  <2>4. QED BY <2>1, <2>2, <2>3 DEF BoundWorld
<1>3. pc = "load" /\ tab = <<>> /\ dyn = <<>> /\ dlls = <<>> /\ loaded = <<>> BY DEF Init
<1>4. Range(loaded) = {} BY <1>3 DEF Range
<1>5. tab \in Seq(Referenced(Range(loaded))) BY <1>3
<1>6. DllsKnown(dyn, dlls)
  <2>1. \A n : ~InDlls(dlls, n) BY <1>3 DEF InDlls
  <2>2. DefinedNames(dyn) = {} BY <1>3 DEF DefinedNames
  <2>3. <<>> \in Seq([f : OfKind(world, {"dll"}), level : {0, 1}]) /\ <<>> \in Seq(DllMeant) OBVIOUS
  <2>4. QED BY <1>3, <2>1, <2>2, <2>3 DEF DllsKnown
<1>7. Verdict BY <1>3 DEF Verdict
<1>8. QED BY <1>2, <1>3, <1>4, <1>5, <1>6, <1>7 DEF VerdictInv

\* The linker fails if and only if something is missing, when the worlds are such as
\* RelocsRight is about, so that no failure is lost in a later round of a group, and
\* the objects agree on what is weak and the libraries on what is defined.
THEOREM VerdictRight ==
    ASSUME PlainCode, \A c \in Code : RelocWorld(World(c)), \A c \in Code : BoundWorld(World(c))
    PROVE  Spec => []Verdict
<1>1. Init => RelocWorld(world) /\ RelocInv /\ BoundWorld(world) /\ VerdictInv
  BY RelocsInitially, VerdictInitially
<1>2. LInv /\ RelocWorld(world) /\ RelocInv /\ BoundWorld(world) /\ VerdictInv /\ [Next]_vars
      => RelocWorld(world)' /\ RelocInv' /\ BoundWorld(world)' /\ VerdictInv'
  BY RelocsStep, VerdictStep
<1>3. VerdictInv => Verdict BY DEF VerdictInv
<1>4. Spec => []LInv BY LinkInductive
<1>5. QED BY <1>1, <1>2, <1>3, <1>4, PTL DEF Spec
===============================================================================
