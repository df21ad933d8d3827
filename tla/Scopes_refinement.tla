-------------------------- MODULE Scopes_refinement --------------------------
(***************************************************************************)
(* Scopes implements Environment: on the sound tables of Scopes_proofs the *)
(* head of a name is the innermost declaration in scope, and each step of  *)
(* the parser enters or leaves a scope, declares a name, uses or defines a *)
(* label, or ends the program for a reason.  Beyond soundness this rests   *)
(* on what keeps scopes apart (Orderly): a symbol has the number of its    *)
(* scope, a label has one symbol in it, and no label that is kept is still *)
(* to be defined.                                                          *)
(***************************************************************************)
EXTENDS Scopes_proofs

-----------------------------------------------------------------------------
(* Scopes and what they declare                                            *)

\* Where scope k of c begins and ends on the local stack of a name space
Start(c, sp, k) == IF sp = "label" THEN c[k].l ELSE c[k].s
End(t, c, sp, k) == IF k = Len(c) THEN Len(Local(t, sp)) ELSE Start(c, sp, k + 1)

\* The positions of the declarations of v in scope k of c
LiveAt(t, g, c, k, sp, v) ==
    {p \in Start(c, sp, k) + 1 .. End(t, c, sp, k) : Lives(t, g, sp, v, p)}

\* The symbols of the global stacks are declared in the file, those of labels in
\* the function.  Scope k of Environment is scope k - 1 of the parser.
Home(sp) == IF sp = "label" THEN 2 ELSE 1

\* v means i in scope k, if that is where it has a meaning: the last place of
\* the scope that declares it, or else the symbol of the file or the function
Means(t, g, c, k, sp, v, i) ==
    \/ k > 1 /\ \E q \in LiveAt(t, g, c, k - 1, sp, v) :
                   i = Local(t, sp)[q] /\ \A p \in LiveAt(t, g, c, k - 1, sp, v) : p <= q
    \/ /\ k > 1 => LiveAt(t, g, c, k - 1, sp, v) = {}
       /\ IF k = Home(sp) THEN FileWide(t, sp, v, i) ELSE i = NULL

\* A declaration in scope k has its number, or none; the labels of a scope have
\* different names, also those of the function and of its outermost block; a loop
\* declares none.
ScopeOrderly(t, g, c, k) ==
    \A v \in Names :
        /\ \A sp \in {"ident", "struct"} : \A p \in LiveAt(t, g, c, k, sp, v) :
              t.sym[Local(t, sp)[p]].sym_scope \in {0, k}
        /\ \A p, q \in LiveAt(t, g, c, k, "label", v) : p = q
        /\ LiveAt(t, g, c, k, "label", v) # {} =>
              /\ ~c[k].loop
              /\ k = 1 => \A q \in DOMAIN Global(t, "label") : ~Declares(t, Global(t, "label")[q], "label", v)

\* No label that is kept is still to be defined, and labels are on stacks of their own.
KeptOrderly(t, g) ==
    /\ \A i \in g : t.sym[i].sp = "label" => t.sym[i].r # "forward"
    /\ \A p \in DOMAIN t.stack["local"] : t.sym[t.stack["local"][p]].sp # "label"

\* The scopes are in order, and no function has left a label.
Orderly(t, g, c) ==
    /\ KeptOrderly(t, g)
    /\ Len(c) = 0 => Len(Global(t, "label")) = 0
    /\ \A k \in 1 .. Len(c) : ScopeOrderly(t, g, c, k)

\* LastOn and Declared of Scopes for tables t, kept symbols g and frames c
LastIn(t, g, st, b, e, sp, v) ==
    LET here == {p \in b + 1 .. e : t.stack[st][p] \notin g /\ Declares(t, t.stack[st][p], sp, v)}
    IN IF here = {} THEN NULL ELSE t.stack[st][Max(here)]
DeclaredIn(t, g, c, k, sp, v) ==
    LET inner == IF k = 1 THEN NULL
                 ELSE LastIn(t, g, LocalStack(sp), Start(c, sp, k - 1), End(t, c, sp, k - 1), sp, v)
    IN IF inner = NULL /\ k = Home(sp)
       THEN LastIn(t, g, GlobalStack(sp), 0, Len(Global(t, sp)), sp, v) ELSE inner

\* Declared of Scopes, before and after a step
LEMMA DeclaredIs ==
    ASSUME NEW k \in Nat, NEW sp, NEW v
    PROVE  /\ Declared(k, sp, v) = DeclaredIn(tab, gone, ctx, k, sp, v)
           /\ Declared(k, sp, v)' = DeclaredIn(tab', gone', ctx', k, sp, v)
<1>1. \A st, b, e : LastOn(st, b, e, sp, v) = LastIn(tab, gone, st, b, e, sp, v)
  BY DEF LastOn, LastIn, Declares
<1>2. \A st, b, e : LastOn(st, b, e, sp, v)' = LastIn(tab', gone', st, b, e, sp, v)
  BY DEF LastOn, LastIn, Declares
<1>3. (k - 1) + 1 = k OBVIOUS
<1>4. Declared(k, sp, v) = DeclaredIn(tab, gone, ctx, k, sp, v)
  BY <1>1, <1>3 DEF Declared, DeclaredIn, Start, End, Home, LocalStack, GlobalStack, Local, Global
<1>5. Declared(k, sp, v)' = DeclaredIn(tab', gone', ctx', k, sp, v)
  BY <1>2, <1>3 DEF Declared, DeclaredIn, Start, End, Home, LocalStack, GlobalStack, Local, Global
<1>6. QED BY <1>4, <1>5

\* The scopes follow one another on a local stack and fill it.
LEMMA ScopeLies ==
    ASSUME NEW t \in Table, NEW c, Frames(t, c), NEW sp \in Spaces
    PROVE  /\ Len(c) \in Nat /\ Len(Local(t, sp)) \in Nat
           /\ \A k \in 1 .. Len(c) : /\ Start(c, sp, k) \in Nat /\ End(t, c, sp, k) \in Nat
                                     /\ Start(c, sp, k) <= End(t, c, sp, k)
                                     /\ End(t, c, sp, k) <= Len(Local(t, sp))
           /\ \A j, k \in 1 .. Len(c) : j < k => End(t, c, sp, j) <= Start(c, sp, k)
           /\ Len(c) > 0 => Start(c, sp, 1) = 0 /\ End(t, c, sp, Len(c)) = Len(Local(t, sp))
           /\ Len(c) = 0 => Len(Local(t, sp)) = 0
<1>1. Len(c) \in Nat /\ Len(Local(t, sp)) \in Nat BY FramesParts, LocalParts
<1>2. LocalStack(sp) \in {"local", "local_label"} /\ (LocalStack(sp) = "local_label" <=> sp = "label")
  BY DEF LocalStack
<1>3. \A k \in 1 .. Len(c) : Start(c, sp, k) \in 0 .. Len(Local(t, sp))
  BY <1>2 DEF Start, Frames, Local
<1>4. \A j, k \in 1 .. Len(c) : j <= k => Start(c, sp, j) <= Start(c, sp, k)
  BY DEF Start, Frames
<1>5. Len(c) > 0 => Start(c, sp, 1) = 0
  BY DEF Start, Frames
<1>6. Len(c) = 0 => Len(Local(t, sp)) = 0
  BY <1>2 DEF Frames, Local
<1>7. ASSUME NEW k \in 1 .. Len(c)
      PROVE  /\ Start(c, sp, k) \in Nat /\ End(t, c, sp, k) \in Nat
             /\ Start(c, sp, k) <= End(t, c, sp, k) /\ End(t, c, sp, k) <= Len(Local(t, sp))
  <2>1. CASE k = Len(c) BY <1>1, <1>3, <2>1 DEF End
  <2>2. CASE k # Len(c)
    <3>1. k \in Nat /\ k + 1 \in 1 .. Len(c) /\ k <= k + 1 BY <1>1, <2>2
    <3>2. End(t, c, sp, k) = Start(c, sp, k + 1) BY <2>2 DEF End
    <3>3. Start(c, sp, k) <= Start(c, sp, k + 1) BY <1>4, <3>1
    <3>4. Start(c, sp, k + 1) \in 0 .. Len(Local(t, sp)) /\ Start(c, sp, k) \in 0 .. Len(Local(t, sp))
      BY <1>3, <3>1
    <3>5. QED BY <1>1, <3>2, <3>3, <3>4
  <2>3. QED BY <2>1, <2>2
<1>8. ASSUME NEW j \in 1 .. Len(c), NEW k \in 1 .. Len(c), j < k
      PROVE  End(t, c, sp, j) <= Start(c, sp, k)
  <2>1. j # Len(c) /\ j + 1 \in 1 .. Len(c) /\ j + 1 <= k BY <1>1, <1>8
  <2>2. QED BY <1>4, <2>1 DEF End
<1>9. Len(c) > 0 => End(t, c, sp, Len(c)) = Len(Local(t, sp)) BY DEF End
<1>10. QED BY <1>1, <1>5, <1>6, <1>7, <1>8, <1>9

\* Every place of a local stack is in a scope.
LEMMA ScopeOfPlace ==
    ASSUME NEW t \in Table, NEW c, Frames(t, c), NEW sp \in Spaces, NEW q \in 1 .. Len(Local(t, sp))
    PROVE  \E k \in 1 .. Len(c) : q \in Start(c, sp, k) + 1 .. End(t, c, sp, k)
<1> DEFINE n == Len(c)
           L == Len(Local(t, sp))
           ends == {k \in 1 .. n : q <= End(t, c, sp, k)}
<1>1. /\ n \in Nat /\ L \in Nat
      /\ \A k \in 1 .. n : Start(c, sp, k) \in Nat /\ End(t, c, sp, k) \in Nat
      /\ n > 0 => Start(c, sp, 1) = 0 /\ End(t, c, sp, n) = L
      /\ n = 0 => L = 0
  BY ScopeLies
<1>2. n > 0 /\ q \in Nat /\ 1 <= q /\ q <= L BY <1>1
<1>3. n \in ends /\ ends \in SUBSET Nat BY <1>1, <1>2
<1>4. PICK k \in ends : \A j \in ends : k <= j BY <1>3, LeastElement
<1>5. k \in 1 .. n /\ q <= End(t, c, sp, k) BY <1>4
<1>6. Start(c, sp, k) < q
  <2>1. CASE k = 1 BY <1>1, <1>2, <2>1
  <2>2. CASE k # 1
    <3>1. k - 1 \in 1 .. n /\ k - 1 \notin ends /\ k - 1 # n BY <1>1, <1>4, <1>5, <2>2
    <3>2. End(t, c, sp, k - 1) = Start(c, sp, k) BY <1>5, <3>1 DEF End
    <3>3. ~(q <= End(t, c, sp, k - 1)) BY <3>1
    <3>4. QED BY <1>1, <1>2, <3>1, <3>2, <3>3
  <2>3. QED BY <2>1, <2>2
<1>7. Start(c, sp, k) + 1 <= q BY <1>1, <1>2, <1>5, <1>6
<1>8. QED BY <1>1, <1>2, <1>5, <1>7

\* The last of a set of positions
LEMMA LastOne ==
    ASSUME NEW e \in Nat, NEW S \in SUBSET (1 .. e), S # {}
    PROVE  Max(S) \in S /\ \A p \in S : p <= Max(S)
<1> DEFINE back == {n \in 0 .. e : e - n \in S}
<1>1. back \in SUBSET Nat OBVIOUS
<1>2. PICK p \in S : TRUE OBVIOUS
<1>3. p \in Nat /\ e - p \in 0 .. e /\ e - (e - p) = p BY <1>2
<1>4. back # {} BY <1>2, <1>3
<1>5. PICK m \in back : \A k \in back : m <= k BY <1>1, <1>4, LeastElement
<1>6. e - m \in S /\ m \in Nat BY <1>5
<1>7. ASSUME NEW k \in S PROVE e - m >= k
  <2>1. k \in Nat /\ e - k \in 0 .. e /\ e - (e - k) = k OBVIOUS
  <2>2. m <= e - k BY <1>5, <1>7, <2>1
  <2>3. QED BY <1>6, <2>1, <2>2
<1>8. \E x \in S : \A y \in S : x >= y BY <1>6, <1>7
<1>9. Max(S) \in S /\ \A y \in S : Max(S) >= y BY <1>8 DEF Max
<1>10. QED BY <1>9

\* LastIn is NULL, or what the last place has.
LEMMA LastInIs ==
    ASSUME NEW t \in Table, NEW g, NEW st \in Stacks, NEW b \in Nat, NEW e \in Nat,
           e <= Len(t.stack[st]), NEW sp, NEW v, NEW here, NEW i,
           \A p : p \in here <=> p \in b + 1 .. e /\ t.stack[st][p] \notin g /\ Declares(t, t.stack[st][p], sp, v),
           i = LastIn(t, g, st, b, e, sp, v)
    PROVE  \/ here = {} /\ i = NULL
           \/ i # NULL /\ \E q \in here : i = t.stack[st][q] /\ \A p \in here : p <= q
<1>1. here = {p \in b + 1 .. e : t.stack[st][p] \notin g /\ Declares(t, t.stack[st][p], sp, v)}
  OBVIOUS
<1>2. here \in SUBSET (1 .. e) /\ i = IF here = {} THEN NULL ELSE t.stack[st][Max(here)]
  BY <1>1 DEF LastIn
<1>3. CASE here = {} BY <1>2, <1>3
<1>4. CASE here # {}
  <2>1. Max(here) \in here /\ \A p \in here : p <= Max(here) BY <1>2, <1>4, LastOne
  <2>2. Max(here) \in 1 .. Len(t.stack[st])
    <3>1. Len(t.stack[st]) \in Nat BY TableParts
    <3>2. Max(here) \in 1 .. e BY <1>2, <2>1
    <3>3. QED BY <3>1, <3>2
  <2>3. t.stack[st][Max(here)] # NULL BY <2>2, TableParts, SymsNotNull
  <2>4. QED BY <1>2, <1>4, <2>1, <2>3
<1>5. QED BY <1>3, <1>4

\* Only local symbols are kept.
LEMMA GlobalNotGone ==
    ASSUME NEW t, NEW g, NEW B, Sound(t, g, B), NEW sp \in Spaces, NEW q \in DOMAIN Global(t, sp)
    PROVE  Global(t, sp)[q] \notin g
<1>1. SUFFICES ASSUME Global(t, sp)[q] \in g PROVE FALSE
  OBVIOUS
<1>2. PICK sp2 \in Spaces : \E p \in DOMAIN Local(t, sp2) : Global(t, sp)[q] = Local(t, sp2)[p]
  BY <1>1 DEF Sound, GoneLocal
<1>3. PICK p \in DOMAIN Local(t, sp2) : Global(t, sp)[q] = Local(t, sp2)[p] BY <1>2
<1>4. GlobalStack(sp) \in Stacks /\ LocalStack(sp2) \in Stacks /\ GlobalStack(sp) # LocalStack(sp2)
  BY DEF GlobalStack, LocalStack, Stacks
<1>5. QED BY <1>3, <1>4 DEF Sound, Apart, Global, Local

\* What Declared finds is what a name means in the scope, and nothing else is.
LEMMA MeansIs ==
    ASSUME NEW t, NEW g, NEW c, Tidy(t, g, c), NEW k \in 1 .. Len(c) + 1,
           NEW sp \in Spaces, NEW v \in Names, NEW i
    PROVE  Means(t, g, c, k, sp, v, i) <=> i = DeclaredIn(t, g, c, k, sp, v)
<1> DEFINE b == Start(c, sp, k - 1)
           e == End(t, c, sp, k - 1)
           live == LiveAt(t, g, c, k - 1, sp, v)
           inner == IF k = 1 THEN NULL ELSE LastIn(t, g, LocalStack(sp), b, e, sp, v)
           n == Len(Global(t, sp))
           outer == LastIn(t, g, GlobalStack(sp), 0, n, sp, v)
           there == {p \in 0 + 1 .. n : t.stack[GlobalStack(sp)][p] \notin g
                                        /\ Declares(t, t.stack[GlobalStack(sp)][p], sp, v)}
<1>1. t \in Table /\ Frames(t, c) /\ Sound(t, g, Begins(c)) BY DEF Tidy, Sound
<1>2. LocalStack(sp) \in Stacks /\ GlobalStack(sp) \in Stacks BY StackNames
<1>3. Len(c) \in Nat BY <1>1, ScopeLies
<1>4. k > 1 => \/ live = {} /\ inner = NULL
               \/ inner # NULL /\ \E q \in live : inner = Local(t, sp)[q] /\ \A p \in live : p <= q
  <2>1. SUFFICES ASSUME k > 1
                 PROVE  \/ live = {} /\ inner = NULL
                        \/ inner # NULL /\ \E q \in live : inner = Local(t, sp)[q] /\ \A p \in live : p <= q
    OBVIOUS
  <2>2. k - 1 \in 1 .. Len(c) /\ k # 1 BY <1>3, <2>1
  <2>3. b \in Nat /\ e \in Nat /\ e <= Len(t.stack[LocalStack(sp)]) BY <1>1, <2>2, ScopeLies DEF Local
  <2>4. \A p : p \in live <=> p \in b + 1 .. e /\ t.stack[LocalStack(sp)][p] \notin g
                                /\ Declares(t, t.stack[LocalStack(sp)][p], sp, v)
    BY DEF LiveAt, Lives, Local
  <2>5. inner = LastIn(t, g, LocalStack(sp), b, e, sp, v) BY <2>2
  <2> HIDE DEF b, e, live, inner
  <2>6. \/ live = {} /\ inner = NULL
        \/ inner # NULL /\ \E q \in live : inner = t.stack[LocalStack(sp)][q] /\ \A p \in live : p <= q
    BY <1>1, <1>2, <2>3, <2>4, <2>5, LastInIs
  <2>7. QED BY <2>6 DEF Local
<1>5. \A j : FileWide(t, sp, v, j) <=> j = outer
  <2>1. DOMAIN Global(t, sp) = 1 .. n /\ n \in Nat /\ \A q \in 1 .. n : Global(t, sp)[q] \in Syms
    BY <1>1, LocalParts
  <2>2. there = {q \in 1 .. n : Declares(t, Global(t, sp)[q], sp, v)}
    BY <1>1, <2>1, GlobalNotGone DEF Global
  <2>3. \A p, q \in there : p = q
    <3>1. ASSUME NEW p \in there, NEW q \in there PROVE p = q
      <4>1. Declares(t, Global(t, sp)[p], sp, v) /\ Declares(t, Global(t, sp)[q], sp, v)
            /\ p \in DOMAIN Global(t, sp) /\ q \in DOMAIN Global(t, sp)
        BY <2>1, <2>2, <3>1
      <4>2. QED BY <1>1, <4>1 DEF Sound, Globals, Declares
    <3>2. QED BY <3>1
  <2>4. \/ there = {} /\ outer = NULL
        \/ outer # NULL /\ \E q \in there : outer = Global(t, sp)[q]
    <3>1. 0 \in Nat /\ n <= Len(t.stack[GlobalStack(sp)]) BY <2>1 DEF Global
    <3> HIDE DEF n
    <3>2. (\A p : p \in there <=> p \in 0 + 1 .. n /\ t.stack[GlobalStack(sp)][p] \notin g
                                   /\ Declares(t, t.stack[GlobalStack(sp)][p], sp, v))
          /\ outer = LastIn(t, g, GlobalStack(sp), 0, n, sp, v)
      OBVIOUS
    <3> HIDE DEF outer, there
    <3>3. QED BY <1>1, <1>2, <2>1, <3>1, <3>2, LastInIs DEF Global
  <2> HIDE DEF outer, there, n
  <2>5. QED BY <2>1, <2>2, <2>3, <2>4 DEF FileWide
<1>6. DeclaredIn(t, g, c, k, sp, v) = IF inner = NULL /\ k = Home(sp) THEN outer ELSE inner
  BY DEF DeclaredIn
<1>7. Means(t, g, c, k, sp, v, i)
        <=> \/ k > 1 /\ \E q \in live : i = Local(t, sp)[q] /\ \A p \in live : p <= q
            \/ /\ k > 1 => live = {}
               /\ IF k = Home(sp) THEN FileWide(t, sp, v, i) ELSE i = NULL
  BY DEF Means
<1>8. k = 1 => inner = NULL OBVIOUS
<1>9. \A p, q \in live : p \in Int /\ q \in Int BY DEF LiveAt
<1> HIDE DEF inner, outer, live
<1>10. CASE k > 1 /\ live # {}
  <2>1. PICK q \in live : inner # NULL /\ inner = Local(t, sp)[q] /\ \A p \in live : p <= q
    BY <1>4, <1>10
  <2>2. \A r \in live : (\A p \in live : p <= r) => r = q BY <1>9, <2>1
  <2>3. QED BY <1>6, <1>7, <1>10, <2>1, <2>2
<1>11. CASE ~(k > 1 /\ live # {})
  <2>1. inner = NULL BY <1>4, <1>8, <1>3, <1>11
  <2>2. QED BY <1>5, <1>6, <1>7, <1>11, <2>1
<1>12. QED BY <1>10, <1>11

-----------------------------------------------------------------------------
(* What names mean                                                         *)

\* The scopes of Environment that the tables t with frames c stand for
ScopesIn(t, g, c) ==
    [k \in 1 .. Len(c) + 1 |-> [sp \in Spaces |-> [v \in Names |-> DeclaredIn(t, g, c, k, sp, v)]]]

\* The innermost declaration of a name is that of the last scope which has one.
LEMMA InnermostIs ==
    ASSUME NEW s, NEW n \in Nat, DOMAIN s = 1 .. n, NEW sp, NEW v, NEW k \in 1 .. n,
           s[k][sp][v] # NULL, \A j \in k + 1 .. n : s[j][sp][v] = NULL
    PROVE  Env!Innermost(s, sp, v) = s[k][sp][v]
<1> DEFINE having == {j \in 1 .. n : s[j][sp][v] # NULL}
           last == CHOOSE m \in having : \A j \in having : j <= m
<1>1. Env!Having(s, sp, v) = having BY DEF Env!Having
<1>2. Env!Innermost(s, sp, v) = IF having = {} THEN NULL ELSE s[last][sp][v]
  BY <1>1 DEF Env!Innermost
<1>3. k \in having OBVIOUS
<1>4. \A j \in having : j <= k
  <2>1. ASSUME NEW j \in having, ~(j <= k) PROVE FALSE
    <3>1. j \in k + 1 .. n /\ s[j][sp][v] # NULL BY <2>1
    <3>2. QED BY <3>1
  <2>2. QED BY <2>1
<1>5. \A j \in having : j \in Int OBVIOUS
<1> HIDE DEF having
<1>6. last \in having /\ \A j \in having : j <= last BY <1>3, <1>4
<1> HIDE DEF last
<1>7. last <= k /\ k <= last /\ last \in Int /\ k \in Int BY <1>3, <1>4, <1>5, <1>6
<1>8. last = k BY <1>7
<1>9. QED BY <1>2, <1>3, <1>8

\* A name that no scope declares means nothing.
LEMMA InnermostNone ==
    ASSUME NEW s, NEW n \in Nat, DOMAIN s = 1 .. n, NEW sp, NEW v,
           \A k \in 1 .. n : s[k][sp][v] = NULL
    PROVE  Env!Innermost(s, sp, v) = NULL
<1>1. Env!Having(s, sp, v) = {} BY DEF Env!Having
<1>2. QED BY <1>1 DEF Env!Innermost

\* A scope in which no place declares a name
LEMMA MeansNothing ==
    ASSUME NEW t, NEW g, NEW c, NEW k \in Nat, NEW sp, NEW v,
           k > 1 => LiveAt(t, g, c, k - 1, sp, v) = {}, k # Home(sp)
    PROVE  Means(t, g, c, k, sp, v, NULL)
BY DEF Means

\* A name means the innermost of its declarations.
LEMMA HeadIs ==
    ASSUME NEW t, NEW g, NEW c, Tidy(t, g, c), Orderly(t, g, c), NEW sp \in Spaces, NEW v \in Names
    PROVE  t.head[sp][v] = Env!Innermost(ScopesIn(t, g, c), sp, v)
<1> DEFINE i == t.head[sp][v]
           s == ScopesIn(t, g, c)
           n == Len(c) + 1
           L == Len(Local(t, sp))
<1>1. t \in Table /\ Frames(t, c) /\ Heads(t, g) BY DEF Tidy, Sound
<1>2. /\ Len(c) \in Nat /\ L \in Nat
      /\ \A k \in 1 .. Len(c) : /\ Start(c, sp, k) \in Nat /\ End(t, c, sp, k) \in Nat
                                /\ Start(c, sp, k) <= End(t, c, sp, k)
                                /\ End(t, c, sp, k) <= L
      /\ \A j, k \in 1 .. Len(c) : j < k => End(t, c, sp, j) <= Start(c, sp, k)
  BY <1>1, ScopeLies
<1>3. DOMAIN s = 1 .. n /\ n \in Nat /\ \A k \in 1 .. n : s[k][sp][v] = DeclaredIn(t, g, c, k, sp, v)
  BY <1>2 DEF ScopesIn
<1>4. \A k \in 1 .. n : \A j : Means(t, g, c, k, sp, v, j) => s[k][sp][v] = j
  BY <1>3, MeansIs
<1>5. Visible(t, g, sp, v, L, i) BY <1>1 DEF Heads
<1> HIDE DEF s
<1>6. CASE \E q \in 1 .. L : /\ i = Local(t, sp)[q] /\ Lives(t, g, sp, v, q)
                             /\ NoneLives(t, g, sp, v, q + 1, L)
  <2>1. PICK q \in 1 .. L : /\ i = Local(t, sp)[q] /\ Lives(t, g, sp, v, q)
                            /\ NoneLives(t, g, sp, v, q + 1, L)
    BY <1>6
  <2>2. PICK k \in 1 .. Len(c) : q \in Start(c, sp, k) + 1 .. End(t, c, sp, k)
    BY <1>1, ScopeOfPlace
  <2>3. i \in Syms BY <1>1, <2>1, LocalParts
  <2>4. \A p \in q + 1 .. L : ~Lives(t, g, sp, v, p) BY <2>1 DEF NoneLives
  <2> HIDE DEF i
  <2>5. q \in LiveAt(t, g, c, k, sp, v) BY <2>1, <2>2 DEF LiveAt
  <2>6. \A p \in LiveAt(t, g, c, k, sp, v) : p <= q
    <3>1. ASSUME NEW p \in LiveAt(t, g, c, k, sp, v), ~(p <= q) PROVE FALSE
      <4>1. p \in Start(c, sp, k) + 1 .. End(t, c, sp, k) /\ Lives(t, g, sp, v, p) BY DEF LiveAt
      <4>2. p \in q + 1 .. L BY <1>2, <3>1, <4>1
      <4>3. QED BY <2>4, <4>1, <4>2
    <3>2. QED BY <3>1
  <2>7. k + 1 \in 1 .. n /\ k + 1 > 1 /\ (k + 1) - 1 = k BY <1>2
  <2>8. Means(t, g, c, k + 1, sp, v, i) BY <2>1, <2>5, <2>6, <2>7 DEF Means
  <2>9. s[k + 1][sp][v] = i BY <1>4, <2>7, <2>8
  <2>10. ASSUME NEW j \in (k + 1) + 1 .. n PROVE s[j][sp][v] = NULL
    <3>1. j - 1 \in 1 .. Len(c) /\ k < j - 1 /\ j \in 1 .. n /\ j \in Nat /\ j > 2 BY <1>2
    <3>2. LiveAt(t, g, c, j - 1, sp, v) = {}
      <4>1. ASSUME NEW p \in LiveAt(t, g, c, j - 1, sp, v) PROVE FALSE
        <5>1. p \in Start(c, sp, j - 1) + 1 .. End(t, c, sp, j - 1) /\ Lives(t, g, sp, v, p)
          BY DEF LiveAt
        <5>2. End(t, c, sp, k) <= Start(c, sp, j - 1) /\ End(t, c, sp, j - 1) <= L BY <1>2, <3>1
        <5>3. /\ Start(c, sp, j - 1) \in Nat /\ End(t, c, sp, j - 1) \in Nat
              /\ End(t, c, sp, k) \in Nat /\ q <= End(t, c, sp, k)
          BY <1>2, <2>2, <3>1
        <5>4. p \in q + 1 .. L BY <1>2, <5>1, <5>2, <5>3
        <5>5. QED BY <2>4, <5>1, <5>4
      <4>2. QED BY <4>1
    <3>3. j # Home(sp) BY <3>1 DEF Home
    <3>4. Means(t, g, c, j, sp, v, NULL) BY <3>1, <3>2, <3>3, MeansNothing
    <3>5. QED BY <1>4, <3>1, <3>4
  <2>11. i # NULL BY <2>3, SymsNotNull
  <2>12. i = Env!Innermost(s, sp, v)
    <3> DEFINE k1 == k + 1
    <3>1. k1 \in 1 .. n /\ s[k1][sp][v] = i /\ \A j \in k1 + 1 .. n : s[j][sp][v] = NULL
      BY <2>7, <2>9, <2>10
    <3> HIDE DEF k1, n
    <3>2. Env!Innermost(s, sp, v) = s[k1][sp][v] BY <1>3, <2>11, <3>1, InnermostIs
    <3>3. QED BY <3>1, <3>2
  <2>13. QED BY <2>12 DEF i, s
<1>7. CASE FileWide(t, sp, v, i) /\ NoneLives(t, g, sp, v, 1, L)
  <2>1. ASSUME NEW k \in 1 .. Len(c) PROVE LiveAt(t, g, c, k, sp, v) = {}
    <3>1. ASSUME NEW p \in LiveAt(t, g, c, k, sp, v) PROVE FALSE
      <4>1. p \in Start(c, sp, k) + 1 .. End(t, c, sp, k) /\ Lives(t, g, sp, v, p) BY DEF LiveAt
      <4>2. p \in 1 .. L BY <1>2, <4>1
      <4>3. QED BY <1>7, <4>1, <4>2 DEF NoneLives
    <3>2. QED BY <3>1
  <2>2. ASSUME NEW k \in 1 .. n PROVE k > 1 => LiveAt(t, g, c, k - 1, sp, v) = {}
    <3>1. k > 1 => k - 1 \in 1 .. Len(c) BY <1>2
    <3>2. QED BY <2>1, <3>1
  <2>3. ASSUME NEW k \in 1 .. n, k # Home(sp) PROVE s[k][sp][v] = NULL
    <3>1. Means(t, g, c, k, sp, v, NULL) BY <2>2, <2>3, MeansNothing
    <3>2. QED BY <1>4, <3>1
  <2>4. Home(sp) \in Nat /\ Home(sp) >= 1 BY DEF Home
  <2>5. CASE Home(sp) <= n
    <3>1. Home(sp) \in 1 .. n BY <1>3, <2>4, <2>5
    <3>2. Means(t, g, c, Home(sp), sp, v, i) BY <1>7, <2>2, <3>1 DEF Means
    <3>3. s[Home(sp)][sp][v] = i BY <1>4, <3>1, <3>2
    <3> HIDE DEF i
    <3>4. CASE i = NULL
      <4>1. \A k \in 1 .. n : s[k][sp][v] = NULL BY <2>3, <3>3, <3>4
      <4>2. i = Env!Innermost(s, sp, v) BY <1>3, <3>4, <4>1, InnermostNone
      <4>3. QED BY <4>2 DEF i, s
    <3>5. CASE i # NULL
      <4>1. \A j \in Home(sp) + 1 .. n : s[j][sp][v] = NULL BY <1>3, <2>3, <2>4
      <4>2. i = Env!Innermost(s, sp, v)
        <5> DEFINE k1 == Home(sp)
        <5>1. k1 \in 1 .. n /\ s[k1][sp][v] = i /\ \A j \in k1 + 1 .. n : s[j][sp][v] = NULL
          BY <3>1, <3>3, <4>1
        <5> HIDE DEF k1, n
        <5>2. Env!Innermost(s, sp, v) = s[k1][sp][v] BY <1>3, <3>5, <5>1, InnermostIs
        <5>3. QED BY <5>1, <5>2
      <4>3. QED BY <4>2 DEF i, s
    <3>6. QED BY <3>4, <3>5
  <2>6. CASE ~(Home(sp) <= n)
    <3>1. Len(c) = 0 /\ sp = "label" BY <1>2, <2>6 DEF Home
    <3>2. Len(Global(t, sp)) = 0 BY <3>1 DEF Orderly
    <3>3. DOMAIN Global(t, sp) = {} BY <1>1, <3>2, LocalParts
    <3>4. i = NULL BY <1>7, <3>3 DEF FileWide
    <3> HIDE DEF i
    <3>5. \A k \in 1 .. n : k # Home(sp) BY <1>3, <2>4, <2>6
    <3>6. \A k \in 1 .. n : s[k][sp][v] = NULL BY <2>3, <3>5
    <3>7. i = Env!Innermost(s, sp, v) BY <1>3, <3>4, <3>6, InnermostNone
    <3>8. QED BY <3>7 DEF i, s
  <2>7. QED BY <2>5, <2>6
<1>8. QED BY <1>5, <1>6, <1>7 DEF Visible

\* All names mean what Environment says.
LEMMA HeadsMean ==
    ASSUME NEW t, NEW g, NEW c, Tidy(t, g, c), Orderly(t, g, c)
    PROVE  t.head = Env!Meaning(ScopesIn(t, g, c))
<1>1. t.head \in [Spaces -> [Names -> Syms \cup {NULL}]] BY DEF Tidy, Sound, Table
<1>2. Env!Spaces = Spaces BY DEF Env!Spaces, Spaces
<1>3. \A sp \in Spaces, v \in Names : t.head[sp][v] = Env!Innermost(ScopesIn(t, g, c), sp, v)
  BY HeadIs
<1> DEFINE m(sp, v) == Env!Innermost(ScopesIn(t, g, c), sp, v)
<1>4. Env!Meaning(ScopesIn(t, g, c)) = [sp \in Spaces |-> [v \in Names |-> m(sp, v)]]
  BY <1>2 DEF Env!Meaning
<1>5. \A sp \in Spaces, v \in Names : t.head[sp][v] = m(sp, v) BY <1>3
<1> HIDE DEF m
<1>6. QED BY <1>1, <1>4, <1>5

-----------------------------------------------------------------------------
(* What a step keeps                                                       *)

\* Scope k of c in tables t is scope k of d in tables u.
Inherits(t, g, c, u, h, d, k) ==
    /\ d[k].loop = c[k].loop
    /\ \A sp \in Spaces, v \in Names :
          /\ LiveAt(u, h, d, k, sp, v) = LiveAt(t, g, c, k, sp, v)
          /\ \A p \in LiveAt(t, g, c, k, sp, v) :
                LET i == Local(t, sp)[p]
                IN Local(u, sp)[p] = i /\ u.sym[i].sym_scope = t.sym[i].sym_scope

\* The places of the local stack from b + 1 to e declare in u what they do in t.
SamePlaces(t, u, g, h, sp, b, e) ==
    \A p \in b + 1 .. e :
        LET i == Local(t, sp)[p]
        IN /\ Local(u, sp)[p] = i /\ (i \in h <=> i \in g)
           /\ u.sym[i].v = t.sym[i].v /\ u.sym[i].sp = t.sym[i].sp
           /\ u.sym[i].sym_scope = t.sym[i].sym_scope

\* So it is if its places are the same, and what is above them is only kept.
LEMMA Inherited ==
    ASSUME NEW t, NEW g, NEW c, NEW u, NEW h, NEW d, NEW k, d[k].loop = c[k].loop,
           \A sp \in Spaces :
               /\ Start(c, sp, k) \in Nat /\ End(t, c, sp, k) \in Nat /\ End(u, d, sp, k) \in Nat
               /\ Start(d, sp, k) = Start(c, sp, k) /\ End(t, c, sp, k) <= End(u, d, sp, k)
               /\ SamePlaces(t, u, g, h, sp, Start(c, sp, k), End(t, c, sp, k))
               /\ \A p \in End(t, c, sp, k) + 1 .. End(u, d, sp, k) : Local(u, sp)[p] \in h
    PROVE  Inherits(t, g, c, u, h, d, k)
<1>1. ASSUME NEW sp \in Spaces, NEW v \in Names
      PROVE  /\ LiveAt(u, h, d, k, sp, v) = LiveAt(t, g, c, k, sp, v)
             /\ \A p \in LiveAt(t, g, c, k, sp, v) :
                   LET i == Local(t, sp)[p]
                   IN Local(u, sp)[p] = i /\ u.sym[i].sym_scope = t.sym[i].sym_scope
  <2> DEFINE b == Start(c, sp, k)
             e == End(t, c, sp, k)
             f == End(u, d, sp, k)
  <2>1. /\ b \in Nat /\ e \in Nat /\ f \in Nat /\ e <= f
        /\ Start(d, sp, k) = b /\ SamePlaces(t, u, g, h, sp, b, e)
        /\ \A p \in e + 1 .. f : Local(u, sp)[p] \in h
    OBVIOUS
  <2> HIDE DEF b, e, f
  <2>2. ASSUME NEW p \in b + 1 .. e
        PROVE  Lives(u, h, sp, v, p) <=> Lives(t, g, sp, v, p)
    BY <2>1 DEF SamePlaces, Lives, Declares
  <2>3. \A p \in e + 1 .. f : ~Lives(u, h, sp, v, p) BY <2>1 DEF Lives
  <2>4. LiveAt(t, g, c, k, sp, v) = {p \in b + 1 .. e : Lives(t, g, sp, v, p)} BY DEF LiveAt, b, e
  <2>5. LiveAt(u, h, d, k, sp, v) = {p \in b + 1 .. f : Lives(u, h, sp, v, p)} BY <2>1 DEF LiveAt, f
  <2>6. LiveAt(u, h, d, k, sp, v) = LiveAt(t, g, c, k, sp, v)
    BY <2>1, <2>2, <2>3, <2>4, <2>5
  <2>7. ASSUME NEW p \in LiveAt(t, g, c, k, sp, v)
        PROVE  /\ Local(u, sp)[p] = Local(t, sp)[p]
               /\ u.sym[Local(t, sp)[p]].sym_scope = t.sym[Local(t, sp)[p]].sym_scope
    <3>1. p \in b + 1 .. e BY <2>4
    <3>2. QED BY <2>1, <3>1 DEF SamePlaces
  <2>8. QED BY <2>6, <2>7
<1>2. QED BY <1>1 DEF Inherits

\* Then names mean in the scope what they did,
LEMMA ScopeKept ==
    ASSUME NEW t, NEW g, NEW c, Tidy(t, g, c), NEW u, NEW h, NEW d, Tidy(u, h, d),
           NEW k \in 1 .. Len(c), k \in 1 .. Len(d), Inherits(t, g, c, u, h, d, k),
           NEW sp \in Spaces, NEW v \in Names,
           k + 1 = Home(sp) => \A i : FileWide(u, sp, v, i) <=> FileWide(t, sp, v, i)
    PROVE  DeclaredIn(u, h, d, k + 1, sp, v) = DeclaredIn(t, g, c, k + 1, sp, v)
<1> DEFINE i == DeclaredIn(t, g, c, k + 1, sp, v)
<1>1. Len(c) \in Nat /\ Len(d) \in Nat BY FramesParts DEF Tidy
<1>2. k + 1 \in 1 .. Len(c) + 1 /\ k + 1 \in 1 .. Len(d) + 1 /\ (k + 1) - 1 = k BY <1>1
<1>3. Means(t, g, c, k + 1, sp, v, i) BY <1>2, MeansIs
<1> HIDE DEF i
<1>4. /\ LiveAt(u, h, d, k, sp, v) = LiveAt(t, g, c, k, sp, v)
      /\ \A p \in LiveAt(t, g, c, k, sp, v) : Local(u, sp)[p] = Local(t, sp)[p]
  BY DEF Inherits
<1>5. Means(u, h, d, k + 1, sp, v, i) BY <1>2, <1>3, <1>4 DEF Means
<1>6. i = DeclaredIn(u, h, d, k + 1, sp, v) BY <1>2, <1>5, MeansIs
<1>7. QED BY <1>6 DEF i

\* and so in the file.
LEMMA FileKept ==
    ASSUME NEW t, NEW g, NEW c, Tidy(t, g, c), NEW u, NEW h, NEW d, Tidy(u, h, d),
           NEW sp \in Spaces, NEW v \in Names,
           Home(sp) = 1 => \A i : FileWide(u, sp, v, i) <=> FileWide(t, sp, v, i)
    PROVE  DeclaredIn(u, h, d, 1, sp, v) = DeclaredIn(t, g, c, 1, sp, v)
<1> DEFINE i == DeclaredIn(t, g, c, 1, sp, v)
<1>1. Len(c) \in Nat /\ Len(d) \in Nat BY FramesParts DEF Tidy
<1>2. 1 \in 1 .. Len(c) + 1 /\ 1 \in 1 .. Len(d) + 1 BY <1>1
<1>3. Means(t, g, c, 1, sp, v, i) BY <1>2, MeansIs
<1> HIDE DEF i
<1>4. Means(u, h, d, 1, sp, v, i) BY <1>3 DEF Means
<1>5. i = DeclaredIn(u, h, d, 1, sp, v) BY <1>2, <1>4, MeansIs
<1>6. QED BY <1>5 DEF i

\* ... and the scope stays orderly.
LEMMA ScopeOrderlyKept ==
    ASSUME NEW t, NEW g, NEW c, NEW u, NEW h, NEW d, NEW k, Inherits(t, g, c, u, h, d, k),
           ScopeOrderly(t, g, c, k),
           k = 1 => \A v \in Names :
               /\ LiveAt(t, g, c, 1, "label", v) # {}
               /\ \A q \in DOMAIN Global(t, "label") : ~Declares(t, Global(t, "label")[q], "label", v)
               => \A q \in DOMAIN Global(u, "label") : ~Declares(u, Global(u, "label")[q], "label", v)
    PROVE  ScopeOrderly(u, h, d, k)
<1>1. "ident" \in Spaces /\ "struct" \in Spaces /\ "label" \in Spaces BY DEF Spaces
<1>2. SUFFICES ASSUME NEW v \in Names
      PROVE
        /\ \A sp \in {"ident", "struct"} : \A p \in LiveAt(u, h, d, k, sp, v) :
              u.sym[Local(u, sp)[p]].sym_scope \in {0, k}
        /\ \A p, q \in LiveAt(u, h, d, k, "label", v) : p = q
        /\ LiveAt(u, h, d, k, "label", v) # {} =>
              /\ ~d[k].loop
              /\ k = 1 => \A q \in DOMAIN Global(u, "label") : ~Declares(u, Global(u, "label")[q], "label", v)
  BY DEF ScopeOrderly
<1>3. ASSUME NEW sp \in {"ident", "struct"}, NEW p \in LiveAt(u, h, d, k, sp, v)
      PROVE  u.sym[Local(u, sp)[p]].sym_scope \in {0, k}
  <2>1. /\ p \in LiveAt(t, g, c, k, sp, v) /\ Local(u, sp)[p] = Local(t, sp)[p]
        /\ u.sym[Local(t, sp)[p]].sym_scope = t.sym[Local(t, sp)[p]].sym_scope
    BY <1>1, <1>3 DEF Inherits
  <2>2. t.sym[Local(t, sp)[p]].sym_scope \in {0, k} BY <2>1 DEF ScopeOrderly
  <2>3. QED BY <2>1, <2>2
<1>4. LiveAt(u, h, d, k, "label", v) = LiveAt(t, g, c, k, "label", v) /\ d[k].loop = c[k].loop
  BY <1>1 DEF Inherits
<1>5. QED BY <1>3, <1>4 DEF ScopeOrderly

-----------------------------------------------------------------------------
(* A symbol is pushed                                                      *)

\* Labels of Scopes for tables t and kept symbols g
LabelsIn(t, g, r) == {i \in On(t) \ g : t.sym[i].sp = "label" /\ t.sym[i].r = r}

\* The labels are those that were there, and the new one.
Gains(t, u, g, i) ==
    \A r : LabelsIn(u, g, r) = IF u.sym[i].sp = "label" /\ u.sym[i].r = r THEN LabelsIn(t, g, r) \cup {i}
                               ELSE LabelsIn(t, g, r)

\* A symbol that is pushed joins the labels, if it is one.
LEMMA PushedLabels ==
    ASSUME NEW t \in Table, NEW u, NEW st \in Stacks, NEW i, Pushed(t, u, st, i),
           NEW g, GoneLocal(t, g)
    PROVE  Gains(t, u, g, i)
<1>1. u \in Table BY DEF Pushed
<1>2. i \notin g BY PushedGone
<1>3. \A j : j \in On(u) <=> j \in On(t) \/ j = i
  <2>1. ASSUME NEW j \in On(t) PROVE j \in On(u)
    <3>1. PICK st2 \in Stacks : \E p \in DOMAIN t.stack[st2] : j = t.stack[st2][p] BY OnStacks
    <3>2. PICK p \in DOMAIN t.stack[st2] : j = t.stack[st2][p] BY <3>1
    <3>3. p \in DOMAIN u.stack[st2] /\ u.stack[st2][p] = j BY <3>2 DEF Pushed
    <3>4. QED BY <1>1, <3>3, OnStacks
  <2>2. i \in On(u) BY <1>1, OnStacks DEF Pushed
  <2>3. ASSUME NEW j \in On(u), j # i PROVE j \in On(t)
    <3>1. PICK st2 \in Stacks : \E p \in DOMAIN u.stack[st2] : j = u.stack[st2][p] BY <1>1, OnStacks
    <3>2. PICK p \in DOMAIN u.stack[st2] : j = u.stack[st2][p] BY <3>1
    <3>3. p \in DOMAIN t.stack[st2] /\ j = t.stack[st2][p] BY <2>3, <3>2 DEF Pushed
    <3>4. QED BY <3>3, OnStacks
  <2>4. QED BY <2>1, <2>2, <2>3
<1>4. \A j \in On(t) : j # i /\ u.sym[j] = t.sym[j]
  <2>1. ASSUME NEW j \in On(t) PROVE j # i /\ u.sym[j] = t.sym[j]
    <3>1. PICK st2 \in Stacks : \E p \in DOMAIN t.stack[st2] : j = t.stack[st2][p] BY OnStacks
    <3>2. QED BY <3>1 DEF Pushed
  <2>2. QED BY <2>1
<1>5. ASSUME NEW r
      PROVE  LabelsIn(u, g, r) = IF u.sym[i].sp = "label" /\ u.sym[i].r = r THEN LabelsIn(t, g, r) \cup {i}
                                 ELSE LabelsIn(t, g, r)
  <2>1. \A j : j \in LabelsIn(u, g, r) <=>
                  j \in LabelsIn(t, g, r) \/ (j = i /\ u.sym[i].sp = "label" /\ u.sym[i].r = r)
    BY <1>2, <1>3, <1>4 DEF LabelsIn
  <2>2. QED BY <2>1
<1>6. QED BY <1>5 DEF Gains

\* What is kept stays so.
LEMMA PushedKept ==
    ASSUME NEW t \in Table, NEW u, NEW st \in Stacks, NEW i, Pushed(t, u, st, i),
           NEW g, GoneLocal(t, g), KeptOrderly(t, g), st = "local" => u.sym[i].sp # "label"
    PROVE  KeptOrderly(u, g)
<1>1. ASSUME NEW j \in g PROVE u.sym[j].sp = "label" => u.sym[j].r # "forward"
  <2>1. PICK sp \in Spaces : \E p \in DOMAIN Local(t, sp) : j = Local(t, sp)[p] BY DEF GoneLocal
  <2>2. LocalStack(sp) \in Stacks BY StackNames
  <2>3. u.sym[j] = t.sym[j] BY <2>1, <2>2 DEF Pushed, Local
  <2>4. QED BY <2>3 DEF KeptOrderly
<1>2. "local" \in Stacks BY DEF Stacks
<1>3. ASSUME NEW p \in DOMAIN u.stack["local"] PROVE u.sym[u.stack["local"][p]].sp # "label"
  <2>1. CASE p \in DOMAIN t.stack["local"] BY <1>2, <2>1 DEF Pushed, KeptOrderly
  <2>2. CASE p \notin DOMAIN t.stack["local"]
    <3>1. st = "local" /\ u.stack["local"][p] = i BY <1>2, <2>2 DEF Pushed
    <3>2. QED BY <3>1
  <2>3. QED BY <2>1, <2>2
<1>4. QED BY <1>1, <1>3 DEF KeptOrderly

\* Names mean globally what they did unless they are declared globally.
LEMMA PushedFileWide ==
    ASSUME NEW t \in Table, NEW u, NEW st \in Stacks, NEW i, Pushed(t, u, st, i),
           NEW sp \in Spaces, NEW v, st # GlobalStack(sp) \/ ~Declares(u, i, sp, v)
    PROVE  \A j : FileWide(u, sp, v, j) <=> FileWide(t, sp, v, j)
<1>1. /\ \A q \in DOMAIN Global(t, sp) :
             /\ q \in DOMAIN Global(u, sp) /\ Global(u, sp)[q] = Global(t, sp)[q]
             /\ u.sym[Global(t, sp)[q]] = t.sym[Global(t, sp)[q]]
      /\ \A q \in DOMAIN Global(u, sp) :
             q \in DOMAIN Global(t, sp) \/ (st = GlobalStack(sp) /\ Global(u, sp)[q] = i)
  BY PushedGlobal
<1>2. /\ \A q \in DOMAIN Global(t, sp) :
             /\ q \in DOMAIN Global(u, sp) /\ Global(u, sp)[q] = Global(t, sp)[q]
             /\ Declares(u, Global(t, sp)[q], sp, v) <=> Declares(t, Global(t, sp)[q], sp, v)
      /\ \A q \in DOMAIN Global(u, sp) :
             q \in DOMAIN Global(t, sp) \/ ~Declares(u, Global(u, sp)[q], sp, v)
  BY <1>1 DEF Declares
<1>3. QED BY <1>2, FileWideSame

\* The places of a local stack declare what they did.
LEMMA PushedPlaces ==
    ASSUME NEW t \in Table, NEW u, NEW st \in Stacks, NEW i, Pushed(t, u, st, i), NEW g,
           NEW sp \in Spaces, NEW b \in Nat, NEW e \in Nat, e <= Len(Local(t, sp))
    PROVE  SamePlaces(t, u, g, g, sp, b, e)
<1>1. SameLocal(t, u, sp) BY PushedLocal
<1>2. Len(Local(t, sp)) \in Nat BY LocalParts
<1>3. \A p \in b + 1 .. e : p \in 1 .. Len(Local(t, sp)) BY <1>2
<1>4. QED BY <1>1, <1>3 DEF SameLocal, SamePlaces

\* A scope in which nothing is declared is what it was.
LEMMA PushedInherits ==
    ASSUME NEW t, NEW g, NEW c, Tidy(t, g, c), NEW u, Frames(u, c),
           NEW st \in Stacks, NEW i, Pushed(t, u, st, i), NEW k \in 1 .. Len(c),
           k < Len(c) \/ st \notin {"local", "local_label"}
    PROVE  Inherits(t, g, c, u, g, c, k)
<1>1. t \in Table /\ Frames(t, c) /\ u \in Table BY DEF Tidy, Sound, Pushed
<1>2. ASSUME NEW sp \in Spaces
      PROVE  /\ Start(c, sp, k) \in Nat /\ End(t, c, sp, k) \in Nat /\ End(u, c, sp, k) = End(t, c, sp, k)
             /\ SamePlaces(t, u, g, g, sp, Start(c, sp, k), End(t, c, sp, k))
  <2>1. /\ Start(c, sp, k) \in Nat /\ End(t, c, sp, k) \in Nat
        /\ End(t, c, sp, k) <= Len(Local(t, sp))
    BY <1>1, ScopeLies
  <2>2. SamePlaces(t, u, g, g, sp, Start(c, sp, k), End(t, c, sp, k))
    BY <1>1, <2>1, PushedPlaces
  <2>3. st \notin {"local", "local_label"} => Len(Local(u, sp)) = Len(Local(t, sp))
    BY <1>1, PushedLocal, StackNames
  <2>4. k < Len(c) => k # Len(c) OBVIOUS
  <2>5. End(u, c, sp, k) = End(t, c, sp, k) BY <2>3, <2>4 DEF End
  <2>6. QED BY <2>1, <2>2, <2>5
<1>3. ASSUME NEW sp \in Spaces
      PROVE  /\ Start(c, sp, k) \in Nat /\ End(t, c, sp, k) \in Nat /\ End(u, c, sp, k) \in Nat
             /\ Start(c, sp, k) = Start(c, sp, k) /\ End(t, c, sp, k) <= End(u, c, sp, k)
             /\ SamePlaces(t, u, g, g, sp, Start(c, sp, k), End(t, c, sp, k))
             /\ \A p \in End(t, c, sp, k) + 1 .. End(u, c, sp, k) : Local(u, sp)[p] \in g
  BY <1>2
<1>4. QED BY <1>3, Inherited

\* The declarations of u are those of t, and i of v0 in scope k0 of Environment.
Adds(t, u, g, c, k0, sp0, v0, i) ==
    \A k \in 1 .. Len(c) + 1, sp \in Spaces, v \in Names :
        DeclaredIn(u, g, c, k, sp, v) =
            IF k = k0 /\ sp = sp0 /\ v = v0 THEN i ELSE DeclaredIn(t, g, c, k, sp, v)

\* The places of the innermost scope after a local declaration
LEMMA PushedTop ==
    ASSUME NEW t, NEW g, NEW c, Tidy(t, g, c), NEW u, Tidy(u, g, c), Len(c) > 0,
           NEW sp0 \in {"ident", "struct"}, NEW v0 \in Names, NEW i,
           Pushed(t, u, "local", i), Declares(u, i, sp0, v0),
           NEW sp \in Spaces, NEW v \in Names
    PROVE  /\ \A p \in LiveAt(t, g, c, Len(c), sp, v) :
                 LET j == Local(t, sp)[p]
                 IN p <= Len(Local(t, sp)) /\ Local(u, sp)[p] = j /\ u.sym[j].sym_scope = t.sym[j].sym_scope
           /\ sp = sp0 /\ v = v0 =>
                 /\ Local(u, sp)[Len(Local(t, sp)) + 1] = i
                 /\ LiveAt(u, g, c, Len(c), sp, v) =
                       LiveAt(t, g, c, Len(c), sp, v) \cup {Len(Local(t, sp)) + 1}
           /\ ~(sp = sp0 /\ v = v0) => LiveAt(u, g, c, Len(c), sp, v) = LiveAt(t, g, c, Len(c), sp, v)
<1> DEFINE k == Len(c)
           n == Len(Local(t, sp))
           b == Start(c, sp, k)
<1>1. t \in Table /\ Frames(t, c) /\ u \in Table /\ Frames(u, c) /\ GoneLocal(t, g)
  BY DEF Tidy, Sound
<1>2. /\ n \in Nat /\ b \in Nat /\ b <= n /\ End(t, c, sp, k) = n
      /\ End(u, c, sp, k) = Len(Local(u, sp))
  <2>1. k \in 1 .. Len(c) BY <1>1, ScopeLies
  <2>2. QED BY <1>1, <2>1, ScopeLies
<1>3. "local" \in Stacks BY DEF Stacks
<1>4. SamePlaces(t, u, g, g, sp, b, n) BY <1>1, <1>2, <1>3, PushedPlaces
<1>5. i \notin g BY <1>1, <1>3, PushedGone
<1>6. Len(Local(u, sp)) = IF "local" = LocalStack(sp) THEN n + 1 ELSE n BY <1>1, <1>3, PushedLocal
<1>7. LocalStack(sp) = "local" => Local(u, sp)[n + 1] = i BY <1>3 DEF Pushed, Local
<1>8. sp = sp0 => LocalStack(sp) = "local" BY DEF LocalStack
<1>9. LiveAt(t, g, c, k, sp, v) = {p \in b + 1 .. n : Lives(t, g, sp, v, p)} BY <1>2 DEF LiveAt
<1>10. LiveAt(u, g, c, k, sp, v) = {p \in b + 1 .. Len(Local(u, sp)) : Lives(u, g, sp, v, p)}
  BY <1>2 DEF LiveAt
<1> HIDE DEF n, b
<1>11. \A p \in b + 1 .. n : Lives(u, g, sp, v, p) <=> Lives(t, g, sp, v, p)
  BY <1>4 DEF SamePlaces, Lives, Declares
<1>12. LocalStack(sp) = "local" => (Lives(u, g, sp, v, n + 1) <=> sp = sp0 /\ v = v0)
  BY <1>5, <1>7 DEF Lives, Declares
<1>13. ASSUME NEW p \in LiveAt(t, g, c, k, sp, v)
       PROVE  LET j == Local(t, sp)[p]
              IN p <= n /\ Local(u, sp)[p] = j /\ u.sym[j].sym_scope = t.sym[j].sym_scope
  <2>1. p \in b + 1 .. n BY <1>9
  <2>2. QED BY <1>2, <1>4, <2>1 DEF SamePlaces
<1>14. CASE LocalStack(sp) = "local"
  <2>1. \A p : p \in b + 1 .. n + 1 <=> p \in b + 1 .. n \/ p = n + 1 BY <1>2
  <2>2. ASSUME NEW p
        PROVE  p \in LiveAt(u, g, c, k, sp, v)
                 <=> p \in LiveAt(t, g, c, k, sp, v) \/ (p = n + 1 /\ sp = sp0 /\ v = v0)
    <3>1. p \in LiveAt(u, g, c, k, sp, v) <=> p \in b + 1 .. n + 1 /\ Lives(u, g, sp, v, p)
      BY <1>6, <1>10, <1>14
    <3>2. QED BY <1>9, <1>11, <1>12, <1>14, <2>1, <3>1
  <2>3. QED BY <1>7, <1>13, <1>14, <2>2 DEF n
<1>15. CASE LocalStack(sp) # "local"
  <2>1. LiveAt(u, g, c, k, sp, v) = LiveAt(t, g, c, k, sp, v) BY <1>6, <1>9, <1>10, <1>11, <1>15
  <2>2. QED BY <1>8, <1>13, <1>15, <2>1 DEF n
<1>16. QED BY <1>14, <1>15

\* A declaration in the innermost scope: names mean elsewhere what they did.
LEMMA LocalAdds ==
    ASSUME NEW t, NEW g, NEW c, Tidy(t, g, c), NEW u, Tidy(u, g, c), Len(c) > 0,
           NEW sp0 \in {"ident", "struct"}, NEW v0 \in Names, NEW i,
           Pushed(t, u, "local", i), Declares(u, i, sp0, v0)
    PROVE  Adds(t, u, g, c, Len(c) + 1, sp0, v0, i)
<1> SUFFICES ASSUME NEW k \in 1 .. Len(c) + 1, NEW sp \in Spaces, NEW v \in Names
             PROVE  DeclaredIn(u, g, c, k, sp, v) =
                       IF k = Len(c) + 1 /\ sp = sp0 /\ v = v0 THEN i ELSE DeclaredIn(t, g, c, k, sp, v)
  BY DEF Adds
<1>1. t \in Table /\ Frames(u, c) /\ "local" \in Stacks BY DEF Tidy, Sound, Stacks
<1>2. Len(c) \in Nat /\ Len(c) \in 1 .. Len(c) BY FramesParts DEF Tidy
<1>3. "local" # GlobalStack(sp) BY DEF GlobalStack
<1>4. \A j : FileWide(u, sp, v, j) <=> FileWide(t, sp, v, j) BY <1>1, <1>3, PushedFileWide
<1>5. CASE k = 1 BY <1>2, <1>4, <1>5, FileKept
<1>6. CASE k \in 2 .. Len(c)
  <2> DEFINE m == k - 1
  <2>1. m \in 1 .. Len(c) /\ m < Len(c) /\ k = m + 1 /\ k # Len(c) + 1 BY <1>2, <1>6
  <2> HIDE DEF m
  <2>2. Inherits(t, g, c, u, g, c, m) BY <1>1, <2>1, PushedInherits
  <2>3. DeclaredIn(u, g, c, m + 1, sp, v) = DeclaredIn(t, g, c, m + 1, sp, v)
    BY <1>4, <2>1, <2>2, ScopeKept
  <2>4. QED BY <2>1, <2>3
<1>7. CASE k = Len(c) + 1
  <2> DEFINE T == LiveAt(t, g, c, Len(c), sp, v)
             U == LiveAt(u, g, c, Len(c), sp, v)
             n == Len(Local(t, sp))
             old == DeclaredIn(t, g, c, k, sp, v)
  <2>1. /\ \A p \in T : p <= n /\ Local(u, sp)[p] = Local(t, sp)[p]
        /\ sp = sp0 /\ v = v0 => Local(u, sp)[n + 1] = i /\ U = T \cup {n + 1}
        /\ ~(sp = sp0 /\ v = v0) => U = T
    BY PushedTop
  <2>2. n \in Nat /\ \A p \in T : p \in Int
    <3>1. n \in Nat BY <1>1, LocalParts
    <3>2. QED BY <3>1 DEF LiveAt
  <2>3. Means(t, g, c, k, sp, v, old) BY MeansIs
  <2>4. k > 1 /\ k - 1 = Len(c) BY <1>2, <1>7
  <2> HIDE DEF T, U, n, old
  <2>5. CASE sp = sp0 /\ v = v0
    <3>1. n + 1 \in U /\ i = Local(u, sp)[n + 1] /\ \A p \in U : p <= n + 1 BY <2>1, <2>2, <2>5
    <3>2. Means(u, g, c, k, sp, v, i) BY <2>4, <3>1 DEF Means, U
    <3>3. QED BY <1>7, <2>5, <3>2, MeansIs
  <2>6. CASE ~(sp = sp0 /\ v = v0)
    <3>1. Means(u, g, c, k, sp, v, old) BY <1>4, <2>1, <2>3, <2>4, <2>6 DEF Means, T, U
    <3>2. old = DeclaredIn(u, g, c, k, sp, v) BY <3>1, MeansIs
    <3>3. QED BY <2>6, <3>2 DEF old
  <2>7. QED BY <2>5, <2>6
<1>8. QED BY <1>2, <1>5, <1>6, <1>7

\* ... and the scopes stay orderly.
LEMMA LocalOrderly ==
    ASSUME NEW t, NEW g, NEW c, Tidy(t, g, c), Orderly(t, g, c), NEW u, Tidy(u, g, c), Len(c) > 0,
           NEW sp0 \in {"ident", "struct"}, NEW v0 \in Names, NEW i,
           Pushed(t, u, "local", i), Declares(u, i, sp0, v0), u.sym[i].sym_scope \in {0, Len(c)}
    PROVE  Orderly(u, g, c)
<1>1. /\ t \in Table /\ Frames(u, c) /\ "local" \in Stacks /\ GoneLocal(t, g)
      /\ "label" \in Spaces /\ sp0 # "label"
  BY DEF Tidy, Sound, Stacks, Spaces
<1>2. Len(c) \in Nat /\ Len(c) \in 1 .. Len(c) BY FramesParts DEF Tidy
<1>3. KeptOrderly(u, g) BY <1>1, PushedKept DEF Orderly, Declares
<1>4. \A q \in DOMAIN Global(u, "label") :
         /\ q \in DOMAIN Global(t, "label") /\ Global(u, "label")[q] = Global(t, "label")[q]
         /\ u.sym[Global(t, "label")[q]] = t.sym[Global(t, "label")[q]]
  <2>1. "local" # GlobalStack("label") BY DEF GlobalStack
  <2>2. QED BY <1>1, <2>1, PushedGlobal
<1>5. ASSUME NEW v, \A q \in DOMAIN Global(t, "label") : ~Declares(t, Global(t, "label")[q], "label", v)
      PROVE  \A q \in DOMAIN Global(u, "label") : ~Declares(u, Global(u, "label")[q], "label", v)
  BY <1>4, <1>5 DEF Declares
<1>6. ASSUME NEW k \in 1 .. Len(c) PROVE ScopeOrderly(u, g, c, k)
  <2>1. ScopeOrderly(t, g, c, k) BY DEF Orderly
  <2>2. CASE k < Len(c)
    <3>1. Inherits(t, g, c, u, g, c, k) BY <1>1, <2>2, PushedInherits
    <3>2. QED BY <1>5, <2>1, <3>1, ScopeOrderlyKept
  <2>3. CASE k = Len(c)
    <3>1. ASSUME NEW v \in Names, NEW sp \in {"ident", "struct"}, NEW p \in LiveAt(u, g, c, k, sp, v)
          PROVE  u.sym[Local(u, sp)[p]].sym_scope \in {0, k}
      <4>1. sp \in Spaces BY DEF Spaces
      <4>2. /\ \A q \in LiveAt(t, g, c, k, sp, v) :
                  LET j == Local(t, sp)[q]
                  IN Local(u, sp)[q] = j /\ u.sym[j].sym_scope = t.sym[j].sym_scope
            /\ sp = sp0 /\ v = v0 =>
                  /\ Local(u, sp)[Len(Local(t, sp)) + 1] = i
                  /\ LiveAt(u, g, c, k, sp, v) =
                        LiveAt(t, g, c, k, sp, v) \cup {Len(Local(t, sp)) + 1}
            /\ ~(sp = sp0 /\ v = v0) => LiveAt(u, g, c, k, sp, v) = LiveAt(t, g, c, k, sp, v)
        BY <2>3, <4>1, PushedTop
      <4>3. CASE p \in LiveAt(t, g, c, k, sp, v)
        <5>1. t.sym[Local(t, sp)[p]].sym_scope \in {0, k} BY <2>1, <4>3 DEF ScopeOrderly
        <5>2. QED BY <4>2, <4>3, <5>1
      <4>4. CASE p \notin LiveAt(t, g, c, k, sp, v)
        <5>1. Local(u, sp)[p] = i BY <3>1, <4>2, <4>4
        <5>2. QED BY <2>3, <5>1
      <4>5. QED BY <4>3, <4>4
    <3>2. \A v \in Names : LiveAt(u, g, c, k, "label", v) = LiveAt(t, g, c, k, "label", v)
      BY <1>1, <2>3, PushedTop
    <3>3. QED BY <1>5, <2>1, <3>1, <3>2 DEF ScopeOrderly
  <2>4. QED BY <1>2, <2>2, <2>3
<1>7. QED BY <1>2, <1>3, <1>6 DEF Orderly

\* A name that means nothing is not declared in any scope.
LEMMA NothingLives ==
    ASSUME NEW t, NEW g, NEW c, Tidy(t, g, c), NEW sp \in Spaces, NEW v \in Names,
           t.head[sp][v] = NULL, NEW k \in 1 .. Len(c)
    PROVE  LiveAt(t, g, c, k, sp, v) = {}
<1>1. t \in Table /\ Frames(t, c) /\ Sound(t, g, Begins(c)) BY DEF Tidy, Sound
<1>2. /\ Start(c, sp, k) \in Nat /\ End(t, c, sp, k) \in Nat /\ Len(Local(t, sp)) \in Nat
      /\ End(t, c, sp, k) <= Len(Local(t, sp))
  BY <1>1, ScopeLies
<1>3. NoneLives(t, g, sp, v, 1, Len(Local(t, sp))) BY <1>1, Undeclared
<1>4. \A p \in Start(c, sp, k) + 1 .. End(t, c, sp, k) : p \in 1 .. Len(Local(t, sp)) BY <1>2
<1>5. QED BY <1>3, <1>4 DEF NoneLives, LiveAt

\* A declaration in the file, or of a label of the function, of a name that means
\* nothing: other names mean what they did.
LEMMA GlobalAdds ==
    ASSUME NEW t, NEW g, NEW c, Tidy(t, g, c), NEW u, Tidy(u, g, c),
           NEW sp0 \in Spaces, NEW v0 \in Names, NEW i,
           NEW st, st = GlobalStack(sp0), Pushed(t, u, st, i), Declares(u, i, sp0, v0), t.head[sp0][v0] = NULL
    PROVE  Adds(t, u, g, c, Home(sp0), sp0, v0, i)
<1> SUFFICES ASSUME NEW k \in 1 .. Len(c) + 1, NEW sp \in Spaces, NEW v \in Names
             PROVE  DeclaredIn(u, g, c, k, sp, v) =
                       IF k = Home(sp0) /\ sp = sp0 /\ v = v0 THEN i ELSE DeclaredIn(t, g, c, k, sp, v)
  BY DEF Adds
<1>1. t \in Table /\ Frames(u, c) /\ st \in Stacks /\ st \notin {"local", "local_label"}
  BY StackNames DEF Tidy, Sound
<1>2. Len(c) \in Nat BY FramesParts DEF Tidy
<1>3. \A m \in 1 .. Len(c) : Inherits(t, g, c, u, g, c, m) BY <1>1, PushedInherits
<1>4. CASE k = Home(sp0) /\ sp = sp0 /\ v = v0
  <2>1. k > 1 => LiveAt(u, g, c, k - 1, sp, v) = {}
    <3>1. SUFFICES ASSUME k > 1 PROVE LiveAt(u, g, c, k - 1, sp, v) = {} OBVIOUS
    <3>2. k - 1 \in 1 .. Len(c) BY <1>2, <3>1
    <3>3. LiveAt(t, g, c, k - 1, sp, v) = {} BY <1>4, <3>2, NothingLives
    <3>4. QED BY <1>3, <3>2, <3>3 DEF Inherits
  <2>2. \E q \in DOMAIN Global(u, sp) : Global(u, sp)[q] = i
    <3>1. st = GlobalStack(sp) BY <1>4
    <3>2. t \in Table /\ st \in Stacks BY <1>1
    <3>3. /\ Len(t.stack[st]) + 1 \in DOMAIN Global(u, sp)
          /\ Global(u, sp)[Len(t.stack[st]) + 1] = i
      BY <3>1 DEF Pushed, Global
    <3>4. QED BY <3>3
  <2>3. FileWide(u, sp, v, i) BY <1>4, <2>2 DEF FileWide
  <2>4. Means(u, g, c, k, sp, v, i) BY <1>4, <2>1, <2>3 DEF Means
  <2>5. QED BY <1>4, <2>4, MeansIs
<1>5. CASE ~(k = Home(sp0) /\ sp = sp0 /\ v = v0)
  <2>1. k = Home(sp) => \A j : FileWide(u, sp, v, j) <=> FileWide(t, sp, v, j)
    <3>1. SUFFICES ASSUME k = Home(sp) PROVE \A j : FileWide(u, sp, v, j) <=> FileWide(t, sp, v, j)
      OBVIOUS
    <3>2. ~Declares(u, i, sp, v) BY <1>5, <3>1 DEF Declares
    <3>3. QED BY <1>1, <3>2, PushedFileWide
  <2>2. CASE k = 1
    <3>1. Home(sp) = 1 => \A j : FileWide(u, sp, v, j) <=> FileWide(t, sp, v, j) BY <2>1, <2>2
    <3>2. DeclaredIn(u, g, c, 1, sp, v) = DeclaredIn(t, g, c, 1, sp, v) BY <3>1, FileKept
    <3>3. QED BY <1>5, <2>2, <3>2
  <2>3. CASE k # 1
    <3> DEFINE m == k - 1
    <3>1. m \in 1 .. Len(c) /\ k = m + 1 BY <1>2, <2>3
    <3> HIDE DEF m
    <3>2. DeclaredIn(u, g, c, m + 1, sp, v) = DeclaredIn(t, g, c, m + 1, sp, v)
      BY <1>3, <2>1, <3>1, ScopeKept
    <3>3. QED BY <1>5, <3>1, <3>2
  <2>4. QED BY <2>2, <2>3
<1>6. QED BY <1>4, <1>5

\* ... and the scopes stay orderly.
LEMMA GlobalOrderly ==
    ASSUME NEW t, NEW g, NEW c, Tidy(t, g, c), Orderly(t, g, c), NEW u, Tidy(u, g, c),
           NEW sp0 \in Spaces, NEW v0 \in Names, NEW i,
           NEW st, st = GlobalStack(sp0), Pushed(t, u, st, i), Declares(u, i, sp0, v0), t.head[sp0][v0] = NULL,
           sp0 = "label" => Len(c) > 0
    PROVE  Orderly(u, g, c)
<1>1. /\ t \in Table /\ Frames(u, c) /\ GoneLocal(t, g) /\ Sound(t, g, Begins(c))
      /\ st \in Stacks /\ st \notin {"local", "local_label"}
  BY StackNames DEF Tidy, Sound
<1>2. Len(c) \in Nat BY FramesParts DEF Tidy
<1>3. KeptOrderly(u, g) BY <1>1, PushedKept DEF Orderly
<1>4. Len(c) = 0 => Len(Global(u, "label")) = 0
  <2>1. SUFFICES ASSUME Len(c) = 0 PROVE Len(Global(u, "label")) = 0 OBVIOUS
  <2>2. sp0 # "label" /\ Len(Global(t, "label")) = 0 BY <2>1 DEF Orderly
  <2>3. GlobalStack("label") = "global_label" /\ GlobalStack(sp0) = "global" /\ "global_label" \in Stacks
    BY <2>2 DEF GlobalStack, Stacks
  <2>4. QED BY <2>2, <2>3 DEF Pushed, Global
<1>5. "label" \in Spaces BY DEF Spaces
<1>6. /\ \A q \in DOMAIN Global(t, "label") :
             /\ q \in DOMAIN Global(u, "label") /\ Global(u, "label")[q] = Global(t, "label")[q]
             /\ u.sym[Global(t, "label")[q]] = t.sym[Global(t, "label")[q]]
      /\ \A q \in DOMAIN Global(u, "label") :
             q \in DOMAIN Global(t, "label") \/ (st = GlobalStack("label") /\ Global(u, "label")[q] = i)
  <2>1. t \in Table /\ st \in Stacks BY <1>1
  <2>2. QED BY <1>5, <2>1, PushedGlobal
<1>7. ASSUME NEW k \in 1 .. Len(c) PROVE ScopeOrderly(u, g, c, k)
  <2>1. ScopeOrderly(t, g, c, k) BY DEF Orderly
  <2>2. Inherits(t, g, c, u, g, c, k) BY <1>1, PushedInherits
  <2>3. ASSUME k = 1, NEW v \in Names, LiveAt(t, g, c, 1, "label", v) # {},
               \A q \in DOMAIN Global(t, "label") : ~Declares(t, Global(t, "label")[q], "label", v)
        PROVE  \A q \in DOMAIN Global(u, "label") : ~Declares(u, Global(u, "label")[q], "label", v)
    <3>1. 1 \in 1 .. Len(c) BY <1>2, <1>7
    <3>2. t.head["label"][v] # NULL BY <1>5, <2>3, <3>1, NothingLives
    <3>3. ~Declares(u, i, "label", v) BY <3>2 DEF Declares
    <3>4. QED BY <1>6, <2>3, <3>3 DEF Declares
  <2>4. QED BY <2>1, <2>2, <2>3, ScopeOrderlyKept
<1>8. QED BY <1>2, <1>3, <1>4, <1>7 DEF Orderly

-----------------------------------------------------------------------------
(* A symbol gets another meaning                                           *)

\* What a name means is on a stack and in scope.
LEMMA HeadLives ==
    ASSUME NEW t, NEW g, NEW c, Tidy(t, g, c), NEW sp \in Spaces, NEW v \in Names, NEW i,
           i = t.head[sp][v], i # NULL
    PROVE  i \in Syms /\ i \in On(t) \ g /\ Declares(t, i, sp, v)
<1>1. t \in Table /\ Sound(t, g, Begins(c)) BY DEF Tidy, Sound
<1>2. LocalStack(sp) \in Stacks /\ GlobalStack(sp) \in Stacks BY StackNames
<1>3. /\ DOMAIN Local(t, sp) = 1 .. Len(Local(t, sp))
      /\ DOMAIN Global(t, sp) = 1 .. Len(Global(t, sp))
      /\ \A p \in 1 .. Len(Global(t, sp)) : Global(t, sp)[p] \in Syms
  BY <1>1, LocalParts
<1>4. Visible(t, g, sp, v, Len(Local(t, sp)), i) BY <1>1 DEF Sound, Heads
<1>5. CASE \E q \in 1 .. Len(Local(t, sp)) : i = Local(t, sp)[q] /\ Lives(t, g, sp, v, q)
  <2>1. PICK q \in DOMAIN Local(t, sp) : i = Local(t, sp)[q] /\ Lives(t, g, sp, v, q) BY <1>3, <1>5
  <2>2. i \in On(t) /\ i \in Syms BY <1>1, <1>2, <2>1, OnStacks DEF Local
  <2>3. QED BY <2>1, <2>2 DEF Lives
<1>6. CASE FileWide(t, sp, v, i)
  <2>1. PICK q \in DOMAIN Global(t, sp) : i = Global(t, sp)[q] /\ Declares(t, i, sp, v)
    BY <1>6 DEF FileWide
  <2>2. i \in On(t) /\ i \in Syms BY <1>1, <1>2, <2>1, OnStacks DEF Global
  <2>3. i \notin g BY <1>1, <2>1, GlobalNotGone
  <2>4. QED BY <2>1, <2>2, <2>3
<1>7. QED BY <1>4, <1>5, <1>6 DEF Visible

\* u is t with another meaning r of symbol i.
Retyped(t, u, i, r) ==
    /\ u \in Table
    /\ \A st \in Stacks : u.stack[st] = t.stack[st]
    /\ u.head = t.head
    /\ \A j \in Syms : /\ u.sym[j].v = t.sym[j].v /\ u.sym[j].sp = t.sym[j].sp
                       /\ u.sym[j].sym_scope = t.sym[j].sym_scope
                       /\ u.sym[j].r = IF j = i THEN r ELSE t.sym[j].r

\* What another meaning of a symbol changes
LEMMA RetypeIs ==
    ASSUME NEW t \in Table, NEW i \in Syms, NEW r \in Meanings, NEW u, u = [t EXCEPT !.sym[i].r = r]
    PROVE  Retyped(t, u, i, r)
<1>1. t.sym \in [Syms -> SymType] /\ t.stack \in [Stacks -> Seq(Syms)]
      /\ t.head \in [Spaces -> [Names -> Syms \cup {NULL}]]
  BY DEF Table
<1>2. u.stack = t.stack /\ u.head = t.head /\ u.sym = [t.sym EXCEPT ![i].r = r] BY DEF Table
<1>3. \A s \in SymType :
         /\ [s EXCEPT !.r = r] \in SymType
         /\ [s EXCEPT !.r = r].v = s.v /\ [s EXCEPT !.r = r].sp = s.sp
         /\ [s EXCEPT !.r = r].sym_scope = s.sym_scope /\ [s EXCEPT !.r = r].r = r
  BY SymFields
<1>4. u.sym[i] = [t.sym[i] EXCEPT !.r = r] /\ t.sym[i] \in SymType BY <1>1, <1>2
<1>5. \A j \in Syms \ {i} : u.sym[j] = t.sym[j] BY <1>1, <1>2
<1>6. u.sym \in [Syms -> SymType] BY <1>1, <1>2, <1>3, <1>4
<1>7. u \in Table BY <1>1, <1>2, <1>6 DEF Table
<1>8. /\ u.sym[i].v = t.sym[i].v /\ u.sym[i].sp = t.sym[i].sp
      /\ u.sym[i].sym_scope = t.sym[i].sym_scope /\ u.sym[i].r = r
  BY <1>3, <1>4
<1>9. \A j \in Syms : /\ u.sym[j].v = t.sym[j].v /\ u.sym[j].sp = t.sym[j].sp
                       /\ u.sym[j].sym_scope = t.sym[j].sym_scope
                       /\ u.sym[j].r = IF j = i THEN r ELSE t.sym[j].r
  BY <1>5, <1>8
<1>10. QED BY <1>2, <1>7, <1>9 DEF Retyped

\* The scopes do not depend on it.
LEMMA RetypeScopes ==
    ASSUME NEW t, NEW g, NEW c, Tidy(t, g, c), NEW u, Tidy(u, g, c), NEW i, NEW r, Retyped(t, u, i, r)
    PROVE  /\ \A k \in 1 .. Len(c) : Inherits(t, g, c, u, g, c, k)
           /\ \A sp \in Spaces, v \in Names :
                 /\ \A q : q \in DOMAIN Global(u, sp) <=> q \in DOMAIN Global(t, sp)
                 /\ \A q \in DOMAIN Global(t, sp) :
                       /\ Global(u, sp)[q] = Global(t, sp)[q]
                       /\ Declares(u, Global(t, sp)[q], sp, v) <=> Declares(t, Global(t, sp)[q], sp, v)
<1>1. t \in Table /\ Frames(t, c) /\ u \in Table /\ Frames(u, c) BY DEF Tidy, Sound
<1>2. ASSUME NEW sp \in Spaces
      PROVE  /\ Local(u, sp) = Local(t, sp) /\ Global(u, sp) = Global(t, sp)
             /\ \A p \in 1 .. Len(Local(t, sp)) : Local(t, sp)[p] \in Syms
             /\ \A p \in DOMAIN Global(t, sp) : Global(t, sp)[p] \in Syms
  BY <1>1, LocalParts, StackNames DEF Retyped, Local, Global
<1>3. ASSUME NEW k \in 1 .. Len(c) PROVE Inherits(t, g, c, u, g, c, k)
  <2>1. ASSUME NEW sp \in Spaces
        PROVE  /\ Start(c, sp, k) \in Nat /\ End(t, c, sp, k) \in Nat /\ End(u, c, sp, k) \in Nat
               /\ Start(c, sp, k) = Start(c, sp, k) /\ End(t, c, sp, k) <= End(u, c, sp, k)
               /\ SamePlaces(t, u, g, g, sp, Start(c, sp, k), End(t, c, sp, k))
               /\ \A p \in End(t, c, sp, k) + 1 .. End(u, c, sp, k) : Local(u, sp)[p] \in g
    <3>1. /\ Start(c, sp, k) \in Nat /\ End(t, c, sp, k) \in Nat
          /\ End(t, c, sp, k) <= Len(Local(t, sp)) /\ Len(Local(t, sp)) \in Nat
      BY <1>1, ScopeLies
    <3>2. End(u, c, sp, k) = End(t, c, sp, k) BY <1>2 DEF End
    <3>3. \A p \in Start(c, sp, k) + 1 .. End(t, c, sp, k) : p \in 1 .. Len(Local(t, sp)) BY <3>1
    <3>4. SamePlaces(t, u, g, g, sp, Start(c, sp, k), End(t, c, sp, k))
      BY <1>2, <3>3 DEF SamePlaces, Retyped
    <3>5. QED BY <3>1, <3>2, <3>4
  <2>2. QED BY <2>1, Inherited
<1>4. ASSUME NEW sp \in Spaces, NEW v \in Names
      PROVE  /\ \A q : q \in DOMAIN Global(u, sp) <=> q \in DOMAIN Global(t, sp)
             /\ \A q \in DOMAIN Global(t, sp) :
                   /\ Global(u, sp)[q] = Global(t, sp)[q]
                   /\ Declares(u, Global(t, sp)[q], sp, v) <=> Declares(t, Global(t, sp)[q], sp, v)
  BY <1>2 DEF Retyped, Declares
<1>5. QED BY <1>3, <1>4

\* The same scopes and the same global symbols declare the same.
LEMMA SameDeclared ==
    ASSUME NEW t, NEW g, NEW c, Tidy(t, g, c), NEW u, Tidy(u, g, c),
           \A k \in 1 .. Len(c) : Inherits(t, g, c, u, g, c, k),
           \A sp \in Spaces, v \in Names :
                 /\ \A q : q \in DOMAIN Global(u, sp) <=> q \in DOMAIN Global(t, sp)
                 /\ \A q \in DOMAIN Global(t, sp) :
                       /\ Global(u, sp)[q] = Global(t, sp)[q]
                       /\ Declares(u, Global(t, sp)[q], sp, v) <=> Declares(t, Global(t, sp)[q], sp, v)
    PROVE  \A k \in 1 .. Len(c) + 1, sp \in Spaces, v \in Names :
               DeclaredIn(u, g, c, k, sp, v) = DeclaredIn(t, g, c, k, sp, v)
<1> SUFFICES ASSUME NEW k \in 1 .. Len(c) + 1, NEW sp \in Spaces, NEW v \in Names
             PROVE  DeclaredIn(u, g, c, k, sp, v) = DeclaredIn(t, g, c, k, sp, v)
  OBVIOUS
<1>1. Len(c) \in Nat BY FramesParts DEF Tidy
<1>2. \A j : FileWide(u, sp, v, j) <=> FileWide(t, sp, v, j)
  <2>1. /\ \A q \in DOMAIN Global(t, sp) :
               /\ q \in DOMAIN Global(u, sp) /\ Global(u, sp)[q] = Global(t, sp)[q]
               /\ Declares(u, Global(t, sp)[q], sp, v) <=> Declares(t, Global(t, sp)[q], sp, v)
        /\ \A q \in DOMAIN Global(u, sp) :
               q \in DOMAIN Global(t, sp) \/ ~Declares(u, Global(u, sp)[q], sp, v)
    OBVIOUS
  <2>2. QED BY <2>1, FileWideSame
<1>3. CASE k = 1 BY <1>2, <1>3, FileKept
<1>4. CASE k # 1
  <2> DEFINE m == k - 1
  <2>1. m \in 1 .. Len(c) /\ k = m + 1 BY <1>1, <1>4
  <2> HIDE DEF m
  <2>2. DeclaredIn(u, g, c, m + 1, sp, v) = DeclaredIn(t, g, c, m + 1, sp, v) BY <1>2, <2>1, ScopeKept
  <2>3. QED BY <2>1, <2>2
<1>5. QED BY <1>3, <1>4

\* So names mean what they did.
LEMMA RetypeDeclared ==
    ASSUME NEW t, NEW g, NEW c, Tidy(t, g, c), NEW u, Tidy(u, g, c), NEW i, NEW r, Retyped(t, u, i, r)
    PROVE  \A k \in 1 .. Len(c) + 1, sp \in Spaces, v \in Names :
               DeclaredIn(u, g, c, k, sp, v) = DeclaredIn(t, g, c, k, sp, v)
<1>1. /\ \A k \in 1 .. Len(c) : Inherits(t, g, c, u, g, c, k)
      /\ \A sp \in Spaces, v \in Names :
            /\ \A q : q \in DOMAIN Global(u, sp) <=> q \in DOMAIN Global(t, sp)
            /\ \A q \in DOMAIN Global(t, sp) :
                  /\ Global(u, sp)[q] = Global(t, sp)[q]
                  /\ Declares(u, Global(t, sp)[q], sp, v) <=> Declares(t, Global(t, sp)[q], sp, v)
  BY RetypeScopes
<1>2. QED BY <1>1, SameDeclared

\* ... and the scopes stay orderly, if the symbol is in scope.
LEMMA RetypeOrderly ==
    ASSUME NEW t, NEW g, NEW c, Tidy(t, g, c), Orderly(t, g, c), NEW u, Tidy(u, g, c),
           NEW i, i \notin g, NEW r, Retyped(t, u, i, r)
    PROVE  Orderly(u, g, c)
<1>1. t \in Table /\ GoneLocal(t, g) BY DEF Tidy, Sound
<1>2. "label" \in Spaces /\ "local" \in Stacks BY DEF Spaces, Stacks
<1>3. /\ \A k \in 1 .. Len(c) : Inherits(t, g, c, u, g, c, k)
      /\ \A sp \in Spaces, v \in Names :
            /\ \A q : q \in DOMAIN Global(u, sp) <=> q \in DOMAIN Global(t, sp)
            /\ \A q \in DOMAIN Global(t, sp) :
                  /\ Global(u, sp)[q] = Global(t, sp)[q]
                  /\ Declares(u, Global(t, sp)[q], sp, v) <=> Declares(t, Global(t, sp)[q], sp, v)
  BY RetypeScopes
<1>4. KeptOrderly(u, g)
  <2>1. \A j \in g : j \in Syms
    <3>1. ASSUME NEW j \in g PROVE j \in Syms
      <4>1. PICK sp \in Spaces : \E p \in DOMAIN Local(t, sp) : j = Local(t, sp)[p] BY <1>1 DEF GoneLocal
      <4>2. QED BY <1>1, <4>1, LocalParts
    <3>2. QED BY <3>1
  <2>2. \A j \in g : u.sym[j].sp = "label" => u.sym[j].r # "forward" BY <2>1 DEF Retyped, Orderly, KeptOrderly
  <2>3. u.stack["local"] = t.stack["local"] BY <1>2 DEF Retyped
  <2>4. \A p \in DOMAIN t.stack["local"] : t.stack["local"][p] \in Syms BY <1>1, <1>2, TableParts
  <2>5. \A p \in DOMAIN u.stack["local"] : u.sym[u.stack["local"][p]].sp # "label"
    BY <2>3, <2>4 DEF Retyped, Orderly, KeptOrderly
  <2>6. QED BY <2>2, <2>5 DEF KeptOrderly
<1>5. Len(c) = 0 => Len(Global(u, "label")) = 0
  <2>1. Global(u, "label") = Global(t, "label") BY <1>2, StackNames DEF Retyped, Global
  <2>2. QED BY <2>1 DEF Orderly
<1>6. ASSUME NEW k \in 1 .. Len(c) PROVE ScopeOrderly(u, g, c, k)
  <2>1. ScopeOrderly(t, g, c, k) /\ Inherits(t, g, c, u, g, c, k) BY <1>3 DEF Orderly
  <2>2. ASSUME NEW v \in Names,
               \A q \in DOMAIN Global(t, "label") : ~Declares(t, Global(t, "label")[q], "label", v)
        PROVE  \A q \in DOMAIN Global(u, "label") : ~Declares(u, Global(u, "label")[q], "label", v)
    BY <1>2, <1>3, <2>2
  <2>3. QED BY <2>1, <2>2, ScopeOrderlyKept
<1>7. QED BY <1>4, <1>5, <1>6 DEF Orderly

\* The labels with meaning q
Regains(t, u, g, i, r) ==
    \A q : LabelsIn(u, g, q) =
              IF t.sym[i].sp # "label" THEN LabelsIn(t, g, q)
              ELSE IF q = r THEN LabelsIn(t, g, q) \cup {i} ELSE LabelsIn(t, g, q) \ {i}

\* A label that gets another meaning joins the labels with this one.
LEMMA RetypeLabels ==
    ASSUME NEW t \in Table, NEW g, NEW u, NEW i \in On(t) \ g, NEW r, Retyped(t, u, i, r)
    PROVE  Regains(t, u, g, i, r)
<1>1. \A j : j \in On(u) <=> j \in On(t)
  <2>1. \A j : (\E st \in Stacks : \E p \in DOMAIN u.stack[st] : j = u.stack[st][p])
               <=> (\E st \in Stacks : \E p \in DOMAIN t.stack[st] : j = t.stack[st][p])
    BY DEF Retyped
  <2>2. u \in Table BY DEF Retyped
  <2>3. QED BY <2>1, <2>2, OnStacks
<1>2. \A j \in On(t) : j \in Syms BY OnStacks
<1>3. ASSUME NEW q
      PROVE  LabelsIn(u, g, q) =
              IF t.sym[i].sp # "label" THEN LabelsIn(t, g, q)
              ELSE IF q = r THEN LabelsIn(t, g, q) \cup {i} ELSE LabelsIn(t, g, q) \ {i}
  <2>1. \A j : j \in LabelsIn(u, g, q) <=>
              IF j = i THEN t.sym[i].sp = "label" /\ r = q ELSE j \in LabelsIn(t, g, q)
    BY <1>1, <1>2 DEF LabelsIn, Retyped
  <2>2. i \in LabelsIn(t, g, q) => t.sym[i].sp = "label" BY DEF LabelsIn
  <2>3. CASE t.sym[i].sp # "label"
    <3>1. \A j : j \in LabelsIn(u, g, q) <=> j \in LabelsIn(t, g, q) BY <2>1, <2>2, <2>3
    <3>2. LabelsIn(u, g, q) = LabelsIn(t, g, q) BY <3>1
    <3>3. QED BY <2>3, <3>2
  <2>4. CASE t.sym[i].sp = "label"
    <3>1. CASE q = r
      <4>1. \A j : j \in LabelsIn(u, g, q) <=> j \in LabelsIn(t, g, q) \/ j = i BY <2>1, <2>4, <3>1
      <4>2. LabelsIn(u, g, q) = LabelsIn(t, g, q) \cup {i} BY <4>1
      <4>3. QED BY <2>4, <3>1, <4>2
    <3>2. CASE q # r
      <4>1. \A j : j \in LabelsIn(u, g, q) <=> j \in LabelsIn(t, g, q) /\ j # i BY <2>1, <2>4, <3>2
      <4>2. LabelsIn(u, g, q) = LabelsIn(t, g, q) \ {i} BY <4>1
      <4>3. QED BY <2>4, <3>2, <4>2
    <3>3. QED BY <3>1, <3>2
  <2>5. QED BY <2>3, <2>4
<1>4. QED BY <1>3 DEF Regains

-----------------------------------------------------------------------------
(* A scope is entered                                                      *)

\* The frames d are those of c and one of a scope that begins in tables t.
Opens(t, c, d) ==
    /\ Len(d) = Len(c) + 1
    /\ \A j \in 1 .. Len(c) : d[j].s = c[j].s /\ d[j].l = c[j].l /\ d[j].loop = c[j].loop
    /\ d[Len(c) + 1].s = Len(t.stack["local"]) /\ d[Len(c) + 1].l = Len(t.stack["local_label"])

\* No stack is popped, and the global stacks are the same.
Grows(t, u) ==
    /\ \A st \in Stacks : StaysOn(t, u, st)
    /\ \A st \in {"global", "global_label"} : Len(u.stack[st]) = Len(t.stack[st])

\* The new local symbols have number k.
NewSymbols(t, u, k) ==
    \A p \in Len(t.stack["local"]) + 1 .. Len(u.stack["local"]) :
        LET sym == u.sym[u.stack["local"][p]]
        IN sym.sp # "label" /\ (sym.v \in Names => sym.sym_scope = k)

\* The new labels are the n labels of s, which are different.
NewLabels(t, u, s, n) ==
    LET l == Len(t.stack["local_label"])
    IN /\ n \in Nat /\ Len(u.stack["local_label"]) = l + n
       /\ \A p \in 1 .. n :
             LET sym == u.sym[u.stack["local_label"][l + p]]
             IN sym.v = s[p] /\ sym.sp = "label" /\ sym.r = "declared"
       /\ \A i, j \in 1 .. n : s[i] = s[j] => i = j

\* A scope is entered.
Entered(t, u, c, d, s, n) ==
    /\ Opens(t, c, d) /\ Grows(t, u)
    /\ NewSymbols(t, u, Len(c) + 1) /\ NewLabels(t, u, s, n)
    /\ n > 0 => ~d[Len(c) + 1].loop

\* The outer scopes are what they were.
LEMMA GrowsLocal ==
    ASSUME NEW t \in Table, NEW u \in Table, Grows(t, u), NEW sp \in Spaces
    PROVE  /\ \A p \in 1 .. Len(Local(t, sp)) :
                 /\ Local(u, sp)[p] = Local(t, sp)[p]
                 /\ u.sym[Local(t, sp)[p]] = t.sym[Local(t, sp)[p]]
           /\ \A q : q \in DOMAIN Global(u, sp) <=> q \in DOMAIN Global(t, sp)
           /\ \A q \in DOMAIN Global(t, sp) :
                 /\ Global(u, sp)[q] = Global(t, sp)[q]
                 /\ u.sym[Global(t, sp)[q]] = t.sym[Global(t, sp)[q]]
<1>1. /\ LocalStack(sp) \in Stacks /\ GlobalStack(sp) \in Stacks
      /\ GlobalStack(sp) \in {"global", "global_label"}
  BY StackNames
<1>2. StaysOn(t, u, LocalStack(sp)) /\ StaysOn(t, u, GlobalStack(sp)) BY <1>1 DEF Grows
<1>3. Len(u.stack[GlobalStack(sp)]) = Len(t.stack[GlobalStack(sp)]) BY <1>1 DEF Grows
<1>4. /\ DOMAIN Global(t, sp) = 1 .. Len(Global(t, sp))
      /\ DOMAIN Global(u, sp) = 1 .. Len(Global(u, sp))
  BY LocalParts
<1>5. QED BY <1>2, <1>3, <1>4 DEF StaysOn, Local, Global

\* The scopes that were open have the same places and symbols.
LEMMA EnterInherits ==
    ASSUME NEW t, NEW g, NEW c, Tidy(t, g, c), NEW u, NEW d, Tidy(u, g, d), Opens(t, c, d), Grows(t, u),
           NEW k \in 1 .. Len(c)
    PROVE  Inherits(t, g, c, u, g, d, k)
<1>1. t \in Table /\ Frames(t, c) /\ u \in Table /\ Frames(u, d) BY DEF Tidy, Sound
<1>2. Len(c) \in Nat BY <1>1, FramesParts
<1>3. ASSUME NEW sp \in Spaces
      PROVE  /\ Start(c, sp, k) \in Nat /\ End(t, c, sp, k) \in Nat /\ End(u, d, sp, k) \in Nat
             /\ Start(d, sp, k) = Start(c, sp, k) /\ End(t, c, sp, k) <= End(u, d, sp, k)
             /\ SamePlaces(t, u, g, g, sp, Start(c, sp, k), End(t, c, sp, k))
             /\ \A p \in End(t, c, sp, k) + 1 .. End(u, d, sp, k) : Local(u, sp)[p] \in g
  <2>1. /\ Start(c, sp, k) \in Nat /\ End(t, c, sp, k) \in Nat
        /\ End(t, c, sp, k) <= Len(Local(t, sp)) /\ Len(Local(t, sp)) \in Nat
    BY <1>1, ScopeLies
  <2>2. Start(d, sp, k) = Start(c, sp, k) BY DEF Opens, Start
  <2>3. End(u, d, sp, k) = End(t, c, sp, k)
    <3>1. k # Len(d) BY <1>2 DEF Opens
    <3>2. CASE k = Len(c)
      <4>1. Start(d, sp, Len(c) + 1) = Len(Local(t, sp)) BY DEF Opens, Start, Local, LocalStack
      <4>2. QED BY <3>1, <3>2, <4>1 DEF End
    <3>3. CASE k # Len(c)
      <4>1. k + 1 \in 1 .. Len(c) BY <1>2, <3>3
      <4>2. Start(d, sp, k + 1) = Start(c, sp, k + 1) BY <4>1 DEF Opens, Start
      <4>3. QED BY <3>1, <3>3, <4>2 DEF End
    <3>4. QED BY <3>2, <3>3
  <2>4. \A p \in Start(c, sp, k) + 1 .. End(t, c, sp, k) : p \in 1 .. Len(Local(t, sp)) BY <2>1
  <2>5. \A p \in 1 .. Len(Local(t, sp)) :
           /\ Local(u, sp)[p] = Local(t, sp)[p]
           /\ u.sym[Local(t, sp)[p]] = t.sym[Local(t, sp)[p]]
    BY <1>1, GrowsLocal
  <2>6. SamePlaces(t, u, g, g, sp, Start(c, sp, k), End(t, c, sp, k)) BY <2>4, <2>5 DEF SamePlaces
  <2>7. \A p \in End(t, c, sp, k) + 1 .. End(t, c, sp, k) : FALSE BY <2>1
  <2>8. QED BY <2>1, <2>2, <2>3, <2>6, <2>7
<1>4. d[k].loop = c[k].loop BY DEF Opens
<1>5. QED BY <1>3, <1>4, Inherited

\* Names mean in them what they did.
LEMMA EnterDeclared ==
    ASSUME NEW t, NEW g, NEW c, Tidy(t, g, c), NEW u, NEW d, Tidy(u, g, d), Opens(t, c, d), Grows(t, u),
           NEW k \in 1 .. Len(c) + 1, NEW sp \in Spaces, NEW v \in Names
    PROVE  DeclaredIn(u, g, d, k, sp, v) = DeclaredIn(t, g, c, k, sp, v)
<1>1. t \in Table /\ u \in Table BY DEF Tidy, Sound
<1>2. Len(c) \in Nat /\ Len(d) = Len(c) + 1 BY FramesParts DEF Tidy, Opens
<1>3. \A j : FileWide(u, sp, v, j) <=> FileWide(t, sp, v, j)
  <2>1. /\ \A q : q \in DOMAIN Global(u, sp) <=> q \in DOMAIN Global(t, sp)
        /\ \A q \in DOMAIN Global(t, sp) :
              /\ Global(u, sp)[q] = Global(t, sp)[q]
              /\ u.sym[Global(t, sp)[q]] = t.sym[Global(t, sp)[q]]
    BY <1>1, GrowsLocal
  <2>2. /\ \A q \in DOMAIN Global(t, sp) :
               /\ q \in DOMAIN Global(u, sp) /\ Global(u, sp)[q] = Global(t, sp)[q]
               /\ Declares(u, Global(t, sp)[q], sp, v) <=> Declares(t, Global(t, sp)[q], sp, v)
        /\ \A q \in DOMAIN Global(u, sp) :
               q \in DOMAIN Global(t, sp) \/ ~Declares(u, Global(u, sp)[q], sp, v)
    BY <2>1 DEF Declares
  <2>3. QED BY <2>2, FileWideSame
<1>4. CASE k = 1 BY <1>3, <1>4, FileKept
<1>5. CASE k # 1
  <2> DEFINE m == k - 1
  <2>1. m \in 1 .. Len(c) /\ m \in 1 .. Len(d) /\ k = m + 1 BY <1>2, <1>5
  <2> HIDE DEF m
  <2>2. Inherits(t, g, c, u, g, d, m) BY <2>1, EnterInherits
  <2>3. DeclaredIn(u, g, d, m + 1, sp, v) = DeclaredIn(t, g, c, m + 1, sp, v)
    BY <1>3, <2>1, <2>2, ScopeKept
  <2>4. QED BY <2>1, <2>3
<1>6. QED BY <1>4, <1>5

\* The new scope is orderly.
LEMMA EnterNewScope ==
    ASSUME NEW t, NEW g, NEW c, Tidy(t, g, c), Orderly(t, g, c), NEW u, NEW d, Tidy(u, g, d),
           NEW s, NEW n, Entered(t, u, c, d, s, n)
    PROVE  ScopeOrderly(u, g, d, Len(c) + 1)
<1> DEFINE k == Len(c) + 1
           l == Len(t.stack["local_label"])
<1>1. t \in Table /\ u \in Table /\ Frames(t, c) /\ Frames(u, d) BY DEF Tidy, Sound
<1>2. Len(c) \in Nat /\ k = Len(d) BY FramesParts DEF Tidy, Entered, Opens
<1>3. "label" \in Spaces /\ "local_label" \in Stacks BY DEF Spaces, Stacks
<1>4. l \in Nat /\ n \in Nat /\ Len(u.stack["local_label"]) = l + n
  BY <1>1, <1>3, TableParts DEF Entered, NewLabels
<1>5. ASSUME NEW v \in Names, NEW sp \in {"ident", "struct"}, NEW p \in LiveAt(u, g, d, k, sp, v)
      PROVE  u.sym[Local(u, sp)[p]].sym_scope \in {0, k}
  <2>1. sp # "label" /\ LocalStack(sp) = "local" BY DEF LocalStack
  <2>2. Start(d, sp, k) = Len(t.stack["local"]) /\ End(u, d, sp, k) = Len(u.stack["local"])
    BY <1>2, <2>1 DEF Start, End, Local, Entered, Opens
  <2>3. p \in Len(t.stack["local"]) + 1 .. Len(u.stack["local"]) /\ Lives(u, g, sp, v, p)
    BY <2>2 DEF LiveAt
  <2>4. u.sym[u.stack["local"][p]].v \in Names BY <2>1, <2>3 DEF Lives, Declares, Local
  <2>5. u.sym[u.stack["local"][p]].sym_scope = k BY <2>3, <2>4 DEF Entered, NewSymbols
  <2>6. QED BY <2>1, <2>5 DEF Local
<1>6. ASSUME NEW v \in Names, NEW p \in LiveAt(u, g, d, k, "label", v)
      PROVE  p - l \in 1 .. n /\ s[p - l] = v /\ p \in Int
  <2>1. LocalStack("label") = "local_label" BY DEF LocalStack
  <2>2. Start(d, "label", k) = l /\ End(u, d, "label", k) = l + n
    BY <1>2, <1>4, <2>1 DEF Start, End, Local, Entered, Opens
  <2>3. p \in l + 1 .. l + n /\ Lives(u, g, "label", v, p) BY <2>2 DEF LiveAt
  <2>4. p - l \in 1 .. n /\ l + (p - l) = p /\ p \in Int BY <1>4, <2>3
  <2>5. u.sym[u.stack["local_label"][p]].v = v BY <2>1, <2>3 DEF Lives, Declares, Local
  <2>6. \A q \in 1 .. n : u.sym[u.stack["local_label"][l + q]].v = s[q] BY DEF Entered, NewLabels
  <2> HIDE DEF l
  <2>7. QED BY <2>4, <2>5, <2>6
<1> HIDE DEF l
<1>7. ASSUME NEW v \in Names, NEW p \in LiveAt(u, g, d, k, "label", v), NEW q \in LiveAt(u, g, d, k, "label", v)
      PROVE  p = q
  <2>1. p - l \in 1 .. n /\ q - l \in 1 .. n /\ s[p - l] = s[q - l] /\ p \in Int /\ q \in Int BY <1>6
  <2>2. p - l = q - l BY <2>1 DEF Entered, NewLabels
  <2>3. QED BY <1>4, <2>1, <2>2
<1>8. ASSUME NEW v \in Names, LiveAt(u, g, d, k, "label", v) # {}
      PROVE  /\ ~d[k].loop
             /\ k = 1 => \A q \in DOMAIN Global(u, "label") : ~Declares(u, Global(u, "label")[q], "label", v)
  <2>1. PICK p \in LiveAt(u, g, d, k, "label", v) : TRUE BY <1>8
  <2>2. n > 0
    <3>1. p - l \in 1 .. n BY <1>6
    <3>2. QED BY <1>4, <3>1
  <2>3. k = 1 => DOMAIN Global(u, "label") = {}
    <3>1. SUFFICES ASSUME k = 1 PROVE DOMAIN Global(u, "label") = {} OBVIOUS
    <3>2. Len(c) = 0 BY <1>2, <3>1
    <3>3. Len(Global(t, "label")) = 0 BY <3>2 DEF Orderly
    <3>4. GlobalStack("label") = "global_label" BY DEF GlobalStack
    <3>5. Len(Global(u, "label")) = 0 BY <3>3, <3>4 DEF Entered, Grows, Global
    <3>6. DOMAIN Global(u, "label") = 1 .. Len(Global(u, "label")) BY <1>1, <1>3, LocalParts
    <3>7. QED BY <3>5, <3>6
  <2>4. QED BY <2>2, <2>3 DEF Entered
<1>9. QED BY <1>5, <1>7, <1>8 DEF ScopeOrderly

\* The scopes are in order when another one is entered.
LEMMA EnterOrderly ==
    ASSUME NEW t, NEW g, NEW c, Tidy(t, g, c), Orderly(t, g, c), NEW u, NEW d, Tidy(u, g, d),
           NEW s, NEW n, Entered(t, u, c, d, s, n)
    PROVE  Orderly(u, g, d)
<1>1. t \in Table /\ u \in Table /\ GoneLocal(t, g) BY DEF Tidy, Sound
<1>2. Len(c) \in Nat /\ Len(d) = Len(c) + 1 BY FramesParts DEF Tidy, Entered, Opens
<1>3. "label" \in Spaces /\ "local" \in Stacks BY DEF Spaces, Stacks
<1>4. Opens(t, c, d) /\ Grows(t, u) BY DEF Entered
<1>5. KeptOrderly(u, g)
  <2>1. ASSUME NEW j \in g PROVE u.sym[j].sp = "label" => u.sym[j].r # "forward"
    <3>1. PICK sp \in Spaces : \E p \in DOMAIN Local(t, sp) : j = Local(t, sp)[p] BY <1>1 DEF GoneLocal
    <3>2. DOMAIN Local(t, sp) = 1 .. Len(Local(t, sp)) BY <1>1, LocalParts
    <3>3. \A p \in 1 .. Len(Local(t, sp)) : u.sym[Local(t, sp)[p]] = t.sym[Local(t, sp)[p]]
      BY <1>1, <1>4, GrowsLocal
    <3>4. u.sym[j] = t.sym[j] BY <3>1, <3>2, <3>3
    <3>5. QED BY <3>4 DEF Orderly, KeptOrderly
  <2>2. ASSUME NEW p \in DOMAIN u.stack["local"] PROVE u.sym[u.stack["local"][p]].sp # "label"
    <3>1. /\ DOMAIN u.stack["local"] = 1 .. Len(u.stack["local"])
          /\ DOMAIN t.stack["local"] = 1 .. Len(t.stack["local"])
          /\ Len(t.stack["local"]) \in Nat /\ Len(u.stack["local"]) \in Nat
      BY <1>1, <1>3, TableParts
    <3>2. CASE p \in 1 .. Len(t.stack["local"])
      <4>1. StaysOn(t, u, "local") BY <1>3, <1>4 DEF Grows
      <4>2. /\ u.stack["local"][p] = t.stack["local"][p]
            /\ u.sym[t.stack["local"][p]] = t.sym[t.stack["local"][p]]
        BY <3>2, <4>1 DEF StaysOn
      <4>3. QED BY <3>1, <3>2, <4>2 DEF Orderly, KeptOrderly
    <3>3. CASE p \notin 1 .. Len(t.stack["local"])
      <4>1. p \in Len(t.stack["local"]) + 1 .. Len(u.stack["local"]) BY <3>1, <3>3
      <4>2. QED BY <4>1 DEF Entered, NewSymbols
    <3>4. QED BY <3>2, <3>3
  <2>3. QED BY <2>1, <2>2 DEF KeptOrderly
<1>6. ASSUME NEW k \in 1 .. Len(d) PROVE ScopeOrderly(u, g, d, k)
  <2>1. CASE k = Len(c) + 1 BY <2>1, EnterNewScope
  <2>2. CASE k \in 1 .. Len(c)
    <3>1. ScopeOrderly(t, g, c, k) BY <2>2 DEF Orderly
    <3>2. Inherits(t, g, c, u, g, d, k) BY <1>4, <2>2, EnterInherits
    <3>3. /\ \A q : q \in DOMAIN Global(u, "label") <=> q \in DOMAIN Global(t, "label")
          /\ \A q \in DOMAIN Global(t, "label") :
                /\ Global(u, "label")[q] = Global(t, "label")[q]
                /\ u.sym[Global(t, "label")[q]] = t.sym[Global(t, "label")[q]]
      BY <1>1, <1>3, <1>4, GrowsLocal
    <3>4. ASSUME NEW v \in Names,
                 \A q \in DOMAIN Global(t, "label") : ~Declares(t, Global(t, "label")[q], "label", v)
          PROVE  \A q \in DOMAIN Global(u, "label") : ~Declares(u, Global(u, "label")[q], "label", v)
      BY <3>3, <3>4 DEF Declares
    <3>5. QED BY <3>1, <3>2, <3>4, ScopeOrderlyKept
  <2>3. QED BY <1>2, <2>1, <2>2
<1>7. Len(d) # 0 BY <1>2
<1>8. QED BY <1>5, <1>6, <1>7 DEF Orderly

\* No label is used or defined by it.
LEMMA EnterLabels ==
    ASSUME NEW t \in Table, NEW u \in Table, NEW g, NEW c, NEW d, NEW s, NEW n, Entered(t, u, c, d, s, n),
           NEW r, r # "declared"
    PROVE  \A j : j \in LabelsIn(u, g, r) <=> j \in LabelsIn(t, g, r)
<1>1. \A st \in Stacks : DOMAIN t.stack[st] = 1 .. Len(t.stack[st]) /\ DOMAIN u.stack[st] = 1 .. Len(u.stack[st])
                         /\ Len(t.stack[st]) \in Nat /\ Len(u.stack[st]) \in Nat
  BY TableParts
<1>2. ASSUME NEW st \in Stacks, NEW p \in 1 .. Len(t.stack[st])
      PROVE  /\ p \in DOMAIN u.stack[st] /\ u.stack[st][p] = t.stack[st][p]
             /\ u.sym[t.stack[st][p]] = t.sym[t.stack[st][p]]
  <2>1. StaysOn(t, u, st) BY DEF Entered, Grows
  <2>2. p \in 1 .. Len(u.stack[st]) BY <1>1, <2>1 DEF StaysOn
  <2>3. QED BY <1>1, <2>1, <2>2 DEF StaysOn
<1>3. ASSUME NEW st \in Stacks, NEW p \in 1 .. Len(u.stack[st]), p \notin 1 .. Len(t.stack[st])
      PROVE  LET sym == u.sym[u.stack[st][p]] IN sym.sp # "label" \/ sym.r = "declared"
  <2>1. st \in {"global", "global_label", "local", "local_label"} BY DEF Stacks
  <2>2. p \in Len(t.stack[st]) + 1 .. Len(u.stack[st]) BY <1>1, <1>3
  <2>3. CASE st \in {"global", "global_label"}
    <3>1. Len(u.stack[st]) = Len(t.stack[st]) BY <2>3 DEF Entered, Grows
    <3>2. QED BY <1>1, <2>2, <3>1
  <2>4. CASE st = "local" BY <2>2, <2>4 DEF Entered, NewSymbols
  <2>5. CASE st = "local_label"
    <3> DEFINE l == Len(t.stack["local_label"])
    <3>1. n \in Nat /\ Len(u.stack["local_label"]) = l + n
          /\ \A q \in 1 .. n : u.sym[u.stack["local_label"][l + q]].r = "declared"
      BY DEF Entered, NewLabels
    <3>2. l \in Nat /\ p \in l + 1 .. l + n BY <1>1, <2>2, <2>5, <3>1
    <3> HIDE DEF l
    <3>3. p - l \in 1 .. n /\ l + (p - l) = p
      <4>1. l \in Nat /\ n \in Nat /\ p \in l + 1 .. l + n BY <3>1, <3>2
      <4>2. QED BY <4>1
    <3>4. QED BY <2>5, <3>1, <3>3
  <2>6. QED BY <2>1, <2>3, <2>4, <2>5
<1>4. ASSUME NEW j \in LabelsIn(u, g, r) PROVE j \in LabelsIn(t, g, r)
  <2>1. j \in On(u) /\ j \notin g /\ u.sym[j].sp = "label" /\ u.sym[j].r = r BY DEF LabelsIn
  <2>2. PICK st \in Stacks : \E p \in DOMAIN u.stack[st] : j = u.stack[st][p] BY <2>1, OnStacks
  <2>3. PICK p \in DOMAIN u.stack[st] : j = u.stack[st][p] BY <2>2
  <2>4. p \in 1 .. Len(t.stack[st]) BY <1>1, <1>3, <2>1, <2>3
  <2>5. j = t.stack[st][p] /\ p \in DOMAIN t.stack[st] /\ u.sym[j] = t.sym[j] BY <1>1, <1>2, <2>3, <2>4
  <2>6. j \in On(t) BY <2>5, OnStacks
  <2>7. QED BY <2>1, <2>5, <2>6 DEF LabelsIn
<1>5. ASSUME NEW j \in LabelsIn(t, g, r) PROVE j \in LabelsIn(u, g, r)
  <2>1. j \in On(t) /\ j \notin g /\ t.sym[j].sp = "label" /\ t.sym[j].r = r BY DEF LabelsIn
  <2>2. PICK st \in Stacks : \E p \in DOMAIN t.stack[st] : j = t.stack[st][p] BY <2>1, OnStacks
  <2>3. PICK p \in DOMAIN t.stack[st] : j = t.stack[st][p] BY <2>2
  <2>4. j = u.stack[st][p] /\ p \in DOMAIN u.stack[st] /\ u.sym[j] = t.sym[j] BY <1>1, <1>2, <2>3
  <2>5. j \in On(u) BY <2>4, OnStacks
  <2>6. QED BY <2>1, <2>4, <2>5 DEF LabelsIn
<1>6. QED BY <1>4, <1>5

-----------------------------------------------------------------------------
(* A scope is left                                                         *)

\* What is in scope c's last scope of labels: its own, and those of the function.
InClosing(t, g, c, j) ==
    \/ j \notin g /\ \E p \in c[Len(c)].l + 1 .. Len(Local(t, "label")) : j = Local(t, "label")[p]
    \/ Len(c) = 1 /\ \E q \in DOMAIN Global(t, "label") : j = Global(t, "label")[q]

\* The symbols on the stacks of labels are labels.
LEMMA LabelPlaces ==
    ASSUME NEW t, NEW g, NEW c, Tidy(t, g, c)
    PROVE  /\ \A p \in 1 .. Len(Local(t, "label")) :
                 LET sym == t.sym[Local(t, "label")[p]] IN sym.v \in Names /\ sym.sp = "label"
           /\ \A q \in DOMAIN Global(t, "label") :
                 LET sym == t.sym[Global(t, "label")[q]] IN sym.v \in Names /\ sym.sp = "label"
<1>1. t \in Table /\ Kinds(t) /\ "label" \in Spaces BY DEF Tidy, Sound, Spaces
<1>2. /\ DOMAIN t.stack["local_label"] = 1 .. Len(t.stack["local_label"])
      /\ "local_label" \in Stacks /\ "global_label" \in Stacks
      /\ \A p \in 1 .. Len(t.stack["local_label"]) : t.stack["local_label"][p] \in Syms
      /\ \A p \in DOMAIN t.stack["global_label"] : t.stack["global_label"][p] \in Syms
  <2>1. "local_label" \in Stacks /\ "global_label" \in Stacks BY DEF Stacks
  <2>2. QED BY <1>1, <2>1, TableParts
<1>3. \A i \in Syms : t.sym[i].sp \in Spaces
  <2>1. \A s \in SymType : s.sp \in Spaces BY SymFields
  <2>2. QED BY <1>1, <2>1, TableParts
<1>4. \A sp \in Spaces : "local_label" \in {LocalStack(sp), GlobalStack(sp)} => sp = "label"
  BY DEF LocalStack, GlobalStack
<1>5. \A sp \in Spaces : "global_label" \in {LocalStack(sp), GlobalStack(sp)} => sp = "label"
  BY DEF LocalStack, GlobalStack
<1>6. ASSUME NEW p \in 1 .. Len(t.stack["local_label"])
      PROVE  LET sym == t.sym[t.stack["local_label"][p]] IN sym.v \in Names /\ sym.sp = "label"
  <2> DEFINE sym == t.sym[t.stack["local_label"][p]]
  <2>1. sym.sp \in Spaces BY <1>2, <1>3
  <2>2. \/ sym.v \notin Names /\ "local_label" = "local"
        \/ sym.v \in Names /\ "local_label" \in {LocalStack(sym.sp), GlobalStack(sym.sp)}
    BY <1>1, <1>2 DEF Kinds
  <2> HIDE DEF sym
  <2>3. QED BY <1>4, <2>1, <2>2 DEF sym
<1>7. ASSUME NEW p \in DOMAIN t.stack["global_label"]
      PROVE  LET sym == t.sym[t.stack["global_label"][p]] IN sym.v \in Names /\ sym.sp = "label"
  <2> DEFINE sym == t.sym[t.stack["global_label"][p]]
  <2>1. sym.sp \in Spaces BY <1>2, <1>3
  <2>2. \/ sym.v \notin Names /\ "global_label" = "local"
        \/ sym.v \in Names /\ "global_label" \in {LocalStack(sym.sp), GlobalStack(sym.sp)}
    BY <1>1, <1>2 DEF Kinds
  <2> HIDE DEF sym
  <2>3. QED BY <1>5, <2>1, <2>2 DEF sym
<1>8. QED BY <1>6, <1>7 DEF Local, Global, LocalStack, GlobalStack

\* A label that is in scope is on one of them.
LEMMA LabelPlace ==
    ASSUME NEW t, NEW g, NEW c, Tidy(t, g, c), Orderly(t, g, c), NEW j \in On(t), t.sym[j].sp = "label"
    PROVE  \/ \E p \in 1 .. Len(Local(t, "label")) : j = Local(t, "label")[p]
           \/ \E q \in DOMAIN Global(t, "label") : j = Global(t, "label")[q]
<1>1. t \in Table /\ Kinds(t) /\ "label" \in Spaces BY DEF Tidy, Sound, Spaces
<1>2. PICK st \in Stacks : \E p \in DOMAIN t.stack[st] : j = t.stack[st][p] BY <1>1, OnStacks
<1>3. PICK p \in DOMAIN t.stack[st] : j = t.stack[st][p] BY <1>2
<1>4. st # "local" BY <1>3 DEF Orderly, KeptOrderly
<1>5. st \in {LocalStack("label"), GlobalStack("label")} BY <1>1, <1>3, <1>4 DEF Kinds
<1>6. DOMAIN Local(t, "label") = 1 .. Len(Local(t, "label")) BY <1>1, LocalParts
<1>7. QED BY <1>3, <1>5, <1>6 DEF Local, Global

\* The labels of the last scope
LEMMA ClosingIs ==
    ASSUME NEW t, NEW g, NEW c, Tidy(t, g, c), Orderly(t, g, c), Len(c) > 0, NEW j, j # NULL
    PROVE  (\E v \in Names : j = DeclaredIn(t, g, c, Len(c) + 1, "label", v)) <=> InClosing(t, g, c, j)
<1> DEFINE n == Len(c)
           live(v) == LiveAt(t, g, c, n, "label", v)
           top == Len(Local(t, "label"))
<1>1. t \in Table /\ Frames(t, c) /\ "label" \in Spaces /\ Sound(t, g, Begins(c)) BY DEF Tidy, Sound, Spaces
<1>2. n \in Nat /\ n \in 1 .. Len(c) /\ n + 1 > 1 /\ (n + 1) - 1 = n /\ n + 1 \in 1 .. Len(c) + 1
  BY <1>1, FramesParts
<1>3. /\ top \in Nat /\ c[n].l \in Nat
      /\ Start(c, "label", n) = c[n].l /\ End(t, c, "label", n) = top
  BY <1>1, <1>2, ScopeLies DEF Start
<1>4. \A p \in c[n].l + 1 .. top : p \in 1 .. top BY <1>3
<1>5. ASSUME NEW v \in Names
      PROVE  j = DeclaredIn(t, g, c, n + 1, "label", v)
               <=> \/ \E q \in live(v) : j = Local(t, "label")[q] /\ \A p \in live(v) : p <= q
                   \/ live(v) = {} /\ n + 1 = 2 /\ FileWide(t, "label", v, j)
  <2>1. j = DeclaredIn(t, g, c, n + 1, "label", v) <=> Means(t, g, c, n + 1, "label", v, j)
    BY <1>1, <1>2, MeansIs
  <2>2. Home("label") = 2 BY DEF Home
  <2> HIDE DEF n
  <2>3. QED BY <1>2, <2>1, <2>2 DEF Means
<1>6. \A v : live(v) = {p \in c[n].l + 1 .. top : Lives(t, g, "label", v, p)} BY <1>3 DEF LiveAt
<1>7. ScopeOrderly(t, g, c, n) BY <1>2 DEF Orderly
<1>8. /\ \A p \in 1 .. top : LET sym == t.sym[Local(t, "label")[p]] IN sym.v \in Names /\ sym.sp = "label"
      /\ \A q \in DOMAIN Global(t, "label") :
             LET sym == t.sym[Global(t, "label")[q]] IN sym.v \in Names /\ sym.sp = "label"
  BY LabelPlaces
<1>9. /\ \A v \in Names : \A p, q \in live(v) : p = q
      /\ n = 1 => \A v \in Names : live(v) # {} =>
             \A q \in DOMAIN Global(t, "label") : ~Declares(t, Global(t, "label")[q], "label", v)
  BY <1>7 DEF ScopeOrderly
<1> HIDE DEF n, live, top
<1>10. ASSUME NEW v \in Names, j = DeclaredIn(t, g, c, n + 1, "label", v)
       PROVE  InClosing(t, g, c, j)
  <2>1. CASE \E q \in live(v) : j = Local(t, "label")[q]
    <3>1. PICK q \in live(v) : j = Local(t, "label")[q] BY <2>1
    <3>2. q \in c[n].l + 1 .. top /\ Local(t, "label")[q] \notin g BY <1>6, <3>1 DEF Lives
    <3>3. QED BY <3>1, <3>2 DEF InClosing, n, top
  <2>2. CASE n + 1 = 2 /\ FileWide(t, "label", v, j)
    <3>1. n = 1 BY <1>2, <2>2
    <3>2. \E q \in DOMAIN Global(t, "label") : j = Global(t, "label")[q] BY <2>2 DEF FileWide
    <3>3. QED BY <3>1, <3>2 DEF InClosing, n
  <2>3. QED BY <1>5, <1>10, <2>1, <2>2
<1>11. ASSUME j \notin g, NEW p \in c[n].l + 1 .. top, j = Local(t, "label")[p]
       PROVE  \E v \in Names : j = DeclaredIn(t, g, c, n + 1, "label", v)
  <2> DEFINE v == t.sym[j].v
  <2>1. v \in Names /\ t.sym[j].sp = "label" BY <1>4, <1>8, <1>11
  <2>2. p \in live(v) BY <1>6, <1>11, <2>1 DEF Lives, Declares
  <2> HIDE DEF v
  <2>3. p <= p BY <1>3
  <2>4. \A q \in live(v) : q <= p BY <1>9, <2>1, <2>2, <2>3
  <2>5. j = DeclaredIn(t, g, c, n + 1, "label", v) BY <1>5, <1>11, <2>1, <2>2, <2>4
  <2>6. QED BY <2>1, <2>5
<1>12. ASSUME n = 1, NEW q \in DOMAIN Global(t, "label"), j = Global(t, "label")[q]
       PROVE  \E v \in Names : j = DeclaredIn(t, g, c, n + 1, "label", v)
  <2> DEFINE v == t.sym[j].v
  <2>1. v \in Names /\ t.sym[j].sp = "label" BY <1>8, <1>12
  <2>2. Declares(t, j, "label", v) BY <2>1 DEF Declares
  <2> HIDE DEF v
  <2>3. live(v) = {} BY <1>9, <1>12, <2>1, <2>2
  <2>4. FileWide(t, "label", v, j) BY <1>12, <2>2 DEF FileWide
  <2>5. n + 1 = 2 BY <1>12
  <2>6. j = DeclaredIn(t, g, c, n + 1, "label", v) BY <1>5, <2>1, <2>3, <2>4, <2>5
  <2>7. QED BY <2>1, <2>6
<1>13. InClosing(t, g, c, j) => \E v \in Names : j = DeclaredIn(t, g, c, n + 1, "label", v)
  <2>1. InClosing(t, g, c, j) =>
          \/ j \notin g /\ \E p \in c[n].l + 1 .. top : j = Local(t, "label")[p]
          \/ n = 1 /\ \E q \in DOMAIN Global(t, "label") : j = Global(t, "label")[q]
    BY DEF InClosing, n, top
  <2>2. QED BY <1>11, <1>12, <2>1
<1>14. QED BY <1>10, <1>13 DEF n

\* Up to place b, a local stack is that of t; what is above is kept.
Remains(t, u, g, h, sp, b) ==
    /\ b <= Len(Local(u, sp))
    /\ \A p \in 1 .. b :
          LET i == Local(t, sp)[p]
          IN Local(u, sp)[p] = i /\ u.sym[i] = t.sym[i] /\ (i \in h <=> i \in g)
    /\ \A p \in b + 1 .. Len(Local(u, sp)) : Local(u, sp)[p] \in h

\* The global stack of a name space is the same.
SameGlobal(t, u, sp) ==
    /\ \A q : q \in DOMAIN Global(u, sp) <=> q \in DOMAIN Global(t, sp)
    /\ \A q \in DOMAIN Global(t, sp) : /\ Global(u, sp)[q] = Global(t, sp)[q]
                                       /\ u.sym[Global(t, sp)[q]] = t.sym[Global(t, sp)[q]]

\* u with frames d is what is left of t when its last scope is left.
Left(t, g, c, u, h, d) ==
    /\ Len(c) > 0 /\ Len(d) = Len(c) - 1
    /\ \A j \in 1 .. Len(d) : d[j].s = c[j].s /\ d[j].l = c[j].l /\ d[j].loop = c[j].loop
    /\ \A sp \in Spaces : /\ Remains(t, u, g, h, sp, Start(c, sp, Len(c)))
                          /\ IF sp = "label" /\ Len(c) = 1 THEN DOMAIN Global(u, sp) = {}
                             ELSE SameGlobal(t, u, sp)
    /\ KeptOrderly(u, h)

\* The outer scopes are what they were.
LEMMA LeftInherits ==
    ASSUME NEW t, NEW g, NEW c, Tidy(t, g, c), NEW u, NEW h, NEW d, Tidy(u, h, d),
           Left(t, g, c, u, h, d), NEW k \in 1 .. Len(d)
    PROVE  Inherits(t, g, c, u, h, d, k)
<1>1. t \in Table /\ Frames(t, c) /\ u \in Table /\ Frames(u, d) BY DEF Tidy, Sound
<1>2. Len(c) \in Nat /\ Len(d) \in Nat /\ Len(d) = Len(c) - 1 /\ k \in Nat
  BY <1>1, FramesParts DEF Left
<1>3. k \in 1 .. Len(c) /\ k < Len(c) /\ Len(c) \in 1 .. Len(c) /\ k + 1 \in 1 .. Len(c) BY <1>2
<1>4. ASSUME NEW sp \in Spaces
      PROVE  /\ Start(c, sp, k) \in Nat /\ End(t, c, sp, k) \in Nat /\ End(u, d, sp, k) \in Nat
             /\ Start(d, sp, k) = Start(c, sp, k) /\ End(t, c, sp, k) <= End(u, d, sp, k)
             /\ SamePlaces(t, u, g, h, sp, Start(c, sp, k), End(t, c, sp, k))
             /\ \A p \in End(t, c, sp, k) + 1 .. End(u, d, sp, k) : Local(u, sp)[p] \in h
  <2> DEFINE b == Start(c, sp, Len(c))
             e == End(t, c, sp, k)
  <2>1. /\ Start(c, sp, k) \in Nat /\ e \in Nat /\ b \in Nat /\ e <= b
        /\ End(u, d, sp, k) \in Nat
    BY <1>1, <1>3, ScopeLies
  <2>2. Remains(t, u, g, h, sp, b) BY DEF Left
  <2>3. Start(d, sp, k) = Start(c, sp, k) BY DEF Left, Start
  <2>4. e = Start(c, sp, k + 1) BY <1>2, <1>3 DEF End
  <2>5. e <= End(u, d, sp, k) /\ \A p \in e + 1 .. End(u, d, sp, k) : Local(u, sp)[p] \in h
    <3>1. CASE k = Len(d)
      <4>1. k + 1 = Len(c) BY <1>2, <3>1
      <4>2. End(u, d, sp, k) = Len(Local(u, sp)) /\ e = b BY <2>4, <3>1, <4>1 DEF End
      <4>3. QED BY <2>2, <4>2 DEF Remains
    <3>2. CASE k # Len(d)
      <4>1. k + 1 \in 1 .. Len(d) BY <1>2, <3>2
      <4>2. Start(d, sp, k + 1) = Start(c, sp, k + 1) BY <4>1 DEF Left, Start
      <4>3. End(u, d, sp, k) = e BY <2>4, <3>2, <4>2 DEF End
      <4>4. e <= e /\ \A p \in e + 1 .. e : FALSE BY <2>1
      <4>5. QED BY <4>3, <4>4
    <3>3. QED BY <3>1, <3>2
  <2> HIDE DEF b, e
  <2>6. \A p \in Start(c, sp, k) + 1 .. e : p \in 1 .. b BY <2>1
  <2>7. SamePlaces(t, u, g, h, sp, Start(c, sp, k), e) BY <2>2, <2>6 DEF SamePlaces, Remains
  <2>8. QED BY <2>1, <2>3, <2>5, <2>7 DEF e
<1>5. d[k].loop = c[k].loop BY DEF Left
<1>6. QED BY <1>4, <1>5, Inherited

\* Names mean in them what they did.
LEMMA LeftDeclared ==
    ASSUME NEW t, NEW g, NEW c, Tidy(t, g, c), NEW u, NEW h, NEW d, Tidy(u, h, d),
           Left(t, g, c, u, h, d), NEW k \in 1 .. Len(d) + 1, NEW sp \in Spaces, NEW v \in Names
    PROVE  DeclaredIn(u, h, d, k, sp, v) = DeclaredIn(t, g, c, k, sp, v)
<1>1. Len(c) \in Nat /\ Len(d) \in Nat /\ Len(d) = Len(c) - 1 /\ k \in Nat
  BY FramesParts DEF Left, Tidy
<1>2. k = Home(sp) => \A j : FileWide(u, sp, v, j) <=> FileWide(t, sp, v, j)
  <2>1. SUFFICES ASSUME k = Home(sp) PROVE \A j : FileWide(u, sp, v, j) <=> FileWide(t, sp, v, j)
    OBVIOUS
  <2>2. ~(sp = "label" /\ Len(c) = 1) BY <1>1, <2>1 DEF Home
  <2>3. SameGlobal(t, u, sp) BY <2>2 DEF Left
  <2>4. /\ \A q \in DOMAIN Global(t, sp) :
               /\ q \in DOMAIN Global(u, sp) /\ Global(u, sp)[q] = Global(t, sp)[q]
               /\ Declares(u, Global(t, sp)[q], sp, v) <=> Declares(t, Global(t, sp)[q], sp, v)
        /\ \A q \in DOMAIN Global(u, sp) :
               q \in DOMAIN Global(t, sp) \/ ~Declares(u, Global(u, sp)[q], sp, v)
    BY <2>3 DEF SameGlobal, Declares
  <2>5. QED BY <2>4, FileWideSame
<1>3. CASE k = 1
  <2>1. Home(sp) = 1 => \A j : FileWide(u, sp, v, j) <=> FileWide(t, sp, v, j) BY <1>2, <1>3
  <2>2. QED BY <1>3, <2>1, FileKept
<1>4. CASE k # 1
  <2> DEFINE m == k - 1
  <2>1. m \in 1 .. Len(c) /\ m \in 1 .. Len(d) /\ k = m + 1 BY <1>1, <1>4
  <2> HIDE DEF m
  <2>2. Inherits(t, g, c, u, h, d, m) BY <2>1, LeftInherits
  <2>3. DeclaredIn(u, h, d, m + 1, sp, v) = DeclaredIn(t, g, c, m + 1, sp, v)
    BY <1>2, <2>1, <2>2, ScopeKept
  <2>4. QED BY <2>1, <2>3
<1>5. QED BY <1>3, <1>4

\* The scopes stay orderly.
LEMMA LeftOrderly ==
    ASSUME NEW t, NEW g, NEW c, Tidy(t, g, c), Orderly(t, g, c), NEW u, NEW h, NEW d, Tidy(u, h, d),
           Left(t, g, c, u, h, d)
    PROVE  Orderly(u, h, d)
<1>1. u \in Table /\ "label" \in Spaces BY DEF Tidy, Sound, Spaces
<1>2. Len(c) \in Nat /\ Len(d) \in Nat /\ Len(d) = Len(c) - 1 /\ Len(c) > 0
  BY FramesParts DEF Left, Tidy
<1>3. KeptOrderly(u, h) BY DEF Left
<1>4. Len(d) = 0 => Len(Global(u, "label")) = 0
  <2>1. SUFFICES ASSUME Len(d) = 0 PROVE Len(Global(u, "label")) = 0 OBVIOUS
  <2>2. Len(c) = 1 BY <1>2, <2>1
  <2>3. DOMAIN Global(u, "label") = {} BY <1>1, <2>2 DEF Left
  <2>4. DOMAIN Global(u, "label") = 1 .. Len(Global(u, "label")) /\ Len(Global(u, "label")) \in Nat
    BY <1>1, LocalParts
  <2>5. \A n \in Nat : n # 0 => 1 \in 1 .. n OBVIOUS
  <2>6. QED BY <2>3, <2>4, <2>5
<1>5. ASSUME NEW k \in 1 .. Len(d) PROVE ScopeOrderly(u, h, d, k)
  <2>1. k \in 1 .. Len(c) /\ Len(c) # 1 BY <1>2
  <2>2. ScopeOrderly(t, g, c, k) BY <2>1 DEF Orderly
  <2>3. Inherits(t, g, c, u, h, d, k) BY LeftInherits
  <2>4. SameGlobal(t, u, "label") BY <1>1, <2>1 DEF Left
  <2>5. ASSUME NEW v \in Names,
               \A q \in DOMAIN Global(t, "label") : ~Declares(t, Global(t, "label")[q], "label", v)
        PROVE  \A q \in DOMAIN Global(u, "label") : ~Declares(u, Global(u, "label")[q], "label", v)
    BY <2>4, <2>5 DEF Declares, SameGlobal
  <2>6. QED BY <2>2, <2>3, <2>5, ScopeOrderlyKept
<1>6. QED BY <1>3, <1>4, <1>5 DEF Orderly

\* What the stacks of a name space have is on the stacks.
LEMMA PlacesOn ==
    ASSUME NEW t \in Table, NEW sp \in Spaces
    PROVE  /\ \A p \in 1 .. Len(Local(t, sp)) : Local(t, sp)[p] \in On(t)
           /\ \A q \in DOMAIN Global(t, sp) : Global(t, sp)[q] \in On(t)
<1>1. LocalStack(sp) \in Stacks /\ GlobalStack(sp) \in Stacks BY StackNames
<1>2. DOMAIN t.stack[LocalStack(sp)] = 1 .. Len(t.stack[LocalStack(sp)]) BY <1>1, TableParts
<1>3. QED BY <1>1, <1>2, OnStacks DEF Local, Global

\* What a local and a global stack have, and two places of a local stack, differ.
LEMMA PlacesApart ==
    ASSUME NEW t \in Table, Apart(t), NEW sp \in Spaces
    PROVE  /\ \A p, q \in 1 .. Len(Local(t, sp)) : Local(t, sp)[p] = Local(t, sp)[q] => p = q
           /\ \A p \in 1 .. Len(Local(t, sp)), q \in DOMAIN Global(t, sp) : Local(t, sp)[p] # Global(t, sp)[q]
<1>1. /\ LocalStack(sp) \in Stacks /\ GlobalStack(sp) \in Stacks
      /\ LocalStack(sp) # GlobalStack(sp)
  BY DEF LocalStack, GlobalStack, Stacks
<1>2. DOMAIN t.stack[LocalStack(sp)] = 1 .. Len(t.stack[LocalStack(sp)]) BY <1>1, TableParts
<1>3. QED BY <1>1, <1>2 DEF Local, Global, Apart

\* The labels of the other scopes stay what they were, the others are gone.
LEMMA LeftLabels ==
    ASSUME NEW t, NEW g, NEW c, Tidy(t, g, c), Orderly(t, g, c), NEW u, NEW h, NEW d, Tidy(u, h, d),
           Left(t, g, c, u, h, d), NEW r, NEW j
    PROVE  j \in LabelsIn(u, h, r) <=> j \in LabelsIn(t, g, r) /\ ~InClosing(t, g, c, j)
<1> DEFINE b == c[Len(c)].l
           lt == Local(t, "label")
           lu == Local(u, "label")
           gt == Global(t, "label")
           gu == Global(u, "label")
<1>1. /\ t \in Table /\ u \in Table /\ "label" \in Spaces /\ Apart(t)
      /\ Sound(t, g, Begins(c)) /\ Sound(u, h, Begins(d)) /\ Frames(t, c)
  BY DEF Tidy, Sound, Spaces
<1>2. Len(c) \in Nat /\ Len(c) \in 1 .. Len(c)
  <2>1. Len(c) \in Nat /\ Len(c) > 0 BY <1>1, FramesParts DEF Left
  <2>2. QED BY <2>1
<1>3. /\ b \in Nat /\ b <= Len(lt) /\ Len(lt) \in Nat /\ Len(lu) \in Nat
  <2>1. b \in 0 .. Len(t.stack["local_label"]) BY <1>1, <1>2 DEF Frames
  <2>2. Len(lt) \in Nat /\ Len(lu) \in Nat BY <1>1, LocalParts
  <2>3. lt = t.stack["local_label"] BY DEF Local, LocalStack
  <2>4. QED BY <2>1, <2>2, <2>3
<1>4. Start(c, "label", Len(c)) = b BY DEF Start
<1>5. Remains(t, u, g, h, "label", b) /\ IF Len(c) = 1 THEN DOMAIN gu = {} ELSE SameGlobal(t, u, "label")
  BY <1>1, <1>4 DEF Left
<1>6. /\ b <= Len(lu)
      /\ \A p \in 1 .. b : /\ lu[p] = lt[p] /\ u.sym[lt[p]] = t.sym[lt[p]] /\ (lt[p] \in h <=> lt[p] \in g)
      /\ \A p \in b + 1 .. Len(lu) : lu[p] \in h
  BY <1>5 DEF Remains
<1>7. Len(c) # 1 => /\ \A q : q \in DOMAIN gu <=> q \in DOMAIN gt
                    /\ \A q \in DOMAIN gt : gu[q] = gt[q] /\ u.sym[gt[q]] = t.sym[gt[q]]
  BY <1>5 DEF SameGlobal
<1>8. Len(c) = 1 => DOMAIN gu = {} BY <1>5
<1>9. InClosing(t, g, c, j) <=>
        \/ j \notin g /\ \E p \in b + 1 .. Len(lt) : j = lt[p]
        \/ Len(c) = 1 /\ \E q \in DOMAIN gt : j = gt[q]
  BY DEF InClosing
<1>10. \A q \in DOMAIN gt : gt[q] \notin g BY <1>1, GlobalNotGone
<1>11. \A q \in DOMAIN gu : gu[q] \notin h BY <1>1, GlobalNotGone
<1>12. /\ \A p \in 1 .. Len(lt) : lt[p] \in On(t)
       /\ \A q \in DOMAIN gt : gt[q] \in On(t)
       /\ \A p \in 1 .. Len(lu) : lu[p] \in On(u)
       /\ \A q \in DOMAIN gu : gu[q] \in On(u)
  BY <1>1, PlacesOn
<1>13. /\ \A p, q \in 1 .. Len(lt) : lt[p] = lt[q] => p = q
       /\ \A p \in 1 .. Len(lt), q \in DOMAIN gt : lt[p] # gt[q]
  BY <1>1, PlacesApart
<1>14. Orderly(u, h, d) BY LeftOrderly
<1>15. j \in On(t) /\ t.sym[j].sp = "label" =>
         (\E p \in 1 .. Len(lt) : j = lt[p]) \/ (\E q \in DOMAIN gt : j = gt[q])
  BY LabelPlace
<1>16. j \in On(u) /\ u.sym[j].sp = "label" =>
         (\E p \in 1 .. Len(lu) : j = lu[p]) \/ (\E q \in DOMAIN gu : j = gu[q])
  BY <1>14, LabelPlace
<1>17. /\ j \in LabelsIn(t, g, r) <=> j \in On(t) /\ j \notin g /\ t.sym[j].sp = "label" /\ t.sym[j].r = r
       /\ j \in LabelsIn(u, h, r) <=> j \in On(u) /\ j \notin h /\ u.sym[j].sp = "label" /\ u.sym[j].r = r
  BY DEF LabelsIn
<1>18. /\ \A p \in 1 .. b : p \in 1 .. Len(lt) /\ p \in 1 .. Len(lu) /\ p \notin b + 1 .. Len(lt)
       /\ \A p \in b + 1 .. Len(lt) : p \in 1 .. Len(lt)
       /\ \A p \in 1 .. Len(lt) : p \in 1 .. b \/ p \in b + 1 .. Len(lt)
       /\ \A p \in 1 .. Len(lu) : p \in 1 .. b \/ p \in b + 1 .. Len(lu)
  BY <1>3, <1>6
<1> HIDE DEF b, lt, lu, gt, gu
<1>19. ASSUME j \in LabelsIn(u, h, r) PROVE j \in LabelsIn(t, g, r) /\ ~InClosing(t, g, c, j)
  <2>1. j \in On(u) /\ j \notin h /\ u.sym[j].sp = "label" /\ u.sym[j].r = r BY <1>17, <1>19
  <2>2. ASSUME NEW p \in 1 .. Len(lu), j = lu[p]
        PROVE  j \in LabelsIn(t, g, r) /\ ~InClosing(t, g, c, j)
    <3>1. p \in 1 .. b BY <1>6, <1>18, <2>1, <2>2
    <3>2. j = lt[p] /\ u.sym[j] = t.sym[j] /\ j \notin g BY <1>6, <2>1, <2>2, <3>1
    <3>3. p \in 1 .. Len(lt) /\ p \notin b + 1 .. Len(lt) BY <1>18, <3>1
    <3>4. j \in LabelsIn(t, g, r) BY <1>12, <1>17, <2>1, <3>2, <3>3
    <3>5. ~InClosing(t, g, c, j) BY <1>9, <1>13, <1>18, <3>2, <3>3
    <3>6. QED BY <3>4, <3>5
  <2>3. ASSUME NEW q \in DOMAIN gu, j = gu[q]
        PROVE  j \in LabelsIn(t, g, r) /\ ~InClosing(t, g, c, j)
    <3>1. Len(c) # 1 BY <1>8
    <3>2. q \in DOMAIN gt /\ j = gt[q] /\ u.sym[j] = t.sym[j] BY <1>7, <2>3, <3>1
    <3>3. j \in LabelsIn(t, g, r) BY <1>10, <1>12, <1>17, <2>1, <3>2
    <3>4. ~InClosing(t, g, c, j) BY <1>9, <1>13, <1>18, <3>1, <3>2
    <3>5. QED BY <3>3, <3>4
  <2>4. QED BY <1>16, <2>1, <2>2, <2>3
<1>20. ASSUME j \in LabelsIn(t, g, r), ~InClosing(t, g, c, j) PROVE j \in LabelsIn(u, h, r)
  <2>1. j \in On(t) /\ j \notin g /\ t.sym[j].sp = "label" /\ t.sym[j].r = r BY <1>17, <1>20
  <2>2. ASSUME NEW p \in 1 .. Len(lt), j = lt[p] PROVE j \in LabelsIn(u, h, r)
    <3>1. p \in 1 .. b BY <1>9, <1>18, <1>20, <2>1, <2>2
    <3>2. j = lu[p] /\ u.sym[j] = t.sym[j] /\ j \notin h BY <1>6, <2>1, <2>2, <3>1
    <3>3. p \in 1 .. Len(lu) BY <1>18, <3>1
    <3>4. QED BY <1>12, <1>17, <2>1, <3>2, <3>3
  <2>3. ASSUME NEW q \in DOMAIN gt, j = gt[q] PROVE j \in LabelsIn(u, h, r)
    <3>1. Len(c) # 1 BY <1>9, <1>20, <2>3
    <3>2. q \in DOMAIN gu /\ j = gu[q] /\ u.sym[j] = t.sym[j] BY <1>7, <2>3, <3>1
    <3>3. QED BY <1>11, <1>12, <1>17, <2>1, <3>2
  <2>4. QED BY <1>15, <2>1, <2>2, <2>3
<1>21. QED BY <1>19, <1>20

\* The frames without the last one
Closes(c, d) ==
    /\ Len(c) > 0 /\ Len(d) = Len(c) - 1
    /\ \A j \in 1 .. Len(d) : d[j].s = c[j].s /\ d[j].l = c[j].l /\ d[j].loop = c[j].loop

\* A scope that is freed is left.
LEMMA CutLeft ==
    ASSUME NEW t, NEW g, NEW c, Tidy(t, g, c), Orderly(t, g, c), NEW u \in Table, NEW d, Closes(c, d),
           \A st \in Stacks : StaysOn(u, t, st),
           Len(u.stack["local"]) = c[Len(c)].s, Len(u.stack["local_label"]) >= c[Len(c)].l,
           \A p \in c[Len(c)].l + 1 .. Len(u.stack["local_label"]) : t.stack["local_label"][p] \in g,
           Len(u.stack["global"]) = Len(t.stack["global"]),
           Len(u.stack["global_label"]) = IF Len(c) = 1 THEN 0 ELSE Len(t.stack["global_label"]),
           NEW h, h = g \cap On(u)
    PROVE  Left(t, g, c, u, h, d)
<1> DEFINE n == Len(c)
<1>1. t \in Table /\ Frames(t, c) BY DEF Tidy, Sound
<1>2. n \in Nat /\ n \in 1 .. n
  <2>1. n \in Nat /\ n > 0 BY <1>1, FramesParts DEF Closes
  <2>2. QED BY <2>1
<1>3. \A st \in Stacks : /\ DOMAIN t.stack[st] = 1 .. Len(t.stack[st]) /\ Len(t.stack[st]) \in Nat
                         /\ DOMAIN u.stack[st] = 1 .. Len(u.stack[st]) /\ Len(u.stack[st]) \in Nat
  BY <1>1, TableParts
<1>4. \A st \in Stacks : \A p \in 1 .. Len(u.stack[st]) :
         /\ u.stack[st][p] = t.stack[st][p] /\ u.sym[u.stack[st][p]] = t.sym[u.stack[st][p]]
         /\ p \in 1 .. Len(t.stack[st])
  <2>1. ASSUME NEW st \in Stacks, NEW p \in 1 .. Len(u.stack[st])
        PROVE  /\ u.stack[st][p] = t.stack[st][p] /\ u.sym[u.stack[st][p]] = t.sym[u.stack[st][p]]
               /\ p \in 1 .. Len(t.stack[st])
    <3>1. StaysOn(u, t, st) OBVIOUS
    <3>2. Len(t.stack[st]) >= Len(u.stack[st]) BY <3>1 DEF StaysOn
    <3>3. u.stack[st][p] = t.stack[st][p] /\ u.sym[u.stack[st][p]] = t.sym[u.stack[st][p]]
      BY <3>1 DEF StaysOn
    <3>4. p \in 1 .. Len(t.stack[st]) BY <1>3, <3>2
    <3>5. QED BY <3>3, <3>4
  <2>2. QED BY <2>1
<1>5. \A i : i \in On(u) => u.sym[i] = t.sym[i]
  <2>1. ASSUME NEW i \in On(u) PROVE u.sym[i] = t.sym[i]
    <3>1. PICK st \in Stacks : \E p \in DOMAIN u.stack[st] : i = u.stack[st][p] BY OnStacks
    <3>2. PICK p \in DOMAIN u.stack[st] : i = u.stack[st][p] BY <3>1
    <3>3. p \in 1 .. Len(u.stack[st]) BY <1>3, <3>2
    <3>4. QED BY <1>4, <3>2, <3>3
  <2>2. QED BY <2>1
<1>6. ASSUME NEW sp \in Spaces
      PROVE  /\ LocalStack(sp) \in Stacks /\ GlobalStack(sp) \in Stacks
             /\ sp = "label" => LocalStack(sp) = "local_label" /\ GlobalStack(sp) = "global_label"
             /\ sp # "label" => LocalStack(sp) = "local" /\ GlobalStack(sp) = "global"
  BY DEF LocalStack, GlobalStack, Stacks
<1>7. "local" \in Stacks /\ "local_label" \in Stacks BY DEF Stacks
<1>8. c[n].s \in Nat /\ c[n].l \in Nat BY <1>1, <1>2, FramesParts
<1>9. KeptOrderly(u, h)
  <2>1. KeptOrderly(t, g) BY DEF Orderly
  <2>2. \A i \in h : i \in g /\ u.sym[i] = t.sym[i] BY <1>5
  <2>3. \A p \in DOMAIN u.stack["local"] :
           p \in DOMAIN t.stack["local"] /\ u.stack["local"][p] = t.stack["local"][p]
           /\ u.sym[u.stack["local"][p]] = t.sym[u.stack["local"][p]]
    BY <1>3, <1>4, <1>7
  <2>4. QED BY <2>1, <2>2, <2>3 DEF KeptOrderly
<1>10. ASSUME NEW sp \in Spaces PROVE Remains(t, u, g, h, sp, Start(c, sp, n))
  <2> DEFINE b == Start(c, sp, n)
  <2>1. Local(u, sp) = u.stack[LocalStack(sp)] /\ Local(t, sp) = t.stack[LocalStack(sp)] BY DEF Local
  <2>2. b = IF sp = "label" THEN c[n].l ELSE c[n].s BY DEF Start
  <2> HIDE DEF b
  <2>3. b <= Len(Local(u, sp))
    <3>1. CASE sp = "label" BY <1>6, <2>1, <2>2, <3>1
    <3>2. CASE sp # "label"
      <4>1. Len(Local(u, sp)) = b BY <1>6, <2>1, <2>2, <3>2
      <4>2. b \in Nat BY <1>8, <2>2
      <4>3. QED BY <4>1, <4>2
    <3>3. QED BY <3>1, <3>2
  <2>4. b \in Nat /\ Len(Local(u, sp)) \in Nat BY <1>3, <1>6, <1>8, <2>1, <2>2
  <2>5. ASSUME NEW p \in 1 .. Len(Local(u, sp))
        PROVE  LET i == Local(t, sp)[p]
               IN Local(u, sp)[p] = i /\ u.sym[i] = t.sym[i] /\ (i \in h <=> i \in g)
    <3>1. Local(u, sp)[p] = Local(t, sp)[p] /\ u.sym[Local(t, sp)[p]] = t.sym[Local(t, sp)[p]]
      BY <1>4, <1>6, <2>1
    <3>2. Local(u, sp)[p] \in On(u) BY PlacesOn
    <3>3. QED BY <3>1, <3>2
  <2>6. ASSUME NEW p \in b + 1 .. Len(Local(u, sp)) PROVE Local(u, sp)[p] \in h
    <3>1. p \in 1 .. Len(Local(u, sp)) BY <2>4
    <3>2. sp = "label"
      <4>1. SUFFICES ASSUME sp # "label" PROVE FALSE OBVIOUS
      <4>2. Len(Local(u, sp)) = b BY <1>6, <2>1, <2>2, <4>1
      <4>3. QED BY <2>4, <4>2
    <3>3. Local(t, sp)[p] \in g BY <1>6, <2>1, <2>2, <3>2
    <3>4. QED BY <2>5, <3>1, <3>3
  <2>7. \A p \in 1 .. b : p \in 1 .. Len(Local(u, sp)) BY <2>3, <2>4
  <2>8. Remains(t, u, g, h, sp, b) BY <2>3, <2>5, <2>6, <2>7 DEF Remains
  <2>9. QED BY <2>8 DEF b
<1>11. ASSUME NEW sp \in Spaces
       PROVE  IF sp = "label" /\ Len(c) = 1 THEN DOMAIN Global(u, sp) = {} ELSE SameGlobal(t, u, sp)
  <2>1. Global(u, sp) = u.stack[GlobalStack(sp)] /\ Global(t, sp) = t.stack[GlobalStack(sp)] BY DEF Global
  <2>2. CASE sp = "label" /\ Len(c) = 1
    <3>1. Len(Global(u, sp)) = 0 BY <1>6, <2>1, <2>2
    <3>2. DOMAIN Global(u, sp) = 1 .. Len(Global(u, sp)) BY <1>3, <1>6, <2>1
    <3>3. QED BY <2>2, <3>1, <3>2
  <2>3. CASE ~(sp = "label" /\ Len(c) = 1)
    <3>1. Len(Global(u, sp)) = Len(Global(t, sp))
      <4>1. CASE sp = "label" BY <1>6, <2>1, <2>3, <4>1
      <4>2. CASE sp # "label" BY <1>6, <2>1, <4>2
      <4>3. QED BY <4>1, <4>2
    <3>2. DOMAIN Global(u, sp) = 1 .. Len(Global(u, sp)) /\ DOMAIN Global(t, sp) = 1 .. Len(Global(t, sp))
      BY <1>3, <1>6, <2>1
    <3>3. \A q \in DOMAIN Global(u, sp) : /\ Global(u, sp)[q] = Global(t, sp)[q]
                                          /\ u.sym[Global(u, sp)[q]] = t.sym[Global(u, sp)[q]]
      BY <1>4, <1>6, <2>1, <3>2
    <3>4. SameGlobal(t, u, sp) BY <3>1, <3>2, <3>3 DEF SameGlobal
    <3>5. QED BY <2>3, <3>4
  <2>4. QED BY <2>2, <2>3
<1>12. QED BY <1>9, <1>10, <1>11 DEF Left, Closes

\* ... and one whose symbols are kept, if its labels are defined.
LEMMA KeptLeft ==
    ASSUME NEW t, NEW g, NEW c, Tidy(t, g, c), Orderly(t, g, c), NEW u \in Table, NEW d, Closes(c, d),
           Len(c) > 1, SameSymbols(t, u),
           NEW h, h = (g \cup {t.stack["local"][p] : p \in c[Len(c)].s + 1 .. Len(t.stack["local"])})
                        \cup {t.stack["local_label"][p] :
                                 p \in c[Len(c)].l + 1 .. Len(t.stack["local_label"])},
           \A p \in c[Len(c)].l + 1 .. Len(t.stack["local_label"]) :
               t.sym[t.stack["local_label"][p]].r # "forward"
    PROVE  Left(t, g, c, u, h, d)
<1> DEFINE n == Len(c)
<1>1. t \in Table /\ Frames(t, c) /\ Apart(t) /\ GoneLocal(t, g) BY DEF Tidy, Sound
<1>2. n \in Nat /\ n \in 1 .. n /\ n # 1
  <2>1. n \in Nat BY <1>1, FramesParts
  <2>2. QED BY <2>1
<1>3. /\ c[n].s \in Nat /\ c[n].l \in Nat
      /\ c[n].s <= Len(t.stack["local"]) /\ c[n].l <= Len(t.stack["local_label"])
      /\ Len(t.stack["local"]) \in Nat /\ Len(t.stack["local_label"]) \in Nat
  <2>1. "local" \in Stacks /\ "local_label" \in Stacks BY DEF Stacks
  <2>2. Len(t.stack["local"]) \in Nat /\ Len(t.stack["local_label"]) \in Nat BY <1>1, <2>1, TableParts
  <2>3. c[n].s \in 0 .. Len(t.stack["local"]) /\ c[n].l \in 0 .. Len(t.stack["local_label"])
    BY <1>1, <1>2 DEF Frames
  <2>4. QED BY <2>2, <2>3
<1>4. ASSUME NEW sp \in Spaces
      PROVE  /\ LocalStack(sp) \in Stacks /\ GlobalStack(sp) \in Stacks
             /\ sp = "label" => LocalStack(sp) = "local_label"
             /\ sp # "label" => LocalStack(sp) = "local"
  BY DEF LocalStack, GlobalStack, Stacks
<1>5. \A st \in Stacks : u.stack[st] = t.stack[st] /\ DOMAIN t.stack[st] = 1 .. Len(t.stack[st])
                         /\ \A p \in 1 .. Len(t.stack[st]) : t.stack[st][p] \in Syms
  BY <1>1, TableParts DEF SameSymbols
<1>6. \A i \in Syms : u.sym[i] = t.sym[i] BY DEF SameSymbols
<1>7. "local" \in Stacks /\ "local_label" \in Stacks BY DEF Stacks
<1>8. \A p \in c[n].s + 1 .. Len(t.stack["local"]) : p \in 1 .. Len(t.stack["local"]) BY <1>3
<1>9. \A p \in c[n].l + 1 .. Len(t.stack["local_label"]) : p \in 1 .. Len(t.stack["local_label"]) BY <1>3
<1>10. KeptOrderly(t, g) BY DEF Orderly
<1>11. KeptOrderly(u, h)
  <2>1. ASSUME NEW i \in g PROVE u.sym[i].sp = "label" => u.sym[i].r # "forward"
    <3>1. PICK sp \in Spaces : \E p \in DOMAIN Local(t, sp) : i = Local(t, sp)[p] BY <1>1 DEF GoneLocal
    <3>2. i \in Syms BY <1>1, <3>1, LocalParts
    <3>3. QED BY <1>6, <1>10, <3>2 DEF KeptOrderly
  <2>2. ASSUME NEW p \in 1 .. Len(t.stack["local"])
        PROVE  u.sym[t.stack["local"][p]].sp # "label"
    BY <1>5, <1>6, <1>7, <1>10 DEF KeptOrderly
  <2>3. ASSUME NEW p \in c[n].l + 1 .. Len(t.stack["local_label"])
        PROVE  u.sym[t.stack["local_label"][p]].r # "forward"
    BY <1>5, <1>6, <1>7, <1>9
  <2>4. \A i \in h : u.sym[i].sp = "label" => u.sym[i].r # "forward" BY <1>8, <2>1, <2>2, <2>3
  <2>5. \A p \in DOMAIN u.stack["local"] : u.sym[u.stack["local"][p]].sp # "label"
    BY <1>5, <1>7, <2>2
  <2>6. QED BY <2>4, <2>5 DEF KeptOrderly
<1>12. ASSUME NEW sp \in Spaces PROVE Remains(t, u, g, h, sp, Start(c, sp, n))
  <2> DEFINE b == Start(c, sp, n)
  <2>1. Local(u, sp) = Local(t, sp) /\ Local(t, sp) = t.stack[LocalStack(sp)] BY <1>4, <1>5 DEF Local
  <2>2. b = IF sp = "label" THEN c[n].l ELSE c[n].s BY DEF Start
  <2> HIDE DEF b
  <2>3. b \in Nat /\ Len(Local(t, sp)) \in Nat /\ b <= Len(Local(t, sp)) BY <1>3, <1>4, <2>1, <2>2
  <2>4. ASSUME NEW p \in 1 .. b
        PROVE  LET i == Local(t, sp)[p]
               IN Local(u, sp)[p] = i /\ u.sym[i] = t.sym[i] /\ (i \in h <=> i \in g)
    <3> DEFINE i == Local(t, sp)[p]
    <3>1. p \in 1 .. Len(Local(t, sp)) BY <2>3
    <3>2. i \in Syms /\ i = t.stack[LocalStack(sp)][p] /\ p \in DOMAIN t.stack[LocalStack(sp)]
      BY <1>4, <1>5, <2>1, <3>1
    <3> HIDE DEF i
    <3>3. ASSUME NEW q \in c[n].s + 1 .. Len(t.stack["local"]), i = t.stack["local"][q] PROVE FALSE
      <4>1. q \in DOMAIN t.stack["local"] BY <1>5, <1>7, <1>8
      <4>2. LocalStack(sp) = "local" /\ p = q
        <5>1. t.stack[LocalStack(sp)][p] = t.stack["local"][q] BY <3>2, <3>3
        <5>2. LocalStack(sp) \in Stacks /\ Apart(t) BY <1>1, <1>4
        <5>3. QED BY <1>7, <3>2, <4>1, <5>1, <5>2 DEF Apart
      <4>3. sp # "label" BY <1>4, <4>2
      <4>4. p <= c[n].s /\ p > c[n].s BY <1>3, <2>2, <4>2, <4>3
      <4>5. QED BY <1>3, <4>4
    <3>4. ASSUME NEW q \in c[n].l + 1 .. Len(t.stack["local_label"]), i = t.stack["local_label"][q] PROVE FALSE
      <4>1. q \in DOMAIN t.stack["local_label"] BY <1>5, <1>7, <1>9
      <4>2. LocalStack(sp) = "local_label" /\ p = q
        <5>1. t.stack[LocalStack(sp)][p] = t.stack["local_label"][q] BY <3>2, <3>4
        <5>2. LocalStack(sp) \in Stacks /\ Apart(t) BY <1>1, <1>4
        <5>3. QED BY <1>7, <3>2, <4>1, <5>1, <5>2 DEF Apart
      <4>3. sp = "label" BY <1>4, <4>2
      <4>4. p <= c[n].l /\ p > c[n].l BY <1>3, <2>2, <4>2, <4>3
      <4>5. QED BY <1>3, <4>4
    <3>5. i \in h <=> i \in g BY <3>3, <3>4
    <3>6. QED BY <1>6, <2>1, <3>2, <3>5 DEF i
  <2>5. ASSUME NEW p \in b + 1 .. Len(Local(u, sp)) PROVE Local(u, sp)[p] \in h
    <3>1. CASE sp = "label" BY <1>4, <2>1, <2>2, <3>1
    <3>2. CASE sp # "label" BY <1>4, <2>1, <2>2, <3>2
    <3>3. QED BY <3>1, <3>2
  <2>6. b <= Len(Local(u, sp)) BY <2>1, <2>3
  <2>7. Remains(t, u, g, h, sp, b) BY <2>4, <2>5, <2>6 DEF Remains
  <2>8. QED BY <2>7 DEF b
<1>13. ASSUME NEW sp \in Spaces PROVE SameGlobal(t, u, sp)
  <2>1. Global(u, sp) = Global(t, sp) BY <1>4, <1>5 DEF Global
  <2>2. \A q \in DOMAIN Global(t, sp) : Global(t, sp)[q] \in Syms BY <1>1, LocalParts
  <2>3. QED BY <1>6, <2>1, <2>2 DEF SameGlobal
<1>14. QED BY <1>2, <1>11, <1>12, <1>13 DEF Left, Closes

\* A list is known by its elements.
LEMMA ListIs ==
    ASSUME NEW n \in Nat, NEW s, s = [k \in 1 .. n |-> s[k]]
    PROVE  /\ Len(s) = n /\ DOMAIN s = 1 .. n
           /\ \A m \in 0 .. n : SubSeq(s, 1, m) = [k \in 1 .. m |-> s[k]]
<1> DEFINE S == {s[k] : k \in 1 .. n}
<1>1. s \in [1 .. n -> S] OBVIOUS
<1> HIDE DEF S
<1>2. s \in Seq(S) BY <1>1, SeqDef
<1>3. DOMAIN s = 1 .. n /\ Len(s) = n
  <2>1. DOMAIN s = 1 .. Len(s) /\ Len(s) \in Nat BY <1>2, LenProperties
  <2>2. DOMAIN s = 1 .. n BY <1>1
  <2>3. QED BY <2>1, <2>2
<1>4. ASSUME NEW m \in 0 .. n PROVE SubSeq(s, 1, m) = [k \in 1 .. m |-> s[k]]
  <2>1. /\ SubSeq(s, 1, m) \in Seq(S) /\ Len(SubSeq(s, 1, m)) = m
        /\ \A k \in 1 .. m : SubSeq(s, 1, m)[k] = s[k]
    BY <1>2, <1>3
  <2>2. DOMAIN SubSeq(s, 1, m) = 1 .. m BY <2>1
  <2>3. QED BY <2>1, <2>2
<1>5. QED BY <1>3, <1>4

\* The list s has the declarations of frames c, and one more scope than these.
Listed(s, t, g, c) ==
    /\ Len(c) \in Nat /\ Len(s) = Len(c) + 1 /\ DOMAIN s = 1 .. Len(c) + 1
    /\ \A k \in 1 .. Len(c) + 1, sp \in Spaces, v \in Names : s[k][sp][v] = DeclaredIn(t, g, c, k, sp, v)
    /\ \A m \in 0 .. Len(c) + 1 : SubSeq(s, 1, m) = [k \in 1 .. m |-> s[k]]

\* The scopes of the tables are such a list.
LEMMA ScopesInIs ==
    ASSUME NEW t, NEW g, NEW c, Tidy(t, g, c)
    PROVE  Listed(ScopesIn(t, g, c), t, g, c)
<1> DEFINE s == ScopesIn(t, g, c)
           n == Len(c) + 1
<1>1. Len(c) \in Nat BY FramesParts DEF Tidy
<1>2. s = [k \in 1 .. n |-> s[k]]
      /\ \A k \in 1 .. n, sp \in Spaces, v \in Names : s[k][sp][v] = DeclaredIn(t, g, c, k, sp, v)
  BY DEF ScopesIn
<1>3. n \in Nat BY <1>1
<1> HIDE DEF s, n
<1>4. /\ Len(s) = n /\ DOMAIN s = 1 .. n
      /\ \A m \in 0 .. n : SubSeq(s, 1, m) = [k \in 1 .. m |-> s[k]]
  BY <1>2, <1>3, ListIs
<1>5. Listed(s, t, g, c) BY <1>1, <1>2, <1>4 DEF Listed, n
<1>6. QED BY <1>5 DEF s

\* Two lists of scopes that declare the same are equal.
LEMMA ScopesEqual ==
    ASSUME NEW t, NEW g, NEW c, NEW u, NEW h, NEW d, Len(c) = Len(d),
           \A k \in 1 .. Len(c) + 1, sp \in Spaces, v \in Names :
               DeclaredIn(u, h, d, k, sp, v) = DeclaredIn(t, g, c, k, sp, v)
    PROVE  ScopesIn(u, h, d) = ScopesIn(t, g, c)
BY DEF ScopesIn

\* The labels of the last of the scopes s, and that they are not still to be defined
ClosingOf(s) == {s[Len(s)]["label"][v] : v \in Names}
AllDefined(t, g, c) == \A j \in LabelsIn(t, g, "forward") : ~InClosing(t, g, c, j)

\* The last scope is left: Leave of Environment.
Leaves(t, g, c, u, h, d) ==
    LET s == ScopesIn(t, g, c)
    IN /\ Len(s) > 1 /\ ClosingOf(s) \cap LabelsIn(t, g, "forward") = {}
       /\ ScopesIn(u, h, d) = SubSeq(s, 1, Len(s) - 1)
       /\ LabelsIn(u, h, "defined") = LabelsIn(t, g, "defined") \ ClosingOf(s)
       /\ LabelsIn(u, h, "forward") = LabelsIn(t, g, "forward")

\* What leaving a scope is for Environment
LEMMA LeaveIs ==
    ASSUME NEW t, NEW g, NEW c, Tidy(t, g, c), Orderly(t, g, c), NEW u, NEW h, NEW d, Tidy(u, h, d),
           Left(t, g, c, u, h, d), AllDefined(t, g, c)
    PROVE  Leaves(t, g, c, u, h, d)
<1> DEFINE s == ScopesIn(t, g, c)
           w == ScopesIn(u, h, d)
           closing == {s[Len(s)]["label"][v] : v \in Names}
<1>1. t \in Table /\ "label" \in Spaces BY DEF Tidy, Sound, Spaces
<1>2. /\ Len(c) \in Nat /\ Len(s) = Len(c) + 1
      /\ \A k \in 1 .. Len(c) + 1, sp \in Spaces, v \in Names : s[k][sp][v] = DeclaredIn(t, g, c, k, sp, v)
      /\ \A m \in 0 .. Len(c) + 1 : SubSeq(s, 1, m) = [k \in 1 .. m |-> s[k]]
  <2>1. Listed(s, t, g, c) BY ScopesInIs
  <2> HIDE DEF s
  <2>2. QED BY <2>1 DEF Listed
<1> HIDE DEF s
<1>3. Len(d) = Len(c) - 1 /\ Len(c) > 0 BY DEF Left
<1>4. Len(d) \in Nat /\ Len(s) > 1 /\ Len(s) - 1 = Len(d) + 1 /\ Len(c) = Len(d) + 1
      /\ Len(c) \in 0 .. Len(c) + 1 /\ Len(s) \in 1 .. Len(c) + 1
  BY <1>2, <1>3
<1>5. \A j : j # NULL => (j \in closing <=> InClosing(t, g, c, j))
  <2>1. closing = {DeclaredIn(t, g, c, Len(c) + 1, "label", v) : v \in Names} BY <1>1, <1>2, <1>4
  <2>2. ASSUME NEW j, j # NULL PROVE j \in closing <=> InClosing(t, g, c, j)
    <3>1. (\E v \in Names : j = DeclaredIn(t, g, c, Len(c) + 1, "label", v)) <=> InClosing(t, g, c, j)
      BY <1>3, <2>2, ClosingIs
    <3>2. j \in closing <=> \E v \in Names : j = DeclaredIn(t, g, c, Len(c) + 1, "label", v) BY <2>1
    <3>3. QED BY <3>1, <3>2
  <2>3. QED BY <2>2
<1>6. \A r : \A j \in LabelsIn(t, g, r) : j # NULL
  <2>1. \A r : \A j \in LabelsIn(t, g, r) : j \in On(t) BY DEF LabelsIn
  <2>2. QED BY <1>1, <2>1, OnStacks, SymsNotNull
<1>7. \A r, j : j \in LabelsIn(u, h, r) <=> j \in LabelsIn(t, g, r) /\ ~InClosing(t, g, c, j)
  BY LeftLabels
<1>8. SubSeq(s, 1, Len(s) - 1) = [k \in 1 .. Len(c) |-> s[k]] BY <1>2, <1>4
<1>9. w = [k \in 1 .. Len(c) |-> s[k]]
  <2>1. \A k \in 1 .. Len(d) + 1 : k \in 1 .. Len(c) + 1 BY <1>4
  <2>2. s = [k \in 1 .. Len(c) + 1 |-> [sp \in Spaces |-> [v \in Names |-> DeclaredIn(t, g, c, k, sp, v)]]]
    BY DEF ScopesIn, s
  <2>3. \A k \in 1 .. Len(d) + 1, sp \in Spaces, v \in Names :
           DeclaredIn(u, h, d, k, sp, v) = DeclaredIn(t, g, c, k, sp, v)
    BY LeftDeclared
  <2>4. w = [k \in 1 .. Len(d) + 1 |-> [sp \in Spaces |-> [v \in Names |-> DeclaredIn(u, h, d, k, sp, v)]]]
    BY DEF ScopesIn
  <2>5. w = [k \in 1 .. Len(d) + 1 |-> [sp \in Spaces |-> [v \in Names |-> DeclaredIn(t, g, c, k, sp, v)]]]
    BY <2>3, <2>4
  <2>6. QED BY <1>4, <2>1, <2>2, <2>5
<1>0. \A j \in LabelsIn(t, g, "forward") : ~InClosing(t, g, c, j) BY DEF AllDefined
<1> HIDE DEF w, closing
<1>10. closing \cap LabelsIn(t, g, "forward") = {} BY <1>0, <1>5, <1>6
<1>11. \A j : j \in LabelsIn(u, h, "defined") <=> j \in LabelsIn(t, g, "defined") /\ j \notin closing
  BY <1>5, <1>6, <1>7
<1>12. \A j : j \in LabelsIn(u, h, "forward") <=> j \in LabelsIn(t, g, "forward") BY <1>0, <1>7
<1>13. /\ LabelsIn(u, h, "defined") = LabelsIn(t, g, "defined") \ closing
       /\ LabelsIn(u, h, "forward") = LabelsIn(t, g, "forward")
  BY <1>11, <1>12
<1>14. ScopesIn(u, h, d) = SubSeq(s, 1, Len(s) - 1) BY <1>8, <1>9 DEF w
<1>15. closing = ClosingOf(s) BY DEF ClosingOf, closing
<1>16. QED BY <1>4, <1>10, <1>13, <1>14, <1>15 DEF Leaves, s

-----------------------------------------------------------------------------
(* What Environment says of a step                                         *)

\* After an error that ends the process the tables are empty.
RInv == Orderly(tab, gone, ctx) /\ (msg # "" => tab = NoTable)

\* The scopes and labels before and after a step
LEMMA OpenIs ==
    ASSUME IInv, IInv'
    PROVE  /\ OpenScopes = ScopesIn(tab, gone, ctx) /\ OpenScopes' = ScopesIn(tab', gone', ctx')
           /\ \A r : Labels(r) = LabelsIn(tab, gone, r) /\ Labels(r)' = LabelsIn(tab', gone', r)
<1>1. Len(ctx) \in Nat BY FramesParts DEF IInv, Tidy
<1>2. Len(ctx') \in Nat
  <2>1. Frames(tab', ctx') BY DEF IInv, Tidy
  <2>2. QED BY <2>1, FramesParts
<1>3. \A k \in 1 .. Len(ctx) + 1 : k \in Nat BY <1>1
<1>4. \A k \in 1 .. Len(ctx') + 1 : k \in Nat BY <1>2
<1>5. OpenScopes = ScopesIn(tab, gone, ctx)
  <2>1. \A k \in 1 .. Len(ctx) + 1, sp \in Spaces, v \in Names :
           Declared(k, sp, v) = DeclaredIn(tab, gone, ctx, k, sp, v)
    BY <1>3, DeclaredIs
  <2>2. QED BY <2>1 DEF OpenScopes, ScopesIn
<1>6. OpenScopes' = ScopesIn(tab', gone', ctx')
  <2>1. \A k \in 1 .. Len(ctx') + 1, sp \in Spaces, v \in Names :
           Declared(k, sp, v)' = DeclaredIn(tab', gone', ctx', k, sp, v)
    BY <1>4, DeclaredIs
  <2>2. QED BY <2>1 DEF OpenScopes, ScopesIn
<1>7. \A r : Labels(r) = LabelsIn(tab, gone, r) /\ Labels(r)' = LabelsIn(tab', gone', r)
  BY DEF Labels, LabelsIn, On
<1>8. QED BY <1>5, <1>6, <1>7

\* A step that Environment accepts
EnvAccepts == Env!Enter \/ Env!Declare \/ Env!UseLabel \/ Env!DefineLabel \/ Env!Leave

\* Names mean what Environment says after every step that it accepts.
LEMMA AcceptIs ==
    ASSUME IInv, IInv', Orderly(tab', gone', ctx'), msg' = "", EnvAccepts
    PROVE  RInv' /\ Env!Accept
<1>1. OpenScopes' = ScopesIn(tab', gone', ctx') BY OpenIs
<1>2. Tidy(tab', gone', ctx') BY DEF IInv
<1>3. tab'.head = Env!Meaning(ScopesIn(tab', gone', ctx')) BY <1>2, HeadsMean
<1>4. RInv' BY DEF RInv
<1>5. \E after \in {OpenScopes'} : tab'.head = Env!Meaning(after) BY <1>1, <1>3
<1>6. Env!Accept BY <1>5 DEF EnvAccepts, Env!Accept
<1>7. QED BY <1>4, <1>6

\* A scope is left.
LEMMA EnvLeave ==
    ASSUME IInv, IInv', RInv, msg' = "", Left(tab, gone, ctx, tab', gone', ctx'),
           AllDefined(tab, gone, ctx)
    PROVE  RInv' /\ Env!Accept
<1> DEFINE s == OpenScopes
<1>1. /\ s = ScopesIn(tab, gone, ctx) /\ OpenScopes' = ScopesIn(tab', gone', ctx')
      /\ \A r : Labels(r) = LabelsIn(tab, gone, r) /\ Labels(r)' = LabelsIn(tab', gone', r)
  BY OpenIs
<1>2. Tidy(tab, gone, ctx) /\ Tidy(tab', gone', ctx') /\ Orderly(tab, gone, ctx) BY DEF IInv, RInv
<1>3. Env!Depth = Len(s) BY DEF Env!Depth
<1>4. Env!Closing = ClosingOf(s) BY <1>3 DEF Env!Closing, ClosingOf
<1> HIDE DEF s
<1>5. /\ Len(s) > 1 /\ ClosingOf(s) \cap LabelsIn(tab, gone, "forward") = {}
      /\ ScopesIn(tab', gone', ctx') = SubSeq(s, 1, Len(s) - 1)
      /\ LabelsIn(tab', gone', "defined") = LabelsIn(tab, gone, "defined") \ ClosingOf(s)
      /\ LabelsIn(tab', gone', "forward") = LabelsIn(tab, gone, "forward")
  <2>1. Leaves(tab, gone, ctx, tab', gone', ctx') BY <1>2, LeaveIs
  <2>2. QED BY <1>1, <2>1 DEF Leaves
<1>6. Orderly(tab', gone', ctx') BY <1>2, LeftOrderly
<1>7. Env!Leave BY <1>1, <1>3, <1>4, <1>5 DEF Env!Leave, s
<1>8. QED BY <1>6, <1>7, AcceptIs DEF EnvAccepts

\* Tables whose stacks are empty stand for a file in which nothing is declared.
LEMMA EmptyTables ==
    ASSUME NEW t, NEW g, NEW c, Tidy(t, g, c), Len(c) = 0, \A st \in Stacks : Len(t.stack[st]) = 0
    PROVE  /\ Orderly(t, g, c) /\ ScopesIn(t, g, c) = <<Env!Empty>> /\ t.head = Env!Empty
           /\ \A r : LabelsIn(t, g, r) = {}
<1>1. t \in Table /\ GoneLocal(t, g) BY DEF Tidy, Sound
<1>2. \A st \in Stacks : DOMAIN t.stack[st] = {}
  <2>1. \A st \in Stacks : DOMAIN t.stack[st] = 1 .. Len(t.stack[st]) BY <1>1, TableParts
  <2>2. \A st \in Stacks : 1 .. Len(t.stack[st]) = {} OBVIOUS
  <2>3. QED BY <2>1, <2>2
<1>3. \A sp \in Spaces : DOMAIN Local(t, sp) = {} /\ DOMAIN Global(t, sp) = {}
  BY <1>2, StackNames DEF Local, Global
<1>4. g = {}
  <2>1. SUFFICES ASSUME NEW i \in g PROVE FALSE OBVIOUS
  <2>2. PICK sp \in Spaces : \E p \in DOMAIN Local(t, sp) : i = Local(t, sp)[p] BY <1>1 DEF GoneLocal
  <2>3. QED BY <1>3, <2>2
<1>5. On(t) = {} BY <1>1, <1>2, OnStacks
<1>6. \A r : LabelsIn(t, g, r) = {} BY <1>5 DEF LabelsIn
<1>7. Orderly(t, g, c)
  <2>1. "local" \in Stacks /\ "label" \in Spaces BY DEF Stacks, Spaces
  <2>2. KeptOrderly(t, g) BY <1>2, <1>4, <2>1 DEF KeptOrderly
  <2>3. Len(Global(t, "label")) = 0 BY <2>1, StackNames DEF Global
  <2>4. \A k \in 1 .. Len(c) : ScopeOrderly(t, g, c, k) OBVIOUS
  <2>5. QED BY <2>2, <2>3, <2>4 DEF Orderly
<1>8. \A sp \in Spaces, v \in Names : DeclaredIn(t, g, c, 1, sp, v) = NULL
  <2>1. SUFFICES ASSUME NEW sp \in Spaces, NEW v \in Names PROVE DeclaredIn(t, g, c, 1, sp, v) = NULL
    OBVIOUS
  <2>2. FileWide(t, sp, v, NULL) BY <1>3 DEF FileWide
  <2>3. Means(t, g, c, 1, sp, v, NULL) BY <2>2 DEF Means
  <2>4. 1 \in 1 .. Len(c) + 1 OBVIOUS
  <2>5. QED BY <2>3, <2>4, MeansIs
<1>9. \A sp \in Spaces, v \in Names : t.head[sp][v] = NULL
  <2>1. SUFFICES ASSUME NEW sp \in Spaces, NEW v \in Names PROVE t.head[sp][v] = NULL
    OBVIOUS
  <2> DEFINE s == ScopesIn(t, g, c)
  <2>2. DOMAIN s = 1 .. 1 /\ \A k \in 1 .. 1 : s[k][sp][v] = NULL
    <3>1. /\ DOMAIN s = 1 .. Len(c) + 1
          /\ \A k \in 1 .. Len(c) + 1, sp2 \in Spaces, v2 \in Names :
                s[k][sp2][v2] = DeclaredIn(t, g, c, k, sp2, v2)
      <4>1. Listed(s, t, g, c) BY ScopesInIs
      <4> HIDE DEF s
      <4>2. QED BY <4>1 DEF Listed
    <3>2. 1 .. Len(c) + 1 = 1 .. 1 /\ \A k \in 1 .. 1 : k = 1 OBVIOUS
    <3> HIDE DEF s
    <3>3. QED BY <1>8, <3>1, <3>2
  <2> HIDE DEF s
  <2>3. Env!Innermost(s, sp, v) = NULL BY <2>2, InnermostNone
  <2>4. QED BY <1>7, <2>3, HeadIs DEF s
<1>10. t.head = Env!Empty
  <2>1. t.head \in [Spaces -> [Names -> Syms \cup {NULL}]] BY <1>1 DEF Table
  <2>2. QED BY <1>9, <2>1 DEF Env!Empty, Env!Spaces, Spaces
<1>11. ScopesIn(t, g, c) = <<Env!Empty>>
  <2>1. [sp \in Spaces |-> [v \in Names |-> DeclaredIn(t, g, c, 1, sp, v)]] = Env!Empty
    BY <1>8 DEF Env!Empty, Env!Spaces, Spaces
  <2>2. Len(c) + 1 = 1 OBVIOUS
  <2>3. ScopesIn(t, g, c) = [k \in 1 .. 1 |-> Env!Empty] BY <2>1, <2>2 DEF ScopesIn
  <2> HIDE DEF Env!Empty
  <2>4. QED BY <2>3
<1>12. QED BY <1>6, <1>7, <1>10, <1>11

\* A file ends, or a program is refused.
LEMMA EnvRestart ==
    ASSUME IInv', Len(ctx') = 0, \A st \in Stacks : Len(tab'.stack[st]) = 0,
           msg' # "" => tab' = NoTable, IInv, Env!Reason(msg')
    PROVE  RInv' /\ Env!Restart
<1>1. Tidy(tab', gone', ctx') BY DEF IInv
<1>2. /\ Orderly(tab', gone', ctx') /\ ScopesIn(tab', gone', ctx') = <<Env!Empty>> /\ tab'.head = Env!Empty
      /\ \A r : LabelsIn(tab', gone', r) = {}
  BY <1>1, EmptyTables
<1>3. RInv' BY <1>2 DEF RInv
<1>4. /\ OpenScopes' = ScopesIn(tab', gone', ctx')
      /\ \A r : Labels(r)' = LabelsIn(tab', gone', r)
  BY OpenIs
<1>5. Env!Restart BY <1>2, <1>4 DEF Env!Restart
<1>6. QED BY <1>3, <1>5

\* A program is refused, and the process exits.
LEMMA EnvError ==
    ASSUME PlainDialects, IInv, IInv', NEW t, NEW why, Error(why, t), Env!Reason(why)
    PROVE  RInv' /\ Env!Restart
<1>1. dialect \in Dialects /\ ~dialect.session BY DEF IInv, PlainDialects
<1>2. msg' = why /\ ctx' = <<>> /\ tab' = NoTable BY <1>1 DEF Error
<1>3. \A st \in Stacks : Len(tab'.stack[st]) = 0 BY <1>2 DEF NoTable
<1>4. Len(ctx') = 0 BY <1>2
<1>5. Env!Reason(msg') BY <1>2
<1>6. QED BY <1>2, <1>3, <1>4, <1>5, EnvRestart

\* An error of syntax is a reason.
LEMMA EnvSyntaxError ==
    ASSUME PlainDialects, IInv, IInv', SyntaxError
    PROVE  RInv' /\ Env!Restart
<1>1. Env!Reason("syntax") BY DEF Env!Reason
<1>2. QED BY <1>1, EnvError DEF SyntaxError

\* The end of the file, which no function is open at, empties the tables.
LEMMA EnvEndFile ==
    ASSUME IInv, IInv', RInv, EndFile
    PROVE  RInv' /\ Env!Restart
<1>1. tab \in Table /\ Tidy(tab, gone, ctx) /\ Sound(tab, gone, Begins(ctx)) /\ Frames(tab, ctx) /\ Apart(tab)
  BY DEF IInv, Tidy, Sound
<1>2. ctx = <<>> /\ ctx' = ctx /\ msg' = "" /\ Len(ctx) = 0 BY DEF EndFile
<1>3. Len(tab.stack["local"]) = 0 /\ Len(tab.stack["local_label"]) = 0 BY <1>1, <1>2 DEF Frames
<1>4. Len(tab.stack["global_label"]) = 0 BY <1>2 DEF RInv, Orderly, Global, GlobalStack
<1>5. tab' = Pop(Pop(tab, "global", 0, FALSE), "local", 0, FALSE) BY DEF EndFile
<1> DEFINE t1 == Pop(tab, "global", 0, FALSE)
<1>6. "global" \in Stacks /\ "local" \in Stacks BY DEF Stacks
<1>7. 0 \in 0 .. Len(tab.stack["global"]) BY <1>1, <1>6, TableParts
<1>8. Freed(tab, t1, "global", 0) /\ t1 \in Table BY <1>1, <1>6, <1>7, PopIs
<1>9. \A st \in Stacks : Len(t1.stack[st]) = 0
  <2>1. \A st \in Stacks : Len(t1.stack[st]) = IF st = "global" THEN 0 ELSE Len(tab.stack[st])
    BY <1>8 DEF Freed
  <2> HIDE DEF t1
  <2>2. QED BY <1>3, <1>4, <2>1 DEF Stacks
<1> HIDE DEF t1
<1>10. Apart(t1)
  <2>1. \A st \in Stacks : DOMAIN t1.stack[st] = 1 .. Len(t1.stack[st]) BY <1>8, TableParts
  <2>2. \A st \in Stacks : DOMAIN t1.stack[st] = {} BY <1>9, <2>1
  <2>3. QED BY <2>2 DEF Apart
<1>11. \A st \in Stacks : Len(tab'.stack[st]) = 0
  <2> DEFINE u == Pop(t1, "local", 0, FALSE)
  <2>1. 0 \in 0 .. Len(t1.stack["local"]) BY <1>6, <1>9
  <2>2. Freed(t1, u, "local", 0) BY <1>6, <1>8, <1>10, <2>1, PopIs
  <2>3. \A st \in Stacks : Len(u.stack[st]) = IF st = "local" THEN 0 ELSE Len(t1.stack[st])
    BY <2>2 DEF Freed
  <2>4. tab' = u BY <1>5 DEF t1
  <2>5. QED BY <1>9, <2>3, <2>4
<1>12. Env!Reason(msg')
  <2>1. OpenScopes = ScopesIn(tab, gone, ctx) BY OpenIs
  <2> DEFINE s == ScopesIn(tab, gone, ctx)
  <2>2. Len(s) = 1
    <3>1. Listed(s, tab, gone, ctx) BY <1>1, ScopesInIs
    <3> HIDE DEF s
    <3>2. Len(s) = Len(ctx) + 1 BY <3>1 DEF Listed
    <3>3. Len(ctx) = 0 BY <1>2
    <3>4. QED BY <3>2, <3>3
  <2>3. Env!Depth = 1 BY <2>1, <2>2 DEF Env!Depth
  <2>4. Env!Reason("") BY <2>3 DEF Env!Reason
  <2>5. QED BY <1>2, <2>4
<1>13. Len(ctx') = 0 BY <1>2
<1>14. msg' # "" => tab' = NoTable BY <1>2
<1>15. QED BY <1>11, <1>12, <1>13, <1>14, EnvRestart

\* A block is closed.
LEMMA FrontCloses ==
    ASSUME NEW t \in Table, NEW c, Frames(t, c), Len(c) > 1
    PROVE  Closes(c, Front(c))
<1>1. Len(c) \in Nat BY FramesParts
<1>2. t.stack["local"] \in Seq(Syms) /\ t.stack["local_label"] \in Seq(Syms) BY TableParts DEF Stacks
<1>3. c[Len(c)].s \in 0 .. Len(t.stack["local"]) /\ c[Len(c)].l \in 0 .. Len(t.stack["local_label"])
  BY <1>1 DEF Frames
<1>4. Len(t.stack["local"]) >= c[Len(c)].s /\ Len(t.stack["local_label"]) >= c[Len(c)].l
  BY <1>2, <1>3
<1>5. Len(Front(c)) = Len(c) - 1 /\ \A k \in 1 .. Len(c) - 1 : Front(c)[k] = c[k]
  BY <1>4, FramesLeave
<1>6. QED BY <1>1, <1>5 DEF Closes

\* The outermost scope of a function is.
LEMMA FunctionCloses ==
    ASSUME NEW c, Len(c) = 1
    PROVE  Closes(c, <<>>)
<1>1. Len(<<>>) = 0 OBVIOUS
<1>2. QED BY <1>1 DEF Closes

\* The scope of a block that is no statement expression is left.
LEMMA BlockLeft ==
    ASSUME NEW t, NEW g, NEW c, Tidy(t, g, c), Orderly(t, g, c), Len(c) > 1
    PROVE  LET u == Pop(Pop(t, "local_label", Last(c).l, FALSE), "local", Last(c).s, FALSE)
           IN Left(t, g, c, u, g \cap On(u), Front(c))
<1> DEFINE u == Pop(Pop(t, "local_label", Last(c).l, FALSE), "local", Last(c).s, FALSE)
           h == g \cap On(u)
<1>1. Tidy(u, h, Front(c)) /\ Cut(t, u, Last(c).l, Last(c).s) BY PopBlock
<1> HIDE DEF u
<1>2. t \in Table /\ Frames(t, c) /\ Len(c) \in Nat BY FramesParts DEF Tidy, Sound
<1>3. Last(c) = c[Len(c)] BY <1>2, LastFrame
<1>4. u \in Table BY <1>1 DEF Tidy, Sound
<1>5. Closes(c, Front(c)) BY <1>2, FrontCloses
<1>6. /\ \A st \in Stacks : StaysOn(u, t, st)
      /\ Len(u.stack["local"]) = c[Len(c)].s /\ Len(u.stack["local_label"]) = c[Len(c)].l
      /\ Len(u.stack["global"]) = Len(t.stack["global"])
      /\ Len(u.stack["global_label"]) = Len(t.stack["global_label"])
  BY <1>1, <1>3 DEF Cut, Stacks
<1>7. c[Len(c)].l \in Nat BY <1>2, FramesParts
<1>8. Len(u.stack["local_label"]) >= c[Len(c)].l BY <1>6, <1>7
<1>9. \A p \in c[Len(c)].l + 1 .. Len(u.stack["local_label"]) : t.stack["local_label"][p] \in g
  BY <1>6, <1>7
<1>10. Len(u.stack["global_label"]) = IF Len(c) = 1 THEN 0 ELSE Len(t.stack["global_label"]) BY <1>2, <1>6
<1>11. h = g \cap On(u) OBVIOUS
<1> HIDE DEF h
<1>12. Left(t, g, c, u, h, Front(c)) BY <1>4, <1>5, <1>6, <1>8, <1>9, <1>10, <1>11, CutLeft
<1>13. QED BY <1>12 DEF h, u

\* The scope of a loop, which declares no labels
LEMMA LoopLeft ==
    ASSUME NEW t, NEW g, NEW c, Tidy(t, g, c), Orderly(t, g, c), Len(c) > 1, c[Len(c)].loop
    PROVE  LET u == Pop(t, "local", Last(c).s, FALSE)
           IN Left(t, g, c, u, g \cap On(u), Front(c))
<1> DEFINE u == Pop(t, "local", Last(c).s, FALSE)
           h == g \cap On(u)
<1>1. Tidy(u, h, Front(c)) /\ Cut(t, u, Len(t.stack["local_label"]), Last(c).s) BY PopLoop
<1> HIDE DEF u
<1>2. t \in Table /\ Frames(t, c) /\ Len(c) \in Nat BY FramesParts DEF Tidy, Sound
<1>3. Last(c) = c[Len(c)] BY <1>2, LastFrame
<1>4. u \in Table BY <1>1 DEF Tidy, Sound
<1>5. Closes(c, Front(c)) BY <1>2, FrontCloses
<1>6. /\ \A st \in Stacks : StaysOn(u, t, st)
      /\ Len(u.stack["local"]) = c[Len(c)].s /\ Len(u.stack["local_label"]) = Len(t.stack["local_label"])
      /\ Len(u.stack["global"]) = Len(t.stack["global"])
      /\ Len(u.stack["global_label"]) = Len(t.stack["global_label"])
  BY <1>1, <1>3 DEF Cut, Stacks
<1>7. t.stack["local_label"] \in Seq(Syms) BY <1>2, TableParts DEF Stacks
<1>8. Len(u.stack["local_label"]) >= c[Len(c)].l
  <2>1. c[Len(c)].l \in 0 .. Len(t.stack["local_label"]) BY <1>2 DEF Frames
  <2>2. QED BY <1>6, <1>7, <2>1
<1>9. ASSUME NEW p \in c[Len(c)].l + 1 .. Len(u.stack["local_label"])
      PROVE  t.stack["local_label"][p] \in g
  <2>1. c[Len(c)].l \in Nat BY <1>2, FramesParts
  <2>2. p \in 1 .. Len(t.stack["local_label"]) BY <1>6, <1>7, <2>1
  <2> DEFINE j == t.stack["local_label"][p]
             v == t.sym[j].v
  <2>3. Local(t, "label") = t.stack["local_label"] BY DEF Local, LocalStack
  <2>4. v \in Names /\ t.sym[j].sp = "label" BY <2>2, <2>3, LabelPlaces
  <2>5. Declares(t, j, "label", v) BY <2>4 DEF Declares
  <2>6. p \in Start(c, "label", Len(c)) + 1 .. End(t, c, "label", Len(c))
    BY <1>6, <2>3 DEF Start, End
  <2>7. LiveAt(t, g, c, Len(c), "label", v) = {}
    <3>1. Len(c) \in 1 .. Len(c) BY <1>2
    <3>2. ScopeOrderly(t, g, c, Len(c)) BY <3>1 DEF Orderly
    <3>3. QED BY <2>4, <3>2 DEF ScopeOrderly
  <2>8. ~Lives(t, g, "label", v, p) BY <2>6, <2>7 DEF LiveAt
  <2>9. QED BY <2>3, <2>5, <2>8 DEF Lives
<1>10. Len(u.stack["global_label"]) = IF Len(c) = 1 THEN 0 ELSE Len(t.stack["global_label"]) BY <1>2, <1>6
<1>11. h = g \cap On(u) OBVIOUS
<1> HIDE DEF h
<1>12. Left(t, g, c, u, h, Front(c)) BY <1>4, <1>5, <1>6, <1>8, <1>9, <1>10, <1>11, CutLeft
<1>13. QED BY <1>12 DEF h, u

\* A function is left.
LEMMA FunctionLeft ==
    ASSUME NEW t, NEW g, NEW c, Tidy(t, g, c), Orderly(t, g, c), Len(c) = 1
    PROVE  LET u == Pop(Pop(Pop(t, "local_label", 0, FALSE), "global_label", 0, FALSE), "local", 0, FALSE)
           IN Left(t, g, c, u, g \cap On(u), <<>>)
<1> DEFINE u == Pop(Pop(Pop(t, "local_label", 0, FALSE), "global_label", 0, FALSE), "local", 0, FALSE)
           h == g \cap On(u)
<1>1. /\ Tidy(u, h, <<>>) /\ \A st \in Stacks : StaysOn(u, t, st)
      /\ \A st \in Stacks : Len(u.stack[st]) = IF st = "global" THEN Len(t.stack[st]) ELSE 0
  BY PopFunction
<1> HIDE DEF u
<1>2. c[1].s = 0 /\ c[1].l = 0 BY DEF Tidy, Frames
<1>3. u \in Table BY <1>1 DEF Tidy, Sound
<1>4. Closes(c, <<>>) BY FunctionCloses
<1>5. /\ Len(u.stack["local"]) = c[Len(c)].s /\ Len(u.stack["local_label"]) = c[Len(c)].l
      /\ Len(u.stack["local_label"]) = 0
      /\ Len(u.stack["global"]) = Len(t.stack["global"])
      /\ Len(u.stack["global_label"]) = 0
  BY <1>1, <1>2 DEF Stacks
<1>6. Len(u.stack["local_label"]) >= c[Len(c)].l BY <1>2, <1>5
<1>7. \A p \in c[Len(c)].l + 1 .. Len(u.stack["local_label"]) : t.stack["local_label"][p] \in g
  BY <1>2, <1>5
<1>8. Len(u.stack["global_label"]) = IF Len(c) = 1 THEN 0 ELSE Len(t.stack["global_label"]) BY <1>5
<1>9. h = g \cap On(u) OBVIOUS
<1> HIDE DEF h
<1>10. Left(t, g, c, u, h, <<>>) BY <1>1, <1>3, <1>4, <1>5, <1>6, <1>7, <1>8, <1>9, CutLeft
<1>11. QED BY <1>10 DEF h, u

\* The labels of the last scope c are defined, as label_pop() requires, or one is not.
Undefined(t, c) ==
    \/ UndefinedLabel(t, "local_label", c[Len(c)].l)
    \/ Len(c) = 1 /\ UndefinedLabel(t, "global_label", 0)

\* If they are, no label of the scope remains to be defined.
LEMMA DefinedAll ==
    ASSUME NEW t, NEW g, NEW c, Tidy(t, g, c), ~Undefined(t, c)
    PROVE  AllDefined(t, g, c)
<1>1. SUFFICES ASSUME NEW j \in LabelsIn(t, g, "forward"), InClosing(t, g, c, j) PROVE FALSE
  BY DEF AllDefined
<1>2. t.sym[j].r = "forward" BY <1>1 DEF LabelsIn
<1>3. Local(t, "label") = t.stack["local_label"] /\ Global(t, "label") = t.stack["global_label"]
  BY DEF Local, LocalStack, Global, GlobalStack
<1>4. ASSUME NEW p \in c[Len(c)].l + 1 .. Len(Local(t, "label")), j = Local(t, "label")[p] PROVE FALSE
  <2>1. UndefinedLabel(t, "local_label", c[Len(c)].l) BY <1>2, <1>3, <1>4 DEF UndefinedLabel
  <2>2. QED BY <2>1 DEF Undefined
<1>5. ASSUME Len(c) = 1, NEW q \in DOMAIN Global(t, "label"), j = Global(t, "label")[q] PROVE FALSE
  <2>1. t \in Table BY DEF Tidy, Sound
  <2>2. q \in 0 + 1 .. Len(t.stack["global_label"]) BY <1>3, <1>5, <2>1, TableParts DEF Stacks
  <2>3. UndefinedLabel(t, "global_label", 0) BY <1>2, <1>3, <1>5, <2>2 DEF UndefinedLabel
  <2>4. QED BY <1>5, <2>3 DEF Undefined
<1>6. QED BY <1>1, <1>4, <1>5 DEF InClosing

\* If not, there is a label of the scope that is used and not defined.
LEMMA UndefinedThere ==
    ASSUME NEW t, NEW g, NEW c, Tidy(t, g, c), Orderly(t, g, c), Len(c) > 0, Undefined(t, c)
    PROVE  \E j \in LabelsIn(t, g, "forward") : j # NULL /\ InClosing(t, g, c, j)
<1>1. t \in Table /\ Frames(t, c) /\ Sound(t, g, Begins(c)) BY DEF Tidy, Sound
<1>2. Local(t, "label") = t.stack["local_label"] /\ Global(t, "label") = t.stack["global_label"]
  BY DEF Local, LocalStack, Global, GlobalStack
<1>3. "label" \in Spaces BY DEF Spaces
<1>4. CASE UndefinedLabel(t, "local_label", c[Len(c)].l)
  <2>1. PICK p \in c[Len(c)].l + 1 .. Len(Local(t, "label")) : t.sym[Local(t, "label")[p]].r = "forward"
    BY <1>2, <1>4 DEF UndefinedLabel
  <2>2. c[Len(c)].l \in Nat /\ Len(c) \in Nat BY <1>1, FramesParts
  <2>3. p \in 1 .. Len(Local(t, "label")) BY <2>1, <2>2
  <2> DEFINE j == Local(t, "label")[p]
  <2>4. j \in Syms /\ j # NULL /\ j \in On(t) /\ t.sym[j].sp = "label"
    BY <1>1, <1>3, <2>3, LocalParts, PlacesOn, LabelPlaces, SymsNotNull
  <2>5. j \notin g BY <2>1, <2>4 DEF Orderly, KeptOrderly
  <2>6. j \in LabelsIn(t, g, "forward") BY <2>1, <2>4, <2>5 DEF LabelsIn
  <2>7. InClosing(t, g, c, j) BY <2>1, <2>5 DEF InClosing
  <2>8. QED BY <2>4, <2>6, <2>7
<1>5. CASE Len(c) = 1 /\ UndefinedLabel(t, "global_label", 0)
  <2>1. PICK q \in 0 + 1 .. Len(Global(t, "label")) : t.sym[Global(t, "label")[q]].r = "forward"
    BY <1>2, <1>5 DEF UndefinedLabel
  <2>2. q \in DOMAIN Global(t, "label") /\ q \in 1 .. Len(Global(t, "label"))
    BY <1>1, <1>3, <2>1, LocalParts
  <2> DEFINE j == Global(t, "label")[q]
  <2>3. j \in Syms /\ j # NULL /\ j \in On(t) /\ t.sym[j].sp = "label"
    BY <1>1, <1>3, <2>2, LocalParts, PlacesOn, LabelPlaces, SymsNotNull
  <2>4. j \notin g BY <1>1, <1>3, <2>2, GlobalNotGone
  <2>5. j \in LabelsIn(t, g, "forward") BY <2>1, <2>3, <2>4 DEF LabelsIn
  <2>6. InClosing(t, g, c, j) BY <1>5, <2>2 DEF InClosing
  <2>7. QED BY <2>3, <2>5, <2>6
<1>6. QED BY <1>4, <1>5 DEF Undefined

\* The last of the open scopes
LEMMA LastScope ==
    ASSUME IInv, IInv'
    PROVE  /\ Env!Depth = Len(ctx) + 1
           /\ \A sp \in Spaces, v \in Names :
                 OpenScopes[Env!Depth][sp][v] = DeclaredIn(tab, gone, ctx, Len(ctx) + 1, sp, v)
<1>1. Tidy(tab, gone, ctx) BY DEF IInv
<1>2. OpenScopes = ScopesIn(tab, gone, ctx) BY OpenIs
<1>3. Listed(OpenScopes, tab, gone, ctx) BY <1>1, <1>2, ScopesInIs
<1>4. Len(OpenScopes) = Len(ctx) + 1 /\ Len(ctx) \in Nat BY <1>3 DEF Listed
<1>5. Env!Depth = Len(ctx) + 1 BY <1>4 DEF Env!Depth
<1>6. Len(ctx) + 1 \in 1 .. Len(ctx) + 1 BY <1>4
<1>7. QED BY <1>3, <1>5, <1>6 DEF Listed

\* A label of the scope that is used and not defined is a reason.
LEMMA UndefinedReason ==
    ASSUME IInv, IInv', RInv, Len(ctx) > 0, Undefined(tab, ctx)
    PROVE  Env!Reason("undefined label")
<1>1. Tidy(tab, gone, ctx) /\ Orderly(tab, gone, ctx) BY DEF IInv, RInv
<1>2. PICK j \in LabelsIn(tab, gone, "forward") : j # NULL /\ InClosing(tab, gone, ctx, j)
  BY <1>1, UndefinedThere
<1>3. PICK v \in Names : j = DeclaredIn(tab, gone, ctx, Len(ctx) + 1, "label", v)
  BY <1>1, <1>2, ClosingIs
<1>4. j = OpenScopes[Env!Depth]["label"][v] BY <1>3, LastScope DEF Spaces
<1>5. j \in Env!Closing BY <1>4 DEF Env!Closing
<1>6. j \in Labels("forward") BY <1>2, OpenIs
<1>7. QED BY <1>5, <1>6 DEF Env!Reason

\* A ({...}) is left, and its symbols are kept.
LEMMA KeptBlockLeft ==
    ASSUME NEW t, NEW g, NEW c, Tidy(t, g, c), Orderly(t, g, c), Len(c) > 1, ~Undefined(t, c),
           NEW h, h = (g \cup {t.stack["local"][p] : p \in Last(c).s + 1 .. Len(t.stack["local"])})
                        \cup {t.stack["local_label"][p] :
                                 p \in Last(c).l + 1 .. Len(t.stack["local_label"])}
    PROVE  LET u == Pop(Pop(t, "local_label", Last(c).l, TRUE), "local", Last(c).s, TRUE)
           IN Left(t, g, c, u, h, Front(c))
<1> DEFINE u == Pop(Pop(t, "local_label", Last(c).l, TRUE), "local", Last(c).s, TRUE)
<1>1. u \in Table /\ SameSymbols(t, u) BY KeepBlock
<1> HIDE DEF u
<1>2. t \in Table /\ Frames(t, c) /\ Len(c) \in Nat BY FramesParts DEF Tidy, Sound
<1>3. Last(c) = c[Len(c)] BY <1>2, LastFrame
<1>4. Closes(c, Front(c)) BY <1>2, FrontCloses
<1>5. \A p \in c[Len(c)].l + 1 .. Len(t.stack["local_label"]) : t.sym[t.stack["local_label"][p]].r # "forward"
  BY DEF Undefined, UndefinedLabel
<1>6. h = (g \cup {t.stack["local"][p] : p \in c[Len(c)].s + 1 .. Len(t.stack["local"])})
             \cup {t.stack["local_label"][p] : p \in c[Len(c)].l + 1 .. Len(t.stack["local_label"])}
  BY <1>3
<1>7. Left(t, g, c, u, h, Front(c)) BY <1>1, <1>4, <1>5, <1>6, KeptLeft
<1>8. QED BY <1>7 DEF u

\* A block ends.
LEMMA EnvEndBlock ==
    ASSUME PlainDialects, IInv, IInv', RInv, EndBlock
    PROVE  RInv' /\ (Env!Accept \/ Env!Restart)
<1> DEFINE f == Last(ctx)
<1>1. /\ Len(ctx) > 1 /\ tab \in Table /\ Frames(tab, ctx) /\ Tidy(tab, gone, ctx)
      /\ Orderly(tab, gone, ctx)
  BY DEF EndBlock, IInv, RInv, Tidy, Sound
<1>2. Len(ctx) \in Nat /\ Len(ctx) > 0 /\ Len(ctx) # 1 BY <1>1, FramesParts
<1>3. /\ f.keep \in BOOLEAN /\ f.s \in 0 .. Len(tab.stack["local"]) /\ f.l \in 0 .. Len(tab.stack["local_label"])
      /\ f = ctx[Len(ctx)]
  BY <1>1, <1>2, LastFrame DEF FrameType
<1>4. UndefinedLabel(tab, "local_label", f.l) <=> Undefined(tab, ctx) BY <1>2, <1>3 DEF Undefined
<1>5. CASE Undefined(tab, ctx)
  <2>1. Error("undefined label", tab) BY <1>4, <1>5 DEF EndBlock
  <2>2. Env!Reason("undefined label") BY <1>2, <1>5, UndefinedReason
  <2>3. QED BY <2>1, <2>2, EnvError
<1>6. CASE ~Undefined(tab, ctx)
  <2>1. /\ tab' = Pop(Pop(tab, "local_label", f.l, f.keep), "local", f.s, f.keep)
        /\ gone' = IF f.keep THEN gone \cup Above("local", f.s) \cup Above("local_label", f.l)
                   ELSE gone \cap On(tab')
        /\ ctx' = Front(ctx) /\ msg' = ""
    BY <1>4, <1>6 DEF EndBlock
  <2>2. Left(tab, gone, ctx, tab', gone', ctx')
    <3>1. CASE f.keep = TRUE
      <4> DEFINE h == gone \cup Above("local", f.s) \cup Above("local_label", f.l)
                 u == Pop(Pop(tab, "local_label", f.l, TRUE), "local", f.s, TRUE)
      <4>1. h = (gone \cup {tab.stack["local"][p] : p \in Last(ctx).s + 1 .. Len(tab.stack["local"])})
                   \cup {tab.stack["local_label"][p] :
                            p \in Last(ctx).l + 1 .. Len(tab.stack["local_label"])}
        <5>1. "local" \in Stacks /\ "local_label" \in Stacks BY DEF Stacks
        <5>2. Above("local", f.s) = {tab.stack["local"][p] : p \in f.s + 1 .. Len(tab.stack["local"])}
          BY <1>1, <1>3, <5>1, AboveIs
        <5>3. Above("local_label", f.l) = {tab.stack["local_label"][p] :
                                              p \in f.l + 1 .. Len(tab.stack["local_label"])}
          BY <1>1, <1>3, <5>1, AboveIs
        <5>4. QED BY <5>2, <5>3
      <4>2. gone' = h /\ tab' = u BY <2>1, <3>1
      <4> HIDE DEF h
      <4>3. Left(tab, gone, ctx, u, h, Front(ctx)) BY <1>1, <1>6, <4>1, KeptBlockLeft
      <4> HIDE DEF u
      <4>4. QED BY <2>1, <4>2, <4>3
    <3>2. CASE f.keep = FALSE
      <4> DEFINE u == Pop(Pop(tab, "local_label", f.l, FALSE), "local", f.s, FALSE)
      <4>1. tab' = u /\ gone' = gone \cap On(tab') BY <2>1, <3>2
      <4>2. Left(tab, gone, ctx, u, gone \cap On(u), Front(ctx)) BY <1>1, BlockLeft
      <4> HIDE DEF u
      <4>3. QED BY <2>1, <4>1, <4>2
    <3>3. QED BY <1>3, <3>1, <3>2
  <2>3. AllDefined(tab, gone, ctx) BY <1>1, <1>6, DefinedAll
  <2>4. QED BY <2>1, <2>2, <2>3, EnvLeave
<1>7. QED BY <1>5, <1>6

\* A for statement ends.
LEMMA EnvEndFor ==
    ASSUME IInv, IInv', RInv, EndFor
    PROVE  RInv' /\ Env!Accept
<1>1. tab \in Table /\ Frames(tab, ctx) /\ Tidy(tab, gone, ctx) /\ Orderly(tab, gone, ctx)
  BY DEF IInv, RInv, Tidy, Sound
<1>2. /\ Last(ctx).loop /\ tab' = Pop(tab, "local", Last(ctx).s, FALSE)
      /\ gone' = gone \cap On(tab') /\ ctx' = Front(ctx) /\ msg' = ""
  BY DEF EndFor
<1>3. Len(ctx) \in Nat /\ Len(ctx) > 0 BY DepthIs DEF EndFor
<1>4. Last(ctx) = ctx[Len(ctx)] BY <1>1, <1>3, LastFrame
<1>5. ~ctx[1].loop BY <1>1, <1>3 DEF Frames
<1>6. Len(ctx) > 1
  <2>1. ctx[Len(ctx)].loop BY <1>2, <1>4
  <2>2. Len(ctx) # 1
    <3>1. SUFFICES ASSUME Len(ctx) = 1 PROVE FALSE OBVIOUS
    <3>2. ctx[1].loop BY <2>1, <3>1
    <3>3. QED BY <1>5, <3>2
  <2> DEFINE n == Len(ctx)
  <2>3. n \in Nat /\ n > 0 /\ n # 1 BY <1>3, <2>2
  <2> HIDE DEF n
  <2>4. n > 1 BY <2>3
  <2>5. QED BY <2>4 DEF n
<1> DEFINE u == Pop(tab, "local", Last(ctx).s, FALSE)
<1>7. Left(tab, gone, ctx, u, gone \cap On(u), Front(ctx)) BY <1>1, <1>2, <1>4, <1>6, LoopLeft
<1>8. tab' = u BY <1>2
<1> HIDE DEF u
<1>9. Left(tab, gone, ctx, tab', gone', ctx') BY <1>2, <1>7, <1>8
\* its scope has no labels
<1>10. AllDefined(tab, gone, ctx)
  <2>1. SUFFICES ASSUME NEW j \in LabelsIn(tab, gone, "forward"), InClosing(tab, gone, ctx, j)
                 PROVE  FALSE
    BY DEF AllDefined
  <2>2. PICK p \in ctx[Len(ctx)].l + 1 .. Len(Local(tab, "label")) : j = Local(tab, "label")[p] /\ j \notin gone
    BY <1>6, <2>1 DEF InClosing
  <2> DEFINE v == tab.sym[j].v
  <2>3. ctx[Len(ctx)].l \in Nat BY <1>1, <1>3, FramesParts
  <2>4. p \in 1 .. Len(Local(tab, "label")) BY <2>2, <2>3
  <2>5. v \in Names /\ Declares(tab, j, "label", v) BY <1>1, <2>2, <2>4, LabelPlaces DEF Declares
  <2>6. Lives(tab, gone, "label", v, p) BY <2>2, <2>5 DEF Lives
  <2>7. p \in LiveAt(tab, gone, ctx, Len(ctx), "label", v) BY <2>2, <2>6 DEF LiveAt, Start, End
  <2>8. ScopeOrderly(tab, gone, ctx, Len(ctx)) BY <1>1, <1>3 DEF Orderly
  <2>9. ~ctx[Len(ctx)].loop BY <2>5, <2>7, <2>8 DEF ScopeOrderly
  <2>10. QED BY <1>2, <1>4, <2>9
<1>11. QED BY <1>2, <1>9, <1>10, EnvLeave

\* A function ends.
LEMMA EnvEndFunction ==
    ASSUME PlainDialects, IInv, IInv', RInv, EndFunction
    PROVE  RInv' /\ (Env!Accept \/ Env!Restart)
<1>0. Len(ctx) = 1 BY DEF EndFunction
<1>1. Len(ctx) = 1 /\ Len(ctx) > 0 /\ Frames(tab, ctx) /\ Tidy(tab, gone, ctx) /\ Orderly(tab, gone, ctx)
  <2>1. Frames(tab, ctx) /\ Tidy(tab, gone, ctx) /\ Orderly(tab, gone, ctx) BY DEF IInv, RInv, Tidy
  <2>2. QED BY <1>0, <2>1
<1>2. ctx[Len(ctx)].l = 0 BY <1>1 DEF Frames
<1>3. UndefinedLabel(tab, "local_label", 0) \/ UndefinedLabel(tab, "global_label", 0) <=> Undefined(tab, ctx)
  BY <1>1, <1>2 DEF Undefined
<1>4. CASE Undefined(tab, ctx)
  <2>1. Error("undefined label", tab) BY <1>3, <1>4 DEF EndFunction
  <2>2. Env!Reason("undefined label") BY <1>1, <1>4, UndefinedReason
  <2>3. QED BY <2>1, <2>2, EnvError
<1>5. CASE ~Undefined(tab, ctx)
  <2> DEFINE u == Pop(Pop(Pop(tab, "local_label", 0, FALSE), "global_label", 0, FALSE), "local", 0, FALSE)
  <2>1. tab' = u /\ gone' = gone \cap On(tab') /\ ctx' = <<>> /\ msg' = ""
    BY <1>3, <1>5 DEF EndFunction
  <2>2. Left(tab, gone, ctx, u, gone \cap On(u), <<>>) BY <1>1, FunctionLeft
  <2> HIDE DEF u
  <2>3. Left(tab, gone, ctx, tab', gone', ctx') BY <2>1, <2>2
  <2>4. AllDefined(tab, gone, ctx) BY <1>1, <1>5, DefinedAll
  <2>5. QED BY <2>1, <2>3, <2>4, EnvLeave
<1>6. QED BY <1>4, <1>5

\* A scope is entered: Enter of Environment.
Enters(t, g, c, u, d) ==
    LET s == ScopesIn(t, g, c)
        w == ScopesIn(u, g, d)
    IN /\ Len(w) = Len(s) + 1 /\ SubSeq(w, 1, Len(s)) = s
       /\ LabelsIn(u, g, "forward") = LabelsIn(t, g, "forward")
       /\ LabelsIn(u, g, "defined") = LabelsIn(t, g, "defined")

\* What entering a scope is for Environment
LEMMA EnterIs ==
    ASSUME NEW t, NEW g, NEW c, Tidy(t, g, c), NEW u, NEW d, Tidy(u, g, d),
           NEW l, NEW n, Entered(t, u, c, d, l, n)
    PROVE  Enters(t, g, c, u, d)
<1> DEFINE s == ScopesIn(t, g, c)
           w == ScopesIn(u, g, d)
<1>1. t \in Table /\ u \in Table BY DEF Tidy, Sound
<1>2. Opens(t, c, d) /\ Grows(t, u) /\ Len(d) = Len(c) + 1 BY DEF Entered, Opens
<1>3. Listed(s, t, g, c) /\ Listed(w, u, g, d) BY ScopesInIs
<1>4. SubSeq(w, 1, Len(c) + 1) = s
  <2>1. w = [k \in 1 .. Len(d) + 1 |-> [sp \in Spaces |-> [v \in Names |-> DeclaredIn(u, g, d, k, sp, v)]]]
    BY DEF ScopesIn
  <2>2. s = [k \in 1 .. Len(c) + 1 |-> [sp \in Spaces |-> [v \in Names |-> DeclaredIn(t, g, c, k, sp, v)]]]
    BY DEF ScopesIn
  <2>3. \A k \in 1 .. Len(c) + 1, sp \in Spaces, v \in Names :
           DeclaredIn(u, g, d, k, sp, v) = DeclaredIn(t, g, c, k, sp, v)
    BY <1>2, EnterDeclared
  <2> HIDE DEF s, w
  <2>4. Len(c) \in Nat /\ Len(c) + 1 \in 0 .. Len(d) + 1 /\ \A k \in 1 .. Len(c) + 1 : k \in 1 .. Len(d) + 1
    <3>1. Len(c) \in Nat BY <1>3 DEF Listed
    <3>2. QED BY <1>2, <3>1
  <2>5. SubSeq(w, 1, Len(c) + 1) = [k \in 1 .. Len(c) + 1 |-> w[k]] BY <1>3, <2>4 DEF Listed
  <2>6. \A k \in 1 .. Len(c) + 1 :
           w[k] = [sp \in Spaces |-> [v \in Names |-> DeclaredIn(t, g, c, k, sp, v)]]
    BY <2>1, <2>3, <2>4
  <2>7. QED BY <2>2, <2>5, <2>6
<1> HIDE DEF s, w
<1>5. Len(s) = Len(c) + 1 /\ Len(w) = Len(d) + 1 /\ Len(c) \in Nat BY <1>3 DEF Listed
<1>6. \A j : j \in LabelsIn(u, g, "forward") <=> j \in LabelsIn(t, g, "forward")
  <2>1. "forward" # "declared" OBVIOUS
  <2>2. QED BY <1>1, <2>1, EnterLabels
<1>7. \A j : j \in LabelsIn(u, g, "defined") <=> j \in LabelsIn(t, g, "defined")
  <2>1. "defined" # "declared" OBVIOUS
  <2>2. QED BY <1>1, <2>1, EnterLabels
<1>8. LabelsIn(u, g, "forward") = LabelsIn(t, g, "forward") BY <1>6
<1>9. LabelsIn(u, g, "defined") = LabelsIn(t, g, "defined") BY <1>7
<1>10. Len(w) = Len(s) + 1 /\ SubSeq(w, 1, Len(s)) = s BY <1>2, <1>4, <1>5
<1>11. QED BY <1>8, <1>9, <1>10 DEF Enters, s, w

\* A scope is entered.
LEMMA EnvEnter ==
    ASSUME IInv, IInv', RInv, msg' = "", gone' = gone, NEW l, NEW n, Entered(tab, tab', ctx, ctx', l, n)
    PROVE  RInv' /\ Env!Accept
<1> DEFINE s == OpenScopes
<1>1. /\ s = ScopesIn(tab, gone, ctx) /\ OpenScopes' = ScopesIn(tab', gone', ctx')
      /\ \A r : Labels(r) = LabelsIn(tab, gone, r) /\ Labels(r)' = LabelsIn(tab', gone', r)
  BY OpenIs
<1>2. Tidy(tab, gone, ctx) /\ Tidy(tab', gone', ctx') /\ Orderly(tab, gone, ctx) BY DEF IInv, RInv
<1>3. Env!Depth = Len(s) BY DEF Env!Depth
<1> HIDE DEF s
<1>4. Tidy(tab', gone, ctx') BY <1>2
<1>5. /\ Len(ScopesIn(tab', gone', ctx')) = Len(s) + 1 /\ SubSeq(ScopesIn(tab', gone', ctx'), 1, Len(s)) = s
      /\ LabelsIn(tab', gone', "defined") = LabelsIn(tab, gone, "defined")
      /\ LabelsIn(tab', gone', "forward") = LabelsIn(tab, gone, "forward")
  <2>1. Enters(tab, gone, ctx, tab', ctx') BY <1>2, <1>4, EnterIs
  <2>2. QED BY <1>1, <2>1 DEF Enters
<1>6. Orderly(tab', gone', ctx')
  <2>1. Orderly(tab', gone, ctx') BY <1>2, <1>4, EnterOrderly
  <2>2. QED BY <2>1
<1>7. Env!Enter BY <1>1, <1>3, <1>5 DEF Env!Enter, s
<1>8. QED BY <1>6, <1>7, AcceptIs DEF EnvAccepts

\* A block declares labels on entry, and nothing else.
LEMMA LabelsEntered ==
    ASSUME NEW t \in Table, NEW u \in Table, NEW L, IsFiniteSet(L),
           LabelsOn(t, u, SetToSeq(L), Cardinality(L)),
           NEW c, NEW d, Opens(t, c, d), ~d[Len(c) + 1].loop
    PROVE  Entered(t, u, c, d, SetToSeq(L), Cardinality(L))
<1> DEFINE s == SetToSeq(L)
           n == Cardinality(L)
<1>1. n \in Nat /\ \A i, j \in 1 .. n : s[i] = s[j] => i = j BY ListOf
<1> HIDE DEF s, n
<1>2. LabelsOn(t, u, s, n) BY DEF s, n
<1>3. OthersStay(t, u, "local_label") BY <1>2 DEF LabelsOn
<1>4. Grows(t, u) BY <1>3 DEF OthersStay, Grows, Stacks
<1>5. NewSymbols(t, u, Len(c) + 1)
  <2>1. Len(u.stack["local"]) = Len(t.stack["local"]) /\ Len(t.stack["local"]) \in Nat
    BY <1>3, TableParts DEF OthersStay, Stacks
  <2>2. QED BY <2>1 DEF NewSymbols
<1>6. NewLabels(t, u, s, n) BY <1>1, <1>2 DEF LabelsOn, NewLabels
<1>7. Entered(t, u, c, d, s, n) BY <1>4, <1>5, <1>6 DEF Entered
<1>8. QED BY <1>7 DEF s, n

\* A loop declares nothing on entry.
LEMMA NothingEntered ==
    ASSUME NEW t \in Table, NEW c, NEW d, Opens(t, c, d)
    PROVE  Entered(t, t, c, d, <<>>, 0)
<1>1. \A st \in Stacks : Len(t.stack[st]) \in Nat BY TableParts
<1>2. Grows(t, t) BY <1>1 DEF Grows, StaysOn
<1>3. NewSymbols(t, t, Len(c) + 1)
  <2>1. Len(t.stack["local"]) \in Nat BY <1>1 DEF Stacks
  <2>2. QED BY <2>1 DEF NewSymbols
<1>4. NewLabels(t, t, <<>>, 0)
  <2>1. Len(t.stack["local_label"]) \in Nat BY <1>1 DEF Stacks
  <2>2. QED BY <2>1 DEF NewLabels
<1>5. QED BY <1>2, <1>3, <1>4 DEF Entered

\* The frame of a block
LEMMA InnerOpens ==
    ASSUME IInv, NEW keep \in BOOLEAN, NEW loop \in BOOLEAN, Inner(keep, loop)
    PROVE  /\ Opens(tab, ctx, ctx') /\ ctx'[Len(ctx) + 1].loop = loop
           /\ gone' = gone /\ msg' = ""
<1> DEFINE f == Frame(keep, loop)
           c == IF Last(ctx).loop /\ ~keep THEN [ctx EXCEPT ![Len(ctx)].done = TRUE] ELSE ctx
<1>1. tab \in Table /\ Tidy(tab, gone, ctx) /\ Frames(tab, ctx) BY DEF IInv, Tidy, Sound
<1>2. ctx' = Append(c, f) /\ gone' = gone /\ msg' = "" /\ InFunction BY DEF Inner
<1>3. Len(ctx) \in Nat /\ Len(ctx) > 0 /\ ctx \in Seq(FrameType) BY <1>1, <1>2, DepthIs DEF Frames
<1>4. /\ c \in Seq(FrameType) /\ Len(c) = Len(ctx)
      /\ \A j \in 1 .. Len(ctx) : c[j].s = ctx[j].s /\ c[j].l = ctx[j].l /\ c[j].loop = ctx[j].loop
  <2>1. Tidy(tab, gone, c) /\ Len(c) = Len(ctx) BY <1>1, <1>3, TidyDone
  <2>2. c \in Seq(FrameType)
    <3> HIDE DEF c
    <3>1. QED BY <2>1 DEF Tidy, Frames
  <2>3. \A j \in 1 .. Len(ctx) : c[j].s = ctx[j].s /\ c[j].l = ctx[j].l /\ c[j].loop = ctx[j].loop
    BY <1>3 DEF FrameType
  <2>4. QED BY <2>1, <2>2, <2>3
<1>5. f \in FrameType /\ f.s = Len(tab.stack["local"]) /\ f.l = Len(tab.stack["local_label"]) /\ f.loop = loop
  BY <1>1, FrameIs
<1> HIDE DEF c, f
<1>6. /\ Len(ctx') = Len(ctx) + 1 /\ ctx'[Len(ctx) + 1] = f
      /\ \A j \in 1 .. Len(ctx) : ctx'[j] = c[j]
  <2> DEFINE d == Append(c, f)
  <2>1. Len(d) = Len(c) + 1 /\ d[Len(c) + 1] = f /\ \A j \in 1 .. Len(c) : d[j] = c[j] BY <1>4, <1>5
  <2>2. ctx' = d BY <1>2
  <2> HIDE DEF d
  <2>3. QED BY <1>4, <2>1, <2>2
<1>7. Opens(tab, ctx, ctx') BY <1>4, <1>5, <1>6 DEF Opens
<1>8. QED BY <1>2, <1>5, <1>6, <1>7

\* A block begins.
LEMMA EnvBeginBlock ==
    ASSUME IInv, IInv', RInv, BeginBlock
    PROVE  RInv' /\ Env!Accept
<1>1. PICK keep \in BOOLEAN : \E L \in LabelSets :
         Inner(keep, FALSE) /\ Room(tab, Cardinality(L)) /\ tab' = DeclareLabels(tab, L)
  BY DEF BeginBlock
<1>2. PICK L \in LabelSets :
         Inner(keep, FALSE) /\ Room(tab, Cardinality(L)) /\ tab' = DeclareLabels(tab, L)
  BY <1>1
<1>3. L \in SUBSET Names /\ IsFiniteSet(L) /\ Cardinality(L) \in Nat
  <2>1. dialect.names \subseteq Names BY DialectIs DEF IInv
  <2>2. L \in SUBSET Names BY <2>1 DEF LabelSets
  <2>3. IsFiniteSet(L) BY <2>2, Bounded, FS_Subset
  <2>4. QED BY <2>2, <2>3, FS_CardinalityType
<1>4. Cardinality(On(tab)) + Cardinality(L) <= MaxSyms BY <1>2, <1>3, RoomIs
<1>5. tab \in Table /\ Sound(tab, gone, Begins(ctx)) BY DEF IInv, Tidy, Sound
<1>6. Opens(tab, ctx, ctx') /\ ~ctx'[Len(ctx) + 1].loop /\ gone' = gone /\ msg' = ""
  <2>1. FALSE \in BOOLEAN OBVIOUS
  <2>2. QED BY <1>2, <2>1, InnerOpens
<1> DEFINE u == DeclareLabels(tab, L)
<1>7. Sound(u, gone, Begins(ctx)) /\ LabelsOn(tab, u, SetToSeq(L), Cardinality(L))
  BY <1>3, <1>4, <1>5, DeclareLabelsIs
<1> HIDE DEF u
<1>8. u \in Table BY <1>7 DEF Sound
<1>9. tab' = u BY <1>2 DEF u
<1>10. Entered(tab, u, ctx, ctx', SetToSeq(L), Cardinality(L)) BY <1>3, <1>5, <1>6, <1>7, <1>8, LabelsEntered
<1>11. Entered(tab, tab', ctx, ctx', SetToSeq(L), Cardinality(L)) BY <1>9, <1>10
<1>12. QED BY <1>6, <1>11, EnvEnter

\* A for statement begins.
LEMMA EnvBeginFor ==
    ASSUME IInv, IInv', RInv, BeginFor
    PROVE  RInv' /\ Env!Accept
<1>1. Opens(tab, ctx, ctx') /\ gone' = gone /\ msg' = ""
  <2>1. FALSE \in BOOLEAN /\ TRUE \in BOOLEAN OBVIOUS
  <2>2. QED BY <2>1, InnerOpens DEF BeginFor
<1>2. tab \in Table /\ tab' = tab BY DEF IInv, Tidy, Sound, BeginFor
<1>3. Entered(tab, tab, ctx, ctx', <<>>, 0) BY <1>1, <1>2, NothingEntered
<1>4. Entered(tab, tab', ctx, ctx', <<>>, 0) BY <1>2, <1>3
<1>5. QED BY <1>1, <1>4, EnvEnter

\* A function begins with its parameters, to which the dummy leads, and its labels.
LEMMA ParametersEntered ==
    ASSUME NEW t \in Table, NEW w \in Table, NEW u \in Table, Len(t.stack["local"]) = 0,
           NEW q, NEW m \in Nat, ParametersOn(w, q, m), OthersStay(t, w, "local"),
           NEW L, IsFiniteSet(L), LabelsOn(w, u, SetToSeq(L), Cardinality(L)),
           NEW c, NEW d, Len(c) = 0, Opens(t, c, d), ~d[Len(c) + 1].loop
    PROVE  Entered(t, u, c, d, SetToSeq(L), Cardinality(L))
<1> DEFINE s == SetToSeq(L)
           n == Cardinality(L)
<1>1. n \in Nat /\ \A i, j \in 1 .. n : s[i] = s[j] => i = j BY ListOf
<1> HIDE DEF s, n
<1>2. LabelsOn(w, u, s, n) BY DEF s, n
<1>3. OthersStay(w, u, "local_label") BY <1>2 DEF LabelsOn
<1>4. Grows(t, u)
  <2>1. \A st \in Stacks : StaysOn(t, w, st) /\ StaysOn(w, u, st) BY <1>3 DEF OthersStay
  <2>2. ASSUME NEW st \in Stacks PROVE StaysOn(t, u, st)
    <3>1. StaysOn(t, w, st) /\ StaysOn(w, u, st) BY <2>1
    <3>2. QED BY <3>1, StaysTransitive
  <2>3. \A st \in {"global", "global_label"} :
           Len(w.stack[st]) = Len(t.stack[st]) /\ Len(u.stack[st]) = Len(w.stack[st])
    BY <1>3 DEF OthersStay, Stacks
  <2>4. QED BY <2>2, <2>3 DEF Grows
<1>5. NewSymbols(t, u, Len(c) + 1)
  <2>1. Len(w.stack["local"]) = m + 1 BY DEF ParametersOn
  <2>2. Len(u.stack["local"]) = m + 1 BY <1>3, <2>1 DEF OthersStay, Stacks
  <2>3. StaysOn(w, u, "local") BY <1>3 DEF OthersStay, Stacks
  <2>4. SUFFICES ASSUME NEW p \in 1 .. m + 1
                 PROVE  LET sym == u.sym[u.stack["local"][p]]
                        IN sym.sp # "label" /\ (sym.v \in Names => sym.sym_scope = 1)
    <3>1. Len(c) + 1 = 1 /\ Len(t.stack["local"]) + 1 = 1 OBVIOUS
    <3>2. QED BY <2>2, <3>1 DEF NewSymbols
  <2>5. u.sym[u.stack["local"][p]] = w.sym[w.stack["local"][p]] BY <2>1, <2>3 DEF StaysOn
  <2>6. CASE p = 1 BY <2>5, <2>6 DEF ParametersOn
  <2>7. CASE p # 1
    <3>1. p \in 2 .. m + 1 BY <2>7
    <3>2. QED BY <2>5, <3>1 DEF ParametersOn
  <2>8. QED BY <2>6, <2>7
<1>6. NewLabels(t, u, s, n)
  <2>1. Len(w.stack["local_label"]) = Len(t.stack["local_label"]) BY DEF OthersStay, Stacks
  <2>2. QED BY <1>1, <1>2, <2>1 DEF LabelsOn, NewLabels
<1>7. Entered(t, u, c, d, s, n) BY <1>4, <1>5, <1>6 DEF Entered
<1>8. QED BY <1>7 DEF s, n

\* A function begins.
LEMMA EnvBeginFunction ==
    ASSUME IInv, IInv', RInv, BeginFunction
    PROVE  RInv' /\ Env!Accept
<1>1. tab \in Table /\ Frames(tab, ctx) /\ Sound(tab, gone, Begins(ctx)) BY DEF IInv, Tidy, Sound
<1>2. ctx = <<>> /\ Len(ctx) = 0 /\ ctx' = <<Frame(FALSE, FALSE)>> /\ gone' = gone /\ msg' = ""
  BY DEF BeginFunction
<1>3. Len(tab.stack["local"]) = 0 BY <1>1, <1>2 DEF Frames
<1>4. PICK P \in SUBSET (IF "ident" \in dialect.spaces THEN dialect.names ELSE {}) :
         \E L \in LabelSets :
            /\ Room(tab, 1 + Cardinality(P) + Cardinality(L))
            /\ tab' = DeclareLabels(Parameters(tab, P), L)
  BY DEF BeginFunction
<1>5. PICK L \in LabelSets :
            /\ Room(tab, 1 + Cardinality(P) + Cardinality(L))
            /\ tab' = DeclareLabels(Parameters(tab, P), L)
  BY <1>4
<1>6. P \in SUBSET Names /\ L \in SUBSET Names
  <2>1. dialect.names \subseteq Names BY DialectIs DEF IInv
  <2>2. QED BY <2>1 DEF LabelSets
<1>7. Cardinality(P) \in Nat /\ Cardinality(L) \in Nat /\ IsFiniteSet(L)
  <2>1. IsFiniteSet(P) /\ IsFiniteSet(L) BY <1>6, Bounded, FS_Subset
  <2>2. QED BY <2>1, FS_CardinalityType
<1>8. /\ Cardinality(On(tab)) \in Nat /\ MaxSyms \in Nat
      /\ Cardinality(On(tab)) + (1 + Cardinality(P) + Cardinality(L)) <= MaxSyms
  <2>1. 1 + Cardinality(P) + Cardinality(L) \in Nat BY <1>7
  <2>2. QED BY <1>5, <2>1, RoomIs
<1> DEFINE w == Parameters(tab, P)
           u == DeclareLabels(w, L)
<1>9. /\ Sound(w, gone, Begins(ctx)) /\ ParametersOn(w, SetToSeq(P), Cardinality(P))
      /\ OthersStay(tab, w, "local")
      /\ Cardinality(On(w)) \in Nat
      /\ Cardinality(On(w)) <= Cardinality(On(tab)) + 1 + Cardinality(P)
  <2>1. Cardinality(On(tab)) + 1 + Cardinality(P) <= MaxSyms BY <1>7, <1>8
  <2>2. QED BY <1>1, <1>3, <1>6, <2>1, ParametersIs
<1> HIDE DEF w
<1>10. Sound(u, gone, Begins(ctx)) /\ LabelsOn(w, u, SetToSeq(L), Cardinality(L))
  <2>1. Cardinality(On(w)) + Cardinality(L) <= MaxSyms BY <1>7, <1>8, <1>9
  <2>2. QED BY <1>6, <1>9, <2>1, DeclareLabelsIs
<1>11. tab' = u BY <1>5 DEF w
<1> HIDE DEF u
<1>12. w \in Table /\ u \in Table BY <1>9, <1>10 DEF Sound
<1> DEFINE f == Frame(FALSE, FALSE)
           d == <<f>>
<1>13. Opens(tab, ctx, d) /\ ~d[Len(ctx) + 1].loop
  <2>1. f.s = Len(tab.stack["local"]) /\ f.l = Len(tab.stack["local_label"]) /\ ~f.loop
    BY <1>1, FrameIs
  <2> HIDE DEF f
  <2>2. Len(d) = 1 /\ d[1] = f OBVIOUS
  <2> HIDE DEF d
  <2>3. Len(ctx) + 1 = 1 /\ 1 .. Len(ctx) = {}
    <3>1. Len(ctx) = 0 BY <1>2
    <3>2. QED BY <3>1
  <2>4. QED BY <2>1, <2>2, <2>3 DEF Opens
<1>14. ctx' = d BY <1>2
<1> HIDE DEF d
<1>15. Entered(tab, u, ctx, d, SetToSeq(L), Cardinality(L))
  <2> DEFINE q == SetToSeq(P)
             m == Cardinality(P)
  <2>1. ParametersOn(w, q, m) /\ m \in Nat BY <1>7, <1>9
  <2> HIDE DEF q, m
  <2>2. QED BY <1>1, <1>2, <1>3, <1>7, <1>9, <1>10, <1>12, <1>13, <2>1, ParametersEntered
<1>16. Entered(tab, tab', ctx, ctx', SetToSeq(L), Cardinality(L)) BY <1>11, <1>14, <1>15
<1>17. QED BY <1>2, <1>16, EnvEnter

\* What a scope declares is on the stacks.
LEMMA DeclaredOn ==
    ASSUME NEW t, NEW g, NEW c, Tidy(t, g, c), NEW k \in 1 .. Len(c) + 1, NEW sp \in Spaces, NEW v \in Names,
           NEW j, j = DeclaredIn(t, g, c, k, sp, v), j # NULL
    PROVE  j \in On(t)
<1>1. t \in Table /\ Frames(t, c) BY DEF Tidy, Sound
<1>2. Means(t, g, c, k, sp, v, j) BY MeansIs
<1>3. CASE k > 1 /\ \E q \in LiveAt(t, g, c, k - 1, sp, v) : j = Local(t, sp)[q]
  <2>1. PICK q \in LiveAt(t, g, c, k - 1, sp, v) : j = Local(t, sp)[q] BY <1>3
  <2>2. q \in Start(c, sp, k - 1) + 1 .. End(t, c, sp, k - 1) BY <2>1 DEF LiveAt
  <2>3. Len(c) \in Nat BY <1>1, FramesParts
  <2>4. k - 1 \in 1 .. Len(c) BY <1>3, <2>3
  <2> DEFINE m == k - 1
  <2>5. /\ Start(c, sp, m) \in Nat /\ End(t, c, sp, m) \in Nat /\ End(t, c, sp, m) <= Len(Local(t, sp))
        /\ Len(Local(t, sp)) \in Nat
    BY <1>1, <2>4, ScopeLies
  <2>6. q \in Start(c, sp, m) + 1 .. End(t, c, sp, m) BY <2>2
  <2> HIDE DEF m
  <2>7. q \in 1 .. Len(Local(t, sp)) BY <2>5, <2>6
  <2>8. QED BY <1>1, <2>1, <2>7, PlacesOn
<1>4. CASE FileWide(t, sp, v, j) BY <1>1, <1>4, PlacesOn DEF FileWide
<1>5. QED BY <1>2, <1>3, <1>4 DEF Means

\* A symbol that is pushed was not on the stacks.
LEMMA PushedFresh ==
    ASSUME NEW t \in Table, NEW u, NEW st, NEW i, Pushed(t, u, st, i)
    PROVE  i \notin On(t)
BY OnStacks DEF Pushed

\* The scopes w are the scopes s with d as the declaration of v in scope k.
OneMore(s, w, k, sp, v, d) ==
    /\ Len(w) = Len(s) /\ k \in DOMAIN s
    /\ w[k][sp][v] = d /\ d # s[k][sp][v]
    /\ w = [s EXCEPT ![k][sp][v] = d]

\* What a declaration changes for Environment
LEMMA AddsIs ==
    ASSUME NEW t, NEW g, NEW c, Tidy(t, g, c), NEW u, Tidy(u, g, c), NEW st, NEW i \in Syms, Pushed(t, u, st, i),
           NEW k0 \in 1 .. Len(c) + 1, NEW sp0 \in Spaces, NEW v0 \in Names, Adds(t, u, g, c, k0, sp0, v0, i)
    PROVE  OneMore(ScopesIn(t, g, c), ScopesIn(u, g, c), k0, sp0, v0, i)
<1> DEFINE s == ScopesIn(t, g, c)
           w == ScopesIn(u, g, c)
           D(k) == [sp \in Spaces |-> [v \in Names |-> DeclaredIn(t, g, c, k, sp, v)]]
           E(k) == [sp \in Spaces |-> [v \in Names |-> DeclaredIn(u, g, c, k, sp, v)]]
<1>1. t \in Table BY DEF Tidy, Sound
<1>2. Listed(s, t, g, c) /\ Listed(w, u, g, c) BY ScopesInIs
<1>3. s = [k \in 1 .. Len(c) + 1 |-> D(k)] /\ w = [k \in 1 .. Len(c) + 1 |-> E(k)] BY DEF ScopesIn
<1>4. \A k \in 1 .. Len(c) + 1, sp \in Spaces, v \in Names :
          DeclaredIn(u, g, c, k, sp, v) =
            IF k = k0 /\ sp = sp0 /\ v = v0 THEN i ELSE DeclaredIn(t, g, c, k, sp, v)
  BY DEF Adds
<1>5. \A k \in 1 .. Len(c) + 1 : k # k0 => E(k) = D(k) BY <1>4
<1>6. E(k0) = [D(k0) EXCEPT ![sp0][v0] = i] BY <1>4
<1>7. DeclaredIn(t, g, c, k0, sp0, v0) # i
  <2>1. i \notin On(t) BY <1>1, PushedFresh
  <2>2. i # NULL BY SymsNotNull
  <2> DEFINE j == DeclaredIn(t, g, c, k0, sp0, v0)
  <2>3. j # NULL => j \in On(t) BY DeclaredOn
  <2>4. QED BY <2>1, <2>2, <2>3
<1>8. DeclaredIn(u, g, c, k0, sp0, v0) = i BY <1>4
<1> HIDE DEF s, w, D, E
<1>9. w = [s EXCEPT ![k0][sp0][v0] = i] BY <1>3, <1>5, <1>6
<1>10. Len(w) = Len(s) /\ k0 \in DOMAIN s BY <1>2 DEF Listed
<1>11. s[k0][sp0][v0] = DeclaredIn(t, g, c, k0, sp0, v0) /\ w[k0][sp0][v0] = DeclaredIn(u, g, c, k0, sp0, v0)
  BY <1>2 DEF Listed
<1>12. OneMore(s, w, k0, sp0, v0, i) BY <1>7, <1>8, <1>9, <1>10, <1>11 DEF OneMore
<1>13. QED BY <1>12 DEF s, w

\* A symbol is declared, in the way that Environment allows.
MayDeclare(t, c, k, sp, v, r) ==
    /\ IF sp = "label" THEN k = 2 /\ r \in {"forward", "defined"} ELSE k \in {1, Len(c) + 1}
    /\ sp = "label" \/ k < Len(c) + 1 => t.head[sp][v] = NULL

\* A name is declared.
LEMMA EnvDeclare ==
    ASSUME IInv, IInv', RInv, msg' = "", gone' = gone, ctx' = ctx,
           NEW st \in Stacks, NEW i \in Syms, Pushed(tab, tab', st, i),
           NEW k \in 1 .. Len(ctx) + 1, NEW sp \in Spaces, NEW v \in Names, NEW r,
           Declares(tab', i, sp, v), tab'.sym[i].r = r,
           Adds(tab, tab', gone, ctx, k, sp, v, i), Orderly(tab', gone, ctx),
           MayDeclare(tab, ctx, k, sp, v, r)
    PROVE  RInv' /\ Env!Accept
<1> DEFINE s == OpenScopes
           w == ScopesIn(tab', gone, ctx)
<1>1. Tidy(tab, gone, ctx) /\ Tidy(tab', gone, ctx) /\ tab \in Table /\ GoneLocal(tab, gone)
  BY DEF IInv, Tidy, Sound
<1>2. /\ s = ScopesIn(tab, gone, ctx) /\ OpenScopes' = w
      /\ \A q : Labels(q) = LabelsIn(tab, gone, q) /\ Labels(q)' = LabelsIn(tab', gone, q)
  <2>1. /\ s = ScopesIn(tab, gone, ctx) /\ OpenScopes' = ScopesIn(tab', gone', ctx')
        /\ \A q : Labels(q) = LabelsIn(tab, gone, q) /\ Labels(q)' = LabelsIn(tab', gone', q)
    BY OpenIs
  <2>2. QED BY <2>1
<1>3. Listed(ScopesIn(tab, gone, ctx), tab, gone, ctx) BY <1>1, ScopesInIs
<1>4. OneMore(ScopesIn(tab, gone, ctx), w, k, sp, v, i) BY <1>1, AddsIs
<1> HIDE DEF w
<1>5. Len(s) = Len(ctx) + 1 /\ Len(ctx) \in Nat /\ OneMore(s, w, k, sp, v, i)
  BY <1>2, <1>3, <1>4 DEF Listed
<1>7. \A q : Labels(q)' = IF sp = "label" /\ r = q THEN Labels(q) \cup {i} ELSE Labels(q)
  <2>1. tab'.sym[i].sp = sp BY DEF Declares
  <2>2. Gains(tab, tab', gone, i) BY <1>1, PushedLabels
  <2>3. QED BY <1>2, <2>1, <2>2 DEF Gains
<1>8. i # NULL BY SymsNotNull
<1>9. Env!Declare
  <2>1. IF sp = "label" THEN k = 2 ELSE k \in {1, Len(s)} BY <1>5 DEF MayDeclare
  <2>2. sp = "label" \/ k < Len(s) => tab.head[sp][v] = NULL BY <1>5 DEF MayDeclare
  <2>3. IF sp = "label"
        THEN <<Labels("forward")', Labels("defined")'>> \in
                {<<Labels("forward") \cup {i}, Labels("defined")>>, <<Labels("forward"), Labels("defined") \cup {i}>>}
        ELSE UNCHANGED <<Labels("forward"), Labels("defined")>>
    <3>1. CASE sp = "label"
      <4>1. r = "forward" \/ r = "defined" BY <3>1 DEF MayDeclare
      <4>2. CASE r = "forward"
        <5>1. Labels("forward")' = Labels("forward") \cup {i} /\ Labels("defined")' = Labels("defined")
          BY <1>7, <3>1, <4>2
        <5>2. QED BY <3>1, <5>1
      <4>3. CASE r = "defined"
        <5>1. Labels("forward")' = Labels("forward") /\ Labels("defined")' = Labels("defined") \cup {i}
          BY <1>7, <3>1, <4>3
        <5>2. QED BY <3>1, <5>1
      <4>4. QED BY <4>1, <4>2, <4>3
    <3>2. CASE sp # "label"
      <4>1. Labels("forward")' = Labels("forward") /\ Labels("defined")' = Labels("defined") BY <1>7, <3>2
      <4>2. QED BY <3>2, <4>1
    <3>3. QED BY <3>1, <3>2
  <2>4. Env!Spaces = Spaces BY DEF Env!Spaces, Spaces
  <2> HIDE DEF s
  <2>5. /\ Len(w) = Len(s) /\ k \in DOMAIN s
        /\ w[k][sp][v] = i /\ i # s[k][sp][v]
        /\ w = [s EXCEPT ![k][sp][v] = i]
    BY <1>5 DEF OneMore
  <2>6. \E before \in {s}, after \in {w} :
           Len(after) = Len(before) /\ \E n \in DOMAIN before, sp2 \in Env!Spaces, v2 \in Names :
            LET d == after[n][sp2][v2]
            IN /\ d # before[n][sp2][v2] /\ d # NULL
               /\ after = [before EXCEPT ![n][sp2][v2] = d]
               /\ IF sp2 = "label" THEN n = 2 ELSE n \in {1, Len(before)}
               /\ sp2 = "label" \/ n < Len(before) => tab.head[sp2][v2] = NULL
               /\ IF sp2 = "label"
                  THEN <<Labels("forward")', Labels("defined")'>> \in
                          {<<Labels("forward") \cup {d}, Labels("defined")>>,
                           <<Labels("forward"), Labels("defined") \cup {d}>>}
                  ELSE UNCHANGED <<Labels("forward"), Labels("defined")>>
    BY <1>8, <2>1, <2>2, <2>3, <2>4, <2>5
  <2>7. QED BY <1>2, <2>6 DEF Env!Declare, s
<1>10. Orderly(tab', gone', ctx') OBVIOUS
<1>11. QED BY <1>9, <1>10, AcceptIs DEF EnvAccepts

\* What sym_push() puts on a stack
LEMMA SymPushIs ==
    ASSUME NEW t \in Table, NEW s \in SymType, s.v \in Names, NEW d \in 0 .. MaxDepth,
           Cardinality(On(t)) < MaxSyms,
           NEW st \in Stacks, st = IF t.stack["local"] # <<>> THEN "local" ELSE "global"
    PROVE  LET u == sym_push(t, s, d)
               i == sym_malloc(t)
           IN /\ i \in Syms /\ Pushed(t, u, st, i) /\ Declares(u, i, s.sp, s.v)
              /\ u.sym[i].sym_scope = d
<1> DEFINE scoped == [s EXCEPT !.sym_scope = d]
           u == sym_push(t, s, d)
           i == sym_malloc(t)
           linked == [scoped EXCEPT !.prev_tok = t.head[scoped.sp][scoped.v]]
<1>1. s.sp \in Spaces BY SymFields
<1>2. scoped \in SymType /\ scoped.v = s.v /\ scoped.sp = s.sp /\ scoped.sym_scope = d
  <2>1. NULL \in Syms \cup {NULL} OBVIOUS
  <2>2. QED BY <2>1, SymExcept
<1>3. u = PushHead(t, st, scoped) BY DEF sym_push
<1> HIDE DEF scoped, u
<1>4. i \in Syms /\ Pushed(t, u, st, i) /\ u.sym[i] = linked BY <1>2, <1>3, PushHeadIs
<1>5. linked.v = s.v /\ linked.sp = s.sp /\ linked.sym_scope = d
  <2>1. t.head[scoped.sp][scoped.v] \in Syms \cup {NULL} BY <1>1, <1>2, TableParts
  <2>2. QED BY <1>2, <2>1, SymExcept
<1> HIDE DEF linked, i
<1>6. Declares(u, i, s.sp, s.v) /\ u.sym[i].sym_scope = d BY <1>4, <1>5 DEF Declares
<1>7. QED BY <1>4, <1>6 DEF u, i

\* A declaration in a function, which sym_push() puts on the local stack
LEMMA EnvLocal ==
    ASSUME IInv, IInv', RInv, Quiet, Len(ctx) > 0, Cardinality(On(tab)) < MaxSyms,
           NEW s \in SymType, s.v \in Names, s.sp \in {"ident", "struct"}, NEW d \in {0, Len(ctx)},
           tab' = sym_push(tab, s, d)
    PROVE  RInv' /\ Env!Accept
<1>1. tab \in Table /\ Tidy(tab, gone, ctx) /\ Frames(tab, ctx) /\ Orderly(tab, gone, ctx)
  BY DEF IInv, RInv, Tidy, Sound
<1>2. msg' = "" /\ gone' = gone /\ ctx' = ctx BY DEF Quiet
<1>3. Len(ctx) \in Nat /\ d \in 0 .. MaxDepth BY DepthIs, Bounded DEF IInv
<1>4. tab.stack["local"] # <<>>
  <2>1. Len(tab.stack["local"]) >= 1 BY <1>1 DEF Frames
  <2>2. QED BY <2>1
<1>5. "local" \in Stacks /\ s.sp \in Spaces BY DEF Stacks, Spaces
<1> DEFINE u == sym_push(tab, s, d)
           i == sym_malloc(tab)
           st == "local"
<1>6. i \in Syms /\ Pushed(tab, u, st, i) /\ Declares(u, i, s.sp, s.v) /\ u.sym[i].sym_scope = d
  BY <1>1, <1>3, <1>4, <1>5, SymPushIs
<1>7. tab' = u OBVIOUS
<1> HIDE DEF u, i
<1>8. Tidy(tab', gone, ctx) BY <1>2 DEF IInv
<1>9. /\ i \in Syms /\ Pushed(tab, tab', "local", i) /\ Declares(tab', i, s.sp, s.v)
      /\ tab'.sym[i].sym_scope \in {0, Len(ctx)}
  BY <1>6, <1>7
<1> DEFINE k == Len(ctx) + 1
           sp == s.sp
           v == s.v
           r == tab'.sym[i].r
<1>10. sp \in {"ident", "struct"} /\ v \in Names /\ Declares(tab', i, sp, v) BY <1>9
<1> HIDE DEF sp, v
<1>11. Adds(tab, tab', gone, ctx, k, sp, v, i) BY <1>1, <1>8, <1>9, <1>10, LocalAdds
<1>12. Orderly(tab', gone, ctx) BY <1>1, <1>8, <1>9, <1>10, LocalOrderly
<1>13. MayDeclare(tab, ctx, k, sp, v, r) BY <1>3, <1>10 DEF MayDeclare
<1>14. k \in 1 .. Len(ctx) + 1 /\ sp \in Spaces BY <1>3, <1>10 DEF Spaces
<1>15. tab'.sym[i].r = r OBVIOUS
<1> HIDE DEF k
<1>16. QED BY <1>2, <1>5, <1>9, <1>10, <1>11, <1>12, <1>13, <1>14, EnvDeclare

\* A symbol that is put on a global stack when its name means nothing
LEMMA EnvGlobal ==
    ASSUME IInv, IInv', RInv, Quiet, NEW sp \in Spaces, NEW v \in Names, NEW i \in Syms,
           NEW st, st = GlobalStack(sp),
           Pushed(tab, tab', st, i), Declares(tab', i, sp, v), tab.head[sp][v] = NULL,
           sp = "label" => Len(ctx) > 0 /\ tab'.sym[i].r \in {"forward", "defined"}
    PROVE  RInv' /\ Env!Accept
<1>1. tab \in Table /\ Tidy(tab, gone, ctx) /\ Orderly(tab, gone, ctx) BY DEF IInv, RInv, Tidy, Sound
<1>2. msg' = "" /\ gone' = gone /\ ctx' = ctx BY DEF Quiet
<1>3. Tidy(tab', gone, ctx) BY <1>2 DEF IInv
<1>4. Len(ctx) \in Nat BY DepthIs
<1> DEFINE k == Home(sp)
           r == tab'.sym[i].r
<1>5. Adds(tab, tab', gone, ctx, k, sp, v, i) BY <1>1, <1>3, GlobalAdds
<1>6. Orderly(tab', gone, ctx) BY <1>1, <1>3, GlobalOrderly
<1>7. MayDeclare(tab, ctx, k, sp, v, r) BY DEF MayDeclare, Home
<1>8. k \in 1 .. Len(ctx) + 1 BY <1>4 DEF Home
<1>9. st \in Stacks BY StackNames
<1>10. tab'.sym[i].r = r OBVIOUS
<1> HIDE DEF k
<1>11. QED BY <1>2, <1>5, <1>6, <1>7, <1>8, <1>9, EnvDeclare

\* A scope with a place that declares a name declares it.
LEMMA DeclaredHere ==
    ASSUME NEW t, NEW g, NEW c, Tidy(t, g, c), NEW k \in 1 .. Len(c), NEW sp \in Spaces, NEW v \in Names,
           LiveAt(t, g, c, k, sp, v) # {}
    PROVE  DeclaredIn(t, g, c, k + 1, sp, v) # NULL
<1>1. t \in Table /\ Frames(t, c) BY DEF Tidy, Sound
<1>2. Len(c) \in Nat BY <1>1, FramesParts
<1>3. SUFFICES ASSUME NULL = DeclaredIn(t, g, c, k + 1, sp, v) PROVE FALSE OBVIOUS
<1> DEFINE m == k + 1
<1>4. m \in 1 .. Len(c) + 1 /\ m - 1 = k /\ m > 1 BY <1>2
<1> HIDE DEF m
<1>5. Means(t, g, c, m, sp, v, NULL) BY <1>3, <1>4, MeansIs DEF m
<1>6. PICK q \in LiveAt(t, g, c, k, sp, v) : NULL = Local(t, sp)[q] BY <1>4, <1>5 DEF Means
<1>7. q \in Start(c, sp, k) + 1 .. End(t, c, sp, k) BY <1>6 DEF LiveAt
<1>8. /\ Start(c, sp, k) \in Nat /\ End(t, c, sp, k) \in Nat /\ End(t, c, sp, k) <= Len(Local(t, sp))
      /\ Len(Local(t, sp)) \in Nat
  BY <1>1, ScopeLies
<1>9. q \in 1 .. Len(Local(t, sp)) BY <1>7, <1>8
<1>10. Local(t, sp)[q] \in Syms BY <1>1, <1>9, LocalParts
<1>11. QED BY <1>6, <1>10, SymsNotNull

\* A name that means a symbol with the number of the innermost scope is declared there.
LEMMA HiddenHere ==
    ASSUME NEW t, NEW g, NEW c, Tidy(t, g, c), Orderly(t, g, c),
           NEW sp \in {"ident", "struct"}, NEW v \in Names, NEW i, i = t.head[sp][v], i # NULL,
           t.sym[i].sym_scope = Len(c)
    PROVE  DeclaredIn(t, g, c, Len(c) + 1, sp, v) # NULL
<1>1. t \in Table /\ Frames(t, c) /\ Heads(t, g) /\ Globals(t) /\ sp \in Spaces
  BY DEF Tidy, Sound, Spaces
<1>2. Len(c) \in Nat BY <1>1, FramesParts
<1>3. Visible(t, g, sp, v, Len(Local(t, sp)), i) BY <1>1 DEF Heads
<1>4. CASE Len(c) = 0
  <2> DEFINE s == ScopesIn(t, g, c)
  <2>1. Listed(s, t, g, c) BY ScopesInIs
  <2>2. i = Env!Innermost(s, sp, v) BY <1>1, HeadIs
  <2> HIDE DEF s
  <2>3. DOMAIN s = 1 .. 1 /\ s[1][sp][v] = DeclaredIn(t, g, c, 1, sp, v) BY <1>1, <1>4, <2>1 DEF Listed
  <2>4. SUFFICES ASSUME DeclaredIn(t, g, c, 1, sp, v) = NULL PROVE FALSE BY <1>4
  <2> DEFINE n == 1
  <2>5. n \in Nat /\ DOMAIN s = 1 .. n /\ \A k \in 1 .. n : s[k][sp][v] = NULL BY <2>3, <2>4
  <2> HIDE DEF n
  <2>6. Env!Innermost(s, sp, v) = NULL BY <2>5, InnermostNone
  <2>7. QED BY <2>2, <2>6
<1>5. CASE Len(c) > 0
  <2>1. ~FileWide(t, sp, v, i)
    <3>1. SUFFICES ASSUME FileWide(t, sp, v, i) PROVE FALSE OBVIOUS
    <3>2. PICK q \in DOMAIN Global(t, sp) : i = Global(t, sp)[q] BY <3>1 DEF FileWide
    <3>3. t.sym[i].sym_scope = 0 BY <1>1, <3>2 DEF Globals
    <3>4. QED BY <1>2, <1>5, <3>3
  <2>2. PICK q \in 1 .. Len(Local(t, sp)) : i = Local(t, sp)[q] /\ Lives(t, g, sp, v, q)
    BY <1>3, <2>1 DEF Visible
  <2>3. PICK k \in 1 .. Len(c) : q \in Start(c, sp, k) + 1 .. End(t, c, sp, k) BY <1>1, ScopeOfPlace
  <2>4. q \in LiveAt(t, g, c, k, sp, v) BY <2>2, <2>3 DEF LiveAt
  <2>5. ScopeOrderly(t, g, c, k) BY DEF Orderly
  <2>6. t.sym[i].sym_scope \in {0, k} BY <2>2, <2>4, <2>5 DEF ScopeOrderly
  <2>7. k = Len(c) BY <1>2, <1>5, <2>6
  <2>8. LiveAt(t, g, c, Len(c), sp, v) # {} BY <2>4, <2>7
  <2>9. Len(c) \in 1 .. Len(c) BY <1>2, <1>5
  <2>10. QED BY <1>1, <2>8, <2>9, DeclaredHere
<1>6. QED BY <1>2, <1>4, <1>5

\* A declaration of the same scope is a reason.
LEMMA RedeclaredReason ==
    ASSUME IInv, IInv', RInv, NEW sp \in {"ident", "struct"}, NEW v \in Names,
           tab.head[sp][v] # NULL, tab.sym[tab.head[sp][v]].sym_scope = Len(ctx)
    PROVE  Env!Reason("redeclaration")
<1>1. Tidy(tab, gone, ctx) /\ Orderly(tab, gone, ctx) BY DEF IInv, RInv
<1> DEFINE i == tab.head[sp][v]
<1>2. i = tab.head[sp][v] /\ i # NULL /\ tab.sym[i].sym_scope = Len(ctx) OBVIOUS
<1> HIDE DEF i
<1>3. DeclaredIn(tab, gone, ctx, Len(ctx) + 1, sp, v) # NULL BY <1>1, <1>2, HiddenHere
<1>4. sp \in Spaces BY DEF Spaces
<1>5. OpenScopes[Env!Depth][sp][v] # NULL BY <1>3, <1>4, LastScope
<1>6. sp \in Env!Spaces BY DEF Env!Spaces
<1>7. QED BY <1>5, <1>6 DEF Env!Reason

\* A declaration is pushed, or refused.
LEMMA EnvPush ==
    ASSUME PlainDialects, IInv, IInv', RInv, Room(tab, 1),
           NEW v \in Names, NEW sp \in {"ident", "struct"}, NEW r \in Meanings,
           NEW scoped \in BOOLEAN, Push(Sym(v, sp, r), scoped)
    PROVE  RInv' /\ (Env!Accept \/ Env!Restart)
<1> DEFINE s == Sym(v, sp, r)
<1>1. sp \in Spaces BY DEF Spaces
<1>2. SymFor(s, v, sp) BY <1>1, SymIs
<1>3. Push(s, scoped) OBVIOUS
<1> HIDE DEF s
<1>4. s \in SymType /\ s.v = v /\ s.sp = sp BY <1>2 DEF SymFor
<1>5. Len(ctx) \in Nat /\ local_scope = Len(ctx) BY DepthIs
<1>6. CASE Redeclares(s)
  <2> DEFINE t == sym_push(tab, s, local_scope)
  <2>1. Error("redeclaration", t) BY <1>3, <1>6 DEF Push
  <2>2. tab.head[sp][v] # NULL /\ tab.sym[tab.head[sp][v]].sym_scope = Len(ctx)
    BY <1>4, <1>5, <1>6 DEF Redeclares
  <2>3. Env!Reason("redeclaration") BY <2>2, RedeclaredReason
  <2> HIDE DEF t
  <2>4. QED BY <2>1, <2>3, EnvError
<1>7. CASE ~Redeclares(s)
  <2> DEFINE d == IF scoped THEN local_scope ELSE 0
  <2>1. Quiet /\ tab' = sym_push(tab, s, d) BY <1>3, <1>7 DEF Push
  <2>2. ~(tab.head[sp][v] # NULL /\ tab.sym[tab.head[sp][v]].sym_scope = Len(ctx))
    BY <1>4, <1>5, <1>7 DEF Redeclares
  <2>3. d \in {0, Len(ctx)} BY <1>5
  <2> HIDE DEF d
  <2>4. Cardinality(On(tab)) < MaxSyms
    <3>1. 1 \in Nat OBVIOUS
    <3>2. Cardinality(On(tab)) \in Nat /\ Cardinality(On(tab)) + 1 <= MaxSyms /\ MaxSyms \in Nat
      BY <3>1, RoomIs
    <3>3. QED BY <3>2
  <2>5. CASE Len(ctx) > 0 BY <1>4, <2>1, <2>3, <2>4, <2>5, EnvLocal
  <2>6. CASE Len(ctx) = 0
    <3>1. tab \in Table /\ Tidy(tab, gone, ctx) /\ Frames(tab, ctx) BY DEF IInv, Tidy, Sound
    <3>2. tab.head[sp][v] = NULL
      <4>1. tab.head[sp][v] # NULL => tab.sym[tab.head[sp][v]].sym_scope = 0
        BY <1>1, <2>6, <3>1, FileLevelMeaning
      <4>2. QED BY <2>2, <2>6, <4>1
    <3>3. "global" \in Stacks /\ "local" \in Stacks /\ GlobalStack(sp) = "global"
      BY DEF Stacks, GlobalStack
    <3>4. tab.stack["local"] = <<>>
      <4>1. Len(tab.stack["local"]) = 0 BY <2>6, <3>1 DEF Frames
      <4>2. tab.stack["local"] \in Seq(Syms) BY <3>1, <3>3, TableParts
      <4>3. QED BY <4>1, <4>2
    <3>5. d = 0 /\ d \in 0 .. MaxDepth
      <4>1. d = 0 BY <2>3, <2>6
      <4>2. QED BY <4>1, Bounded
    <3> DEFINE u == sym_push(tab, s, d)
               i == sym_malloc(tab)
               st == "global"
    <3>6. s.v \in Names /\ st \in Stacks /\ st = IF tab.stack["local"] # <<>> THEN "local" ELSE "global"
      BY <1>4, <3>3, <3>4
    <3> HIDE DEF st
    <3>7. i \in Syms /\ Pushed(tab, u, st, i) /\ Declares(u, i, s.sp, s.v)
      BY <1>4, <2>4, <3>1, <3>5, <3>6, SymPushIs
    <3>8. tab' = u BY <2>1
    <3> HIDE DEF u, i
    <3>9. Pushed(tab, tab', st, i) /\ Declares(tab', i, sp, v) BY <1>4, <3>7, <3>8
    <3>10. st = GlobalStack(sp) /\ sp # "label" BY <3>3 DEF st
    <3>11. RInv' /\ Env!Accept BY <1>1, <2>1, <3>2, <3>7, <3>9, <3>10, EnvGlobal
    <3>12. QED BY <3>11
  <2>7. QED BY <1>5, <2>5, <2>6
<1>8. QED BY <1>6, <1>7

\* The symbol that a name means gets another meaning: scopes and names stay.
LEMMA RetypedKeeps ==
    ASSUME IInv, IInv', RInv, Quiet, NEW sp \in Spaces, NEW v \in Names, NEW i, i = tab.head[sp][v], i # NULL,
           NEW r \in Meanings, tab' = [tab EXCEPT !.sym[i].r = r]
    PROVE  /\ Orderly(tab', gone', ctx') /\ OpenScopes' = OpenScopes /\ tab'.head = tab.head
           /\ i \in Syms /\ i \in On(tab) \ gone /\ Declares(tab, i, sp, v)
           /\ \A q : Labels(q)' = IF sp # "label" THEN Labels(q)
                                  ELSE IF q = r THEN Labels(q) \cup {i} ELSE Labels(q) \ {i}
<1>1. tab \in Table /\ Tidy(tab, gone, ctx) /\ Orderly(tab, gone, ctx) BY DEF IInv, RInv, Tidy, Sound
<1>2. gone' = gone /\ ctx' = ctx BY DEF Quiet
<1>3. Tidy(tab', gone, ctx) BY <1>2 DEF IInv
<1>4. i \in Syms /\ i \in On(tab) \ gone /\ Declares(tab, i, sp, v) BY <1>1, HeadLives
<1> DEFINE u == [tab EXCEPT !.sym[i].r = r]
<1>5. Retyped(tab, u, i, r) BY <1>1, <1>4, RetypeIs
<1>6. tab' = u OBVIOUS
<1> HIDE DEF u
<1>7. Retyped(tab, tab', i, r) BY <1>5, <1>6
<1>8. Orderly(tab', gone, ctx)
  <2>1. i \notin gone BY <1>4
  <2>2. QED BY <1>1, <1>3, <1>7, <2>1, RetypeOrderly
<1>9. ScopesIn(tab', gone, ctx) = ScopesIn(tab, gone, ctx)
  <2>1. \A k \in 1 .. Len(ctx) + 1, sp2 \in Spaces, v2 \in Names :
           DeclaredIn(tab', gone, ctx, k, sp2, v2) = DeclaredIn(tab, gone, ctx, k, sp2, v2)
    BY <1>1, <1>3, <1>7, RetypeDeclared
  <2>2. QED BY <2>1 DEF ScopesIn
<1>10. /\ OpenScopes = ScopesIn(tab, gone, ctx) /\ OpenScopes' = ScopesIn(tab', gone', ctx')
       /\ \A q : Labels(q) = LabelsIn(tab, gone, q) /\ Labels(q)' = LabelsIn(tab', gone', q)
  BY OpenIs
<1>11. OpenScopes' = OpenScopes BY <1>2, <1>9, <1>10
<1>12. tab'.head = tab.head BY <1>7 DEF Retyped
<1>13. \A q : Labels(q)' = IF sp # "label" THEN Labels(q)
                           ELSE IF q = r THEN Labels(q) \cup {i} ELSE Labels(q) \ {i}
  <2>1. Regains(tab, tab', gone, i, r) BY <1>1, <1>4, <1>7, RetypeLabels
  <2>2. tab.sym[i].sp = sp BY <1>4 DEF Declares
  <2>3. \A q : Labels(q)' = LabelsIn(tab', gone, q) /\ Labels(q) = LabelsIn(tab, gone, q)
    BY <1>2, <1>10
  <2>4. QED BY <2>1, <2>2, <2>3 DEF Regains
<1>14. Orderly(tab', gone', ctx') BY <1>2, <1>8
<1>15. QED BY <1>4, <1>11, <1>12, <1>13, <1>14

\* A label that has a declaration is used, or defined.
LEMMA EnvUse ==
    ASSUME IInv, IInv', RInv, Quiet, NEW v \in Names, NEW i, i = tab.head["label"][v], i # NULL,
           tab.sym[i].r = "declared", tab' = [tab EXCEPT !.sym[i].r = "forward"]
    PROVE  RInv' /\ Env!Accept
<1>1. "label" \in Spaces /\ "forward" \in Meanings /\ "defined" # "forward" /\ "declared" # "defined"
  BY MeaningIs DEF Spaces
<1>2. /\ Orderly(tab', gone', ctx') /\ OpenScopes' = OpenScopes
      /\ \A q : Labels(q)' = IF q = "forward" THEN Labels(q) \cup {i} ELSE Labels(q) \ {i}
  <2>1. /\ Orderly(tab', gone', ctx') /\ OpenScopes' = OpenScopes
        /\ \A q : Labels(q)' = IF "label" # "label" THEN Labels(q)
                               ELSE IF q = "forward" THEN Labels(q) \cup {i} ELSE Labels(q) \ {i}
    BY <1>1, RetypedKeeps
  <2>2. QED BY <2>1
<1>3. i \notin Labels("defined") BY <1>1 DEF Labels
<1>4. Labels("forward")' = Labels("forward") \cup {i} /\ Labels("defined")' = Labels("defined")
  <2>1. Labels("defined")' = Labels("defined") \ {i} BY <1>1, <1>2
  <2>2. QED BY <1>2, <1>3, <2>1
<1>5. Env!UseLabel
  <2>1. i = tab.head["label"][v] /\ i \notin Labels("defined") \cup {NULL} BY <1>3
  <2>2. QED BY <1>2, <1>4, <2>1 DEF Env!UseLabel
<1>6. msg' = "" BY DEF Quiet
<1>7. QED BY <1>2, <1>5, <1>6, AcceptIs DEF EnvAccepts

\* A label that has a declaration is defined.
LEMMA EnvDefine ==
    ASSUME IInv, IInv', RInv, Quiet, NEW v \in Names, NEW i, i = tab.head["label"][v], i # NULL,
           tab.sym[i].r # "defined", tab' = [tab EXCEPT !.sym[i].r = "defined"]
    PROVE  RInv' /\ Env!Accept
<1>1. "label" \in Spaces /\ "defined" \in Meanings /\ "defined" # "forward"
  BY MeaningIs DEF Spaces
<1>2. /\ Orderly(tab', gone', ctx') /\ OpenScopes' = OpenScopes
      /\ \A q : Labels(q)' = IF q = "defined" THEN Labels(q) \cup {i} ELSE Labels(q) \ {i}
  <2>1. /\ Orderly(tab', gone', ctx') /\ OpenScopes' = OpenScopes
        /\ \A q : Labels(q)' = IF "label" # "label" THEN Labels(q)
                               ELSE IF q = "defined" THEN Labels(q) \cup {i} ELSE Labels(q) \ {i}
    BY <1>1, RetypedKeeps
  <2>2. QED BY <2>1
<1>3. i \notin Labels("defined") BY DEF Labels
<1>4. Labels("defined")' = Labels("defined") \cup {i} /\ Labels("forward")' = Labels("forward") \ {i}
  BY <1>1, <1>2
<1>5. Env!DefineLabel
  <2>1. i = tab.head["label"][v] /\ i \notin Labels("defined") \cup {NULL} BY <1>3
  <2>2. QED BY <1>2, <1>4, <2>1 DEF Env!DefineLabel
<1>6. msg' = "" BY DEF Quiet
<1>7. QED BY <1>2, <1>5, <1>6, AcceptIs DEF EnvAccepts

\* Nothing that a program can see changes.
EnvSame == UNCHANGED <<OpenScopes, Labels("forward"), Labels("defined"), tab.head, msg>>

\* A tag is completed: Environment does not see it.
LEMMA EnvComplete ==
    ASSUME IInv, IInv', RInv, Quiet, NEW v \in Names, NEW i, i = tab.head["struct"][v], i # NULL,
           tab' = [tab EXCEPT !.sym[i].r = "complete"]
    PROVE  RInv' /\ EnvSame
<1>1. "struct" \in Spaces /\ "complete" \in Meanings /\ "struct" # "label" BY MeaningIs DEF Spaces
<1>2. /\ Orderly(tab', gone', ctx') /\ OpenScopes' = OpenScopes /\ tab'.head = tab.head
      /\ \A q : Labels(q)' = Labels(q)
  <2>1. /\ Orderly(tab', gone', ctx') /\ OpenScopes' = OpenScopes /\ tab'.head = tab.head
        /\ \A q : Labels(q)' = IF "struct" # "label" THEN Labels(q)
                               ELSE IF q = "complete" THEN Labels(q) \cup {i} ELSE Labels(q) \ {i}
    BY <1>1, RetypedKeeps
  <2>2. QED BY <1>1, <2>1
<1>3. msg' = "" BY DEF Quiet
<1>4. msg = ""
  <2>1. SUFFICES ASSUME msg # "" PROVE FALSE OBVIOUS
  <2>2. tab = NoTable BY <2>1 DEF RInv
  <2>3. tab.head["struct"][v] = NULL BY <1>1, <2>2 DEF NoTable
  <2>4. QED BY <2>3
<1>5. RInv' BY <1>2, <1>3 DEF RInv
<1>6. Labels("forward")' = Labels("forward") /\ Labels("defined")' = Labels("defined") BY <1>2
<1>7. msg' = msg BY <1>3, <1>4
<1>8. QED BY <1>2, <1>5, <1>6, <1>7 DEF EnvSame

\* A name that means nothing is put on its global stack.
LEMMA EnvLast ==
    ASSUME IInv, IInv', RInv, Quiet, Room(tab, 1),
           NEW v \in Names, NEW sp \in Spaces, NEW r \in Meanings, tab.head[sp][v] = NULL,
           sp = "label" => Len(ctx) > 0 /\ r \in {"forward", "defined"},
           tab' = PushLast(tab, GlobalStack(sp), Sym(v, sp, r))
    PROVE  RInv' /\ Env!Accept
<1> DEFINE s == Sym(v, sp, r)
<1>1. s \in SymType /\ s.v = v /\ s.sp = sp /\ s.r = r
  <2>1. v \in Idents BY DEF Idents
  <2>2. QED BY <2>1, SymOf
<1>2. tab' = PushLast(tab, GlobalStack(sp), s) OBVIOUS
<1> HIDE DEF s
<1>3. tab \in Table BY DEF IInv, Tidy, Sound
<1>4. Cardinality(On(tab)) < MaxSyms
  <2>1. 1 \in Nat OBVIOUS
  <2>2. Cardinality(On(tab)) \in Nat /\ Cardinality(On(tab)) + 1 <= MaxSyms /\ MaxSyms \in Nat
    BY <2>1, RoomIs
  <2>3. QED BY <2>2
<1> DEFINE st == GlobalStack(sp)
           u == PushLast(tab, st, s)
           i == sym_malloc(tab)
<1>5. st \in Stacks BY StackNames
<1>6. tab' = u BY <1>2
<1>7. st = GlobalStack(sp) OBVIOUS
<1> HIDE DEF st
<1>8. s.v \in Names /\ tab.head[s.sp][s.v] = NULL BY <1>1
<1>9. i \in Syms /\ Pushed(tab, u, st, i) /\ u.sym[i] = s BY <1>1, <1>3, <1>4, <1>5, <1>8, PushLastIs
<1> HIDE DEF u, i
<1>10. /\ i \in Syms /\ Pushed(tab, tab', st, i) /\ Declares(tab', i, sp, v) /\ tab'.sym[i].r = r
  BY <1>1, <1>6, <1>9 DEF Declares
<1>11. sp = "label" => Len(ctx) > 0 /\ tab'.sym[i].r \in {"forward", "defined"} BY <1>10
<1>12. QED BY <1>7, <1>10, <1>11, EnvGlobal

-----------------------------------------------------------------------------
(* The steps of the parser                                                 *)

\* What Environment does with a step of the parser
EnvStep == RInv' /\ (Env!Accept \/ Env!Restart \/ EnvSame)

\* A variable is declared.
LEMMA EnvVariable ==
    ASSUME PlainDialects, IInv, IInv', RInv, Variable
    PROVE  EnvStep
<1>1. dialect.names \subseteq Names BY DialectIs DEF IInv
<1>2. Room(tab, 1) BY DEF Variable, Ready
<1>3. PICK v \in dialect.names :
          Push(Sym(v, "ident", "auto"), TRUE) \/ Push(Sym(v, "ident", ""), FALSE)
  BY DEF Variable
<1>4. v \in Names BY <1>1, <1>3
<1>5. "auto" \in Meanings /\ "" \in Meanings BY DEF Meanings
<1>6. CASE Push(Sym(v, "ident", "auto"), TRUE)
  <2>1. RInv' /\ (Env!Accept \/ Env!Restart) BY <1>2, <1>4, <1>5, <1>6, EnvPush
  <2>2. QED BY <2>1 DEF EnvStep
<1>7. CASE Push(Sym(v, "ident", ""), FALSE)
  <2>1. RInv' /\ (Env!Accept \/ Env!Restart) BY <1>2, <1>4, <1>5, <1>7, EnvPush
  <2>2. QED BY <2>1 DEF EnvStep
<1>8. QED BY <1>3, <1>6, <1>7

\* An error for a declaration of a name that its scope has already
LEMMA EnvRedeclared ==
    ASSUME PlainDialects, IInv, IInv', RInv, Error("redeclaration", tab),
           NEW sp \in {"ident", "struct"}, NEW v \in Names, NEW i,
           i = tab.head[sp][v], i # NULL, tab.sym[i].sym_scope = local_scope
    PROVE  EnvStep
<1>1. local_scope = Len(ctx) BY DepthIs
<1>2. Env!Reason("redeclaration") BY <1>1, RedeclaredReason
<1>3. RInv' /\ Env!Restart BY <1>2, EnvError
<1>4. QED BY <1>3 DEF EnvStep

\* A typedef name is declared.
LEMMA EnvTypedef ==
    ASSUME PlainDialects, IInv, IInv', RInv, Typedef
    PROVE  EnvStep
<1>1. dialect.names \subseteq Names BY DialectIs DEF IInv
<1>2. Room(tab, 1) BY DEF Typedef, Ready
<1>3. PICK v \in dialect.names :
          \/ /\ sym_find(v) # NULL /\ tab.sym[sym_find(v)].sym_scope = local_scope
             /\ Error("redeclaration", tab)
          \/ Push(Sym(v, "ident", "typedef"), FALSE)
  BY DEF Typedef
<1>4. v \in Names BY <1>1, <1>3
<1>5. CASE /\ sym_find(v) # NULL /\ tab.sym[sym_find(v)].sym_scope = local_scope
           /\ Error("redeclaration", tab)
  <2> DEFINE i == sym_find(v)
             sp == "ident"
  <2>1. i = tab.head[sp][v] /\ i # NULL /\ tab.sym[i].sym_scope = local_scope
        /\ sp \in {"ident", "struct"}
    BY <1>5 DEF sym_find
  <2> HIDE DEF i, sp
  <2>2. QED BY <1>4, <1>5, <2>1, EnvRedeclared
<1>6. CASE Push(Sym(v, "ident", "typedef"), FALSE)
  <2>1. RInv' /\ (Env!Accept \/ Env!Restart) BY <1>2, <1>4, <1>6, MeaningIs, EnvPush
  <2>2. QED BY <2>1 DEF EnvStep
<1>7. QED BY <1>3, <1>5, <1>6

\* An enumerator is declared: in the file, what its name means is in the same scope.
LEMMA EnvEnumerator ==
    ASSUME PlainDialects, IInv, IInv', RInv, Enumerator
    PROVE  EnvStep
<1>1. dialect.names \subseteq Names BY DialectIs DEF IInv
<1>2. Room(tab, 1) BY DEF Enumerator, Ready
<1>3. PICK v \in dialect.names :
          \/ sym_find(v) # NULL /\ ~InFunction /\ Error("redeclaration", tab)
          \/ Push(Sym(v, "ident", ""), FALSE)
  BY DEF Enumerator
<1>4. v \in Names BY <1>1, <1>3
<1>5. CASE sym_find(v) # NULL /\ ~InFunction /\ Error("redeclaration", tab)
  <2> DEFINE i == sym_find(v)
             sp == "ident"
  <2>1. i = tab.head[sp][v] /\ i # NULL /\ sp \in Spaces /\ sp \in {"ident", "struct"}
    BY <1>5 DEF sym_find, Spaces
  <2> HIDE DEF i, sp
  <2>2. local_scope = 0 /\ Len(ctx) = 0 BY <1>5, DepthIs
  <2>3. Tidy(tab, gone, ctx) BY DEF IInv
  <2>4. tab.sym[i].sym_scope = local_scope BY <1>4, <2>1, <2>2, <2>3, FileLevelMeaning
  <2>5. QED BY <1>4, <1>5, <2>1, <2>4, EnvRedeclared
<1>6. CASE Push(Sym(v, "ident", ""), FALSE)
  <2>1. RInv' /\ (Env!Accept \/ Env!Restart) BY <1>2, <1>4, <1>6, MeaningIs, EnvPush
  <2>2. QED BY <2>1 DEF EnvStep
<1>7. QED BY <1>3, <1>5, <1>6

\* An extern declaration, in a block or at file scope
LEMMA EnvExternal ==
    ASSUME PlainDialects, IInv, IInv', RInv, External
    PROVE  EnvStep
<1>1. dialect.names \subseteq Names BY DialectIs DEF IInv
<1>2. Room(tab, 1) BY DEF External, Ready
<1>3. PICK v \in dialect.names : Push(Sym(v, "ident", ""), FALSE) BY DEF External
<1>4. v \in Names BY <1>1, <1>3
<1>5. RInv' /\ (Env!Accept \/ Env!Restart) BY <1>2, <1>3, <1>4, MeaningIs, EnvPush
<1>6. QED BY <1>5 DEF EnvStep

\* An unknown name is called, and declared in the file.
LEMMA EnvFunction ==
    ASSUME PlainDialects, IInv, IInv', RInv, Function
    PROVE  EnvStep
<1>1. dialect.names \subseteq Names BY DialectIs DEF IInv
<1>2. Room(tab, 1) /\ Quiet BY DEF Function, Ready
<1>3. PICK v \in dialect.names :
          sym_find(v) = NULL /\ tab' = global_identifier_push(tab, Sym(v, "ident", ""))
  BY DEF Function
<1> DEFINE sp == "ident"
           r == ""
<1>4. v \in Names /\ sp \in Spaces /\ GlobalStack(sp) = "global" /\ sp # "label"
  BY <1>1, <1>3 DEF Spaces, GlobalStack
<1>5. tab.head[sp][v] = NULL BY <1>3 DEF sym_find
<1>6. tab' = PushLast(tab, GlobalStack(sp), Sym(v, sp, r)) BY <1>3, <1>4 DEF global_identifier_push
<1>7. r \in Meanings BY MeaningIs
<1> HIDE DEF sp, r
<1>8. RInv' /\ Env!Accept BY <1>2, <1>4, <1>5, <1>6, <1>7, EnvLast
<1>9. QED BY <1>8 DEF EnvStep

\* A struct tag is declared, completed or mentioned.
LEMMA EnvTag ==
    ASSUME PlainDialects, IInv, IInv', RInv, Tag
    PROVE  EnvStep
<1>1. dialect.names \subseteq Names BY DialectIs DEF IInv
<1>2. Room(tab, 1) BY DEF Tag, Ready
<1>3. PICK v \in dialect.names :
          \/ /\ struct_find(v) # NULL /\ tab.sym[struct_find(v)].sym_scope = local_scope
             /\ Error("redeclaration", tab)
          \/ /\ struct_find(v) # NULL /\ Quiet
             /\ tab' = [tab EXCEPT !.sym[struct_find(v)].r = "complete"]
          \/ Push(Sym(v, "struct", "complete"), TRUE)
          \/ Push(Sym(v, "struct", ""), TRUE)
  BY DEF Tag
<1>4. v \in Names BY <1>1, <1>3
<1>5. CASE /\ struct_find(v) # NULL /\ tab.sym[struct_find(v)].sym_scope = local_scope
           /\ Error("redeclaration", tab)
  <2> DEFINE i == struct_find(v)
             sp == "struct"
  <2>1. i = tab.head[sp][v] /\ i # NULL /\ tab.sym[i].sym_scope = local_scope
        /\ sp \in {"ident", "struct"}
    BY <1>5 DEF struct_find
  <2> HIDE DEF i, sp
  <2>2. QED BY <1>4, <1>5, <2>1, EnvRedeclared
<1>6. CASE /\ struct_find(v) # NULL /\ Quiet
           /\ tab' = [tab EXCEPT !.sym[struct_find(v)].r = "complete"]
  <2>1. RInv' /\ EnvSame BY <1>4, <1>6, EnvComplete DEF struct_find
  <2>2. QED BY <2>1 DEF EnvStep
<1>7. CASE Push(Sym(v, "struct", "complete"), TRUE)
  <2>1. RInv' /\ (Env!Accept \/ Env!Restart) BY <1>2, <1>4, <1>7, MeaningIs, EnvPush
  <2>2. QED BY <2>1 DEF EnvStep
<1>8. CASE Push(Sym(v, "struct", ""), TRUE)
  <2>1. RInv' /\ (Env!Accept \/ Env!Restart) BY <1>2, <1>4, <1>8, MeaningIs, EnvPush
  <2>2. QED BY <2>1 DEF EnvStep
<1>9. QED BY <1>3, <1>5, <1>6, <1>7, <1>8

\* A label that means nothing is put on the global stack, used or defined.
LEMMA EnvNewLabel ==
    ASSUME PlainDialects, IInv, IInv', RInv, Room(tab, 1), Quiet, InFunction,
           NEW v \in Names, label_find(v) = NULL, NEW r \in {"forward", "defined"},
           tab' = label_push(tab, "global_label", Sym(v, "label", r))
    PROVE  RInv' /\ Env!Accept
<1> DEFINE sp == "label"
<1>1. sp \in Spaces /\ GlobalStack(sp) = "global_label" BY DEF Spaces, GlobalStack
<1>2. r \in Meanings BY MeaningIs
<1>3. tab' = PushLast(tab, GlobalStack(sp), Sym(v, sp, r)) BY <1>1 DEF label_push
<1>4. tab.head[sp][v] = NULL BY DEF label_find
<1>5. Len(ctx) > 0 BY DepthIs
<1> HIDE DEF sp
<1>6. QED BY <1>1, <1>2, <1>3, <1>4, <1>5, EnvLast

\* A label is mentioned by goto.
LEMMA EnvGoto ==
    ASSUME PlainDialects, IInv, IInv', RInv, Goto
    PROVE  EnvStep
<1>1. dialect.names \subseteq Names BY DialectIs DEF IInv
<1>2. Room(tab, 1) /\ Quiet /\ InFunction BY DEF Goto, Ready
<1>3. PICK v \in dialect.names :
          \/ /\ label_find(v) = NULL
             /\ tab' = label_push(tab, "global_label", Sym(v, "label", "forward"))
          \/ /\ label_find(v) # NULL /\ tab.sym[label_find(v)].r = "declared"
             /\ tab' = [tab EXCEPT !.sym[label_find(v)].r = "forward"]
  BY DEF Goto
<1>4. v \in Names BY <1>1, <1>3
<1>5. CASE /\ label_find(v) = NULL
           /\ tab' = label_push(tab, "global_label", Sym(v, "label", "forward"))
  <2>1. RInv' /\ Env!Accept BY <1>2, <1>4, <1>5, EnvNewLabel
  <2>2. QED BY <2>1 DEF EnvStep
<1>6. CASE /\ label_find(v) # NULL /\ tab.sym[label_find(v)].r = "declared"
           /\ tab' = [tab EXCEPT !.sym[label_find(v)].r = "forward"]
  <2>1. RInv' /\ Env!Accept BY <1>2, <1>4, <1>6, EnvUse DEF label_find
  <2>2. QED BY <2>1 DEF EnvStep
<1>7. QED BY <1>3, <1>5, <1>6

\* A label is defined, for the first time or again.
LEMMA EnvLabel ==
    ASSUME PlainDialects, IInv, IInv', RInv, Label
    PROVE  EnvStep
<1>1. dialect.names \subseteq Names BY DialectIs DEF IInv
<1>2. Room(tab, 1) /\ InFunction BY DEF Label, Ready
<1>3. PICK v \in dialect.names :
          \/ /\ label_find(v) = NULL /\ Quiet
             /\ tab' = label_push(tab, "global_label", Sym(v, "label", "defined"))
          \/ /\ label_find(v) # NULL /\ tab.sym[label_find(v)].r = "defined"
             /\ Error("duplicate label", tab)
          \/ /\ label_find(v) # NULL /\ tab.sym[label_find(v)].r # "defined" /\ Quiet
             /\ tab' = [tab EXCEPT !.sym[label_find(v)].r = "defined"]
  BY DEF Label
<1>4. v \in Names BY <1>1, <1>3
<1>5. CASE /\ label_find(v) = NULL /\ Quiet
           /\ tab' = label_push(tab, "global_label", Sym(v, "label", "defined"))
  <2>1. RInv' /\ Env!Accept BY <1>2, <1>4, <1>5, EnvNewLabel
  <2>2. QED BY <2>1 DEF EnvStep
<1>6. CASE /\ label_find(v) # NULL /\ tab.sym[label_find(v)].r = "defined"
           /\ Error("duplicate label", tab)
  <2> DEFINE i == label_find(v)
             sp == "label"
  <2>1. i = tab.head[sp][v] /\ i # NULL /\ tab.sym[i].r = "defined" BY <1>6 DEF label_find
  <2>2. sp \in Spaces /\ Tidy(tab, gone, ctx) BY DEF Spaces, IInv
  <2>3. sp = "label" OBVIOUS
  <2> HIDE DEF i, sp
  <2>4. i \in On(tab) \ gone /\ Declares(tab, i, sp, v) BY <1>4, <2>1, <2>2, HeadLives
  <2>5. i \in Labels("defined") BY <2>1, <2>3, <2>4 DEF Labels, Declares
  <2>6. tab.head["label"][v] \in Labels("defined") BY <2>1, <2>3, <2>5
  <2>7. Env!Reason("duplicate label") BY <1>4, <2>6 DEF Env!Reason
  <2>8. RInv' /\ Env!Restart BY <1>6, <2>7, EnvError
  <2>9. QED BY <2>8 DEF EnvStep
<1>7. CASE /\ label_find(v) # NULL /\ tab.sym[label_find(v)].r # "defined" /\ Quiet
           /\ tab' = [tab EXCEPT !.sym[label_find(v)].r = "defined"]
  <2>1. RInv' /\ Env!Accept BY <1>4, <1>7, EnvDefine DEF label_find
  <2>2. QED BY <2>1 DEF EnvStep
<1>8. QED BY <1>3, <1>5, <1>6, <1>7

\* A step of the parser is one of Environment, or changes nothing of it.
LEMMA EnvFollows ==
    ASSUME PlainDialects, IInv, IInv', RInv, [Next]_vars
    PROVE  EnvStep
<1>1. CASE UNCHANGED vars
  <2>1. UNCHANGED <<tab, ctx, gone, msg>> BY <1>1 DEF vars
  <2>2. RInv' BY <2>1 DEF RInv
  <2>3. OpenScopes' = OpenScopes
    <3>1. OpenScopes = ScopesIn(tab, gone, ctx) /\ OpenScopes' = ScopesIn(tab', gone', ctx') BY OpenIs
    <3>2. QED BY <2>1, <3>1
  <2>4. \A r : Labels(r)' = Labels(r)
    <3>1. \A r : Labels(r) = LabelsIn(tab, gone, r) /\ Labels(r)' = LabelsIn(tab', gone', r) BY OpenIs
    <3>2. QED BY <2>1, <3>1
  <2>5. Labels("forward")' = Labels("forward") /\ Labels("defined")' = Labels("defined") BY <2>4
  <2>6. tab'.head = tab.head /\ msg' = msg BY <2>1
  <2>7. QED BY <2>2, <2>3, <2>5, <2>6 DEF EnvStep, EnvSame
<1>2. CASE Next
  <2>1. CASE SyntaxError
    <3>1. RInv' /\ Env!Restart BY <2>1, EnvSyntaxError
    <3>2. QED BY <3>1 DEF EnvStep
  <2>2. CASE EndFile
    <3>1. RInv' /\ Env!Restart BY <2>2, EnvEndFile
    <3>2. QED BY <3>1 DEF EnvStep
  <2>3. CASE Variable BY <2>3, EnvVariable
  <2>4. CASE Typedef BY <2>4, EnvTypedef
  <2>5. CASE Enumerator BY <2>5, EnvEnumerator
  <2>6. CASE External BY <2>6, EnvExternal
  <2>7. CASE Function BY <2>7, EnvFunction
  <2>8. CASE Tag BY <2>8, EnvTag
  <2>9. CASE Goto BY <2>9, EnvGoto
  <2>10. CASE Label BY <2>10, EnvLabel
  <2>11. CASE BeginFunction
    <3>1. RInv' /\ Env!Accept BY <2>11, EnvBeginFunction
    <3>2. QED BY <3>1 DEF EnvStep
  <2>12. CASE BeginBlock
    <3>1. RInv' /\ Env!Accept BY <2>12, EnvBeginBlock
    <3>2. QED BY <3>1 DEF EnvStep
  <2>13. CASE BeginFor
    <3>1. RInv' /\ Env!Accept BY <2>13, EnvBeginFor
    <3>2. QED BY <3>1 DEF EnvStep
  <2>14. CASE EndBlock
    <3>1. RInv' /\ (Env!Accept \/ Env!Restart) BY <2>14, EnvEndBlock
    <3>2. QED BY <3>1 DEF EnvStep
  <2>15. CASE EndFor
    <3>1. RInv' /\ Env!Accept BY <2>15, EnvEndFor
    <3>2. QED BY <3>1 DEF EnvStep
  <2>16. CASE EndFunction
    <3>1. RInv' /\ (Env!Accept \/ Env!Restart) BY <2>16, EnvEndFunction
    <3>2. QED BY <3>1 DEF EnvStep
  <2>17. QED
    BY <1>2, <2>1, <2>2, <2>3, <2>4, <2>5, <2>6, <2>7, <2>8, <2>9, <2>10, <2>11, <2>12, <2>13, <2>14,
       <2>15, <2>16 DEF Next
<1>3. QED BY <1>1, <1>2

\* The tables are empty at first, as Environment starts.
LEMMA EnvStarts == Init => RInv /\ Env!EnvInit
<1> SUFFICES ASSUME Init PROVE RInv /\ Env!EnvInit OBVIOUS
<1>1. tab = NoTable /\ ctx = <<>> /\ gone = {} /\ msg = "" BY DEF Init
<1>2. Tidy(tab, gone, ctx) /\ Len(ctx) = 0 BY <1>1, TidyStart
<1>3. \A st \in Stacks : Len(tab.stack[st]) = 0 BY <1>1 DEF NoTable
<1>4. /\ Orderly(tab, gone, ctx) /\ ScopesIn(tab, gone, ctx) = <<Env!Empty>> /\ tab.head = Env!Empty
      /\ \A r : LabelsIn(tab, gone, r) = {}
  BY <1>2, <1>3, EmptyTables
<1>5. RInv BY <1>1, <1>4 DEF RInv
<1>6. OpenScopes = ScopesIn(tab, gone, ctx)
  <2>1. \A k \in 1 .. Len(ctx) + 1 : k \in Nat BY <1>2
  <2>2. \A k \in 1 .. Len(ctx) + 1, sp \in Spaces, v \in Names :
           Declared(k, sp, v) = DeclaredIn(tab, gone, ctx, k, sp, v)
    BY <2>1, DeclaredIs
  <2>3. QED BY <2>2 DEF OpenScopes, ScopesIn
<1>7. Labels("forward") = {} /\ Labels("defined") = {}
  <2>1. Labels("forward") = LabelsIn(tab, gone, "forward") /\ Labels("defined") = LabelsIn(tab, gone, "defined")
    BY DEF Labels, LabelsIn
  <2>2. QED BY <1>4, <2>1
<1>8. Env!EnvInit BY <1>1, <1>4, <1>6, <1>7 DEF Env!EnvInit
<1>9. QED BY <1>5, <1>8

\* A step of a sound table, in the words of Environment
LEMMA EnvSteps ==
    ASSUME PlainDialects, IInv, IInv', RInv, [Next]_vars
    PROVE  RInv' /\ [Env!Accept \/ Env!Restart]_(<<OpenScopes, Labels("forward"), Labels("defined"), tab.head, msg>>)
<1>1. EnvStep BY EnvFollows
<1>2. QED BY <1>1 DEF EnvStep, EnvSame

\* The symbol tables of tccgen.c do what Environment promises: whatever is declared,
\* hidden, kept by ({...}) and popped, in whatever order and however deep, a name
\* means the innermost declaration of its name space that is in scope, and a program
\* is refused only for the reason that the message gives (sym_push(), sym_pop(),
\* label_push(), label_pop(), global_identifier_push(), block()).
THEOREM ScopesImplement ==
    ASSUME PlainDialects
    PROVE  Spec => ScopesNest
<1>1. Init => IInv BY IInvInit
<1>2. IInv /\ [Next]_vars => IInv' BY IInvNext
<1>3. Init => RInv /\ Env!EnvInit BY EnvStarts
<1>4. IInv /\ IInv' /\ RInv /\ [Next]_vars
        => RInv' /\ [Env!Accept \/ Env!Restart]_(<<OpenScopes, Labels("forward"), Labels("defined"), tab.head, msg>>)
  BY EnvSteps
<1>5. QED BY <1>1, <1>2, <1>3, <1>4, PTL DEF Spec, ScopesNest, Env!EnvSpec, Env!envVars
=============================================================================
