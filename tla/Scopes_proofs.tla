---------------------------- MODULE Scopes_proofs ----------------------------
(***************************************************************************)
(* Proofs about Scopes: whatever a program declares, in any nesting of     *)
(* blocks, loops, statement expressions and functions, with any number of  *)
(* names and symbols, the symbol tables stay sound, and therefore no name  *)
(* leads to a freed symbol, global declarations reappear, and no scope     *)
(* declares a variable twice.  The programs are those of the plain         *)
(* dialects: sessions and reused names are those in which it is not so.    *)
(* The lemmas of the first part are about the tables alone: t and u are    *)
(* tables, g and h the sets of their symbols that are only kept on their   *)
(* stack.                                                                  *)
(***************************************************************************)
EXTENDS Scopes, FiniteSetTheorems, SequenceTheorems, Loops_proofs

-----------------------------------------------------------------------------
(* The symbol tables                                                       *)

Table ==
    [sym   : [Syms -> SymType],
     stack : [Stacks -> Seq(Syms)],
     head  : [Spaces -> [Names -> Syms \cup {NULL}]]]

\* The stack of the declarations that end with their scope, and of the others
LocalStack(sp) == IF sp = "label" THEN "local_label" ELSE "local"
GlobalStack(sp) == IF sp = "label" THEN "global_label" ELSE "global"
Local(t, sp) == t.stack[LocalStack(sp)]
Global(t, sp) == t.stack[GlobalStack(sp)]

Declares(t, i, sp, v) == t.sym[i].v = v /\ t.sym[i].sp = sp

\* Position p of the local stack has a declaration of v that is in scope
Lives(t, g, sp, v, p) ==
    Local(t, sp)[p] \notin g /\ Declares(t, Local(t, sp)[p], sp, v)

\* No such declaration in the positions from p to q
NoneLives(t, g, sp, v, p, q) == \A k \in p .. q : ~Lives(t, g, sp, v, k)

\* What v means when all local scopes are left
FileWide(t, sp, v, i) ==
    \/ \E q \in DOMAIN Global(t, sp) : i = Global(t, sp)[q] /\ Declares(t, i, sp, v)
    \/ i = NULL /\ \A q \in DOMAIN Global(t, sp) : ~Declares(t, Global(t, sp)[q], sp, v)

\* What v means when the local stack is popped to position p: the last local
\* declaration that is in scope, or else the global one
Visible(t, g, sp, v, p, i) ==
    \/ \E q \in 1 .. p : /\ i = Local(t, sp)[q] /\ Lives(t, g, sp, v, q)
                         /\ NoneLives(t, g, sp, v, q + 1, p)
    \/ FileWide(t, sp, v, i) /\ NoneLives(t, g, sp, v, 1, p)

\* A kept symbol at p may lead to one that was kept with it, or after it
Stale(t, g, B, sp, v, p, i) ==
    \E q \in 1 .. p - 1 : /\ i = Local(t, sp)[q] /\ i \in g /\ Declares(t, i, sp, v)
                          /\ \A b \in B[sp] : ~(q <= b /\ b < p)

\* A symbol has one place on one stack.
Apart(t) ==
    \A st1, st2 \in Stacks : \A p \in DOMAIN t.stack[st1], q \in DOMAIN t.stack[st2] :
        t.stack[st1][p] = t.stack[st2][q] => st1 = st2 /\ p = q

\* Each symbol is on a stack of its name space; a nameless one directs sym_push()
Kinds(t) ==
    \A st \in Stacks : \A p \in DOMAIN t.stack[st] :
        LET s == t.sym[t.stack[st][p]]
        IN \/ s.v \notin Names /\ st = "local"
           \/ s.v \in Names /\ st \in {LocalStack(s.sp), GlobalStack(s.sp)}

\* The global declarations of a name are one, which ends its chain.
Globals(t) ==
    \A sp \in Spaces : \A p, q \in DOMAIN Global(t, sp) :
        LET s == t.sym[Global(t, sp)[p]]
        IN /\ s.prev_tok = NULL /\ s.sym_scope = 0
           /\ Declares(t, Global(t, sp)[q], s.sp, s.v) => p = q

Heads(t, g) ==
    \A sp \in Spaces, v \in Names :
        Visible(t, g, sp, v, Len(Local(t, sp)), t.head[sp][v])

\* The link of a symbol is what its name means when the symbol is popped.
LinkOf(t, g, B, sp, v, p) ==
    LET i == Local(t, sp)[p]
    IN \/ Visible(t, g, sp, v, p - 1, t.sym[i].prev_tok)
       \/ i \in g /\ Stale(t, g, B, sp, v, p, t.sym[i].prev_tok)
Links(t, g, B) ==
    \A sp \in Spaces, v \in Names : \A p \in DOMAIN Local(t, sp) :
        Declares(t, Local(t, sp)[p], sp, v) => LinkOf(t, g, B, sp, v, p)

GoneLocal(t, g) ==
    \A i \in g : \E sp \in Spaces : \E p \in DOMAIN Local(t, sp) : i = Local(t, sp)[p]

\* B: the positions of the local stacks to which they may be popped
Sound(t, g, B) ==
    /\ t \in Table /\ GoneLocal(t, g)
    /\ Apart(t) /\ Kinds(t) /\ Globals(t) /\ Heads(t, g) /\ Links(t, g, B)

-----------------------------------------------------------------------------
(* Reading tables *)

\* Each name space has a local and a global stack.
LEMMA StackNames ==
    \A sp \in Spaces : /\ LocalStack(sp) \in {"local", "local_label"} /\ LocalStack(sp) \in Stacks
                       /\ GlobalStack(sp) \in {"global", "global_label"} /\ GlobalStack(sp) \in Stacks
BY DEF Spaces, Stacks, LocalStack, GlobalStack

\* The parts of a table.
LEMMA TableParts ==
    ASSUME NEW t \in Table
    PROVE  /\ \A i \in Syms : t.sym[i] \in SymType
           /\ \A st \in Stacks : t.stack[st] \in Seq(Syms) /\ DOMAIN t.stack[st] = 1 .. Len(t.stack[st])
                                 /\ Len(t.stack[st]) \in Nat
                                 /\ \A p \in 1 .. Len(t.stack[st]) : t.stack[st][p] \in Syms
           /\ \A sp \in Spaces, v \in Names : t.head[sp][v] \in Syms \cup {NULL}
<1>1. t.sym \in [Syms -> SymType] /\ t.stack \in [Stacks -> Seq(Syms)]
      /\ t.head \in [Spaces -> [Names -> Syms \cup {NULL}]]
  BY DEF Table
<1>2. ASSUME NEW st \in Stacks
      PROVE  t.stack[st] \in Seq(Syms) /\ DOMAIN t.stack[st] = 1 .. Len(t.stack[st])
             /\ Len(t.stack[st]) \in Nat /\ \A p \in 1 .. Len(t.stack[st]) : t.stack[st][p] \in Syms
  <2>1. t.stack[st] \in Seq(Syms) BY <1>1
  <2>2. QED BY <2>1
<1>3. QED BY <1>1, <1>2

\* The local and the global stack of a name space.
LEMMA LocalParts ==
    ASSUME NEW t \in Table, NEW sp \in Spaces
    PROVE  /\ DOMAIN Local(t, sp) = 1 .. Len(Local(t, sp)) /\ Len(Local(t, sp)) \in Nat
           /\ \A p \in 1 .. Len(Local(t, sp)) : Local(t, sp)[p] \in Syms
           /\ DOMAIN Global(t, sp) = 1 .. Len(Global(t, sp)) /\ Len(Global(t, sp)) \in Nat
           /\ \A p \in 1 .. Len(Global(t, sp)) : Global(t, sp)[p] \in Syms
BY StackNames, TableParts DEF Local, Global

\* What is on the stacks.
LEMMA OnStacks ==
    ASSUME NEW t \in Table
    PROVE  /\ On(t) \subseteq Syms
           /\ \A i : i \in On(t) <=> \E st \in Stacks : \E p \in DOMAIN t.stack[st] : i = t.stack[st][p]
<1>1. \A st \in Stacks : \A i : i \in Range(t.stack[st]) <=> \E p \in DOMAIN t.stack[st] : i = t.stack[st][p]
  BY DEF Range
<1>2. \A i : i \in On(t) <=> \E st \in Stacks : i \in Range(t.stack[st])
  BY DEF On
<1>3. \A i : i \in On(t) <=> \E st \in Stacks : \E p \in DOMAIN t.stack[st] : i = t.stack[st][p]
  BY <1>1, <1>2
<1>4. On(t) \subseteq Syms BY <1>3, TableParts
<1>5. QED BY <1>3, <1>4

\* A name means the same in two tables that agree on the declarations in scope
\* up to a position and on the global ones.
LEMMA VisibleSame ==
    ASSUME NEW t, NEW u, NEW g, NEW h, NEW sp, NEW v, NEW p \in Nat, NEW i,
           \A q \in 1 .. p : Local(u, sp)[q] = Local(t, sp)[q]
                             /\ (Lives(u, h, sp, v, q) <=> Lives(t, g, sp, v, q)),
           FileWide(u, sp, v, i) <=> FileWide(t, sp, v, i)
    PROVE  Visible(u, h, sp, v, p, i) <=> Visible(t, g, sp, v, p, i)
<1>1. \A q \in 1 .. p : NoneLives(u, h, sp, v, q + 1, p) <=> NoneLives(t, g, sp, v, q + 1, p)
  BY DEF NoneLives
<1>2. NoneLives(u, h, sp, v, 1, p) <=> NoneLives(t, g, sp, v, 1, p)
  BY DEF NoneLives
<1>3. QED BY <1>1, <1>2 DEF Visible

\* ... and at two positions between which there is no declaration in scope.
LEMMA VisibleBetween ==
    ASSUME NEW t, NEW g, NEW sp, NEW v, NEW p \in Nat, NEW q \in Nat, NEW i,
           p <= q, NoneLives(t, g, sp, v, p + 1, q)
    PROVE  Visible(t, g, sp, v, p, i) <=> Visible(t, g, sp, v, q, i)
<1>1. \A k \in 1 .. p : NoneLives(t, g, sp, v, k + 1, p) <=> NoneLives(t, g, sp, v, k + 1, q)
  BY DEF NoneLives
<1>2. NoneLives(t, g, sp, v, 1, p) <=> NoneLives(t, g, sp, v, 1, q)
  BY DEF NoneLives
<1>3. \A k \in p + 1 .. q : ~Lives(t, g, sp, v, k) BY DEF NoneLives
<1>4. QED BY <1>1, <1>2, <1>3 DEF Visible

-----------------------------------------------------------------------------
(* Pushing *)

\* u is t with the symbol i, which was not on a stack, on top of stack st.
Pushed(t, u, st, i) ==
    /\ u \in Table
    /\ \A st2 \in Stacks : \A p \in DOMAIN t.stack[st2] :
           /\ p \in DOMAIN u.stack[st2] /\ u.stack[st2][p] = t.stack[st2][p]
           /\ t.stack[st2][p] # i
           /\ u.sym[t.stack[st2][p]] = t.sym[t.stack[st2][p]]
    /\ \A st2 \in Stacks : \A p \in DOMAIN u.stack[st2] :
           \/ p \in DOMAIN t.stack[st2]
           \/ st2 = st /\ p = Len(t.stack[st]) + 1 /\ u.stack[st2][p] = i
    /\ Len(t.stack[st]) + 1 \in DOMAIN u.stack[st] /\ u.stack[st][Len(t.stack[st]) + 1] = i
    /\ \A st2 \in Stacks : Len(u.stack[st2]) = IF st2 = st THEN Len(t.stack[st2]) + 1
                                                         ELSE Len(t.stack[st2])

\* A free symbol that is appended to a stack
LEMMA AppendPushes ==
    ASSUME NEW t \in Table, NEW u \in Table, NEW st \in Stacks, NEW i \in Syms \ On(t),
           \A j \in Syms \ {i} : u.sym[j] = t.sym[j],
           \A st2 \in Stacks \ {st} : u.stack[st2] = t.stack[st2],
           u.stack[st] = Append(t.stack[st], i)
    PROVE  Pushed(t, u, st, i)
<1>1. t.stack[st] \in Seq(Syms) BY TableParts
<1>2. Len(t.stack[st]) \in Nat /\ DOMAIN t.stack[st] = 1 .. Len(t.stack[st]) BY <1>1
<1>3. /\ Len(u.stack[st]) = Len(t.stack[st]) + 1
      /\ DOMAIN u.stack[st] = 1 .. (Len(t.stack[st]) + 1)
      /\ \A p \in 1 .. Len(t.stack[st]) : u.stack[st][p] = t.stack[st][p]
      /\ u.stack[st][Len(t.stack[st]) + 1] = i
  BY <1>1
<1>4. ASSUME NEW st2 \in Stacks, NEW p \in DOMAIN t.stack[st2]
      PROVE  /\ p \in DOMAIN u.stack[st2] /\ u.stack[st2][p] = t.stack[st2][p]
             /\ t.stack[st2][p] # i
             /\ u.sym[t.stack[st2][p]] = t.sym[t.stack[st2][p]]
  <2>1. t.stack[st2][p] \in On(t) /\ t.stack[st2][p] \in Syms BY OnStacks
  <2>2. t.stack[st2][p] # i BY <2>1
  <2>3. u.sym[t.stack[st2][p]] = t.sym[t.stack[st2][p]] BY <2>1, <2>2
  <2>4. p \in DOMAIN u.stack[st2] /\ u.stack[st2][p] = t.stack[st2][p]
    <3>1. CASE st2 = st BY <1>2, <1>3, <3>1
    <3>2. CASE st2 # st BY <3>2
    <3>3. QED BY <3>1, <3>2
  <2>5. QED BY <2>2, <2>3, <2>4
<1>5. ASSUME NEW st2 \in Stacks, NEW p \in DOMAIN u.stack[st2]
      PROVE  \/ p \in DOMAIN t.stack[st2]
             \/ st2 = st /\ p = Len(t.stack[st]) + 1 /\ u.stack[st2][p] = i
  <2>1. CASE st2 = st BY <1>2, <1>3, <2>1
  <2>2. CASE st2 # st BY <2>2
  <2>3. QED BY <2>1, <2>2
<1>6. ASSUME NEW st2 \in Stacks
      PROVE  Len(u.stack[st2]) = IF st2 = st THEN Len(t.stack[st2]) + 1 ELSE Len(t.stack[st2])
  BY <1>3
<1>7. Len(t.stack[st]) + 1 \in DOMAIN u.stack[st] BY <1>2, <1>3
<1>8. QED BY <1>3, <1>4, <1>5, <1>6, <1>7 DEF Pushed

\* The new symbol has a place of its own.
LEMMA PushedApart ==
    ASSUME NEW t \in Table, NEW u, NEW st \in Stacks, NEW i, Pushed(t, u, st, i), Apart(t)
    PROVE  Apart(u)
<1>1. SUFFICES ASSUME NEW st1 \in Stacks, NEW st2 \in Stacks,
                      NEW p \in DOMAIN u.stack[st1], NEW q \in DOMAIN u.stack[st2],
                      u.stack[st1][p] = u.stack[st2][q]
               PROVE  st1 = st2 /\ p = q
  BY DEF Apart
<1>2. CASE p \in DOMAIN t.stack[st1] /\ q \in DOMAIN t.stack[st2]
  <2>1. u.stack[st1][p] = t.stack[st1][p] /\ u.stack[st2][q] = t.stack[st2][q] BY <1>2 DEF Pushed
  <2>2. t.stack[st1][p] = t.stack[st2][q] BY <1>1, <2>1
  <2>3. QED BY <1>2, <2>2 DEF Apart
<1>3. CASE p \in DOMAIN t.stack[st1] /\ q \notin DOMAIN t.stack[st2]
  <2>1. u.stack[st1][p] = t.stack[st1][p] /\ t.stack[st1][p] # i BY <1>3 DEF Pushed
  <2>2. u.stack[st2][q] = i BY <1>3 DEF Pushed
  <2>3. QED BY <1>1, <2>1, <2>2
<1>4. CASE p \notin DOMAIN t.stack[st1] /\ q \in DOMAIN t.stack[st2]
  <2>1. u.stack[st2][q] = t.stack[st2][q] /\ t.stack[st2][q] # i BY <1>4 DEF Pushed
  <2>2. u.stack[st1][p] = i BY <1>4 DEF Pushed
  <2>3. QED BY <1>1, <2>1, <2>2
<1>5. CASE p \notin DOMAIN t.stack[st1] /\ q \notin DOMAIN t.stack[st2]
  BY <1>5 DEF Pushed
<1>6. QED BY <1>2, <1>3, <1>4, <1>5

\* ... on a stack of its kind.
LEMMA PushedKinds ==
    ASSUME NEW t \in Table, NEW u, NEW st \in Stacks, NEW i, Pushed(t, u, st, i), Kinds(t),
           \/ u.sym[i].v \notin Names /\ st = "local"
           \/ u.sym[i].v \in Names /\ st \in {LocalStack(u.sym[i].sp), GlobalStack(u.sym[i].sp)}
    PROVE  Kinds(u)
<1> DEFINE Kind(s, st2) == \/ s.v \notin Names /\ st2 = "local"
                           \/ s.v \in Names /\ st2 \in {LocalStack(s.sp), GlobalStack(s.sp)}
<1>1. \A st2 \in Stacks : \A p \in DOMAIN t.stack[st2] : Kind(t.sym[t.stack[st2][p]], st2)
  BY DEF Kinds
<1>2. Kind(u.sym[i], st) OBVIOUS
<1> HIDE DEF Kind
<1>3. ASSUME NEW st2 \in Stacks, NEW p \in DOMAIN u.stack[st2]
      PROVE  Kind(u.sym[u.stack[st2][p]], st2)
  <2>1. CASE p \in DOMAIN t.stack[st2]
    <3>1. u.stack[st2][p] = t.stack[st2][p] /\ u.sym[t.stack[st2][p]] = t.sym[t.stack[st2][p]]
      BY <2>1 DEF Pushed
    <3>2. QED BY <1>1, <2>1, <3>1
  <2>2. CASE p \notin DOMAIN t.stack[st2]
    <3>1. st2 = st /\ u.stack[st2][p] = i BY <2>2 DEF Pushed
    <3>2. QED BY <1>2, <3>1
  <2>3. QED BY <2>1, <2>2
<1>4. QED BY <1>3 DEF Kinds, Kind

\* What is on a local stack of t is there in u.
SameLocal(t, u, sp) ==
    \A p \in 1 .. Len(Local(t, sp)) :
        /\ Local(u, sp)[p] = Local(t, sp)[p]
        /\ u.sym[Local(t, sp)[p]] = t.sym[Local(t, sp)[p]]

\* What was on the local stacks is there.
LEMMA PushedLocal ==
    ASSUME NEW t \in Table, NEW u, NEW st \in Stacks, NEW i, Pushed(t, u, st, i),
           NEW sp \in Spaces
    PROVE  /\ Len(Local(u, sp)) = IF st = LocalStack(sp) THEN Len(Local(t, sp)) + 1 ELSE Len(Local(t, sp))
           /\ SameLocal(t, u, sp)
<1>1. LocalStack(sp) \in Stacks BY StackNames
<1>2. DOMAIN t.stack[LocalStack(sp)] = 1 .. Len(t.stack[LocalStack(sp)]) BY <1>1, TableParts
<1>3. \A p \in 1 .. Len(Local(t, sp)) :
           Local(u, sp)[p] = Local(t, sp)[p] /\ u.sym[Local(t, sp)[p]] = t.sym[Local(t, sp)[p]]
  BY <1>1, <1>2 DEF Pushed, Local
<1>5. Len(Local(u, sp)) = IF st = LocalStack(sp) THEN Len(Local(t, sp)) + 1 ELSE Len(Local(t, sp))
  <2>1. CASE st = LocalStack(sp) BY <2>1 DEF Pushed, Local
  <2>2. CASE st # LocalStack(sp) BY <1>1, <2>2 DEF Local, Pushed
  <2>3. QED BY <2>1, <2>2
<1>6. QED BY <1>3, <1>5 DEF SameLocal

\* What is global in u
LEMMA PushedGlobal ==
    ASSUME NEW t \in Table, NEW u, NEW st \in Stacks, NEW i, Pushed(t, u, st, i), NEW sp \in Spaces
    PROVE  /\ \A q \in DOMAIN Global(t, sp) :
                  /\ q \in DOMAIN Global(u, sp) /\ Global(u, sp)[q] = Global(t, sp)[q]
                  /\ u.sym[Global(t, sp)[q]] = t.sym[Global(t, sp)[q]]
           /\ \A q \in DOMAIN Global(u, sp) :
                  \/ q \in DOMAIN Global(t, sp)
                  \/ st = GlobalStack(sp) /\ Global(u, sp)[q] = i
           /\ st = GlobalStack(sp) => \E q \in DOMAIN Global(u, sp) : Global(u, sp)[q] = i
<1>1. GlobalStack(sp) \in Stacks BY StackNames
<1>2. \A q \in DOMAIN Global(t, sp) :
                  /\ q \in DOMAIN Global(u, sp) /\ Global(u, sp)[q] = Global(t, sp)[q]
                  /\ u.sym[Global(t, sp)[q]] = t.sym[Global(t, sp)[q]]
  BY <1>1 DEF Pushed, Global
<1>3. \A q \in DOMAIN Global(u, sp) :
                  \/ q \in DOMAIN Global(t, sp)
                  \/ st = GlobalStack(sp) /\ Global(u, sp)[q] = i
  BY <1>1 DEF Pushed, Global
<1>4. ASSUME st = GlobalStack(sp) PROVE \E q \in DOMAIN Global(u, sp) : Global(u, sp)[q] = i
  <2>1. Len(t.stack[st]) + 1 \in 1 .. Len(t.stack[st]) + 1 BY TableParts
  <2>2. QED BY <1>4, <2>1 DEF Pushed, Global
<1>5. QED BY <1>2, <1>3, <1>4

\* What a name means outside of the scopes depends on its global declarations
\* only,
LEMMA FileWideSame ==
    ASSUME NEW t, NEW u, NEW sp, NEW v,
           \A q \in DOMAIN Global(t, sp) :
               /\ q \in DOMAIN Global(u, sp) /\ Global(u, sp)[q] = Global(t, sp)[q]
               /\ Declares(u, Global(t, sp)[q], sp, v) <=> Declares(t, Global(t, sp)[q], sp, v),
           \A q \in DOMAIN Global(u, sp) :
               q \in DOMAIN Global(t, sp) \/ ~Declares(u, Global(u, sp)[q], sp, v)
    PROVE  \A i : FileWide(u, sp, v, i) <=> FileWide(t, sp, v, i)
BY DEF FileWide

\* and what a kept symbol leads to on the local ones.
LEMMA StaleSame ==
    ASSUME NEW t, NEW u, NEW g, NEW B, NEW sp, NEW v, NEW p \in Nat, NEW i,
           \A q \in 1 .. p - 1 :
               /\ Local(u, sp)[q] = Local(t, sp)[q]
               /\ Declares(u, Local(t, sp)[q], sp, v) <=> Declares(t, Local(t, sp)[q], sp, v)
    PROVE  Stale(u, g, B, sp, v, p, i) <=> Stale(t, g, B, sp, v, p, i)
BY DEF Stale

\* A push disturbs neither if the new symbol does not declare the name globally.
LEMMA PushedVisible ==
    ASSUME NEW t \in Table, NEW u, NEW st \in Stacks, NEW i, Pushed(t, u, st, i),
           NEW g, NEW sp \in Spaces, NEW v \in Names, NEW p \in 0 .. Len(Local(t, sp)),
           st # GlobalStack(sp) \/ ~Declares(u, i, sp, v)
    PROVE  \A j : Visible(u, g, sp, v, p, j) <=> Visible(t, g, sp, v, p, j)
<1>0. p \in Nat BY LocalParts
<1>1. \A q \in 1 .. p : q \in 1 .. Len(Local(t, sp)) BY LocalParts
<1>2. \A q \in 1 .. p : Local(u, sp)[q] = Local(t, sp)[q]
                        /\ (Lives(u, g, sp, v, q) <=> Lives(t, g, sp, v, q))
  <2>1. SameLocal(t, u, sp) BY PushedLocal
  <2>2. QED BY <1>1, <2>1 DEF SameLocal, Lives, Declares
<1>3. /\ \A q \in DOMAIN Global(t, sp) :
             /\ q \in DOMAIN Global(u, sp) /\ Global(u, sp)[q] = Global(t, sp)[q]
             /\ u.sym[Global(t, sp)[q]] = t.sym[Global(t, sp)[q]]
      /\ \A q \in DOMAIN Global(u, sp) :
             q \in DOMAIN Global(t, sp) \/ (st = GlobalStack(sp) /\ Global(u, sp)[q] = i)
  BY PushedGlobal
<1>4. \A q \in DOMAIN Global(t, sp) :
             /\ q \in DOMAIN Global(u, sp) /\ Global(u, sp)[q] = Global(t, sp)[q]
             /\ Declares(u, Global(t, sp)[q], sp, v) <=> Declares(t, Global(t, sp)[q], sp, v)
  BY <1>3 DEF Declares
<1>5. \A q \in DOMAIN Global(u, sp) :
             q \in DOMAIN Global(t, sp) \/ ~Declares(u, Global(u, sp)[q], sp, v)
  BY <1>3
<1>6. \A j : FileWide(u, sp, v, j) <=> FileWide(t, sp, v, j) BY <1>4, <1>5, FileWideSame
<1>7. QED BY <1>0, <1>2, <1>6, VisibleSame

\* The links of the symbols that were there stay what they were.
LEMMA PushedLinks ==
    ASSUME NEW t \in Table, NEW u, NEW st \in Stacks, NEW i, Pushed(t, u, st, i),
           NEW g, NEW B, NEW sp \in Spaces, NEW v \in Names, NEW p \in DOMAIN Local(t, sp),
           st # GlobalStack(sp) \/ ~Declares(u, i, sp, v),
           LinkOf(t, g, B, sp, v, p)
    PROVE  LinkOf(u, g, B, sp, v, p)
<1>1. p \in 1 .. Len(Local(t, sp)) /\ p \in Nat /\ p - 1 \in 0 .. Len(Local(t, sp)) BY LocalParts
<1>2. \A q \in 1 .. p - 1 : q \in 1 .. Len(Local(t, sp)) BY <1>1, LocalParts
<1>3. \A q \in 1 .. Len(Local(t, sp)) :
          Local(u, sp)[q] = Local(t, sp)[q] /\ u.sym[Local(t, sp)[q]] = t.sym[Local(t, sp)[q]]
  <2>1. SameLocal(t, u, sp) BY PushedLocal
  <2>2. QED BY <2>1 DEF SameLocal
<1>4. \A q \in 1 .. p - 1 :
          /\ Local(u, sp)[q] = Local(t, sp)[q]
          /\ Declares(u, Local(t, sp)[q], sp, v) <=> Declares(t, Local(t, sp)[q], sp, v)
  BY <1>2, <1>3 DEF Declares
<1>5. \A j : Stale(u, g, B, sp, v, p, j) <=> Stale(t, g, B, sp, v, p, j) BY <1>1, <1>4, StaleSame
<1>6. \A j : Visible(u, g, sp, v, p - 1, j) <=> Visible(t, g, sp, v, p - 1, j)
  BY <1>1, PushedVisible
<1>7. Local(u, sp)[p] = Local(t, sp)[p] /\ u.sym[Local(t, sp)[p]] = t.sym[Local(t, sp)[p]]
  BY <1>1, <1>3
<1>8. QED BY <1>5, <1>6, <1>7 DEF LinkOf

\* What is kept on a local stack is on it after a push.
LEMMA PushedGone ==
    ASSUME NEW t \in Table, NEW u, NEW st \in Stacks, NEW i, Pushed(t, u, st, i),
           NEW g, GoneLocal(t, g)
    PROVE  GoneLocal(u, g) /\ i \notin g
<1>1. ASSUME NEW j \in g
      PROVE  j # i /\ \E sp \in Spaces : \E p \in DOMAIN Local(u, sp) : j = Local(u, sp)[p]
  <2>1. PICK sp \in Spaces : \E p \in DOMAIN Local(t, sp) : j = Local(t, sp)[p] BY DEF GoneLocal
  <2>2. PICK p \in DOMAIN Local(t, sp) : j = Local(t, sp)[p] BY <2>1
  <2>3. LocalStack(sp) \in Stacks BY StackNames
  <2>4. p \in DOMAIN Local(u, sp) /\ Local(u, sp)[p] = Local(t, sp)[p] /\ Local(t, sp)[p] # i
    BY <2>2, <2>3 DEF Pushed, Local
  <2>5. QED BY <2>2, <2>4
<1>2. QED BY <1>1 DEF GoneLocal

\* A local declaration hides what its name meant.
LEMMA LocalPush ==
    ASSUME NEW t, NEW g, NEW B, Sound(t, g, B), NEW u, NEW i, NEW sp0 \in Spaces, NEW v0 \in Names,
           Pushed(t, u, LocalStack(sp0), i), Declares(u, i, sp0, v0),
           u.sym[i].prev_tok = t.head[sp0][v0],
           \A sp \in Spaces, v \in Names :
               u.head[sp][v] = IF sp = sp0 /\ v = v0 THEN i ELSE t.head[sp][v]
    PROVE  Sound(u, g, B)
<1>0. t \in Table /\ u \in Table /\ LocalStack(sp0) \in Stacks BY StackNames DEF Sound, Pushed
<1>1. GoneLocal(u, g) /\ i \notin g BY <1>0, PushedGone DEF Sound
<1>2. Apart(u) BY <1>0, PushedApart DEF Sound
<1>3. Kinds(u) BY <1>0, PushedKinds DEF Sound, Declares
<1>4. \A sp \in Spaces : LocalStack(sp0) # GlobalStack(sp)
  BY DEF LocalStack, GlobalStack
<1>5. Globals(u)
  <2>1. ASSUME NEW sp \in Spaces
        PROVE  \A p, q \in DOMAIN Global(u, sp) :
                  LET s == u.sym[Global(u, sp)[p]]
                  IN /\ s.prev_tok = NULL /\ s.sym_scope = 0
                     /\ Declares(u, Global(u, sp)[q], s.sp, s.v) => p = q
    <3>1. /\ \A q \in DOMAIN Global(t, sp) :
                  /\ Global(u, sp)[q] = Global(t, sp)[q]
                  /\ u.sym[Global(t, sp)[q]] = t.sym[Global(t, sp)[q]]
          /\ \A q \in DOMAIN Global(u, sp) : q \in DOMAIN Global(t, sp)
      BY <1>0, <1>4, PushedGlobal
    <3>2. \A p, q \in DOMAIN Global(t, sp) :
                  LET s == t.sym[Global(t, sp)[p]]
                  IN /\ s.prev_tok = NULL /\ s.sym_scope = 0
                     /\ Declares(t, Global(t, sp)[q], s.sp, s.v) => p = q
      BY DEF Sound, Globals
    <3>3. QED BY <3>1, <3>2 DEF Declares
  <2>2. QED BY <2>1 DEF Globals
<1>6. ASSUME NEW sp \in Spaces, NEW v \in Names
      PROVE  Visible(u, g, sp, v, Len(Local(u, sp)), u.head[sp][v])
  <2>1. Visible(t, g, sp, v, Len(Local(t, sp)), t.head[sp][v]) BY DEF Sound, Heads
  <2>2. Len(Local(t, sp)) \in Nat /\ Len(Local(t, sp)) \in 0 .. Len(Local(t, sp))
    BY <1>0, LocalParts
  <2>3. \A j : Visible(u, g, sp, v, Len(Local(t, sp)), j) <=> Visible(t, g, sp, v, Len(Local(t, sp)), j)
    BY <1>0, <1>4, <2>2, PushedVisible
  <2>4. CASE LocalStack(sp) # LocalStack(sp0)
    <3>1. Len(Local(u, sp)) = Len(Local(t, sp)) BY <1>0, <2>4, PushedLocal
    <3>2. u.head[sp][v] = t.head[sp][v] BY <2>4
    <3>3. QED BY <2>1, <2>3, <3>1, <3>2
  <2>5. CASE LocalStack(sp) = LocalStack(sp0)
    <3>1. Len(Local(u, sp)) = Len(Local(t, sp)) + 1 BY <1>0, <2>5, PushedLocal
    <3>2. Local(u, sp)[Len(Local(t, sp)) + 1] = i BY <2>5 DEF Local, Pushed
    <3>3. CASE sp = sp0 /\ v = v0
      <4>1. Lives(u, g, sp, v, Len(Local(t, sp)) + 1) BY <1>1, <3>2, <3>3 DEF Lives
      <4>2. NoneLives(u, g, sp, v, Len(Local(t, sp)) + 2, Len(Local(t, sp)) + 1) BY <2>2 DEF NoneLives
      <4>3. u.head[sp][v] = i BY <3>3
      <4>4. Len(Local(t, sp)) + 1 \in 1 .. (Len(Local(t, sp)) + 1)
            /\ Len(Local(t, sp)) + 2 = (Len(Local(t, sp)) + 1) + 1 BY <2>2
      <4>5. QED BY <3>1, <3>2, <4>1, <4>2, <4>3, <4>4 DEF Visible
    <3>4. CASE ~(sp = sp0 /\ v = v0)
      <4>1. u.head[sp][v] = t.head[sp][v] BY <3>4
      <4>2. ~Lives(u, g, sp, v, Len(Local(t, sp)) + 1) BY <3>2, <3>4 DEF Lives, Declares
      <4>3. NoneLives(u, g, sp, v, Len(Local(t, sp)) + 1, Len(Local(t, sp)) + 1)
        BY <2>2, <4>2 DEF NoneLives
      <4>4. Visible(u, g, sp, v, Len(Local(t, sp)), t.head[sp][v]) BY <2>1, <2>3
      <4>5. Len(Local(t, sp)) + 1 \in Nat /\ Len(Local(t, sp)) <= Len(Local(t, sp)) + 1 BY <2>2
      <4>6. Visible(u, g, sp, v, Len(Local(t, sp)) + 1, t.head[sp][v])
        BY <2>2, <4>3, <4>4, <4>5, VisibleBetween
      <4>7. QED BY <3>1, <4>1, <4>6
    <3>5. QED BY <3>3, <3>4
  <2>6. QED BY <2>4, <2>5
<1>7. ASSUME NEW sp \in Spaces, NEW v \in Names, NEW p \in DOMAIN Local(u, sp),
             Declares(u, Local(u, sp)[p], sp, v)
      PROVE  LinkOf(u, g, B, sp, v, p)
  <2>1. CASE p \in DOMAIN Local(t, sp)
    <3>1. SameLocal(t, u, sp) BY <1>0, PushedLocal
    <3>2. p \in 1 .. Len(Local(t, sp)) BY <1>0, <2>1, LocalParts
    <3>3. Declares(t, Local(t, sp)[p], sp, v) BY <1>7, <3>1, <3>2 DEF SameLocal, Declares
    <3>4. LinkOf(t, g, B, sp, v, p) BY <2>1, <3>3 DEF Sound, Links
    <3>5. QED BY <1>0, <1>4, <2>1, <3>4, PushedLinks
  <2>2. CASE p \notin DOMAIN Local(t, sp)
    <3>1. LocalStack(sp) = LocalStack(sp0) /\ p = Len(Local(t, sp)) + 1 /\ Local(u, sp)[p] = i
      BY <2>2, StackNames DEF Pushed, Local
    <3>2. sp = sp0 /\ v = v0 BY <1>7, <3>1 DEF Declares
    <3>3. Visible(t, g, sp, v, Len(Local(t, sp)), t.head[sp][v]) BY DEF Sound, Heads
    <3>4. Len(Local(t, sp)) \in Nat /\ Len(Local(t, sp)) \in 0 .. Len(Local(t, sp))
      BY <1>0, LocalParts
    <3>8. \A j : Visible(u, g, sp, v, Len(Local(t, sp)), j) <=> Visible(t, g, sp, v, Len(Local(t, sp)), j)
      BY <1>0, <1>4, <3>4, PushedVisible
    <3>5. Visible(u, g, sp, v, Len(Local(t, sp)), t.head[sp][v]) BY <3>3, <3>8
    <3>6. p - 1 = Len(Local(t, sp)) BY <3>1, <3>4
    <3>7. QED BY <3>1, <3>2, <3>5, <3>6 DEF LinkOf
  <2>3. QED BY <2>1, <2>2
<1>8. Heads(u, g) BY <1>6 DEF Heads
<1>9. Links(u, g, B) BY <1>7 DEF Links
<1>10. QED BY <1>0, <1>1, <1>2, <1>3, <1>5, <1>8, <1>9 DEF Sound

\* A name that means nothing has no declaration but those that are only kept.
LEMMA Undeclared ==
    ASSUME NEW t, NEW g, NEW B, Sound(t, g, B), NEW sp \in Spaces, NEW v \in Names,
           t.head[sp][v] = NULL
    PROVE  /\ FileWide(t, sp, v, NULL) /\ NoneLives(t, g, sp, v, 1, Len(Local(t, sp)))
           /\ \A q \in DOMAIN Global(t, sp) : ~Declares(t, Global(t, sp)[q], sp, v)
<1>1. t \in Table BY DEF Sound
<1>2. NULL \notin Syms BY DEF NULL, Syms
<1>3. Visible(t, g, sp, v, Len(Local(t, sp)), NULL) BY DEF Sound, Heads
<1>4. \A q \in 1 .. Len(Local(t, sp)) : Local(t, sp)[q] # NULL BY <1>1, <1>2, LocalParts
<1>5. FileWide(t, sp, v, NULL) /\ NoneLives(t, g, sp, v, 1, Len(Local(t, sp)))
  BY <1>3, <1>4 DEF Visible
<1>6. \A q \in DOMAIN Global(t, sp) : Global(t, sp)[q] # NULL BY <1>1, <1>2, LocalParts
<1>7. QED BY <1>5, <1>6 DEF FileWide

\* A global declaration of a name that means nothing, and of which no symbol is
\* kept, is what the name means, also when the local scopes are left.
LEMMA GlobalPush ==
    ASSUME NEW t, NEW g, NEW B, Sound(t, g, B), NEW u, NEW i, NEW sp0 \in Spaces, NEW v0 \in Names,
           Pushed(t, u, GlobalStack(sp0), i), Declares(u, i, sp0, v0),
           u.sym[i].prev_tok = NULL, u.sym[i].sym_scope = 0,
           t.head[sp0][v0] = NULL, \A j \in g : ~Declares(t, j, sp0, v0),
           \A sp \in Spaces, v \in Names :
               u.head[sp][v] = IF sp = sp0 /\ v = v0 THEN i ELSE t.head[sp][v]
    PROVE  Sound(u, g, B)
<1>0. t \in Table /\ u \in Table /\ GlobalStack(sp0) \in Stacks BY StackNames DEF Sound, Pushed
<1>1. GoneLocal(u, g) /\ i \notin g BY <1>0, PushedGone DEF Sound
<1>2. Apart(u) BY <1>0, PushedApart DEF Sound
<1>3. Kinds(u) BY <1>0, PushedKinds DEF Sound, Declares
<1>4. \A sp \in Spaces : GlobalStack(sp0) # LocalStack(sp)
  BY DEF LocalStack, GlobalStack
<1>5. /\ FileWide(t, sp0, v0, NULL) /\ NoneLives(t, g, sp0, v0, 1, Len(Local(t, sp0)))
      /\ \A q \in DOMAIN Global(t, sp0) : ~Declares(t, Global(t, sp0)[q], sp0, v0)
  BY Undeclared
<1>6. \A sp \in Spaces : Len(Local(u, sp)) = Len(Local(t, sp)) /\ SameLocal(t, u, sp)
  BY <1>0, <1>4, PushedLocal
<1>7. Globals(u)
  <2>1. ASSUME NEW sp \in Spaces, NEW p \in DOMAIN Global(u, sp), NEW q \in DOMAIN Global(u, sp)
        PROVE  LET s == u.sym[Global(u, sp)[p]]
               IN /\ s.prev_tok = NULL /\ s.sym_scope = 0
                  /\ Declares(u, Global(u, sp)[q], s.sp, s.v) => p = q
    <3>1. /\ \A k \in DOMAIN Global(t, sp) :
                  /\ Global(u, sp)[k] = Global(t, sp)[k]
                  /\ u.sym[Global(t, sp)[k]] = t.sym[Global(t, sp)[k]]
          /\ \A k \in DOMAIN Global(u, sp) :
                  k \in DOMAIN Global(t, sp) \/ (GlobalStack(sp0) = GlobalStack(sp) /\ Global(u, sp)[k] = i)
      BY <1>0, PushedGlobal
    <3>2. \A k, l \in DOMAIN Global(t, sp) :
                  LET s == t.sym[Global(t, sp)[k]]
                  IN /\ s.prev_tok = NULL /\ s.sym_scope = 0
                     /\ Declares(t, Global(t, sp)[l], s.sp, s.v) => k = l
      BY DEF Sound, Globals
    <3>3. ASSUME GlobalStack(sp0) = GlobalStack(sp), NEW k \in DOMAIN Global(t, sp)
          PROVE  ~Declares(u, Global(u, sp)[k], sp0, v0)
      <4>1. k \in DOMAIN Global(t, sp0) /\ Global(t, sp0)[k] = Global(t, sp)[k] BY <3>3 DEF Global
      <4>2. QED BY <1>5, <3>1, <4>1 DEF Declares
    <3>4. \A k \in DOMAIN Global(u, sp) : k \notin DOMAIN Global(t, sp) =>
              GlobalStack(sp0) = GlobalStack(sp) /\ Global(u, sp)[k] = i /\ k = Len(Global(t, sp)) + 1
      BY <3>1, StackNames DEF Pushed, Global
    <3>5. CASE p \in DOMAIN Global(t, sp) /\ q \in DOMAIN Global(t, sp)
      BY <3>1, <3>2, <3>5 DEF Declares
    <3>6. CASE p \in DOMAIN Global(t, sp) /\ q \notin DOMAIN Global(t, sp)
      <4>1. ~Declares(u, Global(u, sp)[p], sp0, v0) BY <3>3, <3>4, <3>6
      <4>2. Global(u, sp)[q] = i BY <3>4, <3>6
      <4>3. QED BY <3>1, <3>2, <3>6, <4>1, <4>2 DEF Declares
    <3>7. CASE p \notin DOMAIN Global(t, sp) /\ q \in DOMAIN Global(t, sp)
      <4>1. ~Declares(u, Global(u, sp)[q], sp0, v0) BY <3>3, <3>4, <3>7
      <4>2. Global(u, sp)[p] = i BY <3>4, <3>7
      <4>3. QED BY <4>1, <4>2 DEF Declares
    <3>8. CASE p \notin DOMAIN Global(t, sp) /\ q \notin DOMAIN Global(t, sp)
      BY <3>4, <3>8
    <3>9. QED BY <3>5, <3>6, <3>7, <3>8
  <2>2. QED BY <2>1 DEF Globals
<1>8. ASSUME NEW sp \in Spaces, NEW v \in Names
      PROVE  Visible(u, g, sp, v, Len(Local(u, sp)), u.head[sp][v])
  <2>1. Len(Local(t, sp)) \in Nat /\ Len(Local(t, sp)) \in 0 .. Len(Local(t, sp))
    BY <1>0, LocalParts
  <2>2. CASE sp = sp0 /\ v = v0
    <3>1. NoneLives(u, g, sp, v, 1, Len(Local(u, sp)))
      BY <1>5, <1>6, <2>2 DEF NoneLives, Lives, SameLocal, Declares
    <3>2. \E q \in DOMAIN Global(u, sp) : Global(u, sp)[q] = i BY <1>0, <2>2, PushedGlobal
    <3>3. FileWide(u, sp, v, i) BY <2>2, <3>2 DEF FileWide
    <3>4. QED BY <2>2, <3>1, <3>3 DEF Visible
  <2>3. CASE ~(sp = sp0 /\ v = v0)
    <3>1. ~Declares(u, i, sp, v) BY <2>3 DEF Declares
    <3>2. Visible(t, g, sp, v, Len(Local(t, sp)), t.head[sp][v]) BY DEF Sound, Heads
    <3>3. \A j : Visible(u, g, sp, v, Len(Local(t, sp)), j) <=> Visible(t, g, sp, v, Len(Local(t, sp)), j)
      BY <1>0, <2>1, <3>1, PushedVisible
    <3>4. QED BY <1>6, <2>3, <3>2, <3>3
  <2>4. QED BY <2>2, <2>3
<1>9. ASSUME NEW sp \in Spaces, NEW v \in Names, NEW p \in DOMAIN Local(u, sp),
             Declares(u, Local(u, sp)[p], sp, v)
      PROVE  LinkOf(u, g, B, sp, v, p)
  <2>1. p \in DOMAIN Local(t, sp) /\ p \in 1 .. Len(Local(t, sp)) BY <1>0, <1>6, LocalParts
  <2>2. Declares(t, Local(t, sp)[p], sp, v) BY <1>6, <1>9, <2>1 DEF SameLocal, Declares
  <2>3. ~(sp = sp0 /\ v = v0)
    <3>1. SUFFICES ASSUME sp = sp0, v = v0 PROVE FALSE
      OBVIOUS
    <3>2. Local(t, sp)[p] \in g BY <1>5, <2>1, <2>2, <3>1 DEF NoneLives, Lives
    <3>3. QED BY <2>2, <3>1, <3>2
  <2>4. ~Declares(u, i, sp, v) BY <2>3 DEF Declares
  <2>5. LinkOf(t, g, B, sp, v, p) BY <2>1, <2>2 DEF Sound, Links
  <2>6. QED BY <1>0, <2>1, <2>4, <2>5, PushedLinks
<1>10. Heads(u, g) BY <1>8 DEF Heads
<1>11. Links(u, g, B) BY <1>9 DEF Links
<1>12. QED BY <1>0, <1>1, <1>2, <1>3, <1>7, <1>10, <1>11 DEF Sound

\* A nameless symbol means nothing.
LEMMA NamelessPush ==
    ASSUME NEW t, NEW g, NEW B, Sound(t, g, B), NEW u, NEW i, NEW st, st = "local",
           Pushed(t, u, st, i), u.sym[i].v \notin Names,
           \A sp \in Spaces, v \in Names : u.head[sp][v] = t.head[sp][v]
    PROVE  Sound(u, g, B)
<1>0. t \in Table /\ u \in Table /\ st \in Stacks BY DEF Sound, Pushed, Stacks
<1>1. GoneLocal(u, g) /\ i \notin g BY <1>0, PushedGone DEF Sound
<1>2. Apart(u) BY <1>0, PushedApart DEF Sound
<1>3. Kinds(u) BY <1>0, PushedKinds DEF Sound
<1>4. \A sp \in Spaces : st # GlobalStack(sp) BY DEF GlobalStack
<1>5. \A sp, v : v \in Names => ~Declares(u, i, sp, v) BY DEF Declares
<1>6. Globals(u)
  <2>1. ASSUME NEW sp \in Spaces
        PROVE  \A p, q \in DOMAIN Global(u, sp) :
                  LET s == u.sym[Global(u, sp)[p]]
                  IN /\ s.prev_tok = NULL /\ s.sym_scope = 0
                     /\ Declares(u, Global(u, sp)[q], s.sp, s.v) => p = q
    <3>1. /\ \A q \in DOMAIN Global(t, sp) :
                  /\ Global(u, sp)[q] = Global(t, sp)[q]
                  /\ u.sym[Global(t, sp)[q]] = t.sym[Global(t, sp)[q]]
          /\ \A q \in DOMAIN Global(u, sp) : q \in DOMAIN Global(t, sp)
      BY <1>0, <1>4, PushedGlobal
    <3>2. \A p, q \in DOMAIN Global(t, sp) :
                  LET s == t.sym[Global(t, sp)[p]]
                  IN /\ s.prev_tok = NULL /\ s.sym_scope = 0
                     /\ Declares(t, Global(t, sp)[q], s.sp, s.v) => p = q
      BY DEF Sound, Globals
    <3>3. QED BY <3>1, <3>2 DEF Declares
  <2>2. QED BY <2>1 DEF Globals
<1>7. ASSUME NEW sp \in Spaces, NEW v \in Names
      PROVE  Visible(u, g, sp, v, Len(Local(u, sp)), u.head[sp][v])
  <2>1. Visible(t, g, sp, v, Len(Local(t, sp)), u.head[sp][v]) BY DEF Sound, Heads
  <2>2. Len(Local(t, sp)) \in Nat /\ Len(Local(t, sp)) \in 0 .. Len(Local(t, sp))
    BY <1>0, LocalParts
  <2>3. \A j : Visible(u, g, sp, v, Len(Local(t, sp)), j) <=> Visible(t, g, sp, v, Len(Local(t, sp)), j)
    BY <1>0, <1>4, <2>2, PushedVisible
  <2>4. CASE LocalStack(sp) # st
    <3>1. Len(Local(u, sp)) = Len(Local(t, sp)) BY <1>0, <2>4, PushedLocal
    <3>2. QED BY <2>1, <2>3, <3>1
  <2>5. CASE LocalStack(sp) = st
    <3>1. Len(Local(u, sp)) = Len(Local(t, sp)) + 1 BY <1>0, <2>5, PushedLocal
    <3>2. Local(u, sp)[Len(Local(t, sp)) + 1] = i BY <2>5 DEF Local, Pushed
    <3>3. ~Lives(u, g, sp, v, Len(Local(t, sp)) + 1) BY <1>5, <3>2 DEF Lives
    <3>4. NoneLives(u, g, sp, v, Len(Local(t, sp)) + 1, Len(Local(t, sp)) + 1)
      BY <2>2, <3>3 DEF NoneLives
    <3>5. Visible(u, g, sp, v, Len(Local(t, sp)), u.head[sp][v]) BY <2>1, <2>3
    <3>6. Len(Local(t, sp)) + 1 \in Nat /\ Len(Local(t, sp)) <= Len(Local(t, sp)) + 1 BY <2>2
    <3>7. Visible(u, g, sp, v, Len(Local(t, sp)) + 1, u.head[sp][v])
      BY <2>2, <3>4, <3>5, <3>6, VisibleBetween
    <3>8. QED BY <3>1, <3>7
  <2>6. QED BY <2>4, <2>5
<1>8. ASSUME NEW sp \in Spaces, NEW v \in Names, NEW p \in DOMAIN Local(u, sp),
             Declares(u, Local(u, sp)[p], sp, v)
      PROVE  LinkOf(u, g, B, sp, v, p)
  <2>1. p \in DOMAIN Local(t, sp)
    <3>1. p \in DOMAIN Local(t, sp) \/ Local(u, sp)[p] = i BY StackNames DEF Pushed, Local
    <3>2. QED BY <1>5, <1>8, <3>1
  <2>2. SameLocal(t, u, sp) BY <1>0, PushedLocal
  <2>3. p \in 1 .. Len(Local(t, sp)) BY <1>0, <2>1, LocalParts
  <2>4. Declares(t, Local(t, sp)[p], sp, v) BY <1>8, <2>2, <2>3 DEF SameLocal, Declares
  <2>5. LinkOf(t, g, B, sp, v, p) BY <2>1, <2>4 DEF Sound, Links
  <2>6. QED BY <1>0, <1>4, <2>1, <2>5, PushedLinks
<1>9. Heads(u, g) BY <1>7 DEF Heads
<1>10. Links(u, g, B) BY <1>8 DEF Links
<1>11. QED BY <1>0, <1>1, <1>2, <1>3, <1>6, <1>9, <1>10 DEF Sound

\* Where a symbol is and what it leads to do not depend on its type.
LEMMA Retype ==
    ASSUME NEW t, NEW g, NEW B, Sound(t, g, B), NEW u \in Table,
           \A st \in Stacks : u.stack[st] = t.stack[st],
           \A sp \in Spaces, v \in Names : u.head[sp][v] = t.head[sp][v],
           \A j \in Syms : /\ u.sym[j].v = t.sym[j].v /\ u.sym[j].sp = t.sym[j].sp
                           /\ u.sym[j].prev_tok = t.sym[j].prev_tok
                           /\ u.sym[j].sym_scope = t.sym[j].sym_scope
    PROVE  Sound(u, g, B)
<1>0. t \in Table BY DEF Sound
<1>1. \A sp \in Spaces : Local(u, sp) = Local(t, sp) /\ Global(u, sp) = Global(t, sp)
  BY StackNames DEF Local, Global
<1>2. \A j \in Syms : \A sp, v : Declares(u, j, sp, v) <=> Declares(t, j, sp, v) BY DEF Declares
<1>3. GoneLocal(u, g) BY <1>1 DEF Sound, GoneLocal
<1>4. Apart(u) BY DEF Sound, Apart
<1>5. Kinds(u)
  <2>1. \A st \in Stacks : \A p \in DOMAIN t.stack[st] : t.stack[st][p] \in Syms BY <1>0, TableParts
  <2>2. QED BY <2>1 DEF Sound, Kinds
<1>6. Globals(u)
  <2>1. ASSUME NEW sp \in Spaces
        PROVE  \A p, q \in DOMAIN Global(u, sp) :
                  LET s == u.sym[Global(u, sp)[p]]
                  IN /\ s.prev_tok = NULL /\ s.sym_scope = 0
                     /\ Declares(u, Global(u, sp)[q], s.sp, s.v) => p = q
    <3>1. \A p \in DOMAIN Global(t, sp) : Global(t, sp)[p] \in Syms BY <1>0, LocalParts
    <3>2. \A p, q \in DOMAIN Global(t, sp) :
                  LET s == t.sym[Global(t, sp)[p]]
                  IN /\ s.prev_tok = NULL /\ s.sym_scope = 0
                     /\ Declares(t, Global(t, sp)[q], s.sp, s.v) => p = q
      BY DEF Sound, Globals
    <3>3. QED BY <1>1, <1>2, <3>1, <3>2
  <2>2. QED BY <2>1 DEF Globals
<1>7. ASSUME NEW sp \in Spaces, NEW v \in Names, NEW p \in 0 .. Len(Local(t, sp))
      PROVE  \A j : Visible(u, g, sp, v, p, j) <=> Visible(t, g, sp, v, p, j)
  <2>1. /\ \A q \in 1 .. p : Local(t, sp)[q] \in Syms
        /\ \A q \in DOMAIN Global(t, sp) : Global(t, sp)[q] \in Syms
        /\ p \in Nat
    BY <1>0, LocalParts
  <2>2. \A q \in 1 .. p : Local(u, sp)[q] = Local(t, sp)[q]
                          /\ (Lives(u, g, sp, v, q) <=> Lives(t, g, sp, v, q))
    BY <1>1, <1>2, <2>1 DEF Lives
  <2>3. \A j : FileWide(u, sp, v, j) <=> FileWide(t, sp, v, j)
    BY <1>1, <1>2, <2>1 DEF FileWide
  <2>4. QED BY <2>1, <2>2, <2>3, VisibleSame
<1>8. Heads(u, g)
  <2>1. ASSUME NEW sp \in Spaces, NEW v \in Names
        PROVE  Visible(u, g, sp, v, Len(Local(u, sp)), u.head[sp][v])
    <3>1. Visible(t, g, sp, v, Len(Local(t, sp)), t.head[sp][v]) BY DEF Sound, Heads
    <3>2. Len(Local(t, sp)) \in 0 .. Len(Local(t, sp)) BY <1>0, LocalParts
    <3>3. \A j : Visible(u, g, sp, v, Len(Local(t, sp)), j) <=> Visible(t, g, sp, v, Len(Local(t, sp)), j)
      BY <1>7, <3>2
    <3>4. QED BY <1>1, <3>1, <3>3
  <2>2. QED BY <2>1 DEF Heads
<1>9. Links(u, g, B)
  <2>1. ASSUME NEW sp \in Spaces, NEW v \in Names, NEW p \in DOMAIN Local(u, sp),
               Declares(u, Local(u, sp)[p], sp, v)
        PROVE  LinkOf(u, g, B, sp, v, p)
    <3>1. /\ p \in 1 .. Len(Local(t, sp)) /\ p - 1 \in 0 .. Len(Local(t, sp)) /\ p \in Nat
          /\ Local(t, sp)[p] \in Syms /\ \A q \in 1 .. p - 1 : Local(t, sp)[q] \in Syms
      BY <1>0, <1>1, LocalParts
    <3>2. LinkOf(t, g, B, sp, v, p)
      <4>1. Declares(t, Local(t, sp)[p], sp, v) /\ p \in DOMAIN Local(t, sp) BY <1>1, <1>2, <2>1, <3>1
      <4>2. QED BY <4>1 DEF Sound, Links
    <3>3. \A j : Visible(u, g, sp, v, p - 1, j) <=> Visible(t, g, sp, v, p - 1, j) BY <1>7, <3>1
    <3>4. \A q \in 1 .. p - 1 :
              /\ Local(u, sp)[q] = Local(t, sp)[q]
              /\ Declares(u, Local(t, sp)[q], sp, v) <=> Declares(t, Local(t, sp)[q], sp, v)
      BY <1>1, <1>2, <3>1
    <3>5. \A j : Stale(u, g, B, sp, v, p, j) <=> Stale(t, g, B, sp, v, p, j)
      BY <3>1, <3>4, StaleSame
    <3>6. u.sym[Local(t, sp)[p]].prev_tok = t.sym[Local(t, sp)[p]].prev_tok BY <3>1
    <3>7. QED BY <1>1, <3>2, <3>3, <3>5, <3>6 DEF LinkOf
  <2>2. QED BY <2>1 DEF Links
<1>10. QED BY <1>3, <1>4, <1>5, <1>6, <1>8, <1>9 DEF Sound

\* A block may begin at the top of the stacks, and end.
LEMMA Bounds ==
    ASSUME NEW t, NEW g, NEW B, Sound(t, g, B), NEW C,
           \A sp \in Spaces : \A b \in C[sp] : b \in B[sp] \/ b = Len(Local(t, sp))
    PROVE  Sound(t, g, C)
<1>0. t \in Table BY DEF Sound
<1>1. ASSUME NEW sp \in Spaces, NEW v \in Names, NEW p \in DOMAIN Local(t, sp),
             Declares(t, Local(t, sp)[p], sp, v)
      PROVE  LinkOf(t, g, C, sp, v, p)
  <2>1. LinkOf(t, g, B, sp, v, p) BY <1>1 DEF Sound, Links
  <2>2. p \in 1 .. Len(Local(t, sp)) /\ Len(Local(t, sp)) \in Nat BY <1>0, LocalParts
  <2>3. ASSUME NEW j, Stale(t, g, B, sp, v, p, j) PROVE Stale(t, g, C, sp, v, p, j)
    <3>1. PICK q \in 1 .. p - 1 :
             /\ j = Local(t, sp)[q] /\ j \in g /\ Declares(t, j, sp, v)
             /\ \A b \in B[sp] : ~(q <= b /\ b < p)
      BY <2>3 DEF Stale
    <3>2. \A b \in C[sp] : ~(q <= b /\ b < p) BY <2>2, <3>1
    <3>3. QED BY <3>1, <3>2 DEF Stale
  <2>4. QED BY <2>1, <2>3 DEF LinkOf
<1>2. Links(t, g, C) BY <1>1 DEF Links
<1>3. QED BY <1>2 DEF Sound

-----------------------------------------------------------------------------
(* Popping *)

\* The names of the symbols above position b of stack st mean what the lowest of
\* their symbols there leads to.
HeadsPopped(t, u, st, b) ==
    \A sp \in Spaces, v \in Names :
        \/ /\ u.head[sp][v] = t.head[sp][v]
           /\ \A p \in b + 1 .. Len(t.stack[st]) : ~Declares(t, t.stack[st][p], sp, v)
        \/ \E m \in b + 1 .. Len(t.stack[st]) :
              /\ Declares(t, t.stack[st][m], sp, v)
              /\ \A p \in b + 1 .. m - 1 : ~Declares(t, t.stack[st][p], sp, v)
              /\ u.head[sp][v] = t.sym[t.stack[st][m]].prev_tok

\* u has the symbols of t but those above position b of stack st, where they are
\* in t.
Freed(t, u, st, b) ==
    /\ u \in Table
    /\ \A st2 \in Stacks : Len(u.stack[st2]) = IF st2 = st THEN b ELSE Len(t.stack[st2])
    /\ \A st2 \in Stacks : \A p \in DOMAIN u.stack[st2] :
           /\ p \in DOMAIN t.stack[st2] /\ u.stack[st2][p] = t.stack[st2][p]
           /\ u.sym[t.stack[st2][p]] = t.sym[t.stack[st2][p]]
    /\ HeadsPopped(t, u, st, b)

\* A name for which no symbol could be on the stack means what it meant.
LEMMA OtherHeads ==
    ASSUME NEW t \in Table, NEW u, Kinds(t), NEW st \in Stacks, NEW b \in Nat, HeadsPopped(t, u, st, b)
    PROVE  \A sp \in Spaces, v \in Names :
               st # LocalStack(sp) /\ st # GlobalStack(sp) => u.head[sp][v] = t.head[sp][v]
<1>1. DOMAIN t.stack[st] = 1 .. Len(t.stack[st]) /\ Len(t.stack[st]) \in Nat BY TableParts
<1>2. ASSUME NEW sp \in Spaces, NEW v \in Names, st # LocalStack(sp), st # GlobalStack(sp),
             NEW m \in b + 1 .. Len(t.stack[st]), Declares(t, t.stack[st][m], sp, v)
      PROVE  FALSE
  <2>1. m \in DOMAIN t.stack[st] BY <1>1
  <2>2. QED BY <1>2, <2>1 DEF Kinds, Declares
<1>3. QED BY <1>2 DEF HeadsPopped

\* A local stack that is popped to the beginning of a scope: its names mean what
\* they meant there.
LEMMA LocalHeads ==
    ASSUME NEW t, NEW u, NEW g, NEW B, Sound(t, g, B), NEW sp \in Spaces, NEW v \in Names,
           NEW b \in 0 .. Len(Local(t, sp)), HeadsPopped(t, u, LocalStack(sp), b), b \in B[sp]
    PROVE  Visible(t, g, sp, v, b, u.head[sp][v])
<1> DEFINE top == Len(Local(t, sp))
<1>1. t \in Table BY DEF Sound
<1>2. DOMAIN Local(t, sp) = 1 .. top /\ top \in Nat /\ b \in Nat /\ b <= top BY <1>1, LocalParts
<1>3. CASE /\ u.head[sp][v] = t.head[sp][v]
           /\ \A p \in b + 1 .. top : ~Declares(t, Local(t, sp)[p], sp, v)
  <2>1. Visible(t, g, sp, v, top, u.head[sp][v]) BY <1>3 DEF Sound, Heads
  <2>2. NoneLives(t, g, sp, v, b + 1, top) BY <1>3 DEF NoneLives, Lives
  <2>3. QED BY <1>2, <2>1, <2>2, VisibleBetween
<1>4. CASE \E m \in b + 1 .. top :
              /\ Declares(t, Local(t, sp)[m], sp, v)
              /\ \A p \in b + 1 .. m - 1 : ~Declares(t, Local(t, sp)[p], sp, v)
              /\ u.head[sp][v] = t.sym[Local(t, sp)[m]].prev_tok
  <2>1. PICK m \in b + 1 .. top :
              /\ Declares(t, Local(t, sp)[m], sp, v)
              /\ \A p \in b + 1 .. m - 1 : ~Declares(t, Local(t, sp)[p], sp, v)
              /\ u.head[sp][v] = t.sym[Local(t, sp)[m]].prev_tok
    BY <1>4
  <2>2. m \in Nat /\ m - 1 \in Nat /\ b <= m - 1 /\ m \in DOMAIN Local(t, sp) BY <1>2
  <2>3. LinkOf(t, g, B, sp, v, m) BY <2>1, <2>2 DEF Sound, Links
  <2>4. ~Stale(t, g, B, sp, v, m, u.head[sp][v])
    <3>1. SUFFICES ASSUME NEW q \in 1 .. m - 1, u.head[sp][v] = Local(t, sp)[q],
                          Declares(t, u.head[sp][v], sp, v),
                          \A c \in B[sp] : ~(q <= c /\ c < m)
                   PROVE  FALSE
      BY DEF Stale
    <3>2. q \notin b + 1 .. m - 1 BY <2>1, <3>1
    <3>3. q <= b /\ b < m BY <1>2, <2>2, <3>2
    <3>4. QED BY <3>1, <3>3
  <2>5. Visible(t, g, sp, v, m - 1, u.head[sp][v]) BY <2>1, <2>3, <2>4 DEF LinkOf
  <2>6. NoneLives(t, g, sp, v, b + 1, m - 1) BY <2>1 DEF NoneLives, Lives
  <2>7. QED BY <1>2, <2>2, <2>5, <2>6, VisibleBetween
<1>5. QED BY <1>3, <1>4 DEF HeadsPopped, Local

\* What remains keeps its place and its kind.
LEMMA FreedShape ==
    ASSUME NEW t \in Table, NEW u, NEW st \in Stacks, NEW b, Freed(t, u, st, b)
    PROVE  /\ Apart(t) => Apart(u)
           /\ Kinds(t) => Kinds(u)
           /\ Globals(t) => Globals(u)
<1>1. ASSUME Apart(t) PROVE Apart(u)
  <2>1. SUFFICES ASSUME NEW st1 \in Stacks, NEW st2 \in Stacks,
                        NEW p \in DOMAIN u.stack[st1], NEW q \in DOMAIN u.stack[st2],
                        u.stack[st1][p] = u.stack[st2][q]
                 PROVE  st1 = st2 /\ p = q
    BY DEF Apart
  <2>2. p \in DOMAIN t.stack[st1] /\ q \in DOMAIN t.stack[st2] BY DEF Freed
  <2>3. t.stack[st1][p] = t.stack[st2][q] BY <2>1 DEF Freed
  <2>4. QED BY <1>1, <2>2, <2>3 DEF Apart
<1>2. ASSUME Kinds(t) PROVE Kinds(u)
  <2> DEFINE Kind(s, st2) == \/ s.v \notin Names /\ st2 = "local"
                             \/ s.v \in Names /\ st2 \in {LocalStack(s.sp), GlobalStack(s.sp)}
  <2>1. \A st2 \in Stacks : \A p \in DOMAIN t.stack[st2] : Kind(t.sym[t.stack[st2][p]], st2)
    BY <1>2 DEF Kinds
  <2>2. SUFFICES \A st2 \in Stacks : \A p \in DOMAIN u.stack[st2] : Kind(u.sym[u.stack[st2][p]], st2)
    BY DEF Kinds
  <2> HIDE DEF Kind
  <2>3. QED BY <2>1 DEF Freed
<1>3. ASSUME Globals(t) PROVE Globals(u)
  <2>1. SUFFICES ASSUME NEW sp \in Spaces, NEW p \in DOMAIN Global(u, sp), NEW q \in DOMAIN Global(u, sp)
                 PROVE  LET s == u.sym[Global(u, sp)[p]]
                        IN /\ s.prev_tok = NULL /\ s.sym_scope = 0
                           /\ Declares(u, Global(u, sp)[q], s.sp, s.v) => p = q
    BY DEF Globals
  <2>2. \A k \in DOMAIN Global(u, sp) :
            /\ k \in DOMAIN Global(t, sp) /\ Global(u, sp)[k] = Global(t, sp)[k]
            /\ u.sym[Global(t, sp)[k]] = t.sym[Global(t, sp)[k]]
    BY StackNames DEF Freed, Global
  <2>3. LET s == t.sym[Global(t, sp)[p]]
        IN /\ s.prev_tok = NULL /\ s.sym_scope = 0
           /\ Declares(t, Global(t, sp)[q], s.sp, s.v) => p = q
    BY <1>3, <2>2 DEF Globals
  <2>4. QED BY <2>2, <2>3 DEF Declares
<1>4. QED BY <1>1, <1>2, <1>3

\* The scope of a local stack ends: its symbols are freed.
LEMMA LocalFreed ==
    ASSUME NEW t, NEW u, NEW g, NEW B, Sound(t, g, B), NEW sp0 \in Spaces,
           NEW b \in 0 .. Len(Local(t, sp0)), Freed(t, u, LocalStack(sp0), b),
           \A sp \in Spaces : LocalStack(sp) = LocalStack(sp0) => b \in B[sp]
    PROVE  Sound(u, g \cap On(u), B)
<1> DEFINE h == g \cap On(u)
<1>0. t \in Table /\ u \in Table /\ LocalStack(sp0) \in Stacks BY StackNames DEF Sound, Freed
<1>1. Apart(u) /\ Kinds(u) /\ Globals(u) BY <1>0, FreedShape DEF Sound
<1>2. ASSUME NEW st \in Stacks, NEW p \in DOMAIN u.stack[st]
      PROVE  u.stack[st][p] \in On(u)
  BY <1>0, OnStacks
<1>3. ASSUME NEW sp \in Spaces
      PROVE  /\ Len(Local(u, sp)) \in Nat /\ Len(Local(t, sp)) \in Nat
             /\ DOMAIN Local(u, sp) = 1 .. Len(Local(u, sp))
             /\ Len(Local(u, sp)) = IF LocalStack(sp) = LocalStack(sp0) THEN b ELSE Len(Local(t, sp))
             /\ Len(Local(u, sp)) <= Len(Local(t, sp))
             /\ \A q \in 1 .. Len(Local(u, sp)) :
                    /\ Local(u, sp)[q] = Local(t, sp)[q] /\ q \in DOMAIN Local(t, sp)
                    /\ u.sym[Local(t, sp)[q]] = t.sym[Local(t, sp)[q]]
                    /\ Local(u, sp)[q] \in h <=> Local(t, sp)[q] \in g
  <2>1. LocalStack(sp) \in Stacks BY StackNames
  <2>2. /\ Len(Local(u, sp)) \in Nat /\ Len(Local(t, sp)) \in Nat
        /\ DOMAIN Local(u, sp) = 1 .. Len(Local(u, sp))
    BY <1>0, LocalParts
  <2>3. Len(Local(u, sp)) = IF LocalStack(sp) = LocalStack(sp0) THEN b ELSE Len(Local(t, sp))
    BY <2>1 DEF Freed, Local
  <2>4. Len(Local(u, sp)) <= Len(Local(t, sp))
    <3>1. CASE LocalStack(sp) = LocalStack(sp0)
      <4>1. Len(Local(t, sp)) = Len(Local(t, sp0)) BY <3>1 DEF Local
      <4>2. QED BY <2>2, <2>3, <3>1, <4>1
    <3>2. CASE LocalStack(sp) # LocalStack(sp0) BY <2>2, <2>3, <3>2
    <3>3. QED BY <3>1, <3>2
  <2>5. \A q \in DOMAIN Local(u, sp) :
            /\ Local(u, sp)[q] = Local(t, sp)[q] /\ q \in DOMAIN Local(t, sp)
            /\ u.sym[Local(t, sp)[q]] = t.sym[Local(t, sp)[q]]
            /\ Local(u, sp)[q] \in On(u)
    BY <1>2, <2>1 DEF Freed, Local
  <2>6. QED BY <2>2, <2>3, <2>4, <2>5
<1>4. ASSUME NEW sp \in Spaces, NEW v \in Names
      PROVE  \A j : FileWide(u, sp, v, j) <=> FileWide(t, sp, v, j)
  <2>1. GlobalStack(sp) \in Stacks /\ GlobalStack(sp) # LocalStack(sp0)
    BY StackNames DEF LocalStack, GlobalStack
  <2>2. DOMAIN Global(t, sp) = DOMAIN Global(u, sp)
    <3>1. Len(Global(t, sp)) = Len(Global(u, sp)) BY <2>1 DEF Freed, Global
    <3>2. QED BY <1>0, <3>1, LocalParts
  <2>3. \A q \in DOMAIN Global(t, sp) :
               /\ q \in DOMAIN Global(u, sp) /\ Global(u, sp)[q] = Global(t, sp)[q]
               /\ Declares(u, Global(t, sp)[q], sp, v) <=> Declares(t, Global(t, sp)[q], sp, v)
    BY <2>1, <2>2 DEF Freed, Global, Declares
  <2>4. QED BY <2>2, <2>3, FileWideSame
<1>5. ASSUME NEW sp \in Spaces, NEW v \in Names, NEW p \in 0 .. Len(Local(u, sp))
      PROVE  \A j : Visible(u, h, sp, v, p, j) <=> Visible(t, g, sp, v, p, j)
  <2>1. p \in Nat /\ \A q \in 1 .. p : q \in 1 .. Len(Local(u, sp)) BY <1>3
  <2>2. \A q \in 1 .. p : Local(u, sp)[q] = Local(t, sp)[q]
                          /\ (Lives(u, h, sp, v, q) <=> Lives(t, g, sp, v, q))
    BY <1>3, <2>1 DEF Lives, Declares
  <2>3. QED BY <1>4, <2>1, <2>2, VisibleSame
<1>6. Heads(u, h)
  <2>1. ASSUME NEW sp \in Spaces, NEW v \in Names
        PROVE  Visible(u, h, sp, v, Len(Local(u, sp)), u.head[sp][v])
    <3>1. Visible(t, g, sp, v, Len(Local(u, sp)), u.head[sp][v])
      <4>1. CASE LocalStack(sp) = LocalStack(sp0)
        <5>1. Local(t, sp) = Local(t, sp0) /\ b \in B[sp] BY <4>1 DEF Local
        <5>2. HeadsPopped(t, u, LocalStack(sp), b) BY <4>1 DEF Freed
        <5>3. Visible(t, g, sp, v, b, u.head[sp][v]) BY <5>1, <5>2, LocalHeads
        <5>4. QED BY <1>3, <4>1, <5>3
      <4>2. CASE LocalStack(sp) # LocalStack(sp0)
        <5>1. LocalStack(sp0) # LocalStack(sp) /\ LocalStack(sp0) # GlobalStack(sp)
          BY <4>2 DEF LocalStack, GlobalStack
        <5>2. HeadsPopped(t, u, LocalStack(sp0), b) /\ b \in Nat /\ Kinds(t)
          BY <1>3 DEF Freed, Sound
        <5>3. u.head[sp][v] = t.head[sp][v] BY <1>0, <5>1, <5>2, OtherHeads
        <5>4. Visible(t, g, sp, v, Len(Local(t, sp)), t.head[sp][v]) BY DEF Sound, Heads
        <5>5. QED BY <1>3, <4>2, <5>3, <5>4
      <4>3. QED BY <4>1, <4>2
    <3>2. Len(Local(u, sp)) \in 0 .. Len(Local(u, sp)) BY <1>3
    <3>3. QED BY <1>5, <3>1, <3>2
  <2>2. QED BY <2>1 DEF Heads
<1>7. Links(u, h, B)
  <2>1. ASSUME NEW sp \in Spaces, NEW v \in Names, NEW p \in DOMAIN Local(u, sp),
               Declares(u, Local(u, sp)[p], sp, v)
        PROVE  LinkOf(u, h, B, sp, v, p)
    <3>1. p \in 1 .. Len(Local(u, sp)) /\ p - 1 \in 0 .. Len(Local(u, sp)) /\ p \in Nat
          /\ \A q \in 1 .. p - 1 : q \in 1 .. Len(Local(u, sp))
      BY <1>3
    <3>2. p \in DOMAIN Local(t, sp) /\ Declares(t, Local(t, sp)[p], sp, v)
      BY <1>3, <2>1, <3>1 DEF Declares
    <3>3. LinkOf(t, g, B, sp, v, p) BY <3>2 DEF Sound, Links
    <3>4. \A j : Visible(u, h, sp, v, p - 1, j) <=> Visible(t, g, sp, v, p - 1, j) BY <1>5, <3>1
    <3>5. \A q \in 1 .. p - 1 :
              /\ Local(u, sp)[q] = Local(t, sp)[q]
              /\ Local(u, sp)[q] \in h <=> Local(t, sp)[q] \in g
              /\ Declares(u, Local(t, sp)[q], sp, v) <=> Declares(t, Local(t, sp)[q], sp, v)
      BY <1>3, <3>1 DEF Declares
    <3>6. \A j : Stale(u, h, B, sp, v, p, j) <=> Stale(t, g, B, sp, v, p, j)
      BY <3>5 DEF Stale
    <3>7. /\ Local(u, sp)[p] = Local(t, sp)[p] /\ (Local(u, sp)[p] \in h <=> Local(t, sp)[p] \in g)
          /\ u.sym[Local(t, sp)[p]] = t.sym[Local(t, sp)[p]]
      BY <1>3, <3>1
    <3>8. QED BY <3>3, <3>4, <3>6, <3>7 DEF LinkOf
  <2>2. QED BY <2>1 DEF Links
<1>8. GoneLocal(u, h)
  <2>1. ASSUME NEW i \in h
        PROVE  \E sp \in Spaces : \E p \in DOMAIN Local(u, sp) : i = Local(u, sp)[p]
    <3>7. PICK sp \in Spaces : \E p \in DOMAIN Local(t, sp) : i = Local(t, sp)[p] BY DEF Sound, GoneLocal
    <3>1. PICK p \in DOMAIN Local(t, sp) : i = Local(t, sp)[p] BY <3>7
    <3>8. PICK st \in Stacks : \E q \in DOMAIN u.stack[st] : i = u.stack[st][q] BY <1>0, OnStacks
    <3>2. PICK q \in DOMAIN u.stack[st] : i = u.stack[st][q] BY <3>8
    <3>3. q \in DOMAIN t.stack[st] /\ t.stack[st][q] = i BY <3>2 DEF Freed
    <3>4. LocalStack(sp) \in Stacks /\ p \in DOMAIN t.stack[LocalStack(sp)] /\ t.stack[LocalStack(sp)][p] = i
      BY <3>1, StackNames DEF Local
    <3>5. st = LocalStack(sp) /\ q = p BY <3>3, <3>4 DEF Sound, Apart
    <3>6. QED BY <3>2, <3>5 DEF Local
  <2>2. QED BY <2>1 DEF GoneLocal
<1>9. QED BY <1>0, <1>1, <1>6, <1>7, <1>8 DEF Sound

\* The end of a function or a file: when the local stack is empty, the global one
\* is emptied.
LEMMA GlobalFreed ==
    ASSUME NEW t, NEW u, NEW g, NEW B, Sound(t, g, B), NEW sp0 \in Spaces,
           Freed(t, u, GlobalStack(sp0), 0),
           \A sp \in Spaces : GlobalStack(sp) = GlobalStack(sp0) => Len(Local(t, sp)) = 0
    PROVE  Sound(u, g \cap On(u), B)
<1> DEFINE h == g \cap On(u)
<1>0. t \in Table /\ u \in Table /\ GlobalStack(sp0) \in Stacks BY StackNames DEF Sound, Freed
<1>1. Apart(u) /\ Kinds(u) /\ Globals(u) BY <1>0, FreedShape DEF Sound
<1>2. ASSUME NEW st \in Stacks, NEW p \in DOMAIN u.stack[st]
      PROVE  u.stack[st][p] \in On(u)
  BY <1>0, OnStacks
<1>3. ASSUME NEW sp \in Spaces
      PROVE  /\ Len(Local(u, sp)) \in Nat
             /\ DOMAIN Local(u, sp) = 1 .. Len(Local(u, sp))
             /\ Len(Local(u, sp)) = Len(Local(t, sp))
             /\ \A q \in 1 .. Len(Local(u, sp)) :
                    /\ Local(u, sp)[q] = Local(t, sp)[q] /\ q \in DOMAIN Local(t, sp)
                    /\ u.sym[Local(t, sp)[q]] = t.sym[Local(t, sp)[q]]
                    /\ Local(u, sp)[q] \in h <=> Local(t, sp)[q] \in g
  <2>1. LocalStack(sp) \in Stacks /\ LocalStack(sp) # GlobalStack(sp0)
    BY StackNames DEF LocalStack, GlobalStack
  <2>2. /\ Len(Local(u, sp)) \in Nat
        /\ DOMAIN Local(u, sp) = 1 .. Len(Local(u, sp))
    BY <1>0, LocalParts
  <2>3. Len(Local(u, sp)) = Len(Local(t, sp)) BY <2>1 DEF Freed, Local
  <2>4. \A q \in DOMAIN Local(u, sp) :
            /\ Local(u, sp)[q] = Local(t, sp)[q] /\ q \in DOMAIN Local(t, sp)
            /\ u.sym[Local(t, sp)[q]] = t.sym[Local(t, sp)[q]]
            /\ Local(u, sp)[q] \in On(u)
    BY <1>2, <2>1 DEF Freed, Local
  <2>5. QED BY <2>2, <2>3, <2>4
<1>4. ASSUME NEW sp \in Spaces, NEW v \in Names
      PROVE  Visible(u, h, sp, v, Len(Local(u, sp)), u.head[sp][v])
  <2>1. CASE GlobalStack(sp) = GlobalStack(sp0)
    <3>1. Len(Local(u, sp)) = 0 /\ Len(Local(t, sp)) = 0 BY <1>3, <2>1
    <3>2. FileWide(t, sp, v, t.head[sp][v])
      <4>1. Visible(t, g, sp, v, 0, t.head[sp][v]) BY <3>1 DEF Sound, Heads
      <4>2. QED BY <4>1 DEF Visible
    <3>3. Len(Global(u, sp)) = 0 /\ DOMAIN Global(u, sp) = {}
      <4>1. GlobalStack(sp) \in Stacks BY StackNames
      <4>2. Len(Global(u, sp)) = 0 BY <2>1, <4>1 DEF Freed, Global
      <4>3. DOMAIN Global(u, sp) = 1 .. Len(Global(u, sp)) BY <1>0, LocalParts
      <4>4. QED BY <4>2, <4>3
    <3>4. u.head[sp][v] = NULL
      <4>1. HeadsPopped(t, u, GlobalStack(sp), 0) BY <2>1 DEF Freed
      <4>2. DOMAIN Global(t, sp) = 1 .. Len(Global(t, sp)) BY <1>0, LocalParts
      <4>3. CASE /\ u.head[sp][v] = t.head[sp][v]
                 /\ \A p \in 0 + 1 .. Len(Global(t, sp)) : ~Declares(t, Global(t, sp)[p], sp, v)
        BY <3>2, <4>2, <4>3 DEF FileWide
      <4>4. CASE \E m \in 0 + 1 .. Len(Global(t, sp)) : u.head[sp][v] = t.sym[Global(t, sp)[m]].prev_tok
        BY <4>2, <4>4 DEF Sound, Globals
      <4>5. QED BY <4>1, <4>3, <4>4 DEF HeadsPopped, Global
    <3>5. FileWide(u, sp, v, NULL) BY <3>3 DEF FileWide
    <3>6. NoneLives(u, h, sp, v, 1, 0) BY DEF NoneLives
    <3>7. QED BY <3>1, <3>4, <3>5, <3>6 DEF Visible
  <2>2. CASE GlobalStack(sp) # GlobalStack(sp0)
    <3>1. GlobalStack(sp0) # LocalStack(sp) /\ GlobalStack(sp0) # GlobalStack(sp)
      BY <2>2 DEF LocalStack, GlobalStack
    <3>2. HeadsPopped(t, u, GlobalStack(sp0), 0) /\ 0 \in Nat /\ Kinds(t) BY DEF Freed, Sound
    <3>3. u.head[sp][v] = t.head[sp][v] BY <1>0, <3>1, <3>2, OtherHeads
    <3>4. Visible(t, g, sp, v, Len(Local(t, sp)), t.head[sp][v]) BY DEF Sound, Heads
    <3>5. GlobalStack(sp) \in Stacks BY StackNames
    <3>6. DOMAIN Global(t, sp) = DOMAIN Global(u, sp)
      <4>1. Len(Global(t, sp)) = Len(Global(u, sp)) BY <3>1, <3>5 DEF Freed, Global
      <4>2. QED BY <1>0, <4>1, LocalParts
    <3>7. \A q \in DOMAIN Global(t, sp) :
               /\ q \in DOMAIN Global(u, sp) /\ Global(u, sp)[q] = Global(t, sp)[q]
               /\ Declares(u, Global(t, sp)[q], sp, v) <=> Declares(t, Global(t, sp)[q], sp, v)
      BY <3>5, <3>6 DEF Freed, Global, Declares
    <3>8. \A j : FileWide(u, sp, v, j) <=> FileWide(t, sp, v, j) BY <3>6, <3>7, FileWideSame
    <3>9. \A q \in 1 .. Len(Local(t, sp)) :
              /\ Local(u, sp)[q] = Local(t, sp)[q]
              /\ Lives(u, h, sp, v, q) <=> Lives(t, g, sp, v, q)
      BY <1>3 DEF Lives, Declares
    <3>10. Visible(u, h, sp, v, Len(Local(t, sp)), t.head[sp][v])
      <4>1. Len(Local(t, sp)) \in Nat BY <1>3
      <4>2. \A j : Visible(u, h, sp, v, Len(Local(t, sp)), j) <=> Visible(t, g, sp, v, Len(Local(t, sp)), j)
        BY <3>8, <3>9, <4>1, VisibleSame
      <4>3. QED BY <3>4, <4>2
    <3>11. QED BY <1>3, <3>3, <3>10
  <2>3. QED BY <2>1, <2>2
<1>5. ASSUME NEW sp \in Spaces, NEW v \in Names, NEW p \in DOMAIN Local(u, sp),
             Declares(u, Local(u, sp)[p], sp, v)
      PROVE  LinkOf(u, h, B, sp, v, p)
  <2>1. p \in 1 .. Len(Local(u, sp)) /\ p - 1 \in Nat /\ p \in Nat
        /\ \A q \in 1 .. p - 1 : q \in 1 .. Len(Local(u, sp))
    BY <1>3
  <2>2. GlobalStack(sp) # GlobalStack(sp0) BY <1>3, <2>1
  <2>3. p \in DOMAIN Local(t, sp) /\ Declares(t, Local(t, sp)[p], sp, v)
    BY <1>3, <1>5, <2>1 DEF Declares
  <2>4. LinkOf(t, g, B, sp, v, p) BY <2>3 DEF Sound, Links
  <2>5. GlobalStack(sp) \in Stacks BY StackNames
  <2>6. DOMAIN Global(t, sp) = DOMAIN Global(u, sp)
    <3>1. Len(Global(t, sp)) = Len(Global(u, sp)) BY <2>2, <2>5 DEF Freed, Global
    <3>2. QED BY <1>0, <3>1, LocalParts
  <2>7. \A q \in DOMAIN Global(t, sp) :
             /\ q \in DOMAIN Global(u, sp) /\ Global(u, sp)[q] = Global(t, sp)[q]
             /\ Declares(u, Global(t, sp)[q], sp, v) <=> Declares(t, Global(t, sp)[q], sp, v)
    BY <2>5, <2>6 DEF Freed, Global, Declares
  <2>8. \A j : FileWide(u, sp, v, j) <=> FileWide(t, sp, v, j) BY <2>6, <2>7, FileWideSame
  <2>9. \A q \in 1 .. p - 1 :
            /\ Local(u, sp)[q] = Local(t, sp)[q]
            /\ Lives(u, h, sp, v, q) <=> Lives(t, g, sp, v, q)
            /\ Local(u, sp)[q] \in h <=> Local(t, sp)[q] \in g
            /\ Declares(u, Local(t, sp)[q], sp, v) <=> Declares(t, Local(t, sp)[q], sp, v)
    BY <1>3, <2>1 DEF Lives, Declares
  <2>10. \A j : Visible(u, h, sp, v, p - 1, j) <=> Visible(t, g, sp, v, p - 1, j)
    BY <2>1, <2>8, <2>9, VisibleSame
  <2>11. \A j : Stale(u, h, B, sp, v, p, j) <=> Stale(t, g, B, sp, v, p, j)
    BY <2>9 DEF Stale
  <2>12. /\ Local(u, sp)[p] = Local(t, sp)[p] /\ (Local(u, sp)[p] \in h <=> Local(t, sp)[p] \in g)
         /\ u.sym[Local(t, sp)[p]] = t.sym[Local(t, sp)[p]]
    BY <1>3, <2>1
  <2>13. QED BY <2>4, <2>10, <2>11, <2>12 DEF LinkOf
<1>6. GoneLocal(u, h)
  <2>1. ASSUME NEW i \in h
        PROVE  \E sp \in Spaces : \E p \in DOMAIN Local(u, sp) : i = Local(u, sp)[p]
    <3>1. PICK sp \in Spaces : \E p \in DOMAIN Local(t, sp) : i = Local(t, sp)[p] BY DEF Sound, GoneLocal
    <3>2. PICK p \in DOMAIN Local(t, sp) : i = Local(t, sp)[p] BY <3>1
    <3>3. p \in DOMAIN Local(u, sp) /\ Local(u, sp)[p] = i BY <1>0, <1>3, <3>2, LocalParts
    <3>4. QED BY <3>3
  <2>2. QED BY <2>1 DEF GoneLocal
<1>7. Heads(u, h) BY <1>4 DEF Heads
<1>8. Links(u, h, B) BY <1>5 DEF Links
<1>9. QED BY <1>0, <1>1, <1>6, <1>7, <1>8 DEF Sound

\* A statement expression ends: its symbols are kept on the stack, but no name
\* leads to them any more.
LEMMA LocalKept ==
    ASSUME NEW t, NEW u \in Table, NEW g, NEW h, NEW B, Sound(t, g, B), NEW sp0 \in Spaces,
           NEW b \in 0 .. Len(Local(t, sp0)), HeadsPopped(t, u, LocalStack(sp0), b),
           \A st \in Stacks : u.stack[st] = t.stack[st],
           \A j \in Syms : u.sym[j] = t.sym[j],
           h = g \cup {Local(t, sp0)[p] : p \in b + 1 .. Len(Local(t, sp0))},
           \A sp \in Spaces : LocalStack(sp) = LocalStack(sp0) =>
               b \in B[sp] /\ \A c \in B[sp] : c \in Nat /\ c <= b
    PROVE  Sound(u, h, B)
<1>0. t \in Table /\ LocalStack(sp0) \in Stacks BY StackNames DEF Sound
<1>1. \A sp \in Spaces : Local(u, sp) = Local(t, sp) /\ Global(u, sp) = Global(t, sp)
  BY StackNames DEF Local, Global
<1>3. Apart(u) BY DEF Sound, Apart
<1>4. Kinds(u)
  <2>1. \A st \in Stacks : \A p \in DOMAIN t.stack[st] : t.stack[st][p] \in Syms BY <1>0, TableParts
  <2>2. QED BY <2>1 DEF Sound, Kinds
<1>5. ASSUME NEW sp \in Spaces
      PROVE  /\ \A p \in DOMAIN Local(t, sp) : Local(t, sp)[p] \in Syms
             /\ \A p \in DOMAIN Global(t, sp) : Global(t, sp)[p] \in Syms
             /\ DOMAIN Local(t, sp) = 1 .. Len(Local(t, sp)) /\ Len(Local(t, sp)) \in Nat
  BY <1>0, LocalParts
<1>6. Globals(u)
  <2>1. ASSUME NEW sp \in Spaces
        PROVE  \A p, q \in DOMAIN Global(u, sp) :
                  LET s == u.sym[Global(u, sp)[p]]
                  IN /\ s.prev_tok = NULL /\ s.sym_scope = 0
                     /\ Declares(u, Global(u, sp)[q], s.sp, s.v) => p = q
    <3>1. \A p, q \in DOMAIN Global(t, sp) :
                  LET s == t.sym[Global(t, sp)[p]]
                  IN /\ s.prev_tok = NULL /\ s.sym_scope = 0
                     /\ Declares(t, Global(t, sp)[q], s.sp, s.v) => p = q
      BY DEF Sound, Globals
    <3>2. QED BY <1>1, <1>5, <3>1 DEF Declares
  <2>2. QED BY <2>1 DEF Globals
<1>7. \A j \in Syms : \A sp, v : Declares(u, j, sp, v) <=> Declares(t, j, sp, v) BY DEF Declares
<1>8. ASSUME NEW sp \in Spaces, NEW q \in 1 .. Len(Local(t, sp))
      PROVE  IF LocalStack(sp) = LocalStack(sp0) /\ q > b
             THEN Local(t, sp)[q] \in h ELSE Local(t, sp)[q] \in h <=> Local(t, sp)[q] \in g
  <2>1. CASE LocalStack(sp) = LocalStack(sp0) /\ q > b
    <3>1. Local(t, sp) = Local(t, sp0) BY <2>1 DEF Local
    <3>2. q \in b + 1 .. Len(Local(t, sp0)) BY <1>5, <2>1, <3>1
    <3>3. QED BY <2>1, <3>1, <3>2
  <2>2. CASE ~(LocalStack(sp) = LocalStack(sp0) /\ q > b)
    <3>1. ASSUME NEW p \in b + 1 .. Len(Local(t, sp0)), Local(t, sp)[q] = Local(t, sp0)[p]
          PROVE  FALSE
      <4>1. LocalStack(sp) \in Stacks /\ q \in DOMAIN Local(t, sp) BY <1>5, StackNames
      <4>2. p \in DOMAIN Local(t, sp0) /\ p > b BY <1>5
      <4>3. LocalStack(sp) = LocalStack(sp0) /\ q = p
        BY <1>0, <3>1, <4>1, <4>2 DEF Sound, Apart, Local
      <4>4. QED BY <2>2, <4>2, <4>3
    <3>2. QED BY <2>2, <3>1
  <2>3. QED BY <2>1, <2>2
<1>9. ASSUME NEW sp \in Spaces, NEW v \in Names
      PROVE  \A j : FileWide(u, sp, v, j) <=> FileWide(t, sp, v, j)
  BY <1>1, <1>5, <1>7 DEF FileWide
\* up to the beginning of the scope, and on the other stack, names mean the same
<1>10. ASSUME NEW sp \in Spaces, NEW v \in Names, NEW p \in 0 .. Len(Local(t, sp)),
              LocalStack(sp) = LocalStack(sp0) => p <= b
       PROVE  \A j : Visible(u, h, sp, v, p, j) <=> Visible(t, g, sp, v, p, j)
  <2>1. p \in Nat /\ \A q \in 1 .. p : q \in 1 .. Len(Local(t, sp)) /\ q <= p BY <1>5
  <2>2. \A q \in 1 .. p : Local(t, sp)[q] \in h <=> Local(t, sp)[q] \in g BY <1>8, <1>10, <2>1
  <2>3. \A q \in 1 .. p : Local(t, sp)[q] \in Syms BY <1>5, <2>1
  <2>4. \A q \in 1 .. p : Local(u, sp)[q] = Local(t, sp)[q]
                          /\ (Lives(u, h, sp, v, q) <=> Lives(t, g, sp, v, q))
    BY <1>1, <1>7, <2>2, <2>3 DEF Lives
  <2>5. QED BY <1>9, <2>1, <2>4, VisibleSame
<1>11. ASSUME NEW sp \in Spaces, LocalStack(sp) = LocalStack(sp0), NEW v \in Names,
              NEW p \in b + 1 .. Len(Local(t, sp))
       PROVE  NoneLives(u, h, sp, v, b + 1, p)
  <2>1. ASSUME NEW k \in b + 1 .. p PROVE ~Lives(u, h, sp, v, k)
    <3>1. k \in 1 .. Len(Local(t, sp)) /\ k > b BY <1>5
    <3>2. QED BY <1>1, <1>8, <1>11, <3>1 DEF Lives
  <2>2. QED BY <2>1 DEF NoneLives
<1>12. \A sp \in Spaces : LocalStack(sp) = LocalStack(sp0) => Local(t, sp) = Local(t, sp0) BY DEF Local
<1>13. b \in Nat BY <1>5
<1>14. Heads(u, h)
  <2>1. ASSUME NEW sp \in Spaces, NEW v \in Names
        PROVE  Visible(u, h, sp, v, Len(Local(u, sp)), u.head[sp][v])
    <3>1. CASE LocalStack(sp) = LocalStack(sp0)
      <4>1. b \in 0 .. Len(Local(t, sp)) /\ b \in B[sp] /\ HeadsPopped(t, u, LocalStack(sp), b)
        BY <1>12, <3>1
      <4>2. Visible(t, g, sp, v, b, u.head[sp][v]) BY <4>1, LocalHeads
      <4>3. \A j : Visible(u, h, sp, v, b, j) <=> Visible(t, g, sp, v, b, j) BY <1>10, <1>13, <4>1
      <4>4. Visible(u, h, sp, v, b, u.head[sp][v]) BY <4>2, <4>3
      <4>5. CASE b = Len(Local(t, sp)) BY <1>1, <4>4, <4>5
      <4>6. CASE b # Len(Local(t, sp))
        <5>1. Len(Local(t, sp)) \in b + 1 .. Len(Local(t, sp)) BY <1>5, <4>1, <4>6
        <5>2. NoneLives(u, h, sp, v, b + 1, Len(Local(t, sp))) BY <1>11, <3>1, <5>1
        <5>3. Len(Local(t, sp)) \in Nat /\ b <= Len(Local(t, sp)) BY <1>5, <4>1
        <5>4. Visible(u, h, sp, v, Len(Local(t, sp)), u.head[sp][v])
          BY <1>13, <4>4, <5>2, <5>3, VisibleBetween
        <5>5. QED BY <1>1, <5>4
      <4>7. QED BY <4>5, <4>6
    <3>2. CASE LocalStack(sp) # LocalStack(sp0)
      <4>1. LocalStack(sp0) # LocalStack(sp) /\ LocalStack(sp0) # GlobalStack(sp)
        BY <3>2 DEF LocalStack, GlobalStack
      <4>2. HeadsPopped(t, u, LocalStack(sp0), b) /\ Kinds(t) BY DEF Sound
      <4>3. u.head[sp][v] = t.head[sp][v] BY <1>0, <1>13, <4>1, <4>2, OtherHeads
      <4>4. Visible(t, g, sp, v, Len(Local(t, sp)), t.head[sp][v]) BY DEF Sound, Heads
      <4>5. Len(Local(t, sp)) \in 0 .. Len(Local(t, sp)) BY <1>5
      <4>6. \A j : Visible(u, h, sp, v, Len(Local(t, sp)), j) <=> Visible(t, g, sp, v, Len(Local(t, sp)), j)
        BY <1>10, <3>2, <4>5
      <4>7. QED BY <1>1, <4>3, <4>4, <4>6
    <3>3. QED BY <3>1, <3>2
  <2>2. QED BY <2>1 DEF Heads
<1>15. Links(u, h, B)
  <2>1. ASSUME NEW sp \in Spaces, NEW v \in Names, NEW p \in DOMAIN Local(u, sp),
               Declares(u, Local(u, sp)[p], sp, v)
        PROVE  LinkOf(u, h, B, sp, v, p)
    <3> DEFINE i == Local(t, sp)[p]
               j == t.sym[i].prev_tok
    <3>1. /\ p \in 1 .. Len(Local(t, sp)) /\ p - 1 \in 0 .. Len(Local(t, sp)) /\ p \in Nat /\ p - 1 \in Nat
          /\ i \in Syms /\ Local(u, sp)[p] = i /\ u.sym[i] = t.sym[i]
          /\ \A q \in 1 .. p - 1 : q \in 1 .. Len(Local(t, sp)) /\ Local(t, sp)[q] \in Syms
      BY <1>1, <1>5
    <3>2. p \in DOMAIN Local(t, sp) /\ Declares(t, i, sp, v) BY <1>1, <1>7, <2>1, <3>1
    <3>3. LinkOf(t, g, B, sp, v, p) BY <3>2 DEF Sound, Links
    <3>4. CASE i \in g /\ Stale(t, g, B, sp, v, p, j)
      <4>1. Stale(u, h, B, sp, v, p, j)
        <5>1. PICK q \in 1 .. p - 1 : /\ j = Local(t, sp)[q] /\ j \in g /\ Declares(t, j, sp, v)
                                      /\ \A c \in B[sp] : ~(q <= c /\ c < p)
          BY <3>4 DEF Stale
        <5>2. Declares(u, j, sp, v) /\ j \in h /\ j = Local(u, sp)[q] BY <1>1, <1>7, <3>1, <5>1
        <5>3. QED BY <5>1, <5>2 DEF Stale
      <4>2. QED BY <3>1, <3>4, <4>1 DEF LinkOf
    <3>5. CASE Visible(t, g, sp, v, p - 1, j)
      <4>1. CASE LocalStack(sp) = LocalStack(sp0) => p - 1 <= b
        <5>1. \A k : Visible(u, h, sp, v, p - 1, k) <=> Visible(t, g, sp, v, p - 1, k) BY <1>10, <3>1, <4>1
        <5>2. QED BY <3>1, <3>5, <5>1 DEF LinkOf
      <4>2. CASE LocalStack(sp) = LocalStack(sp0) /\ ~(p - 1 <= b)
        <5>1. p - 1 \in b + 1 .. Len(Local(t, sp)) /\ b < p /\ b \in 0 .. Len(Local(t, sp))
          BY <1>13, <3>1, <4>2
        <5>2. NoneLives(u, h, sp, v, b + 1, p - 1) BY <1>11, <4>2, <5>1
        <5>3. CASE Visible(t, g, sp, v, b, j)
          <6>1. \A k : Visible(u, h, sp, v, b, k) <=> Visible(t, g, sp, v, b, k) BY <1>10, <1>13, <5>1
          <6>2. Visible(u, h, sp, v, b, j) BY <5>3, <6>1
          <6>3. b <= p - 1 BY <1>13, <3>1, <5>1
          <6>4. Visible(u, h, sp, v, p - 1, j) BY <1>13, <3>1, <5>2, <6>2, <6>3, VisibleBetween
          <6>5. QED BY <3>1, <6>4 DEF LinkOf
        <5>4. CASE \E q \in b + 1 .. p - 1 : j = Local(t, sp)[q] /\ Lives(t, g, sp, v, q)
          <6>1. PICK q \in b + 1 .. p - 1 : j = Local(t, sp)[q] /\ Lives(t, g, sp, v, q) BY <5>4
          <6>2. q \in 1 .. p - 1 /\ q > b /\ q \in 1 .. Len(Local(t, sp)) BY <1>13, <3>1
          <6>3. j \in h BY <1>8, <4>2, <6>1, <6>2
          <6>4. Declares(u, j, sp, v) BY <1>7, <3>1, <6>1, <6>2 DEF Lives
          <6>5. \A c \in B[sp] : ~(q <= c /\ c < p) BY <1>13, <4>2, <6>2
          <6>6. Stale(u, h, B, sp, v, p, j) BY <1>1, <6>1, <6>2, <6>3, <6>4, <6>5 DEF Stale
          <6>7. i \in h
            <7>1. p > b BY <1>13, <3>1, <5>1
            <7>2. QED BY <1>8, <3>1, <4>2, <7>1
          <6>8. QED BY <3>1, <6>6, <6>7 DEF LinkOf
        <5>5. Visible(t, g, sp, v, b, j) \/ \E q \in b + 1 .. p - 1 : j = Local(t, sp)[q] /\ Lives(t, g, sp, v, q)
          <6>1. CASE \E q \in 1 .. p - 1 : /\ j = Local(t, sp)[q] /\ Lives(t, g, sp, v, q)
                                           /\ NoneLives(t, g, sp, v, q + 1, p - 1)
            <7>1. PICK q \in 1 .. p - 1 : /\ j = Local(t, sp)[q] /\ Lives(t, g, sp, v, q)
                                          /\ NoneLives(t, g, sp, v, q + 1, p - 1)
              BY <6>1
            <7>2. CASE q > b
              <8>1. q \in b + 1 .. p - 1 BY <1>13, <7>2
              <8>2. QED BY <7>1, <8>1
            <7>3. CASE ~(q > b)
              <8>1. q \in 1 .. b BY <1>13, <7>3
              <8>2. NoneLives(t, g, sp, v, q + 1, b) BY <3>1, <5>1, <7>1 DEF NoneLives
              <8>3. QED BY <7>1, <8>1, <8>2 DEF Visible
            <7>4. QED BY <7>2, <7>3
          <6>2. CASE FileWide(t, sp, v, j) /\ NoneLives(t, g, sp, v, 1, p - 1)
            <7>1. NoneLives(t, g, sp, v, 1, b) BY <3>1, <5>1, <6>2 DEF NoneLives
            <7>2. QED BY <6>2, <7>1 DEF Visible
          <6>3. QED BY <3>5, <6>1, <6>2 DEF Visible
        <5>6. QED BY <5>3, <5>4, <5>5
      <4>3. QED BY <4>1, <4>2
    <3>6. QED BY <3>3, <3>4, <3>5 DEF LinkOf
  <2>2. QED BY <2>1 DEF Links
<1>16. GoneLocal(u, h)
  <2>1. ASSUME NEW i \in h
        PROVE  \E sp \in Spaces : \E p \in DOMAIN Local(u, sp) : i = Local(u, sp)[p]
    <3>1. CASE i \in g BY <1>1, <3>1 DEF Sound, GoneLocal
    <3>2. CASE \E p \in b + 1 .. Len(Local(t, sp0)) : i = Local(t, sp0)[p]
      <4>1. PICK p \in b + 1 .. Len(Local(t, sp0)) : i = Local(t, sp0)[p] BY <3>2
      <4>2. p \in DOMAIN Local(u, sp0) BY <1>1, <1>5, <1>13
      <4>3. QED BY <1>1, <4>1, <4>2
    <3>3. QED BY <3>1, <3>2
  <2>2. QED BY <2>1 DEF GoneLocal
<1>17. QED BY <1>3, <1>4, <1>6, <1>14, <1>15, <1>16 DEF Sound

-----------------------------------------------------------------------------
(* The operations of Scopes *)

\* The constants.
LEMMA Bounded == MaxSyms \in Nat /\ MaxDepth \in Nat \ {0} /\ IsFiniteSet(Names)
BY ScopesAssumption

Idents == Names \cup {""}
Meanings == {"", "auto", "typedef", "complete", "declared", "forward", "defined"}

\* The fields of a symbol.
LEMMA SymFields ==
    SymType = [v : Idents, sp : Spaces, prev_tok : Syms \cup {NULL}, sym_scope : 0 .. MaxDepth,
               r : Meanings]
BY DEF SymType, Idents, Meanings

\* A symbol that leads to another one, or belongs to another scope
LEMMA SymExcept ==
    ASSUME NEW s \in SymType, NEW i \in Syms \cup {NULL}, NEW d \in 0 .. MaxDepth
    PROVE  /\ [s EXCEPT !.prev_tok = i] \in SymType
           /\ [s EXCEPT !.prev_tok = i].v = s.v /\ [s EXCEPT !.prev_tok = i].sp = s.sp
           /\ [s EXCEPT !.prev_tok = i].prev_tok = i
           /\ [s EXCEPT !.prev_tok = i].sym_scope = s.sym_scope
           /\ [s EXCEPT !.prev_tok = i].r = s.r
           /\ [s EXCEPT !.sym_scope = d] \in SymType
           /\ [s EXCEPT !.sym_scope = d].v = s.v /\ [s EXCEPT !.sym_scope = d].sp = s.sp
           /\ [s EXCEPT !.sym_scope = d].prev_tok = s.prev_tok
           /\ [s EXCEPT !.sym_scope = d].sym_scope = d
           /\ [s EXCEPT !.sym_scope = d].r = s.r
BY SymFields

\* A symbol of the declaration of a name
LEMMA SymOf ==
    ASSUME NEW v \in Idents, NEW sp \in Spaces, NEW r \in Meanings
    PROVE  /\ Sym(v, sp, r) \in SymType
           /\ Sym(v, sp, r).v = v /\ Sym(v, sp, r).sp = sp /\ Sym(v, sp, r).r = r
           /\ Sym(v, sp, r).prev_tok = NULL /\ Sym(v, sp, r).sym_scope = 0
<1>1. 0 \in 0 .. MaxDepth BY Bounded
<1>2. QED BY <1>1, SymFields DEF Sym

\* There is a free symbol if not all are on the stacks.
LEMMA Malloc ==
    ASSUME NEW t \in Table, Cardinality(On(t)) < MaxSyms
    PROVE  sym_malloc(t) \in Syms \ On(t)
<1>1. IsFiniteSet(Syms) /\ Cardinality(Syms) = MaxSyms
  <2>1. MaxSyms \in Nat BY Bounded
  <2>2. QED BY <2>1, FS_Interval DEF Syms
<1>2. Free(t) # {}
  <2>1. SUFFICES ASSUME Free(t) = {} PROVE FALSE
    OBVIOUS
  <2>2. On(t) = Syms BY <2>1, OnStacks DEF Free
  <2>3. MaxSyms \in Nat BY Bounded
  <2>4. QED BY <1>1, <2>2, <2>3
<1>3. Free(t) \in SUBSET Nat BY Bounded DEF Free, Syms
<1>4. \E i \in Free(t) : \A j \in Free(t) : i <= j BY <1>2, <1>3, LeastElement
<1>5. sym_malloc(t) \in Free(t) BY <1>4 DEF sym_malloc
<1>6. QED BY <1>5 DEF Free

\* A push adds one symbol.
LEMMA PushedCount ==
    ASSUME NEW t \in Table, NEW u, NEW st \in Stacks, NEW i, Pushed(t, u, st, i)
    PROVE  /\ Cardinality(On(u)) \in Nat /\ Cardinality(On(t)) \in Nat
           /\ Cardinality(On(u)) <= Cardinality(On(t)) + 1
<1>1. IsFiniteSet(Syms)
  <2>1. MaxSyms \in Nat BY Bounded
  <2>2. QED BY <2>1, FS_Interval DEF Syms
<1>2. u \in Table BY DEF Pushed
<1>3. IsFiniteSet(On(t)) /\ IsFiniteSet(On(u)) BY <1>1, <1>2, OnStacks, FS_Subset
<1>4. On(u) \subseteq On(t) \cup {i}
  <2>1. SUFFICES ASSUME NEW st2 \in Stacks, NEW p \in DOMAIN u.stack[st2]
                 PROVE  u.stack[st2][p] \in On(t) \cup {i}
    BY <1>2, OnStacks
  <2>2. CASE p \in DOMAIN t.stack[st2]
    <3>1. u.stack[st2][p] = t.stack[st2][p] BY <2>2 DEF Pushed
    <3>2. t.stack[st2][p] \in On(t) BY <2>2, OnStacks
    <3>3. QED BY <3>1, <3>2
  <2>3. CASE p \notin DOMAIN t.stack[st2]
    BY <2>3 DEF Pushed
  <2>4. QED BY <2>2, <2>3
<1>5. IsFiniteSet(On(t) \cup {i}) /\ Cardinality(On(t) \cup {i}) <= Cardinality(On(t)) + 1
  <2>1. Cardinality(On(t)) \in Nat BY <1>3, FS_CardinalityType
  <2>2. IsFiniteSet(On(t) \cup {i}) /\ Cardinality(On(t) \cup {i}) =
            IF i \in On(t) THEN Cardinality(On(t)) ELSE Cardinality(On(t)) + 1
    BY <1>3, FS_AddElement
  <2>3. QED BY <2>1, <2>2
<1>6. Cardinality(On(u)) <= Cardinality(On(t) \cup {i}) BY <1>4, <1>5, FS_Subset
<1>7. Cardinality(On(u)) \in Nat /\ Cardinality(On(t)) \in Nat /\ Cardinality(On(t) \cup {i}) \in Nat
  BY <1>3, <1>5, FS_CardinalityType
<1>8. QED BY <1>5, <1>6, <1>7

\* sym_push2() puts the symbol on the stack, and does not enter it under its name.
LEMMA SymPush2 ==
    ASSUME NEW t \in Table, NEW st \in Stacks, NEW s \in SymType,
           Cardinality(On(t)) < MaxSyms
    PROVE  LET i == sym_malloc(t)
               u == sym_push2(t, st, s)
           IN /\ i \in Syms
              /\ Pushed(t, u, st, i) /\ u.sym[i] = s /\ u.head = t.head
              /\ \A j \in Syms \ {i} : u.sym[j] = t.sym[j]
<1> DEFINE i == sym_malloc(t)
           u == sym_push2(t, st, s)
<1>1. i \in Syms \ On(t) BY Malloc
<1>2. t.stack[st] \in Seq(Syms) BY TableParts
<1> HIDE DEF i
<1>3. u = [t EXCEPT !.sym[i] = s, !.stack[st] = Append(t.stack[st], i)] BY DEF sym_push2, i, Table
<1>4. Append(t.stack[st], i) \in Seq(Syms) BY <1>1, <1>2
<1> HIDE DEF u
<1>5. /\ u \in Table /\ u.head = t.head /\ u.sym[i] = s
      /\ \A j \in Syms \ {i} : u.sym[j] = t.sym[j]
      /\ u.stack[st] = Append(t.stack[st], i)
      /\ \A st2 \in Stacks \ {st} : u.stack[st2] = t.stack[st2]
  BY <1>1, <1>3, <1>4 DEF Table
<1>6. Pushed(t, u, st, i) BY <1>1, <1>5, AppendPushes
<1>7. QED BY <1>1, <1>5, <1>6 DEF u, i

\* PushHead(): the new symbol leads to the one that its name meant.
LEMMA PushHeadIs ==
    ASSUME NEW t \in Table, NEW st \in Stacks, NEW s \in SymType, s.v \in Names,
           Cardinality(On(t)) < MaxSyms
    PROVE  LET i == sym_malloc(t)
               u == PushHead(t, st, s)
               linked == [s EXCEPT !.prev_tok = t.head[s.sp][s.v]]
           IN /\ i \in Syms /\ Pushed(t, u, st, i)
              /\ linked \in SymType /\ u.sym[i] = linked
              /\ \A j \in Syms \ {i} : u.sym[j] = t.sym[j]
              /\ \A sp \in Spaces, v \in Names :
                     u.head[sp][v] = IF sp = s.sp /\ v = s.v THEN i ELSE t.head[sp][v]
<1> DEFINE i == sym_malloc(t)
           u == PushHead(t, st, s)
           linked == [s EXCEPT !.prev_tok = t.head[s.sp][s.v]]
           w == sym_push2(t, st, linked)
<1>1. s.sp \in Spaces BY SymFields
<1>2. t.head[s.sp][s.v] \in Syms \cup {NULL} BY <1>1, TableParts
<1>3. linked \in SymType
  <2>1. 0 \in 0 .. MaxDepth BY Bounded
  <2>2. QED BY <1>2, <2>1, SymExcept
<1> HIDE DEF linked
<1>4. /\ i \in Syms
      /\ Pushed(t, w, st, i) /\ w.sym[i] = linked /\ w.head = t.head
      /\ \A j \in Syms \ {i} : w.sym[j] = t.sym[j]
  BY <1>3, SymPush2
<1>5. u = [w EXCEPT !.head[s.sp][s.v] = i] BY DEF PushHead, linked
<1> HIDE DEF i, w
<1>6. w \in Table BY <1>4 DEF Pushed
<1> HIDE DEF u
<1>7. /\ u \in Table /\ u.sym = w.sym /\ u.stack = w.stack
      /\ \A sp \in Spaces, v \in Names :
             u.head[sp][v] = IF sp = s.sp /\ v = s.v THEN i ELSE w.head[sp][v]
  BY <1>1, <1>4, <1>5, <1>6 DEF Table
<1>8. Pushed(t, u, st, i) BY <1>4, <1>7 DEF Pushed
<1>9. QED BY <1>3, <1>4, <1>7, <1>8 DEF u, i, linked

\* The walk along a chain starts at its head and follows the links.
LEMMA WalkIs ==
    ASSUME NEW t \in Table, NEW sp \in Spaces, NEW v \in Names
    PROVE  /\ Walk(t, sp, v)[0] = t.head[sp][v]
           /\ \A n \in 1 .. MaxSyms :
                  Walk(t, sp, v)[n] = IF Walk(t, sp, v)[n - 1] = NULL THEN NULL
                                      ELSE t.sym[Walk(t, sp, v)[n - 1]].prev_tok
<1> DEFINE next == [a \in Syms \cup {NULL} |-> IF a = NULL THEN NULL ELSE t.sym[a].prev_tok]
           Round == [n \in 1 .. MaxSyms |-> next]
           Good == [n \in 0 .. MaxSyms |-> Syms \cup {NULL}]
           start == t.head[sp][v]
           walk == Walk(t, sp, v)
<1>0. MaxSyms \in Nat /\ 0 \in 0 .. MaxSyms BY Bounded
<1>1. start \in Syms \cup {NULL} BY TableParts
<1>2. \A a \in Syms \cup {NULL} : next[a] \in Syms \cup {NULL}
  <2>1. \A a \in Syms : t.sym[a].prev_tok \in Syms \cup {NULL} BY TableParts, SymFields
  <2>2. QED BY <2>1
<1>3. \A n \in 1 .. MaxSyms : \A a \in Good[n - 1] : Round[n][a] \in Good[n]
  <2>1. \A n \in 1 .. MaxSyms : Good[n - 1] = Syms \cup {NULL} /\ Good[n] = Syms \cup {NULL} /\ Round[n] = next
    BY <1>0
  <2>2. QED BY <1>2, <2>1
<1>4. start \in Good[0] BY <1>0, <1>1
<1>5. \A n \in 0 .. MaxSyms : Good[n] = Syms \cup {NULL} OBVIOUS
<1>6. \A n \in 1 .. MaxSyms : Round[n] = next OBVIOUS
<1>7. \A a \in Syms \cup {NULL} : next[a] = IF a = NULL THEN NULL ELSE t.sym[a].prev_tok OBVIOUS
<1>14. start = t.head[sp][v] OBVIOUS
<1> HIDE DEF Round, Good, next, start
<1>8. PICK f : Loop(f, MaxSyms, start, Round) /\ \A n \in 0 .. MaxSyms : f[n] \in Good[n]
  BY <1>0, <1>3, <1>4, LoopExists
<1>9. f = [n \in 0 .. MaxSyms |->
               IF n = 0 THEN start ELSE IF f[n - 1] = NULL THEN NULL ELSE t.sym[f[n - 1]].prev_tok]
  <2>1. ASSUME NEW n \in 1 .. MaxSyms
        PROVE  Round[n][f[n - 1]] = IF f[n - 1] = NULL THEN NULL ELSE t.sym[f[n - 1]].prev_tok
    <3>1. n - 1 \in 0 .. MaxSyms BY <1>0
    <3>2. f[n - 1] \in Syms \cup {NULL} BY <1>5, <1>8, <3>1
    <3>3. QED BY <1>6, <1>7, <3>2
  <2>2. \A n \in 0 .. MaxSyms : n # 0 => n \in 1 .. MaxSyms BY <1>0
  <2>3. QED BY <1>8, <2>1, <2>2 DEF Loop
<1>10. walk = [n \in 0 .. MaxSyms |->
               IF n = 0 THEN start ELSE IF walk[n - 1] = NULL THEN NULL ELSE t.sym[walk[n - 1]].prev_tok]
  BY <1>9 DEF Walk, start
<1> HIDE DEF walk
<1>11. walk[0] = start BY <1>0, <1>10
<1>12. \A n \in 1 .. MaxSyms : walk[n] = IF walk[n - 1] = NULL THEN NULL ELSE t.sym[walk[n - 1]].prev_tok
  <2>1. \A n \in 1 .. MaxSyms : n \in 0 .. MaxSyms /\ n # 0 BY <1>0
  <2>2. QED BY <1>10, <2>1
<1>13. QED BY <1>11, <1>12, <1>14 DEF walk

\* A set of symbols that has the head of a chain and what its elements lead to
\* has the chain.
LEMMA ChainWithin ==
    ASSUME NEW t \in Table, NEW sp \in Spaces, NEW v \in Names, NEW S,
           t.head[sp][v] \in S, \A i \in S : i # NULL => t.sym[i].prev_tok \in S
    PROVE  \A n \in 0 .. MaxSyms : Walk(t, sp, v)[n] \in S
<1> DEFINE Good == [n \in 0 .. MaxSyms |-> S]
           walk == Walk(t, sp, v)
<1>0. MaxSyms \in Nat /\ 0 \in 0 .. MaxSyms BY Bounded
<1>1. walk[0] = t.head[sp][v] /\ \A n \in 1 .. MaxSyms :
          walk[n] = IF walk[n - 1] = NULL THEN NULL ELSE t.sym[walk[n - 1]].prev_tok
  BY WalkIs
<1> HIDE DEF walk
<1>2. \A n \in 1 .. MaxSyms : walk[n - 1] \in S => walk[n] \in S BY <1>1
<1>3. \A n \in 0 .. MaxSyms : Good[n] = S OBVIOUS
<1>4. walk[0] \in Good[0] BY <1>0, <1>1, <1>3
<1>5. \A n \in 1 .. MaxSyms : walk[n - 1] \in Good[n - 1] => walk[n] \in Good[n]
  <2>1. \A n \in 1 .. MaxSyms : n - 1 \in 0 .. MaxSyms /\ n \in 0 .. MaxSyms BY <1>0
  <2>2. QED BY <1>2, <1>3, <2>1
<1> HIDE DEF Good
<1>6. \A n \in 0 .. MaxSyms : walk[n] \in Good[n] BY <1>0, <1>4, <1>5, RoundsKeep
<1>7. QED BY <1>3, <1>6 DEF walk

\* PushLast(): a name that means nothing means the new symbol.
LEMMA PushLastIs ==
    ASSUME NEW t \in Table, NEW st \in Stacks, NEW s \in SymType, s.v \in Names,
           Cardinality(On(t)) < MaxSyms, t.head[s.sp][s.v] = NULL
    PROVE  LET i == sym_malloc(t)
               u == PushLast(t, st, s)
           IN /\ i \in Syms /\ Pushed(t, u, st, i) /\ u.sym[i] = s
              /\ \A j \in Syms \ {i} : u.sym[j] = t.sym[j]
              /\ \A sp \in Spaces, v \in Names :
                     u.head[sp][v] = IF sp = s.sp /\ v = s.v THEN i ELSE t.head[sp][v]
<1> DEFINE i == sym_malloc(t)
           u == PushLast(t, st, s)
           w == sym_push2(t, st, s)
           walk == Walk(t, s.sp, s.v)
<1>1. s.sp \in Spaces BY SymFields
<1>2. Chain(t, s.sp, s.v) = {}
  <2>1. \A n \in 0 .. MaxSyms : walk[n] \in {NULL} BY <1>1, ChainWithin
  <2>2. QED BY <2>1 DEF Chain
<1>3. /\ i \in Syms
      /\ Pushed(t, w, st, i) /\ w.sym[i] = s /\ w.head = t.head
      /\ \A j \in Syms \ {i} : w.sym[j] = t.sym[j]
  BY SymPush2
<1>4. u = [w EXCEPT !.head[s.sp][s.v] = i] BY <1>2 DEF PushLast
<1> HIDE DEF i, w
<1>5. w \in Table BY <1>3 DEF Pushed
<1> HIDE DEF u
<1>6. /\ u \in Table /\ u.sym = w.sym /\ u.stack = w.stack
      /\ \A sp \in Spaces, v \in Names :
             u.head[sp][v] = IF sp = s.sp /\ v = s.v THEN i ELSE w.head[sp][v]
  BY <1>1, <1>3, <1>4, <1>5 DEF Table
<1>7. Pushed(t, u, st, i) BY <1>3, <1>6 DEF Pushed
<1>8. QED BY <1>3, <1>6, <1>7 DEF u, i

\* Pop() with and without keeping the symbols
LEMMA PopIs ==
    ASSUME NEW t \in Table, Apart(t), NEW st \in Stacks, NEW b \in 0 .. Len(t.stack[st]),
           NEW keep \in BOOLEAN
    PROVE  LET u == Pop(t, st, b, keep)
           IN /\ u \in Table /\ HeadsPopped(t, u, st, b)
              /\ keep => /\ \A st2 \in Stacks : u.stack[st2] = t.stack[st2]
                         /\ \A j \in Syms : u.sym[j] = t.sym[j]
              /\ ~keep => Freed(t, u, st, b)
<1> DEFINE u == Pop(t, st, b, keep)
           stack == t.stack[st]
           popped == SubSeq(stack, b + 1, Len(stack))
           Of(sp, v) == {i \in DOMAIN popped : t.sym[popped[i]].v = v /\ t.sym[popped[i]].sp = sp}
           sym == [i \in Syms |-> IF i \in Range(popped) /\ ~keep THEN Blank ELSE t.sym[i]]
           head == [sp \in Spaces |-> [v \in Names |->
                       IF Of(sp, v) = {} THEN t.head[sp][v] ELSE t.sym[popped[Min(Of(sp, v))]].prev_tok]]
           rest == IF keep THEN stack ELSE SubSeq(stack, 1, b)
<1>1. stack \in Seq(Syms) /\ Len(stack) \in Nat /\ DOMAIN stack = 1 .. Len(stack)
      /\ \A p \in 1 .. Len(stack) : stack[p] \in Syms
  BY TableParts
<1>2. DOMAIN popped = 1 .. Len(stack) - b /\ \A k \in 1 .. Len(stack) - b : popped[k] = stack[b + k]
  BY <1>1
<1>3. /\ SubSeq(stack, 1, b) \in Seq(Syms) /\ Len(SubSeq(stack, 1, b)) = b
      /\ DOMAIN SubSeq(stack, 1, b) = 1 .. b
      /\ \A p \in 1 .. b : SubSeq(stack, 1, b)[p] = stack[p]
  BY <1>1
<1>4. /\ u = [sym |-> u.sym, stack |-> u.stack, head |-> u.head] /\ u.sym = sym /\ u.head = head
      /\ u.stack = [t.stack EXCEPT ![st] = rest]
  <2>1. u = [sym |-> Freeing(t, popped, keep), stack |-> [t.stack EXCEPT ![st] = rest],
             head |-> Unlinked(t, popped, TRUE)]
    BY Zenon DEF Pop, PopFrom
  <2>2. sym = Freeing(t, popped, keep) BY DEF Freeing
  <2>3. head = Unlinked(t, popped, TRUE) BY DEF Unlinked
  <2> HIDE DEF u, sym, head, rest
  <2>4. QED BY <2>1, <2>2, <2>3
<1>5. Blank \in SymType
  <2>1. "" \in Idents /\ "ident" \in Spaces /\ "" \in Meanings BY DEF Idents, Spaces, Meanings
  <2>2. QED BY <2>1, SymOf DEF Blank
<1>6. sym \in [Syms -> SymType] BY <1>5, TableParts
\* the lowest of the symbols of a name
<1>7. ASSUME NEW sp \in Spaces, NEW v \in Names, Of(sp, v) # {}
      PROVE  \E m \in b + 1 .. Len(stack) :
                /\ Declares(t, stack[m], sp, v)
                /\ \A p \in b + 1 .. m - 1 : ~Declares(t, stack[p], sp, v)
                /\ popped[Min(Of(sp, v))] = stack[m]
  <2> DEFINE k == Min(Of(sp, v))
  <2>1. Of(sp, v) \in SUBSET Nat BY <1>2
  <2>2. \E l \in Of(sp, v) : \A n \in Of(sp, v) : l <= n BY <1>7, <2>1, LeastElement
  <2>3. k \in Of(sp, v) /\ \A n \in Of(sp, v) : k <= n BY <2>2 DEF Min
  <2> HIDE DEF k
  <2>4. k \in 1 .. Len(stack) - b /\ popped[k] = stack[b + k] /\ Declares(t, stack[b + k], sp, v)
    BY <1>2, <2>3 DEF Declares
  <2>5. b + k \in b + 1 .. Len(stack) BY <1>1, <2>4
  <2>6. ASSUME NEW p \in b + 1 .. (b + k) - 1, Declares(t, stack[p], sp, v) PROVE FALSE
    <3>1. p - b \in 1 .. Len(stack) - b /\ b + (p - b) = p /\ p - b < k BY <1>1, <2>4
    <3>2. p - b \in Of(sp, v) BY <1>2, <2>6, <3>1 DEF Declares
    <3>3. k <= p - b BY <2>3, <3>2
    <3>4. QED BY <2>4, <3>1, <3>3
  <2>7. QED BY <2>4, <2>5, <2>6 DEF k
<1>8. ASSUME NEW sp \in Spaces, NEW v \in Names
      PROVE  \/ /\ head[sp][v] = t.head[sp][v]
                /\ \A p \in b + 1 .. Len(stack) : ~Declares(t, stack[p], sp, v)
             \/ \E m \in b + 1 .. Len(stack) :
                   /\ Declares(t, stack[m], sp, v)
                   /\ \A p \in b + 1 .. m - 1 : ~Declares(t, stack[p], sp, v)
                   /\ head[sp][v] = t.sym[stack[m]].prev_tok
  <2>1. CASE Of(sp, v) = {}
    <3>1. head[sp][v] = t.head[sp][v] BY <2>1
    <3>2. ASSUME NEW p \in b + 1 .. Len(stack), Declares(t, stack[p], sp, v) PROVE FALSE
      <4>1. p - b \in 1 .. Len(stack) - b /\ b + (p - b) = p BY <1>1
      <4>2. p - b \in Of(sp, v) BY <1>2, <3>2, <4>1 DEF Declares
      <4>3. QED BY <2>1, <4>2
    <3>3. QED BY <3>1, <3>2
  <2>2. CASE Of(sp, v) # {}
    <3>1. head[sp][v] = t.sym[popped[Min(Of(sp, v))]].prev_tok BY <2>2
    <3>2. QED BY <1>7, <2>2, <3>1
  <2>3. QED BY <2>1, <2>2
<1>9. head \in [Spaces -> [Names -> Syms \cup {NULL}]]
  <2>1. ASSUME NEW sp \in Spaces, NEW v \in Names PROVE head[sp][v] \in Syms \cup {NULL}
    <3>1. t.head[sp][v] \in Syms \cup {NULL} BY TableParts
    <3>2. \A m \in b + 1 .. Len(stack) : t.sym[stack[m]].prev_tok \in Syms \cup {NULL}
      <4>1. \A m \in b + 1 .. Len(stack) : m \in 1 .. Len(stack) BY <1>1
      <4>2. QED BY <1>1, <4>1, TableParts, SymFields
    <3>3. QED BY <1>8, <3>1, <3>2
  <2>2. QED BY <2>1
<1>10. rest \in Seq(Syms) BY <1>1, <1>3
<1>11. \A j \in Syms : (j \notin Range(popped) \/ keep) => sym[j] = t.sym[j] OBVIOUS
<1>12. rest = IF keep THEN stack ELSE SubSeq(stack, 1, b) OBVIOUS
<1> HIDE DEF sym, head, rest, u
<1>13. /\ u \in Table /\ u.sym = sym /\ u.head = head /\ u.stack[st] = rest
       /\ \A st2 \in Stacks \ {st} : u.stack[st2] = t.stack[st2]
  <2>1. u.stack \in [Stacks -> Seq(Syms)] /\ u.stack[st] = rest
        /\ \A st2 \in Stacks \ {st} : u.stack[st2] = t.stack[st2]
    BY <1>4, <1>10 DEF Table
  <2>2. QED BY <1>4, <1>6, <1>9, <2>1 DEF Table
<1>14. HeadsPopped(t, u, st, b) BY <1>8, <1>13 DEF HeadsPopped
<1>15. ASSUME keep
       PROVE  /\ \A st2 \in Stacks : u.stack[st2] = t.stack[st2]
              /\ \A j \in Syms : u.sym[j] = t.sym[j]
  BY <1>11, <1>12, <1>13, <1>15
<1>16. ASSUME ~keep PROVE Freed(t, u, st, b)
  <2>1. rest = SubSeq(stack, 1, b) BY <1>12, <1>16
  <2> HIDE DEF stack, popped
  <2>2. \A st2 \in Stacks : Len(u.stack[st2]) = IF st2 = st THEN b ELSE Len(t.stack[st2])
    BY <1>3, <1>13, <2>1 DEF stack
  <2>3. ASSUME NEW st2 \in Stacks, NEW p \in DOMAIN u.stack[st2]
        PROVE  /\ p \in DOMAIN t.stack[st2] /\ u.stack[st2][p] = t.stack[st2][p]
               /\ st2 = st => p \in 1 .. b
    <3>1. CASE st2 = st
      <4>1. DOMAIN u.stack[st2] = 1 .. b /\ u.stack[st2] = SubSeq(stack, 1, b) BY <1>3, <1>13, <2>1, <3>1
      <4>2. p \in 1 .. b /\ p \in 1 .. Len(stack) BY <1>1, <2>3, <4>1 DEF stack
      <4>3. QED BY <1>1, <1>3, <3>1, <4>1, <4>2 DEF stack
    <3>2. CASE st2 # st BY <1>13, <3>2
    <3>3. QED BY <3>1, <3>2
  <2>4. ASSUME NEW st2 \in Stacks, NEW p \in DOMAIN u.stack[st2]
        PROVE  u.sym[t.stack[st2][p]] = t.sym[t.stack[st2][p]]
    <3>1. p \in DOMAIN t.stack[st2] /\ (st2 = st => p \in 1 .. b) BY <2>3
    <3>2. t.stack[st2][p] \in Syms BY <3>1, TableParts
    <3>3. t.stack[st2][p] \notin Range(popped)
      <4>1. SUFFICES ASSUME NEW k \in DOMAIN popped, t.stack[st2][p] = popped[k] PROVE FALSE
        BY DEF Range
      <4>2. popped[k] = stack[b + k] /\ b + k \in 1 .. Len(stack) /\ b + k > b BY <1>1, <1>2
      <4>3. b + k \in DOMAIN t.stack[st] /\ t.stack[st2][p] = t.stack[st][b + k] BY <1>1, <4>1, <4>2 DEF stack
      <4>4. st2 = st /\ p = b + k BY <3>1, <4>3 DEF Apart
      <4>5. QED BY <3>1, <4>2, <4>4
    <3>4. QED BY <1>11, <1>13, <3>2, <3>3
  <2>5. QED BY <1>13, <1>14, <2>2, <2>3, <2>4 DEF Freed
<1>17. QED BY <1>13, <1>14, <1>15, <1>16 DEF u

-----------------------------------------------------------------------------
(* What a sound table gives *)

\* There are no more symbols on a local stack than there are symbols.
LEMMA LocalShort ==
    ASSUME NEW t \in Table, Apart(t), NEW sp \in Spaces
    PROVE  Len(Local(t, sp)) <= MaxSyms
<1> DEFINE n == Len(Local(t, sp))
           f == [p \in 1 .. n |-> Local(t, sp)[p]]
<1>1. n \in Nat /\ DOMAIN Local(t, sp) = 1 .. n /\ \A p \in 1 .. n : Local(t, sp)[p] \in Syms
  BY LocalParts
<1>2. \A p, q \in 1 .. n : Local(t, sp)[p] = Local(t, sp)[q] => p = q
  BY <1>1, StackNames DEF Apart, Local
<1>3. f \in Injection(1 .. n, Syms)
  <2>1. f \in [1 .. n -> Syms] BY <1>1
  <2>2. \A p, q \in 1 .. n : f[p] = f[q] => p = q BY <1>2
  <2>3. QED BY <2>1, <2>2 DEF Injection, IsInjective
<1> HIDE DEF f
<1>4. MaxSyms \in Nat BY Bounded
<1>5. IsFiniteSet(Syms) /\ Cardinality(Syms) = MaxSyms BY <1>4, FS_Interval DEF Syms
<1>6. Cardinality(1 .. n) <= MaxSyms BY <1>3, <1>5, FS_Injection
<1>7. Cardinality(1 .. n) = n BY <1>1, FS_Interval
<1>8. QED BY <1>6, <1>7

\* No name leads to a symbol that is not on a stack, or is of another name.
LEMMA SoundChains ==
    ASSUME NEW t, NEW g, NEW B, Sound(t, g, B), NEW sp \in Spaces, NEW v \in Names,
           NEW i \in Chain(t, sp, v)
    PROVE  i \in On(t) /\ Declares(t, i, sp, v)
<1> DEFINE locals == {j \in Syms : \E p \in DOMAIN Local(t, sp) : j = Local(t, sp)[p] /\ Lives(t, g, sp, v, p)}
           globals == {j \in Syms : \E q \in DOMAIN Global(t, sp) : j = Global(t, sp)[q] /\ Declares(t, j, sp, v)}
           found == locals \cup globals \cup {NULL}
<1>1. t \in Table BY DEF Sound
<1>2. /\ DOMAIN Local(t, sp) = 1 .. Len(Local(t, sp)) /\ Len(Local(t, sp)) \in Nat
      /\ \A p \in 1 .. Len(Local(t, sp)) : Local(t, sp)[p] \in Syms
      /\ \A q \in DOMAIN Global(t, sp) : Global(t, sp)[q] \in Syms
  BY <1>1, LocalParts
<1>3. ASSUME NEW p \in 0 .. Len(Local(t, sp)), NEW j, Visible(t, g, sp, v, p, j)
      PROVE  j \in found
  <2>1. CASE \E q \in 1 .. p : j = Local(t, sp)[q] /\ Lives(t, g, sp, v, q)
    BY <1>2, <2>1
  <2>2. CASE FileWide(t, sp, v, j) BY <1>2, <2>2 DEF FileWide
  <2>3. QED BY <1>3, <2>1, <2>2 DEF Visible
<1>4. t.head[sp][v] \in found
  <2>1. Visible(t, g, sp, v, Len(Local(t, sp)), t.head[sp][v]) BY DEF Sound, Heads
  <2>2. Len(Local(t, sp)) \in 0 .. Len(Local(t, sp)) BY <1>2
  <2>3. QED BY <1>3, <2>1, <2>2
<1>5. ASSUME NEW j \in found, j # NULL PROVE t.sym[j].prev_tok \in found
  <2>1. CASE j \in locals
    <3>1. PICK p \in DOMAIN Local(t, sp) : j = Local(t, sp)[p] /\ Lives(t, g, sp, v, p) BY <2>1
    <3>2. LinkOf(t, g, B, sp, v, p) /\ j \notin g BY <3>1 DEF Sound, Links, Lives
    <3>3. Visible(t, g, sp, v, p - 1, t.sym[j].prev_tok) BY <3>1, <3>2 DEF LinkOf
    <3>4. p - 1 \in 0 .. Len(Local(t, sp)) BY <1>2, <3>1
    <3>5. QED BY <1>3, <3>3, <3>4
  <2>2. CASE j \in globals
    BY <2>2 DEF Sound, Globals
  <2>3. QED BY <1>5, <2>1, <2>2
<1>6. \A n \in 0 .. MaxSyms : Walk(t, sp, v)[n] \in found
  <2> HIDE DEF found
  <2>1. QED BY <1>1, <1>4, <1>5, ChainWithin
<1>7. i \in found /\ i # NULL BY <1>6 DEF Chain
<1>8. CASE i \in locals
  <2>1. PICK p \in DOMAIN Local(t, sp) : i = Local(t, sp)[p] /\ Lives(t, g, sp, v, p) BY <1>8
  <2>2. i \in On(t) BY <1>1, <2>1, OnStacks, StackNames DEF Local
  <2>3. QED BY <2>1, <2>2 DEF Lives
<1>9. CASE i \in globals
  <2>1. PICK q \in DOMAIN Global(t, sp) : i = Global(t, sp)[q] /\ Declares(t, i, sp, v) BY <1>9
  <2>2. i \in On(t) BY <1>1, <2>1, OnStacks, StackNames DEF Global
  <2>3. QED BY <2>1, <2>2
<1>10. QED BY <1>7, <1>8, <1>9

\* The global declaration of a name is on its chain: each step along it goes down
\* the local stack or to the global symbol.
LEMMA SoundGlobals ==
    ASSUME NEW t, NEW g, NEW B, Sound(t, g, B), NEW sp \in Spaces, NEW v \in Names,
           NEW q \in DOMAIN Global(t, sp), Declares(t, Global(t, sp)[q], sp, v)
    PROVE  Global(t, sp)[q] \in Chain(t, sp, v)
<1> DEFINE i == Global(t, sp)[q]
           top == Len(Local(t, sp))
           walk == Walk(t, sp, v)
           reached == {p \in 0 .. top : \E n \in 0 .. top - p : Visible(t, g, sp, v, p, walk[n])}
<1>1. t \in Table /\ Apart(t) BY DEF Sound
<1>2. /\ DOMAIN Local(t, sp) = 1 .. top /\ top \in Nat
      /\ \A p \in 1 .. top : Local(t, sp)[p] \in Syms
      /\ i \in Syms
  BY <1>1, LocalParts
<1>3. top <= MaxSyms /\ MaxSyms \in Nat BY <1>1, LocalShort, Bounded
<1>4. NULL \notin Syms BY DEF NULL, Syms
<1>5. walk[0] = t.head[sp][v] /\ \A n \in 1 .. MaxSyms :
          walk[n] = IF walk[n - 1] = NULL THEN NULL ELSE t.sym[walk[n - 1]].prev_tok
  BY <1>1, WalkIs
<1>6. top \in reached
  <2>1. Visible(t, g, sp, v, top, walk[0]) BY <1>5 DEF Sound, Heads
  <2>2. 0 \in 0 .. top - top /\ top \in 0 .. top BY <1>2
  <2>3. QED BY <2>1, <2>2
<1>7. reached \in SUBSET Nat BY <1>2
<1> HIDE DEF walk
<1>8. PICK p \in reached : \A k \in reached : p <= k BY <1>6, <1>7, LeastElement
<1>9. PICK n \in 0 .. top - p : Visible(t, g, sp, v, p, walk[n]) BY <1>8
<1>10. p \in 0 .. top /\ n \in 0 .. MaxSyms BY <1>2, <1>3, <1>8, <1>9
<1>11. ~ \E k \in 1 .. p : walk[n] = Local(t, sp)[k] /\ Lives(t, g, sp, v, k)
  <2>1. SUFFICES ASSUME NEW k \in 1 .. p, walk[n] = Local(t, sp)[k], Lives(t, g, sp, v, k)
                 PROVE  FALSE
    OBVIOUS
  <2>2. k \in 1 .. top /\ k \in DOMAIN Local(t, sp) /\ walk[n] # NULL BY <1>2, <1>4, <1>10, <2>1
  <2>3. LinkOf(t, g, B, sp, v, k) /\ walk[n] \notin g BY <2>1, <2>2 DEF Sound, Links, Lives
  <2>4. Visible(t, g, sp, v, k - 1, t.sym[walk[n]].prev_tok) BY <2>1, <2>3 DEF LinkOf
  <2>5. n + 1 \in 1 .. MaxSyms /\ (n + 1) - 1 = n BY <1>2, <1>3, <1>9, <1>10, <2>2
  <2>6. walk[n + 1] = t.sym[walk[n]].prev_tok BY <1>5, <2>2, <2>5
  <2>7. k - 1 \in 0 .. top /\ n + 1 \in 0 .. top - (k - 1) /\ k - 1 < p BY <1>2, <1>9, <1>10, <2>1, <2>2
  <2>8. k - 1 \in reached BY <2>4, <2>6, <2>7
  <2>9. p <= k - 1 BY <1>8, <2>8
  <2>10. QED BY <1>10, <2>7, <2>9
<1>12. FileWide(t, sp, v, walk[n]) BY <1>9, <1>11 DEF Visible
<1>13. walk[n] = i
  <2>1. PICK r \in DOMAIN Global(t, sp) : walk[n] = Global(t, sp)[r] /\ Declares(t, walk[n], sp, v)
    BY <1>12 DEF FileWide
  <2>2. r = q
    <3>1. t.sym[i].sp = sp /\ t.sym[i].v = v BY DEF Declares
    <3>2. Declares(t, Global(t, sp)[r], t.sym[i].sp, t.sym[i].v) BY <2>1, <3>1
    <3>3. QED BY <3>2 DEF Sound, Globals
  <2>3. QED BY <2>1, <2>2
<1>14. QED BY <1>2, <1>4, <1>10, <1>13 DEF Chain, walk

-----------------------------------------------------------------------------
(* The parser                                                              *)

\* A list of the elements of a finite set.
LEMMA ListOf ==
    ASSUME NEW S, IsFiniteSet(S)
    PROVE  LET s == SetToSeq(S)
           IN /\ Cardinality(S) \in Nat /\ s \in Seq(S) /\ Len(s) = Cardinality(S)
              /\ \A i \in 1 .. Cardinality(S) : s[i] \in S
              /\ \A i, j \in 1 .. Cardinality(S) : s[i] = s[j] => i = j
<1> DEFINE n == Cardinality(S)
           s == SetToSeq(S)
<1>1. n \in Nat /\ ExistsBijection(1 .. n, S) BY FS_CardinalityType
<1>2. PICK f : f \in [1 .. n -> S] /\ IsInjective(f)
  BY <1>1 DEF ExistsBijection, Bijection, Injection
<1>3. s \in [1 .. n -> S] /\ IsInjective(s)
  BY <1>2 DEF SetToSeq
<1> HIDE DEF s
<1>4. s \in Seq(S) BY <1>1, <1>3, SeqDef
<1>5. DOMAIN s = 1 .. n /\ DOMAIN s = 1 .. Len(s) /\ Len(s) \in Nat BY <1>3, <1>4, LenProperties
<1>6. Len(s) = n BY <1>1, <1>5
<1>7. QED BY <1>1, <1>3, <1>4, <1>5, <1>6 DEF s, IsInjective

\* What symbols were on stack st is where it was, and is what it was.
StaysOn(t, u, st) ==
    /\ Len(u.stack[st]) >= Len(t.stack[st])
    /\ \A p \in 1 .. Len(t.stack[st]) : /\ u.stack[st][p] = t.stack[st][p]
                                        /\ u.sym[t.stack[st][p]] = t.sym[t.stack[st][p]]

\* What is on the stacks stays there when a symbol is pushed.
LEMMA PushedStays ==
    ASSUME NEW t \in Table, NEW u, NEW st \in Stacks, NEW i, Pushed(t, u, st, i), NEW st2 \in Stacks
    PROVE  StaysOn(t, u, st2) /\ (st2 # st => Len(u.stack[st2]) = Len(t.stack[st2]))
<1>1. DOMAIN t.stack[st2] = 1 .. Len(t.stack[st2]) /\ Len(t.stack[st2]) \in Nat BY TableParts
<1>2. Len(u.stack[st2]) = IF st2 = st THEN Len(t.stack[st2]) + 1 ELSE Len(t.stack[st2])
  BY DEF Pushed
<1>3. \A p \in 1 .. Len(t.stack[st2]) : /\ u.stack[st2][p] = t.stack[st2][p]
                                        /\ u.sym[t.stack[st2][p]] = t.sym[t.stack[st2][p]]
  BY <1>1 DEF Pushed
<1>4. QED BY <1>1, <1>2, <1>3 DEF StaysOn

\* What stays twice stays.
LEMMA StaysTransitive ==
    ASSUME NEW t \in Table, NEW u \in Table, NEW w \in Table, NEW st \in Stacks,
           StaysOn(t, u, st), StaysOn(u, w, st)
    PROVE  StaysOn(t, w, st)
<1>1. Len(t.stack[st]) \in Nat /\ Len(u.stack[st]) \in Nat /\ Len(w.stack[st]) \in Nat BY TableParts
<1>2. \A p \in 1 .. Len(t.stack[st]) : p \in 1 .. Len(u.stack[st]) BY <1>1 DEF StaysOn
<1>3. Len(w.stack[st]) >= Len(t.stack[st]) BY <1>1 DEF StaysOn
<1>4. ASSUME NEW p \in 1 .. Len(t.stack[st])
      PROVE  w.stack[st][p] = t.stack[st][p] /\ w.sym[t.stack[st][p]] = t.sym[t.stack[st][p]]
  <2>1. u.stack[st][p] = t.stack[st][p] /\ u.sym[t.stack[st][p]] = t.sym[t.stack[st][p]] BY DEF StaysOn
  <2>2. w.stack[st][p] = u.stack[st][p] /\ w.sym[u.stack[st][p]] = u.sym[u.stack[st][p]]
    BY <1>2 DEF StaysOn
  <2>3. QED BY <2>1, <2>2
<1>5. QED BY <1>3, <1>4 DEF StaysOn

\* What is on the stacks stays there, and nothing new is on the others than st.
OthersStay(t, u, st) ==
    \A st2 \in Stacks : StaysOn(t, u, st2) /\ (st2 # st => Len(u.stack[st2]) = Len(t.stack[st2]))

LEMMA PushedOthers ==
    ASSUME NEW t \in Table, NEW u, NEW st \in Stacks, NEW i, Pushed(t, u, st, i)
    PROVE  OthersStay(t, u, st)
<1>1. \A st2 \in Stacks : StaysOn(t, u, st2) /\ (st2 # st => Len(u.stack[st2]) = Len(t.stack[st2]))
  BY PushedStays
<1>2. QED BY <1>1 DEF OthersStay

LEMMA OthersTransitive ==
    ASSUME NEW t \in Table, NEW u \in Table, NEW w \in Table, NEW st,
           OthersStay(t, u, st), OthersStay(u, w, st)
    PROVE  OthersStay(t, w, st)
<1>1. ASSUME NEW st2 \in Stacks
      PROVE  StaysOn(t, w, st2) /\ (st2 # st => Len(w.stack[st2]) = Len(t.stack[st2]))
  <2>1. StaysOn(t, u, st2) /\ StaysOn(u, w, st2) BY DEF OthersStay
  <2>2. StaysOn(t, w, st2) BY <2>1, StaysTransitive
  <2>3. QED BY <2>2 DEF OthersStay
<1>2. QED BY <1>1 DEF OthersStay

\* u has one more local label than t, which is declared.
LabelTop(t, u, v) ==
    LET top == Len(t.stack["local_label"]) + 1
        sym == u.sym[u.stack["local_label"][top]]
    IN /\ OthersStay(t, u, "local_label") /\ Len(u.stack["local_label"]) = top
       /\ sym.v = v /\ sym.sp = "label" /\ sym.r = "declared"

\* u has i more, which are the first ones of the list s.
LabelsOn(t, u, s, i) ==
    /\ OthersStay(t, u, "local_label")
    /\ Len(u.stack["local_label"]) = Len(t.stack["local_label"]) + i
    /\ \A p \in 1 .. i :
           LET sym == u.sym[u.stack["local_label"][Len(t.stack["local_label"]) + p]]
           IN sym.v = s[p] /\ sym.sp = "label" /\ sym.r = "declared"

LEMMA LabelsMore ==
    ASSUME NEW t \in Table, NEW u \in Table, NEW w \in Table, NEW s, NEW i \in Nat,
           LabelsOn(t, u, s, i), LabelTop(u, w, s[i + 1])
    PROVE  LabelsOn(t, w, s, i + 1)
<1> DEFINE n == Len(t.stack["local_label"])
           At(x, p) == x.sym[x.stack["local_label"][p]]
           Is(sym, v) == sym.v = v /\ sym.sp = "label" /\ sym.r = "declared"
<1>1. n \in Nat /\ "local_label" \in Stacks
  <2>1. "local_label" \in Stacks BY DEF Stacks
  <2>2. QED BY <2>1, TableParts
<1>2. /\ OthersStay(t, u, "local_label") /\ Len(u.stack["local_label"]) = n + i
      /\ \A p \in 1 .. i : Is(At(u, n + p), s[p])
  BY DEF LabelsOn
<1>3. /\ OthersStay(u, w, "local_label")
      /\ Len(w.stack["local_label"]) = Len(u.stack["local_label"]) + 1
      /\ Is(At(w, Len(u.stack["local_label"]) + 1), s[i + 1])
  BY DEF LabelTop
<1>4. OthersStay(t, w, "local_label") BY <1>2, <1>3, OthersTransitive
<1>5. StaysOn(u, w, "local_label") BY <1>1, <1>3 DEF OthersStay
<1>6. \A p \in 1 .. n + i : At(w, p) = At(u, p) BY <1>2, <1>5 DEF StaysOn
<1> HIDE DEF n, At, Is
<1>7. Len(w.stack["local_label"]) = n + (i + 1) BY <1>1, <1>2, <1>3
<1>8. ASSUME NEW p \in 1 .. i + 1 PROVE Is(At(w, n + p), s[p])
  <2>1. CASE p = i + 1
    <3>1. n + p = (n + i) + 1 BY <1>1, <2>1
    <3>2. QED BY <1>2, <1>3, <2>1, <3>1
  <2>2. CASE p # i + 1
    <3>1. p \in 1 .. i /\ n + p \in 1 .. n + i BY <1>1, <2>2
    <3>2. QED BY <1>2, <1>6, <3>1
  <2>3. QED BY <2>1, <2>2
<1>9. \A p \in 1 .. i + 1 : Is(At(w, n + p), s[p]) BY <1>8
<1>10. QED BY <1>4, <1>7, <1>9 DEF LabelsOn, n, At, Is

\* A declaration __label__ enters its labels one by one.
LEMMA LabelPush ==
    ASSUME NEW t, NEW g, NEW B, Sound(t, g, B), NEW v \in Names, Cardinality(On(t)) < MaxSyms
    PROVE  LET u == label_push(t, "local_label", Sym(v, "label", "declared"))
           IN /\ Sound(u, g, B) /\ LabelTop(t, u, v)
              /\ Cardinality(On(u)) \in Nat
              /\ Cardinality(On(u)) <= Cardinality(On(t)) + 1
<1> DEFINE s == Sym(v, "label", "declared")
           u == label_push(t, "local_label", s)
           i == sym_malloc(t)
           linked == [s EXCEPT !.prev_tok = t.head[s.sp][s.v]]
<1>1. t \in Table BY DEF Sound
<1>2. "local_label" \in Stacks /\ "local" \in Stacks /\ "label" \in Spaces /\ LocalStack("label") = "local_label"
  BY DEF Stacks, Spaces, LocalStack
<1>3. s \in SymType /\ s.v = v /\ s.sp = "label" /\ s.r = "declared"
  <2>1. v \in Idents /\ "declared" \in Meanings BY DEF Idents, Meanings
  <2>2. QED BY <1>2, <2>1, SymOf
<1>4. u = PushHead(t, "local_label", s) BY DEF label_push
<1> HIDE DEF s, u
<1>5. /\ i \in Syms /\ Pushed(t, u, "local_label", i)
      /\ u.sym[i] = linked
      /\ \A sp \in Spaces, w \in Names :
             u.head[sp][w] = IF sp = s.sp /\ w = s.v THEN i ELSE t.head[sp][w]
  BY <1>1, <1>2, <1>3, <1>4, PushHeadIs
<1>6. /\ linked.v = v /\ linked.sp = "label" /\ linked.prev_tok = t.head["label"][v]
      /\ linked.r = "declared"
  <2>1. t.head["label"][v] \in Syms \cup {NULL} /\ 0 \in 0 .. MaxDepth BY <1>1, <1>2, TableParts, Bounded
  <2>2. QED BY <1>3, <2>1, SymExcept
<1> HIDE DEF linked, i
<1>7. Declares(u, i, "label", v) /\ u.sym[i].prev_tok = t.head["label"][v]
  BY <1>5, <1>6 DEF Declares
<1>8. \A sp \in Spaces, w \in Names :
             u.head[sp][w] = IF sp = "label" /\ w = v THEN i ELSE t.head[sp][w]
  BY <1>3, <1>5
<1>9. Pushed(t, u, LocalStack("label"), i) BY <1>2, <1>5
<1>10. Sound(u, g, B) BY <1>2, <1>7, <1>8, <1>9, LocalPush
<1>11. /\ Cardinality(On(u)) \in Nat /\ Cardinality(On(t)) \in Nat
       /\ Cardinality(On(u)) <= Cardinality(On(t)) + 1
  BY <1>1, <1>2, <1>5, PushedCount
<1>12. OthersStay(t, u, "local_label")
  <2>1. Pushed(t, u, "local_label", i) /\ "local_label" \in Stacks BY <1>2, <1>5
  <2>2. QED BY <1>1, <2>1, PushedOthers
<1>13. /\ Len(u.stack["local_label"]) = Len(t.stack["local_label"]) + 1
       /\ u.stack["local_label"][Len(t.stack["local_label"]) + 1] = i
  BY <1>2, <1>5 DEF Pushed
<1>14. LabelTop(t, u, v) BY <1>5, <1>6, <1>12, <1>13 DEF LabelTop
<1>15. QED BY <1>10, <1>11, <1>14 DEF u, s

\* The labels of a __label__ list (block(), tccgen.c) come on top of the label stack.
LEMMA DeclareLabelsIs ==
    ASSUME NEW t, NEW g, NEW B, Sound(t, g, B), NEW L \in SUBSET Names,
           Cardinality(On(t)) + Cardinality(L) <= MaxSyms
    PROVE  LET u == DeclareLabels(t, L)
           IN /\ Sound(u, g, B) /\ StaysOn(t, u, "local") /\ StaysOn(t, u, "local_label")
              /\ Len(u.stack["local"]) = Len(t.stack["local"])
              /\ LabelsOn(t, u, SetToSeq(L), Cardinality(L))
<1> DEFINE s == SetToSeq(L)
           n == Cardinality(L)
           start == t
           Step(u, v) == label_push(u, "local_label", Sym(v, "label", "declared"))
           Declared2(i) == {u \in Table :
                               /\ Sound(u, g, B) /\ LabelsOn(t, u, s, i)
                               /\ Cardinality(On(u)) \in Nat
                               /\ Cardinality(On(u)) <= Cardinality(On(t)) + i}
           Good == [i \in 0 .. n |-> Declared2(i)]
           Round == [i \in 1 .. n |-> [u \in Table |-> Step(u, s[i])]]
<1>1. t \in Table /\ "local" \in Stacks /\ "local_label" \in Stacks BY DEF Sound, Stacks
<1>2. n \in Nat /\ Len(s) = n /\ \A i \in 1 .. n : s[i] \in Names
  <2>1. IsFiniteSet(L) BY Bounded, FS_Subset
  <2>2. QED BY <2>1, ListOf
<1>3. Cardinality(On(t)) \in Nat /\ MaxSyms \in Nat
  <2>1. IsFiniteSet(Syms) BY Bounded, FS_Interval DEF Syms
  <2>2. IsFiniteSet(On(t)) BY <1>1, <2>1, OnStacks, FS_Subset
  <2>3. QED BY <2>2, FS_CardinalityType, Bounded
<1> HIDE DEF s, n
<1>4. start \in Declared2(0)
  <2>1. \A st \in Stacks : Len(t.stack[st]) \in Nat BY <1>1, TableParts
  <2>2. OthersStay(t, t, "local_label") BY <2>1 DEF StaysOn, OthersStay
  <2>3. Len(t.stack["local_label"]) = Len(t.stack["local_label"]) + 0 BY <1>1, <2>1
  <2>4. LabelsOn(t, t, s, 0) BY <2>2, <2>3 DEF LabelsOn
  <2>5. QED BY <1>1, <1>3, <2>4
<1>5. ASSUME NEW i \in 1 .. n, NEW u \in Declared2(i - 1) PROVE Step(u, s[i]) \in Declared2(i)
  <2> DEFINE w == Step(u, s[i])
  <2>1. Cardinality(On(u)) < MaxSyms
    <3>1. Cardinality(On(u)) <= Cardinality(On(t)) + (i - 1) /\ Cardinality(On(u)) \in Nat OBVIOUS
    <3>2. Cardinality(On(t)) + n <= MaxSyms BY DEF n
    <3>3. QED BY <1>2, <1>3, <3>1, <3>2
  <2>2. Sound(u, g, B) /\ s[i] \in Names /\ LabelsOn(t, u, s, i - 1) /\ u \in Table BY <1>2
  <2>3. /\ Sound(w, g, B) /\ LabelTop(u, w, s[i])
        /\ Cardinality(On(w)) \in Nat /\ Cardinality(On(w)) <= Cardinality(On(u)) + 1
    BY <2>1, <2>2, LabelPush
  <2> HIDE DEF w
  <2>4. w \in Table BY <2>3 DEF Sound
  <2>5. i - 1 \in Nat /\ (i - 1) + 1 = i BY <1>2
  <2>6. \A k \in Nat : k + 1 = i /\ LabelsOn(t, u, s, k) => LabelsOn(t, w, s, k + 1)
    BY <1>1, <2>2, <2>3, <2>4, LabelsMore
  <2>7. LabelsOn(t, w, s, i) BY <2>2, <2>5, <2>6
  <2>8. Cardinality(On(w)) <= Cardinality(On(t)) + i
    <3>1. Cardinality(On(u)) <= Cardinality(On(t)) + (i - 1) /\ Cardinality(On(u)) \in Nat OBVIOUS
    <3>2. QED BY <1>2, <1>3, <2>3, <3>1
  <2>9. QED BY <2>3, <2>4, <2>7, <2>8 DEF w
<1>6. \A i \in 0 .. n : Good[i] = Declared2(i) OBVIOUS
<1>7. \A i \in 1 .. n : \A u \in Table : Round[i][u] = Step(u, s[i]) OBVIOUS
<1>8. \A i \in 0 .. n : \A u \in Declared2(i) : u \in Table OBVIOUS
<1>9. Declared2(n) \subseteq {u \in Table : Sound(u, g, B) /\ LabelsOn(t, u, s, n)}
  OBVIOUS
<1>10. start = t OBVIOUS
<1> HIDE DEF Declared2, Good, Round, start
<1>11. \A i \in 1 .. n : \A a \in Good[i - 1] : Round[i][a] \in Good[i]
  <2>1. \A i \in 1 .. n : i - 1 \in 0 .. n /\ i \in 0 .. n BY <1>2
  <2>2. QED BY <1>5, <1>6, <1>7, <1>8, <2>1
<1>12. start \in Good[0]
  <2>1. 0 \in 0 .. n BY <1>2
  <2>2. QED BY <1>4, <1>6, <2>1
<1>13. PICK f : Loop(f, n, start, Round) /\ \A i \in 0 .. n : f[i] \in Good[i]
  BY <1>2, <1>11, <1>12, LoopExists
<1>14. f = [i \in 0 .. n |-> IF i = 0 THEN t ELSE Only({Step(a, s[i]) : a \in {f[i - 1]}})]
  <2>1. ASSUME NEW i \in 0 .. n, i # 0
        PROVE  Round[i][f[i - 1]] = Only({Step(a, s[i]) : a \in {f[i - 1]}})
    <3>1. i \in 1 .. n /\ i - 1 \in 0 .. n BY <1>2, <2>1
    <3>2. f[i - 1] \in Table BY <1>6, <1>8, <1>13, <3>1
    <3>3. Round[i][f[i - 1]] = Step(f[i - 1], s[i]) BY <1>7, <3>1, <3>2
    <3>4. QED BY <3>3 DEF Only
  <2>2. QED BY <1>10, <1>13, <2>1 DEF Loop
<1> DEFINE after == CHOOSE h : h = [i \in 0 .. n |-> IF i = 0 THEN t ELSE Only({Step(a, s[i]) : a \in {h[i - 1]}})]
<1>15. after = [i \in 0 .. n |-> IF i = 0 THEN t ELSE Only({Step(a, s[i]) : a \in {after[i - 1]}})]
  BY <1>14
<1>16. DeclareLabels(t, L) = after[n]
  BY <1>2 DEF DeclareLabels, ForEach, s
<1> HIDE DEF after
<1>17. after[0] = t /\ \A i \in 1 .. n : after[i] = Step(after[i - 1], s[i])
  <2>1. \A i \in 1 .. n : i \in 0 .. n /\ i # 0 BY <1>2
  <2>2. 0 \in 0 .. n BY <1>2
  <2>3. QED BY <1>15, <2>1, <2>2 DEF Only
<1>18. \A i \in 0 .. n : after[i] \in Good[i]
  <2>1. after[0] \in Good[0] BY <1>10, <1>12, <1>17
  <2>2. \A i \in 1 .. n : after[i - 1] \in Good[i - 1] => after[i] \in Good[i]
    <3>1. \A i \in 1 .. n : i - 1 \in 0 .. n /\ i \in 0 .. n BY <1>2
    <3>2. QED BY <1>5, <1>6, <1>17, <3>1
  <2>3. QED BY <1>2, <2>1, <2>2, RoundsKeep
<1>19. after[n] \in Declared2(n)
  <2>1. n \in 0 .. n BY <1>2
  <2>2. QED BY <1>6, <1>18, <2>1
<1>20. Sound(after[n], g, B) /\ LabelsOn(t, after[n], s, n) BY <1>9, <1>19
<1>21. /\ StaysOn(t, after[n], "local") /\ StaysOn(t, after[n], "local_label")
       /\ Len(after[n].stack["local"]) = Len(t.stack["local"])
  BY <1>1, <1>20 DEF LabelsOn, OthersStay
<1>22. QED BY <1>16, <1>20, <1>21 DEF s, n

\* The symbol on top of the local stack of u, which has one more than that of t
TopIs(t, u, s, d) ==
    LET i == u.stack["local"][Len(t.stack["local"]) + 1]
    IN u.sym[i].v = s.v /\ u.sym[i].sp = s.sp /\ u.sym[i].r = s.r /\ u.sym[i].sym_scope = d

\* In a function sym_push() puts a symbol on the local stack.
LEMMA SymPushLocal ==
    ASSUME NEW t, NEW g, NEW B, Sound(t, g, B), t.stack["local"] # <<>>,
           NEW s \in SymType, s.v \in Names, s.sp \in {"ident", "struct"}, NEW d \in 0 .. MaxDepth,
           Cardinality(On(t)) < MaxSyms
    PROVE  LET u == sym_push(t, s, d)
           IN /\ Sound(u, g, B) /\ StaysOn(t, u, "local") /\ StaysOn(t, u, "local_label")
              /\ Len(u.stack["local"]) = Len(t.stack["local"]) + 1
              /\ Len(u.stack["local_label"]) = Len(t.stack["local_label"])
              /\ TopIs(t, u, s, d) /\ OthersStay(t, u, "local")
              /\ Cardinality(On(u)) \in Nat
              /\ Cardinality(On(u)) <= Cardinality(On(t)) + 1
<1> DEFINE scoped == [s EXCEPT !.sym_scope = d]
           u == sym_push(t, s, d)
           i == sym_malloc(t)
           linked == [scoped EXCEPT !.prev_tok = t.head[scoped.sp][scoped.v]]
<1>1. t \in Table BY DEF Sound
<1>2. "local_label" \in Stacks /\ "local" \in Stacks /\ s.sp \in Spaces /\ LocalStack(s.sp) = "local"
  BY DEF Stacks, Spaces, LocalStack
<1>3. /\ scoped \in SymType /\ scoped.v = s.v /\ scoped.sp = s.sp /\ scoped.r = s.r
      /\ scoped.sym_scope = d
  <2>1. NULL \in Syms \cup {NULL} OBVIOUS
  <2>2. QED BY <2>1, SymExcept
<1>4. u = PushHead(t, "local", scoped) BY DEF sym_push
<1> HIDE DEF scoped, u
<1>5. /\ i \in Syms /\ Pushed(t, u, "local", i)
      /\ u.sym[i] = linked
      /\ \A sp \in Spaces, w \in Names :
             u.head[sp][w] = IF sp = scoped.sp /\ w = scoped.v THEN i ELSE t.head[sp][w]
  BY <1>1, <1>2, <1>3, <1>4, PushHeadIs
<1>6. /\ linked.v = s.v /\ linked.sp = s.sp /\ linked.prev_tok = t.head[s.sp][s.v]
      /\ linked.r = s.r /\ linked.sym_scope = d
  <2>1. t.head[scoped.sp][scoped.v] \in Syms \cup {NULL} BY <1>1, <1>2, <1>3, TableParts
  <2>2. QED BY <1>3, <2>1, SymExcept
<1> HIDE DEF linked, i
<1>7. Declares(u, i, s.sp, s.v) /\ u.sym[i].prev_tok = t.head[s.sp][s.v]
  BY <1>5, <1>6 DEF Declares
<1>8. \A sp \in Spaces, w \in Names :
             u.head[sp][w] = IF sp = s.sp /\ w = s.v THEN i ELSE t.head[sp][w]
  BY <1>3, <1>5
<1>9. Pushed(t, u, LocalStack(s.sp), i) BY <1>2, <1>5
<1>10. Sound(u, g, B) BY <1>2, <1>7, <1>8, <1>9, LocalPush
<1>11. /\ Cardinality(On(u)) \in Nat /\ Cardinality(On(t)) \in Nat
       /\ Cardinality(On(u)) <= Cardinality(On(t)) + 1
  BY <1>1, <1>2, <1>5, PushedCount
<1>12. /\ StaysOn(t, u, "local_label") /\ Len(u.stack["local_label"]) = Len(t.stack["local_label"])
       /\ OthersStay(t, u, "local")
  <2>1. \A st \in Stacks : StaysOn(t, u, st) /\ (st # "local" => Len(u.stack[st]) = Len(t.stack[st]))
    BY <1>1, <1>2, <1>5, PushedStays
  <2>2. OthersStay(t, u, "local") BY <2>1 DEF OthersStay
  <2>3. QED BY <1>2, <2>1, <2>2
<1>13. StaysOn(t, u, "local") BY <1>1, <1>2, <1>5, PushedStays
<1>14. Len(u.stack["local"]) = Len(t.stack["local"]) + 1 /\ u.stack["local"][Len(t.stack["local"]) + 1] = i
  BY <1>2, <1>5 DEF Pushed
<1>15. TopIs(t, u, s, d) BY <1>5, <1>6, <1>14 DEF TopIs
<1>16. QED BY <1>10, <1>11, <1>12, <1>13, <1>14, <1>15 DEF u

\* The local stack has the dummy and the first i parameters of the list s.
ParametersOn(u, s, i) ==
    /\ Len(u.stack["local"]) = i + 1
    /\ LET dummy == u.sym[u.stack["local"][1]]
       IN dummy.r # "auto" /\ dummy.v \notin Names /\ dummy.sp = "ident"
    /\ \A p \in 2 .. i + 1 :
           LET sym == u.sym[u.stack["local"][p]]
           IN sym.v = s[p - 1] /\ sym.sp = "ident" /\ sym.r = "auto" /\ sym.sym_scope = 1

\* Another parameter
LEMMA ParameterPush ==
    ASSUME NEW t, NEW g, NEW B, Sound(t, g, B), NEW s, NEW i \in Nat, ParametersOn(t, s, i),
           s[i + 1] \in Names, Cardinality(On(t)) < MaxSyms
    PROVE  LET u == sym_push(t, Sym(s[i + 1], "ident", "auto"), 1)
           IN /\ Sound(u, g, B) /\ ParametersOn(u, s, i + 1)
              /\ OthersStay(t, u, "local")
              /\ Cardinality(On(u)) \in Nat
              /\ Cardinality(On(u)) <= Cardinality(On(t)) + 1
<1> DEFINE sym == Sym(s[i + 1], "ident", "auto")
           u == sym_push(t, sym, 1)
<1>1. t \in Table /\ "local" \in Stacks BY DEF Sound, Stacks
<1>2. sym \in SymType /\ sym.v = s[i + 1] /\ sym.sp = "ident" /\ sym.r = "auto"
  <2>1. s[i + 1] \in Idents /\ "auto" \in Meanings /\ "ident" \in Spaces BY DEF Idents, Meanings, Spaces
  <2>2. QED BY <2>1, SymOf
<1>3. t.stack["local"] # <<>>
  <2>1. Len(t.stack["local"]) = i + 1 /\ i + 1 # 0 BY DEF ParametersOn
  <2>2. QED BY <2>1
<1>4. 1 \in 0 .. MaxDepth BY Bounded
<1> HIDE DEF sym
<1>5. /\ Sound(u, g, B) /\ StaysOn(t, u, "local") /\ OthersStay(t, u, "local")
      /\ Len(u.stack["local"]) = Len(t.stack["local"]) + 1
      /\ TopIs(t, u, sym, 1)
      /\ Cardinality(On(u)) \in Nat /\ Cardinality(On(u)) <= Cardinality(On(t)) + 1
  BY <1>2, <1>3, <1>4, SymPushLocal
<1> HIDE DEF u
<1>6. \A p \in 1 .. i + 1 : /\ u.stack["local"][p] = t.stack["local"][p]
                            /\ u.sym[t.stack["local"][p]] = t.sym[t.stack["local"][p]]
  BY <1>5 DEF StaysOn, ParametersOn
<1>7. Len(u.stack["local"]) = (i + 1) + 1 BY <1>5 DEF ParametersOn
<1>8. LET dummy == u.sym[u.stack["local"][1]]
      IN dummy.r # "auto" /\ dummy.v \notin Names /\ dummy.sp = "ident"
  <2>1. 1 \in 1 .. i + 1 OBVIOUS
  <2>2. QED BY <1>6, <2>1 DEF ParametersOn
<1>9. ASSUME NEW p \in 2 .. (i + 1) + 1
      PROVE  LET o == u.sym[u.stack["local"][p]]
             IN o.v = s[p - 1] /\ o.sp = "ident" /\ o.r = "auto" /\ o.sym_scope = 1
  <2>1. CASE p = (i + 1) + 1
    <3>1. p = Len(t.stack["local"]) + 1 /\ p - 1 = i + 1 BY <2>1 DEF ParametersOn
    <3>2. QED BY <1>2, <1>5, <3>1 DEF TopIs
  <2>2. CASE p # (i + 1) + 1
    <3>1. p \in 2 .. i + 1 /\ p \in 1 .. i + 1 BY <2>2
    <3>2. u.sym[u.stack["local"][p]] = t.sym[t.stack["local"][p]] BY <1>6, <3>1
    <3>3. QED BY <3>1, <3>2 DEF ParametersOn
  <2>3. QED BY <2>1, <2>2
<1>10. ParametersOn(u, s, i + 1) BY <1>7, <1>8, <1>9 DEF ParametersOn
<1>11. QED BY <1>5, <1>10 DEF u, sym

\* The parameters of a function are the first declarations of its scope.
LEMMA ParametersIs ==
    ASSUME NEW t, NEW g, NEW B, Sound(t, g, B), Len(t.stack["local"]) = 0, NEW P \in SUBSET Names,
           Cardinality(On(t)) + 1 + Cardinality(P) <= MaxSyms
    PROVE  LET u == Parameters(t, P)
           IN /\ Sound(u, g, B) /\ ParametersOn(u, SetToSeq(P), Cardinality(P))
              /\ OthersStay(t, u, "local")
              /\ Cardinality(On(u)) \in Nat
              /\ Cardinality(On(u)) <= Cardinality(On(t)) + 1 + Cardinality(P)
<1> DEFINE s == SetToSeq(P)
           n == Cardinality(P)
           start == sym_push2(t, "local", Blank)
           Step(u, v) == sym_push(u, Sym(v, "ident", "auto"), 1)
           Declared2(i) == {u \in Table :
                               /\ Sound(u, g, B) /\ ParametersOn(u, s, i)
                               /\ OthersStay(t, u, "local")
                               /\ Cardinality(On(u)) \in Nat
                               /\ Cardinality(On(u)) <= Cardinality(On(t)) + 1 + i}
           Good == [i \in 0 .. n |-> Declared2(i)]
           Round == [i \in 1 .. n |-> [u \in Table |-> Step(u, s[i])]]
<1>1. t \in Table /\ "local" \in Stacks /\ "local_label" \in Stacks BY DEF Sound, Stacks
<1>2. n \in Nat /\ Len(s) = n /\ \A i \in 1 .. n : s[i] \in Names
  <2>1. IsFiniteSet(P) BY Bounded, FS_Subset
  <2>2. QED BY <2>1, ListOf
<1>3. Cardinality(On(t)) \in Nat /\ MaxSyms \in Nat
  <2>1. IsFiniteSet(Syms) BY Bounded, FS_Interval DEF Syms
  <2>2. IsFiniteSet(On(t)) BY <1>1, <2>1, OnStacks, FS_Subset
  <2>3. QED BY <2>2, FS_CardinalityType, Bounded
<1>4. start \in Declared2(0)
  <2> DEFINE i == sym_malloc(t)
  <2>1. Cardinality(On(t)) < MaxSyms BY <1>2, <1>3
  <2>2. Blank \in SymType /\ Blank.v \notin Names /\ Blank.r # "auto" /\ Blank.sp = "ident"
    <3>1. "" \in Idents /\ "" \in Meanings BY DEF Idents, Meanings
    <3>2. "ident" \in Spaces BY DEF Spaces
    <3>3. Blank \in SymType BY <3>1, <3>2, SymOf DEF Blank
    <3>4. Blank.v = "" /\ Blank.r = "" /\ Blank.sp = "ident" BY Zenon DEF Blank, Sym
    <3>5. "" # "auto" OBVIOUS
    <3>6. QED BY <3>3, <3>4, <3>5, ScopesAssumption, Zenon
  <2>3. /\ i \in Syms /\ Pushed(t, start, "local", i) /\ start.sym[i] = Blank /\ start.head = t.head
    BY <1>1, <2>1, <2>2, SymPush2
  <2> HIDE DEF start, i, n, s
  <2>4. \A sp \in Spaces, v \in Names : start.head[sp][v] = t.head[sp][v] BY <2>3
  <2>5. start.sym[i].v \notin Names BY <2>2, <2>3
  <2>6. Sound(start, g, B) BY <2>3, <2>4, <2>5, NamelessPush
  <2>7. start.stack["local"][1] = i /\ Len(start.stack["local"]) = 1
    <3>1. Len(t.stack["local"]) + 1 = 1 OBVIOUS
    <3>2. /\ start.stack["local"][Len(t.stack["local"]) + 1] = i
          /\ Len(start.stack["local"]) = Len(t.stack["local"]) + 1
      BY <1>1, <2>3 DEF Pushed
    <3>3. QED BY <3>1, <3>2
  <2>8. ParametersOn(start, s, 0)
    <3>1. \A p \in 2 .. 0 + 1 : FALSE OBVIOUS
    <3>2. LET dummy == start.sym[start.stack["local"][1]]
          IN dummy.r # "auto" /\ dummy.v \notin Names /\ dummy.sp = "ident"
      BY <2>2, <2>3, <2>7
    <3>3. QED BY <2>7, <3>1, <3>2 DEF ParametersOn
  <2>9. OthersStay(t, start, "local")
    <3>1. Pushed(t, start, "local", i) BY <2>3
    <3>2. QED BY <1>1, <3>1, PushedOthers
  <2>10. Cardinality(On(start)) \in Nat /\ Cardinality(On(start)) <= Cardinality(On(t)) + 1
    BY <1>1, <2>3, PushedCount
  <2>11. Cardinality(On(start)) <= Cardinality(On(t)) + 1 + 0 BY <1>3, <2>10
  <2>12. QED BY <2>3, <2>6, <2>8, <2>9, <2>10, <2>11 DEF Pushed
<1> HIDE DEF s, n, start
<1>5. ASSUME NEW i \in 1 .. n, NEW u \in Declared2(i - 1) PROVE Step(u, s[i]) \in Declared2(i)
  <2> DEFINE w == Step(u, s[i])
  <2>0. i - 1 \in Nat /\ (i - 1) + 1 = i BY <1>2
  <2>1. Cardinality(On(u)) < MaxSyms
    <3>1. Cardinality(On(u)) <= Cardinality(On(t)) + 1 + (i - 1) /\ Cardinality(On(u)) \in Nat OBVIOUS
    <3>2. Cardinality(On(t)) + 1 + n <= MaxSyms BY DEF n
    <3>3. QED BY <1>2, <1>3, <3>1, <3>2
  <2>2. Sound(u, g, B) /\ ParametersOn(u, s, i - 1) /\ s[i] \in Names
        /\ OthersStay(t, u, "local") /\ u \in Table
    BY <1>2
  <2>3. \A k \in Nat : k + 1 = i /\ ParametersOn(u, s, k) =>
           /\ Sound(w, g, B) /\ ParametersOn(w, s, k + 1)
           /\ OthersStay(u, w, "local")
           /\ Cardinality(On(w)) \in Nat /\ Cardinality(On(w)) <= Cardinality(On(u)) + 1
    BY <2>1, <2>2, ParameterPush
  <2> HIDE DEF w
  <2>4. /\ Sound(w, g, B) /\ ParametersOn(w, s, i) /\ OthersStay(u, w, "local")
        /\ Cardinality(On(w)) \in Nat /\ Cardinality(On(w)) <= Cardinality(On(u)) + 1
    BY <2>0, <2>2, <2>3
  <2>5. w \in Table BY <2>4 DEF Sound
  <2>6. Cardinality(On(w)) <= Cardinality(On(t)) + 1 + i
    <3>1. Cardinality(On(u)) <= Cardinality(On(t)) + 1 + (i - 1) /\ Cardinality(On(u)) \in Nat OBVIOUS
    <3>2. QED BY <1>2, <1>3, <2>4, <3>1
  <2>7. OthersStay(t, w, "local") BY <1>1, <2>2, <2>4, <2>5, OthersTransitive
  <2>8. QED BY <2>4, <2>5, <2>6, <2>7 DEF w
<1>6. \A i \in 0 .. n : Good[i] = Declared2(i) OBVIOUS
<1>7. \A i \in 1 .. n : \A u \in Table : Round[i][u] = Step(u, s[i]) OBVIOUS
<1>8. \A i \in 0 .. n : \A u \in Declared2(i) : u \in Table OBVIOUS
<1>9. Declared2(n) \subseteq {u \in Table : /\ Sound(u, g, B) /\ ParametersOn(u, s, n)
                                            /\ OthersStay(t, u, "local")
                                            /\ Cardinality(On(u)) \in Nat
                                            /\ Cardinality(On(u)) <= Cardinality(On(t)) + 1 + n}
  OBVIOUS
<1> HIDE DEF Declared2, Good, Round
<1>11. \A i \in 1 .. n : \A a \in Good[i - 1] : Round[i][a] \in Good[i]
  <2>1. \A i \in 1 .. n : i - 1 \in 0 .. n /\ i \in 0 .. n BY <1>2
  <2>2. QED BY <1>5, <1>6, <1>7, <1>8, <2>1
<1>12. start \in Good[0]
  <2>1. 0 \in 0 .. n BY <1>2
  <2>2. QED BY <1>4, <1>6, <2>1
<1>13. PICK f : Loop(f, n, start, Round) /\ \A i \in 0 .. n : f[i] \in Good[i]
  BY <1>2, <1>11, <1>12, LoopExists
<1>14. f = [i \in 0 .. n |-> IF i = 0 THEN start ELSE Only({Step(a, s[i]) : a \in {f[i - 1]}})]
  <2>1. ASSUME NEW i \in 0 .. n, i # 0
        PROVE  Round[i][f[i - 1]] = Only({Step(a, s[i]) : a \in {f[i - 1]}})
    <3>1. i \in 1 .. n /\ i - 1 \in 0 .. n BY <1>2, <2>1
    <3>2. f[i - 1] \in Table BY <1>6, <1>8, <1>13, <3>1
    <3>3. Round[i][f[i - 1]] = Step(f[i - 1], s[i]) BY <1>7, <3>1, <3>2
    <3>4. QED BY <3>3 DEF Only
  <2>2. QED BY <1>13, <2>1 DEF Loop
<1> DEFINE after == CHOOSE h : h = [i \in 0 .. n |-> IF i = 0 THEN start ELSE Only({Step(a, s[i]) : a \in {h[i - 1]}})]
<1>15. after = [i \in 0 .. n |-> IF i = 0 THEN start ELSE Only({Step(a, s[i]) : a \in {after[i - 1]}})]
  BY <1>14
<1>16. Parameters(t, P) = after[n]
  BY <1>2 DEF Parameters, ForEach, s, start
<1> HIDE DEF after
<1>17. after[0] = start /\ \A i \in 1 .. n : after[i] = Step(after[i - 1], s[i])
  <2>1. \A i \in 1 .. n : i \in 0 .. n /\ i # 0 BY <1>2
  <2>2. 0 \in 0 .. n BY <1>2
  <2>3. after[0] = start BY <1>15, <2>2
  <2>4. ASSUME NEW i \in 1 .. n PROVE after[i] = Step(after[i - 1], s[i])
    <3>1. after[i] = Only({Step(a, s[i]) : a \in {after[i - 1]}}) BY <1>15, <2>1
    <3>2. QED BY <3>1 DEF Only
  <2>5. QED BY <2>3, <2>4
<1>18. \A i \in 0 .. n : after[i] \in Good[i]
  <2>1. after[0] \in Good[0] BY <1>12, <1>17
  <2>2. \A i \in 1 .. n : after[i - 1] \in Good[i - 1] => after[i] \in Good[i]
    <3>1. \A i \in 1 .. n : i - 1 \in 0 .. n /\ i \in 0 .. n BY <1>2
    <3>2. QED BY <1>5, <1>6, <1>17, <3>1
  <2>3. QED BY <1>2, <2>1, <2>2, RoundsKeep
<1>19. after[n] \in Declared2(n)
  <2>1. n \in 0 .. n BY <1>2
  <2>2. QED BY <1>6, <1>18, <2>1
<1>20. QED BY <1>9, <1>16, <1>19 DEF s, n
-----------------------------------------------------------------------------
(* The inductive invariant *)

\* In the dialects that the theorems are about, the process exits after an error,
\* and no name is put on a global stack after a ({...}) that declared it.
PlainDialects == \A d \in Dialects : ~d.session /\ ~d.reuse

FrameType == [keep : BOOLEAN, loop : BOOLEAN, done : BOOLEAN, s : Nat, l : Nat]

\* The positions of the local stacks where the open scopes c begin
Begins(c) == [sp \in Spaces |-> {IF sp = "label" THEN c[k].l ELSE c[k].s : k \in 1 .. Len(c)}]

\* The open scopes are nested, and the local stacks are empty outside of functions.
Frames(t, c) ==
    /\ c \in Seq(FrameType)
    /\ \A k \in 1 .. Len(c) : /\ c[k].s \in 0 .. Len(t.stack["local"])
                              /\ c[k].l \in 0 .. Len(t.stack["local_label"])
    /\ \A j, k \in 1 .. Len(c) : j <= k => c[j].s <= c[k].s /\ c[j].l <= c[k].l
    /\ \A k \in 2 .. Len(c) : c[k].s >= 1
    /\ Len(c) > 0 => /\ Len(t.stack["local"]) >= 1
                     /\ c[1].s = 0 /\ c[1].l = 0 /\ ~c[1].loop
    /\ Len(c) = 0 => Len(t.stack["local"]) = 0 /\ Len(t.stack["local_label"]) = 0

\* An automatic variable at a position from b + 1 to e has scope k, and no later
\* identifier up to e has its name.
Distinct(t, g, k, b, e) ==
    \A p \in b + 1 .. e :
        LET i == t.stack["local"][p]
        IN i \notin g /\ t.sym[i].r = "auto" =>
              /\ t.sym[i].sym_scope = k /\ t.sym[i].sp = "ident"
              /\ \A q \in p + 1 .. e :
                     t.stack["local"][q] \notin g => ~Declares(t, t.stack["local"][q], "ident", t.sym[i].v)

\* Scope k of c is on the local stack up to where the next one begins.
SegmentEnd(t, c, k) == IF k = Len(c) THEN Len(t.stack["local"]) ELSE c[k + 1].s
Autos(t, g, c) == \A k \in 1 .. Len(c) : Distinct(t, g, k, c[k].s, SegmentEnd(t, c, k))

Tidy(t, g, c) == Frames(t, c) /\ Sound(t, g, Begins(c)) /\ Autos(t, g, c)

IInv ==
    /\ dialect \in Dialects
    /\ local_scope = Len(ctx) /\ Len(ctx) <= MaxDepth
    /\ Tidy(tab, gone, ctx)

-----------------------------------------------------------------------------
(* Scopes and the variables in them *)

\* Frames and their parts
LEMMA FramesParts ==
    ASSUME NEW t, NEW c, Frames(t, c)
    PROVE  /\ Len(c) \in Nat /\ DOMAIN c = 1 .. Len(c)
           /\ \A k \in 1 .. Len(c) : c[k] \in FrameType /\ c[k].s \in Nat /\ c[k].l \in Nat
           /\ c = <<>> <=> Len(c) = 0
<1>1. c \in Seq(FrameType) BY DEF Frames
<1>2. Len(c) \in Nat /\ DOMAIN c = 1 .. Len(c) /\ \A k \in 1 .. Len(c) : c[k] \in FrameType
  BY <1>1
<1>3. \A f \in FrameType : f.s \in Nat /\ f.l \in Nat BY DEF FrameType
<1>4. c = <<>> <=> Len(c) = 0 BY <1>1
<1>5. QED BY <1>2, <1>3, <1>4

\* Stacks that grow keep the scopes that are open.
LEMMA FramesGrow ==
    ASSUME NEW t \in Table, NEW u \in Table, NEW c, Frames(t, c),
           Len(u.stack["local"]) >= Len(t.stack["local"]),
           Len(u.stack["local_label"]) >= Len(t.stack["local_label"]),
           Len(c) = 0 => /\ Len(u.stack["local"]) = Len(t.stack["local"])
                         /\ Len(u.stack["local_label"]) = Len(t.stack["local_label"])
    PROVE  Frames(u, c)
<1>1. "local" \in Stacks /\ "local_label" \in Stacks BY DEF Stacks
<1>2. /\ Len(t.stack["local"]) \in Nat /\ Len(t.stack["local_label"]) \in Nat
      /\ Len(u.stack["local"]) \in Nat /\ Len(u.stack["local_label"]) \in Nat
  BY <1>1, TableParts
<1>3. \A k \in 1 .. Len(c) : /\ c[k].s \in 0 .. Len(u.stack["local"])
                              /\ c[k].l \in 0 .. Len(u.stack["local_label"])
  <2> SUFFICES ASSUME NEW k \in 1 .. Len(c)
               PROVE  /\ c[k].s \in 0 .. Len(u.stack["local"])
                      /\ c[k].l \in 0 .. Len(u.stack["local_label"])
    OBVIOUS
  <2>1. c[k].s \in 0 .. Len(t.stack["local"]) /\ c[k].l \in 0 .. Len(t.stack["local_label"])
    BY DEF Frames
  <2>2. \A m, n \in Nat : \A i \in 0 .. m : n >= m => i \in 0 .. n OBVIOUS
  <2>3. QED BY <1>2, <2>1, <2>2
<1>4. QED BY <1>2, <1>3 DEF Frames

\* A scope begins at the top of the stacks.
LEMMA FramesEnter ==
    ASSUME NEW t \in Table, NEW c, Frames(t, c), NEW f \in FrameType,
           f.s = Len(t.stack["local"]), f.l = Len(t.stack["local_label"]),
           Len(c) = 0 => ~f.loop,
           NEW u \in Table,
           Len(u.stack["local"]) >= Len(t.stack["local"]), Len(u.stack["local"]) >= 1,
           Len(u.stack["local_label"]) >= Len(t.stack["local_label"])
    PROVE  Frames(u, Append(c, f))
<1> DEFINE d == Append(c, f)
<1>1. "local" \in Stacks /\ "local_label" \in Stacks BY DEF Stacks
<1>2. /\ Len(t.stack["local"]) \in Nat /\ Len(t.stack["local_label"]) \in Nat
      /\ Len(u.stack["local"]) \in Nat /\ Len(u.stack["local_label"]) \in Nat
  BY <1>1, TableParts
<1>3. Len(c) \in Nat /\ \A k \in 1 .. Len(c) : c[k].s \in Nat /\ c[k].l \in Nat BY FramesParts
<1>4. c \in Seq(FrameType) BY DEF Frames
<1>5. /\ d \in Seq(FrameType) /\ Len(d) = Len(c) + 1 /\ d[Len(c) + 1] = f
      /\ \A k \in 1 .. Len(c) : d[k] = c[k]
  BY <1>4
<1> HIDE DEF d
<1>6. \A k \in 1 .. Len(c) : c[k].s <= f.s /\ c[k].l <= f.l
  BY <1>2, <1>3 DEF Frames
<1>7. \A k \in 1 .. Len(d) : /\ d[k].s \in 0 .. Len(u.stack["local"])
                              /\ d[k].l \in 0 .. Len(u.stack["local_label"])
  <2>1. \A k \in 1 .. Len(c) : /\ c[k].s \in 0 .. Len(u.stack["local"])
                               /\ c[k].l \in 0 .. Len(u.stack["local_label"])
    <3> SUFFICES ASSUME NEW k \in 1 .. Len(c)
                 PROVE  /\ c[k].s \in 0 .. Len(u.stack["local"])
                        /\ c[k].l \in 0 .. Len(u.stack["local_label"])
      OBVIOUS
    <3>1. c[k].s \in 0 .. Len(t.stack["local"]) /\ c[k].l \in 0 .. Len(t.stack["local_label"])
      BY DEF Frames
    <3>2. \A m, n \in Nat : \A i \in 0 .. m : n >= m => i \in 0 .. n OBVIOUS
    <3>3. QED BY <1>2, <3>1, <3>2
  <2>2. f.s \in 0 .. Len(u.stack["local"]) /\ f.l \in 0 .. Len(u.stack["local_label"]) BY <1>2
  <2>3. \A k \in 1 .. Len(d) : k \in 1 .. Len(c) \/ k = Len(c) + 1 BY <1>3, <1>5
  <2>4. QED BY <1>5, <2>1, <2>2, <2>3
<1>8. \A j, k \in 1 .. Len(d) : j <= k => d[j].s <= d[k].s /\ d[j].l <= d[k].l
  <2> SUFFICES ASSUME NEW j \in 1 .. Len(d), NEW k \in 1 .. Len(d), j <= k
               PROVE  d[j].s <= d[k].s /\ d[j].l <= d[k].l
    OBVIOUS
  <2>1. CASE k \in 1 .. Len(c)
    <3>1. j \in 1 .. Len(c) BY <1>3, <1>5, <2>1
    <3>2. QED BY <1>5, <2>1, <3>1 DEF Frames
  <2>2. CASE k = Len(c) + 1 /\ j = Len(c) + 1
    BY <1>2, <1>5, <2>2
  <2>3. CASE k = Len(c) + 1 /\ j \in 1 .. Len(c)
    BY <1>5, <1>6, <2>3
  <2>4. QED BY <1>3, <1>5, <2>1, <2>2, <2>3
<1>9. \A k \in 2 .. Len(d) : d[k].s >= 1
  <2> SUFFICES ASSUME NEW k \in 2 .. Len(d) PROVE d[k].s >= 1 OBVIOUS
  <2>1. CASE k \in 2 .. Len(c) BY <1>3, <1>5, <2>1 DEF Frames
  <2>2. CASE k = Len(c) + 1
    <3>1. Len(c) > 0 BY <1>3, <2>2
    <3>2. QED BY <1>5, <2>2, <3>1 DEF Frames
  <2>3. QED BY <1>3, <1>5, <2>1, <2>2
<1>10. d[1].s = 0 /\ d[1].l = 0 /\ ~d[1].loop
  <2>1. CASE Len(c) = 0 BY <1>5, <2>1 DEF Frames
  <2>2. CASE Len(c) > 0
    <3>1. 1 \in 1 .. Len(c) BY <1>3, <2>2
    <3>2. QED BY <1>5, <2>2, <3>1 DEF Frames
  <2>3. QED BY <1>3, <2>1, <2>2
<1>11. Len(d) > 0 /\ Len(d) # 0 BY <1>3, <1>5
<1>12. QED BY <1>5, <1>7, <1>8, <1>9, <1>10, <1>11 DEF Frames, d

\* A block is left.
LEMMA FramesLeave ==
    ASSUME NEW t \in Table, NEW c, Frames(t, c), Len(c) > 1, NEW u \in Table,
           Len(u.stack["local"]) >= c[Len(c)].s, Len(u.stack["local_label"]) >= c[Len(c)].l
    PROVE  /\ Frames(u, Front(c)) /\ Len(Front(c)) = Len(c) - 1
           /\ \A k \in 1 .. Len(c) - 1 : Front(c)[k] = c[k]
<1> DEFINE d == Front(c)
<1>1. "local" \in Stacks /\ "local_label" \in Stacks BY DEF Stacks
<1>2. Len(u.stack["local"]) \in Nat /\ Len(u.stack["local_label"]) \in Nat BY <1>1, TableParts
<1>3. Len(c) \in Nat /\ \A k \in 1 .. Len(c) : c[k].s \in Nat /\ c[k].l \in Nat BY FramesParts
<1>4. c \in Seq(FrameType) BY DEF Frames
<1>5. /\ d \in Seq(FrameType) /\ Len(d) = Len(c) - 1
      /\ \A k \in 1 .. Len(c) - 1 : d[k] = c[k]
  <2>1. c # <<>> BY <1>4
  <2>2. QED BY <1>4, <2>1 DEF Front
<1> HIDE DEF d
<1>6. \A k \in 1 .. Len(c) - 1 : k \in 1 .. Len(c) /\ k <= Len(c) /\ Len(c) \in 1 .. Len(c) BY <1>3
<1>7. \A k \in 1 .. Len(d) : /\ d[k].s \in 0 .. Len(u.stack["local"])
                              /\ d[k].l \in 0 .. Len(u.stack["local_label"])
  <2> SUFFICES ASSUME NEW k \in 1 .. Len(c) - 1
               PROVE  /\ c[k].s \in 0 .. Len(u.stack["local"])
                      /\ c[k].l \in 0 .. Len(u.stack["local_label"])
    BY <1>5
  <2>1. c[k].s <= c[Len(c)].s /\ c[k].l <= c[Len(c)].l BY <1>6 DEF Frames
  <2>2. c[k].s \in Nat /\ c[k].l \in Nat /\ c[Len(c)].s \in Nat /\ c[Len(c)].l \in Nat BY <1>3, <1>6
  <2>3. QED BY <1>2, <2>1, <2>2
<1>8. \A j, k \in 1 .. Len(d) : j <= k => d[j].s <= d[k].s /\ d[j].l <= d[k].l
  BY <1>5, <1>6 DEF Frames
<1>9. \A k \in 2 .. Len(d) : d[k].s >= 1
  <2>1. \A k \in 2 .. Len(c) - 1 : k \in 2 .. Len(c) /\ k \in 1 .. Len(c) - 1 BY <1>3
  <2>2. QED BY <1>5, <2>1 DEF Frames
<1>10. d[1].s = 0 /\ d[1].l = 0 /\ ~d[1].loop
  <2>1. 1 \in 1 .. Len(c) - 1 /\ Len(c) > 0 BY <1>3
  <2>2. QED BY <1>5, <2>1 DEF Frames
<1>11. Len(u.stack["local"]) >= 1
  <2>1. Len(c) \in 2 .. Len(c) BY <1>3
  <2>2. c[Len(c)].s >= 1 /\ c[Len(c)].s \in Nat BY <1>3, <1>6, <2>1 DEF Frames
  <2>3. QED BY <1>2, <2>2
<1>12. QED BY <1>2, <1>3, <1>5, <1>7, <1>8, <1>9, <1>10, <1>11 DEF Frames, d

\* What is not disturbed stays distinct.
LEMMA DistinctSame ==
    ASSUME NEW t, NEW u, NEW g, NEW h, NEW k, NEW b \in Nat, NEW e \in Nat, Distinct(t, g, k, b, e),
           \A p \in b + 1 .. e :
               LET i == t.stack["local"][p]
               IN /\ u.stack["local"][p] = i
                  /\ u.sym[i].v = t.sym[i].v /\ u.sym[i].sp = t.sym[i].sp
                  /\ u.sym[i].sym_scope = t.sym[i].sym_scope
                  /\ u.sym[i].r = "auto" => t.sym[i].r = "auto"
                  /\ i \in g => i \in h
    PROVE  Distinct(u, h, k, b, e)
<1> SUFFICES ASSUME NEW p \in b + 1 .. e, u.stack["local"][p] \notin h,
                    u.sym[u.stack["local"][p]].r = "auto"
             PROVE  LET i == u.stack["local"][p]
                    IN /\ u.sym[i].sym_scope = k /\ u.sym[i].sp = "ident"
                       /\ \A q \in p + 1 .. e :
                              u.stack["local"][q] \notin h =>
                                 ~Declares(u, u.stack["local"][q], "ident", u.sym[i].v)
  BY DEF Distinct
<1> DEFINE i == t.stack["local"][p]
<1>1. u.stack["local"][p] = i /\ i \notin g /\ t.sym[i].r = "auto"
      /\ u.sym[i].v = t.sym[i].v /\ u.sym[i].sp = t.sym[i].sp /\ u.sym[i].sym_scope = t.sym[i].sym_scope
  OBVIOUS
<1>2. /\ t.sym[i].sym_scope = k /\ t.sym[i].sp = "ident"
      /\ \A q \in p + 1 .. e :
             t.stack["local"][q] \notin g => ~Declares(t, t.stack["local"][q], "ident", t.sym[i].v)
  BY <1>1 DEF Distinct
<1>3. \A q \in p + 1 .. e : q \in b + 1 .. e OBVIOUS
<1>4. ASSUME NEW q \in p + 1 .. e, u.stack["local"][q] \notin h
      PROVE  ~Declares(u, u.stack["local"][q], "ident", u.sym[i].v)
  <2> DEFINE j == t.stack["local"][q]
  <2>1. u.stack["local"][q] = j /\ j \notin g /\ u.sym[j].v = t.sym[j].v /\ u.sym[j].sp = t.sym[j].sp
    BY <1>3, <1>4
  <2>2. ~Declares(t, j, "ident", t.sym[i].v) BY <1>2, <2>1
  <2>3. QED BY <1>1, <2>1, <2>2 DEF Declares
<1>5. QED BY <1>1, <1>2, <1>4

\* A shorter part is distinct, and one that goes on with symbols that are kept.
LEMMA DistinctShorter ==
    ASSUME NEW t, NEW g, NEW k, NEW b \in Nat, NEW e \in Nat, Distinct(t, g, k, b, e),
           NEW n \in Nat, n <= e \/ \A p \in e + 1 .. n : t.stack["local"][p] \in g
    PROVE  Distinct(t, g, k, b, n)
<1> SUFFICES ASSUME NEW p \in b + 1 .. n, t.stack["local"][p] \notin g,
                    t.sym[t.stack["local"][p]].r = "auto"
             PROVE  LET i == t.stack["local"][p]
                    IN /\ t.sym[i].sym_scope = k /\ t.sym[i].sp = "ident"
                       /\ \A q \in p + 1 .. n :
                              t.stack["local"][q] \notin g =>
                                 ~Declares(t, t.stack["local"][q], "ident", t.sym[i].v)
  BY DEF Distinct
<1>1. p \in b + 1 .. e OBVIOUS
<1>2. \A q \in p + 1 .. n : q \in p + 1 .. e \/ t.stack["local"][q] \in g OBVIOUS
<1>3. QED BY <1>1, <1>2 DEF Distinct

\* The first n symbols of the local stack of t declare the same in u.
Undisturbed(t, u, g, h, n) ==
    \A p \in 1 .. n :
        LET i == t.stack["local"][p]
        IN /\ u.stack["local"][p] = i
           /\ u.sym[i].v = t.sym[i].v /\ u.sym[i].sp = t.sym[i].sp
           /\ u.sym[i].sym_scope = t.sym[i].sym_scope
           /\ u.sym[i].r = "auto" => t.sym[i].r = "auto"
           /\ i \in g => i \in h

\* What stays on the stack is not disturbed.
LEMMA StaysUndisturbed ==
    ASSUME NEW t, NEW u, StaysOn(t, u, "local"), NEW g
    PROVE  Undisturbed(t, u, g, g, Len(t.stack["local"]))
BY DEF StaysOn, Undisturbed

\* ... and its variables are distinct as they were.
LEMMA UndisturbedDistinct ==
    ASSUME NEW t, NEW u, NEW g, NEW h, NEW n \in Nat, Undisturbed(t, u, g, h, n),
           NEW k, NEW b \in Nat, NEW e \in Nat, e <= n, Distinct(t, g, k, b, e)
    PROVE  Distinct(u, h, k, b, e)
<1>1. \A p \in b + 1 .. e : p \in 1 .. n OBVIOUS
<1>2. \A p \in b + 1 .. e :
          LET i == t.stack["local"][p]
          IN /\ u.stack["local"][p] = i
             /\ u.sym[i].v = t.sym[i].v /\ u.sym[i].sp = t.sym[i].sp
             /\ u.sym[i].sym_scope = t.sym[i].sym_scope
             /\ u.sym[i].r = "auto" => t.sym[i].r = "auto"
             /\ i \in g => i \in h
  BY <1>1 DEF Undisturbed
<1>3. QED BY <1>2, DistinctSame

\* The places of the scopes on the local stack
LEMMA SegmentIs ==
    ASSUME NEW t \in Table, NEW c, Frames(t, c), NEW k \in 1 .. Len(c)
    PROVE  /\ c[k].s \in Nat /\ SegmentEnd(t, c, k) \in Nat
           /\ Len(t.stack["local"]) \in Nat /\ SegmentEnd(t, c, k) <= Len(t.stack["local"])
<1>1. "local" \in Stacks BY DEF Stacks
<1>2. Len(t.stack["local"]) \in Nat BY <1>1, TableParts
<1>3. Len(c) \in Nat /\ \A j \in 1 .. Len(c) : c[j].s \in Nat BY FramesParts
<1>4. CASE k = Len(c) BY <1>2, <1>3, <1>4 DEF SegmentEnd
<1>5. CASE k # Len(c)
  <2>1. k + 1 \in 1 .. Len(c) BY <1>3, <1>5
  <2>2. c[k + 1].s \in 0 .. Len(t.stack["local"]) BY <2>1 DEF Frames
  <2>3. QED BY <1>2, <1>3, <1>5, <2>2 DEF SegmentEnd
<1>6. QED BY <1>4, <1>5

\* If no symbol is pushed to the local stack or popped from it, or the stack grows
\* and the last scope stays distinct, then all do.
LEMMA AutosSame ==
    ASSUME NEW t \in Table, NEW u \in Table, NEW g, NEW h, NEW c, Frames(t, c), Autos(t, g, c),
           Undisturbed(t, u, g, h, Len(t.stack["local"])),
           \/ Len(u.stack["local"]) = Len(t.stack["local"])
           \/ Distinct(u, h, Len(c), c[Len(c)].s, Len(u.stack["local"]))
    PROVE  Autos(u, h, c)
<1> SUFFICES ASSUME NEW k \in 1 .. Len(c)
             PROVE  Distinct(u, h, k, c[k].s, SegmentEnd(u, c, k))
  BY DEF Autos
<1>1. Distinct(t, g, k, c[k].s, SegmentEnd(t, c, k)) BY DEF Autos
<1>2. Distinct(u, h, k, c[k].s, SegmentEnd(t, c, k))
  BY <1>1, SegmentIs, UndisturbedDistinct
<1>3. CASE k # Len(c) BY <1>2, <1>3 DEF SegmentEnd
<1>4. CASE k = Len(c) BY <1>2, <1>4 DEF SegmentEnd
<1>5. QED BY <1>3, <1>4

\* A name of a variable of the last scope means this variable.
MeansVariable(t, g, c, p) ==
    LET i == t.stack["local"][p]
    IN i \notin g /\ t.sym[i].r = "auto" /\ t.sym[i].v \in Names =>
          t.head["ident"][t.sym[i].v] = i /\ t.sym[i].sym_scope = Len(c)

\* So it is in a tidy table.
LEMMA VariableMeant ==
    ASSUME NEW t, NEW g, NEW c, Tidy(t, g, c), Len(c) > 0
    PROVE  \A p \in c[Len(c)].s + 1 .. Len(t.stack["local"]) : MeansVariable(t, g, c, p)
<1> SUFFICES ASSUME NEW p \in c[Len(c)].s + 1 .. Len(t.stack["local"]),
                    t.stack["local"][p] \notin g, t.sym[t.stack["local"][p]].r = "auto",
                    t.sym[t.stack["local"][p]].v \in Names
             PROVE  LET i == t.stack["local"][p]
                    IN t.head["ident"][t.sym[i].v] = i /\ t.sym[i].sym_scope = Len(c)
  BY DEF MeansVariable
<1> DEFINE i == t.stack["local"][p]
           v == t.sym[i].v
           n == Len(t.stack["local"])
           h == t.head["ident"][v]
<1>1. t \in Table /\ Heads(t, g) /\ Frames(t, c) /\ Autos(t, g, c) BY DEF Tidy, Sound
<1>2. "ident" \in Spaces /\ Local(t, "ident") = t.stack["local"] BY DEF Spaces, Local, LocalStack
<1>3. Len(c) \in 1 .. Len(c) BY <1>1, FramesParts
<1>4. Distinct(t, g, Len(c), c[Len(c)].s, n) BY <1>1, <1>3 DEF Autos, SegmentEnd
<1>5. c[Len(c)].s \in Nat /\ n \in Nat BY <1>1, <1>3, SegmentIs
<1>6. /\ t.sym[i].sym_scope = Len(c) /\ t.sym[i].sp = "ident"
      /\ \A q \in p + 1 .. n :
             t.stack["local"][q] \notin g => ~Declares(t, t.stack["local"][q], "ident", v)
  BY <1>4 DEF Distinct
<1>7. Lives(t, g, "ident", v, p) BY <1>2, <1>6 DEF Lives, Declares
<1>8. Visible(t, g, "ident", v, n, h) BY <1>1, <1>2 DEF Heads
<1> HIDE DEF h, v
<1>9. h = i
  <2>1. ASSUME NEW q \in 1 .. n, h = t.stack["local"][q], Lives(t, g, "ident", v, q),
               NoneLives(t, g, "ident", v, q + 1, n)
        PROVE  h = i
    <3>1. ~(p \in q + 1 .. n) BY <1>7, <2>1 DEF NoneLives
    <3>2. ~(q \in p + 1 .. n) BY <1>2, <1>6, <2>1 DEF Lives
    <3>3. q = p BY <1>5, <3>1, <3>2
    <3>4. QED BY <2>1, <3>3
  <2>2. ~NoneLives(t, g, "ident", v, 1, n)
    <3>1. p \in 1 .. n BY <1>5
    <3>2. QED BY <1>7, <3>1 DEF NoneLives
  <2>3. QED BY <1>2, <1>8, <2>1, <2>2 DEF Visible
<1>10. QED BY <1>6, <1>9 DEF h, v

\* At file level a name means a global symbol, or nothing.
LEMMA FileLevelMeaning ==
    ASSUME NEW t, NEW g, NEW c, Tidy(t, g, c), Len(c) = 0
    PROVE  /\ g = {}
           /\ \A sp \in Spaces, v \in Names : t.head[sp][v] # NULL => t.sym[t.head[sp][v]].sym_scope = 0
<1>1. t \in Table /\ GoneLocal(t, g) /\ Heads(t, g) /\ Globals(t) /\ Frames(t, c) BY DEF Tidy, Sound
<1>2. \A sp \in Spaces : Len(Local(t, sp)) = 0 BY <1>1 DEF Frames, Local, LocalStack
<1>3. g = {}
  <2>1. \A sp \in Spaces : DOMAIN Local(t, sp) = {} BY <1>1, <1>2, LocalParts
  <2>2. QED BY <1>1, <2>1 DEF GoneLocal
<1>4. ASSUME NEW sp \in Spaces, NEW v \in Names, t.head[sp][v] # NULL
      PROVE  t.sym[t.head[sp][v]].sym_scope = 0
  <2> DEFINE h == t.head[sp][v]
  <2>1. Visible(t, g, sp, v, 0, h) BY <1>1, <1>2 DEF Heads
  <2> HIDE DEF h
  <2>2. FileWide(t, sp, v, h)
    <3>1. \A q \in 1 .. 0 : FALSE OBVIOUS
    <3>2. QED BY <2>1, <3>1 DEF Visible
  <2>3. h # NULL BY <1>4 DEF h
  <2>4. PICK q \in DOMAIN Global(t, sp) : h = Global(t, sp)[q] BY <2>2, <2>3 DEF FileWide
  <2>5. t.sym[h].sym_scope = 0 BY <1>1, <2>4 DEF Globals
  <2>6. QED BY <2>5 DEF h
<1>5. QED BY <1>3, <1>4

-----------------------------------------------------------------------------
(* Declarations *)

\* No symbol is NULL.
LEMMA SymsNotNull == \A i \in Syms : i \in Nat /\ i # NULL
<1>1. MaxSyms \in Nat BY Bounded
<1>2. QED BY <1>1 DEF Syms, NULL

\* A symbol that becomes complete, used or defined stays what else it is.
LEMMA TidyRetype ==
    ASSUME NEW t, NEW g, NEW c, Tidy(t, g, c), NEW i \in Syms, NEW r \in Meanings, r # "auto"
    PROVE  Tidy([t EXCEPT !.sym[i].r = r], g, c)
<1> DEFINE u == [t EXCEPT !.sym[i].r = r]
<1>1. t \in Table /\ Frames(t, c) /\ Autos(t, g, c) BY DEF Tidy, Sound
<1>2. /\ t.sym \in [Syms -> SymType] /\ t.stack \in [Stacks -> Seq(Syms)]
      /\ t.head \in [Spaces -> [Names -> Syms \cup {NULL}]]
  BY <1>1 DEF Table
<1>3. [t.sym[i] EXCEPT !.r = r] \in SymType
      /\ [t.sym[i] EXCEPT !.r = r].v = t.sym[i].v /\ [t.sym[i] EXCEPT !.r = r].sp = t.sym[i].sp
      /\ [t.sym[i] EXCEPT !.r = r].prev_tok = t.sym[i].prev_tok
      /\ [t.sym[i] EXCEPT !.r = r].sym_scope = t.sym[i].sym_scope
      /\ [t.sym[i] EXCEPT !.r = r].r = r
  <2>1. t.sym[i] \in SymType BY <1>2
  <2> HIDE DEF Idents, Meanings
  <2>2. t.sym[i] \in [v : Idents, sp : Spaces, prev_tok : Syms \cup {NULL}, sym_scope : 0 .. MaxDepth,
                      r : Meanings]
    BY <2>1, SymFields
  <2>3. [t.sym[i] EXCEPT !.r = r] \in [v : Idents, sp : Spaces, prev_tok : Syms \cup {NULL},
                                       sym_scope : 0 .. MaxDepth, r : Meanings]
    BY <2>2
  <2>4. QED BY <2>2, <2>3, SymFields
<1>4. u.sym = [t.sym EXCEPT ![i] = [t.sym[i] EXCEPT !.r = r]] /\ u.stack = t.stack /\ u.head = t.head
  BY <1>1 DEF Table
<1>5. u \in Table BY <1>1, <1>2, <1>3, <1>4 DEF Table
<1> HIDE DEF u
<1>6. \A j \in Syms : u.sym[j] = IF j = i THEN [t.sym[i] EXCEPT !.r = r] ELSE t.sym[j]
  BY <1>2, <1>4
<1>7. \A j \in Syms : /\ u.sym[j].v = t.sym[j].v /\ u.sym[j].sp = t.sym[j].sp
                      /\ u.sym[j].prev_tok = t.sym[j].prev_tok
                      /\ u.sym[j].sym_scope = t.sym[j].sym_scope
                      /\ u.sym[j].r = "auto" => t.sym[j].r = "auto"
  BY <1>3, <1>6
<1>8. Sound(u, g, Begins(c))
  <2>1. Sound(t, g, Begins(c)) BY DEF Tidy
  <2>2. \A st \in Stacks : u.stack[st] = t.stack[st] BY <1>4
  <2>3. \A sp \in Spaces, v \in Names : u.head[sp][v] = t.head[sp][v] BY <1>4
  <2>4. QED BY <1>5, <1>7, <2>1, <2>2, <2>3, Retype
<1>9. "local" \in Stacks /\ "local_label" \in Stacks BY DEF Stacks
<1>10. Len(t.stack["local"]) \in Nat /\ Len(t.stack["local_label"]) \in Nat BY <1>1, <1>9, TableParts
<1>11. Frames(u, c)
  BY <1>1, <1>4, <1>5, <1>10, FramesGrow
<1>12. Undisturbed(t, u, g, g, Len(t.stack["local"]))
  <2>1. \A p \in 1 .. Len(t.stack["local"]) : t.stack["local"][p] \in Syms BY <1>1, <1>9, TableParts
  <2>2. QED BY <1>4, <1>7, <2>1 DEF Undisturbed
<1>13. Autos(u, g, c) BY <1>1, <1>4, <1>5, <1>12, AutosSame
<1>14. QED BY <1>8, <1>11, <1>13 DEF Tidy, u

\* A declaration in a function: an automatic variable has the number of its scope,
\* and no identifier that hides the last one of the scope passes sym_push().
LEMMA TidyPushLocal ==
    ASSUME NEW t, NEW g, NEW c, Tidy(t, g, c), Len(c) > 0, Cardinality(On(t)) < MaxSyms,
           NEW s \in SymType, s.v \in Names, s.sp \in {"ident", "struct"}, NEW d \in 0 .. MaxDepth,
           s.r = "auto" => s.sp = "ident" /\ d = Len(c),
           LET hidden == t.head[s.sp][s.v] IN ~(hidden # NULL /\ t.sym[hidden].sym_scope = Len(c))
    PROVE  Tidy(sym_push(t, s, d), g, c)
<1> DEFINE u == sym_push(t, s, d)
           n == Len(t.stack["local"])
           new == u.stack["local"][n + 1]
<1>1. /\ t \in Table /\ Apart(t) /\ Kinds(t) /\ Frames(t, c) /\ Autos(t, g, c) /\ GoneLocal(t, g)
      /\ Sound(t, g, Begins(c))
  BY DEF Tidy, Sound
<1>2. "local" \in Stacks /\ "local_label" \in Stacks BY DEF Stacks
<1>3. n \in Nat /\ n >= 1 /\ Len(t.stack["local_label"]) \in Nat /\ \A p \in 1 .. n : t.stack["local"][p] \in Syms
  BY <1>1, <1>2, TableParts DEF Frames
<1>4. t.stack["local"] # <<>> BY <1>3
<1>5. /\ Sound(u, g, Begins(c)) /\ StaysOn(t, u, "local")
      /\ Len(u.stack["local"]) = n + 1
      /\ Len(u.stack["local_label"]) = Len(t.stack["local_label"])
      /\ TopIs(t, u, s, d)
  BY <1>1, <1>4, SymPushLocal
<1> HIDE DEF u
<1>6. u \in Table BY <1>5 DEF Sound
<1>7. Frames(u, c)
  <2>1. n + 1 >= n /\ Len(t.stack["local_label"]) >= Len(t.stack["local_label"]) BY <1>3
  <2>2. QED BY <1>1, <1>5, <1>6, <2>1, FramesGrow
<1>8. Undisturbed(t, u, g, g, n) BY <1>5, StaysUndisturbed
<1>9. u.sym[new].v = s.v /\ u.sym[new].sp = s.sp /\ u.sym[new].r = s.r /\ u.sym[new].sym_scope = d
  BY <1>5 DEF TopIs
<1>10. Len(c) \in 1 .. Len(c) /\ Len(c) \in Nat BY <1>1, FramesParts
<1>11. c[Len(c)].s \in Nat /\ SegmentEnd(t, c, Len(c)) = n /\ c[Len(c)].s <= n
  <2>1. c[Len(c)].s \in 0 .. n BY <1>1, <1>10 DEF Frames
  <2>2. QED BY <1>3, <2>1 DEF SegmentEnd
<1>12. Distinct(u, g, Len(c), c[Len(c)].s, n)
  <2>1. Distinct(t, g, Len(c), c[Len(c)].s, n) BY <1>1, <1>10, <1>11 DEF Autos
  <2>2. n <= n BY <1>3
  <2>3. QED BY <1>3, <1>8, <1>11, <2>1, <2>2, UndisturbedDistinct
<1>12a. \A p \in c[Len(c)].s + 1 .. n : MeansVariable(t, g, c, p) BY VariableMeant
<1>13. Distinct(u, g, Len(c), c[Len(c)].s, n + 1)
  <2> SUFFICES ASSUME NEW p \in c[Len(c)].s + 1 .. n + 1, u.stack["local"][p] \notin g,
                      u.sym[u.stack["local"][p]].r = "auto"
               PROVE  LET i == u.stack["local"][p]
                      IN /\ u.sym[i].sym_scope = Len(c) /\ u.sym[i].sp = "ident"
                         /\ \A q \in p + 1 .. n + 1 :
                                u.stack["local"][q] \notin g =>
                                   ~Declares(u, u.stack["local"][q], "ident", u.sym[i].v)
    BY DEF Distinct
  <2> DEFINE i == u.stack["local"][p]
  <2>1. CASE p = n + 1
    <3>1. \A q \in p + 1 .. n + 1 : FALSE BY <1>3, <2>1
    <3>2. QED BY <1>9, <2>1, <3>1
  <2>2. CASE p # n + 1
    <3>1. p \in c[Len(c)].s + 1 .. n /\ p \in 1 .. n BY <1>3, <1>11, <2>2
    <3>2. /\ u.sym[i].sym_scope = Len(c) /\ u.sym[i].sp = "ident"
          /\ \A q \in p + 1 .. n :
                 u.stack["local"][q] \notin g => ~Declares(u, u.stack["local"][q], "ident", u.sym[i].v)
      BY <1>12, <3>1 DEF Distinct
    <3>3. /\ i = t.stack["local"][p] /\ u.sym[i].v = t.sym[i].v
          /\ t.sym[i].r = "auto"
      BY <1>8, <3>1 DEF Undisturbed
    <3>4. ~Declares(u, new, "ident", u.sym[i].v)
      <4> SUFFICES ASSUME s.v = t.sym[i].v, s.sp = "ident" PROVE FALSE
        BY <1>9, <3>3 DEF Declares
      <4> DEFINE j == t.stack["local"][p]
      <4>1. i = j /\ j \in Syms BY <1>3, <3>1, <3>3
      <4>2. j \notin g /\ t.sym[j].r = "auto" /\ t.sym[j].v \in Names BY <3>3
      <4>3. t.head["ident"][t.sym[j].v] = j /\ t.sym[j].sym_scope = Len(c)
        BY <1>12a, <3>1, <4>2 DEF MeansVariable
      <4>4. j # NULL BY <4>1, SymsNotNull
      <4>5. t.head[s.sp][s.v] = j BY <3>3, <4>1, <4>3
      <4>6. QED BY <4>3, <4>4, <4>5
    <3>5. \A q \in p + 1 .. n + 1 : q \in p + 1 .. n \/ q = n + 1
      <4>1. \A a, m \in Nat : \A q \in a + 1 .. m + 1 : q \in a + 1 .. m \/ q = m + 1 OBVIOUS
      <4>2. p \in Nat BY <1>3, <3>1
      <4>3. QED BY <1>3, <4>1, <4>2
    <3>6. QED BY <3>2, <3>4, <3>5
  <2>3. QED BY <2>1, <2>2
<1>14. Autos(u, g, c) BY <1>1, <1>5, <1>6, <1>8, <1>13, AutosSame
<1>15. QED BY <1>5, <1>7, <1>14 DEF Tidy, u

\* A global symbol does not disturb the scopes of the local stacks.
LEMMA TidyGlobal ==
    ASSUME NEW t, NEW g, NEW c, Tidy(t, g, c), NEW u, NEW i, NEW sp0 \in Spaces, NEW v0 \in Names,
           Pushed(t, u, GlobalStack(sp0), i), Declares(u, i, sp0, v0),
           u.sym[i].prev_tok = NULL, u.sym[i].sym_scope = 0,
           t.head[sp0][v0] = NULL, \A j \in g : ~Declares(t, j, sp0, v0),
           \A sp \in Spaces, v \in Names :
               u.head[sp][v] = IF sp = sp0 /\ v = v0 THEN i ELSE t.head[sp][v]
    PROVE  Tidy(u, g, c)
<1>1. t \in Table /\ Frames(t, c) /\ Autos(t, g, c) /\ Sound(t, g, Begins(c)) BY DEF Tidy, Sound
<1>2. Sound(u, g, Begins(c)) BY <1>1, GlobalPush
<1>3. u \in Table BY <1>2 DEF Sound
<1>4. /\ "local" \in Stacks /\ "local_label" \in Stacks /\ GlobalStack(sp0) \in Stacks
      /\ GlobalStack(sp0) # "local" /\ GlobalStack(sp0) # "local_label"
  BY DEF Stacks, GlobalStack
<1>5. /\ StaysOn(t, u, "local") /\ Len(u.stack["local"]) = Len(t.stack["local"])
      /\ Len(u.stack["local_label"]) = Len(t.stack["local_label"])
  <2>1. \A st \in Stacks : StaysOn(t, u, st) /\ (st # GlobalStack(sp0) => Len(u.stack[st]) = Len(t.stack[st]))
    BY <1>1, <1>4, PushedStays
  <2>2. QED BY <1>4, <2>1
<1>6. Len(t.stack["local"]) \in Nat /\ Len(t.stack["local_label"]) \in Nat BY <1>1, <1>4, TableParts
<1>7. Frames(u, c) BY <1>1, <1>3, <1>5, <1>6, FramesGrow
<1>8. Undisturbed(t, u, g, g, Len(t.stack["local"])) BY <1>5, StaysUndisturbed
<1>9. Autos(u, g, c) BY <1>1, <1>3, <1>5, <1>8, AutosSame
<1>10. QED BY <1>2, <1>7, <1>9 DEF Tidy

\* A symbol that belongs to scope d
LEMMA SymScoped ==
    ASSUME NEW s \in SymType, NEW d \in 0 .. MaxDepth
    PROVE  /\ [s EXCEPT !.sym_scope = d] \in SymType
           /\ [s EXCEPT !.sym_scope = d].v = s.v /\ [s EXCEPT !.sym_scope = d].sp = s.sp
           /\ [s EXCEPT !.sym_scope = d].sym_scope = d
<1>1. NULL \in Syms \cup {NULL} OBVIOUS
<1>2. QED BY <1>1, SymExcept

\* A declaration in the file, of a name that has none
LEMMA TidyPushGlobal ==
    ASSUME NEW t, NEW g, NEW c, Tidy(t, g, c), Len(c) = 0, Cardinality(On(t)) < MaxSyms,
           NEW s \in SymType, s.v \in Names, s.sp \in {"ident", "struct"}, t.head[s.sp][s.v] = NULL
    PROVE  Tidy(sym_push(t, s, 0), g, c)
<1> DEFINE scoped == [s EXCEPT !.sym_scope = 0]
           u == sym_push(t, s, 0)
           i == sym_malloc(t)
           linked == [scoped EXCEPT !.prev_tok = t.head[scoped.sp][scoped.v]]
<1>1. t \in Table /\ Frames(t, c) BY DEF Tidy, Sound
<1>2. "global" \in Stacks /\ "local" \in Stacks /\ s.sp \in Spaces /\ GlobalStack(s.sp) = "global"
  BY DEF Stacks, Spaces, GlobalStack
<1>3. scoped \in SymType /\ scoped.v = s.v /\ scoped.sp = s.sp /\ scoped.sym_scope = 0
  <2>1. 0 \in 0 .. MaxDepth BY Bounded
  <2>2. QED BY <2>1, SymScoped
<1>4. t.stack["local"] = <<>>
  <2>1. Len(t.stack["local"]) = 0 BY <1>1 DEF Frames
  <2>2. t.stack["local"] \in Seq(Syms) BY <1>1, <1>2, TableParts
  <2>3. QED BY <2>1, <2>2
<1>5. u = PushHead(t, "global", scoped) BY <1>4 DEF sym_push
<1> HIDE DEF scoped, u
<1>6. /\ i \in Syms /\ Pushed(t, u, "global", i)
      /\ u.sym[i] = linked
      /\ \A sp \in Spaces, w \in Names :
             u.head[sp][w] = IF sp = scoped.sp /\ w = scoped.v THEN i ELSE t.head[sp][w]
  BY <1>1, <1>2, <1>3, <1>5, PushHeadIs
<1>7. /\ linked.v = s.v /\ linked.sp = s.sp /\ linked.prev_tok = NULL /\ linked.sym_scope = 0
  <2>1. t.head[scoped.sp][scoped.v] \in Syms \cup {NULL} /\ t.head[scoped.sp][scoped.v] = NULL
    BY <1>3
  <2>2. 0 \in 0 .. MaxDepth BY Bounded
  <2>3. QED BY <1>3, <2>1, <2>2, SymExcept
<1> HIDE DEF linked, i
<1>8. Declares(u, i, s.sp, s.v) /\ u.sym[i].prev_tok = NULL /\ u.sym[i].sym_scope = 0
  BY <1>6, <1>7 DEF Declares
<1>9. \A sp \in Spaces, w \in Names :
             u.head[sp][w] = IF sp = s.sp /\ w = s.v THEN i ELSE t.head[sp][w]
  BY <1>3, <1>6
<1>10. \A j \in g : ~Declares(t, j, s.sp, s.v) BY FileLevelMeaning
<1>11. Tidy(u, g, c) BY <1>2, <1>6, <1>8, <1>9, <1>10, TidyGlobal
<1>12. QED BY <1>11 DEF u

\* A function or a label that is put on its global stack, wherever the parser is
LEMMA TidyPushLast ==
    ASSUME NEW t, NEW g, NEW c, Tidy(t, g, c), Cardinality(On(t)) < MaxSyms,
           NEW s \in SymType, s.v \in Names, s.prev_tok = NULL, s.sym_scope = 0,
           t.head[s.sp][s.v] = NULL,
           \A j \in g : ~Declares(t, j, s.sp, s.v)
    PROVE  Tidy(PushLast(t, GlobalStack(s.sp), s), g, c)
<1> DEFINE u == PushLast(t, GlobalStack(s.sp), s)
           i == sym_malloc(t)
<1>1. t \in Table BY DEF Tidy, Sound
<1>2. s.sp \in Spaces BY SymFields
<1>3. GlobalStack(s.sp) \in Stacks BY <1>2, StackNames
<1>4. /\ i \in Syms /\ Pushed(t, u, GlobalStack(s.sp), i) /\ u.sym[i] = s
      /\ \A sp \in Spaces, v \in Names :
             u.head[sp][v] = IF sp = s.sp /\ v = s.v THEN i ELSE t.head[sp][v]
  BY <1>1, <1>3, PushLastIs
<1> HIDE DEF u, i
<1>5. Declares(u, i, s.sp, s.v) BY <1>4 DEF Declares
<1>6. Tidy(u, g, c) BY <1>2, <1>4, <1>5, TidyGlobal
<1>7. QED BY <1>6 DEF u

-----------------------------------------------------------------------------
(* The steps of declarations *)

\* What a dialect allows
LEMMA DialectIs ==
    ASSUME dialect \in Dialects
    PROVE  /\ dialect.names \subseteq Names /\ dialect.spaces \subseteq Spaces
           /\ dialect.syms \in Nat /\ dialect.syms <= MaxSyms
<1>1. dialect \in Dialect BY ScopesAssumption, Zenon
<1>2. dialect.names \subseteq Names /\ dialect.spaces \subseteq Spaces /\ dialect.syms \in Nat
  BY <1>1 DEF Dialect, Spaces
<1>3. dialect.syms <= MaxSyms BY ScopesAssumption, Zenon
<1>4. QED BY <1>2, <1>3

\* The empty tables are sound.
LEMMA TidyStart == Tidy(NoTable, {}, <<>>)
<1> DEFINE t == NoTable
           c == <<>>
<1>1. Blank \in SymType
  <2>1. "" \in Idents /\ "" \in Meanings BY DEF Idents, Meanings
  <2>2. "ident" \in Spaces BY DEF Spaces
  <2>3. QED BY <2>1, <2>2, SymOf DEF Blank
<1>2. t.sym = [i \in Syms |-> Blank] /\ t.stack = [st \in Stacks |-> <<>>]
      /\ t.head = [sp \in Spaces |-> [v \in Names |-> NULL]]
  BY DEF NoTable
<1>3. t \in Table
  <2>1. t.sym \in [Syms -> SymType] BY <1>1, <1>2
  <2>2. t.stack \in [Stacks -> Seq(Syms)] BY <1>2
  <2>3. t.head \in [Spaces -> [Names -> Syms \cup {NULL}]] BY <1>2
  <2>4. t = [sym |-> t.sym, stack |-> t.stack, head |-> t.head] BY DEF NoTable
  <2>5. QED BY <2>1, <2>2, <2>3, <2>4 DEF Table
<1> HIDE DEF t
<1>4. \A st \in Stacks : t.stack[st] = <<>> /\ Len(t.stack[st]) = 0 /\ DOMAIN t.stack[st] = {}
  <2>1. \A st \in Stacks : t.stack[st] = <<>> BY <1>2
  <2>2. Len(<<>>) = 0 /\ DOMAIN <<>> = {} OBVIOUS
  <2>3. QED BY <2>1, <2>2
<1>5. \A sp \in Spaces : /\ Len(Local(t, sp)) = 0 /\ DOMAIN Local(t, sp) = {}
                         /\ DOMAIN Global(t, sp) = {}
  BY <1>4, StackNames DEF Local, Global
<1>6. Apart(t) /\ Kinds(t) BY <1>4 DEF Apart, Kinds
<1>7. Globals(t) BY <1>5 DEF Globals
<1>8. Heads(t, {})
  <2>1. \A k \in 1 .. 0 : FALSE OBVIOUS
  <2>2. \A sp \in Spaces, v \in Names : t.head[sp][v] = NULL BY <1>2
  <2>3. QED BY <1>5, <2>1, <2>2 DEF Heads, Visible, FileWide, NoneLives
<1>9. Links(t, {}, Begins(c)) BY <1>5 DEF Links
<1>10. Sound(t, {}, Begins(c)) BY <1>3, <1>6, <1>7, <1>8, <1>9 DEF Sound, GoneLocal
<1>11. c \in Seq(FrameType) /\ Len(c) = 0 OBVIOUS
<1>12. Frames(t, c)
  <2>1. "local" \in Stacks /\ "local_label" \in Stacks BY DEF Stacks
  <2>2. \A k \in 1 .. Len(c) : FALSE BY <1>11
  <2>3. \A k \in 2 .. Len(c) : FALSE BY <1>11
  <2>4. ~(Len(c) > 0) BY <1>11
  <2>5. QED BY <1>4, <1>11, <2>1, <2>2, <2>3, <2>4 DEF Frames
<1>13. Autos(t, {}, c)
  <2>1. \A k \in 1 .. Len(c) : FALSE BY <1>11
  <2>2. QED BY <2>1 DEF Autos
<1>14. QED BY <1>10, <1>12, <1>13 DEF Tidy, t

\* The invariant after a step
LEMMA IInvAfter ==
    ASSUME IInv, UNCHANGED dialect, local_scope' = Len(ctx'), Len(ctx') <= MaxDepth,
           Tidy(tab', gone', ctx')
    PROVE  IInv'
BY DEF IInv

\* After an error another program may be compiled, by another process.
LEMMA ErrorStep ==
    ASSUME PlainDialects, IInv, UNCHANGED dialect, NEW why, NEW t, Error(why, t)
    PROVE  IInv'
<1>1. ~dialect.session BY DEF PlainDialects, IInv
<1>2. tab' = NoTable /\ gone' = {} /\ local_scope' = 0 /\ ctx' = <<>> BY <1>1 DEF Error
<1>3. Tidy(tab', gone', ctx') BY <1>2, TidyStart
<1>4. local_scope' = Len(ctx') /\ Len(ctx') <= MaxDepth
  <2>1. Len(<<>>) = 0 /\ 0 <= MaxDepth BY Bounded
  <2>2. QED BY <1>2, <2>1
<1>5. QED BY <1>3, <1>4, IInvAfter

\* A declaration leaves the scopes alone.
LEMMA QuietStep ==
    ASSUME IInv, UNCHANGED dialect, Quiet, Tidy(tab', gone, ctx)
    PROVE  IInv'
BY IInvAfter DEF IInv, Quiet

\* There is a symbol for one more declaration.
LEMMA RoomIs ==
    ASSUME IInv, NEW n \in Nat, Room(tab, n)
    PROVE  Cardinality(On(tab)) \in Nat /\ Cardinality(On(tab)) + n <= MaxSyms /\ MaxSyms \in Nat
<1>1. tab \in Table /\ dialect \in Dialects BY DEF IInv, Tidy, Sound
<1>2. dialect.syms \in Nat /\ dialect.syms <= MaxSyms BY <1>1, DialectIs
<1>3. MaxSyms \in Nat BY Bounded
<1>4. Cardinality(On(tab)) \in Nat
  <2>1. IsFiniteSet(Syms) BY <1>3, FS_Interval DEF Syms
  <2>2. IsFiniteSet(On(tab)) BY <1>1, <2>1, OnStacks, FS_Subset
  <2>3. QED BY <2>2, FS_CardinalityType
<1>5. Cardinality(On(tab)) + n <= dialect.syms BY DEF Room
<1>6. QED BY <1>2, <1>3, <1>4, <1>5

\* The depth of scopes
LEMMA DepthIs ==
    ASSUME IInv
    PROVE  /\ Len(ctx) \in Nat /\ local_scope \in 0 .. MaxDepth /\ local_scope = Len(ctx)
           /\ InFunction <=> Len(ctx) > 0
           /\ Len(ctx) = 0 => gone = {}
<1>1. Frames(tab, ctx) /\ local_scope = Len(ctx) /\ Len(ctx) <= MaxDepth BY DEF IInv, Tidy
<1>2. Len(ctx) \in Nat /\ (ctx = <<>> <=> Len(ctx) = 0) BY <1>1, FramesParts
<1>3. Len(ctx) = 0 => gone = {} BY FileLevelMeaning DEF IInv
<1>4. MaxDepth \in Nat BY Bounded
<1>5. QED BY <1>1, <1>2, <1>3, <1>4 DEF InFunction

\* Push(): a declaration of the file or of a function, or an error
LEMMA PushStep ==
    ASSUME PlainDialects, IInv, UNCHANGED dialect, Room(tab, 1),
           NEW s \in SymType, s.v \in Names, s.sp \in {"ident", "struct"},
           NEW scoped \in BOOLEAN, s.r = "auto" => s.sp = "ident" /\ InFunction /\ scoped,
           Push(s, scoped)
    PROVE  IInv'
<1> DEFINE hidden == tab.head[s.sp][s.v]
<1>1. CASE Redeclares(s) BY <1>1, ErrorStep DEF Push
<1>2. CASE ~Redeclares(s)
  <2>1. Quiet /\ tab' = sym_push(tab, s, IF scoped THEN local_scope ELSE 0) BY <1>2 DEF Push
  <2>2. ~(hidden # NULL /\ tab.sym[hidden].sym_scope = local_scope) BY <1>2 DEF Redeclares
  <2>3. Cardinality(On(tab)) < MaxSyms
    <3>1. 1 \in Nat OBVIOUS
    <3>2. Cardinality(On(tab)) \in Nat /\ Cardinality(On(tab)) + 1 <= MaxSyms /\ MaxSyms \in Nat
      BY <3>1, RoomIs
    <3>3. QED BY <3>2
  <2>4. Tidy(tab, gone, ctx) BY DEF IInv
  <2>5. CASE Len(ctx) > 0
    <3> DEFINE d == IF scoped THEN local_scope ELSE 0
    <3>1. d \in 0 .. MaxDepth BY DepthIs, Bounded
    <3>2. s.r = "auto" => s.sp = "ident" /\ d = Len(ctx) BY DepthIs
    <3>3. ~(hidden # NULL /\ tab.sym[hidden].sym_scope = Len(ctx)) BY <2>2, DepthIs
    <3> HIDE DEF d
    <3>4. Tidy(sym_push(tab, s, d), gone, ctx) BY <2>3, <2>4, <2>5, <3>1, <3>2, <3>3, TidyPushLocal
    <3>5. Tidy(tab', gone, ctx) BY <2>1, <3>4 DEF d
    <3>6. QED BY <2>1, <3>5, QuietStep
  <2>6. CASE Len(ctx) = 0
    <3>1. local_scope = 0 BY <2>6, DepthIs
    <3>2. s.sp \in Spaces BY DEF Spaces
    <3>3. hidden = NULL
      <4>1. hidden # NULL => tab.sym[hidden].sym_scope = 0 BY <2>4, <2>6, <3>2, FileLevelMeaning
      <4>2. QED BY <2>2, <3>1, <4>1
    <3>4. Tidy(sym_push(tab, s, 0), gone, ctx) BY <2>3, <2>4, <2>6, <3>3, TidyPushGlobal
    <3>5. Tidy(tab', gone, ctx)
      <4>1. (IF scoped THEN local_scope ELSE 0) = 0 BY <3>1
      <4>2. QED BY <2>1, <3>4, <4>1
    <3>6. QED BY <2>1, <3>5, QuietStep
  <2>7. QED BY <2>5, <2>6, DepthIs
<1>3. QED BY <1>1, <1>2

\* The symbols of the declarations of a name
SymFor(s, v, sp) ==
    /\ s \in SymType /\ s.v = v /\ s.sp = sp /\ s.prev_tok = NULL /\ s.sym_scope = 0

\* Sym() makes such symbols.
LEMMA SymIs ==
    ASSUME NEW v \in Names, NEW sp \in Spaces, NEW r \in Meanings
    PROVE  SymFor(Sym(v, sp, r), v, sp) /\ (r # "auto" => Sym(v, sp, r).r # "auto")
<1>1. v \in Idents BY DEF Idents
<1>2. QED BY <1>1, SymOf DEF SymFor

\* The meanings of declarations
LEMMA MeaningIs ==
    /\ "" \in Meanings /\ "typedef" \in Meanings /\ "complete" \in Meanings
    /\ "declared" \in Meanings /\ "forward" \in Meanings /\ "defined" \in Meanings
    /\ "" # "auto" /\ "typedef" # "auto" /\ "complete" # "auto" /\ "forward" # "auto"
    /\ "defined" # "auto"
BY DEF Meanings

\* A declaration of another kind than an automatic variable
LEMMA PlainPush ==
    ASSUME PlainDialects, IInv, UNCHANGED dialect, Room(tab, 1),
           NEW v \in Names, NEW sp \in {"ident", "struct"}, NEW r \in Meanings, r # "auto",
           NEW scoped \in BOOLEAN, Push(Sym(v, sp, r), scoped)
    PROVE  IInv'
<1> DEFINE s == Sym(v, sp, r)
<1>1. sp \in Spaces BY DEF Spaces
<1>2. SymFor(s, v, sp) /\ s.r # "auto" BY <1>1, SymIs
<1> HIDE DEF s
<1>3. s \in SymType /\ s.v \in Names /\ s.sp \in {"ident", "struct"} BY <1>2 DEF SymFor
<1>4. Push(s, scoped) BY DEF s
<1>5. QED BY <1>2, <1>3, <1>4, PushStep

\* A variable is declared: an automatic one in its scope, another one without.
LEMMA VariableStep ==
    ASSUME PlainDialects, IInv, UNCHANGED dialect, Variable
    PROVE  IInv'
<1>1. dialect.names \subseteq Names BY DialectIs DEF IInv
<1>2. Room(tab, 1) BY DEF Variable, Ready
<1>3. PICK v \in dialect.names :
          \E static \in BOOLEAN :
             IF InFunction /\ ~static THEN Push(Sym(v, "ident", "auto"), TRUE)
             ELSE Push(Sym(v, "ident", ""), FALSE)
  BY DEF Variable
<1>4. v \in Names BY <1>1, <1>3
<1>5. CASE InFunction /\ Push(Sym(v, "ident", "auto"), TRUE)
  <2> DEFINE s == Sym(v, "ident", "auto")
  <2>1. "ident" \in Spaces /\ "auto" \in Meanings BY DEF Spaces, Meanings
  <2>2. SymFor(s, v, "ident") BY <1>4, <2>1, SymIs
  <2> HIDE DEF s
  <2>3. s \in SymType /\ s.v \in Names /\ s.sp = "ident" BY <1>4, <2>2 DEF SymFor
  <2>4. Push(s, TRUE) /\ InFunction BY <1>5 DEF s
  <2>5. s.sp \in {"ident", "struct"} /\ TRUE \in BOOLEAN BY <2>3
  <2>6. QED BY <1>2, <2>3, <2>4, <2>5, PushStep
<1>6. CASE Push(Sym(v, "ident", ""), FALSE)
  BY <1>2, <1>4, <1>6, MeaningIs, PlainPush
<1>7. QED BY <1>3, <1>5, <1>6

\* A typedef name is declared.
LEMMA TypedefStep ==
    ASSUME PlainDialects, IInv, UNCHANGED dialect, Typedef
    PROVE  IInv'
<1>1. dialect.names \subseteq Names BY DialectIs DEF IInv
<1>2. Room(tab, 1) BY DEF Typedef, Ready
<1>3. PICK v \in dialect.names :
          Error("redeclaration", tab) \/ Push(Sym(v, "ident", "typedef"), FALSE)
  BY DEF Typedef
<1>4. v \in Names BY <1>1, <1>3
<1>5. CASE Error("redeclaration", tab) BY <1>5, ErrorStep
<1>6. CASE Push(Sym(v, "ident", "typedef"), FALSE) BY <1>2, <1>4, <1>6, MeaningIs, PlainPush
<1>7. QED BY <1>3, <1>5, <1>6

\* An enumerator is declared (struct_decl()).
LEMMA EnumeratorStep ==
    ASSUME PlainDialects, IInv, UNCHANGED dialect, Enumerator
    PROVE  IInv'
<1>1. dialect.names \subseteq Names BY DialectIs DEF IInv
<1>2. Room(tab, 1) BY DEF Enumerator, Ready
<1>3. PICK v \in dialect.names : Error("redeclaration", tab) \/ Push(Sym(v, "ident", ""), FALSE)
  BY DEF Enumerator
<1>4. v \in Names BY <1>1, <1>3
<1>5. CASE Error("redeclaration", tab) BY <1>5, ErrorStep
<1>6. CASE Push(Sym(v, "ident", ""), FALSE) BY <1>2, <1>4, <1>6, MeaningIs, PlainPush
<1>7. QED BY <1>3, <1>5, <1>6

\* An extern declaration, in a block or at file scope.
LEMMA ExternalStep ==
    ASSUME PlainDialects, IInv, UNCHANGED dialect, External
    PROVE  IInv'
<1>1. dialect.names \subseteq Names BY DialectIs DEF IInv
<1>2. Room(tab, 1) BY DEF External, Ready
<1>3. PICK v \in dialect.names : Push(Sym(v, "ident", ""), FALSE) BY DEF External
<1>4. v \in Names BY <1>1, <1>3
<1>5. QED BY <1>2, <1>3, <1>4, MeaningIs, PlainPush

\* A symbol on a global stack, of a name that means nothing and is not kept
LEMMA LastStep ==
    ASSUME PlainDialects, IInv, UNCHANGED dialect, Room(tab, 1), Quiet,
           NEW v \in Names, NEW sp \in Spaces, NEW r \in Meanings,
           tab.head[sp][v] = NULL, Kept(sp, v) => dialect.reuse,
           tab' = PushLast(tab, GlobalStack(sp), Sym(v, sp, r))
    PROVE  IInv'
<1> DEFINE s == Sym(v, sp, r)
<1>1. SymFor(s, v, sp) BY SymIs
<1>2. tab' = PushLast(tab, GlobalStack(sp), s) OBVIOUS
<1> HIDE DEF s
<1>3. /\ s \in SymType /\ s.v = v /\ s.sp = sp /\ s.prev_tok = NULL /\ s.sym_scope = 0
      /\ s.v \in Names
  BY <1>1 DEF SymFor
<1>4. \A j \in gone : ~Declares(tab, j, sp, v)
  <2>1. ~dialect.reuse BY DEF PlainDialects, IInv
  <2>2. QED BY <2>1 DEF Kept, Declares
<1>5. Cardinality(On(tab)) < MaxSyms
  <2>1. 1 \in Nat OBVIOUS
  <2>2. Cardinality(On(tab)) \in Nat /\ Cardinality(On(tab)) + 1 <= MaxSyms /\ MaxSyms \in Nat
    BY <2>1, RoomIs
  <2>3. QED BY <2>2
<1>6. Tidy(tab, gone, ctx) BY DEF IInv
<1>7. Tidy(PushLast(tab, GlobalStack(s.sp), s), gone, ctx)
  BY <1>3, <1>4, <1>5, <1>6, TidyPushLast
<1>8. QED BY <1>2, <1>3, <1>7, QuietStep

\* Another meaning of a symbol that is there
LEMMA RetypeStep ==
    ASSUME IInv, UNCHANGED dialect, Quiet, NEW sp \in Spaces, NEW v \in Names, tab.head[sp][v] # NULL,
           NEW r \in Meanings, r # "auto", tab' = [tab EXCEPT !.sym[tab.head[sp][v]].r = r]
    PROVE  IInv'
<1> DEFINE i == tab.head[sp][v]
<1>1. tab \in Table /\ Tidy(tab, gone, ctx) BY DEF IInv, Tidy, Sound
<1>2. i \in Syms BY <1>1, TableParts
<1> HIDE DEF i
<1>3. Tidy([tab EXCEPT !.sym[i].r = r], gone, ctx) BY <1>1, <1>2, TidyRetype
<1>4. QED BY <1>3, QuietStep DEF i

\* An unknown name is called (unary()): global_identifier_push().
LEMMA FunctionStep ==
    ASSUME PlainDialects, IInv, UNCHANGED dialect, Function
    PROVE  IInv'
<1>1. dialect.names \subseteq Names BY DialectIs DEF IInv
<1>2. Room(tab, 1) /\ Quiet BY DEF Function, Ready
<1>3. PICK v \in dialect.names :
          /\ sym_find(v) = NULL
          /\ Kept("ident", v) => dialect.reuse
          /\ tab' = global_identifier_push(tab, Sym(v, "ident", ""))
  BY DEF Function
<1>4. v \in Names /\ "ident" \in Spaces /\ GlobalStack("ident") = "global" BY <1>1, <1>3 DEF Spaces, GlobalStack
<1>5. tab.head["ident"][v] = NULL BY <1>3 DEF sym_find
<1>6. tab' = PushLast(tab, GlobalStack("ident"), Sym(v, "ident", "")) BY <1>3, <1>4 DEF global_identifier_push
<1>7. QED BY <1>2, <1>3, <1>4, <1>5, <1>6, MeaningIs, LastStep

\* A struct tag is declared, completed or mentioned (struct_decl()).
LEMMA TagStep ==
    ASSUME PlainDialects, IInv, UNCHANGED dialect, Tag
    PROVE  IInv'
<1>1. dialect.names \subseteq Names BY DialectIs DEF IInv
<1>2. Room(tab, 1) BY DEF Tag, Ready
<1>3. PICK v \in dialect.names :
          \/ Error("redeclaration", tab)
          \/ /\ struct_find(v) # NULL /\ Quiet
             /\ tab' = [tab EXCEPT !.sym[struct_find(v)].r = "complete"]
          \/ Push(Sym(v, "struct", "complete"), TRUE)
          \/ Push(Sym(v, "struct", ""), TRUE)
  BY DEF Tag
<1>4. v \in Names /\ "struct" \in Spaces BY <1>1, <1>3 DEF Spaces
<1>5. CASE Error("redeclaration", tab) BY <1>5, ErrorStep
<1>6. CASE /\ struct_find(v) # NULL /\ Quiet
           /\ tab' = [tab EXCEPT !.sym[struct_find(v)].r = "complete"]
  BY <1>4, <1>6, MeaningIs, RetypeStep DEF struct_find
<1>7. CASE Push(Sym(v, "struct", "complete"), TRUE) BY <1>2, <1>4, <1>7, MeaningIs, PlainPush
<1>8. CASE Push(Sym(v, "struct", ""), TRUE) BY <1>2, <1>4, <1>8, MeaningIs, PlainPush
<1>9. QED BY <1>3, <1>5, <1>6, <1>7, <1>8

\* A label is mentioned by goto before it is known (label_push()).
LEMMA GotoStep ==
    ASSUME PlainDialects, IInv, UNCHANGED dialect, Goto
    PROVE  IInv'
<1>1. dialect.names \subseteq Names BY DialectIs DEF IInv
<1>2. Room(tab, 1) /\ Quiet BY DEF Goto, Ready
<1>3. PICK v \in dialect.names :
          \/ /\ label_find(v) = NULL
             /\ Kept("label", v) => dialect.reuse
             /\ tab' = label_push(tab, "global_label", Sym(v, "label", "forward"))
          \/ label_find(v) # NULL /\ tab' = [tab EXCEPT !.sym[label_find(v)].r = "forward"]
  BY DEF Goto
<1>4. v \in Names /\ "label" \in Spaces /\ GlobalStack("label") = "global_label"
  BY <1>1, <1>3 DEF Spaces, GlobalStack
<1>5. CASE /\ label_find(v) = NULL
           /\ Kept("label", v) => dialect.reuse
           /\ tab' = label_push(tab, "global_label", Sym(v, "label", "forward"))
  <2>1. tab' = PushLast(tab, GlobalStack("label"), Sym(v, "label", "forward"))
    BY <1>4, <1>5 DEF label_push
  <2>2. tab.head["label"][v] = NULL BY <1>5 DEF label_find
  <2>3. QED BY <1>2, <1>4, <1>5, <2>1, <2>2, MeaningIs, LastStep
<1>6. CASE label_find(v) # NULL /\ tab' = [tab EXCEPT !.sym[label_find(v)].r = "forward"]
  BY <1>2, <1>4, <1>6, MeaningIs, RetypeStep DEF label_find
<1>7. QED BY <1>3, <1>5, <1>6

\* A label is defined.
LEMMA LabelStep ==
    ASSUME PlainDialects, IInv, UNCHANGED dialect, Label
    PROVE  IInv'
<1>1. dialect.names \subseteq Names BY DialectIs DEF IInv
<1>2. Room(tab, 1) BY DEF Label, Ready
<1>3. PICK v \in dialect.names :
          \/ /\ label_find(v) = NULL /\ Quiet
             /\ Kept("label", v) => dialect.reuse
             /\ tab' = label_push(tab, "global_label", Sym(v, "label", "defined"))
          \/ Error("duplicate label", tab)
          \/ label_find(v) # NULL /\ Quiet /\ tab' = [tab EXCEPT !.sym[label_find(v)].r = "defined"]
  BY DEF Label
<1>4. v \in Names /\ "label" \in Spaces /\ GlobalStack("label") = "global_label"
  BY <1>1, <1>3 DEF Spaces, GlobalStack
<1>5. CASE /\ label_find(v) = NULL /\ Quiet
           /\ Kept("label", v) => dialect.reuse
           /\ tab' = label_push(tab, "global_label", Sym(v, "label", "defined"))
  <2>1. tab' = PushLast(tab, GlobalStack("label"), Sym(v, "label", "defined"))
    BY <1>4, <1>5 DEF label_push
  <2>2. tab.head["label"][v] = NULL BY <1>5 DEF label_find
  <2>3. QED BY <1>2, <1>4, <1>5, <2>1, <2>2, MeaningIs, LastStep
<1>6. CASE Error("duplicate label", tab) BY <1>6, ErrorStep
<1>7. CASE label_find(v) # NULL /\ Quiet /\ tab' = [tab EXCEPT !.sym[label_find(v)].r = "defined"]
  BY <1>4, <1>7, MeaningIs, RetypeStep DEF label_find
<1>8. QED BY <1>3, <1>5, <1>6, <1>7

-----------------------------------------------------------------------------
(* The steps that enter a scope *)

\* The parameters of a function have different names.
LEMMA ParametersDistinct ==
    ASSUME NEW u, NEW s, NEW n \in Nat, ParametersOn(u, s, n), NEW g,
           \A i, j \in 1 .. n : s[i] = s[j] => i = j
    PROVE  Distinct(u, g, 1, 0, n + 1)
<1> SUFFICES ASSUME NEW p \in 1 .. n + 1, u.sym[u.stack["local"][p]].r = "auto"
             PROVE  LET i == u.stack["local"][p]
                    IN /\ u.sym[i].sym_scope = 1 /\ u.sym[i].sp = "ident"
                       /\ \A q \in p + 1 .. n + 1 : ~Declares(u, u.stack["local"][q], "ident", u.sym[i].v)
  <2>1. 0 + 1 = 1 OBVIOUS
  <2>2. QED BY <2>1 DEF Distinct
<1>1. p # 1 BY DEF ParametersOn
<1>2. p \in 2 .. n + 1 /\ p - 1 \in 1 .. n BY <1>1
<1>3. \A q \in 2 .. n + 1 : LET o == u.sym[u.stack["local"][q]]
                            IN o.v = s[q - 1] /\ o.sp = "ident" /\ o.sym_scope = 1
  BY DEF ParametersOn
<1>4. ASSUME NEW q \in p + 1 .. n + 1
      PROVE  ~Declares(u, u.stack["local"][q], "ident", u.sym[u.stack["local"][p]].v)
  <2>1. q \in 2 .. n + 1 /\ q - 1 \in 1 .. n /\ q - 1 # p - 1 BY <1>2
  <2>2. s[q - 1] # s[p - 1] BY <1>2, <2>1
  <2>3. u.sym[u.stack["local"][q]].v = s[q - 1] /\ u.sym[u.stack["local"][p]].v = s[p - 1]
    BY <1>2, <1>3, <2>1
  <2>4. QED BY <2>2, <2>3 DEF Declares
<1>5. QED BY <1>2, <1>3, <1>4

\* A frame for the scope that begins
LEMMA FrameIs ==
    ASSUME tab \in Table, NEW keep \in BOOLEAN, NEW loop \in BOOLEAN
    PROVE  /\ Frame(keep, loop) \in FrameType
           /\ Frame(keep, loop).s = Len(tab.stack["local"])
           /\ Frame(keep, loop).l = Len(tab.stack["local_label"])
           /\ Frame(keep, loop).loop = loop
<1>1. "local" \in Stacks /\ "local_label" \in Stacks BY DEF Stacks
<1>2. Len(tab.stack["local"]) \in Nat /\ Len(tab.stack["local_label"]) \in Nat BY <1>1, TableParts
<1>3. QED BY <1>2 DEF Frame, FrameType

\* The tables can be popped to the beginning of a scope that begins.
LEMMA SoundEnter ==
    ASSUME NEW t, NEW g, NEW c, Frames(t, c), Sound(t, g, Begins(c)), NEW f \in FrameType,
           f.s = Len(t.stack["local"]), f.l = Len(t.stack["local_label"])
    PROVE  Sound(t, g, Begins(Append(c, f)))
<1> DEFINE d == Append(c, f)
<1>1. c \in Seq(FrameType) /\ Len(c) \in Nat BY FramesParts DEF Frames
<1>2. Len(d) = Len(c) + 1 /\ d[Len(c) + 1] = f /\ \A k \in 1 .. Len(c) : d[k] = c[k] BY <1>1
<1> HIDE DEF d
<1>3. ASSUME NEW sp \in Spaces, NEW b \in Begins(d)[sp]
      PROVE  b \in Begins(c)[sp] \/ b = Len(Local(t, sp))
  <2>1. PICK k \in 1 .. Len(d) : b = IF sp = "label" THEN d[k].l ELSE d[k].s BY DEF Begins
  <2>2. CASE k \in 1 .. Len(c)
    <3>1. b = IF sp = "label" THEN c[k].l ELSE c[k].s BY <1>2, <2>1, <2>2
    <3>2. QED BY <2>2, <3>1 DEF Begins
  <2>3. CASE k = Len(c) + 1
    BY <1>2, <2>1, <2>3 DEF Local, LocalStack
  <2>4. QED BY <1>1, <1>2, <2>1, <2>2, <2>3
<1>4. QED BY <1>3, Bounds DEF d

\* A block begins, with the labels that it declares.
LEMMA TidyEnter ==
    ASSUME NEW t, NEW g, NEW c, Tidy(t, g, c), Len(c) > 0, NEW f \in FrameType,
           f.s = Len(t.stack["local"]), f.l = Len(t.stack["local_label"]),
           NEW u, Sound(u, g, Begins(Append(c, f))), StaysOn(t, u, "local"),
           Len(u.stack["local"]) = Len(t.stack["local"]),
           Len(u.stack["local_label"]) >= Len(t.stack["local_label"])
    PROVE  Tidy(u, g, Append(c, f))
<1> DEFINE d == Append(c, f)
           n == Len(t.stack["local"])
<1>1. t \in Table /\ u \in Table /\ Frames(t, c) /\ Autos(t, g, c) BY DEF Tidy, Sound
<1>2. c \in Seq(FrameType) /\ Len(c) \in Nat BY <1>1, FramesParts DEF Frames
<1>3. Len(d) = Len(c) + 1 /\ d[Len(c) + 1] = f /\ \A k \in 1 .. Len(c) : d[k] = c[k] BY <1>2
<1>4. "local" \in Stacks /\ "local_label" \in Stacks BY DEF Stacks
<1>5. n \in Nat BY <1>1, <1>4, TableParts
<1>6. Frames(u, d)
  <2>1. Len(u.stack["local"]) >= n /\ Len(u.stack["local"]) >= 1 BY <1>1, <1>5 DEF Frames
  <2>2. Len(c) = 0 => ~f.loop BY <1>2
  <2>3. QED BY <1>1, <2>1, <2>2, FramesEnter
<1>7. Undisturbed(t, u, g, g, n) BY StaysUndisturbed
<1> HIDE DEF d
<1>8. Autos(u, g, d)
  <2> SUFFICES ASSUME NEW k \in 1 .. Len(d)
               PROVE  Distinct(u, g, k, d[k].s, SegmentEnd(u, d, k))
    BY DEF Autos
  <2>1. CASE k = Len(c) + 1
    <3>1. d[k].s = n /\ SegmentEnd(u, d, k) = n BY <1>3, <2>1 DEF SegmentEnd
    <3>2. \A p \in n + 1 .. n : FALSE BY <1>5
    <3>3. QED BY <3>1, <3>2 DEF Distinct
  <2>2. CASE k \in 1 .. Len(c)
    <3>1. d[k].s = c[k].s /\ SegmentEnd(u, d, k) = SegmentEnd(t, c, k)
      <4>1. k # Len(d) BY <1>2, <1>3, <2>2
      <4>2. CASE k = Len(c) BY <1>3, <2>2, <4>1, <4>2 DEF SegmentEnd
      <4>3. CASE k # Len(c)
        <5>1. k + 1 \in 1 .. Len(c) BY <1>2, <2>2, <4>3
        <5>2. QED BY <1>3, <2>2, <4>1, <4>3, <5>1 DEF SegmentEnd
      <4>4. QED BY <4>2, <4>3
    <3>2. Distinct(t, g, k, c[k].s, SegmentEnd(t, c, k)) BY <1>1, <2>2 DEF Autos
    <3>3. c[k].s \in Nat /\ SegmentEnd(t, c, k) \in Nat /\ SegmentEnd(t, c, k) <= n
      BY <1>1, <2>2, SegmentIs
    <3>4. Distinct(u, g, k, c[k].s, SegmentEnd(t, c, k))
      BY <1>5, <1>7, <3>2, <3>3, UndisturbedDistinct
    <3>5. QED BY <3>1, <3>4
  <2>3. QED BY <1>2, <1>3, <2>1, <2>2
<1>9. QED BY <1>6, <1>8 DEF Tidy, d

\* That the body of a for is done changes nothing else.
LEMMA TidyDone ==
    ASSUME NEW t, NEW g, NEW c, Tidy(t, g, c), Len(c) > 0
    PROVE  LET d == [c EXCEPT ![Len(c)].done = TRUE]
           IN Tidy(t, g, d) /\ Len(d) = Len(c)
<1> DEFINE d == [c EXCEPT ![Len(c)].done = TRUE]
           f == [c[Len(c)] EXCEPT !.done = TRUE]
<1>1. Frames(t, c) /\ Autos(t, g, c) /\ Sound(t, g, Begins(c)) BY DEF Tidy
<1>2. c \in Seq(FrameType) /\ Len(c) \in Nat /\ Len(c) \in 1 .. Len(c) BY <1>1, FramesParts DEF Frames
<1>3. c[Len(c)] \in FrameType BY <1>2
<1>4. f \in FrameType /\ f.s = c[Len(c)].s /\ f.l = c[Len(c)].l /\ f.loop = c[Len(c)].loop
  BY <1>3 DEF FrameType
<1>5. d = [c EXCEPT ![Len(c)] = f] OBVIOUS
<1> HIDE DEF d, f
<1>6. d \in Seq(FrameType) /\ Len(d) = Len(c) BY <1>2, <1>4, <1>5
<1>7. \A k \in 1 .. Len(c) : d[k].s = c[k].s /\ d[k].l = c[k].l /\ d[k].loop = c[k].loop
  <2>1. \A k \in 1 .. Len(c) : d[k] = IF k = Len(c) THEN f ELSE c[k] BY <1>2, <1>5
  <2>2. QED BY <1>4, <2>1
<1>8. Begins(d) = Begins(c) BY <1>6, <1>7 DEF Begins
<1>9. Frames(t, d)
  <2>1. \A k \in 2 .. Len(c) : k \in 1 .. Len(c) BY <1>2
  <2>2. \A k \in 2 .. Len(d) : d[k].s >= 1 BY <1>1, <1>6, <1>7, <2>1 DEF Frames
  <2>3. \A k \in 1 .. Len(d) : /\ d[k].s \in 0 .. Len(t.stack["local"])
                               /\ d[k].l \in 0 .. Len(t.stack["local_label"])
    BY <1>1, <1>6, <1>7 DEF Frames
  <2>4. \A j, k \in 1 .. Len(d) : j <= k => d[j].s <= d[k].s /\ d[j].l <= d[k].l
    BY <1>1, <1>6, <1>7 DEF Frames
  <2>5. 1 \in 1 .. Len(c) /\ Len(d) # 0 BY <1>2, <1>6
  <2>6. /\ Len(t.stack["local"]) >= 1
        /\ d[1].s = 0 /\ d[1].l = 0 /\ ~d[1].loop
    BY <1>1, <1>7, <2>5 DEF Frames
  <2>7. QED BY <1>6, <2>2, <2>3, <2>4, <2>5, <2>6 DEF Frames
<1>10. Autos(t, g, d)
  <2>1. \A k \in 1 .. Len(c) : SegmentEnd(t, d, k) = SegmentEnd(t, c, k)
    <3>1. \A k \in 1 .. Len(c) : k # Len(c) => k + 1 \in 1 .. Len(c) BY <1>2
    <3>2. QED BY <1>6, <1>7, <3>1 DEF SegmentEnd
  <2>2. QED BY <1>1, <1>6, <1>7, <2>1 DEF Autos
<1>11. QED BY <1>1, <1>6, <1>8, <1>9, <1>10 DEF Tidy, d

\* The scope of a function and its parameters (gen_function(), sym_push_params()).
LEMMA BeginFunctionStep ==
    ASSUME PlainDialects, IInv, UNCHANGED dialect, BeginFunction
    PROVE  IInv'
<1> DEFINE f == Frame(FALSE, FALSE)
           c == Append(<<>>, f)
<1>1. /\ tab \in Table /\ Frames(tab, ctx) /\ Sound(tab, gone, Begins(ctx)) BY DEF IInv, Tidy, Sound
<1>2. /\ ctx = <<>> /\ Len(ctx) = 0
      /\ ctx' = <<f>> /\ local_scope' = 1 /\ gone' = gone
  BY DEF BeginFunction
<1>3. Len(tab.stack["local"]) = 0 /\ Len(tab.stack["local_label"]) = 0 BY <1>1, <1>2 DEF Frames
<1>4. PICK P \in SUBSET (IF "ident" \in dialect.spaces THEN dialect.names ELSE {}) :
         \E L \in LabelSets :
            /\ Room(tab, 1 + Cardinality(P) + Cardinality(L))
            /\ tab' = DeclareLabels(Parameters(tab, P), L)
  BY DEF BeginFunction
<1>5. PICK L \in LabelSets :
            /\ Room(tab, 1 + Cardinality(P) + Cardinality(L))
            /\ tab' = DeclareLabels(Parameters(tab, P), L)
  BY <1>4
<1>6. P \in SUBSET Names /\ L \in SUBSET Names
  <2>1. dialect.names \subseteq Names BY DialectIs DEF IInv
  <2>2. QED BY <2>1 DEF LabelSets
<1>7. Cardinality(P) \in Nat /\ Cardinality(L) \in Nat /\ IsFiniteSet(P)
  <2>1. IsFiniteSet(P) /\ IsFiniteSet(L) BY <1>6, Bounded, FS_Subset
  <2>2. QED BY <2>1, FS_CardinalityType
<1>8. /\ Cardinality(On(tab)) \in Nat /\ MaxSyms \in Nat
      /\ Cardinality(On(tab)) + (1 + Cardinality(P) + Cardinality(L)) <= MaxSyms
  <2>1. 1 + Cardinality(P) + Cardinality(L) \in Nat BY <1>7
  <2>2. QED BY <1>5, <2>1, RoomIs
<1>9. f \in FrameType /\ f.s = Len(tab.stack["local"]) /\ f.l = Len(tab.stack["local_label"]) /\ ~f.loop
  BY <1>1, FrameIs
<1> HIDE DEF f
<1> DEFINE u1 == Parameters(tab, P)
           u2 == DeclareLabels(u1, L)
<1>10. Sound(tab, gone, Begins(c)) BY <1>1, <1>2, <1>9, SoundEnter
<1> HIDE DEF c
<1>11. /\ Sound(u1, gone, Begins(c)) /\ ParametersOn(u1, SetToSeq(P), Cardinality(P))
       /\ Cardinality(On(u1)) \in Nat
       /\ Cardinality(On(u1)) <= Cardinality(On(tab)) + 1 + Cardinality(P)
  <2>1. Cardinality(On(tab)) + 1 + Cardinality(P) <= MaxSyms BY <1>7, <1>8
  <2>2. QED BY <1>3, <1>6, <1>10, <2>1, ParametersIs
<1> HIDE DEF u1
<1>12. /\ Sound(u2, gone, Begins(c)) /\ StaysOn(u1, u2, "local") /\ StaysOn(u1, u2, "local_label")
       /\ Len(u2.stack["local"]) = Len(u1.stack["local"])
  <2>1. Cardinality(On(u1)) + Cardinality(L) <= MaxSyms BY <1>7, <1>8, <1>11
  <2>2. QED BY <1>6, <1>11, <2>1, DeclareLabelsIs
<1>13. tab' = u2 BY <1>5 DEF u1
<1> HIDE DEF u2
<1>14. u1 \in Table /\ u2 \in Table /\ "local" \in Stacks /\ "local_label" \in Stacks
  BY <1>11, <1>12 DEF Sound, Stacks
<1>15. Len(u1.stack["local"]) = Cardinality(P) + 1 BY <1>11 DEF ParametersOn
<1>16. Frames(u2, c)
  <2>1. Len(u2.stack["local_label"]) \in Nat BY <1>14, TableParts
  <2>2. Len(u2.stack["local"]) >= 1 /\ Len(u2.stack["local"]) >= 0 BY <1>7, <1>12, <1>15
  <2>3. Len(u2.stack["local_label"]) >= 0 BY <2>1
  <2>4. QED BY <1>1, <1>2, <1>3, <1>9, <1>14, <2>2, <2>3, FramesEnter DEF c
<1>17. Distinct(u2, gone, 1, 0, Cardinality(P) + 1)
  <2>1. \A i, j \in 1 .. Cardinality(P) : SetToSeq(P)[i] = SetToSeq(P)[j] => i = j BY <1>7, ListOf
  <2>2. Distinct(u1, gone, 1, 0, Cardinality(P) + 1) BY <1>7, <1>11, <2>1, ParametersDistinct
  <2>3. Undisturbed(u1, u2, gone, gone, Cardinality(P) + 1) BY <1>12, <1>15, StaysUndisturbed
  <2>4. Cardinality(P) + 1 \in Nat /\ 0 \in Nat /\ Cardinality(P) + 1 <= Cardinality(P) + 1 BY <1>7
  <2>5. QED BY <2>2, <2>3, <2>4, UndisturbedDistinct
<1>18. Len(c) = 1 /\ c[1] = f /\ c = <<f>> BY DEF c
<1>19. Autos(u2, gone, c)
  <2>1. \A k \in 1 .. Len(c) : k = 1 BY <1>18
  <2>2. SegmentEnd(u2, c, 1) = Cardinality(P) + 1 BY <1>12, <1>15, <1>18 DEF SegmentEnd
  <2>3. c[1].s = 0 BY <1>3, <1>9, <1>18
  <2>4. QED BY <1>17, <2>1, <2>2, <2>3 DEF Autos
<1>20. Tidy(tab', gone', ctx')
  <2>1. Tidy(u2, gone, c) BY <1>12, <1>16, <1>19 DEF Tidy
  <2>2. QED BY <1>2, <1>13, <1>18, <2>1
<1>21. local_scope' = Len(ctx') /\ Len(ctx') <= MaxDepth
  <2>1. Len(ctx') = 1 /\ 1 <= MaxDepth BY <1>2, <1>18, Bounded
  <2>2. QED BY <1>2, <2>1
<1>22. QED BY <1>20, <1>21, IInvAfter

\* A block begins in state t of the tables.
LEMMA InnerStep ==
    ASSUME IInv, UNCHANGED dialect, NEW keep \in BOOLEAN, NEW loop \in BOOLEAN, Inner(keep, loop),
           NEW L \in SUBSET Names, Cardinality(On(tab)) + Cardinality(L) <= MaxSyms,
           tab' = DeclareLabels(tab, L) \/ tab' = tab
    PROVE  IInv'
<1> DEFINE f == Frame(keep, loop)
           c == IF Last(ctx).loop /\ ~keep THEN [ctx EXCEPT ![Len(ctx)].done = TRUE] ELSE ctx
           d == Append(c, f)
<1>1. tab \in Table /\ Tidy(tab, gone, ctx) BY DEF IInv, Tidy, Sound
<1>2. ctx' = d /\ local_scope' = local_scope + 1 /\ gone' = gone /\ Len(ctx) < MaxDepth /\ InFunction
  BY DEF Inner
<1>3. Len(ctx) \in Nat /\ Len(ctx) > 0 /\ local_scope = Len(ctx) BY <1>2, DepthIs
<1>4. Tidy(tab, gone, c) /\ Len(c) = Len(ctx) BY <1>1, <1>3, TidyDone
<1>5. f \in FrameType /\ f.s = Len(tab.stack["local"]) /\ f.l = Len(tab.stack["local_label"])
  BY <1>1, FrameIs
<1> HIDE DEF c, f
<1>6. Frames(tab, c) /\ Sound(tab, gone, Begins(c)) /\ Len(c) > 0 BY <1>3, <1>4 DEF Tidy
<1>7. Sound(tab, gone, Begins(d)) BY <1>5, <1>6, SoundEnter
<1>8. "local" \in Stacks /\ "local_label" \in Stacks BY DEF Stacks
<1>9. Len(tab.stack["local"]) \in Nat /\ Len(tab.stack["local_label"]) \in Nat BY <1>1, <1>8, TableParts
<1>10. Tidy(tab', gone', ctx')
  <2>1. CASE tab' = DeclareLabels(tab, L)
    <3> DEFINE u == DeclareLabels(tab, L)
               B == Begins(d)
    <3> HIDE DEF B
    <3>1. Sound(tab, gone, B) BY <1>7 DEF B
    <3>2. /\ Sound(u, gone, B) /\ StaysOn(tab, u, "local") /\ StaysOn(tab, u, "local_label")
          /\ Len(u.stack["local"]) = Len(tab.stack["local"])
      BY <3>1, DeclareLabelsIs
    <3> HIDE DEF u
    <3>3. Sound(u, gone, Begins(d)) BY <3>2 DEF B
    <3>4. Len(u.stack["local_label"]) >= Len(tab.stack["local_label"]) BY <3>2 DEF StaysOn
    <3>5. Tidy(u, gone, d) BY <1>4, <1>5, <1>6, <3>2, <3>3, <3>4, TidyEnter
    <3>6. QED BY <1>2, <2>1, <3>5 DEF u
  <2>2. CASE tab' = tab
    <3>1. StaysOn(tab, tab, "local") BY <1>9 DEF StaysOn
    <3>2. Len(tab.stack["local_label"]) >= Len(tab.stack["local_label"]) BY <1>9
    <3>3. Tidy(tab, gone, d) BY <1>4, <1>5, <1>6, <1>7, <3>1, <3>2, TidyEnter
    <3>4. QED BY <1>2, <2>2, <3>3
  <2>3. QED BY <2>1, <2>2
<1>11. local_scope' = Len(ctx') /\ Len(ctx') <= MaxDepth
  <2>1. c \in Seq(FrameType) BY <1>6 DEF Frames
  <2>2. Len(d) = Len(c) + 1 BY <2>1
  <2>3. MaxDepth \in Nat BY Bounded
  <2>4. QED BY <1>2, <1>3, <1>4, <2>2, <2>3
<1>12. QED BY <1>10, <1>11, IInvAfter

\* A block or a ({...}) begins (new_scope()).
LEMMA BeginBlockStep ==
    ASSUME IInv, UNCHANGED dialect, BeginBlock
    PROVE  IInv'
<1>1. PICK keep \in BOOLEAN : \E L \in LabelSets :
         Inner(keep, FALSE) /\ Room(tab, Cardinality(L)) /\ tab' = DeclareLabels(tab, L)
  BY DEF BeginBlock
<1>2. PICK L \in LabelSets :
         Inner(keep, FALSE) /\ Room(tab, Cardinality(L)) /\ tab' = DeclareLabels(tab, L)
  BY <1>1
<1>3. L \in SUBSET Names
  <2>1. dialect.names \subseteq Names BY DialectIs DEF IInv
  <2>2. QED BY <2>1 DEF LabelSets
<1>4. Cardinality(L) \in Nat
  <2>1. IsFiniteSet(L) BY <1>3, Bounded, FS_Subset
  <2>2. QED BY <2>1, FS_CardinalityType
<1>5. Cardinality(On(tab)) + Cardinality(L) <= MaxSyms BY <1>2, <1>4, RoomIs
<1>6. FALSE \in BOOLEAN OBVIOUS
<1>7. QED BY <1>2, <1>3, <1>5, <1>6, InnerStep

\* A for statement begins.
LEMMA BeginForStep ==
    ASSUME IInv, UNCHANGED dialect, BeginFor
    PROVE  IInv'
<1>1. Inner(FALSE, TRUE) /\ tab' = tab BY DEF BeginFor
<1>2. {} \in SUBSET Names /\ Cardinality({}) = 0 BY FS_EmptySet
<1>3. Cardinality(On(tab)) + Cardinality({}) <= MaxSyms
  <2>1. tab \in Table BY DEF IInv, Tidy, Sound
  <2>2. MaxSyms \in Nat BY Bounded
  <2>3. IsFiniteSet(Syms) /\ Cardinality(Syms) = MaxSyms BY <2>2, FS_Interval DEF Syms
  <2>4. Cardinality(On(tab)) \in Nat /\ Cardinality(On(tab)) <= MaxSyms
    BY <2>1, <2>3, OnStacks, FS_Subset, FS_CardinalityType
  <2>5. QED BY <1>2, <2>4
<1>4. FALSE \in BOOLEAN /\ TRUE \in BOOLEAN OBVIOUS
<1>5. QED BY <1>1, <1>2, <1>3, <1>4, InnerStep

-----------------------------------------------------------------------------
(* The steps that leave a scope *)

\* The symbols above a position
LEMMA AboveIs ==
    ASSUME tab \in Table, NEW st \in Stacks, NEW b \in 0 .. Len(tab.stack[st])
    PROVE  Above(st, b) = {tab.stack[st][p] : p \in b + 1 .. Len(tab.stack[st])}
<1> DEFINE s == tab.stack[st]
           n == Len(s)
           r == SubSeq(s, b + 1, n)
<1>1. s \in Seq(Syms) /\ n \in Nat /\ DOMAIN s = 1 .. n BY TableParts
<1> HIDE DEF s, n
<1>2. b \in Nat /\ b <= n BY <1>1 DEF n, s
<1>3. DOMAIN r = 1 .. n - b /\ \A p \in 1 .. n - b : r[p] = s[b + p]
  BY <1>1, <1>2
<1> HIDE DEF r
<1>4. {r[p] : p \in 1 .. n - b} = {s[p] : p \in b + 1 .. n}
  <2>1. \A p \in 1 .. n - b : b + p \in b + 1 .. n BY <1>1, <1>2
  <2>2. \A p \in b + 1 .. n : p - b \in 1 .. n - b /\ b + (p - b) = p BY <1>1, <1>2
  <2>3. \A p \in b + 1 .. n : s[p] = r[p - b] BY <1>3, <2>2
  <2>4. QED BY <1>3, <2>1, <2>2, <2>3
<1>5. Above(st, b) = {r[p] : p \in 1 .. n - b} BY <1>3 DEF Above, Range, r, n, s
<1>6. QED BY <1>4, <1>5 DEF s, n

\* Where the last scope begins
LEMMA LastFrame ==
    ASSUME NEW t \in Table, NEW c, Frames(t, c), Len(c) > 0
    PROVE  /\ Last(c) = c[Len(c)] /\ Last(c) \in FrameType
           /\ Last(c).s \in 0 .. Len(t.stack["local"])
           /\ Last(c).l \in 0 .. Len(t.stack["local_label"])
           /\ \A sp \in Spaces : /\ (IF sp = "label" THEN Last(c).l ELSE Last(c).s) \in Begins(c)[sp]
                                 /\ \A b \in Begins(c)[sp] :
                                       b \in Nat /\ b <= IF sp = "label" THEN Last(c).l ELSE Last(c).s
<1>1. c \in Seq(FrameType) /\ Len(c) \in Nat /\ Len(c) \in 1 .. Len(c)
      /\ \A k \in 1 .. Len(c) : c[k].s \in Nat /\ c[k].l \in Nat /\ c[k] \in FrameType
  BY FramesParts DEF Frames
<1>2. Last(c) = c[Len(c)] BY <1>1 DEF Last
<1>3. /\ c[Len(c)].s \in 0 .. Len(t.stack["local"])
      /\ c[Len(c)].l \in 0 .. Len(t.stack["local_label"])
  BY <1>1 DEF Frames
<1>4. \A k \in 1 .. Len(c) : c[k].s <= c[Len(c)].s /\ c[k].l <= c[Len(c)].l
  <2>1. \A k \in 1 .. Len(c) : k <= Len(c) BY <1>1
  <2>2. QED BY <1>1, <2>1 DEF Frames
<1>5. ASSUME NEW sp \in Spaces
      PROVE  /\ (IF sp = "label" THEN c[Len(c)].l ELSE c[Len(c)].s) \in Begins(c)[sp]
             /\ \A b \in Begins(c)[sp] :
                   b \in Nat /\ b <= IF sp = "label" THEN c[Len(c)].l ELSE c[Len(c)].s
  BY <1>1, <1>4 DEF Begins
<1>6. QED BY <1>1, <1>2, <1>3, <1>5

\* The variables of the scopes that remain stay distinct: what is left on the stack
\* above them is only kept.
LEMMA AutosLeave ==
    ASSUME NEW t \in Table, NEW u \in Table, NEW g, NEW h, NEW c, Frames(t, c), Autos(t, g, c),
           Len(c) > 1, NEW b, b = c[Len(c)].s,
           Undisturbed(t, u, g, h, b), Len(u.stack["local"]) >= b,
           \A p \in b + 1 .. Len(u.stack["local"]) : u.stack["local"][p] \in h
    PROVE  Autos(u, h, Front(c))
<1> DEFINE d == Front(c)
<1>1. c \in Seq(FrameType) /\ Len(c) \in Nat /\ \A k \in 1 .. Len(c) : c[k].s \in Nat
  BY FramesParts DEF Frames
<1>2. Len(d) = Len(c) - 1 /\ \A k \in 1 .. Len(c) - 1 : d[k] = c[k]
  <2>1. c # <<>> BY <1>1
  <2>2. QED BY <1>1, <2>1 DEF Front
<1> HIDE DEF d
<1>3. b \in Nat
  <2>1. Len(c) \in 1 .. Len(c) BY <1>1
  <2>2. QED BY <1>1, <2>1
<1>4. "local" \in Stacks BY DEF Stacks
<1>5. Len(u.stack["local"]) \in Nat BY <1>4, TableParts
<1> SUFFICES ASSUME NEW k \in 1 .. Len(d)
             PROVE  Distinct(u, h, k, d[k].s, SegmentEnd(u, d, k))
  BY DEF Autos, d
<1>6. k \in 1 .. Len(c) /\ k + 1 \in 1 .. Len(c) /\ k # Len(c) /\ k \in 1 .. Len(c) - 1 BY <1>1, <1>2
<1>7. Distinct(t, g, k, c[k].s, c[k + 1].s) BY <1>6 DEF Autos, SegmentEnd
<1>8. c[k].s \in Nat /\ c[k + 1].s \in Nat /\ c[k + 1].s <= b
  <2>1. k + 1 <= Len(c) /\ Len(c) \in 1 .. Len(c) BY <1>1, <1>6
  <2>2. QED BY <1>1, <1>6, <2>1 DEF Frames
<1>9. Distinct(u, h, k, c[k].s, c[k + 1].s) BY <1>3, <1>7, <1>8, UndisturbedDistinct
<1>10. d[k].s = c[k].s BY <1>2, <1>6
<1>11. CASE k # Len(d)
  <2>1. k + 1 \in 1 .. Len(c) - 1 BY <1>1, <1>2, <1>6, <1>11
  <2>2. SegmentEnd(u, d, k) = c[k + 1].s BY <1>2, <1>11, <2>1 DEF SegmentEnd
  <2>3. QED BY <1>9, <1>10, <2>2
<1>12. CASE k = Len(d)
  <2>1. k + 1 = Len(c) BY <1>1, <1>2, <1>12
  <2>2. SegmentEnd(u, d, k) = Len(u.stack["local"]) /\ c[k + 1].s = b BY <1>12, <2>1 DEF SegmentEnd
  <2>3. Distinct(u, h, k, c[k].s, Len(u.stack["local"]))
    BY <1>3, <1>5, <1>8, <1>9, <2>2, DistinctShorter
  <2>4. QED BY <1>10, <2>2, <2>3
<1>13. QED BY <1>11, <1>12

\* The tables can be popped to where the remaining scopes begin.
LEMMA SoundLeave ==
    ASSUME NEW t, NEW g, NEW u, NEW c, Frames(u, c), Len(c) > 1, Sound(t, g, Begins(c))
    PROVE  Sound(t, g, Begins(Front(c)))
<1> DEFINE d == Front(c)
<1>1. c \in Seq(FrameType) /\ Len(c) \in Nat BY FramesParts DEF Frames
<1>2. Len(d) = Len(c) - 1 /\ \A k \in 1 .. Len(c) - 1 : d[k] = c[k]
  <2>1. c # <<>> BY <1>1
  <2>2. QED BY <1>1, <2>1 DEF Front
<1> HIDE DEF d
<1>3. ASSUME NEW sp \in Spaces, NEW b \in Begins(d)[sp]
      PROVE  b \in Begins(c)[sp]
  <2>1. PICK k \in 1 .. Len(d) : b = IF sp = "label" THEN d[k].l ELSE d[k].s BY DEF Begins
  <2>2. k \in 1 .. Len(c) /\ k \in 1 .. Len(c) - 1 BY <1>1, <1>2
  <2>3. b = IF sp = "label" THEN c[k].l ELSE c[k].s BY <1>2, <2>1, <2>2
  <2>4. QED BY <2>2, <2>3 DEF Begins
<1>4. QED BY <1>3, Bounds DEF d

\* A scope is left and its symbols are freed.
LEMMA TidyFreed ==
    ASSUME NEW t, NEW g, NEW c, Tidy(t, g, c), Len(c) > 1, NEW u, NEW h,
           Sound(u, h, Begins(c)), h = g \cap On(u),
           Len(u.stack["local"]) = Last(c).s, Len(u.stack["local_label"]) >= Last(c).l,
           StaysOn(u, t, "local")
    PROVE  Tidy(u, h, Front(c))
<1> DEFINE b == Last(c).s
<1>1. t \in Table /\ u \in Table /\ Frames(t, c) /\ Autos(t, g, c) BY DEF Tidy, Sound
<1>2. Len(c) > 0 /\ Len(c) \in Nat BY <1>1, FramesParts
<1>3. Last(c) = c[Len(c)] /\ b \in 0 .. Len(t.stack["local"]) /\ Last(c).l \in 0 .. Len(t.stack["local_label"])
  BY <1>1, <1>2, LastFrame
<1>4. "local" \in Stacks /\ "local_label" \in Stacks BY DEF Stacks
<1>5. /\ Len(t.stack["local"]) \in Nat /\ Len(t.stack["local_label"]) \in Nat
      /\ Len(u.stack["local"]) \in Nat /\ Len(u.stack["local_label"]) \in Nat
  BY <1>1, <1>4, TableParts
<1>6. Sound(u, h, Begins(Front(c))) BY <1>1, SoundLeave
<1>7. Frames(u, Front(c))
  <2>1. Len(u.stack["local"]) >= c[Len(c)].s /\ Len(u.stack["local_label"]) >= c[Len(c)].l
    BY <1>3, <1>5
  <2>2. QED BY <1>1, <2>1, FramesLeave
<1>8. Undisturbed(t, u, g, h, b)
  <2> SUFFICES ASSUME NEW p \in 1 .. b
               PROVE  LET i == t.stack["local"][p]
                      IN /\ u.stack["local"][p] = i /\ u.sym[i] = t.sym[i]
                         /\ i \in g => i \in h
    BY DEF Undisturbed
  <2>1. p \in 1 .. Len(u.stack["local"]) OBVIOUS
  <2>2. t.stack["local"][p] = u.stack["local"][p] /\ t.sym[u.stack["local"][p]] = u.sym[u.stack["local"][p]]
    BY <2>1 DEF StaysOn
  <2>3. u.stack["local"][p] \in On(u)
    <3>1. p \in DOMAIN u.stack["local"] BY <1>1, <1>4, <2>1, TableParts
    <3>2. QED BY <1>1, <1>4, <3>1, OnStacks
  <2>4. QED BY <2>2, <2>3
<1>9. Autos(u, h, Front(c))
  <2>1. b \in Nat /\ Len(u.stack["local"]) >= b BY <1>5
  <2>2. \A p \in b + 1 .. Len(u.stack["local"]) : FALSE BY <1>5
  <2>3. b = c[Len(c)].s BY <1>3
  <2> HIDE DEF b
  <2>4. QED BY <1>1, <1>8, <2>1, <2>2, <2>3, AutosLeave
<1>10. QED BY <1>6, <1>7, <1>9 DEF Tidy

\* What remains when a stack is popped is where it was.
LEMMA FreedStays ==
    ASSUME NEW t \in Table, NEW u, NEW st \in Stacks, NEW b \in 0 .. Len(t.stack[st]),
           Freed(t, u, st, b), NEW st2 \in Stacks
    PROVE  /\ StaysOn(u, t, st2)
           /\ Len(u.stack[st2]) = IF st2 = st THEN b ELSE Len(t.stack[st2])
<1>1. u \in Table BY DEF Freed
<1>2. /\ Len(u.stack[st2]) \in Nat /\ DOMAIN u.stack[st2] = 1 .. Len(u.stack[st2])
      /\ Len(t.stack[st2]) \in Nat /\ Len(t.stack[st]) \in Nat
  BY <1>1, TableParts
<1>3. Len(u.stack[st2]) = IF st2 = st THEN b ELSE Len(t.stack[st2]) BY DEF Freed
<1>4. \A p \in 1 .. Len(u.stack[st2]) : /\ t.stack[st2][p] = u.stack[st2][p]
                                        /\ t.sym[u.stack[st2][p]] = u.sym[u.stack[st2][p]]
  BY <1>2 DEF Freed
<1>5. Len(t.stack[st2]) >= Len(u.stack[st2]) BY <1>2, <1>3
<1>6. QED BY <1>3, <1>4, <1>5 DEF StaysOn

\* ... and nothing else is on the stacks.
LEMMA FreedOn ==
    ASSUME NEW t \in Table, NEW u, NEW st, NEW b, Freed(t, u, st, b)
    PROVE  On(u) \subseteq On(t)
<1>1. u \in Table BY DEF Freed
<1>2. ASSUME NEW i \in On(u) PROVE i \in On(t)
  <2>1. PICK st2 \in Stacks : \E p \in DOMAIN u.stack[st2] : i = u.stack[st2][p] BY <1>1, OnStacks
  <2>2. PICK p \in DOMAIN u.stack[st2] : i = u.stack[st2][p] BY <2>1
  <2>3. p \in DOMAIN t.stack[st2] /\ i = t.stack[st2][p] BY <2>2 DEF Freed
  <2>4. QED BY <2>3, OnStacks
<1>3. QED BY <1>2

\* A local stack is popped down to the beginning of the last scope.
LEMMA PopLocal ==
    ASSUME NEW t, NEW g, NEW B, Sound(t, g, B), NEW sp0 \in Spaces, NEW b \in 0 .. Len(Local(t, sp0)),
           \A sp \in Spaces : LocalStack(sp) = LocalStack(sp0) => b \in B[sp]
    PROVE  LET u == Pop(t, LocalStack(sp0), b, FALSE)
           IN Sound(u, g \cap On(u), B) /\ Freed(t, u, LocalStack(sp0), b)
<1> DEFINE u == Pop(t, LocalStack(sp0), b, FALSE)
<1>1. t \in Table /\ Apart(t) BY DEF Sound
<1>2. LocalStack(sp0) \in Stacks /\ FALSE \in BOOLEAN BY StackNames
<1>3. b \in 0 .. Len(t.stack[LocalStack(sp0)]) BY DEF Local
<1>4. Freed(t, u, LocalStack(sp0), b) BY <1>1, <1>2, <1>3, PopIs
<1> HIDE DEF u
<1>5. Sound(u, g \cap On(u), B) BY <1>4, LocalFreed
<1>6. QED BY <1>4, <1>5 DEF u

\* A global stack is emptied when the local one is empty.
LEMMA PopGlobal ==
    ASSUME NEW t, NEW g, NEW B, Sound(t, g, B), NEW sp0 \in Spaces,
           \A sp \in Spaces : GlobalStack(sp) = GlobalStack(sp0) => Len(Local(t, sp)) = 0
    PROVE  LET u == Pop(t, GlobalStack(sp0), 0, FALSE)
           IN Sound(u, g \cap On(u), B) /\ Freed(t, u, GlobalStack(sp0), 0)
<1> DEFINE u == Pop(t, GlobalStack(sp0), 0, FALSE)
<1>1. t \in Table /\ Apart(t) BY DEF Sound
<1>2. GlobalStack(sp0) \in Stacks /\ FALSE \in BOOLEAN BY StackNames
<1>3. 0 \in 0 .. Len(t.stack[GlobalStack(sp0)])
  <2>1. Len(t.stack[GlobalStack(sp0)]) \in Nat BY <1>1, <1>2, TableParts
  <2>2. QED BY <2>1
<1>4. Freed(t, u, GlobalStack(sp0), 0) BY <1>1, <1>2, <1>3, PopIs
<1> HIDE DEF u
<1>5. Sound(u, g \cap On(u), B) BY <1>4, GlobalFreed
<1>6. QED BY <1>4, <1>5 DEF u

\* u is what remains of t when the local stacks are popped to positions l and e.
Cut(t, u, l, e) ==
    \A st \in Stacks :
        /\ StaysOn(u, t, st)
        /\ Len(u.stack[st]) = IF st = "local" THEN e ELSE IF st = "local_label" THEN l
                              ELSE Len(t.stack[st])

\* A block that is no statement expression is left.
LEMMA PopBlock ==
    ASSUME NEW t, NEW g, NEW c, Tidy(t, g, c), Len(c) > 1
    PROVE  LET t1 == Pop(t, "local_label", Last(c).l, FALSE)
               u == Pop(t1, "local", Last(c).s, FALSE)
           IN Tidy(u, g \cap On(u), Front(c)) /\ Cut(t, u, Last(c).l, Last(c).s)
<1> DEFINE B == Begins(c)
           bl == Last(c).l
           bs == Last(c).s
           t1 == Pop(t, "local_label", bl, FALSE)
           g1 == g \cap On(t1)
           u == Pop(t1, "local", bs, FALSE)
<1>1. t \in Table /\ Frames(t, c) /\ Sound(t, g, B) BY DEF Tidy, Sound
<1>2. Len(c) > 0 /\ Len(c) \in Nat BY <1>1, FramesParts
<1>3. /\ bs \in 0 .. Len(t.stack["local"]) /\ bl \in 0 .. Len(t.stack["local_label"])
      /\ \A sp \in Spaces : (IF sp = "label" THEN bl ELSE bs) \in B[sp]
  BY <1>1, <1>2, LastFrame
<1> HIDE DEF B, bl, bs
<1>4. /\ "local" \in Stacks /\ "local_label" \in Stacks /\ "label" \in Spaces /\ "ident" \in Spaces
      /\ LocalStack("label") = "local_label" /\ LocalStack("ident") = "local"
      /\ \A sp \in Spaces : /\ LocalStack(sp) = "local_label" => sp = "label"
                            /\ LocalStack(sp) = "local" => sp # "label"
  BY DEF Stacks, Spaces, LocalStack
<1>5. Sound(t1, g1, B) /\ Freed(t, t1, "local_label", bl)
  <2>1. bl \in 0 .. Len(Local(t, "label")) BY <1>3, <1>4 DEF Local
  <2>2. \A sp \in Spaces : LocalStack(sp) = LocalStack("label") => bl \in B[sp] BY <1>3, <1>4
  <2>3. QED BY <1>1, <1>4, <2>1, <2>2, PopLocal
<1> HIDE DEF t1
<1>6. /\ StaysOn(t1, t, "local") /\ Len(t1.stack["local"]) = Len(t.stack["local"])
      /\ Len(t1.stack["local_label"]) = bl
  BY <1>1, <1>3, <1>4, <1>5, FreedStays
<1>7. t1 \in Table BY <1>5 DEF Sound
<1> HIDE DEF g1
<1>8. Sound(u, g1 \cap On(u), B) /\ Freed(t1, u, "local", bs)
  <2>1. bs \in 0 .. Len(Local(t1, "ident")) BY <1>3, <1>4, <1>6 DEF Local
  <2>2. \A sp \in Spaces : LocalStack(sp) = LocalStack("ident") => bs \in B[sp] BY <1>3, <1>4
  <2>3. QED BY <1>4, <1>5, <2>1, <2>2, PopLocal
<1> HIDE DEF u
<1>9. bs \in 0 .. Len(t1.stack["local"]) BY <1>3, <1>6
<1>10. /\ StaysOn(u, t1, "local") /\ Len(u.stack["local"]) = bs
       /\ Len(u.stack["local_label"]) = bl
  BY <1>4, <1>6, <1>7, <1>8, <1>9, FreedStays
<1>11. u \in Table BY <1>8 DEF Sound
<1>12. StaysOn(u, t, "local") BY <1>1, <1>4, <1>6, <1>7, <1>10, <1>11, StaysTransitive
<1>13. g1 \cap On(u) = g \cap On(u) BY <1>7, <1>8, FreedOn DEF g1
<1>14. Sound(u, g \cap On(u), B) BY <1>8, <1>13
<1>15. bl \in Nat BY <1>3
<1>16. Tidy(u, g \cap On(u), Front(c))
  <2>1. Len(u.stack["local_label"]) >= bl BY <1>10, <1>15
  <2>2. QED BY <1>10, <1>12, <1>14, <2>1, TidyFreed DEF B, bl, bs
<1>17. Cut(t, u, bl, bs)
  <2>1. bl \in 0 .. Len(t.stack["local_label"]) BY <1>3
  <2>2. ASSUME NEW st \in Stacks
        PROVE  /\ StaysOn(u, t, st)
               /\ Len(u.stack[st]) = IF st = "local" THEN bs ELSE IF st = "local_label" THEN bl
                                     ELSE Len(t.stack[st])
    <3>1. Freed(t, t1, "local_label", bl) /\ Freed(t1, u, "local", bs) BY <1>5, <1>8
    <3>2. /\ Len(t1.stack[st]) = IF st = "local_label" THEN bl ELSE Len(t.stack[st])
          /\ Len(u.stack[st]) = IF st = "local" THEN bs ELSE Len(t1.stack[st])
      BY <3>1 DEF Freed
    <3>3. StaysOn(t1, t, st) BY <1>1, <1>4, <2>1, <3>1, FreedStays
    <3>4. StaysOn(u, t1, st) BY <1>4, <1>7, <1>9, <3>1, FreedStays
    <3>5. StaysOn(u, t, st) BY <1>1, <1>7, <1>11, <3>3, <3>4, StaysTransitive
    <3>6. QED BY <3>2, <3>5
  <2>3. QED BY <2>2 DEF Cut
<1>18. QED BY <1>16, <1>17 DEF u, t1, bl, bs

\* A loop is left: its scope declares no labels.
LEMMA PopLoop ==
    ASSUME NEW t, NEW g, NEW c, Tidy(t, g, c), Len(c) > 1
    PROVE  LET u == Pop(t, "local", Last(c).s, FALSE)
           IN Tidy(u, g \cap On(u), Front(c)) /\ Cut(t, u, Len(t.stack["local_label"]), Last(c).s)
<1> DEFINE B == Begins(c)
           bl == Last(c).l
           bs == Last(c).s
           u == Pop(t, "local", bs, FALSE)
<1>1. t \in Table /\ Frames(t, c) /\ Sound(t, g, B) BY DEF Tidy, Sound
<1>2. Len(c) > 0 /\ Len(c) \in Nat BY <1>1, FramesParts
<1>3. /\ bs \in 0 .. Len(t.stack["local"]) /\ bl \in 0 .. Len(t.stack["local_label"])
      /\ \A sp \in Spaces : (IF sp = "label" THEN bl ELSE bs) \in B[sp]
  BY <1>1, <1>2, LastFrame
<1> HIDE DEF B, bl, bs
<1>4. /\ "local" \in Stacks /\ "local_label" \in Stacks /\ "ident" \in Spaces
      /\ LocalStack("ident") = "local"
      /\ \A sp \in Spaces : LocalStack(sp) = "local" => sp # "label"
  BY DEF Stacks, Spaces, LocalStack
<1>5. Sound(u, g \cap On(u), B) /\ Freed(t, u, "local", bs)
  <2>1. bs \in 0 .. Len(Local(t, "ident")) BY <1>3, <1>4 DEF Local
  <2>2. \A sp \in Spaces : LocalStack(sp) = LocalStack("ident") => bs \in B[sp] BY <1>3, <1>4
  <2>3. QED BY <1>1, <1>4, <2>1, <2>2, PopLocal
<1> HIDE DEF u
<1>6. /\ StaysOn(u, t, "local") /\ Len(u.stack["local"]) = bs
      /\ Len(u.stack["local_label"]) = Len(t.stack["local_label"])
  <2>1. ASSUME NEW st \in Stacks
        PROVE  StaysOn(u, t, st) /\ Len(u.stack[st]) = IF st = "local" THEN bs ELSE Len(t.stack[st])
    <3>1. t \in Table /\ "local" \in Stacks BY <1>1, <1>4
    <3>2. bs \in 0 .. Len(t.stack["local"]) BY <1>3
    <3>3. Freed(t, u, "local", bs) BY <1>5
    <3>4. Len(u.stack[st]) = IF st = "local" THEN bs ELSE Len(t.stack[st]) BY <3>3 DEF Freed
    <3>5. StaysOn(u, t, st) BY <3>1, <3>2, <3>3, FreedStays
    <3>6. QED BY <3>4, <3>5
  <2>2. QED BY <1>4, <2>1
<1>7. Len(u.stack["local_label"]) >= bl BY <1>3, <1>6
<1>8. Tidy(u, g \cap On(u), Front(c)) BY <1>5, <1>6, <1>7, TidyFreed DEF B, bl, bs
<1>9. Cut(t, u, Len(t.stack["local_label"]), bs)
  <2>1. ASSUME NEW st \in Stacks
        PROVE  /\ StaysOn(u, t, st)
               /\ Len(u.stack[st]) = IF st = "local" THEN bs ELSE Len(t.stack[st])
    <3>1. t \in Table /\ "local" \in Stacks /\ bs \in 0 .. Len(t.stack["local"]) BY <1>1, <1>3, <1>4
    <3>2. Freed(t, u, "local", bs) BY <1>5
    <3>3. Len(u.stack[st]) = IF st = "local" THEN bs ELSE Len(t.stack[st]) BY <3>2 DEF Freed
    <3>4. StaysOn(u, t, st) BY <3>1, <3>2, FreedStays
    <3>5. QED BY <3>3, <3>4
  <2>2. QED BY <2>1 DEF Cut
<1>10. QED BY <1>8, <1>9 DEF u, bs

\* The last scope begins at position b, and what is above it.
LastBegins(B, sp0, b) ==
    \A sp \in Spaces : LocalStack(sp) = LocalStack(sp0) =>
        b \in B[sp] /\ \A a \in B[sp] : a \in Nat /\ a <= b
SameSymbols(t, u) ==
    /\ \A st \in Stacks : u.stack[st] = t.stack[st]
    /\ \A j \in Syms : u.sym[j] = t.sym[j]
KeptAbove(t, sp0, b) == {Local(t, sp0)[p] : p \in b + 1 .. Len(Local(t, sp0))}

\* Keeping the symbols above position b of a local stack takes their names from
\* them, and nothing else.
LEMMA KeepLocal ==
    ASSUME NEW t, NEW g, NEW B, Sound(t, g, B), NEW sp0 \in Spaces, NEW b \in 0 .. Len(Local(t, sp0)),
           LastBegins(B, sp0, b)
    PROVE  LET u == Pop(t, LocalStack(sp0), b, TRUE)
           IN Sound(u, g \cup KeptAbove(t, sp0, b), B) /\ SameSymbols(t, u)
<1> DEFINE u == Pop(t, LocalStack(sp0), b, TRUE)
           h == g \cup KeptAbove(t, sp0, b)
<1>0. h = g \cup {Local(t, sp0)[p] : p \in b + 1 .. Len(Local(t, sp0))} BY DEF KeptAbove
<1>1. t \in Table /\ Apart(t) BY DEF Sound
<1>2. LocalStack(sp0) \in Stacks /\ TRUE \in BOOLEAN BY StackNames
<1>3. b \in 0 .. Len(t.stack[LocalStack(sp0)]) BY DEF Local
<1>4. /\ u \in Table /\ HeadsPopped(t, u, LocalStack(sp0), b)
      /\ \A st \in Stacks : u.stack[st] = t.stack[st]
      /\ \A j \in Syms : u.sym[j] = t.sym[j]
  BY <1>1, <1>2, <1>3, PopIs
<1> HIDE DEF u, h
<1>5. Sound(u, h, B) BY <1>0, <1>4, LocalKept DEF LastBegins
<1>6. QED BY <1>4, <1>5 DEF u, h, SameSymbols

\* A statement expression is left.
LEMMA KeepBlock ==
    ASSUME NEW t, NEW g, NEW c, Tidy(t, g, c), Len(c) > 1,
           NEW h, h = (g \cup {t.stack["local"][p] : p \in Last(c).s + 1 .. Len(t.stack["local"])})
                        \cup {t.stack["local_label"][p] :
                                 p \in Last(c).l + 1 .. Len(t.stack["local_label"])}
    PROVE  LET t1 == Pop(t, "local_label", Last(c).l, TRUE)
               u == Pop(t1, "local", Last(c).s, TRUE)
           IN Tidy(u, h, Front(c)) /\ u \in Table /\ SameSymbols(t, u)
<1> DEFINE B == Begins(c)
           bl == Last(c).l
           bs == Last(c).s
           t1 == Pop(t, "local_label", bl, TRUE)
           u == Pop(t1, "local", bs, TRUE)
           locals == {t.stack["local"][p] : p \in bs + 1 .. Len(t.stack["local"])}
           labels == {t.stack["local_label"][p] : p \in bl + 1 .. Len(t.stack["local_label"])}
<1>1. t \in Table /\ Frames(t, c) /\ Sound(t, g, B) /\ Autos(t, g, c) BY DEF Tidy, Sound
<1>2. Len(c) > 0 /\ Len(c) \in Nat BY <1>1, FramesParts
<1>3. /\ bs \in 0 .. Len(t.stack["local"]) /\ bl \in 0 .. Len(t.stack["local_label"])
      /\ Last(c) = c[Len(c)]
      /\ \A sp \in Spaces : /\ (IF sp = "label" THEN bl ELSE bs) \in B[sp]
                            /\ \A a \in B[sp] : a \in Nat /\ a <= IF sp = "label" THEN bl ELSE bs
  BY <1>1, <1>2, LastFrame
<1>4. bs = c[Len(c)].s /\ bl = c[Len(c)].l BY <1>3
<1>5. h = (g \cup labels) \cup locals OBVIOUS
<1> HIDE DEF B, bl, bs
<1>6. /\ "local" \in Stacks /\ "local_label" \in Stacks /\ "label" \in Spaces /\ "ident" \in Spaces
      /\ LocalStack("label") = "local_label" /\ LocalStack("ident") = "local"
      /\ \A sp \in Spaces : /\ LocalStack(sp) = "local_label" => sp = "label"
                            /\ LocalStack(sp) = "local" => sp # "label"
  BY DEF Stacks, Spaces, LocalStack
<1>7. /\ Sound(t1, g \cup labels, B)
      /\ \A st \in Stacks : t1.stack[st] = t.stack[st]
      /\ \A j \in Syms : t1.sym[j] = t.sym[j]
  <2>1. bl \in 0 .. Len(Local(t, "label")) BY <1>3, <1>6 DEF Local
  <2>2. LastBegins(B, "label", bl) BY <1>3, <1>6 DEF LastBegins
  <2>3. KeptAbove(t, "label", bl) = labels BY <1>6 DEF Local, KeptAbove
  <2>4. Sound(t1, g \cup KeptAbove(t, "label", bl), B) /\ SameSymbols(t, t1)
    BY <1>1, <1>6, <2>1, <2>2, KeepLocal
  <2>5. QED BY <2>3, <2>4 DEF SameSymbols
<1> HIDE DEF t1
<1>8. /\ Sound(u, h, B)
      /\ \A st \in Stacks : u.stack[st] = t1.stack[st]
      /\ \A j \in Syms : u.sym[j] = t1.sym[j]
  <2> DEFINE g1 == g \cup labels
  <2>1. t1.stack["local"] = t.stack["local"] BY <1>6, <1>7
  <2>2. bs \in 0 .. Len(Local(t1, "ident")) BY <1>3, <1>6, <2>1 DEF Local
  <2>3. LastBegins(B, "ident", bs) BY <1>3, <1>6 DEF LastBegins
  <2>4. KeptAbove(t1, "ident", bs) = locals BY <1>6, <2>1 DEF Local, KeptAbove
  <2>5. Sound(t1, g1, B) BY <1>7
  <2>6. h = g1 \cup locals BY <1>5
  <2> HIDE DEF g1
  <2>7. Sound(u, g1 \cup KeptAbove(t1, "ident", bs), B) /\ SameSymbols(t1, u)
    BY <1>6, <2>2, <2>3, <2>5, KeepLocal
  <2>8. QED BY <2>4, <2>6, <2>7 DEF SameSymbols
<1> HIDE DEF u
<1>9. u \in Table BY <1>8 DEF Sound
<1>10. u.stack["local"] = t.stack["local"] /\ u.stack["local_label"] = t.stack["local_label"]
  BY <1>6, <1>7, <1>8
<1>11. Len(t.stack["local"]) \in Nat /\ Len(t.stack["local_label"]) \in Nat
       /\ \A p \in 1 .. Len(t.stack["local"]) : t.stack["local"][p] \in Syms
  BY <1>1, <1>6, TableParts
<1>12. Frames(u, Front(c))
  <2>1. Len(u.stack["local"]) >= c[Len(c)].s /\ Len(u.stack["local_label"]) >= c[Len(c)].l
    BY <1>3, <1>4, <1>10, <1>11
  <2>2. QED BY <1>1, <1>9, <2>1, FramesLeave
<1>13. Sound(u, h, Begins(Front(c))) BY <1>1, <1>8, SoundLeave DEF B
<1>14. Undisturbed(t, u, g, h, bs)
  <2> SUFFICES ASSUME NEW p \in 1 .. bs
               PROVE  LET i == t.stack["local"][p]
                      IN /\ u.stack["local"][p] = i /\ u.sym[i] = t.sym[i]
                         /\ i \in g => i \in h
    BY DEF Undisturbed
  <2>1. p \in 1 .. Len(t.stack["local"]) BY <1>3, <1>11
  <2>2. t.stack["local"][p] \in Syms BY <1>11, <2>1
  <2>3. QED BY <1>5, <1>7, <1>8, <1>10, <2>2
<1>15. Autos(u, h, Front(c))
  <2>1. Len(u.stack["local"]) >= bs BY <1>3, <1>10, <1>11
  <2>2. \A p \in bs + 1 .. Len(u.stack["local"]) : u.stack["local"][p] \in h BY <1>5, <1>10
  <2>3. QED BY <1>1, <1>4, <1>9, <1>14, <2>1, <2>2, AutosLeave
<1>16. Tidy(u, h, Front(c)) BY <1>12, <1>13, <1>15 DEF Tidy
<1>17. SameSymbols(t, u) BY <1>7, <1>8 DEF SameSymbols
<1>18. QED BY <1>9, <1>16, <1>17 DEF u, t1, bl, bs

\* A block ends: labels first, then symbols, which a ({...}) keeps (prev_scope()).
LEMMA EndBlockStep ==
    ASSUME PlainDialects, IInv, UNCHANGED dialect, EndBlock
    PROVE  IInv'
<1> DEFINE f == Last(ctx)
<1>1. Len(ctx) > 1 /\ tab \in Table /\ Frames(tab, ctx) /\ Tidy(tab, gone, ctx)
  BY DEF EndBlock, IInv, Tidy, Sound
<1>2. Len(ctx) \in Nat /\ Len(ctx) > 0 /\ local_scope = Len(ctx) /\ Len(ctx) <= MaxDepth /\ MaxDepth \in Nat
  BY <1>1, FramesParts, Bounded DEF IInv
<1>3. f.keep \in BOOLEAN /\ f.s \in 0 .. Len(tab.stack["local"]) /\ f.l \in 0 .. Len(tab.stack["local_label"])
  BY <1>1, <1>2, LastFrame DEF FrameType
<1>4. CASE UndefinedLabel(tab, "local_label", f.l) BY <1>4, ErrorStep DEF EndBlock
<1>5. CASE ~UndefinedLabel(tab, "local_label", f.l)
  <2>1. /\ tab' = Pop(Pop(tab, "local_label", f.l, f.keep), "local", f.s, f.keep)
        /\ gone' = IF f.keep THEN gone \cup Above("local", f.s) \cup Above("local_label", f.l)
                   ELSE gone \cap On(tab')
        /\ local_scope' = local_scope - 1 /\ ctx' = Front(ctx)
    BY <1>5 DEF EndBlock
  <2>2. Tidy(tab', gone', ctx')
    <3>1. CASE f.keep = TRUE
      <4> DEFINE h == gone \cup Above("local", f.s) \cup Above("local_label", f.l)
      <4>1. h = (gone \cup {tab.stack["local"][p] : p \in Last(ctx).s + 1 .. Len(tab.stack["local"])})
                   \cup {tab.stack["local_label"][p] :
                            p \in Last(ctx).l + 1 .. Len(tab.stack["local_label"])}
        <5>1. "local" \in Stacks /\ "local_label" \in Stacks BY DEF Stacks
        <5>2. Above("local", f.s) = {tab.stack["local"][p] : p \in f.s + 1 .. Len(tab.stack["local"])}
          BY <1>1, <1>3, <5>1, AboveIs
        <5>3. Above("local_label", f.l) = {tab.stack["local_label"][p] :
                                              p \in f.l + 1 .. Len(tab.stack["local_label"])}
          BY <1>1, <1>3, <5>1, AboveIs
        <5>4. QED BY <5>2, <5>3
      <4>2. gone' = h /\ tab' = Pop(Pop(tab, "local_label", f.l, TRUE), "local", f.s, TRUE)
        BY <2>1, <3>1
      <4> HIDE DEF h
      <4>3. Tidy(Pop(Pop(tab, "local_label", f.l, TRUE), "local", f.s, TRUE), h, Front(ctx))
        BY <1>1, <4>1, KeepBlock
      <4>4. QED BY <2>1, <4>2, <4>3
    <3>2. CASE f.keep = FALSE
      <4> DEFINE u == Pop(Pop(tab, "local_label", f.l, FALSE), "local", f.s, FALSE)
      <4>1. tab' = u /\ gone' = gone \cap On(tab') BY <2>1, <3>2
      <4>2. Tidy(u, gone \cap On(u), Front(ctx)) BY <1>1, PopBlock
      <4> HIDE DEF u
      <4>3. QED BY <2>1, <4>1, <4>2
    <3>3. QED BY <1>3, <3>1, <3>2
  <2>3. Len(ctx') = Len(ctx) - 1
    <3>1. ctx \in Seq(FrameType) /\ ctx # <<>> BY <1>1, <1>2 DEF Frames
    <3>2. QED BY <1>2, <2>1, <3>1 DEF Front
  <2>4. local_scope' = Len(ctx') /\ Len(ctx') <= MaxDepth BY <1>2, <2>1, <2>3
  <2>5. QED BY <2>2, <2>4, IInvAfter
<1>6. QED BY <1>4, <1>5

\* A for statement ends.
LEMMA EndForStep ==
    ASSUME IInv, UNCHANGED dialect, EndFor
    PROVE  IInv'
<1> DEFINE u == Pop(tab, "local", Last(ctx).s, FALSE)
<1>1. tab \in Table /\ Frames(tab, ctx) /\ Tidy(tab, gone, ctx) BY DEF IInv, Tidy, Sound
<1>2. /\ tab' = u /\ gone' = gone \cap On(tab')
      /\ local_scope' = local_scope - 1 /\ ctx' = Front(ctx)
      /\ InFunction /\ Last(ctx).loop
  BY DEF EndFor
<1>3. Len(ctx) \in Nat /\ Len(ctx) > 0 /\ local_scope = Len(ctx) /\ Len(ctx) <= MaxDepth /\ MaxDepth \in Nat
  BY <1>2, DepthIs, Bounded DEF IInv
<1>4. Len(ctx) > 1
  <2>1. Last(ctx) = ctx[Len(ctx)] BY <1>1, <1>3, LastFrame
  <2>2. ~ctx[1].loop BY <1>1, <1>3 DEF Frames
  <2>3. Len(ctx) # 1 BY <1>2, <2>1, <2>2
  <2>4. QED BY <1>3, <2>3
<1>5. Tidy(u, gone \cap On(u), Front(ctx)) BY <1>1, <1>4, PopLoop
<1> HIDE DEF u
<1>6. Tidy(tab', gone', ctx') BY <1>2, <1>5
<1>7. Len(ctx') = Len(ctx) - 1
  <2>1. ctx \in Seq(FrameType) /\ ctx # <<>> BY <1>1, <1>3 DEF Frames
  <2>2. QED BY <1>2, <1>3, <2>1 DEF Front
<1>8. local_scope' = Len(ctx') /\ Len(ctx') <= MaxDepth BY <1>2, <1>3, <1>7
<1>9. QED BY <1>6, <1>8, IInvAfter

\* Tables whose local stacks are empty are those of the file.
LEMMA TidyFile ==
    ASSUME NEW t, NEW g, NEW B, Sound(t, g, B),
           Len(t.stack["local"]) = 0, Len(t.stack["local_label"]) = 0
    PROVE  Tidy(t, g, <<>>)
<1>1. <<>> \in Seq(FrameType) /\ Len(<<>>) = 0 OBVIOUS
<1>2. \A k \in 1 .. 0 : FALSE OBVIOUS
<1>3. \A k \in 2 .. 0 : FALSE OBVIOUS
<1>4. Frames(t, <<>>) BY <1>1, <1>2, <1>3 DEF Frames
<1>5. Autos(t, g, <<>>) BY <1>1, <1>2 DEF Autos
<1>6. Sound(t, g, Begins(<<>>))
  <2>1. \A sp \in Spaces : Begins(<<>>)[sp] = {} BY <1>1, <1>2 DEF Begins
  <2> DEFINE C == Begins(<<>>)
  <2>2. \A sp \in Spaces : \A b \in C[sp] : b \in B[sp] \/ b = Len(Local(t, sp)) BY <2>1
  <2> HIDE DEF C
  <2>3. Sound(t, g, C) BY <2>2, Bounds
  <2>4. QED BY <2>3 DEF C
<1>7. QED BY <1>4, <1>5, <1>6 DEF Tidy

\* The stacks of a function are emptied: local labels, labels of the function, and
\* what was kept.
LEMMA PopFunction ==
    ASSUME NEW t, NEW g, NEW c, Tidy(t, g, c), Len(c) = 1
    PROVE  LET t1 == Pop(t, "local_label", 0, FALSE)
               t2 == Pop(t1, "global_label", 0, FALSE)
               u == Pop(t2, "local", 0, FALSE)
           IN /\ Tidy(u, g \cap On(u), <<>>)
              /\ \A st \in Stacks : StaysOn(u, t, st)
              /\ \A st \in Stacks : Len(u.stack[st]) = IF st = "global" THEN Len(t.stack[st]) ELSE 0
<1> DEFINE B == Begins(c)
           t1 == Pop(t, "local_label", 0, FALSE)
           g1 == g \cap On(t1)
           t2 == Pop(t1, "global_label", 0, FALSE)
           g2 == g1 \cap On(t2)
           u == Pop(t2, "local", 0, FALSE)
<1>1. t \in Table /\ Frames(t, c) /\ Sound(t, g, B) BY DEF Tidy, Sound
<1>2. \A sp \in Spaces : 0 \in B[sp]
  <2>1. 1 \in 1 .. Len(c) /\ Len(c) > 0 OBVIOUS
  <2>2. c[1].s = 0 /\ c[1].l = 0 BY <1>1, <2>1 DEF Frames
  <2>3. QED BY <2>1, <2>2 DEF Begins
<1> HIDE DEF B
<1>3. /\ "local" \in Stacks /\ "local_label" \in Stacks /\ "global_label" \in Stacks
      /\ "label" \in Spaces /\ "ident" \in Spaces
      /\ LocalStack("label") = "local_label" /\ LocalStack("ident") = "local"
      /\ GlobalStack("label") = "global_label"
      /\ \A sp \in Spaces : GlobalStack(sp) = "global_label" => LocalStack(sp) = "local_label"
  BY DEF Stacks, Spaces, LocalStack, GlobalStack
<1>4. Sound(t1, g1, B) /\ Freed(t, t1, "local_label", 0)
  <2>1. Len(Local(t, "label")) \in Nat BY <1>1, <1>3, LocalParts
  <2>2. 0 \in 0 .. Len(Local(t, "label")) BY <2>1
  <2>3. \A sp \in Spaces : LocalStack(sp) = LocalStack("label") => 0 \in B[sp] BY <1>2
  <2>4. QED BY <1>1, <1>3, <2>2, <2>3, PopLocal
<1> HIDE DEF t1
<1>5. Len(t1.stack["local_label"]) = 0 BY <1>3, <1>4 DEF Freed
<1>6. t1 \in Table BY <1>4 DEF Sound
<1> HIDE DEF g1
<1>7. Sound(t2, g2, B) /\ Freed(t1, t2, "global_label", 0)
  <2>1. \A sp \in Spaces : GlobalStack(sp) = GlobalStack("label") => Len(Local(t1, sp)) = 0
    BY <1>3, <1>5 DEF Local
  <2>2. QED BY <1>3, <1>4, <2>1, PopGlobal
<1> HIDE DEF t2
<1>8. Len(t2.stack["local_label"]) = 0 BY <1>3, <1>5, <1>7 DEF Freed
<1>9. t2 \in Table BY <1>7 DEF Sound
<1> HIDE DEF g2
<1>10. Sound(u, g2 \cap On(u), B) /\ Freed(t2, u, "local", 0)
  <2>1. Len(Local(t2, "ident")) \in Nat BY <1>3, <1>9, LocalParts
  <2>2. 0 \in 0 .. Len(Local(t2, "ident")) BY <2>1
  <2>3. \A sp \in Spaces : LocalStack(sp) = LocalStack("ident") => 0 \in B[sp] BY <1>2
  <2>4. QED BY <1>3, <1>7, <2>2, <2>3, PopLocal
<1> HIDE DEF u
<1>11. u \in Table /\ Len(u.stack["local"]) = 0 /\ Len(u.stack["local_label"]) = 0
  BY <1>3, <1>8, <1>10 DEF Freed
<1>12. g2 \cap On(u) = g \cap On(u)
  <2>1. On(u) \subseteq On(t2) BY <1>9, <1>10, FreedOn
  <2>2. On(t2) \subseteq On(t1) BY <1>6, <1>7, FreedOn
  <2>3. QED BY <2>1, <2>2 DEF g1, g2
<1>13. Tidy(u, g \cap On(u), <<>>) BY <1>10, <1>11, <1>12, TidyFile
<1>14. ASSUME NEW st \in Stacks PROVE StaysOn(u, t, st)
  <2>1. \A w \in Table : \A st2 \in Stacks : 0 \in 0 .. Len(w.stack[st2]) BY TableParts
  <2>2. StaysOn(t1, t, st) BY <1>1, <1>3, <1>4, <2>1, FreedStays
  <2>3. StaysOn(t2, t1, st) BY <1>3, <1>6, <1>7, <2>1, FreedStays
  <2>4. StaysOn(u, t2, st) BY <1>3, <1>9, <1>10, <2>1, FreedStays
  <2>5. StaysOn(t2, t, st) BY <1>1, <1>6, <1>9, <2>2, <2>3, StaysTransitive
  <2>6. QED BY <1>1, <1>9, <1>11, <2>4, <2>5, StaysTransitive
<1>15. ASSUME NEW st \in Stacks PROVE Len(u.stack[st]) = IF st = "global" THEN Len(t.stack[st]) ELSE 0
  <2>1. Len(t1.stack[st]) = IF st = "local_label" THEN 0 ELSE Len(t.stack[st]) BY <1>4 DEF Freed
  <2>2. Len(t2.stack[st]) = IF st = "global_label" THEN 0 ELSE Len(t1.stack[st]) BY <1>7 DEF Freed
  <2>3. Len(u.stack[st]) = IF st = "local" THEN 0 ELSE Len(t2.stack[st]) BY <1>10 DEF Freed
  <2>4. st \in {"global", "local", "global_label", "local_label"} BY DEF Stacks
  <2>5. QED BY <2>1, <2>2, <2>3, <2>4
<1>16. QED BY <1>13, <1>14, <1>15 DEF u, t2, t1

\* A function ends.
LEMMA EndFunctionStep ==
    ASSUME PlainDialects, IInv, UNCHANGED dialect, EndFunction
    PROVE  IInv'
<1> DEFINE u == Pop(Pop(Pop(tab, "local_label", 0, FALSE), "global_label", 0, FALSE), "local", 0, FALSE)
<1>1. CASE UndefinedLabel(tab, "local_label", 0) \/ UndefinedLabel(tab, "global_label", 0)
  BY <1>1, ErrorStep DEF EndFunction
<1>2. CASE ~(UndefinedLabel(tab, "local_label", 0) \/ UndefinedLabel(tab, "global_label", 0))
  <2>1. /\ tab' = u /\ gone' = gone \cap On(tab') /\ local_scope' = 0 /\ ctx' = <<>>
        /\ Len(ctx) = 1
    BY <1>2 DEF EndFunction
  <2>2. Tidy(u, gone \cap On(u), <<>>) BY <2>1, PopFunction DEF IInv
  <2> HIDE DEF u
  <2>3. Tidy(tab', gone', ctx') BY <2>1, <2>2
  <2>4. local_scope' = Len(ctx') /\ Len(ctx') <= MaxDepth
    <3>1. Len(<<>>) = 0 /\ 0 <= MaxDepth BY Bounded
    <3>2. QED BY <2>1, <3>1
  <2>5. QED BY <2>3, <2>4, IInvAfter
<1>3. QED BY <1>1, <1>2

\* The file ends (tccgen_finish()).
LEMMA EndFileStep ==
    ASSUME IInv, UNCHANGED dialect, EndFile
    PROVE  IInv'
<1> DEFINE B == [sp \in Spaces |-> {0}]
           t1 == Pop(tab, "global", 0, FALSE)
           u == Pop(t1, "local", 0, FALSE)
<1>1. /\ tab' = u /\ gone' = gone /\ ctx' = ctx /\ ctx = <<>> /\ local_scope' = local_scope
  BY DEF EndFile
<1>2. Len(ctx) = 0 /\ gone = {}
  <2>1. Len(ctx) = 0 BY <1>1
  <2>2. QED BY <2>1, DepthIs
<1>3. tab \in Table /\ Frames(tab, ctx) /\ Sound(tab, gone, Begins(ctx)) BY DEF IInv, Tidy, Sound
<1>4. Len(tab.stack["local"]) = 0 /\ Len(tab.stack["local_label"]) = 0 BY <1>2, <1>3 DEF Frames
<1>5. \A sp \in Spaces : Len(Local(tab, sp)) = 0 BY <1>4 DEF Local, LocalStack
<1>6. \A sp \in Spaces : B[sp] = {0} OBVIOUS
<1> HIDE DEF B
<1>7. Sound(tab, gone, B) BY <1>3, <1>5, <1>6, Bounds
<1>8. /\ "local" \in Stacks /\ "local_label" \in Stacks /\ "global" \in Stacks /\ "ident" \in Spaces
      /\ LocalStack("ident") = "local" /\ GlobalStack("ident") = "global"
  BY DEF Stacks, Spaces, LocalStack, GlobalStack
<1>9. Sound(t1, gone \cap On(t1), B) /\ Freed(tab, t1, "global", 0)
  <2>1. \A sp \in Spaces : GlobalStack(sp) = GlobalStack("ident") => Len(Local(tab, sp)) = 0 BY <1>5
  <2>2. QED BY <1>7, <1>8, <2>1, PopGlobal
<1> HIDE DEF t1
<1>10. t1 \in Table /\ gone \cap On(t1) = {} BY <1>2, <1>9 DEF Sound
<1>11. Len(t1.stack["local"]) = 0 /\ Len(t1.stack["local_label"]) = 0 BY <1>4, <1>8, <1>9 DEF Freed
<1>12. Sound(u, {} \cap On(u), B) /\ Freed(t1, u, "local", 0)
  <2>1. 0 \in 0 .. Len(Local(t1, "ident")) BY <1>8, <1>11 DEF Local
  <2>2. \A sp \in Spaces : LocalStack(sp) = LocalStack("ident") => 0 \in B[sp] BY <1>6
  <2>3. Sound(t1, {}, B) BY <1>9, <1>10
  <2>4. QED BY <1>8, <2>1, <2>2, <2>3, PopLocal
<1> HIDE DEF u
<1>13. Len(u.stack["local"]) = 0 /\ Len(u.stack["local_label"]) = 0 BY <1>8, <1>11, <1>12 DEF Freed
<1>14. Sound(u, {}, B) BY <1>12
<1>15. Tidy(u, {}, <<>>) BY <1>13, <1>14, TidyFile
<1>16. Tidy(tab', gone', ctx') BY <1>1, <1>2, <1>15
<1>17. local_scope' = Len(ctx') /\ Len(ctx') <= MaxDepth BY <1>1 DEF IInv
<1>18. QED BY <1>16, <1>17, IInvAfter DEF EndFile

-----------------------------------------------------------------------------
(* The theorems *)

\* The empty tables are tidy.
LEMMA IInvInit == Init => IInv
<1> SUFFICES ASSUME Init PROVE IInv OBVIOUS
<1>1. dialect \in Dialects /\ tab = NoTable /\ local_scope = 0 /\ ctx = <<>> /\ gone = {} BY DEF Init
<1>2. Tidy(tab, gone, ctx) BY <1>1, TidyStart
<1>3. local_scope = Len(ctx) /\ Len(ctx) <= MaxDepth
  <2>1. Len(<<>>) = 0 /\ 0 <= MaxDepth BY Bounded
  <2>2. QED BY <1>1, <2>1
<1>4. QED BY <1>1, <1>2, <1>3 DEF IInv

\* Every step keeps the invariant.
LEMMA IInvNext ==
    ASSUME PlainDialects, IInv, [Next]_vars
    PROVE  IInv'
<1>1. CASE UNCHANGED vars
  <2>1. /\ UNCHANGED dialect /\ tab' = tab /\ gone' = gone /\ ctx' = ctx /\ local_scope' = local_scope
    BY <1>1 DEF vars
  <2>2. Tidy(tab', gone', ctx') BY <2>1 DEF IInv
  <2>3. local_scope' = Len(ctx') /\ Len(ctx') <= MaxDepth BY <2>1 DEF IInv
  <2>4. QED BY <2>1, <2>2, <2>3, IInvAfter
<1>2. CASE Next
  <2>1. UNCHANGED dialect BY <1>2 DEF Next
  <2>2. CASE SyntaxError BY <2>1, <2>2, ErrorStep DEF SyntaxError
  <2>3. CASE EndFile BY <2>1, <2>3, EndFileStep
  <2>4. CASE Variable BY <2>1, <2>4, VariableStep
  <2>5. CASE Typedef BY <2>1, <2>5, TypedefStep
  <2>6. CASE Enumerator BY <2>1, <2>6, EnumeratorStep
  <2>7. CASE External BY <2>1, <2>7, ExternalStep
  <2>8. CASE Function BY <2>1, <2>8, FunctionStep
  <2>9. CASE Tag BY <2>1, <2>9, TagStep
  <2>10. CASE Goto BY <2>1, <2>10, GotoStep
  <2>11. CASE Label BY <2>1, <2>11, LabelStep
  <2>12. CASE BeginFunction BY <2>1, <2>12, BeginFunctionStep
  <2>13. CASE BeginBlock BY <2>1, <2>13, BeginBlockStep
  <2>14. CASE BeginFor BY <2>1, <2>14, BeginForStep
  <2>15. CASE EndBlock BY <2>1, <2>15, EndBlockStep
  <2>16. CASE EndFor BY <2>1, <2>16, EndForStep
  <2>17. CASE EndFunction BY <2>1, <2>17, EndFunctionStep
  <2>18. QED
    BY <1>2, <2>2, <2>3, <2>4, <2>5, <2>6, <2>7, <2>8, <2>9, <2>10, <2>11, <2>12, <2>13, <2>14,
       <2>15, <2>16, <2>17 DEF Next
<1>3. QED BY <1>1, <1>2

\* The invariant holds of all programs.
THEOREM TablesSound ==
    ASSUME PlainDialects
    PROVE  Spec => []IInv
<1>1. Init => IInv BY IInvInit
<1>2. IInv /\ [Next]_vars => IInv' BY IInvNext
<1>3. QED BY <1>1, <1>2, PTL DEF Spec

\* The tables, the scopes and the parser's frames keep their types, and only local
\* symbols are kept after a ({...}) (sym_pop() with keep, tccgen.c).
THEOREM TypeCorrect ==
    ASSUME PlainDialects
    PROVE  Spec => []TypeOK
<1>1. ASSUME IInv PROVE TypeOK
  <2>1. tab \in Table /\ GoneLocal(tab, gone) BY <1>1 DEF IInv, Tidy, Sound
  <2>2. /\ tab.sym \in [Syms -> SymType] /\ tab.stack \in [Stacks -> Seq(Syms)]
        /\ tab.head \in [Spaces -> [Names -> Syms \cup {NULL}]]
    BY <2>1 DEF Table
  <2>3. "local" \in Stacks /\ "local_label" \in Stacks BY DEF Stacks
  <2>4. ASSUME NEW st \in Stacks, NEW p \in DOMAIN tab.stack[st]
        PROVE  tab.stack[st][p] \in Above(st, 0)
    <3>1. Len(tab.stack[st]) \in Nat /\ DOMAIN tab.stack[st] = 1 .. Len(tab.stack[st]) BY <2>1, TableParts
    <3>2. 0 \in 0 .. Len(tab.stack[st]) /\ 0 + 1 = 1 BY <3>1
    <3>3. Above(st, 0) = {tab.stack[st][q] : q \in 0 + 1 .. Len(tab.stack[st])} BY <2>1, <3>2, AboveIs
    <3>4. QED BY <3>1, <3>2, <3>3
  <2>5. gone \subseteq Above("local", 0) \cup Above("local_label", 0)
    <3>1. ASSUME NEW i \in gone PROVE i \in Above("local", 0) \cup Above("local_label", 0)
      <4>1. PICK sp \in Spaces : \E p \in DOMAIN Local(tab, sp) : i = Local(tab, sp)[p] BY <2>1 DEF GoneLocal
      <4>2. PICK p \in DOMAIN Local(tab, sp) : i = Local(tab, sp)[p] BY <4>1
      <4>3. CASE sp = "label" BY <2>3, <2>4, <4>2, <4>3 DEF Local, LocalStack
      <4>4. CASE sp # "label" BY <2>3, <2>4, <4>2, <4>4 DEF Local, LocalStack
      <4>5. QED BY <4>3, <4>4
    <3>2. QED BY <3>1
  <2>6. local_scope = Len(ctx) /\ Len(ctx) <= MaxDepth BY <1>1 DEF IInv
  <2>7. QED BY <2>2, <2>5, <2>6 DEF TypeOK
<1>2. Spec => []IInv BY TablesSound
<1>3. QED BY <1>1, <1>2, PTL

\* No name leads to a symbol that has been popped, in whatever order the stacks are
\* emptied (sym_pop(), label_pop()).
THEOREM NoStaleSymbols ==
    ASSUME PlainDialects
    PROVE  Spec => []LiveOnly
<1>1. ASSUME IInv PROVE LiveOnly
  <2>1. Sound(tab, gone, Begins(ctx)) BY <1>1 DEF IInv, Tidy
  <2> SUFFICES ASSUME NEW sp \in Spaces, NEW v \in Names, NEW i \in Chain(tab, sp, v)
               PROVE  i \in On(tab) /\ tab.sym[i].v = v /\ tab.sym[i].sp = sp
    BY DEF LiveOnly
  <2>2. i \in On(tab) /\ Declares(tab, i, sp, v) BY <2>1, SoundChains
  <2>3. QED BY <2>2 DEF Declares
<1>2. Spec => []IInv BY TablesSound
<1>3. QED BY <1>1, <1>2, PTL

\* A global symbol is found as soon as the local ones of its name are gone, also if
\* it was pushed while these were in scope (global_identifier_push(), label_push()).
THEOREM GlobalsReappear ==
    ASSUME PlainDialects
    PROVE  Spec => []GlobalReappears
<1>1. ASSUME IInv PROVE GlobalReappears
  <2>1. Sound(tab, gone, Begins(ctx)) /\ tab \in Table /\ Kinds(tab) BY <1>1 DEF IInv, Tidy, Sound
  <2> SUFFICES ASSUME NEW st \in {"global", "global_label"}, NEW i \in Above(st, 0)
               PROVE  i \in Chain(tab, tab.sym[i].sp, tab.sym[i].v)
    BY DEF GlobalReappears
  <2>2. st \in Stacks BY DEF Stacks
  <2>3. PICK p \in DOMAIN tab.stack[st] : i = tab.stack[st][p]
    <3>1. Len(tab.stack[st]) \in Nat /\ DOMAIN tab.stack[st] = 1 .. Len(tab.stack[st])
      BY <2>1, <2>2, TableParts
    <3>2. 0 \in 0 .. Len(tab.stack[st]) /\ 0 + 1 = 1 BY <3>1
    <3>3. Above(st, 0) = {tab.stack[st][q] : q \in 0 + 1 .. Len(tab.stack[st])}
      BY <2>1, <2>2, <3>2, AboveIs
    <3>4. QED BY <3>1, <3>2, <3>3
  <2> DEFINE s == tab.sym[i]
  <2>4. s \in SymType /\ s.sp \in Spaces BY <2>1, <2>2, <2>3, TableParts, SymFields
  <2>5. s.v \in Names /\ st \in {LocalStack(s.sp), GlobalStack(s.sp)}
    <3>1. st # "local" OBVIOUS
    <3>2. QED BY <2>1, <2>2, <2>3, <3>1 DEF Kinds
  <2>6. st = GlobalStack(s.sp)
    <3>1. LocalStack(s.sp) \in {"local", "local_label"} BY <2>4, StackNames
    <3>2. QED BY <2>5, <3>1
  <2>7. p \in DOMAIN Global(tab, s.sp) /\ Global(tab, s.sp)[p] = i BY <2>3, <2>6 DEF Global
  <2>8. Declares(tab, Global(tab, s.sp)[p], s.sp, s.v) BY <2>7 DEF Declares
  <2>9. Global(tab, s.sp)[p] \in Chain(tab, s.sp, s.v) BY <2>1, <2>4, <2>5, <2>7, <2>8, SoundGlobals
  <2>10. QED BY <2>7, <2>9
<1>2. Spec => []IInv BY TablesSound
<1>3. QED BY <1>1, <1>2, PTL

\* No scope declares an automatic variable twice: comparing the number of the scope
\* with that of the hidden symbol is enough (sym_push(), tccgen.c).
THEOREM DeclaredOnce ==
    ASSUME PlainDialects
    PROVE  Spec => []NoDuplicates
<1>1. ASSUME IInv PROVE NoDuplicates
  <2>1. tab \in Table /\ Frames(tab, ctx) /\ Autos(tab, gone, ctx) BY <1>1 DEF IInv, Tidy, Sound
  <2> SUFFICES ASSUME NEW k \in DOMAIN ctx
               PROVE  LET end == IF k = Len(ctx) THEN Len(tab.stack["local"]) ELSE ctx[k + 1].s
                          here == {tab.stack["local"][i] : i \in ctx[k].s + 1 .. end} \ gone
                      IN \A i, j \in here : tab.sym[i].v = tab.sym[j].v /\ tab.sym[i].r = "auto"
                                            /\ tab.sym[j].r = "auto" => i = j
    BY DEF NoDuplicates
  <2> DEFINE e == SegmentEnd(tab, ctx, k)
             b == ctx[k].s
  <2>2. k \in 1 .. Len(ctx) BY <2>1, FramesParts
  <2>3. Distinct(tab, gone, k, b, e) BY <2>1, <2>2 DEF Autos
  <2>4. b \in Nat /\ e \in Nat BY <2>1, <2>2, SegmentIs
  <2> HIDE DEF e, b
  <2>5. ASSUME NEW p \in b + 1 .. e, NEW q \in b + 1 .. e,
               tab.stack["local"][p] \notin gone, tab.stack["local"][q] \notin gone,
               tab.sym[tab.stack["local"][p]].v = tab.sym[tab.stack["local"][q]].v,
               tab.sym[tab.stack["local"][p]].r = "auto", tab.sym[tab.stack["local"][q]].r = "auto"
        PROVE  ~(p < q)
    <3> SUFFICES ASSUME p < q PROVE FALSE OBVIOUS
    <3>1. q \in p + 1 .. e BY <2>4
    <3>2. tab.sym[tab.stack["local"][q]].sp = "ident" BY <2>3, <2>5 DEF Distinct
    <3>3. ~Declares(tab, tab.stack["local"][q], "ident", tab.sym[tab.stack["local"][p]].v)
      BY <2>3, <2>5, <3>1 DEF Distinct
    <3>4. QED BY <2>5, <3>2, <3>3 DEF Declares
  <2>6. ASSUME NEW p \in b + 1 .. e, NEW q \in b + 1 .. e,
               tab.stack["local"][p] \notin gone, tab.stack["local"][q] \notin gone,
               tab.sym[tab.stack["local"][p]].v = tab.sym[tab.stack["local"][q]].v,
               tab.sym[tab.stack["local"][p]].r = "auto", tab.sym[tab.stack["local"][q]].r = "auto"
        PROVE  p = q
    <3>1. ~(p < q) /\ ~(q < p) BY <2>5, <2>6
    <3>2. QED BY <2>4, <3>1
  <2>7. QED BY <2>6 DEF e, b, SegmentEnd
<1>2. Spec => []IInv BY TablesSound
<1>3. QED BY <1>1, <1>2, PTL

=============================================================================
