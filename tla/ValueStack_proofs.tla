--------------------------- MODULE ValueStack_proofs ---------------------------
(***************************************************************************)
(* Proofs about ValueStack, for every language, any words and registers:   *)
(* each jump whose target is not yet known is in exactly one chain         *)
(* (JumpsPatchedOnce), and a statement leaves an empty stack and no such   *)
(* jump (FunctionsComplete).                                               *)
(*                                                                         *)
(* The invariant, Ok, says what every operator that waits for an operand   *)
(* accounts for: some entries of the stack, some chains, and whether it    *)
(* suppresses code.  The chains are disjoint; with those of the entries    *)
(* they are all open jumps.  While no code is generated, the entries above *)
(* a mark d have no jumps, since none can be resolved there: d is where    *)
(* the stack ended when the code was first suppressed.                     *)
(***************************************************************************)
EXTENDS ValueStack, SequenceTheorems, FiniteSetTheorems, Loops_proofs

-----------------------------------------------------------------------------
(* Sequences                                                               *)

\* v is a sequence, written out: its elements are v[1] to v[Len(v)].
IsList(v) == Len(v) \in Nat /\ v = [i \in 1 .. Len(v) |-> v[i]]

\* A list is a sequence of its elements.
LEMMA ListIsSeq == ASSUME NEW v, IsList(v) PROVE v \in Seq({v[i] : i \in 1 .. Len(v)})
<1> DEFINE n == Len(v)
           S == {v[i] : i \in 1 .. Len(v)}
<1>1. v \in [1 .. n -> S] BY DEF IsList
<1>2. QED BY <1>1, SeqDef DEF IsList

\* Any sequence is one.
LEMMA SeqIsList == ASSUME NEW S, NEW v \in Seq(S) PROVE IsList(v)
BY LenProperties DEF IsList

\* One more element
LEMMA Longer ==
    ASSUME NEW v, IsList(v), NEW e
    PROVE  LET w == Append(v, e)
           IN  /\ IsList(w) /\ Len(w) = Len(v) + 1 /\ w[Len(v) + 1] = e
               /\ \A i \in 1 .. Len(v) : w[i] = v[i]
<1> DEFINE S == {v[i] : i \in 1 .. Len(v)} \cup {e}
<1>1. v \in Seq(S)
  <2>1. v \in [1 .. Len(v) -> S] BY DEF IsList
  <2>2. QED BY <2>1, SeqDef DEF IsList
<1>2. e \in S OBVIOUS
<1> HIDE DEF S
<1>3. Append(v, e) \in Seq(S) BY <1>1, <1>2
<1>4. Len(Append(v, e)) = Len(v) + 1 /\ Append(v, e)[Len(v) + 1] = e
      /\ \A i \in 1 .. Len(v) : Append(v, e)[i] = v[i]
  BY <1>1, <1>2
<1>5. QED BY <1>3, <1>4, SeqIsList

\* One element less
LEMMA Shorter ==
    ASSUME NEW v, IsList(v), Len(v) >= 1
    PROVE  /\ IsList(Front(v)) /\ Len(Front(v)) = Len(v) - 1
           /\ \A i \in 1 .. Len(v) - 1 : Front(v)[i] = v[i]
<1> DEFINE S == {v[i] : i \in 1 .. Len(v)}
           n == Len(v) - 1
<1>1. Len(v) \in Nat BY DEF IsList
<1>2. n \in Int /\ \A i \in 1 .. n : v[i] \in S BY <1>1
<1> HIDE DEF S
<1>3. /\ SubSeq(v, 1, n) \in Seq(S)
      /\ Len(SubSeq(v, 1, n)) = IF 1 <= n THEN n - 1 + 1 ELSE 0
      /\ \A i \in 1 .. n - 1 + 1 : SubSeq(v, 1, n)[i] = v[1 + i - 1]
  BY <1>2, SubSeqProperties
<1>4. Front(v) = SubSeq(v, 1, n) BY DEF Front
<1> HIDE DEF n
<1>5. Len(SubSeq(v, 1, n)) = n /\ \A i \in 1 .. n : SubSeq(v, 1, n)[i] = v[i] 
  <2>1. n \in Nat BY <1>1 DEF n
  <2>2. QED BY <1>3, <2>1
<1>6. QED BY <1>3, <1>4, <1>5, SeqIsList DEF n

\* What vtop[-1] is replaced by
LEMMA Second ==
    ASSUME NEW v, IsList(v), Len(v) >= 2, NEW e
    PROVE  LET w == Front(Front(v)) \o <<e, Last(v)>>
               n == Len(v)
           IN  /\ IsList(w) /\ Len(w) = n /\ w[n] = v[n] /\ w[n - 1] = e
               /\ \A i \in 1 .. n - 2 : w[i] = v[i]
<1> DEFINE n == Len(v)
           u == Front(Front(v))
           x == <<e, Last(v)>>
<1>0. n \in Nat BY DEF IsList
<1>1. IsList(Front(v)) /\ Len(Front(v)) = n - 1 /\ \A i \in 1 .. n - 1 : Front(v)[i] = v[i]
  BY Shorter
<1>2. n - 1 >= 1 BY <1>0
<1>3. IsList(u) /\ Len(u) = n - 2 /\ \A i \in 1 .. n - 2 : u[i] = Front(v)[i]
  <2>1. IsList(u) /\ Len(u) = (n - 1) - 1 /\ \A i \in 1 .. (n - 1) - 1 : u[i] = Front(v)[i]
    BY <1>1, <1>2, Shorter
  <2>2. QED BY <1>0, <2>1
<1>4. \A i \in 1 .. n - 2 : u[i] = v[i] BY <1>0, <1>1, <1>3
<1> DEFINE S == {u[i] : i \in 1 .. n - 2} \cup {e, Last(v)}
<1>5. u \in Seq(S)
  <2>1. u \in [1 .. n - 2 -> S] BY <1>3 DEF IsList
  <2>2. QED BY <1>0, <1>3, <2>1, SeqDef DEF IsList
<1>6. x \in Seq(S) /\ Len(x) = 2 /\ x[1] = e /\ x[2] = v[n] BY DEF Last
<1> HIDE DEF S, u, x
<1>7. u \o x \in Seq(S) /\ Len(u \o x) = Len(u) + Len(x)
      /\ \A i \in 1 .. Len(u) + Len(x) : (u \o x)[i] = IF i <= Len(u) THEN u[i] ELSE x[i - Len(u)]
  <2>1. u \in Seq(S) /\ x \in Seq(S) BY <1>5, <1>6
  <2>2. QED BY ONLY <2>1, ConcatProperties, Zenon
<1>8. Len(u \o x) = n /\ (u \o x)[n] = v[n] /\ (u \o x)[n - 1] = e
  <2>1. Len(u \o x) = n BY <1>0, <1>3, <1>6, <1>7
  <2>2. (u \o x)[n] = x[2] BY <1>0, <1>3, <1>6, <1>7
  <2>3. (u \o x)[n - 1] = x[1]
    <3>1. n - 1 \in 1 .. Len(u) + Len(x) /\ ~(n - 1 <= Len(u)) /\ n - 1 - Len(u) = 1 BY <1>0, <1>3, <1>6
    <3>2. QED BY <1>7, <3>1
  <2>4. QED BY <1>6, <2>1, <2>2, <2>3
<1>9. \A i \in 1 .. n - 2 : (u \o x)[i] = v[i] BY <1>0, <1>3, <1>4, <1>6, <1>7
<1>10. QED BY <1>7, <1>8, <1>9, SeqIsList DEF u, x

\* The element behind the first d goes behind the next ones: the last n are rotated
LEMMA Rotated ==
    ASSUME NEW v, IsList(v), NEW n \in 1 .. Len(v)
    PROVE  LET d == Len(v) - n
               w == SubSeq(v, 1, d) \o SubSeq(v, d + 2, d + n) \o <<v[d + 1]>>
           IN  /\ IsList(w) /\ Len(w) = Len(v) /\ w[Len(v)] = v[d + 1]
               /\ \A i \in 1 .. d : w[i] = v[i]
               /\ \A i \in d + 1 .. Len(v) - 1 : w[i] = v[i + 1]
<1> DEFINE S == {v[i] : i \in 1 .. Len(v)}
           d == Len(v) - n
           a == SubSeq(v, 1, d)
           b == SubSeq(v, d + 2, d + n)
           c == <<v[d + 1]>>
<1>1. Len(v) \in Nat /\ d \in 0 .. Len(v) - 1 /\ d + n = Len(v) /\ n \in Nat BY DEF IsList
<1>2. \A i \in 1 .. Len(v) : v[i] \in S OBVIOUS
<1> HIDE DEF S, d
<1>3. a \in Seq(S) /\ Len(a) = d /\ \A i \in 1 .. d : a[i] = v[i]
  <2>1. d \in Int /\ \A i \in 1 .. d : v[i] \in S BY <1>1, <1>2
  <2>2. /\ a \in Seq(S) /\ Len(a) = IF 1 <= d THEN d - 1 + 1 ELSE 0
        /\ \A i \in 1 .. d - 1 + 1 : a[i] = v[1 + i - 1]
    BY <2>1, SubSeqProperties
  <2>3. QED BY <1>1, <2>2
<1>4. b \in Seq(S) /\ Len(b) = n - 1 /\ \A i \in 1 .. n - 1 : b[i] = v[d + 1 + i]
  <2> DEFINE lo == d + 2
             hi == d + n
  <2>1. lo \in Int /\ hi \in Int /\ \A i \in lo .. hi : v[i] \in S BY <1>1, <1>2
  <2> HIDE DEF lo, hi
  <2>2. /\ SubSeq(v, lo, hi) \in Seq(S) /\ Len(SubSeq(v, lo, hi)) = IF lo <= hi THEN hi - lo + 1 ELSE 0
        /\ \A i \in 1 .. hi - lo + 1 : SubSeq(v, lo, hi)[i] = v[lo + i - 1]
    BY <2>1, SubSeqProperties
  <2>3. b \in Seq(S) /\ Len(b) = IF lo <= hi THEN hi - lo + 1 ELSE 0 BY <2>2 DEF lo, hi
  <2>4. \A i \in 1 .. hi - lo + 1 : b[i] = v[lo + i - 1] BY <2>2 DEF lo, hi
  <2>5. lo = d + 2 /\ hi = d + n BY DEF lo, hi
  <2> HIDE DEF b
  <2>6. QED BY <1>1, <2>3, <2>4, <2>5
<1>5. c \in Seq(S) /\ Len(c) = 1 /\ c[1] = v[d + 1] BY <1>1, <1>2
<1> HIDE DEF a, b, c
<1>6. a \o b \in Seq(S) /\ Len(a \o b) = d + (n - 1)
      /\ \A i \in 1 .. d + (n - 1) : (a \o b)[i] = IF i <= d THEN a[i] ELSE b[i - d]
  <2>1. a \in Seq(S) /\ b \in Seq(S) BY <1>3, <1>4
  <2>2. a \o b \in Seq(S) /\ Len(a \o b) = Len(a) + Len(b)
        /\ \A i \in 1 .. Len(a) + Len(b) : (a \o b)[i] = IF i <= Len(a) THEN a[i] ELSE b[i - Len(a)]
    BY ONLY <2>1, ConcatProperties, Zenon
  <2>3. Len(a) = d /\ Len(b) = n - 1 BY <1>3, <1>4
  <2>4. QED BY ONLY <2>2, <2>3
<1> DEFINE ab == a \o b
<1> HIDE DEF ab
<1>7. ab \o c \in Seq(S) /\ Len(ab \o c) = d + (n - 1) + 1
      /\ \A i \in 1 .. d + (n - 1) + 1 : (ab \o c)[i] = IF i <= d + (n - 1) THEN ab[i] ELSE c[i - (d + (n - 1))]
  <2>1. ab \in Seq(S) /\ c \in Seq(S) BY <1>5, <1>6 DEF ab
  <2>2. ab \o c \in Seq(S) /\ Len(ab \o c) = Len(ab) + Len(c)
        /\ \A i \in 1 .. Len(ab) + Len(c) : (ab \o c)[i] = IF i <= Len(ab) THEN ab[i] ELSE c[i - Len(ab)]
    BY ONLY <2>1, ConcatProperties, Zenon
  <2>3. Len(ab) = d + (n - 1) /\ Len(c) = 1 BY <1>5, <1>6 DEF ab
  <2>4. QED BY ONLY <2>2, <2>3
<1>8. Len(ab \o c) = Len(v) /\ (ab \o c)[Len(v)] = v[d + 1] BY <1>1, <1>5, <1>7
<1>9. \A i \in 1 .. d : (ab \o c)[i] = v[i]
  <2> TAKE i \in 1 .. d
  <2>1. (ab \o c)[i] = ab[i] /\ ab[i] = a[i] BY <1>1, <1>6, <1>7 DEF ab
  <2>2. QED BY <1>3, <2>1
<1>10. \A i \in d + 1 .. Len(v) - 1 : (ab \o c)[i] = v[i + 1]
  <2> TAKE i \in d + 1 .. Len(v) - 1
  <2>1. (ab \o c)[i] = ab[i] /\ ab[i] = b[i - d] BY <1>1, <1>6, <1>7 DEF ab
  <2>2. b[i - d] = v[d + 1 + (i - d)] BY <1>1, <1>4
  <2>3. d + 1 + (i - d) = i + 1 BY <1>1
  <2>4. QED BY <2>1, <2>2, <2>3
<1>11. QED BY <1>7, <1>8, <1>9, <1>10, SeqIsList DEF ab, a, b, c, d

-----------------------------------------------------------------------------
(* The value stack and its chains                                          *)

\* An entry of the value stack: only a pending jump has a chain.
IsEntry(e) == /\ e = [r |-> e.r, lval |-> e.lval, c |-> e.c, op |-> e.op, t |-> e.t]
              /\ e.r \notin Jmps => e.t = {}

\* A state of the code generator
IsState(s) ==
    /\ s = [vs |-> s.vs, nocode |-> s.nocode, loc |-> s.loc, ind |-> s.ind, open |-> s.open,
            m |-> s.m, buried |-> s.buried]
    /\ IsList(s.vs) /\ s.nocode \in Nat /\ s.ind \in Nat
    /\ \A i \in 1 .. Len(s.vs) : IsEntry(s.vs[i])

\* Every open jump is in the chain of one entry, or in R, the chains held elsewhere.
Held(s, R) ==
    /\ \A x \in s.open : x \in 1 .. s.ind /\ (x \in R \/ \E i \in 1 .. Len(s.vs) : x \in s.vs[i].t)
    /\ \A x \in R : x \in s.open /\ \A i \in 1 .. Len(s.vs) : x \notin s.vs[i].t
    /\ \A i \in 1 .. Len(s.vs) : \A x \in s.vs[i].t :
          x \in s.open /\ \A j \in 1 .. Len(s.vs) : x \in s.vs[j].t => j = i

\* While no code is generated, the entries above d have no jumps.
Idle(s, d) == s.nocode # 0 => \A i \in 1 .. Len(s.vs) : i > d => s.vs[i].t = {}

\* The chains are right.
Good(s, R, d) == IsState(s) /\ Held(s, R) /\ Idle(s, d)

\* The first d entries of s are in u; those without jumps have none.
Kept(s, u, d) ==
    /\ u.nocode = s.nocode /\ d \in 0 .. Len(s.vs) /\ d \in 0 .. Len(u.vs)
    /\ \A i \in 1 .. d : s.vs[i].t = {} => u.vs[i].t = {}

\* s and u differ in the machines only.
Quiet(s, u) == IsState(u) /\ u.vs = s.vs /\ u.nocode = s.nocode /\ u.ind = s.ind /\ u.open = s.open

\* Such a change keeps the chains,
LEMMA QuietGood == ASSUME NEW s, NEW u, NEW R, NEW d, Good(s, R, d), Quiet(s, u) PROVE Good(u, R, d)
BY DEF Good, Quiet, Held, Idle

\* One change after the other
LEMMA KeptTwice ==
    ASSUME NEW s, NEW u, NEW w, NEW d, Kept(s, u, d), Kept(u, w, d) PROVE Kept(s, w, d)
BY DEF Kept

\* The stack is a list.
LEMMA Lengths == ASSUME NEW s, IsState(s) PROVE Len(s.vs) \in Nat /\ IsList(s.vs)
BY DEF IsState, IsList

\* What holds of the first d entries holds of fewer.
LEMMA KeptLess ==
    ASSUME NEW s, NEW u, NEW d, NEW c \in Nat, c <= d, IsState(s), IsState(u), Kept(s, u, d) PROVE Kept(s, u, c)
<1>1. Len(s.vs) \in Nat /\ Len(u.vs) \in Nat BY Lengths
<1>2. c \in 0 .. Len(s.vs) /\ c \in 0 .. Len(u.vs) /\ \A i \in 1 .. c : i \in 1 .. d BY <1>1 DEF Kept
<1>3. QED BY <1>2 DEF Kept

\* Nothing happens to the entries when the machines change.
LEMMA KeptAll == ASSUME NEW s, NEW u, IsState(s), Quiet(s, u) PROVE Kept(s, u, Len(s.vs))
BY Lengths DEF Kept, Quiet

\* Nothing changes for the chains.
LEMMA SameChains ==
    ASSUME NEW s, NEW R, NEW d, Good(s, R, d), NEW u, IsState(u),
           u.nocode = s.nocode, u.ind = s.ind, u.open = s.open, Len(u.vs) = Len(s.vs),
           \A i \in 1 .. Len(s.vs) : u.vs[i].t = s.vs[i].t
    PROVE  Good(u, R, d) /\ Kept(s, u, Len(s.vs))
<1>1. Held(u, R) /\ Idle(u, d) BY DEF Good, Held, Idle
<1>2. Kept(s, u, Len(s.vs)) BY Lengths DEF Kept, Good
<1>3. QED BY <1>1, <1>2 DEF Good

\* An entry is pushed; its jumps are no longer held elsewhere.
LEMMA Pushed ==
    ASSUME NEW s, NEW R, NEW d, Good(s, R, d), NEW e, IsEntry(e), e.t \subseteq R, s.nocode # 0 => e.t = {}
    PROVE  LET u == Push(s, e)
           IN  /\ Good(u, R \ e.t, d) /\ Kept(s, u, Len(s.vs))
               /\ Len(u.vs) = Len(s.vs) + 1 /\ vtop(u) = e
               /\ \A i \in 1 .. Len(s.vs) : u.vs[i] = s.vs[i]
<1> DEFINE u == Push(s, e)
           n == Len(s.vs)
<1>1. IsState(s) /\ n \in Nat /\ IsList(s.vs) BY Lengths DEF Good
<1>2. /\ u = [vs |-> Append(s.vs, e), nocode |-> s.nocode, loc |-> s.loc, ind |-> s.ind, open |-> s.open,
             m |-> s.m, buried |-> s.buried]
  BY <1>1 DEF IsState, Push
<1>3. /\ u.vs = Append(s.vs, e) /\ u.nocode = s.nocode /\ u.ind = s.ind /\ u.open = s.open
      /\ u = [vs |-> u.vs, nocode |-> u.nocode, loc |-> u.loc, ind |-> u.ind, open |-> u.open,
              m |-> u.m, buried |-> u.buried]
  BY <1>2
<1> HIDE DEF u
<1>4. IsList(u.vs) /\ Len(u.vs) = n + 1 /\ u.vs[n + 1] = e /\ \A i \in 1 .. n : u.vs[i] = s.vs[i]
  BY <1>1, <1>3, Longer
<1>5. \A i \in 1 .. n + 1 : i \in 1 .. n \/ i = n + 1 BY <1>1
<1> HIDE DEF n
<1>6. IsState(u)
  <2>1. \A i \in 1 .. n : IsEntry(s.vs[i]) BY <1>1 DEF IsState, n
  <2>2. \A i \in 1 .. n + 1 : IsEntry(u.vs[i]) BY <1>4, <1>5, <2>1
  <2>3. s.nocode \in Nat /\ s.ind \in Nat BY <1>1 DEF IsState
  <2>4. QED BY <1>3, <1>4, <2>2, <2>3 DEF IsState
<1>7. Held(u, R \ e.t)
  <2>1. /\ \A x \in s.open : x \in 1 .. s.ind /\ (x \in R \/ \E i \in 1 .. n : x \in s.vs[i].t)
        /\ \A x \in R : x \in s.open /\ \A i \in 1 .. n : x \notin s.vs[i].t
        /\ \A i \in 1 .. n : \A x \in s.vs[i].t : x \in s.open /\ \A j \in 1 .. n : x \in s.vs[j].t => j = i
    BY DEF Good, Held, n
  <2>2. \A i \in 1 .. n : i \in 1 .. n + 1 BY <1>1 DEF n
  <2>3. n + 1 \in 1 .. n + 1 BY <1>1 DEF n
  <2>4. ASSUME NEW x \in u.open
        PROVE  x \in 1 .. u.ind /\ (x \in R \ e.t \/ \E i \in 1 .. n + 1 : x \in u.vs[i].t)
    BY <1>3, <1>4, <2>1, <2>2, <2>3
  <2>5. ASSUME NEW x \in R \ e.t
        PROVE  x \in u.open /\ \A i \in 1 .. n + 1 : x \notin u.vs[i].t
    BY <1>3, <1>4, <1>5, <2>1
  <2>6. ASSUME NEW i \in 1 .. n + 1, NEW x \in u.vs[i].t
        PROVE  x \in u.open /\ \A j \in 1 .. n + 1 : x \in u.vs[j].t => j = i
    BY <1>3, <1>4, <1>5, <2>1
  <2>7. QED BY <1>4, <2>4, <2>5, <2>6 DEF Held
<1>8. Idle(u, d)
  <2>1. s.nocode # 0 => \A i \in 1 .. n : i > d => s.vs[i].t = {} BY DEF Good, Idle, n
  <2>2. QED BY <1>3, <1>4, <1>5, <2>1 DEF Idle
<1>9. Kept(s, u, n)
  <2>1. n \in 0 .. n /\ n \in 0 .. n + 1 BY <1>1 DEF n
  <2>2. QED BY <1>3, <1>4, <2>1 DEF Kept, n
<1>10. vtop(u) = e BY <1>4 DEF vtop
<1>11. QED BY <1>4, <1>6, <1>7, <1>8, <1>9, <1>10 DEF Good, u, n

\* An entry is dropped; its jumps are held elsewhere.
LEMMA Dropped ==
    ASSUME NEW s, NEW R, NEW d, Good(s, R, d), Len(s.vs) >= 1
    PROVE  LET u == Drop(s)
           IN  /\ Good(u, R \cup vtop(s).t, d) /\ Kept(s, u, Len(s.vs) - 1)
               /\ Len(u.vs) = Len(s.vs) - 1
               /\ \A i \in 1 .. Len(s.vs) - 1 : u.vs[i] = s.vs[i]
<1> DEFINE u == Drop(s)
           k == Len(s.vs) - 1
           n == Len(s.vs)
           T == R \cup vtop(s).t
<1>1. IsState(s) /\ n \in Nat /\ IsList(s.vs) /\ k \in Nat /\ n = k + 1 BY Lengths DEF Good
<1>2. /\ u = [vs |-> Front(s.vs), nocode |-> s.nocode, loc |-> s.loc, ind |-> s.ind, open |-> s.open,
             m |-> s.m, buried |-> s.buried]
  BY <1>1 DEF IsState, Drop
<1>3. /\ u.vs = Front(s.vs) /\ u.nocode = s.nocode /\ u.ind = s.ind /\ u.open = s.open
      /\ u = [vs |-> u.vs, nocode |-> u.nocode, loc |-> u.loc, ind |-> u.ind, open |-> u.open,
              m |-> u.m, buried |-> u.buried]
  BY <1>2
<1> HIDE DEF u
<1>4. IsList(u.vs) /\ Len(u.vs) = k /\ \A i \in 1 .. k : u.vs[i] = s.vs[i]
  BY <1>1, <1>3, Shorter
<1>5. \A i \in 1 .. n : i \in 1 .. k \/ i = n BY <1>1
<1>6. \A i \in 1 .. k : i \in 1 .. n /\ i # n BY <1>1
<1>7. n \in 1 .. n BY <1>1
<1> HIDE DEF n, k
<1>8. IsState(u)
  <2>1. \A i \in 1 .. n : IsEntry(s.vs[i]) BY <1>1 DEF IsState, n
  <2>2. \A i \in 1 .. k : IsEntry(u.vs[i]) BY <1>4, <1>6, <2>1
  <2>3. s.nocode \in Nat /\ s.ind \in Nat BY <1>1 DEF IsState
  <2>4. QED BY <1>3, <1>4, <2>2, <2>3 DEF IsState
<1>9. Held(u, T)
  <2>1. /\ \A x \in s.open : x \in 1 .. s.ind /\ (x \in R \/ \E i \in 1 .. n : x \in s.vs[i].t)
        /\ \A x \in R : x \in s.open /\ \A i \in 1 .. n : x \notin s.vs[i].t
        /\ \A i \in 1 .. n : \A x \in s.vs[i].t : x \in s.open /\ \A j \in 1 .. n : x \in s.vs[j].t => j = i
    BY DEF Good, Held, n
  <2>2. T = R \cup s.vs[n].t BY DEF vtop, n
  <2>4. ASSUME NEW x \in u.open
        PROVE  x \in 1 .. u.ind /\ (x \in T \/ \E i \in 1 .. k : x \in u.vs[i].t)
    BY <1>3, <1>4, <1>5, <2>1, <2>2
  <2>5. ASSUME NEW x \in T
        PROVE  x \in u.open /\ \A i \in 1 .. k : x \notin u.vs[i].t
    BY <1>3, <1>4, <1>6, <1>7, <2>1, <2>2
  <2>6. ASSUME NEW i \in 1 .. k, NEW x \in u.vs[i].t
        PROVE  x \in u.open /\ \A j \in 1 .. k : x \in u.vs[j].t => j = i
    BY <1>3, <1>4, <1>6, <2>1
  <2>7. QED BY <1>4, <2>4, <2>5, <2>6 DEF Held
<1>10. Idle(u, d)
  <2>1. s.nocode # 0 => \A i \in 1 .. n : i > d => s.vs[i].t = {} BY DEF Good, Idle, n
  <2>2. QED BY <1>3, <1>4, <1>6, <2>1 DEF Idle
<1>11. Kept(s, u, k)
  <2>1. k \in 0 .. n /\ k \in 0 .. k BY <1>1 DEF n
  <2>2. QED BY <1>3, <1>4, <2>1 DEF Kept, n
<1>12. QED BY <1>4, <1>8, <1>9, <1>10, <1>11 DEF Good, u, n, k, T

\* The parts of a state
IsRecord(s) == s = [vs |-> s.vs, nocode |-> s.nocode, loc |-> s.loc, ind |-> s.ind, open |-> s.open,
                    m |-> s.m, buried |-> s.buried]
\* u is the state with these parts.
Same7(u, a, b, c, e, f, g, h) ==
    u = [vs |-> a, nocode |-> b, loc |-> c, ind |-> e, open |-> f, m |-> g, buried |-> h]

\* Each part of the state by itself: the entries,
LEMMA PutVs ==
    ASSUME NEW s, IsRecord(s), NEW x
    PROVE  Same7([s EXCEPT !.vs = x], x, s.nocode, s.loc, s.ind, s.open, s.m, s.buried)
BY DEF IsRecord, Same7

\* the jumps without a target,
LEMMA PutOpen ==
    ASSUME NEW s, IsRecord(s), NEW x
    PROVE  Same7([s EXCEPT !.open = x], s.vs, s.nocode, s.loc, s.ind, x, s.m, s.buried)
BY DEF IsRecord, Same7

\* the machines,
LEMMA PutM ==
    ASSUME NEW s, IsRecord(s), NEW x
    PROVE  Same7([s EXCEPT !.m = x], s.vs, s.nocode, s.loc, s.ind, s.open, x, s.buried)
BY DEF IsRecord, Same7

\* the position,
LEMMA PutInd ==
    ASSUME NEW s, IsRecord(s), NEW x
    PROVE  Same7([s EXCEPT !.ind = x], s.vs, s.nocode, s.loc, x, s.open, s.m, s.buried)
BY DEF IsRecord, Same7

\* the place of the next temporary,
LEMMA PutLoc ==
    ASSUME NEW s, IsRecord(s), NEW x
    PROVE  Same7([s EXCEPT !.loc = x], s.vs, s.nocode, x, s.ind, s.open, s.m, s.buried)
BY DEF IsRecord, Same7

\* and whether code is generated.
LEMMA PutNocode ==
    ASSUME NEW s, IsRecord(s), NEW x
    PROVE  Same7([s EXCEPT !.nocode = x], s.vs, x, s.loc, s.ind, s.open, s.m, s.buried)
BY DEF IsRecord, Same7

\* What the parts of a state are
LEMMA PutFields ==
    ASSUME NEW u, NEW a, NEW b, NEW c, NEW e, NEW f, NEW g, NEW h, Same7(u, a, b, c, e, f, g, h)
    PROVE  /\ IsRecord(u) /\ u.vs = a /\ u.nocode = b /\ u.loc = c /\ u.ind = e /\ u.open = f
           /\ u.m = g /\ u.buried = h
BY DEF IsRecord, Same7

\* Two parts at once
LEMMA PutMOpen ==
    ASSUME NEW s, IsRecord(s), NEW x, NEW y
    PROVE  Same7([s EXCEPT !.m = x, !.open = y], s.vs, s.nocode, s.loc, s.ind, y, x, s.buried)
<1> DEFINE w == [s EXCEPT !.m = x]
<1>1. Same7(w, s.vs, s.nocode, s.loc, s.ind, s.open, x, s.buried) BY PutM
<1>2. [s EXCEPT !.m = x, !.open = y] = [w EXCEPT !.open = y] OBVIOUS
<1> HIDE DEF w
<1>3. IsRecord(w) /\ w.vs = s.vs /\ w.nocode = s.nocode /\ w.loc = s.loc /\ w.ind = s.ind
      /\ w.m = x /\ w.buried = s.buried
  BY <1>1, PutFields
<1>4. Same7([w EXCEPT !.open = y], w.vs, w.nocode, w.loc, w.ind, y, w.m, w.buried) BY <1>3, PutOpen
<1>5. QED BY <1>2, <1>3, <1>4

\* (of a jump)
LEMMA PutIndOpen ==
    ASSUME NEW s, IsRecord(s), NEW x, NEW y
    PROVE  Same7([s EXCEPT !.ind = x, !.open = y], s.vs, s.nocode, s.loc, x, y, s.m, s.buried)
<1> DEFINE w == [s EXCEPT !.ind = x]
<1>1. Same7(w, s.vs, s.nocode, s.loc, x, s.open, s.m, s.buried) BY PutInd
<1>2. [s EXCEPT !.ind = x, !.open = y] = [w EXCEPT !.open = y] OBVIOUS
<1> HIDE DEF w
<1>3. IsRecord(w) /\ w.vs = s.vs /\ w.nocode = s.nocode /\ w.loc = s.loc /\ w.ind = x
      /\ w.m = s.m /\ w.buried = s.buried
  BY <1>1, PutFields
<1>4. Same7([w EXCEPT !.open = y], w.vs, w.nocode, w.loc, w.ind, y, w.m, w.buried) BY <1>3, PutOpen
<1>5. QED BY <1>2, <1>3, <1>4

\* (of a saved register)
LEMMA PutLocVs ==
    ASSUME NEW s, IsRecord(s), NEW x, NEW y
    PROVE  Same7([s EXCEPT !.loc = x, !.vs = y], y, s.nocode, x, s.ind, s.open, s.m, s.buried)
<1> DEFINE w == [s EXCEPT !.loc = x]
<1>1. Same7(w, s.vs, s.nocode, x, s.ind, s.open, s.m, s.buried) BY PutLoc
<1>2. [s EXCEPT !.loc = x, !.vs = y] = [w EXCEPT !.vs = y] OBVIOUS
<1> HIDE DEF w
<1>3. IsRecord(w) /\ w.open = s.open /\ w.nocode = s.nocode /\ w.loc = x /\ w.ind = s.ind
      /\ w.m = s.m /\ w.buried = s.buried
  BY <1>1, PutFields
<1>4. Same7([w EXCEPT !.vs = y], y, w.nocode, w.loc, w.ind, w.open, w.m, w.buried) BY <1>3, PutVs
<1>5. QED BY <1>2, <1>3, <1>4

\* A state has these parts,
LEMMA StateRecord == ASSUME NEW s, IsState(s) PROVE IsRecord(s)
BY DEF IsState, IsRecord

\* and nothing else.
LEMMA SameRecord ==
    ASSUME NEW u, NEW w, NEW a, NEW b, NEW c, NEW e, NEW f, NEW g, NEW h,
           Same7(u, a, b, c, e, f, g, h), Same7(w, a, b, c, e, f, g, h)
    PROVE  u = w
BY DEF Same7

\* What is emitted changes the machines only.
LEMMA MachineOnly ==
    ASSUME NEW s, IsState(s), NEW mm, NEW b PROVE Quiet(s, [s EXCEPT !.m = mm, !.buried = b])
<1> DEFINE w == [s EXCEPT !.m = mm]
           u == [w EXCEPT !.buried = b]
<1>0. s = [vs |-> s.vs, nocode |-> s.nocode, loc |-> s.loc, ind |-> s.ind, open |-> s.open,
           m |-> s.m, buried |-> s.buried]
  BY DEF IsState
<1>1. w = [vs |-> s.vs, nocode |-> s.nocode, loc |-> s.loc, ind |-> s.ind, open |-> s.open,
           m |-> mm, buried |-> s.buried]
  BY ONLY <1>0
<1> HIDE DEF w
<1>2. u = [vs |-> s.vs, nocode |-> s.nocode, loc |-> s.loc, ind |-> s.ind, open |-> s.open,
           m |-> mm, buried |-> b]
  BY ONLY <1>1
<1> HIDE DEF u
<1>3. Quiet(s, u) BY <1>2 DEF IsState, Quiet
<1>4. QED BY <1>3 DEF u, w

\* Nothing changes,
LEMMA QuietSelf == ASSUME NEW s, IsState(s) PROVE Quiet(s, s)
BY DEF Quiet

\* or one change comes after the other,
LEMMA QuietTwice == ASSUME NEW s, NEW u, NEW w, Quiet(s, u), Quiet(u, w) PROVE Quiet(s, w)
BY DEF Quiet

\* or a register is stored.
LEMMA StoreQuiet == ASSUME NEW s, IsState(s), NEW r, NEW e PROVE Quiet(s, store(s, r, e))
BY MachineOnly, QuietSelf DEF store, Emit

\* gsym() resolves a chain that is held elsewhere.
LEMMA Patched ==
    ASSUME NEW s, NEW R, NEW d, Good(s, R, d), NEW t \in SUBSET R
    PROVE  LET u == gsym(s, t)
           IN  /\ Good(u, R \ t, d) /\ u.vs = s.vs /\ u.nocode = s.nocode
               /\ u.ind = s.ind /\ u.open = s.open \ t
<1> DEFINE u == gsym(s, t)
           mm == [k \in DOMAIN s.m |->
                        LET m == s.m[k] IN IF m.at \in t THEN [m EXCEPT !.at = 0] ELSE m]
<1>0. IsState(s) BY DEF Good
<1>1. u = [s EXCEPT !.m = mm, !.open = @ \ t] BY DEF gsym
<1> HIDE DEF mm
<1>2. u = [vs |-> s.vs, nocode |-> s.nocode, loc |-> s.loc, ind |-> s.ind, open |-> s.open \ t,
           m |-> mm, buried |-> s.buried]
  BY <1>0, <1>1 DEF IsState
<1> HIDE DEF u
<1>3. IsState(u) /\ u.vs = s.vs /\ u.nocode = s.nocode /\ u.ind = s.ind /\ u.open = s.open \ t
  BY <1>0, <1>2 DEF IsState
<1>4. Held(u, R \ t) BY <1>3 DEF Good, Held
<1>5. Idle(u, d) BY <1>3 DEF Good, Idle
<1>6. QED BY <1>3, <1>4, <1>5 DEF Good, u

\* The top entry is replaced.
LEMMA SetIsPush == ASSUME NEW s, IsState(s), NEW e PROVE SetTop(s, e) = Push(Drop(s), e)
<1> DEFINE f == Front(s.vs)
           w == [s EXCEPT !.vs = f]
<1>0. IsRecord(s) BY StateRecord
<1>1. Same7(w, f, s.nocode, s.loc, s.ind, s.open, s.m, s.buried) BY <1>0, PutVs
<1>2. Same7([s EXCEPT !.vs = Append(f, e)], Append(f, e), s.nocode, s.loc, s.ind, s.open, s.m, s.buried)
  BY <1>0, PutVs
<1>3. SetTop(s, e) = [s EXCEPT !.vs = Append(f, e)] BY DEF SetTop
<1>4. Push(Drop(s), e) = [w EXCEPT !.vs = Append(w.vs, e)] BY DEF Push, Drop
<1> HIDE DEF w, f
<1>5. /\ IsRecord(w) /\ w.vs = f /\ w.nocode = s.nocode /\ w.loc = s.loc /\ w.ind = s.ind /\ w.open = s.open
      /\ w.m = s.m /\ w.buried = s.buried
  BY <1>1, PutFields
<1>6. Same7([w EXCEPT !.vs = Append(f, e)], Append(f, e), w.nocode, w.loc, w.ind, w.open, w.m, w.buried)
  BY <1>5, PutVs
<1>7. QED BY <1>2, <1>3, <1>4, <1>5, <1>6, SameRecord

\* It is as if the old one was dropped and the new one pushed.
LEMMA TopSet ==
    ASSUME NEW s, NEW R, NEW d, Good(s, R, d), Len(s.vs) >= 1,
           NEW e, IsEntry(e), e.t \subseteq R \cup vtop(s).t, s.nocode # 0 => e.t = {}
    PROVE  LET u == SetTop(s, e)
           IN  /\ Good(u, (R \cup vtop(s).t) \ e.t, d) /\ Kept(s, u, Len(s.vs) - 1)
               /\ Len(u.vs) = Len(s.vs) /\ vtop(u) = e
               /\ \A i \in 1 .. Len(s.vs) - 1 : u.vs[i] = s.vs[i]
<1> DEFINE w == Drop(s)
           k == Len(s.vs) - 1
<1>0. IsState(s) /\ Len(s.vs) \in Nat /\ k + 1 = Len(s.vs) BY Lengths DEF Good
<1>1. /\ Good(w, R \cup vtop(s).t, d) /\ Kept(s, w, k) /\ Len(w.vs) = k
      /\ \A i \in 1 .. k : w.vs[i] = s.vs[i]
  BY Dropped
<1>2. w.nocode = s.nocode BY <1>1 DEF Kept
<1>3. SetTop(s, e) = Push(w, e) BY <1>0, SetIsPush
<1> HIDE DEF w, k
<1>4. /\ Good(Push(w, e), (R \cup vtop(s).t) \ e.t, d) /\ Kept(w, Push(w, e), k)
      /\ Len(Push(w, e).vs) = k + 1 /\ vtop(Push(w, e)) = e
      /\ \A i \in 1 .. k : Push(w, e).vs[i] = w.vs[i]
  <2>1. e.t \subseteq R \cup vtop(s).t /\ (w.nocode # 0 => e.t = {}) BY <1>2
  <2> DEFINE T == R \cup vtop(s).t
  <2>2. Good(w, T, d) /\ e.t \subseteq T BY <1>1, <2>1
  <2> HIDE DEF T
  <2>3. /\ Good(Push(w, e), T \ e.t, d) /\ Kept(w, Push(w, e), Len(w.vs))
        /\ Len(Push(w, e).vs) = Len(w.vs) + 1 /\ vtop(Push(w, e)) = e
        /\ \A i \in 1 .. Len(w.vs) : Push(w, e).vs[i] = w.vs[i]
    BY <2>1, <2>2, Pushed
  <2>4. QED BY <1>1, <2>3 DEF T
<1>5. Kept(s, Push(w, e), k) BY <1>1, <1>4, KeptTwice
<1>6. QED BY <1>0, <1>1, <1>3, <1>4, <1>5 DEF k

\* vpop()
LEMMA DropGsym == ASSUME NEW s, IsState(s), NEW t PROVE Drop(gsym(s, t)) = gsym(Drop(s), t)
<1> DEFINE f == Front(s.vs)
           mm == [k \in DOMAIN s.m |->
                        LET m == s.m[k] IN IF m.at \in t THEN [m EXCEPT !.at = 0] ELSE m]
           o == s.open \ t
           w == [s EXCEPT !.vs = f]
           v == [s EXCEPT !.m = mm, !.open = o]
<1>0. IsRecord(s) BY StateRecord
<1>1. gsym(s, t) = v BY DEF gsym
<1>2. Drop(v) = [v EXCEPT !.vs = Front(v.vs)] BY DEF Drop
<1>3. gsym(w, t) = [w EXCEPT !.m = [k \in DOMAIN w.m |->
                        LET m == w.m[k] IN IF m.at \in t THEN [m EXCEPT !.at = 0] ELSE m],
                             !.open = w.open \ t]
  BY DEF gsym
<1>4. Drop(s) = w BY DEF Drop
<1>7. Same7(w, f, s.nocode, s.loc, s.ind, s.open, s.m, s.buried)
  <2> HIDE DEF f
  <2>1. QED BY <1>0, PutVs
<1>8. Same7(v, s.vs, s.nocode, s.loc, s.ind, o, mm, s.buried)
  <2> HIDE DEF mm, o
  <2>1. QED BY <1>0, PutMOpen
<1>5. /\ IsRecord(w) /\ w.vs = f /\ w.nocode = s.nocode /\ w.loc = s.loc /\ w.ind = s.ind /\ w.open = s.open
      /\ w.m = s.m /\ w.buried = s.buried
  <2> HIDE DEF w, f
  <2>1. QED BY <1>7, PutFields
<1>6. gsym(w, t) = [w EXCEPT !.m = mm, !.open = o]
  <2> HIDE DEF w
  <2>1. QED BY <1>3, <1>5
<1> HIDE DEF mm, o, f, w, v
<1>9. Same7([w EXCEPT !.m = mm, !.open = o], w.vs, w.nocode, w.loc, w.ind, o, mm, w.buried)
  BY <1>5, PutMOpen
<1>10. /\ IsRecord(v) /\ v.vs = s.vs /\ v.nocode = s.nocode /\ v.loc = s.loc /\ v.ind = s.ind /\ v.open = o
       /\ v.m = mm /\ v.buried = s.buried
  BY <1>8, PutFields
<1>11. Same7([v EXCEPT !.vs = f], f, v.nocode, v.loc, v.ind, v.open, v.m, v.buried)
  BY <1>10, PutVs
<1>12. Drop(v) = [v EXCEPT !.vs = f] BY <1>2, <1>10 DEF f
<1>13. QED BY <1>1, <1>4, <1>5, <1>6, <1>9, <1>10, <1>11, <1>12, SameRecord

\* The chain of the entry ends where it is dropped.
LEMMA Popped ==
    ASSUME NEW s, NEW R, NEW d, Good(s, R, d), Len(s.vs) >= 1
    PROVE  LET u == vpop(s)
           IN  /\ Good(u, R, d) /\ Kept(s, u, Len(s.vs) - 1) /\ Len(u.vs) = Len(s.vs) - 1
               /\ \A i \in 1 .. Len(s.vs) - 1 : u.vs[i] = s.vs[i]
<1> DEFINE w == Drop(s)
           t == vtop(s).t
           n == Len(s.vs)
<1>0. IsState(s) /\ n \in Nat BY Lengths DEF Good
<1>1. /\ Good(w, R \cup t, d) /\ Kept(s, w, n - 1) /\ Len(w.vs) = n - 1
      /\ \A i \in 1 .. n - 1 : w.vs[i] = s.vs[i]
  BY Dropped
<1>2. R \cap t = {}
  <2>1. n \in 1 .. n BY <1>0
  <2>2. \A x \in R : x \notin s.vs[n].t BY <2>1 DEF Good, Held
  <2>3. QED BY <2>2 DEF vtop
<1>3. CASE vtop(s).r \in Jmps
  <2>1. vpop(s) = gsym(w, t) BY <1>0, <1>3, DropGsym DEF vpop
  <2> HIDE DEF w, t, n
  <2>2. /\ Good(gsym(w, t), (R \cup t) \ t, d) /\ gsym(w, t).vs = w.vs /\ gsym(w, t).nocode = w.nocode
    <3> DEFINE T == R \cup t
    <3>1. Good(w, T, d) /\ t \in SUBSET T BY <1>1
    <3> HIDE DEF T
    <3>2. Good(gsym(w, t), T \ t, d) /\ gsym(w, t).vs = w.vs /\ gsym(w, t).nocode = w.nocode
      BY <3>1, Patched
    <3>3. QED BY <3>2 DEF T
  <2>3. (R \cup t) \ t = R BY <1>2
  <2>4. Kept(w, gsym(w, t), n - 1) BY <1>1, <2>2 DEF Kept
  <2>5. Kept(s, gsym(w, t), n - 1) BY <1>1, <2>4, KeptTwice
  <2>6. QED BY <1>1, <2>1, <2>2, <2>3, <2>5 DEF n
<1>4. CASE vtop(s).r \notin Jmps
  <2>1. vpop(s) = w BY <1>4 DEF vpop
  <2>2. IsEntry(vtop(s)) BY <1>0 DEF IsState, vtop
  <2>3. R \cup t = R BY <1>4, <2>2 DEF IsEntry
  <2> HIDE DEF w, t
  <2>4. QED BY <1>1, <2>1, <2>3
<1>5. QED BY <1>3, <1>4

\* Values have no jumps.
LEMMA PlainEntry == ASSUME NEW r, NEW l, NEW c PROVE IsEntry(Entry(r, l, c)) /\ Entry(r, l, c).t = {}
BY DEF IsEntry, Entry

\* s and u have the same chains.
Same(s, u) ==
    /\ IsState(u) /\ u.nocode = s.nocode /\ u.ind = s.ind /\ u.open = s.open /\ Len(u.vs) = Len(s.vs)
    /\ \A i \in 1 .. Len(s.vs) : u.vs[i].t = s.vs[i].t

\* The chains are still right,
LEMMA SameGood ==
    ASSUME NEW s, NEW R, NEW d, Good(s, R, d), NEW u, Same(s, u)
    PROVE  Good(u, R, d) /\ Kept(s, u, Len(s.vs))
BY SameChains DEF Same

\* as they are when the machines change,
LEMMA QuietSame == ASSUME NEW s, NEW u, Quiet(s, u) PROVE Same(s, u)
BY DEF Quiet, Same

\* also in two steps.
LEMMA SameTwice == ASSUME NEW s, NEW u, NEW w, Same(s, u), Same(u, w) PROVE Same(s, w)
BY DEF Same

\* save_reg() and save_regs(): what is saved had no jumps.
LEMMA Saved ==
    ASSUME NEW s, IsState(s), NEW Q, Q \cap Jmps = {} PROVE Same(s, Save(s, Q))
<1> DEFINE used == {r \in Q : Users(s, r) # {}}
           temp == [r \in used |->
                    s.loc - Cardinality({q \in used : Lowest({q, r}) = q})]
           stored == Emit(s, LAMBDA m :
                    [m EXCEPT !.mem = [a \in DOMAIN m.mem |->
                        IF \E r \in used : temp[r] = a
                        THEN m.reg[CHOOSE r \in used : temp[r] = a] ELSE m.mem[a]]])
           n == Len(s.vs)
           y == [i \in 1 .. n |->
                    IF s.vs[i].r \notin used THEN s.vs[i]
                    ELSE Entry(IF s.vs[i].lval THEN "llocal" ELSE "local", TRUE, temp[s.vs[i].r])]
           x == stored.loc - Cardinality(used)
           u == [stored EXCEPT !.loc = x, !.vs = y]
<1>1. CASE s.nocode # 0
  <2>1. Save(s, Q) = s BY <1>1 DEF Save
  <2>2. QED BY <2>1 DEF Same
<1>2. CASE s.nocode = 0
  <2>1. Save(s, Q) = u BY <1>2 DEF Save
  <2>2. Quiet(s, stored)
    <3> HIDE DEF used, temp
    <3>1. QED BY MachineOnly, QuietSelf DEF Emit
  <2>3. \A i \in 1 .. n : IsEntry(y[i]) /\ y[i].t = s.vs[i].t
    <3>1. TAKE i \in 1 .. n
    <3>2. IsEntry(s.vs[i]) BY DEF IsState
    <3>3. CASE s.vs[i].r \notin used
      <4> HIDE DEF temp, used
      <4>1. y[i] = s.vs[i] BY <3>3
      <4>2. QED BY <3>2, <4>1
    <3>4. CASE s.vs[i].r \in used
      <4>1. s.vs[i].r \notin Jmps
        <5>1. used \subseteq Q OBVIOUS
        <5>2. QED BY <3>4, <5>1
      <4>2. s.vs[i].t = {} BY <3>2, <4>1 DEF IsEntry
      <4> HIDE DEF temp, used
      <4>3. y[i] = Entry(IF s.vs[i].lval THEN "llocal" ELSE "local", TRUE, temp[s.vs[i].r]) BY <3>4
      <4> DEFINE a == IF s.vs[i].lval THEN "llocal" ELSE "local"
                 c == temp[s.vs[i].r]
      <4>4. y[i] = Entry(a, TRUE, c) BY <4>3
      <4> HIDE DEF a, c, y
      <4>5. QED BY <4>2, <4>4, PlainEntry
    <3>5. QED BY <3>3, <3>4
  <2>4. n \in Nat BY Lengths
  <2>5. IsList(y) /\ Len(y) = n
    <3> DEFINE S == {y[i] : i \in 1 .. n}
    <3> HIDE DEF n
    <3>1. y = [i \in 1 .. n |-> y[i]] OBVIOUS
    <3> HIDE DEF y
    <3>2. y \in [1 .. n -> S] BY <3>1
    <3> HIDE DEF S
    <3>3. y \in Seq(S) BY <2>4, <3>2, SeqDef
    <3>4. Len(y) = n BY <2>4, <3>2, <3>3, LenProperties
    <3>5. QED BY <3>3, <3>4, SeqIsList
  <2> HIDE DEF n, y, x, stored, used, temp
  <2>6. IsRecord(stored) /\ stored.nocode = s.nocode /\ stored.ind = s.ind /\ stored.open = s.open
    BY <2>2, StateRecord DEF Quiet
  <2>7. Same7(u, y, stored.nocode, x, stored.ind, stored.open, stored.m, stored.buried)
    BY <2>6, PutLocVs
  <2> HIDE DEF u
  <2>8. IsRecord(u) /\ u.vs = y /\ u.nocode = s.nocode /\ u.ind = s.ind /\ u.open = s.open
    BY <2>6, <2>7, PutFields
  <2>9. s.nocode \in Nat /\ s.ind \in Nat BY DEF IsState
  <2>10. IsState(u) BY <2>3, <2>5, <2>8, <2>9 DEF IsState, IsRecord
  <2>11. QED BY <2>1, <2>3, <2>5, <2>8, <2>10 DEF Same, n
<1>3. QED BY <1>1, <1>2 DEF IsState

\* save_regs() is the same for all registers of some entries.
LEMMA RegistersSaved == ASSUME NEW s, IsState(s), NEW n PROVE Same(s, save_regs(s, n))
<1>1. (RC_INT \cap {s.vs[i].r : i \in 1 .. Len(s.vs) - n}) \cap Jmps = {} BY DEF RC_INT, Jmps
<1>2. QED BY <1>1, Saved DEF save_regs

\* A register class, and the least register of one
Class(rc) == rc \subseteq RC_INT /\ rc # {}

\* The least register of a class is in it.
LEMMA LowestIn == ASSUME NEW rc, Class(rc) PROVE Lowest(rc) \in rc
<1> DEFINE P(i) == RegOrder[i] \in rc /\ \A j \in 1 .. i - 1 : RegOrder[j] \notin rc
<1>1. \E i \in 1 .. 3 : P(i)
  <2>1. RegOrder[1] = "rax" /\ RegOrder[2] = "rcx" /\ RegOrder[3] = "rdx" BY DEF RegOrder
  <2>2. rc \subseteq {"rax", "rcx", "rdx"} /\ rc # {} BY DEF Class, RC_INT
  <2>3. CASE "rax" \in rc BY <2>1, <2>3
  <2>4. CASE "rax" \notin rc /\ "rcx" \in rc
    <3>1. P(2) BY <2>1, <2>4
    <3>2. QED BY <3>1
  <2>5. CASE "rax" \notin rc /\ "rcx" \notin rc
    <3>1. "rdx" \in rc BY <2>2, <2>5
    <3>2. \A j \in 1 .. 3 - 1 : j = 1 \/ j = 2 OBVIOUS
    <3>3. P(3) BY <2>1, <2>5, <3>1, <3>2
    <3>4. QED BY <3>3
  <2>6. QED BY <2>3, <2>4, <2>5
<1>2. RegOrder[CHOOSE i \in 1 .. 3 : P(i)] \in rc BY <1>1
<1>3. QED BY <1>2 DEF Lowest

\* get_reg()
LEMMA GotRegister ==
    ASSUME NEW s, IsState(s), NEW rc, Class(rc)
    PROVE  LET g == get_reg(s, rc) IN Same(s, g.s) /\ g.r \in rc
<1> DEFINE free == {r \in rc : Users(s, r) = {}}
           holders == {i \in DOMAIN s.vs : s.vs[i].r \in rc}
           first == CHOOSE i \in holders : \A j \in holders : i <= j
           lowest == s.vs[first].r
<1>1. Same(s, s) BY QuietSelf, QuietSame
<1>2. CASE s.nocode # 0
  <2>1. get_reg(s, rc) = [s |-> s, r |-> Lowest(rc)] BY <1>2 DEF get_reg
  <2>2. QED BY <1>1, <2>1, LowestIn
<1>3. CASE s.nocode = 0 /\ free # {}
  <2>1. get_reg(s, rc) = [s |-> s, r |-> Lowest(free)] BY <1>3 DEF get_reg
  <2>2. Class(free) BY <1>3 DEF Class
  <2>3. QED BY <1>1, <2>1, <2>2, LowestIn
<1>4. CASE s.nocode = 0 /\ free = {}
  <2>1. get_reg(s, rc) = [s |-> save_reg(s, lowest), r |-> lowest] BY <1>4 DEF get_reg
  <2>2. PICK r \in rc : TRUE BY DEF Class
  <2>3. Users(s, r) # {} BY <1>4, <2>2
  <2>4. holders # {} BY <2>2, <2>3 DEF Users
  <2>5. holders \in SUBSET Nat
    <3>1. DOMAIN s.vs \subseteq Nat BY DEF IsState, IsList
    <3>2. QED BY <3>1
  <2>6. \E m \in holders : \A k \in holders : m <= k
    <3> HIDE DEF holders
    <3>1. QED BY <2>4, <2>5, LeastElement
  <2>7. first \in holders BY <2>6
  <2>8. lowest \in rc BY <2>7
  <2> HIDE DEF lowest, first, holders, free
  <2>9. {lowest} \cap Jmps = {} BY <2>8 DEF Class, RC_INT, Jmps
  <2>10. Same(s, save_reg(s, lowest)) BY <2>9, Saved DEF save_reg
  <2>11. QED BY <2>1, <2>8, <2>10
<1>5. QED BY <1>2, <1>3, <1>4

-----------------------------------------------------------------------------
(* Operations of the code generator                                        *)

\* The top k entries have no jumps.
Plain(s, k) == \A i \in 1 .. Len(s.vs) : i > Len(s.vs) - k => s.vs[i].t = {}
\* They have none while no code is generated.
Calm(s, k) == s.nocode # 0 => Plain(s, k)

\* u has as many entries as s, and those without jumps still have none.
Done(s, u, R, d) == Good(u, R, d) /\ Len(u.vs) = Len(s.vs) /\ Kept(s, u, Len(s.vs))

\* One such change after the other
LEMMA DoneTwice ==
    ASSUME NEW s, NEW u, NEW w, NEW R, NEW d, Done(s, u, R, d), Done(u, w, R, d) PROVE Done(s, w, R, d)
BY KeptTwice DEF Done

\* The top entries have no more jumps than before.
LEMMA DonePlain ==
    ASSUME NEW s, NEW u, NEW R, NEW d, Done(s, u, R, d), NEW k PROVE (Plain(s, k) => Plain(u, k)) /\ (Calm(s, k) => Calm(u, k))
BY DEF Done, Plain, Calm, Kept

\* Nothing changes.
LEMMA DoneSelf == ASSUME NEW s, NEW R, NEW d, Good(s, R, d) PROVE Done(s, s, R, d)
BY QuietSelf, KeptAll DEF Done, Good

\* The chains stay the same.
LEMMA SameDone ==
    ASSUME NEW s, NEW R, NEW d, Good(s, R, d), NEW u, Same(s, u) PROVE Done(s, u, R, d)
BY SameGood DEF Same, Done

\* The top entry
LEMMA PlainTop ==
    ASSUME NEW s, IsState(s), Len(s.vs) >= 1 PROVE Plain(s, 1) <=> vtop(s).t = {}
<1>1. Len(s.vs) \in Nat BY Lengths
<1>2. \A i \in 1 .. Len(s.vs) : i > Len(s.vs) - 1 <=> i = Len(s.vs) BY <1>1
<1>3. Len(s.vs) \in 1 .. Len(s.vs) BY <1>1
<1>4. QED BY <1>2, <1>3 DEF Plain, vtop

\* and the two top entries have no jumps.
LEMMA PlainTwo ==
    ASSUME NEW s, IsState(s), Len(s.vs) >= 2
    PROVE  Plain(s, 2) <=> vtop(s).t = {} /\ vtop1(s).t = {}
<1>1. Len(s.vs) \in Nat BY Lengths
<1>2. \A i \in 1 .. Len(s.vs) : i > Len(s.vs) - 2 <=> i = Len(s.vs) \/ i = Len(s.vs) - 1 BY <1>1
<1>3. Len(s.vs) \in 1 .. Len(s.vs) /\ Len(s.vs) - 1 \in 1 .. Len(s.vs) BY <1>1
<1>4. QED BY <1>2, <1>3 DEF Plain, vtop, vtop1

\* All entries are as before when those below the top are.
LEMMA KeptTop ==
    ASSUME NEW s, NEW u, IsState(s), Len(s.vs) >= 1, Len(u.vs) = Len(s.vs), Kept(s, u, Len(s.vs) - 1),
           vtop(u).t = {}
    PROVE  Kept(s, u, Len(s.vs))
<1> DEFINE n == Len(s.vs)
<1>1. n \in Nat BY Lengths
<1>2. \A i \in 1 .. n : i \in 1 .. n - 1 \/ i = n BY <1>1
<1>3. u.nocode = s.nocode /\ \A i \in 1 .. n - 1 : s.vs[i].t = {} => u.vs[i].t = {} BY DEF Kept
<1>4. u.vs[n].t = {} /\ Len(u.vs) = n BY DEF vtop
<1> HIDE DEF n
<1>5. \A i \in 1 .. n : s.vs[i].t = {} => u.vs[i].t = {} BY <1>2, <1>3, <1>4
<1>6. n \in 0 .. n BY <1>1
<1>7. QED BY <1>3, <1>4, <1>5, <1>6 DEF Kept, n

\* The top entry is replaced by one with the same jumps.
LEMMA Retopped ==
    ASSUME NEW s, NEW R, NEW d, Good(s, R, d), Len(s.vs) >= 1,
           NEW e, IsEntry(e), e.t = vtop(s).t
    PROVE  Done(s, SetTop(s, e), R, d) /\ vtop(SetTop(s, e)) = e
<1> DEFINE u == SetTop(s, e)
           n == Len(s.vs)
           T == R \cup vtop(s).t
<1>0. IsState(s) /\ n \in Nat BY Lengths DEF Good
<1>1. n \in 1 .. n BY <1>0
<1>2. (T \ e.t) = R
  <2>1. \A x \in R : x \notin s.vs[n].t BY <1>1 DEF Good, Held
  <2>2. QED BY <2>1 DEF vtop
<1>3. e.t \subseteq T OBVIOUS
<1>4. CASE s.nocode # 0 => e.t = {}
  <2>1. /\ Good(u, T \ e.t, d) /\ Kept(s, u, n - 1) /\ Len(u.vs) = n /\ vtop(u) = e
        /\ \A i \in 1 .. n - 1 : u.vs[i] = s.vs[i]
    <3>1. e.t \subseteq R \cup vtop(s).t OBVIOUS
    <3>2. QED BY ONLY Good(s, R, d), Len(s.vs) >= 1, IsEntry(e), <3>1, <1>4, TopSet
  <2> HIDE DEF u, T
  <2>2. Kept(s, u, n)
    <3>1. \A i \in 1 .. n : i \in 1 .. n - 1 \/ i = n BY <1>0
    <3>2. u.vs[n] = e BY <2>1 DEF vtop
    <3>3. \A i \in 1 .. n : s.vs[i].t = {} => u.vs[i].t = {} BY <2>1, <3>1, <3>2 DEF vtop
    <3>4. u.nocode = s.nocode BY <2>1 DEF Kept
    <3>5. QED BY <1>0, <2>1, <3>3, <3>4 DEF Kept
  <2>3. QED BY <1>2, <2>1, <2>2 DEF Done, u
<1>5. CASE s.nocode # 0 /\ e.t # {}
  <2> DEFINE w == Drop(s)
             y == Append(Front(s.vs), e)
  <2>1. Same7(u, y, s.nocode, s.loc, s.ind, s.open, s.m, s.buried)
    <3>1. u = [s EXCEPT !.vs = y] BY DEF SetTop
    <3>2. IsRecord(s) BY <1>0, StateRecord
    <3> HIDE DEF y
    <3>3. QED BY <3>1, <3>2, PutVs
  <2> HIDE DEF u, y
  <2>2. IsRecord(u) /\ u.vs = y /\ u.nocode = s.nocode /\ u.ind = s.ind /\ u.open = s.open
    BY <2>1, PutFields
  <2>3. IsList(s.vs) BY <1>0 DEF IsState
  <2>4. IsList(Front(s.vs)) /\ Len(Front(s.vs)) = n - 1 /\ \A i \in 1 .. n - 1 : Front(s.vs)[i] = s.vs[i]
    BY <2>3, Shorter
  <2>5. IsList(y) /\ Len(y) = n - 1 + 1 /\ y[n - 1 + 1] = e /\ \A i \in 1 .. n - 1 : y[i] = s.vs[i]
    BY <2>4, Longer DEF y
  <2>6. n - 1 + 1 = n /\ \A i \in 1 .. n : i \in 1 .. n - 1 \/ i = n BY <1>0
  <2>7. \A i \in 1 .. n : IsEntry(u.vs[i]) /\ u.vs[i].t = s.vs[i].t
    <3>1. \A i \in 1 .. n : IsEntry(s.vs[i]) BY <1>0 DEF IsState
    <3>2. \A i \in 1 .. n - 1 : i \in 1 .. n BY <1>0
    <3>3. QED BY <2>2, <2>5, <2>6, <3>1, <3>2 DEF vtop
  <2>8. IsState(u) /\ Len(u.vs) = n
    <3>1. s.nocode \in Nat /\ s.ind \in Nat BY <1>0 DEF IsState
    <3>2. QED BY <2>2, <2>5, <2>6, <2>7, <3>1 DEF IsState, IsRecord
  <2>9. Same(s, u) BY <2>2, <2>7, <2>8 DEF Same
  <2>10. vtop(u) = e BY <2>2, <2>5, <2>6, <2>8 DEF vtop
  <2>11. QED BY <2>9, <2>10, SameDone DEF u
<1>6. QED BY <1>4, <1>5

-----------------------------------------------------------------------------
(* Loading                                                                 *)

\* load() of a pending jump resolves its chain,
LEMMA Loaded ==
    ASSUME NEW s, IsState(s), NEW r, NEW e
    PROVE  \E w : /\ Quiet(s, w) /\ load(s, r, e) = IF e.r \in Jmps THEN gsym(w, e.t) ELSE w
<1>1. CASE e.r \in Jmps
  <2> DEFINE through == IF e.r = "jmp" THEN 0 ELSE 1
             set == [k \in DOMAIN s.m |->
                        LET m == s.m[k]
                        IN CASE s.nocode # 0 -> m
                             [] s.nocode = 0 /\ m.at = 0 -> SetReg(m, r, through)
                             [] s.nocode = 0 /\ m.at \in e.t -> SetReg(m, r, 1 - through)
                             [] OTHER -> m]
             q == Emit(s, LAMBDA m : m)
             w == [q EXCEPT !.m = set]
  <2>1. load(s, r, e) = gsym(w, e.t) BY <1>1 DEF load
  <2>2. Quiet(s, q) BY MachineOnly, QuietSelf DEF Emit
  <2> HIDE DEF q, set
  <2>3. IsRecord(q) BY <2>2, StateRecord DEF Quiet
  <2>4. Same7(w, q.vs, q.nocode, q.loc, q.ind, q.open, set, q.buried) BY <2>3, PutM
  <2> HIDE DEF w
  <2>5. IsRecord(w) /\ w.vs = q.vs /\ w.nocode = q.nocode /\ w.ind = q.ind /\ w.open = q.open
    BY <2>4, PutFields
  <2>6. Quiet(q, w) BY <2>2, <2>5 DEF Quiet, IsState, IsRecord
  <2>7. Quiet(s, w) BY <2>2, <2>6, QuietTwice
  <2>8. QED BY <1>1, <2>1, <2>7
<1>2. CASE e.r \notin Jmps
  <2> DEFINE w == Emit(s, LAMBDA m : SetReg(m, r, Read(m, e)))
  <2>1. load(s, r, e) = w BY <1>2 DEF load
  <2>2. Quiet(s, w) BY MachineOnly, QuietSelf DEF Emit
  <2>3. QED BY <1>2, <2>1, <2>2
<1>3. QED BY <1>1, <1>2

\* and of another value changes the machines only.
LEMMA Moved ==
    ASSUME NEW s, IsState(s), NEW r, NEW e, e.r \notin Jmps PROVE Quiet(s, load(s, r, e))
BY Loaded

\* After that the top entry is a register.
LEMMA LoadedTop ==
    ASSUME NEW s, NEW R, NEW d, Good(s, R, d), Len(s.vs) >= 1, NEW r
    PROVE  LET u == SetTop(load(s, r, vtop(s)), InReg(r))
           IN  Done(s, u, R, d) /\ vtop(u) = InReg(r)
<1> DEFINE e == InReg(r)
           u == SetTop(load(s, r, vtop(s)), e)
           n == Len(s.vs)
<1>0. IsState(s) /\ n \in Nat BY Lengths DEF Good
<1>1. PICK w : /\ Quiet(s, w)
               /\ load(s, r, vtop(s)) = IF vtop(s).r \in Jmps THEN gsym(w, vtop(s).t) ELSE w
  BY <1>0, Loaded
<1>2. Good(w, R, d) /\ w.vs = s.vs /\ vtop(w) = vtop(s) /\ IsState(w) BY <1>1, QuietGood DEF Quiet, vtop
<1>3. u = Push(vpop(w), e)
  <2>1. CASE vtop(s).r \in Jmps
    <3>1. IsState(gsym(w, vtop(s).t))
      <4>1. IsRecord(w) BY <1>2, StateRecord
      <4> DEFINE mm == [k \in DOMAIN w.m |->
                        LET m == w.m[k] IN IF m.at \in vtop(s).t THEN [m EXCEPT !.at = 0] ELSE m]
                 o == w.open \ vtop(s).t
                 q == [w EXCEPT !.m = mm, !.open = o]
      <4>2. gsym(w, vtop(s).t) = q BY DEF gsym
      <4> HIDE DEF mm, o
      <4>3. Same7(q, w.vs, w.nocode, w.loc, w.ind, o, mm, w.buried) BY <4>1, PutMOpen
      <4> HIDE DEF q
      <4>4. IsRecord(q) /\ q.vs = w.vs /\ q.nocode = w.nocode /\ q.ind = w.ind BY <4>3, PutFields
      <4>5. QED BY <1>2, <4>2, <4>4 DEF IsState, IsRecord
    <3>2. u = Push(Drop(gsym(w, vtop(s).t)), e) BY <1>1, <2>1, <3>1, SetIsPush
    <3>3. QED BY <1>2, <2>1, <3>2 DEF vpop
  <2>2. CASE vtop(s).r \notin Jmps
    <3>1. u = Push(Drop(w), e) BY <1>1, <1>2, <2>2, SetIsPush
    <3>2. QED BY <1>2, <2>2, <3>1 DEF vpop
  <2>3. QED BY <2>1, <2>2
<1> DEFINE q == vpop(w)
<1> HIDE DEF q, u
<1>4. Good(q, R, d) /\ Kept(w, q, n - 1) /\ Len(q.vs) = n - 1 BY <1>2, Popped DEF q
<1>5. IsEntry(e) /\ e.t = {} BY PlainEntry DEF InReg
<1> HIDE DEF e
<1>6. /\ Good(Push(q, e), R \ e.t, d) /\ Kept(q, Push(q, e), Len(q.vs))
      /\ Len(Push(q, e).vs) = Len(q.vs) + 1 /\ vtop(Push(q, e)) = e
  <2>1. e.t \subseteq R /\ (q.nocode # 0 => e.t = {}) BY <1>5
  <2>2. QED BY <1>4, <1>5, <2>1, Pushed
<1>7. R \ e.t = R BY <1>5
<1>8. Good(u, R, d) /\ Len(u.vs) = n /\ vtop(u) = e /\ Kept(q, u, n - 1)
  <2>1. u = Push(q, e) BY <1>3 DEF q
  <2>2. n - 1 + 1 = n BY <1>0
  <2> HIDE DEF n
  <2>3. Len(u.vs) = n BY <1>4, <1>6, <2>1, <2>2
  <2>4. QED BY <1>4, <1>6, <1>7, <2>1, <2>3
<1>9. Kept(s, w, n) BY <1>0, <1>1, KeptAll
<1>10. Kept(s, w, n - 1)
  <2>1. n - 1 \in Nat /\ n - 1 <= n BY <1>0
  <2>2. QED BY <1>0, <1>2, <1>9, <2>1, KeptLess
<1>11. Kept(s, u, n - 1) BY <1>4, <1>8, <1>10, KeptTwice
<1>12. Kept(s, u, n) BY <1>0, <1>5, <1>8, <1>11, KeptTop
<1>13. QED BY <1>8, <1>12 DEF Done, u, e

\* gv()
LEMMA Gotten ==
    ASSUME NEW s, NEW R, NEW d, Good(s, R, d), Len(s.vs) >= 1, NEW rc, Class(rc)
    PROVE  LET u == gv(s, rc) IN Done(s, u, R, d) /\ vtop(u).t = {} /\ vtop(u).r \in rc
<1> DEFINE g == get_reg(s, rc)
<1>0. IsState(s) /\ Len(s.vs) \in Nat BY Lengths DEF Good
<1>1. CASE gv(s, rc) = s /\ vtop(s).r \in rc
  <2>1. IsEntry(vtop(s)) BY <1>0 DEF IsState, vtop
  <2>2. vtop(s).r \notin Jmps BY <1>1 DEF Class, RC_INT, Jmps
  <2>3. vtop(s).t = {} BY <2>1, <2>2 DEF IsEntry
  <2>4. QED BY <1>1, <2>3, DoneSelf
<1>2. CASE gv(s, rc) = LoadTop(g)
  <2>1. Same(s, g.s) /\ g.r \in rc BY <1>0, GotRegister
  <2>2. Done(s, g.s, R, d) BY <2>1, SameDone
  <2> HIDE DEF g
  <2>3. Good(g.s, R, d) /\ Len(g.s.vs) >= 1 BY <2>2 DEF Done
  <2>4. Done(g.s, LoadTop(g), R, d) /\ vtop(LoadTop(g)) = InReg(g.r) BY <2>3, LoadedTop DEF LoadTop
  <2>5. InReg(g.r).t = {} /\ InReg(g.r).r = g.r BY DEF InReg, Entry
  <2>6. QED BY <1>2, <2>1, <2>2, <2>4, <2>5, DoneTwice
<1>3. QED BY <1>1, <1>2 DEF gv

\* The register classes of the code
LEMMA Classes == Class(RC_INT) /\ Class({"rax"}) /\ Class({"rcx"})
BY DEF Class, RC_INT

\* Pending comparisons and jumps are loaded before something is pushed.
LEMMA IsSettled ==
    ASSUME NEW s, NEW R, NEW d, Good(s, R, d)
    PROVE  LET u == Settle(s)
           IN  Done(s, u, R, d) /\ (s.nocode = 0 /\ Len(s.vs) >= 1 => vtop(u).t = {})
<1>0. IsState(s) /\ Len(s.vs) \in Nat BY Lengths DEF Good
<1>1. CASE Len(s.vs) > 0 /\ s.nocode = 0 /\ vtop(s).r \in Lazy
  <2>1. Settle(s) = gv(s, RC_INT) BY <1>1 DEF Settle
  <2>2. QED BY <1>0, <1>1, <2>1, Gotten, Classes
<1>2. CASE ~(Len(s.vs) > 0 /\ s.nocode = 0 /\ vtop(s).r \in Lazy)
  <2>1. Settle(s) = s BY <1>2 DEF Settle
  <2>2. ASSUME s.nocode = 0 /\ Len(s.vs) >= 1 PROVE vtop(s).t = {}
    <3>1. IsEntry(vtop(s)) BY <1>0, <2>2 DEF IsState, vtop
    <3>2. vtop(s).r \notin Jmps BY <1>0, <1>2, <2>2 DEF Lazy
    <3>3. QED BY <3>1, <3>2 DEF IsEntry
  <2>3. QED BY <2>1, <2>2, DoneSelf
<1>3. QED BY <1>1, <1>2

\* Entries are exchanged: p says where each of them came from.
Exchanged(s, u, p, q) ==
    /\ IsRecord(u) /\ IsList(u.vs) /\ u.nocode = s.nocode /\ u.ind = s.ind /\ u.open = s.open
    /\ Len(u.vs) = Len(s.vs)
    /\ \A i \in 1 .. Len(s.vs) : /\ p[i] \in 1 .. Len(s.vs) /\ q[i] \in 1 .. Len(s.vs)
                                 /\ q[p[i]] = i /\ p[q[i]] = i
    /\ \A i \in 1 .. Len(s.vs) : u.vs[i] = s.vs[p[i]]
    /\ s.nocode # 0 => \A i \in 1 .. Len(s.vs) : s.vs[p[i]].t = {} \/ p[i] = i

\* Then every jump is still in one chain.
LEMMA Permuted ==
    ASSUME NEW s, NEW R, NEW d, Good(s, R, d), NEW u, NEW p, NEW q, Exchanged(s, u, p, q)
    PROVE  Good(u, R, d)
<1> DEFINE n == Len(s.vs)
<1> HIDE DEF n
<1>1. /\ \A i \in 1 .. n : p[i] \in 1 .. n /\ q[i] \in 1 .. n /\ q[p[i]] = i /\ p[q[i]] = i
      /\ \A i \in 1 .. n : u.vs[i] = s.vs[p[i]]
      /\ Len(s.vs) = n /\ Len(u.vs) = n
  BY DEF n, Exchanged
<1>0. /\ IsRecord(u) /\ IsList(u.vs) /\ u.nocode = s.nocode /\ u.ind = s.ind /\ u.open = s.open
      /\ s.nocode # 0 => \A i \in 1 .. n : s.vs[p[i]].t = {} \/ p[i] = i
  BY DEF n, Exchanged
<1>2. /\ \A x \in s.open : x \in 1 .. s.ind /\ (x \in R \/ \E i \in 1 .. n : x \in s.vs[i].t)
      /\ \A x \in R : x \in s.open /\ \A i \in 1 .. n : x \notin s.vs[i].t
      /\ \A i \in 1 .. n : \A x \in s.vs[i].t : x \in s.open /\ \A j \in 1 .. n : x \in s.vs[j].t => j = i
  BY DEF Good, Held, n
<1>3. IsState(u)
  <2>1. \A i \in 1 .. n : IsEntry(s.vs[i]) BY DEF Good, IsState, n
  <2>2. \A i \in 1 .. n : IsEntry(u.vs[i]) BY <1>1, <2>1
  <2>3. s.nocode \in Nat /\ s.ind \in Nat BY DEF Good, IsState
  <2>4. QED BY <1>0, <1>1, <2>2, <2>3 DEF IsState, IsRecord
<1>4. Held(u, R)
  <2>1. ASSUME NEW x \in u.open PROVE x \in 1 .. u.ind /\ (x \in R \/ \E i \in 1 .. n : x \in u.vs[i].t)
    <3>1. x \in 1 .. s.ind /\ (x \in R \/ \E i \in 1 .. n : x \in s.vs[i].t) BY <1>0, <1>2, <2>1
    <3>2. CASE x \in R BY <1>0, <3>1, <3>2
    <3>3. ASSUME NEW i \in 1 .. n, x \in s.vs[i].t PROVE x \in u.vs[q[i]].t /\ q[i] \in 1 .. n
      BY <1>1, <3>3
    <3>4. QED BY <1>0, <3>1, <3>2, <3>3
  <2>2. ASSUME NEW x \in R PROVE x \in u.open /\ \A i \in 1 .. n : x \notin u.vs[i].t
    BY <1>0, <1>1, <1>2
  <2>3. ASSUME NEW i \in 1 .. n, NEW x \in u.vs[i].t
        PROVE  x \in u.open /\ \A j \in 1 .. n : x \in u.vs[j].t => j = i
    <3>1. x \in s.vs[p[i]].t /\ p[i] \in 1 .. n BY <1>1
    <3>2. x \in s.open /\ \A j \in 1 .. n : x \in s.vs[j].t => j = p[i] BY <1>2, <3>1
    <3>3. ASSUME NEW j \in 1 .. n, x \in u.vs[j].t PROVE j = i
      <4>1. p[j] \in 1 .. n /\ x \in s.vs[p[j]].t BY <1>1, <3>3
      <4>2. p[j] = p[i] BY <3>2, <4>1
      <4>3. QED BY <1>1, <4>2
    <3>4. QED BY <1>0, <3>2, <3>3
  <2>4. QED BY <1>1, <2>1, <2>2, <2>3 DEF Held
<1>5. Idle(u, d)
  <2>1. s.nocode # 0 => \A i \in 1 .. n : i > d => s.vs[i].t = {} BY DEF Good, Idle, n
  <2>2. QED BY <1>0, <1>1, <2>1 DEF Idle
<1>6. QED BY <1>3, <1>4, <1>5 DEF Good

\* The two top entries are exchanged.
LEMMA SwappedTop ==
    ASSUME NEW s, NEW R, NEW d, Good(s, R, d), Len(s.vs) >= 2, Calm(s, 2)
    PROVE  LET u == Swapped(s)
               n == Len(s.vs)
           IN  /\ Good(u, R, d) /\ Len(u.vs) = n /\ u.nocode = s.nocode
               /\ \A i \in 1 .. n - 2 : u.vs[i] = s.vs[i]
               /\ u.vs[n] = s.vs[n - 1] /\ u.vs[n - 1] = s.vs[n]
<1> DEFINE u == Swapped(s)
           n == Len(s.vs)
           f == Append(Front(s.vs), vtop1(s))
           w == [s EXCEPT !.vs = f]
           y == Front(Front(f)) \o <<vtop(s), Last(f)>>
           p == [i \in 1 .. n |-> IF i = n THEN n - 1 ELSE IF i = n - 1 THEN n ELSE i]
<1>0. IsState(s) /\ n \in Nat /\ IsList(s.vs) /\ IsRecord(s) BY Lengths, StateRecord DEF Good
<1>1. IsList(f) /\ Len(f) = n /\ f[n] = s.vs[n - 1] /\ \A i \in 1 .. n - 1 : f[i] = s.vs[i]
  <2>1. IsList(Front(s.vs)) /\ Len(Front(s.vs)) = n - 1 /\ \A i \in 1 .. n - 1 : Front(s.vs)[i] = s.vs[i]
    BY <1>0, Shorter
  <2>2. n - 1 + 1 = n BY <1>0
  <2>3. vtop1(s) = s.vs[n - 1] BY DEF vtop1
  <2> HIDE DEF n
  <2>4. QED BY <2>1, <2>2, <2>3, Longer
<1>2. Same7(w, f, s.nocode, s.loc, s.ind, s.open, s.m, s.buried)
  <2> HIDE DEF f
  <2>1. QED BY <1>0, PutVs
<1>3. SetTop(s, vtop1(s)) = w BY DEF SetTop
<1>4. u = [w EXCEPT !.vs = Front(Front(w.vs)) \o <<vtop(s), Last(w.vs)>>]
  <2> HIDE DEF w
  <2>1. QED BY <1>3 DEF Swapped, SetTop1
<1> HIDE DEF w, f
<1>5. /\ IsRecord(w) /\ w.vs = f /\ w.nocode = s.nocode /\ w.loc = s.loc /\ w.ind = s.ind /\ w.open = s.open
      /\ w.m = s.m /\ w.buried = s.buried
  BY <1>2, PutFields
<1>6. u = [w EXCEPT !.vs = y] BY <1>4, <1>5
<1>7. /\ IsList(y) /\ Len(y) = n /\ y[n] = f[n] /\ y[n - 1] = vtop(s)
      /\ \A i \in 1 .. n - 2 : y[i] = f[i]
  <2>1. Len(f) >= 2 BY <1>1
  <2> DEFINE e == vtop(s)
             k == Len(f)
  <2> HIDE DEF e
  <2>2. /\ IsList(y) /\ Len(y) = k /\ y[k] = f[k] /\ y[k - 1] = e /\ \A i \in 1 .. k - 2 : y[i] = f[i]
    BY <1>1, <2>1, Second DEF e
  <2>3. QED BY <1>1, <2>2 DEF e
<1> HIDE DEF y, u
<1>8. Same7(u, y, w.nocode, w.loc, w.ind, w.open, w.m, w.buried) BY <1>5, <1>6, PutVs
<1>9. IsRecord(u) /\ u.vs = y /\ u.nocode = s.nocode /\ u.ind = s.ind /\ u.open = s.open
  BY <1>5, <1>8, PutFields
<1>10. /\ u.vs[n] = s.vs[n - 1] /\ u.vs[n - 1] = s.vs[n] /\ Len(u.vs) = n /\ IsList(u.vs)
       /\ \A i \in 1 .. n - 2 : u.vs[i] = s.vs[i]
  <2>1. \A i \in 1 .. n - 2 : i \in 1 .. n - 1 BY <1>0
  <2>2. vtop(s) = s.vs[n] BY DEF vtop
  <2> HIDE DEF n
  <2>3. QED BY <1>1, <1>7, <1>9, <2>1, <2>2
<1>11. \A i \in 1 .. n : i \in 1 .. n - 2 \/ i = n - 1 \/ i = n BY <1>0
<1>12. n \in 1 .. n /\ n - 1 \in 1 .. n /\ n # n - 1 BY <1>0
<1>13. \A i \in 1 .. n : p[i] \in 1 .. n /\ p[p[i]] = i BY <1>12
<1>14. \A i \in 1 .. n : u.vs[i] = s.vs[p[i]]
  <2>1. p[n] = n - 1 /\ p[n - 1] = n /\ \A i \in 1 .. n - 2 : p[i] = i BY <1>0, <1>12
  <2> HIDE DEF p, n
  <2>2. QED BY <1>10, <1>11, <2>1
<1>15. s.nocode # 0 => \A i \in 1 .. n : s.vs[p[i]].t = {} \/ p[i] = i
  <2>1. \A i \in 1 .. n : p[i] = i \/ (p[i] \in 1 .. n /\ p[i] > n - 2) BY <1>0, <1>12
  <2> HIDE DEF p, n
  <2>2. s.nocode # 0 => \A i \in 1 .. n : i > n - 2 => s.vs[i].t = {} BY DEF Calm, Plain, n
  <2>3. QED BY <2>1, <2>2
<1> HIDE DEF p
<1>18. Exchanged(s, u, p, p) BY <1>9, <1>10, <1>13, <1>14, <1>15 DEF Exchanged
<1>16. Good(u, R, d) BY <1>18, Permuted
<1>17. QED BY <1>9, <1>10, <1>16 DEF u

\* vswap()
LEMMA Swap ==
    ASSUME NEW s, NEW R, NEW d, Good(s, R, d), Len(s.vs) >= 2, Calm(s, 2)
    PROVE  LET u == vswap(s)
               n == Len(s.vs)
           IN  /\ Good(u, R, d) /\ Len(u.vs) = n /\ Kept(s, u, n - 2)
               /\ vtop1(u).t = {}
               /\ vtop1(s).t = {} => vtop(u).t = {}
<1> DEFINE w == Settle(s)
           u == Swapped(w)
           n == Len(s.vs)
<1>0. IsState(s) /\ n \in Nat BY Lengths DEF Good
<1>1. Done(s, w, R, d) /\ (s.nocode = 0 => vtop(w).t = {})
  <2>1. Len(s.vs) >= 1 BY <1>0
  <2>2. QED BY <2>1, IsSettled
<1> HIDE DEF w
<1>2. Good(w, R, d) /\ Len(w.vs) = n /\ Kept(s, w, n) /\ Calm(w, 2) BY <1>1, DonePlain DEF Done
<1>3. /\ Good(u, R, d) /\ Len(u.vs) = n /\ u.nocode = w.nocode
      /\ \A i \in 1 .. n - 2 : u.vs[i] = w.vs[i]
      /\ u.vs[n] = w.vs[n - 1] /\ u.vs[n - 1] = w.vs[n]
  BY <1>2, SwappedTop
<1>4. vtop(w).t = {}
  <2>1. CASE s.nocode = 0 BY <1>1, <2>1
  <2>2. CASE s.nocode # 0
    <3>1. w.nocode # 0 BY <1>2, <2>2 DEF Kept
    <3>2. Plain(w, 2) BY <1>2, <3>1 DEF Calm
    <3>3. QED BY <1>2, <3>2, PlainTwo DEF Good
  <2>3. QED BY <2>1, <2>2
<1>5. vtop1(u).t = {} /\ vtop(u) = vtop1(w) BY <1>2, <1>3, <1>4 DEF vtop, vtop1
<1>6. ASSUME vtop1(s).t = {} PROVE vtop(u).t = {}
  <2>1. n - 1 \in 1 .. n BY <1>0
  <2>2. w.vs[n - 1].t = {} BY <1>2, <1>6, <2>1 DEF Kept, vtop1
  <2>3. QED BY <1>2, <1>5, <2>2 DEF vtop1
<1>7. Kept(s, u, n - 2)
  <2>1. n - 2 \in 0 .. n /\ \A i \in 1 .. n - 2 : i \in 1 .. n BY <1>0
  <2> HIDE DEF u
  <2>2. QED BY <1>2, <1>3, <2>1 DEF Kept
<1>8. QED BY <1>3, <1>5, <1>6, <1>7 DEF vswap, w

\* An entry of the stack,
LEMMA GoodEntry ==
    ASSUME NEW s, NEW R, NEW d, Good(s, R, d), NEW i \in 1 .. Len(s.vs)
    PROVE  IsEntry(s.vs[i]) /\ (s.vs[i].r \notin Jmps => s.vs[i].t = {})
BY DEF Good, IsState, IsEntry

\* and the one on the top
LEMMA GoodTop ==
    ASSUME NEW s, NEW R, NEW d, Good(s, R, d), Len(s.vs) >= 1
    PROVE  IsEntry(vtop(s)) /\ (vtop(s).r \notin Jmps => vtop(s).t = {})
<1>1. Len(s.vs) \in Nat BY Lengths DEF Good
<1>2. Len(s.vs) \in 1 .. Len(s.vs) BY <1>1
<1>3. QED BY <1>2, GoodEntry DEF vtop

\* vsetc()
LEMMA Put ==
    ASSUME NEW s, NEW R, NEW d, Good(s, R, d), NEW e, IsEntry(e), e.t \subseteq R, s.nocode # 0 => e.t = {}
    PROVE  LET u == vsetc(s, e)
               n == Len(s.vs)
           IN  /\ Good(u, R \ e.t, d) /\ Kept(s, u, n) /\ Len(u.vs) = n + 1 /\ vtop(u) = e
               /\ s.nocode = 0 /\ n >= 1 => vtop1(u).t = {}
<1> DEFINE w == Settle(s)
           u == Push(w, e)
           n == Len(s.vs)
<1>0. IsState(s) /\ n \in Nat BY Lengths DEF Good
<1>1. Done(s, w, R, d) /\ (s.nocode = 0 /\ n >= 1 => vtop(w).t = {}) BY IsSettled
<1> HIDE DEF w
<1>2. Good(w, R, d) /\ Len(w.vs) = n /\ Kept(s, w, n) /\ (w.nocode # 0 => e.t = {}) BY <1>1 DEF Done, Kept
<1>3. /\ Good(u, R \ e.t, d) /\ Kept(w, u, n)
      /\ Len(u.vs) = n + 1 /\ vtop(u) = e
      /\ \A i \in 1 .. n : u.vs[i] = w.vs[i]
  <2> HIDE DEF n
  <2>1. QED BY <1>2, Pushed
<1>4. Kept(s, u, n) BY <1>2, <1>3, KeptTwice
<1>5. ASSUME s.nocode = 0, n >= 1 PROVE vtop1(u).t = {}
  <2>1. n \in 1 .. n /\ n + 1 - 1 = n BY <1>0, <1>5
  <2>2. u.vs[n] = w.vs[n] BY <1>3, <2>1
  <2>3. QED BY <1>1, <1>2, <1>3, <1>5, <2>1, <2>2 DEF vtop, vtop1
<1>6. QED BY <1>3, <1>4, <1>5 DEF vsetc, w

\* A value without jumps is pushed.
LEMMA PutPlain ==
    ASSUME NEW s, NEW R, NEW d, Good(s, R, d), NEW e, IsEntry(e), e.t = {}
    PROVE  LET u == vsetc(s, e)
               n == Len(s.vs)
           IN  /\ Good(u, R, d) /\ Kept(s, u, n) /\ Len(u.vs) = n + 1 /\ vtop(u) = e
               /\ s.nocode = 0 /\ n >= 1 => vtop1(u).t = {}
<1>1. e.t \subseteq R /\ R \ e.t = R /\ (s.nocode # 0 => e.t = {}) OBVIOUS
<1>2. LET u == vsetc(s, e)
          n == Len(s.vs)
      IN  /\ Good(u, R \ e.t, d) /\ Kept(s, u, n) /\ Len(u.vs) = n + 1 /\ vtop(u) = e
          /\ s.nocode = 0 /\ n >= 1 => vtop1(u).t = {}
  BY ONLY Good(s, R, d), IsEntry(e), <1>1, Put
<1>3. QED BY <1>1, <1>2

\* vdup()
LEMMA Duplicated ==
    ASSUME NEW s, NEW R, NEW d, Good(s, R, d), Len(s.vs) >= 1, vtop(s).t = {}
    PROVE  LET u == vdup(s)
               n == Len(s.vs)
           IN  Good(u, R, d) /\ Kept(s, u, n) /\ Len(u.vs) = n + 1 /\ vtop(u).t = {} /\ vtop1(u).t = {}
<1> DEFINE e == vtop(s)
           u == Push(s, e)
           n == Len(s.vs)
<1>0. n \in Nat /\ n \in 1 .. n /\ n + 1 - 1 = n BY Lengths DEF Good
<1>1. IsEntry(e) BY GoodTop
<1>2. e.t \subseteq R /\ R \ e.t = R OBVIOUS
<1>3. /\ Good(u, R \ e.t, d) /\ Kept(s, u, n) /\ Len(u.vs) = n + 1 /\ vtop(u) = e
      /\ \A i \in 1 .. n : u.vs[i] = s.vs[i]
  <2> HIDE DEF e
  <2>1. e.t = {} BY DEF e
  <2>2. QED BY <1>1, <1>2, <2>1, Pushed
<1>4. vtop1(u) = e BY <1>0, <1>3 DEF vtop, vtop1
<1>5. QED BY <1>2, <1>3, <1>4 DEF vdup

\* Whether a value is an lvalue does not matter for its jumps.
LEMMA Changed ==
    ASSUME NEW e, IsEntry(e), NEW l PROVE LET x == [e EXCEPT !.lval = l] IN IsEntry(x) /\ x.t = e.t /\ x.r = e.r
BY DEF IsEntry

\* gaddrof()
LEMMA AddressTaken ==
    ASSUME NEW s, NEW R, NEW d, Good(s, R, d), Len(s.vs) >= 1
    PROVE  Done(s, gaddrof(s), R, d)
<1> DEFINE x == [vtop(s) EXCEPT !.lval = FALSE]
<1>1. CASE vtop(s).r = "llocal"
  <2>1. vtop(s).t = {} BY <1>1, GoodTop DEF Jmps
  <2>2. IsEntry(Local(vtop(s).c)) /\ Local(vtop(s).c).t = {} BY PlainEntry DEF Local
  <2> DEFINE e == Local(vtop(s).c)
  <2>3. gaddrof(s) = SetTop(s, e) BY <1>1 DEF gaddrof
  <2>4. IsEntry(e) /\ e.t = vtop(s).t BY <2>1, <2>2
  <2> HIDE DEF e
  <2>5. QED BY <2>3, <2>4, Retopped
<1>2. CASE vtop(s).r # "llocal"
  <2>1. IsEntry(x) /\ x.t = vtop(s).t BY GoodTop, Changed
  <2>2. gaddrof(s) = SetTop(s, x) BY <1>2 DEF gaddrof
  <2> HIDE DEF x
  <2>3. QED BY <2>1, <2>2, Retopped
<1>3. QED BY <1>1, <1>2

\* vrotb()
LEMMA RotatedTop ==
    ASSUME NEW s, NEW R, NEW d, Good(s, R, d), NEW k \in 1 .. Len(s.vs), Calm(s, k)
    PROVE  LET u == vrotb(s, k)
               n == Len(s.vs)
           IN  /\ Good(u, R, d) /\ Len(u.vs) = n /\ u.nocode = s.nocode /\ Kept(s, u, n - k)
               /\ u.vs[n] = s.vs[n - k + 1]
               /\ \A i \in n - k + 1 .. n - 1 : u.vs[i] = s.vs[i + 1]
<1> DEFINE u == vrotb(s, k)
           n == Len(s.vs)
           c == n - k
           y == SubSeq(s.vs, 1, c) \o SubSeq(s.vs, c + 2, c + k) \o <<s.vs[c + 1]>>
           p == [i \in 1 .. n |-> IF i <= c THEN i ELSE IF i = n THEN c + 1 ELSE i + 1]
           q == [i \in 1 .. n |-> IF i <= c THEN i ELSE IF i = c + 1 THEN n ELSE i - 1]
<1>0. IsState(s) /\ n \in Nat /\ IsList(s.vs) /\ IsRecord(s) /\ k \in 1 .. n /\ c \in 0 .. n - 1 /\ k \in Nat
  BY Lengths, StateRecord DEF Good
<1>1. /\ IsList(y) /\ Len(y) = n /\ y[n] = s.vs[c + 1]
      /\ \A i \in 1 .. c : y[i] = s.vs[i]
      /\ \A i \in c + 1 .. n - 1 : y[i] = s.vs[i + 1]
  BY <1>0, Rotated
<1>2. u = [s EXCEPT !.vs = y] BY DEF vrotb
<1> HIDE DEF y
<1>3. Same7(u, y, s.nocode, s.loc, s.ind, s.open, s.m, s.buried) BY <1>0, <1>2, PutVs
<1> HIDE DEF u
<1>4. IsRecord(u) /\ u.vs = y /\ u.nocode = s.nocode /\ u.ind = s.ind /\ u.open = s.open
  BY <1>3, PutFields
<1> HIDE DEF n, c
<1>5. \A i \in 1 .. n : p[i] \in 1 .. n /\ q[i] \in 1 .. n /\ q[p[i]] = i /\ p[q[i]] = i
  BY <1>0
<1>6. \A i \in 1 .. n : i \in 1 .. c \/ i \in c + 1 .. n - 1 \/ i = n BY <1>0
<1>7. \A i \in 1 .. n : u.vs[i] = s.vs[p[i]]
  <2>1. p[n] = c + 1 /\ (\A i \in 1 .. c : p[i] = i) /\ \A i \in c + 1 .. n - 1 : p[i] = i + 1
    BY <1>0
  <2> HIDE DEF p
  <2>2. QED BY <1>1, <1>4, <1>6, <2>1
<1>8. s.nocode # 0 => \A i \in 1 .. n : s.vs[p[i]].t = {} \/ p[i] = i
  <2>1. \A i \in 1 .. n : p[i] = i \/ (p[i] \in 1 .. n /\ p[i] > n - k) BY <1>0 DEF c
  <2> HIDE DEF p
  <2>2. s.nocode # 0 => \A i \in 1 .. n : i > n - k => s.vs[i].t = {} BY DEF Calm, Plain, n
  <2>3. QED BY <2>1, <2>2
<1> HIDE DEF p, q
<1>9. Exchanged(s, u, p, q) BY <1>0, <1>1, <1>4, <1>5, <1>7, <1>8 DEF Exchanged, n
<1>10. Good(u, R, d) BY <1>9, Permuted
<1>11. Kept(s, u, c)
  <2>1. c \in 0 .. n BY <1>0
  <2>2. QED BY <1>1, <1>4, <2>1 DEF Kept, n
<1>12. QED BY <1>1, <1>4, <1>10, <1>11 DEF u, n, c

-----------------------------------------------------------------------------
(* Jumps                                                                   *)

\* A jump is emitted and added to a chain.
Sited(e, site, u) == u = [e EXCEPT !.ind = site, !.open = e.open \cup {site}]

\* It is then in that chain only.
LEMMA SiteAdded ==
    ASSUME NEW s, NEW R, NEW d, Good(s, R, d), s.nocode = 0, NEW e, Quiet(s, e), NEW site, site = s.ind + 1,
           NEW u, Sited(e, site, u)
    PROVE  Good(u, R \cup {site}, d) /\ u.vs = s.vs /\ u.nocode = s.nocode /\ site \notin R
<1> DEFINE o == s.open \cup {site}
           n == Len(s.vs)
<1>0. IsState(e) /\ IsRecord(e) /\ e.vs = s.vs /\ e.nocode = s.nocode /\ e.open = s.open /\ e.ind = s.ind
  BY StateRecord DEF Quiet
<1>1. Same7(u, e.vs, e.nocode, e.loc, site, o, e.m, e.buried)
  <2>1. u = [e EXCEPT !.ind = site, !.open = o] BY <1>0 DEF Sited
  <2> HIDE DEF o
  <2>2. QED BY <1>0, <2>1, PutIndOpen
<1>2. IsRecord(u) /\ u.vs = s.vs /\ u.nocode = s.nocode /\ u.ind = site /\ u.open = o
  <2> HIDE DEF o
  <2>1. QED BY <1>0, <1>1, PutFields
<1>3. s.ind \in Nat /\ site \in Nat BY DEF Good, IsState
<1>4. IsState(u) BY <1>0, <1>2, <1>3 DEF IsState, IsRecord
<1>5. /\ \A x \in s.open : x \in 1 .. s.ind /\ (x \in R \/ \E i \in 1 .. n : x \in s.vs[i].t)
      /\ \A x \in R : x \in s.open /\ \A i \in 1 .. n : x \notin s.vs[i].t
      /\ \A i \in 1 .. n : \A x \in s.vs[i].t : x \in s.open /\ \A j \in 1 .. n : x \in s.vs[j].t => j = i
  BY DEF Good, Held
<1>6. site \notin s.open BY <1>3, <1>5
<1>7. \A x \in 1 .. s.ind : x \in 1 .. site BY <1>3
<1>8. site \in 1 .. site BY <1>3
<1>9. Held(u, R \cup {site})
  <2> HIDE DEF n
  <2>1. \A x \in u.open : x \in 1 .. u.ind /\ (x \in R \cup {site} \/ \E i \in 1 .. n : x \in u.vs[i].t)
    BY <1>2, <1>5, <1>7, <1>8
  <2>2. \A x \in R \cup {site} : x \in u.open /\ \A i \in 1 .. n : x \notin u.vs[i].t
    BY <1>2, <1>5, <1>6
  <2>3. \A i \in 1 .. n : \A x \in u.vs[i].t : x \in u.open /\ \A j \in 1 .. n : x \in u.vs[j].t => j = i
    BY <1>2, <1>5
  <2>4. Len(u.vs) = n BY <1>2 DEF n
  <2>5. QED BY <2>1, <2>2, <2>3, <2>4 DEF Held
<1>10. Idle(u, d) BY <1>2 DEF Idle
<1>12. site \notin R BY <1>5, <1>6
<1>13. QED BY <1>2, <1>4, <1>9, <1>10, <1>12 DEF Good

\* What a test may do to the state s, whose chain t is held elsewhere
Branched(s, R, d, t, b) ==
    /\ t \subseteq b.t /\ (b.t \ t) \cap R = {} /\ (s.nocode # 0 => b.t = t)
    /\ Good(b.s, (R \ t) \cup b.t, d) /\ b.s.vs = s.vs /\ b.s.nocode = s.nocode

\* gjmp() does so unless no code is generated.
LEMMA Jumped ==
    ASSUME NEW s, NEW R, NEW d, Good(s, R, d), NEW t \in SUBSET R PROVE Branched(s, R, d, t, gjmp(s, t))
<1>0. (R \ t) \cup t = R OBVIOUS
<1>1. CASE s.nocode # 0
  <2>1. gjmp(s, t) = [s |-> s, t |-> t] BY <1>1 DEF gjmp, Branch
  <2>2. QED BY <1>0, <2>1 DEF Branched
<1>2. CASE s.nocode = 0
  <2> DEFINE site == s.ind + 1
             e == Emit(s, LAMBDA m : IF TRUE THEN [m EXCEPT !.at = site] ELSE m)
             u == [e EXCEPT !.ind = site, !.open = @ \cup {site}]
  <2>1. gjmp(s, t) = [s |-> u, t |-> t \cup {site}] BY <1>2 DEF gjmp, Branch
  <2>2. Quiet(s, e)
    <3> HIDE DEF site
    <3>1. IsState(s) BY DEF Good
    <3>2. QED BY <3>1, MachineOnly, QuietSelf DEF Emit
  <2> HIDE DEF e
  <2>3. /\ Good(u, R \cup {site}, d) /\ u.vs = s.vs /\ u.nocode = s.nocode /\ site \notin R
    <3>1. site = s.ind + 1 /\ Sited(e, site, u) BY DEF Sited
    <3> HIDE DEF site, u
    <3>2. QED BY <1>2, <2>2, <3>1, SiteAdded
  <2> HIDE DEF u, site
  <2>4. (R \ t) \cup (t \cup {site}) = R \cup {site} OBVIOUS
  <2>5. QED BY <1>2, <2>1, <2>3, <2>4 DEF Branched
<1>3. QED BY <1>1, <1>2 DEF Good, IsState

\* The parts of an entry: its comparison,
LEMMA WithOp ==
    ASSUME NEW e, IsEntry(e), NEW op
    PROVE  LET x == [e EXCEPT !.op = op] IN IsEntry(x) /\ x.t = e.t /\ x.r = e.r /\ x.lval = e.lval
BY DEF IsEntry

\* its constant,
LEMMA WithC ==
    ASSUME NEW e, IsEntry(e), NEW c PROVE LET x == [e EXCEPT !.c = c] IN IsEntry(x) /\ x.t = e.t
BY DEF IsEntry

\* and its chain
LEMMA WithChain ==
    ASSUME NEW e, IsEntry(e), NEW t, e.r \in Jmps
    PROVE  LET x == [e EXCEPT !.t = t] IN IsEntry(x) /\ x.t = t /\ x.r = e.r
BY DEF IsEntry

\* A comparison has no jumps yet.
LEMMA FlagsEntry ==
    ASSUME NEW op PROVE IsEntry(Flags(op)) /\ Flags(op).t = {} /\ Flags(op).r = "cmp" /\ Flags(op).lval = FALSE
<1> DEFINE e == Entry("cmp", FALSE, 0)
<1>1. IsEntry(e) /\ e.t = {} BY PlainEntry
<1>2. e.r = "cmp" /\ e.lval = FALSE BY DEF Entry
<1>3. Flags(op) = [e EXCEPT !.op = op] BY DEF Flags
<1> HIDE DEF e
<1>4. QED BY <1>1, <1>2, <1>3, WithOp

\* A pending jump has the ones it was made of.
LEMMA JumpEntry ==
    ASSUME NEW r \in Jmps, NEW t PROVE IsEntry(Jump(r, t)) /\ Jump(r, t).t = t
<1> DEFINE e == Entry(r, FALSE, 0)
<1>1. IsEntry(e) /\ e.r = r
  <2>1. e.r = r BY DEF Entry
  <2>2. QED BY <2>1, PlainEntry
<1>3. Jump(r, t) = [e EXCEPT !.t = t] BY DEF Jump
<1> HIDE DEF e
<1>4. QED BY <1>1, <1>3, WithChain

-----------------------------------------------------------------------------
(* Operators.  The two operands have no jumps when they are computed with. *)

\* Two operands without jumps are on the top.
Pair(s, R, d) == Good(s, R, d) /\ Len(s.vs) >= 2 /\ vtop(s).t = {} /\ vtop1(s).t = {}

\* u has one entry less than s.
Single(s, u, R, d) == Good(u, R, d) /\ Len(u.vs) = Len(s.vs) - 1 /\ Kept(s, u, Len(s.vs) - 1)

\* Nothing about them has to be loaded first.
LEMMA PairPlain == ASSUME NEW s, NEW R, NEW d, Pair(s, R, d) PROVE Plain(s, 2) /\ Calm(s, 2) /\ Len(s.vs) \in Nat
BY PlainTwo, Lengths DEF Pair, Good, Calm

\* They stay so when the entries are changed,
LEMMA PairDone ==
    ASSUME NEW s, NEW R, NEW d, Pair(s, R, d), NEW u, Done(s, u, R, d) PROVE Pair(u, R, d)
<1>1. Plain(u, 2) BY PairPlain, DonePlain
<1>2. Good(u, R, d) /\ Len(u.vs) >= 2 BY DEF Done, Pair
<1>3. QED BY <1>1, <1>2, PlainTwo DEF Pair, Good

\* loaded
LEMMA PairGotten ==
    ASSUME NEW s, NEW R, NEW d, Pair(s, R, d), NEW rc, Class(rc) PROVE Done(s, gv(s, rc), R, d)
<1>1. Len(s.vs) >= 1 /\ Good(s, R, d) BY PairPlain DEF Pair
<1>2. QED BY <1>1, Gotten

\* or exchanged.
LEMMA PairSwapped ==
    ASSUME NEW s, NEW R, NEW d, Pair(s, R, d) PROVE Done(s, vswap(s), R, d)
<1> DEFINE u == vswap(s)
           n == Len(s.vs)
<1>1. Calm(s, 2) /\ n \in Nat BY PairPlain
<1>2. Good(u, R, d) /\ Len(u.vs) = n /\ Kept(s, u, n - 2) /\ vtop1(u).t = {} /\ vtop(u).t = {}
  BY <1>1, Swap DEF Pair
<1> HIDE DEF u
<1>3. Kept(s, u, n)
  <2>1. n >= 2 BY DEF Pair
  <2>2. \A i \in 1 .. n : i \in 1 .. n - 2 \/ i = n - 1 \/ i = n BY <1>1
  <2>3. n \in 0 .. n BY <1>1
  <2>4. \A i \in 1 .. n : s.vs[i].t = {} => u.vs[i].t = {}
    <3>1. u.vs[n].t = {} /\ u.vs[n - 1].t = {} BY <1>2 DEF vtop, vtop1
    <3>2. \A i \in 1 .. n - 2 : s.vs[i].t = {} => u.vs[i].t = {} BY <1>2 DEF Kept
    <3> HIDE DEF n
    <3>3. QED BY <2>2, <3>1, <3>2
  <2>5. QED BY <1>2, <2>3, <2>4 DEF Kept
<1>4. QED BY <1>2, <1>3 DEF Done, u

\* An operand is loaded below the top.
LEMMA PairFlipped ==
    ASSUME NEW s, NEW R, NEW d, Pair(s, R, d), NEW rc, Class(rc)
    PROVE  Done(s, vswap(gv(vswap(s), rc)), R, d)
<1> DEFINE u == vswap(s)
           w == gv(u, rc)
<1>1. Done(s, u, R, d) BY PairSwapped
<1> HIDE DEF u
<1>2. Pair(u, R, d) BY <1>1, PairDone
<1>3. Done(u, w, R, d) BY <1>2, PairGotten
<1> HIDE DEF w
<1>4. Pair(w, R, d) BY <1>2, <1>3, PairDone
<1>5. Done(w, vswap(w), R, d) BY <1>4, PairSwapped
<1>6. Done(s, vswap(w), R, d) BY <1>1, <1>3, <1>5, DoneTwice
<1>7. QED BY <1>6 DEF u, w

\* gv2()
LEMMA BothLoaded ==
    ASSUME NEW s, NEW R, NEW d, Pair(s, R, d), NEW rc1, NEW rc2, Class(rc1), Class(rc2)
    PROVE  Done(s, gv2(s, rc1, rc2), R, d)
<1>1. CASE vtop(s).r \notin Lazy
  <2> DEFINE a == vswap(gv(vswap(s), rc1))
             b == gv(a, rc2)
  <2>1. Done(s, a, R, d) BY PairFlipped
  <2> HIDE DEF a
  <2>2. Pair(a, R, d) BY <2>1, PairDone
  <2>3. Done(a, b, R, d) BY <2>2, PairGotten
  <2>4. gv2(s, rc1, rc2) = Reload1(b, rc1) BY <1>1 DEF gv2, a
  <2> HIDE DEF b
  <2>5. Pair(b, R, d) BY <2>2, <2>3, PairDone
  <2>6. Done(b, Reload1(b, rc1), R, d)
    <3>1. Done(b, b, R, d) BY <2>5, DoneSelf DEF Pair
    <3>2. Done(b, vswap(gv(vswap(b), rc1)), R, d) BY <2>5, PairFlipped
    <3>3. QED BY <3>1, <3>2 DEF Reload1
  <2>7. QED BY <2>1, <2>3, <2>4, <2>6, DoneTwice
<1>2. CASE vtop(s).r \in Lazy
  <2> DEFINE a == gv(s, rc2)
             b == vswap(gv(vswap(a), rc1))
  <2>1. Done(s, a, R, d) BY PairGotten
  <2> HIDE DEF a
  <2>2. Pair(a, R, d) BY <2>1, PairDone
  <2>3. Done(a, b, R, d) BY <2>2, PairFlipped
  <2>4. gv2(s, rc1, rc2) = Reload(b, rc2) BY <1>2 DEF gv2, a
  <2> HIDE DEF b
  <2>5. Pair(b, R, d) BY <2>2, <2>3, PairDone
  <2>6. Done(b, Reload(b, rc2), R, d)
    <3>1. Done(b, b, R, d) BY <2>5, DoneSelf DEF Pair
    <3>2. Done(b, gv(b, rc2), R, d) BY <2>5, PairGotten
    <3>3. QED BY <3>1, <3>2 DEF Reload
  <2>7. QED BY <2>1, <2>3, <2>4, <2>6, DoneTwice
<1>3. QED BY <1>1, <1>2

\* The second operand is dropped.
LEMMA PairDropped ==
    ASSUME NEW s, NEW R, NEW d, Pair(s, R, d)
    PROVE  Single(s, Drop(s), R, d) /\ vtop(Drop(s)) = vtop1(s)
<1> DEFINE n == Len(s.vs)
<1>1. n \in Nat /\ n >= 1 /\ n - 1 \in 1 .. n - 1 BY PairPlain DEF Pair
<1>2. R \cup vtop(s).t = R BY DEF Pair
<1>3. /\ Good(Drop(s), R \cup vtop(s).t, d) /\ Kept(s, Drop(s), n - 1) /\ Len(Drop(s).vs) = n - 1
      /\ \A i \in 1 .. n - 1 : Drop(s).vs[i] = s.vs[i]
  BY <1>1, Dropped DEF Pair
<1>4. QED BY <1>1, <1>2, <1>3 DEF Single, vtop, vtop1

\* The rest of an operation that has dropped an operand
LEMMA SingleDone ==
    ASSUME NEW s, NEW R, NEW d, NEW u, Single(s, u, R, d), NEW w, Done(u, w, R, d) PROVE Single(s, w, R, d)
BY KeptTwice DEF Single, Done

\* and what comes before that
LEMMA DoneSingle ==
    ASSUME NEW s, NEW R, NEW d, NEW u, Done(s, u, R, d), NEW w, Single(u, w, R, d) PROVE Single(s, w, R, d)
<1>1. IsState(u) /\ Good(w, R, d) /\ Len(u.vs) = Len(s.vs) /\ Kept(s, u, Len(s.vs)) /\ Kept(u, w, Len(s.vs) - 1)
      /\ Len(w.vs) = Len(s.vs) - 1
  BY DEF Single, Done, Good
<1>2. Len(s.vs) \in Nat /\ Len(s.vs) - 1 \in Nat BY <1>1, Lengths DEF Kept
<1>3. Kept(s, u, Len(s.vs) - 1) BY <1>1, <1>2 DEF Kept
<1>4. QED BY <1>1, <1>3, KeptTwice DEF Single

\* The entry below had no jumps either.
LEMMA SinglePlain ==
    ASSUME NEW s, NEW R, NEW d, Pair(s, R, d), NEW u, Single(s, u, R, d)
    PROVE  vtop(u).t = {} /\ Len(u.vs) >= 1
<1> DEFINE n == Len(s.vs)
<1>1. n - 1 \in 1 .. n - 1 /\ n - 1 >= 1 BY PairPlain DEF Pair
<1>2. s.vs[n - 1].t = {} BY DEF Pair, vtop1
<1>3. u.vs[n - 1].t = {} BY <1>1, <1>2 DEF Single, Kept
<1>4. QED BY <1>1, <1>3 DEF Single, vtop

\* The top entry becomes a value without jumps.
LEMMA SingleSet ==
    ASSUME NEW s, NEW R, NEW d, Pair(s, R, d), NEW u, Single(s, u, R, d), NEW e, IsEntry(e), e.t = {}
    PROVE  Single(s, SetTop(u, e), R, d) /\ vtop(SetTop(u, e)) = e
<1>1. Done(u, SetTop(u, e), R, d) /\ vtop(SetTop(u, e)) = e BY SinglePlain, Retopped DEF Single
<1>2. QED BY <1>1, SingleDone

\* The result is in a register already;
LEMMA QuietDropped ==
    ASSUME NEW s, NEW R, NEW d, Pair(s, R, d), NEW w, Quiet(s, w) PROVE Single(s, Drop(w), R, d)
<1>1. Done(s, w, R, d) BY QuietSame, SameDone DEF Pair
<1>2. Pair(w, R, d) BY <1>1, PairDone
<1>3. Single(w, Drop(w), R, d) BY <1>2, PairDropped
<1>4. QED BY <1>1, <1>3, DoneSingle

\* it was computed with a constant,
LEMMA ComputedConstant ==
    ASSUME NEW s, NEW R, NEW d, Pair(s, R, d), NEW op PROVE Single(s, WithConstant(s, op), R, d)
<1> DEFINE w == Emit(s, LAMBDA m : Compute2(m, op, vtop1(s).r, m.reg[vtop1(s).r], vtop(s).c))
<1>1. WithConstant(s, op) = Drop(w) BY DEF WithConstant
<1>2. IsState(s) BY DEF Pair, Good
<1>3. Quiet(s, w) BY <1>2, MachineOnly, QuietSelf DEF Emit
<1>4. QED BY <1>1, <1>3, QuietDropped

\* with a register,
LEMMA ComputedRegister ==
    ASSUME NEW s, NEW R, NEW d, Pair(s, R, d), NEW op PROVE Single(s, WithRegister(s, op), R, d)
<1> DEFINE w == Emit(s, LAMBDA m : Compute2(m, op, vtop1(s).r, m.reg[vtop1(s).r], m.reg[vtop(s).r]))
<1>1. WithRegister(s, op) = Drop(w) BY DEF WithRegister
<1>2. IsState(s) BY DEF Pair, Good
<1>3. Quiet(s, w) BY <1>2, MachineOnly, QuietSelf DEF Emit
<1>4. QED BY <1>1, <1>3, QuietDropped

\* or by a division.
LEMMA Divided ==
    ASSUME NEW s, NEW R, NEW d, Pair(s, R, d), NEW op, NEW fr PROVE Single(s, DivideBy(s, op, fr), R, d)
<1> DEFINE v == save_reg(Drop(s), "rdx")
           Div(m) == Compute(SetReg(m, "rdx", Alu("%", m.reg["rax"], m.reg[fr])),
                          "rax", Alu("/", m.reg["rax"], m.reg[fr]))
           w == Emit(v, Div)
           e == InReg(IF op = "%" THEN "rdx" ELSE "rax")
<1>1. DivideBy(s, op, fr) = SetTop(w, e) BY DEF DivideBy
<1>2. Single(s, Drop(s), R, d) BY PairDropped
<1>3. Same(Drop(s), v)
  <2>1. {"rdx"} \cap Jmps = {} BY DEF Jmps
  <2>2. QED BY <1>2, <2>1, Saved DEF save_reg, Single, Good
<1> HIDE DEF v
<1>4. Quiet(v, w)
  <2>1. IsState(v) BY <1>3 DEF Same
  <2>2. QED BY <2>1, MachineOnly, QuietSelf DEF Emit
<1> HIDE DEF w
<1>5. Done(Drop(s), w, R, d)
  <2>1. Same(Drop(s), w) BY <1>3, <1>4, QuietSame, SameTwice
  <2>2. QED BY <1>2, <2>1, SameDone DEF Single
<1>6. Single(s, w, R, d) BY <1>2, <1>5, SingleDone
<1>7. IsEntry(e) /\ e.t = {}
  <2> DEFINE r == IF op = "%" THEN "rdx" ELSE "rax"
  <2> HIDE DEF r
  <2>1. IsEntry(InReg(r)) /\ InReg(r).t = {} BY PlainEntry DEF InReg
  <2>2. QED BY <2>1 DEF r
<1> HIDE DEF e
<1>8. QED BY <1>1, <1>6, <1>7, SingleSet

\* gen_opi()
LEMMA Operated ==
    ASSUME NEW s, NEW R, NEW d, Pair(s, R, d), NEW op
    PROVE  LET u == gen_opi(s, op)
           IN  Single(s, u, R, d) /\ (op \in Comparisons => vtop(u) = Flags(op))
<1>1. CASE op \in {"/", "%"}
  <2> DEFINE a == gv2(s, {"rax"}, {"rcx"})
  <2>1. Done(s, a, R, d) BY BothLoaded, Classes
  <2>2. gen_opi(s, op) = DivideBy(a, op, vtop(a).r) BY <1>1 DEF gen_opi, Divide, DivideTop
  <2> HIDE DEF a
  <2>3. Pair(a, R, d) BY <2>1, PairDone
  <2>4. Single(a, DivideBy(a, op, vtop(a).r), R, d) BY <2>3, Divided
  <2>5. op \notin Comparisons BY <1>1 DEF Comparisons
  <2>6. QED BY <2>1, <2>2, <2>4, <2>5, DoneSingle
<1>2. CASE op \notin {"/", "%"}
  <2> DEFINE w == IF IsConst(vtop(s)) /\ op # "*" THEN Immediate(s, op) ELSE TwoRegisters(s, op)
  <2>1. gen_opi(s, op) = Compared(w, op) BY <1>2 DEF gen_opi
  <2>2. Single(s, Immediate(s, op), R, d)
    <3> DEFINE a == vswap(gv(vswap(s), RC_INT))
    <3>1. Done(s, a, R, d) BY PairFlipped, Classes
    <3>2. Immediate(s, op) = WithConstant(a, op) BY DEF Immediate
    <3> HIDE DEF a
    <3>3. Pair(a, R, d) BY <3>1, PairDone
    <3>4. QED BY <3>1, <3>2, <3>3, ComputedConstant, DoneSingle
  <2>3. Single(s, TwoRegisters(s, op), R, d)
    <3> DEFINE rc == IF op \in {"<<", ">>"} THEN {"rcx"} ELSE RC_INT
               a == gv2(s, RC_INT, rc)
    <3>0. Class(rc) BY Classes
    <3>2. TwoRegisters(s, op) = WithRegister(a, op) BY DEF TwoRegisters
    <3> HIDE DEF rc
    <3>1. Done(s, a, R, d) BY <3>0, BothLoaded, Classes
    <3> HIDE DEF a
    <3>3. Pair(a, R, d) BY <3>1, PairDone
    <3>4. QED BY <3>1, <3>2, <3>3, ComputedRegister, DoneSingle
  <2>4. Single(s, w, R, d) BY <2>2, <2>3
  <2> HIDE DEF w
  <2>5. IsEntry(Flags(op)) /\ Flags(op).t = {} BY FlagsEntry
  <2>6. Single(s, SetTop(w, Flags(op)), R, d) /\ vtop(SetTop(w, Flags(op))) = Flags(op)
    BY <2>4, <2>5, SingleSet
  <2>7. QED BY <2>1, <2>4, <2>6 DEF Compared
<1>3. QED BY <1>1, <1>2

-----------------------------------------------------------------------------
(* Folding                                                                 *)

\* f is what is left of an operation on s: the result, or operands for the back end.
Left(s, f, R, d) == IF f.op = "" THEN Single(s, f.s, R, d) ELSE Done(s, f.s, R, d)

\* Both operands are left,
LEMMA LeftDone == ASSUME NEW s, NEW R, NEW d, NEW u, NEW op, op # "", Done(s, u, R, d) PROVE Left(s, Folded(u, op), R, d)
BY DEF Left, Folded

\* or the result.
LEMMA LeftSingle == ASSUME NEW s, NEW R, NEW d, NEW u, Single(s, u, R, d) PROVE Left(s, Folded(u, ""), R, d)
BY DEF Left, Folded

\* A constant has no jumps.
LEMMA ConstEntry == ASSUME NEW c PROVE IsEntry(Const(c)) /\ Const(c).t = {}
BY PlainEntry DEF Const

\* It may be the result.
LEMMA SetConst ==
    ASSUME NEW s, NEW R, NEW d, Pair(s, R, d), NEW c
    PROVE  Single(s, SetTop(Drop(s), Const(c)), R, d) /\ vtop(SetTop(Drop(s), Const(c))) = Const(c)
BY ConstEntry, PairDropped, SingleSet

\* Folding with one constant operand
LEMMA FoldedOne ==
    ASSUME NEW s, NEW R, NEW d, Pair(s, R, d), NEW op, op # "", NEW l
    PROVE  Left(s, FoldOne(s, op, l), R, d)
<1> DEFINE f == FoldOne(s, op, l)
           e == [vtop1(s) EXCEPT !.c = Alu(op, vtop1(s).c, l)]
<1>1. \/ f = Folded(SetTop(Drop(s), Const(0)), "")
      \/ f = Folded(Drop(s), "")
      \/ f = Folded(SetTop(s, Const(Log2(l))), "<<")
      \/ f = Folded(SetTop(s, Const(Log2(l))), ">>")
      \/ f = Folded(SetTop(Drop(s), e), "")
      \/ f = Folded(s, op)
  <2> DEFINE a1 == Folded(SetTop(Drop(s), Const(0)), "")
             a2 == Folded(Drop(s), "")
             v == SetTop(s, Const(Log2(l)))
             o == IF op = "*" THEN "<<" ELSE ">>"
             a3 == Folded(v, o)
             a4 == Folded(SetTop(Drop(s), e), "")
             a5 == Folded(s, op)
             g1 == (l = 0 /\ op = "*") \/ (l = 1 /\ op = "%")
             g2 == (l = 1 /\ op \in {"*", "/"}) \/ (l = 0 /\ op \in {"+", "-", "<<", ">>"})
             g3 == op \in {"*", "/"} /\ l > 1 /\ IsPowerOf2(l)
             g4 == op \in {"+", "-"} /\ l # 0 /\ vtop1(s).r = "local" /\ ~vtop1(s).lval
  <2>1. f = CASE g1 -> a1 [] g2 -> a2 [] g3 -> a3 [] g4 -> a4 [] OTHER -> a5
    BY DEF FoldOne
  <2> HIDE DEF g1, g2, g3, g4, a1, a2, a3, a4, a5, f
  <2>2. f \in {a1, a2, a3, a4, a5} BY <2>1
  <2>3. f = a1 \/ f = a2 \/ f = a3 \/ f = a4 \/ f = a5 BY <2>2
  <2> HIDE DEF v
  <2>4. a3 = Folded(v, "<<") \/ a3 = Folded(v, ">>") BY DEF a3
  <2> USE DEF v
  <2>5. QED BY <2>3, <2>4 DEF a1, a2, a4, a5
<1>2. Left(s, Folded(SetTop(Drop(s), Const(0)), ""), R, d) BY SetConst, LeftSingle
<1>3. Left(s, Folded(Drop(s), ""), R, d) BY PairDropped, LeftSingle
<1>4. Done(s, SetTop(s, Const(Log2(l))), R, d)
  <2> DEFINE c == Const(Log2(l))
  <2>1. IsEntry(c) /\ c.t = {} BY ConstEntry
  <2> HIDE DEF c
  <2> DEFINE n == Len(s.vs)
  <2>4. n \in Nat /\ n >= 2 BY PairPlain DEF Pair
  <2>5. n >= 1
    <3> HIDE DEF n
    <3>1. QED BY ONLY <2>4
  <2>2. Len(s.vs) >= 1 /\ Good(s, R, d) /\ c.t = vtop(s).t BY <2>1, <2>5 DEF Pair
  <2>3. Done(s, SetTop(s, c), R, d) BY <2>1, <2>2, Retopped
  <2>6. QED BY <2>3 DEF c
<1>5. Left(s, Folded(SetTop(Drop(s), e), ""), R, d)
  <2> DEFINE n == Len(s.vs)
             x == vtop1(s)
             c == Alu(op, x.c, l)
  <2>7. n \in Nat /\ n >= 2 BY PairPlain DEF Pair
  <2>1. n - 1 \in 1 .. n
    <3> HIDE DEF n
    <3>1. QED BY ONLY <2>7
  <2>2. IsEntry(x) /\ x.t = {}
    <3>1. IsEntry(s.vs[n - 1]) BY <2>1, GoodEntry DEF Pair
    <3>2. QED BY <3>1 DEF Pair, vtop1
  <2> HIDE DEF x, c
  <2>3. IsEntry([x EXCEPT !.c = c]) /\ [x EXCEPT !.c = c].t = {} BY <2>2, WithC
  <2>4. e = [x EXCEPT !.c = c] BY DEF x, c
  <2> HIDE DEF e
  <2>5. IsEntry(e) /\ e.t = {} BY <2>3, <2>4
  <2>6. QED BY <2>5, PairDropped, SingleSet, LeftSingle
<1>6. Left(s, Folded(s, op), R, d) BY DoneSelf, LeftDone DEF Pair
<1>7. "<<" # "" /\ ">>" # "" OBVIOUS
<1>8. /\ Left(s, Folded(SetTop(s, Const(Log2(l))), "<<"), R, d)
      /\ Left(s, Folded(SetTop(s, Const(Log2(l))), ">>"), R, d)
  BY <1>4, <1>7, LeftDone
<1> HIDE DEF f, e
<1>9. Left(s, f, R, d) BY <1>1, <1>2, <1>3, <1>5, <1>6, <1>8
<1>10. QED BY <1>9 DEF f

\* Folding of any two operands
LEMMA FoldedAny ==
    ASSUME NEW s, NEW R, NEW d, Pair(s, R, d), NEW op, op # ""
    PROVE  Left(s, Fold(s, op), R, d)
<1> DEFINE f == Fold(s, op)
           l1 == vtop1(s).c
           l2 == vtop(s).c
           u == vswap(s)
<1>1. \/ f = FoldBoth(s, op, l1, l2)
      \/ f = Folded(Drop(s), "")
      \/ f = FoldOne(u, op, l1)
      \/ f = FoldOne(s, op, l2)
      \/ f = Folded(s, op)
  BY DEF Fold
<1>2. Left(s, FoldBoth(s, op, l1, l2), R, d)
  <2>1. \/ FoldBoth(s, op, l1, l2) = Folded(s, op)
        \/ FoldBoth(s, op, l1, l2) = Folded(SetTop(Drop(s), Const(Alu(op, l1, l2))), "")
    BY DEF FoldBoth
  <2>2. Left(s, Folded(s, op), R, d) BY DoneSelf, LeftDone DEF Pair
  <2>3. Left(s, Folded(SetTop(Drop(s), Const(Alu(op, l1, l2))), ""), R, d) BY SetConst, LeftSingle
  <2>4. QED BY <2>1, <2>2, <2>3
<1>3. Left(s, Folded(Drop(s), ""), R, d) BY PairDropped, LeftSingle
<1>4. Left(s, FoldOne(u, op, l1), R, d)
  <2>1. Done(s, u, R, d) BY PairSwapped
  <2> HIDE DEF u, l1
  <2>2. Pair(u, R, d) BY <2>1, PairDone
  <2>3. Left(u, FoldOne(u, op, l1), R, d) BY <2>2, FoldedOne
  <2>4. QED BY <2>1, <2>3, DoneTwice, DoneSingle DEF Left
<1>5. Left(s, FoldOne(s, op, l2), R, d) BY FoldedOne
<1>6. Left(s, Folded(s, op), R, d) BY DoneSelf, LeftDone DEF Pair
<1> HIDE DEF f, l1, l2, u
<1>7. Left(s, f, R, d) BY <1>1, <1>2, <1>3, <1>4, <1>5, <1>6
<1>8. QED BY <1>7 DEF f

\* gen_opic()
LEMMA Generated ==
    ASSUME NEW s, NEW R, NEW d, Pair(s, R, d), NEW op, op # ""
    PROVE  Single(s, gen_opic(s, op), R, d)
<1> DEFINE f == Fold(s, op)
<1>1. Left(s, f, R, d) BY FoldedAny
<1>2. gen_opic(s, op) = IF f.op = "" THEN f.s ELSE gen_opi(f.s, f.op) BY DEF gen_opic, Generate
<1> HIDE DEF f
<1>3. CASE f.op = "" BY <1>1, <1>2, <1>3 DEF Left
<1>4. CASE f.op # ""
  <2>1. Done(s, f.s, R, d) BY <1>1, <1>4 DEF Left
  <2>2. Pair(f.s, R, d) BY <2>1, PairDone
  <2>3. Single(f.s, gen_opi(f.s, f.op), R, d) BY <2>2, Operated
  <2>4. QED BY <1>2, <1>4, <2>1, <2>3, DoneSingle
<1>5. QED BY <1>3, <1>4

\* A comparison with 0 leaves a constant or flags.
LEMMA Compares ==
    ASSUME NEW s, NEW R, NEW d, Pair(s, R, d)
    PROVE  LET u == gen_opic(s, "!=") IN \E c : vtop(u) = Const(c) \/ vtop(u) = Flags("!=")
<1> DEFINE f == Fold(s, "!=")
           l1 == vtop1(s).c
           l2 == vtop(s).c
<1>1. f = FoldBoth(s, "!=", l1, l2) \/ f = FoldOne(s, "!=", l2) \/ f = Folded(s, "!=") BY DEF Fold
<1>2. FoldBoth(s, "!=", l1, l2) = Folded(SetTop(Drop(s), Const(Alu("!=", l1, l2))), "") BY DEF FoldBoth
<1>3. FoldOne(s, "!=", l2) = Folded(s, "!=") BY DEF FoldOne
<1>4. gen_opic(s, "!=") = IF f.op = "" THEN f.s ELSE gen_opi(f.s, f.op) BY DEF gen_opic, Generate
<1>5. CASE f = FoldBoth(s, "!=", l1, l2)
  <2> DEFINE v == SetTop(Drop(s), Const(Alu("!=", l1, l2)))
  <2>4. f = Folded(v, "") BY <1>2, <1>5
  <2> HIDE DEF v, f
  <2>5. f.op = "" /\ f.s = v BY <2>4 DEF Folded
  <2> USE DEF f, v
  <2>1. f.op = "" /\ f.s = SetTop(Drop(s), Const(Alu("!=", l1, l2))) BY <2>5
  <2>2. vtop(SetTop(Drop(s), Const(Alu("!=", l1, l2)))) = Const(Alu("!=", l1, l2)) BY SetConst
  <2>3. QED BY <1>4, <2>1, <2>2
<1>6. CASE f = FoldOne(s, "!=", l2) \/ f = Folded(s, "!=")
  <2>1. f.op = "!=" /\ f.s = s BY <1>3, <1>6 DEF Folded
  <2>2. "!=" \in Comparisons /\ "!=" # "" BY DEF Comparisons
  <2>3. vtop(gen_opi(s, "!=")) = Flags("!=") BY <2>2, Operated
  <2>4. QED BY <1>4, <2>1, <2>2, <2>3
<1>7. QED BY <1>1, <1>5, <1>6

\* gen_op() on any two operands
LEMMA Settled2 ==
    ASSUME NEW s, NEW R, NEW d, Good(s, R, d), Len(s.vs) >= 2, Calm(s, 2)
    PROVE  LET u == vswap(vswap(s)) IN Pair(u, R, d) /\ Len(u.vs) = Len(s.vs) /\ Kept(s, u, Len(s.vs) - 2)
<1> DEFINE u == vswap(s)
           w == vswap(u)
           n == Len(s.vs)
<1>1. Good(u, R, d) /\ Len(u.vs) = n /\ Kept(s, u, n - 2) /\ vtop1(u).t = {}
      /\ (vtop1(s).t = {} => vtop(u).t = {})
  BY Swap
<1> HIDE DEF u
<1>2. Calm(u, 2)
  <2>1. ASSUME u.nocode # 0 PROVE Plain(u, 2)
    <3>1. Plain(s, 2) BY <1>1, <2>1 DEF Calm, Kept
    <3>2. vtop1(s).t = {} BY <3>1, PlainTwo DEF Good
    <3>3. QED BY <1>1, <3>2, PlainTwo DEF Good
  <2>2. QED BY <2>1 DEF Calm
<1>3. Good(w, R, d) /\ Len(w.vs) = n /\ Kept(u, w, n - 2) /\ vtop1(w).t = {} /\ vtop(w).t = {}
  BY <1>1, <1>2, Swap
<1>4. QED BY <1>1, <1>3, KeptTwice DEF Pair, u

\* A function is called or an operation done with the value, not the lvalue.
LEMMA NoLvalueDone ==
    ASSUME NEW s, NEW R, NEW d, Good(s, R, d), Len(s.vs) >= 1 PROVE Done(s, NoLvalue(s), R, d)
<1>1. NoLvalue(s) = s \/ NoLvalue(s) = gv(s, RC_INT) BY DEF NoLvalue
<1>2. QED BY <1>1, DoneSelf, Gotten, Classes

\* gen_op()
LEMMA Op ==
    ASSUME NEW s, NEW R, NEW d, Good(s, R, d), Len(s.vs) >= 2, Calm(s, 2), NEW op, op # ""
    PROVE  LET u == gen_op(s, op)
               n == Len(s.vs)
           IN  Good(u, R, d) /\ Len(u.vs) = n - 1 /\ Kept(s, u, n - 2) /\ vtop(u).t = {}
<1> DEFINE w == vswap(vswap(s))
           v == gen_opic(w, op)
           u == NoLvalue(v)
           n == Len(s.vs)
<1>1. Pair(w, R, d) /\ Len(w.vs) = n /\ Kept(s, w, n - 2) BY Settled2
<1>2. gen_op(s, op) = u BY DEF gen_op
<1> HIDE DEF w
<1>3. Single(w, v, R, d) BY <1>1, Generated
<1> HIDE DEF v
<1>4. vtop(v).t = {} /\ Len(v.vs) >= 1 BY <1>1, <1>3, SinglePlain
<1>5. Done(v, u, R, d) BY <1>3, <1>4, NoLvalueDone DEF Single
<1> HIDE DEF u
<1>6. Single(w, u, R, d) BY <1>3, <1>5, SingleDone
<1>7. vtop(u).t = {} BY <1>1, <1>6, SinglePlain
<1>8. n \in Nat /\ n >= 2 /\ n - 2 \in Nat /\ n - 2 <= n - 1
  <2>1. IsState(s) BY DEF Good
  <2>2. n \in Nat /\ n >= 2 BY <2>1, Lengths
  <2> HIDE DEF n
  <2>3. QED BY ONLY <2>2
<1>9. Kept(w, u, n - 2)
  <2>1. IsState(w) /\ IsState(u) BY <1>1, <1>6 DEF Pair, Good, Single
  <2>2. Kept(w, u, n - 1) BY <1>1, <1>6 DEF Single
  <2>4. QED BY <1>8, <2>1, <2>2, KeptLess
<1>10. Kept(s, u, n - 2) BY <1>1, <1>9, KeptTwice
<1>11. QED BY <1>1, <1>2, <1>6, <1>7, <1>10 DEF Single

\* The comparison that gvtst() generates for other values
LEMMA OpTest ==
    ASSUME NEW s, NEW R, NEW d, Good(s, R, d), Len(s.vs) >= 2, Calm(s, 2)
    PROVE  LET u == gen_op(s, "!=") IN IsConst(vtop(u)) \/ (vtop(u).r \in Lazy /\ ~IsConst(vtop(u)))
<1> DEFINE w == vswap(vswap(s))
           v == gen_opic(w, "!=")
<1>1. Pair(w, R, d) BY Settled2
<1>2. gen_op(s, "!=") = NoLvalue(v) BY DEF gen_op
<1> HIDE DEF w
<1>3. PICK c : vtop(v) = Const(c) \/ vtop(v) = Flags("!=") BY <1>1, Compares
<1>4. Const(c).lval = FALSE /\ Const(c).r = "const" BY DEF Const, Entry
<1>5. vtop(v).lval = FALSE BY <1>3, <1>4, FlagsEntry
<1> HIDE DEF v
<1>6. NoLvalue(v) = v BY <1>5 DEF NoLvalue
<1>7. IsConst(Const(c)) BY <1>4 DEF IsConst
<1>8. Flags("!=").r \in Lazy /\ ~IsConst(Flags("!=")) BY FlagsEntry DEF Lazy, IsConst
<1>9. QED BY <1>2, <1>3, <1>6, <1>7, <1>8

-----------------------------------------------------------------------------
(* Tests                                                                   *)

\* b is what a test of the top entry leaves of s, whose chain t is held elsewhere.
Tests(s, R, d, t, b) ==
    /\ t \subseteq b.t /\ (b.t \ t) \cap R = {} /\ (s.nocode # 0 => b.t = t)
    /\ Good(b.s, (R \ t) \cup b.t, d) /\ Len(b.s.vs) = Len(s.vs) - 1 /\ Kept(s, b.s, Len(s.vs) - 1)

\* The top entry has no jumps while no code is generated.
LEMMA CalmTop ==
    ASSUME NEW s, NEW R, NEW d, Good(s, R, d), Len(s.vs) >= 1, Calm(s, 1), s.nocode # 0 PROVE vtop(s).t = {}
BY PlainTop DEF Calm, Good

\* Its jumps are held by itself only.
LEMMA TopApart ==
    ASSUME NEW s, NEW R, NEW d, Good(s, R, d), Len(s.vs) >= 1 PROVE R \cap vtop(s).t = {}
<1>1. Len(s.vs) \in Nat BY Lengths DEF Good
<1>2. Len(s.vs) \in 1 .. Len(s.vs) BY <1>1
<1>3. \A x \in R : x \notin s.vs[Len(s.vs)].t BY <1>2 DEF Good, Held
<1>4. QED BY <1>3 DEF vtop

\* The tested entry is dropped; its jumps are not there or have become part of the chain.
LEMMA TestDropped ==
    ASSUME NEW s, NEW R, NEW d, Good(s, R, d), Len(s.vs) >= 1, NEW t \in SUBSET R, NEW b, Branched(s, R, d, t, b),
           NEW q, q = [s |-> Drop(b.s), t |-> b.t], vtop(s).t = {}
    PROVE  Tests(s, R, d, t, q)
<1> DEFINE w == b.s
           T == (R \ t) \cup b.t
           n == Len(s.vs)
<1>1. q.s = Drop(w) /\ q.t = b.t OBVIOUS
<1>2. /\ t \subseteq b.t /\ (b.t \ t) \cap R = {} /\ (s.nocode # 0 => b.t = t)
      /\ Good(w, T, d) /\ w.vs = s.vs /\ w.nocode = s.nocode
  BY DEF Branched
<1> HIDE DEF w, T
<1>3. vtop(w).t = {} /\ Len(w.vs) >= 1 BY <1>2 DEF vtop
<1>4. T \cup vtop(w).t = T BY <1>3
<1>5. Good(Drop(w), T, d) /\ Kept(w, Drop(w), n - 1) /\ Len(Drop(w).vs) = n - 1
  <2>1. /\ Good(Drop(w), T \cup vtop(w).t, d) /\ Kept(w, Drop(w), Len(w.vs) - 1)
        /\ Len(Drop(w).vs) = Len(w.vs) - 1
    BY ONLY <1>2, <1>3, Dropped
  <2>2. Len(w.vs) = n BY <1>2
  <2> HIDE DEF n
  <2>3. QED BY <1>4, <2>1, <2>2
<1>6. Kept(s, Drop(w), n - 1)
  <2>1. n - 1 \in 0 .. n BY <1>2, <1>5 DEF Kept
  <2>2. QED BY <1>2, <1>5, <2>1 DEF Kept
<1>7. QED BY <1>1, <1>2, <1>5, <1>6 DEF Tests, T

\* gtst()
LEMMA gtstTests ==
    ASSUME NEW s, NEW R, NEW d, Good(s, R, d), Len(s.vs) >= 1, Calm(s, 1), NEW t \in SUBSET R, NEW inv,
           s.nocode = 0 => vtop(s).r \in Lazy
    PROVE  Tests(s, R, d, t, gtst(s, inv, t))
<1> DEFINE e == vtop(s)
           n == Len(s.vs)
           parity == IF e.r = "jmp" THEN 0 ELSE 1
           through == gjmp(s, t)
           Taken(m) == Alu(e.op, m.fl[1], m.fl[2]) = 1 - inv
           q == gtst(s, inv, t)
<1>0. (R \ t) \cup t = R /\ IsState(s) /\ n \in Nat BY Lengths DEF Good
<1>1. CASE s.nocode # 0
  <2> DEFINE b == [s |-> s, t |-> t]
  <2>1. q = [s |-> Drop(b.s), t |-> b.t] BY <1>1 DEF gtst
  <2>2. Branched(s, R, d, t, b) BY <1>0 DEF Branched
  <2>3. vtop(s).t = {} BY <1>1, CalmTop
  <2> HIDE DEF b, q
  <2>4. QED BY <2>1, <2>2, <2>3, TestDropped DEF q
<1>2. CASE s.nocode = 0 /\ e.r = "cmp"
  <2> DEFINE site == s.ind + 1
             x == Emit(s, LAMBDA m : IF Taken(m) THEN [m EXCEPT !.at = site] ELSE m)
             u == [x EXCEPT !.ind = site, !.open = x.open \cup {site}]
             b == [s |-> u, t |-> t \cup {site}]
  <2>1. q = [s |-> Drop(b.s), t |-> b.t]
    <3>1. Branch(s, t, Taken) = b BY <1>2 DEF Branch
    <3>2. e.r \notin Jmps BY <1>2 DEF Jmps
    <3>3. QED BY <1>2, <3>1, <3>2 DEF gtst
  <2>2. Quiet(s, x)
    <3> HIDE DEF site
    <3>1. QED BY <1>0, MachineOnly, QuietSelf DEF Emit
  <2> HIDE DEF x
  <2>3. Good(u, R \cup {site}, d) /\ u.vs = s.vs /\ u.nocode = s.nocode /\ site \notin R
    <3>1. site = s.ind + 1 /\ Sited(x, site, u) BY DEF Sited
    <3>2. s.nocode = 0 BY <1>2
    <3> HIDE DEF site, u, b, e, q, Taken, through, n
    <3>3. QED BY ONLY Good(s, R, d), <2>2, <3>1, <3>2, SiteAdded
  <2> HIDE DEF u, site
  <2>4. (R \ t) \cup (t \cup {site}) = R \cup {site} OBVIOUS
  <2>5. Branched(s, R, d, t, b) BY <1>2, <2>3, <2>4 DEF Branched
  <2>6. vtop(s).t = {}
    <3>1. e.r \notin Jmps BY <1>2 DEF Jmps
    <3>2. QED BY <3>1, GoodTop
  <2> HIDE DEF b, q
  <2>7. QED BY <2>1, <2>5, <2>6, TestDropped DEF q
<1>3. CASE s.nocode = 0 /\ e.r \in Jmps /\ parity = inv
  <2>1. q = [s |-> Drop(s), t |-> t \cup e.t]
    <3>1. e.r # "cmp" BY <1>3 DEF Jmps
    <3>2. QED BY <1>3, <3>1 DEF gtst
  <2>2. q.s = Drop(s) /\ q.t = t \cup e.t BY <2>1
  <2>3. Good(Drop(s), R \cup e.t, d) /\ Kept(s, Drop(s), n - 1) /\ Len(Drop(s).vs) = n - 1 BY Dropped
  <2>4. (R \ t) \cup (t \cup e.t) = R \cup e.t OBVIOUS
  <2>5. ((t \cup e.t) \ t) \cap R = {} BY TopApart
  <2> HIDE DEF e, q
  <2>6. QED BY <1>3, <2>2, <2>3, <2>4, <2>5 DEF Tests, q
<1>4. CASE s.nocode = 0 /\ e.r \in Jmps /\ parity # inv
  <2> DEFINE w == through.s
             T == (R \ t) \cup through.t
  <2>1. q = [s |-> Drop(gsym(w, e.t)), t |-> through.t]
    <3>1. e.r # "cmp" BY <1>4 DEF Jmps
    <3>2. QED BY <1>4, <3>1 DEF gtst
  <2>2. q.s = Drop(gsym(w, e.t)) /\ q.t = through.t BY <2>1
  <2>3. Branched(s, R, d, t, through) BY Jumped
  <2>4. /\ t \subseteq through.t /\ (through.t \ t) \cap R = {}
        /\ Good(w, T, d) /\ w.vs = s.vs /\ w.nocode = s.nocode
    BY <2>3 DEF Branched
  <2>5. Drop(gsym(w, e.t)) = gsym(Drop(w), e.t) BY <2>4, DropGsym DEF Good
  <2>6. vtop(w) = e BY <2>4 DEF vtop
  <2> HIDE DEF w, T, e, through, q
  <2>7. Good(Drop(w), T \cup e.t, d) /\ Kept(w, Drop(w), n - 1) /\ Len(Drop(w).vs) = n - 1
    BY <2>4, <2>6, Dropped
  <2>8. T \cap e.t = {} BY <2>4, <2>6, TopApart
  <2>9. (T \cup e.t) \ e.t = T BY <2>8
  <2>10. Good(gsym(Drop(w), e.t), T, d) /\ gsym(Drop(w), e.t).vs = Drop(w).vs
         /\ gsym(Drop(w), e.t).nocode = Drop(w).nocode
    <3> DEFINE U == T \cup e.t
    <3>1. Good(Drop(w), U, d) /\ e.t \in SUBSET U BY <2>7
    <3> HIDE DEF U
    <3>2. Good(gsym(Drop(w), e.t), U \ e.t, d) /\ gsym(Drop(w), e.t).vs = Drop(w).vs
          /\ gsym(Drop(w), e.t).nocode = Drop(w).nocode
      BY ONLY <3>1, Patched
    <3>3. U \ e.t = T BY <2>9 DEF U
    <3>4. QED BY <3>2, <3>3
  <2>11. Kept(s, q.s, n - 1) /\ Len(q.s.vs) = n - 1
    <3>1. n - 1 \in 0 .. n BY <2>4, <2>7 DEF Kept
    <3>2. QED BY <2>2, <2>4, <2>5, <2>7, <2>10, <3>1 DEF Kept
  <2>12. Good(q.s, T, d) BY <2>2, <2>5, <2>10
  <2>13. QED BY <1>4, <2>2, <2>4, <2>11, <2>12 DEF Tests, T, q
<1>5. QED BY <1>1, <1>2, <1>3, <1>4, <1>0 DEF Lazy, IsState

\* The end of gvtst(), where the value is a constant, flags or jumps
LEMMA TopTests ==
    ASSUME NEW s, NEW R, NEW d, Good(s, R, d), Len(s.vs) >= 1, Calm(s, 1), NEW t \in SUBSET R, NEW inv,
           IsConst(vtop(s)) \/ vtop(s).r \in Lazy
    PROVE  Tests(s, R, d, t, TestTop(s, inv, t))
<1> DEFINE e == vtop(s)
           always == IF (e.c # 0) = (inv = 0) THEN gjmp(s, t) ELSE [s |-> s, t |-> t]
           q == TestTop(s, inv, t)
<1>1. CASE IsConst(e)
  <2>1. q = [s |-> Drop(always.s), t |-> always.t] BY <1>1 DEF TestTop
  <2>2. Branched(s, R, d, t, [s |-> s, t |-> t])
    <3>1. (R \ t) \cup t = R OBVIOUS
    <3>2. QED BY <3>1 DEF Branched
  <2>3. Branched(s, R, d, t, gjmp(s, t)) BY Jumped
  <2>4. always = gjmp(s, t) \/ always = [s |-> s, t |-> t] OBVIOUS
  <2> HIDE DEF always
  <2>5. Branched(s, R, d, t, always) BY <2>2, <2>3, <2>4
  <2>6. vtop(s).t = {}
    <3>1. e.r \notin Jmps BY <1>1 DEF Jmps, IsConst
    <3>2. QED BY <3>1, GoodTop
  <2> HIDE DEF q
  <2>7. QED BY <2>1, <2>5, <2>6, TestDropped DEF q
<1>2. CASE ~IsConst(e)
  <2>1. q = gtst(s, inv, t) BY <1>2 DEF TestTop
  <2>2. QED BY <1>2, <2>1, gtstTests
<1>3. QED BY <1>1, <1>2

\* gvtst()
LEMMA TestedAny ==
    ASSUME NEW s, NEW R, NEW d, Good(s, R, d), Len(s.vs) >= 1, Calm(s, 1), NEW t \in SUBSET R, NEW inv
    PROVE  Tests(s, R, d, t, gvtst(s, inv, t))
<1> DEFINE n == Len(s.vs)
<1>0. IsState(s) /\ n \in Nat /\ n >= 1 BY Lengths DEF Good
<1>1. CASE vtop(s).r \in Lazy
  <2>1. gvtst(s, inv, t) = TestTop(s, inv, t) BY <1>1 DEF gvtst
  <2>2. QED BY <1>1, <2>1, TopTests
<1>2. CASE vtop(s).r \notin Lazy
  <2> DEFINE u == vsetc(s, Const(0))
             w == gen_op(u, "!=")
  <2>1. gvtst(s, inv, t) = TestTop(w, inv, t) BY <1>2 DEF gvtst
  <2>2. Good(u, R, d) /\ Kept(s, u, n) /\ Len(u.vs) = n + 1 /\ vtop(u).t = {}
        /\ (s.nocode = 0 => vtop1(u).t = {})
    <3>1. IsEntry(Const(0)) /\ Const(0).t = {} BY ConstEntry
    <3> DEFINE e == Const(0)
    <3> HIDE DEF e
    <3>2. LET v == vsetc(s, e) IN Good(v, R, d) /\ Kept(s, v, n) /\ Len(v.vs) = n + 1 /\ vtop(v) = e
                                  /\ (s.nocode = 0 => vtop1(v).t = {})
      BY <1>0, <3>1, PutPlain DEF e
    <3>3. QED BY <3>1, <3>2 DEF e
  <2> HIDE DEF u
  <2>3. Len(u.vs) >= 2 BY <1>0, <2>2
  <2>4. vtop1(u).t = {}
    <3>1. ASSUME s.nocode # 0 PROVE vtop1(u).t = {}
      <4>1. vtop(s).t = {} BY <3>1, CalmTop
      <4>2. n \in 1 .. n /\ n + 1 - 1 = n BY <1>0
      <4>3. QED BY <2>2, <4>1, <4>2 DEF Kept, vtop, vtop1
    <3>2. QED BY <2>2, <3>1
  <2>5. Calm(u, 2) BY <2>2, <2>3, <2>4, PlainTwo DEF Calm, Good
  <2>6. Good(w, R, d) /\ Len(w.vs) = n /\ Kept(u, w, n - 1) /\ vtop(w).t = {}
    <3>1. n + 1 - 1 = n /\ n + 1 - 2 = n - 1 BY <1>0
    <3> DEFINE op == "!="
    <3>2. op # "" OBVIOUS
    <3> HIDE DEF n, op
    <3>3. /\ Good(gen_op(u, op), R, d) /\ Len(gen_op(u, op).vs) = Len(u.vs) - 1
          /\ Kept(u, gen_op(u, op), Len(u.vs) - 2) /\ vtop(gen_op(u, op)).t = {}
      BY ONLY <2>2, <2>3, <2>5, <3>2, Op
    <3>4. w = gen_op(u, op) BY DEF op
    <3> HIDE DEF w
    <3>5. n \in Nat BY <1>0
    <3>6. Len(u.vs) - 1 = n /\ Len(u.vs) - 2 = n - 1 BY <2>2, <3>5
    <3>7. QED BY <3>3, <3>4, <3>6
  <2>7. IsConst(vtop(w)) \/ vtop(w).r \in Lazy BY <2>2, <2>3, <2>5, OpTest
  <2> HIDE DEF w
  <2>8. Calm(w, 1) /\ Len(w.vs) >= 1 BY <1>0, <2>6, PlainTop DEF Calm, Good
  <2>9. Tests(w, R, d, t, TestTop(w, inv, t)) BY <2>6, <2>7, <2>8, TopTests
  <2>10. Kept(s, w, n - 1)
    <3>1. n - 1 \in Nat /\ n - 1 <= n BY <1>0
    <3>2. Kept(s, u, n - 1) BY <1>0, <2>2, <3>1, KeptLess DEF Good
    <3>3. QED BY <2>6, <3>2, KeptTwice
  <2> DEFINE b == TestTop(w, inv, t)
  <2> HIDE DEF b
  <2>11. /\ t \subseteq b.t /\ (b.t \ t) \cap R = {} /\ (w.nocode # 0 => b.t = t)
         /\ Good(b.s, (R \ t) \cup b.t, d) /\ Len(b.s.vs) = n - 1 /\ Kept(w, b.s, n - 1)
    BY <2>6, <2>9 DEF Tests, b
  <2>12. w.nocode = s.nocode BY <2>10 DEF Kept
  <2>13. Kept(s, b.s, n - 1) BY <2>10, <2>11, KeptTwice
  <2>14. Tests(s, R, d, t, b) BY <2>11, <2>12, <2>13 DEF Tests
  <2>15. QED BY <2>1, <2>14 DEF b
<1>3. QED BY <1>1, <1>2

-----------------------------------------------------------------------------
(* Memory                                                                  *)

\* indir()
LEMMA DereferencedDone ==
    ASSUME NEW s, NEW R, NEW d, Good(s, R, d), Len(s.vs) >= 1 PROVE Done(s, indir(s), R, d)
<1> DEFINE w == NoLvalue(s)
           e == [vtop(w) EXCEPT !.lval = TRUE]
<1>1. Done(s, w, R, d) BY NoLvalueDone
<1>2. indir(s) = SetTop(w, e) BY DEF indir, Dereferenced
<1> HIDE DEF w
<1>3. Good(w, R, d) /\ Len(w.vs) >= 1 BY <1>1 DEF Done
<1>4. IsEntry(vtop(w)) BY <1>3, GoodTop
<1>5. IsEntry(e) /\ e.t = vtop(w).t BY <1>4, Changed
<1> HIDE DEF e
<1>6. Done(w, SetTop(w, e), R, d) BY <1>3, <1>5, Retopped
<1>7. QED BY <1>1, <1>2, <1>6, DoneTwice

\* The entry below the top is replaced, neither has jumps.
LEMMA SecondSet ==
    ASSUME NEW s, NEW R, NEW d, Pair(s, R, d), NEW e, IsEntry(e), e.t = {}
    PROVE  Done(s, SetTop1(s, e), R, d)
<1> DEFINE n == Len(s.vs)
           y == Front(Front(s.vs)) \o <<e, Last(s.vs)>>
           u == SetTop1(s, e)
<1>0. IsState(s) /\ IsRecord(s) /\ IsList(s.vs) /\ n \in Nat /\ n >= 2 BY Lengths, StateRecord DEF Pair, Good
<1>1. u = [s EXCEPT !.vs = y] BY DEF SetTop1
<1>2. IsList(y) /\ Len(y) = n /\ y[n] = s.vs[n] /\ y[n - 1] = e /\ \A i \in 1 .. n - 2 : y[i] = s.vs[i]
  <2> DEFINE v == s.vs
             k == Len(v)
  <2>1. IsList(v) /\ Len(v) >= 2 BY <1>0
  <2> HIDE DEF v
  <2>2. LET w == Front(Front(v)) \o <<e, Last(v)>>
        IN  /\ IsList(w) /\ Len(w) = k /\ w[k] = v[k] /\ w[k - 1] = e /\ \A i \in 1 .. k - 2 : w[i] = v[i]
    BY <2>1, Second
  <2>3. QED BY <2>2 DEF v
<1> HIDE DEF y, u
<1>3. Same7(u, y, s.nocode, s.loc, s.ind, s.open, s.m, s.buried) BY <1>0, <1>1, PutVs
<1>4. IsRecord(u) /\ u.vs = y /\ u.nocode = s.nocode /\ u.ind = s.ind /\ u.open = s.open
  BY <1>3, PutFields
<1>5. s.vs[n - 1].t = {} BY DEF Pair, vtop1
<1>6. \A i \in 1 .. n : IsEntry(s.vs[i]) BY <1>0 DEF IsState
<1>7. \A i \in 1 .. n : i \in 1 .. n - 2 \/ i = n - 1 \/ i = n BY <1>0
<1> HIDE DEF n
<1>8. \A i \in 1 .. n : IsEntry(y[i]) /\ y[i].t = s.vs[i].t BY <1>2, <1>5, <1>6, <1>7
<1>9. IsState(u)
  <2>1. s.nocode \in Nat /\ s.ind \in Nat BY <1>0 DEF IsState
  <2>2. QED BY <1>2, <1>4, <1>8, <2>1 DEF IsState, IsRecord
<1>10. Same(s, u) BY <1>2, <1>4, <1>8, <1>9 DEF Same, n
<1>11. QED BY <1>10, SameDone DEF Pair, u

\* The address that a value is to be stored at is loaded.
LEMMA AddressLoaded ==
    ASSUME NEW s, NEW R, NEW d, Pair(s, R, d) PROVE Done(s, LoadAddress(s), R, d)
<1> DEFINE g == get_reg(s, RC_INT)
<1>1. CASE vtop1(s).r = "llocal"
  <2>1. Same(s, g.s) BY GotRegister, Classes DEF Pair, Good
  <2>2. Done(s, g.s, R, d) BY <2>1, SameDone DEF Pair
  <2>3. LoadAddress(s) = AddressIn(g) BY <1>1 DEF LoadAddress
  <2> HIDE DEF g
  <2> DEFINE w == load(g.s, g.r, Local(vtop1(g.s).c))
             e == [InReg(g.r) EXCEPT !.lval = TRUE]
  <2>4. Pair(g.s, R, d) BY <2>2, PairDone
  <2>5. Quiet(g.s, w)
    <3>1. Local(vtop1(g.s).c).r \notin Jmps BY DEF Local, Entry, Jmps
    <3>2. IsState(g.s) BY <2>4 DEF Pair, Good
    <3>3. QED BY <3>1, <3>2, Moved
  <2>6. IsEntry(e) /\ e.t = {}
    <3>1. IsEntry(InReg(g.r)) /\ InReg(g.r).t = {} BY PlainEntry DEF InReg
    <3>2. QED BY <3>1, Changed
  <2>7. AddressIn(g) = SetTop1(w, e) BY DEF AddressIn
  <2> HIDE DEF w, e
  <2>8. Done(g.s, w, R, d) BY <2>4, <2>5, QuietSame, SameDone DEF Pair
  <2>9. Pair(w, R, d) BY <2>4, <2>8, PairDone
  <2>10. Done(w, SetTop1(w, e), R, d) BY <2>6, <2>9, SecondSet
  <2>11. QED BY <2>2, <2>3, <2>7, <2>8, <2>10, DoneTwice
<1>2. CASE vtop1(s).r # "llocal"
  <2>1. LoadAddress(s) = s BY <1>2 DEF LoadAddress
  <2>2. QED BY <2>1, DoneSelf DEF Pair
<1>3. QED BY <1>1, <1>2

\* vstore(): the lvalue is below the top entry.
LEMMA StoredBelow ==
    ASSUME NEW s, NEW R, NEW d, Good(s, R, d), Len(s.vs) >= 2, vtop1(s).t = {}
    PROVE  Single(s, vstore(s), R, d) /\ vtop(vstore(s)).t = {}
<1> DEFINE a == gv(s, RC_INT)
           b == LoadAddress(a)
           r == vtop(a).r
           w == store(b, r, vtop1(b))
           v == vswap(w)
           n == Len(s.vs)
<1>0. IsState(s) /\ n \in Nat /\ n - 1 \in 1 .. n /\ n - 1 \in Nat /\ Len(s.vs) >= 1 BY Lengths DEF Good
<1>1. vstore(s) = Drop(v) BY DEF vstore, StoreTop, StoreReg
<1>2. Done(s, a, R, d) /\ vtop(a).t = {} BY <1>0, Gotten, Classes
<1> HIDE DEF a
<1>3. Pair(a, R, d)
  <2>1. a.vs[n - 1].t = {} BY <1>0, <1>2 DEF Done, Kept, vtop1
  <2>2. vtop1(a).t = {} /\ Len(a.vs) >= 2 /\ Good(a, R, d) BY <1>2, <2>1 DEF Done, vtop1
  <2>3. QED BY <1>2, <2>2 DEF Pair
<1>4. Done(a, b, R, d) BY <1>3, AddressLoaded
<1> HIDE DEF b, r
<1>5. Pair(b, R, d) BY <1>3, <1>4, PairDone
<1>6. Done(b, w, R, d)
  <2>1. Quiet(b, w)
    <3>1. IsState(b) BY <1>5 DEF Pair, Good
    <3>2. QED BY <3>1, StoreQuiet
  <2> HIDE DEF w
  <2>2. QED BY <1>5, <2>1, QuietSame, SameDone DEF Pair
<1> HIDE DEF w
<1>7. Pair(w, R, d) BY <1>5, <1>6, PairDone
<1>8. Done(w, v, R, d) BY <1>7, PairSwapped
<1> HIDE DEF v
<1>9. Pair(v, R, d) BY <1>7, <1>8, PairDone
<1>10. Single(v, Drop(v), R, d) /\ vtop(Drop(v)) = vtop1(v) BY <1>9, PairDropped
<1>11. Done(s, v, R, d) BY <1>2, <1>4, <1>6, <1>8, DoneTwice
<1>12. Single(s, Drop(v), R, d) BY <1>10, <1>11, DoneSingle
<1>13. QED BY <1>1, <1>9, <1>10, <1>12 DEF Pair

\* gv_dup()
LEMMA CopyMade ==
    ASSUME NEW s, NEW R, NEW d, Good(s, R, d), Len(s.vs) >= 1
    PROVE  LET u == gv_dup(s)
               n == Len(s.vs)
           IN  Good(u, R, d) /\ Kept(s, u, n) /\ Len(u.vs) = n + 1 /\ vtop(u).t = {} /\ vtop1(u).t = {}
<1> DEFINE a == gv(s, RC_INT)
           g == get_reg(a, RC_INT)
           r == vtop(a).r
           w == load(g.s, g.r, InReg(r))
           v == vdup(w)
           e == InReg(g.r)
           n == Len(s.vs)
<1>0. IsState(s) /\ n \in Nat /\ n \in 1 .. n BY Lengths DEF Good
<1>1. gv_dup(s) = SetTop(v, e) BY DEF gv_dup, CopyTop, Copied
<1>2. Done(s, a, R, d) /\ vtop(a).t = {} /\ r \in RC_INT BY Gotten, Classes
<1> HIDE DEF a, r
<1>3. Good(a, R, d) /\ Len(a.vs) = n /\ Plain(a, 1) BY <1>2, PlainTop DEF Done, Good
<1>4. Same(a, g.s) BY <1>3, GotRegister, Classes DEF Good
<1> HIDE DEF g
<1>5. Done(a, g.s, R, d) BY <1>3, <1>4, SameDone
<1>6. Quiet(g.s, w)
  <2>1. InReg(r).r \notin Jmps BY <1>2 DEF InReg, Entry, RC_INT, Jmps
  <2>2. IsState(g.s) BY <1>5 DEF Done, Good
  <2>3. QED BY <2>1, <2>2, Moved
<1>7. IsEntry(e) /\ e.t = {} BY PlainEntry DEF InReg
<1> HIDE DEF w, e
<1>8. Done(g.s, w, R, d) BY <1>5, <1>6, QuietSame, SameDone DEF Done
<1>9. Done(a, w, R, d) BY <1>5, <1>8, DoneTwice
<1>10. Good(w, R, d) /\ Len(w.vs) = n /\ vtop(w).t = {}
  <2>1. Good(w, R, d) /\ Len(w.vs) = n BY <1>3, <1>9 DEF Done
  <2>2. Plain(w, 1) BY <1>3, <1>9, DonePlain
  <2>3. QED BY <2>1, <2>2, PlainTop DEF Good
<1>11. Good(v, R, d) /\ Kept(w, v, n) /\ Len(v.vs) = n + 1 /\ vtop(v).t = {} /\ vtop1(v).t = {}
  <2> HIDE DEF n
  <2>1. Len(w.vs) >= 1 BY <1>10, <1>0
  <2>2. /\ Good(vdup(w), R, d) /\ Kept(w, vdup(w), Len(w.vs)) /\ Len(vdup(w).vs) = Len(w.vs) + 1
        /\ vtop(vdup(w)).t = {} /\ vtop1(vdup(w)).t = {}
    BY ONLY <1>10, <2>1, Duplicated
  <2>3. QED BY <1>10, <2>2
<1> HIDE DEF v
<1> DEFINE u == SetTop(v, e)
<1>12. Done(v, u, R, d) /\ vtop(u) = e
  <2>1. Len(v.vs) >= 1 BY <1>0, <1>11
  <2>2. QED BY <1>7, <1>11, <2>1, Retopped
<1> HIDE DEF u
<1>13. Good(u, R, d) /\ Len(u.vs) = n + 1 /\ vtop(u).t = {} BY <1>7, <1>11, <1>12 DEF Done
<1>14. Kept(v, u, n) /\ Kept(s, w, n)
  <2>1. Kept(v, u, n + 1) BY <1>11, <1>12 DEF Done
  <2>2. n <= n + 1 BY <1>0
  <2>3. Kept(v, u, n) BY <1>0, <1>11, <1>13, <2>1, <2>2, KeptLess DEF Good
  <2>4. Done(s, w, R, d) BY <1>2, <1>9, DoneTwice
  <2>5. QED BY <2>3, <2>4 DEF Done
<1>15. Kept(s, u, n) BY <1>11, <1>14, KeptTwice
<1>16. vtop1(u).t = {}
  <2>1. n + 1 - 1 = n BY <1>0
  <2>2. v.vs[n].t = {} BY <1>11, <2>1 DEF vtop1
  <2>3. u.vs[n].t = {} BY <1>0, <1>14, <2>2 DEF Kept
  <2>4. QED BY <1>13, <2>1, <2>3 DEF vtop1
<1>17. QED BY <1>1, <1>13, <1>15, <1>16 DEF u

\* vrotb() of values
LEMMA RotatedPlain ==
    ASSUME NEW s, NEW R, NEW d, Good(s, R, d), NEW k \in 1 .. Len(s.vs), Plain(s, k)
    PROVE  LET u == vrotb(s, k)
           IN  Good(u, R, d) /\ Len(u.vs) = Len(s.vs) /\ Kept(s, u, Len(s.vs) - k) /\ Plain(u, k)
<1> DEFINE u == vrotb(s, k)
           n == Len(s.vs)
<1>0. n \in Nat /\ k \in 1 .. n BY Lengths DEF Good
<1>1. Calm(s, k) BY DEF Calm
<1>2. /\ Good(u, R, d) /\ Len(u.vs) = n /\ u.nocode = s.nocode /\ Kept(s, u, n - k)
      /\ u.vs[n] = s.vs[n - k + 1]
      /\ \A i \in n - k + 1 .. n - 1 : u.vs[i] = s.vs[i + 1]
  BY <1>1, RotatedTop
<1> HIDE DEF u
<1>3. \A i \in 1 .. n : i > n - k => s.vs[i].t = {} BY DEF Plain
<1> HIDE DEF n
<1>4. ASSUME NEW i \in 1 .. n, i > n - k PROVE u.vs[i].t = {}
  <2>1. CASE i = n
    <3>1. n - k + 1 \in 1 .. n /\ n - k + 1 > n - k BY <1>0
    <3>2. QED BY <1>2, <1>3, <2>1, <3>1
  <2>2. CASE i # n
    <3>1. i \in n - k + 1 .. n - 1 /\ i + 1 \in 1 .. n /\ i + 1 > n - k BY <1>0, <1>4, <2>2
    <3>2. QED BY <1>2, <1>3, <3>1
  <2>3. QED BY <2>1, <2>2
<1>5. Plain(u, k) BY <1>2, <1>4 DEF Plain
<1>6. QED BY <1>2, <1>5 DEF u, n

\* One is added to the object below the copy of its value on the top.
LEMMA OneAdded ==
    ASSUME NEW s, NEW R, NEW d, Pair(s, R, d)
    PROVE  LET u == vstore(gen_op(vsetc(s, Const(1)), "+"))
           IN  Single(s, u, R, d) /\ vtop(u).t = {}
<1> DEFINE op == "+"
           c == Const(1)
           v == vsetc(s, c)
           w == gen_op(v, op)
           u == vstore(w)
           n == Len(s.vs)
<1>0. n \in Nat /\ n >= 2 /\ n + 1 - 1 = n /\ n + 1 - 2 = n - 1 /\ n - 1 \in Nat BY PairPlain DEF Pair
<1>1. IsEntry(c) /\ c.t = {} BY ConstEntry
<1>2. op # "" OBVIOUS
<1> HIDE DEF c, op
<1>3. Good(v, R, d) /\ Kept(s, v, n) /\ Len(v.vs) = n + 1 /\ vtop(v) = c BY <1>1, PutPlain DEF Pair
<1> HIDE DEF v
<1> HIDE DEF n
<1>4. v.vs[n].t = {} /\ v.vs[n - 1].t = {}
  <2>1. s.vs[n].t = {} /\ s.vs[n - 1].t = {} BY DEF Pair, vtop, vtop1, n
  <2>2. n \in 1 .. n /\ n - 1 \in 1 .. n BY <1>0
  <2>3. QED BY <1>3, <2>1, <2>2 DEF Kept
<1>5. Pair(v, R, d) BY <1>0, <1>1, <1>3, <1>4 DEF Pair, vtop1
<1>6. Calm(v, 2) /\ Len(v.vs) >= 2 BY <1>5, PairPlain DEF Pair
<1>7. Good(w, R, d) /\ Len(w.vs) = n /\ Kept(v, w, n - 1) /\ vtop(w).t = {}
  <2>1. Good(w, R, d) /\ Len(w.vs) = Len(v.vs) - 1 /\ Kept(v, w, Len(v.vs) - 2) /\ vtop(w).t = {}
    BY ONLY <1>2, <1>3, <1>6, Op
  <2>2. Len(v.vs) - 1 = n /\ Len(v.vs) - 2 = n - 1 BY <1>0, <1>3
  <2> HIDE DEF w
  <2>3. QED BY <2>1, <2>2
<1> HIDE DEF w
<1>8. vtop1(w).t = {}
  <2>1. n - 1 \in 1 .. n - 1 BY <1>0
  <2>2. w.vs[n - 1].t = {} BY <1>4, <1>7, <2>1 DEF Kept
  <2>3. QED BY <1>7, <2>2 DEF vtop1
<1>9. Single(w, u, R, d) /\ vtop(u).t = {} BY <1>0, <1>7, <1>8, StoredBelow
<1> HIDE DEF u
<1>10. Good(u, R, d) /\ Len(u.vs) = n - 1 /\ Kept(w, u, n - 1) BY <1>7, <1>9 DEF Single
<1>11. Kept(s, v, n - 1)
  <2>1. n - 1 <= n BY <1>0
  <2>2. QED BY <1>0, <1>3, <2>1, KeptLess DEF Pair, Good
<1>12. Kept(s, u, n - 1) BY <1>7, <1>10, <1>11, KeptTwice
<1>13. Single(s, u, R, d) BY <1>10, <1>12 DEF Single, n
<1>14. QED BY <1>9, <1>13 DEF u, w, v, c, op

\* inc()
LEMMA IncrementDone ==
    ASSUME NEW s, NEW R, NEW d, Good(s, R, d), Len(s.vs) >= 1, vtop(s).t = {}, NEW post \in BOOLEAN
    PROVE  Done(s, inc(s, post), R, d) /\ vtop(inc(s, post)).t = {}
<1> DEFINE a == vdup(s)
           n == Len(s.vs)
           one(x) == vstore(gen_op(vsetc(x, Const(1)), "+"))
<1>0. IsState(s) /\ n \in Nat /\ n \in 1 .. n /\ n + 1 - 1 = n /\ n - 1 \in Nat BY Lengths DEF Good
<1>1. Good(a, R, d) /\ Kept(s, a, n) /\ Len(a.vs) = n + 1 /\ vtop(a).t = {} /\ vtop1(a).t = {} BY Duplicated
<1> HIDE DEF a
<1>2. CASE post = FALSE
  <2> DEFINE u == one(a)
  <2>1. inc(s, post) = u BY <1>2 DEF inc, Discard, a
  <2>2. Pair(a, R, d) BY <1>0, <1>1 DEF Pair
  <2>3. Single(a, u, R, d) /\ vtop(u).t = {} BY <2>2, OneAdded
  <2> HIDE DEF u
  <2>4. Good(u, R, d) /\ Len(u.vs) = n /\ Kept(a, u, n) BY <1>0, <1>1, <2>3 DEF Single
  <2>5. Kept(s, u, n) BY <1>1, <2>4, KeptTwice
  <2>6. QED BY <2>1, <2>3, <2>4, <2>5 DEF Done
<1>3. CASE post = TRUE
  <2> DEFINE b == gv_dup(a)
             c == vrotb(b, 3)
             e == vrotb(c, 3)
             q == one(e)
             u == vpop(q)
             m == n + 2
  <2>1. inc(s, post) = u BY <1>3 DEF inc, Discard, a
  <2>2. Good(b, R, d) /\ Kept(a, b, n + 1) /\ Len(b.vs) = m /\ vtop(b).t = {} /\ vtop1(b).t = {}
    <3>1. Len(a.vs) >= 1 BY <1>0, <1>1
    <3>2. LET x == gv_dup(a)
              k == Len(a.vs)
          IN  Good(x, R, d) /\ Kept(a, x, k) /\ Len(x.vs) = k + 1 /\ vtop(x).t = {} /\ vtop1(x).t = {}
      BY <1>1, <3>1, CopyMade
    <3> HIDE DEF n
    <3>3. QED BY <1>0, <1>1, <3>2
  <2> HIDE DEF b
  <2>3. b.vs[n].t = {} /\ b.vs[n + 1].t = {} /\ b.vs[m].t = {}
    <3>1. n \in 1 .. n + 1 /\ m - 1 = n + 1 BY <1>0
    <3>2. a.vs[n].t = {} BY <1>0, <1>1 DEF vtop1
    <3>3. b.vs[n].t = {} BY <2>2, <3>1, <3>2 DEF Kept
    <3>4. QED BY <2>2, <3>1, <3>3 DEF vtop, vtop1
  <2>4. Plain(b, 3)
    <3>1. \A i \in 1 .. m : i > m - 3 => i = n \/ i = n + 1 \/ i = m BY <1>0
    <3>2. QED BY <2>2, <2>3, <3>1 DEF Plain
  <2>5. 3 \in 1 .. m /\ m - 3 = n - 1 /\ m - 1 = n + 1 BY <1>0
  <2> HIDE DEF m
  <2>6. Good(c, R, d) /\ Len(c.vs) = m /\ Kept(b, c, n - 1) /\ Plain(c, 3)
    <3>1. 3 \in 1 .. Len(b.vs) /\ Len(b.vs) - 3 = n - 1 BY <2>2, <2>5
    <3>2. Good(c, R, d) /\ Len(c.vs) = Len(b.vs) /\ Kept(b, c, Len(b.vs) - 3) /\ Plain(c, 3)
      BY <2>2, <2>4, <3>1, RotatedPlain
    <3> HIDE DEF c
    <3>3. QED BY <2>2, <3>1, <3>2
  <2> HIDE DEF c
  <2>7. Good(e, R, d) /\ Len(e.vs) = m /\ Kept(c, e, n - 1) /\ Plain(e, 3)
    <3>1. 3 \in 1 .. Len(c.vs) /\ Len(c.vs) - 3 = n - 1 BY <2>6, <2>5
    <3>2. Good(e, R, d) /\ Len(e.vs) = Len(c.vs) /\ Kept(c, e, Len(c.vs) - 3) /\ Plain(e, 3)
      BY <2>6, <3>1, RotatedPlain
    <3> HIDE DEF e
    <3>3. QED BY <2>6, <3>1, <3>2
  <2> HIDE DEF e
  <2>8. e.vs[n].t = {} /\ e.vs[n + 1].t = {} /\ e.vs[m].t = {}
    <3>1. n \in 1 .. m /\ n + 1 \in 1 .. m /\ m \in 1 .. m /\ n > m - 3 /\ n + 1 > m - 3 /\ m > m - 3
      BY <1>0 DEF m
    <3>2. QED BY <2>7, <3>1 DEF Plain
  <2>9. Pair(e, R, d)
    <3>1. Len(e.vs) >= 2 BY <1>0, <2>7 DEF m
    <3>2. QED BY <2>5, <2>7, <2>8, <3>1 DEF Pair, vtop, vtop1
  <2>10. Single(e, q, R, d) /\ vtop(q).t = {} BY <2>9, OneAdded
  <2> HIDE DEF q
  <2>11. Good(q, R, d) /\ Len(q.vs) = n + 1 /\ Kept(e, q, n + 1) BY <2>5, <2>7, <2>10 DEF Single
  <2>12. Good(u, R, d) /\ Kept(q, u, n) /\ Len(u.vs) = n
    <3>1. Len(q.vs) >= 1 /\ Len(q.vs) - 1 = n BY <1>0, <2>11
    <3>2. Good(u, R, d) /\ Kept(q, u, Len(q.vs) - 1) /\ Len(u.vs) = Len(q.vs) - 1
      BY <2>11, <3>1, Popped
    <3> HIDE DEF u
    <3>3. QED BY <3>1, <3>2
  <2> HIDE DEF u
  <2>13. u.vs[n].t = {}
    <3>1. n \in 1 .. n + 1 BY <1>0
    <3>2. q.vs[n].t = {} BY <2>8, <2>11, <3>1 DEF Kept
    <3>3. QED BY <1>0, <2>12, <3>2 DEF Kept
  <2>14. vtop(u).t = {} BY <2>12, <2>13 DEF vtop
  <2>15. Kept(s, a, n - 1) /\ Kept(a, b, n - 1) /\ Kept(e, q, n - 1) /\ Kept(q, u, n - 1)
    <3>1. n - 1 <= n /\ n - 1 <= n + 1 BY <1>0
    <3>2. IsState(a) /\ IsState(b) /\ IsState(e) /\ IsState(q) /\ IsState(u)
      BY <1>1, <2>2, <2>7, <2>11, <2>12 DEF Good
    <3> HIDE DEF n
    <3>3. QED BY <1>0, <1>1, <2>2, <2>11, <2>12, <3>1, <3>2, KeptLess
  <2>16. Kept(s, u, n - 1) BY <2>6, <2>7, <2>15, KeptTwice
  <2>17. Kept(s, u, n) BY <1>0, <2>12, <2>14, <2>16, KeptTop
  <2>18. QED BY <2>1, <2>12, <2>14, <2>17 DEF Done
<1>4. QED BY <1>2, <1>3

-----------------------------------------------------------------------------
(* The arguments of a call                                                 *)

\* A round of the first loop of gfunc_call(), for the stack,
StackRound(n, onstack, wide, acc, i) ==
    LET p  == n + 1 - i
        s1 == vrotb(acc.s, acc.skipped + 1)
        s2 == IF p \in wide THEN s1 ELSE gv(s1, RC_INT)
        PushArg(m) == [m EXCEPT !.stk = <<Read(m, vtop(s2))>> \o @]
    IN IF p \notin onstack THEN [acc EXCEPT !.skipped = @ + 1]
       ELSE [acc EXCEPT !.s = vpop(Emit(s2, PushArg))]

\* and of the second one, for the registers
RegisterRound(n, onstack, st, i) ==
    LET p  == n + 1 - i
        s1 == gv(st, RC_INT)
        Move(m) == [m EXCEPT !.arg[Rank((1 .. n) \ onstack, p)] = m.reg[vtop(s1).r]]
    IN IF p \in onstack THEN st ELSE Drop(Emit(s1, Move))

\* Either of them
ArgRound(kind, n, onstack, wide, a, i) ==
    IF kind = "stack" THEN StackRound(n, onstack, wide, a, i) ELSE RegisterRound(n, onstack, a, i)

\* f lists the states of the first k rounds.
ArgRounds(f, k, kind, n, onstack, wide, start) ==
    /\ f[0] = start
    /\ \A i \in 1 .. k : f[i] = ArgRound(kind, n, onstack, wide, f[i - 1], i)

\* f is the recursive function of the n rounds.
ArgLooped(f, kind, n, onstack, wide, start) ==
    f = [i \in 0 .. n |-> IF i = 0 THEN start ELSE ArgRound(kind, n, onstack, wide, f[i - 1], i)]

\* It exists.
LEMMA ArgLoop ==
    ASSUME NEW n \in Nat, NEW kind, NEW onstack, NEW wide, NEW start
    PROVE  \E f : ArgLooped(f, kind, n, onstack, wide, start)
<1> DEFINE Fits(f, k) == ArgRounds(f, k, kind, n, onstack, wide, start)
           P(k) == \E f : f = [i \in 0 .. k |-> f[i]] /\ Fits(f, k)
           bad == {k \in 0 .. n : ~P(k)}
<1>1. P(0)
  <2> DEFINE f == [i \in 0 .. 0 |-> start]
  <2>1. f[0] = start /\ f = [i \in 0 .. 0 |-> f[i]] OBVIOUS
  <2> HIDE DEF f
  <2>2. Fits(f, 0) BY <2>1 DEF ArgRounds
  <2>3. QED BY <2>1, <2>2
<1>2. ASSUME NEW k \in 1 .. n, P(k - 1) PROVE P(k)
  <2>1. PICK f : f = [i \in 0 .. k - 1 |-> f[i]] /\ Fits(f, k - 1)
    BY <1>2
  <2> DEFINE last == ArgRound(kind, n, onstack, wide, f[k - 1], k)
             g == [i \in 0 .. k |-> IF i = k THEN last ELSE f[i]]
  <2> HIDE DEF last
  <2>2. g = [i \in 0 .. k |-> g[i]] OBVIOUS
  <2>3. g[k] = last /\ \A i \in 0 .. k - 1 : g[i] = f[i] OBVIOUS
  <2> HIDE DEF g
  <2>5. Fits(g, k)
    <3>1. g[0] = start BY <2>1, <2>3 DEF ArgRounds
    <3>2. ASSUME NEW i \in 1 .. k PROVE g[i] = ArgRound(kind, n, onstack, wide, g[i - 1], i)
      <4>1. CASE i = k
        <5>1. i - 1 \in 0 .. k - 1 BY <4>1
        <5>2. QED BY <2>3, <4>1, <5>1 DEF last
      <4>2. CASE i # k
        <5>1. i \in 1 .. k - 1 /\ i - 1 \in 0 .. k - 1 /\ i \in 0 .. k - 1 BY <4>2
        <5>2. g[i] = f[i] /\ g[i - 1] = f[i - 1] BY <2>3, <5>1
        <5>3. f[i] = ArgRound(kind, n, onstack, wide, f[i - 1], i) BY <2>1, <5>1 DEF ArgRounds
        <5>4. QED BY <5>2, <5>3
      <4>3. QED BY <4>1, <4>2
    <3>3. QED BY <3>1, <3>2 DEF ArgRounds
  <2>6. QED BY <2>2, <2>5
<1> HIDE DEF P
<1>3. bad = {}
  <2>1. SUFFICES ASSUME bad # {} PROVE FALSE
    OBVIOUS
  <2>2. bad \in SUBSET Nat OBVIOUS
  <2>3. PICK m \in bad : \A k \in bad : m <= k BY <2>1, <2>2, LeastElement
  <2>4. m # 0 BY <1>1, <2>3
  <2>5. m \in 1 .. n /\ m - 1 \in 0 .. n /\ m - 1 < m BY <2>3, <2>4
  <2>6. m - 1 \notin bad BY <2>3, <2>5
  <2>7. P(m) BY <1>2, <2>5, <2>6
  <2>8. QED BY <2>3, <2>7
<1>4. PICK f : f = [i \in 0 .. n |-> f[i]] /\ Fits(f, n)
  <2>1. n \in 0 .. n OBVIOUS
  <2>2. P(n) BY <1>3, <2>1
  <2>3. QED BY <2>2 DEF P
<1>5. ASSUME NEW i \in 0 .. n PROVE f[i] = IF i = 0 THEN start ELSE ArgRound(kind, n, onstack, wide, f[i - 1], i)
  <2>1. f[0] = start /\ \A j \in 1 .. n : f[j] = ArgRound(kind, n, onstack, wide, f[j - 1], j)
    BY <1>4 DEF ArgRounds
  <2>2. i = 0 \/ i \in 1 .. n OBVIOUS
  <2>3. QED BY <2>1, <2>2
<1> DEFINE g == [i \in 0 .. n |-> IF i = 0 THEN start ELSE ArgRound(kind, n, onstack, wide, f[i - 1], i)]
<1>6. \A i \in 0 .. n : f[i] = g[i] BY <1>5
<1>7. g = [i \in 0 .. n |-> g[i]] OBVIOUS
<1>8. f = g
  <2>1. f = [i \in 0 .. n |-> f[i]] BY <1>4
  <2> HIDE DEF g, Fits
  <2>2. QED BY <1>6, <1>7, <2>1
<1>9. QED BY <1>8 DEF ArgLooped

\* How many of the last i of n arguments are not passed on the stack
Skips(n, onstack, i) == Cardinality({j \in 1 .. i : n + 1 - j \notin onstack})

\* One more argument
LEMMA SkipsStep ==
    ASSUME NEW n \in Nat, NEW onstack
    PROVE  /\ Skips(n, onstack, 0) = 0
           /\ \A i \in 1 .. n :
                 /\ Skips(n, onstack, i - 1) \in Nat /\ Skips(n, onstack, i) \in Nat
                 /\ Skips(n, onstack, i) <= Skips(n, onstack, n)
                 /\ Skips(n, onstack, i) = Skips(n, onstack, i - 1) + IF n + 1 - i \notin onstack THEN 1 ELSE 0
           /\ Skips(n, onstack, n) \in Nat
<1> DEFINE S(i) == {j \in 1 .. i : n + 1 - j \notin onstack}
<1>1. ASSUME NEW i \in 0 .. n PROVE IsFiniteSet(S(i)) /\ Cardinality(S(i)) \in Nat /\ Cardinality(S(i)) <= Cardinality(S(n))
  <2>1. IsFiniteSet(1 .. n) BY FS_Interval
  <2>2. S(n) \in SUBSET (1 .. n) /\ S(i) \in SUBSET S(n) OBVIOUS
  <2> HIDE DEF S
  <2>3. IsFiniteSet(S(n)) BY <2>1, <2>2, FS_Subset
  <2>4. IsFiniteSet(S(i)) /\ Cardinality(S(i)) <= Cardinality(S(n)) BY <2>2, <2>3, FS_Subset
  <2>5. QED BY <2>4, FS_CardinalityType
<1>2. S(0) = {} OBVIOUS
<1>3. ASSUME NEW i \in 1 .. n
      PROVE  Cardinality(S(i)) = Cardinality(S(i - 1)) + IF n + 1 - i \notin onstack THEN 1 ELSE 0
  <2>1. i - 1 \in 0 .. n OBVIOUS
  <2>2. IsFiniteSet(S(i - 1)) /\ Cardinality(S(i - 1)) \in Nat BY <1>1, <2>1
  <2>3. i \notin S(i - 1) OBVIOUS
  <2>4. CASE n + 1 - i \notin onstack
    <3>1. S(i) = S(i - 1) \cup {i} BY <2>4
    <3> DEFINE T == S(i - 1)
    <3> HIDE DEF S, T
    <3>2. Cardinality(T \cup {i}) = Cardinality(T) + 1 BY <2>2, <2>3, FS_AddElement DEF T
    <3>3. QED BY <2>4, <3>1, <3>2 DEF T
  <2>5. CASE n + 1 - i \in onstack
    <3>1. S(i) = S(i - 1) BY <2>5
    <3> HIDE DEF S
    <3>2. QED BY <2>2, <2>5, <3>1
  <2>6. QED BY <2>4, <2>5
<1>4. \A i \in 1 .. n : i - 1 \in 0 .. n /\ i \in 0 .. n OBVIOUS
<1>5. n \in 0 .. n OBVIOUS
<1>6. \A i : Skips(n, onstack, i) = Cardinality(S(i)) BY DEF Skips
<1> HIDE DEF S
<1>7. Skips(n, onstack, 0) = 0 BY <1>2, <1>6, FS_EmptySet
<1>8. QED BY <1>1, <1>3, <1>4, <1>5, <1>6, <1>7

\* The state after i of the n arguments have been looked at for the stack
OnStack(s, R, d, n, onstack, i, a) ==
    /\ a = [s |-> a.s, skipped |-> a.skipped]
    /\ a.skipped = Skips(n, onstack, i) /\ a.skipped \in Nat
    /\ Good(a.s, R, d) /\ Len(a.s.vs) = Len(s.vs) - i + a.skipped /\ Kept(s, a.s, Len(s.vs) - i)

\* The parts of such a state
LEMMA WithState ==
    ASSUME NEW a, a = [s |-> a.s, skipped |-> a.skipped], NEW w
    PROVE  LET b == [a EXCEPT !.s = w]
           IN  b = [s |-> b.s, skipped |-> b.skipped] /\ b.s = w /\ b.skipped = a.skipped
OBVIOUS

\* (the number of those that were skipped)
LEMMA WithSkipped ==
    ASSUME NEW a, a = [s |-> a.s, skipped |-> a.skipped]
    PROVE  LET b == [a EXCEPT !.skipped = @ + 1]
           IN  b = [s |-> b.s, skipped |-> b.skipped] /\ b.s = a.s /\ b.skipped = a.skipped + 1
OBVIOUS

\* Where the arguments are on the stack
LEMMA Positions ==
    ASSUME NEW L \in Nat, NEW n \in Nat, NEW i \in 1 .. n, NEW k \in Nat, L > n, NEW z, z = L - (i - 1) + k
    PROVE  /\ z \in Nat /\ k + 1 \in 1 .. z /\ z - (k + 1) = L - i /\ L - i \in Nat /\ L - i <= L - (i - 1)
           /\ L - i <= z - 1 /\ L - i >= L - n /\ L - i <= z /\ z >= 1
           /\ z = L - i + (k + 1) /\ z - 1 = L - i + k /\ k + 0 = k
OBVIOUS

\* One round of the first loop
LEMMA OnStackStep ==
    ASSUME NEW s, NEW R, NEW d, Good(s, R, d), NEW n \in Nat, Len(s.vs) > n, s.nocode # 0 => d <= Len(s.vs) - n,
           d \in Nat, NEW onstack, NEW wide, NEW i \in 1 .. n, NEW a, OnStack(s, R, d, n, onstack, i - 1, a)
    PROVE  OnStack(s, R, d, n, onstack, i, StackRound(n, onstack, wide, a, i))
<1> DEFINE L == Len(s.vs)
           k == a.skipped
           z == Len(a.s.vs)
           b == StackRound(n, onstack, wide, a, i)
           p == n + 1 - i
<1>0. IsState(s) /\ L \in Nat /\ n \in Nat /\ i \in 1 .. n /\ i - 1 \in Nat /\ L > n BY Lengths DEF Good
<1>1. /\ a = [s |-> a.s, skipped |-> a.skipped] /\ k = Skips(n, onstack, i - 1) /\ k \in Nat
      /\ Good(a.s, R, d) /\ z = L - (i - 1) + k /\ Kept(s, a.s, L - (i - 1))
  BY DEF OnStack
<1>2. /\ z \in Nat /\ k + 1 \in 1 .. z /\ z - (k + 1) = L - i /\ L - i \in Nat /\ L - i <= L - (i - 1)
      /\ L - i <= z - 1 /\ L - i >= L - n /\ L - i <= z /\ z >= 1
  <2> HIDE DEF L, z, k
  <2>1. QED BY ONLY <1>0, <1>1, Positions
<1>3. Kept(s, a.s, L - i)
  <2> HIDE DEF L
  <2>1. QED BY <1>0, <1>1, <1>2, KeptLess DEF Good
<1>4. CASE p \notin onstack
  <2>1. b = [a EXCEPT !.skipped = @ + 1] BY <1>4 DEF StackRound
  <2> HIDE DEF b
  <2>2. b = [s |-> b.s, skipped |-> b.skipped] /\ b.s = a.s /\ b.skipped = k + 1 BY <1>1, <2>1, WithSkipped
  <2>3. Skips(n, onstack, i) = k + 1 BY <1>1, <1>4, SkipsStep
  <2>4. z = L - i + (k + 1)
    <3> HIDE DEF L, z, k
    <3>1. QED BY <1>0, <1>1
  <2> HIDE DEF k
  <2>5. k + 1 \in Nat BY <1>1
  <2>6. QED BY <1>1, <1>3, <2>2, <2>3, <2>4, <2>5 DEF OnStack, b, L, z
<1>5. CASE p \in onstack
  <2> DEFINE s1 == vrotb(a.s, k + 1)
             s2 == IF p \in wide THEN s1 ELSE gv(s1, RC_INT)
             e == Emit(s2, LAMBDA m : [m EXCEPT !.stk = <<Read(m, vtop(s2))>> \o @])
             w == vpop(e)
  <2>1. b = [a EXCEPT !.s = w] BY <1>5 DEF StackRound, Emit
  <2>2. Calm(a.s, k + 1)
    <3>1. a.s.nocode = s.nocode BY <1>1 DEF Kept
    <3>2. ASSUME s.nocode # 0, NEW j \in 1 .. z, j > z - (k + 1) PROVE a.s.vs[j].t = {}
      <4>1. d <= L - n BY <3>2
      <4> HIDE DEF L, z, k
      <4>2. j > d BY <1>0, <1>2, <3>2, <4>1
      <4>3. \A x \in 1 .. z : x > d => a.s.vs[x].t = {} BY <1>1, <3>1, <3>2 DEF Good, Idle, z
      <4>4. QED BY <3>2, <4>2, <4>3
    <3>3. QED BY <3>1, <3>2 DEF Calm, Plain
  <2>3. Good(s1, R, d) /\ Len(s1.vs) = z /\ Kept(a.s, s1, L - i)
    <3> HIDE DEF k, L, z
    <3> DEFINE c == k + 1
    <3>1. c \in 1 .. Len(a.s.vs) /\ Calm(a.s, c) BY <1>2, <2>2 DEF z
    <3>2. z - c = L - i BY <1>2
    <3> HIDE DEF c
    <3>3. Good(vrotb(a.s, c), R, d) /\ Len(vrotb(a.s, c).vs) = Len(a.s.vs)
          /\ Kept(a.s, vrotb(a.s, c), Len(a.s.vs) - c)
      BY <1>1, <3>1, RotatedTop
    <3>4. QED BY <3>2, <3>3 DEF c, z
  <2> HIDE DEF s1, z, k
  <2>4. Done(s1, s2, R, d)
    <3>1. Len(s1.vs) >= 1 BY <1>2, <2>3
    <3>2. Done(s1, s1, R, d) BY <2>3, DoneSelf
    <3>3. Done(s1, gv(s1, RC_INT), R, d) BY <2>3, <3>1, Gotten, Classes
    <3>4. QED BY <3>2, <3>3
  <2> HIDE DEF s2
  <2>5. Done(s2, e, R, d)
    <3>1. IsState(s2) /\ Good(s2, R, d) BY <2>4 DEF Done, Good
    <3>2. Quiet(s2, e) BY <3>1, MachineOnly, QuietSelf DEF Emit
    <3> HIDE DEF e
    <3>3. QED BY <3>1, <3>2, QuietSame, SameDone
  <2> HIDE DEF e
  <2>6. Done(s1, e, R, d) BY <2>4, <2>5, DoneTwice
  <2>7. Good(e, R, d) /\ Len(e.vs) = z /\ Kept(s1, e, z) BY <2>3, <2>6 DEF Done
  <2>8. Good(w, R, d) /\ Kept(e, w, z - 1) /\ Len(w.vs) = z - 1
    <3>1. Len(e.vs) >= 1 BY <1>2, <2>7
    <3>2. Good(w, R, d) /\ Kept(e, w, Len(e.vs) - 1) /\ Len(w.vs) = Len(e.vs) - 1
      BY <2>7, <3>1, Popped
    <3> HIDE DEF w
    <3>3. QED BY <2>7, <3>2
  <2> HIDE DEF w, L
  <2>9. Kept(s1, e, L - i) /\ Kept(e, w, L - i)
    <3>1. IsState(s1) /\ IsState(e) /\ IsState(w) BY <2>3, <2>7, <2>8 DEF Good
    <3>2. QED BY <1>2, <2>7, <2>8, <3>1, KeptLess
  <2>10. Kept(s, w, L - i) BY <1>3, <2>3, <2>9, KeptTwice
  <2> HIDE DEF b
  <2>11. b = [s |-> b.s, skipped |-> b.skipped] /\ b.s = w /\ b.skipped = k BY <1>1, <2>1, WithState DEF k
  <2>12. Skips(n, onstack, i) = k
    <3>1. Skips(n, onstack, i) = k + 0 BY <1>1, <1>5, SkipsStep
    <3>2. k + 0 = k BY <1>1
    <3>3. QED BY <3>1, <3>2
  <2>13. z - 1 = L - i + k BY <1>0, <1>1
  <2>14. QED BY <1>1, <2>8, <2>10, <2>11, <2>12, <2>13 DEF OnStack, b, L
<1>6. QED BY <1>4, <1>5

\* The first loop of gfunc_call()
LEMMA StackArgsDone ==
    ASSUME NEW s, NEW R, NEW d, Good(s, R, d), NEW n \in Nat, Len(s.vs) > n, s.nocode # 0 => d <= Len(s.vs) - n,
           d \in Nat, NEW onstack, NEW wide
    PROVE  LET u == StackArgs(s, n, onstack, wide)
               B == Len(s.vs) - n
           IN  Good(u, R, d) /\ Len(u.vs) = B + Skips(n, onstack, n) /\ Kept(s, u, B)
<1> DEFINE start == [s |-> s, skipped |-> 0]
           h(f) == [i \in 0 .. n |-> IF i = 0 THEN start
                                     ELSE Only({StackRound(n, onstack, wide, u, i) : u \in {f[i - 1]}})]
           after == CHOOSE f : f = h(f)
           Fine(i, a) == OnStack(s, R, d, n, onstack, i, a)
           bad == {i \in 0 .. n : ~Fine(i, after[i])}
<1>1. after = h(after)
  <2> DEFINE kd == "stack"
  <2>1. \A a, i : ArgRound(kd, n, onstack, wide, a, i) = StackRound(n, onstack, wide, a, i) BY DEF ArgRound
  <2> HIDE DEF start, kd
  <2>2. PICK f : ArgLooped(f, kd, n, onstack, wide, start) BY ArgLoop
  <2>3. f = h(f)
    <3>1. \A i \in 0 .. n : StackRound(n, onstack, wide, f[i - 1], i)
                            = Only({StackRound(n, onstack, wide, u, i) : u \in {f[i - 1]}})
      BY DEF Only
    <3>2. QED BY <2>1, <2>2, <3>1 DEF ArgLooped
  <2>4. QED BY <2>3
<1>2. StackArgs(s, n, onstack, wide) = after[n].s
  BY DEF StackArgs, ForUpTo, StackRound, Emit
<1> HIDE DEF after
<1>3. after[0] = start /\ \A i \in 1 .. n : after[i] = StackRound(n, onstack, wide, after[i - 1], i)
  <2> HIDE DEF start
  <2>1. \A i \in 1 .. n : i \in 0 .. n /\ i # 0 OBVIOUS
  <2>2. 0 \in 0 .. n OBVIOUS
  <2>3. QED BY <1>1, <2>1, <2>2 DEF Only
<1>4. Fine(0, start)
  <2>1. start = [s |-> start.s, skipped |-> start.skipped] /\ start.s = s /\ start.skipped = 0 OBVIOUS
  <2>2. IsState(s) /\ Len(s.vs) \in Nat BY Lengths DEF Good
  <2>3. Kept(s, s, Len(s.vs)) BY <2>2, QuietSelf, KeptAll
  <2>4. Len(s.vs) - 0 = Len(s.vs) /\ Len(s.vs) - 0 + 0 = Len(s.vs) BY <2>2
  <2>5. Skips(n, onstack, 0) = 0 BY SkipsStep
  <2> HIDE DEF start
  <2>6. QED BY <2>1, <2>3, <2>4, <2>5 DEF OnStack
<1>5. bad = {}
  <2>1. SUFFICES ASSUME bad # {} PROVE FALSE
    OBVIOUS
  <2>2. bad \in SUBSET Nat OBVIOUS
  <2>3. PICK m \in bad : \A k \in bad : m <= k BY <2>1, <2>2, LeastElement
  <2>4. m # 0 BY <1>3, <1>4, <2>3
  <2>5. m \in 1 .. n /\ m - 1 \in 0 .. n /\ m - 1 < m BY <2>3, <2>4
  <2>6. m - 1 \notin bad BY <2>3, <2>5
  <2>7. Fine(m - 1, after[m - 1]) BY <2>5, <2>6
  <2> DEFINE a == after[m - 1]
  <2>8. OnStack(s, R, d, n, onstack, m - 1, a) BY <2>7
  <2>9. after[m] = StackRound(n, onstack, wide, a, m) BY <1>3, <2>5
  <2> HIDE DEF a, bad
  <2>10. OnStack(s, R, d, n, onstack, m, StackRound(n, onstack, wide, a, m)) BY <2>5, <2>8, OnStackStep
  <2>11. m \notin bad BY <2>9, <2>10 DEF bad
  <2>12. QED BY <2>3, <2>11
<1>6. OnStack(s, R, d, n, onstack, n, after[n])
  <2>1. n \in 0 .. n OBVIOUS
  <2>2. QED BY <1>5, <2>1
<1>7. QED BY <1>2, <1>6 DEF OnStack

\* The state after i of the n arguments have been looked at for the registers
InRegisters(s, R, d, n, onstack, B, i, a) ==
    /\ Good(a, R, d) /\ Kept(s, a, B)
    /\ Len(a.vs) = B + Skips(n, onstack, n) - Skips(n, onstack, i)

\* One round of the second loop
LEMMA InRegistersStep ==
    ASSUME NEW s, NEW R, NEW d, NEW n \in Nat, NEW B \in Nat, B >= 1, NEW onstack, NEW i \in 1 .. n,
           NEW a, InRegisters(s, R, d, n, onstack, B, i - 1, a)
    PROVE  InRegisters(s, R, d, n, onstack, B, i, RegisterRound(n, onstack, a, i))
<1> DEFINE all == Skips(n, onstack, n)
           k == Skips(n, onstack, i - 1)
           l == Skips(n, onstack, i)
           z == Len(a.vs)
           b == RegisterRound(n, onstack, a, i)
           p == n + 1 - i
<1>1. Good(a, R, d) /\ Kept(s, a, B) /\ z = B + all - k BY DEF InRegisters
<1>2. all \in Nat /\ k \in Nat /\ l \in Nat /\ l <= all /\ l = k + IF p \notin onstack THEN 1 ELSE 0
  BY SkipsStep
<1>3. CASE p \in onstack
  <2>1. b = a BY <1>3 DEF RegisterRound
  <2>2. l = k BY <1>2, <1>3
  <2> HIDE DEF b, p, z
  <2>3. QED BY <1>1, <2>1, <2>2 DEF InRegisters, b, z
<1>4. CASE p \notin onstack
  <2> DEFINE s1 == gv(a, RC_INT)
             w == Emit(s1, LAMBDA m : [m EXCEPT !.arg[Rank((1 .. n) \ onstack, p)] = m.reg[vtop(s1).r]])
  <2>1. b = Drop(w) BY <1>4 DEF RegisterRound, Emit
  <2>2. z - 1 = B + all - l /\ z - 1 >= B /\ z >= 1
    <3>1. l = k + 1 BY <1>2, <1>4
    <3> HIDE DEF all, k, l, z, p
    <3>2. QED BY <1>1, <1>2, <3>1
  <2>3. Done(a, s1, R, d) /\ vtop(s1).t = {} BY <1>1, <2>2, Gotten, Classes
  <2> HIDE DEF s1
  <2>4. Quiet(s1, w)
    <3>1. IsState(s1) BY <2>3 DEF Done, Good
    <3>2. QED BY <3>1, MachineOnly, QuietSelf DEF Emit
  <2> HIDE DEF w
  <2>5. Good(w, R, d) /\ Len(w.vs) = z /\ Kept(a, w, z) /\ vtop(w).t = {}
    <3>1. Done(s1, w, R, d) BY <2>3, <2>4, QuietSame, SameDone DEF Done
    <3>2. Done(a, w, R, d) BY <2>3, <3>1, DoneTwice
    <3>3. vtop(w) = vtop(s1) BY <2>4 DEF Quiet, vtop
    <3>4. QED BY <2>3, <3>2, <3>3 DEF Done
  <2>6. Good(Drop(w), R, d) /\ Kept(w, Drop(w), z - 1) /\ Len(Drop(w).vs) = z - 1
    <3>1. Len(w.vs) >= 1 BY <2>2, <2>5
    <3>2. Good(Drop(w), R \cup vtop(w).t, d) /\ Kept(w, Drop(w), Len(w.vs) - 1) /\ Len(Drop(w).vs) = Len(w.vs) - 1
      BY <2>5, <3>1, Dropped
    <3>3. R \cup vtop(w).t = R BY <2>5
    <3>4. QED BY <2>5, <3>2, <3>3
  <2> HIDE DEF z, all, k, l, b
  <2>7. Kept(a, w, B) /\ Kept(w, Drop(w), B)
    <3>1. IsState(a) /\ IsState(w) /\ IsState(Drop(w)) BY <1>1, <2>5, <2>6 DEF Good
    <3>2. B <= z /\ B <= z - 1
      <4>1. z \in Int BY <1>1, <1>2
      <4>2. QED BY <2>2, <4>1
    <3>3. QED BY <2>5, <2>6, <3>1, <3>2, KeptLess
  <2>8. Kept(s, Drop(w), B) BY <1>1, <2>7, KeptTwice
  <2>9. QED BY <2>1, <2>2, <2>6, <2>8 DEF InRegisters, all, l, b
<1>5. QED BY <1>3, <1>4

\* The second loop of gfunc_call()
LEMMA RegisterArgsDone ==
    ASSUME NEW s, NEW R, NEW d, Good(s, R, d), NEW n \in Nat, NEW B \in Nat, B >= 1, NEW onstack,
           Len(s.vs) = B + Skips(n, onstack, n)
    PROVE  LET u == RegisterArgs(s, n, onstack)
           IN  Good(u, R, d) /\ Len(u.vs) = B /\ Kept(s, u, B)
<1> DEFINE h(f) == [i \in 0 .. n |-> IF i = 0 THEN s
                                     ELSE Only({RegisterRound(n, onstack, u, i) : u \in {f[i - 1]}})]
           after == CHOOSE f : f = h(f)
           Fine(i, a) == InRegisters(s, R, d, n, onstack, B, i, a)
           bad == {i \in 0 .. n : ~Fine(i, after[i])}
           all == Skips(n, onstack, n)
<1>1. after = h(after)
  <2> DEFINE kd == "registers"
             wide == {}
  <2>1. \A a, i : ArgRound(kd, n, onstack, wide, a, i) = RegisterRound(n, onstack, a, i) BY DEF ArgRound
  <2> HIDE DEF kd, wide
  <2>2. PICK f : ArgLooped(f, kd, n, onstack, wide, s) BY ArgLoop
  <2>3. f = h(f)
    <3>1. \A i \in 0 .. n : RegisterRound(n, onstack, f[i - 1], i)
                            = Only({RegisterRound(n, onstack, u, i) : u \in {f[i - 1]}})
      BY DEF Only
    <3>2. QED BY <2>1, <2>2, <3>1 DEF ArgLooped
  <2>4. QED BY <2>3
<1>2. RegisterArgs(s, n, onstack) = after[n]
  BY DEF RegisterArgs, ForUpTo, RegisterRound, Emit
<1> HIDE DEF after
<1>3. after[0] = s /\ \A i \in 1 .. n : after[i] = RegisterRound(n, onstack, after[i - 1], i)
  <2>1. \A i \in 1 .. n : i \in 0 .. n /\ i # 0 OBVIOUS
  <2>2. 0 \in 0 .. n OBVIOUS
  <2>3. QED BY <1>1, <2>1, <2>2 DEF Only
<1>0. all \in Nat /\ Skips(n, onstack, 0) = 0 BY SkipsStep
<1>4. Fine(0, s)
  <2>1. IsState(s) /\ Len(s.vs) \in Nat BY Lengths DEF Good
  <2>2. Kept(s, s, Len(s.vs)) BY <2>1, QuietSelf, KeptAll
  <2> HIDE DEF all
  <2>3. B <= Len(s.vs) /\ B + all - 0 = B + all BY <1>0 DEF all
  <2>4. Kept(s, s, B) BY <2>1, <2>2, <2>3, KeptLess
  <2>5. QED BY <1>0, <2>3, <2>4 DEF InRegisters, all
<1>5. bad = {}
  <2>1. SUFFICES ASSUME bad # {} PROVE FALSE
    OBVIOUS
  <2>2. bad \in SUBSET Nat OBVIOUS
  <2>3. PICK m \in bad : \A k \in bad : m <= k BY <2>1, <2>2, LeastElement
  <2>4. m # 0 BY <1>3, <1>4, <2>3
  <2>5. m \in 1 .. n /\ m - 1 \in 0 .. n /\ m - 1 < m BY <2>3, <2>4
  <2>6. m - 1 \notin bad BY <2>3, <2>5
  <2>7. Fine(m - 1, after[m - 1]) BY <2>5, <2>6
  <2> DEFINE a == after[m - 1]
  <2>8. InRegisters(s, R, d, n, onstack, B, m - 1, a) BY <2>7
  <2>9. after[m] = RegisterRound(n, onstack, a, m) BY <1>3, <2>5
  <2> HIDE DEF a, bad
  <2>10. InRegisters(s, R, d, n, onstack, B, m, RegisterRound(n, onstack, a, m)) BY <2>5, <2>8, InRegistersStep
  <2>11. m \notin bad BY <2>9, <2>10 DEF bad
  <2>12. QED BY <2>3, <2>11
<1>6. InRegisters(s, R, d, n, onstack, B, n, after[n])
  <2>1. n \in 0 .. n OBVIOUS
  <2>2. QED BY <1>5, <2>1
<1>7. B + all - all = B
  <2> HIDE DEF all
  <2>1. QED BY <1>0
<1>8. QED BY <1>2, <1>6, <1>7 DEF InRegisters

\* The call instruction drops the function.
LEMMA Invoked ==
    ASSUME NEW s, NEW R, NEW d, Good(s, R, d), Len(s.vs) >= 1, vtop(s).t = {}, NEW n, NEW onstack
    PROVE  Single(s, Invoke(s, n, onstack), R, d)
<1> DEFINE w == Emit(s, LAMBDA m :
                  [m EXCEPT !.reg = [r \in RC_INT |-> IF r = REG_IRET
                                                       THEN Callee(Received(m, n, onstack))
                                                       ELSE Junk],
                             !.fl = NoFlags, !.stk = <<>>, !.got = Received(m, n, onstack),
                             !.arg = [i \in DOMAIN m.arg |-> Junk]])
           z == Len(s.vs)
<1>1. Invoke(s, n, onstack) = Drop(w) BY DEF Invoke, Emit
<1>2. Quiet(s, w) BY MachineOnly, QuietSelf DEF Emit, Good
<1> HIDE DEF w
<1>3. Done(s, w, R, d) /\ vtop(w) = vtop(s) BY <1>2, QuietSame, SameDone DEF Quiet, vtop
<1>4. Good(w, R, d) /\ Len(w.vs) = z /\ Kept(s, w, z) BY <1>3 DEF Done
<1>5. Good(Drop(w), R, d) /\ Kept(w, Drop(w), z - 1) /\ Len(Drop(w).vs) = z - 1
  <2>1. Good(Drop(w), R \cup vtop(w).t, d) /\ Kept(w, Drop(w), Len(w.vs) - 1) /\ Len(Drop(w).vs) = Len(w.vs) - 1
    BY <1>4, Dropped
  <2>2. R \cup vtop(w).t = R BY <1>3
  <2>3. QED BY <1>4, <2>1, <2>2
<1>6. Kept(s, w, z - 1)
  <2>1. IsState(s) /\ IsState(w) /\ z \in Nat BY <1>4, Lengths DEF Good
  <2>2. z - 1 \in Nat /\ z - 1 <= z BY <2>1
  <2>3. QED BY <1>4, <2>1, <2>2, KeptLess
<1>7. Kept(s, Drop(w), z - 1) BY <1>5, <1>6, KeptTwice
<1>8. QED BY <1>1, <1>5, <1>7 DEF Single

\* gfunc_call()
LEMMA FunctionCalled ==
    ASSUME NEW s, NEW R, NEW d, Good(s, R, d), NEW n \in Nat, Len(s.vs) > n, s.nocode # 0 => d <= Len(s.vs) - n,
           d \in Nat, s.vs[Len(s.vs) - n].t = {}, NEW onstack, NEW wide
    PROVE  LET u == gfunc_call(s, n, onstack, wide)
               B == Len(s.vs) - n
           IN  Good(u, R, d) /\ Len(u.vs) = B - 1 /\ Kept(s, u, B - 1)
<1> DEFINE B == Len(s.vs) - n
           a == FetchFlags(s)
           b == StackArgs(a, n, onstack, wide)
           c == save_regs(b, 0)
           e == RegisterArgs(c, n, onstack)
           f == save_regs(e, 0)
           u == Invoke(f, n, onstack)
           all == Skips(n, onstack, n)
<1>0. IsState(s) /\ Len(s.vs) \in Nat /\ B \in Nat /\ B >= 1 /\ B <= Len(s.vs) /\ B - 1 \in Nat /\ B - 1 <= B
      /\ B \in 1 .. B /\ B <= B + all /\ Len(s.vs) >= 1
  <2>1. IsState(s) /\ Len(s.vs) \in Nat BY Lengths DEF Good
  <2>2. all \in Nat BY SkipsStep
  <2> HIDE DEF all
  <2>3. QED BY <2>1, <2>2
<1>1. gfunc_call(s, n, onstack, wide) = u BY DEF gfunc_call
<1>2. Done(s, a, R, d)
  <2>1. FetchFlags(s) = s \/ FetchFlags(s) = gv(s, RC_INT) BY DEF FetchFlags
  <2>2. QED BY <1>0, <2>1, DoneSelf, Gotten, Classes
<1> HIDE DEF a
<1>3. Good(a, R, d) /\ Len(a.vs) = Len(s.vs) /\ Kept(s, a, Len(s.vs)) /\ a.nocode = s.nocode
  BY <1>2 DEF Done, Kept
<1>4. Good(b, R, d) /\ Len(b.vs) = B + all /\ Kept(a, b, B)
  <2>1. Len(a.vs) > n /\ (a.nocode # 0 => d <= Len(a.vs) - n) BY <1>3
  <2>2. Good(b, R, d) /\ Len(b.vs) = Len(a.vs) - n + Skips(n, onstack, n) /\ Kept(a, b, Len(a.vs) - n)
    BY <1>3, <2>1, StackArgsDone
  <2> HIDE DEF b
  <2>3. QED BY <1>3, <2>2
<1> HIDE DEF b
<1>5. Done(b, c, R, d)
  <2>1. Same(b, c) BY <1>4, RegistersSaved DEF Good
  <2>2. QED BY <1>4, <2>1, SameDone
<1> HIDE DEF c
<1>6. Good(c, R, d) /\ Len(c.vs) = B + all /\ Kept(b, c, B + all) BY <1>4, <1>5 DEF Done
<1>7. Good(e, R, d) /\ Len(e.vs) = B /\ Kept(c, e, B)
  <2>1. Len(c.vs) = B + Skips(n, onstack, n) BY <1>6
  <2> HIDE DEF B
  <2>2. QED BY <1>0, <1>6, <2>1, RegisterArgsDone
<1> HIDE DEF e
<1>8. Done(e, f, R, d)
  <2>1. Same(e, f) BY <1>7, RegistersSaved DEF Good
  <2>2. QED BY <1>7, <2>1, SameDone
<1> HIDE DEF f
<1>9. Good(f, R, d) /\ Len(f.vs) = B /\ Kept(e, f, B) BY <1>7, <1>8 DEF Done
<1>10. Kept(s, a, B) /\ Kept(b, c, B)
  <2>1. IsState(a) /\ IsState(b) /\ IsState(c) BY <1>3, <1>4, <1>6 DEF Good
  <2> HIDE DEF B, all
  <2>2. QED BY <1>0, <1>3, <1>6, <2>1, KeptLess
<1>11. Kept(s, f, B) BY <1>4, <1>7, <1>9, <1>10, KeptTwice
<1>12. vtop(f).t = {}
  <2>1. f.vs[B].t = {} BY <1>0, <1>11 DEF Kept
  <2>2. QED BY <1>9, <2>1 DEF vtop
<1>13. Single(f, u, R, d) BY <1>0, <1>9, <1>12, Invoked
<1> HIDE DEF u
<1>14. Good(u, R, d) /\ Len(u.vs) = B - 1 /\ Kept(f, u, B - 1) BY <1>9, <1>13 DEF Single
<1>15. Kept(s, f, B - 1)
  <2> HIDE DEF B
  <2>1. QED BY <1>0, <1>9, <1>11, KeptLess DEF Good
<1>16. Kept(s, u, B - 1) BY <1>14, <1>15, KeptTwice
<1>17. QED BY <1>1, <1>14, <1>16

-----------------------------------------------------------------------------
(* Conditions                                                              *)

\* A test of an entry that was changed first
LEMMA TestsAfter ==
    ASSUME NEW s, NEW R, NEW d, NEW a, Done(s, a, R, d), Len(s.vs) >= 1, IsState(s), NEW t, NEW b, Tests(a, R, d, t, b)
    PROVE  Tests(s, R, d, t, b)
<1> DEFINE n == Len(s.vs)
<1>1. Len(a.vs) = n /\ Kept(s, a, n) /\ IsState(a) /\ a.nocode = s.nocode BY DEF Done, Good, Kept
<1>2. n \in Nat /\ n - 1 \in Nat /\ n - 1 <= n BY Lengths
<1>3. Kept(s, a, n - 1) BY <1>1, <1>2, KeptLess
<1> HIDE DEF n
<1>4. Kept(a, b.s, n - 1) /\ Len(b.s.vs) = n - 1 BY <1>1 DEF Tests
<1>5. Kept(s, b.s, n - 1) BY <1>3, <1>4, KeptTwice
<1>6. QED BY <1>1, <1>4, <1>5 DEF Tests, n

\* Saving registers changes no chain.
LEMMA SavedDone ==
    ASSUME NEW s, NEW R, NEW d, Good(s, R, d), NEW n PROVE Done(s, save_regs(s, n), R, d)
BY RegistersSaved, SameDone DEF Good

\* u has as many entries as s, the top one is another value.
Reset(s, u, R, d) == Good(u, R, d) /\ Len(u.vs) = Len(s.vs) /\ Kept(s, u, Len(s.vs) - 1)

\* Every change of the entries is one of them.
LEMMA DoneReset ==
    ASSUME NEW s, NEW R, NEW d, NEW u, Done(s, u, R, d), IsState(s), Len(s.vs) >= 1 PROVE Reset(s, u, R, d)
<1>1. Len(s.vs) \in Nat BY Lengths
<1>2. Len(s.vs) - 1 \in Nat /\ Len(s.vs) - 1 <= Len(s.vs) BY <1>1
<1>3. Kept(s, u, Len(s.vs) - 1) BY <1>2, KeptLess DEF Done, Good
<1>4. QED BY <1>3 DEF Reset, Done

\* An operator ! changes the top entry only.
LEMMA Negated ==
    ASSUME NEW s, NEW R, NEW d, Good(s, R, d), Len(s.vs) >= 1, Calm(s, 1) PROVE Reset(s, Negate(s), R, d)
<1> DEFINE n == Len(s.vs)
<1>0. IsState(s) /\ n \in Nat /\ n - 1 + 1 = n BY Lengths DEF Good
<1>1. CASE IsConst(vtop(s)) \/ vtop(s).r = "cmp"
  <2>1. vtop(s).t = {} BY <1>1, GoodTop DEF IsConst, Jmps
  <2>2. PICK e : IsEntry(e) /\ e.t = {} /\ Negate(s) = SetTop(s, e)
    <3>1. CASE IsConst(vtop(s))
      <4> DEFINE e == Const(IF vtop(s).c = 0 THEN 1 ELSE 0)
      <4>0. vtop(s).r # "cmp" BY <3>1 DEF IsConst
      <4>1. Negate(s) = SetTop(s, e) BY <3>1, <4>0 DEF Negate
      <4>2. IsEntry(e) /\ e.t = {} BY ConstEntry
      <4> HIDE DEF e
      <4>3. QED BY <4>1, <4>2
    <3>2. CASE ~IsConst(vtop(s)) /\ vtop(s).r = "cmp"
      <4> DEFINE e == Flags(Opposite(vtop(s).op))
      <4>1. Negate(s) = SetTop(s, e) BY <3>2 DEF Negate
      <4>2. IsEntry(e) /\ e.t = {} BY FlagsEntry
      <4> HIDE DEF e
      <4>3. QED BY <4>1, <4>2
    <3>3. QED BY <1>1, <3>1, <3>2
  <2>3. Done(s, SetTop(s, e), R, d) BY <2>1, <2>2, Retopped
  <2>4. QED BY <1>0, <2>2, <2>3, DoneReset
<1>2. CASE ~IsConst(vtop(s)) /\ vtop(s).r # "cmp"
  <2> DEFINE a == save_regs(s, 1)
             b == gvtst(a, 1, {})
             e == Jump("jmp", b.t)
             u == vsetc(b.s, e)
             T == R \cup b.t
  <2>1. Negate(s) = u BY <1>2 DEF Negate, NotJump
  <2>2. Done(s, a, R, d) BY SavedDone
  <2> HIDE DEF a
  <2>3. Tests(a, R, d, {}, b)
    <3>1. Good(a, R, d) /\ Len(a.vs) >= 1 /\ Calm(a, 1) BY <2>2, DonePlain DEF Done
    <3>2. {} \in SUBSET R OBVIOUS
    <3> HIDE DEF b
    <3>3. QED BY <3>1, <3>2, TestedAny DEF b
  <2> HIDE DEF b
  <2>4. Tests(s, R, d, {}, b) BY <1>0, <2>2, <2>3, TestsAfter
  <2>5. b.t \cap R = {} /\ (s.nocode # 0 => b.t = {}) /\ Good(b.s, T, d) /\ Len(b.s.vs) = n - 1 /\ Kept(s, b.s, n - 1)
    BY <2>4 DEF Tests
  <2>6. IsEntry(e) /\ e.t = b.t BY JumpEntry DEF Jmps
  <2>7. b.s.nocode = s.nocode BY <2>5 DEF Kept
  <2> HIDE DEF e, T
  <2>8. Good(u, T \ e.t, d) /\ Kept(b.s, u, n - 1) /\ Len(u.vs) = n
    <3>1. e.t \subseteq T /\ (b.s.nocode # 0 => e.t = {}) BY <2>5, <2>6, <2>7 DEF T
    <3>2. Good(u, T \ e.t, d) /\ Kept(b.s, u, Len(b.s.vs)) /\ Len(u.vs) = Len(b.s.vs) + 1
      BY ONLY <2>5, <2>6, <3>1, Put
    <3> HIDE DEF u, n
    <3>3. QED BY <1>0, <2>5, <3>2
  <2>9. T \ e.t = R BY <2>5, <2>6 DEF T
  <2> HIDE DEF u
  <2>10. Kept(s, u, n - 1) BY <2>5, <2>8, KeptTwice
  <2>11. QED BY <2>1, <2>8, <2>9, <2>10 DEF Reset
<1>3. QED BY <1>1, <1>2

\* A new value takes the place of the top one.
LEMMA StatementStarted ==
    ASSUME NEW s, NEW R, NEW d, Good(s, R, d), Len(s.vs) >= 1
    PROVE  LET u == vsetc(vpop(s), Const(0)) IN Reset(s, u, R, d) /\ vtop(u).t = {}
<1> DEFINE n == Len(s.vs)
           w == vpop(s)
           e == Const(0)
           u == vsetc(w, e)
<1>0. IsState(s) /\ n \in Nat /\ n - 1 + 1 = n BY Lengths DEF Good
<1>1. Good(w, R, d) /\ Kept(s, w, n - 1) /\ Len(w.vs) = n - 1 BY Popped
<1>2. IsEntry(e) /\ e.t = {} BY ConstEntry
<1> HIDE DEF w, e
<1>3. Good(u, R, d) /\ Kept(w, u, n - 1) /\ Len(u.vs) = n /\ vtop(u) = e
  <2>1. Good(u, R, d) /\ Kept(w, u, Len(w.vs)) /\ Len(u.vs) = Len(w.vs) + 1 /\ vtop(u) = e
    BY <1>1, <1>2, PutPlain
  <2> HIDE DEF u, n
  <2>2. QED BY <1>0, <1>1, <2>1
<1> HIDE DEF u
<1>4. Kept(s, u, n - 1) BY <1>1, <1>3, KeptTwice
<1>5. QED BY <1>2, <1>3, <1>4 DEF Reset, u, w, e

-----------------------------------------------------------------------------
(* Code that is not generated                                              *)

\* While it is generated, any number of entries may be below the mark.
LEMMA Suppressed ==
    ASSUME NEW s, NEW R, NEW d, Good(s, R, d), NEW e, s.nocode # 0 => e = d, s.nocode = 0 => e >= Len(s.vs), e \in Nat
    PROVE  LET u == [s EXCEPT !.nocode = @ + 1]
           IN  Good(u, R, e) /\ u.vs = s.vs /\ u.nocode = s.nocode + 1
<1> DEFINE x == s.nocode + 1
           u == [s EXCEPT !.nocode = x]
<1>0. IsState(s) /\ IsRecord(s) /\ Len(s.vs) \in Nat BY StateRecord, Lengths DEF Good
<1>1. x \in Nat BY <1>0 DEF IsState
<1> HIDE DEF x
<1>2. Same7(u, s.vs, x, s.loc, s.ind, s.open, s.m, s.buried) BY <1>0, PutNocode
<1> HIDE DEF u
<1>3. IsRecord(u) /\ u.vs = s.vs /\ u.nocode = x /\ u.ind = s.ind /\ u.open = s.open BY <1>2, PutFields
<1>4. IsState(u) BY <1>0, <1>1, <1>3 DEF IsState, IsRecord
<1>5. Held(u, R) BY <1>3 DEF Good, Held
<1>6. Idle(u, e)
  <2>1. CASE s.nocode # 0 BY <1>3, <2>1 DEF Good, Idle
  <2>2. CASE s.nocode = 0
    <3>1. \A i \in 1 .. Len(s.vs) : ~(i > e) BY <1>0, <2>2
    <3>2. QED BY <1>3, <3>1 DEF Idle
  <2>3. QED BY <2>1, <2>2
<1>7. QED BY <1>3, <1>4, <1>5, <1>6 DEF Good, u, x

\* and when it is generated again, the mark may stay.
LEMMA Resumed ==
    ASSUME NEW s, NEW R, NEW d, Good(s, R, d), s.nocode # 0
    PROVE  LET u == [s EXCEPT !.nocode = @ - 1]
           IN  Good(u, R, d) /\ u.vs = s.vs /\ u.nocode = s.nocode - 1
<1> DEFINE x == s.nocode - 1
           u == [s EXCEPT !.nocode = x]
<1>0. IsState(s) /\ IsRecord(s) BY StateRecord DEF Good
<1>1. x \in Nat BY <1>0 DEF IsState
<1> HIDE DEF x
<1>2. Same7(u, s.vs, x, s.loc, s.ind, s.open, s.m, s.buried) BY <1>0, PutNocode
<1> HIDE DEF u
<1>3. IsRecord(u) /\ u.vs = s.vs /\ u.nocode = x /\ u.ind = s.ind /\ u.open = s.open BY <1>2, PutFields
<1>4. IsState(u) BY <1>0, <1>1, <1>3 DEF IsState, IsRecord
<1>5. Held(u, R) BY <1>3 DEF Good, Held
<1>6. Idle(u, d) BY <1>3 DEF Good, Idle
<1>7. QED BY <1>3, <1>4, <1>5, <1>6 DEF Good, u, x

\* A state with its own level
LEMMA Unchanged ==
    ASSUME NEW s, IsState(s) PROVE [s EXCEPT !.nocode = @] = s
<1> DEFINE x == s.nocode
<1>0. IsRecord(s) BY StateRecord
<1> HIDE DEF x
<1>1. Same7([s EXCEPT !.nocode = x], s.vs, x, s.loc, s.ind, s.open, s.m, s.buried) BY <1>0, PutNocode
<1>2. Same7(s, s.vs, x, s.loc, s.ind, s.open, s.m, s.buried) BY <1>0 DEF x, IsRecord, Same7
<1>3. [s EXCEPT !.nocode = x] = s BY <1>1, <1>2, SameRecord
<1>4. QED BY <1>3 DEF x

-----------------------------------------------------------------------------
(* Frames                                                                  *)

\* A frame: an operator or statement that waits for an operand
IsFrame(f) ==
    /\ f = [k |-> f.k, op |-> f.op, t |-> f.t, u |-> f.u, c |-> f.c, dead |-> f.dead, sv |-> f.sv,
            val |-> f.val, act |-> f.act, n |-> f.n, i |-> f.i, wide |-> f.wide]
    /\ f.dead \in BOOLEAN /\ f.c \in {-1, 0, 1} /\ f.n \in Nat /\ f.i \in Nat /\ IsEntry(f.sv)

\* The frame f with chain t
Chained(f, t) == [f EXCEPT !.t = t]

\* The parts of the frame with another chain
LEMMA ChainedFrame ==
    ASSUME NEW f, IsFrame(f), NEW t
    PROVE  LET g == Chained(f, t)
           IN  /\ IsFrame(g) /\ g.t = t /\ g.k = f.k /\ g.op = f.op /\ g.u = f.u /\ g.c = f.c /\ g.dead = f.dead
               /\ g.sv = f.sv /\ g.val = f.val /\ g.n = f.n /\ g.i = f.i
<1> DEFINE g == [f EXCEPT !.t = t]
<1>1. f = [k |-> f.k, op |-> f.op, t |-> f.t, u |-> f.u, c |-> f.c, dead |-> f.dead, sv |-> f.sv,
           val |-> f.val, act |-> f.act, n |-> f.n, i |-> f.i, wide |-> f.wide]
  BY DEF IsFrame
<1>2. g = [k |-> f.k, op |-> f.op, t |-> t, u |-> f.u, c |-> f.c, dead |-> f.dead, sv |-> f.sv,
           val |-> f.val, act |-> f.act, n |-> f.n, i |-> f.i, wide |-> f.wide]
  BY ONLY <1>1
<1> HIDE DEF g
<1>3. /\ g = [k |-> g.k, op |-> g.op, t |-> g.t, u |-> g.u, c |-> g.c, dead |-> g.dead, sv |-> g.sv,
              val |-> g.val, act |-> g.act, n |-> g.n, i |-> g.i, wide |-> g.wide]
      /\ g.t = t /\ g.k = f.k /\ g.op = f.op /\ g.u = f.u /\ g.c = f.c /\ g.dead = f.dead
      /\ g.sv = f.sv /\ g.val = f.val /\ g.n = f.n /\ g.i = f.i
  BY ONLY <1>2
<1>4. QED BY <1>3 DEF IsFrame, Chained, g

\* and with its own
LEMMA ChainedSame == ASSUME NEW f, IsFrame(f) PROVE Chained(f, f.t) = f
<1> DEFINE t == f.t
           g == [f EXCEPT !.t = t]
<1>1. f = [k |-> f.k, op |-> f.op, t |-> t, u |-> f.u, c |-> f.c, dead |-> f.dead, sv |-> f.sv,
           val |-> f.val, act |-> f.act, n |-> f.n, i |-> f.i, wide |-> f.wide]
  BY DEF IsFrame
<1> HIDE DEF t
<1>2. g = [k |-> f.k, op |-> f.op, t |-> t, u |-> f.u, c |-> f.c, dead |-> f.dead, sv |-> f.sv,
           val |-> f.val, act |-> f.act, n |-> f.n, i |-> f.i, wide |-> f.wide]
  BY ONLY <1>1
<1>3. QED BY ONLY <1>1, <1>2 DEF Chained, t

\* The operator of the frame has its result.
LEMMA DeadFrame ==
    ASSUME NEW f, IsFrame(f)
    PROVE  LET g == [f EXCEPT !.dead = TRUE]
           IN  /\ IsFrame(g) /\ g.t = f.t /\ g.k = f.k /\ g.op = f.op /\ g.u = f.u /\ g.c = f.c /\ g.dead = TRUE
               /\ g.sv = f.sv /\ g.val = f.val /\ g.n = f.n /\ g.i = f.i
<1> DEFINE x == TRUE
           g == [f EXCEPT !.dead = x]
<1>0. x \in BOOLEAN OBVIOUS
<1>1. f = [k |-> f.k, op |-> f.op, t |-> f.t, u |-> f.u, c |-> f.c, dead |-> f.dead, sv |-> f.sv,
           val |-> f.val, act |-> f.act, n |-> f.n, i |-> f.i, wide |-> f.wide]
  BY DEF IsFrame
<1> HIDE DEF x
<1>2. g = [k |-> f.k, op |-> f.op, t |-> f.t, u |-> f.u, c |-> f.c, dead |-> x, sv |-> f.sv,
           val |-> f.val, act |-> f.act, n |-> f.n, i |-> f.i, wide |-> f.wide]
  BY ONLY <1>1
<1> HIDE DEF g
<1>3. /\ g = [k |-> g.k, op |-> g.op, t |-> g.t, u |-> g.u, c |-> g.c, dead |-> g.dead, sv |-> g.sv,
              val |-> g.val, act |-> g.act, n |-> g.n, i |-> g.i, wide |-> g.wide]
      /\ g.t = f.t /\ g.k = f.k /\ g.op = f.op /\ g.u = f.u /\ g.c = f.c /\ g.dead = x
      /\ g.sv = f.sv /\ g.val = f.val /\ g.n = f.n /\ g.i = f.i
  BY ONLY <1>2
<1>4. IsFrame(g) BY <1>0, <1>3 DEF IsFrame
<1>5. QED BY <1>3, <1>4 DEF g, x

-----------------------------------------------------------------------------
(* && and ||                                                               *)

\* The operand of && or || on the top is a constant that decides the result.
Stops(s, f) == f.dead = FALSE /\ IsConst(vtop(s)) /\ (IF vtop(s).c = 0 THEN 0 ELSE 1) = Decides(f)

\* An operand that leaves the result open is dropped or tested.
LEMMA OperandOpen ==
    ASSUME NEW s, NEW R, NEW d, Good(s, R, d), Len(s.vs) >= 1, Calm(s, 1), NEW f, IsFrame(f), f.t \subseteq R,
           ~Stops(s, f)
    PROVE  LET b == LogicOperand(s, f)
           IN  \E t : b.f = Chained(f, t) /\ Tests(s, R, d, f.t, [s |-> b.s, t |-> t])
<1> DEFINE t0 == f.t
           b == LogicOperand(s, f)
<1>0. f.dead \in BOOLEAN /\ Len(s.vs) \in Nat /\ IsState(s) BY Lengths DEF IsFrame, Good
<1>1. CASE f.dead = TRUE \/ IsConst(vtop(s))
  <2>1. b = [s |-> vpop(s), f |-> f] BY <1>0, <1>1 DEF LogicOperand, Stops
  <2> DEFINE w == vpop(s)
  <2>2. Good(w, R, d) /\ Kept(s, w, Len(s.vs) - 1) /\ Len(w.vs) = Len(s.vs) - 1 BY Popped
  <2> HIDE DEF w
  <2>3. f = Chained(f, t0) BY ChainedSame
  <2> HIDE DEF t0
  <2>4. (R \ t0) \cup t0 = R BY DEF t0
  <2>5. Tests(s, R, d, t0, [s |-> w, t |-> t0]) BY <2>2, <2>4 DEF Tests
  <2>6. b.f = f /\ b.s = w BY <2>1 DEF w
  <2> HIDE DEF b
  <2>7. b.f = Chained(f, t0) /\ Tests(s, R, d, t0, [s |-> b.s, t |-> t0]) BY <2>3, <2>5, <2>6
  <2>8. QED BY <2>7 DEF t0, b
<1>2. CASE f.dead = FALSE /\ ~IsConst(vtop(s))
  <2> DEFINE a == IF f.t = {} THEN save_regs(s, 1) ELSE s
             inv == 1 - Decides(f)
             g == gvtst(a, inv, t0)
  <2>1. b = Tested(g, f) BY <1>2 DEF LogicOperand
  <2>2. Done(s, a, R, d) BY SavedDone, DoneSelf
  <2>3. Good(a, R, d) /\ Len(a.vs) >= 1 /\ Calm(a, 1) BY <2>2, DonePlain DEF Done
  <2> HIDE DEF a, inv, t0, b
  <2>4. t0 \in SUBSET R BY DEF t0
  <2>5. Tests(a, R, d, t0, g) BY <2>3, <2>4, TestedAny
  <2> HIDE DEF g
  <2>6. Tests(s, R, d, t0, g) BY <1>0, <2>2, <2>5, TestsAfter
  <2>7. b.s = g.s /\ b.f = Chained(f, g.t) BY <2>1 DEF Tested, Chained
  <2>8. Tests(s, R, d, t0, [s |-> b.s, t |-> g.t]) BY <2>6, <2>7 DEF Tests
  <2>9. QED BY <2>7, <2>8 DEF t0, b
<1>3. QED BY <1>0, <1>1, <1>2

\* e bounds the entries that may have jumps when the code that follows is not generated.
Limit(s, d, e) == e \in Nat /\ (s.nocode # 0 => e = d) /\ (s.nocode = 0 => e >= Len(s.vs))
\* That operand stays; what follows is not generated.
Halted(s, f, b, R, e) ==
    /\ b.f = [f EXCEPT !.dead = TRUE] /\ Good(b.s, R, e) /\ b.s.nocode = s.nocode + 1
    /\ Len(b.s.vs) = Len(s.vs) /\ vtop(b.s).t = {}
    /\ \A i \in 1 .. Len(s.vs) : s.vs[i].t = {} => b.s.vs[i].t = {}

\* An operand that decides the result stays, and no code is generated for the others.
LEMMA OperandStops ==
    ASSUME NEW s, NEW R, NEW d, Good(s, R, d), Len(s.vs) >= 1, NEW f, Stops(s, f), NEW e, Limit(s, d, e)
    PROVE  Halted(s, f, LogicOperand(s, f), R, e)
<1> DEFINE b == LogicOperand(s, f)
           x == Const(Decides(f))
           a == SetTop(s, x)
           u == [a EXCEPT !.nocode = @ + 1]
<1>1. b = [s |-> u, f |-> [f EXCEPT !.dead = TRUE]]
  <2>1. f.dead = FALSE /\ IsConst(vtop(s)) BY DEF Stops
  <2>2. QED BY <2>1 DEF LogicOperand, Stops
<1>2. IsEntry(x) /\ x.t = {} BY ConstEntry
<1>3. vtop(s).t = {} BY GoodTop DEF Stops, IsConst, Jmps
<1>4. Done(s, a, R, d) /\ vtop(a) = x
  <2> HIDE DEF x
  <2>1. QED BY <1>2, <1>3, Retopped
<1> HIDE DEF x, a
<1>5. Good(a, R, d) /\ Len(a.vs) = Len(s.vs) /\ a.nocode = s.nocode /\ Kept(s, a, Len(s.vs)) BY <1>4 DEF Done, Kept
<1>a. (a.nocode # 0 => e = d) /\ (a.nocode = 0 => e >= Len(a.vs)) /\ e \in Nat BY <1>5 DEF Limit
<1>6. Good(u, R, e) /\ u.vs = a.vs /\ u.nocode = a.nocode + 1 BY <1>5, <1>a, Suppressed
<1> HIDE DEF u
<1>7. b.s = u /\ b.f = [f EXCEPT !.dead = TRUE] BY <1>1
<1>8. vtop(u) = vtop(a) BY <1>6 DEF vtop
<1> HIDE DEF b
<1>9. Good(b.s, R, e) /\ b.s.nocode = s.nocode + 1 /\ Len(b.s.vs) = Len(s.vs) /\ vtop(b.s).t = {}
  BY <1>2, <1>4, <1>5, <1>6, <1>7, <1>8
<1>10. \A i \in 1 .. Len(s.vs) : s.vs[i].t = {} => b.s.vs[i].t = {} BY <1>5, <1>6, <1>7 DEF Kept
<1>11. Halted(s, f, b, R, e) BY <1>7, <1>9, <1>10 DEF Halted
<1>12. QED BY <1>11 DEF b

\* The end of an expression of which the rest is not evaluated
LEMMA EndDead ==
    ASSUME NEW s, NEW R, NEW d, Good(s, R, d), s.nocode # 0, NEW f, f.dead = TRUE, f.t \subseteq R
    PROVE  LET u == LogicEnd(s, f) IN Good(u, R \ f.t, d) /\ u.vs = s.vs /\ u.nocode = s.nocode - 1
<1> DEFINE t == f.t
           a == [s EXCEPT !.nocode = @ - 1]
           u == gsym(a, t)
<1>1. LogicEnd(s, f) = u BY DEF LogicEnd
<1>2. Good(a, R, d) /\ a.vs = s.vs /\ a.nocode = s.nocode - 1 BY Resumed
<1> HIDE DEF a, t
<1>3. t \in SUBSET R BY DEF t
<1>4. Good(u, R \ t, d) /\ u.vs = a.vs /\ u.nocode = a.nocode BY <1>2, <1>3, Patched
<1> HIDE DEF u
<1>5. QED BY <1>1, <1>2, <1>4 DEF t

\* The end of an expression that is evaluated to its end
LEMMA EndOpen ==
    ASSUME NEW s, NEW R, NEW d, Good(s, R, d), NEW f, f.dead = FALSE, f.t \subseteq R, s.nocode # 0 => f.t = {}
    PROVE  LET u == LogicEnd(s, f)
           IN  Good(u, R \ f.t, d) /\ Kept(s, u, Len(s.vs)) /\ Len(u.vs) = Len(s.vs) + 1
<1> DEFINE t == f.t
           r == IF f.op = "&&" THEN "jmpi" ELSE "jmp"
           e == IF f.t = {} THEN Const(1 - Decides(f)) ELSE Jump(r, t)
           u == vsetc(s, e)
<1>1. LogicEnd(s, f) = u BY DEF LogicEnd
<1>2. r \in Jmps BY DEF Jmps
<1> HIDE DEF r
<1>3. IsEntry(e) /\ e.t = t BY <1>2, ConstEntry, JumpEntry
<1> HIDE DEF e, t
<1>4. e.t \subseteq R /\ (s.nocode # 0 => e.t = {}) BY <1>3 DEF t
<1>5. Good(u, R \ e.t, d) /\ Kept(s, u, Len(s.vs)) /\ Len(u.vs) = Len(s.vs) + 1 BY <1>3, <1>4, Put
<1> HIDE DEF u
<1>6. QED BY <1>1, <1>3, <1>5 DEF t

-----------------------------------------------------------------------------
(* expr_cond() and if                                                      *)

\* A condition that is known is dropped;
LEMMA DropTests ==
    ASSUME NEW s, NEW R, NEW d, Good(s, R, d), Len(s.vs) >= 1 PROVE Tests(s, R, d, {}, [s |-> vpop(s), t |-> {}])
<1> DEFINE w == vpop(s)
           x == {}
<1>1. Good(w, R, d) /\ Kept(s, w, Len(s.vs) - 1) /\ Len(w.vs) = Len(s.vs) - 1 BY Popped
<1> HIDE DEF w
<1>2. (R \ x) \cup x = R /\ (x \ x) \cap R = {} OBVIOUS
<1> HIDE DEF x
<1>3. Tests(s, R, d, x, [s |-> w, t |-> x]) BY <1>1, <1>2 DEF Tests
<1>4. QED BY <1>3 DEF w, x

\* others are tested: for ?:,
LEMMA QuestionTests ==
    ASSUME NEW s, NEW R, NEW d, Good(s, R, d), Len(s.vs) >= 1, Calm(s, 1)
    PROVE  Tests(s, R, d, {}, gvtst(save_regs(gv(s, RC_INT), 1), 1, {}))
<1> DEFINE a == gv(s, RC_INT)
           b == save_regs(a, 1)
           x == {}
           g == gvtst(b, 1, x)
<1>0. IsState(s) /\ Len(s.vs) \in Nat BY Lengths DEF Good
<1>1. Done(s, a, R, d) BY Gotten, Classes
<1> HIDE DEF a
<1>2. Done(a, b, R, d) BY <1>1, SavedDone DEF Done
<1> HIDE DEF b, x
<1>3. Done(s, b, R, d) BY <1>1, <1>2, DoneTwice
<1>4. Good(b, R, d) /\ Len(b.vs) >= 1 /\ Calm(b, 1) BY <1>3, DonePlain DEF Done
<1>5. x \in SUBSET R BY DEF x
<1>6. Tests(b, R, d, x, g) BY <1>4, <1>5, TestedAny
<1> HIDE DEF g
<1>7. Tests(s, R, d, x, g) BY <1>0, <1>3, <1>6, TestsAfter
<1>8. QED BY <1>7 DEF a, b, g, x

\* and for if.
LEMMA IfTests ==
    ASSUME NEW s, NEW R, NEW d, Good(s, R, d), Len(s.vs) >= 1, Calm(s, 1) PROVE Tests(s, R, d, {}, gvtst(s, 1, {}))
<1> DEFINE x == {}
<1>1. x \in SUBSET R OBVIOUS
<1> HIDE DEF x
<1>2. Tests(s, R, d, x, gvtst(s, 1, x)) BY <1>1, TestedAny
<1>3. QED BY <1>2 DEF x

\* A jump over what follows, and the chain t ends here.
JumpOver(s, j, t, R, d) ==
    /\ j.t \cap R = {} /\ (s.nocode # 0 => j.t = {})
    /\ Good(gsym(j.s, t), (R \ t) \cup j.t, d) /\ gsym(j.s, t).vs = s.vs /\ gsym(j.s, t).nocode = s.nocode

\* gjmp() and gsym() as an if and ?: use them
LEMMA JumpedOver ==
    ASSUME NEW s, NEW R, NEW d, Good(s, R, d), NEW t, t \subseteq R PROVE JumpOver(s, gjmp(s, {}), t, R, d)
<1> DEFINE x == {}
           j == gjmp(s, x)
<1>1. x \in SUBSET R OBVIOUS
<1> HIDE DEF x
<1>2. Branched(s, R, d, x, j) BY <1>1, Jumped
<1> HIDE DEF j
<1>3. j.t \cap R = {} /\ (s.nocode # 0 => j.t = {}) /\ Good(j.s, R \cup j.t, d) /\ j.s.vs = s.vs /\ j.s.nocode = s.nocode
  <2>1. (R \ x) \cup j.t = R \cup j.t BY DEF x
  <2>2. QED BY <1>2, <2>1 DEF Branched, x
<1> DEFINE T == R \cup j.t
<1>4. t \in SUBSET T /\ T \ t = (R \ t) \cup j.t BY <1>3
<1> HIDE DEF T
<1>5. Good(j.s, T, d) BY <1>3 DEF T
<1>6. Good(gsym(j.s, t), T \ t, d) /\ gsym(j.s, t).vs = j.s.vs /\ gsym(j.s, t).nocode = j.s.nocode
  BY <1>4, <1>5, Patched
<1>7. JumpOver(s, j, t, R, d) BY <1>3, <1>4, <1>6 DEF JumpOver
<1>8. QED BY <1>7 DEF j, x

\* The jump is left out when what is before it is not reached.
LEMMA NotJumpedOver ==
    ASSUME NEW s, NEW R, NEW d, Good(s, R, d), NEW t, t \subseteq R PROVE JumpOver(s, [s |-> s, t |-> {}], t, R, d)
<1> DEFINE x == {}
           j == [s |-> s, t |-> x]
<1>1. t \in SUBSET R /\ x \cap R = {} /\ (R \ t) \cup x = R \ t OBVIOUS
<1>2. Good(gsym(s, t), R \ t, d) /\ gsym(s, t).vs = s.vs /\ gsym(s, t).nocode = s.nocode BY <1>1, Patched
<1> HIDE DEF x
<1>3. j.s = s /\ j.t = x OBVIOUS
<1> HIDE DEF j
<1>4. JumpOver(s, j, t, R, d) BY <1>1, <1>2, <1>3 DEF JumpOver, x
<1>5. QED BY <1>4 DEF j, x

\* A value is moved to another register.
LEMMA MovedDone ==
    ASSUME NEW s, NEW R, NEW d, Good(s, R, d), NEW r \in RC_INT, NEW q \in RC_INT
    PROVE  Done(s, move_reg(s, r, q), R, d)
<1>0. RC_INT \cap Jmps = {} BY DEF RC_INT, Jmps
<1>1. CASE r = q BY <1>1, DoneSelf DEF move_reg
<1>2. CASE r # q
  <2> DEFINE a == save_reg(s, r)
             e == InReg(q)
             Q == {r}
  <2>1. move_reg(s, r, q) = load(a, r, e) BY <1>2 DEF move_reg
  <2>2. Q \cap Jmps = {} BY <1>0
  <2>3. e.r \notin Jmps BY <1>0 DEF InReg, Entry
  <2>4. a = Save(s, Q) BY DEF save_reg
  <2> HIDE DEF a, e, Q
  <2>5. Done(s, a, R, d) BY <2>2, <2>4, Saved, SameDone DEF Good
  <2>6. Quiet(a, load(a, r, e)) BY <2>3, <2>5, Moved DEF Done, Good
  <2>7. Done(a, load(a, r, e), R, d) BY <2>5, <2>6, QuietSame, SameDone DEF Done
  <2>8. QED BY <2>1, <2>5, <2>7, DoneTwice
<1>3. QED BY <1>1, <1>2

\* A jump was generated behind s.
Behind(s, j, R, d) ==
    j.t \cap R = {} /\ Good(j.s, R \cup j.t, d) /\ j.s.vs = s.vs /\ j.s.nocode = s.nocode
\* The frame f of ?: holds the first value and the jumps to the second one.
Values(s, f, R) == IsFrame(f) /\ f.u \subseteq R /\ f.sv.t \subseteq R \ f.u /\ (s.nocode # 0 => f.sv.t = {})

\* The first value of ?: is brought to the register of the second one.
LEMMA FirstDone ==
    ASSUME NEW s, NEW R, NEW d, Good(s, R, d), Len(s.vs) >= 1, vtop(s).t = {}, NEW f, Values(s, f, R),
           NEW r \in RC_INT, NEW j, Behind(s, j, R, d)
    PROVE  LET w == FirstValue(f, r, j)
           IN  /\ Good(w, (R \ f.u) \ f.sv.t, d) /\ Len(w.vs) = Len(s.vs) /\ Kept(s, w, Len(s.vs) - 1)
               /\ vtop(w).t = {}
<1> DEFINE n == Len(s.vs)
           u == f.u
           e == f.sv
           T == R \cup j.t
           a == gsym(j.s, u)
           b == SetTop(a, e)
           c == gv(b, RC_INT)
           q == vtop(c).r
           m == move_reg(c, r, q)
           x == InReg(r)
           v == SetTop(m, x)
           w == gsym(v, j.t)
<1>0. IsState(s) /\ n \in Nat /\ n - 1 \in Nat /\ n - 1 <= n BY Lengths DEF Good
<1>1. /\ IsEntry(e) /\ u \subseteq R /\ e.t \subseteq R \ u /\ j.t \cap R = {}
      /\ Good(j.s, R \cup j.t, d) /\ j.s.vs = s.vs /\ j.s.nocode = s.nocode
  BY DEF IsFrame, Values, Behind
<1>2. FirstValue(f, r, j) = w BY DEF FirstValue, SameRegister
<1>3. /\ u \in SUBSET T /\ e.t \subseteq T \ u /\ j.t \in SUBSET ((T \ u) \ e.t)
      /\ ((T \ u) \ e.t) \ j.t = (R \ u) \ e.t
  BY <1>1
<1>4. s.nocode # 0 => e.t = {} BY DEF Values
<1>5. IsEntry(x) /\ x.t = {} BY PlainEntry DEF InReg
<1> HIDE DEF u, e, T, n, w, x
<1>6. Good(a, T \ u, d) /\ a.vs = s.vs /\ a.nocode = s.nocode
  <2> DEFINE k == j.s
  <2>1. Good(k, T, d) BY <1>1 DEF T
  <2>2. k.vs = s.vs /\ k.nocode = s.nocode BY <1>1
  <2>3. a = gsym(k, u) OBVIOUS
  <2> HIDE DEF k, a
  <2>4. Good(gsym(k, u), T \ u, d) /\ gsym(k, u).vs = k.vs /\ gsym(k, u).nocode = k.nocode
    BY ONLY <1>3, <2>1, Patched
  <2>5. QED BY <2>2, <2>3, <2>4
<1> HIDE DEF a
<1>7. Len(a.vs) = n /\ vtop(a).t = {} BY <1>6 DEF vtop, n
<1>8. Good(b, (T \ u) \ e.t, d) /\ Kept(a, b, n - 1) /\ Len(b.vs) = n
  <2> DEFINE S == T \ u
  <2>1. e.t \subseteq S \cup vtop(a).t /\ (a.nocode # 0 => e.t = {}) /\ S \cup vtop(a).t = S BY <1>3, <1>4, <1>6, <1>7
  <2>2. Len(a.vs) >= 1 BY <1>7 DEF n
  <2>3. Good(a, S, d) BY <1>6
  <2> HIDE DEF S
  <2>4. Good(b, (S \cup vtop(a).t) \ e.t, d) /\ Kept(a, b, Len(a.vs) - 1) /\ Len(b.vs) = Len(a.vs)
    BY <1>1, <2>1, <2>2, <2>3, TopSet
  <2> HIDE DEF b
  <2>5. QED BY <1>7, <2>1, <2>4 DEF S
<1> HIDE DEF b
<1> DEFINE S == (T \ u) \ e.t
<1> HIDE DEF S
<1>9. Done(b, c, S, d) /\ vtop(c).t = {} /\ q \in RC_INT
  <2>1. Good(b, S, d) /\ Len(b.vs) >= 1 BY <1>8 DEF S, n
  <2>2. QED BY <2>1, Gotten, Classes
<1> HIDE DEF c, q
<1>10. Done(c, m, S, d) BY <1>9, MovedDone DEF Done
<1> HIDE DEF m
<1>11. Done(b, m, S, d) BY <1>9, <1>10, DoneTwice
<1>12. Good(m, S, d) /\ Len(m.vs) = n /\ Kept(b, m, n) /\ IsState(b) /\ IsState(m) /\ IsState(c) /\ Good(c, S, d)
  BY <1>8, <1>9, <1>11 DEF Done, Good
<1>13. Len(m.vs) >= 1 /\ vtop(m).t = {}
  <2>1. Len(m.vs) >= 1 BY <1>12 DEF n
  <2>2. Len(c.vs) = Len(m.vs) BY <1>10 DEF Done
  <2>3. Plain(c, 1) BY <1>9, <1>12, <2>1, <2>2, PlainTop
  <2>4. Plain(m, 1) BY <1>10, <2>3, DonePlain
  <2>5. QED BY <1>12, <2>1, <2>4, PlainTop
<1>14. Done(m, v, S, d) /\ vtop(v) = x BY <1>5, <1>12, <1>13, Retopped
<1> HIDE DEF v
<1>15. Done(b, v, S, d) BY <1>11, <1>14, DoneTwice
<1>16. Good(v, S, d) /\ Len(v.vs) = n /\ Kept(b, v, n) BY <1>8, <1>15 DEF Done
<1>17. Good(w, S \ j.t, d) /\ w.vs = v.vs /\ w.nocode = v.nocode
  <2>1. j.t \in SUBSET S BY <1>3 DEF S
  <2> DEFINE t == j.t
  <2>2. t \in SUBSET S /\ w = gsym(v, t) BY <2>1 DEF w
  <2> HIDE DEF t
  <2>3. Good(gsym(v, t), S \ t, d) /\ gsym(v, t).vs = v.vs /\ gsym(v, t).nocode = v.nocode
    BY ONLY <1>16, <2>2, Patched
  <2>4. QED BY <2>2, <2>3 DEF t
<1>18. Kept(s, w, n - 1)
  <2>1. Kept(b, v, n - 1) BY <1>0, <1>12, <1>16, KeptLess DEF Good
  <2>2. Kept(a, v, n - 1) BY <1>8, <2>1, KeptTwice
  <2>3. QED BY <1>6, <1>17, <2>2 DEF Kept
<1>19. vtop(w).t = {} BY <1>5, <1>14, <1>17 DEF vtop
<1>20. Good(w, (R \ u) \ e.t, d) BY <1>3, <1>17 DEF S
<1>21. Len(w.vs) = n BY <1>16, <1>17
<1>22. QED BY <1>2, <1>18, <1>19, <1>20, <1>21 DEF u, e, n

\* Both values of ?: are in one register, and the jumps end there.
LEMMA Joined ==
    ASSUME NEW s, NEW R, NEW d, Good(s, R, d), Len(s.vs) >= 1, NEW f, Values(s, f, R)
    PROVE  LET w == CondJoin(s, f)
           IN  /\ Good(w, (R \ f.u) \ f.sv.t, d) /\ Len(w.vs) = Len(s.vs) /\ Kept(s, w, Len(s.vs) - 1)
               /\ vtop(w).t = {}
<1> DEFINE a == gv(s, RC_INT)
           r == vtop(a).r
           x == {}
           j == gjmp(a, x)
           w == FirstValue(f, r, j)
<1>0. IsState(s) /\ Len(s.vs) \in Nat BY Lengths DEF Good
<1>1. CondJoin(s, f) = w BY DEF CondJoin, SecondValue
<1>2. Done(s, a, R, d) /\ vtop(a).t = {} /\ r \in RC_INT BY Gotten, Classes
<1> HIDE DEF a, r
<1>3. Good(a, R, d) /\ Len(a.vs) = Len(s.vs) /\ a.nocode = s.nocode /\ Kept(s, a, Len(s.vs)) BY <1>2 DEF Done, Kept
<1>4. Behind(a, j, R, d)
  <2>1. x \in SUBSET R /\ \A y : (R \ x) \cup y = R \cup y /\ y \ x = y OBVIOUS
  <2> HIDE DEF x
  <2>2. Branched(a, R, d, x, j) BY <1>3, <2>1, Jumped
  <2> HIDE DEF j
  <2>3. QED BY <2>1, <2>2 DEF Branched, Behind
<1> HIDE DEF j, w
<1>5. /\ Good(w, (R \ f.u) \ f.sv.t, d) /\ Len(w.vs) = Len(a.vs) /\ Kept(a, w, Len(a.vs) - 1) /\ vtop(w).t = {}
  <2>1. Values(a, f, R) BY <1>3 DEF Values
  <2>2. Len(a.vs) >= 1 BY <1>3
  <2>3. QED BY <1>2, <1>3, <1>4, <2>1, <2>2, FirstDone DEF w
<1>6. Kept(s, w, Len(s.vs) - 1)
  <2>1. Len(s.vs) - 1 \in Nat /\ Len(s.vs) - 1 <= Len(s.vs) BY <1>0
  <2>2. Kept(s, a, Len(s.vs) - 1) BY <1>0, <1>3, <2>1, KeptLess DEF Good
  <2>3. QED BY <1>3, <1>5, <2>2, KeptTwice
<1>7. QED BY <1>1, <1>3, <1>5, <1>6

-----------------------------------------------------------------------------
(* The frames of the parser and the value stack.  h entries of the stack   *)
(* belong to frames, v frames suppress code.                               *)

\* The chains of a frame
Own(f) == f.t \cup f.u \cup f.sv.t
Apart(f) == f.t \cap f.u = {} /\ f.t \cap f.sv.t = {} /\ f.u \cap f.sv.t = {}

\* The entries of the stack that the i-th frame f waits with
Takes(f, i) ==
    IF f.k \in {"bin", "assign"} THEN 1
    ELSE IF f.k = "opassign" THEN 2
    ELSE IF f.k = "logic" THEN IF f.dead = TRUE THEN 1 ELSE 0
    ELSE IF f.k = "call" THEN f.i
    ELSE IF f.k \in {"if", "then", "else"} /\ i > 1 THEN 1 ELSE 0

\* What the frame f parses is not evaluated.
Falls(f) ==
    IF \/ f.k = "logic" /\ f.dead = TRUE
       \/ f.k \in {"cond1", "then"} /\ f.c = 0
       \/ f.k \in {"cond2", "else"} /\ f.c = 1
    THEN 1 ELSE 0

\* Which frames have chains, and what they are for
Ruled(f) ==
    /\ f.k \in {"bin", "opassign"} => f.op # ""
    /\ f.k \notin {"logic", "cond1", "then", "else"} => f.t = {}
    /\ f.k = "cond1" /\ f.c # -1 => f.t = {}
    /\ f.k # "cond2" => f.u = {} /\ f.sv.t = {}
    /\ f.k = "cond2" /\ f.c # -1 => f.u = {}
    /\ f.k = "cond2" /\ f.c = 0 => f.sv.t = {}
    /\ f.k = "cond2" /\ f.val.kind # "bool" => f.sv.t = {}
    /\ f.k = "call" => f.i \in 1 .. f.n

\* What an assignment or a call begins with is not a truth value.
Below(f, h, st) == f.k \in {"assign", "opassign", "call"} => st[h + 1].kind # "bool"
\* Statements are in a function or in ({...}).
Placed(c, i) == c[i].k \in {"expr", "if", "then", "else"} => i = 1 \/ c[i - 1].k = "block"

\* A frame in order
FrameOk(f) == IsFrame(f) /\ Ruled(f) /\ Apart(f)
\* All frames c are; H says where the entries of each begin.
Sound(c, H, st) ==
    /\ IsList(c)
    /\ \A i \in 1 .. Len(c) : FrameOk(c[i]) /\ Below(c[i], H[i], st) /\ Placed(c, i)

\* H and D: where the entries and the suppressed code of each frame begin
Marks(c, H, D) ==
    /\ H[1] = 0 /\ D[1] = 0
    /\ \A i \in 1 .. Len(c) : H[i + 1] = H[i] + Takes(c[i], i) /\ D[i + 1] = D[i] + Falls(c[i])
    /\ \A i \in 1 .. Len(c) + 1 : H[i] \in Nat /\ D[i] \in Nat
    /\ \A i, j \in 1 .. Len(c) + 1 : i <= j => H[i] <= H[j] /\ D[i] <= D[j]

\* While no code is generated, frames have no chains; above d nor does the stack.
Muted(c, H, D, d) ==
    /\ d \in Nat
    /\ \A i \in 1 .. Len(c) + 1 : D[i] # 0 => d <= H[i]
    /\ \A i \in 1 .. Len(c) : D[i] # 0 => Own(c[i]) = {}

\* R is the disjoint union of the frames' chains.
Chains(c, R) ==
    /\ \A i \in 1 .. Len(c) : \A x \in Own(c[i]) : x \in R /\ \A j \in 1 .. Len(c) : x \in Own(c[j]) => j = i
    /\ \A x \in R : \E i \in 1 .. Len(c) : x \in Own(c[i])

\* The frames c hold the chains R.
Frames(c, H, D, d, R, st) == Sound(c, H, st) /\ Marks(c, H, D) /\ Muted(c, H, D, d) /\ Chains(c, R)

\* They have h entries on the stack, and suppress code v times.
Stack(c, h, v, d, R, st) ==
    \E H, D : Frames(c, H, D, d, R, st) /\ h = H[Len(c) + 1] /\ v = D[Len(c) + 1]

\* The list without elements
LEMMA EmptyList == ASSUME NEW c, IsList(c) PROVE c = <<>> <=> Len(c) = 0
<1>1. c = <<>> => Len(c) = 0 OBVIOUS
<1>2. ASSUME Len(c) = 0 PROVE c = <<>>
  <2>1. c = [i \in 1 .. 0 |-> c[i]] BY <1>2 DEF IsList
  <2>2. QED BY <2>1
<1>3. QED BY <1>1, <1>2

\* A frame has some entries on the stack,
LEMMA TakesNat ==
    ASSUME NEW f, IsFrame(f), NEW i PROVE Takes(f, i) \in Nat /\ Falls(f) \in {0, 1}
BY DEF IsFrame, Takes, Falls

\* and those with an operand before them have one.
LEMMA TakesOne ==
    ASSUME NEW f, FrameOk(f), f.k \in {"assign", "opassign", "call"}, NEW i
    PROVE  Takes(f, i) >= 1 /\ Takes(f, i) \in Nat
<1>1. CASE f.k = "assign" BY <1>1 DEF Takes
<1>2. CASE f.k = "opassign" BY <1>2 DEF Takes
<1>3. CASE f.k = "call"
  <2>1. f.i \in Nat /\ f.n \in Nat /\ f.i \in 1 .. f.n BY <1>3 DEF FrameOk, IsFrame, Ruled
  <2>2. Takes(f, i) = f.i BY <1>3 DEF Takes
  <2>3. QED BY <2>1, <2>2
<1>4. QED BY <1>1, <1>2, <1>3

\* Without frames there is nothing.
LEMMA StackEmpty == ASSUME NEW d \in Nat, NEW st PROVE Stack(<<>>, 0, 0, d, {}, st)
<1> DEFINE c == <<>>
           H == [i \in {1} |-> 0]
<1>1. Len(c) = 0 OBVIOUS
<1>2. c \in Seq({}) OBVIOUS
<1> HIDE DEF c
<1>3. IsList(c) BY <1>2, SeqIsList
<1>4. H[1] = 0 OBVIOUS
<1> HIDE DEF H
<1>5. Sound(c, H, st) BY <1>1, <1>3 DEF Sound
<1>6. Marks(c, H, H) BY <1>1, <1>4 DEF Marks
<1>7. Muted(c, H, H, d) BY <1>1, <1>4 DEF Muted
<1>8. Chains(c, {}) BY <1>1 DEF Chains
<1>9. QED BY <1>1, <1>4, <1>5, <1>6, <1>7, <1>8 DEF Stack, Frames, c

\* What the numbers are
LEMMA StackFacts ==
    ASSUME NEW c, NEW h, NEW v, NEW d, NEW R, NEW st, Stack(c, h, v, d, R, st)
    PROVE  /\ h \in Nat /\ v \in Nat /\ d \in Nat /\ (v # 0 => d <= h) /\ IsList(c) /\ Len(c) \in Nat
           /\ Len(c) = 0 => h = 0 /\ v = 0 /\ R = {}
<1>1. PICK H, D : Frames(c, H, D, d, R, st) /\ h = H[Len(c) + 1] /\ v = D[Len(c) + 1] BY DEF Stack
<1>2. IsList(c) /\ Len(c) \in Nat BY <1>1 DEF Frames, Sound, IsList
<1>3. Len(c) + 1 \in 1 .. Len(c) + 1 BY <1>2
<1>4. h \in Nat /\ v \in Nat BY <1>1, <1>3 DEF Frames, Marks
<1>5. d \in Nat /\ (v # 0 => d <= h) BY <1>1, <1>3 DEF Frames, Muted
<1>6. ASSUME Len(c) = 0 PROVE h = 0 /\ v = 0 /\ R = {}
  <2>1. h = 0 /\ v = 0 BY <1>1, <1>6 DEF Frames, Marks
  <2>2. R = {} BY <1>1, <1>6 DEF Frames, Chains
  <2>3. QED BY <2>1, <2>2
<1>7. QED BY <1>2, <1>4, <1>5, <1>6

\* The frames say nothing of the entries that belong to none of them.
LEMMA StackOther ==
    ASSUME NEW c, NEW h, NEW v, NEW d, NEW R, NEW st, Stack(c, h, v, d, R, st),
           NEW new, \A i \in 1 .. h : new[i] = st[i]
    PROVE  Stack(c, h, v, d, R, new)
<1>1. PICK H, D : Frames(c, H, D, d, R, st) /\ h = H[Len(c) + 1] /\ v = D[Len(c) + 1] BY DEF Stack
<1>2. IsList(c) /\ Len(c) \in Nat BY <1>1 DEF Frames, Sound, IsList
<1>3. ASSUME NEW i \in 1 .. Len(c) PROVE Below(c[i], H[i], new)
  <2>1. CASE c[i].k \in {"assign", "opassign", "call"}
    <3>1. Takes(c[i], i) >= 1 /\ Takes(c[i], i) \in Nat
      <4>1. FrameOk(c[i]) BY <1>1 DEF Frames, Sound
      <4>2. QED BY <2>1, <4>1, TakesOne
    <3>2. i \in 1 .. Len(c) + 1 /\ i + 1 \in 1 .. Len(c) + 1 /\ Len(c) + 1 \in 1 .. Len(c) + 1 /\ i + 1 <= Len(c) + 1
      BY <1>2
    <3>3. H[i + 1] <= h /\ H[i + 1] = H[i] + Takes(c[i], i) /\ H[i] \in Nat /\ h \in Nat
      BY <1>1, <3>2 DEF Frames, Marks
    <3>4. H[i] + 1 \in 1 .. h
      <4> DEFINE k == Takes(c[i], i)
      <4> HIDE DEF k
      <4>1. QED BY <3>1, <3>3 DEF k
    <3>5. Below(c[i], H[i], st) BY <1>1 DEF Frames, Sound
    <3>6. QED BY <3>4, <3>5 DEF Below
  <2>2. CASE c[i].k \notin {"assign", "opassign", "call"} BY <2>2 DEF Below
  <2>3. QED BY <2>1, <2>2
<1>4. Sound(c, H, new) BY <1>1, <1>3 DEF Frames, Sound
<1>5. Frames(c, H, D, d, R, new) BY <1>1, <1>4 DEF Frames
<1>6. QED BY <1>1, <1>5 DEF Stack

\* What is known of the last frame f when h0 entries belong to those below it
Leaving(f, c, h, v, d, R, st, h0, v0) ==
    /\ FrameOk(f) /\ Below(f, h0, st) /\ Placed(c, Len(c))
    /\ h0 \in Nat /\ v0 \in Nat /\ h = h0 + Takes(f, Len(c)) /\ v = v0 + Falls(f)
    /\ v0 # 0 => d <= h0 /\ Own(f) = {}
    /\ Own(f) \subseteq R

\* The frames below the last one are in order without it.
LEMMA StackLeft ==
    ASSUME NEW c, NEW h, NEW v, NEW d, NEW R, NEW st, Stack(c, h, v, d, R, st), Len(c) >= 1
    PROVE  \E h0, v0 : /\ Leaving(Last(c), c, h, v, d, R, st, h0, v0)
                       /\ Stack(Front(c), h0, v0, d, R \ Own(Last(c)), st)
<1> DEFINE n == Len(c)
           f == Last(c)
           b == Front(c)
           S == R \ Own(f)
<1>1. PICK H, D : Frames(c, H, D, d, R, st) /\ h = H[n + 1] /\ v = D[n + 1] BY DEF Stack
<1>2. IsList(c) /\ n \in Nat BY <1>1 DEF Frames, Sound, IsList
<1>3. IsList(b) /\ Len(b) = n - 1 /\ \A i \in 1 .. n - 1 : b[i] = c[i] BY <1>2, Shorter
<1>4. f = c[n] BY DEF Last
<1> HIDE DEF b, f, S
<1>5. /\ n \in 1 .. n /\ n \in 1 .. n + 1 /\ n + 1 \in 1 .. n + 1 /\ n >= 1 /\ n - 1 \in Nat /\ n - 1 + 1 = n
      /\ \A i : i \in 1 .. n - 1 => i \in 1 .. n /\ i # n
      /\ \A i : i \in 1 .. n => i \in 1 .. n + 1
      /\ \A i \in 1 .. n : i # n => i \in 1 .. n - 1
  <2> HIDE DEF n
  <2>1. n >= 1 BY DEF n
  <2>2. QED BY <1>2, <2>1
<1> HIDE DEF n
<1>6. Leaving(f, c, h, v, d, R, st, H[n], D[n])
  <2>1. FrameOk(f) /\ Below(f, H[n], st) /\ Placed(c, n) BY <1>1, <1>4, <1>5 DEF Frames, Sound, n
  <2>2. H[n] \in Nat /\ D[n] \in Nat /\ h = H[n] + Takes(f, n) /\ v = D[n] + Falls(f)
    BY <1>1, <1>4, <1>5 DEF Frames, Marks, n
  <2>3. D[n] # 0 => d <= H[n] /\ Own(f) = {} BY <1>1, <1>4, <1>5 DEF Frames, Muted, n
  <2>4. Own(f) \subseteq R BY <1>1, <1>4, <1>5 DEF Frames, Chains, n
  <2>5. QED BY <2>1, <2>2, <2>3, <2>4 DEF Leaving, n
<1>7. Sound(b, H, st)
  <2>1. ASSUME NEW i \in 1 .. n - 1 PROVE Placed(b, i)
    <3>1. Placed(c, i) /\ b[i] = c[i] BY <1>1, <1>3, <1>5 DEF Frames, Sound, n
    <3>2. i # 1 => i - 1 \in 1 .. n - 1 BY <1>5
    <3>3. i # 1 => b[i - 1] = c[i - 1] BY <1>3, <3>2
    <3>4. QED BY <3>1, <3>3 DEF Placed
  <2>2. ASSUME NEW i \in 1 .. n - 1 PROVE FrameOk(b[i]) /\ Below(b[i], H[i], st)
    BY <1>1, <1>3, <1>5 DEF Frames, Sound, n
  <2>3. QED BY <1>3, <2>1, <2>2 DEF Sound
<1>8. Marks(b, H, D)
  <2>1. H[1] = 0 /\ D[1] = 0 BY <1>1 DEF Frames, Marks
  <2>2. \A i \in 1 .. n - 1 : H[i + 1] = H[i] + Takes(b[i], i) /\ D[i + 1] = D[i] + Falls(b[i])
    BY <1>1, <1>3, <1>5 DEF Frames, Marks, n
  <2>3. \A i \in 1 .. n : H[i] \in Nat /\ D[i] \in Nat BY <1>1, <1>5 DEF Frames, Marks, n
  <2>4. \A i, j \in 1 .. n : i <= j => H[i] <= H[j] /\ D[i] <= D[j] BY <1>1, <1>5 DEF Frames, Marks, n
  <2>5. QED BY <1>3, <1>5, <2>1, <2>2, <2>3, <2>4 DEF Marks
<1>9. Muted(b, H, D, d)
  <2>1. d \in Nat /\ \A i \in 1 .. n : D[i] # 0 => d <= H[i] BY <1>1, <1>5 DEF Frames, Muted, n
  <2>2. \A i \in 1 .. n - 1 : D[i] # 0 => Own(b[i]) = {} BY <1>1, <1>3, <1>5 DEF Frames, Muted, n
  <2>3. QED BY <1>3, <1>5, <2>1, <2>2 DEF Muted
<1>10. Chains(b, S)
  <2>1. /\ \A i \in 1 .. n : \A x \in Own(c[i]) : x \in R /\ \A j \in 1 .. n : x \in Own(c[j]) => j = i
        /\ \A x \in R : \E i \in 1 .. n : x \in Own(c[i])
    BY <1>1 DEF Frames, Chains, n
  <2>2. ASSUME NEW i \in 1 .. n - 1, NEW x \in Own(b[i])
        PROVE  x \in S /\ \A j \in 1 .. n - 1 : x \in Own(b[j]) => j = i
    BY <1>3, <1>4, <1>5, <2>1 DEF S
  <2>3. ASSUME NEW x \in S PROVE \E i \in 1 .. n - 1 : x \in Own(b[i])
    <3>1. PICK i \in 1 .. n : x \in Own(c[i]) BY <2>1 DEF S
    <3>2. i # n BY <1>4, <3>1 DEF S
    <3>3. QED BY <1>3, <1>5, <3>1, <3>2
  <2>4. QED BY <1>3, <2>2, <2>3 DEF Chains
<1>11. Stack(b, H[n], D[n], d, S, st)
  <2>1. Frames(b, H, D, d, S, st) BY <1>7, <1>8, <1>9, <1>10 DEF Frames
  <2>2. Len(b) + 1 = n BY <1>3, <1>5
  <2>3. QED BY <2>1, <2>2 DEF Stack
<1>12. QED BY <1>6, <1>11 DEF b, f, S

\* The frame f may come after the others; d2 is the new bound for entries without jumps.
Entering(f, c, h, v, d, R, st, d2) ==
    /\ FrameOk(f) /\ Below(f, h, st) /\ Own(f) \cap R = {} /\ d2 \in Nat
    /\ f.k \in {"expr", "if", "then", "else"} => Len(c) = 0 \/ Last(c).k = "block"
    /\ v # 0 => Own(f) = {} /\ d2 = d
    /\ v = 0 /\ Falls(f) # 0 => d2 <= h + Takes(f, Len(c) + 1)

\* The marks with one more frame
LEMMA MoreMarks ==
    ASSUME NEW c, NEW H, NEW D, Marks(c, H, D), IsList(c), NEW f, IsFrame(f),
           NEW n, n = Len(c) + 1, NEW tk, tk = Takes(f, n), NEW fl, fl = Falls(f),
           NEW H2, H2 = [i \in 1 .. n + 1 |-> IF i <= n THEN H[i] ELSE H[n] + tk],
           NEW D2, D2 = [i \in 1 .. n + 1 |-> IF i <= n THEN D[i] ELSE D[n] + fl]
    PROVE  Marks(Append(c, f), H2, D2)
<1> DEFINE b == Append(c, f)
<1>1. n \in Nat /\ n >= 1 /\ n - 1 \in Nat /\ Len(c) = n - 1 BY DEF IsList
<1>2. Len(b) = n /\ b[n] = f /\ \A i \in 1 .. n - 1 : b[i] = c[i] BY <1>1, Longer
<1>3. tk \in Nat /\ fl \in Nat BY TakesNat
<1> HIDE DEF b
<1>4. \A i \in 1 .. n : H2[i] = H[i] /\ D2[i] = D[i] BY <1>1
<1>5. H2[n + 1] = H[n] + tk /\ D2[n + 1] = D[n] + fl BY <1>1
<1>6. /\ H[1] = 0 /\ D[1] = 0
      /\ \A i \in 1 .. n - 1 : H[i + 1] = H[i] + Takes(c[i], i) /\ D[i + 1] = D[i] + Falls(c[i])
      /\ \A i \in 1 .. n : H[i] \in Nat /\ D[i] \in Nat
      /\ \A i, j \in 1 .. n : i <= j => H[i] <= H[j] /\ D[i] <= D[j]
  BY <1>1 DEF Marks
<1>7. ASSUME NEW i \in 1 .. n PROVE H2[i + 1] = H2[i] + Takes(b[i], i) /\ D2[i + 1] = D2[i] + Falls(b[i])
  <2>1. CASE i = n BY <1>2, <1>4, <1>5, <2>1
  <2>2. CASE i # n
    <3>1. i \in 1 .. n - 1 /\ i + 1 \in 1 .. n BY <1>1, <2>2
    <3>2. QED BY <1>2, <1>4, <1>6, <3>1
  <2>3. QED BY <2>1, <2>2
<1>8. ASSUME NEW i \in 1 .. n + 1 PROVE H2[i] \in Nat /\ D2[i] \in Nat
  <2>1. CASE i = n + 1
    <3>1. n \in 1 .. n BY <1>1
    <3>2. H[n] \in Nat /\ D[n] \in Nat BY <1>6, <3>1
    <3>3. QED BY <1>3, <1>5, <2>1, <3>2
  <2>2. CASE i # n + 1
    <3>1. i \in 1 .. n BY <1>1, <2>2
    <3>2. QED BY <1>4, <1>6, <3>1
  <2>3. QED BY <2>1, <2>2
<1>9. ASSUME NEW i \in 1 .. n + 1, NEW j \in 1 .. n + 1, i <= j PROVE H2[i] <= H2[j] /\ D2[i] <= D2[j]
  <2>0. n \in 1 .. n BY <1>1
  <2>1. CASE j = n + 1
    <3>1. CASE i = n + 1 BY <1>8, <2>1, <3>1
    <3>2. CASE i # n + 1
      <4>1. i \in 1 .. n /\ i <= n BY <1>1, <3>2
      <4>2. H[i] <= H[n] /\ D[i] <= D[n] /\ H[i] \in Nat /\ D[i] \in Nat /\ H[n] \in Nat /\ D[n] \in Nat
        BY <1>6, <2>0, <4>1
      <4>3. H[i] <= H[n] + tk /\ D[i] <= D[n] + fl BY <1>3, <4>2
      <4>4. QED BY <1>4, <1>5, <2>1, <4>1, <4>3
    <3>3. QED BY <3>1, <3>2
  <2>2. CASE j # n + 1
    <3>1. i \in 1 .. n /\ j \in 1 .. n BY <1>1, <1>9, <2>2
    <3>2. QED BY <1>4, <1>6, <1>9, <3>1
  <2>3. QED BY <2>1, <2>2
<1>10. H2[1] = 0 /\ D2[1] = 0
  <2>1. 1 \in 1 .. n BY <1>1
  <2>2. QED BY <1>4, <1>6, <2>1
<1>11. Marks(b, H2, D2) BY <1>2, <1>7, <1>8, <1>9, <1>10 DEF Marks
<1>12. QED BY <1>11 DEF b

\* One more frame is in order.
LEMMA StackEntered ==
    ASSUME NEW c, NEW h, NEW v, NEW d, NEW R, NEW st, Stack(c, h, v, d, R, st),
           NEW f, NEW d2, Entering(f, c, h, v, d, R, st, d2)
    PROVE  Stack(Append(c, f), h + Takes(f, Len(c) + 1), v + Falls(f), d2, R \cup Own(f), st)
<1> DEFINE n == Len(c) + 1
           b == Append(c, f)
           tk == Takes(f, n)
           fl == Falls(f)
           S == R \cup Own(f)
<1>1. PICK H, D : Frames(c, H, D, d, R, st) /\ h = H[n] /\ v = D[n] BY DEF Stack
<1>2. IsList(c) /\ Len(c) \in Nat BY <1>1 DEF Frames, Sound, IsList
<1>3. IsList(b) /\ Len(b) = n /\ b[n] = f /\ \A i \in 1 .. n - 1 : b[i] = c[i] BY <1>2, Longer
<1>4. IsFrame(f) /\ tk \in Nat /\ fl \in {0, 1} BY TakesNat DEF Entering, FrameOk
<1>5. /\ n \in Nat /\ n >= 1 /\ n - 1 \in Nat /\ Len(c) = n - 1 /\ n \in 1 .. n /\ n - 1 + 1 = n
      /\ \A i \in 1 .. n : i # n => i \in 1 .. n - 1
      /\ \A i \in 1 .. n - 1 : i \in 1 .. n /\ i # n
      /\ \A i \in 1 .. n + 1 : i # n + 1 => i \in 1 .. n
      /\ \A i \in 1 .. n : i <= n /\ i \in 1 .. n + 1
      /\ n + 1 \in 1 .. n + 1 /\ ~(n + 1 <= n)
  BY <1>2
<1> HIDE DEF b, tk, fl, S
<1> DEFINE H2 == [i \in 1 .. n + 1 |-> IF i <= n THEN H[i] ELSE H[n] + tk]
           D2 == [i \in 1 .. n + 1 |-> IF i <= n THEN D[i] ELSE D[n] + fl]
<1>6. Marks(b, H2, D2)
  <2> HIDE DEF n, H2, D2
  <2>1. Marks(c, H, D) BY <1>1 DEF Frames
  <2>2. QED BY <1>2, <1>4, <2>1, MoreMarks DEF n, b, tk, fl, H2, D2
<1>7. \A i \in 1 .. n : H2[i] = H[i] /\ D2[i] = D[i] BY <1>5
<1>8. H2[n + 1] = h + tk /\ D2[n + 1] = v + fl BY <1>1, <1>5
<1> HIDE DEF H2, D2, n
<1>9. Sound(b, H2, st)
  <2>1. ASSUME NEW i \in 1 .. n PROVE FrameOk(b[i]) /\ Below(b[i], H2[i], st) /\ Placed(b, i)
    <3>1. CASE i = n
      <4>1. FrameOk(b[i]) /\ Below(b[i], H2[i], st) BY <1>1, <1>3, <1>5, <1>7, <3>1 DEF Entering
      <4>2. Placed(b, i)
        <5>1. CASE n = 1 BY <3>1, <5>1 DEF Placed
        <5>2. CASE n # 1
          <6>1. n - 1 \in 1 .. n - 1 /\ Len(c) # 0 BY <1>5, <5>2
          <6>2. b[n - 1] = c[n - 1] /\ Last(c) = c[n - 1] BY <1>3, <1>5, <6>1 DEF Last
          <6>3. QED BY <1>3, <3>1, <6>1, <6>2 DEF Placed, Entering
        <5>3. QED BY <5>1, <5>2
      <4>3. QED BY <4>1, <4>2
    <3>2. CASE i # n
      <4>1. i \in 1 .. n - 1 /\ i \in 1 .. n /\ b[i] = c[i] BY <1>3, <1>5, <3>2
      <4>2. FrameOk(c[i]) /\ Below(c[i], H[i], st) /\ Placed(c, i) BY <1>1, <1>5, <4>1 DEF Frames, Sound
      <4>3. i # 1 => i - 1 \in 1 .. n - 1 BY <1>5, <4>1
      <4>4. i # 1 => b[i - 1] = c[i - 1] BY <1>3, <4>3
      <4>5. QED BY <1>7, <4>1, <4>2, <4>4 DEF Placed
    <3>3. QED BY <3>1, <3>2
  <2>2. QED BY <1>3, <2>1 DEF Sound
<1>10. Muted(b, H2, D2, d2)
  <2>0. v \in Nat /\ h \in Nat /\ d \in Nat /\ (v # 0 => d <= h) BY <1>1, <1>5 DEF Frames, Marks, Muted
  <2>1. ASSUME NEW i \in 1 .. n, D2[i] # 0 PROVE v # 0 /\ d2 <= H2[i] /\ D[i] # 0
    <3>1. D[i] # 0 /\ D[i] \in Nat /\ D[i] <= v /\ d <= H[i]
      BY <1>1, <1>5, <1>7, <2>1 DEF Frames, Marks, Muted
    <3>2. v # 0 BY <2>0, <3>1
    <3>3. QED BY <1>7, <3>1, <3>2 DEF Entering
  <2>2. ASSUME D2[n + 1] # 0 PROVE d2 <= H2[n + 1]
    <3>1. CASE v # 0
      <4>1. d2 = d /\ d <= h BY <2>0, <3>1 DEF Entering
      <4>2. d <= h + tk BY <1>4, <2>0, <4>1
      <4>3. QED BY <1>8, <4>1, <4>2
    <3>2. CASE v = 0
      <4>1. fl # 0 BY <1>8, <2>2, <3>2
      <4>2. d2 <= h + tk BY <3>2, <4>1 DEF Entering, n, tk, fl
      <4>3. QED BY <1>8, <4>2
    <3>3. QED BY <3>1, <3>2
  <2>3. ASSUME NEW i \in 1 .. n + 1, D2[i] # 0 PROVE d2 <= H2[i]
    <3>1. CASE i = n + 1 BY <2>2, <2>3, <3>1
    <3>2. CASE i # n + 1 BY <1>5, <2>1, <2>3, <3>2
    <3>3. QED BY <3>1, <3>2
  <2>4. ASSUME NEW i \in 1 .. n, D2[i] # 0 PROVE Own(b[i]) = {}
    <3>1. CASE i = n BY <1>3, <2>1, <2>4, <3>1 DEF Entering
    <3>2. CASE i # n
      <4>1. i \in 1 .. n - 1 /\ b[i] = c[i] BY <1>3, <1>5, <3>2
      <4>2. D[i] # 0 BY <2>1, <2>4
      <4>3. QED BY <1>1, <1>5, <4>1, <4>2 DEF Frames, Muted
    <3>3. QED BY <3>1, <3>2
  <2>5. d2 \in Nat BY DEF Entering
  <2>6. QED BY <1>3, <2>3, <2>4, <2>5 DEF Muted
<1>11. Chains(b, S)
  <2>1. /\ \A i \in 1 .. n - 1 : \A x \in Own(c[i]) : x \in R /\ \A j \in 1 .. n - 1 : x \in Own(c[j]) => j = i
        /\ \A x \in R : \E i \in 1 .. n - 1 : x \in Own(c[i])
    BY <1>1, <1>5 DEF Frames, Chains
  <2>2. \A x \in Own(f) : x \notin R BY DEF Entering
  <2>3. ASSUME NEW i \in 1 .. n, NEW x \in Own(b[i])
        PROVE  x \in S /\ \A j \in 1 .. n : x \in Own(b[j]) => j = i
    <3>1. CASE i = n
      <4>1. x \in Own(f) /\ x \notin R BY <1>3, <2>2, <2>3, <3>1
      <4>2. ASSUME NEW j \in 1 .. n, x \in Own(b[j]) PROVE j = n
        BY <1>3, <1>5, <2>1, <4>1, <4>2
      <4>3. QED BY <3>1, <4>1, <4>2 DEF S
    <3>2. CASE i # n
      <4>1. i \in 1 .. n - 1 /\ b[i] = c[i] BY <1>3, <1>5, <3>2
      <4>2. x \in R /\ \A j \in 1 .. n - 1 : x \in Own(c[j]) => j = i BY <2>1, <2>3, <4>1
      <4>3. ASSUME NEW j \in 1 .. n, x \in Own(b[j]) PROVE j = i
        BY <1>3, <1>5, <2>2, <4>2, <4>3
      <4>4. QED BY <4>2, <4>3 DEF S
    <3>3. QED BY <3>1, <3>2
  <2>4. ASSUME NEW x \in S PROVE \E i \in 1 .. n : x \in Own(b[i])
    <3>1. CASE x \in R BY <1>3, <1>5, <2>1, <3>1
    <3>2. CASE x \in Own(f) BY <1>3, <1>5, <3>2
    <3>3. QED BY <3>1, <3>2 DEF S
  <2>5. QED BY <1>3, <2>3, <2>4 DEF Chains
<1>12. Frames(b, H2, D2, d2, S, st) BY <1>6, <1>9, <1>10, <1>11 DEF Frames
<1>13. Stack(b, h + tk, v + fl, d2, S, st) BY <1>3, <1>8, <1>12 DEF Stack
<1>14. QED BY <1>13 DEF n, b, tk, fl, S

-----------------------------------------------------------------------------
(* The source program's side                                               *)

\* What the source program does
IsSource(s) == s = [stack |-> s.stack, mem |-> s.mem, act |-> s.act, want |-> s.want] /\ IsList(s.stack)

\* Only the stack matters below.
LEMMA SourceStack ==
    ASSUME NEW s, IsSource(s), NEW x, IsList(x)
    PROVE  LET u == [s EXCEPT !.stack = x] IN IsSource(u) /\ u.stack = x
<1> DEFINE u == [s EXCEPT !.stack = x]
<1>1. s = [stack |-> s.stack, mem |-> s.mem, act |-> s.act, want |-> s.want] BY DEF IsSource
<1>2. u = [stack |-> x, mem |-> s.mem, act |-> s.act, want |-> s.want] BY ONLY <1>1
<1> HIDE DEF u
<1>3. u = [stack |-> u.stack, mem |-> u.mem, act |-> u.act, want |-> u.want] /\ u.stack = x BY ONLY <1>2
<1>4. QED BY <1>3 DEF IsSource, u

\* the memory may change,
LEMMA SourceMem ==
    ASSUME NEW s, IsSource(s), NEW x
    PROVE  LET u == [s EXCEPT !.mem = x] IN IsSource(u) /\ u.stack = s.stack
<1> DEFINE u == [s EXCEPT !.mem = x]
<1>1. s = [stack |-> s.stack, mem |-> s.mem, act |-> s.act, want |-> s.want] BY DEF IsSource
<1>2. u = [stack |-> s.stack, mem |-> x, act |-> s.act, want |-> s.want] BY ONLY <1>1
<1> HIDE DEF u
<1>3. u = [stack |-> u.stack, mem |-> u.mem, act |-> u.act, want |-> u.want] /\ u.stack = s.stack BY ONLY <1>2
<1>4. QED BY <1>3 DEF IsSource, u

\* what is evaluated,
LEMMA SourceAct ==
    ASSUME NEW s, IsSource(s), NEW x
    PROVE  LET u == [s EXCEPT !.act = x] IN IsSource(u) /\ u.stack = s.stack
<1> DEFINE u == [s EXCEPT !.act = x]
<1>1. s = [stack |-> s.stack, mem |-> s.mem, act |-> s.act, want |-> s.want] BY DEF IsSource
<1>2. u = [stack |-> s.stack, mem |-> s.mem, act |-> x, want |-> s.want] BY ONLY <1>1
<1> HIDE DEF u
<1>3. u = [stack |-> u.stack, mem |-> u.mem, act |-> u.act, want |-> u.want] /\ u.stack = s.stack BY ONLY <1>2
<1>4. QED BY <1>3 DEF IsSource, u

\* and what the program is to do.
LEMMA SourceWant ==
    ASSUME NEW s, IsSource(s), NEW x
    PROVE  LET u == [s EXCEPT !.want = x] IN IsSource(u) /\ u.stack = s.stack
<1> DEFINE u == [s EXCEPT !.want = x]
<1>1. s = [stack |-> s.stack, mem |-> s.mem, act |-> s.act, want |-> s.want] BY DEF IsSource
<1>2. u = [stack |-> s.stack, mem |-> s.mem, act |-> s.act, want |-> x] BY ONLY <1>1
<1> HIDE DEF u
<1>3. u = [stack |-> u.stack, mem |-> u.mem, act |-> u.act, want |-> u.want] /\ u.stack = s.stack BY ONLY <1>2
<1>4. QED BY <1>3 DEF IsSource, u

\* u has m entries of s below the top one, e.
Over(s, u, m, e) ==
    /\ IsSource(u) /\ Len(u.stack) = m + 1 /\ u.stack[m + 1] = e
    /\ \A i \in 1 .. m : u.stack[i] = s.stack[i]
\* u has m entries of s.
Under(s, u, m) == IsSource(u) /\ Len(u.stack) = m /\ \A i \in 1 .. m : u.stack[i] = s.stack[i]

\* The stack of values is a list.
LEMMA SourceLength == ASSUME NEW s, IsSource(s) PROVE Len(s.stack) \in Nat BY DEF IsSource, IsList

\* A value is pushed,
LEMMA SPushed == ASSUME NEW s, IsSource(s), NEW e PROVE Over(s, SPush(s, e), Len(s.stack), e)
<1> DEFINE x == Append(s.stack, e)
           u == [s EXCEPT !.stack = x]
<1>1. IsList(x) /\ Len(x) = Len(s.stack) + 1 /\ x[Len(s.stack) + 1] = e /\ \A i \in 1 .. Len(s.stack) : x[i] = s.stack[i]
  BY Longer DEF IsSource
<1> HIDE DEF x
<1>2. IsSource(u) /\ u.stack = x BY <1>1, SourceStack
<1>3. SPush(s, e) = u BY DEF SPush, x
<1> HIDE DEF u
<1>4. QED BY <1>1, <1>2, <1>3 DEF Over

\* or popped,
LEMMA SPopped == ASSUME NEW s, IsSource(s), Len(s.stack) >= 1 PROVE Under(s, SPop(s), Len(s.stack) - 1)
<1> DEFINE x == Front(s.stack)
           u == [s EXCEPT !.stack = x]
<1>1. IsList(x) /\ Len(x) = Len(s.stack) - 1 /\ \A i \in 1 .. Len(s.stack) - 1 : x[i] = s.stack[i]
  BY Shorter DEF IsSource
<1> HIDE DEF x
<1>2. IsSource(u) /\ u.stack = x BY <1>1, SourceStack
<1>3. SPop(s) = u BY DEF SPop, x
<1> HIDE DEF u
<1>4. QED BY <1>1, <1>2, <1>3 DEF Under

\* several are popped,
LEMMA UnderTwice ==
    ASSUME NEW s, NEW u, NEW w, NEW m \in Nat, NEW n \in Nat, n <= m, Under(s, u, m), Under(u, w, n)
    PROVE  Under(s, w, n)
<1>1. \A i \in 1 .. n : i \in 1 .. m OBVIOUS
<1>2. QED BY <1>1 DEF Under

\* and one is pushed afterwards.
LEMMA UnderOver ==
    ASSUME NEW s, NEW u, NEW w, NEW m \in Nat, NEW e, Under(s, u, m), Over(u, w, m, e) PROVE Over(s, w, m, e)
BY DEF Under, Over

\* Values are popped and one is pushed.
LEMMA Replaced ==
    ASSUME NEW s, IsSource(s), Len(s.stack) >= 1, NEW e
    PROVE  Over(s, SPush(SPop(s), e), Len(s.stack) - 1, e)
<1> DEFINE u == SPop(s)
           m == Len(s.stack) - 1
<1>1. Under(s, u, m) /\ m \in Nat BY SPopped, SourceLength
<1> HIDE DEF u
<1>2. Over(u, SPush(u, e), Len(u.stack), e) /\ Len(u.stack) = m BY <1>1, SPushed DEF Under
<1> HIDE DEF m
<1>3. Over(s, SPush(u, e), m, e) BY <1>1, <1>2, UnderOver
<1>4. QED BY <1>3 DEF u, m

\* (two values)
LEMMA Replaced2 ==
    ASSUME NEW s, IsSource(s), Len(s.stack) >= 2, NEW e
    PROVE  Over(s, SPush(SPop(SPop(s)), e), Len(s.stack) - 2, e)
<1> DEFINE u == SPop(s)
           w == SPush(SPop(u), e)
           n == Len(s.stack)
<1>0. n \in Nat /\ n >= 1 /\ n - 1 >= 1 /\ n - 1 - 1 = n - 2 /\ n - 2 \in Nat /\ n - 1 \in Nat /\ n - 2 <= n - 1 BY SourceLength
<1> HIDE DEF n
<1>1. Under(s, u, n - 1) BY <1>0, SPopped DEF n
<1> HIDE DEF u
<1>2. IsSource(u) /\ Len(u.stack) = n - 1 BY <1>1 DEF Under
<1>3. Over(u, w, n - 2, e) BY <1>0, <1>2, Replaced
<1> HIDE DEF w
<1>4. \A i \in 1 .. n - 2 : i \in 1 .. n - 1 BY <1>0
<1>5. Over(s, w, n - 2, e) BY <1>1, <1>3, <1>4 DEF Over, Under
<1>6. QED BY <1>5 DEF w, u, n

-----------------------------------------------------------------------------
(* What holds between two tokens                                           *)

\* What is not a truth value has no jumps.
Aligned(w, st, m) == \A i \in 1 .. m : st[i].kind # "bool" => w[i].t = {}

\* An operand that is complete, or the value of a ({...}) so far
More(c, nd) == IF nd = "after" \/ (nd = "stmt" /\ Len(c) # 0) THEN 1 ELSE 0

\* The state with the numbers that the frames account for
OkAt(g, s, c, nd, h, v, d, R) ==
    /\ Stack(c, h, v, d, R, s.stack) /\ IsSource(s) /\ Good(g, R, d) /\ g.nocode = v
    /\ Len(s.stack) = Len(g.vs) /\ Len(g.vs) = h + More(c, nd) /\ Aligned(g.vs, s.stack, Len(g.vs))
    /\ nd = "stmt" => Len(c) = 0 \/ Last(c).k = "block"
\* The invariant: there are such numbers.
Ok(g, s, c, nd) == \E h, v, d, R : OkAt(g, s, c, nd, h, v, d, R)

\* Entries that are kept have no new jumps.
LEMMA AlignedKept ==
    ASSUME NEW s, NEW u, NEW st, IsState(s), Aligned(s.vs, st, Len(s.vs)), NEW n, Kept(s, u, n), NEW k \in Nat, k <= n
    PROVE  Aligned(u.vs, st, k)
<1>1. Len(s.vs) \in Nat BY Lengths
<1>2. n \in 0 .. Len(s.vs) BY DEF Kept
<1>3. \A i \in 1 .. k : i \in 1 .. Len(s.vs) /\ i \in 1 .. n BY <1>1, <1>2
<1>4. QED BY <1>3 DEF Aligned, Kept

\* The state between two operands
LEMMA CloseLow ==
    ASSUME NEW c, NEW h, NEW v, NEW d, NEW R, NEW s, Stack(c, h, v, d, R, s.stack), NEW u, Under(s, u, h),
           NEW g, Good(g, R, d), g.nocode = v, Len(g.vs) = h, Aligned(g.vs, s.stack, h),
           NEW nd, More(c, nd) = 0, nd = "stmt" => Len(c) = 0 \/ Last(c).k = "block"
    PROVE  Ok(g, u, c, nd)
<1>0. h \in Nat BY StackFacts
<1>1. \A i \in 1 .. h : u.stack[i] = s.stack[i] BY DEF Under
<1>2. Stack(c, h, v, d, R, u.stack) BY <1>1, StackOther
<1>3. Aligned(g.vs, u.stack, h) BY <1>1 DEF Aligned
<1>4. h = h + More(c, nd) BY <1>0
<1>5. OkAt(g, u, c, nd, h, v, d, R) BY <1>2, <1>3, <1>4 DEF OkAt, Under
<1>6. QED BY <1>5 DEF Ok

\* The state after an operand
LEMMA CloseTop ==
    ASSUME NEW c, NEW h, NEW v, NEW d, NEW R, NEW s, Stack(c, h, v, d, R, s.stack), NEW u, NEW e, Over(s, u, h, e),
           NEW g, Good(g, R, d), g.nocode = v, Len(g.vs) = h + 1, Aligned(g.vs, s.stack, h),
           e.kind # "bool" => vtop(g).t = {},
           NEW nd, More(c, nd) = 1, nd = "stmt" => Len(c) = 0 \/ Last(c).k = "block"
    PROVE  Ok(g, u, c, nd)
<1>0. h \in Nat BY StackFacts
<1>1. \A i \in 1 .. h : u.stack[i] = s.stack[i] BY DEF Over
<1>2. Stack(c, h, v, d, R, u.stack) BY <1>1, StackOther
<1>3. Aligned(g.vs, u.stack, h + 1)
  <2>1. ASSUME NEW i \in 1 .. h + 1, u.stack[i].kind # "bool" PROVE g.vs[i].t = {}
    <3>1. CASE i = h + 1 BY <2>1, <3>1 DEF Over, vtop
    <3>2. CASE i # h + 1
      <4>1. i \in 1 .. h BY <1>0, <3>2
      <4>2. QED BY <1>1, <2>1, <4>1 DEF Aligned
    <3>3. QED BY <3>1, <3>2
  <2>2. QED BY <2>1 DEF Aligned
<1>4. OkAt(g, u, c, nd, h, v, d, R) BY <1>2, <1>3 DEF OkAt, Over
<1>5. QED BY <1>4 DEF Ok

\* The numbers behind a state before or after an operand
LEMMA OkFacts ==
    ASSUME NEW g, NEW s, NEW c, NEW nd, NEW h, NEW v, NEW d, NEW R, OkAt(g, s, c, nd, h, v, d, R)
    PROVE  /\ h \in Nat /\ v \in Nat /\ d \in Nat /\ (v # 0 => d <= h) /\ IsList(c) /\ Len(c) \in Nat
           /\ Len(g.vs) \in Nat /\ IsState(g) /\ IsSource(s) /\ Len(g.vs) = Len(s.stack)
           /\ More(c, nd) = 1 => Len(g.vs) = h + 1 /\ Len(g.vs) >= 1 /\ Len(g.vs) - 1 = h
           /\ More(c, nd) = 0 => Len(g.vs) = h
<1>1. /\ h \in Nat /\ v \in Nat /\ d \in Nat /\ (v # 0 => d <= h) /\ IsList(c) /\ Len(c) \in Nat
  BY StackFacts DEF OkAt
<1>2. Good(g, R, d) /\ IsSource(s) /\ Len(g.vs) = Len(s.stack) /\ Len(g.vs) = h + More(c, nd) BY DEF OkAt
<1>3. IsState(g) /\ Len(g.vs) \in Nat BY <1>2, Lengths DEF Good
<1> DEFINE n == Len(g.vs)
           k == More(c, nd)
<1>4. n = h + k BY <1>2
<1> HIDE DEF n, k
<1>5. (k = 1 => n = h + 1 /\ n >= 1 /\ n - 1 = h) /\ (k = 0 => n = h) BY <1>1, <1>4
<1>6. QED BY <1>1, <1>2, <1>3, <1>5 DEF n, k

\* While no code is generated, the entries above the mark have no jumps.
LEMMA IdleCalm ==
    ASSUME NEW g, NEW R, NEW d \in Nat, Good(g, R, d), NEW k, g.nocode # 0 => d <= Len(g.vs) - k, k \in Nat PROVE Calm(g, k)
<1>1. Len(g.vs) \in Nat BY Lengths DEF Good
<1>2. ASSUME g.nocode # 0, NEW i \in 1 .. Len(g.vs), i > Len(g.vs) - k PROVE g.vs[i].t = {}
  <2>1. i > d BY <1>1, <1>2
  <2>2. QED BY <1>2, <2>1 DEF Good, Idle
<1>3. QED BY <1>2 DEF Calm, Plain

\* The operand on the top
LEMMA AfterCalm ==
    ASSUME NEW g, NEW s, NEW c, NEW h, NEW v, NEW d, NEW R, OkAt(g, s, c, "after", h, v, d, R)
    PROVE  /\ Calm(g, 1) /\ Good(g, R, d) /\ More(c, "after") = 1
           /\ STop(s) = s.stack[h + 1] /\ vtop(g) = g.vs[h + 1]
           /\ STop(s).kind # "bool" => vtop(g).t = {}
<1>1. More(c, "after") = 1 BY DEF More
<1>2. /\ h \in Nat /\ d \in Nat /\ (v # 0 => d <= h) /\ Len(g.vs) = h + 1 /\ Len(g.vs) - 1 = h
      /\ Len(g.vs) = Len(s.stack)
  BY <1>1, OkFacts
<1>3. Good(g, R, d) /\ g.nocode = v /\ Aligned(g.vs, s.stack, Len(g.vs)) BY DEF OkAt
<1>4. Calm(g, 1)
  <2> DEFINE k == 1
  <2>1. k \in Nat /\ Len(g.vs) - k = h BY <1>2
  <2> HIDE DEF k
  <2>2. g.nocode # 0 => d <= Len(g.vs) - k BY <1>2, <1>3, <2>1
  <2>3. Calm(g, k) BY <1>2, <1>3, <2>1, <2>2, IdleCalm
  <2>4. QED BY <2>3 DEF k
<1>5. STop(s) = s.stack[h + 1] /\ vtop(g) = g.vs[h + 1] BY <1>2 DEF STop, Last, vtop
<1>6. h + 1 \in 1 .. Len(g.vs) BY <1>2
<1>7. STop(s).kind # "bool" => vtop(g).t = {} BY <1>3, <1>5, <1>6 DEF Aligned
<1>8. QED BY <1>1, <1>3, <1>4, <1>5, <1>7

\* A new value on the top
LEMMA TopChanged ==
    ASSUME NEW g, NEW s, NEW c, NEW h, NEW v, NEW d, NEW R, OkAt(g, s, c, "after", h, v, d, R),
           NEW u, Good(u, R, d), Len(u.vs) = Len(g.vs), Kept(g, u, Len(g.vs) - 1),
           NEW w, NEW e, Over(s, w, Len(s.stack) - 1, e), e.kind # "bool" => vtop(u).t = {}
    PROVE  Ok(u, w, c, "after")
<1> DEFINE nd == "after"
<1>0. More(c, nd) = 1 /\ (nd = "stmt" => Len(c) = 0 \/ Last(c).k = "block") BY DEF More
<1> HIDE DEF nd
<1>1. /\ h \in Nat /\ Len(g.vs) = h + 1 /\ Len(g.vs) - 1 = h /\ Len(g.vs) = Len(s.stack) /\ h <= h + 1 /\ h + 1 \in Nat
  BY <1>0, OkFacts DEF nd
<1>2. Stack(c, h, v, d, R, s.stack) /\ g.nocode = v /\ Aligned(g.vs, s.stack, Len(g.vs)) /\ IsState(g)
  BY DEF OkAt, Good
<1>3. Kept(g, u, h) /\ Over(s, w, h, e) BY <1>1
<1>4. Aligned(u.vs, s.stack, h)
  <2>1. h <= h BY <1>1
  <2>2. QED BY <1>1, <1>2, <1>3, <2>1, AlignedKept
<1>5. u.nocode = v /\ Len(u.vs) = h + 1 BY <1>1, <1>2, <1>3 DEF Kept
<1>6. Ok(u, w, c, nd) BY <1>0, <1>2, <1>3, <1>4, <1>5, CloseTop
<1>7. QED BY <1>6 DEF nd

-----------------------------------------------------------------------------
(* Operands                                                                *)

\* Before an operand,
LEMMA OperandFacts ==
    ASSUME NEW g, NEW s, NEW c, NEW h, NEW v, NEW d, NEW R, OkAt(g, s, c, "operand", h, v, d, R)
    PROVE  /\ More(c, "operand") = 0 /\ h \in Nat /\ v \in Nat /\ d \in Nat /\ (v # 0 => d <= h) /\ IsList(c) /\ Len(c) \in Nat
           /\ Len(g.vs) = h /\ Len(s.stack) = h /\ IsState(g) /\ IsSource(s) /\ Good(g, R, d) /\ g.nocode = v
           /\ Stack(c, h, v, d, R, s.stack) /\ Aligned(g.vs, s.stack, Len(g.vs))
<1>1. More(c, "operand") = 0 BY DEF More
<1>2. QED BY <1>1, OkFacts DEF OkAt

\* and after it
LEMMA AfterFacts ==
    ASSUME NEW g, NEW s, NEW c, NEW h, NEW v, NEW d, NEW R, OkAt(g, s, c, "after", h, v, d, R)
    PROVE  /\ More(c, "after") = 1 /\ h \in Nat /\ v \in Nat /\ d \in Nat /\ (v # 0 => d <= h) /\ IsList(c) /\ Len(c) \in Nat
           /\ Len(g.vs) = h + 1 /\ Len(s.stack) = h + 1 /\ IsState(g) /\ IsSource(s) /\ Good(g, R, d) /\ g.nocode = v
           /\ Stack(c, h, v, d, R, s.stack) /\ Aligned(g.vs, s.stack, Len(g.vs))
           /\ Len(g.vs) >= 1 /\ Len(s.stack) >= 1 /\ Len(g.vs) - 1 = h /\ Len(s.stack) - 1 = h
<1>1. More(c, "after") = 1 BY DEF More
<1>2. QED BY <1>1, OkFacts DEF OkAt

\* A value is pushed.
LEMMA OperandPushed ==
    ASSUME NEW g, NEW s, NEW c, Ok(g, s, c, "operand"), NEW x, IsEntry(x), x.t = {}, NEW e
    PROVE  Ok(vsetc(g, x), SPush(s, e), c, "after")
<1> DEFINE u == vsetc(g, x)
           w == SPush(s, e)
           nd == "after"
<1>1. PICK h, v, d, R : OkAt(g, s, c, "operand", h, v, d, R) BY DEF Ok
<1>2. /\ h \in Nat /\ Len(g.vs) = h /\ Len(s.stack) = h /\ IsState(g) /\ IsSource(s) /\ Good(g, R, d) /\ g.nocode = v
      /\ Stack(c, h, v, d, R, s.stack) /\ Aligned(g.vs, s.stack, Len(g.vs))
  BY <1>1, OperandFacts
<1>3. Good(u, R, d) /\ Kept(g, u, Len(g.vs)) /\ Len(u.vs) = Len(g.vs) + 1 /\ vtop(u) = x BY <1>2, PutPlain
<1>4. Over(s, w, h, e) BY <1>2, SPushed
<1>5. More(c, nd) = 1 /\ (nd = "stmt" => Len(c) = 0 \/ Last(c).k = "block") BY DEF More
<1> HIDE DEF u, w, nd
<1>6. u.nocode = v /\ Len(u.vs) = h + 1 /\ (e.kind # "bool" => vtop(u).t = {}) BY <1>2, <1>3 DEF Kept
<1>7. Aligned(u.vs, s.stack, h)
  <2>1. h <= Len(g.vs) BY <1>2
  <2>2. QED BY <1>2, <1>3, <2>1, AlignedKept
<1>8. Ok(u, w, c, nd) BY <1>2, <1>3, <1>4, <1>5, <1>6, <1>7, CloseTop
<1>9. QED BY <1>8 DEF u, w, nd

\* A constant,
LEMMA PushConstOk == ASSUME Ok(cg, src, ctx, need), PushConst PROVE Ok(cg', src', ctx', need')
<1>1. PICK c \in lang.consts : cg' = vsetc(cg, Const(c)) /\ src' = SPush(src, Result(src, "val", LAMBDA k : c))
  BY DEF PushConst
<1> DEFINE x == Const(c)
           e == Result(src, "val", LAMBDA k : c)
<1>2. cg' = vsetc(cg, x) /\ src' = SPush(src, e) BY <1>1
<1>3. IsEntry(x) /\ x.t = {} BY ConstEntry
<1>4. need = "operand" /\ need' = "after" /\ ctx' = ctx BY DEF PushConst
<1> HIDE DEF x, e
<1>5. Ok(cg, src, ctx, "operand") BY <1>4
<1>6. Ok(vsetc(cg, x), SPush(src, e), ctx, "after") BY <1>3, <1>5, OperandPushed
<1>7. QED BY <1>2, <1>4, <1>6

\* and a variable
LEMMA PushVarOk == ASSUME Ok(cg, src, ctx, need), PushVar PROVE Ok(cg', src', ctx', need')
<1>1. PICK c \in lang.vars : cg' = vsetc(cg, Local(c)) /\ src' = SPush(src, Result(src, "loc", LAMBDA k : c))
  BY DEF PushVar
<1> DEFINE x == Local(c)
           e == Result(src, "loc", LAMBDA k : c)
<1>2. cg' = vsetc(cg, x) /\ src' = SPush(src, e) BY <1>1
<1>3. IsEntry(x) /\ x.t = {} BY PlainEntry DEF Local
<1>4. need = "operand" /\ need' = "after" /\ ctx' = ctx BY DEF PushVar
<1> HIDE DEF x, e
<1>5. Ok(cg, src, ctx, "operand") BY <1>4
<1>6. Ok(vsetc(cg, x), SPush(src, e), ctx, "after") BY <1>3, <1>5, OperandPushed
<1>7. QED BY <1>2, <1>4, <1>6

\* An operator that changes the top entry
LEMMA OperandChanged ==
    ASSUME NEW g, NEW s, NEW c, NEW h, NEW v, NEW d, NEW R, OkAt(g, s, c, "after", h, v, d, R),
           NEW u, Done(g, u, R, d), STop(s).kind # "bool", NEW w, NEW e, Over(s, w, Len(s.stack) - 1, e)
    PROVE  Ok(u, w, c, "after")
<1>1. /\ h \in Nat /\ IsState(g) /\ Good(g, R, d) /\ Len(g.vs) = h + 1 /\ Len(g.vs) >= 1 /\ Len(g.vs) - 1 = h
  BY AfterFacts
<1>2. Reset(g, u, R, d) BY <1>1, DoneReset
<1>3. vtop(g).t = {} BY AfterCalm
<1>4. vtop(u).t = {}
  <2>1. Len(u.vs) = Len(g.vs) /\ Kept(g, u, Len(g.vs)) BY DEF Done
  <2>2. Len(g.vs) \in 1 .. Len(g.vs) BY <1>1
  <2>3. QED BY <1>3, <2>1, <2>2 DEF Kept, vtop
<1>5. QED BY <1>2, <1>4, TopChanged DEF Reset

\* *,
LEMMA DerefOk == ASSUME Ok(cg, src, ctx, need), Deref PROVE Ok(cg', src', ctx', need')
<1> DEFINE r == Rvalue(src, STop(src))
           e == Result(src, "loc", LAMBDA k : r[k])
           u == indir(cg)
           w == SPush(SPop(src), e)
<1>1. cg' = u /\ src' = w /\ ctx' = ctx /\ need = "after" /\ need' = "after" /\ STop(src).kind # "bool" BY DEF Deref
<1>2. PICK h, v, d, R : OkAt(cg, src, ctx, "after", h, v, d, R) BY <1>1 DEF Ok
<1>3. Good(cg, R, d) /\ Len(cg.vs) >= 1 /\ IsSource(src) /\ Len(src.stack) >= 1 BY <1>2, AfterFacts
<1>4. Done(cg, u, R, d) BY <1>3, DereferencedDone
<1> HIDE DEF e, u
<1>5. Over(src, w, Len(src.stack) - 1, e) BY <1>3, Replaced
<1> HIDE DEF w
<1>6. Ok(u, w, ctx, "after") BY <1>1, <1>2, <1>4, <1>5, OperandChanged
<1>7. QED BY <1>1, <1>6

\* &,
LEMMA AddressOfOk == ASSUME Ok(cg, src, ctx, need), AddressOf PROVE Ok(cg', src', ctx', need')
<1> DEFINE e == [STop(src) EXCEPT !.kind = "val"]
           u == gaddrof(cg)
           w == SPush(SPop(src), e)
<1>1. cg' = u /\ src' = w /\ ctx' = ctx /\ need = "after" /\ need' = "after" /\ STop(src).kind # "bool" BY DEF AddressOf
<1>2. PICK h, v, d, R : OkAt(cg, src, ctx, "after", h, v, d, R) BY <1>1 DEF Ok
<1>3. Good(cg, R, d) /\ Len(cg.vs) >= 1 /\ IsSource(src) /\ Len(src.stack) >= 1 BY <1>2, AfterFacts
<1>4. Done(cg, u, R, d) BY <1>3, AddressTaken
<1> HIDE DEF e, u
<1>5. Over(src, w, Len(src.stack) - 1, e) BY <1>3, Replaced
<1> HIDE DEF w
<1>6. Ok(u, w, ctx, "after") BY <1>1, <1>2, <1>4, <1>5, OperandChanged
<1>7. QED BY <1>1, <1>6

\* ++ and --,
LEMMA IncrementOk == ASSUME Ok(cg, src, ctx, need), Increment PROVE Ok(cg', src', ctx', need')
<1> DEFINE old == Rvalue(src, STop(src))
           New(k) == Alu("+", old[k], 1)
           dest == STop(src)
           mem == [k \in Paths |-> IF k \in src.act THEN [src.mem[k] EXCEPT ![dest.den[k]] = New(k)] ELSE src.mem[k]]
           a == [src EXCEPT !.mem = mem]
<1>1. PICK post \in BOOLEAN :
          /\ cg' = inc(cg, post)
          /\ src' = SPush(SPop(Assigned(src, STop(src), New)), Result(src, "val", LAMBDA k : IF post THEN old[k] ELSE New(k)))
  BY DEF Increment
<1> DEFINE e == Result(src, "val", LAMBDA k : IF post THEN old[k] ELSE New(k))
           u == inc(cg, post)
           w == SPush(SPop(a), e)
<1>2. Assigned(src, dest, New) = a BY DEF Assigned
<1>3. cg' = u /\ src' = w BY <1>1, <1>2
<1>4. ctx' = ctx /\ need = "after" /\ need' = "after" /\ STop(src).kind # "bool" BY DEF Increment
<1>5. PICK h, v, d, R : OkAt(cg, src, ctx, "after", h, v, d, R) BY <1>4 DEF Ok
<1>6. Good(cg, R, d) /\ Len(cg.vs) >= 1 /\ IsSource(src) /\ Len(src.stack) >= 1 BY <1>5, AfterFacts
<1>7. vtop(cg).t = {} BY <1>4, <1>5, AfterCalm
<1>8. Done(cg, u, R, d) BY <1>6, <1>7, IncrementDone
<1> HIDE DEF mem, e, u
<1>9. IsSource(a) /\ a.stack = src.stack BY <1>6, SourceMem
<1> HIDE DEF a
<1>10. Over(a, w, Len(a.stack) - 1, e) BY <1>6, <1>9, Replaced
<1> HIDE DEF w
<1>11. Over(src, w, Len(src.stack) - 1, e) BY <1>9, <1>10 DEF Over
<1>12. Ok(u, w, ctx, "after") BY <1>4, <1>5, <1>8, <1>11, OperandChanged
<1>13. QED BY <1>3, <1>4, <1>12

\* and !
LEMMA NotOk == ASSUME Ok(cg, src, ctx, need), Not PROVE Ok(cg', src', ctx', need')
<1> DEFINE e == Result(src, "bool", LAMBDA k : IF k \in True(src) THEN 0 ELSE 1)
           u == Negate(cg)
           w == SPush(SPop(src), e)
<1>1. cg' = u /\ src' = w /\ ctx' = ctx /\ need = "after" /\ need' = "after" BY DEF Not
<1>2. PICK h, v, d, R : OkAt(cg, src, ctx, "after", h, v, d, R) BY <1>1 DEF Ok
<1>3. Good(cg, R, d) /\ Len(cg.vs) >= 1 /\ IsSource(src) /\ Len(src.stack) >= 1 BY <1>2, AfterFacts
<1>4. Calm(cg, 1) BY <1>2, AfterCalm
<1>5. Reset(cg, u, R, d) BY <1>3, <1>4, Negated
<1>6. e.kind = "bool" BY DEF Result, Value
<1> HIDE DEF e, u
<1>7. Over(src, w, Len(src.stack) - 1, e) BY <1>3, Replaced
<1> HIDE DEF w
<1>8. Ok(u, w, ctx, "after") BY <1>2, <1>5, <1>6, <1>7, TopChanged DEF Reset
<1>9. QED BY <1>1, <1>8

\* The left operand of a comma
LEMMA CommaOk == ASSUME Ok(cg, src, ctx, need), Comma PROVE Ok(cg', src', ctx', need')
<1> DEFINE u == vpop(cg)
           w == SPop(src)
           nd == "operand"
<1>1. cg' = u /\ src' = w /\ ctx' = ctx /\ need = "after" /\ need' = nd BY DEF Comma
<1>2. PICK h, v, d, R : OkAt(cg, src, ctx, "after", h, v, d, R) BY <1>1 DEF Ok
<1>3. /\ h \in Nat /\ IsState(cg) /\ Good(cg, R, d) /\ Len(cg.vs) = h + 1 /\ Len(cg.vs) >= 1 /\ Len(cg.vs) - 1 = h
      /\ IsSource(src) /\ Len(src.stack) >= 1 /\ Len(src.stack) - 1 = h /\ cg.nocode = v
      /\ Stack(ctx, h, v, d, R, src.stack) /\ Aligned(cg.vs, src.stack, Len(cg.vs))
  BY <1>2, AfterFacts
<1>4. Good(u, R, d) /\ Kept(cg, u, h) /\ Len(u.vs) = h
  <2>1. Good(u, R, d) /\ Kept(cg, u, Len(cg.vs) - 1) /\ Len(u.vs) = Len(cg.vs) - 1 BY <1>3, Popped
  <2> HIDE DEF u
  <2>2. QED BY <1>3, <2>1
<1>5. Under(src, w, h)
  <2>1. Under(src, w, Len(src.stack) - 1) BY <1>3, SPopped
  <2> HIDE DEF w
  <2>2. QED BY <1>3, <2>1
<1>6. More(ctx, nd) = 0 /\ (nd = "stmt" => Len(ctx) = 0 \/ Last(ctx).k = "block") BY DEF More
<1> HIDE DEF u, w, nd
<1>7. u.nocode = v /\ Aligned(u.vs, src.stack, h)
  <2>1. h <= h BY <1>3
  <2>2. QED BY <1>3, <1>4, <2>1, AlignedKept DEF Kept
<1>8. Ok(u, w, ctx, nd) BY <1>3, <1>4, <1>5, <1>6, <1>7, CloseLow
<1>9. QED BY <1>1, <1>8

-----------------------------------------------------------------------------
(* Operators and assignments                                               *)

\* A new frame has no chains.
Fresh(f, k, op) ==
    /\ IsFrame(f) /\ f.k = k /\ f.op = op /\ f.t = {} /\ f.u = {} /\ f.sv.t = {} /\ f.c = -1 /\ f.dead = FALSE
    /\ f.n = 0 /\ f.i = 1 /\ Own(f) = {} /\ Apart(f) /\ Falls(f) = 0

\* The frame that an operator begins with
LEMMA NewFrame == ASSUME NEW k, NEW op PROVE Fresh(Frame(k, op), k, op)
<1> DEFINE x == Void(src)
           y == src.act
           z == Const(0)
           f == [k |-> k, op |-> op, t |-> {}, u |-> {}, c |-> -1, dead |-> FALSE, sv |-> z,
                 val |-> x, act |-> y, n |-> 0, i |-> 1, wide |-> {}]
<1>1. Frame(k, op) = f BY DEF Frame
<1>2. IsEntry(z) /\ z.t = {} BY ConstEntry
<1> HIDE DEF x, y, z
<1>3. /\ f = [k |-> f.k, op |-> f.op, t |-> f.t, u |-> f.u, c |-> f.c, dead |-> f.dead, sv |-> f.sv,
              val |-> f.val, act |-> f.act, n |-> f.n, i |-> f.i, wide |-> f.wide]
      /\ f.k = k /\ f.op = op /\ f.t = {} /\ f.u = {} /\ f.sv = z /\ f.c = -1 /\ f.dead = FALSE /\ f.n = 0 /\ f.i = 1
  OBVIOUS
<1> HIDE DEF f
<1>4. IsFrame(f)
  <2>0. f.dead = FALSE /\ f.c = -1 /\ f.n = 0 /\ f.i = 1 BY <1>3
  <2>a. f.dead \in BOOLEAN BY ONLY <2>0, Zenon
  <2>b. f.c \in {-1, 0, 1} BY ONLY <2>0
  <2>1. f.dead \in BOOLEAN /\ f.c \in {-1, 0, 1} /\ f.n \in Nat /\ f.i \in Nat BY <2>0, <2>a, <2>b
  <2>2. IsEntry(f.sv) BY <1>2, <1>3
  <2>3. QED BY <1>3, <2>1, <2>2 DEF IsFrame
<1>5. Own(f) = {} /\ Apart(f) BY <1>2, <1>3 DEF Own, Apart
<1>6. Falls(f) = 0 BY <1>3 DEF Falls
<1>7. Fresh(f, k, op) BY <1>2, <1>3, <1>4, <1>5, <1>6 DEF Fresh
<1>8. QED BY <1>1, <1>7

\* Frames that hold no chains
Simple == {"bin", "assign", "opassign", "call", "expr", "if", "block"}

\* It is in order.
LEMMA SimpleFrame ==
    ASSUME NEW k \in Simple \ {"call"}, NEW op, op # ""
    PROVE  FrameOk(Frame(k, op)) /\ Own(Frame(k, op)) = {} /\ Falls(Frame(k, op)) = 0
<1> DEFINE f == Frame(k, op)
<1>1. /\ IsFrame(f) /\ f.k = k /\ f.op = op /\ f.t = {} /\ f.u = {} /\ f.sv.t = {} /\ Own(f) = {} /\ Apart(f)
      /\ Falls(f) = 0
  <2>1. Fresh(f, k, op) BY NewFrame
  <2> HIDE DEF f
  <2>2. QED BY ONLY <2>1 DEF Fresh
<1> HIDE DEF f
<1>2. f.k \in Simple /\ f.k # "call" /\ f.k # "cond2" BY <1>1 DEF Simple
<1>3. Ruled(f) BY <1>1, <1>2 DEF Ruled
<1>4. QED BY <1>1, <1>3 DEF FrameOk, f

\* Statements have no operator.
LEMMA OpenFrame ==
    ASSUME NEW k \in {"expr", "if", "block"}
    PROVE  LET f == Frame(k, "") IN FrameOk(f) /\ Own(f) = {} /\ Falls(f) = 0 /\ f.k = k
<1> DEFINE op == ""
           f == Frame(k, op)
<1>1. /\ IsFrame(f) /\ f.k = k /\ f.t = {} /\ f.u = {} /\ f.sv.t = {} /\ Own(f) = {} /\ Apart(f)
      /\ Falls(f) = 0
  <2> HIDE DEF op
  <2>1. Fresh(f, k, op) BY NewFrame
  <2> HIDE DEF f
  <2>2. QED BY ONLY <2>1 DEF Fresh
<1> HIDE DEF f
<1>3. Ruled(f) BY <1>1 DEF Ruled
<1>4. QED BY <1>1, <1>3 DEF FrameOk, f

\* Such a frame is left with the chains and the suppressed code of the others.
LEMMA SimpleLeft ==
    ASSUME NEW f, NEW c, NEW h, NEW v, NEW d, NEW R, NEW st, NEW h0, NEW v0, Leaving(f, c, h, v, d, R, st, h0, v0),
           f.k \in Simple
    PROVE  Own(f) = {} /\ R \ Own(f) = R /\ v = v0 /\ h0 \in Nat /\ v0 \in Nat /\ (v0 # 0 => d <= h0)
<1>1. FrameOk(f) /\ v0 \in Nat /\ h0 \in Nat /\ v = v0 + Falls(f) /\ (v0 # 0 => d <= h0) BY DEF Leaving
<1>2. f.t = {} /\ f.u = {} /\ f.sv.t = {} BY <1>1 DEF FrameOk, Ruled, Simple
<1>3. Own(f) = {} BY <1>2 DEF Own
<1>4. Falls(f) = 0 BY DEF Falls, Simple
<1>5. QED BY <1>1, <1>3, <1>4

\* The last frame
LEMMA TopFrame ==
    ASSUME NEW k, Top(k), IsList(ctx) PROVE Len(ctx) >= 1 /\ Len(ctx) \in Nat /\ Last(ctx).k = k
<1>1. ctx # <<>> /\ Last(ctx).k = k BY DEF Top
<1>2. Len(ctx) # 0 /\ Len(ctx) \in Nat BY <1>1, EmptyList DEF IsList
<1>3. QED BY <1>1, <1>2

\* The state after an operation that leaves one value where the frames are c
LEMMA CloseAfter ==
    ASSUME NEW c, NEW h, NEW v, NEW d, NEW R, NEW s, Stack(c, h, v, d, R, s.stack),
           NEW g, IsState(g), Aligned(g.vs, s.stack, Len(g.vs)),
           NEW u, Good(u, R, d), u.nocode = v, Len(u.vs) = h + 1, \A i \in 1 .. h : g.vs[i].t = {} => u.vs[i].t = {},
           h <= Len(g.vs), NEW w, NEW e, Over(s, w, h, e), e.kind # "bool" => vtop(u).t = {}
    PROVE  Ok(u, w, c, "after")
<1> DEFINE nd == "after"
<1>0. More(c, nd) = 1 /\ (nd = "stmt" => Len(c) = 0 \/ Last(c).k = "block") BY DEF More
<1>1. h \in Nat /\ Len(g.vs) \in Nat BY StackFacts, Lengths
<1>2. \A i \in 1 .. h : i \in 1 .. Len(g.vs) BY <1>1
<1>3. Aligned(u.vs, s.stack, h) BY <1>2 DEF Aligned
<1> HIDE DEF nd
<1>4. Ok(u, w, c, nd) BY <1>0, <1>3, CloseTop
<1>5. QED BY <1>4 DEF nd

\* The state before the next operand where the frames are c
LEMMA CloseOperand ==
    ASSUME NEW c, NEW h, NEW v, NEW d, NEW R, NEW s, Stack(c, h, v, d, R, s.stack),
           NEW g, IsState(g), Aligned(g.vs, s.stack, Len(g.vs)),
           NEW u, Good(u, R, d), u.nocode = v, Len(u.vs) = h, \A i \in 1 .. h : g.vs[i].t = {} => u.vs[i].t = {},
           h <= Len(g.vs), NEW w, Under(s, w, h)
    PROVE  Ok(u, w, c, "operand")
<1> DEFINE nd == "operand"
<1>0. More(c, nd) = 0 /\ (nd = "stmt" => Len(c) = 0 \/ Last(c).k = "block") BY DEF More
<1>1. h \in Nat /\ Len(g.vs) \in Nat BY StackFacts, Lengths
<1>2. \A i \in 1 .. h : i \in 1 .. Len(g.vs) BY <1>1
<1>3. Aligned(u.vs, s.stack, h) BY <1>2 DEF Aligned
<1> HIDE DEF nd
<1>4. Ok(u, w, c, nd) BY <1>0, <1>3, CloseLow
<1>5. QED BY <1>4 DEF nd

\* A frame is entered without a change of the stack.
LEMMA SimpleEntered ==
    ASSUME NEW g, NEW s, NEW c, NEW h, NEW v, NEW d, NEW R, OkAt(g, s, c, "after", h, v, d, R),
           NEW f, FrameOk(f), Own(f) = {}, Falls(f) = 0, Below(f, h, s.stack), f.k \notin {"expr", "if", "then", "else"},
           Takes(f, Len(c) + 1) = 1
    PROVE  Ok(g, s, Append(c, f), "operand")
<1> DEFINE b == Append(c, f)
           tk == Takes(f, Len(c) + 1)
           nd == "operand"
<1>1. /\ h \in Nat /\ v \in Nat /\ d \in Nat /\ Len(g.vs) = h + 1 /\ Len(s.stack) = h + 1 /\ IsSource(s)
      /\ Good(g, R, d) /\ g.nocode = v /\ Stack(c, h, v, d, R, s.stack) /\ Aligned(g.vs, s.stack, Len(g.vs))
  BY AfterFacts
<1>2. Entering(f, c, h, v, d, R, s.stack, d) BY <1>1 DEF Entering
<1>3. Stack(b, h + tk, v + Falls(f), d, R \cup Own(f), s.stack) BY <1>1, <1>2, StackEntered
<1>4. h + tk = h + 1 /\ v + Falls(f) = v /\ R \cup Own(f) = R BY <1>1
<1> HIDE DEF b, tk
<1>5. Stack(b, h + 1, v, d, R, s.stack) BY <1>3, <1>4
<1>6. Under(s, s, h + 1) BY <1>1 DEF Under
<1>7. More(b, nd) = 0 /\ (nd = "stmt" => Len(b) = 0 \/ Last(b).k = "block") BY DEF More
<1> HIDE DEF nd
<1> DEFINE x == h + 1
<1>8. Stack(b, x, v, d, R, s.stack) /\ Under(s, s, x) /\ Len(g.vs) = x /\ Aligned(g.vs, s.stack, x) BY <1>1, <1>5, <1>6
<1> HIDE DEF x
<1>9. Ok(g, s, b, nd) BY <1>1, <1>7, <1>8, CloseLow
<1>10. QED BY <1>9 DEF b, nd

\* A binary operator comes,
LEMMA BinaryOk == ASSUME Ok(cg, src, ctx, need), Binary PROVE Ok(cg', src', ctx', need')
<1>1. PICK op \in {"+", "-", "*", "<<", "/", "%", "<", "=="} : Enter(Frame("bin", op)) BY DEF Binary
<1> DEFINE k == "bin"
           f == Frame(k, op)
<1>2. cg' = cg /\ src' = src /\ ctx' = Append(ctx, f) /\ need = "after" /\ need' = "operand" BY <1>1 DEF Binary, Enter
<1>3. k \in Simple \ {"call"} /\ op # "" BY <1>1 DEF Simple
<1>4. f.k = k BY NewFrame DEF Fresh
<1> HIDE DEF k
<1>5. FrameOk(f) /\ Own(f) = {} /\ Falls(f) = 0 BY <1>3, SimpleFrame
<1> HIDE DEF f
<1>6. PICK h, v, d, R : OkAt(cg, src, ctx, "after", h, v, d, R) BY <1>2 DEF Ok
<1>7. /\ Below(f, h, src.stack) /\ f.k \notin {"expr", "if", "then", "else"} /\ Takes(f, Len(ctx) + 1) = 1
  BY <1>4 DEF Below, Takes, k
<1>8. Ok(cg, src, Append(ctx, f), "operand") BY <1>5, <1>6, <1>7, SimpleEntered
<1>9. QED BY <1>2, <1>8

\* or =.
LEMMA AssignOk == ASSUME Ok(cg, src, ctx, need), Assign PROVE Ok(cg', src', ctx', need')
<1> DEFINE k == "assign"
           op == "="
           f == Frame(k, op)
<1>2. /\ cg' = cg /\ src' = src /\ ctx' = Append(ctx, f) /\ need = "after" /\ need' = "operand"
      /\ STop(src).kind # "bool"
  BY DEF Assign, Enter
<1>3. k \in Simple \ {"call"} /\ op # "" BY DEF Simple
<1>4. f.k = k BY NewFrame DEF Fresh
<1> HIDE DEF k, op
<1>5. FrameOk(f) /\ Own(f) = {} /\ Falls(f) = 0 BY <1>3, SimpleFrame
<1> HIDE DEF f
<1>6. PICK h, v, d, R : OkAt(cg, src, ctx, "after", h, v, d, R) BY <1>2 DEF Ok
<1>7. STop(src) = src.stack[h + 1] BY <1>6, AfterCalm
<1>8. /\ Below(f, h, src.stack) /\ f.k \notin {"expr", "if", "then", "else"} /\ Takes(f, Len(ctx) + 1) = 1
  BY <1>2, <1>4, <1>7 DEF Below, Takes, k
<1>9. Ok(cg, src, Append(ctx, f), "operand") BY <1>5, <1>6, <1>8, SimpleEntered
<1>10. QED BY <1>2, <1>9

\* The result takes the place of both operands,
LEMMA BinaryOver ==
    ASSUME NEW s, IsSource(s), Len(s.stack) >= 2, NEW op
    PROVE  \E e : Over(s, SBinary(s, op), Len(s.stack) - 2, e)
<1> DEFINE x == Rvalue(s, STop1(s))
           y == Rvalue(s, STop(s))
           e == Result(s, IF op \in Comparisons THEN "bool" ELSE "val", LAMBDA k : Alu(op, x[k], y[k]))
<1>1. SBinary(s, op) = SPush(SPop(SPop(s)), e) BY DEF SBinary
<1> HIDE DEF e
<1>2. Over(s, SPush(SPop(SPop(s)), e), Len(s.stack) - 2, e) BY Replaced2
<1>3. QED BY <1>1, <1>2

\* and so does the value of an assignment.
LEMMA AssignOver ==
    ASSUME NEW s, IsSource(s), Len(s.stack) >= 2
    PROVE  \E e : Over(s, SAssign(s), Len(s.stack) - 2, e)
<1> DEFINE y == Rvalue(s, STop(s))
           dest == STop1(s)
           mem == [k \in Paths |-> IF k \in s.act THEN [s.mem[k] EXCEPT ![dest.den[k]] = y[k]] ELSE s.mem[k]]
           a == [s EXCEPT !.mem = mem]
           e == Result(s, "val", LAMBDA k : y[k])
           w == SPush(SPop(SPop(a)), e)
<1>1. SAssign(s) = w BY DEF SAssign, Assigned
<1> HIDE DEF mem, e
<1>2. IsSource(a) /\ a.stack = s.stack BY SourceMem
<1> HIDE DEF a
<1>3. Over(a, w, Len(a.stack) - 2, e) BY <1>2, Replaced2
<1> HIDE DEF w
<1>4. Over(s, w, Len(s.stack) - 2, e) BY <1>2, <1>3 DEF Over
<1>5. QED BY <1>1, <1>4

\* gen_op() after the second operand,
LEMMA EndBinaryOk == ASSUME Ok(cg, src, ctx, need), EndBinary PROVE Ok(cg', src', ctx', need')
<1> DEFINE f == Last(ctx)
           op == f.op
           u == gen_op(cg, op)
           w == SBinary(src, op)
           b == Front(ctx)
<1>1. cg' = u /\ src' = w /\ ctx' = b /\ need = "after" /\ need' = "after" /\ Top("bin") BY DEF EndBinary, Leave
<1>2. PICK h, v, d, R : OkAt(cg, src, ctx, "after", h, v, d, R) BY <1>1 DEF Ok
<1>3. /\ h \in Nat /\ v \in Nat /\ d \in Nat /\ IsList(ctx) /\ Len(cg.vs) = h + 1 /\ Len(src.stack) = h + 1 /\ IsState(cg)
      /\ IsSource(src) /\ Good(cg, R, d) /\ cg.nocode = v
      /\ Stack(ctx, h, v, d, R, src.stack) /\ Aligned(cg.vs, src.stack, Len(cg.vs))
  BY <1>2, AfterFacts
<1>4. Len(ctx) >= 1 /\ Len(ctx) \in Nat /\ f.k = "bin" BY <1>1, <1>3, TopFrame
<1>5. PICK h0, v0 : /\ Leaving(f, ctx, h, v, d, R, src.stack, h0, v0)
                    /\ Stack(b, h0, v0, d, R \ Own(f), src.stack)
  BY <1>3, <1>4, StackLeft
<1> HIDE DEF f, b
<1>6. R \ Own(f) = R /\ v = v0 /\ h0 \in Nat /\ (v0 # 0 => d <= h0) BY <1>4, <1>5, SimpleLeft DEF Simple
<1>7. h = h0 + 1
  <2>1. Takes(f, Len(ctx)) = 1 BY <1>4 DEF Takes
  <2>2. QED BY <1>5, <2>1 DEF Leaving
<1>a. op # "" BY <1>4, <1>5 DEF Leaving, FrameOk, Ruled
<1>8. Len(cg.vs) = h0 + 2 /\ Len(cg.vs) >= 2 /\ Len(cg.vs) - 2 = h0 /\ Len(cg.vs) - 1 = h0 + 1 /\ h0 <= Len(cg.vs)
      /\ Len(src.stack) >= 2 /\ Len(src.stack) - 2 = h0
  BY <1>3, <1>6, <1>7
<1>9. Calm(cg, 2)
  <2> DEFINE k == 2
  <2>1. k \in Nat /\ Len(cg.vs) - k = h0 BY <1>8
  <2> HIDE DEF k
  <2>2. cg.nocode # 0 => d <= Len(cg.vs) - k BY <1>3, <1>6, <2>1
  <2>3. Calm(cg, k) BY <1>3, <2>1, <2>2, IdleCalm
  <2>4. QED BY <2>3 DEF k
<1> HIDE DEF op
<1>10. Good(u, R, d) /\ Len(u.vs) = h0 + 1 /\ Kept(cg, u, h0) /\ vtop(u).t = {}
  <2>1. Good(u, R, d) /\ Len(u.vs) = Len(cg.vs) - 1 /\ Kept(cg, u, Len(cg.vs) - 2) /\ vtop(u).t = {}
    BY <1>3, <1>a, <1>8, <1>9, Op
  <2> HIDE DEF u
  <2>2. QED BY <1>8, <2>1
<1>11. PICK e : Over(src, w, h0, e)
  <2>1. \E e : Over(src, w, Len(src.stack) - 2, e) BY <1>3, <1>8, BinaryOver
  <2> HIDE DEF w
  <2>2. QED BY <1>8, <2>1
<1> HIDE DEF u, w
<1>12. u.nocode = v0 /\ \A i \in 1 .. h0 : cg.vs[i].t = {} => u.vs[i].t = {} BY <1>3, <1>6, <1>10 DEF Kept
<1>13. Stack(b, h0, v0, d, R, src.stack) BY <1>5, <1>6
<1>14. Ok(u, w, b, "after") BY <1>3, <1>8, <1>10, <1>11, <1>12, <1>13, CloseAfter
<1>15. QED BY <1>1, <1>14

\* vstore() after =,
LEMMA EndAssignOk == ASSUME Ok(cg, src, ctx, need), EndAssign PROVE Ok(cg', src', ctx', need')
<1> DEFINE f == Last(ctx)
           u == vstore(cg)
           w == SAssign(src)
           b == Front(ctx)
<1>1. cg' = u /\ src' = w /\ ctx' = b /\ need = "after" /\ need' = "after" /\ Top("assign") BY DEF EndAssign, Leave
<1>2. PICK h, v, d, R : OkAt(cg, src, ctx, "after", h, v, d, R) BY <1>1 DEF Ok
<1>3. /\ h \in Nat /\ v \in Nat /\ d \in Nat /\ IsList(ctx) /\ Len(cg.vs) = h + 1 /\ Len(src.stack) = h + 1 /\ IsState(cg)
      /\ IsSource(src) /\ Good(cg, R, d) /\ cg.nocode = v
      /\ Stack(ctx, h, v, d, R, src.stack) /\ Aligned(cg.vs, src.stack, Len(cg.vs))
  BY <1>2, AfterFacts
<1>4. Len(ctx) >= 1 /\ Len(ctx) \in Nat /\ f.k = "assign" BY <1>1, <1>3, TopFrame
<1>5. PICK h0, v0 : /\ Leaving(f, ctx, h, v, d, R, src.stack, h0, v0)
                    /\ Stack(b, h0, v0, d, R \ Own(f), src.stack)
  BY <1>3, <1>4, StackLeft
<1> HIDE DEF f, b
<1>6. R \ Own(f) = R /\ v = v0 /\ h0 \in Nat /\ (v0 # 0 => d <= h0) BY <1>4, <1>5, SimpleLeft DEF Simple
<1>7. h = h0 + 1 /\ src.stack[h0 + 1].kind # "bool"
  <2>1. Takes(f, Len(ctx)) = 1 BY <1>4 DEF Takes
  <2>2. QED BY <1>4, <1>5, <2>1 DEF Leaving, Below
<1>8. Len(cg.vs) = h0 + 2 /\ Len(cg.vs) >= 2 /\ Len(cg.vs) - 1 = h0 + 1 /\ h0 <= Len(cg.vs) /\ h0 + 1 \in 1 .. Len(cg.vs)
      /\ Len(src.stack) >= 2 /\ Len(src.stack) - 2 = h0 /\ h0 <= h0 + 1
  BY <1>3, <1>6, <1>7
<1>9. vtop1(cg).t = {} BY <1>3, <1>7, <1>8 DEF Aligned, vtop1
<1>10. Good(u, R, d) /\ Len(u.vs) = h0 + 1 /\ Kept(cg, u, h0) /\ vtop(u).t = {}
  <2>1. Single(cg, u, R, d) /\ vtop(u).t = {} BY <1>3, <1>8, <1>9, StoredBelow
  <2> HIDE DEF u
  <2>2. Good(u, R, d) /\ Len(u.vs) = h0 + 1 /\ Kept(cg, u, h0 + 1) BY <1>8, <2>1 DEF Single
  <2>3. Kept(cg, u, h0) BY <1>3, <1>6, <1>8, <2>2, KeptLess DEF Good
  <2>4. QED BY <2>1, <2>2, <2>3
<1>11. PICK e : Over(src, w, h0, e)
  <2>1. \E e : Over(src, w, Len(src.stack) - 2, e) BY <1>3, <1>8, AssignOver
  <2> HIDE DEF w
  <2>2. QED BY <1>8, <2>1
<1> HIDE DEF u, w
<1>12. u.nocode = v0 /\ \A i \in 1 .. h0 : cg.vs[i].t = {} => u.vs[i].t = {} BY <1>3, <1>6, <1>10 DEF Kept
<1>13. Stack(b, h0, v0, d, R, src.stack) BY <1>5, <1>6
<1>14. Ok(u, w, b, "after") BY <1>3, <1>8, <1>10, <1>11, <1>12, <1>13, CloseAfter
<1>15. QED BY <1>1, <1>14

\* vdup() before += and the like,
LEMMA OpAssignOk == ASSUME Ok(cg, src, ctx, need), OpAssign PROVE Ok(cg', src', ctx', need')
<1> DEFINE k == "opassign"
           op == "+"
           f == Frame(k, op)
           e == STop(src)
           u == vdup(cg)
           w == SPush(src, e)
           b == Append(ctx, f)
           nd == "operand"
<1>1. cg' = u /\ src' = w /\ ctx' = b /\ need = "after" /\ need' = nd /\ e.kind # "bool" BY DEF OpAssign, Enter
<1>2. k \in Simple \ {"call"} /\ op # "" BY DEF Simple
<1>3. f.k = k BY NewFrame DEF Fresh
<1> HIDE DEF k, op
<1>4. FrameOk(f) /\ Own(f) = {} /\ Falls(f) = 0 BY <1>2, SimpleFrame
<1> HIDE DEF f
<1>5. PICK h, v, d, R : OkAt(cg, src, ctx, "after", h, v, d, R) BY <1>1 DEF Ok
<1>6. /\ h \in Nat /\ v \in Nat /\ d \in Nat /\ IsList(ctx) /\ Len(cg.vs) = h + 1 /\ Len(src.stack) = h + 1 /\ IsState(cg)
      /\ IsSource(src) /\ Good(cg, R, d) /\ cg.nocode = v /\ Len(cg.vs) >= 1
      /\ Stack(ctx, h, v, d, R, src.stack) /\ Aligned(cg.vs, src.stack, Len(cg.vs))
  BY <1>5, AfterFacts
<1>7. e = src.stack[h + 1] /\ vtop(cg).t = {} /\ vtop(cg) = cg.vs[h + 1] BY <1>1, <1>5, AfterCalm
<1>8. /\ Below(f, h, src.stack) /\ f.k \notin {"expr", "if", "then", "else"} /\ Takes(f, Len(ctx) + 1) = 2
  BY <1>1, <1>3, <1>7 DEF Below, Takes, k
<1>9. Entering(f, ctx, h, v, d, R, src.stack, d) BY <1>4, <1>6, <1>8 DEF Entering
<1>10. Stack(b, h + 2, v, d, R, src.stack)
  <2>1. Stack(b, h + Takes(f, Len(ctx) + 1), v + Falls(f), d, R \cup Own(f), src.stack) BY <1>6, <1>9, StackEntered
  <2>2. h + Takes(f, Len(ctx) + 1) = h + 2 /\ v + Falls(f) = v /\ R \cup Own(f) = R BY <1>4, <1>6, <1>8
  <2> HIDE DEF b
  <2>3. QED BY <2>1, <2>2
<1> HIDE DEF e
<1>11. Over(src, w, h + 1, e) BY <1>6, SPushed
<1> HIDE DEF w, b
<1>12. \A i \in 1 .. h : i \in 1 .. h + 1 BY <1>6
<1>13. Stack(b, h + 2, v, d, R, w.stack)
  <2>1. \A i \in 1 .. h + 2 : i = h + 2 \/ i \in 1 .. h + 1 BY <1>6
  <2> DEFINE old == src.stack
  <2>2. \A i \in 1 .. h + 1 : w.stack[i] = old[i] BY <1>11 DEF Over
  <2>3. Below(f, h, w.stack) BY <1>6, <1>8, <1>11 DEF Below, Over
  <2>4. \A i \in 1 .. h : w.stack[i] = old[i] BY <1>12, <2>2
  <2>5. Stack(ctx, h, v, d, R, w.stack) BY <1>6, <2>4, StackOther
  <2>6. Entering(f, ctx, h, v, d, R, w.stack, d) BY <1>9, <2>3 DEF Entering
  <2> DEFINE new == w.stack
  <2>7. Stack(ctx, h, v, d, R, new) /\ Entering(f, ctx, h, v, d, R, new, d) BY <2>5, <2>6
  <2> HIDE DEF new
  <2>8. Stack(Append(ctx, f), h + Takes(f, Len(ctx) + 1), v + Falls(f), d, R \cup Own(f), new) BY <2>7, StackEntered
  <2>9. h + Takes(f, Len(ctx) + 1) = h + 2 /\ v + Falls(f) = v /\ R \cup Own(f) = R BY <1>4, <1>6, <1>8
  <2>10. QED BY <2>8, <2>9 DEF b, new
<1>14. Good(u, R, d) /\ Kept(cg, u, h + 1) /\ Len(u.vs) = h + 2 /\ vtop(u).t = {}
  <2>1. Good(u, R, d) /\ Kept(cg, u, Len(cg.vs)) /\ Len(u.vs) = Len(cg.vs) + 1 /\ vtop(u).t = {}
    BY <1>6, <1>7, Duplicated
  <2> HIDE DEF u
  <2>2. h + 1 + 1 = h + 2 BY <1>6
  <2>3. QED BY <1>6, <2>1, <2>2
<1> HIDE DEF u
<1>15. Aligned(u.vs, w.stack, h + 2)
  <2>1. ASSUME NEW i \in 1 .. h + 2, w.stack[i].kind # "bool" PROVE u.vs[i].t = {}
    <3>1. CASE i = h + 2 BY <1>14, <3>1 DEF vtop
    <3>2. CASE i # h + 2
      <4>1. i \in 1 .. h + 1 BY <1>6, <3>2
      <4>2. src.stack[i].kind # "bool" BY <1>11, <2>1, <4>1 DEF Over
      <4>3. cg.vs[i].t = {} BY <1>6, <4>1, <4>2 DEF Aligned
      <4>4. QED BY <1>14, <4>1, <4>3 DEF Kept
    <3>3. QED BY <3>1, <3>2
  <2>2. QED BY <2>1 DEF Aligned
<1>16. Under(w, w, h + 2)
  <2>1. IsSource(w) /\ Len(w.stack) = h + 2 BY <1>6, <1>11 DEF Over
  <2>2. QED BY <2>1 DEF Under
<1>17. u.nocode = v BY <1>6, <1>14 DEF Kept
<1>18. More(b, nd) = 0 /\ (nd = "stmt" => Len(b) = 0 \/ Last(b).k = "block") BY DEF More
<1> DEFINE x == h + 2
<1>19. Stack(b, x, v, d, R, w.stack) /\ Under(w, w, x) /\ Len(u.vs) = x /\ Aligned(u.vs, w.stack, x)
  BY <1>13, <1>14, <1>15, <1>16
<1> HIDE DEF x, nd
<1>20. Ok(u, w, b, nd) BY <1>14, <1>17, <1>18, <1>19, CloseLow
<1>21. QED BY <1>1, <1>20

\* gen_op() and vstore() after it
LEMMA EndOpAssignOk == ASSUME Ok(cg, src, ctx, need), EndOpAssign PROVE Ok(cg', src', ctx', need')
<1> DEFINE f == Last(ctx)
           op == f.op
           a == gen_op(cg, op)
           u == vstore(a)
           q == SBinary(src, op)
           w == SAssign(q)
           b == Front(ctx)
<1>1. cg' = u /\ src' = w /\ ctx' = b /\ need = "after" /\ need' = "after" /\ Top("opassign") BY DEF EndOpAssign, Leave
<1>2. PICK h, v, d, R : OkAt(cg, src, ctx, "after", h, v, d, R) BY <1>1 DEF Ok
<1>3. /\ h \in Nat /\ v \in Nat /\ d \in Nat /\ IsList(ctx) /\ Len(cg.vs) = h + 1 /\ Len(src.stack) = h + 1 /\ IsState(cg)
      /\ IsSource(src) /\ Good(cg, R, d) /\ cg.nocode = v
      /\ Stack(ctx, h, v, d, R, src.stack) /\ Aligned(cg.vs, src.stack, Len(cg.vs))
  BY <1>2, AfterFacts
<1>4. Len(ctx) >= 1 /\ Len(ctx) \in Nat /\ f.k = "opassign" BY <1>1, <1>3, TopFrame
<1>5. PICK h0, v0 : /\ Leaving(f, ctx, h, v, d, R, src.stack, h0, v0)
                    /\ Stack(b, h0, v0, d, R \ Own(f), src.stack)
  BY <1>3, <1>4, StackLeft
<1> HIDE DEF f, b
<1>6. R \ Own(f) = R /\ v = v0 /\ h0 \in Nat /\ (v0 # 0 => d <= h0) BY <1>4, <1>5, SimpleLeft DEF Simple
<1>7. h = h0 + 2
  <2>1. Takes(f, Len(ctx)) = 2 BY <1>4 DEF Takes
  <2>2. QED BY <1>5, <2>1 DEF Leaving
<1>8. op # "" BY <1>4, <1>5 DEF Leaving, FrameOk, Ruled
<1>9. src.stack[h0 + 1].kind # "bool" BY <1>4, <1>5 DEF Leaving, Below
<1>10. /\ Len(cg.vs) = h0 + 3 /\ Len(cg.vs) >= 2 /\ Len(cg.vs) - 2 = h0 + 1 /\ Len(cg.vs) - 1 = h0 + 2 /\ h0 <= Len(cg.vs)
       /\ h0 + 1 \in 1 .. Len(cg.vs) /\ h0 + 1 \in 1 .. h0 + 1 /\ h0 <= h0 + 1 /\ d \in Nat /\ h0 + 2 >= 2 /\ h0 + 2 - 2 = h0
       /\ Len(src.stack) >= 2 /\ Len(src.stack) - 2 = h0 + 1 /\ h0 + 2 - 1 = h0 + 1 /\ (v0 # 0 => d <= h0 + 1)
       /\ h0 + 1 + 1 = h0 + 2
  BY <1>3, <1>6, <1>7
<1>11. Calm(cg, 2)
  <2> DEFINE k == 2
  <2>1. k \in Nat /\ Len(cg.vs) - k = h0 + 1 BY <1>10
  <2> HIDE DEF k
  <2>2. cg.nocode # 0 => d <= Len(cg.vs) - k BY <1>3, <1>6, <1>10, <2>1
  <2>3. Calm(cg, k) BY <1>3, <2>1, <2>2, IdleCalm
  <2>4. QED BY <2>3 DEF k
<1> HIDE DEF op
<1>12. Good(a, R, d) /\ Len(a.vs) = h0 + 2 /\ Kept(cg, a, h0 + 1) /\ vtop(a).t = {}
  <2>1. Good(a, R, d) /\ Len(a.vs) = Len(cg.vs) - 1 /\ Kept(cg, a, Len(cg.vs) - 2) /\ vtop(a).t = {}
    BY <1>3, <1>8, <1>10, <1>11, Op
  <2> HIDE DEF a
  <2>2. QED BY <1>10, <2>1
<1> HIDE DEF a
<1>13. vtop1(a).t = {}
  <2>1. cg.vs[h0 + 1].t = {} BY <1>3, <1>9, <1>10 DEF Aligned
  <2>2. a.vs[h0 + 1].t = {} BY <1>10, <1>12, <2>1 DEF Kept
  <2>3. QED BY <1>10, <1>12, <2>2 DEF vtop1
<1>14. Good(u, R, d) /\ Len(u.vs) = h0 + 1 /\ Kept(a, u, h0 + 1) /\ vtop(u).t = {}
  <2>1. Single(a, u, R, d) /\ vtop(u).t = {} BY <1>10, <1>12, <1>13, StoredBelow
  <2> HIDE DEF u
  <2>2. QED BY <1>10, <1>12, <2>1 DEF Single
<1>15. PICK e1 : Over(src, q, h0 + 1, e1)
  <2>1. \E e1 : Over(src, q, Len(src.stack) - 2, e1) BY <1>3, <1>10, BinaryOver
  <2> HIDE DEF q
  <2>2. QED BY <1>10, <2>1
<1> HIDE DEF q
<1>16. IsSource(q) /\ Len(q.stack) = h0 + 2 /\ \A i \in 1 .. h0 + 1 : q.stack[i] = src.stack[i] BY <1>10, <1>15 DEF Over
<1>17. PICK e : Over(q, w, h0, e)
  <2>0. Len(q.stack) = h0 + 2 BY <1>16
  <2>1. Len(q.stack) >= 2 /\ Len(q.stack) - 2 = h0 BY ONLY <1>6, <2>0
  <2>2. \E e : Over(q, w, Len(q.stack) - 2, e) BY <1>16, <2>1, AssignOver
  <2> HIDE DEF w
  <2>3. QED BY <2>1, <2>2
<1> HIDE DEF u, w
<1>18. Over(src, w, h0, e)
  <2>1. \A i \in 1 .. h0 : i \in 1 .. h0 + 1 BY <1>6
  <2>2. QED BY <1>16, <1>17, <2>1 DEF Over
<1>19. Kept(cg, u, h0 + 1) BY <1>12, <1>14, KeptTwice
<1>20. u.nocode = v0 /\ \A i \in 1 .. h0 : cg.vs[i].t = {} => u.vs[i].t = {}
  <2>1. \A i \in 1 .. h0 : i \in 1 .. h0 + 1 BY <1>6
  <2>2. QED BY <1>3, <1>6, <1>19, <2>1 DEF Kept
<1>21. Stack(b, h0, v0, d, R, src.stack) BY <1>5, <1>6
<1>22. Ok(u, w, b, "after") BY <1>3, <1>10, <1>14, <1>18, <1>20, <1>21, CloseAfter
<1>23. QED BY <1>1, <1>22

-----------------------------------------------------------------------------
(* Calls                                                                   *)

\* A call leaves its result in the place of the function.
LEMMA CallDone ==
    ASSUME NEW g, NEW R, NEW d \in Nat, Good(g, R, d), NEW n \in Nat, NEW m \in Nat, Len(g.vs) = m + 1 + n,
           g.nocode # 0 => d <= m + 1, g.vs[m + 1].t = {}, NEW onstack, NEW wide
    PROVE  LET u == vsetc(gfunc_call(g, n, onstack, wide), InReg(REG_IRET))
           IN  Good(u, R, d) /\ Len(u.vs) = m + 1 /\ Kept(g, u, m) /\ vtop(u).t = {}
<1> DEFINE a == gfunc_call(g, n, onstack, wide)
           x == InReg(REG_IRET)
           u == vsetc(a, x)
<1>1. Len(g.vs) > n /\ Len(g.vs) - n = m + 1 /\ m + 1 - 1 = m OBVIOUS
<1>2. Good(a, R, d) /\ Len(a.vs) = m /\ Kept(g, a, m)
  <2>1. g.nocode # 0 => d <= Len(g.vs) - n BY <1>1
  <2>2. g.vs[Len(g.vs) - n].t = {} BY <1>1
  <2>3. Good(a, R, d) /\ Len(a.vs) = Len(g.vs) - n - 1 /\ Kept(g, a, Len(g.vs) - n - 1) BY <1>1, <2>1, <2>2, FunctionCalled
  <2> HIDE DEF a
  <2>4. QED BY <1>1, <2>3
<1> HIDE DEF a
<1>3. IsEntry(x) /\ x.t = {} BY PlainEntry DEF InReg
<1> HIDE DEF x
<1>4. Good(u, R, d) /\ Kept(a, u, Len(a.vs)) /\ Len(u.vs) = Len(a.vs) + 1 /\ vtop(u) = x BY <1>2, <1>3, PutPlain
<1> HIDE DEF u
<1>5. Kept(g, u, m) BY <1>2, <1>4, KeptTwice
<1>6. QED BY <1>2, <1>3, <1>4, <1>5 DEF u, a, x

\* The arguments are popped with the function;
LEMMA SourceCut ==
    ASSUME NEW s, IsSource(s), NEW x, IsList(x), NEW y
    PROVE  LET u == [s EXCEPT !.stack = x, !.want = y] IN IsSource(u) /\ u.stack = x
<1> DEFINE a == [s EXCEPT !.stack = x]
           u == [s EXCEPT !.stack = x, !.want = y]
           w == [a EXCEPT !.want = y]
<1>1. u = w OBVIOUS
<1>2. IsSource(a) /\ a.stack = x BY SourceStack
<1> HIDE DEF a, u
<1>3. IsSource(w) /\ w.stack = a.stack BY <1>2, SourceWant
<1> HIDE DEF w
<1>4. IsSource(u) /\ u.stack = x BY <1>1, <1>2, <1>3
<1>5. QED BY <1>4 DEF u

\* the others are kept.
LEMMA CutList ==
    ASSUME NEW v, IsList(v), NEW m \in 0 .. Len(v)
    PROVE  LET a == SubSeq(v, 1, m) IN IsList(a) /\ Len(a) = m /\ \A i \in 1 .. m : a[i] = v[i]
<1> DEFINE S == {v[i] : i \in 1 .. Len(v)}
           a == SubSeq(v, 1, m)
<1>1. Len(v) \in Nat /\ m \in Nat /\ m <= Len(v) BY DEF IsList
<1>2. \A i \in 1 .. Len(v) : v[i] \in S OBVIOUS
<1> HIDE DEF S
<1>3. m \in Int /\ \A i \in 1 .. m : v[i] \in S BY <1>1, <1>2
<1>4. /\ a \in Seq(S) /\ Len(a) = IF 1 <= m THEN m - 1 + 1 ELSE 0
      /\ \A i \in 1 .. m - 1 + 1 : a[i] = v[1 + i - 1]
  BY <1>3, SubSeqProperties
<1>5. a \in Seq(S) /\ Len(a) = m /\ \A i \in 1 .. m : a[i] = v[i] BY <1>1, <1>4
<1> HIDE DEF a
<1>6. QED BY <1>5, SeqIsList DEF a

\* A call without arguments
LEMMA CallNoArgsOk == ASSUME Ok(cg, src, ctx, need), CallNoArgs PROVE Ok(cg', src', ctx', need')
<1> DEFINE e == Result(src, "val", LAMBDA k : Callee(<<>>))
           y == [k \in Paths |-> IF k \in src.act THEN <<>> ELSE src.want[k]]
           p == SPush(src, e)
           w == [p EXCEPT !.want = [k \in Paths |-> IF k \in src.act THEN <<>> ELSE @[k]]]
           x == FuncSym
           g == vsetc(cg, x)
           n == 0
           none == {}
           u == vsetc(gfunc_call(g, n, none, none), InReg(REG_IRET))
<1>1. cg' = u /\ src' = w /\ ctx' = ctx /\ need = "operand" /\ need' = "after" BY DEF CallNoArgs
<1>2. PICK h, v, d, R : OkAt(cg, src, ctx, "operand", h, v, d, R) BY <1>1 DEF Ok
<1>3. /\ h \in Nat /\ v \in Nat /\ d \in Nat /\ (v # 0 => d <= h) /\ Len(cg.vs) = h /\ Len(src.stack) = h /\ IsState(cg)
      /\ IsSource(src) /\ Good(cg, R, d) /\ cg.nocode = v
      /\ Stack(ctx, h, v, d, R, src.stack) /\ Aligned(cg.vs, src.stack, Len(cg.vs))
  BY <1>2, OperandFacts
<1>4. IsEntry(x) /\ x.t = {} BY PlainEntry DEF FuncSym
<1> HIDE DEF x
<1>5. Good(g, R, d) /\ Kept(cg, g, h) /\ Len(g.vs) = h + 1 /\ g.vs[h + 1].t = {} /\ g.nocode = v
  <2>1. Good(g, R, d) /\ Kept(cg, g, Len(cg.vs)) /\ Len(g.vs) = Len(cg.vs) + 1 /\ vtop(g) = x BY <1>3, <1>4, PutPlain
  <2> HIDE DEF g
  <2>2. QED BY <1>3, <1>4, <2>1 DEF Kept, vtop
<1> HIDE DEF g
<1>6. n \in Nat /\ Len(g.vs) = h + 1 + n /\ (g.nocode # 0 => d <= h + 1) BY <1>3, <1>5
<1> HIDE DEF n, none
<1>7. Good(u, R, d) /\ Len(u.vs) = h + 1 /\ Kept(g, u, h) /\ vtop(u).t = {} BY <1>3, <1>5, <1>6, CallDone
<1> HIDE DEF u, e
<1>8. Over(src, p, h, e) BY <1>3, SPushed
<1> HIDE DEF p
<1>9. Over(src, w, h, e)
  <2> DEFINE z == [k \in Paths |-> IF k \in src.act THEN <<>> ELSE p.want[k]]
  <2>1. w = [p EXCEPT !.want = z] OBVIOUS
  <2> HIDE DEF z, w
  <2>2. IsSource(w) /\ w.stack = p.stack BY <1>8, <2>1, SourceWant DEF Over
  <2>3. QED BY <1>8, <2>2 DEF Over
<1> HIDE DEF w
<1>10. Kept(cg, u, h) BY <1>5, <1>7, KeptTwice
<1>11. u.nocode = v /\ (\A i \in 1 .. h : cg.vs[i].t = {} => u.vs[i].t = {}) /\ h <= Len(cg.vs) BY <1>3, <1>10 DEF Kept
<1>12. Ok(u, w, ctx, "after") BY <1>3, <1>7, <1>9, <1>11, CloseAfter
<1>13. QED BY <1>1, <1>12

\* The frame of a call for n arguments
LEMMA CountedFrame ==
    ASSUME NEW f, IsFrame(f), NEW n \in Nat
    PROVE  LET g == [f EXCEPT !.n = n]
           IN  /\ IsFrame(g) /\ g.t = f.t /\ g.k = f.k /\ g.op = f.op /\ g.u = f.u /\ g.c = f.c /\ g.dead = f.dead
               /\ g.sv = f.sv /\ g.val = f.val /\ g.n = n /\ g.i = f.i
<1> DEFINE g == [f EXCEPT !.n = n]
<1>1. f = [k |-> f.k, op |-> f.op, t |-> f.t, u |-> f.u, c |-> f.c, dead |-> f.dead, sv |-> f.sv,
           val |-> f.val, act |-> f.act, n |-> f.n, i |-> f.i, wide |-> f.wide]
  BY DEF IsFrame
<1>2. g = [k |-> f.k, op |-> f.op, t |-> f.t, u |-> f.u, c |-> f.c, dead |-> f.dead, sv |-> f.sv,
           val |-> f.val, act |-> f.act, n |-> n, i |-> f.i, wide |-> f.wide]
  BY ONLY <1>1
<1> HIDE DEF g
<1>3. /\ g = [k |-> g.k, op |-> g.op, t |-> g.t, u |-> g.u, c |-> g.c, dead |-> g.dead, sv |-> g.sv,
              val |-> g.val, act |-> g.act, n |-> g.n, i |-> g.i, wide |-> g.wide]
      /\ g.t = f.t /\ g.k = f.k /\ g.op = f.op /\ g.u = f.u /\ g.c = f.c /\ g.dead = f.dead
      /\ g.sv = f.sv /\ g.val = f.val /\ g.n = n /\ g.i = f.i
  BY ONLY <1>2
<1>4. QED BY <1>3 DEF IsFrame, g

\* and for the next one
LEMMA NextFrame ==
    ASSUME NEW f, IsFrame(f), NEW wide
    PROVE  LET g == [f EXCEPT !.i = @ + 1, !.wide = wide]
           IN  /\ IsFrame(g) /\ g.t = f.t /\ g.k = f.k /\ g.op = f.op /\ g.u = f.u /\ g.c = f.c /\ g.dead = f.dead
               /\ g.sv = f.sv /\ g.val = f.val /\ g.n = f.n /\ g.i = f.i + 1
<1> DEFINE j == f.i + 1
           a == [f EXCEPT !.i = j]
           g == [a EXCEPT !.wide = wide]
<1>0. [f EXCEPT !.i = @ + 1, !.wide = wide] = g /\ j \in Nat /\ j = f.i + 1 BY DEF IsFrame
<1> HIDE DEF j
<1>1. f = [k |-> f.k, op |-> f.op, t |-> f.t, u |-> f.u, c |-> f.c, dead |-> f.dead, sv |-> f.sv,
           val |-> f.val, act |-> f.act, n |-> f.n, i |-> f.i, wide |-> f.wide]
  BY DEF IsFrame
<1>2. a = [k |-> f.k, op |-> f.op, t |-> f.t, u |-> f.u, c |-> f.c, dead |-> f.dead, sv |-> f.sv,
           val |-> f.val, act |-> f.act, n |-> f.n, i |-> j, wide |-> f.wide]
  BY ONLY <1>1
<1> HIDE DEF a
<1>3. g = [k |-> f.k, op |-> f.op, t |-> f.t, u |-> f.u, c |-> f.c, dead |-> f.dead, sv |-> f.sv,
           val |-> f.val, act |-> f.act, n |-> f.n, i |-> j, wide |-> wide]
  BY ONLY <1>2
<1> HIDE DEF g
<1>4. /\ g = [k |-> g.k, op |-> g.op, t |-> g.t, u |-> g.u, c |-> g.c, dead |-> g.dead, sv |-> g.sv,
              val |-> g.val, act |-> g.act, n |-> g.n, i |-> g.i, wide |-> g.wide]
      /\ g.t = f.t /\ g.k = f.k /\ g.op = f.op /\ g.u = f.u /\ g.c = f.c /\ g.dead = f.dead
      /\ g.sv = f.sv /\ g.val = f.val /\ g.n = f.n /\ g.i = j
  BY ONLY <1>3
<1>5. IsFrame(g) BY <1>0, <1>4 DEF IsFrame
<1>6. QED BY <1>0, <1>4, <1>5

\* It is in order.
LEMMA CallFrame ==
    ASSUME NEW n \in Nat, n >= 1
    PROVE  LET f == [Frame("call", "") EXCEPT !.n = n]
           IN  FrameOk(f) /\ Own(f) = {} /\ Falls(f) = 0 /\ f.k = "call" /\ f.i = 1
<1> DEFINE k == "call"
           op == ""
           a == Frame(k, op)
           f == [a EXCEPT !.n = n]
<1>1. Fresh(a, k, op) BY NewFrame
<1> HIDE DEF a, op
<1>2. /\ IsFrame(a) /\ a.k = k /\ a.t = {} /\ a.u = {} /\ a.sv.t = {} /\ a.i = 1 BY <1>1 DEF Fresh
<1> HIDE DEF k
<1>3. IsFrame(f) /\ f.t = a.t /\ f.k = a.k /\ f.u = a.u /\ f.sv = a.sv /\ f.n = n /\ f.i = a.i BY <1>2, CountedFrame
<1> HIDE DEF f
<1>4. f.t = {} /\ f.u = {} /\ f.sv.t = {} /\ f.k = "call" BY <1>2, <1>3 DEF k
<1>5. Own(f) = {} /\ Apart(f) BY <1>4 DEF Own, Apart
<1>6. Falls(f) = 0 BY <1>4 DEF Falls
<1>7. f.i \in 1 .. f.n /\ f.i = 1 BY <1>2, <1>3
<1>8. Ruled(f) BY <1>4, <1>7 DEF Ruled
<1>9. QED BY <1>3, <1>4, <1>5, <1>6, <1>7, <1>8 DEF FrameOk, f, a, k, op

\* A call begins,
LEMMA CallOk == ASSUME Ok(cg, src, ctx, need), lang \in Language, Call PROVE Ok(cg', src', ctx', need')
<1>1. PICK n \in 1 .. lang.args : Enter([Frame("call", "") EXCEPT !.n = n]) BY DEF Call
<1>2. n \in Nat /\ n >= 1
  <2>1. lang.args \in Nat BY DEF Language
  <2> DEFINE m == lang.args
  <2> HIDE DEF m
  <2>2. m \in Nat /\ n \in 1 .. m BY <2>1 DEF m
  <2>3. QED BY ONLY <2>2
<1> DEFINE f == [Frame("call", "") EXCEPT !.n = n]
           x == FuncSym
           e == Void(src)
           u == vsetc(cg, x)
           w == SPush(src, e)
<1>3. cg' = u /\ src' = w /\ ctx' = Append(ctx, f) /\ need = "operand" /\ need' = "operand" BY <1>1 DEF Call, Enter
<1>4. FrameOk(f) /\ Own(f) = {} /\ Falls(f) = 0 /\ f.k = "call" /\ f.i = 1 BY <1>2, CallFrame
<1> HIDE DEF f
<1>5. IsEntry(x) /\ x.t = {} BY PlainEntry DEF FuncSym
<1>6. e.kind = "void" BY DEF Void, Result, Value
<1> HIDE DEF x, e
<1>7. Ok(u, w, ctx, "after") BY <1>3, <1>5, OperandPushed
<1>8. STop(w) = e
  <2>1. IsSource(src)
    <3>1. PICK h, v, d, R : OkAt(cg, src, ctx, "operand", h, v, d, R) BY <1>3 DEF Ok
    <3>2. QED BY <3>1 DEF OkAt
  <2>2. Over(src, w, Len(src.stack), e) BY <2>1, SPushed
  <2>3. QED BY <2>2 DEF Over, STop, Last
<1> HIDE DEF u, w
<1>9. PICK h, v, d, R : OkAt(u, w, ctx, "after", h, v, d, R) BY <1>7 DEF Ok
<1>10. STop(w) = w.stack[h + 1] BY <1>9, AfterCalm
<1>11. Below(f, h, w.stack) /\ f.k \notin {"expr", "if", "then", "else"} /\ Takes(f, Len(ctx) + 1) = 1
  BY <1>4, <1>6, <1>8, <1>10 DEF Below, Takes
<1>12. Ok(u, w, Append(ctx, f), "operand") BY <1>4, <1>9, <1>11, SimpleEntered
<1>13. QED BY <1>3, <1>12

\* the next argument comes,
LEMMA NextArgOk == ASSUME Ok(cg, src, ctx, need), NextArg PROVE Ok(cg', src', ctx', need')
<1>1. PICK wide \in Wide(Last(ctx)) : Become([Last(ctx) EXCEPT !.i = @ + 1, !.wide = wide]) BY DEF NextArg
<1> DEFINE f == Last(ctx)
           b == Front(ctx)
           p == [f EXCEPT !.i = @ + 1, !.wide = wide]
<1>2. /\ cg' = cg /\ src' = src /\ ctx' = Append(b, p) /\ need = "after" /\ need' = "operand" /\ Top("call")
      /\ f.i < f.n
  BY <1>1 DEF NextArg, Become
<1>3. PICK h, v, d, R : OkAt(cg, src, ctx, "after", h, v, d, R) BY <1>2 DEF Ok
<1>4. /\ h \in Nat /\ v \in Nat /\ d \in Nat /\ IsList(ctx) /\ Len(cg.vs) = h + 1 /\ Len(src.stack) = h + 1 /\ IsState(cg)
      /\ IsSource(src) /\ Good(cg, R, d) /\ cg.nocode = v
      /\ Stack(ctx, h, v, d, R, src.stack) /\ Aligned(cg.vs, src.stack, Len(cg.vs))
  BY <1>3, AfterFacts
<1>5. Len(ctx) >= 1 /\ Len(ctx) \in Nat /\ f.k = "call" BY <1>2, <1>4, TopFrame
<1>6. PICK h0, v0 : /\ Leaving(f, ctx, h, v, d, R, src.stack, h0, v0)
                    /\ Stack(b, h0, v0, d, R \ Own(f), src.stack)
  BY <1>4, <1>5, StackLeft
<1> HIDE DEF f
<1>7. Own(f) = {} /\ R \ Own(f) = R /\ v = v0 /\ h0 \in Nat /\ v0 \in Nat BY <1>5, <1>6, SimpleLeft DEF Simple
<1>8. FrameOk(f) /\ Below(f, h0, src.stack) BY <1>6 DEF Leaving
<1>9. IsFrame(f) /\ f.t = {} /\ f.u = {} /\ f.sv.t = {} /\ f.i \in 1 .. f.n /\ f.n \in Nat /\ f.i \in Nat
  BY <1>5, <1>8 DEF FrameOk, Ruled, IsFrame
<1>10. h = h0 + f.i
  <2>1. Takes(f, Len(ctx)) = f.i BY <1>5 DEF Takes
  <2>2. QED BY <1>6, <2>1 DEF Leaving
<1>11. IsFrame(p) /\ p.t = f.t /\ p.k = f.k /\ p.u = f.u /\ p.sv = f.sv /\ p.n = f.n /\ p.i = f.i + 1
  BY <1>9, NextFrame
<1> HIDE DEF p
<1>12. FrameOk(p) /\ Own(p) = {} /\ Below(p, h0, src.stack) /\ Falls(p) = 0 /\ p.k = "call"
  <2>1. p.t = {} /\ p.u = {} /\ p.sv.t = {} /\ p.k = "call" BY <1>5, <1>9, <1>11
  <2>2. p.i \in 1 .. p.n BY <1>2, <1>9, <1>11
  <2>3. Own(p) = {} /\ Apart(p) BY <2>1 DEF Own, Apart
  <2>4. Ruled(p) BY <2>1, <2>2 DEF Ruled
  <2>5. Falls(p) = 0 BY <2>1 DEF Falls
  <2>6. Below(p, h0, src.stack) BY <1>8, <1>11 DEF Below
  <2>7. QED BY <1>11, <2>1, <2>3, <2>4, <2>5, <2>6 DEF FrameOk
<1> DEFINE tk == Takes(p, Len(b) + 1)
           x == h + 1
           c == Append(b, p)
           nd == "operand"
<1>13. h0 + tk = x
  <2>1. tk = f.i + 1 BY <1>11, <1>12 DEF Takes
  <2> HIDE DEF tk
  <2>2. QED BY <1>7, <1>9, <1>10, <2>1
<1> DEFINE y == h0 + tk
<1>14. Stack(b, h0, v0, d, R, src.stack) BY <1>6, <1>7
<1> HIDE DEF b
<1>15. Entering(p, b, h0, v0, d, R, src.stack, d) BY <1>4, <1>7, <1>12 DEF Entering
<1>16. Stack(c, y, v0 + Falls(p), d, R \cup Own(p), src.stack) BY <1>14, <1>15, StackEntered
<1> HIDE DEF c, tk, x, y
<1>17. v0 + Falls(p) = v /\ R \cup Own(p) = R /\ y = x BY <1>4, <1>7, <1>12, <1>13 DEF y
<1>18. Stack(c, x, v, d, R, src.stack) BY <1>16, <1>17
<1>19. Under(src, src, x) /\ Len(cg.vs) = x /\ Aligned(cg.vs, src.stack, x) BY <1>4 DEF Under, x
<1>20. More(c, nd) = 0 /\ (nd = "stmt" => Len(c) = 0 \/ Last(c).k = "block") BY DEF More
<1> HIDE DEF nd
<1>21. Ok(cg, src, c, nd) BY <1>4, <1>18, <1>19, <1>20, CloseLow
<1>22. QED BY <1>2, <1>21 DEF c, nd

\* and the function is called.
LEMMA EndCallOk == ASSUME Ok(cg, src, ctx, need), EndCall PROVE Ok(cg', src', ctx', need')
<1> DEFINE f == Last(ctx)
           b == Front(ctx)
           m == Len(src.stack) - f.n
           arg == [p \in 1 .. f.n |-> Rvalue(src, src.stack[m + p])]
           args == [k \in Paths |-> [p \in 1 .. f.n |-> arg[p][k]]]
           want == [k \in Paths |-> IF k \in src.act THEN args[k] ELSE src.want[k]]
           e == Result(src, "val", LAMBDA k : Callee(args[k]))
           cut == SubSeq(src.stack, 1, m - 1)
           rest == [src EXCEPT !.stack = cut, !.want = want]
           w == SPush(rest, Result(src, "val", LAMBDA k : Callee(args[k])))
<1>1. PICK wide \in Wide(f) :
          /\ cg' = vsetc(gfunc_call(cg, f.n, wide \cup {p \in 1 .. f.n : Rank((1 .. f.n) \ wide, p) > REGN}, wide), InReg(REG_IRET))
          /\ src' = w
  BY DEF EndCall
<1> DEFINE onstack == wide \cup {p \in 1 .. f.n : Rank((1 .. f.n) \ wide, p) > REGN}
           n == f.n
           u == vsetc(gfunc_call(cg, n, onstack, wide), InReg(REG_IRET))
<1>2. cg' = u /\ src' = w BY <1>1
<1>3. ctx' = b /\ need = "after" /\ need' = "after" /\ Top("call") /\ f.i = f.n BY DEF EndCall, Leave
<1>4. PICK h, v, d, R : OkAt(cg, src, ctx, "after", h, v, d, R) BY <1>3 DEF Ok
<1>5. /\ h \in Nat /\ v \in Nat /\ d \in Nat /\ IsList(ctx) /\ Len(cg.vs) = h + 1 /\ Len(src.stack) = h + 1 /\ IsState(cg)
      /\ IsSource(src) /\ Good(cg, R, d) /\ cg.nocode = v
      /\ Stack(ctx, h, v, d, R, src.stack) /\ Aligned(cg.vs, src.stack, Len(cg.vs))
  BY <1>4, AfterFacts
<1> HIDE DEF arg, args, want, onstack
<1>6. Len(ctx) >= 1 /\ Len(ctx) \in Nat /\ f.k = "call" BY <1>3, <1>5, TopFrame
<1>7. PICK h0, v0 : /\ Leaving(f, ctx, h, v, d, R, src.stack, h0, v0)
                    /\ Stack(b, h0, v0, d, R \ Own(f), src.stack)
  BY <1>5, <1>6, StackLeft
<1> HIDE DEF f, b, e
<1>8. R \ Own(f) = R /\ v = v0 /\ h0 \in Nat /\ v0 \in Nat /\ (v0 # 0 => d <= h0) BY <1>6, <1>7, SimpleLeft DEF Simple
<1>9. FrameOk(f) /\ Below(f, h0, src.stack) BY <1>7 DEF Leaving
<1>10. n \in Nat /\ n >= 1 /\ f.i \in Nat BY <1>3, <1>6, <1>9 DEF FrameOk, Ruled, IsFrame
<1>11. h = h0 + n
  <2>1. Takes(f, Len(ctx)) = f.i BY <1>6 DEF Takes
  <2>2. QED BY <1>3, <1>7, <2>1 DEF Leaving
<1>12. src.stack[h0 + 1].kind # "bool" BY <1>6, <1>9 DEF Below
<1>13. m = h0 + 1 BY <1>5, <1>8, <1>10, <1>11
<1> HIDE DEF m, n
<1>14. /\ Len(cg.vs) = h0 + 1 + n /\ h0 + 1 \in 1 .. Len(cg.vs) /\ h0 \in 0 .. Len(src.stack) /\ h0 <= Len(cg.vs)
       /\ m - 1 = h0
  BY <1>5, <1>8, <1>10, <1>11, <1>13
<1>15. cg.vs[h0 + 1].t = {} BY <1>5, <1>12, <1>14 DEF Aligned
<1>16. cg.nocode # 0 => d <= h0 + 1 BY <1>5, <1>8
<1>17. Good(u, R, d) /\ Len(u.vs) = h0 + 1 /\ Kept(cg, u, h0) /\ vtop(u).t = {}
  <2>1. Good(cg, R, d) /\ d \in Nat /\ Len(cg.vs) = h0 + 1 + n BY <1>5, <1>14
  <2> HIDE DEF cut, rest, w
  <2>2. QED BY ONLY <1>8, <1>10, <1>15, <1>16, <2>1, CallDone
<1>18. IsList(cut) /\ Len(cut) = h0 /\ \A i \in 1 .. h0 : cut[i] = src.stack[i]
  <2>1. IsList(src.stack) BY <1>5 DEF IsSource
  <2>2. cut = SubSeq(src.stack, 1, h0) BY <1>14
  <2> HIDE DEF cut
  <2>3. QED BY <1>14, <2>1, <2>2, CutList
<1> HIDE DEF cut, u
<1>19. IsSource(rest) /\ rest.stack = cut
  <2>1. IsSource(src) /\ IsList(cut) BY <1>5, <1>18
  <2> HIDE DEF w
  <2>2. QED BY ONLY <2>1, SourceCut
<1> HIDE DEF rest
<1>20. w = SPush(rest, e) BY DEF e
<1> HIDE DEF w
<1>21. Over(src, w, h0, e)
  <2>1. Over(rest, SPush(rest, e), Len(rest.stack), e) BY <1>19, SPushed
  <2>2. QED BY <1>18, <1>19, <1>20, <2>1 DEF Over
<1>22. u.nocode = v0 /\ \A i \in 1 .. h0 : cg.vs[i].t = {} => u.vs[i].t = {} BY <1>5, <1>8, <1>17 DEF Kept
<1>23. Stack(b, h0, v0, d, R, src.stack) BY <1>7, <1>8
<1>24. Ok(u, w, b, "after") BY <1>5, <1>14, <1>17, <1>21, <1>22, <1>23, CloseAfter
<1>25. QED BY <1>2, <1>3, <1>24

-----------------------------------------------------------------------------
(* && and ||                                                               *)

\* While code is generated, the mark does not matter.
LEMMA GoodAwake ==
    ASSUME NEW g, NEW R, NEW d, Good(g, R, d), g.nocode = 0, NEW e PROVE Good(g, R, e)
BY DEF Good, Idle

\* A frame of && or ||
LogicFrame(f) == IsFrame(f) /\ f.k = "logic" /\ f.u = {} /\ f.sv.t = {}

\* What it accounts for
LEMMA LogicFacts ==
    ASSUME NEW f, LogicFrame(f)
    PROVE  /\ FrameOk(f) /\ Own(f) = f.t /\ (\A h, st : Below(f, h, st)) /\ f.dead \in {TRUE, FALSE}
           /\ f.dead = TRUE => Falls(f) = 1 /\ \A i : Takes(f, i) = 1
           /\ f.dead = FALSE => Falls(f) = 0 /\ \A i : Takes(f, i) = 0
<1>1. IsFrame(f) /\ f.k = "logic" /\ f.u = {} /\ f.sv.t = {} BY DEF LogicFrame
<1>2. Own(f) = f.t /\ Apart(f) BY <1>1 DEF Own, Apart
<1>3. Ruled(f) BY <1>1 DEF Ruled
<1>4. f.dead \in {TRUE, FALSE} BY <1>1 DEF IsFrame
<1>5. f.dead = TRUE => Falls(f) = 1 /\ \A i : Takes(f, i) = 1 BY <1>1 DEF Falls, Takes
<1>6. f.dead = FALSE => Falls(f) = 0 /\ \A i : Takes(f, i) = 0 BY <1>1 DEF Falls, Takes
<1>7. \A h, st : Below(f, h, st) BY <1>1 DEF Below
<1>8. QED BY <1>1, <1>2, <1>3, <1>4, <1>5, <1>6, <1>7 DEF FrameOk

\* The frame f of && or || with the frames b below it, of which it is not yet part
Logical(f, b, h, v, d, R, st, h0, v0) ==
    /\ LogicFrame(f) /\ f.t \subseteq R /\ Stack(b, h0, v0, d, R \ f.t, st)
    /\ h0 \in Nat /\ v0 \in Nat /\ (v0 # 0 => d <= h0 /\ f.t = {})
    /\ f.dead = TRUE => h = h0 + 1 /\ v = v0 + 1
    /\ f.dead = FALSE => h = h0 /\ v = v0

\* The last frame, when it is one of && or ||,
LEMMA LogicLeft ==
    ASSUME NEW f, NEW c, NEW h, NEW v, NEW d, NEW R, NEW st, NEW h0, NEW v0, NEW b,
           Leaving(f, c, h, v, d, R, st, h0, v0), Stack(b, h0, v0, d, R \ Own(f), st), f.k = "logic"
    PROVE  Logical(f, b, h, v, d, R, st, h0, v0)
<1>1. /\ FrameOk(f) /\ h0 \in Nat /\ v0 \in Nat /\ h = h0 + Takes(f, Len(c)) /\ v = v0 + Falls(f)
      /\ (v0 # 0 => d <= h0 /\ Own(f) = {}) /\ Own(f) \subseteq R
  BY DEF Leaving
<1>2. LogicFrame(f) BY <1>1 DEF LogicFrame, FrameOk, Ruled
<1>3. /\ Own(f) = f.t
      /\ f.dead = TRUE => Falls(f) = 1 /\ Takes(f, Len(c)) = 1
      /\ f.dead = FALSE => Falls(f) = 0 /\ Takes(f, Len(c)) = 0
  BY <1>2, LogicFacts
<1> DEFINE tk == Takes(f, Len(c))
           fl == Falls(f)
<1>4. h = h0 + tk /\ v = v0 + fl /\ (f.dead = TRUE => fl = 1 /\ tk = 1) /\ (f.dead = FALSE => fl = 0 /\ tk = 0)
  BY <1>1, <1>3
<1> HIDE DEF tk, fl
<1>5. f.dead = TRUE => h = h0 + 1 /\ v = v0 + 1 BY <1>4
<1>6. f.dead = FALSE => h = h0 /\ v = v0 BY <1>1, <1>4
<1>7. QED BY <1>1, <1>2, <1>3, <1>5, <1>6 DEF Logical

\* or a new one
LEMMA LogicFresh ==
    ASSUME NEW c, NEW h, NEW v, NEW d, NEW R, NEW st, Stack(c, h, v, d, R, st), NEW op
    PROVE  Logical(Frame("logic", op), c, h, v, d, R, st, h, v)
<1> DEFINE k == "logic"
           f == Frame(k, op)
<1>1. Fresh(f, k, op) BY NewFrame
<1> HIDE DEF f
<1>2. IsFrame(f) /\ f.k = k /\ f.t = {} /\ f.u = {} /\ f.sv.t = {} /\ f.dead = FALSE BY <1>1 DEF Fresh
<1>3. LogicFrame(f) BY <1>2 DEF LogicFrame
<1>4. h \in Nat /\ v \in Nat /\ (v # 0 => d <= h) BY StackFacts
<1>5. f.t \subseteq R /\ R \ f.t = R BY <1>2
<1>6. Stack(c, h, v, d, R \ f.t, st) BY <1>5
<1>7. ~(f.dead = TRUE) BY <1>2
<1>8. Logical(f, c, h, v, d, R, st, h, v) BY <1>2, <1>3, <1>4, <1>5, <1>6, <1>7 DEF Logical
<1>9. QED BY <1>8 DEF f, k

\* The frame goes back to the others.
LEMMA LogicEntered ==
    ASSUME NEW b, NEW h0, NEW v0, NEW d, NEW R, NEW st, Stack(b, h0, v0, d, R, st), NEW f, LogicFrame(f),
           f.t \cap R = {}, NEW d2 \in Nat, v0 # 0 => f.t = {} /\ d2 = d, v0 = 0 /\ f.dead = TRUE => d2 <= h0 + 1
    PROVE  /\ f.dead = TRUE => Stack(Append(b, f), h0 + 1, v0 + 1, d2, R \cup f.t, st)
           /\ f.dead = FALSE => Stack(Append(b, f), h0, v0, d2, R \cup f.t, st)
<1> DEFINE c == Append(b, f)
           tk == Takes(f, Len(b) + 1)
           fl == Falls(f)
           h == h0 + tk
           v == v0 + fl
           S == R \cup f.t
<1>1. /\ FrameOk(f) /\ Own(f) = f.t /\ Below(f, h0, st) /\ f.dead \in {TRUE, FALSE}
      /\ f.dead = TRUE => fl = 1 /\ tk = 1
      /\ f.dead = FALSE => fl = 0 /\ tk = 0
  BY LogicFacts
<1>2. f.k \notin {"expr", "if", "then", "else"} BY DEF LogicFrame
<1>3. v0 = 0 /\ fl # 0 => d2 <= h0 + tk
  <2> HIDE DEF tk, fl
  <2>1. ASSUME v0 = 0, fl # 0 PROVE d2 <= h0 + tk
    <3>1. f.dead = TRUE BY <1>1, <2>1
    <3>2. d2 <= h0 + 1 /\ tk = 1 BY <1>1, <2>1, <3>1
    <3>3. QED BY <3>2
  <2>2. QED BY <2>1
<1>4. Entering(f, b, h0, v0, d, R, st, d2) BY <1>1, <1>2, <1>3 DEF Entering
<1>5. Stack(c, h, v, d2, R \cup Own(f), st) BY <1>4, StackEntered
<1>6. R \cup Own(f) = S BY <1>1
<1> HIDE DEF c, h, v, S
<1>7. Stack(c, h, v, d2, S, st) BY <1>5, <1>6
<1>8. h0 \in Nat /\ v0 \in Nat BY StackFacts
<1> HIDE DEF tk, fl
<1>9. (f.dead = TRUE => h = h0 + 1 /\ v = v0 + 1) /\ (f.dead = FALSE => h = h0 /\ v = v0) BY <1>1, <1>8 DEF h, v
<1>10. QED BY <1>7, <1>9 DEF c, S

\* The operand is popped,
LEMMA SourcePopped ==
    ASSUME NEW s, IsSource(s), Len(s.stack) >= 1, NEW x
    PROVE  Under(s, [SPop(s) EXCEPT !.act = x], Len(s.stack) - 1)
<1> DEFINE a == SPop(s)
           m == Len(s.stack) - 1
           u == [a EXCEPT !.act = x]
<1>1. Under(s, a, m) BY SPopped
<1> HIDE DEF a, m
<1>2. IsSource(u) /\ u.stack = a.stack BY <1>1, SourceAct DEF Under
<1> HIDE DEF u
<1>3. Under(s, u, m) BY <1>1, <1>2 DEF Under
<1>4. QED BY <1>3 DEF a, m, u

\* or the value of the expression pushed.
LEMMA SourcePushed ==
    ASSUME NEW s, IsSource(s), NEW e, NEW x
    PROVE  Over(s, [SPush(s, e) EXCEPT !.act = x], Len(s.stack), e)
<1> DEFINE a == SPush(s, e)
           m == Len(s.stack)
           u == [a EXCEPT !.act = x]
<1>1. Over(s, a, m, e) BY SPushed
<1> HIDE DEF a, m
<1>2. IsSource(u) /\ u.stack = a.stack BY <1>1, SourceAct DEF Over
<1> HIDE DEF u
<1>3. Over(s, u, m, e) BY <1>1, <1>2 DEF Over
<1>4. QED BY <1>3 DEF a, m, u

\* The operand is dropped or tested.
LEMMA LogicOpen ==
    ASSUME NEW g, NEW s, NEW c, NEW h, NEW v, NEW d, NEW R, OkAt(g, s, c, "after", h, v, d, R),
           NEW f, NEW b, NEW h0, NEW v0, Logical(f, b, h, v, d, R, s.stack, h0, v0), ~Stops(g, f)
    PROVE  LET p == LogicOperand(g, f)
               R1 == (R \ f.t) \cup p.f.t
           IN  /\ p.f.dead = f.dead /\ LogicFrame(p.f) /\ p.f.t \cap (R \ f.t) = {} /\ (v0 # 0 => p.f.t = {})
               /\ Good(p.s, R1, d) /\ Len(p.s.vs) = h /\ Kept(g, p.s, h)
<1> DEFINE p == LogicOperand(g, f)
           R0 == R \ f.t
<1>1. Good(g, R, d) /\ Len(g.vs) >= 1 /\ Len(g.vs) - 1 = h /\ h \in Nat /\ g.nocode = v BY AfterFacts
<1>2. Calm(g, 1) BY AfterCalm
<1>3. LogicFrame(f) /\ f.t \subseteq R /\ (v0 # 0 => f.t = {}) /\ v0 \in Nat BY DEF Logical
<1>4. IsFrame(f) BY <1>3 DEF LogicFrame
<1>5. PICK t : p.f = Chained(f, t) /\ Tests(g, R, d, f.t, [s |-> p.s, t |-> t]) BY <1>1, <1>2, <1>3, <1>4, OperandOpen
<1> HIDE DEF p
<1>6. /\ IsFrame(p.f) /\ p.f.t = t /\ p.f.k = f.k /\ p.f.u = f.u /\ p.f.dead = f.dead /\ p.f.sv = f.sv
  BY <1>4, <1>5, ChainedFrame
<1>7. LogicFrame(p.f) BY <1>3, <1>6 DEF LogicFrame
<1>8. /\ f.t \subseteq t /\ (t \ f.t) \cap R = {} /\ (g.nocode # 0 => t = f.t)
      /\ Good(p.s, R0 \cup t, d) /\ Len(p.s.vs) = Len(g.vs) - 1 /\ Kept(g, p.s, Len(g.vs) - 1)
  BY <1>5 DEF Tests
<1>9. Good(p.s, R0 \cup t, d) /\ Len(p.s.vs) = h /\ Kept(g, p.s, h) BY <1>1, <1>8
<1>10. t \cap R0 = {} BY <1>8
<1>11. v0 # 0 => t = {}
  <2>1. v0 # 0 => v # 0
    <3>1. f.dead \in {TRUE, FALSE} BY <1>3, LogicFacts
    <3>2. v = v0 \/ v = v0 + 1 BY <3>1 DEF Logical
    <3>3. QED BY <1>3, <3>2
  <2>2. QED BY <1>1, <1>3, <1>8, <2>1
<1>12. QED BY <1>6, <1>7, <1>9, <1>10, <1>11 DEF p

\* The operand decides the result.
Stopping(g, f, p, h, v, R, e) ==
    /\ f.dead = FALSE /\ p.f.dead = TRUE /\ LogicFrame(p.f) /\ p.f.t = f.t /\ e \in Nat
    /\ Good(p.s, R, e) /\ p.s.nocode = v + 1 /\ Len(p.s.vs) = h + 1 /\ vtop(p.s).t = {}
    /\ \A i \in 1 .. h + 1 : g.vs[i].t = {} => p.s.vs[i].t = {}
\* The mark after that
Bounds(e, h, v, d) == e = IF v = 0 THEN h + 1 ELSE d

\* It stays on the stack, and no code is generated for the others.
LEMMA LogicStops ==
    ASSUME NEW g, NEW s, NEW c, NEW h, NEW v, NEW d, NEW R, OkAt(g, s, c, "after", h, v, d, R),
           NEW f, NEW b, NEW h0, NEW v0, Logical(f, b, h, v, d, R, s.stack, h0, v0), Stops(g, f),
           NEW e, Bounds(e, h, v, d)
    PROVE  Stopping(g, f, LogicOperand(g, f), h, v, R, e)
<1> DEFINE p == LogicOperand(g, f)
<1>1. /\ Good(g, R, d) /\ Len(g.vs) >= 1 /\ Len(g.vs) = h + 1 /\ h \in Nat /\ d \in Nat /\ g.nocode = v
  BY AfterFacts
<1>2. e \in Nat /\ Limit(g, d, e) BY <1>1 DEF Limit, Bounds
<1>a. Stops(g, f) OBVIOUS
<1>b. Halted(g, f, p, R, e) BY ONLY <1>a, <1>1, <1>2, OperandStops
<1> HIDE DEF p
<1>3. /\ p.f = [f EXCEPT !.dead = TRUE] /\ Good(p.s, R, e) /\ p.s.nocode = g.nocode + 1
      /\ Len(p.s.vs) = Len(g.vs) /\ vtop(p.s).t = {}
      /\ \A i \in 1 .. Len(g.vs) : g.vs[i].t = {} => p.s.vs[i].t = {}
  BY <1>b DEF Halted
<1>4. LogicFrame(f) /\ IsFrame(f) BY DEF Logical, LogicFrame
<1>5. /\ IsFrame(p.f) /\ p.f.t = f.t /\ p.f.k = f.k /\ p.f.u = f.u /\ p.f.dead = TRUE /\ p.f.sv = f.sv
  BY <1>3, <1>4, DeadFrame
<1>6. LogicFrame(p.f) BY <1>4, <1>5 DEF LogicFrame
<1>7. f.dead = FALSE BY DEF Stops
<1>8. /\ Good(p.s, R, e) /\ p.s.nocode = v + 1 /\ Len(p.s.vs) = h + 1 /\ vtop(p.s).t = {}
      /\ \A i \in 1 .. h + 1 : g.vs[i].t = {} => p.s.vs[i].t = {}
  BY <1>1, <1>3
<1>9. QED BY <1>2, <1>5, <1>6, <1>7, <1>8 DEF p, Stopping

\* The next operand follows, and it will be evaluated,
LEMMA LogicGoesOn ==
    ASSUME NEW g, NEW s, NEW c, NEW h, NEW v, NEW d, NEW R, OkAt(g, s, c, "after", h, v, d, R),
           NEW f, NEW b, NEW h0, NEW v0, Logical(f, b, h, v, d, R, s.stack, h0, v0), ~Stops(g, f)
    PROVE  LET p == LogicOperand(g, f) IN Ok(p.s, SOperand(s, f, p.f), Append(b, p.f), "operand")
<1> DEFINE p == LogicOperand(g, f)
           R0 == R \ f.t
           R1 == R0 \cup p.f.t
           x == Undecided(s, f)
           w == [SPop(s) EXCEPT !.act = x]
           q == Append(b, p.f)
<1>1. /\ p.f.dead = f.dead /\ LogicFrame(p.f) /\ p.f.t \cap R0 = {} /\ (v0 # 0 => p.f.t = {})
      /\ Good(p.s, R1, d) /\ Len(p.s.vs) = h /\ Kept(g, p.s, h)
  BY LogicOpen
<1>2. /\ IsState(g) /\ Aligned(g.vs, s.stack, Len(g.vs)) /\ h <= Len(g.vs) /\ h \in Nat /\ d \in Nat /\ g.nocode = v
      /\ IsSource(s) /\ Len(s.stack) >= 1 /\ Len(s.stack) - 1 = h /\ (v # 0 => d <= h)
  BY AfterFacts
<1> HIDE DEF p, R0, x
<1>3. SOperand(s, f, p.f) = w
  <2>1. f.dead \in {TRUE, FALSE} BY LogicFacts DEF Logical
  <2>2. CASE f.dead = TRUE BY <2>2 DEF SOperand, x
  <2>3. CASE f.dead = FALSE
    <3>1. p.f.dead = FALSE BY <1>1, <2>3
    <3>2. QED BY <2>3, <3>1 DEF SOperand, x
  <2>4. QED BY <2>1, <2>2, <2>3
<1>4. Under(s, w, h)
  <2>1. Under(s, w, Len(s.stack) - 1) BY <1>2, SourcePopped
  <2> HIDE DEF w
  <2>2. QED BY <1>2, <2>1
<1> HIDE DEF w
<1>5. Stack(q, h, v, d, R1, s.stack)
  <2>1. Stack(b, h0, v0, d, R0, s.stack) /\ f.dead \in {TRUE, FALSE} BY LogicFacts DEF Logical, R0
  <2>2. /\ v0 \in Nat /\ h0 \in Nat
        /\ f.dead = TRUE => h = h0 + 1 /\ v = v0 + 1
        /\ f.dead = FALSE => h = h0 /\ v = v0
    BY DEF Logical
  <2>3. f.dead = TRUE => d <= h0 + 1 BY <1>2, <2>2
  <2>4. /\ p.f.dead = TRUE => Stack(q, h0 + 1, v0 + 1, d, R1, s.stack)
        /\ p.f.dead = FALSE => Stack(q, h0, v0, d, R1, s.stack)
    BY <1>1, <1>2, <2>1, <2>3, LogicEntered
  <2> HIDE DEF q, R1
  <2>5. QED BY <1>1, <2>1, <2>2, <2>4
<1> HIDE DEF q, R1
<1>6. p.s.nocode = v /\ \A i \in 1 .. h : g.vs[i].t = {} => p.s.vs[i].t = {} BY <1>1, <1>2 DEF Kept
<1>7. Ok(p.s, w, q, "operand") BY <1>1, <1>2, <1>4, <1>5, <1>6, CloseOperand
<1>8. QED BY <1>3, <1>7 DEF p, q

\* or not.
LEMMA LogicEnds ==
    ASSUME NEW g, NEW s, NEW c, NEW h, NEW v, NEW d, NEW R, OkAt(g, s, c, "after", h, v, d, R),
           NEW f, NEW b, NEW h0, NEW v0, Logical(f, b, h, v, d, R, s.stack, h0, v0), Stops(g, f)
    PROVE  LET p == LogicOperand(g, f) IN Ok(p.s, SOperand(s, f, p.f), Append(b, p.f), "operand")
<1> DEFINE p == LogicOperand(g, f)
           e == IF v = 0 THEN h + 1 ELSE d
           x == Undecided(s, f)
           y == Decided(f)
           w == [SPush(SPop(s), y) EXCEPT !.act = x]
           q == Append(b, p.f)
           m == h + 1
           R0 == R \ f.t
<1>0. OkAt(g, s, c, "after", h, v, d, R) /\ Logical(f, b, h, v, d, R, s.stack, h0, v0) /\ Stops(g, f)
      /\ Bounds(e, h, v, d)
  BY DEF Bounds
<1> HIDE DEF e
<1>1. /\ f.dead = FALSE /\ p.f.dead = TRUE /\ LogicFrame(p.f) /\ p.f.t = f.t /\ e \in Nat
      /\ Good(p.s, R, e) /\ p.s.nocode = v + 1 /\ Len(p.s.vs) = m /\ vtop(p.s).t = {}
      /\ \A i \in 1 .. m : g.vs[i].t = {} => p.s.vs[i].t = {}
  <2>1. Stopping(g, f, p, h, v, R, e) BY ONLY <1>0, LogicStops
  <2> HIDE DEF p
  <2>2. QED BY <2>1 DEF Stopping
<1>2. /\ IsState(g) /\ Aligned(g.vs, s.stack, Len(g.vs)) /\ h \in Nat /\ d \in Nat /\ Len(g.vs) = m
      /\ IsSource(s) /\ Len(s.stack) >= 1 /\ Len(s.stack) - 1 = h
  BY AfterFacts
<1>3. /\ v0 \in Nat /\ h0 \in Nat /\ h = h0 /\ v = v0 /\ f.t \subseteq R /\ (v0 # 0 => f.t = {})
      /\ Stack(b, h0, v0, d, R0, s.stack)
  BY <1>1 DEF Logical
<1> HIDE DEF p, x, y
<1>4. SOperand(s, f, p.f) = w BY <1>1 DEF SOperand, x, y
<1>5. Over(s, w, h, y)
  <2> DEFINE a == SPop(s)
             u == [SPush(a, y) EXCEPT !.act = x]
  <2>1. Under(s, a, Len(s.stack) - 1) BY <1>2, SPopped
  <2> HIDE DEF a, w
  <2>2. Under(s, a, h) /\ IsSource(a) /\ Len(a.stack) = h BY <1>2, <2>1 DEF Under
  <2>3. Over(a, u, Len(a.stack), y) BY <2>2, SourcePushed
  <2> HIDE DEF u
  <2>4. Over(s, u, h, y) BY <1>2, <2>2, <2>3, UnderOver
  <2>5. QED BY <2>4 DEF u, a, w
<1> HIDE DEF w
<1>6. \A i \in 1 .. h : w.stack[i] = s.stack[i] BY <1>5 DEF Over
<1>7. Stack(b, h0, v0, d, R0, w.stack) BY <1>3, <1>6, StackOther
<1>8. p.f.t \cap R0 = {} /\ R0 \cup p.f.t = R BY <1>1, <1>3
<1>9. Stack(q, m, v + 1, e, R, w.stack)
  <2>1. /\ v0 # 0 => p.f.t = {} /\ e = d
        /\ v0 = 0 /\ p.f.dead = TRUE => e <= h0 + 1
    <3>1. p.f.t = f.t /\ v0 \in Nat /\ h0 \in Nat /\ h = h0 /\ v = v0 /\ (v0 # 0 => f.t = {}) BY <1>1, <1>3
    <3>2. e = IF v = 0 THEN h + 1 ELSE d BY <1>0 DEF Bounds
    <3>3. v0 = 0 => e <= h0 + 1 BY ONLY <3>1, <3>2
    <3>4. v0 # 0 => p.f.t = {} /\ e = d BY ONLY <3>1, <3>2
    <3>5. QED BY ONLY <3>3, <3>4
  <2> HIDE DEF R0
  <2>2. p.f.dead = TRUE => Stack(q, h0 + 1, v0 + 1, e, R0 \cup p.f.t, w.stack)
    BY <1>1, <1>7, <1>8, <2>1, LogicEntered
  <2>3. QED BY <1>1, <1>3, <1>8, <2>2
<1> HIDE DEF q
<1>10. Under(w, w, m) /\ m \in Nat BY <1>2, <1>5 DEF Over, Under
<1> DEFINE nd == "operand"
<1>11. Aligned(p.s.vs, w.stack, m)
  <2>1. ASSUME NEW i \in 1 .. m, w.stack[i].kind # "bool" PROVE p.s.vs[i].t = {}
    <3>1. CASE i = m BY <1>1, <3>1 DEF vtop
    <3>2. CASE i # m
      <4>1. i \in 1 .. h BY <1>2, <3>2
      <4>2. g.vs[i].t = {} BY <1>2, <1>6, <2>1, <4>1 DEF Aligned
      <4>3. QED BY <1>1, <4>2
    <3>3. QED BY <3>1, <3>2
  <2>2. QED BY <2>1 DEF Aligned
<1>12. More(q, nd) = 0 /\ (nd = "stmt" => Len(q) = 0 \/ Last(q).k = "block") BY DEF More
<1> HIDE DEF nd, m
<1> DEFINE n == v + 1
<1>13. p.s.nocode = n /\ Stack(q, m, n, e, R, w.stack) BY <1>1, <1>9
<1> HIDE DEF n
<1>14. Ok(p.s, w, q, nd) BY <1>1, <1>10, <1>11, <1>12, <1>13, CloseLow
<1>15. QED BY <1>4, <1>14 DEF p, q, nd

\* An operand of && or ||
LEMMA LogicOk == ASSUME Ok(cg, src, ctx, need), Logic PROVE Ok(cg', src', ctx', need')
<1>1. PICK op \in {"&&", "||"} :
          LET more == Top("logic") /\ Last(ctx).op = op
              f == IF more THEN Last(ctx) ELSE Frame("logic", op)
          IN Read1(op) /\ Continue(f, more, LogicOperand(cg, f))
  BY DEF Logic
<1>2. need = "after" /\ need' = "operand" BY DEF Logic
<1>3. PICK h, v, d, R : OkAt(cg, src, ctx, "after", h, v, d, R) BY <1>2 DEF Ok
<1>4. IsList(ctx) /\ Stack(ctx, h, v, d, R, src.stack) BY <1>3, AfterFacts
<1>5. ASSUME NEW f, NEW b, NEW h0, NEW v0, Logical(f, b, h, v, d, R, src.stack, h0, v0),
             cg' = LogicOperand(cg, f).s, src' = SOperand(src, f, LogicOperand(cg, f).f),
             ctx' = Append(b, LogicOperand(cg, f).f)
      PROVE  Ok(cg', src', ctx', "operand")
  <2>1. Ok(LogicOperand(cg, f).s, SOperand(src, f, LogicOperand(cg, f).f), Append(b, LogicOperand(cg, f).f), "operand")
    <3>1. CASE Stops(cg, f) BY <1>3, <1>5, <3>1, LogicEnds
    <3>2. CASE ~Stops(cg, f) BY <1>3, <1>5, <3>2, LogicGoesOn
    <3>3. QED BY <3>1, <3>2
  <2>2. QED BY <1>5, <2>1
<1>6. CASE Top("logic") /\ Last(ctx).op = op
  <2> DEFINE f == Last(ctx)
             b == Front(ctx)
             p == LogicOperand(cg, f)
  <2>1. cg' = p.s /\ src' = SOperand(src, f, p.f) /\ ctx' = Append(b, p.f) BY <1>1, <1>6 DEF Continue, Become
  <2>2. Len(ctx) >= 1 /\ f.k = "logic" BY <1>4, <1>6, TopFrame
  <2>3. PICK h0, v0 : /\ Leaving(f, ctx, h, v, d, R, src.stack, h0, v0)
                      /\ Stack(b, h0, v0, d, R \ Own(f), src.stack)
    BY <1>4, <2>2, StackLeft
  <2> HIDE DEF f, b
  <2>4. Logical(f, b, h, v, d, R, src.stack, h0, v0) BY <2>2, <2>3, LogicLeft
  <2>5. Ok(cg', src', ctx', "operand") BY <1>5, <2>1, <2>4
  <2>6. QED BY <1>2, <2>5
<1>7. CASE ~(Top("logic") /\ Last(ctx).op = op)
  <2> DEFINE f == Frame("logic", op)
             p == LogicOperand(cg, f)
  <2>1. cg' = p.s /\ src' = SOperand(src, f, p.f) /\ ctx' = Append(ctx, p.f) BY <1>1, <1>7 DEF Continue, Enter
  <2>2. Logical(f, ctx, h, v, d, R, src.stack, h, v) BY <1>4, LogicFresh
  <2> HIDE DEF f
  <2>3. Ok(cg', src', ctx', "operand") BY <1>5, <2>1, <2>2
  <2>4. QED BY <1>2, <2>3
<1>8. QED BY <1>6, <1>7

\* What the program does with it
LEMMA SourceOperand ==
    ASSUME NEW s, IsSource(s), Len(s.stack) >= 1, NEW h \in Nat, Len(s.stack) = h + 1, NEW f, NEW p, LogicFrame(f), LogicFrame(p),
           f.dead = TRUE => p.dead = TRUE
    PROVE  LET w == SOperand(s, f, p)
           IN  IF p.dead = TRUE /\ f.dead = FALSE THEN \E y : Over(s, w, h, y) ELSE Under(s, w, h)
<1> DEFINE x == Undecided(s, f)
           y == Decided(f)
           w == SOperand(s, f, p)
           a == SPop(s)
<1>0. f.dead \in {TRUE, FALSE} /\ p.dead \in {TRUE, FALSE} BY LogicFacts
<1>1. Under(s, a, h)
  <2>1. Under(s, a, Len(s.stack) - 1) /\ Len(s.stack) - 1 = h BY SPopped
  <2> HIDE DEF a
  <2>2. QED BY <2>1
<1>2. CASE p.dead = TRUE /\ f.dead = FALSE
  <2> DEFINE u == [SPush(a, y) EXCEPT !.act = x]
  <2>1. w = u BY <1>2 DEF SOperand
  <2> HIDE DEF a, w
  <2>2. IsSource(a) /\ Len(a.stack) = h BY <1>1 DEF Under
  <2>3. Over(a, u, Len(a.stack), y) BY <2>2, SourcePushed
  <2> HIDE DEF u, y
  <2>4. Over(s, u, h, y) BY <1>1, <2>2, <2>3, UnderOver
  <2>5. Over(s, w, h, y) BY <2>1, <2>4
  <2>6. QED BY <1>2, <2>5 DEF w
<1>3. CASE ~(p.dead = TRUE /\ f.dead = FALSE)
  <2> DEFINE u == [a EXCEPT !.act = x]
  <2>1. w = u
    <3>1. CASE f.dead = TRUE BY <3>1 DEF SOperand
    <3>2. CASE f.dead = FALSE
      <4>1. p.dead = FALSE BY <1>0, <1>3, <3>2
      <4>2. QED BY <3>2, <4>1 DEF SOperand
    <3>3. QED BY <1>0, <3>1, <3>2
  <2> HIDE DEF w, x
  <2>2. IsSource(a) BY <1>1 DEF Under
  <2> HIDE DEF a
  <2>3. IsSource(u) /\ u.stack = a.stack BY <2>2, SourceAct
  <2> HIDE DEF u
  <2>4. Under(s, w, h) BY <1>1, <2>1, <2>3 DEF Under
  <2>5. QED BY <1>3, <2>4 DEF w
<1>4. QED BY <1>2, <1>3

\* The value of && is a truth value.
LEMMA LogicValue == ASSUME NEW f PROVE SLogic(f).kind = "bool"
BY DEF SLogic, Value

\* The last operand of && or ||
LEMMA EndLogicOk == ASSUME Ok(cg, src, ctx, need), EndLogic PROVE Ok(cg', src', ctx', need')
<1> DEFINE f == Last(ctx)
           p == LogicOperand(cg, f)
           b == Front(ctx)
           u == LogicEnd(p.s, p.f)
           last == SOperand(src, f, p.f)
           e == SLogic(f)
           a == IF p.f.dead THEN SPop(last) ELSE last
           w == [SPush(a, e) EXCEPT !.act = f.act]
           t == p.f.t
<1>1. cg' = u /\ src' = w /\ ctx' = b /\ need = "after" /\ need' = "after" /\ Top("logic") BY DEF EndLogic, Finish, Leave
<1>2. PICK h, v, d, R : OkAt(cg, src, ctx, "after", h, v, d, R) BY <1>1 DEF Ok
<1>3. /\ h \in Nat /\ v \in Nat /\ d \in Nat /\ IsList(ctx) /\ Len(cg.vs) = h + 1 /\ Len(src.stack) = h + 1 /\ IsState(cg)
      /\ IsSource(src) /\ Len(src.stack) >= 1 /\ Good(cg, R, d) /\ cg.nocode = v
      /\ Stack(ctx, h, v, d, R, src.stack) /\ Aligned(cg.vs, src.stack, Len(cg.vs))
  BY <1>2, AfterFacts
<1>4. Len(ctx) >= 1 /\ f.k = "logic" BY <1>1, <1>3, TopFrame
<1>5. PICK h0, v0 : /\ Leaving(f, ctx, h, v, d, R, src.stack, h0, v0)
                    /\ Stack(b, h0, v0, d, R \ Own(f), src.stack)
  BY <1>3, <1>4, StackLeft
<1>6. e.kind = "bool" BY LogicValue
<1> DEFINE x == f.act
<1> HIDE DEF f, b, e, x
<1>7. Logical(f, b, h, v, d, R, src.stack, h0, v0) BY <1>4, <1>5, LogicLeft
<1>8. /\ LogicFrame(f) /\ h0 \in Nat /\ v0 \in Nat /\ f.t \subseteq R /\ Stack(b, h0, v0, d, R \ f.t, src.stack)
      /\ (v0 # 0 => d <= h0 /\ f.t = {}) /\ f.dead \in {TRUE, FALSE}
      /\ f.dead = TRUE => h = h0 + 1 /\ v = v0 + 1
      /\ f.dead = FALSE => h = h0 /\ v = v0
  BY <1>7, LogicFacts DEF Logical
<1> HIDE DEF p
\* the code
<1>9. /\ LogicFrame(p.f) /\ (f.dead = TRUE => p.f.dead = TRUE) /\ Good(u, R \ f.t, d) /\ u.nocode = v0 /\ Len(u.vs) = h0 + 1
      /\ \A i \in 1 .. h0 : cg.vs[i].t = {} => u.vs[i].t = {}
  <2>1. CASE Stops(cg, f)
    <3> DEFINE y == IF v = 0 THEN h + 1 ELSE d
    <3>1. Bounds(y, h, v, d) BY DEF Bounds
    <3> HIDE DEF y
    <3>2. Stopping(cg, f, p, h, v, R, y) BY ONLY <1>2, <1>7, <2>1, <3>1, LogicStops DEF p
    <3>3. /\ f.dead = FALSE /\ p.f.dead = TRUE /\ LogicFrame(p.f) /\ t = f.t
          /\ Good(p.s, R, y) /\ p.s.nocode = v + 1 /\ Len(p.s.vs) = h + 1
          /\ \A i \in 1 .. h + 1 : cg.vs[i].t = {} => p.s.vs[i].t = {}
      BY <3>2 DEF Stopping
    <3>4. Good(u, R \ t, y) /\ u.vs = p.s.vs /\ u.nocode = p.s.nocode - 1
      <4> DEFINE s == p.s
                 z == p.f
      <4>1. Good(s, R, y) /\ s.nocode # 0 /\ z.dead = TRUE /\ z.t \subseteq R BY <1>3, <1>8, <3>3
      <4> HIDE DEF s, z
      <4>2. Good(LogicEnd(s, z), R \ z.t, y) /\ LogicEnd(s, z).vs = s.vs /\ LogicEnd(s, z).nocode = s.nocode - 1
        BY ONLY <4>1, EndDead
      <4>3. QED BY <4>2 DEF s, z
    <3> HIDE DEF u, t
    <3>5. v = v0 /\ h = h0 /\ u.nocode = v0 /\ Len(u.vs) = h0 + 1 BY <1>3, <1>8, <3>3, <3>4
    <3>6. Good(u, R \ f.t, y) BY <3>3, <3>4
    <3>7. Good(u, R \ f.t, d)
      <4>1. CASE v = 0 BY <3>5, <3>6, <4>1, GoodAwake
      <4>2. CASE v # 0
        <5>1. y = d BY <3>1, <4>2 DEF Bounds
        <5>2. QED BY <3>6, <5>1
      <4>3. QED BY <4>1, <4>2
    <3>8. \A i \in 1 .. h0 : i \in 1 .. h + 1 BY <1>8, <3>5
    <3>9. QED BY <1>8, <3>3, <3>4, <3>5, <3>7, <3>8
  <2>2. CASE ~Stops(cg, f)
    <3> DEFINE B == R \ f.t
               R1 == B \cup t
    <3>1. /\ p.f.dead = f.dead /\ LogicFrame(p.f) /\ t \cap B = {} /\ (v0 # 0 => t = {})
          /\ Good(p.s, R1, d) /\ Len(p.s.vs) = h /\ Kept(cg, p.s, h)
      BY <1>2, <1>7, <2>2, LogicOpen DEF p
    <3>2. R1 \ t = B /\ t \subseteq R1 BY <3>1
    <3>3. p.s.nocode = v /\ \A i \in 1 .. h : cg.vs[i].t = {} => p.s.vs[i].t = {} BY <1>3, <3>1 DEF Kept
    <3> HIDE DEF R1, B
    <3>4. CASE f.dead = TRUE
      <4>1. h = h0 + 1 /\ v = v0 + 1 BY <1>8, <3>4
      <4>2. Good(u, R1 \ t, d) /\ u.vs = p.s.vs /\ u.nocode = p.s.nocode - 1
        <5> DEFINE s == p.s
                   z == p.f
        <5>1. s.nocode # 0 BY <1>8, <3>3, <4>1
        <5>2. Good(s, R1, d) /\ z.dead = TRUE /\ z.t \subseteq R1 BY <3>1, <3>2, <3>4
        <5> HIDE DEF s, z
        <5>3. Good(LogicEnd(s, z), R1 \ z.t, d) /\ LogicEnd(s, z).vs = s.vs /\ LogicEnd(s, z).nocode = s.nocode - 1
          BY ONLY <5>1, <5>2, EndDead
        <5>4. QED BY <5>3 DEF s, z
      <4> HIDE DEF u, t
      <4>3. Good(u, B, d) BY <3>2, <4>2
      <4>4. u.nocode = v0 BY <1>8, <3>3, <4>1, <4>2
      <4>5. Len(u.vs) = h0 + 1 BY <3>1, <4>1, <4>2
      <4>6. \A i \in 1 .. h0 : i \in 1 .. h BY <1>8, <4>1
      <4>7. QED BY <3>1, <3>3, <4>2, <4>3, <4>4, <4>5, <4>6 DEF B
    <3>5. CASE f.dead = FALSE
      <4>1. h = h0 /\ v = v0 BY <1>8, <3>5
      <4>2. Good(u, R1 \ t, d) /\ Kept(p.s, u, Len(p.s.vs)) /\ Len(u.vs) = Len(p.s.vs) + 1
        <5> DEFINE s == p.s
                   z == p.f
        <5>1. s.nocode # 0 => z.t = {} BY <3>1, <3>3, <4>1
        <5>2. Good(s, R1, d) /\ z.dead = FALSE /\ z.t \subseteq R1 BY <3>1, <3>2, <3>5
        <5> HIDE DEF s, z
        <5>3. Good(LogicEnd(s, z), R1 \ z.t, d) /\ Kept(s, LogicEnd(s, z), Len(s.vs)) /\ Len(LogicEnd(s, z).vs) = Len(s.vs) + 1
          BY ONLY <5>1, <5>2, EndOpen
        <5>4. QED BY <5>3 DEF s, z
      <4> HIDE DEF u, t
      <4>3. Good(u, B, d) BY <3>2, <4>2
      <4>4. u.nocode = v0 BY <3>3, <4>1, <4>2 DEF Kept
      <4>5. Len(u.vs) = h0 + 1 BY <3>1, <4>1, <4>2
      <4>6. \A i \in 1 .. h0 : cg.vs[i].t = {} => u.vs[i].t = {} BY <3>1, <3>3, <4>1, <4>2 DEF Kept
      <4>7. p.f.dead = FALSE BY <3>1, <3>5
      <4>8. QED BY <3>1, <3>5, <4>3, <4>4, <4>5, <4>6 DEF B
    <3>6. QED BY <1>8, <3>4, <3>5
  <2>3. QED BY <2>1, <2>2
<1>10. Under(src, a, h0)
  <2>1. /\ p.f.dead \in {TRUE, FALSE}
        /\ IF p.f.dead = TRUE /\ f.dead = FALSE THEN \E y : Over(src, last, h, y) ELSE Under(src, last, h)
    <3> DEFINE z == p.f
    <3>1. LogicFrame(z) /\ (f.dead = TRUE => z.dead = TRUE) BY <1>9
    <3> HIDE DEF z
    <3>2. z.dead \in {TRUE, FALSE} BY <3>1, LogicFacts
    <3>3. IF z.dead = TRUE /\ f.dead = FALSE THEN \E y : Over(src, SOperand(src, f, z), h, y) ELSE Under(src, SOperand(src, f, z), h)
      BY <1>3, <1>8, <3>1, SourceOperand
    <3>4. QED BY <3>2, <3>3 DEF z
  <2> HIDE DEF last
  <2>2. CASE p.f.dead = TRUE
    <3>1. a = SPop(last) BY <2>2
    <3>2. CASE f.dead = FALSE
      <4>1. PICK y : Over(src, last, h, y) BY <2>1, <2>2, <3>2
      <4>2. IsSource(last) /\ Len(last.stack) = h + 1 BY <4>1 DEF Over
      <4>3. Len(last.stack) >= 1 /\ Len(last.stack) - 1 = h BY <1>3, <4>2
      <4>4. Under(last, SPop(last), h)
        <5>1. Under(last, SPop(last), Len(last.stack) - 1) BY <4>2, <4>3, SPopped
        <5>2. QED BY <4>3, <5>1
      <4>5. h = h0 BY <1>8, <3>2
      <4>6. QED BY <3>1, <4>1, <4>4, <4>5 DEF Under, Over
    <3>3. CASE f.dead = TRUE
      <4>1. Under(src, last, h) /\ h = h0 + 1 BY <1>8, <2>1, <3>3
      <4>2. IsSource(last) /\ Len(last.stack) = h0 + 1 BY <4>1 DEF Under
      <4>3. Len(last.stack) >= 1 /\ Len(last.stack) - 1 = h0 BY <1>8, <4>2
      <4>4. Under(last, SPop(last), h0)
        <5>1. Under(last, SPop(last), Len(last.stack) - 1) BY <4>2, <4>3, SPopped
        <5>2. QED BY <4>3, <5>1
      <4>5. h0 <= h BY <1>8, <4>1
      <4>6. Under(src, SPop(last), h0) BY <1>3, <1>8, <4>1, <4>4, <4>5, UnderTwice
      <4>7. QED BY <3>1, <4>6
    <3>4. QED BY <1>8, <3>2, <3>3
  <2>3. CASE p.f.dead = FALSE
    <3>1. a = last BY <2>3
    <3>2. f.dead = FALSE BY <1>8, <1>9, <2>3
    <3>3. Under(src, last, h) /\ h = h0 BY <1>8, <2>1, <2>3, <3>2
    <3>4. QED BY <3>1, <3>3
  <2>4. QED BY <2>1, <2>2, <2>3
<1> HIDE DEF a
<1>11. Over(src, w, h0, e)
  <2> DEFINE q == [SPush(a, e) EXCEPT !.act = x]
  <2>1. IsSource(a) /\ Len(a.stack) = h0 BY <1>10 DEF Under
  <2>2. Over(a, q, Len(a.stack), e) BY <2>1, SourcePushed
  <2>3. w = q BY DEF x
  <2> HIDE DEF q, w
  <2>4. Over(src, q, h0, e) BY <1>8, <1>10, <2>1, <2>2, UnderOver
  <2>5. QED BY <2>3, <2>4
<1> HIDE DEF u, w
<1>12. h0 <= Len(cg.vs)
  <2>1. h = h0 \/ h = h0 + 1 BY <1>8
  <2>2. QED BY <1>3, <1>8, <2>1
<1>13. Ok(u, w, b, "after") BY <1>3, <1>6, <1>8, <1>9, <1>11, <1>12, CloseAfter
<1>14. QED BY <1>1, <1>13

-----------------------------------------------------------------------------
(* Conditions                                                              *)

\* The frame of a condition that is known, or not
LEMMA ConditionFrame ==
    ASSUME NEW f, IsFrame(f), NEW x \in {-1, 0, 1}
    PROVE  LET g == [f EXCEPT !.c = x]
           IN  /\ IsFrame(g) /\ g.t = f.t /\ g.k = f.k /\ g.op = f.op /\ g.u = f.u /\ g.c = x /\ g.dead = f.dead
               /\ g.sv = f.sv /\ g.val = f.val /\ g.n = f.n /\ g.i = f.i
<1> DEFINE g == [f EXCEPT !.c = x]
<1>1. f = [k |-> f.k, op |-> f.op, t |-> f.t, u |-> f.u, c |-> f.c, dead |-> f.dead, sv |-> f.sv,
           val |-> f.val, act |-> f.act, n |-> f.n, i |-> f.i, wide |-> f.wide]
  BY DEF IsFrame
<1>2. g = [k |-> f.k, op |-> f.op, t |-> f.t, u |-> f.u, c |-> x, dead |-> f.dead, sv |-> f.sv,
           val |-> f.val, act |-> f.act, n |-> f.n, i |-> f.i, wide |-> f.wide]
  BY ONLY <1>1
<1> HIDE DEF g
<1>3. /\ g = [k |-> g.k, op |-> g.op, t |-> g.t, u |-> g.u, c |-> g.c, dead |-> g.dead, sv |-> g.sv,
              val |-> g.val, act |-> g.act, n |-> g.n, i |-> g.i, wide |-> g.wide]
      /\ g.t = f.t /\ g.k = f.k /\ g.op = f.op /\ g.u = f.u /\ g.c = x /\ g.dead = f.dead
      /\ g.sv = f.sv /\ g.val = f.val /\ g.n = f.n /\ g.i = f.i
  BY ONLY <1>2
<1>4. QED BY <1>3 DEF IsFrame, g

\* The frame of a condition, before its test is known
Testing(f, k, x) == IsFrame(f) /\ f.k = k /\ f.t = {} /\ f.u = {} /\ f.sv.t = {} /\ f.c = x

\* A new one
LEMMA TestFrame ==
    ASSUME NEW k, NEW op, NEW x \in {-1, 0, 1} PROVE Testing([Frame(k, op) EXCEPT !.c = x], k, x)
<1> DEFINE a == Frame(k, op)
           f == [a EXCEPT !.c = x]
<1>1. Fresh(a, k, op) BY NewFrame
<1> HIDE DEF a
<1>2. IsFrame(a) /\ a.k = k /\ a.t = {} /\ a.u = {} /\ a.sv.t = {} BY ONLY <1>1 DEF Fresh
<1>3. IsFrame(f) /\ f.t = a.t /\ f.k = a.k /\ f.u = a.u /\ f.c = x /\ f.sv = a.sv BY <1>2, ConditionFrame
<1> HIDE DEF f
<1>4. Testing(f, k, x) BY <1>2, <1>3 DEF Testing
<1>5. QED BY <1>4 DEF f, a

\* The frame of a condition with its chain
Guarding(f, k, x, t) == FrameOk(f) /\ f.k = k /\ f.t = t /\ f.c = x /\ Own(f) = t /\ \A h, st : Below(f, h, st)

\* (it is in order)
LEMMA TestedFrame ==
    ASSUME NEW k \in {"cond1", "then"}, NEW x, NEW f, Testing(f, k, x), NEW t, k = "cond1" /\ x # -1 => t = {}
    PROVE  Guarding([f EXCEPT !.t = t], k, x, t)
<1> DEFINE g == Chained(f, t)
<1>1. IsFrame(f) /\ f.k = k /\ f.u = {} /\ f.sv.t = {} /\ f.c = x BY DEF Testing
<1>2. IsFrame(g) /\ g.t = t /\ g.k = f.k /\ g.u = f.u /\ g.c = f.c /\ g.sv = f.sv BY <1>1, ChainedFrame
<1> HIDE DEF g
<1>3. g.k = k /\ g.u = {} /\ g.sv.t = {} /\ g.c = x /\ g.t = t BY <1>1, <1>2
<1>4. Own(g) = t /\ Apart(g) BY <1>3 DEF Own, Apart
<1>5. Ruled(g) BY <1>3 DEF Ruled
<1>6. \A h, st : Below(g, h, st) BY <1>3 DEF Below
<1>7. Guarding(g, k, x, t) BY <1>2, <1>3, <1>4, <1>5, <1>6 DEF Guarding, FrameOk
<1>8. QED BY <1>7 DEF g, Chained

\* It comes after the other frames.
LEMMA TestedEntered ==
    ASSUME NEW b, NEW h0, NEW v, NEW d, NEW R, NEW st, Stack(b, h0, v, d, R, st),
           NEW k \in {"cond1", "then"}, NEW x, NEW t, NEW f, Guarding(f, k, x, t), t \cap R = {}, v # 0 => t = {},
           NEW h, h = IF k = "then" /\ Len(b) + 1 > 1 THEN h0 + 1 ELSE h0,
           k = "then" => Len(b) = 0 \/ Last(b).k = "block",
           NEW e \in Nat, v # 0 => e = d, v = 0 /\ x = 0 => e <= h
    PROVE  Stack(Append(b, f), h, IF x = 0 THEN v + 1 ELSE v, e, R \cup t, st)
<1> DEFINE c == Append(b, f)
           n == Len(b) + 1
           tk == Takes(f, n)
           fl == Falls(f)
           y == IF x = 0 THEN v + 1 ELSE v
           h1 == h0 + tk
           v1 == v + fl
<1>1. FrameOk(f) /\ f.k = k /\ f.t = t /\ f.c = x /\ Own(f) = t /\ Below(f, h0, st) BY DEF Guarding
<1>2. h0 \in Nat /\ v \in Nat BY StackFacts
<1>3. tk = IF k = "then" /\ n > 1 THEN 1 ELSE 0
  <2> HIDE DEF n
  <2>1. QED BY <1>1 DEF Takes
<1>4. fl = IF x = 0 THEN 1 ELSE 0 BY <1>1 DEF Falls
<1>5. h0 + tk = h
  <2> HIDE DEF tk
  <2>1. QED BY <1>2, <1>3
<1>6. v + fl = y
  <2> HIDE DEF fl
  <2>1. QED BY <1>2, <1>4
<1>7. v = 0 /\ fl # 0 => e <= h0 + tk
  <2> HIDE DEF tk, fl
  <2>1. QED BY <1>4, <1>5
<1>8. Entering(f, b, h0, v, d, R, st, e)
  <2> HIDE DEF fl, n
  <2>1. f.k \in {"expr", "if", "then", "else"} => Len(b) = 0 \/ Last(b).k = "block" BY <1>1
  <2>2. QED BY <1>1, <1>7, <2>1 DEF Entering, fl, n
<1>9. Stack(c, h1, v1, e, R \cup Own(f), st) BY <1>8, StackEntered
<1>10. h1 = h /\ v1 = y BY <1>5, <1>6
<1> HIDE DEF c, h1, v1, y
<1>11. Stack(c, h, y, e, R \cup t, st) BY <1>1, <1>9, <1>10
<1>12. QED BY <1>11 DEF c, y

\* The frame k comes after the frames b; q is its test.
Outside(b, h0, h, k) ==
    /\ h = IF k = "then" /\ Len(b) + 1 > 1 THEN h0 + 1 ELSE h0
    /\ k = "then" => Len(b) = 0 \/ Last(b).k = "block"
\* A condition that is known leaves no jumps.
Known(k, x, q) == k = "cond1" /\ x # -1 => q.t = {}
\* The state after the condition: u generates, w does, and a is parsed.
Follows(u, w, a, q, s, b, f, x, act) ==
    /\ u = IF x = 0 THEN [q.s EXCEPT !.nocode = @ + 1] ELSE q.s
    /\ w = [SPop(s) EXCEPT !.act = act]
    /\ a = Append(b, [f EXCEPT !.t = q.t])

\* The first statement of an if and the first value of ?: are parsed next.
LEMMA GuardedOk ==
    ASSUME NEW g, NEW s, NEW c, NEW h, NEW v, NEW d, NEW R, OkAt(g, s, c, "after", h, v, d, R),
           NEW b, NEW h0, Stack(b, h0, v, d, R, s.stack),
           NEW k \in {"cond1", "then"}, NEW x, NEW f, Testing(f, k, x), NEW q, Tests(g, R, d, {}, q),
           Known(k, x, q), Outside(b, h0, h, k), NEW act,
           NEW u1, NEW w1, NEW a1, Follows(u1, w1, a1, q, s, b, f, x, act)
    PROVE  Ok(u1, w1, a1, "operand")
<1> DEFINE p == q.s
           u == IF x = 0 THEN [p EXCEPT !.nocode = @ + 1] ELSE p
           w == [SPop(s) EXCEPT !.act = act]
           t == q.t
           z == [f EXCEPT !.t = t]
           a == Append(b, z)
           e == IF x = 0 /\ v = 0 THEN h ELSE d
           y == IF x = 0 THEN v + 1 ELSE v
           S == R \cup t
<1>1. /\ IsState(g) /\ Aligned(g.vs, s.stack, Len(g.vs)) /\ h <= Len(g.vs) /\ h \in Nat /\ d \in Nat /\ g.nocode = v /\ v \in Nat
      /\ IsSource(s) /\ Len(s.stack) >= 1 /\ Len(s.stack) - 1 = h /\ (v # 0 => d <= h) /\ Len(g.vs) - 1 = h
  BY AfterFacts
<1>2. t \cap R = {} /\ (v # 0 => t = {}) /\ Good(p, S, d) /\ Len(p.vs) = h /\ Kept(g, p, h)
  <2>1. /\ (t \ {}) \cap R = {} /\ (g.nocode # 0 => t = {}) /\ Good(p, (R \ {}) \cup t, d)
        /\ Len(p.vs) = Len(g.vs) - 1 /\ Kept(g, p, Len(g.vs) - 1)
    BY DEF Tests
  <2>2. t \ {} = t /\ R \ {} = R OBVIOUS
  <2> HIDE DEF p, t
  <2>3. QED BY <1>1, <2>1, <2>2
<1> HIDE DEF p, t
<1>3. p.nocode = v /\ \A i \in 1 .. h : g.vs[i].t = {} => p.vs[i].t = {} BY <1>1, <1>2 DEF Kept
<1>4. Guarding(z, k, x, t) BY TestedFrame DEF t, Known
<1>5. e \in Nat /\ (v # 0 => e = d) /\ (v = 0 /\ x = 0 => e <= h) BY <1>1
<1>6. Good(u, S, e) /\ u.vs = p.vs /\ u.nocode = y
  <2>1. CASE x = 0
    <3>1. e \in Nat /\ (p.nocode # 0 => e = d) /\ (p.nocode = 0 => e >= Len(p.vs)) BY <1>1, <1>2, <1>3, <2>1
    <3> DEFINE o == [p EXCEPT !.nocode = @ + 1]
    <3>2. u = o /\ y = v + 1 BY <2>1
    <3> HIDE DEF e, S, u, y
    <3>3. Good(o, S, e) /\ o.vs = p.vs /\ o.nocode = p.nocode + 1 BY <1>2, <3>1, Suppressed
    <3> HIDE DEF o
    <3>4. QED BY <1>3, <3>2, <3>3
  <2>2. CASE x # 0 BY <1>2, <1>3, <2>2
  <2>3. QED BY <2>1, <2>2
<1> HIDE DEF u, e
<1>7. Stack(a, h, y, e, S, s.stack)
  <2> HIDE DEF z
  <2>1. QED BY <1>2, <1>4, <1>5, TestedEntered DEF Outside
<1> HIDE DEF a, y, S
<1>8. Under(s, w, h)
  <2>1. Under(s, w, Len(s.stack) - 1) BY <1>1, SourcePopped
  <2> HIDE DEF w
  <2>2. QED BY <1>1, <2>1
<1> HIDE DEF w
<1>9. Len(u.vs) = h /\ \A i \in 1 .. h : g.vs[i].t = {} => u.vs[i].t = {} BY <1>2, <1>3, <1>6
<1>10. Ok(u, w, a, "operand") BY <1>1, <1>6, <1>7, <1>8, <1>9, CloseOperand
<1>11. u1 = u /\ w1 = w /\ a1 = a BY DEF Follows, u, w, a, p, t
<1>12. QED BY <1>10, <1>11

\* condition_3way()
LEMMA ConditionValue == ASSUME NEW e PROVE condition_3way(e) \in {-1, 0, 1}
BY DEF condition_3way

\* The condition of ?:
LEMMA QuestionOk == ASSUME Ok(cg, src, ctx, need), Question PROVE Ok(cg', src', ctx', need')
<1> DEFINE x == condition_3way(vtop(cg))
           k == "cond1"
           f == [Frame("cond1", "?") EXCEPT !.c = x]
           q == IF x < 0 THEN gvtst(save_regs(gv(cg, RC_INT), 1), 1, {}) ELSE [s |-> vpop(cg), t |-> {}]
           act == True(src)
<1>1. Guarded(ctx, f, q) /\ need = "after" /\ need' = "operand" BY DEF Question
<1>2. PICK h, v, d, R : OkAt(cg, src, ctx, "after", h, v, d, R) BY <1>1 DEF Ok
<1>3. Good(cg, R, d) /\ Len(cg.vs) >= 1 /\ Stack(ctx, h, v, d, R, src.stack) BY <1>2, AfterFacts
<1>4. Calm(cg, 1) BY <1>2, AfterCalm
<1>5. x \in {-1, 0, 1} BY ConditionValue
<1> HIDE DEF x, act
<1>6. Testing(f, k, x) /\ f.c = x
  <2>1. Testing(f, "cond1", x) BY <1>5, TestFrame
  <2> HIDE DEF f
  <2>2. QED BY <2>1 DEF Testing, k
<1> HIDE DEF f
<1>7. Tests(cg, R, d, {}, q) /\ (x # -1 => q.t = {})
  <2>1. CASE x < 0
    <3>1. x = -1 BY <1>5, <2>1
    <3>2. Tests(cg, R, d, {}, q) BY <1>3, <1>4, <2>1, QuestionTests
    <3>3. QED BY <3>1, <3>2
  <2>2. CASE ~(x < 0)
    <3>1. Tests(cg, R, d, {}, q) BY <1>3, <2>2, DropTests
    <3>2. q.t = {} BY <2>2
    <3>3. QED BY <3>1, <3>2
  <2>3. QED BY <2>1, <2>2
<1> HIDE DEF q
<1> DEFINE u == IF x = 0 THEN [q.s EXCEPT !.nocode = @ + 1] ELSE q.s
           w == [SPop(src) EXCEPT !.act = act]
           a == Append(ctx, [f EXCEPT !.t = q.t])
<1>8. cg' = u /\ src' = w /\ ctx' = a BY <1>1, <1>6 DEF Guarded, act
<1>9. Outside(ctx, h, h, k) /\ Known(k, x, q) BY <1>7 DEF Outside, Known
<1>10. k \in {"cond1", "then"} /\ k # "then" OBVIOUS
<1> HIDE DEF k
<1>11. Follows(u, w, a, q, src, ctx, f, x, act) BY DEF Follows
<1> HIDE DEF u, w, a
<1>12. Ok(u, w, a, "operand")
  <2>1. Stack(ctx, h, v, d, R, src.stack) BY <1>3
  <2>2. Testing(f, k, x) BY <1>6
  <2>3. Tests(cg, R, d, {}, q) BY <1>7
  <2>4. k \in {"cond1", "then"} BY <1>10
  <2>5. QED BY ONLY <1>2, <1>9, <1>11, <2>1, <2>2, <2>3, <2>4, GuardedOk
<1>13. QED BY <1>1, <1>8, <1>12

\* A statement is in a function, or in ({...}).
LEMMA BelowStatement ==
    ASSUME NEW c, IsList(c), Len(c) >= 1, Placed(c, Len(c)), Last(c).k \in {"expr", "if", "then", "else"}
    PROVE  Len(Front(c)) + 1 = Len(c) /\ (Len(Front(c)) = 0 \/ Last(Front(c)).k = "block")
<1> DEFINE b == Front(c)
           n == Len(c)
<1>1. Len(b) = n - 1 /\ n \in Nat /\ \A i \in 1 .. n - 1 : b[i] = c[i] BY Shorter DEF IsList
<1> HIDE DEF b
<1>2. n = 1 \/ c[n - 1].k = "block" BY DEF Placed, Last
<1> HIDE DEF n
<1>3. n >= 1 BY DEF n
<1>4. Len(b) + 1 = n BY <1>1, <1>3
<1>5. CASE n = 1
  <2>1. Len(b) = 0 BY <1>1, <1>5
  <2>2. QED BY <1>4, <2>1 DEF b, n
<1>6. CASE n # 1
  <2>1. n - 1 \in 1 .. n - 1 /\ c[n - 1].k = "block" BY <1>1, <1>2, <1>3, <1>6
  <2>2. b[n - 1].k = "block" BY <1>1, <2>1
  <2>3. Last(b).k = "block" BY <1>1, <2>2 DEF Last
  <2>4. QED BY <1>4, <2>3 DEF b, n
<1>7. QED BY <1>5, <1>6

\* The condition of an if
LEMMA ThenOk == ASSUME Ok(cg, src, ctx, need), Then PROVE Ok(cg', src', ctx', need')
<1> DEFINE x == condition_3way(vtop(cg))
           k == "then"
           f == [Frame("then", "") EXCEPT !.c = x]
           q == IF x = 1 THEN [s |-> vpop(cg), t |-> {}] ELSE gvtst(cg, 1, {})
           act == True(src)
           b == Front(ctx)
           l == Last(ctx)
<1>1. Guarded(b, f, q) /\ need = "after" /\ need' = "operand" /\ Top("if") BY DEF Then
<1>2. PICK h, v, d, R : OkAt(cg, src, ctx, "after", h, v, d, R) BY <1>1 DEF Ok
<1>3. Good(cg, R, d) /\ Len(cg.vs) >= 1 /\ Stack(ctx, h, v, d, R, src.stack) /\ IsList(ctx) BY <1>2, AfterFacts
<1>4. Calm(cg, 1) BY <1>2, AfterCalm
<1>5. x \in {-1, 0, 1} BY ConditionValue
<1>6. Len(ctx) >= 1 /\ Len(ctx) \in Nat /\ l.k = "if" BY <1>1, <1>3, TopFrame
<1>7. PICK h0, v0 : /\ Leaving(l, ctx, h, v, d, R, src.stack, h0, v0)
                    /\ Stack(b, h0, v0, d, R \ Own(l), src.stack)
  BY <1>3, <1>6, StackLeft
<1> HIDE DEF l, b
<1>8. R \ Own(l) = R /\ v = v0 /\ h0 \in Nat BY <1>6, <1>7, SimpleLeft DEF Simple
<1>9. Stack(b, h0, v, d, R, src.stack) BY <1>7, <1>8
<1>10. Len(b) + 1 = Len(ctx) /\ (Len(b) = 0 \/ Last(b).k = "block")
  <2>1. Placed(ctx, Len(ctx)) BY <1>7 DEF Leaving
  <2>2. Last(ctx).k \in {"expr", "if", "then", "else"} BY <1>6 DEF l
  <2>3. QED BY <1>3, <1>6, <2>1, <2>2, BelowStatement DEF b
<1>11. h = IF k = "then" /\ Len(b) + 1 > 1 THEN h0 + 1 ELSE h0
  <2>1. Takes(l, Len(ctx)) = IF Len(ctx) > 1 THEN 1 ELSE 0 BY <1>6 DEF Takes
  <2>2. h = h0 + Takes(l, Len(ctx)) BY <1>7 DEF Leaving
  <2> DEFINE tk == Takes(l, Len(ctx))
  <2>3. tk = (IF Len(ctx) > 1 THEN 1 ELSE 0) /\ h = h0 + tk BY <2>1, <2>2
  <2> HIDE DEF tk
  <2>4. h = IF Len(ctx) > 1 THEN h0 + 1 ELSE h0 BY ONLY <1>8, <2>3
  <2>5. QED BY <1>10, <2>4
<1> HIDE DEF x, act
<1>12. Testing(f, k, x) /\ f.c = x
  <2>1. Testing(f, "then", x) BY <1>5, TestFrame
  <2> HIDE DEF f
  <2>2. QED BY <2>1 DEF Testing, k
<1> HIDE DEF f
<1>13. Tests(cg, R, d, {}, q)
  <2>1. CASE x = 1 BY <1>3, <2>1, DropTests
  <2>2. CASE x # 1 BY <1>3, <1>4, <2>2, IfTests
  <2>3. QED BY <2>1, <2>2
<1> HIDE DEF q
<1> DEFINE u == IF x = 0 THEN [q.s EXCEPT !.nocode = @ + 1] ELSE q.s
           w == [SPop(src) EXCEPT !.act = act]
           a == Append(b, [f EXCEPT !.t = q.t])
<1>14. cg' = u /\ src' = w /\ ctx' = a BY <1>1, <1>12 DEF Guarded, act
<1>15. k \in {"cond1", "then"} /\ k # "cond1" OBVIOUS
<1>16. Outside(b, h0, h, k) BY <1>10, <1>11 DEF Outside
<1>17. Known(k, x, q) BY DEF Known
<1> HIDE DEF k
<1>18. Follows(u, w, a, q, src, b, f, x, act) BY DEF Follows
<1> HIDE DEF u, w, a
<1>19. Ok(u, w, a, "operand")
  <2>1. Testing(f, k, x) BY <1>12
  <2>2. k \in {"cond1", "then"} BY <1>15
  <2>3. QED BY ONLY <1>2, <1>9, <1>13, <1>16, <1>17, <1>18, <2>1, <2>2, GuardedOk
<1>20. QED BY <1>1, <1>14, <1>19

-----------------------------------------------------------------------------
(* Code is generated again, or no longer.                                  *)

\* Code is generated again if x = y.
LEMMA ResumedIf ==
    ASSUME NEW s, NEW R, NEW d, Good(s, R, d), NEW x, NEW y, x = y => s.nocode # 0
    PROVE  LET u == [s EXCEPT !.nocode = IF x = y THEN @ - 1 ELSE @]
           IN  Good(u, R, d) /\ u.vs = s.vs /\ u.nocode = IF x = y THEN s.nocode - 1 ELSE s.nocode
<1> DEFINE u == [s EXCEPT !.nocode = IF x = y THEN @ - 1 ELSE @]
<1>1. CASE x = y
  <2> DEFINE w == [s EXCEPT !.nocode = @ - 1]
  <2>1. u = w BY <1>1
  <2>2. Good(w, R, d) /\ w.vs = s.vs /\ w.nocode = s.nocode - 1 BY <1>1, Resumed
  <2> HIDE DEF u, w
  <2>3. Good(u, R, d) /\ u.vs = s.vs /\ u.nocode = IF x = y THEN s.nocode - 1 ELSE s.nocode BY <1>1, <2>1, <2>2
  <2>4. QED BY <2>3 DEF u
<1>2. CASE x # y
  <2>1. u = [s EXCEPT !.nocode = @] BY <1>2
  <2>2. [s EXCEPT !.nocode = @] = s BY Unchanged DEF Good
  <2>3. u = s BY <2>1, <2>2
  <2> HIDE DEF u
  <2>4. Good(u, R, d) /\ u.vs = s.vs /\ u.nocode = IF x = y THEN s.nocode - 1 ELSE s.nocode BY <1>2, <2>3
  <2>5. QED BY <2>4 DEF u
<1>3. QED BY <1>1, <1>2

\* It is no longer generated if x = y.
LEMMA SuppressedIf ==
    ASSUME NEW s, NEW R, NEW d, Good(s, R, d), NEW x, NEW y, NEW e, x = y => Limit(s, d, e), x # y => e = d
    PROVE  LET u == [s EXCEPT !.nocode = IF x = y THEN @ + 1 ELSE @]
           IN  Good(u, R, e) /\ u.vs = s.vs /\ u.nocode = IF x = y THEN s.nocode + 1 ELSE s.nocode
<1> DEFINE u == [s EXCEPT !.nocode = IF x = y THEN @ + 1 ELSE @]
<1>1. CASE x = y
  <2> DEFINE w == [s EXCEPT !.nocode = @ + 1]
  <2>1. u = w BY <1>1
  <2>2. e \in Nat /\ (s.nocode # 0 => e = d) /\ (s.nocode = 0 => e >= Len(s.vs)) BY <1>1 DEF Limit
  <2>3. Good(w, R, e) /\ w.vs = s.vs /\ w.nocode = s.nocode + 1 BY <2>2, Suppressed
  <2> HIDE DEF u, w
  <2>4. Good(u, R, e) /\ u.vs = s.vs /\ u.nocode = IF x = y THEN s.nocode + 1 ELSE s.nocode BY <1>1, <2>1, <2>3
  <2>5. QED BY <2>4 DEF u
<1>2. CASE x # y
  <2>1. u = [s EXCEPT !.nocode = @] BY <1>2
  <2>2. [s EXCEPT !.nocode = @] = s BY Unchanged DEF Good
  <2>3. u = s BY <2>1, <2>2
  <2> HIDE DEF u
  <2>4. Good(u, R, e) /\ u.vs = s.vs /\ u.nocode = IF x = y THEN s.nocode + 1 ELSE s.nocode BY <1>2, <2>3
  <2>5. QED BY <2>4 DEF u
<1>3. QED BY <1>1, <1>2

\* The second part of ?: and if
Turned(s, x) == [s EXCEPT !.nocode = IF x = 0 THEN @ - 1 ELSE IF x = 1 THEN @ + 1 ELSE @]

\* The other part is generated, or not.
LEMMA TurnedAround ==
    ASSUME NEW s, NEW R, NEW d, Good(s, R, d), NEW x, x = 0 => s.nocode # 0, NEW e, x = 1 => Limit(s, d, e), x # 1 => e = d
    PROVE  LET u == Turned(s, x)
           IN  /\ Good(u, R, e) /\ u.vs = s.vs
               /\ u.nocode = IF x = 0 THEN s.nocode - 1 ELSE IF x = 1 THEN s.nocode + 1 ELSE s.nocode
<1> DEFINE u == Turned(s, x)
           a == [s EXCEPT !.nocode = IF x = 0 THEN @ - 1 ELSE @]
           w == [s EXCEPT !.nocode = IF x = 1 THEN @ + 1 ELSE @]
<1>1. CASE x = 0
  <2>1. u = a BY <1>1 DEF Turned
  <2>2. Good(a, R, d) /\ a.vs = s.vs /\ a.nocode = IF x = 0 THEN s.nocode - 1 ELSE s.nocode BY <1>1, ResumedIf
  <2> HIDE DEF u, a
  <2>3. e = d BY <1>1
  <2>4. /\ Good(u, R, e) /\ u.vs = s.vs
        /\ u.nocode = IF x = 0 THEN s.nocode - 1 ELSE IF x = 1 THEN s.nocode + 1 ELSE s.nocode
    BY <1>1, <2>1, <2>2, <2>3
  <2>5. QED BY <2>4 DEF u
<1>2. CASE x # 0
  <2>1. u = w BY <1>2 DEF Turned
  <2>2. Good(w, R, e) /\ w.vs = s.vs /\ w.nocode = IF x = 1 THEN s.nocode + 1 ELSE s.nocode BY SuppressedIf
  <2> HIDE DEF u, w
  <2>3. /\ Good(u, R, e) /\ u.vs = s.vs
        /\ u.nocode = IF x = 0 THEN s.nocode - 1 ELSE IF x = 1 THEN s.nocode + 1 ELSE s.nocode
    BY <1>2, <2>1, <2>2
  <2>4. QED BY <2>3 DEF u
<1>3. QED BY <1>1, <1>2

\* g is f with other parts.
Revised(g, f, k, t, x, y, z) ==
    /\ IsFrame(g) /\ g.k = k /\ g.t = t /\ g.u = x /\ g.c = f.c /\ g.sv = y /\ g.val = z /\ g.dead = f.dead

\* The parts of the frame of the second value
LEMMA SecondFrame ==
    ASSUME NEW f, IsFrame(f), NEW k, NEW t, NEW x, NEW y, IsEntry(y), NEW z
    PROVE  Revised([f EXCEPT !.k = k, !.t = t, !.u = x, !.sv = y, !.val = z], f, k, t, x, y, z)
<1> DEFINE a == [f EXCEPT !.k = k]
           b == [a EXCEPT !.t = t]
           c == [b EXCEPT !.u = x]
           d == [c EXCEPT !.sv = y]
           g == [d EXCEPT !.val = z]
<1>0. [f EXCEPT !.k = k, !.t = t, !.u = x, !.sv = y, !.val = z] = g OBVIOUS
<1>1. f = [k |-> f.k, op |-> f.op, t |-> f.t, u |-> f.u, c |-> f.c, dead |-> f.dead, sv |-> f.sv,
           val |-> f.val, act |-> f.act, n |-> f.n, i |-> f.i, wide |-> f.wide]
  BY DEF IsFrame
<1>2. a = [k |-> k, op |-> f.op, t |-> f.t, u |-> f.u, c |-> f.c, dead |-> f.dead, sv |-> f.sv,
           val |-> f.val, act |-> f.act, n |-> f.n, i |-> f.i, wide |-> f.wide]
  BY ONLY <1>1
<1> HIDE DEF a
<1>3. b = [k |-> k, op |-> f.op, t |-> t, u |-> f.u, c |-> f.c, dead |-> f.dead, sv |-> f.sv,
           val |-> f.val, act |-> f.act, n |-> f.n, i |-> f.i, wide |-> f.wide]
  BY ONLY <1>2
<1> HIDE DEF b
<1>4. c = [k |-> k, op |-> f.op, t |-> t, u |-> x, c |-> f.c, dead |-> f.dead, sv |-> f.sv,
           val |-> f.val, act |-> f.act, n |-> f.n, i |-> f.i, wide |-> f.wide]
  BY ONLY <1>3
<1> HIDE DEF c
<1>5. d = [k |-> k, op |-> f.op, t |-> t, u |-> x, c |-> f.c, dead |-> f.dead, sv |-> y,
           val |-> f.val, act |-> f.act, n |-> f.n, i |-> f.i, wide |-> f.wide]
  BY ONLY <1>4
<1> HIDE DEF d
<1>6. g = [k |-> k, op |-> f.op, t |-> t, u |-> x, c |-> f.c, dead |-> f.dead, sv |-> y,
           val |-> z, act |-> f.act, n |-> f.n, i |-> f.i, wide |-> f.wide]
  BY ONLY <1>5
<1> HIDE DEF g
<1>7. /\ g = [k |-> g.k, op |-> g.op, t |-> g.t, u |-> g.u, c |-> g.c, dead |-> g.dead, sv |-> g.sv,
              val |-> g.val, act |-> g.act, n |-> g.n, i |-> g.i, wide |-> g.wide]
      /\ g.k = k /\ g.t = t /\ g.u = x /\ g.c = f.c /\ g.sv = y /\ g.val = z /\ g.dead = f.dead
      /\ g.n = f.n /\ g.i = f.i
  BY ONLY <1>6
<1>8. IsFrame(g) BY <1>7 DEF IsFrame
<1>9. Revised(g, f, k, t, x, y, z) BY <1>7, <1>8 DEF Revised
<1>10. QED BY <1>0, <1>9

\* The first value of ?: waits in the frame y with its jumps Y.
Waits(f, t, y, z) ==
    /\ FrameOk(f) /\ f.k = "cond1" /\ IsEntry(y) /\ t \cap y.t = {}
    /\ (f.c # -1 => t = {}) /\ (f.c = 0 => y.t = {}) /\ (z.kind # "bool" => y.t = {})
\* The frame of the second value holds the jumps of the first one.
SecondWaits(p, f, t, y) ==
    /\ FrameOk(p) /\ Own(p) = t \cup y.t /\ p.k = "cond2" /\ (\A h, st : Below(p, h, st))
    /\ Falls(p) = (IF f.c = 1 THEN 1 ELSE 0) /\ \A i : Takes(p, i) = 0

\* Its frame is in order.
LEMMA SecondStanding ==
    ASSUME NEW f, NEW t, NEW y, NEW z, Waits(f, t, y, z)
    PROVE  SecondWaits([f EXCEPT !.k = "cond2", !.t = {}, !.u = t, !.sv = y, !.val = z], f, t, y)
<1> DEFINE k == "cond2"
           o == {}
           p == [f EXCEPT !.k = k, !.t = o, !.u = t, !.sv = y, !.val = z]
<1>1. IsFrame(f) /\ IsEntry(y) BY DEF FrameOk, Waits
<1> HIDE DEF k, o
<1>0. Revised(p, f, k, o, t, y, z) BY ONLY <1>1, SecondFrame
<1> HIDE DEF p
<1>2. /\ IsFrame(p) /\ p.k = k /\ p.t = o /\ p.u = t /\ p.c = f.c /\ p.sv = y /\ p.val = z BY <1>0 DEF Revised
<1>3. p.k = "cond2" /\ p.t = {} /\ p.u = t /\ p.sv.t = y.t /\ p.c = f.c /\ p.val = z BY <1>2 DEF k, o
<1>4. Own(p) = t \cup y.t /\ Apart(p) BY <1>3 DEF Own, Apart, Waits
<1>5. Ruled(p)
  <2>1. (p.c # -1 => p.u = {}) /\ (p.c = 0 => p.sv.t = {}) /\ (p.val.kind # "bool" => p.sv.t = {}) BY <1>3 DEF Waits
  <2>2. QED BY <1>3, <2>1 DEF Ruled
<1>6. \A h, st : Below(p, h, st) BY <1>3 DEF Below
<1>7. Falls(p) = IF f.c = 1 THEN 1 ELSE 0 BY <1>3 DEF Falls
<1>8. \A i : Takes(p, i) = 0 BY <1>3 DEF Takes
<1>9. SecondWaits(p, f, t, y) BY <1>2, <1>3, <1>4, <1>5, <1>6, <1>7, <1>8 DEF FrameOk, SecondWaits
<1>10. QED BY <1>9 DEF p, k, o

\* Whether the value is evaluated does not change when it is popped.
LEMMA PoppedAct == ASSUME NEW s, IsSource(s) PROVE SPop(s).act = s.act
<1> DEFINE x == Front(s.stack)
<1>1. SPop(s) = [s EXCEPT !.stack = x] BY DEF SPop
<1>2. s = [stack |-> s.stack, mem |-> s.mem, act |-> s.act, want |-> s.want] BY DEF IsSource
<1> HIDE DEF x
<1>3. [s EXCEPT !.stack = x] = [stack |-> x, mem |-> s.mem, act |-> s.act, want |-> s.want] BY ONLY <1>2
<1>4. QED BY ONLY <1>1, <1>3

\* The first value of ?:
LEMMA ColonOk == ASSUME Ok(cg, src, ctx, need), Colon PROVE Ok(cg', src', ctx', need')
<1> DEFINE f == Last(ctx)
           b == Front(ctx)
           c == f.c
           t == f.t
           y == vtop(cg)
           Y == y.t
           z == STop(src)
           D == Drop(cg)
           j == IF c < 0 THEN gjmp(D, {}) ELSE [s |-> D, t |-> {}]
           m == gsym(j.s, t)
           u == Turned(m, c)
           p == [f EXCEPT !.k = "cond2", !.t = {}, !.u = j.t, !.sv = y, !.val = z]
           act == f.act \ src.act
           w == [SPop(src) EXCEPT !.act = act]
           a == Append(b, p)
<1>1. cg' = u /\ ctx' = a /\ need = "after" /\ need' = "operand" /\ Top("cond1") BY DEF Colon, Become, Turned
<1>0. src' = w
  <2>1. src' = [SPop(src) EXCEPT !.act = f.act \ @] BY DEF Colon
  <2>2. PICK h, v, d, R : OkAt(cg, src, ctx, "after", h, v, d, R) BY <1>1 DEF Ok
  <2>3. SPop(src).act = src.act BY <2>2, AfterFacts, PoppedAct
  <2>4. QED BY <2>1, <2>3
<1>2. PICK h, v, d, R : OkAt(cg, src, ctx, "after", h, v, d, R) BY <1>1 DEF Ok
<1>3. /\ h \in Nat /\ v \in Nat /\ d \in Nat /\ IsList(ctx) /\ Len(cg.vs) = h + 1 /\ Len(cg.vs) >= 1 /\ Len(cg.vs) - 1 = h
      /\ IsState(cg) /\ IsSource(src) /\ Len(src.stack) >= 1 /\ Len(src.stack) - 1 = h /\ Good(cg, R, d) /\ cg.nocode = v
      /\ Stack(ctx, h, v, d, R, src.stack) /\ Aligned(cg.vs, src.stack, Len(cg.vs)) /\ (v # 0 => d <= h)
  BY <1>2, AfterFacts
<1>4. Len(ctx) >= 1 /\ Len(ctx) \in Nat /\ f.k = "cond1" BY <1>1, <1>3, TopFrame
<1>5. PICK h0, v0 : /\ Leaving(f, ctx, h, v, d, R, src.stack, h0, v0)
                    /\ Stack(b, h0, v0, d, R \ Own(f), src.stack)
  BY <1>3, <1>4, StackLeft
<1>6. IsEntry(y) /\ R \cap Y = {} /\ (v # 0 => Y = {}) /\ (z.kind # "bool" => Y = {})
  <2>1. Calm(cg, 1) /\ (z.kind # "bool" => Y = {}) BY <1>2, AfterCalm
  <2>2. v # 0 => Y = {} BY <1>3, <2>1, CalmTop
  <2>3. QED BY <1>3, <2>1, <2>2, GoodTop, TopApart
<1> HIDE DEF f, b, y, Y, z, act
<1>7. FrameOk(f) /\ f.u = {} /\ f.sv.t = {} /\ (c # -1 => t = {}) /\ c \in {-1, 0, 1}
  BY <1>4, <1>5 DEF Leaving, FrameOk, Ruled, IsFrame
<1>8. Own(f) = t /\ Takes(f, Len(ctx)) = 0 /\ Falls(f) = IF c = 0 THEN 1 ELSE 0
  BY <1>4, <1>7 DEF Own, Takes, Falls
<1>9. /\ h0 \in Nat /\ v0 \in Nat /\ h = h0 /\ v = (IF c = 0 THEN v0 + 1 ELSE v0) /\ t \subseteq R /\ (v0 # 0 => t = {})
  <2>1. /\ h0 \in Nat /\ v0 \in Nat /\ h = h0 + Takes(f, Len(ctx)) /\ v = v0 + Falls(f) /\ Own(f) \subseteq R
        /\ (v0 # 0 => Own(f) = {})
    BY <1>5 DEF Leaving
  <2> DEFINE tk == Takes(f, Len(ctx))
             fl == Falls(f)
  <2>2. h = h0 + tk /\ v = v0 + fl /\ tk = 0 /\ fl = IF c = 0 THEN 1 ELSE 0 BY <1>8, <2>1
  <2> HIDE DEF tk, fl
  <2>3. h = h0 /\ v = (IF c = 0 THEN v0 + 1 ELSE v0) BY <2>1, <2>2
  <2>4. QED BY <1>8, <2>1, <2>3
<1> HIDE DEF c, t
<1> DEFINE T == R \cup Y
           R0 == R \ t
           X == j.t
           S == (T \ t) \cup X
           e == IF c = 1 /\ v = 0 THEN h ELSE d
           n == IF c = 0 THEN v - 1 ELSE IF c = 1 THEN v + 1 ELSE v
<1>10. Good(D, T, d) /\ Len(D.vs) = h /\ D.nocode = v /\ \A i \in 1 .. h : D.vs[i] = cg.vs[i]
  <2>1. Good(D, R \cup vtop(cg).t, d) /\ Kept(cg, D, Len(cg.vs) - 1) /\ Len(D.vs) = Len(cg.vs) - 1
        /\ \A i \in 1 .. Len(cg.vs) - 1 : D.vs[i] = cg.vs[i]
    BY <1>3, Dropped
  <2> HIDE DEF D
  <2>2. D.nocode = cg.nocode BY <2>1 DEF Kept
  <2>3. QED BY <1>3, <2>1, <2>2 DEF Y, y
<1> HIDE DEF D
<1>11. t \subseteq T BY <1>9
<1> HIDE DEF T
<1>12. JumpOver(D, j, t, T, d) /\ (c # -1 => j.t = {})
  <2>1. CASE c < 0
    <3>1. c = -1 BY <1>7, <2>1
    <3>2. JumpOver(D, j, t, T, d) BY <1>10, <1>11, <2>1, JumpedOver
    <3>3. QED BY <3>1, <3>2
  <2>2. CASE ~(c < 0)
    <3>1. j.t = {} BY <2>2
    <3>2. JumpOver(D, j, t, T, d) BY <1>10, <1>11, <2>2, NotJumpedOver
    <3>3. QED BY <3>1, <3>2
  <2>3. QED BY <2>1, <2>2
<1> HIDE DEF j
<1>13. X \cap T = {} /\ (v # 0 => X = {}) /\ Good(m, S, d) /\ m.vs = D.vs /\ m.nocode = v
  BY <1>10, <1>12 DEF JumpOver
<1> HIDE DEF m, X
<1>14. S = R0 \cup (X \cup Y) /\ (X \cup Y) \cap R0 = {} /\ X \cap Y = {}
  BY <1>6, <1>9, <1>13 DEF T
<1> HIDE DEF S
<1>15. e \in Nat /\ (c = 1 => Limit(m, d, e)) /\ (c # 1 => e = d)
  <2>1. Len(m.vs) = h BY <1>10, <1>13
  <2>2. QED BY <1>3, <1>13, <2>1 DEF Limit
<1> HIDE DEF e
<1>16. Good(u, S, e) /\ u.vs = m.vs /\ u.nocode = n
  <2>1. c = 0 => m.nocode # 0 BY <1>9, <1>13
  <2>2. /\ Good(u, S, e) /\ u.vs = m.vs
        /\ u.nocode = IF c = 0 THEN m.nocode - 1 ELSE IF c = 1 THEN m.nocode + 1 ELSE m.nocode
    BY <1>13, <1>15, <2>1, TurnedAround
  <2> HIDE DEF u
  <2>3. QED BY <1>13, <2>2
<1> HIDE DEF u
<1>17. /\ FrameOk(p) /\ Own(p) = X \cup Y /\ p.k = "cond2" /\ (\A i, st : Below(p, i, st))
       /\ Falls(p) = (IF c = 1 THEN 1 ELSE 0) /\ \A i : Takes(p, i) = 0
  <2>1. c = 0 => Y = {} BY <1>6, <1>9
  <2>2. Waits(f, X, y, z) BY <1>4, <1>6, <1>7, <1>12, <1>14, <2>1 DEF Y, c, X, Waits
  <2> DEFINE q == [f EXCEPT !.k = "cond2", !.t = {}, !.u = X, !.sv = y, !.val = z]
  <2>3. p = q BY DEF X
  <2>4. SecondWaits(q, f, X, y) BY ONLY <2>2, SecondStanding
  <2> HIDE DEF p, q
  <2>5. QED BY <2>3, <2>4 DEF Y, c, SecondWaits
<1> HIDE DEF p
<1>18. Stack(b, h0, v0, d, R0, src.stack) BY <1>5, <1>8
<1> DEFINE tk == Takes(p, Len(b) + 1)
           fl == Falls(p)
           h1 == h0 + tk
           v1 == v0 + fl
<1>19. tk = 0 /\ fl = IF c = 1 THEN 1 ELSE 0 BY <1>17
<1>20. Entering(p, b, h0, v0, d, R0, src.stack, e)
  <2>1. v0 # 0 => X \cup Y = {}
    <3>1. v0 # 0 => v # 0 BY <1>9
    <3>2. QED BY <1>6, <1>13, <3>1
  <2>2. v0 # 0 => e = d BY <1>9 DEF e
  <2>3. v0 = 0 /\ fl # 0 => e <= h0 + tk
    <3> HIDE DEF fl, tk
    <3>1. ASSUME v0 = 0, fl # 0 PROVE e <= h0 + tk
      <4>1. c = 1 BY <1>19, <3>1
      <4>2. v = 0 /\ h = h0 BY <1>9, <3>1, <4>1
      <4>3. e = h BY <4>1, <4>2 DEF e
      <4>4. QED BY <1>9, <1>19, <4>2, <4>3
    <3>2. QED BY <3>1
  <2>4. p.k \notin {"expr", "if", "then", "else"} BY <1>17
  <2>5. FrameOk(p) /\ Below(p, h0, src.stack) /\ Own(p) \cap R0 = {} BY <1>14, <1>17
  <2>6. QED BY <1>15, <1>17, <2>1, <2>2, <2>3, <2>4, <2>5 DEF Entering
<1>21. Stack(a, h1, v1, e, R0 \cup Own(p), src.stack) BY <1>18, <1>20, StackEntered
<1> HIDE DEF tk, fl, a
<1>22. h1 = h BY <1>9, <1>19
<1>23. v1 = n BY <1>7, <1>9, <1>19
<1> HIDE DEF h1, v1, n
<1>24. Stack(a, h, n, e, S, src.stack) BY <1>14, <1>17, <1>21, <1>22, <1>23
<1>25. Under(src, w, h)
  <2>1. Under(src, w, Len(src.stack) - 1) BY <1>3, SourcePopped
  <2> HIDE DEF w
  <2>2. QED BY <1>3, <2>1
<1> HIDE DEF w
<1>26. Len(u.vs) = h /\ (\A i \in 1 .. h : cg.vs[i].t = {} => u.vs[i].t = {}) /\ h <= Len(cg.vs) BY <1>3, <1>10, <1>13, <1>16
<1>27. Ok(u, w, a, "operand") BY <1>3, <1>16, <1>24, <1>25, <1>26, CloseOperand
<1>28. QED BY <1>0, <1>1, <1>27

\* u is the end of ?: with the value e on the top.
CondEnds(g, u, e, h, v, d, R) ==
    /\ Good(u, R, d) /\ u.nocode = v /\ Len(u.vs) = h + 1 /\ (\A i \in 1 .. h : g.vs[i].t = {} => u.vs[i].t = {})
    /\ (e.kind # "bool" => vtop(u).t = {})

\* The second value of ?:
LEMMA EndCondOk == ASSUME Ok(cg, src, ctx, need), EndCond PROVE Ok(cg', src', ctx', need')
<1> DEFINE f == Last(ctx)
           b == Front(ctx)
           c == f.c
           x == Rvalue(src, f.val)
           y == Rvalue(src, STop(src))
           m == [SPop(src) EXCEPT !.act = f.act]
           e1 == Result(m, "val", LAMBDA k : IF k \in f.val.live THEN x[k] ELSE y[k])
           e2 == STop(src)
           e3 == f.val
           u1 == CondJoin(cg, f)
           a3 == [cg EXCEPT !.nocode = @ - 1]
           u3 == SetTop(a3, f.sv)
<1>1. ctx' = b /\ need = "after" /\ need' = "after" /\ Top("cond2") BY DEF EndCond, Leave
<1>2. /\ (c < 0 => cg' = u1 /\ src' = SPush(m, e1))
      /\ (c = 0 => cg' = cg /\ src' = SPush(m, e2))
      /\ (c = 1 => cg' = u3 /\ src' = SPush(m, e3))
  <2>1. cg' = CASE c < 0 -> u1 [] c = 0 -> cg [] c = 1 -> u3 BY DEF EndCond
  <2>2. src' = SPush(m, CASE c < 0 -> e1 [] c = 0 -> e2 [] c = 1 -> e3) BY DEF EndCond
  <2> HIDE DEF u1, u3, e1, e2, e3, m, c
  <2>3. ~(0 < 0) /\ ~(1 < 0) OBVIOUS
  <2>4. ASSUME c < 0 PROVE cg' = u1 /\ src' = SPush(m, e1)
    <3>1. c # 0 /\ c # 1 BY <2>3, <2>4
    <3>2. QED BY <2>1, <2>2, <2>4, <3>1
  <2>5. ASSUME c = 0 PROVE cg' = cg /\ src' = SPush(m, e2)
    <3>1. ~(c < 0) /\ c # 1 BY <2>3, <2>5
    <3>2. QED BY <2>1, <2>2, <2>5, <3>1
  <2>6. ASSUME c = 1 PROVE cg' = u3 /\ src' = SPush(m, e3)
    <3>1. ~(c < 0) /\ c # 0 BY <2>3, <2>6
    <3>2. QED BY <2>1, <2>2, <2>6, <3>1
  <2>7. QED BY <2>4, <2>5, <2>6
<1>3. PICK h, v, d, R : OkAt(cg, src, ctx, "after", h, v, d, R) BY <1>1 DEF Ok
<1>4. /\ h \in Nat /\ v \in Nat /\ d \in Nat /\ IsList(ctx) /\ Len(cg.vs) = h + 1 /\ Len(cg.vs) >= 1 /\ Len(cg.vs) - 1 = h
      /\ IsState(cg) /\ IsSource(src) /\ Len(src.stack) >= 1 /\ Len(src.stack) - 1 = h /\ Good(cg, R, d) /\ cg.nocode = v
      /\ Stack(ctx, h, v, d, R, src.stack) /\ Aligned(cg.vs, src.stack, Len(cg.vs)) /\ (v # 0 => d <= h)
  BY <1>3, AfterFacts
<1>5. Len(ctx) >= 1 /\ Len(ctx) \in Nat /\ f.k = "cond2" BY <1>1, <1>4, TopFrame
<1>6. PICK h0, v0 : /\ Leaving(f, ctx, h, v, d, R, src.stack, h0, v0)
                    /\ Stack(b, h0, v0, d, R \ Own(f), src.stack)
  BY <1>4, <1>5, StackLeft
<1>7. Under(src, m, h)
  <2>1. Under(src, m, Len(src.stack) - 1) BY <1>4, SourcePopped
  <2> HIDE DEF m
  <2>2. QED BY <1>4, <2>1
<1> HIDE DEF m
<1>8. (e2.kind # "bool" => vtop(cg).t = {}) /\ (v # 0 => vtop(cg).t = {})
  <2>1. Calm(cg, 1) /\ (STop(src).kind # "bool" => vtop(cg).t = {}) BY <1>3, AfterCalm
  <2>2. v # 0 => vtop(cg).t = {} BY <1>4, <2>1, CalmTop
  <2>3. QED BY <2>1, <2>2
<1> HIDE DEF e1, e2
<1>9. /\ IsFrame(f) /\ f.t = {} /\ c \in {-1, 0, 1} /\ (c # -1 => f.u = {}) /\ (c = 0 => f.sv.t = {})
      /\ (e3.kind # "bool" => f.sv.t = {}) /\ f.u \cap f.sv.t = {} /\ IsEntry(f.sv)
  <2> HIDE DEF f
  <2>1. FrameOk(f) BY <1>6 DEF Leaving
  <2>2. QED BY <1>5, <2>1 DEF FrameOk, Ruled, Apart, IsFrame
<1> HIDE DEF f, b, e3
<1> DEFINE O == Own(f)
           S == R \ O
<1>10. O = f.u \cup f.sv.t /\ Takes(f, Len(ctx)) = 0 /\ Falls(f) = IF c = 1 THEN 1 ELSE 0
  BY <1>5, <1>9 DEF Own, Takes, Falls
<1>11. /\ h0 = h /\ v0 \in Nat /\ v = (IF c = 1 THEN v0 + 1 ELSE v0) /\ O \subseteq R /\ (v0 # 0 => O = {})
  <2>1. /\ h0 \in Nat /\ v0 \in Nat /\ h = h0 + Takes(f, Len(ctx)) /\ v = v0 + Falls(f) /\ Own(f) \subseteq R
        /\ (v0 # 0 => Own(f) = {})
    BY <1>6 DEF Leaving
  <2> DEFINE tk == Takes(f, Len(ctx))
             fl == Falls(f)
  <2>2. h = h0 + tk /\ v = v0 + fl /\ tk = 0 /\ fl = IF c = 1 THEN 1 ELSE 0 BY <1>10, <2>1
  <2> HIDE DEF tk, fl
  <2>3. h = h0 /\ v = (IF c = 1 THEN v0 + 1 ELSE v0) BY <2>1, <2>2
  <2>4. QED BY <2>1, <2>3
<1>12. Stack(b, h, v0, d, S, src.stack) BY <1>6, <1>11
<1> HIDE DEF c, S, O
<1>13. \E u, e : CondEnds(cg, u, e, h, v0, d, S) /\ cg' = u /\ src' = SPush(m, e)
  <2>1. CASE c = -1
    <3>0. c < 0 /\ c # 1 BY <2>1
    <3>1. f.u \subseteq R /\ f.sv.t \subseteq R \ f.u /\ (v0 # 0 => f.sv.t = {}) BY <1>9, <1>10, <1>11
    <3>2. cg.nocode = v0 BY <1>4, <1>11, <3>0
    <3>3. Values(cg, f, R) BY <1>9, <3>1, <3>2 DEF Values
    <3>4. Good(u1, (R \ f.u) \ f.sv.t, d) /\ Len(u1.vs) = Len(cg.vs) /\ Kept(cg, u1, Len(cg.vs) - 1) /\ vtop(u1).t = {}
      BY <1>4, <3>3, Joined
    <3> HIDE DEF u1
    <3>5. Good(u1, S, d)
      <4>1. (R \ f.u) \ f.sv.t = S BY <1>10 DEF S
      <4>2. QED BY <3>4, <4>1
    <3>6. CondEnds(cg, u1, e1, h, v0, d, S) BY <1>4, <3>2, <3>4, <3>5 DEF CondEnds, Kept
    <3>7. QED BY <1>2, <3>0, <3>6
  <2>2. CASE c = 0
    <3>1. O = {} BY <1>9, <1>10, <2>2 DEF c
    <3>2. S = R BY <3>1 DEF S
    <3>3. CondEnds(cg, cg, e2, h, v0, d, S) BY <1>4, <1>8, <1>11, <2>2, <3>2 DEF CondEnds
    <3>4. QED BY <1>2, <2>2, <3>3
  <2>3. CASE c = 1
    <3>0. v = v0 + 1 /\ v # 0 BY <1>11, <2>3
    <3>1. f.u = {} /\ O = f.sv.t BY <1>9, <1>10, <2>3
    <3>2. Good(a3, R, d) /\ a3.vs = cg.vs /\ a3.nocode = v0
      <4>1. cg.nocode # 0 BY <1>4, <3>0
      <4>2. Good(a3, R, d) /\ a3.vs = cg.vs /\ a3.nocode = cg.nocode - 1 BY <1>4, <4>1, Resumed
      <4> HIDE DEF a3
      <4>3. QED BY <1>4, <1>11, <3>0, <4>2
    <3> HIDE DEF a3
    <3>3. vtop(a3).t = {} /\ Len(a3.vs) = h + 1 /\ Len(a3.vs) >= 1 BY <1>4, <1>8, <3>0, <3>2 DEF vtop
    <3> DEFINE z == f.sv
    <3>4. z.t \subseteq R \cup vtop(a3).t /\ (a3.nocode # 0 => z.t = {}) /\ IsEntry(z) BY <1>9, <1>11, <3>1, <3>2
    <3>5. (R \cup vtop(a3).t) \ z.t = S BY <3>1, <3>3 DEF S
    <3>6. u3 = SetTop(a3, z) OBVIOUS
    <3> HIDE DEF z, u3
    <3>7. /\ Good(u3, S, d) /\ Kept(a3, u3, Len(a3.vs) - 1) /\ Len(u3.vs) = Len(a3.vs) /\ vtop(u3) = z
      BY <3>2, <3>3, <3>4, <3>5, <3>6, TopSet
    <3>8. Len(a3.vs) - 1 = h BY <1>4, <3>2
    <3>9. e3.kind # "bool" => vtop(u3).t = {} BY <1>9, <3>7 DEF z
    <3>10. CondEnds(cg, u3, e3, h, v0, d, S) BY <3>2, <3>3, <3>7, <3>8, <3>9 DEF CondEnds, Kept
    <3>11. QED BY <1>2, <2>3, <3>10
  <2>4. c \in {-1, 0, 1} BY <1>9
  <2>5. QED BY <2>1, <2>2, <2>3, <2>4
<1>14. PICK u, e : CondEnds(cg, u, e, h, v0, d, S) /\ cg' = u /\ src' = SPush(m, e) BY <1>13
<1>15. Over(src, SPush(m, e), h, e)
  <2>1. IsSource(m) /\ Len(m.stack) = h BY <1>7 DEF Under
  <2>2. Over(m, SPush(m, e), h, e) BY <2>1, SPushed
  <2>3. QED BY <1>4, <1>7, <2>2, UnderOver
<1>16. h <= Len(cg.vs) BY <1>4
<1> DEFINE w == SPush(m, e)
<1>17. Over(src, w, h, e) BY <1>15
<1> HIDE DEF w
<1>18. Ok(u, w, b, "after") BY <1>4, <1>12, <1>14, <1>16, <1>17, CloseAfter DEF CondEnds
<1>19. QED BY <1>1, <1>14, <1>18 DEF w

-----------------------------------------------------------------------------
(* Statements                                                              *)

\* The numbers behind a state before a statement
LEMMA StatementFacts ==
    ASSUME NEW g, NEW s, NEW c, NEW h, NEW v, NEW d, NEW R, OkAt(g, s, c, "stmt", h, v, d, R)
    PROVE  /\ h \in Nat /\ v \in Nat /\ d \in Nat /\ (v # 0 => d <= h) /\ IsList(c) /\ Len(c) \in Nat
           /\ IsState(g) /\ IsSource(s) /\ Good(g, R, d) /\ g.nocode = v /\ Len(s.stack) = Len(g.vs)
           /\ Stack(c, h, v, d, R, s.stack) /\ Aligned(g.vs, s.stack, Len(g.vs))
           /\ (Len(c) = 0 \/ Last(c).k = "block")
           /\ (Len(c) = 0 => Len(g.vs) = h)
           /\ (Len(c) # 0 => Len(g.vs) = h + 1 /\ Len(g.vs) >= 1 /\ Len(g.vs) - 1 = h)
<1>1. (Len(c) = 0 => More(c, "stmt") = 0) /\ (Len(c) # 0 => More(c, "stmt") = 1) BY DEF More
<1>2. QED BY <1>1, OkFacts DEF OkAt

\* A statement may begin or end after the frames c; n entries are on the stack.
Resting(c, h, n) == (Len(c) = 0 \/ Last(c).k = "block") /\ n = IF Len(c) # 0 THEN h + 1 ELSE h

\* A statement is complete; in ({...}) its value stays on the stack.
LEMMA CloseStatement ==
    ASSUME NEW c, NEW h, NEW v, NEW d, NEW R, NEW s, Stack(c, h, v, d, R, s.stack), NEW n, Resting(c, h, n),
           NEW g, IsState(g), Aligned(g.vs, s.stack, Len(g.vs)),
           NEW u, Good(u, R, d), u.nocode = v, Len(u.vs) = n, n <= Len(g.vs),
           \A i \in 1 .. n : g.vs[i].t = {} => u.vs[i].t = {}, NEW w, Under(s, w, n)
    PROVE  Ok(u, w, c, "stmt")
<1> DEFINE nd == "stmt"
<1>0. (Len(c) = 0 \/ Last(c).k = "block") /\ n = (IF Len(c) # 0 THEN h + 1 ELSE h) BY DEF Resting
<1>1. h \in Nat /\ Len(g.vs) \in Nat BY StackFacts, Lengths
<1>2. \A i \in 1 .. n : i \in 1 .. Len(g.vs) BY <1>1
<1>3. Aligned(u.vs, s.stack, n) BY <1>2 DEF Aligned
<1>4. IsSource(w) /\ Len(w.stack) = n /\ \A i \in 1 .. n : w.stack[i] = s.stack[i] BY DEF Under
<1>5. Aligned(u.vs, w.stack, n) BY <1>3, <1>4 DEF Aligned
<1>6. \A i \in 1 .. h : i \in 1 .. n BY <1>0, <1>1
<1>7. Stack(c, h, v, d, R, w.stack) BY <1>4, <1>6, StackOther
<1>8. n = h + More(c, nd)
  <2>1. CASE Len(c) # 0
    <3>1. More(c, nd) = 1 BY <2>1 DEF More
    <3>2. QED BY <1>0, <2>1, <3>1
  <2>2. CASE Len(c) = 0
    <3>1. More(c, nd) = 0 BY <2>2 DEF More
    <3>2. QED BY <1>0, <1>1, <2>2, <3>1
  <2>3. QED BY <2>1, <2>2
<1> HIDE DEF nd
<1>9. OkAt(u, w, c, nd, h, v, d, R) BY <1>0, <1>4, <1>5, <1>7, <1>8 DEF OkAt
<1>10. QED BY <1>9 DEF Ok, nd

\* It is in ({...}) unless there are no frames.
LEMMA InBlock == ASSUME IsList(ctx), Len(ctx) = 0 \/ Last(ctx).k = "block" PROVE IsExpr <=> Len(ctx) # 0
BY EmptyList DEF IsExpr, Top

\* The frame of a statement or of ({...})
LEMMA StatementEntered ==
    ASSUME NEW c, NEW h, NEW v, NEW d, NEW R, NEW st, Stack(c, h, v, d, R, st), NEW k \in {"expr", "if", "block"},
           k # "block" => Len(c) = 0 \/ Last(c).k = "block",
           NEW n, n = (IF k = "if" /\ Len(c) # 0 THEN h + 1 ELSE h)
    PROVE  Stack(Append(c, Frame(k, "")), n, v, d, R, st)
<1> DEFINE f == Frame(k, "")
           b == Append(c, f)
           tk == Takes(f, Len(c) + 1)
<1>1. FrameOk(f) /\ Own(f) = {} /\ Falls(f) = 0 /\ f.k = k BY OpenFrame
<1> HIDE DEF f
<1>2. h \in Nat /\ v \in Nat /\ d \in Nat /\ Len(c) \in Nat BY StackFacts
<1>3. Below(f, h, st) BY <1>1 DEF Below
<1>4. Entering(f, c, h, v, d, R, st, d) BY <1>1, <1>2, <1>3 DEF Entering
<1>5. Stack(b, h + tk, v + Falls(f), d, R \cup Own(f), st) BY <1>4, StackEntered
<1>6. tk = IF k = "if" /\ Len(c) # 0 THEN 1 ELSE 0
  <2> DEFINE i == Len(c) + 1
  <2>1. i > 1 <=> Len(c) # 0 BY <1>2
  <2> HIDE DEF i
  <2>2. Takes(f, i) = IF k = "if" /\ i > 1 THEN 1 ELSE 0 BY <1>1 DEF Takes
  <2>3. QED BY <2>1, <2>2 DEF i
<1> HIDE DEF tk, b
<1>7. h + tk = n BY <1>2, <1>6
<1>8. v + Falls(f) = v /\ R \cup Own(f) = R BY <1>1, <1>2
<1>9. Stack(b, n, v, d, R, st) BY <1>5, <1>7, <1>8
<1>10. QED BY <1>9 DEF b, f

\* An expression statement begins,
LEMMA ExpressionOk == ASSUME Ok(cg, src, ctx, need), Expression PROVE Ok(cg', src', ctx', need')
<1> DEFINE k == "expr"
           a == Append(ctx, Frame(k, ""))
           u1 == vsetc(vpop(cg), Const(0))
           u2 == vpop(u1)
           w == SPop(src)
<1>1. /\ ctx' = a /\ need = "stmt" /\ need' = "operand"
      /\ cg' = (IF IsExpr THEN u2 ELSE cg) /\ src' = (IF IsExpr THEN w ELSE src)
  <2> HIDE DEF w
  <2>1. IsExpr => NewStatement(cg) = u1 BY DEF NewStatement
  <2>2. QED BY <2>1 DEF Expression, Enter, w
<1>2. PICK h, v, d, R : OkAt(cg, src, ctx, "stmt", h, v, d, R) BY <1>1 DEF Ok
<1>3. /\ h \in Nat /\ IsState(cg) /\ IsSource(src) /\ Good(cg, R, d) /\ cg.nocode = v /\ Len(src.stack) = Len(cg.vs)
      /\ Stack(ctx, h, v, d, R, src.stack) /\ Aligned(cg.vs, src.stack, Len(cg.vs))
      /\ (Len(ctx) = 0 \/ Last(ctx).k = "block") /\ IsList(ctx)
      /\ (Len(ctx) = 0 => Len(cg.vs) = h)
      /\ (Len(ctx) # 0 => Len(cg.vs) = h + 1 /\ Len(cg.vs) >= 1 /\ Len(cg.vs) - 1 = h)
  BY <1>2, StatementFacts
<1>4. IsExpr <=> Len(ctx) # 0 BY <1>3, InBlock
<1>5. Stack(a, h, v, d, R, src.stack)
  <2> DEFINE n == h
  <2>1. n = (IF k = "if" /\ Len(ctx) # 0 THEN h + 1 ELSE h) /\ k \in {"expr", "if", "block"} OBVIOUS
  <2> HIDE DEF k, n
  <2>2. Stack(a, n, v, d, R, src.stack) BY <1>3, <2>1, StatementEntered
  <2>3. QED BY <2>2 DEF n
<1> HIDE DEF a, k
<1>6. CASE Len(ctx) # 0
  <2>1. Len(cg.vs) = h + 1 /\ Len(cg.vs) >= 1 /\ Len(cg.vs) - 1 = h BY <1>3, <1>6
  <2>2. Reset(cg, u1, R, d) BY <1>3, <2>1, StatementStarted
  <2> HIDE DEF u1
  <2>3. Good(u1, R, d) /\ Len(u1.vs) = h + 1 /\ Len(u1.vs) >= 1 /\ Len(u1.vs) - 1 = h /\ Kept(cg, u1, h)
    BY <2>1, <2>2 DEF Reset
  <2>4. Good(u2, R, d) /\ Kept(u1, u2, h) /\ Len(u2.vs) = h
    <3>1. Good(u2, R, d) /\ Kept(u1, u2, Len(u1.vs) - 1) /\ Len(u2.vs) = Len(u1.vs) - 1 BY <2>3, Popped
    <3> HIDE DEF u2
    <3>2. QED BY <2>3, <3>1
  <2> HIDE DEF u2
  <2>5. Kept(cg, u2, h) BY <2>3, <2>4, KeptTwice
  <2>6. u2.nocode = v /\ (\A i \in 1 .. h : cg.vs[i].t = {} => u2.vs[i].t = {}) /\ h <= Len(cg.vs) BY <1>3, <2>1, <2>5 DEF Kept
  <2>7. Under(src, w, h)
    <3>1. Under(src, w, Len(src.stack) - 1) BY <1>3, <2>1, SPopped
    <3> HIDE DEF w
    <3>2. QED BY <1>3, <2>1, <3>1
  <2> HIDE DEF w
  <2>8. Ok(u2, w, a, "operand") BY <1>3, <1>5, <2>4, <2>6, <2>7, CloseOperand
  <2>9. QED BY <1>1, <1>4, <1>6, <2>8
<1>7. CASE Len(ctx) = 0
  <2>1. Len(cg.vs) = h /\ h <= Len(cg.vs) BY <1>3, <1>7
  <2>2. Under(src, src, h) BY <1>3, <2>1 DEF Under
  <2>3. Ok(cg, src, a, "operand") BY <1>3, <1>5, <2>1, <2>2, CloseOperand
  <2>4. QED BY <1>1, <1>4, <1>7, <2>3
<1>8. QED BY <1>6, <1>7

\* and ends.
LEMMA EndExpressionOk == ASSUME Ok(cg, src, ctx, need), EndExpression PROVE Ok(cg', src', ctx', need')
<1> DEFINE f == Last(ctx)
           b == Front(ctx)
           kept == Len(ctx) > 1 /\ ctx[Len(ctx) - 1].k = "block"
           u == vpop(cg)
           w == SPop(src)
<1>1. /\ ctx' = b /\ need = "after" /\ need' = "stmt" /\ Top("expr")
      /\ cg' = (IF kept THEN cg ELSE u) /\ src' = (IF kept THEN src ELSE w)
  BY DEF EndExpression, Leave
<1>2. PICK h, v, d, R : OkAt(cg, src, ctx, "after", h, v, d, R) BY <1>1 DEF Ok
<1>3. /\ h \in Nat /\ IsList(ctx) /\ Len(cg.vs) = h + 1 /\ Len(cg.vs) >= 1 /\ Len(cg.vs) - 1 = h
      /\ IsState(cg) /\ IsSource(src) /\ Len(src.stack) >= 1 /\ Len(src.stack) = h + 1 /\ Len(src.stack) - 1 = h
      /\ Good(cg, R, d) /\ cg.nocode = v
      /\ Stack(ctx, h, v, d, R, src.stack) /\ Aligned(cg.vs, src.stack, Len(cg.vs))
  BY <1>2, AfterFacts
<1>4. Len(ctx) >= 1 /\ Len(ctx) \in Nat /\ f.k = "expr" BY <1>1, <1>3, TopFrame
<1>5. PICK h0, v0 : /\ Leaving(f, ctx, h, v, d, R, src.stack, h0, v0)
                    /\ Stack(b, h0, v0, d, R \ Own(f), src.stack)
  BY <1>3, <1>4, StackLeft
<1>6. Len(b) + 1 = Len(ctx) /\ (Len(b) = 0 \/ Last(b).k = "block") /\ Len(b) \in Nat
  <2>1. Placed(ctx, Len(ctx)) BY <1>5 DEF Leaving
  <2>2. Last(ctx).k \in {"expr", "if", "then", "else"} BY <1>4
  <2>3. Len(b) \in Nat BY <1>5, StackFacts
  <2>4. QED BY <1>3, <1>4, <2>1, <2>2, <2>3, BelowStatement
<1>7. Len(b) # 0 <=> kept
  <2>1. \A i \in 1 .. Len(ctx) - 1 : b[i] = ctx[i] BY <1>3, <1>4, Shorter
  <2> HIDE DEF b
  <2>2. ASSUME Len(b) # 0 PROVE kept
    <3>1. Len(b) \in 1 .. Len(ctx) - 1 /\ Len(b) = Len(ctx) - 1 /\ Len(ctx) > 1 BY <1>6, <2>2
    <3>2. b[Len(b)].k = "block" BY <1>6, <2>2 DEF Last
    <3>3. QED BY <2>1, <3>1, <3>2
  <2>3. kept => Len(b) # 0 BY <1>6
  <2>4. QED BY <2>2, <2>3
<1> HIDE DEF f, kept
<1>8. h0 = h /\ v0 = v /\ R \ Own(f) = R
  <2>1. R \ Own(f) = R /\ v = v0 /\ h0 \in Nat BY <1>4, <1>5, SimpleLeft DEF Simple
  <2>2. h = h0 + Takes(f, Len(ctx)) BY <1>5 DEF Leaving
  <2>3. Takes(f, Len(ctx)) = 0 BY <1>4 DEF Takes
  <2> DEFINE tk == Takes(f, Len(ctx))
  <2>4. h = h0 + tk /\ tk = 0 BY <2>2, <2>3
  <2> HIDE DEF tk
  <2>5. h0 = h BY <2>1, <2>4
  <2>6. QED BY <2>1, <2>5
<1>9. Stack(b, h, v, d, R, src.stack) BY <1>5, <1>8
<1> HIDE DEF b
<1>10. CASE kept
  <2>1. Under(src, src, h + 1) BY <1>3 DEF Under
  <2> DEFINE n == h + 1
  <2>2. Resting(b, h, n) /\ Len(cg.vs) = n /\ n <= Len(cg.vs) /\ Under(src, src, n) BY <1>3, <1>6, <1>7, <1>10, <2>1 DEF Resting
  <2> HIDE DEF n
  <2>3. Ok(cg, src, b, "stmt") BY <1>3, <1>9, <2>2, CloseStatement
  <2>4. QED BY <1>1, <1>10, <2>3
<1>11. CASE ~kept
  <2>1. Good(u, R, d) /\ Kept(cg, u, h) /\ Len(u.vs) = h
    <3>1. Good(u, R, d) /\ Kept(cg, u, Len(cg.vs) - 1) /\ Len(u.vs) = Len(cg.vs) - 1 BY <1>3, Popped
    <3> HIDE DEF u
    <3>2. QED BY <1>3, <3>1
  <2>2. Under(src, w, h)
    <3>1. Under(src, w, Len(src.stack) - 1) BY <1>3, SPopped
    <3> HIDE DEF w
    <3>2. QED BY <1>3, <3>1
  <2> HIDE DEF u, w
  <2>3. u.nocode = v /\ (\A i \in 1 .. h : cg.vs[i].t = {} => u.vs[i].t = {}) /\ h <= Len(cg.vs) BY <1>3, <2>1 DEF Kept
  <2> DEFINE n == h
  <2>4. Resting(b, h, n) /\ Len(u.vs) = n /\ n <= Len(cg.vs) /\ Under(src, w, n)
        /\ \A i \in 1 .. n : cg.vs[i].t = {} => u.vs[i].t = {}
    BY <1>6, <1>7, <1>11, <2>1, <2>2, <2>3 DEF Resting
  <2> HIDE DEF n
  <2>5. IsState(cg) /\ Aligned(cg.vs, src.stack, Len(cg.vs)) /\ Good(u, R, d) /\ u.nocode = v BY <1>3, <2>1, <2>3
  <2>6. Ok(u, w, b, "stmt") BY ONLY <1>9, <2>4, <2>5, CloseStatement
  <2>7. QED BY <1>1, <1>11, <2>6
<1>12. QED BY <1>10, <1>11

\* u and w have a void value for the new statement of ({...}).
Begun(c, u, w, h, v, d, R, n) ==
    /\ Stack(c, h, v, d, R, w.stack) /\ IsSource(w) /\ Good(u, R, d) /\ u.nocode = v
    /\ Len(w.stack) = n /\ Len(u.vs) = n /\ Aligned(u.vs, w.stack, n) /\ Resting(c, h, n)

\* The value of the last statement is dropped.
LEMMA StatementBegun ==
    ASSUME NEW h, NEW v, NEW d, NEW R, OkAt(cg, src, ctx, "stmt", h, v, d, R)
    PROVE  \E n : Begun(ctx, NewStatement(cg), SNewStatement(src), h, v, d, R, n)
<1> DEFINE u == vsetc(vpop(cg), Const(0))
           e == Void(src)
           w == SPush(SPop(src), e)
<1>1. /\ h \in Nat /\ IsState(cg) /\ IsSource(src) /\ Good(cg, R, d) /\ cg.nocode = v /\ Len(src.stack) = Len(cg.vs)
      /\ Stack(ctx, h, v, d, R, src.stack) /\ Aligned(cg.vs, src.stack, Len(cg.vs))
      /\ (Len(ctx) = 0 \/ Last(ctx).k = "block") /\ IsList(ctx)
      /\ (Len(ctx) = 0 => Len(cg.vs) = h)
      /\ (Len(ctx) # 0 => Len(cg.vs) = h + 1 /\ Len(cg.vs) >= 1 /\ Len(cg.vs) - 1 = h)
  BY StatementFacts
<1>2. IsExpr <=> Len(ctx) # 0 BY <1>1, InBlock
<1>3. CASE Len(ctx) # 0
  <2>1. NewStatement(cg) = u /\ SNewStatement(src) = w BY <1>2, <1>3 DEF NewStatement, SNewStatement
  <2>2. Len(cg.vs) = h + 1 /\ Len(cg.vs) >= 1 /\ Len(cg.vs) - 1 = h BY <1>1, <1>3
  <2>3. Reset(cg, u, R, d) /\ vtop(u).t = {} BY <1>1, <2>2, StatementStarted
  <2> HIDE DEF u, e
  <2>4. Good(u, R, d) /\ Len(u.vs) = h + 1 /\ Kept(cg, u, h) /\ u.nocode = v BY <1>1, <2>2, <2>3 DEF Reset, Kept
  <2>5. Over(src, w, h, e)
    <3>1. Over(src, w, Len(src.stack) - 1, e) BY <1>1, <2>2, Replaced
    <3> HIDE DEF w
    <3>2. QED BY <1>1, <2>2, <3>1
  <2> HIDE DEF w
  <2>6. IsSource(w) /\ Len(w.stack) = h + 1 /\ \A i \in 1 .. h : w.stack[i] = src.stack[i] BY <2>5 DEF Over
  <2>7. Stack(ctx, h, v, d, R, w.stack) BY <1>1, <2>6, StackOther
  <2>8. Aligned(u.vs, w.stack, h + 1)
    <3>1. \A i \in 1 .. h : i \in 1 .. Len(cg.vs) BY <1>1, <2>2
    <3>2. ASSUME NEW i \in 1 .. h + 1, w.stack[i].kind # "bool" PROVE u.vs[i].t = {}
      <4>1. CASE i = h + 1 BY <2>3, <2>4, <4>1 DEF vtop
      <4>2. CASE i # h + 1
        <5>1. i \in 1 .. h BY <1>1, <4>2
        <5>2. cg.vs[i].t = {} BY <1>1, <2>6, <3>1, <3>2, <5>1 DEF Aligned
        <5>3. QED BY <2>4, <5>1, <5>2 DEF Kept
      <4>3. QED BY <4>1, <4>2
    <3>3. QED BY <3>2 DEF Aligned
  <2> DEFINE n == h + 1
  <2>9. Resting(ctx, h, n) BY <1>1, <1>3 DEF Resting
  <2>10. Len(w.stack) = n /\ Len(u.vs) = n /\ Aligned(u.vs, w.stack, n) BY <2>4, <2>6, <2>8
  <2> HIDE DEF n
  <2>11. Begun(ctx, u, w, h, v, d, R, n) BY <2>4, <2>6, <2>7, <2>9, <2>10 DEF Begun
  <2>12. QED BY <2>1, <2>11
<1>4. CASE Len(ctx) = 0
  <2>1. NewStatement(cg) = cg /\ SNewStatement(src) = src BY <1>2, <1>4 DEF NewStatement, SNewStatement
  <2>2. Resting(ctx, h, h) BY <1>1, <1>4 DEF Resting
  <2>3. Begun(ctx, cg, src, h, v, d, R, h) BY <1>1, <1>4, <2>2 DEF Begun
  <2>4. QED BY <2>1, <2>3
<1>5. QED BY <1>3, <1>4

\* An if begins.
LEMMA IfOk == ASSUME Ok(cg, src, ctx, need), If PROVE Ok(cg', src', ctx', need')
<1> DEFINE k == "if"
           a == Append(ctx, Frame(k, ""))
           u == NewStatement(cg)
           w == SNewStatement(src)
           nd == "operand"
<1>1. cg' = u /\ src' = w /\ ctx' = a /\ need = "stmt" /\ need' = nd BY DEF If, Enter
<1>2. PICK h, v, d, R : OkAt(cg, src, ctx, "stmt", h, v, d, R) BY <1>1 DEF Ok
<1>3. PICK n : Begun(ctx, u, w, h, v, d, R, n) BY <1>2, StatementBegun
<1> HIDE DEF u, w
<1>4. /\ Stack(ctx, h, v, d, R, w.stack) /\ IsSource(w) /\ Good(u, R, d) /\ u.nocode = v
      /\ Len(w.stack) = n /\ Len(u.vs) = n /\ Aligned(u.vs, w.stack, n)
      /\ (Len(ctx) = 0 \/ Last(ctx).k = "block") /\ n = IF Len(ctx) # 0 THEN h + 1 ELSE h
  BY <1>3 DEF Begun, Resting
<1>5. k \in {"expr", "if", "block"} /\ n = IF k = "if" /\ Len(ctx) # 0 THEN h + 1 ELSE h BY <1>4
<1> HIDE DEF k
<1>6. Stack(a, n, v, d, R, w.stack) BY <1>4, <1>5, StatementEntered
<1>7. Under(w, w, n) BY <1>4 DEF Under
<1>8. More(a, nd) = 0 /\ (nd = "stmt" => Len(a) = 0 \/ Last(a).k = "block") BY DEF More
<1> HIDE DEF nd, a
<1>9. Ok(u, w, a, nd) BY <1>4, <1>6, <1>7, <1>8, CloseLow
<1>10. QED BY <1>1, <1>9

\* ({...}) begins,
LEMMA BlockOk == ASSUME Ok(cg, src, ctx, need), Block PROVE Ok(cg', src', ctx', need')
<1> DEFINE k == "block"
           a == Append(ctx, Frame(k, ""))
           s1 == save_regs(cg, 0)
           x == Const(0)
           u == vsetc(s1, x)
           e == Void(src)
           w == SPush(src, e)
           nd == "stmt"
<1>1. cg' = u /\ src' = w /\ ctx' = a /\ need = "operand" /\ need' = nd BY DEF Block, Enter
<1>2. PICK h, v, d, R : OkAt(cg, src, ctx, "operand", h, v, d, R) BY <1>1 DEF Ok
<1>3. /\ h \in Nat /\ Len(cg.vs) = h /\ Len(src.stack) = h /\ IsState(cg) /\ IsSource(src) /\ Good(cg, R, d) /\ cg.nocode = v
      /\ Stack(ctx, h, v, d, R, src.stack) /\ Aligned(cg.vs, src.stack, Len(cg.vs)) /\ IsList(ctx)
  BY <1>2, OperandFacts
<1>4. Done(cg, s1, R, d) BY <1>3, SavedDone
<1>5. IsEntry(x) /\ x.t = {} BY ConstEntry
<1> HIDE DEF s1, x, e
<1>6. Good(s1, R, d) /\ Len(s1.vs) = h /\ Kept(cg, s1, h) BY <1>3, <1>4 DEF Done
<1>7. Good(u, R, d) /\ Kept(s1, u, h) /\ Len(u.vs) = h + 1 /\ vtop(u) = x
  <2>1. Good(u, R, d) /\ Kept(s1, u, Len(s1.vs)) /\ Len(u.vs) = Len(s1.vs) + 1 /\ vtop(u) = x BY <1>5, <1>6, PutPlain
  <2> HIDE DEF u
  <2>2. QED BY <1>6, <2>1
<1> HIDE DEF u
<1>8. Kept(cg, u, h) BY <1>6, <1>7, KeptTwice
<1>9. u.nocode = v /\ Aligned(u.vs, src.stack, h)
  <2>1. h <= h BY <1>3
  <2>2. QED BY <1>3, <1>8, <2>1, AlignedKept DEF Kept
<1>10. Over(src, w, h, e) BY <1>3, SPushed
<1> HIDE DEF w
<1>11. Stack(a, h, v, d, R, src.stack)
  <2> DEFINE n == h
  <2>1. n = (IF k = "if" /\ Len(ctx) # 0 THEN h + 1 ELSE h) /\ k \in {"expr", "if", "block"} /\ k = "block" OBVIOUS
  <2> HIDE DEF k, n
  <2>2. Stack(a, n, v, d, R, src.stack) BY <1>3, <2>1, StatementEntered
  <2>3. QED BY <2>2 DEF n
<1>12. More(a, nd) = 1 /\ (nd = "stmt" => Len(a) = 0 \/ Last(a).k = "block")
  <2> DEFINE f == Frame(k, "")
  <2>1. f.k = "block"
    <3>1. k \in {"expr", "if", "block"} OBVIOUS
    <3> HIDE DEF k
    <3>2. f.k = k BY <3>1, OpenFrame
    <3>3. QED BY <3>2 DEF k
  <2> HIDE DEF f
  <2>2. Len(a) = Len(ctx) + 1 /\ a[Len(ctx) + 1] = f BY <1>3, Longer DEF f
  <2> HIDE DEF a
  <2>3. Last(a) = f /\ Len(a) # 0 BY <1>3, <2>2 DEF Last, IsList
  <2>4. QED BY <2>1, <2>3 DEF More
<1> HIDE DEF a, nd
<1>13. e.kind # "bool" => vtop(u).t = {} BY <1>5, <1>7
<1>14. Ok(u, w, a, nd) BY <1>7, <1>9, <1>10, <1>11, <1>12, <1>13, CloseTop
<1>15. QED BY <1>1, <1>14

\* and its last value is the value of it.
LEMMA EndBlockOk == ASSUME Ok(cg, src, ctx, need), EndBlock PROVE Ok(cg', src', ctx', need')
<1> DEFINE f == Last(ctx)
           b == Front(ctx)
<1>1. cg' = cg /\ src' = src /\ ctx' = b /\ need = "stmt" /\ need' = "after" /\ Top("block") BY DEF EndBlock, Leave
<1>2. PICK h, v, d, R : OkAt(cg, src, ctx, "stmt", h, v, d, R) BY <1>1 DEF Ok
<1>3. /\ h \in Nat /\ IsState(cg) /\ IsSource(src) /\ Good(cg, R, d) /\ cg.nocode = v /\ Len(src.stack) = Len(cg.vs)
      /\ Stack(ctx, h, v, d, R, src.stack) /\ Aligned(cg.vs, src.stack, Len(cg.vs)) /\ IsList(ctx)
      /\ (Len(ctx) # 0 => Len(cg.vs) = h + 1)
  BY <1>2, StatementFacts
<1>4. Len(ctx) >= 1 /\ Len(ctx) \in Nat /\ f.k = "block" BY <1>1, <1>3, TopFrame
<1>5. PICK h0, v0 : /\ Leaving(f, ctx, h, v, d, R, src.stack, h0, v0)
                    /\ Stack(b, h0, v0, d, R \ Own(f), src.stack)
  BY <1>3, <1>4, StackLeft
<1> HIDE DEF f
<1>6. h0 = h /\ v0 = v /\ R \ Own(f) = R
  <2>1. R \ Own(f) = R /\ v = v0 /\ h0 \in Nat BY <1>4, <1>5, SimpleLeft DEF Simple
  <2>2. h = h0 + Takes(f, Len(ctx)) BY <1>5 DEF Leaving
  <2>3. Takes(f, Len(ctx)) = 0 BY <1>4 DEF Takes
  <2> DEFINE tk == Takes(f, Len(ctx))
  <2>4. h = h0 + tk /\ tk = 0 BY <2>2, <2>3
  <2> HIDE DEF tk
  <2>5. h0 = h BY <2>1, <2>4
  <2>6. QED BY <2>1, <2>5
<1> DEFINE nd == "after"
<1>7. Stack(b, h, v, d, R, src.stack) BY <1>5, <1>6
<1>8. More(b, nd) = 1 /\ (nd = "stmt" => Len(b) = 0 \/ Last(b).k = "block") BY DEF More
<1>9. Len(cg.vs) = h + More(b, nd)
  <2>1. Len(ctx) # 0 BY <1>4
  <2>2. QED BY <1>3, <1>8, <2>1
<1> HIDE DEF nd, b
<1>10. OkAt(cg, src, b, nd, h, v, d, R) BY <1>3, <1>7, <1>8, <1>9 DEF OkAt
<1>11. QED BY <1>1, <1>10 DEF Ok, nd

-----------------------------------------------------------------------------
(* A new function                                                          *)

\* A new function
LEMMA FreshOk == Ok(Code0, Source0, <<>>, "stmt")
<1> DEFINE g == Code0
           s == Source0
           c == <<>>
           o == {}
           nd == "stmt"
           m == [k \in Paths |-> Machine0(k)]
<1>1. Stack(c, 0, 0, 0, o, s.stack) BY StackEmpty
<1>2. c \in Seq({}) /\ Len(c) = 0 OBVIOUS
<1>3. IsList(c) BY <1>2, SeqIsList
<1>4. IsSource(s) /\ Len(s.stack) = 0
  <2>1. s = [stack |-> c, mem |-> Inputs, act |-> Paths, want |-> [k \in Paths |-> <<>>]] BY DEF Source0
  <2> HIDE DEF s
  <2>2. s.stack = c BY <2>1
  <2> HIDE DEF c
  <2>3. s = [stack |-> s.stack, mem |-> s.mem, act |-> s.act, want |-> s.want] BY <2>1
  <2>4. QED BY <1>2, <1>3, <2>2, <2>3 DEF IsSource
<1>5. Good(g, o, 0) /\ g.nocode = 0 /\ Len(g.vs) = 0
  <2>0. g = [vs |-> c, nocode |-> 0, loc |-> 0, ind |-> 0, open |-> o, m |-> m, buried |-> FALSE] BY DEF Code0
  <2> HIDE DEF g, m, c, o
  <2>1. /\ g = [vs |-> g.vs, nocode |-> g.nocode, loc |-> g.loc, ind |-> g.ind, open |-> g.open,
                m |-> g.m, buried |-> g.buried]
        /\ g.vs = c /\ g.nocode = 0 /\ g.ind = 0 /\ g.open = o
    BY <2>0
  <2>2. IsState(g) BY <1>2, <1>3, <2>1 DEF IsState
  <2>3. Held(g, o) BY <1>2, <2>1 DEF Held, o
  <2>4. Idle(g, 0) BY <2>1 DEF Idle
  <2>5. QED BY <1>2, <2>1, <2>2, <2>3, <2>4 DEF Good
<1> HIDE DEF g, s
<1>6. More(c, nd) = 0 /\ Len(c) = 0 BY <1>2 DEF More
<1>7. Aligned(g.vs, s.stack, Len(g.vs)) BY <1>5 DEF Aligned
<1>8. Len(g.vs) = 0 + More(c, nd) BY <1>5, <1>6
<1> HIDE DEF c, nd, o
<1>9. OkAt(g, s, c, nd, 0, 0, 0, o) BY <1>1, <1>4, <1>5, <1>6, <1>7, <1>8 DEF OkAt
<1>10. Ok(g, s, c, nd) BY <1>9 DEF Ok
<1>11. QED BY <1>10 DEF g, s, c, nd

\* Code is generated again if x = y.
Resumes(u, s, x, y, n) ==
    /\ u = [s EXCEPT !.nocode = IF x = y THEN @ - 1 ELSE @]
    /\ n \in Nat /\ s.nocode = IF x = y THEN n + 1 ELSE n

\* (the chains stay)
LEMMA ResumedTo ==
    ASSUME NEW s, NEW R, NEW d, Good(s, R, d), NEW x, NEW y, NEW n, NEW u, Resumes(u, s, x, y, n)
    PROVE  Good(u, R, d) /\ u.vs = s.vs /\ u.nocode = n
<1>1. CASE x = y
  <2> DEFINE w == [s EXCEPT !.nocode = @ - 1]
  <2>1. u = w /\ n \in Nat /\ s.nocode = n + 1 BY <1>1 DEF Resumes
  <2> HIDE DEF w
  <2>2. s.nocode # 0 /\ s.nocode - 1 = n BY <2>1
  <2>3. Good(w, R, d) /\ w.vs = s.vs /\ w.nocode = s.nocode - 1 BY <2>2, Resumed DEF w
  <2>4. QED BY <2>1, <2>2, <2>3
<1>2. CASE x # y
  <2>1. u = [s EXCEPT !.nocode = @] /\ s.nocode = n BY <1>2 DEF Resumes
  <2>2. [s EXCEPT !.nocode = @] = s BY Unchanged DEF Good
  <2>3. QED BY <2>1, <2>2
<1>3. QED BY <1>1, <1>2

\* What is known of the frame f of an if, when the statement after the condition or after else ends
Branching(f, c, h, v, R, h0, v0, x) ==
    /\ IsFrame(f) /\ f.u = {} /\ f.sv.t = {} /\ f.c \in {-1, 0, 1} /\ Own(f) = f.t /\ f.t \subseteq R
    /\ v0 \in Nat /\ h0 \in Nat /\ v = (IF f.c = x THEN v0 + 1 ELSE v0) /\ (v0 # 0 => f.t = {})
    /\ Resting(Front(c), h0, h) /\ Len(Front(c)) + 1 = Len(c)

\* The statement of an if that is not reached when the condition is not or is x
Unreached(f, x) == (f.k = "then" /\ x = 0) \/ (f.k = "else" /\ x = 1)

\* Its frame
LEMMA BranchLeft ==
    ASSUME NEW c, IsList(c), Len(c) >= 1, NEW h, NEW v, NEW d, NEW R, NEW st, NEW h0, NEW v0,
           Leaving(Last(c), c, h, v, d, R, st, h0, v0), NEW x, Unreached(Last(c), x)
    PROVE  Branching(Last(c), c, h, v, R, h0, v0, x)
<1> DEFINE f == Last(c)
           b == Front(c)
           n == Len(c)
<1>1. /\ FrameOk(f) /\ Placed(c, n) /\ h0 \in Nat /\ v0 \in Nat /\ h = h0 + Takes(f, n) /\ v = v0 + Falls(f)
      /\ (v0 # 0 => Own(f) = {}) /\ Own(f) \subseteq R
  BY DEF Leaving
<1>2. f.k \in {"then", "else"} /\ ((f.k = "then" /\ x = 0) \/ (f.k = "else" /\ x = 1)) BY DEF Unreached
<1>3. Len(b) + 1 = n /\ (Len(b) = 0 \/ Last(b).k = "block") /\ Len(b) \in Nat
  <2>1. Last(c).k \in {"expr", "if", "then", "else"} BY <1>2
  <2>2. Len(b) + 1 = n /\ (Len(b) = 0 \/ Last(b).k = "block") BY <1>1, <2>1, BelowStatement
  <2>3. Len(b) = n - 1 /\ n \in Nat /\ IsList(b) BY Shorter DEF IsList
  <2>4. QED BY <2>2, <2>3 DEF IsList
<1>4. Falls(f) = IF f.c = x THEN 1 ELSE 0
  <2>1. CASE f.k = "then" /\ x = 0 BY <2>1 DEF Falls
  <2>2. CASE f.k = "else" /\ x = 1 BY <2>2 DEF Falls
  <2>3. QED BY <1>2, <2>1, <2>2
<1> HIDE DEF f, b
<1>5. f.u = {} /\ f.sv.t = {} /\ IsFrame(f) /\ f.c \in {-1, 0, 1} BY <1>1, <1>2 DEF FrameOk, Ruled, IsFrame
<1>6. Own(f) = f.t BY <1>5 DEF Own
<1>7. Takes(f, n) = IF n > 1 THEN 1 ELSE 0
  <2> HIDE DEF n
  <2>1. QED BY <1>2 DEF Takes
<1> DEFINE tk == Takes(f, n)
           fl == Falls(f)
<1>8. h = h0 + tk /\ v = v0 + fl /\ (tk = IF n > 1 THEN 1 ELSE 0) /\ (fl = IF f.c = x THEN 1 ELSE 0) BY <1>1, <1>4, <1>7
<1> HIDE DEF tk, fl
<1>9. h = (IF Len(b) # 0 THEN h0 + 1 ELSE h0) /\ v = (IF f.c = x THEN v0 + 1 ELSE v0)
  <2>1. n > 1 <=> Len(b) # 0 BY <1>3
  <2>2. QED BY <1>1, <1>8, <2>1
<1>10. Resting(b, h0, h) BY <1>3, <1>9 DEF Resting
<1>11. Branching(f, c, h, v, R, h0, v0, x) BY <1>1, <1>3, <1>5, <1>6, <1>9, <1>10 DEF Branching, b, n
<1>12. QED BY <1>11 DEF f

\* The end of the statement that depends on a condition
LEMMA BranchClosed ==
    ASSUME NEW c, NEW h, NEW h0, NEW v, NEW v0, NEW d, NEW R, OkAt(cg, src, c, "after", h, v, d, R),
           NEW f, NEW x, Branching(f, c, h, v, R, h0, v0, x), Stack(Front(c), h0, v0, d, R \ Own(f), src.stack),
           NEW s, Good(s, R \ f.t, d), s.vs = vpop(cg).vs, s.nocode = v0,
           NEW act, NEW w, w = [SPop(src) EXCEPT !.act = act]
    PROVE  Ok(s, w, Front(c), "stmt")
<1> DEFINE b == Front(c)
           u == vpop(cg)
           S == R \ f.t
<1>1. /\ h \in Nat /\ Len(cg.vs) = h + 1 /\ Len(cg.vs) >= 1 /\ Len(cg.vs) - 1 = h
      /\ IsState(cg) /\ IsSource(src) /\ Len(src.stack) >= 1 /\ Len(src.stack) - 1 = h
      /\ Good(cg, R, d) /\ Aligned(cg.vs, src.stack, Len(cg.vs))
  BY AfterFacts
<1>2. Kept(cg, u, h) /\ Len(u.vs) = h
  <2>1. Kept(cg, u, Len(cg.vs) - 1) /\ Len(u.vs) = Len(cg.vs) - 1 BY <1>1, Popped
  <2> HIDE DEF u
  <2>2. QED BY <1>1, <2>1
<1>3. Under(src, w, h)
  <2> DEFINE z == [SPop(src) EXCEPT !.act = act]
  <2>1. Under(src, z, Len(src.stack) - 1) BY <1>1, SourcePopped
  <2>2. w = z OBVIOUS
  <2> HIDE DEF z
  <2>3. QED BY <1>1, <2>1, <2>2
<1>4. Stack(b, h0, v0, d, S, src.stack) /\ Resting(b, h0, h) BY DEF Branching
<1>5. s.vs = u.vs OBVIOUS
<1> HIDE DEF u, b
<1>6. h <= Len(cg.vs) /\ Len(s.vs) = h /\ \A i \in 1 .. h : cg.vs[i].t = {} => s.vs[i].t = {}
  <2>1. h <= Len(cg.vs) BY <1>1
  <2>2. Len(u.vs) = h /\ \A i \in 1 .. h : cg.vs[i].t = {} => u.vs[i].t = {} BY <1>2 DEF Kept
  <2>3. QED BY ONLY <1>5, <2>1, <2>2
<1>7. Good(s, S, d) /\ s.nocode = v0 OBVIOUS
<1> HIDE DEF S
<1>8. IsState(cg) /\ Aligned(cg.vs, src.stack, Len(cg.vs)) BY <1>1
<1>9. Ok(s, w, b, "stmt") BY ONLY <1>3, <1>4, <1>6, <1>7, <1>8, CloseStatement
<1>10. QED BY <1>9 DEF b

\* if without else
LEMMA EndThenOk == ASSUME Ok(cg, src, ctx, need), EndThen PROVE Ok(cg', src', ctx', need')
<1> DEFINE f == Last(ctx)
           b == Front(ctx)
           s == vpop(cg)
           x == 0
           a == [s EXCEPT !.nocode = IF f.c = x THEN @ - 1 ELSE @]
           t == f.t
           u == gsym(a, t)
           act == f.act
           w == [SPop(src) EXCEPT !.act = act]
<1>1. cg' = u /\ src' = w /\ ctx' = b /\ need = "after" /\ need' = "stmt" /\ Top("then") BY DEF EndThen, Leave
<1>2. PICK h, v, d, R : OkAt(cg, src, ctx, "after", h, v, d, R) BY <1>1 DEF Ok
<1>3. /\ IsList(ctx) /\ Len(cg.vs) >= 1 /\ Good(cg, R, d) /\ cg.nocode = v /\ Stack(ctx, h, v, d, R, src.stack)
  BY <1>2, AfterFacts
<1>4. Len(ctx) >= 1 /\ Len(ctx) \in Nat /\ f.k = "then" BY <1>1, <1>3, TopFrame
<1>5. PICK h0, v0 : /\ Leaving(f, ctx, h, v, d, R, src.stack, h0, v0)
                    /\ Stack(b, h0, v0, d, R \ Own(f), src.stack)
  BY <1>3, <1>4, StackLeft
<1>6. Branching(f, ctx, h, v, R, h0, v0, x)
  <2>1. Unreached(f, x) BY <1>4 DEF Unreached
  <2> HIDE DEF x
  <2>2. QED BY <1>3, <1>4, <1>5, <2>1, BranchLeft
<1> HIDE DEF f, act
<1>7. v0 \in Nat /\ v = (IF f.c = x THEN v0 + 1 ELSE v0) /\ t \subseteq R BY <1>6 DEF Branching
<1>8. Good(s, R, d) /\ s.nocode = v
  <2>1. Good(s, R, d) /\ Kept(cg, s, Len(cg.vs) - 1) BY <1>3, Popped
  <2> HIDE DEF s
  <2>2. QED BY <1>3, <2>1 DEF Kept
<1> HIDE DEF s, x, t
<1>9. Good(a, R, d) /\ a.vs = s.vs /\ a.nocode = v0
  <2> DEFINE y == f.c
  <2>1. Resumes(a, s, y, x, v0) BY <1>7, <1>8 DEF Resumes
  <2> HIDE DEF a, y
  <2>2. QED BY ONLY <1>8, <2>1, ResumedTo
<1> HIDE DEF a
<1>10. Good(u, R \ t, d) /\ u.vs = s.vs /\ u.nocode = v0
  <2>1. t \in SUBSET R BY <1>7
  <2>2. Good(u, R \ t, d) /\ u.vs = a.vs /\ u.nocode = a.nocode BY <1>9, <2>1, Patched
  <2> HIDE DEF u
  <2>3. QED BY <1>9, <2>2
<1> HIDE DEF u
<1>11. Good(u, R \ f.t, d) /\ u.vs = vpop(cg).vs BY <1>10 DEF t, s
<1> HIDE DEF w
<1>12. w = [SPop(src) EXCEPT !.act = act] BY DEF w
<1>13. Stack(Front(ctx), h0, v0, d, R \ Own(f), src.stack) /\ u.nocode = v0 BY <1>5, <1>10
<1>14. Ok(u, w, b, "stmt") BY ONLY <1>2, <1>6, <1>11, <1>12, <1>13, BranchClosed
<1>15. QED BY <1>1, <1>14

\* if with else
LEMMA EndElseOk == ASSUME Ok(cg, src, ctx, need), EndElse PROVE Ok(cg', src', ctx', need')
<1> DEFINE f == Last(ctx)
           b == Front(ctx)
           s == vpop(cg)
           x == 1
           t == f.t
           a == gsym(s, t)
           u == [a EXCEPT !.nocode = IF f.c = x THEN @ - 1 ELSE @]
           act == f.act
           w == [SPop(src) EXCEPT !.act = act]
<1>1. cg' = u /\ src' = w /\ ctx' = b /\ need = "after" /\ need' = "stmt" /\ Top("else") BY DEF EndElse, Leave
<1>2. PICK h, v, d, R : OkAt(cg, src, ctx, "after", h, v, d, R) BY <1>1 DEF Ok
<1>3. /\ IsList(ctx) /\ Len(cg.vs) >= 1 /\ Good(cg, R, d) /\ cg.nocode = v /\ Stack(ctx, h, v, d, R, src.stack)
  BY <1>2, AfterFacts
<1>4. Len(ctx) >= 1 /\ Len(ctx) \in Nat /\ f.k = "else" BY <1>1, <1>3, TopFrame
<1>5. PICK h0, v0 : /\ Leaving(f, ctx, h, v, d, R, src.stack, h0, v0)
                    /\ Stack(b, h0, v0, d, R \ Own(f), src.stack)
  BY <1>3, <1>4, StackLeft
<1>6. Branching(f, ctx, h, v, R, h0, v0, x)
  <2>1. Unreached(f, x) BY <1>4 DEF Unreached
  <2> HIDE DEF x
  <2>2. QED BY <1>3, <1>4, <1>5, <2>1, BranchLeft
<1> HIDE DEF f, act
<1>7. v0 \in Nat /\ v = (IF f.c = x THEN v0 + 1 ELSE v0) /\ t \subseteq R BY <1>6 DEF Branching
<1>8. Good(s, R, d) /\ s.nocode = v
  <2>1. Good(s, R, d) /\ Kept(cg, s, Len(cg.vs) - 1) BY <1>3, Popped
  <2> HIDE DEF s
  <2>2. QED BY <1>3, <2>1 DEF Kept
<1> HIDE DEF s, x, t
<1>9. Good(a, R \ t, d) /\ a.vs = s.vs /\ a.nocode = v
  <2>1. t \in SUBSET R BY <1>7
  <2>2. Good(a, R \ t, d) /\ a.vs = s.vs /\ a.nocode = s.nocode BY <1>8, <2>1, Patched
  <2> HIDE DEF a
  <2>3. QED BY <1>8, <2>2
<1> HIDE DEF a
<1> DEFINE S == R \ t
<1>10. Good(u, S, d) /\ u.vs = a.vs /\ u.nocode = v0
  <2> DEFINE y == f.c
  <2>1. Resumes(u, a, y, x, v0) BY <1>7, <1>9 DEF Resumes
  <2>2. Good(a, S, d) BY <1>9
  <2> HIDE DEF u, y, S
  <2>3. QED BY ONLY <2>1, <2>2, ResumedTo
<1> HIDE DEF u
<1>11. Good(u, R \ f.t, d) /\ u.vs = vpop(cg).vs BY <1>9, <1>10 DEF t, s
<1> HIDE DEF w
<1>12. w = [SPop(src) EXCEPT !.act = act] BY DEF w
<1>13. Stack(Front(ctx), h0, v0, d, R \ Own(f), src.stack) /\ u.nocode = v0 BY <1>5, <1>10
<1>14. Ok(u, w, b, "stmt") BY ONLY <1>2, <1>6, <1>11, <1>12, <1>13, BranchClosed
<1>15. QED BY <1>1, <1>14

\* The frame of an if after else, with the jump over it
Alternative(p, f, t) ==
    /\ FrameOk(p) /\ Own(p) = t /\ p.k = "else" /\ (\A h, st : Below(p, h, st))
    /\ Falls(p) = (IF f.c = 1 THEN 1 ELSE 0) /\ \A i : Takes(p, i) = IF i > 1 THEN 1 ELSE 0

\* It is in order.
LEMMA AlternativeFrame ==
    ASSUME NEW f, IsFrame(f), f.u = {}, f.sv.t = {}, NEW t
    PROVE  Alternative([f EXCEPT !.k = "else", !.t = t], f, t)
<1> DEFINE k == "else"
           a == [f EXCEPT !.k = k]
           g == [a EXCEPT !.t = t]
<1>0. [f EXCEPT !.k = "else", !.t = t] = g OBVIOUS
<1>1. f = [k |-> f.k, op |-> f.op, t |-> f.t, u |-> f.u, c |-> f.c, dead |-> f.dead, sv |-> f.sv,
           val |-> f.val, act |-> f.act, n |-> f.n, i |-> f.i, wide |-> f.wide]
  BY DEF IsFrame
<1> HIDE DEF k
<1>2. a = [k |-> k, op |-> f.op, t |-> f.t, u |-> f.u, c |-> f.c, dead |-> f.dead, sv |-> f.sv,
           val |-> f.val, act |-> f.act, n |-> f.n, i |-> f.i, wide |-> f.wide]
  BY ONLY <1>1
<1> HIDE DEF a
<1>3. g = [k |-> k, op |-> f.op, t |-> t, u |-> f.u, c |-> f.c, dead |-> f.dead, sv |-> f.sv,
           val |-> f.val, act |-> f.act, n |-> f.n, i |-> f.i, wide |-> f.wide]
  BY ONLY <1>2
<1> HIDE DEF g
<1>4. /\ g = [k |-> g.k, op |-> g.op, t |-> g.t, u |-> g.u, c |-> g.c, dead |-> g.dead, sv |-> g.sv,
              val |-> g.val, act |-> g.act, n |-> g.n, i |-> g.i, wide |-> g.wide]
      /\ g.k = k /\ g.t = t /\ g.u = f.u /\ g.c = f.c /\ g.sv = f.sv /\ g.dead = f.dead /\ g.n = f.n /\ g.i = f.i
  BY ONLY <1>3
<1>5. IsFrame(g) BY <1>4 DEF IsFrame
<1>6. g.k = "else" /\ g.t = t /\ g.u = {} /\ g.sv.t = {} /\ g.c = f.c BY <1>4 DEF k
<1>7. Own(g) = t /\ Apart(g) BY <1>6 DEF Own, Apart
<1>8. Ruled(g) BY <1>6 DEF Ruled
<1>9. \A h, st : Below(g, h, st) BY <1>6 DEF Below
<1>10. Falls(g) = IF f.c = 1 THEN 1 ELSE 0 BY <1>6 DEF Falls
<1>11. \A i : Takes(g, i) = IF i > 1 THEN 1 ELSE 0 BY <1>6 DEF Takes
<1>12. Alternative(g, f, t) BY <1>5, <1>6, <1>7, <1>8, <1>9, <1>10, <1>11 DEF FrameOk, Alternative
<1>13. QED BY <1>0, <1>12

\* Code is no longer generated if x = y.
Suppresses(u, s, x, y, n, d, e) ==
    /\ u = [s EXCEPT !.nocode = IF x = y THEN @ + 1 ELSE @]
    /\ n = (IF x = y THEN s.nocode + 1 ELSE s.nocode) /\ (IF x = y THEN Limit(s, d, e) ELSE e = d)

\* (the chains stay)
LEMMA SuppressedTo ==
    ASSUME NEW s, NEW R, NEW d, Good(s, R, d), NEW x, NEW y, NEW n, NEW u, NEW e, Suppresses(u, s, x, y, n, d, e)
    PROVE  Good(u, R, e) /\ u.vs = s.vs /\ u.nocode = n
<1>1. CASE x = y
  <2> DEFINE w == [s EXCEPT !.nocode = @ + 1]
  <2>1. u = w /\ n = s.nocode + 1 /\ e \in Nat /\ (s.nocode # 0 => e = d) /\ (s.nocode = 0 => e >= Len(s.vs))
    BY <1>1 DEF Suppresses, Limit
  <2>2. Good(w, R, e) /\ w.vs = s.vs /\ w.nocode = s.nocode + 1 BY <2>1, Suppressed
  <2> HIDE DEF w
  <2>3. QED BY <2>1, <2>2
<1>2. CASE x # y
  <2>1. u = [s EXCEPT !.nocode = @] /\ s.nocode = n /\ e = d BY <1>2 DEF Suppresses
  <2>2. [s EXCEPT !.nocode = @] = s BY Unchanged DEF Good
  <2>3. QED BY <2>1, <2>2
<1>3. QED BY <1>1, <1>2

\* The other statement of an if
LEMMA ElseOk == ASSUME Ok(cg, src, ctx, need), Else PROVE Ok(cg', src', ctx', need')
<1> DEFINE f == Last(ctx)
           b == Front(ctx)
           s == vpop(cg)
           x == 0
           g == [s EXCEPT !.nocode = IF f.c = x THEN @ - 1 ELSE @]
           t == f.t
           j == gjmp(g, {})
           m == gsym(j.s, t)
           y == 1
           u == [m EXCEPT !.nocode = IF f.c = y THEN @ + 1 ELSE @]
           p == [f EXCEPT !.k = "else", !.t = j.t]
           act == f.act \ src.act
           w == [SPop(src) EXCEPT !.act = act]
           a == Append(b, p)
           nd == "operand"
<1>1. cg' = u /\ ctx' = a /\ need = "after" /\ need' = nd /\ Top("then") BY DEF Else, Become
<1>2. PICK h, v, d, R : OkAt(cg, src, ctx, "after", h, v, d, R) BY <1>1 DEF Ok
<1>3. /\ h \in Nat /\ d \in Nat /\ IsList(ctx) /\ Len(cg.vs) = h + 1 /\ Len(cg.vs) >= 1 /\ Len(cg.vs) - 1 = h
      /\ IsState(cg) /\ IsSource(src) /\ Len(src.stack) >= 1 /\ Len(src.stack) - 1 = h /\ Good(cg, R, d) /\ cg.nocode = v
      /\ Stack(ctx, h, v, d, R, src.stack) /\ Aligned(cg.vs, src.stack, Len(cg.vs))
  BY <1>2, AfterFacts
<1>4. src' = w
  <2>1. src' = [SPop(src) EXCEPT !.act = f.act \ @] BY DEF Else
  <2>2. SPop(src).act = src.act BY <1>3, PoppedAct
  <2>3. QED BY <2>1, <2>2
<1>5. Len(ctx) >= 1 /\ Len(ctx) \in Nat /\ f.k = "then" BY <1>1, <1>3, TopFrame
<1>6. PICK h0, v0 : /\ Leaving(f, ctx, h, v, d, R, src.stack, h0, v0)
                    /\ Stack(b, h0, v0, d, R \ Own(f), src.stack)
  BY <1>3, <1>5, StackLeft
<1>7. Branching(f, ctx, h, v, R, h0, v0, x)
  <2>1. Unreached(f, x) BY <1>5 DEF Unreached
  <2> HIDE DEF x
  <2>2. QED BY <1>3, <1>5, <1>6, <2>1, BranchLeft
<1>8. Under(src, w, h)
  <2>1. Under(src, w, Len(src.stack) - 1) BY <1>3, SourcePopped
  <2> HIDE DEF w
  <2>2. QED BY <1>3, <2>1
<1>9. Alternative(p, f, j.t)
  <2> HIDE DEF f, j
  <2>1. IsFrame(f) /\ f.u = {} /\ f.sv.t = {} BY <1>7 DEF Branching
  <2>2. QED BY ONLY <2>1, AlternativeFrame
<1> HIDE DEF f, act, w, p
<1>10. /\ v0 \in Nat /\ h0 \in Nat /\ v = (IF f.c = x THEN v0 + 1 ELSE v0) /\ t \subseteq R /\ (v0 # 0 => t = {}) /\ Own(f) = t
       /\ Resting(b, h0, h)
  BY <1>7 DEF Branching
<1>11. Good(s, R, d) /\ s.nocode = v /\ Kept(cg, s, h) /\ Len(s.vs) = h
  <2>1. Good(s, R, d) /\ Kept(cg, s, Len(cg.vs) - 1) /\ Len(s.vs) = Len(cg.vs) - 1 BY <1>3, Popped
  <2> HIDE DEF s
  <2>2. QED BY <1>3, <2>1 DEF Kept
<1> HIDE DEF s, x, t, b, y, nd
<1>12. Good(g, R, d) /\ g.vs = s.vs /\ g.nocode = v0
  <2> DEFINE z == f.c
  <2>1. Resumes(g, s, z, x, v0) BY <1>10, <1>11 DEF Resumes
  <2> HIDE DEF g, z
  <2>2. QED BY ONLY <1>11, <2>1, ResumedTo
<1> HIDE DEF g
<1> DEFINE T == j.t
           S == (R \ t) \cup T
<1>13. T \cap R = {} /\ (v0 # 0 => T = {}) /\ Good(m, S, d) /\ m.vs = s.vs /\ m.nocode = v0
  <2>1. JumpOver(g, j, t, R, d) BY <1>10, <1>12, JumpedOver
  <2> HIDE DEF j, m
  <2>2. T \cap R = {} /\ (g.nocode # 0 => T = {}) /\ Good(m, S, d) /\ m.vs = g.vs /\ m.nocode = g.nocode
    BY <2>1 DEF JumpOver, m
  <2>3. QED BY <1>12, <2>2
<1> HIDE DEF m, j, S, T
<1> DEFINE e == IF f.c = y /\ v0 = 0 THEN h ELSE d
           z == f.c
           n == IF z = y THEN v0 + 1 ELSE v0
<1>14. e \in Nat /\ (v0 # 0 => e = d) /\ (z = y /\ v0 = 0 => e = h) /\ (z # y => e = d) BY <1>3
<1> HIDE DEF e
<1>15. Suppresses(u, m, z, y, n, d, e)
  <2>1. z = y => Limit(m, d, e)
    <3>1. Len(m.vs) = h BY <1>11, <1>13
    <3> HIDE DEF z
    <3>2. QED BY <1>3, <1>13, <1>14, <3>1 DEF Limit
  <2>2. n = (IF z = y THEN m.nocode + 1 ELSE m.nocode) BY <1>13
  <2>3. u = [m EXCEPT !.nocode = IF z = y THEN @ + 1 ELSE @] OBVIOUS
  <2> HIDE DEF u, n, z
  <2>4. QED BY <1>14, <2>1, <2>2, <2>3 DEF Suppresses
<1> HIDE DEF u
<1>16. Good(u, S, e) /\ u.vs = m.vs /\ u.nocode = n
  <2>1. Good(m, S, d) BY <1>13
  <2> HIDE DEF n, z
  <2>2. QED BY ONLY <1>15, <2>1, SuppressedTo
<1>17. FrameOk(p) /\ Own(p) = T /\ p.k = "else" /\ (\A i, st : Below(p, i, st)) BY <1>9 DEF Alternative, T
<1> DEFINE tk == Takes(p, Len(b) + 1)
           fl == Falls(p)
<1>18. fl = IF z = y THEN 1 ELSE 0 BY <1>9 DEF Alternative, y
<1>19. tk = IF Len(b) # 0 THEN 1 ELSE 0
  <2>1. Stack(b, h0, v0, d, R \ Own(f), src.stack) BY <1>6 DEF b
  <2>2. Len(b) \in Nat BY <2>1, StackFacts
  <2> DEFINE i == Len(b) + 1
  <2>3. i > 1 <=> Len(b) # 0 BY <2>2
  <2> HIDE DEF i
  <2>4. Takes(p, i) = IF i > 1 THEN 1 ELSE 0 BY <1>9 DEF Alternative
  <2>5. QED BY <2>3, <2>4 DEF i
<1>20. h0 + tk = h
  <2>1. h = IF Len(b) # 0 THEN h0 + 1 ELSE h0 BY <1>10 DEF Resting
  <2> HIDE DEF tk
  <2>2. QED BY <1>10, <1>19, <2>1
<1>21. v0 + fl = n
  <2> HIDE DEF fl, z
  <2>1. QED BY <1>10, <1>18
<1> HIDE DEF z, n
<1> DEFINE R0 == R \ Own(f)
<1>22. Entering(p, b, h0, v0, d, R0, src.stack, e)
  <2>1. v0 = 0 /\ fl # 0 => e <= h0 + tk
    <3> HIDE DEF fl, tk
    <3>1. ASSUME v0 = 0, fl # 0 PROVE e <= h0 + tk
      <4>1. z = y BY <1>18, <3>1
      <4>2. e = h BY <1>14, <3>1, <4>1 DEF z
      <4>3. QED BY <1>3, <1>20, <4>2
    <3>2. QED BY <3>1
  <2>2. Len(b) = 0 \/ Last(b).k = "block" BY <1>10 DEF Resting
  <2>3. Own(p) \cap R0 = {} /\ (v0 # 0 => Own(p) = {}) BY <1>13, <1>17
  <2>4. Below(p, h0, src.stack) BY <1>17
  <2>5. QED BY <1>14, <1>17, <2>1, <2>2, <2>3, <2>4 DEF Entering
<1>23. Stack(a, h0 + tk, v0 + fl, e, R0 \cup Own(p), src.stack)
  <2>1. Stack(b, h0, v0, d, R0, src.stack) BY <1>6 DEF b
  <2> HIDE DEF R0
  <2>2. QED BY <1>22, <2>1, StackEntered
<1> HIDE DEF tk, fl, a
<1>24. R0 \cup Own(p) = S BY <1>10, <1>17 DEF S
<1> HIDE DEF R0
<1>25. Stack(a, h, n, e, S, src.stack) BY <1>20, <1>21, <1>23, <1>24
<1>26. Len(u.vs) = h /\ (\A i \in 1 .. h : cg.vs[i].t = {} => u.vs[i].t = {}) /\ h <= Len(cg.vs)
  <2>1. u.vs = s.vs BY <1>13, <1>16
  <2>2. \A i \in 1 .. h : cg.vs[i].t = {} => s.vs[i].t = {} BY <1>11 DEF Kept
  <2>3. h <= Len(cg.vs) BY <1>3
  <2>4. QED BY ONLY <1>11, <2>1, <2>2, <2>3
<1>27. IsState(cg) /\ Aligned(cg.vs, src.stack, Len(cg.vs)) /\ Good(u, S, e) /\ u.nocode = n BY <1>3, <1>16
<1>28. Ok(u, w, a, "operand") BY ONLY <1>8, <1>25, <1>26, <1>27, CloseOperand
<1>29. QED BY <1>1, <1>4, <1>28 DEF nd

-----------------------------------------------------------------------------
(* The theorems                                                            *)

\* The chains that JumpsHeld speaks of
Holders ==
    {<<"vs", i>> : i \in DOMAIN cg.vs} \cup {<<x, i>> : x \in {"t", "u", "sv"}, i \in DOMAIN ctx}
\* The chain of one of them
ChainAt(h) ==
    CASE h[1] = "vs" -> cg.vs[h[2]].t [] h[1] = "t" -> ctx[h[2]].t
      [] h[1] = "u" -> ctx[h[2]].u [] h[1] = "sv" -> ctx[h[2]].sv.t

\* Each of them
LEMMA ChainsAt ==
    /\ \A i : ChainAt(<<"vs", i>>) = cg.vs[i].t
    /\ \A i : ChainAt(<<"t", i>>) = ctx[i].t /\ ChainAt(<<"u", i>>) = ctx[i].u /\ ChainAt(<<"sv", i>>) = ctx[i].sv.t
BY DEF ChainAt

\* With the invariant every open jump is in one of them.
LEMMA OkHolds == ASSUME Ok(cg, src, ctx, need) PROVE JumpsHeld
<1>1. PICK h, v, d, R : OkAt(cg, src, ctx, need, h, v, d, R) BY DEF Ok
<1>2. Good(cg, R, d) /\ Stack(ctx, h, v, d, R, src.stack) BY <1>1 DEF OkAt
<1>3. PICK H, D : Frames(ctx, H, D, d, R, src.stack) BY <1>2 DEF Stack
<1>4. IsList(cg.vs) /\ IsList(ctx) BY <1>2, <1>3 DEF Good, IsState, Frames, Sound
<1>5. DOMAIN cg.vs = 1 .. Len(cg.vs) /\ DOMAIN ctx = 1 .. Len(ctx) BY <1>4 DEF IsList
<1>6. /\ \A x \in cg.open : x \in R \/ \E i \in 1 .. Len(cg.vs) : x \in cg.vs[i].t
      /\ \A x \in R : x \in cg.open /\ \A i \in 1 .. Len(cg.vs) : x \notin cg.vs[i].t
      /\ \A i \in 1 .. Len(cg.vs) : \A x \in cg.vs[i].t :
            x \in cg.open /\ \A j \in 1 .. Len(cg.vs) : x \in cg.vs[j].t => j = i
  BY <1>2 DEF Good, Held
<1>7. /\ \A i \in 1 .. Len(ctx) : \A x \in Own(ctx[i]) : x \in R /\ \A j \in 1 .. Len(ctx) : x \in Own(ctx[j]) => j = i
      /\ \A x \in R : \E i \in 1 .. Len(ctx) : x \in Own(ctx[i])
  BY <1>3 DEF Frames, Chains
<1>8. \A i \in 1 .. Len(ctx) : Apart(ctx[i]) BY <1>3 DEF Frames, Sound, FrameOk
<1> DEFINE F(k) == {<<k, i>> : i \in 1 .. Len(ctx)}
           V == {<<"vs", i>> : i \in 1 .. Len(cg.vs)}
<1>9. Holders = V \cup F("t") \cup F("u") \cup F("sv") BY <1>5 DEF Holders
\* The entry or the frame that holds a jump
<1>10. ASSUME NEW g \in Holders, NEW x \in ChainAt(g)
       PROVE  \/ \E i \in 1 .. Len(cg.vs) : g = <<"vs", i>> /\ x \in cg.vs[i].t /\ x \notin R
              \/ \E i \in 1 .. Len(ctx) : /\ x \in Own(ctx[i]) /\ x \in R
                                          /\ \/ g = <<"t", i>> /\ x \in ctx[i].t
                                             \/ g = <<"u", i>> /\ x \in ctx[i].u
                                             \/ g = <<"sv", i>> /\ x \in ctx[i].sv.t
  <2>1. CASE g \in V
    <3>1. PICK i \in 1 .. Len(cg.vs) : g = <<"vs", i>> BY <2>1
    <3>2. x \in cg.vs[i].t BY <1>10, <3>1, ChainsAt
    <3>3. x \notin R BY <1>6, <3>2
    <3>4. QED BY <3>1, <3>2, <3>3
  <2>2. CASE g \in F("t")
    <3>1. PICK i \in 1 .. Len(ctx) : g = <<"t", i>> BY <2>2
    <3>2. x \in ctx[i].t BY <1>10, <3>1, ChainsAt
    <3>3. x \in Own(ctx[i]) BY <3>2 DEF Own
    <3>4. QED BY <1>7, <3>1, <3>2, <3>3
  <2>3. CASE g \in F("u")
    <3>1. PICK i \in 1 .. Len(ctx) : g = <<"u", i>> BY <2>3
    <3>2. x \in ctx[i].u BY <1>10, <3>1, ChainsAt
    <3>3. x \in Own(ctx[i]) BY <3>2 DEF Own
    <3>4. QED BY <1>7, <3>1, <3>2, <3>3
  <2>4. CASE g \in F("sv")
    <3>1. PICK i \in 1 .. Len(ctx) : g = <<"sv", i>> BY <2>4
    <3>2. x \in ctx[i].sv.t BY <1>10, <3>1, ChainsAt
    <3>3. x \in Own(ctx[i]) BY <3>2 DEF Own
    <3>4. QED BY <1>7, <3>1, <3>2, <3>3
  <2>5. QED BY <1>9, <2>1, <2>2, <2>3, <2>4
<1>11. cg.open = UNION {ChainAt(g) : g \in Holders}
  <2>1. ASSUME NEW x \in cg.open PROVE \E g \in Holders : x \in ChainAt(g)
    <3>1. CASE x \in R
      <4>1. PICK i \in 1 .. Len(ctx) : x \in Own(ctx[i]) BY <1>7, <3>1
      <4>2. <<"t", i>> \in Holders /\ <<"u", i>> \in Holders /\ <<"sv", i>> \in Holders BY <1>9
      <4>3. x \in ctx[i].t \/ x \in ctx[i].u \/ x \in ctx[i].sv.t BY <4>1 DEF Own
      <4>4. QED BY <4>2, <4>3, ChainsAt
    <3>2. CASE x \notin R
      <4>1. PICK i \in 1 .. Len(cg.vs) : x \in cg.vs[i].t BY <1>6, <3>2
      <4>2. <<"vs", i>> \in Holders BY <1>9
      <4>3. QED BY <4>1, <4>2, ChainsAt
    <3>3. QED BY <3>1, <3>2
  <2>2. ASSUME NEW g \in Holders, NEW x \in ChainAt(g) PROVE x \in cg.open
    BY <1>6, <1>10
  <2>3. QED BY <2>1, <2>2
<1>12. ASSUME NEW g \in Holders, NEW y \in Holders, NEW x \in ChainAt(g) \cap ChainAt(y) PROVE g = y
  <2>1. x \in ChainAt(g) /\ x \in ChainAt(y) OBVIOUS
  <2>2. CASE x \notin R
    <3>1. PICK i \in 1 .. Len(cg.vs) : g = <<"vs", i>> /\ x \in cg.vs[i].t BY <1>10, <2>1, <2>2
    <3>2. PICK j \in 1 .. Len(cg.vs) : y = <<"vs", j>> /\ x \in cg.vs[j].t BY <1>10, <2>1, <2>2
    <3>3. i = j BY <1>6, <3>1, <3>2
    <3>4. QED BY <3>1, <3>2, <3>3
  <2>3. CASE x \in R
    <3>1. PICK i \in 1 .. Len(ctx) : /\ x \in Own(ctx[i])
                                     /\ \/ g = <<"t", i>> /\ x \in ctx[i].t
                                        \/ g = <<"u", i>> /\ x \in ctx[i].u
                                        \/ g = <<"sv", i>> /\ x \in ctx[i].sv.t
      BY <1>10, <2>1, <2>3
    <3>2. PICK j \in 1 .. Len(ctx) : /\ x \in Own(ctx[j])
                                     /\ \/ y = <<"t", j>> /\ x \in ctx[j].t
                                        \/ y = <<"u", j>> /\ x \in ctx[j].u
                                        \/ y = <<"sv", j>> /\ x \in ctx[j].sv.t
      BY <1>10, <2>1, <2>3
    <3>3. i = j BY <1>7, <3>1, <3>2
    <3>4. Apart(ctx[i]) BY <1>8
    <3>5. QED BY <3>1, <3>2, <3>3, <3>4 DEF Apart
  <2>4. QED BY <2>2, <2>3
<1>13. /\ cg.open = UNION {ChainAt(g) : g \in Holders}
       /\ \A g, y \in Holders : g # y => ChainAt(g) \cap ChainAt(y) = {}
  BY <1>11, <1>12
<1>14. QED BY <1>13 DEF JumpsHeld, Holders, ChainAt

\* The invariant
VInv == Ok(cg, src, ctx, need) /\ lang \in Language

\* The invariant holds at the beginning,
LEMMA StartsV == Init => VInv
<1>1. ASSUME Init PROVE VInv
  <2>1. cg = Code0 /\ src = Source0 /\ ctx = <<>> /\ need = "stmt" /\ lang \in Languages BY <1>1 DEF Init
  <2>2. Ok(cg, src, ctx, need) BY <2>1, FreshOk
  <2>3. lang \in Language BY <2>1, ValueStackAssumption
  <2>4. QED BY <2>2, <2>3 DEF VInv
<1>2. QED BY <1>1

\* and every step keeps it.
LEMMA NextKeepsV == ASSUME VInv, [Next]_vars PROVE VInv'
<1>1. Ok(cg, src, ctx, need) /\ lang \in Language BY DEF VInv
<1>2. CASE UNCHANGED vars
  <2>1. cg' = cg /\ src' = src /\ ctx' = ctx /\ need' = need /\ lang' = lang BY <1>2 DEF vars
  <2>2. QED BY <1>1, <2>1 DEF VInv
<1>3. CASE Next
  <2>1. Ok(cg', src', ctx', need')
    <3>1. CASE PushConst BY <1>1, <3>1, PushConstOk
    <3>2. CASE PushVar BY <1>1, <3>2, PushVarOk
    <3>3. CASE Deref BY <1>1, <3>3, DerefOk
    <3>4. CASE AddressOf BY <1>1, <3>4, AddressOfOk
    <3>5. CASE Increment BY <1>1, <3>5, IncrementOk
    <3>6. CASE Not BY <1>1, <3>6, NotOk
    <3>7. CASE Binary BY <1>1, <3>7, BinaryOk
    <3>8. CASE EndBinary BY <1>1, <3>8, EndBinaryOk
    <3>9. CASE Assign BY <1>1, <3>9, AssignOk
    <3>10. CASE EndAssign BY <1>1, <3>10, EndAssignOk
    <3>11. CASE OpAssign BY <1>1, <3>11, OpAssignOk
    <3>12. CASE EndOpAssign BY <1>1, <3>12, EndOpAssignOk
    <3>13. CASE Comma BY <1>1, <3>13, CommaOk
    <3>14. CASE Logic BY <1>1, <3>14, LogicOk
    <3>15. CASE EndLogic BY <1>1, <3>15, EndLogicOk
    <3>16. CASE Question BY <1>1, <3>16, QuestionOk
    <3>17. CASE Colon BY <1>1, <3>17, ColonOk
    <3>18. CASE EndCond BY <1>1, <3>18, EndCondOk
    <3>19. CASE CallNoArgs BY <1>1, <3>19, CallNoArgsOk
    <3>20. CASE Call BY <1>1, <3>20, CallOk
    <3>21. CASE NextArg BY <1>1, <3>21, NextArgOk
    <3>22. CASE EndCall BY <1>1, <3>22, EndCallOk
    <3>23. CASE Expression BY <1>1, <3>23, ExpressionOk
    <3>24. CASE EndExpression BY <1>1, <3>24, EndExpressionOk
    <3>25. CASE If BY <1>1, <3>25, IfOk
    <3>26. CASE Then BY <1>1, <3>26, ThenOk
    <3>27. CASE EndThen BY <1>1, <3>27, EndThenOk
    <3>28. CASE Else BY <1>1, <3>28, ElseOk
    <3>29. CASE EndElse BY <1>1, <3>29, EndElseOk
    <3>30. CASE Block BY <1>1, <3>30, BlockOk
    <3>31. CASE EndBlock BY <1>1, <3>31, EndBlockOk
    <3>32. CASE EndFunction
      <4>1. cg' = Code0 /\ src' = Source0 /\ ctx' = <<>> /\ need' = "stmt" BY <3>32 DEF EndFunction
      <4>2. QED BY <4>1, FreshOk
    <3>33. CASE Undefined
      <4>1. cg' = Code0 /\ src' = Source0 /\ ctx' = <<>> /\ need' = "stmt" BY <3>33 DEF Undefined
      <4>2. QED BY <4>1, FreshOk
    <3>34. Step BY <1>3 DEF Next
    <3>35. QED
      BY ONLY <3>1, <3>2, <3>3, <3>4, <3>5, <3>6, <3>7, <3>8, <3>9, <3>10, <3>11, <3>12, <3>13, <3>14, <3>15, <3>16,
              <3>17, <3>18, <3>19, <3>20, <3>21, <3>22, <3>23, <3>24, <3>25, <3>26, <3>27, <3>28, <3>29, <3>30, <3>31,
              <3>32, <3>33, <3>34 DEF Step
  <2>2. lang' = lang BY <1>3 DEF Next
  <2>3. QED BY <1>1, <2>1, <2>2 DEF VInv
<1>4. QED BY <1>2, <1>3

\* The value stack, the operators that wait for operands and the code that is
\* suppressed fit together at all times: the locals of expr_land(), expr_cond(),
\* gfunc_call() and block() hold the chains that the stack does not.
THEOREM StackInductive == Spec => []VInv
<1>1. Init => VInv BY StartsV
<1>2. VInv /\ [Next]_vars => VInv' BY NextKeepsV
<1>3. QED BY <1>1, <1>2, PTL DEF Spec

\* A jump that was emitted without its target (gjmp) is in one chain, of an
\* entry of the value stack or of the parser, until gsym() resolves it there:
\* none is forgotten, and none resolved twice.
THEOREM JumpsPatchedOnce == Spec => []JumpsHeld
<1>1. VInv => JumpsHeld BY OkHolds DEF VInv
<1>2. QED BY <1>1, StackInductive, PTL

\* Between two statements of a function
Complete == need = "stmt" /\ ctx = <<>> => cg.vs = <<>> /\ cg.open = {} /\ cg.nocode = 0

\* After every statement of a function that is not in ({...}), the last one
\* included, nothing is left on the value stack (check_vstack() reports no
\* leak), every jump has its target, and each increment of nocode_wanted has
\* been taken back.
THEOREM FunctionsComplete == Spec => []Complete
<1>1. ASSUME VInv PROVE Complete
  <2>1. SUFFICES ASSUME need = "stmt", ctx = <<>> PROVE cg.vs = <<>> /\ cg.open = {} /\ cg.nocode = 0 BY DEF Complete
  <2>2. PICK h, v, d, R : OkAt(cg, src, ctx, "stmt", h, v, d, R) BY <1>1, <2>1 DEF VInv, Ok
  <2>3. Len(ctx) = 0 BY <2>1
  <2>4. Stack(ctx, h, v, d, R, src.stack) /\ Good(cg, R, d) /\ cg.nocode = v /\ Len(cg.vs) = h BY <2>2, <2>3, StatementFacts
  <2>5. h = 0 /\ v = 0 /\ R = {} BY <2>3, <2>4, StackFacts
  <2>6. Len(cg.vs) = 0 /\ IsList(cg.vs) BY <2>4, <2>5 DEF Good, IsState
  <2>7. cg.vs = <<>> BY <2>6, EmptyList
  <2>8. cg.open = {} BY <2>4, <2>5, <2>6 DEF Good, Held
  <2>9. QED BY <2>4, <2>5, <2>7, <2>8
<1>2. QED BY <1>1, StackInductive, PTL
================================================================================
