--------------------------- MODULE ElfSymtab_proofs ---------------------------
(***************************************************************************)
(* Proofs about ElfSymtab, for every set of names, every hash function and *)
(* every number of symbols.  The array and the chains keep their shape,    *)
(* and find_elf_sym therefore answers correctly.  What the entries mean:   *)
(* the table keeps the promises of SymbolResolution, every pair of strong  *)
(* definitions is reported, and the visibility of a defined name only      *)
(* tightens; this part is about the linking of compiled units,             *)
(* MaxPatched = 0: the compiler, when it patches an entry, does not ask    *)
(* set_elf_sym.                                                            *)
(***************************************************************************)
EXTENDS ElfSymtab, TLAPS

-----------------------------------------------------------------------------
(* The array and the chains                                                *)

\* The index of a bucket is one of the table.
LEMMA BucketIndex ==
    ASSUME NEW n \in Names, NEW k \in Nat \ {0}
    PROVE  ElfHash[n] % k \in 0 .. k - 1
<1>1. ElfHash[n] \in Nat BY HashAssumption
<1>2. QED BY <1>1

\* set_elf_sym turns an entry and a contribution to its name into an entry of
\* that name, global if both are.
LEMMA ResolvedType ==
    ASSUME NEW old \in Sym, NEW new \in Sym, new.name = old.name,
           IsGlobal(old), IsGlobal(new)
    PROVE  /\ Resolved(old, new) \in Sym
           /\ Resolved(old, new).name = old.name
           /\ IsGlobal(Resolved(old, new))
<1>1. MergedVis(old.vis, new.vis) \in Vis BY DEF MergedVis, Sym
<1>2. QED BY <1>1 DEF Resolved, Sym, IsGlobal

\* The inductive invariant.  TypeOK alone is not inductive: the next entry of
\* a walk is an index only because the chains have the length of the array, and
\* UniqueGlobals needs what the walk has ruled out.
IInv == TypeOK /\ ChainsOK /\ WalkOK /\ UniqueGlobals

\* What a call has put in arg.
LEMMA ArgType ==
    ASSUME TypeOK, pc = "find"
    PROVE  /\ arg.name \in Names
           /\ arg.op = "set" => /\ arg.s \in Contribution /\ arg.s \in Sym
                                /\ arg.s.name = arg.name
<1>1. CASE \E n \in Names : arg = Lookup(n)
  BY <1>1 DEF Lookup
<1>2. CASE \E c \in Contribution : arg = Set(c)
  BY <1>2, ContributionAssumption DEF Set, Sym
<1>3. QED BY <1>1, <1>2 DEF TypeOK

\* The empty table satisfies the invariant.
LEMMA IInvInit == Init => IInv
<1>1. SUFFICES ASSUME Init PROVE IInv
  OBVIOUS
<1>2. TypeOK BY <1>1 DEF Init, TypeOK
<1>3. ChainsOK BY <1>1 DEF Init, ChainsOK, Covered, LastBefore
<1>4. WalkOK BY <1>1 DEF Init, WalkOK
<1>5. UniqueGlobals BY <1>1 DEF Init, UniqueGlobals
<1>6. QED BY <1>2, <1>3, <1>4, <1>5 DEF IInv

\* A call starts its walk at the newest entry of the bucket of its name.
LEMMA CallStep ==
    ASSUME IInv, NEW a, Call(a),
           \/ \E n \in Names : a = Lookup(n)
           \/ \E c \in Contribution : a = Set(c)
    PROVE  IInv'
<1>1. a.name \in Names
  BY ContributionAssumption DEF Lookup, Set, Sym
<1> DEFINE h == ElfHash[a.name] % nbuckets
<1>2. nbuckets \in Nat \ {0} BY DEF IInv, TypeOK
<1>3. h \in 0 .. nbuckets - 1 BY <1>1, <1>2, BucketIndex
<1> HIDE DEF h
<1>4. cur' = bucket[h] /\ arg' = a BY DEF Call, h
<1>5. cur' \in 0 .. Len(sym)
  <2>1. LastBefore(sym, nbuckets, h, Len(sym) + 1, bucket[h])
    BY <1>3 DEF IInv, ChainsOK, Covered, Call
  <2>2. Len(sym) \in Nat BY DEF IInv, TypeOK
  <2>3. QED BY <1>4, <2>1, <2>2 DEF LastBefore
<1>6. TypeOK'
  <2>1. arg' \in {Lookup(n) : n \in Names} \cup {Set(c) : c \in Contribution}
    BY <1>4
  <2>2. arg' # Absent BY <2>1, AbsentAssumption
  <2>3. /\ pc' = "find"
        /\ UNCHANGED <<sym, nbuckets, bucket, chain, hashed, ret, twice, submitted>>
    BY DEF Call
  <2>4. QED BY <1>5, <2>1, <2>2, <2>3 DEF IInv, TypeOK
<1>7. LastBefore(sym, nbuckets, h, Len(sym) + 1, cur')
  BY <1>3, <1>4 DEF IInv, ChainsOK, Covered, Call
<1>8. ChainsOK'
  BY DEF IInv, ChainsOK, Covered, Call, LastBefore, InBucket
<1>9. WalkOK'
  <2>1. cur' # 0 => InBucket(sym, nbuckets, cur', h) BY <1>7 DEF LastBefore
  <2>2. ASSUME NEW j \in cur' + 1 .. Len(sym)
        PROVE  ~(IsGlobal(sym[j]) /\ sym[j].name = a.name)
    <3>1. j \in cur' + 1 .. (Len(sym) + 1) - 1
      <4>1. Len(sym) \in Nat BY DEF IInv, TypeOK
      <4>2. (Len(sym) + 1) - 1 = Len(sym) BY <4>1
      <4>3. QED BY <2>2, <4>2
    <3>2. ~InBucket(sym, nbuckets, j, h) BY <1>7, <3>1 DEF LastBefore
    <3>3. QED BY <3>2 DEF InBucket, h
  <2>3. /\ sym' = sym /\ nbuckets' = nbuckets /\ arg' = a
    BY DEF Call
  <2>4. QED BY <2>1, <2>2, <2>3 DEF WalkOK, InBucket, h
<1>10. UniqueGlobals' BY DEF IInv, UniqueGlobals, Call
<1>11. QED BY <1>6, <1>8, <1>9, <1>10 DEF IInv

\* The walk leaves an entry behind that does not have the name.
LEMMA FindStepInv == ASSUME IInv, FindStep PROVE IInv'
<1> DEFINE h == ElfHash[arg.name] % nbuckets
<1>1. /\ pc = "find" /\ cur # 0 /\ cur \in 1 .. Len(sym)
      /\ sym[cur].name # arg.name /\ cur' = chain[cur]
  BY DEF FindStep, IInv, TypeOK
<1>2. InBucket(sym, nbuckets, cur, h) BY <1>1 DEF IInv, WalkOK
<1>3. LastBefore(sym, nbuckets, h, cur, cur')
  BY <1>1, <1>2 DEF IInv, ChainsOK, Covered, InBucket
<1>4. cur' \in 0 .. cur - 1 BY <1>3 DEF LastBefore
<1>5. TypeOK' BY <1>1, <1>4 DEF IInv, TypeOK, FindStep
<1>6. ChainsOK'
  BY <1>1 DEF IInv, ChainsOK, Covered, FindStep, LastBefore, InBucket
<1>7. WalkOK'
  <2>1. cur' # 0 => InBucket(sym, nbuckets, cur', h) BY <1>3 DEF LastBefore
  <2>2. ASSUME NEW j \in cur' + 1 .. Len(sym)
        PROVE  ~(IsGlobal(sym[j]) /\ sym[j].name = arg.name)
    <3>1. CASE j > cur
      <4>1. j \in cur + 1 .. Len(sym) BY <1>1, <1>4, <2>2, <3>1 DEF IInv, TypeOK
      <4>2. QED BY <1>1, <4>1 DEF IInv, WalkOK
    <3>2. CASE j = cur BY <1>1, <3>2
    <3>3. CASE j < cur
      <4>1. ~InBucket(sym, nbuckets, j, h) BY <1>1, <1>3, <1>4, <2>2, <3>3 DEF LastBefore
      <4>2. QED BY <4>1 DEF InBucket
    <3>4. QED BY <1>1, <1>4, <2>2, <3>1, <3>2, <3>3 DEF IInv, TypeOK
  <2>3. QED BY <1>1, <2>1, <2>2 DEF WalkOK, FindStep, InBucket
<1>8. UniqueGlobals' BY DEF IInv, UniqueGlobals, FindStep
<1>9. QED BY <1>5, <1>6, <1>7, <1>8 DEF IInv

\* find_elf_sym() changes nothing when it returns.
LEMMA FindReturnInv == ASSUME IInv, FindReturn PROVE IInv'
<1>1. TypeOK' BY DEF IInv, TypeOK, FindReturn, Reached
<1>2. ChainsOK'
  BY DEF IInv, ChainsOK, Covered, FindReturn, Reached, LastBefore, InBucket
<1>3. WalkOK' BY DEF WalkOK, FindReturn
<1>4. UniqueGlobals' BY DEF IInv, UniqueGlobals, FindReturn
<1>5. QED BY <1>1, <1>2, <1>3, <1>4 DEF IInv

-----------------------------------------------------------------------------
(* The array grows.                                                        *)

\* What put_elf_sym() adds with section_ptr_add() leaves the entries before it.
LEMMA AppendFacts ==
    ASSUME NEW S, NEW q \in Seq(S), NEW e \in S
    PROVE  /\ Append(q, e) \in Seq(S)
           /\ Len(Append(q, e)) = Len(q) + 1
           /\ \A i \in 1 .. Len(q) : Append(q, e)[i] = q[i]
           /\ Append(q, e)[Len(q) + 1] = e
OBVIOUS

\* The chains of the first k - 1 entries depend on these entries only, and only
\* on their name and on whether they are global.
SameEntries(S, T, k) ==
    \A i \in 1 .. k - 1 : T[i].name = S[i].name /\ (IsGlobal(T[i]) <=> IsGlobal(S[i]))

\* The head of a chain is that of any array with the same entries before it.
LEMMA LastBeforeKept ==
    ASSUME NEW S, NEW T, NEW nb, NEW b, NEW k \in Nat, NEW m,
           SameEntries(S, T, k),
           LastBefore(S, nb, b, k, m)
    PROVE  LastBefore(T, nb, b, k, m)
<1>1. m \in 0 .. k - 1 BY DEF LastBefore
<1>2. \A i \in 1 .. k - 1 : InBucket(T, nb, i, b) <=> InBucket(S, nb, i, b)
  BY DEF SameEntries, InBucket
<1>3. m # 0 => InBucket(T, nb, m, b) BY <1>1, <1>2 DEF LastBefore
<1>4. ASSUME NEW j \in m + 1 .. k - 1 PROVE ~InBucket(T, nb, j, b)
  <2>1. j \in 1 .. k - 1 BY <1>1
  <2>2. QED BY <1>2, <2>1 DEF LastBefore
<1>5. QED BY <1>1, <1>3, <1>4 DEF LastBefore

\* One more entry: the last one of its bucket, and none of the others.
LEMMA LastBeforeNext ==
    ASSUME NEW S, NEW nb, NEW b, NEW k \in Nat \ {0}, NEW m,
           LastBefore(S, nb, b, k, m)
    PROVE  /\ InBucket(S, nb, k, b) => LastBefore(S, nb, b, k + 1, k)
           /\ ~InBucket(S, nb, k, b) => LastBefore(S, nb, b, k + 1, m)
<1>1. m \in 0 .. k - 1 BY DEF LastBefore
<1>2. ASSUME InBucket(S, nb, k, b) PROVE LastBefore(S, nb, b, k + 1, k)
  BY <1>2 DEF LastBefore
<1>3. ASSUME ~InBucket(S, nb, k, b) PROVE LastBefore(S, nb, b, k + 1, m)
  <2>1. ASSUME NEW j \in m + 1 .. (k + 1) - 1 PROVE ~InBucket(S, nb, j, b)
    <3>1. CASE j = k BY <1>3, <3>1
    <3>2. CASE j # k
      <4>1. j \in m + 1 .. k - 1 BY <1>1, <3>2
      <4>2. QED BY <4>1 DEF LastBefore
    <3>3. QED BY <3>1, <3>2
  <2>2. m \in 0 .. (k + 1) - 1 /\ (m # 0 => InBucket(S, nb, m, b))
    BY <1>1 DEF LastBefore
  <2>3. QED BY <2>1, <2>2 DEF LastBefore
<1>4. QED BY <1>2, <1>3

\* Chains with their bound made explicit: ChainsOK is the case of the variables.
Chains(S, nb, bk, ch, k) ==
    /\ Len(ch) = k
    /\ \A b \in 0 .. nb - 1 : LastBefore(S, nb, b, k + 1, bk[b])
    /\ \A i \in 1 .. k :
         IF IsGlobal(S[i])
         THEN LastBefore(S, nb, ElfHash[S[i].name] % nb, i, ch[i])
         ELSE ch[i] = 0

\* So are all chains.
LEMMA ChainsKept ==
    ASSUME NEW S, NEW T, NEW nb, NEW bk, NEW ch, NEW k \in Nat,
           SameEntries(S, T, k + 1),
           Chains(S, nb, bk, ch, k)
    PROVE  Chains(T, nb, bk, ch, k)
<1>1. ASSUME NEW b \in 0 .. nb - 1
      PROVE  LastBefore(T, nb, b, k + 1, bk[b])
  BY LastBeforeKept DEF Chains
<1>2. ASSUME NEW i \in 1 .. k
      PROVE  IF IsGlobal(T[i])
             THEN LastBefore(T, nb, ElfHash[T[i].name] % nb, i, ch[i])
             ELSE ch[i] = 0
  <2>1. T[i].name = S[i].name /\ (IsGlobal(T[i]) <=> IsGlobal(S[i]))
    BY DEF SameEntries
  <2>2. SameEntries(S, T, i) BY DEF SameEntries
  <2>3. i \in Nat OBVIOUS
  <2>4. CASE IsGlobal(S[i])
    <3>1. LastBefore(S, nb, ElfHash[S[i].name] % nb, i, ch[i]) BY <2>4 DEF Chains
    <3>2. LastBefore(T, nb, ElfHash[S[i].name] % nb, i, ch[i])
      BY <2>2, <2>3, <3>1, LastBeforeKept
    <3>3. QED BY <2>1, <2>4, <3>2
  <2>5. CASE ~IsGlobal(S[i]) BY <2>1, <2>5 DEF Chains
  <2>6. QED BY <2>4, <2>5
<1>3. QED BY <1>1, <1>2 DEF Chains

\* A static extends the chains with a 0.
LEMMA ChainsLocal ==
    ASSUME NEW S, NEW nb, NEW bk, NEW ch \in Seq(Nat), NEW k \in Nat,
           Chains(S, nb, bk, ch, k), ~IsGlobal(S[k + 1])
    PROVE  Chains(S, nb, bk, Append(ch, 0), k + 1)
<1> DEFINE ch2 == Append(ch, 0)
<1>1. /\ Len(ch) = k /\ Len(ch2) = k + 1 /\ ch2[k + 1] = 0
      /\ \A i \in 1 .. k : ch2[i] = ch[i]
  <2>1. Len(ch) = k BY DEF Chains
  <2>2. 0 \in Nat OBVIOUS
  <2>3. QED BY <2>1, <2>2, AppendFacts
<1>2. ASSUME NEW b \in 0 .. nb - 1
      PROVE  LastBefore(S, nb, b, (k + 1) + 1, bk[b])
  <2>1. ~InBucket(S, nb, k + 1, b) BY DEF InBucket
  <2>2. LastBefore(S, nb, b, k + 1, bk[b]) BY DEF Chains
  <2>3. QED BY <2>1, <2>2, LastBeforeNext
<1> HIDE DEF ch2
<1>3. ASSUME NEW i \in 1 .. k + 1
      PROVE  IF IsGlobal(S[i])
             THEN LastBefore(S, nb, ElfHash[S[i].name] % nb, i, ch2[i])
             ELSE ch2[i] = 0
  <2>1. CASE i = k + 1 BY <1>1, <2>1
  <2>2. CASE i \in 1 .. k BY <1>1, <2>2 DEF Chains
  <2>3. QED BY <2>1, <2>2
<1>4. Chains(S, nb, bk, ch2, k + 1) BY <1>1, <1>2, <1>3 DEF Chains
<1>5. QED BY <1>4 DEF ch2

\* A global symbol becomes the head of its bucket and points to the old head.
LEMMA ChainsGlobal ==
    ASSUME NEW S, NEW nb \in Nat \ {0}, NEW bk \in [0 .. nb - 1 -> Nat],
           NEW ch \in Seq(Nat), NEW k \in Nat,
           Chains(S, nb, bk, ch, k), IsGlobal(S[k + 1]),
           NEW h \in 0 .. nb - 1, h = ElfHash[S[k + 1].name] % nb
    PROVE  Chains(S, nb, [bk EXCEPT ![h] = k + 1], Append(ch, bk[h]), k + 1)
<1> DEFINE ch2 == Append(ch, bk[h])
           bk2 == [bk EXCEPT ![h] = k + 1]
<1>1. /\ Len(ch) = k /\ Len(ch2) = k + 1 /\ ch2[k + 1] = bk[h]
      /\ \A i \in 1 .. k : ch2[i] = ch[i]
  <2>1. Len(ch) = k BY DEF Chains
  <2>2. bk[h] \in Nat OBVIOUS
  <2>3. QED BY <2>1, <2>2, AppendFacts
<1>2. ASSUME NEW b \in 0 .. nb - 1
      PROVE  LastBefore(S, nb, b, (k + 1) + 1, bk2[b])
  <2>1. LastBefore(S, nb, b, k + 1, bk[b]) BY DEF Chains
  <2>2. CASE b = h
    <3>1. InBucket(S, nb, k + 1, b) BY <2>2 DEF InBucket
    <3>2. bk2[b] = k + 1 BY <2>2
    <3>3. QED BY <2>1, <3>1, <3>2, LastBeforeNext
  <2>3. CASE b # h
    <3>1. ~InBucket(S, nb, k + 1, b) BY <2>3 DEF InBucket
    <3>2. bk2[b] = bk[b] BY <2>3
    <3>3. QED BY <2>1, <3>1, <3>2, LastBeforeNext
  <2>4. QED BY <2>2, <2>3
<1> HIDE DEF ch2, bk2
<1>3. ASSUME NEW i \in 1 .. k + 1
      PROVE  IF IsGlobal(S[i])
             THEN LastBefore(S, nb, ElfHash[S[i].name] % nb, i, ch2[i])
             ELSE ch2[i] = 0
  <2>1. CASE i = k + 1
    <3>1. LastBefore(S, nb, h, k + 1, bk[h]) BY DEF Chains
    <3>2. QED BY <1>1, <2>1, <3>1
  <2>2. CASE i \in 1 .. k BY <1>1, <2>2 DEF Chains
  <2>3. QED BY <2>1, <2>2
<1>4. Chains(S, nb, bk2, ch2, k + 1) BY <1>1, <1>2, <1>3 DEF Chains
<1>5. QED BY <1>4 DEF ch2, bk2

\* ChainsOK, with the arrays made explicit.
LEMMA ChainsAreChains == ChainsOK <=> Chains(sym, nbuckets, bucket, chain, Covered)
BY DEF ChainsOK, Chains

-----------------------------------------------------------------------------
(* The steps that change the table.                                        *)

\* A static goes to the end of the array and into no chain.
LEMMA PutLocalInv ==
    ASSUME IInv, pc \in {"idle", "find"},
           NEW s \in Sym, ~IsGlobal(s), PutLocal(s),
           UNCHANGED <<arg, twice, submitted>>
    PROVE  IInv'
<1>1. Len(sym) \in Nat /\ sym \in Seq(Sym) /\ chain \in Seq(Nat)
  BY DEF IInv, TypeOK
<1>2. /\ sym' \in Seq(Sym) /\ Len(sym') = Len(sym) + 1
      /\ \A i \in 1 .. Len(sym) : sym'[i] = sym[i]
      /\ sym'[Len(sym) + 1] = s
  BY <1>1, AppendFacts DEF PutLocal
<1>3. /\ nbuckets' = nbuckets /\ bucket' = bucket /\ hashed' = hashed
      /\ pc' = "idle" /\ ret' = Len(sym) + 1 /\ chain' = Append(chain, 0)
  BY DEF PutLocal
<1>4. TypeOK'
  <2>1. ret' \in 0 .. Len(sym') BY <1>1, <1>2, <1>3
  <2>2. chain' \in Seq(Nat) BY <1>1, <1>3
  <2>3. QED BY <1>2, <1>3, <2>1, <2>2 DEF IInv, TypeOK
<1>5. ChainsOK'
  <2>1. Chains(sym, nbuckets, bucket, chain, Len(sym))
    BY ChainsAreChains DEF IInv, Covered
  <2>2. Chains(sym', nbuckets, bucket, chain, Len(sym))
    <3>1. SameEntries(sym, sym', Len(sym) + 1) BY <1>1, <1>2 DEF SameEntries
    <3>2. QED BY <1>1, <2>1, <3>1, ChainsKept
  <2>3. Chains(sym', nbuckets, bucket, Append(chain, 0), Len(sym) + 1)
    BY <1>1, <1>2, <2>2, ChainsLocal
  <2>4. Covered' = Len(sym) + 1 BY <1>2, <1>3 DEF Covered
  <2>5. QED BY <1>3, <2>3, <2>4 DEF ChainsOK, Chains
<1>6. WalkOK' BY <1>3 DEF WalkOK
<1>7. UniqueGlobals'
  <2>1. SUFFICES ASSUME NEW i \in 1 .. Len(sym'), NEW j \in 1 .. Len(sym'),
                        IsGlobal(sym'[i]), IsGlobal(sym'[j]), sym'[i].name = sym'[j].name
                 PROVE  i = j
    BY <1>2 DEF UniqueGlobals
  <2>2. i # Len(sym) + 1 /\ j # Len(sym) + 1 BY <1>2, <2>1
  <2>3. i \in 1 .. Len(sym) /\ j \in 1 .. Len(sym) BY <1>1, <1>2, <2>2
  <2>4. sym'[i] = sym[i] /\ sym'[j] = sym[j] BY <1>2, <2>3
  <2>5. i \in DOMAIN sym /\ j \in DOMAIN sym BY <1>1, <2>3
  <2>6. UniqueGlobals BY DEF IInv
  <2>7. QED BY <2>1, <2>4, <2>5, <2>6 DEF UniqueGlobals
<1>8. QED BY <1>4, <1>5, <1>6, <1>7 DEF IInv

\* put_elf_sym() with a local symbol.
LEMMA PutElfSymInv == ASSUME IInv, PutElfSym PROVE IInv'
<1>1. PICK c \in Contribution :
        /\ pc = "idle" /\ ~IsGlobal(c) /\ PutLocal(c)
        /\ UNCHANGED <<arg, twice, submitted>>
  BY DEF PutElfSym
<1>2. c \in Sym BY ContributionAssumption
<1>3. QED BY <1>1, <1>2, PutLocalInv

\* set_elf_sym() with a local symbol.
LEMMA SetLocalInv == ASSUME IInv, SetLocal PROVE IInv'
<1>1. arg.s \in Sym BY ArgType DEF IInv, SetLocal, Reached
<1>2. pc = "find" /\ ~IsGlobal(arg.s) /\ PutLocal(arg.s)
      /\ UNCHANGED <<arg, twice, submitted>>
  BY DEF SetLocal, Reached
<1>3. QED BY <1>1, <1>2, PutLocalInv

\* A new global name: the walk has shown that no entry has it.
LEMMA SetNewInv == ASSUME IInv, SetNew PROVE IInv'
<1> DEFINE h == ElfHash[arg.name] % nbuckets
<1>1. Len(sym) \in Nat /\ sym \in Seq(Sym) /\ chain \in Seq(Nat)
      /\ nbuckets \in Nat \ {0} /\ bucket \in [0 .. nbuckets - 1 -> Nat]
      /\ hashed \in Nat
  BY DEF IInv, TypeOK
<1>2. /\ pc = "find" /\ cur = 0 /\ IsGlobal(arg.s)
      /\ arg.s \in Sym /\ arg.s \in Contribution /\ arg.s.name = arg.name /\ arg.name \in Names
  BY ArgType DEF IInv, SetNew, Reached
<1>3. /\ sym' \in Seq(Sym) /\ Len(sym') = Len(sym) + 1
      /\ \A i \in 1 .. Len(sym) : sym'[i] = sym[i]
      /\ sym'[Len(sym) + 1] = arg.s
  BY <1>1, <1>2, AppendFacts DEF SetNew, PutGlobal
<1>4. h \in 0 .. nbuckets - 1 BY <1>1, <1>2, BucketIndex
<1>5. /\ ret' = Len(sym) + 1 /\ hashed' = hashed + 1
      /\ submitted' = submitted \cup {arg.s}
      /\ UNCHANGED <<arg, twice>>
  BY DEF SetNew, PutGlobal
<1>6. UniqueGlobals'
  <2>1. \A j \in 1 .. Len(sym) : ~(IsGlobal(sym[j]) /\ sym[j].name = arg.s.name)
    <3>1. \A j \in cur + 1 .. Len(sym) : ~(IsGlobal(sym[j]) /\ sym[j].name = arg.name)
      BY <1>2 DEF IInv, WalkOK
    <3>2. cur + 1 = 1 BY <1>2
    <3>3. QED BY <1>2, <3>1, <3>2
  <2>2. SUFFICES ASSUME NEW i \in 1 .. Len(sym'), NEW j \in 1 .. Len(sym'),
                        IsGlobal(sym'[i]), IsGlobal(sym'[j]), sym'[i].name = sym'[j].name
                 PROVE  i = j
    BY <1>3 DEF UniqueGlobals
  <2>3. /\ i = Len(sym) + 1 \/ i \in 1 .. Len(sym)
        /\ j = Len(sym) + 1 \/ j \in 1 .. Len(sym)
    BY <1>1, <1>3
  <2>4. CASE i = Len(sym) + 1 /\ j \in 1 .. Len(sym)
    <3>1. sym'[i].name = arg.s.name /\ sym'[j] = sym[j] BY <1>3, <2>4
    <3>2. QED BY <2>1, <2>2, <2>4, <3>1
  <2>5. CASE i \in 1 .. Len(sym) /\ j = Len(sym) + 1
    <3>1. sym'[j].name = arg.s.name /\ sym'[i] = sym[i] BY <1>3, <2>5
    <3>2. QED BY <2>1, <2>2, <2>5, <3>1
  <2>6. CASE i \in 1 .. Len(sym) /\ j \in 1 .. Len(sym)
    <3>1. sym'[j] = sym[j] /\ sym'[i] = sym[i] BY <1>3, <2>6
    <3>2. i \in DOMAIN sym /\ j \in DOMAIN sym BY <1>1, <2>6
    <3>3. UniqueGlobals BY DEF IInv
    <3>4. QED BY <2>2, <3>1, <3>2, <3>3 DEF UniqueGlobals
  <2>7. QED BY <2>3, <2>4, <2>5, <2>6
<1>7. CASE hashed + 1 > 2 * nbuckets
  <2>1. /\ nbuckets' = 2 * nbuckets /\ bucket' = [b \in 0 .. 2 * nbuckets - 1 |-> 0]
        /\ chain' = <<>> /\ pc' = "rehash" /\ cur' = 1
    BY <1>7 DEF SetNew, PutGlobal
  <2>2. nbuckets' \in Nat \ {0} /\ bucket' \in [0 .. nbuckets' - 1 -> Nat]
    BY <1>1, <2>1
  <2>3. TypeOK'
    <3>1. ret' \in 0 .. Len(sym') /\ cur' \in 1 .. Len(sym') + 1
      BY <1>1, <1>3, <1>5, <2>1
    <3>2. QED BY <1>1, <1>2, <1>3, <1>5, <2>1, <2>2, <3>1 DEF IInv, TypeOK
  <2>4. ChainsOK'
    <3>1. Covered' = 0 BY <2>1 DEF Covered
    <3>2. \A b \in 0 .. nbuckets' - 1 : LastBefore(sym', nbuckets', b, 0 + 1, bucket'[b])
      BY <1>1, <2>1 DEF LastBefore
    <3>3. QED BY <2>1, <3>1, <3>2 DEF ChainsOK
  <2>5. WalkOK' BY <2>1 DEF WalkOK
  <2>6. QED BY <1>6, <2>3, <2>4, <2>5 DEF IInv
<1>8. CASE ~(hashed + 1 > 2 * nbuckets)
  <2>1. /\ nbuckets' = nbuckets /\ bucket' = [bucket EXCEPT ![h] = Len(sym) + 1]
        /\ chain' = Append(chain, bucket[h]) /\ pc' = "idle"
    BY <1>2, <1>8 DEF SetNew, PutGlobal
  <2>2. TypeOK'
    <3>1. ret' \in 0 .. Len(sym') BY <1>1, <1>3, <1>5
    <3>2. chain' \in Seq(Nat) /\ bucket' \in [0 .. nbuckets - 1 -> Nat]
      BY <1>1, <1>4, <2>1
    <3>3. QED BY <1>1, <1>2, <1>3, <1>5, <2>1, <3>1, <3>2 DEF IInv, TypeOK
  <2>3. ChainsOK'
    <3>1. Chains(sym, nbuckets, bucket, chain, Len(sym))
      BY <1>2, ChainsAreChains DEF IInv, Covered
    <3>2. SameEntries(sym, sym', Len(sym) + 1) BY <1>1, <1>3 DEF SameEntries
    <3>3. Chains(sym', nbuckets, bucket, chain, Len(sym))
      BY <1>1, <3>1, <3>2, ChainsKept
    <3>4. IsGlobal(sym'[Len(sym) + 1]) /\ h = ElfHash[sym'[Len(sym) + 1].name] % nbuckets
      BY <1>2, <1>3
    <3> HIDE DEF h
    <3>5. Chains(sym', nbuckets, bucket', chain', Len(sym) + 1)
      BY <1>1, <1>4, <2>1, <3>3, <3>4, ChainsGlobal
    <3>6. Covered' = Len(sym) + 1 BY <1>3, <2>1 DEF Covered
    <3>7. QED BY <2>1, <3>5, <3>6 DEF ChainsOK, Chains
  <2>4. WalkOK' BY <2>1 DEF WalkOK
  <2>5. QED BY <1>6, <2>2, <2>3, <2>4 DEF IInv
<1>9. QED BY <1>7, <1>8

\* An existing name: the entry keeps its name and stays global.
LEMMA SetExistingInv == ASSUME IInv, SetExisting PROVE IInv'
<1>1. /\ pc = "find" /\ cur \in 1 .. Len(sym) /\ sym[cur].name = arg.name
      /\ IsGlobal(arg.s)
      /\ arg.s \in Sym /\ arg.s \in Contribution /\ arg.s.name = arg.name
      /\ sym \in Seq(Sym)
  BY ArgType DEF IInv, TypeOK, SetExisting, Reached
<1> DEFINE new == Resolved(sym[cur], arg.s)
<1>2. sym[cur] \in Sym /\ IsGlobal(sym[cur])
  BY <1>1 DEF IInv, WalkOK, InBucket
<1>3. new \in Sym /\ new.name = sym[cur].name /\ IsGlobal(new)
  BY <1>1, <1>2, ResolvedType
<1> HIDE DEF new
<1>4. /\ sym' = [sym EXCEPT ![cur] = new]
      /\ twice' \in {twice, twice \cup {sym[cur].name}}
      /\ submitted' = submitted \cup {arg.s} /\ pc' = "idle" /\ ret' = cur
      /\ UNCHANGED <<nbuckets, bucket, chain, hashed, arg, cur>>
  BY DEF SetExisting, new
<1>5. /\ sym' \in Seq(Sym) /\ Len(sym') = Len(sym)
      /\ SameEntries(sym, sym', Len(sym) + 1)
  BY <1>1, <1>2, <1>3, <1>4 DEF SameEntries
<1>6. TypeOK'
  <2>1. sym[cur].name \in Names BY <1>2 DEF Sym
  <2>2. twice' \subseteq Names BY <1>4, <2>1 DEF IInv, TypeOK
  <2>3. QED BY <1>1, <1>4, <1>5, <2>2 DEF IInv, TypeOK
<1>7. ChainsOK'
  <2>1. Chains(sym, nbuckets, bucket, chain, Len(sym))
    BY <1>1, ChainsAreChains DEF IInv, Covered
  <2>2. Chains(sym', nbuckets, bucket, chain, Len(sym))
    BY <1>1, <1>5, <2>1, ChainsKept
  <2>3. Covered' = Len(sym) BY <1>4, <1>5 DEF Covered
  <2>4. QED BY <1>4, <2>2, <2>3 DEF ChainsOK, Chains
<1>8. WalkOK' BY <1>4 DEF WalkOK
<1>9. UniqueGlobals' BY <1>1, <1>5 DEF IInv, UniqueGlobals, SameEntries
<1>10. QED BY <1>6, <1>7, <1>8, <1>9 DEF IInv

\* One iteration of rebuild_hash adds the next entry to the new chains.
LEMMA RehashInv == ASSUME IInv, Rehash PROVE IInv'
<1>1. /\ pc = "rehash" /\ cur \in 1 .. Len(sym) /\ cur' = cur + 1
      /\ sym \in Seq(Sym) /\ chain \in Seq(Nat) /\ nbuckets \in Nat \ {0}
      /\ bucket \in [0 .. nbuckets - 1 -> Nat]
      /\ UNCHANGED <<sym, nbuckets, hashed, pc, arg, ret, twice, submitted>>
  BY DEF IInv, TypeOK, Rehash
<1>2. Chains(sym, nbuckets, bucket, chain, cur - 1)
  BY <1>1, ChainsAreChains DEF IInv, Covered
<1>3. cur - 1 \in Nat /\ (cur - 1) + 1 = cur BY <1>1
<1>4. /\ Chains(sym, nbuckets, bucket', chain', cur)
      /\ chain' \in Seq(Nat) /\ bucket' \in [0 .. nbuckets - 1 -> Nat]
  <2>1. CASE IsGlobal(sym[cur])
    <3> DEFINE h == ElfHash[sym[cur].name] % nbuckets
    <3>1. sym[cur].name \in Names
      <4>1. sym[cur] \in Sym BY <1>1
      <4>2. QED BY <4>1 DEF Sym
    <3>2. h \in 0 .. nbuckets - 1 BY <1>1, <3>1, BucketIndex
    <3>3. chain' = Append(chain, bucket[h]) /\ bucket' = [bucket EXCEPT ![h] = cur]
      BY <2>1 DEF Rehash
    <3>4. h = ElfHash[sym[cur].name] % nbuckets OBVIOUS
    <3> HIDE DEF h
    <3>5. Chains(sym, nbuckets, [bucket EXCEPT ![h] = (cur - 1) + 1],
                 Append(chain, bucket[h]), (cur - 1) + 1)
      BY <1>1, <1>2, <1>3, <2>1, <3>2, <3>4, ChainsGlobal
    <3>6. QED BY <1>1, <1>3, <3>2, <3>3, <3>5
  <2>2. CASE ~IsGlobal(sym[cur])
    <3>1. chain' = Append(chain, 0) /\ bucket' = bucket BY <2>2 DEF Rehash
    <3>2. Chains(sym, nbuckets, bucket, Append(chain, 0), (cur - 1) + 1)
      BY <1>1, <1>2, <1>3, <2>2, ChainsLocal
    <3>3. QED BY <1>1, <1>3, <3>1, <3>2
  <2>3. QED BY <2>1, <2>2
<1>5. TypeOK' BY <1>1, <1>4 DEF IInv, TypeOK
<1>6. ChainsOK'
  <2>1. Covered' = cur BY <1>1 DEF Covered
  <2>2. QED BY <1>1, <1>4, <2>1 DEF ChainsOK, Chains
<1>7. WalkOK' BY <1>1 DEF WalkOK
<1>8. UniqueGlobals' BY <1>1 DEF IInv, UniqueGlobals
<1>9. QED BY <1>5, <1>6, <1>7, <1>8 DEF IInv

\* When the scan of rebuild_hash ends, every entry is covered again.
LEMMA RehashDoneInv == ASSUME IInv, RehashDone PROVE IInv'
<1>1. cur = Len(sym) + 1 BY DEF IInv, TypeOK, RehashDone
<1>2. /\ pc = "rehash" /\ pc' = "idle"
      /\ UNCHANGED <<sym, nbuckets, bucket, chain, hashed, arg, cur, ret, twice, submitted>>
  BY DEF RehashDone
<1>3. TypeOK' BY <1>2 DEF IInv, TypeOK
<1>4. ChainsOK'
  <2>1. Len(sym) \in Nat BY DEF IInv, TypeOK
  <2>2. Covered = Len(sym) /\ Covered' = Len(sym) BY <1>1, <1>2, <2>1 DEF Covered
  <2>3. QED BY <1>2, <2>2 DEF IInv, ChainsOK
<1>5. WalkOK' BY <1>2 DEF WalkOK
<1>6. UniqueGlobals' BY <1>2 DEF IInv, UniqueGlobals
<1>7. QED BY <1>3, <1>4, <1>5, <1>6 DEF IInv

\* An entry that is overwritten in place keeps its name and its linkage.
LEMMA InPlaceInv ==
    ASSUME IInv, pc = "idle", NEW i \in DOMAIN sym, NEW new \in Sym,
           new.name = sym[i].name, IsGlobal(new) <=> IsGlobal(sym[i]),
           sym' = [sym EXCEPT ![i] = new],
           UNCHANGED <<nbuckets, bucket, chain, hashed, pc, arg, cur, ret, twice, submitted>>
    PROVE  IInv'
<1>1. sym \in Seq(Sym) /\ i \in 1 .. Len(sym) BY DEF IInv, TypeOK
<1>2. /\ sym' \in Seq(Sym) /\ Len(sym') = Len(sym)
      /\ SameEntries(sym, sym', Len(sym) + 1)
  BY <1>1 DEF SameEntries
<1>3. TypeOK' BY <1>2 DEF IInv, TypeOK
<1>4. ChainsOK'
  <2>1. Chains(sym, nbuckets, bucket, chain, Len(sym))
    BY ChainsAreChains DEF IInv, Covered
  <2>2. Chains(sym', nbuckets, bucket, chain, Len(sym))
    BY <1>1, <1>2, <2>1, ChainsKept
  <2>3. Covered' = Len(sym) BY <1>2 DEF Covered
  <2>4. QED BY <2>2, <2>3 DEF ChainsOK, Chains
<1>5. WalkOK' BY DEF WalkOK
<1>6. UniqueGlobals' BY <1>1, <1>2 DEF IInv, UniqueGlobals, SameEntries
<1>7. QED BY <1>3, <1>4, <1>5, <1>6 DEF IInv

\* What put_extern_sym2() and update_storage() write into an entry keeps its name.
LEMMA CompilerPatchesInv == ASSUME IInv, CompilerPatches PROVE IInv'
<1>1. PICK i \in DOMAIN sym, c \in Contribution :
        \/ PatchDefined(i, c.shndx, c.val)
        \/ IsGlobal(sym[i]) /\ UpdateStorage(i, c.vis, c.bind = "WEAK")
  BY DEF CompilerPatches
<1>2. c \in Sym /\ sym[i] \in Sym BY ContributionAssumption DEF IInv, TypeOK
<1>3. CASE PatchDefined(i, c.shndx, c.val)
  <2> DEFINE new == [sym[i] EXCEPT !.shndx = c.shndx, !.val = c.val]
  <2>1. new \in Sym /\ new.name = sym[i].name /\ (IsGlobal(new) <=> IsGlobal(sym[i]))
    BY <1>2 DEF Sym, IsGlobal
  <2>2. /\ pc = "idle" /\ sym' = [sym EXCEPT ![i] = new]
        /\ UNCHANGED <<nbuckets, bucket, chain, hashed, pc, arg, cur, ret, twice, submitted>>
    BY <1>3 DEF PatchDefined
  <2> HIDE DEF new
  <2>3. QED BY <2>1, <2>2, InPlaceInv
<1>4. CASE IsGlobal(sym[i]) /\ UpdateStorage(i, c.vis, c.bind = "WEAK")
  <2> DEFINE new == [sym[i] EXCEPT !.vis = IF c.vis # "DEFAULT" THEN c.vis ELSE @,
                                   !.bind = IF c.bind = "WEAK" THEN "WEAK" ELSE @]
  <2>1. new \in Sym /\ new.name = sym[i].name /\ (IsGlobal(new) <=> IsGlobal(sym[i]))
    BY <1>2, <1>4 DEF Sym, IsGlobal, Binds
  <2>2. /\ pc = "idle" /\ sym' = [sym EXCEPT ![i] = new]
        /\ UNCHANGED <<nbuckets, bucket, chain, hashed, pc, arg, cur, ret, twice, submitted>>
    BY <1>4 DEF UpdateStorage
  <2> HIDE DEF new
  <2>3. QED BY <2>1, <2>2, InPlaceInv
<1>5. QED BY <1>1, <1>3, <1>4

-----------------------------------------------------------------------------
(* The theorems.                                                           *)

\* Every step keeps the invariant.
LEMMA IInvNext == IInv /\ [Next]_vars => IInv'
<1>1. SUFFICES ASSUME IInv, [Next]_vars PROVE IInv'
  OBVIOUS
<1>2. CASE FindElfSym
  <2>1. PICK n \in Names : Call(Lookup(n)) BY <1>2 DEF FindElfSym
  <2>2. QED BY <1>1, <2>1, CallStep
<1>3. CASE SetElfSym
  <2>1. PICK c \in Contribution : Call(Set(c)) BY <1>3 DEF SetElfSym
  <2>2. QED BY <1>1, <2>1, CallStep
<1>4. CASE PutElfSym BY <1>1, <1>4, PutElfSymInv
<1>5. CASE FindStep BY <1>1, <1>5, FindStepInv
<1>6. CASE FindReturn BY <1>1, <1>6, FindReturnInv
<1>7. CASE SetLocal BY <1>1, <1>7, SetLocalInv
<1>8. CASE SetNew BY <1>1, <1>8, SetNewInv
<1>9. CASE SetExisting BY <1>1, <1>9, SetExistingInv
<1>10. CASE Rehash BY <1>1, <1>10, RehashInv
<1>11. CASE RehashDone BY <1>1, <1>11, RehashDoneInv
<1>12. CASE CompilerPatches BY <1>1, <1>12, CompilerPatchesInv
<1>13. CASE UNCHANGED vars
  BY <1>1, <1>13 DEF vars, IInv, TypeOK, ChainsOK, Covered, WalkOK, UniqueGlobals,
                     LastBefore, InBucket
<1>14. QED
  BY <1>1, <1>2, <1>3, <1>4, <1>5, <1>6, <1>7, <1>8, <1>9, <1>10, <1>11, <1>12, <1>13
     DEF Next

\* The entries, the hash chains and the walk stay consistent, for every size of the table.
THEOREM IInvHolds == Spec => []IInv
BY IInvInit, IInvNext, PTL DEF Spec

\* The variables of the table keep their types, for every size of the table.
THEOREM TypeCorrect == Spec => []TypeOK
<1>1. IInv => TypeOK BY DEF IInv
<1>2. QED BY IInvHolds, <1>1, PTL

\* A global name never gets a second entry.
THEOREM OneEntryPerName == Spec => []UniqueGlobals
<1>1. IInv => UniqueGlobals BY DEF IInv
<1>2. QED BY IInvHolds, <1>1, PTL

\* The chains visit the global entries of their bucket, the newest first.
THEOREM ChainsCorrect == Spec => []ChainsOK
<1>1. IInv => ChainsOK BY DEF IInv
<1>2. QED BY IInvHolds, <1>1, PTL

\* find_elf_sym answers 0 only when no global entry has the name, and
\* otherwise with an entry that has it.
THEOREM LookupCorrect == Spec => FindAnswers
<1>1. ASSUME IInv, FindReturn
      PROVE  IF ret' = 0
             THEN \A i \in DOMAIN sym : ~(IsGlobal(sym[i]) /\ sym[i].name = arg.name)
             ELSE IsGlobal(sym[ret']) /\ sym[ret'].name = arg.name
  <2>1. /\ pc = "find" /\ ret' = cur /\ (cur # 0 => sym[cur].name = arg.name)
        /\ sym \in Seq(Sym)
    BY <1>1 DEF FindReturn, Reached, IInv, TypeOK
  <2>2. CASE cur = 0 BY <1>1, <2>1, <2>2 DEF IInv, WalkOK
  <2>3. CASE cur # 0 BY <1>1, <2>1, <2>3 DEF IInv, WalkOK, InBucket
  <2>4. QED BY <2>2, <2>3
<1>2. QED BY IInvHolds, <1>1, PTL DEF FindAnswers

-----------------------------------------------------------------------------
(* What the entries mean                                                   *)

\* the contributions to a name among those of S
Mentions(S, n) == {c \in S : c.name = n}

Contents(s) == <<s.shndx, s.val>>

\* The entry e answers for the contributions C to its name: it is what
\* SymbolResolution promises, a name contributed once is its contribution, and
\* of the strong definitions others can see it holds the contents, or else
\* "defined twice" was printed.
Accounted(e, C, reported) ==
    /\ Resolution!Promised(C, Resolution!Core(e))
    /\ \A c \in C : C = {c} => e = c
    /\ \A c \in C : Fixed(c) /\ Exposed(c) =>
         e.name \in reported \/ (Fixed(e) /\ Contents(e) = Contents(c))

\* The inductive invariant: every contribution has an entry that answers for it.
AccountInv ==
    /\ \A c \in submitted : IsGlobal(c) /\ Entries(c.name) # {}
    /\ \A i \in DOMAIN sym :
         IsGlobal(sym[i]) => Accounted(sym[i], Mentions(submitted, sym[i].name), twice)

\* Second half of DuplicatesReported: nothing is reported without a reason.
TwiceInv ==
    \A n \in twice : \E c, d \in submitted :
        c # d /\ c.name = n /\ d.name = n /\ Fixed(c) /\ Exposed(c)

-----------------------------------------------------------------------------
(* set_elf_sym on one entry                                                *)

\* A name contributed once is its contribution.
LEMMA FirstAccounted ==
    ASSUME NEW new, NEW reported PROVE Accounted(new, {new}, reported)
<1>1. Resolution!Promised({new}, Resolution!Core(new))
  BY DEF Resolution!Promised, Resolution!Core, Resolution!IsDef, Resolution!IsStrong
<1>2. QED BY <1>1 DEF Accounted

\* What set_elf_sym reports when it meets an existing entry.
Reports(old, new) == old # new /\ old.shndx # "UNDEF" /\ Clashes(old, new)

\* The entry keeps the contents of a strong definition.
LEMMA StrongStays ==
    ASSUME NEW old \in Sym, NEW new \in Sym, Fixed(old)
    PROVE  Resolution!Core(Resolved(old, new)) = Resolution!Core(old)
<1>1. ~Overrides(old, new) BY DEF Fixed, Overrides, Tentative
<1>2. old.shndx # "UNDEF" BY DEF Fixed
<1>3. Resolved(old, new) = [old EXCEPT !.vis = MergedVis(old.vis, new.vis)]
  BY <1>1, <1>2 DEF Resolved
<1>4. QED BY <1>3 DEF Resolution!Core, Sym

\* The entry answers for one contribution more after set_elf_sym has seen it.
LEMMA MergeAccounted ==
    ASSUME NEW old \in Sym, NEW new \in Sym, NEW C \in SUBSET Sym, NEW T, NEW T2,
           IsGlobal(old), IsGlobal(new), old.name = new.name,
           Accounted(old, C, T), T \subseteq T2,
           Reports(old, new) => old.name \in T2
    PROVE  Accounted(Resolved(old, new), C \cup {new}, T2)
<1> DEFINE e == Resolved(old, new)
           D == C \cup {new}
           vis == MergedVis(old.vis, new.vis)
<1>1. /\ old.bind \in {"GLOBAL", "WEAK"} /\ new.bind \in {"GLOBAL", "WEAK"}
      /\ old.shndx \in Sections /\ new.shndx \in Sections
  BY DEF Sym, IsGlobal, Binds
<1>2. e.name = old.name BY ResolvedType
<1>3. /\ e.bind = new.bind /\ e.shndx = new.shndx /\ e.val = new.val
      /\ old.shndx = "UNDEF" \/ Overrides(old, new)
      \/ /\ e.bind = old.bind /\ e.shndx = old.shndx /\ e.val = old.val
         /\ old.shndx # "UNDEF" /\ ~Overrides(old, new)
  BY DEF Resolved, Sym
<1>4. /\ \E c \in C : Resolution!Core(old) = Resolution!Core(c)
      /\ (\E c \in C : Resolution!IsDef(c)) => Resolution!IsDef(old)
      /\ (\E c \in C : Resolution!IsStrong(c)) => Resolution!IsStrong(old)
  BY DEF Accounted, Resolution!Promised, Resolution!Core, Resolution!IsDef, Resolution!IsStrong
<1>5. Resolution!Promised(D, Resolution!Core(e))
  <2>1. \E c \in D : Resolution!Core(e) = Resolution!Core(c)
    BY <1>3, <1>4 DEF Resolution!Core
  <2>2. (\E c \in D : Resolution!IsDef(c)) => Resolution!IsDef(e)
    BY <1>3, <1>4 DEF Resolution!IsDef, Overrides
  <2>3. (\E c \in D : Resolution!IsStrong(c)) => Resolution!IsStrong(e)
    <3>1. CASE old.shndx = "UNDEF"
      <4>1. ~\E c \in C : Resolution!IsStrong(c)
        BY <1>4, <3>1 DEF Resolution!IsStrong, Resolution!IsDef
      <4>2. e.bind = new.bind /\ e.shndx = new.shndx BY <1>3, <3>1
      <4>3. QED BY <4>1, <4>2 DEF Resolution!IsStrong, Resolution!IsDef
    <3>2. CASE Overrides(old, new)
      BY <1>3, <3>2 DEF Resolution!IsStrong, Resolution!IsDef, Overrides
    <3>3. CASE old.shndx # "UNDEF" /\ ~Overrides(old, new)
      <4>1. e.bind = old.bind /\ e.shndx = old.shndx BY <1>3, <3>3
      <4>2. Resolution!IsStrong(new) => old.bind = "GLOBAL"
        BY <1>1, <3>3 DEF Overrides, Resolution!IsStrong, Resolution!IsDef
      <4>3. QED BY <1>4, <3>3, <4>1, <4>2 DEF Resolution!IsStrong, Resolution!IsDef
    <3>4. QED BY <3>1, <3>2, <3>3
  <2>4. QED
    BY <2>1, <2>2, <2>3
       DEF Resolution!Promised, Resolution!Core, Resolution!IsDef, Resolution!IsStrong
<1>6. ASSUME NEW c \in D, D = {c} PROVE e = c
  <2>1. c = new /\ C = {new} BY <1>4, <1>6
  <2>2. old = new BY <2>1 DEF Accounted
  <2>3. vis = old.vis BY <2>2 DEF MergedVis
  <2>4. QED BY <2>1, <2>2, <2>3 DEF Resolved, Sym
<1>7. ASSUME NEW c \in D, Fixed(c), Exposed(c), e.name \notin T2
      PROVE  Fixed(e) /\ Contents(e) = Contents(c)
  <2>1. ~Reports(old, new) BY <1>2, <1>7
  <2>2. CASE c \in C
    <3>1. Fixed(old) /\ Contents(old) = Contents(c)
      BY <1>2, <1>7, <2>2 DEF Accounted
    <3>2. Resolution!Core(e) = Resolution!Core(old) BY <3>1, StrongStays
    <3>3. QED BY <3>1, <3>2 DEF Resolution!Core, Fixed, Contents
  <2>3. CASE c = new
    <3>1. CASE old.shndx = "UNDEF" \/ Overrides(old, new)
      BY <1>3, <1>7, <2>3, <3>1 DEF Fixed, Contents
    <3>2. CASE old.shndx # "UNDEF" /\ ~Overrides(old, new)
      <4>1. old.bind = "GLOBAL" /\ ~(Tentative(old) /\ new.shndx = "data")
        BY <1>1, <1>7, <2>3, <3>2 DEF Overrides, Fixed, Exposed
      <4>2. Clashes(old, new)
        BY <1>7, <2>3, <4>1 DEF Clashes, Fixed, Exposed, Tentative
      <4>3. old = new BY <2>1, <3>2, <4>2 DEF Reports
      <4>4. QED BY <1>3, <1>7, <2>3, <4>3 DEF Fixed, Contents
    <3>3. QED BY <3>1, <3>2
  <2>4. QED BY <2>2, <2>3
<1>8. QED BY <1>5, <1>6, <1>7 DEF Accounted

-----------------------------------------------------------------------------
(* The steps                                                               *)

\* Accounted looks at the reported names only to find the name of the entry.
LEMMA AccountedMonotone ==
    ASSUME NEW e, NEW C, NEW T, NEW T2, T \subseteq T2, Accounted(e, C, T)
    PROVE  Accounted(e, C, T2)
BY DEF Accounted

\* The array T holds the global entries of S, at the same places, and no others.
SameGlobals(S, T) ==
    /\ DOMAIN S \subseteq DOMAIN T
    /\ \A i \in DOMAIN S : T[i] = S[i]
    /\ \A i \in DOMAIN T \ DOMAIN S : ~IsGlobal(T[i])

\* The entries and the meaning of a name, with the array made explicit.
EntriesIn(S, n) == {i \in DOMAIN S : IsGlobal(S[i]) /\ S[i].name = n}

MeaningIn(S, n) ==
    IF EntriesIn(S, n) = {} THEN Absent
    ELSE LET s == S[CHOOSE i \in EntriesIn(S, n) : TRUE]
         IN  [bind |-> s.bind, shndx |-> s.shndx, val |-> s.val]

\* Tables with the same global entries give names the same meaning.
LEMMA SameEntriesIn ==
    ASSUME NEW S, NEW T, NEW n, SameGlobals(S, T)
    PROVE  EntriesIn(T, n) = EntriesIn(S, n) /\ MeaningIn(T, n) = MeaningIn(S, n)
<1>1. EntriesIn(T, n) = EntriesIn(S, n) BY DEF SameGlobals, EntriesIn
<1>2. CASE EntriesIn(S, n) = {} BY <1>1, <1>2 DEF MeaningIn
<1>3. CASE EntriesIn(S, n) # {}
  <2>1. (CHOOSE i \in EntriesIn(S, n) : TRUE) \in EntriesIn(S, n) BY <1>3
  <2>2. (CHOOSE i \in EntriesIn(S, n) : TRUE) \in DOMAIN S BY <2>1 DEF EntriesIn
  <2>3. QED BY <1>1, <1>3, <2>2 DEF MeaningIn, SameGlobals
<1>4. QED BY <1>1, <1>2, <1>3

\* The meaning of a name with one entry is that entry.
LEMMA MeaningOfEntry ==
    ASSUME NEW S, NEW k \in DOMAIN S, IsGlobal(S[k]),
           \A i \in DOMAIN S : IsGlobal(S[i]) /\ S[i].name = S[k].name => i = k
    PROVE  MeaningIn(S, S[k].name) = Resolution!Core(S[k])
<1>1. EntriesIn(S, S[k].name) = {k} BY DEF EntriesIn
<1>2. (CHOOSE i \in EntriesIn(S, S[k].name) : TRUE) = k BY <1>1
<1>3. QED BY <1>1, <1>2 DEF MeaningIn, Resolution!Core

\* The steps that leave the global entries alone: all but SetNew and SetExisting.
Quiet == SameGlobals(sym, sym') /\ UNCHANGED <<twice, submitted>>

\* Only set_elf_sym() with a global symbol changes a global entry, once nothing is patched.
LEMMA QuietSteps ==
    ASSUME IInv, MaxPatched = 0, [Next]_vars, ~SetNew, ~SetExisting
    PROVE  Quiet
<1>1. sym \in Seq(Sym) BY DEF IInv, TypeOK
<1>2. ~CompilerPatches
  <2>1. SUFFICES ASSUME Len(sym) <= 0 PROVE DOMAIN sym = {}
    BY DEF CompilerPatches
  <2>2. QED BY <1>1, <2>1
<1>3. ASSUME NEW s, ~IsGlobal(s), PutLocal(s), UNCHANGED <<twice, submitted>>
      PROVE  Quiet
  <2>1. sym' = Append(sym, s) BY <1>3 DEF PutLocal
  <2>2. DOMAIN sym = 1 .. Len(sym) /\ DOMAIN sym' = 1 .. Len(sym) + 1 /\ Len(sym) \in Nat
    BY <1>1, <2>1
  <2>3. \A i \in 1 .. Len(sym) : sym'[i] = sym[i] BY <1>1, <2>1
  <2>4. sym'[Len(sym) + 1] = s BY <1>1, <2>1
  <2>5. QED BY <1>3, <2>2, <2>3, <2>4 DEF Quiet, SameGlobals
<1>4. CASE PutElfSym BY <1>3, <1>4 DEF PutElfSym
<1>5. CASE SetLocal BY <1>3, <1>5 DEF SetLocal
<1>6. ASSUME UNCHANGED <<sym, twice, submitted>> PROVE Quiet
  BY <1>6 DEF Quiet, SameGlobals
<1>7. CASE FindElfSym \/ SetElfSym BY <1>6, <1>7 DEF FindElfSym, SetElfSym, Call
<1>8. CASE FindStep \/ FindReturn \/ Rehash \/ RehashDone \/ UNCHANGED vars
  BY <1>6, <1>8 DEF FindStep, FindReturn, Rehash, RehashDone, vars
<1>9. QED BY <1>2, <1>4, <1>5, <1>7, <1>8 DEF Next

\* A new name: nobody has contributed to it.
LEMMA NewName ==
    ASSUME IInv, AccountInv, SetNew
    PROVE  /\ arg.s \in Sym /\ arg.s \in Contribution /\ IsGlobal(arg.s)
           /\ sym' = Append(sym, arg.s) /\ submitted' = submitted \cup {arg.s}
           /\ twice' = twice
           /\ EntriesIn(sym, arg.s.name) = {} /\ Mentions(submitted, arg.s.name) = {}
<1>1. /\ pc = "find" /\ cur = 0 /\ IsGlobal(arg.s)
      /\ arg.s \in Sym /\ arg.s \in Contribution /\ arg.s.name = arg.name
  BY ArgType DEF IInv, SetNew, Reached
<1>2. sym' = Append(sym, arg.s) /\ submitted' = submitted \cup {arg.s} /\ twice' = twice
  BY DEF SetNew, PutGlobal
<1>3. EntriesIn(sym, arg.s.name) = {}
  <2>1. \A j \in 0 + 1 .. Len(sym) : ~(IsGlobal(sym[j]) /\ sym[j].name = arg.name)
    BY <1>1 DEF IInv, WalkOK
  <2>2. DOMAIN sym = 0 + 1 .. Len(sym) BY DEF IInv, TypeOK
  <2>3. QED BY <1>1, <2>1, <2>2 DEF EntriesIn
<1>4. Mentions(submitted, arg.s.name) = {}
  BY <1>3 DEF AccountInv, Mentions, Entries, EntriesIn
<1>5. QED BY <1>1, <1>2, <1>3, <1>4

\* An existing name: the walk has stopped at its entry, the only one.
LEMMA OldName ==
    ASSUME IInv, SetExisting
    PROVE  /\ arg.s \in Sym /\ arg.s \in Contribution /\ IsGlobal(arg.s)
           /\ cur \in DOMAIN sym /\ sym[cur] \in Sym /\ IsGlobal(sym[cur])
           /\ sym[cur].name = arg.s.name
           /\ \A i \in DOMAIN sym : IsGlobal(sym[i]) /\ sym[i].name = arg.s.name => i = cur
           /\ sym' = [sym EXCEPT ![cur] = Resolved(sym[cur], arg.s)]
           /\ submitted' = submitted \cup {arg.s}
           /\ twice' = IF Reports(sym[cur], arg.s) THEN twice \cup {arg.s.name} ELSE twice
<1>1. /\ cur \in 1 .. Len(sym) /\ sym[cur].name = arg.name
      /\ IsGlobal(arg.s) /\ sym \in Seq(Sym)
      /\ arg.s \in Sym /\ arg.s \in Contribution /\ arg.s.name = arg.name
  BY ArgType DEF IInv, TypeOK, SetExisting, Reached
<1>2. cur \in DOMAIN sym /\ sym[cur] \in Sym /\ IsGlobal(sym[cur])
  BY <1>1 DEF IInv, WalkOK, InBucket, SetExisting, Reached
<1>3. \A i \in DOMAIN sym : IsGlobal(sym[i]) /\ sym[i].name = arg.s.name => i = cur
  BY <1>1, <1>2 DEF IInv, UniqueGlobals
<1>4. QED BY <1>1, <1>2, <1>3 DEF SetExisting, Reports

-----------------------------------------------------------------------------
(* AccountInv and TwiceInv are kept                                        *)

\* The other steps keep the account.
LEMMA QuietAccount ==
    ASSUME IInv, AccountInv, Quiet PROVE AccountInv'
<1>1. submitted' = submitted /\ twice' = twice /\ SameGlobals(sym, sym') BY DEF Quiet
<1>2. \A n : EntriesIn(sym', n) = EntriesIn(sym, n) BY <1>1, SameEntriesIn
<1>3. ASSUME NEW i \in DOMAIN sym', IsGlobal(sym'[i])
      PROVE  Accounted(sym'[i], Mentions(submitted, sym'[i].name), twice)
  <2>1. i \in DOMAIN sym /\ sym'[i] = sym[i] BY <1>1, <1>3 DEF SameGlobals
  <2>2. QED BY <1>3, <2>1 DEF AccountInv
<1>4. QED BY <1>1, <1>2, <1>3 DEF AccountInv, Entries, EntriesIn, Mentions

\* The first contribution to a name accounts for its entry.
LEMMA SetNewAccount ==
    ASSUME IInv, AccountInv, SetNew PROVE AccountInv'
<1> DEFINE s == arg.s
           k == Len(sym) + 1
<1>1. /\ IsGlobal(s) /\ s \in Sym
      /\ submitted' = submitted \cup {s} /\ twice' = twice
      /\ Mentions(submitted, s.name) = {}
      /\ sym' = Append(sym, s) /\ sym \in Seq(Sym)
  BY NewName DEF IInv, TypeOK
<1> HIDE DEF s
<1>2. /\ DOMAIN sym = 1 .. Len(sym) /\ DOMAIN sym' = 1 .. k /\ Len(sym) \in Nat
      /\ \A i \in 1 .. Len(sym) : sym'[i] = sym[i]
      /\ sym'[k] = s
  BY <1>1
<1>3. \A n : IF n = s.name THEN Mentions(submitted', n) = {s}
             ELSE Mentions(submitted', n) = Mentions(submitted, n)
  BY <1>1 DEF Mentions
<1>4. ASSUME NEW c \in submitted' PROVE IsGlobal(c) /\ Entries(c.name)' # {}
  <2>1. CASE c = s BY <1>1, <1>2, <2>1 DEF Entries
  <2>2. CASE c \in submitted
    <3>1. IsGlobal(c) /\ Entries(c.name) # {} BY <2>2 DEF AccountInv
    <3>2. PICK i \in DOMAIN sym : IsGlobal(sym[i]) /\ sym[i].name = c.name
      BY <3>1 DEF Entries
    <3>3. i \in DOMAIN sym' /\ sym'[i] = sym[i] BY <1>2
    <3>4. QED BY <3>1, <3>2, <3>3 DEF Entries
  <2>3. QED BY <1>1, <2>1, <2>2
<1>5. ASSUME NEW i \in DOMAIN sym', IsGlobal(sym'[i])
      PROVE  Accounted(sym'[i], Mentions(submitted', sym'[i].name), twice')
  <2>1. CASE i = k BY <1>2, <1>3, <2>1, FirstAccounted
  <2>2. CASE i \in DOMAIN sym
    <3>1. sym'[i] = sym[i] BY <1>2, <2>2
    <3>2. Accounted(sym[i], Mentions(submitted, sym[i].name), twice)
      BY <1>5, <2>2, <3>1 DEF AccountInv
    <3>3. Mentions(submitted, sym[i].name) # {}
      BY <3>2 DEF Accounted, Resolution!Promised
    <3>4. sym[i].name # s.name BY <1>1, <3>3
    <3>5. QED BY <1>1, <1>3, <3>1, <3>2, <3>4
  <2>3. QED BY <1>2, <2>1, <2>2
<1>6. QED BY <1>4, <1>5 DEF AccountInv, Mentions

\* A further contribution is resolved to what one of the two said.
LEMMA SetExistingAccount ==
    ASSUME IInv, AccountInv, SetExisting PROVE AccountInv'
<1> DEFINE s == arg.s
           e == Resolved(sym[cur], s)
<1>1. /\ s \in Sym /\ s \in Contribution /\ IsGlobal(s)
      /\ cur \in DOMAIN sym /\ sym[cur] \in Sym /\ IsGlobal(sym[cur])
      /\ sym[cur].name = s.name
      /\ \A i \in DOMAIN sym : IsGlobal(sym[i]) /\ sym[i].name = s.name => i = cur
      /\ sym' = [sym EXCEPT ![cur] = e]
      /\ submitted' = submitted \cup {s}
      /\ twice' = IF Reports(sym[cur], s) THEN twice \cup {s.name} ELSE twice
  BY OldName
<1>2. e.name = s.name /\ IsGlobal(e) BY <1>1, ResolvedType
<1>3. Accounted(e, Mentions(submitted, s.name) \cup {s}, twice')
  <2>1. Accounted(sym[cur], Mentions(submitted, s.name), twice) BY <1>1 DEF AccountInv
  <2>2. Mentions(submitted, s.name) \in SUBSET Sym
    BY ContributionAssumption DEF Mentions, IInv, TypeOK
  <2>3. twice \subseteq twice' /\ (Reports(sym[cur], s) => sym[cur].name \in twice')
    BY <1>1
  <2>4. QED BY <1>1, <2>1, <2>2, <2>3, MergeAccounted
<1> HIDE DEF s, e
<1>4. /\ DOMAIN sym' = DOMAIN sym /\ sym'[cur] = e
      /\ \A i \in DOMAIN sym : i # cur => sym'[i] = sym[i]
  BY <1>1 DEF IInv, TypeOK
<1>5. \A n : IF n = s.name THEN Mentions(submitted', n) = Mentions(submitted, n) \cup {s}
             ELSE Mentions(submitted', n) = Mentions(submitted, n)
  BY <1>1 DEF Mentions
<1>6. ASSUME NEW c \in submitted' PROVE IsGlobal(c) /\ Entries(c.name)' # {}
  <2>1. CASE c.name = s.name
    <3>1. cur \in Entries(c.name)' BY <1>1, <1>2, <1>4, <2>1 DEF Entries
    <3>2. IsGlobal(c) BY <1>1, <1>6 DEF AccountInv
    <3>3. QED BY <3>1, <3>2
  <2>2. CASE c.name # s.name
    <3>1. IsGlobal(c) /\ Entries(c.name) # {} BY <1>1, <1>6, <2>2 DEF AccountInv
    <3>2. PICK i \in DOMAIN sym : IsGlobal(sym[i]) /\ sym[i].name = c.name
      BY <3>1 DEF Entries
    <3>3. i # cur BY <1>1, <2>2, <3>2
    <3>4. i \in DOMAIN sym' /\ sym'[i] = sym[i] BY <1>4, <3>3
    <3>5. QED BY <3>1, <3>2, <3>4 DEF Entries
  <2>3. QED BY <2>1, <2>2
<1>7. ASSUME NEW i \in DOMAIN sym', IsGlobal(sym'[i])
      PROVE  Accounted(sym'[i], Mentions(submitted', sym'[i].name), twice')
  <2>1. CASE i = cur BY <1>2, <1>3, <1>4, <1>5, <2>1
  <2>2. CASE i # cur
    <3>1. i \in DOMAIN sym /\ sym'[i] = sym[i] BY <1>4, <2>2
    <3>2. sym[i].name # s.name BY <1>1, <1>7, <2>2, <3>1
    <3>3. Accounted(sym[i], Mentions(submitted, sym[i].name), twice)
      BY <1>7, <3>1 DEF AccountInv
    <3>4. twice \subseteq twice' BY <1>1
    <3>5. Accounted(sym[i], Mentions(submitted, sym[i].name), twice')
      BY <3>3, <3>4, AccountedMonotone
    <3>6. QED BY <1>5, <3>1, <3>2, <3>5
  <2>3. QED BY <2>1, <2>2
<1>8. QED BY <1>6, <1>7 DEF AccountInv, Mentions

\* A report names a strong definition and something else of the same name:
\* when the entry differs from the contribution, the contribution is not the
\* only one.
LEMMA SetExistingTwice ==
    ASSUME IInv, AccountInv, TwiceInv, SetExisting PROVE TwiceInv'
<1>1. /\ arg.s \in Sym /\ sym[cur] \in Sym /\ cur \in DOMAIN sym
      /\ IsGlobal(sym[cur]) /\ sym[cur].name = arg.s.name
      /\ submitted' = submitted \cup {arg.s}
      /\ twice' = IF Reports(sym[cur], arg.s) THEN twice \cup {arg.s.name} ELSE twice
  BY OldName
<1>2. SUFFICES ASSUME NEW n \in twice'
               PROVE  \E c, d \in submitted' :
                        c # d /\ c.name = n /\ d.name = n /\ Fixed(c) /\ Exposed(c)
  BY DEF TwiceInv
<1>3. CASE n \in twice BY <1>1, <1>3 DEF TwiceInv
<1>4. CASE n \notin twice
  <2>1. n = arg.s.name /\ Reports(sym[cur], arg.s) BY <1>1, <1>2, <1>4
  <2>2. Fixed(arg.s) /\ Exposed(arg.s)
    BY <1>1, <2>1 DEF Reports, Clashes, Tentative, Fixed, Exposed, Sym, Sections
  <2>3. Accounted(sym[cur], Mentions(submitted, n), twice) BY <1>1, <2>1 DEF AccountInv
  <2>4. PICK d \in Mentions(submitted, n) : d # arg.s
    <3>1. Mentions(submitted, n) # {} BY <2>3 DEF Accounted, Resolution!Promised
    <3>2. arg.s \in Mentions(submitted, n) /\ Mentions(submitted, n) = {arg.s} => sym[cur] = arg.s
      BY <2>3 DEF Accounted
    <3>3. QED BY <2>1, <3>1, <3>2 DEF Reports
  <2>5. d \in submitted /\ d.name = n BY DEF Mentions
  <2>6. QED BY <1>1, <2>1, <2>2, <2>4, <2>5
<1>5. QED BY <1>3, <1>4

\* An empty table accounts for nothing.
LEMMA AccountInit == Init => AccountInv /\ TwiceInv
BY DEF Init, AccountInv, TwiceInv

\* Every step keeps both accounts.
LEMMA AccountNext ==
    MaxPatched = 0 /\ IInv /\ AccountInv /\ TwiceInv /\ [Next]_vars => (AccountInv /\ TwiceInv)'
<1>1. SUFFICES ASSUME MaxPatched = 0, IInv, AccountInv, TwiceInv, [Next]_vars
               PROVE  AccountInv' /\ TwiceInv'
  OBVIOUS
<1>2. CASE SetNew
  <2>1. submitted' = submitted \cup {arg.s} /\ twice' = twice BY <1>1, <1>2, NewName
  <2>2. TwiceInv' BY <1>1, <2>1 DEF TwiceInv
  <2>3. QED BY <1>1, <1>2, <2>2, SetNewAccount
<1>3. CASE SetExisting BY <1>1, <1>3, SetExistingAccount, SetExistingTwice
<1>4. CASE ~SetNew /\ ~SetExisting
  <2>1. Quiet BY <1>1, <1>4, QuietSteps
  <2>2. TwiceInv' BY <1>1, <2>1 DEF TwiceInv, Quiet
  <2>3. QED BY <1>1, <2>1, <2>2, QuietAccount
<1>5. QED BY <1>2, <1>3, <1>4

-----------------------------------------------------------------------------
(* The theorems                                                            *)

\* Every contribution has an entry that answers for it.
THEOREM EveryoneAccounted ==
    ASSUME MaxPatched = 0 PROVE Spec => [](AccountInv /\ TwiceInv)
<1>1. Init => AccountInv /\ TwiceInv BY AccountInit
<1>2. IInv /\ (AccountInv /\ TwiceInv) /\ [Next]_vars => (AccountInv /\ TwiceInv)'
  BY AccountNext
<1>3. QED BY <1>1, <1>2, IInvHolds, PTL DEF Spec

\* Two strong definitions of a name with different contents that other modules
\* can see are reported, in whatever order they and other symbols come; and a
\* name contributed once, or with no such definition, is not reported.
THEOREM ReportsComplete ==
    ASSUME MaxPatched = 0 PROVE Spec => []DuplicatesReported
<1>1. AccountInv /\ TwiceInv => DuplicatesReported
  <2>1. SUFFICES ASSUME AccountInv, NEW c \in submitted, NEW d \in submitted,
                        c.name = d.name, Fixed(c), Fixed(d), Exposed(c), Exposed(d),
                        c.name \notin twice
                 PROVE  <<c.shndx, c.val>> = <<d.shndx, d.val>>
    BY DEF DuplicatesReported, TwiceInv
  <2>2. Entries(c.name) # {} BY <2>1 DEF AccountInv
  <2>3. PICK i \in DOMAIN sym : IsGlobal(sym[i]) /\ sym[i].name = c.name
    BY <2>2 DEF Entries
  <2>4. Accounted(sym[i], Mentions(submitted, c.name), twice) BY <2>1, <2>3 DEF AccountInv
  <2>5. c \in Mentions(submitted, c.name) /\ d \in Mentions(submitted, c.name) BY <2>1 DEF Mentions
  <2>6. Contents(sym[i]) = Contents(c) /\ Contents(sym[i]) = Contents(d)
    BY <2>1, <2>3, <2>4, <2>5 DEF Accounted
  <2>7. QED BY <2>6 DEF Contents
<1>2. QED BY <1>1, EveryoneAccounted, PTL

\* Once a name is defined, its visibility only becomes more constraining: a
\* later contribution never opens a symbol that an earlier one has hidden.
THEOREM VisibilityKept ==
    ASSUME MaxPatched = 0 PROVE Spec => VisibilityTightens
<1>1. ASSUME IInv, IInv', [Next]_vars,
             NEW i \in DOMAIN sym, sym[i].shndx # "UNDEF", sym[i].vis # "DEFAULT"
      PROVE  VisRank(sym'[i].vis) \in 1 .. VisRank(sym[i].vis)
  <2>1. sym[i] \in Sym BY <1>1 DEF IInv, TypeOK
  <2>2. VisRank(sym[i].vis) \in 1 .. 3 BY <1>1, <2>1 DEF VisRank, Sym, Vis
  <2>3. CASE sym'[i] = sym[i] BY <2>2, <2>3
  <2>4. CASE SetExisting /\ i = cur
    <3>1. /\ arg.s \in Sym
          /\ sym'[i] = Resolved(sym[i], arg.s)
      BY <1>1, <2>4, OldName DEF IInv, TypeOK
    <3>2. sym'[i].vis = MergedVis(sym[i].vis, arg.s.vis)
      BY <1>1, <2>1, <3>1 DEF Resolved, Sym
    <3>3. sym[i].vis \in Vis /\ arg.s.vis \in Vis BY <2>1, <3>1 DEF Sym
    <3>4. VisRank(MergedVis(sym[i].vis, arg.s.vis)) \in 1 .. VisRank(sym[i].vis)
      BY <1>1, <3>3 DEF MergedVis, VisRank, Vis
    <3>5. QED BY <3>2, <3>4
  <2>5. CASE SetExisting /\ i # cur BY <2>3, <2>5, OldName, <1>1 DEF IInv, TypeOK
  <2>6. CASE SetNew
    <3>1. sym' = Append(sym, arg.s)  BY <2>6 DEF SetNew, PutGlobal
    <3>2. arg.s \in Sym BY <1>1, <2>6, ArgType DEF IInv, SetNew, Reached
    <3>3. sym'[i] = sym[i] BY <1>1, <3>1, <3>2, AppendFacts DEF IInv, TypeOK
    <3>4. QED BY <2>3, <3>3
  <2>7. CASE ~SetNew /\ ~SetExisting
    BY <1>1, <2>3, <2>7, QuietSteps DEF Quiet, SameGlobals
  <2>8. QED BY <2>4, <2>5, <2>6, <2>7
<1>2. IInv /\ IInv' /\ [Next]_vars =>
        \A i \in DOMAIN sym :
          /\ sym[i].shndx # "UNDEF" /\ sym[i].vis # "DEFAULT"
          => VisRank(sym'[i].vis) \in 1 .. VisRank(sym[i].vis)
  BY <1>1
<1>3. QED BY <1>2, IInvHolds, PTL DEF Spec, VisibilityTightens

-----------------------------------------------------------------------------
(* The table implements SymbolResolution                                   *)

\* A step that leaves the global entries alone changes the meaning of no name.
LEMMA QuietStutters ==
    ASSUME Quiet PROVE UNCHANGED Resolution!resVars
<1>1. SameGlobals(sym, sym') /\ submitted' = submitted BY DEF Quiet
<1>2. \A n : MeaningIn(sym', n) = MeaningIn(sym, n) BY <1>1, SameEntriesIn
<1>3. \A n : Meaning(n)' = Meaning(n)
  BY <1>2 DEF Meaning, MeaningIn, Entries, EntriesIn
<1>4. QED BY <1>1, <1>3 DEF Resolution!resVars

\* What makes a step of the table a contribution of c.
LEMMA SubmitStep ==
    ASSUME NEW c \in Contribution, IsGlobal(c), c.name \in Names, NEW e,
           submitted' = submitted \cup {c},
           \A n \in Names : Meaning(n)' = IF n = c.name THEN Resolution!Core(e) ELSE Meaning(n),
           Resolution!Promised(Mentions(submitted', c.name), Resolution!Core(e)),
           \/ Meaning(c.name) = Absent
           \/ /\ Resolution!IsStrong(Meaning(c.name))
              /\ Resolution!HasContents(Meaning(c.name))
              => Resolution!Core(e) = Meaning(c.name)
    PROVE  Resolution!ResNext
<1> DEFINE m == Resolution!Core(e)
           mine == {d \in submitted \cup {c} : d.name = c.name}
           before == [n \in Names |-> Meaning(n)]
<1>1. mine = Mentions(submitted', c.name) BY DEF Mentions
<1>2. m \in {Resolution!Core(d) : d \in mine}
  BY <1>1 DEF Resolution!Promised, Resolution!Core
<1>3. before[c.name] = Meaning(c.name) OBVIOUS
<1>4. before' = [before EXCEPT ![c.name] = m] OBVIOUS
<1>5. Resolution!Submit(c)
  BY <1>1, <1>2, <1>3, <1>4 DEF Resolution!Submit
<1>6. QED BY <1>5 DEF Resolution!ResNext

\* The first contribution to a name is a submission to the specification.
LEMMA SetNewSubmits ==
    ASSUME IInv, AccountInv, SetNew PROVE Resolution!ResNext
<1> DEFINE s == arg.s
           k == Len(sym) + 1
<1>1. /\ s \in Sym /\ s \in Contribution /\ IsGlobal(s)
      /\ sym' = Append(sym, s) /\ submitted' = submitted \cup {s}
      /\ EntriesIn(sym, s.name) = {} /\ Mentions(submitted, s.name) = {}
      /\ sym \in Seq(Sym)
  BY NewName DEF IInv, TypeOK
<1> HIDE DEF s
<1>2. s.name \in Names BY <1>1 DEF Sym
<1>3. /\ DOMAIN sym = 1 .. Len(sym) /\ DOMAIN sym' = 1 .. k /\ Len(sym) \in Nat
      /\ \A i \in 1 .. Len(sym) : sym'[i] = sym[i]
      /\ sym'[k] = s
  BY <1>1
<1>4. k \in DOMAIN sym' /\ k \notin DOMAIN sym BY <1>3
<1> HIDE DEF k
<1>5. ASSUME NEW n \in Names
      PROVE  MeaningIn(sym', n) = IF n = s.name THEN Resolution!Core(s) ELSE MeaningIn(sym, n)
  <2>1. CASE n = s.name
    <3>1. \A i \in DOMAIN sym' : IsGlobal(sym'[i]) /\ sym'[i].name = n => i = k
      BY <1>1, <1>3, <2>1 DEF EntriesIn, k
    <3>2. MeaningIn(sym', sym'[k].name) = Resolution!Core(sym'[k])
      BY <1>1, <1>3, <1>4, <2>1, <3>1, MeaningOfEntry
    <3>3. QED BY <1>3, <2>1, <3>2
  <2>2. CASE n # s.name
    <3>1. EntriesIn(sym', n) = EntriesIn(sym, n)
      BY <1>3, <2>2 DEF EntriesIn, k
    <3>2. CASE EntriesIn(sym, n) = {} BY <2>2, <3>1, <3>2 DEF MeaningIn
    <3>3. CASE EntriesIn(sym, n) # {}
      <4>1. (CHOOSE i \in EntriesIn(sym, n) : TRUE) \in DOMAIN sym
        BY <3>3 DEF EntriesIn
      <4>2. QED BY <1>3, <2>2, <3>1, <3>3, <4>1 DEF MeaningIn
    <3>4. QED BY <3>2, <3>3
  <2>3. QED BY <2>1, <2>2
<1>6. \A n \in Names : Meaning(n)' = IF n = s.name THEN Resolution!Core(s) ELSE Meaning(n)
  BY <1>5 DEF Meaning, MeaningIn, Entries, EntriesIn
<1>7. Meaning(s.name) = Absent
  BY <1>1 DEF Meaning, Entries, EntriesIn
<1>8. Mentions(submitted', s.name) = {s} BY <1>1 DEF Mentions
<1>9. Resolution!Promised(Mentions(submitted', s.name), Resolution!Core(s))
  BY <1>8, FirstAccounted DEF Accounted
<1>10. QED BY <1>1, <1>2, <1>6, <1>7, <1>9, SubmitStep

\* So is a further one, whatever set_elf_sym() makes of the two.
LEMMA SetExistingSubmits ==
    ASSUME IInv, AccountInv, AccountInv', SetExisting PROVE Resolution!ResNext
<1> DEFINE s == arg.s
           e == Resolved(sym[cur], s)
<1>1. /\ s \in Sym /\ s \in Contribution /\ IsGlobal(s)
      /\ cur \in DOMAIN sym /\ sym[cur] \in Sym /\ IsGlobal(sym[cur])
      /\ sym[cur].name = s.name
      /\ \A i \in DOMAIN sym : IsGlobal(sym[i]) /\ sym[i].name = s.name => i = cur
      /\ sym' = [sym EXCEPT ![cur] = e]
      /\ submitted' = submitted \cup {s}
  BY OldName
<1>2. e.name = s.name /\ IsGlobal(e) BY <1>1, ResolvedType
<1>3. Fixed(sym[cur]) => Resolution!Core(e) = Resolution!Core(sym[cur])
  BY <1>1, StrongStays
<1>4. s.name \in Names BY <1>1 DEF Sym
<1> HIDE DEF s, e
<1>5. /\ DOMAIN sym' = DOMAIN sym /\ sym'[cur] = e
      /\ \A i \in DOMAIN sym : i # cur => sym'[i] = sym[i]
  BY <1>1 DEF IInv, TypeOK
<1>6. MeaningIn(sym, s.name) = Resolution!Core(sym[cur])
  BY <1>1, MeaningOfEntry
<1>7. ASSUME NEW n \in Names
      PROVE  MeaningIn(sym', n) = IF n = s.name THEN Resolution!Core(e) ELSE MeaningIn(sym, n)
  <2>1. CASE n = s.name
    <3>1. \A i \in DOMAIN sym' : IsGlobal(sym'[i]) /\ sym'[i].name = n => i = cur
      BY <1>1, <1>5, <2>1
    <3>2. cur \in DOMAIN sym' /\ IsGlobal(sym'[cur]) /\ sym'[cur].name = n
      BY <1>1, <1>2, <1>5, <2>1
    <3>3. MeaningIn(sym', sym'[cur].name) = Resolution!Core(sym'[cur])
      BY <3>1, <3>2, MeaningOfEntry
    <3>4. QED BY <1>5, <2>1, <3>2, <3>3
  <2>2. CASE n # s.name
    <3>1. EntriesIn(sym', n) = EntriesIn(sym, n) /\ cur \notin EntriesIn(sym, n)
      BY <1>1, <1>2, <1>5, <2>2 DEF EntriesIn
    <3>2. CASE EntriesIn(sym, n) = {} BY <2>2, <3>1, <3>2 DEF MeaningIn
    <3>3. CASE EntriesIn(sym, n) # {}
      <4>1. /\ (CHOOSE i \in EntriesIn(sym, n) : TRUE) \in DOMAIN sym
            /\ (CHOOSE i \in EntriesIn(sym, n) : TRUE) # cur
        BY <3>1, <3>3 DEF EntriesIn
      <4>2. QED BY <1>5, <2>2, <3>1, <3>3, <4>1 DEF MeaningIn
    <3>4. QED BY <3>2, <3>3
  <2>3. QED BY <2>1, <2>2
<1>8. \A n \in Names : Meaning(n)' = IF n = s.name THEN Resolution!Core(e) ELSE Meaning(n)
  BY <1>7 DEF Meaning, MeaningIn, Entries, EntriesIn
<1>9. Meaning(s.name) = Resolution!Core(sym[cur])
  BY <1>6 DEF Meaning, MeaningIn, Entries, EntriesIn
<1>10. Resolution!Promised(Mentions(submitted', s.name), Resolution!Core(e))
  BY <1>1, <1>2, <1>5 DEF AccountInv, Accounted
<1>11. Resolution!IsStrong(Meaning(s.name)) /\ Resolution!HasContents(Meaning(s.name))
       => Resolution!Core(e) = Meaning(s.name)
  <2>1. SUFFICES ASSUME Resolution!IsStrong(Resolution!Core(sym[cur])),
                        Resolution!HasContents(Resolution!Core(sym[cur]))
                 PROVE  Fixed(sym[cur])
    BY <1>3, <1>9
  <2>2. QED
    BY <2>1 DEF Resolution!IsStrong, Resolution!HasContents, Resolution!Core, Fixed
<1>12. QED BY <1>1, <1>4, <1>8, <1>10, <1>11, SubmitStep

\* The symbol table implements SymbolResolution: every name stands for one of
\* its contributions, a definition wins over a reference and a strong one over
\* a weak one, and the contents of a strong definition are final, through every
\* lookup, insertion, rebuild and merge.
THEOREM PromisesKept ==
    ASSUME MaxPatched = 0 PROVE Spec => KeepsPromises
<1>1. Init => Resolution!ResInit
  BY DEF Init, Resolution!ResInit, Meaning, Entries
<1>2. IInv /\ AccountInv /\ AccountInv' /\ [Next]_vars
      => [Resolution!ResNext]_(Resolution!resVars)
  <2>1. SUFFICES ASSUME IInv, AccountInv, AccountInv', [Next]_vars
                 PROVE  Resolution!ResNext \/ UNCHANGED Resolution!resVars
    OBVIOUS
  <2>2. CASE SetNew BY <2>1, <2>2, SetNewSubmits
  <2>3. CASE SetExisting BY <2>1, <2>3, SetExistingSubmits
  <2>4. CASE ~SetNew /\ ~SetExisting BY <2>1, <2>4, QuietSteps, QuietStutters
  <2>5. QED BY <2>2, <2>3, <2>4
<1>3. QED
  BY <1>1, <1>2, IInvHolds, EveryoneAccounted, PTL
     DEF Spec, KeepsPromises, Resolution!ResSpec

=============================================================================
