------------------------------ MODULE ElfSymtab ------------------------------
(***************************************************************************)
(* The symbol table of the linker (tccelf.c): a growing array of ELF       *)
(* symbols, a chained hash table over the global ones that is rebuilt with *)
(* twice the buckets when it fills up, and set_elf_sym, which decides what *)
(* a second contribution to a name does to the first.                      *)
(*                                                                         *)
(* The two loops of the code, the walk along a chain in find_elf_sym and   *)
(* the scan in rebuild_hash, are steps of the state machine:               *)
(*                                                                         *)
(*   pc = "idle"    no call is in progress                                 *)
(*   pc = "find"    find_elf_sym(arg.name), cur is the entry looked at     *)
(*   pc = "rehash"  rebuild_hash, cur is the next entry to insert          *)
(*                                                                         *)
(* Entry 0 of the array, the null symbol, is index 0 of a chain: its end.  *)
(***************************************************************************)
EXTENDS Integers, Sequences, FiniteSets, SymbolMerge

CONSTANTS Names,         \* symbol names
          ElfHash,       \* elf_hash: [Names -> Nat]
          Values,        \* addresses and sizes: what tells two definitions apart
          Contribution,  \* the symbols that callers pass to set_elf_sym
          Absent,        \* no symbol
          MaxSyms,       \* bound: entries of the array
          MaxCalls,      \* bound: different contributions made
          MaxPatched     \* bound: entries the compiler patches directly, the first ones

Binds    == {"LOCAL", "GLOBAL", "WEAK"}
Sections == {"UNDEF", "COMMON", "bss", "data", "ABS"}
Vis      == {"DEFAULT", "INTERNAL", "HIDDEN", "PROTECTED"}
Sym      == [name: Names, bind: Binds, shndx: Sections, vis: Vis, val: Values]

\* the arguments of a call: find_elf_sym(n), or set_elf_sym(c)
Lookup(n)  == [op |-> "find", name |-> n]
Set(c)     == [op |-> "set", name |-> c.name, s |-> c]

ASSUME HashAssumption == ElfHash \in [Names -> Nat]
ASSUME ContributionAssumption == Contribution \subseteq Sym
ASSUME AbsentAssumption ==
    Absent \notin {Lookup(n) : n \in Names} \cup {Set(c) : c \in Contribution}
ASSUME BoundAssumption == MaxSyms \in Nat /\ MaxCalls \in Nat /\ MaxPatched \in Nat

VARIABLES sym,        \* symtab_section->data: the entries 1, 2, ...
          nbuckets,   \* hash->data[0]
          bucket,     \* bucket -> the last entry inserted in it, or 0
          chain,      \* entry -> the entry inserted before it in its bucket, or 0
          hashed,     \* nb_hashed_syms
          pc, arg, cur,
          ret,        \* what the last call returned
          twice,      \* names reported as "defined twice"
          submitted   \* ghost: the global contributions whose call has decided

table == <<sym, nbuckets, bucket, chain, hashed>>
vars  == <<sym, nbuckets, bucket, chain, hashed, pc, arg, cur, ret, twice, submitted>>

IsGlobal(s) == s.bind # "LOCAL"

Init == /\ sym = <<>> /\ chain = <<>>
        /\ nbuckets = 1 /\ bucket = [b \in {0} |-> 0]
        /\ hashed = 0
        /\ pc = "idle" /\ arg = Absent /\ cur = 0 /\ ret = 0
        /\ twice = {} /\ submitted = {}

-----------------------------------------------------------------------------
(* put_elf_sym and rebuild_hash                                            *)

\* put_elf_sym of a symbol the hash table leaves out: section symbols, statics
PutLocal(s) ==
    /\ sym' = Append(sym, s)
    /\ chain' = Append(chain, 0)
    /\ pc' = "idle" /\ ret' = Len(sym) + 1
    /\ UNCHANGED <<nbuckets, bucket, hashed, cur>>

\* mutant: the buckets are cleared up to their old number
PutGlobalSmallMemset(s) ==
    LET h == ElfHash[s.name] % nbuckets
        i == Len(sym) + 1
    IN  /\ sym' = Append(sym, s)
        /\ ret' = i
        /\ hashed' = hashed + 1
        /\ IF hashed + 1 > 2 * nbuckets
           THEN /\ nbuckets' = 2 * nbuckets
                /\ bucket' = [b \in 0 .. nbuckets - 1 |-> 0]
                /\ chain' = <<>>
                /\ pc' = "rehash" /\ cur' = 1
           ELSE /\ chain' = Append(chain, bucket[h])
                /\ bucket' = [bucket EXCEPT ![h] = i]
                /\ pc' = "idle"
                /\ UNCHANGED <<nbuckets, cur>>

\* mutant: the head is updated before it is copied to the chain
PutGlobalSwapped(s) ==
    LET h == ElfHash[s.name] % nbuckets
        i == Len(sym) + 1
    IN  /\ sym' = Append(sym, s)
        /\ ret' = i
        /\ hashed' = hashed + 1
        /\ IF hashed + 1 > 2 * nbuckets
           THEN /\ nbuckets' = 2 * nbuckets
                /\ bucket' = [b \in 0 .. 2 * nbuckets - 1 |-> 0]
                /\ chain' = <<>>
                /\ pc' = "rehash" /\ cur' = 1
           ELSE /\ chain' = Append(chain, i)
                /\ bucket' = [bucket EXCEPT ![h] = i]
                /\ pc' = "idle"
                /\ UNCHANGED <<nbuckets, cur>>

PutGlobal(s) ==
    LET h == ElfHash[s.name] % nbuckets
        i == Len(sym) + 1
    IN  /\ sym' = Append(sym, s)
        /\ ret' = i
        /\ hashed' = hashed + 1
        /\ IF hashed + 1 > 2 * nbuckets
           THEN /\ nbuckets' = 2 * nbuckets
                /\ bucket' = [b \in 0 .. 2 * nbuckets - 1 |-> 0]
                /\ chain' = <<>>
                /\ pc' = "rehash" /\ cur' = 1
           ELSE /\ chain' = Append(chain, bucket[h])
                /\ bucket' = [bucket EXCEPT ![h] = i]
                /\ pc' = "idle"
                /\ UNCHANGED <<nbuckets, cur>>

\* mutant: a static takes no place in the rebuilt chain
RehashSkipsLocals ==
    /\ pc = "rehash" /\ cur <= Len(sym)
    /\ IF IsGlobal(sym[cur])
       THEN LET h == ElfHash[sym[cur].name] % nbuckets
            IN  /\ chain' = Append(chain, bucket[h])
                /\ bucket' = [bucket EXCEPT ![h] = cur]
       ELSE UNCHANGED <<chain, bucket>>
    /\ cur' = cur + 1
    /\ UNCHANGED <<sym, nbuckets, hashed, pc, arg, ret, twice, submitted>>

\* one iteration of the loop of rebuild_hash
Rehash ==
    /\ pc = "rehash" /\ cur <= Len(sym)
    /\ IF IsGlobal(sym[cur])
       THEN LET h == ElfHash[sym[cur].name] % nbuckets
            IN  /\ chain' = Append(chain, bucket[h])
                /\ bucket' = [bucket EXCEPT ![h] = cur]
       ELSE chain' = Append(chain, 0) /\ UNCHANGED bucket
    /\ cur' = cur + 1
    /\ UNCHANGED <<sym, nbuckets, hashed, pc, arg, ret, twice, submitted>>

RehashDone ==
    /\ pc = "rehash" /\ cur > Len(sym)
    /\ pc' = "idle"
    /\ UNCHANGED <<sym, nbuckets, bucket, chain, hashed, arg, cur, ret, twice, submitted>>

-----------------------------------------------------------------------------
(* The calls                                                               *)

\* mutant: the bucket is computed with the number of buckets before the rebuild
CallOldBuckets(a) ==
    /\ pc = "idle"
    /\ pc' = "find" /\ arg' = a
    /\ cur' = bucket[ElfHash[a.name] % ((nbuckets + 1) \div 2)]
    /\ UNCHANGED <<sym, nbuckets, bucket, chain, hashed, ret, twice, submitted>>

\* find_elf_sym and set_elf_sym both begin at the head of the name's bucket
Call(a) ==
    /\ pc = "idle"
    /\ pc' = "find" /\ arg' = a
    /\ cur' = bucket[ElfHash[a.name] % nbuckets]
    /\ UNCHANGED <<sym, nbuckets, bucket, chain, hashed, ret, twice, submitted>>

FindElfSym == \E n \in Names : Call(Lookup(n))

SetElfSym ==
    \E c \in Contribution :
        /\ Len(sym) < MaxSyms
        /\ IsGlobal(c) => c \in submitted \/ Cardinality(submitted) < MaxCalls
        /\ Call(Set(c))

\* put_elf_sym called directly, for a symbol without a global name
PutElfSym ==
    \E c \in Contribution :
        /\ pc = "idle" /\ ~IsGlobal(c) /\ Len(sym) < MaxSyms
        /\ PutLocal(c)
        /\ UNCHANGED <<arg, twice, submitted>>

FindStep ==
    /\ pc = "find" /\ cur # 0 /\ sym[cur].name # arg.name
    /\ cur' = chain[cur]
    /\ UNCHANGED <<sym, nbuckets, bucket, chain, hashed, pc, arg, ret, twice, submitted>>

\* the walk is over
Reached == pc = "find" /\ (cur # 0 => sym[cur].name = arg.name)

FindReturn ==
    /\ Reached /\ arg.op = "find"
    /\ pc' = "idle" /\ ret' = cur
    /\ UNCHANGED <<sym, nbuckets, bucket, chain, hashed, arg, cur, twice, submitted>>

\* set_elf_sym: a static never meets another symbol
SetLocal ==
    /\ Reached /\ arg.op = "set" /\ ~IsGlobal(arg.s)
    /\ PutLocal(arg.s)
    /\ UNCHANGED <<arg, twice, submitted>>

SetNew ==
    /\ Reached /\ arg.op = "set" /\ IsGlobal(arg.s)
    /\ cur = 0
    /\ PutGlobal(arg.s)
    /\ submitted' = submitted \cup {arg.s}
    /\ UNCHANGED <<arg, twice>>

SetExisting ==
    /\ Reached /\ arg.op = "set" /\ IsGlobal(arg.s)
    /\ cur # 0
    /\ LET old == sym[cur] IN
         /\ sym' = [sym EXCEPT ![cur] = Resolved(old, arg.s)]
         /\ twice' = IF old # arg.s /\ old.shndx # "UNDEF" /\ Clashes(old, arg.s)
                     THEN twice \cup {old.name} ELSE twice
    /\ submitted' = submitted \cup {arg.s}
    /\ pc' = "idle" /\ ret' = cur
    /\ UNCHANGED <<nbuckets, bucket, chain, hashed, arg, cur>>

\* mutant: the entry is replaced by the new symbol, its linkage included
PatchDefinedStatic(i, sh, v) ==
    /\ pc = "idle"
    /\ sym' = [sym EXCEPT ![i].shndx = sh, ![i].val = v, ![i].bind = "GLOBAL"]
    /\ UNCHANGED <<nbuckets, bucket, chain, hashed, pc, arg, cur, ret, twice, submitted>>

\* put_extern_sym2 of the compiler, when the Sym has an entry already: the entry
\* is overwritten without a call of set_elf_sym
PatchDefined(i, sh, v) ==
    /\ pc = "idle"
    /\ sym' = [sym EXCEPT ![i].shndx = sh, ![i].val = v]
    /\ UNCHANGED <<nbuckets, bucket, chain, hashed, pc, arg, cur, ret, twice, submitted>>

\* update_storage of the compiler: attributes seen later in the unit
UpdateStorage(i, vis, weak) ==
    /\ pc = "idle"
    /\ sym' = [sym EXCEPT ![i].vis = IF vis # "DEFAULT" THEN vis ELSE @,
                          ![i].bind = IF weak THEN "WEAK" ELSE @]
    /\ UNCHANGED <<nbuckets, bucket, chain, hashed, pc, arg, cur, ret, twice, submitted>>

\* (no static is made weak: GNU C has no weak statics, though tcc does not say so)
CompilerPatches ==
    Len(sym) <= MaxPatched /\ \E i \in DOMAIN sym, c \in Contribution :
        \/ c.shndx # "UNDEF" /\ PatchDefined(i, c.shndx, c.val)
        \/ IsGlobal(sym[i]) /\ UpdateStorage(i, c.vis, c.bind = "WEAK")

Next == \/ FindElfSym \/ SetElfSym \/ PutElfSym
        \/ FindStep \/ FindReturn
        \/ SetLocal \/ SetNew \/ SetExisting
        \/ Rehash \/ RehashDone
        \/ CompilerPatches

Spec == Init /\ [][Next]_vars

\* a call that has begun runs: the linker is one sequential program
Running  == FindStep \/ FindReturn \/ SetLocal \/ SetNew \/ SetExisting \/ Rehash \/ RehashDone
FairSpec == Spec /\ WF_vars(Running)

-----------------------------------------------------------------------------
(* Properties                                                              *)

\* Every variable has its type, and an index names an entry of the array.
TypeOK ==
    /\ sym \in Seq(Sym)
    /\ nbuckets \in Nat \ {0}
    /\ bucket \in [0 .. nbuckets - 1 -> Nat]
    /\ chain \in Seq(Nat)
    /\ hashed \in Nat
    /\ pc \in {"idle", "find", "rehash"}
    /\ arg \in {Absent} \cup {Lookup(n) : n \in Names} \cup {Set(c) : c \in Contribution}
    /\ pc = "find" => arg # Absent /\ cur \in 0 .. Len(sym)
    /\ pc = "rehash" => cur \in 1 .. Len(sym) + 1
    /\ ret \in 0 .. Len(sym)
    /\ twice \subseteq Names
    /\ submitted \subseteq Contribution

\* entries the table covers: all of them, except in the middle of rebuild_hash
Covered == IF pc = "rehash" THEN cur - 1 ELSE Len(sym)

\* entry i of the array S belongs to bucket b of a table of nb buckets
InBucket(S, nb, i, b) == IsGlobal(S[i]) /\ ElfHash[S[i].name] % nb = b

\* m is the last entry before k in that bucket, or 0
LastBefore(S, nb, b, k, m) ==
    /\ m \in 0 .. k - 1
    /\ m # 0 => InBucket(S, nb, m, b)
    /\ \A j \in m + 1 .. k - 1 : ~InBucket(S, nb, j, b)

\* The chains visit exactly the global entries of their bucket, the newest
\* first, and statics are in no chain: put_elf_sym keeps this, and
\* rebuild_hash restores it from nothing in one scan of the array.
ChainsOK ==
    /\ Len(chain) = Covered
    /\ \A b \in 0 .. nbuckets - 1 : LastBefore(sym, nbuckets, b, Covered + 1, bucket[b])
    /\ \A i \in 1 .. Covered :
         IF IsGlobal(sym[i])
         THEN LastBefore(sym, nbuckets, ElfHash[sym[i].name] % nbuckets, i, chain[i])
         ELSE chain[i] = 0

\* What the walk of find_elf_sym has left behind does not have the name.
WalkOK ==
    pc = "find" =>
        /\ cur # 0 => InBucket(sym, nbuckets, cur, ElfHash[arg.name] % nbuckets)
        /\ \A j \in cur + 1 .. Len(sym) : ~(IsGlobal(sym[j]) /\ sym[j].name = arg.name)

\* A global name has one entry, whatever the order of insertions, rebuilds
\* and lookups: relocations against the name all see the same symbol.
UniqueGlobals ==
    \A i, j \in DOMAIN sym :
        IsGlobal(sym[i]) /\ IsGlobal(sym[j]) /\ sym[i].name = sym[j].name => i = j

\* find_elf_sym answers with an entry of the name, and with 0 only when the
\* whole array has none: the chain it walks never hides an entry.
FindAnswers ==
    [][FindReturn =>
         IF ret' = 0
         THEN \A i \in DOMAIN sym : ~(IsGlobal(sym[i]) /\ sym[i].name = arg.name)
         ELSE IsGlobal(sym[ret']) /\ sym[ret'].name = arg.name]_vars

\* Every call returns: no chain is a cycle, and rebuild_hash ends.
CallsReturn == pc # "idle" ~> pc = "idle"

-----------------------------------------------------------------------------
(* What the table means: the promises of SymbolResolution                  *)

Entries(n) == {i \in DOMAIN sym : IsGlobal(sym[i]) /\ sym[i].name = n}

Meaning(n) ==
    IF Entries(n) = {} THEN Absent
    ELSE LET s == sym[CHOOSE i \in Entries(n) : TRUE]
         IN  [bind |-> s.bind, shndx |-> s.shndx, val |-> s.val]

Resolution == INSTANCE SymbolResolution
                WITH Contribution <- {c \in Contribution : IsGlobal(c)},
                     meaning <- [n \in Names |-> Meaning(n)]

\* The hash table, its rebuilds and set_elf_sym together keep the promises:
\* definitions win over references, strong ones over weak ones, and the
\* contents of a strong definition are final.
KeepsPromises == Resolution!ResSpec

Fixed(s)  == s.bind = "GLOBAL" /\ s.shndx \in {"data", "ABS"}
Exposed(s) == s.vis \notin {"HIDDEN", "INTERNAL"}

\* Two strong definitions with contents that other modules can see are
\* reported as "defined twice", in whatever order weak, tentative and hidden
\* symbols of the name come between them; and nothing is reported for a name
\* that was contributed once, or has no such definition at all.
DuplicatesReported ==
    /\ \A c, d \in submitted :
         /\ c.name = d.name
         /\ Fixed(c) /\ Fixed(d) /\ Exposed(c) /\ Exposed(d)
         /\ <<c.shndx, c.val>> # <<d.shndx, d.val>>
         => c.name \in twice
    /\ \A n \in twice : \E c, d \in submitted :
         c # d /\ c.name = n /\ d.name = n /\ Fixed(c) /\ Exposed(c)

\* Once a name is defined, its visibility only becomes more constraining.
VisibilityTightens ==
    [][\A i \in DOMAIN sym :
         /\ sym[i].shndx # "UNDEF" /\ sym[i].vis # "DEFAULT"
         => VisRank(sym'[i].vis) \in 1 .. VisRank(sym[i].vis)]_vars
=============================================================================
