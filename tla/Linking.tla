------------------------------- MODULE Linking -------------------------------
(***************************************************************************)
(* Loading the files of a command line and binding an executable           *)
(* (tccelf.c, libtcc.c:994): object files, archives from which only what   *)
(* is needed is taken, linker scripts with INPUT and GROUP, and shared     *)
(* libraries with the libraries that they need.  Files open one another;   *)
(* the C stack of these calls is the variable stack.                       *)
(*                                                                         *)
(* A world is a command line and the contents of the files.  An object     *)
(* file has sections, symbols and relocations; the contents of a section   *)
(* are not represented: <<k, j>> is section j of the k-th object loaded.   *)
(* The table of symbols is the array of ElfSymtab with the lookup that is  *)
(* proved there: the one entry of the name.                                *)
(*                                                                         *)
(* Not part of a world are files with AS_NEEDED in a list, which the code  *)
(* ignores, files of a list named by a path, which are looked for again    *)
(* when they could not be loaded (tccelf.c:2883), and relocations for      *)
(* which the code follows a null pointer (tccelf.c:2419): those of a       *)
(* section that is ignored, or of a link-once section that is left out     *)
(* when the one that was kept has no relocations.                          *)
(***************************************************************************)
EXTENDS Integers, Sequences, FiniteSets, SequencesExt, Loops, SymbolMerge

CONSTANTS Code,      \* the worlds considered, and
          World(_),  \* for each its command line and its files
          OnceName   \* names of sections that begin with .gnu.linkonce

VARIABLES world,
          stack,     \* the calls in progress, the innermost last
          pc,        \* "load", "bind", "done" or "failed"
          tab,       \* symtab_section
          newUndef,  \* new_undef_sym
          once,      \* link-once section -> the section that was kept
          rels,      \* the relocations, converted
          dyn,       \* dynsymtab_section: the symbols of the shared libraries
          dlls,      \* loaded_dlls
          dynsym,    \* .dynsym: what the dynamic linker gets to see
          twice,     \* names reported as "defined twice"
          loaded     \* the objects loaded: file and number in it

symbols == <<tab, newUndef, once, rels, twice, loaded>>
vars == <<world, stack, pc, tab, newUndef, once, rels, dyn, dlls, dynsym, twice, loaded>>

File(f) == world.file[f]
Object(m) == File(m.f).objs[m.k]

\* tcc_tool_ar: the names that the index of an archive lists, member by member
Indexed(o) == {s.name : s \in {t \in Range(o.syms) : t.bind = "GLOBAL" /\ t.sec # 0}}
ArIndex(f, objs) ==
    LET Names(k) == SetToSeq({[f |-> f, k |-> k, name |-> n] : n \in Indexed(objs[k])})
    IN  FlattenSeq([k \in DOMAIN objs |-> Names(k)])

\* a world with what its files say of themselves: the index of each archive, and
\* the names that each object defines, offers in an index and refers to
Complete(w) ==
    LET ars == {f \in DOMAIN w.file : w.file[f].kind = "ar"}
        objects == UNION {{[f |-> f, k |-> k] : k \in DOMAIN w.file[f].objs} :
                            f \in ars \cup {f \in DOMAIN w.file : w.file[f].kind = "obj"}}
        global(m) == {s \in Range(w.file[m.f].objs[m.k].syms) : s.bind # "LOCAL"}
    IN  [cmd |-> w.cmd, file |-> w.file,
         index |-> [f \in ars |-> ArIndex(f, w.file[f].objs)],
         lib |-> [m \in objects |->
                    [defs   |-> {s.name : s \in {t \in global(m) : t.sec # 0}},
                     offers |-> Indexed(w.file[m.f].objs[m.k]),
                     refs   |-> {s.name : s \in {t \in global(m) : t.sec = 0}}]]]

-----------------------------------------------------------------------------
(* Worlds for which the linker keeps what it promises.  Code may go beyond *)
(* them; the theorems of Linking_proofs are about worlds like these.       *)

Binds  == {"LOCAL", "GLOBAL", "WEAK"}
Shndxs == {"UNDEF", "COMMON", "bss", "data"}
Visibilities == {"DEFAULT", "INTERNAL", "HIDDEN", "PROTECTED"}

ObjectFile == [secs : Seq(STRING),
               syms : Seq([name : STRING, bind : Binds, sec : Int, vis : Visibilities]),
               rels : Seq([sec : Nat, off : Nat, sym : Nat])]
DllSymbol == [name : STRING, bind : Binds, vis : Visibilities, shndx : Shndxs,
              type : {"func", "object", "none"}, value : Nat, dll : Nat]

OfKind(w, K) == {f \in DOMAIN w.file : w.file[f].kind \in K}
ObjectsOf(w) == UNION {Range(w.file[f].objs) : f \in OfKind(w, {"obj", "ar"})}
CommandLine(w) == {c.f : c \in Range(w.cmd)}
Listed(w) == UNION {UNION {Range(l.files) : l \in Range(w.file[f].lists)} :
                      f \in OfKind(w, {"script"}) \cap CommandLine(w)}

\* Every file is what its kind says, and every list and library names others: a
\* list has archives and libraries, and so is not in a list itself.
WellTyped(w) ==
    /\ w.cmd \in Seq([f : DOMAIN w.file, whole : BOOLEAN])
    /\ DOMAIN w.file = OfKind(w, {"obj", "ar", "script", "dll"})
    /\ \A f \in OfKind(w, {"obj"}) : w.file[f].objs \in Seq(ObjectFile) /\ Len(w.file[f].objs) = 1
    /\ \A f \in OfKind(w, {"ar"}) : w.file[f].objs \in Seq(ObjectFile)
    /\ \A f \in OfKind(w, {"script"}) :
         w.file[f].lists \in Seq([group : BOOLEAN, files : Seq(OfKind(w, {"ar", "dll"}))])
    /\ \A f \in OfKind(w, {"dll"}) : /\ w.file[f].syms \in Seq(DllSymbol)
                                     /\ w.file[f].needed \in Seq(OfKind(w, {"dll"}))

\* The sections that symbols and relocations refer to exist; no global is in a
\* section that the linker ignores, and no relocation is for one.
Referring(o) ==
    /\ \A s \in Range(o.syms) : /\ s.sec \in -1 .. Len(o.secs)
                                /\ s.sec > 0 /\ o.secs[s.sec] = "note" => s.bind = "LOCAL"
    /\ \A r \in Range(o.rels) : /\ r.sec \in DOMAIN o.secs /\ r.sym \in DOMAIN o.syms
                                /\ o.secs[r.sec] # "note"

\* the object relocates its section of this name
RelocatesIn(o, n) == \E r \in Range(o.rels) : o.secs[r.sec] = n

GlobalsIn(o, n) ==
    {s.name : s \in {t \in Range(o.syms) : t.bind # "LOCAL" /\ t.sec > 0 /\ o.secs[t.sec] = n}}

\* An object file, or an archive from which everything is taken, is named once.
NamedOnce(w) ==
    \A i \in DOMAIN w.cmd :
       LET c == w.cmd[i] IN
       w.file[c.f].kind = "obj" \/ (w.file[c.f].kind = "ar" /\ c.whole) =>
          c.f \notin Listed(w) /\ \A j \in DOMAIN w.cmd : w.cmd[j].f = c.f => j = i

\* Scripts are not read under --whole-archive; sections of one link-once name are
\* exchangeable: they define the same globals, and have relocations or have none.
PlainWorld(w) ==
    /\ WellTyped(w) /\ NamedOnce(w)
    /\ \A c \in Range(w.cmd) : w.file[c.f].kind = "script" => c.whole = FALSE
    /\ \A o \in ObjectsOf(w) : Referring(o)
    /\ \A o, p \in ObjectsOf(w) : \A n \in OnceName \cap Range(o.secs) \cap Range(p.secs) :
         GlobalsIn(o, n) = GlobalsIn(p, n)
    /\ \A o, p \in ObjectsOf(w) : \A n \in OnceName \cap Range(o.secs) \cap Range(p.secs) :
         RelocatesIn(o, n) <=> RelocatesIn(p, n)

\* The last symbol of the object that is in a section is in one of this name: what
\* the linker remembers when it looks at the relocations.
LastIn(o, n) ==
    \E i \in DOMAIN o.syms : /\ o.syms[i].sec > 0 /\ o.secs[o.syms[i].sec] = n
                             /\ \A j \in DOMAIN o.syms : j > i => o.syms[j].sec <= 0

\* Local symbols are in sections, and an object has one section of a link-once name.
\* Its relocations go to different places, outside such sections; the last symbol
\* decides for all of them what a symbol means whose section is left out.
Relocating(o) ==
    /\ \A s \in Range(o.syms) : s.bind = "LOCAL" => s.sec > 0
    /\ \A i, j \in DOMAIN o.secs : o.secs[i] = o.secs[j] /\ o.secs[i] \in OnceName => i = j
    /\ \A i, j \in DOMAIN o.rels : o.rels[i].sec = o.rels[j].sec /\ o.rels[i].off = o.rels[j].off => i = j
    /\ \A r \in Range(o.rels) :
         LET s == o.syms[r.sym] IN
         /\ o.secs[r.sec] \notin OnceName
         /\ s.bind = "LOCAL" /\ o.secs[s.sec] \in OnceName => LastIn(o, o.secs[s.sec])
         /\ s.bind = "LOCAL" /\ o.secs[s.sec] = "note" => \A n \in OnceName : ~LastIn(o, n)

\* A relocation is against a symbol of a section that no program contains: the
\* object cannot be loaded.
Loses(o) == \E r \in Range(o.rels) : LET j == o.syms[r.sym].sec IN j > 0 /\ o.secs[j] = "note"

\* the files of the groups of the scripts on the command line
Grouped(w) == UNION {UNION {Range(l.files) : l \in {k \in Range(w.file[f].lists) : k.group}} :
                       f \in OfKind(w, {"script"}) \cap CommandLine(w)}

\* The archives of a group have no member that cannot be loaded: when a group is
\* gone through again, nobody asks whether its files could be (tccelf.c:2966).
RelocWorld(w) ==
    /\ "note" \notin OnceName /\ \A o \in ObjectsOf(w) : Relocating(o)
    /\ \A f \in Grouped(w) \cap OfKind(w, {"ar"}) : \A o \in Range(w.file[f].objs) : ~Loses(o)

\* The objects refer to a name weakly, or they refer to it strongly; and what a
\* library defines has a type and a place, and what it needs has none.
BoundWorld(w) ==
    /\ \A o, p \in ObjectsOf(w) : \A s \in Range(o.syms), t \in Range(p.syms) :
         s.sec = 0 /\ t.sec = 0 /\ s.name = t.name => s.bind = t.bind
    /\ \A f \in OfKind(w, {"dll"}) : \A s \in Range(w.file[f].syms) : s.bind # "LOCAL" =>
         /\ s.shndx = "UNDEF" <=> s.type = "none"
         /\ s.shndx = "UNDEF" <=> s.value = 0

Init == /\ \E c \in Code : world = Complete(World(c))
        /\ stack = <<[k |-> "cmd", i |-> 1]>> /\ pc = "load"
        /\ tab = <<>> /\ newUndef = FALSE /\ once = <<>> /\ rels = <<>>
        /\ dyn = <<>> /\ dlls = <<>> /\ dynsym = <<>>
        /\ twice = {} /\ loaded = <<>>

top == Last(stack)
pop == Front(stack)

\* the caller goes on behind the file that is opened
Advanced == Append(pop, [top EXCEPT !.i = @ + 1])

-----------------------------------------------------------------------------
(* The symbol table                                                        *)

Lookup(T, n) ==
    LET I == {i \in DOMAIN T : T[i].name = n /\ T[i].bind # "LOCAL"}
    IN  IF I = {} THEN 0 ELSE CHOOSE i \in I : TRUE

\* a: the table with the global flags of the linker; a.index is what is returned
SetElfSym(a, s) ==
    LET i   == IF s.bind = "LOCAL" THEN 0 ELSE Lookup(a.tab, s.name)
        old == a.tab[i]
    IN  IF i = 0 THEN [a EXCEPT !.tab = Append(@, s), !.index = Len(a.tab) + 1]
        ELSE IF old = s THEN [a EXCEPT !.index = i]
        ELSE [a EXCEPT !.tab[i] = Resolved(old, s), !.index = i,
                       !.newUndef = @ \/ old.shndx = "UNDEF" \/ Overrides(old, s),
                       !.twice = IF old.shndx # "UNDEF" /\ Clashes(old, s)
                                 THEN @ \cup {s.name} ELSE @]

Entry(s, shndx, at) ==
    [name |-> s.name, bind |-> s.bind, vis |-> s.vis, shndx |-> shndx, at |-> at]

-----------------------------------------------------------------------------
(* tcc_load_object_file                                                    *)

\* a section that is in the program already, under its link-once name
Discarded(o, j) == o.secs[j] \in DOMAIN once
Ignored(o, j)   == o.secs[j] = "note"

\* one round of the second pass; a.map is old_to_new_syms, a.once is sm->link_once
AddSymbol(o, k, a, s) ==
    IF s.sec > 0 /\ Discarded(o, s.sec)
    THEN [a EXCEPT !.map = Append(@, IF s.bind = "LOCAL" THEN 0 ELSE Lookup(a.tab, s.name)),
                   !.once = TRUE]
    ELSE IF s.sec > 0 /\ Ignored(o, s.sec)
    THEN [a EXCEPT !.map = Append(@, 0), !.once = FALSE]
    ELSE LET shndx == IF s.sec = 0 THEN "UNDEF" ELSE IF s.sec < 0 THEN "COMMON"
                      ELSE IF o.secs[s.sec] = "bss" THEN "bss" ELSE "data"
             b == SetElfSym(a, Entry(s, shndx, IF s.sec = 0 THEN <<0, 0>> ELSE <<k, s.sec>>))
         IN  [b EXCEPT !.map = Append(@, b.index), !.once = IF s.sec > 0 THEN FALSE ELSE @]

Symbols(o, k) ==
    LET Add(a, s) == AddSymbol(o, k, a, s)
    IN  ForEach(Add, [tab |-> tab, newUndef |-> newUndef, twice |-> twice,
                      index |-> 0, map |-> <<>>, once |-> FALSE], o.syms)

\* mutant: the number in the object file is taken for the one in the table
ConvertedRaw(o, k, a, r) ==
    [at |-> IF Discarded(o, r.sec) THEN once[o.secs[r.sec]] ELSE <<k, r.sec>>,
     off |-> r.off, sym |-> IF a.map[r.sym] = 0 THEN 0 ELSE r.sym]

\* The relocations of a link-once section are in a section of another name, which
\* is not discarded: they go to the copy of the section that was kept.
Converted(o, k, a, r) ==
    [at |-> IF Discarded(o, r.sec) THEN once[o.secs[r.sec]] ELSE <<k, r.sec>>,
     off |-> r.off, sym |-> a.map[r.sym]]

\* the symbol of the relocation has no number in the table, and is not in a section
\* like the one that the pass over the symbols saw last
Invalid(o, a, r) == a.map[r.sym] = 0 /\ ~a.once

\* Relocations are left as they are in the object file from the first invalid one
\* on: at an offset in no section of the object, with the number that it uses.
Adjusted(o, k, a, i) ==
    LET r == o.rels[i]
    IN  IF \E j \in 1 .. i : Invalid(o, a, o.rels[j])
        THEN [at |-> <<0, r.sec>>, off |-> r.off, sym |-> r.sym]
        ELSE Converted(o, k, a, r)

\* the rounds of a group, after the first, that are in progress
Repeated(stk) == {i \in DOMAIN stk : stk[i].k = "list" /\ stk[i].again}

\* stk is where the caller goes on.  An object with an invalid relocation cannot be
\* loaded: each caller returns that to its own, which ends the program, except for
\* ld_add_file_list when it goes through a group again, which goes on.
LoadObject(m, stk) ==
    LET o == Object(m)
        k == Len(loaded) + 1
        new == {j \in DOMAIN o.secs : o.secs[j] \in OnceName /\ ~Discarded(o, j)}
    IN  \E a \in {Symbols(o, k)} :
        /\ tab' = a.tab /\ newUndef' = a.newUndef /\ twice' = a.twice
        /\ once' = [n \in DOMAIN once \cup {o.secs[j] : j \in new} |->
                      IF n \in DOMAIN once THEN once[n]
                      ELSE <<k, CHOOSE j \in new : o.secs[j] = n>>]
        /\ rels' = rels \o [i \in DOMAIN o.rels |-> Adjusted(o, k, a, i)]
        /\ loaded' = Append(loaded, m)
        /\ IF \A r \in Range(o.rels) : ~Invalid(o, a, r) THEN stack' = stk /\ pc' = pc
           ELSE IF Repeated(stk) = {} THEN stack' = stk /\ pc' = "failed"
           ELSE stack' = SubSeq(stk, 1, Max(Repeated(stk))) /\ pc' = pc

-----------------------------------------------------------------------------
(* The files of the command line, and the files that those open            *)

\* tcc_load_dll: one symbol of a library; local ones are passed over
AddDynamic(a, s) == IF s.bind = "LOCAL" THEN a ELSE SetElfSym(a, s)

\* its symbols, unless it is loaded already
AddDll(f, level) ==
    LET known == {i \in DOMAIN dlls : dlls[i].f = f}
        a == ForEach(AddDynamic, [tab |-> dyn, newUndef |-> newUndef, twice |-> {}, index |-> 0],
                    File(f).syms)
    IN  IF known # {}
        THEN /\ dlls' = [i \in DOMAIN dlls |->
                           IF i \in known /\ level < dlls[i].level
                           THEN [dlls[i] EXCEPT !.level = level] ELSE dlls[i]]
             /\ UNCHANGED <<dyn, newUndef>>
        ELSE /\ dlls' = Append(dlls, [f |-> f, level |-> level])
             /\ dyn' = a.tab /\ newUndef' = a.newUndef

\* s1->alacarte_link is 0: the entry of the command line that is in progress is
\* under --whole-archive
WholeArchives == world.cmd[stack[1].i - 1].whole

\* tcc_add_file_internal; stk is where the caller goes on
AddFile(f, whole, level, stk) ==
    CASE File(f).kind = "obj" ->
           LoadObject([f |-> f, k |-> 1], stk) /\ UNCHANGED <<dyn, dlls>>
      [] File(f).kind = "ar" ->
           /\ stack' = Append(stk, IF whole THEN [k |-> "whole", f |-> f, i |-> 1]
                                   ELSE [k |-> "ar", f |-> f, i |-> 1, bound |-> FALSE])
           /\ UNCHANGED <<symbols, dyn, dlls, pc>>
      [] File(f).kind = "script" ->
           /\ stack' = Append(stk, [k |-> "script", f |-> f, i |-> 1])
           /\ UNCHANGED <<symbols, dyn, dlls, pc>>
      [] File(f).kind = "dll" ->
           /\ AddDll(f, level)
           /\ stack' = IF \E i \in DOMAIN dlls : dlls[i].f = f THEN stk
                       ELSE Append(stk, [k |-> "dll", f |-> f, i |-> 1])
           /\ UNCHANGED <<tab, once, rels, twice, loaded, pc>>

Doing(k) == pc = "load" /\ top.k = k

NextFile ==
    /\ Doing("cmd")
    /\ IF top.i <= Len(world.cmd)
       THEN AddFile(world.cmd[top.i].f, world.cmd[top.i].whole, 0, Advanced)
       ELSE pc' = "bind" /\ UNCHANGED <<stack, symbols, dyn, dlls>>
    /\ UNCHANGED <<world, dynsym>>

\* tcc_load_archive without its index (--whole-archive)
WholeArchive ==
    /\ Doing("whole")
    /\ IF top.i <= Len(File(top.f).objs)
       THEN LoadObject([f |-> top.f, k |-> top.i], Advanced)
       ELSE stack' = pop /\ UNCHANGED <<symbols, pc>>
    /\ UNCHANGED <<world, dyn, dlls, dynsym>>

\* mutant: the archive is gone through once
ArchiveDoneOnce ==
    /\ Doing("ar") /\ top.i > Len(world.index[top.f])
    /\ stack' = pop
    /\ UNCHANGED <<world, symbols, pc, dyn, dlls, dynsym>>

\* tcc_load_alacarte: one name of the index
ArchiveName ==
    /\ Doing("ar") /\ top.i <= Len(world.index[top.f])
    /\ LET e == world.index[top.f][top.i]
           i == Lookup(tab, e.name)
       IN  IF i # 0 /\ tab[i].shndx = "UNDEF"
           THEN LoadObject([f |-> e.f, k |-> e.k],
                           Append(pop, [top EXCEPT !.i = @ + 1, !.bound = TRUE]))
           ELSE /\ stack' = Advanced
                /\ UNCHANGED <<symbols, pc>>
    /\ UNCHANGED <<world, dyn, dlls, dynsym>>

ArchiveDone ==
    /\ Doing("ar") /\ top.i > Len(world.index[top.f])
    /\ stack' = IF top.bound THEN Append(pop, [top EXCEPT !.i = 1, !.bound = FALSE]) ELSE pop
    /\ UNCHANGED <<world, symbols, pc, dyn, dlls, dynsym>>

\* tcc_load_ldscript: INPUT and GROUP
Script ==
    /\ Doing("script")
    /\ IF top.i <= Len(File(top.f).lists)
       THEN /\ stack' = Append(Advanced, [k |-> "list", f |-> top.f, l |-> top.i, i |-> 1, again |-> FALSE])
            /\ newUndef' = FALSE
       ELSE stack' = pop /\ UNCHANGED newUndef
    /\ UNCHANGED <<world, tab, once, rels, twice, loaded, pc, dyn, dlls, dynsym>>

List == File(top.f).lists[top.l]

\* ld_add_file_list: the files of the list, in the list or in a new round
ListFile ==
    /\ Doing("list") /\ top.i <= Len(List.files)
    /\ AddFile(List.files[top.i], WholeArchives, 0, Advanced)
    /\ UNCHANGED <<world, dynsym>>

\* mutant: the flag is not cleared when it is read
ListDoneSticky ==
    /\ Doing("list") /\ top.i > Len(List.files)
    /\ UNCHANGED newUndef
    /\ stack' = IF List.group /\ newUndef
                THEN Append(pop, [top EXCEPT !.i = 1, !.again = TRUE]) ELSE pop
    /\ UNCHANGED <<world, tab, once, rels, twice, loaded, pc, dyn, dlls, dynsym>>

ListDone ==
    /\ Doing("list") /\ top.i > Len(List.files)
    /\ newUndef' = IF List.group THEN FALSE ELSE newUndef
    /\ stack' = IF List.group /\ newUndef
                THEN Append(pop, [top EXCEPT !.i = 1, !.again = TRUE]) ELSE pop
    /\ UNCHANGED <<world, tab, once, rels, twice, loaded, pc, dyn, dlls, dynsym>>

\* the libraries that a library needs
DllNeeds ==
    /\ Doing("dll")
    /\ LET needed == File(top.f).needed
       IN  IF top.i > Len(needed)
           THEN stack' = pop /\ UNCHANGED <<symbols, dyn, dlls, pc>>
           ELSE IF \E i \in DOMAIN dlls : dlls[i].f = needed[top.i]
           THEN stack' = Advanced /\ UNCHANGED <<symbols, dyn, dlls, pc>>
           ELSE AddFile(needed[top.i], WholeArchives, 1, Advanced)
    /\ UNCHANGED <<world, dynsym>>

-----------------------------------------------------------------------------
(* elf_output_file: binding an executable                                  *)

\* relocate_common_syms
Allocated == [i \in DOMAIN tab |-> IF tab[i].shndx = "COMMON"
                                   THEN [tab[i] EXCEPT !.shndx = "bss"] ELSE tab[i]]

DynEntry(n, bind, shndx, at) ==
    [name |-> n, bind |-> bind, vis |-> "DEFAULT", shndx |-> shndx, at |-> at]

\* mutant: only the weak name of the object is exported
BindCopyAlone(a, i, d) ==
    LET n == a.tab[i].name
        e == DynEntry(n, dyn[d].bind, "bss", <<0, d>>)
    IN  [a EXCEPT !.tab[i] = Resolved(@, e), !.dynsym = Append(@, e)]

\* the executable gets a copy of an object of a library, under the name it refers
\* to, and if that name is weak, under the first strong name with the same value
BindCopy(a, i, d) ==
    LET n == a.tab[i].name
        e == DynEntry(n, dyn[d].bind, "bss", <<0, d>>)
        aliases == {j \in DOMAIN dyn : dyn[j].value = dyn[d].value /\ dyn[j].bind = "GLOBAL"}
        j == CHOOSE j \in aliases : \A k \in aliases : j <= k
    IN  [a EXCEPT !.tab[i] = Resolved(@, e),
                  !.dynsym = IF dyn[d].bind = "WEAK" /\ aliases # {}
                             THEN @ \o <<e, DynEntry(dyn[j].name, dyn[j].bind, "bss", <<0, d>>)>>
                             ELSE Append(@, e)]

\* bind_exe_dynsyms: one symbol of the table
BindSymbol(a, i) ==
    LET s == a.tab[i]
        d == Lookup(dyn, s.name)
    IN  IF s.shndx # "UNDEF" THEN a
        ELSE IF d = 0
        THEN [a EXCEPT !.undef = IF s.bind = "WEAK" THEN @ ELSE @ \cup {s.name}]
        ELSE CASE dyn[d].type = "func" ->
                    [a EXCEPT !.dynsym = Append(@, DynEntry(s.name, "GLOBAL", "UNDEF", <<0, 0>>))]
               [] dyn[d].type = "object" -> BindCopy(a, i, d)
               [] OTHER -> a

\* bind_libs_dynsyms: what the libraries refer to or define, and the executable has
Exported(a, e) ==
    LET i == Lookup(a.tab, e.name)
    IN  IF i = 0 \/ a.tab[i].shndx = "UNDEF" THEN a
        ELSE LET s == a.tab[i]
                 b == SetElfSym([tab |-> a.dynsym, newUndef |-> FALSE, twice |-> {}, index |-> 0],
                                [s EXCEPT !.vis = "DEFAULT"])
             IN  [a EXCEPT !.dynsym = b.tab]

\* mutant: a name that some library mentions is never reported
StillUndefinedBefore(a) == {}

\* relocate_syms
StillUndefined(a) ==
    {a.tab[i].name : i \in {j \in DOMAIN a.tab :
        /\ a.tab[j].shndx = "UNDEF" /\ a.tab[j].bind # "WEAK"
        /\ Lookup(a.dynsym, a.tab[j].name) = 0}}

BindExe ==
    /\ pc = "bind"
    /\ \E a \in {ForUpTo(BindSymbol, [tab |-> Allocated, dynsym |-> <<>>, undef |-> {}], Len(tab))} :
       \E b \in {ForEach(Exported, a, dyn)} :
          /\ tab' = b.tab /\ dynsym' = b.dynsym
          /\ pc' = IF a.undef # {} \/ StillUndefined(b) # {} THEN "failed" ELSE "done"
    /\ UNCHANGED <<world, stack, newUndef, once, rels, dyn, dlls, twice, loaded>>

Next == \/ NextFile \/ WholeArchive \/ ArchiveName \/ ArchiveDone
        \/ Script \/ ListFile \/ ListDone \/ DllNeeds
        \/ BindExe

\* one sequential program, which runs
Spec == Init /\ [][Next]_vars /\ WF_vars(Next)

-----------------------------------------------------------------------------
(* Properties                                                              *)

\* The linker comes to an end: archives, groups and libraries that need one
\* another are not gone through for ever.
Terminates == <>(pc \in {"done", "failed"})

Members(f) == {[f |-> f, k |-> k] : k \in DOMAIN File(f).objs}
\* the library, or the libraries of the outermost list, being searched
Searching ==
    LET busy == {i \in DOMAIN stack : stack[i].k \in {"list", "ar"}}
        s == stack[CHOOSE i \in busy : \A j \in busy : i <= j]
        archives(F) == UNION {IF File(f).kind = "ar" THEN Members(f) ELSE {} : f \in F}
    IN  IF busy = {} THEN {}
        ELSE IF s.k = "ar" THEN Members(s.f)
        ELSE IF File(s.f).lists[s.l].group THEN archives(Range(File(s.f).lists[s.l].files))
        ELSE UNION {archives({stack[i].f}) : i \in busy}

Demand == INSTANCE DemandLoading
            WITH lib <- world.lib,
                 asked <- UNION {Members(f) : f \in
                            {g \in DOMAIN world.file : File(g).kind = "obj"}
                            \cup {c.f : c \in {d \in Range(world.cmd) :
                                                  File(d.f).kind = "ar" /\ d.whole}}},
                 searching <- Searching,
                 loaded <- Range(loaded)

\* What tcc_load_alacarte loads, and what ld_add_file_list has loaded again, is
\* what is needed: each member once, and all that the archives of a group can
\* still give.
LoadsOnDemand == Demand!DemandSpec

\* the section of a symbol of the k-th object, if it is in the program
Place(k, j) == LET n == Object(loaded[k]).secs[j]
               IN  IF n \in OnceName THEN once[n] ELSE <<k, j>>

\* Every place of the program that an object file wants relocated is relocated
\* by exactly one entry, which names the symbol that the object file meant, and
\* no symbol is in a section that was left out: whichever sections of a
\* link-once name were discarded, and wherever the symbols are in the table.
RelocsMeant ==
    pc # "failed" =>
    /\ \A k \in DOMAIN loaded : LET o == Object(loaded[k]) IN
         \A r \in Range(o.rels) :
             LET s  == o.syms[r.sym]
                 at == {i \in DOMAIN rels : rels[i].at = Place(k, r.sec) /\ rels[i].off = r.off}
             IN  /\ Cardinality(at) = 1
                 /\ Place(k, r.sec) = <<k, r.sec>> =>
                      \A i \in at :
                         IF s.bind # "LOCAL" THEN /\ rels[i].sym # 0
                                                 /\ tab[rels[i].sym].name = s.name
                                                 /\ tab[rels[i].sym].bind # "LOCAL"
                         ELSE IF Place(k, s.sec) = <<k, s.sec>>
                         THEN rels[i].sym # 0 /\ tab[rels[i].sym].at = <<k, s.sec>>
                         ELSE rels[i].sym = 0
    /\ \A i \in DOMAIN tab : tab[i].shndx \in {"bss", "data"} /\ tab[i].at[1] > 0 /\ tab[i].at[2] > 0
          => Place(tab[i].at[1], tab[i].at[2]) = tab[i].at

\* an object refers to the name, and not weakly
Wants(m, n) == \E s \in Range(Object(m).syms) : s.name = n /\ s.sec = 0 /\ s.bind = "GLOBAL"
Defined(n) == \E m \in Range(loaded) : n \in world.lib[m].defs
InDll(n) == \E i \in DOMAIN dlls : \E s \in Range(File(dlls[i].f).syms) :
               s.name = n /\ s.bind # "LOCAL" /\ s.shndx # "UNDEF"

\* The linker fails if and only if something is missing: a name to which an
\* object file refers strongly and which no object and no library defines, or
\* a section that it does not load.  Weak references never fail.
Verdict ==
    pc \in {"done", "failed"} =>
      (pc = "failed" <=>
         \E m \in Range(loaded) :
            Loses(Object(m)) \/ \E n \in world.lib[m].refs : Wants(m, n) /\ ~Defined(n) /\ ~InDll(n))

\* where the executable finds the object of name n, and where a library does:
\* in the executable, if it exports the name, otherwise in itself
InExe(n) == tab[Lookup(tab, n)].at
FromDll(s) == LET i == Lookup(dynsym, s.name)
              IN  IF i # 0 /\ dynsym[i].shndx # "UNDEF" THEN dynsym[i].at ELSE <<-s.dll, s.value>>

DllObjects == {s \in UNION {Range(File(dlls[i].f).syms) : i \in DOMAIN dlls} :
                 s.bind # "LOCAL" /\ s.type = "object"}

\* At run time the executable and the libraries mean the same object by a name;
\* names of one object in a library are names of one object, also when the
\* executable has got a copy of it, and names of different objects are not; and
\* every library that the user named is listed for the dynamic linker.
RunTimeAgrees ==
    pc = "done" =>
    /\ \A s \in DllObjects : Lookup(tab, s.name) # 0 => InExe(s.name) = FromDll(s)
    /\ \A s, t \in DllObjects : ~Defined(s.name) /\ ~Defined(t.name) =>
          ((s.dll = t.dll /\ s.value = t.value) <=> FromDll(s) = FromDll(t))
    /\ \A i \in DOMAIN dlls : dlls[i].level = 0 <=> \E c \in Range(world.cmd) : c.f = dlls[i].f
=============================================================================
