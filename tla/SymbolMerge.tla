----------------------------- MODULE SymbolMerge -----------------------------
(***************************************************************************)
(* What set_elf_sym (tccelf.c) makes of a name that has an entry already:  *)
(* old is the entry, new the symbol that a compiled unit, an object file   *)
(* or a shared library contributes.  Both are records with the fields      *)
(* bind, shndx and vis; what else they hold goes with the winner.          *)
(***************************************************************************)
EXTENDS Integers

\* 1 is the most constraining of the ELF encodings, 0 the least
VisRank(v) == CASE v = "DEFAULT" -> 0 [] v = "INTERNAL" -> 1
                [] v = "HIDDEN" -> 2  [] v = "PROTECTED" -> 3

\* mutant: the less constraining of the two
MergedVisLoosest(old, new) ==
    IF VisRank(old) = 0 \/ VisRank(new) = 0 THEN "DEFAULT"
    ELSE IF VisRank(old) > VisRank(new) THEN old ELSE new

MergedVis(old, new) ==
    IF VisRank(old) = 0 THEN new
    ELSE IF VisRank(new) = 0 THEN old
    ELSE IF VisRank(old) < VisRank(new) THEN old ELSE new

Tentative(s) == s.shndx \in {"COMMON", "bss"}

\* mutant: data takes the place of a tentative definition even if it is weak
OverridesByWeakData(old, new) ==
    /\ new.shndx # "UNDEF"
    /\ \/ new.bind = "GLOBAL" /\ old.bind = "WEAK"
       \/ /\ new.vis \notin {"HIDDEN", "INTERNAL"}
          /\ Tentative(old)
          /\ new.shndx = "data"

\* the new definition is put in the place of the old one
Overrides(old, new) ==
    /\ new.shndx # "UNDEF"
    /\ new.bind = "GLOBAL"
    /\ \/ old.bind = "WEAK"
       \/ /\ new.vis \notin {"HIDDEN", "INTERNAL"}
          /\ Tentative(old)
          /\ new.shndx = "data"

\* mutant: the visibility of the old symbol is tested, not that of the new one
ClashesOldVis(old, new) ==
    /\ new.shndx # "UNDEF"
    /\ new.bind = "GLOBAL" /\ old.bind = "GLOBAL"
    /\ old.vis \notin {"HIDDEN", "INTERNAL"}
    /\ ~(Tentative(old) /\ new.shndx = "data")
    /\ ~Tentative(new)

\* "defined twice"
Clashes(old, new) ==
    /\ new.shndx # "UNDEF"
    /\ new.bind = "GLOBAL" /\ old.bind = "GLOBAL"
    /\ new.vis \notin {"HIDDEN", "INTERNAL"}
    /\ ~(Tentative(old) /\ new.shndx = "data")
    /\ ~Tentative(new)

\* the entry after set_elf_sym has seen new
Resolved(old, new) ==
    LET vis == MergedVis(old.vis, new.vis)
    IN  IF old.shndx = "UNDEF" THEN new
        ELSE IF Overrides(old, new) THEN [new EXCEPT !.vis = vis]
        ELSE [old EXCEPT !.vis = vis]
=============================================================================
