----------------------------- MODULE MCElfSymtab -----------------------------
(***************************************************************************)
(* Instances of ElfSymtab for TLC: one with several names, to move the     *)
(* hash table through its rebuilds, and one with a single name and every   *)
(* kind of symbol, to explore what set_elf_sym makes of them.              *)
(***************************************************************************)
EXTENDS ElfSymtab

CONSTANTS n1, n2, n3, n4, n5, v1, v2

\* n1, n2 and n4 collide in a table of 1 or 2 buckets, n1 and n2 in one of 4
MCHash == [n \in Names |-> IF n = n1 THEN 0 ELSE IF n = n2 THEN 4
                           ELSE IF n = n3 THEN 1 ELSE IF n = n4 THEN 2 ELSE 3]

\* a definition of every name, and of the first an undefined static, which the
\* compiler patches when it defines the function, hidden
MCTableContribution ==
    {[name |-> n, bind |-> "GLOBAL", shndx |-> "data", vis |-> "DEFAULT", val |-> v1] :
        n \in Names}
    \cup {[name |-> n1, bind |-> "LOCAL", shndx |-> "UNDEF", vis |-> "HIDDEN", val |-> v1]}

\* the kinds of global symbol of one name; only data comes with two values
MCKindContribution ==
    {c \in [name: Names, bind: {"GLOBAL", "WEAK"}, shndx: Sections,
            vis: {"DEFAULT", "HIDDEN", "PROTECTED"}, val: Values] :
        /\ c.shndx # "data" => c.val = v1
        /\ c.shndx = "ABS" => c.bind = "GLOBAL" /\ c.vis = "DEFAULT"}
=============================================================================
