-------------------------- MODULE SymbolResolution --------------------------
(***************************************************************************)
(* What linking promises about the global names of a program, whatever     *)
(* table holds them.  Units contribute references and definitions of       *)
(* names; after each contribution the name stands for one of the           *)
(* contributions made so far:                                              *)
(*                                                                         *)
(*   - a definition, as soon as there is one;                              *)
(*   - a strong definition, as soon as there is one;                       *)
(*   - and a strong definition with contents is never exchanged for        *)
(*     another one: a second one is reported instead.                      *)
(*                                                                         *)
(* The module leaves open which of several equally good definitions wins   *)
(* and what becomes of the visibility: the symbol table of tccelf.c        *)
(* (module ElfSymtab) decides.                                             *)
(***************************************************************************)
EXTENDS FiniteSets

CONSTANTS Names,          \* global names of the program
          Absent,         \* a name nobody has mentioned yet
          Contribution    \* records [name, bind, shndx, vis, val] units may submit

VARIABLES submitted,      \* the contributions made so far
          meaning         \* name -> [bind, shndx, val] of the winner, or Absent

resVars == <<submitted, meaning>>

IsDef(c)    == c.shndx # "UNDEF"
IsStrong(c) == c.bind = "GLOBAL" /\ IsDef(c)

\* a definition whose contents are fixed, as opposed to a tentative one
HasContents(c) == c.shndx \in {"data", "ABS"}

Core(c) == [bind |-> c.bind, shndx |-> c.shndx, val |-> c.val]

ResInit == /\ submitted = {}
           /\ meaning = [n \in Names |-> Absent]

\* what the meaning of name may be once the contributions C to it are known
Promised(C, m) ==
    /\ \E c \in C : m = Core(c)
    /\ (\E c \in C : IsDef(c)) => IsDef(m)
    /\ (\E c \in C : IsStrong(c)) => IsStrong(m)

Submit(c) ==
    LET mine == {d \in submitted \cup {c} : d.name = c.name}
    IN  \E m \in {Core(d) : d \in mine} :
          /\ Promised(mine, m)
          /\ LET old == meaning[c.name]
             IN  old # Absent /\ IsStrong(old) /\ HasContents(old) => m = old
          /\ submitted' = submitted \cup {c}
          /\ meaning' = [meaning EXCEPT ![c.name] = m]

ResNext == \E c \in Contribution : Submit(c)

ResSpec == ResInit /\ [][ResNext]_resVars

=============================================================================
