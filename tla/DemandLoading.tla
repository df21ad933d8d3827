---------------------------- MODULE DemandLoading ----------------------------
(***************************************************************************)
(* What a linker promises about the members of libraries, whatever loops   *)
(* and flags it uses: a member gets into the program because the command   *)
(* line asks for it, or because it defines a name that what is loaded      *)
(* leaves undefined; no member is loaded twice; and a library, or a group  *)
(* of libraries searched together, is left only when no member of it       *)
(* defines such a name any more.                                           *)
(***************************************************************************)
EXTENDS FiniteSets

VARIABLES lib,       \* member -> [defs, offers, refs]: names; offers is what the index lists
          asked,     \* the members that the command line asks for
          searching, \* the members searched together now
          loaded     \* the members in the program

demandVars == <<lib, asked, searching, loaded>>

Undefined(M) == (UNION {lib[m].refs : m \in M}) \ (UNION {lib[m].defs : m \in M})

Needed(m) == lib[m].offers \cap Undefined(loaded) # {}

DemandInit == /\ asked \subseteq DOMAIN lib
              /\ searching = {} /\ loaded = {}

Load(m) ==
    /\ m \notin loaded
    /\ m \in asked \/ (m \in searching /\ Needed(m))
    /\ loaded' = loaded \cup {m}
    /\ UNCHANGED <<lib, asked, searching>>

Search ==
    /\ searching = {}
    /\ searching' \in SUBSET DOMAIN lib
    /\ UNCHANGED <<lib, asked, loaded>>

Leave ==
    /\ \A m \in searching : ~Needed(m)
    /\ searching' = {}
    /\ UNCHANGED <<lib, asked, loaded>>

DemandNext == Search \/ Leave \/ \E m \in DOMAIN lib : Load(m)

DemandSpec == DemandInit /\ [][DemandNext]_demandVars
=============================================================================
