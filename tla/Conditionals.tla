---------------------------- MODULE Conditionals ----------------------------
(***************************************************************************)
(* Which lines of which files the preprocessor reads (tccpp.c): the stack  *)
(* of included files, the stack of open conditionals that all files share, *)
(* the loop that skips a section, and the cache that lets it skip a file   *)
(* altogether: a file that is one #ifndef ... #endif is not opened again   *)
(* while its macro is defined, nor is one with #pragma once.               *)
(*                                                                         *)
(* The contents of files are not given.  A line is chosen when it is first *)
(* reached, and is the same from then on: text is what is known so far.    *)
(***************************************************************************)
EXTENDS Integers, Sequences, FiniteSets, FiniteSetsExt

CONSTANTS
    Files,          \* files to be included
    Main,           \* the string or file that is compiled
    Macros,
    None,           \* no macro, no line
    Dialects,       \* what files may be made of, see below
    IncludeDepth,   \* INCLUDE_STACK_SIZE: files open below the current one
    IfDepth         \* IFDEF_STACK_SIZE

Texts == Files \cup {Main}

\* A line: for a conditional, x is a macro that has to be defined, or a constant
Plain(k)   == [k |-> k, x |-> None]
Line(k, x) == [k |-> k, x |-> x]
Lines ==
    {Plain(k) : k \in {"code", "null", "else", "endif", "once"}}
    \cup {Line(k, m) : k \in {"define", "undef", "ifdef", "ifndef"}, m \in Macros}
    \cup {Line(k, c) : k \in {"if", "elif"}, c \in Macros \cup BOOLEAN}
    \cup {Line(k, f) : k \in {"include", "line"}, f \in Files}

\* the lines that a file may have, and how many at least and at most; how many
\* strings are compiled with one TCCState
Dialect == [lines : [Texts -> SUBSET Lines], min : [Texts -> Nat], len : [Texts -> Nat],
            units : Nat]

ASSUME ConditionalsAssumption ==
    /\ Main \notin Files /\ None \notin Macros \cup Files \cup BOOLEAN
    /\ IncludeDepth \in Nat /\ IfDepth \in Nat
    /\ Dialects \subseteq Dialect

\* What the cache relies on: a file that an included file includes is not blank,
\* which would leave TOK_FLAG_BOF set; and #line names the file that it is in, or is
\* in the main file, which then has no #pragma once.
PlainDialect(d) ==
    /\ \A f, g \in Files :
         Line("include", f) \in d.lines[g] => d.min[f] > 0 /\ Plain("null") \notin d.lines[f]
    /\ \A f \in Texts, g \in Files :
         Line("line", g) \in d.lines[f] => f = g \/ (f = Main /\ Plain("once") \notin d.lines[f])

VARIABLES
    dialect,
    text,      \* the lines of each file known so far
    closed,    \* the files whose last line is known
    pc,        \* "read", "skip" in preprocess_skip(), "done", "error"
    a,         \* preprocess_skip(): groups open inside the section skipped
    inc,       \* the files open, the current one last: a sequence of BufferedFile
    ifs,       \* ifdef_stack: bit 0, a section was or is taken; bit 1, in #else
    defs,      \* the macros defined
    flags,     \* tok_flags: TOK_FLAG_BOF, TOK_FLAG_ENDIF
    cache,     \* cached_includes: the guard, and the unit that met #pragma once
    pp_once,   \* the number of the unit
    onces      \* ghost: files whose #pragma once was met in this unit

vars == <<dialect, text, closed, pc, a, inc, ifs, defs, flags, cache, pp_once, onces>>

NoFlags == [bof |-> FALSE, endif |-> FALSE]
AtBof   == [bof |-> TRUE, endif |-> FALSE]

\* BufferedFile: name is file->filename, which #line changes, base the height of
\* ifdef_stack, guard and saved ifndef_macro and ifndef_macro_saved.  Ghost: run
\* are the lines processed, yes the conditions that were true when passed
Opened(f) ==
    [f |-> f, name |-> f, pos |-> 1, base |-> Len(ifs), guard |-> None, saved |-> None,
     run |-> {}, yes |-> {}]

file == inc[Len(inc)]

Init ==
    /\ dialect \in Dialects
    /\ text = [f \in Texts |-> <<>>] /\ closed = {}
    /\ pc = "read" /\ a = 0
    /\ ifs = <<>> /\ defs = {} /\ flags = AtBof
    /\ inc = <<[f |-> Main, name |-> Main, pos |-> 1, base |-> 0, guard |-> None,
                saved |-> None, run |-> {}, yes |-> {}]>>
    /\ cache = [f \in Texts |-> [guard |-> None, once |-> 0]]
    /\ pp_once = 1 /\ onces = {}

-----------------------------------------------------------------------------
(* Reading lines *)

\* The line at hand, chosen if it is met for the first time
At(l) ==
    LET f == file.f IN
    IF file.pos <= Len(text[f])
    THEN l = text[f][file.pos] /\ UNCHANGED <<text, closed>>
    ELSE /\ f \notin closed /\ Len(text[f]) < dialect.len[f]
         /\ l \in dialect.lines[f]
         /\ text' = [text EXCEPT ![f] = Append(@, l)]
         /\ UNCHANGED closed

AtEnd ==
    /\ file.pos > Len(text[file.f]) /\ Len(text[file.f]) >= dialect.min[file.f]
    /\ closed' = closed \cup {file.f}
    /\ UNCHANGED text

True(x) == IF x \in Macros THEN x \in defs ELSE x

\* Whether the condition of a line holds now
Holds(l) ==
    \/ l.k \in {"if", "elif", "ifdef"} /\ True(l.x)
    \/ l.k = "ifndef" /\ ~True(l.x)

\* The current file once the line has been read
Past(l) == [file EXCEPT !.pos = @ + 1, !.yes = IF Holds(l) THEN @ \cup {file.pos} ELSE @]
Ran(l)  == [Past(l) EXCEPT !.run = @ \cup {file.pos}]

Current(f) == inc' = [inc EXCEPT ![Len(inc)] = f]

Error == pc' = "error" /\ UNCHANGED <<dialect, a, inc, ifs, defs, flags, cache, pp_once, onces>>

-----------------------------------------------------------------------------
(* Lines in a section that is read *)

\* next_nomacro1() clears tok_flags with every token
Code ==
    /\ pc = "read"
    /\ At(Plain("code"))
    /\ Current(Ran(Plain("code")))
    /\ flags' = NoFlags
    /\ UNCHANGED <<dialect, pc, a, ifs, defs, cache, pp_once, onces>>

\* # alone on its line: only a line feed follows, which leaves tok_flags
NullDirective ==
    /\ pc = "read"
    /\ At(Plain("null"))
    /\ Current(Ran(Plain("null")))
    /\ UNCHANGED <<dialect, pc, a, ifs, defs, flags, cache, pp_once, onces>>

Define ==
    \E m \in Macros, k \in {"define", "undef"} :
        /\ pc = "read"
        /\ At(Line(k, m))
        /\ Current(Ran(Line(k, m)))
        /\ defs' = IF k = "define" THEN defs \cup {m} ELSE defs \ {m}
        /\ flags' = NoFlags
        /\ UNCHANGED <<dialect, pc, a, ifs, cache, pp_once, onces>>

\* mutant: the unit in which #pragma once was met is not compared
CachedOnceForAll(f) == cache[f].guard \in defs \/ cache[f].once > 0

\* no need to open the file
Cached(f) == cache[f].guard \in defs \/ cache[f].once = pp_once

\* mutant: the current file is resumed at its #include line
ResumedHere(f) == [file EXCEPT !.run = @ \cup {file.pos}]

\* the file that includes f, as it will be when f has been read
Resumed(f) == Ran(Line("include", f))

Include ==
    \E f \in Files :
        /\ pc = "read"
        /\ At(Line("include", f))
        /\ IF Len(inc) > IncludeDepth
           THEN Error        \* "#include recursion too deep"
           ELSE /\ IF Cached(f)
                   THEN Current(Ran(Line("include", f))) /\ flags' = NoFlags
                   ELSE /\ inc' = Append([inc EXCEPT ![Len(inc)] = Resumed(f)], Opened(f))
                        /\ flags' = AtBof
                /\ UNCHANGED <<dialect, pc, a, ifs, defs, cache, pp_once, onces>>

\* #pragma once
Once ==
    /\ pc = "read"
    /\ At(Plain("once"))
    /\ Current(Ran(Plain("once")))
    /\ cache' = [cache EXCEPT ![file.name].once = pp_once]
    /\ onces' = onces \cup {file.f}
    /\ flags' = NoFlags
    /\ UNCHANGED <<dialect, pc, a, ifs, defs, pp_once>>

\* #line 1 "g"
LineDirective ==
    \E g \in Files :
        /\ pc = "read"
        /\ At(Line("line", g))
        /\ Current([Ran(Line("line", g)) EXCEPT !.name = g])
        /\ flags' = NoFlags
        /\ UNCHANGED <<dialect, pc, a, ifs, defs, cache, pp_once, onces>>

-----------------------------------------------------------------------------
(* Conditionals *)

\* test_skip: the section is read, or skipped up to the next #else, #elif, #endif
Section(taken) == pc' = (IF taken THEN "read" ELSE "skip") /\ a' = 0

If ==
    \E l \in Lines :
        /\ l.k \in {"if", "ifdef", "ifndef"}
        /\ pc = "read"
        /\ At(l)
        /\ IF Len(ifs) = IfDepth
           THEN Error        \* "memory full"
           ELSE /\ Current(IF l.k = "ifndef" /\ flags.bof
                           THEN [Past(l) EXCEPT !.guard = l.x] ELSE Past(l))
                /\ ifs' = Append(ifs, IF Holds(l) THEN 1 ELSE 0)
                /\ Section(Holds(l))
                /\ flags' = NoFlags
                /\ UNCHANGED <<dialect, defs, cache, pp_once, onces>>

\* preprocess() meets these also where preprocess_skip() ends
Directive == pc = "read" \/ (pc = "skip" /\ a = 0)

\* mutant: a file with an #else may still be a guarded one
TestElseKeeps(l) == Past(l)

\* test_else: with an #else at its outermost level a file is not a guarded one
TestElse(l) ==
    IF Len(ifs) = file.base + 1 THEN [Past(l) EXCEPT !.guard = None] ELSE Past(l)

\* (s1->ifdef_stack_ptr[-1] ^= 3)
Flipped(c) == CASE c = 0 -> 3 [] c = 1 -> 2

Else ==
    /\ Directive
    /\ At(Plain("else"))
    /\ IF ifs = <<>> \/ ifs[Len(ifs)] > 1
       THEN Error            \* "#else without matching #if", "#else after #else"
       ELSE /\ Current(TestElse(Plain("else")))
            /\ ifs' = [ifs EXCEPT ![Len(ifs)] = Flipped(@)]
            /\ Section(ifs[Len(ifs)] = 0)
            /\ flags' = NoFlags
            /\ UNCHANGED <<dialect, defs, cache, pp_once, onces>>

\* mutant: the condition is evaluated, and decides, also after a section was taken
ElifTakenAlways(l) == Holds(l)

\* the condition is evaluated only if no section has been taken
ElifTaken(l) == ifs[Len(ifs)] = 0 /\ Holds(l)

Elif ==
    \E c \in Macros \cup BOOLEAN :
        /\ Directive
        /\ At(Line("elif", c))
        /\ IF ifs = <<>> \/ ifs[Len(ifs)] > 1
           THEN Error        \* "#elif without matching #if", "#elif after #else"
           ELSE LET l == Line("elif", c) IN
                /\ Current(TestElse(l))
                /\ ifs' = IF ElifTaken(l) THEN [ifs EXCEPT ![Len(ifs)] = 1] ELSE ifs
                /\ Section(ElifTaken(l))
                /\ flags' = NoFlags
                /\ UNCHANGED <<dialect, defs, cache, pp_once, onces>>

\* mutant: an #endif may close a group of the including file
UnmatchedAnywhere == ifs = <<>>

\* the group was not opened in this file
Unmatched == Len(ifs) <= file.base

Endif ==
    /\ Directive
    /\ At(Plain("endif"))
    /\ IF Unmatched
       THEN Error            \* "#endif without matching #if"
       ELSE /\ ifs' = SubSeq(ifs, 1, Len(ifs) - 1)
            /\ pc' = "read" /\ a' = 0
            /\ LET l == Plain("endif")
                   guards == file.guard # None /\ Len(ifs) - 1 = file.base
               IN  /\ Current(IF guards
                              THEN [Past(l) EXCEPT !.saved = file.guard, !.guard = None]
                              ELSE Past(l))
                   /\ flags' = [NoFlags EXCEPT !.endif = guards]
            /\ UNCHANGED <<dialect, defs, cache, pp_once, onces>>

\* preprocess_skip(): a line of a section that is not read
Skip ==
    \E l \in Lines :
        /\ pc = "skip"
        /\ a = 0 => l.k \notin {"else", "elif", "endif"}
        /\ At(l)
        /\ Current(Past(l))
        /\ a' = CASE l.k \in {"if", "ifdef", "ifndef"} -> a + 1
                  [] l.k = "endif" -> a - 1
                  [] OTHER -> a
        /\ UNCHANGED <<dialect, pc, ifs, defs, flags, cache, pp_once, onces>>

-----------------------------------------------------------------------------
(* Ends *)

\* preprocess_skip() at the end of the file: "#endif expected"
EndInSkip == pc = "skip" /\ AtEnd /\ Error

\* mutant: an open group is looked for in the files that include this one as well
OpenGroupsAtAll == ifs # <<>>

OpenGroups == Len(ifs) # file.base

\* the last thing in the file was the #endif of its guard
Guarded == flags.endif

\* the end of the file in next_nomacro1()
Eof ==
    /\ pc = "read" /\ AtEnd
    /\ IF OpenGroups THEN Error      \* "missing #endif"
       ELSE IF Len(inc) = 1
       THEN /\ pc' = "done"
            /\ UNCHANGED <<dialect, a, inc, ifs, defs, flags, cache, pp_once, onces>>
       ELSE /\ cache' = IF Guarded THEN [cache EXCEPT ![file.name].guard = file.saved]
                        ELSE cache
            /\ inc' = SubSeq(inc, 1, Len(inc) - 1)
            /\ flags' = [flags EXCEPT !.endif = FALSE]
            /\ UNCHANGED <<dialect, pc, a, ifs, defs, pp_once, onces>>

\* The next string: tcc_compile() after tcc_compile(), with the same files.
\* preprocess_start() resets the stacks, free_defines() has emptied the table
NewUnit ==
    /\ pc \in {"done", "error"} /\ pp_once < dialect.units
    /\ pp_once' = pp_once + 1
    /\ text' = [text EXCEPT ![Main] = <<>>] /\ closed' = closed \ {Main}
    /\ pc' = "read" /\ a' = 0 /\ ifs' = <<>> /\ defs' = {} /\ flags' = AtBof
    /\ inc' = <<[f |-> Main, name |-> Main, pos |-> 1, base |-> 0, guard |-> None,
                 saved |-> None, run |-> {}, yes |-> {}]>>
    /\ onces' = {}
    /\ UNCHANGED <<dialect, cache>>

Ended == pc \in {"done", "error"} /\ pp_once = dialect.units /\ UNCHANGED vars

Reads == Code \/ NullDirective \/ Define \/ Include \/ Once \/ LineDirective
         \/ If \/ Else \/ Elif \/ Endif \/ Skip \/ EndInSkip \/ Eof

Next == Reads \/ NewUnit \/ Ended
Spec == Init /\ [][Next]_vars
\* the preprocessor is called until the end of the string
FairSpec == Spec /\ WF_vars(Reads)

-----------------------------------------------------------------------------
(* Properties *)

\* Every variable has its type; every file open has its part of ifdef_stack.
TypeOK ==
    /\ text \in [Texts -> Seq(Lines)] /\ closed \subseteq Texts
    /\ pc \in {"read", "skip", "done", "error"} /\ a \in Nat
    /\ Len(inc) \in 1 .. IncludeDepth + 1
    /\ \A i \in DOMAIN inc :
         /\ inc[i].base <= Len(ifs) /\ inc[i].pos <= Len(text[inc[i].f]) + 1
         /\ i > 1 => inc[i - 1].base <= inc[i].base
    /\ Len(ifs) <= IfDepth /\ \A i \in DOMAIN ifs : ifs[i] \in 0 .. 3
    /\ defs \subseteq Macros

\* the structure of a file, from its lines alone
Opens(l)    == l.k \in {"if", "ifdef", "ifndef"}
Depth(t, p) == Cardinality({q \in 1 .. p - 1 : Opens(t[q])})
               - Cardinality({q \in 1 .. p - 1 : t[q].k = "endif"})
\* the first lines of the groups around line p
Around(t, p) ==
    {s \in 1 .. p - 1 : Opens(t[s]) /\ \A q \in s + 1 .. p : Depth(t, q) > Depth(t, s)}
\* the first lines of the sections of the group at s up to line p
Heads(t, s, p) ==
    {s} \cup {h \in s + 1 .. p - 1 : t[h].k \in {"elif", "else"} /\ Depth(t, h) = Depth(t, s) + 1}

\* The section of the group at s that line p is in is the one to read
Chosen(t, s, p, yes) ==
    LET h == Max(Heads(t, s, p))
    IN  /\ h \in yes \/ t[h].k = "else"
        /\ \A g \in Heads(t, s, p) \ {h} : g \notin yes

\* a line that has no place where it is
Misplaced(t, p) ==
    \/ t[p].k \in {"else", "elif", "endif"} /\ Depth(t, p) <= 0
    \/ \E q \in 1 .. p - 1 :
         t[q].k = "else" /\ t[p].k \in {"else", "elif"} /\ Around(t, p) = Around(t, q)

\* A line is processed exactly if in each group around it the section it is in
\* is the first one with a true condition, or the #else after none: however
\* groups, sections that are skipped and included files are nested.
ActiveLines ==
    \A i \in DOMAIN inc :
        LET t == text[inc[i].f]
            n == inc[i].pos - 1
        IN  (\A p \in 1 .. n : ~Misplaced(t, p)) =>
            \A p \in 1 .. n :
               ~Opens(t[p]) /\ t[p].k \notin {"elif", "else", "endif"} =>
                  (p \in inc[i].run <=> \A s \in Around(t, p) : Chosen(t, s, p, inc[i].yes))

\* files that do nothing: empty, but for null directives and files that do nothing
Blank ==
    LET blank[n \in 0 .. Cardinality(Files)] ==
            IF n = 0 THEN {}
            ELSE {f \in closed : \A i \in DOMAIN text[f] :
                     text[f][i].k = "null" \/ (text[f][i].k = "include" /\ text[f][i].x \in blank[n - 1])}
    IN  blank[Cardinality(Files)]

\* f is one group for which m must be undefined, and nothing else
GuardedBy(f, m) ==
    LET t == text[f]
        outer == {p \in DOMAIN t : Around(t, p) = {} /\ t[p].k # "endif" /\ t[p].k # "null"
                                   /\ ~(t[p].k = "include" /\ t[p].x \in Blank)}
    IN  /\ f \in closed
        /\ \A p \in outer : t[p] = Line("ifndef", m)
        /\ \A p, s \in DOMAIN t : t[p].k \in {"elif", "else"} => Around(t, p) # {s}

\* "no need to parse the include because the 'ifndef macro' is defined (or had
\* #pragma once)" (tccpp.c:1843): when the cache says that a file may be skipped,
\* reading it would do nothing, or it has asked to be read once.  The code
\* concludes this from flags that tokens, groups, included files and ends of
\* files set and clear.
CacheSound ==
    \A f \in Files :
        /\ cache[f].guard # None => GuardedBy(f, cache[f].guard)
        /\ cache[f].once # 0 => \E i \in DOMAIN text[f] : text[f][i].k = "once"

\* A file that has asked to be read once is not opened again in this unit, and is
\* opened in the next one; a file is passed over only if it has asked for that,
\* or has nothing to say while one of the macros is defined.
OncePerUnit ==
    [][\A f \in Files :
         Include /\ pc' = "read" /\ text'[file.f][file.pos] = Line("include", f) =>
            IF Len(inc') > Len(inc) THEN f \notin onces
            ELSE f \in onces \/ \E m \in defs : GuardedBy(f, m)]_vars

\* A file is left at its end only if its own groups are balanced, although #else
\* and #elif in it look at groups of the file that includes it; and a unit ends
\* with an error only if some file is not, or files or groups nest too deeply.
Verdicts ==
    [][LET t == text'[file.f] IN
       /\ Eof /\ pc' # "error" =>
            /\ Depth(t, Len(t) + 1) = 0
            /\ \A p \in DOMAIN t : t[p].k \in {"else", "elif", "endif"} => Depth(t, p) > 0
       /\ pc # "error" /\ pc' = "error" =>
            \/ Depth(t, Len(t) + 1) # 0 \/ \E p \in DOMAIN t : Misplaced(t, p)
            \/ Len(inc) > IncludeDepth \/ Len(ifs) = IfDepth]_vars

\* A unit ends, also when files include each other in a cycle.
UnitEnds == pc \in {"read", "skip"} ~> pc \in {"done", "error"}
=============================================================================
