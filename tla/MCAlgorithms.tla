----------------------------- MODULE MCAlgorithms -----------------------------
(***************************************************************************)
(* Algorithms of the compiler on families of inputs: macro replacement,    *)
(* the passing of arguments, the layout of structures, and switches.       *)
(* Each is compared with what C or the ABI says of the input.              *)
(***************************************************************************)
EXTENDS Macros, TLC

C == INSTANCE MacroReplacement
A == INSTANCE CallAMD64
S == INSTANCE StructLayout
W == INSTANCE Switch WITH ByteBits <- 2, IntBits <- 4, LongBits <- 6

\* task: what is to be done; result: <<what came of it>>, or <<>> before
VARIABLES task, result
vars == <<task, result>>

UpTo(set, n) == UNION {[1 .. k -> set] : k \in 1 .. n}

-----------------------------------------------------------------------------
(* Macros and texts                                                        *)

Obj(body) == [fn |-> FALSE, params |-> <<>>, rest |-> FALSE, body |-> body]
Fn(params, body) == [fn |-> TRUE, params |-> params, rest |-> FALSE, body |-> body]
Variadic(params, body) == [fn |-> TRUE, params |-> params, rest |-> TRUE, body |-> body]

\* f of one parameter, and g that is also such a macro, or has none: they name
\* each other, begin calls that the text completes, and complete calls.
FBodies == {<<"x", "x">>, <<"g", "x">>, <<"x", "(">>, <<"x", "(", "1", ")">>,
            <<"f", "(", "x", ")">>, <<"g", "(", "x", ")">>, <<>>, <<"f">>, <<"g", "(">>}
GObjects == {<<"f">>, <<"f", "(">>, <<"f", "(", "g", ")">>, <<")">>}
GFunctions == {<<"x">>, <<"f", "x">>, <<"f", "(">>, <<"f", "(", "x", ")">>, <<"g">>}
Calls == {[macros |-> ("f" :> Fn(<<"x">>, b)) @@ ("g" :> g), texts |-> UpTo({"f", "g", "(", ")"}, 4)] :
            b \in FBodies, g \in {Obj(c) : c \in GObjects} \cup {Fn(<<"x">>, c) : c \in GFunctions}}

\* f of two parameters with # and ##; what is pasted may be a macro again
Texts(args) == {<<"f", "(">> \o a \o <<",">> \o b \o <<")">> : a \in args, b \in args}
Pasting == {[macros |-> ("f" :> Fn(<<"x", "y">>, b)) @@ ("g" :> Obj(g)) @@ ("g1" :> Obj(h)),
             texts |-> Texts({<<>>, <<"g">>, <<"1">>, <<"g", "1">>, <<"f", "(", "g", ",", "1", ")">>})] :
            b \in {<<"x", "##", "y", "x">>, <<"#", "x", "y">>, <<"x", "##", "1", "y">>,
                   <<"g", "##", "x", "##", "y">>, <<"x", "#", "y", "x">>,
                   <<"(", "x", "##", "y", "##", "x", ")">>},
            g \in {<<>>, <<"g1">>, <<"g">>, <<"f", "(", "g", ",", "1", ")">>},
            h \in {<<"f">>, <<"g">>, <<"1", "1">>}}

\* the variable argument: f hands it on to g
VariableArguments ==
  {[macros |-> ("f" :> Variadic(p, b)) @@ ("g" :> g) @@ ("e" :> Obj(<<>>)),
    texts |-> {<<"f", "(">> \o a \o <<")">> :
                 a \in {<<>>, <<"1", ",", "f", "(", "1", ")">>, <<"(", ",", ")", ",", "1">>}
                       \cup UpTo({"e", "1", "f", ","}, 3)}] :
    p \in {<<"x", "v">>, <<"v">>},
    b \in {<<"1", ",", "##", "v">>, <<"g", "(", "1", ",", "##", "v", ")">>, <<"g", "(", "v", ")">>,
           <<"#", "v">>, <<"1", ",", "##", "v", "1">>},
    g \in {Fn(<<"x", "y">>, <<"y", "x">>), Variadic(<<"x", "v">>, <<"#", "v", "x">>),
           Fn(<<"x">>, <<"x", "f">>)}}

Expand == /\ task.kind = "text" /\ result = <<>>
          /\ result' = <<Expanded(task.macros, task.text)>>
          /\ UNCHANGED task

\* A text becomes what C makes of it: every macro is replaced, but not in what
\* comes from it, arguments are expanded before they replace a parameter unless
\* # or ## stands by it, and calls that are wrong are errors (macro_subst,
\* macro_subst_tok, next_argstream, macro_arg_subst, macro_twosharps).
ExpandedAsC ==
    (task.kind = "text" /\ result # <<>>) => result[1] = C!Replacement(task.macros, task.text)

-----------------------------------------------------------------------------
(* Calls                                                                   *)

Type(size, align, members) == [size |-> size, align |-> align, members |-> members]
Double == Type(8, 8, <<"sse">>)
LongDouble == Type(16, 16, <<"x87">>)
Scalars == {A!Long, Double, LongDouble}
Large == Type(24, 8, <<"integer">>)
TwoDoubles == Type(16, 8, <<"sse", "sse">>)
Structs == {Type(16, 8, <<"integer", "integer">>), TwoDoubles, Type(8, 4, <<"sse", "integer">>),
            Type(16, 8, <<"sse", "integer">>), Large, Type(0, 1, <<>>),
            Type(32, 16, <<"x87", "integer">>), Type(3, 1, <<"integer">>)}
Repeated(x, n) == [i \in 1 .. n |-> x]

\* calls that nearly fill the registers before three arguments of any type;
\* longs: by how many integers; unnamed: how many of them the function takes with va_arg
CallTasks(longs, unnamed, returned) ==
    {[kind |-> "call", args |-> <<A!Long>> \o Repeated(A!Long, p) \o Repeated(Double, q) \o rest,
      unnamed |-> unnamed, returned |-> returned] :
        p \in longs, q \in {0, 7}, rest \in [1 .. 3 -> Scalars \cup Structs]}

\* What va_arg cannot find is left out: an unnamed structure of two doubles, and
\* anything unnamed in a function that returns a large structure.
UnnamedFound(t) == \A i \in Len(t.args) - t.unnamed + 1 .. Len(t.args) : t.args[i] # TwoDoubles

PassArguments ==
    /\ task.kind = "call" /\ result = <<>>
    /\ LET n == Len(task.args) - task.unnamed
       IN  result' = <<[caller |-> A!Caller(task.args, task.returned),
                       callee |-> A!Callee(SubSeq(task.args, 1, n), SubSeq(task.args, n + 1, Len(task.args)),
                                           task.returned)]>>
    /\ UNCHANGED task

Passed == task.kind = "call" /\ result # <<>>

\* The function, and va_arg in it, looks for every word of its arguments where the
\* caller has put it, and no two of them are in one place (gfunc_call,
\* gfunc_prolog, __va_arg).
ArgumentsFound ==
    Passed => LET words == FlattenSeq(result[1].caller.words)
              IN  /\ result[1].caller.words = result[1].callee
                  /\ IsInjective(words)

\* At the call the stack pointer is a multiple of 16, what has to be aligned on the
\* stack is, and %al is a number of SSE registers.
StackAligned ==
    Passed => LET hidden == IF A!Hidden(task.returned) THEN 1 ELSE 0
              IN  /\ result[1].caller.depth % 16 = 0 /\ result[1].caller.al <= A!SSEN
                  /\ \A i \in DOMAIN task.args :
                       LET words == result[1].caller.words[i + hidden]
                       IN  task.args[i].align = 16 /\ words[1][1] = "stack" => words[1][2] % 16 = 0

-----------------------------------------------------------------------------
(* Structures                                                              *)

Sizes == {1, 2, 4, 8}
BitField(size, bits) == S!Member(size, bits, TRUE, FALSE)
Members == {S!Member(size, S!PLAIN, TRUE, FALSE) : size \in Sizes}
           \cup {BitField(size, 3) : size \in Sizes}
           \cup {BitField(size, size * 8 - 1) : size \in Sizes}
           \cup {BitField(size, size * 8) : size \in {1, 4}}
           \cup {BitField(4, 17), BitField(8, 32), BitField(8, 33)}
           \cup {S!Member(size, bits, FALSE, FALSE) : size \in {1, 4, 8}, bits \in {0, 5}}

\* the attribute packed stands before the brace; behind it, the width of the type
\* makes a member that is no bit-field
StructTasks(packed) ==
    {[kind |-> "struct", members |-> [i \in DOMAIN m |-> [m[i] EXCEPT !.packed = packed]]] :
        m \in UpTo({x \in Members : packed => x.bits # 64}, 3)}

LayOut == /\ task.kind = "struct" /\ result = <<>>
          /\ result' = <<S!Layout(task.members, TRUE)>>
          /\ UNCHANGED task

LaidOut == task.kind = "struct" /\ result # <<>>

\* Every member is at the bit where the ABI has it, and the structure has the size
\* and the alignment (struct_layout).
LaidOutAsABI ==
    LaidOut => LET abi == S!Abi(task.members)
               IN  /\ result[1].size = abi.size /\ result[1].align = abi.align
                   /\ \A i \in DOMAIN task.members :
                        task.members[i].bits # 0 => result[1].fields[i].c * 8 + result[1].fields[i].pos = abi.at[i]

\* What is written to a bit-field is read from it, no other member has a bit of it,
\* and no byte outside the structure is touched, by whichever type it is accessed
\* (struct_layout, gv, vstore, load_packed_bf, store_packed_bf).
BitFieldsApart ==
    LaidOut =>
      LET fields == result[1].fields
          bits(f) == IF f.m.bits = S!PLAIN THEN f.c * 8 .. (f.c + f.size) * 8 - 1 ELSE Range(S!Accessed(f))
      IN  \A i \in {j \in DOMAIN fields : fields[j].m.bits > 0} :
            LET f == fields[i]
                own == S!Accessed(f)
            IN  /\ \A j \in DOMAIN fields : j # i => bits(f) \cap bits(fields[j]) = {}
                /\ S!Touched(f) \subseteq 0 .. result[1].size - 1
                /\ \A k \in DOMAIN own : own[k] = own[1] + k - 1

-----------------------------------------------------------------------------
(* Switches                                                                *)

\* switches of six or seven cases, two of which may have a value in common; more
\* than four are searched by halves
Single(n) == [v1 |-> n, v2 |-> n]
Span(m, n) == [v1 |-> m, v2 |-> n]
Signed4   == <<Single(7), Span(2, 6), Single(3), Span(1, 2), Single(0), Span(-3, -1), Single(-8)>>
Unsigned4 == <<Span(8, 9), Single(15), Single(0), Span(2, 6), Single(14), Single(1), Single(7)>>
Signed6   == <<Single(-1), Single(31), Span(2, 9), Single(1), Single(16), Span(-31, -9), Single(-32)>>
Among(s) == {[i \in 1 .. Len(p) |-> s[p[i]]] :
               p \in {SelectSeq([i \in DOMAIN s |-> i], LAMBDA i : i \in I) :
                        I \in {J \in SUBSET (DOMAIN s) : Cardinality(J) >= 6}}}

SwitchTasks == {[kind |-> "switch", value |-> x, cases |-> cases] :
                  x \in {y \in [t : W!Types, n : -32 .. 63] : W!InRange(y.t, y.n)},
                  cases \in UNION {Among(s) : s \in {Signed4, Unsigned4, Signed6}}}

SwitchOn == /\ task.kind = "switch" /\ result = <<>>
            /\ result' = <<W!Selected(task.value, task.cases)>>
            /\ UNCHANGED task

\* A switch goes to the case that has the value, if there is one; if two cases could
\* have one value it is refused (block, gcase, case_cmp).
CaseAsC ==
    (task.kind = "switch" /\ result # <<>>) =>
      LET matching == W!Matching(task.value, task.cases)
      IN  IF W!Overlap(W!Promoted(task.value.t), task.cases) THEN result[1] = W!ERROR
          ELSE IF matching = {} THEN result[1] = W!DEFAULT
          ELSE result[1] \in matching

-----------------------------------------------------------------------------
Init == /\ result = <<>>
        /\ \/ \E family \in Calls \cup Pasting \cup VariableArguments : \E text \in family.texts :
                task = [kind |-> "text", macros |-> family.macros, text |-> text]
           \/ /\ task \in CallTasks({3, 4}, 0, A!Long) \cup CallTasks({3}, 0, Large)
                         \cup CallTasks({0, 4}, 3, A!Long)
              /\ UnnamedFound(task)
           \/ task \in StructTasks(FALSE) \cup StructTasks(TRUE)
           \/ /\ task \in SwitchTasks
              /\ \A i \in DOMAIN task.cases : W!Kept(task.cases[i], W!Promoted(task.value.t))

Next == Expand \/ PassArguments \/ LayOut \/ SwitchOn
Spec == Init /\ [][Next]_vars
=============================================================================
