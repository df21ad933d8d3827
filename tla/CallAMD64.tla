------------------------------- MODULE CallAMD64 -------------------------------
(***************************************************************************)
(* How the x86-64 back end passes arguments (x86_64-gen.c:1040-1560), and  *)
(* how the function, and va_arg in it, finds them again                    *)
(* (lib/va_list.c).  A type is its size, its alignment and the classes of  *)
(* its members; an argument is words of 8 bytes, each of which is at a     *)
(* location: an integer register, the low half of an SSE register, or an   *)
(* offset from the stack pointer at the call.                              *)
(***************************************************************************)
EXTENDS Integers, Sequences, SequencesExt

REGN == 6
SSEN == 8
Up(n, a) == ((n + a - 1) \div a) * a

\* classify_x86_64_merge
Merge(a, b) ==
    IF a = b \/ b = "none" THEN a ELSE IF a = "none" THEN b
    ELSE IF "memory" \in {a, b} THEN "memory"
    ELSE IF "integer" \in {a, b} THEN "integer"
    ELSE IF "x87" \in {a, b} THEN "memory" ELSE "sse"

\* classify_x86_64_arg
Classify(ty) ==
    LET mode == IF ty.size > 16 THEN "memory" ELSE FoldLeft(Merge, "none", ty.members)
    IN  [mode |-> mode, size |-> Up(ty.size, 8), align |-> Up(ty.align, 8),
         count |-> IF mode \in {"integer", "sse"} /\ ty.size > 8 THEN 2 ELSE 1]

\* gfunc_sret: whether a value is returned through a hidden pointer
Hidden(ty) == Classify(ty).mode = "memory"

Long == [size |-> 8, align |-> 8, members |-> <<"integer">>]

\* One argument takes registers, if there are enough left.  used: those of the
\* arguments before it.
Fits(used, c) == \/ c.mode = "integer" /\ used.gp + c.count <= REGN
                 \/ c.mode = "sse" /\ used.sse + c.count <= SSEN
Taken(used, c) == IF c.mode = "integer" THEN [used EXCEPT !.gp = @ + c.count]
                  ELSE [used EXCEPT !.sse = @ + c.count]
RegWords(used, c) == [w \in 1 .. c.count |->
                        <<c.mode, (IF c.mode = "integer" THEN used.gp ELSE used.sse) + w - 1>>]
StackWords(c, offset) == [w \in 1 .. c.size \div 8 |-> <<"stack", offset + 8 * (w - 1)>>]

-----------------------------------------------------------------------------
(* gfunc_call                                                              *)

\* the first pass: from left to right, which arguments go on the stack, and
\* whether the stack is aligned before them
Planned(args) ==
    LET Plan(a, ty) ==
          LET c == Classify(ty)
          IN  IF Fits(a.used, c)
              THEN [a EXCEPT !.used = Taken(@, c), !.words = Append(@, RegWords(a.used, c)),
                             !.on = Append(@, 0)]
              ELSE IF c.mode = "none"
              THEN [a EXCEPT !.words = Append(@, <<>>), !.on = Append(@, 0)]
              ELSE LET pad == c.align = 16 /\ a.adjust % 16 # 0
                   IN  [a EXCEPT !.words = Append(@, <<>>), !.on = Append(@, IF pad THEN 2 ELSE 1),
                                 !.adjust = c.size + (IF pad THEN 0 ELSE @)]
    IN  FoldLeft(Plan, [used |-> [gp |-> 0, sse |-> 0], adjust |-> 0, on |-> <<>>, words |-> <<>>],
                 args)

\* mutant: the space is made before the argument that has to be aligned
PushedBefore(args, plan) ==
    LET Push(a, i) ==
          LET depth == a.depth + (IF a.adjust \/ plan.on[i] = 2 THEN 8 ELSE 0) + Classify(args[i]).size
          IN  IF plan.on[i] = 0 THEN a
              ELSE [depth |-> depth, adjust |-> FALSE, at |-> [a.at EXCEPT ![i] = depth]]
    IN  FoldRight(LAMBDA i, a : Push(a, i), [i \in DOMAIN args |-> i],
                  [depth |-> 0, adjust |-> plan.adjust % 16 # 0, at |-> [i \in DOMAIN args |-> 0]])

\* the second pass: they are pushed from right to left; the space that aligns an
\* argument is made before the next one to its left
Pushed(args, plan) ==
    LET Push(a, i) ==
          LET depth == a.depth + (IF a.adjust THEN 8 ELSE 0) + Classify(args[i]).size
          IN  IF plan.on[i] = 0 THEN a
              ELSE [depth |-> depth, adjust |-> plan.on[i] = 2, at |-> [a.at EXCEPT ![i] = depth]]
    IN  FoldRight(LAMBDA i, a : Push(a, i), [i \in DOMAIN args |-> i],
                  [depth |-> 0, adjust |-> plan.adjust % 16 # 0, at |-> [i \in DOMAIN args |-> 0]])

\* the words of each argument, the depth of the stack, and %al
Caller(args, returned) ==
    LET all == IF Hidden(returned) THEN <<Long>> \o args ELSE args
        plan == Planned(all)
        pushed == Pushed(all, plan)
    IN  [words |-> [i \in DOMAIN all |->
                      IF plan.on[i] = 0 THEN plan.words[i]
                      ELSE StackWords(Classify(all[i]), pushed.depth - pushed.at[i])],
         depth |-> pushed.depth,
         al |-> plan.used.sse]

-----------------------------------------------------------------------------
(* gfunc_prolog                                                            *)

\* where the function looks for its named parameters
Parameters(named, returned) ==
    LET Param(a, ty) ==
          LET c == Classify(ty)
              addr == Up(a.addr, c.align)
          IN  IF Fits(a.used, c)
              THEN [a EXCEPT !.used = Taken(@, c), !.words = Append(@, RegWords(a.used, c))]
              ELSE IF c.mode = "none" THEN [a EXCEPT !.words = Append(@, <<>>)]
              ELSE [a EXCEPT !.addr = addr + c.size, !.words = Append(@, StackWords(c, addr - 16))]
        hidden == IF Hidden(returned) THEN 1 ELSE 0
    IN  FoldLeft(Param, [used |-> [gp |-> hidden, sse |-> 0], addr |-> 16,
                         words |-> IF hidden = 1 THEN <<<<<<"integer", 0>>>>>> ELSE <<>>], named)

\* the va_list that __va_start makes: the hidden pointer is not counted
VaStart(named) ==
    LET Count(a, ty) ==
          LET c == Classify(ty)
          IN  IF Fits(a.used, c) THEN [a EXCEPT !.used = Taken(@, c)]
              ELSE [a EXCEPT !.stack = Up(@, c.align) + c.size]
        seen == FoldLeft(Count, [used |-> [gp |-> 0, sse |-> 0], stack |-> 16], named)
    IN  [gp |-> seen.used.gp * 8, fp |-> seen.used.sse * 16 + 48, overflow |-> seen.stack]

\* the register save area: six integer registers, then the low halves of eight
\* SSE registers, each with zeros behind it
Saved(offset) ==
    IF offset < 48 THEN <<"integer", offset \div 8>>
    ELSE IF offset % 16 = 0 THEN <<"sse", (offset - 48) \div 16>> ELSE <<"zero", 0>>
SavedWords(offset, size) == [w \in 1 .. size \div 8 |-> Saved(offset + 8 * (w - 1))]

\* mutant: a structure may begin in the last register and go on in the next area
VaFitsPartly(ap, size) == ap.gp < 48

\* there are enough integer registers left
VaFits(ap, size) == ap.gp + size <= 48

\* __va_arg: [ap, words]
VaArg(ap, ty) ==
    LET c == Classify(ty)
        end == Up(ap.overflow + c.size, c.align)
        \* a double takes 8 bytes of the stack whatever the size is
        end8 == Up(ap.overflow + 8, c.align)
    IN  CASE c.mode = "integer" /\ VaFits(ap, c.size) ->
               [ap |-> [ap EXCEPT !.gp = @ + c.size], words |-> SavedWords(ap.gp, c.size)]
          [] c.mode = "sse" /\ ap.fp < 128 + 48 ->
               [ap |-> [ap EXCEPT !.fp = @ + 16], words |-> SavedWords(ap.fp, c.size)]
          [] c.mode = "sse" /\ ap.fp >= 128 + 48 ->
               [ap |-> [ap EXCEPT !.overflow = end8], words |-> StackWords(c, end8 - 8 - 16)]
          [] OTHER -> [ap |-> [ap EXCEPT !.overflow = end],
                       words |-> StackWords(c, end - c.size - 16)]

Callee(named, unnamed, returned) ==
    LET Next(a, ty) == LET r == VaArg(a.ap, ty) IN [ap |-> r.ap, words |-> Append(a.words, r.words)]
        rest == FoldLeft(Next, [ap |-> VaStart(named), words |-> <<>>], unnamed)
    IN  Parameters(named, returned).words \o rest.words

=============================================================================
