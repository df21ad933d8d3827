# A verification project for TinyCC

TLA+ modules that model the core logic of the compiler in `src/`, TLC runs that
check them on small instances, and TLAPS proofs of what holds for every
instance. File and line references are to the repository's sources; those are
GBK-encoded, and line numbers count their physical lines.

## 1. Inventory

TinyCC is one sequential program. A translation unit goes through it in a
single pass: the preprocessor hands tokens to a recursive-descent parser, which
generates machine code as it parses; there is no syntax tree. The linker then
merges what was compiled with object files, archives and shared libraries and
writes a file or runs the program in memory. What makes it hard is not
concurrency but state: almost everything is a global, patched in place, and
many facts hold only because of the order in which functions call each other.

| part | source | state | operations |
|---|---|---|---|
| Preprocessor | `tccpp.c` | the include stack `include_stack`, the stack of open conditionals `ifdef_stack`, macro definitions on `define_stack`, the stack of token strings being read, cached include guards, the pooled allocators | `preprocess`, `next`, `next_nomacro`, `macro_subst`, `macro_subst_tok`, `macro_arg_subst`, `macro_twosharps`, `tcc_preprocess`, `tal_realloc` |
| Scopes | `tccgen.c:436-620` | `global_stack`, `local_stack`, one chain per identifier in its token entry | `sym_push`, `sym_pop`, `sym_find`, `global_identifier_push`, `external_sym`, `label_push`, `label_pop` |
| Value stack and registers | `tccgen.c:610-2290`, `x86_64-gen.c` | `vstack`, `vtop`, `loc`, `ind`, `nocode_wanted`; the values that are still expressions, conditions or unresolved jumps | `vsetc`, `vswap`, `vrotb`, `gv`, `gv2`, `save_regs`, `get_reg`, `gen_op`, `vstore`, `gvtst`, `gfunc_call` |
| Types and constants | `tccgen.c:1750-2750` | none: functions on values | `gen_opic`, `gen_opif`, `gen_cast`, `force_charshort_cast` |
| Statements | `tccgen.c:5353-6140` | chains of jumps to be patched, the labels of a function, the enclosing loop and switch | `expr_cond`, `expr_land`, `expr_lor`, `block`, `gcase` |
| Declarations | `tccgen.c:3168-4450, 6140-7398` | structure layouts, initialisers that write into sections | `struct_layout`, `decl_initializer`, `decl`, `gen_function` |
| Assembler | `tccasm.c`, `i386-asm.c` | labels, the current section | `tcc_assemble_internal`, `asm_new_label`, operand constraints |
| Linker | `tccelf.c` | sections, the symbol table and its hash table, relocations, attributes of symbols | `set_elf_sym`, `tcc_load_object_file`, `tcc_load_alacarte`, `bind_exe_dynsyms`, `build_got_entries`, `relocate_syms`, `sort_syms` |
| Execution | `tccrun.c` | the run-time memory | `tcc_relocate_ex`, `rt_printline`, signal handler |
| Library | `libtcc.c` | a `TCCState`; one at a time, through a global | `tcc_new`, `tcc_compile`, `tcc_add_file_internal`, `tcc_delete` |
| Run time | `lib/` | the bounds checker's regions; `va_arg`; 64-bit arithmetic | `__bound_new_region`, `__va_arg`, `__udivmoddi4`, shifts, conversions |

How they interact: the parser calls `next()` for a token and the value stack for
every expression; the value stack calls the back end (`load`, `store`,
`gen_opi`, `gfunc_call`), which writes bytes at `ind` in a section and asks for
registers again; code that names a global calls `put_extern_sym`, which enters
the symbol table of the linker; a table entry's index is kept in `Sym.c` and in
relocations for the rest of the session and entries are patched through it. All
errors leave by `longjmp` (`tcc_error`), from any depth.

What makes each part correct:

- *Preprocessor*: every conditional group is taken or skipped as C says, also
  across include files; a macro is not expanded inside its own expansion; an
  include is skipped only when reading it would produce nothing.
- *Scopes*: an identifier means its innermost declaration; leaving a scope
  restores what was visible before it.
- *Value stack*: the code emitted so far leaves every value that the stack
  describes where the stack says it is; no two values share a register unless
  they are equal; a condition code or a pending jump is never buried.
- *Types and constants*: an expression has the type and the value it has in C,
  whatever was folded, left out or converted late.
- *Statements*: every forward jump is patched exactly once, to the place the
  statement means; a switch goes to the case that has the value.
- *Declarations*: members are where the ABI has them; a bit-field is read where
  it was written and shares no bit with another member.
- *Calls*: the callee looks for each argument where the caller has put it.
- *Linker*: a name has one entry; definitions win over references, strong over
  weak; what is loaded from an archive is what is needed; every relocation
  refers to the symbol it was written for.
- *Execution and library*: memory is mapped with what was computed for it; an
  error at any point leaves a state that can be deleted.

## 2. Order of the work

In the order of importance:

1. **Code generation for expressions** (`CodeGen`, `ValueStack`): the heart of
   the compiler and the part with the most implicit protocol.
2. **Scopes** (`Scopes`, refining the abstract `Environment`): the symbol
   chains that four stacks share.
3. **The linker's symbol table** (`ElfSymtab`, with the action property
   `KeepsPromises` over `SymbolResolution`).
4. **Linking** (`Linking`, refining the abstract `DemandLoading`).
5. **Preprocessor**: `Conditionals`; `Macros` against `MacroReplacement`.
6. **Pure algorithms**, each against a reference definition: `Arithmetic` over
   `CIntegers`, `CallAMD64`, `StructLayout`, `Switch`.
7. **Statements**: the conditions, `if` and blocks are in `ValueStack` and
   `Scopes`, `switch` in `Switch`.

Section 5 has the proofs, section 6 what is not modelled: among it loops as
code, `goto` into and out of blocks with variable length arrays, initialisers
with designators, `build_got_entries`, and the regions of `bcheck.c`.

## 3. The modules and the code

| module | role | extends or instantiates |
|---|---|---|
| `CodeGen`, `ValueStack` | value stack, back end, expression parser | `ValueStack` extends `CodeGen`, which extends `Loops` |
| `ValueStack_proofs` | proofs: what the stack, the parser and the code agree on; the jumps | |
| `Environment`, `Scopes` | what names mean; the identifier tables | `Scopes` refines `Environment` |
| `SymbolMerge` | what `set_elf_sym` makes of an entry and a new symbol | shared by `ElfSymtab` and `Linking` |
| `Scopes_proofs`, `Scopes_refinement` | proofs: what pushing and popping do to sound tables, what holds of all programs; that `Scopes` implements `Environment` | each extends the module before it |
| `SymbolResolution`, `ElfSymtab` | what names resolve to; one entry per global name | `ElfSymtab` uses `SymbolMerge` |
| `ElfSymtab_proofs` | proofs: the table and its lookup; what the entries mean | |
| `DemandLoading`, `Linking` | what a linker loads; files, archives, scripts, libraries, binding | `Linking` refines `DemandLoading`, uses `SymbolMerge`, `Loops` |
| `Linking_proofs` | proofs: the state of the linker; what it loads, relocates and refuses | |
| `Conditionals`, `Conditionals_proofs` | conditional groups, inclusion, the include cache; the proofs | |
| `MacroReplacement`, `Macros` | macro replacement in C; `macro_subst` | compared by `MCAlgorithms` |
| `CIntegers`, `Arithmetic`, `Arithmetic_proofs` | integers of C; `gen_op`, `gen_opic`, `gen_cast`; the proofs | `Arithmetic` extends `CIntegers` |
| `CallAMD64`, `StructLayout`, `Switch` | argument passing, structure layout, `switch` | compared with the ABI or C by `MCAlgorithms` |
| `Loops`, `Loops_proofs` | sequential loops as folds that TLC evaluates once per round; what their rounds keep | |

### CodeGen and ValueStack: expressions to machine code

`CodeGen` has no variables: it defines the value stack operations of `tccgen.c`
and the x86-64 back end as functions from a state to the next one, one operator
for each C function (`gv`, `gv2`, `Save`, `gen_op`, `vstore`, `gfunc_call`, ...).
`ValueStack` drives them by the recursive-descent parser: its C stack is the
variable `ctx`, and *any* token that the grammar allows may come next, so that
TLC explores all programs of a bounded length.

The target program is not represented as bytes. Emitting an instruction runs it
at once, on one machine for each of three initial memories, if that machine is
at this place of the code: a forward jump that it takes puts it at an open jump
(`at`), and `gsym` brings it back. So a state has, for each input, the
registers, the frame and the variables; the compiler's stack says where values
are; and the source program's own semantics runs beside (`src`). That makes the
central property statable: *Faithful* says that what a stack entry denotes on
each input that reaches it is the value of that subexpression in C.

| state | code |
|---|---|
| `cg.vs`, entries `r`, `lval`, `c`, `op`, `t` | `__vstack`, `SValue.r` with and without `VT_LVAL`, `.c`; `VT_CONST`, `VT_LOCAL`, `VT_LLOCAL`, `VT_CMP`, `VT_JMP`, `VT_JMPI` |
| `cg.loc` | `loc`, the next free slot of the frame (`MaxTemps` slots) |
| `cg.nocode` | `nocode_wanted` |
| `cg.ind`, `cg.open` | the jumps that the code emitted so far contains, and those not yet patched |
| `cg.m` | what the emitted code computes: registers, flags, frame, variables |
| `ctx` | locals of `expr_prod`, `expr_land`, `expr_lor`, `expr_cond`, `expr_eq`, `unary`, `block` that live across the parsing of an operand |

Words have two bits (`N = 4`), so that every value is also the address of one
of the four variables: there are no wild pointers and all aliasing occurs.
`REGN = 2` integer arguments go in registers, where x86-64 has six, so that a
call with three arguments passes one in memory; `wide` ones always go there.
Registers are rax, rcx and rdx, as in `reg_classes` of `x86_64-gen.c` for
integers (the others are of classes that no operation modelled here asks for).

### Scopes and Environment: what a name means

`Environment` is a stack of scopes and says what a C programmer is promised.
`Scopes` has the data structure: symbols on `global_stack`, `local_stack`,
`global_label_stack`, `local_label_stack`, and per name and name space a chain
through `prev_tok` whose head is in the token. `ctx` has one frame per open
`block()` or `for`, with the positions `s` and `llabel`. Programs are any
sequence of declarations, tags, labels, `goto`, blocks, `({...})`, functions and
syntax errors. `gone` is a history variable: the symbols that a statement
expression has kept on its stack. The refinement `ScopesNest` reads the scopes
off the stacks and the meaning of a name off the token, so every step that the
tables take must be a step of `Environment`, including the reasons for which a
program may be refused.

Only automatic variables and tags keep their `sym_scope`: for statics and
externs the code resets it, for typedefs and enumerators the member of the union
is overwritten. `NoDuplicates` is therefore about automatic variables: that
`static int x; static int x;` in a block is accepted is what the code does.

### ElfSymtab, SymbolMerge and SymbolResolution: one entry per global name

`ElfSymtab` models `put_elf_sym`, `find_elf_sym`, `rebuild_hash` and
`set_elf_sym`, the two loops as steps (`pc`), and the places where the compiler
patches an entry in place (`put_extern_sym2`, `update_storage`; at most
`MaxPatched` symbols that were static are patched in a run). What `set_elf_sym`
decides from the old and the new symbol is `SymbolMerge`, so that the table and
the linker use one definition of it. `SymbolResolution` orders the
contributions to a name (reference, weak, tentative, strong) and says what the
next one may change; `KeepsPromises` is the action property that every call
changes an entry only as it says.

### Linking and DemandLoading: from the command line to the executable

A *world* is a command line and the contents of its files; `Init` chooses one
and `World(_)` builds it, so that one run covers many. Opening a file is a call
of `tcc_add_file_internal`; a script, an archive or a library opens others from
inside, so the C stack is the variable `stack`, with one frame for the command
line (`cmd`), a script and its `INPUT` or `GROUP` list (`script`, `list`), an
archive read by its index (`ar`) or as a whole (`whole`), and the libraries that
a library needs (`dll`).

| state | code |
|---|---|
| `tab` | `symtab_section`: the array of `ElfSymtab`, with the lookup proved there |
| `newUndef` | `new_undef_sym`, which decides whether a `GROUP` is gone through again |
| `once` | the sections kept under a `.gnu.linkonce` name (`sm->link_once` when one comes again) |
| `rels` | the relocation sections, with the index of the symbol that `old_to_new_syms` gives |
| `dyn`, `dlls`, `dynsym` | `dynsymtab_section`, `loaded_dlls`, `.dynsym` |
| `a.map`, `a.once` in `LoadObject` | `old_to_new_syms` and the value that `sm->link_once` has after the second pass |

An object is loaded in one step (`LoadObject`: section map, symbols,
relocations, with the error for a relocation to nothing), since nothing looks at
the tables in between. Its second argument is the stack that the callers go on
with; the error is passed from caller to caller and ends the program, or else
gets to a `list` frame in a later round of its group (`again`), which goes on. Binding (`BindExe`) is `relocate_common_syms`,
`bind_exe_dynsyms`, `bind_libs_dynsyms` and `relocate_syms`, in that order.
`DemandLoading` knows only which member defines and mentions which name. The
refinement says of each step that it loads a member that the command line asks
for or that is needed at that moment, never twice, and that a library or group
is left only when it can give nothing more.

### Conditionals: which lines are read

The contents of files are not given: a line is chosen when it is first reached
and is the same from then on (`text`), so every text of bounded length over a
dialect's lines is explored, and a file that is included twice is the same file.
`inc` is the stack of `BufferedFile`s with the fields that matter
(`ifdef_stack_ptr` as `base`, `ifndef_macro` as `guard`, `ifndef_macro_saved` as
`saved`, `filename` as `name`), `ifs` is `ifdef_stack` with its two bits,
`flags` is `tok_flags`, `a` the local of `preprocess_skip`. The properties read
the structure of a file off its lines alone (`Depth`, `Around`, `Heads`), beside
two ghosts in each frame: the lines processed and the conditions that held.
`NewUnit` compiles the next string with the same `TCCState`: the cache lives on,
the macros do not.

### Macros and MacroReplacement: what a text expands to

`Macros` has one operator for each function: `Subst` is `macro_subst`,
`SubstTok` is `macro_subst_tok`, `Argument` and `Arguments` are the loop over
arguments, `Reading` and `Peeking` are `next_argstream` with and without
arguments (it ends the token strings that are used up and clears their entry in
`nested_list`), `ArgSubst` is `macro_arg_subst`, `Pasted` is `macro_twosharps`.
`MacroReplacement` is the algorithm with hide sets from which the text of the
standard was made. The two are compared on every text of every family.

### CIntegers and Arithmetic: types, conversions and folding

`CIntegers` says what C says: types, conversions, promotion, when an operation
is defined and what it gives. `Arithmetic` has the entry on the top of the value
stack: a constant (`c.i`, 64 bits), an lvalue or a register. A step is a cast,
an assignment or a binary operation with another operand, on the left or the
right; expressions of *any* length are explored, since there are finitely many
entries. Widths are parameters: 2, 4 and 6 bits for `char`, `int` and `long
long` keep their order and every boundary (0, 1, -1, the extremes, powers of
two) is a different value in each. `short` is as `char`, and pointers are as
`long long`.

### CallAMD64, StructLayout, Switch

`CallAMD64` classifies types as `classify_x86_64_arg` does and gives each
8-byte word of an argument its location as the caller sees it (`gfunc_call`:
stack depth and registers, in the order the code counts them) and as the callee
does (`gfunc_prolog` for named, `__va_start` and `__va_arg` for unnamed ones).
`StructLayout` is `struct_layout` in the PCC layout, with the second loop that
chooses by which type a bit-field is accessed, and the accesses themselves
(`load_packed_bf`, `store_packed_bf`); `Abi` is the layout of the System V ABI,
written from the placement of bits. `Switch` is `case_cmp`, the check for
duplicates and the binary search of `gcase`, over the comparison of
`CIntegers`, which the run `arithmetic` justifies. `MCAlgorithms` has one state
for each input and one step that computes the outcome.

## 4. What is checked

| run | instances | shows |
|---|---|---|
| `valuestack` | nine families of functions: `Registers`, `Operators`, `Assignments` (straight lines, up to 7 tokens); `Conditions`, `Comparing`, `Calls`, `WideArguments`, `Branches`, `Nested` | `Faithful`, `MemoryAgrees`: no pending value is lost when registers run out, when shifts and divisions claim theirs, when an lvalue's address is saved; `PathsAgree` (code runs on the paths where C evaluates it), `JumpsHeld` (each jump is held by exactly one entry or frame until it is patched), `ArgumentsPassed`, `LazyOnlyOnTop` |
| `scopes_programs` | four dialects: one name as identifier; as tag and label; two names as identifiers; as labels | `ScopesNest`, `LiveOnly`, `GlobalReappears`, `NoDuplicates` |
| `elfsymtab_table` | five names that collide, a static that is patched, two rebuilds | `ChainsOK`, `UniqueGlobals`, `FindAnswers`; `CallsReturn` under weak fairness |
| `elfsymtab_kinds` | every sequence of three kinds of symbol of one name | `KeepsPromises`, `DuplicatesReported`, `VisibilityTightens` |
| `linking` | archives of two members and one member over three names, in six ways on the command line; pairs of objects with link-once sections; two libraries that need each other | `Verdict` (fails iff something is missing), `RelocsMeant`, `RunTimeAgrees`, `LoadsOnDemand`, `Terminates` |
| `conditionals` | five dialects: groups; groups across files; include guards; `#pragma once` in two units; `#line` | `ActiveLines`, `CacheSound`, `OncePerUnit`, `Verdicts`, `UnitEnds` |
| `arithmetic` | seven types, boundary values, constants and variables, all operators | `TypeAsC`, `ValueAsC`, `ConstantsExtended` |
| `algorithms` | about 73 000 inputs: texts with macros, calls, structures, switches | `ExpandedAsC`; `ArgumentsFound`, `StackAligned`; `LaidOutAsABI`, `BitFieldsApart`; `CaseAsC` |

Runs that end in a violation, each a disagreement between a comment of the code
and what it does, which was also reproduced with the compiler built from this
source:

| run | disagreement |
|---|---|
| `valuestack_pending_comparison` | `(x < y) + ({ if (c) g(); 5; })`: "save all registers" leaves a pending comparison, which is then saved on one path only. `f(1,2,0)` returned 5 for 6 |
| `scopes_session` | after an error in a function the global stack is emptied before the local one; the next string finds a freed symbol |
| `linking_alias` | the strong alias of a weak object of a library is looked for by its value in the table of all libraries: an object of another library gets its name |
| `arithmetic_narrowed` | `long long` to `unsigned int` and back emits no code: `(unsigned)(a + 1)` returned as `unsigned long long` keeps the upper half |

**Bounds and why they are enough.** *Expressions*: with three registers the
first eviction needs four pending values, seven tokens. Conditions interact in
pairs, and every pair of `&&`, `||`, `!`, `?:`, a comparison and a constant
occurs. Each family of programs (a `Language`: its variables, constants, tokens
and length) has the tokens that make one kind of trouble, since all together are
too many. Three input memories take different ways through two conditions. Six
temporaries (`MaxTemps`) are the most that these functions need. *Scopes*: what
can go wrong in a chain needs a global symbol and two local ones, beside the
dummy symbol that each function has: four symbols. Names interact only through
the stacks, so two names suffice. *Symbol table*: the code's own rule (rebuild
past two per bucket) gives 1, 2 and 4 buckets within five symbols; a kind is
decided by the entry and the new symbol, and a third call sees every entry that
two can make. *Linking*: a chain of needs that the index offers in the wrong
order takes two members, going back to an earlier archive takes a second one,
and each member defines one name of three and refers to at most one. A
link-once section is discarded when a second object brings it. *Conditionals*:
an `#elif` after a taken section after a skipped one with a group inside takes
six lines; a group that leaves its file takes four lines in each. `IncludeDepth`
and `IfDepth` are small enough to be reached. *Arithmetic*: no bound on the
length, see above. *Algorithms*: texts of four tokens are the shortest with two
calls; arguments follow three or four integers and none or seven doubles, so
that the last registers run out within the three arguments under test;
structures of three members have a bit-field between others; seven cases are
searched by halves twice. `MaxSyms`, `MaxCalls`, `MaxPatched`, `MaxDepth`,
`MaxTemps` are the only other bounds.

**Fairness.** `CallsReturn` (`FairSpec` of `ElfSymtab`), `UnitEnds` (`FairSpec`
of `Conditionals`) and `Terminates` (`Spec` of `Linking`) assume weak fairness
of the steps of the call in progress: the compiler is one sequential program
that executes its loops when nothing else runs. None assumes that callers make
calls.

**Deadlock.** It is checked wherever there is a next call to make: a state where
a bound is reached has a step that goes on (a value stack can always finish its
expression, an error ends a program, a lookup can always be made). `Linking`
stops when the executable is bound or the link has failed, and `MCAlgorithms`
when the outcome is there; their configurations say `CHECK_DEADLOCK FALSE`.

**What the passing runs leave out**, because the code disagrees there with what
the property says. Each was reproduced with the compiler, unless it says
otherwise.

*Expressions.* A `lazy` value before `({...})` (the run
`valuestack_pending_comparison`). `wide` arguments together with `&&` or `||`: a
`VT_JMP` that is the last argument of a call is buried while an argument in memory
is generated, against the comment of `vsetc` (`tccgen.c:627`);
`Languages <- MCBuriedJump` with `LazyOnlyOnTop` shows it.

*Scopes.* `session` after an error (the run `scopes_session`). `reuse` of a name
local to a `({...})` as a label or function: the kept symbol is popped twice and
the label is lost; `Dialects <- MCReuse` with `GlobalReappears` shows it.

*Symbol table.* Hidden initialised data after a tentative definition is dropped,
against "data symbol gets precedence over common/bss" (`tccelf.c:477`): the
reference definition follows the code there. The visibility of a reference is
forgotten when its definition arrives, against "propagate the most constraining
visibility": `VisibilityTightens` is about definitions. "Defined twice" is
printed for two object files and the link succeeds, since `nb_errors` is reset
when the output is written (`tccelf.c:2013`): `Verdict` does not count it.
`update_storage` makes any symbol with the attribute weak `STB_WEAK`
(`tccgen.c:287`), also a static one, which was put into the table as a local and
so is in no chain: then the table has an entry that is not local and that
`find_elf_sym` does not find. `CompilerPatches` patches the storage of globals
only, and so `ChainsOK` and `UniqueGlobals` say nothing of weak statics.

*Linking.* Objects of two libraries at one address (the run `linking_alias`).
Relocations of a discarded link-once section go to the copy that was kept, which
has its own already, so that each place is relocated twice; `Code <- MCOnceCode`
with `RelocsMeant` shows it. A relocation to a local symbol of a discarded
section, when the last symbol's section is not link-once (`tccelf.c:2485`). A
name with weak and strong references: the last one decides (`tccelf.c:767`). An
executable that refers to the strong alias itself. Lists inside lists,
`AS_NEEDED` (ignored by the code), files that are missing, files of a list that
are named by a path (after a failure they are looked for again as a library,
`tccelf.c:2883`), `func` symbols that a library leaves undefined, objects inside
a `GROUP` (they would be loaded again in each round).

An object that cannot be loaded ("Invalid relocation entry") ends the link,
except in a later round of a `GROUP`: there `ld_add_file_list` drops the result
of `ld_add_file` (`tccelf.c:2966`) and goes on with the next file, `nb_errors` is
reset (2013), and the link succeeds with relocations that were not converted.
With a member of `libx.a` that refers to a section of type `SHT_NOTE` and is
needed by `liby.a`, `GROUP(libx.a liby.a)` links and `GROUP(liby.a libx.a)` does
not. `LoadObject` does what the code does (`Repeated`, `Adjusted`); the worlds
have no such member in a group, since `Verdict` and `RelocsMeant` fail there.
A relocation section for a section that is ignored makes the code follow a null
pointer (`tccelf.c:2419`), and so does one for a link-once section that is left
out when the one that was kept has none; the model does not represent that, and
worlds have no such relocations. Under `--whole-archive`, `alacarte_link`
(`tcc.c:323`) is 0 for the archives of a linker script too: `WholeArchives` says
so, but the worlds name scripts outside of it only: a list that names an archive
twice, or a group that is gone through again, loads all of its members again.

*Conditionals.* An included file that is empty leaves `TOK_FLAG_BOF` set, so
that an `#ifndef` after it is taken for the guard of the file that includes it;
`Dialects <- MCEmptyDialects` with `CacheSound` shows it. `#line` with the name
of another file: the guard is recorded under that name (`tccpp.c:2572`), so that
the other file is skipped. In the dialect `Renumbered` a header names itself.

*Arithmetic.* A computed `long long` that was converted to `unsigned int` and is
widened again (the run `arithmetic_narrowed`). Operations that C does not define.

*Macros.* Bodies that begin a call which the text behind the macro completes,
and name a macro of the call in progress (`#define g f(g`, or two macros that do
so with `f ( x`): `next_argstream` clears the entry of `nested_list` when the
argument is read beyond the body, before what was read is expanded, so that a
macro is replaced inside its own replacement. A macro without parameters, called
with an argument that is empty after expansion ("used with too many args").
`, ## __VA_ARGS__` with an argument of one token gets a placeholder more; that is
in `Macros`, but no body of the families pastes it again.

*Calls.* `va_arg` of a structure of two doubles; unnamed arguments in a function
that returns a structure in memory; structures aligned to more than 16.

*Structures.* `__attribute__((packed))` behind the brace and `#pragma pack`,
where a bit-field as wide as its type is not known as one when it is declared;
`aligned(n)` below the alignment of the type; unions with unnamed bit-fields;
the MS layout.

*Switch.* Cases are not converted to the type of the value: `switch` of an `int`
with `case 0x80000000`, or of an `unsigned` with `case -1`, goes to the default
when there are more than four cases, and two constants that the conversion makes
equal are not refused. An empty range at the middle of the search loses cases;
`case 1 ... 0xffffffffffffffff` of an `unsigned long long` is taken for empty
(`Kept`).

## 5. What is proved

Each theorem holds for every value of the constants that the assumptions of the
modules allow (`HashAssumption`, `ContributionAssumption`, `AbsentAssumption`,
`BoundAssumption`; `ScopesAssumption`; `ConditionalsAssumption`;
`OperandAssumption`; `CodeGenAssumption`, `ValueStackAssumption`; TLC evaluates them in each run) and, where it says so,
under a hypothesis on them. Each proof follows one pattern: an inductive
invariant, one lemma per action that the action keeps it, and the property as
its consequence or as a property of the steps from states in which it holds.

**The value stack** (`ValueStack_proofs`), for functions of any length in any
language, `lazy` and `wide` ones included, with any words, inputs and number of
registers for arguments:

- `StackInductive`: `Spec => []VInv`;
- `JumpsPatchedOnce`: `Spec => []JumpsHeld`, each jump that was emitted without
  a target is in exactly one chain until it is resolved;
- `FunctionsComplete`: `Spec => []Complete`, after a statement that is not in
  `({...})`, the last one of a function included, nothing is left on the value
  stack (`check_vstack`, `tccgen.c:7072`, reports no leak), no jump is without
  its target, and each increment of `nocode_wanted` has been taken back.

`JumpsHeld` is not inductive: it does not say how many entries an operator that
waits for an operand will find, nor that no chain is dropped while no code is
generated, when `gjmp` returns the chain it was given and a jump is never
resolved by the value that is popped. The invariant `Ok` has three parts.
`Stack` gives to each frame of the parser (the locals of `expr_land`,
`expr_cond`, `gfunc_call` and so on) its entries of the value stack (`Takes`), its
chains (`Own`), which are disjoint from each other, and its level of
`nocode_wanted` (`Falls`); the sums of these are the length of the stack, the
jumps held outside it and `cg.nocode` (`Marks`, `Chains`). `Good` says that the
other open jumps are in the chains of the entries, each in one, and that while
no code is generated the entries above a mark `d` have none: `d` is the length
of the stack at the moment when code was first suppressed (`Idle`, `Muted`).
`Aligned` relates an entry to the source's value: only a truth value has jumps,
so that the operands of an assignment or call have none when they are used. There
is one lemma for each function of the code generator, which says what it does
to the entries below the ones it works on (`Kept`, `Done`, `Single`, `Tests`), and
one for each action; the two loops over the arguments of a call go by
`RoundsKeep` of `Loops_proofs`, with the number of arguments that were skipped
(`Skips`).

**The linker's symbol table** (`ElfSymtab_proofs`), for every set of names, hash
function and number of symbols and calls, with in-place patches and without:

- `TypeCorrect`: `Spec => []TypeOK`;
- `ChainsCorrect`: `Spec => []ChainsOK`, each chain lists exactly the inserted
  global entries of its bucket, newest first, also in the middle of a rebuild;
- `OneEntryPerName`: `Spec => []UniqueGlobals`;
- `LookupCorrect`: `Spec => FindAnswers`, a lookup that returns has found the
  entry of the name iff there is one.

The inductive invariant `IInv` joins the type invariant, the chains, uniqueness
and `WalkOK`. Uniqueness is not inductive alone: that a walk which has reached
the end of its chain has missed no entry needs `WalkOK` (what lies behind the
cursor does not have the name), which needs that chains are exact and in
decreasing order. `ChainsKept`, `ChainsLocal` and `ChainsGlobal` say what each
way of inserting a symbol does to the chains, and `LastBeforeNext` is the step
of the definition of a chain (the last earlier entry of the same bucket), which
avoids induction over lists. That `Linking` may look a name up by taking the one
entry that has it rests on `OneEntryPerName` and `LookupCorrect`.

**What the entries mean**, under `MaxPatched = 0`, as in
run `elfsymtab_kinds`: the symbols of compiled units are linked. (The compiler
patches the entries of the unit that it compiles without asking `set_elf_sym`,
and then what follows is not so.)

- `EveryoneAccounted`: `Spec => [](AccountInv /\ TwiceInv)`: every contribution
  has an entry, which answers for all contributions to its name, and a name is
  reported only for a strong definition that another contribution meets;
- `ReportsComplete`: `Spec => []DuplicatesReported`;
- `VisibilityKept`: `Spec => VisibilityTightens`;
- `PromisesKept`: `Spec => KeepsPromises`, the table implements
  `SymbolResolution`: its initial states are initial there, and every step is a
  step there or a stutter.

`DuplicatesReported` is not inductive, because an entry forgets the
contributions that it has absorbed. `Accounted` says what it still knows: the
entry is what `SymbolResolution` promises for the *set* of the contributions,
and every strong definition that others see is either the one it holds or its
name is reported. The case that needs care is a definition that others cannot
see: it overrides without a report, and must not be counted as the one held.

**Scopes** (`Scopes_proofs`, `Scopes_refinement`), for every set of names, number of
symbols and depth, under `PlainDialects`: no string is compiled after an error in
the same process, and no name with a declaration in a `({...})` is put on a
global stack afterwards, as in run `scopes_programs`. Run `scopes_session` shows
that `LiveOnly` is false with the first of these.

- `TablesSound`: `Spec => []IInv`;
- `TypeCorrect`: `Spec => []TypeOK`;
- `NoStaleSymbols`: `Spec => []LiveOnly`;
- `GlobalsReappear`: `Spec => []GlobalReappears`;
- `DeclaredOnce`: `Spec => []NoDuplicates`;
- `ScopesImplement`: `Spec => ScopesNest`, the tables implement `Environment`: a
  name means the innermost declaration in scope, and a program is refused only
  for the reason of the message.

None of the invariants is inductive: popping a symbol writes its `prev_tok` into the
head, so that the head is right only if every link of a symbol that may be
popped is. `IInv` says what heads and links are: the head of a name is the last
symbol of its local stack that is in scope and declares it, or else the global
one (`Visible`, `Heads`), and the link of a symbol is what the name meant below
it (`Links`). The symbols of a `({...})` that are kept on their stack have links
that need only be right when everything from the beginning of a scope of the
parser up is popped with them (`Stale`, with the set of those beginnings): this
is why an out-of-order pop is harmless. `Frames` relates the parser's frames to
the stacks and to `local_scope`, and `Autos` (the variables of a frame have its
scope and distinct names) is what makes the comparison of one `sym_scope` in
`sym_push` enough. The lemmas about tables say what each push and pop
makes of such tables; `Loops_proofs` supplies the induction over the rounds of
a loop (declaring several parameters or labels), from the well-foundedness of
the natural numbers.

The refinement maps the positions where the parser's frames begin to scopes:
scope `k` declares the last symbol of a name between two of them that is not
only kept (`OpenScopes`, `Means`), and `HeadIs` derives from `Heads` that what
the token says is what the innermost of these scopes says. Soundness does not
suffice for the steps; `RInv` adds what keeps scopes apart (`Orderly`): a symbol
has the number of its own scope or none, so that `sym_push` refuses only what
the innermost scope has (`HiddenHere`); a label has one symbol in a scope, so
that the labels which leave with it are those of its declarations; and no label
that is kept is still to be defined. There is one lemma for what each kind of
change makes of all scopes (`EnvPush`, `EnvGlobal`, `EnvEnter`, `EnvLeave`,
`RetypedKeeps`, `EnvRestart`) and one for each action. To complete a tag is
a stutter of `Environment`.

**Conditionals** (`Conditionals_proofs`), for every text of the files, nested to
any depth up to the limits of the stacks:

- `Inductive`: `Spec => []IInv`;
- `TypeCorrect`: `Spec => []TypeOK`, the groups of the open files are disjoint
  parts of `ifdef_stack` in the order of inclusion;
- `ActiveLinesRead`: `Spec => []ActiveLines`;
- `VerdictsRight`: `Spec => Verdicts`, a file is left at its end only if its own
  groups are balanced, and a unit is refused only for a reason;
- `CacheInductive`: `Spec => [](IInv /\ CInv)`, and from it
- `CacheSoundness`: `Spec => []CacheSound`, a file whose inclusion the cache
  answers would have defined and done nothing, were it read again;
- `ReadOncePerUnit`: `Spec => OncePerUnit`, a file with `#pragma once` is read
  once in a unit.

The last three assume `PlainFiles`: `PlainDialect` of every dialect says that no
file is blank and that `#line` does not name another file of the unit. The code
does not keep the promise without it (section 4), so it is a hypothesis of
these theorems and not an assumption of the module; `MCConditionals` assumes it
of the dialects of the run, so that TLC evaluates it there.

`IInv` relates each element of `ifdef_stack` to the group of the text it stands
for (`OpenGroup`, `Groups`: which of its sections is the current one and
whether one has been chosen), and the depth of the text to the file's part of
the stack plus the counter of `preprocess_skip` (`Tracks`). The including files
keep theirs while another one is read (`Outer`). The hard case is `Doomed`:
`test_else` looks at the whole of `ifdef_stack` and not at the file's part, so
that an `#else` in an included file is taken for a group of the including file.
The invariant does not exclude this; it says that the file then has a line that
belongs to no group, that its reader only skips, and that the unit ends with an
error before the including file is read on, so that `Verdicts` still holds.

What the cache says of a file that is closed was decided while the file was read,
and rests on what the reader had in its hands then. `CInv` has a part for each
of these: `FlagsMean` (the flags of the token say whether a directive begins
the line and whether it is the first of the file), `GuardsMean` (while `ifndef_macro`
is set, all that was read of the file lies in the group of that macro, and
when it is put aside at `#endif`, nothing was read since), `Named` (a cache entry has the
name of a file that is open or was read), `OncesMean` (an entry of `#pragma
once` is of this unit) and `Guarding`: for every entry with a guard, the whole text
of the file is `Shielded` by that macro, so that reading it with the macro
defined only skips. The step that matters is the `#endif` of the outermost group
at the end of the file: `GuardsMean` of the reader becomes `Guarding` of the cache.

**Linking** (`Linking_proofs`), for any number of files of
any kind, with any symbols, sections and relocations, in any order, under
`PlainCode`: every world is a `PlainWorld`, that is, files are well formed (a
symbol or relocation refers to a section or symbol that is there, and no
relocation is for a section that is ignored), a file from which everything is
taken is named once, no script is read under `--whole-archive`, and sections
with the same link-once name define the same globals and have relocations, or
have none.

- `LinkInductive`: `Spec => []LInv`;
- `DemandLoaded`: `Spec => LoadsOnDemand`, `Linking` implements `DemandLoading`,
  also when a later round of a `GROUP` goes on behind an object that could not
  be loaded;
- `RelocsRight`: `Spec => []RelocsMeant`, under `RelocWorld` as well: no
  relocation is in a link-once section (the code relocates such places twice,
  section 4), the last symbol of an object, by which the code judges all of
  them (`tccelf.c:2485`), is in the link-once section that its relocations lose,
  and no member of an archive of a `GROUP` has a relocation that is lost: in a
  later round that is not noticed (`tccelf.c:2966`);
- `VerdictRight`: `Spec => []Verdict`, under `RelocWorld` and `BoundWorld`: the objects
  agree on which names are weak (the last reference decides, `tccelf.c:767`),
  and an entry of a library is either undefined or has a type and a value.

These hypotheses are what the code needs in order to keep the promise, and not
assumptions of the module; `MCWorldsPlain` in `MCLinking` assumes all of them of
the worlds of run `linking`, so that TLC evaluates them there.

`LInv` says what the linker's tables are in terms of the objects loaded:
`Tabled` (the symbol table has one entry for each name that they define or refer
to, and it is defined iff one of them defines it), `OncesKept` (each link-once
name that is kept was in one of them), `Fresh` (an object named once is loaded
only when the file has been come to), and `Called`, the possible shapes of the C
stack. The part that carries the proof is `Exhausted`: what a search has passed
by is not needed, for the symbols of an archive that lie before the cursor, and
for the archives of a group unless `new_undef_sym` says that the group is gone
through again. It is not inductive without `Tabled` (the linker asks the table
and not the objects whether a name is undefined), and is disturbed only by
loading a member, which may need something that was passed by: then
`new_undef_sym` is set or the archive is read from the beginning. The refinement
goes by the shape of the stack: `Held` is what is searched in each shape, and a
list or archive is left only with `Exhausted` for all of it. There is one lemma
for each action.

`RelocInv` says of the array and the relocations what `LInv` says of names: each
entry lies in a section that the program has (`Placed`), a link-once section is
in the program once an object with it is loaded (`OnceLoaded`), and the
relocations written are those of the objects loaded, each once, to the symbol
meant (`Relocated`). Indices into the array stay valid since loading only adds
entries and changes them in place. In `LoadObject` the invariants of the two
loops, over symbols (`MapMeans`, `OnceMeans`) and over relocations (`OfObject`), are
carried through by `LoopExists` of `Loops_proofs`.

`VerdictInv` adds that no object loaded has lost a relocation, that an undefined
entry is a reference of some object, with its binding (`Referenced`), and that
the table of the libraries has what the libraries loaded define (`DllsKnown`).
Binding is four passes over the two tables: `BoundUpTo` says what the loop of
`bind_exe_dynsyms` has done to the first entries, `ExportState` what the one of
`bind_libs_dynsyms` leaves alone, and `Lacking`, the strong names undefined in
both tables, is shown to be what the link is refused for. `LackingMeans` carries
that back to the objects.

**Arithmetic** (`Arithmetic_proofs`), for all widths: `TypesAsC`,
`Spec => []TypeAsC`; what `gen_op`, `gen_cast` and `vstore` take for the type of
an expression is its type in C. `TypeInv` adds that a conversion is only put off
(`must`) for values of the rank of `char`, which is what makes the promotion of
a value that is read back from a narrow variable the right one.

What is only model-checked, and why:

- liveness (`CallsReturn`, `UnitEnds`, `Terminates`): the prover has no rule for
  it, nor for `ENABLED`;
- what the code generated by way of the value stack computes: `Faithful`,
  `MemoryAgrees`, `PathsAgree` and `ArgumentsPassed` relate every entry to what an
  abstract machine computes along every path of the code emitted so far, so
  that proving them is proving the code generator correct for all expressions.
  `LazyOnlyOnTop` is false for some languages (section 4). Of `TypeOK` of
  `ValueStack`, `StackInductive` contains that both stacks have the same length
  and that open jumps are among those emitted; that entries, registers and
  memories hold words, and `MaxTemps`, are left to TLC;
- `MCAlgorithms`: `Macros` and `MacroReplacement` are recursive over token lists,
  and what the other algorithms compute is a fold over lists of arguments,
  members or cases: induction over such data is out of reach;
- `ValueAsC` and `ConstantsExtended`: they are about products, remainders and
  sign extension modulo `2^n` with a symbolic `n`, for which the provers have no
  arithmetic;
- `RunTimeAgrees`: it compares the result of a link with the look-ups of a
  dynamic linker that the model only assumes, over all orders of libraries.

## 6. Not modelled, and why

- In `CodeGen`: values of other types than one integer word (floats, structures,
  bit-fields; conversions and narrow types are in `Arithmetic`), `&`, `|` and
  `^`, which differ from `+` only in the folding table, `e ?: b`, indirect calls,
  and loops, labels and `return`. The order of evaluation of the two operands in
  `gv2` is the one that the x86-64 classes lead to. `VSTACK_SIZE` is not
  modelled: the check ends the compilation.
- Floating point: `gen_opif` lets the host compiler compute.
- In `Scopes`: types and attributes, but for what redeclarations test; the
  errors that they lead to are any `SyntaxError`. Sessions are checked without
  labels: `label_pop` frees labels before it reports an undefined one and leaves
  them on their stack, and neither the label stacks nor `local_scope` are reset
  after an error.
- In `Linking`: the search along library paths, `-rdynamic`, the output of
  shared and static libraries, the contents of sections and the arithmetic of
  relocations. `tcc -ar` is modelled as far as the index goes.
- In `Conditionals`: the search along include paths, directives without state,
  `push_macro`. An error in an included file leaves the files of the include
  stack open (`tccpp.c:3579`): the next string starts with a new stack on top of
  them, so that their memory and descriptors are lost, and nothing else.
- In `Macros`: white space, which only `-E` shows, `__LINE__` and its like.
- GOT and PLT, the output of sections and headers, `sort_syms`, initialisers
  with designators, `bcheck.c`: nothing in them depends on the order of events,
  and what they compute is best tested on examples.
- The inline assembler: encoding of instructions by tables; the allocation of
  operands is a search over constraints for which the sources give no promise.
- In-memory execution: two passes over the sections and calls of the system.
- The i386, ARM, ARM64, C67 and IL back ends implement the same interface as
  the x86-64 one. COFF, PE and the tools are file formats. The Chinese keywords
  are data: each is a second token that the parser tests beside the first.
- Half of the repository's lines are headers of other systems (`win32/include`)
  and constants (`elf.h`, the tables of opcodes): there is no behaviour in them.
