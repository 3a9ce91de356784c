# tildeathc in TLA+

tildeathc compiles RuleOfSix's ~ATH to x86-64 assembly. A program is a sequence of
*graves*: imports create objects, bifurcations hand out the two halves of an object,
deaths kill objects, and loops run while an object is alive. The compiler is a pipeline
(tokenize, parse, generate_il, validate_il, generate_assembly) driven by `tildeathc.c`,
which calls gcc; the compiled program calls a small runtime of reference-counted objects.

This directory holds TLA+ modules for the compiler's passes, its driver, the compiled program
and its runtime, the TLC configurations that check them, and theorems that TLAPS checks:
about the compiled program, the driver, library imports, the parser and the tokenizer.

## Inventory

| component | source | state | operations | modules |
|---|---|---|---|---|
| object runtime | `src/src/runtime/objects.c` | heap of objects with counts and halves, `progvars`, the C stack | `create_object`, `bifurcate`, `kill`, `free_object`, `allocate_progvars`, `print` | `Objects`, `Heap` |
| code generator | `src/src/codegen.c` | `var_table` of every scope, strings, emitted code | `process_node` and one `process_*` per kind of node, `declare_var` | `Codegen`, `Assembly`, `Graves` |
| intermediate language | `src/src/il.c` | the tree, ids, `can_import_library`, `lib_search_directories` | `convert_*`, `add_library` | `Libraries`, `Insertion`; the tree: `Codegen` |
| validator | `src/src/validate_il.c` | `varlist` of names and types | `validate_il_node` | `ValidateIL` |
| parser | `src/src/parse.c` | token position, the tree | one function per construct | `Parse`, `Language` |
| tokenizer | `src/src/tokenize.c` | line, position, tokens | `get_next_token` | `Tokenize` |
| driver | `src/src/tildeathc.c` | temporary files, child processes, signal handler | `main`, `unlink_asmfile`, `unlink_outfile` | `Driver` |
| registers | `src/src/registers.c` | `register_array` | `allocate_register`, `free_register` | not modelled |
| utilities | `src/src/util.c` | none | growing arrays, string copies | not modelled |
| number library | `src/lib/tildeathc/NUMBERS256.~ATH` | a ~ATH program | imports and bifurcations | not modelled |

How they interact. The tokenizer's list goes to the parser, the parser's tree to
`generate_il`, which runs tokenizer and parser again for every library import. The
validator checks the tree and code generation walks it; the two keep separate tables of
names that have to agree. The emitted code and the runtime share `progvars` (register
`%r12`) and the counts of the objects it points at: the code decides *when*
`free_object` is called, the runtime decides what that frees.

What is hard, and what makes each component correct:

- *Runtime*: references are counted by hand in two places (the runtime counts a half
  once for the object and once for each variable it is handed to; the emitted code gives
  counts back). No object is counted less often than it is referred to, none is used
  after it is freed, none is lost, and the tree of halves never changes but by killing.
- *Code generator*: one `var_table` is compiled along the text while the program runs
  along its loops. A slot released at the end of a scope, a name declared by a part that
  is not run, an EXECUTE compiled in the outer table: every name in scope must be bound.
  The code is generated along the tree and runs along its jumps: both must come to the same
  graves in the same order.
- *Intermediate language*: a library import becomes the library, found where the language
  says, whatever libraries import themselves; imports in a circle end.
- *Validator*: whatever it accepts, codegen finds the names of and the runtime no universe;
  what codegen can compile is not rejected.
- *Parser*: it accepts the grammar, stays within the tokens, and gives every node the
  children that the later passes take by number.
- *Tokenizer*: line by line, with its look ahead, it finds the tokens of the text, and makes
  strings that the assembler reads as they were meant.
- *Driver*: temporary files are gone when the compiler is, whatever fails or interrupts it.

## Modules

`Objects` is the runtime. `heap` maps the addresses malloc has given out to objects,
`progvars` is the array of variables, `calls` the C stack inside the runtime: the
recursion of `free_object` makes one step per call, so the states in the middle of a
cascade are states of the model and `malloc` could hand out memory in any of them.
`status` says how the process ended: `"exited"`, `"failed"` (an error message),
`"segv"` (a null pointer), `"undefined"` (memory that was freed). The ghost `owned`
holds the slots whose pointer counts as a reference. `create_object`, `bifurcate`,
`kill` and `free_slot` take the slot the emitted code calls them for. `heap[p].right` is
read when the calls are pushed rather than after the left release has returned; halves
never point upwards, so nothing in that release can change it.

`Graves` (EXTENDS `Objects`) is the emitted code. The program is not fixed: whenever the
instructions of one grave are done, any grave the language allows there comes next, so
a behaviour is the path of some program, and all programs are explored at once. What
codegen knows at a place of the text is state: `visible` is the length of its `var_table`
(name n lives in slot n - 1), `scopes` the open blocks with the lengths of their tables.
`process_import`, `process_bif`, `process_die`, `process_this_die` emit (`code`) what the
functions of these names print; `ExecFree`, `ExecKill`, `ExecCreate`, `ExecSplit` run it.
`Enter`, `Skip`, `Repeat`, `EndBody`, `EndBlock` are the tests, the jump and the scope
handling of `process_if`, `process_jmp` and `process_block` on the tree that
`convert_loop_node` builds. PRINT and EXECUTE(NULL) change no state: `EndBlock` with
nothing executed stands for them.

Some programs make the emitted code misbehave. Each kind of place has a name in
`HazardousShapes`, the constant `Shapes` says which the program may contain, and the guard
on `Shapes` in an action marks the place. Three `UnsafeShapes` are described under
Findings; the fourth, `universe`, is what the validator is there to reject. `LeakyShapes` only forget
objects without releasing them.

`Heap` is what runtime and emitted code do together, as a program can see it: objects that
variables refer to, no counts, no C stack. An object has the same halves from the first
bifurcation until it is killed, a death takes effect at once, and an object goes only when
nothing refers to it. It is the program's behaviour and not the text of the repository's README,
which under "Deaths" lets the halves of a killed object die with it: in `Heap` as in
`objects.c` they stay as they are. That difference has a property, `KillReachesHalves`, and a run,
`halves_die`, that shows it violated.
`Graves` implements it: `ImplementsHeap` is `H!Spec` under the mapping at the end of
`Graves`. An object is there until its `free` is under way; one whose `kill` has given
back its halves and not yet unlinked them has lost them already (`UnderWay`, `HalfOf`), so
that the kill happens at its call; a variable refers to something while its slot is owned.

`Codegen` is the tree of `il.c` and `generate_assembly` as operators: the same functions as
in the code, each adding lines to the assembly, with the `var_table` as a sequence of names
and the ids that labels are made of. `ValidateIL` (EXTENDS `Codegen`) is the validator: a
`varlist` is a function from names to types, `Visit` the first pass over the children of a
node and `ValidateChildren` the delayed second. Its state is a program that is written grave
by grave. `Assembly` (EXTENDS `ValidateIL`) compiles a program that is accepted and runs
it: `pc` and `slots` are the machine, `todo` and `env` follow the source, with names and
scopes in place of slots and labels. Every test of a loop finds alive or dead as it likes.
Where `Graves` leaves open which program runs and follows the objects, `Assembly` takes
every small program and follows its jumps and names.

`Libraries` is `generate_il` and `add_library`: `activations` is the stack of calls of
`generate_il`, `sought` the library that fopen is tried for. Which files there are is decided
when they are looked for (`disk`). `Insertion` (EXTENDS `Libraries`) says which program the
imports stand for.

`Parse` is the recursive descent as a stack of symbols, one step per test of a token or of the
bounds. `Language` (EXTENDS `Parse`) is the grammar, and the text of a tree. `Tokenize` takes
one call of `get_next_token` as a step: `text` is the file, `instr` the place of the pointer
of that name in it, `eol` the end of the line that getline gave. `Start` is what comes after
the space, `StringEnd` and `WordEnd` where the look-ahead stops, `Copy` the loop that writes a
string's token. What the tokenizer is compared with are two scanners that read the file once
and one character at a time. `NameScans[i]` is the state after i characters of the one that
knows what a name is in the language: a literal of letters is a token only where it is the
whole word, and at a word that begins with one and goes on (`EXECUTEX`) the scanner stops, in
the mode `"name"`. `Named` is what it ends with. `Scans` takes such a literal wherever the
tokenizer does; it goes through the whole file and is what the invariant of the proofs speaks
of.

`Insertion` and `Language` are modules of their own because they hold the RECURSIVE
operators, which a module with proofs must not reach. Each `MC` module instantiates the
module of its name (`MCLibraries` and `MCParse` with `Insertion` and `Language`) for TLC.
`Driver` is described in its own section.

The proofs: `ObjectsProofs` (types, then counts and references, of each operation of the
runtime), `GravesProofs` (the generated code), `HeapProofs` (deaths, halves, the
refinement of `Heap`) and `LeakProofs` build on each other in this order. `DriverProofs`,
`LibrariesProofs`, `ParseProofs` and `TokenizeProofs` each extend the module of their name.

## Runs of `Graves`

| run | properties | what it shows |
|---|---|---|
| `clean` | `NoLeak`, `RefsCounted`, `LeakInv`, `Defined`, `HalvesFixed`, `ImplementsHeap` | no shape, abstract and input objects, three variables (so that an object can be bifurcated again, and killed while others refer to its halves), five addresses: nothing is used after it is freed, lost or counted too low, halves never change, counting is as good as `Heap`, and the invariant that implies `NoLeak` holds |
| `leaky` | `VariablesBound`, `GravesInv`, `ImplementsHeap`, `GraveCompletes` | leaky shapes, universes, two nested loops: still no undefined behaviour (`Defined` is part of `GravesInv`); the invariant of the proofs; every call into the runtime ends, under fairness |
| `hazards` | `TypeOK`, `DeathByKill` | every shape: nothing is revived, and what dies descends from what is being killed |
| `halves_die` | `KillReachesHalves` is violated | finding |
| `same_halves` | `Defined` is violated | finding |

Bounds. `Addr` is the memory: when it is used up malloc fails and the program ends, so every
run also meets a failing malloc. Three addresses hold an object and its halves, five an
object, its halves and the halves of one of them, which is what a cascade through two levels
needs. `clean` imports inputs of the one text whose left half is dead (`OneText`), whose
right half has no text left. `InputsAlone`, a CONSTRAINT, does not follow a program that has
an input object while it is in a loop or has live objects of another type: inputs and live
abstract objects share nothing but memory and variables, and each kind is explored by itself
and with the dead abstract halves of inputs. `MaxDepth = 2` nests a loop in a body or an
EXECUTE. `MaxDie` bounds the list of a `.DIE()`; in `leaky` it has two names, which can name
one object twice or an object and its half. `MaxRefcount` bounds the references to one half
(2^31 - 1 in the code): with two or three variables and the object's own count, three is
reached only by handing a half out twice. `NumVars` mirrors `get_var_table`, which counts
every name declared anywhere: a name is declared only while a slot is left. The addresses
are symmetric (no action compares them), so the runs of safety use `SYMMETRY`; `leaky`,
which checks liveness, does not. Deadlock is checked: a program can always take another
grave, and one that has ended stutters in `Terminated`.

Fairness. `WF(RunRuntime)` and `WF(ExecFree \/ ExecKill \/ ExecSplit)`: a single-threaded
process that is running goes on running. Graves get no fairness, because which one comes is
the choice of the program, and neither does `ExecCreate`, where the process may wait for its
user.

## Runs of the compiler's passes

| run | properties | what it shows |
|---|---|---|
| `compile` | `NoFalseRejection`, `NamesFound`, `UniversesSafe` | validator and code generator agree on names but for two shapes of loops, and universes are kept from bifurcation and death unless a name is sometimes a universe |
| | `FollowsSource`, `LabelsUnique`, `SlotsAllocated` | the assembly of an accepted program does what the source says, on the objects its names refer to; labels are unique over all libraries; the array of variables is long enough |
| `scope` | `HandlesScope` is violated | finding |
| `libraries` | `Inserts`, `LibrariesSilent`, `MissingOnly`, `LibrariesInv`, `Ends` | an import becomes the graves of the file it stands for; circles of imports end, under fairness, because the process runs out of files |
| `include_dirs` | `SearchesDirectories` is violated | finding |
| `parse` | `Verdict`, `TreeReadsBack`, `ReadsBeyondOnly`, `ParseInv` | the parser against the grammar, its tree against the text, and where it tests the bounds |
| `tokenize` | `ScansOnce`, `StringsEscaped`, `TokenizeInv` | the tokenizer against the language's scanner, up to a name that begins like a literal; what the assembler finds in its strings; the invariant of the proofs |

Bounds.

- `compile`: five graves (a loop and its EXECUTE count one each) on two names are an outer
  variable, a loop, a name of its body, one of its EXECUTE in the same slot, and a use
  after the loop; `MaxDepth = 2` nests a loop in a body or a library's loop. The names are symmetric.
  The writer stops at `MaxGraves`, so deadlock is not checked. Programs with universes are
  validated and not run: the type of an object does not change the code. A name that only an
  EXECUTE that was not run has declared refers to nothing in the source, and what its slot
  holds is not compared. Bodies of an unlimited number of turns are covered: a turn that
  brings nothing new leads to a state seen before.
- `libraries`: two libraries that may import each other or themselves, two include
  directories besides the current one, programs of three graves, texts of two, three open files: one
  for each library and one more for an import in a circle.
- `parse`: 21 tokens are a loop with a grave in its body, its EXECUTE and `THIS.DIE();`. Longer files
  are made by the same rules.
- `tokenize`: five characters hold a string with an escape, or a word, a literal and a comment on two
  lines; one character stands for all of its kind. `MaxTokens` is the memory, which
  empty tokens fill, and so do four tokens of one character. The tokenizer stops at the end of the file: deadlock is not checked. A NUL
  in the file is not modelled.

`FollowsSource` compares with a run of the source, `Verdict` with `Grammar`, `ScansOnce` with
`Named`, `Inserts` with `Inserted`: definitions of what the language is, written without the
order in which the code does things.

Fairness. `Libraries` has `WF(Step)`: the compiler is one process that nothing stops.

## Driver

`Driver` is `main` of `tildeathc.c` with the two processes it forks. `pc` is the place in
`main`, `args` what getopt has still to return, `flags` and `output_filename` the variables
of these names; `files` gives every file its content (`asm_temp` is the file of mkstemps,
`run_temp` the one of mkstemp under `-r`, `output` that of `-o`, or `a.out` or `a.s`).
`handler` is what SIGINT does to the driver; a forked child inherits it until execlp. `Interrupt` is
a Ctrl-C of the user: the terminal signals the driver and its child, and each delivers
(`DeliverToDriver`, `DeliverToChild`) before it does anything else, in either order. The
handlers return, so an interrupted driver goes on and `waitpid` is restarted (the semantics
`signal` has in glibc). gcc and the compiled program are external: gcc succeeds only when
the whole assembly is at `asm_filename`, may fail for reasons of its own, and may
remove its output then. `Faults` says what may go wrong; waitpid can fail for a child that has
ended, where the driver inherited SIGCHLD as ignored.

| run | properties | what it shows |
|---|---|---|
| `interrupted` | `TypeOK`, `DriverInv`, `AsmRemoved`, `NoOrphan`, `SuccessMeansOutput`, `SuccessMeansRun`, `KeepsOutput`, `RunTempRemoved`, `Ends` | fifteen command lines, every fault, two Ctrl-C, fairness |

`SuccessMeansOutput` is about a driver that was not interrupted: a Ctrl-C after gcc has
succeeded removes the output, and the driver still reports success. `KeepsOutput` makes an
exception of `-r -o`, which writes the output file.

Bounds. The command lines hold every option, and `-r` before and after what it should
ignore. A second `-r` would make a second file and forget the name of the first
(`tildeathc.c:48-51`); `DriverAssumption` leaves it out, for the theorems too. Two Ctrl-C meet two different
handlers, or the same one twice. A malloc that fails inside `generate_assembly` ends the
process there and leaves the assembly: that end, `no_memory`, is not one of those
`AsmRemoved` speaks of, and neither is `killed`, a SIGINT before there is a handler.

Fairness. Weak fairness of `main`'s steps, of both children up to the end of gcc, and of
signal delivery: the kernel schedules runnable processes. gcc is assumed to end. The
compiled program may loop for ever, so `ProgramEnds` is not fair and `Ends` stops there.

## Proofs

The theorems hold for every value of the constants that satisfies the named assumption of
the module (`ObjectsAssumption` and `GravesAssumption` for the compiled program). None of
them is about a bounded instance: `Addr` may be any finite set, `NumVars`, `MaxDepth`,
`MaxDie`, `MaxRefcount`, `MaxOpen`, `MaxText`, `MaxTokens` and `MaxInterrupts` any number.

### The compiled program

| theorems | programs |
|---|---|
| `TypeCorrect`, `DeathOnlyByKill`, `HalvesAreFixed` | any `Shapes` |
| `GravesInvariant`, `NeverUndefined`, `CountsCoverReferences`, `NamesAreBound`, `HeapIsImplemented` | no `UnsafeShapes` |
| `CountsAreExact`, `NothingLeaks` | `Shapes = {}` |

The findings show that each of the `UnsafeShapes` breaks `GravesInv`, and a leaky shape is one
that breaks `NoLeak`.

*Counts.* `RefsCounted` compares the count of an object with a *set* of references
(pairs of a kind and a holder) and not with a sum, so a step is shown to keep it by mapping
the references after the step into those before, minus the one given up or plus the one made.
`ObjectsProofs` has one lemma per runtime operation for that. Alone it is not inductive:
`free` must free an object whose count is used up, and once; `unlink` must find the object
it was called for. These are `FreesUnique` and `KillsHeld`, and with `OwnedStored` (a slot
counted as a reference was stored to) they make `RuntimeInv`, which every operation of the
runtime keeps when it is called on a slot that is owned.

That the emitted code only does so is the second half, `GravesProofs`. `CodeInv` says what
the instructions still to be run have: what they use is owned and not released before,
stores come last, and every name in the table is bound now or by the rest of the
instructions. `TablesNested` says that what a block will release is in no table around
it, and `LocalsOwned` that it is still there. `GravesInv` puts these together; the run
`leaky` checks it, and the proof has one lemma per action.

*Deaths and halves.* `DeathByKill` and `HalvesFixed` are action properties. `DeathByKill` says
where a death may come from, an object that is being killed and is the one that dies or has it
among its halves' halves (`Family`), and leaves open how far down it goes, so that it is true of
the code and would be of the README's deaths. The step that
needs an invariant is the `unlink` at the end of a kill: that the object it takes the halves
from is dead already is `KilledDead`, which holds for any `Shapes`.

*Refinement.* The initial state is one of `Heap`, and under `GravesInv` every step is a step
of `Heap` or a stutter. The call of `kill` is `Heap`'s kill, the rest of it (giving back and
unlinking the halves) is hidden by `HalfOf`; a `free` under way is the object's removal, and
that nothing refers to it then is `RefsCounted`.

*Leaks.* `LeakInv` bounds the counts from the other side: `CountsReferred` (no count exceeds the
references there are), `CountlessFreed` (an object without count is about to be freed) and
`NothingForgotten` (a slot that counts as a reference has its name in scope, or its release
is still to be run). `NoLeak` says that every object can be reached from a variable, as a statement
about sets, without induction over data: no smaller set than all objects has those of the variables
and the halves of its members. `HalvesAcyclic` is of the same kind: of any set of
objects, one is the half of no other in the set. Take the objects outside a set that has
the variables' objects and is closed under halves; the one that is nobody's half there would
have a count without a reference. `StoresToFree`
says that no store overwrites a reference.

### The driver

For all command lines with at most one `-r`, faults and numbers of interrupts: `DriverInvariant`, and from it
`DriverTypeCorrect`, `TemporaryAssemblyRemoved`, `ChildrenWaitedFor`, `OutputIsMade`,
`ProgramIsRun`, and the action properties `OutputIsKept` and `RunTempIsRemoved`. `DriverInv` says
what the place in `main` implies for everything else: which options have been read
(`OptionsRead`), which handler is installed and which child there can be (`ChildInStep`),
which files there are (`FilesInStep`), and, without an interrupt, that what gcc reported it
made is there (`OutputMade`). An interrupt delivered between any two steps has to keep it.

### Library imports

`LibrariesInvariant` and `MissingOnlyIfMissing`, for all programs, texts, directories and numbers
of open files. `SearchInOrder` is what `MissingOnly` needs: a directory that is no longer to be
tried has been looked in. `LibrariesQuiet` is `LibrariesSilent` without its recursion: what a
library is converted to neither prints nor reads, and neither do the children of a library
node. As every node of a library was in the output of its call of `generate_il`, it covers
all depths.

### The parser

`ParseInvariant` and `ReadsBeyondOnlyThere`, for files of every length. `ParseInv` is about the
stack of symbols: each symbol that looks at a token stands behind a test of the bounds
(`Guarded`) or behind one of the symbols that have none, and these are only where the grammar
puts them: the name of a loop or of what dies (`NamesPlaced`), the graves of a body
(`BodiesPlaced`). `AfterStart`, `AfterGrave` and `GravesLeft` say what has been read, or
what will be, by the time they come. A step either does the head of the stack (`Pop`),
opens a node (`OpenKeeps`) or puts a rule in the place of a decision (`ReplaceKeeps`), for
which each of the fourteen rules is shown to fit.

### The tokenizer

`TokenizeInvariant`, and from it `TextIsScannedOnce` and `StringsAreEscaped`, for files of every
length and any memory. The tokenizer and the scanner meet only between two calls of
`get_next_token`: `ScannerAgrees` says where the scanner is when it comes to `instr`. It is in code,
or at the end of a line in a comment; it has found the same tokens, counting the word under way,
and no word goes on at `instr`; only at a `.` that is no `.DIE` may the tokenizer have found more,
empty, tokens. `InLine` is what makes a line a line. Each kind of token is a lemma (`LiteralKeeps`,
`StringKeeps`, `WordKeeps`): the scanner is followed from `instr` over the space
(`PassSpaces`), the word, string or comment (`PassWord`, `PassString`, `PassComment`) to where
`instr` is next. What the scanner has found later begins with what it has found before
(`FoundGrows`), which is what a full memory needs, and after an error it stays as it is.

These lemmas are inductions along the text. They need no induction theorem with an operator
for a parameter: `SetInduction` is about a *set* of numbers and follows from the fact that `<`
on the naturals is well founded, `Upwards` and `Downwards` are the same for intervals. That
the recursive functions `Scans` and `Copy` satisfy their definitions is proved first
(`ScansDef`, `CopyDef`), by building the function one place longer in each step. `Copy` is
built from the end of the string: a place takes what the next place, or the one behind it, has
given. For `StringsEscaped`, `Closed` is what holds of the copy from any place of the string
on: a character, an escape or a pair of backslashes before a closed sequence makes a closed
sequence. `ScansOnce` compares with the other scanner. The invariant gives what holds of
`Scans` at the end (`EndAgrees`, `EndIsScannedOnce`), and `NameFollows` says how the two
scanners go along a text: they are the same until the language's stops at a name, and from
there on what it has found is the beginning of what the other finds (`SameGoesOn`,
`LiteralGoesOn`, `NamedIs`).

### Model-checked only

- Liveness: `GraveCompletes`, and `Ends` of the driver and of library imports.
- What follows a tree or a program however deep it is, and is therefore defined by RECURSIVE
  operators: `Inserts`, `LibrariesSilent`, `Verdict`, `TreeReadsBack`, and the properties of
  `ValidateIL` and `Assembly`, which are about the trees of `Codegen`.

## Findings

- `bifurcate S[H, H]` releases the old object of `H` twice (`same_halves`, `codegen.c:192`).
- A program is accepted whose loop uses a name that is declared only after the loop, or
  only in the scope around a loop that is an EXECUTE; its code reads from an address
  before the variables (`scope`, `validate_il.c:129`).
- After the first library has been read, the include directories are no longer searched
  (`include_dirs`, `il.c:37`).
- Killing an object does not kill its halves, which other variables may refer to and find alive.
  The repository's README says under "Deaths" that both halves become dead, "and both of the
  halves' halves" (`halves_die`, `objects.c:121`).

The models also contain these, without a run of their own. In the compiled program:

- A loop inside the EXECUTE of a loop with locals takes over the slots of these locals,
  which are then released twice; a variable declared by an EXECUTE that is skipped is null
  afterwards. `Defined` fails in the runs above when `Shapes` holds `loop_in_execute` or
  `execute_skipped`.
- Killing a dead object can have an effect (README "Deaths" says it has none): the dead half of an
  input has halves, which `kill` takes away.
- Bifurcating an input without text ends the program (`EmptyInput`; README "Bifurcations").

In the passes:

- A name that begins with `EXECUTE`, `PRINT`, `bifurcate` or `import` is cut in two by the
  tokenizer: `ScansOnce` compares only what stands before the first such name. A `.` that does not
  begin `.DIE` makes it fill the memory with empty tokens, the one end for which `ScansOnce`
  lets the tokenizer have more tokens than the text.
- A file that ends between the graves of a body, or after the name of a loop or of an
  object that dies, makes the parser read beyond its tokens; a file without tokens, before them.
- A bifurcation of an unknown name reads `type_list[-1]` before the program is rejected
  (`validate_il.c:65`).
- The streams of libraries are never closed. A label has room for six digits of an id
  (`codegen.c:356`): in a program with more nodes labels collide. `LabelsUnique` is about ids.

In the driver:

- `-r -S` and `-r -e` do not run the program, which the usage text does not say.
- The file mkstemp made for `-r` stays after a syntax error, a wrong option or a fork that
  fails. After `-r` its name is freed before it is unlinked (`UnlinkFreed`), so that it may
  stay then too. `RunTempRemoved` names these ends.
- `-r -o` writes the output file, which the usage text says is ignored, and passes the name,
  which is not memory of malloc, to `free` (`FreeOutput`).
- A SIGINT between mkstemps and `signal` leaves the temporary assembly.
- `fclose` of the assembly is not checked.

The leaky shapes are not findings: no document promises that memory is given back. `NoLeak` and
`LeakInv` are stated for the programs without them.

## Not modelled

`registers.c`: at most two registers are taken at once and given back in the same function.
`util.c`: string copies and growing arrays. The number library is a program of the kind
`Graves` explores. Of the modelled passes: line numbers and the wording of messages, NULL
arguments that no caller passes, `free_ast`, `free_il_tree` and `free_token_list`, the text
of the instructions. `print` writes and changes no state. In `Graves`, the validator's static rule on universes is
the dynamic guard `NotUniverse`; which programs escape the rule is `UniversesSafe`. Which
characters of standard input an `import input` finds, after another one has stopped at a
character that is neither 0 nor 1, is left open: `Texts` are chosen per import.

## Plan

1. Proofs: the names of `ValidateIL` and `Codegen`, if their walk over the tree can be stated as
   steps over a stack, as in `Parse`, or as recursive functions over a set of trees, as in
   `Tokenize` over the places of a text.
2. `Input`: standard input shared by several input imports.
