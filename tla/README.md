# Verification of the Quazi toolchain

Quazi (`qz`) is an ahead-of-time compiler for the Quazi language, with a package
manager, an incremental build cache and a language server, written in Rust
(`src/src`). This directory holds TLA+ models of its parts, TLC runs over small
instances, and TLAPS proofs. `PROJECT.json` lists the parts, the runs, the hazards
each run is aimed at, and the source lines each definition models.

Contents: [the system](#the-system), [modules](#modules), [runs](#runs),
[proofs](#proofs), [what is left out](#what-is-left-out), [findings](#findings),
[plan](#plan).

## The system

A build reads the project file and its lockfile, materialises packages, loads the
root source and everything it imports, parses, declares, type checks and borrow
checks it, generates QZB bytecode, runs whole-program passes over it, encodes x86-64,
and links. The incremental cache (QZC) can replace all of it, or the generation of
functions whose sources did not change. The language server runs the same front end
on open documents. A build is one thread; builds of several terminals, the editor and
the user's edits run beside it and meet in files.

| part | state | operations | interacts with |
|---|---|---|---|
| language server core (`lsp/server.rs`, `document.rs`, `workspace.rs`, `cancel.rs`) | open documents with version and report, workspace index, two async locks, cancellation generations | open, change, save, close, requests, analyses on a blocking pool | editor (ordered messages, diagnostics), files, front end |
| language server features (`lsp/*.rs`, `analysis.rs`) | none: read a snapshot | definition, references, rename, hover, completion, ... | documents and index under the locks of the core |
| incremental cache (`incremental.rs`) | one entry per root: inputs with hashes, artifact, per-source units | look up, reuse units, store through a temporary file and a backup | driver, files, other builds |
| driver (`main.rs`, `cli.rs`, `progress.rs`) | none | the pipeline of a command | every part |
| packages and lockfile (`package.rs`, `project.rs`) | package cache on disk, manifest, lockfile | materialise url, git, archive, file, QZI; add, remove; lock | files, git, network, other builds |
| module loader (`loader.rs`) | modules loaded so far, import resolution | resolve, load, detect cycles | files, cache inputs |
| lexer, parser, formatter | none | text to syntax tree and back | loader, language server |
| declarations and type checking (`semantic/*.rs`) | symbol tables, types by span | collect, resolve, check, specialise | code generation, language server |
| borrow checker (`semantic/borrow.rs`) | variables moved on each path | walk of a function | type checking |
| semantic optimizations (`semantic/optimize.rs`, `unused.rs`) | constants, call counts | fold, inline candidates, warnings | code generation |
| bytecode code generation (`bytecode/codegen.rs`) | function table, chunk under construction, registers, drop scopes | lower, restore units, inline, eliminate, renumber | cache, optimizer, encoder |
| constant propagation (`bytecode/constprop.rs`) | register facts per block | dataflow, fold | code generation |
| register allocation (`bytecode/regalloc.rs`) | intervals, slots | eliminate, compact, scan | code generation, encoder |
| QZB chunks and QZI linking (`bytecode/chunk.rs`, `interface.rs`) | chunks, symbols | serialise, validate, link, qualify | packages, code generation |
| x86-64 back end, runtime support, linkers (`backend/`) | code and relocations | encode, place, resolve | chunks |
| test runner (`test_runner.rs`) | results | one harness per test, run, time out | chunks, processes |
| documentation and headers (`docs.rs`, `header.rs`) | none | text from a program | front end |

What is hard here: handlers of one document that overlap at every `await`; analyses
that end after the text changed; two locks taken in an order; a cache entry that is
used long after it was checked, rewritten by builds that do not know of each other, and
killed at any point; files edited during a build; indices and addresses stored by one
build and used in another whose function table differs; and passes that move, drop and
renumber code whose jumps, calls and slots refer to positions.

What makes each part correct, in a sentence: the server answers for the text the editor
has, and in the end diagnoses that text; a build through the cache emits what a full
build would; a lock holds what was resolved, and pins are kept; every call in a program
reaches the function it was written for, from whatever library; files are loaded behind
what they import and never past a gateway that hides them; text is read with the
structure it was written with; an expression has the type the checker gives it and its
code computes what it means; a moved value is never used and an owned one is destroyed
once; a match takes its first matching arm; a function does after all passes what its
statements say; and the machine code of each opcode, call and routine does the same and
keeps to the calling convention.

## Modules

| module | models | state |
|---|---|---|
| `RwLock` | the fair read-write lock of the async runtime | holders, queue |
| `LspServer` | `lsp/server.rs`, `document.rs`, `workspace.rs` | `docs`, `index`, `docLock`, `wsLock`, `tasks`, `shown`, `disk` |
| `LspSession` | editor and transport around `LspServer` | editor buffers, inbox, budget |
| `Project` | what the files of a project mean, shared by the next two | - |
| `FullBuild` | abstract specification: a build without a cache | `disk`, `result` |
| `QzcCache` | `incremental.rs` and the build around it, several processes | `disk`, `main`, `backup`, `build`, histories |
| `Packages` | `package.rs`, `project.rs`: dependencies, lockfile, shared package cache | `manifest`, `lock`, `remote`, `clone`, `file`, `job` |
| `FunctionTable` | function indices in `codegen.rs` through all passes and rebuilds | program, index, chunks, units |
| `Loader` | `loader.rs`: what an import names, the order of files | - |
| `QziModules` | `chunk.rs`: library files, and their linking | - |
| `Borrow` | `semantic/borrow.rs` over the body of a function | - |
| `DropScopes` | where `codegen.rs` destroys owned locals, and the run of that code | - |
| `Ownership` | the two together, on every path of a function | `fn`, `stage`, `run` |
| `Matching` | matches: checks of `typecheck.rs`, code of `codegen.rs`, its run | - |
| `TypeRules`, `TypeCheck` | `typecheck.rs`, `optimize.rs`: expressions, their types and known values | - |
| `ExprCode` | `codegen.rs`: what the code of an expression does | - |
| `ExprMeaning` | reference: what an expression means | - |
| `Bytecode` | instructions (`regalloc.rs`, `codegen.rs`) and what the encoder makes of them | - |
| `ConstProp`, `RegAlloc` | `constprop.rs`, `regalloc.rs` | - |
| `ProgramMeaning` | reference: what a program means, without registers or jumps | - |
| `FnCompiler` | lowering of one function and the order of the passes | `program`, `next`, `fc`, `chunk`, `expected`, `phase` |
| `Parser` | `parser/mod.rs`, `parser/items.rs`: from tokens to trees | - |
| `X86` | the part of the processor and of the kernel that the routines rely on | - |
| `Encoder`, `Texts`, `Intrinsics` | `encoder.rs`, `sysv_abi.rs`, `abi.rs`: the code of calls, opcodes, conversions to text, intrinsics and child processes | - |
| `StartStub` | `start.rs`, `runtime.rs`: entry points and crash handlers | - |
| `Routines` | all of this code, one routine at a time | - |
| `Machine` | its execution, an instruction a step, with what it calls (external: functions of C and Windows, the kernel) | `code`, registers, memory, `log` |
| `Meaning` | reference: what each routine is for | - |
| `BuildCases`, `TypeCases`, `MC...` | constants and inputs of the runs | the part at work |
| `..._proofs` | theorems of the module they are named after | |

`MCBuild` puts the parts of a build side by side, `MCMachine` the parser and the machine:
each behaviour is one part at work while the others rest.

**Language server.** A handler is a future in a slot. Everything between two points
where it can be suspended is one action: acquiring a lock, joining a blocking task,
flushing a notification under a guard. Publishing diagnostics queues them at once, so
`did_close` removes a document and clears its diagnostics in one step, while the flush
that follows with the guard held is another. Handlers start in the order of messages,
at most as many as there are slots, and then interleave freely; `Window` bounds how many
may be started out of order. A request may be cancelled wherever it is suspended, which
drops its guards. A text stands for everything the front end says of it: it is fine,
does not parse, or makes the analysis panic.

**Incremental cache.** One access to one file is one step, except that a test for a file
and the removal or renaming after it are one step: `StoreFails` stands for losing that
race. Hashes are injective. A build that is killed stops between any two steps. Files in
`Racing` may be edited during a build, the others only between builds, because the
manifest and packages are hashed when the entry is stored and not when they are read.
Units are kept per source rather than per function. `FullBuild` has the same files and
builds and no cache; its builds read what is on disk. `QzcCache` implements it under the
mapping that forgets everything but each build's outcome (`BuildsInFull`).

**Packages.** One git command or one access to a file is one step, and writing a text is
two: it is emptied, then filled. Commits and contents are numbers that grow as they are
published; a checksum is the content. `job` holds what a process has read: the lock it
began with, the manifest, what it has resolved so far and, for `qz add` and `qz remove`,
the texts to put back. Package declarations are flat: the resolution of a package's own
dependencies repeats these steps. A git command is atomic, that is, a kill does not leave
a repository half checked out. `alone` (a history) says that no other process ran beside
a command, and that nobody touched its texts meanwhile.

**Function table.** A program is a set of functions whose bodies keep only what refers
to other functions: calls, functions used as values, callbacks handed to C, closures and
tables of methods. Generation, restoring of units, capture, inlining, elimination of
unreachable chunks, renumbering and compaction follow the order of `compile_program`,
then the program is edited and built again from the stored units. Each call carries a
ghost field saying what it was written for, which no guard reads.

**Optimizer.** `FnCompiler` lowers a function statement by statement, one action for each
kind of statement, with jumps patched as the code patches them, then takes the chunk
through inlining, constant propagation, elimination and register allocation. After each
of these a chunk is a program that `Bytecode` can run: slots, flags, pending argument
registers, and calls whose answers come from the environment, so what a function does
is what its callees see. Several opcodes that differ only in what they compute are one
("Add", "Div", "Inc", "Mov", "MovI"), and one condition of comparisons stands for all.

**Ownership.** A function body keeps what concerns owners, references and function owners.
`Borrow` is the checker's walk over it, `DropScopes` the destruction code the generator
emits for it (scopes, flags, early exits), `Ownership` runs that code with open conditions:
every branch is taken both ways, at most `MaxRounds` conditions come out true. The
generator keeps one flag per local for the whole function, so what it does is right only
where no path changes which locals are owners (`Neutral`, followed along the text). The
properties are about such functions, and `OwnAlive` about one that is not.

**Matches.** A pattern is a wildcard, a name, a literal or a variant with patterns; values
are booleans and enums of enums. The check for exhaustiveness, the tests in the order the
code emits them and their run are three operators, compared with the first arm that
matches. Guards that test register 0 instead of the guard, and refutable payloads counted
as covering, are left out of the inputs (see Findings).

**Expressions.** `TypeCheck` gives an expression back as a tree of what the compiler will know
of each part; `ExprCode` is what its code then does to variables (registers) and the heap;
`ExprMeaning` is what the expression means, from left to right, without either.
`CodeComputesMeaning` compares the two in three states of the variables, after `Firm`: a named
list of rules under which the checker accepts what the compiler handles differently. Each
conjunct of `FirmHere` is one such place, found by running without it:
operators on types that are merely compatible (int with bool, float with int, aggregates);
operands held as the variable's own register while a later operand writes it (`n + n++`);
parts whose value is known and whose effect is dropped with them; structure fields computed
in declaration order; the value computed before the target of an assignment to a field or
through a reference; an index read again after its guard (`a[n] = n++`, `codegen.rs:5878`);
assignments not compared with the field's type; integers where floats and structures where
trait objects are expected; arguments of functions of a type, which are not compared at all;
`*s` of a string; `(i)++` and `a[i]++`, which give the new value.

**Loader.** A tree maps paths to imports and public names. Resolution of an import,
gateways (`mod.qz`) and what they export, packages, and the order of `collect` with
cycles are operators; the answer for a tree is one step.

**Libraries.** A file is a sequence of words; `QziModules` writes and reads each format and
refuses what the code refuses. It also merges, qualifies under an import name, relocates
and links. Names are sequences of parts, so that qualifying is what it is in the code.

**Parser.** Recursive descent as in the code, one operator per function, each returning the
node and where it stopped. `MCMachine` writes trees as the tokens of the documented syntax,
with the parentheses the grammar of the code needs, and `ParsesAsWritten` reads them back:
every kind of expression, statement, pattern, type and item with a small expression in each
place, and every operator beside every other.

**Machine.** `Encoder`, `Texts`, `Intrinsics` and `StartStub` give the
instructions the back end emits for a routine, `X86` what an instruction does, to symbolic
values where the program does not compute with them. `Machine` runs one routine, an
instruction a step, with what it calls outside the compiled code: a callee may change whatever its
convention allows, writes where its pointers lead, and gives one of a few results; a system
call may be interrupted. `Meaning` says what the routine is for. A routine known to break
the convention is named in `MCExcused`, with what it breaks: on Linux the entry point with
arguments calls with a misaligned stack; on Windows the entry points keep words where callees may
write, `process_try_wait` calls misaligned, `process_terminate` leaves no room for its callee,
`cpuid` loses `rbx` and `aload2` `rdi`; adapters for C lose `xmm15`.

## Runs

Counts are distinct states. Each property has a broken form of one definition under
which TLC finds it violated (PROJECT.json "mutants", marked `Mutant` in the modules).

| run | states | what it shows |
|---|---|---|
| `LspSession` | 821,846 | one document opened, changed, saved, closed and reopened: a report belongs to its text, the server's text is the editor's, diagnostics are never those of an older text than shown, and settle; the index takes only saved texts of the open generation |
| `LspRequests` | 944,582 | two documents that load each other: an answer is about the texts the editor had when it was computed; versions only grow |
| `LspLive` | 264,428 | no cycle of handlers waiting for locks, guards are held by exactly the handlers that think so, and an editor that stops gets diagnostics of its last text |
| `LspStaleIndex` | violation | see Findings |
| `Qzc` | 346,190 | two builders, three builds, two edits of sources, declarations, settings and a dependency, kills and failures: every build emits what a full build would; artifacts mix no declarations; an exact hit is for the configuration of the day; entries survive |
| `QzcRoute` | violation | see Findings |
| `Build` | 743,292 | the parts of a build, one at a time. Function table: calls reach what they were written for; a build from stored functions is the full build. Packages: what a command alone resolves is in the lock, agrees with the pins it found, and is what its sources are, after any kills, failures, edits and interleavings before it. Ownership: owners are destroyed once, accepted uses are live. Matches, loading, libraries and expressions as above |
| `FnCallback`, `OwnAlive` | violations | see Findings |
| `Optimizer` | 28,680 | 1,968 functions: the chunk means what the statements say, and each pass keeps that; facts of constant propagation hold wherever they are read |
| `EarlyReturn` | violation | see Findings |
| `Machine` | 73,436 | every routine in both conventions: conventions kept, nothing stale read, opcodes, calls, runtime and texts mean what they should, processes and handles settled; and the parser |

**Bounds and why they suffice.** *Language server:* the races need a handler in flight,
one that overtakes it and one that closes or reopens the document: three slots, two opens,
two changes, one save. Texts are a good one, one that does not parse and one that
crashes, since the code distinguishes no more. Requests need a second document because a
snapshot covers what a document loads; two slots there, so that requests meet one
notification each. `Window = 1` (the transport polls handlers in the order of their
messages: `buffer_unordered` starts futures in order) except in `LspRequests`, where
notifications overtake each other. *Cache:* an entry is stored by one build, replaced by
another and read by a third: two processes and three builds (`MaxBuilds`); two edits
(`MaxEdits`) make a value return to what it was. One leaf below the root is enough for the
code to treat a source that changed next to one that did not. *Packages:* two commands
(`MaxRuns`), by the shell and the language server or both by the shell, so that the second
meets what the first, or its death, has left, or both overlap; one repository that either
name may use and one page; one publication of each (`MaxPublished`); one act of the user
(`MaxChanges`), which may also bring a lock from elsewhere. Each error is that of a second
command finding what one step of the world made stale. *Function table:* an export, an inlined
callee, a function without a body, an alias and two edits, so that indices move in both
directions. *Ownership:* about nine thousand functions of up to three statements with
one block, over an owner or two, a function owner and a reference; two rounds make a loop
meet what its first round left. *Matches:* enums two levels deep and up to three arms: a
third tells "next arm" from "last arm". *Loader:* trees of up to four files, with a
gateway, a cycle, a package. *Libraries:* a library of two chunks, one of a name the
project also has. *Expressions:* words of 4 bits, so that overflow and shifts past the
width happen; three states of the variables; each operator over every leaf, and every pair
of nestings of depth two. *Optimizer:* values are taken modulo 4; functions have at most
two nested blocks and about seven statements, filled in every way from the sets in
`MCFnCompiler`, with every kind of statement in a branch, a loop and a loop in a loop; four
inputs. `Fuel` (60 instructions) gives every such function that halts time to halt; the
others are compared as far as they come, the optimized one being allowed twice the steps.
*Machine:* words are symbolic, computed with modulo `WordSize` where they must be; a
system call is interrupted once (`MaxInterruptions`) and sleeps are scaled (`MaxSleep`).
*Parser:* a tree is at most two contexts around a leaf, a type two levels deep.

`CHECK_DEADLOCK FALSE` is set where the bounded counters or the end of the passes stop the
system; the language server rests explicitly in `Rest`.

**Fairness** is used by `LspLive` only: weak fairness of each handler and of the delivery of the
next message when a slot is free. The async runtime polls every woken handler, the pool
runs every task it accepted, and the transport takes the next message whenever fewer
handlers run than it allows; requests are not assumed to be answered before they are
cancelled, and the editor is never assumed to act.

## Proofs

TLAPS checks these for all values of the constants, from the named assumptions of the
modules (finite, disjoint sets of model values; natural bounds), and where the table says
so from one more.

| theorem | says | also assumed |
|---|---|---|
| `TypeCorrect` (`LspSession_proofs`) | every variable keeps its type | |
| `ReportsBelong` | a document's report is that of the text it holds | |
| `GuardsCorrect` | locks are held by exactly the handlers suspended in a guarded section | |
| `IndexIsCurrent` | the index takes entries only from the open generation | |
| `DiagnosticsAreCurrent` | no diagnostics of an older text replace those of a newer one | |
| `DiagnosticsAreSettled` | whenever nothing is under way for an open document, the diagnostics shown are those of its text | |
| `LateIsIgnored` | no answer about texts replaced meanwhile, no version going back | |
| `EditorIsFollowed` | the server's text is the editor's, but for the messages on their way | `Window = 1` |
| `IndexedWasSaved` | the index holds only texts that were on disk | `Window = 1` |
| `HandlersNeverAllWait` | while there is a handler, one awaits no lock or has its turn: handlers never all wait for each other | |
| `CacheTypeCorrect` (`QzcCache_proofs`) | every entry, build and history keeps its type | |
| `ArtifactsCoherent` | no artifact mixes functions compiled against different declarations | |
| `SourcesStayCurrent` | every source of an artifact was on disk during the build that emits it | no source can be deleted meanwhile |
| `ConfigurationStaysCurrent` | settings and dependency of an artifact were those of some time during its build | `Steady` |
| `CacheIsTransparent` | `QzcCache` implements `FullBuild`: every build emits what a full build would | `Steady`, `Route` not edited |
| `EntriesSurvive` | no step takes away an installed entry without leaving one | |
| `PackagesTypes` (`Packages_proofs`) | manifest, lock, caches and commands keep their types | |
| `LocalPinsStayFetched` | a lock written here pins only commits the clones here have | |
| `LocksHoldResolutions` | the lock a command alone leaves holds what it resolved | |
| `PinsStayKept` | a command alone resolves a locked dependency to its pin, unless it asks for the latest; a lock written here pins only commits the clones here have | |
| `SourcesStayMatched` | what a command alone is about to read is what it resolved, unless two revisions share a tree | |
| `TableTypes` (`FunctionTable_proofs`) | index, chunks and units keep their types | |
| `EveryCallReachesItsFunction` | through all passes, and in the result, a call is to the function its source names, and inlining loses none; compaction never fails | |
| `PartialBuildsAreFull` | restored and compiled chunks are those of a full compilation | `NoCallbacks` |
| `AddressesAreOfCode` | every address in the result is of code in it or in a dependency | `NoCallbacks`, `MethodsAreKept` |
| `AnalysisIsSolved` (`ConstProp_proofs`) | what the worklist arrives at satisfies the dataflow equations | it empties |
| `TransferKeepsFacts`, `FoldedChunkStepsAlike` | an instruction makes true facts out of true ones; where they are true, the folded chunk takes the same step | no call overwrites a known variable; `FlagsDecide` |
| `ConstantsAreTrue` | in an execution of any length, what is held constant is so where it is read | it empties; `SetBeforeRead`, `LentAreUnknown` |
| `FoldedChunkRunsAlike` | such an execution is one of the folded chunk | the same, `FlagsAlike` |
| `ConstantsHoldIfDisciplined` (`FnCompiler_proofs`) | the chunks in front of the pass satisfy `ConstantsHold` | they are well formed and it empties (`Foldable`); `SetBeforeRead`, `LentAreUnknown` |
| `FoldingPreservesBehaviour` | the pass keeps `PassesPreserveBehaviour` | `Foldable`; all executions keep `SetBeforeRead`, `LentAreUnknown`, `FlagsAlike` (`Keeps`) |
| `OverlapsAreApart` | linear scan leaves pinned registers in place and gives registers with overlapping intervals different slots | |
| `EliminationPreservesBehaviour` | the pass keeps `PassesPreserveBehaviour` | `Strippable`, `StaysOrderly`, `RemovesNoFault` |
| `AllocationPreservesBehaviour` | the pass keeps `PassesPreserveBehaviour` | `Allocatable`, `StaysCovered` |

`Steady` says that the manifest and the dependency are not edited during a build: their
hashes are taken when the entry is stored, not when they are read (see What is left out).
`Route ∉ Edited` leaves out what `QzcRoute` shows to fail, `NoCallbacks` (no body takes the
address of an exported function for C) what `FnCallback` shows to fail. `MethodsAreKept` says that the methods
in tables of trait objects are roots and not candidates for inlining: the code sees to the first
in libraries only (`codegen.rs:745-765`, not in executables, `:690-716`), and elimination
spares a candidate for a closure's or callback's address, not for a table's (`:1493-1515`). `FlagsDecide` says nothing is
known of the register in `ops[0]` of a `Je` or `Jne`, which the pass reads as if it decided the
jump (`constprop.rs:585`); `Cmp` clears it. A callee's write through a reference is a variable's value
changed behind the pass (`codegen.rs:5619`). `Window = 1` is the transport's
order: handlers are polled first in the order of their messages.

*Language server.* `LspServer_proofs` shows action by action that handlers keep types and
the lock's invariant; `LspSession_proofs` adds the editor. `ReportIsOfSource` needs what
an analysis in flight carries: its text and generation are those of its document as long
as its result is still accepted (`FreshInv`). `GuardsMatchHandlers` is inductive with the
lock's own invariant (a writer alone, waiting handlers in the queue once). `DiagnosticsSettle`
is about a quiet server; `DiagInv` says what holds before: for an open document either its
diagnostics are shown or an analysis of its current generation, not cancelled, is on its way,
or a message is. `ServerFollowsEditor` likewise needs the whole way of a change: the messages for a
document in the lock's queue, then those in the inbox, form a line that takes the server's
text to the editor's (`FollowInv`, `Chain`, `Line`), every later element resting on what the
one before it leaves. `SavedInv` follows a save along the same line to the index.
`HandlersNeverAllWait` rests on `WaitInv`: a lock's queue holds the handlers suspended at it,
each once, and nobody else. If no handler could move, the workspace lock, free across every
suspension, would have an empty queue; then no guard of the documents lock is held, and the
head of that queue has its turn.

*Cache.* `CoherentArtifacts` is not inductive: a build may hold units of an entry it read
long ago. `HonestInv` strengthens it: in every entry, wherever it is (main, backup, a
temporary file, a build's memory), each unit was compiled in the context recorded with it.
`CurrentInv`: the inputs cover the sources of the artifact, and what a build has hashed so
far was on disk at some time since it began. `InformedInv`: what an entry says of settings and
dependency is what its artifact was built with. With them (`CacheInv`) each step of
`QzcCache` maps to a step of `FullBuild` or to none.

*Packages.* `CommandInv` says what each command, alone or not, has done by each stage: which names are
resolved and which are left (`Stage`), where the clone or file of the current one is (`Turn`), and
that the clones hold the commits resolved (`Resolved`) and, unless a lock came from
another machine, those pinned (`LockInv`): clones only gain commits. A command alone has no other
beside it (`AloneInv`), so what it resolved is the pin or the version asked for (`Choices`), is in
place in clones and files (`Places`), and at the end is what the lock says (`Ends`). Putting one
dependency in place leaves the others, unless they are revisions of one repository.

*Function table.* `TableInv`: the index maps exactly the names of one function to one number
(`IndexInv`), every call in a chunk carries the number of its function (`Known`), a name
denotes one chunk (`Distinct`), and what an indexed function refers to is indexed
(`LiveInv`, from the closure of the roots). Elimination and compaction move functions to their
rank among those that stay; ranks are injective and have no holes (`RankIsInjective`,
`RankIsBelow`), so calls can follow; functions placed and places are in bijection, so compaction cannot
fail. `CallsInv`: a chunk calls what its source calls, or has the calls of the callees spliced into it
(`InlineKeepsCalls`); a restored unit makes today's calls because it was stored with today's source. `FullInv` adds what a stored unit holds: the calls and addresses of the body it was compiled
from, under names that resolve to the same functions, and nothing that needs companions. `AddressInv`: an address in a chunk is that of a chunk still there.
Forwarders and closures come and go with the chunk that takes their address, and elimination takes
inlining candidates only, which no address names.

*Constant propagation.* First the recursive functions of the analysis are shown to exist (`RunExists`,
`FlowExists`) and blocks to be what they should (`BlockExists`, `SameBlock`). The worklist's invariant is
`FlowInv`: a block whose state is not that of its predecessors' waits in the list; an empty list is then
a solution. `FactsThroughout` follows an execution: every register written so far has the
value held for it, if any. A join is where this is delicate: `Meet` ignores a path that knows nothing of a register
(`MeetCarries`), so a fact may stand where it is false for a register that was not written on
the path taken. Two conditions on an execution (`Disciplined`) are therefore assumed, and the code excludes
neither breach: a register is written before it is read, unless nothing is known of it there
(`SetBeforeRead`; `EarlyReturn` shows what happens otherwise, a parameter is read without having been
written), and no callee writes through an address to a variable something is known of
(`LentAreUnknown`; `codegen.rs:5619` forgets nothing, so `ConstantsHold` would fail there, and the programs of
`Optimizer` lend only variables of unknown value). `FlagsAlike` is `FlagsDecide` along an execution. From equal
steps follow equal executions (`BurstsAlike`), and `FoldingPreservesBehaviour` is the step of the pass. TLC found
both conditions, `FlagsDecide` and `Foldable` true of all chunks of `Optimizer` that reach the pass; that
the worklist empties within `Rounds` is part of `ConstantsHold` there.

*Dead registers.* A chunk runs beside the one without its dead definitions (`Shadows`): positions
correspond by rank among the instructions that stay (`MovedTo`), and the states agree in every slot that anything
left uses (`Twins`), so a removed definition is a step only the first takes (`RemovedStep`). The
second is never behind, hence what it says continues what the first said (`GrowsInto`), and an
execution that ends ends alike (`StrippedOutcome`). Compaction (`CompactInv`) is then a renaming
without two registers in one slot. Assumed are: no division taken away faults (`RemovesNoFault`; code
generation traps before it); what an execution of the stripped chunk asks of pinned registers
(`Orderly`: `Fits`, below, with blocks); the chunk has a `Ret` and its fields name registers
(`Strippable`); and doubling the fuel brings an execution at least as far. TLC found these true of all
chunks of `Optimizer` in front of the pass, dead definitions and divisions among them, in executions
of up to twice its fuel.

*Register allocation.* `ScanInv` is the invariant of linear scan: what has a slot has left the
queue, active registers hold different slots, none of them free, pinned or fresh, and a register
no longer active ended before whatever comes next. `IntervalsCover` shows that an interval covers
every mention of its register, whatever the jumps back extend. `StepMirrors` runs a chunk and its
renamed copy side by side (`Mirrors`): they agree on the registers in `Kept`, those that are
pinned, have their slot to themselves, or were written while the execution has not left their
interval since. A write disturbs
none of them: its register and theirs have intervals that meet at the instruction. What remains is
that an execution reads only such registers (`StaysCovered`): that loops are extended far enough
is a matter of how the code generator nests its jumps, and no fact of `regalloc.rs`. `Fits` names
the rest: a conditional jump on register 0, which `instr_uses` leaves out (`regalloc.rs:480`),
finds it pinned; between the arguments of a call and the call nothing is written; a lent address
leads to a pinned slot. TLC found `Allocatable` and `Fits` true of all chunks of `Optimizer` in
front of the pass and of all their executions (within twice its fuel).

Each of these invariants was checked by TLC on the runs' instances before its proof.

Only model-checked: `FinallyDiagnosed` (liveness), the half `TurnsAreTaken` of
`NoLockCycle` (stated with `ENABLED`: who has its turn can take it; the half
`SomeHandlerMoves` is `HandlersNeverAllWait`), and what is computed by recursive definitions over data - programs,
expressions, files, texts, machine code: `CodeMeansProgram` and inlining in `Optimizer`, `Machine` and the parts
of `Build` named ownership, matches, loading, libraries and expressions. Recursive operators are beyond the prover, and so are the library's
induction theorems, whose parameter is an operator; where a recursion is a function on numbers (the
worklist, an execution) the proofs take the least number at which the claim, a set, would fail
(`Induction`).

## What is left out

- *Language server:* features that read one snapshot under one guard (hover, completion,
  symbols of a document) change nothing and are covered by `ReportIsOfSource`. Renaming
  collects its edits under no common lock (`server.rs:632`).
- *Cache:* a manifest or package edited between being read and being hashed
  (`incremental.rs:194`), kept out by `Racing`; a source deleted during the build, which is
  then no input (`incremental.rs:175`), kept out by `Vanishing = {}`. The byte format is
  checked whole before use, so an entry is one value. Generics and closures, which are
  always compiled anew, are not told apart.
- *Function table:* calls through trait objects: reachability follows call edges
  (`codegen.rs:706`) and elimination looks for calls and function values
  (`codegen.rs:1486-1515`), so the run's methods in tables are roots that are not inlined. Variadic intrinsics, items switched
  off by configuration and generic specialisations. Order in hash maps is arbitrary.
- *Optimizer:* floating point and whatever the integer functions of `FnCompiler` do not
  use; ranges with bounds that change in the loop; the 8-bit width of registers. By
  construction the functions of `Optimizer` avoid four things known to go wrong in constant
  propagation and dead-register elimination: parameters are not assigned to; early returns
  are only in functions without parameters; a variable lent for writing had no known value;
  register 0 is not the only use of a definition by a conditional jump.
- *Packages:* a package's own dependencies, local paths, the unpacking of archives, cached
  QZI interfaces, and errors of the disk. With more than one command at a time, or with two
  revisions of one repository, the sources read need not be those resolved, as all share
  one working tree (`package.rs:300-320`): a lock may even pin, for a tag, the commit another
  process had checked out. The properties are about commands alone, except
  `LocalPinsAreFetched`. A lock from another machine may pin a commit
  the clone here lacks. As it is locked, nothing fetches it (`package.rs:284`), and building
  and `qz fetch` both fail until the cache is removed.
- *Ownership:* functions that are not `Neutral`, for `OwnersDestroyedOnce`, and those that
  assign an owner inside a branch or loop, for `AcceptedUsesAreLive`; partial moves and
  generic owners.
- *Expressions:* what is not `Firm`; generic functions, built-in methods, ranges, strings but
  for their identity and length, methods through references.
- *Loader:* `@cfg`, overlays, two files of one stem in different directories (they share a
  namespace), the order in which the standard library's own files come out of a hash set
  (`loader.rs:907`).
- *Libraries:* a project whose own definition equals a library's but for its calls
  (`Redirects`, see Findings).
- *Parser and lexer:* text to tokens, positions, what is reported after a first error, the
  formatter. What the parser reads otherwise than the documents write is in Findings.
- *Machine:* widths of memory accesses other than bytes of strings, encodings and
  relocations; allocations that fail inside `concat`, `to_string` and argument conversion,
  which the code does not test; requests within 16 bytes of the whole address space; floats
  from 2^63 on, which print wrongly; more than six arguments of a foreign call; child processes
  on Windows, which the back end does not support; the minimal Linux entry point with
  arguments.
- *Not modelled:* declarations, generics and traits of the type checker, the test runner, the
  linkers, documentation and headers; why is with each component in `PROJECT.json`.

## Findings

Shown by a run:

- `LspStaleIndex` (`server.rs:293`): a save whose document is closed or edited before its
  analysis ends leaves the declarations of the text before it in the workspace index.
- `QzcRoute` (`loader.rs:1253`): the `mod.qz` that decides which file an import names is no
  input of a cache entry; after it is edited, the cache still gives the old program.
- `FnCallback` (`codegen.rs:4313`): a restored function names the adapter of an exported function
  by an index of the earlier table; the program no longer links.
- `EarlyReturn` (`constprop.rs:124`): blocks do not end at `Ret`, and a register nothing is known
  of does not count in a meet. In `if !p { return 2 } return p + 1` the parameter is taken
  for 2 after the branch.
- `OwnAlive` (`codegen.rs:5829`): after `var b = a; while c { a = make(); }` the value `b` holds
  is destroyed through `a` when the loop does not run.

Met while modelling, and kept out of the runs' inputs or properties by a named exclusion:

- *Generated code.* A match guard is compared with register 0 (`codegen.rs:7223`). An
  index is read again for the store after its guard (`codegen.rs:5865-5961`). A trait object
  is made only by `let` (`codegen.rs:4390`, against `docs/language/types.md:213`). A cast
  to a narrower type does not narrow (`docs/language/types.md:234`). A path that moves an
  owner leaves it undestroyed on the others; `break`, `continue` and the failure path of `?`
  skip destruction; a last instruction `Ret` drops the destruction behind it though a
  jump leads there (`codegen.rs:1890`).
- *Type checker.* Refutable patterns inside a variant count as covering it; a wildcard
  before a name gives the name the wrong field's type; arguments of functions of a type are
  not compared; `1 == true` folds to false; named arguments (`docs/language/expressions.md`)
  are always rejected for typed functions.
- *Parser.* `for i : a..=b` is rejected: `parse_for_stmt` takes `..` only, while
  `docs/language/statements.md:92` and `docs/tutorial/03-control-flow.md:48` write it.
  `&`, `^`, `|` bind tighter than comparisons (so the test `parses_bitwise_precedence`), the
  table of `docs/language/expressions.md:9-25` says looser. A condition that begins with `(` ends where
  it closes; a name before `{` is a structure literal, so `if x {}` is none; `**p` is read as a
  power; `handlers[i](x)` with a capitalised index as a type argument.
- *Libraries.* A chunk the project and a library both define is one when they are equal but
  for their calls, and the project's calls are not compared (`chunk.rs:1227`, against
  `docs/LIBRARIES.md:119-120`).
- *Loader.* A gateway below another is not asked (`loader.rs:1262`, against
  `docs/language/modules.md:90`).
- *Packages.* See "What is left out".
- *Entry points.* The handlers of four signals are installed with the number of the
  system call set once, before the first call overwrites it (`start.rs:363-392`).

## Plan

Left for the proofs:

1. *Inlining:* the chunk with a callee spliced in steps as the caller and the callee do.
2. *Linking:* `Link` as a function of the chunks: whatever it accepts, each relocated call goes to the
   chunk its symbol names.

