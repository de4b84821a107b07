# mull-xctest in TLA+

mull-xctest is a mutation testing tool for Swift and XCTest. Stand-ins for the linker
(`mull-ld`) and for libtool (`mull-libtool`) take the bitcode embedded in the object files of a
build, insert all mutants behind trampolines that an environment variable selects at run time,
and link the result. Two runners (`mull-xctest` over `xctest`, `mull-xctestrun` over
`xcodebuild`) then run the tests once per mutant, or many mutants at a time, and report which
mutants the tests kill. This directory models the parts of that program whose correctness
depends on orders of events: threads, external commands that fail, files left behind, and lists
and command lines that go through many hands.

Paths below are relative to `src/`. The library mull itself (`vendor/mull`) is a submodule and not
part of the repository: what the code uses of it (`mull::TaskExecutor`, `taskBatches`,
`progress_reporter`, `Runner`, the mutators, the toolchain) is modelled from its use and marked
external in the map.

## 1. Inventory

| Component | State it keeps | Operations | Interacts with | What is hard |
|---|---|---|---|---|
| Task executor, `include/MullXCTest/PthreadTaskExecutor.h` | input, output container, per worker storage and progress counter, threads, reporter | `execute`, `executeSequentially`, `executeInParallel`, fatal exit | the Swift syntax index, its only user (everything else maps over mull's own `mull::TaskExecutor`); reporter thread | references into growing vectors, joins, order of results, progress before results |
| Mutation pipeline, `lib/MutationPipeline.cpp` | output list, modules, points, filter list, AST storage | `run` and its stages | mull's executor per stage, syntax index, toolchain | barriers between stages, LLVM contexts that are not thread-safe, early return, objects on two paths, the order they leave in |
| Bitcode extraction/loading, `lib/Tasks/` | none | `extractEmbeddedFile`, `loadBitcodeFromBuffer`, two task classes that nothing uses | pipeline | unusable objects must still be linked |
| Swift syntax index and runtime filter, `lib/SwiftSupport/` | per-source storage, merged storage | `findMutations`, `IndexSwiftSource`, the visitor, `shouldSkip` | executor, pipeline filters | shared storage, files that do not parse, calls whose value is needed or thrown away by another expression (`try`, `await`, `_ =`), result builders, nodes that start at one place |
| `RunProgram`, `tools/mull-xctestrun/XCTestRunInvocation.cpp:31` | a child process | start, wait with a timeout, kill | xcodebuild, its pipes, the clock | a pipe nobody reads, a late exit, a timeout that becomes an `int`, a wait that fails and is taken for a failed test |
| Runner over xcodebuild, `tools/mull-xctestrun/` | mutants, baseline, per task run file and result bundle, results | `run`, `extractMutantInfo`, task `operator()`, `RunProgram` | PlistBuddy, xcodebuild, xcresulttool, file system | commands that fail unnoticed, timeouts, stale files and bundles, many mutants in one run |
| `.xctestrun` editing, `lib/XCTestRunFile.cpp` | a property list on disk | get, copy, delete target; add variable; set name | PlistBuddy | half-edited files |
| `.xcresult` reading, `lib/XCResultFile.cpp` | none | `getFailureTestTargets` | xcresulttool | no answer in 10 s |
| Runner over xctest, `tools/mull-xctest/` | mutants, baseline, results | `run`, task `operator()` | xctest processes | unchecked baseline, timeouts derived from it |
| Link drivers, `tools/mull-ld/`, `tools/mull-libtool/` | command line, list of objects, temporary file list | split options, collect objects, find the real tool, run the pipeline, run the real tool | pipeline, xcrun, linker, file system | objects or options dropped, doubled or parted from their values between command line and file list; malformed command lines; an xcrun that succeeds and prints nothing; waits without timeout |
| `mull-dump-mutants`, `lib/MutantSerialization.cpp`, `lib/Version.cpp` | none | print | - | nothing that needs a model |

Correctness, in one line each. Executor: every result once, in input order, all there when it returns, and
it returns. Pipeline: every input object linked exactly once, with exactly the mutants that passed the
filters, no module touched by two threads. Runner: a reported kill is real whatever failed, a fault in one
task stays in its slice, every mutant gets one final verdict, the run ends. Run files: no target activates
two mutants. Drivers: success means that the real tool has linked these objects with these options. Child
processes: a status is what it says, and none is left behind, unless waiting for it failed. Swift filters: a
mutant changes something the author wrote, and none is lost but for a reason. The hazards are listed with
their lines in `PROJECT.json`.

## 2. Modules

| Module | Models | Kind |
|---|---|---|
| `OrderedMap` | the promise of an executor | abstract specification |
| `PthreadTaskExecutor` | `PthreadTaskExecutor.h` and the loop of the index task that runs on it | detailed specification, implements `OrderedMap` |
| `PthreadTaskExecutorProofs` | - | theorems |
| `XCTestRunFile` | `lib/XCTestRunFile.cpp` | operators on a property list |
| `XCTestRunInvocation` | `XCTestRunInvocation.cpp`, with the external programs it starts and `XCResultFile.cpp` | detailed specification, uses `XCTestRunFile`, implements `MutationTesting` |
| `XCTestRunInvocationProofs` | - | theorems |
| `MutationTesting` | the promise of a test runner | abstract specification |
| `XCTestInvocation` | `XCTestInvocation.cpp` of `mull-xctest`, with the processes it starts | detailed specification, implements `MutationTesting` |
| `XCTestInvocationProofs` | - | theorems |
| `RunProgram` | `RunProgram()` of `XCTestRunInvocation.cpp`, with the process, the pipe and the clock | specification |
| `RunProgramProofs` | - | theorems |
| `ObjectRewriting` | the promise of the pipeline | abstract specification |
| `MutationPipeline` | `lib/MutationPipeline.cpp`, extraction, loading, index | detailed specification, implements `ObjectRewriting` |
| `MutationPipelineProofs` | - | theorems |
| `SwiftFilters` | `SwiftASTMutationFilter.swift`, `RuntimeFunctionFilter.cpp` and the filters of the pipeline they feed | specification |
| `SwiftFiltersProofs` | - | theorems |
| `LinkerArguments` | `LinkerOptions.cpp`, and the same functions of `mull-ld.cpp` and `mull-libtool.cpp` | operators on sequences of tokens |
| `LinkStep` | the promise of a stand-in for a linker | abstract specification |
| `LinkDriver` | `main()` of `mull-ld` and `mull-libtool`, `LinkerInvocation.cpp` | detailed specification, composes `LinkerArguments` and `ObjectRewriting`, implements `LinkStep` |
| `LinkDriverProofs` | - | theorems |
| `Filtering` | `Keep`, a list from which elements are dropped | operator of the pipeline |
| `InductionLemmas` | - | lemmas that several proofs use |
| `MC*` | instances for TLC | |

Definitions marked *Fault* are variants of the definition they stand before, each with a plausible
bug; no specification uses them. They are what the properties are tested against.

### PthreadTaskExecutor

The executor has one user, the Swift syntax index (`IndexSwiftSourceTask`), whose loop stores a result
for every item; the executor is a template, and the model admits tasks that skip items. Items are
`1..in`; `kept` are those for which a task pushes a result. `pc` is the position of
the main thread in `execute()`, `threads[w]` that of worker `w`. A worker's turn of its loop has two
steps, as in the code: `ProcessItem` (push the result, or none) and
`IncrementCounter`. `storagesVec` and `countersVec` hold size, capacity and identity of the memory
of the two vectors, and `refs[w]` the memory the closure of worker `w` captured, so that a
`push_back` that reallocates is visible as a dangling reference. `Batches` allows every partition
into consecutive batches, more than `taskBatches` makes. `ReporterFinishes` is the exit condition of
`progress_reporter`. `Fatal` is `ReportErrnumFatal`, which ends the process with all its threads; it may
happen at every pthread call and is owed to nobody, so that it does not help out of a join that blocks.

### XCTestRunInvocation

`pc` and `taskPc[t]` are the positions of `run()` and of task `t`. `base` and `local[t]` are the run
files on disk, `bundle[t]` the result bundle of the task's xcodebuild, `failing[t]` what
xcresulttool said of it. The actions of a task are the steps between which files change:
`CopyRunFile`, `AddTarget` (the three commands of a loop turn, each of which may fail),
`DeleteSource`, `RunTests`, `ReadResults`, `ReportVerdicts`. The world is part of the state and
never changes: which mutants the tests detect, which make them hang, whether the unmutated tests
pass, whether the bundle directory is new.

A failed command changes nothing and nobody notices, as in the code; `faults` counts failures and
`faulty[t]` remembers where. A failed `copy_file` leaves whatever file an earlier invocation left at that
path, or none; that invocation may have lost any command or been killed between two of them, so the file may
be half-edited (`LeftoverEntries`). Time is data: the tests of one target take some time of `Times`, a run
takes as many of them as its file has targets (`Duration`), the baseline is cut off at `Timeout`, a slice at
the `limit` computed from the baseline's time. Both may be 0, and a baseline that crashed early has any time
at all, which is then the measure of every later run. Timeouts that exceed an `int` are left to `RunProgram`
(`LimitsAssumption`). A hanging mutant is ended either by the allowance of a single test (and is then among
the failures) or by the timeout of the run, of the same length: the model leaves the race open.
`diagnostics.error` is modelled both as the end of the process and, where the code goes on after it, as an
empty answer, because mull's behaviour is not part of the repository.

### MutationTesting and XCTestInvocation

`MutationTesting` is what both runners have in common: a list of mutants is found, each mutant
gets one verdict, in any order and any number at a time, only mutants of `killable` are killed,
and the results come when every mutant has a verdict; or the process ends without any.

`XCTestInvocation` is the simpler runner: a warm-up, a baseline, and then one process per covered
mutant. `process[t]` is the set of mutants active in the process of task `t` (none, or its
current one), `next[t]` the position of the task's iterator. `Run` gives the outcomes of a
process (`mull::Runner::runProgram`, external): a hanging mutant, or one that takes longer than
its limit, is `Timedout`, otherwise the tests pass or fail; in a world that is not `reliable`, any
failure may come on top. The verdict is the status of the process, and `NotCovered` without one.
Per-task results are indexed by mutant: that they are merged after the tasks is mull's executor.

### MutationPipeline

`pc` walks through the stages of `run()`. A parallel stage starts with a partition of its items
(`StartStage`), lets workers take and finish items (`TakeItem`, then the action of the stage), and
ends when all workers have done their batch (`End...`). `busy[w]` means that worker `w` is
inside the module of its item. Input objects are one of three kinds: nothing to read
(`unreadable`), a section that is no bitcode (`unloadable`, including a Mach-O file
without the section, whose empty contents fail to load), or bitcode. A function is known by the number
of its mutation points. Filters choose freely what to skip, except the AST filter, which skips
what the index does not hold; `rejected` is the only history variable. A source that cannot
be parsed is an empty index. Coverage and `includeNotCovered` amount to any set of functions kept.
`PassThrough` entries of `output` are inputs, the others compiled modules with the mutants in them.
`ObjectRewriting` is what a link driver sees of all this: the list of objects comes back once, each
object as often as it was given, those passed through first and in their order, the recompiled ones
after them (the original list when nothing survives the filters).
The mutants vector of the deduplication step (lines 81-103) is a local that nothing reads and has no
place in the model.

### RunProgram

A close look at the step `RunTests` of the runner. The program is a sequence of steps, each of which
takes a unit of time (`compute`) or puts a unit of output into the pipe (`write`), then exits or
hangs. With a log path output goes to a file; without one it goes to a pipe that nobody reads, so that
`Write` blocks when the pipe is full. Computation takes all the time there is (`Tick` waits for what
takes none), and at the deadline `Wait` may see the exit or the timeout. The timeout is a `long long`
that becomes an `int` (`Milliseconds`, `Limit`): a large one may turn small, or negative, which is no
limit. Starting may fail (`StartFails`); then `diagnostics.error` ends the process. Waiting may fail
(`WaitFails`): any error but `timed_out` is taken for an exit status, a negative one, and the function
returns `Failed` without a `kill()`. What the destructor of `reproc::process` then does with the
child is reproc's and not modelled; `NoProcessLeft` says nothing of that case.

### SwiftFilters

A source is the sequence of its syntax nodes in the order `visitPost` sees them, with what the
visitor looks at: kind, parent, number of statements of the block, place. What becomes of the value
of a call is known to Swift and not to the visitor; it is the node's `context`: a statement of its own, the
result of its block (an implicit return, or any statement of a result builder), inside an expression that
throws the value away (`try f()`, `await f()`, `_ = f()`), or an operand. `SwiftAssumption` says only that
a statement is never inside an expression and the other way round. `points`
starts with every mutation at every place, place 0 (compiler-generated) included, for every class of
callee, because what the mutators of mull offer is not part of the repository; the filters thin it
out. `ParseSource` may fail, which leaves the storage empty.

### LinkerArguments, LinkStep and LinkDriver

Tokens are strings, a parsed argument is the sequence of the tokens it renders to. `Taken` is the
idea the loops share: an element that takes the next one along (`-Xmull`, an option with a value,
`-add_ast_path` in ld64's flavor) is followed by one the loop skips. `ParseArgs` is LLVM's parser, as far
as the drivers depend on it: an option that lacks its value is dropped (and reported in variables nobody
reads). `Unlisted` are options the tables take for flags although the real tool gives them a value.

`LinkStep` is written from the other side, from what the real tool reads in a command line: a step ends with
a failure, or with a success after which the tool has linked the same objects as often as before, with the
same options in the same order (but `-bitcode_bundle`), each followed by its value. Help may be asked for;
undefined behaviour is met on malformed lines (`Parsable`) and when xcrun succeeds without a word
(`printed`) only. The promise has hypotheses (`Meaningful`), and each is needed: when the value of an option
the parser takes for a flag is itself an option (`Unambiguous`), the parser gives that option the token
after it, which the real tool reads as an object or as an option of its own; an option that the tables give
a value and the real tool does not (`Lone`: libtool's `-noall_load`, `mull-libtool/Options.td:20`) swallows
the token after it, and if that is an object it is not linked as one the pipeline knows; when a file list
cannot be read its objects are dropped without an error; when the last option lacks its value it disappears
from the command; when the value of an unlisted option is by chance a readable file it is linked as an
object and parted from its option. TLC finds each of these in a model without the hypothesis.

`LinkDriver` is `main()`: `pc` walks through `Phases`, whose order differs between the tools. The
state is `argv`, the parsed arguments, the list of objects before and after the pipeline
(`ObjectRewriting!Return`: the refinement of the pipeline is what makes the composition sound), the
temporary file list with the error state of its stream, and the status of the process. `Spellings` gives the
tokens that set each of the drivers' own options; `validOptions` is which of them are accepted together
(only the lists may be given twice), and `named` whether they leave the real tool with a name. An empty one
sends the driver to xcrun, whose output may be a path, an empty line or nothing. Failures:
invalid options, unreadable inputs, xcrun or the tool failing or hanging, a thread of the pipeline that
cannot be created, a file list cut short. `args[size]`, a null option table and an iterator past
the end are the status `undefined`. `diagnostics.error` ends the process: with a
`mull::Diagnostics` that returned, a failed link would exit with 0, and the drivers could not work at all.
A write error of the list is noticed by LLVM's stream, whose destructor aborts.

## 3. Checks

| Run | Instance | Distinct states | Question |
|---|---|---|---|
| `executor` | 0..3 items, 0..3 tasks, all `kept`, all partitions | 29,574 | ordered map, memory, merging, end |
| `xctestrun_safety` | 2 mutants, lists of 0 and 3 (one duplicate), 2 workers, 2 faults, times 1 and 12 with timeout 2, three leftover files | 3,749,284 | what verdicts mean |
| `xctestrun_liveness` | the same with 1 fault | 464,736 | does a run end |
| `xctestrun_timeout` | the same without faults | - | a documented bound the code does not keep |
| `xctest` | lists of 0 to 3 mutants (one duplicate), 2 workers, running times 1 and 8 | 209,019 | is it the promised runner, are its verdicts exact |
| `link_driver` | both tools; command lines of 3 groups out of 9, and of up to 2 groups out of 20 with a tail that may lack a value; pairs of the drivers' own options; two file lists, one unreadable | 331,894 | can the drivers stand in for the tools |
| `run_program` | programs of up to 6 steps, timeouts 0, 1, 3, 6 and 9 where the largest `int` is 3, a pipe of 2 units | 105,312 | is a status what it says, does it end, is anything left |
| `swift_filters` | sources of up to 2 nodes out of 9, at different places or at one, every point | 2,781 | which mutants survive |
| `pipeline` | six links of 0 to 4 objects, up to 4 points, 2 workers, 1 function filter, 1 to 3 mutation filters | about 240,000 | what reaches the linker, who touches modules |

Properties of the executor. `ImplementsOrderedMap`: it is an ordered map, whatever the schedule.
`NoDanglingReference`: the `reserve` calls cover every `push_back`. `ReporterSawEverything`: progress
is never ahead of the results. `MergeAfterJoin`: the container of the caller is untouched while
workers run. `Terminates`: worker, reporter and caller do not wait for each other forever.

Properties of the test run. `KillSound`: with healthy tests and a new bundle directory a mutant reported as
failed is one the tests detect or hang on, whatever went wrong. Both hypotheses are needed: the baseline's
status is never looked at, and with `--result-bundle-dir` a bundle of another invocation may be read.
`FaultIsolation`: a task without fault and without hanging mutant has exact verdicts, whatever the other
tasks suffer, and its timeout is long enough for its slice, if no run of the base file would take ten times
what the baseline took (`Patient`; a baseline that crashed early makes it false). `SingleMutantPerTarget`:
mutants of one run are never combined. `EveryMutantJudged`: each extracted mutant, a duplicate included,
gets a verdict. `ImplementsMutationTesting`: it gets one only, from the task it belongs to, and the runner
as a whole is the abstract one. The converse of `KillSound` is false by design of the code: a crash, a
timeout or an unreadable bundle makes the whole slice pass.

Properties of mull-xctest. `ExactWhenReliable`: in a world where only mutants disturb the tests, a
mutant is killed if and only if it is covered and the tests fail or hang with it. This needs that
undisturbed runs differ less than tenfold in time (`ParametersAssumption`), the factor in the
code; with a limit of one baseline TLC finds a false kill. It also needs a healthy baseline, whose
status nobody looks at. `ImplementsMutationTesting` and `Terminates` hold in every world.

Properties of the drivers. `ImplementsLinkStep` as above; `Terminates`: mull-ld ends whatever its
programs do, mull-libtool if they do (it passes -1 as timeout); `TypeOK` says among other things that no
option without its value is ever rendered and that a link was made if and only if the tool passed.

Properties of RunProgram. `StatusIsExact`: Passed and Failed are the word of a program that ran to its end,
except a Failed with a negative exit status, the mark of a wait that failed; Timedout is due to a program
that hangs or is too slow, or to a full pipe - never to the pipe when there is a log. `NoProcessLeft`: when
it returns the process has exited or was killed, with the same exception. `Terminates`: it returns if the
timeout is a limit once it is an `int`, or if the program needs none. `XCTestRunInvocation` abstracts from
the pipe: a run that is blocked by it is one of the runs that fail for no fault of a mutant.

Properties of the Swift filters. `SurvivorsAreWritten`: what survives changes an operator that is
there, an assignment, a call whose value nobody uses or one of several results in a result builder
(which the visitor cannot tell from it), and never a call of the runtime or of a function
that reports a broken precondition. `NothingElseIsLost`: a mutant disappears only for one of the reasons
the code gives; among them are operators without spaces, the only call of a block, and the call inside
`try`, `await` or `_ =`, whose parent is another expression.

Properties of the pipeline. `ImplementsObjectRewriting`: every input object is linked exactly once, in
the order promised; `LinkedMutantsAreTheSurvivors`: what is linked
carries exactly the points no filter rejected, and with the syntax filter only confirmed ones;
`ModuleExclusive`: no worker changes a module another worker is busy with, which rests on
the single task of the last stage of `applyMutation`; `StagesAreBarriers`;
`SharedDataChangesAtRest`: lists, filters and AST storage change only while no worker is busy;
`Terminates`.

Bounds. Three items and tasks give the executor every relation of the two (fewer items than tasks,
equal, more), an empty batch and a batch of two or three. Two mutants and a duplicate on two workers
give the runner slices of one and two, and a duplicate in the same slice and in another one; two
faults allow one in each task or two in the same. Two bitcode objects with two points
each give two workers the chance to meet in one module and in two; four objects give every
mixture of paths. The numbers of filters stand for "none left, one, several in a row". Three groups of tokens
put every option before, between and after every other and an object, and make two of one kind possible;
the loops of `LinkerArguments` look at neighbours only. Six steps overfill the pipe and outrun every
timeout. Nodes of a source interact in pairs, by starting at one place.

Deadlock is checked everywhere; a finished program stutters in `Terminated`.

Fairness. Each specification with liveness has weak fairness of the main thread and of each worker
(and the reporter): the operating system goes on scheduling runnable threads. A worker step of the
runner ends because `RunProgram` waits with a timeout and kills (`process.wait`, `process.kill`), and
because plist and result commands have ten seconds; that is in the model, not in the fairness:
`RunTests` has an outcome for a hanging test, and the variant without timeout violates `Terminates`.
No failure is fair: `Fatal`, `StartFails` and `WaitFails` may happen and need not, so that nothing ends
only because something broke. Tasks of the pipeline are assumed to return.
The drivers are sequential: weak fairness of their one process, while a hanging program is part of the
state (`hangs`) and takes its outcome away. In `RunProgram` the caller, the program and the clock
each have weak fairness; that the program gets on does not help it out of a full pipe.

Finding. `mull-xctestrun.cpp:28` describes `--timeout` as "Timeout per test run (milliseconds)".
It bounds the baseline run only; a run of mutants may take `baseline.runningTime * count * 10`
(`XCTestRunInvocation.cpp:200`). `xctestrun_timeout` shows a run whose limit exceeds the option.

## 4. Proofs

`PthreadTaskExecutorProofs` proves, for every number of items and tasks
(`SizesAssumption`: both bounds are natural numbers), `TypeCorrectness`, `MemorySafety`
(`NoDanglingReference`), `MergeDiscipline` (`MergeAfterJoin`) and `Refinement`
(`ImplementsOrderedMap`). None of them is inductive. The invariant `IInv` says for each phase of
`execute()` which workers are spawned (`PhaseInv`), that each worker's storage lists exactly the
kept items of the part of its slice it has processed (`WorkerInv`, in terms of `Slice`), what the
caller's container holds after some storages were merged (`Slice(kept, out, 0, cuts[i-1])`), and that
size and capacity of the vectors match the spawn loop (`MemoryInv`). The lemmas on `Slice`
(empty, appended, skipped, concatenated) carry the argument; each action has its lemma. The
refinement maps a step that changes `out` to `Emit`, the last step to `Return`, `Fatal` to `Die` and
the rest to stuttering. A second layer, `RInv`, proves `ReporterSoundness` (`ReporterSawEverything`):
each counter holds how far its worker has come in its batch (`CounterInv`), and the batches add up to
the input, so that the sum of the counters reaches the number of items only when every worker is through. The
lemmas on sums (`SumSteps`, `SumOrder`, `SumBounded`) are in `InductionLemmas`.

`XCTestRunInvocationProofs` proves, for every set of mutants, number of workers, timeout and number of
faults (`NamesAssumption`, `ParametersAssumption`, `LimitsAssumption`), `TypeCorrectness`, `KillsAreSound`
(`KillSound`) and `MutantsAreIsolated` (`SingleMutantPerTarget`). The invariant adds that a run file is safe
(`FileSafe`: a target carries at most the mutant it is named after, and no other target has a mutant as
blueprint name), that the editing commands keep it safe in any combination of failures, that every bundle
lists only mutants with a failing or hanging test (`BundleSound`), and that slices are disjoint. The second
layer `KInv` (`SliceInvariance`) says how far each task is in its slice and which of its mutants have
verdicts (`SliceInv`), and that without a fault in the task its run file, bundle and failures are exactly
those of its slice (`IsolationInv`), where the hypothesis `Patient` makes the timeout long enough for as
many targets as the slice has. It gives `AllMutantsAreJudged` (`EveryMutantJudged`), `FaultsAreIsolated`
(`FaultIsolation`) and `Refinement` (`ImplementsMutationTesting`), in which a step that reports verdicts is
a `Judge` of the mutants at its places in the list.

`XCTestInvocationProofs` proves, for every list of mutants, number of workers and set of running
times that differ less than tenfold (`ParametersAssumption`), `TypeCorrectness`, `VerdictsAreExact`
(`ExactWhenReliable`) and `Refinement` (`ImplementsMutationTesting`). The invariant says which
mutants a task has judged (those before its iterator) and that the baseline of a reliable world is one
of the running times, which is where the factor of ten is used.

`MutationPipelineProofs` proves, for every set of links, number of workers and of filters
(`PipelineAssumption`), `TypeCorrectness`, `SharedDataAtRest` (`SharedDataChangesAtRest`),
`ModulesAreExclusive` (`ModuleExclusive`), `StagesDoNotOverlap` (`StagesAreBarriers`), `SurvivorsAreLinked`
(`LinkedMutantsAreTheSurvivors`) and `Refinement` (`ImplementsObjectRewriting`). The invariant has layers,
each proved from those before it: the types and batches of a parallel stage (`TInv`, `ExecutorInv`); that
modules are loaded in the order of the objects and so are distinct (`BitcodeInv`), which with the cutting of
their list into disjoint slices keeps two workers out of one module; the phase every module is in at each
stage (`PhaseInv`), the barriers; what the filters have rejected and what is still in play in lists and
storages (`FilterInv`, `SelectInv`, `PointsInv`); what the index holds (`SyntaxInv`); the mutants in the
modules (`MutantsInv`); and the objects passed through and compiled, in `output` and in the storages of the
workers (`PassedInv`, `CompiledInv`). The refinement needs the order as well: every storage is in the order
of the objects (`ByObject`), and two ordered lists with the same elements are the same list.

`LinkDriverProofs` proves, for every set of command lines and every table of options (`TokenAssumption`,
`DriverAssumption`), `TypeCorrectness` and `Refinement` (`ImplementsLinkStep`). The refinement compares two
readings of a line: the drivers' (parser, then a loop for each purpose) and the real tool's. Each advances
by a token at a time (`ParseSteps`, `CollectSteps`, `ReadSteps`). `KeepsPace` says that after every token
the parser waits for the value of a listed option, or a loop skips the value of `-add_ast_path`, exactly
when the real tool does; from it `SameOptions` and `SameObjects` follow token by token (`Understanding`).
`ReadingBack` says that the real tool reads a rendered line as the options it was rendered from. The proofs
read a line with the drivers' idea of which options take a value; `SameValues` says that this is the real
tool's idea on every line without a `Lone` option, and a line built from such a line is one again
(`PlainLine`, `BuiltLine`). `RewritingFacts` says that the pipeline keeps the number of occurrences of each
object. The invariant `DataInv` then carries from phase to phase what the driver knows: `Parsed`,
`Gathered`, `Rewritten`, `Written`, `Built`.

`InductionLemmas` has what these proofs share: induction over the natural numbers as a fact about
sets of numbers (`LeastNumber`, `SetInduction`, from the library's theorem that < is well-founded; the
library's own induction theorems take an operator as a parameter, which the provers cannot
instantiate), and with it the facts about `FlattenSeq`, `Keep`, ordered and duplicate-free
sequences, counts of occurrences and sums.

`RunProgramProofs` proves, for every set of scripts, timeout and size of the pipe
(`RunAssumption`), `TypeCorrectness`, `StatusesAreExact` (`StatusIsExact`) and `ProcessesEnd`
(`NoProcessLeft`). `StatusIsExact` speaks of the returned status only; to carry it through the steps
the invariant says which process there is in which phase (`PhaseInv`), that an exited program has
run its whole script and the pipe holds exactly what was written (`ProcessInv`), that a negative exit status
goes with a timeout or a failed wait only, and that the clock
is no later than the steps computed so far unless the program hangs or will fill its pipe
(`ClockInv`): so a deadline that passes finds a program that needs at least the time it was given.
The counts are cardinalities of sets of places; the lemmas `CountNext`, `CountGrows` and `CountHere`
say how they change.

`SwiftFiltersProofs` proves, for every source and every set of called functions (`SwiftAssumption`),
`TypeCorrectness`, `SurvivorsWritten` (`SurvivorsAreWritten`) and `NothingLost` (`NothingElseIsLost`).
The invariant says that the index holds the mutations of the nodes already left and no others
(`IndexInv`), and that the remaining points are those no applied filter skips, the syntax filter being
applied to a finished index only (`PointsInv`). Both theorems use the part of `SwiftAssumption` about
Swift: a call is a statement of its own or the result of its block just when its parent is the block's item.

Only model-checked: the liveness properties (`Terminates` of six specifications), which need ENABLED and
fairness, and the bound that `xctestrun_timeout` refutes. All other properties of the runs are stated
by a theorem above. Of the assumptions, those on sizes, types and tables are checked by TLC on
every run; that the literal `"mull-ld-filelist"` and the options are strings is assumed only because the
provers have no rule for it.

## 5. Not modelled

`mull-dump-mutants` reads the mutants of one file and prints them; `MutantSerialization.cpp` is a call of
mull; neither has state. Left out as well: option parsing by LLVM and what the options that only configure
mull (paths, coverage, git) do there (the model of the drivers knows which are accepted), the mutators and
the code they generate, the compiler, help texts, logging, the shape of the JSON document, path computation,
dumps, version strings, the benchmark scripts and the build system: sequential code without state of its
own, or code of other projects. Undefined behaviour whose outcomes cannot be enumerated is listed among the
hazards and not modelled: the dangling argument list of plutil (`XCTestRunFile.cpp:90`), the wide write
through `errorCode` (`SyntaxMutationFinder.cpp:33`), null JSON objects (`XCResultFile.cpp:94`).

## 6. Plan

1. Done: executor with its abstract specification and proofs; runner over xcodebuild with its
   proofs; the abstract test runner, which `mull-xctest` and `mull-xctestrun` implement; the
   pipeline and its promise; the link drivers on top of it; `RunProgram`; the Swift filters.
2. Done: theorems for every safety property and every refinement of the runs.
3. Left: the hazards without a property, listed with their reasons in `PROJECT.json`; shorter proofs of
   the pipeline's list invariants and of the reading of command lines.
