--------------------------- MODULE MutationPipeline ---------------------------
(***************************************************************************)
(* lib/MutationPipeline.cpp: what mull-ld and mull-libtool do with the     *)
(* object files of a link, from the embedded bitcode to the list of files  *)
(* handed to the real linker.                                              *)
(*                                                                         *)
(* The main thread walks through `pc'; most stages map a task over a       *)
(* vector with a task executor and wait for it.  The executor is modelled  *)
(* at the grain that matters here: workers take an item of their batch,    *)
(* and are `busy' with its LLVM module until they finish it.  (What an     *)
(* executor itself does is module PthreadTaskExecutor.)                    *)
(*                                                                         *)
(* Items are tuples: <<o>> the bitcode or the source file of input object  *)
(* o, <<o, f>> its f-th function, <<o, f, p>> the p-th mutation point of   *)
(* that function.  Which items a filter rejects is chosen as it is asked,  *)
(* and remembered in `rejected' for the properties.                        *)
(***************************************************************************)
EXTENDS Naturals, Sequences, SequencesExt, Filtering

CONSTANTS
    Programs,          \* possible inputs: sequences of [kind, functions]
    Workers,           \* config.parallelization.workers
    FunctionFilters,   \* number of filters.functionFilters
    MutationFilters    \* number of the driver's filters.mutationFilters

Kinds == {"unreadable", "unloadable", "bitcode"}

ASSUME PipelineAssumption ==
    /\ Workers \in Nat \ {0}
    /\ FunctionFilters \in Nat /\ MutationFilters \in Nat
    /\ Programs \subseteq Seq([kind : Kinds, functions : Seq(Nat)])

VARIABLES
    inputObjects, syntax,     \* the inputs and EnableSyntaxFilter
    pc, i,                    \* the stage; the index of its loop
    output,                   \* outputObjectFiles
    bitcode,                  \* program.bitcode(): the loaded modules
    functions, points,        \* the functions and the points still in play
    selected,                 \* instructions selected in them
    mutationFilters,          \* filters.mutationFilters
    astStorage,               \* astMutationStorage: points the index confirms
    modules,                  \* per input: what was done to its LLVM module
    running, cuts, at, busy, stored,   \* the executor of the stage
    rejected                  \* points some filter rejected (history)

config   == <<inputObjects, syntax>>
lists    == <<functions, points, selected, mutationFilters, astStorage>>
executor == <<running, cuts, at, busy, stored>>
vars == <<config, pc, i, output, bitcode, lists, modules, executor, rejected>>

Worker == 1..Workers
Object == 1..Len(inputObjects)
Function == UNION {{<<o, f>> : f \in DOMAIN inputObjects[o].functions} : o \in Object}
PointsOf(fn) == {<<fn[1], fn[2], p>> : p \in 1..inputObjects[fn[1]].functions[fn[2]]}
Point == UNION {PointsOf(fn) : fn \in Function}
PointsIn(o) == {q \in Point : q[1] = o}

FilterStages == {"functionFilter", "mutationFilter"}

(* Fault: mutations are applied before the trampolines are inserted.       *)
ApplyStagesSwapped == <<"clone", "delete", "apply", "redirect", "compile">>

(* The executors of applyMutation(), and the compilation after it.         *)
ApplyStages == <<"clone", "delete", "redirect", "apply", "compile">>
Parallel == FilterStages \cup {"select", "index"} \cup Range(ApplyStages)

(* The sources of the remaining points: a std::set of file paths.          *)
Sources == Keep(bitcode, {<<q[1]>> : q \in Range(points)})

(* What the executor of the stage maps over, and with how many tasks.      *)
Items ==
    IF pc \in {"functionFilter", "select"} THEN functions
    ELSE IF pc \in {"mutationFilter", "apply"} THEN points
    ELSE IF pc = "index" THEN Sources
    ELSE bitcode

(* Fault: mutations are applied by as many tasks as the other stages use.  *)
TasksOfAnyStage == Workers

Tasks == IF pc = "apply" THEN 1 ELSE Workers

Batches ==
    LET n == Len(Items) IN
    {c \in [0..Workers -> 0..n] :
        /\ c[0] = 0
        /\ \A w \in Worker : c[w-1] <= c[w]
        /\ c[IF n = 0 \/ Tasks < n THEN Tasks ELSE n] = n}

Init ==
    /\ inputObjects \in Programs /\ syntax \in BOOLEAN
    /\ pc = "extract" /\ i = 1
    /\ output = <<>> /\ bitcode = <<>>
    /\ functions = <<>> /\ points = <<>> /\ selected = {}
    /\ mutationFilters = [k \in 1..MutationFilters |-> "configured"]
    /\ astStorage = {}
    /\ modules = [o \in Object |-> [phase |-> "original", added |-> {}, mutants |-> {}]]
    /\ running = FALSE
    /\ cuts = [w \in 0..Workers |-> 0]
    /\ at = [w \in Worker |-> 0]
    /\ busy = [w \in Worker |-> FALSE]
    /\ stored = [w \in Worker |-> <<>>]
    /\ rejected = {}

-----------------------------------------------------------------------------
(* The main thread between the parallel stages.                            *)

(* Whether there is a Mach-O file to read a section from, and whether its  *)
(* contents - possibly none at all - are a bitcode module.                 *)
extractEmbeddedFile(o) == inputObjects[o].kind # "unreadable"
loadBitcodeFromBuffer(o) == inputObjects[o].kind = "bitcode"

PassThrough(o) == [object |-> o, compiled |-> FALSE, mutants |-> {}]

(* Fault: `continue' is missing after a buffer that could not be loaded.   *)
ExtractObjectTwice ==
    /\ pc = "extract" /\ i <= Len(inputObjects)
    /\ output' = IF loadBitcodeFromBuffer(i) THEN output
                 ELSE Append(output, PassThrough(i))
    /\ bitcode' = IF extractEmbeddedFile(i) THEN Append(bitcode, <<i>>) ELSE bitcode
    /\ i' = i + 1
    /\ UNCHANGED <<config, pc, lists, modules, executor, rejected>>

(* One input object: what cannot be extracted or loaded goes to the linker *)
(* as it is.                                                               *)
ExtractObject ==
    /\ pc = "extract" /\ i <= Len(inputObjects)
    /\ \/ /\ ~extractEmbeddedFile(i) \/ ~loadBitcodeFromBuffer(i)
          /\ output' = Append(output, PassThrough(i))
          /\ UNCHANGED bitcode
       \/ /\ extractEmbeddedFile(i) /\ loadBitcodeFromBuffer(i)
          /\ bitcode' = Append(bitcode, <<i>>)
          /\ UNCHANGED output
    /\ i' = i + 1
    /\ UNCHANGED <<config, pc, lists, modules, executor, rejected>>

(* getFunctionsUnderTest(): with a coverage mapping and without            *)
(* includeNotCovered only the covered functions are kept; otherwise all.   *)
GatherFunctions ==
    /\ pc = "extract" /\ i > Len(inputObjects)
    /\ \E kept \in SUBSET Function :
          /\ functions' = Keep(FlattenSeq([k \in DOMAIN bitcode |->
                LET o == bitcode[k][1] IN
                [f \in DOMAIN inputObjects[o].functions |-> <<o, f>>]]), kept)
          /\ rejected' = UNION {PointsOf(fn) : fn \in Function \ kept}
    /\ pc' = "functionFilter" /\ i' = 1
    /\ UNCHANGED <<config, output, bitcode, points, selected, mutationFilters,
                   astStorage, modules, executor>>

(* mutationsFinder.getMutationPoints() over the selected instructions,     *)
(* then setupSwiftFilter().                                                *)
FindMutationPoints ==
    /\ pc = "search"
    /\ points' = Keep(FlattenSeq([k \in DOMAIN functions |->
          LET fn == functions[k] IN
          [p \in 1..inputObjects[fn[1]].functions[fn[2]] |-> <<fn[1], fn[2], p>>]]), selected)
    /\ mutationFilters' = Append(mutationFilters, "runtime")
    /\ pc' = IF syntax THEN "index" ELSE "mutationFilter"
    /\ i' = 1
    /\ UNCHANGED <<config, output, bitcode, functions, selected, astStorage,
                   modules, executor, rejected>>

(* Nothing survived: the linker gets the original objects.                 *)
ReturnInputs ==
    /\ pc = "filtered" /\ points = <<>>
    /\ output' = [o \in Object |-> PassThrough(o)]
    /\ pc' = "done"
    /\ UNCHANGED <<config, i, bitcode, lists, modules, executor, rejected>>

(* "Prepare mutations": each point is added to its module.                 *)
PrepareMutations ==
    /\ pc = "filtered" /\ points # <<>>
    /\ modules' = [o \in Object |->
          [modules[o] EXCEPT !.added = {q \in Range(points) : q[1] = o}]]
    /\ pc' = ApplyStages[1] /\ i' = 1
    /\ UNCHANGED <<config, output, bitcode, lists, executor, rejected>>

-----------------------------------------------------------------------------
(* The parallel stages: batches are handed out, the workers map their      *)
(* items, and the main thread waits for all of them.                       *)

StartStage ==
    /\ pc \in Parallel /\ ~running
    /\ \/ pc = "functionFilter" /\ i <= FunctionFilters
       \/ pc = "mutationFilter" /\ i <= Len(mutationFilters)
       \/ pc \notin FilterStages
    /\ cuts' \in Batches
    /\ at' = [w \in Worker |-> cuts'[w-1]]
    /\ stored' = [w \in Worker |-> <<>>]
    /\ running' = TRUE
    /\ UNCHANGED <<config, pc, i, output, bitcode, lists, modules, busy, rejected>>

TakeItem(w) ==
    /\ running /\ ~busy[w] /\ at[w] < cuts[w]
    /\ busy' = [busy EXCEPT ![w] = TRUE]
    /\ UNCHANGED <<config, pc, i, output, bitcode, lists, modules, running, cuts,
                   at, stored, rejected>>

Item(w) == Items[at[w] + 1]

ItemDone(w) ==
    /\ running /\ busy[w]
    /\ at' = [at EXCEPT ![w] = @ + 1]
    /\ busy' = [busy EXCEPT ![w] = FALSE]
    /\ UNCHANGED <<config, pc, i, output, bitcode, functions, points,
                   mutationFilters, running, cuts>>

(* FunctionFilterTask: any filter may skip any function.                   *)
FilterFunction(w) ==
    /\ pc = "functionFilter" /\ ItemDone(w)
    /\ \/ /\ stored' = [stored EXCEPT ![w] = Append(@, Item(w))]
          /\ UNCHANGED rejected
       \/ /\ rejected' = rejected \cup PointsOf(Item(w))
          /\ UNCHANGED stored
    /\ UNCHANGED <<selected, astStorage, modules>>

(* InstructionSelectionTask: the instructions no filter skips are recorded *)
(* in the function itself.                                                 *)
SelectInstructions(w) ==
    /\ pc = "select" /\ ItemDone(w)
    /\ \E chosen \in SUBSET PointsOf(Item(w)) :
          /\ selected' = selected \cup chosen
          /\ rejected' = rejected \cup (PointsOf(Item(w)) \ chosen)
    /\ UNCHANGED <<astStorage, modules, stored>>

(* Fault: the source is indexed straight into the shared storage.          *)
IndexSourceShared(w) ==
    /\ pc = "index" /\ ItemDone(w)
    /\ \E found \in SUBSET PointsIn(Item(w)[1]) : astStorage' = astStorage \cup found
    /\ UNCHANGED <<selected, modules, stored, rejected>>

(* IndexSwiftSourceTask: a storage of its own for each source file, empty  *)
(* when the file cannot be parsed.                                         *)
IndexSource(w) ==
    /\ pc = "index" /\ ItemDone(w)
    /\ \E found \in SUBSET PointsIn(Item(w)[1]) :
          stored' = [stored EXCEPT ![w] = Append(@, found)]
    /\ UNCHANGED <<selected, astStorage, modules, rejected>>

(* MutationFilterTask.  The AST filter keeps what the index holds, the     *)
(* others (the Swift runtime filter included) may skip any point.          *)
FilterMutation(w) ==
    /\ pc = "mutationFilter" /\ ItemDone(w)
    /\ \/ /\ mutationFilters[i] = "syntax" => Item(w) \in astStorage
          /\ stored' = [stored EXCEPT ![w] = Append(@, Item(w))]
          /\ UNCHANGED rejected
       \/ /\ mutationFilters[i] = "syntax" => Item(w) \notin astStorage
          /\ rejected' = rejected \cup {Item(w)}
          /\ UNCHANGED stored
    /\ UNCHANGED <<selected, astStorage, modules>>

(* CloneMutatedFunctions, DeleteOriginalFunctions and                      *)
(* InsertMutationTrampolines take a module one phase further.              *)
TransformModule(w) ==
    /\ pc \in {"clone", "delete", "redirect"} /\ ItemDone(w)
    /\ modules' = [modules EXCEPT ![Item(w)[1]].phase = pc]
    /\ UNCHANGED <<selected, astStorage, stored, rejected>>

ApplyMutation(w) ==
    /\ pc = "apply" /\ ItemDone(w)
    /\ modules' = [modules EXCEPT ![Item(w)[1]].mutants = @ \cup {Item(w)}]
    /\ UNCHANGED <<selected, astStorage, stored, rejected>>

CompileModule(w) ==
    /\ pc = "compile" /\ ItemDone(w)
    /\ LET o == Item(w)[1] IN
          stored' = [stored EXCEPT ![w] = Append(@,
              [object |-> o, compiled |-> TRUE, mutants |-> modules[o].mutants])]
    /\ UNCHANGED <<selected, astStorage, modules, rejected>>

Task(w) ==
    \/ TakeItem(w)
    \/ FilterFunction(w) \/ SelectInstructions(w) \/ IndexSource(w)
    \/ FilterMutation(w) \/ TransformModule(w) \/ ApplyMutation(w)
    \/ CompileModule(w)

(* Fault: only the first worker is waited for.                             *)
JoinedFirst == running /\ at[1] = cuts[1]

(* All workers joined; their results, in the order of the batches.         *)
Joined == running /\ \A w \in Worker : at[w] = cuts[w]
Results == FlattenSeq([w \in Worker |-> stored[w]])

(* Fault: every filter starts from all the mutations.                      *)
EndFilterStale ==
    /\ pc \in FilterStages /\ Joined
    /\ IF pc = "functionFilter" THEN functions' = Results /\ UNCHANGED points
       ELSE /\ points' = IF i = Len(mutationFilters) THEN Results ELSE points
            /\ UNCHANGED functions
    /\ i' = i + 1
    /\ running' = FALSE
    /\ UNCHANGED <<config, pc, output, bitcode, selected, mutationFilters,
                   astStorage, modules, cuts, at, busy, stored, rejected>>

(* Fault: the same filter is applied again and again.                      *)
EndFilterRepeating ==
    /\ pc \in FilterStages /\ Joined
    /\ \/ pc = "functionFilter" /\ functions' = Results /\ UNCHANGED points
       \/ pc = "mutationFilter" /\ points' = Results /\ UNCHANGED functions
    /\ running' = FALSE
    /\ UNCHANGED <<config, pc, i, output, bitcode, selected, mutationFilters,
                   astStorage, modules, cuts, at, busy, stored, rejected>>

(* The next filter works on what this one kept.                            *)
EndFilter ==
    /\ pc \in FilterStages /\ Joined
    /\ \/ pc = "functionFilter" /\ functions' = Results /\ UNCHANGED points
       \/ pc = "mutationFilter" /\ points' = Results /\ UNCHANGED functions
    /\ i' = i + 1
    /\ running' = FALSE
    /\ UNCHANGED <<config, pc, output, bitcode, selected, mutationFilters,
                   astStorage, modules, cuts, at, busy, stored, rejected>>

LeaveFilters ==
    /\ ~running
    /\ \/ pc = "functionFilter" /\ i > FunctionFilters /\ pc' = "select"
       \/ pc = "mutationFilter" /\ i > Len(mutationFilters) /\ pc' = "filtered"
    /\ i' = 1
    /\ UNCHANGED <<config, output, bitcode, lists, modules, executor, rejected>>

EndSelection ==
    /\ pc = "select" /\ Joined
    /\ pc' = "search" /\ running' = FALSE
    /\ UNCHANGED <<config, i, output, bitcode, lists, modules, cuts, at, busy, stored,
                   rejected>>

(* findMutations() emplaces every storage into the pipeline's: the keys of *)
(* different files differ.                                                 *)
MergedStorage == astStorage \cup UNION Range(Results)

(* setupSyntaxFilter() ends with the AST filter appended.                  *)
EndIndex ==
    /\ pc = "index" /\ Joined
    /\ astStorage' = MergedStorage
    /\ mutationFilters' = Append(mutationFilters, "syntax")
    /\ pc' = "mutationFilter" /\ running' = FALSE
    /\ UNCHANGED <<config, i, output, bitcode, functions, points, selected, modules,
                   cuts, at, busy, stored, rejected>>

(* applyMutation() goes from stage to stage; compiled objects are appended *)
(* to the objects passed through.                                          *)
EndApplyStage ==
    /\ pc \in Range(ApplyStages) /\ Joined
    /\ i' = i + 1
    /\ pc' = IF i < Len(ApplyStages) THEN ApplyStages[i + 1] ELSE "done"
    /\ output' = output \o Results
    /\ running' = FALSE
    /\ UNCHANGED <<config, bitcode, lists, modules, cuts, at, busy, stored, rejected>>

Main ==
    \/ ExtractObject \/ GatherFunctions \/ FindMutationPoints
    \/ ReturnInputs \/ PrepareMutations
    \/ StartStage \/ EndFilter \/ LeaveFilters \/ EndSelection
    \/ EndIndex \/ EndApplyStage

Terminated == pc = "done" /\ UNCHANGED vars

Next == Main \/ (\E w \in Worker : Task(w)) \/ Terminated

(* The operating system keeps scheduling the threads, and every task       *)
(* returns.                                                                *)
Fairness == WF_vars(Main) /\ \A w \in Worker : WF_vars(Task(w))

Spec == Init /\ [][Next]_vars
FairSpec == Spec /\ Fairness

-----------------------------------------------------------------------------
(* Items and lists stay within the program that was given, and every       *)
(* worker within its batch.                                                *)
TypeOK ==
    /\ inputObjects \in Programs /\ syntax \in BOOLEAN
    /\ pc \in Parallel \cup {"extract", "search", "filtered", "done"}
    /\ i \in Nat
    /\ output \in Seq([object : Object, compiled : BOOLEAN, mutants : SUBSET Point])
    /\ bitcode \in Seq({<<o>> : o \in Object})
    /\ functions \in Seq(Function) /\ points \in Seq(Point)
    /\ selected \in SUBSET Point /\ astStorage \in SUBSET Point
    /\ mutationFilters \in Seq({"configured", "runtime", "syntax"})
    /\ modules \in [Object -> [phase : {"original", "clone", "delete", "redirect"},
                               added : SUBSET Point, mutants : SUBSET Point]]
    /\ running \in BOOLEAN
    /\ cuts \in [0..Workers -> Nat]
    /\ at \in [Worker -> Nat] /\ busy \in [Worker -> BOOLEAN]
    /\ \A w \in Worker : at[w] <= cuts[w] /\ (busy[w] => running /\ at[w] < cuts[w])
    /\ rejected \in SUBSET Point

Pipeline == INSTANCE ObjectRewriting WITH
    inputObjects <- [o \in Object |-> o],
    output <- IF pc = "done"
              THEN [k \in DOMAIN output |->
                       [object |-> output[k].object, compiled |-> output[k].compiled]]
              ELSE <<>>,
    done <- pc = "done"

(* The pipeline rewrites the list of objects: every object of the link     *)
(* line is linked exactly once, passed through in its place among the      *)
(* others that are, or compiled from its mutated bitcode and after them in *)
(* the same order, whichever workers compiled it.  A lost or doubled       *)
(* object shows up as missing or duplicate symbols in the user's link, a   *)
(* swapped one as another archive member or another initialisation order.  *)
ImplementsObjectRewriting == Pipeline!Spec

(* What is linked carries exactly the mutants that no filter rejected:     *)
(* a rejected point never reaches an object, a surviving one is never lost *)
(* on the way through the parallel stages, and every one of them has been  *)
(* announced to its module before the trampolines were inserted.           *)
LinkedMutantsAreTheSurvivors ==
    pc = "done" =>
        LET linked == UNION {output[k].mutants : k \in DOMAIN output}
            mutable == UNION {PointsIn(bitcode[k][1]) : k \in DOMAIN bitcode}
        IN  /\ linked = mutable \ rejected
            /\ \A o \in Object : modules[o].mutants = modules[o].added
            /\ syntax => linked \subseteq astStorage

Modifying == {"clone", "delete", "redirect", "apply", "compile"}

(* An LLVM module and its context are not thread-safe: while a worker      *)
(* changes or compiles a module no other worker is busy with it.           *)
ModuleExclusive ==
    pc \in Modifying =>
        \A v, w \in Worker : busy[v] /\ busy[w] /\ v # w => Item(v)[1] # Item(w)[1]

PhaseRank == [original |-> 0, clone |-> 1, delete |-> 2, redirect |-> 3]

(* The stages of applyMutation() are barriers: no module is two phases     *)
(* ahead of another, and mutants are applied, and objects compiled, only   *)
(* when every module has its trampolines.                                  *)
StagesAreBarriers ==
    LET rank(k) == PhaseRank[modules[bitcode[k][1]].phase] IN
    /\ \A k, l \in DOMAIN bitcode : rank(k) <= rank(l) + 1
    /\ (\E o \in Object : modules[o].mutants # {})
           => \A k \in DOMAIN bitcode : rank(k) = 3

(* What the workers share without a lock - the lists they map over, the    *)
(* filters and the AST mutation storage - changes only while none of them  *)
(* is busy.                                                                *)
SharedDataChangesAtRest ==
    [][<<functions, points, mutationFilters, astStorage, bitcode>>'
         # <<functions, points, mutationFilters, astStorage, bitcode>>
           => \A w \in Worker : ~busy[w]]_vars

(* The pipeline hands a list of objects to the linker.                     *)
Terminates == <>(pc = "done")
=============================================================================
