------------------------- MODULE PthreadTaskExecutor -------------------------
(***************************************************************************)
(* include/MullXCTest/PthreadTaskExecutor.h: an executor that maps tasks   *)
(* over a container on threads with a stack of their own size.  Its one    *)
(* user is the Swift syntax index (SyntaxMutationFinder.cpp), whose task   *)
(* stores a result for every item; the executor is a template and the      *)
(* model admits tasks that skip items.  The stages of the pipeline and the *)
(* test runners map over mull's own executor, mull::TaskExecutor.          *)
(*                                                                         *)
(* Input items are 1..in; a task pushes one result for an item of `kept'   *)
(* and none for the others, then increments its progress counter.  The     *)
(* main thread spawns one pthread per worker over a contiguous slice of    *)
(* the input, starts the reporter thread (which runs until the counters    *)
(* add up to the number of items), joins them all and concatenates the     *)
(* workers' storages.  With one task or one item the main thread runs the  *)
(* task itself, straight into `out'.                                       *)
(*                                                                         *)
(* `storages' and `counters' are std::vectors whose elements the workers   *)
(* hold by reference: `storagesVec' and `countersVec' keep their size,     *)
(* capacity and the identity of the block they live in, `refs' the blocks  *)
(* a worker's references point into.                                       *)
(***************************************************************************)
EXTENDS Naturals, Sequences, Functions

CONSTANTS MaxIn,       \* bound: largest number of input items
          MaxTasks     \* bound: largest number of tasks

ASSUME SizesAssumption == MaxIn \in Nat /\ MaxTasks \in Nat

VARIABLES
    in, tasks, kept,            \* the constructor's arguments
    out,                        \* the caller's result container
    pc, i,                      \* main thread: program counter, loop index
    cuts,                       \* ends of the batches of taskBatches
    threads, it,                \* per worker: state and iterator
    storages, counters,         \* per worker: results and progress
    storagesVec, countersVec,   \* the two vectors' memory
    refs,                       \* per worker: the blocks it refers to
    reporter                    \* the progress reporter's thread

args == <<in, tasks, kept>>
mem  == <<storagesVec, countersVec, refs>>
work == <<threads, it, storages, counters>>
vars == <<args, out, pc, i, cuts, work, mem, reporter>>

Worker == 1..MaxTasks
Item   == 1..MaxIn
Workers == IF in < tasks THEN in ELSE tasks

EmptyVec == [size |-> 0, capacity |-> 0, block |-> 0]
Reserve(v, n) == [size |-> v.size, capacity |-> n, block |-> v.block + 1]
PushBack(v) ==
    IF v.size < v.capacity
    THEN [v EXCEPT !.size = @ + 1]
    ELSE [size |-> v.size + 1, capacity |-> v.size + 1, block |-> v.block + 1]

(* taskBatches(in, workers): a partition of the input into consecutive     *)
(* batches, one per worker, given by where each of them ends.              *)
Batches ==
    {c \in [0..MaxTasks -> 0..in] :
        /\ c[0] = 0
        /\ \A w \in Worker : c[w-1] <= c[w]
        /\ c[Workers] = in}

(* Fault: a batch starts one item early.                                   *)
BeginOverlapping(w) == IF pc = "sequential" \/ cuts[w-1] = 0 THEN 0 ELSE cuts[w-1] - 1

(* Fault: every batch but the first loses its first item.                  *)
BeginSkipping(w) ==
    IF pc = "sequential" THEN 0
    ELSE IF cuts[w-1] \in 1..cuts[w]-1 THEN cuts[w-1] + 1 ELSE cuts[w-1]

Begin(w) == IF pc = "sequential" THEN 0 ELSE cuts[w-1]
End(w)   == IF pc = "sequential" THEN in ELSE cuts[w]

Init ==
    /\ in \in 0..MaxIn /\ tasks \in 0..MaxTasks /\ kept \in SUBSET (1..in)
    /\ out = <<>>
    /\ pc = "execute" /\ i = 1
    /\ cuts = [w \in 0..MaxTasks |-> 0]
    /\ threads = [w \in Worker |-> "none"]
    /\ it = [w \in Worker |-> 0]
    /\ storages = [w \in Worker |-> <<>>]
    /\ counters = [w \in Worker |-> 0]
    /\ storagesVec = EmptyVec /\ countersVec = EmptyVec
    /\ refs = [w \in Worker |-> [storages |-> 0, counters |-> 0]]
    /\ reporter = "none"

-----------------------------------------------------------------------------
(* The main thread: execute() and its two strategies.                      *)

ReturnEarly ==
    /\ pc = "execute"
    /\ tasks = 0 \/ in = 0
    /\ pc' = "done"
    /\ UNCHANGED <<args, out, i, cuts, work, mem, reporter>>

(* executeSequentially(): the reporter runs beside the task, which the     *)
(* main thread executes itself (as worker 1, writing to `out').            *)
BeginSequential ==
    /\ pc = "execute"
    /\ tasks > 0 /\ in > 0 /\ (tasks = 1 \/ in = 1)
    /\ countersVec' = PushBack(countersVec)
    /\ refs' = [refs EXCEPT ![1] = [storages |-> storagesVec.block,
                                    counters |-> countersVec'.block]]
    /\ reporter' = "running"
    /\ threads' = [threads EXCEPT ![1] = "iterate"]
    /\ pc' = "sequential"
    /\ UNCHANGED <<args, out, i, cuts, it, storages, counters, storagesVec>>

FinishSequential ==
    /\ pc = "sequential"
    /\ threads[1] = "exited" /\ reporter = "finished"
    /\ pc' = "done"
    /\ UNCHANGED <<args, out, i, cuts, work, mem, reporter>>

(* Fault: the vectors are not reserved.                                    *)
BeginParallelUnreserved ==
    /\ pc = "execute"
    /\ tasks > 1 /\ in > 1
    /\ cuts' \in Batches
    /\ pc' = "spawn"
    /\ UNCHANGED <<args, out, i, work, mem, reporter>>

BeginParallel ==
    /\ pc = "execute"
    /\ tasks > 1 /\ in > 1
    /\ cuts' \in Batches
    /\ storagesVec' = Reserve(storagesVec, Workers)
    /\ countersVec' = Reserve(countersVec, Workers)
    /\ pc' = "spawn"
    /\ UNCHANGED <<args, out, i, work, refs, reporter>>

(* One turn of the spawn loop: both push_backs, the references captured    *)
(* by the closure, and pthread_create.                                     *)
SpawnWorker ==
    /\ pc = "spawn" /\ i <= Workers
    /\ storagesVec' = PushBack(storagesVec)
    /\ countersVec' = PushBack(countersVec)
    /\ refs' = [refs EXCEPT ![i] = [storages |-> storagesVec'.block,
                                    counters |-> countersVec'.block]]
    /\ it' = [it EXCEPT ![i] = Begin(i)]
    /\ threads' = [threads EXCEPT ![i] = "iterate"]
    /\ i' = i + 1
    /\ UNCHANGED <<args, out, pc, cuts, storages, counters, reporter>>

StartReporter ==
    /\ pc = "spawn" /\ i > Workers
    /\ reporter' = "running"
    /\ pc' = "join" /\ i' = 1
    /\ UNCHANGED <<args, out, cuts, work, mem>>

(* Fault: the worker is detached instead of joined.                        *)
JoinWorkerWithoutWaiting ==
    /\ pc = "join" /\ i <= Workers
    /\ i' = i + 1
    /\ UNCHANGED <<args, out, pc, cuts, work, mem, reporter>>

JoinWorker ==
    /\ pc = "join" /\ i <= Workers
    /\ threads[i] = "exited"
    /\ i' = i + 1
    /\ UNCHANGED <<args, out, pc, cuts, work, mem, reporter>>

JoinReporter ==
    /\ pc = "join" /\ i > Workers
    /\ reporter = "finished"
    /\ pc' = "collect" /\ i' = 1
    /\ UNCHANGED <<args, out, cuts, work, mem, reporter>>

(* Fault: storages are put in front of what was collected.                 *)
CollectStoragePrepending ==
    /\ pc = "collect" /\ i <= Workers
    /\ out' = storages[i] \o out
    /\ i' = i + 1
    /\ UNCHANGED <<args, pc, cuts, work, mem, reporter>>

(* One storage appended to the caller's container.                         *)
CollectStorage ==
    /\ pc = "collect" /\ i <= Workers
    /\ out' = out \o storages[i]
    /\ i' = i + 1
    /\ UNCHANGED <<args, pc, cuts, work, mem, reporter>>

FinishParallel ==
    /\ pc = "collect" /\ i > Workers
    /\ pc' = "done"
    /\ UNCHANGED <<args, out, i, cuts, work, mem, reporter>>

(* ReportErrnumFatal: pthread_attr_*, pthread_create or pthread_join, or   *)
(* the reporter's std::thread, failed.  The process ends with its threads  *)
(* at once: nothing is unwound.                                            *)
Fatal ==
    /\ \/ pc \in {"spawn", "join"}
       \/ pc = "execute" /\ tasks > 0 /\ in > 0 /\ (tasks = 1 \/ in = 1)
    /\ pc' = "aborted"
    /\ UNCHANGED <<args, out, i, cuts, work, mem, reporter>>

Main ==
    \/ ReturnEarly \/ BeginSequential \/ FinishSequential
    \/ BeginParallel \/ SpawnWorker \/ StartReporter
    \/ JoinWorker \/ JoinReporter \/ CollectStorage \/ FinishParallel

-----------------------------------------------------------------------------
(* The tasks: for each item, push_back of a result or not, then            *)
(* counter.increment() (also on the `continue' paths).                     *)

Alive == pc \notin {"done", "aborted"}

(* Fault: the loop runs one past the end of the slice.                     *)
ProcessItemPastEnd(w) ==
    /\ Alive /\ threads[w] = "iterate" /\ it[w] <= End(w)
    /\ storages' = [storages EXCEPT ![w] = Append(@, it[w] + 1)]
    /\ threads' = [threads EXCEPT ![w] = "increment"]
    /\ UNCHANGED <<args, out, pc, i, cuts, it, counters, mem, reporter>>

(* The body of the task's loop; in sequential mode its storage is `out'.   *)
ProcessItem(w) ==
    /\ Alive /\ threads[w] = "iterate" /\ it[w] < End(w)
    /\ LET item == it[w] + 1 IN
       \/ /\ item \in kept /\ pc = "sequential"
          /\ out' = Append(out, item)
          /\ UNCHANGED storages
       \/ /\ item \in kept /\ pc # "sequential"
          /\ storages' = [storages EXCEPT ![w] = Append(@, item)]
          /\ UNCHANGED out
       \/ /\ item \notin kept
          /\ UNCHANGED <<out, storages>>
    /\ threads' = [threads EXCEPT ![w] = "increment"]
    /\ UNCHANGED <<args, pc, i, cuts, it, counters, mem, reporter>>

IncrementCounter(w) ==
    /\ Alive /\ threads[w] = "increment"
    /\ counters' = [counters EXCEPT ![w] = @ + 1]
    /\ it' = [it EXCEPT ![w] = @ + 1]
    /\ threads' = [threads EXCEPT ![w] = "iterate"]
    /\ UNCHANGED <<args, out, pc, i, cuts, storages, mem, reporter>>

ExitThread(w) ==
    /\ Alive /\ threads[w] = "iterate" /\ it[w] = End(w)
    /\ threads' = [threads EXCEPT ![w] = "exited"]
    /\ UNCHANGED <<args, out, pc, i, cuts, it, storages, counters, mem, reporter>>

Task(w) == ProcessItem(w) \/ IncrementCounter(w) \/ ExitThread(w)

(* mull::progress_reporter returns once the counters add up to the total.  *)
ReporterFinishes ==
    /\ Alive /\ reporter = "running"
    /\ SumFunction(counters) = in
    /\ reporter' = "finished"
    /\ UNCHANGED <<args, out, pc, i, cuts, work, mem>>

Terminated == ~Alive /\ UNCHANGED vars

Next == Main \/ Fatal \/ (\E w \in Worker : Task(w)) \/ ReporterFinishes \/ Terminated

(* The operating system keeps scheduling every thread.  A failure may come *)
(* at any time but is owed to nobody: a join that blocks stays blocked.    *)
Fairness ==
    /\ WF_vars(Main)
    /\ \A w \in Worker : WF_vars(Task(w))
    /\ WF_vars(ReporterFinishes)

Spec == Init /\ [][Next]_vars
FairSpec == Spec /\ Fairness

-----------------------------------------------------------------------------
VecType == [size : Nat, capacity : Nat, block : Nat]

(* Every variable of the executor ranges over the values its C++ type and  *)
(* the loops over in/tasks allow.                                          *)
TypeOK ==
    /\ in \in 0..MaxIn /\ tasks \in 0..MaxTasks /\ kept \in SUBSET (1..in)
    /\ out \in Seq(Item)
    /\ pc \in {"execute", "sequential", "spawn", "join", "collect", "done", "aborted"}
    /\ i \in 1..MaxTasks + 1
    /\ cuts \in [0..MaxTasks -> 0..MaxIn]
    /\ threads \in [Worker -> {"none", "iterate", "increment", "exited"}]
    /\ it \in [Worker -> 0..MaxIn]
    /\ storages \in [Worker -> Seq(Item)]
    /\ counters \in [Worker -> Nat]
    /\ storagesVec \in VecType /\ countersVec \in VecType
    /\ refs \in [Worker -> [storages : Nat, counters : Nat]]
    /\ reporter \in {"none", "running", "finished"}

Abstract == INSTANCE OrderedMap
    WITH status <- CASE pc = "done" -> "returned"
                     [] pc = "aborted" -> "dead"
                     [] OTHER -> "running"

(* execute() implements the ordered map of its tasks over its input:       *)
(* whatever the schedule of the workers, the caller's container only ever  *)
(* grows by results in input order, and holds all of them, once each, when *)
(* execute() returns.                                                      *)
ImplementsOrderedMap == Abstract!Spec

(* A worker that still runs never holds a reference into a freed block:    *)
(* the reserve() calls cover every push_back of the spawn loop.            *)
NoDanglingReference ==
    \A w \in Worker : threads[w] \in {"iterate", "increment"} =>
        /\ refs[w].storages = storagesVec.block
        /\ refs[w].counters = countersVec.block

(* Progress never runs ahead of the results: once the reporter has seen    *)
(* the total, the result of every kept item has been stored, even though   *)
(* no worker need have exited yet.                                         *)
ReporterSawEverything ==
    reporter = "finished" =>
        kept = Range(out) \cup UNION {Range(storages[w]) : w \in Worker}

(* While a worker of the parallel mode runs, the caller's container is not *)
(* touched: the results are merged after the last join.                    *)
MergeAfterJoin ==
    [][(pc # "sequential" /\ out' # out) =>
          \A w \in Worker : threads[w] \in {"none", "exited"}]_vars

(* execute() returns unless a failure ends the process: every reporter and *)
(* worker that is waited for finishes, and no failure is needed for it.    *)
Terminates == <>(pc \in {"done", "aborted"})
=============================================================================
