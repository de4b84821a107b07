-------------------------- MODULE XCTestInvocation --------------------------
(***************************************************************************)
(* tools/mull-xctest/XCTestInvocation.cpp: mutants are run by xctest, one  *)
(* process per mutant.                                                     *)
(*                                                                         *)
(* run() reads the mutants from the test bundle, runs the tests twice      *)
(* without a mutant - the first run warms the system up, the second one    *)
(* measures the baseline - and hands batches of the mutants to concurrent  *)
(* tasks.  A task starts a process for each mutant that the tests cover,   *)
(* with the mutant's variable in its environment, and waits for it ten     *)
(* times as long as the baseline took.                                     *)
(*                                                                         *)
(* `detected', `hanging' and `healthy' are facts about the tests, as in    *)
(* XCTestRunInvocation.  In a world that is not `reliable' a run may also  *)
(* take arbitrarily long or crash for reasons of its own.                  *)
(***************************************************************************)
EXTENDS Naturals, Sequences

CONSTANTS Mutant,        \* identifiers of mutants
          MutantLists,   \* what ExtractMutantInfo can find in the bundle
          MaxMutants,    \* bound: length of those lists
          Workers,       \* mutantExecutionWorkers
          Timeout,       \* config.timeout, of the two runs without mutants
          Times          \* running times of the tests once warmed up

(* The times of undisturbed runs differ less than the factor the code      *)
(* allows for, and a healthy baseline stays within its timeout.            *)
ASSUME ParametersAssumption ==
    /\ MaxMutants \in Nat /\ Workers \in Nat \ {0} /\ Timeout \in Nat \ {0}
    /\ Times \subseteq 1..Timeout
    /\ \A s, t \in Times : s <= 10 * t
    /\ MutantLists \subseteq Seq(Mutant)
    /\ \A list \in MutantLists : Len(list) <= MaxMutants

VARIABLES
    detected, hanging, covered, healthy, reliable,   \* the world
    pc, mutants, baseline, cuts,                     \* run()
    next, process,         \* per task: the mutant it is at, and its process
    verdict                \* per mutant: the MutationResult

world == <<detected, hanging, covered, healthy, reliable>>
main  == <<pc, mutants, baseline, cuts>>
task  == <<next, process>>
vars  == <<world, main, task, verdict>>

Task == 1..Workers
Index == 1..MaxMutants
Used == IF Len(mutants) < Workers THEN Len(mutants) ELSE Workers
Verdicts == {"Passed", "Failed", "Timedout", "Crashed", "NotCovered"}

Batches ==
    {c \in [0..Workers -> 0..Len(mutants)] :
        /\ c[0] = 0
        /\ \A s, t \in 0..Workers : s < t => c[s] <= c[t]
        /\ c[Used] = Len(mutants)}

(* mull::Runner::runProgram: how a run with the mutants of `active' in its *)
(* environment ends when it takes `time' and is given `limit'.             *)
Outcome(active, time, limit) ==
    IF active \cap hanging # {} \/ time > limit THEN "Timedout"
    ELSE IF ~healthy \/ active \cap detected # {} THEN "Failed" ELSE "Passed"

Run(active, times, limit) ==
    {Outcome(active, time, limit) : time \in times}
        \cup (IF reliable THEN {} ELSE {"Failed", "Timedout", "Crashed"})

Init ==
    /\ detected \in SUBSET Mutant /\ hanging \in SUBSET Mutant
    /\ covered \in SUBSET Mutant
    /\ healthy \in BOOLEAN /\ reliable \in BOOLEAN
    /\ pc = "extract" /\ mutants = <<>> /\ baseline = 0
    /\ cuts = [t \in 0..Workers |-> 0]
    /\ next = [t \in Task |-> 1]
    /\ process = [t \in Task |-> {}]
    /\ verdict = [k \in Index |-> "none"]

-----------------------------------------------------------------------------
(* extractMutantInfo(): an unreadable bundle has no mutants, and the run   *)
(* goes on without any.                                                    *)
ExtractMutants ==
    /\ pc = "extract"
    /\ mutants' \in MutantLists \cup {<<>>}
    /\ pc' = "warmUp"
    /\ UNCHANGED <<world, baseline, cuts, task, verdict>>

(* The result of the warm-up is dropped.                                   *)
WarmUp ==
    /\ pc = "warmUp"
    /\ pc' = "baseline"
    /\ UNCHANGED <<world, mutants, baseline, cuts, task, verdict>>

(* The baseline's time is used whatever its status was; a run that is      *)
(* killed took the timeout.                                                *)
RunBaseline ==
    /\ pc = "baseline"
    /\ \/ baseline' \in Times
       \/ ~reliable /\ baseline' \in {0, 1, Timeout}
    /\ pc' = "dispatch"
    /\ UNCHANGED <<world, mutants, cuts, task, verdict>>

Dispatch ==
    /\ pc = "dispatch"
    /\ cuts' \in Batches
    /\ next' = [t \in Task |-> cuts'[t-1] + 1]
    /\ pc' = "running"
    /\ UNCHANGED <<world, mutants, baseline, process, verdict>>

Finished(t) == next[t] > cuts[t]

(* Fault: the results are taken as soon as one task is done.               *)
FinishEarly ==
    /\ pc = "running" /\ \E t \in Task : t <= Used /\ Finished(t)
    /\ pc' = "done"
    /\ UNCHANGED <<world, mutants, baseline, cuts, task, verdict>>

Finish ==
    /\ pc = "running" /\ \A t \in Task : Finished(t)
    /\ pc' = "done"
    /\ UNCHANGED <<world, mutants, baseline, cuts, task, verdict>>

(* A program that cannot be started is an error of the runner's.           *)
Fatal ==
    /\ pc \in {"warmUp", "baseline", "running"} /\ ~reliable
    /\ pc' = "aborted"
    /\ UNCHANGED <<world, mutants, baseline, cuts, task, verdict>>

-----------------------------------------------------------------------------
(* One turn of the task's loop.                                            *)

Current(t) == mutants[next[t]]
Ready(t) == pc = "running" /\ ~Finished(t) /\ process[t] = {}

StartMutant(t) ==
    /\ Ready(t) /\ Current(t) \in covered
    /\ process' = [process EXCEPT ![t] = {Current(t)}]
    /\ UNCHANGED <<world, main, next, verdict>>

(* Fault: the iterator is advanced in the body of the loop as well.        *)
JudgeAndSkip(t, v) ==
    /\ verdict' = [verdict EXCEPT ![next[t]] = v]
    /\ next' = [next EXCEPT ![t] = @ + 2]
    /\ process' = [process EXCEPT ![t] = {}]
    /\ UNCHANGED <<world, main>>

Judge(t, v) ==
    /\ verdict' = [verdict EXCEPT ![next[t]] = v]
    /\ next' = [next EXCEPT ![t] = @ + 1]
    /\ process' = [process EXCEPT ![t] = {}]
    /\ UNCHANGED <<world, main>>

SkipMutant(t) == Ready(t) /\ Current(t) \notin covered /\ Judge(t, "NotCovered")

(* Fault: a mutant is given as much time as the baseline took.             *)
FinishMutantTight(t) ==
    /\ pc = "running" /\ process[t] # {}
    /\ \E v \in Run(process[t], Times, baseline) : Judge(t, v)

(* Fault: the timeout is not set.                                          *)
FinishMutantUnlimited(t) ==
    /\ pc = "running" /\ process[t] # {} /\ process[t] \cap hanging = {}
    /\ \E v \in Run(process[t], Times, baseline * 10) : Judge(t, v)

FinishMutant(t) ==
    /\ pc = "running" /\ process[t] # {}
    /\ \E v \in Run(process[t], Times, baseline * 10) : Judge(t, v)

TaskStep(t) == StartMutant(t) \/ SkipMutant(t) \/ FinishMutant(t)

Main == ExtractMutants \/ WarmUp \/ RunBaseline \/ Dispatch \/ Finish
Terminated == pc \in {"done", "aborted"} /\ UNCHANGED vars
Next == Main \/ Fatal \/ (\E t \in Task : TaskStep(t)) \/ Terminated

(* Threads keep running, and a process ends or is killed at its timeout.   *)
(* The fatal end of the process is owed to nobody.                         *)
Fairness == WF_vars(Main) /\ \A t \in Task : WF_vars(TaskStep(t))

Spec == Init /\ [][Next]_vars
FairSpec == Spec /\ Fairness

-----------------------------------------------------------------------------
(* The tasks and run() keep to their values: a task is never more than one *)
(* past the last mutant (the iterators of operator()), and runs at most    *)
(* one process.                                                            *)
TypeOK ==
    /\ detected \subseteq Mutant /\ hanging \subseteq Mutant
    /\ covered \subseteq Mutant /\ healthy \in BOOLEAN /\ reliable \in BOOLEAN
    /\ pc \in {"extract", "warmUp", "baseline", "dispatch", "running",
               "done", "aborted"}
    /\ mutants \in Seq(Mutant) /\ Len(mutants) <= MaxMutants
    /\ baseline \in 0..Timeout
    /\ cuts \in [0..Workers -> 0..MaxMutants]
    /\ next \in [Task -> 1..(MaxMutants + 1)]
    /\ process \in [Task -> {{}} \cup {{m} : m \in Mutant}]
    /\ verdict \in [Index -> {"none"} \cup Verdicts]

(* How XCTestInvocation's results are read: a run that failed, crashed or  *)
(* was killed at its timeout has killed the mutant.                        *)
Reading(v) ==
    IF v \in {"Failed", "Timedout", "Crashed"} THEN "killed"
    ELSE IF v \in {"Passed", "NotCovered"} THEN "survived" ELSE "none"

(* Where nothing but the mutants disturbs the tests, a result is right in  *)
(* both directions, whatever the other tasks run meanwhile and however the *)
(* running times fall out: a mutant is killed if it is covered and the     *)
(* tests notice it, and survives otherwise (the timeout of ten baselines   *)
(* at XCTestInvocation.cpp:56 neither cuts off a run that would pass nor   *)
(* lets a hanging one go).                                                 *)
ExactWhenReliable ==
    healthy /\ reliable =>
        \A k \in DOMAIN mutants : verdict[k] # "none" =>
            (Reading(verdict[k]) = "killed"
                <=> mutants[k] \in covered \cap (detected \cup hanging))

Abstract == INSTANCE MutationTesting
    WITH killable <- IF healthy /\ reliable THEN detected \cup hanging ELSE Mutant,
         verdict <- [k \in Index |-> Reading(verdict[k])],
         status <- IF pc = "extract" THEN "looking"
                   ELSE IF pc = "done" THEN "finished"
                   ELSE IF pc = "aborted" THEN "dead" ELSE "testing"

(* run() of XCTestInvocation, with its warm-up, baseline and concurrent    *)
(* tasks, is a test runner: every mutant gets one verdict, which never     *)
(* changes, and the results are returned when all mutants have theirs.     *)
ImplementsMutationTesting == Abstract!Spec

(* run() of XCTestInvocation ends whatever the mutants do to the tests.    *)
Terminates == <>(pc \in {"done", "aborted"})
=============================================================================
