------------------------- MODULE XCTestRunInvocation -------------------------
(***************************************************************************)
(* tools/mull-xctestrun/XCTestRunInvocation.cpp: mutants are run by        *)
(* xcodebuild, many per test run.                                          *)
(*                                                                         *)
(* run() extracts the mutants, derives a base .xctestrun that holds the    *)
(* source target only, runs it once for the baseline's running time, and   *)
(* hands contiguous slices of the mutants to tasks that run concurrently.  *)
(* A task copies the base file, adds one target per mutant (a copy of the  *)
(* source target with the mutant's variable set and its identifier as the  *)
(* blueprint name), removes the source target, runs xcodebuild on it and   *)
(* reads from the result bundle which targets failed.                      *)
(*                                                                         *)
(* Everything outside the process can go wrong, and the code ignores most  *)
(* of it: copy_file, each PlistBuddy command, xcodebuild (killed at the    *)
(* timeout, crashed, or refusing a bundle path that exists) and            *)
(* xcresulttool.  `faults' counts what went wrong (at most MaxFaults),     *)
(* `faulty' tells in which task.  A run that is too slow for its timeout   *)
(* is no fault: the time one target needs is in Times, and the timeouts    *)
(* are what the code computes.                                             *)
(*                                                                         *)
(* `detected', `hanging', `healthy' and `fresh' are facts about the world: *)
(* the mutants the tests fail for, those that make a test hang, whether    *)
(* the unmutated tests pass, and whether the result bundle directory is    *)
(* new (mull-xctestrun creates one unless --result-bundle-dir names one).  *)
(***************************************************************************)
EXTENDS XCTestRunFile, Sequences

CONSTANTS MutantLists,   \* what extractMutantInfo() can find in the products
          MaxMutants,    \* bound: length of those lists
          Workers,       \* mutantExecutionWorkers
          Timeout,       \* config.timeout, of the baseline run
          Times,         \* bound: what the tests of one target may take
          LeftoverFiles, \* bound: local run files earlier invocations left
          MaxFaults      \* bound: external failures in one behaviour

ASSUME ParametersAssumption ==
    /\ MaxMutants \in Nat /\ Workers \in Nat \ {0} /\ MaxFaults \in Nat
    /\ Timeout \in Nat /\ Times \subseteq Nat /\ Times # {}
    /\ MutantLists \subseteq Seq(Mutant)
    /\ \A list \in MutantLists : Len(list) <= MaxMutants

(* No timeout exceeds an int: what becomes of one that does is looked at   *)
(* in RunProgram.                                                          *)
ASSUME LimitsAssumption == Timeout * MaxMutants * 10 <= 2147483647

(* What an earlier invocation, which may have lost any of its commands or  *)
(* been killed between two of them, left for a target: nothing, the copy   *)
(* of a target of its base file, and for a mutant the copy of the source   *)
(* target with or without the variable and the name.                       *)
LeftoverEntries(x) ==
    {Absent} \cup
    [present : {TRUE}, env : {{}, {x} \cap Mutant},
     blueprint : {x} \cup {y \in {Source} : x \in Mutant}]

ASSUME LeftoversAssumption ==
    \A f \in LeftoverFiles : f \in File /\ \A x \in Target : f[x] \in LeftoverEntries(x)

VARIABLES
    detected, hanging, healthy, fresh,  \* the world
    pc, mutants, base, baseline, cuts,  \* run()
    taskPc, next, local, limit,         \* per task: generation and run
    bundle, failing,                    \* per task: xcresult and its failures
    verdict,                            \* per mutant: the MutationResult
    faults, faulty

world == <<detected, hanging, healthy, fresh>>
main  == <<pc, mutants, base, baseline, cuts>>
task  == <<taskPc, next, local, limit, bundle, failing>>
fault == <<faults, faulty>>
vars  == <<world, main, task, verdict, fault>>

Task == 1..Workers
Index == 1..MaxMutants
Used == IF Len(mutants) < Workers THEN Len(mutants) ELSE Workers

Begin(t) == cuts[t-1] + 1
Slice(t) == {k \in Index : Begin(t) <= k /\ k <= cuts[t]}

(* mull::TaskExecutor splits the mutants into one batch per used worker.   *)
Batches ==
    {c \in [0..Workers -> 0..Len(mutants)] :
        /\ c[0] = 0
        /\ \A s, t \in 0..Workers : s < t => c[s] <= c[t]
        /\ \A t \in 1..Used : c[t-1] < c[t]
        /\ c[Used] = Len(mutants)}

Original == FileWith({Source} \cup Others)

Unreadable == [readable |-> FALSE, targets |-> {}]
Readable(S) == [readable |-> TRUE, targets |-> S]

Init ==
    /\ detected \in SUBSET Mutant /\ hanging \in SUBSET Mutant
    /\ healthy \in BOOLEAN /\ fresh \in BOOLEAN
    /\ pc = "extract" /\ mutants = <<>> /\ base = NoFile
    /\ baseline = [status |-> "none", time |-> 0]
    /\ cuts = [t \in 0..Workers |-> 0]
    /\ taskPc = [t \in Task |-> "idle"]
    /\ next = [t \in Task |-> 1]
    /\ local = [t \in Task |-> NoFile]
    /\ limit = [t \in Task |-> 0]
    /\ bundle = [t \in Task |-> Unreadable]
    /\ failing = [t \in Task |-> Unreadable]
    /\ verdict = [k \in Index |-> "none"]
    /\ faults = 0 /\ faulty = [t \in Task |-> FALSE]

-----------------------------------------------------------------------------
(* run()                                                                   *)

(* extractMutantInfo(): the lists of the products that could be read; none *)
(* at all ends the run at once.                                            *)
ExtractMutants ==
    /\ pc = "extract"
    /\ mutants' \in MutantLists
    /\ pc' = IF mutants' = <<>> THEN "done" ELSE "generate"
    /\ UNCHANGED <<world, base, baseline, cuts, task, verdict, fault>>

(* GenerateSingleTargetXCRunFile(): copy, list the targets, delete all but *)
(* the source.  A failed copy leaves no file or an earlier base file, all  *)
(* of whose targets need not have been deleted; a file that cannot be      *)
(* listed is fatal, a failed delete is not noticed.                        *)
GenerateBase ==
    /\ pc = "generate"
    /\ \E copied \in {Original, NoFile} \cup {FileWith({Source} \cup S) : S \in SUBSET Others},
          left \in SUBSET Others :
        LET failed == Cardinality(left) + IF copied = Original THEN 0 ELSE 1
        IN  /\ left \subseteq getTargets(copied)
            /\ faults + failed <= MaxFaults
            /\ faults' = faults + failed
            /\ base' = [x \in Target |-> IF x \in {Source} \cup left THEN copied[x] ELSE Absent]
            /\ pc' = IF getTargets(copied) = {} THEN "aborted" ELSE "baseline"
    /\ UNCHANGED <<world, mutants, baseline, cuts, task, verdict, faulty>>

(* The tests of a run file take as many times u as it has targets.         *)
Duration(f, u) == Cardinality(getTargets(f)) * u

(* The baseline run; its status is recorded and never looked at.  The      *)
(* tests may be too slow for the timeout.  Without that, xcodebuild may    *)
(* hang, or end early without success (a crash, or a failure to wait for   *)
(* it): its short time then bounds all the runs to come.                   *)
RunBaseline ==
    /\ pc = "baseline"
    /\ \/ /\ \E u \in Times :
                \/ /\ Duration(base, u) <= Timeout
                   /\ baseline' = [status |-> IF healthy THEN "Passed" ELSE "Failed",
                                   time |-> Duration(base, u)]
                \/ /\ Duration(base, u) >= Timeout
                   /\ baseline' = [status |-> "Timedout", time |-> Timeout]
          /\ UNCHANGED faults
       \/ /\ faults < MaxFaults /\ faults' = faults + 1
          /\ \/ baseline' = [status |-> "Timedout", time |-> Timeout]
             \/ baseline' \in [status : {"Failed"}, time : 0..Timeout]
    /\ pc' = "dispatch"
    /\ UNCHANGED <<world, mutants, base, cuts, task, verdict, faulty>>

Dispatch ==
    /\ pc = "dispatch"
    /\ cuts' \in Batches
    /\ taskPc' = [t \in Task |-> IF t <= Used THEN "copy" ELSE "finished"]
    /\ next' = [t \in Task |-> cuts'[t-1] + 1]
    /\ pc' = "running"
    /\ UNCHANGED <<world, mutants, base, baseline, local, limit, bundle, failing,
                   verdict, fault>>

(* Fault: one finished task is taken for all of them.                      *)
FinishEarly ==
    /\ pc = "running"
    /\ \E t \in Task : t <= Used /\ taskPc[t] = "finished"
    /\ pc' = "done"
    /\ UNCHANGED <<world, mutants, base, baseline, cuts, task, verdict, fault>>

Finish ==
    /\ pc = "running"
    /\ \A t \in Task : taskPc[t] = "finished"
    /\ pc' = "done"
    /\ UNCHANGED <<world, mutants, base, baseline, cuts, task, verdict, fault>>

(* diagnostics.error and report_fatal_error: plutil cannot extract the     *)
(* products, or xcodebuild cannot be started.                              *)
Fatal ==
    /\ \/ pc \in {"extract", "generate", "baseline"}
       \/ pc = "running" /\ \E t \in Task : taskPc[t] = "run"
    /\ faults < MaxFaults /\ faults' = faults + 1
    /\ pc' = "aborted"
    /\ UNCHANGED <<world, mutants, base, baseline, cuts, task, verdict, faulty>>

-----------------------------------------------------------------------------
(* MutantExecutionTask::operator()                                         *)

At(t, where) == pc = "running" /\ taskPc[t] = where
Goto(t, where) == taskPc' = [taskPc EXCEPT ![t] = where]

(* n external commands of task t have failed.                              *)
Fault(t, n) ==
    /\ faults + n <= MaxFaults
    /\ faults' = faults + n
    /\ faulty' = [faulty EXCEPT ![t] = @ \/ n > 0]

(* GenerateXCRunFile(): copy_file, whose error is dropped.                 *)
CopyRunFile(t) ==
    /\ At(t, "copy")
    /\ \/ Fault(t, 0) /\ local' = [local EXCEPT ![t] = base]
       \/ /\ Fault(t, 1)
          /\ \E f \in {NoFile} \cup LeftoverFiles : local' = [local EXCEPT ![t] = f]
    /\ Goto(t, "targets")
    /\ UNCHANGED <<world, main, next, limit, bundle, failing, verdict>>

(* Fault: the variable is added to the source target, then copied.         *)
AddTargetViaSource(t) ==
    /\ At(t, "targets") /\ next[t] <= cuts[t]
    /\ LET m == mutants[next[t]]
           f == addEnvironmentVariable(local[t], Source, m)
       IN  local' = [local EXCEPT ![t] = setBlueprintName(duplicateTestTarget(f, Source, m), m, m)]
    /\ next' = [next EXCEPT ![t] = @ + 1]
    /\ UNCHANGED <<world, main, taskPc, limit, bundle, failing, verdict, fault>>

(* One turn of its loop: three commands, each of which may fail unnoticed. *)
AddTarget(t) ==
    /\ At(t, "targets") /\ next[t] <= cuts[t]
    /\ \E dup, env, name \in BOOLEAN :
        LET m  == mutants[next[t]]
            f1 == IF dup THEN duplicateTestTarget(local[t], Source, m) ELSE local[t]
            f2 == IF env THEN addEnvironmentVariable(f1, m, m) ELSE f1
            f3 == IF name THEN setBlueprintName(f2, m, m) ELSE f2
        IN  /\ Fault(t, Cardinality({c \in 1..3 : ~<<dup, env, name>>[c]}))
            /\ local' = [local EXCEPT ![t] = f3]
    /\ next' = [next EXCEPT ![t] = @ + 1]
    /\ UNCHANGED <<world, main, taskPc, limit, bundle, failing, verdict>>

(* Fault: the timeout does not grow with the number of mutants.            *)
DeleteSourceUncounted(t) ==
    /\ At(t, "targets") /\ next[t] > cuts[t]
    /\ local' = [local EXCEPT ![t] = deleteTestTarget(@, Source)]
    /\ limit' = [limit EXCEPT ![t] = baseline.time * 10]
    /\ Goto(t, "run")
    /\ UNCHANGED <<world, main, next, bundle, failing, verdict, fault>>

(* The end of GenerateXCRunFile(), and the timeout for the run.            *)
DeleteSource(t) ==
    /\ At(t, "targets") /\ next[t] > cuts[t]
    /\ \/ Fault(t, 0) /\ local' = [local EXCEPT ![t] = deleteTestTarget(@, Source)]
       \/ Fault(t, 1) /\ UNCHANGED local
    /\ limit' = [limit EXCEPT ![t] = baseline.time * (cuts[t] - cuts[t-1]) * 10]
    /\ Goto(t, "run")
    /\ UNCHANGED <<world, main, next, bundle, failing, verdict>>

(* What xcodebuild makes of the local run file: the blueprint names of the *)
(* targets with a failing test.                                            *)
Fails(e) == e.present /\ (~healthy \/ e.env \cap (detected \cup hanging) # {})
FailingBlueprints(f) == {f[x].blueprint : x \in {y \in Target : Fails(f[y])}}
Hangs(f) == \E x \in Target : f[x].present /\ f[x].env \cap hanging # {}

(* Fault: xcodebuild is waited for without a timeout.                      *)
RunTestsUnlimited(t) ==
    /\ At(t, "run")
    /\ ~Hangs(local[t])
    /\ bundle' = [bundle EXCEPT ![t] = Readable(FailingBlueprints(local[t]))]
    /\ Goto(t, "read")
    /\ UNCHANGED <<world, main, next, local, limit, failing, verdict, fault>>

(* RunXcodeBuildTest() to its end.  A hanging test is ended either by the  *)
(* per-test allowance, and fails, or with the whole run by the timeout of  *)
(* the same length: a race; tests that end by themselves are cut off if    *)
(* the timeout is too short for them.  xcodebuild may also crash, and a    *)
(* bundle left by an earlier invocation makes it refuse to run.            *)
RunTests(t) ==
    /\ At(t, "run")
    /\ \/ /\ getTargets(local[t]) # {}
          /\ \/ Hangs(local[t])
             \/ \E u \in Times : Duration(local[t], u) <= limit[t]
          /\ Fault(t, 0)
          /\ bundle' = [bundle EXCEPT ![t] = Readable(FailingBlueprints(local[t]))]
       \/ /\ \/ getTargets(local[t]) = {} \/ Hangs(local[t])
             \/ \E u \in Times : Duration(local[t], u) >= limit[t]
          /\ Fault(t, 0) /\ UNCHANGED bundle
       \/ Fault(t, 1) /\ UNCHANGED bundle
       \/ /\ ~fresh
          /\ Fault(t, 1)
          /\ \E S \in SUBSET Mutant : bundle' = [bundle EXCEPT ![t] = Readable(S)]
    /\ Goto(t, "read")
    /\ UNCHANGED <<world, main, next, local, limit, failing, verdict>>

(* getFailureTestTargets(): the bundle's failures, or no answer.           *)
ReadResults(t) ==
    /\ At(t, "read")
    /\ \/ Fault(t, 0) /\ failing' = [failing EXCEPT ![t] = bundle[t]]
       \/ Fault(t, 1) /\ UNCHANGED failing
    /\ Goto(t, "report")
    /\ UNCHANGED <<world, main, next, local, limit, bundle, verdict>>

(* Fault: the status of the whole run is taken for the mutant's.           *)
ReportRunStatus(t) ==
    /\ At(t, "report")
    /\ verdict' = [k \in Index |->
                     IF k \notin Slice(t) THEN verdict[k]
                     ELSE IF ~failing[t].readable THEN "Timedout"
                     ELSE IF mutants[k] \in failing[t].targets THEN "Failed" ELSE "Passed"]
    /\ Goto(t, "finished")
    /\ UNCHANGED <<world, main, next, local, limit, bundle, failing, fault>>

(* Fault: no answer counts as a failure.                                   *)
ReportUnreadableAsFailed(t) ==
    /\ At(t, "report")
    /\ verdict' = [k \in Index |->
                     IF k \notin Slice(t) THEN verdict[k]
                     ELSE IF failing[t].readable => mutants[k] \in failing[t].targets
                          THEN "Failed" ELSE "Passed"]
    /\ Goto(t, "finished")
    /\ UNCHANGED <<world, main, next, local, limit, bundle, failing, fault>>

(* Fault: the loop reports from the start of the slice to the last mutant. *)
ReportToTheEnd(t) ==
    /\ At(t, "report")
    /\ verdict' = [k \in Index |->
                     IF k < Begin(t) \/ k > Len(mutants) THEN verdict[k]
                     ELSE IF failing[t].readable /\ mutants[k] \in failing[t].targets
                          THEN "Failed" ELSE "Passed"]
    /\ Goto(t, "finished")
    /\ UNCHANGED <<world, main, next, local, limit, bundle, failing, fault>>

(* One result per mutant of the slice; without an answer all have passed.  *)
ReportVerdicts(t) ==
    /\ At(t, "report")
    /\ verdict' = [k \in Index |->
                     IF k \notin Slice(t) THEN verdict[k]
                     ELSE IF failing[t].readable /\ mutants[k] \in failing[t].targets
                          THEN "Failed" ELSE "Passed"]
    /\ Goto(t, "finished")
    /\ UNCHANGED <<world, main, next, local, limit, bundle, failing, fault>>

TaskStep(t) ==
    \/ CopyRunFile(t) \/ AddTarget(t) \/ DeleteSource(t)
    \/ RunTests(t) \/ ReadResults(t) \/ ReportVerdicts(t)

-----------------------------------------------------------------------------
Main == ExtractMutants \/ GenerateBase \/ RunBaseline \/ Dispatch \/ Finish
Terminated == pc \in {"done", "aborted"} /\ UNCHANGED vars
Next == Main \/ Fatal \/ (\E t \in Task : TaskStep(t)) \/ Terminated

(* The main thread and each worker thread keep running; every program they *)
(* wait for ends or is killed at its timeout.  The fatal end of the        *)
(* process is owed to nobody.                                              *)
Fairness == WF_vars(Main) /\ \A t \in Task : WF_vars(TaskStep(t))

Spec == Init /\ [][Next]_vars
FairSpec == Spec /\ Fairness

-----------------------------------------------------------------------------
Bundle == [readable : BOOLEAN, targets : SUBSET Target]

(* The type of every variable.                                             *)
TypeOK ==
    /\ detected \in SUBSET Mutant /\ hanging \in SUBSET Mutant
    /\ healthy \in BOOLEAN /\ fresh \in BOOLEAN
    /\ pc \in {"extract", "generate", "baseline", "dispatch", "running", "done", "aborted"}
    /\ mutants \in Seq(Mutant) /\ Len(mutants) <= MaxMutants
    /\ base \in File
    /\ baseline \in [status : {"none", "Passed", "Failed", "Timedout"}, time : Nat]
    /\ cuts \in [0..Workers -> 0..MaxMutants]
    /\ taskPc \in [Task -> {"idle", "copy", "targets", "run", "read", "report", "finished"}]
    /\ next \in [Task -> 1..MaxMutants + 1]
    /\ local \in [Task -> File]
    /\ limit \in [Task -> Nat]
    /\ bundle \in [Task -> Bundle] /\ failing \in [Task -> Bundle]
    /\ verdict \in [Index -> {"none", "Passed", "Failed"}]
    /\ faults \in 0..MaxFaults /\ faulty \in [Task -> BOOLEAN]

(* A kill is real: with passing unmutated tests and a new result directory *)
(* a mutant is reported as failed only if its tests fail or hang, whatever *)
(* commands failed on the way and whatever files earlier runs left behind. *)
KillSound ==
    healthy /\ fresh =>
        \A k \in Index : verdict[k] = "Failed" => mutants[k] \in detected \cup hanging

(* No run of the base file would take ten times as long as the one that    *)
(* was measured.                                                           *)
Patient == \A u \in Times : Duration(base, u) < baseline.time * 10

(* Nothing that goes wrong in one task touches another one's mutants: the  *)
(* verdicts of a task that had no fault and no hanging mutant are exact,   *)
(* and the timeout computed from the baseline cuts no slice short, be it   *)
(* of one mutant or of many, unless the tests may need ten times what the  *)
(* baseline run took (or a baseline run that crashed seemed to take).      *)
FaultIsolation ==
    \A t \in Task :
        (/\ taskPc[t] = "finished" /\ ~faulty[t] /\ healthy /\ fresh /\ Patient
         /\ \A k \in Slice(t) : mutants[k] \notin hanging)
        => \A k \in Slice(t) : verdict[k] = IF mutants[k] \in detected THEN "Failed" ELSE "Passed"

(* A target of a run file activates no mutant but the one it is named      *)
(* after, and the source target activates none: mutants of one xcodebuild  *)
(* run are never combined.                                                 *)
SingleMutantPerTarget ==
    \A t \in Task, x \in Target : local[t][x].env \subseteq {x}

(* run() returns a verdict for every extracted mutant.                     *)
EveryMutantJudged ==
    pc = "done" => \A k \in 1..Len(mutants) : verdict[k] # "none"

Abstract == INSTANCE MutationTesting
    WITH killable <- IF healthy /\ fresh THEN detected \cup hanging ELSE Mutant,
         verdict <- [k \in Index |-> IF verdict[k] = "Failed" THEN "killed"
                                     ELSE IF verdict[k] = "Passed" THEN "survived"
                                     ELSE "none"],
         status <- IF pc = "extract" THEN "looking"
                   ELSE IF pc = "done" THEN "finished"
                   ELSE IF pc = "aborted" THEN "dead" ELSE "testing"

(* mull-xctestrun is a test runner although it judges a slice of mutants   *)
(* at a time from one xcodebuild run: every verdict is given once, by the  *)
(* one task the mutant belongs to, kills are real, and the results are     *)
(* returned when all mutants have a verdict, or there are no mutants.      *)
ImplementsMutationTesting == Abstract!Spec

(* run() ends.                                                             *)
Terminates == <>(pc \in {"done", "aborted"})

(* mull-xctestrun.cpp describes --timeout as "Timeout per test run         *)
(* (milliseconds)".                                                        *)
TimeoutPerTestRun == \A t \in Task : taskPc[t] = "run" => limit[t] <= Timeout
=============================================================================
