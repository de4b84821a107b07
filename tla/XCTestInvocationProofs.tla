------------------------ MODULE XCTestInvocationProofs ------------------------
(***************************************************************************)
(* Theorems about XCTestInvocation, for every set of mutants, number of    *)
(* workers and running times within the factor the code allows for.        *)
(***************************************************************************)
EXTENDS XCTestInvocation, InductionLemmas

(* Nothing runs and nothing is judged before the tasks are there.          *)
Before == {"extract", "warmUp", "baseline", "dispatch"}
BeforeInv ==
    pc \in Before =>
        /\ \A t \in Task : process[t] = {}
        /\ \A k \in Index : verdict[k] = "none"

BaselineInv == pc \in {"dispatch", "running"} /\ reliable => baseline \in Times

(* A task is in its batch, and its process is that of its current mutant.  *)
TaskInv(t) ==
    /\ cuts[t-1] < next[t] /\ next[t] <= cuts[t] + 1
    /\ process[t] # {} =>
          ~Finished(t) /\ process[t] = {Current(t)} /\ Current(t) \in covered

(* The mutants judged are those the tasks have left behind.                *)
Left(k) == \E t \in Task : cuts[t-1] < k /\ k < next[t]

RunningInv ==
    pc = "running" =>
        /\ cuts \in Batches
        /\ \A t \in Task : TaskInv(t)
        /\ \A k \in Index : verdict[k] # "none" <=> Left(k)

IInv == TypeOK /\ BeforeInv /\ BaselineInv /\ RunningInv /\ ExactWhenReliable

-----------------------------------------------------------------------------
(* Facts every step uses.                                                  *)

LEMMA Sizes ==
    ASSUME TypeOK
    PROVE  /\ MaxMutants \in Nat /\ Workers \in Nat \ {0} /\ Timeout \in Nat \ {0}
           /\ Len(mutants) \in Nat /\ Len(mutants) <= MaxMutants
           /\ DOMAIN mutants = 1..Len(mutants) /\ DOMAIN mutants \subseteq Index
           /\ \A k \in DOMAIN mutants : mutants[k] \in Mutant
           /\ Task = 1..Workers /\ Index = 1..MaxMutants
           /\ Used \in 0..Workers
  BY ParametersAssumption DEF TypeOK, Task, Index, Used

(* The batches of a list of mutants: none overlaps another.                *)
LEMMA BatchBounds ==
    ASSUME TypeOK, cuts \in Batches
    PROVE  /\ cuts \in [0..Workers -> Nat]
           /\ \A t \in 0..Workers : cuts[t] \in Nat /\ cuts[t] <= Len(mutants)
           /\ \A s, t \in 0..Workers : s <= t => cuts[s] <= cuts[t]
           /\ \A t \in Task : t \in 0..Workers /\ t - 1 \in 0..Workers
           /\ cuts[0] = 0 /\ cuts[Used] = Len(mutants)
<1>1. /\ cuts \in [0..Workers -> 0..Len(mutants)]
      /\ \A s, t \in 0..Workers : s < t => cuts[s] <= cuts[t]
      /\ cuts[0] = 0 /\ cuts[Used] = Len(mutants)
  BY DEF Batches
<1>2. Len(mutants) \in Nat /\ Workers \in Nat /\ Task = 1..Workers
  BY Sizes
<1>3. \A t \in 0..Workers : cuts[t] \in Nat /\ cuts[t] <= Len(mutants)
  BY <1>1, <1>2
<1>4. cuts \in [0..Workers -> Nat]
  BY <1>1, <1>2
<1>5. \A s, t \in 0..Workers : s <= t => cuts[s] <= cuts[t]
  BY <1>1, <1>2, <1>3
<1> QED
  BY <1>1, <1>2, <1>3, <1>4, <1>5

(* The mutant a task is at has no verdict yet, and no other task has it.   *)
LEMMA CurrentMutant ==
    ASSUME TypeOK, RunningInv, pc = "running", NEW t \in Task, ~Finished(t)
    PROVE  /\ next[t] \in DOMAIN mutants /\ next[t] \in Index /\ next[t] <= cuts[t]
           /\ Current(t) \in Mutant /\ verdict[next[t]] = "none"
           /\ \A u \in Task : ~(cuts[u-1] < next[t] /\ next[t] < next[u])
<1>0. cuts \in Batches /\ (\A u \in Task : TaskInv(u))
      /\ \A k \in Index : verdict[k] # "none" <=> Left(k)
  BY DEF RunningInv
<1>n. \A u \in Task : next[u] \in Nat /\ 0 < next[u]
  BY Sizes DEF TypeOK
<1>c. \A u \in Task : cuts[u] \in Nat /\ cuts[u-1] \in Nat
  BY <1>0, BatchBounds
<1>1. next[t] \in Nat /\ next[t] <= cuts[t] /\ 0 < next[t]
  BY <1>n, <1>c DEF Finished
<1>2. next[t] \in DOMAIN mutants /\ next[t] \in Index
  BY <1>1, <1>0, Sizes, BatchBounds
<1>3. ASSUME NEW u \in Task, cuts[u-1] < next[t], next[t] < next[u] PROVE FALSE
  <2>1. /\ t \in 1..Workers /\ u \in 1..Workers /\ Workers \in Nat
        /\ cuts[t-1] < next[t] /\ next[u] <= cuts[u] + 1
        /\ next[u] \in Nat /\ next[t] \in Nat
        /\ cuts[t] \in Nat /\ cuts[u] \in Nat /\ cuts[t-1] \in Nat /\ cuts[u-1] \in Nat
    BY <1>0, <1>3, <1>n, <1>c, Sizes DEF TaskInv
  <2>2. CASE u < t
    <3>1. cuts[u] <= cuts[t-1]
      BY <2>1, <2>2, <1>0, BatchBounds
    <3> QED
      BY <3>1, <2>1, <1>3
  <2>3. CASE t < u
    <3>1. cuts[t] <= cuts[u-1]
      BY <2>1, <2>3, <1>0, BatchBounds
    <3> QED
      BY <3>1, <2>1, <1>1, <1>3
  <2> QED
    BY <2>1, <2>2, <2>3, <1>3
<1>4. ~Left(next[t])
  BY <1>3 DEF Left
<1> QED
  BY <1>0, <1>1, <1>2, <1>3, <1>4, Sizes DEF Current

(* In a reliable world a run of one mutant says what its tests say: ten    *)
(* times the baseline is enough for every undisturbed run.                 *)
LEMMA RunIsExact ==
    ASSUME TypeOK, healthy, reliable, baseline \in Times, NEW m \in Mutant,
           NEW v \in Run({m}, Times, baseline * 10)
    PROVE  v \in {"Passed", "Failed", "Timedout"}
           /\ (v = "Passed" <=> m \notin detected \cup hanging)
<1>1. PICK time \in Times : v = Outcome({m}, time, baseline * 10)
  BY DEF Run
<1>2. time <= 10 * baseline /\ time \in Nat /\ baseline \in Nat
  BY ParametersAssumption
<1>3. ~(time > baseline * 10)
  BY <1>2
<1>4. {m} \cap hanging # {} <=> m \in hanging
  OBVIOUS
<1>5. {m} \cap detected # {} <=> m \in detected
  OBVIOUS
<1> QED
  BY <1>1, <1>3, <1>4, <1>5 DEF Outcome

(* What a run can answer at all.                                           *)
LEMMA RunType ==
    ASSUME NEW active, NEW limit, NEW v \in Run(active, Times, limit)
    PROVE  v \in Verdicts
  BY DEF Run, Outcome, Verdicts

-----------------------------------------------------------------------------
(* The steps.                                                              *)

LEMMA InitHolds == Init => IInv
<1> SUFFICES ASSUME Init PROVE IInv
  OBVIOUS
<1>1. MaxMutants \in Nat /\ Workers \in Nat /\ Timeout \in Nat /\ Len(<<>>) = 0
      /\ mutants \in Seq(Mutant) /\ Len(mutants) = 0
  BY ParametersAssumption DEF Init
<1>2. TypeOK
  BY <1>1 DEF Init, TypeOK, Task, Index
<1>3. BeforeInv /\ BaselineInv /\ RunningInv
  BY DEF Init, BeforeInv, BaselineInv, RunningInv
<1>4. ExactWhenReliable
  BY <1>1, <1>2, Sizes DEF Init, ExactWhenReliable
<1> QED
  BY <1>2, <1>3, <1>4 DEF IInv

LEMMA ExtractMutantsStep == ASSUME IInv, ExtractMutants PROVE IInv'
<1>0. TypeOK /\ BeforeInv /\ pc = "extract" /\ pc' = "warmUp"
      /\ UNCHANGED <<world, baseline, cuts, task, verdict>>
  BY DEF IInv, ExtractMutants
<1>1. mutants' \in Seq(Mutant) /\ Len(mutants') <= MaxMutants
  <2>1. mutants' \in MutantLists \cup {<<>>}
    BY DEF ExtractMutants
  <2>2. MutantLists \subseteq Seq(Mutant) /\ MaxMutants \in Nat
        /\ \A list \in MutantLists : Len(list) <= MaxMutants
    BY ParametersAssumption
  <2>3. <<>> \in Seq(Mutant) /\ Len(<<>>) = 0
    OBVIOUS
  <2>4. CASE mutants' \in MutantLists
    BY <2>2, <2>4
  <2>5. CASE mutants' = <<>>
    BY <2>2, <2>3, <2>5
  <2> QED
    BY <2>1, <2>4, <2>5
<1>2. TypeOK'
  BY <1>0, <1>1 DEF TypeOK, world, task
<1>3. BeforeInv' /\ BaselineInv' /\ RunningInv'
  BY <1>0 DEF BeforeInv, BaselineInv, RunningInv, Before, task
<1>4. ExactWhenReliable'
  <2>1. DOMAIN mutants' = 1..Len(mutants') /\ Len(mutants') \in Nat /\ MaxMutants \in Nat
    BY <1>0, <1>1, Sizes
  <2>2. \A k \in DOMAIN mutants' : k \in Index
    BY <1>1, <2>1 DEF Index
  <2> QED
    BY <1>0, <2>2 DEF ExactWhenReliable, BeforeInv, Before
<1> QED
  BY <1>2, <1>3, <1>4 DEF IInv

(* WarmUp and RunBaseline, which only move on and measure.                 *)
LEMMA MeasuringStep == ASSUME IInv, WarmUp \/ RunBaseline PROVE IInv'
<1>0. /\ TypeOK /\ BeforeInv /\ ExactWhenReliable
      /\ pc \in {"warmUp", "baseline"} /\ pc' \in {"baseline", "dispatch"}
      /\ UNCHANGED <<world, mutants, cuts, task, verdict>>
  BY DEF IInv, WarmUp, RunBaseline
<1>1. baseline' \in 0..Timeout
  <2>1. CASE WarmUp
    BY <1>0, <2>1 DEF WarmUp, TypeOK
  <2>2. CASE RunBaseline
    <3>1. baseline' \in Times \cup {0, 1, Timeout}
      BY <2>2 DEF RunBaseline
    <3>2. Times \subseteq 1..Timeout /\ Timeout \in Nat \ {0}
      BY ParametersAssumption
    <3> QED
      BY <3>1, <3>2
  <2> QED
    BY <2>1, <2>2
<1>2. TypeOK'
  BY <1>0, <1>1 DEF TypeOK, world, task
<1>3. BeforeInv' /\ RunningInv'
  BY <1>0 DEF BeforeInv, RunningInv, Before, task
<1>4. BaselineInv'
  BY <1>0 DEF WarmUp, RunBaseline, BaselineInv, world
<1>5. ExactWhenReliable'
  BY <1>0 DEF ExactWhenReliable, world
<1> QED
  BY <1>2, <1>3, <1>4, <1>5 DEF IInv

(* Every task is at the first mutant of its batch.                         *)
LEMMA DispatchStep == ASSUME IInv, Dispatch PROVE IInv'
<1>0. /\ TypeOK /\ BeforeInv /\ BaselineInv /\ ExactWhenReliable
      /\ pc = "dispatch" /\ pc' = "running" /\ cuts' \in Batches
      /\ next' = [t \in Task |-> cuts'[t-1] + 1]
      /\ UNCHANGED <<world, mutants, baseline, process, verdict>>
  BY DEF IInv, Dispatch
<1>1. /\ cuts' \in [0..Workers -> 0..Len(mutants)]
      /\ \A s, t \in 0..Workers : s < t => cuts'[s] <= cuts'[t]
  BY <1>0 DEF Batches
<1>2. /\ cuts' \in [0..Workers -> 0..MaxMutants]
      /\ \A t \in 0..Workers : cuts'[t] \in 0..MaxMutants
      /\ \A t \in Task : t \in 0..Workers /\ t - 1 \in 0..Workers /\ t - 1 < t
  <2>1. 0..Len(mutants) \subseteq 0..MaxMutants
    BY <1>0, Sizes
  <2>2. cuts' \in [0..Workers -> 0..MaxMutants]
    BY <1>1, <2>1
  <2>3. \A t \in Task : t \in 0..Workers /\ t - 1 \in 0..Workers /\ t - 1 < t
    BY <1>0, Sizes
  <2> QED
    BY <2>2, <2>3
<1>3. TypeOK'
  <2>1. next' \in [Task -> 1..(MaxMutants + 1)]
    BY <1>0, <1>2, Sizes
  <2> QED
    BY <1>0, <1>2, <2>1 DEF TypeOK, world
<1>4. BeforeInv' /\ BaselineInv'
  BY <1>0 DEF BeforeInv, BaselineInv, Before, world
<1>5. RunningInv'
  <2>1. cuts' \in Batches'
    BY <1>0 DEF Batches, Used
  <2>2. ASSUME NEW t \in Task PROVE TaskInv(t)'
    <3>1. cuts'[t-1] \in Nat /\ cuts'[t] \in Nat /\ cuts'[t-1] <= cuts'[t]
      BY <1>1, <1>2, Sizes
    <3>2. next'[t] = cuts'[t-1] + 1 /\ process'[t] = {}
      BY <1>0 DEF BeforeInv, Before
    <3> QED
      BY <3>1, <3>2 DEF TaskInv
  <2>3. ASSUME NEW k \in Index PROVE verdict'[k] = "none" /\ ~Left(k)'
    <3>1. verdict'[k] = "none"
      BY <1>0 DEF BeforeInv, Before
    <3>2. ASSUME NEW t \in Task, cuts'[t-1] < k, k < next'[t] PROVE FALSE
      <4>1. cuts'[t-1] \in Nat /\ k \in Nat /\ next'[t] = cuts'[t-1] + 1
        BY <1>0, <1>2, Sizes
      <4> QED
        BY <4>1, <3>2
    <3> QED
      BY <3>1, <3>2 DEF Left
  <2> QED
    BY <2>1, <2>2, <2>3 DEF RunningInv
<1>6. ExactWhenReliable'
  BY <1>0 DEF ExactWhenReliable, world
<1> QED
  BY <1>3, <1>4, <1>5, <1>6 DEF IInv

(* The end keeps the verdicts.                                             *)
LEMMA EndingStep == ASSUME IInv, Finish \/ Fatal PROVE IInv'
<1>0. /\ TypeOK /\ ExactWhenReliable /\ pc' \in {"done", "aborted"}
      /\ UNCHANGED <<world, mutants, baseline, cuts, task, verdict>>
  BY DEF IInv, Finish, Fatal
<1>1. TypeOK'
  BY <1>0 DEF TypeOK, world, task
<1>2. BeforeInv' /\ BaselineInv' /\ RunningInv'
  BY <1>0 DEF BeforeInv, BaselineInv, RunningInv, Before
<1>3. ExactWhenReliable'
  BY <1>0 DEF ExactWhenReliable, world
<1> QED
  BY <1>1, <1>2, <1>3 DEF IInv

LEMMA StartMutantStep == ASSUME IInv, NEW t \in Task, StartMutant(t) PROVE IInv'
<1>0. /\ TypeOK /\ BaselineInv /\ RunningInv /\ ExactWhenReliable
      /\ pc = "running" /\ ~Finished(t) /\ Current(t) \in covered
      /\ process' = [process EXCEPT ![t] = {Current(t)}]
      /\ UNCHANGED <<world, main, next, verdict>>
  BY DEF IInv, StartMutant, Ready
<1>1. Current(t) \in Mutant
  BY <1>0, CurrentMutant
<1>2. TypeOK'
  <2>1. process' \in [Task -> {{}} \cup {{m} : m \in Mutant}]
    BY <1>0, <1>1 DEF TypeOK
  <2> QED
    BY <1>0, <2>1 DEF TypeOK, world, main
<1>3. BeforeInv' /\ BaselineInv'
  BY <1>0 DEF BeforeInv, BaselineInv, Before, world, main
<1>4. RunningInv'
  <2>1. ASSUME NEW u \in Task PROVE TaskInv(u)'
    <3>1. TaskInv(u)
      BY <1>0 DEF RunningInv
    <3>2. process'[u] = IF u = t THEN {Current(t)} ELSE process[u]
      BY <1>0 DEF TypeOK
    <3> QED
      BY <1>0, <3>1, <3>2 DEF TaskInv, Finished, Current, world, main
  <2>2. cuts' \in Batches'
    BY <1>0 DEF RunningInv, Batches, Used, main
  <2>3. \A k \in Index : verdict'[k] # "none" <=> Left(k)'
    BY <1>0 DEF RunningInv, Left, main
  <2> QED
    BY <2>1, <2>2, <2>3 DEF RunningInv
<1>5. ExactWhenReliable'
  BY <1>0 DEF ExactWhenReliable, world, main
<1> QED
  BY <1>2, <1>3, <1>4, <1>5 DEF IInv

(* A verdict for the mutant a task is at.                                  *)
LEMMA JudgeStep ==
    ASSUME IInv, NEW t \in Task, pc = "running", ~Finished(t),
           NEW v \in Verdicts, Judge(t, v),
           healthy /\ reliable =>
               (Reading(v) = "killed" <=> Current(t) \in covered \cap (detected \cup hanging))
    PROVE  IInv'
<1>0. /\ TypeOK /\ BaselineInv /\ RunningInv /\ ExactWhenReliable
      /\ verdict' = [verdict EXCEPT ![next[t]] = v]
      /\ next' = [next EXCEPT ![t] = next[t] + 1]
      /\ process' = [process EXCEPT ![t] = {}]
      /\ UNCHANGED <<world, main>>
  BY DEF IInv, Judge
<1>1. /\ next[t] \in DOMAIN mutants /\ next[t] \in Index /\ next[t] <= cuts[t]
      /\ next[t] \in Nat /\ next[t] + 1 \in 1..(MaxMutants + 1)
  BY <1>0, CurrentMutant, Sizes
<1>2. TypeOK'
  <2>1. verdict' \in [Index -> {"none"} \cup Verdicts]
    BY <1>0, <1>1 DEF TypeOK
  <2>2. next' \in [Task -> 1..(MaxMutants + 1)]
    BY <1>0, <1>1 DEF TypeOK
  <2>3. process' \in [Task -> {{}} \cup {{m} : m \in Mutant}]
    BY <1>0 DEF TypeOK
  <2> QED
    BY <1>0, <2>1, <2>2, <2>3 DEF TypeOK, world, main
<1>3. BeforeInv' /\ BaselineInv'
  BY <1>0 DEF BeforeInv, BaselineInv, Before, world, main
<1>n. \A u \in Task : next'[u] = IF u = t THEN next[t] + 1 ELSE next[u]
  BY <1>0 DEF TypeOK
<1>v. \A k \in Index : verdict'[k] = IF k = next[t] THEN v ELSE verdict[k]
  BY <1>0, <1>1 DEF TypeOK
<1>4. RunningInv'
  <2>0. cuts \in Batches /\ (\A u \in Task : TaskInv(u)) /\ cuts' = cuts /\ mutants' = mutants
    BY <1>0 DEF RunningInv, main
  <2>1. cuts' \in Batches'
    BY <2>0 DEF Batches, Used
  <2>2. ASSUME NEW u \in Task PROVE TaskInv(u)'
    <3>0. next[u] \in Nat
      BY <1>0, Sizes DEF TypeOK
    <3>b. cuts[u-1] \in Nat /\ cuts[u] \in Nat
      <4>1. TypeOK /\ cuts \in Batches
        BY <1>0, <2>0
      <4> QED
        BY <4>1, BatchBounds
    <3>1. TaskInv(u) /\ cuts[u-1] \in Nat /\ cuts[u] \in Nat /\ next[u] \in Nat
      BY <2>0, <3>0, <3>b
    <3>2. process'[u] = IF u = t THEN {} ELSE process[u]
      BY <1>0 DEF TypeOK
    <3>3. CASE u = t
      BY <3>1, <3>2, <3>3, <1>n, <1>1, <2>0 DEF TaskInv
    <3>4. CASE u # t
      BY <3>1, <3>2, <3>4, <1>n, <1>0, <2>0 DEF TaskInv, Finished, Current, world
    <3> QED
      BY <3>3, <3>4
  <2>3. ASSUME NEW k \in Index PROVE verdict'[k] # "none" <=> Left(k)'
    <3>0. /\ verdict[k] # "none" <=> Left(k)
          /\ k \in Nat /\ (\A u \in Task : next[u] \in Nat)
          /\ cuts[t-1] < next[t] /\ v # "none"
      <4>1. verdict[k] # "none" <=> Left(k)
        BY <1>0 DEF RunningInv
      <4>2. k \in Nat /\ (\A u \in Task : next[u] \in Nat)
        BY <1>0, Sizes DEF TypeOK
      <4>3. cuts[t-1] < next[t]
        BY <2>0 DEF TaskInv
      <4>4. v # "none"
        BY DEF Verdicts
      <4> QED
        BY <4>1, <4>2, <4>3, <4>4
    <3>1. CASE k = next[t]
      <4>1. cuts'[t-1] < k /\ k < next'[t]
        BY <3>0, <3>1, <1>n, <2>0
      <4> QED
        BY <4>1, <3>0, <3>1, <1>v DEF Left
    <3>2. CASE k # next[t]
      <4>1. \A u \in Task : k < next'[u] <=> k < next[u]
        BY <3>0, <3>2, <1>n
      <4> QED
        BY <4>1, <3>0, <3>2, <1>v, <2>0 DEF Left
    <3> QED
      BY <3>1, <3>2
  <2> QED
    BY <2>1, <2>2, <2>3 DEF RunningInv
<1>5. ExactWhenReliable'
  <2> SUFFICES ASSUME healthy, reliable, NEW k \in DOMAIN mutants, verdict'[k] # "none"
               PROVE  Reading(verdict'[k]) = "killed"
                        <=> mutants[k] \in covered \cap (detected \cup hanging)
    BY <1>0 DEF ExactWhenReliable, world, main
  <2>1. k \in Index
    BY <1>0, Sizes
  <2>2. CASE k = next[t]
    BY <2>1, <2>2, <1>v DEF Current
  <2>3. CASE k # next[t]
    BY <2>1, <2>3, <1>v, <1>0 DEF ExactWhenReliable
  <2> QED
    BY <2>2, <2>3
<1> QED
  BY <1>2, <1>3, <1>4, <1>5 DEF IInv

LEMMA SkipMutantStep == ASSUME IInv, NEW t \in Task, SkipMutant(t) PROVE IInv'
<1>1. pc = "running" /\ ~Finished(t) /\ Current(t) \notin covered /\ Judge(t, "NotCovered")
  BY DEF SkipMutant, Ready
<1>2. "NotCovered" \in Verdicts /\ Reading("NotCovered") = "survived"
  BY DEF Verdicts, Reading
<1> QED
  BY <1>1, <1>2, JudgeStep

LEMMA FinishMutantStep == ASSUME IInv, NEW t \in Task, FinishMutant(t) PROVE IInv'
<1>0. TypeOK /\ BaselineInv /\ RunningInv /\ pc = "running" /\ process[t] # {}
  BY DEF IInv, FinishMutant
<1>1. PICK v \in Run(process[t], Times, baseline * 10) : Judge(t, v)
  BY DEF FinishMutant
<1>2. ~Finished(t) /\ process[t] = {Current(t)} /\ Current(t) \in covered
  BY <1>0 DEF RunningInv, TaskInv
<1>3. v \in Verdicts
  BY <1>1, RunType
<1>4. ASSUME healthy, reliable
      PROVE  Reading(v) = "killed" <=> Current(t) \in covered \cap (detected \cup hanging)
  <2>1. baseline \in Times /\ Current(t) \in Mutant
    BY <1>0, <1>2, <1>4, CurrentMutant DEF BaselineInv
  <2>2. /\ v \in {"Passed", "Failed", "Timedout"}
        /\ v = "Passed" <=> Current(t) \notin detected \cup hanging
    BY <1>0, <1>1, <1>2, <1>4, <2>1, RunIsExact
  <2> QED
    BY <2>2, <1>2 DEF Reading
<1> QED
  BY <1>0, <1>1, <1>2, <1>3, <1>4, JudgeStep

LEMMA StutteringStep == ASSUME IInv, UNCHANGED vars PROVE IInv'
<1>0. UNCHANGED <<detected, hanging, covered, healthy, reliable, pc, mutants, baseline, cuts,
                  next, process, verdict>>
  BY DEF vars, world, main, task
<1>1. TypeOK' /\ BeforeInv' /\ BaselineInv'
  BY <1>0 DEF IInv, TypeOK, BeforeInv, BaselineInv
<1>2. RunningInv'
  BY <1>0 DEF IInv, RunningInv, Batches, Used, TaskInv, Finished, Current, Left
<1>3. ExactWhenReliable'
  BY <1>0 DEF IInv, ExactWhenReliable
<1> QED
  BY <1>1, <1>2, <1>3 DEF IInv

(* Every step preserves the invariant.                                     *)
LEMMA NextHolds == IInv /\ [Next]_vars => IInv'
<1> SUFFICES ASSUME IInv, [Next]_vars PROVE IInv'
  OBVIOUS
<1>1. CASE Main
  BY <1>1, ExtractMutantsStep, MeasuringStep, DispatchStep, EndingStep DEF Main
<1>2. ASSUME NEW t \in Task, TaskStep(t) PROVE IInv'
  BY <1>2, StartMutantStep, SkipMutantStep, FinishMutantStep DEF TaskStep
<1>3. CASE Fatal
  BY <1>3, EndingStep
<1>4. CASE UNCHANGED vars
  BY <1>4, StutteringStep
<1> QED
  BY <1>1, <1>2, <1>3, <1>4 DEF Next, Terminated

(* IInv is an invariant of mull-xctest.                                    *)
THEOREM Invariance == Spec => []IInv
<1>1. Init => IInv
  BY InitHolds
<1>2. IInv /\ [Next]_vars => IInv'
  BY NextHolds
<1> QED
  BY <1>1, <1>2, PTL DEF Spec

(* Every variable of run() and its tasks keeps its type: no task leaves    *)
(* its batch by more than one, and none runs two processes.                *)
THEOREM TypeCorrectness == Spec => []TypeOK
<1>1. IInv => TypeOK
  BY DEF IInv
<1> QED
  BY <1>1, Invariance, PTL

(* Where nothing but the mutants disturbs the tests, the verdicts are      *)
(* exact, for every number of mutants and workers and all running times    *)
(* within a factor of ten of each other.                                   *)
THEOREM VerdictsAreExact == Spec => []ExactWhenReliable
<1>1. IInv => ExactWhenReliable
  BY DEF IInv
<1> QED
  BY <1>1, Invariance, PTL

-----------------------------------------------------------------------------
(* Refinement.                                                             *)

LEMMA ReadingOf ==
    ASSUME NEW v \in {"none"} \cup Verdicts
    PROVE  /\ Reading(v) \in {"none", "killed", "survived"}
           /\ Reading(v) = "none" <=> v = "none"
  BY DEF Reading, Verdicts

(* A step that leaves the world, the mutants, the verdicts and the phase   *)
(* of the abstract runner alone is not seen there.                         *)
LEMMA Unseen ==
    ASSUME UNCHANGED <<world, mutants, verdict>>,
           pc \in {"warmUp", "baseline", "dispatch", "running"},
           pc' \in {"warmUp", "baseline", "dispatch", "running"}
    PROVE  UNCHANGED Abstract!vars
  BY DEF Abstract!vars, world

(* A verdict for one more mutant.                                          *)
LEMMA JudgeRefines ==
    ASSUME IInv, IInv', NEW t \in Task, pc = "running", ~Finished(t),
           NEW v \in Verdicts, Judge(t, v)
    PROVE  Abstract!Judge
<1>0. /\ TypeOK /\ RunningInv /\ ExactWhenReliable'
      /\ verdict' = [verdict EXCEPT ![next[t]] = v]
      /\ UNCHANGED <<world, main>>
  BY DEF IInv, Judge
<1>1. /\ next[t] \in DOMAIN mutants /\ next[t] \in Index
      /\ mutants[next[t]] \in Mutant /\ verdict[next[t]] = "none"
  BY <1>0, CurrentMutant DEF Current
<1>2. \A k \in Index : verdict'[k] = IF k = next[t] THEN v ELSE verdict[k]
  BY <1>0, <1>1 DEF TypeOK
<1>3. Reading(v) \in {"killed", "survived"} /\ v # "none"
  BY ReadingOf DEF Verdicts, Reading
<1> DEFINE S == {next[t]}
           killed == IF Reading(v) = "killed" THEN S ELSE {}
           can == IF healthy /\ reliable THEN detected \cup hanging ELSE Mutant
<1>4. S \in SUBSET Abstract!Unjudged /\ killed \in SUBSET S
  BY <1>1, ReadingOf DEF Abstract!Unjudged, Reading
<1>5. \A k \in killed : mutants[k] \in can
  <2> SUFFICES ASSUME Reading(v) = "killed" PROVE mutants[next[t]] \in can
    OBVIOUS
  <2>1. CASE healthy /\ reliable
    <3>1. verdict'[next[t]] = v
      BY <1>1, <1>2
    <3>2. mutants[next[t]] \in covered \cap (detected \cup hanging)
      BY <1>0, <1>1, <1>3, <3>1, <2>1 DEF ExactWhenReliable, world, main
    <3> QED
      BY <3>2, <2>1
  <2>2. CASE ~(healthy /\ reliable)
    BY <2>2, <1>1
  <2> QED
    BY <2>1, <2>2
<1>6. [k \in Index |-> Reading(verdict'[k])]
        = [k \in Index |-> IF k \in killed THEN "killed" ELSE IF k \in S THEN "survived"
                           ELSE [i \in Index |-> Reading(verdict[i])][k]]
  <2> SUFFICES ASSUME NEW k \in Index
               PROVE  Reading(verdict'[k]) = IF k \in killed THEN "killed"
                                             ELSE IF k \in S THEN "survived"
                                             ELSE Reading(verdict[k])
    OBVIOUS
  <2> QED
    BY <1>2, <1>3
<1>7. UNCHANGED <<can, mutants, pc>>
  BY <1>0 DEF world, main
<1> QED
  BY <1>4, <1>5, <1>6, <1>7 DEF Abstract!Judge, Abstract!Index, Index

(* When the tasks are done, every mutant of the list has a verdict.        *)
LEMMA FinishRefines == ASSUME IInv, Finish PROVE Abstract!Finish
<1>0. /\ TypeOK /\ RunningInv /\ pc = "running" /\ pc' = "done"
      /\ \A t \in Task : Finished(t)
      /\ UNCHANGED <<world, mutants, verdict>>
  BY DEF IInv, Finish
<1>1. /\ cuts \in [0..Workers -> Nat] /\ cuts[0] = 0 /\ cuts[Used] = Len(mutants)
      /\ Workers \in Nat /\ Used \in 0..Workers /\ Task = 1..Workers
  BY <1>0, Sizes, BatchBounds DEF RunningInv
<1>2. ASSUME NEW k \in DOMAIN mutants PROVE Reading(verdict[k]) # "none"
  <2>1. k \in Nat /\ k \in Index /\ cuts[0] < k /\ k <= cuts[Used]
    BY <1>0, <1>1, Sizes
  <2>2. PICK t \in 1..Workers : cuts[t-1] < k /\ k <= cuts[t]
    BY <1>1, <2>1, PassedOnce
  <2>3. next[t] \in Nat /\ cuts[t] \in Nat /\ next[t] > cuts[t]
    BY <1>0, <1>1, Sizes DEF TypeOK, Finished
  <2>4. k < next[t]
    BY <2>1, <2>2, <2>3
  <2>5. verdict[k] # "none"
    BY <1>0, <1>1, <2>1, <2>2, <2>4 DEF RunningInv, Left
  <2>6. verdict[k] \in {"none"} \cup Verdicts
    BY <1>0, <2>1 DEF TypeOK
  <2> QED
    BY <2>5, <2>6, ReadingOf
<1>3. Abstract!Unjudged = {}
  <2>1. \A k \in DOMAIN mutants : k \in Index
    BY <1>0, Sizes
  <2> QED
    BY <1>2, <2>1 DEF Abstract!Unjudged
<1> QED
  BY <1>0, <1>3 DEF Abstract!Finish, world

(* Every step of mull-xctest is a step of the abstract runner or stutters. *)
LEMMA StepRefines ==
    ASSUME IInv, IInv', [Next]_vars
    PROVE  [Abstract!Next]_Abstract!vars
<1>1. CASE ExtractMutants
  <2>1. mutants' \in Seq(Mutant) /\ Len(mutants') <= MaxMutants
    BY DEF IInv, TypeOK
  <2>2. Abstract!Discover
    BY <1>1, <2>1 DEF ExtractMutants, Abstract!Discover, world
  <2> QED
    BY <2>2 DEF Abstract!Next
<1>2. CASE WarmUp \/ RunBaseline \/ Dispatch
  BY <1>2, Unseen DEF WarmUp, RunBaseline, Dispatch
<1>3. CASE Finish
  BY <1>3, FinishRefines DEF Abstract!Next
<1>4. CASE Fatal
  <2>1. Abstract!Die
    BY <1>4 DEF Fatal, Abstract!Die, world
  <2> QED
    BY <2>1 DEF Abstract!Next
<1>5. ASSUME NEW t \in Task, TaskStep(t) PROVE [Abstract!Next]_Abstract!vars
  <2>1. CASE StartMutant(t)
    BY <2>1, Unseen DEF StartMutant, Ready, main
  <2>2. CASE SkipMutant(t)
    <3>1. pc = "running" /\ ~Finished(t) /\ Judge(t, "NotCovered")
      BY <2>2 DEF SkipMutant, Ready
    <3>2. "NotCovered" \in Verdicts
      BY DEF Verdicts
    <3> QED
      BY <3>1, <3>2, JudgeRefines DEF Abstract!Next
  <2>3. CASE FinishMutant(t)
    <3>1. pc = "running" /\ ~Finished(t)
      BY <2>3 DEF FinishMutant, IInv, RunningInv, TaskInv
    <3>2. PICK v \in Run(process[t], Times, baseline * 10) : Judge(t, v)
      BY <2>3 DEF FinishMutant
    <3>3. v \in Verdicts
      BY <3>2, RunType
    <3> QED
      BY <3>1, <3>2, <3>3, JudgeRefines DEF Abstract!Next
  <2> QED
    BY <1>5, <2>1, <2>2, <2>3 DEF TaskStep
<1>6. CASE UNCHANGED vars
  BY <1>6 DEF vars, world, main, task, Abstract!vars
<1> QED
  BY <1>1, <1>2, <1>3, <1>4, <1>5, <1>6 DEF Next, Main, Terminated

(* mull-xctest implements the test runner: every mutant gets one verdict,  *)
(* a disturbed run aside only mutants the tests notice are killed, and the *)
(* results are returned when all mutants have theirs.                      *)
THEOREM Refinement == Spec => ImplementsMutationTesting
<1>1. Init => Abstract!Init
  <2> SUFFICES ASSUME Init PROVE Abstract!Init
    OBVIOUS
  <2>1. [k \in Index |-> Reading(verdict[k])] = [k \in Index |-> "none"]
    BY DEF Init, Reading
  <2> QED
    BY <2>1 DEF Init, Abstract!Init, Abstract!Index, Index
<1>2. IInv /\ IInv' /\ [Next]_vars => [Abstract!Next]_Abstract!vars
  BY StepRefines
<1> QED
  BY <1>1, <1>2, Invariance, PTL DEF Spec, ImplementsMutationTesting, Abstract!Spec
=============================================================================
