---------------------- MODULE XCTestRunInvocationProofs ----------------------
(***************************************************************************)
(* Theorems about XCTestRunInvocation, for every set of mutants, number of *)
(* workers and number of external failures.                                *)
(***************************************************************************)
EXTENDS XCTestRunInvocation, InductionLemmas, FiniteSetTheorems

(* A run file in which every target activates at most the mutant it is     *)
(* named after, and only that target may carry the mutant's name.          *)
FileSafe(f) ==
    \A x \in Target : /\ f[x].env \subseteq {x}
                      /\ f[x].blueprint \in Mutant => f[x].blueprint = x

(* A bundle in which, under the assumptions of KillSound, only mutants the *)
(* tests fail or hang for are among the failures.                          *)
BundleSound(b) ==
    healthy /\ fresh => \A m \in Mutant : m \in b.targets => m \in detected \cup hanging

FilesInv   == FileSafe(base) /\ \A t \in Task : FileSafe(local[t])
BundlesInv == \A t \in Task : BundleSound(bundle[t]) /\ BundleSound(failing[t])
CutsInv    == /\ pc = "running" => cuts \in Batches
              /\ pc \notin {"running", "done", "aborted"} =>
                    \A k \in Index : verdict[k] = "none"

IInv == TypeOK /\ FilesInv /\ BundlesInv /\ CutsInv /\ KillSound

-----------------------------------------------------------------------------
(* The edits of a run file.                                                *)

(* Names of targets are told apart from identifiers of mutants.            *)
LEMMA Names == /\ Source \in Target /\ Source \notin Mutant
               /\ Mutant \subseteq Target /\ Others \subseteq Target
               /\ \A x \in Others : x \notin Mutant
  BY NamesAssumption DEF Target

(* An absent entry is an entry that activates nothing.                     *)
LEMMA AbsentEntry == /\ Absent \in Entry /\ Absent.env = {}
                     /\ Absent.blueprint = Source /\ ~Absent.present
  BY Names DEF Absent, Entry

(* Replacing one entry of a safe file by a safe one.                       *)
LEMMA ExceptFile ==
    ASSUME NEW f \in File, FileSafe(f), NEW x \in Target, NEW e \in Entry,
           e.env \subseteq {x}, e.blueprint \in Mutant => e.blueprint = x
    PROVE  [f EXCEPT ![x] = e] \in File /\ FileSafe([f EXCEPT ![x] = e])
<1>1. [f EXCEPT ![x] = e] \in File
  BY DEF File
<1>2. ASSUME NEW y \in Target
      PROVE  /\ [f EXCEPT ![x] = e][y].env \subseteq {y}
             /\ [f EXCEPT ![x] = e][y].blueprint \in Mutant
                    => [f EXCEPT ![x] = e][y].blueprint = y
  <2>1. CASE y = x
    BY <2>1 DEF File
  <2>2. CASE y # x
    BY <2>2 DEF File, FileSafe
  <2> QED
    BY <2>1, <2>2
<1> QED
  BY <1>1, <1>2 DEF FileSafe

(* What the entry of a target of a file is.                                *)
LEMMA EntryOf ==
    ASSUME NEW f \in File, NEW x \in Target
    PROVE  /\ f[x] \in Entry /\ f[x].env \in SUBSET Mutant /\ f[x].blueprint \in Target
           /\ f[x].present \in BOOLEAN
  BY DEF File, Entry

(* The copy of the source target activates no mutant.                      *)
LEMMA DuplicateSafe ==
    ASSUME NEW f \in File, FileSafe(f), NEW m \in Mutant
    PROVE  /\ duplicateTestTarget(f, Source, m) \in File
           /\ FileSafe(duplicateTestTarget(f, Source, m))
<1>1. /\ f[Source] \in Entry /\ f[Source].env = {} /\ f[Source].blueprint \notin Mutant
      /\ m \in Target
  BY Names, EntryOf DEF FileSafe
<1>2. /\ [f EXCEPT ![m] = f[Source]] \in File
      /\ FileSafe([f EXCEPT ![m] = f[Source]])
  BY <1>1, ExceptFile
<1> QED
  BY <1>2 DEF duplicateTestTarget

(* The variable added to the target of a mutant is its own.                *)
LEMMA AddEnvironmentSafe ==
    ASSUME NEW f \in File, FileSafe(f), NEW m \in Mutant
    PROVE  /\ addEnvironmentVariable(f, m, m) \in File
           /\ FileSafe(addEnvironmentVariable(f, m, m))
<1> DEFINE e == [f[m] EXCEPT !.env = @ \cup {m}]
<1>1. m \in Target /\ f[m] \in Entry /\ f[m].env \subseteq {m}
      /\ (f[m].blueprint \in Mutant => f[m].blueprint = m)
  BY Names, EntryOf DEF FileSafe
<1>2. e \in Entry /\ e.env \subseteq {m} /\ e.blueprint = f[m].blueprint
  BY <1>1 DEF Entry
<1>3. [f EXCEPT ![m] = e] \in File /\ FileSafe([f EXCEPT ![m] = e])
  <2> HIDE DEF e
  <2> QED
    BY <1>1, <1>2, ExceptFile
<1>4. [f EXCEPT ![m].env = @ \cup {m}] = [f EXCEPT ![m] = e]
  BY <1>1 DEF File
<1> QED
  BY <1>3, <1>4 DEF addEnvironmentVariable

(* The blueprint name given to the target of a mutant is its own.          *)
LEMMA SetBlueprintSafe ==
    ASSUME NEW f \in File, FileSafe(f), NEW m \in Mutant
    PROVE  /\ setBlueprintName(f, m, m) \in File
           /\ FileSafe(setBlueprintName(f, m, m))
<1> DEFINE e == [f[m] EXCEPT !.blueprint = m]
<1>1. m \in Target /\ f[m] \in Entry /\ f[m].env \subseteq {m}
  BY Names, EntryOf DEF FileSafe
<1>2. e \in Entry /\ e.env = f[m].env /\ e.blueprint = m
  BY <1>1 DEF Entry
<1>3. [f EXCEPT ![m] = e] \in File /\ FileSafe([f EXCEPT ![m] = e])
  <2> HIDE DEF e
  <2> QED
    BY <1>1, <1>2, ExceptFile
<1>4. [f EXCEPT ![m].blueprint = m] = [f EXCEPT ![m] = e]
  BY <1>1 DEF File
<1> QED
  BY <1>3, <1>4 DEF setBlueprintName

(* Deleting a target is safe.                                              *)
LEMMA DeleteSafe ==
    ASSUME NEW f \in File, FileSafe(f), NEW x \in Target
    PROVE  deleteTestTarget(f, x) \in File /\ FileSafe(deleteTestTarget(f, x))
<1>1. Absent \in Entry /\ Absent.env \subseteq {x} /\ Absent.blueprint \notin Mutant
  BY AbsentEntry, Names
<1> QED
  BY <1>1, ExceptFile DEF deleteTestTarget

(* The files that are copied: the original, none, or a leftover.           *)
LEMMA SourcesSafe ==
    /\ NoFile \in File /\ FileSafe(NoFile)
    /\ \A S \in SUBSET ({Source} \cup Others) : FileWith(S) \in File /\ FileSafe(FileWith(S))
    /\ \A f \in LeftoverFiles : f \in File /\ FileSafe(f)
<1>1. NoFile \in File /\ FileSafe(NoFile)
  BY AbsentEntry, Names DEF NoFile, File, FileSafe
<1>2. ASSUME NEW S \in SUBSET ({Source} \cup Others)
      PROVE  FileWith(S) \in File /\ FileSafe(FileWith(S))
  <2>1. \A x \in Target : [present |-> TRUE, env |-> {}, blueprint |-> x] \in Entry
    BY DEF Entry
  <2>2. FileWith(S) \in File
    BY <2>1, AbsentEntry DEF FileWith, File
  <2>3. ASSUME NEW x \in Target
        PROVE  /\ FileWith(S)[x].env = {}
               /\ FileWith(S)[x].blueprint \in Mutant => FileWith(S)[x].blueprint = x
    BY AbsentEntry, Names DEF FileWith
  <2> QED
    BY <2>2, <2>3 DEF FileSafe
<1>3. ASSUME NEW f \in LeftoverFiles
      PROVE  f \in File /\ FileSafe(f)
  <2>1. f \in File /\ \A x \in Target : f[x] \in LeftoverEntries(x)
    BY LeftoversAssumption
  <2>2. ASSUME NEW x \in Target
        PROVE  f[x].env \subseteq {x} /\ (f[x].blueprint \in Mutant => f[x].blueprint = x)
    <3>1. CASE f[x] = Absent
      BY <3>1, AbsentEntry, Names
    <3>2. CASE f[x] # Absent
      <4>1. /\ f[x].env \in {{}, {x} \cap Mutant}
            /\ f[x].blueprint \in {x} \cup {y \in {Source} : x \in Mutant}
        BY <2>1, <3>2 DEF LeftoverEntries
      <4> QED
        BY <4>1, Names
    <3> QED
      BY <3>1, <3>2
  <2> QED
    BY <2>1, <2>2 DEF FileSafe
<1> QED
  BY <1>1, <1>2, <1>3

(* There are finitely many targets, and a run over them takes its time.    *)
LEMMA TargetsFinite == ASSUME NEW f \in File PROVE IsFiniteSet(getTargets(f))
<1>1. IsFiniteSet(Target)
  <2>1. IsFiniteSet({Source}) /\ IsFiniteSet(Others) /\ IsFiniteSet(Mutant)
    BY NamesAssumption, FS_Singleton
  <2>2. IsFiniteSet({Source} \cup Others)
    BY <2>1, FS_Union
  <2> QED
    BY <2>1, <2>2, FS_Union DEF Target
<1>2. getTargets(f) \in SUBSET Target
  BY DEF getTargets
<1> QED
  BY <1>1, <1>2, FS_Subset

LEMMA DurationType == ASSUME NEW f \in File, NEW u \in Nat PROVE Duration(f, u) \in Nat
<1>1. Cardinality(getTargets(f)) \in Nat
  BY TargetsFinite, FS_CardinalityType
<1> DEFINE c == Cardinality(getTargets(f))
<1> HIDE DEF c
<1>2. c \in Nat
  BY <1>1 DEF c
<1>3. c * u \in Nat
  BY <1>2
<1> QED
  BY <1>3 DEF c, Duration

(* Ten times the baseline for each of n mutants covers n targets and the   *)
(* b - 1 other ones that are left in the base file.                        *)
LEMMA LongEnough ==
    ASSUME NEW d \in Nat, NEW b \in Nat, NEW n \in Nat, NEW u \in Nat, NEW T \in Nat,
           b >= 1, n >= 1, d <= (b - 1) + n, b * u < T * 10
    PROVE  d * u < T * n * 10
<1>1. d <= n * b
  <2>1. PICK i \in Nat, j \in Nat : b = i + 1 /\ n = j + 1
    <3>1. b - 1 \in Nat /\ n - 1 \in Nat /\ b = (b - 1) + 1 /\ n = (n - 1) + 1
      OBVIOUS
    <3> QED
      BY <3>1
  <2>2. n * b = j * i + j + i + 1 /\ j * i \in Nat
    BY <2>1
  <2> QED
    BY <2>1, <2>2
<1>2. \A x, y, z \in Nat : x <= y => x * z <= y * z
  OBVIOUS
<1>3. n * b \in Nat /\ d * u <= (n * b) * u
  BY <1>1, <1>2
<1>4. (n * b) * u = n * (b * u) /\ b * u \in Nat
  OBVIOUS
<1>5. \A x, y \in Nat : x < y => n * x < n * y
  OBVIOUS
<1>6. n * (b * u) < n * (T * 10)
  BY <1>4, <1>5
<1>7. n * (T * 10) = T * n * 10 /\ n * (b * u) \in Nat /\ d * u \in Nat /\ T * n * 10 \in Nat
  OBVIOUS
<1> QED
  BY <1>3, <1>4, <1>6, <1>7

(* The failures of a run over a safe file with a healthy suite are those   *)
(* of mutants the tests fail or hang for.                                  *)
LEMMA FailuresSound ==
    ASSUME NEW f \in File, FileSafe(f)
    PROVE  /\ FailingBlueprints(f) \in SUBSET Target
           /\ healthy => \A m \in Mutant : m \in FailingBlueprints(f)
                            => m \in detected \cup hanging
<1>1. FailingBlueprints(f) \in SUBSET Target
  BY EntryOf DEF FailingBlueprints
<1>2. ASSUME healthy, NEW m \in Mutant, m \in FailingBlueprints(f)
      PROVE  m \in detected \cup hanging
  <2>1. PICK x \in Target : Fails(f[x]) /\ f[x].blueprint = m
    BY <1>2 DEF FailingBlueprints
  <2>2. x = m /\ f[x].env \subseteq {m}
    BY <2>1 DEF FileSafe
  <2>3. f[x].env \cap (detected \cup hanging) # {}
    BY <2>1, <1>2 DEF Fails
  <2> QED
    BY <2>2, <2>3
<1> QED
  BY <1>1, <1>2

-----------------------------------------------------------------------------
(* The steps.                                                              *)

(* Nothing has run yet, and there is no file.                              *)
LEMMA IInvInit == Init => IInv
<1> SUFFICES ASSUME Init PROVE IInv
  OBVIOUS
<1>0. MaxMutants \in Nat /\ Workers \in Nat \ {0} /\ MaxFaults \in Nat
  BY ParametersAssumption
<1>1. TypeOK
  BY <1>0, SourcesSafe DEF Init, TypeOK, Task, Index, Unreadable, Bundle
<1>2. FilesInv
  BY SourcesSafe DEF Init, FilesInv
<1>3. BundlesInv
  BY DEF Init, BundlesInv, BundleSound, Unreadable
<1>4. CutsInv /\ KillSound
  BY DEF Init, CutsInv, KillSound
<1> QED
  BY <1>1, <1>2, <1>3, <1>4 DEF IInv

(* The list of mutants is fixed while there is no verdict.                 *)
LEMMA ExtractMutantsStep == ASSUME IInv, ExtractMutants PROVE IInv'
<1>0. /\ TypeOK /\ FilesInv /\ BundlesInv /\ CutsInv /\ KillSound
      /\ MaxMutants \in Nat /\ Workers \in Nat \ {0} /\ MaxFaults \in Nat
  BY ParametersAssumption DEF IInv
<1>1. TypeOK'
  <2>1. mutants' \in Seq(Mutant) /\ Len(mutants') <= MaxMutants
    BY ParametersAssumption DEF ExtractMutants
  <2> QED
    BY <2>1, <1>0 DEF ExtractMutants, TypeOK, world, task, fault
<1>2. FilesInv'
  BY <1>0 DEF ExtractMutants, world, main, task, fault, FilesInv, FileSafe
<1>3. BundlesInv'
  BY <1>0 DEF ExtractMutants, world, main, task, fault, BundlesInv, BundleSound
<1>4. CutsInv'
  BY <1>0 DEF ExtractMutants, CutsInv
<1>5. KillSound'
  <2>1. \A k \in Index : verdict[k] = "none"
    BY <1>0 DEF ExtractMutants, CutsInv
  <2> QED
    BY <2>1 DEF ExtractMutants, world, KillSound
<1> QED
  BY <1>1, <1>2, <1>3, <1>4, <1>5 DEF IInv

(* The base file has no target of a mutant.                                *)
LEMMA GenerateBaseStep == ASSUME IInv, GenerateBase PROVE IInv'
<1>0. /\ TypeOK /\ FilesInv /\ BundlesInv /\ CutsInv /\ KillSound
      /\ MaxMutants \in Nat /\ Workers \in Nat \ {0} /\ MaxFaults \in Nat
  BY ParametersAssumption DEF IInv
<1>a. PICK copied \in {Original, NoFile} \cup {FileWith({Source} \cup S) : S \in SUBSET Others},
           left \in SUBSET Others :
         /\ left \subseteq getTargets(copied)
         /\ faults' = faults + (Cardinality(left) + IF copied = Original THEN 0 ELSE 1)
         /\ faults + (Cardinality(left) + IF copied = Original THEN 0 ELSE 1) <= MaxFaults
         /\ base' = [x \in Target |-> IF x \in {Source} \cup left THEN copied[x] ELSE Absent]
  BY DEF GenerateBase
<1>b. base' \in File /\ FileSafe(base')
  <2>1. copied \in File /\ FileSafe(copied)
    <3>1. \A S \in SUBSET Others : {Source} \cup S \in SUBSET ({Source} \cup Others)
      OBVIOUS
    <3> QED
      BY <3>1, SourcesSafe DEF Original
  <2>2. base' \in File
    BY <1>a, <2>1, AbsentEntry, EntryOf DEF File
  <2>3. ASSUME NEW x \in Target
        PROVE  /\ base'[x].env \subseteq {x}
               /\ base'[x].blueprint \in Mutant => base'[x].blueprint = x
    BY <1>a, <2>1, AbsentEntry, Names DEF FileSafe
  <2> QED
    BY <2>2, <2>3 DEF FileSafe
<1>f. faults' \in 0..MaxFaults
  <2>1. Cardinality(left) \in Nat
    <3>1. IsFiniteSet(left)
      BY NamesAssumption, FS_Subset
    <3> QED
      BY <3>1, FS_CardinalityType
  <2> QED
    BY <2>1, <1>a, <1>0 DEF TypeOK
<1>1. TypeOK'
  <2>1. base' \in File
    BY <1>b
  <2>2. faults' \in 0..MaxFaults
    BY <1>f
  <2>3. pc' \in {"aborted", "baseline"}
    BY DEF GenerateBase
  <2> QED
    BY <2>1, <2>2, <2>3, <1>0 DEF GenerateBase, TypeOK, world, task
<1>2. FilesInv'
  BY <1>b, <1>0 DEF GenerateBase, task, FilesInv, FileSafe
<1>3. BundlesInv'
  BY <1>0 DEF GenerateBase, world, main, task, fault, BundlesInv, BundleSound
<1>4. CutsInv'
  BY <1>0 DEF GenerateBase, CutsInv
<1>5. KillSound'
  <2>1. \A k \in Index : verdict[k] = "none"
    BY <1>0 DEF GenerateBase, CutsInv
  <2> QED
    BY <2>1 DEF GenerateBase, world, KillSound
<1> QED
  BY <1>1, <1>2, <1>3, <1>4, <1>5 DEF IInv

(* The running time of the baseline is recorded.                           *)
LEMMA RunBaselineStep == ASSUME IInv, RunBaseline PROVE IInv'
<1>0. /\ TypeOK /\ FilesInv /\ BundlesInv /\ CutsInv /\ KillSound
      /\ MaxMutants \in Nat /\ Workers \in Nat \ {0} /\ MaxFaults \in Nat
  BY ParametersAssumption DEF IInv
<1>1. TypeOK'
  <2>1. Times \subseteq Nat /\ Timeout \in Nat
    BY ParametersAssumption
  <2>2. baseline' \in [status : {"none", "Passed", "Failed", "Timedout"}, time : Nat]
    <3>1. CASE baseline' = [status |-> "Timedout", time |-> Timeout]
      BY <3>1, <2>1
    <3>2. ASSUME NEW u \in Times,
                 baseline' = [status |-> IF healthy THEN "Passed" ELSE "Failed",
                              time |-> Duration(base, u)]
          PROVE  baseline' \in [status : {"none", "Passed", "Failed", "Timedout"}, time : Nat]
      <4>1. Duration(base, u) \in Nat
        BY <2>1, <1>0, DurationType DEF TypeOK
      <4> QED
        BY <4>1, <3>2
    <3>3. CASE baseline' \in [status : {"Failed"}, time : 0..Timeout]
      <4>1. PICK n \in 0..Timeout : baseline' = [status |-> "Failed", time |-> n]
        BY <3>3
      <4> QED
        BY <4>1, <2>1
    <3> QED
      BY <3>1, <3>2, <3>3 DEF RunBaseline
  <2>3. faults' \in 0..MaxFaults
    BY <1>0 DEF RunBaseline, TypeOK
  <2> QED
    BY <2>2, <2>3, <1>0 DEF RunBaseline, TypeOK, world, task
<1>2. FilesInv'
  BY <1>0 DEF RunBaseline, world, main, task, fault, FilesInv, FileSafe
<1>3. BundlesInv'
  BY <1>0 DEF RunBaseline, world, main, task, fault, BundlesInv, BundleSound
<1>4. CutsInv'
  BY <1>0 DEF RunBaseline, CutsInv
<1>5. KillSound'
  <2>1. \A k \in Index : verdict[k] = "none"
    BY <1>0 DEF RunBaseline, CutsInv
  <2> QED
    BY <2>1 DEF RunBaseline, world, KillSound
<1> QED
  BY <1>1, <1>2, <1>3, <1>4, <1>5 DEF IInv

(* Each used worker gets a batch.                                          *)
LEMMA DispatchStep == ASSUME IInv, Dispatch PROVE IInv'
<1>0. /\ TypeOK /\ FilesInv /\ BundlesInv /\ CutsInv /\ KillSound
      /\ MaxMutants \in Nat /\ Workers \in Nat \ {0} /\ MaxFaults \in Nat
  BY ParametersAssumption DEF IInv
<1>1. TypeOK'
  <2>1. cuts' \in [0..Workers -> 0..Len(mutants)] /\ Len(mutants) \in Nat
        /\ Len(mutants) <= MaxMutants
    BY <1>0 DEF Dispatch, Batches, TypeOK
  <2>2. cuts' \in [0..Workers -> 0..MaxMutants]
    BY <2>1, <1>0
  <2>3. \A t \in Task : cuts'[t-1] \in 0..MaxMutants
    BY <2>2, <1>0 DEF Task
  <2>4. next' \in [Task -> 1..MaxMutants + 1]
    BY <2>3, <1>0 DEF Dispatch
  <2> QED
    BY <2>2, <2>4, <1>0 DEF Dispatch, TypeOK, world, fault
<1>2. FilesInv'
  BY <1>0 DEF Dispatch, world, main, task, fault, FilesInv, FileSafe
<1>3. BundlesInv'
  BY <1>0 DEF Dispatch, world, main, task, fault, BundlesInv, BundleSound
<1>4. CutsInv'
  BY <1>0 DEF Dispatch, CutsInv, Batches, Used
<1>5. KillSound'
  <2>1. \A k \in Index : verdict[k] = "none"
    BY <1>0 DEF Dispatch, CutsInv
  <2> QED
    BY <2>1 DEF Dispatch, world, KillSound
<1> QED
  BY <1>1, <1>2, <1>3, <1>4, <1>5 DEF IInv

(* The verdicts stay.                                                      *)
LEMMA FinishStep == ASSUME IInv, Finish PROVE IInv'
<1>0. /\ TypeOK /\ FilesInv /\ BundlesInv /\ CutsInv /\ KillSound
      /\ MaxMutants \in Nat /\ Workers \in Nat \ {0} /\ MaxFaults \in Nat
  BY ParametersAssumption DEF IInv
<1>1. TypeOK'
  BY <1>0 DEF Finish, world, main, task, fault, TypeOK
<1>2. FilesInv'
  BY <1>0 DEF Finish, world, main, task, fault, FilesInv, FileSafe
<1>3. BundlesInv'
  BY <1>0 DEF Finish, world, main, task, fault, BundlesInv, BundleSound
<1>4. CutsInv'
  BY DEF Finish, CutsInv
<1>5. KillSound'
  BY <1>0 DEF Finish, world, main, task, fault, KillSound
<1> QED
  BY <1>1, <1>2, <1>3, <1>4, <1>5 DEF IInv

(* The process has ended.                                                  *)
LEMMA FatalStep == ASSUME IInv, Fatal PROVE IInv'
<1>0. /\ TypeOK /\ FilesInv /\ BundlesInv /\ CutsInv /\ KillSound
      /\ MaxMutants \in Nat /\ Workers \in Nat \ {0} /\ MaxFaults \in Nat
  BY ParametersAssumption DEF IInv
<1>1. TypeOK'
  <2>1. faults' \in 0..MaxFaults
    BY <1>0 DEF Fatal, TypeOK
  <2> QED
    BY <2>1, <1>0 DEF Fatal, TypeOK, world, task
<1>2. FilesInv'
  BY <1>0 DEF Fatal, world, main, task, fault, FilesInv, FileSafe
<1>3. BundlesInv'
  BY <1>0 DEF Fatal, world, main, task, fault, BundlesInv, BundleSound
<1>4. CutsInv'
  BY DEF Fatal, CutsInv
<1>5. KillSound'
  BY <1>0 DEF Fatal, world, main, task, fault, KillSound
<1> QED
  BY <1>1, <1>2, <1>3, <1>4, <1>5 DEF IInv

(* Counting failures keeps the counter within its bound.                   *)
LEMMA FaultType ==
    ASSUME TypeOK, NEW t \in Task, NEW n \in Nat, Fault(t, n)
    PROVE  faults' \in 0..MaxFaults /\ faulty' \in [Task -> BOOLEAN]
<1>1. faulty' = [faulty EXCEPT ![t] = faulty[t] \/ n > 0]
  BY DEF Fault
<1>2. faulty \in [Task -> BOOLEAN] /\ (faulty[t] \/ n > 0) \in BOOLEAN
  BY DEF TypeOK
<1>3. faulty' \in [Task -> BOOLEAN]
  BY <1>1, <1>2
<1> QED
  BY <1>3, ParametersAssumption DEF Fault, TypeOK

(* Setting the run file of a task to a safe one.                           *)
LEMMA LocalSafe ==
    ASSUME TypeOK, FilesInv, base' = base, NEW t \in Task, NEW f \in File, FileSafe(f),
           local' = [local EXCEPT ![t] = f]
    PROVE  local' \in [Task -> File] /\ FilesInv'
<1>1. local' \in [Task -> File]
  BY DEF TypeOK
<1>2. ASSUME NEW u \in Task PROVE FileSafe(local'[u])
  BY DEF TypeOK, FilesInv
<1> QED
  BY <1>1, <1>2 DEF FilesInv, FileSafe

(* The copy is the base file, nothing, or a safe leftover.                 *)
LEMMA CopyRunFileStep == ASSUME IInv, NEW t \in Task, CopyRunFile(t) PROVE IInv'
<1>0. /\ TypeOK /\ FilesInv /\ BundlesInv /\ CutsInv /\ KillSound
      /\ MaxMutants \in Nat /\ Workers \in Nat \ {0} /\ MaxFaults \in Nat
  BY ParametersAssumption DEF IInv
<1>l. local' \in [Task -> File] /\ FilesInv'
  <2>1. base' = base
    BY DEF CopyRunFile, main
  <2>2. CASE local' = [local EXCEPT ![t] = base]
    BY <2>1, <2>2, <1>0, LocalSafe DEF FilesInv, TypeOK
  <2>3. ASSUME NEW f \in {NoFile} \cup LeftoverFiles, local' = [local EXCEPT ![t] = f]
        PROVE  local' \in [Task -> File] /\ FilesInv'
    BY <2>1, <2>3, <1>0, LocalSafe, SourcesSafe
  <2> QED
    BY <2>2, <2>3 DEF CopyRunFile
<1>1. TypeOK'
  <2>f. faults' \in 0..MaxFaults /\ faulty' \in [Task -> BOOLEAN]
    BY <1>0, FaultType DEF CopyRunFile
  <2>g. taskPc' \in [Task -> {"idle", "copy", "targets", "run", "read", "report", "finished"}]
    BY <1>0 DEF CopyRunFile, Goto, TypeOK
  <2> QED
    BY <2>f, <1>l, <2>g, <1>0 DEF CopyRunFile, TypeOK, world, main
<1>2. FilesInv'
  BY <1>l
<1>3. BundlesInv'
  BY <1>0 DEF CopyRunFile, world, main, task, fault, BundlesInv, BundleSound
<1>4. CutsInv'
  <2>1. pc = "running" /\ pc' = pc /\ cuts' = cuts /\ mutants' = mutants
    BY DEF CopyRunFile, At, main
  <2> QED
    BY <2>1, <1>0 DEF CutsInv, Batches, Used
<1>5. KillSound'
  BY <1>0 DEF CopyRunFile, world, main, task, fault, KillSound
<1> QED
  BY <1>1, <1>2, <1>3, <1>4, <1>5 DEF IInv

(* Each of the three commands keeps the file safe.                         *)
LEMMA AddTargetStep == ASSUME IInv, NEW t \in Task, AddTarget(t) PROVE IInv'
<1>0. /\ TypeOK /\ FilesInv /\ BundlesInv /\ CutsInv /\ KillSound
      /\ MaxMutants \in Nat /\ Workers \in Nat \ {0} /\ MaxFaults \in Nat
  BY ParametersAssumption DEF IInv
<1>m. /\ next[t] \in 1..Len(mutants) /\ Len(mutants) \in Nat /\ Len(mutants) <= MaxMutants
      /\ next[t] + 1 \in 1..MaxMutants + 1 /\ mutants[next[t]] \in Mutant
  <2>1. cuts \in [0..Workers -> 0..Len(mutants)] /\ t \in 0..Workers
    BY <1>0 DEF AddTarget, At, CutsInv, Batches, Task
  <2>2. next[t] <= cuts[t] /\ cuts[t] \in 0..Len(mutants)
    BY <2>1 DEF AddTarget
  <2>3. next[t] \in 1..MaxMutants + 1 /\ Len(mutants) \in Nat /\ Len(mutants) <= MaxMutants
        /\ mutants \in Seq(Mutant)
    BY <1>0 DEF TypeOK
  <2> QED
    BY <2>2, <2>3, <1>0
<1> DEFINE m == mutants[next[t]]
<1>p. PICK dup \in BOOLEAN, env \in BOOLEAN, name \in BOOLEAN :
        LET f1 == IF dup THEN duplicateTestTarget(local[t], Source, m) ELSE local[t]
            f2 == IF env THEN addEnvironmentVariable(f1, m, m) ELSE f1
            f3 == IF name THEN setBlueprintName(f2, m, m) ELSE f2
        IN  /\ Fault(t, Cardinality({c \in 1..3 : ~<<dup, env, name>>[c]}))
            /\ local' = [local EXCEPT ![t] = f3]
  BY DEF AddTarget
<1> DEFINE f1 == IF dup THEN duplicateTestTarget(local[t], Source, m) ELSE local[t]
           f2 == IF env THEN addEnvironmentVariable(f1, m, m) ELSE f1
           f3 == IF name THEN setBlueprintName(f2, m, m) ELSE f2
<1>q. /\ Fault(t, Cardinality({c \in 1..3 : ~<<dup, env, name>>[c]}))
      /\ local' = [local EXCEPT ![t] = f3]
  BY <1>p
<1>n. m \in Mutant
  BY <1>m
<1> HIDE DEF m
<1>r. local[t] \in File /\ FileSafe(local[t])
  BY <1>0 DEF TypeOK, FilesInv
<1>s. f1 \in File /\ FileSafe(f1)
  BY <1>r, <1>n, DuplicateSafe
<1> HIDE DEF f1
<1>u. f2 \in File /\ FileSafe(f2)
  BY <1>s, <1>n, AddEnvironmentSafe
<1> HIDE DEF f2
<1>v. f3 \in File /\ FileSafe(f3)
  BY <1>u, <1>n, SetBlueprintSafe
<1> HIDE DEF f3
<1>l. local' \in [Task -> File] /\ FilesInv'
  <2>1. base' = base
    BY DEF AddTarget, main
  <2> QED
    BY <2>1, <1>q, <1>v, <1>0, LocalSafe
<1>f. faults' \in 0..MaxFaults /\ faulty' \in [Task -> BOOLEAN]
  <2>1. IsFiniteSet({c \in 1..3 : ~<<dup, env, name>>[c]})
    <3>1. IsFiniteSet(1..3)
      <4>1. 1 \in Int /\ 3 \in Int
        OBVIOUS
      <4> QED
        BY <4>1, FS_Interval, Zenon
    <3> QED
      BY <3>1, FS_Subset
  <2>2. Cardinality({c \in 1..3 : ~<<dup, env, name>>[c]}) \in Nat
    BY <2>1, FS_CardinalityType
  <2> QED
    BY <2>2, <1>q, <1>0, FaultType
<1>1. TypeOK'
  <2>1. next' \in [Task -> 1..MaxMutants + 1]
    BY <1>m, <1>0 DEF AddTarget, TypeOK
  <2> QED
    BY <2>1, <1>f, <1>l, <1>0 DEF AddTarget, TypeOK, world, main
<1>2. FilesInv'
  BY <1>l
<1>3. BundlesInv'
  BY <1>0 DEF AddTarget, world, main, task, fault, BundlesInv, BundleSound
<1>4. CutsInv'
  <2>1. pc = "running" /\ pc' = pc /\ cuts' = cuts /\ mutants' = mutants
    BY DEF AddTarget, At, main
  <2> QED
    BY <2>1, <1>0 DEF CutsInv, Batches, Used
<1>5. KillSound'
  BY <1>0 DEF AddTarget, world, main, task, fault, KillSound
<1> QED
  BY <1>1, <1>2, <1>3, <1>4, <1>5 DEF IInv

(* The timeout of the run is computed from the baseline.                   *)
LEMMA DeleteSourceStep == ASSUME IInv, NEW t \in Task, DeleteSource(t) PROVE IInv'
<1>0. /\ TypeOK /\ FilesInv /\ BundlesInv /\ CutsInv /\ KillSound
      /\ MaxMutants \in Nat /\ Workers \in Nat \ {0} /\ MaxFaults \in Nat
  BY ParametersAssumption DEF IInv
<1>l. local' \in [Task -> File] /\ FilesInv'
  <2>1. base' = base
    BY DEF DeleteSource, main
  <2>2. CASE local' = local
    BY <2>1, <2>2, <1>0 DEF FilesInv, FileSafe, TypeOK
  <2>3. CASE local' = [local EXCEPT ![t] = deleteTestTarget(local[t], Source)]
    <3>1. local[t] \in File /\ FileSafe(local[t])
      BY <1>0 DEF TypeOK, FilesInv
    <3>2. deleteTestTarget(local[t], Source) \in File /\ FileSafe(deleteTestTarget(local[t], Source))
      BY <3>1, DeleteSafe, Names
    <3> QED
      BY <2>1, <2>3, <3>2, <1>0, LocalSafe
  <2> QED
    BY <2>2, <2>3 DEF DeleteSource
<1>1. TypeOK'
  <2>f. faults' \in 0..MaxFaults /\ faulty' \in [Task -> BOOLEAN]
    BY <1>0, FaultType DEF DeleteSource
  <2>1. t \in 0..Workers /\ t - 1 \in 0..Workers /\ cuts \in Batches
    BY <1>0 DEF Task, DeleteSource, At, CutsInv
  <2>2. cuts[t-1] <= cuts[t] /\ cuts[t-1] \in Nat /\ cuts[t] \in Nat
    BY <2>1, <1>0 DEF Batches, TypeOK
  <2>3. cuts[t] - cuts[t-1] \in Nat /\ baseline.time \in Nat
    BY <2>2, <1>0 DEF TypeOK
  <2>4. \A a, b \in Nat : a * b * 10 \in Nat
    OBVIOUS
  <2>5. limit' \in [Task -> Nat]
    BY <2>3, <2>4, <1>0 DEF DeleteSource, TypeOK
  <2>g. taskPc' \in [Task -> {"idle", "copy", "targets", "run", "read", "report", "finished"}]
    BY <1>0 DEF DeleteSource, Goto, TypeOK
  <2> QED
    BY <2>f, <2>5, <1>l, <2>g, <1>0 DEF DeleteSource, TypeOK, world, main
<1>2. FilesInv'
  BY <1>l
<1>3. BundlesInv'
  BY <1>0 DEF DeleteSource, world, main, task, fault, BundlesInv, BundleSound
<1>4. CutsInv'
  <2>1. pc = "running" /\ pc' = pc /\ cuts' = cuts /\ mutants' = mutants
    BY DEF DeleteSource, At, main
  <2> QED
    BY <2>1, <1>0 DEF CutsInv, Batches, Used
<1>5. KillSound'
  BY <1>0 DEF DeleteSource, world, main, task, fault, KillSound
<1> QED
  BY <1>1, <1>2, <1>3, <1>4, <1>5 DEF IInv

(* The failures in a fresh bundle are those of a safe run file.            *)
LEMMA RunTestsStep == ASSUME IInv, NEW t \in Task, RunTests(t) PROVE IInv'
<1>0. /\ TypeOK /\ FilesInv /\ BundlesInv /\ CutsInv /\ KillSound
      /\ MaxMutants \in Nat /\ Workers \in Nat \ {0} /\ MaxFaults \in Nat
  BY ParametersAssumption DEF IInv
<1>b. bundle' \in [Task -> Bundle] /\ BundlesInv'
  <2>0. UNCHANGED <<world, failing>>
    BY DEF RunTests
  <2>1. CASE bundle' = bundle
    BY <2>0, <2>1, <1>0 DEF TypeOK, BundlesInv, BundleSound, world
  <2>2. CASE bundle' = [bundle EXCEPT ![t] = Readable(FailingBlueprints(local[t]))]
    <3>1. local[t] \in File /\ FileSafe(local[t])
      BY <1>0 DEF TypeOK, FilesInv
    <3>2. /\ FailingBlueprints(local[t]) \in SUBSET Target
          /\ healthy => \A m \in Mutant : m \in FailingBlueprints(local[t])
                            => m \in detected \cup hanging
      BY <3>1, FailuresSound
    <3>3. Readable(FailingBlueprints(local[t])) \in Bundle
      BY <3>2 DEF Readable, Bundle
    <3>4. BundleSound(Readable(FailingBlueprints(local[t])))
      BY <3>2 DEF BundleSound, Readable
    <3> QED
      BY <2>0, <2>2, <3>3, <3>4, <1>0 DEF TypeOK, BundlesInv, BundleSound, world
  <2>3. ASSUME ~fresh, NEW S \in SUBSET Mutant, bundle' = [bundle EXCEPT ![t] = Readable(S)]
        PROVE  bundle' \in [Task -> Bundle] /\ BundlesInv'
    <3>1. Readable(S) \in Bundle
      BY Names DEF Readable, Bundle
    <3> QED
      BY <2>0, <2>3, <3>1, <1>0 DEF TypeOK, BundlesInv, BundleSound, world
  <2> QED
    BY <2>1, <2>2, <2>3 DEF RunTests
<1>1. TypeOK'
  <2>f. faults' \in 0..MaxFaults /\ faulty' \in [Task -> BOOLEAN]
    BY <1>0, FaultType DEF RunTests
  <2>g. taskPc' \in [Task -> {"idle", "copy", "targets", "run", "read", "report", "finished"}]
    BY <1>0 DEF RunTests, Goto, TypeOK
  <2> QED
    BY <2>f, <1>b, <2>g, <1>0 DEF RunTests, TypeOK, world, main
<1>2. FilesInv'
  BY <1>0 DEF RunTests, world, main, task, fault, FilesInv, FileSafe
<1>3. BundlesInv'
  BY <1>b
<1>4. CutsInv'
  <2>1. pc = "running" /\ pc' = pc /\ cuts' = cuts /\ mutants' = mutants
    BY DEF RunTests, At, main
  <2> QED
    BY <2>1, <1>0 DEF CutsInv, Batches, Used
<1>5. KillSound'
  BY <1>0 DEF RunTests, world, main, task, fault, KillSound
<1> QED
  BY <1>1, <1>2, <1>3, <1>4, <1>5 DEF IInv

(* What is read is the bundle, or nothing.                                 *)
LEMMA ReadResultsStep == ASSUME IInv, NEW t \in Task, ReadResults(t) PROVE IInv'
<1>0. /\ TypeOK /\ FilesInv /\ BundlesInv /\ CutsInv /\ KillSound
      /\ MaxMutants \in Nat /\ Workers \in Nat \ {0} /\ MaxFaults \in Nat
  BY ParametersAssumption DEF IInv
<1>1. TypeOK'
  <2>f. faults' \in 0..MaxFaults /\ faulty' \in [Task -> BOOLEAN]
    BY <1>0, FaultType DEF ReadResults
  <2>1. failing' \in [Task -> Bundle]
    BY <1>0 DEF ReadResults, TypeOK
  <2>g. taskPc' \in [Task -> {"idle", "copy", "targets", "run", "read", "report", "finished"}]
    BY <1>0 DEF ReadResults, Goto, TypeOK
  <2> QED
    BY <2>f, <2>1, <2>g, <1>0 DEF ReadResults, TypeOK, world, main
<1>2. FilesInv'
  BY <1>0 DEF ReadResults, world, main, task, fault, FilesInv, FileSafe
<1>3. BundlesInv'
  <2>1. UNCHANGED <<world, bundle>>
    BY DEF ReadResults
  <2>2. \A u \in Task : failing'[u] = failing[u] \/ failing'[u] = bundle[u]
    BY <1>0 DEF ReadResults, TypeOK
  <2> QED
    BY <2>1, <2>2, <1>0 DEF BundlesInv, BundleSound, world
<1>4. CutsInv'
  <2>1. pc = "running" /\ pc' = pc /\ cuts' = cuts /\ mutants' = mutants
    BY DEF ReadResults, At, main
  <2> QED
    BY <2>1, <1>0 DEF CutsInv, Batches, Used
<1>5. KillSound'
  BY <1>0 DEF ReadResults, world, main, task, fault, KillSound
<1> QED
  BY <1>1, <1>2, <1>3, <1>4, <1>5 DEF IInv

(* A verdict of failed comes from a readable bundle.                       *)
LEMMA ReportVerdictsStep == ASSUME IInv, NEW t \in Task, ReportVerdicts(t) PROVE IInv'
<1>0. /\ TypeOK /\ FilesInv /\ BundlesInv /\ CutsInv /\ KillSound
      /\ MaxMutants \in Nat /\ Workers \in Nat \ {0} /\ MaxFaults \in Nat
  BY ParametersAssumption DEF IInv
<1>1. TypeOK'
  <2>1. verdict' \in [Index -> {"none", "Passed", "Failed"}]
    BY <1>0 DEF ReportVerdicts, TypeOK
  <2>g. taskPc' \in [Task -> {"idle", "copy", "targets", "run", "read", "report", "finished"}]
    BY <1>0 DEF ReportVerdicts, Goto, TypeOK
  <2> QED
    BY <2>1, <2>g, <1>0 DEF ReportVerdicts, TypeOK, world, main, fault
<1>2. FilesInv'
  BY <1>0 DEF ReportVerdicts, world, main, task, fault, FilesInv, FileSafe
<1>3. BundlesInv'
  BY <1>0 DEF ReportVerdicts, world, main, task, fault, BundlesInv, BundleSound
<1>4. CutsInv'
  <2>1. pc = "running" /\ pc' = pc /\ cuts' = cuts /\ mutants' = mutants
    BY DEF ReportVerdicts, At, main
  <2> QED
    BY <2>1, <1>0 DEF CutsInv, Batches, Used
<1>5. KillSound'
  <2> SUFFICES ASSUME healthy, fresh, NEW k \in Index, verdict'[k] = "Failed"
               PROVE  mutants[k] \in detected \cup hanging
    BY DEF KillSound, ReportVerdicts, world, main
  <2>1. CASE k \notin Slice(t)
    BY <2>1, <1>0 DEF ReportVerdicts, KillSound
  <2>2. CASE k \in Slice(t)
    <3>1. mutants[k] \in failing[t].targets
      BY <2>2 DEF ReportVerdicts
    <3>2. cuts \in [0..Workers -> 0..Len(mutants)] /\ t \in 0..Workers
      BY <1>0 DEF ReportVerdicts, At, CutsInv, Batches, Task
    <3>3. k \in 1..Len(mutants)
      <4>1. cuts[t] \in 0..Len(mutants) /\ k <= cuts[t] /\ k \in 1..MaxMutants
        BY <3>2, <2>2 DEF Slice, Index
      <4>2. Len(mutants) \in Nat
        BY <1>0 DEF TypeOK
      <4> QED
        BY <4>1, <4>2, <1>0
    <3>4. mutants[k] \in Mutant
      BY <3>3, <1>0 DEF TypeOK
    <3> QED
      BY <3>1, <3>4, <1>0 DEF BundlesInv, BundleSound
  <2> QED
    BY <2>1, <2>2
<1> QED
  BY <1>1, <1>2, <1>3, <1>4, <1>5 DEF IInv

(* Every step preserves the invariant.                                     *)
LEMMA IInvNext == IInv /\ [Next]_vars => IInv'
<1> SUFFICES ASSUME IInv, [Next]_vars PROVE IInv'
  OBVIOUS
<1>1. CASE Main \/ Fatal
  BY <1>1, ExtractMutantsStep, GenerateBaseStep, RunBaselineStep, DispatchStep, FinishStep,
     FatalStep DEF Main
<1>2. ASSUME NEW t \in Task, TaskStep(t) PROVE IInv'
  BY <1>2, CopyRunFileStep, AddTargetStep, DeleteSourceStep, RunTestsStep, ReadResultsStep,
     ReportVerdictsStep DEF TaskStep
<1>3. CASE UNCHANGED vars
  BY <1>3 DEF vars, world, main, task, fault, IInv, TypeOK, FilesInv, FileSafe, BundlesInv,
              BundleSound, CutsInv, Batches, Used, KillSound
<1> QED
  BY <1>1, <1>2, <1>3 DEF Next, Terminated

(* IInv is an invariant of mull-xctestrun.                                 *)
THEOREM Invariance == Spec => []IInv
<1>1. Init => IInv
  BY IInvInit
<1>2. IInv /\ [Next]_vars => IInv'
  BY IInvNext
<1> QED
  BY <1>1, <1>2, PTL DEF Spec

(* Every variable keeps its type.                                          *)
THEOREM TypeCorrectness == Spec => []TypeOK
<1>1. IInv => TypeOK
  BY DEF IInv
<1> QED
  BY <1>1, Invariance, PTL

(* No mutant is reported killed that the tests do not fail or hang for,    *)
(* for every number of mutants and workers and every combination of failed *)
(* commands, killed runs and leftover run files.                           *)
THEOREM KillsAreSound == Spec => []KillSound
<1>1. IInv => KillSound
  BY DEF IInv
<1> QED
  BY <1>1, Invariance, PTL

(* Two mutants are never active in one target of a run file.               *)
THEOREM MutantsAreIsolated == Spec => []SingleMutantPerTarget
<1>1. IInv => SingleMutantPerTarget
  BY DEF IInv, FilesInv, FileSafe, SingleMutantPerTarget
<1> QED
  BY <1>1, Invariance, PTL
-----------------------------------------------------------------------------
(* The slices of the tasks: EveryMutantJudged and FaultIsolation need to   *)
(* know how far each task is, what the run file and the bundle of a task   *)
(* without a fault hold, and how much time its run is given.               *)

(* What happens before the tasks run, and what is fixed then.              *)
Early == {"extract", "generate", "baseline", "dispatch"}
PhaseInv ==
    /\ pc \in Early => \A t \in Task : taskPc[t] = "idle"
    /\ pc = "extract" => mutants = <<>>
    /\ pc \in {"generate", "baseline"} => mutants # <<>>
    /\ pc \in {"baseline", "dispatch", "running"} =>
          base[Source].present /\ \A m \in Mutant : ~base[m].present

(* A task reports its whole slice, in its last step.                       *)
SliceInv(t) ==
    /\ taskPc[t] # "idle" /\ Begin(t) <= next[t]
    /\ taskPc[t] = "copy" => next[t] = Begin(t)
    /\ taskPc[t] \in {"run", "read", "report"} => cuts[t] < next[t]
    /\ \A k \in Slice(t) : verdict[k] = "none" <=> taskPc[t] # "finished"

RunningInv == pc = "running" => \A t \in Task : SliceInv(t)

JInv == PhaseInv /\ RunningInv /\ EveryMutantJudged

(* Nothing has gone wrong for task t, none of its mutants hangs, and the   *)
(* baseline run was long enough to derive timeouts from.                   *)
Unharmed(t) ==
    ~faulty[t] /\ healthy /\ fresh /\ Patient /\ \A k \in Slice(t) : mutants[k] \notin hanging

(* The targets of the mutants a task has come to are as they should be,    *)
(* there are none of other mutants, and the other test targets are those   *)
(* of the base file b.                                                     *)
Added(t) == {mutants[k] : k \in {j \in Slice(t) : j < next[t]}}
TargetsOf(f, b, M) ==
    /\ \A m \in Mutant : IF m \in M THEN f[m].present /\ f[m].env = {m} /\ f[m].blueprint = m
                                    ELSE ~f[m].present
    /\ \A x \in Others : f[x].present <=> b[x].present

(* A bundle that tells exactly which mutants of task t are detected.       *)
ExactFor(b, t) ==
    \A k \in Slice(t) : b.readable /\ (mutants[k] \in b.targets <=> mutants[k] \in detected)

IsolationInv(t) ==
    Unharmed(t) =>
        /\ taskPc[t] = "targets" => local[t][Source].present /\ TargetsOf(local[t], base, Added(t))
        /\ taskPc[t] = "run" => /\ ~local[t][Source].present /\ TargetsOf(local[t], base, Added(t))
                                /\ limit[t] = baseline.time * (cuts[t] - cuts[t-1]) * 10
        /\ taskPc[t] = "read" => ExactFor(bundle[t], t)
        /\ taskPc[t] = "report" => ExactFor(failing[t], t)

Isolated(t) ==
    taskPc[t] = "finished" /\ Unharmed(t) =>
        \A k \in Slice(t) : verdict[k] = IF mutants[k] \in detected THEN "Failed" ELSE "Passed"

FInv == /\ pc = "running" => \A t \in Task : IsolationInv(t)
        /\ \A t \in Task : Isolated(t)

KInv == JInv /\ FInv

(* Whether the timeouts are long enough is settled by the baseline run.    *)
LEMMA PatientKept == ASSUME UNCHANGED <<base, baseline>> PROVE Patient' <=> Patient
  BY DEF Patient

LEMMA IsolationIs == FaultIsolation <=> \A t \in Task : Isolated(t)
  BY DEF FaultIsolation, Isolated, Unharmed

LEMMA Sizes ==
    ASSUME TypeOK
    PROVE  /\ MaxMutants \in Nat /\ Workers \in Nat \ {0}
           /\ Len(mutants) \in Nat /\ Len(mutants) <= MaxMutants
           /\ DOMAIN mutants = 1..Len(mutants) /\ DOMAIN mutants \subseteq Index
           /\ \A k \in DOMAIN mutants : mutants[k] \in Mutant
           /\ Task = 1..Workers /\ Index = 1..MaxMutants /\ Used \in 0..Workers
           /\ \A t \in Task : next[t] \in Nat /\ t \in 0..Workers /\ t - 1 \in 0..Workers
<1>1. /\ MaxMutants \in Nat /\ Workers \in Nat \ {0} /\ mutants \in Seq(Mutant)
      /\ Len(mutants) <= MaxMutants /\ next \in [Task -> 1..MaxMutants + 1]
  BY ParametersAssumption DEF TypeOK
<1> QED
  BY <1>1 DEF Task, Index, Used

(* The batches follow each other and cover the list.                       *)
LEMMA BatchBounds ==
    ASSUME TypeOK, cuts \in Batches
    PROVE  /\ cuts \in [0..Workers -> Nat]
           /\ \A t \in 0..Workers : cuts[t] \in Nat /\ cuts[t] <= Len(mutants)
           /\ \A s, t \in 0..Workers : s <= t => cuts[s] <= cuts[t]
           /\ \A t \in Task : cuts[t] \in Nat /\ cuts[t-1] \in Nat
           /\ cuts[0] = 0 /\ cuts[Used] = Len(mutants)
<1>1. /\ cuts \in [0..Workers -> 0..Len(mutants)]
      /\ \A s, t \in 0..Workers : s < t => cuts[s] <= cuts[t]
      /\ cuts[0] = 0 /\ cuts[Used] = Len(mutants)
  BY DEF Batches
<1>2. Len(mutants) \in Nat /\ Workers \in Nat
      /\ \A t \in Task : t \in 0..Workers /\ t - 1 \in 0..Workers
  BY Sizes
<1>3. \A t \in 0..Workers : cuts[t] \in Nat /\ cuts[t] <= Len(mutants)
  BY <1>1, <1>2
<1>4. cuts \in [0..Workers -> Nat]
  BY <1>1, <1>2
<1>5. \A s, t \in 0..Workers : s <= t => cuts[s] <= cuts[t]
  BY <1>1, <1>2, <1>3
<1> QED
  BY <1>1, <1>2, <1>3, <1>4, <1>5

(* A mutant of a slice is one of the list, and of no other slice.          *)
LEMMA SliceFacts ==
    ASSUME TypeOK, cuts \in Batches, NEW t \in Task, NEW k \in Slice(t)
    PROVE  /\ k \in DOMAIN mutants /\ k \in Index /\ k \in Nat /\ mutants[k] \in Mutant
           /\ cuts[t-1] < k /\ k <= cuts[t]
           /\ \A u \in Task : u # t => k \notin Slice(u)
<1>1. /\ k \in Index /\ cuts[t-1] + 1 <= k /\ k <= cuts[t]
      /\ Index = 1..MaxMutants /\ MaxMutants \in Nat
      /\ cuts[t] \in Nat /\ cuts[t-1] \in Nat /\ cuts[t] <= Len(mutants)
  BY Sizes, BatchBounds DEF Slice, Begin
<1>2. k \in Nat /\ cuts[t-1] < k /\ k <= cuts[t] /\ k \in DOMAIN mutants
  BY <1>1, Sizes
<1>3. ASSUME NEW u \in Task, u # t, k \in Slice(u) PROVE FALSE
  <2>1. /\ cuts[u-1] + 1 <= k /\ k <= cuts[u] /\ cuts[u] \in Nat /\ cuts[u-1] \in Nat
        /\ t \in 1..Workers /\ u \in 1..Workers /\ Workers \in Nat
    BY <1>3, Sizes, BatchBounds DEF Slice, Begin
  <2>2. CASE u < t
    <3>1. cuts[u] <= cuts[t-1]
      BY <2>1, <2>2, BatchBounds
    <3> QED
      BY <3>1, <2>1, <1>1, <1>2
  <2>3. CASE t < u
    <3>1. cuts[t] <= cuts[u-1]
      BY <2>1, <2>3, BatchBounds
    <3> QED
      BY <3>1, <2>1, <1>1, <1>2
  <2> QED
    BY <2>1, <2>2, <2>3, <1>3
<1> QED
  BY <1>1, <1>2, <1>3, Sizes

(* Every mutant of the list is in a slice.                                 *)
LEMMA EveryMutantHasATask ==
    ASSUME TypeOK, cuts \in Batches, NEW k \in DOMAIN mutants
    PROVE  \E t \in Task : k \in Slice(t)
<1>1. /\ cuts \in [0..Workers -> Nat] /\ cuts[0] = 0 /\ cuts[Used] = Len(mutants)
      /\ Workers \in Nat /\ Used \in 0..Workers /\ Task = 1..Workers
      /\ k \in Nat /\ k \in Index /\ cuts[0] < k /\ k <= cuts[Used]
  BY Sizes, BatchBounds
<1>2. PICK t \in 1..Workers : cuts[t-1] < k /\ k <= cuts[t]
  BY <1>1, PassedOnce
<1>3. cuts[t-1] \in Nat
  BY <1>1, BatchBounds
<1> QED
  BY <1>1, <1>2, <1>3 DEF Slice, Begin

-----------------------------------------------------------------------------
(* run()                                                                   *)

LEMMA KInvInit == Init => KInv
<1> SUFFICES ASSUME Init PROVE KInv
  OBVIOUS
<1>1. PhaseInv /\ RunningInv /\ EveryMutantJudged
  BY DEF Init, PhaseInv, RunningInv, EveryMutantJudged, Early
<1>2. FInv
  BY DEF Init, FInv, Isolated
<1> QED
  BY <1>1, <1>2 DEF KInv, JInv

(* Before the tasks are there nothing is known of them.                    *)
LEMMA EarlyStep ==
    ASSUME KInv, pc \in Early, pc' # "running", UNCHANGED taskPc,
           PhaseInv', EveryMutantJudged'
    PROVE  KInv'
<1>1. \A t \in Task : taskPc'[t] = "idle"
  BY DEF KInv, JInv, PhaseInv
<1>2. RunningInv' /\ FInv'
  BY <1>1 DEF RunningInv, FInv, Isolated
<1> QED
  BY <1>2 DEF KInv, JInv

LEMMA ExtractMutantsK == ASSUME IInv, KInv, ExtractMutants PROVE KInv'
<1>0. /\ PhaseInv /\ pc = "extract" /\ pc' \in {"done", "generate"}
      /\ pc' = "done" <=> mutants' = <<>>
      /\ UNCHANGED <<world, base, baseline, cuts, task, verdict, fault>>
  BY DEF KInv, JInv, ExtractMutants
<1>1. PhaseInv'
  BY <1>0 DEF PhaseInv, Early, task
<1>2. EveryMutantJudged'
  <2>1. mutants' = <<>> => Len(mutants') = 0
    OBVIOUS
  <2> QED
    BY <1>0, <2>1 DEF EveryMutantJudged
<1> QED
  BY <1>0, <1>1, <1>2, EarlyStep DEF Early, task

LEMMA GenerateBaseK == ASSUME IInv, KInv, GenerateBase PROVE KInv'
<1>0. /\ PhaseInv /\ pc = "generate" /\ pc' \in {"aborted", "baseline"}
      /\ UNCHANGED <<world, mutants, baseline, cuts, task, verdict, faulty>>
  BY DEF KInv, JInv, GenerateBase
<1>a. PICK copied \in {Original, NoFile} \cup {FileWith({Source} \cup S) : S \in SUBSET Others},
           left \in SUBSET Others :
         /\ base' = [x \in Target |-> IF x \in {Source} \cup left THEN copied[x] ELSE Absent]
         /\ pc' = IF getTargets(copied) = {} THEN "aborted" ELSE "baseline"
  BY DEF GenerateBase
<1>b. pc' = "baseline" => base'[Source].present /\ \A m \in Mutant : ~base'[m].present
  <2> SUFFICES ASSUME pc' = "baseline"
               PROVE  base'[Source].present /\ \A m \in Mutant : ~base'[m].present
    OBVIOUS
  <2>1. copied # NoFile
    BY <1>a, AbsentEntry DEF getTargets, NoFile
  <2>2. copied[Source].present
    BY <2>1, Names DEF Original, FileWith
  <2>3. ASSUME NEW m \in Mutant PROVE ~base'[m].present
    <3>1. m \in Target /\ m \notin {Source} \cup left
      BY Names
    <3> QED
      BY <3>1, <1>a, AbsentEntry
  <2> QED
    BY <2>2, <2>3, <1>a, Names
<1>1. PhaseInv'
  BY <1>0, <1>b DEF PhaseInv, Early, task
<1>2. EveryMutantJudged'
  BY <1>0 DEF EveryMutantJudged
<1> QED
  BY <1>0, <1>1, <1>2, EarlyStep DEF Early, task

LEMMA RunBaselineK == ASSUME IInv, KInv, RunBaseline PROVE KInv'
<1>0. /\ PhaseInv /\ pc = "baseline" /\ pc' = "dispatch"
      /\ UNCHANGED <<world, mutants, base, cuts, task, verdict, faulty>>
  BY DEF KInv, JInv, RunBaseline
<1>1. PhaseInv'
  BY <1>0 DEF PhaseInv, Early, task
<1>2. EveryMutantJudged'
  BY <1>0 DEF EveryMutantJudged
<1> QED
  BY <1>0, <1>1, <1>2, EarlyStep DEF Early, task

(* Used workers start with their slice; the others have none.              *)
LEMMA DispatchK == ASSUME IInv, IInv', KInv, Dispatch PROVE KInv'
<1>0. /\ PhaseInv /\ TypeOK /\ TypeOK' /\ CutsInv
      /\ pc = "dispatch" /\ pc' = "running" /\ cuts' \in Batches
      /\ taskPc' = [t \in Task |-> IF t <= Used THEN "copy" ELSE "finished"]
      /\ next' = [t \in Task |-> cuts'[t-1] + 1]
      /\ UNCHANGED <<world, mutants, base, baseline, local, limit, bundle, failing,
                     verdict, fault>>
  BY DEF KInv, JInv, IInv, Dispatch
<1>1. /\ cuts' \in [0..Workers -> 0..Len(mutants)] /\ cuts'[Used] = Len(mutants)
      /\ \A s, u \in 0..Workers : s < u => cuts'[s] <= cuts'[u]
      /\ Len(mutants) \in Nat /\ Used \in 0..Workers /\ Workers \in Nat
      /\ \A t \in Task : t \in 0..Workers /\ t - 1 \in 0..Workers
  BY <1>0, Sizes DEF Batches
<1>2. ASSUME NEW t \in Task, ~(t <= Used), NEW k \in Slice(t)' PROVE FALSE
  <2>1. k \in Nat /\ cuts'[t-1] + 1 <= k /\ k <= cuts'[t]
    BY <1>2, <1>0, Sizes DEF Slice, Begin, Index
  <2>2. Used <= t - 1
    BY <1>1, <1>2
  <2>3. /\ cuts'[t-1] \in Nat /\ cuts'[t] \in Nat /\ cuts'[t] <= Len(mutants)
    BY <1>1
  <2>4. Len(mutants) <= cuts'[t-1]
    BY <2>2, <2>3, <1>1
  <2> QED
    BY <2>1, <2>3, <2>4
<1>3. PhaseInv'
  BY <1>0 DEF PhaseInv, Early
<1>4. ASSUME NEW t \in Task PROVE SliceInv(t)'
  <2>1. \A k \in Index : verdict'[k] = "none"
    BY <1>0 DEF CutsInv
  <2>2. /\ next'[t] = Begin(t)' /\ Begin(t)' <= next'[t]
    <3>1. cuts'[t-1] \in Nat
      BY <1>1
    <3> QED
      BY <1>0, <3>1 DEF Begin
  <2>3. \A k \in Slice(t)' : verdict'[k] = "none" <=> taskPc'[t] # "finished"
    BY <1>0, <1>2, <2>1 DEF Slice, Index
  <2>4. taskPc'[t] \in {"copy", "finished"}
    BY <1>0
  <2> QED
    BY <2>2, <2>3, <2>4 DEF SliceInv
<1>5. EveryMutantJudged'
  BY <1>0 DEF EveryMutantJudged
<1>6. FInv'
  <2>1. ASSUME NEW t \in Task PROVE IsolationInv(t)' /\ Isolated(t)'
    BY <1>0, <1>2 DEF IsolationInv, Isolated
  <2> QED
    BY <2>1 DEF FInv
<1> QED
  BY <1>3, <1>4, <1>5, <1>6 DEF KInv, JInv, RunningInv

LEMMA FinishK == ASSUME IInv, KInv, Finish PROVE KInv'
<1>0. /\ TypeOK /\ CutsInv /\ RunningInv /\ FInv /\ pc = "running"
      /\ pc' = "done" /\ \A t \in Task : taskPc[t] = "finished"
      /\ UNCHANGED <<world, mutants, base, baseline, cuts, task, verdict, fault>>
  BY DEF KInv, JInv, IInv, Finish
<1>1. ASSUME NEW k \in 1..Len(mutants) PROVE verdict[k] # "none"
  <2>1. cuts \in Batches /\ k \in DOMAIN mutants
    BY <1>0, Sizes DEF CutsInv
  <2>2. PICK t \in Task : k \in Slice(t)
    BY <1>0, <2>1, EveryMutantHasATask
  <2> QED
    BY <1>0, <2>2 DEF RunningInv, SliceInv
<1>2. PhaseInv' /\ RunningInv' /\ EveryMutantJudged'
  BY <1>0, <1>1 DEF PhaseInv, RunningInv, EveryMutantJudged, Early, task
<1>3. FInv'
  BY <1>0, PatientKept DEF FInv, Isolated, Unharmed, Slice, Begin, world, task, fault
<1> QED
  BY <1>2, <1>3 DEF KInv, JInv

LEMMA FatalK == ASSUME IInv, KInv, Fatal PROVE KInv'
<1>0. /\ FInv /\ pc' = "aborted"
      /\ UNCHANGED <<world, mutants, base, baseline, cuts, task, verdict, faulty>>
  BY DEF KInv, JInv, Fatal
<1>1. PhaseInv' /\ RunningInv' /\ EveryMutantJudged'
  BY <1>0 DEF PhaseInv, RunningInv, EveryMutantJudged, Early, task
<1>2. FInv'
  BY <1>0, PatientKept DEF FInv, Isolated, Unharmed, Slice, Begin, world, task
<1> QED
  BY <1>1, <1>2 DEF KInv, JInv
-----------------------------------------------------------------------------
(* The tasks.                                                              *)

Untouched(u) ==
    /\ taskPc'[u] = taskPc[u] /\ next'[u] = next[u] /\ local'[u] = local[u]
    /\ limit'[u] = limit[u]
    /\ bundle'[u] = bundle[u] /\ failing'[u] = failing[u] /\ faulty'[u] = faulty[u]
    /\ \A k \in Slice(u) : verdict'[k] = verdict[k]

(* A step of a task leaves the files, bundles and verdicts of the other    *)
(* tasks alone.                                                            *)
LEMMA OthersUntouched ==
    ASSUME IInv, NEW t \in Task, TaskStep(t)
    PROVE  /\ pc = "running" /\ cuts \in Batches /\ UNCHANGED <<world, main>>
           /\ \A u \in Task : u # t => Untouched(u)
<1>0. /\ TypeOK /\ CutsInv
      /\ taskPc \in [Task -> {"idle", "copy", "targets", "run", "read", "report", "finished"}]
      /\ next \in [Task -> 1..MaxMutants + 1] /\ local \in [Task -> File]
      /\ bundle \in [Task -> Bundle] /\ failing \in [Task -> Bundle]
      /\ faulty \in [Task -> BOOLEAN] /\ limit \in [Task -> Nat]
  BY DEF IInv, TypeOK
<1>1. pc = "running" /\ UNCHANGED <<world, main>>
  BY DEF TaskStep, CopyRunFile, AddTarget, DeleteSource, RunTests, ReadResults, ReportVerdicts, At
<1>2. cuts \in Batches
  BY <1>0, <1>1 DEF CutsInv
<1>3. ASSUME NEW u \in Task, u # t PROVE Untouched(u)
  <2>1. taskPc'[u] = taskPc[u]
    BY <1>0, <1>3 DEF TaskStep, CopyRunFile, AddTarget, DeleteSource, RunTests, ReadResults,
                      ReportVerdicts, Goto
  <2>2. faulty'[u] = faulty[u]
    <3>1. CASE \E n : Fault(t, n)
      BY <1>0, <1>3, <3>1 DEF Fault
    <3>2. CASE UNCHANGED fault
      BY <3>2 DEF fault
    <3> QED
      BY <3>1, <3>2 DEF TaskStep, CopyRunFile, AddTarget, DeleteSource, RunTests, ReadResults,
                        ReportVerdicts
  <2>3. next'[u] = next[u] /\ local'[u] = local[u] /\ limit'[u] = limit[u]
    BY <1>0, <1>3 DEF TaskStep, CopyRunFile, AddTarget, DeleteSource, RunTests, ReadResults,
                      ReportVerdicts
  <2>4. bundle'[u] = bundle[u] /\ failing'[u] = failing[u]
    BY <1>0, <1>3 DEF TaskStep, CopyRunFile, AddTarget, DeleteSource, RunTests, ReadResults,
                      ReportVerdicts
  <2>5. ASSUME NEW k \in Slice(u) PROVE verdict'[k] = verdict[k]
    <3>1. k \in Index /\ k \notin Slice(t)
      BY <1>0, <1>2, <1>3, SliceFacts
    <3> QED
      BY <3>1 DEF TaskStep, CopyRunFile, AddTarget, DeleteSource, RunTests, ReadResults,
                  ReportVerdicts
  <2> QED
    BY <2>1, <2>2, <2>3, <2>4, <2>5 DEF Untouched
<1> QED
  BY <1>1, <1>2, <1>3

(* It is enough to look at the task that takes the step.                   *)
LEMMA TaskKeeps ==
    ASSUME IInv, KInv, NEW t \in Task, TaskStep(t),
           SliceInv(t)', IsolationInv(t)', Isolated(t)'
    PROVE  KInv'
<1>0. /\ pc = "running" /\ UNCHANGED <<world, main>>
      /\ \A u \in Task : u # t => Untouched(u)
  BY OthersUntouched
<1>1. PhaseInv /\ RunningInv /\ FInv
  BY DEF KInv, JInv
<1>2. ASSUME NEW u \in Task PROVE SliceInv(u)' /\ IsolationInv(u)' /\ Isolated(u)'
  <2>1. CASE u = t
    BY <2>1
  <2>2. CASE u # t
    <3>1. Untouched(u) /\ SliceInv(u) /\ IsolationInv(u) /\ Isolated(u)
      BY <1>0, <1>1, <2>2 DEF RunningInv, FInv
    <3>2. /\ UNCHANGED <<detected, hanging, healthy, fresh, mutants, cuts, base, baseline>>
          /\ Slice(u)' = Slice(u) /\ Begin(u)' = Begin(u) /\ (Patient' <=> Patient)
      BY <1>0, PatientKept DEF world, main, Slice, Begin
    <3>3. SliceInv(u)'
      BY <3>1, <3>2 DEF SliceInv, Untouched
    <3>4. Unharmed(u)' <=> Unharmed(u)
      BY <3>1, <3>2 DEF Unharmed, Untouched
    <3>5. Added(u)' = Added(u)
      BY <3>1, <3>2 DEF Added, Untouched
    <3>6. IsolationInv(u)'
      BY <3>1, <3>2, <3>4, <3>5 DEF IsolationInv, ExactFor, Untouched
    <3>7. Isolated(u)'
      BY <3>1, <3>2, <3>4 DEF Isolated, Untouched
    <3> QED
      BY <3>3, <3>6, <3>7
  <2> QED
    BY <2>1, <2>2
<1>3. PhaseInv' /\ EveryMutantJudged'
  BY <1>0, <1>1 DEF PhaseInv, EveryMutantJudged, Early, main
<1> QED
  BY <1>0, <1>2, <1>3 DEF KInv, JInv, RunningInv, FInv

(* What each step knows of its task.                                       *)
LEMMA TaskFacts ==
    ASSUME IInv, KInv, NEW t \in Task, TaskStep(t)
    PROVE  /\ TypeOK /\ FilesInv /\ pc = "running" /\ cuts \in Batches
           /\ SliceInv(t) /\ IsolationInv(t)
           /\ UNCHANGED <<detected, hanging, healthy, fresh, mutants, cuts, base, baseline>>
           /\ Slice(t)' = Slice(t) /\ Begin(t)' = Begin(t) /\ (Patient' <=> Patient)
           /\ next[t] \in Nat /\ cuts[t] \in Nat /\ cuts[t-1] \in Nat
           /\ Unharmed(t)' => (~faulty'[t] /\ \A k \in Slice(t) : mutants[k] \notin hanging)
<1>1. /\ pc = "running" /\ cuts \in Batches /\ UNCHANGED <<world, main>>
  BY OthersUntouched
<1>2. TypeOK /\ FilesInv /\ RunningInv /\ FInv
  BY DEF IInv, KInv, JInv
<1>3. /\ UNCHANGED <<detected, hanging, healthy, fresh, mutants, cuts, base, baseline>>
      /\ Slice(t)' = Slice(t) /\ Begin(t)' = Begin(t) /\ (Patient' <=> Patient)
  BY <1>1, PatientKept DEF world, main, Slice, Begin
<1>4. next[t] \in Nat /\ cuts[t] \in Nat /\ cuts[t-1] \in Nat
  BY <1>1, <1>2, Sizes, BatchBounds
<1>5. Unharmed(t)' => (~faulty'[t] /\ \A k \in Slice(t) : mutants[k] \notin hanging)
  BY <1>3 DEF Unharmed
<1> QED
  BY <1>1, <1>2, <1>3, <1>4, <1>5 DEF RunningInv, FInv

(* A task that is still unharmed had no fault in this step or before.      *)
LEMMA NoFault ==
    ASSUME TypeOK, NEW t \in Task, NEW n, Fault(t, n), ~faulty'[t]
    PROVE  ~faulty[t] /\ ~(n > 0)
<1>1. faulty'[t] = (faulty[t] \/ n > 0)
  BY DEF Fault, TypeOK
<1> QED
  BY <1>1

LEMMA CopyRunFileK == ASSUME IInv, KInv, NEW t \in Task, CopyRunFile(t) PROVE KInv'
<1>t. TaskStep(t)
  BY DEF TaskStep
<1>0. /\ TypeOK /\ pc = "running" /\ SliceInv(t)
      /\ UNCHANGED <<detected, hanging, healthy, fresh, mutants, cuts, base, baseline>>
      /\ (Patient' <=> Patient)
      /\ Slice(t)' = Slice(t) /\ Begin(t)' = Begin(t) /\ next[t] \in Nat
      /\ cuts[t-1] \in Nat
      /\ Unharmed(t)' => ~faulty'[t]
  BY <1>t, TaskFacts
<1>1. taskPc[t] = "copy" /\ taskPc'[t] = "targets" /\ next' = next /\ verdict' = verdict
  BY <1>0 DEF CopyRunFile, At, Goto, TypeOK
<1>2. SliceInv(t)'
  BY <1>0, <1>1 DEF SliceInv
<1>3. ASSUME Unharmed(t)' PROVE local'[t][Source].present /\ TargetsOf(local'[t], base', Added(t)')
  <2>1. ~Fault(t, 1)
    BY <1>0, <1>3, NoFault
  <2>2. local'[t] = base
    BY <2>1, <1>0 DEF CopyRunFile, TypeOK
  <2>3. base[Source].present /\ \A m \in Mutant : ~base[m].present
    BY <1>0 DEF KInv, JInv, PhaseInv
  <2>4. Added(t)' = {}
    <3>1. \A j \in Slice(t) : j \in Nat /\ ~(j < next'[t])
      <4>1. next'[t] = cuts[t-1] + 1
        BY <1>0, <1>1 DEF SliceInv, Begin
      <4> QED
        BY <4>1, <1>0, Sizes DEF Slice, Begin, Index
    <3> QED
      BY <3>1, <1>0 DEF Added
  <2> QED
    BY <2>2, <2>3, <2>4, <1>0 DEF TargetsOf
<1>4. IsolationInv(t)' /\ Isolated(t)'
  BY <1>1, <1>3 DEF IsolationInv, Isolated
<1> QED
  BY <1>t, <1>2, <1>4, TaskKeeps

(* The three commands for a mutant, when none fails: its target is there   *)
(* as it should be, and the others are as before.                          *)
LEMMA Commands ==
    ASSUME NEW f \in File, FileSafe(f), f[Source].present,
           NEW M \in SUBSET Mutant, NEW b, TargetsOf(f, b, M), NEW m \in Mutant,
           NEW g, g = setBlueprintName(addEnvironmentVariable(
                          duplicateTestTarget(f, Source, m), m, m), m, m)
    PROVE  g[Source].present /\ TargetsOf(g, b, M \cup {m})
<1> DEFINE f1 == duplicateTestTarget(f, Source, m)
           f2 == addEnvironmentVariable(f1, m, m)
<1>0. m \in Target /\ Source \in Target /\ m # Source /\ Mutant \subseteq Target
  BY Names
<1>1. /\ f1 \in File /\ f1[m].present /\ f1[m].env \subseteq {m}
      /\ \A x \in Target : x # m => f1[x] = f[x]
  <2>1. f1 \in File /\ FileSafe(f1)
    BY DuplicateSafe
  <2>2. f1[m].present /\ \A x \in Target : x # m => f1[x] = f[x]
    BY <1>0 DEF duplicateTestTarget, File
  <2> QED
    BY <2>1, <2>2, <1>0 DEF FileSafe
<1> HIDE DEF f1
<1>2. /\ f2 \in File /\ f2[m].present /\ f2[m].env = {m}
      /\ \A x \in Target : x # m => f2[x] = f[x]
  <2>1. f2 = [f1 EXCEPT ![m].env = f1[m].env \cup {m}]
    BY <1>1 DEF addEnvironmentVariable
  <2>2. f1[m] \in Entry /\ f1[m].env \cup {m} = {m}
    BY <1>0, <1>1, EntryOf
  <2>3. f2[m] = [f1[m] EXCEPT !.env = {m}] /\ \A x \in Target : x # m => f2[x] = f1[x]
    BY <2>1, <2>2, <1>0, <1>1 DEF File
  <2>4. f2[m] \in Entry /\ f2[m].present /\ f2[m].env = {m}
    BY <2>2, <2>3, <1>1 DEF Entry
  <2>5. f2 \in File
    BY <2>1, <2>2, <2>3, <2>4, <1>0, <1>1 DEF File
  <2> QED
    BY <2>3, <2>4, <2>5, <1>1
<1> HIDE DEF f2
<1>3. g = setBlueprintName(f2, m, m)
  BY DEF f1, f2
<1>4. /\ g[m].present /\ g[m].env = {m} /\ g[m].blueprint = m
      /\ \A x \in Target : x # m => g[x] = f[x]
  <2>1. g = [f2 EXCEPT ![m].blueprint = m]
    BY <1>2, <1>3 DEF setBlueprintName
  <2>2. g[m] = [f2[m] EXCEPT !.blueprint = m] /\ \A x \in Target : x # m => g[x] = f2[x]
    BY <2>1, <1>0, <1>2 DEF File
  <2>3. f2[m] \in Entry
    BY <1>0, <1>2, EntryOf
  <2> QED
    BY <2>2, <2>3, <1>2 DEF Entry
<1>5. g[Source].present
  BY <1>0, <1>4
<1>6. TargetsOf(g, b, M \cup {m})
  BY <1>0, <1>4, Names DEF TargetsOf
<1> QED
  BY <1>5, <1>6

LEMMA AddTargetK == ASSUME IInv, KInv, NEW t \in Task, AddTarget(t) PROVE KInv'
<1>t. TaskStep(t)
  BY DEF TaskStep
<1>0. /\ TypeOK /\ FilesInv /\ pc = "running" /\ cuts \in Batches
      /\ SliceInv(t) /\ IsolationInv(t)
      /\ UNCHANGED <<detected, hanging, healthy, fresh, mutants, cuts, base, baseline>>
      /\ (Patient' <=> Patient)
      /\ Slice(t)' = Slice(t) /\ Begin(t)' = Begin(t)
      /\ next[t] \in Nat /\ cuts[t] \in Nat /\ cuts[t-1] \in Nat
      /\ Unharmed(t)' => ~faulty'[t]
  BY <1>t, TaskFacts
<1>1. /\ taskPc[t] = "targets" /\ taskPc'[t] = "targets" /\ verdict' = verdict
      /\ next[t] <= cuts[t] /\ next'[t] = next[t] + 1
  BY <1>0 DEF AddTarget, At, TypeOK
<1>2. SliceInv(t)'
  BY <1>0, <1>1 DEF SliceInv, Begin
<1> DEFINE m == mutants[next[t]]
<1>3. next[t] \in Slice(t) /\ m \in Mutant
  <2>1. cuts[t] <= Len(mutants) /\ cuts[t-1] + 1 <= next[t]
    BY <1>0, BatchBounds, Sizes DEF SliceInv, Begin
  <2>2. next[t] \in DOMAIN mutants
    BY <2>1, <1>0, <1>1, Sizes
  <2> QED
    BY <2>1, <2>2, <1>0, <1>1, Sizes DEF Slice, Begin
<1>4. Added(t)' = Added(t) \cup {m} /\ Added(t) \in SUBSET Mutant
  <2>1. \A j \in Slice(t) : j \in Nat /\ mutants[j] \in Mutant
    BY <1>0, SliceFacts
  <2>2. \A j \in Slice(t) : j < next'[t] <=> (j < next[t] \/ j = next[t])
    BY <2>1, <1>0, <1>1
  <2>3. Added(t)' = {mutants[k] : k \in {j \in Slice(t) : j < next'[t]}}
    BY <1>0 DEF Added
  <2> QED
    BY <2>1, <2>2, <2>3, <1>3 DEF Added
<1>5. ASSUME Unharmed(t)' PROVE local'[t][Source].present /\ TargetsOf(local'[t], base', Added(t)')
  <2>1. PICK dup \in BOOLEAN, env \in BOOLEAN, name \in BOOLEAN :
          LET f1 == IF dup THEN duplicateTestTarget(local[t], Source, m) ELSE local[t]
              f2 == IF env THEN addEnvironmentVariable(f1, m, m) ELSE f1
              f3 == IF name THEN setBlueprintName(f2, m, m) ELSE f2
          IN  /\ Fault(t, Cardinality({c \in 1..3 : ~<<dup, env, name>>[c]}))
              /\ local' = [local EXCEPT ![t] = f3]
    BY DEF AddTarget
  <2> DEFINE D == {c \in 1..3 : ~<<dup, env, name>>[c]}
  <2>2. ~faulty[t] /\ ~(Cardinality(D) > 0)
    <3>1. Fault(t, Cardinality(D))
      BY <2>1
    <3> HIDE DEF D
    <3> QED
      BY <3>1, <1>0, <1>5, NoFault
  <2>3. D = {}
    <3>1. IsFiniteSet(1..3)
      <4>1. 1 \in Int /\ 3 \in Int
        OBVIOUS
      <4> QED
        BY <4>1, FS_Interval, Zenon
    <3>2. D \subseteq 1..3
      OBVIOUS
    <3> HIDE DEF D
    <3>3. IsFiniteSet(D)
      BY <3>1, <3>2, FS_Subset
    <3>4. Cardinality(D) \in Nat /\ (Cardinality(D) = 0 <=> D = {})
      BY <3>3, FS_CardinalityType, FS_EmptySet
    <3> QED
      BY <3>4, <2>2
  <2>4. dup /\ env /\ name
    <3>1. \A c \in 1..3 : <<dup, env, name>>[c]
      BY <2>3
    <3>2. <<dup, env, name>>[1] /\ <<dup, env, name>>[2] /\ <<dup, env, name>>[3]
      BY <3>1
    <3> QED
      BY <3>2
  <2>5. local'[t] = setBlueprintName(addEnvironmentVariable(
                        duplicateTestTarget(local[t], Source, m), m, m), m, m)
    <3>1. local \in [Task -> File]
      BY <1>0 DEF TypeOK
    <3> HIDE DEF m
    <3> QED
      BY <2>1, <2>4, <3>1
  <2>6. Unharmed(t)
    BY <2>2, <1>0, <1>5 DEF Unharmed
  <2>7. local[t][Source].present /\ TargetsOf(local[t], base, Added(t))
    BY <2>6, <1>0, <1>1 DEF IsolationInv
  <2>8. local[t] \in File /\ FileSafe(local[t])
    BY <1>0 DEF TypeOK, FilesInv
  <2> HIDE DEF m
  <2>9. local'[t][Source].present /\ TargetsOf(local'[t], base, Added(t) \cup {m})
    BY <2>5, <2>7, <2>8, <1>3, <1>4, Commands
  <2> QED
    BY <2>9, <1>0, <1>4
<1>6. IsolationInv(t)' /\ Isolated(t)'
  BY <1>1, <1>5 DEF IsolationInv, Isolated
<1> QED
  BY <1>t, <1>2, <1>6, TaskKeeps

LEMMA DeleteSourceK == ASSUME IInv, KInv, NEW t \in Task, DeleteSource(t) PROVE KInv'
<1>t. TaskStep(t)
  BY DEF TaskStep
<1>0. /\ TypeOK /\ SliceInv(t) /\ IsolationInv(t)
      /\ UNCHANGED <<detected, hanging, healthy, fresh, mutants, cuts, base, baseline>>
      /\ (Patient' <=> Patient)
      /\ Slice(t)' = Slice(t) /\ Begin(t)' = Begin(t)
      /\ next[t] \in Nat /\ cuts[t] \in Nat
      /\ Unharmed(t)' => ~faulty'[t]
  BY <1>t, TaskFacts
<1>1. /\ taskPc[t] = "targets" /\ taskPc'[t] = "run" /\ verdict' = verdict /\ next' = next
      /\ cuts[t] < next[t]
  BY <1>0 DEF DeleteSource, At, Goto, TypeOK
<1>2. SliceInv(t)'
  BY <1>0, <1>1 DEF SliceInv
<1>3. ASSUME Unharmed(t)'
      PROVE  /\ ~local'[t][Source].present /\ TargetsOf(local'[t], base', Added(t)')
             /\ limit'[t] = baseline'.time * (cuts'[t] - cuts'[t-1]) * 10
  <2>1. ~Fault(t, 1)
    BY <1>0, <1>3, NoFault
  <2>2. Fault(t, 0) /\ local' = [local EXCEPT ![t] = deleteTestTarget(local[t], Source)]
    BY <2>1 DEF DeleteSource
  <2>3. Unharmed(t)
    BY <2>2, <1>0, <1>3, NoFault DEF Unharmed
  <2>4. TargetsOf(local[t], base, Added(t))
    BY <2>3, <1>0, <1>1 DEF IsolationInv
  <2>5. /\ \A x \in Mutant \cup Others : local'[t][x] = local[t][x]
        /\ ~local'[t][Source].present
    <3>1. local \in [Task -> File] /\ local[t] \in [Target -> Entry]
      BY <1>0 DEF TypeOK, File
    <3>2. Source \notin Mutant \cup Others /\ Mutant \cup Others \subseteq Target
      BY Names, NamesAssumption
    <3> QED
      BY <2>2, <3>1, <3>2, Names, AbsentEntry DEF deleteTestTarget
  <2>7. limit'[t] = baseline.time * (cuts[t] - cuts[t-1]) * 10
    BY <1>0 DEF DeleteSource, TypeOK
  <2>6. Added(t)' = Added(t)
    BY <1>0, <1>1 DEF Added
  <2>8. TargetsOf(local'[t], base, Added(t))
    BY <2>4, <2>5 DEF TargetsOf
  <2> QED
    BY <2>5, <2>6, <2>7, <2>8, <1>0
<1>4. IsolationInv(t)' /\ Isolated(t)'
  BY <1>1, <1>3 DEF IsolationInv, Isolated
<1> QED
  BY <1>t, <1>2, <1>4, TaskKeeps

(* A run of the targets of the mutants of M, in which none hangs, fails in *)
(* exactly the targets of those that the tests detect.                     *)
LEMMA FailuresExact ==
    ASSUME TypeOK, healthy, NEW f \in File, FileSafe(f), NEW M \in SUBSET Mutant,
           NEW b, TargetsOf(f, b, M), \A m \in M : m \notin hanging
    PROVE  /\ ~Hangs(f)
           /\ \A m \in M : /\ m \in getTargets(f)
                           /\ m \in FailingBlueprints(f) <=> m \in detected
<1>1. ~Hangs(f)
  <2> SUFFICES ASSUME NEW x \in Target, f[x].present, f[x].env \cap hanging # {} PROVE FALSE
    BY DEF Hangs
  <2>1. x \in Mutant /\ x \in hanging
    BY EntryOf DEF FileSafe
  <2> QED
    BY <2>1 DEF TargetsOf
<1>2. ASSUME NEW m \in M
      PROVE  m \in getTargets(f) /\ (m \in FailingBlueprints(f) <=> m \in detected)
  <2>1. m \in Target /\ f[m].present /\ f[m].env = {m} /\ f[m].blueprint = m
    BY Names DEF TargetsOf
  <2>2. m \in detected => m \in FailingBlueprints(f)
    BY <2>1 DEF FailingBlueprints, Fails
  <2>3. ASSUME m \in FailingBlueprints(f) PROVE m \in detected
    <3>1. PICK x \in Target : Fails(f[x]) /\ f[x].blueprint = m
      BY <2>3 DEF FailingBlueprints
    <3>2. x = m
      BY <3>1 DEF FileSafe
    <3> QED
      BY <3>1, <3>2, <2>1 DEF Fails
  <2> QED
    BY <2>1, <2>2, <2>3 DEF getTargets
<1> QED
  BY <1>1, <1>2

(* The timeout of a slice is longer than its targets need, if the baseline *)
(* run was long enough: its factor of ten counts the other test targets    *)
(* that were left in the base file for each mutant, but they run once.     *)
LEMMA InTime ==
    ASSUME TypeOK, cuts \in Batches, NEW t \in Task, NEW k \in Slice(t),
           NEW f \in File, TargetsOf(f, base, Added(t)), ~f[Source].present,
           base[Source].present, Patient, NEW u \in Times
    PROVE  Duration(f, u) < baseline.time * (cuts[t] - cuts[t-1]) * 10
<1> DEFINE all == getTargets(base)
           n   == cuts[t] - cuts[t-1]
<1>0. /\ cuts[t] \in Nat /\ cuts[t-1] \in Nat /\ cuts[t-1] < cuts[t] /\ n \in Nat /\ n >= 1
      /\ u \in Nat /\ baseline.time \in Nat
  <2>1. cuts[t] \in Nat /\ cuts[t-1] \in Nat /\ k \in Nat /\ cuts[t-1] < k /\ k <= cuts[t]
    BY BatchBounds, SliceFacts
  <2>2. cuts[t-1] < cuts[t] /\ n \in Nat /\ n >= 1
    BY <2>1
  <2>3. u \in Nat
    BY ParametersAssumption
  <2>4. baseline.time \in Nat
    BY DEF TypeOK
  <2> QED
    BY <2>1, <2>2, <2>3, <2>4
<1>1. IsFiniteSet(all) /\ IsFiniteSet(all \ {Source})
      /\ Cardinality(all) \in Nat /\ Cardinality(all) >= 1
      /\ Cardinality(all \ {Source}) = Cardinality(all) - 1
  <2>1. IsFiniteSet(all) /\ Source \in all
    BY TargetsFinite, Names DEF getTargets, TypeOK
  <2>2. Cardinality(all) \in Nat /\ (Cardinality(all) = 0 <=> all = {})
    BY <2>1, FS_CardinalityType, FS_EmptySet
  <2> QED
    BY <2>1, <2>2, FS_RemoveElement
<1>2. IsFiniteSet(Added(t)) /\ Cardinality(Added(t)) \in Nat /\ Cardinality(Added(t)) <= n
  <2> DEFINE S == {j \in Slice(t) : j < next[t]}
             I == (cuts[t-1] + 1)..cuts[t]
             g == [j \in S |-> mutants[j]]
  <2>1. IsFiniteSet(I) /\ Cardinality(I) = n
    <3>1. cuts[t-1] + 1 \in Int /\ cuts[t] \in Int /\ ~(cuts[t-1] + 1 > cuts[t])
          /\ cuts[t] - (cuts[t-1] + 1) + 1 = n
      BY <1>0
    <3> QED
      BY <3>1, FS_Interval
  <2>2. S \in SUBSET I
    <3>1. \A j \in Slice(t) : j \in Nat /\ cuts[t-1] < j /\ j <= cuts[t]
      BY SliceFacts
    <3> QED
      BY <3>1, <1>0
  <2>3. IsFiniteSet(S) /\ Cardinality(S) <= n /\ Cardinality(S) \in Nat
    <3> HIDE DEF S, I
    <3> QED
      BY <2>1, <2>2, FS_Subset, FS_CardinalityType
  <2>4. g \in Surjection(S, Added(t))
    BY DEF Added, Surjection
  <2> HIDE DEF S, g
  <2>5. IsFiniteSet(Added(t)) /\ Cardinality(Added(t)) <= Cardinality(S)
    BY <2>3, <2>4, FS_Surjection
  <2> QED
    BY <2>3, <2>5, FS_CardinalityType, <1>0
<1>3. getTargets(f) \subseteq (all \ {Source}) \cup Added(t)
  <2>1. \A x \in Target : x = Source \/ x \in Others \/ x \in Mutant
    BY DEF Target
  <2> QED
    BY <2>1, NamesAssumption DEF getTargets, TargetsOf
<1>4. Cardinality(getTargets(f)) \in Nat
      /\ Cardinality(getTargets(f)) <= (Cardinality(all) - 1) + n
  <2> DEFINE A == all \ {Source}
             B == Added(t)
  <2> HIDE DEF A, B
  <2>1. IsFiniteSet(A) /\ IsFiniteSet(B) /\ Cardinality(A) \in Nat /\ Cardinality(B) \in Nat
        /\ Cardinality(A) = Cardinality(all) - 1 /\ Cardinality(B) <= n
    BY <1>1, <1>2, FS_CardinalityType DEF A, B
  <2>2. IsFiniteSet(A \cup B) /\ Cardinality(A \cup B) = Cardinality(A) + Cardinality(B) - Cardinality(A \cap B)
    BY <2>1, FS_Union
  <2>3. IsFiniteSet(A \cap B) /\ Cardinality(A \cap B) \in Nat
    BY <2>1, FS_Intersection, FS_CardinalityType
  <2>4. getTargets(f) \in SUBSET (A \cup B)
    BY <1>3 DEF A, B
  <2>5. Cardinality(getTargets(f)) <= Cardinality(A \cup B) /\ Cardinality(getTargets(f)) \in Nat
    BY <2>2, <2>4, FS_Subset, FS_CardinalityType
  <2> HIDE DEF all, n
  <2>6. Cardinality(A \cup B) \in Nat /\ Cardinality(A \cup B) <= Cardinality(A) + Cardinality(B)
    BY <2>1, <2>2, <2>3, FS_CardinalityType
  <2> QED
    BY <2>1, <2>5, <2>6, <1>0, <1>1
<1>5. Cardinality(all) * u < baseline.time * 10
  BY DEF Patient, Duration
<1> DEFINE d == Cardinality(getTargets(f))
           b == Cardinality(all)
           T == baseline.time
<1>6. d \in Nat /\ b \in Nat /\ b >= 1 /\ d <= (b - 1) + n /\ b * u < T * 10 /\ T \in Nat
  BY <1>0, <1>1, <1>4, <1>5
<1> HIDE DEF d, b, T, n
<1>7. d * u < T * n * 10
  BY <1>0, <1>6, LongEnough
<1> QED
  BY <1>7 DEF d, T, n, Duration

LEMMA RunTestsK == ASSUME IInv, KInv, NEW t \in Task, RunTests(t) PROVE KInv'
<1>t. TaskStep(t)
  BY DEF TaskStep
<1>0. /\ pc = "running" /\ TypeOK /\ FilesInv /\ SliceInv(t) /\ IsolationInv(t) /\ cuts \in Batches
      /\ UNCHANGED <<detected, hanging, healthy, fresh, mutants, cuts, base, baseline>>
      /\ (Patient' <=> Patient)
      /\ Slice(t)' = Slice(t) /\ Begin(t)' = Begin(t)
      /\ next[t] \in Nat /\ cuts[t] \in Nat
      /\ Unharmed(t)' => ~faulty'[t] /\ \A k \in Slice(t) : mutants[k] \notin hanging
  BY <1>t, TaskFacts
<1>1. /\ taskPc[t] = "run" /\ taskPc'[t] = "read" /\ verdict' = verdict /\ next' = next
  BY <1>0 DEF RunTests, At, Goto, TypeOK
<1>2. SliceInv(t)'
  BY <1>0, <1>1 DEF SliceInv
<1>3. ASSUME Unharmed(t)' PROVE ExactFor(bundle[t], t)'
  <2>1. ~Fault(t, 1)
    BY <1>0, <1>3, NoFault
  <2>2. /\ Fault(t, 0)
        /\ \/ bundle' = [bundle EXCEPT ![t] = Readable(FailingBlueprints(local[t]))]
           \/ getTargets(local[t]) = {} \/ Hangs(local[t])
           \/ \E u \in Times : Duration(local[t], u) >= limit[t]
    BY <2>1 DEF RunTests
  <2>3. Unharmed(t) /\ healthy
    BY <2>2, <1>0, <1>3, NoFault DEF Unharmed
  <2>4. /\ local[t] \in File /\ FileSafe(local[t]) /\ TargetsOf(local[t], base, Added(t))
        /\ ~local[t][Source].present /\ Patient
        /\ limit[t] = baseline.time * (cuts[t] - cuts[t-1]) * 10
    BY <2>3, <1>0, <1>1 DEF IsolationInv, FilesInv, TypeOK, Unharmed
  <2>5. \A k \in Slice(t) : k < next[t] /\ mutants[k] \in Mutant
    BY <1>0, <1>1, SliceFacts DEF SliceInv
  <2>6. /\ Added(t) \in SUBSET Mutant /\ \A k \in Slice(t) : mutants[k] \in Added(t)
        /\ \A m \in Added(t) : m \notin hanging
    BY <2>5, <1>0, <1>3 DEF Added
  <2>7. /\ ~Hangs(local[t])
        /\ \A m \in Added(t) : /\ m \in getTargets(local[t])
                               /\ m \in FailingBlueprints(local[t]) <=> m \in detected
    BY <2>3, <2>4, <2>6, <1>0, FailuresExact
  <2> SUFFICES ASSUME NEW k \in Slice(t)
               PROVE  bundle'[t].readable
                      /\ (mutants[k] \in bundle'[t].targets <=> mutants[k] \in detected)
    BY <1>0 DEF ExactFor
  <2>10. \A u \in Times : Duration(local[t], u) < limit[t]
    <3>1. base[Source].present /\ \A m \in Mutant : ~base[m].present
      BY <1>0 DEF KInv, JInv, PhaseInv
    <3> QED
      BY <2>4, <3>1, <1>0, InTime
  <2>11. ~ \E u \in Times : Duration(local[t], u) >= limit[t]
    <3>1. \A u \in Times : Duration(local[t], u) \in Nat /\ limit[t] \in Nat
      BY <2>4, <1>0, DurationType, ParametersAssumption DEF TypeOK
    <3> QED
      BY <2>10, <3>1
  <2>8. bundle' = [bundle EXCEPT ![t] = Readable(FailingBlueprints(local[t]))]
    BY <2>2, <2>6, <2>7, <2>11
  <2>9. bundle'[t] = Readable(FailingBlueprints(local[t]))
    BY <2>8, <1>0 DEF TypeOK
  <2> QED
    BY <2>6, <2>7, <2>9 DEF Readable
<1>4. IsolationInv(t)' /\ Isolated(t)'
  BY <1>1, <1>3 DEF IsolationInv, Isolated
<1> QED
  BY <1>t, <1>2, <1>4, TaskKeeps

LEMMA ReadResultsK == ASSUME IInv, KInv, NEW t \in Task, ReadResults(t) PROVE KInv'
<1>t. TaskStep(t)
  BY DEF TaskStep
<1>0. /\ TypeOK /\ SliceInv(t) /\ IsolationInv(t)
      /\ UNCHANGED <<detected, hanging, healthy, fresh, mutants, cuts, base, baseline>>
      /\ (Patient' <=> Patient)
      /\ Slice(t)' = Slice(t) /\ Begin(t)' = Begin(t)
      /\ Unharmed(t)' => ~faulty'[t]
  BY <1>t, TaskFacts
<1>1. /\ taskPc[t] = "read" /\ taskPc'[t] = "report" /\ verdict' = verdict /\ next' = next
  BY <1>0 DEF ReadResults, At, Goto, TypeOK
<1>2. SliceInv(t)'
  BY <1>0, <1>1 DEF SliceInv
<1>3. ASSUME Unharmed(t)' PROVE ExactFor(failing[t], t)'
  <2>1. ~Fault(t, 1)
    BY <1>0, <1>3, NoFault
  <2>2. Fault(t, 0) /\ failing' = [failing EXCEPT ![t] = bundle[t]]
    BY <2>1 DEF ReadResults
  <2>3. Unharmed(t)
    BY <2>2, <1>0, <1>3, NoFault DEF Unharmed
  <2>4. failing'[t] = bundle[t] /\ ExactFor(bundle[t], t)
    BY <2>2, <2>3, <1>0, <1>1 DEF IsolationInv, TypeOK
  <2> QED
    BY <2>4, <1>0 DEF ExactFor
<1>4. IsolationInv(t)' /\ Isolated(t)'
  BY <1>1, <1>3 DEF IsolationInv, Isolated
<1> QED
  BY <1>t, <1>2, <1>4, TaskKeeps

LEMMA ReportVerdictsK == ASSUME IInv, KInv, NEW t \in Task, ReportVerdicts(t) PROVE KInv'
<1>t. TaskStep(t)
  BY DEF TaskStep
<1>0. /\ TypeOK /\ SliceInv(t) /\ IsolationInv(t) /\ cuts \in Batches
      /\ UNCHANGED <<detected, hanging, healthy, fresh, mutants, cuts, base, baseline>>
      /\ (Patient' <=> Patient)
      /\ Slice(t)' = Slice(t) /\ Begin(t)' = Begin(t)
  BY <1>t, TaskFacts
<1>1. /\ taskPc[t] = "report" /\ taskPc'[t] = "finished" /\ next' = next /\ faulty' = faulty
  BY <1>0 DEF ReportVerdicts, At, Goto, TypeOK, fault
<1>2. \A k \in Slice(t) : verdict'[k] = IF failing[t].readable /\ mutants[k] \in failing[t].targets
                                        THEN "Failed" ELSE "Passed"
  BY DEF ReportVerdicts, Slice
<1>3. SliceInv(t)'
  BY <1>0, <1>1, <1>2 DEF SliceInv
<1>4. Isolated(t)'
  <2> SUFFICES ASSUME Unharmed(t)', NEW k \in Slice(t)
               PROVE  verdict'[k] = IF mutants[k] \in detected THEN "Failed" ELSE "Passed"
    BY <1>0 DEF Isolated
  <2>1. Unharmed(t)
    BY <1>0, <1>1 DEF Unharmed
  <2>2. ExactFor(failing[t], t)
    BY <2>1, <1>0, <1>1 DEF IsolationInv
  <2> QED
    BY <2>2, <1>2 DEF ExactFor
<1>5. IsolationInv(t)'
  BY <1>1 DEF IsolationInv
<1> QED
  BY <1>t, <1>3, <1>4, <1>5, TaskKeeps

LEMMA KInvNext == IInv /\ IInv' /\ KInv /\ [Next]_vars => KInv'
<1> SUFFICES ASSUME IInv, IInv', KInv, [Next]_vars PROVE KInv'
  OBVIOUS
<1>1. CASE Main \/ Fatal
  BY <1>1, ExtractMutantsK, GenerateBaseK, RunBaselineK, DispatchK, FinishK, FatalK DEF Main
<1>2. ASSUME NEW t \in Task, TaskStep(t) PROVE KInv'
  BY <1>2, CopyRunFileK, AddTargetK, DeleteSourceK, RunTestsK, ReadResultsK, ReportVerdictsK
     DEF TaskStep
<1>3. CASE UNCHANGED vars
  <2>0. UNCHANGED <<detected, hanging, healthy, fresh, pc, mutants, base, baseline, cuts,
                    taskPc, next, local, limit, bundle, failing, verdict, faulty>>
    BY <1>3 DEF vars, world, main, task, fault
  <2>1. PhaseInv' /\ EveryMutantJudged' /\ (Patient' <=> Patient)
    BY <2>0, PatientKept DEF KInv, JInv, PhaseInv, EveryMutantJudged
  <2>2. \A t \in Task : Slice(t)' = Slice(t) /\ Begin(t)' = Begin(t)
    BY <2>0 DEF Slice, Begin
  <2>3. RunningInv'
    BY <2>0, <2>2 DEF KInv, JInv, RunningInv, SliceInv
  <2>4. FInv'
    <3>1. \A t \in Task : (Unharmed(t)' <=> Unharmed(t)) /\ Added(t)' = Added(t)
      BY <2>0, <2>1, <2>2 DEF Unharmed, Added
    <3> QED
      BY <2>0, <2>2, <3>1 DEF KInv, FInv, IsolationInv, Isolated, ExactFor
  <2> QED
    BY <2>1, <2>3, <2>4 DEF KInv, JInv
<1> QED
  BY <1>1, <1>2, <1>3 DEF Next, Terminated

(* KInv is an invariant of mull-xctestrun.                                 *)
THEOREM SliceInvariance == Spec => []KInv
<1>1. Init => KInv
  BY KInvInit
<1>2. IInv /\ IInv' /\ KInv /\ [Next]_vars => KInv'
  BY KInvNext
<1> QED
  BY <1>1, <1>2, Invariance, PTL DEF Spec

(* When run() returns, every extracted mutant has a verdict.               *)
THEOREM AllMutantsAreJudged == Spec => []EveryMutantJudged
<1>1. KInv => EveryMutantJudged
  BY DEF KInv, JInv
<1> QED
  BY <1>1, SliceInvariance, PTL

(* A task without a fault and without a hanging mutant judges its mutants  *)
(* exactly, whatever goes wrong in the others and in the baseline, for any *)
(* number of tasks and faults.                                             *)
THEOREM FaultsAreIsolated == Spec => []FaultIsolation
<1>1. KInv => FaultIsolation
  BY IsolationIs DEF KInv, FInv
<1> QED
  BY <1>1, SliceInvariance, PTL

-----------------------------------------------------------------------------
(* Refinement.                                                             *)

Reading(v) == IF v = "Failed" THEN "killed" ELSE IF v = "Passed" THEN "survived" ELSE "none"

(* A step between generate and running that gives no verdict is not seen.  *)
LEMMA Unseen ==
    ASSUME UNCHANGED <<world, mutants, verdict>>,
           pc \in {"generate", "baseline", "dispatch", "running"},
           pc' \in {"generate", "baseline", "dispatch", "running"}
    PROVE  UNCHANGED Abstract!vars
  BY DEF Abstract!vars, world

(* The verdicts of a slice are given at once, and kills are real.          *)
LEMMA ReportRefines ==
    ASSUME IInv, IInv', KInv, NEW t \in Task, ReportVerdicts(t)
    PROVE  Abstract!Judge
<1>t. TaskStep(t)
  BY DEF TaskStep
<1>0. /\ TypeOK /\ TypeOK' /\ KillSound' /\ SliceInv(t) /\ cuts \in Batches /\ pc = "running"
      /\ UNCHANGED <<detected, hanging, healthy, fresh, mutants>>
  BY <1>t, TaskFacts DEF IInv
<1>1. /\ taskPc[t] = "report" /\ pc' = pc
      /\ \A k \in Index : k \notin Slice(t) => verdict'[k] = verdict[k]
      /\ \A k \in Slice(t) : verdict'[k] \in {"Failed", "Passed"}
  BY DEF ReportVerdicts, At, main, Slice
<1> DEFINE S == Slice(t)
           killed == {k \in S : verdict'[k] = "Failed"}
           can == IF healthy /\ fresh THEN detected \cup hanging ELSE Mutant
<1>2. \A k \in S : k \in DOMAIN mutants /\ k \in Index /\ mutants[k] \in Mutant
                   /\ verdict[k] = "none"
  BY <1>0, <1>1, SliceFacts DEF SliceInv
<1>3. S \in SUBSET Abstract!Unjudged /\ killed \in SUBSET S
  BY <1>2 DEF Abstract!Unjudged
<1>4. \A k \in killed : mutants[k] \in can
  BY <1>0, <1>2 DEF KillSound
<1>5. [k \in Index |-> Reading(verdict'[k])]
        = [k \in Index |-> IF k \in killed THEN "killed" ELSE IF k \in S THEN "survived"
                           ELSE [j \in Index |-> Reading(verdict[j])][k]]
  <2> SUFFICES ASSUME NEW k \in Index
               PROVE  Reading(verdict'[k]) = IF k \in killed THEN "killed"
                                             ELSE IF k \in S THEN "survived"
                                             ELSE Reading(verdict[k])
    OBVIOUS
  <2>1. CASE k \in S
    BY <2>1, <1>1 DEF Reading
  <2>2. CASE k \notin S
    BY <2>2, <1>1
  <2> QED
    BY <2>1, <2>2
<1>6. UNCHANGED <<can, mutants, pc>>
  BY <1>0, <1>1
<1> QED
  BY <1>0, <1>3, <1>4, <1>5, <1>6 DEF Abstract!Judge, Abstract!Index, Index, Reading

(* run() returns when the list is empty or every mutant has a verdict.     *)
LEMMA FinishRefines == ASSUME IInv, KInv, Finish PROVE Abstract!Finish
<1>0. /\ TypeOK /\ CutsInv /\ RunningInv /\ pc = "running" /\ pc' = "done"
      /\ \A t \in Task : taskPc[t] = "finished"
      /\ UNCHANGED <<world, mutants, verdict>>
  BY DEF KInv, JInv, IInv, Finish
<1>1. ASSUME NEW k \in DOMAIN mutants PROVE k \in Index /\ Reading(verdict[k]) # "none"
  <2>1. PICK t \in Task : k \in Slice(t)
    BY <1>0, EveryMutantHasATask DEF CutsInv
  <2>2. k \in Index /\ verdict[k] # "none"
    BY <1>0, <2>1, Sizes DEF RunningInv, SliceInv
  <2>3. verdict[k] \in {"none", "Passed", "Failed"}
    BY <1>0, <2>2 DEF TypeOK
  <2> QED
    BY <2>2, <2>3 DEF Reading
<1>2. Abstract!Unjudged = {}
  BY <1>1 DEF Abstract!Unjudged, Reading
<1> QED
  BY <1>0, <1>2 DEF Abstract!Finish, world

(* Every step of mull-xctestrun is a step of the abstract runner or        *)
(* stutters.                                                               *)
LEMMA StepRefines ==
    ASSUME IInv, IInv', KInv, [Next]_vars
    PROVE  [Abstract!Next]_Abstract!vars
<1>1. CASE ExtractMutants
  <2>1. pc = "extract" /\ mutants = <<>> /\ UNCHANGED <<world, verdict>>
    BY <1>1 DEF ExtractMutants, KInv, JInv, PhaseInv
  <2>2. CASE mutants' = <<>>
    <3>1. Abstract!FinishWithoutMutants
      BY <1>1, <2>1, <2>2 DEF ExtractMutants, Abstract!FinishWithoutMutants, world
    <3> QED
      BY <3>1 DEF Abstract!Next
  <2>3. CASE mutants' # <<>>
    <3>1. mutants' \in Seq(Mutant) /\ Len(mutants') <= MaxMutants
      BY DEF IInv, TypeOK
    <3>2. pc' = "generate"
      BY <1>1, <2>3 DEF ExtractMutants
    <3>3. Abstract!Discover
      BY <2>1, <3>1, <3>2 DEF Abstract!Discover, world
    <3> QED
      BY <3>3 DEF Abstract!Next
  <2> QED
    BY <2>2, <2>3
<1>2. CASE RunBaseline \/ Dispatch
  BY <1>2, Unseen DEF RunBaseline, Dispatch
<1>3. CASE GenerateBase
  <2>1. pc = "generate" /\ pc' \in {"aborted", "baseline"} /\ UNCHANGED <<world, mutants, verdict>>
    BY <1>3 DEF GenerateBase
  <2>2. CASE pc' = "baseline"
    BY <2>1, <2>2, Unseen
  <2>3. CASE pc' = "aborted"
    <3>1. Abstract!Die
      BY <2>1, <2>3 DEF Abstract!Die, world
    <3> QED
      BY <3>1 DEF Abstract!Next
  <2> QED
    BY <2>1, <2>2, <2>3
<1>4. CASE Finish
  BY <1>4, FinishRefines DEF Abstract!Next
<1>5. CASE Fatal
  <2>1. Abstract!Die
    BY <1>5 DEF Fatal, Abstract!Die, world
  <2> QED
    BY <2>1 DEF Abstract!Next
<1>6. ASSUME NEW t \in Task, TaskStep(t) PROVE [Abstract!Next]_Abstract!vars
  <2>1. CASE ReportVerdicts(t)
    BY <2>1, ReportRefines DEF Abstract!Next
  <2>2. CASE ~ReportVerdicts(t)
    <3>1. pc = "running" /\ UNCHANGED <<world, main>>
      BY <1>6, OthersUntouched
    <3>2. verdict' = verdict
      BY <1>6, <2>2 DEF TaskStep, CopyRunFile, AddTarget, DeleteSource, RunTests, ReadResults
    <3> QED
      BY <3>1, <3>2, Unseen DEF main
  <2> QED
    BY <2>1, <2>2
<1>7. CASE UNCHANGED vars
  BY <1>7 DEF vars, world, main, Abstract!vars
<1> QED
  BY <1>1, <1>2, <1>3, <1>4, <1>5, <1>6, <1>7 DEF Next, Main, Terminated

(* mull-xctestrun implements the test runner: every mutant gets one        *)
(* verdict, from the one xcodebuild run its slice belongs to, and the      *)
(* results are returned when all mutants have theirs.                      *)
THEOREM Refinement == Spec => ImplementsMutationTesting
<1>1. Init => Abstract!Init
  <2> SUFFICES ASSUME Init PROVE Abstract!Init
    OBVIOUS
  <2>1. [k \in Index |-> Reading(verdict[k])] = [k \in Index |-> "none"]
    BY DEF Init, Reading
  <2> QED
    BY <2>1 DEF Init, Abstract!Init, Abstract!Index, Index, Reading
<1>2. IInv /\ IInv' /\ KInv /\ [Next]_vars => [Abstract!Next]_Abstract!vars
  BY StepRefines
<1> QED
  BY <1>1, <1>2, Invariance, SliceInvariance, PTL
     DEF Spec, ImplementsMutationTesting, Abstract!Spec
=============================================================================
