--------------------------- MODULE RunProgramProofs ---------------------------
(***************************************************************************)
(* Theorems about RunProgram, for all programs, timeouts and sizes of the  *)
(* pipe.                                                                   *)
(***************************************************************************)
EXTENDS RunProgram, FiniteSetTheorems, TLAPS

(* Which process there is in which phase.                                  *)
PhaseInv ==
    /\ pc \in {"start", "aborted"} => child = "none" /\ clock = 0 /\ at = 1 /\ pipe = 0
    /\ pc \notin {"start", "aborted"} => deadline = Limit
    /\ pc \in {"wait", "kill"} => child \in {"running", "exited"}
    /\ pc \in {"start", "aborted", "wait"} => result = "none"
    /\ pc = "kill" => result = "Timedout"
    /\ pc = "returned" =>
          child \in {"exited", "killed"} \/ (result = "Failed" /\ exitStatus = -1)

(* A program that has exited has run its script; the pipe holds what was   *)
(* written.                                                                *)
ProcessInv ==
    /\ child = "exited" => at = Len(script) + 1
    /\ pipe = IF logged THEN 0 ELSE Count("write", at - 1)

(* Time only passes with the computation of a program that does not hang   *)
(* and is not blocked.                                                     *)
ClockInv == hangs \/ Blocked \/ clock <= Count("compute", at - 1)

IInv == TypeOK /\ PhaseInv /\ ProcessInv /\ ClockInv /\ StatusIsExact

-----------------------------------------------------------------------------
(* Counting steps.                                                         *)

LEMMA CountType ==
    ASSUME NEW kind, NEW n \in Nat
    PROVE  /\ IsFiniteSet({k \in 1..n : script[k] = kind})
           /\ Count(kind, n) \in Nat
<1>1. IsFiniteSet(1..n)
  BY FS_Interval, SMT
<1>2. {k \in 1..n : script[k] = kind} \in SUBSET (1..n)
  OBVIOUS
<1>3. IsFiniteSet({k \in 1..n : script[k] = kind})
  BY <1>1, <1>2, FS_Subset
<1> QED
  BY <1>3, FS_CardinalityType DEF Count

LEMMA CountNone == ASSUME NEW kind PROVE Count(kind, 0) = 0
<1>1. {k \in 1..0 : script[k] = kind} = {}
  BY SMT
<1> QED
  BY <1>1, FS_EmptySet DEF Count

(* One more step.                                                          *)
LEMMA CountNext ==
    ASSUME NEW kind, NEW n \in Nat
    PROVE  Count(kind, n + 1) = IF script[n + 1] = kind THEN Count(kind, n) + 1
                                ELSE Count(kind, n)
<1> DEFINE S(m) == {k \in 1..m : script[k] = kind}
<1>1. IsFiniteSet(S(n))
  BY CountType
<1>2. CASE script[n + 1] = kind
  <2>1. S(n + 1) = S(n) \cup {n + 1} /\ n + 1 \notin S(n)
    BY <1>2, SMT
  <2>2. Cardinality(S(n) \cup {n + 1}) = Cardinality(S(n)) + 1
    BY <1>1, <2>1, FS_AddElement
  <2> QED
    BY <1>2, <2>1, <2>2 DEF Count
<1>3. CASE script[n + 1] # kind
  <2>1. S(n + 1) = S(n)
    BY <1>3, SMT
  <2> QED
    BY <1>3, <2>1 DEF Count
<1> QED
  BY <1>2, <1>3

(* More steps.                                                             *)
LEMMA CountGrows ==
    ASSUME NEW kind, NEW n \in Nat, NEW m \in Nat, n <= m
    PROVE  Count(kind, n) <= Count(kind, m)
<1>1. {k \in 1..n : script[k] = kind} \in SUBSET {k \in 1..m : script[k] = kind}
  BY SMT
<1> QED
  BY <1>1, CountType, FS_Subset DEF Count

(* A timeout, wrapped around, is a number.                                 *)
LEMMA LimitType == ASSUME MaxInt \in Nat, NEW t \in Nat PROVE Milliseconds(t) \in Int
<1>1. 2 * MaxInt + 2 \in Nat \ {0} /\ t + MaxInt + 1 \in Int
  OBVIOUS
<1>2. (t + MaxInt + 1) % (2 * MaxInt + 2) \in Int
  BY <1>1
<1> QED
  BY <1>2 DEF Milliseconds

(* The length of the script, and where in it the program is.               *)
LEMMA Place ==
    ASSUME TypeOK
    PROVE  /\ Len(script) \in Nat /\ at \in Nat /\ at - 1 \in Nat
           /\ (at - 1) + 1 = at /\ (at + 1) - 1 = at
           /\ at <= Len(script) + 1
           /\ \A k \in 1..Len(script) : script[k] \in {"compute", "write"}
           /\ PipeSize \in Nat /\ Limit \in Int
<1>1. /\ Len(script) \in Nat /\ at \in 1..(Len(script) + 1) /\ timeout \in Nat
      /\ PipeSize \in Nat /\ MaxInt \in Nat
      /\ \A k \in 1..Len(script) : script[k] \in {"compute", "write"}
  BY RunAssumption DEF TypeOK
<1>2. Limit \in Int
  BY <1>1, LimitType DEF Limit
<1> QED
  BY <1>1, <1>2

(* The step at the place the program is at.                                *)
LEMMA CountHere ==
    ASSUME TypeOK, NEW kind
    PROVE  Count(kind, at) = IF script[at] = kind THEN Count(kind, at - 1) + 1
                             ELSE Count(kind, at - 1)
<1>1. at - 1 \in Nat /\ (at - 1) + 1 = at
  BY Place
<1>2. Count(kind, (at - 1) + 1) =
        IF script[(at - 1) + 1] = kind THEN Count(kind, at - 1) + 1 ELSE Count(kind, at - 1)
  BY <1>1, CountNext
<1> QED
  BY <1>1, <1>2, Zenon

-----------------------------------------------------------------------------
LEMMA InitHolds == Init => IInv
<1> SUFFICES ASSUME Init PROVE IInv
  OBVIOUS
<1>1. Len(script) \in Nat /\ PipeSize \in Nat
  BY RunAssumption DEF Init
<1>2. TypeOK
  BY <1>1 DEF Init, TypeOK
<1>3. Count("write", at - 1) = 0 /\ Count("compute", at - 1) = 0
  <2>1. at - 1 = 0
    BY SMT DEF Init
  <2> QED
    BY <2>1, CountNone
<1> QED
  BY <1>2, <1>3 DEF Init, IInv, PhaseInv, ProcessInv, ClockInv, StatusIsExact, Blocked

(* Nothing the invariant speaks of but phase and result changes.           *)
LEMMA StartStep == IInv /\ Start => IInv'
<1> SUFFICES ASSUME IInv, Start PROVE IInv'
  OBVIOUS
<1> USE DEF IInv
<1>1. /\ script' = script /\ UNCHANGED program /\ result = "none" /\ result' = "none"
      /\ exitStatus' = exitStatus
      /\ at' = at /\ pipe' = pipe /\ clock' = clock /\ clock = 0
  BY DEF Start, PhaseInv, program
<1>2. Count("write", at - 1)' = Count("write", at - 1)
      /\ Count("compute", at - 1)' = Count("compute", at - 1)
      /\ Steps("write")' = Steps("write")
  BY <1>1 DEF Count, Steps
<1>3. TypeOK'
  <2>1. child' = "running" /\ deadline' = Limit /\ pc' = "wait"
    BY <1>1, Place DEF Start
  <2> QED
    BY <1>1, <2>1 DEF TypeOK, program, Limit
<1>4. PhaseInv'
  BY <1>1, Place DEF Start, PhaseInv, program, Limit
<1>5. ProcessInv'
  BY <1>1, <1>2 DEF Start, ProcessInv, PhaseInv, program
<1>6. ClockInv'
  BY <1>1, <1>2 DEF ClockInv, Blocked, program
<1>7. StatusIsExact'
  BY <1>1 DEF StatusIsExact, Blocked
<1> QED
  BY <1>3, <1>4, <1>5, <1>6, <1>7

LEMMA StartFailsStep == IInv /\ StartFails => IInv'
<1> SUFFICES ASSUME IInv, StartFails PROVE IInv'
  OBVIOUS
<1> USE DEF IInv
<1>1. /\ UNCHANGED <<program, deadline, result, exitStatus, process, clock>>
      /\ pc = "start" /\ pc' = "aborted"
  BY DEF StartFails
<1>2. /\ Count("write", at - 1)' = Count("write", at - 1)
      /\ Count("compute", at - 1)' = Count("compute", at - 1)
      /\ Steps("write")' = Steps("write") /\ Steps("compute")' = Steps("compute")
  BY <1>1 DEF Count, Steps, program, process
<1> QED
  BY <1>1, <1>2 DEF TypeOK, PhaseInv, ProcessInv, ClockInv, Blocked, StatusIsExact, Limit,
                    program, process

LEMMA WriteStep == IInv /\ Write => IInv'
<1> SUFFICES ASSUME IInv, Write PROVE IInv'
  OBVIOUS
<1> USE DEF IInv
<1>1. /\ UNCHANGED program /\ UNCHANGED run /\ child' = child /\ clock' = clock
      /\ child = "running" /\ at <= Len(script) /\ script[at] = "write" /\ at' = at + 1
      /\ pc \in {"wait", "kill", "returned"}
      /\ pc = "returned" => result = "Failed" /\ exitStatus = -1
  BY DEF Write, PhaseInv, TypeOK
<1>2. Count("write", at) = Count("write", at - 1) + 1
      /\ Count("compute", at) = Count("compute", at - 1)
  BY <1>1, CountHere
<1>3. at' - 1 = at /\ script' = script
  BY <1>1, Place DEF program
<1>4. /\ Count("write", at - 1)' = Count("write", at - 1) + 1
      /\ Count("compute", at - 1)' = Count("compute", at - 1)
      /\ Steps("write")' = Steps("write") /\ Steps("compute")' = Steps("compute")
  BY <1>2, <1>3 DEF Count, Steps
<1>5. Count("write", at - 1) \in Nat
  BY CountType, Place
<1>6. pipe' = (IF logged THEN pipe ELSE pipe + 1) /\ (logged \/ pipe < PipeSize)
  BY DEF Write, Redirect, CanWrite
<1>7. TypeOK'
  BY <1>1, <1>6, Place DEF TypeOK, program, Limit, run
<1>8. PhaseInv'
  BY <1>1 DEF PhaseInv, program, Limit, run
<1>9. ProcessInv'
  BY <1>1, <1>4, <1>5, <1>6 DEF ProcessInv, program, run, TypeOK
<1>10. ClockInv'
  BY <1>1, <1>4 DEF ClockInv, Blocked, program, run
<1>11. StatusIsExact'
  BY <1>1, <1>4 DEF StatusIsExact, Blocked, program, Limit, run
<1> QED
  BY <1>7, <1>8, <1>9, <1>10, <1>11

LEMMA ExitStep == IInv /\ ExitByItself => IInv'
<1> SUFFICES ASSUME IInv, ExitByItself PROVE IInv'
  OBVIOUS
<1> USE DEF IInv
<1>1. /\ UNCHANGED <<program, run, at, pipe, clock>> /\ child = "running"
      /\ child' = "exited" /\ at > Len(script)
  BY DEF ExitByItself
<1>2. /\ Count("write", at - 1)' = Count("write", at - 1)
      /\ Count("compute", at - 1)' = Count("compute", at - 1)
      /\ Steps("write")' = Steps("write") /\ Steps("compute")' = Steps("compute")
  BY <1>1 DEF Count, Steps, program
<1>3. TypeOK'
  BY <1>1 DEF TypeOK, program, Limit, run
<1>4. PhaseInv'
  BY <1>1 DEF PhaseInv, TypeOK, program, Limit, run
<1>5. ProcessInv'
  BY <1>1, <1>2, Place DEF ProcessInv, program, run
<1>6. ClockInv'
  BY <1>1, <1>2 DEF ClockInv, Blocked, program, run
<1>7. StatusIsExact'
  BY <1>1, <1>2 DEF StatusIsExact, Blocked, program, Limit, run
<1> QED
  BY <1>3, <1>4, <1>5, <1>6, <1>7

(* The deadline is only reached by a program that hangs, is blocked or     *)
(* computes for as long.                                                   *)
LEMMA WaitStep == IInv /\ Wait => IInv'
<1> SUFFICES ASSUME IInv, Wait PROVE IInv'
  OBVIOUS
<1> USE DEF IInv
<1>1. /\ UNCHANGED <<program, deadline, process, clock>> /\ pc = "wait"
      /\ \/ /\ child = "exited" /\ pc' = "returned" /\ exitStatus' = code
            /\ result' = (IF code = 0 THEN "Passed" ELSE "Failed")
         \/ /\ clock >= deadline /\ exitStatus' = -1
            /\ result' = "Timedout" /\ pc' = "kill"
  BY DEF Wait
<1>2. /\ Count("write", at - 1)' = Count("write", at - 1)
      /\ Count("compute", at - 1)' = Count("compute", at - 1)
      /\ Steps("write")' = Steps("write") /\ Steps("compute")' = Steps("compute")
  BY <1>1 DEF Count, Steps, program, process
<1>3. TypeOK'
  BY <1>1 DEF TypeOK, program, Limit, process
<1>4. PhaseInv'
  BY <1>1 DEF PhaseInv, program, Limit, process
<1>5. ProcessInv'
  BY <1>1, <1>2 DEF ProcessInv, program, process
<1>6. ClockInv'
  BY <1>1, <1>2 DEF ClockInv, Blocked, program, process
<1>7. StatusIsExact'
  <2>1. CASE child = "exited" /\ result' = (IF code = 0 THEN "Passed" ELSE "Failed")
    BY <1>1, <2>1 DEF StatusIsExact, Blocked, ProcessInv, TypeOK, program, Limit, process
  <2>2. CASE clock >= deadline /\ result' = "Timedout"
    <3>1. Count("compute", at - 1) <= Steps("compute")
      BY CountGrows, Place DEF Steps
    <3>2. Count("compute", at - 1) \in Nat /\ Steps("compute") \in Nat
      BY CountType, Place DEF Steps
    <3>3. deadline = Limit /\ Limit \in Int /\ clock \in Nat
      BY <1>1, Place DEF PhaseInv, TypeOK
    <3>4. hangs \/ Blocked \/ Steps("compute") >= Limit
      BY <2>2, <3>1, <3>2, <3>3 DEF ClockInv
    <3> QED
      BY <1>1, <1>2, <2>2, <3>4 DEF StatusIsExact, Blocked, program, Limit
  <2> QED
    BY <1>1, <2>1, <2>2
<1> QED
  BY <1>3, <1>4, <1>5, <1>6, <1>7

(* A wait that fails says nothing about the program.                       *)
LEMMA WaitFailsStep == IInv /\ WaitFails => IInv'
<1> SUFFICES ASSUME IInv, WaitFails PROVE IInv'
  OBVIOUS
<1> USE DEF IInv
<1>1. /\ UNCHANGED <<program, deadline, process, clock>> /\ pc = "wait" /\ pc' = "returned"
      /\ exitStatus' = -1 /\ result' = "Failed"
  BY DEF WaitFails
<1>2. /\ Count("write", at - 1)' = Count("write", at - 1)
      /\ Count("compute", at - 1)' = Count("compute", at - 1)
      /\ Steps("write")' = Steps("write") /\ Steps("compute")' = Steps("compute")
  BY <1>1 DEF Count, Steps, program, process
<1> QED
  BY <1>1, <1>2 DEF TypeOK, PhaseInv, ProcessInv, ClockInv, Blocked, StatusIsExact, Limit,
                    program, process

LEMMA KillStep == IInv /\ Kill => IInv'
<1> SUFFICES ASSUME IInv, Kill PROVE IInv'
  OBVIOUS
<1> USE DEF IInv
<1>1. /\ UNCHANGED <<program, deadline, result, exitStatus, at, pipe, clock>>
      /\ pc = "kill" /\ pc' = "returned"
      /\ child' = (IF child = "running" THEN "killed" ELSE child)
  BY DEF Kill
<1>2. /\ Count("write", at - 1)' = Count("write", at - 1)
      /\ Count("compute", at - 1)' = Count("compute", at - 1)
      /\ Steps("write")' = Steps("write") /\ Steps("compute")' = Steps("compute")
  BY <1>1 DEF Count, Steps, program
<1>3. TypeOK'
  BY <1>1 DEF TypeOK, program, Limit
<1>4. PhaseInv'
  BY <1>1 DEF PhaseInv, program, Limit
<1>5. ProcessInv'
  BY <1>1, <1>2 DEF ProcessInv, program
<1>6. ClockInv'
  BY <1>1, <1>2 DEF ClockInv, Blocked, program
<1>7. StatusIsExact'
  BY <1>1, <1>2 DEF StatusIsExact, Blocked, PhaseInv, program, Limit
<1> QED
  BY <1>3, <1>4, <1>5, <1>6, <1>7

(* Time that does not go into computation means that the program hangs or  *)
(* has written more than the pipe takes.                                   *)
LEMMA TickStep == IInv /\ Tick => IInv'
<1> SUFFICES ASSUME IInv, Tick PROVE IInv'
  OBVIOUS
<1> USE DEF IInv
<1>1. /\ UNCHANGED <<program, run, child, pipe>> /\ pc = "wait" /\ child = "running"
      /\ IF at <= Len(script) THEN script[at] = "compute" \/ ~CanWrite ELSE hangs
      /\ clock' = (IF clock < deadline THEN clock + 1 ELSE clock)
  BY DEF Tick
<1>2. Steps("write")' = Steps("write") /\ Steps("compute")' = Steps("compute")
  BY <1>1 DEF Count, Steps, program
<1>3. clock' \in {0} \cup 0..Limit /\ clock \in Nat /\ clock' <= clock + 1
      /\ deadline = Limit /\ clock' \in Nat /\ Limit' = Limit
  BY <1>1, Place DEF PhaseInv, TypeOK, Limit, program
<1>4. CASE at <= Len(script) /\ script[at] = "compute"
  <2>1. at' = at + 1
    BY <1>4 DEF Tick
  <2>2. at' - 1 = at /\ script' = script
    BY <1>1, <2>1, Place DEF program
  <2>3. /\ Count("compute", at - 1)' = Count("compute", at - 1) + 1
        /\ Count("write", at - 1)' = Count("write", at - 1)
    <3>1. /\ Count("compute", at) = Count("compute", at - 1) + 1
          /\ Count("write", at) = Count("write", at - 1)
      BY <1>4, CountHere
    <3> QED
      BY <2>2, <3>1 DEF Count
  <2>4. Count("compute", at - 1) \in Nat
    BY CountType, Place
  <2>5. TypeOK'
    BY <1>1, <1>3, <1>4, <2>1, Place DEF TypeOK, program, Limit, run
  <2>6. PhaseInv' /\ ProcessInv' /\ StatusIsExact'
    BY <1>1, <1>2, <2>3 DEF PhaseInv, ProcessInv, StatusIsExact, Blocked, program, Limit, run
  <2>7. ClockInv'
    BY <1>1, <1>2, <1>3, <2>3, <2>4 DEF ClockInv, Blocked, program, run
  <2> QED
    BY <2>5, <2>6, <2>7
<1>5. CASE ~(at <= Len(script) /\ script[at] = "compute")
  <2>1. at' = at
    BY <1>5 DEF Tick
  <2>2. Count("write", at - 1)' = Count("write", at - 1)
    BY <1>1, <2>1 DEF Count, program
  <2>3. hangs \/ Blocked
    <3>1. CASE at <= Len(script)
      <4>1. script[at] = "write" /\ ~logged /\ ~(pipe < PipeSize)
        BY <1>1, <1>5, <3>1, Place DEF CanWrite, Redirect, TypeOK
      <4>2. Count("write", at) = Count("write", at - 1) + 1
        BY <4>1, CountHere
      <4>3. Count("write", at) <= Steps("write")
        BY <3>1, CountGrows, Place DEF Steps
      <4>4. Count("write", at) \in Nat /\ Count("write", at - 1) \in Nat /\ Steps("write") \in Nat
        BY CountType, Place DEF Steps
      <4> QED
        BY <4>1, <4>2, <4>3, <4>4, Place DEF ProcessInv, Blocked
    <3>2. CASE ~(at <= Len(script))
      BY <1>1, <3>2
    <3> QED
      BY <3>1, <3>2
  <2>4. TypeOK'
    BY <1>1, <1>3, <2>1, Place DEF TypeOK, program, Limit, run
  <2>5. PhaseInv' /\ ProcessInv' /\ StatusIsExact'
    BY <1>1, <1>2, <2>1, <2>2 DEF PhaseInv, ProcessInv, StatusIsExact, Blocked, program, Limit, run
  <2>6. ClockInv'
    BY <1>1, <1>2, <2>3 DEF ClockInv, Blocked, program
  <2> QED
    BY <2>4, <2>5, <2>6
<1> QED
  BY <1>4, <1>5

LEMMA StutteringStep == IInv /\ UNCHANGED vars => IInv'
<1> SUFFICES ASSUME IInv, UNCHANGED vars PROVE IInv'
  OBVIOUS
<1> USE DEF IInv
<1>1. UNCHANGED <<program, run, process, clock>>
  BY DEF vars
<1>2. /\ Count("write", at - 1)' = Count("write", at - 1)
      /\ Count("compute", at - 1)' = Count("compute", at - 1)
      /\ Steps("write")' = Steps("write") /\ Steps("compute")' = Steps("compute")
  BY <1>1 DEF Count, Steps, program, process
<1> QED
  BY <1>1, <1>2 DEF TypeOK, PhaseInv, ProcessInv, ClockInv, Blocked, StatusIsExact,
                    Limit, program, run, process

(* The inductive invariant holds in every reachable state: the strengthe-  *)
(* ning of StatusIsExact that says where the time of RunProgram() went.    *)
THEOREM Invariance == Spec => []IInv
<1>1. IInv /\ [Next]_vars => IInv'
  BY StartStep, StartFailsStep, WriteStep, ExitStep, WaitStep, WaitFailsStep,
     KillStep, TickStep, StutteringStep
     DEF Next, Caller, Program, Terminated
<1> QED
  BY InitHolds, <1>1, PTL DEF Spec

(* Every variable of RunProgram() keeps its type; in particular the pipe   *)
(* never holds more than it can.                                           *)
THEOREM TypeCorrectness == Spec => []TypeOK
  BY Invariance, PTL DEF IInv

(* The status RunProgram() returns is what it says, for every program,     *)
(* timeout, size of the pipe and width of an int; only a Failed with a     *)
(* negative exit status says nothing about the program.                    *)
THEOREM StatusesAreExact == Spec => []StatusIsExact
  BY Invariance, PTL DEF IInv

(* Only a wait that fails leaves a process when RunProgram() returns.      *)
THEOREM ProcessesEnd == Spec => []NoProcessLeft
<1>1. IInv => NoProcessLeft
  BY DEF IInv, PhaseInv, NoProcessLeft
<1> QED
  BY Invariance, <1>1, PTL
=============================================================================
