------------------------------ MODULE RunProgram ------------------------------
(***************************************************************************)
(* RunProgram() of XCTestRunInvocation.cpp, which starts xcodebuild, waits *)
(* for it with a timeout and kills it: the step RunTests of                *)
(* XCTestRunInvocation, looked at closely.                                 *)
(*                                                                         *)
(* The timeout is a long long that becomes an int, and wait() takes a      *)
(* negative number for no limit.  wait() may also fail: all errors but     *)
(* timed_out are taken for the exit status of a failed run.                *)
(*                                                                         *)
(* The program is external.  It computes, one unit of time at a time, and  *)
(* writes, one unit of output at a time, which takes no time but blocks    *)
(* when it goes to a pipe that is full: with no log path the output goes   *)
(* to pipes, and nobody reads them before the program has ended.           *)
(***************************************************************************)
EXTENDS Integers, Sequences, FiniteSets

CONSTANTS
    Scripts,     \* what programs do: sequences of "compute" and "write"
    Timeouts,    \* the timeouts it is called with
    PipeSize,    \* the output a pipe holds
    MaxInt       \* the largest int

ASSUME RunAssumption ==
    /\ Timeouts \subseteq Nat /\ PipeSize \in Nat /\ MaxInt \in Nat
    /\ Scripts \subseteq Seq({"compute", "write"})

VARIABLES
    script, code, hangs,  \* the program: its steps, its exit code, whether it ends
    timeout, logged,      \* the arguments: timeout, and whether there is a log path
    pc, deadline,         \* RunProgram()
    result, exitStatus,   \* what it returns
    child, at, pipe,      \* the process: its state, its next step, its pipe
    clock

program == <<script, code, hangs, timeout, logged>>
run     == <<pc, deadline, result, exitStatus>>
process == <<child, at, pipe>>
vars == <<program, run, process, clock>>

(* reproc::milliseconds counts in ints: a long long wraps around.          *)
Milliseconds(t) == ((t + MaxInt + 1) % (2 * MaxInt + 2)) - (MaxInt + 1)
Limit == Milliseconds(timeout)

Init ==
    /\ script \in Scripts /\ code \in {0, 1} /\ hangs \in BOOLEAN
    /\ timeout \in Timeouts /\ logged \in BOOLEAN
    /\ pc = "start" /\ deadline = 0 /\ result = "none" /\ exitStatus = 0
    /\ child = "none" /\ at = 1 /\ pipe = 0
    /\ clock = 0

-----------------------------------------------------------------------------
(* Fault: the redirection is a pipe whether there is a log path or not.    *)
RedirectAlwaysToPipe == "pipe"

(* options.redirect                                                        *)
Redirect == IF logged THEN "path" ELSE "pipe"

(* process.start()                                                         *)
Start ==
    /\ pc = "start"
    /\ child' = "running" /\ deadline' = clock + Limit /\ pc' = "wait"
    /\ UNCHANGED <<program, result, exitStatus, at, pipe, clock>>

(* An error of process.start() is fatal.                                   *)
StartFails ==
    /\ pc = "start" /\ pc' = "aborted"
    /\ UNCHANGED <<program, deadline, result, exitStatus, process, clock>>

CanWrite == Redirect = "path" \/ pipe < PipeSize

(* Fault: a write to a full pipe goes through.                             *)
WriteUnblocked ==
    /\ child = "running" /\ at <= Len(script) /\ script[at] = "write"
    /\ at' = at + 1
    /\ pipe' = IF Redirect = "pipe" THEN pipe + 1 ELSE pipe
    /\ UNCHANGED <<program, run, child, clock>>

Write ==
    /\ child = "running" /\ at <= Len(script) /\ script[at] = "write" /\ CanWrite
    /\ at' = at + 1
    /\ pipe' = IF Redirect = "pipe" THEN pipe + 1 ELSE pipe
    /\ UNCHANGED <<program, run, child, clock>>

ExitByItself ==
    /\ child = "running" /\ at > Len(script) /\ ~hangs
    /\ child' = "exited"
    /\ UNCHANGED <<program, run, at, pipe, clock>>

(* Fault: the wait has no timeout.                                         *)
WaitForExitOnly ==
    /\ pc = "wait" /\ child = "exited"
    /\ exitStatus' = code
    /\ result' = (IF code = 0 THEN "Passed" ELSE "Failed") /\ pc' = "returned"
    /\ UNCHANGED <<program, deadline, process, clock>>

(* process.wait(timeout): the exit code, or timed_out.  At the deadline    *)
(* both may be there to be seen.                                           *)
Wait ==
    /\ pc = "wait"
    /\ \/ /\ child = "exited"
          /\ exitStatus' = code
          /\ result' = (IF code = 0 THEN "Passed" ELSE "Failed") /\ pc' = "returned"
       \/ /\ Limit >= 0 /\ clock >= deadline
          /\ exitStatus' = -1 /\ result' = "Timedout" /\ pc' = "kill"
    /\ UNCHANGED <<program, deadline, process, clock>>

(* Any other error: its negative number is taken for an exit status, and   *)
(* the process is left to itself.                                          *)
WaitFails ==
    /\ pc = "wait"
    /\ exitStatus' = -1 /\ result' = "Failed" /\ pc' = "returned"
    /\ UNCHANGED <<program, deadline, process, clock>>

(* Fault: a program that was late is not killed.                           *)
KillNot ==
    /\ pc = "kill" /\ pc' = "returned"
    /\ UNCHANGED <<program, deadline, result, exitStatus, process, clock>>

Kill ==
    /\ pc = "kill" /\ pc' = "returned"
    /\ child' = IF child = "running" THEN "killed" ELSE child
    /\ UNCHANGED <<program, deadline, result, exitStatus, at, pipe, clock>>

(* Time passes for everyone: a program that computes gets on, one that is  *)
(* blocked or hangs does not.  What takes no time is done first.  The      *)
(* clock stops at the deadline, after which its value makes no difference, *)
(* and stays where it is if there is none.                                 *)
Tick ==
    /\ pc = "wait" /\ child = "running"
    /\ IF at <= Len(script) THEN script[at] = "compute" \/ ~CanWrite ELSE hangs
    /\ clock' = IF clock < deadline THEN clock + 1 ELSE clock
    /\ at' = IF at <= Len(script) /\ script[at] = "compute" THEN at + 1 ELSE at
    /\ UNCHANGED <<program, run, child, pipe>>

Terminated == pc \in {"returned", "aborted"} /\ UNCHANGED vars

Caller == Start \/ Wait \/ Kill
Program == Write \/ ExitByItself
Next == Caller \/ StartFails \/ WaitFails \/ Program \/ Tick \/ Terminated

(* Caller and program are scheduled, and time passes; no error is owed to  *)
(* anybody.                                                                *)
Spec == Init /\ [][Next]_vars /\ WF_vars(Caller) /\ WF_vars(Program) /\ WF_vars(Tick)

-----------------------------------------------------------------------------
(* The program's place in its script, the contents of the pipe and the     *)
(* clock stay within their bounds.                                         *)
TypeOK ==
    /\ script \in Scripts /\ code \in {0, 1} /\ hangs \in BOOLEAN
    /\ timeout \in Timeouts /\ logged \in BOOLEAN
    /\ pc \in {"start", "wait", "kill", "returned", "aborted"}
    /\ deadline \in {0, Limit} /\ clock \in {0} \cup 0..Limit
    /\ result \in {"none", "Passed", "Failed", "Timedout"} /\ exitStatus \in {-1, 0, 1}
    /\ child \in {"none", "running", "exited", "killed"}
    /\ at \in 1..(Len(script) + 1) /\ pipe \in 0..PipeSize

(* How many of the first n steps are of a kind.                            *)
Count(kind, n) == Cardinality({k \in 1..n : script[k] = kind})
Steps(kind) == Count(kind, Len(script))

(* The program gets stuck with more output than the pipe takes.            *)
Blocked == ~logged /\ Steps("write") > PipeSize

(* A status is what it says.  Passed is the word of a program that has run *)
(* its whole script, and Failed, too, unless its exit status is the error  *)
(* of a wait that failed; Timedout is the fault of the program, or of a    *)
(* pipe too small for its output - never when a log takes the output,      *)
(* however much there is of it - and of the timeout as an int.             *)
StatusIsExact ==
    /\ result = "Passed" \/ (result = "Failed" /\ exitStatus >= 0) =>
          /\ child = "exited" /\ at = Len(script) + 1
          /\ (result = "Passed") = (code = 0)
    /\ result = "Timedout" => hangs \/ Blocked \/ Steps("compute") >= Limit

(* No xcodebuild of an earlier run is left when the next one starts: it    *)
(* has ended or was killed, unless the wait for it failed (a failure with  *)
(* a negative exit status, which no caller tells from a failed test).      *)
NoProcessLeft ==
    pc = "returned" /\ ~(result = "Failed" /\ exitStatus < 0) => child \in {"exited", "killed"}

(* The caller returns even when the program hangs or is stuck with a full  *)
(* pipe: the pipe is nobody's to read, so only the timeout ends the wait - *)
(* if it is a limit at all, and no number that an int turns negative.      *)
Terminates ==
    (Limit >= 0 \/ ~(hangs \/ Blocked)) => <>(pc \in {"returned", "aborted"})
=============================================================================
