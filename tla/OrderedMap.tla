----------------------------- MODULE OrderedMap -----------------------------
(***************************************************************************)
(* What a task executor promises its caller, without threads.              *)
(*                                                                         *)
(* A task turns each of the input items 1..in into at most one result; the *)
(* items that yield one are `kept'.  Results are appended to the output    *)
(* container in the order of the input, none is lost, none comes twice,    *)
(* and the call returns only once they are all there.  The call may also   *)
(* end the process (report_fatal_error), and an executor that was given no *)
(* task at all returns without doing anything.                             *)
(***************************************************************************)
EXTENDS Naturals, Sequences, Functions

VARIABLES in, tasks, kept, out, status

vars == <<in, tasks, kept, out, status>>

(* The results of the items 1..n, in the order of the input.               *)
Ordered(s) == \A a, b \in DOMAIN s : a < b => s[a] < s[b]
ResultsUpTo(s, n) ==
    /\ Range(s) = {k \in kept : k <= n}
    /\ Ordered(s)

Init ==
    /\ in \in Nat /\ tasks \in Nat /\ kept \subseteq 1..in
    /\ out = <<>>
    /\ status = "running"

Emit ==
    /\ status = "running"
    /\ \E n \in 1..in : ResultsUpTo(out', n)
    /\ Range(out) \subseteq Range(out')
    /\ UNCHANGED <<in, tasks, kept, status>>

Return ==
    /\ status = "running"
    /\ tasks > 0 => ResultsUpTo(out, in)
    /\ status' = "returned"
    /\ UNCHANGED <<in, tasks, kept, out>>

Die ==
    /\ status = "running"
    /\ status' = "dead"
    /\ UNCHANGED <<in, tasks, kept, out>>

Next == Emit \/ Return \/ Die

Spec == Init /\ [][Next]_vars
=============================================================================
