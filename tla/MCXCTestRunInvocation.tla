------------------------ MODULE MCXCTestRunInvocation ------------------------
(***************************************************************************)
(* Two products that share a mutant (a library linked into both), or none  *)
(* that can be read; two workers, so that a slice holds one mutant, two,   *)
(* or the same one twice.                                                  *)
(***************************************************************************)
EXTENDS XCTestRunInvocation

CONSTANTS m1, m2

MCMutant == {m1, m2}
MCLists == {<<>>, <<m1, m2, m2>>}

(* A baseline of 1, too short for a target that takes 12; one of 12, cut   *)
(* off at 2, which is enough for both.                                     *)
MCTimes == {1, 12}

(* A finished file, and files whose editing stopped or lost a command: the *)
(* target of m1 named but without its variable, and the other way round.   *)
Left(e, b) == [present |-> TRUE, env |-> e, blueprint |-> b]
MCLeftovers ==
    {[NoFile EXCEPT ![m1] = Left({m1}, m1), ![m2] = Left({m2}, m2)],
     [FileWith({Source} \cup Others) EXCEPT ![m1] = Left({}, m1)],
     [FileWith({Source}) EXCEPT ![m1] = Left({m1}, Source)]}
=============================================================================
