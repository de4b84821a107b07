------------------------- MODULE MCXCTestInvocation -------------------------
(***************************************************************************)
(* Two workers and up to three mutants, one of them twice in the bundle    *)
(* (a declaration compiled into two objects).  Running times differ        *)
(* eightfold, within the factor of ten the code allows for.                *)
(***************************************************************************)
EXTENDS XCTestInvocation

CONSTANTS m1, m2

MCMutant == {m1, m2}
MCLists == {<<m1>>, <<m1, m2>>, <<m1, m2, m1>>}
MCTimes == {1, 8}
=============================================================================
