----------------------------- MODULE MCRunProgram -----------------------------
(***************************************************************************)
(* Model-checking instance of RunProgram: all programs of up to MaxSteps   *)
(* steps.                                                                  *)
(***************************************************************************)
EXTENDS RunProgram

CONSTANT MaxSteps

MCScripts == UNION {[1..n -> {"compute", "write"}] : n \in 0..MaxSteps}
=============================================================================
