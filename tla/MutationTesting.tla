--------------------------- MODULE MutationTesting ---------------------------
(***************************************************************************)
(* What a test runner promises: it looks for mutants, gives each of them   *)
(* one verdict, and ends when all have theirs.  Verdicts come in any       *)
(* order and several at a time.  A verdict never changes, and only mutants *)
(* of `killable' are reported as killed; nothing is promised of the        *)
(* survivors.  The runner may also end without a result.                   *)
(***************************************************************************)
EXTENDS Naturals, Sequences

CONSTANTS Mutant,       \* identifiers of mutants
          MaxMutants    \* bound: length of a list of mutants

VARIABLES killable, mutants, verdict, status

vars == <<killable, mutants, verdict, status>>

Index == 1..MaxMutants
Unjudged == {k \in DOMAIN mutants : verdict[k] = "none"}

Init ==
    /\ killable \subseteq Mutant
    /\ mutants = <<>>
    /\ verdict = [k \in Index |-> "none"]
    /\ status = "looking"

Discover ==
    /\ status = "looking"
    /\ mutants' \in Seq(Mutant) /\ Len(mutants') <= MaxMutants
    /\ status' = "testing"
    /\ UNCHANGED <<killable, verdict>>

Judge ==
    /\ status = "testing"
    /\ \E S \in SUBSET Unjudged : \E killed \in SUBSET S :
          /\ \A k \in killed : mutants[k] \in killable
          /\ verdict' = [k \in Index |-> IF k \in killed THEN "killed"
                                         ELSE IF k \in S THEN "survived"
                                         ELSE verdict[k]]
    /\ UNCHANGED <<killable, mutants, status>>

Finish ==
    /\ status = "testing"
    /\ Unjudged = {}
    /\ status' = "finished"
    /\ UNCHANGED <<killable, mutants, verdict>>

FinishWithoutMutants ==
    /\ status = "looking"
    /\ status' = "finished"
    /\ UNCHANGED <<killable, mutants, verdict>>

Die ==
    /\ status \in {"looking", "testing"}
    /\ status' = "dead"
    /\ UNCHANGED <<killable, mutants, verdict>>

Next == Discover \/ Judge \/ Finish \/ FinishWithoutMutants \/ Die

Spec == Init /\ [][Next]_vars
=============================================================================
