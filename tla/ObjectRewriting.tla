--------------------------- MODULE ObjectRewriting ---------------------------
(***************************************************************************)
(* What the mutation pipeline promises to a link driver: it turns the list *)
(* of objects of a link into another one, once, that links the same        *)
(* program.  Some of the objects are replaced by compiled ones; all the    *)
(* others come first, in the order they were given.                        *)
(***************************************************************************)
EXTENDS Sequences, SequencesExt, Filtering

VARIABLES
    inputObjects,  \* the objects of the command line, never changed
    output,        \* what MutationPipeline::run() returns
    done           \* whether it has returned

vars == <<inputObjects, output, done>>

(* The objects for which `compiled' says c, marked so.                     *)
Marked(objects, replaced, c) ==
    LET chosen == Keep(objects, IF c THEN replaced ELSE Range(objects) \ replaced) IN
    [k \in DOMAIN chosen |-> [object |-> chosen[k], compiled |-> c]]

Rewritings(objects) ==
    {Marked(objects, replaced, FALSE) \o Marked(objects, replaced, TRUE) :
        replaced \in SUBSET Range(objects)}

Init == output = <<>> /\ done = FALSE

Return ==
    /\ ~done /\ done' = TRUE
    /\ output' \in Rewritings(inputObjects)
    /\ UNCHANGED inputObjects

Spec == Init /\ [][Return]_vars
=============================================================================
