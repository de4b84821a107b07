----------------------------- MODULE SwiftFilters -----------------------------
(***************************************************************************)
(* Which mutation points of a Swift source survive: the syntax index       *)
(* (SwiftASTMutationFilter.swift) walks the tree of the source and saves   *)
(* where a mutation has something written to apply to, and two filters of  *)
(* the pipeline are asked about every point the compiled code offers: the  *)
(* runtime function filter (RuntimeFunctionFilter.cpp) and, if enabled,    *)
(* the one that looks into the index.                                      *)
(*                                                                         *)
(* A tree is the sequence of its nodes in the order they are left.  Of a   *)
(* node the visitor sees what it is (an operator with its name), its       *)
(* parent, how many statements its block has if it is one of them, and the *)
(* place it starts at.  What becomes of the value of a call the visitor    *)
(* does not see, it guesses; Swift's view is the node's `context':         *)
(*   statement  a statement of its own, the value is not used              *)
(*   result     a statement whose value is the result of its block: an     *)
(*              implicit return, or any statement of a result builder      *)
(*   discarded  inside an expression that throws the value away, as in     *)
(*              try f(), await f() and _ = f()                             *)
(*   operand    inside an expression that uses the value                   *)
(***************************************************************************)
EXTENDS Naturals, Sequences

CONSTANTS
    Trees,         \* the sources
    Callees,       \* the functions called in the compiled code
    UserSwift,     \* those whose names start with $s
    Unrecoverable  \* precondition, assertionFailure and _assertionFailure

NoCallee == "unknown"   \* not a call, or not a call of a known function

(* One entry for each kind: an operator with one mutation, one with two.   *)
BINARY_MUTATIONS == [
    plus |-> {"AddToSub"}, and |-> {"AndToOr"},
    less |-> {"LessThanToGreaterOrEqual", "LessThanToLessOrEqual"}]

OperatorMutators == UNION {BINARY_MUTATIONS[op] : op \in DOMAIN BINARY_MUTATIONS}

(* NeToEq is among the mutators of C++, which no syntax of Swift has.      *)
Mutators == OperatorMutators \cup {"AssignConst", "RemoveVoidCall", "NeToEq"}

Nodes ==
    [kind : {"assignment", "call", "spacedOperator", "unspacedOperator"},
     parent : {"codeBlockItem", "binaryOperatorExpr", "other"},
     count : Nat, at : Nat \ {0},
     context : {"statement", "result", "discarded", "operand"},
     op : DOMAIN BINARY_MUTATIONS \cup {"or", "none"}]

(* A statement is never an operand, and what is inside an expression is    *)
(* never a statement.                                                      *)
ASSUME SwiftAssumption ==
    /\ Unrecoverable \subseteq UserSwift /\ UserSwift \subseteq Callees
    /\ NoCallee \notin Callees
    /\ Trees \subseteq Seq(Nodes)
    /\ \A t \in Trees : \A k \in DOMAIN t :
          /\ t[k].parent = "codeBlockItem" => t[k].count > 0
          /\ t[k].kind = "call" =>
                (t[k].parent = "codeBlockItem" <=> t[k].context \in {"statement", "result"})

VARIABLES
    tree,       \* the source
    enabled,    \* EnableSyntaxFilter
    next,       \* the node the walk leaves next; 0 before the source is parsed
    storage,    \* the mutations saved: <<mutator, place>>
    readable,   \* whether the path and the source could be parsed (history)
    filters,    \* the filters still to apply
    points      \* the points no filter has skipped

vars == <<tree, enabled, next, storage, readable, filters, points>>

Places == {tree[k].at : k \in DOMAIN tree} \cup {0}   \* 0: <compiler-generated>

(* What the compiled code may offer: any mutator, anywhere.                *)
AllPoints ==
    [mutator : Mutators, at : Places, callee : Callees \cup {NoCallee}]

Init ==
    /\ tree \in Trees /\ enabled \in BOOLEAN
    /\ next = 0 /\ storage = {} /\ readable = FALSE
    /\ filters = IF enabled THEN <<"runtime", "syntax">> ELSE <<"runtime">>
    /\ points = AllPoints

-----------------------------------------------------------------------------
(* Fault: the walk goes on after an error.                                 *)
ParseSourceAnyway ==
    /\ enabled /\ next = 0
    /\ next' = 1 /\ readable' \in BOOLEAN
    /\ UNCHANGED <<tree, enabled, storage, filters, points>>

(* A path that is not UTF-8, or a source that cannot be parsed, leaves the *)
(* storage empty.                                                          *)
ParseSource ==
    /\ enabled /\ next = 0
    /\ \/ next' = 1 /\ readable' = TRUE
       \/ next' = Len(tree) + 1 /\ UNCHANGED readable
    /\ UNCHANGED <<tree, enabled, storage, filters, points>>

Save(mutators, node) == storage \cup {<<m, node.at>> : m \in mutators}

Operator(node) ==
    IF node.parent = "binaryOperatorExpr" /\ node.op \in DOMAIN BINARY_MUTATIONS
    THEN BINARY_MUTATIONS[node.op] ELSE {}

(* Fault: a call that is the only statement of its block is saved, too.    *)
CallOfAnyBlock(node) ==
    IF node.parent = "codeBlockItem" THEN {"RemoveVoidCall"} ELSE {}

(* The only statement of a block may be an implicit return.                *)
Call(node) ==
    IF node.parent = "codeBlockItem" /\ node.count # 1 THEN {"RemoveVoidCall"} ELSE {}

MutationsOf(node) ==
    CASE node.kind = "assignment"     -> {"AssignConst"}
      [] node.kind = "call"           -> Call(node)
      [] node.kind = "spacedOperator" -> Operator(node)
      [] OTHER                        -> {}

(* Fault: a call takes the place of the mutations saved before it.         *)
VisitPostOverwriting ==
    /\ next \in DOMAIN tree
    /\ storage' = IF tree[next].kind = "call"
                  THEN {<<m, tree[next].at>> : m \in Call(tree[next])}
                  ELSE Save(MutationsOf(tree[next]), tree[next])
    /\ next' = next + 1
    /\ UNCHANGED <<tree, enabled, readable, filters, points>>

(* The three visitPost() methods.                                          *)
VisitPost ==
    /\ next \in DOMAIN tree
    /\ storage' = Save(MutationsOf(tree[next]), tree[next])
    /\ next' = next + 1
    /\ UNCHANGED <<tree, enabled, readable, filters, points>>

(* RuntimeFunctionFilter::shouldSkip().                                    *)
RuntimeSkips(point) ==
    /\ point.mutator = "RemoveVoidCall" /\ point.callee # NoCallee
    /\ (point.callee \notin UserSwift \/ point.callee \in Unrecoverable)

(* mull::ASTMutationFilter.                                                *)
SyntaxSkips(point) == <<point.mutator, point.at>> \notin storage

(* One filter after the other, the syntax filter over the finished index.  *)
ApplyFilter ==
    /\ filters # <<>> /\ (enabled => next = Len(tree) + 1)
    /\ points' = {p \in points :
          IF Head(filters) = "runtime" THEN ~RuntimeSkips(p) ELSE ~SyntaxSkips(p)}
    /\ filters' = Tail(filters)
    /\ UNCHANGED <<tree, enabled, next, storage, readable>>

Terminated == filters = <<>> /\ UNCHANGED vars

Next == ParseSource \/ VisitPost \/ ApplyFilter \/ Terminated

Spec == Init /\ [][Next]_vars

-----------------------------------------------------------------------------
(* The walk stays in the tree, and a source it could not read leaves       *)
(* nothing in the storage.                                                 *)
TypeOK ==
    /\ tree \in Trees /\ enabled \in BOOLEAN /\ readable \in BOOLEAN
    /\ next \in 0..(Len(tree) + 1)
    /\ storage \subseteq Mutators \X (Places \ {0})
    /\ ~readable => storage = {}
    /\ filters \in IF enabled THEN {<<"runtime", "syntax">>, <<"syntax">>, <<>>}
                               ELSE {<<"runtime">>, <<>>}
    /\ points \subseteq AllPoints

WrittenAt(place, Is(_)) == \E k \in DOMAIN tree : tree[k].at = place /\ Is(tree[k])

(* A statement whose value is not used, or one of several results.         *)
LooksUnused(node) ==
    \/ node.context = "statement"
    \/ node.context = "result" /\ node.count > 1

(* A mutant that reaches the tests changes something the author wrote:     *)
(* nothing the compiler generated, the operator it is the mutation of, and *)
(* a call only if some call that starts there is a statement whose value   *)
(* nobody uses - removing the last expression of a function would leave    *)
(* its result undefined - or one of several results in a result builder,   *)
(* which the visitor cannot tell from it.  With or without the syntax      *)
(* filter it never removes a call of the runtime or of a function that     *)
(* reports a broken precondition.                                          *)
SurvivorsAreWritten ==
    filters = <<>> => \A p \in points :
        /\ enabled =>
            CASE p.mutator = "RemoveVoidCall" ->
                    WrittenAt(p.at, LAMBDA n : n.kind = "call" /\ LooksUnused(n))
              [] p.mutator = "AssignConst" ->
                    WrittenAt(p.at, LAMBDA n : n.kind = "assignment")
              [] OTHER ->
                    WrittenAt(p.at, LAMBDA n : n.kind = "spacedOperator"
                        /\ n.op \in DOMAIN BINARY_MUTATIONS /\ p.mutator \in BINARY_MUTATIONS[n.op])
        /\ p.mutator = "RemoveVoidCall" =>
            p.callee \in (UserSwift \ Unrecoverable) \cup {NoCallee}

(* The filters lose no mutant but for these reasons: the source could not  *)
(* be read, the runtime is called, the operator is written without spaces, *)
(* or no call there is a statement among others: it is alone in its block, *)
(* its value is used, or it is inside an expression that discards it - the *)
(* visitor looks at the parent only, and skips the f() of try f().         *)
NothingElseIsLost ==
    filters = <<>> /\ (enabled => readable) => \A p \in AllPoints \ points :
        \/ p.mutator = "RemoveVoidCall" /\ p.callee \notin (UserSwift \ Unrecoverable) \cup {NoCallee}
        \/ /\ enabled
           /\ ~WrittenAt(p.at, LAMBDA n :
                \/ n.kind = "assignment" /\ p.mutator = "AssignConst"
                \/ n.kind = "call" /\ n.context = "statement" /\ n.count # 1
                      /\ p.mutator = "RemoveVoidCall"
                \/ n.kind = "spacedOperator" /\ n.parent = "binaryOperatorExpr"
                      /\ n.op \in DOMAIN BINARY_MUTATIONS /\ p.mutator \in BINARY_MUTATIONS[n.op])
=============================================================================
