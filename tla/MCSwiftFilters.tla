---------------------------- MODULE MCSwiftFilters ----------------------------
(***************************************************************************)
(* Model-checking instance of SwiftFilters: all sources of up to MaxNodes  *)
(* nodes, each at a place of its own, and those whose nodes all start at   *)
(* the same place, as the calls of `a.b().c()' do.                         *)
(***************************************************************************)
EXTENDS SwiftFilters

CONSTANT MaxNodes

Node(kind, parent, count, op, context) ==
    [kind |-> kind, parent |-> parent, count |-> count, op |-> op, context |-> context]

MCNodes ==
    {Node("assignment", "other", 0, "none", "discarded"),
     Node("call", "codeBlockItem", 2, "none", "statement"),
     Node("call", "codeBlockItem", 2, "none", "result"),
     Node("call", "codeBlockItem", 1, "none", "statement"),
     Node("call", "codeBlockItem", 1, "none", "result"),
     Node("call", "other", 0, "none", "discarded"),
     Node("call", "other", 0, "none", "operand"),
     Node("spacedOperator", "binaryOperatorExpr", 0, "less", "operand"),
     Node("spacedOperator", "binaryOperatorExpr", 0, "or", "operand"),
     Node("spacedOperator", "other", 0, "and", "operand"),
     Node("unspacedOperator", "binaryOperatorExpr", 0, "plus", "operand")}

PlacedAt(node, place) ==
    [kind |-> node.kind, parent |-> node.parent, count |-> node.count,
     op |-> node.op, context |-> node.context, at |-> place]

MCTrees ==
    LET sources == UNION {[1..n -> MCNodes] : n \in 0..MaxNodes} IN
    {[k \in DOMAIN s |-> PlacedAt(s[k], k)] : s \in sources}
        \cup {[k \in DOMAIN s |-> PlacedAt(s[k], 1)] : s \in sources}
=============================================================================
