-------------------------- MODULE SwiftFiltersProofs --------------------------
(***************************************************************************)
(* Theorems about SwiftFilters, for all sources and sets of functions.     *)
(***************************************************************************)
EXTENDS SwiftFilters, TLAPS

(* The index holds the mutations of the nodes that have been left, and     *)
(* nothing else; those of all of them if the source could be read.         *)
IndexInv ==
    /\ \A e \in storage : \E k \in DOMAIN tree :
          k < next /\ e[1] \in MutationsOf(tree[k]) /\ e[2] = tree[k].at
    /\ readable => \A k \in DOMAIN tree : k < next =>
          \A m \in MutationsOf(tree[k]) : <<m, tree[k].at>> \in storage
    /\ ~enabled => next = 0
    /\ next = 0 => ~readable
    /\ next \in DOMAIN tree => readable

RuntimeApplied == filters = <<"syntax">> \/ filters = <<>>
SyntaxApplied  == enabled /\ filters = <<>>

(* The points left are those no applied filter skips, and a filter is      *)
(* applied to a finished index only.                                       *)
PointsInv ==
    /\ points = {p \in AllPoints :
          /\ RuntimeApplied => ~RuntimeSkips(p)
          /\ SyntaxApplied => ~SyntaxSkips(p)}
    /\ enabled /\ RuntimeApplied => next = Len(tree) + 1

IInv == TypeOK /\ IndexInv /\ PointsInv

-----------------------------------------------------------------------------
(* The mutations of operators are no others.                               *)
LEMMA OperatorMutations ==
    ASSUME NEW op \in DOMAIN BINARY_MUTATIONS
    PROVE  /\ BINARY_MUTATIONS[op] \subseteq Mutators
           /\ "AssignConst" \notin BINARY_MUTATIONS[op]
           /\ "RemoveVoidCall" \notin BINARY_MUTATIONS[op]
           /\ "NeToEq" \notin BINARY_MUTATIONS[op]
<1>1. op \in {"plus", "and", "less"}
  BY DEF BINARY_MUTATIONS
<1>2. BINARY_MUTATIONS[op] \subseteq Mutators
  BY DEF Mutators, OperatorMutators
<1>3. CASE op = "plus"
  BY <1>2, <1>3 DEF BINARY_MUTATIONS
<1>4. CASE op = "and"
  BY <1>2, <1>4 DEF BINARY_MUTATIONS
<1>5. CASE op = "less"
  BY <1>2, <1>5 DEF BINARY_MUTATIONS
<1> QED
  BY <1>1, <1>3, <1>4, <1>5

(* What a node of a source is.                                             *)
LEMMA NodeType ==
    ASSUME tree \in Trees, NEW k \in DOMAIN tree
    PROVE  /\ tree[k] \in Nodes /\ DOMAIN tree = 1..Len(tree) /\ Len(tree) \in Nat
           /\ tree[k].at \in Places \ {0}
<1>1. tree \in Seq(Nodes)
  BY SwiftAssumption
<1>2. tree[k] \in Nodes /\ DOMAIN tree = 1..Len(tree) /\ Len(tree) \in Nat
  BY <1>1
<1>3. tree[k].at \in Nat \ {0}
  BY <1>2 DEF Nodes
<1>4. tree[k].at \in Places
  BY DEF Places
<1> QED
  BY <1>2, <1>3, <1>4

LEMMA MutationsType ==
    ASSUME NEW node \in Nodes
    PROVE  MutationsOf(node) \subseteq Mutators
<1>1. "AssignConst" \in Mutators /\ "RemoveVoidCall" \in Mutators
  BY DEF Mutators
<1>2. Operator(node) \subseteq Mutators
  BY OperatorMutations DEF Operator
<1> QED
  BY <1>1, <1>2 DEF MutationsOf, Call

LEMMA InitHolds == Init => IInv
<1> SUFFICES ASSUME Init PROVE IInv
  OBVIOUS
<1>1. Len(tree) \in Nat
  BY SwiftAssumption DEF Init
<1>2. TypeOK
  <2>1. filters \in IF enabled THEN {<<"runtime", "syntax">>, <<"syntax">>, <<>>}
                              ELSE {<<"runtime">>, <<>>}
    BY Zenon DEF Init
  <2>2. tree \in Trees /\ enabled \in BOOLEAN /\ readable \in BOOLEAN /\ storage = {}
    BY Zenon DEF Init
  <2>3. next \in 0..(Len(tree) + 1)
    <3>1. next = 0
      BY DEF Init
    <3> QED
      BY <1>1, <3>1
  <2>4. points \subseteq AllPoints
    BY Zenon DEF Init
  <2> QED
    BY <2>1, <2>2, <2>3, <2>4, Zenon DEF TypeOK
<1>3. IndexInv
  <2>1. \A k \in DOMAIN tree : ~(k < next)
    BY SwiftAssumption DEF Init
  <2>2. next = 0 /\ ~readable /\ storage = {}
    BY DEF Init
  <2>3. next \notin DOMAIN tree
    BY <2>2, SwiftAssumption DEF Init
  <2> QED
    BY <2>1, <2>2, <2>3 DEF IndexInv
<1>4. PointsInv
  BY DEF Init, PointsInv, RuntimeApplied, SyntaxApplied
<1> QED
  BY <1>2, <1>3, <1>4 DEF IInv

(* What the filters look at does not change with the source.               *)
LEMMA SameTree ==
    ASSUME tree' = tree
    PROVE  Places' = Places /\ AllPoints' = AllPoints
  BY DEF Places, AllPoints

(* Points not yet looked at in the index do not depend on it.              *)
LEMMA SamePoints ==
    ASSUME PointsInv, UNCHANGED <<tree, enabled, filters, points>>, ~SyntaxApplied
    PROVE  /\ RuntimeApplied' = RuntimeApplied /\ SyntaxApplied' = SyntaxApplied
           /\ points' = {p \in AllPoints' :
                  /\ RuntimeApplied' => ~RuntimeSkips(p)
                  /\ SyntaxApplied' => ~SyntaxSkips(p)'}
<1>1. RuntimeApplied' = RuntimeApplied /\ SyntaxApplied' = SyntaxApplied
  BY Zenon DEF RuntimeApplied, SyntaxApplied
<1>2. AllPoints' = AllPoints
  BY SameTree
<1>3. points = {p \in AllPoints : RuntimeApplied => ~RuntimeSkips(p)}
  BY DEF PointsInv
<1> HIDE DEF RuntimeApplied, SyntaxApplied, AllPoints, RuntimeSkips
<1> QED
  BY <1>1, <1>2, <1>3

LEMMA ParseSourceStep == IInv /\ ParseSource => IInv'
<1> SUFFICES ASSUME IInv, ParseSource PROVE IInv'
  OBVIOUS
<1> USE DEF IInv
<1>1. /\ enabled /\ next = 0 /\ UNCHANGED <<tree, enabled, storage, filters, points>>
      /\ \/ next' = 1 /\ readable' = TRUE
         \/ next' = Len(tree) + 1 /\ readable' = readable
  BY DEF ParseSource
<1>2. Len(tree) \in Nat /\ DOMAIN tree = 1..Len(tree)
  BY SwiftAssumption DEF TypeOK
<1>3. ~SyntaxApplied /\ ~RuntimeApplied
  <2>1. ~RuntimeApplied
    BY <1>1, <1>2 DEF PointsInv
  <2> QED
    BY <2>1, Zenon DEF RuntimeApplied, SyntaxApplied
<1>4. storage = {} /\ ~readable
  BY <1>1, <1>2 DEF IndexInv, TypeOK
<1>5. TypeOK'
  <2>1. next' \in 0..(Len(tree') + 1) /\ readable' \in BOOLEAN
    <3>1. tree' = tree /\ readable \in BOOLEAN
      BY <1>1 DEF TypeOK
    <3>2. CASE next' = 1 /\ readable' = TRUE
      BY <1>2, <3>1, <3>2
    <3>3. CASE next' = Len(tree) + 1 /\ readable' = readable
      BY <1>2, <3>1, <3>3
    <3> QED
      BY <1>1, <3>2, <3>3
  <2>2. Places' = Places /\ AllPoints' = AllPoints
    BY <1>1, SameTree
  <2> QED
    BY <1>1, <1>4, <2>1, <2>2 DEF TypeOK
<1>6. IndexInv'
  <2>1. \A k \in DOMAIN tree' : next' = 1 => ~(k < next')
    BY <1>1, <1>2
  <2>2. next' \in DOMAIN tree' => readable'
    BY <1>1, <1>2
  <2>3. storage' = {} /\ enabled' /\ next' # 0 /\ (readable' => next' = 1)
    BY <1>1, <1>2, <1>4
  <2> QED
    BY <2>1, <2>2, <2>3 DEF IndexInv
<1>7. PointsInv'
  BY <1>1, <1>3, SamePoints DEF PointsInv
<1> QED
  BY <1>5, <1>6, <1>7

LEMMA VisitPostStep == IInv /\ VisitPost => IInv'
<1> SUFFICES ASSUME IInv, VisitPost PROVE IInv'
  OBVIOUS
<1> USE DEF IInv
<1>1. /\ next \in DOMAIN tree /\ next' = next + 1
      /\ UNCHANGED <<tree, enabled, readable, filters, points>>
      /\ storage' = storage \cup {<<m, tree[next].at>> : m \in MutationsOf(tree[next])}
  BY DEF VisitPost, Save
<1>2. tree \in Trees /\ Len(tree) \in Nat /\ DOMAIN tree = 1..Len(tree)
  BY SwiftAssumption DEF TypeOK
<1>3. readable /\ enabled
  BY <1>1, <1>2 DEF IndexInv
<1>4. ~SyntaxApplied /\ ~RuntimeApplied
  <2>1. ~RuntimeApplied
    BY <1>1, <1>2, <1>3 DEF PointsInv
  <2> QED
    BY <2>1, Zenon DEF RuntimeApplied, SyntaxApplied
<1>5. TypeOK'
  <2>1. tree[next].at \in Places \ {0} /\ MutationsOf(tree[next]) \subseteq Mutators
    BY <1>1, <1>2, NodeType, MutationsType
  <2>2. Places' = Places /\ AllPoints' = AllPoints
    BY <1>1, SameTree
  <2>3. storage' \subseteq Mutators \X (Places' \ {0})
    BY <1>1, <2>1, <2>2 DEF TypeOK
  <2>4. next' \in 0..(Len(tree') + 1)
    BY <1>1, <1>2
  <2> QED
    BY <1>1, <1>3, <2>2, <2>3, <2>4 DEF TypeOK
<1>6. IndexInv'
  <2>1. ASSUME NEW e \in storage'
        PROVE  \E k \in DOMAIN tree' :
                  k < next' /\ e[1] \in MutationsOf(tree'[k]) /\ e[2] = tree'[k].at
    <3>1. CASE e \in storage
      BY <1>1, <1>2, <3>1 DEF IndexInv
    <3>2. CASE e \in {<<m, tree[next].at>> : m \in MutationsOf(tree[next])}
      BY <1>1, <1>2, <3>2
    <3> QED
      BY <1>1, <2>1, <3>1, <3>2
  <2>2. ASSUME NEW k \in DOMAIN tree', k < next', NEW m \in MutationsOf(tree'[k])
        PROVE  <<m, tree'[k].at>> \in storage'
    <3>1. CASE k < next
      BY <1>1, <1>3, <2>2, <3>1 DEF IndexInv
    <3>2. CASE k = next
      BY <1>1, <2>2, <3>2
    <3> QED
      BY <1>1, <1>2, <2>2, <3>1, <3>2
  <2>3. next' # 0 /\ enabled' /\ readable'
    BY <1>1, <1>2, <1>3
  <2> QED
    BY <2>1, <2>2, <2>3 DEF IndexInv
<1>7. PointsInv'
  BY <1>1, <1>4, SamePoints DEF PointsInv
<1> QED
  BY <1>5, <1>6, <1>7

LEMMA ApplyFilterStep == IInv /\ ApplyFilter => IInv'
<1> SUFFICES ASSUME IInv, ApplyFilter PROVE IInv'
  OBVIOUS
<1> USE DEF IInv
<1>1. /\ UNCHANGED <<tree, enabled, next, storage, readable>>
      /\ enabled => next = Len(tree) + 1
      /\ filters # <<>> /\ filters' = Tail(filters)
      /\ points' = {p \in points :
            IF Head(filters) = "runtime" THEN ~RuntimeSkips(p) ELSE ~SyntaxSkips(p)}
  BY DEF ApplyFilter
<1>2. Places' = Places /\ AllPoints' = AllPoints
  BY <1>1, SameTree
<1>3. IndexInv'
  BY <1>1 DEF IndexInv
<1>4. \/ enabled /\ filters = <<"runtime", "syntax">>
      \/ enabled /\ filters = <<"syntax">>
      \/ ~enabled /\ filters = <<"runtime">>
  BY <1>1 DEF TypeOK
<1>5. ASSUME filters' \in IF enabled THEN {<<"syntax">>, <<>>} ELSE {<<>>},
             points' = {p \in AllPoints :
                /\ RuntimeApplied' => ~RuntimeSkips(p)
                /\ SyntaxApplied' => ~SyntaxSkips(p)}
      PROVE  IInv'
  <2>1. TypeOK'
    BY <1>1, <1>2, <1>5 DEF TypeOK
  <2>2. PointsInv'
    BY <1>1, <1>2, <1>5 DEF PointsInv, SyntaxSkips
  <2> QED
    BY <1>3, <2>1, <2>2
<1>6. CASE enabled /\ filters = <<"runtime", "syntax">>
  <2>1. filters' = <<"syntax">> /\ Head(filters) = "runtime"
    BY <1>1, <1>6
  <2>2. ~RuntimeApplied /\ ~SyntaxApplied /\ RuntimeApplied' /\ ~SyntaxApplied'
    BY <1>6, <2>1 DEF RuntimeApplied, SyntaxApplied
  <2>3. points' = {p \in AllPoints : ~RuntimeSkips(p)}
    BY <1>1, <2>1, <2>2 DEF PointsInv
  <2> QED
    BY <1>5, <1>6, <2>1, <2>2, <2>3
<1>7. CASE enabled /\ filters = <<"syntax">>
  <2>1. filters' = <<>> /\ Head(filters) = "syntax"
    BY <1>1, <1>7
  <2>2. RuntimeApplied /\ ~SyntaxApplied /\ RuntimeApplied' /\ SyntaxApplied'
    BY <1>1, <1>7, <2>1 DEF RuntimeApplied, SyntaxApplied
  <2>3. points' = {p \in AllPoints : ~RuntimeSkips(p) /\ ~SyntaxSkips(p)}
    BY <1>1, <2>1, <2>2 DEF PointsInv
  <2> QED
    BY <1>5, <1>7, <2>1, <2>2, <2>3
<1>8. CASE ~enabled /\ filters = <<"runtime">>
  <2>1. filters' = <<>> /\ Head(filters) = "runtime"
    BY <1>1, <1>8
  <2>2. ~RuntimeApplied /\ ~SyntaxApplied /\ RuntimeApplied' /\ ~SyntaxApplied'
    BY <1>1, <1>8, <2>1 DEF RuntimeApplied, SyntaxApplied
  <2>3. points' = {p \in AllPoints : ~RuntimeSkips(p)}
    BY <1>1, <2>1, <2>2 DEF PointsInv
  <2> QED
    BY <1>5, <1>8, <2>1, <2>2, <2>3
<1> QED
  BY <1>4, <1>6, <1>7, <1>8

LEMMA StutteringStep == IInv /\ UNCHANGED vars => IInv'
<1> SUFFICES ASSUME IInv, UNCHANGED vars PROVE IInv'
  OBVIOUS
<1>1. Places' = Places /\ AllPoints' = AllPoints
  BY SameTree DEF vars
<1> QED
  BY <1>1 DEF IInv, TypeOK, IndexInv, PointsInv, RuntimeApplied, SyntaxApplied, SyntaxSkips, vars

(* The inductive invariant of the index and the filters holds in every     *)
(* reachable state, for every source.                                      *)
THEOREM Invariance == Spec => []IInv
<1>1. IInv /\ [Next]_vars => IInv'
  BY ParseSourceStep, VisitPostStep, ApplyFilterStep, StutteringStep DEF Next, Terminated
<1> QED
  BY InitHolds, <1>1, PTL DEF Spec

(* The walk stays in the tree, and a source that could not be read has an  *)
(* empty index.                                                            *)
THEOREM TypeCorrectness == Spec => []TypeOK
  BY Invariance, PTL DEF IInv

(* A place in the index is that of a node with the mutation.               *)
LEMMA Indexed ==
    ASSUME IInv, NEW p \in AllPoints, ~SyntaxSkips(p)
    PROVE  \E k \in DOMAIN tree :
              p.mutator \in MutationsOf(tree[k]) /\ p.at = tree[k].at
  BY DEF IInv, IndexInv, SyntaxSkips

(* Which nodes have which mutations.                                       *)
LEMMA Mutations ==
    ASSUME tree \in Trees, NEW k \in DOMAIN tree, NEW m
    PROVE  m \in MutationsOf(tree[k]) <=>
              \/ m = "AssignConst" /\ tree[k].kind = "assignment"
              \/ m = "RemoveVoidCall" /\ tree[k].kind = "call"
                    /\ tree[k].context \in {"statement", "result"} /\ tree[k].count # 1
              \/ tree[k].kind = "spacedOperator" /\ tree[k].parent = "binaryOperatorExpr"
                    /\ tree[k].op \in DOMAIN BINARY_MUTATIONS /\ m \in BINARY_MUTATIONS[tree[k].op]
<1>1. tree[k] \in Nodes
  BY NodeType
<1>2. tree[k].kind = "call" =>
         (tree[k].context \in {"statement", "result"} <=> tree[k].parent = "codeBlockItem")
  BY <1>1, SwiftAssumption DEF Nodes
<1>3. CASE tree[k].kind = "assignment"
  BY <1>3 DEF MutationsOf
<1>4. CASE tree[k].kind = "call"
  BY <1>2, <1>4 DEF MutationsOf, Call
<1>5. CASE tree[k].kind = "spacedOperator"
  BY <1>5 DEF MutationsOf, Operator
<1>6. CASE tree[k].kind = "unspacedOperator"
  BY <1>6 DEF MutationsOf
<1> QED
  BY <1>1, <1>3, <1>4, <1>5, <1>6 DEF Nodes

(* What survives was written by the author of the source, and removes no   *)
(* call of the runtime and none whose value is used, except one of several *)
(* in a result builder.                                                    *)
THEOREM SurvivorsWritten == Spec => []SurvivorsAreWritten
<1>1. IInv => SurvivorsAreWritten
  <2> SUFFICES ASSUME IInv, filters = <<>>, NEW p \in points
               PROVE  /\ enabled =>
                          CASE p.mutator = "RemoveVoidCall" ->
                                  WrittenAt(p.at, LAMBDA n : n.kind = "call" /\ LooksUnused(n))
                            [] p.mutator = "AssignConst" ->
                                  WrittenAt(p.at, LAMBDA n : n.kind = "assignment")
                            [] OTHER ->
                                  WrittenAt(p.at, LAMBDA n : n.kind = "spacedOperator"
                                      /\ n.op \in DOMAIN BINARY_MUTATIONS
                                      /\ p.mutator \in BINARY_MUTATIONS[n.op])
                      /\ p.mutator = "RemoveVoidCall" =>
                          p.callee \in (UserSwift \ Unrecoverable) \cup {NoCallee}
    BY DEF SurvivorsAreWritten
  <2>1. p \in AllPoints /\ ~RuntimeSkips(p) /\ (enabled => ~SyntaxSkips(p))
    BY DEF IInv, PointsInv, RuntimeApplied, SyntaxApplied
  <2>2. p.mutator = "RemoveVoidCall" =>
            p.callee \in (UserSwift \ Unrecoverable) \cup {NoCallee}
    BY <2>1 DEF RuntimeSkips
  <2>3. ASSUME enabled
        PROVE  CASE p.mutator = "RemoveVoidCall" ->
                      WrittenAt(p.at, LAMBDA n : n.kind = "call" /\ LooksUnused(n))
                 [] p.mutator = "AssignConst" ->
                      WrittenAt(p.at, LAMBDA n : n.kind = "assignment")
                 [] OTHER ->
                      WrittenAt(p.at, LAMBDA n : n.kind = "spacedOperator"
                          /\ n.op \in DOMAIN BINARY_MUTATIONS
                          /\ p.mutator \in BINARY_MUTATIONS[n.op])
    <3>1. PICK k \in DOMAIN tree :
              p.mutator \in MutationsOf(tree[k]) /\ p.at = tree[k].at
      BY <2>1, <2>3, Indexed
    <3>2. \/ p.mutator = "AssignConst" /\ tree[k].kind = "assignment"
          \/ p.mutator = "RemoveVoidCall" /\ tree[k].kind = "call" /\ LooksUnused(tree[k])
          \/ /\ tree[k].kind = "spacedOperator" /\ tree[k].op \in DOMAIN BINARY_MUTATIONS
             /\ p.mutator \in BINARY_MUTATIONS[tree[k].op]
             /\ p.mutator # "AssignConst" /\ p.mutator # "RemoveVoidCall"
      <4>1. tree \in Trees
        BY DEF IInv, TypeOK
      <4>2. CASE p.mutator = "RemoveVoidCall"
        <5>1. tree[k].kind = "call" /\ tree[k].context \in {"statement", "result"}
              /\ tree[k].count # 1
          BY <3>1, <4>1, <4>2, Mutations, OperatorMutations
        <5>2. tree[k].count \in Nat \ {0}
          BY <4>1, <5>1, NodeType, SwiftAssumption DEF Nodes
        <5> QED
          BY <4>2, <5>1, <5>2 DEF LooksUnused
      <4>3. CASE p.mutator # "RemoveVoidCall"
        BY <3>1, <4>1, <4>3, Mutations, OperatorMutations
      <4> QED
        BY <4>2, <4>3
    <3> HIDE DEF BINARY_MUTATIONS
    <3> QED
      BY <3>1, <3>2 DEF WrittenAt
  <2> QED
    BY <2>2, <2>3
<1> QED
  BY Invariance, <1>1, PTL

(* A mutant that does not survive is one of the runtime, or the visitor    *)
(* has found nothing there: no statement among others, no assignment and   *)
(* no operator between spaces.                                             *)
THEOREM NothingLost == Spec => []NothingElseIsLost
<1>1. IInv => NothingElseIsLost
  <2> SUFFICES ASSUME IInv, filters = <<>>, enabled => readable, NEW p \in AllPoints \ points,
                      ~RuntimeSkips(p)
               PROVE  /\ enabled
                      /\ ~WrittenAt(p.at, LAMBDA n :
                           \/ n.kind = "assignment" /\ p.mutator = "AssignConst"
                           \/ n.kind = "call" /\ n.context = "statement" /\ n.count # 1
                                 /\ p.mutator = "RemoveVoidCall"
                           \/ n.kind = "spacedOperator" /\ n.parent = "binaryOperatorExpr"
                                 /\ n.op \in DOMAIN BINARY_MUTATIONS
                                 /\ p.mutator \in BINARY_MUTATIONS[n.op])
    BY DEF NothingElseIsLost, RuntimeSkips
  <2>1. enabled /\ SyntaxSkips(p)
    BY DEF IInv, PointsInv, SyntaxApplied
  <2>2. ASSUME NEW k \in DOMAIN tree, tree[k].at = p.at
        PROVE  p.mutator \notin MutationsOf(tree[k])
    <3>1. tree \in Trees /\ next = Len(tree) + 1
      BY <2>1 DEF IInv, TypeOK, PointsInv, RuntimeApplied
    <3>2. k < next
      BY <3>1, NodeType
    <3> QED
      BY <2>1, <2>2, <3>2 DEF IInv, IndexInv, SyntaxSkips
  <2>3. tree \in Trees
    BY DEF IInv, TypeOK
  <2>4. ASSUME NEW k \in DOMAIN tree, tree[k].at = p.at
        PROVE  ~(\/ tree[k].kind = "assignment" /\ p.mutator = "AssignConst"
                 \/ tree[k].kind = "call" /\ tree[k].context = "statement" /\ tree[k].count # 1
                       /\ p.mutator = "RemoveVoidCall"
                 \/ tree[k].kind = "spacedOperator" /\ tree[k].parent = "binaryOperatorExpr"
                       /\ tree[k].op \in DOMAIN BINARY_MUTATIONS
                       /\ p.mutator \in BINARY_MUTATIONS[tree[k].op])
    BY <2>2, <2>3, <2>4, Mutations
  <2> QED
    BY <2>1, <2>4 DEF WrittenAt
<1> QED
  BY Invariance, <1>1, PTL
=============================================================================
