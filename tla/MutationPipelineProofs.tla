------------------------ MODULE MutationPipelineProofs ------------------------
(***************************************************************************)
(* Theorems about MutationPipeline, for every list of input objects, every *)
(* number of workers and of filters.  The invariant is built in layers:    *)
(* the executor and the types; the order in which modules are loaded; the  *)
(* phases of the modules; which mutation points survive; and the order of  *)
(* the output.                                                             *)
(***************************************************************************)
EXTENDS MutationPipeline, InductionLemmas

(* What the stages store.                                                  *)
LinkedObject == [object : Object, compiled : BOOLEAN, mutants : SUBSET Point]
ResultType ==
    IF pc = "functionFilter" THEN Function
    ELSE IF pc = "mutationFilter" THEN Point
    ELSE IF pc = "index" THEN SUBSET Point
    ELSE IF pc = "compile" THEN LinkedObject
    ELSE {}

(* The executor works on a partition of its items, from the front of each  *)
(* batch to its end.                                                       *)
ExecutorInv ==
    /\ running => /\ pc \in Parallel
                  /\ cuts \in Batches
                  /\ \A w \in Worker : cuts[w-1] <= at[w]
                  /\ stored \in [Worker -> Seq(ResultType)]
    /\ pc \in Modifying => i \in 1..5 /\ pc = ApplyStages[i]
    /\ i > 0

TInv == TypeOK /\ ExecutorInv

-----------------------------------------------------------------------------
(* The program under mutation.                                             *)

(* The stages of applyMutation().                                          *)
LEMMA ApplyStagesFacts ==
    /\ Len(ApplyStages) = 5 /\ Range(ApplyStages) = Modifying
    /\ ApplyStages[1] = "clone" /\ ApplyStages[2] = "delete" /\ ApplyStages[3] = "redirect"
    /\ ApplyStages[4] = "apply" /\ ApplyStages[5] = "compile"
<1>1. /\ DOMAIN ApplyStages = 1..5 /\ Len(ApplyStages) = 5
      /\ ApplyStages[1] = "clone" /\ ApplyStages[2] = "delete" /\ ApplyStages[3] = "redirect"
      /\ ApplyStages[4] = "apply" /\ ApplyStages[5] = "compile"
  BY DEF ApplyStages
<1>2. 1..5 = {1, 2, 3, 4, 5}
  OBVIOUS
<1> HIDE DEF ApplyStages
<1> QED
  BY <1>1, <1>2 DEF Range, Modifying

LEMMA StageNames == Parallel = {"functionFilter", "mutationFilter", "select", "index",
                                "clone", "delete", "redirect", "apply", "compile"}
  BY ApplyStagesFacts DEF Parallel, FilterStages, Modifying

(* Objects, functions and points.                                          *)
LEMMA ProgramFacts ==
    ASSUME inputObjects \in Programs
    PROVE  /\ Len(inputObjects) \in Nat /\ Object = 1..Len(inputObjects)
           /\ inputObjects \in Seq([kind : Kinds, functions : Seq(Nat)])
           /\ \A o \in Object : /\ o \in Nat
                                /\ inputObjects[o].kind \in Kinds
                                /\ inputObjects[o].functions \in Seq(Nat)
           /\ Workers \in Nat /\ Workers # 0 /\ Worker = 1..Workers
<1>1. /\ inputObjects \in Seq([kind : Kinds, functions : Seq(Nat)])
      /\ Workers \in Nat /\ Workers # 0
  BY PipelineAssumption
<1>2. Len(inputObjects) \in Nat /\ Object = 1..Len(inputObjects)
  BY <1>1 DEF Object
<1>3. ASSUME NEW o \in Object
      PROVE  /\ o \in Nat /\ inputObjects[o].kind \in Kinds
             /\ inputObjects[o].functions \in Seq(Nat)
  <2> DEFINE Record == [kind : Kinds, functions : Seq(Nat)]
  <2>1. inputObjects[o] \in Record
    <3> HIDE DEF Record
    <3>1. inputObjects \in Seq(Record) /\ o \in 1..Len(inputObjects)
      BY <1>1, <1>2 DEF Record
    <3> QED
      BY <3>1, ElementOfSeq
  <2> QED
    BY <1>2, <2>1
<1> QED
  BY <1>1, <1>2, <1>3 DEF Worker

LEMMA FunctionFacts ==
    ASSUME inputObjects \in Programs
    PROVE  /\ \A fn \in Function : /\ fn[1] \in Object /\ fn = <<fn[1], fn[2]>>
                                   /\ fn[2] \in DOMAIN inputObjects[fn[1]].functions
           /\ \A o \in Object : \A f \in DOMAIN inputObjects[o].functions : <<o, f>> \in Function
  BY DEF Function

LEMMA PointFacts ==
    ASSUME inputObjects \in Programs
    PROVE  /\ \A fn \in Function : PointsOf(fn) \subseteq Point
           /\ \A fn \in Function : \A q \in PointsOf(fn) : fn = <<q[1], q[2]>> /\ q[1] = fn[1]
           /\ \A q \in Point : \E fn \in Function : q \in PointsOf(fn)
           /\ \A q \in Point : q[1] \in Object /\ q \in PointsIn(q[1])
<1>1. \A fn \in Function : fn = <<fn[1], fn[2]>> /\ fn[1] \in Object
  BY FunctionFacts
<1>2. \A fn : \A q \in PointsOf(fn) : q[1] = fn[1] /\ q[2] = fn[2]
  BY DEF PointsOf
<1>3. \A fn \in Function : PointsOf(fn) \subseteq Point
  BY DEF Point
<1>4. \A q \in Point : \E fn \in Function : q \in PointsOf(fn)
  BY DEF Point
<1>5. \A fn \in Function : \A q \in PointsOf(fn) : fn = <<q[1], q[2]>> /\ q[1] = fn[1]
  BY <1>1, <1>2
<1>6. \A q \in Point : q[1] \in Object
  BY <1>1, <1>4, <1>5
<1> QED
  BY <1>3, <1>4, <1>5, <1>6 DEF PointsIn

(* The program never changes.                                              *)
LEMMA Fixed ==
    ASSUME UNCHANGED config
    PROVE  /\ inputObjects' = inputObjects /\ syntax' = syntax
           /\ Object' = Object /\ Function' = Function /\ Point' = Point
           /\ LinkedObject' = LinkedObject
<1>1. inputObjects' = inputObjects /\ syntax' = syntax
  BY DEF config
<1>2. Object' = Object
  BY <1>1 DEF Object
<1>3. Function' = Function
  BY <1>1, <1>2 DEF Function
<1>4. Point' = Point
  BY <1>1, <1>3 DEF Point, PointsOf
<1> QED
  BY <1>1, <1>2, <1>3, <1>4 DEF LinkedObject

-----------------------------------------------------------------------------
(* The executor of a stage.                                                *)

(* What the stages map over.                                               *)
LEMMA ItemsFacts ==
    ASSUME TypeOK
    PROVE  /\ Sources \in Seq({<<o>> : o \in Object})
           /\ pc \in {"functionFilter", "select"} => Items = functions /\ Items \in Seq(Function)
           /\ pc \in {"mutationFilter", "apply"} => Items = points /\ Items \in Seq(Point)
           /\ pc = "index" => Items = Sources /\ Items \in Seq({<<o>> : o \in Object})
           /\ pc \in {"clone", "delete", "redirect", "compile"} =>
                 Items = bitcode /\ Items \in Seq({<<o>> : o \in Object})
           /\ Len(Items) \in Nat /\ DOMAIN Items = 1..Len(Items)
<1>1. /\ bitcode \in Seq({<<o>> : o \in Object})
      /\ functions \in Seq(Function) /\ points \in Seq(Point)
  BY DEF TypeOK
<1>2. Sources \in Seq({<<o>> : o \in Object})
  BY <1>1, KeepFacts DEF Sources
<1>3. \/ Items = functions \/ Items = points \/ Items = Sources \/ Items = bitcode
  BY DEF Items
<1>4. Len(Items) \in Nat /\ DOMAIN Items = 1..Len(Items)
  BY <1>1, <1>2, <1>3
<1> QED
  BY <1>1, <1>2, <1>4 DEF Items

(* The batches are consecutive and cover all items.                        *)
LEMMA BatchFacts ==
    ASSUME inputObjects \in Programs, Len(Items) \in Nat, NEW c \in Batches
    PROVE  /\ c \in [0..Workers -> Nat] /\ c[0] = 0 /\ c[Workers] = Len(Items)
           /\ \A w \in Worker : /\ w - 1 \in 0..Workers /\ w \in 0..Workers
                                 /\ c[w-1] \in Nat /\ c[w] \in Nat
                                 /\ c[w-1] <= c[w] /\ c[w] <= Len(Items)
           /\ \A v, w \in Worker : v < w => c[v] <= c[w-1]
           /\ pc = "apply" => \A w \in Worker : w # 1 => c[w-1] = c[w]
<1> DEFINE n == Len(Items)
           e == IF n = 0 \/ Tasks < n THEN Tasks ELSE n
<1>0. Workers \in Nat /\ Workers # 0 /\ Worker = 1..Workers /\ n \in Nat
  BY ProgramFacts
<1>1. /\ c \in [0..Workers -> 0..n] /\ c[0] = 0
      /\ \A w \in Worker : c[w-1] <= c[w]
      /\ c[e] = n
  BY DEF Batches
<1>2. Tasks \in 1..Workers /\ (pc = "apply" => Tasks = 1)
  BY <1>0 DEF Tasks
<1>3. e \in 0..Workers /\ (pc = "apply" => e <= 1)
  BY <1>0, <1>2
<1> HIDE DEF n
<1>4. c \in [0..Workers -> Nat] /\ \A w \in 0..Workers : c[w] \in Nat /\ c[w] <= n
  BY <1>0, <1>1
<1>5. \A v, w \in 0..Workers : v <= w => c[v] <= c[w]
  <2>1. \A w \in 1..Workers : c[w-1] <= c[w]
    BY <1>0, <1>1
  <2> QED
    BY <1>0, <1>4, <2>1, Monotone
<1> HIDE DEF e
<1>6. \A w \in 0..Workers : e <= w => c[w] = n
  <2> SUFFICES ASSUME NEW w \in 0..Workers, e <= w PROVE c[w] = n
    OBVIOUS
  <2>1. c[e] <= c[w] /\ c[w] <= n /\ c[w] \in Nat
    BY <1>3, <1>4, <1>5
  <2> QED
    BY <1>0, <1>1, <2>1
<1>7. c[Workers] = n
  BY <1>0, <1>3, <1>6
<1>8. \A w \in Worker : w - 1 \in 0..Workers /\ w \in 0..Workers
  BY <1>0
<1>9. \A v, w \in Worker : v < w => v <= w - 1
  BY <1>0
<1>10. ASSUME pc = "apply", NEW w \in Worker, w # 1 PROVE c[w-1] = c[w]
  <2>1. e <= 1 /\ e \in Nat
    BY <1>3, <1>10
  <2>2. e <= w - 1 /\ e <= w
    BY <1>0, <1>10, <2>1
  <2> QED
    BY <1>6, <1>8, <2>2
<1> QED
  BY <1>1, <1>4, <1>5, <1>7, <1>8, <1>9, <1>10 DEF n

-----------------------------------------------------------------------------
(* The types.                                                              *)

Stages == Parallel \cup {"extract", "search", "filtered", "done"}
ModuleState == [phase : {"original", "clone", "delete", "redirect"},
                added : SUBSET Point, mutants : SUBSET Point]

ProgramType == inputObjects \in Programs /\ syntax \in BOOLEAN
ControlType == pc \in Stages /\ i \in Nat
OutputType == output \in Seq(LinkedObject) /\ bitcode \in Seq({<<o>> : o \in Object})
ListType ==
    /\ functions \in Seq(Function) /\ points \in Seq(Point)
    /\ selected \in SUBSET Point /\ astStorage \in SUBSET Point
    /\ mutationFilters \in Seq({"configured", "runtime", "syntax"})
ModuleType == modules \in [Object -> ModuleState]
WorkerType ==
    /\ running \in BOOLEAN
    /\ cuts \in [0..Workers -> Nat]
    /\ at \in [Worker -> Nat] /\ busy \in [Worker -> BOOLEAN]
    /\ \A w \in Worker : at[w] <= cuts[w] /\ (busy[w] => running /\ at[w] < cuts[w])
RejectedType == rejected \in SUBSET Point

LEMMA TypeParts ==
    /\ TypeOK <=> /\ ProgramType /\ ControlType /\ OutputType /\ ListType
                  /\ ModuleType /\ WorkerType /\ RejectedType
    /\ TypeOK' <=> /\ ProgramType' /\ ControlType' /\ OutputType' /\ ListType'
                   /\ ModuleType' /\ WorkerType' /\ RejectedType'
  BY DEF TypeOK, ProgramType, ControlType, OutputType, ListType, ModuleType, WorkerType,
         RejectedType, Stages, LinkedObject, ModuleState

(* What an action leaves alone keeps its type.                             *)
LEMMA SameTypes ==
    ASSUME TypeOK, UNCHANGED config
    PROVE  /\ ProgramType'
           /\ UNCHANGED <<pc, i>> => ControlType'
           /\ UNCHANGED <<output, bitcode>> => OutputType'
           /\ UNCHANGED lists => ListType'
           /\ UNCHANGED modules => ModuleType'
           /\ UNCHANGED <<running, cuts, at, busy>> => WorkerType'
           /\ UNCHANGED rejected => RejectedType'
<1>1. /\ ProgramType /\ ControlType /\ OutputType /\ ListType
      /\ ModuleType /\ WorkerType /\ RejectedType
  BY TypeParts
<1>2. /\ inputObjects' = inputObjects /\ syntax' = syntax
      /\ Object' = Object /\ Function' = Function /\ Point' = Point
      /\ LinkedObject' = LinkedObject
  BY Fixed
<1>3. ProgramType'
  BY <1>1, <1>2 DEF ProgramType
<1>4. UNCHANGED <<pc, i>> => ControlType'
  BY <1>1 DEF ControlType, Stages, Parallel, FilterStages, ApplyStages
<1>5. UNCHANGED <<output, bitcode>> => OutputType'
  BY <1>1, <1>2 DEF OutputType
<1>6. UNCHANGED lists => ListType'
  BY <1>1, <1>2 DEF ListType, lists
<1>7. UNCHANGED modules => ModuleType'
  BY <1>1, <1>2 DEF ModuleType, ModuleState
<1>8. UNCHANGED <<running, cuts, at, busy>> => WorkerType'
  BY <1>1 DEF WorkerType, Worker
<1>9. UNCHANGED rejected => RejectedType'
  BY <1>1, <1>2 DEF RejectedType
<1> QED
  BY <1>3, <1>4, <1>5, <1>6, <1>7, <1>8, <1>9

(* The types hold at the start.                                            *)
LEMMA TInvInit == Init => TInv
<1> SUFFICES ASSUME Init PROVE TInv
  OBVIOUS
<1>1. inputObjects \in Programs /\ syntax \in BOOLEAN
  BY DEF Init
<1>2. Workers \in Nat /\ Workers # 0 /\ Worker = 1..Workers /\ MutationFilters \in Nat
  BY <1>1, ProgramFacts, PipelineAssumption
<1>3. ProgramType /\ ControlType /\ OutputType /\ RejectedType
  BY <1>1 DEF Init, ProgramType, ControlType, OutputType, RejectedType, Stages
<1>4. ListType
  <2>1. mutationFilters \in Seq({"configured", "runtime", "syntax"})
    BY <1>2 DEF Init
  <2> QED
    BY <2>1 DEF Init, ListType
<1>5. ModuleType
  BY DEF Init, ModuleType, ModuleState
<1>6. WorkerType
  <2>1. \A w \in Worker : w \in 0..Workers
    BY <1>2
  <2>2. /\ running = FALSE /\ cuts = [w \in 0..Workers |-> 0]
        /\ at = [w \in Worker |-> 0] /\ busy = [w \in Worker |-> FALSE]
    BY DEF Init
  <2>3. cuts \in [0..Workers -> Nat] /\ at \in [Worker -> Nat] /\ busy \in [Worker -> BOOLEAN]
    BY <2>2
  <2>4. \A w \in Worker : at[w] <= cuts[w] /\ ~busy[w]
    BY <2>1, <2>2
  <2> QED
    BY <2>2, <2>3, <2>4 DEF WorkerType
<1>7. ExecutorInv
  BY DEF Init, ExecutorInv, Modifying
<1> QED
  BY <1>3, <1>4, <1>5, <1>6, <1>7, TypeParts DEF TInv

(* A worker with an item left takes it from its own batch.                 *)
LEMMA OwnItem ==
    ASSUME TInv, running, NEW w \in Worker, at[w] < cuts[w]
    PROVE  /\ at[w] \in Nat /\ cuts[w-1] \in Nat /\ cuts[w] \in Nat
           /\ cuts[w-1] < at[w] + 1 /\ at[w] + 1 <= cuts[w]
           /\ at[w] + 1 \in DOMAIN Items
<1>1. /\ TypeOK /\ inputObjects \in Programs /\ cuts \in Batches /\ cuts[w-1] <= at[w]
      /\ at[w] \in Nat
  BY DEF TInv, ExecutorInv, TypeOK
<1>2. /\ Len(Items) \in Nat /\ DOMAIN Items = 1..Len(Items)
  BY <1>1, ItemsFacts
<1>3. cuts[w-1] \in Nat /\ cuts[w] \in Nat /\ cuts[w] <= Len(Items)
  BY <1>1, <1>2, BatchFacts
<1> QED
  BY <1>1, <1>2, <1>3

(* What a worker that finishes an item leaves alone.                       *)
LEMMA ItemDoneFacts ==
    ASSUME TInv, NEW w \in Worker, ItemDone(w)
    PROVE  /\ UNCHANGED config /\ running /\ running' /\ pc' = pc /\ cuts' = cuts
           /\ functions' = functions /\ points' = points /\ bitcode' = bitcode /\ output' = output
           /\ mutationFilters' = mutationFilters /\ i' = i
           /\ Items' = Items /\ Batches' = Batches
           /\ at \in [Worker -> Nat] /\ at[w] < cuts[w] /\ at' = [at EXCEPT ![w] = at[w] + 1]
           /\ ProgramType' /\ ControlType' /\ OutputType' /\ WorkerType'
           /\ at[w] + 1 \in DOMAIN Items /\ Item(w) = Items[at[w] + 1]
<1>1. TypeOK /\ WorkerType /\ ExecutorInv
  BY TypeParts DEF TInv
<1>2. /\ UNCHANGED config /\ running /\ running' /\ pc' = pc /\ i' = i /\ cuts' = cuts
      /\ functions' = functions /\ points' = points /\ bitcode' = bitcode /\ output' = output
      /\ mutationFilters' = mutationFilters
      /\ busy[w] /\ busy' = [busy EXCEPT ![w] = FALSE] /\ at' = [at EXCEPT ![w] = at[w] + 1]
      /\ running' = running
  BY DEF ItemDone
<1>3. Items' = Items
  BY <1>2 DEF Items, Sources
<1>4. Batches' = Batches
  BY <1>2, <1>3 DEF Batches, Tasks
<1>5. at \in [Worker -> Nat] /\ at[w] < cuts[w] /\ cuts[w] \in Nat /\ cuts \in [0..Workers -> Nat]
  <2>1. w \in 0..Workers
    BY <1>1, ProgramFacts DEF TypeOK
  <2> QED
    BY <1>1, <1>2, <2>1 DEF WorkerType
<1>6. WorkerType'
  <2>1. at[w] + 1 \in Nat /\ at[w] + 1 <= cuts[w]
    BY <1>5
  <2>2. \A v \in Worker : /\ at'[v] = (IF v = w THEN at[w] + 1 ELSE at[v])
                          /\ busy'[v] = (IF v = w THEN FALSE ELSE busy[v])
    BY <1>1, <1>2, <1>5 DEF WorkerType
  <2>3. at' \in [Worker -> Nat] /\ busy' \in [Worker -> BOOLEAN]
    BY <1>1, <1>2, <2>1 DEF WorkerType
  <2>4. \A v \in Worker : at'[v] <= cuts[v] /\ (busy'[v] => running /\ at'[v] < cuts[v])
    BY <1>1, <1>2, <2>1, <2>2 DEF WorkerType
  <2> QED
    BY <1>1, <1>2, <2>3, <2>4 DEF WorkerType, Worker
<1>7. ProgramType' /\ ControlType' /\ OutputType'
  BY <1>1, <1>2, SameTypes
<1>8. at[w] + 1 \in DOMAIN Items
  BY <1>2, <1>5, OwnItem
<1> QED
  BY <1>2, <1>3, <1>4, <1>5, <1>6, <1>7, <1>8 DEF Item

(* A stage goes on; its workers store results of its type.                 *)
LEMMA ItemDoneInv ==
    ASSUME TInv, NEW w \in Worker, ItemDone(w),
           stored' \in [Worker -> Seq(ResultType)]
    PROVE  ExecutorInv'
<1>1. /\ UNCHANGED config /\ running /\ pc' = pc /\ i' = i /\ cuts' = cuts /\ Batches' = Batches
      /\ at \in [Worker -> Nat] /\ at' = [at EXCEPT ![w] = at[w] + 1]
  BY ItemDoneFacts
<1>2. /\ pc \in Parallel /\ cuts \in Batches /\ \A v \in Worker : cuts[v-1] <= at[v]
      /\ (pc \in Modifying => i \in 1..5 /\ pc = ApplyStages[i])
      /\ i > 0 /\ TypeOK
  BY <1>1 DEF TInv, ExecutorInv
<1>3. \A v \in Worker : cuts[v-1] \in Nat
  BY <1>2, ItemsFacts, BatchFacts DEF TypeOK
<1>4. \A v \in Worker : cuts[v-1] <= at'[v]
  BY <1>1, <1>2, <1>3
<1>5. ResultType' = ResultType
  BY <1>1, Fixed DEF ResultType
<1>6. Worker' = Worker /\ Parallel' = Parallel
  BY DEF Worker, Parallel
<1> QED
  BY <1>1, <1>2, <1>4, <1>5, <1>6 DEF ExecutorInv

(* An item's result is put after those the worker has stored.              *)
LEMMA StoredOneMore ==
    ASSUME TInv, running, NEW w \in Worker, NEW x \in ResultType
    PROVE  [stored EXCEPT ![w] = Append(stored[w], x)] \in [Worker -> Seq(ResultType)]
<1>1. stored \in [Worker -> Seq(ResultType)]
  BY DEF TInv, ExecutorInv
<1>2. Append(stored[w], x) \in Seq(ResultType)
  BY <1>1, AppendProperties
<1> QED
  BY <1>1, <1>2

LEMMA TakeItemStep == ASSUME TInv, NEW w \in Worker, TakeItem(w) PROVE TInv'
<1>1. /\ TypeOK /\ WorkerType /\ ExecutorInv /\ ModuleType /\ ListType /\ RejectedType
  BY TypeParts DEF TInv
<1>2. /\ UNCHANGED config /\ UNCHANGED <<pc, i>> /\ UNCHANGED <<output, bitcode>> /\ UNCHANGED lists
      /\ UNCHANGED modules /\ UNCHANGED rejected /\ UNCHANGED <<running, cuts, at, stored>>
      /\ running /\ at[w] < cuts[w] /\ busy' = [busy EXCEPT ![w] = TRUE]
  BY DEF TakeItem
<1>3. WorkerType'
  BY <1>1, <1>2 DEF WorkerType, Worker
<1>4. ExecutorInv'
  <2>1. Items' = Items
    BY <1>2 DEF Items, Sources, lists
  <2>2. Batches' = Batches
    BY <1>2, <2>1 DEF Batches, Tasks
  <2>3. ResultType' = ResultType
    BY <1>2, Fixed DEF ResultType
  <2>4. Worker' = Worker /\ Parallel' = Parallel
    BY DEF Worker, Parallel
  <2> QED
    BY <1>1, <1>2, <2>2, <2>3, <2>4 DEF ExecutorInv
<1> QED
  BY <1>1, <1>2, <1>3, <1>4, SameTypes, TypeParts DEF TInv

LEMMA FilterFunctionStep == ASSUME TInv, NEW w \in Worker, FilterFunction(w) PROVE TInv'
<1>1. ItemDone(w) /\ pc = "functionFilter" /\ TypeOK
  BY DEF FilterFunction, TInv
<1>2. Item(w) \in Function
  BY <1>1, ItemDoneFacts, ItemsFacts, ElementOfSeq
<1>3. PointsOf(Item(w)) \subseteq Point
  BY <1>1, <1>2, PointFacts DEF TypeOK
<1>4. UNCHANGED lists /\ UNCHANGED modules /\ UNCHANGED config
  BY <1>1 DEF FilterFunction, ItemDone, lists
<1>5. RejectedType'
  BY <1>1, <1>3, <1>4, Fixed, TypeParts DEF FilterFunction, RejectedType
<1>6. stored' \in [Worker -> Seq(ResultType)]
  <2>1. Item(w) \in ResultType /\ running /\ stored \in [Worker -> Seq(ResultType)]
    BY <1>1, <1>2, ItemDoneFacts DEF ResultType, TInv, ExecutorInv
  <2>2. stored' = stored \/ stored' = [stored EXCEPT ![w] = Append(stored[w], Item(w))]
    BY DEF FilterFunction
  <2> QED
    BY <2>1, <2>2, StoredOneMore
<1> QED
  BY <1>1, <1>4, <1>5, <1>6, ItemDoneFacts, ItemDoneInv, SameTypes, TypeParts DEF TInv

LEMMA SelectInstructionsStep == ASSUME TInv, NEW w \in Worker, SelectInstructions(w) PROVE TInv'
<1>1. ItemDone(w) /\ pc = "select" /\ TypeOK
  BY DEF SelectInstructions, TInv
<1>2. Item(w) \in Function
  BY <1>1, ItemDoneFacts, ItemsFacts, ElementOfSeq
<1>3. PointsOf(Item(w)) \subseteq Point
  BY <1>1, <1>2, PointFacts DEF TypeOK
<1>4. /\ UNCHANGED modules /\ UNCHANGED config /\ stored' = stored
      /\ UNCHANGED <<functions, points, mutationFilters, astStorage>>
  BY <1>1 DEF SelectInstructions, ItemDone
<1>5. PICK chosen \in SUBSET PointsOf(Item(w)) :
          selected' = selected \cup chosen /\ rejected' = rejected \cup (PointsOf(Item(w)) \ chosen)
  BY DEF SelectInstructions
<1>6. RejectedType' /\ ListType'
  BY <1>1, <1>3, <1>4, <1>5, Fixed, TypeParts DEF RejectedType, ListType
<1>7. stored' \in [Worker -> Seq(ResultType)]
  BY <1>1, <1>4, ItemDoneFacts DEF TInv, ExecutorInv
<1> QED
  BY <1>1, <1>4, <1>6, <1>7, ItemDoneFacts, ItemDoneInv, SameTypes, TypeParts DEF TInv

LEMMA IndexSourceStep == ASSUME TInv, NEW w \in Worker, IndexSource(w) PROVE TInv'
<1>1. ItemDone(w) /\ pc = "index" /\ TypeOK
  BY DEF IndexSource, TInv
<1>2. UNCHANGED lists /\ UNCHANGED modules /\ UNCHANGED config /\ UNCHANGED rejected
  BY <1>1 DEF IndexSource, ItemDone, lists
<1>3. PICK found \in SUBSET PointsIn(Item(w)[1]) : stored' = [stored EXCEPT ![w] = Append(stored[w], found)]
  BY DEF IndexSource
<1>4. found \in ResultType
  BY <1>1, <1>3 DEF ResultType, PointsIn
<1>5. stored' \in [Worker -> Seq(ResultType)]
  BY <1>1, <1>3, <1>4, ItemDoneFacts, StoredOneMore
<1> QED
  BY <1>1, <1>2, <1>5, ItemDoneFacts, ItemDoneInv, SameTypes, TypeParts DEF TInv

LEMMA FilterMutationStep == ASSUME TInv, NEW w \in Worker, FilterMutation(w) PROVE TInv'
<1>1. ItemDone(w) /\ pc = "mutationFilter" /\ TypeOK
  BY DEF FilterMutation, TInv
<1>2. Item(w) \in Point
  BY <1>1, ItemDoneFacts, ItemsFacts, ElementOfSeq
<1>3. UNCHANGED lists /\ UNCHANGED modules /\ UNCHANGED config
  BY <1>1 DEF FilterMutation, ItemDone, lists
<1>4. RejectedType'
  BY <1>1, <1>2, <1>3, Fixed, TypeParts DEF FilterMutation, RejectedType
<1>5. stored' \in [Worker -> Seq(ResultType)]
  <2>1. Item(w) \in ResultType /\ running /\ stored \in [Worker -> Seq(ResultType)]
    BY <1>1, <1>2, ItemDoneFacts DEF ResultType, TInv, ExecutorInv
  <2>2. stored' = stored \/ stored' = [stored EXCEPT ![w] = Append(stored[w], Item(w))]
    BY DEF FilterMutation
  <2> QED
    BY <2>1, <2>2, StoredOneMore
<1> QED
  BY <1>1, <1>3, <1>4, <1>5, ItemDoneFacts, ItemDoneInv, SameTypes, TypeParts DEF TInv

(* A module's record with one of its fields replaced.                      *)
LEMMA ModuleUpdates ==
    ASSUME TypeOK, NEW o \in Object
    PROVE  /\ \A p \in {"clone", "delete", "redirect"} :
                 [modules EXCEPT ![o].phase = p] \in [Object -> ModuleState]
           /\ \A q \in Point :
                 [modules EXCEPT ![o].mutants = modules[o].mutants \cup {q}] \in [Object -> ModuleState]
<1>1. modules \in [Object -> ModuleState]
  BY TypeParts DEF ModuleType
<1>2. \A p \in {"clone", "delete", "redirect"} : [modules[o] EXCEPT !.phase = p] \in ModuleState
  BY <1>1 DEF ModuleState
<1>3. \A q \in Point : [modules[o] EXCEPT !.mutants = modules[o].mutants \cup {q}] \in ModuleState
  BY <1>1 DEF ModuleState
<1> QED
  BY <1>1, <1>2, <1>3

LEMMA TransformModuleStep == ASSUME TInv, NEW w \in Worker, TransformModule(w) PROVE TInv'
<1>1. ItemDone(w) /\ pc \in {"clone", "delete", "redirect"} /\ TypeOK
  BY DEF TransformModule, TInv
<1>2. Item(w) \in {<<o>> : o \in Object}
  BY <1>1, ItemDoneFacts, ItemsFacts, ElementOfSeq
<1>3. Item(w)[1] \in Object
  BY <1>2
<1>4. /\ UNCHANGED lists /\ UNCHANGED rejected /\ UNCHANGED config /\ stored' = stored
      /\ modules' = [modules EXCEPT ![Item(w)[1]].phase = pc]
  BY <1>1 DEF TransformModule, ItemDone, lists
<1>5. ModuleType'
  <2>1. modules' \in [Object -> ModuleState]
    BY <1>1, <1>3, <1>4, ModuleUpdates
  <2> QED
    BY <1>4, <2>1, Fixed DEF ModuleType, ModuleState
<1>6. stored' \in [Worker -> Seq(ResultType)]
  BY <1>1, <1>4, ItemDoneFacts DEF TInv, ExecutorInv
<1> QED
  BY <1>1, <1>4, <1>5, <1>6, ItemDoneFacts, ItemDoneInv, SameTypes, TypeParts DEF TInv

LEMMA ApplyMutationStep == ASSUME TInv, NEW w \in Worker, ApplyMutation(w) PROVE TInv'
<1>1. ItemDone(w) /\ pc = "apply" /\ TypeOK
  BY DEF ApplyMutation, TInv
<1>2. Item(w) \in Point
  BY <1>1, ItemDoneFacts, ItemsFacts, ElementOfSeq
<1>3. Item(w)[1] \in Object
  BY <1>1, <1>2, PointFacts DEF TypeOK
<1>4. /\ UNCHANGED lists /\ UNCHANGED rejected /\ UNCHANGED config /\ stored' = stored
      /\ modules' = [modules EXCEPT ![Item(w)[1]].mutants = modules[Item(w)[1]].mutants \cup {Item(w)}]
  BY <1>1 DEF ApplyMutation, ItemDone, lists
<1>5. ModuleType'
  <2>1. modules' \in [Object -> ModuleState]
    BY <1>1, <1>2, <1>3, <1>4, ModuleUpdates
  <2> QED
    BY <1>4, <2>1, Fixed DEF ModuleType, ModuleState
<1>6. stored' \in [Worker -> Seq(ResultType)]
  BY <1>1, <1>4, ItemDoneFacts DEF TInv, ExecutorInv
<1> QED
  BY <1>1, <1>4, <1>5, <1>6, ItemDoneFacts, ItemDoneInv, SameTypes, TypeParts DEF TInv

LEMMA CompileModuleStep == ASSUME TInv, NEW w \in Worker, CompileModule(w) PROVE TInv'
<1>1. ItemDone(w) /\ pc = "compile" /\ TypeOK
  BY DEF CompileModule, TInv
<1>2. Item(w) \in {<<o>> : o \in Object}
  BY <1>1, ItemDoneFacts, ItemsFacts, ElementOfSeq
<1> DEFINE o == Item(w)[1]
           x == [object |-> o, compiled |-> TRUE, mutants |-> modules[o].mutants]
<1>3. o \in Object
  BY <1>2
<1>4. /\ UNCHANGED lists /\ UNCHANGED rejected /\ UNCHANGED config /\ UNCHANGED modules
      /\ stored' = [stored EXCEPT ![w] = Append(stored[w], x)]
  BY <1>1 DEF CompileModule, ItemDone, lists
<1>5. x \in ResultType
  <2>1. modules[o].mutants \in SUBSET Point
    BY <1>1, <1>3, TypeParts DEF ModuleType, ModuleState
  <2> QED
    BY <1>1, <1>3, <2>1 DEF ResultType, LinkedObject
<1> HIDE DEF x
<1>6. stored' \in [Worker -> Seq(ResultType)]
  BY <1>1, <1>4, <1>5, ItemDoneFacts, StoredOneMore
<1> QED
  BY <1>1, <1>4, <1>6, ItemDoneFacts, ItemDoneInv, SameTypes, TypeParts DEF TInv

-----------------------------------------------------------------------------
(* The main thread.                                                        *)

(* What it collects when all workers joined.                               *)
LEMMA ResultsFacts ==
    ASSUME TInv, running
    PROVE  /\ Results \in Seq(ResultType)
           /\ Range(Results) = UNION {Range(stored[w]) : w \in Worker}
           /\ \A R : /\ \A w \in Worker : OrderedBy(stored[w], R)
                     /\ \A v, w \in Worker : v < w =>
                           \A x \in Range(stored[v]), y \in Range(stored[w]) : <<x, y>> \in R
                     => OrderedBy(Results, R)
           /\ ResultType = {} => Results = <<>>
<1> DEFINE ss == [w \in Worker |-> stored[w]]
<1>1. stored \in [Worker -> Seq(ResultType)] /\ inputObjects \in Programs
  BY DEF TInv, ExecutorInv, TypeOK
<1>2. Workers \in Nat /\ Worker = 1..Workers
  BY <1>1, ProgramFacts
<1>3. ss \in Seq(Seq(ResultType)) /\ DOMAIN ss = Worker
  <2>1. \A w \in 1..Workers : stored[w] \in Seq(ResultType)
    BY <1>1, <1>2
  <2> QED
    BY <1>2, <2>1
<1>4. \A w \in Worker : ss[w] = stored[w]
  OBVIOUS
<1>5. Results = FlattenSeq(ss)
  BY DEF Results
<1> HIDE DEF ss
<1>6. /\ FlattenSeq(ss) \in Seq(ResultType)
      /\ Range(FlattenSeq(ss)) = UNION {Range(ss[k]) : k \in DOMAIN ss}
      /\ \A R : /\ \A k \in DOMAIN ss : OrderedBy(ss[k], R)
                /\ \A k, l \in DOMAIN ss : k < l =>
                      \A x \in Range(ss[k]), y \in Range(ss[l]) : <<x, y>> \in R
                => OrderedBy(FlattenSeq(ss), R)
  BY <1>3, FlattenFacts
<1>7. UNION {Range(ss[k]) : k \in DOMAIN ss} = UNION {Range(stored[w]) : w \in Worker}
  BY <1>3, <1>4
<1>8. ASSUME ResultType = {} PROVE Results = <<>>
  <2>1. Results \in Seq({})
    BY <1>5, <1>6, <1>8
  <2>2. ~(1 \in DOMAIN Results)
    BY <2>1, ElementOfSeq
  <2>3. Len(Results) = 0
    BY <2>1, <2>2
  <2> QED
    BY <2>1, <2>3
<1>9. ASSUME NEW R, \A w \in Worker : OrderedBy(stored[w], R),
             \A v, w \in Worker : v < w =>
                 \A x \in Range(stored[v]), y \in Range(stored[w]) : <<x, y>> \in R
      PROVE  OrderedBy(Results, R)
  BY <1>3, <1>4, <1>5, <1>6, <1>9
<1> QED
  BY <1>5, <1>6, <1>7, <1>8, <1>9

(* Between the stages nothing is constrained by an executor.               *)
LEMMA IdleInv ==
    ASSUME ~running', i' > 0, pc' \notin Modifying \/ (i' \in 1..5 /\ pc' = ApplyStages[i'])
    PROVE  ExecutorInv'
  BY DEF ExecutorInv, ApplyStages, Modifying

(* Outside the parallel stages there is no executor.                       *)
LEMMA NotRunning == ASSUME TInv, pc \notin Parallel PROVE ~running /\ \A w \in Worker : ~busy[w]
  BY TypeParts DEF TInv, ExecutorInv, WorkerType

(* A joined stage has no worker that is busy.                              *)
LEMMA JoinedRest ==
    ASSUME TInv, Joined
    PROVE  /\ \A w \in Worker : ~busy[w] /\ at[w] = cuts[w]
           /\ running' = FALSE /\ UNCHANGED <<cuts, at, busy>> => WorkerType'
<1>1. WorkerType /\ TypeOK
  BY TypeParts DEF TInv
<1>2. \A w \in Worker : w \in 0..Workers
  BY <1>1, ProgramFacts DEF TypeOK
<1>3. \A w \in Worker : at[w] \in Nat /\ at[w] = cuts[w]
  BY <1>1 DEF Joined, WorkerType
<1>4. \A w \in Worker : ~busy[w]
  <2>1. \A w \in Worker : ~(at[w] < cuts[w])
    BY <1>3
  <2> QED
    BY <1>1, <2>1 DEF WorkerType
<1>5. ASSUME running' = FALSE, UNCHANGED <<cuts, at, busy>> PROVE WorkerType'
  BY <1>1, <1>3, <1>4, <1>5 DEF WorkerType, Worker
<1> QED
  BY <1>3, <1>4, <1>5

(* The names of the stages.                                                *)
LEMMA StageNamesDiffer ==
    /\ "extract" \notin Parallel /\ "search" \notin Parallel
    /\ "filtered" \notin Parallel /\ "done" \notin Parallel
    /\ Parallel \subseteq Stages /\ FilterStages = {"functionFilter", "mutationFilter"}
    /\ FilterStages \cap Modifying = {} /\ Modifying \subseteq Parallel
    /\ Modifying = {"clone", "delete", "redirect", "apply", "compile"}
  BY StageNames DEF Stages, FilterStages, Modifying

LEMMA ExtractObjectStep == ASSUME TInv, ExtractObject PROVE TInv'
<1>1. /\ TypeOK /\ OutputType /\ pc = "extract" /\ i \in Nat /\ i <= Len(inputObjects)
      /\ UNCHANGED config /\ UNCHANGED lists /\ UNCHANGED modules /\ UNCHANGED rejected
      /\ UNCHANGED <<running, cuts, at, busy>> /\ pc' = pc /\ i' = i + 1
  BY TypeParts DEF TInv, ExtractObject, executor, TypeOK
<1>2. ~running /\ pc \in Stages
  BY <1>1, NotRunning, StageNamesDiffer DEF Stages
<1>3. "extract" \in Stages /\ ControlType'
  BY <1>1, <1>2, TypeParts DEF ControlType, Stages
<1>4. ExecutorInv'
  BY <1>1, <1>2, IdleInv DEF Modifying
<1>5. OutputType'
  <2>1. Object = 1..Len(inputObjects) /\ Len(inputObjects) \in Nat
    BY <1>1, ProgramFacts DEF TypeOK
  <2>2. i \in Object /\ i' > 0
    BY <1>1, <2>1 DEF TInv, ExecutorInv
  <2>3. PassThrough(i) \in LinkedObject /\ <<i>> \in {<<o>> : o \in Object}
    BY <2>2 DEF PassThrough, LinkedObject
  <2>4. Append(output, PassThrough(i)) \in Seq(LinkedObject)
    BY <1>1, <2>3, AppendProperties DEF OutputType
  <2>5. Append(bitcode, <<i>>) \in Seq({<<o>> : o \in Object})
    BY <1>1, <2>3, AppendProperties DEF OutputType
  <2>6. output' \in Seq(LinkedObject) /\ bitcode' \in Seq({<<o>> : o \in Object})
    BY <1>1, <2>4, <2>5 DEF ExtractObject, OutputType
  <2> QED
    BY <1>1, <2>6, Fixed DEF OutputType
<1> QED
  BY <1>1, <1>3, <1>4, <1>5, SameTypes, TypeParts DEF TInv

(* The functions of the loaded modules and the points of the functions.    *)
FunctionsOf(o) == [f \in DOMAIN inputObjects[o].functions |-> <<o, f>>]
PointList(fn) == [p \in 1..inputObjects[fn[1]].functions[fn[2]] |-> <<fn[1], fn[2], p>>]
AllFunctions == FlattenSeq([k \in DOMAIN bitcode |-> FunctionsOf(bitcode[k][1])])
AllPoints == FlattenSeq([k \in DOMAIN functions |-> PointList(functions[k])])

LEMMA AllFunctionsFacts ==
    ASSUME TypeOK
    PROVE  /\ AllFunctions \in Seq(Function)
           /\ Range(AllFunctions) = {fn \in Function : \E k \in DOMAIN bitcode : bitcode[k][1] = fn[1]}
<1> DEFINE parts == [k \in DOMAIN bitcode |-> FunctionsOf(bitcode[k][1])]
<1>1. inputObjects \in Programs /\ bitcode \in Seq({<<o>> : o \in Object})
  BY DEF TypeOK
<1>2. /\ Len(bitcode) \in Nat /\ DOMAIN bitcode = 1..Len(bitcode)
      /\ \A k \in DOMAIN bitcode : bitcode[k] \in {<<o>> : o \in Object}
  BY <1>1, ElementOfSeq
<1>3. \A k \in DOMAIN bitcode : bitcode[k][1] \in Object
  BY <1>2
<1>4. ASSUME NEW o \in Object
      PROVE  /\ FunctionsOf(o) \in Seq(Function)
             /\ Range(FunctionsOf(o)) = {fn \in Function : fn[1] = o}
  <2>1. inputObjects[o].functions \in Seq(Nat)
    BY <1>1, ProgramFacts
  <2>2. DOMAIN inputObjects[o].functions = 1..Len(inputObjects[o].functions)
        /\ Len(inputObjects[o].functions) \in Nat
    BY <2>1
  <2>3. \A f \in DOMAIN inputObjects[o].functions : <<o, f>> \in Function
    BY <1>1, FunctionFacts
  <2>4. FunctionsOf(o) \in Seq(Function)
    BY <2>2, <2>3 DEF FunctionsOf
  <2>5. ASSUME NEW fn \in Function, fn[1] = o PROVE fn \in Range(FunctionsOf(o))
    <3>1. fn = <<o, fn[2]>> /\ fn[2] \in DOMAIN inputObjects[o].functions
      BY <1>1, <2>5, FunctionFacts
    <3> QED
      BY <3>1 DEF FunctionsOf, Range
  <2>6. ASSUME NEW fn \in Range(FunctionsOf(o)) PROVE fn \in Function /\ fn[1] = o
    <3>1. PICK f \in DOMAIN FunctionsOf(o) : fn = FunctionsOf(o)[f]
      BY <2>6 DEF Range
    <3>2. f \in DOMAIN inputObjects[o].functions /\ fn = <<o, f>>
      BY <3>1 DEF FunctionsOf
    <3> QED
      BY <2>3, <3>2
  <2> QED
    BY <2>4, <2>5, <2>6
<1>5. DOMAIN parts = DOMAIN bitcode /\ \A k \in DOMAIN bitcode : parts[k] = FunctionsOf(bitcode[k][1])
  OBVIOUS
<1>6. parts = [k \in DOMAIN bitcode |-> parts[k]]
  OBVIOUS
<1>7. AllFunctions = FlattenSeq(parts)
  BY DEF AllFunctions
<1> HIDE DEF parts
<1>8. parts \in Seq(Seq(Function))
  <2>1. \A k \in DOMAIN bitcode : parts[k] \in Seq(Function)
    BY <1>3, <1>4, <1>5
  <2> QED
    BY <1>2, <1>5, <1>6, <2>1
<1>9. /\ FlattenSeq(parts) \in Seq(Function)
      /\ Range(FlattenSeq(parts)) = UNION {Range(parts[k]) : k \in DOMAIN parts}
  BY <1>8, FlattenFacts
<1>10. \A k \in DOMAIN bitcode : Range(parts[k]) = {fn \in Function : fn[1] = bitcode[k][1]}
  BY <1>3, <1>4, <1>5
<1> QED
  BY <1>5, <1>7, <1>9, <1>10

LEMMA AllPointsFacts ==
    ASSUME TypeOK
    PROVE  /\ AllPoints \in Seq(Point)
           /\ Range(AllPoints) = UNION {PointsOf(functions[k]) : k \in DOMAIN functions}
<1> DEFINE parts == [k \in DOMAIN functions |-> PointList(functions[k])]
<1>1. inputObjects \in Programs /\ functions \in Seq(Function)
  BY DEF TypeOK
<1>2. /\ Len(functions) \in Nat /\ DOMAIN functions = 1..Len(functions)
      /\ \A k \in DOMAIN functions : functions[k] \in Function
  BY <1>1, ElementOfSeq
<1>3. ASSUME NEW fn \in Function
      PROVE  PointList(fn) \in Seq(Point) /\ Range(PointList(fn)) = PointsOf(fn)
  <2>1. fn[1] \in Object /\ fn[2] \in DOMAIN inputObjects[fn[1]].functions
    BY <1>1, FunctionFacts
  <2>2. inputObjects[fn[1]].functions \in Seq(Nat)
    BY <1>1, <2>1, ProgramFacts
  <2>3. inputObjects[fn[1]].functions[fn[2]] \in Nat
    BY <2>1, <2>2, ElementOfSeq
  <2>4. Range(PointList(fn)) = PointsOf(fn)
    BY DEF PointList, PointsOf, Range
  <2>5. PointsOf(fn) \subseteq Point
    BY <1>1, PointFacts
  <2>6. \A p \in DOMAIN PointList(fn) : PointList(fn)[p] \in Point
    BY <2>4, <2>5 DEF Range
  <2>7. DOMAIN PointList(fn) = 1..inputObjects[fn[1]].functions[fn[2]]
        /\ PointList(fn) = [p \in DOMAIN PointList(fn) |-> PointList(fn)[p]]
    BY DEF PointList
  <2> QED
    BY <2>3, <2>4, <2>6, <2>7
<1>5. DOMAIN parts = DOMAIN functions /\ \A k \in DOMAIN functions : parts[k] = PointList(functions[k])
  OBVIOUS
<1>6. parts = [k \in DOMAIN functions |-> parts[k]]
  OBVIOUS
<1>7. AllPoints = FlattenSeq(parts)
  BY DEF AllPoints
<1> HIDE DEF parts
<1>8. parts \in Seq(Seq(Point))
  <2>1. \A k \in DOMAIN functions : parts[k] \in Seq(Point)
    BY <1>2, <1>3, <1>5
  <2> QED
    BY <1>2, <1>5, <1>6, <2>1
<1>9. /\ FlattenSeq(parts) \in Seq(Point)
      /\ Range(FlattenSeq(parts)) = UNION {Range(parts[k]) : k \in DOMAIN parts}
  BY <1>8, FlattenFacts
<1>10. \A k \in DOMAIN functions : Range(parts[k]) = PointsOf(functions[k])
  BY <1>2, <1>3, <1>5
<1> QED
  BY <1>5, <1>7, <1>9, <1>10

LEMMA GatherFunctionsStep == ASSUME TInv, GatherFunctions PROVE TInv'
<1>1. /\ TypeOK /\ ListType /\ pc = "extract" /\ pc' = "functionFilter" /\ i' = 1
      /\ UNCHANGED config /\ UNCHANGED <<output, bitcode>> /\ UNCHANGED modules
      /\ UNCHANGED <<points, selected, mutationFilters, astStorage>>
      /\ UNCHANGED <<running, cuts, at, busy>>
  BY TypeParts DEF TInv, GatherFunctions, executor
<1>2. PICK kept \in SUBSET Function :
          /\ functions' = Keep(AllFunctions, kept)
          /\ rejected' = UNION {PointsOf(fn) : fn \in Function \ kept}
  BY DEF GatherFunctions, AllFunctions, FunctionsOf
<1>3. functions' \in Seq(Function)
  BY <1>1, <1>2, AllFunctionsFacts, KeepFacts
<1>4. ListType'
  BY <1>1, <1>3, Fixed DEF ListType
<1>5. RejectedType'
  BY <1>1, <1>2, Fixed, PointFacts DEF RejectedType, TypeOK
<1>6. ControlType' /\ ExecutorInv'
  BY <1>1, StageNames, StageNamesDiffer, NotRunning, IdleInv DEF ControlType, Stages
<1> QED
  BY <1>1, <1>4, <1>5, <1>6, SameTypes, TypeParts DEF TInv

LEMMA FindMutationPointsStep == ASSUME TInv, FindMutationPoints PROVE TInv'
<1>1. /\ TypeOK /\ ListType /\ pc = "search" /\ pc' \in {"index", "mutationFilter"} /\ i' = 1
      /\ UNCHANGED config /\ UNCHANGED <<output, bitcode>> /\ UNCHANGED modules
      /\ UNCHANGED <<functions, selected, astStorage>> /\ UNCHANGED rejected
      /\ UNCHANGED <<running, cuts, at, busy>>
      /\ mutationFilters' = Append(mutationFilters, "runtime")
  BY TypeParts DEF TInv, FindMutationPoints, executor
<1>2. points' = Keep(AllPoints, selected)
  BY DEF FindMutationPoints, AllPoints, PointList
<1>3. points' \in Seq(Point)
  BY <1>1, <1>2, AllPointsFacts, KeepFacts
<1>4. mutationFilters' \in Seq({"configured", "runtime", "syntax"})
  BY <1>1, AppendProperties DEF ListType
<1>5. ListType'
  BY <1>1, <1>3, <1>4, Fixed DEF ListType
<1>6. ControlType' /\ ExecutorInv'
  BY <1>1, StageNames, StageNamesDiffer, NotRunning, IdleInv DEF ControlType, Stages
<1> QED
  BY <1>1, <1>5, <1>6, SameTypes, TypeParts DEF TInv

LEMMA PassThroughType ==
    ASSUME inputObjects \in Programs
    PROVE  [o \in Object |-> PassThrough(o)] \in Seq(LinkedObject)
<1>1. Object = 1..Len(inputObjects) /\ Len(inputObjects) \in Nat
  BY ProgramFacts
<1>2. \A o \in Object : PassThrough(o) \in LinkedObject
  BY DEF PassThrough, LinkedObject
<1> QED
  BY <1>1, <1>2

LEMMA ReturnInputsStep == ASSUME TInv, ReturnInputs PROVE TInv'
<1>1. /\ TypeOK /\ OutputType /\ pc = "filtered" /\ pc' = "done" /\ i' = i
      /\ UNCHANGED config /\ UNCHANGED bitcode /\ UNCHANGED modules
      /\ UNCHANGED lists /\ UNCHANGED rejected
      /\ UNCHANGED <<running, cuts, at, busy>>
      /\ output' = [o \in Object |-> PassThrough(o)]
      /\ i > 0 /\ i \in Nat
  BY TypeParts DEF TInv, ReturnInputs, executor, ExecutorInv, TypeOK
<1>2. output' \in Seq(LinkedObject)
  BY <1>1, PassThroughType DEF TypeOK
<1>3. OutputType'
  BY <1>1, <1>2, Fixed DEF OutputType
<1>4. ControlType' /\ ExecutorInv'
  BY <1>1, StageNames, StageNamesDiffer, NotRunning, IdleInv DEF ControlType, Stages
<1> QED
  BY <1>1, <1>3, <1>4, SameTypes, TypeParts DEF TInv

LEMMA PrepareMutationsStep == ASSUME TInv, PrepareMutations PROVE TInv'
<1>1. /\ TypeOK /\ ModuleType /\ ListType /\ pc = "filtered" /\ pc' = ApplyStages[1] /\ i' = 1
      /\ UNCHANGED config /\ UNCHANGED <<output, bitcode>>
      /\ UNCHANGED lists /\ UNCHANGED rejected
      /\ UNCHANGED <<running, cuts, at, busy>>
      /\ modules' = [o \in Object |->
             [modules[o] EXCEPT !.added = {q \in Range(points) : q[1] = o}]]
  BY TypeParts DEF TInv, PrepareMutations, executor
<1>2. Range(points) \subseteq Point
  BY <1>1, ElementOfSeq DEF ListType, Range
<1>3. \A o \in Object :
         [modules[o] EXCEPT !.added = {q \in Range(points) : q[1] = o}] \in ModuleState
  BY <1>1, <1>2 DEF ModuleType, ModuleState
<1>4. modules' \in [Object -> ModuleState]
  BY <1>1, <1>3
<1>5. ModuleType'
  BY <1>1, <1>4, Fixed DEF ModuleType, ModuleState
<1>6. 1 \in 1..5 /\ ApplyStages' = ApplyStages
  BY DEF ApplyStages
<1>7. ControlType' /\ ExecutorInv'
  BY <1>1, <1>6, ApplyStagesFacts, StageNames, StageNamesDiffer, NotRunning, IdleInv
     DEF ControlType, Stages
<1> QED
  BY <1>1, <1>5, <1>7, SameTypes, TypeParts DEF TInv

LEMMA StartStageFacts ==
    ASSUME TInv, StartStage
    PROVE  /\ UNCHANGED config /\ pc \in Parallel /\ ~running /\ running' = TRUE
           /\ UNCHANGED <<pc, i>> /\ UNCHANGED <<output, bitcode>> /\ UNCHANGED lists
           /\ UNCHANGED modules /\ UNCHANGED rejected /\ UNCHANGED busy
           /\ Items' = Items /\ Batches' = Batches /\ cuts' \in Batches
           /\ cuts' \in [0..Workers -> Nat]
           /\ \A w \in Worker : /\ w - 1 \in 0..Workers /\ w \in 0..Workers
                                 /\ at'[w] = cuts'[w-1] /\ at'[w] <= cuts'[w]
                                 /\ cuts'[w-1] \in Nat /\ ~busy[w]
           /\ at' \in [Worker -> Nat]
           /\ stored' = [w \in Worker |-> <<>>]
<1>1. /\ UNCHANGED config /\ pc \in Parallel /\ ~running /\ running' = TRUE
      /\ UNCHANGED <<pc, i>> /\ UNCHANGED <<output, bitcode>> /\ UNCHANGED lists
      /\ UNCHANGED modules /\ UNCHANGED rejected /\ UNCHANGED busy /\ cuts' \in Batches
      /\ at' = [w \in Worker |-> cuts'[w-1]] /\ stored' = [w \in Worker |-> <<>>]
  BY DEF StartStage
<1>2. Items' = Items
  BY <1>1 DEF Items, Sources, lists
<1>3. Batches' = Batches
  BY <1>1, <1>2 DEF Batches, Tasks
<1>4. TypeOK /\ WorkerType /\ inputObjects \in Programs /\ Len(Items) \in Nat
  BY ItemsFacts, TypeParts DEF TInv, TypeOK
<1>5. ASSUME NEW c \in Batches
      PROVE  /\ c \in [0..Workers -> Nat]
             /\ \A w \in Worker : /\ w - 1 \in 0..Workers /\ w \in 0..Workers
                                   /\ c[w-1] \in Nat /\ c[w-1] <= c[w]
  BY <1>4, BatchFacts
<1>6. /\ cuts' \in [0..Workers -> Nat]
      /\ \A w \in Worker : /\ w - 1 \in 0..Workers /\ w \in 0..Workers
                            /\ cuts'[w-1] \in Nat /\ cuts'[w-1] <= cuts'[w]
  BY <1>1, <1>5
<1>7. \A w \in Worker : ~busy[w]
  BY <1>1, <1>4 DEF WorkerType
<1>8. at' \in [Worker -> Nat] /\ \A w \in Worker : at'[w] = cuts'[w-1]
  BY <1>1, <1>6
<1> QED
  BY <1>1, <1>2, <1>3, <1>6, <1>7, <1>8

LEMMA StartStageStep == ASSUME TInv, StartStage PROVE TInv'
<1>1. TypeOK /\ WorkerType /\ ExecutorInv
  BY TypeParts DEF TInv
<1>2. WorkerType'
  <2>1. running' \in BOOLEAN /\ Worker' = Worker
    BY StartStageFacts DEF Worker
  <2>2. /\ cuts' \in [0..Workers -> Nat] /\ at' \in [Worker -> Nat]
        /\ busy' \in [Worker -> BOOLEAN]
    BY <1>1, StartStageFacts DEF WorkerType
  <2>3. \A w \in Worker : at'[w] <= cuts'[w] /\ ~busy'[w]
    BY StartStageFacts
  <2> QED
    BY <2>1, <2>2, <2>3 DEF WorkerType
<1>3. ExecutorInv'
  <2>1. Worker' = Worker /\ Parallel' = Parallel /\ ApplyStages' = ApplyStages
    BY DEF Worker, Parallel, ApplyStages
  <2>2. stored' \in [Worker -> Seq(ResultType')]
    <3>1. stored' = [w \in Worker |-> <<>>] /\ ResultType' = ResultType
      BY StartStageFacts, Fixed DEF ResultType
    <3>2. <<>> \in Seq(ResultType)
      OBVIOUS
    <3> QED
      BY <3>1, <3>2
  <2>3. \A w \in Worker : cuts'[w-1] <= at'[w]
    BY StartStageFacts
  <2>4. pc' \in Parallel /\ cuts' \in Batches' /\ i' > 0
    BY <1>1, StartStageFacts DEF ExecutorInv
  <2>5. pc' \in Modifying => i' \in 1..5 /\ pc' = ApplyStages[i']
    BY <1>1, StartStageFacts DEF ExecutorInv
  <2> QED
    BY <2>1, <2>2, <2>3, <2>4, <2>5 DEF ExecutorInv
<1> QED
  BY <1>1, <1>2, <1>3, StartStageFacts, SameTypes, TypeParts DEF TInv

LEMMA EndFilterStep == ASSUME TInv, EndFilter PROVE TInv'
<1>1. /\ TypeOK /\ ListType /\ pc \in FilterStages /\ Joined /\ i' = i + 1 /\ i \in Nat
      /\ UNCHANGED config /\ UNCHANGED <<output, bitcode>> /\ UNCHANGED modules /\ pc' = pc
      /\ UNCHANGED <<selected, mutationFilters, astStorage>> /\ UNCHANGED rejected
      /\ running' = FALSE /\ UNCHANGED <<cuts, at, busy>> /\ running
  BY TypeParts DEF TInv, EndFilter, Joined, TypeOK
<1>2. WorkerType'
  BY <1>1, JoinedRest
<1>3. ControlType' /\ ExecutorInv'
  BY <1>1, StageNamesDiffer, IdleInv DEF ControlType, Stages, Parallel, ApplyStages
<1>4. Results \in Seq(ResultType)
  BY <1>1, ResultsFacts
<1>5. functions' \in Seq(Function) /\ points' \in Seq(Point)
  <2>1. CASE pc = "functionFilter"
    BY <1>1, <1>4, <2>1 DEF EndFilter, ResultType, ListType
  <2>2. CASE pc = "mutationFilter"
    BY <1>1, <1>4, <2>2 DEF EndFilter, ResultType, ListType
  <2> QED
    BY <1>1, <2>1, <2>2, StageNamesDiffer
<1>6. ListType'
  BY <1>1, <1>5, Fixed DEF ListType
<1> QED
  BY <1>1, <1>2, <1>3, <1>6, SameTypes, TypeParts DEF TInv

LEMMA LeaveFiltersStep == ASSUME TInv, LeaveFilters PROVE TInv'
<1>1. /\ TypeOK /\ ~running /\ i' = 1 /\ pc' \in {"select", "filtered"}
      /\ UNCHANGED config /\ UNCHANGED <<output, bitcode>> /\ UNCHANGED modules
      /\ UNCHANGED lists /\ UNCHANGED rejected /\ UNCHANGED <<running, cuts, at, busy>>
  BY DEF TInv, LeaveFilters, executor
<1>2. ControlType' /\ ExecutorInv'
  BY <1>1, StageNames, StageNamesDiffer, IdleInv DEF ControlType, Stages
<1> QED
  BY <1>1, <1>2, SameTypes, TypeParts DEF TInv

LEMMA EndSelectionStep == ASSUME TInv, EndSelection PROVE TInv'
<1>1. /\ TypeOK /\ Joined /\ i' = i /\ pc' = "search" /\ running' = FALSE
      /\ UNCHANGED config /\ UNCHANGED <<output, bitcode>> /\ UNCHANGED modules
      /\ UNCHANGED lists /\ UNCHANGED rejected /\ UNCHANGED <<cuts, at, busy>>
      /\ i > 0 /\ i \in Nat
  BY DEF TInv, EndSelection, ExecutorInv, TypeOK
<1>2. ControlType' /\ ExecutorInv' /\ WorkerType'
  BY <1>1, StageNames, StageNamesDiffer, IdleInv, JoinedRest DEF ControlType, Stages
<1> QED
  BY <1>1, <1>2, SameTypes, TypeParts DEF TInv

LEMMA EndIndexStep == ASSUME TInv, EndIndex PROVE TInv'
<1>1. /\ TypeOK /\ ListType /\ Joined /\ i' = i /\ pc = "index" /\ pc' = "mutationFilter"
      /\ running' = FALSE
      /\ UNCHANGED config /\ UNCHANGED <<output, bitcode>> /\ UNCHANGED modules
      /\ UNCHANGED <<functions, points, selected>>
      /\ UNCHANGED rejected /\ UNCHANGED <<cuts, at, busy>> /\ running
      /\ mutationFilters' = Append(mutationFilters, "syntax")
      /\ astStorage' = astStorage \cup UNION Range(Results)
      /\ i > 0 /\ i \in Nat
  BY TypeParts DEF TInv, EndIndex, ExecutorInv, TypeOK, Joined, MergedStorage
<1>2. ControlType' /\ ExecutorInv' /\ WorkerType'
  BY <1>1, StageNames, StageNamesDiffer, IdleInv, JoinedRest DEF ControlType, Stages
<1>3. Results \in Seq(SUBSET Point)
  BY <1>1, ResultsFacts DEF ResultType
<1>4. \A x \in Range(Results) : x \in SUBSET Point
  BY <1>3, ElementOfSeq DEF Range
<1>5. astStorage' \in SUBSET Point
  BY <1>1, <1>4 DEF ListType
<1>6. mutationFilters' \in Seq({"configured", "runtime", "syntax"})
  BY <1>1, AppendProperties DEF ListType
<1>7. ListType'
  BY <1>1, <1>5, <1>6, Fixed DEF ListType
<1> QED
  BY <1>1, <1>2, <1>7, SameTypes, TypeParts DEF TInv

LEMMA EndApplyStageFacts ==
    ASSUME TInv, EndApplyStage
    PROVE  /\ TypeOK /\ OutputType /\ Joined /\ running /\ running' = FALSE
           /\ UNCHANGED config /\ UNCHANGED bitcode /\ UNCHANGED modules
           /\ UNCHANGED lists /\ UNCHANGED rejected /\ UNCHANGED <<cuts, at, busy>>
           /\ i' = i + 1 /\ i \in 1..5 /\ pc = ApplyStages[i] /\ pc \in Modifying
           /\ i < 5 => pc' = ApplyStages[i + 1] /\ output' = output /\ pc' \in Modifying
           /\ i = 5 => pc' = "done" /\ pc = "compile" /\ output' = output \o Results
<1>1. /\ TypeOK /\ OutputType /\ Joined /\ running /\ running' = FALSE
      /\ UNCHANGED config /\ UNCHANGED bitcode /\ UNCHANGED modules
      /\ UNCHANGED lists /\ UNCHANGED rejected /\ UNCHANGED <<cuts, at, busy>>
      /\ i' = i + 1 /\ pc \in Modifying
      /\ pc' = (IF i < 5 THEN ApplyStages[i + 1] ELSE "done")
      /\ output' = output \o Results
  BY TypeParts, ApplyStagesFacts DEF TInv, EndApplyStage, Joined
<1>2. i \in 1..5 /\ pc = ApplyStages[i]
  BY <1>1 DEF TInv, ExecutorInv
<1>3. ASSUME i < 5 PROVE pc' = ApplyStages[i + 1] /\ pc' \in Modifying /\ output' = output
  <2>1. i \in {1, 2, 3, 4}
    BY <1>2, <1>3
  <2>2. pc \in {"clone", "delete", "redirect", "apply"} /\ ApplyStages[i + 1] \in Modifying
    BY <1>2, <2>1, ApplyStagesFacts DEF Modifying
  <2>3. Results = <<>>
    BY <1>1, <2>2, ResultsFacts DEF ResultType
  <2>4. output \o <<>> = output
    BY <1>1 DEF OutputType
  <2> QED
    BY <1>1, <1>3, <2>2, <2>3, <2>4
<1>4. ASSUME i = 5 PROVE pc' = "done" /\ pc = "compile"
  BY <1>1, <1>2, <1>4, ApplyStagesFacts
<1> QED
  BY <1>1, <1>2, <1>3, <1>4

LEMMA EndApplyStageStep == ASSUME TInv, EndApplyStage PROVE TInv'
<1>1. /\ TypeOK /\ OutputType /\ Joined /\ running /\ running' = FALSE
      /\ UNCHANGED config /\ UNCHANGED bitcode /\ UNCHANGED modules
      /\ UNCHANGED lists /\ UNCHANGED rejected /\ UNCHANGED <<cuts, at, busy>>
      /\ i' = i + 1 /\ i \in 1..5
      /\ i < 5 => pc' = ApplyStages[i + 1] /\ output' = output /\ pc' \in Modifying
      /\ i = 5 => pc' = "done" /\ pc = "compile" /\ output' = output \o Results
  BY EndApplyStageFacts
<1>2. ControlType'
  BY <1>1, StageNamesDiffer DEF ControlType, Stages, Parallel, ApplyStages
<1>3. ExecutorInv'
  <2>1. i' > 0 /\ (i < 5 => i' \in 1..5)
    BY <1>1
  <2>2. ApplyStages' = ApplyStages /\ (i = 5 => pc' \notin Modifying) /\ (i = 5 \/ i < 5)
    BY <1>1 DEF ApplyStages, Modifying
  <2> QED
    BY <1>1, <2>1, <2>2, IdleInv
<1>4. output' \in Seq(LinkedObject)
  <2>1. CASE i = 5
    <3>1. Results \in Seq(LinkedObject)
      BY <1>1, <2>1, ResultsFacts DEF ResultType
    <3> QED
      BY <1>1, <2>1, <3>1, ConcatProperties DEF OutputType
  <2> QED
    BY <1>1, <2>1 DEF OutputType
<1>5. OutputType' /\ WorkerType'
  BY <1>1, <1>4, Fixed, JoinedRest DEF OutputType
<1> QED
  BY <1>1, <1>2, <1>3, <1>5, SameTypes, TypeParts DEF TInv

(* A step that changes nothing.                                            *)
LEMMA StutterStep == ASSUME TInv, UNCHANGED vars PROVE TInv'
<1>1. /\ UNCHANGED config /\ UNCHANGED <<pc, i>> /\ UNCHANGED <<output, bitcode>>
      /\ UNCHANGED lists /\ UNCHANGED modules /\ UNCHANGED rejected
      /\ UNCHANGED <<running, cuts, at, busy>> /\ stored' = stored
  BY DEF vars, executor
<1>2. Items' = Items
  BY <1>1 DEF Items, Sources, lists
<1>3. Batches' = Batches
  BY <1>1, <1>2 DEF Batches, Tasks
<1>4. ResultType' = ResultType
  BY <1>1, Fixed DEF ResultType
<1>5. Worker' = Worker /\ Parallel' = Parallel
  BY DEF Worker, Parallel
<1>6. ExecutorInv'
  BY <1>1, <1>3, <1>4, <1>5 DEF ExecutorInv, TInv
<1> QED
  BY <1>1, <1>6, SameTypes, TypeParts DEF TInv

LEMMA TInvStep == ASSUME TInv, [Next]_vars PROVE TInv'
<1>1. ASSUME NEW w \in Worker, Task(w) PROVE TInv'
  BY <1>1, TakeItemStep, FilterFunctionStep, SelectInstructionsStep, IndexSourceStep,
     FilterMutationStep, TransformModuleStep, ApplyMutationStep, CompileModuleStep DEF Task
<1>2. CASE Main
  BY <1>2, ExtractObjectStep, GatherFunctionsStep, FindMutationPointsStep, ReturnInputsStep,
     PrepareMutationsStep, StartStageStep, EndFilterStep, LeaveFiltersStep, EndSelectionStep,
     EndIndexStep, EndApplyStageStep DEF Main
<1> QED
  BY <1>1, <1>2, StutterStep DEF Next, Terminated

(* Every state of the pipeline satisfies the first layer of the invariant: *)
(* the types, and the executor's partition of the items of each stage.     *)
THEOREM Invariance == Spec => []TInv
<1> QED
  BY TInvInit, TInvStep, PTL DEF Spec

(* Items and lists stay within the program that was given, and every       *)
(* worker within its batch: type correctness of the pipeline.              *)
THEOREM TypeCorrectness == Spec => []TypeOK
<1>1. TInv => TypeOK
  BY DEF TInv
<1> QED
  BY <1>1, Invariance, PTL

-----------------------------------------------------------------------------
(* Sharing.                                                                *)

shared == <<functions, points, mutationFilters, astStorage, bitcode>>

(* No task changes what the workers share.                                 *)
LEMMA TasksShare == ASSUME NEW w \in Worker, Task(w) PROVE UNCHANGED shared
<1>1. TakeItem(w) => UNCHANGED shared
  BY DEF TakeItem, shared, lists
<1>2. ItemDone(w) /\ UNCHANGED astStorage => UNCHANGED shared
  BY DEF ItemDone, shared
<1> QED
  BY <1>1, <1>2 DEF Task, FilterFunction, SelectInstructions, IndexSource, FilterMutation,
     TransformModule, ApplyMutation, CompileModule

LEMMA SharedStep == ASSUME TInv, [Next]_vars PROVE UNCHANGED shared \/ \A w \in Worker : ~busy[w]
<1>1. ASSUME NEW w \in Worker, Task(w) PROVE UNCHANGED shared
  BY <1>1, TasksShare
<1>2. UNCHANGED vars => UNCHANGED shared
  BY DEF vars, lists, shared
<1>3. CASE Main
  <2>1. ExtractObject \/ GatherFunctions \/ FindMutationPoints => \A w \in Worker : ~busy[w]
    BY NotRunning, StageNamesDiffer DEF ExtractObject, GatherFunctions, FindMutationPoints
  <2>2. EndFilter \/ EndIndex => \A w \in Worker : ~busy[w]
    BY JoinedRest DEF EndFilter, EndIndex
  <2>3. ReturnInputs \/ PrepareMutations \/ StartStage \/ LeaveFilters \/ EndSelection
        \/ EndApplyStage => UNCHANGED shared
    BY DEF ReturnInputs, PrepareMutations, StartStage, LeaveFilters, EndSelection,
           EndApplyStage, shared, lists
  <2> QED
    BY <1>3, <2>1, <2>2, <2>3 DEF Main
<1> QED
  BY <1>1, <1>2, <1>3 DEF Next, Terminated

(* The main thread changes the lists, the filters and the AST storage that *)
(* the workers read without a lock only when no worker is at work, with    *)
(* any number of workers and filters.                                      *)
THEOREM SharedDataAtRest == Spec => SharedDataChangesAtRest
<1>1. TInv /\ [Next]_vars =>
         [<<functions, points, mutationFilters, astStorage, bitcode>>'
            # <<functions, points, mutationFilters, astStorage, bitcode>>
              => \A w \in Worker : ~busy[w]]_vars
  BY SharedStep DEF shared
<1> QED
  BY <1>1, Invariance, PTL DEF Spec, SharedDataChangesAtRest

-----------------------------------------------------------------------------
(* The modules.                                                            *)

(* Modules are loaded in the order of the objects.                         *)
BitcodeInv ==
    /\ \A k, l \in DOMAIN bitcode : k < l => bitcode[k][1] < bitcode[l][1]
    /\ pc = "extract" => \A k \in DOMAIN bitcode : bitcode[k][1] < i

LEMMA BitcodeFacts ==
    ASSUME TypeOK
    PROVE  /\ bitcode \in Seq({<<o>> : o \in Object})
           /\ Len(bitcode) \in Nat /\ DOMAIN bitcode = 1..Len(bitcode)
           /\ \A k \in DOMAIN bitcode : bitcode[k][1] \in Object /\ bitcode[k][1] \in Nat
                                         /\ bitcode[k] = <<bitcode[k][1]>>
<1>1. bitcode \in Seq({<<o>> : o \in Object}) /\ inputObjects \in Programs
  BY DEF TypeOK
<1>2. \A k \in DOMAIN bitcode : bitcode[k] \in {<<o>> : o \in Object}
  BY <1>1, ElementOfSeq
<1>3. \A o \in Object : o \in Nat
  BY <1>1, ProgramFacts
<1> QED
  BY <1>1, <1>2, <1>3

LEMMA BitcodeStep == ASSUME TInv, BitcodeInv, [Next]_vars PROVE BitcodeInv'
<1>1. TypeOK
  BY DEF TInv
<1>2. CASE UNCHANGED bitcode /\ pc' # "extract"
  BY <1>2 DEF BitcodeInv
<1>3. CASE UNCHANGED <<bitcode, pc, i>>
  BY <1>3 DEF BitcodeInv
<1>4. CASE ExtractObject
  <2>1. pc = "extract" /\ i' = i + 1 /\ i \in Nat /\ pc' = pc
    BY <1>1, <1>4 DEF ExtractObject, TypeOK
  <2>2. CASE UNCHANGED bitcode
    <3>1. \A k \in DOMAIN bitcode : bitcode[k][1] < i + 1
      BY <1>1, <2>1, BitcodeFacts DEF BitcodeInv
    <3> QED
      BY <2>1, <2>2, <3>1 DEF BitcodeInv
  <2>3. CASE bitcode' = Append(bitcode, <<i>>)
    <3>1. /\ DOMAIN bitcode' = 1..Len(bitcode) + 1
          /\ \A k \in 1..Len(bitcode) : bitcode'[k] = bitcode[k]
          /\ bitcode'[Len(bitcode) + 1] = <<i>>
      BY <1>1, <2>3, BitcodeFacts
    <3>2. \A k \in DOMAIN bitcode' : k \in DOMAIN bitcode \/ k = Len(bitcode) + 1
      BY <1>1, <3>1, BitcodeFacts
    <3>3. \A k \in DOMAIN bitcode : bitcode'[k][1] = bitcode[k][1] /\ bitcode[k][1] \in Nat
                                     /\ bitcode[k][1] < i
      BY <1>1, <2>1, <3>1, BitcodeFacts DEF BitcodeInv
    <3>4. bitcode'[Len(bitcode) + 1][1] = i
      BY <3>1
    <3>5. \A k, l \in DOMAIN bitcode' : k < l => bitcode'[k][1] < bitcode'[l][1]
      <4> SUFFICES ASSUME NEW k \in DOMAIN bitcode', NEW l \in DOMAIN bitcode', k < l
                   PROVE  bitcode'[k][1] < bitcode'[l][1]
        OBVIOUS
      <4>1. k \in DOMAIN bitcode
        BY <1>1, <3>1, BitcodeFacts
      <4>2. CASE l \in DOMAIN bitcode
        BY <3>3, <4>1, <4>2 DEF BitcodeInv
      <4>3. CASE l = Len(bitcode) + 1
        BY <3>3, <3>4, <4>1, <4>3
      <4> QED
        BY <3>2, <4>2, <4>3
    <3>6. \A k \in DOMAIN bitcode' : bitcode'[k][1] < i + 1
      BY <2>1, <3>2, <3>3, <3>4
    <3> QED
      BY <2>1, <3>5, <3>6 DEF BitcodeInv
  <2> QED
    BY <1>4, <2>2, <2>3 DEF ExtractObject
<1>5. ASSUME NEW w \in Worker, Task(w) PROVE UNCHANGED <<bitcode, pc, i>>
  <2>1. TakeItem(w) => UNCHANGED <<bitcode, pc, i>>
    BY DEF TakeItem
  <2>2. ItemDone(w) => UNCHANGED <<bitcode, pc, i>>
    BY DEF ItemDone
  <2> QED
    BY <1>5, <2>1, <2>2 DEF Task, FilterFunction, SelectInstructions, IndexSource,
       FilterMutation, TransformModule, ApplyMutation, CompileModule
<1>6. CASE Main
  <2>1. GatherFunctions \/ FindMutationPoints \/ ReturnInputs \/ LeaveFilters \/ EndSelection
        \/ EndIndex => UNCHANGED bitcode /\ pc' # "extract"
    BY DEF GatherFunctions, FindMutationPoints, ReturnInputs, LeaveFilters, EndSelection, EndIndex
  <2>2. PrepareMutations => UNCHANGED bitcode /\ pc' # "extract"
    BY ApplyStagesFacts DEF PrepareMutations
  <2>5. EndApplyStage => UNCHANGED bitcode /\ pc' # "extract"
    <3>1. EndApplyStage => (i = 5 \/ i < 5)
      BY EndApplyStageFacts
    <3> QED
      BY <3>1, EndApplyStageFacts DEF Modifying
  <2>3. StartStage => UNCHANGED <<bitcode, pc, i>>
    BY DEF StartStage
  <2>4. EndFilter => UNCHANGED bitcode /\ pc' # "extract"
    BY StageNamesDiffer DEF EndFilter
  <2> QED
    BY <1>2, <1>3, <1>4, <1>6, <2>1, <2>2, <2>3, <2>4, <2>5 DEF Main
<1>7. UNCHANGED vars => UNCHANGED <<bitcode, pc, i>>
  BY DEF vars
<1> QED
  BY <1>3, <1>5, <1>6, <1>7 DEF Next, Terminated

(* The k-th item has been processed in the stage that is running.          *)
Done(k) == running /\ \E w \in Worker : cuts[w-1] < k /\ k <= at[w]

(* Each item is in one batch only.                                         *)
LEMMA OneOwner ==
    ASSUME TInv, running, NEW v \in Worker, NEW w \in Worker, NEW k \in Nat,
           cuts[v-1] < k, k <= cuts[v], cuts[w-1] < k, k <= cuts[w]
    PROVE  v = w
<1>1. inputObjects \in Programs /\ cuts \in Batches /\ Len(Items) \in Nat
  BY ItemsFacts DEF TInv, ExecutorInv, TypeOK
<1>2. /\ \A u \in Worker : cuts[u-1] \in Nat /\ cuts[u] \in Nat
      /\ \A t, u \in Worker : t < u => cuts[t] <= cuts[u-1]
  BY <1>1, BatchFacts
<1>3. v \in Nat /\ w \in Nat
  BY <1>1, ProgramFacts
<1>4. ~(v < w) /\ ~(w < v)
  BY <1>2
<1> QED
  BY <1>3, <1>4

(* An item has been processed when its worker is done with it.             *)
LEMMA DoneStep ==
    ASSUME TInv, NEW w \in Worker, ItemDone(w)
    PROVE  /\ ~Done(at[w] + 1)
           /\ \A k \in Nat : Done(k)' <=> Done(k) \/ k = at[w] + 1
<1>1. /\ running /\ running' /\ cuts' = cuts /\ at[w] \in Nat /\ at[w] < cuts[w]
      /\ \A v \in Worker : at'[v] = IF v = w THEN at[w] + 1 ELSE at[v]
      /\ \A v \in Worker : at[v] \in Nat /\ at[v] <= cuts[v]
  BY ItemDoneFacts, TypeParts DEF TInv, WorkerType
<1>2. cuts[w-1] < at[w] + 1 /\ at[w] + 1 <= cuts[w] /\ cuts[w-1] \in Nat
  BY <1>1, OwnItem
<1>3. ~Done(at[w] + 1)
  <2> SUFFICES ASSUME NEW v \in Worker, cuts[v-1] < at[w] + 1, at[w] + 1 <= at[v]
               PROVE  FALSE
    BY DEF Done
  <2>1. v # w /\ at[w] + 1 \in Nat
    BY <1>1
  <2>2. cuts[v] \in Nat
    <3>1. inputObjects \in Programs /\ cuts \in Batches /\ Len(Items) \in Nat
      BY <1>1, ItemsFacts DEF TInv, ExecutorInv, TypeOK
    <3> QED
      BY <3>1, BatchFacts
  <2>3. at[w] + 1 <= cuts[v]
    BY <1>1, <2>1, <2>2
  <2> QED
    BY <1>1, <1>2, <2>1, <2>3, OneOwner
<1>4. ASSUME NEW k \in Nat PROVE Done(k)' <=> Done(k) \/ k = at[w] + 1
  <2>1. Worker' = Worker
    BY DEF Worker
  <2>2. Done(k)' <=> \E v \in Worker : cuts[v-1] < k /\ k <= at'[v]
    BY <1>1, <2>1 DEF Done
  <2>3. Done(k) <=> \E v \in Worker : cuts[v-1] < k /\ k <= at[v]
    BY <1>1 DEF Done
  <2>4. ASSUME NEW v \in Worker, cuts[v-1] < k, k <= at'[v]
        PROVE  Done(k) \/ k = at[w] + 1
    <3>1. CASE v = w
      BY <1>1, <2>3, <2>4, <3>1
    <3>2. CASE v # w
      BY <1>1, <2>3, <2>4, <3>2
    <3> QED
      BY <3>1, <3>2
  <2>5. ASSUME NEW v \in Worker, cuts[v-1] < k, k <= at[v] PROVE k <= at'[v]
    BY <1>1, <2>5
  <2>6. k = at[w] + 1 => cuts[w-1] < k /\ k <= at'[w]
    BY <1>1, <1>2
  <2> QED
    BY <2>2, <2>3, <2>4, <2>5, <2>6
<1> QED
  BY <1>3, <1>4

(* Nothing is done when a stage starts, everything when all have joined.   *)
LEMMA DoneBounds ==
    ASSUME TInv
    PROVE  /\ \A k : ~running => ~Done(k)
           /\ \A k : ~running' => ~Done(k)'
           /\ Joined => \A k \in DOMAIN Items : Done(k)
           /\ StartStage => \A k \in Nat : ~Done(k)'
           /\ \A w \in Worker : TakeItem(w) => \A k : Done(k)' <=> Done(k)
           /\ UNCHANGED vars => \A k : Done(k)' <=> Done(k)
<1>1. \A k : (~running => ~Done(k)) /\ (~running' => ~Done(k)')
  BY DEF Done
<1>2. ASSUME Joined, NEW k \in DOMAIN Items PROVE Done(k)
  <2>1. /\ inputObjects \in Programs /\ cuts \in Batches /\ running
        /\ Len(Items) \in Nat /\ DOMAIN Items = 1..Len(Items)
    BY <1>2, ItemsFacts DEF TInv, ExecutorInv, TypeOK, Joined
  <2>2. cuts \in [0..Workers -> Nat] /\ cuts[0] = 0 /\ cuts[Workers] = Len(Items)
    BY <2>1, BatchFacts
  <2>3. Workers \in Nat /\ Worker = 1..Workers
    BY <2>1, ProgramFacts
  <2>4. k \in Nat /\ 0 < k /\ k <= Len(Items) /\ Workers \in 0..Workers
    BY <2>1, <2>3
  <2>5. \E w \in 1..Workers : cuts[w-1] < k /\ k <= cuts[w]
    BY <2>2, <2>3, <2>4, PassedOnce
  <2> QED
    BY <1>2, <2>1, <2>3, <2>5 DEF Done, Joined
<1>3. ASSUME StartStage, NEW k \in Nat PROVE ~Done(k)'
  <2>1. Worker' = Worker
    BY DEF Worker
  <2>2. \A w \in Worker : at'[w] = cuts'[w-1] /\ cuts'[w-1] \in Nat
    BY <1>3, StartStageFacts
  <2> QED
    BY <2>1, <2>2 DEF Done
<1>4. ASSUME UNCHANGED <<running, cuts, at>>, NEW k PROVE Done(k)' <=> Done(k)
  BY <1>4 DEF Done, Worker
<1>5. \A w \in Worker : TakeItem(w) => UNCHANGED <<running, cuts, at>>
  BY DEF TakeItem
<1>6. UNCHANGED vars => UNCHANGED <<running, cuts, at>>
  BY DEF vars, executor
<1> QED
  BY <1>1, <1>2, <1>3, <1>4, <1>5, <1>6

(* The theorem's invariant: two workers never hold items of one module.    *)
LEMMA Exclusion == ASSUME TInv, BitcodeInv PROVE ModuleExclusive
<1> SUFFICES ASSUME pc \in Modifying, NEW v \in Worker, NEW w \in Worker,
                    busy[v], busy[w], v # w
             PROVE  Item(v)[1] # Item(w)[1]
  BY DEF ModuleExclusive
<1>1. running /\ at[v] < cuts[v] /\ at[w] < cuts[w] /\ TypeOK /\ inputObjects \in Programs
  BY TypeParts DEF TInv, WorkerType, TypeOK
<1>2. /\ at[v] + 1 \in DOMAIN Items /\ cuts[v-1] < at[v] + 1 /\ at[v] + 1 <= cuts[v]
      /\ at[w] + 1 \in DOMAIN Items /\ cuts[w-1] < at[w] + 1 /\ at[w] + 1 <= cuts[w]
      /\ at[v] \in Nat /\ at[w] \in Nat
  BY <1>1, OwnItem
<1>3. at[v] + 1 # at[w] + 1
  BY <1>1, <1>2, OneOwner
<1>4. CASE pc = "apply"
  <2>1. cuts \in Batches /\ Len(Items) \in Nat
    BY <1>1, ItemsFacts DEF TInv, ExecutorInv
  <2>2. \A u \in Worker : u # 1 => cuts[u-1] = cuts[u] /\ cuts[u] \in Nat
    BY <1>1, <1>4, <2>1, BatchFacts
  <2>3. v = 1 /\ w = 1
    BY <1>2, <2>2
  <2> QED
    BY <2>3
<1>5. CASE pc \in {"clone", "delete", "redirect", "compile"}
  <2>1. Items = bitcode
    BY <1>1, <1>5, ItemsFacts
  <2>2. Item(v)[1] = bitcode[at[v] + 1][1] /\ Item(w)[1] = bitcode[at[w] + 1][1]
    BY <2>1 DEF Item
  <2>3. at[v] + 1 \in DOMAIN bitcode /\ at[w] + 1 \in DOMAIN bitcode
    BY <1>2, <2>1
  <2>4. \A k \in DOMAIN bitcode : bitcode[k][1] \in Nat /\ k \in Nat
    BY <1>1, BitcodeFacts
  <2>5. at[v] + 1 < at[w] + 1 \/ at[w] + 1 < at[v] + 1
    BY <1>2, <1>3
  <2> QED
    BY <2>2, <2>3, <2>4, <2>5 DEF BitcodeInv
<1> QED
  BY <1>4, <1>5 DEF Modifying

LEMMA BitcodeInvariance == Spec => [](TInv /\ BitcodeInv)
<1>1. Init => BitcodeInv
  BY DEF Init, BitcodeInv
<1> QED
  BY <1>1, TInvInit, TInvStep, BitcodeStep, PTL DEF Spec

(* An LLVM module is never changed or compiled by two workers at once:     *)
(* different batches hold different modules, and mutations, several of     *)
(* which may be in one module, are applied by a single task.               *)
THEOREM ModulesAreExclusive == Spec => []ModuleExclusive
  BY BitcodeInvariance, Exclusion, PTL

-----------------------------------------------------------------------------
(* The phases of the modules.                                              *)

PhaseOf(k) == modules[bitcode[k][1]].phase
PhaseBefore == [clone |-> "original", delete |-> "clone", redirect |-> "delete"]
Unmutated == \A o \in Object : modules[o].mutants = {}
Untouched == \A o \in Object : modules[o] = [phase |-> "original", added |-> {}, mutants |-> {}]
Redirected == \A k \in DOMAIN bitcode : PhaseOf(k) = "redirect"

(* How far the modules are in each stage.                                  *)
PhaseInv ==
    /\ pc \notin Modifying \cup {"done"} => Untouched
    /\ pc \in {"clone", "delete", "redirect"} =>
          /\ Unmutated
          /\ \A k \in DOMAIN bitcode : PhaseOf(k) = IF Done(k) THEN pc ELSE PhaseBefore[pc]
    /\ pc \in {"apply", "compile"} => Redirected
    /\ pc = "done" => Redirected \/ Untouched

(* The modules that are loaded are those of different objects.             *)
LEMMA DifferentModules ==
    ASSUME TInv, BitcodeInv, NEW k \in DOMAIN bitcode, NEW l \in DOMAIN bitcode,
           bitcode[k][1] = bitcode[l][1]
    PROVE  k = l
<1>1. k \in Nat /\ l \in Nat /\ bitcode[k][1] \in Nat
  BY BitcodeFacts DEF TInv
<1>2. ~(k < l) /\ ~(l < k)
  BY <1>1 DEF BitcodeInv
<1> QED
  BY <1>1, <1>2

LEMMA TransformPhase ==
    ASSUME TInv, BitcodeInv, PhaseInv, NEW w \in Worker, TransformModule(w)
    PROVE  PhaseInv'
<1>1. /\ ItemDone(w) /\ pc \in {"clone", "delete", "redirect"} /\ TypeOK
      /\ modules' = [modules EXCEPT ![Item(w)[1]].phase = pc]
  BY DEF TransformModule, TInv
<1>2. /\ UNCHANGED config /\ pc' = pc /\ bitcode' = bitcode
      /\ at[w] + 1 \in DOMAIN Items /\ Item(w) = Items[at[w] + 1] /\ Items = bitcode
  BY <1>1, ItemDoneFacts, ItemsFacts
<1> DEFINE o == bitcode[at[w] + 1][1]
<1>3. /\ o \in Object /\ modules \in [Object -> ModuleState] /\ at[w] + 1 \in DOMAIN bitcode
      /\ modules' = [modules EXCEPT ![o].phase = pc]
  BY <1>1, <1>2, BitcodeFacts, TypeParts DEF ModuleType
<1>4. \A p \in Object : /\ modules'[p].mutants = modules[p].mutants
                        /\ modules'[p].phase = IF p = o THEN pc ELSE modules[p].phase
  BY <1>3 DEF ModuleState
<1>5. ASSUME NEW k \in DOMAIN bitcode
      PROVE  modules'[bitcode[k][1]].phase = IF Done(k)' THEN pc ELSE PhaseBefore[pc]
  <2>1. k \in Nat /\ bitcode[k][1] \in Object
    BY <1>1, BitcodeFacts
  <2>2. Done(k)' <=> Done(k) \/ k = at[w] + 1
    BY <1>1, <2>1, DoneStep
  <2>3. PhaseOf(k) = IF Done(k) THEN pc ELSE PhaseBefore[pc]
    BY <1>1 DEF PhaseInv
  <2>4. bitcode[k][1] = o <=> k = at[w] + 1
    BY <1>3, DifferentModules
  <2> QED
    BY <1>4, <2>1, <2>2, <2>3, <2>4 DEF PhaseOf
<1>6. Unmutated'
  BY <1>1, <1>2, <1>4, Fixed DEF PhaseInv, Unmutated
<1> HIDE DEF o
<1>7. \A k \in DOMAIN bitcode' : PhaseOf(k)' = IF Done(k)' THEN pc' ELSE PhaseBefore[pc']
  BY <1>2, <1>5 DEF PhaseOf
<1>8. pc' \notin {"apply", "compile", "done"} /\ pc' \in Modifying
  BY <1>1, <1>2 DEF Modifying
<1> QED
  BY <1>6, <1>7, <1>8 DEF PhaseInv, PhaseBefore

LEMMA ApplyPhase ==
    ASSUME TInv, BitcodeInv, PhaseInv, NEW w \in Worker, ApplyMutation(w)
    PROVE  PhaseInv'
<1>1. /\ ItemDone(w) /\ pc = "apply" /\ TypeOK
      /\ modules' = [modules EXCEPT ![Item(w)[1]].mutants = modules[Item(w)[1]].mutants \cup {Item(w)}]
  BY DEF ApplyMutation, TInv
<1>2. UNCHANGED config /\ pc' = pc /\ bitcode' = bitcode
  BY <1>1, ItemDoneFacts
<1>3. modules \in [Object -> ModuleState]
  BY <1>1, TypeParts DEF ModuleType
<1>4. \A p \in Object : modules'[p].phase = modules[p].phase
  BY <1>1, <1>3 DEF ModuleState
<1>5. \A k \in DOMAIN bitcode : bitcode[k][1] \in Object
  BY <1>1, BitcodeFacts
<1>6. Redirected'
  BY <1>1, <1>2, <1>4, <1>5 DEF PhaseInv, Redirected, PhaseOf
<1> QED
  BY <1>1, <1>2, <1>6 DEF PhaseInv, Modifying

(* Where the modules, the stage and what is done in it stay the same.      *)
LEMMA SamePhase ==
    ASSUME TInv, PhaseInv, UNCHANGED config, UNCHANGED <<pc, bitcode, modules>>,
           pc \in {"clone", "delete", "redirect"} => \A k \in DOMAIN bitcode : Done(k)' <=> Done(k)
    PROVE  PhaseInv'
<1>1. Unmutated' = Unmutated /\ Untouched' = Untouched /\ Redirected' = Redirected
  BY Fixed DEF Unmutated, Untouched, Redirected, PhaseOf
<1>2. \A k \in DOMAIN bitcode : PhaseOf(k)' = PhaseOf(k)
  BY DEF PhaseOf
<1> QED
  BY <1>1, <1>2 DEF PhaseInv, Modifying, PhaseBefore

LEMMA PhaseStep == ASSUME TInv, BitcodeInv, PhaseInv, [Next]_vars PROVE PhaseInv'
<1>0. TypeOK /\ \A k \in DOMAIN bitcode : bitcode[k][1] \in Object /\ k \in Nat
  BY BitcodeFacts DEF TInv
<1>1. CASE /\ UNCHANGED config /\ UNCHANGED modules /\ pc \notin Modifying \cup {"done"}
           /\ pc' \notin Modifying
  <2>1. Untouched'
    BY <1>1, Fixed DEF PhaseInv, Untouched
  <2> QED
    BY <1>1, <2>1 DEF PhaseInv, Modifying
<1>2. ASSUME NEW w \in Worker, Task(w) PROVE PhaseInv'
  <2>1. CASE TakeItem(w)
    <3>1. UNCHANGED config /\ UNCHANGED <<pc, bitcode, modules>>
      BY <2>1 DEF TakeItem
    <3> QED
      BY <2>1, <3>1, DoneBounds, SamePhase
  <2>2. CASE FilterFunction(w) \/ SelectInstructions(w) \/ IndexSource(w) \/ FilterMutation(w)
             \/ CompileModule(w)
    <3>1. ItemDone(w) /\ UNCHANGED modules /\ pc \notin {"clone", "delete", "redirect"}
      BY <2>2 DEF FilterFunction, SelectInstructions, IndexSource, FilterMutation, CompileModule
    <3>2. UNCHANGED config /\ UNCHANGED <<pc, bitcode, modules>>
      BY <3>1 DEF ItemDone
    <3> QED
      BY <3>1, <3>2, SamePhase
  <2> QED
    BY <1>2, <2>1, <2>2, TransformPhase, ApplyPhase DEF Task
<1>3. CASE ExtractObject \/ GatherFunctions \/ FindMutationPoints \/ EndFilter \/ LeaveFilters
           \/ EndSelection \/ EndIndex
  BY <1>1, <1>3, StageNamesDiffer DEF ExtractObject, GatherFunctions, FindMutationPoints, EndFilter,
     LeaveFilters, EndSelection, EndIndex
<1>4. CASE ReturnInputs
  <2>1. UNCHANGED config /\ UNCHANGED modules /\ pc = "filtered" /\ pc' = "done"
    BY <1>4 DEF ReturnInputs
  <2> QED
    BY <1>1, <2>1 DEF Modifying
<1>5. CASE PrepareMutations
  <2>1. /\ UNCHANGED config /\ UNCHANGED bitcode /\ pc = "filtered" /\ pc' = "clone" /\ ~running'
        /\ modules' = [o \in Object |->
               [modules[o] EXCEPT !.added = {q \in Range(points) : q[1] = o}]]
    BY <1>5, ApplyStagesFacts, NotRunning, StageNamesDiffer DEF PrepareMutations, executor
  <2>2. Untouched /\ modules \in [Object -> ModuleState]
    BY <1>0, <2>1, TypeParts DEF PhaseInv, Modifying, ModuleType
  <2>3. \A o \in Object : modules'[o].phase = "original" /\ modules'[o].mutants = {}
    BY <2>1, <2>2 DEF Untouched, ModuleState
  <2>4. Unmutated'
    BY <2>1, <2>3, Fixed DEF Unmutated
  <2>5. \A k \in DOMAIN bitcode : PhaseOf(k)' = "original" /\ ~Done(k)'
    BY <1>0, <2>1, <2>3, DoneBounds DEF PhaseOf
  <2> QED
    BY <2>1, <2>4, <2>5 DEF PhaseInv, PhaseBefore, Modifying
<1>6. CASE StartStage
  <2>1. UNCHANGED config /\ UNCHANGED <<pc, bitcode, modules>> /\ ~running
    BY <1>6 DEF StartStage
  <2>2. \A k \in DOMAIN bitcode : ~Done(k) /\ ~Done(k)'
    BY <1>0, <1>6, <2>1, DoneBounds
  <2> QED
    BY <2>1, <2>2, SamePhase
<1>7. CASE EndApplyStage
  <2>1. /\ UNCHANGED config /\ UNCHANGED bitcode /\ UNCHANGED modules /\ Joined /\ running' = FALSE
        /\ i \in 1..5 /\ pc = ApplyStages[i]
        /\ i < 5 => pc' = ApplyStages[i + 1]
        /\ i = 5 => pc' = "done"
    BY <1>7, EndApplyStageFacts
  <2>2. Unmutated' = Unmutated /\ Redirected' = Redirected
        /\ \A k \in DOMAIN bitcode : PhaseOf(k)' = PhaseOf(k)
    BY <2>1, Fixed DEF Unmutated, Redirected, PhaseOf
  <2>3. \A k \in DOMAIN bitcode : ~Done(k)'
    BY <2>1, DoneBounds
  <2>4. pc \in {"clone", "delete", "redirect"} => \A k \in DOMAIN bitcode : Done(k) /\ PhaseOf(k) = pc
    BY <1>0, <2>1, DoneBounds, ItemsFacts DEF PhaseInv
  <2>5. CASE i = 1
    <3>1. pc = "clone" /\ pc' = "delete"
      BY <2>1, <2>5, ApplyStagesFacts
    <3> QED
      BY <2>1, <2>2, <2>3, <2>4, <3>1 DEF PhaseInv, PhaseBefore, Modifying
  <2>6. CASE i = 2
    <3>1. pc = "delete" /\ pc' = "redirect"
      BY <2>1, <2>6, ApplyStagesFacts
    <3> QED
      BY <2>1, <2>2, <2>3, <2>4, <3>1 DEF PhaseInv, PhaseBefore, Modifying
  <2>7. CASE i = 3
    <3>1. pc = "redirect" /\ pc' = "apply"
      BY <2>1, <2>7, ApplyStagesFacts
    <3> QED
      BY <2>1, <2>2, <2>4, <3>1 DEF PhaseInv, Redirected, Modifying
  <2>8. CASE i = 4
    <3>1. pc = "apply" /\ pc' = "compile"
      BY <2>1, <2>8, ApplyStagesFacts
    <3> QED
      BY <2>2, <3>1 DEF PhaseInv, Modifying
  <2>9. CASE i = 5
    <3>1. pc = "compile" /\ pc' = "done"
      BY <2>1, <2>9, ApplyStagesFacts
    <3> QED
      BY <2>2, <3>1 DEF PhaseInv, Modifying
  <2> QED
    BY <2>1, <2>5, <2>6, <2>7, <2>8, <2>9
<1>8. CASE UNCHANGED vars
  <2>1. UNCHANGED config /\ UNCHANGED <<pc, bitcode, modules>>
    BY <1>8 DEF vars
  <2> QED
    BY <1>8, <2>1, DoneBounds, SamePhase
<1> QED
  BY <1>2, <1>3, <1>4, <1>5, <1>6, <1>7, <1>8 DEF Next, Main, Terminated

LEMMA Barriers == ASSUME TInv, PhaseInv PROVE StagesAreBarriers
<1> DEFINE rank(k) == PhaseRank[modules[bitcode[k][1]].phase]
<1>1. \A k \in DOMAIN bitcode : rank(k) = PhaseRank[PhaseOf(k)] /\ bitcode[k][1] \in Object
  BY BitcodeFacts DEF TInv, PhaseOf
<1>2. pc \in Parallel \cup {"extract", "search", "filtered", "done"}
  BY DEF TInv, TypeOK
<1>3. CASE pc \in {"clone", "delete", "redirect"}
  <2>1. \A k \in DOMAIN bitcode : PhaseOf(k) = pc \/ PhaseOf(k) = PhaseBefore[pc]
    BY <1>3 DEF PhaseInv
  <2>2. /\ PhaseRank["original"] = 0 /\ PhaseRank["clone"] = 1
        /\ PhaseRank["delete"] = 2 /\ PhaseRank["redirect"] = 3
    BY DEF PhaseRank
  <2>3. PhaseRank[pc] \in Nat /\ PhaseRank[PhaseBefore[pc]] \in Nat
        /\ PhaseRank[pc] = PhaseRank[PhaseBefore[pc]] + 1
    BY <1>3, <2>2 DEF PhaseBefore
  <2>4. \A k, l \in DOMAIN bitcode : rank(k) <= rank(l) + 1
    <3> HIDE DEF rank
    <3>1. \A k \in DOMAIN bitcode : rank(k) = PhaseRank[pc] \/ rank(k) = PhaseRank[PhaseBefore[pc]]
      BY <1>1, <2>1
    <3> QED
      BY <2>3, <3>1
  <2>5. \A o \in Object : modules[o].mutants = {}
    BY <1>3 DEF PhaseInv, Unmutated
  <2> QED
    BY <2>4, <2>5 DEF StagesAreBarriers
<1>4. CASE Redirected
  <2>1. \A k \in DOMAIN bitcode : rank(k) = 3
    BY <1>1, <1>4 DEF Redirected, PhaseRank
  <2> QED
    BY <2>1 DEF StagesAreBarriers
<1>5. CASE Untouched
  <2>1. \A k \in DOMAIN bitcode : rank(k) = 0
    BY <1>1, <1>5 DEF Untouched, PhaseRank
  <2>2. \A o \in Object : modules[o].mutants = {}
    BY <1>5 DEF Untouched
  <2> QED
    BY <2>1, <2>2 DEF StagesAreBarriers
<1> QED
  BY <1>2, <1>3, <1>4, <1>5 DEF PhaseInv, Modifying

LEMMA PhaseInvariance == Spec => [](TInv /\ BitcodeInv /\ PhaseInv)
<1>1. Init => PhaseInv
  BY DEF Init, PhaseInv, Untouched, Modifying
<1>2. Init => BitcodeInv
  BY DEF Init, BitcodeInv
<1> QED
  BY <1>1, <1>2, TInvInit, TInvStep, BitcodeStep, PhaseStep, PTL DEF Spec

(* Cloning, deleting, redirecting, applying and compiling are separated by *)
(* barriers for all modules: no stage starts before all workers have       *)
(* finished the one before, and no mutation is applied to a module without *)
(* its trampolines.                                                        *)
THEOREM StagesDoNotOverlap == Spec => []StagesAreBarriers
  BY PhaseInvariance, Barriers, PTL

-----------------------------------------------------------------------------
(* The mutation points that survive.                                       *)

Mutable == UNION {PointsIn(bitcode[k][1]) : k \in DOMAIN bitcode}
Survivors == Mutable \ rejected

LEMMA KeepDistinct ==
    ASSUME NEW A, NEW s \in Seq(A), NEW S, Distinct(s)
    PROVE  Distinct(Keep(s, S))
<1>1. OrderedBy(s, Apart(A))
  BY DistinctOrdered
<1>2. Keep(s, S) \in Seq(A) /\ OrderedBy(Keep(s, S), Apart(A))
  BY <1>1, KeepFacts
<1> QED
  BY <1>2, DistinctOrdered

(* Different functions have different points.                              *)
LEMMA PointsApart ==
    ASSUME inputObjects \in Programs, NEW fn \in Function, NEW gn \in Function, fn # gn
    PROVE  PointsOf(fn) \cap PointsOf(gn) = {}
  BY PointFacts

LEMMA AllFunctionsDistinct == ASSUME TInv, BitcodeInv PROVE Distinct(AllFunctions)
<1> DEFINE ss == [k \in DOMAIN bitcode |-> FunctionsOf(bitcode[k][1])]
<1>1. TypeOK /\ inputObjects \in Programs
  BY DEF TInv, TypeOK
<1>2. /\ Len(bitcode) \in Nat /\ DOMAIN bitcode = 1..Len(bitcode)
      /\ \A k \in DOMAIN bitcode : bitcode[k][1] \in Object /\ bitcode[k][1] \in Nat
  BY <1>1, BitcodeFacts
<1>3. ASSUME NEW o \in Object
      PROVE  /\ FunctionsOf(o) \in Seq(Function) /\ Distinct(FunctionsOf(o))
             /\ \A x \in Range(FunctionsOf(o)) : x[1] = o
  <2>1. inputObjects[o].functions \in Seq(Nat)
    BY <1>1, ProgramFacts
  <2>2. DOMAIN inputObjects[o].functions = 1..Len(inputObjects[o].functions)
        /\ Len(inputObjects[o].functions) \in Nat
    BY <2>1
  <2>3. \A f \in DOMAIN inputObjects[o].functions : <<o, f>> \in Function
    BY <1>1, FunctionFacts
  <2>4. FunctionsOf(o) \in Seq(Function)
    BY <2>2, <2>3 DEF FunctionsOf
  <2>5. \A a \in DOMAIN FunctionsOf(o) : FunctionsOf(o)[a] = <<o, a>>
    BY DEF FunctionsOf
  <2>6. Distinct(FunctionsOf(o))
    BY <2>5 DEF Distinct
  <2>7. \A x \in Range(FunctionsOf(o)) : x[1] = o
    BY <2>5 DEF Range
  <2> QED
    BY <2>4, <2>6, <2>7
<1>4. DOMAIN ss = DOMAIN bitcode /\ \A k \in DOMAIN bitcode : ss[k] = FunctionsOf(bitcode[k][1])
  OBVIOUS
<1>5. ss = [k \in DOMAIN bitcode |-> ss[k]]
  OBVIOUS
<1>6. AllFunctions = FlattenSeq(ss)
  BY DEF AllFunctions
<1> HIDE DEF ss
<1>7. ss \in Seq(Seq(Function))
  <2>1. \A k \in DOMAIN bitcode : ss[k] \in Seq(Function)
    BY <1>2, <1>3, <1>4
  <2> QED
    BY <1>2, <1>4, <1>5, <2>1
<1>8. \A k \in DOMAIN ss : Distinct(ss[k])
  BY <1>2, <1>3, <1>4
<1>9. ASSUME NEW k \in DOMAIN ss, NEW l \in DOMAIN ss, k < l
      PROVE  Range(ss[k]) \cap Range(ss[l]) = {}
  <2>1. bitcode[k][1] # bitcode[l][1]
    BY <1>2, <1>4, <1>9 DEF BitcodeInv
  <2>2. \A x \in Range(ss[k]) : x[1] = bitcode[k][1]
    BY <1>2, <1>3, <1>4
  <2>3. \A x \in Range(ss[l]) : x[1] = bitcode[l][1]
    BY <1>2, <1>3, <1>4
  <2> QED
    BY <2>1, <2>2, <2>3
<1> QED
  BY <1>6, <1>7, <1>8, <1>9, DistinctFlatten

LEMMA AllPointsDistinct == ASSUME TInv, Distinct(functions) PROVE Distinct(AllPoints)
<1> DEFINE ss == [k \in DOMAIN functions |-> PointList(functions[k])]
<1>1. inputObjects \in Programs /\ functions \in Seq(Function)
  BY DEF TInv, TypeOK
<1>2. /\ Len(functions) \in Nat /\ DOMAIN functions = 1..Len(functions)
      /\ \A k \in DOMAIN functions : functions[k] \in Function /\ k \in Nat
  BY <1>1, ElementOfSeq
<1>3. ASSUME NEW fn \in Function
      PROVE  /\ PointList(fn) \in Seq(Point) /\ Distinct(PointList(fn))
             /\ Range(PointList(fn)) = PointsOf(fn)
  <2>1. fn[1] \in Object /\ fn[2] \in DOMAIN inputObjects[fn[1]].functions
    BY <1>1, FunctionFacts
  <2>2. inputObjects[fn[1]].functions \in Seq(Nat)
    BY <1>1, <2>1, ProgramFacts
  <2>3. inputObjects[fn[1]].functions[fn[2]] \in Nat
    BY <2>1, <2>2, ElementOfSeq
  <2>4. Range(PointList(fn)) = PointsOf(fn)
    BY DEF PointList, PointsOf, Range
  <2>5. PointsOf(fn) \subseteq Point
    BY <1>1, PointFacts
  <2>6. \A p \in DOMAIN PointList(fn) : PointList(fn)[p] \in Point
    BY <2>4, <2>5 DEF Range
  <2>7. /\ DOMAIN PointList(fn) = 1..inputObjects[fn[1]].functions[fn[2]]
        /\ PointList(fn) = [p \in DOMAIN PointList(fn) |-> PointList(fn)[p]]
        /\ \A p \in DOMAIN PointList(fn) : PointList(fn)[p] = <<fn[1], fn[2], p>>
    BY DEF PointList
  <2>8. \A a, b : a # b => <<fn[1], fn[2], a>> # <<fn[1], fn[2], b>>
    OBVIOUS
  <2>9. Distinct(PointList(fn))
    BY <2>7, <2>8 DEF Distinct
  <2> QED
    BY <2>3, <2>4, <2>6, <2>7, <2>9
<1>4. DOMAIN ss = DOMAIN functions /\ \A k \in DOMAIN functions : ss[k] = PointList(functions[k])
  OBVIOUS
<1>5. ss = [k \in DOMAIN functions |-> ss[k]]
  OBVIOUS
<1>6. AllPoints = FlattenSeq(ss)
  BY DEF AllPoints
<1> HIDE DEF ss
<1>7. ss \in Seq(Seq(Point))
  <2>1. \A k \in DOMAIN functions : ss[k] \in Seq(Point)
    BY <1>2, <1>3, <1>4
  <2> QED
    BY <1>2, <1>4, <1>5, <2>1
<1>8. \A k \in DOMAIN ss : Distinct(ss[k])
  BY <1>2, <1>3, <1>4
<1>9. ASSUME NEW k \in DOMAIN ss, NEW l \in DOMAIN ss, k < l
      PROVE  Range(ss[k]) \cap Range(ss[l]) = {}
  <2>1. functions[k] # functions[l] /\ functions[k] \in Function /\ functions[l] \in Function
    BY <1>2, <1>4, <1>9 DEF Distinct
  <2>2. Range(ss[k]) = PointsOf(functions[k]) /\ Range(ss[l]) = PointsOf(functions[l])
    BY <1>2, <1>3, <1>4
  <2> QED
    BY <1>1, <2>1, <2>2, PointsApart
<1> QED
  BY <1>6, <1>7, <1>8, <1>9, DistinctFlatten

(* Workers that store distinct results, no two the same, leave a list of   *)
(* distinct results.                                                       *)
LEMMA ResultsDistinct ==
    ASSUME TInv, running, \A w \in Worker : Distinct(stored[w]),
           \A v, w \in Worker : v # w => Range(stored[v]) \cap Range(stored[w]) = {}
    PROVE  Distinct(Results)
<1> DEFINE ss == [w \in Worker |-> stored[w]]
<1>1. stored \in [Worker -> Seq(ResultType)] /\ inputObjects \in Programs
  BY DEF TInv, ExecutorInv, TypeOK
<1>2. Workers \in Nat /\ Worker = 1..Workers
  BY <1>1, ProgramFacts
<1>3. ss \in Seq(Seq(ResultType)) /\ DOMAIN ss = Worker
  <2>1. \A w \in 1..Workers : stored[w] \in Seq(ResultType)
    BY <1>1, <1>2
  <2> QED
    BY <1>2, <2>1
<1>4. \A w \in Worker : ss[w] = stored[w]
  OBVIOUS
<1>5. Results = FlattenSeq(ss)
  BY DEF Results
<1> HIDE DEF ss
<1>6. \A k \in DOMAIN ss : Distinct(ss[k])
  BY <1>3, <1>4
<1>7. ASSUME NEW k \in DOMAIN ss, NEW l \in DOMAIN ss, k < l
      PROVE  Range(ss[k]) \cap Range(ss[l]) = {}
  <2>1. k \in Worker /\ l \in Worker /\ k # l
    BY <1>2, <1>3, <1>7
  <2>2. ss[k] = stored[k] /\ ss[l] = stored[l]
    BY <1>4, <2>1
  <2> QED
    BY <2>1, <2>2
<1> QED
  BY <1>3, <1>5, <1>6, <1>7, DistinctFlatten

(* The filters look at functions or at points; what is not rejected is     *)
(* covered by an item in play.                                             *)
Covered(x) == IF pc = "mutationFilter" THEN {x} ELSE PointsOf(x)
StoredItems == UNION {Range(stored[w]) : w \in Worker}
Dropped(k) == Done(k) /\ Items[k] \notin StoredItems

InPlay ==
    /\ Distinct(Items)
    /\ \A k \in DOMAIN Items : Covered(Items[k]) \subseteq Mutable
    /\ \A q \in Survivors : \E k \in DOMAIN Items : q \in Covered(Items[k])

(* A filter has rejected the points of exactly the items it dropped.       *)
FilterInv ==
    pc \in FilterStages =>
        /\ InPlay
        /\ \A k \in DOMAIN Items : \A q \in Covered(Items[k]) : q \in rejected <=> Dropped(k)
        /\ running => \A w \in Worker :
              /\ Distinct(stored[w])
              /\ Range(stored[w]) \subseteq {Items[k] : k \in cuts[w-1] + 1 .. at[w]}

LEMMA SameMutable ==
    ASSUME UNCHANGED config, UNCHANGED bitcode PROVE Mutable' = Mutable
<1>1. \A o : PointsIn(o)' = PointsIn(o)
  BY Fixed DEF PointsIn
<1> QED
  BY <1>1 DEF Mutable

LEMMA SameCovered ==
    ASSUME UNCHANGED config, UNCHANGED pc PROVE \A x : Covered(x)' = Covered(x)
  BY Fixed DEF Covered, PointsOf

(* Different items cover different points.                                 *)
LEMMA CoveredApart ==
    ASSUME TInv, pc \in {"functionFilter", "select", "mutationFilter"}, Distinct(Items),
           NEW k \in DOMAIN Items, NEW l \in DOMAIN Items, k # l
    PROVE  Covered(Items[k]) \cap Covered(Items[l]) = {}
<1>1. Items[k] # Items[l] /\ inputObjects \in Programs /\ TypeOK
  BY DEF Distinct, TInv, TypeOK
<1>2. CASE pc = "mutationFilter"
  BY <1>1, <1>2 DEF Covered
<1>3. CASE pc # "mutationFilter"
  <2>1. Items \in Seq(Function)
    BY <1>1, <1>3, ItemsFacts
  <2>2. Items[k] \in Function /\ Items[l] \in Function
    BY <2>1, ElementOfSeq
  <2> QED
    BY <1>1, <1>3, <2>2, PointsApart DEF Covered
<1> QED
  BY <1>2, <1>3

(* A filter has looked at one more item.                                   *)
LEMMA FilterItem ==
    ASSUME TInv, FilterInv, NEW w \in Worker, ItemDone(w), pc \in FilterStages,
           \/ /\ stored' = [stored EXCEPT ![w] = Append(stored[w], Item(w))]
              /\ rejected' = rejected
           \/ /\ stored' = stored
              /\ rejected' = rejected \cup Covered(Item(w))
    PROVE  FilterInv'
<1> DEFINE m == at[w] + 1
<1>1. /\ TypeOK /\ UNCHANGED config /\ running /\ running' /\ pc' = pc /\ cuts' = cuts
      /\ bitcode' = bitcode /\ Items' = Items /\ m \in DOMAIN Items /\ Item(w) = Items[m]
      /\ at[w] < cuts[w] /\ at' = [at EXCEPT ![w] = m] /\ at \in [Worker -> Nat]
  BY ItemDoneFacts DEF TInv
<1>2. /\ Mutable' = Mutable /\ (\A x : Covered(x)' = Covered(x)) /\ Worker' = Worker
  BY <1>1, SameMutable, SameCovered DEF Worker
<1>3. /\ InPlay /\ \A k \in DOMAIN Items : \A q \in Covered(Items[k]) : q \in rejected <=> Dropped(k)
      /\ \A v \in Worker : /\ Distinct(stored[v])
                           /\ Range(stored[v]) \subseteq {Items[k] : k \in cuts[v-1] + 1 .. at[v]}
  BY <1>1 DEF FilterInv
<1>4. ~Done(m) /\ \A k \in DOMAIN Items : Done(k)' <=> Done(k) \/ k = m
  BY <1>1, DoneStep, ItemsFacts
<1>5. \A v \in Worker : /\ at[v] \in Nat /\ cuts[v-1] \in Nat
                        /\ cuts[v-1] + 1 .. at[v] \subseteq cuts[v-1] + 1 .. at'[v]
                        /\ cuts[v-1] < at[v] + 1
  <2>1. cuts \in Batches /\ inputObjects \in Programs /\ Len(Items) \in Nat
        /\ \A v \in Worker : cuts[v-1] <= at[v]
    BY <1>1, ItemsFacts DEF TInv, ExecutorInv, TypeOK
  <2>2. \A v \in Worker : at[v] \in Nat /\ cuts[v-1] \in Nat
    BY <1>1, <2>1, BatchFacts
  <2>3. \A v \in Worker : at'[v] = at[v] \/ at'[v] = at[v] + 1
    BY <1>1
  <2> QED
    BY <2>1, <2>2, <2>3
<1>6. \A v \in Worker : \A k \in cuts[v-1] + 1 .. at[v] : k \in Nat /\ Done(k)
  <2> SUFFICES ASSUME NEW v \in Worker, NEW k \in cuts[v-1] + 1 .. at[v] PROVE k \in Nat /\ Done(k)
    OBVIOUS
  <2>1. k \in Nat /\ cuts[v-1] < k /\ k <= at[v]
    BY <1>5
  <2> QED
    BY <1>1, <2>1 DEF Done
<1>7. \A v \in Worker : \A k \in cuts[v-1] + 1 .. at[v] : k \in DOMAIN Items
  <2>1. /\ DOMAIN Items = 1..Len(Items) /\ Len(Items) \in Nat /\ cuts \in Batches
        /\ inputObjects \in Programs
    BY <1>1, ItemsFacts DEF TInv, ExecutorInv, TypeOK
  <2>2. \A v \in Worker : cuts[v] \in Nat /\ cuts[v] <= Len(Items) /\ at[v] <= cuts[v]
    BY <1>1, <2>1, BatchFacts, TypeParts DEF WorkerType
  <2> QED
    BY <1>5, <2>1, <2>2
<1> HIDE DEF m
<1>8. Items[m] \notin StoredItems
  <2> SUFFICES ASSUME NEW v \in Worker, Items[m] \in Range(stored[v]) PROVE FALSE
    BY DEF StoredItems
  <2>1. PICK k \in cuts[v-1] + 1 .. at[v] : Items[m] = Items[k]
    BY <1>3
  <2>2. k \in DOMAIN Items /\ Done(k)
    BY <1>6, <1>7
  <2>3. k = m
    BY <1>1, <1>3, <2>1, <2>2 DEF InPlay, Distinct
  <2> QED
    BY <1>4, <2>2, <2>3
<1>9. \A k \in DOMAIN Items : k # m => Items[k] # Items[m] /\ Covered(Items[k]) \cap Covered(Items[m]) = {}
  <2>1. pc \in {"functionFilter", "select", "mutationFilter"}
    BY StageNamesDiffer
  <2> QED
    BY <1>1, <1>3, <2>1, CoveredApart DEF InPlay, Distinct
<1>10. Dropped(m) <=> FALSE
  BY <1>4 DEF Dropped
<1>11. stored \in [Worker -> Seq(ResultType)] /\ Item(w) \in ResultType
  <2>1. stored \in [Worker -> Seq(ResultType)]
    BY <1>1 DEF TInv, ExecutorInv
  <2>2. Items \in Seq(ResultType)
    BY <1>1, ItemsFacts, StageNamesDiffer DEF ResultType
  <2>3. Items[m] \in ResultType
    BY <1>1, <2>2, ElementOfSeq
  <2> QED
    BY <1>1, <2>1, <2>3
<1>12. CASE /\ stored' = [stored EXCEPT ![w] = Append(stored[w], Item(w))] /\ rejected' = rejected
  <2>1. \A v \in Worker : stored'[v] = IF v = w THEN Append(stored[w], Items[m]) ELSE stored[v]
    BY <1>1, <1>11, <1>12
  <2>2. Range(Append(stored[w], Items[m])) = Range(stored[w]) \cup {Items[m]}
    <3>1. stored[w] \in Seq(ResultType) /\ Items[m] \in ResultType
      BY <1>1, <1>11
    <3> QED
      BY <3>1, AppendFacts
  <2>3. StoredItems' = StoredItems \cup {Items[m]}
    BY <1>2, <2>1, <2>2 DEF StoredItems
  <2>4. ASSUME NEW k \in DOMAIN Items PROVE Dropped(k)' <=> Dropped(k)
    <3>1. CASE k = m
      BY <1>1, <1>10, <2>3, <3>1 DEF Dropped
    <3>2. CASE k # m
      BY <1>1, <1>4, <1>9, <2>3, <3>2 DEF Dropped
    <3> QED
      BY <3>1, <3>2
  <2>5. InPlay'
    BY <1>1, <1>2, <1>3, <1>12 DEF InPlay, Survivors
  <2>6. ASSUME NEW v \in Worker
        PROVE  /\ Distinct(stored'[v])
               /\ Range(stored'[v]) \subseteq {Items[k] : k \in cuts[v-1] + 1 .. at'[v]}
    <3>1. CASE v = w
      <4>1. Distinct(Append(stored[w], Items[m]))
        BY <1>1, <1>3, <1>8, <1>11, DistinctAppend DEF StoredItems
      <4>2. m \in cuts[w-1] + 1 .. at'[w]
        <5>1. at'[w] = m /\ m \in Nat /\ cuts[w-1] < m
          BY <1>1, <1>5 DEF m
        <5> QED
          BY <1>5, <5>1
      <4>3. Range(stored[w]) \subseteq {Items[k] : k \in cuts[w-1] + 1 .. at'[w]}
        BY <1>3, <1>5
      <4>4. Items[m] \in {Items[k] : k \in cuts[w-1] + 1 .. at'[w]}
        BY <4>2
      <4>5. stored'[v] = Append(stored[w], Items[m])
        BY <2>1, <3>1
      <4> QED
        BY <2>2, <3>1, <4>1, <4>3, <4>4, <4>5
    <3>2. CASE v # w
      <4>1. stored'[v] = stored[v]
        BY <2>1, <3>2
      <4>2. Range(stored[v]) \subseteq {Items[k] : k \in cuts[v-1] + 1 .. at'[v]}
        BY <1>3, <1>5
      <4> QED
        BY <1>3, <4>1, <4>2
    <3> QED
      BY <3>1, <3>2
  <2>7. \A k \in DOMAIN Items : \A q \in Covered(Items[k]) : q \in rejected' <=> Dropped(k)'
    BY <1>3, <1>12, <2>4
  <2>8. \A k \in DOMAIN Items' : \A q \in Covered(Items[k])' : q \in rejected' <=> Dropped(k)'
    BY <1>1, <1>2, <2>7
  <2>9. \A v \in Worker' :
            /\ Distinct(stored'[v])
            /\ Range(stored'[v]) \subseteq {Items'[k] : k \in cuts'[v-1] + 1 .. at'[v]}
    <3>1. \A v \in Worker : {Items'[k] : k \in cuts'[v-1] + 1 .. at'[v]}
                            = {Items[k] : k \in cuts[v-1] + 1 .. at'[v]}
      BY <1>1
    <3> QED
      BY <1>2, <2>6, <3>1
  <2> QED
    BY <2>5, <2>8, <2>9 DEF FilterInv, Distinct
<1>13. CASE stored' = stored /\ rejected' = rejected \cup Covered(Item(w))
  <2>1. StoredItems' = StoredItems
    BY <1>2, <1>13 DEF StoredItems
  <2>2. InPlay'
    BY <1>1, <1>2, <1>3, <1>13 DEF InPlay, Survivors
  <2>3. ASSUME NEW k \in DOMAIN Items, NEW q \in Covered(Items[k])
        PROVE  q \in rejected' <=> Dropped(k)'
    <3>1. CASE k = m
      <4>1. Dropped(k)'
        BY <1>1, <1>4, <1>8, <2>1, <2>3, <3>1 DEF Dropped
      <4> QED
        BY <1>1, <1>13, <2>3, <3>1, <4>1
    <3>2. CASE k # m
      <4>1. Dropped(k)' <=> Dropped(k)
        BY <1>1, <1>4, <2>1, <2>3, <3>2 DEF Dropped
      <4>2. q \notin Covered(Items[m])
        BY <1>9, <2>3, <3>2
      <4> QED
        BY <1>1, <1>3, <1>13, <2>3, <4>1, <4>2
    <3> QED
      BY <3>1, <3>2
  <2>4. \A v \in Worker : Range(stored'[v]) \subseteq {Items[k] : k \in cuts[v-1] + 1 .. at'[v]}
    BY <1>3, <1>5, <1>13
  <2> QED
    BY <1>1, <1>2, <1>3, <1>13, <2>2, <2>3, <2>4 DEF FilterInv, FilterStages
<1> QED
  BY <1>12, <1>13

(* A list whose items cover the survivors and nothing else.                *)
Fresh ==
    /\ Distinct(Items)
    /\ \A k \in DOMAIN Items : Covered(Items[k]) \subseteq Survivors
    /\ \A q \in Survivors : \E k \in DOMAIN Items : q \in Covered(Items[k])

(* Between two filters the list in play is one.                            *)
LEMMA FreshBetween == FilterInv /\ ~running /\ pc \in FilterStages => Fresh
<1>1. ~running => \A k : ~Dropped(k)
  BY DEF Dropped, Done
<1> QED
  BY <1>1 DEF FilterInv, Fresh, InPlay, Survivors

LEMMA FreshAgain == Fresh /\ ~running => FilterInv
<1>1. ~running => \A k : ~Dropped(k)
  BY DEF Dropped, Done
<1> QED
  BY <1>1 DEF FilterInv, Fresh, InPlay, Survivors

LEMMA FreshPrime == Fresh' /\ ~running' => FilterInv'
<1>1. ~running' => \A k : ~Dropped(k)'
  BY DEF Dropped, Done
<1>2. Survivors' = Mutable' \ rejected'
  BY DEF Survivors
<1> QED
  BY <1>1, <1>2 DEF FilterInv, Fresh, InPlay

(* What a filter leaves.                                                   *)
LEMMA JoinedFilter ==
    ASSUME TInv, FilterInv, Joined, pc \in FilterStages
    PROVE  /\ Distinct(Results)
           /\ \A x \in Range(Results) : Covered(x) \subseteq Survivors
           /\ \A q \in Survivors : \E x \in Range(Results) : q \in Covered(x)
           /\ Range(Results) \subseteq Range(Items) /\ Range(Results) = StoredItems
<1>1. /\ TypeOK /\ inputObjects \in Programs /\ running
      /\ cuts \in Batches /\ (\A v \in Worker : cuts[v-1] <= at[v])
      /\ DOMAIN Items = 1..Len(Items) /\ Len(Items) \in Nat
  BY ItemsFacts DEF TInv, TypeOK, ExecutorInv, Joined
<1>2. /\ InPlay /\ \A k \in DOMAIN Items : \A q \in Covered(Items[k]) : q \in rejected <=> Dropped(k)
      /\ \A v \in Worker : /\ Distinct(stored[v])
                           /\ Range(stored[v]) \subseteq {Items[k] : k \in cuts[v-1] + 1 .. at[v]}
  BY <1>1 DEF FilterInv
<1>3. \A v \in Worker : /\ at[v] = cuts[v] /\ at[v] \in Nat /\ cuts[v-1] \in Nat
                        /\ cuts[v] \in Nat /\ cuts[v] <= Len(Items)
  BY <1>1, BatchFacts DEF Joined
<1>4. \A v \in Worker : \A k \in cuts[v-1] + 1 .. at[v] :
          k \in Nat /\ k \in DOMAIN Items /\ cuts[v-1] < k /\ k <= cuts[v]
  BY <1>1, <1>3
<1>5. \A v \in Worker : \A x \in Range(stored[v]) :
          \E k \in Nat : x = Items[k] /\ k \in DOMAIN Items /\ cuts[v-1] < k /\ k <= cuts[v]
  <2> SUFFICES ASSUME NEW v \in Worker, NEW x \in Range(stored[v])
               PROVE  \E k \in Nat : x = Items[k] /\ k \in DOMAIN Items /\ cuts[v-1] < k /\ k <= cuts[v]
    OBVIOUS
  <2>1. PICK k \in cuts[v-1] + 1 .. at[v] : x = Items[k]
    BY <1>2
  <2> QED
    BY <1>4, <2>1
<1>6. ASSUME NEW v \in Worker, NEW w \in Worker, v # w
      PROVE  Range(stored[v]) \cap Range(stored[w]) = {}
  <2> SUFFICES ASSUME NEW x \in Range(stored[v]), x \in Range(stored[w]) PROVE FALSE
    OBVIOUS
  <2>1. PICK k \in Nat : x = Items[k] /\ k \in DOMAIN Items /\ cuts[v-1] < k /\ k <= cuts[v]
    BY <1>5
  <2>2. PICK l \in Nat : x = Items[l] /\ l \in DOMAIN Items /\ cuts[w-1] < l /\ l <= cuts[w]
    BY <1>5
  <2>3. k = l
    BY <1>2, <2>1, <2>2 DEF InPlay, Distinct
  <2> QED
    BY <1>1, <1>6, <2>1, <2>2, <2>3, OneOwner
<1>7. Distinct(Results)
  BY <1>1, <1>2, <1>6, ResultsDistinct
<1>8. Range(Results) = StoredItems
  BY <1>1, ResultsFacts DEF StoredItems
<1>9. \A x \in StoredItems : \E k \in DOMAIN Items : x = Items[k]
  BY <1>5 DEF StoredItems
<1>10. ASSUME NEW k \in DOMAIN Items, NEW q \in Covered(Items[k])
       PROVE  q \in Mutable /\ (q \notin rejected <=> Items[k] \in StoredItems)
  <2>1. Done(k)
    BY DoneBounds
  <2> QED
    BY <1>2, <2>1 DEF Dropped, InPlay
<1>11. \A x \in StoredItems : Covered(x) \subseteq Survivors
  BY <1>9, <1>10 DEF Survivors
<1>12. ASSUME NEW q \in Survivors PROVE \E x \in StoredItems : q \in Covered(x)
  <2>1. PICK k \in DOMAIN Items : q \in Covered(Items[k])
    BY <1>2 DEF InPlay
  <2>2. Items[k] \in StoredItems
    BY <1>10, <2>1 DEF Survivors
  <2> QED
    BY <2>1, <2>2
<1>13. Range(Results) \subseteq Range(Items)
  BY <1>8, <1>9 DEF Range
<1> QED
  BY <1>7, <1>8, <1>11, <1>12, <1>13

(* Where a filter stage goes on with the same items.                       *)
LEMMA SameFilter ==
    ASSUME TInv, FilterInv, UNCHANGED config, UNCHANGED <<pc, bitcode, functions, points, rejected>>,
           UNCHANGED <<running, cuts, at, stored>>
    PROVE  FilterInv'
<1>1. Mutable' = Mutable /\ (\A x : Covered(x)' = Covered(x)) /\ Worker' = Worker
  BY SameMutable, SameCovered DEF Worker
<1>2. Items' = Items
  BY DEF Items, Sources
<1>3. \A k : Dropped(k)' <=> Dropped(k)
  BY <1>1, <1>2 DEF Dropped, Done, StoredItems
<1>4. InPlay' <=> InPlay
  BY <1>1, <1>2 DEF InPlay, Survivors
<1>5. FilterStages' = FilterStages
  BY DEF FilterStages
<1> QED
  BY <1>1, <1>2, <1>3, <1>4, <1>5 DEF FilterInv

FunctionsCover ==
    /\ Distinct(functions)
    /\ \A k \in DOMAIN functions : PointsOf(functions[k]) \subseteq Mutable
    /\ \A q \in Survivors : \E k \in DOMAIN functions : q \in PointsOf(functions[k])

(* The selected points are those of the functions looked at so far that    *)
(* are not rejected.                                                       *)
SelectInv ==
    /\ pc \in {"extract", "functionFilter"} => selected = {}
    /\ pc \in {"select", "search"} => FunctionsCover
    /\ pc = "select" => \A k \in DOMAIN functions : \A q \in PointsOf(functions[k]) :
          /\ q \in rejected => Done(k)
          /\ q \in selected <=> Done(k) /\ q \notin rejected
    /\ pc = "search" => \A k \in DOMAIN functions : \A q \in PointsOf(functions[k]) :
          q \in selected <=> q \notin rejected

(* Outside the filters the points in play are the survivors.               *)
PointsInv ==
    pc \in {"index", "filtered"} \cup Modifying => Distinct(points) /\ Range(points) = Survivors

ListInv == FilterInv /\ SelectInv /\ PointsInv

(* The points of the loaded modules.                                       *)
LEMMA MutableFacts ==
    ASSUME TInv
    PROVE  /\ Mutable \subseteq Point
           /\ \A q \in Point : q \in Mutable <=> \E k \in DOMAIN bitcode : q[1] = bitcode[k][1]
           /\ \A k \in DOMAIN bitcode : \A fn \in Function :
                 fn[1] = bitcode[k][1] => PointsOf(fn) \subseteq Mutable
<1>1. inputObjects \in Programs
  BY DEF TInv, TypeOK
<1>2. Mutable \subseteq Point
  BY DEF Mutable, PointsIn
<1>3. \A q \in Point : q \in Mutable <=> \E k \in DOMAIN bitcode : q[1] = bitcode[k][1]
  BY DEF Mutable, PointsIn
<1>4. \A fn \in Function : \A q \in PointsOf(fn) : q \in Point /\ q[1] = fn[1]
  BY <1>1, PointFacts
<1> QED
  BY <1>2, <1>3, <1>4

LEMMA GatherLists == ASSUME TInv, BitcodeInv, ListInv, GatherFunctions PROVE ListInv'
<1>1. /\ pc = "extract" /\ pc' = "functionFilter" /\ UNCHANGED config /\ UNCHANGED bitcode
      /\ selected' = selected /\ ~running' /\ TypeOK /\ inputObjects \in Programs
  BY NotRunning, StageNamesDiffer DEF GatherFunctions, executor, TInv, TypeOK
<1>2. PICK kept \in SUBSET Function :
          /\ functions' = Keep(AllFunctions, kept)
          /\ rejected' = UNION {PointsOf(fn) : fn \in Function \ kept}
  BY DEF GatherFunctions, AllFunctions, FunctionsOf
<1>3. /\ AllFunctions \in Seq(Function) /\ Distinct(AllFunctions)
      /\ Range(AllFunctions) = {fn \in Function : \E k \in DOMAIN bitcode : bitcode[k][1] = fn[1]}
  BY <1>1, AllFunctionsFacts, AllFunctionsDistinct
<1>4. /\ Distinct(functions') /\ Range(functions') = Range(AllFunctions) \cap kept
  BY <1>2, <1>3, KeepFacts, KeepDistinct
<1>5. /\ Items' = functions' /\ \A x : Covered(x)' = PointsOf(x)
  BY <1>1, Fixed DEF Items, Covered, PointsOf
<1>6. \A fn \in Function : \A gn \in Function : fn # gn => PointsOf(fn) \cap PointsOf(gn) = {}
  BY <1>1, PointsApart
<1>7. \A fn \in Function : fn \in kept => PointsOf(fn) \cap rejected' = {}
  BY <1>2, <1>6
<1>8. ASSUME NEW k \in DOMAIN functions' PROVE PointsOf(functions'[k]) \subseteq Mutable \ rejected'
  <2>1. functions'[k] \in Range(AllFunctions) /\ functions'[k] \in kept
    BY <1>4 DEF Range
  <2>2. functions'[k] \in Function /\ \E l \in DOMAIN bitcode : bitcode[l][1] = functions'[k][1]
    BY <1>3, <2>1
  <2>3. PointsOf(functions'[k]) \subseteq Mutable
    BY <2>2, MutableFacts
  <2> QED
    BY <1>7, <2>1, <2>2, <2>3
<1>9. ASSUME NEW q \in Mutable \ rejected'
      PROVE  \E k \in DOMAIN functions' : q \in PointsOf(functions'[k])
  <2>1. q \in Point /\ \E k \in DOMAIN bitcode : q[1] = bitcode[k][1]
    BY MutableFacts
  <2>2. PICK fn \in Function : q \in PointsOf(fn)
    BY <1>1, <2>1, PointFacts
  <2>3. fn[1] = q[1]
    BY <1>1, <2>2, PointFacts
  <2>4. fn \in kept
    BY <1>2, <2>2
  <2>5. fn \in Range(functions')
    BY <1>3, <1>4, <2>1, <2>3, <2>4
  <2> QED
    BY <2>2, <2>5 DEF Range
<1>10. Mutable' = Mutable
  BY <1>1, SameMutable
<1>11. Fresh'
  BY <1>4, <1>5, <1>8, <1>9, <1>10 DEF Fresh, Survivors
<1>12. FilterInv'
  BY <1>1, <1>11, FreshPrime
<1> QED
  BY <1>1, <1>12 DEF ListInv, SelectInv, PointsInv, Modifying

LEMMA LeaveLists == ASSUME TInv, ListInv, LeaveFilters PROVE ListInv'
<1>1. /\ ~running /\ ~running' /\ UNCHANGED config /\ UNCHANGED <<bitcode, rejected>>
      /\ UNCHANGED <<functions, points, selected>> /\ FilterInv /\ SelectInv
      /\ \/ pc = "functionFilter" /\ pc' = "select"
         \/ pc = "mutationFilter" /\ pc' = "filtered"
  BY DEF LeaveFilters, lists, executor, ListInv
<1>2. Fresh
  BY <1>1, FreshBetween, StageNamesDiffer
<1>3. Mutable' = Mutable /\ Survivors' = Survivors
  BY <1>1, SameMutable DEF Survivors
<1>4. CASE pc = "functionFilter"
  <2>1. Items = functions /\ (\A x : Covered(x) = PointsOf(x)) /\ (\A x : PointsOf(x)' = PointsOf(x))
    BY <1>1, <1>4, Fixed DEF Items, Covered, PointsOf
  <2>2. FunctionsCover'
    BY <1>1, <1>2, <1>3, <2>1 DEF Fresh, FunctionsCover, Survivors
  <2>3. \A k \in DOMAIN functions : \A q \in PointsOf(functions[k]) : q \notin rejected /\ q \notin selected
    BY <1>1, <1>2, <1>4, <2>1 DEF Fresh, Survivors, SelectInv
  <2>4. \A k : ~Done(k)'
    BY <1>1, DoneBounds
  <2>5. pc' = "select"
    BY <1>1, <1>4
  <2>6. SelectInv'
    BY <1>1, <2>1, <2>2, <2>3, <2>4, <2>5 DEF SelectInv
  <2> QED
    BY <2>5, <2>6 DEF ListInv, FilterInv, PointsInv, FilterStages, Modifying
<1>5. CASE pc = "mutationFilter"
  <2>1. Items = points /\ \A x : Covered(x) = {x}
    BY <1>5 DEF Items, Covered
  <2>2. Distinct(points') /\ Range(points') = Survivors'
    BY <1>1, <1>2, <1>3, <2>1 DEF Fresh, Range
  <2>3. pc' = "filtered"
    BY <1>1, <1>5
  <2> QED
    BY <2>2, <2>3 DEF ListInv, FilterInv, PointsInv, SelectInv, FilterStages
<1> QED
  BY <1>1, <1>4, <1>5

LEMMA EndFilterLists == ASSUME TInv, ListInv, EndFilter PROVE ListInv'
<1>1. /\ Joined /\ ~running' /\ UNCHANGED config /\ UNCHANGED <<bitcode, rejected>> /\ pc' = pc
      /\ selected' = selected /\ FilterInv /\ SelectInv /\ pc \in FilterStages
      /\ \/ pc = "functionFilter" /\ functions' = Results
         \/ pc = "mutationFilter" /\ points' = Results
  BY DEF EndFilter, ListInv
<1>2. /\ Distinct(Results)
      /\ \A x \in Range(Results) : Covered(x) \subseteq Survivors
      /\ \A q \in Survivors : \E x \in Range(Results) : q \in Covered(x)
  BY <1>1, JoinedFilter
<1>3. Survivors' = Survivors /\ \A x : Covered(x)' = Covered(x)
  BY <1>1, SameMutable, SameCovered DEF Survivors
<1>4. Items' = Results
  BY <1>1 DEF Items
<1>5. Fresh'
  BY <1>2, <1>3, <1>4 DEF Fresh, Range
<1>6. FilterInv'
  BY <1>1, <1>5, FreshPrime
<1> QED
  BY <1>1, <1>6, StageNamesDiffer DEF ListInv, SelectInv, PointsInv

LEMMA StartLists == ASSUME TInv, ListInv, StartStage PROVE ListInv'
<1>1. /\ UNCHANGED config /\ UNCHANGED <<pc, bitcode, rejected>> /\ ~running /\ running'
      /\ UNCHANGED <<functions, points, selected>> /\ Items' = Items /\ Worker' = Worker
      /\ stored' = [w \in Worker |-> <<>>] /\ \A k \in Nat : ~Done(k) /\ ~Done(k)'
  BY StartStageFacts, DoneBounds DEF lists, Worker
<1>2. /\ Mutable' = Mutable /\ Survivors' = Survivors /\ (\A x : PointsOf(x)' = PointsOf(x))
      /\ (\A x : Covered(x)' = Covered(x))
  BY <1>1, SameMutable, SameCovered, Fixed DEF Survivors, PointsOf
<1>3. FilterInv'
  <2> SUFFICES ASSUME pc \in FilterStages PROVE FilterInv'
    BY <1>1 DEF FilterInv, FilterStages
  <2>1. Fresh
    BY <1>1, FreshBetween DEF ListInv
  <2>2. \A k \in DOMAIN Items : k \in Nat
    BY ItemsFacts DEF TInv
  <2>3. \A k \in DOMAIN Items : \A q \in Covered(Items[k]) : q \notin rejected /\ ~Dropped(k)'
    BY <1>1, <2>1, <2>2 DEF Fresh, Survivors, Dropped
  <2>4. InPlay'
    BY <1>1, <1>2, <2>1 DEF Fresh, InPlay, Survivors
  <2>5. \A w \in Worker : stored'[w] = <<>>
    BY <1>1
  <2>6. Distinct(<<>>) /\ Range(<<>>) = {}
    BY DEF Distinct, Range
  <2>7. \A w \in Worker' :
            /\ Distinct(stored'[w])
            /\ Range(stored'[w]) \subseteq {Items'[k] : k \in cuts'[w-1] + 1 .. at'[w]}
    BY <1>1, <2>5, <2>6
  <2>8. \A k \in DOMAIN Items' : \A q \in Covered(Items[k])' : q \in rejected' <=> Dropped(k)'
    BY <1>1, <1>2, <2>3
  <2> QED
    BY <2>4, <2>7, <2>8 DEF FilterInv, Distinct
<1>4. SelectInv'
  <2>1. \A k \in DOMAIN functions : k \in Nat
    BY DEF TInv, TypeOK
  <2> QED
    BY <1>1, <1>2, <2>1 DEF ListInv, SelectInv, FunctionsCover
<1>5. PointsInv'
  BY <1>1, <1>2 DEF ListInv, PointsInv, Modifying
<1> QED
  BY <1>3, <1>4, <1>5 DEF ListInv

(* The points of the mutation points' stage are the survivors.             *)
LEMMA FindPoints ==
    ASSUME TInv, ListInv, FindMutationPoints
    PROVE  Distinct(points') /\ Range(points') = Survivors
<1>1. pc = "search" /\ TypeOK /\ inputObjects \in Programs
  BY DEF FindMutationPoints, TInv, TypeOK
<1>2. points' = Keep(AllPoints, selected)
  BY DEF FindMutationPoints, AllPoints, PointList
<1>3. FunctionsCover /\ \A k \in DOMAIN functions : \A q \in PointsOf(functions[k]) :
          q \in selected <=> q \notin rejected
  BY <1>1 DEF ListInv, SelectInv
<1>4. /\ AllPoints \in Seq(Point) /\ Distinct(AllPoints)
      /\ Range(AllPoints) = UNION {PointsOf(functions[k]) : k \in DOMAIN functions}
  BY <1>1, <1>3, AllPointsFacts, AllPointsDistinct DEF FunctionsCover
<1>5. Distinct(points') /\ Range(points') = Range(AllPoints) \cap selected
  BY <1>2, <1>4, KeepFacts, KeepDistinct
<1>6. Range(AllPoints) \cap selected = Survivors
  BY <1>3, <1>4 DEF FunctionsCover, Survivors
<1> QED
  BY <1>5, <1>6

(* The list the first mutation filter starts from.                         *)
LEMMA EnterFilter ==
    ASSUME pc' = "mutationFilter", ~running', Distinct(points'), Range(points') = Survivors'
    PROVE  FilterInv'
<1>1. Items' = points' /\ \A x : Covered(x)' = {x}
  BY DEF Items, Covered
<1>2. Fresh'
  BY <1>1 DEF Fresh, Range
<1> QED
  BY <1>2, FreshPrime

LEMMA FindLists == ASSUME TInv, ListInv, FindMutationPoints PROVE ListInv'
<1>1. /\ pc = "search" /\ pc' \in {"index", "mutationFilter"} /\ UNCHANGED config
      /\ UNCHANGED <<bitcode, rejected>> /\ ~running'
  BY NotRunning, StageNamesDiffer DEF FindMutationPoints, executor
<1>2. Survivors' = Survivors
  BY <1>1, SameMutable DEF Survivors
<1>3. Distinct(points') /\ Range(points') = Survivors'
  BY <1>2, FindPoints
<1> QED
  BY <1>1, <1>3, EnterFilter DEF ListInv, FilterInv, SelectInv, PointsInv, FilterStages, Modifying

LEMMA EndSelectionLists == ASSUME TInv, ListInv, EndSelection PROVE ListInv'
<1>1. /\ pc = "select" /\ pc' = "search" /\ UNCHANGED config /\ UNCHANGED <<bitcode, rejected>>
      /\ functions' = functions /\ selected' = selected /\ Joined
  BY DEF EndSelection, lists
<1>2. Mutable' = Mutable /\ Survivors' = Survivors /\ (\A x : PointsOf(x)' = PointsOf(x))
  BY <1>1, SameMutable, Fixed DEF Survivors, PointsOf
<1>3. \A k \in DOMAIN functions : Done(k)
  BY <1>1, DoneBounds, ItemsFacts DEF TInv
<1>4. SelectInv'
  BY <1>1, <1>2, <1>3 DEF ListInv, SelectInv, FunctionsCover
<1> QED
  BY <1>1, <1>4 DEF ListInv, FilterInv, PointsInv, FilterStages, Modifying

LEMMA EndIndexLists == ASSUME TInv, ListInv, EndIndex PROVE ListInv'
<1>1. /\ pc = "index" /\ pc' = "mutationFilter" /\ UNCHANGED config
      /\ UNCHANGED <<bitcode, rejected>> /\ points' = points /\ ~running'
  BY DEF EndIndex
<1>2. Survivors' = Survivors
  BY <1>1, SameMutable DEF Survivors
<1>3. Distinct(points') /\ Range(points') = Survivors'
  BY <1>1, <1>2 DEF ListInv, PointsInv
<1> QED
  BY <1>1, <1>3, EnterFilter DEF ListInv, SelectInv, PointsInv, Modifying

(* Where the points are settled nothing is filtered.                       *)
LEMMA SettledLists ==
    ASSUME TInv, ListInv, UNCHANGED config, UNCHANGED <<bitcode, rejected, points>>,
           pc \in {"index", "filtered"} \cup Modifying,
           pc' \in {"index", "filtered", "done"} \cup Modifying
    PROVE  ListInv'
<1>1. Survivors' = Survivors
  BY SameMutable DEF Survivors
<1> QED
  BY <1>1 DEF ListInv, FilterInv, SelectInv, PointsInv, FilterStages, Modifying

LEMMA SelectItem == ASSUME TInv, ListInv, NEW w \in Worker, SelectInstructions(w) PROVE ListInv'
<1> DEFINE m == at[w] + 1
<1>1. ItemDone(w) /\ pc = "select" /\ TypeOK /\ inputObjects \in Programs
  BY DEF SelectInstructions, TInv, TypeOK
<1>2. /\ UNCHANGED config /\ pc' = pc /\ bitcode' = bitcode /\ functions' = functions
      /\ m \in DOMAIN functions /\ Item(w) = functions[m]
  BY <1>1, ItemDoneFacts, ItemsFacts
<1>3. PICK chosen \in SUBSET PointsOf(functions[m]) :
          /\ selected' = selected \cup chosen
          /\ rejected' = rejected \cup (PointsOf(functions[m]) \ chosen)
  BY <1>2 DEF SelectInstructions
<1>4. /\ FunctionsCover
      /\ \A k \in DOMAIN functions : \A q \in PointsOf(functions[k]) :
            /\ q \in rejected => Done(k)
            /\ q \in selected <=> Done(k) /\ q \notin rejected
  BY <1>1 DEF ListInv, SelectInv
<1>5. Mutable' = Mutable /\ (\A x : PointsOf(x)' = PointsOf(x))
  BY <1>2, SameMutable, Fixed DEF PointsOf
<1>6. ~Done(m) /\ \A k \in DOMAIN functions : Done(k)' <=> Done(k) \/ k = m
  BY <1>1, DoneStep DEF TypeOK
<1>7. \A k \in DOMAIN functions : k # m => PointsOf(functions[k]) \cap PointsOf(functions[m]) = {}
  <2>1. \A k \in DOMAIN functions : functions[k] \in Function
    BY <1>1, ElementOfSeq DEF TypeOK
  <2>2. \A k \in DOMAIN functions : k # m => functions[k] # functions[m]
    BY <1>2, <1>4 DEF FunctionsCover, Distinct
  <2> QED
    BY <1>1, <1>2, <2>1, <2>2, PointsApart
<1> HIDE DEF m
<1>8. FunctionsCover'
  BY <1>2, <1>3, <1>4, <1>5 DEF FunctionsCover, Survivors
<1>9. ASSUME NEW k \in DOMAIN functions, NEW q \in PointsOf(functions[k])
      PROVE  /\ q \in rejected' => Done(k)'
             /\ q \in selected' <=> Done(k)' /\ q \notin rejected'
  <2>1. CASE k = m
    <3>1. q \notin rejected /\ q \notin selected /\ Done(k)'
      BY <1>2, <1>4, <1>6, <1>9, <2>1
    <3> QED
      BY <1>3, <1>9, <2>1, <3>1
  <2>2. CASE k # m
    <3>1. q \notin PointsOf(functions[m])
      BY <1>7, <1>9, <2>2
    <3> QED
      BY <1>3, <1>4, <1>6, <1>9, <2>2, <3>1
  <2> QED
    BY <2>1, <2>2
<1>10. pc' = "select"
  BY <1>1, <1>2
<1>11. \A k \in DOMAIN functions' : \A q \in PointsOf(functions[k])' :
          /\ q \in rejected' => Done(k)'
          /\ q \in selected' <=> Done(k)' /\ q \notin rejected'
  BY <1>2, <1>5, <1>9
<1>12. SelectInv'
  BY <1>8, <1>10, <1>11 DEF SelectInv
<1> QED
  BY <1>10, <1>12 DEF ListInv, FilterInv, PointsInv, FilterStages, Modifying

LEMMA SameLists ==
    ASSUME TInv, ListInv, UNCHANGED config,
           UNCHANGED <<pc, bitcode, functions, points, rejected>>, selected' = selected,
           UNCHANGED <<running, cuts, at, stored>>
    PROVE  ListInv'
<1>1. FilterInv'
  BY SameFilter DEF ListInv
<1>2. Mutable' = Mutable /\ Survivors' = Survivors /\ (\A x : PointsOf(x)' = PointsOf(x))
  BY SameMutable, Fixed DEF Survivors, PointsOf
<1>3. \A k : Done(k)' <=> Done(k)
  BY DEF Done, Worker
<1>4. FunctionsCover' <=> FunctionsCover
  BY <1>2 DEF FunctionsCover
<1>5. SelectInv'
  BY <1>2, <1>3, <1>4 DEF ListInv, SelectInv
<1>6. PointsInv'
  BY <1>2 DEF ListInv, PointsInv, Modifying
<1> QED
  BY <1>1, <1>5, <1>6 DEF ListInv

LEMMA TaskLists == ASSUME TInv, ListInv, NEW w \in Worker, Task(w) PROVE ListInv'
<1>1. CASE TakeItem(w)
  BY <1>1, SameLists DEF TakeItem, lists
<1>2. CASE FilterFunction(w)
  <2>1. ItemDone(w) /\ pc = "functionFilter" /\ pc' = pc /\ selected' = selected
    BY <1>2, ItemDoneFacts DEF FilterFunction
  <2>2. Covered(Item(w)) = PointsOf(Item(w)) /\ pc \in FilterStages
    BY <2>1, StageNamesDiffer DEF Covered
  <2>3. \/ /\ stored' = [stored EXCEPT ![w] = Append(stored[w], Item(w))]
           /\ rejected' = rejected
        \/ /\ stored' = stored
           /\ rejected' = rejected \cup Covered(Item(w))
    BY <1>2, <2>2 DEF FilterFunction
  <2>4. FilterInv'
    BY <2>1, <2>2, <2>3, FilterItem DEF ListInv
  <2> QED
    BY <2>1, <2>4 DEF ListInv, SelectInv, PointsInv, Modifying
<1>3. CASE FilterMutation(w)
  <2>1. ItemDone(w) /\ pc = "mutationFilter" /\ pc' = pc
    BY <1>3, ItemDoneFacts DEF FilterMutation
  <2>2. Covered(Item(w)) = {Item(w)} /\ pc \in FilterStages
    BY <2>1, StageNamesDiffer DEF Covered
  <2>3. \/ /\ stored' = [stored EXCEPT ![w] = Append(stored[w], Item(w))]
           /\ rejected' = rejected
        \/ /\ stored' = stored
           /\ rejected' = rejected \cup Covered(Item(w))
    BY <1>3, <2>2 DEF FilterMutation
  <2>4. FilterInv'
    BY <2>1, <2>2, <2>3, FilterItem DEF ListInv
  <2> QED
    BY <2>1, <2>4 DEF ListInv, SelectInv, PointsInv, Modifying
<1>4. CASE IndexSource(w) \/ TransformModule(w) \/ ApplyMutation(w) \/ CompileModule(w)
  <2>1. ItemDone(w) /\ pc \in {"index"} \cup Modifying /\ UNCHANGED rejected
    BY <1>4 DEF IndexSource, TransformModule, ApplyMutation, CompileModule, Modifying
  <2>2. UNCHANGED config /\ UNCHANGED <<bitcode, rejected, points>> /\ pc' = pc
    BY <2>1, ItemDoneFacts
  <2> QED
    BY <2>1, <2>2, SettledLists
<1> QED
  BY <1>1, <1>2, <1>3, <1>4, SelectItem DEF Task

LEMMA ListStep == ASSUME TInv, BitcodeInv, ListInv, [Next]_vars PROVE ListInv'
<1>1. CASE ExtractObject
  <2>1. pc = "extract" /\ pc' = pc /\ selected' = selected
    BY <1>1 DEF ExtractObject, lists
  <2> QED
    BY <2>1 DEF ListInv, FilterInv, SelectInv, PointsInv, FilterStages, Modifying
<1>2. CASE ReturnInputs
  <2>1. pc' = "done"
    BY <1>2 DEF ReturnInputs
  <2> QED
    BY <2>1 DEF ListInv, FilterInv, SelectInv, PointsInv, FilterStages, Modifying
<1>3. CASE PrepareMutations
  <2>1. /\ UNCHANGED config /\ UNCHANGED <<bitcode, rejected, points>> /\ pc = "filtered"
        /\ pc' = "clone"
    BY <1>3, ApplyStagesFacts DEF PrepareMutations, lists
  <2> QED
    BY <2>1, SettledLists DEF Modifying
<1>4. CASE EndApplyStage
  <2>1. /\ UNCHANGED config /\ UNCHANGED <<bitcode, rejected, points>> /\ pc \in Modifying
        /\ i \in 1..5 /\ (i < 5 => pc' \in Modifying) /\ (i = 5 => pc' = "done")
    BY <1>4, EndApplyStageFacts DEF lists
  <2>2. pc' \in {"index", "filtered", "done"} \cup Modifying
    BY <2>1
  <2> QED
    BY <2>1, <2>2, SettledLists
<1>5. CASE UNCHANGED vars
  BY <1>5, SameLists DEF vars, lists, executor
<1>6. ASSUME NEW w \in Worker, Task(w) PROVE ListInv'
  BY <1>6, TaskLists
<1> QED
  BY <1>1, <1>2, <1>3, <1>4, <1>5, <1>6, GatherLists, FindLists, StartLists, EndFilterLists,
     LeaveLists, EndSelectionLists, EndIndexLists DEF Next, Main, Terminated

-----------------------------------------------------------------------------
(* The index of the sources.                                               *)

(* With the AST filter, which comes last, what is left is in the index.    *)
SyntaxInv ==
    syntax =>
        /\ pc = "index" => i = 1
        /\ pc = "mutationFilter" =>
              LET n == Len(mutationFilters) IN
              /\ n > 0 /\ mutationFilters[n] = "syntax"
              /\ i > n => Range(points) \subseteq astStorage
              /\ i = n /\ running => StoredItems \subseteq astStorage
        /\ pc \in {"filtered"} \cup Modifying => Range(points) \subseteq astStorage

LEMMA SyntaxStep == ASSUME TInv, ListInv, SyntaxInv, [Next]_vars PROVE SyntaxInv'
<1>0. TypeOK /\ i \in Nat /\ Worker' = Worker
  BY DEF TInv, TypeOK, Worker
<1>1. mutationFilters \in Seq({"configured", "runtime", "syntax"}) /\ Len(mutationFilters) \in Nat
  BY <1>0 DEF TypeOK
<1> SUFFICES ASSUME syntax, syntax' = syntax PROVE SyntaxInv'
  <2>1. UNCHANGED config
    <3>1. ASSUME NEW w \in Worker, Task(w) PROVE UNCHANGED config
      <4>1. TakeItem(w) \/ ItemDone(w)
        BY <3>1 DEF Task, FilterFunction, SelectInstructions, IndexSource, FilterMutation,
           TransformModule, ApplyMutation, CompileModule
      <4> QED
        BY <4>1 DEF TakeItem, ItemDone
    <3>2. Main => UNCHANGED config
      BY DEF Main, ExtractObject, GatherFunctions, FindMutationPoints, ReturnInputs,
         PrepareMutations, StartStage, EndFilter, LeaveFilters, EndSelection, EndIndex,
         EndApplyStage
    <3>3. UNCHANGED vars => UNCHANGED config
      BY DEF vars
    <3> QED
      BY <3>1, <3>2, <3>3 DEF Next, Terminated
  <2> QED
    BY <2>1, Fixed DEF SyntaxInv
<1>2. CASE UNCHANGED <<pc, i, points, astStorage, mutationFilters, running, stored>>
  BY <1>0, <1>2 DEF SyntaxInv, StoredItems, Modifying
<1>3. CASE UNCHANGED <<points, astStorage>> /\ pc \in {"filtered"} \cup Modifying
           /\ pc' \in {"filtered", "done"} \cup Modifying
  BY <1>3 DEF SyntaxInv, Modifying
<1>4. CASE pc' \in {"extract", "functionFilter", "select", "search", "done"}
  BY <1>4 DEF SyntaxInv, Modifying
<1>5. ASSUME NEW w \in Worker, Task(w) PROVE SyntaxInv'
  <2>1. CASE TakeItem(w)
    BY <1>2, <2>1 DEF TakeItem, lists
  <2>2. CASE FilterFunction(w) \/ SelectInstructions(w)
    <3>1. pc' \in {"functionFilter", "select"}
      BY <2>2 DEF FilterFunction, SelectInstructions, ItemDone
    <3> QED
      BY <1>4, <3>1
  <2>3. CASE IndexSource(w)
    BY <2>3 DEF IndexSource, ItemDone, SyntaxInv, Modifying
  <2>4. CASE TransformModule(w) \/ ApplyMutation(w) \/ CompileModule(w)
    BY <1>3, <2>4 DEF TransformModule, ApplyMutation, CompileModule, ItemDone, Modifying
  <2>5. CASE FilterMutation(w)
    <3>1. /\ ItemDone(w) /\ pc = "mutationFilter" /\ pc' = pc /\ i' = i /\ running /\ running'
          /\ UNCHANGED <<points, astStorage, mutationFilters>>
          /\ Item(w) \in Range(points)
      BY <1>0, <2>5, ItemDoneFacts, ItemsFacts DEF FilterMutation, Range
    <3>2. ASSUME i = Len(mutationFilters) PROVE StoredItems' \subseteq astStorage
      <4>1. mutationFilters[i] = "syntax" /\ StoredItems \subseteq astStorage
        BY <3>1, <3>2 DEF SyntaxInv
      <4>2. stored' = stored \/ (/\ stored' = [stored EXCEPT ![w] = Append(stored[w], Item(w))]
                                 /\ Item(w) \in astStorage)
        BY <2>5, <4>1 DEF FilterMutation
      <4>3. CASE stored' = stored
        BY <1>0, <4>1, <4>3 DEF StoredItems
      <4>4. CASE /\ stored' = [stored EXCEPT ![w] = Append(stored[w], Item(w))]
                 /\ Item(w) \in astStorage
        <5>1. stored \in [Worker -> Seq(Point)] /\ Item(w) \in Point
          BY <1>0, <3>1, ItemDoneFacts, ItemsFacts, ElementOfSeq DEF TInv, ExecutorInv, ResultType
        <5>2. Range(Append(stored[w], Item(w))) = Range(stored[w]) \cup {Item(w)}
          <6>1. stored[w] \in Seq(Point)
            BY <5>1
          <6> QED
            BY <5>1, <6>1, AppendFacts
        <5>3. \A v \in Worker : Range(stored'[v]) \subseteq astStorage
          <6>1. \A v \in Worker : Range(stored[v]) \subseteq astStorage
            BY <4>1 DEF StoredItems
          <6>2. \A v \in Worker : stored'[v] = IF v = w THEN Append(stored[w], Item(w)) ELSE stored[v]
            BY <4>4, <5>1
          <6> QED
            BY <4>4, <5>2, <6>1, <6>2
        <5> QED
          BY <1>0, <5>3 DEF StoredItems
      <4> QED
        BY <4>2, <4>3, <4>4
    <3> QED
      BY <3>1, <3>2 DEF SyntaxInv, Modifying
  <2> QED
    BY <1>5, <2>1, <2>2, <2>3, <2>4, <2>5 DEF Task
<1>6. CASE ExtractObject \/ GatherFunctions \/ EndSelection \/ ReturnInputs
  BY <1>4, <1>6 DEF ExtractObject, GatherFunctions, EndSelection, ReturnInputs
<1>7. CASE FindMutationPoints
  BY <1>7 DEF FindMutationPoints, SyntaxInv, Modifying
<1>8. CASE PrepareMutations
  BY <1>3, <1>8, ApplyStagesFacts DEF PrepareMutations, lists, Modifying
<1>9. CASE StartStage
  <2>1. /\ UNCHANGED <<pc, i, points, astStorage, mutationFilters>> /\ running'
        /\ stored' = [w \in Worker |-> <<>>]
    BY <1>9 DEF StartStage, lists
  <2>2. StoredItems' = {}
    <3>1. \A w \in Worker : stored'[w] = <<>>
      BY <2>1
    <3>2. Range(<<>>) = {}
      BY DEF Range
    <3> QED
      BY <1>0, <3>1, <3>2 DEF StoredItems
  <2> QED
    BY <2>1, <2>2 DEF SyntaxInv, Modifying
<1>10. CASE EndFilter
  <2>1. /\ pc' = pc /\ i' = i + 1 /\ ~running' /\ Joined /\ running
        /\ UNCHANGED <<astStorage, mutationFilters>>
        /\ \/ pc = "functionFilter"
           \/ pc = "mutationFilter" /\ points' = Results
    BY <1>10 DEF EndFilter, Joined
  <2>2. CASE pc = "functionFilter"
    BY <1>4, <2>1, <2>2
  <2>3. CASE pc = "mutationFilter"
    <3>1. Range(Results) = StoredItems /\ Range(Results) \subseteq Range(points)
      <4>1. pc \in FilterStages /\ Items = points
        BY <2>3, StageNamesDiffer DEF Items
      <4> QED
        BY <2>1, <4>1, JoinedFilter DEF ListInv
    <3>2. i + 1 > Len(mutationFilters) => i = Len(mutationFilters) \/ i > Len(mutationFilters)
      BY <1>0, <1>1
    <3>3. i + 1 > Len(mutationFilters) => Range(points') \subseteq astStorage
      BY <2>1, <2>3, <3>1, <3>2 DEF SyntaxInv
    <3> QED
      BY <2>1, <2>3, <3>3 DEF SyntaxInv, Modifying
  <2> QED
    BY <2>1, <2>2, <2>3
<1>11. CASE LeaveFilters
  <2>1. CASE pc = "functionFilter"
    BY <1>4, <1>11, <2>1 DEF LeaveFilters
  <2>2. CASE pc = "mutationFilter"
    BY <1>11, <2>2 DEF LeaveFilters, SyntaxInv, Modifying, lists
  <2> QED
    BY <1>11, <2>1, <2>2 DEF LeaveFilters
<1>12. CASE EndIndex
  <2>1. /\ pc = "index" /\ pc' = "mutationFilter" /\ i' = i /\ ~running'
        /\ mutationFilters' = Append(mutationFilters, "syntax")
    BY <1>12 DEF EndIndex
  <2>2. i' = 1
    BY <2>1 DEF SyntaxInv
  <2>3. /\ Len(mutationFilters') = Len(mutationFilters) + 1
        /\ mutationFilters'[Len(mutationFilters')] = "syntax"
    BY <1>1, <2>1
  <2> QED
    BY <1>1, <2>1, <2>2, <2>3 DEF SyntaxInv, Modifying
<1>13. CASE EndApplyStage
  <2>1. /\ UNCHANGED <<points, astStorage>> /\ pc \in Modifying
        /\ i \in 1..5 /\ (i < 5 => pc' \in Modifying) /\ (i = 5 => pc' = "done")
    BY <1>13, EndApplyStageFacts DEF lists
  <2> QED
    BY <1>3, <2>1
<1>14. CASE UNCHANGED vars
  BY <1>2, <1>14 DEF vars, lists, executor
<1> QED
  BY <1>5, <1>6, <1>7, <1>8, <1>9, <1>10, <1>11, <1>12, <1>13, <1>14 DEF Next, Main, Terminated

-----------------------------------------------------------------------------
(* The mutants in the modules.                                             *)

AddedTo(o) == {q \in Range(points) : q[1] = o}

(* A module is told of its points before the first stage; afterwards they  *)
(* are applied to it one by one.                                           *)
MutantsInv ==
    /\ pc \in Modifying => \A o \in Object : modules[o].added = AddedTo(o)
    /\ pc = "apply" => \A o \in Object :
          modules[o].mutants = {q \in AddedTo(o) : \E k \in DOMAIN points : Done(k) /\ points[k] = q}
    /\ pc = "compile" => \A o \in Object : modules[o].mutants = AddedTo(o)

LEMMA SameAdded == ASSUME UNCHANGED points PROVE \A o : AddedTo(o)' = AddedTo(o)
  BY DEF AddedTo

LEMMA SameMutants ==
    ASSUME TInv, MutantsInv, UNCHANGED config, UNCHANGED <<pc, points>>,
           \A o \in Object : /\ modules'[o].added = modules[o].added
                             /\ modules'[o].mutants = modules[o].mutants,
           pc = "apply" => \A k \in DOMAIN points : Done(k)' <=> Done(k)
    PROVE  MutantsInv'
<1>1. Object' = Object /\ \A o : AddedTo(o)' = AddedTo(o)
  BY Fixed, SameAdded
<1>2. pc' \in Modifying => \A o \in Object' : modules'[o].added = AddedTo(o)'
  BY <1>1 DEF MutantsInv, Modifying
<1>3. pc' = "compile" => \A o \in Object' : modules'[o].mutants = AddedTo(o)'
  BY <1>1 DEF MutantsInv
<1>4. ASSUME pc = "apply", NEW o \in Object
      PROVE  modules'[o].mutants =
                 {q \in AddedTo(o)' : \E k \in DOMAIN points' : Done(k)' /\ points'[k] = q}
  <2>1. modules[o].mutants = {q \in AddedTo(o) : \E k \in DOMAIN points : Done(k) /\ points[k] = q}
    BY <1>4 DEF MutantsInv
  <2> QED
    BY <1>1, <1>4, <2>1
<1> QED
  BY <1>1, <1>2, <1>3, <1>4 DEF MutantsInv

LEMMA ApplyMutants ==
    ASSUME TInv, MutantsInv, NEW w \in Worker, ApplyMutation(w)
    PROVE  MutantsInv'
<1> DEFINE m == at[w] + 1
<1>1. ItemDone(w) /\ pc = "apply" /\ TypeOK
  BY DEF ApplyMutation, TInv
<1>2. /\ UNCHANGED config /\ pc' = pc /\ points' = points
      /\ m \in DOMAIN points /\ Item(w) = points[m] /\ points \in Seq(Point)
  BY <1>1, ItemDoneFacts, ItemsFacts
<1>3. \A k \in DOMAIN points : Done(k)' <=> Done(k) \/ k = m
  BY <1>1, <1>2, DoneStep
<1> HIDE DEF m
<1>4. points[m] \in Point /\ points[m][1] \in Object
  BY <1>1, <1>2, ElementOfSeq, PointFacts DEF TypeOK
<1>5. modules \in [Object -> ModuleState]
  BY <1>1, TypeParts DEF ModuleType
<1>6. modules' = [modules EXCEPT ![points[m][1]].mutants = modules[points[m][1]].mutants \cup {points[m]}]
  BY <1>1, <1>2 DEF ApplyMutation
<1>7. \A o \in Object :
          /\ modules'[o].added = modules[o].added
          /\ modules'[o].mutants = IF o = points[m][1] THEN modules[o].mutants \cup {points[m]}
                                   ELSE modules[o].mutants
  BY <1>4, <1>5, <1>6 DEF ModuleState
<1>8. Object' = Object /\ \A o : AddedTo(o)' = AddedTo(o)
  BY <1>2, Fixed, SameAdded
<1>9. pc' \in Modifying => \A o \in Object' : modules'[o].added = AddedTo(o)'
  BY <1>2, <1>7, <1>8 DEF MutantsInv, Modifying
<1>10. points[m] \in Range(points)
  BY <1>2 DEF Range
<1>11. ASSUME NEW o \in Object
       PROVE  modules'[o].mutants =
                  {q \in AddedTo(o)' : \E k \in DOMAIN points' : Done(k)' /\ points'[k] = q}
  <2> DEFINE applied == {q \in AddedTo(o) : \E k \in DOMAIN points : Done(k) /\ points[k] = q}
             after == {q \in AddedTo(o)' : \E k \in DOMAIN points' : Done(k)' /\ points'[k] = q}
  <2>1. modules[o].mutants = applied
    BY <1>1 DEF MutantsInv
  <2>2. after = {q \in AddedTo(o) : \E k \in DOMAIN points : (Done(k) \/ k = m) /\ points[k] = q}
    BY <1>2, <1>3, <1>8
  <2>3. points[m] \in AddedTo(o) <=> o = points[m][1]
    BY <1>10 DEF AddedTo
  <2>4. after = IF o = points[m][1] THEN applied \cup {points[m]} ELSE applied
    BY <1>2, <2>2, <2>3
  <2> QED
    BY <1>7, <2>1, <2>4
<1> QED
  BY <1>1, <1>2, <1>8, <1>9, <1>11 DEF MutantsInv

LEMMA MutantsStep == ASSUME TInv, BitcodeInv, PhaseInv, MutantsInv, [Next]_vars PROVE MutantsInv'
<1>0. TypeOK
  BY DEF TInv
<1>1. CASE pc' \notin Modifying
  BY <1>1 DEF MutantsInv, Modifying
<1>2. ASSUME NEW w \in Worker, Task(w) PROVE MutantsInv'
  <2>1. CASE TakeItem(w)
    <3>1. UNCHANGED config /\ UNCHANGED <<pc, points>> /\ UNCHANGED modules
      BY <2>1 DEF TakeItem, lists
    <3> QED
      BY <2>1, <3>1, DoneBounds, SameMutants
  <2>2. CASE FilterFunction(w) \/ SelectInstructions(w) \/ IndexSource(w) \/ FilterMutation(w)
    <3>1. pc' \notin Modifying
      BY <2>2 DEF FilterFunction, SelectInstructions, IndexSource, FilterMutation, ItemDone, Modifying
    <3> QED
      BY <1>1, <3>1
  <2>3. CASE TransformModule(w)
    <3>1. /\ ItemDone(w) /\ pc \in {"clone", "delete", "redirect"}
          /\ UNCHANGED config /\ UNCHANGED <<pc, points>>
          /\ modules' = [modules EXCEPT ![Item(w)[1]].phase = pc]
      BY <2>3 DEF TransformModule, ItemDone
    <3>2. \A o \in Object : modules'[o].added = modules[o].added /\ modules'[o].mutants = modules[o].mutants
      BY <1>0, <3>1, TypeParts DEF ModuleType, ModuleState
    <3> QED
      BY <3>1, <3>2, SameMutants
  <2>4. CASE CompileModule(w)
    <3>1. pc = "compile" /\ UNCHANGED config /\ UNCHANGED <<pc, points>> /\ UNCHANGED modules
      BY <2>4 DEF CompileModule, ItemDone
    <3> QED
      BY <3>1, SameMutants
  <2> QED
    BY <1>2, <2>1, <2>2, <2>3, <2>4, ApplyMutants DEF Task
<1>3. CASE ExtractObject \/ GatherFunctions \/ FindMutationPoints \/ ReturnInputs \/ EndFilter
           \/ LeaveFilters \/ EndSelection \/ EndIndex
  BY <1>1, <1>3, StageNamesDiffer DEF ExtractObject, GatherFunctions, FindMutationPoints, ReturnInputs,
     EndFilter, LeaveFilters, EndSelection, EndIndex
<1>4. CASE PrepareMutations
  <2>1. /\ UNCHANGED config /\ pc = "filtered" /\ pc' = "clone" /\ points' = points
        /\ modules' = [o \in Object |->
               [modules[o] EXCEPT !.added = {q \in Range(points) : q[1] = o}]]
    BY <1>4, ApplyStagesFacts DEF PrepareMutations, lists
  <2>2. modules \in [Object -> ModuleState]
    BY <1>0, TypeParts DEF ModuleType
  <2>3. \A o \in Object : modules'[o].added = AddedTo(o)
    BY <2>1, <2>2 DEF ModuleState, AddedTo
  <2> QED
    BY <2>1, <2>3, Fixed, SameAdded DEF MutantsInv
<1>5. CASE StartStage
  <2>1. UNCHANGED config /\ UNCHANGED <<pc, points>> /\ UNCHANGED modules /\ ~running
    BY <1>5 DEF StartStage, lists
  <2>2. \A k \in DOMAIN points : k \in Nat
    BY <1>0 DEF TypeOK
  <2>3. \A k \in DOMAIN points : ~Done(k) /\ ~Done(k)'
    BY <1>5, <2>1, <2>2, DoneBounds
  <2> QED
    BY <2>1, <2>3, SameMutants
<1>6. CASE EndApplyStage
  <2>1. /\ UNCHANGED config /\ points' = points /\ UNCHANGED modules /\ Joined /\ running' = FALSE
        /\ i \in 1..5 /\ pc = ApplyStages[i] /\ pc \in Modifying
        /\ i < 5 => pc' = ApplyStages[i + 1]
        /\ i = 5 => pc' = "done"
    BY <1>6, EndApplyStageFacts DEF lists
  <2>2. /\ Object' = Object /\ (\A o : AddedTo(o)' = AddedTo(o))
        /\ \A o \in Object : modules'[o].added = AddedTo(o)
    BY <2>1, Fixed, SameAdded DEF MutantsInv
  <2>3. CASE i = 1 \/ i = 2
    <3>1. pc' \in {"delete", "redirect"}
      BY <2>1, <2>3, ApplyStagesFacts
    <3> QED
      BY <2>2, <3>1 DEF MutantsInv
  <2>4. CASE i = 3
    <3>1. pc = "redirect" /\ pc' = "apply"
      BY <2>1, <2>4, ApplyStagesFacts
    <3>2. \A o \in Object : modules'[o].mutants = {}
      BY <2>1, <3>1 DEF PhaseInv, Unmutated
    <3>3. \A k : ~Done(k)'
      BY <2>1, DoneBounds
    <3> QED
      BY <2>2, <3>1, <3>2, <3>3 DEF MutantsInv
  <2>5. CASE i = 4
    <3>1. pc = "apply" /\ pc' = "compile"
      BY <2>1, <2>5, ApplyStagesFacts
    <3>2. \A k \in DOMAIN points : Done(k)
      BY <1>0, <2>1, <3>1, DoneBounds, ItemsFacts
    <3>3. \A o : \A q \in AddedTo(o) : \E k \in DOMAIN points : points[k] = q
      BY DEF AddedTo, Range
    <3>4. \A o \in Object : modules[o].mutants = AddedTo(o)
      BY <3>1, <3>2, <3>3 DEF MutantsInv
    <3> QED
      BY <2>1, <2>2, <3>1, <3>4 DEF MutantsInv
  <2>6. CASE i = 5
    BY <1>1, <2>1, <2>6 DEF Modifying
  <2> QED
    BY <2>1, <2>3, <2>4, <2>5, <2>6
<1>7. CASE UNCHANGED vars
  <2>1. UNCHANGED config /\ UNCHANGED <<pc, points>> /\ UNCHANGED modules
    BY <1>7 DEF vars, lists
  <2> QED
    BY <1>7, <2>1, DoneBounds, SameMutants
<1> QED
  BY <1>2, <1>3, <1>4, <1>5, <1>6, <1>7 DEF Next, Main, Terminated

-----------------------------------------------------------------------------
(* The objects for the linker.                                             *)

Compiled(o) == [object |-> o, compiled |-> TRUE, mutants |-> modules[o].mutants]
ByObject == {z \in LinkedObject \X LinkedObject : z[1].object < z[2].object}
ObjectsOf(s) == {s[k].object : k \in DOMAIN s}
Loaded == {bitcode[k][1] : k \in DOMAIN bitcode}

(* Until the end only the objects that were not loaded are there, in their *)
(* order.                                                                  *)
PassedInv ==
    pc # "done" =>
        /\ \A k \in DOMAIN output : output[k].compiled = FALSE /\ output[k].mutants = {}
        /\ OrderedBy(output, ByObject)
        /\ ObjectsOf(output) \cap Loaded = {}
        /\ ObjectsOf(output) \cup Loaded = IF pc = "extract" THEN 1..(i-1) ELSE Object
        /\ pc = "extract" => i \in 1..Len(inputObjects) + 1

(* Each worker compiles the modules of its batch, from the first to the    *)
(* last.                                                                   *)
CompiledInv ==
    pc = "compile" /\ running => \A w \in Worker :
        /\ Range(stored[w]) = {Compiled(bitcode[k][1]) : k \in cuts[w-1] + 1 .. at[w]}
        /\ OrderedBy(stored[w], ByObject)

LEMMA SameOutput ==
    ASSUME TInv, PassedInv, UNCHANGED config, UNCHANGED <<output, bitcode>>, pc # "done",
           \/ UNCHANGED <<pc, i>>
           \/ pc' \notin {"extract", "done"} /\ (pc = "extract" => i > Len(inputObjects))
    PROVE  PassedInv'
<1>1. /\ Object' = Object /\ ByObject' = ByObject /\ inputObjects' = inputObjects
      /\ Loaded' = Loaded /\ ObjectsOf(output)' = ObjectsOf(output)
  BY Fixed DEF ByObject, Loaded, ObjectsOf
<1>2. CASE UNCHANGED <<pc, i>>
  BY <1>1, <1>2 DEF PassedInv, OrderedBy
<1>3. CASE pc' \notin {"extract", "done"} /\ (pc = "extract" => i > Len(inputObjects))
  <2>1. pc = "extract" => 1..(i-1) = Object
    <3>1. Object = 1..Len(inputObjects) /\ Len(inputObjects) \in Nat
      BY ProgramFacts DEF TInv, TypeOK
    <3> QED
      BY <1>3, <3>1 DEF PassedInv
  <2> QED
    BY <1>1, <1>3, <2>1 DEF PassedInv, OrderedBy
<1> QED
  BY <1>2, <1>3

LEMMA ExtractOutput == ASSUME TInv, BitcodeInv, PassedInv, ExtractObject PROVE PassedInv'
<1>1. /\ TypeOK /\ pc = "extract" /\ pc' = pc /\ i' = i + 1 /\ UNCHANGED config
      /\ i <= Len(inputObjects)
  BY DEF TInv, ExtractObject
<1>2. Object = 1..Len(inputObjects) /\ Len(inputObjects) \in Nat
  BY <1>1, ProgramFacts DEF TypeOK
<1>3. /\ i \in 1..Len(inputObjects) /\ i' \in 1..Len(inputObjects) + 1
      /\ 1..(i'-1) = (1..(i-1)) \cup {i} /\ i \notin 1..(i-1)
  BY <1>1, <1>2 DEF PassedInv
<1>4. /\ \A k \in DOMAIN output : output[k].compiled = FALSE /\ output[k].mutants = {}
      /\ OrderedBy(output, ByObject) /\ ObjectsOf(output) \cap Loaded = {}
      /\ ObjectsOf(output) \cup Loaded = 1..(i-1)
  BY <1>1 DEF PassedInv
<1>5. ByObject' = ByObject /\ inputObjects' = inputObjects
  BY <1>1, Fixed DEF ByObject
<1>6. output \in Seq(LinkedObject) /\ bitcode \in Seq({<<o>> : o \in Object})
  BY <1>1, TypeParts DEF OutputType
<1>7. CASE output' = Append(output, PassThrough(i)) /\ UNCHANGED bitcode
  <2> DEFINE x == PassThrough(i)
  <2>1. x \in LinkedObject /\ x.object = i /\ x.compiled = FALSE /\ x.mutants = {}
    BY <1>2, <1>3 DEF PassThrough, LinkedObject
  <2> HIDE DEF x
  <2>2. /\ output' \in Seq(LinkedObject) /\ Range(output') = Range(output) \cup {x}
    BY <1>6, <1>7, <2>1, AppendFacts DEF x
  <2>3. \A y \in Range(output) : y \in LinkedObject /\ y.object \in ObjectsOf(output)
                                  /\ y.compiled = FALSE /\ y.mutants = {}
    BY <1>4, <1>6, ElementOfSeq DEF Range, ObjectsOf
  <2>4. \A y \in Range(output) : <<y, x>> \in ByObject
    <3>1. \A y \in Range(output) : y.object \in 1..(i-1)
      BY <1>4, <2>3
    <3>2. \A y \in Range(output) : y.object < x.object
      BY <1>3, <2>1, <3>1
    <3> QED
      BY <2>1, <2>3, <3>2 DEF ByObject
  <2>5. OrderedBy(output', ByObject)
    BY <1>4, <1>6, <1>7, <2>1, <2>4, OrderedAppend DEF x
  <2>6. \A k \in DOMAIN output' : output'[k].compiled = FALSE /\ output'[k].mutants = {}
    <3>1. \A k \in DOMAIN output' : output'[k] \in Range(output')
      BY DEF Range
    <3> QED
      BY <2>1, <2>2, <2>3, <3>1
  <2>7. ObjectsOf(output)' = ObjectsOf(output) \cup {i}
    <3>1. \A s : ObjectsOf(s) = {y.object : y \in Range(s)}
      BY DEF ObjectsOf, Range
    <3>2. ObjectsOf(output)' = {y.object : y \in Range(output')}
      BY DEF ObjectsOf, Range
    <3> QED
      BY <2>1, <2>2, <3>1, <3>2
  <2>8. Loaded' = Loaded /\ i \notin Loaded
    BY <1>3, <1>4, <1>7 DEF Loaded
  <2> QED
    BY <1>1, <1>3, <1>4, <1>5, <2>5, <2>6, <2>7, <2>8 DEF PassedInv
<1>8. CASE bitcode' = Append(bitcode, <<i>>) /\ UNCHANGED output
  <2>1. Range(bitcode') = Range(bitcode) \cup {<<i>>}
    <3> DEFINE Names == {<<o>> : o \in Object}
    <3>1. <<i>> \in Names /\ bitcode \in Seq(Names)
      BY <1>2, <1>3, <1>6
    <3> HIDE DEF Names
    <3> QED
      BY <1>8, <3>1, AppendFacts
  <2>2. Loaded = {b[1] : b \in Range(bitcode)} /\ Loaded' = {b[1] : b \in Range(bitcode')}
    BY DEF Loaded, Range
  <2>3. Loaded' = Loaded \cup {i}
    <3>1. <<i>>[1] = i
      OBVIOUS
    <3>2. Loaded' = {b[1] : b \in Range(bitcode)} \cup {<<i>>[1]}
      BY <2>1, <2>2
    <3> QED
      BY <2>2, <3>1, <3>2
  <2>4. i \notin ObjectsOf(output) /\ ObjectsOf(output)' = ObjectsOf(output)
    BY <1>3, <1>4, <1>8 DEF ObjectsOf
  <2>5. OrderedBy(output', ByObject')
    BY <1>4, <1>5, <1>8
  <2> QED
    BY <1>1, <1>3, <1>4, <1>5, <1>8, <2>3, <2>4, <2>5 DEF PassedInv
<1> QED
  BY <1>7, <1>8 DEF ExtractObject

LEMMA PassedStep == ASSUME TInv, BitcodeInv, PassedInv, [Next]_vars PROVE PassedInv'
<1>1. CASE pc' = "done"
  BY <1>1 DEF PassedInv
<1>2. ASSUME NEW w \in Worker, Task(w) PROVE PassedInv'
  <2>1. /\ UNCHANGED config /\ UNCHANGED <<output, bitcode>> /\ UNCHANGED <<pc, i>> /\ running
    BY <1>2 DEF Task, TakeItem, FilterFunction, SelectInstructions, IndexSource, FilterMutation,
       TransformModule, ApplyMutation, CompileModule, ItemDone
  <2>2. pc # "done"
    BY <2>1, NotRunning, StageNamesDiffer
  <2> QED
    BY <2>1, <2>2, SameOutput
<1>3. CASE GatherFunctions
  <2>1. /\ UNCHANGED config /\ UNCHANGED <<output, bitcode>> /\ pc = "extract"
        /\ pc' = "functionFilter" /\ i > Len(inputObjects)
    BY <1>3 DEF GatherFunctions
  <2> QED
    BY <2>1, SameOutput
<1>4. CASE FindMutationPoints \/ PrepareMutations \/ LeaveFilters \/ EndSelection \/ EndIndex
  <2>1. /\ UNCHANGED config /\ UNCHANGED <<output, bitcode>> /\ pc \notin {"extract", "done"}
        /\ pc' \notin {"extract", "done"}
    BY <1>4, ApplyStagesFacts DEF FindMutationPoints, PrepareMutations, LeaveFilters,
       EndSelection, EndIndex
  <2> QED
    BY <2>1, SameOutput
<1>5. CASE StartStage \/ EndFilter
  <2>1. /\ UNCHANGED config /\ UNCHANGED <<output, bitcode>> /\ pc \in Parallel /\ pc' = pc
    BY <1>5, StageNamesDiffer DEF StartStage, EndFilter, Parallel
  <2>2. pc \notin {"extract", "done"}
    BY <2>1, StageNamesDiffer
  <2> QED
    BY <2>1, <2>2, SameOutput
<1>6. CASE EndApplyStage
  <2>1. /\ UNCHANGED config /\ UNCHANGED bitcode /\ i \in 1..5 /\ pc \in Modifying
        /\ i < 5 => output' = output /\ pc' \in Modifying
        /\ i = 5 => pc' = "done"
    BY <1>6, EndApplyStageFacts
  <2>2. CASE i < 5
    BY <2>1, <2>2, SameOutput DEF Modifying
  <2> QED
    BY <1>1, <2>1, <2>2
<1>7. CASE UNCHANGED vars
  <2>1. UNCHANGED config /\ UNCHANGED <<output, bitcode>> /\ UNCHANGED <<pc, i>>
    BY <1>7 DEF vars
  <2> QED
    BY <1>1, <2>1, SameOutput
<1> QED
  BY <1>1, <1>2, <1>3, <1>4, <1>5, <1>6, <1>7, ExtractOutput DEF Next, Main, Terminated, ReturnInputs

LEMMA CompileItem ==
    ASSUME TInv, BitcodeInv, CompiledInv, NEW w \in Worker, CompileModule(w)
    PROVE  CompiledInv'
<1> DEFINE m == at[w] + 1
           x == Compiled(bitcode[m][1])
           Batch(v) == {Compiled(bitcode[k][1]) : k \in cuts[v-1] + 1 .. at[v]}
           Batched(v) == {Compiled(bitcode[k][1]) : k \in cuts[v-1] + 1 .. at'[v]}
<1>1. ItemDone(w) /\ pc = "compile" /\ TypeOK /\ UNCHANGED modules
  BY DEF CompileModule, TInv
<1>2. /\ UNCHANGED config /\ running /\ pc' = pc /\ bitcode' = bitcode /\ cuts' = cuts
      /\ m \in DOMAIN bitcode /\ Item(w) = bitcode[m] /\ Items = bitcode
      /\ at \in [Worker -> Nat] /\ at' = [at EXCEPT ![w] = m]
  BY <1>1, ItemDoneFacts, ItemsFacts
<1>3. stored' = [stored EXCEPT ![w] = Append(stored[w], x)]
  BY <1>2 DEF CompileModule, Compiled
<1>4. \A v \in Worker : Range(stored[v]) = Batch(v) /\ OrderedBy(stored[v], ByObject)
  BY <1>1, <1>2 DEF CompiledInv
<1>5. stored \in [Worker -> Seq(LinkedObject)]
  BY <1>1, <1>2 DEF TInv, ExecutorInv, ResultType
<1>6. /\ Worker' = Worker /\ ByObject' = ByObject /\ \A o : Compiled(o)' = Compiled(o)
  BY <1>1, <1>2, Fixed DEF Worker, ByObject, Compiled
<1>7. ASSUME NEW k \in DOMAIN bitcode
      PROVE  /\ Compiled(bitcode[k][1]) \in LinkedObject
             /\ Compiled(bitcode[k][1]).object = bitcode[k][1]
  <2>1. bitcode[k][1] \in Object
    BY <1>1, BitcodeFacts
  <2>2. modules[bitcode[k][1]].mutants \in SUBSET Point
    BY <1>1, <2>1, TypeParts DEF ModuleType, ModuleState
  <2> QED
    BY <2>1, <2>2 DEF Compiled, LinkedObject
<1>8. at[w] \in Nat /\ cuts[w-1] \in Nat /\ cuts[w-1] < m /\ m \in Nat
  BY <1>1, <1>2, OwnItem, ItemDoneFacts
<1>9. \A k \in cuts[w-1] + 1 .. at[w] : k \in DOMAIN bitcode /\ k < m
  <2>1. m \in 1..Len(bitcode) /\ DOMAIN bitcode = 1..Len(bitcode) /\ Len(bitcode) \in Nat
    BY <1>1, <1>2, BitcodeFacts
  <2> QED
    BY <1>8, <2>1
<1>10. \A v \in Worker : v # w => Batched(v) = Batch(v)
  BY <1>2
<1>11. Batched(w) = Batch(w) \cup {x}
  <2>1. at'[w] = at[w] + 1
    BY <1>2
  <2>2. cuts[w-1] + 1 .. at'[w] = (cuts[w-1] + 1 .. at[w]) \cup {m}
    BY <1>8, <2>1
  <2> QED
    BY <2>2
<1> HIDE DEF m
<1>12. x \in LinkedObject /\ x.object = bitcode[m][1]
  BY <1>2, <1>7
<1>13. stored[w] \in Seq(LinkedObject)
  BY <1>5
<1>14. \A y \in Range(stored[w]) : <<y, x>> \in ByObject
  <2> SUFFICES ASSUME NEW y \in Range(stored[w]) PROVE <<y, x>> \in ByObject
    OBVIOUS
  <2>1. PICK k \in cuts[w-1] + 1 .. at[w] : y = Compiled(bitcode[k][1])
    BY <1>4
  <2>2. k \in DOMAIN bitcode /\ k < m
    BY <1>9
  <2>3. bitcode[k][1] < bitcode[m][1]
    BY <1>2, <2>2 DEF BitcodeInv
  <2>4. y \in LinkedObject /\ y.object = bitcode[k][1]
    BY <1>7, <2>1, <2>2
  <2> QED
    BY <1>12, <2>3, <2>4 DEF ByObject
<1> HIDE DEF x
<1>15. /\ Range(Append(stored[w], x)) = Range(stored[w]) \cup {x}
       /\ OrderedBy(Append(stored[w], x), ByObject)
  BY <1>4, <1>12, <1>13, <1>14, AppendFacts, OrderedAppend
<1>16. stored'[w] = Append(stored[w], x) /\ \A v \in Worker : v # w => stored'[v] = stored[v]
  BY <1>3, <1>5
<1> HIDE DEF Batch
<1>17. \A v \in Worker : Range(stored'[v]) = Batched(v) /\ OrderedBy(stored'[v], ByObject)
  BY <1>4, <1>10, <1>11, <1>15, <1>16
<1>18. \A v \in Worker : Batched(v) = {Compiled(bitcode[k][1])' : k \in cuts'[v-1] + 1 .. at'[v]}
  BY <1>2, <1>6
<1> QED
  BY <1>2, <1>6, <1>17, <1>18 DEF CompiledInv

LEMMA CompiledStep == ASSUME TInv, BitcodeInv, CompiledInv, [Next]_vars PROVE CompiledInv'
<1>1. CASE pc' # "compile" \/ ~running'
  BY <1>1 DEF CompiledInv
<1>2. ASSUME UNCHANGED config, UNCHANGED <<pc, bitcode, modules, running, cuts, at, stored>>
      PROVE  CompiledInv'
  <2>1. ByObject' = ByObject /\ Worker' = Worker /\ \A o : Compiled(o)' = Compiled(o)
    BY <1>2, Fixed DEF ByObject, Worker, Compiled
  <2>2. \A w \in Worker : {Compiled(bitcode[k][1])' : k \in cuts'[w-1] + 1 .. at'[w]}
                        = {Compiled(bitcode[k][1]) : k \in cuts[w-1] + 1 .. at[w]}
    BY <1>2, <2>1
  <2> QED
    BY <1>2, <2>1, <2>2 DEF CompiledInv
<1>3. ASSUME NEW w \in Worker, Task(w) PROVE CompiledInv'
  <2>1. CASE TakeItem(w)
    BY <1>2, <2>1 DEF TakeItem
  <2>2. CASE FilterFunction(w) \/ SelectInstructions(w) \/ IndexSource(w) \/ FilterMutation(w)
             \/ TransformModule(w) \/ ApplyMutation(w)
    <3>1. pc' # "compile"
      BY <2>2 DEF FilterFunction, SelectInstructions, IndexSource, FilterMutation,
         TransformModule, ApplyMutation, ItemDone
    <3> QED
      BY <1>1, <3>1
  <2> QED
    BY <1>3, <2>1, <2>2, CompileItem DEF Task
<1>4. CASE ExtractObject \/ GatherFunctions \/ FindMutationPoints \/ ReturnInputs
           \/ PrepareMutations \/ LeaveFilters
  <2>1. pc' # "compile"
    BY <1>4, ApplyStagesFacts DEF ExtractObject, GatherFunctions, FindMutationPoints,
       ReturnInputs, PrepareMutations, LeaveFilters
  <2> QED
    BY <1>1, <2>1
<1>5. CASE EndFilter \/ EndSelection \/ EndIndex \/ EndApplyStage
  BY <1>1, <1>5 DEF EndFilter, EndSelection, EndIndex, EndApplyStage
<1>6. CASE StartStage
  <2>1. /\ \A w \in Worker : stored'[w] = <<>> /\ at'[w] = cuts'[w-1] /\ cuts'[w-1] \in Nat
        /\ Worker' = Worker
    BY <1>6, StartStageFacts DEF Worker
  <2>2. \A w \in Worker : cuts'[w-1] + 1 .. at'[w] = {}
    BY <2>1
  <2>3. Range(<<>>) = {} /\ OrderedBy(<<>>, ByObject')
    BY DEF Range, OrderedBy
  <2> QED
    BY <2>1, <2>2, <2>3 DEF CompiledInv
<1>7. CASE UNCHANGED vars
  BY <1>2, <1>7 DEF vars, executor
<1> QED
  BY <1>3, <1>4, <1>5, <1>6, <1>7 DEF Next, Main, Terminated

(* The compiled objects, when all workers have joined.                     *)
LEMMA CompiledResults ==
    ASSUME TInv, BitcodeInv, CompiledInv, Joined, pc = "compile"
    PROVE  /\ Results \in Seq(LinkedObject) /\ OrderedBy(Results, ByObject)
           /\ Range(Results) = {Compiled(bitcode[k][1]) : k \in DOMAIN bitcode}
<1>1. /\ TypeOK /\ inputObjects \in Programs /\ running /\ Items = bitcode
      /\ cuts \in Batches /\ (\A v \in Worker : cuts[v-1] <= at[v])
      /\ DOMAIN Items = 1..Len(Items) /\ Len(Items) \in Nat
  BY ItemsFacts DEF TInv, TypeOK, ExecutorInv, Joined
<1>2. \A w \in Worker :
          /\ Range(stored[w]) = {Compiled(bitcode[k][1]) : k \in cuts[w-1] + 1 .. at[w]}
          /\ OrderedBy(stored[w], ByObject)
  BY <1>1 DEF CompiledInv
<1>3. /\ \A v \in Worker : /\ at[v] = cuts[v] /\ cuts[v-1] \in Nat
                           /\ cuts[v] \in Nat /\ cuts[v] <= Len(Items)
      /\ \A v, w \in Worker : v < w => cuts[v] <= cuts[w-1]
  BY <1>1, BatchFacts DEF Joined
<1>4. \A v \in Worker : \A k \in cuts[v-1] + 1 .. at[v] :
          k \in Nat /\ k \in DOMAIN bitcode /\ cuts[v-1] < k /\ k <= cuts[v]
  BY <1>1, <1>3
<1>5. ASSUME NEW k \in DOMAIN bitcode
      PROVE  /\ Compiled(bitcode[k][1]) \in LinkedObject
             /\ Compiled(bitcode[k][1]).object = bitcode[k][1]
  <2>1. bitcode[k][1] \in Object
    BY <1>1, BitcodeFacts
  <2>2. modules[bitcode[k][1]].mutants \in SUBSET Point
    BY <1>1, <2>1, TypeParts DEF ModuleType, ModuleState
  <2> QED
    BY <2>1, <2>2 DEF Compiled, LinkedObject
<1>6. ASSUME NEW v \in Worker, NEW w \in Worker, v < w,
             NEW x \in Range(stored[v]), NEW y \in Range(stored[w])
      PROVE  <<x, y>> \in ByObject
  <2>1. PICK k \in cuts[v-1] + 1 .. at[v] : x = Compiled(bitcode[k][1])
    BY <1>2
  <2>2. PICK l \in cuts[w-1] + 1 .. at[w] : y = Compiled(bitcode[l][1])
    BY <1>2
  <2>3. k \in DOMAIN bitcode /\ l \in DOMAIN bitcode /\ k < l
    BY <1>3, <1>4, <1>6
  <2>4. bitcode[k][1] < bitcode[l][1]
    BY <2>3 DEF BitcodeInv
  <2> QED
    BY <1>5, <2>1, <2>2, <2>3, <2>4 DEF ByObject
<1>7. OrderedBy(Results, ByObject)
  BY <1>1, <1>2, <1>6, ResultsFacts
<1>8. Results \in Seq(LinkedObject) /\ Range(Results) = UNION {Range(stored[w]) : w \in Worker}
  BY <1>1, ResultsFacts DEF ResultType
<1>9. ASSUME NEW k \in DOMAIN bitcode PROVE \E w \in Worker : k \in cuts[w-1] + 1 .. at[w]
  <2>1. Done(k)
    BY <1>1, DoneBounds
  <2>2. PICK w \in Worker : cuts[w-1] < k /\ k <= at[w]
    BY <2>1 DEF Done
  <2>3. k \in Nat /\ cuts[w-1] \in Nat /\ at[w] \in Nat
    BY <1>1, <1>3
  <2> QED
    BY <2>2, <2>3
<1>10. Range(Results) \subseteq {Compiled(bitcode[k][1]) : k \in DOMAIN bitcode}
  BY <1>2, <1>4, <1>8
<1>11. ASSUME NEW k \in DOMAIN bitcode PROVE Compiled(bitcode[k][1]) \in Range(Results)
  BY <1>2, <1>8, <1>9
<1> QED
  BY <1>7, <1>8, <1>10, <1>11

-----------------------------------------------------------------------------
(* What is linked.                                                         *)

LEMMA SurvivorsCompiled ==
    ASSUME TInv, BitcodeInv, ListInv, SyntaxInv, MutantsInv, PassedInv, CompiledInv,
           EndApplyStage
    PROVE  LinkedMutantsAreTheSurvivors'
<1>1. /\ TypeOK /\ Joined /\ UNCHANGED config /\ UNCHANGED <<bitcode, modules, rejected>>
      /\ UNCHANGED <<points, astStorage>> /\ i \in 1..5 /\ pc \in Modifying
      /\ i < 5 => pc' \in Modifying
      /\ i = 5 => pc = "compile" /\ output' = output \o Results
  BY EndApplyStageFacts DEF lists
<1>2. CASE i < 5
  BY <1>1, <1>2 DEF LinkedMutantsAreTheSurvivors, Modifying
<1>3. CASE i = 5
  <2>1. pc = "compile" /\ output' = output \o Results
    BY <1>1, <1>3
  <2>2. /\ Results \in Seq(LinkedObject)
        /\ Range(Results) = {Compiled(bitcode[k][1]) : k \in DOMAIN bitcode}
    BY <1>1, <2>1, CompiledResults
  <2>3. output \in Seq(LinkedObject) /\ \A k \in DOMAIN output : output[k].mutants = {}
    BY <1>1, <2>1, TypeParts DEF OutputType, PassedInv
  <2>4. Range(output') = Range(output) \cup Range(Results)
    BY <2>1, <2>2, <2>3, ConcatFacts
  <2>5. \A k \in DOMAIN bitcode : bitcode[k][1] \in Object
    BY <1>1, BitcodeFacts
  <2>6. \A o \in Object : modules[o].mutants = AddedTo(o) /\ modules[o].added = AddedTo(o)
    BY <2>1 DEF MutantsInv, Modifying
  <2>7. \A x \in Range(output) : x.mutants = {}
    BY <2>3 DEF Range
  <2>8. \A k \in DOMAIN bitcode : Compiled(bitcode[k][1]).mutants = AddedTo(bitcode[k][1])
    BY <2>5, <2>6 DEF Compiled
  <2> DEFINE linked == UNION {output'[k].mutants : k \in DOMAIN output'}
  <2>9. linked = UNION {x.mutants : x \in Range(output')}
    BY DEF Range
  <2>10. ASSUME NEW q \in linked PROVE q \in Range(points)
    <3>1. PICK x \in Range(output') : q \in x.mutants
      BY <2>9
    <3>2. x \in Range(Results)
      BY <2>4, <2>7, <3>1
    <3>3. PICK k \in DOMAIN bitcode : x = Compiled(bitcode[k][1])
      BY <2>2, <3>2
    <3> QED
      BY <2>8, <3>1, <3>3 DEF AddedTo
  <2>11. Range(points) = Mutable \ rejected
    BY <1>1 DEF ListInv, PointsInv, Survivors
  <2>12. ASSUME NEW q \in Range(points) PROVE q \in linked
    <3>1. PICK k \in DOMAIN bitcode : q[1] = bitcode[k][1]
      BY <2>11, MutableFacts
    <3>2. q \in Compiled(bitcode[k][1]).mutants
      BY <2>8, <3>1 DEF AddedTo
    <3>3. Compiled(bitcode[k][1]) \in Range(output')
      BY <2>2, <2>4
    <3> QED
      BY <2>9, <3>2, <3>3
  <2> HIDE DEF linked
  <2>13. linked = Mutable \ rejected /\ linked = Range(points)
    BY <2>10, <2>11, <2>12
  <2>14. syntax => linked \subseteq astStorage
    BY <2>1, <2>13 DEF SyntaxInv, Modifying
  <2>15. Object' = Object /\ syntax' = syntax /\ \A o : PointsIn(o)' = PointsIn(o)
    BY <1>1, Fixed DEF PointsIn
  <2>16. UNION {PointsIn(bitcode[k][1])' : k \in DOMAIN bitcode'} = Mutable
    BY <1>1, <2>15 DEF Mutable
  <2>17. \A o \in Object' : modules'[o].mutants = modules'[o].added
    BY <1>1, <2>6, <2>15
  <2> QED
    BY <1>1, <2>13, <2>14, <2>15, <2>16, <2>17 DEF LinkedMutantsAreTheSurvivors, linked
<1> QED
  BY <1>1, <1>2, <1>3

LEMMA NothingSurvived ==
    ASSUME TInv, ListInv, PhaseInv, SyntaxInv, ReturnInputs
    PROVE  LinkedMutantsAreTheSurvivors'
<1>1. /\ pc = "filtered" /\ points = <<>> /\ output' = [o \in Object |-> PassThrough(o)]
      /\ UNCHANGED config /\ UNCHANGED <<bitcode, modules, rejected>>
  BY DEF ReturnInputs
<1>2. Range(points) = {} /\ Range(points) = Mutable \ rejected
  BY <1>1 DEF ListInv, PointsInv, Survivors, Range
<1>3. UNION {output'[k].mutants : k \in DOMAIN output'} = {}
  BY <1>1 DEF PassThrough
<1>4. \A o \in Object : modules[o].mutants = modules[o].added
  BY <1>1 DEF PhaseInv, Untouched, Modifying
<1>5. Object' = Object /\ \A o : PointsIn(o)' = PointsIn(o)
  BY <1>1, Fixed DEF PointsIn
<1>6. UNION {PointsIn(bitcode[k][1])' : k \in DOMAIN bitcode'} = Mutable
  BY <1>1, <1>5 DEF Mutable
<1> QED
  BY <1>1, <1>2, <1>3, <1>4, <1>5, <1>6 DEF LinkedMutantsAreTheSurvivors

(* The whole invariant.                                                    *)
PInv ==
    /\ TInv /\ BitcodeInv /\ PhaseInv
    /\ ListInv /\ SyntaxInv /\ MutantsInv
    /\ PassedInv /\ CompiledInv
    /\ LinkedMutantsAreTheSurvivors

LEMMA LinkedStep == ASSUME PInv, [Next]_vars PROVE LinkedMutantsAreTheSurvivors'
<1>0. TInv /\ LinkedMutantsAreTheSurvivors
  BY DEF PInv
<1>1. CASE pc' # "done"
  BY <1>1 DEF LinkedMutantsAreTheSurvivors
<1>2. CASE UNCHANGED vars
  <2>1. /\ UNCHANGED config /\ UNCHANGED <<bitcode, modules, rejected, output, pc, astStorage>>
    BY <1>2 DEF vars, lists
  <2>2. Object' = Object /\ syntax' = syntax /\ \A o : PointsIn(o)' = PointsIn(o)
    BY <2>1, Fixed DEF PointsIn
  <2>3. UNION {PointsIn(bitcode[k][1])' : k \in DOMAIN bitcode'} = Mutable
    BY <2>1, <2>2 DEF Mutable
  <2> QED
    BY <1>0, <2>1, <2>2, <2>3 DEF LinkedMutantsAreTheSurvivors, Mutable
<1>3. ASSUME NEW w \in Worker, Task(w) PROVE pc' # "done"
  <2>1. pc' = pc /\ running
    BY <1>3 DEF Task, TakeItem, FilterFunction, SelectInstructions, IndexSource, FilterMutation,
       TransformModule, ApplyMutation, CompileModule, ItemDone
  <2> QED
    BY <1>0, <2>1, NotRunning, StageNamesDiffer
<1>4. CASE ExtractObject \/ GatherFunctions \/ FindMutationPoints \/ PrepareMutations
           \/ StartStage \/ EndFilter \/ LeaveFilters \/ EndSelection \/ EndIndex
  BY <1>1, <1>4, ApplyStagesFacts, StageNamesDiffer
     DEF ExtractObject, GatherFunctions, FindMutationPoints, PrepareMutations, StartStage,
         EndFilter, LeaveFilters, EndSelection, EndIndex
<1> QED
  BY <1>1, <1>2, <1>3, <1>4, SurvivorsCompiled, NothingSurvived DEF Next, Main, Terminated, PInv

LEMMA PInvInit == Init => PInv
<1> SUFFICES ASSUME Init PROVE PInv
  OBVIOUS
<1>1. TInv
  BY TInvInit
<1>2. BitcodeInv /\ PhaseInv /\ SyntaxInv /\ MutantsInv /\ CompiledInv
      /\ LinkedMutantsAreTheSurvivors
  BY DEF Init, BitcodeInv, PhaseInv, Untouched, SyntaxInv, MutantsInv, CompiledInv,
         LinkedMutantsAreTheSurvivors, Modifying
<1>3. ListInv
  BY DEF Init, ListInv, FilterInv, SelectInv, PointsInv, FilterStages, Modifying
<1>4. PassedInv
  <2>1. Len(inputObjects) \in Nat
    BY <1>1, ProgramFacts DEF TInv, TypeOK
  <2>2. pc = "extract" /\ i = 1 /\ output = <<>> /\ bitcode = <<>>
    BY DEF Init
  <2>3. DOMAIN output = {} /\ DOMAIN bitcode = {}
    BY <2>2
  <2>4. ObjectsOf(output) = {} /\ Loaded = {} /\ 1..(i-1) = {}
    BY <2>2, <2>3 DEF ObjectsOf, Loaded
  <2>5. i \in 1..Len(inputObjects) + 1
    BY <2>1, <2>2
  <2> QED
    BY <2>2, <2>3, <2>4, <2>5 DEF PassedInv, OrderedBy
<1> QED
  BY <1>1, <1>2, <1>3, <1>4 DEF PInv

LEMMA PInvStep == PInv /\ [Next]_vars => PInv'
  BY TInvStep, BitcodeStep, PhaseStep, ListStep, SyntaxStep, MutantsStep, PassedStep,
     CompiledStep, LinkedStep DEF PInv

(* The whole invariant holds in every state.                               *)
THEOREM FullInvariance == Spec => []PInv
  BY PInvInit, PInvStep, PTL DEF Spec

(* The mutants in the linked objects are exactly the points of the loaded  *)
(* modules that no filter rejected, for every program, every number of     *)
(* workers and of filters; each had been announced to its module, and with *)
(* the syntax filter each is confirmed by the index of the sources.        *)
THEOREM SurvivorsAreLinked == Spec => []LinkedMutantsAreTheSurvivors
<1>1. PInv => LinkedMutantsAreTheSurvivors
  BY DEF PInv
<1> QED
  BY <1>1, FullInvariance, PTL

-----------------------------------------------------------------------------
(* The list of objects is rewritten.                                       *)

(* The operators of the abstract specification are those of this one.      *)
LEMMA SameOperators ==
    /\ \A s : Pipeline!Range(s) = Range(s)
    /\ \A s, S : Pipeline!Keep(s, S) = Keep(s, S)
<1>1. \A s : Pipeline!Range(s) = Range(s)
  BY DEF Pipeline!Range, Range
<1>2. \A s, S : Pipeline!Keep(s, S) = Keep(s, S)
  BY DEF Pipeline!Keep, Keep, Pipeline!FlattenSeq, FlattenSeq
<1> QED
  BY <1>1, <1>2

Less == {z \in Nat \X Nat : z[1] < z[2]}
Shown(s) == [k \in DOMAIN s |-> [object |-> s[k].object, compiled |-> s[k].compiled]]
Everything == [o \in Object |-> o]

(* A list in the order of the objects is the part of the list of objects   *)
(* that it names.                                                          *)
LEMMA KeepIs ==
    ASSUME inputObjects \in Programs,
           NEW objects \in Seq(Nat), OrderedBy(objects, Less), NEW S,
           NEW s \in Seq(LinkedObject), OrderedBy(s, ByObject),
           ObjectsOf(s) = Range(objects) \cap S
    PROVE  /\ DOMAIN Keep(objects, S) = DOMAIN s
           /\ \A k \in DOMAIN s : Keep(objects, S)[k] = s[k].object
<1> DEFINE kept == Keep(objects, S)
           m == Len(kept)
           n == Len(s)
           t == [k \in 1..n |-> s[k].object]
<1>1. kept \in Seq(Nat) /\ Range(kept) = Range(objects) \cap S /\ OrderedBy(kept, Less)
  BY KeepFacts
<1> HIDE DEF kept
<1>2. /\ m \in Nat /\ DOMAIN kept = 1..m /\ kept \in [1..m -> Nat]
  BY <1>1
<1>3. n \in Nat /\ DOMAIN s = 1..n
  OBVIOUS
<1>4. ASSUME NEW k \in 1..n PROVE s[k] \in LinkedObject /\ s[k].object \in Nat
  <2>1. s[k] \in LinkedObject
    BY <1>3, ElementOfSeq
  <2> QED
    BY <2>1, ProgramFacts DEF LinkedObject
<1>5. t \in [1..n -> Nat]
  BY <1>4
<1>6. \A a, b \in 1..m : a < b => kept[a] < kept[b]
  BY <1>1, <1>2 DEF OrderedBy, Less
<1>7. \A a, b \in 1..n : a < b => t[a] < t[b]
  BY <1>3 DEF OrderedBy, ByObject
<1>8. \A k \in 1..m : \E j \in 1..n : t[j] = kept[k]
  <2>1. ObjectsOf(s) = Range(kept)
    BY <1>1
  <2> QED
    BY <1>2, <1>3, <2>1 DEF ObjectsOf, Range
<1>9. ASSUME NEW k \in 1..n PROVE \E j \in 1..m : kept[j] = t[k]
  <2>1. t[k] = s[k].object /\ s[k].object \in ObjectsOf(s)
    BY <1>3 DEF ObjectsOf
  <2>2. t[k] \in Range(kept)
    BY <1>1, <2>1
  <2> QED
    BY <1>2, <2>2 DEF Range
<1> HIDE DEF m, n
<1>10. m = n /\ \A k \in 1..m : kept[k] = t[k]
  <2> HIDE DEF t
  <2>1. m \in Nat /\ n \in Nat
    BY <1>2, <1>3
  <2>2. kept \in [1..m -> Nat]
    BY <1>2
  <2>3. t \in [1..n -> Nat]
    BY <1>5
  <2>4. \A a, b \in 1..m : a < b => kept[a] < kept[b]
    BY <1>6
  <2>5. \A a, b \in 1..n : a < b => t[a] < t[b]
    BY <1>7
  <2>6. \A k \in 1..m : \E j \in 1..n : t[j] = kept[k]
    BY <1>8
  <2>7. \A k \in 1..n : \E j \in 1..m : kept[j] = t[k]
    BY <1>9
  <2>8. SameIncreasing(m, n, kept, t)
    BY <2>4, <2>5, <2>6, <2>7 DEF SameIncreasing
  <2> QED
    BY <2>1, <2>2, <2>3, <2>8, IncreasingAgree
<1> QED
  BY <1>2, <1>3, <1>10 DEF kept

(* The list of all objects.                                                *)
LEMMA EverythingFacts ==
    ASSUME inputObjects \in Programs
    PROVE  Everything \in Seq(Nat) /\ Range(Everything) = Object /\ OrderedBy(Everything, Less)
<1>1. Object = 1..Len(inputObjects) /\ Len(inputObjects) \in Nat
  BY ProgramFacts
<1>2. Everything \in Seq(Nat) /\ DOMAIN Everything = Object /\ \A o \in Object : Everything[o] = o
  BY <1>1 DEF Everything
<1>3. Range(Everything) = Object
  BY <1>2 DEF Range
<1>4. \A o \in Object : o \in Nat
  BY <1>1
<1> QED
  BY <1>2, <1>3, <1>4 DEF OrderedBy, Less

(* Objects passed through and compiled ones, each in order, are a          *)
(* rewriting of the list of objects.                                       *)
LEMMA IsRewriting ==
    ASSUME inputObjects \in Programs,
           NEW s \in Seq(LinkedObject), OrderedBy(s, ByObject),
           NEW t \in Seq(LinkedObject), OrderedBy(t, ByObject),
           ObjectsOf(s) \cap ObjectsOf(t) = {}, ObjectsOf(s) \cup ObjectsOf(t) = Object,
           \A k \in DOMAIN s : s[k].compiled = FALSE,
           \A k \in DOMAIN t : t[k].compiled = TRUE
    PROVE  Shown(s \o t) \in Pipeline!Rewritings(Everything)
<1> DEFINE replaced == ObjectsOf(t)
           kept == Range(Everything) \ replaced
           first == Keep(Everything, kept)
           second == Keep(Everything, replaced)
           x == [k \in DOMAIN first |-> [object |-> first[k], compiled |-> FALSE]]
           y == [k \in DOMAIN second |-> [object |-> second[k], compiled |-> TRUE]]
<1>1. Everything \in Seq(Nat) /\ Range(Everything) = Object /\ OrderedBy(Everything, Less)
  BY EverythingFacts
<1>2. ObjectsOf(s) = Range(Everything) \cap kept /\ ObjectsOf(t) = Range(Everything) \cap replaced
  BY <1>1
<1> HIDE DEF replaced, kept
<1>3. DOMAIN first = DOMAIN s /\ \A k \in DOMAIN s : first[k] = s[k].object
  BY <1>1, <1>2, KeepIs
<1>4. DOMAIN second = DOMAIN t /\ \A k \in DOMAIN t : second[k] = t[k].object
  BY <1>1, <1>2, KeepIs
<1> HIDE DEF first, second
<1>5. x = Shown(s)
  BY <1>3 DEF Shown
<1>6. y = Shown(t)
  BY <1>4 DEF Shown
<1>7. Pipeline!Marked(Everything, replaced, FALSE) = x
  BY SameOperators DEF Pipeline!Marked, kept, first
<1>8. Pipeline!Marked(Everything, replaced, TRUE) = y
  BY SameOperators DEF Pipeline!Marked, second
<1> HIDE DEF x, y
<1>9. Shown(s \o t) = Shown(s) \o Shown(t)
  <2> DEFINE T == [object : Object, compiled : BOOLEAN]
  <2>1. /\ Len(s) \in Nat /\ DOMAIN s = 1..Len(s) /\ Len(t) \in Nat /\ DOMAIN t = 1..Len(t)
    OBVIOUS
  <2>2. ASSUME NEW u \in Seq(LinkedObject)
        PROVE  Shown(u) \in Seq(T) /\ Len(Shown(u)) = Len(u)
    <3>1. \A k \in 1..Len(u) : u[k] \in LinkedObject
      BY ElementOfSeq
    <3>2. \A k \in 1..Len(u) : [object |-> u[k].object, compiled |-> u[k].compiled] \in T
      BY <3>1 DEF LinkedObject
    <3>3. Len(u) \in Nat /\ DOMAIN u = 1..Len(u)
      OBVIOUS
    <3> HIDE DEF T
    <3>4. Shown(u) \in [1..Len(u) -> T]
      BY <3>2, <3>3 DEF Shown
    <3>5. Shown(u) \in Seq(T) /\ DOMAIN Shown(u) = 1..Len(u)
      BY <3>3, <3>4
    <3>6. Len(Shown(u)) = Len(u)
      BY <3>3, <3>5
    <3> QED
      BY <3>5, <3>6
  <2> HIDE DEF T
  <2>3. /\ Shown(s) \in Seq(T) /\ Shown(t) \in Seq(T)
        /\ Len(Shown(s)) = Len(s) /\ Len(Shown(t)) = Len(t)
    BY <2>2
  <2>4. /\ s \o t \in Seq(LinkedObject) /\ DOMAIN (s \o t) = 1..Len(s) + Len(t)
        /\ \A k \in 1..Len(s) + Len(t) : (s \o t)[k] = IF k <= Len(s) THEN s[k] ELSE t[k - Len(s)]
    BY ConcatProperties
  <2>5. /\ Shown(s) \o Shown(t) \in Seq(T) /\ DOMAIN (Shown(s) \o Shown(t)) = 1..Len(s) + Len(t)
        /\ \A k \in 1..Len(s) + Len(t) :
              (Shown(s) \o Shown(t))[k] = IF k <= Len(s) THEN Shown(s)[k] ELSE Shown(t)[k - Len(s)]
    <3>1. /\ Shown(s) \o Shown(t) \in Seq(T)
          /\ DOMAIN (Shown(s) \o Shown(t)) = 1..Len(Shown(s)) + Len(Shown(t))
          /\ \A k \in 1..Len(Shown(s)) + Len(Shown(t)) :
                (Shown(s) \o Shown(t))[k] = IF k <= Len(Shown(s)) THEN Shown(s)[k]
                                           ELSE Shown(t)[k - Len(Shown(s))]
      <4> DEFINE a == Shown(s)
                 b == Shown(t)
      <4>1. a \in Seq(T) /\ b \in Seq(T)
        BY <2>3
      <4> HIDE DEF a, b
      <4>2. /\ a \o b \in Seq(T)
            /\ DOMAIN (a \o b) = 1..Len(a) + Len(b)
            /\ \A k \in 1..Len(a) + Len(b) :
                  (a \o b)[k] = IF k <= Len(a) THEN a[k] ELSE b[k - Len(a)]
        <5>1. Len(a) \in Nat /\ Len(b) \in Nat
          BY <4>1
        <5> QED
          BY <4>1, <5>1, ConcatProperties
      <4> QED
        BY <4>2 DEF a, b
    <3> QED
      BY <2>3, <3>1
  <2>6. \A k \in 1..Len(s) + Len(t) : /\ k <= Len(s) => k \in DOMAIN s
                                      /\ ~(k <= Len(s)) => k - Len(s) \in DOMAIN t
    BY <2>1
  <2>7. \A k \in 1..Len(s) + Len(t) : Shown(s \o t)[k] = (Shown(s) \o Shown(t))[k]
    BY <2>4, <2>5, <2>6 DEF Shown
  <2>8. Shown(s \o t) \in Seq(T) /\ Len(Shown(s \o t)) = Len(s \o t)
    BY <2>2, <2>4
  <2> QED
    BY <2>1, <2>4, <2>5, <2>7, <2>8
<1>10. replaced \in SUBSET Range(Everything)
  BY <1>1 DEF replaced
<1>11. \A r \in SUBSET Range(Everything) :
          Pipeline!Marked(Everything, r, FALSE) \o Pipeline!Marked(Everything, r, TRUE)
              \in Pipeline!Rewritings(Everything)
  BY SameOperators DEF Pipeline!Rewritings
<1> QED
  BY <1>5, <1>6, <1>7, <1>8, <1>9, <1>10, <1>11

(* A run that keeps a point links the objects it could not load, then the  *)
(* compiled ones.                                                          *)
LEMMA CompiledRewriting ==
    ASSUME PInv, EndApplyStage, i = 5
    PROVE  Shown(output') \in Pipeline!Rewritings(Everything)
<1>1. /\ TInv /\ BitcodeInv /\ CompiledInv /\ PassedInv /\ TypeOK /\ OutputType /\ Joined
      /\ pc = "compile" /\ output' = output \o Results
  BY EndApplyStageFacts DEF PInv
<1>2. /\ Results \in Seq(LinkedObject) /\ OrderedBy(Results, ByObject)
      /\ Range(Results) = {Compiled(bitcode[k][1]) : k \in DOMAIN bitcode}
  BY <1>1, CompiledResults
<1>3. /\ output \in Seq(LinkedObject) /\ OrderedBy(output, ByObject)
      /\ \A k \in DOMAIN output : output[k].compiled = FALSE
      /\ ObjectsOf(output) \cap Loaded = {} /\ ObjectsOf(output) \cup Loaded = Object
  BY <1>1 DEF OutputType, PassedInv
<1>4. inputObjects \in Programs
  BY <1>1 DEF TypeOK
<1>5. ASSUME NEW k \in DOMAIN Results
      PROVE  Results[k].compiled = TRUE /\ Results[k].object \in Loaded
  <2>1. Results[k] \in Range(Results)
    BY DEF Range
  <2>2. PICK l \in DOMAIN bitcode : Results[k] = Compiled(bitcode[l][1])
    BY <1>2, <2>1
  <2> QED
    BY <2>2 DEF Compiled, Loaded
<1>6. ASSUME NEW k \in DOMAIN bitcode PROVE bitcode[k][1] \in ObjectsOf(Results)
  <2>1. Compiled(bitcode[k][1]) \in Range(Results)
    BY <1>2
  <2>2. PICK l \in DOMAIN Results : Results[l] = Compiled(bitcode[k][1])
    BY <2>1 DEF Range
  <2> QED
    BY <2>2 DEF Compiled, ObjectsOf
<1>7. ObjectsOf(Results) = Loaded
  BY <1>5, <1>6 DEF ObjectsOf, Loaded
<1>8. ObjectsOf(output) \cap ObjectsOf(Results) = {} /\ ObjectsOf(output) \cup ObjectsOf(Results) = Object
  BY <1>3, <1>7
<1>9. \A k \in DOMAIN Results : Results[k].compiled = TRUE
  BY <1>5
<1>10. Shown(output \o Results) \in Pipeline!Rewritings(Everything)
  BY <1>2, <1>3, <1>4, <1>8, <1>9, IsRewriting
<1> QED
  BY <1>1, <1>10

(* A run that keeps none links the objects it was given.                   *)
LEMMA UnchangedRewriting ==
    ASSUME PInv, ReturnInputs
    PROVE  Shown(output') \in Pipeline!Rewritings(Everything)
<1> DEFINE s == [o \in Object |-> PassThrough(o)]
<1>1. inputObjects \in Programs /\ output' = s
  BY DEF PInv, TInv, TypeOK, ReturnInputs
<1>2. s \in Seq(LinkedObject)
  BY <1>1, PassThroughType
<1>3. /\ DOMAIN s = Object
      /\ \A o \in Object : s[o].object = o /\ s[o].compiled = FALSE /\ s[o] \in LinkedObject
  BY DEF PassThrough, LinkedObject
<1> HIDE DEF s
<1>4. OrderedBy(s, ByObject)
  BY <1>3 DEF OrderedBy, ByObject
<1>5. ObjectsOf(s) = Object
  BY <1>3 DEF ObjectsOf
<1>6. <<>> \in Seq(LinkedObject) /\ DOMAIN <<>> = {}
  OBVIOUS
<1>7. OrderedBy(<<>>, ByObject) /\ ObjectsOf(<<>>) = {}
  BY <1>6 DEF OrderedBy, ObjectsOf
<1>8. ObjectsOf(s) \cap ObjectsOf(<<>>) = {} /\ ObjectsOf(s) \cup ObjectsOf(<<>>) = Object
  BY <1>5, <1>7
<1>9. \A k \in DOMAIN s : s[k].compiled = FALSE
  BY <1>3
<1>10. Shown(s \o <<>>) \in Pipeline!Rewritings(Everything)
  <2>1. \A k \in DOMAIN <<>> : (<<>>)[k].compiled = TRUE
    BY <1>6
  <2> QED
    BY <1>1, <1>2, <1>4, <1>6, <1>7, <1>8, <1>9, <2>1, IsRewriting
<1>11. s \o <<>> = s
  BY <1>2
<1> QED
  BY <1>1, <1>10, <1>11

(* Every step of the pipeline is a step of the promise, or none of its     *)
(* business.                                                               *)
LEMMA StepRewrites == ASSUME PInv, [Next]_vars PROVE [Pipeline!Return]_Pipeline!vars
<1>1. TInv
  BY DEF PInv
<1>2. ASSUME NEW w \in Worker, Task(w) PROVE pc # "done" /\ pc' = pc /\ UNCHANGED config
  <2>1. pc' = pc /\ running /\ UNCHANGED config
    BY <1>2 DEF Task, TakeItem, FilterFunction, SelectInstructions, IndexSource, FilterMutation,
       TransformModule, ApplyMutation, CompileModule, ItemDone
  <2> QED
    BY <1>1, <2>1, NotRunning, StageNamesDiffer
<1>3. ASSUME \/ ExtractObject \/ GatherFunctions \/ FindMutationPoints \/ PrepareMutations
             \/ StartStage \/ EndFilter \/ LeaveFilters \/ EndSelection \/ EndIndex
      PROVE  pc # "done" /\ pc' # "done" /\ UNCHANGED config
  BY <1>3, ApplyStagesFacts, StageNamesDiffer
     DEF ExtractObject, GatherFunctions, FindMutationPoints, PrepareMutations, StartStage,
         EndFilter, LeaveFilters, EndSelection, EndIndex
<1>4. \/ UNCHANGED config /\ UNCHANGED <<pc, output>>
      \/ UNCHANGED config /\ pc # "done" /\ pc' # "done"
      \/ /\ UNCHANGED config /\ pc # "done" /\ pc' = "done"
         /\ Shown(output') \in Pipeline!Rewritings(Everything)
  <2>1. CASE UNCHANGED vars
    BY <2>1 DEF vars
  <2>2. CASE EndApplyStage
    <3>1. /\ UNCHANGED config /\ i \in 1..5 /\ pc \in Modifying
          /\ i < 5 => pc' \in Modifying
          /\ i = 5 => pc' = "done"
      BY <1>1, <2>2, EndApplyStageFacts
    <3> QED
      BY <2>2, <3>1, CompiledRewriting, StageNamesDiffer
  <2>3. CASE ReturnInputs
    <3>1. UNCHANGED config /\ pc = "filtered" /\ pc' = "done"
      BY <2>3 DEF ReturnInputs
    <3> QED
      BY <2>3, <3>1, UnchangedRewriting
  <2> QED
    BY <1>2, <1>3, <2>1, <2>2, <2>3 DEF Next, Main, Terminated
<1>5. Everything' = Everything
  <2>1. Object' = Object
    BY <1>4, Fixed
  <2> QED
    BY <2>1 DEF Everything
<1>6. CASE UNCHANGED <<pc, output>>
  BY <1>5, <1>6 DEF Pipeline!vars, Everything
<1>7. CASE pc # "done" /\ pc' # "done"
  BY <1>5, <1>7 DEF Pipeline!vars, Everything
<1>8. CASE /\ pc # "done" /\ pc' = "done"
           /\ Shown(output') \in Pipeline!Rewritings(Everything)
  <2>1. Shown(output') = [k \in DOMAIN output' |->
            [object |-> output'[k].object, compiled |-> output'[k].compiled]]
    BY DEF Shown
  <2> QED
    BY <1>5, <1>8, <2>1 DEF Pipeline!Return, Everything
<1> QED
  BY <1>4, <1>6, <1>7, <1>8

(* The pipeline rewrites the list of objects of the link, for every        *)
(* program, every number of workers and of filters: every object is linked *)
(* exactly once, passed through in its place or compiled from its bitcode  *)
(* and after those in the same order.                                      *)
THEOREM Refinement == Spec => ImplementsObjectRewriting
<1>1. Init => Pipeline!Init
  BY DEF Init, Pipeline!Init
<1>2. PInv /\ [Next]_vars => [Pipeline!Return]_Pipeline!vars
  BY StepRewrites
<1> QED
  BY <1>1, <1>2, FullInvariance, PTL DEF Spec, ImplementsObjectRewriting, Pipeline!Spec

=============================================================================
