---------------------- MODULE PthreadTaskExecutorProofs ----------------------
(***************************************************************************)
(* Theorems about PthreadTaskExecutor, for inputs and task lists of every  *)
(* size.  The inductive invariant IInv says, for each phase of execute(),  *)
(* which workers have been spawned, which part of its slice each of them   *)
(* has done, and what the containers hold because of it.                   *)
(***************************************************************************)
EXTENDS PthreadTaskExecutor, SequenceTheorems, InductionLemmas, TLAPS

(* s lists the elements of K in lo+1..hi, in increasing order.             *)
Increasing(s) == \A a, b \in DOMAIN s : a < b => s[a] < s[b]
Slice(K, s, lo, hi) ==
    /\ Range(s) = {k \in K : lo < k /\ k <= hi}
    /\ Increasing(s)

Spawned(w)   == threads[w] # "none"
Processed(w) == IF threads[w] = "increment" THEN it[w] + 1 ELSE it[w]
Parallel     == pc \in {"spawn", "join", "collect"}

WorkerInv(w, s, lo, hi) ==
    /\ lo <= it[w] /\ it[w] <= hi
    /\ threads[w] = "increment" => it[w] < hi
    /\ threads[w] = "exited" => it[w] = hi
    /\ Slice(kept, s, lo, Processed(w))

ExecuteInv ==
    pc = "execute" =>
        /\ out = <<>> /\ i = 1 /\ storagesVec.size = 0 /\ countersVec.size = 0
        /\ \A w \in Worker : ~Spawned(w) /\ it[w] = 0 /\ storages[w] = <<>>

SequentialInv ==
    pc = "sequential" =>
        /\ tasks > 0 /\ in > 0
        /\ \A w \in Worker : storages[w] = <<>> /\ (Spawned(w) => w = 1)
        /\ Spawned(1)
        /\ WorkerInv(1, out, 0, in)

ParallelInv ==
    Parallel =>
        /\ tasks > 1 /\ in > 1
        /\ cuts \in Batches
        /\ i <= Workers + 1
        /\ \A w \in Worker :
              IF Spawned(w) THEN WorkerInv(w, storages[w], cuts[w-1], cuts[w])
                            ELSE storages[w] = <<>>

PhaseInv ==
    /\ pc = "spawn" => out = <<>> /\ \A w \in Worker : Spawned(w) <=> w < i
    /\ pc = "join" => /\ out = <<>>
                      /\ \A w \in Worker : Spawned(w) <=> w <= Workers
                      /\ \A w \in Worker : w < i => threads[w] = "exited"
    /\ pc = "collect" => /\ Slice(kept, out, 0, cuts[i-1])
                         /\ \A w \in Worker : Spawned(w) <=> w <= Workers
                         /\ \A w \in Worker : w <= Workers => threads[w] = "exited"
    /\ pc = "done" => tasks = 0 \/ Slice(kept, out, 0, in)

MemoryInv ==
    /\ pc = "spawn" => /\ storagesVec.capacity = Workers /\ storagesVec.size = i - 1
                       /\ countersVec.capacity = Workers /\ countersVec.size = i - 1
    /\ \A w \in Worker : Spawned(w) => /\ refs[w].storages = storagesVec.block
                                       /\ refs[w].counters = countersVec.block

IInv == TypeOK /\ ExecuteInv /\ SequentialInv /\ ParallelInv /\ PhaseInv /\ MemoryInv

-----------------------------------------------------------------------------
(* Slices.                                                                 *)

(* An empty sequence lists an empty interval.                              *)
LEMMA SliceEmpty ==
    ASSUME NEW K \in SUBSET Nat, NEW lo \in Nat
    PROVE  Slice(K, <<>>, lo, lo)
<1>0. \A k \in K : k \in Nat
  OBVIOUS
<1>1. DOMAIN <<>> = {}
  OBVIOUS
<1>2. Range(<<>>) = {}
  BY <1>1 DEF Range
<1>3. {k \in K : lo < k /\ k <= lo} = {}
  <2>1. ASSUME NEW k \in K PROVE ~(lo < k /\ k <= lo)
    BY <1>0
  <2> QED
    BY <2>1
<1> QED
  BY <1>1, <1>2, <1>3 DEF Slice, Increasing

(* Appending the next element of K extends the interval by one.            *)
LEMMA SliceAppend ==
    ASSUME NEW K \in SUBSET Nat, NEW s \in Seq(Nat), NEW lo \in Nat, NEW n \in Nat,
           lo <= n, n + 1 \in K, Slice(K, s, lo, n)
    PROVE  Slice(K, Append(s, n + 1), lo, n + 1)
<1>0. \A k \in K : k \in Nat
  OBVIOUS
<1> DEFINE t == Append(s, n + 1)
<1>1. /\ DOMAIN s = 1..Len(s) /\ Len(s) \in Nat
      /\ DOMAIN t = 1..Len(s) + 1
      /\ \A a \in 1..Len(s) : t[a] = s[a]
      /\ t[Len(s) + 1] = n + 1
  OBVIOUS
<1>2. Range(t) = Range(s) \cup {n + 1}
  <2> HIDE DEF t
  <2>1. Range(t) = {t[a] : a \in 1..Len(s) + 1}
    BY <1>1 DEF Range
  <2>2. Range(s) = {s[a] : a \in 1..Len(s)}
    BY <1>1 DEF Range
  <2>3. \A a \in 1..Len(s) + 1 : a \in 1..Len(s) \/ a = Len(s) + 1
    BY <1>1
  <2>4. \A a \in 1..Len(s) : a \in 1..Len(s) + 1
    BY <1>1
  <2>5. Len(s) + 1 \in 1..Len(s) + 1
    BY <1>1
  <2> QED
    BY <2>1, <2>2, <2>3, <2>4, <2>5, <1>1
<1>3. {k \in K : lo < k /\ k <= n + 1} = {k \in K : lo < k /\ k <= n} \cup {n + 1}
  <2>1. ASSUME NEW k \in K
        PROVE  (lo < k /\ k <= n + 1) <=> ((lo < k /\ k <= n) \/ k = n + 1)
    BY <1>0
  <2> QED
    BY <2>1
<1>4. \A a \in DOMAIN s : s[a] \in Nat /\ s[a] <= n
  BY DEF Slice, Range
<1>5. Increasing(t)
  <2> SUFFICES ASSUME NEW a \in DOMAIN t, NEW b \in DOMAIN t, a < b
               PROVE  t[a] < t[b]
    BY DEF Increasing
  <2>1. CASE b \in 1..Len(s)
    BY <2>1, <1>1 DEF Slice, Increasing
  <2>2. CASE b = Len(s) + 1
    <3>1. a \in 1..Len(s)
      BY <2>2, <1>1
    <3>2. t[a] = s[a] /\ t[b] = n + 1
      BY <3>1, <2>2, <1>1
    <3> QED
      BY <3>1, <3>2, <1>1, <1>4
  <2> QED
    BY <2>1, <2>2, <1>1
<1> QED
  BY <1>2, <1>3, <1>5 DEF Slice

(* An item that yields no result extends the interval and not the list.    *)
LEMMA SliceSkip ==
    ASSUME NEW K \in SUBSET Nat, NEW s, NEW lo \in Nat, NEW n \in Nat,
           n + 1 \notin K, Slice(K, s, lo, n)
    PROVE  Slice(K, s, lo, n + 1)
<1>0. \A k \in K : k \in Nat
  OBVIOUS
<1>1. {k \in K : lo < k /\ k <= n + 1} = {k \in K : lo < k /\ k <= n}
  <2>1. ASSUME NEW k \in K PROVE k <= n + 1 <=> k <= n
    BY <1>0
  <2> QED
    BY <2>1
<1> QED
  BY <1>1 DEF Slice

(* Two adjacent slices concatenate to a slice.                             *)
LEMMA SliceConcat ==
    ASSUME NEW K \in SUBSET Nat, NEW s \in Seq(Nat), NEW t \in Seq(Nat),
           NEW lo \in Nat, NEW mid \in Nat, NEW hi \in Nat,
           lo <= mid, mid <= hi,
           Slice(K, s, lo, mid), Slice(K, t, mid, hi)
    PROVE  Slice(K, s \o t, lo, hi)
<1>0. \A k \in K : k \in Nat
  OBVIOUS
<1> DEFINE u == s \o t
<1>1. /\ DOMAIN s = 1..Len(s) /\ Len(s) \in Nat
      /\ DOMAIN t = 1..Len(t) /\ Len(t) \in Nat
      /\ DOMAIN u = 1..Len(s) + Len(t)
      /\ \A a \in 1..Len(s) : u[a] = s[a]
      /\ \A a \in Len(s)+1..Len(s)+Len(t) : u[a] = t[a - Len(s)]
  BY ConcatProperties
<1>2. /\ \A a \in DOMAIN s : s[a] \in Nat /\ s[a] <= mid
      /\ \A a \in DOMAIN t : t[a] \in Nat /\ t[a] > mid
  BY DEF Slice, Range
<1>3. Range(u) = Range(s) \cup Range(t)
  <2>1. ASSUME NEW x \in Range(u) PROVE x \in Range(s) \cup Range(t)
    <3>1. PICK a \in DOMAIN u : x = u[a]
      BY DEF Range
    <3>2. CASE a \in 1..Len(s)
      BY <3>1, <3>2, <1>1 DEF Range
    <3>3. CASE a \in Len(s)+1..Len(s)+Len(t)
      <4>1. a - Len(s) \in DOMAIN t
        BY <3>3, <1>1
      <4> QED
        BY <4>1, <3>1, <3>3, <1>1 DEF Range
    <3> QED
      BY <3>1, <3>2, <3>3, <1>1
  <2>2. ASSUME NEW x \in Range(s) PROVE x \in Range(u)
    BY <1>1 DEF Range
  <2>3. ASSUME NEW x \in Range(t) PROVE x \in Range(u)
    <3>1. PICK a \in DOMAIN t : x = t[a]
      BY DEF Range
    <3>2. /\ a + Len(s) \in Len(s)+1..Len(s)+Len(t)
          /\ (a + Len(s)) - Len(s) = a
          /\ a + Len(s) \in DOMAIN u
      BY <1>1
    <3>3. u[a + Len(s)] = x
      BY <3>1, <3>2, <1>1
    <3> QED
      BY <3>2, <3>3 DEF Range
  <2> QED
    BY <2>1, <2>2, <2>3
<1>4. {k \in K : lo < k /\ k <= hi}
        = {k \in K : lo < k /\ k <= mid} \cup {k \in K : mid < k /\ k <= hi}
  <2>1. ASSUME NEW k \in K
        PROVE  (lo < k /\ k <= hi) <=> ((lo < k /\ k <= mid) \/ (mid < k /\ k <= hi))
    BY <1>0
  <2> QED
    BY <2>1
<1>5. Increasing(u)
  <2> SUFFICES ASSUME NEW a \in DOMAIN u, NEW b \in DOMAIN u, a < b
               PROVE  u[a] < u[b]
    BY DEF Increasing
  <2>1. CASE b \in 1..Len(s)
    BY <2>1, <1>1 DEF Slice, Increasing
  <2>2. CASE a \in 1..Len(s) /\ b \in Len(s)+1..Len(s)+Len(t)
    <3>1. b - Len(s) \in DOMAIN t /\ u[b] = t[b - Len(s)] /\ u[a] = s[a]
      BY <2>2, <1>1
    <3> QED
      BY <3>1, <2>2, <1>1, <1>2
  <2>3. CASE a \in Len(s)+1..Len(s)+Len(t)
    <3>1. /\ b \in Len(s)+1..Len(s)+Len(t)
          /\ a - Len(s) \in DOMAIN t /\ b - Len(s) \in DOMAIN t
          /\ a - Len(s) < b - Len(s)
      BY <2>3, <1>1
    <3>2. u[a] = t[a - Len(s)] /\ u[b] = t[b - Len(s)]
      BY <3>1, <2>3, <1>1
    <3> QED
      BY <3>1, <3>2 DEF Slice, Increasing
  <2> QED
    BY <2>1, <2>2, <2>3, <1>1
<1> QED
  BY <1>3, <1>4, <1>5 DEF Slice

-----------------------------------------------------------------------------
(* The invariant.                                                          *)

(* Facts about sizes every step uses.                                      *)
LEMMA Sizes ==
    ASSUME TypeOK
    PROVE  /\ MaxIn \in Nat /\ MaxTasks \in Nat /\ in \in Nat /\ tasks \in Nat
           /\ Workers \in 0..MaxTasks /\ Workers <= in /\ Workers <= tasks
           /\ kept \in SUBSET Nat /\ Item \subseteq Nat
           /\ i \in Nat /\ Worker = 1..MaxTasks
  BY SizesAssumption DEF TypeOK, Workers, Worker, Item

(* What a partition of the input guarantees to its batches.                *)
LEMMA BatchBounds ==
    ASSUME TypeOK, cuts \in Batches
    PROVE  /\ \A w \in 0..MaxTasks : cuts[w] \in Nat /\ cuts[w] <= in
           /\ \A w \in Worker : w - 1 \in 0..MaxTasks /\ cuts[w-1] <= cuts[w]
           /\ cuts[0] = 0 /\ cuts[Workers] = in
<1>1. /\ cuts \in [0..MaxTasks -> 0..in]
      /\ cuts[0] = 0 /\ cuts[Workers] = in
      /\ \A w \in Worker : cuts[w-1] <= cuts[w]
  BY DEF Batches
<1>2. \A w \in 0..MaxTasks : cuts[w] \in 0..in
  BY <1>1
<1> QED
  BY <1>1, <1>2, Sizes

(* Vector operations keep the type of a vector.                            *)
LEMMA VecTypes ==
    ASSUME NEW v \in VecType, NEW n \in Nat
    PROVE  PushBack(v) \in VecType /\ Reserve(v, n) \in VecType
<1>1. /\ v = [size |-> v.size, capacity |-> v.capacity, block |-> v.block]
      /\ v.size \in Nat /\ v.capacity \in Nat /\ v.block \in Nat
  BY DEF VecType
<1>2. [v EXCEPT !.size = @ + 1] \in VecType
  BY <1>1 DEF VecType
<1>3. [size |-> v.size + 1, capacity |-> v.size + 1, block |-> v.block + 1] \in VecType
  BY <1>1 DEF VecType
<1>4. [size |-> v.size, capacity |-> n, block |-> v.block + 1] \in VecType
  BY <1>1 DEF VecType
<1> QED
  BY <1>2, <1>3, <1>4 DEF PushBack, Reserve

(* A new executor satisfies the invariant.                                 *)
LEMMA IInvInit == Init => IInv
<1> SUFFICES ASSUME Init PROVE IInv
  OBVIOUS
<1>1. TypeOK
  BY SizesAssumption DEF Init, TypeOK, Worker, Item, VecType, EmptyVec
<1> QED
  BY <1>1 DEF Init, IInv, ExecuteInv, SequentialInv, ParallelInv, PhaseInv, MemoryInv, EmptyVec,
              Parallel, Spawned, Worker

(* Nothing to do: the empty result is complete for an empty input.         *)
LEMMA ReturnEarlyStep == ASSUME IInv, ReturnEarly PROVE IInv'
<1>0. /\ TypeOK /\ ExecuteInv /\ SequentialInv /\ ParallelInv /\ PhaseInv /\ MemoryInv
      /\ MaxIn \in Nat /\ MaxTasks \in Nat /\ in \in Nat /\ tasks \in Nat
      /\ Workers \in 0..MaxTasks /\ Workers <= in /\ Workers <= tasks
      /\ kept \in SUBSET Nat /\ Item \subseteq Nat
      /\ i \in Nat /\ Worker = 1..MaxTasks
  BY Sizes DEF IInv
<1>1. TypeOK'
  BY <1>0 DEF ReturnEarly, vars, args, mem, work, TypeOK
<1>2. ExecuteInv'
  BY DEF ReturnEarly, ExecuteInv
<1>3. SequentialInv'
  BY DEF ReturnEarly, SequentialInv
<1>4. ParallelInv'
  BY DEF ReturnEarly, ParallelInv, Parallel
<1>5. PhaseInv'
  BY <1>0, SliceEmpty DEF ReturnEarly, args, PhaseInv, ExecuteInv
<1>6. MemoryInv'
  BY <1>0 DEF ReturnEarly, args, mem, work, MemoryInv, Spawned
<1> QED
  BY <1>1, <1>2, <1>3, <1>4, <1>5, <1>6 DEF IInv

(* The main thread starts the only task at the first item.                 *)
LEMMA BeginSequentialStep == ASSUME IInv, BeginSequential PROVE IInv'
<1>0. /\ TypeOK /\ ExecuteInv /\ SequentialInv /\ ParallelInv /\ PhaseInv /\ MemoryInv
      /\ MaxIn \in Nat /\ MaxTasks \in Nat /\ in \in Nat /\ tasks \in Nat
      /\ Workers \in 0..MaxTasks /\ Workers <= in /\ Workers <= tasks
      /\ kept \in SUBSET Nat /\ Item \subseteq Nat
      /\ i \in Nat /\ Worker = 1..MaxTasks
  BY Sizes DEF IInv
<1>1. TypeOK'
  <2>1. countersVec' \in VecType
    BY <1>0, VecTypes DEF BeginSequential, TypeOK
  <2>2. refs' \in [Worker -> [storages : Nat, counters : Nat]]
    BY <1>0, <2>1 DEF BeginSequential, TypeOK, VecType
  <2> QED
    BY <1>0, <2>1, <2>2 DEF BeginSequential, TypeOK, args
<1>2. ExecuteInv'
  BY DEF BeginSequential, ExecuteInv
<1>3. SequentialInv'
  <2>1. /\ threads' = [threads EXCEPT ![1] = "iterate"] /\ it' = it
        /\ storages' = storages /\ out' = <<>> /\ kept' = kept /\ in' = in /\ tasks' = tasks
        /\ tasks > 0 /\ in > 0
    BY <1>0 DEF BeginSequential, args, ExecuteInv
  <2>2. 1 \in Worker /\ threads'[1] = "iterate" /\ it'[1] = 0
    BY <1>0, <2>1 DEF TypeOK, ExecuteInv, BeginSequential
  <2>3. Slice(kept, <<>>, 0, 0)
    BY <1>0, SliceEmpty
  <2>4. WorkerInv(1, out, 0, in)'
    BY <2>1, <2>2, <2>3, <1>0 DEF WorkerInv, Processed
  <2>5. \A w \in Worker : storages'[w] = <<>> /\ (threads'[w] # "none" => w = 1)
    BY <2>1, <1>0 DEF TypeOK, ExecuteInv, BeginSequential, Spawned
  <2> QED
    BY <2>1, <2>2, <2>4, <2>5 DEF SequentialInv, Spawned
<1>4. ParallelInv'
  BY DEF BeginSequential, ParallelInv, Parallel
<1>5. PhaseInv'
  BY DEF BeginSequential, PhaseInv
<1>6. MemoryInv'
  BY <1>0 DEF BeginSequential, TypeOK, ExecuteInv, MemoryInv, Spawned
<1> QED
  BY <1>1, <1>2, <1>3, <1>4, <1>5, <1>6 DEF IInv

(* The task has gone through every item.                                   *)
LEMMA FinishSequentialStep == ASSUME IInv, FinishSequential PROVE IInv'
<1>0. /\ TypeOK /\ ExecuteInv /\ SequentialInv /\ ParallelInv /\ PhaseInv /\ MemoryInv
      /\ MaxIn \in Nat /\ MaxTasks \in Nat /\ in \in Nat /\ tasks \in Nat
      /\ Workers \in 0..MaxTasks /\ Workers <= in /\ Workers <= tasks
      /\ kept \in SUBSET Nat /\ Item \subseteq Nat
      /\ i \in Nat /\ Worker = 1..MaxTasks
  BY Sizes DEF IInv
<1>1. TypeOK'
  BY <1>0 DEF FinishSequential, vars, args, mem, work, TypeOK
<1>2. ExecuteInv'
  BY DEF FinishSequential, ExecuteInv
<1>3. SequentialInv'
  BY DEF FinishSequential, SequentialInv
<1>4. ParallelInv'
  BY DEF FinishSequential, ParallelInv, Parallel
<1>5. PhaseInv'
  <2>1. WorkerInv(1, out, 0, in) /\ threads[1] = "exited"
    BY <1>0 DEF FinishSequential, SequentialInv
  <2>2. Slice(kept, out, 0, in)
    BY <2>1 DEF WorkerInv, Processed
  <2> QED
    BY <2>2 DEF FinishSequential, args, PhaseInv
<1>6. MemoryInv'
  BY <1>0 DEF FinishSequential, args, mem, work, MemoryInv, Spawned
<1> QED
  BY <1>1, <1>2, <1>3, <1>4, <1>5, <1>6 DEF IInv

(* The batches are cut and both vectors reserved.                          *)
LEMMA BeginParallelStep == ASSUME IInv, BeginParallel PROVE IInv'
<1>0. /\ TypeOK /\ ExecuteInv /\ SequentialInv /\ ParallelInv /\ PhaseInv /\ MemoryInv
      /\ MaxIn \in Nat /\ MaxTasks \in Nat /\ in \in Nat /\ tasks \in Nat
      /\ Workers \in 0..MaxTasks /\ Workers <= in /\ Workers <= tasks
      /\ kept \in SUBSET Nat /\ Item \subseteq Nat
      /\ i \in Nat /\ Worker = 1..MaxTasks
  BY Sizes DEF IInv
<1>1. TypeOK'
  <2>1. storagesVec' \in VecType /\ countersVec' \in VecType
    <3>1. Workers \in Nat /\ storagesVec \in VecType /\ countersVec \in VecType
      BY <1>0 DEF TypeOK
    <3> QED
      BY <3>1, VecTypes DEF BeginParallel
  <2>2. cuts' \in [0..MaxTasks -> 0..in]
    BY DEF BeginParallel, Batches
  <2>3. cuts' \in [0..MaxTasks -> 0..MaxIn]
    BY <2>2, <1>0 DEF TypeOK
  <2> QED
    BY <1>0, <2>1, <2>3 DEF BeginParallel, TypeOK, args, work
<1>2. ExecuteInv'
  BY DEF BeginParallel, ExecuteInv
<1>3. SequentialInv'
  BY DEF BeginParallel, SequentialInv
<1>4. ParallelInv'
  BY <1>0 DEF BeginParallel, args, work, ExecuteInv, ParallelInv, Parallel, Spawned, Workers, Batches
<1>5. PhaseInv'
  BY <1>0 DEF BeginParallel, work, ExecuteInv, PhaseInv, Spawned
<1>6. MemoryInv'
  <2>1. /\ storagesVec' = [size |-> storagesVec.size, capacity |-> Workers, block |-> storagesVec.block + 1]
        /\ countersVec' = [size |-> countersVec.size, capacity |-> Workers, block |-> countersVec.block + 1]
        /\ Workers' = Workers
    BY DEF BeginParallel, Reserve, args, Workers
  <2> QED
    BY <2>1, <1>0 DEF BeginParallel, work, TypeOK, VecType, Reserve, ExecuteInv, MemoryInv, Spawned, Workers
<1> QED
  BY <1>1, <1>2, <1>3, <1>4, <1>5, <1>6 DEF IInv

(* Worker i starts on batch i; its references point into the live blocks.  *)
LEMMA SpawnWorkerStep == ASSUME IInv, SpawnWorker PROVE IInv'
<1>0. /\ TypeOK /\ ExecuteInv /\ SequentialInv /\ ParallelInv /\ PhaseInv /\ MemoryInv
      /\ MaxIn \in Nat /\ MaxTasks \in Nat /\ in \in Nat /\ tasks \in Nat
      /\ Workers \in 0..MaxTasks /\ Workers <= in /\ Workers <= tasks
      /\ kept \in SUBSET Nat /\ Item \subseteq Nat
      /\ i \in Nat /\ Worker = 1..MaxTasks
  BY Sizes DEF IInv
<1>1. TypeOK'
  <2>1. storagesVec' \in VecType /\ countersVec' \in VecType
    BY <1>0, VecTypes DEF SpawnWorker, TypeOK
  <2>2. i \in Worker /\ i' \in 1..MaxTasks+1
    BY <1>0 DEF SpawnWorker, TypeOK
  <2>3. Begin(i) \in 0..MaxIn
    BY <2>2, <1>0 DEF SpawnWorker, Begin, TypeOK
  <2>4. it' \in [Worker -> 0..MaxIn]
    BY <2>3, <1>0 DEF SpawnWorker, TypeOK
  <2>5. refs' \in [Worker -> [storages : Nat, counters : Nat]]
    BY <1>0, <2>1 DEF SpawnWorker, TypeOK, VecType
  <2> QED
    BY <1>0, <2>1, <2>2, <2>4, <2>5 DEF SpawnWorker, TypeOK, args
<1>2. ExecuteInv'
  BY DEF SpawnWorker, ExecuteInv
<1>3. SequentialInv'
  BY DEF SpawnWorker, SequentialInv
<1>4. ParallelInv'
  <2>1. /\ i \in Worker /\ cuts \in Batches /\ tasks > 1 /\ in > 1 /\ i' <= Workers + 1
        /\ ~Spawned(i)
    BY <1>0 DEF SpawnWorker, TypeOK, ParallelInv, PhaseInv, Parallel
  <2>2. /\ threads' = [threads EXCEPT ![i] = "iterate"] /\ it' = [it EXCEPT ![i] = cuts[i-1]]
        /\ storages' = storages /\ cuts' = cuts /\ kept' = kept /\ in' = in /\ tasks' = tasks
        /\ pc = "spawn" /\ pc' = "spawn"
    BY DEF SpawnWorker, args, Begin
  <2>3. /\ cuts[i-1] \in Nat /\ cuts[i-1] <= cuts[i]
    BY <2>1, <1>0, BatchBounds
  <2>4. storages[i] = <<>> /\ Slice(kept, storages[i], cuts[i-1], cuts[i-1])
    BY <2>1, <2>2, <2>3, <1>0, SliceEmpty DEF ParallelInv, Parallel
  <2>5. threads'[i] = "iterate" /\ it'[i] = cuts[i-1]
    BY <2>1, <2>2, <1>0 DEF TypeOK
  <2>7. ASSUME NEW w \in Worker
        PROVE  (IF Spawned(w) THEN WorkerInv(w, storages[w], cuts[w-1], cuts[w])
                              ELSE storages[w] = <<>>)'
    <3>1. CASE w = i
      BY <3>1, <2>2, <2>3, <2>4, <2>5 DEF WorkerInv, Processed, Spawned
    <3>2. CASE w # i
      <4>1. threads'[w] = threads[w] /\ it'[w] = it[w]
        BY <3>2, <2>2, <1>0 DEF TypeOK
      <4>2. IF Spawned(w) THEN WorkerInv(w, storages[w], cuts[w-1], cuts[w])
                          ELSE storages[w] = <<>>
        BY <2>2, <1>0 DEF ParallelInv, Parallel
      <4> QED
        BY <4>1, <4>2, <2>2 DEF WorkerInv, Processed, Spawned
    <3> QED
      BY <3>1, <3>2
  <2> QED
    BY <2>1, <2>2, <2>7 DEF ParallelInv, Parallel, Batches, Workers
<1>5. PhaseInv'
  <2>1. /\ pc = "spawn" /\ pc' = "spawn" /\ i' = i + 1 /\ out' = out
        /\ threads' = [threads EXCEPT ![i] = "iterate"]
    BY DEF SpawnWorker
  <2>2. out = <<>> /\ \A w \in Worker : Spawned(w) <=> w < i
    BY <2>1, <1>0 DEF PhaseInv
  <2>3. ASSUME NEW w \in Worker PROVE Spawned(w)' <=> w < i'
    <3>1. CASE w = i
      BY <3>1, <2>1, <1>0 DEF TypeOK, Spawned
    <3>2. CASE w # i
      BY <3>2, <2>1, <2>2, <1>0 DEF TypeOK, Spawned
    <3> QED
      BY <3>1, <3>2
  <2> QED
    BY <2>1, <2>2, <2>3 DEF PhaseInv
<1>6. MemoryInv'
  <2>1. /\ storagesVec.capacity = Workers /\ storagesVec.size = i - 1
        /\ countersVec.capacity = Workers /\ countersVec.size = i - 1
    BY <1>0 DEF SpawnWorker, PhaseInv, MemoryInv
  <2>2. /\ storagesVec' = [storagesVec EXCEPT !.size = @ + 1]
        /\ countersVec' = [countersVec EXCEPT !.size = @ + 1]
    BY <2>1, <1>0 DEF SpawnWorker, PushBack
  <2>3. /\ storagesVec'.block = storagesVec.block /\ storagesVec'.capacity = Workers
        /\ storagesVec'.size = i
        /\ countersVec'.block = countersVec.block /\ countersVec'.capacity = Workers
        /\ countersVec'.size = i
    BY <2>1, <2>2, <1>0 DEF TypeOK, VecType
  <2>4. Workers' = Workers /\ i' - 1 = i
    BY <1>0 DEF SpawnWorker, args, Workers
  <2>5. ASSUME NEW w \in Worker, Spawned(w)'
        PROVE  /\ refs'[w].storages = storagesVec'.block
               /\ refs'[w].counters = countersVec'.block
    <3>1. CASE w = i
      BY <3>1, <2>3, <1>0 DEF SpawnWorker, TypeOK
    <3>2. CASE w # i
      BY <3>2, <2>3, <2>5, <1>0 DEF SpawnWorker, TypeOK, MemoryInv, Spawned
    <3> QED
      BY <3>1, <3>2
  <2> QED
    BY <2>3, <2>4, <2>5 DEF MemoryInv
<1> QED
  BY <1>1, <1>2, <1>3, <1>4, <1>5, <1>6 DEF IInv

(* Every worker runs; the reporter joins them.                             *)
LEMMA StartReporterStep == ASSUME IInv, StartReporter PROVE IInv'
<1>0. /\ TypeOK /\ ExecuteInv /\ SequentialInv /\ ParallelInv /\ PhaseInv /\ MemoryInv
      /\ MaxIn \in Nat /\ MaxTasks \in Nat /\ in \in Nat /\ tasks \in Nat
      /\ Workers \in 0..MaxTasks /\ Workers <= in /\ Workers <= tasks
      /\ kept \in SUBSET Nat /\ Item \subseteq Nat
      /\ i \in Nat /\ Worker = 1..MaxTasks
  BY Sizes DEF IInv
<1>1. TypeOK'
  <2>1. i' \in 1..MaxTasks + 1
    BY <1>0 DEF StartReporter, TypeOK
  <2>2. TypeOK
    BY <1>0
  <2> QED
    BY <2>1, <2>2 DEF StartReporter, args, mem, work, TypeOK
<1>2. ExecuteInv'
  BY DEF StartReporter, ExecuteInv
<1>3. SequentialInv'
  BY DEF StartReporter, SequentialInv
<1>4. ParallelInv'
  BY <1>0 DEF StartReporter, args, mem, work, ParallelInv, Parallel, WorkerInv, Processed, Spawned, Workers, Batches
<1>5. PhaseInv'
  <2>1. \A w \in Worker : w < i <=> w <= Workers
    BY <1>0 DEF StartReporter, ParallelInv, Parallel
  <2>2. out = <<>> /\ \A w \in Worker : Spawned(w) <=> w < i
    BY <1>0 DEF StartReporter, PhaseInv
  <2>3. /\ threads' = threads /\ out' = out /\ Workers' = Workers /\ pc' = "join" /\ i' = 1
    BY DEF StartReporter, args, work, Workers
  <2>4. \A w \in Worker : ~(w < 1)
    BY <1>0
  <2> QED
    BY <2>1, <2>2, <2>3, <2>4 DEF PhaseInv, Spawned
<1>6. MemoryInv'
  BY <1>0 DEF StartReporter, args, mem, work, MemoryInv, Spawned
<1> QED
  BY <1>1, <1>2, <1>3, <1>4, <1>5, <1>6 DEF IInv

(* The main thread has waited for worker i.                                *)
LEMMA JoinWorkerStep == ASSUME IInv, JoinWorker PROVE IInv'
<1>0. /\ TypeOK /\ ExecuteInv /\ SequentialInv /\ ParallelInv /\ PhaseInv /\ MemoryInv
      /\ MaxIn \in Nat /\ MaxTasks \in Nat /\ in \in Nat /\ tasks \in Nat
      /\ Workers \in 0..MaxTasks /\ Workers <= in /\ Workers <= tasks
      /\ kept \in SUBSET Nat /\ Item \subseteq Nat
      /\ i \in Nat /\ Worker = 1..MaxTasks
  BY Sizes DEF IInv
<1>1. TypeOK'
  <2>1. i' \in 1..MaxTasks + 1
    BY <1>0 DEF JoinWorker, TypeOK
  <2>2. TypeOK
    BY <1>0
  <2> QED
    BY <2>1, <2>2 DEF JoinWorker, args, mem, work, TypeOK
<1>2. ExecuteInv'
  BY DEF JoinWorker, ExecuteInv
<1>3. SequentialInv'
  BY DEF JoinWorker, SequentialInv
<1>4. ParallelInv'
  BY <1>0 DEF JoinWorker, args, mem, work, ParallelInv, Parallel, WorkerInv, Processed, Spawned, Workers, Batches
<1>5. PhaseInv'
  <2>1. /\ threads' = threads /\ out' = out /\ Workers' = Workers /\ pc' = "join"
        /\ pc = "join" /\ i' = i + 1 /\ threads[i] = "exited"
    BY DEF JoinWorker, args, work, Workers
  <2>2. \A w \in Worker : w < i + 1 => w < i \/ w = i
    BY <1>0
  <2> QED
    BY <2>1, <2>2, <1>0 DEF PhaseInv, Spawned
<1>6. MemoryInv'
  BY <1>0 DEF JoinWorker, args, mem, work, MemoryInv, Spawned
<1> QED
  BY <1>1, <1>2, <1>3, <1>4, <1>5, <1>6 DEF IInv

(* All workers and the reporter are joined.                                *)
LEMMA JoinReporterStep == ASSUME IInv, JoinReporter PROVE IInv'
<1>0. /\ TypeOK /\ ExecuteInv /\ SequentialInv /\ ParallelInv /\ PhaseInv /\ MemoryInv
      /\ MaxIn \in Nat /\ MaxTasks \in Nat /\ in \in Nat /\ tasks \in Nat
      /\ Workers \in 0..MaxTasks /\ Workers <= in /\ Workers <= tasks
      /\ kept \in SUBSET Nat /\ Item \subseteq Nat
      /\ i \in Nat /\ Worker = 1..MaxTasks
  BY Sizes DEF IInv
<1>1. TypeOK'
  <2>1. i' \in 1..MaxTasks + 1
    BY <1>0 DEF JoinReporter, TypeOK
  <2>2. TypeOK
    BY <1>0
  <2> QED
    BY <2>1, <2>2 DEF JoinReporter, args, mem, work, TypeOK
<1>2. ExecuteInv'
  BY DEF JoinReporter, ExecuteInv
<1>3. SequentialInv'
  BY DEF JoinReporter, SequentialInv
<1>4. ParallelInv'
  <2>1. /\ UNCHANGED <<threads, it, storages, cuts, kept, in, tasks>>
        /\ pc = "join" /\ i' = 1
    BY DEF JoinReporter, args, work
  <2>2. i' <= Workers + 1
    BY <2>1, <1>0
  <2> QED
    BY <2>1, <2>2, <1>0 DEF ParallelInv, Parallel, WorkerInv, Processed, Spawned, Workers, Batches
<1>5. PhaseInv'
  <2>1. /\ threads' = threads /\ out' = out /\ Workers' = Workers /\ pc' = "collect" /\ kept' = kept
        /\ pc = "join" /\ i' = 1 /\ i > Workers /\ cuts' = cuts
    BY DEF JoinReporter, args, work, Workers
  <2>2. out = <<>> /\ cuts[0] = 0
    BY <2>1, <1>0, BatchBounds DEF PhaseInv, ParallelInv, Parallel
  <2>3. Slice(kept, out, 0, cuts[0])
    BY <2>2, <1>0, SliceEmpty
  <2>4. /\ \A w \in Worker : Spawned(w) <=> w <= Workers
        /\ \A w \in Worker : w <= Workers => threads[w] = "exited"
    BY <2>1, <1>0 DEF PhaseInv
  <2>5. i' - 1 = 0
    BY <2>1
  <2> QED
    BY <2>1, <2>3, <2>4, <2>5 DEF PhaseInv, Spawned
<1>6. MemoryInv'
  BY <1>0 DEF JoinReporter, args, mem, work, MemoryInv, Spawned
<1> QED
  BY <1>1, <1>2, <1>3, <1>4, <1>5, <1>6 DEF IInv

(* The next slice is appended to the results collected so far.             *)
LEMMA CollectStorageStep == ASSUME IInv, CollectStorage PROVE IInv'
<1>0. /\ TypeOK /\ ExecuteInv /\ SequentialInv /\ ParallelInv /\ PhaseInv /\ MemoryInv
      /\ MaxIn \in Nat /\ MaxTasks \in Nat /\ in \in Nat /\ tasks \in Nat
      /\ Workers \in 0..MaxTasks /\ Workers <= in /\ Workers <= tasks
      /\ kept \in SUBSET Nat /\ Item \subseteq Nat
      /\ i \in Nat /\ Worker = 1..MaxTasks
  BY Sizes DEF IInv
<1>1. TypeOK'
  <2>1. i \in Worker
    BY <1>0 DEF CollectStorage, TypeOK
  <2>2. storages[i] \in Seq(Item)
    BY <2>1, <1>0 DEF TypeOK
  <2>3. out' \in Seq(Item)
    BY <2>2, <1>0, ConcatProperties DEF CollectStorage, TypeOK
  <2>4. i' \in 1..MaxTasks + 1
    BY <1>0 DEF CollectStorage, TypeOK
  <2>5. TypeOK
    BY <1>0
  <2> QED
    BY <2>3, <2>4, <2>5 DEF CollectStorage, TypeOK, args, mem, work
<1>2. ExecuteInv'
  BY DEF CollectStorage, ExecuteInv
<1>3. SequentialInv'
  BY DEF CollectStorage, SequentialInv
<1>4. ParallelInv'
  BY <1>0 DEF CollectStorage, args, mem, work, ParallelInv, Parallel, WorkerInv, Processed, Spawned, Workers, Batches
<1>5. PhaseInv'
  <2>1. /\ threads' = threads /\ Workers' = Workers /\ pc = "collect" /\ pc' = "collect"
        /\ i <= Workers /\ i' = i + 1 /\ cuts' = cuts /\ kept' = kept /\ out' = out \o storages[i]
    BY DEF CollectStorage, args, work, Workers
  <2>2. i \in Worker /\ cuts \in Batches
    BY <2>1, <1>0 DEF TypeOK, ParallelInv, Parallel
  <2>3. threads[i] = "exited" /\ Spawned(i)
    BY <2>1, <2>2, <1>0 DEF PhaseInv
  <2>4. WorkerInv(i, storages[i], cuts[i-1], cuts[i])
    BY <2>1, <2>2, <2>3, <1>0 DEF ParallelInv, Parallel
  <2>5. Slice(kept, storages[i], cuts[i-1], cuts[i])
    BY <2>3, <2>4 DEF WorkerInv, Processed
  <2>6. Slice(kept, out, 0, cuts[i-1])
    BY <2>1, <1>0 DEF PhaseInv
  <2>7. storages[i] \in Seq(Nat) /\ out \in Seq(Nat)
    <3>1. storages[i] \in Seq(Item) /\ out \in Seq(Item)
      BY <2>2, <1>0 DEF TypeOK
    <3> QED
      BY <3>1, <1>0, SeqMonotonic
  <2>8. cuts[i-1] \in Nat /\ cuts[i] \in Nat /\ cuts[i-1] <= cuts[i]
    BY <2>2, <1>0, BatchBounds
  <2>9. Slice(kept, out \o storages[i], 0, cuts[i])
    BY <2>5, <2>6, <2>7, <2>8, <1>0, SliceConcat
  <2>10. i' - 1 = i
    BY <2>1, <1>0
  <2> QED
    BY <2>1, <2>9, <2>10, <1>0 DEF PhaseInv, Spawned
<1>6. MemoryInv'
  BY <1>0 DEF CollectStorage, args, mem, work, MemoryInv, Spawned
<1> QED
  BY <1>1, <1>2, <1>3, <1>4, <1>5, <1>6 DEF IInv

(* All slices are collected.                                               *)
LEMMA FinishParallelStep == ASSUME IInv, FinishParallel PROVE IInv'
<1>0. /\ TypeOK /\ ExecuteInv /\ SequentialInv /\ ParallelInv /\ PhaseInv /\ MemoryInv
      /\ MaxIn \in Nat /\ MaxTasks \in Nat /\ in \in Nat /\ tasks \in Nat
      /\ Workers \in 0..MaxTasks /\ Workers <= in /\ Workers <= tasks
      /\ kept \in SUBSET Nat /\ Item \subseteq Nat
      /\ i \in Nat /\ Worker = 1..MaxTasks
  BY Sizes DEF IInv
<1>1. TypeOK'
  BY <1>0 DEF FinishParallel, vars, args, mem, work, TypeOK
<1>2. ExecuteInv'
  BY DEF FinishParallel, ExecuteInv
<1>3. SequentialInv'
  BY DEF FinishParallel, SequentialInv
<1>4. ParallelInv'
  BY DEF FinishParallel, ParallelInv, Parallel
<1>5. PhaseInv'
  <2>1. i - 1 = Workers /\ cuts \in Batches
    BY <1>0 DEF FinishParallel, ParallelInv, Parallel
  <2>2. Slice(kept, out, 0, cuts[i-1]) /\ cuts[i-1] = in
    BY <2>1, <1>0, BatchBounds DEF FinishParallel, PhaseInv
  <2> QED
    BY <2>2 DEF FinishParallel, args, PhaseInv
<1>6. MemoryInv'
  BY <1>0 DEF FinishParallel, args, mem, work, MemoryInv, Spawned
<1> QED
  BY <1>1, <1>2, <1>3, <1>4, <1>5, <1>6 DEF IInv

(* The process has ended.                                                  *)
LEMMA FatalStep == ASSUME IInv, Fatal PROVE IInv'
<1>0. /\ TypeOK /\ ExecuteInv /\ SequentialInv /\ ParallelInv /\ PhaseInv /\ MemoryInv
      /\ MaxIn \in Nat /\ MaxTasks \in Nat /\ in \in Nat /\ tasks \in Nat
      /\ Workers \in 0..MaxTasks /\ Workers <= in /\ Workers <= tasks
      /\ kept \in SUBSET Nat /\ Item \subseteq Nat
      /\ i \in Nat /\ Worker = 1..MaxTasks
  BY Sizes DEF IInv
<1>1. TypeOK'
  BY <1>0 DEF Fatal, vars, args, mem, work, TypeOK
<1>2. ExecuteInv'
  BY DEF Fatal, ExecuteInv
<1>3. SequentialInv'
  BY DEF Fatal, SequentialInv
<1>4. ParallelInv'
  BY DEF Fatal, ParallelInv, Parallel
<1>5. PhaseInv'
  BY DEF Fatal, PhaseInv
<1>6. MemoryInv'
  BY <1>0 DEF Fatal, args, mem, work, MemoryInv, Spawned
<1> QED
  BY <1>1, <1>2, <1>3, <1>4, <1>5, <1>6 DEF IInv

(* The result of the next item is appended where the slice wants it.       *)
LEMMA ProcessItemStep == ASSUME IInv, NEW w \in Worker, ProcessItem(w) PROVE IInv'
<1>0. /\ TypeOK /\ ExecuteInv /\ SequentialInv /\ ParallelInv /\ PhaseInv /\ MemoryInv
      /\ MaxIn \in Nat /\ MaxTasks \in Nat /\ in \in Nat /\ tasks \in Nat
      /\ Workers \in 0..MaxTasks /\ Workers <= in /\ Workers <= tasks
      /\ kept \in SUBSET Nat /\ Item \subseteq Nat
      /\ i \in Nat /\ Worker = 1..MaxTasks
  BY Sizes DEF IInv
<1>a. /\ Spawned(w) /\ pc' = pc /\ i' = i /\ cuts' = cuts
      /\ kept' = kept /\ in' = in /\ tasks' = tasks
      /\ UNCHANGED mem
  BY DEF ProcessItem, Spawned, args
<1>b. pc = "sequential" \/ Parallel
  BY <1>0, <1>a DEF ProcessItem, Alive, ExecuteInv, Parallel, TypeOK
<1>c. pc = "sequential" => w = 1 /\ WorkerInv(1, out, 0, in)
  BY <1>0, <1>a DEF SequentialInv
<1>d. Parallel => /\ WorkerInv(w, storages[w], cuts[w-1], cuts[w]) /\ cuts \in Batches
                  /\ pc = "spawn" \/ pc = "join"
                  /\ cuts[w-1] \in Nat /\ cuts[w] \in Nat /\ cuts[w] <= in
  <2>1. Parallel => cuts \in Batches /\ WorkerInv(w, storages[w], cuts[w-1], cuts[w])
    BY <1>0, <1>a DEF ParallelInv
  <2>2. pc = "collect" => FALSE
    BY <1>0, <1>a DEF ProcessItem, PhaseInv
  <2>3. w \in 0..MaxTasks /\ w - 1 \in 0..MaxTasks
    BY <1>0
  <2> QED
    BY <2>1, <2>2, <2>3, <1>0, BatchBounds DEF Parallel
<1>e. threads[w] = "iterate" /\ threads'[w] = "increment" /\ it'[w] = it[w]
  BY <1>0 DEF ProcessItem, TypeOK
<1>f. it[w] \in Nat /\ it[w] < End(w) /\ End(w) <= MaxIn /\ it[w] + 1 \in Item
  <2>1. it[w] \in Nat /\ it[w] < End(w)
    BY <1>0 DEF ProcessItem, TypeOK
  <2>2. End(w) <= in /\ End(w) \in Nat /\ in <= MaxIn
    BY <1>0, <1>b, <1>d DEF End, TypeOK, Parallel
  <2> QED
    BY <2>1, <2>2, <1>0 DEF Item
<1>o. \A v \in Worker : v # w => /\ threads'[v] = threads[v] /\ it'[v] = it[v]
                                /\ storages'[v] = storages[v]
  BY <1>0 DEF ProcessItem, TypeOK
<1>1. TypeOK'
  <2>0. out \in Seq(Item) /\ storages \in [Worker -> Seq(Item)] /\ it[w] + 1 \in Item
    BY <1>0, <1>f DEF TypeOK
  <2>1. out' \in Seq(Item)
    <3>1. out' = out \/ out' = Append(out, it[w] + 1)
      BY DEF ProcessItem
    <3>2. Append(out, it[w] + 1) \in Seq(Item)
      BY <2>0, AppendProperties
    <3> QED
      BY <2>0, <3>1, <3>2
  <2>2. storages' \in [Worker -> Seq(Item)]
    <3>1. \/ storages' = storages
          \/ storages' = [storages EXCEPT ![w] = Append(storages[w], it[w] + 1)]
      BY DEF ProcessItem
    <3>2. Append(storages[w], it[w] + 1) \in Seq(Item)
      BY <2>0, AppendProperties
    <3> QED
      BY <2>0, <3>1, <3>2
  <2>3. TypeOK
    BY <1>0
  <2> QED
    BY <2>1, <2>2, <2>3 DEF ProcessItem, TypeOK, args, mem
<1>g. ASSUME NEW s \in Seq(Item), NEW lo \in Nat, NEW hi \in Nat, NEW t,
             End(w) = hi, WorkerInv(w, s, lo, hi),
             t = IF it[w] + 1 \in kept THEN Append(s, it[w] + 1) ELSE s
      PROVE  /\ lo <= it'[w] /\ it'[w] <= hi
             /\ threads'[w] = "increment" => it'[w] < hi
             /\ threads'[w] = "exited" => it'[w] = hi
             /\ Slice(kept, t, lo, it[w] + 1)
  <2>1. Slice(kept, s, lo, it[w]) /\ lo <= it[w] /\ it[w] <= hi
    BY <1>g, <1>e DEF WorkerInv, Processed
  <2>2. s \in Seq(Nat)
    BY <1>0, SeqMonotonic
  <2>3. Slice(kept, t, lo, it[w] + 1)
    <3>1. CASE it[w] + 1 \in kept
      BY <3>1, <2>1, <2>2, <1>0, <1>f, <1>g, SliceAppend
    <3>2. CASE it[w] + 1 \notin kept
      BY <3>2, <2>1, <1>0, <1>f, <1>g, SliceSkip
    <3> QED
      BY <3>1, <3>2
  <2> QED
    BY <2>1, <2>3, <1>e, <1>f, <1>g
<1>seq. pc = "sequential" => storages' = storages /\ WorkerInv(1, out, 0, in)'
  <2> SUFFICES ASSUME pc = "sequential"
               PROVE  storages' = storages /\ WorkerInv(1, out, 0, in)'
    OBVIOUS
  <2>1. /\ storages' = storages
        /\ out' = IF it[w] + 1 \in kept THEN Append(out, it[w] + 1) ELSE out
    BY DEF ProcessItem
  <2>2. w = 1 /\ End(w) = in /\ out \in Seq(Item) /\ WorkerInv(w, out, 0, in)
    BY <1>c, <1>0 DEF End, TypeOK
  <2>3. /\ 0 <= it'[w] /\ it'[w] <= in
        /\ threads'[w] = "increment" => it'[w] < in
        /\ threads'[w] = "exited" => it'[w] = in
        /\ Slice(kept, out', 0, it[w] + 1)
    BY <2>1, <2>2, <1>g, <1>0
  <2> QED
    BY <2>1, <2>2, <2>3, <1>a, <1>e DEF WorkerInv, Processed
<1>par. Parallel => out' = out /\ WorkerInv(w, storages[w], cuts[w-1], cuts[w])'
  <2> SUFFICES ASSUME Parallel
               PROVE  out' = out /\ WorkerInv(w, storages[w], cuts[w-1], cuts[w])'
    OBVIOUS
  <2>1. /\ out' = out
        /\ storages'[w] = IF it[w] + 1 \in kept THEN Append(storages[w], it[w] + 1)
                                               ELSE storages[w]
    BY <1>0 DEF ProcessItem, Parallel, TypeOK
  <2>2. /\ End(w) = cuts[w] /\ storages[w] \in Seq(Item)
        /\ WorkerInv(w, storages[w], cuts[w-1], cuts[w])
    BY <1>d, <1>0 DEF End, TypeOK, Parallel
  <2>3. /\ cuts[w-1] <= it'[w] /\ it'[w] <= cuts[w]
        /\ threads'[w] = "increment" => it'[w] < cuts[w]
        /\ threads'[w] = "exited" => it'[w] = cuts[w]
        /\ Slice(kept, storages'[w], cuts[w-1], it[w] + 1)
    BY <2>1, <2>2, <1>g, <1>d
  <2> QED
    BY <2>1, <2>3, <1>a, <1>e DEF WorkerInv, Processed
<1>2. ExecuteInv'
  BY <1>a, <1>b DEF ExecuteInv, Parallel
<1>3. SequentialInv'
  <2> SUFFICES ASSUME pc = "sequential" PROVE SequentialInv'
    BY <1>a DEF SequentialInv
  <2>1. /\ tasks > 0 /\ in > 0 /\ w = 1
        /\ \A v \in Worker : storages[v] = <<>> /\ (Spawned(v) => v = 1)
    BY <1>0, <1>a DEF SequentialInv
  <2>2. storages' = storages /\ WorkerInv(1, out, 0, in)'
    BY <1>seq, <2>1
  <2>3. \A v \in Worker : Spawned(v)' => v = 1
    BY <2>1, <1>o DEF Spawned
  <2>4. Spawned(1)'
    BY <2>1, <1>e DEF Spawned
  <2> QED
    BY <2>1, <2>2, <2>3, <2>4, <1>a DEF SequentialInv
<1>4. ParallelInv'
  <2> SUFFICES ASSUME Parallel PROVE ParallelInv'
    BY <1>a DEF ParallelInv, Parallel
  <2>1. WorkerInv(w, storages[w], cuts[w-1], cuts[w])' /\ Spawned(w)'
    BY <1>par, <1>e DEF Spawned
  <2>2. ASSUME NEW v \in Worker, v # w
        PROVE  (IF Spawned(v) THEN WorkerInv(v, storages[v], cuts[v-1], cuts[v])
                              ELSE storages[v] = <<>>)'
    <3>1. threads'[v] = threads[v] /\ it'[v] = it[v] /\ storages'[v] = storages[v]
      BY <1>o, <2>2
    <3>2. IF Spawned(v) THEN WorkerInv(v, storages[v], cuts[v-1], cuts[v])
                        ELSE storages[v] = <<>>
      BY <1>0 DEF ParallelInv
    <3> QED
      BY <3>1, <3>2, <1>a DEF WorkerInv, Processed, Spawned
  <2>3. \A v \in Worker :
          (IF Spawned(v) THEN WorkerInv(v, storages[v], cuts[v-1], cuts[v])
                         ELSE storages[v] = <<>>)'
    BY <2>1, <2>2
  <2>4. /\ tasks > 1 /\ in > 1 /\ cuts \in Batches /\ i <= Workers + 1
    BY <1>0 DEF ParallelInv
  <2> QED
    BY <2>3, <2>4, <1>a DEF ParallelInv, Batches, Workers
<1>5. PhaseInv'
  <2>1. \A v \in Worker : Spawned(v)' <=> Spawned(v)
    BY <1>o, <1>e, <1>a DEF Spawned
  <2>2. \A v \in Worker : threads[v] = "exited" => threads'[v] = "exited"
    BY <1>o, <1>e, <1>a DEF ProcessItem
  <2>3. Workers' = Workers
    BY <1>a DEF Workers
  <2>4. Parallel => out' = out /\ (pc = "spawn" \/ pc = "join")
    BY <1>par, <1>d
  <2> QED
    BY <2>1, <2>2, <2>3, <2>4, <1>0, <1>a, <1>b DEF PhaseInv, Parallel
<1>6. MemoryInv'
  <2>1. \A v \in Worker : Spawned(v)' <=> Spawned(v)
    BY <1>o, <1>e, <1>a DEF Spawned
  <2>2. Workers' = Workers
    BY <1>a DEF Workers
  <2> QED
    BY <2>1, <2>2, <1>0, <1>a DEF MemoryInv, mem
<1> QED
  BY <1>1, <1>2, <1>3, <1>4, <1>5, <1>6 DEF IInv

(* The iterator moves past the item just processed.                        *)
LEMMA IncrementCounterStep == ASSUME IInv, NEW w \in Worker, IncrementCounter(w) PROVE IInv'
<1>0. /\ TypeOK /\ ExecuteInv /\ SequentialInv /\ ParallelInv /\ PhaseInv /\ MemoryInv
      /\ MaxIn \in Nat /\ MaxTasks \in Nat /\ in \in Nat /\ tasks \in Nat
      /\ Workers \in 0..MaxTasks /\ Workers <= in /\ Workers <= tasks
      /\ kept \in SUBSET Nat /\ Item \subseteq Nat
      /\ i \in Nat /\ Worker = 1..MaxTasks
  BY Sizes DEF IInv
<1>a. /\ Spawned(w) /\ pc' = pc /\ i' = i /\ cuts' = cuts
      /\ kept' = kept /\ in' = in /\ tasks' = tasks
      /\ UNCHANGED mem
  BY DEF IncrementCounter, Spawned, args
<1>b. pc = "sequential" \/ Parallel
  BY <1>0, <1>a DEF IncrementCounter, Alive, ExecuteInv, Parallel, TypeOK
<1>c. pc = "sequential" => w = 1 /\ WorkerInv(1, out, 0, in)
  BY <1>0, <1>a DEF SequentialInv
<1>d. Parallel => /\ WorkerInv(w, storages[w], cuts[w-1], cuts[w]) /\ cuts \in Batches
                  /\ pc = "spawn" \/ pc = "join"
                  /\ cuts[w-1] \in Nat /\ cuts[w] \in Nat /\ cuts[w] <= in
  <2>1. Parallel => cuts \in Batches /\ WorkerInv(w, storages[w], cuts[w-1], cuts[w])
    BY <1>0, <1>a DEF ParallelInv
  <2>2. pc = "collect" => FALSE
    BY <1>0, <1>a DEF IncrementCounter, PhaseInv
  <2>3. w \in 0..MaxTasks /\ w - 1 \in 0..MaxTasks
    BY <1>0
  <2> QED
    BY <2>1, <2>2, <2>3, <1>0, BatchBounds DEF Parallel
<1>e. threads[w] = "increment" /\ threads'[w] = "iterate" /\ it'[w] = it[w] + 1
  BY <1>0 DEF IncrementCounter, TypeOK
<1>f. it[w] \in Nat
  BY <1>0 DEF TypeOK
<1>g. storages' = storages /\ out' = out
  BY DEF IncrementCounter
<1>o. \A v \in Worker : v # w => /\ threads'[v] = threads[v] /\ it'[v] = it[v]
                                /\ storages'[v] = storages[v]
  BY <1>0 DEF IncrementCounter, TypeOK
<1>1. TypeOK'
  <2>1. it[w] + 1 \in 0..MaxIn
    <3>1. pc = "sequential" => it[w] < in
      BY <1>c, <1>e DEF WorkerInv
    <3>2. Parallel => it[w] < in
      BY <1>d, <1>e, <1>f, <1>0 DEF WorkerInv
    <3>3. in <= MaxIn
      BY <1>0 DEF TypeOK
    <3> QED
      BY <3>1, <3>2, <3>3, <1>b, <1>f, <1>0
  <2>2. it' \in [Worker -> 0..MaxIn]
    BY <2>1, <1>0 DEF IncrementCounter, TypeOK
  <2>3. counters' \in [Worker -> Nat]
    <3>1. counters \in [Worker -> Nat] /\ counters' = [counters EXCEPT ![w] = counters[w] + 1]
      BY <1>0 DEF IncrementCounter, TypeOK
    <3>2. counters[w] + 1 \in Nat
      BY <3>1
    <3> QED
      BY <3>1, <3>2
  <2>4. TypeOK
    BY <1>0
  <2> QED
    BY <2>2, <2>3, <2>4 DEF IncrementCounter, TypeOK, args, mem
<1>seq. pc = "sequential" => storages' = storages /\ WorkerInv(1, out, 0, in)'
  BY <1>a, <1>c, <1>e, <1>f, <1>g, <1>0 DEF WorkerInv, Processed, End
<1>par. Parallel => out' = out /\ WorkerInv(w, storages[w], cuts[w-1], cuts[w])'
  BY <1>a, <1>d, <1>e, <1>f, <1>g, <1>0 DEF WorkerInv, Processed, End, Parallel
<1>2. ExecuteInv'
  BY <1>a, <1>b DEF ExecuteInv, Parallel
<1>3. SequentialInv'
  <2> SUFFICES ASSUME pc = "sequential" PROVE SequentialInv'
    BY <1>a DEF SequentialInv
  <2>1. /\ tasks > 0 /\ in > 0 /\ w = 1
        /\ \A v \in Worker : storages[v] = <<>> /\ (Spawned(v) => v = 1)
    BY <1>0, <1>a DEF SequentialInv
  <2>2. storages' = storages /\ WorkerInv(1, out, 0, in)'
    BY <1>seq, <2>1
  <2>3. \A v \in Worker : Spawned(v)' => v = 1
    BY <2>1, <1>o DEF Spawned
  <2>4. Spawned(1)'
    BY <2>1, <1>e DEF Spawned
  <2> QED
    BY <2>1, <2>2, <2>3, <2>4, <1>a DEF SequentialInv
<1>4. ParallelInv'
  <2> SUFFICES ASSUME Parallel PROVE ParallelInv'
    BY <1>a DEF ParallelInv, Parallel
  <2>1. WorkerInv(w, storages[w], cuts[w-1], cuts[w])' /\ Spawned(w)'
    BY <1>par, <1>e DEF Spawned
  <2>2. ASSUME NEW v \in Worker, v # w
        PROVE  (IF Spawned(v) THEN WorkerInv(v, storages[v], cuts[v-1], cuts[v])
                              ELSE storages[v] = <<>>)'
    <3>1. threads'[v] = threads[v] /\ it'[v] = it[v] /\ storages'[v] = storages[v]
      BY <1>o, <2>2
    <3>2. IF Spawned(v) THEN WorkerInv(v, storages[v], cuts[v-1], cuts[v])
                        ELSE storages[v] = <<>>
      BY <1>0 DEF ParallelInv
    <3> QED
      BY <3>1, <3>2, <1>a DEF WorkerInv, Processed, Spawned
  <2>3. \A v \in Worker :
          (IF Spawned(v) THEN WorkerInv(v, storages[v], cuts[v-1], cuts[v])
                         ELSE storages[v] = <<>>)'
    BY <2>1, <2>2
  <2>4. /\ tasks > 1 /\ in > 1 /\ cuts \in Batches /\ i <= Workers + 1
    BY <1>0 DEF ParallelInv
  <2> QED
    BY <2>3, <2>4, <1>a DEF ParallelInv, Batches, Workers
<1>5. PhaseInv'
  <2>1. \A v \in Worker : Spawned(v)' <=> Spawned(v)
    BY <1>o, <1>e, <1>a DEF Spawned
  <2>2. \A v \in Worker : threads[v] = "exited" => threads'[v] = "exited"
    BY <1>o, <1>e, <1>a DEF IncrementCounter
  <2>3. Workers' = Workers
    BY <1>a DEF Workers
  <2>4. Parallel => out' = out /\ (pc = "spawn" \/ pc = "join")
    BY <1>par, <1>d
  <2> QED
    BY <2>1, <2>2, <2>3, <2>4, <1>0, <1>a, <1>b DEF PhaseInv, Parallel
<1>6. MemoryInv'
  <2>1. \A v \in Worker : Spawned(v)' <=> Spawned(v)
    BY <1>o, <1>e, <1>a DEF Spawned
  <2>2. Workers' = Workers
    BY <1>a DEF Workers
  <2> QED
    BY <2>1, <2>2, <1>0, <1>a DEF MemoryInv, mem
<1> QED
  BY <1>1, <1>2, <1>3, <1>4, <1>5, <1>6 DEF IInv

(* A worker leaves with its whole batch processed.                         *)
LEMMA ExitThreadStep == ASSUME IInv, NEW w \in Worker, ExitThread(w) PROVE IInv'
<1>0. /\ TypeOK /\ ExecuteInv /\ SequentialInv /\ ParallelInv /\ PhaseInv /\ MemoryInv
      /\ MaxIn \in Nat /\ MaxTasks \in Nat /\ in \in Nat /\ tasks \in Nat
      /\ Workers \in 0..MaxTasks /\ Workers <= in /\ Workers <= tasks
      /\ kept \in SUBSET Nat /\ Item \subseteq Nat
      /\ i \in Nat /\ Worker = 1..MaxTasks
  BY Sizes DEF IInv
<1>a. /\ Spawned(w) /\ pc' = pc /\ i' = i /\ cuts' = cuts
      /\ kept' = kept /\ in' = in /\ tasks' = tasks
      /\ UNCHANGED mem
  BY DEF ExitThread, Spawned, args
<1>b. pc = "sequential" \/ Parallel
  BY <1>0, <1>a DEF ExitThread, Alive, ExecuteInv, Parallel, TypeOK
<1>c. pc = "sequential" => w = 1 /\ WorkerInv(1, out, 0, in)
  BY <1>0, <1>a DEF SequentialInv
<1>d. Parallel => /\ WorkerInv(w, storages[w], cuts[w-1], cuts[w]) /\ cuts \in Batches
                  /\ pc = "spawn" \/ pc = "join"
                  /\ cuts[w-1] \in Nat /\ cuts[w] \in Nat /\ cuts[w] <= in
  <2>1. Parallel => cuts \in Batches /\ WorkerInv(w, storages[w], cuts[w-1], cuts[w])
    BY <1>0, <1>a DEF ParallelInv
  <2>2. pc = "collect" => FALSE
    BY <1>0, <1>a DEF ExitThread, PhaseInv
  <2>3. w \in 0..MaxTasks /\ w - 1 \in 0..MaxTasks
    BY <1>0
  <2> QED
    BY <2>1, <2>2, <2>3, <1>0, BatchBounds DEF Parallel
<1>e. threads[w] = "iterate" /\ threads'[w] = "exited" /\ it'[w] = it[w]
  BY <1>0 DEF ExitThread, TypeOK
<1>f. it[w] \in Nat /\ it[w] = End(w)
  BY <1>0 DEF ExitThread, TypeOK
<1>g. storages' = storages /\ out' = out
  BY DEF ExitThread
<1>o. \A v \in Worker : v # w => /\ threads'[v] = threads[v] /\ it'[v] = it[v]
                                /\ storages'[v] = storages[v]
  BY <1>0 DEF ExitThread, TypeOK
<1>1. TypeOK'
  BY <1>0 DEF ExitThread, TypeOK, args, mem
<1>seq. pc = "sequential" => storages' = storages /\ WorkerInv(1, out, 0, in)'
  BY <1>a, <1>c, <1>e, <1>f, <1>g, <1>0 DEF WorkerInv, Processed, End
<1>par. Parallel => out' = out /\ WorkerInv(w, storages[w], cuts[w-1], cuts[w])'
  BY <1>a, <1>d, <1>e, <1>f, <1>g, <1>0 DEF WorkerInv, Processed, End, Parallel
<1>2. ExecuteInv'
  BY <1>a, <1>b DEF ExecuteInv, Parallel
<1>3. SequentialInv'
  <2> SUFFICES ASSUME pc = "sequential" PROVE SequentialInv'
    BY <1>a DEF SequentialInv
  <2>1. /\ tasks > 0 /\ in > 0 /\ w = 1
        /\ \A v \in Worker : storages[v] = <<>> /\ (Spawned(v) => v = 1)
    BY <1>0, <1>a DEF SequentialInv
  <2>2. storages' = storages /\ WorkerInv(1, out, 0, in)'
    BY <1>seq, <2>1
  <2>3. \A v \in Worker : Spawned(v)' => v = 1
    BY <2>1, <1>o DEF Spawned
  <2>4. Spawned(1)'
    BY <2>1, <1>e DEF Spawned
  <2> QED
    BY <2>1, <2>2, <2>3, <2>4, <1>a DEF SequentialInv
<1>4. ParallelInv'
  <2> SUFFICES ASSUME Parallel PROVE ParallelInv'
    BY <1>a DEF ParallelInv, Parallel
  <2>1. WorkerInv(w, storages[w], cuts[w-1], cuts[w])' /\ Spawned(w)'
    BY <1>par, <1>e DEF Spawned
  <2>2. ASSUME NEW v \in Worker, v # w
        PROVE  (IF Spawned(v) THEN WorkerInv(v, storages[v], cuts[v-1], cuts[v])
                              ELSE storages[v] = <<>>)'
    <3>1. threads'[v] = threads[v] /\ it'[v] = it[v] /\ storages'[v] = storages[v]
      BY <1>o, <2>2
    <3>2. IF Spawned(v) THEN WorkerInv(v, storages[v], cuts[v-1], cuts[v])
                        ELSE storages[v] = <<>>
      BY <1>0 DEF ParallelInv
    <3> QED
      BY <3>1, <3>2, <1>a DEF WorkerInv, Processed, Spawned
  <2>3. \A v \in Worker :
          (IF Spawned(v) THEN WorkerInv(v, storages[v], cuts[v-1], cuts[v])
                         ELSE storages[v] = <<>>)'
    BY <2>1, <2>2
  <2>4. /\ tasks > 1 /\ in > 1 /\ cuts \in Batches /\ i <= Workers + 1
    BY <1>0 DEF ParallelInv
  <2> QED
    BY <2>3, <2>4, <1>a DEF ParallelInv, Batches, Workers
<1>5. PhaseInv'
  <2>1. \A v \in Worker : Spawned(v)' <=> Spawned(v)
    BY <1>o, <1>e, <1>a DEF Spawned
  <2>2. \A v \in Worker : threads[v] = "exited" => threads'[v] = "exited"
    BY <1>o, <1>e, <1>a DEF ExitThread
  <2>3. Workers' = Workers
    BY <1>a DEF Workers
  <2>4. Parallel => out' = out /\ (pc = "spawn" \/ pc = "join")
    BY <1>par, <1>d
  <2> QED
    BY <2>1, <2>2, <2>3, <2>4, <1>0, <1>a, <1>b DEF PhaseInv, Parallel
<1>6. MemoryInv'
  <2>1. \A v \in Worker : Spawned(v)' <=> Spawned(v)
    BY <1>o, <1>e, <1>a DEF Spawned
  <2>2. Workers' = Workers
    BY <1>a DEF Workers
  <2> QED
    BY <2>1, <2>2, <1>0, <1>a DEF MemoryInv, mem
<1> QED
  BY <1>1, <1>2, <1>3, <1>4, <1>5, <1>6 DEF IInv

(* The reporter only ends itself.                                          *)
LEMMA ReporterFinishesStep == ASSUME IInv, ReporterFinishes PROVE IInv'
  BY DEF ReporterFinishes, args, work, mem, IInv, TypeOK, ExecuteInv, SequentialInv,
         ParallelInv, PhaseInv, MemoryInv, Parallel, WorkerInv, Processed, Spawned,
         Workers, Batches

(* Every step of the executor preserves the invariant.                     *)
LEMMA IInvNext == IInv /\ [Next]_vars => IInv'
<1> SUFFICES ASSUME IInv, [Next]_vars PROVE IInv'
  OBVIOUS
<1>1. CASE Main \/ Fatal
  BY <1>1, ReturnEarlyStep, BeginSequentialStep, FinishSequentialStep, BeginParallelStep,
     SpawnWorkerStep, StartReporterStep, JoinWorkerStep, JoinReporterStep,
     CollectStorageStep, FinishParallelStep, FatalStep DEF Main
<1>2. ASSUME NEW w \in Worker, Task(w) PROVE IInv'
  BY <1>2, ProcessItemStep, IncrementCounterStep, ExitThreadStep DEF Task
<1>3. CASE ReporterFinishes
  BY <1>3, ReporterFinishesStep
<1>4. CASE UNCHANGED vars
  BY <1>4 DEF vars, args, work, mem, IInv, TypeOK, ExecuteInv, SequentialInv,
         ParallelInv, PhaseInv, MemoryInv, Parallel, WorkerInv, Processed, Spawned,
         Workers, Batches
<1> QED
  BY <1>1, <1>2, <1>3, <1>4 DEF Next, Terminated

(* IInv is an invariant of the executor.                                   *)
THEOREM Invariance == Spec => []IInv
<1>1. Init => IInv
  BY IInvInit
<1>2. IInv /\ [Next]_vars => IInv'
  BY IInvNext
<1> QED
  BY <1>1, <1>2, PTL DEF Spec

(* Every variable keeps its type.                                          *)
THEOREM TypeCorrectness == Spec => []TypeOK
<1>1. IInv => TypeOK
  BY DEF IInv
<1> QED
  BY <1>1, Invariance, PTL

(* No running worker ever holds a dangling reference to its storage or its *)
(* counter, whatever the number of workers.                                *)
THEOREM MemorySafety == Spec => []NoDanglingReference
<1>1. IInv => NoDanglingReference
  BY DEF IInv, MemoryInv, NoDanglingReference, Spawned
<1> QED
  BY <1>1, Invariance, PTL

(* In parallel mode only the collecting main thread changes the caller's   *)
(* container, and no worker is running then.                               *)
THEOREM MergeDiscipline == Spec => MergeAfterJoin
<1> DEFINE Quiet == \A w \in Worker : threads[w] \in {"none", "exited"}
           Merge == (pc # "sequential" /\ out' # out) => Quiet
<1>1. ASSUME IInv, [Next]_vars PROVE Merge
  <2>1. CASE CollectStorage
    <3>1. \A w \in Worker : (Spawned(w) <=> w <= Workers) /\ (w <= Workers => threads[w] = "exited")
      BY <1>1, <2>1 DEF IInv, PhaseInv, CollectStorage
    <3> QED
      BY <3>1 DEF Spawned
  <2>2. CASE (Main \/ Fatal) /\ ~CollectStorage
    BY <2>2 DEF Main, ReturnEarly, BeginSequential, FinishSequential, BeginParallel, SpawnWorker, StartReporter, JoinWorker, JoinReporter, FinishParallel, Fatal
  <2>3. ASSUME NEW w \in Worker, Task(w) PROVE Merge
    BY <2>3 DEF Task, ProcessItem, IncrementCounter, ExitThread
  <2>4. CASE ReporterFinishes
    BY <2>4 DEF ReporterFinishes
  <2>5. CASE UNCHANGED vars
    BY <2>5 DEF vars
  <2> QED
    BY <1>1, <2>1, <2>2, <2>3, <2>4, <2>5 DEF Next, Terminated
<1>2. IInv /\ [Next]_vars => [Merge]_vars
  BY <1>1
<1> QED
  BY <1>2, Invariance, PTL DEF Spec, MergeAfterJoin

-----------------------------------------------------------------------------
(* The progress reporter.                                                  *)

(* A counter holds how far its worker has come in its batch, ...           *)
CounterInv ==
    pc \in {"execute", "sequential", "spawn", "join"} =>
        \A w \in Worker : IF Spawned(w) THEN Begin(w) + counters[w] = it[w]
                                        ELSE counters[w] = 0

(* ... and the reporter adds them up only while all of them are there.     *)
ReporterInv ==
    /\ reporter # "none" => pc \notin {"execute", "spawn"}
    /\ reporter = "running" => pc \in {"sequential", "join", "aborted"}

Stored == Range(out) \cup UNION {Range(storages[w]) : w \in Worker}

RInv == CounterInv /\ ReporterInv /\ ReporterSawEverything

(* Past the last batch the ends of the batches stay at the end of input.   *)
LEMMA LastCut == ASSUME TypeOK, cuts \in Batches PROVE cuts[MaxTasks] = in
<1>1. /\ MaxTasks \in Nat /\ in \in Nat /\ Workers \in 0..MaxTasks /\ Worker = 1..MaxTasks
      /\ \A w \in 0..MaxTasks : cuts[w] \in Nat /\ cuts[w] <= in
      /\ \A w \in Worker : cuts[w-1] <= cuts[w]
      /\ cuts[Workers] = in
  BY Sizes, BatchBounds
<1>2. cuts \in [0..MaxTasks -> Nat]
  BY <1>1 DEF TypeOK
<1>3. cuts[Workers] <= cuts[MaxTasks]
  <2>1. \A w \in 1..MaxTasks : cuts[w-1] <= cuts[w]
    BY <1>1
  <2>2. \A v, w \in 0..MaxTasks : v <= w => cuts[v] <= cuts[w]
    BY <1>1, <1>2, <2>1, Monotone
  <2>3. MaxTasks \in 0..MaxTasks /\ Workers <= MaxTasks
    BY <1>1
  <2> QED
    BY <1>1, <2>2, <2>3
<1> QED
  BY <1>1, <1>3

(* The bounds of the batches that are worked on.                           *)
Bounds == [w \in 0..MaxTasks |-> IF pc = "sequential" /\ w > 0 THEN in
                                 ELSE IF pc = "sequential" THEN 0 ELSE cuts[w]]

(* A total of all items means that every batch has been done.              *)
LEMMA AllCounted ==
    ASSUME IInv, CounterInv, pc \in {"sequential", "join"}, SumFunction(counters) = in
    PROVE  \A w \in Worker : Bounds[w-1] + counters[w] = Bounds[w]
<1>0. /\ TypeOK /\ SequentialInv /\ ParallelInv
      /\ MaxTasks \in Nat /\ in \in Nat /\ tasks \in Nat /\ tasks <= MaxTasks
      /\ Worker = 1..MaxTasks
      /\ counters \in [Worker -> Nat] /\ it \in [Worker -> Nat]
  BY Sizes DEF IInv, TypeOK
<1>b. pc = "join" => /\ cuts \in Batches /\ cuts[MaxTasks] = in /\ cuts[0] = 0
                     /\ \A w \in 0..MaxTasks : cuts[w] \in Nat
                     /\ \A w \in Worker : cuts[w-1] <= cuts[w]
  BY <1>0, LastCut, BatchBounds DEF ParallelInv, Parallel
<1>1. Bounds \in [0..MaxTasks -> Nat]
  BY <1>0, <1>b DEF Bounds
<1>2. Bounds[0] = 0 /\ Bounds[MaxTasks] = in
  <2>1. pc = "sequential" => MaxTasks > 0
    BY <1>0 DEF SequentialInv
  <2> QED
    BY <1>0, <1>b, <2>1 DEF Bounds
<1>3. ASSUME NEW w \in 1..MaxTasks PROVE Bounds[w-1] + counters[w] <= Bounds[w]
  <2>0. w - 1 \in 0..MaxTasks /\ w \in 0..MaxTasks /\ w > 0 /\ w \in Worker
        /\ counters[w] \in Nat /\ it[w] \in Nat
    BY <1>0
  <2>1. CASE pc = "sequential"
    <3>1. Bounds[w-1] = (IF w = 1 THEN 0 ELSE in) /\ Bounds[w] = in
      BY <2>0, <2>1 DEF Bounds
    <3>2. w # 1 => counters[w] = 0
      BY <1>0, <2>0, <2>1 DEF SequentialInv, CounterInv
    <3>3. w = 1 => counters[w] = it[w] /\ it[w] <= in
      BY <1>0, <2>0, <2>1 DEF SequentialInv, CounterInv, WorkerInv, Begin
    <3> QED
      BY <1>0, <2>0, <3>1, <3>2, <3>3
  <2>2. CASE pc = "join"
    <3>1. Bounds[w-1] = cuts[w-1] /\ Bounds[w] = cuts[w] /\ cuts[w-1] <= cuts[w]
          /\ cuts[w-1] \in Nat /\ cuts[w] \in Nat
      BY <1>b, <2>0, <2>2 DEF Bounds
    <3>2. CASE Spawned(w)
      <4>1. cuts[w-1] + counters[w] = it[w] /\ it[w] <= cuts[w]
        BY <1>0, <2>0, <2>2, <3>2 DEF ParallelInv, Parallel, CounterInv, WorkerInv, Begin
      <4> QED
        BY <3>1, <4>1
    <3>3. CASE ~Spawned(w)
      <4>1. counters[w] = 0
        BY <2>0, <2>2, <3>3 DEF CounterInv
      <4> QED
        BY <3>1, <4>1
    <3> QED
      BY <3>2, <3>3
  <2> QED
    BY <2>1, <2>2
<1> HIDE DEF Bounds
<1>4. \A w \in 1..MaxTasks : Bounds[w-1] + counters[w] <= Bounds[w]
  BY <1>3
<1>5. counters \in [1..MaxTasks -> Nat] /\ SumFunction(counters) = Bounds[MaxTasks]
  BY <1>0, <1>2
<1> QED
  BY <1>0, <1>1, <1>2, <1>4, <1>5, SumBounded

(* Then the results of all kept items are in the containers.               *)
LEMMA AllStored ==
    ASSUME IInv, CounterInv, pc \in {"sequential", "join"}, SumFunction(counters) = in
    PROVE  kept = Stored
<1>0. /\ TypeOK /\ SequentialInv /\ ParallelInv /\ PhaseInv
      /\ MaxTasks \in Nat /\ in \in Nat /\ tasks \in Nat /\ tasks <= MaxTasks
      /\ Worker = 1..MaxTasks
      /\ counters \in [Worker -> Nat] /\ it \in [Worker -> Nat]
      /\ \A k \in kept : k \in Nat /\ 0 < k /\ k <= in
      /\ Range(<<>>) = {}
  <2>1. DOMAIN <<>> = {}
    OBVIOUS
  <2>2. Range(<<>>) = {}
    BY <2>1 DEF Range
  <2>3. \A k \in kept : k \in 1..in
    BY DEF IInv, TypeOK
  <2> QED
    BY <2>2, <2>3, Sizes DEF IInv, TypeOK
<1>1. \A w \in Worker : Bounds[w-1] + counters[w] = Bounds[w]
  BY AllCounted
<1>2. CASE pc = "sequential"
  <2>1. 1 \in Worker /\ WorkerInv(1, out, 0, in) /\ Spawned(1)
    BY <1>0, <1>2 DEF SequentialInv
  <2>2. counters[1] = it[1] /\ it[1] \in Nat
    BY <1>0, <1>2, <2>1 DEF CounterInv, Begin
  <2>3. Bounds[0] = 0 /\ Bounds[1] = in
    BY <1>0, <1>2, <2>1 DEF Bounds
  <2>4. 0 + counters[1] = in
    <3>1. Bounds[1-1] + counters[1] = Bounds[1]
      BY <1>1, <2>1
    <3> QED
      BY <2>3, <3>1
  <2>5. Processed(1) = in
    BY <1>0, <2>1, <2>2, <2>4 DEF WorkerInv, Processed
  <2>6. Range(out) = {k \in kept : 0 < k /\ k <= in}
    BY <2>1, <2>5 DEF WorkerInv, Slice
  <2>7. Range(out) = kept
    BY <1>0, <2>6
  <2>8. \A w \in Worker : Range(storages[w]) = {}
    BY <1>0, <1>2 DEF SequentialInv
  <2> QED
    BY <2>7, <2>8 DEF Stored
<1>3. CASE pc = "join"
  <2>0. /\ cuts \in Batches /\ cuts[MaxTasks] = in /\ cuts[0] = 0
        /\ \A w \in 0..MaxTasks : cuts[w] \in Nat
        /\ cuts \in [0..MaxTasks -> Nat]
        /\ Range(out) = {}
    BY <1>0, <1>3, LastCut, BatchBounds DEF ParallelInv, Parallel, PhaseInv, TypeOK
  <2>1. ASSUME NEW w \in Worker PROVE Range(storages[w]) \subseteq kept
    <3>1. CASE Spawned(w)
      BY <1>0, <1>3, <3>1 DEF ParallelInv, Parallel, WorkerInv, Slice
    <3>2. CASE ~Spawned(w)
      BY <1>0, <1>3, <3>2 DEF ParallelInv, Parallel
    <3> QED
      BY <3>1, <3>2
  <2>2. ASSUME NEW k \in kept PROVE \E w \in Worker : k \in Range(storages[w])
    <3>1. \E w \in 1..MaxTasks : cuts[w-1] < k /\ k <= cuts[w]
      <4>1. cuts[0] < k /\ k <= cuts[MaxTasks] /\ MaxTasks \in 0..MaxTasks /\ k \in Nat
        BY <1>0, <2>0
      <4> QED
        BY <1>0, <2>0, <4>1, PassedOnce
    <3>2. PICK w \in Worker : cuts[w-1] < k /\ k <= cuts[w]
      BY <1>0, <3>1
    <3>3. /\ w - 1 \in 0..MaxTasks /\ w \in 0..MaxTasks /\ cuts[w-1] \in Nat /\ cuts[w] \in Nat
          /\ Bounds[w-1] = cuts[w-1] /\ Bounds[w] = cuts[w]
          /\ counters[w] \in Nat /\ it[w] \in Nat /\ k \in Nat
      BY <1>0, <1>3, <2>0 DEF Bounds
    <3>4. cuts[w-1] + counters[w] = cuts[w]
      BY <1>1, <3>3
    <3>5. counters[w] # 0
      BY <3>2, <3>3, <3>4
    <3>6. Spawned(w) /\ cuts[w-1] + counters[w] = it[w]
      BY <1>3, <3>5 DEF CounterInv, Begin
    <3>7. WorkerInv(w, storages[w], cuts[w-1], cuts[w])
      BY <1>0, <1>3, <3>6 DEF ParallelInv, Parallel
    <3>8. Processed(w) = cuts[w]
      BY <3>3, <3>4, <3>6, <3>7 DEF WorkerInv, Processed
    <3>9. k \in Range(storages[w])
      BY <3>2, <3>7, <3>8 DEF WorkerInv, Slice
    <3> QED
      BY <3>9
  <2> QED
    BY <2>0, <2>1, <2>2 DEF Stored
<1> QED
  BY <1>2, <1>3

(* The counters follow the iterators.                                      *)
LEMMA CounterStep == ASSUME IInv, RInv, [Next]_vars PROVE CounterInv'
<1>0. /\ TypeOK /\ ExecuteInv /\ SequentialInv /\ ParallelInv /\ PhaseInv /\ CounterInv
      /\ MaxTasks \in Nat /\ Worker = 1..MaxTasks /\ i \in 1..MaxTasks + 1
      /\ tasks \in Nat /\ tasks <= MaxTasks /\ Workers \in 0..MaxTasks
      /\ counters \in [Worker -> Nat] /\ it \in [Worker -> Nat]
      /\ threads \in [Worker -> {"none", "iterate", "increment", "exited"}]
  BY Sizes DEF IInv, RInv, TypeOK
<1>1. CASE BeginSequential
  <2>1. ASSUME NEW w \in Worker
        PROVE  /\ counters'[w] = 0 /\ it'[w] = 0 /\ Begin(w)' = 0
    BY <1>0, <1>1 DEF BeginSequential, CounterInv, ExecuteInv, Begin
  <2> QED
    BY <1>0, <2>1, <1>1 DEF BeginSequential, CounterInv
<1>2. CASE BeginParallel
  BY <1>0, <1>2 DEF BeginParallel, CounterInv, ExecuteInv, Spawned, work
<1>3. CASE SpawnWorker
  <2>0. i \in Worker /\ ~Spawned(i)
    BY <1>0, <1>3 DEF SpawnWorker, PhaseInv
  <2>1. /\ i \in Worker /\ counters[i] = 0 /\ counters' = counters
        /\ it'[i] = Begin(i) /\ threads'[i] # "none"
    <3>1. counters[i] = 0
      BY <1>0, <1>3, <2>0 DEF SpawnWorker, CounterInv
    <3>2. /\ counters' = counters /\ it' = [it EXCEPT ![i] = Begin(i)]
          /\ threads' = [threads EXCEPT ![i] = "iterate"]
      BY <1>3 DEF SpawnWorker
    <3>3. threads'[i] = "iterate"
      BY <1>0, <2>0, <3>2
    <3>4. it'[i] = Begin(i)
      BY <1>0, <2>0, <3>2
    <3>5. threads'[i] # "none"
      BY <3>3
    <3> QED
      BY <2>0, <3>1, <3>2, <3>4, <3>5
  <2>2. \A w \in Worker : Begin(w)' = Begin(w)
    BY <1>3 DEF SpawnWorker, Begin, args
  <2>3. \A w \in Worker : w # i => threads'[w] = threads[w] /\ it'[w] = it[w]
    BY <1>0, <1>3 DEF SpawnWorker
  <2>4. Begin(i) \in Nat
    <3>1. Begin(i) = cuts[i-1] /\ i - 1 \in 0..MaxTasks
      BY <1>0, <1>3, <2>1 DEF SpawnWorker, Begin
    <3> QED
      BY <1>0, <3>1 DEF TypeOK
  <2>5. \A w \in Worker : IF Spawned(w) THEN Begin(w) + counters[w] = it[w] ELSE counters[w] = 0
    BY <1>0, <1>3 DEF SpawnWorker, CounterInv
  <2>6. ASSUME NEW w \in Worker
        PROVE  IF Spawned(w)' THEN Begin(w)' + counters'[w] = it'[w] ELSE counters'[w] = 0
    <3>1. CASE w = i
      BY <2>1, <2>2, <2>4, <3>1 DEF Spawned
    <3>2. CASE w # i
      BY <2>1, <2>2, <2>3, <2>5, <3>2 DEF Spawned
    <3> QED
      BY <3>1, <3>2
  <2> QED
    BY <2>6 DEF CounterInv
<1>4. CASE StartReporter
  BY <1>0, <1>4 DEF StartReporter, CounterInv, Spawned, Begin, args, work
<1>5. CASE JoinWorker
  BY <1>0, <1>5 DEF JoinWorker, CounterInv, Spawned, Begin, args, work
<1>6. CASE ReturnEarly \/ FinishSequential \/ JoinReporter \/ CollectStorage \/ FinishParallel \/ Fatal
  BY <1>6 DEF ReturnEarly, FinishSequential, JoinReporter, CollectStorage, FinishParallel, Fatal, CounterInv
<1>7. ASSUME NEW w \in Worker, Task(w) PROVE CounterInv'
  <2>0. pc' = pc /\ cuts' = cuts
    BY <1>7 DEF Task, ProcessItem, IncrementCounter, ExitThread
  <2>1. \A v \in Worker : Begin(v)' = Begin(v)
    BY <2>0 DEF Begin
  <2>2. \A v \in Worker : Spawned(v)' <=> Spawned(v)
    BY <1>0, <1>7 DEF Task, ProcessItem, IncrementCounter, ExitThread, Spawned
  <2>3. \A v \in Worker : v # w => counters'[v] = counters[v] /\ it'[v] = it[v]
    BY <1>0, <1>7 DEF Task, ProcessItem, IncrementCounter, ExitThread
  <2>4. /\ Spawned(w)
        /\ \/ counters'[w] = counters[w] /\ it'[w] = it[w]
           \/ counters'[w] = counters[w] + 1 /\ it'[w] = it[w] + 1
    BY <1>0, <1>7 DEF Task, ProcessItem, IncrementCounter, ExitThread, Spawned
  <2>5. Begin(w) \in Nat
    <3>1. w - 1 \in 0..MaxTasks
      BY <1>0
    <3> QED
      BY <1>0, <3>1 DEF Begin, TypeOK
  <2>6. counters[w] \in Nat /\ it[w] \in Nat
    BY <1>0
  <2> SUFFICES ASSUME pc \in {"execute", "sequential", "spawn", "join"}, NEW v \in Worker
               PROVE  IF Spawned(v) THEN Begin(v) + counters'[v] = it'[v] ELSE counters'[v] = 0
    BY <2>0, <2>1, <2>2 DEF CounterInv
  <2>7. IF Spawned(v) THEN Begin(v) + counters[v] = it[v] ELSE counters[v] = 0
    BY <1>0 DEF CounterInv
  <2>8. CASE v = w
    BY <2>4, <2>5, <2>6, <2>7, <2>8
  <2>9. CASE v # w
    BY <2>3, <2>7, <2>9
  <2> QED
    BY <2>8, <2>9
<1>8. CASE ReporterFinishes
  BY <1>0, <1>8 DEF ReporterFinishes, CounterInv, Spawned, Begin, args, work
<1>9. CASE UNCHANGED vars
  BY <1>0, <1>9 DEF vars, CounterInv, Spawned, Begin, args, work
<1> QED
  BY <1>1, <1>2, <1>3, <1>4, <1>5, <1>6, <1>7, <1>8, <1>9 DEF Next, Main, Terminated

(* Once the reporter has seen all items counted, they are stored for good: *)
(* what the tasks still might add is kept, and merging loses nothing.      *)
LEMMA StoredStep == ASSUME IInv, RInv, [Next]_vars PROVE ReporterSawEverything'
<1>0. /\ TypeOK /\ CounterInv /\ ReporterInv /\ (reporter = "finished" => kept = Stored)
      /\ kept' = kept
      /\ Worker = 1..MaxTasks /\ MaxTasks \in Nat /\ Workers <= MaxTasks /\ i \in Nat /\ Workers \in Nat
      /\ out \in Seq(Item) /\ storages \in [Worker -> Seq(Item)]
  <2>1. kept' = kept
    BY DEF Next, Main, Task, Terminated, vars, args, ReturnEarly, BeginSequential,
           FinishSequential, BeginParallel, SpawnWorker, StartReporter, JoinWorker,
           JoinReporter, CollectStorage, FinishParallel, Fatal, ProcessItem,
           IncrementCounter, ExitThread, ReporterFinishes
  <2>2. TypeOK /\ CounterInv /\ ReporterInv /\ (reporter = "finished" => kept = Stored)
    BY DEF IInv, RInv, ReporterSawEverything, Stored
  <2>3. out \in Seq(Item) /\ storages \in [Worker -> Seq(Item)]
    BY <2>2 DEF TypeOK
  <2>4. Worker = 1..MaxTasks /\ MaxTasks \in Nat /\ Workers <= MaxTasks /\ i \in Nat /\ Workers \in Nat
    BY <2>2, Sizes
  <2> QED
    BY <2>1, <2>2, <2>3, <2>4
<1> SUFFICES ASSUME reporter' = "finished" PROVE kept = Stored'
  BY <1>0 DEF ReporterSawEverything, Stored
<1>1. CASE ReporterFinishes
  <2>1. pc \in {"sequential", "join"} /\ SumFunction(counters) = in
    BY <1>0, <1>1 DEF ReporterFinishes, ReporterInv, Alive
  <2>2. Stored' = Stored
    BY <1>1 DEF ReporterFinishes, Stored, work
  <2> QED
    BY <1>0, <2>1, <2>2, AllStored
<1>2. CASE CollectStorage
  <2>0. i \in 1..Workers
    BY <1>0, <1>2 DEF CollectStorage, IInv, TypeOK
  <2>1. i \in Worker /\ out' = out \o storages[i] /\ storages' = storages /\ reporter' = reporter
    BY <1>0, <1>2, <2>0 DEF CollectStorage, work
  <2>2. Range(out') = Range(out) \cup Range(storages[i])
    BY <1>0, <2>1, ConcatFacts
  <2> QED
    BY <1>0, <2>1, <2>2 DEF Stored
<1>3. ASSUME NEW w \in Worker, ProcessItem(w) PROVE kept = Stored'
  <2>1. it[w] + 1 \in kept => it[w] + 1 \in Item
    <3>1. in \in 0..MaxIn /\ kept \in SUBSET (1..in) /\ MaxIn \in Nat
      BY <1>0, SizesAssumption DEF TypeOK
    <3>2. \A k \in 1..in : k \in 1..MaxIn
      BY <3>1
    <3> QED
      BY <3>1, <3>2 DEF Item
  <2>2. CASE out' = out /\ storages' = storages
    BY <1>0, <1>3, <2>2 DEF ProcessItem, Stored
  <2>3. CASE it[w] + 1 \in kept /\ out' = Append(out, it[w] + 1) /\ storages' = storages
    <3>1. Range(out') = Range(out) \cup {it[w] + 1}
      BY <1>0, <2>1, <2>3, AppendFacts
    <3> QED
      BY <1>0, <1>3, <2>3, <3>1 DEF ProcessItem, Stored
  <2>4. CASE /\ it[w] + 1 \in kept /\ out' = out
             /\ storages' = [storages EXCEPT ![w] = Append(storages[w], it[w] + 1)]
    <3>1. Range(storages'[w]) = Range(storages[w]) \cup {it[w] + 1}
      BY <1>0, <2>1, <2>4, AppendFacts
    <3>2. \A v \in Worker : v # w => storages'[v] = storages[v]
      BY <1>0, <2>4
    <3>3. UNION {Range(storages'[v]) : v \in Worker}
            = (UNION {Range(storages[v]) : v \in Worker}) \cup {it[w] + 1}
      BY <3>1, <3>2
    <3> QED
      BY <1>0, <1>3, <2>4, <3>3 DEF ProcessItem, Stored
  <2> QED
    BY <1>3, <2>2, <2>3, <2>4 DEF ProcessItem
<1>4. ASSUME NEW w \in Worker, IncrementCounter(w) \/ ExitThread(w) PROVE kept = Stored'
  BY <1>0, <1>4 DEF IncrementCounter, ExitThread, Stored
<1>5. CASE (Main \/ Fatal) /\ ~CollectStorage
  BY <1>0, <1>5 DEF Main, ReturnEarly, BeginSequential, FinishSequential, BeginParallel,
         SpawnWorker, StartReporter, JoinWorker, JoinReporter, FinishParallel, Fatal,
         Stored, work
<1>6. CASE UNCHANGED vars
  BY <1>0, <1>6 DEF vars, Stored, work
<1> QED
  BY <1>1, <1>2, <1>3, <1>4, <1>5, <1>6 DEF Next, Task, Terminated

(* The reporter starts after all workers, and none is spawned after it.    *)
LEMMA ReporterStep == ASSUME IInv, RInv, [Next]_vars PROVE ReporterInv'
  BY DEF RInv, ReporterInv, Next, Main, Task, Terminated, vars, ReturnEarly, BeginSequential,
         FinishSequential, BeginParallel, SpawnWorker, StartReporter, JoinWorker,
         JoinReporter, CollectStorage, FinishParallel, Fatal, ProcessItem,
         IncrementCounter, ExitThread, ReporterFinishes, Alive

(* When the reporter has finished, whatever threads still run, the result  *)
(* of every kept item is stored: for every number of items and of tasks,   *)
(* every partition into batches and every schedule.                        *)
THEOREM ReporterSoundness == Spec => []ReporterSawEverything
<1>1. Init => RInv
  BY DEF Init, RInv, CounterInv, ReporterInv, ReporterSawEverything, Spawned
<1>2. IInv /\ RInv /\ [Next]_vars => RInv'
  <2> SUFFICES ASSUME IInv, RInv, [Next]_vars PROVE RInv'
    OBVIOUS
  <2> QED
    BY CounterStep, StoredStep, ReporterStep DEF RInv
<1>3. RInv => ReporterSawEverything
  BY DEF RInv
<1> QED
  BY <1>1, <1>2, <1>3, Invariance, PTL DEF Spec

-----------------------------------------------------------------------------
(* Refinement.                                                             *)

(* A slice from the first item on is what the abstract map has emitted.    *)
LEMMA SliceIsResults ==
    ASSUME TypeOK, NEW s, NEW n \in Nat
    PROVE  Slice(kept, s, 0, n) <=> Abstract!ResultsUpTo(s, n)
<1>1. \A k \in kept : k \in Nat /\ 0 < k
  BY DEF TypeOK
<1>2. {k \in kept : 0 < k /\ k <= n} = {k \in kept : k <= n}
  BY <1>1
<1> QED
  BY <1>2 DEF Slice, Increasing, Range, Abstract!ResultsUpTo, Abstract!Ordered, Abstract!Range

(* The abstract status changes only at the end of execute().               *)
LEMMA Stutter ==
    ASSUME IInv, UNCHANGED args, out' = out,
           pc \notin {"done", "aborted"}, pc' \notin {"done", "aborted"}
    PROVE  UNCHANGED Abstract!vars
  BY DEF args, Abstract!vars

(* Growing `out' from one prefix of the results to another is an Emit.     *)
LEMMA EmitStep ==
    ASSUME IInv, IInv', UNCHANGED args,
           pc \notin {"done", "aborted"}, pc' \notin {"done", "aborted"},
           NEW n \in 1..in, Slice(kept, out', 0, n), Range(out) \subseteq Range(out')
    PROVE  Abstract!Emit
<1>1. in \in Nat /\ n \in Nat /\ kept' = kept
  <2>1. in \in Nat
    BY Sizes DEF IInv
  <2> QED
    BY <2>1 DEF args
<1>2. Abstract!ResultsUpTo(out', n)
  <2>1. \A k \in kept : k \in Nat /\ 0 < k
    BY DEF IInv, TypeOK
  <2>2. {k \in kept : 0 < k /\ k <= n} = {k \in kept : k <= n}
    BY <2>1
  <2> QED
    BY <2>2 DEF Slice, Increasing, Range, Abstract!ResultsUpTo, Abstract!Ordered, Abstract!Range
<1> QED
  BY <1>1, <1>2 DEF Abstract!Emit, args, Range, Abstract!Range

(* Every step of the executor is a step of the ordered map or stutters.    *)
LEMMA StepRefinement ==
    ASSUME IInv, IInv', [Next]_vars
    PROVE  [Abstract!Next]_Abstract!vars
<1>0. in \in Nat /\ tasks \in Nat /\ kept \in SUBSET Nat /\ TypeOK
  BY Sizes DEF IInv
<1>1. CASE ReturnEarly \/ FinishSequential \/ FinishParallel
  <2>1. pc \notin {"done", "aborted"} /\ pc' = "done" /\ UNCHANGED args /\ out' = out
    BY <1>1 DEF ReturnEarly, FinishSequential, FinishParallel
  <2>2. tasks > 0 => Slice(kept, out, 0, in)
    BY <2>1, <1>0 DEF IInv, PhaseInv, args
  <2>3. tasks > 0 => Abstract!ResultsUpTo(out, in)
    BY <2>2, <1>0, SliceIsResults
  <2> QED
    BY <2>1, <2>3 DEF Abstract!Next, Abstract!Return, args
<1>2. CASE Fatal
  <2>1. pc \notin {"done", "aborted"} /\ pc' = "aborted" /\ UNCHANGED args /\ out' = out
    BY <1>2 DEF Fatal
  <2> QED
    BY <2>1 DEF Abstract!Next, Abstract!Die, args
<1>3. CASE \/ BeginSequential \/ BeginParallel \/ SpawnWorker \/ StartReporter
           \/ JoinWorker \/ JoinReporter \/ ReporterFinishes
  <2>1. /\ UNCHANGED args /\ out' = out
        /\ pc \notin {"done", "aborted"} /\ pc' \notin {"done", "aborted"}
    BY <1>3 DEF BeginSequential, BeginParallel, SpawnWorker, StartReporter, JoinWorker,
                JoinReporter, ReporterFinishes, Alive
  <2> QED
    BY <2>1, Stutter
<1>4. CASE CollectStorage
  <2>1. /\ UNCHANGED args /\ pc = "collect" /\ pc' = "collect" /\ i <= Workers
        /\ i' - 1 = i /\ cuts' = cuts /\ out' = out \o storages[i]
    BY <1>4 DEF CollectStorage, IInv, TypeOK
  <2>2. i \in Worker /\ cuts \in Batches
    BY <2>1, Sizes, <1>0 DEF IInv, ParallelInv, Parallel, TypeOK
  <2>3. Slice(kept, out', 0, cuts[i])
    BY <2>1 DEF IInv, PhaseInv, args
  <2>4. cuts[i] \in Nat /\ cuts[i] <= in
    BY <2>2, <1>0, BatchBounds, Sizes
  <2>5. out \in Seq(Item) /\ storages[i] \in Seq(Item)
    BY <2>2, <1>0 DEF TypeOK
  <2>6. Range(out) \subseteq Range(out')
    <3>1. /\ DOMAIN out = 1..Len(out) /\ Len(out) \in Nat /\ Len(storages[i]) \in Nat
          /\ DOMAIN out' = 1..Len(out) + Len(storages[i])
          /\ \A a \in 1..Len(out) : out'[a] = out[a]
      BY <2>1, <2>5, ConcatProperties
    <3> QED
      BY <3>1 DEF Range
  <2>7. CASE cuts[i] = 0
    <3>1. Slice(kept, <<>>, 0, 0)
      BY <1>0, SliceEmpty
    <3>2. Range(out') = {}
      <4>1. {k \in kept : 0 < k /\ k <= cuts[i]} = Range(<<>>)
        BY <3>1, <2>7 DEF Slice
      <4>2. Range(<<>>) = {}
        BY DEF Range
      <4> QED
        BY <4>1, <4>2, <2>3 DEF Slice
    <3>3. out' = <<>> /\ out = <<>>
      <4>1. out' \in Seq(Item) /\ Len(out') \in Nat /\ Len(out) \in Nat
        BY DEF IInv, TypeOK
      <4>2. Range(out) = {}
        BY <2>6, <3>2
      <4>3. Len(out') = 0 /\ Len(out) = 0
        <5>1. Len(out') > 0 => out'[1] \in Range(out')
          BY <4>1 DEF Range
        <5>2. Len(out) > 0 => out[1] \in Range(out)
          BY <2>5 DEF Range
        <5> QED
          BY <5>1, <5>2, <4>1, <4>2, <3>2
      <4> QED
        BY <4>1, <4>3, <2>5
    <3> QED
      BY <3>3, <2>1, Stutter
  <2>8. CASE cuts[i] # 0
    <3>1. cuts[i] \in 1..in
      BY <2>8, <2>4, <1>0
    <3>2. Abstract!Emit
      BY <3>1, <2>1, <2>3, <2>6, EmitStep
    <3> QED
      BY <3>2 DEF Abstract!Next
  <2> QED
    BY <2>7, <2>8
<1>5. ASSUME NEW w \in Worker, Task(w) PROVE [Abstract!Next]_Abstract!vars
  <2>1. /\ UNCHANGED args
        /\ pc \notin {"done", "aborted"} /\ pc' \notin {"done", "aborted"}
    BY <1>5 DEF Task, ProcessItem, IncrementCounter, ExitThread, Alive
  <2>2. CASE out' = out
    BY <2>1, <2>2, Stutter
  <2>3. CASE out' # out
    <3>1. /\ ProcessItem(w) /\ pc = "sequential" /\ pc' = "sequential"
          /\ out' = Append(out, it[w] + 1) /\ it' = it
          /\ threads[w] = "iterate" /\ threads' = [threads EXCEPT ![w] = "increment"]
      BY <1>5, <2>3 DEF Task, ProcessItem, IncrementCounter, ExitThread
    <3>2. w = 1 /\ WorkerInv(1, out, 0, in)'
      BY <3>1 DEF IInv, SequentialInv, Spawned
    <3>3. threads'[w] = "increment" /\ it[w] \in Nat
      BY <3>1, <1>0 DEF TypeOK
    <3>4. Slice(kept, out', 0, it[w] + 1) /\ it[w] < in
      BY <3>1, <3>2, <3>3, <2>1 DEF WorkerInv, Processed, args
    <3>5. it[w] + 1 \in 1..in
      BY <3>3, <3>4, <1>0
    <3>6. Range(out) \subseteq Range(out')
      <4>1. out \in Seq(Item) /\ DOMAIN out = 1..Len(out) /\ Len(out) \in Nat
        BY <1>0 DEF TypeOK
      <4>2. /\ DOMAIN out' = 1..Len(out) + 1
            /\ \A a \in 1..Len(out) : out'[a] = out[a]
        BY <3>1, <4>1
      <4> QED
        BY <4>1, <4>2 DEF Range
    <3>7. Abstract!Emit
      BY <2>1, <3>4, <3>5, <3>6, EmitStep
    <3> QED
      BY <3>7 DEF Abstract!Next
  <2> QED
    BY <2>2, <2>3
<1>6. CASE UNCHANGED vars
  BY <1>6 DEF vars, args, Abstract!vars
<1> QED
  BY <1>1, <1>2, <1>3, <1>4, <1>5, <1>6 DEF Next, Main, Terminated

(* The executor implements the ordered map: whatever the schedule, results *)
(* come out in input order, none lost and none twice.                      *)
THEOREM Refinement == Spec => ImplementsOrderedMap
<1>1. Init => Abstract!Init
  BY SizesAssumption DEF Init, Abstract!Init
<1>2. IInv /\ IInv' /\ [Next]_vars => [Abstract!Next]_Abstract!vars
  BY StepRefinement
<1> QED
  BY <1>1, <1>2, Invariance, PTL DEF Spec, ImplementsOrderedMap, Abstract!Spec
=============================================================================
