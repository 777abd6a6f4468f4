----------------------------- MODULE RagProofs -----------------------------
(***************************************************************************)
(* Proofs about the two parts of the rag package that live by remote calls.*)
(*                                                                         *)
(* EmbeddingBatch, for any number of sub-batches, of requests at once and  *)
(* of attempts: what settles and fails a sub-batch, that nothing is sent   *)
(* over the limit, and that the client keeps the promise of EmbeddingCall. *)
(*                                                                         *)
(* GraphIndex and GraphSearch, for any documents, names and similarities:  *)
(* that what the checkpoint names is in the graph, that fusing only adds,  *)
(* and that evidence reaches the language model in order.                  *)
(***************************************************************************)
EXTENDS EmbeddingBatch, GraphSearch, SequenceTheorems, FiniteSetTheorems, WellFoundedInduction, TLAPS

-----------------------------------------------------------------------------
(* Tasks, workers and the queue *)

\* Taking an element out of a finite set leaves one fewer.
LEMMA OneLess ==
    ASSUME NEW S, NEW x \in S, IsFiniteSet(S)
    PROVE  Cardinality(S \ {x}) = Cardinality(S) - 1
BY FS_RemoveElement

LEMMA TaskFields ==
    ASSUME NEW t \in Task
    PROVE  /\ t.idx \in SubBatches /\ t.attempt \in 0..(MaxRetries - 1)
           /\ t = [idx |-> t.idx, attempt |-> t.attempt]
BY DEF Task

\* The states a worker is put into.
LEMMA StatesTyped ==
    /\ Gone \in WorkerState /\ Gone.step = "gone"
    /\ [Gone EXCEPT !.step = "new"] \in WorkerState
    /\ \A t \in Task : /\ Carrying(t) \in WorkerState
                       /\ Carrying(t).step = "gate" /\ Carrying(t).task = t
BY DEF Gone, Carrying, WorkerState, WorkerSteps

\* One worker moves, the others stay where they are.
LEMMA OneWorkerMoves ==
    ASSUME worker \in [Workers -> WorkerState], NEW w \in Workers, NEW v \in WorkerState,
           worker' = [worker EXCEPT ![w] = v]
    PROVE  /\ worker' \in [Workers -> WorkerState] /\ worker'[w] = v
           /\ \A u \in Workers \ {w} : worker'[u] = worker[u]
OBVIOUS

\* Workers is finite, and so is every selection of them.
LEMMA WorkersFinite ==
    ASSUME NEW S \in SUBSET Workers
    PROVE  IsFiniteSet(S) /\ Cardinality(S) \in Nat /\ Cardinality(S) <= N
<1>1. IsFiniteSet(Workers) /\ Cardinality(Workers) = N
  BY EmbeddingAssumption, FS_Interval DEF Workers, SubBatches
<1> QED BY <1>1, FS_Subset, FS_CardinalityType

\* get_nowait, seen from outside: w has the head of the queue and the rest is
\* left, or w is gone and the queue is empty.
LEMMA TakesNextEffect ==
    ASSUME worker \in [Workers -> WorkerState], NEW w \in Workers,
           NEW q \in Seq(Task), TakesNext(w, q)
    PROVE  /\ tasks' \in Seq(Task) /\ worker' \in [Workers -> WorkerState]
           /\ \A u \in Workers \ {w} : worker'[u] = worker[u]
           /\ q = <<>> => tasks' = <<>> /\ worker'[w].step = "gone"
           /\ q # <<>> => /\ worker'[w].step = "gate" /\ worker'[w].task = q[1]
                          /\ Len(q) > 0 /\ Len(tasks') = Len(q) - 1
                          /\ \A n \in 1..(Len(q) - 1) : tasks'[n] = q[n + 1]
<1>1. CASE q = <<>>
  <2>1. tasks' = <<>> /\ worker' = [worker EXCEPT ![w] = Gone]
    BY <1>1 DEF TakesNext
  <2>2. tasks' \in Seq(Task)
    BY <2>1, EmptySeq
  <2> QED BY <1>1, <2>1, <2>2, StatesTyped, OneWorkerMoves
<1>2. CASE q # <<>>
  <2>1. tasks' = Tail(q) /\ worker' = [worker EXCEPT ![w] = Carrying(Head(q))]
    BY <1>2 DEF TakesNext
  <2>2. Head(q) \in Task /\ Head(q) = q[1] /\ Len(q) \in Nat \ {0}
    BY <1>2, HeadTailProperties, EmptySeq
  <2>3. /\ tasks' \in Seq(Task) /\ Len(tasks') = Len(q) - 1
        /\ \A n \in 1..(Len(q) - 1) : tasks'[n] = q[n + 1]
    BY <1>2, <2>1, HeadTailProperties
  <2> QED BY <1>2, <2>1, <2>2, <2>3, StatesTyped, OneWorkerMoves
<1> QED BY <1>1, <1>2

-----------------------------------------------------------------------------
(* The tasks that wait: those workers carry and those queued *)

IdxIn(q) == {q[n].idx : n \in DOMAIN q}
CarriedWithout(w) == {worker[v].task.idx : v \in Holders \ {w}}

\* The workers but w and the queue q hold each sub-batch once at most, with the
\* number of its failures.
Pool(w, q, counted) ==
    /\ q \in Seq(Task)
    /\ \A v \in Holders \ {w} : /\ worker[v].task \in Task
                                /\ counted[worker[v].task.idx] = worker[v].task.attempt
    /\ \A u, v \in Holders \ {w} : worker[u].task.idx = worker[v].task.idx => u = v
    /\ \A m, n \in DOMAIN q : q[m].idx = q[n].idx => m = n
    /\ \A n \in DOMAIN q : counted[q[n].idx] = q[n].attempt
    /\ CarriedWithout(w) \cap IdxIn(q) = {}

\* Taking a task keeps the pool, and what it holds.
LEMMA TakesNextKeepsPool ==
    ASSUME worker \in [Workers -> WorkerState], NEW w \in Workers, NEW q, NEW counted,
           Pool(w, q, counted), TakesNext(w, q)
    PROVE  /\ \A v \in Holders' : /\ worker'[v].task \in Task
                                  /\ counted[worker'[v].task.idx] = worker'[v].task.attempt
           /\ \A u, v \in Holders' : worker'[u].task.idx = worker'[v].task.idx => u = v
           /\ \A m, n \in DOMAIN tasks' : tasks'[m].idx = tasks'[n].idx => m = n
           /\ \A n \in DOMAIN tasks' : counted[tasks'[n].idx] = tasks'[n].attempt
           /\ Carried' \cap Queued' = {}
           /\ Carried' \cup Queued' = CarriedWithout(w) \cup IdxIn(q)
<1>1. q \in Seq(Task) /\ Len(q) \in Nat /\ DOMAIN q = 1..Len(q)
  BY LenProperties DEF Pool
<1>2. /\ tasks' \in Seq(Task) /\ worker' \in [Workers -> WorkerState]
      /\ \A u \in Workers \ {w} : worker'[u] = worker[u]
      /\ q = <<>> => tasks' = <<>> /\ worker'[w].step = "gone"
      /\ q # <<>> => /\ worker'[w].step = "gate" /\ worker'[w].task = q[1]
                     /\ Len(q) > 0 /\ Len(tasks') = Len(q) - 1
                     /\ \A n \in 1..(Len(q) - 1) : tasks'[n] = q[n + 1]
  BY <1>1, TakesNextEffect
<1>3. Holders' \ {w} = Holders \ {w}
  BY <1>2 DEF Holders, In
<1>4. \A v \in Holders \ {w} : worker'[v] = worker[v]
  BY <1>2 DEF Holders, In
<1>5. Carried' = {worker'[v].task.idx : v \in Holders'} /\ Queued' = IdxIn(tasks')
  BY DEF Carried, Queued, IdxIn
<1>6. \A v \in Holders \ {w} : worker[v].task.idx \in CarriedWithout(w)
  BY DEF CarriedWithout
<1>7. CASE q = <<>>
  <2>1. tasks' = <<>> /\ w \notin Holders'
    BY <1>2, <1>7 DEF Holders, In
  <2>2. Holders' = Holders \ {w}
    BY <1>3, <2>1
  <2>3. DOMAIN tasks' = {} /\ DOMAIN q = {}
    BY <1>7, <2>1
  <2>4. Carried' = CarriedWithout(w)
    BY <1>4, <1>5, <2>2 DEF CarriedWithout
  <2>5. Queued' = {} /\ IdxIn(q) = {}
    BY <1>5, <2>3 DEF IdxIn
  <2> QED BY <1>4, <2>2, <2>3, <2>4, <2>5 DEF Pool
<1>8. CASE q # <<>>
  <2>1. /\ worker'[w].step = "gate" /\ worker'[w].task = q[1] /\ 1 \in DOMAIN q
        /\ Len(tasks') = Len(q) - 1 /\ DOMAIN tasks' = 1..(Len(q) - 1)
        /\ \A n \in 1..(Len(q) - 1) : tasks'[n] = q[n + 1] /\ n + 1 \in DOMAIN q
    <3>1. /\ worker'[w].step = "gate" /\ worker'[w].task = q[1] /\ Len(q) > 0
          /\ Len(tasks') = Len(q) - 1
          /\ \A n \in 1..(Len(q) - 1) : tasks'[n] = q[n + 1]
      BY <1>2, <1>8
    <3>2. DOMAIN tasks' = 1..Len(tasks')
      BY <1>2, LenProperties
    <3>3. 1 \in DOMAIN q /\ \A n \in 1..(Len(q) - 1) : n + 1 \in DOMAIN q
      BY <1>1, <3>1
    <3> QED BY <3>1, <3>2, <3>3
  <2>2. w \in Holders' /\ Holders' = (Holders \ {w}) \cup {w}
    BY <1>3, <2>1 DEF Holders, In
  <2>3. q[1] \in Task /\ counted[q[1].idx] = q[1].attempt
    BY <1>1, <2>1, ElementOfSeq DEF Pool
  <2>4. \A n \in DOMAIN q : q[n].idx \in IdxIn(q)
    BY DEF IdxIn
  <2>5. \A v \in Holders \ {w} : \A n \in DOMAIN q : worker[v].task.idx # q[n].idx
    BY <1>6, <2>4 DEF Pool
  <2>6. \A v \in Holders' : /\ worker'[v].task \in Task
                            /\ counted[worker'[v].task.idx] = worker'[v].task.attempt
    BY <1>4, <2>1, <2>2, <2>3 DEF Pool
  <2>7. \A u, v \in Holders' : worker'[u].task.idx = worker'[v].task.idx => u = v
    BY <1>4, <2>1, <2>2, <2>5 DEF Pool
  <2>8. \A m, n \in DOMAIN tasks' : tasks'[m].idx = tasks'[n].idx => m = n
    <3>1. \A m, n \in DOMAIN q : q[m].idx = q[n].idx => m = n
      BY DEF Pool
    <3>2. \A m, n \in 1..(Len(q) - 1) : m + 1 = n + 1 => m = n
      BY <1>1
    <3> SUFFICES ASSUME NEW m \in DOMAIN tasks', NEW n \in DOMAIN tasks',
                        tasks'[m].idx = tasks'[n].idx
                 PROVE  m = n
      OBVIOUS
    <3>3. q[m + 1].idx = q[n + 1].idx /\ m + 1 \in DOMAIN q /\ n + 1 \in DOMAIN q
      BY <2>1
    <3>4. m + 1 = n + 1
      BY <3>1, <3>3
    <3> QED BY <2>1, <3>2, <3>4
  <2>9. \A n \in DOMAIN tasks' : counted[tasks'[n].idx] = tasks'[n].attempt
    <3>1. \A n \in DOMAIN q : counted[q[n].idx] = q[n].attempt
      BY DEF Pool
    <3> SUFFICES ASSUME NEW n \in DOMAIN tasks'
                 PROVE  counted[tasks'[n].idx] = tasks'[n].attempt
      OBVIOUS
    <3>2. tasks'[n] = q[n + 1] /\ n + 1 \in DOMAIN q
      BY <2>1
    <3> QED BY <3>1, <3>2
  <2>10. Carried' = CarriedWithout(w) \cup {q[1].idx}
    BY <1>4, <1>5, <2>1, <2>2 DEF CarriedWithout
  <2>11. Queued' = IdxIn(q) \ {q[1].idx}
    <3>1. \A n \in DOMAIN tasks' : tasks'[n].idx \in IdxIn(q) \ {q[1].idx}
      BY <1>1, <2>1, <2>4 DEF Pool
    <3>2. ASSUME NEW n \in DOMAIN q, n # 1 PROVE q[n].idx \in IdxIn(tasks')
      <4>1. n - 1 \in DOMAIN tasks' /\ (n - 1) + 1 = n
        BY <1>1, <2>1, <3>2
      <4>2. tasks'[n - 1] = q[n]
        BY <2>1, <4>1
      <4> QED BY <4>1, <4>2 DEF IdxIn
    <3>3. IdxIn(q) \ {q[1].idx} \subseteq IdxIn(tasks')
      BY <3>2 DEF IdxIn
    <3>4. IdxIn(tasks') \subseteq IdxIn(q) \ {q[1].idx}
      BY <3>1 DEF IdxIn
    <3> QED BY <1>5, <3>3, <3>4
  <2>12. CarriedWithout(w) \cap IdxIn(q) = {} /\ q[1].idx \in IdxIn(q)
    BY <2>1, <2>4 DEF Pool
  <2> QED BY <2>6, <2>7, <2>8, <2>9, <2>10, <2>11, <2>12
<1> QED BY <1>7, <1>8

\* The pool as it is, before w asks for a task.
LEMMA PoolNow ==
    ASSUME EmbeddingInv, NEW w \in Workers
    PROVE  Pool(w, tasks, refused)
<1>1. tasks \in Seq(Task)
  BY DEF EmbeddingInv, EmbeddingTypeOK
<1>2. Queued = IdxIn(tasks) /\ CarriedWithout(w) \subseteq Carried
  BY DEF Queued, IdxIn, Carried, CarriedWithout
<1>3. OnePlaceEach /\ AttemptsCounted
  BY DEF EmbeddingInv
<1>4. CarriedWithout(w) \cap IdxIn(tasks) = {}
  BY <1>2, <1>3 DEF OnePlaceEach
<1> QED BY <1>1, <1>3, <1>4 DEF Pool, OnePlaceEach, AttemptsCounted

\* The sub-batch a worker carries is nowhere else.
LEMMA HolderAlone ==
    ASSUME EmbeddingInv, NEW w \in Holders
    PROVE  /\ worker[w].task \in Task
           /\ refused[worker[w].task.idx] = worker[w].task.attempt
           /\ Carried = CarriedWithout(w) \cup {worker[w].task.idx}
           /\ worker[w].task.idx \notin
                  CarriedWithout(w) \cup Queued \cup Posted \cup ordered \cup failed
<1> DEFINE i == worker[w].task.idx
<1>1. OnePlaceEach /\ AttemptsCounted
  BY DEF EmbeddingInv
<1>2. worker[w].task \in Task /\ refused[worker[w].task.idx] = worker[w].task.attempt
  BY <1>1 DEF OnePlaceEach, AttemptsCounted
<1>3. Carried = CarriedWithout(w) \cup {i}
  BY DEF Carried, CarriedWithout
<1>4. i \notin CarriedWithout(w)
  BY <1>1 DEF OnePlaceEach, CarriedWithout
<1>5. i \notin Queued \cup Posted \cup ordered \cup failed
  BY <1>1, <1>3 DEF OnePlaceEach
<1> QED BY <1>2, <1>3, <1>4, <1>5

-----------------------------------------------------------------------------
(* Slots and threads *)

\* Which workers are at some steps after one has moved.
LEMMA InAfterMove ==
    ASSUME NEW w \in Workers, \A u \in Workers \ {w} : worker'[u] = worker[u], NEW steps
    PROVE  In(steps)' = IF worker'[w].step \in steps THEN In(steps) \cup {w} ELSE In(steps) \ {w}
BY DEF In

\* With one slot for each thread, a worker with a slot finds a thread.
LEMMA SlotFindsThread ==
    ASSUME NEW f, Cardinality({w \in Workers : f[w].step \in {"slot", "request"}}) <= MaxConcurrent,
           {w \in Workers : f[w].step \in {"slot"}} # {}
    PROVE  Cardinality({w \in Workers : f[w].step \in {"request"}}) < MaxConcurrent
<1> DEFINE both == {w \in Workers : f[w].step \in {"slot", "request"}}
           busy == {w \in Workers : f[w].step \in {"request"}}
<1>1. busy \in SUBSET both /\ busy # both
  OBVIOUS
<1>2. IsFiniteSet(both) /\ Cardinality(both) \in Nat /\ Cardinality(busy) \in Nat
  BY WorkersFinite
<1>3. Cardinality(busy) < Cardinality(both)
  BY <1>1, <1>2, FS_Subset
<1> QED BY <1>2, <1>3, EmbeddingAssumption

\* A step that gives no slot away keeps the semaphore.
LEMMA SlotsStay ==
    ASSUME EmbeddingInv, In({"slot", "request"})' \subseteq In({"slot", "request"})
    PROVE  SlotsBounded' /\ NoSlotWaitsForThread'
<1> DEFINE now == In({"slot", "request"})
           next == In({"slot", "request"})'
<1>1. now \in SUBSET Workers /\ next \in SUBSET now
  BY DEF In
<1>2. Cardinality(now) <= MaxConcurrent
  BY DEF EmbeddingInv, SlotsBounded
<1>3. IsFiniteSet(now) /\ Cardinality(now) \in Nat /\ Cardinality(next) \in Nat
  BY <1>1, WorkersFinite
<1>4. Cardinality(next) <= MaxConcurrent
  BY <1>1, <1>2, <1>3, FS_Subset, EmbeddingAssumption
<1>5. SlotsBounded'
  BY <1>4 DEF SlotsBounded
<1> QED BY <1>5, SlotFindsThread DEF SlotsBounded, NoSlotWaitsForThread, ThreadIsFree, In

-----------------------------------------------------------------------------
(* The steps of a worker *)

\* A worker exists only while the collector counts or gathers.
LEMMA WorkersOfACall ==
    ASSUME EmbeddingInv, NEW w \in Workers, worker[w].step # "gone"
    PROVE  caller \in {"collect", "gather"} /\ (w \in Holders => caller = "collect")
BY DEF EmbeddingInv, NothingLeftOver, In, Holders

\* The first turn of a coroutine: one new worker less, one queued task less.
LEMMA FirstTurnStep ==
    ASSUME EmbeddingInv, NEW w \in Workers, FirstTurn(w)
    PROVE  EmbeddingInv'
<1>1. /\ worker[w].step = "new" /\ TakesNext(w, tasks)
      /\ UNCHANGED <<caller, results, left, ordered, failed, refused>>
  BY DEF FirstTurn
<1>2. /\ worker \in [Workers -> WorkerState] /\ tasks \in Seq(Task)
      /\ caller \in {"collect", "gather"}
  BY <1>1, WorkersOfACall DEF EmbeddingInv, EmbeddingTypeOK
<1>3. /\ tasks' \in Seq(Task) /\ worker' \in [Workers -> WorkerState]
      /\ \A u \in Workers \ {w} : worker'[u] = worker[u]
      /\ worker'[w].step \in {"gate", "gone"}
      /\ tasks = <<>> => tasks' = <<>> /\ worker'[w].step = "gone"
      /\ tasks # <<>> => Len(tasks) > 0 /\ Len(tasks') = Len(tasks) - 1
  BY <1>1, <1>2, TakesNextEffect
<1>4. w \notin Holders /\ CarriedWithout(w) = Carried /\ Queued = IdxIn(tasks)
  BY <1>1 DEF Holders, In, CarriedWithout, Carried, Queued, IdxIn
<1>5. Carried' \cup Queued' = Carried \cup Queued
  BY <1>1, <1>2, <1>4, PoolNow, TakesNextKeepsPool
<1>6. Posted' = Posted
  BY <1>1 DEF Posted
<1>7. EmbeddingTypeOK'
  BY <1>1, <1>3 DEF EmbeddingInv, EmbeddingTypeOK
<1>8. NoSubBatchStranded'
  <2> SUFFICES ASSUME caller = "collect"
               PROVE  /\ SubBatches = Carried' \cup Queued' \cup Posted' \cup ordered' \cup failed'
                      /\ Len(tasks') <= Cardinality(In({"new"})')
                      /\ left' = Cardinality(Carried' \cup Queued') + Len(results')
    BY <1>1 DEF NoSubBatchStranded
  <2>1. NoSubBatchStranded
    BY DEF EmbeddingInv
  <2>2. In({"new"})' = In({"new"}) \ {w} /\ w \in In({"new"})
    BY <1>1, <1>3, InAfterMove DEF In
  <2>3. IsFiniteSet(In({"new"})) /\ Cardinality(In({"new"})) \in Nat
    BY WorkersFinite DEF In
  <2>4. Cardinality(In({"new"})') = Cardinality(In({"new"})) - 1
    BY <2>2, <2>3, FS_RemoveElement
  <2>5. Len(tasks) <= Cardinality(In({"new"})) /\ Cardinality(In({"new"})') \in Nat
    BY <2>1, <2>2, <2>3, WorkersFinite DEF NoSubBatchStranded, In
  <2>6. Len(tasks') <= Cardinality(In({"new"})')
    <3>1. CASE tasks = <<>>
      BY <1>3, <2>5, <3>1, EmptySeq
    <3>2. CASE tasks # <<>>
      BY <1>2, <1>3, <2>3, <2>4, <2>5, <3>2, LenProperties
    <3> QED BY <3>1, <3>2
  <2> QED BY <1>1, <1>5, <1>6, <2>1, <2>6 DEF NoSubBatchStranded
<1>9. OnePlaceEach'
  <2>1. OnePlaceEach
    BY DEF EmbeddingInv
  <2> QED BY <1>1, <1>2, <1>5, <1>6, <2>1, PoolNow, TakesNextKeepsPool DEF OnePlaceEach
<1>10. AttemptsCounted'
  <2>1. AttemptsCounted
    BY DEF EmbeddingInv
  <2> QED BY <1>1, <1>2, <2>1, PoolNow, TakesNextKeepsPool DEF AttemptsCounted
<1>11. NothingLeftOver'
  <2>1. Holders' \subseteq Holders \cup {w}
    BY <1>3 DEF Holders, In
  <2>2. caller = "gather" => worker'[w].step = "gone"
    BY <1>3 DEF EmbeddingInv, NothingLeftOver
  <2>3. caller = "gather" => Holders' = {} /\ tasks' = <<>>
    BY <1>3, <2>1, <2>2 DEF EmbeddingInv, NothingLeftOver, Holders, In
  <2> QED BY <1>1, <1>2, <2>3 DEF EmbeddingInv, NothingLeftOver
<1>12. SerialProgress' /\ FailureEarned'
  BY <1>1, <1>2 DEF EmbeddingInv, SerialProgress, FailureEarned
<1>13. SlotsBounded' /\ NoSlotWaitsForThread'
  BY <1>3, SlotsStay DEF In
<1> QED BY <1>7, <1>8, <1>9, <1>10, <1>11, <1>12, <1>13 DEF EmbeddingInv

\* Between the gate and the answer a worker keeps its task.
LEMMA HolderMoves ==
    ASSUME EmbeddingInv, NEW w \in Holders,
           NEW step \in {"gate", "slot", "request"}, worker' = [worker EXCEPT ![w].step = step],
           UNCHANGED <<caller, tasks, results, left, ordered, failed, refused>>,
           SlotsBounded', NoSlotWaitsForThread'
    PROVE  EmbeddingInv'
<1>1. worker \in [Workers -> WorkerState] /\ w \in Workers /\ worker[w].step \in {"gate", "slot", "request"}
  BY DEF EmbeddingInv, EmbeddingTypeOK, Holders, In
<1>2. worker' = [worker EXCEPT ![w] = [worker[w] EXCEPT !.step = step]]
  OBVIOUS
<1>3. [worker[w] EXCEPT !.step = step] \in WorkerState
  BY <1>1 DEF WorkerState, WorkerSteps
<1>4. /\ worker' \in [Workers -> WorkerState]
      /\ worker'[w] = [worker[w] EXCEPT !.step = step]
      /\ \A u \in Workers \ {w} : worker'[u] = worker[u]
  BY <1>1, <1>2, <1>3, OneWorkerMoves
<1>5. worker'[w].step = step /\ worker'[w].task = worker[w].task
  BY <1>1, <1>4 DEF WorkerState
<1>6. Holders' = Holders /\ \A v \in Holders : worker'[v].task = worker[v].task
  BY <1>1, <1>4, <1>5 DEF Holders, In
<1>7. Carried' = Carried /\ Queued' = Queued /\ Posted' = Posted
  BY <1>6 DEF Carried, Queued, Posted
<1>8. In({"new"})' = In({"new"})
  BY <1>1, <1>4, <1>5 DEF In
<1>9. EmbeddingTypeOK'
  BY <1>4 DEF EmbeddingInv, EmbeddingTypeOK
<1>10. caller = "collect"
  BY <1>1, WorkersOfACall
<1>11. NoSubBatchStranded'
  BY <1>7, <1>8 DEF EmbeddingInv, NoSubBatchStranded
<1>12. OnePlaceEach'
  BY <1>6, <1>7 DEF EmbeddingInv, OnePlaceEach
<1>13. AttemptsCounted'
  BY <1>6 DEF EmbeddingInv, AttemptsCounted
<1>14. NothingLeftOver' /\ SerialProgress' /\ FailureEarned'
  BY <1>10 DEF EmbeddingInv, NothingLeftOver, SerialProgress, FailureEarned
<1> QED BY <1>9, <1>11, <1>12, <1>13, <1>14 DEF EmbeddingInv

\* A worker takes a slot while there is one, and a thread while there is one.
LEMMA AcquireStep ==
    ASSUME EmbeddingInv, NEW w \in Workers, Acquire(w)
    PROVE  EmbeddingInv'
<1>1. /\ w \in Holders /\ worker[w].step = "gate"
      /\ worker \in [Workers -> WorkerState]
      /\ Cardinality(In({"slot", "request"})) < MaxConcurrent
      /\ worker' = [worker EXCEPT ![w].step = "slot"]
      /\ UNCHANGED <<caller, tasks, results, left, ordered, failed, refused>>
  BY DEF Acquire, Holders, In, EmbeddingInv, EmbeddingTypeOK
<1>2. worker'[w].step = "slot" /\ \A u \in Workers \ {w} : worker'[u] = worker[u]
  BY <1>1 DEF WorkerState
<1>3. In({"slot", "request"})' = In({"slot", "request"}) \cup {w}
  BY <1>2, InAfterMove
<1>4. IsFiniteSet(In({"slot", "request"})) /\ Cardinality(In({"slot", "request"})) \in Nat
  BY WorkersFinite DEF In
<1>5. Cardinality(In({"slot", "request"})') <= MaxConcurrent
  <2> DEFINE now == In({"slot", "request"})
  <2>1. Cardinality(now \cup {w}) = IF w \in now THEN Cardinality(now) ELSE Cardinality(now) + 1
    BY <1>4, FS_AddElement
  <2>2. Cardinality(now) < MaxConcurrent /\ Cardinality(now) \in Nat
    BY <1>1, <1>4
  <2> HIDE DEF now
  <2>3. Cardinality(now \cup {w}) <= MaxConcurrent
    BY <2>1, <2>2, EmbeddingAssumption
  <2> QED BY <1>3, <2>3 DEF now
<1>6. SlotsBounded'
  BY <1>5 DEF SlotsBounded
<1>7. NoSlotWaitsForThread'
  BY <1>6, SlotFindsThread DEF SlotsBounded, NoSlotWaitsForThread, ThreadIsFree, In
<1> QED BY <1>1, <1>6, <1>7, HolderMoves

LEMMA SendRequestStep ==
    ASSUME EmbeddingInv, NEW w \in Workers, SendRequest(w)
    PROVE  EmbeddingInv'
<1>1. /\ w \in Holders /\ worker[w].step = "slot"
      /\ worker \in [Workers -> WorkerState]
      /\ worker' = [worker EXCEPT ![w].step = "request"]
      /\ UNCHANGED <<caller, tasks, results, left, ordered, failed, refused>>
  BY DEF SendRequest, Holders, In, EmbeddingInv, EmbeddingTypeOK
<1>2. worker'[w].step = "request" /\ \A u \in Workers \ {w} : worker'[u] = worker[u]
  BY <1>1 DEF WorkerState
<1>3. In({"slot", "request"})' \subseteq In({"slot", "request"})
  BY <1>1, <1>2 DEF In
<1> QED BY <1>1, <1>3, SlotsStay, HolderMoves

-----------------------------------------------------------------------------
(* The answer of the server *)

\* An answer of a new sub-batch is posted after the others.
LEMMA PostOne ==
    ASSUME NEW i \in SubBatches, NEW ok \in BOOLEAN, results \in Seq(Result),
           results' = Append(results, [idx |-> i, ok |-> ok])
    PROVE  /\ results' \in Seq(Result) /\ Len(results') = Len(results) + 1
           /\ Len(results) \in Nat
           /\ DOMAIN results' = DOMAIN results \cup {Len(results) + 1}
           /\ Len(results) + 1 \notin DOMAIN results
           /\ \A n \in DOMAIN results : results'[n] = results[n]
           /\ results'[Len(results) + 1] = [idx |-> i, ok |-> ok]
           /\ Posted' = Posted \cup {i}
<1>1. [idx |-> i, ok |-> ok] \in Result
  BY DEF Result
<1>2. /\ results' \in Seq(Result) /\ Len(results') = Len(results) + 1 /\ Len(results) \in Nat
      /\ DOMAIN results = 1..Len(results) /\ DOMAIN results' = 1..(Len(results) + 1)
      /\ \A n \in DOMAIN results : results'[n] = results[n]
      /\ results'[Len(results) + 1] = [idx |-> i, ok |-> ok]
  BY <1>1
<1>3. DOMAIN results' = DOMAIN results \cup {Len(results) + 1} /\ Len(results) + 1 \notin DOMAIN results
  BY <1>2
<1>4. Posted' = Posted \cup {i}
  BY <1>2, <1>3 DEF Posted
<1> QED BY <1>2, <1>3, <1>4

\* What the last answer to a sub-batch does to the queues: its worker goes on
\* with the next task, and the collector has one more result to read.
LEMMA AnswerStep ==
    ASSUME EmbeddingInv, NEW w \in Workers, worker[w].step = "request",
           NEW ok \in BOOLEAN, NEW i, i = worker[w].task.idx,
           results' = Append(results, [idx |-> i, ok |-> ok]),
           TakesNext(w, tasks),
           UNCHANGED <<caller, left, ordered, failed>>,
           refused' \in [SubBatches -> 0..MaxRetries],
           \A j \in SubBatches \ {i} : refused'[j] = refused[j],
           IF ok THEN refused'[i] < MaxRetries ELSE refused'[i] = MaxRetries
    PROVE  EmbeddingInv'
<1>1. /\ worker \in [Workers -> WorkerState] /\ tasks \in Seq(Task)
      /\ results \in Seq(Result) /\ w \in Holders
  BY DEF EmbeddingInv, EmbeddingTypeOK, Holders, In
<1>2. caller = "collect"
  BY <1>1, WorkersOfACall
<1>3. /\ worker[w].task \in Task /\ Carried = CarriedWithout(w) \cup {i}
      /\ i \notin CarriedWithout(w) \cup Queued \cup Posted \cup ordered \cup failed
  BY <1>1, HolderAlone
<1>4. i \in SubBatches
  BY <1>3, TaskFields
<1>5. Queued = IdxIn(tasks) /\ \A v \in Holders \ {w} : worker[v].task.idx \in CarriedWithout(w)
  BY DEF Queued, IdxIn, CarriedWithout
<1>6. Pool(w, tasks, refused')
  <2>1. Pool(w, tasks, refused)
    BY PoolNow
  <2>2. \A v \in Holders \ {w} : /\ worker[v].task.idx \in SubBatches \ {i}
                                 /\ refused'[worker[v].task.idx] = refused[worker[v].task.idx]
    BY <1>3, <1>5, <2>1, TaskFields DEF Pool
  <2>3. \A n \in DOMAIN tasks : /\ tasks[n].idx \in SubBatches \ {i}
                                /\ refused'[tasks[n].idx] = refused[tasks[n].idx]
    <3> TAKE n \in DOMAIN tasks
    <3>1. tasks[n] \in Task
      BY <1>1, ElementOfSeq, LenProperties
    <3>2. tasks[n].idx \in Queued
      BY DEF Queued
    <3> QED BY <1>3, <3>1, <3>2, TaskFields
  <2> QED BY <2>1, <2>2, <2>3 DEF Pool
<1>7. /\ tasks' \in Seq(Task) /\ worker' \in [Workers -> WorkerState]
      /\ \A u \in Workers \ {w} : worker'[u] = worker[u]
      /\ worker'[w].step \in {"gate", "gone"}
      /\ tasks = <<>> => tasks' = <<>>
      /\ tasks # <<>> => Len(tasks) > 0 /\ Len(tasks') = Len(tasks) - 1
  BY <1>1, TakesNextEffect
<1>8. Carried' \cup Queued' = (Carried \cup Queued) \ {i}
  BY <1>1, <1>3, <1>5, <1>6, TakesNextKeepsPool
<1>9. /\ results' \in Seq(Result) /\ Len(results') = Len(results) + 1 /\ Len(results) \in Nat
      /\ DOMAIN results' = DOMAIN results \cup {Len(results) + 1}
      /\ Len(results) + 1 \notin DOMAIN results
      /\ \A n \in DOMAIN results : results'[n] = results[n]
      /\ results'[Len(results) + 1] = [idx |-> i, ok |-> ok]
      /\ Posted' = Posted \cup {i}
  BY <1>1, <1>4, PostOne
<1>10. EmbeddingTypeOK'
  BY <1>7, <1>9 DEF EmbeddingInv, EmbeddingTypeOK
<1>11. NoSubBatchStranded'
  <2>1. NoSubBatchStranded
    BY DEF EmbeddingInv
  <2>2. SubBatches = Carried' \cup Queued' \cup Posted' \cup ordered' \cup failed'
    BY <1>2, <1>8, <1>9, <1>4, <2>1 DEF NoSubBatchStranded
  <2>3. In({"new"})' = In({"new"})
    BY <1>7 DEF In
  <2>4. Len(tasks') <= Cardinality(In({"new"})')
    <3>1. Cardinality(In({"new"})) \in Nat
      BY WorkersFinite DEF In
    <3>2. Len(tasks) <= Cardinality(In({"new"})) /\ Len(tasks) \in Nat
      BY <1>1, <1>2, <2>1, LenProperties DEF NoSubBatchStranded
    <3>3. Len(tasks') <= Len(tasks)
      BY <1>7, <3>2
    <3>4. Len(tasks') \in Nat
      BY <1>7, LenProperties
    <3> QED BY <2>3, <3>1, <3>2, <3>3, <3>4
  <2>5. left' = Cardinality(Carried' \cup Queued') + Len(results')
    <3>1. Carried \cup Queued \subseteq SubBatches
      BY <1>2, <2>1 DEF NoSubBatchStranded
    <3>2. IsFiniteSet(Carried \cup Queued) /\ Cardinality(Carried \cup Queued) \in Nat
      BY <3>1, WorkersFinite DEF Workers
    <3> DEFINE waiting == Carried \cup Queued
    <3>3. i \in waiting
      BY <1>3
    <3>4. left = Cardinality(waiting) + Len(results)
      BY <1>2, <2>1 DEF NoSubBatchStranded
    <3>5. Carried' \cup Queued' = waiting \ {i}
      BY <1>8
    <3>6. IsFiniteSet(waiting) /\ Cardinality(waiting) \in Nat
      BY <3>2
    <3> HIDE DEF waiting
    <3>7. Cardinality(waiting \ {i}) = Cardinality(waiting) - 1
      BY <3>3, <3>6, OneLess
    <3>8. left' = Cardinality(waiting \ {i}) + Len(results')
      BY <1>9, <3>4, <3>6, <3>7
    <3> QED BY <3>5, <3>8
  <2> QED BY <2>2, <2>4, <2>5 DEF NoSubBatchStranded
<1>12. OnePlaceEach'
  <2>1. OnePlaceEach
    BY DEF EmbeddingInv
  <2>2. \A m \in DOMAIN results : results[m].idx # i
    BY <1>3 DEF Posted
  <2>3. \A m, n \in DOMAIN results' : results'[m].idx = results'[n].idx => m = n
    BY <1>9, <2>1, <2>2 DEF OnePlaceEach
  <2>4. /\ (Carried' \cup Queued') \cap Posted' = {}
        /\ (Carried' \cup Queued' \cup Posted') \cap (ordered' \cup failed') = {}
    BY <1>3, <1>8, <1>9, <2>1 DEF OnePlaceEach
  <2>5. /\ \A v \in Holders' : worker'[v].task \in Task
        /\ \A u, v \in Holders' : worker'[u].task.idx = worker'[v].task.idx => u = v
        /\ \A m, n \in DOMAIN tasks' : tasks'[m].idx = tasks'[n].idx => m = n
        /\ Carried' \cap Queued' = {}
    BY <1>1, <1>6, TakesNextKeepsPool
  <2> QED BY <2>3, <2>4, <2>5 DEF OnePlaceEach
<1>13. AttemptsCounted'
  <2>1. \A n \in DOMAIN results : /\ results'[n] = results[n]
                                  /\ results[n].idx \in SubBatches \ {i}
    <3> TAKE n \in DOMAIN results
    <3>1. results[n] \in Result
      BY <1>1, ElementOfSeq, LenProperties
    <3>2. results[n].idx \in Posted
      BY DEF Posted
    <3> QED BY <1>3, <1>9, <3>1, <3>2 DEF Result
  <2>2. \A n \in DOMAIN results :
            IF results'[n].ok THEN refused'[results'[n].idx] < MaxRetries
                              ELSE refused'[results'[n].idx] = MaxRetries
    BY <2>1 DEF EmbeddingInv, AttemptsCounted
  <2>3. LET r == results'[Len(results) + 1] IN
            IF r.ok THEN refused'[r.idx] < MaxRetries ELSE refused'[r.idx] = MaxRetries
    BY <1>9
  <2>4. /\ \A v \in Holders' : refused'[worker'[v].task.idx] = worker'[v].task.attempt
        /\ \A n \in DOMAIN tasks' : refused'[tasks'[n].idx] = tasks'[n].attempt
    BY <1>1, <1>6, TakesNextKeepsPool
  <2>5. \A n \in DOMAIN results' :
            IF results'[n].ok THEN refused'[results'[n].idx] < MaxRetries
                              ELSE refused'[results'[n].idx] = MaxRetries
    BY <1>9, <2>2, <2>3
  <2> QED BY <2>4, <2>5 DEF AttemptsCounted
<1>14. NothingLeftOver' /\ SerialProgress'
  BY <1>2 DEF NothingLeftOver, SerialProgress
<1>15. FailureEarned'
  <2>1. \A j \in ordered \cup failed : refused'[j] = refused[j]
    BY <1>3 DEF EmbeddingInv, EmbeddingTypeOK
  <2> QED BY <1>2, <2>1 DEF EmbeddingInv, FailureEarned
<1>16. SlotsBounded' /\ NoSlotWaitsForThread'
  BY <1>7, SlotsStay DEF In
<1> QED BY <1>10, <1>11, <1>12, <1>13, <1>14, <1>15, <1>16 DEF EmbeddingInv

LEMMA SucceedStep ==
    ASSUME EmbeddingInv, NEW w \in Workers, Succeed(w)
    PROVE  EmbeddingInv'
<1> DEFINE i == worker[w].task.idx
<1>1. /\ worker[w].step = "request" /\ w \in Holders
      /\ results' = Append(results, [idx |-> i, ok |-> TRUE])
      /\ TakesNext(w, tasks)
      /\ UNCHANGED <<caller, left, ordered, failed, refused>>
  BY DEF Succeed, Holders, In
<1>2. worker[w].task \in Task /\ refused[i] = worker[w].task.attempt
  BY <1>1, HolderAlone
<1>3. refused'[i] < MaxRetries
  BY <1>1, <1>2, TaskFields, EmbeddingAssumption
<1>4. refused' \in [SubBatches -> 0..MaxRetries] /\ \A j \in SubBatches \ {i} : refused'[j] = refused[j]
  BY <1>1 DEF EmbeddingInv, EmbeddingTypeOK
<1> HIDE DEF i
<1> QED BY <1>1, <1>3, <1>4, AnswerStep DEF i

\* A task that is queued again is behind the others, and in no other place.
LEMMA RetryKeepsPool ==
    ASSUME EmbeddingInv, NEW w \in Holders, NEW t, t = worker[w].task,
           t.attempt + 1 < MaxRetries,
           refused' = [refused EXCEPT ![t.idx] = t.attempt + 1]
    PROVE  /\ Pool(w, Append(tasks, Retry(t)), refused')
           /\ IdxIn(Append(tasks, Retry(t))) = Queued \cup {t.idx}
           /\ Len(Append(tasks, Retry(t))) = Len(tasks) + 1
           /\ Append(tasks, Retry(t)) \in Seq(Task)
<1> DEFINE q == Append(tasks, Retry(t))
<1>1. /\ t \in Task /\ w \in Workers
      /\ t.idx \notin CarriedWithout(w) \cup Queued
  BY HolderAlone DEF Holders, In
<1>2. Retry(t) \in Task /\ Retry(t).idx = t.idx /\ Retry(t).attempt = t.attempt + 1
  BY <1>1, EmbeddingAssumption DEF Retry, Task
<1>3. tasks \in Seq(Task) /\ refused \in [SubBatches -> 0..MaxRetries]
  BY DEF EmbeddingInv, EmbeddingTypeOK
<1>4. /\ q \in Seq(Task) /\ Len(q) = Len(tasks) + 1 /\ Len(tasks) \in Nat
      /\ DOMAIN tasks = 1..Len(tasks) /\ DOMAIN q = 1..(Len(tasks) + 1)
      /\ \A n \in DOMAIN tasks : q[n] = tasks[n]
      /\ q[Len(tasks) + 1] = Retry(t)
  BY <1>2, <1>3
<1>5. DOMAIN q = DOMAIN tasks \cup {Len(tasks) + 1} /\ Len(tasks) + 1 \notin DOMAIN tasks
  BY <1>4
<1> HIDE DEF q
<1>6. IdxIn(q) = Queued \cup {t.idx}
  BY <1>2, <1>4, <1>5 DEF IdxIn, Queued
<1>7. Pool(w, tasks, refused)
  BY <1>1, PoolNow
<1>8. /\ refused'[t.idx] = t.attempt + 1
      /\ \A j \in SubBatches \ {t.idx} : refused'[j] = refused[j]
  BY <1>1, <1>3, TaskFields
<1>9. \A v \in Holders \ {w} : worker[v].task \in Task /\ refused'[worker[v].task.idx] = worker[v].task.attempt
  <2> TAKE v \in Holders \ {w}
  <2>1. worker[v].task \in Task /\ refused[worker[v].task.idx] = worker[v].task.attempt
    BY <1>7 DEF Pool
  <2>2. worker[v].task.idx \in CarriedWithout(w)
    BY DEF CarriedWithout
  <2> QED BY <1>1, <1>8, <2>1, <2>2, TaskFields
<1>10. \A n \in DOMAIN tasks : tasks[n].idx # t.idx /\ refused'[tasks[n].idx] = tasks[n].attempt
  <2> TAKE n \in DOMAIN tasks
  <2>1. tasks[n] \in Task /\ tasks[n].idx \in Queued
    BY <1>3, <1>4, ElementOfSeq DEF Queued
  <2>2. refused[tasks[n].idx] = tasks[n].attempt
    BY <1>7 DEF Pool
  <2> QED BY <1>1, <1>8, <2>1, <2>2, TaskFields
<1>11. \A n \in DOMAIN q : refused'[q[n].idx] = q[n].attempt
  BY <1>2, <1>4, <1>5, <1>8, <1>10
<1>12. \A m, n \in DOMAIN q : q[m].idx = q[n].idx => m = n
  BY <1>2, <1>4, <1>5, <1>7, <1>10 DEF Pool
<1>13. \A u, v \in Holders \ {w} : worker[u].task.idx = worker[v].task.idx => u = v
  BY <1>7 DEF Pool
<1>14. CarriedWithout(w) \cap IdxIn(q) = {}
  <2>1. CarriedWithout(w) \cap Queued = {}
    BY <1>7 DEF Pool, Queued, IdxIn
  <2> QED BY <1>1, <1>6, <2>1
<1>15. Pool(w, q, refused')
  BY <1>4, <1>9, <1>11, <1>12, <1>13, <1>14 DEF Pool
<1> QED BY <1>4, <1>6, <1>15 DEF q

\* A request that raised and is tried again.
LEMMA RetryStep ==
    ASSUME EmbeddingInv, NEW w \in Holders, NEW t, t = worker[w].task,
           t.attempt + 1 < MaxRetries,
           refused' = [refused EXCEPT ![t.idx] = t.attempt + 1],
           TakesNext(w, Append(tasks, Retry(t))),
           UNCHANGED <<caller, results, left, ordered, failed>>
    PROVE  EmbeddingInv'
<1> DEFINE q == Append(tasks, Retry(t))
<1>1. /\ Pool(w, q, refused') /\ IdxIn(q) = Queued \cup {t.idx}
      /\ Len(q) = Len(tasks) + 1 /\ q \in Seq(Task)
  BY RetryKeepsPool
<1>2. TakesNext(w, q)
  OBVIOUS
<1> HIDE DEF q
<1>3. /\ worker \in [Workers -> WorkerState] /\ tasks \in Seq(Task)
      /\ refused \in [SubBatches -> 0..MaxRetries]
      /\ w \in Workers /\ worker[w].step \in {"gate", "slot", "request"} /\ Len(tasks) \in Nat
  BY LenProperties DEF EmbeddingInv, EmbeddingTypeOK, Holders, In
<1>4. /\ t \in Task /\ Carried = CarriedWithout(w) \cup {t.idx}
      /\ t.idx \notin Posted \cup ordered \cup failed
  BY HolderAlone
<1>5. caller = "collect"
  BY <1>3, WorkersOfACall
<1>6. q # <<>>
  BY <1>1, <1>3, EmptySeq
<1>7. /\ tasks' \in Seq(Task) /\ worker' \in [Workers -> WorkerState]
      /\ \A u \in Workers \ {w} : worker'[u] = worker[u]
      /\ worker'[w].step = "gate" /\ Len(tasks') = Len(tasks)
  BY <1>1, <1>2, <1>3, <1>6, TakesNextEffect
<1>8. /\ \A v \in Holders' : /\ worker'[v].task \in Task
                             /\ refused'[worker'[v].task.idx] = worker'[v].task.attempt
      /\ \A u, v \in Holders' : worker'[u].task.idx = worker'[v].task.idx => u = v
      /\ \A m, n \in DOMAIN tasks' : tasks'[m].idx = tasks'[n].idx => m = n
      /\ \A n \in DOMAIN tasks' : refused'[tasks'[n].idx] = tasks'[n].attempt
      /\ Carried' \cap Queued' = {}
      /\ Carried' \cup Queued' = CarriedWithout(w) \cup IdxIn(q)
  <2>1. /\ worker \in [Workers -> WorkerState] /\ w \in Workers
        /\ Pool(w, q, refused') /\ TakesNext(w, q)
    BY <1>1, <1>2, <1>3
  <2> HIDE DEF q
  <2> QED BY ONLY <2>1, TakesNextKeepsPool
<1>9. Carried' \cup Queued' = Carried \cup Queued /\ Posted' = Posted
  BY <1>1, <1>4, <1>8 DEF Posted
<1>10. refused' \in [SubBatches -> 0..MaxRetries] /\ \A j \in SubBatches \ {t.idx} : refused'[j] = refused[j]
  BY <1>3, <1>4, TaskFields, EmbeddingAssumption
<1>11. EmbeddingTypeOK'
  BY <1>7, <1>10 DEF EmbeddingInv, EmbeddingTypeOK
<1>12. NoSubBatchStranded'
  <2>1. NoSubBatchStranded
    BY DEF EmbeddingInv
  <2>2. In({"new"})' = In({"new"})
    BY <1>3, <1>7 DEF In
  <2> QED BY <1>5, <1>7, <1>9, <2>1, <2>2 DEF NoSubBatchStranded
<1>13. OnePlaceEach'
  <2>1. OnePlaceEach
    BY DEF EmbeddingInv
  <2> QED BY <1>8, <1>9, <2>1 DEF OnePlaceEach
<1>14. AttemptsCounted'
  <2>1. \A n \in DOMAIN results : refused'[results[n].idx] = refused[results[n].idx]
    <3> TAKE n \in DOMAIN results
    <3>1. results[n].idx \in Posted /\ results[n] \in Result
      BY ElementOfSeq, LenProperties DEF Posted, EmbeddingInv, EmbeddingTypeOK
    <3> QED BY <1>4, <1>10, <3>1 DEF Result
  <2>2. \A n \in DOMAIN results :
            IF results[n].ok THEN refused'[results[n].idx] < MaxRetries
                             ELSE refused'[results[n].idx] = MaxRetries
    BY <2>1 DEF EmbeddingInv, AttemptsCounted
  <2> QED BY <1>8, <2>2 DEF AttemptsCounted
<1>15. NothingLeftOver' /\ SerialProgress'
  BY <1>5 DEF NothingLeftOver, SerialProgress
<1>16. FailureEarned'
  <2>1. \A j \in ordered \cup failed : refused'[j] = refused[j]
    BY <1>4, <1>10 DEF EmbeddingInv, EmbeddingTypeOK
  <2> QED BY <1>5, <2>1 DEF EmbeddingInv, FailureEarned
<1>17. SlotsBounded' /\ NoSlotWaitsForThread'
  BY <1>7, SlotsStay DEF In
<1> QED BY <1>11, <1>12, <1>13, <1>14, <1>15, <1>16, <1>17 DEF EmbeddingInv

LEMMA FailStep ==
    ASSUME EmbeddingInv, NEW w \in Workers, Fail(w)
    PROVE  EmbeddingInv'
<1> DEFINE t == worker[w].task
<1>1. /\ worker[w].step = "request" /\ w \in Holders
      /\ refused' = [refused EXCEPT ![t.idx] = IF @ < MaxRetries THEN @ + 1 ELSE @]
      /\ UNCHANGED <<caller, left, ordered, failed>>
  BY DEF Fail, Holders, In
<1>2. t \in Task /\ refused[t.idx] = t.attempt /\ refused \in [SubBatches -> 0..MaxRetries]
  BY <1>1, HolderAlone DEF EmbeddingInv, EmbeddingTypeOK
<1>3. t.idx \in SubBatches /\ t.attempt \in Nat /\ t.attempt < MaxRetries
  BY <1>2, TaskFields, EmbeddingAssumption
<1>4. refused' = [refused EXCEPT ![t.idx] = t.attempt + 1]
  BY <1>1, <1>2, <1>3
<1>5. CASE Again(t)
  <2>1. t.attempt + 1 < MaxRetries /\ results' = results /\ TakesNext(w, Append(tasks, Retry(t)))
    BY <1>5 DEF Fail, Again
  <2> HIDE DEF t
  <2> QED BY <1>1, <1>4, <2>1, RetryStep DEF t
<1>6. CASE ~Again(t)
  <2>1. t.attempt + 1 = MaxRetries
    BY <1>3, <1>6, EmbeddingAssumption DEF Again
  <2>2. results' = Append(results, [idx |-> t.idx, ok |-> FALSE]) /\ TakesNext(w, tasks)
    BY <1>6 DEF Fail
  <2>3. /\ refused' \in [SubBatches -> 0..MaxRetries]
        /\ \A j \in SubBatches \ {t.idx} : refused'[j] = refused[j]
        /\ refused'[t.idx] = MaxRetries
    BY <1>2, <1>3, <1>4, <2>1, EmbeddingAssumption
  <2> DEFINE i == t.idx
             ok == FALSE
  <2>4. /\ i = worker[w].task.idx /\ ok \in BOOLEAN /\ ~ok
        /\ results' = Append(results, [idx |-> i, ok |-> ok])
        /\ refused'[i] = MaxRetries /\ \A j \in SubBatches \ {i} : refused'[j] = refused[j]
    BY <2>2, <2>3
  <2> HIDE DEF i, ok, t
  <2> QED BY <1>1, <2>2, <2>3, <2>4, AnswerStep
<1> QED BY <1>5, <1>6

-----------------------------------------------------------------------------
(* The collector *)

\* The collector reads the oldest answer, which is posted nowhere else.
LEMMA ReadOne ==
    ASSUME EmbeddingInv, results # <<>>, results' = Tail(results)
    PROVE  /\ results' \in Seq(Result) /\ Len(results) \in Nat \ {0} /\ Head(results) = results[1]
           /\ 1 \in DOMAIN results /\ results[1] \in Result
           /\ Len(results') = Len(results) - 1 /\ DOMAIN results' = 1..(Len(results) - 1)
           /\ \A n \in DOMAIN results' : n + 1 \in DOMAIN results /\ results'[n] = results[n + 1]
           /\ Posted = Posted' \cup {results[1].idx}
           /\ results[1].idx \notin Posted'
<1>1. results \in Seq(Result)
  BY DEF EmbeddingInv, EmbeddingTypeOK
<1>2. /\ results' \in Seq(Result) /\ Len(results) \in Nat \ {0} /\ Head(results) = results[1]
      /\ Len(results') = Len(results) - 1
      /\ \A n \in 1..Len(results') : results'[n] = results[n + 1]
  BY <1>1, HeadTailProperties, EmptySeq
<1>3. DOMAIN results = 1..Len(results) /\ DOMAIN results' = 1..(Len(results) - 1)
  BY <1>1, <1>2, LenProperties
<1>4. /\ 1 \in DOMAIN results /\ results[1] \in Result
      /\ \A n \in DOMAIN results' : n + 1 \in DOMAIN results /\ results'[n] = results[n + 1]
  BY <1>1, <1>2, <1>3, ElementOfSeq
<1>5. \A n \in DOMAIN results \ {1} : n - 1 \in DOMAIN results' /\ results'[n - 1] = results[n]
  BY <1>2, <1>3
<1>6. Posted' = {results'[n].idx : n \in DOMAIN results'} /\ Posted = {results[n].idx : n \in DOMAIN results}
  BY DEF Posted
<1>7. Posted' \cup {results[1].idx} \subseteq Posted
  BY <1>4, <1>6
<1>8. Posted \subseteq Posted' \cup {results[1].idx}
  <2>1. ASSUME NEW n \in DOMAIN results, n # 1 PROVE results[n].idx \in Posted'
    <3>1. n - 1 \in DOMAIN results' /\ results'[n - 1] = results[n]
      BY <1>5, <2>1
    <3> QED BY <1>6, <3>1
  <2> QED BY <1>6, <2>1
<1>9. \A n \in DOMAIN results' : results'[n].idx # results[1].idx
  <2> TAKE n \in DOMAIN results'
  <2>1. n + 1 \in DOMAIN results /\ n + 1 # 1 /\ results'[n] = results[n + 1]
    BY <1>2, <1>3, <1>4
  <2> QED BY <1>4, <2>1 DEF EmbeddingInv, OnePlaceEach
<1>10. results[1].idx \notin Posted'
  BY <1>6, <1>9
<1> QED BY <1>2, <1>3, <1>4, <1>7, <1>8, <1>10

\* With the last answer everything has been read, and nothing waits.
LEMMA CollectStep ==
    ASSUME EmbeddingInv, Collect
    PROVE  EmbeddingInv'
<1> DEFINE r == results[1]
<1>1. /\ caller = "collect" /\ results # <<>> /\ results' = Tail(results) /\ left' = left - 1
      /\ caller' = IF left' = 0 THEN "gather" ELSE caller
      /\ UNCHANGED <<tasks, worker, refused>>
  BY DEF Collect
<1>2. /\ results' \in Seq(Result) /\ Len(results) \in Nat \ {0} /\ Head(results) = r
      /\ 1 \in DOMAIN results /\ r \in Result
      /\ Len(results') = Len(results) - 1 /\ DOMAIN results' = 1..(Len(results) - 1)
      /\ \A n \in DOMAIN results' : n + 1 \in DOMAIN results /\ results'[n] = results[n + 1]
      /\ Posted = Posted' \cup {r.idx} /\ r.idx \notin Posted'
  BY <1>1, ReadOne
<1>3. /\ Carried' = Carried /\ Queued' = Queued /\ Holders' = Holders /\ In({"new"})' = In({"new"})
      /\ In({"slot", "request"})' = In({"slot", "request"})
  BY <1>1 DEF Carried, Queued, Holders, In
<1>4. /\ r.idx \in SubBatches /\ r.ok \in BOOLEAN
      /\ ordered' = IF r.ok THEN ordered \cup {r.idx} ELSE ordered
      /\ failed' = IF r.ok THEN failed ELSE failed \cup {r.idx}
  BY <1>2 DEF Collect, Result
<1> HIDE DEF r
<1>5. ordered' \cup failed' = ordered \cup failed \cup {r.idx}
  BY <1>4
<1>6. /\ NoSubBatchStranded /\ OnePlaceEach /\ AttemptsCounted /\ tasks \in Seq(Task)
      /\ left \in 0..N /\ ordered \subseteq SubBatches /\ failed \subseteq SubBatches
  BY DEF EmbeddingInv, EmbeddingTypeOK
<1>7. /\ left = Cardinality(Carried \cup Queued) + Len(results)
      /\ Carried \cup Queued \subseteq SubBatches
      /\ SubBatches = Carried \cup Queued \cup Posted \cup ordered \cup failed
      /\ Len(tasks) <= Cardinality(In({"new"}))
  BY <1>1, <1>6 DEF NoSubBatchStranded
<1>8. IsFiniteSet(Carried \cup Queued) /\ Cardinality(Carried \cup Queued) \in Nat
  BY <1>7, WorkersFinite DEF Workers
<1>9. left' = Cardinality(Carried' \cup Queued') + Len(results') /\ left' \in 0..N
  <2>1. left' = Cardinality(Carried \cup Queued) + Len(results') /\ left' >= 0
    BY <1>1, <1>2, <1>7, <1>8
  <2>2. left' \in 0..N
    BY <1>1, <1>6, <2>1, EmbeddingAssumption
  <2> QED BY <1>3, <2>1, <2>2
<1>10. SubBatches = Carried' \cup Queued' \cup Posted' \cup ordered' \cup failed'
  BY <1>2, <1>3, <1>5, <1>7
<1>11. EmbeddingTypeOK'
  BY <1>1, <1>2, <1>4, <1>9 DEF EmbeddingInv, EmbeddingTypeOK
<1>12. NoSubBatchStranded'
  BY <1>1, <1>3, <1>7, <1>9, <1>10 DEF NoSubBatchStranded
<1>13. OnePlaceEach'
  <2>1. \A m, n \in DOMAIN results' : results'[m].idx = results'[n].idx => m = n
    <3> SUFFICES ASSUME NEW m \in DOMAIN results', NEW n \in DOMAIN results',
                        results'[m].idx = results'[n].idx
                 PROVE  m = n
      OBVIOUS
    <3>1. /\ m + 1 \in DOMAIN results /\ n + 1 \in DOMAIN results
          /\ results[m + 1].idx = results[n + 1].idx
      BY <1>2
    <3>2. m + 1 = n + 1
      BY <1>6, <3>1 DEF OnePlaceEach
    <3> QED BY <1>2, <3>2
  <2>2. /\ (Carried' \cup Queued') \cap Posted' = {}
        /\ (Carried' \cup Queued' \cup Posted') \cap (ordered' \cup failed') = {}
    <3>1. (Carried \cup Queued) \cap Posted = {}
      BY <1>6 DEF OnePlaceEach
    <3>2. (Carried \cup Queued \cup Posted) \cap (ordered \cup failed) = {}
      BY <1>6 DEF OnePlaceEach
    <3> QED BY <1>2, <1>3, <1>5, <3>1, <3>2
  <2>3. /\ \A v \in Holders' : worker'[v].task \in Task
        /\ \A u, v \in Holders' : worker'[u].task.idx = worker'[v].task.idx => u = v
        /\ \A m, n \in DOMAIN tasks' : tasks'[m].idx = tasks'[n].idx => m = n
        /\ Carried' \cap Queued' = {}
    BY <1>1, <1>3, <1>6 DEF OnePlaceEach
  <2> QED BY <2>1, <2>2, <2>3 DEF OnePlaceEach
<1>14. AttemptsCounted'
  <2>1. \A n \in DOMAIN results' :
            IF results'[n].ok THEN refused'[results'[n].idx] < MaxRetries
                              ELSE refused'[results'[n].idx] = MaxRetries
    BY <1>1, <1>2, <1>6 DEF AttemptsCounted
  <2> QED BY <1>1, <1>3, <1>6, <2>1 DEF AttemptsCounted
<1>15. NothingLeftOver'
  <2>1. CASE left' = 0
    <3>1. Cardinality(Carried \cup Queued) = 0 /\ Len(results') = 0
      <4>1. Len(results') \in Nat
        BY <1>2
      <4> QED BY <1>3, <1>8, <1>9, <2>1, <4>1
    <3>2. Carried = {} /\ Queued = {}
      <4>1. Carried \cup Queued = {}
        BY <1>8, <3>1, FS_EmptySet
      <4> QED BY <4>1
    <3>3. Holders = {}
      BY <3>2 DEF Carried
    <3>4. DOMAIN tasks = {}
      BY <3>2 DEF Queued
    <3>5. tasks = <<>> /\ results' = <<>>
      <4>1. Len(tasks) = 0
        BY <1>6, <3>4, LenProperties
      <4> QED BY <1>2, <1>6, <3>1, <4>1, EmptySeq
    <3>6. Posted' = {}
      BY <3>5 DEF Posted
    <3>7. ordered' \cup failed' = SubBatches
      BY <1>3, <1>10, <3>2, <3>6
    <3> QED BY <1>1, <1>3, <2>1, <3>3, <3>5, <3>7 DEF NothingLeftOver
  <2>2. CASE left' # 0
    BY <1>1, <2>2 DEF NothingLeftOver
  <2> QED BY <2>1, <2>2
<1>16. SerialProgress'
  BY <1>1 DEF SerialProgress
<1>17. FailureEarned'
  <2>1. IF r.ok THEN refused[r.idx] < MaxRetries ELSE refused[r.idx] = MaxRetries
    BY <1>2, <1>6 DEF AttemptsCounted, r
  <2> QED BY <1>1, <1>4, <2>1 DEF EmbeddingInv, FailureEarned
<1>18. SlotsBounded' /\ NoSlotWaitsForThread'
  BY <1>3, SlotsStay
<1> QED BY <1>11, <1>12, <1>13, <1>14, <1>15, <1>16, <1>17, <1>18 DEF EmbeddingInv

-----------------------------------------------------------------------------
(* Calls, and the serial loop *)

\* A step that leaves workers and queues alone, outside a concurrent call.
LEMMA QuietStep ==
    ASSUME EmbeddingInv, EmbeddingTypeOK', UNCHANGED <<tasks, worker, results>>,
           caller \notin {"collect", "gather"}, caller' \notin {"collect", "gather"},
           SerialProgress', FailureEarned'
    PROVE  EmbeddingInv'
<1>1. tasks = <<>> /\ results = <<>> /\ Holders = {} /\ In({"gone"}) = Workers
  BY DEF EmbeddingInv, NothingLeftOver
<1>2. Holders' = {} /\ tasks' = <<>> /\ results' = <<>> /\ In({"gone"})' = Workers
  BY <1>1 DEF Holders, In
<1>3. DOMAIN tasks' = {} /\ DOMAIN results' = {}
  BY <1>2
<1>4. Carried' = {} /\ Queued' = {} /\ Posted' = {}
  BY <1>2, <1>3 DEF Carried, Queued, Posted
<1>5. OnePlaceEach' /\ AttemptsCounted'
  BY <1>2, <1>3, <1>4 DEF OnePlaceEach, AttemptsCounted
<1>6. NothingLeftOver' /\ NoSubBatchStranded'
  BY <1>2 DEF NothingLeftOver, NoSubBatchStranded
<1>7. SlotsBounded' /\ NoSlotWaitsForThread'
  BY SlotsStay DEF In
<1> QED BY <1>5, <1>6, <1>7 DEF EmbeddingInv

LEMMA ReturnStep ==
    ASSUME EmbeddingInv, Return
    PROVE  EmbeddingInv'
<1>1. /\ caller = "gather" /\ In({"gone"}) = Workers
      /\ caller' \in {"returned", "raised"} /\ (caller' = "returned" => failed = {})
      /\ UNCHANGED <<tasks, worker, results, left, ordered, failed, refused>>
  BY DEF Return
<1>2. tasks = <<>> /\ results = <<>> /\ Holders = {} /\ ordered \cup failed = SubBatches
  BY <1>1 DEF EmbeddingInv, NothingLeftOver
<1>3. /\ Carried' = Carried /\ Queued' = Queued /\ Posted' = Posted /\ Holders' = Holders
      /\ In({"gone"})' = In({"gone"})
  BY <1>1 DEF Carried, Queued, Posted, Holders, In
<1>4. EmbeddingTypeOK'
  BY <1>1 DEF EmbeddingInv, EmbeddingTypeOK
<1>5. OnePlaceEach' /\ AttemptsCounted'
  BY <1>1, <1>3 DEF EmbeddingInv, OnePlaceEach, AttemptsCounted
<1>6. NothingLeftOver' /\ NoSubBatchStranded' /\ SerialProgress'
  BY <1>1, <1>2, <1>3 DEF NothingLeftOver, NoSubBatchStranded, SerialProgress
<1>7. FailureEarned'
  BY <1>1, <1>2 DEF EmbeddingInv, FailureEarned
<1>8. SlotsBounded' /\ NoSlotWaitsForThread'
  BY <1>1, SlotsStay DEF In
<1> QED BY <1>4, <1>5, <1>6, <1>7, <1>8 DEF EmbeddingInv

\* A new call has one task and one new worker for each sub-batch.
LEMMA CallStep ==
    ASSUME EmbeddingInv, Call
    PROVE  EmbeddingInv'
<1>1. /\ caller' = "collect"
      /\ tasks' = [n \in 1..N |-> [idx |-> n - 1, attempt |-> 0]]
      /\ worker' = [w \in Workers |-> [Gone EXCEPT !.step = "new"]]
      /\ results' = <<>> /\ left' = N /\ ordered' = {} /\ failed' = {}
      /\ refused' = [i \in SubBatches |-> 0]
  BY DEF Call
<1>2. N \in Nat /\ N > 0 /\ MaxRetries \in Nat /\ MaxRetries > 0
  BY EmbeddingAssumption
<1>3. /\ tasks' \in Seq(Task) /\ Len(tasks') = N /\ DOMAIN tasks' = 1..N
      /\ \A n \in 1..N : tasks'[n].idx = n - 1 /\ tasks'[n].attempt = 0
  <2>1. \A n \in 1..N : [idx |-> n - 1, attempt |-> 0] \in Task
    BY <1>2 DEF Task, SubBatches
  <2>2. tasks' \in [1..N -> Task]
    BY <1>1, <2>1
  <2>3. tasks' \in Seq(Task)
    BY <1>2, <2>2, SeqDef
  <2> QED BY <1>1, <1>2, <2>3, LenProperties
<1>4. \A w \in Workers : worker'[w].step = "new" /\ worker'[w] \in WorkerState
  BY <1>1 DEF Gone, WorkerState, WorkerSteps
<1>5. results' \in Seq(Result) /\ Len(results') = 0 /\ DOMAIN results' = {}
  BY <1>1, EmptySeq
<1>6. EmbeddingTypeOK'
  <2>1. worker' \in [Workers -> WorkerState]
    BY <1>1, <1>4
  <2>2. refused' \in [SubBatches -> 0..MaxRetries] /\ left' \in 0..N
    BY <1>1, <1>2
  <2> QED BY <1>1, <1>3, <1>5, <2>1, <2>2 DEF EmbeddingTypeOK
<1>7. Holders' = {} /\ In({"new"})' = Workers /\ In({"slot", "request"})' = {}
  BY <1>4 DEF Holders, In
<1>8. Carried' = {} /\ Posted' = {}
  BY <1>5, <1>7 DEF Carried, Posted
<1>9. Queued' = SubBatches
  <2>1. \A i \in SubBatches : i + 1 \in 1..N /\ (i + 1) - 1 = i
    BY <1>2 DEF SubBatches
  <2>2. \A n \in 1..N : n - 1 \in SubBatches
    BY <1>2 DEF SubBatches
  <2>3. Queued' = {tasks'[n].idx : n \in DOMAIN tasks'}
    BY DEF Queued
  <2>4. ASSUME NEW i \in SubBatches PROVE i \in Queued'
    <3>1. i + 1 \in DOMAIN tasks' /\ tasks'[i + 1].idx = i
      BY <1>3, <2>1
    <3> QED BY <2>3, <3>1
  <2>5. Queued' \subseteq SubBatches
    BY <1>3, <2>2, <2>3
  <2> QED BY <2>4, <2>5
<1>10. Cardinality(SubBatches) = N /\ Cardinality(Workers) = N
  BY <1>2, FS_Interval DEF Workers, SubBatches
<1>11. NoSubBatchStranded'
  <2>1. Cardinality(Carried' \cup Queued') = N
    <3>1. Carried' \cup Queued' = SubBatches
      BY <1>8, <1>9
    <3> QED BY <1>10, <3>1
  <2>2. Len(tasks') <= Cardinality(In({"new"})')
    BY <1>2, <1>3, <1>7, <1>10
  <2>3. left' = Cardinality(Carried' \cup Queued') + Len(results')
    BY <1>1, <1>2, <1>5, <2>1
  <2>4. SubBatches = Carried' \cup Queued' \cup Posted' \cup ordered' \cup failed'
    BY <1>1, <1>8, <1>9
  <2> QED BY <2>2, <2>3, <2>4 DEF NoSubBatchStranded
<1>12. OnePlaceEach'
  <2>1. \A m, n \in DOMAIN tasks' : tasks'[m].idx = tasks'[n].idx => m = n
    BY <1>2, <1>3
  <2> QED BY <1>1, <1>5, <1>7, <1>8, <2>1 DEF OnePlaceEach
<1>13. AttemptsCounted'
  <2>1. \A n \in DOMAIN tasks' : refused'[tasks'[n].idx] = tasks'[n].attempt
    <3> TAKE n \in DOMAIN tasks'
    <3>1. /\ n - 1 \in SubBatches /\ tasks'[n].idx = n - 1 /\ tasks'[n].attempt = 0
      BY <1>2, <1>3 DEF SubBatches
    <3> QED BY <1>1, <3>1
  <2> QED BY <1>5, <1>7, <2>1 DEF AttemptsCounted
<1>14. NothingLeftOver' /\ SerialProgress' /\ FailureEarned'
  BY <1>1 DEF NothingLeftOver, SerialProgress, FailureEarned
<1>15. SlotsBounded' /\ NoSlotWaitsForThread'
  BY <1>7, SlotsStay
<1> QED BY <1>6, <1>11, <1>12, <1>13, <1>14, <1>15 DEF EmbeddingInv

LEMMA SerialCallStep ==
    ASSUME EmbeddingInv, SerialCall
    PROVE  EmbeddingInv'
<1>1. /\ caller \notin {"collect", "gather"} /\ caller' = "serial"
      /\ left' = N /\ ordered' = {} /\ failed' = {}
      /\ refused' = [i \in SubBatches |-> 0] /\ UNCHANGED <<tasks, worker, results>>
  BY DEF SerialCall, NoWorkers
<1>2. N \in Nat /\ MaxRetries \in Nat /\ MaxRetries > 0
  BY EmbeddingAssumption
<1>3. EmbeddingTypeOK'
  BY <1>1, <1>2 DEF EmbeddingInv, EmbeddingTypeOK
<1>4. SerialProgress'
  <2>1. Sending' = 0
    BY <1>1, <1>2 DEF Sending
  <2>2. {i \in SubBatches : i < 0} = {}
    BY <1>2 DEF SubBatches
  <2>3. \A i \in SubBatches : refused'[i] = 0 /\ refused'[i] < MaxRetries
    BY <1>1, <1>2
  <2> QED BY <1>1, <2>1, <2>2, <2>3 DEF SerialProgress
<1>5. FailureEarned'
  BY <1>1 DEF FailureEarned
<1> QED BY <1>1, <1>3, <1>4, <1>5, QuietStep

\* Where the serial loop is: the sub-batch it sends has attempts left and is not
\* settled, and those behind it have not been sent.
LEMMA SerialNow ==
    ASSUME EmbeddingInv, caller = "serial"
    PROVE  /\ N \in Nat /\ left \in 0..N /\ Sending \in 0..N /\ Sending = N - left
           /\ MaxRetries \in Nat /\ MaxRetries > 0
           /\ \A i \in SubBatches : i \in Nat /\ i < N
           /\ refused \in [SubBatches -> 0..MaxRetries]
           /\ ordered \cup failed = {i \in SubBatches : i < Sending}
           /\ \A i \in SubBatches : i >= Sending => refused[i] < MaxRetries
           /\ \A i \in SubBatches : i > Sending => refused[i] = 0
           /\ \A i \in failed : refused[i] = MaxRetries
           /\ \A i \in ordered : refused[i] < MaxRetries
<1>1. N \in Nat /\ left \in 0..N /\ refused \in [SubBatches -> 0..MaxRetries]
  BY EmbeddingAssumption DEF EmbeddingInv, EmbeddingTypeOK
<1>2. Sending \in 0..N /\ Sending = N - left
  BY <1>1 DEF Sending
<1>3. \A i \in SubBatches : i \in Nat /\ i < N
  BY <1>1 DEF SubBatches
<1>4. SerialProgress /\ FailureEarned
  BY DEF EmbeddingInv
<1> QED BY <1>1, <1>2, <1>3, <1>4, EmbeddingAssumption DEF SerialProgress, FailureEarned

\* A sub-batch is settled: the loop sends the next one.
LEMMA Settle ==
    ASSUME EmbeddingInv, caller = "serial", caller' = "serial",
           NEW i \in SubBatches, i = Sending, left > 0, left' = left - 1,
           refused' \in [SubBatches -> 0..MaxRetries],
           \A j \in SubBatches \ {i} : refused'[j] = refused[j],
           \/ ordered' = ordered \cup {i} /\ failed' = failed /\ refused'[i] < MaxRetries
           \/ ordered' = ordered /\ failed' = failed \cup {i} /\ refused'[i] = MaxRetries,
           UNCHANGED <<tasks, worker, results>>
    PROVE  EmbeddingInv'
<1>1. /\ N \in Nat /\ left \in 0..N /\ Sending \in 0..N /\ Sending = N - left
      /\ MaxRetries \in Nat /\ MaxRetries > 0
      /\ \A j \in SubBatches : j \in Nat /\ j < N
      /\ ordered \cup failed = {j \in SubBatches : j < Sending}
      /\ \A j \in SubBatches : j >= Sending => refused[j] < MaxRetries
      /\ \A j \in SubBatches : j > Sending => refused[j] = 0
      /\ \A j \in failed : refused[j] = MaxRetries
      /\ \A j \in ordered : refused[j] < MaxRetries
  BY SerialNow
<1>2. Sending' = Sending + 1 /\ left' \in 0..N
  BY <1>1 DEF Sending
<1>3. ordered' \cup failed' = ordered \cup failed \cup {i}
  OBVIOUS
<1>4. EmbeddingTypeOK'
  <2>1. ordered' \subseteq SubBatches /\ failed' \subseteq SubBatches
    BY DEF EmbeddingInv, EmbeddingTypeOK
  <2> QED BY <1>2, <2>1 DEF EmbeddingInv, EmbeddingTypeOK
<1>5. SerialProgress'
  <2>1. {j \in SubBatches : j < Sending + 1} = {j \in SubBatches : j < Sending} \cup {i}
    BY <1>1
  <2>2. \A j \in SubBatches : j >= Sending + 1 => j > Sending /\ j # i
    BY <1>1
  <2>3. \A j \in SubBatches : j >= Sending + 1 => refused'[j] = 0
    BY <1>1, <2>2
  <2>4. \A j \in SubBatches : j > Sending + 1 => j >= Sending + 1
    BY <1>1
  <2> QED BY <1>1, <1>2, <1>3, <2>1, <2>3, <2>4 DEF SerialProgress
<1>6. FailureEarned'
  <2>1. \A j \in ordered \cup failed : j \in SubBatches \ {i}
    BY <1>1
  <2> QED BY <1>1, <2>1 DEF FailureEarned
<1> QED BY <1>4, <1>5, <1>6, QuietStep

LEMMA SerialFailStep ==
    ASSUME EmbeddingInv, SerialFail
    PROVE  EmbeddingInv'
<1>1. PICK i \in SubBatches :
         /\ caller = "serial" /\ caller' = "serial" /\ left > 0 /\ i = Sending
         /\ refused' = [refused EXCEPT ![i] = @ + 1]
         /\ IF refused[i] + 1 < MaxRetries
            THEN left' = left /\ failed' = failed
            ELSE left' = left - 1 /\ failed' = failed \cup {i}
         /\ ordered' = ordered /\ UNCHANGED <<tasks, worker, results>>
  BY DEF SerialFail, SendsNext, Again, NoWorkers
<1>2. /\ N \in Nat /\ left \in 0..N /\ Sending \in 0..N /\ Sending = N - left
      /\ MaxRetries \in Nat /\ MaxRetries > 0
      /\ \A j \in SubBatches : j \in Nat /\ j < N
      /\ refused \in [SubBatches -> 0..MaxRetries]
      /\ ordered \cup failed = {j \in SubBatches : j < Sending}
      /\ \A j \in SubBatches : j >= Sending => refused[j] < MaxRetries
      /\ \A j \in SubBatches : j > Sending => refused[j] = 0
      /\ \A j \in failed : refused[j] = MaxRetries
      /\ \A j \in ordered : refused[j] < MaxRetries
  BY <1>1, SerialNow
<1>3. refused[i] \in Nat /\ refused[i] < MaxRetries
  BY <1>1, <1>2
<1>4. /\ refused' \in [SubBatches -> 0..MaxRetries] /\ refused'[i] = refused[i] + 1
      /\ \A j \in SubBatches \ {i} : refused'[j] = refused[j]
  BY <1>1, <1>2, <1>3
<1>5. CASE refused[i] + 1 < MaxRetries
  <2>1. left' = left /\ failed' = failed /\ Sending' = Sending
    BY <1>1, <1>5 DEF Sending
  <2>2. EmbeddingTypeOK'
    BY <1>1, <1>4, <2>1 DEF EmbeddingInv, EmbeddingTypeOK
  <2>3. \A j \in ordered \cup failed : j \in SubBatches \ {i}
    BY <1>1, <1>2
  <2>4. FailureEarned'
    BY <1>1, <1>2, <1>4, <2>1, <2>3 DEF FailureEarned
  <2>5. \A j \in SubBatches : j > Sending => j # i
    BY <1>1, <1>2
  <2>6. SerialProgress'
    BY <1>1, <1>2, <1>4, <1>5, <2>1, <2>5 DEF SerialProgress
  <2> QED BY <1>1, <2>2, <2>4, <2>6, QuietStep
<1>6. CASE ~(refused[i] + 1 < MaxRetries)
  <2>1. refused'[i] = MaxRetries
    BY <1>2, <1>3, <1>4, <1>6
  <2> QED BY <1>1, <1>4, <1>6, <2>1, Settle
<1> QED BY <1>5, <1>6

LEMMA SerialLoopStep ==
    ASSUME EmbeddingInv, SerialStep
    PROVE  EmbeddingInv'
<1>1. CASE SerialSucceed
  <2>1. PICK i \in SubBatches :
           /\ caller = "serial" /\ caller' = "serial" /\ left > 0 /\ i = Sending
           /\ ordered' = ordered \cup {i} /\ failed' = failed /\ left' = left - 1
           /\ refused' = refused /\ UNCHANGED <<tasks, worker, results>>
    BY <1>1 DEF SerialSucceed, SendsNext, NoWorkers
  <2>2. /\ refused' \in [SubBatches -> 0..MaxRetries] /\ refused'[i] < MaxRetries
        /\ \A j \in SubBatches \ {i} : refused'[j] = refused[j]
    <3>1. i >= Sending /\ refused \in [SubBatches -> 0..MaxRetries]
      BY <2>1, SerialNow
    <3> QED BY <2>1, <3>1, SerialNow
  <2> QED BY <2>1, <2>2, Settle
<1>2. CASE SerialFail
  BY <1>2, SerialFailStep
<1>3. CASE SerialEscape \/ SerialReturn
  <2>1. /\ caller = "serial" /\ caller' \in {"returned", "raised"}
        /\ caller' = "returned" => left = 0 /\ failed = {}
        /\ UNCHANGED <<left, ordered, failed, refused, tasks, worker, results>>
    BY <1>3 DEF SerialEscape, SerialReturn, NoWorkers
  <2>2. EmbeddingTypeOK' /\ SerialProgress'
    BY <2>1 DEF EmbeddingInv, EmbeddingTypeOK, SerialProgress
  <2>3. left = 0 => ordered \cup failed = SubBatches
    <3> SUFFICES ASSUME left = 0 PROVE ordered \cup failed = SubBatches
      OBVIOUS
    <3>1. Sending = N /\ ordered \cup failed = {i \in SubBatches : i < Sending}
      BY <2>1, SerialNow
    <3>2. \A i \in SubBatches : i < N
      BY <2>1, SerialNow
    <3> QED BY <3>1, <3>2
  <2>4. FailureEarned'
    BY <2>1, <2>3 DEF EmbeddingInv, FailureEarned
  <2> QED BY <2>1, <2>2, <2>4, QuietStep
<1> QED BY <1>1, <1>2, <1>3 DEF SerialStep

-----------------------------------------------------------------------------
(* The theorems *)

LEMMA EmbeddingInvInit == Init => EmbeddingInv
<1> SUFFICES ASSUME Init PROVE EmbeddingInv
  OBVIOUS
<1>1. /\ caller = "idle" /\ tasks = <<>> /\ results = <<>> /\ worker = [w \in Workers |-> Gone]
      /\ left = 0 /\ ordered = {} /\ failed = {} /\ refused = [i \in SubBatches |-> 0]
  BY DEF Init
<1>2. \A w \in Workers : worker[w].step = "gone"
  BY <1>1, StatesTyped
<1>3. EmbeddingTypeOK
  <2>1. tasks \in Seq(Task) /\ results \in Seq(Result)
    BY <1>1, EmptySeq
  <2>2. worker \in [Workers -> WorkerState]
    BY <1>1, StatesTyped
  <2> QED BY <1>1, <2>1, <2>2, EmbeddingAssumption DEF EmbeddingTypeOK
<1>4. Holders = {} /\ In({"gone"}) = Workers /\ In({"slot", "request"}) = {} /\ In({"slot"}) = {}
  BY <1>2 DEF Holders, In
<1>5. DOMAIN tasks = {} /\ DOMAIN results = {}
  BY <1>1
<1>6. Carried = {} /\ Queued = {} /\ Posted = {}
  BY <1>4, <1>5 DEF Carried, Queued, Posted
<1>7. OnePlaceEach /\ AttemptsCounted
  BY <1>1, <1>4, <1>5, <1>6 DEF OnePlaceEach, AttemptsCounted
<1>8. NoSubBatchStranded /\ NothingLeftOver /\ SerialProgress /\ FailureEarned
  BY <1>1, <1>4 DEF NoSubBatchStranded, NothingLeftOver, SerialProgress, FailureEarned
<1>9. SlotsBounded /\ NoSlotWaitsForThread
  BY <1>4, FS_EmptySet, EmbeddingAssumption DEF SlotsBounded, NoSlotWaitsForThread
<1> QED BY <1>3, <1>7, <1>8, <1>9 DEF EmbeddingInv

LEMMA EmbeddingInvStep == EmbeddingInv /\ [Next]_vars => EmbeddingInv'
<1> SUFFICES ASSUME EmbeddingInv, [Next]_vars PROVE EmbeddingInv'
  OBVIOUS
<1>1. ASSUME NEW w \in Workers, WorkerStep(w) PROVE EmbeddingInv'
  BY <1>1, FirstTurnStep, AcquireStep, SendRequestStep, SucceedStep, FailStep DEF WorkerStep
<1>2. CASE UNCHANGED vars
  <2>1. /\ caller' = caller /\ tasks' = tasks /\ worker' = worker /\ results' = results
        /\ left' = left /\ ordered' = ordered /\ failed' = failed /\ refused' = refused
    BY <1>2 DEF vars
  <2>2. /\ \A steps : In(steps)' = In(steps)
        /\ Holders' = Holders /\ Carried' = Carried /\ Queued' = Queued /\ Posted' = Posted
    BY <2>1 DEF In, Holders, Carried, Queued, Posted
  <2>3. EmbeddingTypeOK' /\ NoSubBatchStranded'
    BY <2>1, <2>2 DEF EmbeddingInv, EmbeddingTypeOK, NoSubBatchStranded
  <2>4. OnePlaceEach' /\ AttemptsCounted'
    BY <2>1, <2>2 DEF EmbeddingInv, OnePlaceEach, AttemptsCounted
  <2>5. NothingLeftOver' /\ SerialProgress' /\ FailureEarned'
    BY <2>1, <2>2 DEF EmbeddingInv, NothingLeftOver, SerialProgress, FailureEarned, Sending
  <2>6. SlotsBounded' /\ NoSlotWaitsForThread'
    BY <2>1, SlotsStay DEF In
  <2> QED BY <2>3, <2>4, <2>5, <2>6 DEF EmbeddingInv
<1> QED BY <1>1, <1>2, CallStep, CollectStep, ReturnStep, SerialCallStep, SerialLoopStep DEF Next

\* Both calls keep the account of every sub-batch, slot and attempt: in the
\* concurrent one no retry is ever left in the queue with nobody to take it, and
\* a coroutine with the semaphore never waits for a thread.
THEOREM EmbeddingInvariant == Spec => []EmbeddingInv
<1> QED BY EmbeddingInvInit, EmbeddingInvStep, PTL DEF Spec

\* A sub-batch is given up after exactly MaxRetries requests that raised, and a
\* call that returns has the vectors of every one.
THEOREM FailuresEarned == Spec => []FailureEarned
<1>1. EmbeddingInv => FailureEarned
  BY DEF EmbeddingInv
<1> QED BY <1>1, EmbeddingInvariant, PTL

-----------------------------------------------------------------------------
(* The promise to the caller                                               *)

\* The sub-batches with an answer have attempts left, and none is given up.
LEMMA AnsweredAreApart ==
    ASSUME EmbeddingInv
    PROVE  /\ Answered \subseteq SubBatches /\ \A i \in Answered : refused[i] < MaxRetries
           /\ Answered \subseteq ordered \cup Posted
           /\ \A i \in SubBatches : refused[i] \in Nat /\ refused[i] <= MaxRetries
<1>1. results \in Seq(Result) /\ ordered \subseteq SubBatches
  BY DEF EmbeddingInv, EmbeddingTypeOK
<1>2. \A n \in DOMAIN results : results[n].idx \in SubBatches
  <2> TAKE n \in DOMAIN results
  <2>1. results[n] \in Result
    BY <1>1, ElementOfSeq, LenProperties
  <2> QED BY <2>1 DEF Result
<1>3. AttemptsCounted /\ FailureEarned
  BY DEF EmbeddingInv
<1>4. \A i \in SubBatches : refused[i] \in Nat /\ refused[i] <= MaxRetries
  BY EmbeddingAssumption DEF EmbeddingInv, EmbeddingTypeOK
<1>5. Answered \subseteq ordered \cup Posted
  BY DEF Answered, Posted
<1>6. \A i \in Answered : refused[i] < MaxRetries
  BY <1>3 DEF Answered, AttemptsCounted, FailureEarned
<1> QED BY <1>1, <1>2, <1>4, <1>5, <1>6 DEF Answered

\* What a result that is posted adds to the answers.
LEMMA PostedAnswers ==
    ASSUME EmbeddingInv, NEW r \in Result, results' = Append(results, r), ordered' = ordered
    PROVE  Answered' = IF r.ok THEN Answered \cup {r.idx} ELSE Answered
<1> DEFINE good == {m \in DOMAIN results : results[m].ok}
           goodNext == {m \in DOMAIN results' : results'[m].ok}
<1>1. results \in Seq(Result) /\ Len(results) \in Nat
  BY LenProperties DEF EmbeddingInv, EmbeddingTypeOK
<1>2. /\ DOMAIN results = 1..Len(results) /\ DOMAIN results' = 1..(Len(results) + 1)
      /\ results'[Len(results) + 1] = r
      /\ \A m \in DOMAIN results : results'[m] = results[m]
  BY <1>1, AppendProperties, LenProperties
<1>3. goodNext = IF r.ok THEN good \cup {Len(results) + 1} ELSE good
  <2>1. DOMAIN results' = DOMAIN results \cup {Len(results) + 1}
    BY <1>1, <1>2
  <2>2. Len(results) + 1 \notin DOMAIN results
    BY <1>1, <1>2
  <2> QED BY <1>2, <2>1, <2>2
<1>4. {results'[n].idx : n \in goodNext} =
          IF r.ok THEN {results[n].idx : n \in good} \cup {r.idx} ELSE {results[n].idx : n \in good}
  BY <1>2, <1>3
<1> QED BY <1>4 DEF Answered

\* A request that is under way is for a sub-batch that may be asked for.
LEMMA RequestIsAskable ==
    ASSUME EmbeddingInv, NEW w \in Workers, worker[w].step = "request"
    PROVE  /\ worker[w].task \in Task /\ worker[w].task.idx \in SubBatches
           /\ refused[worker[w].task.idx] = worker[w].task.attempt
           /\ caller = "collect" /\ Promise!Askable(worker[w].task.idx)
<1> DEFINE i == worker[w].task.idx
<1>1. w \in Holders
  BY DEF Holders, In
<1>2. caller = "collect"
  BY <1>1, WorkersOfACall
<1>3. /\ worker[w].task \in Task /\ refused[i] = worker[w].task.attempt
      /\ i \notin Posted \cup ordered
  BY <1>1, HolderAlone
<1>4. i \in SubBatches /\ worker[w].task.attempt \in 0..(MaxRetries - 1)
  BY <1>3, TaskFields
<1>5. refused[i] < MaxRetries
  BY <1>3, <1>4, EmbeddingAssumption
<1>6. i \notin Answered
  BY <1>3, AnsweredAreApart
<1> QED BY <1>2, <1>3, <1>4, <1>5, <1>6
    DEF Promise!Askable, Promise!Calling, Promise!Unsettled, Phase

\* The thread's answer is the server's.
LEMMA SucceedAnswers ==
    ASSUME EmbeddingInv, NEW w \in Workers, Succeed(w)
    PROVE  Promise!Next
<1> DEFINE i == worker[w].task.idx
<1>1. /\ worker[w].step = "request" /\ results' = Append(results, [idx |-> i, ok |-> TRUE])
      /\ UNCHANGED <<caller, ordered, refused>>
  BY DEF Succeed
<1>2. i \in SubBatches /\ Promise!Askable(i)
  BY <1>1, RequestIsAskable
<1>3. [idx |-> i, ok |-> TRUE] \in Result
  BY <1>2 DEF Result
<1>4. Answered' = Answered \cup {i}
  BY <1>1, <1>3, PostedAnswers
<1>5. Promise!Answer(i)
  BY <1>1, <1>2, <1>4 DEF Promise!Answer, Phase
<1> QED BY <1>2, <1>5 DEF Promise!Next

\* An attempt that failed is one refusal, whether it is repeated or the last.
LEMMA FailRefuses ==
    ASSUME EmbeddingInv, NEW w \in Workers, Fail(w)
    PROVE  Promise!Next
<1> DEFINE i == worker[w].task.idx
<1>1. /\ worker[w].step = "request"
      /\ refused' = [refused EXCEPT ![i] = IF @ < MaxRetries THEN @ + 1 ELSE @]
      /\ results' = results \/ results' = Append(results, [idx |-> i, ok |-> FALSE])
      /\ UNCHANGED <<caller, ordered>>
  BY DEF Fail
<1>2. i \in SubBatches /\ Promise!Askable(i)
  BY <1>1, RequestIsAskable
<1>3. refused \in [SubBatches -> 0..MaxRetries] /\ refused[i] < MaxRetries
  BY <1>2 DEF Promise!Askable, Promise!Unsettled, EmbeddingInv, EmbeddingTypeOK
<1>4. refused' = [refused EXCEPT ![i] = @ + 1]
  BY <1>1, <1>2, <1>3
<1>5. [idx |-> i, ok |-> FALSE] \in Result
  BY <1>2 DEF Result
<1>6. Answered' = Answered
  <2>1. CASE results' = results
    BY <1>1, <2>1 DEF Answered
  <2>2. CASE results' = Append(results, [idx |-> i, ok |-> FALSE])
    BY <1>1, <1>5, <2>2, PostedAnswers
  <2> QED BY <1>1, <2>1, <2>2
<1>7. Promise!Refuse(i)
  BY <1>1, <1>2, <1>4, <1>6 DEF Promise!Refuse, Phase
<1> QED BY <1>2, <1>7 DEF Promise!Next

\* The collector learns what the server has said before.
LEMMA CollectStutters ==
    ASSUME EmbeddingInv, Collect
    PROVE  UNCHANGED Promise!callVars
<1>1. /\ results # <<>> /\ results' = Tail(results) /\ refused' = refused
      /\ IF Head(results).ok THEN ordered' = ordered \cup {Head(results).idx}
                             ELSE ordered' = ordered
      /\ caller = "collect" /\ caller' \in {"collect", "gather"}
  BY DEF Collect
<1>2. results \in Seq(Result) /\ Len(results) \in Nat /\ DOMAIN results = 1..Len(results)
  BY LenProperties DEF EmbeddingInv, EmbeddingTypeOK
<1>3. /\ Head(results) = results[1] /\ 1 \in DOMAIN results
      /\ Len(results') = Len(results) - 1 /\ DOMAIN results' = 1..(Len(results) - 1)
      /\ \A n \in 1..(Len(results) - 1) : results'[n] = results[n + 1]
  BY <1>1, <1>2, HeadTailProperties, LenProperties, EmptySeq
<1>4. \A n \in DOMAIN results' : n + 1 \in DOMAIN results /\ results'[n] = results[n + 1]
  BY <1>2, <1>3
<1>5. \A n \in DOMAIN results : n = 1 \/ (n - 1 \in DOMAIN results' /\ results'[n - 1] = results[n])
  <2> TAKE n \in DOMAIN results
  <2>1. CASE n # 1
    <3>1. n - 1 \in 1..(Len(results) - 1) /\ (n - 1) + 1 = n
      BY <1>2, <2>1
    <3> QED BY <1>3, <3>1
  <2> QED BY <2>1
<1>6. Answered' = Answered
  <2>1. ASSUME NEW i \in Answered PROVE i \in Answered'
    <3>1. CASE i \in ordered
      BY <1>1, <3>1 DEF Answered
    <3>2. ASSUME NEW n \in DOMAIN results, results[n].ok, i = results[n].idx
          PROVE  i \in Answered'
      <4>1. CASE n = 1
        BY <1>1, <1>3, <3>2, <4>1 DEF Answered
      <4>2. CASE n - 1 \in DOMAIN results' /\ results'[n - 1] = results[n]
        BY <3>2, <4>2 DEF Answered
      <4> QED BY <1>5, <4>1, <4>2
    <3> QED BY <3>1, <3>2 DEF Answered
  <2>2. ASSUME NEW i \in Answered' PROVE i \in Answered
    <3>1. ordered' \subseteq Answered
      BY <1>1, <1>3 DEF Answered
    <3>2. \A n \in DOMAIN results' : results'[n].ok => results'[n].idx \in Answered
      BY <1>4 DEF Answered
    <3> QED BY <2>2, <3>1, <3>2 DEF Answered
  <2> QED BY <2>1, <2>2
<1> QED BY <1>1, <1>6 DEF Promise!callVars, Phase

\* The call is over when every worker has left: each sub-batch is answered or
\* was refused to the last.
LEMMA ReturnEnds ==
    ASSUME EmbeddingInv, Return
    PROVE  Promise!Next
<1>1. /\ caller = "gather" /\ caller' = IF failed = {} THEN "returned" ELSE "raised"
      /\ UNCHANGED <<results, ordered, refused>>
  BY DEF Return
<1>2. results = <<>> /\ ordered \cup failed = SubBatches
  BY <1>1 DEF EmbeddingInv, NothingLeftOver
<1>3. Answered = ordered /\ Answered' = Answered
  BY <1>1, <1>2 DEF Answered
<1>4. MaxRetries \in Nat /\ \A i \in failed : refused[i] = MaxRetries
  BY EmbeddingAssumption DEF EmbeddingInv, FailureEarned
<1>5. \A i \in ordered : refused[i] < MaxRetries
  BY DEF EmbeddingInv, FailureEarned
<1>6. Phase = "concurrent" /\ Phase' = caller'
  BY <1>1 DEF Phase
<1>7. CASE failed = {}
  <2>1. Promise!Return
    BY <1>1, <1>2, <1>3, <1>6, <1>7 DEF Promise!Return, Promise!Calling
  <2> QED BY <2>1 DEF Promise!Next
<1>8. CASE failed # {}
  <2>1. Answered # SubBatches
    BY <1>2, <1>3, <1>4, <1>5, <1>8
  <2>2. Promise!Unsettled = {}
    BY <1>2, <1>3, <1>4 DEF Promise!Unsettled
  <2>3. Promise!Raise
    BY <1>1, <1>3, <1>6, <1>8, <2>1, <2>2 DEF Promise!Raise, Promise!Calling
  <2> QED BY <2>3 DEF Promise!Next
<1> QED BY <1>7, <1>8

\* A new call forgets what the last one was told.
LEMMA CallBegins ==
    ASSUME EmbeddingInv, Call \/ SerialCall
    PROVE  Promise!Next
<1>1. /\ caller \in {"idle", "returned", "raised"} /\ caller' \in {"collect", "serial"}
      /\ ordered' = {} /\ refused' = [i \in SubBatches |-> 0]
      /\ results' \in {results, <<>>}
  BY DEF Call, SerialCall, NoWorkers
<1>2. results' = <<>>
  BY <1>1 DEF EmbeddingInv, NothingLeftOver
<1>3. Answered' = {}
  BY <1>1, <1>2 DEF Answered
<1>4. Promise!Begin
  BY <1>1, <1>3 DEF Promise!Begin, Promise!Calling, Phase
<1> QED BY <1>4 DEF Promise!Next

\* The loop sends the first sub-batch that is not settled.
LEMMA SerialIsAskable ==
    ASSUME EmbeddingInv, caller = "serial", NEW i \in SubBatches, i = Sending
    PROVE  Answered = ordered /\ Promise!Askable(i) /\ i \notin failed
<1>1. results = <<>>
  BY DEF EmbeddingInv, NothingLeftOver
<1>2. Answered = ordered
  BY <1>1 DEF Answered
<1>3. /\ Sending \in 0..N /\ MaxRetries \in Nat /\ N \in Nat
      /\ \A j \in SubBatches : j \in Nat
      /\ ordered \cup failed = {j \in SubBatches : j < Sending}
      /\ \A j \in failed : refused[j] = MaxRetries
      /\ refused[i] < MaxRetries
  BY SerialNow
<1>4. i \notin ordered \cup failed
  BY <1>3
<1>5. i \in Promise!Unsettled
  BY <1>2, <1>3, <1>4 DEF Promise!Unsettled
<1>6. \A j \in Promise!Unsettled : j \notin ordered \cup failed /\ j \in SubBatches
  BY <1>2, <1>3 DEF Promise!Unsettled
<1>7. \A j \in Promise!Unsettled : i <= j
  BY <1>3, <1>6
<1> QED BY <1>2, <1>4, <1>5, <1>7 DEF Promise!Askable, Promise!Calling, Phase

\* Each request of the loop is one answer or one refusal, and its ends are the
\* call's.
LEMMA SerialPromise ==
    ASSUME EmbeddingInv, SerialStep
    PROVE  Promise!Next
<1>1. results' = results /\ results = <<>> /\ caller = "serial"
  BY DEF SerialStep, SerialSucceed, SerialFail, SerialEscape, SerialReturn, SendsNext,
         NoWorkers, EmbeddingInv, NothingLeftOver
<1>2. Answered = ordered /\ Answered' = ordered'
  BY <1>1 DEF Answered
<1>3. Phase = "serial" /\ Phase' = IF caller' \in {"collect", "gather"} THEN "concurrent" ELSE caller'
  BY <1>1 DEF Phase
<1>4. CASE SerialSucceed
  <2>1. PICK i \in SubBatches : /\ i = Sending /\ ordered' = ordered \cup {i}
                                /\ UNCHANGED <<caller, refused>>
    BY <1>4 DEF SerialSucceed, SendsNext
  <2>2. Promise!Answer(i)
    BY <1>1, <1>2, <1>3, <2>1, SerialIsAskable DEF Promise!Answer
  <2> QED BY <2>2 DEF Promise!Next
<1>5. CASE SerialFail
  <2>1. PICK i \in SubBatches : /\ i = Sending /\ refused' = [refused EXCEPT ![i] = @ + 1]
                                /\ UNCHANGED <<caller, ordered>>
    BY <1>5 DEF SerialFail, SendsNext
  <2>2. Promise!Refuse(i)
    BY <1>1, <1>2, <1>3, <2>1, SerialIsAskable DEF Promise!Refuse
  <2> QED BY <2>2 DEF Promise!Next
<1>6. CASE SerialEscape
  <2>1. left > 0 /\ caller' = "raised" /\ UNCHANGED <<ordered, refused>>
    BY <1>6 DEF SerialEscape
  <2>2. Sending \in SubBatches
    BY <1>1, <2>1, SerialNow DEF SubBatches
  <2>3. Sending \notin ordered
    BY <1>1, <2>2, SerialNow
  <2>4. Promise!Raise
    BY <1>2, <1>3, <2>1, <2>2, <2>3 DEF Promise!Raise, Promise!Calling
  <2> QED BY <2>4 DEF Promise!Next
<1>7. CASE SerialReturn
  <2>1. /\ left = 0 /\ caller' = IF failed = {} THEN "returned" ELSE "raised"
        /\ UNCHANGED <<ordered, refused>>
    BY <1>7 DEF SerialReturn
  <2>2. ordered \cup failed = SubBatches
    <3>1. Sending = N /\ \A i \in SubBatches : i < N
      BY <1>1, <2>1, SerialNow
    <3>2. ordered \cup failed = {i \in SubBatches : i < Sending}
      BY <1>1, SerialNow
    <3> QED BY <3>1, <3>2
  <2>3. \A i \in failed : i \notin ordered
    BY EmbeddingAssumption DEF EmbeddingInv, FailureEarned
  <2>4. CASE failed = {}
    <3>1. Promise!Return
      BY <1>2, <1>3, <2>1, <2>2, <2>4 DEF Promise!Return, Promise!Calling
    <3> QED BY <3>1 DEF Promise!Next
  <2>5. CASE failed # {}
    <3>1. ordered # SubBatches
      BY <2>2, <2>3, <2>5
    <3>2. Promise!Raise
      BY <1>2, <1>3, <2>1, <2>5, <3>1 DEF Promise!Raise, Promise!Calling
    <3> QED BY <3>2 DEF Promise!Next
  <2> QED BY <2>4, <2>5
<1> QED BY <1>4, <1>5, <1>6, <1>7 DEF SerialStep

\* Both calls do nothing but what EmbeddingCall allows, whatever the workers, the
\* queues, the semaphore and the collector do in between: a sub-batch is asked
\* for until it is answered or was refused MaxRetries times, and never after.
THEOREM ClientKeepsPromise == Spec => KeepsPromise
<1>1. Init => Promise!Init
  BY DEF Init, Promise!Init, Phase, Answered
<1>2. EmbeddingInv /\ [Next]_vars => [Promise!Next]_(Promise!callVars)
  <2> SUFFICES ASSUME EmbeddingInv, [Next]_vars PROVE [Promise!Next]_(Promise!callVars)
    OBVIOUS
  <2>1. ASSUME NEW w \in Workers, FirstTurn(w) \/ Acquire(w) \/ SendRequest(w)
        PROVE  UNCHANGED Promise!callVars
    BY <2>1 DEF FirstTurn, Acquire, SendRequest, Promise!callVars, Phase, Answered
  <2>2. ASSUME NEW w \in Workers, WorkerStep(w)
        PROVE  Promise!Next \/ UNCHANGED Promise!callVars
    BY <2>1, <2>2, SucceedAnswers, FailRefuses DEF WorkerStep
  <2>3. CASE UNCHANGED vars
    BY <2>3 DEF vars, Promise!callVars, Phase, Answered
  <2> QED BY <2>2, <2>3, CallBegins, CollectStutters, ReturnEnds, SerialPromise DEF Next
<1> QED BY <1>1, <1>2, EmbeddingInvariant, PTL DEF Spec, KeepsPromise, Promise!Spec

-----------------------------------------------------------------------------
(* What a document is mapped to *)

\* A candidate and an edge, as _map makes them.
Candidates == {c \in [id : Ids, label : Labels, name : Names, aliases : Seq(Names), stub : BOOLEAN] :
                  c.id = <<c.label, Slug[c.name]>>}
EdgeKeys == Ids \X Relations \X Ids

\* Two sequences, one behind the other.
LEMMA SideBySide ==
    ASSUME NEW S, NEW s \in Seq(S), NEW t \in Seq(S)
    PROVE  /\ s \o t \in Seq(S) /\ Len(s \o t) = Len(s) + Len(t)
           /\ \A i \in 1..(Len(s) + Len(t)) : (s \o t)[i] = IF i <= Len(s) THEN s[i] ELSE t[i - Len(s)]
<1>1. s \o t \in Seq(S) /\ Len(s \o t) = Len(s) + Len(t)
  OBVIOUS
<1>2. \A i \in 1..(Len(s) + Len(t)) : (s \o t)[i] = IF i <= Len(s) THEN s[i] ELSE t[i - Len(s)]
  BY ConcatProperties, Zenon
<1> QED BY <1>1, <1>2

LEMMA CandidateFields ==
    ASSUME NEW c \in Candidates
    PROVE  /\ c.id \in Ids /\ c.label \in Labels /\ c.name \in Names
           /\ c.aliases \in Seq(Names) /\ c.stub \in BOOLEAN
           /\ c.id = <<c.label, Slug[c.name]>> /\ c.id[1] = c.label /\ c.id[2] = Slug[c.name]
BY DEF Candidates

\* An identifier is a label and the slug of some name.
LEMMA IdFields ==
    ASSUME NEW id \in Ids
    PROVE  /\ id = <<id[1], id[2]>> /\ id[1] \in Labels
           /\ \E n \in Names : id[2] = Slug[n]
BY DEF Ids

LEMMA NodeIdIsId ==
    ASSUME NEW label \in Labels, NEW name \in Names
    PROVE  NodeId(label, name) \in Ids
BY DEF NodeId, Ids

LEMMA MadeCandidates ==
    /\ \A label \in Labels : \A item \in Items : Candidate(label, item) \in Candidates
    /\ \A name \in Names : Stub(name) \in Candidates
<1>1. ASSUME NEW label \in Labels, NEW item \in Items PROVE Candidate(label, item) \in Candidates
  <2>1. item.name \in Names /\ item.aliases \in Seq(Names)
    BY DEF Items
  <2> QED BY <2>1, NodeIdIsId DEF Candidate, Candidates, NodeId
<1>2. ASSUME NEW name \in Names PROVE Stub(name) \in Candidates
  <2>1. "Dish" \in Labels /\ <<>> \in Seq(Names)
    BY DEF Labels
  <2> QED BY <2>1, NodeIdIsId DEF Stub, Candidates, NodeId
<1> QED BY <1>1, <1>2

\* The stubs of the rows are two for each row: those of row k are at 2k-1 and 2k.
LEMMA StubsTyped ==
    ASSUME NEW rows \in Seq(Rows)
    PROVE  /\ StubsOf(rows) \in Seq(Candidates) /\ Len(StubsOf(rows)) = 2 * Len(rows)
           /\ \A k \in DOMAIN rows : /\ StubsOf(rows)[2 * k - 1] = Stub(rows[k].from)
                                     /\ StubsOf(rows)[2 * k] = Stub(rows[k].to)
<1>1. Len(rows) \in Nat /\ DOMAIN rows = 1..Len(rows) /\ \A k \in DOMAIN rows : rows[k] \in Rows
  BY ElementOfSeq, LenProperties
<1>2. \A k \in DOMAIN rows : rows[k].from \in Names /\ rows[k].to \in Names
  BY <1>1 DEF Rows
<1>3. ASSUME NEW n \in 1..(2 * Len(rows)) PROVE StubsOf(rows)[n] \in Candidates
  <2>1. CASE n % 2 = 1
    <3>1. (n + 1) \div 2 \in DOMAIN rows
      BY <1>1, <2>1
    <3>2. StubsOf(rows)[n] = Stub(rows[(n + 1) \div 2].from)
      BY <2>1 DEF StubsOf
    <3> QED BY <3>1, <3>2, <1>2, MadeCandidates
  <2>2. CASE n % 2 # 1
    <3>1. n \div 2 \in DOMAIN rows
      BY <1>1, <2>2
    <3>2. StubsOf(rows)[n] = Stub(rows[n \div 2].to)
      BY <2>2 DEF StubsOf
    <3> QED BY <3>1, <3>2, <1>2, MadeCandidates
  <2> QED BY <2>1, <2>2
<1>4. 2 * Len(rows) \in Nat /\ StubsOf(rows) \in [1..(2 * Len(rows)) -> Candidates]
  BY <1>1, <1>3 DEF StubsOf
<1>5. StubsOf(rows) \in Seq(Candidates) /\ Len(StubsOf(rows)) = 2 * Len(rows)
  BY <1>4, SeqDef, LenProperties
<1>6. ASSUME NEW k \in DOMAIN rows
      PROVE  StubsOf(rows)[2 * k - 1] = Stub(rows[k].from) /\ StubsOf(rows)[2 * k] = Stub(rows[k].to)
  <2>1. /\ 2 * k - 1 \in 1..(2 * Len(rows)) /\ 2 * k \in 1..(2 * Len(rows))
        /\ (2 * k - 1) % 2 = 1 /\ (2 * k) % 2 # 1
        /\ ((2 * k - 1) + 1) \div 2 = k /\ (2 * k) \div 2 = k
    <3>1. k \in Nat /\ 1 <= k /\ k <= Len(rows)
      BY <1>1
    <3>2. (2 * k - 1) % 2 = 1 /\ ((2 * k - 1) + 1) \div 2 = k
      BY <3>1
    <3>3. (2 * k) % 2 = 0 /\ (2 * k) \div 2 = k
      BY <3>1
    <3>4. 2 * k - 1 \in 1..(2 * Len(rows)) /\ 2 * k \in 1..(2 * Len(rows))
      BY <3>1, <1>1
    <3> QED BY <3>2, <3>3, <3>4
  <2> QED BY <2>1 DEF StubsOf
<1> QED BY <1>5, <1>6

\* The candidates of a document come from its dish, its ingredients and its rows.
LEMMA MappedNodes ==
    ASSUME NEW d \in Readable
    PROVE  LET all == CandidatesOf[d]
               p == Payload[d]
           IN /\ all \in Seq(Candidates) /\ Len(all) > 0
              /\ \E n \in DOMAIN all : all[n].id = NodeId("Dish", p.dish.name)
              /\ \A k \in DOMAIN p.ingredients :
                    \E n \in DOMAIN all : all[n].id = NodeId("Ingredient", p.ingredients[k].name)
              /\ \A k \in DOMAIN p.relations :
                    /\ \E n \in DOMAIN all : all[n].id = NodeId("Dish", p.relations[k].from)
                    /\ \E n \in DOMAIN all : all[n].id = NodeId("Dish", p.relations[k].to)
<1> DEFINE p == Payload[d]
           dish == <<Candidate("Dish", p.dish)>>
           items == [n \in DOMAIN p.ingredients |-> Candidate("Ingredient", p.ingredients[n])]
           stubs == StubsOf(p.relations)
           all == CandidatesOf[d]
<1>1. p.dish \in Items /\ p.ingredients \in Seq(Items) /\ p.relations \in Seq(Rows)
  BY GraphAssumption
<1>2. dish \in Seq(Candidates) /\ Len(dish) = 1 /\ dish[1].id = NodeId("Dish", p.dish.name)
  <2>1. Candidate("Dish", p.dish) \in Candidates
    BY <1>1, MadeCandidates DEF Labels
  <2> QED BY <2>1 DEF Candidate
<1>3. /\ items \in Seq(Candidates) /\ Len(items) = Len(p.ingredients)
      /\ Len(p.ingredients) \in Nat /\ DOMAIN p.ingredients = 1..Len(p.ingredients)
      /\ \A k \in DOMAIN p.ingredients : items[k].id = NodeId("Ingredient", p.ingredients[k].name)
  <2>1. /\ Len(p.ingredients) \in Nat /\ DOMAIN p.ingredients = 1..Len(p.ingredients)
        /\ \A k \in DOMAIN p.ingredients : p.ingredients[k] \in Items
    BY <1>1, ElementOfSeq, LenProperties
  <2>2. \A k \in DOMAIN p.ingredients : Candidate("Ingredient", p.ingredients[k]) \in Candidates
    BY <2>1, MadeCandidates DEF Labels
  <2>3. items \in [1..Len(p.ingredients) -> Candidates]
    BY <2>1, <2>2
  <2>4. items \in Seq(Candidates) /\ Len(items) = Len(p.ingredients)
    BY <2>1, <2>3, SeqDef, LenProperties
  <2> QED BY <2>1, <2>4 DEF Candidate
<1>4. /\ stubs \in Seq(Candidates) /\ Len(stubs) = 2 * Len(p.relations)
      /\ Len(p.relations) \in Nat /\ DOMAIN p.relations = 1..Len(p.relations)
      /\ \A k \in DOMAIN p.relations : /\ stubs[2 * k - 1].id = NodeId("Dish", p.relations[k].from)
                                       /\ stubs[2 * k].id = NodeId("Dish", p.relations[k].to)
  <2>1. Len(p.relations) \in Nat /\ DOMAIN p.relations = 1..Len(p.relations)
    BY <1>1, LenProperties
  <2>2. /\ stubs \in Seq(Candidates) /\ Len(stubs) = 2 * Len(p.relations)
        /\ \A k \in DOMAIN p.relations : /\ stubs[2 * k - 1] = Stub(p.relations[k].from)
                                         /\ stubs[2 * k] = Stub(p.relations[k].to)
    BY <1>1, StubsTyped
  <2>3. \A name : Stub(name).id = NodeId("Dish", name)
    BY DEF Stub
  <2> QED BY <2>1, <2>2, <2>3
<1>5. all = dish \o items \o stubs
  BY DEF CandidatesOf, MapNodes
<1> HIDE DEF p, dish, items, stubs, all
<1>6. /\ dish \o items \in Seq(Candidates) /\ Len(dish \o items) = 1 + Len(items)
      /\ \A i \in 1..(1 + Len(items)) :
            (dish \o items)[i] = IF i <= 1 THEN dish[i] ELSE items[i - 1]
  <2>1. /\ dish \o items \in Seq(Candidates) /\ Len(dish \o items) = Len(dish) + Len(items)
        /\ \A i \in 1..(Len(dish) + Len(items)) :
              (dish \o items)[i] = IF i <= Len(dish) THEN dish[i] ELSE items[i - Len(dish)]
    <3>1. dish \in Seq(Candidates) /\ items \in Seq(Candidates)
      BY <1>2, <1>3
    <3> QED BY <3>1, SideBySide, Zenon
  <2>2. Len(dish) = 1
    BY <1>2
  <2> QED BY <2>1, <2>2
<1>7. /\ all \in Seq(Candidates) /\ Len(all) = 1 + Len(items) + Len(stubs)
      /\ \A i \in 1..(1 + Len(items) + Len(stubs)) :
            all[i] = IF i <= 1 + Len(items) THEN (dish \o items)[i] ELSE stubs[i - (1 + Len(items))]
  <2> DEFINE front == dish \o items
  <2>1. front \in Seq(Candidates) /\ Len(front) = 1 + Len(items) /\ all = front \o stubs
    BY <1>5, <1>6
  <2> HIDE DEF front
  <2>2. /\ front \o stubs \in Seq(Candidates) /\ Len(front \o stubs) = Len(front) + Len(stubs)
        /\ \A i \in 1..(Len(front) + Len(stubs)) :
              (front \o stubs)[i] = IF i <= Len(front) THEN front[i] ELSE stubs[i - Len(front)]
    <3>1. front \in Seq(Candidates) /\ stubs \in Seq(Candidates)
      BY <1>4, <2>1
    <3> QED BY <3>1, SideBySide, Zenon
  <2>3. /\ all \in Seq(Candidates) /\ Len(all) = 1 + Len(items) + Len(stubs)
        /\ \A i \in 1..(1 + Len(items) + Len(stubs)) :
              all[i] = IF i <= 1 + Len(items) THEN front[i] ELSE stubs[i - (1 + Len(items))]
    BY <2>1, <2>2
  <2> QED BY <2>3 DEF front
<1>8. Len(items) \in Nat /\ Len(stubs) \in Nat
  BY <1>3, <1>4
<1>9. DOMAIN all = 1..(1 + Len(items) + Len(stubs))
  BY <1>7, LenProperties
<1>10. 1 \in DOMAIN all /\ all[1] = dish[1]
  BY <1>6, <1>7, <1>8, <1>9
<1>11. ASSUME NEW k \in DOMAIN p.ingredients PROVE k + 1 \in DOMAIN all /\ all[k + 1] = items[k]
  <2>1. k \in Nat /\ 1 <= k /\ k <= Len(items)
    BY <1>3
  <2>2. k + 1 \in 1..(1 + Len(items)) /\ ~(k + 1 <= 1) /\ (k + 1) - 1 = k
    BY <2>1, <1>8
  <2>3. k + 1 \in 1..(1 + Len(items) + Len(stubs)) /\ k + 1 <= 1 + Len(items)
    BY <2>1, <1>8
  <2> QED BY <2>2, <2>3, <1>6, <1>7, <1>9
<1>12. ASSUME NEW k \in DOMAIN p.relations
       PROVE  /\ 1 + Len(items) + (2 * k - 1) \in DOMAIN all
              /\ all[1 + Len(items) + (2 * k - 1)] = stubs[2 * k - 1]
              /\ 1 + Len(items) + 2 * k \in DOMAIN all
              /\ all[1 + Len(items) + 2 * k] = stubs[2 * k]
  <2>1. k \in Nat /\ 1 <= k /\ 2 * k <= Len(stubs)
    BY <1>4
  <2>2. /\ 1 + Len(items) + (2 * k - 1) \in 1..(1 + Len(items) + Len(stubs))
        /\ ~(1 + Len(items) + (2 * k - 1) <= 1 + Len(items))
        /\ (1 + Len(items) + (2 * k - 1)) - (1 + Len(items)) = 2 * k - 1
        /\ 1 + Len(items) + 2 * k \in 1..(1 + Len(items) + Len(stubs))
        /\ ~(1 + Len(items) + 2 * k <= 1 + Len(items))
        /\ (1 + Len(items) + 2 * k) - (1 + Len(items)) = 2 * k
    BY <2>1, <1>8
  <2> QED BY <2>2, <1>7, <1>9
<1>13. Len(all) > 0
  BY <1>7, <1>8
<1>14. \E n \in DOMAIN all : all[n].id = NodeId("Dish", p.dish.name)
  BY <1>2, <1>10
<1>15. \A k \in DOMAIN p.ingredients :
          \E n \in DOMAIN all : all[n].id = NodeId("Ingredient", p.ingredients[k].name)
  BY <1>3, <1>11
<1>16. \A k \in DOMAIN p.relations :
          /\ \E n \in DOMAIN all : all[n].id = NodeId("Dish", p.relations[k].from)
          /\ \E n \in DOMAIN all : all[n].id = NodeId("Dish", p.relations[k].to)
  BY <1>4, <1>12
<1> QED BY <1>7, <1>13, <1>14, <1>15, <1>16 DEF all, p

\* What is known of the candidates and edges of a document from here on.
LEMMA Mapped ==
    ASSUME NEW d \in Readable
    PROVE  /\ CandidatesOf[d] \in Seq(Candidates)
           /\ Len(CandidatesOf[d]) \in Nat \ {0} /\ DOMAIN CandidatesOf[d] = 1..Len(CandidatesOf[d])
           /\ \A n \in DOMAIN CandidatesOf[d] : CandidatesOf[d][n] \in Candidates
           /\ \A e \in EdgesOf[d] :
                 /\ e \in EdgeKeys
                 /\ \E n \in DOMAIN CandidatesOf[d] : CandidatesOf[d][n].id = e[1]
                 /\ \E n \in DOMAIN CandidatesOf[d] : CandidatesOf[d][n].id = e[3]
<1> DEFINE p == Payload[d]
           all == CandidatesOf[d]
<1>1. p.dish \in Items /\ p.ingredients \in Seq(Items) /\ p.relations \in Seq(Rows)
  BY GraphAssumption
<1>2. /\ all \in Seq(Candidates) /\ Len(all) > 0
      /\ \E n \in DOMAIN all : all[n].id = NodeId("Dish", p.dish.name)
      /\ \A k \in DOMAIN p.ingredients :
            \E n \in DOMAIN all : all[n].id = NodeId("Ingredient", p.ingredients[k].name)
      /\ \A k \in DOMAIN p.relations :
            /\ \E n \in DOMAIN all : all[n].id = NodeId("Dish", p.relations[k].from)
            /\ \E n \in DOMAIN all : all[n].id = NodeId("Dish", p.relations[k].to)
  BY MappedNodes
<1>3. Len(all) \in Nat \ {0} /\ DOMAIN all = 1..Len(all) /\ \A n \in DOMAIN all : all[n] \in Candidates
  BY <1>2, ElementOfSeq, LenProperties
<1>4. ASSUME NEW e \in EdgesOf[d]
      PROVE  /\ e \in EdgeKeys
             /\ \E n \in DOMAIN all : all[n].id = e[1]
             /\ \E n \in DOMAIN all : all[n].id = e[3]
  <2>1. e \in MapEdges(p)
    BY DEF EdgesOf
  <2>2. "Dish" \in Labels /\ "Ingredient" \in Labels
    BY DEF Labels
  <2>3. p.dish.name \in Names
    BY <1>1 DEF Items
  <2>4. CASE \E item \in ToSet(p.ingredients) :
                e = <<NodeId("Dish", p.dish.name), "CONTAINS", NodeId("Ingredient", item.name)>>
    <3>1. PICK k \in DOMAIN p.ingredients :
             e = <<NodeId("Dish", p.dish.name), "CONTAINS", NodeId("Ingredient", p.ingredients[k].name)>>
      BY <2>4 DEF ToSet
    <3>2. p.ingredients[k] \in Items
      BY <1>1, ElementOfSeq, LenProperties
    <3>3. p.ingredients[k].name \in Names
      BY <3>2 DEF Items
    <3>4. e \in EdgeKeys
      BY <3>1, <3>3, <2>2, <2>3, NodeIdIsId DEF EdgeKeys, Relations
    <3> QED BY <3>1, <3>4, <1>2
  <2>5. CASE \E row \in ToSet(p.relations) :
                e = <<NodeId("Dish", row.from), row.relation, NodeId("Dish", row.to)>>
    <3>1. PICK k \in DOMAIN p.relations :
             e = <<NodeId("Dish", p.relations[k].from), p.relations[k].relation,
                   NodeId("Dish", p.relations[k].to)>>
      BY <2>5 DEF ToSet
    <3>2. p.relations[k] \in Rows
      BY <1>1, ElementOfSeq, LenProperties
    <3>3. p.relations[k].from \in Names /\ p.relations[k].to \in Names /\ p.relations[k].relation \in Relations
      BY <3>2 DEF Rows
    <3>4. e \in EdgeKeys
      BY <3>1, <3>3, <2>2, NodeIdIsId DEF EdgeKeys
    <3> QED BY <3>1, <3>4, <1>2
  <2> QED BY <2>1, <2>4, <2>5 DEF MapEdges
<1> QED BY <1>2, <1>3, <1>4

-----------------------------------------------------------------------------
(* Nodes that are fused *)

NodeType == [label : Labels, name : Names, aliases : SUBSET Names,
             source : accepted \cup {None}, provenance : SUBSET accepted]

\* What NodesOK says of one node.
NodeOK(id, node) ==
    /\ node \in NodeType /\ node.label = id[1]
    /\ IsStubName(node.name) => node.name \in {id[2]} \cup node.aliases

LEMMA NodesOKEach ==
    ASSUME NEW graph
    PROVE  NodesOK(graph) <=> /\ DOMAIN graph \subseteq Ids /\ IsFiniteSet(DOMAIN graph)
                              /\ \A id \in DOMAIN graph : NodeOK(id, graph[id])
BY DEF NodesOK, NodeOK, NodeType

LEMMA NodeFields ==
    ASSUME NEW node \in NodeType
    PROVE  /\ node.label \in Labels /\ node.name \in Names /\ node.aliases \in SUBSET Names
           /\ node.source \in accepted \cup {None} /\ node.provenance \in SUBSET accepted
BY DEF NodeType

LEMMA GrownReflexive ==
    ASSUME NEW id, NEW node
    PROVE  Grown(id, node, node)
BY DEF Grown

LEMMA GrownTransitive ==
    ASSUME NEW id, NEW a, NEW b, NEW c, Grown(id, a, b), Grown(id, b, c)
    PROVE  Grown(id, a, c)
<1>1. a.label = c.label /\ a.provenance \subseteq c.provenance /\ a.source \in {None, c.source}
  BY DEF Grown
<1>2. NamesOf(a) \subseteq {id[2]} \cup NamesOf(c)
  BY DEF Grown
<1> QED BY <1>1, <1>2 DEF Grown

\* The names of a node are its name and its aliases in lower case.
LEMMA NamesHas ==
    ASSUME NEW node, NEW name, name = node.name \/ name \in node.aliases
    PROVE  Lower[name] \in NamesOf(node)
BY DEF NamesOf

\* A sequence of names holds names.
LEMMA AliasesAreNames ==
    ASSUME NEW s \in Seq(Names)
    PROVE  ToSet(s) \in SUBSET Names
BY ElementOfSeq, LenProperties DEF ToSet

\* A node made of a candidate alone.
LEMMA FreshEffect ==
    ASSUME NEW c \in Candidates, NEW d \in accepted
    PROVE  /\ NodeOK(c.id, Fresh(c, d))
           /\ c.stub \/ d \in Fresh(c, d).provenance
<1> DEFINE new == Fresh(c, d)
<1>1. /\ new.label = c.label /\ new.name = c.name /\ new.aliases = ToSet(c.aliases)
      /\ new.source = (IF c.stub THEN None ELSE d)
      /\ new.provenance = (IF c.stub THEN {} ELSE {d})
      /\ new = [label |-> new.label, name |-> new.name, aliases |-> new.aliases,
                source |-> new.source, provenance |-> new.provenance]
  BY DEF Fresh
<1>2. /\ c.label \in Labels /\ c.name \in Names /\ c.aliases \in Seq(Names) /\ c.stub \in BOOLEAN
      /\ c.id[1] = c.label /\ c.id[2] = Slug[c.name]
  BY CandidateFields
<1>3. ToSet(c.aliases) \in SUBSET Names
  BY <1>2, AliasesAreNames
<1> HIDE DEF new
<1>4. new \in NodeType
  BY <1>1, <1>2, <1>3 DEF NodeType
<1>5. IsStubName(new.name) => new.name = c.id[2]
  BY <1>1, <1>2 DEF IsStubName
<1>6. NodeOK(c.id, new) /\ (c.stub \/ d \in new.provenance)
  BY <1>1, <1>2, <1>4, <1>5 DEF NodeOK
<1> QED BY <1>6 DEF new

\* A node a candidate is merged into keeps what it has, but for the slug of a
\* stub, which is its id, and answers to the candidate's name.
LEMMA MergeEffect ==
    ASSUME NEW id \in Ids, NEW old, NodeOK(id, old), NEW c \in Candidates, NEW d \in accepted
    PROVE  LET new == MergeNodes(old, c, d)
           IN /\ NodeOK(id, new) /\ Grown(id, old, new)
              /\ Lower[c.name] \in NamesOf(new)
              /\ c.stub \/ d \in new.provenance
<1> DEFINE new == MergeNodes(old, c, d)
           other == IF c.name # old.name THEN {c.name} ELSE {}
<1>1. /\ new.label = old.label
      /\ new.name = (IF IsStubName(old.name) THEN c.name ELSE old.name)
      /\ new.aliases = old.aliases \cup other \cup ToSet(c.aliases)
      /\ new.source = (IF old.source # None THEN old.source ELSE IF c.stub THEN None ELSE d)
      /\ new.provenance = old.provenance \cup (IF c.stub THEN {} ELSE {d})
      /\ new = [label |-> new.label, name |-> new.name, aliases |-> new.aliases,
                source |-> new.source, provenance |-> new.provenance]
  BY DEF MergeNodes, Fresh
<1>2. c.name \in Names /\ c.aliases \in Seq(Names) /\ c.stub \in BOOLEAN
  BY CandidateFields
<1>3. /\ old.label \in Labels /\ old.name \in Names /\ old.aliases \in SUBSET Names
      /\ old.source \in accepted \cup {None} /\ old.provenance \in SUBSET accepted
  BY NodeFields DEF NodeOK
<1>4. ToSet(c.aliases) \in SUBSET Names
  BY <1>2, AliasesAreNames
<1>5. /\ old.label = id[1]
      /\ IsStubName(old.name) => old.name \in {id[2]} \cup old.aliases
  BY DEF NodeOK
<1> HIDE DEF new
<1>6. new \in NodeType
  <2>1. new.name \in Names /\ new.aliases \in SUBSET Names
    BY <1>1, <1>2, <1>3, <1>4
  <2>2. new.source \in accepted \cup {None} /\ new.provenance \in SUBSET accepted
    BY <1>1, <1>3
  <2> QED BY <1>1, <1>3, <2>1, <2>2 DEF NodeType
<1>7. IsStubName(new.name) => new.name \in {id[2]} \cup new.aliases
  <2>1. CASE IsStubName(old.name)
    BY <2>1, <1>1, <1>5
  <2>2. CASE ~IsStubName(old.name)
    BY <2>2, <1>1
  <2> QED BY <2>1, <2>2
<1>8. Lower[c.name] \in NamesOf(new)
  <2>1. c.name = new.name \/ c.name \in new.aliases
    BY <1>1
  <2> QED BY <2>1, NamesHas
<1>9. NamesOf(old) \subseteq {id[2]} \cup NamesOf(new)
  <2>1. \A a \in old.aliases : Lower[a] \in NamesOf(new)
    BY <1>1, NamesHas
  <2>2. Lower[old.name] \in {id[2]} \cup NamesOf(new)
    <3>1. CASE IsStubName(old.name)
      <4>1. Lower[old.name] = old.name
        BY <3>1, <1>3, GraphAssumption DEF IsStubName
      <4>2. CASE old.name = id[2]
        BY <4>1, <4>2
      <4>3. CASE old.name \in old.aliases
        BY <2>1, <4>3
      <4> QED BY <3>1, <4>2, <4>3, <1>5
    <3>2. CASE ~IsStubName(old.name)
      BY <3>2, <1>1, NamesHas
    <3> QED BY <3>1, <3>2
  <2> QED BY <2>1, <2>2 DEF NamesOf
<1>10. Grown(id, old, new)
  BY <1>1, <1>9 DEF Grown
<1>11. c.stub \/ d \in new.provenance
  BY <1>1
<1>12. NodeOK(id, new)
  BY <1>1, <1>5, <1>6, <1>7 DEF NodeOK
<1> QED BY <1>8, <1>10, <1>11, <1>12 DEF new

\* What a candidate may be matched with: nothing, when no node has its id, or a
\* node of its label.
LEMMA MatchesEffect ==
    ASSUME NodesOK(nodes), NEW c \in Candidates, NEW matched \in Matches(c)
    PROVE  \/ matched = None /\ c.id \notin DOMAIN nodes
           \/ matched \in DOMAIN nodes /\ matched # None /\ nodes[matched].label = c.label
<1>1. DOMAIN nodes \subseteq Ids /\ \A id \in DOMAIN nodes : nodes[id].label = id[1]
  BY DEF NodesOK
<1>2. None \notin DOMAIN nodes
  BY <1>1, GraphAssumption
<1>3. c.id[1] = c.label
  BY CandidateFields
<1>4. CASE c.id \in DOMAIN nodes
  BY <1>1, <1>2, <1>3, <1>4 DEF Matches
<1>5. CASE c.id \notin DOMAIN nodes
  <2>1. \A name : \A id \in WithName(c.label, name) : id \in DOMAIN nodes /\ nodes[id].label = c.label
    BY DEF WithName
  <2>2. \A id \in WithAlias(c) : id \in DOMAIN nodes /\ nodes[id].label = c.label
    BY <2>1 DEF WithAlias
  <2>3. \A id \in Nearest(c) : id \in DOMAIN nodes /\ nodes[id].label = c.label
    BY DEF Nearest
  <2>4. \/ matched \in WithName(c.label, c.name) \/ matched \in WithAlias(c)
        \/ matched \in Nearest(c) \/ matched = None
    BY <1>5 DEF Matches
  <2> QED BY <1>2, <1>5, <2>1, <2>2, <2>3, <2>4
<1> QED BY <1>4, <1>5

LEMMA PutEffect ==
    ASSUME NEW f, NEW key, NEW value
    PROVE  /\ DOMAIN Put(f, key, value) = DOMAIN f \cup {key}
           /\ Put(f, key, value)[key] = value
           /\ \A k \in DOMAIN f \ {key} : Put(f, key, value)[k] = f[k]
BY DEF Put

\* A candidate folded into the nodes of its document: it is found in them,
\* cited, and they hold on to what they and the graph had.
LEMMA FuseEffect ==
    ASSUME NodesOK(nodes), NEW canonical, NodesOK(canonical),
           \A id \in DOMAIN nodes \cap DOMAIN canonical : Grown(id, nodes[id], canonical[id]),
           NEW c \in Candidates, NEW matched \in Matches(c), NEW d \in accepted
    PROVE  LET F == Fuse(canonical, c, matched, d)
               home == CanonicalId(c, matched)
           IN /\ NodesOK(F) /\ DOMAIN F = DOMAIN canonical \cup {home}
              /\ \A id \in DOMAIN canonical : Grown(id, canonical[id], F[id])
              /\ \A id \in DOMAIN nodes \cap DOMAIN F : Grown(id, nodes[id], F[id])
              /\ home \in FoundIn(F, c)
              /\ c.stub \/ d \in F[home].provenance
<1> DEFINE F == Fuse(canonical, c, matched, d)
           home == CanonicalId(c, matched)
           node == CASE home \in DOMAIN canonical -> MergeNodes(canonical[home], c, d)
                     [] home \notin DOMAIN canonical /\ matched # None -> MergeNodes(nodes[home], c, d)
                     [] OTHER -> Fresh(c, d)
<1>1. F = Put(canonical, home, node)
  BY DEF Fuse
<1>2. \/ matched = None /\ c.id \notin DOMAIN nodes /\ home = c.id
      \/ matched \in DOMAIN nodes /\ matched # None /\ nodes[matched].label = c.label /\ home = matched
  BY MatchesEffect DEF CanonicalId
<1>3. c.id \in Ids /\ c.id[1] = c.label
  BY CandidateFields
<1>4. /\ DOMAIN nodes \subseteq Ids /\ \A id \in DOMAIN nodes : NodeOK(id, nodes[id])
      /\ DOMAIN canonical \subseteq Ids /\ IsFiniteSet(DOMAIN canonical)
      /\ \A id \in DOMAIN canonical : NodeOK(id, canonical[id])
  BY NodesOKEach
<1>5. home \in Ids /\ home[1] = c.label
  BY <1>2, <1>3, <1>4 DEF NodeOK
<1>6. /\ NodeOK(home, node)
      /\ home = c.id \/ Lower[c.name] \in NamesOf(node)
      /\ c.stub \/ d \in node.provenance
      /\ home \in DOMAIN canonical => Grown(home, canonical[home], node)
      /\ home \in DOMAIN nodes => Grown(home, nodes[home], node)
  <2>1. CASE home \in DOMAIN canonical
    <3>1. node = MergeNodes(canonical[home], c, d)
      BY <2>1
    <3>2. NodeOK(home, canonical[home])
      BY <2>1, <1>4
    <3> HIDE DEF node, home
    <3>3. /\ NodeOK(home, node) /\ Grown(home, canonical[home], node)
          /\ Lower[c.name] \in NamesOf(node) /\ (c.stub \/ d \in node.provenance)
      BY <3>1, <3>2, <1>5, MergeEffect
    <3>4. home \in DOMAIN nodes => Grown(home, nodes[home], node)
      BY <3>3, <2>1, GrownTransitive
    <3> QED BY <3>3, <3>4
  <2>2. CASE home \notin DOMAIN canonical /\ matched # None
    <3>1. node = MergeNodes(nodes[home], c, d)
      BY <2>2
    <3>2. home \in DOMAIN nodes /\ NodeOK(home, nodes[home])
      BY <2>2, <1>2, <1>4
    <3> HIDE DEF node, home
    <3>3. /\ NodeOK(home, node) /\ Grown(home, nodes[home], node)
          /\ Lower[c.name] \in NamesOf(node) /\ (c.stub \/ d \in node.provenance)
      BY <3>1, <3>2, <1>5, MergeEffect
    <3> QED BY <3>3, <2>2
  <2>3. CASE home \notin DOMAIN canonical /\ matched = None
    <3>1. node = Fresh(c, d)
      BY <2>3
    <3>2. home = c.id /\ home \notin DOMAIN nodes
      BY <2>3, <1>2
    <3> HIDE DEF node, home
    <3>3. NodeOK(c.id, node) /\ (c.stub \/ d \in node.provenance)
      BY <3>1, FreshEffect
    <3> QED BY <3>2, <3>3, <2>3
  <2> QED BY <2>1, <2>2, <2>3
<1> HIDE DEF node, home, F
<1>7. /\ DOMAIN F = DOMAIN canonical \cup {home} /\ F[home] = node
      /\ \A id \in DOMAIN canonical \ {home} : F[id] = canonical[id]
  <2>1. /\ DOMAIN Put(canonical, home, node) = DOMAIN canonical \cup {home}
        /\ Put(canonical, home, node)[home] = node
        /\ \A k \in DOMAIN canonical \ {home} : Put(canonical, home, node)[k] = canonical[k]
    BY DEF Put
  <2> QED BY <1>1, <2>1
<1>8. NodesOK(F)
  <2>1. DOMAIN F \subseteq Ids /\ \A id \in DOMAIN F : NodeOK(id, F[id])
    BY <1>4, <1>5, <1>6, <1>7
  <2>2. IsFiniteSet(DOMAIN F)
    BY <1>4, <1>7, FS_AddElement
  <2> QED BY <2>1, <2>2, NodesOKEach
<1>9. \A id \in DOMAIN canonical : Grown(id, canonical[id], F[id])
  BY <1>6, <1>7, GrownReflexive
<1>10. \A id \in DOMAIN nodes \cap DOMAIN F : Grown(id, nodes[id], F[id])
  BY <1>6, <1>7
<1>11. home \in FoundIn(F, c)
  <2>1. F[home].label = c.label
    BY <1>5, <1>6, <1>7 DEF NodeOK
  <2> QED BY <1>6, <1>7, <2>1 DEF FoundIn
<1>12. c.stub \/ d \in F[home].provenance
  BY <1>6, <1>7
<1> QED BY <1>7, <1>8, <1>9, <1>10, <1>11, <1>12 DEF F, home

-----------------------------------------------------------------------------
(* What a growing graph keeps *)

\* Every node of the one is a node of the other, grown.
GraphGrown(old, new) ==
    \A id \in DOMAIN old : id \in DOMAIN new /\ Grown(id, old[id], new[id])

\* Nothing a candidate was found as is lost: a name that a node no longer
\* answers to is its id, and then it has the candidate's id.
LEMMA FoundStays ==
    ASSUME NEW old, NEW new, NodesOK(old), GraphGrown(old, new), NEW c \in Candidates
    PROVE  FoundIn(old, c) \subseteq FoundIn(new, c)
<1> SUFFICES ASSUME NEW id \in FoundIn(old, c) PROVE id \in FoundIn(new, c)
  OBVIOUS
<1>1. id \in DOMAIN old /\ id \in DOMAIN new /\ Grown(id, old[id], new[id])
  BY DEF FoundIn, GraphGrown
<1>2. CASE id = c.id
  BY <1>1, <1>2 DEF FoundIn
<1>3. CASE old[id].label = c.label /\ Lower[c.name] \in NamesOf(old[id])
  <2>1. new[id].label = c.label /\ Lower[c.name] \in {id[2]} \cup NamesOf(new[id])
    BY <1>1, <1>3 DEF Grown
  <2>2. CASE Lower[c.name] \in NamesOf(new[id])
    BY <1>1, <2>1, <2>2 DEF FoundIn
  <2>3. CASE Lower[c.name] = id[2]
    <3>1. id \in Ids /\ id[1] = c.label
      BY <1>1, <1>3 DEF NodesOK
    <3>2. PICK n \in Names : id[2] = Slug[n]
      BY <3>1, IdFields
    <3>3. c.name \in Names /\ c.id = <<c.label, Slug[c.name]>>
      BY CandidateFields
    <3>4. Slug[c.name] = Slug[n]
      BY <2>3, <3>2, <3>3, GraphAssumption
    <3>5. id = c.id
      BY <3>1, <3>2, <3>3, <3>4, IdFields
    <3> QED BY <3>5, <1>2
  <2> QED BY <2>1, <2>2, <2>3
<1> QED BY <1>2, <1>3 DEF FoundIn

LEMMA CitedStays ==
    ASSUME NEW old, NEW new, NodesOK(old), GraphGrown(old, new), NEW c \in Candidates,
           NEW d, Cited(old, c, d)
    PROVE  Cited(new, c, d)
<1>1. PICK id \in FoundIn(old, c) : c.stub \/ d \in old[id].provenance
  BY DEF Cited
<1>2. id \in FoundIn(new, c)
  BY <1>1, FoundStays
<1>3. id \in DOMAIN old
  BY <1>1 DEF FoundIn
<1>4. c.stub \/ d \in new[id].provenance
  BY <1>1, <1>3 DEF GraphGrown, Grown
<1> QED BY <1>2, <1>4 DEF Cited

LEMMA JoinsStays ==
    ASSUME NEW old, NEW new, NodesOK(old), GraphGrown(old, new), NEW d \in Readable,
           NEW key, NEW e, Joins(old, key, e, CandidatesOf[d])
    PROVE  Joins(new, key, e, CandidatesOf[d])
<1> DEFINE all == CandidatesOf[d]
<1>1. \A n \in DOMAIN all : all[n] \in Candidates
  BY Mapped
<1> HIDE DEF all
<1>2. \A n \in DOMAIN all : FoundIn(old, all[n]) \subseteq FoundIn(new, all[n])
  BY <1>1, FoundStays
<1>3. Joins(old, key, e, all)
  BY DEF all
<1>4. Joins(new, key, e, all)
  BY <1>2, <1>3 DEF Joins
<1> QED BY <1>4 DEF all

-----------------------------------------------------------------------------
(* The invariant as a predicate of the values it speaks of: what the stores  *)
(* hold and what the builder holds, so that a step is a change of arguments. *)

\* The edges that cite d.
CitingIn(links, d) == {key \in DOMAIN links : d \in links[key].provenance}

\* All that d says is in the graph.
Holds(graph, links, d) ==
    /\ d \in Readable
    /\ \A n \in DOMAIN CandidatesOf[d] : Cited(graph, CandidatesOf[d][n], d)
    /\ Joined(CitingIn(links, d), graph, d)

OKNodes(docs, graph) ==
    /\ DOMAIN graph \subseteq Ids /\ IsFiniteSet(DOMAIN graph)
    /\ \A id \in DOMAIN graph :
          /\ graph[id] \in [label : Labels, name : Names, aliases : SUBSET Names,
                            source : docs \cup {None}, provenance : SUBSET docs]
          /\ graph[id].label = id[1]
          /\ IsStubName(graph[id].name) => graph[id].name \in {id[2]} \cup graph[id].aliases

OKEdges(docs, graph, links) ==
    /\ DOMAIN links \subseteq Between(graph)
    /\ \A key \in DOMAIN links : links[key].source \in docs /\ links[key].provenance \subseteq docs

OKStores(docs, graph, links, recorded) ==
    /\ docs \subseteq Documents
    /\ OKNodes(docs, graph) /\ OKEdges(docs, graph, links)
    /\ recorded \subseteq docs
    /\ \A d \in recorded : Holds(graph, links, d)

FusedOver(docs, graph, fused, d, count) ==
    /\ OKNodes(docs, fused)
    /\ \A id \in DOMAIN graph \cap DOMAIN fused : Grown(id, graph[id], fused[id])
    /\ \A n \in 1..count : Cited(fused, CandidatesOf[d][n], d)

AtFuse(docs, graph, d, next, fused, remap) ==
    /\ next \in DOMAIN CandidatesOf[d]
    /\ FusedOver(docs, graph, fused, d, next - 1)
    /\ Moved(remap, fused, d, next - 1)

AtNodes(docs, graph, d, fused, keys) ==
    /\ FusedOver(docs, graph, fused, d, Len(CandidatesOf[d]))
    /\ keys \subseteq Between(fused)
    /\ Joined(keys, fused, d)

AtEdges(graph, links, d, keys) ==
    /\ \A n \in DOMAIN CandidatesOf[d] : Cited(graph, CandidatesOf[d][n], d)
    /\ keys \subseteq Between(graph)
    /\ Joined(keys \cup CitingIn(links, d), graph, d)

OKBuilder(b, docs, graph, links) ==
    /\ DOMAIN b = DOMAIN Down /\ b.at \in Steps
    /\ b.todo \subseteq docs /\ b.done \subseteq docs
    /\ b.at \in {"fuse", "nodes", "edges", "merge", "record"} => b.document \in docs \cap Readable
    /\ b.at = "fuse" => AtFuse(docs, graph, b.document, b.next, b.fused, b.remap)
    /\ b.at = "nodes" => AtNodes(docs, graph, b.document, b.fused, b.keys)
    /\ b.at \in {"edges", "merge"} => AtEdges(graph, links, b.document, b.keys)
    /\ b.at = "merge" =>
          b.read = [k \in {k \in b.keys \cap DOMAIN links : k[2] = b.relation} |-> links[k]]
    /\ \A d \in b.done : Holds(graph, links, d)

LEMMA GraphInvParts ==
    GraphInv <=> /\ OKStores(accepted, nodes, edges, Recorded)
                 /\ OKBuilder(builder, accepted, nodes, edges)
                 /\ crashes \in 0..MaxCrashes
<1>1. GraphTypeOK <=> /\ accepted \subseteq Documents
                      /\ OKNodes(accepted, nodes) /\ OKEdges(accepted, nodes, edges)
                      /\ Recorded \subseteq accepted
                      /\ DOMAIN builder = DOMAIN Down /\ builder.at \in Steps
                      /\ builder.todo \subseteq accepted /\ builder.done \subseteq accepted
                      /\ crashes \in 0..MaxCrashes
  BY DEF GraphTypeOK, NodesOK, OKNodes, OKEdges
<1>2. \A d : InGraph(d) <=> Holds(nodes, edges, d)
  BY DEF InGraph, Holds, NodesInGraph, EdgesInGraph, Citing, CitingIn
<1>3. \A fused, d, count :
          Fused(fused, d, count) <=> FusedOver(accepted, nodes, fused, d, count)
  BY DEF Fused, FusedOver, NodesOK, OKNodes
<1>4. \A d : NodesInGraph(d) <=> \A n \in DOMAIN CandidatesOf[d] : Cited(nodes, CandidatesOf[d][n], d)
  BY DEF NodesInGraph
<1>5. \A d : Citing(d) = CitingIn(edges, d)
  BY DEF Citing, CitingIn
<1>6. RecordedIsInGraph <=> \A d \in Recorded : Holds(nodes, edges, d)
  BY <1>2 DEF RecordedIsInGraph
<1>7. BuilderInv <=>
        /\ builder.at \in {"fuse", "nodes", "edges", "merge", "record"} =>
              builder.document \in accepted \cap Readable
        /\ builder.at = "fuse" =>
              AtFuse(accepted, nodes, builder.document, builder.next, builder.fused, builder.remap)
        /\ builder.at = "nodes" =>
              AtNodes(accepted, nodes, builder.document, builder.fused, builder.keys)
        /\ builder.at \in {"edges", "merge"} => AtEdges(nodes, edges, builder.document, builder.keys)
        /\ builder.at = "merge" =>
              builder.read = [k \in {k \in builder.keys \cap DOMAIN edges : k[2] = builder.relation}
                                |-> edges[k]]
        /\ \A done \in builder.done : Holds(nodes, edges, done)
  BY <1>2, <1>3, <1>4, <1>5 DEF BuilderInv, AtFuse, AtNodes, AtEdges
<1> QED BY <1>1, <1>6, <1>7 DEF GraphInv, OKStores, OKBuilder

\* The same of the next state.
LEMMA GraphInvPartsNext ==
    GraphInv' <=> /\ OKStores(accepted', nodes', edges', Recorded')
                  /\ OKBuilder(builder', accepted', nodes', edges')
                  /\ crashes' \in 0..MaxCrashes
<1>1. (GraphInv <=> /\ OKStores(accepted, nodes, edges, Recorded)
                    /\ OKBuilder(builder, accepted, nodes, edges)
                    /\ crashes \in 0..MaxCrashes)'
  BY GraphInvParts, PTL
<1> QED BY <1>1

\* A graph that grows, and whose links keep what they cite, still holds what a
\* document says.
LEMMA HoldsStays ==
    ASSUME NEW old, NEW new, NodesOK(old), GraphGrown(old, new),
           NEW links, NEW more, \A d : CitingIn(links, d) \subseteq CitingIn(more, d),
           NEW d, Holds(old, links, d)
    PROVE  Holds(new, more, d)
<1>1. d \in Readable /\ \A n \in DOMAIN CandidatesOf[d] : Cited(old, CandidatesOf[d][n], d)
  BY DEF Holds
<1>2. \A n \in DOMAIN CandidatesOf[d] : Cited(new, CandidatesOf[d][n], d)
  <2>1. \A n \in DOMAIN CandidatesOf[d] : CandidatesOf[d][n] \in Candidates
    BY <1>1, Mapped
  <2> QED BY <1>1, <2>1, CitedStays
<1>3. Joined(CitingIn(more, d), new, d)
  <2>1. \A e \in EdgesOf[d] : \E key \in CitingIn(links, d) : Joins(old, key, e, CandidatesOf[d])
    BY DEF Holds, Joined
  <2>2. \A key, e : Joins(old, key, e, CandidatesOf[d]) => Joins(new, key, e, CandidatesOf[d])
    BY <1>1, JoinsStays
  <2> QED BY <2>1, <2>2 DEF Joined
<1> QED BY <1>1, <1>2, <1>3 DEF Holds

LEMMA NodesOKIs == \A graph : NodesOK(graph) <=> OKNodes(accepted, graph)
BY DEF NodesOK, OKNodes

-----------------------------------------------------------------------------
(* The steps of the build *)

LEMMA DownFields ==
    /\ DOMAIN Down = {"at", "done", "todo", "document", "next", "fused", "remap", "keys", "read", "relation"}
    /\ Down.at = "down" /\ Down.done = {} /\ Down.todo = {}
BY DEF Down

\* A builder that does not run satisfies every demand.
LEMMA DownIsOK ==
    ASSUME NEW docs, NEW graph, NEW links
    PROVE  OKBuilder(Down, docs, graph, links)
BY DownFields DEF OKBuilder, Steps

\* Recorded is a function of the file.
LEMMA RecordedStays ==
    ASSUME checkpoint' = checkpoint
    PROVE  Recorded' = Recorded
BY DEF Recorded

LEMMA AcceptKeeps ==
    ASSUME GraphInv, NEW d \in Documents, Accept(d)
    PROVE  GraphInv'
<1>1. /\ OKStores(accepted, nodes, edges, Recorded) /\ OKBuilder(builder, accepted, nodes, edges)
      /\ crashes \in 0..MaxCrashes
  BY GraphInvParts
<1>2. /\ accepted' = accepted \cup {d} /\ nodes' = nodes /\ edges' = edges /\ builder' = builder
      /\ crashes' = crashes /\ Recorded' = Recorded
  BY RecordedStays DEF Accept
<1>3. \A graph : OKNodes(accepted, graph) => OKNodes(accepted', graph)
  BY <1>2 DEF OKNodes
<1>4. OKStores(accepted', nodes, edges, Recorded)
  BY <1>1, <1>2, <1>3 DEF OKStores, OKEdges
<1>5. OKBuilder(builder, accepted', nodes, edges)
  BY <1>1, <1>2, <1>3 DEF OKBuilder, AtFuse, AtNodes, FusedOver
<1> QED BY <1>1, <1>2, <1>4, <1>5, GraphInvPartsNext

LEMMA StartKeeps ==
    ASSUME GraphInv, Start
    PROVE  GraphInv'
<1>1. /\ OKStores(accepted, nodes, edges, Recorded) /\ OKBuilder(builder, accepted, nodes, edges)
      /\ crashes \in 0..MaxCrashes
  BY GraphInvParts
<1>2. /\ accepted' = accepted /\ nodes' = nodes /\ edges' = edges
      /\ crashes' = crashes /\ Recorded' = Recorded
      /\ builder' = [Down EXCEPT !.at = "next", !.done = Recorded, !.todo = accepted \ Recorded]
  BY RecordedStays DEF Start
<1>3. /\ DOMAIN builder' = DOMAIN Down /\ builder'.at = "next"
      /\ builder'.done = Recorded /\ builder'.todo = accepted \ Recorded
  BY <1>2, DownFields
<1>4. OKBuilder(builder', accepted, nodes, edges)
  BY <1>1, <1>3 DEF OKBuilder, OKStores, Steps
<1> QED BY <1>1, <1>2, <1>4, GraphInvPartsNext

LEMMA TakeDocumentKeeps ==
    ASSUME GraphInv, NEW d \in Documents, TakeDocument(d)
    PROVE  GraphInv'
<1>1. /\ OKStores(accepted, nodes, edges, Recorded) /\ OKBuilder(builder, accepted, nodes, edges)
      /\ crashes \in 0..MaxCrashes
  BY GraphInvParts
<1>2. /\ accepted' = accepted /\ nodes' = nodes /\ edges' = edges
      /\ crashes' = crashes /\ Recorded' = Recorded
      /\ builder.at = "next" /\ d \in builder.todo
      /\ builder' = IF d \notin Readable
                    THEN [builder EXCEPT !.todo = @ \ {d}]
                    ELSE [builder EXCEPT !.at = "fuse", !.todo = @ \ {d}, !.document = d, !.next = 1,
                                         !.fused = NoFunction, !.remap = NoFunction]
  BY RecordedStays DEF TakeDocument
<1>3. d \in accepted /\ DOMAIN builder = DOMAIN Down
  BY <1>1, <1>2 DEF OKBuilder
<1>4. CASE d \notin Readable
  <2>1. /\ DOMAIN builder' = DOMAIN Down /\ builder'.at = "next"
        /\ builder'.done = builder.done /\ builder'.todo = builder.todo \ {d}
    BY <1>2, <1>3, <1>4, DownFields
  <2> QED BY <1>1, <1>2, <1>3, <2>1, GraphInvPartsNext DEF OKBuilder, Steps
<1>5. CASE d \in Readable
  <2>1. /\ DOMAIN builder' = DOMAIN Down /\ builder'.at = "fuse" /\ builder'.document = d
        /\ builder'.done = builder.done /\ builder'.todo = builder.todo \ {d}
        /\ builder'.next = 1 /\ builder'.fused = NoFunction /\ builder'.remap = NoFunction
    BY <1>2, <1>3, <1>5, DownFields
  <2>2. AtFuse(accepted, nodes, d, 1, NoFunction, NoFunction)
    <3>1. 1 \in DOMAIN CandidatesOf[d]
      BY <1>5, Mapped
    <3>2. DOMAIN NoFunction = {}
      BY DEF NoFunction
    <3> HIDE DEF NoFunction
    <3>3. FusedOver(accepted, nodes, NoFunction, d, 0)
      BY <3>2, FS_EmptySet DEF FusedOver, OKNodes
    <3>4. Moved(NoFunction, NoFunction, d, 0)
      BY <3>2 DEF Moved
    <3> QED BY <3>1, <3>3, <3>4 DEF AtFuse
  <2> QED BY <1>1, <1>2, <1>3, <1>5, <2>1, <2>2, GraphInvPartsNext DEF OKBuilder, Steps
<1> QED BY <1>4, <1>5

\* One more candidate folded in: what Fused and Moved say of those before it
\* they say with it.
LEMMA FoldOneMore ==
    ASSUME OKNodes(accepted, nodes), NEW d \in accepted \cap Readable,
           NEW next \in DOMAIN CandidatesOf[d], NEW fused, NEW remap,
           AtFuse(accepted, nodes, d, next, fused, remap),
           NEW matched \in Matches(CandidatesOf[d][next])
    PROVE  LET c == CandidatesOf[d][next]
               F == Fuse(fused, c, matched, d)
               R == Put(remap, c.id, CanonicalId(c, matched))
           IN FusedOver(accepted, nodes, F, d, next) /\ Moved(R, F, d, next)
<1> DEFINE all == CandidatesOf[d]
           c == all[next]
           home == CanonicalId(c, matched)
           F == Fuse(fused, c, matched, d)
           R == Put(remap, c.id, home)
<1>1. /\ DOMAIN all = 1..Len(all) /\ Len(all) \in Nat
      /\ \A n \in DOMAIN all : all[n] \in Candidates
  BY Mapped
<1>2. /\ NodesOK(nodes) /\ NodesOK(fused)
      /\ \A id \in DOMAIN nodes \cap DOMAIN fused : Grown(id, nodes[id], fused[id])
      /\ \A n \in 1..(next - 1) : Cited(fused, all[n], d)
  BY NodesOKIs DEF AtFuse, FusedOver
<1>3. /\ DOMAIN remap = {all[n].id : n \in 1..(next - 1)}
      /\ \A id \in DOMAIN remap : \E n \in DOMAIN all :
            all[n].id = id /\ remap[id] \in FoundIn(fused, all[n])
  BY DEF AtFuse, Moved
<1>4. next \in 1..Len(all) /\ c \in Candidates /\ matched \in Matches(c) /\ d \in accepted
  BY <1>1
<1> HIDE DEF c, all
<1>5. /\ NodesOK(F) /\ DOMAIN F = DOMAIN fused \cup {home}
      /\ \A id \in DOMAIN fused : Grown(id, fused[id], F[id])
      /\ \A id \in DOMAIN nodes \cap DOMAIN F : Grown(id, nodes[id], F[id])
      /\ home \in FoundIn(F, c)
      /\ c.stub \/ d \in F[home].provenance
  BY <1>2, <1>4, FuseEffect
<1> HIDE DEF home, F
<1>6. GraphGrown(fused, F)
  BY <1>5 DEF GraphGrown
<1>7. ASSUME NEW n \in 1..next PROVE Cited(F, all[n], d)
  <2>1. CASE n = next
    BY <2>1, <1>5 DEF Cited, c
  <2>2. CASE n # next
    <3>1. n \in 1..(next - 1) /\ all[n] \in Candidates
      BY <2>2, <1>1, <1>4
    <3> QED BY <3>1, <1>2, <1>6, CitedStays
  <2> QED BY <2>1, <2>2
<1>8. FusedOver(accepted, nodes, F, d, next)
  BY <1>5, <1>7, NodesOKIs DEF FusedOver, all
<1>9. /\ DOMAIN R = DOMAIN remap \cup {c.id} /\ R[c.id] = home
      /\ \A id \in DOMAIN remap \ {c.id} : R[id] = remap[id]
  BY DEF Put
<1> HIDE DEF R
<1>10. DOMAIN R = {all[n].id : n \in 1..next}
  <2>1. 1..next = (1..(next - 1)) \cup {next}
    BY <1>4
  <2> QED BY <1>3, <1>9, <2>1 DEF c
<1>11. ASSUME NEW id \in DOMAIN R
       PROVE  \E n \in DOMAIN all : all[n].id = id /\ R[id] \in FoundIn(F, all[n])
  <2>1. CASE id = c.id
    <3>1. next \in DOMAIN all /\ all[next] = c
      BY <1>1, <1>4 DEF c
    <3> QED BY <2>1, <3>1, <1>5, <1>9
  <2>2. CASE id # c.id
    <3>1. id \in DOMAIN remap /\ R[id] = remap[id]
      BY <2>2, <1>9
    <3>2. PICK n \in DOMAIN all : all[n].id = id /\ remap[id] \in FoundIn(fused, all[n])
      BY <3>1, <1>3
    <3>3. remap[id] \in FoundIn(F, all[n])
      BY <3>2, <1>1, <1>2, <1>6, FoundStays
    <3> QED BY <3>1, <3>2, <3>3
  <2> QED BY <2>1, <2>2
<1>12. Moved(R, F, d, next)
  BY <1>10, <1>11 DEF Moved, all
<1> QED BY <1>8, <1>12 DEF F, R, home, c, all

\* Once every candidate has a home, the edges of the document lie between them.
LEMMA RemappedEdges ==
    ASSUME NEW d \in Readable, NEW F, NEW R, Moved(R, F, d, Len(CandidatesOf[d]))
    PROVE  LET keys == {Remap(R, e) : e \in EdgesOf[d]}
           IN keys \subseteq Between(F) /\ Joined(keys, F, d)
<1> DEFINE all == CandidatesOf[d]
           keys == {Remap(R, e) : e \in EdgesOf[d]}
<1>1. /\ DOMAIN all = 1..Len(all)
      /\ \A e \in EdgesOf[d] : /\ e \in EdgeKeys
                               /\ \E n \in DOMAIN all : all[n].id = e[1]
                               /\ \E n \in DOMAIN all : all[n].id = e[3]
  BY Mapped
<1>2. /\ DOMAIN R = {all[n].id : n \in 1..Len(all)}
      /\ \A id \in DOMAIN R : \E n \in DOMAIN all :
            all[n].id = id /\ R[id] \in FoundIn(F, all[n])
  BY DEF Moved
<1> HIDE DEF all
<1>3. ASSUME NEW e \in EdgesOf[d]
      PROVE  Remap(R, e) \in Between(F) /\ Joins(F, Remap(R, e), e, all)
  <2>1. e[1] \in DOMAIN R /\ e[3] \in DOMAIN R /\ e[2] \in Relations
    BY <1>1, <1>2 DEF EdgeKeys
  <2>2. PICK m \in DOMAIN all : all[m].id = e[1] /\ R[e[1]] \in FoundIn(F, all[m])
    BY <2>1, <1>2
  <2>3. PICK n \in DOMAIN all : all[n].id = e[3] /\ R[e[3]] \in FoundIn(F, all[n])
    BY <2>1, <1>2
  <2>4. R[e[1]] \in DOMAIN F /\ R[e[3]] \in DOMAIN F
    BY <2>2, <2>3 DEF FoundIn
  <2>5. /\ Remap(R, e) = <<R[e[1]], e[2], R[e[3]]>>
        /\ Remap(R, e)[1] = R[e[1]] /\ Remap(R, e)[2] = e[2] /\ Remap(R, e)[3] = R[e[3]]
    BY DEF Remap
  <2> QED BY <2>1, <2>2, <2>3, <2>4, <2>5 DEF Between, Joins
<1>4. keys \subseteq Between(F) /\ Joined(keys, F, d)
  BY <1>3 DEF Joined, all
<1> QED BY <1>4

LEMMA FuseCandidateKeeps ==
    ASSUME GraphInv, FuseCandidate
    PROVE  GraphInv'
<1> DEFINE d == builder.document
           all == CandidatesOf[d]
           c == all[builder.next]
<1>1. /\ OKStores(accepted, nodes, edges, Recorded) /\ OKBuilder(builder, accepted, nodes, edges)
      /\ crashes \in 0..MaxCrashes
  BY GraphInvParts
<1>2. /\ accepted' = accepted /\ nodes' = nodes /\ edges' = edges
      /\ crashes' = crashes /\ Recorded' = Recorded /\ builder.at = "fuse"
  BY RecordedStays DEF FuseCandidate
<1>3. PICK matched \in Matches(c) :
         LET F == Fuse(builder.fused, c, matched, d)
             R == Put(builder.remap, c.id, CanonicalId(c, matched))
         IN builder' = IF builder.next < Len(all)
                       THEN [builder EXCEPT !.next = @ + 1, !.fused = F, !.remap = R]
                       ELSE [builder EXCEPT !.at = "nodes", !.next = 0, !.fused = F,
                                            !.remap = NoFunction,
                                            !.keys = {Remap(R, e) : e \in EdgesOf[d]}]
  BY DEF FuseCandidate
<1> DEFINE F == Fuse(builder.fused, c, matched, d)
           R == Put(builder.remap, c.id, CanonicalId(c, matched))
           keys == {Remap(R, e) : e \in EdgesOf[d]}
<1>4. /\ d \in accepted \cap Readable /\ DOMAIN builder = DOMAIN Down
      /\ AtFuse(accepted, nodes, d, builder.next, builder.fused, builder.remap)
      /\ builder.next \in DOMAIN all
  BY <1>1, <1>2 DEF OKBuilder, AtFuse
<1>5. FusedOver(accepted, nodes, F, d, builder.next) /\ Moved(R, F, d, builder.next)
  BY <1>1, <1>4, FoldOneMore DEF OKStores
<1>6. DOMAIN all = 1..Len(all) /\ Len(all) \in Nat
  BY <1>4, Mapped
<1>7. builder' = IF builder.next < Len(all)
                 THEN [builder EXCEPT !.next = @ + 1, !.fused = F, !.remap = R]
                 ELSE [builder EXCEPT !.at = "nodes", !.next = 0, !.fused = F,
                                      !.remap = NoFunction, !.keys = keys]
  BY <1>3
<1> HIDE DEF F, R, keys
<1>8. CASE builder.next < Len(all)
  <2>1. /\ DOMAIN builder' = DOMAIN Down /\ builder'.at = "fuse" /\ builder'.document = d
        /\ builder'.done = builder.done /\ builder'.todo = builder.todo
        /\ builder'.next = builder.next + 1 /\ builder'.fused = F /\ builder'.remap = R
    BY <1>2, <1>4, <1>7, <1>8, DownFields
  <2>2. /\ builder.next + 1 \in DOMAIN CandidatesOf[d]
        /\ (builder.next + 1) - 1 = builder.next
    BY <1>4, <1>6, <1>8
  <2> HIDE DEF d, all
  <2>3. AtFuse(accepted, nodes, d, builder'.next, F, R)
    BY <1>5, <2>1, <2>2 DEF AtFuse
  <2>4. OKBuilder(builder', accepted, nodes, edges)
    BY <1>1, <1>4, <2>1, <2>3 DEF OKBuilder, Steps
  <2> QED BY <1>1, <1>2, <2>4, GraphInvPartsNext
<1>9. CASE ~(builder.next < Len(all))
  <2>1. /\ DOMAIN builder' = DOMAIN Down /\ builder'.at = "nodes" /\ builder'.document = d
        /\ builder'.done = builder.done /\ builder'.todo = builder.todo
        /\ builder'.fused = F /\ builder'.keys = keys
    BY <1>4, <1>7, <1>9, DownFields
  <2>2. builder.next = Len(all)
    BY <1>4, <1>6, <1>9
  <2>3. keys \subseteq Between(F) /\ Joined(keys, F, d)
    BY <1>4, <1>5, <2>2, RemappedEdges DEF keys
  <2>4. FusedOver(accepted, nodes, F, d, Len(all))
    BY <1>5, <2>2
  <2>5. AtNodes(accepted, nodes, d, F, keys)
    BY <2>3, <2>4 DEF AtNodes
  <2> HIDE DEF d, all
  <2>6. OKBuilder(builder', accepted, nodes, edges)
    BY <1>1, <1>4, <2>1, <2>5 DEF OKBuilder, Steps
  <2> QED BY <1>1, <1>2, <2>6, GraphInvPartsNext
<1> QED BY <1>8, <1>9

\* The nodes of the document replace those of the graph, which only grow by it.
LEMMA UpsertGrows ==
    ASSUME OKNodes(accepted, nodes), OKNodes(accepted, builder.fused),
           \A id \in DOMAIN nodes \cap DOMAIN builder.fused : Grown(id, nodes[id], builder.fused[id]),
           nodes' = Overwrite(nodes, builder.fused)
    PROVE  /\ GraphGrown(nodes, nodes') /\ GraphGrown(builder.fused, nodes')
           /\ OKNodes(accepted, nodes')
           /\ Between(nodes) \subseteq Between(nodes') /\ Between(builder.fused) \subseteq Between(nodes')
<1> DEFINE F == builder.fused
           G == Overwrite(nodes, F)
<1>1. /\ DOMAIN G = DOMAIN nodes \cup DOMAIN F
      /\ \A id \in DOMAIN F : G[id] = F[id]
      /\ \A id \in DOMAIN nodes \ DOMAIN F : G[id] = nodes[id]
  BY DEF Overwrite
<1>2. nodes' = G /\ OKNodes(accepted, F)
      /\ \A id \in DOMAIN nodes \cap DOMAIN F : Grown(id, nodes[id], F[id])
  OBVIOUS
<1> HIDE DEF F, G
<1>3. GraphGrown(nodes, G)
  BY <1>1, <1>2, GrownReflexive DEF GraphGrown
<1>4. GraphGrown(F, G)
  BY <1>1, GrownReflexive DEF GraphGrown
<1>5. OKNodes(accepted, G)
  <2>1. DOMAIN G \subseteq Ids /\ IsFiniteSet(DOMAIN G)
    <3>1. /\ DOMAIN nodes \subseteq Ids /\ IsFiniteSet(DOMAIN nodes)
          /\ DOMAIN F \subseteq Ids /\ IsFiniteSet(DOMAIN F)
      BY <1>2 DEF OKNodes
    <3>2. IsFiniteSet((DOMAIN nodes) \cup (DOMAIN F))
      BY <3>1, FS_Union
    <3> QED BY <1>1, <3>1, <3>2
  <2>2. \A id \in DOMAIN G :
          /\ G[id] \in [label : Labels, name : Names, aliases : SUBSET Names,
                        source : accepted \cup {None}, provenance : SUBSET accepted]
          /\ G[id].label = id[1]
          /\ IsStubName(G[id].name) => G[id].name \in {id[2]} \cup G[id].aliases
    BY <1>1, <1>2 DEF OKNodes
  <2> QED BY <2>1, <2>2 DEF OKNodes
<1>6. Between(nodes) \subseteq Between(G) /\ Between(F) \subseteq Between(G)
  BY <1>1 DEF Between
<1> QED BY <1>2, <1>3, <1>4, <1>5, <1>6 DEF F

LEMMA UpsertNodesKeeps ==
    ASSUME GraphInv, UpsertNodes
    PROVE  GraphInv' /\ GraphGrown(nodes, nodes')
<1> DEFINE d == builder.document
<1>1. /\ OKStores(accepted, nodes, edges, Recorded) /\ OKBuilder(builder, accepted, nodes, edges)
      /\ crashes \in 0..MaxCrashes
  BY GraphInvParts
<1>2. /\ accepted' = accepted /\ edges' = edges /\ crashes' = crashes /\ Recorded' = Recorded
      /\ builder.at = "nodes" /\ nodes' = Overwrite(nodes, builder.fused)
      /\ builder' = [builder EXCEPT !.at = "edges", !.fused = NoFunction]
  BY RecordedStays DEF UpsertNodes
<1>3. /\ d \in accepted \cap Readable /\ DOMAIN builder = DOMAIN Down
      /\ FusedOver(accepted, nodes, builder.fused, d, Len(CandidatesOf[d]))
      /\ builder.keys \subseteq Between(builder.fused)
      /\ Joined(builder.keys, builder.fused, d)
  BY <1>1, <1>2 DEF OKBuilder, AtNodes
<1>4. /\ OKNodes(accepted, nodes) /\ OKNodes(accepted, builder.fused)
      /\ NodesOK(nodes) /\ NodesOK(builder.fused)
  BY <1>1, <1>3, NodesOKIs DEF OKStores, FusedOver
<1>5. /\ GraphGrown(nodes, nodes') /\ GraphGrown(builder.fused, nodes') /\ OKNodes(accepted, nodes')
      /\ Between(nodes) \subseteq Between(nodes') /\ Between(builder.fused) \subseteq Between(nodes')
  BY <1>2, <1>3, <1>4, UpsertGrows DEF FusedOver
<1>6. \A doc : Holds(nodes, edges, doc) => Holds(nodes', edges, doc)
  BY <1>4, <1>5, HoldsStays
<1>7. OKStores(accepted, nodes', edges, Recorded)
  BY <1>1, <1>5, <1>6 DEF OKStores, OKEdges
<1>8. AtEdges(nodes', edges, d, builder.keys)
  <2>1. DOMAIN CandidatesOf[d] = 1..Len(CandidatesOf[d])
        /\ \A n \in DOMAIN CandidatesOf[d] : CandidatesOf[d][n] \in Candidates
    BY <1>3, Mapped
  <2>2. \A n \in DOMAIN CandidatesOf[d] : Cited(builder.fused, CandidatesOf[d][n], d)
    BY <1>3, <2>1 DEF FusedOver
  <2>3. \A n \in DOMAIN CandidatesOf[d] : Cited(nodes', CandidatesOf[d][n], d)
    BY <1>4, <1>5, <2>1, <2>2, CitedStays
  <2>4. \A key, e : Joins(builder.fused, key, e, CandidatesOf[d]) => Joins(nodes', key, e, CandidatesOf[d])
    BY <1>3, <1>4, <1>5, JoinsStays
  <2>5. Joined(builder.keys \cup CitingIn(edges, d), nodes', d)
    BY <1>3, <2>4 DEF Joined
  <2> QED BY <1>3, <1>5, <2>3, <2>5 DEF AtEdges
<1>9. /\ DOMAIN builder' = DOMAIN Down /\ builder'.at = "edges" /\ builder'.document = d
      /\ builder'.done = builder.done /\ builder'.todo = builder.todo /\ builder'.keys = builder.keys
  BY <1>2, <1>3, DownFields
<1> HIDE DEF d
<1>10. OKBuilder(builder', accepted, nodes', edges)
  BY <1>1, <1>3, <1>6, <1>8, <1>9 DEF OKBuilder, Steps
<1> QED BY <1>1, <1>2, <1>5, <1>7, <1>10, GraphInvPartsNext

LEMMA ReadEdgesKeeps ==
    ASSUME GraphInv, NEW relation \in Relations, ReadEdges(relation)
    PROVE  GraphInv'
<1> DEFINE d == builder.document
           batch == {k \in builder.keys : k[2] = relation}
<1>1. /\ OKStores(accepted, nodes, edges, Recorded) /\ OKBuilder(builder, accepted, nodes, edges)
      /\ crashes \in 0..MaxCrashes
  BY GraphInvParts
<1>2. /\ accepted' = accepted /\ nodes' = nodes /\ edges' = edges
      /\ crashes' = crashes /\ Recorded' = Recorded /\ builder.at = "edges"
      /\ builder' = [builder EXCEPT !.at = "merge", !.relation = relation,
                                    !.read = [k \in batch \cap DOMAIN edges |-> edges[k]]]
  BY RecordedStays DEF ReadEdges
<1>3. DOMAIN builder = DOMAIN Down
  BY <1>1 DEF OKBuilder
<1>4. /\ DOMAIN builder' = DOMAIN Down /\ builder'.at = "merge" /\ builder'.document = d
      /\ builder'.done = builder.done /\ builder'.todo = builder.todo /\ builder'.keys = builder.keys
      /\ builder'.relation = relation
      /\ builder'.read = [k \in batch \cap DOMAIN edges |-> edges[k]]
  BY <1>2, <1>3, DownFields
<1>5. batch \cap DOMAIN edges = {k \in builder.keys \cap DOMAIN edges : k[2] = relation}
  OBVIOUS
<1>6. builder'.read = [k \in {k \in builder'.keys \cap DOMAIN edges : k[2] = builder'.relation} |-> edges[k]]
  BY <1>4, <1>5
<1> HIDE DEF d, batch
<1>7. OKBuilder(builder', accepted, nodes, edges)
  BY <1>1, <1>2, <1>4, <1>6 DEF OKBuilder, Steps
<1> QED BY <1>1, <1>2, <1>7, GraphInvPartsNext

\* Of the edges nothing is lost: each keeps its source and gains at most a
\* document.
EdgesGrown(old, new) ==
    \A key \in DOMAIN old : /\ key \in DOMAIN new
                            /\ old[key].provenance \subseteq new[key].provenance
                            /\ old[key].source = new[key].source

BatchOf(keys, relation) == {k \in keys : k[2] = relation}

\* The edges when a batch of d's was written over what had been read.
Written(graph, links, batch, read, d) ==
    Overwrite(links, [k \in {k \in batch : k[1] \in DOMAIN graph /\ k[3] \in DOMAIN graph} |->
                         MergeEdge(read, k, d)])

\* What the batch is written over is still what was read of it.
LEMMA WriteGrows ==
    ASSUME NEW graph, NEW links, NEW docs, OKEdges(docs, graph, links), NEW d \in docs,
           NEW keys, keys \subseteq Between(graph), NEW relation,
           NEW read, read = [k \in {k \in keys \cap DOMAIN links : k[2] = relation} |-> links[k]]
    PROVE  LET batch == BatchOf(keys, relation)
               new == Written(graph, links, batch, read, d)
           IN /\ EdgesGrown(links, new) /\ OKEdges(docs, graph, new)
              /\ keys \subseteq (keys \ batch) \cup CitingIn(new, d)
<1> DEFINE batch == BatchOf(keys, relation)
           joined == {k \in batch : k[1] \in DOMAIN graph /\ k[3] \in DOMAIN graph}
           new == Written(graph, links, batch, read, d)
<1>1. joined = batch
  BY DEF Between, BatchOf
<1>2. /\ DOMAIN new = DOMAIN links \cup joined
      /\ \A k \in joined : new[k] = MergeEdge(read, k, d)
      /\ \A k \in DOMAIN links \ joined : new[k] = links[k]
  BY DEF Overwrite, Written
<1>3. \A k \in batch : /\ k \in DOMAIN links => k \in DOMAIN read /\ read[k] = links[k]
                       /\ k \in DOMAIN read => k \in DOMAIN links
  BY DEF BatchOf
<1>4. keys \subseteq (keys \ batch) \cup batch /\ batch \subseteq Between(graph)
  BY DEF BatchOf
<1> HIDE DEF joined, new, batch
<1>5. \A k \in batch : /\ k \in DOMAIN new
                       /\ new[k].source = (IF k \in DOMAIN links THEN links[k].source ELSE d)
                       /\ new[k].provenance =
                              (IF k \in DOMAIN links THEN links[k].provenance \cup {d} ELSE {d})
  <2> SUFFICES ASSUME NEW k \in batch
               PROVE  /\ k \in DOMAIN new
                      /\ new[k].source = (IF k \in DOMAIN links THEN links[k].source ELSE d)
                      /\ new[k].provenance =
                             (IF k \in DOMAIN links THEN links[k].provenance \cup {d} ELSE {d})
    OBVIOUS
  <2>1. k \in DOMAIN new /\ new[k] = MergeEdge(read, k, d)
    BY <1>1, <1>2
  <2>2. CASE k \in DOMAIN links
    <3>1. k \in DOMAIN read /\ read[k] = links[k]
      BY <2>2, <1>3
    <3>2. new[k] = [source |-> links[k].source, provenance |-> links[k].provenance \cup {d}]
      BY <2>1, <3>1 DEF MergeEdge
    <3> QED BY <2>1, <2>2, <3>2
  <2>3. CASE k \notin DOMAIN links
    <3>1. k \notin DOMAIN read
      BY <2>3, <1>3
    <3>2. new[k] = [source |-> d, provenance |-> {d}]
      BY <2>1, <3>1 DEF MergeEdge
    <3> QED BY <2>1, <2>3, <3>2
  <2> QED BY <2>2, <2>3
<1>6. EdgesGrown(links, new)
  BY <1>1, <1>2, <1>5 DEF EdgesGrown
<1>7. OKEdges(docs, graph, new)
  BY <1>1, <1>2, <1>4, <1>5 DEF OKEdges
<1>8. keys \subseteq (keys \ batch) \cup CitingIn(new, d)
  BY <1>4, <1>5 DEF CitingIn
<1> QED BY <1>6, <1>7, <1>8 DEF new, batch

LEMMA WriteEdgesKeeps ==
    ASSUME GraphInv, WriteEdges
    PROVE  GraphInv' /\ EdgesGrown(edges, edges')
<1> DEFINE d == builder.document
           batch == BatchOf(builder.keys, builder.relation)
<1>1. /\ OKStores(accepted, nodes, edges, Recorded) /\ OKBuilder(builder, accepted, nodes, edges)
      /\ crashes \in 0..MaxCrashes
  BY GraphInvParts
<1>2. /\ accepted' = accepted /\ nodes' = nodes /\ crashes' = crashes /\ Recorded' = Recorded
      /\ builder.at = "merge"
      /\ edges' = Written(nodes, edges, batch, builder.read, d)
      /\ builder' = [builder EXCEPT !.at = "edges", !.keys = @ \ batch,
                                    !.read = NoFunction, !.relation = None]
  BY RecordedStays DEF WriteEdges, Written, BatchOf
<1>3. /\ d \in accepted \cap Readable /\ DOMAIN builder = DOMAIN Down
      /\ AtEdges(nodes, edges, d, builder.keys)
      /\ builder.read = [k \in {k \in builder.keys \cap DOMAIN edges : k[2] = builder.relation}
                           |-> edges[k]]
  BY <1>1, <1>2 DEF OKBuilder
<1>4. OKEdges(accepted, nodes, edges) /\ builder.keys \subseteq Between(nodes) /\ NodesOK(nodes)
  BY <1>1, <1>3, NodesOKIs DEF OKStores, AtEdges
<1>5. /\ EdgesGrown(edges, edges') /\ OKEdges(accepted, nodes, edges')
      /\ builder.keys \subseteq (builder.keys \ batch) \cup CitingIn(edges', d)
  BY <1>2, <1>3, <1>4, WriteGrows
<1> HIDE DEF batch
<1>6. \A doc : CitingIn(edges, doc) \subseteq CitingIn(edges', doc)
  BY <1>5 DEF EdgesGrown, CitingIn
<1>7. GraphGrown(nodes, nodes)
  BY GrownReflexive DEF GraphGrown
<1>8. \A doc : Holds(nodes, edges, doc) => Holds(nodes, edges', doc)
  BY <1>4, <1>6, <1>7, HoldsStays
<1>9. OKStores(accepted, nodes, edges', Recorded)
  BY <1>1, <1>5, <1>8 DEF OKStores
<1>10. AtEdges(nodes, edges', d, builder.keys \ batch)
  BY <1>3, <1>5, <1>6 DEF AtEdges, Joined
<1>11. /\ DOMAIN builder' = DOMAIN Down /\ builder'.at = "edges" /\ builder'.document = d
       /\ builder'.done = builder.done /\ builder'.todo = builder.todo
       /\ builder'.keys = builder.keys \ batch
  BY <1>2, <1>3, DownFields
<1> HIDE DEF d
<1>12. OKBuilder(builder', accepted, nodes, edges')
  BY <1>1, <1>3, <1>8, <1>10, <1>11 DEF OKBuilder, Steps
<1> QED BY <1>1, <1>2, <1>5, <1>9, <1>12, GraphInvPartsNext

LEMMA TruncateCheckpointKeeps ==
    ASSUME GraphInv, TruncateCheckpoint
    PROVE  GraphInv'
<1> DEFINE d == builder.document
<1>1. /\ OKStores(accepted, nodes, edges, Recorded) /\ OKBuilder(builder, accepted, nodes, edges)
      /\ crashes \in 0..MaxCrashes
  BY GraphInvParts
<1>2. /\ accepted' = accepted /\ nodes' = nodes /\ edges' = edges /\ crashes' = crashes
      /\ builder.at = "edges" /\ builder.keys = {} /\ Recorded' = {}
      /\ builder' = [builder EXCEPT !.at = "record", !.done = @ \cup {d}]
  BY DEF TruncateCheckpoint, Recorded
<1>3. d \in accepted \cap Readable /\ DOMAIN builder = DOMAIN Down /\ AtEdges(nodes, edges, d, {})
  BY <1>1, <1>2 DEF OKBuilder
<1>4. Holds(nodes, edges, d)
  <2>1. {} \cup CitingIn(edges, d) = CitingIn(edges, d)
    OBVIOUS
  <2> QED BY <1>3, <2>1 DEF AtEdges, Holds
<1>5. /\ DOMAIN builder' = DOMAIN Down /\ builder'.at = "record" /\ builder'.document = d
      /\ builder'.done = builder.done \cup {d} /\ builder'.todo = builder.todo
  BY <1>2, <1>3, DownFields
<1> HIDE DEF d
<1>6. OKBuilder(builder', accepted, nodes, edges)
  BY <1>1, <1>3, <1>4, <1>5 DEF OKBuilder, Steps
<1>7. OKStores(accepted, nodes, edges, {})
  BY <1>1 DEF OKStores
<1> QED BY <1>1, <1>2, <1>6, <1>7, GraphInvPartsNext

LEMMA FillCheckpointKeeps ==
    ASSUME GraphInv, FillCheckpoint
    PROVE  GraphInv'
<1>1. /\ OKStores(accepted, nodes, edges, Recorded) /\ OKBuilder(builder, accepted, nodes, edges)
      /\ crashes \in 0..MaxCrashes
  BY GraphInvParts
<1>2. /\ accepted' = accepted /\ nodes' = nodes /\ edges' = edges /\ crashes' = crashes
      /\ Recorded' \in {{}, builder.done}
      /\ builder' = [builder EXCEPT !.at = "next", !.document = None]
  BY DEF FillCheckpoint, Recorded
<1>3. DOMAIN builder = DOMAIN Down
  BY <1>1 DEF OKBuilder
<1>4. /\ DOMAIN builder' = DOMAIN Down /\ builder'.at = "next"
      /\ builder'.done = builder.done /\ builder'.todo = builder.todo
  BY <1>2, <1>3, DownFields
<1>5. OKBuilder(builder', accepted, nodes, edges)
  BY <1>1, <1>4 DEF OKBuilder, Steps
<1>6. OKStores(accepted, nodes, edges, Recorded')
  BY <1>1, <1>2 DEF OKStores, OKBuilder
<1> QED BY <1>1, <1>2, <1>5, <1>6, GraphInvPartsNext

LEMMA StopKeeps ==
    ASSUME GraphInv, Finish \/ Crash
    PROVE  GraphInv'
<1>1. /\ OKStores(accepted, nodes, edges, Recorded) /\ crashes \in 0..MaxCrashes
  BY GraphInvParts
<1>2. /\ accepted' = accepted /\ nodes' = nodes /\ edges' = edges /\ Recorded' = Recorded
      /\ builder' = Down
  BY RecordedStays DEF Finish, Crash
<1>3. crashes' \in 0..MaxCrashes
  BY <1>1, GraphAssumption DEF Finish, Crash
<1> QED BY <1>1, <1>2, <1>3, DownIsOK, GraphInvPartsNext

LEMMA GraphInitOK ==
    ASSUME GraphInit
    PROVE  GraphInv
<1>1. /\ accepted = {} /\ nodes = NoFunction /\ edges = NoFunction /\ builder = Down /\ crashes = 0
      /\ Recorded = {}
  BY DEF GraphInit, Recorded
<1>2. DOMAIN NoFunction = {}
  BY DEF NoFunction
<1>3. OKStores(accepted, nodes, edges, Recorded)
  BY <1>1, <1>2, FS_EmptySet DEF OKStores, OKNodes, OKEdges
<1>4. crashes \in 0..MaxCrashes
  BY <1>1, GraphAssumption
<1> QED BY <1>1, <1>3, <1>4, DownIsOK, GraphInvParts

\* A step of the build, of its death or of the labeling.
LEMMA GraphStepKeeps ==
    ASSUME GraphInv, GraphNext \/ UNCHANGED graphVars
    PROVE  GraphInv'
<1>1. CASE Start \/ FuseCandidate \/ UpsertNodes \/ WriteEdges \/ TruncateCheckpoint \/ FillCheckpoint
  BY <1>1, StartKeeps, FuseCandidateKeeps, UpsertNodesKeeps, WriteEdgesKeeps, TruncateCheckpointKeeps,
     FillCheckpointKeeps
<1>2. CASE Finish \/ Crash
  BY <1>2, StopKeeps
<1>3. CASE \E d \in Documents : TakeDocument(d) \/ Accept(d)
  BY <1>3, TakeDocumentKeeps, AcceptKeeps
<1>4. CASE \E r \in Relations : ReadEdges(r)
  BY <1>4, ReadEdgesKeeps
<1>5. CASE UNCHANGED graphVars
  <2>1. /\ accepted' = accepted /\ nodes' = nodes /\ edges' = edges /\ Recorded' = Recorded
        /\ builder' = builder /\ crashes' = crashes
    BY <1>5, RecordedStays DEF graphVars
  <2> QED BY <2>1, GraphInvParts, GraphInvPartsNext
<1> QED BY <1>1, <1>2, <1>3, <1>4, <1>5 DEF GraphNext, Build

\* Only two steps write the nodes or the edges, and both only add.
LEMMA GraphStepAdds ==
    ASSUME GraphInv, GraphNext
    PROVE  /\ GraphGrown(nodes, nodes') /\ EdgesGrown(edges, edges')
<1>1. CASE UpsertNodes
  <2>1. edges' = edges
    BY <1>1 DEF UpsertNodes
  <2> QED BY <1>1, <2>1, UpsertNodesKeeps DEF EdgesGrown
<1>2. CASE WriteEdges
  <2>1. nodes' = nodes
    BY <1>2 DEF WriteEdges
  <2> QED BY <1>2, <2>1, WriteEdgesKeeps, GrownReflexive DEF GraphGrown
<1>3. CASE ~UpsertNodes /\ ~WriteEdges
  <2>1. nodes' = nodes /\ edges' = edges
    BY <1>3 DEF GraphNext, Build, Start, TakeDocument, FuseCandidate, ReadEdges, TruncateCheckpoint,
                FillCheckpoint, Finish, Crash, Accept
  <2> QED BY <2>1, GrownReflexive DEF GraphGrown, EdgesGrown
<1> QED BY <1>1, <1>2, <1>3

\* The checkpoint names what is in the graph, whatever crashed or was fused in
\* between: GraphInv is kept by every step, of a question too.
THEOREM CheckpointedIsInGraph == SearchSpec => []GraphInv
<1>1. SearchInit => GraphInv
  BY GraphInitOK DEF SearchInit
<1>2. GraphInv /\ [SearchNext]_searchVars => GraphInv'
  <2> SUFFICES ASSUME GraphInv, [SearchNext]_searchVars PROVE GraphInv'
    OBVIOUS
  <2>1. GraphNext \/ UNCHANGED graphVars
    BY DEF SearchNext, searchVars, Retrieve, Match, TraverseForward, TraverseUndirected, Ask
  <2> QED BY <2>1, GraphStepKeeps
<1> QED BY <1>1, <1>2, PTL DEF SearchSpec

\* No node and no edge loses a document, its source or a name to a later write.
THEOREM FusionAdds == SearchSpec => FusionOnlyAdds
<1> DEFINE Adds ==
        /\ \A id \in DOMAIN nodes : id \in DOMAIN nodes' /\ Grown(id, nodes[id], nodes'[id])
        /\ \A key \in DOMAIN edges :
             /\ key \in DOMAIN edges'
             /\ edges[key].provenance \subseteq edges'[key].provenance
             /\ edges[key].source = edges'[key].source
<1>1. GraphInv /\ [SearchNext]_searchVars => [Adds]_<<nodes, edges>>
  <2> SUFFICES ASSUME GraphInv, [SearchNext]_searchVars PROVE [Adds]_<<nodes, edges>>
    OBVIOUS
  <2>1. CASE GraphNext
    BY <2>1, GraphStepAdds DEF GraphGrown, EdgesGrown
  <2>2. CASE UNCHANGED <<nodes, edges>>
    BY <2>2
  <2>3. GraphNext \/ UNCHANGED <<nodes, edges>>
    BY DEF SearchNext, searchVars, graphVars, Retrieve, Match, TraverseForward, TraverseUndirected, Ask
  <2> QED BY <2>1, <2>2, <2>3
<1>2. SearchSpec => []GraphInv
  BY CheckpointedIsInGraph
<1> QED BY <1>1, <1>2, PTL DEF SearchSpec, FusionOnlyAdds

-----------------------------------------------------------------------------
(* Putting things in order *)

\* The elements that come no later than n, the highest score first.
NoLater(scores, n) ==
    {m \in DOMAIN scores : \/ scores[m] > scores[n]
                           \/ scores[m] = scores[n] /\ m <= n}

LEMMA DescendingIs ==
    \A scores : Descending(scores) =
        [p \in 1..Cardinality(DOMAIN scores) |->
            CHOOSE n \in DOMAIN scores : Cardinality(NoLater(scores, n)) = p]
BY DEF Descending, NoLater

\* Of two elements one comes before the other, and has fewer before it.
LEMMA FewerBefore ==
    ASSUME NEW scores, IsFiniteSet(DOMAIN scores), DOMAIN scores \in SUBSET Nat,
           \A n \in DOMAIN scores : scores[n] \in Nat,
           NEW m \in DOMAIN scores, NEW n \in DOMAIN scores, m # n,
           scores[m] > scores[n] \/ (scores[m] = scores[n] /\ m < n)
    PROVE  Cardinality(NoLater(scores, m)) < Cardinality(NoLater(scores, n))
<1>1. NoLater(scores, m) \in SUBSET NoLater(scores, n) /\ n \in NoLater(scores, n)
  BY DEF NoLater
<1>2. n \notin NoLater(scores, m)
  BY DEF NoLater
<1>3. IsFiniteSet(NoLater(scores, n))
  BY FS_Subset DEF NoLater
<1>4. /\ IsFiniteSet(NoLater(scores, m))
      /\ Cardinality(NoLater(scores, m)) <= Cardinality(NoLater(scores, n))
      /\ Cardinality(NoLater(scores, n)) # Cardinality(NoLater(scores, m))
  BY <1>1, <1>2, <1>3, FS_Subset
<1>5. Cardinality(NoLater(scores, n)) \in Nat /\ Cardinality(NoLater(scores, m)) \in Nat
  BY <1>3, <1>4, FS_CardinalityType
<1> QED BY <1>4, <1>5

\* Descending lists every element once, the highest score first and of equal
\* ones the earlier.
LEMMA DescendingSorts ==
    ASSUME NEW scores, IsFiniteSet(DOMAIN scores), DOMAIN scores \in SUBSET Nat,
           \A n \in DOMAIN scores : scores[n] \in Nat
    PROVE  LET D == Descending(scores)
               C == Cardinality(DOMAIN scores)
           IN /\ C \in Nat /\ D \in [1..C -> DOMAIN scores]
              /\ \A n \in DOMAIN scores : \E p \in 1..C : D[p] = n
              /\ \A p, q \in 1..C : p < q =>
                    \/ scores[D[p]] > scores[D[q]]
                    \/ scores[D[p]] = scores[D[q]] /\ D[p] < D[q]
<1> DEFINE S == DOMAIN scores
           D == Descending(scores)
           C == Cardinality(S)
           Place == [n \in S |-> Cardinality(NoLater(scores, n))]
<1>1. C \in Nat
  BY FS_CardinalityType
<1>2. ASSUME NEW n \in S PROVE Place[n] \in 1..C
  <2>1. NoLater(scores, n) \in SUBSET S /\ n \in NoLater(scores, n)
    BY DEF NoLater
  <2>2. IsFiniteSet(NoLater(scores, n)) /\ Cardinality(NoLater(scores, n)) <= C
    BY <2>1, FS_Subset
  <2>3. Cardinality(NoLater(scores, n)) \in Nat /\ Cardinality(NoLater(scores, n)) # 0
    BY <2>1, <2>2, FS_CardinalityType, FS_EmptySet
  <2> QED BY <1>1, <2>2, <2>3
<1>3. \A m, n \in S : m # n /\ (scores[m] > scores[n] \/ (scores[m] = scores[n] /\ m < n))
                          => Place[m] < Place[n]
  BY FewerBefore
<1>4. ASSUME NEW m \in S, NEW n \in S, m # n PROVE Place[m] # Place[n]
  <2>1. m \in Nat /\ n \in Nat /\ scores[m] \in Nat /\ scores[n] \in Nat
    OBVIOUS
  <2>2. \/ scores[m] > scores[n] \/ (scores[m] = scores[n] /\ m < n)
        \/ scores[n] > scores[m] \/ (scores[n] = scores[m] /\ n < m)
    BY <1>4, <2>1
  <2>3. Place[m] < Place[n] \/ Place[n] < Place[m]
    BY <1>3, <1>4, <2>2
  <2>4. Place[m] \in 1..C /\ Place[n] \in 1..C
    BY <1>2
  <2> HIDE DEF Place
  <2> QED BY <1>1, <2>3, <2>4
<1>5. ASSUME NEW p \in 1..C PROVE \E n \in S : Place[n] = p
  <2> HIDE DEF Place, C, S
  <2>1. Place \in Injection(S, 1..C)
    <3>1. Place \in [S -> 1..C]
      BY <1>2 DEF Place
    <3>2. \A m, n \in S : Place[m] = Place[n] => m = n
      BY <1>4
    <3> QED BY <3>1, <3>2 DEF Injection, IsInjective
  <2>2. IsFiniteSet(1..C) /\ Cardinality(1..C) = C
    BY <1>1, FS_Interval
  <2>3. Cardinality(S) = C
    BY DEF C
  <2>4. Place \in Surjection(S, 1..C)
    BY <2>1, <2>2, <2>3, FS_Injection
  <2> QED BY <2>4 DEF Surjection
<1>6. ASSUME NEW p \in 1..C PROVE D[p] \in S /\ Place[D[p]] = p
  <2>1. D[p] = CHOOSE n \in S : Cardinality(NoLater(scores, n)) = p
    BY DescendingIs
  <2>2. \E n \in S : Cardinality(NoLater(scores, n)) = p
    BY <1>5
  <2> QED BY <2>1, <2>2
<1>7. D \in [1..C -> S]
  <2>1. D = [p \in 1..C |-> CHOOSE n \in S : Cardinality(NoLater(scores, n)) = p]
    BY DescendingIs
  <2> HIDE DEF D
  <2> QED BY <1>6, <2>1
<1> HIDE DEF Place, D, C
<1>8. ASSUME NEW n \in S PROVE \E p \in 1..C : D[p] = n
  <2>1. Place[n] \in 1..C /\ D[Place[n]] \in S /\ Place[D[Place[n]]] = Place[n]
    BY <1>2, <1>6
  <2>2. D[Place[n]] = n
    BY <1>4, <2>1
  <2> QED BY <2>1, <2>2
<1>9. ASSUME NEW p \in 1..C, NEW q \in 1..C, p < q
      PROVE  \/ scores[D[p]] > scores[D[q]]
             \/ scores[D[p]] = scores[D[q]] /\ D[p] < D[q]
  <2>1. D[p] \in S /\ D[q] \in S /\ Place[D[p]] = p /\ Place[D[q]] = q
    BY <1>6
  <2>2. D[p] # D[q] /\ ~(Place[D[q]] < Place[D[p]])
    BY <1>1, <1>9, <2>1
  <2>3. ~(scores[D[q]] > scores[D[p]] \/ (scores[D[q]] = scores[D[p]] /\ D[q] < D[p]))
    BY <1>3, <2>1, <2>2
  <2>4. D[p] \in Nat /\ D[q] \in Nat /\ scores[D[p]] \in Nat /\ scores[D[q]] \in Nat
    BY <2>1
  <2> QED BY <2>2, <2>3, <2>4
<1> QED BY <1>1, <1>7, <1>8, <1>9 DEF C, D

\* Of finitely many scores one is the highest.
LEMMA HighestExists ==
    ASSUME NEW scores, IsFiniteSet(DOMAIN scores), DOMAIN scores \in SUBSET Nat, DOMAIN scores # {},
           \A n \in DOMAIN scores : scores[n] \in Nat
    PROVE  \E n \in DOMAIN scores : \A m \in DOMAIN scores : scores[m] <= scores[n]
<1> DEFINE D == Descending(scores)
           C == Cardinality(DOMAIN scores)
<1>1. /\ C \in Nat /\ D \in [1..C -> DOMAIN scores]
      /\ \A n \in DOMAIN scores : \E p \in 1..C : D[p] = n
      /\ \A p, q \in 1..C : p < q => \/ scores[D[p]] > scores[D[q]]
                                     \/ scores[D[p]] = scores[D[q]] /\ D[p] < D[q]
  BY DescendingSorts
<1>2. C # 0
  BY FS_EmptySet
<1> HIDE DEF D, C
<1>3. 1 \in 1..C /\ D[1] \in DOMAIN scores
  BY <1>1, <1>2
<1>4. ASSUME NEW m \in DOMAIN scores PROVE scores[m] <= scores[D[1]]
  <2>1. PICK p \in 1..C : D[p] = m
    BY <1>1
  <2>2. CASE p = 1
    BY <1>3, <2>1, <2>2
  <2>3. CASE 1 < p
    <3>1. \/ scores[D[1]] > scores[D[p]] \/ scores[D[1]] = scores[D[p]]
      BY <1>1, <1>3, <2>3
    <3>2. scores[m] \in Nat /\ scores[D[1]] \in Nat
      BY <1>3
    <3> QED BY <2>1, <3>1, <3>2
  <2>4. p = 1 \/ 1 < p
    BY <1>1
  <2> QED BY <2>2, <2>3, <2>4
<1> QED BY <1>3, <1>4

-----------------------------------------------------------------------------
(* The evidence of a question *)

Evidence == [kind : {"node", "path"}, ids : SUBSET Ids, score : Nat]

LEMMA EvidenceFields ==
    ASSUME NEW e \in Evidence
    PROVE  e.kind \in {"node", "path"} /\ e.ids \in SUBSET Ids /\ e.score \in Nat
BY DEF Evidence

\* Before it is put in order: every path behind an entity of its own that scores
\* the same.
PathsScored(evidence) ==
    \A n \in DOMAIN evidence : evidence[n].kind = "path" =>
        \E m \in 1..(n - 1) : /\ evidence[m].kind = "node"
                              /\ evidence[m].ids \subseteq evidence[n].ids
                              /\ evidence[m].score = evidence[n].score

\* Once it is: the best first, which keeps a path behind its entity.
InGoodOrder(evidence) ==
    \A n \in DOMAIN evidence :
        /\ \A m \in 1..n : evidence[m].score >= evidence[n].score
        /\ evidence[n].kind = "path" =>
               \E m \in 1..(n - 1) : /\ evidence[m].kind = "node"
                                     /\ evidence[m].ids \subseteq evidence[n].ids
                                     /\ evidence[m].score = evidence[n].score

\* Sorting by score keeps equal scores in place, so that a path stays behind an
\* entity that scores the same.
LEMMA InOrderSorts ==
    ASSUME NEW evidence \in Seq(Evidence), PathsScored(evidence)
    PROVE  InGoodOrder(InOrder(evidence))
<1> DEFINE scores == [n \in DOMAIN evidence |-> evidence[n].score]
           D == Descending(scores)
           C == Cardinality(DOMAIN evidence)
           R == InOrder(evidence)
<1>1. /\ DOMAIN evidence = 1..Len(evidence) /\ Len(evidence) \in Nat
      /\ \A n \in DOMAIN evidence : evidence[n] \in Evidence
  BY ElementOfSeq, LenProperties
<1>2. /\ DOMAIN scores = DOMAIN evidence /\ DOMAIN scores \in SUBSET Nat /\ IsFiniteSet(DOMAIN scores)
      /\ \A n \in DOMAIN scores : scores[n] \in Nat /\ scores[n] = evidence[n].score
  BY <1>1, EvidenceFields, FS_Interval
<1>3. /\ C \in Nat /\ D \in [1..C -> DOMAIN evidence]
      /\ \A n \in DOMAIN evidence : \E p \in 1..C : D[p] = n
      /\ \A p, q \in 1..C : p < q =>
            \/ scores[D[p]] > scores[D[q]]
            \/ scores[D[p]] = scores[D[q]] /\ D[p] < D[q]
  <2> HIDE DEF scores
  <2> QED BY <1>2, DescendingSorts
<1>4. R = [p \in DOMAIN D |-> evidence[D[p]]]
  BY DEF InOrder
<1> HIDE DEF scores, D, C, R
<1>5. /\ DOMAIN R = 1..C /\ \A p \in 1..C : R[p] = evidence[D[p]] /\ D[p] \in DOMAIN evidence
  BY <1>3, <1>4
<1>6. \A p \in 1..C : scores[D[p]] = R[p].score /\ R[p].score \in Nat /\ D[p] \in Nat
  BY <1>1, <1>2, <1>5
<1>7. ASSUME NEW n \in 1..C, NEW m \in 1..n PROVE R[m].score >= R[n].score
  <2>1. m \in 1..C /\ (m = n \/ m < n)
    BY <1>3
  <2>2. CASE m = n
    BY <2>2, <1>6
  <2>3. CASE m < n
    <3>1. R[m].score > R[n].score \/ R[m].score = R[n].score
      BY <1>3, <1>6, <2>1, <2>3
    <3>2. R[m].score \in Nat /\ R[n].score \in Nat
      BY <1>6, <2>1
    <3> QED BY <3>1, <3>2
  <2> QED BY <2>1, <2>2, <2>3
<1>8. ASSUME NEW n \in 1..C, R[n].kind = "path"
      PROVE  \E m \in 1..(n - 1) : /\ R[m].kind = "node" /\ R[m].ids \subseteq R[n].ids
                                   /\ R[m].score = R[n].score
  <2>1. PICK k \in 1..(D[n] - 1) : /\ evidence[k].kind = "node"
                                   /\ evidence[k].ids \subseteq R[n].ids
                                   /\ evidence[k].score = R[n].score
    BY <1>5, <1>8 DEF PathsScored
  <2>2. k \in DOMAIN evidence /\ k < D[n]
    <3>1. D[n] \in 1..Len(evidence)
      BY <1>1, <1>5
    <3> QED BY <1>1, <3>1
  <2>3. PICK p \in 1..C : D[p] = k
    BY <1>3, <2>2
  <2>4. R[p] = evidence[k] /\ scores[D[p]] = scores[D[n]]
    BY <1>5, <1>6, <2>1, <2>3
  <2>5. scores[D[n]] \in Nat /\ D[n] \in Nat /\ D[p] \in Nat /\ D[p] < D[n]
    BY <1>6, <2>2, <2>3
  <2>6. ~(n < p)
    <3> SUFFICES ASSUME n < p PROVE FALSE
      OBVIOUS
    <3>1. scores[D[n]] > scores[D[p]] \/ D[n] < D[p]
      BY <1>3
    <3> QED BY <2>4, <2>5, <3>1
  <2>7. n # p
    BY <2>5
  <2>8. p \in 1..(n - 1)
    BY <1>3, <2>6, <2>7
  <2> QED BY <2>1, <2>4, <2>8
<1>9. InGoodOrder(R)
  BY <1>5, <1>7, <1>8 DEF InGoodOrder
<1> QED BY <1>9 DEF R

LEMMA FirstOfTyped ==
    ASSUME NEW S, NEW seq \in Seq(S), NEW n \in Nat
    PROVE  /\ FirstOf(seq, n) \in Seq(S)
           /\ \A i \in DOMAIN FirstOf(seq, n) : i \in DOMAIN seq /\ FirstOf(seq, n)[i] = seq[i]
<1> DEFINE top == IF n < Len(seq) THEN n ELSE Len(seq)
<1>1. /\ Len(seq) \in Nat /\ DOMAIN seq = 1..Len(seq) /\ \A i \in 1..Len(seq) : seq[i] \in S
  BY ElementOfSeq, LenProperties
<1>2. top \in Nat /\ top <= Len(seq) /\ FirstOf(seq, n) = SubSeq(seq, 1, top)
  BY <1>1 DEF FirstOf
<1> HIDE DEF top
<1>3. \A i \in 1..top : seq[i] \in S
  BY <1>1, <1>2
<1>4. /\ SubSeq(seq, 1, top) \in Seq(S)
      /\ Len(SubSeq(seq, 1, top)) = top
      /\ \A i \in 1..top : SubSeq(seq, 1, top)[i] = seq[i]
  BY <1>2, <1>3, SubSeqProperties
<1>5. DOMAIN SubSeq(seq, 1, top) = 1..top
  BY <1>4, LenProperties
<1> QED BY <1>1, <1>2, <1>4, <1>5

\* What a ranking adds to a score is a number.
LEMMA ShareTyped ==
    ASSUME NEW ranking \in Seq(Ids), NEW id
    PROVE  Share(ranking, id) \in Nat
<1>1. DOMAIN ranking = 1..Len(ranking) /\ Len(ranking) \in Nat
  BY LenProperties
<1>2. CASE id \notin ToSet(ranking)
  BY <1>2 DEF Share
<1>3. CASE id \in ToSet(ranking)
  <2>1. Position(ranking, id) \in DOMAIN ranking
    BY <1>3 DEF Position, ToSet
  <2> DEFINE rank == Position(ranking, id) - 1
  <2>2. rank \in Nat
    BY <1>1, <2>1
  <2> HIDE DEF rank
  <2>3. 60 + rank \in Nat \ {0}
    BY <2>2
  <2>4. Unit(rank) \in Nat
    BY <2>3 DEF Unit
  <2> QED BY <1>3, <2>4 DEF Share, rank
<1> QED BY <1>2, <1>3

\* The evidence a match yields: entities, one identifier each.
LEMMA MatchedTyped ==
    ASSUME NEW ranked \in Seq(Seq(Ids)), Len(ranked) = 3
    PROVE  /\ Matched(ranked) \in Seq(Evidence)
           /\ \A n \in DOMAIN Matched(ranked) : /\ Matched(ranked)[n].kind = "node"
                                                /\ \E id \in Ids : Matched(ranked)[n].ids = {id}
<1> DEFINE all == ranked[1] \o ranked[2] \o ranked[3]
           keys == {n \in DOMAIN all : \A m \in 1..(n - 1) : all[m] # all[n]}
           scores == [n \in keys |-> rrf(ranked, all[n])]
           D == Descending(scores)
           C == Cardinality(keys)
           list == [p \in DOMAIN D |-> [kind |-> "node", ids |-> {all[D[p]]}, score |-> rrf(ranked, all[D[p]])]]
<1>1. ranked[1] \in Seq(Ids) /\ ranked[2] \in Seq(Ids) /\ ranked[3] \in Seq(Ids)
  <2>1. \A n \in 1..Len(ranked) : ranked[n] \in Seq(Ids)
    BY ElementOfSeq
  <2> QED BY <2>1
<1>2. all \in Seq(Ids)
  <2>1. ranked[1] \o ranked[2] \in Seq(Ids)
    BY <1>1
  <2> HIDE DEF all
  <2>2. (ranked[1] \o ranked[2]) \o ranked[3] \in Seq(Ids)
    BY <1>1, <2>1
  <2> QED BY <2>2 DEF all
<1>3. Matched(ranked) = FirstOf(list, TopK)
  BY DEF Matched
<1> HIDE DEF all
<1>4. /\ DOMAIN all = 1..Len(all) /\ Len(all) \in Nat /\ \A n \in DOMAIN all : all[n] \in Ids
  BY <1>2, ElementOfSeq, LenProperties
<1>5. \A id : rrf(ranked, id) \in Nat
  <2> SUFFICES ASSUME NEW id PROVE rrf(ranked, id) \in Nat
    OBVIOUS
  <2>1. Share(ranked[1], id) \in Nat /\ Share(ranked[2], id) \in Nat /\ Share(ranked[3], id) \in Nat
    BY <1>1, ShareTyped
  <2> QED BY <2>1 DEF rrf
<1>6. DOMAIN scores = keys /\ keys \in SUBSET Nat /\ IsFiniteSet(keys) /\ keys \subseteq DOMAIN all
  <2>1. keys \in SUBSET (1..Len(all)) /\ IsFiniteSet(1..Len(all))
    BY <1>4, FS_Interval
  <2> QED BY <1>4, <2>1, FS_Subset
<1>7. \A n \in keys : scores[n] \in Nat
  BY <1>5
<1> HIDE DEF keys
<1>8. C \in Nat /\ D \in [1..C -> keys]
  <2> HIDE DEF scores
  <2> QED BY <1>6, <1>7, DescendingSorts
<1> HIDE DEF D, C, scores
<1>9. \A p \in 1..C : list[p] \in Evidence /\ list[p].kind = "node" /\ list[p].ids = {all[D[p]]} /\ all[D[p]] \in Ids
  <2> SUFFICES ASSUME NEW p \in 1..C
               PROVE  list[p] \in Evidence /\ list[p].kind = "node" /\ list[p].ids = {all[D[p]]} /\ all[D[p]] \in Ids
    OBVIOUS
  <2>1. all[D[p]] \in Ids
    BY <1>4, <1>6, <1>8
  <2>2. list[p] = [kind |-> "node", ids |-> {all[D[p]]}, score |-> rrf(ranked, all[D[p]])]
    BY <1>8
  <2> HIDE DEF list
  <2> QED BY <1>5, <2>1, <2>2 DEF Evidence
<1>10. list \in Seq(Evidence) /\ DOMAIN list = 1..C
  <2>1. list \in [1..C -> Evidence]
    BY <1>8, <1>9
  <2> HIDE DEF list
  <2> QED BY <1>8, <2>1, SeqDef
<1> HIDE DEF list
<1>11. TopK \in Nat
  BY GraphSearchAssumption
<1>12. /\ FirstOf(list, TopK) \in Seq(Evidence)
       /\ \A i \in DOMAIN FirstOf(list, TopK) : i \in DOMAIN list /\ FirstOf(list, TopK)[i] = list[i]
  <2>1. list \in Seq(Evidence)
    BY <1>10
  <2> QED BY <1>11, <2>1, FirstOfTyped, Zenon
<1> DEFINE top == FirstOf(list, TopK)
<1>13. top \in Seq(Evidence) /\ \A i \in DOMAIN top : i \in 1..C /\ top[i] = list[i]
  BY <1>10, <1>12
<1>14. Matched(ranked) = top
  BY <1>3
<1> HIDE DEF top
<1>15. \A i \in DOMAIN top : top[i].kind = "node" /\ \E id \in Ids : top[i].ids = {id}
  <2> SUFFICES ASSUME NEW i \in DOMAIN top
               PROVE  top[i].kind = "node" /\ \E id \in Ids : top[i].ids = {id}
    OBVIOUS
  <2>1. i \in 1..C /\ top[i] = list[i]
    BY <1>13
  <2>2. list[i].kind = "node" /\ list[i].ids = {all[D[i]]} /\ all[D[i]] \in Ids
    BY <1>9, <2>1
  <2> QED BY <2>1, <2>2
<1> QED BY <1>13, <1>14, <1>15

-----------------------------------------------------------------------------
(* Neighbourhoods *)

\* A non-empty set of naturals has a least element.
LEMMA LeastExists ==
    ASSUME NEW S \in SUBSET Nat, S # {}
    PROVE  \E i \in S : \A j \in S : i <= j
<1> DEFINE R == OpToRel(<, Nat)
<1>1. IsWellFoundedOn(R, Nat)
  BY NatLessThanWellFounded
<1>2. \A x, y \in Nat : <<x, y>> \in R <=> x < y
  BY DEF OpToRel
<1> HIDE DEF R
<1>3. PICK i \in S : \A j \in S : ~(<<j, i>> \in R)
  BY <1>1, WFMin
<1>4. ASSUME NEW j \in S PROVE i <= j
  <2>1. ~(j < i)
    BY <1>2, <1>3
  <2> QED BY <2>1
<1> QED BY <1>4

\* The first n hops from a seed, written out.
Hops(seed, keys, n, reached) ==
    reached = [k \in 0..n |-> IF k = 0 THEN {seed} ELSE Hop(reached[k - 1], keys)]

\* They decide the next.
LEMMA OneMoreHop ==
    ASSUME NEW seed, NEW keys, NEW n \in Nat, NEW reached, Hops(seed, keys, n, reached)
    PROVE  \E more : Hops(seed, keys, n + 1, more)
<1> DEFINE more == [k \in 0..(n + 1) |-> IF k = n + 1 THEN Hop(reached[n], keys) ELSE reached[k]]
<1>1. ASSUME NEW k \in 0..(n + 1)
      PROVE  more[k] = IF k = 0 THEN {seed} ELSE Hop(more[k - 1], keys)
  <2>1. CASE k = n + 1
    <3>1. k # 0 /\ k - 1 = n /\ n \in 0..(n + 1) /\ n # n + 1
      BY <2>1
    <3>2. more[k] = Hop(reached[n], keys) /\ more[k - 1] = reached[n]
      BY <2>1, <3>1
    <3> QED BY <3>1, <3>2
  <2>2. CASE k \in 0..n
    <3>1. more[k] = reached[k]
      BY <2>2
    <3>2. reached[k] = IF k = 0 THEN {seed} ELSE Hop(reached[k - 1], keys)
      BY <2>2 DEF Hops
    <3>3. k # 0 => more[k - 1] = reached[k - 1]
      BY <2>2
    <3> QED BY <3>1, <3>2, <3>3
  <2> QED BY <2>1, <2>2
<1>2. more = [k \in 0..(n + 1) |-> more[k]]
  OBVIOUS
<1> HIDE DEF more
<1>3. Hops(seed, keys, n + 1, more)
  BY <1>1, <1>2 DEF Hops
<1> QED BY <1>3

\* The recursion has a solution, which is what Within denotes.
LEMMA WithinIsHops ==
    ASSUME NEW seed, NEW keys
    PROVE  Hops(seed, keys, MaxHops, Within(seed, keys))
<1>0. MaxHops \in Nat
  BY GraphSearchAssumption
<1> DEFINE Missing == {n \in 0..MaxHops : ~ \E reached : Hops(seed, keys, n, reached)}
<1>1. Missing = {}
  <2> SUFFICES ASSUME Missing # {} PROVE FALSE
    OBVIOUS
  <2>1. PICK n \in Missing : \A m \in Missing : n <= m
    <3>1. Missing \in SUBSET Nat
      BY <1>0
    <3> HIDE DEF Missing
    <3> QED BY <3>1, LeastExists
  <2>2. n \in Nat /\ n <= MaxHops
    BY <1>0
  <2>3. CASE n = 0
    <3>1. Hops(seed, keys, 0, [k \in 0..0 |-> {seed}])
      BY DEF Hops
    <3> QED BY <2>3, <3>1
  <2>4. CASE n # 0
    <3>1. n - 1 \in Nat /\ (n - 1) + 1 = n /\ n - 1 \in 0..MaxHops /\ ~(n <= n - 1)
      BY <1>0, <2>2, <2>4
    <3>2. PICK reached : Hops(seed, keys, n - 1, reached)
      BY <2>1, <3>1
    <3> QED BY <3>1, <3>2, OneMoreHop
  <2> QED BY <2>3, <2>4
<1>2. \E reached : Hops(seed, keys, MaxHops, reached)
  <2>1. MaxHops \in 0..MaxHops
    BY <1>0
  <2> QED BY <1>1, <2>1
<1> QED BY <1>2 DEF Hops, Within

\* A neighbourhood holds its seed, and nothing else unless some edge leaves the
\* seed.
LEMMA SeedIsWithin ==
    ASSUME NEW seed, NEW keys, NEW n \in 0..MaxHops
    PROVE  /\ seed \in Within(seed, keys)[n]
           /\ Within(seed, keys)[n] = {seed} \/ \E k \in keys : k[1] = seed
<1> DEFINE W == Within(seed, keys)
           Good(m) == seed \in W[m] /\ (W[m] = {seed} \/ \E k \in keys : k[1] = seed)
           Bad == {m \in 0..MaxHops : ~Good(m)}
<1>0. MaxHops \in Nat
  BY GraphSearchAssumption
<1>1. \A k \in 0..MaxHops : W[k] = IF k = 0 THEN {seed} ELSE Hop(W[k - 1], keys)
  <2>1. Hops(seed, keys, MaxHops, W)
    BY WithinIsHops
  <2> HIDE DEF W
  <2> QED BY <2>1 DEF Hops
<1> HIDE DEF W
<1>2. Bad = {}
  <2> SUFFICES ASSUME Bad # {} PROVE FALSE
    OBVIOUS
  <2>1. Bad \in SUBSET Nat
    BY <1>0
  <2>2. PICK m \in Bad : \A j \in Bad : m <= j
    <3> HIDE DEF Bad
    <3> QED BY <2>1, LeastExists
  <2>3. m \in 0..MaxHops /\ ~Good(m)
    BY <2>2
  <2>4. m # 0
    <3>1. 0 \in 0..MaxHops /\ W[0] = {seed}
      BY <1>0, <1>1
    <3> QED BY <2>3, <3>1
  <2>5. m - 1 \in 0..MaxHops /\ ~(m <= m - 1)
    BY <1>0, <2>3, <2>4
  <2>6. Good(m - 1)
    BY <2>2, <2>5
  <2>7. W[m] = W[m - 1] \cup {k[3] : k \in {e \in keys : e[1] \in W[m - 1]}}
    BY <1>1, <2>3, <2>4 DEF Hop
  <2>8. Good(m)
    BY <2>6, <2>7
  <2> QED BY <2>3, <2>8
<1> QED BY <1>2 DEF W

\* What a traversal from a seed returns is nothing, or has the seed in it.
LEMMA SeedIsInItsPath ==
    ASSUME NEW seed, MaxHops # 0
    PROVE  /\ Ends(Forward(seed)) = {} \/ seed \in Ends(Forward(seed))
           /\ Ends(Undirected(seed)) = {} \/ seed \in Ends(Undirected(seed))
<1>1. MaxHops - 1 \in 0..MaxHops
  BY GraphSearchAssumption
<1>2. \A keys : \A e \in keys : e[1] \in Ends(keys) /\ e[3] \in Ends(keys)
  BY DEF Ends
<1>3. \A keys : Ends(keys) # {} => \E e : e \in keys
  BY DEF Ends
<1>4. ASSUME Ends(Forward(seed)) # {} PROVE seed \in Ends(Forward(seed))
  <2> DEFINE W == Within(seed, DOMAIN edges)[MaxHops - 1]
  <2>1. seed \in W /\ (W = {seed} \/ \E k \in DOMAIN edges : k[1] = seed)
    BY <1>1, SeedIsWithin
  <2>2. Forward(seed) = {e \in DOMAIN edges : e[1] \in W}
    BY DEF Forward
  <2> HIDE DEF W
  <2>3. PICK e : e \in Forward(seed)
    BY <1>3, <1>4
  <2>4. \E k \in Forward(seed) : k[1] = seed
    BY <2>1, <2>2, <2>3
  <2> QED BY <1>2, <2>4
<1>5. ASSUME Ends(Undirected(seed)) # {} PROVE seed \in Ends(Undirected(seed))
  <2> DEFINE both == {e \in DOMAIN edges : e[2] \in Symmetric}
             keys == both \cup {<<e[3], e[2], e[1]>> : e \in both}
             W == Within(seed, keys)[MaxHops - 1]
  <2>1. seed \in W /\ (W = {seed} \/ \E k \in keys : k[1] = seed)
    <3> HIDE DEF keys
    <3> QED BY <1>1, SeedIsWithin
  <2>2. Undirected(seed) = {e \in both : {e[1], e[3]} \cap W # {}}
    BY DEF Undirected
  <2> HIDE DEF W
  <2>3. PICK e : e \in Undirected(seed)
    BY <1>3, <1>5
  <2>4. \E k \in Undirected(seed) : k[1] = seed \/ k[3] = seed
    <3>1. CASE W = {seed}
      BY <2>2, <2>3, <3>1
    <3>2. CASE \E k \in keys : k[1] = seed
      <4>1. PICK k \in both : k[1] = seed \/ k[3] = seed
        BY <3>2
      <4> QED BY <2>1, <2>2, <4>1
    <3> QED BY <2>1, <3>1, <3>2
  <2> QED BY <1>2, <2>4
<1> QED BY <1>4, <1>5

-----------------------------------------------------------------------------
(* A question, query by query *)

\* How far a question is: what the channels have ranked, the entities still to
\* start from, each among the evidence, and the path of the one in hand.
SearchInv ==
    /\ DOMAIN search = DOMAIN Nothing
    /\ search.at = "match" => Len(search.ranked) \in 0..2 /\ search.ranked \in Seq(Seq(Ids))
    /\ search.at \in {"forward", "undirected"} =>
          /\ MaxHops # 0
          /\ search.evidence \in Seq(Evidence) /\ PathsScored(search.evidence)
          /\ search.seeds \in Seq(SUBSET Ids) /\ search.seeds # <<>>
          /\ \A k \in DOMAIN search.seeds :
                /\ \E id \in Ids : search.seeds[k] = {id}
                /\ \E n \in DOMAIN search.evidence :
                      search.evidence[n].kind = "node" /\ search.evidence[n].ids = search.seeds[k]
    /\ search.at = "undirected" =>
          /\ search.path \in SUBSET Ids
          /\ search.path = {} \/ Head(search.seeds) \subseteq search.path
    /\ PathFollowsItsSeed

LEMMA PathFollowsIs ==
    PathFollowsItsSeed <=> (search.at = "answered" => InGoodOrder(search.evidence))
BY DEF PathFollowsItsSeed, InGoodOrder

\* The seeds still to start from, each of an entity among the evidence.
SeedsOK(seeds, evidence) ==
    /\ seeds \in Seq(SUBSET Ids)
    /\ \A k \in DOMAIN seeds :
          /\ \E id \in Ids : seeds[k] = {id}
          /\ \E n \in DOMAIN evidence : evidence[n].kind = "node" /\ evidence[n].ids = seeds[k]

EvidenceOK(evidence) == evidence \in Seq(Evidence) /\ PathsScored(evidence)

\* SearchInv, as a predicate of the record.
OKSearch(s) ==
    /\ DOMAIN s = DOMAIN Nothing
    /\ s.at = "match" => Len(s.ranked) \in 0..2 /\ s.ranked \in Seq(Seq(Ids))
    /\ s.at \in {"forward", "undirected"} =>
          MaxHops # 0 /\ EvidenceOK(s.evidence) /\ SeedsOK(s.seeds, s.evidence) /\ s.seeds # <<>>
    /\ s.at = "undirected" => /\ s.path \in SUBSET Ids
                              /\ s.path = {} \/ Head(s.seeds) \subseteq s.path
    /\ s.at = "answered" => InGoodOrder(s.evidence)

LEMMA SearchInvIs == SearchInv <=> OKSearch(search)
BY PathFollowsIs DEF SearchInv, OKSearch, EvidenceOK, SeedsOK

LEMMA SearchInvIsNext == SearchInv' <=> OKSearch(search')
<1>1. (SearchInv <=> OKSearch(search))'
  BY SearchInvIs, PTL
<1> QED BY <1>1

LEMMA NothingFields ==
    /\ DOMAIN Nothing = {"at", "text", "ranked", "seeds", "path", "evidence"}
    /\ Nothing.at = "idle" /\ Nothing.ranked = <<>>
BY DEF Nothing

\* Onward goes on with the next seed, or puts the evidence in order.
LEMMA OnwardKeeps ==
    ASSUME NEW seeds, NEW evidence, EvidenceOK(evidence), SeedsOK(seeds, evidence),
           seeds = <<>> \/ MaxHops # 0
    PROVE  OKSearch(Onward(seeds, evidence))
<1>1. CASE seeds = <<>>
  <2> DEFINE s == Onward(seeds, evidence)
  <2>1. s = [Nothing EXCEPT !.at = "answered", !.text = search.text, !.evidence = InOrder(evidence)]
    BY <1>1 DEF Onward
  <2>2. DOMAIN s = DOMAIN Nothing /\ s.at = "answered" /\ s.evidence = InOrder(evidence)
    BY <2>1, NothingFields
  <2> HIDE DEF s
  <2>3. InGoodOrder(s.evidence)
    BY <2>2, InOrderSorts DEF EvidenceOK
  <2>4. OKSearch(s)
    BY <2>2, <2>3 DEF OKSearch
  <2> QED BY <2>4 DEF s
<1>2. CASE seeds # <<>>
  <2> DEFINE s == Onward(seeds, evidence)
  <2>1. s = [Nothing EXCEPT !.at = "forward", !.text = search.text, !.seeds = seeds, !.evidence = evidence]
    BY <1>2 DEF Onward
  <2>2. DOMAIN s = DOMAIN Nothing /\ s.at = "forward" /\ s.seeds = seeds /\ s.evidence = evidence
    BY <2>1, NothingFields
  <2> HIDE DEF s
  <2>3. OKSearch(s)
    BY <1>2, <2>2 DEF OKSearch
  <2> QED BY <2>3 DEF s
<1> QED BY <1>1, <1>2

LEMMA AskKeeps ==
    ASSUME NEW text, Ask(text)
    PROVE  SearchInv'
<1>1. search' = [Nothing EXCEPT !.at = "match", !.text = text]
  BY DEF Ask
<1>2. DOMAIN search' = DOMAIN Nothing /\ search'.at = "match" /\ search'.ranked = <<>>
  BY <1>1, NothingFields
<1>3. <<>> \in Seq(Seq(Ids)) /\ Len(<<>>) \in 0..2
  OBVIOUS
<1>4. OKSearch(search')
  BY <1>2, <1>3 DEF OKSearch
<1> QED BY <1>4, SearchInvIsNext

LEMMA RankingTyped ==
    ASSUME NodesOK(nodes), NEW text, NEW channel, NEW ranking \in Rankings(text, channel)
    PROVE  ranking \in Seq(Ids)
<1>1. PICK order \in SetToSeqs(Hits(text, channel)) : ranking = FirstOf(order, Limit(channel))
  BY DEF Rankings
<1>2. Hits(text, channel) \in SUBSET Ids /\ IsFiniteSet(Hits(text, channel))
  <2>1. Hits(text, channel) \in SUBSET DOMAIN nodes
    BY DEF Hits
  <2> QED BY <2>1, FS_Subset DEF NodesOK
<1>3. order \in [1..Cardinality(Hits(text, channel)) -> Hits(text, channel)]
  BY DEF SetToSeqs
<1>4. Cardinality(Hits(text, channel)) \in Nat
  BY <1>2, FS_CardinalityType
<1>5. order \in [1..Cardinality(Hits(text, channel)) -> Ids]
  BY <1>2, <1>3
<1>6. order \in Seq(Ids)
  BY <1>4, <1>5, SeqDef
<1>7. Limit(channel) \in Nat
  BY GraphSearchAssumption DEF Limit
<1> QED BY <1>1, <1>6, <1>7, FirstOfTyped

LEMMA MatchKeeps ==
    ASSUME NodesOK(nodes), SearchInv, NEW asked \in 0..(Len(Channels) - 1), Match(asked)
    PROVE  SearchInv'
<1>1. OKSearch(search)
  BY SearchInvIs
<1>2. PICK ranking \in Rankings(search.text, Channels[asked + 1]) :
         LET ranked == Append(search.ranked, ranking)
             matched == Matched(ranked)
             seeds == IF MaxHops = 0 THEN <<>> ELSE [n \in DOMAIN matched |-> matched[n].ids]
         IN search' = IF asked + 1 < Len(Channels)
                      THEN [search EXCEPT !.ranked = ranked]
                      ELSE Onward(seeds, matched)
  BY DEF Match
<1>3. /\ search.at = "match" /\ asked = Len(search.ranked) /\ Len(Channels) = 3
      /\ DOMAIN search = DOMAIN Nothing
      /\ Len(search.ranked) \in 0..2 /\ search.ranked \in Seq(Seq(Ids))
  BY <1>1 DEF Match, OKSearch, Channels
<1> DEFINE ranked == Append(search.ranked, ranking)
           matched == Matched(ranked)
           seeds == IF MaxHops = 0 THEN <<>> ELSE [n \in DOMAIN matched |-> matched[n].ids]
<1>4. search' = IF asked + 1 < 3 THEN [search EXCEPT !.ranked = ranked] ELSE Onward(seeds, matched)
  BY <1>2, <1>3
<1>5. ranking \in Seq(Ids)
  BY RankingTyped
<1>6. ranked \in Seq(Seq(Ids)) /\ Len(ranked) = asked + 1
  BY <1>3, <1>5, AppendProperties
<1> HIDE DEF ranked, matched
<1>7. CASE asked + 1 < 3
  <2>1. search' = [search EXCEPT !.ranked = ranked]
    BY <1>4, <1>7
  <2>2. DOMAIN search' = DOMAIN Nothing /\ search'.at = "match" /\ search'.ranked = ranked
    BY <1>3, <2>1, NothingFields
  <2>3. Len(ranked) \in 0..2
    BY <1>6, <1>7
  <2>4. OKSearch(search')
    BY <1>6, <2>2, <2>3 DEF OKSearch
  <2> QED BY <2>4, SearchInvIsNext
<1>8. CASE ~(asked + 1 < 3)
  <2>1. Len(ranked) = 3
    <3>1. asked \in 0..2
      BY <1>3
    <3>2. asked = 2
      BY <3>1, <1>8
    <3> QED BY <1>6, <3>2
  <2>2. /\ matched \in Seq(Evidence)
        /\ \A n \in DOMAIN matched : matched[n].kind = "node" /\ \E id \in Ids : matched[n].ids = {id}
    BY <1>6, <2>1, MatchedTyped DEF matched
  <2>3. EvidenceOK(matched)
    BY <2>2 DEF EvidenceOK, PathsScored
  <2>4. SeedsOK(seeds, matched)
    <3>1. CASE MaxHops = 0
      <4>1. seeds = <<>> /\ DOMAIN seeds = {} /\ seeds \in Seq(SUBSET Ids)
        BY <3>1
      <4> QED BY <4>1 DEF SeedsOK
    <3>2. CASE MaxHops # 0
      <4>1. seeds = [n \in DOMAIN matched |-> matched[n].ids]
        BY <3>2
      <4>2. DOMAIN matched = 1..Len(matched) /\ Len(matched) \in Nat
        BY <2>2, LenProperties
      <4>3. \A n \in DOMAIN matched : matched[n].ids \in SUBSET Ids
        BY <2>2
      <4> HIDE DEF seeds
      <4>4. seeds \in [1..Len(matched) -> SUBSET Ids] /\ DOMAIN seeds = DOMAIN matched
        BY <4>1, <4>2, <4>3
      <4>5. seeds \in Seq(SUBSET Ids)
        BY <4>2, <4>4, SeqDef
      <4> QED BY <2>2, <4>1, <4>4, <4>5 DEF SeedsOK
    <3> QED BY <3>1, <3>2
  <2>5. seeds = <<>> \/ MaxHops # 0
    OBVIOUS
  <2> HIDE DEF seeds
  <2>6. OKSearch(Onward(seeds, matched))
    BY <2>3, <2>4, <2>5, OnwardKeeps
  <2> QED BY <1>4, <1>8, <2>6, SearchInvIsNext
<1> QED BY <1>7, <1>8

\* The ends of edges of the graph are identifiers.
LEMMA EndsTyped ==
    ASSUME GraphInv, NEW keys \in SUBSET DOMAIN edges
    PROVE  Ends(keys) \in SUBSET Ids
<1>1. OKNodes(accepted, nodes) /\ OKEdges(accepted, nodes, edges)
  BY GraphInvParts DEF OKStores
<1>2. \A e \in DOMAIN edges : e[1] \in Ids /\ e[3] \in Ids
  BY <1>1 DEF OKNodes, OKEdges, Between
<1> QED BY <1>2 DEF Ends

LEMMA TraverseForwardKeeps ==
    ASSUME GraphInv, SearchInv, TraverseForward
    PROVE  SearchInv'
<1>1. OKSearch(search) /\ search.at = "forward"
  BY SearchInvIs DEF TraverseForward
<1>2. PICK seed \in Head(search.seeds) :
         search' = [search EXCEPT !.at = "undirected", !.path = Ends(Forward(seed))]
  BY DEF TraverseForward
<1>3. /\ DOMAIN search = DOMAIN Nothing /\ MaxHops # 0
      /\ EvidenceOK(search.evidence) /\ SeedsOK(search.seeds, search.evidence) /\ search.seeds # <<>>
  BY <1>1 DEF OKSearch
<1>4. /\ DOMAIN search' = DOMAIN Nothing /\ search'.at = "undirected"
      /\ search'.path = Ends(Forward(seed))
      /\ search'.evidence = search.evidence /\ search'.seeds = search.seeds
  BY <1>2, <1>3, NothingFields
<1>5. \E id \in Ids : Head(search.seeds) = {id}
  <2>1. Head(search.seeds) = search.seeds[1] /\ 1 \in DOMAIN search.seeds
    <3>1. search.seeds \in Seq(SUBSET Ids) /\ search.seeds # <<>>
      BY <1>3 DEF SeedsOK
    <3> QED BY <3>1, EmptySeq, LenProperties
  <2> QED BY <1>3, <2>1 DEF SeedsOK
<1>6. Head(search.seeds) = {seed}
  BY <1>2, <1>5
<1>7. Ends(Forward(seed)) = {} \/ seed \in Ends(Forward(seed))
  BY <1>3, SeedIsInItsPath
<1>8. search'.path = {} \/ Head(search'.seeds) \subseteq search'.path
  BY <1>4, <1>6, <1>7
<1>9. search'.path \in SUBSET Ids
  <2>1. Forward(seed) \in SUBSET DOMAIN edges
    BY DEF Forward
  <2> QED BY <1>4, <2>1, EndsTyped
<1>10. OKSearch(search')
  BY <1>3, <1>4, <1>8, <1>9 DEF OKSearch
<1> QED BY <1>10, SearchInvIsNext

\* An entity of the evidence lies on the path, so there is a best score on it,
\* which is that of an entity.
LEMMA BestOnPath ==
    ASSUME NEW ranked \in Seq(Evidence), NEW path, NEW k \in DOMAIN ranked,
           ranked[k].kind = "node", ranked[k].ids \subseteq path
    PROVE  LET scores == {ranked[n].score : n \in
                             {n \in DOMAIN ranked : ranked[n].kind = "node" /\ ranked[n].ids \subseteq path}}
               best == CHOOSE s \in scores : \A t \in scores : t <= s
           IN /\ best \in Nat
              /\ \E n \in DOMAIN ranked : /\ ranked[n].kind = "node" /\ ranked[n].ids \subseteq path
                                          /\ ranked[n].score = best
<1> DEFINE on == {n \in DOMAIN ranked : ranked[n].kind = "node" /\ ranked[n].ids \subseteq path}
           score == [n \in on |-> ranked[n].score]
           scores == {ranked[n].score : n \in on}
           best == CHOOSE s \in scores : \A t \in scores : t <= s
<1>1. /\ DOMAIN ranked = 1..Len(ranked) /\ Len(ranked) \in Nat
      /\ \A n \in DOMAIN ranked : ranked[n].score \in Nat
  BY ElementOfSeq, LenProperties, EvidenceFields
<1>2. on \in SUBSET (1..Len(ranked)) /\ k \in on /\ IsFiniteSet(1..Len(ranked))
  <2>1. IsFiniteSet(1..Len(ranked))
    BY <1>1, FS_Interval
  <2> QED BY <1>1, <2>1
<1>3. /\ DOMAIN score = on /\ IsFiniteSet(on) /\ on \in SUBSET Nat /\ on # {}
      /\ \A n \in on : score[n] \in Nat /\ score[n] = ranked[n].score
  BY <1>1, <1>2, FS_Subset
<1>4. \E n \in on : \A m \in on : score[m] <= score[n]
  <2> HIDE DEF score, on
  <2> QED BY <1>3, HighestExists
<1>5. \E s \in scores : \A t \in scores : t <= s
  BY <1>3, <1>4
<1>6. best \in scores
  <2> HIDE DEF scores
  <2> QED BY <1>5
<1>7. best \in Nat /\ \E n \in on : ranked[n].score = best
  <2> HIDE DEF best
  <2> QED BY <1>1, <1>6
<1> QED BY <1>7

LEMMA TraverseUndirectedKeeps ==
    ASSUME GraphInv, SearchInv, TraverseUndirected
    PROVE  SearchInv'
<1>1. OKSearch(search) /\ search.at = "undirected"
  BY SearchInvIs DEF TraverseUndirected
<1> DEFINE ranked == search.evidence
           Path(seed) == search.path \cup Ends(Undirected(seed))
           Scores(path) == {ranked[n].score : n \in
                               {n \in DOMAIN ranked : ranked[n].kind = "node" /\ ranked[n].ids \subseteq path}}
           Best(path) == CHOOSE s \in Scores(path) : \A t \in Scores(path) : t <= s
           Added(path) == Append(ranked, [kind |-> "path", ids |-> path, score |-> Best(path)])
<1>2. PICK seed \in Head(search.seeds) :
         \E evidence : /\ evidence = ranked \/ (Path(seed) # {} /\ evidence = Added(Path(seed)))
                       /\ search' = Onward(Tail(search.seeds), evidence)
  BY DEF TraverseUndirected
<1>3. PICK evidence : /\ evidence = ranked \/ (Path(seed) # {} /\ evidence = Added(Path(seed)))
                      /\ search' = Onward(Tail(search.seeds), evidence)
  BY <1>2
<1>4. /\ MaxHops # 0 /\ ranked \in Seq(Evidence) /\ PathsScored(ranked)
      /\ SeedsOK(search.seeds, ranked) /\ search.seeds \in Seq(SUBSET Ids) /\ search.seeds # <<>>
      /\ search.path \in SUBSET Ids
      /\ search.path = {} \/ Head(search.seeds) \subseteq search.path
  BY <1>1 DEF OKSearch, EvidenceOK, SeedsOK
<1>5. Head(search.seeds) = search.seeds[1] /\ 1 \in DOMAIN search.seeds
  BY <1>4, EmptySeq, LenProperties
<1>6. /\ Head(search.seeds) = {seed} /\ seed \in Ids
      /\ \E n \in DOMAIN ranked : ranked[n].kind = "node" /\ ranked[n].ids = {seed}
  <2>1. PICK id \in Ids : search.seeds[1] = {id}
    BY <1>4, <1>5 DEF SeedsOK
  <2>2. seed = id /\ Head(search.seeds) = {seed}
    BY <1>2, <1>5, <2>1
  <2>3. \E n \in DOMAIN ranked : ranked[n].kind = "node" /\ ranked[n].ids = search.seeds[1]
    BY <1>4, <1>5 DEF SeedsOK
  <2> QED BY <1>5, <2>1, <2>2, <2>3
<1>7. SeedsOK(Tail(search.seeds), ranked)
  <2>1. /\ Tail(search.seeds) \in Seq(SUBSET Ids)
        /\ Len(Tail(search.seeds)) = Len(search.seeds) - 1
        /\ \A i \in 1..Len(Tail(search.seeds)) : Tail(search.seeds)[i] = search.seeds[i + 1]
    BY <1>4, HeadTailProperties
  <2>2. /\ DOMAIN Tail(search.seeds) = 1..Len(Tail(search.seeds))
        /\ DOMAIN search.seeds = 1..Len(search.seeds) /\ Len(search.seeds) \in Nat
    BY <1>4, <2>1, LenProperties
  <2>3. \A i \in DOMAIN Tail(search.seeds) :
           i + 1 \in DOMAIN search.seeds /\ Tail(search.seeds)[i] = search.seeds[i + 1]
    BY <2>1, <2>2
  <2> DEFINE rest == Tail(search.seeds)
  <2>4. rest \in Seq(SUBSET Ids) /\ \A i \in DOMAIN rest :
           i + 1 \in DOMAIN search.seeds /\ rest[i] = search.seeds[i + 1]
    BY <2>1, <2>3
  <2> HIDE DEF rest, ranked
  <2>5. SeedsOK(rest, ranked)
    <3> SUFFICES ASSUME NEW i \in DOMAIN rest
                 PROVE  /\ \E id \in Ids : rest[i] = {id}
                        /\ \E n \in DOMAIN ranked : ranked[n].kind = "node" /\ ranked[n].ids = rest[i]
      BY <2>4 DEF SeedsOK
    <3>1. i + 1 \in DOMAIN search.seeds /\ rest[i] = search.seeds[i + 1]
      BY <2>4
    <3> QED BY <1>4, <3>1 DEF SeedsOK
  <2> QED BY <2>5 DEF rest
<1> HIDE DEF ranked
<1>8. CASE evidence = ranked
  <2>1. OKSearch(Onward(Tail(search.seeds), ranked))
    BY <1>4, <1>7, OnwardKeeps DEF EvidenceOK
  <2> QED BY <1>3, <1>8, <2>1, SearchInvIsNext
<1>9. CASE Path(seed) # {} /\ evidence = Added(Path(seed))
  <2> DEFINE path == Path(seed)
             best == Best(path)
  <2>1. path \in SUBSET Ids
    <3>1. Undirected(seed) \in SUBSET DOMAIN edges
      BY DEF Undirected
    <3> QED BY <1>4, <3>1, EndsTyped
  <2>2. seed \in path
    BY <1>4, <1>6, <1>9, SeedIsInItsPath
  <2>3. PICK k \in DOMAIN ranked : ranked[k].kind = "node" /\ ranked[k].ids \subseteq path
    BY <1>6, <2>2
  <2> HIDE DEF path
  <2>4. best \in Nat /\ \E n \in DOMAIN ranked : /\ ranked[n].kind = "node"
                                                /\ ranked[n].ids \subseteq path
                                                /\ ranked[n].score = best
    BY <1>4, <2>3, BestOnPath
  <2> DEFINE new == [kind |-> "path", ids |-> path, score |-> best]
  <2>5. evidence = Append(ranked, new)
    BY <1>9 DEF path
  <2> HIDE DEF best
  <2>6. new \in Evidence
    BY <2>1, <2>4 DEF Evidence
  <2>7. /\ evidence \in Seq(Evidence) /\ Len(evidence) = Len(ranked) + 1
        /\ \A n \in 1..Len(ranked) : evidence[n] = ranked[n]
        /\ evidence[Len(ranked) + 1] = new
    BY <1>4, <2>5, <2>6, AppendProperties
  <2>8. new.kind = "path" /\ new.ids = path /\ new.score = best
    OBVIOUS
  <2> HIDE DEF new
  <2>9. /\ DOMAIN ranked = 1..Len(ranked) /\ Len(ranked) \in Nat
        /\ DOMAIN evidence = 1..(Len(ranked) + 1)
    BY <1>4, <2>7, LenProperties
  <2>10. PathsScored(evidence)
    <3> SUFFICES ASSUME NEW n \in DOMAIN evidence, evidence[n].kind = "path"
                 PROVE  \E m \in 1..(n - 1) : /\ evidence[m].kind = "node"
                                              /\ evidence[m].ids \subseteq evidence[n].ids
                                              /\ evidence[m].score = evidence[n].score
      BY DEF PathsScored
    <3>1. CASE n \in 1..Len(ranked)
      <4>1. evidence[n] = ranked[n] /\ n \in DOMAIN ranked
        BY <2>7, <2>9, <3>1
      <4>2. PICK m \in 1..(n - 1) : /\ ranked[m].kind = "node"
                                    /\ ranked[m].ids \subseteq ranked[n].ids
                                    /\ ranked[m].score = ranked[n].score
        BY <1>4, <4>1 DEF PathsScored
      <4>3. m \in 1..Len(ranked)
        BY <2>9, <3>1
      <4>4. evidence[m] = ranked[m]
        BY <2>7, <4>3
      <4> QED BY <4>1, <4>2, <4>4
    <3>2. CASE n = Len(ranked) + 1
      <4>1. PICK m \in DOMAIN ranked : /\ ranked[m].kind = "node" /\ ranked[m].ids \subseteq path
                                       /\ ranked[m].score = best
        BY <2>4
      <4>2. m \in 1..(n - 1) /\ evidence[m] = ranked[m] /\ evidence[n] = new
        BY <2>7, <2>9, <3>2, <4>1
      <4> QED BY <2>8, <4>1, <4>2
    <3> QED BY <2>9, <3>1, <3>2
  <2>11. SeedsOK(Tail(search.seeds), evidence)
    <3>1. \A n \in DOMAIN ranked : n \in DOMAIN evidence /\ evidence[n] = ranked[n]
      BY <2>7, <2>9
    <3> QED BY <1>7, <3>1 DEF SeedsOK
  <2>12. OKSearch(Onward(Tail(search.seeds), evidence))
    BY <1>4, <2>7, <2>10, <2>11, OnwardKeeps DEF EvidenceOK
  <2> QED BY <1>3, <2>12, SearchInvIsNext
<1> QED BY <1>3, <1>8, <1>9

LEMMA SearchStepKeeps ==
    ASSUME GraphInv, SearchInv, SearchNext \/ UNCHANGED searchVars
    PROVE  SearchInv'
<1>1. NodesOK(nodes)
  BY DEF GraphInv, GraphTypeOK
<1>2. CASE search' = search
  BY <1>2, SearchInvIs, SearchInvIsNext
<1>3. CASE \E asked \in 0..(Len(Channels) - 1) : Match(asked)
  BY <1>1, <1>3, MatchKeeps
<1>4. CASE TraverseForward \/ TraverseUndirected
  BY <1>4, TraverseForwardKeeps, TraverseUndirectedKeeps
<1>5. CASE \E text \in Texts : Ask(text)
  BY <1>5, AskKeeps
<1>6. \/ search' = search \/ Retrieve \/ \E text \in Texts : Ask(text)
  BY DEF SearchNext, searchVars
<1> QED BY <1>2, <1>3, <1>4, <1>5, <1>6 DEF Retrieve

LEMMA SearchInitOK ==
    ASSUME search = Nothing
    PROVE  SearchInv
<1>1. OKSearch(search)
  BY NothingFields DEF OKSearch
<1> QED BY <1>1, SearchInvIs

\* A neighbourhood reaches the language model only behind a matched entity of
\* its own that scores the same, and the best come first, also when the build
\* wrote between two queries of the question.
THEOREM PathsFollowTheirSeeds == SearchSpec => []PathFollowsItsSeed
<1>1. SearchInit => SearchInv
  BY SearchInitOK DEF SearchInit
<1>2. GraphInv /\ SearchInv /\ [SearchNext]_searchVars => SearchInv'
  BY SearchStepKeeps
<1>3. SearchInv => PathFollowsItsSeed
  BY DEF SearchInv
<1>4. SearchSpec => []GraphInv
  BY CheckpointedIsInGraph
<1> QED BY <1>1, <1>2, <1>3, <1>4, PTL DEF SearchSpec
============================================================================
