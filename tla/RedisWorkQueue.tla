--------------------------- MODULE RedisWorkQueue ---------------------------
(***************************************************************************)
(* The two Redis streams between the orchestrator and the workers, as the  *)
(* consumer groups present them.  A message is in exactly one of           *)
(*   tasks    added, delivered to no worker yet                            *)
(*   pel      delivered, not acknowledged (the pending-entries list)       *)
(* or it is acknowledged and gone from both.  hand[w] and shelf[w] are     *)
(* what a worker process holds in memory: the task it labels and its deque *)
(* of reclaimed deliveries (kept as a set).  A message may be held after   *)
(* it is acknowledged, and by two workers at once.                         *)
(* results, resultPel and inbox are the same for the result stream, whose  *)
(* only consumer is the orchestrator; returned is its deque of reclaimed   *)
(* results.  A read may return any waiting message: this includes the      *)
(* stream's order.  Redis itself is external and does not fail.            *)
(***************************************************************************)
EXTENDS LabelingStores

CONSTANTS Workers,
          Ids,          \* bound: messages about one task alive at once
          SlowWorkers   \* may a task outlive reclaim_after_ms in live hands?

ASSUME QueueAssumption ==
    /\ SlowWorkers \in BOOLEAN
    /\ None \notin [task : Task, id : Ids] \cup [task : Task, ok : BOOLEAN, id : Ids]

VARIABLES tasks, pel, hand, shelf,            \* task stream and its workers
          results, resultPel, returned, inbox \* result stream

taskVars   == <<tasks, pel, hand, shelf>>
resultVars == <<results, resultPel, returned, inbox>>
queueVars  == <<tasks, pel, hand, shelf, results, resultPel, returned, inbox>>

Message == [task : Task, id : Ids]
Result  == [task : Task, ok : BOOLEAN, id : Ids]

QueueTypeOK ==
    /\ tasks \subseteq Message
    /\ pel \subseteq Message
    /\ hand \in [Workers -> Message \cup {None}]
    /\ shelf \in [Workers -> SUBSET Message]
    /\ results \subseteq Result
    /\ resultPel \subseteq Result
    /\ returned \subseteq Result
    /\ inbox \subseteq Result

QueueInit ==
    /\ tasks = {} /\ pel = {}
    /\ hand = [w \in Workers |-> None]
    /\ shelf = [w \in Workers |-> {}]
    /\ results = {} /\ resultPel = {} /\ returned = {} /\ inbox = {}

InHand == {hand[w] : w \in Workers} \ {None}
Shelved == UNION {shelf[w] : w \in Workers}
LiveMessages == tasks \cup pel \cup InHand \cup Shelved

\* Message ids are reused once nothing refers to them any more.
UnusedIds(t) == {i \in Ids : [task |-> t, id |-> i] \notin LiveMessages}
NewMessage(t) == [task |-> t, id |-> CHOOSE i \in UnusedIds(t) : TRUE]

-----------------------------------------------------------------------------
(* Orchestrator side: enqueue, discard_pending, consume_results *)

\* XADD of every task in one transaction.
Enqueue(ts) ==
    /\ \A t \in ts : UnusedIds(t) # {}
    /\ tasks' = tasks \cup {NewMessage(t) : t \in ts}
    /\ UNCHANGED <<pel, hand, shelf>>

\* XAUTOCLAIM with no idle time, then XACK: every delivered and
\* unacknowledged task is dropped, whoever holds it.
DiscardPending ==
    /\ pel' = {}
    /\ UNCHANGED <<tasks, hand, shelf>>

\* Results an earlier run read and did not acknowledge become claimable with
\* time, each at its own; claimed is the part idle for reclaim_after_ms.
InHandResults(claimed) == returned \cup claimed

\* reclaim_stale_results acknowledges what it claims; when that alone fills
\* the request, nothing is read from the stream.
TakeReturned(claimed, count) ==
    /\ Cardinality(InHandResults(claimed)) >= count
    /\ \E taken \in SUBSET InHandResults(claimed) :
          /\ Cardinality(taken) = count
          /\ inbox' = taken
          /\ returned' = InHandResults(claimed) \ taken
    /\ resultPel' = resultPel \ claimed
    /\ UNCHANGED results

\* XREADGROUP fills the rest of the request; the read is acknowledged by a
\* separate XACK.  A read that times out empty-handed changes nothing.
ReadResults(claimed, count) ==
    LET wanted == count - Cardinality(InHandResults(claimed)) IN
    /\ wanted > 0
    /\ \E read \in SUBSET results :
          /\ read \cup InHandResults(claimed) # {}
          /\ Cardinality(read) <= wanted
          /\ read = results \/ Cardinality(read) = wanted
          /\ inbox' = InHandResults(claimed) \cup read
          /\ results' = results \ read
          /\ resultPel' = (resultPel \ claimed) \cup read
    /\ returned' = {}

AckResults ==
    /\ resultPel' = resultPel \ inbox
    /\ UNCHANGED <<results, returned, inbox>>

-----------------------------------------------------------------------------
(* Worker side: dequeue, publish_results, and the worker process dying *)

\* Idle for reclaim_after_ms: the delivery belongs to no worker that is
\* labeling it, unless labeling may outlast the threshold.
Reclaimable == {m \in pel : SlowWorkers \/ m \notin InHand}

\* reclaim_stale claims a set of idle deliveries into this worker's deque,
\* then the worker takes one from the deque.  A delivery claimed while it
\* already lies in the same deque is there twice.
DequeueReclaimed(w) ==
    /\ hand[w] = None
    /\ \E claimed \in SUBSET Reclaimable :
       \E m \in shelf[w] \cup claimed :
          /\ hand' = [hand EXCEPT ![w] = m]
          /\ shelf' = [shelf EXCEPT ![w] =
                         (@ \cup claimed) \ IF m \in @ \cap claimed THEN {} ELSE {m}]
    /\ UNCHANGED <<tasks, pel>>
    /\ UNCHANGED resultVars

\* Faulty variant: the read acknowledges (XREADGROUP with NOACK).
DequeueNoAck(w) ==
    /\ hand[w] = None
    /\ shelf[w] = {}
    /\ \E m \in tasks :
          /\ tasks' = tasks \ {m}
          /\ hand' = [hand EXCEPT ![w] = m]
    /\ UNCHANGED <<pel, shelf>>
    /\ UNCHANGED resultVars

DequeueNew(w) ==
    /\ hand[w] = None
    /\ shelf[w] = {}
    /\ \E m \in tasks :
          /\ tasks' = tasks \ {m}
          /\ pel' = pel \cup {m}
          /\ hand' = [hand EXCEPT ![w] = m]
    /\ UNCHANGED shelf
    /\ UNCHANGED resultVars

LiveResults == results \cup resultPel \cup returned \cup inbox

\* Faulty variant: failures are acknowledged without a result.
PublishSuccessOnly(w, ok) ==
    /\ hand[w] # None
    /\ results' = IF ok THEN results \cup {[task |-> hand[w].task, ok |-> ok,
                                            id |-> CHOOSE i \in Ids : TRUE]}
                  ELSE results
    /\ pel' = pel \ {hand[w]}
    /\ hand' = [hand EXCEPT ![w] = None]
    /\ UNCHANGED <<tasks, shelf, resultPel, returned, inbox>>

\* Label, then XADD the result and XACK the task in one transaction.
Publish(w, ok) ==
    /\ hand[w] # None
    /\ \E i \in Ids :
          LET r == [task |-> hand[w].task, ok |-> ok, id |-> i] IN
          /\ r \notin LiveResults
          /\ \A j \in Ids : j < i => [r EXCEPT !.id = j] \in LiveResults
          /\ results' = results \cup {r}
    /\ pel' = pel \ {hand[w]}
    /\ hand' = [hand EXCEPT ![w] = None]
    /\ UNCHANGED <<tasks, shelf, resultPel, returned, inbox>>

\* The process dies and another takes its place: its memory is gone, its
\* deliveries stay in the pending-entries list.
WorkerCrash(w) ==
    /\ hand[w] # None \/ shelf[w] # {}
    /\ hand' = [hand EXCEPT ![w] = None]
    /\ shelf' = [shelf EXCEPT ![w] = {}]
    /\ UNCHANGED <<tasks, pel>>
    /\ UNCHANGED resultVars
=============================================================================
