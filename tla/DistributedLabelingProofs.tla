--------------------- MODULE DistributedLabelingProofs ---------------------
(***************************************************************************)
(* Proofs about DistributedLabeling, for any documents, fingerprints,      *)
(* workers, batch size, retry limit and any number of crashes and runs.    *)
(***************************************************************************)
EXTENDS DistributedLabeling, TLAPS

-----------------------------------------------------------------------------
(* What the operations on the stores and on the streams return *)

\* Marking tasks in flight maps a checkpoint to a checkpoint.
LEMMA MarkInFlightTyped ==
    ASSUME items \in [Sources -> Item], NEW ts \in SUBSET Task, MarkInFlight(ts)
    PROVE  items' \in [Sources -> Item]
<1> SUFFICES ASSUME NEW u \in Sources PROVE items'[u] \in Item
  BY DEF MarkInFlight
<1>1. CASE \E t \in ts : t.source = u
  <2> DEFINE t == CHOOSE t \in ts : t.source = u
  <2>1. t \in Task
    BY <1>1
  <2>2. t.hash \in Hashes
    BY <2>1 DEF Task
  <2>3. items'[u] = [status |-> "in_flight", attempts |-> items[u].attempts + 1, hash |-> t.hash]
    BY <1>1 DEF MarkInFlight
  <2> HIDE DEF t
  <2> QED BY <2>2, <2>3 DEF Item, ItemStatus
<1>2. CASE ~ \E t \in ts : t.source = u
  BY <1>2 DEF MarkInFlight
<1> QED BY <1>1, <1>2

\* A status change maps a checkpoint to a checkpoint.
LEMMA MarkItemTyped ==
    ASSUME items \in [Sources -> Item], NEW s \in Sources, NEW status \in ItemStatus,
           MarkItem(s, status)
    PROVE  items' \in [Sources -> Item]
BY DEF MarkItem, Item

\* Registering a batch maps a table to a table.
LEMMA RegisterBatchTyped ==
    ASSUME rows \in [Hashes -> Row], NEW ts \in SUBSET Task, NEW status \in HashStatus,
           RegisterBatch(ts, status)
    PROVE  rows' \in [Hashes -> Row]
<1> SUFFICES ASSUME NEW h \in Hashes PROVE rows'[h] \in Row
  BY DEF RegisterBatch
<1>1. CASE \E t \in ts : t.hash = h
  <2> DEFINE t == CHOOSE t \in ts : t.hash = h
  <2>1. t \in Task
    BY <1>1
  <2>2. t.source \in Sources
    BY <2>1 DEF Task
  <2>3. rows'[h] = [status |-> status, source |-> t.source]
    BY <1>1 DEF RegisterBatch
  <2> HIDE DEF t
  <2> QED BY <2>2, <2>3 DEF Row
<1>2. CASE ~ \E t \in ts : t.hash = h
  BY <1>2 DEF RegisterBatch
<1> QED BY <1>1, <1>2

\* A new message is a message.
LEMMA EnqueueTyped ==
    ASSUME NEW ts \in SUBSET Task, tasks \subseteq Message, Enqueue(ts)
    PROVE  /\ tasks' \subseteq Message
           /\ \A m \in tasks' : m \in tasks \/ (m \in Message /\ m.task \in ts)
<1>1. ASSUME NEW t \in ts PROVE NewMessage(t) \in Message /\ NewMessage(t).task = t
  <2>1. UnusedIds(t) # {}
    BY DEF Enqueue
  <2>2. (CHOOSE i \in UnusedIds(t) : TRUE) \in Ids
    BY <2>1 DEF UnusedIds
  <2> QED BY <2>2 DEF NewMessage, Message
<1> QED BY <1>1 DEF Enqueue

-----------------------------------------------------------------------------
(* Type correctness *)

\* Empty stores, empty streams and a stopped orchestrator have the right types.
LEMMA InitTypeOK == Init => TypeOK
BY DEF Init, TypeOK, StoresInit, StoresTypeOK, QueueInit, QueueTypeOK, PCs, NoFailures,
       AbsentItem, AbsentRow, Item, Row, ItemStatus, HashStatus, Applying

\* Every step keeps the types.
LEMMA NextTypeOK == TypeOK /\ [Next]_vars => TypeOK'
<1> SUFFICES ASSUME TypeOK, [Next]_vars PROVE TypeOK'
  OBVIOUS
<1> USE DEF TypeOK, StoresTypeOK, QueueTypeOK, PCs, storeVars, taskVars, resultVars,
            queueVars, runVars, envVars, Applying
<1>a. NoFailures \in [Sources -> Nat]
  BY DEF NoFailures
<1>1. CASE StartRun
  BY <1>1 DEF StartRun
<1>2. CASE ExpireStaleRows
  <2>1. rows' \in [Hashes -> Row]
    BY <1>2 DEF ExpireStaleRows, ExpireRows, AbsentRow, Row, HashStatus
  <2> QED BY <1>2, <2>1 DEF ExpireStaleRows
<1>3. CASE ExpireStaleItems
  <2>1. items' \in [Sources -> Item]
    BY <1>3 DEF ExpireStaleItems, ExpireItems, Item, ItemStatus, AbsentItem
  <2> QED BY <1>3, <2>1 DEF ExpireStaleItems
<1>4. CASE DiscardAbandoned
  BY <1>4 DEF DiscardAbandoned, DiscardPending
<1>5. CASE SampleBatch
  <2>1. PICK B \in SUBSET todo, chosen \in SUBSET todo :
           /\ SelectPending(B)
           /\ todo' = todo \ B
           /\ batch' = {[source |-> s, hash |-> content[s]] : s \in chosen}
           /\ seen' = seen \cup {content[s] : s \in chosen}
           /\ pc' = IF chosen = {} THEN "sample" ELSE "register"
    BY <1>5 DEF SampleBatch
  <2>2. items' \in [Sources -> Item]
    BY <2>1 DEF SelectPending, Item, ItemStatus, NewItem
  <2>3. batch' \subseteq Task
    BY <2>1 DEF Task
  <2>4. seen' \subseteq Hashes
    BY <2>1
  <2> QED BY <1>5, <2>1, <2>2, <2>3, <2>4 DEF SampleBatch
<1>6. CASE FinishRun
  BY <1>6 DEF FinishRun
<1>7. CASE RegisterInFlight
  <2>1. rows' \in [Hashes -> Row]
    BY <1>7, RegisterBatchTyped DEF RegisterInFlight, HashStatus
  <2> QED BY <1>7, <2>1 DEF RegisterInFlight
<1>8. CASE MarkBatchInFlight
  <2>1. items' \in [Sources -> Item]
    BY <1>8, MarkInFlightTyped DEF MarkBatchInFlight
  <2> QED BY <1>8, <2>1 DEF MarkBatchInFlight
<1>9. CASE EnqueueBatch
  <2>1. tasks' \subseteq Message
    BY <1>9, EnqueueTyped DEF EnqueueBatch
  <2>2. active' \subseteq Sources
    BY <1>9 DEF EnqueueBatch, Task
  <2> QED BY <1>9, <2>1, <2>2 DEF EnqueueBatch, Enqueue
<1>10. CASE Receive
  <2>1. PICK claimed \in SUBSET resultPel :
           \/ TakeReturned(claimed, Cardinality(active)) /\ pc' = "drain"
           \/ ReadResults(claimed, Cardinality(active)) /\ pc' = "ack"
    BY <1>10 DEF Receive
  <2>2. InHandResults(claimed) \subseteq Result
    BY DEF InHandResults
  <2>3. results' \subseteq Result /\ resultPel' \subseteq Result
        /\ returned' \subseteq Result /\ inbox' \subseteq Result
    BY <2>1, <2>2 DEF TakeReturned, ReadResults
  <2> QED BY <1>10, <2>1, <2>3 DEF Receive, Idle
<1>11. CASE Acknowledge
  BY <1>11 DEF Acknowledge, AckResults
<1>12. CASE SkipResult
  BY <1>12 DEF SkipResult, Consume
<1>13. CASE AcceptResult
  <2>1. PICK r \in inbox : RegisterBatch({r.task}, "accepted") /\ current' = r /\ Consume(r)
    BY <1>13 DEF AcceptResult
  <2>2. {r.task} \in SUBSET Task
    BY DEF Result
  <2>3. rows' \in [Hashes -> Row]
    BY <2>1, <2>2, RegisterBatchTyped DEF HashStatus
  <2> QED BY <1>13, <2>1, <2>3 DEF AcceptResult, Consume
<1>14. CASE CompleteItem
  <2>1. items' \in [Sources -> Item]
    <3> DEFINE s == current.task.source
    <3>1. items' = [items EXCEPT ![s].status = "completed"]
      BY <1>14 DEF CompleteItem, MarkItem
    <3> HIDE DEF s
    <3> SUFFICES ASSUME NEW u \in Sources PROVE items'[u] \in Item
      BY <3>1
    <3>2. items[u] \in Item
      OBVIOUS
    <3>3. items'[u] = IF u = s THEN [items[u] EXCEPT !.status = "completed"] ELSE items[u]
      BY <3>1
    <3> QED BY <3>2, <3>3 DEF Item, ItemStatus
  <2> QED BY <1>14, <2>1 DEF CompleteItem
<1>15. CASE RejectItem
  <2>0. PICK r \in inbox : FailedResult(r) /\ MarkItem(r.task.source, "rejected")
    BY <1>15 DEF RejectItem
  <2>1. items' \in [Sources -> Item]
    BY <2>0, MarkItemTyped DEF ItemStatus, Result, Task
  <2>2. failures' \in [Sources -> Nat]
    BY <1>15 DEF RejectItem, FailedResult
  <2> QED BY <1>15, <2>1, <2>2 DEF RejectItem, FailedResult, Consume
<1>16. CASE RetryPending
  <2>0. PICK r \in inbox : FailedResult(r) /\ MarkItem(r.task.source, "pending")
    BY <1>16 DEF RetryPending
  <2>1. items' \in [Sources -> Item]
    BY <2>0, MarkItemTyped DEF ItemStatus, Result, Task
  <2>2. failures' \in [Sources -> Nat]
    BY <1>16 DEF RetryPending, FailedResult
  <2> QED BY <1>16, <2>1, <2>2 DEF RetryPending, FailedResult, Consume
<1>17. CASE RetryInFlight
  <2>1. {current.task} \in SUBSET Task
    BY <1>17 DEF RetryInFlight, Result
  <2>2. items' \in [Sources -> Item]
    BY <1>17, <2>1, MarkInFlightTyped DEF RetryInFlight
  <2> QED BY <1>17, <2>2 DEF RetryInFlight
<1>18. CASE RetryEnqueue
  <2>1. {current.task} \in SUBSET Task
    BY <1>18 DEF RetryEnqueue, Result
  <2>2. tasks' \subseteq Message
    BY <1>18, <2>1, EnqueueTyped DEF RetryEnqueue
  <2> QED BY <1>18, <2>2 DEF RetryEnqueue, Enqueue
<1>19. CASE NextBatch
  BY <1>19, <1>a DEF NextBatch, Idle
<1>20. CASE Crash
  BY <1>20, <1>a DEF Crash
<1>21. CASE EditDocument
  BY <1>21 DEF EditDocument
<1>22. ASSUME NEW w \in Workers, WorkerDequeues(w) PROVE TypeOK'
  <2>1. CASE DequeueNew(w)
    BY <1>22, <2>1 DEF WorkerDequeues, DequeueNew
  <2>2. CASE DequeueReclaimed(w)
    <3>1. PICK claimed \in SUBSET Reclaimable : \E m \in shelf[w] \cup claimed :
             /\ hand' = [hand EXCEPT ![w] = m]
             /\ shelf' = [shelf EXCEPT ![w] =
                            (@ \cup claimed) \ IF m \in @ \cap claimed THEN {} ELSE {m}]
      BY <2>2 DEF DequeueReclaimed
    <3>1a. PICK m \in shelf[w] \cup claimed :
             /\ hand' = [hand EXCEPT ![w] = m]
             /\ shelf' = [shelf EXCEPT ![w] =
                            (@ \cup claimed) \ IF m \in @ \cap claimed THEN {} ELSE {m}]
      BY <3>1
    <3>2. claimed \subseteq Message /\ m \in Message
      BY DEF Reclaimable
    <3>3. hand' \in [Workers -> Message \cup {None}]
      BY <3>1a, <3>2
    <3>4. shelf' \in [Workers -> SUBSET Message]
      BY <3>1a, <3>2
    <3> QED BY <1>22, <2>2, <3>3, <3>4 DEF WorkerDequeues, DequeueReclaimed
  <2> QED BY <1>22, <2>1, <2>2 DEF WorkerDequeues
<1>23. ASSUME NEW w \in Workers, WorkerPublishes(w) PROVE TypeOK'
  <2>1. PICK ok \in BOOLEAN : Publish(w, ok)
    BY <1>23 DEF WorkerPublishes
  <2>2. hand[w] \in Message
    BY <2>1 DEF Publish
  <2>3. PICK i \in Ids : results' = results \cup {[task |-> hand[w].task, ok |-> ok, id |-> i]}
    BY <2>1 DEF Publish
  <2>4. results' \subseteq Result
    BY <2>2, <2>3 DEF Result, Message
  <2> QED BY <1>23, <2>1, <2>4 DEF WorkerPublishes, Publish
<1>24. ASSUME NEW w \in Workers, WorkerDies(w) PROVE TypeOK'
  BY <1>24 DEF WorkerDies, WorkerCrash
<1>25. CASE UNCHANGED vars
  BY <1>25 DEF vars
<1> QED
  BY <1>1, <1>2, <1>3, <1>4, <1>5, <1>6, <1>7, <1>8, <1>9, <1>10, <1>11, <1>12, <1>13,
     <1>14, <1>15, <1>16, <1>17, <1>18, <1>19, <1>20, <1>21, <1>22, <1>23, <1>24, <1>25
     DEF Next, Orchestrator

\* Every variable keeps its type in every behaviour.
THEOREM TypeCorrect == Spec => []TypeOK
<1>1. Init => TypeOK
  BY InitTypeOK
<1>2. TypeOK /\ [Next]_vars => TypeOK'
  BY NextTypeOK
<1> QED BY <1>1, <1>2, PTL DEF Spec

-----------------------------------------------------------------------------
(* The labeling invariant, while documents are not edited *)

\* A step brings no task into the system but those of documents as they are
\* now: streams, workers and results only move tasks around.
LEMMA TasksStep ==
    ASSUME TypeOK, [Next]_vars, NEW t \in TasksInSystem', content' = content
    PROVE  t \in TasksInSystem \/ \E s \in Sources : t = [source |-> s, hash |-> content[s]]
<1> USE DEF TypeOK, QueueTypeOK, storeVars, taskVars, resultVars, queueVars, runVars,
            envVars, TasksInSystem, LiveMessages, LiveResults, InHand, Shelved
<1>1. CASE StartRun
  BY <1>1 DEF StartRun
<1>2. CASE ExpireStaleRows
  BY <1>2 DEF ExpireStaleRows
<1>3. CASE ExpireStaleItems
  BY <1>3 DEF ExpireStaleItems
<1>4. CASE DiscardAbandoned
  BY <1>4 DEF DiscardAbandoned, DiscardPending
<1>5. CASE SampleBatch
  <2>1. PICK B \in SUBSET todo, chosen \in SUBSET todo :
           batch' = {[source |-> s, hash |-> content[s]] : s \in chosen}
    BY <1>5 DEF SampleBatch
  <2> QED BY <1>5, <2>1 DEF SampleBatch
<1>6. CASE FinishRun
  BY <1>6 DEF FinishRun
<1>7. CASE RegisterInFlight
  BY <1>7 DEF RegisterInFlight
<1>8. CASE MarkBatchInFlight
  BY <1>8 DEF MarkBatchInFlight
<1>9. CASE EnqueueBatch
  <2>1. \A m \in tasks' : m \in tasks \/ m.task \in batch
    BY <1>9, EnqueueTyped DEF EnqueueBatch
  <2> QED BY <1>9, <2>1 DEF EnqueueBatch, Enqueue
<1>10. CASE Receive
  <2>1. PICK claimed \in SUBSET resultPel :
           \/ TakeReturned(claimed, Cardinality(active))
           \/ ReadResults(claimed, Cardinality(active))
    BY <1>10 DEF Receive
  <2>2. InHandResults(claimed) \subseteq LiveResults
    BY DEF InHandResults
  <2>3. LiveResults' \subseteq LiveResults
    BY <2>1, <2>2 DEF TakeReturned, ReadResults
  <2> QED BY <1>10, <2>3 DEF Receive
<1>11. CASE Acknowledge
  BY <1>11 DEF Acknowledge, AckResults
<1>12. CASE SkipResult
  BY <1>12 DEF SkipResult, Consume
<1>13. CASE AcceptResult
  BY <1>13 DEF AcceptResult, Consume, Result
<1>14. CASE CompleteItem
  BY <1>14 DEF CompleteItem
<1>15. CASE RejectItem
  BY <1>15 DEF RejectItem, FailedResult, Consume
<1>16. CASE RetryPending
  BY <1>16 DEF RetryPending, FailedResult, Consume, Result
<1>17. CASE RetryInFlight
  BY <1>17 DEF RetryInFlight
<1>18. CASE RetryEnqueue
  <2>1. current \in Result /\ current # None
    BY <1>18, QueueAssumption DEF RetryEnqueue, Applying, Result
  <2>2. \A m \in tasks' : m \in tasks \/ m.task = current.task
    BY <1>18, <2>1, EnqueueTyped DEF RetryEnqueue, Result
  <2> QED BY <1>18, <2>1, <2>2 DEF RetryEnqueue, Enqueue
<1>19. CASE NextBatch
  BY <1>19 DEF NextBatch
<1>20. CASE Crash
  BY <1>20 DEF Crash
<1>21. CASE EditDocument
  BY <1>21 DEF EditDocument
<1>22. ASSUME NEW w \in Workers, WorkerDequeues(w) PROVE t \in TasksInSystem
  <2>1. CASE DequeueNew(w)
    BY <1>22, <2>1 DEF WorkerDequeues, DequeueNew
  <2>2. CASE DequeueReclaimed(w)
    <3>1. PICK claimed \in SUBSET Reclaimable : \E m \in shelf[w] \cup claimed :
             /\ hand' = [hand EXCEPT ![w] = m]
             /\ shelf' = [shelf EXCEPT ![w] =
                            (@ \cup claimed) \ IF m \in @ \cap claimed THEN {} ELSE {m}]
      BY <2>2 DEF DequeueReclaimed
    <3>2. claimed \subseteq pel
      BY DEF Reclaimable
    <3>3. InHand' \subseteq LiveMessages /\ Shelved' \subseteq LiveMessages
      BY <3>1, <3>2
    <3> QED BY <1>22, <2>2, <3>3 DEF WorkerDequeues, DequeueReclaimed
  <2> QED BY <1>22, <2>1, <2>2 DEF WorkerDequeues
<1>23. ASSUME NEW w \in Workers, WorkerPublishes(w) PROVE t \in TasksInSystem
  <2>1. PICK ok \in BOOLEAN : Publish(w, ok)
    BY <1>23 DEF WorkerPublishes
  <2>2. PICK i \in Ids : results' = results \cup {[task |-> hand[w].task, ok |-> ok, id |-> i]}
    BY <2>1 DEF Publish
  <2>3. hand[w] \in InHand
    BY <2>1 DEF Publish
  <2>4. LiveMessages' \subseteq LiveMessages
    BY <2>1 DEF Publish
  <2>5. \A r \in LiveResults' : r \in LiveResults \/ r.task = hand[w].task
    BY <2>1, <2>2 DEF Publish
  <2> QED BY <1>23, <2>3, <2>4, <2>5 DEF WorkerPublishes
<1>24. ASSUME NEW w \in Workers, WorkerDies(w) PROVE t \in TasksInSystem
  BY <1>24 DEF WorkerDies, WorkerCrash
<1>25. CASE UNCHANGED vars
  BY <1>25 DEF vars
<1> QED
  BY <1>1, <1>2, <1>3, <1>4, <1>5, <1>6, <1>7, <1>8, <1>9, <1>10, <1>11, <1>12, <1>13,
     <1>14, <1>15, <1>16, <1>17, <1>18, <1>19, <1>20, <1>21, <1>22, <1>23, <1>24, <1>25
     DEF Next, Orchestrator

\* With no edit to spend, documents keep their fingerprints and tasks agree.
LEMMA UneditedStep ==
    ASSUME MaxEdits = 0, TypeOK, Unedited, [Next]_vars
    PROVE  Unedited' /\ content' = content
<1>1. edits' = edits /\ content' = content
  <2> USE DEF envVars
  <2>1. ~EditDocument
    BY DEF EditDocument, Unedited
  <2>2. CASE Orchestrator
    BY <2>2 DEF Orchestrator, StartRun, ExpireStaleRows, ExpireStaleItems, DiscardAbandoned,
       SampleBatch, FinishRun, RegisterInFlight, MarkBatchInFlight, EnqueueBatch, Receive,
       Acknowledge, SkipResult, AcceptResult, CompleteItem, RejectItem, RetryPending,
       RetryInFlight, RetryEnqueue, NextBatch
  <2>3. CASE Crash
    BY <2>3 DEF Crash
  <2>4. CASE \E w \in Workers : WorkerDequeues(w) \/ WorkerPublishes(w) \/ WorkerDies(w)
    BY <2>4 DEF WorkerDequeues, WorkerPublishes, WorkerDies
  <2>5. CASE UNCHANGED vars
    BY <2>5 DEF vars
  <2> QED BY <2>1, <2>2, <2>3, <2>4, <2>5 DEF Next
<1>2. \A t \in TasksInSystem' : t.hash = content[t.source]
  BY <1>1, TasksStep DEF Unedited
<1> QED BY <1>1, <1>2 DEF Unedited

\* What the invariant says of claims and labels survives any step that leaves
\* the stores and the claims alone and does not leave or enter a result.
LEMMA QuietStep ==
    ASSUME LabelingInv, TypeOK', Unedited', content' = content,
           UNCHANGED <<items, rows, batch, active, current>>,
           pc' = pc \/ {pc, pc'} \subseteq {"drain", "ack"}
    PROVE  LabelingInv'
<1> USE DEF LabelingInv
<1>1. ClaimPhases'
  BY DEF ClaimPhases, Applying
<1>2. Claimed' = Claimed /\ Accepted' = Accepted
  BY DEF Claimed, BatchSources, Accepted
<1>3. ClaimsApart'
  BY <1>2 DEF ClaimsApart, Completing
<1>4. ClaimsOpen'
  BY <1>2 DEF ClaimsOpen, Applying
<1>5. LabelsHaveOwners' /\ CompletedIsLabeled' /\ NoNearDuplicateAccepted'
  BY <1>2 DEF LabelsHaveOwners, CompletedIsLabeled, NoNearDuplicateAccepted
<1> QED BY <1>1, <1>3, <1>4, <1>5

\* The same for a step between runs or batches, when nothing is claimed: it
\* may forget items in flight and rows in flight.
LEMMA UnclaimedStep ==
    ASSUME LabelingInv, TypeOK', Unedited', content' = content,
           batch' = {}, active' = {}, pc' \notin {"complete", "retry_mark", "retry_enqueue"},
           \A h \in Hashes : IF rows[h].status = "accepted" THEN rows'[h] = rows[h]
                                                    ELSE rows'[h].status # "accepted",
           \A s \in Sources : items'[s] = items[s] \/ items'[s] = AbsentItem
    PROVE  LabelingInv'
<1> USE DEF LabelingInv
<1>1. ClaimPhases' /\ ClaimsApart' /\ ClaimsOpen'
  BY DEF ClaimPhases, ClaimsApart, ClaimsOpen, Claimed, BatchSources, Applying
<1>2. Accepted' = Accepted /\ \A h \in Accepted : rows'[h] = rows[h]
  BY DEF Accepted
<1>3. LabelsHaveOwners'
  BY <1>2 DEF LabelsHaveOwners, AbsentItem
<1>4. CompletedIsLabeled'
  <2> SUFFICES ASSUME NEW s \in Sources, items'[s].status = "completed"
               PROVE  items'[s].hash \in Hashes
                      /\ rows'[items'[s].hash] = [status |-> "accepted", source |-> s]
    BY DEF CompletedIsLabeled
  <2>1. items'[s] = items[s]
    BY DEF AbsentItem
  <2> QED BY <1>2, <2>1 DEF CompletedIsLabeled, Accepted
<1>5. NoNearDuplicateAccepted'
  BY <1>2 DEF NoNearDuplicateAccepted
<1> QED BY <1>1, <1>3, <1>4, <1>5

\* Sampling claims documents that are open, apart from one another and from
\* every stored fingerprint.
LEMMA SampleStep ==
    ASSUME LabelingInv, TypeOK', Unedited', content' = content, SampleBatch
    PROVE  LabelingInv'
<1> USE DEF LabelingInv, TypeOK, StoresTypeOK
<1>1. PICK B \in SUBSET todo, chosen \in SUBSET todo :
         /\ chosen \subseteq Ready(B)
         /\ IsFresh(chosen, B)
         /\ SelectPending(B)
         /\ batch' = {[source |-> s, hash |-> content[s]] : s \in chosen}
         /\ pc' = IF chosen = {} THEN "sample" ELSE "register"
  BY DEF SampleBatch
<1>2. pc = "sample" /\ active = {} /\ active' = {} /\ rows' = rows
  BY DEF SampleBatch, ClaimPhases
<1>3. Claimed' = chosen /\ chosen \subseteq Sources
  <2>1. Claimed' = {t.source : t \in batch'}
    BY <1>2 DEF Claimed, BatchSources, BatchSources
  <2>2. ASSUME NEW s \in chosen PROVE s \in Claimed'
    <3>1. [source |-> s, hash |-> content[s]] \in batch'
      BY <1>1
    <3> QED BY <2>1, <3>1
  <2>3. \A t \in batch' : t.source \in chosen
    BY <1>1
  <2> QED BY <2>1, <2>2, <2>3
<1>4. Accepted' = Accepted /\ Accepted \subseteq Registered
  BY <1>2 DEF Accepted, Registered
<1>5. ClaimPhases'
  BY <1>1, <1>2 DEF ClaimPhases, Applying
<1>6. ClaimsApart'
  <2>1. \A s \in chosen : \A g \in Accepted : <<g, content[s]>> \notin Near
    BY <1>1, <1>4 DEF IsFresh, IsUnknown, IsKnown
  <2>2. \A s, u \in chosen : s # u => <<content[s], content[u]>> \notin Near
    BY <1>1 DEF IsFresh
  <2> QED BY <1>3, <1>4, <2>1, <2>2 DEF ClaimsApart
<1>7. \A s \in Sources : items'[s] = items[s]
        \/ (items[s].status \in {"absent", "in_flight"} /\ items'[s].status = "pending")
  BY <1>1 DEF SelectPending, NewItem, Item
<1>8. ClaimsOpen'
  <2>1. \A s \in chosen : s \in B /\ items[s].status \in {"absent", "pending"}
    BY <1>1 DEF Ready
  <2>2. \A s \in chosen : items'[s].status = "pending"
    BY <1>1, <1>3, <2>1 DEF SelectPending, NewItem
  <2> QED BY <1>1, <1>3, <2>2 DEF ClaimsOpen, Applying
<1>9. LabelsHaveOwners'
  BY <1>1, <1>2, <1>4, <1>7 DEF LabelsHaveOwners
<1>10. CompletedIsLabeled'
  BY <1>2, <1>7 DEF CompletedIsLabeled
<1>11. NoNearDuplicateAccepted'
  BY <1>4 DEF NoNearDuplicateAccepted
<1> QED BY <1>5, <1>6, <1>8, <1>9, <1>10, <1>11

\* Registering the claimed fingerprints in flight overwrites no label.
LEMMA RegisterKeepsLabels ==
    ASSUME LabelingInv, RegisterInFlight
    PROVE  /\ Accepted' = Accepted
           /\ \A h \in Accepted : rows'[h] = rows[h]
<1> USE DEF LabelingInv, TypeOK, StoresTypeOK
<1>1. RegisterBatch(batch, "in_flight") /\ pc = "register"
  BY DEF RegisterInFlight
<1>2. ASSUME NEW u \in batch PROVE u.hash \in Hashes \ Accepted
  <2>1. u.source \in Claimed /\ u.source \in Sources /\ u.hash \in Hashes
    BY DEF Claimed, BatchSources, Task
  <2>2. u.hash = content[u.source]
    BY DEF Unedited, TasksInSystem
  <2>3. \A g \in Accepted : <<g, u.hash>> \notin Near
    BY <1>1, <2>1, <2>2 DEF ClaimsApart, Completing
  <2> QED BY <2>1, <2>3, StoresAssumption
<1>3. \A h \in Accepted : rows'[h] = rows[h]
  BY <1>1, <1>2 DEF RegisterBatch, Accepted
<1>4. ASSUME NEW h \in Hashes, h \notin Accepted PROVE h \notin Accepted'
  <2>1. rows'[h] = rows[h] \/ rows'[h].status = "in_flight"
    BY <1>1 DEF RegisterBatch
  <2> QED BY <1>4, <2>1 DEF Accepted
<1> QED BY <1>3, <1>4 DEF Accepted

\* Registering the batch claims its fingerprints, which sampling has found apart
\* from each other and from every stored one.
LEMMA RegisterStep ==
    ASSUME LabelingInv, TypeOK', Unedited', content' = content, RegisterInFlight
    PROVE  LabelingInv'
<1> USE DEF LabelingInv
<1>1. Accepted' = Accepted /\ \A h \in Accepted : rows'[h] = rows[h]
  BY RegisterKeepsLabels
<1>2. pc = "register" /\ pc' = "mark" /\ UNCHANGED <<items, batch, active, current>>
  BY DEF RegisterInFlight, runVars
<1>3. Claimed' = Claimed
  BY <1>2 DEF Claimed, BatchSources, BatchSources
<1>4. ClaimPhases'
  BY <1>2 DEF ClaimPhases, Applying
<1>5. ClaimsApart'
  BY <1>1, <1>2, <1>3 DEF ClaimsApart, Completing
<1>6. ClaimsOpen'
  BY <1>2, <1>3 DEF ClaimsOpen, Applying
<1>7. LabelsHaveOwners'
  BY <1>1, <1>2 DEF LabelsHaveOwners
<1>8. CompletedIsLabeled'
  BY <1>1, <1>2 DEF CompletedIsLabeled, Accepted
<1>9. NoNearDuplicateAccepted'
  BY <1>1 DEF NoNearDuplicateAccepted
<1> QED BY <1>4, <1>5, <1>6, <1>7, <1>8, <1>9

\* Marking in flight records for every marked document the fingerprint its
\* task carries, and leaves the other items alone.
LEMMA MarkInFlightRecords ==
    ASSUME TypeOK, Unedited, NEW ts \in SUBSET TasksInSystem, ts \subseteq Task,
           MarkInFlight(ts), NEW s \in Sources
    PROVE  IF \E t \in ts : t.source = s
           THEN items'[s].status = "in_flight" /\ items'[s].hash = content[s]
           ELSE items'[s] = items[s]
<1>1. CASE \E t \in ts : t.source = s
  <2> DEFINE t == CHOOSE t \in ts : t.source = s
  <2>1. t \in ts /\ t.source = s
    BY <1>1
  <2>2. t.hash = content[s]
    BY <2>1 DEF Unedited
  <2>3. items'[s].status = "in_flight" /\ items'[s].hash = t.hash
    BY <1>1 DEF MarkInFlight
  <2> HIDE DEF t
  <2> QED BY <1>1, <2>2, <2>3
<1>2. CASE ~ \E t \in ts : t.source = s
  BY <1>2 DEF MarkInFlight
<1> QED BY <1>1, <1>2

\* Marking the batch in flight records in each item the fingerprint of its task.
LEMMA MarkBatchStep ==
    ASSUME LabelingInv, TypeOK', Unedited', content' = content, MarkBatchInFlight
    PROVE  LabelingInv'
<1> USE DEF LabelingInv
<1>1. /\ pc = "mark" /\ pc' = "enqueue" /\ active = {}
      /\ MarkInFlight(batch) /\ UNCHANGED <<rows, batch, active, current>>
  BY DEF MarkBatchInFlight, runVars, ClaimPhases
<1>2. batch \subseteq TasksInSystem /\ batch \subseteq Task
  BY DEF TasksInSystem, TypeOK
<1>3. Claimed' = Claimed /\ Claimed = {t.source : t \in batch} /\ Claimed \subseteq Sources
  BY <1>1, <1>2 DEF Claimed, BatchSources, Task
<1>4. Accepted' = Accepted
  BY <1>1 DEF Accepted
<1>5. \A s \in Sources :
         IF s \in Claimed
         THEN items'[s].status = "in_flight" /\ items'[s].hash = content[s]
         ELSE items'[s] = items[s]
  BY <1>1, <1>2, <1>3, MarkInFlightRecords
<1>6. ClaimPhases' /\ ClaimsApart'
  BY <1>1, <1>3, <1>4 DEF ClaimPhases, ClaimsApart, Completing, Applying
<1>7. ClaimsOpen'
  BY <1>3, <1>5 DEF ClaimsOpen
<1>8. LabelsHaveOwners'
  BY <1>1, <1>4, <1>5 DEF LabelsHaveOwners
<1>9. CompletedIsLabeled'
  BY <1>1, <1>5 DEF CompletedIsLabeled
<1>10. NoNearDuplicateAccepted'
  BY <1>4 DEF NoNearDuplicateAccepted
<1> QED BY <1>6, <1>7, <1>8, <1>9, <1>10

\* The claims of the batch become the claims of the barrier.
LEMMA EnqueueStep ==
    ASSUME LabelingInv, TypeOK', Unedited', content' = content, EnqueueBatch
    PROVE  LabelingInv'
<1> USE DEF LabelingInv
<1>1. /\ pc = "enqueue" /\ pc' = "drain" /\ active = {} /\ batch' = {}
      /\ active' = {t.source : t \in batch} /\ UNCHANGED <<items, rows, current>>
  BY DEF EnqueueBatch, storeVars, ClaimPhases
<1>2. Claimed' = Claimed /\ Accepted' = Accepted
  BY <1>1 DEF Claimed, BatchSources, Accepted
<1>3. ClaimPhases' /\ ClaimsApart' /\ ClaimsOpen'
  BY <1>1, <1>2 DEF ClaimPhases, ClaimsApart, ClaimsOpen, Completing, Applying
<1>4. LabelsHaveOwners' /\ CompletedIsLabeled' /\ NoNearDuplicateAccepted'
  BY <1>1, <1>2 DEF LabelsHaveOwners, CompletedIsLabeled, NoNearDuplicateAccepted
<1> QED BY <1>3, <1>4

\* A result in hand names a document and the fingerprint the document has.
LEMMA ResultsAgree ==
    ASSUME LabelingInv, NEW r \in inbox
    PROVE  r \in Result /\ r.task \in Task /\ r.task.hash = content[r.task.source]
<1>1. r \in Result /\ r.task \in Task
  BY DEF LabelingInv, TypeOK, QueueTypeOK, Result
<1>2. r.task \in TasksInSystem
  BY DEF TasksInSystem, LiveResults
<1> QED BY <1>1, <1>2 DEF LabelingInv, Unedited

\* An active document is open and nothing accepted is near it, unless its own
\* label has just been written.
LEMMA ActiveIsOpen ==
    ASSUME LabelingInv, NEW s \in active
    PROVE  /\ s \in Sources /\ s \in Claimed
           /\ items[s].status \in {"pending", "in_flight"}
           /\ pc # "complete" =>
                 /\ \A g \in Accepted : <<g, content[s]>> \notin Near
                 /\ content[s] \notin Accepted
                 /\ \A g \in Accepted : rows[g].source # s
<1> USE DEF LabelingInv
<1>1. s \in Sources /\ s \in Claimed /\ content[s] \in Hashes
  BY DEF TypeOK, Claimed, BatchSources, BatchSources
<1>2. items[s].status \in {"pending", "in_flight"}
  BY <1>1 DEF ClaimsOpen
<1>3. CASE pc # "complete"
  <2>1. \A g \in Accepted : <<g, content[s]>> \notin Near
    BY <1>1, <1>3 DEF ClaimsApart, Completing
  <2>2. content[s] \notin Accepted
    BY <1>1, <2>1, StoresAssumption
  <2>3. \A g \in Accepted : rows[g].source # s
    BY <2>2 DEF LabelsHaveOwners
  <2> QED BY <1>1, <1>2, <2>1, <2>2, <2>3
<1> QED BY <1>1, <1>2, <1>3

\* Accepting a result adds one label, far from every other, and changes no row
\* that was accepted before.
LEMMA AcceptAddsOne ==
    ASSUME LabelingInv, TypeOK', AcceptResult
    PROVE  \E r \in inbox :
              /\ r.task.source \in active /\ current' = r
              /\ content[r.task.source] \in Hashes
              /\ Accepted' = Accepted \cup {content[r.task.source]}
              /\ rows'[content[r.task.source]] =
                    [status |-> "accepted", source |-> r.task.source]
              /\ \A h \in Accepted : rows'[h] = rows[h]
<1> USE DEF LabelingInv, TypeOK, StoresTypeOK
<1>1. PICK r \in inbox :
         r.task.source \in active /\ RegisterBatch({r.task}, "accepted") /\ current' = r
  BY DEF AcceptResult
<1>2. r.task \in Task /\ r.task.hash = content[r.task.source]
  BY ResultsAgree
<1> DEFINE h == content[r.task.source]
<1>3. h \in Hashes /\ r.task.source \in Sources
  BY <1>2 DEF Task
<1>4. h \notin Accepted
  BY <1>1, ActiveIsOpen DEF AcceptResult
<1>5. rows' = [g \in Hashes |-> IF g = h THEN [status |-> "accepted", source |-> r.task.source]
                                         ELSE rows[g]]
  BY <1>1, <1>2 DEF RegisterBatch
<1> HIDE DEF h
<1>6. Accepted' = Accepted \cup {h} /\ \A g \in Accepted : rows'[g] = rows[g]
  BY <1>3, <1>4, <1>5 DEF Accepted
<1>7. rows'[h] = [status |-> "accepted", source |-> r.task.source]
  BY <1>3, <1>5
<1> QED BY <1>1, <1>3, <1>6, <1>7 DEF h

\* An accepted result is a claim of the current batch, so that its fingerprint
\* is apart from every label; the item is completed by the next step.
LEMMA AcceptStep ==
    ASSUME LabelingInv, TypeOK', Unedited', content' = content, AcceptResult
    PROVE  LabelingInv'
<1> USE DEF LabelingInv
<1>1. PICK r \in inbox :
         /\ r.task.source \in active /\ current' = r
         /\ content[r.task.source] \in Hashes
         /\ Accepted' = Accepted \cup {content[r.task.source]}
         /\ rows'[content[r.task.source]] =
               [status |-> "accepted", source |-> r.task.source]
         /\ \A h \in Accepted : rows'[h] = rows[h]
  BY AcceptAddsOne
<1>2. /\ pc = "drain" /\ pc' = "complete" /\ batch = {}
      /\ UNCHANGED <<items, batch, active>>
  BY DEF AcceptResult, ClaimPhases
<1> DEFINE s == r.task.source
<1>3. /\ s \in Sources /\ s \in Claimed /\ items[s].status # "rejected"
      /\ \A g \in Accepted : <<g, content[s]>> \notin Near
      /\ content[s] \notin Accepted
  BY <1>1, <1>2, ActiveIsOpen
<1>4. Claimed' = Claimed /\ current'.task.source = s
  BY <1>1, <1>2 DEF Claimed, BatchSources, BatchSources
<1> HIDE DEF s
<1>5. ClaimPhases'
  BY <1>1, <1>2 DEF ClaimPhases, Applying, s
<1>6. ClaimsApart'
  <2>1. \A u \in Claimed : u # s => <<content[s], content[u]>> \notin Near
    BY <1>3 DEF ClaimsApart
  <2>2. \A u \in Claimed, g \in Accepted : <<g, content[u]>> \notin Near
    BY <1>2 DEF ClaimsApart, Completing
  <2> QED BY <1>1, <1>2, <1>4, <2>1, <2>2 DEF ClaimsApart, Completing, s
<1>7. ClaimsOpen'
  BY <1>2, <1>4 DEF ClaimsOpen, Applying
<1>8. LabelsHaveOwners'
  BY <1>1, <1>2, <1>3, <1>4 DEF LabelsHaveOwners, s
<1>9. CompletedIsLabeled'
  BY <1>1, <1>2 DEF CompletedIsLabeled, Accepted
<1>10. NoNearDuplicateAccepted'
  <2>1. \A g \in Accepted : <<content[s], g>> \notin Near
    BY <1>1, <1>3, StoresAssumption DEF Accepted, s
  <2> QED BY <1>1, <1>3, <2>1 DEF NoNearDuplicateAccepted, s
<1> QED BY <1>5, <1>6, <1>7, <1>8, <1>9, <1>10

\* Completing the item closes the gap between the two stores that the accepted
\* row has opened.
LEMMA CompleteStep ==
    ASSUME LabelingInv, TypeOK', Unedited', content' = content, CompleteItem
    PROVE  LabelingInv'
<1> USE DEF LabelingInv
<1> DEFINE s == current.task.source
<1>1. /\ pc = "complete" /\ pc' = "drain" /\ batch = {} /\ batch' = {}
      /\ rows' = rows /\ active' = active \ {s} /\ MarkItem(s, "completed")
  BY DEF CompleteItem, runVars, ClaimPhases, Applying
<1>2. s \in active /\ s \in Sources
  BY <1>1 DEF ClaimPhases, Applying, TypeOK
<1>3. rows[content[s]] = [status |-> "accepted", source |-> s] /\ items[s].hash = content[s]
  BY <1>1, <1>2 DEF LabelsHaveOwners, ClaimsOpen, Applying, Claimed, BatchSources, BatchSources
<1>4. Completing(s) /\ \A u \in active : u # s => ~Completing(u)
  BY <1>1 DEF Completing
<1> HIDE DEF s
<1>5. Claimed' = active' /\ active' \subseteq Claimed /\ Accepted' = Accepted
  BY <1>1 DEF Claimed, BatchSources, Accepted
<1>6. /\ items'[s].status = "completed" /\ items'[s].hash = items[s].hash
      /\ \A u \in Sources : u # s => items'[u] = items[u]
  BY <1>1, <1>2 DEF MarkItem, TypeOK, StoresTypeOK, Item
<1>7. ClaimPhases' /\ ClaimsApart'
  BY <1>1, <1>4, <1>5 DEF ClaimPhases, ClaimsApart, Completing, Applying
<1>8. ClaimsOpen'
  BY <1>1, <1>5, <1>6 DEF ClaimsOpen, Applying, TypeOK
<1>9. LabelsHaveOwners'
  BY <1>1, <1>5, <1>6 DEF LabelsHaveOwners
<1>10. CompletedIsLabeled'
  <2>1. content[s] \in Hashes
    BY <1>2 DEF TypeOK
  <2> QED BY <1>1, <1>3, <1>6, <2>1 DEF CompletedIsLabeled
<1>11. NoNearDuplicateAccepted'
  BY <1>5 DEF NoNearDuplicateAccepted
<1> QED BY <1>7, <1>8, <1>9, <1>10, <1>11

\* Rejecting an active document contradicts no label: none is its own.
LEMMA RejectStep ==
    ASSUME LabelingInv, TypeOK', Unedited', content' = content, RejectItem
    PROVE  LabelingInv'
<1> USE DEF LabelingInv
<1>1. PICK r \in inbox : /\ r.task.source \in active /\ pc = "drain"
                         /\ MarkItem(r.task.source, "rejected")
                         /\ active' = active \ {r.task.source}
  BY DEF RejectItem, FailedResult
<1> DEFINE s == r.task.source
<1>2. pc' = "drain" /\ UNCHANGED <<rows, batch, current>>
  BY <1>1 DEF RejectItem
<1>3. s \in Sources /\ \A g \in Accepted : rows[g].source # s
  BY <1>1, ActiveIsOpen
<1> HIDE DEF s
<1>4. Claimed' \subseteq Claimed /\ Accepted' = Accepted /\ batch = {}
      /\ \A u \in Claimed' : u # s
  BY <1>1, <1>2 DEF Claimed, BatchSources, Accepted, ClaimPhases, s
<1>5. items'[s].status = "rejected" /\ \A u \in Sources : u # s => items'[u] = items[u]
  BY <1>1, <1>3 DEF MarkItem, TypeOK, StoresTypeOK, Item, s
<1>6. ClaimPhases' /\ ClaimsApart'
  BY <1>1, <1>2, <1>4 DEF ClaimPhases, ClaimsApart, Completing, Applying
<1>7. ClaimsOpen'
  BY <1>1, <1>2, <1>4, <1>5 DEF ClaimsOpen, Claimed, BatchSources, TypeOK
<1>8. LabelsHaveOwners'
  BY <1>2, <1>3, <1>4, <1>5 DEF LabelsHaveOwners
<1>9. CompletedIsLabeled'
  BY <1>2, <1>5 DEF CompletedIsLabeled
<1>10. NoNearDuplicateAccepted'
  BY <1>4 DEF NoNearDuplicateAccepted
<1> QED BY <1>6, <1>7, <1>8, <1>9, <1>10

\* The three steps of a retry keep the document claimed and open.
LEMMA RetryStep ==
    ASSUME LabelingInv, TypeOK', Unedited', content' = content,
           RetryPending \/ RetryInFlight \/ RetryEnqueue
    PROVE  LabelingInv'
<1> USE DEF LabelingInv
<1>1. /\ pc \in {"drain", "retry_mark", "retry_enqueue"}
      /\ pc' \in {"retry_mark", "retry_enqueue", "drain"}
      /\ UNCHANGED <<rows, batch, active>>
  BY DEF RetryPending, RetryInFlight, RetryEnqueue, FailedResult, storeVars, runVars
<1>2. \A u \in Sources :
         \/ items'[u] = items[u]
         \/ /\ u \in active
            /\ items'[u].status \in {"pending", "in_flight"}
            /\ items'[u].hash = content[u]
  <2>1. CASE RetryPending
    <3>1. PICK r \in inbox : r.task.source \in active /\ pc = "drain"
                             /\ MarkItem(r.task.source, "pending")
      BY <2>1 DEF RetryPending, FailedResult
    <3>2. \A u \in active : items[u].hash = content[u]
      BY <3>1 DEF ClaimsOpen, Claimed, BatchSources, BatchSources
    <3> QED BY <3>1, <3>2 DEF MarkItem, TypeOK, StoresTypeOK, Item
  <2>2. CASE RetryInFlight
    <3>1. pc = "retry_mark" /\ MarkInFlight({current.task})
      BY <2>2 DEF RetryInFlight
    <3>2. current \in Result /\ current # None
      BY <3>1, QueueAssumption DEF TypeOK, Applying, Result
    <3>3. {current.task} \subseteq TasksInSystem /\ {current.task} \subseteq Task
      BY <3>2 DEF TasksInSystem, Result
    <3>4. current.task.source \in active
      BY <3>1 DEF ClaimPhases, Applying
    <3> QED BY <3>1, <3>3, <3>4, MarkInFlightRecords
  <2>3. CASE RetryEnqueue
    BY <2>3 DEF RetryEnqueue, storeVars
  <2> QED BY <2>1, <2>2, <2>3
<1>3. pc' # "drain" => current'.task.source \in active
  BY DEF RetryPending, RetryInFlight, RetryEnqueue, FailedResult, runVars, ClaimPhases, Applying
<1>4. Claimed' = Claimed /\ Accepted' = Accepted /\ active \subseteq Claimed
  BY <1>1 DEF Claimed, BatchSources, Accepted
<1>5. ClaimPhases'
  BY <1>1, <1>3 DEF ClaimPhases, Applying
<1>6. ClaimsApart'
  BY <1>1, <1>4 DEF ClaimsApart, Completing
<1>7. ClaimsOpen'
  <2>1. Claimed \subseteq Sources
    BY DEF Claimed, BatchSources, TypeOK, Task
  <2>2. \A u \in Claimed : items[u].status \in {"pending", "in_flight"}
                           /\ items[u].hash = content[u]
    BY <1>1 DEF ClaimsOpen, Applying
  <2> QED BY <1>2, <1>4, <2>1, <2>2 DEF ClaimsOpen
<1>8. LabelsHaveOwners'
  BY <1>1, <1>2, <1>4 DEF LabelsHaveOwners
<1>9. CompletedIsLabeled'
  BY <1>1, <1>2 DEF CompletedIsLabeled
<1>10. NoNearDuplicateAccepted'
  BY <1>4 DEF NoNearDuplicateAccepted
<1> QED BY <1>5, <1>6, <1>7, <1>8, <1>9, <1>10

\* Nothing is claimed and nothing is accepted at first.
LEMMA InitLabelingInv == Init => LabelingInv
<1> SUFFICES ASSUME Init PROVE LabelingInv
  OBVIOUS
<1>1. TypeOK
  BY InitTypeOK
<1>2. TasksInSystem = {} /\ Claimed = {} /\ Accepted = {}
  BY DEF Init, StoresInit, QueueInit, AbsentRow, TasksInSystem, LiveMessages, LiveResults,
         InHand, Shelved, Claimed, BatchSources, Accepted
<1>3. Unedited /\ ClaimPhases /\ ClaimsApart /\ ClaimsOpen
  BY <1>2 DEF Init, Unedited, ClaimPhases, ClaimsApart, ClaimsOpen, Applying
<1>4. LabelsHaveOwners /\ CompletedIsLabeled /\ NoNearDuplicateAccepted
  BY <1>2 DEF Init, StoresInit, AbsentItem, LabelsHaveOwners, CompletedIsLabeled,
              NoNearDuplicateAccepted
<1> QED BY <1>1, <1>3, <1>4 DEF LabelingInv

\* Every step keeps the inductive invariant while no document is edited.
LEMMA LabelingInvStep ==
    ASSUME MaxEdits = 0, LabelingInv, [Next]_vars
    PROVE  LabelingInv'
<1> USE DEF storeVars, taskVars, resultVars, queueVars, runVars, envVars
<1>a. TypeOK'
  BY NextTypeOK DEF LabelingInv
<1>b. Unedited' /\ content' = content
  BY UneditedStep DEF LabelingInv
<1>c. ClaimPhases /\ TypeOK
  BY DEF LabelingInv
<1>1. CASE \/ StartRun \/ ExpireStaleRows \/ ExpireStaleItems \/ DiscardAbandoned
           \/ FinishRun \/ NextBatch \/ Crash
  <2>1. batch' = {} /\ active' = {}
    BY <1>1, <1>c DEF StartRun, ExpireStaleRows, ExpireStaleItems, DiscardAbandoned,
       FinishRun, NextBatch, Crash, ClaimPhases, Idle
  <2>2. pc' \notin {"complete", "retry_mark", "retry_enqueue"}
    BY <1>1 DEF StartRun, ExpireStaleRows, ExpireStaleItems, DiscardAbandoned,
       FinishRun, NextBatch, Crash
  <2>3. \A h \in Hashes : IF rows[h].status = "accepted" THEN rows'[h] = rows[h]
                                                         ELSE rows'[h].status # "accepted"
    <3>1. CASE ExpireStaleRows
      BY <3>1 DEF ExpireStaleRows, ExpireRows, AbsentRow
    <3>2. CASE rows' = rows
      BY <3>2
    <3> QED BY <1>1, <3>1, <3>2 DEF StartRun, ExpireStaleItems, DiscardAbandoned,
               FinishRun, NextBatch, Crash
  <2>4. \A s \in Sources : items'[s] = items[s] \/ items'[s] = AbsentItem
    <3>1. CASE ExpireStaleItems
      BY <3>1 DEF ExpireStaleItems, ExpireItems
    <3>2. CASE items' = items
      BY <3>2
    <3> QED BY <1>1, <3>1, <3>2 DEF StartRun, ExpireStaleRows, DiscardAbandoned,
               FinishRun, NextBatch, Crash
  <2> QED BY <1>a, <1>b, <2>1, <2>2, <2>3, <2>4, UnclaimedStep
<1>2. CASE SampleBatch
  BY <1>2, <1>a, <1>b, SampleStep
<1>3. CASE RegisterInFlight
  BY <1>3, <1>a, <1>b, RegisterStep
<1>4. CASE MarkBatchInFlight
  BY <1>4, <1>a, <1>b, MarkBatchStep
<1>5. CASE EnqueueBatch
  BY <1>5, <1>a, <1>b, EnqueueStep
<1>6. CASE Receive \/ Acknowledge \/ SkipResult
  <2>1. pc \in {"drain", "ack"} /\ pc' \in {"drain", "ack"}
    BY <1>6 DEF Receive, Acknowledge, SkipResult, Idle
  <2>2. UNCHANGED <<items, rows, batch, active, current>>
    BY <1>6 DEF Receive, Acknowledge, SkipResult
  <2> QED BY <1>a, <1>b, <2>1, <2>2, QuietStep
<1>7. CASE AcceptResult
  BY <1>7, <1>a, <1>b, AcceptStep
<1>8. CASE CompleteItem
  BY <1>8, <1>a, <1>b, CompleteStep
<1>9. CASE RejectItem
  BY <1>9, <1>a, <1>b, RejectStep
<1>10. CASE RetryPending \/ RetryInFlight \/ RetryEnqueue
  BY <1>10, <1>a, <1>b, RetryStep
<1>11. CASE EditDocument \/ \E w \in Workers : WorkerDequeues(w) \/ WorkerPublishes(w) \/ WorkerDies(w)
  <2>1. UNCHANGED <<items, rows, pc, batch, active, current>>
    BY <1>11 DEF EditDocument, WorkerDequeues, WorkerPublishes, WorkerDies
  <2> QED BY <1>a, <1>b, <2>1, QuietStep
<1>12. CASE UNCHANGED vars
  <2>1. UNCHANGED <<items, rows, pc, batch, active, current>>
    BY <1>12 DEF vars
  <2> QED BY <1>a, <1>b, <2>1, QuietStep
<1> QED BY <1>1, <1>2, <1>3, <1>4, <1>5, <1>6, <1>7, <1>8, <1>9, <1>10, <1>11, <1>12
        DEF Next, Orchestrator

\* While documents are not edited, the claims of a batch and the labels of
\* all runs stay apart, whatever crashes, is retried or is delivered twice.
THEOREM LabelingInvariant ==
    ASSUME MaxEdits = 0
    PROVE  Spec => []LabelingInv
<1>1. Init => LabelingInv
  BY InitLabelingInv
<1>2. LabelingInv /\ [Next]_vars => LabelingInv'
  BY LabelingInvStep
<1> QED BY <1>1, <1>2, PTL DEF Spec

\* No two accepted fingerprints are near-duplicates of each other.
THEOREM AcceptedStayApart ==
    ASSUME MaxEdits = 0
    PROVE  Spec => []NoNearDuplicateAccepted
<1>1. LabelingInv => NoNearDuplicateAccepted
  BY DEF LabelingInv
<1> QED BY <1>1, LabelingInvariant, PTL

\* Every COMPLETED item of the checkpoint has its label in the dedup store.
THEOREM CompletedItemsHaveLabels ==
    ASSUME MaxEdits = 0
    PROVE  Spec => []CompletedIsLabeled
<1>1. LabelingInv => CompletedIsLabeled
  BY DEF LabelingInv
<1> QED BY <1>1, LabelingInvariant, PTL

-----------------------------------------------------------------------------
(* What steps may never do, and the ledger *)

Settled(s) == items[s].status \in {"completed", "rejected"}

\* Only three steps add a label or settle a document; every other one leaves
\* the accepted rows and the settled items as they are and adds none.
LEMMA OnlyThreeSteps ==
    ASSUME MaxEdits = 0, LabelingInv, [Next]_vars
    PROVE  \/ AcceptResult \/ CompleteItem \/ RejectItem
           \/ /\ Accepted' = Accepted
              /\ \A h \in Accepted : rows'[h] = rows[h]
              /\ \A s \in Sources : IF Settled(s) THEN items'[s] = items[s] ELSE ~Settled(s)'
<1> USE DEF storeVars, taskVars, resultVars, queueVars, runVars, envVars, Settled
<1>a. TypeOK /\ TypeOK' /\ Unedited /\ ClaimPhases /\ ClaimsOpen
  BY NextTypeOK DEF LabelingInv
<1>1. CASE ExpireStaleRows
  <2>1. items' = items
    BY <1>1 DEF ExpireStaleRows
  <2>2. \A h \in Hashes : IF rows[h].status = "accepted" THEN rows'[h] = rows[h]
                                                        ELSE rows'[h].status # "accepted"
    BY <1>1 DEF ExpireStaleRows, ExpireRows, AbsentRow
  <2>3. Accepted' = Accepted /\ \A h \in Accepted : rows'[h] = rows[h]
    BY <2>2 DEF Accepted
  <2> QED BY <2>1, <2>3
<1>2. CASE ExpireStaleItems
  <2>1. rows' = rows
    BY <1>2 DEF ExpireStaleItems
  <2>2. \A s \in Sources : \/ items'[s] = items[s]
                           \/ items[s].status = "in_flight" /\ items'[s].status = "absent"
    BY <1>2 DEF ExpireStaleItems, ExpireItems, AbsentItem
  <2> QED BY <2>1, <2>2 DEF Accepted
<1>3. CASE SampleBatch
  <2>1. PICK B \in SUBSET todo : SelectPending(B)
    BY <1>3 DEF SampleBatch
  <2>2. rows' = rows
    BY <1>3 DEF SampleBatch
  <2>3. \A s \in Sources :
           \/ items'[s] = items[s]
           \/ items[s].status \in {"absent", "in_flight"} /\ items'[s].status = "pending"
    BY <2>1, <1>a DEF SelectPending, NewItem, TypeOK, StoresTypeOK, Item
  <2> QED BY <2>2, <2>3 DEF Accepted
<1>4. CASE RegisterInFlight
  <2>1. items' = items
    BY <1>4 DEF RegisterInFlight
  <2> QED BY <1>4, <2>1, RegisterKeepsLabels
<1>5. CASE MarkBatchInFlight
  <2>1. rows' = rows /\ pc = "mark" /\ MarkInFlight(batch)
    BY <1>5 DEF MarkBatchInFlight
  <2>2. batch \subseteq TasksInSystem /\ batch \subseteq Task
    BY <1>a DEF TasksInSystem, TypeOK
  <2>3. \A s \in Sources : (\E t \in batch : t.source = s) => ~Settled(s)
    BY <1>a DEF ClaimsOpen, Claimed, BatchSources, BatchSources
  <2>4. \A s \in Sources : IF \E t \in batch : t.source = s
                           THEN items'[s].status = "in_flight" ELSE items'[s] = items[s]
    BY <2>1, <2>2, <1>a, MarkInFlightRecords
  <2> QED BY <2>1, <2>3, <2>4 DEF Accepted
<1>6. CASE RetryPending
  <2>1. PICK r \in inbox : r.task.source \in active /\ MarkItem(r.task.source, "pending")
    BY <1>6 DEF RetryPending, FailedResult
  <2>2. rows' = rows
    BY <1>6 DEF RetryPending
  <2>3. ~Settled(r.task.source)
    BY <2>1, ActiveIsOpen
  <2> QED BY <2>1, <2>2, <2>3, <1>a DEF Accepted, MarkItem, TypeOK, StoresTypeOK, Item
<1>7. CASE RetryInFlight
  <2>1. rows' = rows /\ pc = "retry_mark" /\ MarkInFlight({current.task})
    BY <1>7 DEF RetryInFlight
  <2>2. current \in Result /\ current # None
    BY <1>a, <2>1, QueueAssumption DEF TypeOK, Applying, Result
  <2>3. {current.task} \subseteq TasksInSystem /\ {current.task} \subseteq Task
    BY <2>2 DEF TasksInSystem, Result
  <2>4. ~Settled(current.task.source)
    BY <1>a, <2>1, ActiveIsOpen DEF ClaimPhases, Applying
  <2>5. \A s \in Sources : IF s = current.task.source
                           THEN items'[s].status = "in_flight" ELSE items'[s] = items[s]
    BY <2>1, <2>3, <1>a, MarkInFlightRecords
  <2> QED BY <2>1, <2>4, <2>5 DEF Accepted
<1>8. CASE UNCHANGED <<items, rows>>
  BY <1>8 DEF Accepted
<1>9. CASE \/ StartRun \/ DiscardAbandoned \/ FinishRun \/ EnqueueBatch \/ Receive
           \/ Acknowledge \/ SkipResult \/ RetryEnqueue \/ NextBatch \/ Crash \/ EditDocument
           \/ \E w \in Workers : WorkerDequeues(w) \/ WorkerPublishes(w) \/ WorkerDies(w)
  BY <1>8, <1>9 DEF StartRun, DiscardAbandoned, FinishRun, EnqueueBatch, Receive, Acknowledge,
     SkipResult, RetryEnqueue, NextBatch, Crash, EditDocument, WorkerDequeues,
     WorkerPublishes, WorkerDies
<1> QED BY <1>1, <1>2, <1>3, <1>4, <1>5, <1>6, <1>7, <1>8, <1>9 DEF Next, Orchestrator, vars

\* A settled item is not touched again.
LEMMA SettledStays ==
    ASSUME MaxEdits = 0, LabelingInv, [Next]_vars, NEW s \in Sources,
           items[s].status \in {"completed", "rejected"}
    PROVE  items'[s] = items[s]
<1>1. CASE AcceptResult
  BY <1>1 DEF AcceptResult
<1>2. CASE CompleteItem
  <2>1. current.task.source \in active /\ MarkItem(current.task.source, "completed")
    BY <1>2 DEF CompleteItem, LabelingInv, ClaimPhases, Applying
  <2>2. items[current.task.source].status \in {"pending", "in_flight"}
    BY <2>1, ActiveIsOpen
  <2> QED BY <2>1, <2>2 DEF MarkItem, LabelingInv, TypeOK, StoresTypeOK
<1>3. CASE RejectItem
  <2>1. PICK r \in inbox : r.task.source \in active /\ MarkItem(r.task.source, "rejected")
    BY <1>3 DEF RejectItem, FailedResult
  <2>2. items[r.task.source].status \in {"pending", "in_flight"}
    BY <2>1, ActiveIsOpen
  <2> QED BY <2>1, <2>2 DEF MarkItem, LabelingInv, TypeOK, StoresTypeOK
<1> QED BY <1>1, <1>2, <1>3, OnlyThreeSteps DEF Settled

\* An accepted label is never withdrawn, downgraded or replaced.
THEOREM LabelsAreFinal ==
    ASSUME MaxEdits = 0
    PROVE  Spec => AcceptedIsFinal
<1> DEFINE Kept == \A h \in Hashes : rows[h].status = "accepted" => rows'[h] = rows[h]
<1>1. LabelingInv /\ [Next]_vars => Kept
  <2> SUFFICES ASSUME LabelingInv, [Next]_vars PROVE Kept
    OBVIOUS
  <2>1. CASE AcceptResult
    BY <2>1, NextTypeOK, AcceptAddsOne DEF LabelingInv, Accepted
  <2>2. CASE CompleteItem \/ RejectItem
    BY <2>2 DEF CompleteItem, RejectItem
  <2> QED BY <2>1, <2>2, OnlyThreeSteps DEF Accepted
<1> QED BY <1>1, LabelingInvariant, PTL DEF Spec, AcceptedIsFinal

\* The ledger's three variables, as functions of the two stores.
Label == [h \in Hashes |-> IF rows[h].status = "accepted" THEN rows[h].source ELSE None]
CompletedSources == {s \in Sources : items[s].status = "completed"}
RejectedSources == {s \in Sources : items[s].status = "rejected"}

\* The ledger's labels are the accepted rows, each contributed by its source.
LEMMA LedgerReadsStores ==
    ASSUME LabelingInv
    PROVE  /\ \A h \in Hashes : Label[h] # None <=> h \in Accepted
           /\ \A s \in Sources : Ledger!Contributed(s) <=> \E h \in Accepted : rows[h].source = s
<1>1. \A h \in Hashes : Label[h] = IF h \in Accepted THEN rows[h].source ELSE None
  BY DEF Label, Accepted
<1>2. \A h \in Accepted : rows[h].source \in Sources
  BY DEF LabelingInv, LabelsHaveOwners
<1>3. None \notin Sources
  BY StoresAssumption
<1>4. Accepted \subseteq Hashes
  BY DEF Accepted
<1>6. \A s : Ledger!Contributed(s) <=> \E h \in Hashes : Label[h] = s
  BY DEF Ledger!Contributed, Label
<1>7. \A h \in Hashes : Label[h] # None <=> h \in Accepted
  BY <1>1, <1>2, <1>3, <1>4
<1>8. \A s \in Sources : Ledger!Contributed(s) <=> \E h \in Accepted : rows[h].source = s
  BY <1>1, <1>3, <1>4, <1>6
<1> QED BY <1>7, <1>8

\* Writing a label is the ledger's Accept.
LEMMA AcceptIsLedgerStep ==
    ASSUME LabelingInv, TypeOK', AcceptResult
    PROVE  Ledger!Next
<1>1. PICK s \in active, h \in Hashes :
         /\ h = content[s]
         /\ Accepted' = Accepted \cup {h}
         /\ rows'[h] = [status |-> "accepted", source |-> s]
         /\ \A g \in Accepted : rows'[g] = rows[g]
  BY AcceptAddsOne
<1>2. pc = "drain" /\ items' = items
  BY DEF AcceptResult
<1>3. /\ s \in Sources /\ items[s].status \in {"pending", "in_flight"}
      /\ \A g \in Accepted : <<g, h>> \notin Near
      /\ \A g \in Accepted : rows[g].source # s
  BY <1>1, <1>2, ActiveIsOpen
<1>4. Label' = [Label EXCEPT ![h] = s]
  <2>1. \A g \in Hashes : Label'[g] = IF g \in Accepted' THEN rows'[g].source ELSE None
    BY DEF Label, Accepted
  <2>2. \A g \in Hashes : Label[g] = IF g \in Accepted THEN rows[g].source ELSE None
    BY DEF Label, Accepted
  <2>3. \A g \in Hashes : Label'[g] = IF g = h THEN s ELSE Label[g]
    BY <1>1, <2>1, <2>2
  <2> QED BY <2>3 DEF Label
<1>5. s \notin CompletedSources \cup RejectedSources
  BY <1>3 DEF CompletedSources, RejectedSources
<1>6. /\ ~Ledger!Contributed(s) /\ s # None
      /\ \A g \in Hashes : Label[g] # None => g \in Accepted /\ Label[g] # s /\ <<g, h>> \notin Near
  <2>1. \A g \in Hashes : Label[g] # None <=> g \in Accepted
    BY LedgerReadsStores
  <2>2. \A g \in Accepted : Label[g] = rows[g].source /\ g \in Hashes
    BY DEF Label, Accepted
  <2> QED BY <1>3, <2>1, <2>2, LedgerReadsStores, StoresAssumption
<1>7. /\ Label[h] = None
      /\ \A g \in Hashes \ {h} : Label'[g] = Label[g]
      /\ Label'[h] = s
  <2>1. <<h, h>> \in Near
    BY StoresAssumption
  <2> QED BY <1>4, <1>6, <2>1 DEF Label
<1>8. Label' \in [Hashes -> Sources \cup {None}]
  BY DEF Label, TypeOK, StoresTypeOK, Row
<1>9. ASSUME NEW g \in Hashes, Label'[g] # Label[g]
      PROVE  g = h
  BY <1>7, <1>9
<1>10. \A g \in Hashes \ {h} : Label'[g] # None => Label'[g] # Label'[h] /\ <<g, h>> \notin Near
  BY <1>6, <1>7
<1>11. Ledger!Accept
  BY <1>2, <1>3, <1>5, <1>6, <1>7, <1>8, <1>9, <1>10
     DEF Ledger!Accept, Label, CompletedSources, RejectedSources
<1> QED BY <1>11 DEF Ledger!Next

\* Settling a document is the ledger's Complete or Reject.
LEMMA SettleIsLedgerStep ==
    ASSUME LabelingInv, CompleteItem \/ RejectItem
    PROVE  Ledger!Next
<1>1. PICK s \in active, v \in {"completed", "rejected"} :
         /\ MarkItem(s, v)
         /\ IF v = "completed" THEN pc = "complete" /\ s = current.task.source ELSE pc = "drain"
  BY DEF CompleteItem, RejectItem, FailedResult, LabelingInv, ClaimPhases, Applying
<1>2. rows' = rows /\ Label' = Label
  BY DEF CompleteItem, RejectItem, Label
<1>3. s \in Sources /\ items[s].status \in {"pending", "in_flight"}
  BY ActiveIsOpen
<1>4. items'[s].status = v /\ \A u \in Sources : u # s => items'[u] = items[u]
  BY <1>1, <1>3 DEF MarkItem, LabelingInv, TypeOK, StoresTypeOK, Item
<1>5. CASE v = "completed"
  <2>1. rows[content[s]] = [status |-> "accepted", source |-> s] /\ content[s] \in Hashes
    BY <1>1, <1>3, <1>5 DEF LabelingInv, LabelsHaveOwners, TypeOK
  <2>2. Ledger!Contributed(s)
    BY <1>3, <2>1, LedgerReadsStores DEF Accepted
  <2>3. CompletedSources' = CompletedSources \cup {s} /\ RejectedSources' = RejectedSources
    BY <1>3, <1>4, <1>5 DEF CompletedSources, RejectedSources
  <2>4. Ledger!Complete
    <3>1. {s} \in SUBSET Sources /\ \A u \in {s} : Ledger!Contributed(u)
      BY <1>3, <2>2
    <3> QED BY <1>2, <2>3, <3>1 DEF Ledger!Complete, Label, CompletedSources, RejectedSources
  <2> QED BY <2>4 DEF Ledger!Next
<1>6. CASE v = "rejected"
  <2>1. \A g \in Accepted : rows[g].source # s
    BY <1>1, <1>6, ActiveIsOpen
  <2>2. ~Ledger!Contributed(s)
    BY <1>3, <2>1, LedgerReadsStores
  <2>3. RejectedSources' = RejectedSources \cup {s} /\ CompletedSources' = CompletedSources
    BY <1>3, <1>4, <1>6 DEF CompletedSources, RejectedSources
  <2>4. Ledger!Reject(s)
    BY <1>2, <2>2, <2>3 DEF Ledger!Reject, Label, CompletedSources, RejectedSources
  <2> QED BY <1>3, <2>4 DEF Ledger!Next
<1> QED BY <1>1, <1>5, <1>6

\* While documents are not edited, the whole pipeline, with its streams,
\* workers, retries and crashes, does nothing but what the ledger allows.
THEOREM PipelineImplementsLedger ==
    ASSUME MaxEdits = 0
    PROVE  Spec => ImplementsLedger
<1>1. Init => Ledger!Init
  BY DEF Init, StoresInit, AbsentRow, AbsentItem, Ledger!Init
<1>2. LabelingInv /\ [Next]_vars => [Ledger!Next]_(Ledger!ledgerVars)
  <2> SUFFICES ASSUME LabelingInv, [Next]_vars PROVE [Ledger!Next]_(Ledger!ledgerVars)
    OBVIOUS
  <2>1. CASE AcceptResult
    BY <2>1, NextTypeOK, AcceptIsLedgerStep DEF LabelingInv
  <2>2. CASE CompleteItem \/ RejectItem
    BY <2>2, SettleIsLedgerStep
  <2>3. CASE /\ Accepted' = Accepted
             /\ \A h \in Accepted : rows'[h] = rows[h]
             /\ \A s \in Sources : IF Settled(s) THEN items'[s] = items[s] ELSE ~Settled(s)'
    <3>1. Label' = Label
      <4>1. Label = [h \in Hashes |-> IF h \in Accepted THEN rows[h].source ELSE None]
        BY DEF Label, Accepted
      <4>2. Label' = [h \in Hashes |-> IF h \in Accepted' THEN rows'[h].source ELSE None]
        BY DEF Label, Accepted
      <4>3. Accepted \subseteq Hashes
        BY DEF Accepted
      <4> QED BY <2>3, <4>1, <4>2, <4>3
    <3>2. CompletedSources' = CompletedSources /\ RejectedSources' = RejectedSources
      BY <2>3 DEF Settled, CompletedSources, RejectedSources
    <3> QED BY <3>1, <3>2 DEF Ledger!ledgerVars, Label, CompletedSources, RejectedSources
  <2> QED BY <2>1, <2>2, <2>3, OnlyThreeSteps
<1> QED BY <1>1, <1>2, LabelingInvariant, PTL DEF Spec, ImplementsLedger, Ledger!Spec

-----------------------------------------------------------------------------
(* The barrier: what the orchestrator waits for *)

\* The claims move from the batch to the barrier and are gone when a run ends.
LEMMA ClaimPhasesStep ==
    ASSUME TypeOK, ClaimPhases, [Next]_vars
    PROVE  ClaimPhases'
<1> USE DEF ClaimPhases, Applying, storeVars, runVars
<1>1. CASE \/ StartRun \/ ExpireStaleRows \/ ExpireStaleItems \/ DiscardAbandoned
           \/ FinishRun \/ RegisterInFlight \/ MarkBatchInFlight \/ EnqueueBatch
  BY <1>1 DEF StartRun, ExpireStaleRows, ExpireStaleItems, DiscardAbandoned, FinishRun,
     RegisterInFlight, MarkBatchInFlight, EnqueueBatch
<1>2. CASE SampleBatch
  BY <1>2 DEF SampleBatch
<1>3. CASE \/ Receive \/ Acknowledge \/ SkipResult \/ AcceptResult \/ CompleteItem
           \/ RejectItem \/ RetryPending \/ RetryInFlight \/ RetryEnqueue \/ NextBatch
  BY <1>3 DEF Receive, Acknowledge, SkipResult, AcceptResult, CompleteItem, RejectItem,
     RetryPending, RetryInFlight, RetryEnqueue, NextBatch, FailedResult, Idle
<1>4. CASE Crash
  BY <1>4 DEF Crash
<1>5. CASE \/ EditDocument \/ UNCHANGED vars
           \/ \E w \in Workers : WorkerDequeues(w) \/ WorkerPublishes(w) \/ WorkerDies(w)
  BY <1>5 DEF EditDocument, WorkerDequeues, WorkerPublishes, WorkerDies, vars
<1> QED BY <1>1, <1>2, <1>3, <1>4, <1>5 DEF Next, Orchestrator

\* Every enqueued task is in the stream afterwards, and nothing leaves it.
LEMMA EnqueuePlaces ==
    ASSUME NEW ts \in SUBSET Task, Enqueue(ts)
    PROVE  /\ tasks \subseteq tasks'
           /\ \A t \in ts : \E m \in tasks' : m.task = t
<1>1. \A t \in ts : NewMessage(t) \in tasks'
  BY DEF Enqueue
<1>2. \A t \in ts : NewMessage(t).task = t
  BY DEF NewMessage
<1> QED BY <1>1, <1>2 DEF Enqueue

\* Receiving and acknowledging move results; they lose none.
LEMMA ReceivingLosesNothing ==
    ASSUME Receive \/ Acknowledge
    PROVE  LiveResults' = LiveResults
<1>1. CASE Receive
  <2>1. PICK claimed \in SUBSET resultPel :
           \/ TakeReturned(claimed, Cardinality(active))
           \/ ReadResults(claimed, Cardinality(active))
    BY <1>1 DEF Receive
  <2>2. inbox = {}
    BY <1>1 DEF Receive, Idle
  <2>3. CASE TakeReturned(claimed, Cardinality(active))
    BY <2>2, <2>3 DEF TakeReturned, InHandResults, LiveResults
  <2>4. CASE ReadResults(claimed, Cardinality(active))
    BY <2>2, <2>4 DEF ReadResults, InHandResults, LiveResults
  <2> QED BY <2>1, <2>3, <2>4
<1>2. CASE Acknowledge
  BY <1>2 DEF Acknowledge, AckResults, LiveResults
<1> QED BY <1>1, <1>2

\* Consuming a result takes away that one at most.
LEMMA ConsumeTakesOne ==
    ASSUME NEW r, Consume(r)
    PROVE  \A q \in LiveResults : q \in LiveResults' \/ q = r
BY DEF Consume, LiveResults

\* No step but the end of the document's own wait lets go of what will settle it.
LEMMA PendingStep ==
    ASSUME TypeOK, ClaimPhases, [Next]_vars,
           NEW s \in active', s \notin active \/ Pending(s)
    PROVE  Pending(s)'
<1> USE DEF TypeOK, QueueTypeOK, storeVars, taskVars, resultVars, queueVars, runVars, envVars
<1>1. CASE EnqueueBatch
  <2>1. PICK t \in batch : t.source = s
    BY <1>1 DEF EnqueueBatch
  <2>2. \E m \in tasks' : m.task = t
    BY <1>1, EnqueuePlaces DEF EnqueueBatch
  <2> QED BY <2>1, <2>2 DEF Pending
<1>a. CASE ~EnqueueBatch
  <2>a. s \in active
    BY <1>a DEF Next, Orchestrator, StartRun, ExpireStaleRows, ExpireStaleItems, DiscardAbandoned,
       SampleBatch, FinishRun, RegisterInFlight, MarkBatchInFlight, Receive, Acknowledge,
       SkipResult, AcceptResult, CompleteItem, RejectItem, RetryPending, RetryInFlight,
       RetryEnqueue, NextBatch, Crash, EditDocument, WorkerDequeues, WorkerPublishes,
       WorkerDies, vars
  <2>b. Pending(s)
    BY <2>a
  <2>1. CASE StartRun \/ DiscardAbandoned \/ SampleBatch \/ FinishRun \/ NextBatch \/ Crash
    BY <2>1, <2>a DEF StartRun, DiscardAbandoned, SampleBatch, FinishRun, NextBatch, Crash,
       ClaimPhases
  <2>2. CASE \/ ExpireStaleRows \/ ExpireStaleItems \/ RegisterInFlight \/ MarkBatchInFlight
             \/ RetryInFlight \/ EditDocument \/ UNCHANGED vars
    <3>1. UNCHANGED <<queueVars, current>>
      BY <2>2 DEF ExpireStaleRows, ExpireStaleItems, RegisterInFlight, MarkBatchInFlight,
         RetryInFlight, EditDocument, vars
    <3> QED BY <2>b, <3>1 DEF Pending, LiveResults
  <2>3. CASE Receive \/ Acknowledge
    <3>1. UNCHANGED <<taskVars, current>>
      BY <2>3 DEF Receive, Acknowledge
    <3> QED BY <2>b, <2>3, <3>1, ReceivingLosesNothing DEF Pending
  <2>4. CASE SkipResult
    <3>1. PICK r \in inbox : r.task.source \notin active /\ Consume(r)
      BY <2>4 DEF SkipResult
    <3>2. UNCHANGED <<taskVars, current>>
      BY <2>4 DEF SkipResult
    <3> QED BY <2>a, <2>b, <3>1, <3>2, ConsumeTakesOne DEF Pending
  <2>5. CASE AcceptResult \/ RetryPending
    <3>1. PICK r \in inbox : Consume(r) /\ current' = r
      BY <2>5 DEF AcceptResult, RetryPending, FailedResult
    <3>2. UNCHANGED taskVars /\ current = None
      BY <2>5 DEF AcceptResult, RetryPending, FailedResult, Applying
    <3>3. current' # None
      BY <3>1, QueueAssumption DEF Result
    <3> QED BY <2>b, <3>1, <3>2, <3>3, ConsumeTakesOne DEF Pending
  <2>6. CASE CompleteItem
    <3>1. UNCHANGED queueVars /\ s # current.task.source
      BY <2>6, <2>a DEF CompleteItem
    <3> QED BY <2>b, <3>1 DEF Pending, LiveResults
  <2>7. CASE RejectItem
    <3>1. PICK r \in inbox : Consume(r) /\ s # r.task.source
      BY <2>7 DEF RejectItem, FailedResult
    <3>2. UNCHANGED <<taskVars, current>>
      BY <2>7 DEF RejectItem
    <3> QED BY <2>b, <3>1, <3>2, ConsumeTakesOne DEF Pending
  <2>8. CASE RetryEnqueue
    <3>1. current \in Result
      BY <2>8 DEF RetryEnqueue, Applying
    <3>2. tasks \subseteq tasks' /\ \E m \in tasks' : m.task = current.task
      BY <2>8, <3>1, EnqueuePlaces DEF RetryEnqueue, Result
    <3>3. UNCHANGED <<pel, resultVars>>
      BY <2>8 DEF RetryEnqueue, Enqueue
    <3> QED BY <2>b, <3>2, <3>3 DEF Pending, LiveResults
  <2>9. ASSUME NEW w \in Workers, WorkerDequeues(w) PROVE Pending(s)'
    <3>1. tasks \cup pel \subseteq tasks' \cup pel' /\ UNCHANGED <<resultVars, current>>
      BY <2>9 DEF WorkerDequeues, DequeueNew, DequeueReclaimed
    <3> QED BY <2>b, <3>1 DEF Pending, LiveResults
  <2>10. ASSUME NEW w \in Workers, WorkerPublishes(w) PROVE Pending(s)'
    <3>1. PICK ok \in BOOLEAN : Publish(w, ok)
      BY <2>10 DEF WorkerPublishes
    <3>2. PICK i \in Ids : results' = results \cup {[task |-> hand[w].task, ok |-> ok, id |-> i]}
      BY <3>1 DEF Publish
    <3>3. \E r \in LiveResults' : r.task = hand[w].task
      <4> DEFINE r == [task |-> hand[w].task, ok |-> ok, id |-> i]
      <4>1. r \in LiveResults' /\ r.task = hand[w].task
        BY <3>2 DEF LiveResults
      <4> QED BY <4>1
    <3>4. \A m \in tasks \cup pel : m \in tasks' \cup pel' \/ m = hand[w]
      BY <3>1 DEF Publish
    <3>5. LiveResults \subseteq LiveResults' /\ current' = current
      BY <2>10, <3>1, <3>2 DEF WorkerPublishes, Publish, LiveResults
    <3> QED BY <2>b, <3>3, <3>4, <3>5 DEF Pending
  <2>11. ASSUME NEW w \in Workers, WorkerDies(w) PROVE Pending(s)'
    <3>1. UNCHANGED <<tasks, pel, resultVars, current>>
      BY <2>11 DEF WorkerDies, WorkerCrash
    <3> QED BY <2>b, <3>1 DEF Pending, LiveResults
  <2> QED BY <1>a, <2>1, <2>2, <2>3, <2>4, <2>5, <2>6, <2>7, <2>8, <2>9, <2>10, <2>11
          DEF Next, Orchestrator
<1> QED BY <1>1, <1>a

\* Marking in flight sets the status and adds one to the attempts.
LEMMA MarkInFlightCounts ==
    ASSUME TypeOK, NEW ts \in SUBSET Task, MarkInFlight(ts), NEW s \in Sources
    PROVE  IF \E t \in ts : t.source = s
           THEN items'[s].status = "in_flight" /\ items'[s].attempts = items[s].attempts + 1
           ELSE items'[s] = items[s]
BY DEF MarkInFlight

\* A verdict or a reset sets the status of one item.
LEMMA MarkItemSets ==
    ASSUME TypeOK, NEW s \in Sources, NEW v, MarkItem(s, v)
    PROVE  /\ items'[s].status = v /\ items'[s].attempts = items[s].attempts
           /\ \A u \in Sources : u # s => items'[u] = items[u]
BY DEF MarkItem, TypeOK, StoresTypeOK, Item

\* What the checkpoint calls in flight follows the batch and the barrier.
LEMMA CheckpointStep ==
    ASSUME TypeOK, ClaimPhases, BarrierMatchesCheckpoint, [Next]_vars
    PROVE  BarrierMatchesCheckpoint'
<1> USE DEF storeVars, runVars, Applying
<1>a. batch \subseteq Task /\ active \subseteq Sources /\ BatchSources \subseteq Sources
  BY DEF TypeOK, Task, BatchSources
<1>1. CASE StartRun \/ ExpireStaleRows \/ Crash
  BY <1>1 DEF BarrierMatchesCheckpoint, StartRun, ExpireStaleRows, Crash
<1>2. CASE ExpireStaleItems
  <2>1. ExpireItems(Sources) /\ pc' = "discard"
    BY <1>2 DEF ExpireStaleItems
  <2>2. InFlight' = {}
    BY <2>1 DEF InFlight, ExpireItems, AbsentItem
  <2> QED BY <2>1, <2>2 DEF BarrierMatchesCheckpoint
<1>3. CASE SampleBatch
  <2>1. PICK B \in SUBSET todo : SelectPending(B)
    BY <1>3 DEF SampleBatch
  <2>2. pc = "sample" /\ pc' \in {"sample", "register"}
    BY <1>3 DEF SampleBatch
  <2>3. InFlight' = {}
    BY <2>1, <2>2 DEF InFlight, SelectPending, NewItem, BarrierMatchesCheckpoint
  <2> QED BY <2>2, <2>3 DEF BarrierMatchesCheckpoint
<1>4. CASE MarkBatchInFlight
  <2>1. pc = "mark" /\ pc' = "enqueue" /\ MarkInFlight(batch) /\ UNCHANGED batch
    BY <1>4 DEF MarkBatchInFlight
  <2>2. InFlight' = BatchSources
    <3>1. \A s \in Sources : s \notin InFlight
      BY <2>1 DEF BarrierMatchesCheckpoint
    <3>2. \A s \in Sources : s \in InFlight' <=> \E t \in batch : t.source = s
      BY <1>a, <2>1, <3>1, MarkInFlightCounts DEF InFlight
    <3> QED BY <1>a, <3>2 DEF InFlight, BatchSources
  <2>3. BatchSources' = BatchSources
    BY <2>1 DEF BatchSources
  <2> QED BY <2>1, <2>2, <2>3 DEF BarrierMatchesCheckpoint
<1>5. CASE EnqueueBatch
  <2>1. pc = "enqueue" /\ pc' = "drain" /\ items' = items /\ active' = BatchSources
    BY <1>5 DEF EnqueueBatch, BatchSources
  <2> QED BY <2>1 DEF BarrierMatchesCheckpoint, InFlight
<1>6. CASE CompleteItem
  <2>1. /\ pc = "complete" /\ pc' = "drain" /\ active' = active \ {current.task.source}
        /\ MarkItem(current.task.source, "completed") /\ current.task.source \in active
    BY <1>6 DEF CompleteItem, ClaimPhases
  <2>2. InFlight' = InFlight \ {current.task.source}
    BY <1>a, <2>1, MarkItemSets DEF InFlight
  <2> QED BY <2>1, <2>2 DEF BarrierMatchesCheckpoint
<1>7. CASE RejectItem
  <2>1. PICK r \in inbox :
           /\ r.task.source \in active /\ MarkItem(r.task.source, "rejected")
           /\ active' = active \ {r.task.source}
    BY <1>7 DEF RejectItem, FailedResult
  <2>2. pc = "drain" /\ pc' = "drain"
    BY <1>7 DEF RejectItem, FailedResult
  <2>3. InFlight' = InFlight \ {r.task.source}
    BY <1>a, <2>1, MarkItemSets DEF InFlight
  <2> QED BY <2>1, <2>2, <2>3 DEF BarrierMatchesCheckpoint
<1>8. CASE RetryPending
  <2>1. PICK r \in inbox :
           r.task.source \in active /\ MarkItem(r.task.source, "pending") /\ current' = r
    BY <1>8 DEF RetryPending, FailedResult
  <2>2. pc = "drain" /\ pc' = "retry_mark" /\ active' = active
    BY <1>8 DEF RetryPending, FailedResult
  <2>3. InFlight' = InFlight \ {r.task.source}
    BY <1>a, <2>1, MarkItemSets DEF InFlight
  <2> QED BY <2>1, <2>2, <2>3 DEF BarrierMatchesCheckpoint
<1>9. CASE RetryInFlight
  <2>1. /\ pc = "retry_mark" /\ pc' = "retry_enqueue" /\ active' = active
        /\ MarkInFlight({current.task}) /\ current.task.source \in active
    BY <1>9 DEF RetryInFlight, ClaimPhases
  <2>2. {current.task} \subseteq Task
    BY <2>1 DEF TypeOK, Result
  <2>3. InFlight' = InFlight \cup {current.task.source}
    BY <1>a, <2>1, <2>2, MarkInFlightCounts DEF InFlight
  <2> QED BY <2>1, <2>3 DEF BarrierMatchesCheckpoint
<1>10. CASE AcceptResult \/ RetryEnqueue
  <2>1. UNCHANGED <<items, active>> /\ {pc, pc'} \subseteq {"drain", "complete", "retry_enqueue"}
    BY <1>10 DEF AcceptResult, RetryEnqueue
  <2> QED BY <2>1 DEF BarrierMatchesCheckpoint, InFlight
<1>11. CASE Receive \/ Acknowledge \/ SkipResult
  <2>1. UNCHANGED <<items, active>> /\ {pc, pc'} \subseteq {"drain", "ack"}
    BY <1>11 DEF Receive, Acknowledge, SkipResult, Idle
  <2> QED BY <2>1 DEF BarrierMatchesCheckpoint, InFlight
<1>12. CASE DiscardAbandoned \/ FinishRun \/ RegisterInFlight \/ NextBatch
  <2>1. /\ items' = items /\ pc' \in {"sample", "done", "mark"}
        /\ pc \in {"discard", "sample", "register"} \/ (pc = "drain" /\ active = {})
    BY <1>12 DEF DiscardAbandoned, FinishRun, RegisterInFlight, NextBatch, Idle
  <2> QED BY <2>1 DEF BarrierMatchesCheckpoint, InFlight
<1>13. CASE \/ EditDocument \/ UNCHANGED vars
            \/ \E w \in Workers : WorkerDequeues(w) \/ WorkerPublishes(w) \/ WorkerDies(w)
  <2>1. UNCHANGED <<items, pc, active, batch, current>>
    BY <1>13 DEF EditDocument, WorkerDequeues, WorkerPublishes, WorkerDies, vars
  <2> QED BY <2>1 DEF BarrierMatchesCheckpoint, InFlight, BatchSources
<1> QED BY <1>1, <1>2, <1>3, <1>4, <1>5, <1>6, <1>7, <1>8, <1>9, <1>10, <1>11, <1>12, <1>13
        DEF Next, Orchestrator

\* A failure is counted with the retry it causes, or with the rejection.
LEMMA AttemptsStep ==
    ASSUME TypeOK, ClaimPhases, AttemptsCounted, [Next]_vars
    PROVE  AttemptsCounted'
<1> USE DEF storeVars, runVars, Applying
<1>a. /\ batch \subseteq Task /\ active \subseteq Sources /\ BatchSources \subseteq Sources
      /\ items \in [Sources -> Item] /\ failures \in [Sources -> Nat]
      /\ \A s \in Sources : items[s].attempts \in Nat /\ failures[s] \in Nat
  BY DEF TypeOK, StoresTypeOK, Item, Task, BatchSources
<1>1. CASE \/ StartRun \/ ExpireStaleRows \/ ExpireStaleItems \/ DiscardAbandoned
           \/ SampleBatch \/ FinishRun \/ RegisterInFlight \/ NextBatch \/ Crash
  <2>1. active' = {} /\ failures' = NoFailures /\ pc' # "enqueue"
    BY <1>1 DEF StartRun, ExpireStaleRows, ExpireStaleItems, DiscardAbandoned, SampleBatch,
       FinishRun, RegisterInFlight, NextBatch, Crash, ClaimPhases, AttemptsCounted
  <2> QED BY <2>1 DEF AttemptsCounted
<1>2. CASE MarkBatchInFlight
  <2>1. /\ pc = "mark" /\ pc' = "enqueue" /\ MarkInFlight(batch)
        /\ UNCHANGED <<batch, active, failures>> /\ active = {} /\ failures = NoFailures
    BY <1>2 DEF MarkBatchInFlight, ClaimPhases, AttemptsCounted
  <2>2. \A s \in BatchSources : items'[s].attempts > 0
    <3>1. \A s \in BatchSources : \E t \in batch : t.source = s
      BY DEF BatchSources
    <3>2. \A s \in BatchSources : items'[s].attempts = items[s].attempts + 1
      BY <1>a, <2>1, <3>1, MarkInFlightCounts
    <3> QED BY <1>a, <3>2
  <2>3. BatchSources' = BatchSources
    BY <2>1 DEF BatchSources
  <2> QED BY <2>1, <2>2, <2>3 DEF AttemptsCounted
<1>3. CASE EnqueueBatch
  <2>1. /\ pc = "enqueue" /\ pc' = "drain" /\ UNCHANGED <<items, failures>>
        /\ active' = BatchSources /\ failures = NoFailures
    BY <1>3 DEF EnqueueBatch, BatchSources, AttemptsCounted
  <2> QED BY <1>a, <2>1 DEF AttemptsCounted, NoFailures
<1>4. CASE CompleteItem
  <2>1. /\ pc = "complete" /\ pc' = "drain" /\ active' = active \ {current.task.source}
        /\ MarkItem(current.task.source, "completed") /\ current.task.source \in active
        /\ failures' = failures
    BY <1>4 DEF CompleteItem, ClaimPhases
  <2>2. \A s \in active' : items'[s] = items[s]
    BY <1>a, <2>1, MarkItemSets
  <2> QED BY <2>1, <2>2 DEF AttemptsCounted
<1>5. CASE RejectItem
  <2>1. PICK r \in inbox :
           /\ r.task.source \in active /\ MarkItem(r.task.source, "rejected")
           /\ active' = active \ {r.task.source}
           /\ failures' = [failures EXCEPT ![r.task.source] = @ + 1]
    BY <1>5 DEF RejectItem, FailedResult
  <2>2. pc = "drain" /\ pc' = "drain"
    BY <1>5 DEF RejectItem, FailedResult
  <2>3. \A s \in active' : items'[s] = items[s] /\ failures'[s] = failures[s]
    BY <1>a, <2>1, MarkItemSets
  <2> QED BY <2>1, <2>2, <2>3 DEF AttemptsCounted
<1>6. CASE RetryPending
  <2>1. PICK r \in inbox :
           /\ r.task.source \in active /\ MarkItem(r.task.source, "pending")
           /\ failures' = [failures EXCEPT ![r.task.source] = @ + 1] /\ current' = r
    BY <1>6 DEF RetryPending, FailedResult
  <2>2. pc = "drain" /\ pc' = "retry_mark" /\ active' = active
    BY <1>6 DEF RetryPending, FailedResult
  <2>3. \A s \in active : items[s].attempts > failures[s]
    BY <2>2 DEF AttemptsCounted
  <2>4. \A s \in active \ {r.task.source} : items'[s] = items[s] /\ failures'[s] = failures[s]
    BY <1>a, <2>1, MarkItemSets
  <2>5. /\ items'[r.task.source].attempts = items[r.task.source].attempts
        /\ failures'[r.task.source] = failures[r.task.source] + 1
    BY <1>a, <2>1, MarkItemSets
  <2>6. items'[r.task.source].attempts >= failures'[r.task.source]
    BY <1>a, <2>1, <2>3, <2>5
  <2> QED BY <2>1, <2>2, <2>3, <2>4, <2>6 DEF AttemptsCounted
<1>7. CASE RetryInFlight
  <2>1. /\ pc = "retry_mark" /\ pc' = "retry_enqueue" /\ active' = active
        /\ MarkInFlight({current.task}) /\ current.task.source \in active
        /\ UNCHANGED <<failures, current>>
    BY <1>7 DEF RetryInFlight, ClaimPhases
  <2>2. {current.task} \subseteq Task
    BY <2>1 DEF TypeOK, Result
  <2>3. \A s \in active : IF s = current.task.source THEN items'[s].attempts = items[s].attempts + 1
                                                     ELSE items'[s] = items[s]
    BY <1>a, <2>1, <2>2, MarkInFlightCounts
  <2>4. \A s \in active : IF s = current.task.source THEN items[s].attempts >= failures[s]
                                                     ELSE items[s].attempts > failures[s]
    BY <2>1 DEF AttemptsCounted
  <2>5. \A s \in active : items'[s].attempts > failures[s]
    BY <1>a, <2>3, <2>4
  <2> QED BY <2>1, <2>5 DEF AttemptsCounted
<1>8. CASE Receive \/ Acknowledge \/ SkipResult \/ AcceptResult \/ RetryEnqueue
  <2>1. /\ UNCHANGED <<items, active, failures>>
        /\ {pc, pc'} \subseteq {"drain", "ack", "complete", "retry_enqueue"}
    BY <1>8 DEF Receive, Acknowledge, SkipResult, AcceptResult, RetryEnqueue, Idle
  <2> QED BY <2>1 DEF AttemptsCounted
<1>9. CASE \/ EditDocument \/ UNCHANGED vars
           \/ \E w \in Workers : WorkerDequeues(w) \/ WorkerPublishes(w) \/ WorkerDies(w)
  <2>1. UNCHANGED <<items, pc, active, batch, failures, current>>
    BY <1>9 DEF EditDocument, WorkerDequeues, WorkerPublishes, WorkerDies, vars
  <2> QED BY <2>1 DEF AttemptsCounted, BatchSources
<1> QED BY <1>1, <1>2, <1>3, <1>4, <1>5, <1>6, <1>7, <1>8, <1>9 DEF Next, Orchestrator

\* The five conjuncts keep each other through every step.
LEMMA BarrierInvStep == BarrierInv /\ [Next]_vars => BarrierInv'
<1> SUFFICES ASSUME BarrierInv, [Next]_vars PROVE BarrierInv'
  OBVIOUS
<1> USE DEF BarrierInv
<1>1. TypeOK' /\ ClaimPhases'
  BY NextTypeOK, ClaimPhasesStep
<1>2. ActiveNeverLost'
  <2> SUFFICES ASSUME NEW s \in active' PROVE Pending(s)'
    BY DEF ActiveNeverLost
  <2> QED BY PendingStep DEF ActiveNeverLost
<1>3. BarrierMatchesCheckpoint' /\ AttemptsCounted'
  BY CheckpointStep, AttemptsStep
<1> QED BY <1>1, <1>2, <1>3

\* Whatever is edited, crashes, is retried, lost or delivered twice: every
\* source _drain_batch waits for is IN_FLIGHT in the checkpoint, its attempts
\* are counted, and a task or a result that will settle it is still around.
THEOREM BarrierInvariant == Spec => []BarrierInv
<1>1. Init => BarrierInv
  BY InitTypeOK DEF Init, BarrierInv, ClaimPhases, ActiveNeverLost, BarrierMatchesCheckpoint,
                    AttemptsCounted, BatchSources, Applying
<1>2. BarrierInv /\ [Next]_vars => BarrierInv'
  BY BarrierInvStep
<1> QED BY <1>1, <1>2, PTL DEF Spec

\* Only RejectItem rejects, and it counts every failure against an attempt;
\* a rejected item keeps its attempts.
THEOREM RejectionsAreEarned == Spec => []RejectionEarned
<1>1. Init => RejectionEarned
  BY DEF Init, StoresInit, AbsentItem, RejectionEarned
<1>2. BarrierInv /\ RejectionEarned /\ [Next]_vars => RejectionEarned'
  <2> SUFFICES ASSUME BarrierInv, RejectionEarned, [Next]_vars,
                      NEW s \in Sources, items'[s].status = "rejected"
               PROVE  items'[s].attempts > Retries
    BY DEF RejectionEarned
  <2> USE DEF BarrierInv, storeVars, runVars, Applying
  <2>a. /\ batch \subseteq Task /\ active \subseteq Sources
        /\ items \in [Sources -> Item] /\ failures \in [Sources -> Nat]
        /\ items[s].attempts \in Nat /\ failures[s] \in Nat /\ Retries \in Nat
    BY LabelingAssumption DEF TypeOK, StoresTypeOK, Item
  <2>1. CASE items'[s] = items[s]
    BY <2>1 DEF RejectionEarned
  <2>2. CASE RejectItem
    <3>1. PICK r \in inbox :
             /\ r.task.source \in active /\ MarkItem(r.task.source, "rejected")
             /\ failures[r.task.source] + 1 > Retries /\ pc = "drain"
      BY <2>2 DEF RejectItem, FailedResult
    <3>2. CASE s = r.task.source
      <4>1. items'[s].attempts = items[s].attempts /\ items[s].attempts > failures[s]
        BY <2>a, <3>1, <3>2, MarkItemSets DEF AttemptsCounted
      <4> QED BY <2>a, <3>1, <3>2, <4>1
    <3>3. CASE s # r.task.source
      BY <2>1, <2>a, <3>1, <3>3, MarkItemSets
    <3> QED BY <3>2, <3>3
  <2>3. CASE ExpireStaleItems
    BY <2>1, <2>3 DEF ExpireStaleItems, ExpireItems, AbsentItem
  <2>4. CASE SampleBatch
    <3>1. PICK B \in SUBSET todo : SelectPending(B)
      BY <2>4 DEF SampleBatch
    <3> QED BY <2>1, <3>1 DEF SelectPending, NewItem
  <2>5. CASE MarkBatchInFlight
    BY <2>1, <2>5, <2>a, MarkInFlightCounts DEF MarkBatchInFlight
  <2>6. CASE RetryInFlight
    <3>1. MarkInFlight({current.task}) /\ {current.task} \subseteq Task
      BY <2>6 DEF RetryInFlight, TypeOK, Result
    <3> QED BY <2>1, <3>1, MarkInFlightCounts
  <2>7. CASE CompleteItem \/ RetryPending
    <3>1. PICK u \in active, v \in {"completed", "pending"} : MarkItem(u, v)
      BY <2>7 DEF CompleteItem, RetryPending, FailedResult, ClaimPhases
    <3> QED BY <2>1, <2>a, <3>1, MarkItemSets
  <2>8. CASE \/ StartRun \/ ExpireStaleRows \/ DiscardAbandoned \/ FinishRun \/ RegisterInFlight
             \/ EnqueueBatch \/ Receive \/ Acknowledge \/ SkipResult \/ AcceptResult
             \/ RetryEnqueue \/ NextBatch \/ Crash \/ EditDocument \/ UNCHANGED vars
             \/ \E w \in Workers : WorkerDequeues(w) \/ WorkerPublishes(w) \/ WorkerDies(w)
    <3>1. items' = items
      BY <2>8 DEF StartRun, ExpireStaleRows, DiscardAbandoned, FinishRun, RegisterInFlight,
         EnqueueBatch, Receive, Acknowledge, SkipResult, AcceptResult, RetryEnqueue, NextBatch,
         Crash, EditDocument, WorkerDequeues, WorkerPublishes, WorkerDies, vars
    <3> QED BY <2>1, <3>1
  <2> QED BY <2>2, <2>3, <2>4, <2>5, <2>6, <2>7, <2>8 DEF Next, Orchestrator
<1> QED BY <1>1, <1>2, BarrierInvariant, PTL DEF Spec

-----------------------------------------------------------------------------
(* Every source is accounted for, while documents are not edited and no run *)
(* starts within the second in which the one before it died                 *)

\* The invariant, unfolded to the parts its proofs use.
LEMMA AccountingParts ==
    ASSUME AccountingInv
    PROVE  /\ LabelingInv /\ BarrierInv /\ RowsHaveReasons /\ SourcesAccounted
           /\ TypeOK /\ Unedited /\ ClaimPhases /\ ClaimsOpen /\ ClaimsApart
           /\ batch \subseteq Task /\ Claimed \subseteq Sources
           /\ \A s \in Sources : content[s] \in Hashes /\ <<content[s], content[s]>> \in Near
           /\ \A t \in batch : t.source \in Claimed /\ t.hash = content[t.source]
BY StoresAssumption
   DEF AccountingInv, LabelingInv, TypeOK, Task, Claimed, BatchSources, Unedited, TasksInSystem

\* What it is to hold a place, before and after a step.
LEMMA HoldsMeans ==
    ASSUME NEW h, NEW u
    PROVE  /\ Holds(h, u) => rows[h].status = "in_flight" /\ rows[h].source = u
           /\ Holds(h, u)' => rows'[h].status = "in_flight" /\ rows'[h].source = u
BY DEF Holds

\* In the middle of a batch each claimed document holds its row, but the one
\* whose label is already written.
LEMMA ClaimedHold ==
    ASSUME AccountingInv, NEW s \in Claimed, ~Completing(s),
           pc \in {"mark", "enqueue", "drain", "ack"} \cup Applying
    PROVE  Holds(content[s], s)
BY DEF AccountingInv, RowsHaveReasons

\* Sampling skips a document only for a taken place.
LEMMA SampleTakes ==
    ASSUME AccountingInv, SampleBatch, content' = content, LabelingInv'
    PROVE  RowsHaveReasons' /\ SourcesAccounted'
<1>a. /\ LabelingInv /\ BarrierInv /\ RowsHaveReasons /\ SourcesAccounted /\ ClaimPhases
      /\ TypeOK /\ \A s \in Sources : content[s] \in Hashes /\ <<content[s], content[s]>> \in Near
  BY AccountingParts
<1>1. PICK B \in SUBSET todo, chosen \in SUBSET todo :
         /\ chosen \subseteq Ready(B)
         /\ IsFresh(chosen, B)
         /\ SelectPending(B)
         /\ todo' = todo \ B
         /\ batch' = {[source |-> s, hash |-> content[s]] : s \in chosen}
         /\ seen' = seen \cup {content[s] : s \in chosen}
         /\ pc' = IF chosen = {} THEN "sample" ELSE "register"
  BY DEF SampleBatch
<1>2. /\ pc = "sample" /\ pc' \in {"sample", "register"} /\ rows' = rows
      /\ active = {} /\ active' = {} /\ batch = {} /\ Claimed = {}
  BY <1>a, <1>1 DEF SampleBatch, ClaimPhases, Claimed, BatchSources
<1>3. Claimed' = chosen /\ chosen \subseteq Sources /\ B \subseteq Sources
  <2>1. Claimed' = {t.source : t \in batch'}
    BY <1>2 DEF Claimed, BatchSources
  <2>2. ASSUME NEW s \in chosen PROVE s \in Claimed'
    <3>1. [source |-> s, hash |-> content[s]] \in batch'
      BY <1>1
    <3> QED BY <2>1, <3>1
  <2>3. \A t \in batch' : t.source \in chosen
    BY <1>1
  <2> QED BY <1>a, <2>1, <2>2, <2>3 DEF TypeOK
<1>4. \A s \in Sources : items[s].status \in {"completed", "rejected"} => items'[s] = items[s]
  BY <1>1 DEF SelectPending
<1>5. \A h \in Hashes : rows[h].status = "in_flight" =>
         /\ rows[h].source \in Sources /\ h = content[rows[h].source]
         /\ items[rows[h].source].status = "rejected"
  BY <1>2, <1>a DEF RowsHaveReasons
<1>6. RowsHaveReasons'
  <2>1. \A s \in chosen : ~IsKnown(content[s])
    BY <1>1 DEF IsFresh, IsUnknown
  <2>2. \A h : IsKnown(h)' <=> IsKnown(h)
    BY <1>2 DEF IsKnown, Registered
  <2> QED BY <1>2, <1>3, <1>4, <1>5, <2>1, <2>2 DEF RowsHaveReasons, Applying
<1>7. \A h \in Hashes : Taken(h) => Taken(h)'
  BY <1>2, <1>4 DEF Taken, Holds, Accepted
<1>8. \A s \in chosen : Taken(content[s])'
  BY <1>3 DEF Taken
<1>9. \A h \in Registered : Taken(h)'
  <2>1. \A h \in Registered : h \in Accepted \/ rows[h].status = "in_flight"
    BY <1>a DEF Registered, Accepted, TypeOK, StoresTypeOK, Row, HashStatus
  <2>2. \A h \in Hashes : rows[h].status = "in_flight" => Holds(h, rows[h].source)
    BY <1>a DEF Holds, TypeOK, StoresTypeOK, Row
  <2>3. \A h \in Registered : Taken(h)
    BY <1>5, <2>1, <2>2 DEF Taken, Registered
  <2> QED BY <1>7, <2>3 DEF Registered
<1>10. ASSUME NEW s \in B
       PROVE  \/ items'[s].status \in {"completed", "rejected"}
              \/ \E h \in Hashes : <<h, content[s]>> \in Near /\ Taken(h)'
  <2>1. CASE s \in chosen
    BY <1>a, <1>3, <1>8, <2>1
  <2>2. CASE s \in Ready(B) \ chosen /\ IsUnknown(s)
    <3>1. PICK t \in chosen : <<content[s], content[t]>> \in Near
      BY <1>1, <2>2 DEF IsFresh
    <3>2. <<content[t], content[s]>> \in Near /\ content[t] \in Hashes
      BY <1>a, <1>3, <3>1, StoresAssumption
    <3> QED BY <1>8, <3>2
  <2>3. CASE ~IsUnknown(s)
    <3>1. CASE IsKnown(content[s])
      BY <1>9, <3>1 DEF IsKnown, Registered
    <3>2. CASE \E g \in seen : <<g, content[s]>> \in Near
      <4>1. \A h \in seen : Taken(h) /\ h \in Hashes
        BY <1>a, <1>2 DEF SourcesAccounted, Running, TypeOK
      <4> QED BY <1>7, <3>2, <4>1
    <3> QED BY <2>3, <3>1, <3>2 DEF IsUnknown
  <2>4. CASE s \notin Ready(B)
    <3>1. s \notin InFlight
      BY <1>a, <1>2 DEF BarrierInv, BarrierMatchesCheckpoint
    <3>2. items[s].status \in {"completed", "rejected"}
      BY <1>a, <1>3, <2>4, <3>1 DEF Ready, InFlight, TypeOK, StoresTypeOK, Item, ItemStatus
    <3> QED BY <1>3, <1>4, <3>2
  <2> QED BY <2>1, <2>2, <2>3, <2>4
<1>11. ASSUME NEW s \in Sources \ todo
       PROVE  \/ items'[s].status \in {"completed", "rejected"}
              \/ \E h \in Hashes : <<h, content[s]>> \in Near /\ Taken(h)'
  <2>1. \/ items[s].status \in {"completed", "rejected"}
        \/ \E h \in Hashes : <<h, content[s]>> \in Near /\ Taken(h)
    BY <1>a, <1>2 DEF SourcesAccounted, Running
  <2> QED BY <1>4, <1>7, <2>1
<1>12. \A h \in seen' : Taken(h)'
  <2>1. \A h \in seen : Taken(h) /\ h \in Hashes
    BY <1>a, <1>2 DEF SourcesAccounted, Running, TypeOK
  <2> QED BY <1>1, <1>7, <1>8, <2>1
<1>13. SourcesAccounted'
  <2>1. \A s \in Sources \ todo' : s \in B \/ s \in Sources \ todo
    BY <1>1
  <2> QED BY <1>2, <1>10, <1>11, <1>12, <2>1 DEF SourcesAccounted, Running
<1> QED BY <1>6, <1>13

\* What is taken stays taken when rows and claims stay and settled items do.
LEMMA QuietPlaces ==
    ASSUME AccountingInv, UNCHANGED <<rows, content, todo>>, Claimed' = Claimed,
           \A s \in Sources : items[s].status \in {"completed", "rejected"} => items'[s] = items[s],
           \/ UNCHANGED <<pc, current, seen>>
           \/ pc = "sample" /\ pc' = "done" /\ todo = {} /\ seen' = {}
           \/ pc = "drain" /\ pc' = "sample" /\ seen' = seen
           \/ /\ {pc, pc'} \subseteq {"mark", "enqueue", "drain", "ack", "retry_mark", "retry_enqueue"}
              /\ seen' = seen
    PROVE  RowsHaveReasons' /\ SourcesAccounted'
<1>a. RowsHaveReasons /\ SourcesAccounted /\ Claimed \subseteq Sources
  BY AccountingParts
<1>1. \A s : Completing(s) => Completing(s)'
  BY DEF Completing
<1>2. \A h, s : Holds(h, s)' <=> Holds(h, s)
  BY DEF Holds
<1>3. \A h : IsKnown(h)' <=> IsKnown(h)
  BY DEF IsKnown, Registered
<1>4. \A h \in Hashes : Taken(h) => Taken(h)'
  BY DEF Taken, Holds, Accepted
<1>5. seen \subseteq Hashes
  BY AccountingParts DEF TypeOK
<1>6. RowsHaveReasons'
  BY <1>a, <1>1, <1>2, <1>3 DEF RowsHaveReasons, Applying
<1>7. SourcesAccounted'
  <2>1. CASE pc' = pc /\ seen' = seen
    BY <1>a, <1>4, <1>5, <2>1 DEF SourcesAccounted
  <2>2. CASE pc = "sample" /\ pc' = "done" /\ todo = {} /\ seen' = {}
    BY <1>a, <1>4, <2>2 DEF SourcesAccounted, Running, Applying
  <2>3. CASE {pc, pc'} \subseteq Running /\ seen' = seen
    BY <1>a, <1>4, <1>5, <2>3 DEF SourcesAccounted, Running, Applying
  <2> QED BY <2>1, <2>2, <2>3 DEF Running, Applying
<1> QED BY <1>6, <1>7

\* Starting over forgets every row in flight and every source.
LEMMA StartingOver ==
    ASSUME FastRestart = FALSE, AccountingInv, content' = content,
           \/ StartRun \/ ExpireStaleRows \/ ExpireStaleItems \/ DiscardAbandoned \/ Crash
    PROVE  RowsHaveReasons' /\ SourcesAccounted'
<1> USE DEF storeVars, runVars
<1>a. RowsHaveReasons /\ SourcesAccounted
  BY AccountingParts
<1>1. CASE StartRun \/ Crash
  BY <1>1, <1>a DEF StartRun, Crash, RowsHaveReasons, SourcesAccounted, Running, Applying
<1>2. CASE ExpireStaleRows
  <2>1. ExpireRows({}) /\ pc = "expire_rows" /\ pc' = "expire_items" /\ UNCHANGED <<todo, seen>>
    BY <1>2 DEF ExpireStaleRows
  <2>2. \A h \in Hashes : rows'[h].status # "in_flight"
    BY <2>1 DEF ExpireRows, AbsentRow
  <2> QED BY <1>a, <2>1, <2>2 DEF RowsHaveReasons, SourcesAccounted, Running, Applying
<1>3. CASE ExpireStaleItems
  <2>1. pc = "expire_items" /\ pc' = "discard" /\ UNCHANGED <<rows, todo, seen>>
    BY <1>3 DEF ExpireStaleItems
  <2> QED BY <1>a, <2>1 DEF RowsHaveReasons, SourcesAccounted, Running, Applying
<1>4. CASE DiscardAbandoned
  <2>1. pc = "discard" /\ pc' = "sample" /\ UNCHANGED <<rows, todo, seen>>
    BY <1>4 DEF DiscardAbandoned
  <2> QED BY <1>a, <2>1 DEF RowsHaveReasons, SourcesAccounted, Running, Applying
<1> QED BY <1>1, <1>2, <1>3, <1>4

\* Registering a batch gives each of its documents a free place.
LEMMA RegisterTakes ==
    ASSUME AccountingInv, RegisterInFlight, content' = content
    PROVE  RowsHaveReasons' /\ SourcesAccounted'
<1> USE DEF runVars
<1>a. /\ LabelingInv /\ RowsHaveReasons /\ SourcesAccounted /\ ClaimsApart
      /\ TypeOK /\ batch \subseteq Task /\ Claimed \subseteq Sources
      /\ \A s \in Sources : content[s] \in Hashes /\ <<content[s], content[s]>> \in Near
      /\ \A t \in batch : t.source \in Claimed /\ t.hash = content[t.source]
  BY AccountingParts
<1>1. /\ pc = "register" /\ pc' = "mark" /\ RegisterBatch(batch, "in_flight")
      /\ UNCHANGED <<items, batch, active, todo, seen, current>>
  BY DEF RegisterInFlight
<1>2. Claimed' = Claimed /\ Claimed = {t.source : t \in batch}
  BY <1>1, <1>a DEF Claimed, BatchSources, ClaimPhases, LabelingInv
<1>3. ASSUME NEW t \in batch PROVE t.hash \in Hashes /\ rows[t.hash].status = "absent"
  <2>1. ~IsKnown(t.hash)
    BY <1>a, <1>1 DEF RowsHaveReasons
  <2> QED BY <1>a, <2>1 DEF IsKnown, Registered, Task
<1>4. ASSUME NEW t \in batch PROVE Holds(t.hash, t.source)'
  <2> DEFINE u == CHOOSE u \in batch : u.hash = t.hash
  <2>1. u \in batch /\ u.hash = t.hash
    OBVIOUS
  <2>2. u.source = t.source
    BY <1>a, <2>1 DEF ClaimsApart
  <2>3. rows'[t.hash] = [status |-> "in_flight", source |-> u.source]
    BY <1>1, <1>3 DEF RegisterBatch
  <2> HIDE DEF u
  <2> QED BY <2>2, <2>3 DEF Holds
<1>5. \A h \in Hashes : rows'[h] = rows[h] \/ \E t \in batch : t.hash = h
  BY <1>1 DEF RegisterBatch
<1>6. RowsHaveReasons'
  <2>1. ASSUME NEW h \in Hashes, rows'[h].status = "in_flight"
        PROVE  /\ rows'[h].source \in Sources /\ h = content[rows'[h].source]
               /\ rows'[h].source \in Claimed \/ items[rows'[h].source].status = "rejected"
    <3>1. CASE rows'[h] = rows[h]
      BY <1>a, <1>1, <2>1, <3>1 DEF RowsHaveReasons
    <3>2. ASSUME NEW t \in batch, t.hash = h
          PROVE  rows'[h].source \in Claimed /\ h = content[rows'[h].source]
      <4>1. rows'[h].source = t.source
        BY <1>4, <3>2, HoldsMeans
      <4> QED BY <1>a, <3>2, <4>1
    <3> QED BY <1>a, <1>5, <3>1, <3>2
  <2>2. \A s \in Claimed : Holds(content[s], s)'
    BY <1>a, <1>2, <1>4
  <2> QED BY <1>1, <1>2, <2>1, <2>2 DEF RowsHaveReasons, Applying
<1>7. ASSUME NEW h \in Hashes, Taken(h) PROVE Taken(h)'
  <2>1. rows[h].status # "absent" => rows'[h] = rows[h]
    BY <1>3, <1>5
  <2>2. CASE \E u \in Claimed : content[u] = h
    BY <1>2, <2>2 DEF Taken
  <2>3. CASE h \in Accepted
    BY <2>1, <2>3 DEF Taken, Accepted
  <2>4. ASSUME NEW u \in Sources, items[u].status = "rejected", Holds(h, u) PROVE Taken(h)'
    <3>1. rows'[h] = rows[h]
      BY <2>1, <2>4, HoldsMeans
    <3> QED BY <1>1, <2>4, <3>1 DEF Taken, Holds
  <2> QED BY <1>7, <2>2, <2>3, <2>4 DEF Taken
<1>8. SourcesAccounted'
  BY <1>a, <1>1, <1>7 DEF SourcesAccounted, Running, Applying, TypeOK
<1> QED BY <1>6, <1>8

\* Accepting a result turns the place its document holds into a label.
LEMMA AcceptTakes ==
    ASSUME AccountingInv, AcceptResult, content' = content, TypeOK'
    PROVE  RowsHaveReasons' /\ SourcesAccounted'
<1>a. /\ LabelingInv /\ RowsHaveReasons /\ SourcesAccounted /\ ClaimsApart
      /\ TypeOK /\ Claimed \subseteq Sources
      /\ \A s \in Sources : content[s] \in Hashes /\ <<content[s], content[s]>> \in Near
  BY AccountingParts
<1>1. PICK r \in inbox : /\ r.task.source \in active /\ current' = r
                         /\ RegisterBatch({r.task}, "accepted")
  BY DEF AcceptResult
<1>b. r.task \in Task /\ r.task.hash = content[r.task.source]
  BY <1>a, ResultsAgree
<1> DEFINE s == r.task.source
<1>2. /\ pc = "drain" /\ pc' = "complete" /\ Claimed' = Claimed
      /\ UNCHANGED <<items, todo, seen>>
  BY DEF AcceptResult, Claimed, BatchSources
<1>3. s \in Sources /\ s \in Claimed /\ items[s].status # "rejected"
  BY <1>a, <1>1, ActiveIsOpen
<1>4. rows' = [h \in Hashes |-> IF h = content[s] THEN [status |-> "accepted", source |-> s]
                                                   ELSE rows[h]]
  BY <1>1, <1>b DEF RegisterBatch
<1>5. \A u : Completing(u)' <=> u = s
  BY <1>1, <1>2 DEF Completing
<1>6. \A u \in Claimed : Holds(content[u], u)
  BY <1>2, ClaimedHold DEF Completing
<1> HIDE DEF s
<1>7. \A u \in Claimed : u # s => content[u] # content[s]
  BY <1>a, <1>3 DEF ClaimsApart
<1>8. RowsHaveReasons'
  <2>1. \A h \in Hashes : rows'[h].status = "in_flight" => rows'[h] = rows[h]
    BY <1>4
  <2>2. \A u \in Claimed : Holds(content[u], u)' \/ Completing(u)'
    BY <1>a, <1>4, <1>5, <1>6, <1>7 DEF Holds
  <2>3. \A h \in Hashes : rows[h].status = "in_flight" =>
              /\ rows[h].source \in Sources /\ h = content[rows[h].source]
              /\ rows[h].source \in Claimed \/ items[rows[h].source].status = "rejected"
    BY <1>a, <1>2 DEF RowsHaveReasons
  <2> QED BY <1>2, <2>1, <2>2, <2>3 DEF RowsHaveReasons
<1>9. ASSUME NEW h \in Hashes, Taken(h) PROVE Taken(h)'
  <2>1. CASE \E u \in Claimed : content[u] = h
    BY <1>2, <2>1 DEF Taken
  <2>2. CASE h \in Accepted
    BY <1>4, <2>2 DEF Taken, Accepted
  <2>3. ASSUME NEW u \in Sources, items[u].status = "rejected", Holds(h, u) PROVE Taken(h)'
    <3>1. h # content[s]
      <4>1. rows[content[s]].source = s /\ rows[h].source = u
        BY <1>3, <1>6, <2>3, HoldsMeans
      <4> QED BY <1>3, <2>3, <4>1
    <3> QED BY <1>2, <1>4, <2>3, <3>1 DEF Taken, Holds
  <2> QED BY <1>9, <2>1, <2>2, <2>3 DEF Taken
<1>10. SourcesAccounted'
  BY <1>a, <1>2, <1>9 DEF SourcesAccounted, Running, Applying, TypeOK
<1> QED BY <1>8, <1>10

\* Completing a document gives up its claim; its label stays.
LEMMA CompleteTakes ==
    ASSUME AccountingInv, CompleteItem, content' = content,
           \A s \in Sources : items[s].status \in {"completed", "rejected"} => items'[s] = items[s]
    PROVE  RowsHaveReasons' /\ SourcesAccounted'
<1> USE DEF runVars
<1>a. /\ LabelingInv /\ RowsHaveReasons /\ SourcesAccounted /\ ClaimPhases
      /\ TypeOK /\ Claimed \subseteq Sources
      /\ \A s \in Sources : content[s] \in Hashes /\ <<content[s], content[s]>> \in Near
  BY AccountingParts
<1> DEFINE s == current.task.source
<1>1. /\ pc = "complete" /\ pc' = "drain" /\ UNCHANGED <<rows, todo, seen>>
      /\ batch = {} /\ batch' = {} /\ active' = active \ {s} /\ s \in active
      /\ rows[content[s]] = [status |-> "accepted", source |-> s]
  BY <1>a DEF CompleteItem, ClaimPhases, Applying, LabelingInv, LabelsHaveOwners
<1>2. \A u : Completing(u) <=> u = s
  BY <1>1 DEF Completing
<1> HIDE DEF s
<1>3. Claimed' = Claimed \ {s} /\ s \in Claimed
  BY <1>1 DEF Claimed, BatchSources
<1>4. content[s] \in Accepted
  <2>1. content[s] \in Hashes
    BY <1>3, <1>a
  <2>2. rows[content[s]].status = "accepted"
    BY <1>1
  <2> QED BY <2>1, <2>2 DEF Accepted
<1>5. RowsHaveReasons'
  <2>1. ASSUME NEW h \in Hashes, rows[h].status = "in_flight"
        PROVE  /\ rows[h].source \in Sources /\ h = content[rows[h].source]
               /\ rows[h].source \in Claimed \ {s} \/ items'[rows[h].source].status = "rejected"
    <3>1. /\ rows[h].source \in Sources /\ h = content[rows[h].source]
          /\ rows[h].source \in Claimed \/ items[rows[h].source].status = "rejected"
      BY <1>a, <1>1, <2>1 DEF RowsHaveReasons, Applying
    <3>2. rows[h].source # s
      BY <1>1, <2>1, <3>1
    <3> QED BY <3>1, <3>2
  <2>2. \A u \in Claimed \ {s} : Holds(content[u], u)
    BY <1>1, <1>2, ClaimedHold DEF Applying
  <2> QED BY <1>1, <1>3, <2>1, <2>2 DEF RowsHaveReasons, Holds
<1>6. \A h \in Hashes : Taken(h) => Taken(h)'
  BY <1>1, <1>3, <1>4 DEF Taken, Holds, Accepted
<1>7. SourcesAccounted'
  BY <1>a, <1>1, <1>6 DEF SourcesAccounted, Running, Applying, TypeOK
<1> QED BY <1>5, <1>7

\* A rejected document keeps holding its place until the next run expires it.
LEMMA RejectTakes ==
    ASSUME AccountingInv, RejectItem, content' = content,
           \A s \in Sources : items[s].status \in {"completed", "rejected"} => items'[s] = items[s]
    PROVE  RowsHaveReasons' /\ SourcesAccounted'
<1>a. /\ LabelingInv /\ RowsHaveReasons /\ SourcesAccounted /\ ClaimPhases
      /\ TypeOK /\ Claimed \subseteq Sources
      /\ \A s \in Sources : content[s] \in Hashes /\ <<content[s], content[s]>> \in Near
  BY AccountingParts
<1>1. PICK r \in inbox : /\ r.task.source \in active
                         /\ MarkItem(r.task.source, "rejected")
                         /\ active' = active \ {r.task.source}
  BY DEF RejectItem, FailedResult
<1> DEFINE s == r.task.source
<1>2. /\ pc = "drain" /\ pc' = "drain" /\ UNCHANGED <<rows, batch, todo, seen>>
      /\ batch = {}
  BY <1>a DEF RejectItem, FailedResult, ClaimPhases
<1>3. Claimed' = Claimed \ {s} /\ s \in Claimed /\ s \in Sources
  BY <1>1, <1>2, <1>a DEF Claimed, BatchSources
<1>4. items'[s].status = "rejected"
  BY <1>1, <1>3, <1>a, MarkItemSets
<1>5. \A u \in Claimed : Holds(content[u], u)
  BY <1>2, ClaimedHold DEF Completing
<1> HIDE DEF s
<1>6. RowsHaveReasons'
  BY <1>a, <1>2, <1>3, <1>4, <1>5 DEF RowsHaveReasons, Holds
<1>7. ASSUME NEW h \in Hashes, Taken(h) PROVE Taken(h)'
  <2>1. CASE \E u \in Claimed : content[u] = h
    <3>1. PICK u \in Claimed : content[u] = h
      BY <2>1
    <3>2. CASE u = s
      <4>1. Holds(h, s)'
        BY <1>2, <1>3, <1>5, <3>1, <3>2 DEF Holds
      <4> QED BY <1>3, <1>4, <4>1 DEF Taken
    <3>3. CASE u # s
      BY <1>3, <3>1, <3>3 DEF Taken
    <3> QED BY <3>2, <3>3
  <2>2. CASE h \in Accepted
    BY <1>2, <2>2 DEF Taken, Accepted
  <2>3. CASE \E u \in Sources : items[u].status = "rejected" /\ Holds(h, u)
    BY <1>2, <2>3 DEF Taken, Holds
  <2> QED BY <1>7, <2>1, <2>2, <2>3 DEF Taken
<1>8. SourcesAccounted'
  BY <1>a, <1>2, <1>4, <1>7 DEF SourcesAccounted, Running, Applying, TypeOK
<1> QED BY <1>6, <1>8

\* Every step keeps the accounts.
LEMMA AccountingInvStep ==
    ASSUME MaxEdits = 0, FastRestart = FALSE, AccountingInv, [Next]_vars
    PROVE  AccountingInv'
<1> USE DEF storeVars, taskVars, resultVars, queueVars, runVars, envVars
<1>a. LabelingInv' /\ BarrierInv' /\ TypeOK'
  BY LabelingInvStep, BarrierInvStep, AccountingParts DEF LabelingInv
<1>b. content' = content
  BY UneditedStep, AccountingParts
<1>c. \A s \in Sources : items[s].status \in {"completed", "rejected"} => items'[s] = items[s]
  BY SettledStays, AccountingParts
<1>d. ClaimPhases
  BY AccountingParts
<1>1. CASE StartRun \/ ExpireStaleRows \/ ExpireStaleItems \/ DiscardAbandoned \/ Crash
  BY <1>a, <1>b, <1>1, StartingOver DEF AccountingInv
<1>2. CASE SampleBatch
  BY <1>a, <1>b, <1>2, SampleTakes DEF AccountingInv
<1>3. CASE RegisterInFlight
  BY <1>a, <1>b, <1>3, RegisterTakes DEF AccountingInv
<1>4. CASE AcceptResult
  BY <1>a, <1>b, <1>4, AcceptTakes DEF AccountingInv
<1>5. CASE CompleteItem
  BY <1>a, <1>b, <1>c, <1>5, CompleteTakes DEF AccountingInv
<1>6. CASE RejectItem
  BY <1>a, <1>b, <1>c, <1>6, RejectTakes DEF AccountingInv
<1>7. CASE FinishRun \/ NextBatch
  <2>1. UNCHANGED <<rows, todo, batch, active>>
    BY <1>7 DEF FinishRun, NextBatch
  <2>2. \/ pc = "sample" /\ pc' = "done" /\ todo = {} /\ seen' = {}
        \/ pc = "drain" /\ pc' = "sample" /\ seen' = seen
    BY <1>7 DEF FinishRun, NextBatch, Idle
  <2>3. Claimed' = Claimed
    BY <2>1 DEF Claimed, BatchSources
  <2> QED BY <1>a, <1>b, <1>c, <2>1, <2>2, <2>3, QuietPlaces DEF AccountingInv
<1>8. CASE \/ MarkBatchInFlight \/ EnqueueBatch \/ Receive \/ Acknowledge \/ SkipResult
           \/ RetryPending \/ RetryInFlight \/ RetryEnqueue
  <2>1. UNCHANGED <<rows, todo, seen>>
    BY <1>8 DEF MarkBatchInFlight, EnqueueBatch, Receive, Acknowledge, SkipResult,
       RetryPending, RetryInFlight, RetryEnqueue, FailedResult
  <2>2. {pc, pc'} \subseteq {"mark", "enqueue", "drain", "ack", "retry_mark", "retry_enqueue"}
    BY <1>8 DEF MarkBatchInFlight, EnqueueBatch, Receive, Acknowledge, SkipResult,
       RetryPending, RetryInFlight, RetryEnqueue, FailedResult, Idle
  <2>3. Claimed' = Claimed
    <3>1. CASE EnqueueBatch
      BY <1>d, <3>1 DEF EnqueueBatch, ClaimPhases, Claimed, BatchSources
    <3>2. CASE UNCHANGED <<batch, active>>
      BY <3>2 DEF Claimed, BatchSources
    <3> QED BY <1>8, <3>1, <3>2 DEF MarkBatchInFlight, Receive, Acknowledge, SkipResult,
               RetryPending, RetryInFlight, RetryEnqueue, FailedResult
  <2> QED BY <1>a, <1>b, <1>c, <2>1, <2>2, <2>3, QuietPlaces DEF AccountingInv
<1>9. CASE \/ EditDocument \/ UNCHANGED vars
           \/ \E w \in Workers : WorkerDequeues(w) \/ WorkerPublishes(w) \/ WorkerDies(w)
  <2>1. UNCHANGED <<rows, todo, seen, pc, current, batch, active>>
    BY <1>9 DEF EditDocument, WorkerDequeues, WorkerPublishes, WorkerDies, vars
  <2>2. Claimed' = Claimed
    BY <2>1 DEF Claimed, BatchSources
  <2> QED BY <1>a, <1>b, <1>c, <2>1, <2>2, QuietPlaces DEF AccountingInv
<1> QED BY <1>1, <1>2, <1>3, <1>4, <1>5, <1>6, <1>7, <1>8, <1>9 DEF Next, Orchestrator

\* While documents are not edited and no run starts in the second the last one
\* died, every place in the dedup store has its reason and every source that
\* was sampled is settled or near a place taken in this run.
THEOREM AccountingInvariant ==
    ASSUME MaxEdits = 0, FastRestart = FALSE
    PROVE  Spec => []AccountingInv
<1>1. Init => AccountingInv
  <2> SUFFICES ASSUME Init PROVE AccountingInv
    OBVIOUS
  <2>1. LabelingInv
    BY InitLabelingInv
  <2>2. BarrierInv
    BY InitTypeOK DEF Init, BarrierInv, ClaimPhases, ActiveNeverLost, BarrierMatchesCheckpoint,
                      AttemptsCounted, BatchSources, Applying
  <2>3. RowsHaveReasons /\ SourcesAccounted
    BY DEF Init, StoresInit, AbsentRow, RowsHaveReasons, SourcesAccounted, Running, Applying
  <2> QED BY <2>1, <2>2, <2>3 DEF AccountingInv
<1>2. AccountingInv /\ [Next]_vars => AccountingInv'
  BY AccountingInvStep
<1> QED BY <1>1, <1>2, PTL DEF Spec

\* A run that ends has settled every source, or a near-duplicate of it was
\* labeled, or was rejected in this very run.
THEOREM EverySourceAccounted ==
    ASSUME MaxEdits = 0, FastRestart = FALSE
    PROVE  Spec => []RunAccountsForEverySource
<1>1. AccountingInv => RunAccountsForEverySource
  <2> SUFFICES ASSUME AccountingInv, pc = "done", NEW s \in Sources,
                      items[s].status \notin {"completed", "rejected"}
               PROVE  \E h \in Registered :
                         /\ <<h, content[s]>> \in Near
                         /\ \/ rows[h].status = "accepted"
                            \/ items[rows[h].source].status = "rejected"
    BY DEF RunAccountsForEverySource
  <2>1. Claimed = {} /\ todo = {}
    BY AccountingParts DEF ClaimPhases, Claimed, BatchSources, SourcesAccounted
  <2>2. PICK h \in Hashes : <<h, content[s]>> \in Near /\ Taken(h)
    BY <2>1, AccountingParts DEF SourcesAccounted, Running
  <2>3. CASE h \in Accepted
    BY <2>2, <2>3 DEF Accepted, Registered
  <2>4. CASE \E u \in Sources : items[u].status = "rejected" /\ Holds(h, u)
    BY <2>2, <2>4 DEF Holds, Registered
  <2> QED BY <2>1, <2>2, <2>3, <2>4 DEF Taken
<1> QED BY <1>1, AccountingInvariant, PTL
=============================================================================
