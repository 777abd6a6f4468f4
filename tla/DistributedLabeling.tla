------------------------ MODULE DistributedLabeling ------------------------
(***************************************************************************)
(* DistributedProductionOrchestrator: discover the documents in batches,   *)
(* skip what is already known, enqueue the rest, and drain the results of  *)
(* a batch before the next.  One orchestrator process owns both stores;    *)
(* any number of workers label.  A run is one process of the orchestrator: *)
(* it may die between any two durable steps, and the next run starts from  *)
(* the stores and from whatever the streams and the workers still hold.    *)
(* The documents themselves may be edited while all this goes on.          *)
(***************************************************************************)
EXTENDS RedisWorkQueue

CONSTANTS BatchSize,          \* sources per sampler batch
          Retries,            \* failed results tolerated per item and run
          FastRestart,        \* may a run start in the second the last one died?
          MaxRuns,            \* bound: runs of the orchestrator
          MaxEdits,           \* bound: edits of documents
          MaxWorkerCrashes    \* bound: worker processes that die

ASSUME LabelingAssumption ==
    /\ BatchSize \in Nat \ {0}
    /\ Retries \in Nat
    /\ FastRestart \in BOOLEAN
    /\ MaxRuns \in Nat /\ MaxEdits \in Nat /\ MaxWorkerCrashes \in Nat

VARIABLES pc,         \* where the orchestrator process is
          todo,       \* sources the file iterator has not yielded in this run
          seen,       \* the sampler's in-memory dedup store
          batch,      \* tasks of the current batch
          active,     \* _drain_batch: sources not settled yet
          failures,   \* _drain_batch: attempts
          current,    \* the result being applied
          content,    \* the fingerprint each document has now
          runs, edits, workerCrashes

runVars == <<todo, seen, batch, active, failures, current>>
envVars == <<content, edits, workerCrashes>>
vars == <<storeVars, queueVars, pc, runVars, runs, envVars>>

PCs == {"down", "expire_rows", "expire_items", "discard", "sample", "register",
        "mark", "enqueue", "drain", "ack", "complete", "retry_mark",
        "retry_enqueue", "done"}

\* In the middle of applying a result.
Applying == {"complete", "retry_mark", "retry_enqueue"}

TypeOK ==
    /\ StoresTypeOK
    /\ QueueTypeOK
    /\ pc \in PCs
    /\ todo \subseteq Sources
    /\ seen \subseteq Hashes
    /\ batch \subseteq Task
    /\ active \subseteq Sources
    /\ failures \in [Sources -> Nat]
    /\ current \in IF pc \in Applying THEN Result ELSE {None}
    /\ content \in [Sources -> Hashes]
    /\ runs \in Nat /\ edits \in Nat /\ workerCrashes \in Nat

NoFailures == [s \in Sources |-> 0]

Init ==
    /\ StoresInit
    /\ QueueInit
    /\ pc = "down"
    /\ todo = {} /\ seen = {} /\ batch = {} /\ active = {}
    /\ failures = NoFailures
    /\ current = None
    /\ content \in [Sources -> Hashes]
    /\ runs = 0 /\ edits = 0 /\ workerCrashes = 0

-----------------------------------------------------------------------------
(* run: start-up *)

\* A new process loads both stores and the queue's groups.
StartRun ==
    /\ pc \in {"down", "done"}
    /\ runs < MaxRuns
    /\ runs' = runs + 1
    /\ pc' = "expire_rows"
    /\ todo' = Sources
    /\ UNCHANGED <<storeVars, queueVars, seen, batch, active, failures, current, envVars>>

ExpireStaleRows ==
    /\ pc = "expire_rows"
    /\ \E kept \in SUBSET InFlightRows :
          /\ FastRestart \/ kept = {}
          /\ ExpireRows(kept)
    /\ pc' = "expire_items"
    /\ UNCHANGED <<items, queueVars, runVars, runs, envVars>>

\* Faulty variant: interrupted items are left to the sampler's reset.
ExpireStaleItemsNot ==
    /\ pc = "expire_items"
    /\ pc' = "discard"
    /\ UNCHANGED <<storeVars, queueVars, runVars, runs, envVars>>

ExpireStaleItems ==
    /\ pc = "expire_items"
    /\ ExpireItems(Sources)
    /\ pc' = "discard"
    /\ UNCHANGED <<rows, queueVars, runVars, runs, envVars>>

DiscardAbandoned ==
    /\ pc = "discard"
    /\ DiscardPending
    /\ pc' = "sample"
    /\ UNCHANGED <<storeVars, resultVars, runVars, runs, envVars>>

-----------------------------------------------------------------------------
(* Sampler.sample and run: one batch *)

\* Not near a stored fingerprint, nor near one seen earlier in this run.
IsUnknown(s) ==
    /\ ~IsKnown(content[s])
    /\ \A g \in seen : <<g, content[s]>> \notin Near

\* The sampler keeps the first unknown source of each cluster, in the file
\* system's order: any maximal choice without near-duplicates.
IsFresh(chosen, B) ==
    /\ \A s \in chosen : IsUnknown(s)
    /\ \A s, t \in chosen : s # t => <<content[s], content[t]>> \notin Near
    /\ \A s \in Ready(B) \ chosen :
          IsUnknown(s) => \E t \in chosen : <<content[s], content[t]>> \in Near

SampleBatch ==
    /\ pc = "sample"
    /\ \E B \in SUBSET todo, chosen \in SUBSET todo :
          /\ B # {}
          /\ Cardinality(B) = BatchSize \/ (B = todo /\ Cardinality(B) <= BatchSize)
          /\ chosen \subseteq Ready(B)
          /\ IsFresh(chosen, B)
          /\ SelectPending(B)
          /\ todo' = todo \ B
          /\ batch' = {[source |-> s, hash |-> content[s]] : s \in chosen}
          /\ seen' = seen \cup {content[s] : s \in chosen}
          /\ pc' = IF chosen = {} THEN "sample" ELSE "register"
    /\ UNCHANGED <<rows, queueVars, active, failures, current, runs, envVars>>

FinishRun ==
    /\ pc = "sample"
    /\ todo = {}
    /\ pc' = "done"
    /\ seen' = {}
    /\ UNCHANGED <<storeVars, queueVars, todo, batch, active, failures, current, runs, envVars>>

RegisterInFlight ==
    /\ pc = "register"
    /\ RegisterBatch(batch, "in_flight")
    /\ pc' = "mark"
    /\ UNCHANGED <<items, queueVars, runVars, runs, envVars>>

MarkBatchInFlight ==
    /\ pc = "mark"
    /\ MarkInFlight(batch)
    /\ pc' = "enqueue"
    /\ UNCHANGED <<rows, queueVars, runVars, runs, envVars>>

EnqueueBatch ==
    /\ pc = "enqueue"
    /\ Enqueue(batch)
    /\ active' = {t.source : t \in batch}
    /\ batch' = {}
    /\ pc' = "drain"
    /\ UNCHANGED <<storeVars, resultVars, todo, seen, failures, current, runs, envVars>>

-----------------------------------------------------------------------------
(* _drain_batch *)

Idle == pc = "drain" /\ inbox = {}

Receive ==
    /\ Idle
    /\ active # {}
    /\ \E claimed \in SUBSET resultPel :
          \/ /\ TakeReturned(claimed, Cardinality(active))
             /\ pc' = "drain"
          \/ /\ ReadResults(claimed, Cardinality(active))
             /\ pc' = "ack"
    /\ UNCHANGED <<storeVars, taskVars, runVars, runs, envVars>>

Acknowledge ==
    /\ pc = "ack"
    /\ AckResults
    /\ pc' = "drain"
    /\ UNCHANGED <<storeVars, taskVars, runVars, runs, envVars>>

Consume(r) ==
    /\ inbox' = inbox \ {r}
    /\ UNCHANGED <<results, resultPel, returned>>

\* A result for a source that is not active is dropped.
SkipResult ==
    /\ pc = "drain"
    /\ \E r \in inbox : r.task.source \notin active /\ Consume(r)
    /\ UNCHANGED <<storeVars, taskVars, pc, runVars, runs, envVars>>

\* Faulty variant: the label is not written before the item is completed.
AcceptUnwritten ==
    /\ pc = "drain"
    /\ \E r \in inbox :
          /\ r.task.source \in active
          /\ r.ok
          /\ current' = r
          /\ Consume(r)
    /\ pc' = "complete"
    /\ UNCHANGED <<storeVars, taskVars, todo, seen, batch, active, failures, runs, envVars>>

\* Faulty variant: results of sources that are not active are applied too.
AcceptAnyResult ==
    /\ pc = "drain"
    /\ \E r \in inbox :
          /\ r.ok
          /\ RegisterBatch({r.task}, "accepted")
          /\ current' = r
          /\ Consume(r)
    /\ pc' = "complete"
    /\ UNCHANGED <<items, taskVars, todo, seen, batch, active, failures, runs, envVars>>

\* Success, first store: the row of the fingerprint the result carries.
AcceptResult ==
    /\ pc = "drain"
    /\ \E r \in inbox :
          /\ r.task.source \in active
          /\ r.ok
          /\ RegisterBatch({r.task}, "accepted")
          /\ current' = r
          /\ Consume(r)
    /\ pc' = "complete"
    /\ UNCHANGED <<items, taskVars, todo, seen, batch, active, failures, runs, envVars>>

\* Success, second store.
CompleteItem ==
    /\ pc = "complete"
    /\ MarkItem(current.task.source, "completed")
    /\ active' = active \ {current.task.source}
    /\ current' = None
    /\ pc' = "drain"
    /\ UNCHANGED <<rows, queueVars, todo, seen, batch, failures, runs, envVars>>

\* A failed result for an active source is counted ...
FailedResult(r) ==
    /\ pc = "drain"
    /\ r.task.source \in active
    /\ ~r.ok
    /\ failures' = [failures EXCEPT ![r.task.source] = @ + 1]
    /\ Consume(r)

\* Faulty variant: one retry too few.
RejectEarly ==
    /\ \E r \in inbox :
          /\ FailedResult(r)
          /\ failures[r.task.source] + 1 >= Retries
          /\ MarkItem(r.task.source, "rejected")
          /\ active' = active \ {r.task.source}
    /\ UNCHANGED <<rows, taskVars, pc, todo, seen, batch, current, runs, envVars>>

\* Faulty variant: a rejection deletes the row as well.
RejectReleasesRow ==
    /\ \E r \in inbox :
          /\ FailedResult(r)
          /\ failures[r.task.source] + 1 > Retries
          /\ MarkItem(r.task.source, "rejected")
          /\ rows' = [rows EXCEPT ![r.task.hash] = AbsentRow]
          /\ active' = active \ {r.task.source}
    /\ UNCHANGED <<taskVars, pc, todo, seen, batch, current, runs, envVars>>

\* ... and past the limit the item is rejected; its row stays IN_FLIGHT.
RejectItem ==
    /\ \E r \in inbox :
          /\ FailedResult(r)
          /\ failures[r.task.source] + 1 > Retries
          /\ MarkItem(r.task.source, "rejected")
          /\ active' = active \ {r.task.source}
    /\ UNCHANGED <<rows, taskVars, pc, todo, seen, batch, current, runs, envVars>>

RetryPending ==
    /\ \E r \in inbox :
          /\ FailedResult(r)
          /\ failures[r.task.source] + 1 <= Retries
          /\ MarkItem(r.task.source, "pending")
          /\ current' = r
    /\ pc' = "retry_mark"
    /\ UNCHANGED <<rows, taskVars, todo, seen, batch, active, runs, envVars>>

RetryInFlight ==
    /\ pc = "retry_mark"
    /\ MarkInFlight({current.task})
    /\ pc' = "retry_enqueue"
    /\ UNCHANGED <<rows, queueVars, runVars, runs, envVars>>

RetryEnqueue ==
    /\ pc = "retry_enqueue"
    /\ Enqueue({current.task})
    /\ current' = None
    /\ pc' = "drain"
    /\ UNCHANGED <<storeVars, resultVars, todo, seen, batch, active, failures, runs, envVars>>

NextBatch ==
    /\ Idle
    /\ active = {}
    /\ failures' = NoFailures
    /\ pc' = "sample"
    /\ UNCHANGED <<storeVars, queueVars, todo, seen, batch, active, current, runs, envVars>>

-----------------------------------------------------------------------------
(* The environment *)

\* The orchestrator dies: its memory is gone.  The last run is left alone.
Crash ==
    /\ pc \notin {"down", "done"}
    /\ runs < MaxRuns
    /\ pc' = "down"
    /\ todo' = {} /\ seen' = {} /\ batch' = {} /\ active' = {}
    /\ failures' = NoFailures
    /\ current' = None
    /\ returned' = {} /\ inbox' = {}
    /\ UNCHANGED <<storeVars, taskVars, results, resultPel, runs, envVars>>

EditDocument ==
    /\ edits < MaxEdits
    /\ \E s \in Sources, h \in Hashes :
          /\ h # content[s]
          /\ content' = [content EXCEPT ![s] = h]
    /\ edits' = edits + 1
    /\ UNCHANGED <<storeVars, queueVars, pc, runVars, runs, workerCrashes>>

WorkerDequeues(w) ==
    /\ DequeueNew(w) \/ DequeueReclaimed(w)
    /\ UNCHANGED <<storeVars, pc, runVars, runs, envVars>>

WorkerPublishes(w) ==
    /\ \E ok \in BOOLEAN : Publish(w, ok)
    /\ UNCHANGED <<storeVars, pc, runVars, runs, envVars>>

WorkerDies(w) ==
    /\ workerCrashes < MaxWorkerCrashes
    /\ WorkerCrash(w)
    /\ workerCrashes' = workerCrashes + 1
    /\ UNCHANGED <<storeVars, pc, runVars, runs, content, edits>>

-----------------------------------------------------------------------------

Orchestrator ==
    \/ StartRun \/ ExpireStaleRows \/ ExpireStaleItems \/ DiscardAbandoned
    \/ SampleBatch \/ FinishRun \/ RegisterInFlight \/ MarkBatchInFlight \/ EnqueueBatch
    \/ Receive \/ Acknowledge \/ SkipResult \/ AcceptResult \/ CompleteItem
    \/ RejectItem \/ RetryPending \/ RetryInFlight \/ RetryEnqueue \/ NextBatch

Next ==
    \/ Orchestrator
    \/ Crash
    \/ EditDocument
    \/ \E w \in Workers : WorkerDequeues(w) \/ WorkerPublishes(w) \/ WorkerDies(w)

Spec == Init /\ [][Next]_vars

\* The event loop keeps running the orchestrator and each worker while there
\* is something to do; nothing obliges a process to die or a file to change.
FairSpec ==
    /\ Spec
    /\ WF_vars(Orchestrator)
    /\ \A w \in Workers : WF_vars(WorkerDequeues(w)) /\ WF_vars(WorkerPublishes(w))

-----------------------------------------------------------------------------
(* Safety *)

\* A COMPLETED item has its label: the row of the fingerprint it was sampled
\* with is ACCEPTED and came from this source (the two stores are written in
\* separate steps, dedup first).
CompletedIsLabeled ==
    \A s \in Sources : items[s].status = "completed" =>
        /\ items[s].hash \in Hashes
        /\ rows[items[s].hash] = [status |-> "accepted", source |-> s]

\* The training data holds no two near-duplicate recipes, whatever the crashes
\* and the duplicate or late results of earlier runs.
NoNearDuplicateAccepted ==
    \A g, h \in Accepted : g # h => <<g, h>> \notin Near

\* Some task or result that will settle the source is still in a stream, in a
\* worker's hands or in the orchestrator's.
Pending(s) ==
    \/ \E m \in tasks \cup pel : m.task.source = s
    \/ \E r \in LiveResults : r.task.source = s
    \/ current # None /\ current.task.source = s

\* The barrier cannot wait for ever.
ActiveNeverLost == \A s \in active : Pending(s)

BatchSources == {t.source : t \in batch}

\* Who is claimed when: the batch until it is enqueued, then what the barrier
\* waits for.
ClaimPhases ==
    /\ pc \in {"register", "mark", "enqueue"} => active = {}
    /\ pc \in {"drain", "ack"} \cup Applying => batch = {}
    /\ pc \in {"down", "expire_rows", "expire_items", "discard", "sample", "done"} =>
          active = {} /\ batch = {}
    /\ pc \in Applying => current.task.source \in active

\* From the start-up on, the IN_FLIGHT items are exactly those the orchestrator
\* has marked and not yet settled: while a batch drains, the active ones.
InFlight == {s \in Sources : items[s].status = "in_flight"}
BarrierMatchesCheckpoint ==
    /\ pc \in {"discard", "sample", "register", "mark", "done"} => InFlight = {}
    /\ pc = "enqueue" => InFlight = BatchSources
    /\ pc \in {"drain", "ack", "complete", "retry_enqueue"} => InFlight = active
    /\ pc = "retry_mark" => InFlight = active \ {current.task.source}

\* An active item was put in flight once more than its results failed, but for
\* the one that is about to be put in flight again.
AttemptsCounted ==
    /\ pc \notin {"drain", "ack"} \cup Applying => failures = NoFailures
    /\ pc = "enqueue" => \A s \in BatchSources : items[s].attempts > 0
    /\ \A s \in active :
          IF pc = "retry_mark" /\ s = current.task.source
          THEN items[s].attempts >= failures[s] ELSE items[s].attempts > failures[s]

\* What the barrier waits for is what the checkpoint calls in flight, as often
\* as the attempts say, and is still to come.
BarrierInv ==
    TypeOK /\ ClaimPhases /\ ActiveNeverLost /\ BarrierMatchesCheckpoint /\ AttemptsCounted

\* A REJECTED item was put in flight once more than the retries allow.
RejectionEarned ==
    \A s \in Sources : items[s].status = "rejected" => items[s].attempts > Retries

\* When a run ends every source is settled, or a near-duplicate of it holds
\* its place in the dedup store (labeled, or rejected in this very run).
RunAccountsForEverySource ==
    pc = "done" =>
        \A s \in Sources :
            \/ items[s].status \in {"completed", "rejected"}
            \/ \E h \in Registered :
                  /\ <<h, content[s]>> \in Near
                  /\ \/ rows[h].status = "accepted"
                     \/ items[rows[h].source].status = "rejected"

(* Steps *)

\* An accepted label is never withdrawn, downgraded or replaced.
AcceptedIsFinal ==
    [][\A h \in Hashes : rows[h].status = "accepted" => rows'[h] = rows[h]]_vars

(* Liveness *)

\* The last run ends, whatever is lost, late, duplicated or stranded before:
\* the orchestrator never waits for ever for a result.
RunEnds == pc # "done" ~> pc = "done"

\* The contract of the checkpoint store: REJECTED items get another chance on
\* the next run.
RejectedGetsAnotherChance ==
    \A s \in Sources :
        (items[s].status = "rejected" /\ pc = "done" /\ runs < MaxRuns)
            ~> items[s].status # "rejected"

(* Refinement *)

Ledger == INSTANCE LabelLedger WITH
    label     <- [h \in Hashes |->
                    IF rows[h].status = "accepted" THEN rows[h].source ELSE None],
    completed <- {s \in Sources : items[s].status = "completed"},
    rejected  <- {s \in Sources : items[s].status = "rejected"}

\* While documents are not edited, the pipeline implements the ledger: through
\* every crash, retry and duplicate delivery it only accepts, completes or
\* rejects, in the order the ledger allows.
ImplementsLedger == Ledger!Spec

-----------------------------------------------------------------------------
(* The inductive invariant behind the safety properties, for documents that *)
(* are not edited: what is claimed by the current batch stays apart from    *)
(* everything labeled and from itself, and every task still in the system   *)
(* names the fingerprint its document has.                                  *)

TasksInSystem ==
    {m.task : m \in LiveMessages} \cup {r.task : r \in LiveResults}
        \cup batch \cup {r.task : r \in {current} \ {None}}

Unedited ==
    /\ edits = 0
    /\ \A t \in TasksInSystem : t.hash = content[t.source]

Claimed == BatchSources \cup active

\* The source whose label is written but which is not yet marked completed.
Completing(s) == pc = "complete" /\ s = current.task.source

ClaimsApart ==
    /\ \A s, t \in Claimed : s # t => <<content[s], content[t]>> \notin Near
    /\ \A s \in Claimed : \/ Completing(s)
                          \/ \A g \in Accepted : <<g, content[s]>> \notin Near

ClaimsOpen ==
    /\ \A s \in Claimed : items[s].status \in {"pending", "in_flight"}
    /\ pc \in {"enqueue", "drain", "ack"} \cup Applying =>
          \A s \in Claimed : items[s].hash = content[s]

LabelsHaveOwners ==
    /\ \A h \in Accepted : /\ rows[h].source \in Sources
                           /\ h = content[rows[h].source]
                           /\ items[rows[h].source].status # "rejected"
    /\ pc = "complete" =>
          rows[content[current.task.source]] =
              [status |-> "accepted", source |-> current.task.source]

LabelingInv ==
    /\ TypeOK
    /\ Unedited
    /\ ClaimPhases
    /\ ClaimsApart
    /\ ClaimsOpen
    /\ LabelsHaveOwners
    /\ CompletedIsLabeled
    /\ NoNearDuplicateAccepted

(* The inductive invariant behind RunAccountsForEverySource.  Besides, a row in *)
(* flight was registered in this run, so that the sampler skips a document for *)
(* a good reason.                                                              *)

\* The row of a claimed or of a rejected document holds its place.
Holds(h, s) == rows[h] = [status |-> "in_flight", source |-> s]

RowsHaveReasons ==
    /\ pc \in {"expire_items", "discard"} => \A h \in Hashes : rows[h].status # "in_flight"
    /\ pc \in {"sample", "register", "mark", "enqueue", "drain", "ack", "done"} \cup Applying =>
          \A h \in Hashes : rows[h].status = "in_flight" =>
              /\ rows[h].source \in Sources /\ h = content[rows[h].source]
              /\ rows[h].source \in Claimed \/ items[rows[h].source].status = "rejected"
    /\ pc = "register" => \A s \in Claimed : ~IsKnown(content[s])
    /\ pc \in {"mark", "enqueue", "drain", "ack"} \cup Applying =>
          \A s \in Claimed : Holds(content[s], s) \/ Completing(s)

\* A fingerprint whose place is taken in this run.
Taken(h) ==
    \/ \E s \in Claimed : content[s] = h
    \/ h \in Accepted
    \/ \E s \in Sources : items[s].status = "rejected" /\ Holds(h, s)

Running == {"sample", "register", "mark", "enqueue", "drain", "ack"} \cup Applying

SourcesAccounted ==
    /\ pc \notin Running \cup {"done"} => todo = Sources \/ pc = "down"
    /\ pc \in Running \cup {"done"} =>
          \A s \in Sources \ todo :
              \/ items[s].status \in {"completed", "rejected"}
              \/ \E h \in Hashes : <<h, content[s]>> \in Near /\ Taken(h)
    /\ pc = "done" => todo = {}
    /\ IF pc \in Running THEN \A h \in seen : Taken(h) ELSE seen = {}

AccountingInv == LabelingInv /\ BarrierInv /\ RowsHaveReasons /\ SourcesAccounted
=============================================================================
