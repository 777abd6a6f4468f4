--------------------------- MODULE BatchLabeling ---------------------------
(***************************************************************************)
(* The two single-process pipelines, BootstrapOrchestrator and             *)
(* ProductionOrchestrator: sample a batch, label its documents             *)
(* concurrently, write the labels of the whole batch, go on until enough   *)
(* outcomes were seen.  Each pipeline has a checkpoint file of its own and *)
(* all of them share one dedup database, so a source of the stores is a    *)
(* pair <<pipeline, document>> and a checkpoint is the items of one        *)
(* pipeline's sources.  A run may die between any two durable writes.      *)
(***************************************************************************)
EXTENDS LabelingStores

CONSTANTS Pipelines, Documents,
          Bootstraps,   \* the pipelines that run BootstrapOrchestrator
          Repairs,      \* the pipelines that repair invalid output
          Wrapping,     \* the pipelines whose client wraps a transient HTTP error
          BatchSize, Retries,
          Slots,        \* max_concurrent of a client's semaphore
          EmptyRetries, \* empty_response_retries of a client
          Target,       \* outcomes after which a run stops: target + holdout
          Overlap,      \* may one pipeline start while another runs?
          MaxRuns       \* bound: runs in all

ASSUME BatchAssumption ==
    /\ Sources = Pipelines \X Documents /\ IsFiniteSet(Documents)
    /\ Bootstraps \subseteq Repairs /\ Repairs \subseteq Pipelines
    /\ Wrapping \subseteq Pipelines
    /\ BatchSize \in Nat \ {0} /\ Slots \in Nat \ {0} /\ EmptyRetries \in Nat
    /\ Retries \in Nat /\ Target \in Nat /\ MaxRuns \in Nat
    /\ Overlap \in BOOLEAN

VARIABLES text,       \* the fingerprint of each document
          pc,         \* where the process of each pipeline is
          todo,       \* sources its file iterator has not yielded yet
          seen,       \* its sampler's in-memory dedup store
          batch,      \* its current batch
          job,        \* the coroutine of each source: _process_one
          processed,  \* outcomes seen in this run
          runs,
          troubled    \* history: bootstrap sources whose server was unavailable

procVars == <<todo, seen, batch, job, processed>>
vars == <<storeVars, text, pc, procVars, runs, troubled>>

PCs == {"down", "expire_rows", "expire_items", "sample", "register", "mark",
        "label", "complete", "done"}

\* labeled, deferred and failed are final; attempt counts from 0.  empties: the
\* empty replies its present call of the client has met.
Job == [step : {"none", "label", "repair", "labeled", "deferred", "failed"},
        attempt : 0..Retries, transient : BOOLEAN, empties : 0..EmptyRetries]
NoJob    == [step |-> "none", attempt |-> 0, transient |-> FALSE, empties |-> 0]
FirstJob == [NoJob EXCEPT !.step = "label"]

Owned(p) == {p} \X Documents
Hash(s) == text[s[2]]
BatchSources(p) == {t.source : t \in batch[p]}
Stopped(p) == pc[p] \in {"down", "done"}

BatchTypeOK ==
    /\ StoresTypeOK
    /\ text \in [Documents -> Hashes]
    /\ pc \in [Pipelines -> PCs]
    /\ todo \in [Pipelines -> SUBSET Sources]
    /\ seen \in [Pipelines -> SUBSET Hashes]
    /\ batch \in [Pipelines -> SUBSET Task]
    /\ job \in [Sources -> Job]
    /\ processed \in [Pipelines -> Nat]
    /\ runs \in 0..MaxRuns
    /\ troubled \subseteq Sources

Init ==
    /\ StoresInit
    /\ text \in [Documents -> Hashes]
    /\ pc = [p \in Pipelines |-> "down"]
    /\ todo = [p \in Pipelines |-> {}]
    /\ seen = [p \in Pipelines |-> {}]
    /\ batch = [p \in Pipelines |-> {}]
    /\ job = [s \in Sources |-> NoJob]
    /\ processed = [p \in Pipelines |-> 0]
    /\ runs = 0
    /\ troubled = {}

GoTo(p, place) == pc' = [pc EXCEPT ![p] = place]

\* The jobs of pipeline p's sources in S become j.
SetJobs(S, j) == job' = [s \in Sources |-> IF s \in S THEN j ELSE job[s]]

-----------------------------------------------------------------------------
(* run: start-up *)

StartRun(p) ==
    /\ Stopped(p)
    /\ runs < MaxRuns
    /\ Overlap \/ \A q \in Pipelines : Stopped(q)
    /\ runs' = runs + 1
    /\ todo' = [todo EXCEPT ![p] = Owned(p)]
    /\ processed' = [processed EXCEPT ![p] = 0]
    /\ GoTo(p, "expire_rows")
    /\ UNCHANGED <<storeVars, text, seen, batch, job, troubled>>

\* Whichever pipeline registered them: the table does not tell.  Rows of the
\* second in which the run starts stay.
ExpireStaleRows(p) ==
    /\ pc[p] = "expire_rows"
    /\ \E kept \in SUBSET InFlightRows : ExpireRows(kept)
    /\ GoTo(p, "expire_items")
    /\ UNCHANGED <<items, text, procVars, runs, troubled>>

\* Faulty variant: interrupted items are left to the sampler's reset.
ExpireStaleItemsNot(p) ==
    /\ pc[p] = "expire_items"
    /\ GoTo(p, "sample")
    /\ UNCHANGED <<storeVars, text, procVars, runs, troubled>>

ExpireStaleItems(p) ==
    /\ pc[p] = "expire_items"
    /\ ExpireItems(Owned(p))
    /\ GoTo(p, "sample")
    /\ UNCHANGED <<rows, text, procVars, runs, troubled>>

-----------------------------------------------------------------------------
(* Sampler.sample *)

IsUnknown(p, s) ==
    /\ ~IsKnown(Hash(s))
    /\ \A g \in seen[p] : <<g, Hash(s)>> \notin Near

\* The first unknown source of each cluster: a maximal choice.
IsFresh(p, chosen, B) ==
    /\ \A s \in chosen : IsUnknown(p, s)
    /\ \A s, t \in chosen : s # t => <<Hash(s), Hash(t)>> \notin Near
    /\ \A s \in Ready(B) \ chosen :
          IsUnknown(p, s) => \E t \in chosen : <<Hash(s), Hash(t)>> \in Near

SampleBatch(p) ==
    /\ pc[p] = "sample"
    /\ \E B \in SUBSET todo[p], chosen \in SUBSET todo[p] :
          /\ B # {}
          /\ Cardinality(B) = BatchSize \/ (B = todo[p] /\ Cardinality(B) <= BatchSize)
          /\ chosen \subseteq Ready(B)
          /\ IsFresh(p, chosen, B)
          /\ SelectPending(B)
          /\ todo' = [todo EXCEPT ![p] = @ \ B]
          /\ batch' = [batch EXCEPT ![p] =
                         {[source |-> s, hash |-> Hash(s)] : s \in chosen}]
          /\ seen' = [seen EXCEPT ![p] = @ \cup {Hash(s) : s \in chosen}]
          /\ GoTo(p, IF chosen = {} THEN "sample" ELSE "register")
    /\ UNCHANGED <<rows, text, job, processed, runs, troubled>>

FinishRun(p) ==
    /\ pc[p] = "sample"
    /\ todo[p] = {}
    /\ GoTo(p, "done")
    /\ seen' = [seen EXCEPT ![p] = {}]
    /\ UNCHANGED <<storeVars, text, todo, batch, job, processed, runs, troubled>>

RegisterInFlight(p) ==
    /\ pc[p] = "register"
    /\ RegisterBatch(batch[p], "in_flight")
    /\ GoTo(p, "mark")
    /\ UNCHANGED <<items, text, procVars, runs, troubled>>

\* mark_in_flight_batch, then gather starts one coroutine per document.
MarkBatchInFlight(p) ==
    /\ pc[p] = "mark"
    /\ MarkInFlight(batch[p])
    /\ SetJobs(BatchSources(p), FirstJob)
    /\ troubled' = troubled \ BatchSources(p)
    /\ GoTo(p, "label")
    /\ UNCHANGED <<rows, text, todo, seen, batch, processed, runs>>

-----------------------------------------------------------------------------
(* _process_one, one coroutine per source, and the client it calls: label   *)
(* and repair of the client send requests until one is not empty.  What the *)
(* server answers is free.                                                  *)

At(p, s, step) == pc[p] = "label" /\ s \in BatchSources(p) /\ job[s].step = step

\* async with the semaphore.  A call keeps its slot while it backs off; one that
\* its first reply settles is a single step in a free slot.
BackingOff(p) == {s \in Owned(p) : job[s].empties > 0}
InCall(p, s) ==
    /\ At(p, s, "label") \/ At(p, s, "repair")
    /\ s \in BackingOff(p) \/ Cardinality(BackingOff(p)) < Slots

\* The call is over, its slot free, and the coroutine goes on at step.
Returns(s, step) == [job[s] EXCEPT !.step = step, !.empties = 0]

jobOnly == UNCHANGED <<storeVars, text, pc, todo, seen, batch, processed, runs, troubled>>

\* Back off, then ask again.
EmptyReply(p, s) ==
    /\ InCall(p, s)
    /\ job[s].empties < EmptyRetries
    /\ job' = [job EXCEPT ![s].empties = @ + 1]
    /\ jobOnly

\* label or repair returned valid output: the label is staged in memory.
GetsLabel(p, s) ==
    /\ InCall(p, s)
    /\ job' = [job EXCEPT ![s] = Returns(s, "labeled")]
    /\ jobOnly

\* label returned invalid output and this pipeline repairs.
StartRepair(p, s) ==
    /\ p \in Repairs
    /\ InCall(p, s)
    /\ job[s].step = "label"
    /\ job' = [job EXCEPT ![s] = Returns(s, "repair")]
    /\ jobOnly

\* How a call fails the attempt: the last reply is empty too, the server answers
\* 404, 502, 503 or 504, the request fails otherwise, or the output is invalid
\* and no repair follows.
Failures(p, s) ==
    {"unavailable", "refused"}
        \cup (IF job[s].empties = EmptyRetries THEN {"empty"} ELSE {})
        \cup (IF job[s].step = "repair" \/ p \notin Repairs THEN {"invalid"} ELSE {})

\* Only a client that wraps the status code raises TransientError.
Transient(p, failure) == failure = "unavailable" /\ p \in Wrapping

FailedAttempt(p, s, failure) ==
    /\ InCall(p, s)
    /\ failure \in Failures(p, s)
    /\ troubled' = IF failure = "unavailable" /\ p \in Bootstraps
                   THEN troubled \cup {s} ELSE troubled

\* _transient is a variable of the bootstrap's loop only.
Noted(p, s, failure) ==
    job[s].transient \/ (p \in Bootstraps /\ Transient(p, failure))

\* Faulty variant: the failed attempt is not counted.
RetryForever(p, s, failure) ==
    /\ FailedAttempt(p, s, failure)
    /\ job' = [job EXCEPT ![s] = [Returns(s, "label") EXCEPT
                                    !.transient = Noted(p, s, failure)]]
    /\ UNCHANGED <<storeVars, text, pc, todo, seen, batch, processed, runs>>

Retry(p, s, failure) ==
    /\ FailedAttempt(p, s, failure)
    /\ job[s].attempt < Retries
    /\ job' = [job EXCEPT ![s] = [Returns(s, "label") EXCEPT
                                    !.attempt = @ + 1,
                                    !.transient = Noted(p, s, failure)]]
    /\ UNCHANGED <<storeVars, text, pc, todo, seen, batch, processed, runs>>

\* Bootstrap rejects, unless any attempt failed for infrastructure reasons;
\* production always leaves the document for the next run.
Deferred(p, s, failure) == p \notin Bootstraps \/ Noted(p, s, failure)
GivenUp(p, s, failure) == IF Deferred(p, s, failure) THEN "deferred" ELSE "failed"

\* Faulty variant: the bootstrap resets the item as production does.
GiveUpPending(p, s, failure) ==
    /\ FailedAttempt(p, s, failure)
    /\ job[s].attempt = Retries
    /\ MarkItem(s, "pending")
    /\ job' = [job EXCEPT ![s] = Returns(s, GivenUp(p, s, failure))]
    /\ UNCHANGED <<rows, text, pc, todo, seen, batch, processed, runs>>

GiveUp(p, s, failure) ==
    /\ FailedAttempt(p, s, failure)
    /\ job[s].attempt = Retries
    /\ MarkItem(s, IF Deferred(p, s, failure) THEN "pending" ELSE "rejected")
    /\ job' = [job EXCEPT ![s] = Returns(s, GivenUp(p, s, failure))]
    /\ UNCHANGED <<rows, text, pc, todo, seen, batch, processed, runs>>

-----------------------------------------------------------------------------
(* run: after gather *)

Gathered(p) ==
    /\ pc[p] = "label"
    /\ \A s \in BatchSources(p) : job[s].step \in {"labeled", "deferred", "failed"}

Labeled(p) == {t \in batch[p] : job[t.source].step = "labeled"}

\* Every outcome counts towards the target, failures included.
NextBatch(p) ==
    LET seenNow == processed[p] + Cardinality(batch[p]) IN
    /\ processed' = [processed EXCEPT ![p] = seenNow]
    /\ batch' = [batch EXCEPT ![p] = {}]
    /\ SetJobs(BatchSources(p), NoJob)
    /\ seen' = [seen EXCEPT ![p] = IF seenNow >= Target THEN {} ELSE @]
    /\ todo' = [todo EXCEPT ![p] = IF seenNow >= Target THEN {} ELSE @]
    /\ GoTo(p, IF seenNow >= Target THEN "done" ELSE "sample")

NothingToWrite(p) ==
    /\ Gathered(p)
    /\ Labeled(p) = {}
    /\ NextBatch(p)
    /\ UNCHANGED <<storeVars, text, runs, troubled>>

WriteLabels(p) ==
    /\ Gathered(p)
    /\ Labeled(p) # {}
    /\ RegisterBatch(Labeled(p), "accepted")
    /\ GoTo(p, "complete")
    /\ UNCHANGED <<items, text, procVars, runs, troubled>>

\* mark_completed_batch.
CompleteBatch(p) ==
    /\ pc[p] = "complete"
    /\ items' = [s \in Sources |->
                   IF \E t \in Labeled(p) : t.source = s
                   THEN [items[s] EXCEPT !.status = "completed"] ELSE items[s]]
    /\ NextBatch(p)
    /\ UNCHANGED <<rows, text, runs, troubled>>

-----------------------------------------------------------------------------

\* The process dies, its memory with it.  The last run is left alone.
Crash(p) ==
    /\ ~Stopped(p)
    /\ runs < MaxRuns
    /\ GoTo(p, "down")
    /\ todo' = [todo EXCEPT ![p] = {}]
    /\ seen' = [seen EXCEPT ![p] = {}]
    /\ batch' = [batch EXCEPT ![p] = {}]
    /\ processed' = [processed EXCEPT ![p] = 0]
    /\ SetJobs(Owned(p), NoJob)
    /\ UNCHANGED <<storeVars, text, runs, troubled>>

Coroutine(p, s) ==
    \/ EmptyReply(p, s) \/ GetsLabel(p, s) \/ StartRepair(p, s)
    \/ \E failure \in Failures(p, s) : Retry(p, s, failure) \/ GiveUp(p, s, failure)

Proceed(p) ==
    \/ ExpireStaleRows(p) \/ ExpireStaleItems(p)
    \/ SampleBatch(p) \/ FinishRun(p) \/ RegisterInFlight(p) \/ MarkBatchInFlight(p)
    \/ \E s \in Owned(p) : Coroutine(p, s)
    \/ NothingToWrite(p) \/ WriteLabels(p) \/ CompleteBatch(p)

Next == \E p \in Pipelines : StartRun(p) \/ Proceed(p) \/ Crash(p)

Spec == Init /\ [][Next]_vars

\* A running pipeline goes on: every request to a model ends by answer or by
\* timeout.  Nothing obliges anyone to start a run.
FairSpec == Spec /\ \A p \in Pipelines : WF_vars(Proceed(p))

-----------------------------------------------------------------------------
(* Safety *)

\* A COMPLETED document of either pipeline has an accepted row under the
\* fingerprint its checkpoint recorded, supplied by that very source.
BatchCompletedIsLabeled ==
    \A s \in Sources : items[s].status = "completed" =>
        /\ items[s].hash \in Hashes
        /\ rows[items[s].hash] = [status |-> "accepted", source |-> s]

\* Two pipelines that share the dedup database, one after the other, with
\* crashes, never write two near-duplicate labels.
NoNearDuplicateLabels == \A g, h \in Accepted : g # h => <<g, h>> \notin Near

\* While a batch is labeled, its documents are IN_FLIGHT in the checkpoint,
\* in the dedup store or both, exactly until their coroutine gave up.
JobsMatchCheckpoint ==
    \A p \in Pipelines : pc[p] = "label" =>
        \A t \in batch[p] :
            /\ rows[t.hash] = [status |-> "in_flight", source |-> t.source]
            /\ items[t.source].status = CASE job[t.source].step = "deferred" -> "pending"
                                          [] job[t.source].step = "failed" -> "rejected"
                                          [] OTHER -> "in_flight"

\* The sources at one of whose attempts the client raised TransientError.
Raised == {s \in troubled : s[1] \in Wrapping}

\* A document is rejected only when at none of its attempts, whatever failed at
\* the others, the client raised TransientError.
RejectedWithoutTransient ==
    \A s \in Sources : items[s].status = "rejected" => s \notin Raised

\* The promise of _process_one for the client that is wired: on 404, 502, 503 or
\* 504 the item is reset to PENDING.
UnavailableIsDeferred ==
    \A s \in Sources : items[s].status = "rejected" => s \notin troubled

\* Hashes are registered before processing to prevent concurrent duplicate
\* submissions: no two pipelines label near-duplicates at the same time.
NoConcurrentDuplicates ==
    \A p, q \in Pipelines :
        p # q /\ pc[p] = "label" /\ pc[q] = "label" =>
            \A t \in batch[p], u \in batch[q] : <<t.hash, u.hash>> \notin Near

\* One pipeline at a time, as the code expects of its users.
OneRuns == \A p, q \in Pipelines : p # q => Stopped(p) \/ Stopped(q)

\* A pipeline looks at its own documents, and those of a batch are no
\* near-duplicates.
BatchFormed(p) ==
    /\ todo[p] \subseteq Owned(p)
    /\ pc[p] \notin {"register", "mark", "label", "complete"} => batch[p] = {}
    /\ \A t \in batch[p] : t.source \in Owned(p) /\ t.hash = Hash(t.source)
    /\ \A t, u \in batch[p] : t # u => <<t.hash, u.hash>> \notin Near

\* The checkpoint's part of JobsMatchCheckpoint: no other pipeline touches it.
\* Until the coroutines start, and until their labels are written, the documents
\* of a batch have no verdict.
ItemsMatchJobs(p) ==
    /\ pc[p] \in {"register", "mark"} => \A t \in batch[p] : items[t.source].status = "pending"
    /\ pc[p] \in {"label", "complete"} =>
          \A t \in batch[p] :
             items[t.source].status = CASE job[t.source].step = "deferred" -> "pending"
                                        [] job[t.source].step = "failed" -> "rejected"
                                        [] OTHER -> "in_flight"

\* A coroutine of the bootstrap that tries again remembers that its client raised
\* TransientError.
TroublesNoted(p) ==
    p \in Bootstraps /\ pc[p] = "label" =>
        \A t \in batch[p] :
            t.source \in Raised /\ job[t.source].step \in {"label", "repair"} =>
                job[t.source].transient

\* No two fingerprints of the dedup store are near each other.
RowsApart == \A g, h \in Registered : g # h => <<g, h>> \notin Near

\* A row names the document it was registered for, whose text it is.
RowsNameSuppliers ==
    \A h \in Registered : rows[h].source \in Sources /\ Hash(rows[h].source) = h

\* The batch is new to the dedup store until it is registered, and has its rows
\* from then on; the checkpoint has the fingerprint the label is stored under.
BatchHasRows(p) ==
    \A t \in batch[p] :
        /\ pc[p] = "register" => ~IsKnown(t.hash)
        /\ pc[p] \in {"mark", "label"} =>
               rows[t.hash] = [status |-> "in_flight", source |-> t.source]
        /\ pc[p] \in {"label", "complete"} => items[t.source].hash = t.hash
        /\ pc[p] = "complete" /\ job[t.source].step = "labeled" =>
               rows[t.hash] = [status |-> "accepted", source |-> t.source]

IsSettled(s) == items[s].status \in {"completed", "rejected"}

\* What the iterator has yielded is settled, known to the dedup store, or near
\* a document this run has chosen, whose row is there or about to be.
SourcesLookedAt(p) ==
    /\ Stopped(p) => seen[p] = {}
    /\ pc[p] \in {"expire_rows", "expire_items"} => todo[p] = Owned(p) /\ seen[p] = {}
    /\ ~Stopped(p) =>
          /\ todo[p] \cap BatchSources(p) = {}
          /\ pc[p] \notin {"expire_rows", "expire_items"} =>
                \A s \in todo[p] : items[s].status # "in_flight"
          /\ \A g \in seen[p] :
                g \in Registered \/ (pc[p] = "register" /\ \E t \in batch[p] : t.hash = g)
          /\ \A s \in Owned(p) \ todo[p] :
                IsSettled(s) \/ IsKnown(Hash(s)) \/ \E g \in seen[p] : <<g, Hash(s)>> \in Near

\* What the checkpoints, the shared rows and the coroutines say of one another,
\* whatever ran and died before: the inductive invariant.
BatchInv ==
    /\ BatchTypeOK
    /\ \A p \in Pipelines : BatchFormed(p) /\ ItemsMatchJobs(p)
    /\ (\A p \in Pipelines : TroublesNoted(p)) /\ RejectedWithoutTransient
    /\ OneRuns /\ RowsApart /\ RowsNameSuppliers
    /\ \A p \in Pipelines : BatchHasRows(p) /\ SourcesLookedAt(p)
    /\ JobsMatchCheckpoint
    /\ BatchCompletedIsLabeled

(* Steps *)

\* A run that ends before its target has looked at everything: what it leaves
\* unsettled is near a row of the dedup store, which a run of the same second
\* may have left.
LeavesNothingOut ==
    \A p \in Pipelines :
        (pc[p] # "done" /\ pc'[p] = "done" /\ processed'[p] < Target) =>
            \A s \in Owned(p) : IsSettled(s)' \/ IsKnown(Hash(s))
RunLeavesNothingOut == [][LeavesNothingOut]_vars

(* Refinement *)

Ledger == INSTANCE LabelLedger WITH
    label     <- [h \in Hashes |->
                    IF rows[h].status = "accepted" THEN rows[h].source ELSE None],
    completed <- {s \in Sources : items[s].status = "completed"},
    rejected  <- {s \in Sources : items[s].status = "rejected"}

\* Two pipelines that take turns, with coroutines, retries and crashes, keep the
\* promise of the distributed one: recipes enter the shared set a batch at a
\* time, none near another, and a document is completed after its recipe entered,
\* rejected only if it supplied none, and neither is ever taken back.
BatchImplementsLedger == Ledger!Spec

(* Liveness *)

\* A run ends or dies: no coroutine retries for ever.
BatchRunEnds == \A p \in Pipelines : ~Stopped(p) ~> Stopped(p)
=============================================================================
