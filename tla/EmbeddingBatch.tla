--------------------------- MODULE EmbeddingBatch ---------------------------
(***************************************************************************)
(* OllamaEmbeddingClient.a_batch_embedding: one worker coroutine per       *)
(* sub-batch, a task queue, a semaphore before the thread pool, a result   *)
(* queue and one collector.  Coroutines of one event loop run alone from   *)
(* one suspension to the next, so a step here is what lies between two.    *)
(* The answer of the server is external: vectors or an exception.          *)
(* batch_embedding, at the end, sends the sub-batches one after the other. *)
(***************************************************************************)
EXTENDS Naturals, Sequences, FiniteSets

CONSTANTS N,             \* the number of sub-batches
          MaxConcurrent, \* _MAX_CONCURRENT_REQUESTS: semaphore and threads
          MaxRetries     \* _MAX_RETRIES

ASSUME EmbeddingAssumption ==
    /\ N \in Nat \ {0}
    /\ MaxConcurrent \in Nat \ {0}
    /\ MaxRetries \in Nat \ {0}

SubBatches == 0..(N - 1)
Workers == SubBatches    \* n_workers = len(sub_batches)

VARIABLES caller,    \* where the call of a_batch_embedding or batch_embedding is
          tasks,     \* task_queue
          worker,    \* each coroutine: its step and the task it carries
          results,   \* result_queue
          left,      \* results_to_collect; sub-batches still to send
          ordered,   \* the sub-batches whose vectors the collector has
          failed,    \* the sub-batches the collector gave up
          refused    \* history: requests of each sub-batch that raised,
                     \* counted up to MaxRetries

vars == <<caller, tasks, worker, results, left, ordered, failed, refused>>

Task == [idx : SubBatches, attempt : 0..(MaxRetries - 1)]
Result == [idx : SubBatches, ok : BOOLEAN]

\* new: not run yet; gate: waits for the semaphore; slot: holds the semaphore
\* and waits for a thread; request: a thread talks to the server.
WorkerSteps == {"new", "gate", "slot", "request", "gone"}
WorkerState == [step : WorkerSteps, task : Task \cup {<<>>}]
Gone == [step |-> "gone", task |-> <<>>]
Carrying(t) == [step |-> "gate", task |-> t]

EmbeddingTypeOK ==
    /\ caller \in {"idle", "collect", "gather", "serial", "returned", "raised"}
    /\ tasks \in Seq(Task)
    /\ worker \in [Workers -> WorkerState]
    /\ results \in Seq(Result)
    /\ left \in 0..N
    /\ ordered \subseteq SubBatches /\ failed \subseteq SubBatches
    /\ refused \in [SubBatches -> 0..MaxRetries]

In(steps) == {w \in Workers : worker[w].step \in steps}

Init ==
    /\ caller = "idle"
    /\ tasks = <<>> /\ results = <<>>
    /\ worker = [w \in Workers |-> Gone]
    /\ left = 0 /\ ordered = {} /\ failed = {}
    /\ refused = [i \in SubBatches |-> 0]

-----------------------------------------------------------------------------

Call ==
    /\ caller \in {"idle", "returned", "raised"}
    /\ caller' = "collect"
    /\ tasks' = [n \in 1..N |-> [idx |-> n - 1, attempt |-> 0]]
    /\ worker' = [w \in Workers |-> [Gone EXCEPT !.step = "new"]]
    /\ results' = <<>>
    /\ left' = N /\ ordered' = {} /\ failed' = {}
    /\ refused' = [i \in SubBatches |-> 0]

\* Faulty variant: a worker returns after its first task.
TakesNothing(w, q) ==
    IF worker[w].step = "new" /\ q # <<>>
    THEN tasks' = Tail(q) /\ worker' = [worker EXCEPT ![w] = Carrying(Head(q))]
    ELSE tasks' = q /\ worker' = [worker EXCEPT ![w] = Gone]

\* get_nowait: w carries the head of the queue q, or returns when it is empty.
TakesNext(w, q) ==
    IF q = <<>> THEN tasks' = q /\ worker' = [worker EXCEPT ![w] = Gone]
    ELSE tasks' = Tail(q) /\ worker' = [worker EXCEPT ![w] = Carrying(Head(q))]

FirstTurn(w) ==
    /\ worker[w].step = "new"
    /\ TakesNext(w, tasks)
    /\ UNCHANGED <<caller, results, left, ordered, failed, refused>>

\* async with semaphore, then run_in_executor.
Acquire(w) ==
    /\ worker[w].step = "gate"
    /\ Cardinality(In({"slot", "request"})) < MaxConcurrent
    /\ worker' = [worker EXCEPT ![w].step = "slot"]
    /\ UNCHANGED <<caller, tasks, results, left, ordered, failed, refused>>

ThreadIsFree == Cardinality(In({"request"})) < MaxConcurrent

SendRequest(w) ==
    /\ worker[w].step = "slot" /\ ThreadIsFree
    /\ worker' = [worker EXCEPT ![w].step = "request"]
    /\ UNCHANGED <<caller, tasks, results, left, ordered, failed, refused>>

\* The coroutine resumes with the vectors, frees the semaphore, posts them and
\* goes on with the next task.
Succeed(w) ==
    /\ worker[w].step = "request"
    /\ results' = Append(results, [idx |-> worker[w].task.idx, ok |-> TRUE])
    /\ TakesNext(w, tasks)
    /\ UNCHANGED <<caller, left, ordered, failed, refused>>

\* Faulty variant: one attempt too few.
AgainOneLess(t) == t.attempt + 2 < MaxRetries

Again(t) == t.attempt + 1 < MaxRetries

\* Faulty variant: the number of the attempt is not raised.
RetryUncounted(t) == t

Retry(t) == [t EXCEPT !.attempt = @ + 1]

\* The request raised: the task is queued again, or given up after MaxRetries.
Fail(w) ==
    LET t == worker[w].task
    IN  /\ worker[w].step = "request"
        /\ refused' = [refused EXCEPT ![t.idx] = IF @ < MaxRetries THEN @ + 1 ELSE @]
        /\ IF Again(t)
           THEN /\ TakesNext(w, Append(tasks, Retry(t)))
                /\ UNCHANGED results
           ELSE /\ results' = Append(results, [idx |-> t.idx, ok |-> FALSE])
                /\ TakesNext(w, tasks)
        /\ UNCHANGED <<caller, left, ordered, failed>>

\* The collector counts one result per sub-batch, then awaits the workers.
Collect ==
    /\ caller = "collect" /\ results # <<>>
    /\ results' = Tail(results)
    /\ LET r == Head(results)
       IN  IF r.ok THEN ordered' = ordered \cup {r.idx} /\ UNCHANGED failed
                   ELSE failed' = failed \cup {r.idx} /\ UNCHANGED ordered
    /\ left' = left - 1
    /\ caller' = IF left' = 0 THEN "gather" ELSE caller
    /\ UNCHANGED <<tasks, worker, refused>>

\* gather(*workers), then the vectors or the error.
Return ==
    /\ caller = "gather" /\ In({"gone"}) = Workers
    /\ caller' = IF failed = {} THEN "returned" ELSE "raised"
    /\ UNCHANGED <<tasks, worker, results, left, ordered, failed, refused>>

-----------------------------------------------------------------------------
(* batch_embedding: no worker, no queue *)

NoWorkers == UNCHANGED <<tasks, worker, results>>

SerialCall ==
    /\ caller \in {"idle", "returned", "raised"}
    /\ caller' = "serial"
    /\ left' = N /\ ordered' = {} /\ failed' = {}
    /\ refused' = [i \in SubBatches |-> 0]
    /\ NoWorkers

Sending == N - left
SendsNext(to) == caller = "serial" /\ left > 0 /\ to = Sending

\* Vectors of the right number and shape.
SerialSucceed ==
    \E i \in SubBatches :
        /\ SendsNext(i)
        /\ ordered' = ordered \cup {i}
        /\ left' = left - 1
        /\ UNCHANGED <<caller, failed, refused>>
        /\ NoWorkers

\* A RuntimeError: a refused connection, an error status, vectors of another
\* number or shape.
SerialFail ==
    \E i \in SubBatches :
        /\ SendsNext(i)
        /\ refused' = [refused EXCEPT ![i] = @ + 1]
        /\ IF Again([idx |-> i, attempt |-> refused[i]])
           THEN UNCHANGED <<left, failed>>
           ELSE left' = left - 1 /\ failed' = failed \cup {i}
        /\ UNCHANGED <<caller, ordered>>
        /\ NoWorkers

\* Any other exception, a timeout while the answer is read or an answer that is
\* not JSON, passes through the retry and ends the call.
SerialEscape ==
    /\ caller = "serial" /\ left > 0
    /\ caller' = "raised"
    /\ UNCHANGED <<left, ordered, failed, refused>>
    /\ NoWorkers

SerialReturn ==
    /\ caller = "serial" /\ left = 0
    /\ caller' = IF failed = {} THEN "returned" ELSE "raised"
    /\ UNCHANGED <<left, ordered, failed, refused>>
    /\ NoWorkers

SerialStep == SerialSucceed \/ SerialFail \/ SerialEscape \/ SerialReturn

-----------------------------------------------------------------------------

WorkerStep(w) == FirstTurn(w) \/ Acquire(w) \/ SendRequest(w) \/ Succeed(w) \/ Fail(w)

Next == \/ Call \/ Collect \/ Return \/ SerialCall \/ SerialStep
        \/ \E w \in Workers : WorkerStep(w)

\* The loop runs every ready coroutine and a request ends within its timeout.
FairSpec == /\ Init /\ [][Next]_vars
            /\ WF_vars(Collect) /\ WF_vars(Return) /\ WF_vars(SerialStep)
            /\ \A w \in Workers : WF_vars(WorkerStep(w))

Spec == Init /\ [][Next]_vars

-----------------------------------------------------------------------------
(* Properties *)

Holders == In({"gate", "slot", "request"})
Carried == {worker[w].task.idx : w \in Holders}
Queued  == {tasks[n].idx : n \in DOMAIN tasks}
Posted  == {results[n].idx : n \in DOMAIN results}

\* Until the collector has its result, every sub-batch is with one worker or in
\* the queue, and as many workers as tasks are queued have yet to take their
\* first one: no retry is left in the queue with nobody to pick it up, and the
\* collector waits for exactly what is still to come.
NoSubBatchStranded ==
    caller = "collect" =>
        /\ SubBatches = Carried \cup Queued \cup Posted \cup ordered \cup failed
        /\ Len(tasks) <= Cardinality(In({"new"}))
        /\ left = Cardinality(Carried \cup Queued) + Len(results)

\* A worker that holds the semaphore never waits for a thread.
NoSlotWaitsForThread == In({"slot"}) # {} => ThreadIsFree

\* A sub-batch is given up only after MaxRetries requests raised, one whose
\* vectors are kept had fewer, so that no sub-batch is both, and a call that
\* returns has the vectors of all of them.
FailureEarned ==
    /\ \A i \in failed  : refused[i] = MaxRetries
    /\ \A i \in ordered : refused[i] < MaxRetries
    /\ caller = "returned" => ordered = SubBatches

\* The semaphore has one slot for each thread.
SlotsBounded == Cardinality(In({"slot", "request"})) <= MaxConcurrent

\* No sub-batch is in two places: not with two workers, not queued or posted
\* twice, not queued while its answer is posted.
OnePlaceEach ==
    /\ \A w \in Holders : worker[w].task \in Task
    /\ \A v, w \in Holders : worker[v].task.idx = worker[w].task.idx => v = w
    /\ \A m, n \in DOMAIN tasks : tasks[m].idx = tasks[n].idx => m = n
    /\ \A m, n \in DOMAIN results : results[m].idx = results[n].idx => m = n
    /\ Carried \cap Queued = {} /\ (Carried \cup Queued) \cap Posted = {}
    /\ (Carried \cup Queued \cup Posted) \cap (ordered \cup failed) = {}

\* The attempt a task carries counts the requests of its sub-batch that raised.
AttemptsCounted ==
    /\ \A w \in Holders : refused[worker[w].task.idx] = worker[w].task.attempt
    /\ \A n \in DOMAIN tasks : refused[tasks[n].idx] = tasks[n].attempt
    /\ \A n \in DOMAIN results :
           IF results[n].ok THEN refused[results[n].idx] < MaxRetries
                            ELSE refused[results[n].idx] = MaxRetries

\* Nothing of a call is left when the collector has its last result, and no
\* coroutine when the call has ended: the next call starts from nothing.
NothingLeftOver ==
    /\ caller # "collect" => tasks = <<>> /\ results = <<>> /\ Holders = {}
    /\ caller \notin {"collect", "gather"} => In({"gone"}) = Workers
    /\ caller = "gather" => ordered \cup failed = SubBatches

\* batch_embedding has settled the sub-batches before the one it sends.
SerialProgress ==
    caller = "serial" =>
        /\ ordered \cup failed = {i \in SubBatches : i < Sending}
        /\ \A i \in SubBatches : i >= Sending => refused[i] < MaxRetries
        /\ \A i \in SubBatches : i > Sending => refused[i] = 0

\* Workers, queues and semaphore account for every sub-batch and every slot:
\* the inductive invariant of both calls.
EmbeddingInv ==
    /\ EmbeddingTypeOK
    /\ NoSubBatchStranded /\ OnePlaceEach /\ AttemptsCounted
    /\ NothingLeftOver /\ SerialProgress /\ FailureEarned
    /\ SlotsBounded /\ NoSlotWaitsForThread

Phase == IF caller \in {"collect", "gather"} THEN "concurrent" ELSE caller
Answered == ordered \cup {results[n].idx : n \in {m \in DOMAIN results : results[m].ok}}

\* The promise of EmbeddingCall, kept by either call: the server has answered a
\* sub-batch as soon as its vectors are posted, and whatever the queues, the
\* semaphore and the collector do in between, a sub-batch is asked for neither
\* after its answer nor more than MaxRetries times, the call returns only with
\* all the vectors, and the concurrent one raises only for a sub-batch that was
\* refused MaxRetries times, when nothing is left to ask for.
Promise == INSTANCE EmbeddingCall WITH phase <- Phase, answered <- Answered
KeepsPromise == Promise!Spec

\* Either call ends: the collector gets its results, the loop its answers.
CallEnds == caller \in {"collect", "serial"} ~> caller \in {"returned", "raised"}

\* A call raises only when it gave up a sub-batch after its retries, as its
\* error says.  a_batch_embedding keeps this, batch_embedding does not.
RaisesAfterRetries == caller = "raised" => failed # {}
=============================================================================
