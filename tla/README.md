# TLA+ verification of FatBB-agent

FatBB-agent turns a folder of recipe documents into labeled training data,
fine-tunes a small model on it, and answers questions over a knowledge base.
This directory holds TLA+ models of the parts where order, concurrency and
crashes decide whether the result is right, the TLC configurations that check
them on small instances, and TLAPS proofs for every value of the constants.
Paths below are relative to `src/src/`.

    tlc   -workers 2 -config labeling_crash.cfg MCDistributedLabeling.tla
    tlapm DistributedLabelingProofs.tla

## 1. The system

### Parts, their state and their operations

| part | state | operations | what makes it correct |
|---|---|---|---|
| distributed orchestrator `labeling/pipeline/distribute/orchestrator.py` | one process; batch, active set, attempt counts in memory | start-up (expire rows, expire items, discard abandoned tasks), sample, register, mark, enqueue, drain with a barrier, retry, reject | each recipe gets at most one label; the barrier never waits for what cannot come; every document is accounted for |
| Redis work queue `labeling/queue/redis_streams.py` | task and result stream, pending-entries lists, a deque of reclaimed deliveries per process | enqueue, dequeue (reclaim, then new), acknowledge, publish, consume, discard | nothing is lost while someone still waits for it |
| worker `labeling/pipeline/distribute/worker.py` | the task in hand | dequeue, label, publish | a result for every task it finishes |
| checkpoint store `labeling/checkpoint/file_store.py` | one JSON item per source | select, mark in flight, mark completed, rejected, pending, expire | the status tells the truth across restarts |
| dedup store `labeling/dedup/simhash_store.py` | SQLite table of fingerprints with its block index | register, update, expire, lookup | near-duplicates are found; an accepted row is permanent |
| sampler `labeling/sampling/sampler.py` | file iterator, in-memory dedup | next batch of unknown documents | no two near-duplicates in one run |
| batch pipelines `labeling/pipeline/orchestrator.py`, `labeling/bootstrap/orchestrator.py` | one process each; coroutines, staged labels | start-up, sample, label concurrently, repair, retry, give up, flush | as above, without a queue; transient trouble never rejects a document |
| labeling clients `labeling/clients/` | a semaphore | label, repair: a request, again after an empty reply | a slot is kept while the call backs off; the caller learns which failures are transient |
| embedding client `rag/client/ollama_embedding_client.py` | task and result queue, semaphore, thread pool | a batch call: workers, retries, collector; the same in sequence | every sub-batch ends in vectors or in an error, and the call ends |
| graph indexer and store `rag/indexers/graph_indexer.py`, `rag/stores/neo4j/` | graph, JSON checkpoint | map, resolve, fuse, write nodes, read and write edges, record, resume | what is recorded is in the graph; fusion takes nothing away |
| graph retriever, rank fusion `rag/retrievers/` | none | match on three channels, traverse from each match, order | a path is placed after the entity it starts from |
| chunk stores `rag/stores/postgres/`, indexers, loaders | one table of chunks | migrate, replace the chunks of documents, search | a base answers from all its chunks or from none, and from its own |
| markdown chunker `rag/chunkers/markdown_chunker.py` | none between calls | sections, paragraphs, hard cuts, merging | no text lost or doubled; the limit; the right heading |
| terminal interface `fatbb/cli/` | one `UiState` shared by the event loop and a background thread | key handling, pages and routes, creation, progress | one creation at a time; it ends; what the wizard submits is complete |
| knowledge-base service and catalog `fatbb/application/`, `fatbb/infrastructure/local/` | JSON catalog | create: migrate, save, import, index | names are unique; a failed creation leaves no rows |
| fine-tuning pipeline `labeling_sft/` | run directory, checkpoints, artifact store | build, train, resume, publish, export | a checkpoint is continued with its own data; only a whole adapter is exported |
| evaluator `labeling_sft/evaluators/ollama_evaluator.py` | manifest, append-only predictions | predict, resume, score | every example is counted once |
| validator, schemas, prompts, registry, other scripts | none of their own | pure functions, imports, reports | – |

### How they interact

The orchestrator is the only writer of both stores. It puts tasks in the task
stream; workers, any number of processes on any machine, read them and write
results to the result stream; the orchestrator reads results in `_drain_batch`
and applies each as two durable writes (row, then item). The batch pipelines
do without the streams: coroutines of one process label, and the labels of the
whole batch are flushed at the end. Every pipeline has its own checkpoint file
and all open the same dedup database. The knowledge-base service calls
importer and indexer on a background thread and reports progress by a callback
that writes the state the event loop also writes. Sessions of the interface are
processes of their own that share the catalog file and one database. The graph
build reads the accepted labels of the dedup store while labeling goes on, and
questions read the graph while it is built. Indexers call the embedding client:
the vector store its concurrent call, the graph store its sequential one.

### Where it is hard

Crashes between any two of the durable writes; results of an earlier run that
arrive in a later one; tasks reclaimed from a worker that is only slow; a
fingerprint looked up long before it is registered; lookups of several SELECTs
next to another process's transactions; retries that re-queue work behind
workers that are leaving; a state object written by two threads; a transaction
that waits for a lock another one holds; a node written back over what was read
a query ago. `PROJECT.json` lists each hazard at its line with the properties
that guard it; where the code does not prevent it, the note names the
configuration that shows so.

## 2. Modules

    LabelingStores        the two persistent stores, one operator per operation
      RedisWorkQueue      streams, consumer groups, workers' hands
        DistributedLabeling   the orchestrator, the workers and their crashes
          DistributedLabelingProofs
          MCDistributedLabeling
      BatchLabeling       bootstrap and production pipeline on shared rows
        BatchLabelingProofs
        MCBatchLabeling
    LabelLedger           what a labeling pipeline promises (abstract)
    SimHashIndex          the dedup store's tables, bit by bit, many processes
      SimHashIndexProofs
      MCSimHashIndex
    EmbeddingBatch        a_batch_embedding and batch_embedding
      RagProofs           (with the graph)
    EmbeddingCall         what such a call promises (abstract)
    FineTuning            the fine-tuning and evaluation commands on their files
      FineTuningProofs
      MCFineTuning
    CliIndexing           the terminal interface and its background thread
      CliIndexingProofs
    KnowledgeBase         creations in several sessions: catalog, table, locks
      KnowledgeBaseProofs
      MCKnowledgeBase
    KnowledgeShelf        what a creation promises to who asks (abstract)
    GraphIndex            the build of the knowledge graph and its checkpoint
      GraphSearch         questions to the graph while it is built
        RagProofs         (with the embedding client)
        MCGraphSearch
    MarkdownChunker       one document, loop by loop
      MarkdownChunkerProofs
      MCMarkdownChunker

**LabelingStores.** `items` is the checkpoint (`absent` = not in the file) and
`rows` the table of fingerprints. A fingerprint is a model value and `Near` the
relation "within the Hamming threshold", reflexive and symmetric but not
transitive. Each operator is one durable write: `FileCheckpointStore._persist`
replaces the file with `os.replace`, the dedup store commits one transaction,
and both are called without a suspension between change and write.

**RedisWorkQueue.** A message is in `tasks` (not delivered), in `pel`
(delivered, not acknowledged), or gone; `hand` and `shelf` are what a worker
process keeps in memory, which may outlive the acknowledgement. A stream is a
set, so a read may return any waiting message, which includes the stream's
order. `dequeue` with `count = 1`, as `run_default.py` starts the workers.
`SlowWorkers` says whether a live worker may be so slow that its task is
reclaimed (`reclaim_after_ms`). Redis does not fail.

**DistributedLabeling.** `pc` names the orchestrator's next durable step; a
step is everything up to the next one. `run` is `StartRun`, `ExpireStaleRows`,
`ExpireStaleItems`, `DiscardAbandoned`, then per batch `SampleBatch`,
`RegisterInFlight`, `MarkBatchInFlight`, `EnqueueBatch`, and the drain:
`Receive`, `Acknowledge`, then for each result `SkipResult`, or `AcceptResult`
and `CompleteItem`, or `RejectItem`, or `RetryPending`, `RetryInFlight`,
`RetryEnqueue`. `Crash` may fall between any two. `EditDocument` changes a
document's text while the pipeline runs. `FastRestart` says whether a run may
start within the second in which the last one died, since `expire_stale(0)`
compares timestamps of one second strictly.

**LabelLedger.** The promise of every labeling pipeline: `Accept` gives
fingerprints, one or a batch of them, each to an undecided document that has
none and apart from every label, old or new; `Complete` follows an accept,
`Reject` settles a document without one; nothing is ever taken back. Both
labelers map to it by `label`, `completed` and `rejected` (operator `Ledger`):
the distributed one a result at a time, the batch pipelines a batch at a time.

**BatchLabeling.** A source is a pair of pipeline and document, so that a
checkpoint is one pipeline's part of `items` while `rows` is shared. `job`
follows each coroutine of `_process_one` through label, repair and retry; the
flush after `gather` is `WriteLabels` and `CompleteBatch`. Bootstrap rejects a
document that failed every attempt unless one of the failures was transient;
production always defers. A call of the labeling client holds one of `Slots`
until it returns, also while it waits to ask again after an empty reply
(`empties`), so that a call that backs off keeps the other coroutines out.
`Wrapping` are the pipelines whose client turns 404, 502, 503 and 504 into the
`TransientError` that the bootstrap listens for: the Ollama client does, the
OpenAI client does not. `Overlap` says whether one pipeline may start while
another runs. A start drops in-flight rows but for any of them that may have been
registered in the same second (`ExpireStaleRows`): here every start may be quick.
`MCSpec` starts with one choice of texts of each kind (both documents alike, near
each other, far apart), the others being renamings.

**SimHashIndex.** A fingerprint is the set of its one-bits and `BlockOf` cuts
the bits into blocks. Several processes share the database. A write is alone
between its first statement and its commit (SQLite's write lock) and seen by
nobody before; a lookup is one SELECT per block and one for the rows, each on
the committed state of its moment. `draft` is the open transaction; a crash
drops it. The history variable `during` keeps which hashes were registered
throughout a lookup and which at some moment of it.

**EmbeddingBatch.** `_worker` from one suspension to the next: first turn,
semaphore, thread, answer. `Fail` re-queues or gives up, then takes the next
task in the same step, as the coroutine does. One call at a time: the only
caller of `a_batch_embedding`, the vector store's upsert, runs one at a time, so
that semaphore and shared pool have the same population. The graph store calls
`batch_embedding`, the loop without workers (`SerialSucceed`, `SerialFail`,
`SerialEscape`): it retries a `RuntimeError`, and any other exception leaves it.

**EmbeddingCall.** The promise of both calls to who waits for vectors: a
sub-batch is asked for until it is answered or was refused `MaxRetries` times,
never afterwards; the call returns when all are answered, and raises when all
are settled and one is not (the serial call possibly sooner). `EmbeddingBatch`
maps to it (operator `Promise`) by the vectors on their way to or read by the
collector and by the requests that raised.

**FineTuning.** One command at a time over one work directory; the variables
are its files, each with the outcomes a crash may leave: absent, torn, or the
lines written so far where a cut at the end of a line cannot be told from a
shorter file. The files that are replaced in one step (`training_result.json`,
`manifest.json`) are never torn. The database grows between and during the
runs, and the validation records are a function of its content, as the seeded
shuffle makes them. A training run is its number of steps and the examples it
has seen. `preds.tail` is the last line of the predictions file when the
evaluator died while it wrote it: unreadable, or whole without its newline.

**CliIndexing.** `ui` is `CliController.state`, an immutable record that the
event loop and the background thread both read, copy with changes and store. A
key is therefore several steps, one for each read of the state and one for each
store: `Observe` (the state that `update` works on), `Resolve` (the page of that
moment), `Count` (its items), `Commit` (the result is stored), and when an action
is raised `Run`, `Reread` where the handler reads twice (`set_database_url` asks
for the route before `_show` reads, `set_source_path` for the configuration before
its screen), and `Store`. The thread's `report_progress`, `_activate`,
`clear_progress` and `_creation_failed` are `TaskRead` and `TaskStore`. Pages,
menus and routes are those of `cli.toml`, and `ConfigLoads` is what
`CliConfig.__init__` checks of them. `locked` is `_indexing_lock`, taken by
`submit_background_indexing` without waiting and released in its `finally`. The
service is left open to what the interface sees: it saves the entry or not, and
returns or raises. The history variable `undone` notes that a store of the thread
put back fields that the user had filled in since its read, or the page from
before a submission.

**KnowledgeBase.** Several sessions, each with one `create` in progress:
the migration, reading the catalog, replacing it, loading the files, writing
the chunks, committing, returning. A migration is one transaction that holds a share lock
from `CREATE INDEX` on and needs an exclusive one for `ALTER TABLE`, so that two
first uses can wait for each other (`DeadlockAbort` is the server's answer). The
bm25 store replaces document by document, the vector store deletes all, embeds
with the transaction open, and writes. `Fail` ends a creation at any step: the
transaction is rolled back, the catalog keeps what it has. After the commit and
before the return a base has all its rows and is not created yet; a session that
dies there leaves it so (`indexed` and `returned`).

**KnowledgeShelf.** The promise of `create` to those who ask questions: a base
answers from nothing until, in one step, it answers from all its documents, for
good (`Fill`), and only then it is delivered (`Deliver`). `KnowledgeBase` maps to
it (operator `Shelf`) by the creations started and returned and by what a search
finds in the table.

**GraphIndex.** One label after the other: map to candidates; for each of them
(`FuseCandidate`) resolve it by identifier, name, alias and vector (`Matches`, in
that order) and fuse it into its canonical node; then redirect the edges, write
the nodes in one query, the edges in two per relation (read, write back
merged), and the checkpoint, truncated and then filled. The code resolves all
candidates of a document before it fuses the first; nobody else writes nodes and
none is written before the last is fused, so that resolving in the loop finds the
same. `Crash` falls between any two queries. Labels are accepted meanwhile. A
node keeps what decides how it is found and fused: label, name, aliases (a set),
source, and which documents contributed to it.

**GraphSearch.** `retrieve` query by query: one ranking per channel, rank
fusion, then a directed and an undirected traversal per match, and the evidence
in order. What ranks how within a channel is free. `Unit` is 1/(60 + rank) in
exact integers.

**MarkdownChunker.** A document is its printing characters in order, with the gap
before each (none, on the line, a new line, an empty line), the mark of the line it
starts (a heading, a fence) and its offset, and the offsets of its `" "` characters,
which a gap of any kind may have; sections, pieces and chunks are intervals of it,
so that stripping white space is taking the interval, and a length is a difference
of offsets. A hard cut is at the last `" "` that `rfind` sees, also in an
indentation, and never at a tab. Each loop of the code is an action that takes one
line, paragraph, cut or piece.

Definitions marked "Faulty variant" are never part of `Next`: each is a
plausible bug, and substituting it for the definition after it breaks the
property that `PROJECT.json` pairs it with.

## 3. Runs

| run | instance | shows |
|---|---|---|
| `labeling_crash` | 2 documents, 3 fingerprints of which two are near, 1 worker, 1 retry, 2 runs, 1 worker crash | the safety properties, the inductive invariants (`LabelingInv`, `BarrierInv`, and `AccountingInv` on top of them) and `ImplementsLedger` under crashes between any two steps |
| `labeling_slow` | 1 document edited once, 2 slow workers, 2 runs | reclaimed, duplicate and late deliveries never strand the barrier; `RunEnds` under fairness |
| `batch_labeling` | 2 pipelines taking turns, 2 documents, 1 slot, 1 empty reply, 3 runs in all | the same questions for the batch pipelines, the same ledger (`BatchImplementsLedger`), and `BatchRunEnds`; every start may be quick |
| `simhash_index` | 2 processes, 4 bits in 2 blocks, threshold 1, 3 fingerprints | index and rows agree, in the open transaction too; lookups are right next to any writes |
| `embedding` | 3 sub-batches, 2 slots, 3 attempts | no retry stranded, no slot without a thread, both calls do what `EmbeddingCall` promises (`KeepsPromise`) and end |
| `fine_tuning` | 3 documents, 2 steps, with and without the token cache, 2 crashes | resumed training, reuse of the adapter, resumed evaluation |
| `cli` | 3 contents of the input line, 2 creations, 5 overtakes | one creation at a time, which ends; the active base is loaded; what the wizard hands over passes the service's validation |
| `cli_stuck` | the same | finding: a late store brings the progress page back for good |
| `knowledge_base` | 2 sessions, 2 names, 4 source paths over 3 files of which one is not UTF-8, 2 chunks a file, 2 creations | a base is delivered whole and in one step (`CreatesAtomically`), names stay unique, every creation ends |
| `graph_build` | 3 documents that name one dish by name, alias and slug, 1 crash, 1 question | nothing recorded is missing, fusion only adds, the build ends, evidence is in order |
| `graph_redo` | the same without a question | finding: a document done again puts its dish in the graph twice |
| `chunker` | every document of 0, 1 and 4 printing characters, and of 6 without headings and fences but with tabs and indented lines; limit 5, minimum 3 | content, limit and headings; the inductive invariant |

Configurations on disk that are not runs end in a counterexample, each the one
that section 5 describes: `labeling_rejected`, `labeling_edited`,
`labeling_restart` (with `MCDistributedLabeling`), `batch_overlap`,
`bootstrap_wired` (`MCBatchLabeling`), `index_expiry` and `index_threshold`
(`MCSimHashIndex`), `sft_cache` (`MCFineTuning`), `embedding_timeout` (`EmbeddingBatch`).

### Bounds, and why they are enough

* `MaxRuns` counts orchestrator processes. Two runs are needed for anything to
  survive from one into the next; a third would meet the same store states
  again, since a run depends on earlier ones only through the stores, the
  streams and the workers. `batch_labeling` has three, so that each of two
  pipelines can follow the other and then itself.
* `Ids` bounds the messages about one task that exist at once; three suffice
  for the original, its reclaimed copy and a retry. Ids are reused.
* Two documents and three fingerprints give a pair of near-duplicates, a pair
  of distinct recipes, and two documents with one text. A batch of two holds
  both; a smaller last batch occurs too.
* `MaxEdits`, `MaxWorkerCrashes` are at most one: one late result, one lost
  hand. The proofs have neither bound (edits excepted, below).
* `simhash_index` has a pair that is near and shares one block only, one that
  shares a block and is too far, and one that shares none. Symmetry between
  the two processes is used; no liveness is checked there.
* `fine_tuning`: with three documents a second split can be larger than the
  first and a validation file can have two lines, one restored and one new;
  two steps give a checkpoint that is resumed and one that is newer. Two
  crashes: one in the training and one in the evaluation, or a second one
  while the damage of the first is there.
* `embedding` has more workers than slots, which is when they queue.
* `batch_labeling`: one slot for two coroutines, so that a call that backs off
  makes the other wait, and one empty reply before a call gives up on them.
* `cli`: the second creation is the one that is refused, or that follows a
  failed one. `Texts` are the empty line, the one that opens the palette, and
  any other; what the wizard stores of a text is whether it is blank.
  `MaxOvertakes` bounds how many events the user gets in between a read of the
  background thread and its store, or after the service returned: five, enough
  to leave a page, choose and fill the next, which is enough for a store of the
  thread to undo it (`undone`). What the property says is proved for any number of
  events. It has to leave `undone` out: from eleven events between two statements
  of the thread on, the user can walk so far into the wizard that a store which
  puts an earlier form back makes a later page hand over half of it. A run with
  ten finds no such walk.
* `knowledge_base`: two sessions are what locks and catalog can come between;
  the paths give a base of two files, one that shares a file with it, one whose
  load fails, and one without documents. Two creations bound identifiers: names
  may be equal, and a third one would meet a state the second one met.
* `graph_build`: dish and alias across documents, two ingredients whose names
  are similar, relations that make stubs, one document after another in either
  order, and a crash at each query. `TopK` is at most two so that ranks stay
  where `Unit` is exact.
* `chunker`: four characters with any gaps and marks make a section and the next
  one, a fence that is opened and closed, and a paragraph over the limit; six
  make a hard cut whose rest is cut again, and a piece short enough to be merged.
  The theorems have no bound.

`CHECK_DEADLOCK FALSE` stands where the system really stops: after its last run
or creation, after the last answer, after the last chunk. `simhash_index`,
`embedding` and `fine_tuning` check for deadlock.

### Fairness

`DistributedLabeling!FairSpec`: the orchestrator takes its next step (it is
one coroutine; every await is on Redis or a file), and a worker with work goes
on, because a model request ends by an answer or by the client's timeout and
both publish a result. Nothing obliges a document to be edited, a process to
die, or a live worker to be slow. `BatchLabeling!FairSpec` is the same with
coroutines (`MCSpec` has the same). `EmbeddingBatch!FairSpec`: the event loop runs every ready
coroutine, the sequential loop goes on, and a request ends within its timeout.
Starting a run is not fair in the batch model. `CliIndexing`: a handler that was
started goes on, and so does the thread (weak); the service's call returns or
raises at some point although progress reports come in between (strong, since
each report makes it wait). `KnowledgeBase`: a session goes on with its
creation; strong, because a lock can be free and taken again while others come
and go, and PostgreSQL grants locks in the order of the requests.
`GraphSearch`: the build is started again after a crash and goes on; questions
are not fair.

## 4. What is proved

Every safety and action property and every refinement that a passing run
checks is a theorem. The theorems hold for all values of the constants that
satisfy the named `ASSUME`s; where one needs more, the theorem says so, and a
configuration shows that it is needed. The invariant of a component is proved
inductive, one lemma per action; the properties follow from it.

### The distributed pipeline (`DistributedLabelingProofs`)

For any documents, fingerprints, `Near`, workers, message identifiers, batch
size, retries, runs and crashes:

* `TypeCorrect`, `BarrierInvariant` and `RejectionsAreEarned` have no further
  assumption: documents may be edited, workers slow, restarts quick.
* `LabelingInvariant` (`MaxEdits = 0`); from it `AcceptedStayApart`,
  `CompletedItemsHaveLabels`, `LabelsAreFinal`, and the refinement
  `PipelineImplementsLedger`.
* `AccountingInvariant` and `EverySourceAccounted` (`MaxEdits = 0` and
  `FastRestart = FALSE`): a run that ends has left nothing out.

The safety properties are not inductive. That an accepted result is no
near-duplicate of a label holds because its document was claimed by the batch
after a lookup, because claims of a batch are apart from each other, because
nothing else is accepted while the batch is open, and because a result that
arrives from an earlier run names the fingerprint the document still has. That
is `LabelingInv`: `Unedited` (every task anywhere in the system names the
current text), `ClaimPhases` (who is claimed in which phase), `ClaimsApart`,
`ClaimsOpen` (claimed items are undecided and record the fingerprint) and
`LabelsHaveOwners`. `labeling_edited` shows `CompletedIsLabeled` false when a
document changes between runs.

`BarrierInv` is about the wait: `ActiveNeverLost` (for each source that
`_drain_batch` waits for a task or a result is in a stream, in a hand, on a
shelf or being applied) needs `ClaimPhases`, since what is waited for depends on
the phase, and `BarrierMatchesCheckpoint` with it, since the three steps of a
retry take the item out of flight and back while the source stays active;
`AttemptsCounted` ties the orchestrator's counter to them, so that only a
document whose attempts are used up is rejected. `AccountingInv` adds
`RowsHaveReasons` (an in-flight row belongs to a claim, a retry or a rejection
of this run, whose item says so) and `SourcesAccounted` (what the iterator has
yielded is settled, or near a row with a reason). `labeling_restart` shows that
`FastRestart = FALSE` is needed: rows that a quick restart does not expire have
no reason.

### The batch pipelines (`BatchLabelingProofs`)

For any pipelines, documents, batch size, slots, retries and runs:

* `CoreInvariant`: types, what a batch holds, and that the items of its
  documents follow their coroutines, also with pipelines that overlap: no
  pipeline touches another one's checkpoint.
* `RejectionsAreFair`, also with overlaps and whatever client is wired: a document
  at one of whose attempts the client raised `TransientError` is not rejected. Not
  inductive without `TroublesNoted`: what the loop variable `_transient` remembers
  of earlier attempts. The stronger promise, that a server which is away rejects
  nothing (`UnavailableIsDeferred`), is false with the client that is wired:
  `bootstrap_wired`.
* `StoreInvariant`, `LabelsStayApart`, `RunsLeaveNothingOut` and the refinement
  `BatchPipelinesImplementLedger`, assuming `Overlap = FALSE`; `batch_overlap`
  shows what overlapping start-ups do to each other. The invariant has to say
  which fingerprints are about to get a row (`BatchHasRows`: unknown until they
  are registered), whose text a row is (`RowsNameSuppliers`), and what the
  sampler's memory stands for (`SourcesLookedAt`).
* `BatchInvariant` puts both together, assuming `Overlap = FALSE`: `BatchInv`,
  which the run checks. A client that wraps can also fail with an error of another
  kind, so that what the run's client does includes what one that never wraps does.

Of a step of the batch pipelines only three change the ledger: `WriteLabels` is
one `Accept` of the whole batch, `CompleteBatch` one `Complete`, `GiveUp` a
`Reject`; every other step is proved to leave labels and verdicts alone.

### The dedup store's tables (`SimHashIndexProofs`)

For any processes, bits, blocks, fingerprints:

* `IndexTypeCorrect`, and `IndexConsistent`: the index is always exactly the
  entries of the committed rows. `IndexInv` is inductive because `TablesAgree`
  says the same of the open transaction, which the next commit publishes.
* `SharedBlock`: two hashes that differ in fewer bits than there are blocks
  share a block (an injection from blocks to differing bits).
* `LookupMissesNothing`, assuming `Threshold < Cardinality(Blocks)`, and
  `LookupInventsNothing`. The invariant `LookupProgress` says that the blocks
  queried so far have yielded every hash registered throughout that shares one
  of them with an input. With a threshold of the number of blocks the
  property is false: two hashes may differ in every block (`index_threshold`).
* `LoneExpirySparesAccepted` bounds the finding of `index_expiry`: the
  `expire_stale` of a process that has the database to itself never deletes an
  accepted row. `SparesAccepted` says that what it has selected is still in
  flight, and that no transaction about to commit drops an accepted row.

### The embedding client (`RagProofs`)

`EmbeddingInvariant` and `FailuresEarned`, for any number of sub-batches, slots
and attempts. The parts of `EmbeddingInv` need each other: that a retry is never
left in the queue with no worker to take it (`NoSubBatchStranded`) counts
workers that have not left against sub-batches that are not done, which is right
because each of those is in one place (`OnePlaceEach`); that a coroutine with
the semaphore finds a thread (`NoSlotWaitsForThread`) needs the count of
slots (`SlotsBounded`); that a failure took exactly `MaxRetries` requests needs
the attempts of what is still queued (`AttemptsCounted`).

`ClientKeepsPromise` is the refinement of `EmbeddingCall`. Turns of the workers,
the semaphore, the queue and the collector stutter: a vector counts as answered
when the worker posts it, and the collector only moves it. `Succeed` is an
`Answer` and `Fail` a `Refuse` of a sub-batch that may still be asked for, because
the sub-batch in a worker's hands is in no other place and has been refused as
often as its attempt says. The client returns once all results are read, and
raises only after that, which is where the counting of `EmbeddingInv` is needed:
all workers have left, so nothing is unsettled. The serial loop asks for the
least unsettled sub-batch, since those before it are answered.

### The graph and its questions (`RagProofs`)

For any documents, names, similarities, rankings, crashes and questions:

* `CheckpointedIsInGraph`: what the checkpoint names is in the graph. `GraphInv`
  has the types of nodes and edges, this for the recorded documents, and where
  the builder stands: which candidates are fused and as what (`Fused`), that the
  identifiers redirected so far lead to nodes that answer to their names
  (`Moved`), and, once nodes and edges are written, that those of the current
  document are there. It is inductive because a node, once found under a name,
  is found under it for ever: fusing keeps source and documents and only adds
  names, and the one name a node can lose is a stub's, whose slug is its
  identifier. The proof speaks of `GraphInv` as a predicate of the values it
  constrains (`OKStores`, `OKBuilder`), so that a step is a change of arguments.
* `FusionAdds`: the nodes are written as computed before the query, and the edges
  as read one query ago; nothing is lost, since what was read is still in the
  store when it is written back.
* `PathsFollowTheirSeeds`: `Descending` is shown to be a permutation that sorts by
  score and keeps the order of equals, a neighbourhood to contain its seed, and
  its score to be the best of the matched entities on it (`BestOnPath`). The
  invariant of a question is `SearchInv`: each seed is an entity of the evidence,
  and the neighbourhood under way holds its seed, whatever the build writes
  between the match and the two traversals.

### Fine-tuning and evaluation (`FineTuningProofs`)

For any documents, steps and crashes: `FilesInvariant`, from it
`TrainingKeepsData`, `ExportsTheReusable`, `PredictionsMatch` and
`ReportsCover`. The four properties of the run hold together or not at all, and
`FilesInv` is their conjunction: a command reads files of earlier commands that
may have died, so what one phase may leave in a file is what every later phase
has to expect. `TrainingInv` groups the parts about the split, the cache, the
checkpoints and the adapter, `EvaluationInv` those about the manifest, the
predictions and the report; the steps of one command leave the other's group
alone. `MarksAssumption` keeps the two marks of a file that is missing or torn
apart from what a file can hold.

`UncachedTrainsOnItsSplit` bounds the finding of `sft_cache`: with
`dataset_cache` off, a training has learned from the `train.jsonl` that lies
there. It needs `StepsLearned` besides: what a training in memory has learned
from once it has made a step.

### The terminal interface (`CliIndexingProofs`)

`CliInvariant`: `CliInv` for any configuration that loads (`ConfigLoads`), any texts
and any number of creations and overtakes. Both threads store states that they read
earlier, so every part of the invariant speaks of the copies as well:
`LockGuardsTask` and `ActiveIsLoaded` hold of the shown state only because they hold
of what the handler has read (`seen`), of what it is about to store, and of what the
thread holds. `CatalogIsBounded`: the catalog is never longer than the creations
started, and shorter while the base being created is not listed; `ChoiceIsThere`:
the handler of a menu about to store has a choice. `NoneAssumption` keeps the mark
of absence apart from pages and texts.

`WizardSatisfies` has no hypothesis: for any number of events between two steps of
the thread, what is handed to the service is complete unless a store of the thread
undid what the user had done (`undone`). `WizardInv` says why, until that happens:
every page that is shown, or that a handler is about to show, has the fields filled
that come before it (`LoopEarned`), and so has every state the thread holds and may
store (`TaskEarned`); while the service works the progress page is shown, which
takes no key, so that nobody fills in a field (`ProgressPageShown`). The steps of
the handler need it of both reads, since the route of `set_database_url` is taken
from one and the fields that are stored from the other.

### The knowledge-base service (`KnowledgeBaseProofs`)

For any sessions, names, files, paths and creations, without further
assumption: `KbInvariant`, `IndexWholeOrAbsent`, and the refinement
`ServiceImplementsShelf`. Names stay unique although the catalog is read and
replaced without a lock because what a session has read lacks the name it adds
(`ReadsAreKeyed`): an entry may be lost, never doubled. A commit delivers one base because an
open transaction holds exactly the chunks of the documents it is done with
(`TransactionsHold`), because identifiers are given out once
(`CreationsApart`), and because committed rows are those of creations that
committed, whole (`TableIsWhole`), whether they returned or died before.

`LoneSessionKeepsEntries`: with one session the entry of a base whose creation
returned stays in the catalog, since what the session has read is what the file
still holds when it replaces it. With two sessions that is false (section 5).

### The chunker (`MarkdownChunkerProofs`)

For any set of documents, limit and minimum:

* `ChunkerInvariant`: `Spec => []ChunkerInv`. From it `ChunksKeepContent` (the
  chunks cover the printing characters in order, each once) and
  `ChunksKeepLimit`.

Only what the chunks are at the end matters to a caller, but it is not
inductive: `SectionsFollow`, `PiecesFollow` and `MergedFollow` say, for each loop,
that what it has put out ends where what it holds (the current paragraph, the
rest of a hard cut, the pending piece) begins, and that this ends where the
input not yet taken begins; `LengthsFit` is the limit of everything that a later
loop may put out. The lemmas `ChainAppend` and `ChainTail` say what adding and
taking an interval does to such a chain.

* `ChunksUnderTheirHeading`: the path of a chunk ends with the last heading up to
  its text, code blocks apart, and is the exact path in a document that skips no
  level. `HeadingInv` says it of the stack while the sections are read
  (`HeadingsRead`), then of the sections (`SectionsUnder`), of the pieces cut from
  them (`PiecesUnder`, `CutInside`), and merging keeps the path of the first piece.
  Which code blocks hide a heading is a recursive function over the lines
  (`Fenced`). That it has a value at every line, and that lines without a marker
  leave a block as it is, would be an induction; the proof takes the least line
  where it fails instead (`LeastExists`, from the library's fact that the naturals
  are well-founded), which needs no induction theorem.

### Assumptions, and what is only model-checked

Assumptions are the named `ASSUME`s of the modules (`StoresAssumption`,
`QueueAssumption`, `LabelingAssumption`, `BatchAssumption`, `IndexAssumption`,
`EmbeddingAssumption`, `FineTuningAssumption`, `MarksAssumption`,
`CliAssumption`, `CliConfigAssumption`, `NoneAssumption`,
`KnowledgeBaseAssumption`, `GraphAssumption`, `GraphSearchAssumption`,
`ChunkerAssumption`), which TLC evaluates in every
run, and the hypotheses named above.

Only model-checked are

* the liveness properties `RunEnds`, `BatchRunEnds`, `CallEnds`, `IndexingEnds`,
  `CreationsEnd` and `AcceptedIsRecorded`: fairness is out of the prover's reach;
* the violated properties of section 5, except where a theorem says in which
  configurations they hold.

## 5. Findings

The first two have a run that ends in the counterexample and an entry in
`PROJECT.json` with the quoted line; the others have a configuration each.

1. `cli_stuck` – `_apply` stores what `update` computed from an earlier read.
   When the thread leaves the progress page in between, the handler puts it
   back, without a task: the page ignores every key and Ctrl-C, and stays.
2. `graph_redo` – a dish fused by an alias into a node of another slug, and a
   stub of its own slug from a relation of the same document: done again after
   a crash, the document resolves to the stub, and the dish is there twice.
3. `labeling_rejected` – REJECTED is final: `select_pending` passes over the item
   and nothing resets it, while `labeling/interfaces/checkpoint_store.py:22, :32`
   and `:169-170` say that it gets another chance on the next run. No run states the
   finality as a property; `LabelLedger` lets a verdict stand because the code does.
4. `labeling_edited` – `_drain_batch` compares only `source_id`; the late
   result of a document's old text completes the item of its new text.
5. `labeling_restart` – `expire_stale(0)` does not expire a row of the current
   second; a quick restart skips the documents and ends.
6. `batch_overlap` – a pipeline's start-up expires the other's live rows, and
   lookup and registration are separate: registration before processing does
   not prevent concurrent duplicates.
7. `index_expiry` – `expire_stale` selects, then deletes by hash: a row
   accepted in between goes with its label.
8. `sft_cache` – the tokenized cache is loaded whenever it exists: after a run
   that died before its first checkpoint the next one builds a new split,
   trains on the old one, and the new validation file may hold examples the
   adapter was trained on.
9. `bootstrap_wired` (`UnavailableIsDeferred`) –
   `labeling/bootstrap/orchestrator.py:127-129` says that 404, 502, 503 and 504
   reset an item to PENDING; `run_default` wires the OpenAI client, which never
   raises `TransientError`, so that a server which is away rejects documents for
   good.
10. `embedding_timeout` – `batch_embedding` retries a `RuntimeError`; a timeout
    while the answer is read, or an answer that is not JSON, ends the batch at
    its first occurrence, although the docstring speaks of transient errors.

11. `index_threshold` – the number of blocks of the dedup index is fixed at four
    while thresholds up to fifteen are accepted: the comment at
    `labeling/dedup/simhash_store.py:37`, "threshold + 1 (pigeonhole guarantee)",
    holds for the default only, and with more a near-duplicate can be missed.

Seen while modelling, without a run: a token cache or a checkpoint
directory that a crash left torn makes every re-run fail until it is deleted;
an exported model is not rebuilt from new labels, because the marker compares
the base model and the target only; a prediction appended after a cut-off line
is lost with it and generated again at the next resume; `expire_stale` of the
checkpoint deletes items and with them the attempt counter the interface says
is preserved;
`HashStatus.REJECTED` is never written; `discard_pending` also acknowledges
what live workers hold, which the models include; the docstring of the
production `_process_one` (`labeling/pipeline/orchestrator.py:147-149`) says "or
marked rejected on permanent failure" while the code always marks pending;
the target of a batch run counts failures and includes the holdout.

In the interface: the active knowledge base shown and the one that answers can
differ for good after a torn store; a menu handler whose page was changed under
it may index past its menu, and the exception leaves the handler;
`fatbb/cli/actions.py:153-154` calls a second creation "silently ignored", which
moves the screen to the progress page first. In the service: `CreatedIsListed`
and `TakenNameIsIndexed` of `KnowledgeBase` state what
`knowledge_base_service.py:46-49` says of saved entries; both are false, since a
session may replace the catalog by what it read before another one's entry, and
a creation that failed after saving leaves its name taken. In the chunker: a
heading two levels below the one before it nests its siblings ("# T", "### X",
"### Z" gives T/X/Z), which is why `ChunkUnderItsHeading` asks for the exact path
only in documents that skip no level. In rank fusion: `rag/utils/rrf.py` says that an
item seen by several channels beats one seen once, which two ranks beyond sixty
do not.

## 6. Abstractions and what is not modelled

* A document's text is its fingerprint. Extraction, normalisation,
  tokenization and bit voting (`recipe_card_hash`) are free: any document may
  have any fingerprint.
* Label contents, prompts and validation are a free choice of outcome.
* `discard_pending` is one step, though it pages through the list; a deque of
  reclaimed entries is a set; a failing write to disk is not modelled, and
  SQLite's busy timeout only as a process that dies.
* `BatchLabeling`: the semaphore lets any waiting coroutine in, not the first;
  a call that its first reply settles is one step.
* `FineTuning`: the Trainer of transformers is external and may save or delete
  checkpoints at any step; `dataset_cache` does not change between runs; bits
  that a crash leaves inside a file are `Torn`, which also stands for a line
  cut inside a character (that evaluation cannot be resumed, which is a step
  not taken). Scores and loss are left out.
* `CliIndexing`: wording, transcript, scroll offset and progress line are left out;
  a store that changes only them is still a step that stores the rest. The up to
  three reads in `items` of a menu page are one (`Count`), and a page without items
  counts as one that has one. Exceptions of `retrieve` that no handler catches end
  the program and are not followed. The thread's reads and stores of one record are
  atomic, as they are under the interpreter's lock.
* `KnowledgeBase`: table locks stand for PostgreSQL's lock manager; rows of
  different documents never conflict, because an identifier contains the base's.
  Ranking inside PostgreSQL is a set of candidates.
* `GraphIndex`, `GraphSearch`: one build at a time; the vector index answers
  exactly (`Similar`, `Near`), where Neo4j's is approximate; every node and edge
  is assumed to carry properties, so that stubs are exactly the candidates
  without; where names and aliases share a dictionary key, either node may be
  the one found. The order of the aliases on a node is left out. `slug` is imported
  from `rag/models/graph.py`, which is not in the repository (`models/` is ignored
  by git): of it only what the prompts and `../scripts/validate_labels.py:47` say is
  assumed, and that names equal up to case have one slug (`GraphAssumption`).
  Fusion's fractions are exact below rank six.
* `MarkdownChunker`: a marked character stands for its whole marker (`##`,
  three backticks); heading levels one to three of six; the digest of a chunk's
  identifier is left out.
* The migration of old tables in `SimHashDedupStore.__init__` is left out: it
  runs once, before anything else. So are operations without a caller in the
  program (`delete_documents`, `upsert_chunks`, `delete_by_document_ids`).
* Not modelled at all, for the reasons in `PROJECT.json`: prompts, schemas and
  the output validator, the registry's imports, the single-document command,
  the validation script. They keep no state between calls and meet no other
  actor.

## 7. Plan

Done: the components of section 2, their safety properties proved, four
refinements (`LabelLedger` twice, `KnowledgeShelf`, `EmbeddingCall`), and theorems
that bound the findings of `sft_cache`, `index_expiry`, `labeling_edited`,
`labeling_restart`, `batch_overlap` and `bootstrap_wired`. What could be added:

1. An abstract specification of the evaluator (an example is predicted once,
   whatever is resumed) with its refinement.
2. A theorem that bounds `graph_redo`, say for labels whose dishes are found
   under their own slug only.
