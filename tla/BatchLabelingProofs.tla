------------------------ MODULE BatchLabelingProofs ------------------------
(***************************************************************************)
(* Proofs about BatchLabeling, for any pipelines, documents, fingerprints, *)
(* batch size, retries, slots and any number of runs and crashes.          *)
(***************************************************************************)
EXTENDS BatchLabeling, FiniteSetTheorems, TLAPS

-----------------------------------------------------------------------------
(* Sources, tasks and jobs *)

LEMMA TaskFields ==
    ASSUME NEW t \in Task
    PROVE  t.source \in Sources /\ t.hash \in Hashes /\ t = [source |-> t.source, hash |-> t.hash]
BY DEF Task

\* A source belongs to one pipeline and has the fingerprint of its document.
LEMMA SourceParts ==
    ASSUME BatchTypeOK
    PROVE  /\ \A p \in Pipelines : Owned(p) \subseteq Sources
           /\ \A p \in Pipelines : \A s \in Sources : s \in Owned(p) <=> s[1] = p
           /\ \A s \in Sources : s[1] \in Pipelines /\ Hash(s) \in Hashes
BY BatchAssumption DEF BatchTypeOK, Owned, Hash

LEMMA JobsTyped ==
    /\ NoJob \in Job /\ FirstJob \in Job
    /\ NoJob.step = "none" /\ FirstJob.step = "label" /\ FirstJob.transient = FALSE
<1>1. 0 \in 0..Retries /\ 0 \in 0..EmptyRetries
  BY BatchAssumption
<1>2. NoJob \in Job /\ NoJob.step = "none" /\ NoJob.transient = FALSE
  BY <1>1 DEF NoJob, Job
<1>3. FirstJob \in Job
  BY <1>2 DEF FirstJob, Job
<1>4. FirstJob.step = "label" /\ FirstJob.transient = FALSE
  BY <1>2 DEF FirstJob, Job
<1> QED BY <1>2, <1>3, <1>4

\* A pipeline's own record of where each process is.
LEMMA GoToSets ==
    ASSUME pc \in [Pipelines -> PCs], NEW p \in Pipelines, NEW place \in PCs, GoTo(p, place)
    PROVE  /\ pc' \in [Pipelines -> PCs] /\ pc'[p] = place
           /\ \A q \in Pipelines \ {p} : pc'[q] = pc[q]
BY DEF GoTo

LEMMA SetJobsSets ==
    ASSUME job \in [Sources -> Job], NEW S, NEW j \in Job, SetJobs(S, j)
    PROVE  /\ job' \in [Sources -> Job]
           /\ \A s \in Sources : job'[s] = IF s \in S THEN j ELSE job[s]
BY DEF SetJobs

-----------------------------------------------------------------------------
(* The stores *)

\* Tasks of different sources give each its fingerprint.
LEMMA MarkInFlightSets ==
    ASSUME items \in [Sources -> Item], NEW ts \in SUBSET Task,
           \A t, u \in ts : t.source = u.source => t = u, MarkInFlight(ts)
    PROVE  /\ items' \in [Sources -> Item]
           /\ \A t \in ts : items'[t.source].status = "in_flight" /\ items'[t.source].hash = t.hash
           /\ \A s \in Sources : (\A t \in ts : t.source # s) => items'[s] = items[s]
<1>1. ASSUME NEW t \in ts
      PROVE  items'[t.source] = [status |-> "in_flight",
                                 attempts |-> items[t.source].attempts + 1, hash |-> t.hash]
  <2>1. t.source \in Sources
    BY TaskFields
  <2>2. (CHOOSE u \in ts : u.source = t.source) = t
    OBVIOUS
  <2> QED BY <2>1, <2>2 DEF MarkInFlight
<1>2. ASSUME NEW s \in Sources, \A t \in ts : t.source # s PROVE items'[s] = items[s]
  BY <1>2 DEF MarkInFlight
<1>3. ASSUME NEW s \in Sources PROVE items'[s] \in Item
  <2>1. CASE \E t \in ts : t.source = s
    <3>1. PICK t \in ts : t.source = s
      BY <2>1
    <3>2. t.hash \in Hashes /\ items[s].attempts + 1 \in Nat
      BY TaskFields DEF Item
    <3>3. items'[s] = [status |-> "in_flight", attempts |-> items[s].attempts + 1, hash |-> t.hash]
      BY <1>1, <3>1
    <3> QED BY <3>2, <3>3 DEF Item, ItemStatus
  <2>2. CASE \A t \in ts : t.source # s
    BY <1>2, <2>2
  <2> QED BY <2>1, <2>2
<1>4. items' \in [Sources -> Item]
  BY <1>3 DEF MarkInFlight
<1>5. \A t \in ts : items'[t.source].status = "in_flight" /\ items'[t.source].hash = t.hash
  <2> TAKE t \in ts
  <2>1. items'[t.source] = [status |-> "in_flight",
                            attempts |-> items[t.source].attempts + 1, hash |-> t.hash]
    BY <1>1
  <2> QED BY <2>1
<1> QED BY <1>2, <1>4, <1>5

LEMMA MarkItemSets ==
    ASSUME items \in [Sources -> Item], NEW s \in Sources, NEW status \in ItemStatus,
           MarkItem(s, status)
    PROVE  /\ items' \in [Sources -> Item]
           /\ items'[s].status = status /\ items'[s].hash = items[s].hash
           /\ \A u \in Sources \ {s} : items'[u] = items[u]
BY DEF MarkItem, Item

\* Tasks of different fingerprints get a row each; the other rows stay.
LEMMA RegisterBatchSets ==
    ASSUME rows \in [Hashes -> Row], NEW ts \in SUBSET Task, NEW status \in HashStatus,
           \A t, u \in ts : t.hash = u.hash => t = u, RegisterBatch(ts, status)
    PROVE  /\ rows' \in [Hashes -> Row]
           /\ \A t \in ts : rows'[t.hash] = [status |-> status, source |-> t.source]
           /\ \A h \in Hashes : (\A t \in ts : t.hash # h) => rows'[h] = rows[h]
<1>1. ASSUME NEW t \in ts PROVE rows'[t.hash] = [status |-> status, source |-> t.source]
  <2>1. t.hash \in Hashes
    BY TaskFields
  <2>2. (CHOOSE u \in ts : u.hash = t.hash) = t
    OBVIOUS
  <2> QED BY <2>1, <2>2 DEF RegisterBatch
<1>2. ASSUME NEW h \in Hashes, \A t \in ts : t.hash # h PROVE rows'[h] = rows[h]
  BY <1>2 DEF RegisterBatch
<1>3. ASSUME NEW h \in Hashes PROVE rows'[h] \in Row
  <2>1. CASE \E t \in ts : t.hash = h
    <3>1. PICK t \in ts : t.hash = h
      BY <2>1
    <3>2. rows'[h] = [status |-> status, source |-> t.source] /\ t.source \in Sources
      BY <1>1, <3>1, TaskFields
    <3> QED BY <3>2 DEF Row
  <2>2. CASE \A t \in ts : t.hash # h
    BY <1>2, <2>2
  <2> QED BY <2>1, <2>2
<1>4. rows' \in [Hashes -> Row]
  BY <1>3 DEF RegisterBatch
<1> QED BY <1>1, <1>2, <1>4

\* Starting up deletes in-flight rows, perhaps not all of them, and nothing else.
LEMMA ExpireRowsSets ==
    ASSUME rows \in [Hashes -> Row], NEW kept, ExpireRows(kept)
    PROVE  /\ rows' \in [Hashes -> Row]
           /\ \A h \in Hashes : \/ rows'[h] = rows[h]
                                \/ rows[h].status = "in_flight" /\ rows'[h] = AbsentRow
BY DEF ExpireRows, Row, HashStatus, AbsentRow

LEMMA ExpireItemsSets ==
    ASSUME items \in [Sources -> Item], NEW owned, ExpireItems(owned)
    PROVE  /\ items' \in [Sources -> Item]
           /\ \A s \in Sources : IF s \in owned /\ items[s].status = "in_flight"
                                 THEN items'[s] = AbsentItem ELSE items'[s] = items[s]
BY DEF ExpireItems, Item, ItemStatus, AbsentItem

\* What a batch yields becomes or stays pending, unless it is settled.
LEMMA SelectPendingSets ==
    ASSUME items \in [Sources -> Item], NEW B, SelectPending(B)
    PROVE  /\ items' \in [Sources -> Item]
           /\ \A s \in Sources \ B : items'[s] = items[s]
           /\ \A s \in Sources \cap B :
                 IF items[s].status \in {"completed", "rejected"} THEN items'[s] = items[s]
                                                                 ELSE items'[s].status = "pending"
<1>1. \A s \in Sources : items[s].status \in ItemStatus
  BY DEF Item
<1>2. items' \in [Sources -> Item]
  BY DEF SelectPending, Item, ItemStatus, NewItem
<1>3. \A s \in Sources \ B : items'[s] = items[s]
  BY DEF SelectPending
<1>4. ASSUME NEW s \in Sources \cap B
      PROVE  IF items[s].status \in {"completed", "rejected"} THEN items'[s] = items[s]
                                                              ELSE items'[s].status = "pending"
  <2>1. items[s] \in Item
    OBVIOUS
  <2> QED BY <1>1, <2>1 DEF SelectPending, NewItem, Item, ItemStatus
<1> QED BY <1>2, <1>3, <1>4

-----------------------------------------------------------------------------
(* A batch *)

\* The tasks of a batch have a source and a fingerprint of their own.
LEMMA BatchFacts ==
    ASSUME BatchTypeOK, NEW p \in Pipelines, BatchFormed(p)
    PROVE  /\ batch[p] \subseteq Task
           /\ BatchSources(p) \subseteq Owned(p) /\ BatchSources(p) \subseteq Sources
           /\ \A t \in batch[p] : t.source \in BatchSources(p)
           /\ \A t, u \in batch[p] : t.source = u.source => t = u
           /\ \A t, u \in batch[p] : t.hash = u.hash => t = u
<1>1. batch[p] \subseteq Task
  BY DEF BatchTypeOK
<1>2. \A t \in batch[p] : t.source \in Owned(p) /\ t.hash = Hash(t.source) /\ t.hash \in Hashes
  BY <1>1, TaskFields DEF BatchFormed
<1>3. BatchSources(p) \subseteq Owned(p) /\ BatchSources(p) \subseteq Sources
  BY <1>2, SourceParts DEF BatchSources
<1>4. \A t \in batch[p] : t.source \in BatchSources(p)
  BY DEF BatchSources
<1>5. ASSUME NEW t \in batch[p], NEW u \in batch[p], t.source = u.source PROVE t = u
  <2>1. t.hash = u.hash
    BY <1>2, <1>5
  <2>2. t = [source |-> t.source, hash |-> t.hash] /\ u = [source |-> u.source, hash |-> u.hash]
    BY <1>1, TaskFields
  <2> QED BY <1>5, <2>1, <2>2
<1>6. ASSUME NEW t \in batch[p], NEW u \in batch[p], t.hash = u.hash PROVE t = u
  BY <1>2, <1>6, StoresAssumption DEF BatchFormed
<1> QED BY <1>1, <1>3, <1>4, <1>5, <1>6

\* A batch is finite, so its outcomes can be counted.
LEMMA BatchIsFinite ==
    ASSUME BatchTypeOK, NEW p \in Pipelines, BatchFormed(p)
    PROVE  IsFiniteSet(batch[p]) /\ Cardinality(batch[p]) \in Nat
<1> DEFINE f == [t \in batch[p] |-> t.source]
<1>1. IsFiniteSet(Owned(p))
  <2>1. IsFiniteSet({p}) /\ IsFiniteSet(Documents)
    BY FS_Singleton, BatchAssumption
  <2> QED BY <2>1, FS_Product DEF Owned
<1>2. f \in Injection(batch[p], Owned(p))
  <2>1. f \in [batch[p] -> Owned(p)]
    BY DEF BatchFormed
  <2>2. \A t, u \in batch[p] : f[t] = f[u] => t = u
    BY BatchFacts
  <2> QED BY <2>1, <2>2 DEF Injection, IsInjective
<1> HIDE DEF f
<1>3. IsFiniteSet(batch[p])
  BY <1>1, <1>2, FS_Injection
<1> QED BY <1>3, FS_CardinalityType

\* The documents of one pipeline are not those of another.
LEMMA OwnedApart ==
    ASSUME NEW p \in Pipelines, NEW q \in Pipelines \ {p}
    PROVE  Owned(p) \cap Owned(q) = {}
BY DEF Owned

-----------------------------------------------------------------------------
(* What one step of a pipeline does *)

\* A step of p touches nothing that belongs to another pipeline.
Others(p) ==
    /\ text' = text
    /\ \A q \in Pipelines \ {p} :
          /\ pc'[q] = pc[q] /\ todo'[q] = todo[q] /\ seen'[q] = seen[q] /\ batch'[q] = batch[q]
          /\ \A s \in Owned(q) :
                items'[s] = items[s] /\ job'[s] = job[s] /\ (s \in troubled' <=> s \in troubled)

\* The part of the invariant that holds whatever overlaps.
CoreInv ==
    /\ BatchTypeOK
    /\ \A p \in Pipelines : BatchFormed(p) /\ ItemsMatchJobs(p)

LEMMA OthersKeepCore ==
    ASSUME CoreInv, NEW p \in Pipelines, Others(p),
           NEW q \in Pipelines \ {p}
    PROVE  BatchFormed(q)' /\ ItemsMatchJobs(q)'
<1> USE DEF CoreInv
<1>1. batch[q]' = batch[q] /\ pc[q]' = pc[q] /\ todo[q]' = todo[q] /\ text' = text
  BY DEF Others
<1>2. \A t \in batch[q] : t.source \in Owned(q)
  BY DEF BatchFormed
<1>3. \A t \in batch[q] : items[t.source]' = items[t.source] /\ job[t.source]' = job[t.source]
  BY <1>2 DEF Others
<1>4. BatchFormed(q) /\ ItemsMatchJobs(q)
  OBVIOUS
<1>5. BatchFormed(q)'
  BY <1>1, <1>4 DEF BatchFormed, Hash
<1>6. ItemsMatchJobs(q)'
  BY <1>1, <1>3, <1>4 DEF ItemsMatchJobs
<1> QED BY <1>5, <1>6

LEMMA StartRunCore ==
    ASSUME CoreInv, NEW p \in Pipelines, StartRun(p)
    PROVE  CoreInv' /\ Others(p)
<1> USE DEF CoreInv
<1>1. /\ pc' \in [Pipelines -> PCs] /\ pc'[p] = "expire_rows"
      /\ \A q \in Pipelines \ {p} : pc'[q] = pc[q]
  BY GoToSets DEF StartRun, BatchTypeOK, PCs
<1>2. BatchTypeOK'
  <2>1. runs' \in 0..MaxRuns
    BY BatchAssumption DEF StartRun, BatchTypeOK
  <2>2. todo' \in [Pipelines -> SUBSET Sources]
    BY SourceParts DEF StartRun, BatchTypeOK
  <2>3. processed' \in [Pipelines -> Nat]
    BY DEF StartRun, BatchTypeOK
  <2> QED BY <1>1, <2>1, <2>2, <2>3 DEF StartRun, BatchTypeOK, storeVars, StoresTypeOK
<1>3. Others(p)
  BY <1>1 DEF StartRun, Others, storeVars, BatchTypeOK
<1>4. batch'[p] = {} /\ todo'[p] = Owned(p)
  BY DEF StartRun, Stopped, BatchFormed, BatchTypeOK
<1>5. BatchFormed(p)' /\ ItemsMatchJobs(p)'
  BY <1>1, <1>4 DEF BatchFormed, ItemsMatchJobs
<1> QED BY <1>2, <1>3, <1>5, OthersKeepCore

LEMMA ExpireStaleRowsCore ==
    ASSUME CoreInv, NEW p \in Pipelines, ExpireStaleRows(p)
    PROVE  CoreInv' /\ Others(p)
<1> USE DEF CoreInv
<1>1. /\ pc' \in [Pipelines -> PCs] /\ pc'[p] = "expire_items"
      /\ \A q \in Pipelines \ {p} : pc'[q] = pc[q]
  BY GoToSets DEF ExpireStaleRows, BatchTypeOK, PCs
<1>2. BatchTypeOK'
  BY <1>1, ExpireRowsSets DEF ExpireStaleRows, procVars, BatchTypeOK, StoresTypeOK
<1>3. Others(p)
  BY <1>1 DEF ExpireStaleRows, procVars, Others
<1>4. batch'[p] = {} /\ todo'[p] \subseteq Owned(p)
  BY DEF ExpireStaleRows, procVars, BatchFormed
<1>5. BatchFormed(p)' /\ ItemsMatchJobs(p)'
  BY <1>1, <1>4 DEF BatchFormed, ItemsMatchJobs
<1> QED BY <1>2, <1>3, <1>5, OthersKeepCore

LEMMA ExpireStaleItemsCore ==
    ASSUME CoreInv, NEW p \in Pipelines, ExpireStaleItems(p)
    PROVE  CoreInv' /\ Others(p)
<1> USE DEF CoreInv
<1>1. /\ pc' \in [Pipelines -> PCs] /\ pc'[p] = "sample"
      /\ \A q \in Pipelines \ {p} : pc'[q] = pc[q]
  BY GoToSets DEF ExpireStaleItems, BatchTypeOK, PCs
<1>2. /\ items' \in [Sources -> Item]
      /\ \A s \in Sources \ Owned(p) : items'[s] = items[s]
  BY ExpireItemsSets DEF ExpireStaleItems, BatchTypeOK, StoresTypeOK
<1>3. BatchTypeOK'
  BY <1>1, <1>2 DEF ExpireStaleItems, procVars, BatchTypeOK, StoresTypeOK
<1>4. Others(p)
  BY <1>1, <1>2, OwnedApart, SourceParts DEF ExpireStaleItems, procVars, Others
<1>5. batch'[p] = {} /\ todo'[p] \subseteq Owned(p)
  BY DEF ExpireStaleItems, procVars, BatchFormed
<1>6. BatchFormed(p)' /\ ItemsMatchJobs(p)'
  BY <1>1, <1>5 DEF BatchFormed, ItemsMatchJobs
<1> QED BY <1>3, <1>4, <1>6, OthersKeepCore

\* What the sampler does with a chunk B of the documents, chosen those it keeps.
Samples(p, B, chosen) ==
    /\ B \subseteq todo[p] /\ chosen \subseteq Ready(B) /\ IsFresh(p, chosen, B)
    /\ SelectPending(B)
    /\ todo' = [todo EXCEPT ![p] = @ \ B]
    /\ batch' = [batch EXCEPT ![p] = {[source |-> s, hash |-> Hash(s)] : s \in chosen}]
    /\ seen' = [seen EXCEPT ![p] = @ \cup {Hash(s) : s \in chosen}]
    /\ GoTo(p, IF chosen = {} THEN "sample" ELSE "register")

LEMMA SampleBatchCore ==
    ASSUME CoreInv, NEW p \in Pipelines, SampleBatch(p)
    PROVE  CoreInv' /\ Others(p)
<1> USE DEF CoreInv
<1>1. PICK B \in SUBSET todo[p], chosen \in SUBSET todo[p] : Samples(p, B, chosen)
  BY DEF SampleBatch, Samples
<1>2. /\ pc' \in [Pipelines -> PCs] /\ \A q \in Pipelines \ {p} : pc'[q] = pc[q]
      /\ pc'[p] = IF chosen = {} THEN "sample" ELSE "register"
  BY <1>1, GoToSets DEF Samples, BatchTypeOK, PCs
<1>3. chosen \subseteq Owned(p) /\ chosen \subseteq Sources /\ B \subseteq Owned(p)
  BY SourceParts DEF BatchFormed
<1>4. /\ items' \in [Sources -> Item]
      /\ \A s \in Sources \ Owned(p) : items'[s] = items[s]
  BY <1>1, <1>3, SelectPendingSets DEF Samples, BatchTypeOK, StoresTypeOK
<1> DEFINE new == {[source |-> s, hash |-> Hash(s)] : s \in chosen}
<1>5. new \subseteq Task
  BY <1>3, SourceParts DEF Task
<1>6. batch' = [batch EXCEPT ![p] = new]
  BY <1>1 DEF Samples
<1>7. \A t \in new : t.source \in chosen /\ t.hash = Hash(t.source)
  OBVIOUS
<1>8. \A t, u \in new : t # u => <<t.hash, u.hash>> \notin Near
  <2> TAKE t, u \in new
  <2> HAVE t # u
  <2>1. t.source # u.source
    BY <1>5, <1>7, TaskFields
  <2> QED BY <1>1, <1>7, <2>1 DEF Samples, IsFresh
<1>9. new = {} <=> chosen = {}
  OBVIOUS
<1> HIDE DEF new
<1>10. BatchTypeOK'
  <2>1. seen' \in [Pipelines -> SUBSET Hashes]
    BY <1>1, <1>3, SourceParts DEF Samples, BatchTypeOK
  <2>2. todo' \in [Pipelines -> SUBSET Sources] /\ batch' \in [Pipelines -> SUBSET Task]
    BY <1>1, <1>5, <1>6 DEF Samples, BatchTypeOK
  <2> QED BY <1>2, <1>4, <2>1, <2>2 DEF SampleBatch, BatchTypeOK, StoresTypeOK
<1>11. Others(p)
  <2>1. text' = text /\ job' = job /\ troubled' = troubled
    BY DEF SampleBatch
  <2>2. \A q \in Pipelines \ {p} : todo'[q] = todo[q] /\ seen'[q] = seen[q] /\ batch'[q] = batch[q]
    BY <1>1 DEF Samples, BatchTypeOK
  <2>3. \A q \in Pipelines \ {p} : \A s \in Owned(q) : items'[s] = items[s]
    BY <1>4, OwnedApart, SourceParts
  <2> QED BY <1>2, <2>1, <2>2, <2>3 DEF Others
<1>12. BatchFormed(p)' /\ ItemsMatchJobs(p)'
  <2>1. batch'[p] = new /\ text' = text /\ todo'[p] \subseteq Owned(p)
    BY <1>1, <1>6 DEF Samples, SampleBatch, BatchTypeOK, BatchFormed
  <2>2. BatchFormed(p)'
    BY <1>2, <1>3, <1>7, <1>8, <1>9, <2>1 DEF BatchFormed, Hash
  <2>3. \A t \in new : items'[t.source].status = "pending"
    <3> TAKE t \in new
    <3>1. t.source \in Sources \cap B /\ items[t.source].status \in {"absent", "pending"}
      BY <1>1, <1>3, <1>7 DEF Samples, Ready
    <3> QED BY <1>1, <3>1, SelectPendingSets DEF Samples, BatchTypeOK, StoresTypeOK
  <2>4. ItemsMatchJobs(p)'
    BY <1>2, <2>1, <2>3 DEF ItemsMatchJobs
  <2> QED BY <2>2, <2>4
<1> QED BY <1>10, <1>11, <1>12, OthersKeepCore

LEMMA FinishRunCore ==
    ASSUME CoreInv, NEW p \in Pipelines, FinishRun(p)
    PROVE  CoreInv' /\ Others(p)
<1> USE DEF CoreInv
<1>1. /\ pc' \in [Pipelines -> PCs] /\ pc'[p] = "done"
      /\ \A q \in Pipelines \ {p} : pc'[q] = pc[q]
  BY GoToSets DEF FinishRun, BatchTypeOK, PCs
<1>2. BatchTypeOK'
  BY <1>1 DEF FinishRun, storeVars, BatchTypeOK, StoresTypeOK
<1>3. Others(p)
  BY <1>1 DEF FinishRun, storeVars, Others, BatchTypeOK
<1>4. batch'[p] = {} /\ todo'[p] \subseteq Owned(p)
  BY DEF FinishRun, BatchFormed
<1>5. BatchFormed(p)' /\ ItemsMatchJobs(p)'
  BY <1>1, <1>4 DEF BatchFormed, ItemsMatchJobs
<1> QED BY <1>2, <1>3, <1>5, OthersKeepCore

LEMMA RegisterInFlightCore ==
    ASSUME CoreInv, NEW p \in Pipelines, RegisterInFlight(p)
    PROVE  CoreInv' /\ Others(p)
<1> USE DEF CoreInv
<1>1. /\ pc' \in [Pipelines -> PCs] /\ pc'[p] = "mark"
      /\ \A q \in Pipelines \ {p} : pc'[q] = pc[q]
  BY GoToSets DEF RegisterInFlight, BatchTypeOK, PCs
<1>2. rows' \in [Hashes -> Row]
  BY RegisterBatchSets, BatchFacts DEF RegisterInFlight, BatchTypeOK, StoresTypeOK, HashStatus
<1>3. BatchTypeOK'
  BY <1>1, <1>2 DEF RegisterInFlight, procVars, BatchTypeOK, StoresTypeOK
<1>4. Others(p)
  BY <1>1 DEF RegisterInFlight, procVars, Others
<1>5. BatchFormed(p)' /\ ItemsMatchJobs(p)'
  BY <1>1 DEF RegisterInFlight, procVars, BatchFormed, ItemsMatchJobs, Hash
<1> QED BY <1>3, <1>4, <1>5, OthersKeepCore

LEMMA MarkBatchInFlightCore ==
    ASSUME CoreInv, NEW p \in Pipelines, MarkBatchInFlight(p)
    PROVE  CoreInv' /\ Others(p)
<1> USE DEF CoreInv
<1>1. /\ pc' \in [Pipelines -> PCs] /\ pc'[p] = "label"
      /\ \A q \in Pipelines \ {p} : pc'[q] = pc[q]
  BY GoToSets DEF MarkBatchInFlight, BatchTypeOK, PCs
<1>2. /\ batch[p] \in SUBSET Task
      /\ \A t, u \in batch[p] : t.source = u.source => t = u
      /\ BatchSources(p) \subseteq Owned(p)
      /\ \A t \in batch[p] : t.source \in BatchSources(p)
  BY BatchFacts
<1>3. /\ items' \in [Sources -> Item]
      /\ \A t \in batch[p] : items'[t.source].status = "in_flight"
      /\ \A s \in Sources : (\A t \in batch[p] : t.source # s) => items'[s] = items[s]
  BY <1>2, MarkInFlightSets DEF MarkBatchInFlight, BatchTypeOK, StoresTypeOK
<1>4. /\ job' \in [Sources -> Job]
      /\ \A s \in Sources : job'[s] = IF s \in BatchSources(p) THEN FirstJob ELSE job[s]
  BY SetJobsSets, JobsTyped DEF MarkBatchInFlight, BatchTypeOK
<1>5. BatchTypeOK'
  BY <1>1, <1>3, <1>4 DEF MarkBatchInFlight, BatchTypeOK, StoresTypeOK
<1>6. Others(p)
  <2>1. text' = text /\ todo' = todo /\ seen' = seen /\ batch' = batch
    BY DEF MarkBatchInFlight
  <2>2. ASSUME NEW q \in Pipelines \ {p}, NEW s \in Owned(q)
        PROVE  items'[s] = items[s] /\ job'[s] = job[s] /\ (s \in troubled' <=> s \in troubled)
    <3>1. s \in Sources /\ s \notin BatchSources(p)
      BY <1>2, SourceParts, OwnedApart
    <3>2. \A t \in batch[p] : t.source # s
      BY <1>2, <3>1
    <3> QED BY <1>3, <1>4, <3>1, <3>2 DEF MarkBatchInFlight
  <2> QED BY <1>1, <2>1, <2>2 DEF Others
<1>7. BatchFormed(p)'
  BY <1>1 DEF MarkBatchInFlight, BatchFormed, Hash
<1>8. ItemsMatchJobs(p)'
  <2>1. \A t \in batch[p] : t.source \in Sources
    BY <1>2, TaskFields
  <2>2. \A t \in batch[p] : job'[t.source].step = "label"
    BY <1>2, <1>4, <2>1, JobsTyped
  <2>3. batch' = batch
    BY DEF MarkBatchInFlight
  <2>4. \A t \in batch'[p] : items'[t.source].status = "in_flight" /\ job'[t.source].step = "label"
    BY <1>3, <2>2, <2>3
  <2> QED BY <1>1, <2>4 DEF ItemsMatchJobs
<1> QED BY <1>5, <1>6, <1>7, <1>8, OthersKeepCore

\* What a step of a coroutine does: its own job and its own item, and it either
\* goes on, has its label, or gave up.
Moves(p, s) ==
    /\ pc[p] = "label" /\ s \in BatchSources(p) /\ job[s].step \in {"label", "repair"}
    /\ UNCHANGED <<rows, text, pc, todo, seen, batch, processed, runs>>
    /\ job' \in [Sources -> Job] /\ items' \in [Sources -> Item] /\ troubled' \subseteq Sources
    /\ items'[s].hash = items[s].hash
    /\ \A u \in Sources \ {s} :
          job'[u] = job[u] /\ items'[u] = items[u] /\ (u \in troubled' <=> u \in troubled)
    /\ \/ items' = items /\ job'[s].step \in {"label", "repair", "labeled"}
       \/ items'[s].status = "pending" /\ job'[s].step = "deferred"
       \/ items'[s].status = "rejected" /\ job'[s].step = "failed"

\* What a bootstrap coroutine remembers: an attempt at which its client raised
\* TransientError is noted when it is tried again, and no document is rejected
\* after one.
Notes(p, s) ==
    /\ p \in Bootstraps /\ s \in Raised' /\ job'[s].step \in {"label", "repair"} =>
          job'[s].transient
    /\ job'[s].step = "failed" => s \notin Raised'

LEMMA ReturnsTyped ==
    ASSUME job \in [Sources -> Job], NEW s \in Sources,
           NEW step \in {"label", "repair", "labeled", "deferred", "failed"}
    PROVE  /\ Returns(s, step) \in Job /\ Returns(s, step).step = step
           /\ Returns(s, step).transient = job[s].transient
           /\ Returns(s, step).attempt = job[s].attempt
<1>1. 0 \in 0..EmptyRetries /\ job[s] \in Job
  BY BatchAssumption
<1> QED BY <1>1 DEF Returns, Job

\* A job that is replaced leaves the others.
LEMMA JobMoves ==
    ASSUME job \in [Sources -> Job], NEW s \in Sources, NEW j \in Job,
           job' = [job EXCEPT ![s] = j]
    PROVE  /\ job' \in [Sources -> Job] /\ job'[s] = j
           /\ \A u \in Sources \ {s} : job'[u] = job[u]
OBVIOUS

\* A call is made for a document of the batch.
LEMMA InCallFacts ==
    ASSUME CoreInv, NEW p \in Pipelines, NEW s, InCall(p, s)
    PROVE  /\ pc[p] = "label" /\ s \in BatchSources(p) /\ job[s].step \in {"label", "repair"}
           /\ s \in Sources /\ s \in Owned(p)
BY BatchFacts DEF InCall, At, CoreInv

LEMMA EmptyReplyMoves ==
    ASSUME CoreInv, NEW p \in Pipelines, NEW s, EmptyReply(p, s)
    PROVE  Moves(p, s)
<1>1. InCall(p, s)
  BY DEF EmptyReply
<1>2. job \in [Sources -> Job] /\ s \in Sources /\ job[s].step \in {"label", "repair"}
  BY <1>1, InCallFacts DEF CoreInv, BatchTypeOK
<1> DEFINE j == [job[s] EXCEPT !.empties = @ + 1]
<1>3. j \in Job /\ j.step = job[s].step
  <2>1. job[s] \in Job /\ job[s].empties + 1 \in 0..EmptyRetries
    BY <1>2, BatchAssumption DEF EmptyReply, Job
  <2> QED BY <2>1 DEF Job
<1>4. job' = [job EXCEPT ![s] = j]
  BY <1>2 DEF EmptyReply
<1> HIDE DEF j
<1>5. job' \in [Sources -> Job] /\ job'[s] = j /\ \A u \in Sources \ {s} : job'[u] = job[u]
  BY <1>2, <1>3, <1>4, JobMoves
<1>6. UNCHANGED <<storeVars, text, pc, todo, seen, batch, processed, runs, troubled>>
  BY DEF EmptyReply, jobOnly
<1> QED BY <1>1, <1>2, <1>3, <1>5, <1>6, InCallFacts
        DEF Moves, storeVars, CoreInv, BatchTypeOK, StoresTypeOK

LEMMA GetsLabelMoves ==
    ASSUME CoreInv, NEW p \in Pipelines, NEW s, GetsLabel(p, s)
    PROVE  Moves(p, s)
<1>1. InCall(p, s)
  BY DEF GetsLabel
<1>2. job \in [Sources -> Job] /\ s \in Sources /\ job[s].step \in {"label", "repair"}
  BY <1>1, InCallFacts DEF CoreInv, BatchTypeOK
<1>3. Returns(s, "labeled") \in Job /\ Returns(s, "labeled").step = "labeled"
  BY <1>2, ReturnsTyped
<1>4. /\ job' \in [Sources -> Job] /\ job'[s] = Returns(s, "labeled")
      /\ \A u \in Sources \ {s} : job'[u] = job[u]
  BY <1>2, <1>3, JobMoves DEF GetsLabel
<1>5. UNCHANGED <<storeVars, text, pc, todo, seen, batch, processed, runs, troubled>>
  BY DEF GetsLabel, jobOnly
<1> QED BY <1>1, <1>2, <1>3, <1>4, <1>5, InCallFacts
        DEF Moves, storeVars, CoreInv, BatchTypeOK, StoresTypeOK

LEMMA StartRepairMoves ==
    ASSUME CoreInv, NEW p \in Pipelines, NEW s, StartRepair(p, s)
    PROVE  Moves(p, s)
<1>1. InCall(p, s)
  BY DEF StartRepair
<1>2. job \in [Sources -> Job] /\ s \in Sources /\ job[s].step \in {"label", "repair"}
  BY <1>1, InCallFacts DEF CoreInv, BatchTypeOK
<1>3. Returns(s, "repair") \in Job /\ Returns(s, "repair").step = "repair"
  BY <1>2, ReturnsTyped
<1>4. /\ job' \in [Sources -> Job] /\ job'[s] = Returns(s, "repair")
      /\ \A u \in Sources \ {s} : job'[u] = job[u]
  BY <1>2, <1>3, JobMoves DEF StartRepair
<1>5. UNCHANGED <<storeVars, text, pc, todo, seen, batch, processed, runs, troubled>>
  BY DEF StartRepair, jobOnly
<1> QED BY <1>1, <1>2, <1>3, <1>4, <1>5, InCallFacts
        DEF Moves, storeVars, CoreInv, BatchTypeOK, StoresTypeOK

LEMMA RetryMoves ==
    ASSUME CoreInv, NEW p \in Pipelines, NEW s, NEW failure, Retry(p, s, failure)
    PROVE  /\ Moves(p, s) /\ job'[s].step = "label"
           /\ job'[s].transient = Noted(p, s, failure)
<1>1. InCall(p, s)
  BY DEF Retry, FailedAttempt
<1>2. job \in [Sources -> Job] /\ s \in Sources /\ job[s].step \in {"label", "repair"}
  BY <1>1, InCallFacts DEF CoreInv, BatchTypeOK
<1>3. Returns(s, "label") \in Job /\ Returns(s, "label").attempt = job[s].attempt
  BY <1>2, ReturnsTyped
<1> DEFINE r == Returns(s, "label")
           j == [r EXCEPT !.attempt = @ + 1, !.transient = Noted(p, s, failure)]
<1>4. j \in Job /\ j.step = "label" /\ j.transient = Noted(p, s, failure)
  <2>1. Returns(s, "label").attempt + 1 \in 0..Retries
    <3>1. job[s].attempt \in 0..Retries
      BY <1>2 DEF Job
    <3> QED BY <1>3, <3>1, BatchAssumption DEF Retry
  <2>2. Noted(p, s, failure) \in BOOLEAN
    BY <1>2 DEF Noted, Job
  <2>3. Returns(s, "label").step = "label"
    BY <1>2, ReturnsTyped
  <2> QED BY <1>3, <2>1, <2>2, <2>3 DEF Job
<1>5. job' = [job EXCEPT ![s] = j]
  BY DEF Retry
<1> HIDE DEF j
<1>6. job' \in [Sources -> Job] /\ job'[s] = j /\ \A u \in Sources \ {s} : job'[u] = job[u]
  BY <1>2, <1>4, <1>5, JobMoves
<1>7. troubled' \subseteq Sources /\ \A u \in Sources \ {s} : u \in troubled' <=> u \in troubled
  BY <1>2 DEF Retry, FailedAttempt, CoreInv, BatchTypeOK
<1>8. UNCHANGED <<storeVars, text, pc, todo, seen, batch, processed, runs>>
  BY DEF Retry
<1>9. Moves(p, s)
  BY <1>1, <1>2, <1>4, <1>6, <1>7, <1>8, InCallFacts
  DEF Moves, storeVars, CoreInv, BatchTypeOK, StoresTypeOK
<1> QED BY <1>4, <1>6, <1>9

LEMMA GiveUpMoves ==
    ASSUME CoreInv, NEW p \in Pipelines, NEW s, NEW failure, GiveUp(p, s, failure)
    PROVE  /\ Moves(p, s)
           /\ job'[s].step = IF Deferred(p, s, failure) THEN "deferred" ELSE "failed"
<1>1. InCall(p, s)
  BY DEF GiveUp, FailedAttempt
<1>2. job \in [Sources -> Job] /\ s \in Sources /\ job[s].step \in {"label", "repair"}
  BY <1>1, InCallFacts DEF CoreInv, BatchTypeOK
<1> DEFINE step == GivenUp(p, s, failure)
           status == IF Deferred(p, s, failure) THEN "pending" ELSE "rejected"
<1>3. Returns(s, step) \in Job /\ Returns(s, step).step = step
  BY <1>2, ReturnsTyped DEF GivenUp
<1>4. /\ job' \in [Sources -> Job] /\ job'[s] = Returns(s, step)
      /\ \A u \in Sources \ {s} : job'[u] = job[u]
  BY <1>2, <1>3, JobMoves DEF GiveUp
<1>5. /\ items' \in [Sources -> Item]
      /\ items'[s].status = status /\ items'[s].hash = items[s].hash
      /\ \A u \in Sources \ {s} : items'[u] = items[u]
  <2>1. status \in ItemStatus /\ MarkItem(s, status) /\ items \in [Sources -> Item]
    BY DEF GiveUp, ItemStatus, CoreInv, BatchTypeOK, StoresTypeOK
  <2> HIDE DEF status
  <2> QED BY <1>2, <2>1, MarkItemSets
<1>6. troubled' \subseteq Sources /\ \A u \in Sources \ {s} : u \in troubled' <=> u \in troubled
  BY <1>2 DEF GiveUp, FailedAttempt, CoreInv, BatchTypeOK
<1>7. UNCHANGED <<rows, text, pc, todo, seen, batch, processed, runs>>
  BY DEF GiveUp
<1>8. job'[s].step = IF Deferred(p, s, failure) THEN "deferred" ELSE "failed"
  BY <1>3, <1>4 DEF GivenUp
<1>9. \/ items'[s].status = "pending" /\ job'[s].step = "deferred"
      \/ items'[s].status = "rejected" /\ job'[s].step = "failed"
  BY <1>5, <1>8
<1>10. Moves(p, s)
  BY <1>1, <1>2, <1>4, <1>5, <1>6, <1>7, <1>9, InCallFacts DEF Moves
<1> QED BY <1>8, <1>10

LEMMA CoroutineMoves ==
    ASSUME CoreInv, NEW p \in Pipelines, NEW s, Coroutine(p, s)
    PROVE  Moves(p, s)
BY EmptyReplyMoves, GetsLabelMoves, StartRepairMoves, RetryMoves, GiveUpMoves DEF Coroutine

\* A source of p has its client.
LEMMA RaisedSources ==
    ASSUME NEW p \in Pipelines, NEW s \in Owned(p)
    PROVE  /\ s \in Raised <=> s \in troubled /\ p \in Wrapping
           /\ s \in Raised' <=> s \in troubled' /\ p \in Wrapping
BY DEF Raised, Owned

LEMMA CoroutineNotes ==
    ASSUME CoreInv, NEW p \in Pipelines, TroublesNoted(p), NEW s, Coroutine(p, s)
    PROVE  Notes(p, s)
<1>1. Moves(p, s)
  BY CoroutineMoves
<1>2. job \in [Sources -> Job] /\ s \in Sources /\ pc[p] = "label" /\ job[s] \in Job
  BY <1>1, BatchFacts DEF Moves, CoreInv, BatchTypeOK
<1>3. /\ s \in Raised <=> s \in troubled /\ p \in Wrapping
      /\ s \in Raised' <=> s \in troubled' /\ p \in Wrapping
  <2>1. s \in Owned(p)
    BY <1>1, BatchFacts DEF Moves, CoreInv
  <2> QED BY <2>1, RaisedSources
<1>4. p \in Bootstraps /\ s \in Raised => job[s].transient
  <2>1. PICK t \in batch[p] : t.source = s
    BY <1>1 DEF Moves, BatchSources
  <2> QED BY <1>1, <1>2, <2>1 DEF TroublesNoted, Moves
<1>5. CASE EmptyReply(p, s)
  <2>1. job'[s].transient = job[s].transient /\ job'[s].step = job[s].step /\ troubled' = troubled
    BY <1>2, <1>5 DEF EmptyReply, jobOnly, Job
  <2> QED BY <1>1, <1>3, <1>4, <2>1 DEF Notes, Moves
<1>6. CASE GetsLabel(p, s)
  <2>1. job'[s].step = "labeled"
    BY <1>2, <1>6, ReturnsTyped DEF GetsLabel
  <2> QED BY <2>1 DEF Notes
<1>7. CASE StartRepair(p, s)
  <2>1. job'[s].transient = job[s].transient /\ job'[s].step = "repair" /\ troubled' = troubled
    BY <1>2, <1>7, ReturnsTyped DEF StartRepair, jobOnly
  <2> QED BY <1>3, <1>4, <2>1 DEF Notes
<1>8. ASSUME NEW failure \in Failures(p, s), FailedAttempt(p, s, failure)
      PROVE  p \in Bootstraps /\ s \in Raised' => Noted(p, s, failure)
  BY <1>3, <1>4, <1>8 DEF FailedAttempt, Noted, Transient
<1>9. ASSUME NEW failure \in Failures(p, s), Retry(p, s, failure) PROVE Notes(p, s)
  <2>1. job'[s].step = "label" /\ job'[s].transient = Noted(p, s, failure)
    BY <1>9, RetryMoves
  <2>2. FailedAttempt(p, s, failure)
    BY <1>9 DEF Retry
  <2> QED BY <1>8, <2>1, <2>2 DEF Notes
<1>10. ASSUME NEW failure \in Failures(p, s), GiveUp(p, s, failure) PROVE Notes(p, s)
  <2>1. job'[s].step = IF Deferred(p, s, failure) THEN "deferred" ELSE "failed"
    BY <1>10, GiveUpMoves
  <2>2. FailedAttempt(p, s, failure)
    BY <1>10 DEF GiveUp
  <2> QED BY <1>8, <2>1, <2>2 DEF Notes, Deferred
<1> QED BY <1>5, <1>6, <1>7, <1>9, <1>10 DEF Coroutine

LEMMA MovesCore ==
    ASSUME CoreInv, NEW p \in Pipelines, NEW s, Moves(p, s)
    PROVE  CoreInv' /\ Others(p)
<1> USE DEF CoreInv
<1>1. /\ s \in Owned(p) /\ s \in Sources /\ batch[p] \subseteq Task
      /\ \A t, u \in batch[p] : t.source = u.source => t = u
  BY BatchFacts DEF Moves
<1>2. BatchTypeOK'
  BY DEF Moves, BatchTypeOK, StoresTypeOK
<1>3. Others(p)
  BY <1>1, OwnedApart, SourceParts DEF Moves, Others
<1>4. BatchFormed(p)'
  BY DEF Moves, BatchFormed, Hash
<1>5. ItemsMatchJobs(p)'
  <2>1. SUFFICES ASSUME NEW t \in batch[p]
                 PROVE  items'[t.source].status =
                          CASE job'[t.source].step = "deferred" -> "pending"
                            [] job'[t.source].step = "failed" -> "rejected"
                            [] OTHER -> "in_flight"
    BY DEF ItemsMatchJobs, Moves
  <2>2. t.source \in Sources
    BY <1>1, TaskFields
  <2>3. items[t.source].status = CASE job[t.source].step = "deferred" -> "pending"
                                   [] job[t.source].step = "failed" -> "rejected"
                                   [] OTHER -> "in_flight"
    BY DEF ItemsMatchJobs, Moves
  <2>4. CASE t.source # s
    BY <2>2, <2>3, <2>4 DEF Moves
  <2>5. CASE t.source = s
    BY <2>3, <2>5 DEF Moves
  <2> QED BY <2>4, <2>5
<1> QED BY <1>2, <1>3, <1>4, <1>5, OthersKeepCore

\* What ends a batch: it is counted, and the pipeline samples again or, once it
\* has seen enough, stops.
LEMMA NextBatchSets ==
    ASSUME CoreInv, NEW p \in Pipelines, NextBatch(p)
    PROVE  /\ pc' \in [Pipelines -> PCs] /\ processed' \in [Pipelines -> Nat]
           /\ batch' \in [Pipelines -> SUBSET Task] /\ job' \in [Sources -> Job]
           /\ seen' \in [Pipelines -> SUBSET Hashes] /\ todo' \in [Pipelines -> SUBSET Sources]
           /\ batch'[p] = {}
           /\ \/ pc'[p] = "sample" /\ seen'[p] = seen[p] /\ todo'[p] = todo[p]
              \/ pc'[p] = "done" /\ seen'[p] = {} /\ todo'[p] = {} /\ processed'[p] >= Target
           /\ \A s \in Sources \ Owned(p) : job'[s] = job[s]
           /\ \A q \in Pipelines \ {p} : /\ pc'[q] = pc[q] /\ todo'[q] = todo[q]
                                         /\ seen'[q] = seen[q] /\ batch'[q] = batch[q]
<1> USE DEF CoreInv
<1> DEFINE seenNow == processed[p] + Cardinality(batch[p])
<1>1. seenNow \in Nat
  BY BatchIsFinite DEF BatchTypeOK
<1>2. /\ processed' = [processed EXCEPT ![p] = seenNow]
      /\ batch' = [batch EXCEPT ![p] = {}]
      /\ SetJobs(BatchSources(p), NoJob)
      /\ seen' = [seen EXCEPT ![p] = IF seenNow >= Target THEN {} ELSE @]
      /\ todo' = [todo EXCEPT ![p] = IF seenNow >= Target THEN {} ELSE @]
      /\ GoTo(p, IF seenNow >= Target THEN "done" ELSE "sample")
  BY DEF NextBatch
<1> HIDE DEF seenNow
<1>3. /\ pc' \in [Pipelines -> PCs] /\ \A q \in Pipelines \ {p} : pc'[q] = pc[q]
      /\ pc'[p] = IF seenNow >= Target THEN "done" ELSE "sample"
  BY <1>2, GoToSets DEF BatchTypeOK, PCs
<1>4. job' \in [Sources -> Job] /\ \A s \in Sources \ Owned(p) : job'[s] = job[s]
  BY <1>2, SetJobsSets, JobsTyped, BatchFacts DEF BatchTypeOK
<1>5. processed' \in [Pipelines -> Nat] /\ processed'[p] = seenNow
  BY <1>1, <1>2 DEF BatchTypeOK
<1>6. /\ batch' \in [Pipelines -> SUBSET Task] /\ batch'[p] = {}
      /\ \A q \in Pipelines \ {p} : batch'[q] = batch[q]
  BY <1>2 DEF BatchTypeOK
<1>7. /\ seen' \in [Pipelines -> SUBSET Hashes] /\ todo' \in [Pipelines -> SUBSET Sources]
      /\ seen'[p] = IF seenNow >= Target THEN {} ELSE seen[p]
      /\ todo'[p] = IF seenNow >= Target THEN {} ELSE todo[p]
      /\ \A q \in Pipelines \ {p} : seen'[q] = seen[q] /\ todo'[q] = todo[q]
  BY <1>2 DEF BatchTypeOK
<1> QED BY <1>3, <1>4, <1>5, <1>6, <1>7

LEMMA NothingToWriteCore ==
    ASSUME CoreInv, NEW p \in Pipelines, NothingToWrite(p)
    PROVE  CoreInv' /\ Others(p)
<1>1. NextBatch(p) /\ UNCHANGED <<storeVars, text, runs, troubled>>
  BY DEF NothingToWrite
<1>2. BatchTypeOK'
  BY <1>1, NextBatchSets DEF storeVars, BatchTypeOK, StoresTypeOK, CoreInv
<1>3. Others(p)
  BY <1>1, NextBatchSets, OwnedApart, SourceParts DEF storeVars, Others, CoreInv
<1>4. BatchFormed(p)' /\ ItemsMatchJobs(p)'
  BY <1>1, NextBatchSets DEF BatchFormed, ItemsMatchJobs, CoreInv
<1> QED BY <1>2, <1>3, <1>4, OthersKeepCore DEF CoreInv

LEMMA WriteLabelsCore ==
    ASSUME CoreInv, NEW p \in Pipelines, WriteLabels(p)
    PROVE  CoreInv' /\ Others(p)
<1> USE DEF CoreInv
<1>1. /\ pc' \in [Pipelines -> PCs] /\ pc'[p] = "complete" /\ pc[p] = "label"
      /\ \A q \in Pipelines \ {p} : pc'[q] = pc[q]
  BY GoToSets DEF WriteLabels, Gathered, BatchTypeOK, PCs
<1>2. rows' \in [Hashes -> Row]
  BY RegisterBatchSets, BatchFacts
  DEF WriteLabels, Labeled, BatchTypeOK, StoresTypeOK, HashStatus
<1>3. BatchTypeOK'
  BY <1>1, <1>2 DEF WriteLabels, procVars, BatchTypeOK, StoresTypeOK
<1>4. Others(p)
  BY <1>1 DEF WriteLabels, procVars, Others
<1>5. BatchFormed(p)' /\ ItemsMatchJobs(p)'
  BY <1>1 DEF WriteLabels, procVars, BatchFormed, ItemsMatchJobs, Hash
<1> QED BY <1>3, <1>4, <1>5, OthersKeepCore

\* The items of the labelled documents become completed and keep their fingerprint.
LEMMA CompleteBatchItems ==
    ASSUME CoreInv, NEW p \in Pipelines, CompleteBatch(p)
    PROVE  /\ items' \in [Sources -> Item]
           /\ \A s \in Sources :
                 IF \E t \in Labeled(p) : t.source = s
                 THEN items'[s].status = "completed" /\ items'[s].hash = items[s].hash
                 ELSE items'[s] = items[s]
           /\ \A s \in Sources \ Owned(p) : items'[s] = items[s]
<1>1. items \in [Sources -> Item]
  BY DEF CoreInv, BatchTypeOK, StoresTypeOK
<1>2. ASSUME NEW s \in Sources
      PROVE  /\ items'[s] \in Item
             /\ IF \E t \in Labeled(p) : t.source = s
                THEN items'[s].status = "completed" /\ items'[s].hash = items[s].hash
                ELSE items'[s] = items[s]
  <2>1. items[s] \in Item
    BY <1>1
  <2> QED BY <2>1 DEF CompleteBatch, Item, ItemStatus
<1>3. \A s \in Sources \ Owned(p) : ~\E t \in Labeled(p) : t.source = s
  BY BatchFacts DEF Labeled, CoreInv
<1>4. items' \in [Sources -> Item]
  BY <1>2 DEF CompleteBatch
<1> QED BY <1>2, <1>3, <1>4

LEMMA CompleteBatchCore ==
    ASSUME CoreInv, NEW p \in Pipelines, CompleteBatch(p)
    PROVE  CoreInv' /\ Others(p)
<1>1. NextBatch(p) /\ UNCHANGED <<rows, text, runs, troubled>>
  BY DEF CompleteBatch
<1>2. BatchTypeOK'
  BY <1>1, NextBatchSets, CompleteBatchItems DEF BatchTypeOK, StoresTypeOK, CoreInv
<1>3. Others(p)
  BY <1>1, NextBatchSets, CompleteBatchItems, OwnedApart, SourceParts DEF Others, CoreInv
<1>4. BatchFormed(p)' /\ ItemsMatchJobs(p)'
  BY <1>1, NextBatchSets DEF BatchFormed, ItemsMatchJobs, CoreInv
<1> QED BY <1>2, <1>3, <1>4, OthersKeepCore DEF CoreInv

LEMMA CrashCore ==
    ASSUME CoreInv, NEW p \in Pipelines, Crash(p)
    PROVE  CoreInv' /\ Others(p)
<1> USE DEF CoreInv
<1>1. /\ pc' \in [Pipelines -> PCs] /\ pc'[p] = "down"
      /\ \A q \in Pipelines \ {p} : pc'[q] = pc[q]
  BY GoToSets DEF Crash, BatchTypeOK, PCs
<1>2. /\ job' \in [Sources -> Job]
      /\ \A s \in Sources \ Owned(p) : job'[s] = job[s]
  BY SetJobsSets, JobsTyped DEF Crash, BatchTypeOK
<1>3. BatchTypeOK'
  BY <1>1, <1>2 DEF Crash, storeVars, BatchTypeOK, StoresTypeOK
<1>4. Others(p)
  BY <1>1, <1>2, OwnedApart, SourceParts DEF Crash, storeVars, Others, BatchTypeOK
<1>5. batch'[p] = {} /\ todo'[p] = {}
  BY DEF Crash, BatchTypeOK
<1>6. BatchFormed(p)' /\ ItemsMatchJobs(p)'
  BY <1>1, <1>5 DEF BatchFormed, ItemsMatchJobs
<1> QED BY <1>3, <1>4, <1>6, OthersKeepCore

LEMMA StepCore ==
    ASSUME CoreInv, NEW p \in Pipelines, StartRun(p) \/ Proceed(p) \/ Crash(p)
    PROVE  CoreInv' /\ Others(p)
<1>1. ASSUME NEW s \in Owned(p), Coroutine(p, s) PROVE CoreInv' /\ Others(p)
  BY <1>1, CoroutineMoves, MovesCore
<1> QED BY <1>1, StartRunCore, ExpireStaleRowsCore, ExpireStaleItemsCore, SampleBatchCore,
           FinishRunCore, RegisterInFlightCore, MarkBatchInFlightCore, NothingToWriteCore,
           WriteLabelsCore, CompleteBatchCore, CrashCore DEF Proceed

LEMMA StutterCore ==
    ASSUME CoreInv, UNCHANGED vars
    PROVE  CoreInv'
<1>1. UNCHANGED <<items, rows, text, pc, todo, seen, batch, job, processed, runs, troubled>>
  BY DEF vars, storeVars, procVars
<1>2. BatchTypeOK'
  BY <1>1 DEF CoreInv, BatchTypeOK, StoresTypeOK
<1>3. \A p \in Pipelines : BatchFormed(p)' /\ ItemsMatchJobs(p)'
  BY <1>1 DEF CoreInv, BatchFormed, ItemsMatchJobs, Hash
<1> QED BY <1>2, <1>3 DEF CoreInv

LEMMA InitCore ==
    ASSUME Init
    PROVE  CoreInv
<1>1. BatchTypeOK
  <2>1. StoresTypeOK
    <3>1. AbsentItem \in Item /\ AbsentRow \in Row
      BY DEF AbsentItem, AbsentRow, Item, Row, ItemStatus, HashStatus
    <3> QED BY <3>1 DEF Init, StoresInit, StoresTypeOK
  <2>2. pc \in [Pipelines -> PCs]
    BY DEF Init, PCs
  <2>3. job \in [Sources -> Job]
    BY JobsTyped DEF Init
  <2>4. runs \in 0..MaxRuns
    BY BatchAssumption DEF Init
  <2> QED BY <2>1, <2>2, <2>3, <2>4 DEF Init, BatchTypeOK
<1>2. \A p \in Pipelines : BatchFormed(p) /\ ItemsMatchJobs(p)
  BY DEF Init, BatchFormed, ItemsMatchJobs
<1> QED BY <1>1, <1>2 DEF CoreInv

-----------------------------------------------------------------------------
(* What is rejected *)

\* RejectedWithoutTransient, one pipeline at a time.
FairOn(p) ==
    \A s \in Owned(p) : items[s].status = "rejected" => s \notin Raised

TroubleInv == CoreInv /\ \A p \in Pipelines : TroublesNoted(p) /\ FairOn(p)

LEMMA FairOnAll ==
    ASSUME BatchTypeOK, \A p \in Pipelines : FairOn(p)
    PROVE  RejectedWithoutTransient
BY SourceParts DEF FairOn, RejectedWithoutTransient

LEMMA OthersKeepTrouble ==
    ASSUME TroubleInv, NEW p \in Pipelines, Others(p), NEW q \in Pipelines \ {p}
    PROVE  TroublesNoted(q)' /\ FairOn(q)'
<1> USE DEF TroubleInv, CoreInv
<1>1. batch'[q] = batch[q] /\ pc'[q] = pc[q]
  BY DEF Others
<1>2. \A t \in batch[q] : t.source \in Owned(q)
  BY DEF BatchFormed
<1>3. \A s \in Owned(q) : items'[s] = items[s] /\ job'[s] = job[s] /\ (s \in troubled' <=> s \in troubled)
  BY DEF Others
<1>4. TroublesNoted(q) /\ FairOn(q)
  OBVIOUS
<1> QED BY <1>1, <1>2, <1>3, <1>4 DEF TroublesNoted, FairOn, Raised

\* A step that labels nothing, rejects nothing and troubles nothing.
LEMMA QuietTrouble ==
    ASSUME NEW p \in Pipelines, FairOn(p), pc'[p] # "label", troubled' = troubled,
           \A s \in Owned(p) : items'[s].status = "rejected" => items[s].status = "rejected"
    PROVE  TroublesNoted(p)' /\ FairOn(p)'
BY DEF TroublesNoted, FairOn, Raised

LEMMA TroubleStep ==
    ASSUME TroubleInv, NEW p \in Pipelines, StartRun(p) \/ Proceed(p) \/ Crash(p)
    PROVE  TroubleInv'
<1> USE DEF TroubleInv
<1>1. CoreInv' /\ Others(p)
  BY StepCore
<1>2. SUFFICES TroublesNoted(p)' /\ FairOn(p)'
  BY <1>1, OthersKeepTrouble
<1>3. /\ pc \in [Pipelines -> PCs] /\ items \in [Sources -> Item] /\ Owned(p) \subseteq Sources
  BY SourceParts DEF CoreInv, BatchTypeOK, StoresTypeOK
<1>4. CASE StartRun(p)
  <2>1. pc'[p] # "label"
    BY <1>3, <1>4 DEF StartRun, GoTo
  <2> QED BY <1>4, <2>1, QuietTrouble DEF StartRun, storeVars
<1>5. CASE ExpireStaleRows(p)
  <2>1. pc'[p] # "label"
    BY <1>3, <1>5 DEF ExpireStaleRows, GoTo
  <2> QED BY <1>5, <2>1, QuietTrouble DEF ExpireStaleRows
<1>6. CASE ExpireStaleItems(p)
  <2>1. pc'[p] # "label"
    BY <1>3, <1>6 DEF ExpireStaleItems, GoTo
  <2>2. \A s \in Owned(p) : items'[s].status = "rejected" => items[s].status = "rejected"
    BY <1>3, <1>6, ExpireItemsSets DEF ExpireStaleItems, AbsentItem
  <2> QED BY <1>6, <2>1, <2>2, QuietTrouble DEF ExpireStaleItems
<1>7. CASE SampleBatch(p)
  <2>1. PICK B \in SUBSET todo[p], chosen \in SUBSET todo[p] : Samples(p, B, chosen)
    BY <1>7 DEF SampleBatch, Samples
  <2>2. pc'[p] # "label"
    BY <1>3, <2>1 DEF Samples, GoTo
  <2>3. \A s \in Owned(p) : items'[s].status = "rejected" => items[s].status = "rejected"
    BY <1>3, <2>1, SelectPendingSets DEF Samples
  <2> QED BY <1>7, <2>2, <2>3, QuietTrouble DEF SampleBatch
<1>8. CASE FinishRun(p)
  <2>1. pc'[p] # "label"
    BY <1>3, <1>8 DEF FinishRun, GoTo
  <2> QED BY <1>8, <2>1, QuietTrouble DEF FinishRun, storeVars
<1>9. CASE RegisterInFlight(p)
  <2>1. pc'[p] # "label"
    BY <1>3, <1>9 DEF RegisterInFlight, GoTo
  <2> QED BY <1>9, <2>1, QuietTrouble DEF RegisterInFlight
<1>10. CASE MarkBatchInFlight(p)
  <2>1. /\ batch[p] \in SUBSET Task /\ \A t \in batch[p] : t.source \in BatchSources(p)
        /\ \A t, u \in batch[p] : t.source = u.source => t = u
    BY BatchFacts DEF CoreInv
  <2>2. /\ \A t \in batch[p] : items'[t.source].status = "in_flight"
        /\ \A s \in Sources : (\A t \in batch[p] : t.source # s) => items'[s] = items[s]
    BY <1>3, <1>10, <2>1, MarkInFlightSets DEF MarkBatchInFlight
  <2>3. troubled' = troubled \ BatchSources(p) /\ batch' = batch
    BY <1>10 DEF MarkBatchInFlight
  <2>4. FairOn(p)'
    BY <1>3, <2>2, <2>3 DEF FairOn, Raised
  <2>5. TroublesNoted(p)'
    BY <2>1, <2>3 DEF TroublesNoted, Raised
  <2> QED BY <2>4, <2>5
<1>11. ASSUME NEW s \in Owned(p), Coroutine(p, s) PROVE TroublesNoted(p)' /\ FairOn(p)'
  <2>1. Moves(p, s) /\ Notes(p, s)
    BY <1>11, CoroutineMoves, CoroutineNotes
  <2>2. batch' = batch /\ pc' = pc /\ pc[p] = "label"
    BY <2>1 DEF Moves
  <2>3. PICK t \in batch[p] : t.source = s
    BY <2>1 DEF Moves, BatchSources
  <2>4. items[s].status = "in_flight"
    BY <2>1, <2>2, <2>3 DEF Moves, CoreInv, ItemsMatchJobs
  <2>5. FairOn(p)'
    <3> SUFFICES ASSUME NEW u \in Owned(p), items'[u].status = "rejected"
                 PROVE  u \notin Raised'
      BY DEF FairOn
    <3>1. CASE u = s
      <4>1. job'[s].step = "failed"
        BY <2>1, <2>4, <3>1 DEF Moves
      <4> QED BY <2>1, <3>1, <4>1 DEF Notes
    <3>2. CASE u # s
      BY <1>3, <2>1, <3>2 DEF Moves, FairOn, Raised
    <3> QED BY <3>1, <3>2
  <2>6. TroublesNoted(p)'
    <3> SUFFICES ASSUME p \in Bootstraps, NEW u \in batch[p], u.source \in Raised',
                        job'[u.source].step \in {"label", "repair"}
                 PROVE  job'[u.source].transient
      BY <2>2 DEF TroublesNoted
    <3>1. u.source \in Sources
      BY BatchFacts DEF CoreInv
    <3>2. CASE u.source = s
      BY <2>1, <3>2 DEF Notes
    <3>3. CASE u.source # s
      <4>1. job'[u.source] = job[u.source] /\ u.source \in Raised
        BY <2>1, <3>1, <3>3 DEF Moves, Raised
      <4> QED BY <2>2, <4>1 DEF TroublesNoted
    <3> QED BY <3>2, <3>3
  <2> QED BY <2>5, <2>6
<1>12. CASE NothingToWrite(p)
  <2>1. pc'[p] # "label"
    BY <1>12, NextBatchSets DEF NothingToWrite
  <2> QED BY <1>12, <2>1, QuietTrouble DEF NothingToWrite, storeVars
<1>13. CASE WriteLabels(p)
  <2>1. pc'[p] # "label"
    BY <1>3, <1>13 DEF WriteLabels, GoTo
  <2> QED BY <1>13, <2>1, QuietTrouble DEF WriteLabels
<1>14. CASE CompleteBatch(p)
  <2>1. pc'[p] # "label"
    BY <1>14, NextBatchSets DEF CompleteBatch
  <2>2. \A s \in Owned(p) : items'[s].status = "rejected" => items[s].status = "rejected"
    BY <1>3, <1>14, CompleteBatchItems
  <2> QED BY <1>14, <2>1, <2>2, QuietTrouble DEF CompleteBatch
<1>15. CASE Crash(p)
  <2>1. pc'[p] # "label"
    BY <1>3, <1>15 DEF Crash, GoTo
  <2> QED BY <1>15, <2>1, QuietTrouble DEF Crash, storeVars
<1> QED BY <1>4, <1>5, <1>6, <1>7, <1>8, <1>9, <1>10, <1>11, <1>12, <1>13, <1>14, <1>15 DEF Proceed

LEMMA StutterTrouble ==
    ASSUME TroubleInv, UNCHANGED vars
    PROVE  TroubleInv'
<1>1. UNCHANGED <<items, pc, batch, job, troubled>>
  BY DEF vars, storeVars, procVars
<1>2. \A p \in Pipelines : TroublesNoted(p)' /\ FairOn(p)'
  BY <1>1 DEF TroubleInv, TroublesNoted, FairOn, Raised
<1> QED BY <1>2, StutterCore DEF TroubleInv

-----------------------------------------------------------------------------
(* One pipeline at a time: the shared dedup store *)

\* What relates the dedup store to the checkpoints while one pipeline runs.
StoreInv ==
    /\ CoreInv
    /\ OneRuns /\ RowsApart /\ RowsNameSuppliers
    /\ \A p \in Pipelines : BatchHasRows(p) /\ SourcesLookedAt(p)
    /\ BatchCompletedIsLabeled

\* What a step of p has to preserve of it.
StoreKept(p) == RowsApart' /\ BatchCompletedIsLabeled' /\ BatchHasRows(p)' /\ SourcesLookedAt(p)'

\* What the dedup store knows depends on its rows only, and grows with them.
LEMMA SameRowsSameKnown ==
    ASSUME rows' = rows
    PROVE  Registered' = Registered /\ \A h : IsKnown(h)' <=> IsKnown(h)
BY DEF Registered, IsKnown

LEMMA MoreRowsMoreKnown ==
    ASSUME Registered \subseteq Registered'
    PROVE  \A h : IsKnown(h) => IsKnown(h)'
BY DEF IsKnown

\* A registered fingerprint is known.
LEMMA RegisteredIsKnown ==
    ASSUME NEW h \in Registered
    PROVE  h \in Hashes /\ IsKnown(h)
BY StoresAssumption DEF Registered, IsKnown

\* The others are stopped, and stay so.
LEMMA OthersKeepStore ==
    ASSUME StoreInv, NEW p \in Pipelines, Others(p), \A q \in Pipelines \ {p} : Stopped(q)
    PROVE  OneRuns' /\ \A q \in Pipelines \ {p} : BatchHasRows(q)' /\ SourcesLookedAt(q)'
<1>1. \A q \in Pipelines \ {p} : pc'[q] = pc[q] /\ Stopped(q)' /\ batch'[q] = batch[q] /\ seen'[q] = seen[q]
  BY DEF Others, Stopped
<1>2. OneRuns'
  BY <1>1 DEF OneRuns
<1>3. ASSUME NEW q \in Pipelines \ {p} PROVE BatchHasRows(q)' /\ SourcesLookedAt(q)'
  <2>1. batch'[q] = {} /\ seen'[q] = {}
    BY <1>1 DEF StoreInv, CoreInv, BatchFormed, SourcesLookedAt, Stopped
  <2> QED BY <1>1, <2>1 DEF BatchHasRows, SourcesLookedAt, Stopped
<1> QED BY <1>2, <1>3

\* A step that completes nothing and leaves the accepted rows of completed items.
LEMMA CompletedStays ==
    ASSUME BatchCompletedIsLabeled,
           \A h \in Hashes : rows[h].status = "accepted" => rows'[h] = rows[h],
           \A s \in Sources : items'[s].status = "completed" => items'[s] = items[s]
    PROVE  BatchCompletedIsLabeled'
<1> SUFFICES ASSUME NEW s \in Sources, items'[s].status = "completed"
             PROVE  /\ items'[s].hash \in Hashes
                    /\ rows'[items'[s].hash] = [status |-> "accepted", source |-> s]
  BY DEF BatchCompletedIsLabeled
<1>1. items'[s] = items[s]
  OBVIOUS
<1>2. items[s].hash \in Hashes /\ rows[items[s].hash] = [status |-> "accepted", source |-> s]
  BY <1>1 DEF BatchCompletedIsLabeled
<1>3. rows[items[s].hash].status = "accepted"
  BY <1>2
<1> QED BY <1>1, <1>2, <1>3

LEMMA StartRunStore ==
    ASSUME StoreInv, NEW p \in Pipelines, StartRun(p)
    PROVE  StoreKept(p)
<1> USE DEF StoreInv
<1>1. /\ pc'[p] = "expire_rows" /\ todo'[p] = Owned(p) /\ seen'[p] = seen[p]
      /\ batch' = batch /\ rows' = rows /\ items' = items
  BY DEF StartRun, GoTo, storeVars, CoreInv, BatchTypeOK
<1>2. batch[p] = {} /\ seen[p] = {}
  BY DEF StartRun, Stopped, CoreInv, BatchFormed, SourcesLookedAt
<1>3. RowsApart' /\ BatchCompletedIsLabeled'
  BY <1>1 DEF RowsApart, Registered, BatchCompletedIsLabeled
<1>4. BatchHasRows(p)'
  BY <1>1, <1>2 DEF BatchHasRows
<1>5. SourcesLookedAt(p)'
  BY <1>1, <1>2 DEF SourcesLookedAt, Stopped, BatchSources
<1> QED BY <1>3, <1>4, <1>5 DEF StoreKept

LEMMA ExpireStaleRowsStore ==
    ASSUME StoreInv, NEW p \in Pipelines, ExpireStaleRows(p)
    PROVE  StoreKept(p)
<1> USE DEF StoreInv
<1>1. /\ pc'[p] = "expire_items" /\ todo' = todo /\ seen' = seen /\ batch' = batch /\ items' = items
      /\ pc[p] = "expire_rows"
  BY DEF ExpireStaleRows, GoTo, procVars, CoreInv, BatchTypeOK
<1>2. batch[p] = {} /\ seen[p] = {} /\ todo[p] = Owned(p)
  BY <1>1 DEF CoreInv, BatchFormed, SourcesLookedAt
<1>3. rows \in [Hashes -> Row] /\ items \in [Sources -> Item]
  BY DEF CoreInv, BatchTypeOK, StoresTypeOK
<1>4. \A h \in Hashes : \/ rows'[h] = rows[h]
                        \/ rows[h].status = "in_flight" /\ rows'[h] = AbsentRow
  BY <1>3, ExpireRowsSets DEF ExpireStaleRows
<1>5. RowsApart'
  <2>1. Registered' \subseteq Registered
    BY <1>4 DEF Registered, AbsentRow
  <2> QED BY <2>1 DEF RowsApart
<1>6. BatchCompletedIsLabeled'
  BY <1>1, <1>4, CompletedStays
<1>7. BatchHasRows(p)'
  BY <1>1, <1>2 DEF BatchHasRows
<1>8. SourcesLookedAt(p)'
  BY <1>1, <1>2 DEF SourcesLookedAt, Stopped, BatchSources
<1> QED BY <1>5, <1>6, <1>7, <1>8 DEF StoreKept

LEMMA ExpireStaleItemsStore ==
    ASSUME StoreInv, NEW p \in Pipelines, ExpireStaleItems(p)
    PROVE  StoreKept(p)
<1> USE DEF StoreInv
<1>1. /\ pc'[p] = "sample" /\ todo' = todo /\ seen' = seen /\ batch' = batch /\ rows' = rows
      /\ pc[p] = "expire_items"
  BY DEF ExpireStaleItems, GoTo, procVars, CoreInv, BatchTypeOK
<1>2. batch[p] = {} /\ seen[p] = {} /\ todo[p] = Owned(p)
  BY <1>1 DEF CoreInv, BatchFormed, SourcesLookedAt
<1>3. Owned(p) \subseteq Sources
  BY SourceParts DEF CoreInv
<1>4. \A s \in Sources : IF s \in Owned(p) /\ items[s].status = "in_flight"
                        THEN items'[s] = AbsentItem ELSE items'[s] = items[s]
  BY ExpireItemsSets DEF ExpireStaleItems, CoreInv, BatchTypeOK, StoresTypeOK
<1>5. RowsApart'
  BY <1>1 DEF RowsApart, Registered
<1>6. BatchCompletedIsLabeled'
  BY <1>1, <1>4, CompletedStays DEF AbsentItem
<1>7. BatchHasRows(p)'
  BY <1>1, <1>2 DEF BatchHasRows
<1>8. \A s \in Owned(p) : items'[s].status # "in_flight"
  BY <1>3, <1>4 DEF AbsentItem
<1>9. SourcesLookedAt(p)'
  BY <1>1, <1>2, <1>8 DEF SourcesLookedAt, Stopped, BatchSources
<1> QED BY <1>5, <1>6, <1>7, <1>9 DEF StoreKept

LEMMA SampleBatchStore ==
    ASSUME StoreInv, NEW p \in Pipelines, SampleBatch(p)
    PROVE  StoreKept(p)
<1> USE DEF StoreInv
<1>1. PICK B \in SUBSET todo[p], chosen \in SUBSET todo[p] : Samples(p, B, chosen)
  BY DEF SampleBatch, Samples
<1>2. /\ pc[p] = "sample" /\ pc'[p] = IF chosen = {} THEN "sample" ELSE "register"
      /\ rows' = rows /\ text' = text
      /\ todo'[p] = todo[p] \ B /\ seen'[p] = seen[p] \cup {Hash(s) : s \in chosen}
      /\ batch'[p] = {[source |-> s, hash |-> Hash(s)] : s \in chosen}
  BY <1>1 DEF SampleBatch, Samples, GoTo, CoreInv, BatchTypeOK
<1>3. /\ todo[p] \subseteq Owned(p) /\ Owned(p) \subseteq Sources /\ chosen \subseteq B
      /\ Ready(B) \subseteq B
  BY <1>1, SourceParts DEF CoreInv, BatchFormed, Samples, Ready
<1>4. /\ \A s \in Sources \ B : items'[s] = items[s]
      /\ \A s \in Sources \cap B :
            IF items[s].status \in {"completed", "rejected"} THEN items'[s] = items[s]
                                                            ELSE items'[s].status = "pending"
  BY <1>1, SelectPendingSets DEF Samples, CoreInv, BatchTypeOK, StoresTypeOK
<1>5. RowsApart'
  BY <1>2 DEF RowsApart, Registered
<1>6. BatchCompletedIsLabeled'
  BY <1>2, <1>4, CompletedStays
<1>7. Registered' = Registered /\ \A h : IsKnown(h)' <=> IsKnown(h)
  BY <1>2, SameRowsSameKnown
<1>8. \A t \in batch'[p] : t.source \in chosen /\ t.hash = Hash(t.source)
  BY <1>2
<1>9. BatchHasRows(p)'
  <2>1. \A s \in chosen : ~IsKnown(Hash(s))
    BY <1>1 DEF Samples, IsFresh, IsUnknown
  <2> QED BY <1>2, <1>7, <1>8, <2>1 DEF BatchHasRows
<1>10. SourcesLookedAt(p)'
  <2>1. ~Stopped(p)' /\ pc'[p] \notin {"expire_rows", "expire_items"}
    BY <1>2 DEF Stopped
  <2>2. todo'[p] \cap BatchSources(p)' = {}
    BY <1>2, <1>3, <1>8 DEF BatchSources
  <2>3. \A s \in todo'[p] : items'[s].status # "in_flight"
    BY <1>2, <1>3, <1>4 DEF SourcesLookedAt, Stopped
  <2>4. ASSUME NEW g \in seen'[p]
        PROVE  g \in Registered' \/ (pc'[p] = "register" /\ \E t \in batch'[p] : t.hash = g)
    <3>1. CASE g \in seen[p]
      BY <1>2, <1>7, <3>1 DEF SourcesLookedAt, Stopped
    <3>2. CASE \E s \in chosen : g = Hash(s)
      <4>1. PICK s \in chosen : g = Hash(s)
        BY <3>2
      <4>2. [source |-> s, hash |-> Hash(s)] \in batch'[p] /\ chosen # {}
        BY <1>2
      <4>3. \E t \in batch'[p] : t.hash = g
        BY <4>1, <4>2
      <4> QED BY <1>2, <4>2, <4>3
    <3> QED BY <1>2, <3>1, <3>2
  <2>5. ASSUME NEW s \in Owned(p) \ todo'[p]
        PROVE  \/ IsSettled(s)' \/ IsKnown(Hash(s))'
               \/ \E g \in seen'[p] : <<g, Hash(s)'>> \in Near
    <3>1. Hash(s)' = Hash(s) /\ (IsKnown(Hash(s))' <=> IsKnown(Hash(s)))
      BY <1>2 DEF IsKnown, Registered, Hash
    <3>2. CASE s \notin B
      <4>1. IsSettled(s) \/ IsKnown(Hash(s)) \/ \E g \in seen[p] : <<g, Hash(s)>> \in Near
        BY <1>2, <3>2 DEF SourcesLookedAt, Stopped
      <4>2. IsSettled(s)' <=> IsSettled(s)
        BY <1>3, <1>4, <3>2 DEF IsSettled
      <4> QED BY <1>2, <3>1, <4>1, <4>2
    <3>3. CASE s \in B /\ s \notin Ready(B)
      <4>1. items[s].status \notin {"absent", "pending", "in_flight"}
        BY <1>2, <3>3 DEF Ready, SourcesLookedAt, Stopped
      <4>2. items[s].status \in {"completed", "rejected"}
        BY <1>3, <4>1 DEF CoreInv, BatchTypeOK, StoresTypeOK, Item, ItemStatus
      <4> QED BY <1>3, <1>4, <3>3, <4>2 DEF IsSettled
    <3>4. CASE s \in chosen
      <4>1. Hash(s) \in seen'[p] /\ <<Hash(s), Hash(s)>> \in Near
        BY <1>2, <1>3, <3>4, SourceParts, StoresAssumption DEF CoreInv
      <4> QED BY <3>1, <4>1
    <3>5. CASE s \in Ready(B) \ chosen
      <4>1. CASE IsUnknown(p, s)
        <5>1. PICK t \in chosen : <<Hash(s), Hash(t)>> \in Near
          BY <1>1, <3>5, <4>1 DEF Samples, IsFresh
        <5>2. <<Hash(t), Hash(s)>> \in Near
          BY <1>3, <5>1, SourceParts, StoresAssumption DEF CoreInv
        <5>3. Hash(t) \in seen'[p]
          BY <1>2
        <5> QED BY <3>1, <5>2, <5>3
      <4>2. CASE ~IsUnknown(p, s)
        BY <1>2, <3>1, <4>2 DEF IsUnknown
      <4> QED BY <4>1, <4>2
    <3> QED BY <3>2, <3>3, <3>4, <3>5
  <2> QED BY <2>1, <2>2, <2>3, <2>4, <2>5 DEF SourcesLookedAt, Stopped
<1> QED BY <1>5, <1>6, <1>9, <1>10 DEF StoreKept

LEMMA FinishRunStore ==
    ASSUME StoreInv, NEW p \in Pipelines, FinishRun(p)
    PROVE  StoreKept(p)
<1> USE DEF StoreInv
<1>1. /\ pc[p] = "sample" /\ pc'[p] = "done" /\ seen'[p] = {}
      /\ batch' = batch /\ rows' = rows /\ items' = items
  BY DEF FinishRun, GoTo, storeVars, CoreInv, BatchTypeOK
<1>2. batch[p] = {}
  BY <1>1 DEF CoreInv, BatchFormed
<1>3. RowsApart' /\ BatchCompletedIsLabeled'
  BY <1>1 DEF RowsApart, Registered, BatchCompletedIsLabeled
<1>4. BatchHasRows(p)' /\ SourcesLookedAt(p)'
  BY <1>1, <1>2 DEF BatchHasRows, SourcesLookedAt, Stopped
<1> QED BY <1>3, <1>4 DEF StoreKept

LEMMA CrashStore ==
    ASSUME StoreInv, NEW p \in Pipelines, Crash(p)
    PROVE  StoreKept(p)
<1>1. /\ pc'[p] = "down" /\ seen'[p] = {} /\ batch'[p] = {} /\ rows' = rows /\ items' = items
  BY DEF Crash, GoTo, storeVars, StoreInv, CoreInv, BatchTypeOK
<1>2. RowsApart' /\ BatchCompletedIsLabeled'
  BY <1>1 DEF StoreInv, RowsApart, Registered, BatchCompletedIsLabeled
<1>3. BatchHasRows(p)' /\ SourcesLookedAt(p)'
  BY <1>1 DEF BatchHasRows, SourcesLookedAt, Stopped
<1> QED BY <1>2, <1>3 DEF StoreKept

LEMMA RegisterInFlightStore ==
    ASSUME StoreInv, NEW p \in Pipelines, RegisterInFlight(p)
    PROVE  StoreKept(p)
<1> USE DEF StoreInv
<1>1. /\ pc[p] = "register" /\ pc'[p] = "mark" /\ items' = items /\ text' = text
      /\ todo' = todo /\ seen' = seen /\ batch' = batch /\ job' = job
  BY DEF RegisterInFlight, GoTo, procVars, CoreInv, BatchTypeOK
<1>2. /\ batch[p] \in SUBSET Task /\ \A t, u \in batch[p] : t.hash = u.hash => t = u
      /\ \A t \in batch[p] : t.hash \in Hashes
  BY BatchFacts, TaskFields DEF CoreInv
<1>3. /\ rows' \in [Hashes -> Row]
      /\ \A t \in batch[p] : rows'[t.hash] = [status |-> "in_flight", source |-> t.source]
      /\ \A h \in Hashes : (\A t \in batch[p] : t.hash # h) => rows'[h] = rows[h]
  BY <1>2, RegisterBatchSets DEF RegisterInFlight, CoreInv, BatchTypeOK, StoresTypeOK, HashStatus
<1>4. \A t \in batch[p] : \A g \in Registered : <<g, t.hash>> \notin Near /\ <<t.hash, g>> \notin Near
  <2> TAKE t \in batch[p]
  <2> TAKE g \in Registered
  <2>1. ~IsKnown(t.hash)
    BY <1>1 DEF BatchHasRows
  <2>2. <<g, t.hash>> \notin Near
    BY <2>1 DEF IsKnown
  <2> QED BY <1>2, <2>2, StoresAssumption DEF Registered
<1>5. \A g \in Registered : rows'[g] = rows[g]
  BY <1>3, <1>4, StoresAssumption DEF Registered
<1>6. Registered \subseteq Registered' /\ \A t \in batch[p] : t.hash \in Registered'
  <2>1. ASSUME NEW t \in batch[p] PROVE rows'[t.hash].status = "in_flight"
    <3>1. rows'[t.hash] = [status |-> "in_flight", source |-> t.source]
      BY <1>3
    <3> QED BY <3>1
  <2> QED BY <1>2, <1>5, <2>1 DEF Registered
<1>7. \A g \in Registered' : g \in Registered \/ \E t \in batch[p] : t.hash = g
  BY <1>3 DEF Registered
<1>8. RowsApart'
  <2> SUFFICES ASSUME NEW g \in Registered', NEW h \in Registered', g # h
               PROVE  <<g, h>> \notin Near
    BY DEF RowsApart
  <2>1. CASE g \in Registered /\ h \in Registered
    BY <2>1 DEF RowsApart
  <2>2. CASE g \in Registered /\ \E t \in batch[p] : t.hash = h
    BY <1>4, <2>2
  <2>3. CASE h \in Registered /\ \E t \in batch[p] : t.hash = g
    BY <1>4, <2>3
  <2>4. CASE (\E t \in batch[p] : t.hash = g) /\ (\E t \in batch[p] : t.hash = h)
    BY <2>4 DEF CoreInv, BatchFormed
  <2> QED BY <1>7, <2>1, <2>2, <2>3, <2>4
<1>9. BatchCompletedIsLabeled'
  BY <1>1, <1>5, CompletedStays DEF Registered
<1>10. BatchHasRows(p)'
  BY <1>1, <1>3 DEF BatchHasRows
<1>11. SourcesLookedAt(p)'
  <2>1. BatchSources(p)' = BatchSources(p)
    BY <1>1 DEF BatchSources
  <2>2. \A g \in seen[p] : g \in Registered'
    BY <1>1, <1>6 DEF SourcesLookedAt, Stopped
  <2>3. \A s \in Owned(p) \ todo[p] :
           IsSettled(s)' \/ IsKnown(Hash(s))' \/ \E g \in seen[p] : <<g, Hash(s)>> \in Near
    <3>1. \A s : IsKnown(Hash(s)) => IsKnown(Hash(s))'
      BY <1>1, <1>6 DEF IsKnown, Hash
    <3> QED BY <1>1, <3>1 DEF SourcesLookedAt, Stopped, IsSettled
  <2> QED BY <1>1, <2>1, <2>2, <2>3 DEF SourcesLookedAt, Stopped, Hash
<1> QED BY <1>8, <1>9, <1>10, <1>11 DEF StoreKept

LEMMA MarkBatchInFlightStore ==
    ASSUME StoreInv, NEW p \in Pipelines, MarkBatchInFlight(p)
    PROVE  StoreKept(p)
<1> USE DEF StoreInv
<1>1. /\ pc[p] = "mark" /\ pc'[p] = "label" /\ rows' = rows /\ text' = text
      /\ todo' = todo /\ seen' = seen /\ batch' = batch
  BY DEF MarkBatchInFlight, GoTo, CoreInv, BatchTypeOK
<1>2. /\ batch[p] \in SUBSET Task /\ \A t \in batch[p] : t.source \in BatchSources(p)
      /\ \A t, u \in batch[p] : t.source = u.source => t = u
      /\ \A t \in batch[p] : t.hash \in Hashes /\ t.hash = Hash(t.source)
  BY BatchFacts, TaskFields DEF CoreInv, BatchFormed
<1>3. /\ \A t \in batch[p] : items'[t.source].status = "in_flight" /\ items'[t.source].hash = t.hash
      /\ \A s \in Sources : (\A t \in batch[p] : t.source # s) => items'[s] = items[s]
  BY <1>2, MarkInFlightSets DEF MarkBatchInFlight, CoreInv, BatchTypeOK, StoresTypeOK
<1>4. RowsApart'
  BY <1>1 DEF RowsApart, Registered
<1>5. BatchCompletedIsLabeled'
  <2>1. \A s \in Sources : items'[s].status = "completed" => items'[s] = items[s]
    BY <1>3
  <2> QED BY <1>1, <2>1, CompletedStays
<1>6. BatchHasRows(p)'
  <2>1. \A t \in batch[p] : rows[t.hash] = [status |-> "in_flight", source |-> t.source]
    BY <1>1 DEF BatchHasRows
  <2> QED BY <1>1, <1>3, <2>1 DEF BatchHasRows
<1>7. SourcesLookedAt(p)'
  <2>1. BatchSources(p)' = BatchSources(p) /\ Registered' = Registered
    BY <1>1 DEF BatchSources, Registered
  <2>2. \A s \in Sources : (\E t \in batch[p] : t.source = s) => IsKnown(Hash(s))'
    <3> SUFFICES ASSUME NEW t \in batch[p] PROVE IsKnown(Hash(t.source))'
      OBVIOUS
    <3>1. rows[t.hash].status = "in_flight"
      <4>1. rows[t.hash] = [status |-> "in_flight", source |-> t.source]
        BY <1>1 DEF BatchHasRows
      <4> QED BY <4>1
    <3>2. t.hash \in Registered' /\ Hash(t.source)' = t.hash
      BY <1>1, <1>2, <3>1 DEF Registered, Hash
    <3> QED BY <1>2, <3>2, StoresAssumption DEF IsKnown
  <2>3. todo[p] \subseteq Sources /\ Owned(p) \subseteq Sources
    BY SourceParts DEF CoreInv, BatchTypeOK
  <2>4. \A s \in todo[p] : items'[s].status # "in_flight"
    <3>1. \A s \in todo[p] : items[s].status # "in_flight" /\ s \notin BatchSources(p)
      BY <1>1 DEF SourcesLookedAt, Stopped
    <3> QED BY <1>2, <1>3, <2>3, <3>1
  <2>5. \A g \in seen[p] : g \in Registered'
    BY <1>1, <2>1 DEF SourcesLookedAt, Stopped
  <2>6. ASSUME NEW s \in Owned(p) \ todo[p]
        PROVE  IsSettled(s)' \/ IsKnown(Hash(s))' \/ \E g \in seen[p] : <<g, Hash(s)>> \in Near
    <3>1. CASE \E t \in batch[p] : t.source = s
      BY <2>2, <2>3, <3>1
    <3>2. CASE \A t \in batch[p] : t.source # s
      <4>1. items'[s] = items[s]
        BY <1>3, <2>3, <3>2
      <4>2. IsKnown(Hash(s))' <=> IsKnown(Hash(s))
        BY <1>1 DEF IsKnown, Registered, Hash
      <4> QED BY <1>1, <4>1, <4>2 DEF SourcesLookedAt, Stopped, IsSettled
    <3> QED BY <3>1, <3>2
  <2> QED BY <1>1, <2>1, <2>4, <2>5, <2>6 DEF SourcesLookedAt, Stopped, Hash
<1> QED BY <1>4, <1>5, <1>6, <1>7 DEF StoreKept

LEMMA MovesStore ==
    ASSUME StoreInv, NEW p \in Pipelines, NEW s, Moves(p, s)
    PROVE  StoreKept(p)
<1> USE DEF StoreInv
<1>1. /\ pc[p] = "label" /\ pc' = pc /\ rows' = rows /\ text' = text
      /\ todo' = todo /\ seen' = seen /\ batch' = batch /\ items \in [Sources -> Item]
  BY DEF Moves, CoreInv, BatchTypeOK, StoresTypeOK
<1>2. s \in Sources /\ \A t \in batch[p] : t.source \in Sources /\ t.hash \in Hashes
  BY BatchFacts, TaskFields DEF Moves, CoreInv
<1>3. PICK t \in batch[p] : t.source = s
  BY DEF Moves, BatchSources
<1>4. rows[t.hash].status = "in_flight" /\ t.hash = Hash(s) /\ items[s].status = "in_flight"
  <2>1. rows[t.hash].status = "in_flight"
    <3>1. rows[t.hash] = [status |-> "in_flight", source |-> t.source]
      BY <1>1 DEF BatchHasRows
    <3> QED BY <3>1
  <2>2. t.hash = Hash(s)
    BY <1>3 DEF CoreInv, BatchFormed
  <2>3. items[s].status = "in_flight"
    BY <1>1, <1>3 DEF CoreInv, ItemsMatchJobs, Moves
  <2> QED BY <2>1, <2>2, <2>3
<1>5. /\ \A u \in Sources \ {s} : items'[u] = items[u]
      /\ items'[s].hash = items[s].hash
      /\ items'[s].status \in {"in_flight", "pending", "rejected"}
  BY <1>4 DEF Moves
<1>6. RowsApart'
  BY <1>1 DEF RowsApart, Registered
<1>7. BatchCompletedIsLabeled'
  <2>1. \A u \in Sources : items'[u].status = "completed" => items'[u] = items[u]
    BY <1>5
  <2> QED BY <1>1, <2>1, CompletedStays
<1>8. BatchHasRows(p)'
  <2>1. \A u \in batch[p] : items'[u.source].hash = items[u.source].hash
    BY <1>2, <1>5
  <2>2. \A u \in batch[p] : rows[u.hash] = [status |-> "in_flight", source |-> u.source]
    BY <1>1 DEF BatchHasRows
  <2>3. \A u \in batch[p] : items[u.source].hash = u.hash
    BY <1>1 DEF BatchHasRows
  <2> QED BY <1>1, <2>1, <2>2, <2>3 DEF BatchHasRows
<1>9. SourcesLookedAt(p)'
  <2>1. BatchSources(p)' = BatchSources(p) /\ Registered' = Registered
    BY <1>1 DEF BatchSources, Registered
  <2>2. todo[p] \subseteq Sources /\ Owned(p) \subseteq Sources /\ s \notin todo[p]
    BY <1>1, SourceParts DEF CoreInv, BatchTypeOK, SourcesLookedAt, Stopped, Moves
  <2>3. \A u \in todo[p] : items'[u].status # "in_flight"
    BY <1>1, <1>5, <2>2 DEF SourcesLookedAt, Stopped
  <2>4. \A u : IsKnown(Hash(u))' <=> IsKnown(Hash(u))
    BY <1>1 DEF IsKnown, Registered, Hash
  <2>5. IsKnown(Hash(s))
    BY <1>2, <1>3, <1>4, StoresAssumption DEF IsKnown, Registered
  <2>6. \A u \in Owned(p) \ todo[p] :
           IsSettled(u)' \/ IsKnown(Hash(u))' \/ \E g \in seen[p] : <<g, Hash(u)>> \in Near
    <3> TAKE u \in Owned(p) \ todo[p]
    <3>1. CASE u = s
      BY <2>4, <2>5, <3>1
    <3>2. CASE u # s
      <4>1. items'[u] = items[u]
        BY <1>5, <2>2, <3>2
      <4> QED BY <1>1, <2>4, <4>1 DEF SourcesLookedAt, Stopped, IsSettled
    <3> QED BY <3>1, <3>2
  <2>7. \A g \in seen[p] : g \in Registered
    BY <1>1 DEF SourcesLookedAt, Stopped
  <2> QED BY <1>1, <2>1, <2>2, <2>3, <2>6, <2>7 DEF SourcesLookedAt, Stopped, Hash
<1> QED BY <1>6, <1>7, <1>8, <1>9 DEF StoreKept

\* Rows and seen fingerprints stay, and no item loses what settled it.
LEMMA NextBatchLookedAt ==
    ASSUME StoreInv, NEW p \in Pipelines, NextBatch(p), rows' = rows, text' = text,
           pc[p] \in {"label", "complete"},
           \A s \in Owned(p) : items'[s] = items[s] \/ items'[s].status = "completed"
    PROVE  SourcesLookedAt(p)' /\ BatchHasRows(p)'
<1> USE DEF StoreInv
<1>1. /\ batch'[p] = {}
      /\ \/ pc'[p] = "sample" /\ seen'[p] = seen[p] /\ todo'[p] = todo[p]
         \/ pc'[p] = "done" /\ seen'[p] = {}
  BY NextBatchSets
<1>2. BatchHasRows(p)'
  BY <1>1 DEF BatchHasRows
<1>3. CASE pc'[p] = "done"
  BY <1>1, <1>2, <1>3 DEF SourcesLookedAt, Stopped
<1>4. CASE pc'[p] = "sample"
  <2>1. seen'[p] = seen[p] /\ todo'[p] = todo[p] /\ todo[p] \subseteq Owned(p)
    BY <1>1, <1>4 DEF CoreInv, BatchFormed
  <2>2. BatchSources(p)' = {} /\ Registered' = Registered
    BY <1>1 DEF BatchSources, Registered
  <2>3. \A s : Hash(s)' = Hash(s) /\ (IsKnown(Hash(s))' <=> IsKnown(Hash(s)))
    BY DEF IsKnown, Registered, Hash
  <2>4. \A s \in todo[p] : items'[s].status # "in_flight"
    <3>1. \A s \in todo[p] : items[s].status # "in_flight"
      BY DEF SourcesLookedAt, Stopped
    <3> QED BY <2>1, <3>1
  <2>5. \A s \in Owned(p) : IsSettled(s) => IsSettled(s)'
    BY DEF IsSettled
  <2>6. \A s \in Owned(p) \ todo[p] :
           IsSettled(s) \/ IsKnown(Hash(s)) \/ \E g \in seen[p] : <<g, Hash(s)>> \in Near
    BY DEF SourcesLookedAt, Stopped
  <2>7. \A s \in Owned(p) \ todo[p] :
           IsSettled(s)' \/ IsKnown(Hash(s))' \/ \E g \in seen[p] : <<g, Hash(s)'>> \in Near
    BY <2>3, <2>5, <2>6
  <2>8. \A g \in seen[p] : g \in Registered
    BY DEF SourcesLookedAt, Stopped
  <2>9. SourcesLookedAt(p)'
    BY <1>4, <2>1, <2>2, <2>4, <2>7, <2>8 DEF SourcesLookedAt, Stopped, IsSettled, Hash
  <2> QED BY <1>2, <2>9
<1> QED BY <1>1, <1>2, <1>3, <1>4

LEMMA NothingToWriteStore ==
    ASSUME StoreInv, NEW p \in Pipelines, NothingToWrite(p)
    PROVE  StoreKept(p)
<1>1. NextBatch(p) /\ rows' = rows /\ items' = items /\ text' = text /\ pc[p] = "label"
  BY DEF NothingToWrite, Gathered, storeVars
<1>2. RowsApart' /\ BatchCompletedIsLabeled'
  BY <1>1 DEF StoreInv, RowsApart, Registered, BatchCompletedIsLabeled
<1> QED BY <1>1, <1>2, NextBatchLookedAt DEF StoreKept

LEMMA WriteLabelsStore ==
    ASSUME StoreInv, NEW p \in Pipelines, WriteLabels(p)
    PROVE  StoreKept(p)
<1> USE DEF StoreInv
<1>1. /\ pc[p] = "label" /\ pc'[p] = "complete" /\ items' = items /\ text' = text
      /\ todo' = todo /\ seen' = seen /\ batch' = batch /\ job' = job
  BY DEF WriteLabels, Gathered, GoTo, procVars, CoreInv, BatchTypeOK
<1>2. /\ Labeled(p) \in SUBSET Task /\ Labeled(p) \subseteq batch[p]
      /\ \A t, u \in batch[p] : t.hash = u.hash => t = u
      /\ \A t \in batch[p] : t.hash \in Hashes
  BY BatchFacts, TaskFields DEF CoreInv, Labeled
<1>3. /\ \A t \in Labeled(p) : rows'[t.hash] = [status |-> "accepted", source |-> t.source]
      /\ \A h \in Hashes : (\A t \in Labeled(p) : t.hash # h) => rows'[h] = rows[h]
  BY <1>2, RegisterBatchSets DEF WriteLabels, CoreInv, BatchTypeOK, StoresTypeOK, HashStatus
<1>4. ASSUME NEW t \in batch[p] PROVE rows[t.hash].status = "in_flight"
  <2>1. rows[t.hash] = [status |-> "in_flight", source |-> t.source]
    BY <1>1 DEF BatchHasRows
  <2> QED BY <2>1
<1>5. Registered' = Registered
  <2>1. ASSUME NEW t \in Labeled(p) PROVE rows'[t.hash].status = "accepted"
    <3>1. rows'[t.hash] = [status |-> "accepted", source |-> t.source]
      BY <1>3
    <3> QED BY <3>1
  <2>2. \A h \in Hashes : rows'[h].status # "absent" <=> rows[h].status # "absent"
    BY <1>2, <1>3, <1>4, <2>1
  <2> QED BY <2>2 DEF Registered
<1>6. RowsApart'
  BY <1>5 DEF RowsApart
<1>7. BatchCompletedIsLabeled'
  <2>1. \A h \in Hashes : rows[h].status = "accepted" => rows'[h] = rows[h]
    BY <1>2, <1>3, <1>4
  <2> QED BY <1>1, <2>1, CompletedStays
<1>8. BatchHasRows(p)'
  <2>1. \A t \in batch[p] : items[t.source].hash = t.hash
    BY <1>1 DEF BatchHasRows
  <2>2. \A t \in batch[p] : job[t.source].step = "labeled" => t \in Labeled(p)
    BY DEF Labeled
  <2> QED BY <1>1, <1>3, <2>1, <2>2 DEF BatchHasRows
<1>9. SourcesLookedAt(p)'
  <2>1. BatchSources(p)' = BatchSources(p)
    BY <1>1 DEF BatchSources
  <2>2. \A s : (IsKnown(Hash(s))' <=> IsKnown(Hash(s))) /\ (IsSettled(s)' <=> IsSettled(s))
    BY <1>1, <1>5 DEF IsKnown, Hash, IsSettled
  <2>3. \A s \in Owned(p) \ todo[p] :
           IsSettled(s) \/ IsKnown(Hash(s)) \/ \E g \in seen[p] : <<g, Hash(s)>> \in Near
    BY <1>1 DEF SourcesLookedAt, Stopped
  <2>4. /\ todo[p] \cap BatchSources(p) = {} /\ \A s \in todo[p] : items[s].status # "in_flight"
        /\ \A g \in seen[p] : g \in Registered
    BY <1>1 DEF SourcesLookedAt, Stopped
  <2> QED BY <1>1, <1>5, <2>1, <2>2, <2>3, <2>4 DEF SourcesLookedAt, Stopped, Hash
<1> QED BY <1>6, <1>7, <1>8, <1>9 DEF StoreKept

LEMMA CompleteBatchStore ==
    ASSUME StoreInv, NEW p \in Pipelines, CompleteBatch(p)
    PROVE  StoreKept(p)
<1> USE DEF StoreInv
<1>1. NextBatch(p) /\ rows' = rows /\ text' = text /\ pc[p] = "complete"
  BY DEF CompleteBatch
<1>2. /\ \A s \in Sources :
            IF \E t \in Labeled(p) : t.source = s
            THEN items'[s].status = "completed" /\ items'[s].hash = items[s].hash
            ELSE items'[s] = items[s]
  BY CompleteBatchItems
<1>3. \A s \in Owned(p) : items'[s] = items[s] \/ items'[s].status = "completed"
  BY <1>2, SourceParts DEF CoreInv
<1>4. RowsApart'
  BY <1>1 DEF RowsApart, Registered
<1>5. BatchCompletedIsLabeled'
  <2> SUFFICES ASSUME NEW s \in Sources, items'[s].status = "completed"
               PROVE  /\ items'[s].hash \in Hashes
                      /\ rows[items'[s].hash] = [status |-> "accepted", source |-> s]
    BY <1>1 DEF BatchCompletedIsLabeled
  <2>1. CASE \E t \in Labeled(p) : t.source = s
    <3>1. PICK t \in Labeled(p) : t.source = s
      BY <2>1
    <3>2. t \in batch[p] /\ job[t.source].step = "labeled" /\ t.hash \in Hashes
      BY BatchFacts, TaskFields DEF Labeled, CoreInv
    <3>3. items[s].hash = t.hash /\ rows[t.hash] = [status |-> "accepted", source |-> t.source]
      BY <1>1, <3>1, <3>2 DEF BatchHasRows
    <3>4. items'[s].hash = items[s].hash
      BY <1>2, <2>1
    <3> QED BY <3>1, <3>2, <3>3, <3>4
  <2>2. CASE ~\E t \in Labeled(p) : t.source = s
    BY <1>2, <2>2 DEF BatchCompletedIsLabeled
  <2> QED BY <2>1, <2>2
<1> QED BY <1>1, <1>3, <1>4, <1>5, NextBatchLookedAt DEF StoreKept

\* A row names the document it was registered for, whatever overlaps.
LEMMA SuppliersStep ==
    ASSUME CoreInv, RowsNameSuppliers, NEW p \in Pipelines, StartRun(p) \/ Proceed(p) \/ Crash(p)
    PROVE  RowsNameSuppliers'
<1> DEFINE Named(h) == rows'[h].source \in Sources /\ Hash(rows'[h].source) = h
<1>1. text' = text
  BY StepCore DEF Others
<1>2. SUFFICES ASSUME NEW h \in Hashes, rows'[h].status # "absent" PROVE Named(h)
  BY <1>1 DEF RowsNameSuppliers, Registered, Hash
<1>3. rows[h].status # "absent" /\ rows'[h] = rows[h] => Named(h)
  BY DEF RowsNameSuppliers, Registered
<1>4. rows' = rows => Named(h)
  BY <1>2, <1>3
<1>5. rows \in [Hashes -> Row]
  BY DEF CoreInv, BatchTypeOK, StoresTypeOK
<1>6. ASSUME NEW ts \in SUBSET batch[p], NEW status \in {"in_flight", "accepted"},
             RegisterBatch(ts, status)
      PROVE  Named(h)
  <2>1. /\ ts \in SUBSET Task /\ \A t, u \in ts : t.hash = u.hash => t = u
        /\ \A t \in ts : t.source \in Sources /\ t.hash = Hash(t.source)
    BY BatchFacts DEF CoreInv, BatchFormed
  <2>2. /\ \A t \in ts : rows'[t.hash] = [status |-> status, source |-> t.source]
        /\ (\A t \in ts : t.hash # h) => rows'[h] = rows[h]
    BY <1>5, <1>6, <2>1, RegisterBatchSets DEF HashStatus
  <2>3. CASE \E t \in ts : t.hash = h
    <3>1. PICK t \in ts : t.hash = h
      BY <2>3
    <3>2. rows'[h] = [status |-> status, source |-> t.source]
      BY <2>2, <3>1
    <3>3. rows'[h].source = t.source
      BY <3>2
    <3> QED BY <2>1, <3>1, <3>3
  <2>4. CASE \A t \in ts : t.hash # h
    BY <1>2, <1>3, <2>2, <2>4
  <2> QED BY <2>3, <2>4
<1> HIDE DEF Named
<1>7. CASE ExpireStaleRows(p)
  <2>1. rows'[h] = rows[h] \/ rows'[h] = AbsentRow
    BY <1>5, <1>7, ExpireRowsSets DEF ExpireStaleRows
  <2>2. AbsentRow.status = "absent"
    BY DEF AbsentRow
  <2> QED BY <1>2, <1>3, <2>1, <2>2
<1>8. CASE RegisterInFlight(p)
  BY <1>6, <1>8 DEF RegisterInFlight
<1>9. CASE WriteLabels(p)
  BY <1>6, <1>9 DEF WriteLabels, Labeled
<1>10. ASSUME NEW s \in Owned(p), Coroutine(p, s) PROVE Named(h)
  <2>1. rows' = rows
    BY <1>10, CoroutineMoves DEF Moves
  <2> QED BY <1>4, <2>1
<1>11. CASE \/ StartRun(p) \/ Crash(p) \/ ExpireStaleItems(p) \/ SampleBatch(p) \/ FinishRun(p)
           \/ MarkBatchInFlight(p) \/ NothingToWrite(p) \/ CompleteBatch(p)
  <2>1. rows' = rows
    BY <1>11 DEF StartRun, Crash, ExpireStaleItems, SampleBatch, FinishRun, MarkBatchInFlight,
       NothingToWrite, CompleteBatch, storeVars
  <2> QED BY <1>4, <2>1
<1> QED BY <1>7, <1>8, <1>9, <1>10, <1>11 DEF Proceed

LEMMA StoreStep ==
    ASSUME StoreInv, Overlap = FALSE, NEW p \in Pipelines, StartRun(p) \/ Proceed(p) \/ Crash(p)
    PROVE  StoreInv'
<1>1. CoreInv' /\ Others(p)
  BY StepCore DEF StoreInv
<1>2. \A q \in Pipelines \ {p} : Stopped(q)
  <2>1. CASE StartRun(p)
    BY <2>1 DEF StartRun
  <2>2. CASE Proceed(p) \/ Crash(p)
    <3>1. ~Stopped(p)
      BY <2>2 DEF Proceed, Crash, Stopped, ExpireStaleRows, ExpireStaleItems, SampleBatch,
         FinishRun, RegisterInFlight, MarkBatchInFlight, NothingToWrite, WriteLabels, Gathered,
         CompleteBatch, Coroutine, EmptyReply, GetsLabel, StartRepair, Retry, GiveUp,
         FailedAttempt, InCall, At
    <3> QED BY <3>1 DEF StoreInv, OneRuns
  <2> QED BY <2>1, <2>2
<1>3. ASSUME NEW s \in Owned(p), Coroutine(p, s) PROVE StoreKept(p)
  BY <1>3, CoroutineMoves, MovesStore DEF StoreInv
<1>4. StoreKept(p)
  BY <1>3, StartRunStore, ExpireStaleRowsStore, ExpireStaleItemsStore, SampleBatchStore,
     FinishRunStore, RegisterInFlightStore, MarkBatchInFlightStore, NothingToWriteStore,
     WriteLabelsStore, CompleteBatchStore, CrashStore DEF Proceed
<1>5. RowsNameSuppliers'
  BY SuppliersStep DEF StoreInv
<1> QED BY <1>1, <1>2, <1>4, <1>5, OthersKeepStore DEF StoreInv, StoreKept

LEMMA StutterStore ==
    ASSUME StoreInv, UNCHANGED vars
    PROVE  StoreInv'
<1>1. UNCHANGED <<items, rows, text, pc, todo, seen, batch, job, processed, runs, troubled>>
  BY DEF vars, storeVars, procVars
<1>2. OneRuns' /\ RowsApart' /\ BatchCompletedIsLabeled'
  BY <1>1 DEF StoreInv, OneRuns, Stopped, RowsApart, Registered, BatchCompletedIsLabeled
<1>3. \A p \in Pipelines : BatchHasRows(p)'
  BY <1>1 DEF StoreInv, BatchHasRows, IsKnown, Registered
<1>4. \A p \in Pipelines : SourcesLookedAt(p)'
  BY <1>1 DEF StoreInv, SourcesLookedAt, Stopped, BatchSources, IsKnown, Registered, IsSettled, Hash
<1>5. RowsNameSuppliers'
  BY <1>1 DEF StoreInv, RowsNameSuppliers, Registered, Hash
<1> QED BY <1>1, <1>2, <1>3, <1>4, <1>5, StutterCore DEF StoreInv

LEMMA InitStore ==
    ASSUME Init
    PROVE  StoreInv
<1>1. /\ \A p \in Pipelines : pc[p] = "down" /\ seen[p] = {} /\ batch[p] = {}
      /\ \A s \in Sources : items[s] = AbsentItem
      /\ \A h \in Hashes : rows[h] = AbsentRow
  BY DEF Init, StoresInit
<1>2. \A s \in Sources : items[s].status = "absent"
  BY <1>1 DEF AbsentItem
<1>3. Registered = {}
  BY <1>1 DEF Registered, AbsentRow
<1>4. OneRuns /\ RowsApart /\ RowsNameSuppliers /\ BatchCompletedIsLabeled
  BY <1>1, <1>2, <1>3 DEF OneRuns, Stopped, RowsApart, RowsNameSuppliers, BatchCompletedIsLabeled
<1>5. \A p \in Pipelines : BatchHasRows(p) /\ SourcesLookedAt(p)
  BY <1>1 DEF BatchHasRows, SourcesLookedAt, Stopped
<1> QED BY <1>4, <1>5, InitCore DEF StoreInv

LEMMA InitTrouble ==
    ASSUME Init
    PROVE  TroubleInv
<1>1. \A s \in Sources : items[s].status = "absent"
  BY DEF Init, StoresInit, AbsentItem
<1>2. \A p \in Pipelines : TroublesNoted(p) /\ FairOn(p)
  BY <1>1, InitCore, SourceParts DEF Init, TroublesNoted, FairOn, CoreInv
<1> QED BY <1>2, InitCore DEF TroubleInv

-----------------------------------------------------------------------------
(* Theorems *)

\* Whatever overlaps and whatever dies: every value has its type, a batch holds
\* documents of its own pipeline that are no near-duplicates of each other, and
\* an item of the checkpoint says IN_FLIGHT exactly until its coroutine gave up.
THEOREM CoreInvariant == Spec => []CoreInv
<1>1. Init => CoreInv
  BY InitCore
<1>2. CoreInv /\ [Next]_vars => CoreInv'
  BY StepCore, StutterCore DEF Next
<1> QED BY <1>1, <1>2, PTL DEF Spec

\* Whatever client a pipeline has, also with pipelines that overlap: _process_one
\* rejects no document at one of whose attempts, the first or a later one, the
\* client raised TransientError.
THEOREM RejectionsAreFair == Spec => []RejectedWithoutTransient
<1>1. Init => TroubleInv
  BY InitTrouble
<1>2. TroubleInv /\ [Next]_vars => TroubleInv'
  BY TroubleStep, StutterTrouble DEF Next
<1>3. TroubleInv => RejectedWithoutTransient
  BY FairOnAll DEF TroubleInv, CoreInv
<1> QED BY <1>1, <1>2, <1>3, PTL DEF Spec

\* One pipeline at a time: the dedup store, the checkpoints and the coroutines
\* agree, across the batches, the runs and the crashes of all pipelines.
THEOREM StoreInvariant ==
    ASSUME Overlap = FALSE
    PROVE  Spec => []StoreInv
<1>1. Init => StoreInv
  BY InitStore
<1>2. StoreInv /\ [Next]_vars => StoreInv'
  BY StoreStep, StutterStore DEF Next
<1> QED BY <1>1, <1>2, PTL DEF Spec

\* The inductive invariant that the run batch_labeling checks: a completed
\* document has an accepted row of its own, and while a batch is labeled the
\* two stores say so of every document of it.
THEOREM BatchInvariant ==
    ASSUME Overlap = FALSE
    PROVE  Spec => []BatchInv
<1>1. Init => StoreInv /\ TroubleInv
  BY InitStore, InitTrouble
<1>2. StoreInv /\ [Next]_vars => StoreInv'
  BY StoreStep, StutterStore DEF Next
<1>3. TroubleInv /\ [Next]_vars => TroubleInv'
  BY TroubleStep, StutterTrouble DEF Next
<1>4. StoreInv /\ TroubleInv => BatchInv
  <2> SUFFICES ASSUME StoreInv, TroubleInv PROVE BatchInv
    OBVIOUS
  <2>1. JobsMatchCheckpoint
    BY DEF StoreInv, CoreInv, JobsMatchCheckpoint, BatchHasRows, ItemsMatchJobs
  <2>2. RejectedWithoutTransient
    BY FairOnAll DEF TroubleInv, CoreInv
  <2> QED BY <2>1, <2>2 DEF StoreInv, TroubleInv, CoreInv, BatchInv
<1> QED BY <1>1, <1>2, <1>3, <1>4, PTL DEF Spec

\* Pipelines that share the dedup database one after the other, with crashes,
\* never store labels of two near-duplicates.
THEOREM LabelsStayApart ==
    ASSUME Overlap = FALSE
    PROVE  Spec => []NoNearDuplicateLabels
<1>1. StoreInv => NoNearDuplicateLabels
  BY DEF StoreInv, RowsApart, NoNearDuplicateLabels, Accepted, Registered
<1> QED BY <1>1, StoreInvariant, PTL

\* A step that ends a run before its target: the iterator is exhausted.
LEMMA EndsLookedAt ==
    ASSUME StoreInv, NEW r \in Pipelines, StartRun(r) \/ Proceed(r) \/ Crash(r),
           NEW p \in Pipelines, pc[p] # "done", pc'[p] = "done", processed'[p] < Target
    PROVE  \A s \in Owned(p) : IsSettled(s)' \/ IsKnown(Hash(s))
<1>1. CoreInv' /\ Others(r) /\ CoreInv
  BY StepCore DEF StoreInv
<1>2. p = r
  BY <1>1 DEF Others
<1>3. processed'[p] \in Nat /\ Target \in Nat
  BY <1>1, BatchAssumption DEF CoreInv, BatchTypeOK
<1>4. ~NextBatch(p)
  <2>1. ASSUME NextBatch(p) PROVE processed'[p] >= Target
    BY <1>1, <2>1, NextBatchSets
  <2> QED BY <1>3, <2>1
<1>5. ASSUME NEW s \in Owned(p), Coroutine(p, s) PROVE FALSE
  <2>1. pc' = pc
    BY <1>1, <1>5, CoroutineMoves DEF Moves
  <2> QED BY <2>1
<1>6. \A place \in PCs : GoTo(p, place) => place = "done"
  BY <1>1 DEF GoTo, CoreInv, BatchTypeOK
<1>7. FinishRun(p)
  <2>1. ~StartRun(p) /\ ~Crash(p)
    BY <1>6 DEF StartRun, Crash, PCs
  <2>2. ~ExpireStaleRows(p) /\ ~ExpireStaleItems(p) /\ ~RegisterInFlight(p)
    BY <1>6 DEF ExpireStaleRows, ExpireStaleItems, RegisterInFlight, PCs
  <2>3. ~MarkBatchInFlight(p) /\ ~WriteLabels(p)
    BY <1>6 DEF MarkBatchInFlight, WriteLabels, PCs
  <2>4. ~SampleBatch(p)
    BY <1>6 DEF SampleBatch, PCs
  <2>5. ~NothingToWrite(p) /\ ~CompleteBatch(p)
    BY <1>4 DEF NothingToWrite, CompleteBatch
  <2> QED BY <1>2, <1>5, <2>1, <2>2, <2>3, <2>4, <2>5 DEF Proceed
<1>8. pc[p] = "sample" /\ todo[p] = {} /\ items' = items
  BY <1>7 DEF FinishRun, storeVars
<1>9. \A s \in Owned(p) :
         IsSettled(s) \/ IsKnown(Hash(s)) \/ \E g \in seen[p] : <<g, Hash(s)>> \in Near
  BY <1>8 DEF StoreInv, SourcesLookedAt, Stopped
<1>10. \A g \in seen[p] : g \in Registered
  BY <1>8 DEF StoreInv, SourcesLookedAt, Stopped
<1> QED BY <1>8, <1>9, <1>10 DEF IsSettled, IsKnown

\* A run that stops before its target has left nothing out: every document of
\* its pipeline is settled or near one the dedup store has.
THEOREM RunsLeaveNothingOut ==
    ASSUME Overlap = FALSE
    PROVE  Spec => RunLeavesNothingOut
<1>1. StoreInv /\ [Next]_vars => [LeavesNothingOut]_vars
  BY EndsLookedAt DEF Next, LeavesNothingOut
<1> QED BY <1>1, StoreInvariant, PTL DEF Spec, RunLeavesNothingOut

-----------------------------------------------------------------------------
(* What the pipelines promise: the ledger *)

\* The ledger's three variables, as functions of the two stores.
Label == [h \in Hashes |-> IF rows[h].status = "accepted" THEN rows[h].source ELSE None]
CompletedSources == {s \in Sources : items[s].status = "completed"}
RejectedSources == {s \in Sources : items[s].status = "rejected"}

\* A document has supplied nothing unless the row of its own text is accepted.
LEMMA ContributedFacts ==
    ASSUME StoreInv, NEW s \in Sources
    PROVE  Ledger!Contributed(s) <=> rows[Hash(s)] = [status |-> "accepted", source |-> s]
<1>1. Hash(s) \in Hashes /\ s # None /\ rows \in [Hashes -> Row]
  BY SourceParts, StoresAssumption DEF StoreInv, CoreInv, BatchTypeOK, StoresTypeOK
<1>2. Ledger!Contributed(s) <=> \E h \in Hashes : rows[h].status = "accepted" /\ rows[h].source = s
  BY <1>1 DEF Ledger!Contributed
<1>3. ASSUME NEW h \in Hashes, rows[h].status = "accepted", rows[h].source = s
      PROVE  h = Hash(s)
  BY <1>3 DEF StoreInv, RowsNameSuppliers, Registered
<1>4. \A h \in Hashes : rows[h] = [status |-> "accepted", source |-> s]
                           <=> rows[h].status = "accepted" /\ rows[h].source = s
  BY <1>1 DEF Row
<1> QED BY <1>1, <1>2, <1>3, <1>4

\* A document of a batch in progress has supplied nothing yet.
LEMMA BatchHasNotContributed ==
    ASSUME StoreInv, NEW p \in Pipelines, pc[p] = "label", NEW t \in batch[p]
    PROVE  /\ t.source \in Sources /\ t.hash = Hash(t.source) /\ t.hash \in Hashes
           /\ rows[t.hash].status = "in_flight" /\ ~Ledger!Contributed(t.source)
<1>1. t.source \in Sources /\ t.hash = Hash(t.source) /\ t.hash \in Hashes
  BY BatchFacts, TaskFields DEF StoreInv, CoreInv, BatchFormed
<1>2. rows[t.hash] = [status |-> "in_flight", source |-> t.source]
  BY DEF StoreInv, BatchHasRows
<1>3. rows[t.hash].status = "in_flight"
  BY <1>2
<1>4. rows[t.hash] # [status |-> "accepted", source |-> t.source]
  BY <1>3
<1> QED BY <1>1, <1>3, <1>4, ContributedFacts

\* A step that neither adds nor takes back a label or a verdict.
LEMMA QuietForLedger ==
    ASSUME \A h \in Hashes : \/ rows'[h] = rows[h]
                             \/ rows[h].status # "accepted" /\ rows'[h].status # "accepted",
           \A s \in Sources : \/ items'[s] = items[s]
                              \/ /\ items[s].status \notin {"completed", "rejected"}
                                 /\ items'[s].status \notin {"completed", "rejected"}
    PROVE  UNCHANGED Ledger!ledgerVars
<1>1. Label' = Label
  BY DEF Label
<1>2. CompletedSources' = CompletedSources
  BY DEF CompletedSources
<1>3. RejectedSources' = RejectedSources
  BY DEF RejectedSources
<1> QED BY <1>1, <1>2, <1>3 DEF Ledger!ledgerVars, Label, CompletedSources, RejectedSources

\* Writing the labels of a batch is the ledger's Accept.
LEMMA WriteLabelsIsLedgerStep ==
    ASSUME StoreInv, StoreInv', NEW p \in Pipelines, WriteLabels(p)
    PROVE  Ledger!Accept
<1>1. pc[p] = "label" /\ items' = items /\ text' = text /\ Labeled(p) \subseteq batch[p]
  BY DEF WriteLabels, Gathered, Labeled
<1>2. /\ Labeled(p) \in SUBSET Task
      /\ \A t, u \in batch[p] : (t.hash = u.hash => t = u) /\ (t.source = u.source => t = u)
  BY <1>1, BatchFacts DEF StoreInv, CoreInv
<1>3. /\ rows \in [Hashes -> Row] /\ rows' \in [Hashes -> Row]
  BY DEF StoreInv, CoreInv, BatchTypeOK, StoresTypeOK
<1>4. /\ \A t \in Labeled(p) : rows'[t.hash] = [status |-> "accepted", source |-> t.source]
      /\ \A h \in Hashes : (\A t \in Labeled(p) : t.hash # h) => rows'[h] = rows[h]
  BY <1>1, <1>2, <1>3, RegisterBatchSets DEF WriteLabels, HashStatus
<1>5. Label \in [Hashes -> Sources \cup {None}] /\ Label' \in [Hashes -> Sources \cup {None}]
  BY <1>3 DEF Label, Row
<1>6. ASSUME NEW h \in Hashes, Label'[h] # Label[h]
      PROVE  /\ Label[h] = None
             /\ Label'[h] \in Sources \ (CompletedSources \cup RejectedSources)
             /\ ~Ledger!Contributed(Label'[h])
             /\ \A g \in Hashes \ {h} : Label'[g] # None =>
                    Label'[g] # Label'[h] /\ <<g, h>> \notin Near
  <2>1. PICK t \in Labeled(p) : t.hash = h
    <3>1. rows'[h] # rows[h]
      BY <1>6 DEF Label
    <3> QED BY <1>4, <3>1
  <2>2. t \in batch[p] /\ job[t.source].step = "labeled"
    BY DEF Labeled
  <2>3. /\ t.source \in Sources /\ h = Hash(t.source) /\ rows[h].status = "in_flight"
        /\ ~Ledger!Contributed(t.source)
    BY <1>1, <2>1, <2>2, BatchHasNotContributed
  <2>4. rows'[h].status = "accepted" /\ rows'[h].source = t.source
    <3>1. rows'[h] = [status |-> "accepted", source |-> t.source]
      BY <1>4, <2>1
    <3> QED BY <3>1
  <2>5. Label[h] = None /\ Label'[h] = t.source
    BY <2>3, <2>4 DEF Label
  <2>6. items[t.source].status = "in_flight"
    BY <1>1, <2>2 DEF StoreInv, CoreInv, ItemsMatchJobs
  <2>7. t.source \notin CompletedSources \cup RejectedSources
    BY <2>6 DEF CompletedSources, RejectedSources
  <2>8. ASSUME NEW g \in Hashes \ {h}, Label'[g] # None
        PROVE  Label'[g] # t.source /\ <<g, h>> \notin Near
    <3>1. rows'[g].status = "accepted" /\ Label'[g] = rows'[g].source
      BY <2>8 DEF Label
    <3>2. g \in Registered' /\ h \in Registered'
      BY <2>4, <3>1 DEF Registered
    <3>3. <<g, h>> \notin Near
      BY <3>2 DEF StoreInv, RowsApart
    <3>4. Hash(rows'[g].source) = g
      BY <1>1, <3>2 DEF StoreInv, RowsNameSuppliers, Hash
    <3> QED BY <2>3, <3>1, <3>3, <3>4
  <2> QED BY <2>3, <2>5, <2>7, <2>8
<1>7. CompletedSources' = CompletedSources /\ RejectedSources' = RejectedSources
  BY <1>1 DEF CompletedSources, RejectedSources
<1> QED BY <1>5, <1>6, <1>7 DEF Ledger!Accept, Label, CompletedSources, RejectedSources

\* Marking the labelled documents completed is the ledger's Complete.
LEMMA CompleteBatchIsLedgerStep ==
    ASSUME StoreInv, NEW p \in Pipelines, CompleteBatch(p)
    PROVE  Ledger!Complete
<1>1. pc[p] = "complete" /\ rows' = rows
  BY DEF CompleteBatch
<1> DEFINE S == {t.source : t \in Labeled(p)}
<1>2. ASSUME NEW s \in S
      PROVE  s \in Sources /\ Ledger!Contributed(s) /\ items[s].status = "in_flight"
  <2>1. PICK t \in Labeled(p) : t.source = s
    OBVIOUS
  <2>2. t \in batch[p] /\ job[t.source].step = "labeled"
    BY DEF Labeled
  <2>3. s \in Sources /\ t.hash = Hash(s)
    BY <2>1, <2>2, BatchFacts DEF StoreInv, CoreInv, BatchFormed
  <2>4. rows[Hash(s)] = [status |-> "accepted", source |-> s]
    <3>1. BatchHasRows(p)
      BY DEF StoreInv
    <3>2. rows[t.hash] = [status |-> "accepted", source |-> t.source]
      BY <1>1, <2>2, <3>1 DEF BatchHasRows
    <3> QED BY <2>1, <2>3, <3>2
  <2>5. items[s].status = "in_flight"
    BY <1>1, <2>1, <2>2 DEF StoreInv, CoreInv, ItemsMatchJobs
  <2> QED BY <2>3, <2>4, <2>5, ContributedFacts
<1>3. \A s \in Sources : IF s \in S THEN items'[s].status = "completed" ELSE items'[s] = items[s]
  BY CompleteBatchItems DEF StoreInv
<1> HIDE DEF S
<1>4. S \in SUBSET Sources /\ \A s \in S : Ledger!Contributed(s)
  BY <1>2
<1>5. CompletedSources' = CompletedSources \cup S
  BY <1>3, <1>4 DEF CompletedSources
<1>6. RejectedSources' = RejectedSources
  <2>1. \A s \in Sources : items'[s].status = "rejected" <=> items[s].status = "rejected"
    BY <1>2, <1>3
  <2> QED BY <2>1 DEF RejectedSources
<1>7. Label' = Label
  BY <1>1 DEF Label
<1> QED BY <1>4, <1>5, <1>6, <1>7 DEF Ledger!Complete, Label, CompletedSources, RejectedSources

\* A coroutine that gives its document up for good is the ledger's Reject; every
\* other one leaves the ledger alone.
LEMMA CoroutineIsLedgerStep ==
    ASSUME StoreInv, NEW p \in Pipelines, NEW s \in Owned(p), Moves(p, s)
    PROVE  Ledger!Reject(s) \/ UNCHANGED Ledger!ledgerVars
<1>1. rows' = rows /\ pc[p] = "label" /\ s \in Sources
  BY SourceParts DEF Moves, StoreInv, CoreInv
<1>2. PICK t \in batch[p] : t.source = s
  BY DEF Moves, BatchSources
<1>3. items[s].status = "in_flight" /\ ~Ledger!Contributed(s)
  <2>1. items[s].status = "in_flight"
    BY <1>1, <1>2 DEF StoreInv, CoreInv, ItemsMatchJobs, Moves
  <2> QED BY <1>1, <1>2, <2>1, BatchHasNotContributed
<1>4. \A u \in Sources \ {s} : items'[u] = items[u]
  BY DEF Moves
<1>5. CASE items'[s].status = "rejected"
  <2>1. RejectedSources' = RejectedSources \cup {s}
    BY <1>1, <1>3, <1>4, <1>5 DEF RejectedSources
  <2>2. CompletedSources' = CompletedSources
    BY <1>1, <1>3, <1>4, <1>5 DEF CompletedSources
  <2>3. Label' = Label
    BY <1>1 DEF Label
  <2> QED BY <1>3, <2>1, <2>2, <2>3 DEF Ledger!Reject, Label, CompletedSources, RejectedSources
<1>6. CASE items'[s].status # "rejected"
  <2>1. items'[s] = items[s] \/ items'[s].status = "pending"
    BY <1>1, <1>6 DEF Moves
  <2> QED BY <1>1, <1>3, <1>4, <2>1, QuietForLedger
<1> QED BY <1>5, <1>6

\* Neither start-up, nor sampling, registering and marking, nor the end of a run
\* or of the process touches a label or a verdict.
LEMMA OtherStepsAreQuiet ==
    ASSUME StoreInv, NEW p \in Pipelines,
           \/ StartRun(p) \/ Crash(p) \/ ExpireStaleRows(p) \/ ExpireStaleItems(p)
           \/ SampleBatch(p) \/ FinishRun(p) \/ RegisterInFlight(p) \/ MarkBatchInFlight(p)
           \/ NothingToWrite(p)
    PROVE  UNCHANGED Ledger!ledgerVars
<1>1. rows \in [Hashes -> Row] /\ items \in [Sources -> Item]
  BY DEF StoreInv, CoreInv, BatchTypeOK, StoresTypeOK
<1>2. /\ batch[p] \in SUBSET Task /\ \A t \in batch[p] : t.source \in Sources /\ t.hash \in Hashes
      /\ \A t, u \in batch[p] : (t.source = u.source => t = u) /\ (t.hash = u.hash => t = u)
  BY BatchFacts, TaskFields DEF StoreInv, CoreInv
<1>3. CASE StartRun(p) \/ Crash(p) \/ FinishRun(p) \/ NothingToWrite(p)
  <2>1. rows' = rows /\ items' = items
    BY <1>3 DEF StartRun, Crash, FinishRun, NothingToWrite, storeVars
  <2> QED BY <2>1, QuietForLedger
<1>4. CASE ExpireStaleRows(p)
  <2>1. \A h \in Hashes : \/ rows'[h] = rows[h]
                          \/ rows[h].status = "in_flight" /\ rows'[h] = AbsentRow
    BY <1>1, <1>4, ExpireRowsSets DEF ExpireStaleRows
  <2>2. AbsentRow.status = "absent" /\ items' = items
    BY <1>4 DEF AbsentRow, ExpireStaleRows
  <2> QED BY <2>1, <2>2, QuietForLedger
<1>5. CASE ExpireStaleItems(p)
  <2>1. \A s \in Sources : IF s \in Owned(p) /\ items[s].status = "in_flight"
                           THEN items'[s] = AbsentItem ELSE items'[s] = items[s]
    BY <1>1, <1>5, ExpireItemsSets DEF ExpireStaleItems
  <2>2. AbsentItem.status = "absent" /\ rows' = rows
    BY <1>5 DEF AbsentItem, ExpireStaleItems
  <2> QED BY <2>1, <2>2, QuietForLedger
<1>6. CASE SampleBatch(p)
  <2>1. PICK B \in SUBSET todo[p] : SelectPending(B)
    BY <1>6 DEF SampleBatch
  <2>2. /\ \A s \in Sources \ B : items'[s] = items[s]
        /\ \A s \in Sources \cap B :
              IF items[s].status \in {"completed", "rejected"} THEN items'[s] = items[s]
                                                              ELSE items'[s].status = "pending"
    BY <1>1, <2>1, SelectPendingSets
  <2>3. rows' = rows
    BY <1>6 DEF SampleBatch
  <2> QED BY <2>2, <2>3, QuietForLedger
<1>7. CASE RegisterInFlight(p)
  <2>1. pc[p] = "register" /\ items' = items /\ RegisterBatch(batch[p], "in_flight")
    BY <1>7 DEF RegisterInFlight
  <2>2. /\ \A t \in batch[p] : rows'[t.hash] = [status |-> "in_flight", source |-> t.source]
        /\ \A h \in Hashes : (\A t \in batch[p] : t.hash # h) => rows'[h] = rows[h]
    BY <1>1, <1>2, <2>1, RegisterBatchSets DEF HashStatus
  <2>3. ASSUME NEW t \in batch[p]
        PROVE  rows[t.hash].status # "accepted" /\ rows'[t.hash].status # "accepted"
    <3>1. ~IsKnown(t.hash)
      BY <2>1 DEF StoreInv, BatchHasRows
    <3>2. t.hash \notin Registered
      BY <3>1, RegisteredIsKnown
    <3>3. rows[t.hash].status = "absent"
      BY <1>2, <3>2 DEF Registered
    <3>4. rows'[t.hash] = [status |-> "in_flight", source |-> t.source]
      BY <2>2
    <3>5. rows'[t.hash].status = "in_flight"
      BY <3>4
    <3> QED BY <3>3, <3>5
  <2>4. \A h \in Hashes : \/ rows'[h] = rows[h]
                          \/ rows[h].status # "accepted" /\ rows'[h].status # "accepted"
    BY <2>2, <2>3
  <2> QED BY <2>1, <2>4, QuietForLedger
<1>8. CASE MarkBatchInFlight(p)
  <2>1. pc[p] = "mark" /\ rows' = rows /\ MarkInFlight(batch[p])
    BY <1>8 DEF MarkBatchInFlight
  <2>2. /\ \A t \in batch[p] : items'[t.source].status = "in_flight"
        /\ \A s \in Sources : (\A t \in batch[p] : t.source # s) => items'[s] = items[s]
    BY <1>1, <1>2, <2>1, MarkInFlightSets
  <2>3. \A t \in batch[p] : items[t.source].status = "pending"
    BY <2>1 DEF StoreInv, CoreInv, ItemsMatchJobs
  <2>4. \A s \in Sources : \/ items'[s] = items[s]
                           \/ /\ items[s].status \notin {"completed", "rejected"}
                              /\ items'[s].status \notin {"completed", "rejected"}
    BY <2>2, <2>3
  <2> QED BY <2>1, <2>4, QuietForLedger
<1> QED BY <1>3, <1>4, <1>5, <1>6, <1>7, <1>8

\* While pipelines take turns, with their batches, coroutines, retries and
\* crashes, they do nothing but what the ledger of the distributed pipeline
\* allows: labels enter the shared set apart from each other, verdicts follow
\* them, and neither is taken back.
THEOREM BatchPipelinesImplementLedger ==
    ASSUME Overlap = FALSE
    PROVE  Spec => BatchImplementsLedger
<1>1. Init => Ledger!Init
  BY DEF Init, StoresInit, AbsentRow, AbsentItem, Ledger!Init
<1>2. StoreInv /\ StoreInv' /\ [Next]_vars => [Ledger!Next]_(Ledger!ledgerVars)
  <2> SUFFICES ASSUME StoreInv, StoreInv', [Next]_vars PROVE [Ledger!Next]_(Ledger!ledgerVars)
    OBVIOUS
  <2>1. CASE UNCHANGED vars
    <3>1. rows' = rows /\ items' = items
      BY <2>1 DEF vars, storeVars
    <3> QED BY <3>1, QuietForLedger
  <2>2. ASSUME NEW p \in Pipelines, StartRun(p) \/ Proceed(p) \/ Crash(p)
        PROVE  Ledger!Next \/ UNCHANGED Ledger!ledgerVars
    <3>1. ASSUME NEW s \in Owned(p), Coroutine(p, s)
          PROVE  Ledger!Next \/ UNCHANGED Ledger!ledgerVars
      <4>1. s \in Sources
        BY SourceParts DEF StoreInv, CoreInv
      <4>2. Ledger!Reject(s) \/ UNCHANGED Ledger!ledgerVars
        BY <3>1, CoroutineMoves, CoroutineIsLedgerStep DEF StoreInv
      <4> QED BY <4>1, <4>2 DEF Ledger!Next
    <3>2. CASE WriteLabels(p)
      BY <3>2, WriteLabelsIsLedgerStep DEF Ledger!Next
    <3>3. CASE CompleteBatch(p)
      BY <3>3, CompleteBatchIsLedgerStep DEF Ledger!Next
    <3>4. CASE ~(WriteLabels(p) \/ CompleteBatch(p) \/ \E s \in Owned(p) : Coroutine(p, s))
      BY <2>2, <3>4, OtherStepsAreQuiet DEF Proceed
    <3> QED BY <3>1, <3>2, <3>3, <3>4
  <2> QED BY <2>1, <2>2 DEF Next
<1> QED BY <1>1, <1>2, StoreInvariant, PTL DEF Spec, BatchImplementsLedger, Ledger!Spec
=============================================================================
