--------------------------- MODULE LabelingStores ---------------------------
(***************************************************************************)
(* The two persistent stores of the labeling pipeline, both written by the *)
(* orchestrator only:                                                      *)
(*   items  the JSON checkpoint (FileCheckpointStore), one item per source;*)
(*          with several checkpoints, each owns a part of Sources          *)
(*   rows   the SQLite table of recipe hashes (SimHashDedupStore)          *)
(* Every operation below is one durable write: the checkpoint replaces its *)
(* file with os.replace, the dedup store commits one transaction.  A crash *)
(* falls before or after an operation, never inside it.                    *)
(* Two fingerprints are Near when their Hamming distance is within the     *)
(* threshold; that the block index finds exactly those is a question about *)
(* the index, not about its callers.                                       *)
(***************************************************************************)
EXTENDS Naturals, FiniteSets

CONSTANTS Sources,   \* the documents, by source_id
          Hashes,    \* the fingerprints recipe_card_hash can return
          Near,      \* pairs of fingerprints within the threshold
          None       \* absence of a hash, a source, a message

ASSUME StoresAssumption ==
    /\ Near \subseteq Hashes \X Hashes
    /\ \A h \in Hashes : <<h, h>> \in Near
    /\ \A g, h \in Hashes : <<g, h>> \in Near => <<h, g>> \in Near
    /\ None \notin Hashes \cup Sources

VARIABLES items, rows

storeVars == <<items, rows>>

\* What a task names: the document and the fingerprint it had when sampled.
Task == [source : Sources, hash : Hashes]

ItemStatus == {"absent", "pending", "in_flight", "completed", "rejected"}
HashStatus == {"absent", "in_flight", "accepted"}

Item == [status : ItemStatus, attempts : Nat, hash : Hashes \cup {None}]
Row  == [status : HashStatus, source : Sources \cup {None}]

AbsentItem == [status |-> "absent", attempts |-> 0, hash |-> None]
NewItem    == [status |-> "pending", attempts |-> 0, hash |-> None]
AbsentRow  == [status |-> "absent", source |-> None]

StoresTypeOK ==
    /\ items \in [Sources -> Item]
    /\ rows \in [Hashes -> Row]

StoresInit ==
    /\ items = [s \in Sources |-> AbsentItem]
    /\ rows = [h \in Hashes |-> AbsentRow]

-----------------------------------------------------------------------------
(* FileCheckpointStore *)

Ready(B) == {s \in B : items[s].status \in {"absent", "pending"}}

\* Unknown sources become PENDING; an IN_FLIGHT one is reset but not returned.
SelectPending(B) ==
    items' = [s \in Sources |->
                IF s \notin B THEN items[s]
                ELSE IF items[s].status = "absent" THEN NewItem
                ELSE IF items[s].status = "in_flight"
                     THEN [items[s] EXCEPT !.status = "pending"]
                ELSE items[s]]

\* The IN_FLIGHT items of the checkpoint that holds the sources in owned are
\* deleted, their attempt counters with them.
ExpireItems(owned) ==
    items' = [s \in Sources |->
                IF s \in owned /\ items[s].status = "in_flight"
                THEN AbsentItem ELSE items[s]]

MarkInFlight(ts) ==
    items' = [s \in Sources |->
                IF \E t \in ts : t.source = s
                THEN [status |-> "in_flight",
                      attempts |-> items[s].attempts + 1,
                      hash |-> (CHOOSE t \in ts : t.source = s).hash]
                ELSE items[s]]

MarkItem(s, status) == items' = [items EXCEPT ![s].status = status]

-----------------------------------------------------------------------------
(* SimHashDedupStore *)

Registered == {h \in Hashes : rows[h].status # "absent"}
Accepted   == {h \in Hashes : rows[h].status = "accepted"}

\* Faulty variant: only the exact fingerprint is looked up.
IsKnownExactly(h) == h \in Registered

\* lookup and lookup_batch: is a stored fingerprint within the threshold?
IsKnown(h) == \E g \in Registered : <<g, h>> \in Near

\* INSERT OR REPLACE, keyed by the exact fingerprint.
RegisterBatch(ts, status) ==
    rows' = [h \in Hashes |->
               IF \E t \in ts : t.hash = h
               THEN [status |-> status,
                     source |-> (CHOOSE t \in ts : t.hash = h).source]
               ELSE rows[h]]

InFlightRows == {h \in Hashes : rows[h].status = "in_flight"}

\* Faulty variant: start-up expires rows of every status.
ExpireAllRows(kept) == rows' = [h \in Hashes |-> IF h \in kept THEN rows[h] ELSE AbsentRow]

\* expire_stale(0) compares timestamps of one-second resolution, strictly: a
\* row created within the current second is not expired.  kept is that set.
ExpireRows(kept) ==
    rows' = [h \in Hashes |->
               IF rows[h].status = "in_flight" /\ h \notin kept
               THEN AbsentRow ELSE rows[h]]
=============================================================================
