---------------------------- MODULE SimHashIndex ----------------------------
(***************************************************************************)
(* SimHashDedupStore over SQLite: the table of fingerprints and the block  *)
(* index beside it, shared by several processes, each with one connection. *)
(* A fingerprint is the set of its one-bits.  Every bit belongs to a block *)
(* of the index, and two fingerprints are candidates for each other when   *)
(* they agree on a whole block.                                            *)
(*                                                                         *)
(* SQLite itself is external: the first INSERT, UPDATE or DELETE of a      *)
(* connection takes the only write lock and opens a transaction on the     *)
(* committed state; its writes are seen by nobody else until it commits; a *)
(* process that dies loses them.  A SELECT outside a transaction reads the *)
(* committed state of that moment, so that a lookup, which is several      *)
(* SELECTs, may see a different state in each.                             *)
(***************************************************************************)
EXTENDS Naturals, FiniteSets

CONSTANTS Processes,
          Bits, Blocks,
          BlockOf,     \* the block each bit belongs to
          Threshold,   \* the largest distance that counts as a duplicate
          Hashes,      \* the fingerprints that occur
          None         \* no process holds the write lock

ASSUME IndexAssumption ==
    /\ IsFiniteSet(Bits) /\ IsFiniteSet(Blocks)
    /\ BlockOf \in [Bits -> Blocks]
    /\ Threshold \in Nat
    /\ Hashes \subseteq SUBSET Bits
    /\ None \notin Processes

VARIABLES rows,     \* simhashes, committed: the status of each hash
          index,    \* simhash_index, committed: block, block value, hash
          writer,   \* the process that holds the write lock
          draft,    \* both as the open transaction has made them, if there is one
          job,      \* what each process does
          during    \* history: what was registered while a process looked up

vars == <<rows, index, writer, draft, job, during>>

HashStatus == {"absent", "in_flight", "accepted"}

BlockValue(h, b) == {bit \in h : BlockOf[bit] = b}
Entries(h) == {<<b, BlockValue(h, b), h>> : b \in Blocks}
EntriesOf(H) == UNION {Entries(h) : h \in H}

Differing(g, h) == (g \ h) \cup (h \ g)
IsNear(g, h) == Cardinality(Differing(g, h)) <= Threshold

RowsOf(r) == {h \in Hashes : r[h] # "absent"}
Registered == RowsOf(rows)

\* What a job works on: the hashes it deletes or looks up; the blocks
\* not queried yet; the candidates of each hash; the hashes found known.
Job == [step : {"idle", "expire", "commit", "query", "fetch", "answered"},
        hashes : SUBSET Hashes,
        unread : SUBSET Blocks,
        candidates : SUBSET (Hashes \X Hashes),
        known : SUBSET Hashes]

Idle == [step |-> "idle", hashes |-> {}, unread |-> {},
         candidates |-> {}, known |-> {}]

During == [steady : SUBSET Hashes, touched : SUBSET Hashes]

IndexTypeOK ==
    /\ rows \in [Hashes -> HashStatus]
    /\ index \subseteq Blocks \X (SUBSET Bits) \X Hashes
    /\ writer \in Processes \cup {None}
    /\ draft \in [rows : [Hashes -> HashStatus],
                  index : SUBSET (Blocks \X (SUBSET Bits) \X Hashes)]
    /\ job \in [Processes -> Job]
    /\ during \in [Processes -> During]

Committed == [rows |-> rows, index |-> index]

Init ==
    /\ rows = [h \in Hashes |-> "absent"]
    /\ index = {}
    /\ writer = None
    /\ draft = Committed
    /\ job = [p \in Processes |-> Idle]
    /\ during = [p \in Processes |-> [steady |-> {}, touched |-> {}]]

-----------------------------------------------------------------------------
(* register, register_batch, update_status, update_status_batch.  Between its *)
(* first statement and its commit a writer is alone, so its statements are    *)
(* one step.                                                                  *)

TakesLock(p) == writer = None /\ writer' = p

\* Faulty variant: the rows are written but not indexed.
RegisterUnindexed(p, H, status) ==
    /\ job[p].step = "idle"
    /\ TakesLock(p)
    /\ draft' = [Committed EXCEPT !.rows = [h \in Hashes |-> IF h \in H THEN status ELSE @[h]]]
    /\ job' = [job EXCEPT ![p] = [Idle EXCEPT !.step = "commit"]]
    /\ UNCHANGED <<rows, index, during>>

\* INSERT OR REPLACE of each row, INSERT OR IGNORE of its index entries.
Register(p, H, status) ==
    /\ job[p].step = "idle"
    /\ TakesLock(p)
    /\ draft' = [rows |-> [h \in Hashes |-> IF h \in H THEN status ELSE rows[h]],
                 index |-> index \cup EntriesOf(H)]
    /\ job' = [job EXCEPT ![p] = [Idle EXCEPT !.step = "commit"]]
    /\ UNCHANGED <<rows, index, during>>

\* Faulty variant: the status is written with the checkpoint's word for success.
UpdateCompleted(p, H, status) ==
    /\ job[p].step = "idle"
    /\ TakesLock(p)
    /\ draft' = [Committed EXCEPT !.rows =
                   [h \in Hashes |-> IF h \in H \cap Registered THEN "completed" ELSE @[h]]]
    /\ job' = [job EXCEPT ![p] = [Idle EXCEPT !.step = "commit"]]
    /\ UNCHANGED <<rows, index, during>>

\* UPDATE changes the rows there are.
UpdateStatus(p, H, status) ==
    /\ job[p].step = "idle"
    /\ TakesLock(p)
    /\ draft' = [Committed EXCEPT !.rows =
                   [h \in Hashes |-> IF h \in H \cap Registered THEN status ELSE @[h]]]
    /\ job' = [job EXCEPT ![p] = [Idle EXCEPT !.step = "commit"]]
    /\ UNCHANGED <<rows, index, during>>

\* For a lookup in progress a hash stays steady if the commit keeps it, and is
\* touched if the commit has it.
Commit(p) ==
    /\ job[p].step = "commit"
    /\ rows' = draft.rows /\ index' = draft.index
    /\ writer' = None
    /\ job' = [job EXCEPT ![p] = Idle]
    /\ during' = [q \in Processes |->
                    IF job[q].step \in {"query", "fetch"}
                    THEN [steady  |-> during[q].steady \cap RowsOf(draft.rows),
                          touched |-> during[q].touched \cup RowsOf(draft.rows)]
                    ELSE during[q]]
    /\ UNCHANGED draft

-----------------------------------------------------------------------------
(* expire_stale *)

\* The SELECT.  kept are the rows created within the current second, which the
\* comparison of timestamps does not count as stale.
SelectStale(p) ==
    /\ job[p].step = "idle"
    /\ \E kept \in SUBSET Hashes :
         LET stale == {h \in Hashes : rows[h] = "in_flight"} \ kept
         IN  /\ stale # {}
             /\ job' = [job EXCEPT ![p] = [Idle EXCEPT !.step = "expire", !.hashes = stale]]
    /\ UNCHANGED <<rows, index, writer, draft, during>>

\* Faulty variant: the index entries are left behind.
DeleteRowsOnly(p) ==
    /\ job[p].step = "expire"
    /\ TakesLock(p)
    /\ draft' = [Committed EXCEPT !.rows =
                   [h \in Hashes |-> IF h \in job[p].hashes THEN "absent" ELSE @[h]]]
    /\ job' = [job EXCEPT ![p] = [Idle EXCEPT !.step = "commit"]]
    /\ UNCHANGED <<rows, index, during>>

\* The two DELETEs, by hash, whatever the status is by now.
DeleteStale(p) ==
    /\ job[p].step = "expire"
    /\ TakesLock(p)
    /\ draft' = [rows |-> [h \in Hashes |-> IF h \in job[p].hashes
                                            THEN "absent" ELSE rows[h]],
                 index |-> index \ EntriesOf(job[p].hashes)]
    /\ job' = [job EXCEPT ![p] = [Idle EXCEPT !.step = "commit"]]
    /\ UNCHANGED <<rows, index, during>>

-----------------------------------------------------------------------------
(* lookup_batch; lookup is the same with one hash *)

StartLookup(p) ==
    /\ job[p].step = "idle"
    /\ \E H \in SUBSET Hashes \ {{}} :
         job' = [job EXCEPT ![p] =
                   [Idle EXCEPT !.step = "query", !.hashes = H, !.unread = Blocks]]
    /\ during' = [during EXCEPT ![p] = [steady |-> Registered, touched |-> Registered]]
    /\ UNCHANGED <<rows, index, writer, draft>>

\* Faulty variant: only candidates that share every block are kept.
QueryExactly(p, b) ==
    /\ job[p].step = "query" /\ b \in job[p].unread
    /\ LET found == {gh \in Hashes \X job[p].hashes :
                       \A c \in Blocks : <<c, BlockValue(gh[2], c), gh[1]>> \in index}
       IN  job' = [job EXCEPT ![p].candidates = @ \cup found,
                              ![p].unread = @ \ {b},
                              ![p].step = IF job[p].unread = {b} THEN "fetch" ELSE @]
    /\ UNCHANGED <<rows, index, writer, draft, during>>

\* One SELECT on the index per block, for all the hashes at once; a candidate
\* is kept with the inputs it shares that block with.
QueryBlock(p, b) ==
    /\ job[p].step = "query" /\ b \in job[p].unread
    /\ LET found == {gh \in Hashes \X job[p].hashes :
                       <<b, BlockValue(gh[2], b), gh[1]>> \in index}
       IN  job' = [job EXCEPT ![p].candidates = @ \cup found,
                              ![p].unread = @ \ {b},
                              ![p].step = IF job[p].unread = {b} THEN "fetch" ELSE @]
    /\ UNCHANGED <<rows, index, writer, draft, during>>

\* Faulty variant: the candidates are not compared with the input at all.
FetchUnchecked(p) ==
    /\ job[p].step = "fetch"
    /\ job' = [job EXCEPT ![p].step = "answered",
                          ![p].candidates = {},
                          ![p].known = {h \in job[p].hashes :
                             \E g \in Registered : <<g, h>> \in job[p].candidates}]
    /\ UNCHANGED <<rows, index, writer, draft, during>>

\* The SELECT of the candidates' rows and the Hamming check; a candidate
\* without a row is skipped.
FetchStatuses(p) ==
    /\ job[p].step = "fetch"
    /\ job' = [job EXCEPT ![p].step = "answered",
                          ![p].candidates = {},
                          ![p].known = {h \in job[p].hashes :
                             \E g \in Registered : /\ <<g, h>> \in job[p].candidates
                                                   /\ IsNear(g, h)}]
    /\ UNCHANGED <<rows, index, writer, draft, during>>

UseAnswer(p) ==
    /\ job[p].step = "answered"
    /\ job' = [job EXCEPT ![p] = Idle]
    /\ during' = [during EXCEPT ![p] = [steady |-> {}, touched |-> {}]]
    /\ UNCHANGED <<rows, index, writer, draft>>

-----------------------------------------------------------------------------

\* The process dies and is started again: an open transaction is rolled back.
Crash(p) ==
    /\ job[p].step # "idle"
    /\ IF writer = p THEN writer' = None /\ draft' = Committed
                     ELSE UNCHANGED <<writer, draft>>
    /\ job' = [job EXCEPT ![p] = Idle]
    /\ during' = [during EXCEPT ![p] = [steady |-> {}, touched |-> {}]]
    /\ UNCHANGED <<rows, index>>

Next == \E p \in Processes :
    \/ \E H \in SUBSET Hashes \ {{}}, status \in HashStatus \ {"absent"} :
          Register(p, H, status) \/ UpdateStatus(p, H, status)
    \/ Commit(p)
    \/ SelectStale(p) \/ DeleteStale(p)
    \/ StartLookup(p) \/ FetchStatuses(p) \/ UseAnswer(p)
    \/ \E b \in Blocks : QueryBlock(p, b)
    \/ Crash(p)

Spec == Init /\ [][Next]_vars

-----------------------------------------------------------------------------
(* Properties *)

\* Every committed row has exactly one index entry per block and no entry is an
\* orphan: a transaction writes or deletes both, whatever dies in between.
IndexMatchesRows == index = EntriesOf(Registered)

\* The agreement of the committed tables is kept only if the open transaction,
\* which the next commit publishes, agrees as well.
TablesAgree ==
    /\ IndexMatchesRows
    /\ draft.index = EntriesOf(RowsOf(draft.rows))

\* Types, and the agreement of both copies of the two tables: the inductive
\* invariant.
IndexInv == IndexTypeOK /\ TablesAgree

\* A lookup that overlaps the writes of other processes never misses a hash
\* within the threshold that was registered throughout: two such hashes share
\* a block, and the index of a steady hash is there whichever block is read
\* when.
FindsEveryNearDuplicate ==
    \A p \in Processes : job[p].step = "answered" =>
        \A h \in job[p].hashes \ job[p].known :
            \A g \in during[p].steady : ~ IsNear(g, h)

\* A lookup never reports a hash as known unless one within the threshold was
\* registered at some moment of it: documents are not skipped for nothing.
KnownForAReason ==
    \A p \in Processes : job[p].step = "answered" =>
        \A h \in job[p].known : \E g \in during[p].touched : IsNear(g, h)

\* expire_stale removes entries in flight: an accepted row stays.
ExpiryTakesInFlightOnly ==
    [][\A h \in Hashes : rows[h] = "accepted" => rows'[h] # "absent"]_vars
=============================================================================
