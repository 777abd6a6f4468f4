------------------------- MODULE SimHashIndexProofs -------------------------
(***************************************************************************)
(* Proofs about the block index, for any number of processes, bits, blocks *)
(* and fingerprints.  The index is a function of the rows whatever dies,   *)
(* and with more blocks than the threshold a lookup misses nothing that    *)
(* was there throughout.                                                   *)
(***************************************************************************)
EXTENDS SimHashIndex, FiniteSetTheorems, TLAPS

-----------------------------------------------------------------------------
(* The pigeonhole argument *)

\* Two fingerprints that differ in fewer bits than there are blocks agree on
\* a whole block: mapping each block to a differing bit of it would be an
\* injection.
LEMMA SharedBlock ==
    ASSUME NEW g \in SUBSET Bits, NEW h \in SUBSET Bits,
           Threshold < Cardinality(Blocks), IsNear(g, h)
    PROVE  \E b \in Blocks : BlockValue(g, b) = BlockValue(h, b)
<1> SUFFICES ASSUME \A b \in Blocks : BlockValue(g, b) # BlockValue(h, b)
             PROVE  FALSE
    OBVIOUS
<1> DEFINE D == Differing(g, h)
           pick == [b \in Blocks |-> CHOOSE bit \in D : BlockOf[bit] = b]
<1>1. /\ IsFiniteSet(D) /\ Cardinality(D) \in Nat
      /\ D \subseteq Bits
  <2>1. D \in SUBSET Bits
    BY DEF Differing
  <2>2. IsFiniteSet(D)
    BY <2>1, IndexAssumption, FS_Subset
  <2> QED  BY <2>1, <2>2, FS_CardinalityType
<1>2. \A b \in Blocks : \E bit \in D : BlockOf[bit] = b
  BY DEF BlockValue, Differing
<1>3. \A b \in Blocks : pick[b] \in D /\ BlockOf[pick[b]] = b
  BY <1>2
<1>4. pick \in Injection(Blocks, D)
  <2>1. pick \in [Blocks -> D]
    BY <1>3
  <2>2. \A a, b \in Blocks : pick[a] = pick[b] => a = b
    BY <1>3
  <2> HIDE DEF pick
  <2> QED  BY <2>1, <2>2 DEF Injection, IsInjective
<1> HIDE DEF pick, D
<1>5. Cardinality(Blocks) <= Cardinality(D)
  BY <1>1, <1>4, FS_Injection
<1>6. Cardinality(D) <= Threshold
  BY DEF IsNear, D
<1>7. Cardinality(Blocks) \in Nat
  BY IndexAssumption, FS_CardinalityType
<1> QED  BY <1>1, <1>5, <1>6, <1>7, IndexAssumption

-----------------------------------------------------------------------------
(* Entries of the index *)

\* Indexing more hashes adds exactly their entries.
LEMMA EntriesOfUnion ==
    ASSUME NEW A, NEW B
    PROVE  EntriesOf(A \cup B) = EntriesOf(A) \cup EntriesOf(B)
BY DEF EntriesOf

\* An entry names its hash, so that deleting by hash deletes only its own.
LEMMA EntriesOfMinus ==
    ASSUME NEW A, NEW B
    PROVE  EntriesOf(A \ B) = EntriesOf(A) \ EntriesOf(B)
<1>1. ASSUME NEW g, NEW h, NEW e \in Entries(g), e \in Entries(h) PROVE g = h
  BY <1>1 DEF Entries
<1> QED  BY <1>1 DEF EntriesOf

\* What the index holds of a hash, entry by entry.
LEMMA EntryIn ==
    ASSUME NEW H, NEW b \in Blocks, NEW v, NEW h
    PROVE  <<b, v, h>> \in EntriesOf(H) <=> h \in H /\ v = BlockValue(h, b)
<1>1. ASSUME NEW g PROVE <<b, v, h>> \in Entries(g) <=> h = g /\ v = BlockValue(g, b)
  BY DEF Entries
<1> QED  BY <1>1 DEF EntriesOf

\* The entries of fingerprints are well-formed.
LEMMA EntriesTyped ==
    ASSUME NEW H \in SUBSET Hashes
    PROVE  EntriesOf(H) \subseteq Blocks \X (SUBSET Bits) \X Hashes
<1>1. ASSUME NEW h \in H, NEW b \in Blocks
      PROVE  <<b, BlockValue(h, b), h>> \in Blocks \X (SUBSET Bits) \X Hashes
  BY IndexAssumption DEF BlockValue
<1> QED  BY <1>1 DEF EntriesOf, Entries

-----------------------------------------------------------------------------
(* Type correctness *)

\* Empty tables and idle processes have the right types.
LEMMA IndexInit == Init => IndexTypeOK
BY DEF Init, IndexTypeOK, HashStatus, Committed, Job, Idle, During

\* Every operation keeps the types of the tables and of the processes.
LEMMA IndexStep == IndexTypeOK /\ [Next]_vars => IndexTypeOK'
<1> SUFFICES ASSUME IndexTypeOK, [Next]_vars PROVE IndexTypeOK'
  OBVIOUS
<1> USE DEF IndexTypeOK
<1>1. ASSUME NEW p \in Processes, NEW H \in SUBSET Hashes,
             NEW status \in HashStatus \ {"absent"}, Register(p, H, status)
      PROVE  IndexTypeOK'
  <2>1. EntriesOf(H) \subseteq Blocks \X (SUBSET Bits) \X Hashes
    BY EntriesTyped
  <2> QED  BY <1>1, <2>1 DEF Register, TakesLock, Job, Idle, HashStatus
<1>2. ASSUME NEW p \in Processes, NEW H \in SUBSET Hashes,
             NEW status \in HashStatus \ {"absent"}, UpdateStatus(p, H, status)
      PROVE  IndexTypeOK'
  BY <1>2 DEF UpdateStatus, TakesLock, Job, Idle, HashStatus, Committed
<1>3. ASSUME NEW p \in Processes, Commit(p) PROVE IndexTypeOK'
  BY <1>3 DEF Commit, Job, Idle, During, RowsOf
<1>4. ASSUME NEW p \in Processes, SelectStale(p) PROVE IndexTypeOK'
  <2>1. PICK stale \in SUBSET Hashes :
           job' = [job EXCEPT ![p] = [Idle EXCEPT !.step = "expire", !.hashes = stale]]
    BY <1>4 DEF SelectStale
  <2>2. [Idle EXCEPT !.step = "expire", !.hashes = stale] \in Job
    BY DEF Job, Idle
  <2> QED  BY <1>4, <2>1, <2>2 DEF SelectStale
<1>5. ASSUME NEW p \in Processes, DeleteStale(p) PROVE IndexTypeOK'
  BY <1>5 DEF DeleteStale, TakesLock, Job, Idle, HashStatus
<1>6. ASSUME NEW p \in Processes, StartLookup(p) PROVE IndexTypeOK'
  <2>1. PICK H \in SUBSET Hashes :
           job' = [job EXCEPT ![p] =
                     [Idle EXCEPT !.step = "query", !.hashes = H, !.unread = Blocks]]
    BY <1>6 DEF StartLookup
  <2>2. [Idle EXCEPT !.step = "query", !.hashes = H, !.unread = Blocks] \in Job
    BY DEF Job, Idle
  <2>3. [steady |-> Registered, touched |-> Registered] \in During
    BY DEF During, Registered, RowsOf
  <2> QED  BY <1>6, <2>1, <2>2, <2>3 DEF StartLookup
<1>7. ASSUME NEW p \in Processes, NEW b \in Blocks, QueryBlock(p, b) PROVE IndexTypeOK'
  <2>1. job[p] \in Job
    OBVIOUS
  <2>2. PICK found \in SUBSET (Hashes \X Hashes), step \in {"query", "fetch"} :
           job' = [job EXCEPT ![p] =
                     [job[p] EXCEPT !.candidates = @ \cup found,
                                    !.unread = @ \ {b}, !.step = step]]
    <3> DEFINE found == {gh \in Hashes \X job[p].hashes :
                           <<b, BlockValue(gh[2], b), gh[1]>> \in index}
               step == IF job[p].unread = {b} THEN "fetch" ELSE "query"
    <3>1. found \in SUBSET (Hashes \X Hashes)
      BY <2>1 DEF Job
    <3>2. job' = [job EXCEPT ![p] =
                    [job[p] EXCEPT !.candidates = @ \cup found,
                                   !.unread = @ \ {b}, !.step = step]]
      BY <1>7, <2>1 DEF QueryBlock, Job
    <3> HIDE DEF found
    <3> QED  BY <3>1, <3>2
  <2>3. job'[p] \in Job
    BY <2>1, <2>2 DEF Job
  <2> QED  BY <1>7, <2>2, <2>3 DEF QueryBlock
<1>8. ASSUME NEW p \in Processes, FetchStatuses(p) PROVE IndexTypeOK'
  <2>1. job[p] \in Job
    OBVIOUS
  <2>2. PICK known \in SUBSET Hashes :
           job' = [job EXCEPT ![p] = [job[p] EXCEPT !.step = "answered",
                                        !.candidates = {}, !.known = known]]
    BY <1>8, <2>1 DEF FetchStatuses, Job
  <2>3. job'[p] \in Job
    BY <2>1, <2>2 DEF Job
  <2> QED  BY <1>8, <2>2, <2>3 DEF FetchStatuses
<1>9. ASSUME NEW p \in Processes, UseAnswer(p) PROVE IndexTypeOK'
  BY <1>9 DEF UseAnswer, Job, Idle, During
<1>10. ASSUME NEW p \in Processes, Crash(p) PROVE IndexTypeOK'
  BY <1>10 DEF Crash, Job, Idle, During, Committed
<1>11. CASE UNCHANGED vars
  BY <1>11 DEF vars
<1> QED  BY <1>1, <1>2, <1>3, <1>4, <1>5, <1>6, <1>7, <1>8, <1>9, <1>10, <1>11 DEF Next

\* The tables hold fingerprints and statuses and every process is in a state
\* of its job, in any behaviour.
THEOREM IndexTypeCorrect == Spec => []IndexTypeOK
BY IndexInit, IndexStep, PTL DEF Spec

-----------------------------------------------------------------------------
(* The index is a function of the rows *)

\* A write statement and its index statements, or the two deletions, lead from
\* agreeing tables to agreeing tables.
LEMMA TablesStep == IndexTypeOK /\ TablesAgree /\ [Next]_vars => TablesAgree'
<1> SUFFICES ASSUME IndexTypeOK, TablesAgree, [Next]_vars PROVE TablesAgree'
  OBVIOUS
<1> USE DEF IndexTypeOK, TablesAgree, IndexMatchesRows, Registered
<1>1. ASSUME NEW p \in Processes, NEW H \in SUBSET Hashes,
             NEW status \in HashStatus \ {"absent"}, Register(p, H, status)
      PROVE  TablesAgree'
  <2>1. /\ draft'.rows = [h \in Hashes |-> IF h \in H THEN status ELSE rows[h]]
        /\ draft'.index = index \cup EntriesOf(H)
        /\ rows' = rows /\ index' = index
    BY <1>1 DEF Register
  <2>2. RowsOf(draft'.rows) = RowsOf(rows) \cup H
    BY <2>1 DEF RowsOf
  <2> QED  BY <2>1, <2>2, EntriesOfUnion
<1>2. ASSUME NEW p \in Processes, NEW H \in SUBSET Hashes,
             NEW status \in HashStatus \ {"absent"}, UpdateStatus(p, H, status)
      PROVE  TablesAgree'
  <2>1. /\ draft'.rows = [h \in Hashes |-> IF h \in H \cap RowsOf(rows)
                                           THEN status ELSE rows[h]]
        /\ draft'.index = index
        /\ rows' = rows /\ index' = index
    BY <1>2 DEF UpdateStatus, Committed
  <2>2. RowsOf(draft'.rows) = RowsOf(rows)
    BY <2>1 DEF RowsOf
  <2> QED  BY <2>1, <2>2
<1>3. ASSUME NEW p \in Processes, Commit(p) PROVE TablesAgree'
  BY <1>3 DEF Commit
<1>4. ASSUME NEW p \in Processes, DeleteStale(p) PROVE TablesAgree'
  <2>1. /\ draft'.rows = [h \in Hashes |-> IF h \in job[p].hashes
                                           THEN "absent" ELSE rows[h]]
        /\ draft'.index = index \ EntriesOf(job[p].hashes)
        /\ rows' = rows /\ index' = index
    BY <1>4 DEF DeleteStale
  <2>2. RowsOf(draft'.rows) = RowsOf(rows) \ job[p].hashes
    BY <2>1 DEF RowsOf
  <2> QED  BY <2>1, <2>2, EntriesOfMinus
<1>5. ASSUME NEW p \in Processes, Crash(p) PROVE TablesAgree'
  BY <1>5 DEF Crash, Committed
<1>6. ASSUME NEW p \in Processes,
             \/ SelectStale(p) \/ StartLookup(p) \/ FetchStatuses(p) \/ UseAnswer(p)
             \/ \E b \in Blocks : QueryBlock(p, b)
      PROVE  TablesAgree'
  BY <1>6 DEF SelectStale, StartLookup, FetchStatuses, UseAnswer, QueryBlock
<1>7. CASE UNCHANGED vars
  BY <1>7 DEF vars
<1> QED  BY <1>1, <1>2, <1>3, <1>4, <1>5, <1>6, <1>7 DEF Next

\* Empty tables agree.
LEMMA TablesInit == Init => TablesAgree
BY DEF Init, TablesAgree, IndexMatchesRows, Registered, RowsOf, EntriesOf, Committed

\* No row without its index entries and no orphan entry, in the committed tables
\* and in the open transaction, whatever process dies at whatever moment.
THEOREM IndexConsistent == Spec => []IndexInv
<1>1. Init => IndexInv
  BY IndexInit, TablesInit DEF IndexInv
<1>2. IndexInv /\ [Next]_vars => IndexInv'
  BY IndexStep, TablesStep DEF IndexInv
<1> QED  BY <1>1, <1>2, PTL DEF Spec

-----------------------------------------------------------------------------
(* Lookups *)

LookingUp(p) == job[p].step \in {"query", "fetch"}

\* While a lookup is under way the steady hashes are registered, the registered
\* ones are touched, and the blocks already queried have given every steady
\* hash that shares one of them with an input.
LookupProgress ==
    \A p \in Processes : LookingUp(p) =>
        /\ during[p].steady \subseteq Registered
        /\ Registered \subseteq during[p].touched
        /\ job[p].step = "fetch" => job[p].unread = {}
        /\ \A b \in Blocks \ job[p].unread, h \in job[p].hashes, g \in during[p].steady :
              BlockValue(g, b) = BlockValue(h, b) => <<g, h>> \in job[p].candidates

\* At first no lookup is under way.
LEMMA LookupInit == Init => LookupProgress
BY DEF Init, LookupProgress, LookingUp, Idle

\* Only a commit changes what is registered, and it adjusts both histories.
LEMMA LookupStep ==
    IndexTypeOK /\ TablesAgree /\ LookupProgress /\ [Next]_vars => LookupProgress'
<1> SUFFICES ASSUME IndexTypeOK, TablesAgree, LookupProgress, [Next]_vars,
                    NEW q \in Processes, LookingUp(q)'
             PROVE  /\ during'[q].steady \subseteq Registered'
                    /\ Registered' \subseteq during'[q].touched
                    /\ job'[q].step = "fetch" => job'[q].unread = {}
                    /\ \A b \in Blocks \ job'[q].unread, h \in job'[q].hashes,
                          g \in during'[q].steady :
                          BlockValue(g, b) = BlockValue(h, b)
                              => <<g, h>> \in job'[q].candidates
  BY DEF LookupProgress
<1> DEFINE Goal == /\ during'[q].steady \subseteq Registered'
                   /\ Registered' \subseteq during'[q].touched
                   /\ job'[q].step = "fetch" => job'[q].unread = {}
                   /\ \A b \in Blocks \ job'[q].unread, h \in job'[q].hashes,
                         g \in during'[q].steady :
                         BlockValue(g, b) = BlockValue(h, b)
                             => <<g, h>> \in job'[q].candidates
<1>0. job \in [Processes -> Job] /\ during \in [Processes -> During]
  BY DEF IndexTypeOK
\* What is left alone stays as it was.
<1>1. CASE job'[q] = job[q] /\ during'[q] = during[q] /\ rows' = rows
  BY <1>1 DEF LookupProgress, LookingUp, Registered
<1>2. ASSUME NEW p \in Processes, Commit(p) PROVE Goal
  <2>1. p # q /\ job'[q] = job[q]
    BY <1>0, <1>2 DEF Commit, LookingUp, Idle
  <2>2. LookingUp(q)
    BY <2>1 DEF LookingUp
  <2>3. /\ during'[q].steady = during[q].steady \cap RowsOf(draft.rows)
        /\ during'[q].touched = during[q].touched \cup RowsOf(draft.rows)
        /\ Registered' = RowsOf(draft.rows)
    BY <1>0, <1>2, <2>2 DEF Commit, LookingUp, Registered
  <2> QED  BY <2>1, <2>2, <2>3 DEF LookupProgress
<1>3. ASSUME NEW p \in Processes, StartLookup(p) PROVE Goal
  <2>1. CASE p = q
    <3>1. /\ during'[q].steady = Registered /\ during'[q].touched = Registered
          /\ job'[q].step = "query" /\ job'[q].unread = Blocks
          /\ rows' = rows
      BY <1>0, <1>3, <2>1 DEF StartLookup, Idle
    <3> QED  BY <3>1 DEF Registered
  <2>2. CASE p # q
    BY <1>0, <1>1, <1>3, <2>2 DEF StartLookup
  <2> QED  BY <2>1, <2>2
<1>4. ASSUME NEW p \in Processes, NEW c \in Blocks, QueryBlock(p, c) PROVE Goal
  <2>1. CASE p = q
    <3> DEFINE found == {gh \in Hashes \X job[q].hashes :
                           <<c, BlockValue(gh[2], c), gh[1]>> \in index}
    <3>1. job[q] \in Job
      BY <1>0
    <3>2. /\ LookingUp(q)
          /\ job'[q].hashes = job[q].hashes
          /\ job'[q].candidates = job[q].candidates \cup found
          /\ job'[q].unread = job[q].unread \ {c}
          /\ job'[q].step = "fetch" => job[q].unread = {c}
          /\ during' = during /\ rows' = rows
      BY <1>0, <1>4, <2>1, <3>1 DEF QueryBlock, LookingUp, Job
    <3>3. ASSUME NEW h \in job[q].hashes, NEW g \in during[q].steady,
                 BlockValue(g, c) = BlockValue(h, c)
          PROVE  <<g, h>> \in found
      <4>1. g \in Registered /\ g \in Hashes
        BY <3>2 DEF LookupProgress, Registered, RowsOf
      <4>2. <<c, BlockValue(h, c), g>> \in index
        BY <3>3, <4>1, EntryIn DEF TablesAgree, IndexMatchesRows
      <4> QED  BY <4>1, <4>2
    <3> HIDE DEF found
    <3> QED  BY <3>2, <3>3 DEF LookupProgress, Registered
  <2>2. CASE p # q
    BY <1>0, <1>1, <1>4, <2>2 DEF QueryBlock
  <2> QED  BY <2>1, <2>2
<1>5. ASSUME NEW p \in Processes, NEW H \in SUBSET Hashes, NEW status \in HashStatus,
             Register(p, H, status) \/ UpdateStatus(p, H, status)
      PROVE  Goal
  BY <1>0, <1>1, <1>5 DEF Register, UpdateStatus, LookingUp, Idle
<1>6. ASSUME NEW p \in Processes, SelectStale(p) PROVE Goal
  BY <1>0, <1>1, <1>6 DEF SelectStale, LookingUp, Idle
<1>7. ASSUME NEW p \in Processes, DeleteStale(p) PROVE Goal
  BY <1>0, <1>1, <1>7 DEF DeleteStale, LookingUp, Idle
<1>8. ASSUME NEW p \in Processes, FetchStatuses(p) PROVE Goal
  BY <1>0, <1>1, <1>8 DEF FetchStatuses, LookingUp, Job
<1>9. ASSUME NEW p \in Processes, UseAnswer(p) \/ Crash(p) PROVE Goal
  BY <1>0, <1>1, <1>9 DEF UseAnswer, Crash, LookingUp, Idle
<1>10. CASE UNCHANGED vars
  BY <1>1, <1>10 DEF vars
<1> QED  BY <1>2, <1>3, <1>4, <1>5, <1>6, <1>7, <1>8, <1>9, <1>10 DEF Next

\* Only FetchStatuses makes an answer, and it stays as it is until it is used.
LEMMA AnswerStep ==
    ASSUME IndexTypeOK, [Next]_vars, NEW q \in Processes, job'[q].step = "answered"
    PROVE  \/ job'[q] = job[q] /\ during'[q] = during[q]
           \/ FetchStatuses(q)
<1>0. job \in [Processes -> Job] /\ during \in [Processes -> During]
  BY DEF IndexTypeOK
<1>1. ASSUME NEW p \in Processes, NEW H \in SUBSET Hashes, NEW status \in HashStatus,
             Register(p, H, status) \/ UpdateStatus(p, H, status)
      PROVE  job'[q] = job[q] /\ during'[q] = during[q]
  BY <1>0, <1>1 DEF Register, UpdateStatus, Idle
<1>2. ASSUME NEW p \in Processes, Commit(p)
      PROVE  job'[q] = job[q] /\ during'[q] = during[q]
  BY <1>0, <1>2 DEF Commit, Idle
<1>3. ASSUME NEW p \in Processes, SelectStale(p) \/ DeleteStale(p)
      PROVE  job'[q] = job[q] /\ during'[q] = during[q]
  BY <1>0, <1>3 DEF SelectStale, DeleteStale, Idle
<1>4. ASSUME NEW p \in Processes, StartLookup(p)
      PROVE  job'[q] = job[q] /\ during'[q] = during[q]
  BY <1>0, <1>4 DEF StartLookup, Idle
<1>5. ASSUME NEW p \in Processes, NEW b \in Blocks, QueryBlock(p, b)
      PROVE  job'[q] = job[q] /\ during'[q] = during[q]
  <2>1. job[p] \in Job /\ job[p].step = "query"
    BY <1>0, <1>5 DEF QueryBlock
  <2>2. job'[p].step \in {"query", "fetch"}
    BY <1>0, <1>5, <2>1 DEF QueryBlock, Job
  <2> QED  BY <1>0, <1>5, <2>2 DEF QueryBlock
<1>6. ASSUME NEW p \in Processes, FetchStatuses(p), p # q
      PROVE  job'[q] = job[q] /\ during'[q] = during[q]
  BY <1>0, <1>6 DEF FetchStatuses
<1>7. ASSUME NEW p \in Processes, UseAnswer(p) \/ Crash(p)
      PROVE  job'[q] = job[q] /\ during'[q] = during[q]
  BY <1>0, <1>7 DEF UseAnswer, Crash, Idle
<1>8. CASE UNCHANGED vars
  BY <1>8 DEF vars
<1> QED  BY <1>1, <1>2, <1>3, <1>4, <1>5, <1>6, <1>7, <1>8 DEF Next

\* At first no answer is given.
LEMMA AnswerInit == Init => FindsEveryNearDuplicate /\ KnownForAReason
BY DEF Init, FindsEveryNearDuplicate, KnownForAReason, Idle

\* The answer is given by a fetch, at which every steady near-duplicate shares
\* a block, is therefore a candidate, and still has its row.
LEMMA FindsStep ==
    ASSUME Threshold < Cardinality(Blocks)
    PROVE  IndexTypeOK /\ LookupProgress /\ FindsEveryNearDuplicate /\ [Next]_vars
               => FindsEveryNearDuplicate'
<1> SUFFICES ASSUME IndexTypeOK, LookupProgress, FindsEveryNearDuplicate, [Next]_vars,
                    NEW q \in Processes, job'[q].step = "answered",
                    NEW h \in job'[q].hashes \ job'[q].known,
                    NEW g \in during'[q].steady, IsNear(g, h)
             PROVE  FALSE
  BY DEF FindsEveryNearDuplicate, IsNear, Differing
<1>1. CASE job'[q] = job[q] /\ during'[q] = during[q]
  BY <1>1 DEF FindsEveryNearDuplicate
<1>2. CASE FetchStatuses(q)
  <2>1. job[q] \in Job
    BY DEF IndexTypeOK
  <2>2. /\ job[q].step = "fetch" /\ job'[q].hashes = job[q].hashes
        /\ job'[q].known = {k \in job[q].hashes :
              \E f \in Registered : <<f, k>> \in job[q].candidates /\ IsNear(f, k)}
        /\ during' = during
    BY <1>2, <2>1 DEF FetchStatuses, IndexTypeOK, Job
  <2>3. /\ g \in Registered /\ g \in during[q].steady
        /\ h \in job[q].hashes /\ job[q].unread = {}
    BY <2>2 DEF LookupProgress, LookingUp
  <2>4. g \in SUBSET Bits /\ h \in SUBSET Bits
    BY <2>1, <2>3, IndexAssumption DEF Registered, RowsOf, Job
  <2>5. PICK b \in Blocks : BlockValue(g, b) = BlockValue(h, b)
    BY <2>4, SharedBlock
  <2>6. <<g, h>> \in job[q].candidates
    BY <2>2, <2>3, <2>5 DEF LookupProgress, LookingUp
  <2> QED  BY <2>2, <2>3, <2>6
<1> QED  BY <1>1, <1>2, AnswerStep

\* With more blocks than the threshold, a lookup misses no near-duplicate that
\* was registered throughout, whatever other processes write meanwhile.
THEOREM LookupMissesNothing ==
    ASSUME Threshold < Cardinality(Blocks)
    PROVE  Spec => []FindsEveryNearDuplicate
<1>1. Init => IndexTypeOK /\ TablesAgree /\ LookupProgress /\ FindsEveryNearDuplicate
  BY IndexInit, TablesInit, LookupInit, AnswerInit
<1>2. IndexTypeOK /\ TablesAgree /\ LookupProgress /\ FindsEveryNearDuplicate /\ [Next]_vars
        => (IndexTypeOK /\ TablesAgree /\ LookupProgress /\ FindsEveryNearDuplicate)'
  BY IndexStep, TablesStep, LookupStep, FindsStep
<1> QED  BY <1>1, <1>2, PTL DEF Spec

\* What a fetch reports as known has a registered hash within the threshold,
\* and the registered hashes are among the touched ones.
LEMMA ReasonStep ==
    IndexTypeOK /\ LookupProgress /\ KnownForAReason /\ [Next]_vars => KnownForAReason'
<1> SUFFICES ASSUME IndexTypeOK, LookupProgress, KnownForAReason, [Next]_vars,
                    NEW q \in Processes, job'[q].step = "answered",
                    NEW h \in job'[q].known
             PROVE  \E g \in during'[q].touched : IsNear(g, h)
  BY DEF KnownForAReason, IsNear, Differing
<1>1. CASE job'[q] = job[q] /\ during'[q] = during[q]
  BY <1>1 DEF KnownForAReason
<1>2. CASE FetchStatuses(q)
  <2>1. job[q] \in Job
    BY DEF IndexTypeOK
  <2>2. /\ job[q].step = "fetch" /\ during' = during
        /\ \E g \in Registered : IsNear(g, h)
    BY <1>2, <2>1 DEF FetchStatuses, IndexTypeOK, Job
  <2> QED  BY <2>2 DEF LookupProgress, LookingUp
<1> QED  BY <1>1, <1>2, AnswerStep

\* A hash is reported as known only if one within the threshold was registered
\* at some moment of the lookup.
THEOREM LookupInventsNothing == Spec => []KnownForAReason
<1>1. Init => IndexTypeOK /\ TablesAgree /\ LookupProgress /\ KnownForAReason
  BY IndexInit, TablesInit, LookupInit, AnswerInit
<1>2. IndexTypeOK /\ TablesAgree /\ LookupProgress /\ KnownForAReason /\ [Next]_vars
        => (IndexTypeOK /\ TablesAgree /\ LookupProgress /\ KnownForAReason)'
  BY IndexStep, TablesStep, LookupStep, ReasonStep
<1> QED  BY <1>1, <1>2, PTL DEF Spec

-----------------------------------------------------------------------------
(* Expiry by a process that has the database to itself *)

Alone == \A p, q \in Processes : p = q

\* What the lone process has selected is still in flight, and what it is about
\* to publish takes nothing that was accepted.
SparesAccepted ==
    \A p \in Processes :
      /\ job[p].step = "expire" => \A h \in job[p].hashes : rows[h] = "in_flight"
      /\ job[p].step = "commit" =>
             \A h \in Hashes : rows[h] = "accepted" => draft.rows[h] # "absent"

LEMMA SparesStep ==
    ASSUME Alone, IndexTypeOK, SparesAccepted, [Next]_vars
    PROVE  SparesAccepted'
<1>1. CASE UNCHANGED vars
  BY <1>1 DEF vars, SparesAccepted
<1>2. ASSUME NEW p \in Processes,
             \/ \E H \in SUBSET Hashes \ {{}}, status \in HashStatus \ {"absent"} :
                   Register(p, H, status) \/ UpdateStatus(p, H, status)
             \/ DeleteStale(p)
      PROVE  SparesAccepted'
  <2>1. /\ rows \in [Hashes -> HashStatus] /\ job \in [Processes -> Job] /\ rows' = rows
        /\ job' = [job EXCEPT ![p] = [Idle EXCEPT !.step = "commit"]]
    BY <1>2 DEF IndexTypeOK, Register, UpdateStatus, DeleteStale
  <2>2. job'[p].step = "commit" /\ \A q \in Processes : q = p
    BY <2>1 DEF Alone, Idle
  <2>3. ASSUME NEW h \in Hashes, rows[h] = "accepted" PROVE draft'.rows[h] # "absent"
    <3>1. ASSUME NEW H \in SUBSET Hashes, NEW status \in HashStatus \ {"absent"},
                 Register(p, H, status) \/ UpdateStatus(p, H, status)
          PROVE  draft'.rows[h] # "absent"
      BY <2>3, <3>1 DEF Register, UpdateStatus, Committed
    <3>2. ASSUME DeleteStale(p) PROVE draft'.rows[h] # "absent"
      <4>1. h \notin job[p].hashes
        BY <2>3, <3>2 DEF SparesAccepted, DeleteStale
      <4> QED BY <2>3, <3>2, <4>1 DEF DeleteStale
    <3> QED BY <1>2, <3>1, <3>2
  <2> QED BY <2>1, <2>2, <2>3 DEF SparesAccepted
<1>3. ASSUME NEW p \in Processes, SelectStale(p) PROVE SparesAccepted'
  <2>1. PICK kept \in SUBSET Hashes :
           job' = [job EXCEPT ![p] = [Idle EXCEPT !.step = "expire",
                      !.hashes = {h \in Hashes : rows[h] = "in_flight"} \ kept]]
    BY <1>3 DEF SelectStale
  <2>2. /\ job'[p].step = "expire" /\ job'[p].hashes = {h \in Hashes : rows[h] = "in_flight"} \ kept
        /\ \A q \in Processes : q = p
    BY <2>1 DEF Alone, Idle, IndexTypeOK
  <2> QED BY <1>3, <2>2 DEF SparesAccepted, SelectStale
<1>4. ASSUME NEW p \in Processes,
             Commit(p) \/ StartLookup(p) \/ FetchStatuses(p) \/ UseAnswer(p) \/ Crash(p)
             \/ \E b \in Blocks : QueryBlock(p, b)
      PROVE  SparesAccepted'
  <2>1. job'[p].step \notin {"expire", "commit"} /\ \A q \in Processes : q = p
    <3>1. job \in [Processes -> Job] /\ DOMAIN job[p] = DOMAIN Idle
      BY DEF IndexTypeOK, Job, Idle
    <3>2. CASE Commit(p) \/ UseAnswer(p) \/ Crash(p)
      BY <3>1, <3>2 DEF Alone, Commit, UseAnswer, Crash, Idle
    <3>3. CASE StartLookup(p)
      BY <3>1, <3>3 DEF Alone, StartLookup, Idle
    <3>4. CASE FetchStatuses(p)
      BY <3>1, <3>4 DEF Alone, FetchStatuses, Idle
    <3>5. ASSUME NEW b \in Blocks, QueryBlock(p, b)
          PROVE  job'[p].step \in {"query", "fetch"}
      BY <3>1, <3>5 DEF QueryBlock, Idle
    <3> QED BY <1>4, <3>2, <3>3, <3>4, <3>5 DEF Alone
  <2> QED BY <2>1 DEF SparesAccepted
<1> QED BY <1>1, <1>2, <1>3, <1>4 DEF Next

\* expire_stale of the only process that has the database open deletes rows in
\* flight and never an accepted one, whatever dies in between: what index_expiry
\* shows takes a second process.
THEOREM LoneExpirySparesAccepted == Alone => (Spec => ExpiryTakesInFlightOnly)
<1> SUFFICES ASSUME Alone PROVE Spec => ExpiryTakesInFlightOnly
  OBVIOUS
<1> DEFINE Spares == \A h \in Hashes : rows[h] = "accepted" => rows'[h] # "absent"
<1>1. Init => SparesAccepted
  BY DEF Init, SparesAccepted, Idle
<1>2. IndexTypeOK /\ SparesAccepted /\ [Next]_vars => SparesAccepted'
  BY SparesStep
<1>3. IndexTypeOK /\ SparesAccepted /\ [Next]_vars => [Spares]_vars
  <2> SUFFICES ASSUME SparesAccepted, [Next]_vars PROVE [Spares]_vars
    OBVIOUS
  <2>1. ASSUME NEW p \in Processes, Commit(p) PROVE Spares
    BY <2>1 DEF Commit, SparesAccepted
  <2>2. CASE rows' = rows
    BY <2>2
  <2>3. CASE Next
    <3>1. rows' = rows \/ \E p \in Processes : Commit(p)
      BY <2>3 DEF Next, Register, UpdateStatus, SelectStale, DeleteStale, StartLookup,
                  FetchStatuses, UseAnswer, QueryBlock, Crash
    <3> QED BY <2>1, <2>2, <3>1
  <2> QED BY <2>3
<1> QED BY <1>1, <1>2, <1>3, IndexTypeCorrect, PTL DEF Spec, ExpiryTakesInFlightOnly
=============================================================================
