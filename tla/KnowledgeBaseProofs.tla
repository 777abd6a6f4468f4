------------------------ MODULE KnowledgeBaseProofs ------------------------
(***************************************************************************)
(* Proofs about KnowledgeBase, for any sessions, names, files and paths,   *)
(* and any number of creations, failures and deaths.                       *)
(***************************************************************************)
EXTENDS KnowledgeBase, FiniteSetTheorems, TLAPS

-----------------------------------------------------------------------------
(* The parts of a knowledge base *)

\* A knowledge base has an identifier, a way of retrieval and files.
LEMMA KnowledgeBaseFields ==
    ASSUME NEW kb \in KnowledgeBases
    PROVE  /\ kb.id \in 1..MaxCreations /\ kb.name \in Names /\ kb.retrieval \in Retrievals
           /\ kb.files \subseteq Files /\ Documents(kb) \subseteq Files
BY KnowledgeBaseAssumption DEF KnowledgeBases, Documents

\* A chunk is a row that names its knowledge base and its document.
LEMMA ChunkFields ==
    ASSUME NEW kb \in KnowledgeBases, NEW files \in SUBSET Files, NEW r \in Chunks(kb, files)
    PROVE  /\ r \in Rows
           /\ r.knowledge_base_id = kb.id
           /\ r.embedded = (kb.retrieval = "vector")
           /\ \E file \in files, part \in Parts :
                 r.document = DocumentId(kb, file) /\ r.id = <<DocumentId(kb, file), part>>
<1>1. PICK file \in files, part \in Parts : r = Row(kb, file, part, kb.retrieval = "vector")
  BY DEF Chunks
<1>2. kb.id \in 1..MaxCreations /\ file \in Files
  BY KnowledgeBaseFields
<1>3. DocumentId(kb, file) \in (1..MaxCreations) \X Files
  BY <1>2 DEF DocumentId
<1>4. /\ r.knowledge_base_id = kb.id /\ r.embedded = (kb.retrieval = "vector")
      /\ r.document = DocumentId(kb, file) /\ r.id = <<DocumentId(kb, file), part>>
  BY <1>1 DEF Row
<1>5. r \in Rows
  BY <1>1, <1>2, <1>3 DEF Row, Rows
<1> QED BY <1>4, <1>5

\* Chunks of two sets of documents together.
LEMMA ChunksUnion ==
    ASSUME NEW kb, NEW A, NEW B
    PROVE  Chunks(kb, A \cup B) = Chunks(kb, A) \cup Chunks(kb, B)
BY DEF Chunks

-----------------------------------------------------------------------------
(* Type correctness *)

\* The fields of a session, and what may be put into them.
LEMMA SessionFields ==
    ASSUME NEW r \in SessionState
    PROVE  /\ r.kb \in KnowledgeBases \cup {None} /\ r.read \in Seq(KnowledgeBases)
           /\ r.todo \subseteq Files /\ r.replaced \subseteq (1..MaxCreations) \X Files
           /\ r.rows \subseteq Rows
BY DEF SessionState

LEMMA IdleTyped == Idle \in SessionState
BY DEF Idle, SessionState

\* One session moves, the others stay where they are.
LEMMA OneMoves ==
    ASSUME session \in [Sessions -> SessionState], NEW s \in Sessions, NEW v \in SessionState,
           session' = [session EXCEPT ![s] = v]
    PROVE  /\ session' \in [Sessions -> SessionState]
           /\ session'[s] = v
           /\ \A t \in Sessions \ {s} : session'[t] = session[t]
OBVIOUS

\* A step is the step of one session, which stays well-typed.
LEMMA SessionStep ==
    ASSUME KbTypeOK, CreationsApart, NEW s \in Sessions, UserStarts(s) \/ Work(s) \/ Fail(s)
    PROVE  /\ session' \in [Sessions -> SessionState]
           /\ \A t \in Sessions \ {s} : session'[t] = session[t]
<1> USE DEF KbTypeOK
<1> DEFINE r == session[s]
<1>a. r \in SessionState
  OBVIOUS
<1>b. r.at # "idle" => r.kb \in KnowledgeBases
  BY DEF CreationsApart
<1>1. CASE UserStarts(s)
  <2>1. PICK name \in Names, retrieval \in Retrievals, files \in Paths :
           Start(s, name, retrieval, files)
    BY <1>1 DEF UserStarts
  <2> DEFINE kb == [id |-> Cardinality(started) + 1, name |-> name,
                    retrieval |-> retrieval, files |-> files]
  <2>2. Cardinality(started) \in Nat /\ MaxCreations \in Nat
    BY FS_CardinalityType, KnowledgeBaseAssumption DEF CreationsApart
  <2>3. kb \in KnowledgeBases
    BY <2>1, <2>2 DEF Start, KnowledgeBases
  <2>4. session' = [session EXCEPT ![s] = [Idle EXCEPT !.at = "migrate", !.kb = kb]]
    BY <2>1 DEF Start
  <2> HIDE DEF kb
  <2>5. [Idle EXCEPT !.at = "migrate", !.kb = kb] \in SessionState
    BY <2>3, IdleTyped DEF SessionState
  <2> QED BY <2>4, <2>5, OneMoves
<1>2. CASE session' = [session EXCEPT ![s] = Idle]
  BY <1>2, IdleTyped, OneMoves
<1>3. CASE MigrateBase(s)
  <2>1. CASE session' = [session EXCEPT ![s].at = "alter", ![s].lock = "share"]
    <3>1. session' = [session EXCEPT ![s] = [r EXCEPT !.at = "alter", !.lock = "share"]]
      BY <2>1
    <3>2. [r EXCEPT !.at = "alter", !.lock = "share"] \in SessionState
      BY <1>a DEF SessionState
    <3> QED BY <3>1, <3>2, OneMoves
  <2>2. CASE session' = [session EXCEPT ![s].at = "save"]
    <3>1. session' = [session EXCEPT ![s] = [r EXCEPT !.at = "save"]]
      BY <2>2
    <3>2. [r EXCEPT !.at = "save"] \in SessionState
      BY <1>a DEF SessionState
    <3> QED BY <3>1, <3>2, OneMoves
  <2> QED BY <1>3, <2>1, <2>2 DEF MigrateBase
<1>4. CASE MigrateVector(s)
  <2>1. session' = [session EXCEPT ![s] = [r EXCEPT !.at = "save", !.lock = "none"]]
    BY <1>4 DEF MigrateVector
  <2>2. [r EXCEPT !.at = "save", !.lock = "none"] \in SessionState
    BY <1>a DEF SessionState
  <2> QED BY <2>1, <2>2, OneMoves
<1>5. CASE ReadCatalog(s) /\ session' # [session EXCEPT ![s] = Idle]
  <2>1. session' = [session EXCEPT ![s] = [r EXCEPT !.at = "write", !.read = catalog]]
    BY <1>5 DEF ReadCatalog
  <2>2. [r EXCEPT !.at = "write", !.read = catalog] \in SessionState
    BY <1>a DEF SessionState
  <2> QED BY <2>1, <2>2, OneMoves
<1>6. CASE WriteCatalog(s)
  <2>1. session' = [session EXCEPT ![s] = [r EXCEPT !.at = "load", !.read = <<>>]]
    BY <1>6 DEF WriteCatalog
  <2>2. <<>> \in Seq(KnowledgeBases)
    OBVIOUS
  <2>3. [r EXCEPT !.at = "load", !.read = <<>>] \in SessionState
    BY <1>a, <2>2 DEF SessionState
  <2> QED BY <2>1, <2>3, OneMoves
<1>7. CASE Load(s) /\ session' # [session EXCEPT ![s] = Idle]
  <2>1. session' = [session EXCEPT ![s] = [r EXCEPT !.at = "index", !.todo = Documents(r.kb)]]
    BY <1>7 DEF Load
  <2>2. Documents(r.kb) \subseteq Files
    BY <1>7, <1>b, KnowledgeBaseFields DEF Load
  <2>3. [r EXCEPT !.at = "index", !.todo = Documents(r.kb)] \in SessionState
    BY <1>a, <2>2 DEF SessionState
  <2> QED BY <2>1, <2>3, OneMoves
<1>8. ASSUME NEW file \in Files, ReplaceDocument(s, file)
      PROVE  /\ session' \in [Sessions -> SessionState]
             /\ \A t \in Sessions \ {s} : session'[t] = session[t]
  <2> DEFINE d == DocumentId(r.kb, file)
             c == Chunks(r.kb, {file})
  <2>1. session' = [session EXCEPT ![s] =
            [r EXCEPT !.lock = "row", !.todo = r.todo \ {file},
                      !.replaced = r.replaced \cup {d}, !.rows = r.rows \cup c]]
    BY <1>8 DEF ReplaceDocument
  <2>2. r.kb \in KnowledgeBases
    BY <1>8, <1>b DEF ReplaceDocument
  <2>3. d \in (1..MaxCreations) \X Files /\ c \subseteq Rows
    BY <2>2, KnowledgeBaseFields, ChunkFields DEF DocumentId
  <2> HIDE DEF d, c
  <2>4. [r EXCEPT !.lock = "row", !.todo = r.todo \ {file},
                  !.replaced = r.replaced \cup {d}, !.rows = r.rows \cup c] \in SessionState
    BY <1>a, <2>3 DEF SessionState
  <2> QED BY <2>1, <2>4, OneMoves
<1>9. CASE DeleteDocuments(s)
  <2> DEFINE d == {DocumentId(r.kb, f) : f \in r.todo}
             c == Chunks(r.kb, r.todo)
  <2>1. session' = [session EXCEPT ![s] =
            [r EXCEPT !.at = "embed", !.lock = "row", !.todo = {}, !.replaced = d, !.rows = c]]
    BY <1>9 DEF DeleteDocuments
  <2>2. r.kb \in KnowledgeBases /\ r.todo \subseteq Files
    BY <1>9, <1>a, <1>b, SessionFields DEF DeleteDocuments
  <2>3. d \subseteq (1..MaxCreations) \X Files
    BY <2>2, KnowledgeBaseFields DEF DocumentId
  <2>4. c \subseteq Rows
    BY <2>2, ChunkFields
  <2> HIDE DEF d, c
  <2>5. [r EXCEPT !.at = "embed", !.lock = "row", !.todo = {}, !.replaced = d, !.rows = c]
          \in SessionState
    BY <1>a, <2>3, <2>4 DEF SessionState
  <2> QED BY <2>1, <2>5, OneMoves
<1>10. CASE Embedded(s)
  <2>1. session' = [session EXCEPT ![s] = [r EXCEPT !.at = "index"]]
    BY <1>10 DEF Embedded
  <2>2. [r EXCEPT !.at = "index"] \in SessionState
    BY <1>a DEF SessionState
  <2> QED BY <2>1, <2>2, OneMoves
<1>11. CASE Commit(s)
  <2>1. session' = [session EXCEPT ![s] = [Idle EXCEPT !.at = "return", !.kb = r.kb]]
    BY <1>11 DEF Commit
  <2>2. [Idle EXCEPT !.at = "return", !.kb = r.kb] \in SessionState
    BY <1>a, IdleTyped DEF SessionState
  <2> QED BY <2>1, <2>2, OneMoves
<1> QED BY <1>1, <1>2, <1>3, <1>4, <1>5, <1>6, <1>7, <1>8, <1>9, <1>10, <1>11
        DEF Work, DeadlockAbort, Return, Fail

\* What writing documents and committing them changes in a session.
LEMMA CommitEffect ==
    ASSUME KbTypeOK, NEW s \in Sessions, Commit(s)
    PROVE  /\ session[s].at = "index"
           /\ session'[s].at = "return" /\ session'[s].kb = session[s].kb
           /\ session'[s].replaced = {} /\ session'[s].rows = {}
BY DEF KbTypeOK, Commit, Idle

LEMMA DeleteEffect ==
    ASSUME KbTypeOK, NEW s \in Sessions, DeleteDocuments(s)
    PROVE  /\ session'[s].at = "embed" /\ session'[s].kb = session[s].kb
           /\ session'[s].todo = {}
           /\ session'[s].replaced = {DocumentId(session[s].kb, f) : f \in session[s].todo}
           /\ session'[s].rows = Chunks(session[s].kb, session[s].todo)
<1> DEFINE d == {DocumentId(session[s].kb, f) : f \in session[s].todo}
           c == Chunks(session[s].kb, session[s].todo)
<1>1. session' = [session EXCEPT ![s].at = "embed", ![s].lock = "row", ![s].todo = {},
                                 ![s].replaced = d, ![s].rows = c]
  BY DEF DeleteDocuments
<1>2. session[s] \in SessionState
  BY DEF KbTypeOK
<1> HIDE DEF d, c
<1>3. session'[s] = [session[s] EXCEPT !.at = "embed", !.lock = "row", !.todo = {},
                                       !.replaced = d, !.rows = c]
  BY <1>1 DEF KbTypeOK
<1>4. /\ session'[s].at = "embed" /\ session'[s].kb = session[s].kb /\ session'[s].todo = {}
      /\ session'[s].replaced = d /\ session'[s].rows = c
  BY <1>2, <1>3 DEF SessionState
<1> QED BY <1>4 DEF d, c

LEMMA ReplaceEffect ==
    ASSUME KbTypeOK, NEW s \in Sessions, NEW file \in Files, ReplaceDocument(s, file)
    PROVE  /\ session'[s].at = "index" /\ session'[s].kb = session[s].kb
           /\ session'[s].todo = session[s].todo \ {file}
           /\ session'[s].replaced = session[s].replaced \cup {DocumentId(session[s].kb, file)}
           /\ session'[s].rows = session[s].rows \cup Chunks(session[s].kb, {file})
<1> DEFINE d == DocumentId(session[s].kb, file)
           c == Chunks(session[s].kb, {file})
           r == session[s]
<1>1. session' = [session EXCEPT ![s].lock = "row", ![s].todo = @ \ {file},
                                 ![s].replaced = @ \cup {d}, ![s].rows = @ \cup c]
  BY DEF ReplaceDocument
<1>2. r \in SessionState /\ r.at = "index"
  BY DEF KbTypeOK, ReplaceDocument
<1> HIDE DEF d, c
<1>3. session'[s] = [r EXCEPT !.lock = "row", !.todo = r.todo \ {file},
                              !.replaced = r.replaced \cup {d}, !.rows = r.rows \cup c]
  BY <1>1 DEF KbTypeOK
<1> HIDE DEF r
<1>4. /\ session'[s].at = "index" /\ session'[s].kb = r.kb /\ session'[s].todo = r.todo \ {file}
      /\ session'[s].replaced = r.replaced \cup {d} /\ session'[s].rows = r.rows \cup c
  BY <1>2, <1>3 DEF SessionState
<1> QED BY <1>4 DEF d, c, r

\* A step of a creation ends it, or goes on with the same knowledge base.
LEMMA WorkKeepsKb ==
    ASSUME KbTypeOK, NEW s \in Sessions, Work(s) \/ Fail(s)
    PROVE  \/ session'[s] = Idle
           \/ /\ session[s].at # "idle" /\ session'[s].at # "idle"
              /\ session'[s].kb = session[s].kb
              /\ session[s].at # "return" /\ (session'[s].at = "return" => Commit(s))
<1> USE DEF KbTypeOK
<1>1. CASE DeadlockAbort(s) \/ Return(s) \/ Fail(s)
  BY <1>1 DEF DeadlockAbort, Return, Fail
<1>2. CASE MigrateBase(s)
  BY <1>2 DEF MigrateBase
<1>3. CASE MigrateVector(s)
  BY <1>3 DEF MigrateVector
<1>4. CASE ReadCatalog(s)
  BY <1>4 DEF ReadCatalog
<1>5. CASE WriteCatalog(s)
  BY <1>5 DEF WriteCatalog
<1>6. CASE Load(s)
  BY <1>6 DEF Load
<1>7. ASSUME NEW file \in Files, ReplaceDocument(s, file)
      PROVE  /\ session[s].at \notin {"idle", "return"} /\ session'[s].at \notin {"idle", "return"}
             /\ session'[s].kb = session[s].kb
  BY <1>7, ReplaceEffect DEF ReplaceDocument
<1>8. CASE DeleteDocuments(s)
  <2>1. session[s].at \notin {"idle", "return"}
    BY <1>8 DEF DeleteDocuments
  <2> QED BY <1>8, <2>1, DeleteEffect
<1>9. CASE Embedded(s)
  BY <1>9 DEF Embedded
<1>10. CASE Commit(s)
  BY <1>10, CommitEffect
<1> QED BY <1>1, <1>2, <1>3, <1>4, <1>5, <1>6, <1>7, <1>8, <1>9, <1>10 DEF Work

\* Every step keeps the types.
LEMMA KbTypeStep ==
    ASSUME KbTypeOK, CreationsApart, NEW s \in Sessions, UserStarts(s) \/ Work(s) \/ Fail(s)
    PROVE  KbTypeOK'
<1> USE DEF KbTypeOK
<1>1. session' \in [Sessions -> SessionState]
  BY SessionStep
<1>2. catalog' \in Seq(KnowledgeBases)
  <2>1. CASE WriteCatalog(s)
    <3>1. session[s].kb \in KnowledgeBases /\ session[s].read \in Seq(KnowledgeBases)
      BY <2>1, SessionFields DEF WriteCatalog, CreationsApart
    <3> QED BY <2>1, <3>1 DEF WriteCatalog
  <2>2. CASE ~WriteCatalog(s)
    BY <2>2 DEF UserStarts, Start, Work, MigrateBase, MigrateVector, DeadlockAbort, ReadCatalog,
       Load, ReplaceDocument, DeleteDocuments, Embedded, Commit, Return, Fail
  <2> QED BY <2>1, <2>2
<1>3. table' \subseteq Rows /\ indexed' \subseteq started' /\ returned' \subseteq indexed'
  <2>1. CASE Commit(s)
    <3>1. session[s].kb \in started /\ session[s].rows \subseteq Rows
      BY <2>1, SessionFields DEF Commit, CreationsApart
    <3> QED BY <2>1, <3>1 DEF Commit, Replaced
  <2>2. CASE Return(s)
    <3>1. session[s].kb \in indexed
      BY <2>2 DEF Return, CreationsApart
    <3> QED BY <2>2, <3>1 DEF Return
  <2>3. CASE ~Commit(s) /\ ~Return(s)
    BY <2>3 DEF UserStarts, Start, Work, MigrateBase, MigrateVector, DeadlockAbort, ReadCatalog,
       WriteCatalog, Load, ReplaceDocument, DeleteDocuments, Embedded, Fail
  <2> QED BY <2>1, <2>2, <2>3
<1>4. started' \subseteq KnowledgeBases
  <2>1. CASE UserStarts(s)
    <3>1. PICK name \in Names, retrieval \in Retrievals, files \in Paths :
             Start(s, name, retrieval, files)
      BY <2>1 DEF UserStarts
    <3>2. Cardinality(started) \in Nat /\ MaxCreations \in Nat
      BY FS_CardinalityType, KnowledgeBaseAssumption DEF CreationsApart
    <3> QED BY <3>1, <3>2 DEF Start, KnowledgeBases
  <2>2. CASE ~UserStarts(s)
    BY <2>2 DEF Work, MigrateBase, MigrateVector, DeadlockAbort, ReadCatalog,
       WriteCatalog, Load, ReplaceDocument, DeleteDocuments, Embedded, Commit, Return, Fail
  <2> QED BY <2>1, <2>2
<1> QED BY <1>1, <1>2, <1>3, <1>4

-----------------------------------------------------------------------------
(* The catalog's key *)

\* An entry whose name is new keeps the names apart.
LEMMA AppendKeepsKey ==
    ASSUME NEW read \in Seq(KnowledgeBases), NEW kb \in KnowledgeBases,
           \A m, n \in DOMAIN read : read[m].name = read[n].name => m = n,
           \A n \in DOMAIN read : read[n].name # kb.name
    PROVE  \A m, n \in DOMAIN Append(read, kb) :
              Append(read, kb)[m].name = Append(read, kb)[n].name => m = n
<1> DEFINE new == Append(read, kb)
<1>1. DOMAIN read = 1..Len(read) /\ DOMAIN new = 1..Len(read) + 1 /\ Len(read) \in Nat
  OBVIOUS
<1>2. \A n \in DOMAIN new : new[n] = IF n \in DOMAIN read THEN read[n] ELSE kb
  BY <1>1
<1> HIDE DEF new
<1>3. \A m, n \in DOMAIN new : new[m].name = new[n].name => m = n
  BY <1>1, <1>2
<1> QED BY <1>3 DEF new

\* A session that has found its name free writes back what it read with that
\* name added: the catalog it replaces does not matter.
LEMMA KeyStep ==
    ASSUME KbTypeOK, CreationsApart, CatalogNamesUnique, ReadsAreKeyed,
           NEW s \in Sessions, UserStarts(s) \/ Work(s) \/ Fail(s)
    PROVE  CatalogNamesUnique' /\ ReadsAreKeyed'
<1> USE DEF KbTypeOK
<1>a. \A t \in Sessions \ {s} : session'[t] = session[t]
  BY SessionStep
<1>1. CASE WriteCatalog(s)
  <2>1. /\ session[s].at = "write" /\ session[s].kb \in KnowledgeBases
        /\ session[s].read \in Seq(KnowledgeBases)
    BY <1>1, SessionFields DEF WriteCatalog, CreationsApart
  <2>2. catalog' = Append(session[s].read, session[s].kb) /\ session'[s].at = "load"
    BY <1>1 DEF WriteCatalog
  <2>3. CatalogNamesUnique'
    <3> DEFINE read == session[s].read
               kb == session[s].kb
    <3>1. /\ \A m, n \in DOMAIN read : read[m].name = read[n].name => m = n
          /\ \A n \in DOMAIN read : read[n].name # kb.name
      BY <2>1 DEF ReadsAreKeyed
    <3>2. catalog' = Append(read, kb) /\ read \in Seq(KnowledgeBases) /\ kb \in KnowledgeBases
      BY <2>1, <2>2
    <3> HIDE DEF read, kb
    <3> QED BY <3>1, <3>2, AppendKeepsKey DEF CatalogNamesUnique
  <2> QED BY <1>a, <2>2, <2>3 DEF ReadsAreKeyed
<1>2. CASE ReadCatalog(s)
  <2>1. catalog' = catalog
    BY <1>2 DEF ReadCatalog
  <2>2. CASE session'[s].at = "write"
    <3>1. /\ session'[s].read = catalog /\ session'[s].kb = session[s].kb
          /\ \A n \in DOMAIN catalog : catalog[n].name # session[s].kb.name
      BY <1>2, <2>2 DEF ReadCatalog, Idle
    <3> QED BY <1>a, <2>1, <3>1 DEF CatalogNamesUnique, ReadsAreKeyed
  <2>3. CASE session'[s].at # "write"
    BY <1>a, <2>1, <2>3 DEF CatalogNamesUnique, ReadsAreKeyed
  <2> QED BY <2>2, <2>3
<1>3. CASE ~WriteCatalog(s) /\ ~ReadCatalog(s)
  <2>1. catalog' = catalog
    BY <1>3 DEF UserStarts, Start, Work, MigrateBase, MigrateVector, DeadlockAbort, Load,
       ReplaceDocument, DeleteDocuments, Embedded, Commit, Return, Fail
  <2>2. session'[s].at # "write"
    <3>1. CASE UserStarts(s)
      BY <3>1 DEF UserStarts, Start, Idle
    <3>2. CASE session' = [session EXCEPT ![s] = Idle]
      BY <3>2 DEF Idle
    <3>3. CASE MigrateBase(s)
      BY <3>3 DEF MigrateBase
    <3>4. CASE MigrateVector(s)
      BY <3>4 DEF MigrateVector
    <3>5. CASE Load(s)
      BY <3>5 DEF Load, Idle
    <3>6. ASSUME NEW file \in Files, ReplaceDocument(s, file) PROVE session'[s].at # "write"
      BY <3>6, ReplaceEffect
    <3>7. CASE DeleteDocuments(s)
      BY <3>7, DeleteEffect
    <3>8. CASE Embedded(s)
      BY <3>8 DEF Embedded
    <3>9. CASE Commit(s)
      BY <3>9, CommitEffect
    <3> QED BY <1>3, <3>1, <3>2, <3>3, <3>4, <3>5, <3>6, <3>7, <3>8, <3>9
            DEF Work, DeadlockAbort, Return, Fail
  <2> QED BY <1>a, <2>1, <2>2 DEF CatalogNamesUnique, ReadsAreKeyed
<1> QED BY <1>1, <1>2, <1>3

-----------------------------------------------------------------------------
(* Creations, transactions and the table *)

\* A new creation has an identifier of its own; its rows are committed once, and
\* it returns after that.
LEMMA ApartStep ==
    ASSUME KbTypeOK, CreationsApart, NEW s \in Sessions, UserStarts(s) \/ Work(s) \/ Fail(s)
    PROVE  CreationsApart'
<1> USE DEF KbTypeOK
<1>a. \A t \in Sessions \ {s} : session'[t] = session[t]
  BY SessionStep
<1>1. CASE UserStarts(s)
  <2>1. PICK name \in Names, retrieval \in Retrievals, files \in Paths :
           Start(s, name, retrieval, files)
    BY <1>1 DEF UserStarts
  <2> DEFINE kb == [id |-> Cardinality(started) + 1, name |-> name,
                    retrieval |-> retrieval, files |-> files]
  <2>2. /\ IsFiniteSet(started) /\ Cardinality(started) \in Nat
        /\ \A k \in started : k.id <= Cardinality(started) /\ k.id \in Nat
    BY FS_CardinalityType, KnowledgeBaseFields, KnowledgeBaseAssumption DEF CreationsApart
  <2>3. kb.id = Cardinality(started) + 1
    OBVIOUS
  <2>4. started' = started \cup {kb} /\ returned' = returned /\ indexed' = indexed
    BY <2>1 DEF Start
  <2>5. session'[s].kb = kb /\ session'[s].at = "migrate"
    BY <2>1 DEF Start, Idle
  <2> HIDE DEF kb
  <2>6. kb \notin started
    BY <2>2, <2>3
  <2>7. IsFiniteSet(started') /\ Cardinality(started') = Cardinality(started) + 1
    BY <2>2, <2>4, <2>6, FS_AddElement
  <2>8. \A k \in started' : k.id <= Cardinality(started')
    BY <2>2, <2>3, <2>4, <2>7
  <2>9. \A k, other \in started' : k.id = other.id => k = other
    BY <2>2, <2>3, <2>4 DEF CreationsApart
  <2>10. \A t \in Sessions \ {s} : session[t].at # "idle" =>
            /\ session[t].kb \in started \ returned /\ session[t].kb # kb
            /\ session[t].at = "return" <=> session[t].kb \in indexed
    BY <2>6 DEF CreationsApart
  <2>11. \A t \in Sessions : session'[t].at # "idle" =>
            /\ session'[t].kb \in started' \ returned'
            /\ session'[t].at = "return" <=> session'[t].kb \in indexed'
    BY <1>a, <2>4, <2>5, <2>6, <2>10
  <2>12. \A t, u \in Sessions :
            t # u /\ session'[t].at # "idle" /\ session'[u].at # "idle" =>
                session'[t].kb # session'[u].kb
    BY <1>a, <2>5, <2>10 DEF CreationsApart
  <2> QED BY <2>7, <2>8, <2>9, <2>11, <2>12 DEF CreationsApart
<1>2. CASE Return(s)
  <2>1. /\ started' = started /\ returned' = returned \cup {session[s].kb} /\ indexed' = indexed
        /\ session[s].at # "idle" /\ session'[s].at = "idle"
    BY <1>2 DEF Return, Idle
  <2>2. \A t \in Sessions \ {s} : session[t].at # "idle" => session[t].kb # session[s].kb
    BY <2>1 DEF CreationsApart
  <2> QED BY <1>a, <2>1, <2>2 DEF CreationsApart
<1>3. CASE Commit(s)
  <2>1. /\ started' = started /\ returned' = returned /\ indexed' = indexed \cup {session[s].kb}
        /\ session[s].at = "index" /\ session'[s].at = "return" /\ session'[s].kb = session[s].kb
    BY <1>3, CommitEffect DEF Commit
  <2>2. \A t \in Sessions \ {s} : session[t].at # "idle" => session[t].kb # session[s].kb
    BY <2>1 DEF CreationsApart
  <2> QED BY <1>a, <2>1, <2>2 DEF CreationsApart
<1>4. CASE ~UserStarts(s) /\ ~Commit(s) /\ ~Return(s)
  <2>1. UNCHANGED <<started, indexed, returned>>
    BY <1>4 DEF Work, MigrateBase, MigrateVector, DeadlockAbort, ReadCatalog, WriteCatalog, Load,
       ReplaceDocument, DeleteDocuments, Embedded, Fail
  <2>2. \/ session'[s].at = "idle"
        \/ /\ session[s].at \notin {"idle", "return"} /\ session'[s].at # "return"
           /\ session'[s].kb = session[s].kb
    BY <1>4, WorkKeepsKb DEF Idle
  <2> QED BY <1>a, <2>1, <2>2 DEF CreationsApart
<1> QED BY <1>1, <1>2, <1>3, <1>4

\* What reading the files changes in a session that goes on.
LEMMA LoadEffect ==
    ASSUME KbTypeOK, NEW s \in Sessions, Load(s), session'[s].at # "idle"
    PROVE  /\ session[s].at = "load" /\ session'[s].at = "index"
           /\ session'[s].kb = session[s].kb /\ Documents(session[s].kb) # {}
           /\ session'[s].todo = Documents(session[s].kb)
           /\ session'[s].replaced = session[s].replaced
           /\ session'[s].rows = session[s].rows
<1> DEFINE r == session[s]
<1>1. /\ session[s].at = "load" /\ Documents(r.kb) # {}
      /\ session'[s] = [r EXCEPT !.at = "index", !.todo = Documents(r.kb)]
  BY DEF KbTypeOK, Load, Idle
<1>2. r \in SessionState
  BY DEF KbTypeOK
<1> HIDE DEF r
<1>3. /\ session'[s].at = "index" /\ session'[s].kb = r.kb
      /\ session'[s].todo = Documents(r.kb)
      /\ session'[s].replaced = r.replaced /\ session'[s].rows = r.rows
  BY <1>1, <1>2 DEF SessionState
<1> QED BY <1>1, <1>3 DEF r

\* What a session holds, for one session.
HoldsDone(r) ==
    /\ Documents(r.kb) # {} /\ r.todo \subseteq Documents(r.kb)
    /\ r.replaced = {DocumentId(r.kb, file) : file \in Documents(r.kb) \ r.todo}
    /\ r.rows = Chunks(r.kb, Documents(r.kb) \ r.todo)
    /\ r.kb.retrieval = "vector" => r.todo \in {{}, Documents(r.kb)}

HoldsWell(r) ==
    /\ r.at \in {"index", "embed"} => HoldsDone(r)
    /\ r.at \in {"migrate", "alter", "save", "write", "load", "return"} =>
           r.replaced = {} /\ r.rows = {}

\* TransactionsHold says it of every session.
LEMMA HoldsEverywhere == TransactionsHold <=> \A t \in Sessions : HoldsWell(session[t])
BY DEF TransactionsHold, HoldsWell, HoldsDone

LEMMA HoldsEverywhereNext == TransactionsHold' <=> \A t \in Sessions : HoldsWell(session'[t])
BY DEF TransactionsHold, HoldsWell, HoldsDone

\* A transaction holds the chunks of exactly the documents it is done with.
LEMMA HoldStep ==
    ASSUME KbTypeOK, CreationsApart, TransactionsHold,
           NEW s \in Sessions, UserStarts(s) \/ Work(s) \/ Fail(s)
    PROVE  TransactionsHold'
<1> USE DEF KbTypeOK
<1>a. \A t \in Sessions \ {s} : session'[t] = session[t]
  BY SessionStep
<1>b. \A t \in Sessions : HoldsWell(session[t])
  BY HoldsEverywhere
<1> DEFINE kb == session[s].kb
           todo == session[s].todo
<1> SUFFICES HoldsWell(session'[s])
  BY <1>a, <1>b, HoldsEverywhereNext
<1>1. CASE Load(s)
  <2>1. CASE session'[s].at # "idle"
    <3>1. /\ session'[s].at = "index" /\ session'[s].kb = kb /\ Documents(kb) # {}
          /\ session'[s].todo = Documents(kb) /\ session'[s].replaced = session[s].replaced
          /\ session'[s].rows = session[s].rows /\ session[s].at = "load"
      BY <1>1, <2>1, LoadEffect
    <3>2. session'[s].replaced = {} /\ session'[s].rows = {}
      BY <1>b, <3>1 DEF HoldsWell
    <3>3. Documents(kb) \ Documents(kb) = {} /\ Chunks(kb, {}) = {}
      BY DEF Chunks
    <3>4. HoldsDone(session'[s])
      BY <3>1, <3>2, <3>3 DEF HoldsDone
    <3> QED BY <3>1, <3>4 DEF HoldsWell
  <2> QED BY <2>1 DEF HoldsWell
<1>2. ASSUME NEW file \in Files, ReplaceDocument(s, file) PROVE HoldsWell(session'[s])
  <2>1. session[s].at = "index" /\ file \in todo /\ kb.retrieval = "bm25"
    BY <1>2 DEF ReplaceDocument
  <2>2. HoldsDone(session[s])
    BY <1>b, <2>1 DEF HoldsWell
  <2>3. Documents(kb) \ (todo \ {file}) = (Documents(kb) \ todo) \cup {file}
    BY <2>1, <2>2 DEF HoldsDone
  <2>4. Chunks(kb, Documents(kb) \ (todo \ {file})) =
            Chunks(kb, Documents(kb) \ todo) \cup Chunks(kb, {file})
    BY <2>3, ChunksUnion
  <2>5. {DocumentId(kb, f) : f \in Documents(kb) \ (todo \ {file})} =
            {DocumentId(kb, f) : f \in Documents(kb) \ todo} \cup {DocumentId(kb, file)}
    BY <2>3
  <2>6. /\ session'[s].at = "index" /\ session'[s].kb = kb
        /\ session'[s].todo = todo \ {file}
        /\ session'[s].replaced = session[s].replaced \cup {DocumentId(kb, file)}
        /\ session'[s].rows = session[s].rows \cup Chunks(kb, {file})
    BY <1>2, ReplaceEffect
  <2>7. HoldsDone(session'[s])
    BY <2>1, <2>2, <2>4, <2>5, <2>6 DEF HoldsDone
  <2> QED BY <2>6, <2>7 DEF HoldsWell
<1>3. CASE DeleteDocuments(s)
  <2>1. session[s].at = "index" /\ todo # {} /\ kb.retrieval = "vector"
    BY <1>3 DEF DeleteDocuments
  <2>2. HoldsDone(session[s])
    BY <1>b, <2>1 DEF HoldsWell
  <2>3. todo = Documents(kb) /\ Documents(kb) # {}
    BY <2>1, <2>2 DEF HoldsDone
  <2>4. /\ session'[s].at = "embed" /\ session'[s].kb = kb /\ session'[s].todo = {}
        /\ session'[s].replaced = {DocumentId(kb, f) : f \in todo}
        /\ session'[s].rows = Chunks(kb, todo)
    BY <1>3, DeleteEffect
  <2>5. Documents(kb) \ {} = Documents(kb)
    OBVIOUS
  <2>6. HoldsDone(session'[s])
    BY <2>3, <2>4, <2>5 DEF HoldsDone
  <2> QED BY <2>4, <2>6 DEF HoldsWell
<1>4. CASE Embedded(s)
  <2>1. /\ session[s].at = "embed" /\ session'[s].at = "index"
        /\ session'[s].kb = kb /\ session'[s].todo = todo
        /\ session'[s].replaced = session[s].replaced /\ session'[s].rows = session[s].rows
    BY <1>4 DEF Embedded
  <2>2. HoldsDone(session[s])
    BY <1>b, <2>1 DEF HoldsWell
  <2>3. HoldsDone(session'[s])
    BY <2>1, <2>2 DEF HoldsDone
  <2> QED BY <2>1, <2>3 DEF HoldsWell
<1>5. CASE UserStarts(s)
  BY <1>5 DEF UserStarts, Start, Idle, HoldsWell
<1>6. CASE session' = [session EXCEPT ![s] = Idle]
  BY <1>6 DEF Idle, HoldsWell
<1>7. ASSUME /\ session[s].at \in {"migrate", "alter", "save", "write", "load"}
             /\ session'[s].at \in {"alter", "save", "write", "load"}
             /\ session'[s].replaced = session[s].replaced /\ session'[s].rows = session[s].rows
      PROVE  HoldsWell(session'[s])
  BY <1>b, <1>7 DEF HoldsWell
<1>8. CASE MigrateBase(s)
  <2>1. session[s].at = "migrate" /\ session'[s].at \in {"alter", "save"}
    BY <1>8 DEF MigrateBase
  <2>2. session'[s].replaced = session[s].replaced /\ session'[s].rows = session[s].rows
    BY <1>8 DEF MigrateBase
  <2> QED BY <1>7, <2>1, <2>2
<1>9. CASE MigrateVector(s)
  BY <1>7, <1>9 DEF MigrateVector
<1>10. CASE ReadCatalog(s) /\ session' # [session EXCEPT ![s] = Idle]
  BY <1>7, <1>10 DEF ReadCatalog
<1>11. CASE WriteCatalog(s)
  BY <1>7, <1>11 DEF WriteCatalog
<1>12. CASE Commit(s)
  BY <1>12, CommitEffect DEF HoldsWell
<1> QED BY <1>1, <1>2, <1>3, <1>4, <1>5, <1>6, <1>8, <1>9, <1>10, <1>11, <1>12
        DEF Work, DeadlockAbort, Return, Fail

-----------------------------------------------------------------------------
(* The table *)

\* The chunks of two knowledge bases have neither an identifier nor a document
\* in common, even those made of the same file.
LEMMA ChunksApart ==
    ASSUME NEW k \in KnowledgeBases, NEW kb \in KnowledgeBases, k.id # kb.id,
           NEW r \in Chunks(k, Documents(k)), NEW n \in Chunks(kb, Documents(kb))
    PROVE  /\ n.id # r.id
           /\ r.document \notin {DocumentId(kb, file) : file \in Documents(kb)}
<1>1. Documents(k) \in SUBSET Files /\ Documents(kb) \in SUBSET Files
  BY KnowledgeBaseFields
<1>2. PICK f \in Documents(k), p \in Parts :
         r.document = DocumentId(k, f) /\ r.id = <<DocumentId(k, f), p>>
  BY <1>1, ChunkFields
<1>3. PICK g \in Documents(kb), q \in Parts : n.id = <<DocumentId(kb, g), q>>
  BY <1>1, ChunkFields
<1>4. \A file : DocumentId(k, f) # DocumentId(kb, file)
  BY DEF DocumentId
<1> QED BY <1>2, <1>3, <1>4

\* What a creation commits is added to the table, and replaces nothing: the
\* rows of other creations stay, whatever files they came from.
LEMMA CommitAdds ==
    ASSUME KbTypeOK, CreationsApart, TransactionsHold, TableIsWhole,
           NEW s \in Sessions, Commit(s)
    PROVE  /\ table' = table \cup Chunks(session[s].kb, Documents(session[s].kb))
           /\ Documents(session[s].kb) # {}
<1> USE DEF KbTypeOK
<1> DEFINE kb == session[s].kb
<1>1. /\ session[s].at = "index" /\ session[s].todo = {}
      /\ table' = Replaced(table, session[s].replaced, session[s].rows)
  BY DEF Commit
<1>2. kb \in started /\ kb \notin indexed /\ kb \in KnowledgeBases
  BY <1>1 DEF CreationsApart
<1>3. HoldsDone(session[s])
  BY <1>1, HoldsEverywhere DEF HoldsWell
<1>4. Documents(kb) \ {} = Documents(kb)
  OBVIOUS
<1>5. /\ session[s].replaced = {DocumentId(kb, file) : file \in Documents(kb)}
      /\ session[s].rows = Chunks(kb, Documents(kb))
      /\ Documents(kb) # {}
  BY <1>1, <1>3, <1>4 DEF HoldsDone
<1>6. \A r \in table : /\ r.document \notin session[s].replaced
                       /\ \A n \in session[s].rows : n.id # r.id
  <2> TAKE r \in table
  <2>1. PICK k \in indexed : r \in Chunks(k, Documents(k))
    BY DEF TableIsWhole
  <2>2. k \in started /\ k \in KnowledgeBases /\ k # kb
    BY <1>2
  <2>3. k.id # kb.id
    BY <1>2, <2>2 DEF CreationsApart
  <2>4. \E n \in Chunks(kb, Documents(kb)) : TRUE
    <3>1. PICK file \in Documents(kb), part \in Parts : TRUE
      BY <1>5, KnowledgeBaseAssumption
    <3>2. Row(kb, file, part, kb.retrieval = "vector") \in Chunks(kb, Documents(kb))
      BY <3>1 DEF Chunks
    <3> QED BY <3>2
  <2> HIDE DEF kb
  <2>5. \A n \in Chunks(kb, Documents(kb)) :
           n.id # r.id /\ r.document \notin {DocumentId(kb, file) : file \in Documents(kb)}
    BY <1>2, <2>1, <2>2, <2>3, ChunksApart
  <2> QED BY <1>5, <2>4, <2>5
<1>7. Replaced(table, session[s].replaced, session[s].rows) = table \cup session[s].rows
  BY <1>6 DEF Replaced
<1> QED BY <1>1, <1>5, <1>7

\* The table stays the union of the creations whose rows were committed.
LEMMA TableStep ==
    ASSUME KbTypeOK, CreationsApart, TransactionsHold, TableIsWhole,
           NEW s \in Sessions, UserStarts(s) \/ Work(s) \/ Fail(s)
    PROVE  TableIsWhole'
<1>a. TableIsWhole' <=>
         /\ \A kb \in indexed' : Documents(kb) # {}
         /\ \A r \in table' : \E kb \in indexed' : r \in Chunks(kb, Documents(kb))
         /\ \A kb \in indexed' : Chunks(kb, Documents(kb)) \subseteq table'
  BY DEF TableIsWhole
<1>1. CASE Commit(s)
  <2> DEFINE kb == session[s].kb
  <2>1. table' = table \cup Chunks(kb, Documents(kb)) /\ Documents(kb) # {}
    BY <1>1, CommitAdds
  <2>2. indexed' = indexed \cup {kb}
    BY <1>1 DEF Commit
  <2> HIDE DEF kb
  <2> QED BY <1>a, <2>1, <2>2 DEF TableIsWhole
<1>2. CASE ~Commit(s)
  <2>1. UNCHANGED <<table, indexed>>
    BY <1>2 DEF UserStarts, Start, Work, MigrateBase, MigrateVector, DeadlockAbort, ReadCatalog,
       WriteCatalog, Load, ReplaceDocument, DeleteDocuments, Embedded, Return, Fail
  <2> QED BY <1>a, <2>1 DEF TableIsWhole
<1> QED BY <1>1, <1>2

-----------------------------------------------------------------------------
(* The theorems *)

LEMMA KbInvInit == Init => KbInv
<1> SUFFICES ASSUME Init PROVE KbInv
  OBVIOUS
<1>1. /\ catalog = <<>> /\ table = {} /\ started = {} /\ indexed = {} /\ returned = {}
      /\ session = [s \in Sessions |-> Idle]
  BY DEF Init
<1>2. \A s \in Sessions : session[s] = Idle /\ session[s].at = "idle"
  BY <1>1 DEF Idle
<1>3. KbTypeOK
  <2>1. <<>> \in Seq(KnowledgeBases)
    OBVIOUS
  <2> QED BY <1>1, <2>1, IdleTyped DEF KbTypeOK
<1>4. CatalogNamesUnique /\ ReadsAreKeyed
  BY <1>1, <1>2 DEF CatalogNamesUnique, ReadsAreKeyed
<1>5. CreationsApart
  BY <1>1, <1>2, FS_EmptySet DEF CreationsApart
<1>6. TransactionsHold
  BY <1>2 DEF TransactionsHold
<1>7. TableIsWhole
  BY <1>1 DEF TableIsWhole
<1> QED BY <1>3, <1>4, <1>5, <1>6, <1>7 DEF KbInv

LEMMA KbInvStep == KbInv /\ [Next]_vars => KbInv'
<1> SUFFICES ASSUME KbInv, [Next]_vars PROVE KbInv'
  OBVIOUS
<1>1. CASE Next
  <2>1. PICK s \in Sessions : UserStarts(s) \/ Work(s) \/ Fail(s)
    BY <1>1 DEF Next
  <2> QED BY <2>1, KbTypeStep, KeyStep, ApartStep, HoldStep, TableStep DEF KbInv
<1>2. CASE UNCHANGED vars
  <2>1. /\ catalog' = catalog /\ table' = table /\ started' = started /\ indexed' = indexed
        /\ returned' = returned /\ session' = session
    BY <1>2 DEF vars
  <2>2. KbTypeOK'
    BY <2>1 DEF KbInv, KbTypeOK
  <2>3. CatalogNamesUnique' /\ ReadsAreKeyed'
    BY <2>1 DEF KbInv, CatalogNamesUnique, ReadsAreKeyed
  <2>4. CreationsApart'
    BY <2>1 DEF KbInv, CreationsApart
  <2>5. TransactionsHold'
    BY <2>1, HoldsEverywhere, HoldsEverywhereNext DEF KbInv
  <2>6. TableIsWhole'
    BY <2>1 DEF KbInv, TableIsWhole
  <2> QED BY <2>2, <2>3, <2>4, <2>5, <2>6 DEF KbInv
<1> QED BY <1>1, <1>2

\* The service's invariant holds in every behaviour: the catalog has no two
\* entries of one name, whoever replaced it from however old a reading, and the
\* table is the union of the creations whose rows were committed.
THEOREM KbInvariant == Spec => []KbInv
<1>1. Init => KbInv
  BY KbInvInit
<1>2. KbInv /\ [Next]_vars => KbInv'
  BY KbInvStep
<1> QED BY <1>1, <1>2, PTL DEF Spec

LEMMA InvKeepsIndexWhole == KbInv => IndexIsWholeOrAbsent
<1> SUFFICES ASSUME KbInv PROVE IndexIsWholeOrAbsent
  OBVIOUS
<1> USE DEF KbInv, KbTypeOK
<1>1. \A kb \in indexed : Documents(kb) # {}
  BY DEF TableIsWhole
<1>2. ASSUME NEW kb \in started
      PROVE  Candidates(kb) = IF kb \in indexed THEN Chunks(kb, Documents(kb)) ELSE {}
  <2>1. kb \in KnowledgeBases
    OBVIOUS
  <2>2. \A k \in started : k.id = kb.id => k = kb
    BY DEF CreationsApart
  <2>3. \A k \in KnowledgeBases : Documents(k) \in SUBSET Files
    BY KnowledgeBaseFields
  <2>4. \A r \in table : r.knowledge_base_id = kb.id =>
           kb \in indexed /\ r \in Chunks(kb, Documents(kb))
    <3> SUFFICES ASSUME NEW r \in table, r.knowledge_base_id = kb.id
                 PROVE  kb \in indexed /\ r \in Chunks(kb, Documents(kb))
      OBVIOUS
    <3>1. PICK k \in indexed : r \in Chunks(k, Documents(k))
      BY DEF TableIsWhole
    <3>2. k \in started /\ k \in KnowledgeBases
      OBVIOUS
    <3>3. r.knowledge_base_id = k.id
      BY <2>3, <3>1, <3>2, ChunkFields
    <3> QED BY <2>2, <3>1, <3>2, <3>3
  <2>5. \A r \in Chunks(kb, Documents(kb)) :
           r.knowledge_base_id = kb.id /\ r.embedded = (kb.retrieval = "vector")
    BY <2>1, <2>3, ChunkFields
  <2>6. CASE kb \in indexed
    <3>1. Chunks(kb, Documents(kb)) \subseteq table
      BY <2>6 DEF TableIsWhole
    <3> QED BY <2>4, <2>5, <2>6, <3>1 DEF Candidates, Bm25Candidates, VectorCandidates
  <2>7. CASE kb \notin indexed
    BY <2>4, <2>7 DEF Candidates, Bm25Candidates, VectorCandidates
  <2> QED BY <2>6, <2>7
<1> QED BY <1>1, <1>2 DEF IndexIsWholeOrAbsent

\* A knowledge base whose rows were committed, a created one among them, answers
\* from all chunks of all its documents, for good; any other answers from nothing.
THEOREM IndexWholeOrAbsent == Spec => []IndexIsWholeOrAbsent
<1>1. KbInv => IndexIsWholeOrAbsent
  BY InvKeepsIndexWhole
<1> QED BY <1>1, KbInvariant, PTL

-----------------------------------------------------------------------------
(* What the service promises: the shelf *)

\* The shelf's answers, as the searches give them and as they have to be.
Answers == [kb \in KnowledgeBases |-> IF kb \in started THEN Candidates(kb) ELSE {}]
Contents == [kb \in KnowledgeBases |-> Chunks(kb, Documents(kb))]
Delivered == [kb \in KnowledgeBases |-> IF kb \in indexed THEN Contents[kb] ELSE {}]

\* What holds of the two in every state, and hence before and after a step.
ShelfInv == KbInv /\ Answers = Delivered

LEMMA AnswersAreDelivered == KbInv => ShelfInv
<1> SUFFICES ASSUME KbInv PROVE Answers = Delivered
  BY DEF ShelfInv
<1>1. /\ indexed \subseteq started
      /\ \A kb \in started :
            Candidates(kb) = IF kb \in indexed THEN Chunks(kb, Documents(kb)) ELSE {}
  BY InvKeepsIndexWhole DEF KbInv, KbTypeOK, IndexIsWholeOrAbsent
<1> QED BY <1>1 DEF Answers, Delivered, Contents

\* Starting a creation asks for a base; nobody asked for it before.
LEMMA StartIsAsk ==
    ASSUME ShelfInv, ShelfInv', NEW s \in Sessions, UserStarts(s)
    PROVE  Shelf!Next
<1>1. PICK name \in Names, retrieval \in Retrievals, files \in Paths :
         Start(s, name, retrieval, files)
  BY DEF UserStarts
<1> DEFINE kb == [id |-> Cardinality(started) + 1, name |-> name,
                  retrieval |-> retrieval, files |-> files]
<1>2. started' = started \cup {kb} /\ returned' = returned /\ indexed' = indexed
  BY <1>1 DEF Start
<1>3. kb \in KnowledgeBases
  BY <1>2 DEF ShelfInv, KbInv, KbTypeOK
<1>4. kb \notin started
  <2>1. Cardinality(started) \in Nat
    BY FS_CardinalityType DEF ShelfInv, KbInv, CreationsApart
  <2>2. \A other \in started : other.id <= Cardinality(started)
    BY DEF ShelfInv, KbInv, CreationsApart
  <2>3. kb.id = Cardinality(started) + 1
    OBVIOUS
  <2>4. ASSUME kb \in started PROVE FALSE
    <3>1. Cardinality(started) + 1 <= Cardinality(started)
      BY <2>2, <2>3, <2>4
    <3> QED BY <2>1, <3>1
  <2> QED BY <2>4
<1> HIDE DEF kb
<1>5. Answers' = Answers
  BY <1>2 DEF ShelfInv, Delivered, Contents
<1>6. Shelf!Ask(kb)
  BY <1>2, <1>4, <1>5 DEF Shelf!Ask, Answers
<1> QED BY <1>3, <1>6 DEF Shelf!Next

\* Content is there, as soon as a base's rows are committed.
LEMMA ContentsThere ==
    ASSUME ShelfInv, NEW kb \in indexed
    PROVE  kb \in KnowledgeBases /\ Contents[kb] # {}
<1>1. kb \in KnowledgeBases /\ Documents(kb) # {}
  BY DEF ShelfInv, KbInv, KbTypeOK, TableIsWhole
<1>2. PICK file \in Documents(kb), part \in Parts : TRUE
  BY <1>1, KnowledgeBaseAssumption
<1>3. Row(kb, file, part, kb.retrieval = "vector") \in Chunks(kb, Documents(kb))
  BY <1>2 DEF Chunks
<1> QED BY <1>1, <1>3 DEF Contents

\* A commit fills the session's base and leaves the others alone.
LEMMA CommitIsFill ==
    ASSUME ShelfInv, ShelfInv', NEW s \in Sessions, Commit(s)
    PROVE  Shelf!Next
<1>0. session[s].at = "index" /\ session[s].kb \in started /\ session[s].kb \in KnowledgeBases
  BY DEF Commit, ShelfInv, KbInv, KbTypeOK, CreationsApart
<1>1. PICK kb \in KnowledgeBases : kb = session[s].kb
  BY <1>0
<1>2. /\ started' = started /\ returned' = returned /\ indexed' = indexed \cup {kb}
      /\ kb \in started \ indexed /\ kb \in KnowledgeBases
  BY <1>0, <1>1 DEF Commit, ShelfInv, KbInv, CreationsApart
<1>3. Contents[kb] # {} /\ Answers[kb] = {}
  <2>1. Contents[kb] # {}
    <3>1. Documents(kb) # {} /\ \E part \in Parts : TRUE
      BY <1>2, KnowledgeBaseAssumption DEF ShelfInv, KbInv, TableIsWhole
    <3>2. \A file \in Documents(kb), part \in Parts :
             Row(kb, file, part, kb.retrieval = "vector") \in Chunks(kb, Documents(kb))
      BY DEF Chunks
    <3> QED BY <1>2, <3>1, <3>2 DEF Contents
  <2>2. Delivered[kb] = {}
    BY <1>2 DEF Delivered
  <2> QED BY <2>1, <2>2 DEF ShelfInv
<1>4. Answers' = [Answers EXCEPT ![kb] = Contents[kb]]
  <2>1. Delivered' = [Delivered EXCEPT ![kb] = Contents[kb]]
    BY <1>2 DEF Delivered, Contents
  <2> QED BY <2>1 DEF ShelfInv
<1>5. Shelf!Fill(kb)
  BY <1>2, <1>3, <1>4 DEF Shelf!Fill, Answers, Contents
<1> QED BY <1>2, <1>5 DEF Shelf!Next

\* A creation returns when its base has been filled.
LEMMA ReturnIsDeliver ==
    ASSUME ShelfInv, ShelfInv', NEW s \in Sessions, Return(s)
    PROVE  Shelf!Next
<1>1. PICK kb \in indexed : kb = session[s].kb
  BY DEF Return, ShelfInv, KbInv, CreationsApart
<1>2. /\ started' = started /\ indexed' = indexed /\ returned' = returned \cup {kb}
      /\ kb \in started \ returned
  BY <1>1 DEF Return, ShelfInv, KbInv, CreationsApart
<1>3. kb \in KnowledgeBases /\ Contents[kb] # {}
  BY ContentsThere
<1>4. Answers' = Answers /\ Answers[kb] = Contents[kb]
  BY <1>2, <1>3 DEF ShelfInv, Delivered, Contents
<1>5. Shelf!Deliver(kb)
  BY <1>2, <1>3, <1>4 DEF Shelf!Deliver, Answers, Contents
<1> QED BY <1>3, <1>5 DEF Shelf!Next

\* Every other step of a session, and its failure, changes no answer.
LEMMA OtherStepsDeliverNothing ==
    ASSUME ShelfInv, ShelfInv', started' = started, indexed' = indexed, returned' = returned
    PROVE  UNCHANGED Shelf!shelfVars
<1>1. Answers' = Answers
  BY DEF ShelfInv, Delivered, Contents
<1> QED BY <1>1 DEF Shelf!shelfVars, Answers

\* Sessions that index the same files in one table, fail and die at any step do
\* nothing but what the shelf allows: each base is filled in one step, delivered
\* after that, and stays as it was filled.
THEOREM ServiceImplementsShelf == Spec => CreatesAtomically
<1>1. Init => Shelf!Init
  BY DEF Init, Shelf!Init
<1>2. ShelfInv /\ ShelfInv' /\ [Next]_vars => [Shelf!Next]_(Shelf!shelfVars)
  <2> SUFFICES ASSUME ShelfInv, ShelfInv', [Next]_vars PROVE [Shelf!Next]_(Shelf!shelfVars)
    OBVIOUS
  <2>1. CASE UNCHANGED vars
    BY <2>1, OtherStepsDeliverNothing DEF vars
  <2>2. ASSUME NEW s \in Sessions, UserStarts(s) PROVE Shelf!Next
    BY <2>2, StartIsAsk
  <2>3. ASSUME NEW s \in Sessions, Commit(s) PROVE Shelf!Next
    BY <2>3, CommitIsFill
  <2>4. ASSUME NEW s \in Sessions, Return(s) PROVE Shelf!Next
    BY <2>4, ReturnIsDeliver
  <2>5. ASSUME NEW s \in Sessions, Work(s) \/ Fail(s), ~Commit(s), ~Return(s)
        PROVE  UNCHANGED Shelf!shelfVars
    <3>1. started' = started /\ indexed' = indexed /\ returned' = returned
      BY <2>5 DEF Work, Fail, MigrateBase, MigrateVector, DeadlockAbort, ReadCatalog,
         WriteCatalog, Load, ReplaceDocument, DeleteDocuments, Embedded
    <3> QED BY <3>1, OtherStepsDeliverNothing
  <2> QED BY <2>1, <2>2, <2>3, <2>4, <2>5 DEF Next
<1> QED BY <1>1, <1>2, KbInvariant, AnswersAreDelivered, PTL DEF Spec, CreatesAtomically, Shelf!Spec

-----------------------------------------------------------------------------
(* One session at a time *)

Alone == \A s, t \in Sessions : s = t

Listed(kb) == \E n \in DOMAIN catalog : catalog[n] = kb

\* What the lone session has read is what the catalog holds, and a creation
\* that has written it is listed.
ListedInTime ==
    /\ CreatedIsListed
    /\ \A s \in Sessions :
         /\ session[s].at = "write" => session[s].read = catalog
         /\ session[s].at \in {"load", "index", "embed", "return"} => Listed(session[s].kb)

LEMMA ListedStep ==
    ASSUME Alone, KbTypeOK, ListedInTime, [Next]_vars
    PROVE  ListedInTime'
<1>1. CASE UNCHANGED vars
  BY <1>1 DEF vars, ListedInTime, CreatedIsListed, Listed
<1>2. ASSUME NEW s \in Sessions, UserStarts(s) \/ Work(s) \/ Fail(s)
      PROVE  ListedInTime'
  <2>0. session \in [Sessions -> SessionState] /\ \A t \in Sessions : t = s
    BY DEF KbTypeOK, Alone
  <2>1. CASE WriteCatalog(s)
    <3> DEFINE kb == session[s].kb
    <3>1. /\ session[s].read = catalog /\ catalog \in Seq(KnowledgeBases)
          /\ kb \in KnowledgeBases \cup {None}
          /\ catalog' = Append(catalog, kb) /\ returned' = returned
          /\ session' = [session EXCEPT ![s].at = "load", ![s].read = <<>>]
      BY <2>0, <2>1, SessionFields DEF WriteCatalog, ListedInTime, KbTypeOK
    <3>2. session'[s].at = "load" /\ session'[s].kb = kb
      BY <2>0, <3>1 DEF SessionState
    <3> HIDE DEF kb
    <3>3. /\ DOMAIN catalog \subseteq DOMAIN catalog' /\ Len(catalog) + 1 \in DOMAIN catalog'
          /\ \A n \in DOMAIN catalog : catalog'[n] = catalog[n]
          /\ catalog'[Len(catalog) + 1] = kb
      BY <3>1
    <3>4. \E n \in DOMAIN catalog' : catalog'[n] = kb
      BY <3>3
    <3>5. CreatedIsListed'
      <4> SUFFICES ASSUME NEW b \in returned' PROVE \E n \in DOMAIN catalog' : catalog'[n] = b
        BY DEF CreatedIsListed
      <4>1. PICK n \in DOMAIN catalog : catalog[n] = b
        BY <3>1 DEF ListedInTime, CreatedIsListed
      <4> QED BY <4>1, <3>3
    <3>6. ASSUME NEW t \in Sessions
          PROVE  /\ session'[t].at = "load"
                 /\ \E n \in DOMAIN catalog' : catalog'[n] = session'[t].kb
      <4>1. t = s
        BY <2>0
      <4> QED BY <4>1, <3>2, <3>4
    <3> QED BY <3>5, <3>6 DEF ListedInTime, Listed
  <2>2. CASE ReadCatalog(s)
    <3>1. /\ catalog' = catalog /\ returned' = returned
          /\ \/ session' = [session EXCEPT ![s] = Idle]
             \/ session' = [session EXCEPT ![s].at = "write", ![s].read = catalog]
      BY <2>2 DEF ReadCatalog
    <3>2. \/ session'[s].at = "idle"
          \/ session'[s].at = "write" /\ session'[s].read = catalog
      BY <2>0, <3>1 DEF SessionState, Idle
    <3> QED BY <2>0, <3>1, <3>2 DEF ListedInTime, CreatedIsListed
  <2>3. CASE Commit(s)
    <3>1. /\ catalog' = catalog /\ returned' = returned /\ session[s].at = "index"
          /\ session'[s].at = "return" /\ session'[s].kb = session[s].kb
      BY <2>3, CommitEffect DEF Commit
    <3> QED BY <2>0, <3>1 DEF ListedInTime, CreatedIsListed, Listed
  <2>7. CASE Return(s)
    <3>1. /\ catalog' = catalog /\ returned' = returned \cup {session[s].kb}
          /\ session[s].at = "return" /\ session'[s].at = "idle"
      BY <2>0, <2>7 DEF Return, Idle
    <3> QED BY <2>0, <3>1 DEF ListedInTime, CreatedIsListed, Listed
  <2>4. CASE UserStarts(s)
    <3>1. catalog' = catalog /\ returned' = returned /\ session'[s].at = "migrate"
      BY <2>0, <2>4 DEF UserStarts, Start, Idle
    <3> QED BY <2>0, <3>1 DEF ListedInTime, CreatedIsListed
  <2>5. ASSUME MigrateBase(s) \/ MigrateVector(s) \/ DeadlockAbort(s) \/ Fail(s)
        PROVE  ListedInTime'
    <3>1. /\ catalog' = catalog /\ returned' = returned
          /\ session'[s].at \in {"alter", "save", "idle"}
      BY <2>0, <2>5 DEF MigrateBase, MigrateVector, DeadlockAbort, Fail, SessionState, Idle
    <3> QED BY <2>0, <3>1 DEF ListedInTime, CreatedIsListed
  <2>6. ASSUME \/ Load(s) \/ DeleteDocuments(s) \/ Embedded(s)
               \/ \E file \in Files : ReplaceDocument(s, file)
        PROVE  ListedInTime'
    <3>1. /\ catalog' = catalog /\ returned' = returned
          /\ session[s].at \in {"load", "index", "embed"}
      BY <2>6 DEF Load, DeleteDocuments, Embedded, ReplaceDocument
    <3>2. \/ session'[s].at = "idle"
          \/ session'[s].at \in {"load", "index", "embed"} /\ session'[s].kb = session[s].kb
      <4>1. CASE Load(s)
        BY <2>0, <4>1 DEF Load, SessionState, Idle
      <4>2. CASE DeleteDocuments(s)
        BY <4>2, DeleteEffect DEF ListedInTime
      <4>3. CASE Embedded(s)
        BY <2>0, <4>3 DEF Embedded, SessionState
      <4>4. ASSUME NEW file \in Files, ReplaceDocument(s, file)
            PROVE  session'[s].at = "index" /\ session'[s].kb = session[s].kb
        BY <2>0, <4>4 DEF ReplaceDocument, SessionState
      <4> QED BY <2>6, <4>1, <4>2, <4>3, <4>4
    <3> QED BY <2>0, <3>1, <3>2 DEF ListedInTime, CreatedIsListed, Listed
  <2> QED BY <1>2, <2>1, <2>2, <2>3, <2>4, <2>5, <2>6, <2>7 DEF Work
<1> QED BY <1>1, <1>2 DEF Next

\* As long as one session creates at a time, the entry of a base whose creation
\* returned is in the catalog and stays there: only a second session's write
\* takes it away.
THEOREM LoneSessionKeepsEntries == Alone => (Spec => []CreatedIsListed)
<1> SUFFICES ASSUME Alone PROVE Spec => []CreatedIsListed
  OBVIOUS
<1>1. Init => ListedInTime
  BY DEF Init, ListedInTime, CreatedIsListed, Idle
<1>2. KbInv /\ ListedInTime /\ [Next]_vars => ListedInTime'
  BY ListedStep DEF KbInv
<1>3. ListedInTime => CreatedIsListed
  BY DEF ListedInTime
<1> QED BY <1>1, <1>2, <1>3, KbInvariant, PTL DEF Spec
============================================================================
