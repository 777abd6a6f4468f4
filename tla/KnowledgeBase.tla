--------------------------- MODULE KnowledgeBase ---------------------------
(***************************************************************************)
(* KnowledgeBaseService with the local catalog, the registry's adapters,   *)
(* the file importer and the PostgreSQL chunk stores, used by several      *)
(* sessions of the command line at once.  They share the catalog file and  *)
(* one database; a session creates one knowledge base at a time.           *)
(*                                                                         *)
(* PostgreSQL is a set of committed rows, one open transaction per         *)
(* session and the table lock each transaction holds.  A session may die,  *)
(* and every call outside the process may fail, at any step.               *)
(***************************************************************************)
EXTENDS Naturals, Sequences, FiniteSets

CONSTANTS Sessions,
          Names,         \* names a user gives to knowledge bases
          Files,         \* files a source path may hold
          Paths,         \* what a source path leads to: sets of files
          FileKind,      \* of a file: text, blank, invalid (UTF-8), other
          Parts,         \* the chunks of a text file
          MaxCreations,  \* bound: creations started
          None

ASSUME KnowledgeBaseAssumption ==
    /\ FileKind \in [Files -> {"text", "blank", "invalid", "other"}]
    /\ Paths \subseteq SUBSET Files
    /\ Parts # {}
    /\ MaxCreations \in Nat

VARIABLES catalog,  \* knowledge_bases.json: the entries in order
          table,    \* committed rows of rag_text_chunks
          started,  \* every knowledge base a creation was started for
          indexed,  \* history: those whose rows were committed
          returned, \* those whose creation returned: the interface selects them
          session   \* what each session is doing

vars == <<catalog, table, started, indexed, returned, session>>

Retrievals == {"bm25", "vector"}

KnowledgeBases == [id : 1..MaxCreations, name : Names, retrieval : Retrievals, files : Paths]

\* Faulty variant: the identifier does not depend on the knowledge base.
DocumentIdOfFile(kb, file) == <<1, file>>

\* sha256 of the knowledge base's id and the path; the chunk ids extend it.
DocumentId(kb, file) == <<kb.id, file>>

Row(kb, file, part, embedded) ==
    [id |-> <<DocumentId(kb, file), part>>, document |-> DocumentId(kb, file),
     knowledge_base_id |-> kb.id, file |-> file, embedded |-> embedded]

Rows == [id : ((1..MaxCreations) \X Files) \X Parts, document : (1..MaxCreations) \X Files,
         knowledge_base_id : 1..MaxCreations, file : Files, embedded : BOOLEAN]

\* LocalFileImporter.load: the supported files of the path that are not blank.
Documents(kb) == {file \in kb.files : FileKind[file] = "text"}

Unreadable(kb) == \E file \in kb.files : FileKind[file] = "invalid"

\* MarkdownChunker on each document, in the store's form.
Chunks(kb, files) == {Row(kb, file, part, kb.retrieval = "vector") : file \in files, part \in Parts}

---------------------------------------------------------------------------
(* Table locks.  A transaction of the migration holds a share lock from    *)
(* CREATE INDEX on and needs an exclusive one for ALTER TABLE; writing     *)
(* rows takes a row lock on the table.                                     *)

Conflicts(mode) == CASE mode = "share"     -> {"row"}
                     [] mode = "row"       -> {"share"}
                     [] mode = "exclusive" -> {"share", "row"}

Grants(s, mode) == \A t \in Sessions \ {s} : session[t].lock \notin Conflicts(mode)

---------------------------------------------------------------------------
(* KnowledgeBaseService.create, step by step.                              *)

Idle == [at |-> "idle", kb |-> None, read |-> <<>>, lock |-> "none",
         todo |-> {}, replaced |-> {}, rows |-> {}]

Init ==
    /\ catalog = <<>> /\ table = {}
    /\ started = {} /\ indexed = {} /\ returned = {}
    /\ session = [s \in Sessions |-> Idle]

\* The values come from the interface's wizard, which fills every field that
\* create checks; the id is a fresh uuid.
Start(s, name, retrieval, files) ==
    LET kb == [id |-> Cardinality(started) + 1, name |-> name,
               retrieval |-> retrieval, files |-> files]
    IN /\ session[s].at = "idle"
       /\ Cardinality(started) < MaxCreations
       /\ started' = started \cup {kb}
       /\ session' = [session EXCEPT ![s] = [Idle EXCEPT !.at = "migrate", !.kb = kb]]
       /\ UNCHANGED <<catalog, table, indexed, returned>>

\* The base script of adapter.migrate, after check_connection.  It is all of
\* the migration for bm25, whose transaction ends with it.
MigrateBase(s) ==
    /\ session[s].at = "migrate"
    /\ Grants(s, "share")
    /\ session' = IF session[s].kb.retrieval = "vector"
                  THEN [session EXCEPT ![s].at = "alter", ![s].lock = "share"]
                  ELSE [session EXCEPT ![s].at = "save"]
    /\ UNCHANGED <<catalog, table, started, indexed, returned>>

\* The scripts that give the table its embedding column and index.
MigrateVector(s) ==
    /\ session[s].at = "alter"
    /\ Grants(s, "exclusive")
    /\ session' = [session EXCEPT ![s].at = "save", ![s].lock = "none"]
    /\ UNCHANGED <<catalog, table, started, indexed, returned>>

\* Two migrations wait for each other's share lock; the server ends one.
DeadlockAbort(s) ==
    /\ session[s].at = "alter"
    /\ \E t \in Sessions \ {s} : session[t].at = "alter"
    /\ session' = [session EXCEPT ![s] = Idle]
    /\ UNCHANGED <<catalog, table, started, indexed, returned>>

\* Faulty variant: the name is not looked for.
ReadCatalogOnly(s) ==
    /\ session[s].at = "save"
    /\ session' = [session EXCEPT ![s].at = "write", ![s].read = catalog]
    /\ UNCHANGED <<catalog, table, started, indexed, returned>>

\* Local.create_knowledge_base reads the catalog and looks for the name ...
ReadCatalog(s) ==
    /\ session[s].at = "save"
    /\ session' = IF \E n \in DOMAIN catalog : catalog[n].name = session[s].kb.name
                  THEN [session EXCEPT ![s] = Idle]
                  ELSE [session EXCEPT ![s].at = "write", ![s].read = catalog]
    /\ UNCHANGED <<catalog, table, started, indexed, returned>>

\* ... and replaces the file by what it read and the new entry.
WriteCatalog(s) ==
    /\ session[s].at = "write"
    /\ catalog' = Append(session[s].read, session[s].kb)
    /\ session' = [session EXCEPT ![s].at = "load", ![s].read = <<>>]
    /\ UNCHANGED <<table, started, indexed, returned>>

\* The importer reads every file; one that is not UTF-8, or no document at
\* all, ends the creation.
Load(s) ==
    LET kb == session[s].kb
    IN /\ session[s].at = "load"
       /\ session' = IF Unreadable(kb) \/ Documents(kb) = {}
                     THEN [session EXCEPT ![s] = Idle]
                     ELSE [session EXCEPT ![s].at = "index", ![s].todo = Documents(kb)]
       /\ UNCHANGED <<catalog, table, started, indexed, returned>>

\* replace_document_chunks writes one document of the bm25 store.
ReplaceDocument(s, file) ==
    LET kb == session[s].kb
    IN /\ session[s].at = "index"
       /\ kb.retrieval = "bm25"
       /\ file \in session[s].todo
       /\ Grants(s, "row")
       /\ session' = [session EXCEPT ![s].lock = "row", ![s].todo = @ \ {file},
                                     ![s].replaced = @ \cup {DocumentId(kb, file)},
                                     ![s].rows = @ \cup Chunks(kb, {file})]
       /\ UNCHANGED <<catalog, table, started, indexed, returned>>

\* areplace_document_chunks deletes all of the documents' rows first, then
\* embeds all chunks with the transaction open.
DeleteDocuments(s) ==
    LET kb == session[s].kb
    IN /\ session[s].at = "index"
       /\ kb.retrieval = "vector"
       /\ session[s].todo # {}
       /\ Grants(s, "row")
       /\ session' = [session EXCEPT ![s].at = "embed", ![s].lock = "row", ![s].todo = {},
                                     ![s].replaced = {DocumentId(kb, f) : f \in session[s].todo},
                                     ![s].rows = Chunks(kb, session[s].todo)]
       /\ UNCHANGED <<catalog, table, started, indexed, returned>>

Embedded(s) ==
    /\ session[s].at = "embed"
    /\ session' = [session EXCEPT ![s].at = "index"]
    /\ UNCHANGED <<catalog, table, started, indexed, returned>>

\* Rows of the replaced documents that were not written again are gone, and a
\* row with a known id is overwritten.
Replaced(rows, documents, new) ==
    {r \in rows : r.document \notin documents /\ \A n \in new : n.id # r.id} \cup new

\* Leaving the connection's context commits: from here on the knowledge base
\* can be asked, by whoever selects it from the catalog.
Commit(s) ==
    /\ session[s].at = "index"
    /\ session[s].lock = "row"
    /\ session[s].todo = {}
    /\ table' = Replaced(table, session[s].replaced, session[s].rows)
    /\ indexed' = indexed \cup {session[s].kb}
    /\ session' = [session EXCEPT ![s] = [Idle EXCEPT !.at = "return", !.kb = session[s].kb]]
    /\ UNCHANGED <<catalog, started, returned>>

\* create returns: the interface selects the knowledge base.
Return(s) ==
    /\ session[s].at = "return"
    /\ returned' = returned \cup {session[s].kb}
    /\ session' = [session EXCEPT ![s] = Idle]
    /\ UNCHANGED <<catalog, table, started, indexed>>

\* Faulty variant: a failure leaves the transaction open.
FailInTransaction(s) ==
    /\ session[s].at \in {"migrate", "alter", "save", "write", "load", "index", "embed", "return"}
    /\ session' = [session EXCEPT ![s] = [Idle EXCEPT !.lock = session[s].lock]]
    /\ UNCHANGED <<catalog, table, started, indexed, returned>>

\* A call outside the process fails (the connection, a migration, the file
\* system, the embedding service or a statement), or the process dies and is
\* started again.  The open transaction is rolled back by psycopg or by the
\* server, one whose commit the server has done is not, even when the session
\* never learns of it; the catalog keeps what it has.
Fail(s) ==
    /\ session[s].at \in {"migrate", "alter", "save", "write", "load", "index", "embed", "return"}
    /\ session' = [session EXCEPT ![s] = Idle]
    /\ UNCHANGED <<catalog, table, started, indexed, returned>>

Work(s) ==
    \/ MigrateBase(s) \/ MigrateVector(s) \/ DeadlockAbort(s)
    \/ ReadCatalog(s) \/ WriteCatalog(s) \/ Load(s)
    \/ \E file \in Files : ReplaceDocument(s, file)
    \/ DeleteDocuments(s) \/ Embedded(s) \/ Commit(s) \/ Return(s)

UserStarts(s) ==
    \E name \in Names, retrieval \in Retrievals, files \in Paths :
        Start(s, name, retrieval, files)

Next == \E s \in Sessions : UserStarts(s) \/ Work(s) \/ Fail(s)

\* A session goes on with a creation it started; PostgreSQL grants locks in
\* the order of the requests, so none waits for ever while others come and go.
Fairness == \A s \in Sessions : SF_vars(Work(s))

Spec == Init /\ [][Next]_vars /\ Fairness

---------------------------------------------------------------------------
(* Properties.                                                             *)

\* The rows a question to a knowledge base is answered from: both searches
\* filter by the identifier in the rows' metadata.
Bm25Candidates(kb) == {r \in table : r.knowledge_base_id = kb.id}
VectorCandidates(kb) == {r \in table : r.embedded /\ r.knowledge_base_id = kb.id}
Candidates(kb) ==
    IF kb.retrieval = "vector" THEN VectorCandidates(kb) ELSE Bm25Candidates(kb)

\* Where a session is in create, and what it holds.
SessionState ==
    [at : {"idle", "migrate", "alter", "save", "write", "load", "index", "embed", "return"},
     kb : KnowledgeBases \cup {None}, read : Seq(KnowledgeBases),
     lock : {"none", "share", "row"}, todo : SUBSET Files,
     replaced : SUBSET ((1..MaxCreations) \X Files), rows : SUBSET Rows]

\* Every variable has the type the code gives it.
KbTypeOK ==
    /\ catalog \in Seq(KnowledgeBases)
    /\ table \subseteq Rows
    /\ started \subseteq KnowledgeBases /\ indexed \subseteq started
    /\ returned \subseteq indexed
    /\ session \in [Sessions -> SessionState]

\* Whatever fails or dies in the middle, and whatever other sessions write to
\* the same table, from the same files or not: the knowledge base whose rows were
\* committed, and every one whose creation returned is one, answers from all
\* chunks of all its documents, for good, and any other one, listed or not, from
\* nothing.
IndexIsWholeOrAbsent ==
    /\ returned \subseteq indexed
    /\ \A kb \in indexed : Documents(kb) # {}
    /\ \A kb \in started :
           Candidates(kb) = IF kb \in indexed THEN Chunks(kb, Documents(kb)) ELSE {}

\* Sessions read and replace the catalog without a lock, and still no version
\* of the file ever holds two knowledge bases of one name: select_knowledge_base
\* and the check in create_knowledge_base rely on it.
CatalogNamesUnique ==
    \A m, n \in DOMAIN catalog : catalog[m].name = catalog[n].name => m = n

\* What a session read has no entry of the name it is about to add.
ReadsAreKeyed ==
    \A s \in Sessions : session[s].at = "write" =>
        LET read == session[s].read IN
        /\ \A m, n \in DOMAIN read : read[m].name = read[n].name => m = n
        /\ \A n \in DOMAIN read : read[n].name # session[s].kb.name

\* Identifiers are given out once, and each creation has one session.
CreationsApart ==
    /\ IsFiniteSet(started)
    /\ \A kb \in started : kb.id <= Cardinality(started)
    /\ \A kb, other \in started : kb.id = other.id => kb = other
    /\ \A s \in Sessions : session[s].at # "idle" =>
           /\ session[s].kb \in started \ returned
           /\ session[s].at = "return" <=> session[s].kb \in indexed
    /\ \A s, t \in Sessions :
           s # t /\ session[s].at # "idle" /\ session[t].at # "idle" =>
               session[s].kb # session[t].kb

\* An open transaction holds the chunks of the documents it is done with; the
\* vector store takes all documents in one go, and no one writes before.
TransactionsHold ==
    \A s \in Sessions :
        LET kb == session[s].kb
            done == Documents(kb) \ session[s].todo
        IN /\ session[s].at \in {"index", "embed"} =>
                  /\ Documents(kb) # {} /\ session[s].todo \subseteq Documents(kb)
                  /\ session[s].replaced = {DocumentId(kb, file) : file \in done}
                  /\ session[s].rows = Chunks(kb, done)
                  /\ kb.retrieval = "vector" => session[s].todo \in {{}, Documents(kb)}
           /\ session[s].at \in {"migrate", "alter", "save", "write", "load", "return"} =>
                  session[s].replaced = {} /\ session[s].rows = {}

\* The committed rows are those of whole creations.
TableIsWhole ==
    /\ \A kb \in indexed : Documents(kb) # {}
    /\ \A r \in table : \E kb \in indexed : r \in Chunks(kb, Documents(kb))
    /\ \A kb \in indexed : Chunks(kb, Documents(kb)) \subseteq table

\* The catalog keeps its key, and table and transactions hold whole creations:
\* the inductive invariant of the service.
KbInv ==
    /\ KbTypeOK
    /\ CatalogNamesUnique /\ ReadsAreKeyed
    /\ CreationsApart /\ TransactionsHold /\ TableIsWhole

\* The promise of KnowledgeShelf, kept by sessions that index the same files in
\* one table: what a question to a base finds goes from nothing to everything in
\* one step, before its creation returns, and no other creation, commit, failure
\* or death ever changes it.
Shelf == INSTANCE KnowledgeShelf WITH
    Bases   <- KnowledgeBases,
    Whole   <- [kb \in KnowledgeBases |-> Chunks(kb, Documents(kb))],
    asked   <- started,
    usable  <- returned,
    answers <- [kb \in KnowledgeBases |-> IF kb \in started THEN Candidates(kb) ELSE {}]
CreatesAtomically == Shelf!Spec

\* Every creation ends, also when two migrations wait for each other.
CreationsEnd == \A s \in Sessions : session[s].at # "idle" ~> session[s].at = "idle"

\* The entry of a created knowledge base stays in the catalog: its record "is
\* saved immediately", to be selected by later sessions.
CreatedIsListed == \A kb \in returned : \E n \in DOMAIN catalog : catalog[n] = kb

\* "A future incremental import can resume using the same knowledge base": a
\* name that is taken belongs to a knowledge base that was indexed, or that
\* some session still works on.
TakenNameIsIndexed ==
    \A n \in DOMAIN catalog :
        \/ catalog[n] \in indexed
        \/ \E s \in Sessions : session[s].kb = catalog[n]
============================================================================
