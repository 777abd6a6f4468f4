---------------------------- MODULE CliIndexing ----------------------------
(***************************************************************************)
(* The terminal interface of fatbb: CliController, the reducer update(),   *)
(* the handlers of actions.py and the pages and routes of cli.toml, with   *)
(* the background thread that creates a knowledge base.                    *)
(*                                                                         *)
(* The event loop and the background thread share controller.state, an     *)
(* immutable record behind one reference.  Each of them reads the record,  *)
(* builds the next one and stores it, and the other may store in between.  *)
(* A handler of the event loop therefore takes a step for each such read:  *)
(* Observe, Resolve, Count, Commit, then Run, Reread and Store when an     *)
(* action is raised.                                                       *)
(*                                                                         *)
(* KnowledgeBaseService is left open to what the interface can see of it:  *)
(* it saves the catalog entry or not, and succeeds or fails.  Of the       *)
(* record, wording, progress, the transcript and its scroll offset are     *)
(* left out; a write that changes nothing else still stores a whole        *)
(* record, and is a step.                                                  *)
(***************************************************************************)
EXTENDS Naturals, Sequences

CONSTANTS Texts,        \* contents of the input line; "/" opens the palette
          None,         \* no knowledge base, no task, nothing read
          MaxCreations, \* bound: how many creations are submitted
          MaxOvertakes  \* bound: how many events the user gets in while the
                        \* thread is between a read of the state and its store,
                        \* or past the service's call

Blank == ""   \* an empty line, a field not filled in

ASSUME CliAssumption ==
    /\ {Blank, "/"} \subseteq Texts
    /\ MaxCreations \in Nat \ {0} /\ MaxOvertakes \in Nat

VARIABLES ui,       \* controller.state
          existing, \* controller._existing: the catalog when it was listed
          active,   \* controller._active_knowledge_base
          locked,   \* controller._indexing_lock
          task,     \* the creation on the executor, or None
          loop,     \* the handler the event loop is in
          catalog,  \* the service's catalog, in order of creation
          created,  \* number of creations submitted: their identifiers
          undone    \* history: a store of the thread undid what the user had done

vars == <<ui, existing, active, locked, task, loop, catalog, created, undone>>

KnowledgeBases == 1..MaxCreations

---------------------------------------------------------------------------
(* cli.toml: menus, pages and routes.                                      *)

Menu == [palette             |-> <<"knowledge_base", "back">>,
         knowledge_base_menu |-> <<"select_existing", "create_new", "back">>,
         retrieval_type      |-> <<"bm25", "vector", "back">>,
         database_type       |-> <<"pg", "back">>,
         embedding_provider  |-> <<"ollama", "back">>,
         embedding_model     |-> <<"nomic-embed-text", "back">>,
         source_type         |-> <<"file_path", "back">>]

MenuPages == DOMAIN Menu \cup {"existing_knowledge_bases"}

\* The text pages with their back_route.
TextBack == [database_url        |-> "database_type",
             embedding_url       |-> "embedding_model",
             knowledge_base_name |-> "source_type",
             source_path         |-> "knowledge_base_name"]

TextPages == DOMAIN TextBack

Screens == {"chat", "indexing"} \cup MenuPages \cup TextPages

\* The pages that fill one pending field each, and the *_back routes of menus.
WizardPages == {"retrieval_type", "database_type", "database_url",
                "embedding_provider", "embedding_model", "embedding_url",
                "source_type", "knowledge_base_name"}

MenuBack == [retrieval_type     |-> "knowledge_base_menu",
             database_type      |-> "retrieval_type",
             embedding_provider |-> "database_url",
             embedding_model    |-> "embedding_provider",
             source_type        |-> "database_url"]

\* _database_url_next_route depends on the retrieval type, the others do not.
NextPage(page, fields) ==
    CASE page = "retrieval_type"     -> "database_type"
      [] page = "database_type"      -> "database_url"
      [] page = "database_url"       -> IF fields["retrieval_type"] = "vector"
                                        THEN "embedding_provider" ELSE "source_type"
      [] page = "embedding_provider" -> "embedding_model"
      [] page = "embedding_model"    -> "embedding_url"
      [] page = "embedding_url"      -> "source_type"
      [] page = "source_type"        -> "knowledge_base_name"
      [] page = "knowledge_base_name" -> "source_path"

\* What CliConfig.__init__ insists on: every route leads to a page, every menu
\* page has a menu of its own or an item source.
ConfigLoads ==
    /\ {"chat", "palette"} \subseteq Screens
    /\ \A page \in WizardPages, r \in {"bm25", "vector"} :
           NextPage(page, [retrieval_type |-> r]) \in Screens
    /\ \A page \in TextPages : TextBack[page] \in Screens
    /\ \A page \in DOMAIN MenuBack : page \in MenuPages /\ MenuBack[page] \in Screens

ASSUME CliConfigAssumption == ConfigLoads

---------------------------------------------------------------------------
(* The state record and the events.                                        *)

Configs == [WizardPages -> {Blank, "typed", "bm25", "vector", "pg", "ollama",
                            "nomic-embed-text", "file_path"}]

UiState == [screen : Screens, index : 0..(MaxCreations + 2), text : Texts,
            active : KnowledgeBases \cup {None}, pending : Configs]

TaskReads == {"working", "activate", "clear", "fail"}

\* What is on the executor: where it is, the knowledge base it creates, the
\* configuration it was handed, the state it has read and not yet stored over.
Creations == [at : TaskReads \cup {"release"}, kb : KnowledgeBases, config : Configs,
              seen : UiState \cup {None}, overtaken : 0..MaxOvertakes]

\* None is neither a knowledge base nor a state nor a creation.
ASSUME NoneAssumption ==
    /\ None \notin KnowledgeBases
    /\ None \notin UiState
    /\ None \notin Creations

\* "scroll" stands for the keys bound to on_scroll.
Events == {<<"text", t>> : t \in Texts}
              \cup {<<"key", k>> : k \in {"up", "down", "enter", "escape", "scroll"}}

\* len(controller.items()) on a page.
ItemCount(page) ==
    CASE page \in TextPages                 -> 1
      [] page \in DOMAIN Menu               -> Len(Menu[page])
      [] page = "existing_knowledge_bases"  -> (IF existing = <<>> THEN 1 ELSE Len(existing)) + 1
      [] OTHER                              -> 0

Go(u, page) == [u EXCEPT !.screen = page, !.index = 0, !.text = Blank]

Step(u, event, n) ==
    [u EXCEPT !.index = (IF event[2] = "up" THEN u.index + n - 1 ELSE u.index + 1) % n]

Arrows == {<<"key", "up">>, <<"key", "down">>}

\* update() on a text page with a back route.
TextUpdate(u, event, page) ==
    CASE event[1] = "text"            -> [u EXCEPT !.text = event[2], !.index = 1]
      [] event = <<"key", "escape">>  -> Go(u, TextBack[page])
      [] event \in Arrows             -> Step(u, event, 2)
      [] OTHER                        -> IF u.index = 0 THEN Go(u, TextBack[page]) ELSE u

\* A line that opens the palette, closes it, or is just typed.
TypedUpdate(u, line) ==
    IF line = "/" /\ u.screen = "chat"
    THEN [u EXCEPT !.screen = "palette", !.text = "/", !.index = 0]
    ELSE IF line = Blank /\ u.screen = "palette" THEN Go(u, "chat")
    ELSE [u EXCEPT !.text = line]

\* update() on the chat page and the menus.
MenuUpdate(u, event, n) ==
    CASE event[1] = "text"           -> TypedUpdate(u, event[2])
      [] event = <<"key", "escape">> -> IF u.screen = "chat" THEN u ELSE Go(u, "chat")
      [] event \in Arrows            -> Step(u, event, IF n = 0 THEN 1 ELSE n)
      [] OTHER                       -> u

\* The state of the Transition that update() returns; on_scroll changes only
\* the offset, and on the progress page the state is returned as it is.
UpdateState(u, event, page, n) ==
    IF page = "indexing" \/ event = <<"key", "scroll">> THEN u
    ELSE IF page \in TextPages THEN TextUpdate(u, event, page)
    ELSE MenuUpdate(u, event, n)

\* Whether that Transition carries the page's submit_action.
Submits(u, event, page) ==
    /\ event = <<"key", "enter">>
    /\ page # "indexing"
    /\ page \in TextPages => u.index # 0
    /\ page = "chat" => u.text # Blank

---------------------------------------------------------------------------
(* The event loop.  loop.at: idle; observed (self.state was read);         *)
(* resolved (its page was looked up); counted (and its items); run (the    *)
(* state is committed, an action is raised); reread (a handler that reads  *)
(* the state twice has read it once); store (it has read the state whose   *)
(* successor it will store); submit (create_knowledge_base moved to the    *)
(* indexing page and asks for the executor); refused; exited.  early holds *)
(* the fields as the handler first read them.                              *)

Idle == [at |-> "idle", seen |-> None, page |-> None, count |-> 0, value |-> None,
         early |-> None]

Init ==
    /\ ui = [screen |-> "chat", index |-> 0, text |-> Blank, active |-> None,
             pending |-> [page \in WizardPages |-> Blank]]
    /\ existing = <<>> /\ active = None
    /\ locked = FALSE /\ task = None
    /\ loop = Idle
    /\ catalog = <<>> /\ created = 0 /\ undone = FALSE

\* The thread is inside service.create.
Working == task # None /\ task.at = "working" /\ task.seen = None

\* Bound: the user stops once the last creation has left the executor.
SessionGoesOn == created < MaxCreations \/ task # None

\* An event came in: self.state, the first argument of update(), is read.  The
\* event itself is chosen where it first matters, in Commit.
Observe ==
    /\ loop.at = "idle"
    /\ SessionGoesOn
    /\ loop' = [Idle EXCEPT !.at = "observed", !.seen = ui]
    /\ IF task # None /\ ~Working
       THEN task.overtaken < MaxOvertakes /\ task' = [task EXCEPT !.overtaken = @ + 1]
       ELSE UNCHANGED task
    /\ UNCHANGED <<ui, existing, active, locked, catalog, created, undone>>

\* page=self._config.page(self.state.screen).
Resolve ==
    /\ loop.at = "observed"
    /\ loop' = [loop EXCEPT !.at = "resolved", !.page = ui.screen]
    /\ UNCHANGED <<ui, existing, active, locked, task, catalog, created, undone>>

\* item_count=len(self.items()).  items() looks at the screen up to three times;
\* a page without items counts as one with a single item.
Count ==
    /\ loop.at = "resolved"
    /\ loop' = [loop EXCEPT !.at = "counted", !.count = ItemCount(ui.screen)]
    /\ UNCHANGED <<ui, existing, active, locked, task, catalog, created, undone>>

\* _apply: the transition's state is stored, then its action runs.
Commit(event) ==
    /\ loop.at = "counted"
    /\ ui' = UpdateState(loop.seen, event, loop.page, loop.count)
    /\ loop' = IF Submits(loop.seen, event, loop.page)
               THEN [loop EXCEPT !.at = "run",
                                 !.value = IF loop.page \in MenuPages THEN loop.seen.index + 1
                                           ELSE loop.seen.text]
               ELSE Idle
    /\ UNCHANGED <<existing, active, locked, task, catalog, created, undone>>

\* The choice a menu's submit action finds at the submitted position; none
\* when the page was looked up after the state had changed under the handler.
Choice == IF loop.value <= Len(Menu[loop.page]) THEN Menu[loop.page][loop.value] ELSE "none"

\* Neither the setters nor select_knowledge_base catch that: the exception leaves
\* the handler at once.
EscapesHandler ==
    \/ loop.page \in DOMAIN MenuBack /\ Choice = "none"
    \/ /\ loop.page = "existing_knowledge_bases" /\ existing # <<>>
       /\ loop.value > ItemCount(loop.page)

SelectsKnowledgeBase ==
    loop.page = "existing_knowledge_bases" /\ loop.value <= Len(existing)

\* set_database_url reads the state for the route it takes, and again to replace
\* it; create_knowledge_base reads it for the configuration, and again.
ReadsTwice ==
    \/ loop.page = "source_path"
    \/ loop.page = "database_url" /\ loop.value # Blank

\* A handler up to the point where it first reads the state:
\* open_existing_knowledge_bases lists the catalog before that, and _activate sets
\* the active knowledge base.
Run ==
    /\ loop.at = "run"
    /\ existing' = IF loop.page = "knowledge_base_menu" /\ Choice = "select_existing"
                   THEN catalog ELSE existing
    /\ active' = IF SelectsKnowledgeBase THEN existing[loop.value] ELSE active
    /\ loop' = IF EscapesHandler THEN Idle
               ELSE [loop EXCEPT !.at = IF ReadsTwice THEN "reread" ELSE "store",
                                 !.seen = ui, !.early = ui.pending]
    /\ UNCHANGED <<ui, locked, task, catalog, created, undone>>

\* The second read, of the state that is replaced.
Reread ==
    /\ loop.at = "reread"
    /\ loop' = [loop EXCEPT !.at = "store", !.seen = ui]
    /\ UNCHANGED <<ui, existing, active, locked, task, catalog, created, undone>>

\* _activate's new state.
Activated(u, kb) == [Go(u, "chat") EXCEPT !.active = kb]

\* Faulty variant: blank text is stored like any other.
FilledBlank(u, page, value) ==
    Go([u EXCEPT !.pending[page] = value], NextPage(page, loop.early))

\* A setter of the creation wizard with the value submitted on its page, whose
\* route goes by the fields as they were first read; blank text raises, and the
\* state keeps everything but its status.
Filled(u, page, value) ==
    IF value = Blank THEN u
    ELSE Go([u EXCEPT !.pending[page] = value], NextPage(page, loop.early))

\* The state the handler of a page's submit action stores.
Handled(u) ==
    LET page == loop.page
    IN CASE page = "chat" ->
                IF u.active # None /\ active = None THEN u ELSE [u EXCEPT !.text = Blank]
         [] SelectsKnowledgeBase -> Activated(u, existing[loop.value])
         [] page = "existing_knowledge_bases" /\ ~SelectsKnowledgeBase ->
                IF loop.value = ItemCount(page) THEN Go(u, "knowledge_base_menu") ELSE u
         [] page \in {"palette", "knowledge_base_menu"} ->
                (CASE Choice = "knowledge_base"  -> Go(u, "knowledge_base_menu")
                   [] Choice = "select_existing" -> Go(u, "existing_knowledge_bases")
                   [] Choice = "create_new"      -> Go(u, "retrieval_type")
                   [] Choice = "back"            -> [u EXCEPT !.screen = "chat", !.index = 0]
                   [] Choice = "none"            -> u)
         [] page \in TextPages -> Filled(u, page, IF loop.value = Blank THEN Blank ELSE "typed")
         [] page \in DOMAIN MenuBack ->
                IF Choice = "back" THEN Go(u, MenuBack[page]) ELSE Filled(u, page, Choice)

\* The question of the chat page goes to service.retrieve, which may raise: the
\* state then keeps its text.
Store ==
    /\ loop.at = "store"
    /\ loop.page # "source_path"
    /\ ui' \in {Handled(loop.seen)} \cup (IF loop.page = "chat" THEN {loop.seen} ELSE {})
    /\ loop' = Idle
    /\ UNCHANGED <<existing, active, locked, task, catalog, created, undone>>

\* create_knowledge_base shows the indexing page before it asks for the
\* executor; the configuration it hands over is the one it first read.
ShowIndexing ==
    /\ loop.at = "store"
    /\ loop.page = "source_path"
    /\ ui' = [loop.seen EXCEPT !.screen = "indexing", !.text = Blank]
    /\ loop' = [loop EXCEPT !.at = "submit"]
    /\ UNCHANGED <<existing, active, locked, task, catalog, created, undone>>

\* submit_background_indexing takes the lock without waiting.
Submit ==
    /\ loop.at = "submit"
    /\ ~locked
    /\ created < MaxCreations
    /\ locked' = TRUE
    /\ created' = created + 1
    /\ task' = [at |-> "working", kb |-> created + 1, config |-> loop.early,
              seen |-> None, overtaken |-> 0]
    /\ loop' = Idle
    /\ UNCHANGED <<ui, existing, active, catalog, undone>>

\* It was taken: only the status changes, in a read and a store.
RefuseRead ==
    /\ loop.at = "submit"
    /\ locked
    /\ loop' = [loop EXCEPT !.at = "refused", !.seen = ui]
    /\ UNCHANGED <<ui, existing, active, locked, task, catalog, created, undone>>

RefuseStore ==
    /\ loop.at = "refused"
    /\ ui' = loop.seen
    /\ loop' = Idle
    /\ UNCHANGED <<existing, active, locked, task, catalog, created, undone>>

\* Ctrl-C and Ctrl-D, which the progress page ignores.
Exit ==
    /\ loop.at = "idle"
    /\ ui.screen # "indexing"
    /\ loop' = [Idle EXCEPT !.at = "exited"]
    /\ UNCHANGED <<ui, existing, active, locked, task, catalog, created, undone>>

---------------------------------------------------------------------------
(* The background thread: _run inside the wrapper of                       *)
(* submit_background_indexing.  task.at: working; then activate and clear, *)
(* or fail; release.  Each of report, activate, clear and fail reads the   *)
(* state (seen) and stores its successor.                                  *)

\* replace(controller.state, ...) evaluates its first argument.
TaskRead ==
    /\ task # None
    /\ task.at \in TaskReads /\ task.seen = None
    /\ task' = [task EXCEPT !.seen = ui]
    /\ UNCHANGED <<ui, existing, active, locked, loop, catalog, created, undone>>

\* That store puts back the fields the user has filled since the read, or takes
\* away the progress page while a creation is being submitted from it.
Undoes ==
    \/ task.seen.pending # ui.pending
    \/ loop.at = "submit" /\ task.seen.screen # "indexing"

\* ... and the result is stored; report_progress and clearing the progress
\* line store everything else as it was read.
TaskStore ==
    /\ task # None
    /\ task.seen # None
    /\ ui' = CASE task.at = "activate" -> Activated(task.seen, task.kb)
               [] task.at = "fail"     -> [task.seen EXCEPT !.screen = "source_path", !.text = Blank]
               [] OTHER                -> task.seen
    /\ task' = [task EXCEPT !.seen = None, !.overtaken = IF task.at = "working" THEN 0 ELSE @,
                            !.at = CASE task.at = "working"  -> "working"
                                     [] task.at = "activate" -> "clear"
                                     [] OTHER                -> "release"]
    /\ undone' = (undone \/ Undoes)
    /\ UNCHANGED <<existing, active, locked, loop, catalog, created>>

\* service.create saves the catalog entry in the course of its work.
ServiceSaves ==
    /\ Working
    /\ \A n \in DOMAIN catalog : catalog[n] # task.kb
    /\ catalog' = Append(catalog, task.kb)
    /\ UNCHANGED <<ui, existing, active, locked, task, loop, created, undone>>

\* Faulty variant: the active knowledge base is not set.
ServiceReturnsOnly ==
    /\ Working
    /\ \E n \in DOMAIN catalog : catalog[n] = task.kb
    /\ task' = [task EXCEPT !.at = "activate"]
    /\ UNCHANGED <<ui, existing, active, locked, loop, catalog, created, undone>>

\* It returns the knowledge base, which _activate makes the active one.
ServiceReturns ==
    /\ Working
    /\ \E n \in DOMAIN catalog : catalog[n] = task.kb
    /\ active' = task.kb
    /\ task' = [task EXCEPT !.at = "activate"]
    /\ UNCHANGED <<ui, existing, locked, loop, catalog, created, undone>>

\* It raises, before or after it saved the entry.
ServiceRaises ==
    /\ Working
    /\ task' = [task EXCEPT !.at = "fail"]
    /\ UNCHANGED <<ui, existing, active, locked, loop, catalog, created, undone>>

\* Faulty variant: the lock is not released.
ReleaseTaskOnly ==
    /\ task # None
    /\ task.at = "release"
    /\ task' = None
    /\ UNCHANGED <<ui, existing, active, locked, loop, catalog, created, undone>>

\* The wrapper's finally.
Release ==
    /\ task # None
    /\ task.at = "release"
    /\ locked' = FALSE
    /\ task' = None
    /\ UNCHANGED <<ui, existing, active, loop, catalog, created, undone>>

Handler ==
    \/ Resolve \/ Count
    \/ \E event \in Events : Commit(event)
    \/ Run \/ Reread \/ Store \/ ShowIndexing
    \/ Submit \/ RefuseRead \/ RefuseStore

TaskStep == TaskRead \/ TaskStore \/ ServiceSaves \/ ServiceReturns \/ ServiceRaises \/ Release

Next == Observe \/ Handler \/ Exit \/ TaskStep

\* The event loop finishes a handler it started, and the thread goes on; the
\* service's calls return or raise at some point, which the code does not
\* bound but every adapter's timeouts do.  The user need not do anything.
Fairness ==
    /\ WF_vars(Handler)
    /\ WF_vars(TaskStep)
    /\ SF_vars(ServiceReturns \/ ServiceRaises)

Spec == Init /\ [][Next]_vars /\ Fairness

---------------------------------------------------------------------------
(* Properties.                                                             *)

\* Every variable has the type the controller gives it; a handler that is under
\* way holds what it found: a page, how many items it had, what was submitted.
CliTypeOK ==
    /\ ui \in UiState
    /\ existing \in Seq(KnowledgeBases) /\ catalog \in Seq(KnowledgeBases)
    /\ active \in KnowledgeBases \cup {None}
    /\ locked \in BOOLEAN /\ undone \in BOOLEAN
    /\ created \in 0..MaxCreations
    /\ task \in Creations \cup {None}
    /\ loop.at \in {"idle", "observed", "resolved", "counted", "run", "reread", "store",
                   "submit", "refused", "exited"}
    /\ DOMAIN loop = DOMAIN Idle
    /\ IF loop.at \in {"idle", "exited"} THEN loop.seen = None ELSE loop.seen \in UiState
    /\ loop.at \in {"resolved", "counted"} => loop.page \in Screens
    /\ loop.at = "counted" => loop.count \in 0..(MaxCreations + 2)
    /\ loop.at \in {"reread", "store", "submit"} => loop.early \in Configs
    /\ loop.at = "reread" => loop.page \in TextPages
    /\ loop.at \in {"run", "reread", "store"} =>
           \/ loop.page \in MenuPages /\ loop.value \in Nat \ {0}
           \/ loop.page \in TextPages \cup {"chat"} /\ loop.value \in Texts

\* What KnowledgeBaseService.create and the registry require of a configuration.
Complete(config) ==
    /\ \A page \in {"retrieval_type", "database_type", "database_url",
                    "source_type", "knowledge_base_name"} : config[page] # Blank
    /\ config["retrieval_type"] = "vector" =>
           \A page \in {"embedding_provider", "embedding_model", "embedding_url"} : config[page] # Blank

\* Whatever way the user takes through the wizard, back and forth, after
\* failures, and wherever the reads and stores of the two threads fall, the
\* configuration handed to the service is one its validation accepts: unless a
\* store of the thread has put back what the user had filled in since its read,
\* or the page from before a submission, which lets a walk through the wizard go
\* on beside the creation.  There is no other way to hand over half a form.
WizardSatisfiesService == task # None /\ ~undone => Complete(task.config)

\* The lock is held exactly while a creation is on the executor, so a second
\* one never starts beside it and the lock is never left behind.
LockGuardsTask == locked <=> task # None

\* A state that shows an active knowledge base always has one loaded, also in
\* the copies that either thread is about to store: retrieve never has to say
\* that the active knowledge base could not be loaded.
ActiveIsLoaded ==
    /\ ui.active # None => active # None
    /\ loop.seen # None /\ loop.seen.active # None => active # None
    /\ loop.at = "store" /\ SelectsKnowledgeBase => active # None
    /\ task # None =>
         /\ task.seen # None /\ task.seen.active # None => active # None
         /\ task.at \in {"activate", "clear"} => active # None

\* The service saves each entry once: there are never more than were created,
\* and there is room for the one that the creation under way has not saved yet.
CatalogIsBounded ==
    /\ Len(catalog) <= created /\ Len(existing) <= MaxCreations
    /\ task # None /\ (\A n \in DOMAIN catalog : catalog[n] # task.kb) => Len(catalog) < created

\* A handler that stores has found a choice in its menu.
ChoiceIsThere ==
    loop.at = "store" /\ loop.page \in DOMAIN MenuBack => Choice # "none"

\* What the threads share, and what each still holds of it, fits together.
CliInv == CliTypeOK /\ LockGuardsTask /\ ActiveIsLoaded /\ CatalogIsBounded /\ ChoiceIsThere

\* A creation that was started ends, and the next one can be started.
IndexingEnds == locked ~> ~locked

\* is_progress_page: a background creation owns the interface as long as the
\* progress page, which ignores every key, is shown.
ProgressPageIsOwned == loop.at = "idle" /\ ui.screen = "indexing" => task # None
============================================================================
