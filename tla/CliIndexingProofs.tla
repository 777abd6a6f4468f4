------------------------- MODULE CliIndexingProofs -------------------------
(***************************************************************************)
(* Proofs about CliIndexing, for any contents of the input line, any       *)
(* number of creations and of events between two steps of the thread.      *)
(***************************************************************************)
EXTENDS CliIndexing, SequenceTheorems, TLAPS

-----------------------------------------------------------------------------
(* Pages *)

LEMMA ConstantsTyped ==
    /\ MaxCreations \in Nat /\ MaxCreations > 0 /\ MaxOvertakes \in Nat
    /\ Blank \in Texts /\ "/" \in Texts
BY CliAssumption

\* Every page of the configuration is a screen.
LEMMA PagesAreScreens ==
    /\ DOMAIN Menu = {"palette", "knowledge_base_menu", "retrieval_type", "database_type",
                      "embedding_provider", "embedding_model", "source_type"}
    /\ TextPages = {"database_url", "embedding_url", "knowledge_base_name", "source_path"}
    /\ DOMAIN MenuBack = {"retrieval_type", "database_type", "embedding_provider",
                          "embedding_model", "source_type"}
    /\ MenuPages \subseteq Screens /\ TextPages \subseteq Screens
    /\ {"chat", "indexing", "palette"} \subseteq Screens
    /\ WizardPages \subseteq Screens
    /\ MenuPages \cap TextPages = {} /\ "chat" \notin MenuPages \cup TextPages
<1>1. DOMAIN Menu = {"palette", "knowledge_base_menu", "retrieval_type", "database_type",
                     "embedding_provider", "embedding_model", "source_type"}
  BY DEF Menu
<1>2. TextPages = {"database_url", "embedding_url", "knowledge_base_name", "source_path"}
  BY DEF TextPages, TextBack
<1>3. DOMAIN MenuBack = {"retrieval_type", "database_type", "embedding_provider",
                         "embedding_model", "source_type"}
  BY DEF MenuBack
<1> QED BY <1>1, <1>2, <1>3 DEF MenuPages, Screens, WizardPages

\* Every route leads to a screen.
LEMMA RoutesLeadSomewhere ==
    /\ \A page \in TextPages : TextBack[page] \in Screens
    /\ \A page \in DOMAIN MenuBack : MenuBack[page] \in Screens
    /\ \A page \in WizardPages, fields \in Configs : NextPage(page, fields) \in Screens
<1>1. \A page \in TextPages : TextBack[page] \in Screens
  BY PagesAreScreens DEF TextBack, Screens, MenuPages
<1>2. \A page \in DOMAIN MenuBack : MenuBack[page] \in Screens
  BY PagesAreScreens DEF MenuBack, Screens, MenuPages
<1>3. ASSUME NEW page \in WizardPages, NEW fields \in Configs
      PROVE  NextPage(page, fields) \in Screens
  BY <1>3, PagesAreScreens DEF NextPage, WizardPages
<1> QED BY <1>1, <1>2, <1>3

\* A menu has two or three entries, and those of a wizard page are values that
\* can be filled in, but for the last.
LEMMA MenusAreShort ==
    /\ \A page \in DOMAIN Menu : Len(Menu[page]) \in 2..3
    /\ \A page \in DOMAIN MenuBack : \A n \in 1..Len(Menu[page]) :
         Menu[page][n] \in {"back", "bm25", "vector", "pg", "ollama", "nomic-embed-text", "file_path"}
    /\ \A page \in {"palette", "knowledge_base_menu"} : \A n \in 1..Len(Menu[page]) :
         Menu[page][n] \in {"knowledge_base", "select_existing", "create_new", "back"}
<1>1. ASSUME NEW page \in DOMAIN Menu
      PROVE  Len(Menu[page]) \in 2..3
  <2>1. Menu[page] \in {<<"knowledge_base", "back">>, <<"select_existing", "create_new", "back">>,
                        <<"bm25", "vector", "back">>, <<"pg", "back">>, <<"ollama", "back">>,
                        <<"nomic-embed-text", "back">>, <<"file_path", "back">>}
    BY <1>1, PagesAreScreens DEF Menu
  <2> QED BY <2>1
<1>2. ASSUME NEW page \in DOMAIN MenuBack, NEW n \in 1..Len(Menu[page])
      PROVE  Menu[page][n] \in {"back", "bm25", "vector", "pg", "ollama",
                                "nomic-embed-text", "file_path"}
  <2>1. Menu[page] \in {<<"bm25", "vector", "back">>, <<"pg", "back">>, <<"ollama", "back">>,
                        <<"nomic-embed-text", "back">>, <<"file_path", "back">>}
    BY <1>2, PagesAreScreens DEF Menu
  <2>2. CASE Menu[page] = <<"bm25", "vector", "back">>
    BY <1>2, <2>2
  <2>3. ASSUME NEW c, Menu[page] = <<c, "back">>
        PROVE  Menu[page][n] \in {c, "back"}
    BY <1>2, <2>3
  <2> QED BY <2>1, <2>2, <2>3
<1>3. ASSUME NEW page \in {"palette", "knowledge_base_menu"}, NEW n \in 1..Len(Menu[page])
      PROVE  Menu[page][n] \in {"knowledge_base", "select_existing", "create_new", "back"}
  <2>1. Menu[page] \in {<<"knowledge_base", "back">>, <<"select_existing", "create_new", "back">>}
    BY <1>3 DEF Menu
  <2>2. CASE Menu[page] = <<"knowledge_base", "back">>
    BY <1>3, <2>2
  <2>3. CASE Menu[page] = <<"select_existing", "create_new", "back">>
    BY <1>3, <2>3
  <2> QED BY <2>1, <2>2, <2>3
<1> QED BY <1>1, <1>2, <1>3

-----------------------------------------------------------------------------
(* The state record *)

\* What a state's fields are.
LEMMA StateFields ==
    ASSUME NEW u \in UiState
    PROVE  /\ u.screen \in Screens /\ u.index \in 0..(MaxCreations + 2) /\ u.text \in Texts
           /\ u.active \in KnowledgeBases \cup {None} /\ u.pending \in Configs
           /\ u # None
BY NoneAssumption DEF UiState

\* The writes the handlers are made of: none but activation changes the active
\* knowledge base.
LEMMA WritesKeepType ==
    ASSUME NEW u \in UiState
    PROVE  /\ \A s \in Screens : [u EXCEPT !.screen = s] \in UiState
           /\ \A s \in Screens : [u EXCEPT !.screen = s].active = u.active
           /\ \A t \in Texts : [u EXCEPT !.text = t] \in UiState
           /\ \A t \in Texts : [u EXCEPT !.text = t].active = u.active
           /\ \A n \in 0..(MaxCreations + 2) : [u EXCEPT !.index = n] \in UiState
           /\ \A n \in 0..(MaxCreations + 2) : [u EXCEPT !.index = n].active = u.active
           /\ \A c \in Configs : [u EXCEPT !.pending = c] \in UiState
           /\ \A c \in Configs : [u EXCEPT !.pending = c].active = u.active
BY DEF UiState

\* A page that is opened is opened at its first entry, with an empty line.
LEMMA GoKeepsType ==
    ASSUME NEW u \in UiState, NEW page \in Screens
    PROVE  Go(u, page) \in UiState /\ Go(u, page).active = u.active
<1>1. Blank \in Texts /\ 0 \in 0..(MaxCreations + 2)
  BY ConstantsTyped
<1> QED BY <1>1 DEF Go, UiState

\* A menu's selection wraps around.
LEMMA StepKeepsType ==
    ASSUME NEW u \in UiState, NEW event, NEW n \in 1..(MaxCreations + 2)
    PROVE  Step(u, event, n) \in UiState /\ Step(u, event, n).active = u.active
<1> DEFINE i == (IF event[2] = "up" THEN u.index + n - 1 ELSE u.index + 1) % n
<1>1. MaxCreations \in Nat /\ n \in Nat \ {0} /\ u.index \in Nat
  <2>1. u.index \in 0..(MaxCreations + 2)
    BY StateFields
  <2> QED BY <2>1, ConstantsTyped
<1>2. i \in 0..(n - 1)
  BY <1>1
<1>3. i \in 0..(MaxCreations + 2)
  BY <1>1, <1>2
<1>4. Step(u, event, n) = [u EXCEPT !.index = i]
  BY DEF Step
<1> HIDE DEF i
<1> QED BY <1>3, <1>4, WritesKeepType

\* update() makes a state of a state, and never touches the active base.
LEMMA UpdateKeepsType ==
    ASSUME NEW u \in UiState, NEW event \in Events, NEW page \in Screens,
           NEW n \in 0..(MaxCreations + 2)
    PROVE  /\ UpdateState(u, event, page, n) \in UiState
           /\ UpdateState(u, event, page, n).active = u.active
<1>2. event[1] = "text" => event[2] \in Texts
  BY DEF Events
<1>3. /\ 0 \in 0..(MaxCreations + 2) /\ 1 \in 0..(MaxCreations + 2)
      /\ (n = 0 \/ (n \in 1..(MaxCreations + 2) /\ 1 \in 1..(MaxCreations + 2)))
      /\ 2 \in 1..(MaxCreations + 2)
  BY ConstantsTyped
<1>4. ASSUME page \in TextPages
      PROVE  TextUpdate(u, event, page) \in UiState /\ TextUpdate(u, event, page).active = u.active
  <2>1. TextBack[page] \in Screens
    BY <1>4, RoutesLeadSomewhere
  <2>2. Go(u, TextBack[page]) \in UiState /\ Go(u, TextBack[page]).active = u.active
    BY <2>1, GoKeepsType
  <2>3. Step(u, event, 2) \in UiState /\ Step(u, event, 2).active = u.active
    BY <1>3, StepKeepsType
  <2>4. CASE event[1] = "text"
    <3> DEFINE v == [u EXCEPT !.text = event[2], !.index = 1]
    <3>1. v \in UiState /\ v.active = u.active
      BY <1>2, <1>3, <2>4 DEF UiState
    <3>2. event # <<"key", "escape">> /\ event \notin Arrows
      BY <2>4 DEF Arrows
    <3>3. TextUpdate(u, event, page) = v
      BY <2>4, <3>2 DEF TextUpdate
    <3> QED BY <3>1, <3>3
  <2>5. CASE event[1] # "text"
    BY <2>2, <2>3, <2>5 DEF TextUpdate
  <2> QED BY <2>4, <2>5
<1>5. MenuUpdate(u, event, n) \in UiState /\ MenuUpdate(u, event, n).active = u.active
  <2>1. Go(u, "chat") \in UiState /\ Go(u, "chat").active = u.active
    BY PagesAreScreens, GoKeepsType
  <2>2. /\ Step(u, event, IF n = 0 THEN 1 ELSE n) \in UiState
        /\ Step(u, event, IF n = 0 THEN 1 ELSE n).active = u.active
    <3>1. (IF n = 0 THEN 1 ELSE n) \in 1..(MaxCreations + 2)
      BY ConstantsTyped
    <3> QED BY <3>1, StepKeepsType
  <2>3. /\ [u EXCEPT !.screen = "palette", !.text = "/", !.index = 0] \in UiState
        /\ [u EXCEPT !.screen = "palette", !.text = "/", !.index = 0].active = u.active
    BY <1>3, ConstantsTyped, PagesAreScreens DEF UiState
  <2>4. event[1] = "text" => /\ [u EXCEPT !.text = event[2]] \in UiState
                             /\ [u EXCEPT !.text = event[2]].active = u.active
    BY <1>2, WritesKeepType
  <2>5. event[1] = "text" => /\ TypedUpdate(u, event[2]) \in UiState
                             /\ TypedUpdate(u, event[2]).active = u.active
    BY <2>1, <2>3, <2>4 DEF TypedUpdate
  <2>6. CASE event[1] = "text"
    <3>1. event # <<"key", "escape">> /\ event \notin Arrows
      BY <2>6 DEF Arrows
    <3> QED BY <2>5, <2>6, <3>1 DEF MenuUpdate
  <2>7. CASE event[1] # "text"
    BY <2>1, <2>2, <2>7 DEF MenuUpdate
  <2> QED BY <2>6, <2>7
<1> QED BY <1>4, <1>5 DEF UpdateState

\* A setter that was given a value for its page fills it in and moves on.
LEMMA FilledKeepsType ==
    ASSUME NEW u \in UiState, NEW page \in WizardPages, loop.early \in Configs,
           NEW v \in {Blank, "typed", "bm25", "vector", "pg", "ollama", "nomic-embed-text", "file_path"}
    PROVE  Filled(u, page, v) \in UiState /\ Filled(u, page, v).active = u.active
<1> DEFINE c == [u.pending EXCEPT ![page] = v]
           w == [u EXCEPT !.pending = c]
<1>1. u.pending \in Configs
  BY StateFields
<1>2. c \in Configs
  BY <1>1 DEF Configs
<1>3. [u EXCEPT !.pending[page] = v] = w
  OBVIOUS
<1>4. NextPage(page, loop.early) \in Screens
  BY RoutesLeadSomewhere
<1> HIDE DEF c
<1>5. w \in UiState /\ w.active = u.active
  BY <1>2, WritesKeepType
<1> HIDE DEF w
<1>6. /\ Go(w, NextPage(page, loop.early)) \in UiState
      /\ Go(w, NextPage(page, loop.early)).active = u.active
  BY <1>4, <1>5, GoKeepsType
<1> QED BY <1>3, <1>6 DEF Filled

\* _activate opens the chat page on a knowledge base.
LEMMA ActivatedKeepsType ==
    ASSUME NEW u \in UiState, NEW kb \in KnowledgeBases
    PROVE  Activated(u, kb) \in UiState
<1>1. Go(u, "chat") \in UiState
  BY PagesAreScreens, GoKeepsType
<1> QED BY <1>1 DEF Activated, UiState

-----------------------------------------------------------------------------
(* The handlers *)

\* len(items()) of a page.
LEMMA ItemsCounted ==
    ASSUME CliInv, NEW page \in Screens
    PROVE  ItemCount(page) \in 0..(MaxCreations + 2)
<1>1. existing \in Seq(KnowledgeBases) /\ Len(existing) <= MaxCreations
  BY DEF CliInv, CliTypeOK, CatalogIsBounded
<1>2. Len(existing) \in Nat
  BY <1>1, LenProperties
<1>3. CASE page \in TextPages
  <2>1. page \notin DOMAIN Menu /\ page # "existing_knowledge_bases"
    BY <1>3, PagesAreScreens
  <2>2. ItemCount(page) = 1
    BY <1>3, <2>1 DEF ItemCount
  <2> QED BY <2>2, ConstantsTyped
<1>4. CASE page \in DOMAIN Menu
  <2>1. page \notin TextPages /\ page # "existing_knowledge_bases"
    BY <1>4, PagesAreScreens
  <2>2. ItemCount(page) = Len(Menu[page])
    BY <1>4, <2>1 DEF ItemCount
  <2>3. Len(Menu[page]) \in 2..3
    BY <1>4, MenusAreShort
  <2>4. Len(Menu[page]) \in 0..(MaxCreations + 2)
    <3>1. \A n \in 2..3 : n \in 0..(MaxCreations + 2)
      BY ConstantsTyped
    <3> QED BY <2>3, <3>1
  <2> QED BY <2>2, <2>4
<1>5. CASE page = "existing_knowledge_bases"
  <2>1. page \notin TextPages /\ page \notin DOMAIN Menu
    BY <1>5, PagesAreScreens
  <2>2. ItemCount(page) = (IF existing = <<>> THEN 1 ELSE Len(existing)) + 1
    BY <1>5, <2>1 DEF ItemCount
  <2> QED BY <1>1, <1>2, <2>2, ConstantsTyped
<1>6. CASE page \notin TextPages /\ page \notin DOMAIN Menu /\ page # "existing_knowledge_bases"
  <2>1. ItemCount(page) = 0
    BY <1>6 DEF ItemCount
  <2> QED BY <2>1, ConstantsTyped
<1> QED BY <1>3, <1>4, <1>5, <1>6

\* What a handler stores is a state; an active knowledge base in it was there
\* before, or is loaded.
LEMMA HandledKeepsType ==
    ASSUME CliInv, loop.at = "store", loop.page # "source_path", NEW u \in UiState
    PROVE  /\ Handled(u) \in UiState
           /\ Handled(u).active = u.active \/ active # None
<1> DEFINE page == loop.page
<1>1. \/ page \in MenuPages /\ loop.value \in Nat \ {0}
      \/ page \in TextPages \cup {"chat"} /\ loop.value \in Texts
  BY DEF CliInv, CliTypeOK
<1>0. loop.early \in Configs
  BY DEF CliInv, CliTypeOK
<1>2. CASE page = "chat"
  <2>1. ~SelectsKnowledgeBase
    BY <1>2 DEF SelectsKnowledgeBase
  <2>2. page \notin TextPages \cup DOMAIN MenuBack
    BY <1>2, PagesAreScreens
  <2>3. Handled(u) = IF u.active # None /\ active = None THEN u ELSE [u EXCEPT !.text = Blank]
    BY <1>2, <2>1, <2>2 DEF Handled
  <2> QED BY <2>3, WritesKeepType, ConstantsTyped
<1>3. CASE SelectsKnowledgeBase
  <2>1. page = "existing_knowledge_bases" /\ loop.value <= Len(existing)
    BY <1>3 DEF SelectsKnowledgeBase
  <2>2. loop.value \in Nat \ {0}
    BY <1>1, <2>1, PagesAreScreens
  <2>3. existing \in Seq(KnowledgeBases)
    BY DEF CliInv, CliTypeOK
  <2>4. existing[loop.value] \in KnowledgeBases
    BY <2>1, <2>2, <2>3, ElementOfSeq
  <2>5. page \notin TextPages \cup DOMAIN MenuBack
    BY <2>1, PagesAreScreens
  <2>6. Handled(u) = Activated(u, existing[loop.value])
    BY <1>3, <2>1, <2>5 DEF Handled
  <2>7. active # None
    BY <1>3 DEF CliInv, ActiveIsLoaded
  <2> QED BY <2>4, <2>6, <2>7, ActivatedKeepsType
<1>4. CASE page = "existing_knowledge_bases" /\ ~SelectsKnowledgeBase
  <2>1. page \notin TextPages \cup DOMAIN MenuBack
    BY <1>4, PagesAreScreens
  <2>2. Handled(u) = IF loop.value = ItemCount(page) THEN Go(u, "knowledge_base_menu") ELSE u
    BY <1>4, <2>1 DEF Handled
  <2>3. "knowledge_base_menu" \in Screens
    BY PagesAreScreens DEF MenuPages, Screens
  <2> QED BY <2>2, <2>3, GoKeepsType
<1>5. CASE page \in {"palette", "knowledge_base_menu"}
  <2>1. page \notin TextPages \cup DOMAIN MenuBack /\ ~SelectsKnowledgeBase
    BY <1>5, PagesAreScreens DEF SelectsKnowledgeBase
  <2>2. loop.value \in Nat \ {0}
    BY <1>1, <1>5, PagesAreScreens
  <2>3. Choice \in {"knowledge_base", "select_existing", "create_new", "back", "none"}
    <3>1. CASE loop.value <= Len(Menu[page])
      <4>1. Len(Menu[page]) \in 2..3
        BY <1>5, MenusAreShort, PagesAreScreens
      <4>2. loop.value \in 1..Len(Menu[page])
        BY <2>2, <3>1, <4>1
      <4> QED BY <1>5, <3>1, <4>2, MenusAreShort DEF Choice
    <3>2. CASE ~(loop.value <= Len(Menu[page]))
      BY <3>2 DEF Choice
    <3> QED BY <3>1, <3>2
  <2>4. Handled(u) = CASE Choice = "knowledge_base"  -> Go(u, "knowledge_base_menu")
                       [] Choice = "select_existing" -> Go(u, "existing_knowledge_bases")
                       [] Choice = "create_new"      -> Go(u, "retrieval_type")
                       [] Choice = "back"            -> [u EXCEPT !.screen = "chat", !.index = 0]
                       [] Choice = "none"            -> u
    BY <1>5, <2>1 DEF Handled
  <2>5. {"knowledge_base_menu", "existing_knowledge_bases", "retrieval_type"} \subseteq Screens
    BY PagesAreScreens DEF MenuPages, Screens
  <2>6. /\ [u EXCEPT !.screen = "chat", !.index = 0] \in UiState
        /\ [u EXCEPT !.screen = "chat", !.index = 0].active = u.active
    <3>1. 0 \in 0..(MaxCreations + 2) /\ "chat" \in Screens
      BY ConstantsTyped, PagesAreScreens
    <3> QED BY <3>1 DEF UiState
  <2>7. \A s \in {"knowledge_base_menu", "existing_knowledge_bases", "retrieval_type"} :
            Go(u, s) \in UiState /\ Go(u, s).active = u.active
    BY <2>5, GoKeepsType
  <2> QED BY <2>3, <2>4, <2>6, <2>7
<1>6. CASE page \in TextPages
  <2>1. /\ page \notin DOMAIN MenuBack \cup {"chat", "palette", "knowledge_base_menu",
                                             "existing_knowledge_bases"}
        /\ page \in WizardPages
    BY <1>6, PagesAreScreens DEF WizardPages
  <2>2. ~SelectsKnowledgeBase
    BY <2>1 DEF SelectsKnowledgeBase
  <2>3. Handled(u) = Filled(u, page, IF loop.value = Blank THEN Blank ELSE "typed")
    BY <1>6, <2>1, <2>2 DEF Handled
  <2> DEFINE v == IF loop.value = Blank THEN Blank ELSE "typed"
  <2>4. v \in {Blank, "typed", "bm25", "vector", "pg", "ollama", "nomic-embed-text", "file_path"}
    OBVIOUS
  <2> HIDE DEF v
  <2>5. Filled(u, page, v) \in UiState /\ Filled(u, page, v).active = u.active
    BY <1>0, <2>1, <2>4, FilledKeepsType
  <2> QED BY <2>3, <2>5 DEF v
<1>7. CASE page \in DOMAIN MenuBack
  <2>1. /\ page \notin TextPages \cup {"chat", "palette", "knowledge_base_menu",
                                       "existing_knowledge_bases"}
        /\ page \in WizardPages /\ page \in MenuPages
    BY <1>7, PagesAreScreens DEF WizardPages, MenuPages
  <2>2. ~SelectsKnowledgeBase
    BY <2>1 DEF SelectsKnowledgeBase
  <2>3. Handled(u) = IF Choice = "back" THEN Go(u, MenuBack[page]) ELSE Filled(u, page, Choice)
    BY <1>7, <2>1, <2>2 DEF Handled
  <2>4. Choice \in {"back", "bm25", "vector", "pg", "ollama", "nomic-embed-text", "file_path"}
    <3>1. loop.value <= Len(Menu[page]) /\ Choice = Menu[page][loop.value]
      BY <1>7 DEF CliInv, ChoiceIsThere, Choice
    <3>2. loop.value \in Nat \ {0}
      BY <1>1, <2>1, PagesAreScreens
    <3>3. Len(Menu[page]) \in 2..3
      BY <1>7, MenusAreShort, PagesAreScreens
    <3>4. loop.value \in 1..Len(Menu[page])
      BY <3>1, <3>2, <3>3
    <3> QED BY <1>7, <3>1, <3>4, MenusAreShort
  <2>5. Go(u, MenuBack[page]) \in UiState /\ Go(u, MenuBack[page]).active = u.active
    BY <1>7, RoutesLeadSomewhere, GoKeepsType
  <2>6. Choice # "back" => /\ Filled(u, page, Choice) \in UiState
                           /\ Filled(u, page, Choice).active = u.active
    <3> DEFINE v == Choice
    <3>1. v \in {"back", "bm25", "vector", "pg", "ollama", "nomic-embed-text", "file_path"}
      BY <2>4
    <3> HIDE DEF v
    <3>2. ASSUME v # "back"
          PROVE  Filled(u, page, v) \in UiState /\ Filled(u, page, v).active = u.active
      <4>1. v \in {Blank, "typed", "bm25", "vector", "pg", "ollama", "nomic-embed-text",
                    "file_path"}
        BY <3>1, <3>2
      <4>2. page \in WizardPages
        BY <2>1
      <4> HIDE DEF page
      <4> QED BY <1>0, <4>1, <4>2, FilledKeepsType
    <3> QED BY <3>2 DEF v
  <2> QED BY <2>3, <2>5, <2>6
<1>8. page \in TextPages \cup {"chat"} \cup MenuPages
  BY <1>1
<1>9. MenuPages = DOMAIN MenuBack \cup {"palette", "knowledge_base_menu", "existing_knowledge_bases"}
  BY PagesAreScreens DEF MenuPages
<1> HIDE DEF page
<1> QED BY <1>2, <1>3, <1>4, <1>5, <1>6, <1>7, <1>8, <1>9

-----------------------------------------------------------------------------
(* The invariant by what it is about: the state that is shown, the handler   *)
(* under way, and what the background thread and the service share.          *)

UiInv == ui \in UiState /\ (ui.active # None => active # None)

LoopInv ==
    /\ loop.at \in {"idle", "observed", "resolved", "counted", "run", "reread", "store",
                   "submit", "refused", "exited"}
    /\ DOMAIN loop = DOMAIN Idle
    /\ IF loop.at \in {"idle", "exited"} THEN loop.seen = None ELSE loop.seen \in UiState
    /\ loop.at \in {"resolved", "counted"} => loop.page \in Screens
    /\ loop.at = "counted" => loop.count \in 0..(MaxCreations + 2)
    /\ loop.at \in {"reread", "store", "submit"} => loop.early \in Configs
    /\ loop.at = "reread" => loop.page \in TextPages
    /\ loop.at \in {"run", "reread", "store"} =>
           \/ loop.page \in MenuPages /\ loop.value \in Nat \ {0}
           \/ loop.page \in TextPages \cup {"chat"} /\ loop.value \in Texts
    /\ loop.seen # None /\ loop.seen.active # None => active # None
    /\ loop.at = "store" /\ SelectsKnowledgeBase => active # None
    /\ ChoiceIsThere

ThreadInv ==
    /\ existing \in Seq(KnowledgeBases) /\ catalog \in Seq(KnowledgeBases)
    /\ active \in KnowledgeBases \cup {None}
    /\ locked \in BOOLEAN /\ undone \in BOOLEAN
    /\ created \in 0..MaxCreations
    /\ task \in Creations \cup {None}
    /\ LockGuardsTask
    /\ task # None =>
         /\ task.seen # None /\ task.seen.active # None => active # None
         /\ task.at \in {"activate", "clear"} => active # None
    /\ CatalogIsBounded

LEMMA PartsOfInvariant ==
    /\ CliInv <=> UiInv /\ LoopInv /\ ThreadInv
    /\ CliInv' <=> UiInv' /\ LoopInv' /\ ThreadInv'
BY DEF CliInv, CliTypeOK, ActiveIsLoaded, UiInv, LoopInv, ThreadInv

\* A step that changes nothing of them keeps what the invariant says of the
\* variables it reads.
LEMMA ThreadUndisturbed ==
    ASSUME ThreadInv, UNCHANGED <<existing, active, locked, task, catalog, created, undone>>
    PROVE  ThreadInv'
BY DEF ThreadInv, LockGuardsTask, CatalogIsBounded

LEMMA LoopUndisturbed ==
    ASSUME LoopInv, UNCHANGED <<loop, existing>>, active' = active \/ active' # None
    PROVE  LoopInv'
BY DEF LoopInv, SelectsKnowledgeBase, ChoiceIsThere, Choice

\* An idle event loop holds nothing.
LEMMA IdleLoop ==
    ASSUME loop' = Idle \/ loop' = [Idle EXCEPT !.at = "exited"]
    PROVE  LoopInv'
BY DEF LoopInv, Idle, ChoiceIsThere

\* A handler that has read the state, and has no page to submit.
LEMMA HoldingAState ==
    ASSUME DOMAIN loop' = DOMAIN Idle, loop'.at \in {"observed", "submit", "refused"},
           loop'.at = "submit" => loop'.early \in Configs,
           loop'.seen \in UiState, loop'.seen.active # None => active' # None
    PROVE  LoopInv'
BY DEF LoopInv, ChoiceIsThere

-----------------------------------------------------------------------------
(* The event loop *)

LEMMA ObserveKeepsInv ==
    ASSUME CliInv, Observe
    PROVE  CliInv'
<1>1. UiInv /\ LoopInv /\ ThreadInv
  BY PartsOfInvariant
<1>2. UiInv'
  BY <1>1 DEF Observe, UiInv
<1>3. LoopInv'
  <2>1. loop' = [Idle EXCEPT !.at = "observed", !.seen = ui]
    BY DEF Observe
  <2>2. loop'.at = "observed" /\ loop'.seen = ui
    BY <2>1 DEF Idle
  <2>3. DOMAIN loop' = DOMAIN Idle
    BY <2>1
  <2>4. active' = active
    BY DEF Observe
  <2>5. loop'.seen \in UiState /\ (loop'.seen.active # None => active' # None)
    BY <1>1, <2>2, <2>4 DEF UiInv
  <2> QED BY <2>2, <2>3, <2>5, HoldingAState
<1>4. ThreadInv'
  <2>1. CASE task # None /\ ~Working
    <3>1. task \in Creations /\ task' = [task EXCEPT !.overtaken = @ + 1]
      BY <1>1, <2>1 DEF ThreadInv, Observe
    <3>2. task.overtaken + 1 \in 0..MaxOvertakes
      <4>1. task.overtaken \in 0..MaxOvertakes /\ task.overtaken < MaxOvertakes
        BY <2>1, <3>1 DEF Observe, Creations
      <4> QED BY <4>1, ConstantsTyped
    <3>3. /\ task' \in Creations /\ task' # None /\ task'.at = task.at
          /\ task'.kb = task.kb /\ task'.seen = task.seen
      BY <3>1, <3>2, NoneAssumption DEF Creations
    <3> QED BY <1>1, <2>1, <3>3 DEF ThreadInv, LockGuardsTask, CatalogIsBounded, Observe
  <2>2. CASE ~(task # None /\ ~Working)
    BY <1>1, <2>2, ThreadUndisturbed DEF Observe
  <2> QED BY <2>1, <2>2
<1> QED BY <1>2, <1>3, <1>4, PartsOfInvariant

LEMMA ResolveKeepsInv ==
    ASSUME CliInv, Resolve
    PROVE  CliInv'
<1>1. UiInv /\ LoopInv /\ ThreadInv
  BY PartsOfInvariant
<1>2. UiInv' /\ ThreadInv'
  BY <1>1, ThreadUndisturbed DEF Resolve, UiInv
<1>3. ui.screen \in Screens
  BY <1>1, StateFields DEF UiInv
<1>4. /\ loop'.at = "resolved" /\ loop'.seen = loop.seen /\ DOMAIN loop' = DOMAIN Idle
      /\ loop'.page = ui.screen
  BY <1>1 DEF Resolve, LoopInv, Idle
<1>5. loop.seen \in UiState
  BY <1>1 DEF Resolve, LoopInv
<1>6. LoopInv'
  BY <1>1, <1>3, <1>4, <1>5 DEF Resolve, LoopInv, ChoiceIsThere
<1> QED BY <1>2, <1>6, PartsOfInvariant

LEMMA CountKeepsInv ==
    ASSUME CliInv, Count
    PROVE  CliInv'
<1>1. UiInv /\ LoopInv /\ ThreadInv
  BY PartsOfInvariant
<1>2. UiInv' /\ ThreadInv'
  BY <1>1, ThreadUndisturbed DEF Count, UiInv
<1>3. ItemCount(ui.screen) \in 0..(MaxCreations + 2)
  BY <1>1, StateFields, ItemsCounted DEF UiInv
<1>4. /\ loop'.at = "counted" /\ loop'.seen = loop.seen /\ DOMAIN loop' = DOMAIN Idle
      /\ loop'.page = loop.page /\ loop'.count = ItemCount(ui.screen)
  BY <1>1 DEF Count, LoopInv, Idle
<1>5. loop.seen \in UiState /\ loop.page \in Screens
  BY <1>1 DEF Count, LoopInv
<1>6. LoopInv'
  BY <1>1, <1>3, <1>4, <1>5 DEF Count, LoopInv, ChoiceIsThere
<1> QED BY <1>2, <1>6, PartsOfInvariant

LEMMA CommitKeepsInv ==
    ASSUME CliInv, NEW event \in Events, Commit(event)
    PROVE  CliInv'
<1>1. UiInv /\ LoopInv /\ ThreadInv
  BY PartsOfInvariant
<1>2. /\ loop.seen \in UiState /\ loop.page \in Screens /\ loop.count \in 0..(MaxCreations + 2)
      /\ loop.seen # None
      /\ loop.seen.active # None => active # None
  BY <1>1, NoneAssumption DEF Commit, LoopInv
<1>3. ui' \in UiState /\ ui'.active = loop.seen.active
  BY <1>2, UpdateKeepsType DEF Commit
<1>4. UiInv' /\ ThreadInv'
  BY <1>1, <1>2, <1>3, ThreadUndisturbed DEF Commit, UiInv
<1>5. CASE Submits(loop.seen, event, loop.page)
  <2> DEFINE v == IF loop.page \in MenuPages THEN loop.seen.index + 1 ELSE loop.seen.text
  <2>1. /\ loop'.at = "run" /\ loop'.seen = loop.seen /\ DOMAIN loop' = DOMAIN Idle
        /\ loop'.page = loop.page /\ loop'.value = v
    BY <1>1, <1>5 DEF Commit, LoopInv, Idle
  <2>2. loop.page \in MenuPages \cup TextPages \cup {"chat"}
    BY <1>2, <1>5 DEF Submits, Screens
  <2>3. loop.seen.index \in 0..(MaxCreations + 2) /\ loop.seen.text \in Texts
    BY <1>2, StateFields
  <2>4. \/ loop.page \in MenuPages /\ v \in Nat \ {0}
        \/ loop.page \in TextPages \cup {"chat"} /\ v \in Texts
    <3>1. CASE loop.page \in MenuPages
      <4>1. loop.seen.index + 1 \in Nat \ {0}
        BY <2>3, ConstantsTyped
      <4> QED BY <3>1, <4>1
    <3>2. CASE loop.page \notin MenuPages
      BY <2>2, <2>3, <3>2
    <3> QED BY <3>1, <3>2
  <2> HIDE DEF v
  <2>5. LoopInv'
    BY <1>2, <2>1, <2>4 DEF Commit, LoopInv, ChoiceIsThere
  <2> QED BY <1>4, <2>5, PartsOfInvariant
<1>6. CASE ~Submits(loop.seen, event, loop.page)
  BY <1>4, <1>6, IdleLoop, PartsOfInvariant DEF Commit
<1> QED BY <1>5, <1>6

LEMMA RunKeepsInv ==
    ASSUME CliInv, Run
    PROVE  CliInv'
<1>1. UiInv /\ LoopInv /\ ThreadInv
  BY PartsOfInvariant
<1>2. /\ existing \in Seq(KnowledgeBases) /\ catalog \in Seq(KnowledgeBases)
      /\ Len(existing) <= MaxCreations /\ Len(catalog) <= created /\ created \in 0..MaxCreations
  BY <1>1 DEF ThreadInv, CatalogIsBounded
<1>3. existing' \in Seq(KnowledgeBases) /\ Len(existing') <= MaxCreations
  <2>1. existing' = catalog \/ existing' = existing
    BY DEF Run
  <2>2. Len(catalog) \in Nat /\ Len(catalog) <= MaxCreations
    BY <1>2, ConstantsTyped, LenProperties
  <2> QED BY <1>2, <2>1, <2>2
<1>4. SelectsKnowledgeBase => existing[loop.value] \in KnowledgeBases
  <2> HAVE SelectsKnowledgeBase
  <2>1. loop.page = "existing_knowledge_bases" /\ loop.value <= Len(existing)
    BY DEF SelectsKnowledgeBase
  <2>2. loop.value \in Nat \ {0}
    BY <1>1, <2>1, PagesAreScreens DEF LoopInv, Run
  <2> QED BY <1>2, <2>1, <2>2, ElementOfSeq
<1>5. /\ active' \in KnowledgeBases \cup {None}
      /\ active # None => active' # None
      /\ SelectsKnowledgeBase => active' # None
  BY <1>1, <1>4, NoneAssumption DEF Run, ThreadInv
<1>6. UiInv'
  BY <1>1, <1>5 DEF Run, UiInv
<1>7. ThreadInv'
  <2>1. UNCHANGED <<locked, task, catalog, created>>
    BY DEF Run
  <2>2. CatalogIsBounded' /\ LockGuardsTask'
    BY <1>1, <1>3, <2>1 DEF ThreadInv, LockGuardsTask, CatalogIsBounded
  <2>3. undone' = undone
    BY DEF Run
  <2> QED BY <1>1, <1>3, <1>5, <2>1, <2>2, <2>3 DEF ThreadInv
<1>8. CASE EscapesHandler
  BY <1>6, <1>7, <1>8, IdleLoop, PartsOfInvariant DEF Run
<1>9. CASE ~EscapesHandler
  <2>1. /\ loop'.at \in {"reread", "store"} /\ loop'.seen = ui /\ DOMAIN loop' = DOMAIN Idle
        /\ loop'.page = loop.page /\ loop'.value = loop.value /\ loop'.early = ui.pending
        /\ loop'.at = "reread" => loop.page \in TextPages
    BY <1>1, <1>9, PagesAreScreens DEF Run, LoopInv, Idle, ReadsTwice
  <2>2. loop'.page \in DOMAIN MenuBack => Choice' # "none"
    BY <1>9, <2>1 DEF EscapesHandler, Choice
  <2>3. SelectsKnowledgeBase' => active' # None
    <3>1. CASE loop.page = "existing_knowledge_bases"
      <4>1. existing' = existing
        BY <3>1 DEF Run
      <4> QED BY <1>5, <2>1, <4>1 DEF SelectsKnowledgeBase
    <3>2. CASE loop.page # "existing_knowledge_bases"
      BY <2>1, <3>2 DEF SelectsKnowledgeBase
    <3> QED BY <3>1, <3>2
  <2>4. /\ ui \in UiState /\ ui.pending \in Configs
        /\ ui.active # None => active' # None
        /\ \/ loop.page \in MenuPages /\ loop.value \in Nat \ {0}
           \/ loop.page \in TextPages \cup {"chat"} /\ loop.value \in Texts
    BY <1>1, <1>5, StateFields DEF UiInv, LoopInv, Run
  <2>5. LoopInv'
    <3>1. ChoiceIsThere'
      BY <2>2 DEF ChoiceIsThere
    <3>2. loop'.seen \in UiState /\ (loop'.seen.active # None => active' # None)
      BY <2>1, <2>4
    <3> QED BY <2>1, <2>3, <2>4, <3>1, <3>2 DEF LoopInv
  <2> QED BY <1>6, <1>7, <2>5, PartsOfInvariant
<1> QED BY <1>8, <1>9

LEMMA RereadKeepsInv ==
    ASSUME CliInv, Reread
    PROVE  CliInv'
<1>1. UiInv /\ LoopInv /\ ThreadInv
  BY PartsOfInvariant
<1>2. UiInv' /\ ThreadInv'
  BY <1>1, ThreadUndisturbed DEF Reread, UiInv
<1>3. /\ loop'.at = "store" /\ loop'.seen = ui /\ DOMAIN loop' = DOMAIN Idle
      /\ loop'.page = loop.page /\ loop'.value = loop.value /\ loop'.early = loop.early
      /\ loop.at = "reread" /\ loop.page \in TextPages /\ loop.early \in Configs
      /\ active' = active
  BY <1>1 DEF Reread, LoopInv, Idle
<1>4. ~SelectsKnowledgeBase'
  BY <1>3, PagesAreScreens DEF SelectsKnowledgeBase
<1>5. ChoiceIsThere'
  BY <1>3, PagesAreScreens DEF ChoiceIsThere
<1>6. /\ loop'.seen \in UiState /\ (loop'.seen.active # None => active' # None)
      /\ \/ loop.page \in MenuPages /\ loop.value \in Nat \ {0}
         \/ loop.page \in TextPages \cup {"chat"} /\ loop.value \in Texts
  BY <1>1, <1>3 DEF UiInv, LoopInv
<1>7. LoopInv'
  BY <1>3, <1>4, <1>5, <1>6 DEF LoopInv
<1> QED BY <1>2, <1>7, PartsOfInvariant

LEMMA StoreKeepsInv ==
    ASSUME CliInv, Store
    PROVE  CliInv'
<1>1. UiInv /\ LoopInv /\ ThreadInv
  BY PartsOfInvariant
<1>2. /\ loop.seen \in UiState /\ loop.seen # None
      /\ loop.seen.active # None => active # None
  BY <1>1, NoneAssumption DEF Store, LoopInv
<1>3. /\ Handled(loop.seen) \in UiState
      /\ Handled(loop.seen).active = loop.seen.active \/ active # None
  BY <1>2, HandledKeepsType DEF Store
<1>4. ui' = Handled(loop.seen) \/ ui' = loop.seen
  BY DEF Store
<1>5. UiInv'
  BY <1>2, <1>3, <1>4 DEF Store, UiInv
<1>6. ThreadInv' /\ LoopInv'
  BY <1>1, ThreadUndisturbed, IdleLoop DEF Store
<1> QED BY <1>5, <1>6, PartsOfInvariant

LEMMA ShowIndexingKeepsInv ==
    ASSUME CliInv, ShowIndexing
    PROVE  CliInv'
<1>1. UiInv /\ LoopInv /\ ThreadInv
  BY PartsOfInvariant
<1>2. /\ loop.seen \in UiState /\ loop.seen # None
      /\ loop.seen.active # None => active # None
  BY <1>1, NoneAssumption DEF ShowIndexing, LoopInv
<1>3. /\ [loop.seen EXCEPT !.screen = "indexing", !.text = Blank] \in UiState
      /\ [loop.seen EXCEPT !.screen = "indexing", !.text = Blank].active = loop.seen.active
  <2> DEFINE u == loop.seen
  <2>1. u \in UiState
    BY <1>2
  <2>2. "indexing" \in Screens /\ Blank \in Texts
    BY PagesAreScreens, ConstantsTyped
  <2> HIDE DEF u
  <2>3. /\ [u EXCEPT !.screen = "indexing", !.text = Blank] \in UiState
        /\ [u EXCEPT !.screen = "indexing", !.text = Blank].active = u.active
    BY <2>1, <2>2 DEF UiState
  <2> QED BY <2>3 DEF u
<1>4. UiInv' /\ ThreadInv'
  BY <1>1, <1>2, <1>3, ThreadUndisturbed DEF ShowIndexing, UiInv
<1>5. /\ loop'.at = "submit" /\ loop'.seen = loop.seen /\ DOMAIN loop' = DOMAIN Idle
      /\ active' = active /\ loop'.early = loop.early /\ loop.early \in Configs
  BY <1>1 DEF ShowIndexing, LoopInv, Idle
<1>6. LoopInv'
  BY <1>2, <1>5, HoldingAState
<1> QED BY <1>4, <1>6, PartsOfInvariant

LEMMA SubmitKeepsInv ==
    ASSUME CliInv, Submit
    PROVE  CliInv'
<1>1. UiInv /\ LoopInv /\ ThreadInv
  BY PartsOfInvariant
<1>2. UiInv' /\ LoopInv'
  BY <1>1, IdleLoop DEF Submit, UiInv
<1>3. /\ created \in 0..MaxCreations /\ created < MaxCreations
      /\ created + 1 \in KnowledgeBases /\ created + 1 \in 0..MaxCreations
  <2>1. created \in 0..MaxCreations /\ created < MaxCreations
    BY <1>1 DEF ThreadInv, Submit
  <2> QED BY <2>1, ConstantsTyped DEF KnowledgeBases
<1>5. loop.early \in Configs
  BY <1>1 DEF Submit, LoopInv
<1>6. /\ task' \in Creations /\ task' # None
      /\ task'.at = "working" /\ task'.seen = None /\ task'.kb = created + 1
  <2>1. task' = [at |-> "working", kb |-> created + 1, config |-> loop.early,
                 seen |-> None, overtaken |-> 0]
    BY DEF Submit
  <2>2. 0 \in 0..MaxOvertakes
    BY ConstantsTyped
  <2>3. task' \in Creations
    BY <1>3, <1>5, <2>1, <2>2 DEF Creations, TaskReads
  <2> QED BY <2>1, <2>3, NoneAssumption
<1>7. CatalogIsBounded'
  <2>1. Len(catalog) <= created /\ Len(existing) <= MaxCreations /\ Len(catalog) \in Nat
    BY <1>1, LenProperties DEF ThreadInv, CatalogIsBounded
  <2>2. created' = created + 1 /\ UNCHANGED <<catalog, existing>>
    BY DEF Submit
  <2>3. Len(catalog) <= created + 1 /\ Len(catalog) < created + 1
    BY <1>3, <2>1
  <2> QED BY <2>1, <2>2, <2>3 DEF CatalogIsBounded
<1>8. UNCHANGED <<existing, catalog, active, undone>> /\ locked' = TRUE /\ created' = created + 1
  BY DEF Submit
<1>9. ThreadInv'
  BY <1>1, <1>3, <1>6, <1>7, <1>8 DEF ThreadInv, LockGuardsTask
<1> QED BY <1>2, <1>9, PartsOfInvariant

LEMMA RefuseReadKeepsInv ==
    ASSUME CliInv, RefuseRead
    PROVE  CliInv'
<1>1. UiInv /\ LoopInv /\ ThreadInv
  BY PartsOfInvariant
<1>2. UiInv' /\ ThreadInv'
  BY <1>1, ThreadUndisturbed DEF RefuseRead, UiInv
<1>3. /\ loop'.at = "refused" /\ loop'.seen = ui /\ DOMAIN loop' = DOMAIN Idle
      /\ active' = active
  BY <1>1 DEF RefuseRead, LoopInv, Idle
<1>4. loop'.seen \in UiState /\ (loop'.seen.active # None => active' # None)
  BY <1>1, <1>3 DEF UiInv
<1>5. LoopInv'
  BY <1>3, <1>4, HoldingAState
<1> QED BY <1>2, <1>5, PartsOfInvariant

LEMMA RefuseStoreKeepsInv ==
    ASSUME CliInv, RefuseStore
    PROVE  CliInv'
<1>1. UiInv /\ LoopInv /\ ThreadInv
  BY PartsOfInvariant
<1>2. UiInv'
  BY <1>1, NoneAssumption DEF RefuseStore, LoopInv, UiInv
<1>3. ThreadInv' /\ LoopInv'
  BY <1>1, ThreadUndisturbed, IdleLoop DEF RefuseStore
<1> QED BY <1>2, <1>3, PartsOfInvariant

LEMMA ExitKeepsInv ==
    ASSUME CliInv, Exit
    PROVE  CliInv'
<1>1. UiInv /\ LoopInv /\ ThreadInv
  BY PartsOfInvariant
<1>2. UiInv' /\ ThreadInv' /\ LoopInv'
  BY <1>1, ThreadUndisturbed, IdleLoop DEF Exit, UiInv
<1> QED BY <1>2, PartsOfInvariant

-----------------------------------------------------------------------------
(* The background thread *)

\* A creation that moves on keeps what it creates and was handed.
LEMMA CreationMoves ==
    ASSUME task \in Creations,
           NEW a \in TaskReads \cup {"release"}, NEW u \in UiState \cup {None},
           NEW n \in 0..MaxOvertakes, task' = [task EXCEPT !.seen = u, !.overtaken = n, !.at = a]
    PROVE  /\ task' \in Creations /\ task' # None
           /\ task'.at = a /\ task'.seen = u /\ task'.kb = task.kb
BY NoneAssumption DEF Creations

\* With the catalog and the lock as they were, only the creation has moved.
LEMMA ThreadMoves ==
    ASSUME ThreadInv, task # None, UNCHANGED <<existing, locked, catalog, created>>,
           task' \in Creations, task' # None, task'.kb = task.kb,
           active' \in KnowledgeBases \cup {None}, active # None => active' # None,
           undone' \in BOOLEAN,
           task'.seen # None /\ task'.seen.active # None => active' # None,
           task'.at \in {"activate", "clear"} => active' # None
    PROVE  ThreadInv'
BY DEF ThreadInv, LockGuardsTask, CatalogIsBounded

LEMMA TaskReadKeepsInv ==
    ASSUME CliInv, TaskRead
    PROVE  CliInv'
<1>1. UiInv /\ LoopInv /\ ThreadInv
  BY PartsOfInvariant
<1>2. UiInv' /\ LoopInv'
  BY <1>1, LoopUndisturbed DEF TaskRead, UiInv
<1>3. task \in Creations /\ task # None
  BY <1>1 DEF ThreadInv, TaskRead
<1>4. task' = [task EXCEPT !.seen = ui] /\ ui \in UiState
  BY <1>1 DEF TaskRead, UiInv
<1>5. /\ task' \in Creations /\ task' # None
      /\ task'.kb = task.kb /\ task'.at = task.at /\ task'.seen = ui
  BY <1>3, <1>4, NoneAssumption DEF Creations
<1>6. UNCHANGED <<existing, locked, catalog, created, active, undone>>
  BY DEF TaskRead
<1>7. /\ active \in KnowledgeBases \cup {None} /\ undone \in BOOLEAN
      /\ task.at \in {"activate", "clear"} => active # None
      /\ ui.active # None => active # None
  BY <1>1, <1>3 DEF ThreadInv, UiInv
<1>8. ThreadInv'
  BY <1>1, <1>3, <1>5, <1>6, <1>7, ThreadMoves
<1> QED BY <1>2, <1>8, PartsOfInvariant

LEMMA TaskStoreKeepsInv ==
    ASSUME CliInv, TaskStore
    PROVE  CliInv'
<1>1. UiInv /\ LoopInv /\ ThreadInv
  BY PartsOfInvariant
<1>2. /\ task \in Creations /\ task # None /\ task.seen # None
      /\ active \in KnowledgeBases \cup {None}
      /\ task.at \in {"activate", "clear"} => active # None
      /\ task.seen.active # None => active # None
  BY <1>1 DEF ThreadInv, TaskStore
<1>3. /\ task.seen \in UiState /\ task.kb \in KnowledgeBases
      /\ task.overtaken \in 0..MaxOvertakes /\ task.at \in TaskReads \cup {"release"}
  BY <1>2 DEF Creations
<1>4. UNCHANGED <<existing, active, locked, loop, catalog, created>>
  BY DEF TaskStore
<1>5. UiInv'
  <2>1. CASE task.at = "activate"
    <3>1. ui' = Activated(task.seen, task.kb)
      BY <2>1 DEF TaskStore
    <3>2. ui' \in UiState
      BY <1>3, <3>1, ActivatedKeepsType
    <3> QED BY <1>2, <1>4, <2>1, <3>2 DEF UiInv
  <2>2. CASE task.at = "fail"
    <3> DEFINE u == task.seen
    <3>1. ui' = [u EXCEPT !.screen = "source_path", !.text = Blank]
      BY <2>2 DEF TaskStore
    <3>2. "source_path" \in Screens /\ Blank \in Texts /\ u \in UiState
      BY <1>3, PagesAreScreens, ConstantsTyped
    <3> HIDE DEF u
    <3>3. ui' \in UiState /\ ui'.active = u.active
      BY <3>1, <3>2 DEF UiState
    <3> QED BY <1>2, <1>4, <3>3 DEF UiInv, u
  <2>3. CASE task.at # "activate" /\ task.at # "fail"
    <3>1. ui' = task.seen
      BY <2>3 DEF TaskStore
    <3> QED BY <1>2, <1>3, <1>4, <3>1 DEF UiInv
  <2> QED BY <2>1, <2>2, <2>3
<1>6. LoopInv'
  BY <1>1, <1>4, LoopUndisturbed
<1>7. ThreadInv'
  <2> DEFINE n == IF task.at = "working" THEN 0 ELSE task.overtaken
             a == CASE task.at = "working"  -> "working"
                    [] task.at = "activate" -> "clear"
                    [] OTHER                -> "release"
  <2>1. n \in 0..MaxOvertakes
    BY <1>3, ConstantsTyped
  <2>2. a \in {"working", "clear", "release"} /\ (a = "clear" => task.at = "activate")
    OBVIOUS
  <2>3. a \in TaskReads \cup {"release"} /\ None \in UiState \cup {None}
    BY <2>2 DEF TaskReads
  <2>4. task' = [task EXCEPT !.seen = None, !.overtaken = n, !.at = a]
    BY DEF TaskStore
  <2> HIDE DEF n, a
  <2>5. /\ task' \in Creations /\ task' # None
        /\ task'.at = a /\ task'.seen = None /\ task'.kb = task.kb
    BY <1>2, <2>1, <2>3, <2>4, CreationMoves
  <2>6. task'.at \in {"activate", "clear"} => active # None
    BY <1>2, <2>2, <2>5
  <2>7. undone' \in BOOLEAN
    BY DEF TaskStore
  <2> QED BY <1>1, <1>2, <1>4, <2>5, <2>6, <2>7, ThreadMoves
<1> QED BY <1>5, <1>6, <1>7, PartsOfInvariant

LEMMA ServiceSavesKeepsInv ==
    ASSUME CliInv, ServiceSaves
    PROVE  CliInv'
<1>1. UiInv /\ LoopInv /\ ThreadInv
  BY PartsOfInvariant
<1>2. UNCHANGED <<ui, existing, active, locked, task, loop, created, undone>>
  BY DEF ServiceSaves
<1>3. UiInv' /\ LoopInv'
  BY <1>1, <1>2, LoopUndisturbed DEF UiInv
<1>4. /\ task # None /\ task.kb \in KnowledgeBases /\ catalog \in Seq(KnowledgeBases)
      /\ catalog' = Append(catalog, task.kb) /\ Len(catalog) < created
      /\ created \in 0..MaxCreations /\ Len(existing) <= MaxCreations
  BY <1>1 DEF ThreadInv, CatalogIsBounded, ServiceSaves, Working, Creations
<1>5. /\ catalog' \in Seq(KnowledgeBases) /\ Len(catalog') = Len(catalog) + 1
      /\ Len(catalog') \in DOMAIN catalog' /\ catalog'[Len(catalog')] = task.kb
  BY <1>4, AppendProperties, LenProperties
<1>6. Len(catalog') <= created
  <2>1. Len(catalog) \in Nat
    BY <1>4, LenProperties
  <2> QED BY <1>4, <1>5, <2>1
<1>7. CatalogIsBounded'
  BY <1>2, <1>4, <1>5, <1>6 DEF CatalogIsBounded
<1>8. ThreadInv'
  BY <1>1, <1>2, <1>5, <1>7 DEF ThreadInv, LockGuardsTask
<1> QED BY <1>3, <1>8, PartsOfInvariant

LEMMA ServiceReturnsKeepsInv ==
    ASSUME CliInv, ServiceReturns
    PROVE  CliInv'
<1>1. UiInv /\ LoopInv /\ ThreadInv
  BY PartsOfInvariant
<1>2. /\ task \in Creations /\ task # None /\ task.seen = None
      /\ task' = [task EXCEPT !.at = "activate"] /\ active' = task.kb
      /\ undone \in BOOLEAN
      /\ UNCHANGED <<ui, existing, locked, loop, catalog, created, undone>>
  BY <1>1 DEF ThreadInv, ServiceReturns, Working
<1>3. /\ task' \in Creations /\ task' # None /\ task'.kb = task.kb /\ task'.seen = None
      /\ active' \in KnowledgeBases /\ active' # None
  BY <1>2, NoneAssumption DEF Creations, TaskReads
<1>4. UiInv' /\ LoopInv'
  BY <1>1, <1>2, <1>3, LoopUndisturbed DEF UiInv
<1>5. ThreadInv'
  BY <1>1, <1>2, <1>3, ThreadMoves
<1> QED BY <1>4, <1>5, PartsOfInvariant

LEMMA ServiceRaisesKeepsInv ==
    ASSUME CliInv, ServiceRaises
    PROVE  CliInv'
<1>1. UiInv /\ LoopInv /\ ThreadInv
  BY PartsOfInvariant
<1>2. /\ task \in Creations /\ task # None /\ task.seen = None
      /\ task' = [task EXCEPT !.at = "fail"] /\ active \in KnowledgeBases \cup {None}
      /\ undone \in BOOLEAN
      /\ UNCHANGED <<ui, existing, active, locked, loop, catalog, created, undone>>
  BY <1>1 DEF ThreadInv, ServiceRaises, Working
<1>3. /\ task' \in Creations /\ task' # None /\ task'.kb = task.kb /\ task'.seen = None
      /\ task'.at = "fail"
  BY <1>2, NoneAssumption DEF Creations, TaskReads
<1>4. UiInv' /\ LoopInv'
  BY <1>1, <1>2, LoopUndisturbed DEF UiInv
<1>5. ThreadInv'
  BY <1>1, <1>2, <1>3, ThreadMoves
<1> QED BY <1>4, <1>5, PartsOfInvariant

LEMMA ReleaseKeepsInv ==
    ASSUME CliInv, Release
    PROVE  CliInv'
<1>1. UiInv /\ LoopInv /\ ThreadInv
  BY PartsOfInvariant
<1>2. UNCHANGED <<ui, existing, active, loop, catalog, created, undone>> /\ locked' = FALSE /\ task' = None
  BY DEF Release
<1>3. UiInv' /\ LoopInv'
  BY <1>1, <1>2, LoopUndisturbed DEF UiInv
<1>4. ThreadInv'
  BY <1>1, <1>2 DEF ThreadInv, LockGuardsTask, CatalogIsBounded
<1> QED BY <1>3, <1>4, PartsOfInvariant

-----------------------------------------------------------------------------
(* The theorem *)

LEMMA InitEstablishesInv ==
    ASSUME Init
    PROVE  CliInv
<1>1. ui \in UiState /\ ui.active = None
  <2>1. "chat" \in Screens /\ 0 \in 0..(MaxCreations + 2) /\ Blank \in Texts
    BY PagesAreScreens, ConstantsTyped
  <2>2. [page \in WizardPages |-> Blank] \in Configs
    BY DEF Configs
  <2>3. ui = [screen |-> "chat", index |-> 0, text |-> Blank, active |-> None,
              pending |-> [page \in WizardPages |-> Blank]]
    BY DEF Init
  <2> QED BY <2>1, <2>2, <2>3 DEF UiState
<1>2. UiInv
  BY <1>1 DEF UiInv
<1>3. LoopInv
  BY DEF Init, LoopInv, Idle, ChoiceIsThere
<1>4. ThreadInv
  <2>1. <<>> \in Seq(KnowledgeBases) /\ Len(<<>>) = 0
    OBVIOUS
  <2>2. 0 \in 0..MaxCreations /\ 0 <= MaxCreations
    BY ConstantsTyped
  <2>3. /\ existing = <<>> /\ catalog = <<>> /\ active = None
        /\ locked = FALSE /\ undone = FALSE /\ task = None /\ created = 0
    BY DEF Init
  <2>4. CatalogIsBounded
    BY <2>1, <2>2, <2>3 DEF CatalogIsBounded
  <2>5. LockGuardsTask
    BY <2>3 DEF LockGuardsTask
  <2> QED BY <2>1, <2>2, <2>3, <2>4, <2>5 DEF ThreadInv
<1> QED BY <1>2, <1>3, <1>4, PartsOfInvariant

LEMMA StepKeepsInv ==
    ASSUME CliInv, [Next]_vars
    PROVE  CliInv'
<1>1. CASE UNCHANGED vars
  BY <1>1 DEF vars, CliInv, CliTypeOK, LockGuardsTask, ActiveIsLoaded, CatalogIsBounded,
              ChoiceIsThere, SelectsKnowledgeBase, Choice
<1>2. CASE Handler
  BY <1>2, ResolveKeepsInv, CountKeepsInv, CommitKeepsInv, RunKeepsInv, RereadKeepsInv,
     StoreKeepsInv, ShowIndexingKeepsInv,
     SubmitKeepsInv, RefuseReadKeepsInv, RefuseStoreKeepsInv DEF Handler
<1>3. CASE TaskStep
  BY <1>3, TaskReadKeepsInv, TaskStoreKeepsInv, ServiceSavesKeepsInv, ServiceReturnsKeepsInv,
     ServiceRaisesKeepsInv, ReleaseKeepsInv DEF TaskStep
<1> QED BY <1>1, <1>2, <1>3, ObserveKeepsInv, ExitKeepsInv DEF Next

\* However key handlers and the creation's thread read and store over each
\* other: the indexing lock is held exactly while a creation is on the executor,
\* and every state that shows an active knowledge base, also one that either
\* thread has read and will store, comes after one was loaded.
THEOREM CliInvariant == Spec => []CliInv
<1>1. Init => CliInv
  BY InitEstablishesInv
<1>2. CliInv /\ [Next]_vars => CliInv'
  BY StepKeepsInv
<1> QED BY <1>1, <1>2, PTL DEF Spec

-----------------------------------------------------------------------------
(* The wizard, as long as the thread undoes nothing                        *)

Embedding == {"embedding_provider", "embedding_model", "embedding_url"}

HasEach(fields, config) == \A field \in fields : config[field] # Blank

\* The fields that every way through the wizard has filled when page is shown.
FilledUpTo(page, config) ==
    /\ page = "database_type" => HasEach({"retrieval_type"}, config)
    /\ page = "database_url" => HasEach({"retrieval_type", "database_type"}, config)
    /\ page = "embedding_provider" =>
           HasEach({"retrieval_type", "database_type", "database_url"}, config)
    /\ page = "embedding_model" =>
           HasEach({"retrieval_type", "database_type", "database_url", "embedding_provider"}, config)
    /\ page = "embedding_url" =>
           HasEach({"retrieval_type", "database_type", "database_url", "embedding_provider",
                    "embedding_model"}, config)
    /\ page \in {"source_type", "knowledge_base_name"} =>
           /\ HasEach({"retrieval_type", "database_type", "database_url"}, config)
           /\ config["retrieval_type"] = "vector" => HasEach(Embedding, config)
    /\ page = "knowledge_base_name" => HasEach({"source_type"}, config)
    /\ page \in {"source_path", "indexing"} => Complete(config)

Resolved == loop.at \in {"resolved", "counted", "run", "reread", "store"}

\* The page that is shown, and those a handler under way has seen or will store,
\* are earned by the one set of fields there is.
LoopEarned ==
    /\ FilledUpTo(ui.screen, ui.pending)
    /\ loop.seen # None => /\ loop.seen.pending = ui.pending
                           /\ FilledUpTo(loop.seen.screen, ui.pending)
    /\ loop.at \in {"reread", "store", "submit"} => loop.early = ui.pending
    /\ Resolved => FilledUpTo(loop.page, ui.pending)
    /\ loop.at = "submit" => Complete(ui.pending) /\ ui.screen = "indexing"

\* So is the page that the thread has read, by the fields it read with it; these
\* may be old.
TaskEarned ==
    task # None =>
      /\ Complete(task.config)
      /\ task.seen # None => FilledUpTo(task.seen.screen, task.seen.pending)

InProgress == task # None /\ task.at \in {"working", "activate", "fail"}

\* From its submission until the thread's last page but one, a creation shows the
\* progress page, which takes no key: nobody fills in a field.
ProgressPageShown ==
    InProgress =>
      /\ ui.screen = "indexing"
      /\ task.seen # None => task.seen.screen = "indexing" /\ task.seen.pending = ui.pending
      /\ loop.at \in {"idle", "observed", "resolved", "counted", "exited"}
      /\ loop.seen # None => loop.seen.screen = "indexing"
      /\ loop.at \in {"resolved", "counted"} => loop.page = "indexing"

\* Holds until a store of the thread undoes what the user did.
WizardInv == LoopEarned /\ TaskEarned /\ ProgressPageShown

\* A configuration that is complete has earned the last pages.
LEMMA CompleteIsEnough ==
    ASSUME NEW config, Complete(config),
           NEW page \in {"knowledge_base_name", "source_path", "indexing"}
    PROVE  FilledUpTo(page, config)
<1>1. /\ HasEach({"retrieval_type", "database_type", "database_url"}, config)
      /\ HasEach({"source_type"}, config)
      /\ config["retrieval_type"] = "vector" => HasEach(Embedding, config)
  BY DEF Complete, HasEach, Embedding
<1> QED BY <1>1 DEF FilledUpTo

\* The pages outside the wizard, and its first one, ask for nothing.
LEMMA FreePages ==
    ASSUME NEW config,
           NEW page \in {"chat", "palette", "knowledge_base_menu", "existing_knowledge_bases",
                         "retrieval_type"}
    PROVE  FilledUpTo(page, config)
BY DEF FilledUpTo

\* Whoever goes back needs no more than is filled.
LEMMA BackIsEarned ==
    ASSUME NEW config, NEW page, FilledUpTo(page, config)
    PROVE  /\ page \in TextPages => FilledUpTo(TextBack[page], config)
           /\ page \in DOMAIN MenuBack => FilledUpTo(MenuBack[page], config)
<1>1. ASSUME page \in TextPages PROVE FilledUpTo(TextBack[page], config)
  <2>1. page \in {"database_url", "embedding_url", "knowledge_base_name", "source_path"}
    BY <1>1, PagesAreScreens
  <2>2. CASE page = "database_url"
    <3>1. TextBack[page] = "database_type" BY <2>2 DEF TextBack
    <3> QED BY <2>2, <3>1 DEF FilledUpTo, HasEach
  <2>3. CASE page = "embedding_url"
    <3>1. TextBack[page] = "embedding_model" BY <2>3 DEF TextBack
    <3> QED BY <2>3, <3>1 DEF FilledUpTo, HasEach
  <2>4. CASE page = "knowledge_base_name"
    <3>1. TextBack[page] = "source_type" BY <2>4 DEF TextBack
    <3> QED BY <2>4, <3>1 DEF FilledUpTo, HasEach
  <2>5. CASE page = "source_path"
    <3>1. TextBack[page] = "knowledge_base_name" BY <2>5 DEF TextBack
    <3>2. Complete(config) BY <2>5 DEF FilledUpTo
    <3> QED BY <3>1, <3>2, CompleteIsEnough
  <2> QED BY <2>1, <2>2, <2>3, <2>4, <2>5
<1>2. ASSUME page \in DOMAIN MenuBack PROVE FilledUpTo(MenuBack[page], config)
  <2>1. page \in {"retrieval_type", "database_type", "embedding_provider", "embedding_model",
                  "source_type"}
    BY <1>2, PagesAreScreens
  <2>2. CASE page = "retrieval_type"
    <3>1. MenuBack[page] = "knowledge_base_menu" BY <2>2 DEF MenuBack
    <3> QED BY <3>1, FreePages
  <2>3. CASE page = "database_type"
    <3>1. MenuBack[page] = "retrieval_type" BY <2>3 DEF MenuBack
    <3> QED BY <3>1, FreePages
  <2>4. CASE page \in {"embedding_provider", "source_type"}
    <3>1. MenuBack[page] = "database_url" BY <2>4 DEF MenuBack
    <3> QED BY <2>4, <3>1 DEF FilledUpTo, HasEach
  <2>5. CASE page = "embedding_model"
    <3>1. MenuBack[page] = "embedding_provider" BY <2>5 DEF MenuBack
    <3> QED BY <2>5, <3>1 DEF FilledUpTo, HasEach
  <2> QED BY <2>1, <2>2, <2>3, <2>4, <2>5
<1> QED BY <1>1, <1>2

\* A field filled with something earns the page that comes next.
LEMMA NextIsEarned ==
    ASSUME NEW u \in UiState, NEW page \in WizardPages, NEW v, v # Blank,
           FilledUpTo(page, u.pending)
    PROVE  FilledUpTo(NextPage(page, u.pending), [u.pending EXCEPT ![page] = v])
<1> DEFINE old == u.pending
           new == [u.pending EXCEPT ![page] = v]
<1>1. old \in Configs
  BY StateFields
<1>2. new[page] = v /\ \A p \in WizardPages \ {page} : new[p] = old[p]
  BY <1>1 DEF Configs
<1>3. /\ {"retrieval_type", "database_type", "database_url", "source_type",
          "knowledge_base_name"} \subseteq WizardPages
      /\ Embedding \subseteq WizardPages
  BY DEF WizardPages, Embedding
<1>4. NextPage(page, u.pending) = CASE page = "retrieval_type"     -> "database_type"
        [] page = "database_type"      -> "database_url"
        [] page = "database_url"       -> IF old["retrieval_type"] = "vector"
                                          THEN "embedding_provider" ELSE "source_type"
        [] page = "embedding_provider" -> "embedding_model"
        [] page = "embedding_model"    -> "embedding_url"
        [] page = "embedding_url"      -> "source_type"
        [] page = "source_type"        -> "knowledge_base_name"
        [] page = "knowledge_base_name" -> "source_path"
  BY DEF NextPage
<1>5. FilledUpTo(page, old)
  OBVIOUS
<1> HIDE DEF old, new
<1>6. CASE page = "retrieval_type"
  <2>1. NextPage(page, u.pending) = "database_type"
    BY <1>4, <1>6
  <2> QED BY <1>2, <1>6, <2>1 DEF FilledUpTo, HasEach, new
<1>7. CASE page = "database_type"
  <2>1. NextPage(page, u.pending) = "database_url"
    BY <1>4, <1>7
  <2> QED BY <1>2, <1>3, <1>5, <1>7, <2>1 DEF FilledUpTo, HasEach, new
<1>8. CASE page = "database_url"
  <2>1. \/ NextPage(page, u.pending) = "embedding_provider"
        \/ NextPage(page, u.pending) = "source_type" /\ old["retrieval_type"] # "vector"
    BY <1>4, <1>8
  <2>2. HasEach({"retrieval_type", "database_type", "database_url"}, new)
    BY <1>2, <1>3, <1>5, <1>8 DEF FilledUpTo, HasEach
  <2>3. new["retrieval_type"] = old["retrieval_type"]
    BY <1>2, <1>3, <1>8
  <2> QED BY <2>1, <2>2, <2>3 DEF FilledUpTo, new
<1>9. CASE page = "embedding_provider"
  <2>1. NextPage(page, u.pending) = "embedding_model"
    BY <1>4, <1>9
  <2> QED BY <1>2, <1>3, <1>5, <1>9, <2>1 DEF FilledUpTo, HasEach, new
<1>10. CASE page = "embedding_model"
  <2>1. NextPage(page, u.pending) = "embedding_url"
    BY <1>4, <1>10
  <2>2. HasEach({"retrieval_type", "database_type", "database_url", "embedding_provider",
                 "embedding_model"}, new)
    BY <1>2, <1>3, <1>5, <1>10 DEF FilledUpTo, HasEach, Embedding
  <2> QED BY <2>1, <2>2 DEF FilledUpTo, new
<1>11. CASE page = "embedding_url"
  <2>1. NextPage(page, u.pending) = "source_type"
    BY <1>4, <1>11
  <2>2. /\ HasEach({"retrieval_type", "database_type", "database_url"}, new)
        /\ HasEach(Embedding, new)
    BY <1>2, <1>3, <1>5, <1>11 DEF FilledUpTo, HasEach, Embedding
  <2> QED BY <2>1, <2>2 DEF FilledUpTo, new
<1>12. CASE page = "source_type"
  <2>1. NextPage(page, u.pending) = "knowledge_base_name"
    BY <1>4, <1>12
  <2>2. /\ HasEach({"retrieval_type", "database_type", "database_url"}, new)
        /\ HasEach({"source_type"}, new)
        /\ new["retrieval_type"] = "vector" => HasEach(Embedding, new)
    BY <1>2, <1>3, <1>5, <1>12 DEF FilledUpTo, HasEach, Embedding
  <2> QED BY <2>1, <2>2 DEF FilledUpTo, new
<1>13. CASE page = "knowledge_base_name"
  <2>1. NextPage(page, u.pending) = "source_path"
    BY <1>4, <1>13
  <2>2. /\ HasEach({"retrieval_type", "database_type", "database_url"}, new)
        /\ HasEach({"source_type", "knowledge_base_name"}, new)
        /\ new["retrieval_type"] = "vector" => HasEach(Embedding, new)
    BY <1>2, <1>3, <1>5, <1>13 DEF FilledUpTo, HasEach, Embedding
  <2>3. Complete(new)
    BY <2>2 DEF Complete, HasEach, Embedding
  <2> QED BY <2>1, <2>3, CompleteIsEnough DEF new
<1> QED BY <1>6, <1>7, <1>8, <1>9, <1>10, <1>11, <1>12, <1>13 DEF WizardPages

\* A page that is opened changes no field.
LEMMA GoKeepsFields ==
    ASSUME NEW u \in UiState, NEW page
    PROVE  Go(u, page).screen = page /\ Go(u, page).pending = u.pending
BY DEF Go, UiState

\* update() changes no field, and leads to a page that asks for no more.
LEMMA UpdateKeepsFields ==
    ASSUME NEW u \in UiState, NEW event \in Events, NEW page \in Screens,
           NEW n \in 0..(MaxCreations + 2),
           FilledUpTo(u.screen, u.pending), FilledUpTo(page, u.pending)
    PROVE  /\ UpdateState(u, event, page, n).pending = u.pending
           /\ FilledUpTo(UpdateState(u, event, page, n).screen, u.pending)
           /\ page = "indexing" => UpdateState(u, event, page, n) = u
<1>1. \A m : Step(u, event, m).screen = u.screen /\ Step(u, event, m).pending = u.pending
  BY DEF Step, UiState
<1>2. \A t : /\ [u EXCEPT !.text = t].screen = u.screen
             /\ [u EXCEPT !.text = t].pending = u.pending
             /\ [u EXCEPT !.text = t, !.index = 1].screen = u.screen
             /\ [u EXCEPT !.text = t, !.index = 1].pending = u.pending
  BY DEF UiState
<1>3. FilledUpTo("chat", u.pending) /\ FilledUpTo("palette", u.pending)
  BY FreePages
<1>4. ASSUME page \in TextPages
      PROVE  /\ TextUpdate(u, event, page).pending = u.pending
             /\ FilledUpTo(TextUpdate(u, event, page).screen, u.pending)
  <2>1. /\ Go(u, TextBack[page]).pending = u.pending
        /\ FilledUpTo(Go(u, TextBack[page]).screen, u.pending)
    BY <1>4, BackIsEarned, GoKeepsFields
  <2>2. TextUpdate(u, event, page) \in {[u EXCEPT !.text = event[2], !.index = 1],
            Go(u, TextBack[page]), Step(u, event, 2), u}
    BY DEF TextUpdate
  <2> QED BY <1>1, <1>2, <2>1, <2>2
<1>5. /\ MenuUpdate(u, event, n).pending = u.pending
      /\ FilledUpTo(MenuUpdate(u, event, n).screen, u.pending)
  <2>1. Go(u, "chat").pending = u.pending /\ FilledUpTo(Go(u, "chat").screen, u.pending)
    BY <1>3, GoKeepsFields
  <2>2. /\ [u EXCEPT !.screen = "palette", !.text = "/", !.index = 0].screen = "palette"
        /\ [u EXCEPT !.screen = "palette", !.text = "/", !.index = 0].pending = u.pending
    BY DEF UiState
  <2>3. TypedUpdate(u, event[2]) \in {[u EXCEPT !.screen = "palette", !.text = "/", !.index = 0],
            Go(u, "chat"), [u EXCEPT !.text = event[2]]}
    BY DEF TypedUpdate
  <2>4. MenuUpdate(u, event, n) \in {TypedUpdate(u, event[2]), u, Go(u, "chat"),
            Step(u, event, IF n = 0 THEN 1 ELSE n)}
    BY DEF MenuUpdate
  <2> QED BY <1>1, <1>2, <1>3, <2>1, <2>2, <2>3, <2>4
<1> QED BY <1>4, <1>5 DEF UpdateState

\* A setter leaves a page for one that is earned.
LEMMA FilledIsEarned ==
    ASSUME NEW u \in UiState, NEW page \in WizardPages, NEW v, loop.early = u.pending,
           FilledUpTo(u.screen, u.pending), FilledUpTo(page, u.pending)
    PROVE  FilledUpTo(Filled(u, page, v).screen, Filled(u, page, v).pending)
<1>1. CASE v = Blank
  BY <1>1 DEF Filled
<1>2. CASE v # Blank
  <2> DEFINE w == [u EXCEPT !.pending[page] = v]
  <2>1. w.pending = [u.pending EXCEPT ![page] = v] /\ DOMAIN w = DOMAIN u
    BY DEF UiState
  <2>2. /\ Go(w, NextPage(page, loop.early)).screen = NextPage(page, loop.early)
        /\ Go(w, NextPage(page, loop.early)).pending = w.pending
    BY DEF Go, UiState
  <2> HIDE DEF w
  <2>3. Filled(u, page, v) = Go(w, NextPage(page, loop.early))
    BY <1>2 DEF Filled, w
  <2> QED BY <1>2, <2>1, <2>2, <2>3, NextIsEarned
<1> QED BY <1>1, <1>2

\* What a handler stores shows an earned page.
LEMMA HandledIsEarned ==
    ASSUME CliInv, loop.at = "store", loop.page # "source_path", NEW u \in UiState,
           loop.early = u.pending,
           FilledUpTo(u.screen, u.pending), FilledUpTo(loop.page, u.pending)
    PROVE  FilledUpTo(Handled(u).screen, Handled(u).pending)
<1> DEFINE page == loop.page
<1>1. page \in TextPages \cup {"chat"} \cup MenuPages
  BY DEF CliInv, CliTypeOK
<1>2. /\ FilledUpTo("chat", u.pending) /\ FilledUpTo("knowledge_base_menu", u.pending)
      /\ FilledUpTo("existing_knowledge_bases", u.pending)
      /\ FilledUpTo("retrieval_type", u.pending)
  BY FreePages
<1>3. CASE page = "chat"
  <2>1. ~SelectsKnowledgeBase /\ page \notin TextPages \cup DOMAIN MenuBack
    BY <1>3, PagesAreScreens DEF SelectsKnowledgeBase
  <2>2. Handled(u) \in {u, [u EXCEPT !.text = Blank]}
    BY <1>3, <2>1 DEF Handled
  <2>3. Handled(u).screen = u.screen /\ Handled(u).pending = u.pending
    BY <2>2 DEF UiState
  <2> QED BY <2>3
<1>4. CASE SelectsKnowledgeBase
  <2>1. page = "existing_knowledge_bases"
    BY <1>4 DEF SelectsKnowledgeBase
  <2>2. page \notin TextPages \cup DOMAIN MenuBack
    BY <2>1, PagesAreScreens
  <2>3. Handled(u) = Activated(u, existing[loop.value])
    BY <1>4, <2>1, <2>2 DEF Handled
  <2>4. Handled(u).screen = "chat" /\ Handled(u).pending = u.pending
    BY <2>3 DEF Activated, Go, UiState
  <2> QED BY <1>2, <2>4
<1>5. CASE page = "existing_knowledge_bases" /\ ~SelectsKnowledgeBase
  <2>1. page \notin TextPages \cup DOMAIN MenuBack
    BY <1>5, PagesAreScreens
  <2>2. Handled(u) \in {u, Go(u, "knowledge_base_menu")}
    BY <1>5, <2>1 DEF Handled
  <2> QED BY <1>2, <2>2, GoKeepsFields
<1>6. CASE page \in {"palette", "knowledge_base_menu"}
  <2>1. page \notin TextPages \cup DOMAIN MenuBack /\ ~SelectsKnowledgeBase
    BY <1>6, PagesAreScreens DEF SelectsKnowledgeBase
  <2>2. loop.value \in Nat \ {0}
    BY <1>6, PagesAreScreens DEF CliInv, CliTypeOK
  <2>3. Choice \in {"knowledge_base", "select_existing", "create_new", "back", "none"}
    <3>1. CASE loop.value <= Len(Menu[page])
      <4>1. Len(Menu[page]) \in 2..3
        BY <1>6, MenusAreShort, PagesAreScreens
      <4>2. loop.value \in 1..Len(Menu[page])
        BY <2>2, <3>1, <4>1
      <4> QED BY <1>6, <3>1, <4>2, MenusAreShort DEF Choice
    <3>2. CASE ~(loop.value <= Len(Menu[page]))
      BY <3>2 DEF Choice
    <3> QED BY <3>1, <3>2
  <2>4. Handled(u) = CASE Choice = "knowledge_base"  -> Go(u, "knowledge_base_menu")
                       [] Choice = "select_existing" -> Go(u, "existing_knowledge_bases")
                       [] Choice = "create_new"      -> Go(u, "retrieval_type")
                       [] Choice = "back"            -> [u EXCEPT !.screen = "chat", !.index = 0]
                       [] Choice = "none"            -> u
    BY <1>6, <2>1 DEF Handled
  <2>5. /\ [u EXCEPT !.screen = "chat", !.index = 0].screen = "chat"
        /\ [u EXCEPT !.screen = "chat", !.index = 0].pending = u.pending
    BY DEF UiState
  <2> DEFINE back == [u EXCEPT !.screen = "chat", !.index = 0]
  <2>6. Handled(u) \in {Go(u, "knowledge_base_menu"), Go(u, "existing_knowledge_bases"),
                        Go(u, "retrieval_type"), back, u}
    BY <2>3, <2>4
  <2>7. back.screen = "chat" /\ back.pending = u.pending
    BY <2>5
  <2> HIDE DEF back
  <2> QED BY <1>2, <2>6, <2>7, GoKeepsFields
<1>7. CASE page \in TextPages
  <2>1. /\ page \notin DOMAIN MenuBack \cup {"chat", "palette", "knowledge_base_menu",
                                             "existing_knowledge_bases"}
        /\ page \in WizardPages
    BY <1>7, PagesAreScreens DEF WizardPages
  <2>2. ~SelectsKnowledgeBase
    BY <2>1 DEF SelectsKnowledgeBase
  <2>3. Handled(u) = Filled(u, page, IF loop.value = Blank THEN Blank ELSE "typed")
    BY <1>7, <2>1, <2>2 DEF Handled
  <2> DEFINE v == IF loop.value = Blank THEN Blank ELSE "typed"
  <2> HIDE DEF v
  <2>4. FilledUpTo(Filled(u, page, v).screen, Filled(u, page, v).pending)
    BY <2>1, FilledIsEarned
  <2> QED BY <2>1, <2>3, <2>4 DEF v
<1>8. CASE page \in DOMAIN MenuBack
  <2>1. /\ page \notin TextPages \cup {"chat", "palette", "knowledge_base_menu",
                                       "existing_knowledge_bases"}
        /\ page \in WizardPages
    BY <1>8, PagesAreScreens DEF WizardPages
  <2>2. ~SelectsKnowledgeBase
    BY <2>1 DEF SelectsKnowledgeBase
  <2>3. Handled(u) = IF Choice = "back" THEN Go(u, MenuBack[page]) ELSE Filled(u, page, Choice)
    BY <1>8, <2>1, <2>2 DEF Handled
  <2>4. FilledUpTo(Go(u, MenuBack[page]).screen, Go(u, MenuBack[page]).pending)
    BY <1>8, BackIsEarned, GoKeepsFields
  <2> DEFINE v == Choice
  <2> HIDE DEF v
  <2>5. FilledUpTo(Filled(u, page, v).screen, Filled(u, page, v).pending)
    BY <2>1, FilledIsEarned
  <2> QED BY <2>3, <2>4, <2>5 DEF v
<1>9. MenuPages = DOMAIN MenuBack \cup {"palette", "knowledge_base_menu", "existing_knowledge_bases"}
  BY PagesAreScreens DEF MenuPages
<1> QED BY <1>1, <1>3, <1>4, <1>5, <1>6, <1>7, <1>8, <1>9

\* A handler that ends holds nothing.
LEMMA HandlerEnds ==
    ASSUME WizardInv, loop' = Idle \/ loop' = [Idle EXCEPT !.at = "exited"], task' = task,
           FilledUpTo(ui'.screen, ui'.pending),
           InProgress => ui'.screen = "indexing" /\ ui'.pending = ui.pending
    PROVE  WizardInv'
<1>1. loop'.at \in {"idle", "exited"} /\ loop'.seen = None
  BY DEF Idle
<1>2. LoopEarned'
  BY <1>1 DEF LoopEarned, Resolved
<1>3. TaskEarned'
  BY DEF WizardInv, TaskEarned
<1>4. ProgressPageShown'
  BY <1>1 DEF WizardInv, ProgressPageShown, InProgress
<1> QED BY <1>2, <1>3, <1>4 DEF WizardInv

LEMMA ObserveEarns ==
    ASSUME CliInv, WizardInv, Observe
    PROVE  WizardInv'
<1>1. loop'.at = "observed" /\ loop'.seen = ui /\ UNCHANGED ui
  BY DEF Observe, Idle
<1>2. /\ task' = None <=> task = None
      /\ task # None => /\ task'.at = task.at /\ task'.seen = task.seen
                        /\ task'.config = task.config
  <2>1. CASE task # None /\ ~Working
    <3>1. task \in Creations /\ task' = [task EXCEPT !.overtaken = @ + 1]
      BY <2>1 DEF CliInv, CliTypeOK, Observe
    <3>2. CliInv'
      BY ObserveKeepsInv
    <3>3. task' # None
      BY <2>1, <3>2 DEF CliInv, LockGuardsTask, Observe
    <3> QED BY <2>1, <3>1, <3>3 DEF Creations
  <2>2. CASE ~(task # None /\ ~Working)
    BY <2>2 DEF Observe
  <2> QED BY <2>1, <2>2
<1>3. LoopEarned'
  BY <1>1 DEF WizardInv, LoopEarned, Resolved
<1>4. TaskEarned'
  BY <1>2 DEF WizardInv, TaskEarned
<1>5. ProgressPageShown'
  BY <1>1, <1>2 DEF WizardInv, ProgressPageShown, InProgress
<1> QED BY <1>3, <1>4, <1>5 DEF WizardInv

LEMMA ResolveEarns ==
    ASSUME CliInv, WizardInv, Resolve
    PROVE  WizardInv'
<1>1. /\ loop'.at = "resolved" /\ loop'.seen = loop.seen /\ loop'.page = ui.screen
      /\ loop.at = "observed" /\ UNCHANGED <<ui, task>>
  BY DEF CliInv, CliTypeOK, Resolve, Idle
<1>2. LoopEarned'
  BY <1>1 DEF WizardInv, LoopEarned, Resolved
<1>3. TaskEarned' /\ ProgressPageShown'
  BY <1>1 DEF WizardInv, TaskEarned, ProgressPageShown, InProgress
<1> QED BY <1>2, <1>3 DEF WizardInv

LEMMA CountEarns ==
    ASSUME CliInv, WizardInv, Count
    PROVE  WizardInv'
<1>1. /\ loop'.at = "counted" /\ loop'.seen = loop.seen /\ loop'.page = loop.page
      /\ loop.at = "resolved" /\ UNCHANGED <<ui, task>>
  BY DEF CliInv, CliTypeOK, Count, Idle
<1>2. LoopEarned'
  BY <1>1 DEF WizardInv, LoopEarned, Resolved
<1>3. TaskEarned' /\ ProgressPageShown'
  BY <1>1 DEF WizardInv, TaskEarned, ProgressPageShown, InProgress
<1> QED BY <1>2, <1>3 DEF WizardInv

LEMMA CommitEarns ==
    ASSUME CliInv, WizardInv, NEW event \in Events, Commit(event)
    PROVE  WizardInv'
<1>1. /\ loop.at = "counted" /\ loop.seen \in UiState /\ loop.seen # None
      /\ loop.page \in Screens /\ loop.count \in 0..(MaxCreations + 2)
      /\ DOMAIN loop = DOMAIN Idle
  BY NoneAssumption DEF CliInv, CliTypeOK, Commit
<1>2. /\ FilledUpTo(loop.seen.screen, loop.seen.pending) /\ loop.seen.pending = ui.pending
      /\ FilledUpTo(loop.page, loop.seen.pending)
  BY <1>1 DEF WizardInv, LoopEarned, Resolved
<1>3. /\ ui'.pending = ui.pending /\ FilledUpTo(ui'.screen, ui.pending)
      /\ loop.page = "indexing" => ui' = loop.seen
  BY <1>1, <1>2, UpdateKeepsFields DEF Commit
<1>4. task' = task
  BY DEF Commit
<1>5. InProgress => ui'.screen = "indexing" /\ ~Submits(loop.seen, event, loop.page)
  BY <1>1, <1>3 DEF WizardInv, ProgressPageShown, Submits
<1>6. CASE Submits(loop.seen, event, loop.page)
  <2>1. loop'.at = "run" /\ loop'.seen = loop.seen /\ loop'.page = loop.page
    BY <1>1, <1>6 DEF Commit, Idle
  <2>2. LoopEarned'
    BY <1>1, <1>2, <1>3, <2>1 DEF LoopEarned, Resolved
  <2>3. TaskEarned' /\ ProgressPageShown'
    BY <1>4, <1>5, <1>6 DEF WizardInv, TaskEarned, ProgressPageShown, InProgress
  <2> QED BY <2>2, <2>3 DEF WizardInv
<1>7. CASE ~Submits(loop.seen, event, loop.page)
  <2>1. loop' = Idle
    BY <1>7 DEF Commit
  <2> QED BY <1>3, <1>4, <1>5, <2>1, HandlerEnds
<1> QED BY <1>6, <1>7

LEMMA RunEarns ==
    ASSUME CliInv, WizardInv, Run
    PROVE  WizardInv'
<1>1. /\ loop.at = "run" /\ DOMAIN loop = DOMAIN Idle /\ UNCHANGED <<ui, task>>
      /\ FilledUpTo(ui.screen, ui.pending)
  BY DEF CliInv, CliTypeOK, Run, WizardInv, LoopEarned
<1>2. ~InProgress
  BY <1>1 DEF WizardInv, ProgressPageShown
<1>3. CASE EscapesHandler
  BY <1>1, <1>2, <1>3, HandlerEnds DEF Run
<1>4. CASE ~EscapesHandler
  <2>1. /\ loop'.at \in {"reread", "store"} /\ loop'.seen = ui /\ loop'.page = loop.page
        /\ loop'.early = ui.pending
    BY <1>1, <1>4 DEF Run, Idle
  <2>2. LoopEarned'
    BY <1>1, <2>1 DEF WizardInv, LoopEarned, Resolved
  <2>3. TaskEarned' /\ ProgressPageShown'
    BY <1>1, <1>2 DEF WizardInv, TaskEarned, ProgressPageShown, InProgress
  <2> QED BY <2>2, <2>3 DEF WizardInv
<1> QED BY <1>3, <1>4

LEMMA RereadEarns ==
    ASSUME CliInv, WizardInv, Reread
    PROVE  WizardInv'
<1>1. /\ loop.at = "reread" /\ UNCHANGED <<ui, task>>
      /\ loop'.at = "store" /\ loop'.seen = ui /\ loop'.page = loop.page
      /\ loop'.early = loop.early
  BY DEF CliInv, CliTypeOK, Reread, Idle
<1>2. ~InProgress
  BY <1>1 DEF WizardInv, ProgressPageShown
<1>3. LoopEarned'
  BY <1>1 DEF WizardInv, LoopEarned, Resolved
<1>4. TaskEarned' /\ ProgressPageShown'
  BY <1>1, <1>2 DEF WizardInv, TaskEarned, ProgressPageShown, InProgress
<1> QED BY <1>3, <1>4 DEF WizardInv

LEMMA StoreEarns ==
    ASSUME CliInv, WizardInv, Store
    PROVE  WizardInv'
<1>1. /\ loop.at = "store" /\ loop.page # "source_path" /\ loop' = Idle /\ task' = task
      /\ loop.seen \in UiState /\ loop.seen # None
  BY NoneAssumption DEF CliInv, CliTypeOK, Store
<1>2. /\ FilledUpTo(loop.seen.screen, loop.seen.pending) /\ loop.early = loop.seen.pending
      /\ FilledUpTo(loop.page, loop.seen.pending)
  BY <1>1 DEF WizardInv, LoopEarned, Resolved
<1>3. ui' = Handled(loop.seen) \/ ui' = loop.seen
  BY DEF Store
<1>4. FilledUpTo(ui'.screen, ui'.pending)
  BY <1>1, <1>2, <1>3, HandledIsEarned
<1>5. ~InProgress
  BY <1>1 DEF WizardInv, ProgressPageShown
<1> QED BY <1>1, <1>4, <1>5, HandlerEnds

LEMMA ShowIndexingEarns ==
    ASSUME CliInv, WizardInv, ShowIndexing
    PROVE  WizardInv'
<1>1. /\ loop.at = "store" /\ loop.page = "source_path" /\ task' = task
      /\ loop.seen \in UiState /\ loop.seen # None /\ DOMAIN loop = DOMAIN Idle
  BY NoneAssumption DEF CliInv, CliTypeOK, ShowIndexing
<1>2. /\ loop'.at = "submit" /\ loop'.seen = loop.seen /\ loop'.early = loop.early
      /\ ui'.screen = "indexing" /\ ui'.pending = loop.seen.pending
  BY <1>1 DEF ShowIndexing, Idle, UiState
<1>3. /\ loop.seen.pending = ui.pending /\ FilledUpTo(loop.seen.screen, ui.pending)
      /\ loop.early = ui.pending /\ Complete(ui.pending)
  BY <1>1 DEF WizardInv, LoopEarned, Resolved, FilledUpTo
<1>4. LoopEarned'
  BY <1>1, <1>2, <1>3, CompleteIsEnough DEF LoopEarned, Resolved
<1>5. TaskEarned' /\ ProgressPageShown'
  BY <1>1 DEF WizardInv, TaskEarned, ProgressPageShown, InProgress
<1> QED BY <1>4, <1>5 DEF WizardInv

LEMMA SubmitEarns ==
    ASSUME CliInv, WizardInv, Submit
    PROVE  WizardInv'
<1>1. loop.at = "submit" /\ loop'.at = "idle" /\ loop'.seen = None /\ UNCHANGED ui
  BY DEF Submit, Idle
<1>2. task'.at = "working" /\ task'.config = loop.early /\ task'.seen = None
  BY DEF Submit
<1>3. loop.early = ui.pending /\ Complete(ui.pending) /\ ui.screen = "indexing"
  BY <1>1 DEF WizardInv, LoopEarned
<1>4. LoopEarned'
  BY <1>1 DEF WizardInv, LoopEarned, Resolved
<1>5. TaskEarned'
  BY <1>2, <1>3 DEF TaskEarned
<1>6. ProgressPageShown'
  BY <1>1, <1>2, <1>3 DEF ProgressPageShown
<1> QED BY <1>4, <1>5, <1>6 DEF WizardInv

LEMMA RefuseReadEarns ==
    ASSUME CliInv, WizardInv, RefuseRead
    PROVE  WizardInv'
<1>1. /\ loop.at = "submit" /\ loop'.at = "refused" /\ loop'.seen = ui /\ UNCHANGED <<ui, task>>
  BY DEF CliInv, CliTypeOK, RefuseRead, Idle
<1>2. LoopEarned'
  BY <1>1 DEF WizardInv, LoopEarned, Resolved
<1>3. TaskEarned' /\ ProgressPageShown'
  BY <1>1 DEF WizardInv, TaskEarned, ProgressPageShown, InProgress
<1> QED BY <1>2, <1>3 DEF WizardInv

LEMMA RefuseStoreEarns ==
    ASSUME CliInv, WizardInv, RefuseStore
    PROVE  WizardInv'
<1>1. /\ loop.at = "refused" /\ loop.seen # None /\ loop' = Idle /\ task' = task
      /\ ui' = loop.seen
  BY NoneAssumption DEF CliInv, CliTypeOK, RefuseStore
<1>2. FilledUpTo(ui'.screen, ui'.pending)
  BY <1>1 DEF WizardInv, LoopEarned
<1>3. ~InProgress
  BY <1>1 DEF WizardInv, ProgressPageShown
<1> QED BY <1>1, <1>2, <1>3, HandlerEnds

LEMMA ExitEarns ==
    ASSUME WizardInv, Exit
    PROVE  WizardInv'
<1>1. loop' = [Idle EXCEPT !.at = "exited"] /\ UNCHANGED <<ui, task>>
  BY DEF Exit
<1> QED BY <1>1, HandlerEnds DEF WizardInv, LoopEarned, ProgressPageShown

LEMMA TaskReadEarns ==
    ASSUME CliInv, WizardInv, TaskRead
    PROVE  WizardInv'
<1>1. /\ task \in Creations /\ task # None /\ UNCHANGED <<ui, loop>>
      /\ task' = [task EXCEPT !.seen = ui]
  BY DEF CliInv, CliTypeOK, TaskRead
<1>2. task'.at = task.at /\ task'.config = task.config /\ task'.seen = ui
  BY <1>1 DEF Creations
<1>3. LoopEarned'
  BY <1>1 DEF WizardInv, LoopEarned, Resolved
<1>4. TaskEarned'
  BY <1>1, <1>2 DEF WizardInv, LoopEarned, TaskEarned
<1>5. ProgressPageShown'
  BY <1>1, <1>2 DEF WizardInv, ProgressPageShown, InProgress
<1> QED BY <1>3, <1>4, <1>5 DEF WizardInv

\* The one store that can harm, unless it undoes something.
LEMMA TaskStoreEarns ==
    ASSUME CliInv, WizardInv, TaskStore, ~undone'
    PROVE  WizardInv'
<1>1. /\ task \in Creations /\ task # None /\ task.seen # None /\ UNCHANGED loop
      /\ task.seen \in UiState
  BY DEF CliInv, CliTypeOK, TaskStore, Creations
<1>2. /\ task.seen.pending = ui.pending
      /\ loop.at = "submit" => task.seen.screen = "indexing"
  BY DEF TaskStore, Undoes
<1>3. /\ task'.config = task.config /\ task'.seen = None
      /\ task'.at = CASE task.at = "working"  -> "working"
                      [] task.at = "activate" -> "clear"
                      [] OTHER                -> "release"
  BY <1>1 DEF TaskStore, Creations
<1>4. /\ ui'.pending = task.seen.pending
      /\ task.at = "activate" => ui'.screen = "chat"
      /\ task.at = "fail" => ui'.screen = "source_path"
      /\ task.at \notin {"activate", "fail"} => ui'.screen = task.seen.screen
  BY <1>1 DEF TaskStore, Activated, Go, UiState
<1>5. FilledUpTo(ui'.screen, ui.pending)
  <2>1. FilledUpTo(task.seen.screen, ui.pending)
    BY <1>1, <1>2 DEF WizardInv, TaskEarned
  <2>2. task.at = "fail" => Complete(ui.pending)
    BY <1>1 DEF WizardInv, ProgressPageShown, InProgress, LoopEarned, FilledUpTo
  <2> QED BY <1>4, <2>1, <2>2, FreePages, CompleteIsEnough
<1>6. LoopEarned'
  <2>1. loop.at = "submit" => ui'.screen = "indexing"
    BY <1>1, <1>2, <1>4 DEF WizardInv, ProgressPageShown, InProgress
  <2> QED BY <1>1, <1>2, <1>4, <1>5, <2>1 DEF WizardInv, LoopEarned, Resolved
<1>7. TaskEarned'
  BY <1>1, <1>3 DEF WizardInv, TaskEarned
<1>8. ProgressPageShown'
  <2>1. InProgress' => task.at = "working"
    BY <1>3 DEF InProgress
  <2> QED BY <1>1, <1>3, <1>4, <2>1 DEF WizardInv, ProgressPageShown, InProgress
<1> QED BY <1>6, <1>7, <1>8 DEF WizardInv

LEMMA ServiceEndsEarns ==
    ASSUME CliInv, WizardInv, ServiceReturns \/ ServiceRaises
    PROVE  WizardInv'
<1>1. /\ task \in Creations /\ task # None /\ task.at = "working" /\ task.seen = None
      /\ UNCHANGED <<ui, loop>>
  BY DEF CliInv, CliTypeOK, ServiceReturns, ServiceRaises, Working
<1>2. task'.config = task.config /\ task'.seen = None
  BY <1>1 DEF ServiceReturns, ServiceRaises, Creations
<1>3. LoopEarned'
  BY <1>1 DEF WizardInv, LoopEarned, Resolved
<1>4. TaskEarned'
  BY <1>1, <1>2 DEF WizardInv, TaskEarned
<1>5. ProgressPageShown'
  BY <1>1, <1>2 DEF WizardInv, ProgressPageShown, InProgress
<1> QED BY <1>3, <1>4, <1>5 DEF WizardInv

LEMMA ReleaseEarns ==
    ASSUME WizardInv, Release
    PROVE  WizardInv'
<1>1. task' = None /\ UNCHANGED <<ui, loop>>
  BY DEF Release
<1> QED BY <1>1 DEF WizardInv, LoopEarned, TaskEarned, ProgressPageShown, InProgress, Resolved

\* Nothing the wizard depends on has changed.
LEMMA StandstillEarns ==
    ASSUME WizardInv, UNCHANGED <<ui, loop, task>>
    PROVE  WizardInv'
BY DEF WizardInv, LoopEarned, TaskEarned, ProgressPageShown, InProgress, Resolved

\* What was undone once stays so; only a store of the thread undoes.
LEMMA UndoneStays ==
    ASSUME [Next]_vars, undone
    PROVE  undone'
<1>1. CASE Handler
  BY <1>1 DEF Handler, Resolve, Count, Commit, Run, Reread, Store, ShowIndexing, Submit,
              RefuseRead, RefuseStore
<1>2. CASE TaskStep
  BY <1>2 DEF TaskStep, TaskRead, TaskStore, ServiceSaves, ServiceReturns, ServiceRaises, Release
<1> QED BY <1>1, <1>2 DEF Next, Observe, Exit, vars

LEMMA WizardStepKeeps ==
    ASSUME CliInv, WizardInv, [Next]_vars, ~undone'
    PROVE  WizardInv'
<1>1. CASE UNCHANGED vars
  BY <1>1, StandstillEarns DEF vars
<1>2. CASE Handler
  BY <1>2, ResolveEarns, CountEarns, CommitEarns, RunEarns, RereadEarns, StoreEarns,
     ShowIndexingEarns, SubmitEarns, RefuseReadEarns, RefuseStoreEarns DEF Handler
<1>3. CASE TaskStep
  <2>1. ServiceSaves => UNCHANGED <<ui, loop, task>>
    BY DEF ServiceSaves
  <2> QED BY <1>3, <2>1, StandstillEarns, TaskReadEarns, TaskStoreEarns, ServiceEndsEarns,
             ReleaseEarns DEF TaskStep
<1> QED BY <1>1, <1>2, <1>3, ObserveEarns, ExitEarns DEF Next

LEMMA InitIsEarned ==
    ASSUME Init
    PROVE  WizardInv
<1>1. ui.screen = "chat" /\ loop.at = "idle" /\ loop.seen = None /\ task = None
  BY DEF Init, Idle
<1> QED BY <1>1, FreePages DEF WizardInv, LoopEarned, TaskEarned, ProgressPageShown, InProgress,
                               Resolved

\* However many events come between two steps of the thread, and wherever the
\* reads and stores of the two fall: as long as no store of the thread has put
\* back what the user had filled in, or the page from before a submission, the
\* configuration handed to the service is one that its validation accepts,
\* whatever way the user took.
THEOREM WizardSatisfies == Spec => []WizardSatisfiesService
<1> DEFINE Inv == ~undone => WizardInv
<1>1. Init => Inv
  BY InitIsEarned
<1>2. CliInv /\ Inv /\ [Next]_vars => Inv'
  BY WizardStepKeeps, UndoneStays
<1>3. Inv => WizardSatisfiesService
  BY DEF WizardInv, TaskEarned, WizardSatisfiesService
<1> HIDE DEF Inv
<1> QED BY <1>1, <1>2, <1>3, CliInvariant, PTL DEF Spec
=============================================================================
