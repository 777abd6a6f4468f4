--------------------------- MODULE KnowledgeShelf ---------------------------
(***************************************************************************)
(* What creating knowledge bases promises to those who ask them, without   *)
(* sessions, catalog, transactions, locks, failures and deaths: a base     *)
(* that somebody asked for answers from nothing, until in one step it      *)
(* answers from its whole content; its creation returns after that, if at  *)
(* all, and it keeps answering so, whatever is created next to it.         *)
(***************************************************************************)
CONSTANTS Bases,   \* every knowledge base that may be asked for
          Whole    \* of each: the rows of all its documents

VARIABLES asked,     \* bases whose creation was started
          usable,    \* those whose creation returned
          answers    \* of each base: the rows its questions are answered from

shelfVars == <<asked, usable, answers>>

Init ==
    /\ asked = {} /\ usable = {}
    /\ answers = [b \in Bases |-> {}]

Ask(b) ==
    /\ b \notin asked
    /\ asked' = asked \cup {b}
    /\ UNCHANGED <<usable, answers>>

\* A base without content is not created.
Fill(b) ==
    /\ b \in asked
    /\ answers[b] = {} /\ Whole[b] # {}
    /\ answers' = [answers EXCEPT ![b] = Whole[b]]
    /\ UNCHANGED <<asked, usable>>

Deliver(b) ==
    /\ b \in asked \ usable
    /\ answers[b] = Whole[b] /\ Whole[b] # {}
    /\ usable' = usable \cup {b}
    /\ UNCHANGED <<asked, answers>>

Next == \E b \in Bases : Ask(b) \/ Fill(b) \/ Deliver(b)

Spec == Init /\ [][Next]_shelfVars
=============================================================================
