---------------------------- MODULE LabelLedger ----------------------------
(***************************************************************************)
(* What a labeling pipeline promises, without streams, coroutines, workers,*)
(* stores or crashes: a growing training set in which no two recipes are   *)
(* near-duplicates, each contributed once by one document, and a final     *)
(* verdict for documents.  A document is completed after its recipe        *)
(* entered the set, and rejected only if none of its own did.              *)
(*                                                                         *)
(* That a rejection is final too is what the code does.  The checkpoint's  *)
(* contract, interfaces/checkpoint_store.py:22, :32 and :169-170, gives a  *)
(* rejected document another chance in the next run.                       *)
(***************************************************************************)
CONSTANTS Sources, Hashes, Near, None

VARIABLES label,     \* for each fingerprint: the document that supplied it
          completed, rejected

ledgerVars == <<label, completed, rejected>>

Contributed(s) == \E h \in Hashes : label[h] = s

Init ==
    /\ label = [h \in Hashes |-> None]
    /\ completed = {}
    /\ rejected = {}

\* Recipes enter the set, one or a batch of them, each of an undecided document
\* that has contributed none, and none near another, new or old.
Accept ==
    /\ label' \in [Hashes -> Sources \cup {None}]
    /\ \A h \in Hashes : label'[h] # label[h] =>
          /\ label[h] = None
          /\ label'[h] \in Sources \ (completed \cup rejected)
          /\ ~Contributed(label'[h])
          /\ \A g \in Hashes \ {h} : label'[g] # None =>
                 label'[g] # label'[h] /\ <<g, h>> \notin Near
    /\ UNCHANGED <<completed, rejected>>

Complete ==
    /\ \E S \in SUBSET Sources : /\ \A s \in S : Contributed(s)
                               /\ completed' = completed \cup S
    /\ UNCHANGED <<label, rejected>>

Reject(s) ==
    /\ ~Contributed(s)
    /\ rejected' = rejected \cup {s}
    /\ UNCHANGED <<label, completed>>

Next == Accept \/ Complete \/ \E s \in Sources : Reject(s)

Spec == Init /\ [][Next]_ledgerVars
=============================================================================
