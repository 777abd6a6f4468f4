---------------------------- MODULE EmbeddingCall ----------------------------
(***************************************************************************)
(* What a batch call of the embedding client promises to who calls it,     *)
(* without workers, queues, semaphore, threads and collector: every        *)
(* sub-batch is asked for until it is answered or was refused MaxRetries   *)
(* times, and never after that; the call returns when all are answered,    *)
(* and raises when all are settled and one is not answered.  The serial    *)
(* call asks for one after the other, and may raise sooner.                *)
(***************************************************************************)
EXTENDS Naturals

CONSTANTS SubBatches,  \* a set of numbers: the order of the serial call
          MaxRetries

VARIABLES phase,     \* "idle", "concurrent", "serial", "returned", "raised"
          answered,  \* the sub-batches the server has sent vectors for
          refused    \* of each: how many requests raised

callVars == <<phase, answered, refused>>

Calling == phase \in {"concurrent", "serial"}
Unsettled == {i \in SubBatches : i \notin answered /\ refused[i] < MaxRetries}

\* What may be asked for now.
Askable(i) == /\ Calling /\ i \in Unsettled
              /\ phase = "serial" => \A j \in Unsettled : i <= j

Init ==
    /\ phase = "idle" /\ answered = {}
    /\ refused = [i \in SubBatches |-> 0]

\* Nothing of an earlier call counts in the next one.
Begin ==
    /\ ~Calling
    /\ phase' \in {"concurrent", "serial"}
    /\ answered' = {}
    /\ refused' = [i \in SubBatches |-> 0]

Answer(i) ==
    /\ Askable(i)
    /\ answered' = answered \cup {i}
    /\ UNCHANGED <<phase, refused>>

Refuse(i) ==
    /\ Askable(i)
    /\ refused' = [refused EXCEPT ![i] = @ + 1]
    /\ UNCHANGED <<phase, answered>>

Return ==
    /\ Calling /\ answered = SubBatches
    /\ phase' = "returned"
    /\ UNCHANGED <<answered, refused>>

Raise ==
    /\ Calling /\ answered # SubBatches
    /\ phase = "concurrent" => Unsettled = {}
    /\ phase' = "raised"
    /\ UNCHANGED <<answered, refused>>

Next == \/ Begin \/ Return \/ Raise
        \/ \E i \in SubBatches : Answer(i) \/ Refuse(i)

Spec == Init /\ [][Next]_callVars
=============================================================================
