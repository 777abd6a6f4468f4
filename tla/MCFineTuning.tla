---------------------------- MODULE MCFineTuning ----------------------------
EXTENDS FineTuning

CONSTANTS d1, d2, d3

\* One document leaves nothing to validate with; another one changes the split.
MCHeldOut == [S \in SUBSET Docs |->
    CASE S = Docs                      -> <<d2, d3>>
      [] Cardinality(S) = 2 /\ d1 \in S -> <<d1>>
      [] S = {d2, d3}                  -> <<d2>>
      [] OTHER                         -> <<>>]
=============================================================================
