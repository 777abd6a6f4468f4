-------------------------- MODULE MCBatchLabeling --------------------------
EXTENDS BatchLabeling

CONSTANTS bootstrap, production, d1, d2, h1, h2, h3

MCSources == Pipelines \X Documents
\* Two fingerprints are near-duplicates of each other, the third is far.
MCNear == {<<h1, h1>>, <<h2, h2>>, <<h3, h3>>, <<h1, h2>>, <<h2, h1>>}

\* The two documents have the same fingerprint, near ones or far ones: every
\* other choice of texts is one of these with documents or fingerprints renamed.
MCInit == Init /\ text[d1] = h1
MCSpec == MCInit /\ [][Next]_vars /\ \A p \in Pipelines : WF_vars(Proceed(p))
=============================================================================
