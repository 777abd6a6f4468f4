----------------------- MODULE MCDistributedLabeling -----------------------
EXTENDS DistributedLabeling

CONSTANTS s1, s2, h1, h2, h3

\* Two fingerprints are near-duplicates of each other, the third is far.
MCNear == {<<h1, h1>>, <<h2, h2>>, <<h3, h3>>, <<h1, h2>>, <<h2, h1>>}
MCNear1 == {<<h1, h1>>}
MCNear2 == {<<h1, h1>>, <<h2, h2>>}
=============================================================================
