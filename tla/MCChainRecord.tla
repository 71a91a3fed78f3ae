--------------------------- MODULE MCChainRecord ---------------------------
EXTENDS ChainRecord, TLC

\* Builds in flight are interchangeable.
BuildSymmetry == Permutations(Builds)
=============================================================================
