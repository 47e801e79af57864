---------------------------- MODULE MCFederation ----------------------------
EXTENDS Federation, TLC
CONSTANTS w1, w2, s1, s2
Symmetric == Permutations({w1, w2})
=============================================================================
