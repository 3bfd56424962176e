------------------------------- MODULE MCPortal -------------------------------
EXTENDS Portal, TLC

Symmetry ==
    Permutations(Items) \cup Permutations(Rows) \cup Permutations(RagIds)
        \cup Permutations(Requests)
=============================================================================
