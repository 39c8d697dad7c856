----------------------------- MODULE MCStateBlob -----------------------------
EXTENDS StateBlob, TLC

Symmetry == Permutations(Client)
=============================================================================
