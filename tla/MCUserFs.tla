------------------------------ MODULE MCUserFs ------------------------------
EXTENDS UserFs, TLC

Symmetry == Permutations(Names) \cup Permutations(Data)
=============================================================================
