------------------------------ MODULE MCSpend ------------------------------
EXTENDS Spend, TLC
Symmetry == Permutations(Workers)
=============================================================================
