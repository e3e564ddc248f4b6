---------------------------- MODULE MCThrottle ----------------------------
EXTENDS Throttle, TLC
Symmetry == Permutations(Workers)
=============================================================================
