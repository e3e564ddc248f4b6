---------------------------- MODULE MCExtraction ----------------------------
(* Small instances of Extraction for TLC. *)
EXTENDS Extraction, TLC

CONSTANTS i1, i2, w1, w2, k1, k2

WorkerSymmetry == Permutations({w1, w2})
Symmetry == WorkerSymmetry \cup Permutations({i1, i2})
=============================================================================
