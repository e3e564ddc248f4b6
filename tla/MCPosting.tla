----------------------------- MODULE MCPosting -----------------------------
(* Small instances of Posting for TLC. *)
EXTENDS Posting, TLC

CONSTANTS i1, i2, w1, w2, d1, d2, d3

\* One invoice whose number nobody else uses.
OneNumber == i1 :> d1

WorkerSymmetry == Permutations({w1, w2})
=============================================================================
