----------------------------- MODULE MCTokens -----------------------------
(* Small instances of Tokens for TLC. *)
EXTENDS Tokens

CONSTANTS w1, w2, b1
=============================================================================
