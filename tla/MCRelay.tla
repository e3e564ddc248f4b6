------------------------------ MODULE MCRelay ------------------------------
(* Small instances of Relay for TLC. *)
EXTENDS Relay, TLC

CONSTANTS x1, x2, k1

\* Two events of one invoice that map to the same job id, and one without a route.
Colliding == 1 :> k1 @@ 2 :> k1
=============================================================================
