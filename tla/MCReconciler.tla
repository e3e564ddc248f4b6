--------------------------- MODULE MCReconciler ---------------------------
(* Two invoices of one company and one of another, whose bills have the same ids. *)
EXTENDS Reconciler, TLC

CONSTANTS r1, r2, r3

Owners == (r1 :> 1) @@ (r2 :> 1) @@ (r3 :> 2)
Numbered == {<<1, 1>>, <<1, 2>>, <<2, 1>>}
\* 0.01 in a currency of two decimals, and 0.010 in one of three.
Amounts == (r1 :> 1) @@ (r2 :> 1) @@ (r3 :> 10)
Units == (r1 :> 10) @@ (r2 :> 10) @@ (r3 :> 1)
Symmetry == Permutations({r1, r2})
=============================================================================
