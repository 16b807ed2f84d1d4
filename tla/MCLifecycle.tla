----------------------------- MODULE MCLifecycle -----------------------------
(* Clear requests for TLC: they are alike. *)
EXTENDS Lifecycle, TLC

Symmetry == Permutations(Request)
=============================================================================
