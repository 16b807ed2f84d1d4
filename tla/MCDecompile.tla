---------------------------- MODULE MCDecompile ----------------------------
(***************************************************************************)
(* Answers for TLC: two that share a URI, and one that kills its worker.   *)
(***************************************************************************)
EXTENDS Decompile, TLC

CONSTANTS r1, r2, r3, u1, u2, bad

Answers == (r1 :> <<u1>>) @@ (r2 :> <<u2, u1>>) @@ (r3 :> <<bad, u1>>)
=============================================================================
