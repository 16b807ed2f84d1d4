------------------------------ MODULE MCInstall ------------------------------
(* Processes for TLC: they are alike. *)
EXTENDS Install, TLC

Symmetry == Permutations(Installer)
=============================================================================
