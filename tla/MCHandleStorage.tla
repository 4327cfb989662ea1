-------------------------- MODULE MCHandleStorage --------------------------
(* Finite instances of HandleStorage. *)
EXTENDS HandleStorage, TLC

Symmetry == Permutations(Contexts) \cup Permutations(Launchers)
=============================================================================
