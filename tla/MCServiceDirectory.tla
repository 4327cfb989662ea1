------------------------- MODULE MCServiceDirectory -------------------------
(* Finite instances of ServiceDirectory. *)
EXTENDS ServiceDirectory
=============================================================================
