--------------------------- MODULE MCServiceCore ---------------------------
(* Finite instances of ServiceCore. *)
EXTENDS ServiceCore
=============================================================================
