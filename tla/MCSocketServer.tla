-------------------------- MODULE MCSocketServer --------------------------
(* Finite instances of SocketServer. *)
EXTENDS SocketServer
=============================================================================
