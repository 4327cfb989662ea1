---------------------------- MODULE MCWorkerPool ----------------------------
(* Finite instances of WorkerPool. *)
EXTENDS WorkerPool
=============================================================================
