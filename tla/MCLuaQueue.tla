----------------------------- MODULE MCLuaQueue -----------------------------
(* Finite instances of LuaQueue. *)
EXTENDS LuaQueue
=============================================================================
