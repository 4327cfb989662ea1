----------------------------- MODULE MCAccounts -----------------------------
(***************************************************************************)
(* Two agents on one redis connection.  The first client registers a name; *)
(* the second registers the same or another name, or logs in with the      *)
(* right or with a wrong password.                                         *)
(***************************************************************************)
EXTENDS Accounts

CONSTANTS a1, a2, n1, n2, p1, p2

Message(kind, name, password) ==
  [kind |-> kind, account |-> name, password |-> password]
MCMessages ==
  [a \in {a1, a2} |->
     IF a = a1
     THEN {Message("register", n1, p1)}
     ELSE {Message("register", n1, p2), Message("register", n2, p2),
           Message("login", n1, p1), Message("login", n1, p2)}]
=============================================================================
