-------------------------------- MODULE Fifo --------------------------------
(***************************************************************************)
(* What a service's message queue promises: an unbounded FIFO queue.       *)
(***************************************************************************)
EXTENDS Integers, Sequences

CONSTANTS Messages, None

VARIABLES
  items,  \* the messages in the queue, oldest first
  out     \* the result of the last pop: a message, or None for "empty"

vars == <<items, out>>

Init == items = <<>> /\ out = None

Push(m) == items' = Append(items, m) /\ UNCHANGED out

Pop ==
  \/ /\ items # <<>>
     /\ out' = Head(items)
     /\ items' = Tail(items)
  \/ /\ items = <<>>
     /\ out' = None
     /\ UNCHANGED items

Next == Pop \/ \E m \in Messages : Push(m)

Spec == Init /\ [][Next]_vars
=============================================================================
