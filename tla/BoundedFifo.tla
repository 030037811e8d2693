---------------------------- MODULE BoundedFifo ----------------------------
(***************************************************************************)
(* What BlockingQueue promises: items leave in the order they came, at     *)
(* most Capacity of them are kept, a push is refused only by a full queue  *)
(* and a pop comes back with nothing only from an empty one.               *)
(***************************************************************************)
EXTENDS Naturals, Sequences

CONSTANTS Producers, Consumers, Items, nullptr, Capacity

VARIABLES
  items,    \* what is in the queue
  pushed,   \* what each producer's last push returned
  popped    \* what each consumer's last pop returned

vars == <<items, pushed, popped>>

Init ==
  /\ items = <<>>
  /\ pushed = [p \in Producers |-> FALSE]
  /\ popped = [c \in Consumers |-> nullptr]

Push(p, item) ==
  /\ Len(items) < Capacity
  /\ items' = Append(items, item)
  /\ pushed' = [pushed EXCEPT ![p] = TRUE]
  /\ UNCHANGED popped

Refuse(p) ==
  /\ Len(items) = Capacity
  /\ pushed' = [pushed EXCEPT ![p] = FALSE]
  /\ UNCHANGED <<items, popped>>

Pop(c) ==
  /\ items # <<>>
  /\ popped' = [popped EXCEPT ![c] = Head(items)]
  /\ items' = Tail(items)
  /\ UNCHANGED pushed

PopNothing(c) ==
  /\ items = <<>>
  /\ popped' = [popped EXCEPT ![c] = nullptr]
  /\ UNCHANGED <<items, pushed>>

Next ==
  \/ \E p \in Producers : Refuse(p) \/ \E item \in Items : Push(p, item)
  \/ \E c \in Consumers : Pop(c) \/ PopNothing(c)

Spec == Init /\ [][Next]_vars
=============================================================================
