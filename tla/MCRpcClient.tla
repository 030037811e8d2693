---------------------------- MODULE MCRpcClient ----------------------------
(* Instance of InterfaceTransaction for TLC.  The history variable          *)
(* `overlapped` tells whether two calls were in SendRpc at once since the   *)
(* last moment when none was: their callers share what ends a call.         *)
EXTENDS InterfaceTransaction

\* A scalar of one cell and an array.
MCParameters ==
  [id \in {1, 2} |-> IF id = 1 THEN [array |-> FALSE, size |-> 1, max |-> 1]
                               ELSE [array |-> TRUE, size |-> 1, max |-> 2]]

MCItems == {Item(1, <<Byte(7)>>)}

\* Arguments that fit and an array that is too long, in either order.
MCArguments ==
  {<<Item(1, <<Byte(7)>>), Item(2, <<>>)>>,
   <<Item(2, <<Byte(1), Byte(2), Byte(3)>>), Item(1, <<Byte(7)>>)>>}

VARIABLE overlapped

MCInit == InterfaceInit /\ overlapped = FALSE

Active == {c \in Callers : pc[c] # "idle"}

TracedNext ==
  /\ InterfaceNext
  /\ overlapped' = \/ Cardinality(Active') > 1
                   \/ overlapped /\ Active' # {}

TracedSpec == MCInit /\ [][TracedNext]_<<interface_vars, overlapped>>

\* Bound: calls and transactions together.
WithinBounds ==
  calls + Cardinality({c \in Callers : pc[c] = "enter"}) + starts <= 3

MCNext == TracedNext /\ WithinBounds'

MCSpec == MCInit /\ [][MCNext]_<<interface_vars, overlapped>>

MCFairSpec == MCSpec /\ InterfaceFairness

(* A call that overlaps with no other keeps the promise of RpcPromise.      *)
PromiseWhileAlone ==
  Promise!Init /\ [][overlapped \/ overlapped' \/ Promise!Next]_(Promise!vars)
=============================================================================
