---------------------------- MODULE MCPacketPath ----------------------------
(* Instance of ServiceTransaction for TLC.  What a transaction contains     *)
(* does not depend on the services the Io thread knows, nor on how many     *)
(* transactions there were whether an open one holds that thread up.        *)
EXTENDS ServiceTransaction

\* A scalar of one cell, an array of two-cell elements; id 9 is unknown.
MCOutputs ==
  [id \in {1, 2} |-> IF id = 1 THEN [array |-> FALSE, size |-> 1, max |-> 1]
                               ELSE [array |-> TRUE, size |-> 2, max |-> 2]]

MCItems == {Item(1, <<Byte(7)>>), Item(9, <<>>)}

\* Bound: two transactions, or one and its service, or two services.
WithinBounds ==
  /\ services # {} => Node \in services
  /\ Cardinality(services) + starts <= 2

MCNext == NodeNext /\ WithinBounds'

MCSpec == NodeInit /\ [][MCNext]_node_vars

MCFairSpec == MCSpec /\ NodeFairness
=============================================================================
