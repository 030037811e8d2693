-------------------------- MODULE MCBlockingQueue --------------------------
(* Instance of BlockingQueue for TLC.                                       *)
EXTENDS BlockingQueue, TLC

\* Threads on one side are interchangeable, and so are items: the queue never
\* looks at them.
Symmetry ==
  Permutations(Producers) \cup Permutations(Consumers) \cup Permutations(Items)
=============================================================================
