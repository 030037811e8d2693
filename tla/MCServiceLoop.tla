--------------------------- MODULE MCServiceLoop ---------------------------
(* Instance of DescriptionFetch for TLC.  Either nothing is omitted from    *)
(* the description and the schedules change, or there is a description to   *)
(* fetch and only the advertisement is scheduled: the two share the loop    *)
(* and the clock, and nothing else.                                         *)
EXTENDS DescriptionFetch

CONSTANT Descriptions   \* sizes of what is omitted

WithSchedules ==
  /\ total = 0
  /\ clock = 0
  /\ enabled_ \in [Schedules -> BOOLEAN] /\ interval_ \in [Schedules -> Intervals]

\* The clock may have wrapped before.
WithDescription ==
  /\ total \in Descriptions
  /\ clock \in {0, Wrap - 1}
  /\ enabled_ = [s \in Schedules |-> s = Advertisement]
  /\ interval_ = [s \in Schedules |-> MaxInterval]

MCInit == (WithSchedules \/ WithDescription) /\ FetchInit

MCNext == FetchNext /\ (total > 0 => packets' = 0 /\ changes' = 0)

MCSpec == MCInit /\ [][MCNext]_fetch_vars

MCFairSpec == MCSpec /\ FetchFairness
=============================================================================
