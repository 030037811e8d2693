---------------------------- MODULE MCConnection ----------------------------
(* Instance of Connection for TLC.  The history variable `overtaken` tells  *)
(* whether discovery learned of another description than the one the user   *)
(* thread is still working with inside Start(): then two threads run        *)
(* OnServiceDiscovered with different descriptions, and either may finish   *)
(* last.                                                                    *)
EXTENDS Connection

VARIABLE overtaken

MCInit == Init /\ overtaken = FALSE

MCNext ==
  /\ Next
  /\ overtaken' = (overtaken \/ /\ at["user"] \notin {"idle", "notified"}
                                /\ discovered_services' # Nothing
                                /\ discovered_services'.desc # info["user"])

MCSpec == MCInit /\ [][MCNext]_<<vars, overtaken>>

MCFairSpec == MCSpec /\ Fairness

(* Properties of Connection that hold unless Start() was overtaken.         *)
MatchesUnlessOvertaken == overtaken \/ InterfaceMatches

DiscoveredUnlessOvertaken == overtaken \/ ConnectedIsDiscovered

ReconnectsUnlessOvertaken == <>[]overtaken \/ Reconnects
=============================================================================
