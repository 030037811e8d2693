------------------------------ MODULE MCPyRpc ------------------------------
(* Instance of PyConnection for TLC.  The history variable `overtaken` tells *)
(* whether somebody acted on the service between two steps of another        *)
(* thread: it was found or claimed again while its loss was being reported,  *)
(* or it changed while register() still worked with what it was before.      *)
EXTENDS PyConnection

VARIABLE overtaken

CONSTANT FirstEndpoint

TracedInit == HostInit /\ overtaken = FALSE

Reporting == watchdog \in {"timeout", "disconnect", "drop", "unregister"}

TracedNext ==
  /\ HostNext
  /\ overtaken' = \/ overtaken
                  \/ Reporting' /\ recv' = "acked"
                  \/ unregister_service /\ discovered # Nothing
                  \/ at["user"] = "found" /\ found["user"] # discovered'

TracedSpec == TracedInit /\ [][TracedNext]_<<host_vars, overtaken>>

MCInit == TracedInit /\ service.ep = FirstEndpoint

\* Bound: calls, restarts and losses together, and few of them fail at once.
\* Calls are only made to a compatible service that is completely described, and
\* after it was connected or has failed.
WithinBounds ==
  LET begun == calls + Cardinality({c \in Callers : pc[c] = "enter"})
      faults == restarts + losses
  IN IF begun = 0
       THEN faults <= 2
       ELSE /\ begun + faults <= 3 /\ faults <= 1
            /\ service.desc = Compatible /\ fetched /\ at["user"] = "idle"
            /\ _connected \/ faults = 1

MCNext == TracedNext /\ WithinBounds'

MCSpec == MCInit /\ [][MCNext]_<<host_vars, overtaken>>

MCFairSpec == MCSpec /\ HostFairness

(* Properties of PyConnection that hold unless somebody was overtaken.       *)
LossIsNoticedUnlessOvertaken == overtaken \/ LossIsNoticed

FindsUnlessOvertaken == <>[]overtaken \/ FindsItsService
=============================================================================
