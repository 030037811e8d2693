----------------------------- MODULE MCService -----------------------------
(* Instance of GoConn for TLC.  Either the connection is never dialled, or   *)
(* every configuration is a good one, no user thread sends data, and what    *)
(* the schedules send is left out: a call and a claim depend on whether the  *)
(* service runs, not on what made it run, and ignore all other packets.      *)
EXTENDS GoConn

Good(message) == message.complete /\ \A r \in Registers : message.chunks[r] # NoValue

Outsiders == {i \in DOMAIN handled : handled[i].conn = NoAddr}

\* Bound: two calls by whomever, and a packet is lost only before the first of
\* the connection's own.
WithinBounds ==
  (\E c \in Conns : conn[c] # "new") =>
    /\ job \in ConfigMessage => Good(job)
    /\ applied = NoJob \/ Good(applied)
    /\ sender_ip = NoAddr
    /\ ~sd_discovery_timed_out
    /\ out.type \notin {"HEARTBEAT", "CONFIGURATION_REQUEST", "DATA"}
    /\ \A c \in Conns :
         /\ callID[c] = 0 \/ losses = 0
         /\ callID[c] + Cardinality(Outsiders) <= 2

MCNext == GoNext /\ WithinBounds'

MCSpec == GoInit /\ [][MCNext]_go_vars

MCFairSpec == MCSpec /\ GoFairness
=============================================================================
