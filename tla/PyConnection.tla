---------------------------- MODULE PyConnection ----------------------------
(***************************************************************************)
(* How the Python host finds, claims, loses and finds again its service:   *)
(* XbotServiceIo (manager.py), ServiceIO (io.py) and ServiceDiscovery      *)
(* (discovery.py), for one interface whose schema was given, and whose     *)
(* calls (PyRpc) depend on the claim and are ended with it.                *)
(*                                                                         *)
(* Four threads of the host meet: discovery, the watchdog and the receiver *)
(* of ServiceIO, and the user thread in register().  A section under a     *)
(* lock is one step, and so is each callback.  The service restarts with   *)
(* another description or endpoint and then no longer knows its host.      *)
(***************************************************************************)
EXTENDS PyRpc

CONSTANTS
  Descriptions,   \* type and version of a service
  Compatible,     \* the one of the schema the interface was given
  Endpoints,
  Nothing,        \* no entry in a dictionary
  MaxRestarts,    \* bound: restarts of the service
  MaxLosses       \* bound: packets (or rows of heartbeats) lost

Service == [desc : Descriptions, ep : Endpoints]

\* What an advertisement tells; `full` if nothing was omitted or it was fetched.
Info == [desc : Descriptions, ep : Endpoints, full : BOOLEAN]

Registration == [ep : Endpoints, claimed : BOOLEAN]

ASSUME PyConnectionAssumption ==
  /\ Compatible \in Descriptions
  /\ Nothing \notin Info \cup Registration
  /\ MaxRestarts \in Nat /\ MaxLosses \in Nat

\* The threads that run _on_service_found.
Finders == {"discovery", "user"}

VARIABLES
  service,      \* the running service
  has_target,   \* ... and whether it sends to this host
  claim, ack,   \* a CLAIM and its acknowledgement on their way
  restarts, losses,
  fetched,      \* _omitted_cache holds the rest of the description
  discovered,   \* ServiceDiscovery._services[service_id]
  registered,   \* ServiceIO._services[service_id]
  recv,         \* where _recv_loop is
  watchdog,     \* where _watchdog_loop is
  at, found     \* where each finder is, and with what

environment == <<service, has_target, claim, ack, restarts, losses>>
finders == <<fetched, discovered, at, found>>
connection_vars == <<environment, finders, registered, recv, watchdog>>
host_vars == <<vars, connection_vars>>

ConnectionTypeOK ==
  /\ TypeOK
  /\ service \in Service /\ has_target \in BOOLEAN
  /\ claim \in BOOLEAN /\ ack \in BOOLEAN
  /\ restarts \in 0..MaxRestarts /\ losses \in 0..MaxLosses
  /\ fetched \in BOOLEAN
  /\ discovered \in Info \cup {Nothing}
  /\ registered \in Registration \cup {Nothing}
  /\ recv \in {"idle", "acked"}
  /\ watchdog \in {"idle", "claim", "timeout", "disconnect", "drop", "unregister"}
  /\ at \in [Finders -> {"new", "lookup", "found", "idle"}]
  /\ found \in [Finders -> Info \cup {Nothing}]
  /\ \A t \in Finders : at[t] = "found" => found[t] # Nothing

\* The interface is registered before start(), or by and by.
HostInit ==
  /\ Init
  /\ service \in Service /\ has_target = FALSE
  /\ claim = FALSE /\ ack = FALSE /\ restarts = 0 /\ losses = 0
  /\ fetched = FALSE
  /\ discovered = Nothing /\ registered = Nothing
  /\ recv = "idle" /\ watchdog = "idle"
  /\ at \in [Finders -> {"new", "idle"}] /\ at["discovery"] = "idle"
  /\ found = [t \in Finders |-> Nothing]

Claimed == registered # Nothing /\ registered.claimed

----------------------------------------------------------------------------
(* The service and the network.                                            *)

\* A reboot (or a claim by another host): it no longer sends to this one, and
\* what is on its way to an endpoint it has left is lost.
Restart(new) ==
  /\ restarts < MaxRestarts
  /\ restarts' = restarts + 1
  /\ service' = new
  /\ has_target' = FALSE
  /\ claim' = (claim /\ new.ep = service.ep)
  /\ UNCHANGED <<ack, losses, finders, registered, recv, watchdog>>

ReceiveClaim ==
  /\ claim
  /\ claim' = FALSE
  /\ ack' = TRUE
  /\ has_target' = TRUE
  /\ UNCHANGED <<service, restarts, losses, finders, registered, recv, watchdog>>

LosePacket ==
  /\ losses < MaxLosses
  /\ losses' = losses + 1
  /\ \/ claim /\ claim' = FALSE /\ UNCHANGED ack
     \/ ack /\ ack' = FALSE /\ UNCHANGED claim
  /\ UNCHANGED <<service, has_target, restarts, finders, registered, recv, watchdog>>

----------------------------------------------------------------------------
(* The discovery thread, and the user thread in register().                *)

\* Faulty variant: a new endpoint alone is no news.
IsNewDescription(info) ==
  discovered = Nothing \/ [discovered EXCEPT !.ep = info.ep] # info

IsNews(info) == discovered # info

\* ServiceDiscovery._handle_packet.  What the advertisement omits is fetched,
\* unless it was fetched before; an advertisement comes again and again.
ReceiveAdvertisement ==
  /\ at["discovery"] = "idle"
  /\ \E full \in {fetched, TRUE} :
       LET info == [desc |-> service.desc, ep |-> service.ep, full |-> full] IN
       /\ fetched' = full
       /\ IF IsNews(info)
            THEN /\ discovered' = info
                 /\ found' = [found EXCEPT !["discovery"] = info]
                 /\ at' = [at EXCEPT !["discovery"] = "found"]
            ELSE UNCHANGED <<discovered, found, at>>
  /\ UNCHANGED <<environment, registered, recv, watchdog>>

\* XbotServiceIo.register: the interface can be found from now on ...
Register ==
  /\ at["user"] = "new"
  /\ at' = [at EXCEPT !["user"] = "lookup"]
  /\ UNCHANGED <<environment, fetched, discovered, found, registered, recv, watchdog>>

\* ... and is told of what was discovered before.
GetServiceInfo ==
  /\ at["user"] = "lookup"
  /\ at' = [at EXCEPT !["user"] = IF discovered = Nothing THEN "idle" ELSE "found"]
  /\ found' = [found EXCEPT !["user"] = discovered]
  /\ UNCHANGED <<environment, fetched, discovered, registered, recv, watchdog>>

\* _on_service_discovered accepts only a service of the given type and version.
Accepts(info) == info.desc = Compatible

\* register_service replaces whatever state there is.
NewState(info) == [ep |-> info.ep, claimed |-> FALSE]

\* _on_service_found: an incompatible service is not registered - but neither
\* is what was registered before unregistered.
_on_service_found(t) ==
  /\ at[t] = "found"
  /\ at' = [at EXCEPT ![t] = "idle"] /\ found' = [found EXCEPT ![t] = Nothing]
  /\ registered' = IF at["user"] # "new" /\ Accepts(found[t])
                     THEN NewState(found[t]) ELSE registered
  /\ UNCHANGED <<environment, fetched, discovered, recv, watchdog>>

----------------------------------------------------------------------------
(* ServiceIO's watchdog.                                                   *)

CheckUnclaimed ==
  /\ watchdog = "idle" /\ registered # Nothing /\ ~Claimed
  /\ watchdog' = "claim"
  /\ UNCHANGED <<environment, finders, registered, recv>>

\* _send_claim, of whatever is registered by then.
_send_claim ==
  /\ watchdog = "claim"
  /\ watchdog' = "idle"
  /\ claim' = (claim \/ (registered # Nothing /\ registered.ep = service.ep))
  /\ UNCHANGED <<service, has_target, ack, restarts, losses, finders, registered, recv>>

\* The heartbeats are missing: because the service sends none here, or because
\* the network swallowed them.  By then _on_claim_ack has long been called.
CheckHeartbeat ==
  /\ watchdog = "idle" /\ Claimed /\ recv = "idle"
  /\ \/ ~has_target /\ UNCHANGED losses
     \/ has_target /\ losses < MaxLosses /\ losses' = losses + 1
  /\ watchdog' = "timeout"
  /\ UNCHANGED <<service, has_target, claim, ack, restarts, finders, registered, recv>>

\* Faulty variant: the state stays claimed until it is unregistered.
StillClaimed == registered

Unclaimed == IF registered = Nothing THEN Nothing
             ELSE [registered EXCEPT !.claimed = FALSE]

ClearClaimed ==
  /\ watchdog = "timeout"
  /\ watchdog' = "disconnect"
  /\ registered' = Unclaimed
  /\ UNCHANGED <<environment, finders, recv>>

\* The manager's on_disconnected calls _on_disconnected, and then ...
Disconnect ==
  /\ watchdog = "disconnect"
  /\ watchdog' = "drop"
  /\ UNCHANGED <<environment, finders, registered, recv>>

drop_service ==
  /\ watchdog = "drop"
  /\ watchdog' = "unregister"
  /\ discovered' = Nothing
  /\ UNCHANGED <<environment, fetched, at, found, registered, recv>>

unregister_service ==
  /\ watchdog = "unregister"
  /\ watchdog' = "idle"
  /\ registered' = Nothing
  /\ UNCHANGED <<environment, finders, recv>>

----------------------------------------------------------------------------
(* ServiceIO's receiver.                                                   *)

\* _handle_claim_ack: an acknowledgement, however old.
_handle_claim_ack ==
  /\ recv = "idle" /\ ack
  /\ ack' = FALSE
  /\ IF registered # Nothing /\ ~registered.claimed
       THEN /\ registered' = [registered EXCEPT !.claimed = TRUE]
            /\ recv' = "acked"
       ELSE UNCHANGED <<registered, recv>>
  /\ UNCHANGED <<service, has_target, claim, restarts, losses, finders, watchdog>>

Connect ==
  /\ recv = "acked"
  /\ recv' = "idle"
  /\ UNCHANGED <<environment, finders, registered, watchdog>>

----------------------------------------------------------------------------
WatchdogStep ==
  CheckUnclaimed \/ _send_claim \/ ClearClaimed \/ drop_service \/ unregister_service

ConnectionStep ==
  \/ \E new \in Service : Restart(new)
  \/ ReceiveClaim \/ LosePacket
  \/ ReceiveAdvertisement \/ Register \/ GetServiceInfo
  \/ \E t \in Finders : _on_service_found(t)
  \/ WatchdogStep \/ CheckHeartbeat
  \/ _handle_claim_ack

\* send_rpc_call refuses when the service is not claimed.
BeginCall(c) == Begin(c) /\ (pc'[c] = "wait" => Claimed)

AdvanceCall(c) == BeginCall(c) \/ Wake(c) \/ Timeout(c)

Response ==
  /\ recv = "idle" /\ Claimed
  /\ \E n \in sent, status \in Status : _on_rpc_response(n, status)

HostNext ==
  \/ ConnectionStep /\ UNCHANGED vars
  \/ Disconnect /\ _on_disconnected
  \/ Connect /\ _on_claim_ack
  \/ (Response \/ \E c \in Callers : Call(c) \/ AdvanceCall(c)) /\ UNCHANGED connection_vars

HostSpec == HostInit /\ [][HostNext]_host_vars

\* Threads are scheduled, advertisements repeated, and the sockets read; a
\* time-out is certain only for a service that sends its heartbeats elsewhere.
HostFairness ==
  /\ WF_host_vars(ReceiveClaim /\ UNCHANGED vars)
  /\ WF_host_vars(ReceiveAdvertisement /\ UNCHANGED vars)
  /\ WF_host_vars((Register \/ GetServiceInfo) /\ UNCHANGED vars)
  /\ \A t \in Finders : WF_host_vars(_on_service_found(t) /\ UNCHANGED vars)
  /\ WF_host_vars((WatchdogStep \/ (~has_target /\ CheckHeartbeat)) /\ UNCHANGED vars)
  /\ WF_host_vars(Disconnect /\ _on_disconnected)
  /\ WF_host_vars(_handle_claim_ack /\ UNCHANGED vars)
  /\ WF_host_vars(Connect /\ _on_claim_ack)
  /\ \A c \in Callers : WF_host_vars(AdvanceCall(c) /\ UNCHANGED connection_vars)

HostFairSpec == HostSpec /\ HostFairness

----------------------------------------------------------------------------
(***************************************************************************)
(* When a lost service has been dropped, the interface knows: it is not    *)
(* connected, and no caller waits for a response to a call that went to    *)
(* the service it lost.                                                    *)
(***************************************************************************)
LossIsNoticed ==
  registered = Nothing /\ recv = "idle" => ~_connected /\ ~_rpc_call_active

(***************************************************************************)
(* README.md:669 of the Python interface: after a loss "the next           *)
(* advertisement from the same service ID triggers a fresh connection      *)
(* flow".  Once restarts and losses end, the interface is connected to its *)
(* service for good, at the endpoint where the service is, and never to    *)
(* one that came back incompatible - unless that was claimed in the place  *)
(* of its compatible predecessor, which stays registered until then.       *)
(***************************************************************************)
FindsItsService ==
  <>[](IF service.desc = Compatible
         THEN /\ registered = [ep |-> service.ep, claimed |-> TRUE]
              /\ has_target /\ _connected
         ELSE has_target \/ ~Claimed)
=============================================================================
