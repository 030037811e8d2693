---------------------------- MODULE Connection ----------------------------
(***************************************************************************)
(* How a C++ interface finds, claims, loses and finds again its service:   *)
(* ServiceDiscoveryImpl.cpp, ServiceIO.cpp and the discovery callbacks of  *)
(* ServiceInterfaceBase.cpp, for one service id, one interface and a       *)
(* service that may restart with another description or endpoint.          *)
(*                                                                         *)
(* Three threads meet: the discovery thread (Run), the IO thread (RunIo)   *)
(* and the user thread in ServiceInterfaceBase::Start().  Each lock        *)
(* section is one step, and so is each call one of them makes unlocked.    *)
(* The service is what ServiceIO can observe of it: it advertises itself,  *)
(* acknowledges claims and sends heartbeats to whoever claimed it last.    *)
(***************************************************************************)
EXTENDS Naturals

CONSTANTS
  Descriptions,       \* type and version of a service
  Compatible,         \* the one the interface was generated for
  Endpoints,
  Nothing,            \* no entry in a map
  LateStart,          \* Start() may be called while discovery runs already
  QuickRediscovery,   \* an advertisement may come while a loss is reported
  MaxRestarts,        \* bound: restarts of the service
  MaxLosses           \* bound: packets (or rows of heartbeats) lost

Service == [desc : Descriptions, ep : Endpoints]

ASSUME ConnectionAssumption ==
  /\ Compatible \in Descriptions
  /\ Nothing \notin Service \cup Descriptions
  /\ LateStart \in BOOLEAN /\ QuickRediscovery \in BOOLEAN
  /\ MaxRestarts \in Nat /\ MaxLosses \in Nat

\* The threads that run ServiceInterfaceBase::OnServiceDiscovered.
Threads == {"sd", "user"}

VARIABLES
  service,               \* the running service
  has_target,            \* ... and whether it sends to this host
  claim, ack,            \* a CLAIM and its acknowledgement on their way
  restarts, losses,
  discovered_services,   \* ServiceDiscovery's entry for the service
  sd_callbacks,          \* the interface is among its callbacks
  registered_callbacks,  \* the interface is among ServiceIO's callbacks
  endpoint_map,          \* ServiceIO's state of the service
  io,                    \* where RunIo is
  at,                    \* where each thread is in a discovery callback
  info,                  \* the description it read there
  service_discovered,    \* the interface's two flags
  io_callbacks_registered,
  told                   \* ghost: the last connection callback

environment == <<service, has_target, claim, ack, restarts, losses>>
flags == <<service_discovered, io_callbacks_registered>>
vars == <<environment, discovered_services, sd_callbacks, registered_callbacks,
          endpoint_map, io, at, info, flags, told>>

EnvironmentType ==
  /\ service \in Service /\ has_target \in BOOLEAN
  /\ claim \in BOOLEAN /\ ack \in BOOLEAN
  /\ restarts \in 0..MaxRestarts /\ losses \in 0..MaxLosses

MapsType ==
  /\ discovered_services \in Service \cup {Nothing}
  /\ sd_callbacks \in BOOLEAN /\ registered_callbacks \in BOOLEAN
  /\ endpoint_map \in {"none", "unclaimed", "claimed"}
  /\ io \in {"run", "claim", "drop", "disconnect"}
  /\ service_discovered \in BOOLEAN /\ io_callbacks_registered \in BOOLEAN
  /\ told \in {"nothing", "connected", "disconnected"}

ThreadsType ==
  /\ at \in [Threads -> {"idle", "io", "io_only", "notified", "read",
                         "register", "unregister", "mark"}]
  /\ at["user"] \notin {"io", "io_only"}
  /\ info \in [Threads -> Descriptions \cup {Nothing}]
  /\ \A t \in Threads : at[t] = "read" => info[t] # Nothing

TypeOK == EnvironmentType /\ MapsType /\ ThreadsType

Init ==
  /\ service \in Service /\ has_target = FALSE
  /\ claim = FALSE /\ ack = FALSE /\ restarts = 0 /\ losses = 0
  /\ discovered_services = Nothing
  /\ sd_callbacks \in {TRUE, ~LateStart}
  /\ registered_callbacks = FALSE /\ endpoint_map = "none"
  /\ io = "run"
  /\ at = [t \in Threads |-> "idle"] /\ info = [t \in Threads |-> Nothing]
  /\ service_discovered = FALSE /\ io_callbacks_registered = FALSE
  /\ told = "nothing"

Goto(t, step) == at' = [at EXCEPT ![t] = step]

----------------------------------------------------------------------------
(* The service and the network.                                            *)

\* A reboot (or a claim by another host): it no longer sends to this one, and
\* what is on its way to an endpoint it has left is lost.
Restart(new) ==
  /\ restarts < MaxRestarts
  /\ restarts' = restarts + 1
  /\ service' = new
  /\ has_target' = FALSE
  /\ claim' = (claim /\ new.ep = service.ep)
  /\ UNCHANGED <<ack, losses, discovered_services, sd_callbacks,
                 registered_callbacks, endpoint_map, io, at, info, flags, told>>

ReceiveClaim ==
  /\ claim
  /\ claim' = FALSE
  /\ ack' = TRUE
  /\ has_target' = TRUE
  /\ UNCHANGED <<service, restarts, losses, discovered_services, sd_callbacks,
                 registered_callbacks, endpoint_map, io, at, info, flags, told>>

LosePacket ==
  /\ losses < MaxLosses
  /\ losses' = losses + 1
  /\ \/ claim /\ claim' = FALSE /\ UNCHANGED ack
     \/ ack /\ ack' = FALSE /\ UNCHANGED claim
  /\ UNCHANGED <<service, has_target, restarts, discovered_services,
                 sd_callbacks, registered_callbacks, endpoint_map, io, at, info,
                 flags, told>>

----------------------------------------------------------------------------
(* ServiceDiscovery's thread.                                              *)

\* Run() receives an advertisement.  A new or changed description is reported
\* to the callbacks copied here; a changed endpoint is only noted.
ReceiveAdvertisement ==
  /\ at["sd"] = "idle"
  /\ QuickRediscovery \/ io # "disconnect"
  /\ discovered_services' = service
  /\ IF /\ discovered_services # Nothing
        /\ discovered_services.desc = service.desc
       THEN UNCHANGED at
       ELSE Goto("sd", IF sd_callbacks THEN "io" ELSE "io_only")
  /\ UNCHANGED <<environment, sd_callbacks, registered_callbacks, endpoint_map,
                 io, info, flags, told>>

\* Faulty variant: a new state starts out claimed.
EnsureClaimedServiceState(state) ==
  IF state = "none" /\ discovered_services # Nothing THEN "claimed" ELSE state

\* EnsureServiceState, of a service somebody registered for.
EnsureServiceState(state) ==
  IF state = "none" /\ discovered_services # Nothing THEN "unclaimed" ELSE state

\* ServiceIOImpl::OnServiceDiscovered, the first callback: starts afresh.
IoOnServiceDiscovered ==
  /\ at["sd"] \in {"io", "io_only"}
  /\ endpoint_map' =
       IF registered_callbacks THEN EnsureServiceState("none") ELSE endpoint_map
  /\ Goto("sd", IF at["sd"] = "io" THEN "notified" ELSE "idle")
  /\ UNCHANGED <<environment, discovered_services, sd_callbacks,
                 registered_callbacks, io, info, flags, told>>

----------------------------------------------------------------------------
(* The interface: OnServiceDiscovered, on the discovery or the user thread.*)

\* Faulty variant: the known services are reported to every callback again.
ReportToAll == Goto("user", IF discovered_services # Nothing THEN "io" ELSE "idle")

ReportKnown ==
  Goto("user", IF discovered_services # Nothing THEN "notified" ELSE "idle")

\* Start(): what is known already is reported on the caller's thread.
Start ==
  /\ ~sd_callbacks
  /\ sd_callbacks' = TRUE
  /\ ReportKnown
  /\ UNCHANGED <<environment, discovered_services, registered_callbacks,
                 endpoint_map, io, info, flags, told>>

GetServiceInfo(t) ==
  /\ at[t] = "notified"
  /\ IF discovered_services = Nothing
       THEN Goto(t, "idle") /\ UNCHANGED info
       ELSE /\ Goto(t, "read")
            /\ info' = [info EXCEPT ![t] = discovered_services.desc]
  /\ UNCHANGED <<environment, discovered_services, sd_callbacks,
                 registered_callbacks, endpoint_map, io, flags, told>>

\* Faulty variant: an interface that is registered once stays so.
OnMismatchIgnored(t) == Goto(t, "idle") /\ UNCHANGED flags

OnMismatch(t) ==
  /\ Goto(t, IF io_callbacks_registered THEN "unregister" ELSE "idle")
  /\ service_discovered' = FALSE
  /\ io_callbacks_registered' = FALSE

\* Faulty variant: the flag is set together with the registration only.
OnFirstMatch(t) ==
  /\ Goto(t, IF io_callbacks_registered THEN "idle" ELSE "register")
  /\ service_discovered' = (service_discovered \/ ~io_callbacks_registered)
  /\ io_callbacks_registered' = TRUE

OnMatch(t) ==
  /\ Goto(t, IF io_callbacks_registered THEN "idle" ELSE "register")
  /\ service_discovered' = TRUE
  /\ io_callbacks_registered' = TRUE

\* The section under state_mutex_ decides by what was read before it.
CompareMetadata(t) ==
  /\ at[t] = "read"
  /\ IF info[t] = Compatible THEN OnMatch(t) ELSE OnMismatch(t)
  /\ UNCHANGED <<environment, discovered_services, sd_callbacks,
                 registered_callbacks, endpoint_map, io, info, told>>

RegisterCallbacks(t) ==
  /\ at[t] = "register"
  /\ Goto(t, "idle")
  /\ registered_callbacks' = TRUE
  /\ endpoint_map' = IF registered_callbacks THEN endpoint_map
                     ELSE EnsureServiceState(endpoint_map)
  /\ UNCHANGED <<environment, discovered_services, sd_callbacks, io, info,
                 flags, told>>

\* Faulty variant: the state outlives the last callback.
KeepState == UNCHANGED endpoint_map

DropState == endpoint_map' = "none"

UnregisterCallbacks(t) ==
  /\ at[t] = "unregister"
  /\ Goto(t, "mark")
  /\ registered_callbacks' = FALSE
  /\ IF registered_callbacks THEN DropState ELSE UNCHANGED endpoint_map
  /\ UNCHANGED <<environment, discovered_services, sd_callbacks, io, info,
                 flags, told>>

MarkServiceDisconnected(t) ==
  /\ at[t] = "mark"
  /\ Goto(t, "idle")
  /\ service_discovered' = FALSE
  /\ UNCHANGED <<environment, discovered_services, sd_callbacks,
                 registered_callbacks, endpoint_map, io, info,
                 io_callbacks_registered, told>>

----------------------------------------------------------------------------
(* ServiceIO's thread: RunIo.                                              *)

\* The once-a-second check finds the service unclaimed.
CheckUnclaimed ==
  /\ io = "run" /\ endpoint_map = "unclaimed"
  /\ io' = "claim"
  /\ UNCHANGED <<environment, discovered_services, sd_callbacks,
                 registered_callbacks, endpoint_map, at, info, flags, told>>

\* ClaimService.  A packet to an endpoint the service has left is lost.
ClaimService ==
  /\ io = "claim"
  /\ io' = "run"
  /\ endpoint_map' = IF endpoint_map = "none" THEN "none" ELSE "unclaimed"
  /\ claim' = (claim \/ (/\ endpoint_map # "none"
                         /\ discovered_services # Nothing
                         /\ discovered_services.ep = service.ep))
  /\ UNCHANGED <<service, has_target, ack, restarts, losses,
                 discovered_services, sd_callbacks, registered_callbacks, at,
                 info, flags, told>>

\* The check finds the heartbeat missing: because the service sends none here,
\* or because the network swallowed them.
CheckTimeout ==
  /\ io = "run" /\ endpoint_map = "claimed"
  /\ \/ ~has_target /\ UNCHANGED losses
     \/ has_target /\ losses < MaxLosses /\ losses' = losses + 1
  /\ endpoint_map' = "none"
  /\ io' = IF registered_callbacks THEN "drop" ELSE "run"
  /\ UNCHANGED <<service, has_target, claim, ack, restarts, discovered_services,
                 sd_callbacks, registered_callbacks, at, info, flags, told>>

\* Faulty variant: the service stays known, so it is never announced again.
KeepInDiscovery == UNCHANGED discovered_services

ForgetInDiscovery == discovered_services' = Nothing

DropService ==
  /\ io = "drop"
  /\ io' = "disconnect"
  /\ ForgetInDiscovery
  /\ UNCHANGED <<environment, sd_callbacks, registered_callbacks, endpoint_map,
                 at, info, flags, told>>

OnServiceDisconnected ==
  /\ io = "disconnect"
  /\ io' = "run"
  /\ service_discovered' = FALSE
  /\ told' = "disconnected"
  /\ UNCHANGED <<environment, discovered_services, sd_callbacks,
                 registered_callbacks, endpoint_map, at, info,
                 io_callbacks_registered>>

\* HandleClaimMessage: an acknowledgement, however old.
HandleClaimMessage ==
  /\ io = "run" /\ ack
  /\ ack' = FALSE
  /\ IF endpoint_map = "unclaimed"
       THEN /\ endpoint_map' = "claimed"
            /\ told' = IF registered_callbacks THEN "connected" ELSE told
       ELSE UNCHANGED <<endpoint_map, told>>
  /\ UNCHANGED <<service, has_target, claim, restarts, losses,
                 discovered_services, sd_callbacks, registered_callbacks, io, at,
                 info, flags>>

----------------------------------------------------------------------------
InterfaceStep(t) ==
  \/ GetServiceInfo(t) \/ CompareMetadata(t)
  \/ RegisterCallbacks(t) \/ UnregisterCallbacks(t) \/ MarkServiceDisconnected(t)

IoStep ==
  CheckUnclaimed \/ ClaimService \/ CheckTimeout \/ DropService \/ OnServiceDisconnected

Next ==
  \/ \E new \in Service : Restart(new)
  \/ ReceiveClaim \/ LosePacket
  \/ ReceiveAdvertisement \/ IoOnServiceDiscovered
  \/ Start
  \/ \E t \in Threads : InterfaceStep(t)
  \/ IoStep \/ HandleClaimMessage

Spec == Init /\ [][Next]_vars

(***************************************************************************)
(* Threads are scheduled, advertisements are repeated until one comes      *)
(* through, and RunIo reads its socket every time around its loop - hence  *)
(* the strong fairness of HandleClaimMessage.  Only losses are bounded.    *)
(***************************************************************************)
Fairness ==
  /\ WF_vars(ReceiveClaim)
  /\ WF_vars(ReceiveAdvertisement) /\ WF_vars(IoOnServiceDiscovered)
  /\ WF_vars(Start)
  /\ \A t \in Threads : WF_vars(InterfaceStep(t))
  /\ WF_vars(IoStep \/ (~has_target /\ CheckTimeout))
  /\ SF_vars(HandleClaimMessage)

FairSpec == Spec /\ Fairness

----------------------------------------------------------------------------
Settled == io = "run" /\ \A t \in Threads : at[t] = "idle"

(***************************************************************************)
(* ServiceIO keeps a state for a service, and claims it from whoever has   *)
(* it, only while an interface is registered for it.                       *)
(***************************************************************************)
StateHasInterest == endpoint_map # "none" => registered_callbacks

(***************************************************************************)
(* ServiceIO.hpp:72-74, "After this OnData won't be called anymore [...]   *)
(* OnServiceConnected might be called on reconnection.  Then OnData will   *)
(* be called again": data is only passed on (the state is claimed) between *)
(* OnServiceConnected and OnServiceDisconnected.                           *)
(***************************************************************************)
DataOnlyWhenConnected == endpoint_map = "claimed" => told = "connected"

(***************************************************************************)
(* When the threads are done with what they know, ServiceIO serves the     *)
(* interface exactly if the service it found is the one it was made for -  *)
(* unless the description changed while Start() still worked with the old  *)
(* one: then two threads decide, and the older may decide last.            *)
(***************************************************************************)
InterfaceMatches ==
  Settled =>
    /\ registered_callbacks = io_callbacks_registered
    /\ sd_callbacks /\ discovered_services # Nothing =>
         registered_callbacks = (discovered_services.desc = Compatible)

(***************************************************************************)
(* ServiceIO.hpp:19, "Connected means that it was discovered and claimed   *)
(* successfully": the interface of a connected service has its own flag    *)
(* service_discovered_ set, without which it drops everything it is given  *)
(* to send.                                                                *)
(***************************************************************************)
ConnectedIsDiscovered ==
  Settled /\ endpoint_map = "claimed" /\ discovered_services # Nothing =>
    service_discovered

(***************************************************************************)
(* Once restarts and losses end, the interface is connected to its service *)
(* for good - and leaves alone one that came back incompatible.            *)
(***************************************************************************)
Reconnects ==
  <>[](IF service.desc = Compatible
         THEN /\ discovered_services = service
              /\ endpoint_map = "claimed" /\ has_target
              /\ service_discovered /\ told = "connected"
         ELSE ~registered_callbacks /\ endpoint_map = "none")
=============================================================================
