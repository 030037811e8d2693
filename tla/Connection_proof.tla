-------------------------- MODULE Connection_proof --------------------------
(***************************************************************************)
(* Proofs about the connection of an interface with its service, for any   *)
(* descriptions and endpoints and any number of restarts and losses.  The  *)
(* history variable of MCConnection says when the last theorems apply.     *)
(***************************************************************************)
EXTENDS MCConnection, TLAPS

\* Once RunIo has found a service lost, only RunIo can make it claimed again.
LostIsNotClaimed == io \in {"drop", "disconnect"} => endpoint_map # "claimed"

IInv ==
  /\ TypeOK
  /\ StateHasInterest
  /\ LostIsNotClaimed
  /\ DataOnlyWhenConnected

----------------------------------------------------------------------------
(* Type correctness, one lemma for each part of the state.                 *)

LEMMA Bounds == MaxRestarts \in Nat /\ MaxLosses \in Nat
  BY ConnectionAssumption

LEMMA EnvironmentTypeStep == EnvironmentType /\ [Next]_vars => EnvironmentType'
<1> SUFFICES ASSUME EnvironmentType, [Next]_vars PROVE EnvironmentType'
  OBVIOUS
<1>1. ASSUME UNCHANGED environment PROVE EnvironmentType'
  BY <1>1 DEF EnvironmentType, environment
<1>2. ASSUME NEW new \in Service, Restart(new) PROVE EnvironmentType'
  <2>1. restarts' \in 0..MaxRestarts
    BY <1>2, Bounds DEF EnvironmentType, Restart
  <2>2. claim' \in BOOLEAN
    BY <1>2, Zenon DEF EnvironmentType, Restart
  <2>3. UNCHANGED <<ack, losses>> /\ service' = new /\ has_target' = FALSE
    BY <1>2 DEF Restart
  <2> QED
    BY <2>1, <2>2, <2>3 DEF EnvironmentType
<1>3. CASE ReceiveClaim
  BY <1>3 DEF EnvironmentType, ReceiveClaim
<1>4. CASE LosePacket
  <2>1. losses' \in 0..MaxLosses
    BY <1>4, Bounds DEF EnvironmentType, LosePacket
  <2>2. UNCHANGED <<service, has_target, restarts>>
    BY <1>4 DEF LosePacket
  <2>3. claim' \in BOOLEAN /\ ack' \in BOOLEAN
    BY <1>4 DEF EnvironmentType, LosePacket
  <2> QED
    BY <2>1, <2>2, <2>3 DEF EnvironmentType
<1>5. CASE ReceiveAdvertisement \/ IoOnServiceDiscovered \/ Start
  BY <1>1, <1>5 DEF ReceiveAdvertisement, IoOnServiceDiscovered, Start
<1>6. ASSUME NEW t \in Threads, InterfaceStep(t) PROVE EnvironmentType'
  BY <1>1, <1>6 DEF InterfaceStep, GetServiceInfo, CompareMetadata,
     RegisterCallbacks, UnregisterCallbacks, MarkServiceDisconnected
<1>7. CASE CheckUnclaimed \/ DropService \/ OnServiceDisconnected
  BY <1>1, <1>7 DEF CheckUnclaimed, DropService, OnServiceDisconnected
<1>8. CASE ClaimService \/ HandleClaimMessage
  BY <1>8 DEF EnvironmentType, ClaimService, HandleClaimMessage
<1>9. CASE CheckTimeout
  <2>1. losses' \in 0..MaxLosses
    BY <1>9, Bounds DEF EnvironmentType, CheckTimeout
  <2>2. UNCHANGED <<service, has_target, claim, ack, restarts>>
    BY <1>9 DEF CheckTimeout
  <2> QED
    BY <2>1, <2>2 DEF EnvironmentType
<1> QED
  BY <1>1, <1>2, <1>3, <1>5, <1>6, <1>7, <1>8, <1>9, <1>4 DEF Next, IoStep, vars

LEMMA MapsTypeStep ==
  EnvironmentType /\ MapsType /\ [Next]_vars => MapsType'
<1> SUFFICES ASSUME EnvironmentType, MapsType, [Next]_vars PROVE MapsType'
  OBVIOUS
<1> USE DEF MapsType
<1>1. ASSUME UNCHANGED <<discovered_services, sd_callbacks, registered_callbacks,
                         endpoint_map, io, flags, told>>
      PROVE  MapsType'
  BY <1>1 DEF flags
<1>2. ASSUME NEW new \in Service, Restart(new) PROVE MapsType'
  BY <1>1, <1>2 DEF Restart
<1>3. CASE ReceiveClaim \/ LosePacket
  BY <1>1, <1>3 DEF ReceiveClaim, LosePacket
<1>4. CASE ReceiveAdvertisement
  BY <1>4 DEF EnvironmentType, ReceiveAdvertisement, flags
<1>5. CASE IoOnServiceDiscovered
  BY <1>5 DEF IoOnServiceDiscovered, EnsureServiceState, flags
<1>6. CASE Start
  BY <1>6 DEF Start, flags
<1>7. ASSUME NEW t \in Threads, InterfaceStep(t) PROVE MapsType'
  <2>1. CASE GetServiceInfo(t)
    BY <1>1, <2>1 DEF GetServiceInfo
  <2>2. CASE CompareMetadata(t)
    BY <2>2 DEF CompareMetadata, OnMatch, OnMismatch
  <2>3. CASE RegisterCallbacks(t)
    BY <2>3 DEF RegisterCallbacks, EnsureServiceState, flags
  <2>4. CASE UnregisterCallbacks(t)
    BY <2>4 DEF UnregisterCallbacks, DropState, flags
  <2>5. CASE MarkServiceDisconnected(t)
    BY <2>5 DEF MarkServiceDisconnected
  <2> QED
    BY <1>7, <2>1, <2>2, <2>3, <2>4, <2>5 DEF InterfaceStep
<1>8. CASE CheckUnclaimed \/ ClaimService
  BY <1>8 DEF CheckUnclaimed, ClaimService, flags
<1>9. CASE CheckTimeout
  BY <1>9 DEF CheckTimeout, flags
<1>10. CASE DropService \/ OnServiceDisconnected
  BY <1>10 DEF DropService, ForgetInDiscovery, OnServiceDisconnected, flags
<1>11. CASE HandleClaimMessage
  BY <1>11 DEF HandleClaimMessage, flags
<1>12. CASE UNCHANGED vars
  BY <1>1, <1>12 DEF vars
<1> QED
  BY <1>2, <1>3, <1>4, <1>5, <1>6, <1>7, <1>8, <1>9, <1>10, <1>11, <1>12
  DEF Next, IoStep

\* A thread moves to a step in which it need not hold a description.
LEMMA GotoType ==
  ASSUME ThreadsType, UNCHANGED info, NEW t \in Threads,
         NEW step \in {"idle", "io", "io_only", "notified", "register",
                       "unregister", "mark"},
         step \in {"io", "io_only"} => t = "sd",
         Goto(t, step)
  PROVE  ThreadsType'
  BY DEF ThreadsType, Goto, Threads

LEMMA ThreadsTypeStep ==
  EnvironmentType /\ MapsType /\ ThreadsType /\ [Next]_vars => ThreadsType'
<1> SUFFICES ASSUME EnvironmentType, MapsType, ThreadsType, [Next]_vars
             PROVE  ThreadsType'
  OBVIOUS
<1>1. ASSUME UNCHANGED <<at, info>> PROVE ThreadsType'
  BY <1>1 DEF ThreadsType
<1>2. ASSUME NEW new \in Service, Restart(new) PROVE ThreadsType'
  BY <1>1, <1>2 DEF Restart
<1>3. CASE ReceiveClaim \/ LosePacket
  BY <1>1, <1>3 DEF ReceiveClaim, LosePacket
<1>4. CASE ReceiveAdvertisement \/ IoOnServiceDiscovered
  <2>1. "sd" \in Threads
    BY DEF Threads
  <2>2. UNCHANGED info
    BY <1>4 DEF ReceiveAdvertisement, IoOnServiceDiscovered
  <2>3. UNCHANGED at \/ \E step \in {"io", "io_only", "notified", "idle"} : Goto("sd", step)
    BY <1>4 DEF ReceiveAdvertisement, IoOnServiceDiscovered
  <2> QED
    BY <1>1, <2>1, <2>2, <2>3, GotoType
<1>5. CASE Start
  <2>1. "user" \in Threads
    BY DEF Threads
  <2>2. UNCHANGED info /\ \E step \in {"notified", "idle"} : Goto("user", step)
    BY <1>5 DEF Start, ReportKnown
  <2> QED
    BY <2>1, <2>2, GotoType
<1>6. ASSUME NEW t \in Threads, InterfaceStep(t) PROVE ThreadsType'
  <2>1. CASE GetServiceInfo(t) /\ discovered_services # Nothing
    <3>1. discovered_services.desc \in Descriptions \ {Nothing}
      BY <2>1, ConnectionAssumption DEF MapsType, Service
    <3>2. Goto(t, "read") /\ info' = [info EXCEPT ![t] = discovered_services.desc]
      BY <2>1 DEF GetServiceInfo
    <3> QED
      BY <3>1, <3>2 DEF ThreadsType, Goto, Threads
  <2>2. CASE ~(GetServiceInfo(t) /\ discovered_services # Nothing)
    <3>1. /\ UNCHANGED info
          /\ \E step \in {"idle", "register", "unregister", "mark"} : Goto(t, step)
      BY <1>6, <2>2 DEF InterfaceStep, GetServiceInfo, CompareMetadata, OnMatch,
         OnMismatch, RegisterCallbacks, UnregisterCallbacks, MarkServiceDisconnected
    <3> QED
      BY <3>1, GotoType
  <2> QED
    BY <2>1, <2>2
<1>7. CASE IoStep \/ HandleClaimMessage \/ UNCHANGED vars
  BY <1>1, <1>7 DEF IoStep, CheckUnclaimed, ClaimService, CheckTimeout, DropService,
     OnServiceDisconnected, HandleClaimMessage, vars
<1> QED
  BY <1>2, <1>3, <1>4, <1>5, <1>6, <1>7 DEF Next

LEMMA NextType == TypeOK /\ [Next]_vars => TypeOK'
  BY EnvironmentTypeStep, MapsTypeStep, ThreadsTypeStep DEF TypeOK

LEMMA InitType == Init => TypeOK
<1> SUFFICES ASSUME Init PROVE TypeOK
  OBVIOUS
<1>1. EnvironmentType
  <2>1. restarts \in 0..MaxRestarts /\ losses \in 0..MaxLosses
    BY Bounds DEF Init
  <2> QED
    BY <2>1 DEF Init, EnvironmentType
<1>2. MapsType
  BY ConnectionAssumption DEF Init, MapsType
<1>3. ThreadsType
  BY DEF Init, ThreadsType, Threads
<1> QED
  BY <1>1, <1>2, <1>3 DEF TypeOK

(***************************************************************************)
(* The entries of both maps, the interface's flags and the steps of the    *)
(* three threads keep their types; a thread that has read a service's      *)
(* description holds one (GetServiceInfo's null check).                    *)
(***************************************************************************)
THEOREM TypeCorrect == Spec => []TypeOK
<1> QED
  BY InitType, NextType, PTL DEF Spec

----------------------------------------------------------------------------
(* The inductive invariant.                                                *)

LEMMA InitIInv == Init => IInv
<1> QED
  BY InitType DEF Init, IInv, StateHasInterest, LostIsNotClaimed, DataOnlyWhenConnected

LEMMA NextIInv == IInv /\ [Next]_vars => IInv'
<1> SUFFICES ASSUME IInv, [Next]_vars PROVE IInv'
  OBVIOUS
<1>1. TypeOK'
  BY NextType DEF IInv
<1> USE DEF StateHasInterest, LostIsNotClaimed, DataOnlyWhenConnected
<1>2. ASSUME UNCHANGED <<registered_callbacks, endpoint_map, io, told>> PROVE IInv'
  BY <1>1, <1>2 DEF IInv
<1>3. ASSUME NEW new \in Service, Restart(new) PROVE IInv'
  BY <1>2, <1>3 DEF Restart
<1>4. CASE ReceiveClaim \/ LosePacket \/ ReceiveAdvertisement \/ Start
  BY <1>2, <1>4 DEF ReceiveClaim, LosePacket, ReceiveAdvertisement, Start
<1>5. CASE IoOnServiceDiscovered
  BY <1>1, <1>5 DEF IInv, IoOnServiceDiscovered, EnsureServiceState
<1>6. ASSUME NEW t \in Threads, InterfaceStep(t) PROVE IInv'
  <2>1. CASE GetServiceInfo(t) \/ CompareMetadata(t) \/ MarkServiceDisconnected(t)
    BY <1>2, <2>1 DEF GetServiceInfo, CompareMetadata, MarkServiceDisconnected
  <2>2. CASE RegisterCallbacks(t)
    BY <1>1, <2>2 DEF IInv, RegisterCallbacks, EnsureServiceState
  <2>3. CASE UnregisterCallbacks(t)
    BY <1>1, <2>3 DEF IInv, UnregisterCallbacks, DropState
  <2> QED
    BY <1>6, <2>1, <2>2, <2>3 DEF InterfaceStep
<1>7. CASE IoStep
  <2>1. CASE CheckUnclaimed
    BY <1>1, <2>1 DEF IInv, CheckUnclaimed
  <2>2. CASE ClaimService
    BY <1>1, <2>2 DEF IInv, ClaimService
  <2>3. CASE CheckTimeout
    BY <1>1, <2>3 DEF IInv, CheckTimeout
  <2>4. CASE DropService
    BY <1>1, <2>4 DEF IInv, DropService
  <2>5. CASE OnServiceDisconnected
    BY <1>1, <2>5 DEF IInv, OnServiceDisconnected
  <2> QED
    BY <1>7, <2>1, <2>2, <2>3, <2>4, <2>5 DEF IoStep
<1>8. CASE HandleClaimMessage
  BY <1>1, <1>8 DEF IInv, HandleClaimMessage
<1>9. CASE UNCHANGED vars
  BY <1>2, <1>9 DEF vars
<1> QED
  BY <1>3, <1>4, <1>5, <1>6, <1>7, <1>8, <1>9 DEF Next

LEMMA Invariance == Spec => []IInv
<1> QED
  BY InitIInv, NextIInv, PTL DEF Spec

(***************************************************************************)
(* RunIo claims a service only for an interface that is registered for it, *)
(* whatever the discovery and user threads do at the same time.            *)
(***************************************************************************)
THEOREM StateHasInterestHolds == Spec => []StateHasInterest
<1> QED
  BY Invariance, PTL DEF IInv

(***************************************************************************)
(* OnData is called only between OnServiceConnected and                    *)
(* OnServiceDisconnected, as ServiceIO.hpp promises.                       *)
(***************************************************************************)
THEOREM DataOnlyWhenConnectedHolds == Spec => []DataOnlyWhenConnected
<1> QED
  BY Invariance, PTL DEF IInv
----------------------------------------------------------------------------
(***************************************************************************)
(* What the two threads in OnServiceDiscovered agree upon.  Only the       *)
(* discovery thread learns of a service, so the description it works with  *)
(* is the one that is known; that of the user thread is as well, and the   *)
(* two are equal, unless Start() was overtaken.  Then the first thread in  *)
(* the section under state_mutex_ decides for both.                        *)
(***************************************************************************)
Working(t) == at[t] \in {"read", "register", "unregister", "mark"}

\* Thread t will look at what is known, or has just done so.
Pending(t) == at[t] \in {"io", "notified", "read"}

Decided == sd_callbacks /\ discovered_services # Nothing /\ \A t \in Threads : ~Pending(t)

KnowsLatest(t) ==
  Working(t) /\ discovered_services # Nothing => discovered_services.desc = info[t]

NothingBeforeStart ==
  ~sd_callbacks => /\ at["user"] = "idle" /\ at["sd"] \in {"idle", "io_only"}
                   /\ ~io_callbacks_registered /\ ~registered_callbacks

\* The call a thread is about to make fits the flag and is not made yet.
CallFits(t) ==
  /\ at[t] = "register" =>
       info[t] = Compatible /\ io_callbacks_registered /\ ~registered_callbacks
  /\ at[t] = "unregister" =>
       info[t] # Compatible /\ ~io_callbacks_registered /\ registered_callbacks
  /\ at[t] = "mark" =>
       info[t] # Compatible /\ ~io_callbacks_registered /\ ~registered_callbacks

Together ==
  /\ Working("sd") /\ Working("user") => info["sd"] = info["user"]
  /\ at["sd"] = at["user"] => at["sd"] \notin {"register", "unregister"}
  /\ registered_callbacks # io_callbacks_registered =>
       \E t \in Threads : at[t] \in {"register", "unregister"}

FlagDecided == Decided => io_callbacks_registered = (discovered_services.desc = Compatible)

Agreement ==
  /\ KnowsLatest("user") /\ (\A t \in Threads : CallFits(t)) /\ Together /\ FlagDecided

AgreeInv ==
  /\ TypeOK /\ overtaken \in BOOLEAN
  /\ NothingBeforeStart /\ KnowsLatest("sd")
  /\ ~overtaken => Agreement

\* What the types say of the variables the threads share.
LEMMA SharedTypes ==
  ASSUME TypeOK
  PROVE  /\ sd_callbacks \in BOOLEAN /\ registered_callbacks \in BOOLEAN
         /\ io_callbacks_registered \in BOOLEAN /\ service_discovered \in BOOLEAN
         /\ at \in [Threads -> {"idle", "io", "io_only", "notified", "read",
                                "register", "unregister", "mark"}]
         /\ info \in [Threads -> Descriptions \cup {Nothing}]
         /\ at["user"] \notin {"io", "io_only"}
         /\ Threads = {"sd", "user"}
BY DEF TypeOK, MapsType, ThreadsType, Threads

\* What the threads share but for where they are.
shared == <<discovered_services, sd_callbacks, registered_callbacks, info,
            io_callbacks_registered>>

LEMMA NotOvertaken ==
  ASSUME AgreeInv, MCNext, ~overtaken'
  PROVE  /\ Agreement
         /\ at["user"] \notin {"idle", "notified"} /\ discovered_services' # Nothing =>
              discovered_services'.desc = info["user"]
BY DEF AgreeInv, MCNext

LEMMA AgreeIdle ==
  ASSUME AgreeInv, TypeOK', overtaken' \in BOOLEAN, overtaken => overtaken',
         UNCHANGED shared, UNCHANGED at
  PROVE  AgreeInv'
BY DEF AgreeInv, NothingBeforeStart, KnowsLatest, Agreement, CallFits, Together, FlagDecided,
       Decided, Working, Pending, shared

LEMMA AgreeDrop == ASSUME AgreeInv, MCNext, TypeOK', DropService PROVE AgreeInv'
<1>1. /\ discovered_services' = Nothing
      /\ UNCHANGED <<sd_callbacks, registered_callbacks, at, info, io_callbacks_registered>>
  BY DEF DropService, ForgetInDiscovery, flags
<1>2. overtaken' \in BOOLEAN /\ (overtaken => overtaken')
  BY DEF MCNext, AgreeInv
<1>3. QED
  BY <1>1, <1>2
  DEF AgreeInv, NothingBeforeStart, KnowsLatest, Agreement, CallFits, Together, FlagDecided,
      Decided, Working, Pending

LEMMA AgreeAdvertisement ==
  ASSUME AgreeInv, MCNext, TypeOK', ReceiveAdvertisement
  PROVE  AgreeInv'
<1>1. /\ at["sd"] = "idle" /\ discovered_services' = service
      /\ UNCHANGED <<sd_callbacks, registered_callbacks, info, io_callbacks_registered>>
  BY DEF ReceiveAdvertisement, flags
<1>2. overtaken' \in BOOLEAN /\ (overtaken => overtaken')
  BY DEF MCNext, AgreeInv
<1>3. service # Nothing
  BY ConnectionAssumption DEF AgreeInv, TypeOK, EnvironmentType
<1>4. /\ at'["user"] = at["user"]
      /\ \/ /\ at' = at /\ discovered_services # Nothing
            /\ discovered_services.desc = discovered_services'.desc
         \/ at'["sd"] = IF sd_callbacks THEN "io" ELSE "io_only"
  <2>1. at \in [Threads -> {"idle", "io", "io_only", "notified", "read",
                            "register", "unregister", "mark"}] /\ Threads = {"sd", "user"}
    BY SharedTypes DEF AgreeInv
  <2>2. QED
    BY <1>1, <2>1 DEF ReceiveAdvertisement, Goto
<1>5. at'["sd"] \in {"idle", "io", "io_only"}
  BY <1>1, <1>4
<1>6. NothingBeforeStart' /\ KnowsLatest("sd")'
  BY <1>1, <1>4, <1>5 DEF AgreeInv, NothingBeforeStart, KnowsLatest, Working
<1>7. ASSUME ~overtaken' PROVE Agreement'
  <2>1. Agreement /\ (Working("user") => discovered_services'.desc = info["user"])
    BY <1>1, <1>3, <1>7, NotOvertaken DEF Working
  <2>2. KnowsLatest("user")'
    BY <1>1, <1>4, <2>1 DEF KnowsLatest, Working
  <2>3. \A t \in Threads : CallFits(t)'
    BY <1>1, <1>4, <1>5, <2>1 DEF Agreement, CallFits, Threads
  <2>4. Together'
    BY <1>1, <1>4, <1>5, <2>1 DEF Agreement, Together, Working, Threads
  <2>5. FlagDecided'
    BY <1>1, <1>4, <2>1 DEF Agreement, FlagDecided, Decided, Pending, Threads
  <2>6. QED
    BY <2>2, <2>3, <2>4, <2>5 DEF Agreement
<1>8. QED
  BY <1>2, <1>6, <1>7 DEF AgreeInv

\* The discovery thread between its own step and those of the interface.
LEMMA AgreeReport ==
  ASSUME AgreeInv, MCNext, TypeOK', IoOnServiceDiscovered \/ Start
  PROVE  AgreeInv'
<1>1. /\ UNCHANGED <<discovered_services, registered_callbacks, info, io_callbacks_registered>>
      /\ overtaken' \in BOOLEAN /\ (overtaken => overtaken')
  BY DEF IoOnServiceDiscovered, Start, flags, MCNext, AgreeInv
<1>2. at \in [Threads -> {"idle", "io", "io_only", "notified", "read",
                          "register", "unregister", "mark"}] /\ Threads = {"sd", "user"}
      /\ sd_callbacks \in BOOLEAN
  BY SharedTypes DEF AgreeInv
<1>3. CASE IoOnServiceDiscovered
  <2>1. /\ UNCHANGED sd_callbacks /\ at["sd"] \in {"io", "io_only"} /\ at'["user"] = at["user"]
        /\ at'["sd"] = IF at["sd"] = "io" THEN "notified" ELSE "idle"
    BY <1>2, <1>3 DEF IoOnServiceDiscovered, Goto
  <2>2. NothingBeforeStart' /\ KnowsLatest("sd")'
    BY <1>1, <2>1 DEF AgreeInv, NothingBeforeStart, KnowsLatest, Working
  <2>3. ASSUME Agreement PROVE Agreement'
    <3>1. KnowsLatest("user")' /\ \A t \in Threads : CallFits(t)'
      BY <1>1, <1>2, <2>1, <2>3 DEF Agreement, KnowsLatest, CallFits, Working
    <3>2. Together'
      BY <1>1, <1>2, <2>1, <2>3 DEF Agreement, Together, Working
    <3>3. FlagDecided'
      BY <1>1, <1>2, <2>1, <2>3 DEF AgreeInv, NothingBeforeStart, Agreement, FlagDecided, Decided,
         Pending
    <3>4. QED
      BY <3>1, <3>2, <3>3 DEF Agreement
  <2>4. QED
    BY <1>1, <2>2, <2>3 DEF AgreeInv
<1>4. CASE Start
  <2>1. /\ ~sd_callbacks /\ sd_callbacks' /\ at'["sd"] = at["sd"]
        /\ at'["user"] = IF discovered_services # Nothing THEN "notified" ELSE "idle"
    BY <1>2, <1>4 DEF Start, ReportKnown, Goto
  <2>2. NothingBeforeStart' /\ KnowsLatest("sd")'
    BY <1>1, <2>1 DEF AgreeInv, NothingBeforeStart, KnowsLatest, Working
  <2>3. ASSUME Agreement PROVE Agreement'
    <3>1. at["user"] = "idle" /\ at["sd"] \in {"idle", "io_only"}
      BY <2>1 DEF AgreeInv, NothingBeforeStart
    <3>2. KnowsLatest("user")' /\ \A t \in Threads : CallFits(t)'
      BY <1>2, <2>1, <3>1 DEF KnowsLatest, CallFits, Working
    <3>3. Together'
      BY <1>1, <1>2, <2>1, <2>3, <3>1 DEF Agreement, Together, Working
    <3>4. FlagDecided'
      BY <1>1, <1>2, <2>1, <3>1 DEF FlagDecided, Decided, Pending
    <3>5. QED
      BY <3>2, <3>3, <3>4 DEF Agreement
  <2>4. QED
    BY <1>1, <2>2, <2>3 DEF AgreeInv
<1>5. QED
  BY <1>3, <1>4
\* A thread goes on, and the other one stays where it is.
LEMMA OneMoves ==
  ASSUME TypeOK, NEW t \in Threads, NEW step, Goto(t, step)
  PROVE  at'[t] = step /\ \A u \in Threads \ {t} : at'[u] = at[u]
BY SharedTypes DEF Goto

LEMMA AgreeRead ==
  ASSUME AgreeInv, MCNext, TypeOK', NEW t \in Threads, GetServiceInfo(t)
  PROVE  AgreeInv'
<1>1. /\ UNCHANGED <<discovered_services, sd_callbacks, registered_callbacks,
                     io_callbacks_registered>>
      /\ overtaken' \in BOOLEAN /\ (overtaken => overtaken')
      /\ at[t] = "notified"
  BY DEF GetServiceInfo, flags, MCNext, AgreeInv
<1>2. TypeOK /\ Threads = {"sd", "user"} /\ info \in [Threads -> Descriptions \cup {Nothing}]
  BY SharedTypes DEF AgreeInv
<1>3. sd_callbacks
  BY <1>1, <1>2 DEF AgreeInv, NothingBeforeStart
<1>4. CASE discovered_services = Nothing
  <2>1. at'[t] = "idle" /\ info' = info /\ \A u \in Threads \ {t} : at'[u] = at[u]
    BY <1>2, <1>4, OneMoves DEF GetServiceInfo
  <2>2. KnowsLatest("sd")'
    BY <1>1, <1>4 DEF KnowsLatest
  <2>3. ASSUME Agreement PROVE Agreement'
    <3>1. KnowsLatest("user")' /\ FlagDecided'
      BY <1>1, <1>4 DEF KnowsLatest, FlagDecided, Decided
    <3>2. \A u \in Threads : CallFits(u)'
      BY <1>1, <2>1, <2>3 DEF Agreement, CallFits
    <3>3. Together'
      BY <1>1, <1>2, <2>1, <2>3 DEF Agreement, Together, Working
    <3>4. QED
      BY <3>1, <3>2, <3>3 DEF Agreement
  <2>4. QED
    BY <1>1, <1>3, <2>2, <2>3 DEF AgreeInv, NothingBeforeStart
<1>5. CASE discovered_services # Nothing
  <2>1. /\ at'[t] = "read" /\ info'[t] = discovered_services.desc
        /\ \A u \in Threads \ {t} : at'[u] = at[u] /\ info'[u] = info[u]
    BY <1>2, <1>5, OneMoves DEF GetServiceInfo
  <2>2. KnowsLatest("sd")'
    BY <1>1, <1>2, <2>1 DEF AgreeInv, KnowsLatest, Working
  <2>3. ASSUME Agreement PROVE Agreement'
    <3>1. KnowsLatest("user")'
      BY <1>1, <1>2, <2>1, <2>3 DEF Agreement, KnowsLatest, Working
    <3>2. FlagDecided'
      BY <2>1 DEF FlagDecided, Decided, Pending
    <3>3. \A u \in Threads : CallFits(u)'
      BY <1>1, <2>1, <2>3 DEF Agreement, CallFits
    <3>4. Together'
      <4>1. Working("sd")' /\ Working("user")' => info'["sd"] = info'["user"]
        BY <1>1, <1>2, <1>5, <2>1, <2>3 DEF AgreeInv, Agreement, KnowsLatest, Working
      <4>2. QED
        BY <1>1, <1>2, <2>1, <2>3, <4>1 DEF Agreement, Together
    <3>5. QED
      BY <3>1, <3>2, <3>3, <3>4 DEF Agreement
  <2>4. QED
    BY <1>1, <1>3, <2>2, <2>3 DEF AgreeInv, NothingBeforeStart
<1>6. QED
  BY <1>4, <1>5

LEMMA AgreeCompare ==
  ASSUME AgreeInv, MCNext, TypeOK', NEW t \in Threads, CompareMetadata(t)
  PROVE  AgreeInv'
<1>1. /\ UNCHANGED <<discovered_services, sd_callbacks, registered_callbacks, info>>
      /\ overtaken' \in BOOLEAN /\ (overtaken => overtaken')
      /\ at[t] = "read"
  BY DEF CompareMetadata, MCNext, AgreeInv
<1>2. TypeOK /\ Threads = {"sd", "user"}
      /\ registered_callbacks \in BOOLEAN /\ io_callbacks_registered \in BOOLEAN
  BY SharedTypes DEF AgreeInv
<1>3. sd_callbacks
  BY <1>1, <1>2 DEF AgreeInv, NothingBeforeStart
<1>4. /\ io_callbacks_registered' = (info[t] = Compatible)
      /\ at'[t] = IF info[t] = Compatible
                    THEN IF io_callbacks_registered THEN "idle" ELSE "register"
                    ELSE IF io_callbacks_registered THEN "unregister" ELSE "idle"
      /\ \A u \in Threads \ {t} : at'[u] = at[u]
  <2>1. CASE info[t] = Compatible
    BY <1>2, <2>1, OneMoves DEF CompareMetadata, OnMatch
  <2>2. CASE info[t] # Compatible
    BY <1>2, <2>2, OneMoves DEF CompareMetadata, OnMismatch
  <2>3. QED
    BY <2>1, <2>2
<1>5. KnowsLatest("sd")'
  BY <1>1, <1>2, <1>4 DEF AgreeInv, KnowsLatest, Working
<1>6. ASSUME Agreement PROVE Agreement'
  <2>1. KnowsLatest("user")'
    BY <1>1, <1>2, <1>4, <1>6 DEF Agreement, KnowsLatest, Working
  <2>2. \A u \in Threads \ {t} : Working(u) => info[u] = info[t]
    BY <1>1, <1>2, <1>6 DEF Agreement, Together, Working
  <2>3. /\ io_callbacks_registered => ~\E u \in Threads : at[u] \in {"unregister", "mark"}
        /\ ~io_callbacks_registered => ~\E u \in Threads : at[u] = "register"
    BY <1>6 DEF Agreement, CallFits
  <2>4. \/ registered_callbacks = io_callbacks_registered
        \/ \E u \in Threads \ {t} : at[u] \in {"register", "unregister"}
    BY <1>1, <1>6 DEF Agreement, Together
  <2>5. CallFits(t)'
    <3>1. CASE \E u \in Threads \ {t} : at[u] \in {"register", "unregister"}
      BY <1>1, <1>4, <1>6, <2>2, <3>1 DEF Agreement, CallFits, Working
    <3>2. CASE registered_callbacks = io_callbacks_registered
      BY <1>1, <1>2, <1>4, <3>2 DEF CallFits
    <3>3. QED
      BY <2>4, <3>1, <3>2
  <2>6. ASSUME NEW u \in Threads \ {t} PROVE CallFits(u)'
    BY <1>1, <1>4, <1>6, <2>2 DEF Agreement, CallFits, Working
  <2>7. Together'
    <3>1. Working("sd")' /\ Working("user")' => info'["sd"] = info'["user"]
      BY <1>1, <1>2, <1>4, <1>6 DEF Agreement, Together, Working
    <3>2. at'["sd"] = at'["user"] => at'["sd"] \notin {"register", "unregister"}
      BY <1>1, <1>2, <1>4, <1>6, <2>2 DEF Agreement, CallFits, Working
    <3>3. registered_callbacks' # io_callbacks_registered' =>
            \E u \in Threads : at'[u] \in {"register", "unregister"}
      <4>1. CASE \E u \in Threads \ {t} : at[u] \in {"register", "unregister"}
        BY <1>4, <4>1
      <4>2. CASE registered_callbacks = io_callbacks_registered
        BY <1>1, <1>2, <1>4, <4>2
      <4>3. QED
        BY <2>4, <4>1, <4>2
    <3>4. QED
      BY <3>1, <3>2, <3>3 DEF Together
  <2>8. FlagDecided'
    <3>1. discovered_services # Nothing => discovered_services.desc = info[t]
      BY <1>1, <1>2, <1>6 DEF AgreeInv, Agreement, KnowsLatest, Working
    <3>2. QED
      BY <1>1, <1>4, <3>1 DEF FlagDecided, Decided
  <2>9. QED
    BY <2>1, <2>5, <2>6, <2>7, <2>8 DEF Agreement
<1>7. QED
  BY <1>1, <1>3, <1>5, <1>6 DEF AgreeInv, NothingBeforeStart
\* The three calls after the section: RegisterCallbacks, UnregisterCallbacks,
\* MarkServiceDisconnected.
LEMMA AgreeCall ==
  ASSUME AgreeInv, MCNext, TypeOK', NEW t \in Threads,
         RegisterCallbacks(t) \/ UnregisterCallbacks(t) \/ MarkServiceDisconnected(t)
  PROVE  AgreeInv'
<1>1. /\ UNCHANGED <<discovered_services, sd_callbacks, info, io_callbacks_registered>>
      /\ overtaken' \in BOOLEAN /\ (overtaken => overtaken')
      /\ at[t] \in {"register", "unregister", "mark"}
  BY DEF RegisterCallbacks, UnregisterCallbacks, MarkServiceDisconnected, flags, MCNext, AgreeInv
<1>2. TypeOK /\ Threads = {"sd", "user"}
      /\ registered_callbacks \in BOOLEAN /\ io_callbacks_registered \in BOOLEAN
  BY SharedTypes DEF AgreeInv
<1>3. sd_callbacks
  BY <1>1, <1>2 DEF AgreeInv, NothingBeforeStart
<1>4. /\ at'[t] = IF at[t] = "unregister" THEN "mark" ELSE "idle"
      /\ registered_callbacks' = IF at[t] = "register" THEN TRUE
                                 ELSE IF at[t] = "unregister" THEN FALSE
                                 ELSE registered_callbacks
      /\ \A u \in Threads \ {t} : at'[u] = at[u]
  BY <1>2, OneMoves DEF RegisterCallbacks, UnregisterCallbacks, MarkServiceDisconnected
<1>5. KnowsLatest("sd")'
  BY <1>1, <1>2, <1>4 DEF AgreeInv, KnowsLatest, Working
<1>6. ASSUME Agreement PROVE Agreement'
  <2>1. KnowsLatest("user")'
    BY <1>1, <1>2, <1>4, <1>6 DEF Agreement, KnowsLatest, Working
  <2>2. ASSUME NEW u \in Threads \ {t}
        PROVE  /\ ~(at[t] \in {"register", "unregister"} /\ at[u] \in {"register", "unregister"})
               /\ ~(at[t] = "register" /\ at[u] = "mark")
    BY <1>2, <1>6 DEF Agreement, CallFits, Together
  <2>3. CallFits(t)'
    BY <1>1, <1>4, <1>6 DEF Agreement, CallFits
  <2>4. ASSUME NEW u \in Threads \ {t} PROVE CallFits(u)'
    BY <1>1, <1>4, <1>6, <2>2 DEF Agreement, CallFits
  <2>5. Together'
    <3>1. Working("sd")' /\ Working("user")' => info'["sd"] = info'["user"]
      BY <1>1, <1>2, <1>4, <1>6 DEF Agreement, Together, Working
    <3>2. at'["sd"] = at'["user"] => at'["sd"] \notin {"register", "unregister"}
      BY <1>2, <1>4
    <3>3. registered_callbacks' # io_callbacks_registered' =>
            \E u \in Threads : at'[u] \in {"register", "unregister"}
      <4>1. CallFits(t)
        BY <1>6 DEF Agreement
      <4>2. registered_callbacks' = io_callbacks_registered'
        BY <1>1, <1>2, <1>4, <4>1 DEF CallFits
      <4>3. QED
        BY <4>2
    <3>4. QED
      BY <3>1, <3>2, <3>3 DEF Together
  <2>6. FlagDecided'
    BY <1>1, <1>2, <1>4, <1>6 DEF Agreement, FlagDecided, Decided, Pending
  <2>7. QED
    BY <2>1, <2>3, <2>4, <2>5, <2>6 DEF Agreement
<1>7. QED
  BY <1>1, <1>3, <1>5, <1>6 DEF AgreeInv, NothingBeforeStart

LEMMA AgreeInit == MCInit => AgreeInv
<1> SUFFICES ASSUME MCInit PROVE AgreeInv
  OBVIOUS
<1>1. TypeOK /\ overtaken = FALSE
  BY InitType DEF MCInit
<1>2. QED
  BY <1>1
  DEF MCInit, Init, AgreeInv, NothingBeforeStart, KnowsLatest, Agreement, CallFits, Together,
      FlagDecided, Decided, Working, Threads

LEMMA AgreeNext == AgreeInv /\ [MCNext]_<<vars, overtaken>> => AgreeInv'
<1> SUFFICES ASSUME AgreeInv, [MCNext]_<<vars, overtaken>> PROVE AgreeInv'
  OBVIOUS
<1>1. CASE UNCHANGED <<vars, overtaken>>
  <2>1. TypeOK'
    BY <1>1, NextType DEF AgreeInv
  <2>2. QED
    BY <1>1, <2>1, AgreeIdle DEF AgreeInv, vars, shared, flags
<1>2. CASE MCNext
  <2>1. /\ TypeOK' /\ overtaken' \in BOOLEAN /\ (overtaken => overtaken')
        /\ Next
    BY <1>2, NextType DEF MCNext, AgreeInv
  <2>2. ASSUME UNCHANGED shared, UNCHANGED at PROVE AgreeInv'
    BY <2>1, <2>2, AgreeIdle
  <2>3. ASSUME NEW new \in Service, Restart(new) PROVE AgreeInv'
    BY <2>2, <2>3 DEF Restart, shared, flags
  <2>4. CASE ReceiveClaim \/ LosePacket \/ HandleClaimMessage
    BY <2>2, <2>4 DEF ReceiveClaim, LosePacket, HandleClaimMessage, shared, flags
  <2>5. CASE IoStep
    <3>1. CASE DropService
      BY <1>2, <2>1, <3>1, AgreeDrop
    <3>2. CASE CheckUnclaimed \/ ClaimService \/ CheckTimeout \/ OnServiceDisconnected
      BY <2>2, <3>2 DEF CheckUnclaimed, ClaimService, CheckTimeout, OnServiceDisconnected, shared,
         flags
    <3>3. QED
      BY <2>5, <3>1, <3>2 DEF IoStep
  <2>6. ASSUME NEW t \in Threads, InterfaceStep(t) PROVE AgreeInv'
    BY <1>2, <2>1, <2>6, AgreeRead, AgreeCompare, AgreeCall DEF InterfaceStep
  <2>7. QED
    BY <1>2, <2>1, <2>3, <2>4, <2>5, <2>6, AgreeAdvertisement, AgreeReport DEF Next
<1>3. QED
  BY <1>1, <1>2

LEMMA AgreeInvariance == MCSpec => []AgreeInv
BY AgreeInit, AgreeNext, PTL DEF MCSpec

(***************************************************************************)
(* When the threads are done, ServiceIO serves the interface exactly if    *)
(* the service that is known is the one it was made for, unless Start()    *)
(* was overtaken: with or without quick rediscovery, whatever the order in *)
(* which the discovery, user and IO threads take their locks.              *)
(***************************************************************************)
THEOREM MatchesUnlessOvertakenHolds == MCSpec => []MatchesUnlessOvertaken
<1>1. AgreeInv => MatchesUnlessOvertaken
  <2> SUFFICES ASSUME AgreeInv, ~overtaken, Settled PROVE InterfaceMatches
    BY DEF MatchesUnlessOvertaken, InterfaceMatches
  <2>1. \A t \in Threads : at[t] = "idle"
    BY DEF Settled
  <2>2. registered_callbacks = io_callbacks_registered
    BY <2>1 DEF AgreeInv, Agreement, Together
  <2>3. QED
    BY <2>1, <2>2 DEF InterfaceMatches, AgreeInv, Agreement, FlagDecided, Decided, Pending
<1>2. QED
  BY <1>1, AgreeInvariance, PTL

----------------------------------------------------------------------------
(***************************************************************************)
(* The flag service_discovered_.  A loss is reported (disconnect) after    *)
(* the service was dropped; unless it is found again in between, the flag  *)
(* is only cleared while nothing is known.                                 *)
(***************************************************************************)
DroppedWhenReported == io = "disconnect" => discovered_services = Nothing

FlagSet == Decided /\ discovered_services.desc = Compatible => service_discovered

UsableInv == AgreeInv /\ DroppedWhenReported /\ (~overtaken => FlagSet)

LEMMA UsableNext ==
  ASSUME ~QuickRediscovery
  PROVE  UsableInv /\ AgreeInv' /\ [MCNext]_<<vars, overtaken>> => UsableInv'
<1> SUFFICES ASSUME UsableInv, AgreeInv', [MCNext]_<<vars, overtaken>> PROVE UsableInv'
  OBVIOUS
<1>1. overtaken => overtaken'
  BY DEF MCNext
<1>2. ASSUME UNCHANGED <<discovered_services, sd_callbacks, at, service_discovered>>,
             io' = "disconnect" => io = "disconnect"
      PROVE  UsableInv'
  BY <1>1, <1>2 DEF UsableInv, DroppedWhenReported, FlagSet, Decided, Pending
<1>3. ASSUME NEW new \in Service, Restart(new) PROVE UsableInv'
  BY <1>2, <1>3 DEF Restart, flags
<1>4. CASE ReceiveClaim \/ LosePacket \/ HandleClaimMessage \/ UNCHANGED <<vars, overtaken>>
  BY <1>2, <1>4 DEF ReceiveClaim, LosePacket, HandleClaimMessage, flags, vars
<1>5. CASE IoStep
  <2>1. CASE CheckUnclaimed \/ ClaimService \/ CheckTimeout
    BY <1>2, <2>1 DEF CheckUnclaimed, ClaimService, CheckTimeout, flags
  <2>2. CASE DropService \/ OnServiceDisconnected
    <3>1. discovered_services' = Nothing
      BY <2>2 DEF DropService, ForgetInDiscovery, OnServiceDisconnected, UsableInv,
         DroppedWhenReported
    <3>2. QED
      BY <3>1 DEF UsableInv, DroppedWhenReported, FlagSet, Decided
  <2>3. QED
    BY <1>5, <2>1, <2>2 DEF IoStep
<1>6. CASE ReceiveAdvertisement
  <2>1. /\ io # "disconnect" /\ io' = io /\ UNCHANGED <<sd_callbacks, service_discovered>>
        /\ at["sd"] = "idle" /\ discovered_services' = service
    BY <1>6 DEF ReceiveAdvertisement, flags
  <2>2. \/ /\ at' = at /\ discovered_services # Nothing
           /\ discovered_services.desc = discovered_services'.desc
        \/ at'["sd"] = (IF sd_callbacks THEN "io" ELSE "io_only")
    BY <1>6, SharedTypes DEF ReceiveAdvertisement, Goto, UsableInv, AgreeInv
  <2>3. FlagSet => FlagSet'
    BY <2>1, <2>2 DEF FlagSet, Decided, Pending, Threads
  <2>4. QED
    BY <1>1, <2>1, <2>3 DEF UsableInv, DroppedWhenReported
<1>7. CASE IoOnServiceDiscovered \/ Start
  <2>1. UNCHANGED <<discovered_services, io, service_discovered>>
    BY <1>7 DEF IoOnServiceDiscovered, Start, flags
  <2>2. FlagSet => FlagSet'
    <3>1. /\ at \in [Threads -> {"idle", "io", "io_only", "notified", "read",
                                 "register", "unregister", "mark"}] /\ Threads = {"sd", "user"}
      BY SharedTypes DEF UsableInv, AgreeInv
    <3>2. CASE IoOnServiceDiscovered
      <4>1. at["sd"] = "io" => at'["sd"] = "notified"
        BY <3>1, <3>2 DEF IoOnServiceDiscovered, Goto
      <4>2. sd_callbacks' = sd_callbacks /\ at["sd"] \in {"io", "io_only"} /\ at'["user"] = at["user"]
        BY <3>1, <3>2 DEF IoOnServiceDiscovered, Goto
      <4>3. QED
        BY <2>1, <3>1, <4>1, <4>2 DEF FlagSet, Decided, Pending
    <3>3. CASE Start
      <4>1. discovered_services # Nothing => at'["user"] = "notified"
        BY <3>1, <3>3 DEF Start, ReportKnown, Goto
      <4>2. QED
        BY <2>1, <3>1, <4>1 DEF FlagSet, Decided, Pending
    <3>4. QED
      BY <1>7, <3>2, <3>3
  <2>3. QED
    BY <1>1, <2>1, <2>2 DEF UsableInv, DroppedWhenReported
<1>8. ASSUME NEW t \in Threads, InterfaceStep(t) PROVE UsableInv'
  <2>1. UNCHANGED <<discovered_services, sd_callbacks, io>>
    BY <1>8 DEF InterfaceStep, GetServiceInfo, CompareMetadata, RegisterCallbacks,
       UnregisterCallbacks, MarkServiceDisconnected
  <2>2. SUFFICES ASSUME ~overtaken', Decided', discovered_services.desc = Compatible
                 PROVE  service_discovered'
    BY <2>1 DEF UsableInv, DroppedWhenReported, FlagSet
  <2>3. discovered_services # Nothing /\ Agreement /\ FlagSet
    BY <1>1, <2>1, <2>2 DEF Decided, UsableInv, AgreeInv
  <2>4. Threads = {"sd", "user"} /\ TypeOK
    BY DEF Threads, UsableInv, AgreeInv
  <2>5. Working(t) => info[t] = Compatible
    BY <2>2, <2>3, <2>4 DEF UsableInv, AgreeInv, Agreement, KnowsLatest
  <2>6. CASE GetServiceInfo(t)
    <3>1. at'[t] = "read"
      BY <2>3, <2>4, <2>6, OneMoves DEF GetServiceInfo
    <3>2. QED
      BY <2>2, <3>1 DEF Decided, Pending
  <2>7. CASE CompareMetadata(t)
    BY <2>5, <2>7 DEF CompareMetadata, OnMatch, Working
  <2>8. CASE MarkServiceDisconnected(t)
    BY <2>3, <2>5, <2>8 DEF MarkServiceDisconnected, Working, Agreement, CallFits
  <2>9. CASE RegisterCallbacks(t) \/ UnregisterCallbacks(t)
    <3>1. /\ service_discovered' = service_discovered /\ ~Pending(t)
          /\ \A u \in Threads \ {t} : at'[u] = at[u]
      BY <2>4, <2>9, OneMoves DEF RegisterCallbacks, UnregisterCallbacks, flags, Pending
    <3>2. Decided
      BY <2>1, <2>2, <3>1 DEF Decided, Pending
    <3>3. QED
      BY <2>2, <2>3, <3>1, <3>2 DEF FlagSet
  <2>10. QED
    BY <1>8, <2>6, <2>7, <2>8, <2>9 DEF InterfaceStep
<1>9. QED
  BY <1>3, <1>4, <1>5, <1>6, <1>7, <1>8 DEF MCNext, Next

(***************************************************************************)
(* The interface of a connected service can send (ServiceIO.hpp:19), if no *)
(* advertisement comes between DropService() and OnServiceDisconnected()   *)
(* and Start() was not overtaken; the run connection_rediscovered shows    *)
(* that the first condition is needed.                                     *)
(***************************************************************************)
THEOREM DiscoveredUnlessOvertakenHolds ==
  ASSUME ~QuickRediscovery
  PROVE  MCSpec => []DiscoveredUnlessOvertaken
<1>1. MCInit => UsableInv
  BY AgreeInit DEF UsableInv, DroppedWhenReported, FlagSet, Decided, MCInit, Init
<1>2. UsableInv /\ AgreeInv' /\ [MCNext]_<<vars, overtaken>> => UsableInv'
  BY UsableNext
<1>3. IInv /\ UsableInv => DiscoveredUnlessOvertaken
  <2> SUFFICES ASSUME IInv, UsableInv, ~overtaken, Settled, endpoint_map = "claimed",
                      discovered_services # Nothing
               PROVE  service_discovered
    BY DEF DiscoveredUnlessOvertaken, ConnectedIsDiscovered
  <2>1. registered_callbacks /\ \A t \in Threads : at[t] = "idle"
    BY DEF IInv, StateHasInterest, Settled
  <2>2. io_callbacks_registered = registered_callbacks /\ sd_callbacks
    BY <2>1 DEF UsableInv, AgreeInv, Agreement, Together, NothingBeforeStart
  <2>3. Decided /\ discovered_services.desc = Compatible
    BY <2>1, <2>2 DEF UsableInv, AgreeInv, Agreement, FlagDecided, Decided, Pending
  <2>4. QED
    BY <2>3 DEF UsableInv, FlagSet
<1>4. MCSpec => Spec
  <2>1. MCInit => Init
    BY DEF MCInit
  <2>2. [MCNext]_<<vars, overtaken>> => [Next]_vars
    BY DEF MCNext
  <2>3. QED
    BY <2>1, <2>2, PTL DEF MCSpec, Spec
<1>5. QED
  BY <1>1, <1>2, <1>3, <1>4, AgreeInvariance, Invariance, PTL DEF MCSpec
=============================================================================
