-------------------------- MODULE DescriptionFetch --------------------------
(***************************************************************************)
(* The part of a service's description that its advertisement cannot carry *)
(* is fetched in windows (HandleDescriptionRequest in Service.cpp, and     *)
(* _omitted_blocks and _fetch_blocks of the Python interface, in           *)
(* discovery.py).  The service answers no more than one request in         *)
(* PartInterval, whoever asks; a host asks for the next window as soon as  *)
(* it has the last one, never asks twice in one fetch, and begins again at *)
(* a later advertisement.                                                  *)
(*                                                                         *)
(* This module extends Scheduler: the loop handles the requests, and the   *)
(* advertisement is one of its schedules.  A unit of time is half of       *)
(* PartInterval; packets arrive at once unless a fault delays them.        *)
(***************************************************************************)
EXTENDS Scheduler, SequencesExt

CONSTANTS
  Hosts,            \* the hosts that fetch
  Advertisement,    \* the schedule of the advertisements
  MaxPart,          \* the most bytes in a window
  PartInterval,     \* kDescriptionPartIntervalMicros
  FETCH_TIMEOUT, FETCH_RETRY, FETCH_MAX_WINDOWS,
  MaxFaults         \* bound: packets lost or repeated, units they are late

ASSUME DescriptionFetchAssumption ==
  /\ Advertisement \in Schedules \ Managed
  /\ IsFiniteSet(Hosts)
  /\ MaxPart \in Nat \ {0} /\ FETCH_MAX_WINDOWS \in Nat \ {0}
  /\ PartInterval \in 1..(Wrap - 1)
  /\ FETCH_TIMEOUT \in Nat \ {0} /\ FETCH_RETRY \in Nat
  /\ MaxFaults \in Nat

VARIABLES
  total,                          \* bytes omitted from the advertisement
  last_description_part_micros_,
  fetch,                          \* of each host: "none", "waiting", "failed" or "done"
  data,                           \* what it has got so far
  windows,                        \* the requests it has sent in this fetch
  timer,                          \* until the deadline, or until retry_at
  requests, parts,                \* in the network
  faults,                         \* ghost: counted for the bound
  since_part                      \* ghost: time since the last answer

host_vars == <<fetch, data, windows, timer>>
network == <<requests, parts>>
fetch_vars == <<scheduler_vars, total, last_description_part_micros_, host_vars, network,
                faults, since_part>>

FetchTypeOK ==
  /\ TypeOK
  /\ total \in Nat
  /\ last_description_part_micros_ \in 0..(Wrap - 1)
  /\ fetch \in [Hosts -> {"none", "waiting", "failed", "done"}]
  /\ data \in [Hosts -> Seq(0..(total - 1))]
  /\ windows \in [Hosts -> 0..FETCH_MAX_WINDOWS]
  /\ timer \in [Hosts -> 0..(FETCH_TIMEOUT + FETCH_RETRY)]
  /\ requests \subseteq [host : Hosts, offset : 0..total]
  /\ parts \subseteq [host : Hosts, offset : 0..total, length : 1..MaxPart, total : {total}]
  /\ faults \in 0..MaxFaults /\ since_part \in 0..PartInterval

\* The service has never answered: the time stamp is 0.
FetchInit ==
  /\ SchedulerInit
  /\ total \in Nat
  /\ last_description_part_micros_ = 0
  /\ fetch = [h \in Hosts |-> "none"]
  /\ data = [h \in Hosts |-> <<>>]
  /\ windows = [h \in Hosts |-> 0]
  /\ timer = [h \in Hosts |-> 0]
  /\ requests = {} /\ parts = {}
  /\ faults = 0 /\ since_part = PartInterval

\* The packet that arrives is gone, or its duplicate is still to come.
Received(set, packet) ==
  \/ set' = set \ {packet} /\ UNCHANGED faults
  \/ UNCHANGED set /\ faults < MaxFaults /\ faults' = faults + 1

----------------------------------------------------------------------------
(* The service.                                                            *)

\* Faulty variant: compares with a deadline that may have wrapped.
RateLimitedUntil == clock < (last_description_part_micros_ + PartInterval) % Wrap

\* 0 means "never", although the clock passes through it.
RateLimited ==
  /\ last_description_part_micros_ # 0
  /\ (clock - last_description_part_micros_) % Wrap < PartInterval

Length(offset) == total - offset

Window(r) ==
  [host |-> r.host, offset |-> r.offset, total |-> total,
   length |-> IF Length(r.offset) > MaxPart THEN MaxPart ELSE Length(r.offset)]

\* Beyond the end, or too soon: no answer.
HandleDescriptionRequest(r) ==
  /\ r \in requests
  /\ HandlePacket /\ UNCHANGED packets
  /\ Received(requests, r)
  /\ IF r.offset >= total \/ RateLimited
       THEN UNCHANGED <<parts, last_description_part_micros_, since_part>>
       ELSE /\ parts' = parts \cup {Window(r)}
            /\ last_description_part_micros_' = clock
            /\ since_part' = 0
  /\ UNCHANGED <<total, host_vars>>

----------------------------------------------------------------------------
(* The hosts.                                                              *)

\* Faulty variant: a failed fetch is cached like a good one.
MayFetchOnce(h) == fetch[h] = "none"

\* A fetch that has failed is not repeated before retry_at.
MayFetch(h) == fetch[h] = "none" \/ (fetch[h] = "failed" /\ timer[h] = 0)

Request(h, d) == [host |-> h, offset |-> Len(d)]

\* An advertisement starts a new fetch, with a socket of its own: what is
\* still on its way to the last one is lost.
Start(H) ==
  /\ fetch' = [h \in Hosts |-> IF h \in H THEN "waiting" ELSE fetch[h]]
  /\ data' = [h \in Hosts |-> IF h \in H THEN <<>> ELSE data[h]]
  /\ windows' = [h \in Hosts |-> IF h \in H THEN 1 ELSE windows[h]]
  /\ timer' = [h \in Hosts |-> IF h \in H THEN FETCH_TIMEOUT ELSE timer[h]]
  /\ requests' = requests \cup {Request(h, <<>>) : h \in H}
  /\ parts' = {p \in parts : p.host \notin H}

\* The callback of the schedule; each host may lose the advertisement.
Advertise ==
  /\ at = Advertisement /\ EndCallback
  /\ \E lost \in SUBSET {h \in Hosts : MayFetch(h)} :
       /\ faults + Cardinality(lost) <= MaxFaults
       /\ faults' = faults + Cardinality(lost)
       /\ Start(IF total = 0 THEN {} ELSE {h \in Hosts : MayFetch(h)} \ lost)
  /\ UNCHANGED <<total, last_description_part_micros_, since_part>>

\* Faulty variant: takes whatever part comes next.
IsAnyPart(h, p) == TRUE

IsNextPart(h, p) == p.offset = Len(data[h])

\* The bytes of a window, numbered as in the description.
Bytes(p) == [i \in 1..p.length |-> p.offset + i - 1]

ReceivePart(h, p) ==
  /\ p \in parts /\ p.host = h /\ fetch[h] = "waiting"
  /\ Received(parts, p)
  /\ IF ~IsNextPart(h, p) THEN UNCHANGED <<host_vars, requests>>
     ELSE LET d == data[h] \o Bytes(p) IN
       /\ data' = [data EXCEPT ![h] = d]
       /\ \/ /\ Len(d) = p.total
             /\ fetch' = [fetch EXCEPT ![h] = "done"]
             /\ timer' = [timer EXCEPT ![h] = 0]
             /\ UNCHANGED <<windows, requests>>
          \/ /\ Len(d) < p.total /\ windows[h] < FETCH_MAX_WINDOWS
             /\ windows' = [windows EXCEPT ![h] = @ + 1]
             /\ requests' = requests \cup {Request(h, d)}
             /\ UNCHANGED <<fetch, timer>>
          \/ /\ IF Len(d) < p.total THEN windows[h] = FETCH_MAX_WINDOWS ELSE Len(d) > p.total
             /\ fetch' = [fetch EXCEPT ![h] = "failed"]
             /\ timer' = [timer EXCEPT ![h] = FETCH_RETRY]
             /\ UNCHANGED <<windows, requests>>
  /\ UNCHANGED <<scheduler_vars, total, last_description_part_micros_, since_part>>

\* The deadline for the whole fetch has passed.
TimeOut(h) ==
  /\ fetch[h] = "waiting" /\ timer[h] = 0
  /\ fetch' = [fetch EXCEPT ![h] = "failed"]
  /\ timer' = [timer EXCEPT ![h] = FETCH_RETRY]
  /\ UNCHANGED <<scheduler_vars, total, last_description_part_micros_, data, windows, network,
                 faults, since_part>>

----------------------------------------------------------------------------
(* The network and the clock.                                              *)

LosePacket ==
  /\ faults < MaxFaults /\ faults' = faults + 1
  /\ \/ \E r \in requests : requests' = requests \ {r} /\ UNCHANGED parts
     \/ \E p \in parts : parts' = parts \ {p} /\ UNCHANGED requests
  /\ UNCHANGED <<scheduler_vars, total, last_description_part_micros_, host_vars, since_part>>

Less(n) == IF n = 0 THEN 0 ELSE n - 1

\* Answers to a socket that is closed are gone; while others are on their
\* way, it takes a fault for time to pass, and no deadline is overrun.
OnTheirWay == requests # {} \/ \E p \in parts : fetch[p.host] = "waiting"

FetchTimePasses ==
  /\ TimePasses
  /\ \A h \in Hosts : fetch[h] = "waiting" => timer[h] > 0
  /\ IF OnTheirWay THEN faults < MaxFaults /\ faults' = faults + 1 ELSE UNCHANGED faults
  /\ timer' = [h \in Hosts |-> Less(timer[h])]
  /\ since_part' = IF since_part < PartInterval THEN since_part + 1 ELSE since_part
  /\ UNCHANGED <<total, last_description_part_micros_, fetch, data, windows, network>>

FetchUnchanged ==
  UNCHANGED <<total, last_description_part_micros_, host_vars, network, faults, since_part>>

QuietStep ==
  /\ \/ at # Advertisement /\ EndCallback
     \/ BeginTick \/ Visit \/ EndTick \/ StopWaiting
  /\ FetchUnchanged

HostStep(h) == TimeOut(h) \/ \E p \in parts : ReceivePart(h, p)

FetchNext ==
  \/ QuietStep \/ Advertise \/ FetchTimePasses
  \/ (Change \/ OtherPacket) /\ FetchUnchanged
  \/ \E r \in requests : HandleDescriptionRequest(r)
  \/ \E h \in Hosts : HostStep(h)
  \/ LosePacket

FetchSpec == FetchInit /\ [][FetchNext]_fetch_vars

\* The loop runs, time passes, and packets arrive.
FetchFairness ==
  /\ WF_fetch_vars(QuietStep \/ Advertise)
  /\ WF_fetch_vars(FetchTimePasses)
  /\ SF_fetch_vars(\E r \in requests : HandleDescriptionRequest(r))
  /\ \A h \in Hosts : WF_fetch_vars(HostStep(h))

----------------------------------------------------------------------------
(***************************************************************************)
(* What a host has put together is a prefix of the description, and all of *)
(* it when it takes it for that: no window of an earlier fetch, of another *)
(* host or out of turn gets in.                                            *)
(***************************************************************************)
PrefixOfDescription ==
  \A h \in Hosts :
    /\ Len(data[h]) <= total
    /\ data[h] = [i \in 1..Len(data[h]) |-> i - 1]
    /\ fetch[h] = "done" => Len(data[h]) = total

(***************************************************************************)
(* The service is no reflector: between two answers there is PartInterval, *)
(* whoever asks and although the clock wraps - except after an answer at   *)
(* time 0, which reads as "never" (Service.cpp:359).                       *)
(***************************************************************************)
PartsApart ==
  [][(\E p \in parts' : p \notin parts) =>
       last_description_part_micros_ = 0 \/ since_part >= PartInterval]_fetch_vars

(***************************************************************************)
(* A description that fits one window gets to every host, although hosts   *)
(* that see the same advertisement ask at the same time and the service    *)
(* answers only one of them, and although packets get lost.                *)
(***************************************************************************)
OneWindowIsFetched ==
  \A h \in Hosts : total \in 1..MaxPart ~> fetch[h] = "done"

(***************************************************************************)
(* README.md:98 of the Python interface: the description is fetched "one   *)
(* round trip per window", and the fetch fails for "an older service ...   *)
(* or a lost packet".  So it does not fail when nothing is lost or late.   *)
(***************************************************************************)
FailsOnlyOnFaults ==
  (\E h \in Hosts : fetch[h] = "failed") => faults > 0
=============================================================================
