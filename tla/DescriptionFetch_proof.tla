----------------------- MODULE DescriptionFetch_proof -----------------------
(***************************************************************************)
(* Proofs about module DescriptionFetch and the Scheduler it extends, for  *)
(* any schedules and hosts, any width of the clock, any description and    *)
(* any number of faults: types, the distance between two answers of the    *)
(* service, that a host only puts windows together in order, and that the  *)
(* schedules are neither late nor early although clock and sum wrap.       *)
(***************************************************************************)
EXTENDS DescriptionFetch, FiniteSetTheorems, WellFoundedInduction, TLAPS

----------------------------------------------------------------------------
(* Time stamps.                                                            *)

LEMMA InRange == ASSUME NEW W \in Nat \ {0}, NEW x \in Int PROVE x % W \in 0..(W - 1)
BY SMT

\* What has passed between two stamps less than a whole round apart ...
LEMMA Difference ==
  ASSUME NEW W \in Nat \ {0}, NEW a \in 0..(W - 1), NEW b \in 0..(W - 1)
  PROVE  (a - b) % W = IF b <= a THEN a - b ELSE a - b + W
<1>0. DEFINE x == a - b
<1>1. PICK q \in Int, r \in 0..(W - 1) : a - b = W * q + r /\ r = (a - b) % W
  <2>1. x \in Int
    OBVIOUS
  <2>2. x = W * (x \div W) + (x % W) /\ x % W \in 0..(W - 1) /\ x \div W \in Int
    BY <2>1, SMT
  <2>3. QED
    BY <2>2
<1>2. CASE q = 0
  BY <1>1, <1>2
<1>3. CASE q = -1
  BY <1>1, <1>3
<1>4. CASE q >= 1
  <2>1. W * q >= W
    BY <1>4, SMT
  <2>2. QED
    BY <1>1, <2>1
<1>5. CASE q <= -2
  <2>1. W * q <= -W - W
    BY <1>5, SMT
  <2>2. QED
    BY <1>1, <2>1
<1>6. QED
  BY <1>1, <1>2, <1>3, <1>4, <1>5

LEMMA Successor ==
  ASSUME NEW W \in Nat \ {0}, NEW a \in 0..(W - 1)
  PROVE  (a + 1) % W = IF a + 1 < W THEN a + 1 ELSE 0
<1>1. CASE a + 1 < W
  BY <1>1, SMT
<1>2. CASE a + 1 = W
  BY <1>2, SMT
<1>3. QED
  BY <1>1, <1>2

\* ... grows by one with the clock, until it is a whole round.
LEMMA OneLater ==
  ASSUME NEW W \in Nat \ {0}, NEW a \in 0..(W - 1), NEW b \in 0..(W - 1),
         (a - b) % W < W - 1
  PROVE  (((a + 1) % W) - b) % W = ((a - b) % W) + 1
<1>1. (a + 1) % W \in 0..(W - 1)
  BY Successor
<1>2. (((a + 1) % W) - b) % W = IF b <= (a + 1) % W THEN ((a + 1) % W) - b ELSE ((a + 1) % W) - b + W
  BY <1>1, Difference
<1>3. (a - b) % W = IF b <= a THEN a - b ELSE a - b + W
  BY Difference
<1>4. CASE a + 1 < W
  <2>1. (a + 1) % W = a + 1
    BY <1>4, Successor
  <2>2. QED
    BY <1>2, <1>3, <1>4, <2>1
<1>5. CASE a + 1 = W
  <2>1. (a + 1) % W = 0
    BY <1>5, Successor
  <2>2. QED
    BY <1>2, <1>3, <1>5, <2>1
<1>6. QED
  BY <1>4, <1>5

LEMMA WrapIsPositive == Wrap \in Nat \ {0} /\ MaxBlock < Wrap
BY SchedulerAssumption

----------------------------------------------------------------------------
(***************************************************************************)
(* Types of the scheduler.  That the lead of a schedule is at most one     *)
(* wait needs to know how long ago the last Tick() was (Timely).           *)
(***************************************************************************)
Timely ==
  /\ pc \in {"tick", "callback"} => clock = last_tick_micros /\ at >= 1
  /\ pc = "callback" => at <= N
  /\ pc = "handle" => SinceTick <= MaxBlock
  /\ pc = "wait" => SinceTick + block_time <= MaxBlock

LEMMA SinceTickType ==
  ASSUME TypeOK
  PROVE  SinceTick \in 0..(Wrap - 1) /\ (clock = last_tick_micros => SinceTick = 0)
<1>1. clock \in 0..(Wrap - 1) /\ last_tick_micros \in 0..(Wrap - 1)
  BY DEF TypeOK
<1>2. clock - last_tick_micros \in Int
  BY <1>1, WrapIsPositive
<1>3. SinceTick \in 0..(Wrap - 1)
  BY <1>2, WrapIsPositive, InRange DEF SinceTick
<1>4. clock = last_tick_micros => SinceTick = 0
  BY <1>1, WrapIsPositive, Difference DEF SinceTick
<1>5. QED
  BY <1>3, <1>4

LEMMA RearmKeeps ==
  ASSUME TypeOK, Timely, NEW s \in Schedules, Rearm(s), pc # "tick",
         enabled_' \in [Schedules -> BOOLEAN], interval_' \in [Schedules -> Intervals]
  PROVE  TypeOK' /\ Timely'
<1>1. SinceTick \in 0..MaxBlock
  BY SinceTickType, WrapIsPositive, SchedulerAssumption DEF Timely, TypeOK
<1>2. /\ last_tick_' \in [Schedules -> 0..(Wrap - 1)] /\ lead' \in [Schedules -> 0..MaxBlock]
      /\ age' \in [Schedules -> Nat] /\ missed' \subseteq Schedules /\ changes' \in 0..MaxChanges
  BY <1>1, SchedulerAssumption DEF Rearm, NewLastTick, TypeOK
<1>3. TypeOK'
  BY <1>2 DEF TypeOK, Rearm, loop_vars
<1>4. Timely'
  BY DEF Timely, Rearm, loop_vars, SinceTick
<1>5. QED
  BY <1>3, <1>4

LEMMA ChangeKeeps == ASSUME TypeOK, Timely, Change PROVE TypeOK' /\ Timely'
<1>1. ASSUME NEW s \in Schedules, NEW i \in Intervals, SetInterval(s, i) PROVE TypeOK' /\ Timely'
  BY <1>1, RearmKeeps DEF SetInterval, MayChange, TypeOK
<1>2. ASSUME NEW s \in Schedules, NEW e \in BOOLEAN, SetEnabled(s, e) PROVE TypeOK' /\ Timely'
  BY <1>2, RearmKeeps DEF SetEnabled, MayChange, TypeOK
<1>3. ASSUME NEW s \in Schedules, ChangeFlag(s) PROVE TypeOK' /\ Timely'
  <2>1. /\ enabled_' \in [Schedules -> BOOLEAN]
        /\ age' \in [Schedules -> Nat] /\ missed' \subseteq Schedules /\ changes' \in 0..MaxChanges
    BY <1>3, SchedulerAssumption DEF ChangeFlag, TypeOK
  <2>2. TypeOK'
    BY <1>3, <2>1 DEF ChangeFlag, TypeOK, loop_vars
  <2>3. Timely'
    BY <1>3 DEF ChangeFlag, Timely, loop_vars, SinceTick
  <2>4. QED
    BY <2>2, <2>3
<1>4. QED
  BY <1>1, <1>2, <1>3 DEF Change

LEMMA LoopKeeps ==
  ASSUME TypeOK, Timely,
         BeginTick \/ Visit \/ EndCallback \/ EndTick \/ StopWaiting \/ HandlePacket,
         packets' \in 0..MaxPackets
  PROVE  TypeOK' /\ Timely'
<1> USE SchedulerAssumption DEF NO_ENABLED_SCHEDULE
<1>1. CASE BeginTick
  <2>1. now_' \in 0..(Wrap - 1)
    <3>1. now_ + SinceTick \in Int
      BY SinceTickType, WrapIsPositive DEF TypeOK
    <3>2. QED
      BY <1>1, <3>1, WrapIsPositive, InRange DEF BeginTick
  <2>2. TypeOK'
    BY <1>1, <2>1 DEF BeginTick, TypeOK, schedule_vars, schedule_ghosts
  <2>3. QED
    BY <1>1, <2>2 DEF BeginTick, Timely
<1>2. CASE Visit
  <2>1. at \in Schedules
    BY <1>2 DEF Visit, TypeOK, Schedules
  <2>2. SinceLastTick(at) \in 0..(Wrap - 1) /\ interval_[at] \in Nat /\ interval_[at] < Wrap
    <3>1. now_ - last_tick_[at] \in Int
      BY <2>1, WrapIsPositive DEF TypeOK
    <3>2. SinceLastTick(at) \in 0..(Wrap - 1)
      BY <3>1, WrapIsPositive, InRange DEF SinceLastTick
    <3>3. interval_[at] \in Intervals
      BY <2>1 DEF TypeOK
    <3>4. QED
      BY <3>2, <3>3
  <2>3. ~IsDue(at) => Sooner(interval_[at] - SinceLastTick(at)) \in 0..Wrap
    BY <2>2 DEF IsDue, Sooner, TypeOK
  <2>4. min_sleep_time' \in 0..Wrap /\ at' \in 1..(N + 1)
    <3>1. min_sleep_time \in 0..Wrap /\ at \in 1..N
      BY <2>1 DEF TypeOK, Schedules
    <3>2. QED
      BY <1>2, <2>3, <3>1 DEF Visit
  <2>5. TypeOK'
    BY <1>2, <2>4 DEF Visit, TypeOK, schedule_vars, schedule_ghosts
  <2>6. QED
    BY <1>2, <2>5 DEF Visit, Timely, TypeOK
<1>3. CASE EndCallback
  <2>1. at \in Schedules
    BY <1>3 DEF EndCallback, TypeOK, Timely, Schedules
  <2>2. min_sleep_time' \in 0..Wrap
    BY <1>3, <2>1 DEF EndCallback, Sooner, TypeOK
  <2>3. /\ last_tick_' \in [Schedules -> 0..(Wrap - 1)] /\ lead' \in [Schedules -> 0..MaxBlock]
        /\ age' \in [Schedules -> Nat] /\ missed' \subseteq Schedules /\ at' \in 1..(N + 1)
    <3>1. now_ \in 0..(Wrap - 1) /\ 0 \in 0..MaxBlock /\ at + 1 \in 1..(N + 1)
      BY <2>1 DEF TypeOK, Schedules
    <3>2. QED
      BY <1>3, <2>1, <3>1 DEF EndCallback, FiredTime, TypeOK
  <2>4. TypeOK'
    BY <1>3, <2>2, <2>3 DEF EndCallback, TypeOK
  <2>5. QED
    BY <1>3, <2>1, <2>4 DEF EndCallback, Timely, Schedules
<1>4. CASE EndTick
  <2>1. block_time' \in 0..MaxBlock
    BY <1>4 DEF EndTick, TypeOK
  <2>2. TypeOK'
    BY <1>4, <2>1 DEF EndTick, TypeOK, schedule_vars, schedule_ghosts
  <2>3. SinceTick = 0 /\ SinceTick' = SinceTick
    BY <1>4, SinceTickType DEF EndTick, Timely, SinceTick
  <2>4. QED
    BY <1>4, <2>1, <2>2, <2>3 DEF EndTick, Timely
<1>5. CASE StopWaiting \/ HandlePacket
  <2>1. block_time' \in 0..MaxBlock
    BY <1>5 DEF StopWaiting, HandlePacket, TypeOK
  <2>2. TypeOK'
    BY <1>5, <2>1 DEF StopWaiting, HandlePacket, TypeOK, loop_vars, schedule_vars, schedule_ghosts
  <2>3. SinceTick \in Nat /\ SinceTick' = SinceTick
    BY <1>5, SinceTickType DEF StopWaiting, HandlePacket, loop_vars, SinceTick
  <2>4. SinceTick <= MaxBlock
    BY <1>5, <2>3 DEF StopWaiting, HandlePacket, Timely, TypeOK
  <2>5. Timely'
    BY <1>5, <2>3, <2>4 DEF StopWaiting, HandlePacket, Timely
  <2>6. QED
    BY <2>2, <2>5
<1>6. QED
  BY <1>1, <1>2, <1>3, <1>4, <1>5

LEMMA TimeKeeps == ASSUME TypeOK, Timely, TimePasses PROVE TypeOK' /\ Timely'
<1> USE SchedulerAssumption
<1>1. clock' \in 0..(Wrap - 1)
  BY WrapIsPositive, Successor DEF TimePasses, TypeOK
<1>2. block_time' \in 0..MaxBlock
  BY DEF TimePasses, TypeOK
<1>3. \A s \in Schedules : Older(s) \in Nat
  <2>1. \A s \in Schedules : age[s] \in Nat
    BY DEF TypeOK
  <2>2. QED
    BY <2>1 DEF Older
<1>4. age' \in [Schedules -> Nat]
  BY <1>3 DEF TimePasses
<1>5. TypeOK'
  BY <1>1, <1>2, <1>4 DEF TimePasses, TypeOK, loop_vars, schedule_vars
<1>6. SinceTick' = SinceTick + 1
  <2>1. SinceTick \in Nat /\ SinceTick < Wrap - 1
    BY SinceTickType, WrapIsPositive DEF TimePasses, Timely, TypeOK
  <2>2. QED
    BY <2>1, OneLater, WrapIsPositive DEF TimePasses, TypeOK, SinceTick, loop_vars
<1>7. Timely'
  BY <1>6, SinceTickType DEF TimePasses, Timely, TypeOK, loop_vars
<1>8. QED
  BY <1>5, <1>7

LEMMA ClockStands ==
  ASSUME Change \/ BeginTick \/ Visit \/ EndCallback \/ EndTick \/ StopWaiting \/ HandlePacket
  PROVE  clock' = clock
BY DEF Change, SetInterval, SetEnabled, ChangeFlag, Rearm, BeginTick, Visit, EndCallback,
       EndTick, StopWaiting, HandlePacket

----------------------------------------------------------------------------
(***************************************************************************)
(* The inductive invariant.  While the limit lasts the two time stamps     *)
(* tell how long it has lasted (Elapsed), since both count less than a     *)
(* round; and windows do not go beyond the end (WindowsFit).               *)
(***************************************************************************)
SinceStamp == (clock - last_description_part_micros_) % Wrap

Elapsed ==
  last_description_part_micros_ # 0 /\ since_part < PartInterval => SinceStamp = since_part

WindowsFit == \A p \in parts : p.offset + p.length <= total

FetchInv == FetchTypeOK /\ Timely /\ Elapsed /\ WindowsFit /\ PrefixOfDescription

\* What the host has after so many bytes.
Prefix(n) == [i \in 1..n |-> i - 1]

LEMMA PrefixType ==
  ASSUME NEW n \in Nat
  PROVE  Prefix(n) \in Seq(0..(n - 1)) /\ Len(Prefix(n)) = n
BY DEF Prefix

\* A window that is the next one makes a longer prefix.
LEMMA NextWindow ==
  ASSUME NEW d, NEW n \in Nat, d = Prefix(n),
         NEW p, p.offset = n, p.length \in Nat
  PROVE  d \o Bytes(p) = Prefix(n + p.length)
<1>1. Bytes(p) = [i \in 1..p.length |-> n + i - 1]
  BY DEF Bytes
<1>2. Bytes(p) \in Seq(Int) /\ Len(Bytes(p)) = p.length
  BY <1>1
<1>3. d \in Seq(Int) /\ Len(d) = n
  BY DEF Prefix
<1>4. /\ DOMAIN (d \o Bytes(p)) = 1..(n + p.length)
      /\ \A i \in 1..(n + p.length) : (d \o Bytes(p))[i] = i - 1
  BY <1>1, <1>2, <1>3 DEF Prefix
<1>5. d \o Bytes(p) \in Seq(Int)
  BY <1>2, <1>3
<1>6. QED
  BY <1>4, <1>5 DEF Prefix

LEMMA FetchInitInv == FetchInit => FetchInv
<1> SUFFICES ASSUME FetchInit PROVE FetchInv
  OBVIOUS
<1> USE SchedulerAssumption, DescriptionFetchAssumption
<1>1. TypeOK /\ Timely
  <2>1. TypeOK
    BY DEF FetchInit, SchedulerInit, TypeOK, NO_ENABLED_SCHEDULE
  <2>2. QED
    BY <2>1, SinceTickType DEF FetchInit, SchedulerInit, Timely
<1>2. FetchTypeOK
  BY <1>1 DEF FetchInit, FetchTypeOK
<1>3. Elapsed /\ WindowsFit
  BY DEF FetchInit, Elapsed, WindowsFit
<1>4. PrefixOfDescription
  BY DEF FetchInit, PrefixOfDescription
<1>5. QED
  BY <1>1, <1>2, <1>3, <1>4 DEF FetchInv

\* Steps of the scheduler that do not concern the fetch.
LEMMA FrameKeeps ==
  ASSUME FetchInv, TypeOK', Timely', clock' = clock, FetchUnchanged
  PROVE  FetchInv'
<1>1. FetchTypeOK' /\ Elapsed' /\ WindowsFit'
  BY DEF FetchInv, FetchTypeOK, Elapsed, SinceStamp, WindowsFit, FetchUnchanged, host_vars, network
<1>2. PrefixOfDescription'
  BY DEF FetchInv, PrefixOfDescription, FetchUnchanged, host_vars
<1>3. QED
  BY <1>1, <1>2 DEF FetchInv

LEMMA SchedulerKeeps ==
  ASSUME FetchInv, QuietStep \/ ((Change \/ OtherPacket) /\ FetchUnchanged)
  PROVE  FetchInv'
<1> USE SchedulerAssumption DEF FetchInv, FetchTypeOK
<1>1. CASE Change /\ FetchUnchanged
  BY <1>1, ChangeKeeps, ClockStands, FrameKeeps
<1>2. CASE OtherPacket /\ FetchUnchanged
  <2>1. HandlePacket /\ packets' \in 0..MaxPackets
    BY <1>2 DEF OtherPacket, TypeOK
  <2>2. QED
    BY <1>2, <2>1, LoopKeeps, ClockStands, FrameKeeps
<1>3. CASE QuietStep
  <2>1. BeginTick \/ Visit \/ EndCallback \/ EndTick \/ StopWaiting
    BY <1>3 DEF QuietStep
  <2>2. packets' \in 0..MaxPackets
    BY <2>1 DEF TypeOK, BeginTick, Visit, EndCallback, EndTick, StopWaiting
  <2>3. QED
    BY <1>3, <2>1, <2>2, LoopKeeps, ClockStands, FrameKeeps DEF QuietStep
<1>4. QED
  BY <1>1, <1>2, <1>3

\* The fields of a window the service answers with.
LEMMA WindowType ==
  ASSUME FetchTypeOK, NEW r \in requests, r.offset < total
  PROVE  /\ Window(r) \in [host : Hosts, offset : 0..total, length : 1..MaxPart, total : {total}]
         /\ Window(r).offset + Window(r).length <= total
<1>1. r.host \in Hosts /\ r.offset \in 0..total /\ total \in Nat
  BY DEF FetchTypeOK
<1>2. QED
  BY <1>1, DescriptionFetchAssumption DEF Window, Length

LEMMA RequestKeeps ==
  ASSUME FetchInv, NEW r \in requests, HandleDescriptionRequest(r)
  PROVE  FetchInv'
<1> USE DescriptionFetchAssumption
<1>1. TypeOK' /\ Timely' /\ clock' = clock
  <2>1. packets' \in 0..MaxPackets
    BY DEF HandleDescriptionRequest, FetchInv, FetchTypeOK, TypeOK
  <2>2. QED
    BY <2>1, LoopKeeps, ClockStands DEF HandleDescriptionRequest, FetchInv, FetchTypeOK
<1>2. /\ requests' \subseteq requests /\ faults' \in 0..MaxFaults
      /\ UNCHANGED <<total, fetch, data, windows, timer>>
  BY DEF HandleDescriptionRequest, Received, host_vars, FetchInv, FetchTypeOK
<1>3. PrefixOfDescription'
  BY <1>2 DEF FetchInv, PrefixOfDescription
<1>4. CASE UNCHANGED <<parts, last_description_part_micros_, since_part>>
  <2>1. FetchTypeOK' /\ Elapsed' /\ WindowsFit'
    BY <1>1, <1>2, <1>4 DEF FetchInv, FetchTypeOK, Elapsed, SinceStamp, WindowsFit
  <2>2. QED
    BY <1>1, <1>3, <2>1 DEF FetchInv
<1>5. CASE /\ r.offset < total
           /\ parts' = parts \cup {Window(r)}
           /\ last_description_part_micros_' = clock /\ since_part' = 0
  <2>1. clock \in 0..(Wrap - 1) /\ 0 \in 0..PartInterval
    BY DEF FetchInv, FetchTypeOK, TypeOK
  <2>2. FetchTypeOK' /\ WindowsFit'
    BY <1>1, <1>2, <1>5, <2>1, WindowType DEF FetchInv, FetchTypeOK, WindowsFit
  <2>3. SinceStamp' = 0
    BY <1>1, <1>5, <2>1, WrapIsPositive, Difference DEF SinceStamp
  <2>4. QED
    BY <1>1, <1>3, <1>5, <2>2, <2>3 DEF FetchInv, Elapsed
<1>6. QED
  <2>1. total \in Nat /\ r.offset \in Nat
    BY DEF FetchInv, FetchTypeOK
  <2>2. QED
    BY <2>1, <1>4, <1>5 DEF HandleDescriptionRequest

LEMMA AdvertiseKeeps == ASSUME FetchInv, Advertise PROVE FetchInv'
<1> USE DescriptionFetchAssumption
<1>1. TypeOK' /\ Timely' /\ clock' = clock
  <2>1. packets' \in 0..MaxPackets
    BY DEF Advertise, EndCallback, FetchInv, FetchTypeOK, TypeOK
  <2>2. QED
    BY <2>1, LoopKeeps, ClockStands DEF Advertise, FetchInv, FetchTypeOK
<1>2. PICK lost \in SUBSET {h \in Hosts : MayFetch(h)} :
        /\ faults + Cardinality(lost) <= MaxFaults
        /\ faults' = faults + Cardinality(lost)
        /\ Start(IF total = 0 THEN {} ELSE {h \in Hosts : MayFetch(h)} \ lost)
  BY DEF Advertise
<1>3. PICK H \in SUBSET Hosts : Start(H)
  BY <1>2
<1>4. faults' \in 0..MaxFaults
  <2>1. IsFiniteSet(lost)
    BY FS_Subset
  <2>2. Cardinality(lost) \in Nat
    BY <2>1, FS_CardinalityType
  <2>3. QED
    BY <1>2, <2>2 DEF FetchInv, FetchTypeOK
<1>5. /\ fetch' \in [Hosts -> {"none", "waiting", "failed", "done"}]
      /\ data' \in [Hosts -> Seq(0..(total - 1))]
      /\ windows' \in [Hosts -> 0..FETCH_MAX_WINDOWS]
      /\ timer' \in [Hosts -> 0..(FETCH_TIMEOUT + FETCH_RETRY)]
  <2>1. \A h \in Hosts :
          /\ fetch[h] \in {"none", "waiting", "failed", "done"}
          /\ data[h] \in Seq(0..(total - 1)) /\ <<>> \in Seq(0..(total - 1))
          /\ windows[h] \in 0..FETCH_MAX_WINDOWS /\ 1 \in 0..FETCH_MAX_WINDOWS
          /\ timer[h] \in 0..(FETCH_TIMEOUT + FETCH_RETRY)
          /\ FETCH_TIMEOUT \in 0..(FETCH_TIMEOUT + FETCH_RETRY)
    BY DEF FetchInv, FetchTypeOK
  <2>2. QED
    BY <1>3, <2>1 DEF Start
<1>6. requests' \subseteq [host : Hosts, offset : 0..total] /\ parts' \subseteq parts
  BY <1>3 DEF Start, Request, FetchInv, FetchTypeOK
<1>7. UNCHANGED <<total, last_description_part_micros_, since_part>>
  BY DEF Advertise
<1>8. FetchTypeOK' /\ Elapsed' /\ WindowsFit'
  BY <1>1, <1>4, <1>5, <1>6, <1>7 DEF FetchInv, FetchTypeOK, Elapsed, SinceStamp, WindowsFit
<1>9. PrefixOfDescription'
  <2>1. ASSUME NEW h \in H
        PROVE  data'[h] = <<>> /\ fetch'[h] = "waiting"
    BY <1>3, <2>1 DEF Start
  <2>2. ASSUME NEW h \in Hosts \ H
        PROVE  data'[h] = data[h] /\ fetch'[h] = fetch[h]
    BY <1>3, <2>2 DEF Start
  <2>3. <<>> = [i \in 1..Len(<<>>) |-> i - 1] /\ Len(<<>>) = 0
    OBVIOUS
  <2>4. total \in Nat
    BY DEF FetchInv, FetchTypeOK
  <2>5. ASSUME NEW h \in Hosts
        PROVE  /\ Len(data'[h]) <= total
               /\ data'[h] = [i \in 1..Len(data'[h]) |-> i - 1]
               /\ fetch'[h] = "done" => Len(data'[h]) = total
    <3>1. CASE h \in H
      BY <2>1, <2>3, <2>4, <3>1
    <3>2. CASE h \notin H
      BY <2>2, <3>2 DEF FetchInv, PrefixOfDescription
    <3>3. QED
      BY <3>1, <3>2
  <2>6. QED
    BY <1>7, <2>5 DEF PrefixOfDescription
<1>10. QED
  BY <1>1, <1>8, <1>9 DEF FetchInv

LEMMA ReceiveKeeps ==
  ASSUME FetchInv, NEW h \in Hosts, NEW p \in parts, ReceivePart(h, p)
  PROVE  FetchInv'
<1> USE DescriptionFetchAssumption
<1>1. UNCHANGED <<scheduler_vars, total, last_description_part_micros_, since_part>>
      /\ parts' \subseteq parts /\ faults' \in 0..MaxFaults
  <2>1. Received(parts, p) /\ UNCHANGED <<scheduler_vars, total, last_description_part_micros_, since_part>>
    BY DEF ReceivePart
  <2>2. faults \in 0..MaxFaults
    BY DEF FetchInv, FetchTypeOK
  <2>3. QED
    BY <2>1, <2>2 DEF Received
<1>2. TypeOK' /\ Timely' /\ clock' = clock
  BY <1>1 DEF FetchInv, FetchTypeOK, TypeOK, Timely, SinceTick, scheduler_vars, loop_vars,
              schedule_vars, schedule_ghosts
<1>3. Elapsed' /\ WindowsFit'
  BY <1>1, <1>2 DEF FetchInv, Elapsed, SinceStamp, WindowsFit
<1>4. CASE UNCHANGED <<host_vars, requests>>
  <2>1. FetchTypeOK'
    BY <1>1, <1>2, <1>4 DEF FetchInv, FetchTypeOK, host_vars
  <2>2. PrefixOfDescription'
    BY <1>1, <1>4 DEF FetchInv, PrefixOfDescription, host_vars
  <2>3. QED
    BY <1>2, <1>3, <2>1, <2>2 DEF FetchInv
<1>5. CASE IsNextPart(h, p)
  <2> DEFINE n == Len(data[h])
             d == data[h] \o Bytes(p)
  <2>1. /\ n \in Nat /\ data[h] = Prefix(n)
        /\ p.offset = n /\ p.length \in Nat /\ n + p.length <= total /\ p.total = total
    BY <1>5 DEF FetchInv, FetchTypeOK, WindowsFit, PrefixOfDescription, IsNextPart, Prefix
  <2>2. d = Prefix(n + p.length)
    BY <2>1, NextWindow
  <2>3. Len(d) = n + p.length /\ d \in Seq(0..(total - 1)) /\ total \in Nat
    <3>1. total \in Nat /\ n + p.length \in Nat
      BY <2>1 DEF FetchInv, FetchTypeOK
    <3>2. \A i \in 1..(n + p.length) : i - 1 \in 0..(total - 1)
      BY <2>1, <3>1
    <3>3. QED
      BY <2>2, <3>1, <3>2 DEF Prefix
  <2>4. d = [i \in 1..Len(d) |-> i - 1] /\ Len(d) <= total
    BY <2>1, <2>2, <2>3 DEF Prefix
  <2>5. data' = [data EXCEPT ![h] = d]
    BY <1>5 DEF ReceivePart
  <2>6. /\ fetch' \in [Hosts -> {"none", "waiting", "failed", "done"}]
        /\ windows' \in [Hosts -> 0..FETCH_MAX_WINDOWS]
        /\ timer' \in [Hosts -> 0..(FETCH_TIMEOUT + FETCH_RETRY)]
        /\ requests' \subseteq [host : Hosts, offset : 0..total]
        /\ fetch'[h] = "done" => Len(d) = total
        /\ \A g \in Hosts \ {h} : fetch'[g] = fetch[g]
    <3> HIDE DEF d
    <3>1. /\ fetch[h] = "waiting" /\ fetch \in [Hosts -> {"none", "waiting", "failed", "done"}]
          /\ windows \in [Hosts -> 0..FETCH_MAX_WINDOWS]
          /\ timer \in [Hosts -> 0..(FETCH_TIMEOUT + FETCH_RETRY)]
          /\ requests \subseteq [host : Hosts, offset : 0..total]
      BY DEF ReceivePart, FetchInv, FetchTypeOK
    <3>2. CASE /\ Len(d) = p.total
               /\ fetch' = [fetch EXCEPT ![h] = "done"]
               /\ timer' = [timer EXCEPT ![h] = 0]
               /\ UNCHANGED <<windows, requests>>
      BY <2>1, <3>1, <3>2
    <3>3. CASE /\ windows[h] < FETCH_MAX_WINDOWS
               /\ windows' = [windows EXCEPT ![h] = @ + 1]
               /\ requests' = requests \cup {Request(h, d)}
               /\ UNCHANGED <<fetch, timer>>
      <4>1. Request(h, d) \in [host : Hosts, offset : 0..total]
        BY <2>3, <2>4 DEF Request
      <4>2. QED
        BY <3>1, <3>3, <4>1
    <3>4. CASE /\ fetch' = [fetch EXCEPT ![h] = "failed"]
               /\ timer' = [timer EXCEPT ![h] = FETCH_RETRY]
               /\ UNCHANGED <<windows, requests>>
      BY <3>1, <3>4
    <3>5. QED
      BY <1>5, <3>2, <3>3, <3>4 DEF ReceivePart, d
  <2>7. FetchTypeOK'
    BY <1>1, <1>2, <2>3, <2>5, <2>6 DEF FetchInv, FetchTypeOK
  <2>8. PrefixOfDescription'
    <3>1. data'[h] = d /\ \A g \in Hosts \ {h} : data'[g] = data[g]
      BY <2>5 DEF FetchInv, FetchTypeOK
    <3>2. QED
      BY <1>1, <2>3, <2>4, <2>6, <3>1 DEF FetchInv, PrefixOfDescription
  <2>9. QED
    BY <1>2, <1>3, <2>7, <2>8 DEF FetchInv
<1>6. QED
  BY <1>4, <1>5 DEF ReceivePart

LEMMA TimeOutKeeps == ASSUME FetchInv, NEW h \in Hosts, TimeOut(h) PROVE FetchInv'
<1> USE DescriptionFetchAssumption
<1>1. TypeOK' /\ Timely' /\ clock' = clock
  BY DEF TimeOut, FetchInv, FetchTypeOK, TypeOK, Timely, SinceTick, scheduler_vars, loop_vars,
         schedule_vars, schedule_ghosts
<1>2. FetchTypeOK' /\ Elapsed' /\ WindowsFit'
  BY <1>1 DEF TimeOut, FetchInv, FetchTypeOK, Elapsed, SinceStamp, WindowsFit, network
<1>3. PrefixOfDescription'
  BY DEF TimeOut, FetchInv, FetchTypeOK, PrefixOfDescription
<1>4. QED
  BY <1>1, <1>2, <1>3 DEF FetchInv

LEMMA LossKeeps == ASSUME FetchInv, LosePacket PROVE FetchInv'
<1>1. TypeOK' /\ Timely' /\ clock' = clock
  BY DEF LosePacket, FetchInv, FetchTypeOK, TypeOK, Timely, SinceTick, scheduler_vars, loop_vars,
         schedule_vars, schedule_ghosts
<1>2. requests' \subseteq requests /\ parts' \subseteq parts /\ faults' \in 0..MaxFaults
  BY DescriptionFetchAssumption DEF LosePacket, FetchInv, FetchTypeOK
<1>3. FetchTypeOK' /\ Elapsed' /\ WindowsFit'
  BY <1>1, <1>2 DEF LosePacket, FetchInv, FetchTypeOK, Elapsed, SinceStamp, WindowsFit, host_vars
<1>4. PrefixOfDescription'
  BY DEF LosePacket, FetchInv, PrefixOfDescription, host_vars
<1>5. QED
  BY <1>1, <1>3, <1>4 DEF FetchInv

LEMMA FetchTimeKeeps == ASSUME FetchInv, FetchTimePasses PROVE FetchInv'
<1> USE DescriptionFetchAssumption
<1>1. TypeOK' /\ Timely'
  BY TimeKeeps DEF FetchTimePasses, FetchInv, FetchTypeOK
<1>2. timer' \in [Hosts -> 0..(FETCH_TIMEOUT + FETCH_RETRY)]
  <2>1. \A h \in Hosts : Less(timer[h]) \in 0..(FETCH_TIMEOUT + FETCH_RETRY)
    BY DEF Less, FetchInv, FetchTypeOK
  <2>2. QED
    BY <2>1 DEF FetchTimePasses
<1>3. faults' \in 0..MaxFaults /\ since_part' \in 0..PartInterval
  BY DEF FetchTimePasses, FetchInv, FetchTypeOK
<1>4. FetchTypeOK' /\ WindowsFit'
  BY <1>1, <1>2, <1>3 DEF FetchTimePasses, FetchInv, FetchTypeOK, WindowsFit, network
<1>5. PrefixOfDescription'
  BY DEF FetchTimePasses, FetchInv, PrefixOfDescription
<1>6. Elapsed'
  <2>1. SUFFICES ASSUME last_description_part_micros_ # 0, since_part' < PartInterval
                 PROVE  SinceStamp' = since_part'
    BY DEF Elapsed, FetchTimePasses
  <2>2. since_part \in Nat /\ since_part' = since_part + 1 /\ SinceStamp = since_part
    BY <2>1 DEF FetchTimePasses, FetchInv, FetchTypeOK, Elapsed
  <2>3. SinceStamp < Wrap - 1
    BY <2>1, <2>2, WrapIsPositive
  <2>4. /\ clock \in 0..(Wrap - 1) /\ clock' = (clock + 1) % Wrap
        /\ last_description_part_micros_ \in 0..(Wrap - 1)
        /\ UNCHANGED last_description_part_micros_
    BY DEF FetchTimePasses, TimePasses, FetchInv, FetchTypeOK, TypeOK
  <2>5. SinceStamp' = SinceStamp + 1
    BY <2>3, <2>4, OneLater, WrapIsPositive DEF SinceStamp
  <2>6. QED
    BY <2>2, <2>5
<1>7. QED
  BY <1>1, <1>4, <1>5, <1>6 DEF FetchInv

LEMMA FetchNextInv == FetchInv /\ [FetchNext]_fetch_vars => FetchInv'
<1> SUFFICES ASSUME FetchInv, [FetchNext]_fetch_vars PROVE FetchInv'
  OBVIOUS
<1>1. CASE UNCHANGED fetch_vars
  <2>1. TypeOK' /\ Timely' /\ clock' = clock /\ FetchUnchanged
    BY <1>1 DEF fetch_vars, FetchUnchanged, FetchInv, FetchTypeOK, TypeOK, Timely, SinceTick,
                scheduler_vars, loop_vars, schedule_vars, schedule_ghosts
  <2>2. QED
    BY <2>1, FrameKeeps
<1>2. QED
  BY <1>1, SchedulerKeeps, RequestKeeps, AdvertiseKeeps, ReceiveKeeps, TimeOutKeeps, LossKeeps,
     FetchTimeKeeps
  DEF FetchNext, HostStep

LEMMA FetchInvariance == FetchSpec => []FetchInv
BY FetchInitInv, FetchNextInv, PTL DEF FetchSpec

\* Every variable of the loop, the service and the hosts keeps its type.
THEOREM TypeCorrect == FetchSpec => []FetchTypeOK
<1>1. FetchInv => FetchTypeOK
  BY DEF FetchInv
<1>2. QED
  BY <1>1, FetchInvariance, PTL

\* A host only ever has a prefix of the description, and all of it when done.
THEOREM PrefixOfDescriptionHolds == FetchSpec => []PrefixOfDescription
<1>1. FetchInv => PrefixOfDescription
  BY DEF FetchInv
<1>2. QED
  BY <1>1, FetchInvariance, PTL

(***************************************************************************)
(* Two answers are PartInterval apart: only HandleDescriptionRequest adds  *)
(* a window, and the stamps it compares mean what they say (Elapsed).      *)
(***************************************************************************)
THEOREM PartsApartHolds == FetchSpec => PartsApart
<1> DEFINE Apart == (\E p \in parts' : p \notin parts) =>
                       last_description_part_micros_ = 0 \/ since_part >= PartInterval
<1>1. FetchInv /\ [FetchNext]_fetch_vars => [Apart]_fetch_vars
  <2> SUFFICES ASSUME FetchInv, FetchNext PROVE Apart
    OBVIOUS
  <2>1. CASE parts' \subseteq parts
    BY <2>1
  <2>2. ASSUME NEW r \in requests, HandleDescriptionRequest(r) PROVE Apart
    <3>1. CASE UNCHANGED parts
      BY <3>1
    <3>2. CASE ~RateLimited
      BY <3>2, DescriptionFetchAssumption, WrapIsPositive
      DEF RateLimited, FetchInv, FetchTypeOK, Elapsed, SinceStamp
    <3>3. QED
      BY <2>2, <3>1, <3>2 DEF HandleDescriptionRequest
  <2>3. CASE Advertise
    BY <2>1, <2>3 DEF Advertise, Start
  <2>4. CASE QuietStep \/ FetchTimePasses \/ LosePacket \/ FetchUnchanged
    BY <2>1, <2>4 DEF QuietStep, FetchTimePasses, LosePacket, FetchUnchanged, network
  <2>5. ASSUME NEW h \in Hosts, HostStep(h) PROVE Apart
    BY <2>1, <2>5 DEF HostStep, TimeOut, ReceivePart, Received, network
  <2>6. QED
    BY <2>2, <2>3, <2>4, <2>5 DEF FetchNext
<1>2. QED
  BY <1>1, FetchInvariance, PTL DEF FetchSpec, PartsApart

----------------------------------------------------------------------------
(***************************************************************************)
(* When schedules run.  The clock tells the loop how long ago a schedule   *)
(* was armed or fired, but for what another arming has hidden: a schedule  *)
(* that is changed too late (missed), or a flag that is set while its      *)
(* last_tick_ is so old that the difference has wrapped.  What the loop    *)
(* knows, what has passed, and what the wait leaves fit together.          *)
(***************************************************************************)
SinceArmed(s) == SinceLastTick(s) + SinceTick

Allowance(s) == IF s \in missed THEN MaxBlock ELSE 0

\* A wait of this length ends in time for s.
WakesInTime(s, left) ==
  \/ age[s] + left <= Allowance(s)
  \/ /\ age[s] <= SinceArmed(s) + Allowance(s)
     /\ SinceArmed(s) + left <= interval_[s]

\* Tick() has been at s: it counts for the wait, or was changed since then.
CountsForWait(s) ==
  \/ s \in missed /\ age[s] = 0
  \/ SinceLastTick(s) + min_sleep_time <= interval_[s]

OnTime(s) ==
  IsEnabled(s) =>
    /\ pc = "handle" => WakesInTime(s, 0)
    /\ pc = "wait" => WakesInTime(s, block_time)
    /\ pc \in {"tick", "callback"} => /\ age[s] <= SinceLastTick(s) + Allowance(s)
                                      /\ s < at => CountsForWait(s)

\* What the loop takes for the time since s was armed is not more than that.
NotAhead(s) ==
  IsEnabled(s) /\ s \notin Managed =>
    age[s] > MaxInterval + MaxBlock \/ SinceArmed(s) <= age[s] + lead[s]

ScheduleInv ==
  /\ TypeOK /\ Timely
  /\ \A s \in Schedules : OnTime(s) /\ NotAhead(s)

LEMMA SumInRound ==
  ASSUME NEW W \in Nat \ {0}, NEW a \in 0..(W - 1), NEW d \in 0..(W - 1)
  PROVE  (a + d) % W = IF a + d < W THEN a + d ELSE a + d - W
<1>0. DEFINE x == a + d
<1>1. x \in Int
  OBVIOUS
<1>2. x = W * (x \div W) + (x % W) /\ x % W \in 0..(W - 1) /\ x \div W \in Int
  BY <1>1, SMT
<1>3. PICK q \in Int, r \in 0..(W - 1) : a + d = W * q + r /\ r = (a + d) % W
  BY <1>2
<1>4. CASE q = 0
  BY <1>3, <1>4
<1>5. CASE q = 1
  BY <1>3, <1>5
<1>6. CASE q >= 2
  <2>1. W * q >= W + W
    BY <1>6, SMT
  <2>2. QED
    BY <1>3, <2>1
<1>7. CASE q <= -1
  <2>1. W * q <= -W
    BY <1>7, SMT
  <2>2. QED
    BY <1>3, <2>1
<1>8. QED
  BY <1>3, <1>4, <1>5, <1>6, <1>7

\* The time since a stamp, when the clock has moved on by less than a round.
LEMMA MovedOn ==
  ASSUME NEW W \in Nat \ {0}, NEW a \in 0..(W - 1), NEW b \in 0..(W - 1), NEW d \in 0..(W - 1)
  PROVE  (((a + d) % W) - b) % W = IF ((a - b) % W) + d < W THEN ((a - b) % W) + d
                                   ELSE ((a - b) % W) + d - W
<1>1. (a + d) % W = IF a + d < W THEN a + d ELSE a + d - W
  BY SumInRound
<1>2. (a + d) % W \in 0..(W - 1)
  BY <1>1
<1>3. (((a + d) % W) - b) % W = IF b <= (a + d) % W THEN ((a + d) % W) - b ELSE ((a + d) % W) - b + W
  BY <1>2, Difference
<1>4. (a - b) % W = IF b <= a THEN a - b ELSE a - b + W
  BY Difference
<1>5. CASE a + d < W
  <2>1. (a + d) % W = a + d
    BY <1>1, <1>5
  <2>2. QED
    BY <1>3, <1>4, <1>5, <2>1
<1>6. CASE a + d >= W
  <2>1. (a + d) % W = a + d - W
    BY <1>1, <1>6
  <2>2. QED
    BY <1>3, <1>4, <1>6, <2>1
<1>7. QED
  BY <1>5, <1>6

\* The longest interval: there is one, since all are less than a round.
LEMMA MaxIntervalIs == MaxInterval \in Nat /\ \A i \in Intervals : i <= MaxInterval
<1> DEFINE S == {Wrap - i : i \in Intervals \cup {0}}
<1>1. Intervals \cup {0} \subseteq 0..Wrap /\ Wrap \in Nat
  BY SchedulerAssumption
<1>2. S \subseteq Nat /\ S # {}
  BY <1>1
<1>3. PICK n \in S : \A m \in S : ~(<<m, n>> \in OpToRel(<, Nat))
  <2> HIDE DEF S
  <2>1. QED
    BY <1>2, NatLessThanWellFounded, WFMin
<1>4. \A m \in S : ~(m < n)
  BY <1>2, <1>3 DEF OpToRel
<1>5. PICK x \in Intervals \cup {0} : n = Wrap - x
  BY <1>3
<1>6. ASSUME NEW y \in Intervals \cup {0} PROVE x >= y
  <2>1. Wrap - y \in S
    OBVIOUS
  <2>2. ~(Wrap - y < Wrap - x)
    BY <1>4, <1>5, <2>1
  <2>3. QED
    BY <1>1, <2>2
<1>7. /\ MaxInterval \in Intervals \cup {0}
      /\ \A y \in Intervals \cup {0} : MaxInterval >= y
  BY <1>6 DEF MaxInterval, Max
<1>8. QED
  BY <1>1, <1>7

\* The numbers the invariant is about.
Numbers(s) ==
  /\ SinceLastTick(s) \in 0..(Wrap - 1) /\ SinceTick \in 0..(Wrap - 1)
  /\ age[s] \in Nat /\ lead[s] \in 0..MaxBlock /\ Allowance(s) \in 0..MaxBlock
  /\ interval_[s] \in Intervals /\ interval_[s] \in Nat /\ interval_[s] + MaxBlock < Wrap
  /\ MaxBlock \in Nat /\ Wrap \in Nat
  /\ now_ \in 0..(Wrap - 1) /\ last_tick_[s] \in 0..(Wrap - 1)
  /\ (now_ = last_tick_[s] => SinceLastTick(s) = 0)
  /\ block_time \in 0..MaxBlock /\ min_sleep_time \in 0..Wrap /\ at \in Nat
  /\ (s \in missed => Allowance(s) = MaxBlock)

AllNumbers == \A s \in Schedules : Numbers(s)

LEMMA NumbersAre == TypeOK => AllNumbers
<1> SUFFICES ASSUME TypeOK, NEW s \in Schedules PROVE Numbers(s)
  BY DEF AllNumbers
<1>1. now_ \in 0..(Wrap - 1) /\ last_tick_[s] \in 0..(Wrap - 1)
  BY DEF TypeOK
<1>2. now_ - last_tick_[s] \in Int
  BY <1>1, WrapIsPositive
<1>3. SinceLastTick(s) \in 0..(Wrap - 1)
  BY <1>2, WrapIsPositive, InRange DEF SinceLastTick
<1>4. now_ = last_tick_[s] => SinceLastTick(s) = 0
  BY <1>1, WrapIsPositive, Difference DEF SinceLastTick
<1>5. /\ Allowance(s) \in 0..MaxBlock /\ (s \in missed => Allowance(s) = MaxBlock)
      /\ MaxBlock \in Nat /\ Wrap \in Nat
  BY SchedulerAssumption DEF Allowance
<1>6. /\ age[s] \in Nat /\ lead[s] \in 0..MaxBlock
      /\ interval_[s] \in Intervals /\ interval_[s] \in Nat /\ interval_[s] + MaxBlock < Wrap
      /\ block_time \in 0..MaxBlock /\ min_sleep_time \in 0..Wrap /\ at \in Nat
  BY SchedulerAssumption DEF TypeOK, NO_ENABLED_SCHEDULE
<1>7. QED
  BY <1>1, <1>3, <1>4, <1>5, <1>6, SinceTickType DEF Numbers

LEMMA NumbersWillBe == TypeOK' => AllNumbers'
BY NumbersAre, PTL

\* A schedule that was just armed, or whose flag was just set.
LEMMA JustArmed ==
  ASSUME TypeOK', NEW s \in Schedules, age'[s] = 0,
         s \in missed' \/ pc' = "handle" \/ (pc' = "callback" /\ ~(s < at'))
  PROVE  OnTime(s)'
<1>1. Numbers(s)'
  BY NumbersWillBe DEF AllNumbers
<1>2. QED
  BY <1>1 DEF Numbers, OnTime, WakesInTime, CountsForWait

LEMMA RearmOnTime ==
  ASSUME ScheduleInv, NEW s \in Schedules, Rearm(s), pc # "tick", TypeOK', Timely',
         \A r \in Schedules \ {s} : IsEnabled(r)' = IsEnabled(r) /\ interval_'[r] = interval_[r]
  PROVE  ScheduleInv'
<1> USE DEF ScheduleInv
<1>1. /\ pc' = pc /\ now_' = now_ /\ at' = at /\ SinceTick' = SinceTick
      /\ block_time' = block_time /\ min_sleep_time' = min_sleep_time
  BY DEF Rearm, loop_vars, SinceTick
<1>2. ASSUME NEW r \in Schedules, r # s PROVE OnTime(r)' /\ NotAhead(r)'
  <2>1. age'[r] = age[r] /\ lead'[r] = lead[r] /\ last_tick_'[r] = last_tick_[r]
        /\ (r \in missed' <=> r \in missed)
    BY <1>2 DEF Rearm, TypeOK
  <2>2. SinceLastTick(r)' = SinceLastTick(r) /\ Allowance(r)' = Allowance(r)
    BY <1>1, <2>1 DEF SinceLastTick, Allowance
  <2>3. QED
    BY <1>1, <1>2, <2>1, <2>2
    DEF OnTime, NotAhead, WakesInTime, CountsForWait, SinceArmed
<1>3. age'[s] = 0 /\ lead'[s] = SinceTick /\ last_tick_'[s] = now_
  BY DEF Rearm, NewLastTick, TypeOK
<1>4. OnTime(s)'
  <2>1. s \in missed' \/ pc' = "handle" \/ (pc' = "callback" /\ ~(s < at'))
    BY <1>1 DEF Rearm, TooLate, TypeOK
  <2>2. QED
    BY <1>3, <2>1, JustArmed
<1>5. NotAhead(s)'
  <2>1. SinceLastTick(s)' = 0 /\ SinceTick \in Nat
    BY <1>1, <1>3, NumbersAre, NumbersWillBe DEF AllNumbers, Numbers
  <2>2. QED
    BY <1>1, <1>3, <2>1 DEF NotAhead, SinceArmed
<1>6. QED
  BY <1>2, <1>4, <1>5

LEMMA ChangeOnTime == ASSUME ScheduleInv, Change PROVE ScheduleInv'
<1>0. TypeOK' /\ Timely'
  BY ChangeKeeps DEF ScheduleInv
<1>1. ASSUME NEW s \in Schedules, NEW i \in Intervals, SetInterval(s, i) PROVE ScheduleInv'
  <2>1. \A r \in Schedules \ {s} : IsEnabled(r)' = IsEnabled(r) /\ interval_'[r] = interval_[r]
    BY <1>1 DEF SetInterval, IsEnabled, ScheduleInv, TypeOK
  <2>2. QED
    BY <1>0, <1>1, <2>1, RearmOnTime DEF SetInterval, MayChange
<1>2. ASSUME NEW s \in Schedules, NEW e \in BOOLEAN, SetEnabled(s, e) PROVE ScheduleInv'
  <2>1. \A r \in Schedules \ {s} : IsEnabled(r)' = IsEnabled(r) /\ interval_'[r] = interval_[r]
    BY <1>2 DEF SetEnabled, IsEnabled, ScheduleInv, TypeOK
  <2>2. QED
    BY <1>0, <1>2, <2>1, RearmOnTime DEF SetEnabled, MayChange
<1>3. ASSUME NEW s \in Schedules, ChangeFlag(s) PROVE ScheduleInv'
  <2>1. /\ pc' = pc /\ now_' = now_ /\ at' = at /\ SinceTick' = SinceTick
        /\ block_time' = block_time /\ min_sleep_time' = min_sleep_time
        /\ UNCHANGED <<lead, interval_, last_tick_>>
    BY <1>3 DEF ChangeFlag, loop_vars, SinceTick
  <2>2. ASSUME NEW r \in Schedules, r # s PROVE OnTime(r)' /\ NotAhead(r)'
    <3>1. /\ age'[r] = age[r] /\ (r \in missed' <=> r \in missed)
          /\ IsEnabled(r)' = IsEnabled(r)
      BY <1>3, <2>2 DEF ChangeFlag, ScheduleInv, TypeOK, IsEnabled
    <3>2. SinceLastTick(r)' = SinceLastTick(r) /\ Allowance(r)' = Allowance(r)
      BY <2>1, <3>1 DEF SinceLastTick, Allowance
    <3>3. QED
      BY <2>1, <2>2, <3>1, <3>2
      DEF ScheduleInv, OnTime, NotAhead, WakesInTime, CountsForWait, SinceArmed
  <2>3. OnTime(s)'
    <3>1. age'[s] = 0 /\ (s \in missed' \/ pc' = "handle" \/ (pc' = "callback" /\ ~(s < at')))
      BY <1>3, <2>1 DEF ChangeFlag, TooLate, ScheduleInv, TypeOK
    <3>2. QED
      BY <1>0, <3>1, JustArmed
  <2>4. NotAhead(s)'
    BY <1>3 DEF ChangeFlag, NotAhead
  <2>5. QED
    BY <1>0, <2>2, <2>3, <2>4 DEF ScheduleInv
<1>4. QED
  BY <1>1, <1>2, <1>3 DEF Change

LEMMA BeginOnTime == ASSUME ScheduleInv, BeginTick, TypeOK', Timely' PROVE ScheduleInv'
<1> SUFFICES ASSUME NEW s \in Schedules PROVE OnTime(s)' /\ NotAhead(s)'
  BY DEF ScheduleInv
<1>1. /\ pc = "handle" /\ pc' = "tick" /\ at' = 1
      /\ UNCHANGED <<age, lead, missed, last_tick_>>
      /\ IsEnabled(s)' = IsEnabled(s) /\ Allowance(s)' = Allowance(s)
  BY DEF BeginTick, schedule_vars, schedule_ghosts, IsEnabled, Allowance
<1>2. Numbers(s) /\ Numbers(s)'
  BY NumbersAre, NumbersWillBe DEF ScheduleInv, AllNumbers
<1>3. SinceTick' = 0
  <2>1. clock' = last_tick_micros'
    BY DEF BeginTick
  <2>2. clock \in 0..(Wrap - 1) /\ clock' = clock
    BY DEF BeginTick, ScheduleInv, TypeOK
  <2>3. QED
    BY <2>1, <2>2, WrapIsPositive, Difference DEF SinceTick
<1>4. SinceLastTick(s)' = IF SinceArmed(s) < Wrap THEN SinceArmed(s) ELSE SinceArmed(s) - Wrap
  <2>1. now_' = (now_ + SinceTick) % Wrap
    BY DEF BeginTick
  <2>2. (((now_ + SinceTick) % Wrap) - last_tick_[s]) % Wrap =
          IF ((now_ - last_tick_[s]) % Wrap) + SinceTick < Wrap
            THEN ((now_ - last_tick_[s]) % Wrap) + SinceTick
            ELSE ((now_ - last_tick_[s]) % Wrap) + SinceTick - Wrap
    <3>1. SinceTick \in 0..(Wrap - 1) /\ now_ \in 0..(Wrap - 1) /\ last_tick_[s] \in 0..(Wrap - 1)
      BY <1>2 DEF Numbers
    <3>2. QED
      BY <3>1, MovedOn, WrapIsPositive
  <2>3. SinceLastTick(s)' = (((now_ + SinceTick) % Wrap) - last_tick_[s]) % Wrap
    BY <1>1, <2>1 DEF SinceLastTick
  <2>4. SinceLastTick(s) = (now_ - last_tick_[s]) % Wrap
    BY DEF SinceLastTick
  <2>5. SinceLastTick(s) \in Int /\ SinceTick \in Int /\ Wrap \in Int
    BY <1>2 DEF Numbers
  <2>6. QED
    BY <2>2, <2>3, <2>4, <2>5 DEF SinceArmed
<1>5. SinceArmed(s)' <= SinceArmed(s) /\ SinceArmed(s) \in Nat /\ SinceArmed(s)' \in Nat
  BY <1>2, <1>3, <1>4 DEF SinceArmed, Numbers
<1>6. NotAhead(s)'
  <2>1. age[s] \in Nat /\ lead[s] \in Nat
    BY <1>2 DEF Numbers
  <2>2. SUFFICES ASSUME IsEnabled(s), s \notin Managed, ~(age[s] > MaxInterval + MaxBlock)
                 PROVE  SinceArmed(s)' <= age[s] + lead[s]
    BY <1>1 DEF NotAhead
  <2>3. SinceArmed(s) <= age[s] + lead[s]
    BY <2>2 DEF ScheduleInv, NotAhead
  <2>4. QED
    BY <1>5, <2>1, <2>3
<1>7. OnTime(s)'
  <2>1. SUFFICES ASSUME IsEnabled(s) PROVE age[s] <= SinceLastTick(s)' + Allowance(s)
    BY <1>1, <1>2 DEF OnTime, Numbers, Schedules
  <2>2. WakesInTime(s, 0)
    BY <1>1, <2>1 DEF ScheduleInv, OnTime
  <2>3. QED
    BY <1>2, <1>4, <2>2 DEF WakesInTime, Numbers, SinceArmed
<1>8. QED
  BY <1>6, <1>7

LEMMA VisitOnTime == ASSUME ScheduleInv, Visit, TypeOK', Timely' PROVE ScheduleInv'
<1> SUFFICES ASSUME NEW s \in Schedules PROVE OnTime(s)' /\ NotAhead(s)'
  BY DEF ScheduleInv
<1>1. /\ pc = "tick" /\ pc' \in {"tick", "callback"} /\ at \in Schedules
      /\ UNCHANGED <<age, lead, missed, last_tick_, now_, interval_>>
      /\ IsEnabled(s)' = IsEnabled(s) /\ Allowance(s)' = Allowance(s)
      /\ SinceTick' = SinceTick /\ SinceLastTick(s)' = SinceLastTick(s)
  BY DEF Visit, schedule_vars, schedule_ghosts, IsEnabled, Allowance, SinceTick, SinceLastTick,
         ScheduleInv, TypeOK, Schedules
<1>2. Numbers(s) /\ Numbers(s)' /\ Numbers(at)
  BY <1>1, NumbersAre, NumbersWillBe DEF ScheduleInv, AllNumbers
<1>3. NotAhead(s)'
  BY <1>1 DEF ScheduleInv, NotAhead, SinceArmed
<1>4. min_sleep_time' \in Nat /\ min_sleep_time' <= min_sleep_time
  BY <1>2 DEF Visit, Sooner, Numbers
<1>5. s < at => (CountsForWait(s) => CountsForWait(s)')
  BY <1>1, <1>2, <1>4 DEF CountsForWait, Numbers
<1>6. s = at /\ at' # at /\ IsEnabled(s) => CountsForWait(s)'
  BY <1>1, <1>2 DEF Visit, IsDue, Sooner, CountsForWait, Numbers
<1>7. at' = at \/ at' = at + 1
  BY DEF Visit
<1>8. OnTime(s)'
  <2>1. SUFFICES ASSUME IsEnabled(s)
                 PROVE  age[s] <= SinceLastTick(s) + Allowance(s) /\ (s < at' => CountsForWait(s)')
    BY <1>1 DEF OnTime
  <2>2. age[s] <= SinceLastTick(s) + Allowance(s) /\ (s < at => CountsForWait(s))
    BY <1>1, <2>1 DEF ScheduleInv, OnTime
  <2>3. s < at' => s < at \/ (s = at /\ at' # at)
    BY <1>1, <1>7 DEF Schedules
  <2>4. QED
    BY <1>5, <1>6, <2>1, <2>2, <2>3
<1>9. QED
  BY <1>3, <1>8

LEMMA EndOnTime == ASSUME ScheduleInv, EndCallback, TypeOK', Timely' PROVE ScheduleInv'
<1> SUFFICES ASSUME NEW s \in Schedules PROVE OnTime(s)' /\ NotAhead(s)'
  BY DEF ScheduleInv
<1>1. /\ pc = "callback" /\ pc' = "tick" /\ at' = at + 1 /\ at \in Schedules
      /\ IsEnabled(s)' = IsEnabled(s) /\ SinceTick' = SinceTick /\ SinceTick = 0
      /\ UNCHANGED <<now_, interval_>>
  BY SinceTickType
  DEF EndCallback, IsEnabled, SinceTick, ScheduleInv, TypeOK, Timely, Schedules
<1>2. Numbers(s) /\ Numbers(s)' /\ Numbers(at)
  BY <1>1, NumbersAre, NumbersWillBe DEF ScheduleInv, AllNumbers
<1>3. min_sleep_time' <= min_sleep_time /\ min_sleep_time' <= interval_[at]
  BY <1>2 DEF EndCallback, Sooner, Numbers
<1>4. CASE s = at
  <2>1. age'[s] = 0 /\ lead'[s] = 0 /\ last_tick_'[s] = now_'
    BY <1>1, <1>4 DEF EndCallback, FiredTime, ScheduleInv, TypeOK
  <2>2. SinceLastTick(s)' = 0
    BY <1>2, <2>1 DEF Numbers
  <2>3. QED
    BY <1>1, <1>2, <1>3, <1>4, <2>1, <2>2
    DEF OnTime, NotAhead, CountsForWait, SinceArmed, Numbers
<1>5. CASE s # at
  <2>1. /\ age'[s] = age[s] /\ lead'[s] = lead[s] /\ last_tick_'[s] = last_tick_[s]
        /\ (s \in missed' <=> s \in missed)
    BY <1>1, <1>5 DEF EndCallback, ScheduleInv, TypeOK
  <2>2. SinceLastTick(s)' = SinceLastTick(s) /\ Allowance(s)' = Allowance(s)
    BY <1>1, <2>1 DEF SinceLastTick, Allowance
  <2>3. s < at' => s < at
    BY <1>1, <1>5 DEF Schedules
  <2>4. CountsForWait(s) => CountsForWait(s)'
    BY <1>1, <1>2, <1>3, <2>1, <2>2 DEF CountsForWait, Numbers
  <2>5. QED
    BY <1>1, <2>1, <2>2, <2>3, <2>4 DEF ScheduleInv, OnTime, NotAhead, SinceArmed
<1>6. QED
  BY <1>4, <1>5

LEMMA WaitOnTime ==
  ASSUME ScheduleInv, EndTick \/ StopWaiting \/ HandlePacket, TypeOK', Timely'
  PROVE  ScheduleInv'
<1> SUFFICES ASSUME NEW s \in Schedules PROVE OnTime(s)' /\ NotAhead(s)'
  BY DEF ScheduleInv
<1>1. /\ UNCHANGED <<clock, last_tick_micros, now_, at, schedule_vars, schedule_ghosts>>
      /\ IsEnabled(s)' = IsEnabled(s) /\ Allowance(s)' = Allowance(s)
      /\ SinceTick' = SinceTick /\ SinceLastTick(s)' = SinceLastTick(s)
  BY DEF EndTick, StopWaiting, HandlePacket, loop_vars, schedule_vars, schedule_ghosts, IsEnabled,
         Allowance, SinceTick, SinceLastTick
<1>2. Numbers(s) /\ Numbers(s)'
  BY NumbersAre, NumbersWillBe DEF ScheduleInv, AllNumbers
<1>3. NotAhead(s)'
  BY <1>1 DEF ScheduleInv, NotAhead, SinceArmed, schedule_vars, schedule_ghosts
<1>4. CASE EndTick
  <2>1. /\ pc = "tick" /\ pc' = "wait" /\ s < at /\ SinceTick = 0
        /\ block_time' <= min_sleep_time /\ block_time' <= MaxBlock
    <3>1. pc = "tick" /\ pc' = "wait" /\ at > N /\ at \in Nat
      BY <1>2, <1>4 DEF EndTick, Numbers
    <3>2. N \in Nat /\ s <= N /\ s \in Nat
      BY SchedulerAssumption DEF Schedules
    <3>3. SinceTick = 0
      BY <3>1, SinceTickType DEF ScheduleInv, Timely
    <3>4. block_time' <= min_sleep_time /\ block_time' <= MaxBlock
      BY <1>2, <1>4 DEF EndTick, Numbers
    <3>5. QED
      BY <3>1, <3>2, <3>3, <3>4
  <2>2. SUFFICES ASSUME IsEnabled(s) PROVE WakesInTime(s, block_time)'
    BY <1>1, <1>3, <2>1 DEF OnTime
  <2>3. age[s] <= SinceLastTick(s) + Allowance(s) /\ CountsForWait(s)
    BY <2>1, <2>2 DEF ScheduleInv, OnTime
  <2>4. age' = age
    BY <1>1 DEF schedule_ghosts
  <2>5. interval_' = interval_
    BY <1>1 DEF schedule_vars
  <2>6. CASE s \in missed /\ age[s] = 0
    <3>1. Allowance(s) = MaxBlock /\ block_time' \in Int /\ block_time' <= MaxBlock
      BY <1>2, <2>1, <2>6 DEF Numbers
    <3>2. age'[s] = 0 /\ Allowance(s)' = MaxBlock
      BY <1>1, <2>4, <2>6, <3>1
    <3>3. PICK left \in Int : left = block_time' /\ left <= MaxBlock
      BY <3>1
    <3>4. age'[s] + left <= Allowance(s)'
      BY <3>2, <3>3
    <3>5. QED
      BY <3>3, <3>4 DEF WakesInTime
  <2>7. CASE SinceLastTick(s) + min_sleep_time <= interval_[s]
    BY <1>1, <1>2, <2>1, <2>3, <2>4, <2>5, <2>7 DEF WakesInTime, SinceArmed, Numbers
  <2>8. QED
    BY <2>3, <2>6, <2>7 DEF CountsForWait
<1>5. CASE StopWaiting \/ HandlePacket
  <2>1. pc = "wait" /\ pc' = "handle"
    BY <1>5 DEF StopWaiting, HandlePacket
  <2>2. SUFFICES ASSUME IsEnabled(s) PROVE WakesInTime(s, 0)'
    BY <1>1, <1>3, <2>1 DEF OnTime
  <2>3. WakesInTime(s, block_time)
    BY <2>1, <2>2 DEF ScheduleInv, OnTime
  <2>4. age' = age /\ interval_' = interval_
    BY <1>1 DEF schedule_vars, schedule_ghosts
  <2>5. QED
    BY <1>1, <1>2, <2>3, <2>4 DEF WakesInTime, SinceArmed, Numbers
<1>6. QED
  BY <1>3, <1>4, <1>5

LEMMA TimeOnTime == ASSUME ScheduleInv, TimePasses PROVE ScheduleInv'
<1>0. TypeOK' /\ Timely'
  BY TimeKeeps DEF ScheduleInv
<1> SUFFICES ASSUME NEW s \in Schedules PROVE OnTime(s)' /\ NotAhead(s)'
  BY <1>0 DEF ScheduleInv
<1>1. /\ pc = "wait" /\ pc' = "wait" /\ block_time > 0 /\ block_time' = block_time - 1
      /\ UNCHANGED <<lead, missed, interval_>>
      /\ IsEnabled(s)' = IsEnabled(s) /\ Allowance(s)' = Allowance(s)
      /\ SinceLastTick(s)' = SinceLastTick(s)
  BY DEF TimePasses, loop_vars, schedule_vars, IsEnabled, Allowance, SinceLastTick
<1>2. Numbers(s) /\ Numbers(s)'
  BY <1>0, NumbersAre, NumbersWillBe DEF ScheduleInv, AllNumbers
<1>3. SinceTick' = SinceTick + 1
  <2>1. SinceTick < Wrap - 1
    BY <1>1, <1>2, WrapIsPositive DEF ScheduleInv, Timely, Numbers
  <2>2. QED
    BY <2>1, OneLater, WrapIsPositive DEF TimePasses, ScheduleInv, TypeOK, SinceTick, loop_vars
<1>4. IsEnabled(s) =>
        age'[s] = IF age[s] > MaxInterval + MaxBlock THEN age[s] ELSE age[s] + 1
  BY DEF TimePasses, Older
<1>5. OnTime(s)'
  <2>1. SUFFICES ASSUME IsEnabled(s) PROVE WakesInTime(s, block_time)'
    BY <1>1 DEF OnTime
  <2>2. WakesInTime(s, block_time)
    BY <1>1, <2>1 DEF ScheduleInv, OnTime
  <2>3. age'[s] <= age[s] + 1
    BY <1>2, <1>4, <2>1 DEF Numbers
  <2>4. QED
    BY <1>1, <1>2, <1>3, <2>2, <2>3 DEF WakesInTime, SinceArmed, Numbers
<1>6. NotAhead(s)'
  <2>1. SUFFICES ASSUME IsEnabled(s), s \notin Managed, ~(age'[s] > MaxInterval + MaxBlock)
                 PROVE  SinceArmed(s)' <= age'[s] + lead[s]
    BY <1>1 DEF NotAhead
  <2>2. age'[s] = age[s] + 1 /\ SinceArmed(s)' = SinceArmed(s) + 1
    BY <1>1, <1>2, <1>3, <1>4, <2>1 DEF SinceArmed, Numbers
  <2>3. MaxInterval \in Nat
    BY MaxIntervalIs
  <2>4. SinceArmed(s) <= age[s] + lead[s]
    BY <1>2, <2>1, <2>2, <2>3 DEF ScheduleInv, NotAhead, Numbers
  <2>5. QED
    BY <1>2, <2>2, <2>4 DEF Numbers, SinceArmed
<1>7. QED
  BY <1>5, <1>6

LEMMA ScheduleInit == FetchInit => ScheduleInv
<1> SUFFICES ASSUME FetchInit, NEW s \in Schedules PROVE OnTime(s) /\ NotAhead(s)
  BY FetchInitInv DEF FetchInv, FetchTypeOK, ScheduleInv
<1>1. TypeOK /\ pc = "handle" /\ age[s] = 0 /\ now_ = last_tick_[s] /\ clock = last_tick_micros
  BY FetchInitInv DEF FetchInv, FetchTypeOK, FetchInit, SchedulerInit
<1>2. Numbers(s) /\ SinceTick = 0
  BY <1>1, NumbersAre, SinceTickType DEF AllNumbers
<1>3. QED
  BY <1>1, <1>2 DEF OnTime, NotAhead, WakesInTime, SinceArmed, Numbers

\* What any step does to the schedules and the loop.
LEMMA FetchStep ==
  ASSUME [FetchNext]_fetch_vars
  PROVE  \/ Change \/ BeginTick \/ Visit \/ EndCallback \/ EndTick \/ StopWaiting
         \/ HandlePacket \/ TimePasses \/ UNCHANGED scheduler_vars
BY DEF FetchNext, QuietStep, Advertise, FetchTimePasses, OtherPacket, HandleDescriptionRequest,
       HostStep, TimeOut, ReceivePart, LosePacket, fetch_vars

LEMMA ScheduleNext == FetchInv /\ FetchInv' /\ ScheduleInv /\ [FetchNext]_fetch_vars => ScheduleInv'
<1> SUFFICES ASSUME FetchInv, FetchInv', ScheduleInv, [FetchNext]_fetch_vars PROVE ScheduleInv'
  OBVIOUS
<1>1. TypeOK' /\ Timely'
  BY DEF FetchInv, FetchTypeOK
<1>2. CASE UNCHANGED scheduler_vars
  <2>1. \A s \in Schedules : OnTime(s)' /\ NotAhead(s)'
    BY <1>2
    DEF ScheduleInv, OnTime, NotAhead, WakesInTime, CountsForWait, SinceArmed, SinceLastTick,
        SinceTick, Allowance, IsEnabled, scheduler_vars, loop_vars, schedule_vars, schedule_ghosts
  <2>2. QED
    BY <1>1, <2>1 DEF ScheduleInv
<1>3. QED
  BY <1>1, <1>2, FetchStep, ChangeOnTime, BeginOnTime, VisitOnTime, EndOnTime, WaitOnTime, TimeOnTime

LEMMA ScheduleInvariance == FetchSpec => [](FetchInv /\ ScheduleInv)
BY FetchInitInv, ScheduleInit, FetchNextInv, ScheduleNext, PTL DEF FetchSpec

(***************************************************************************)
(* The loop never sleeps past the interval of an enabled schedule, but for *)
(* one that was changed after Tick() had passed it (Scheduler.cpp:53): for *)
(* any schedules, intervals and callbacks, and every width of the clock.   *)
(***************************************************************************)
THEOREM NeverLateHolds == FetchSpec => []NeverLate
<1>1. ScheduleInv => NeverLate
  <2> SUFFICES ASSUME ScheduleInv, NEW s \in Schedules, pc = "wait", IsEnabled(s)
               PROVE  age[s] <= interval_[s] + IF s \in missed THEN MaxBlock ELSE 0
    BY DEF NeverLate
  <2>1. Numbers(s) /\ WakesInTime(s, block_time)
    BY NumbersAre DEF ScheduleInv, AllNumbers, OnTime
  <2>2. age[s] <= interval_[s] + Allowance(s)
    BY <2>1 DEF Numbers, WakesInTime, SinceArmed
  <2>3. QED
    BY <2>2 DEF Allowance
<1>2. QED
  BY <1>1, ScheduleInvariance, PTL

(***************************************************************************)
(* No callback is run before its interval has passed, counted from the     *)
(* last Tick() before the schedule was armed (Schedule.cpp:27).            *)
(***************************************************************************)
THEOREM NeverEarlyHolds == FetchSpec => NeverEarly
<1> DEFINE Early == pc' = "callback" /\ pc # "callback" /\ at \notin Managed =>
                      age[at] + lead[at] >= interval_[at]
<1>1. ScheduleInv /\ [FetchNext]_fetch_vars => [Early]_scheduler_vars
  <2> SUFFICES ASSUME ScheduleInv, [FetchNext]_fetch_vars, ~UNCHANGED scheduler_vars,
                      pc' = "callback", pc # "callback", at \notin Managed
               PROVE  age[at] + lead[at] >= interval_[at]
    OBVIOUS
  <2>1. Visit
    BY FetchStep
    DEF Change, SetInterval, SetEnabled, ChangeFlag, Rearm, BeginTick, EndCallback, EndTick,
        StopWaiting, HandlePacket, TimePasses
  <2>2. at \in Schedules /\ IsEnabled(at) /\ IsDue(at)
    BY <2>1 DEF Visit, ScheduleInv, TypeOK, Schedules
  <2>3. Numbers(at) /\ NotAhead(at)
    BY <2>2, NumbersAre DEF ScheduleInv, AllNumbers
  <2>4. MaxInterval \in Nat /\ interval_[at] <= MaxInterval
    BY <2>3, MaxIntervalIs DEF Numbers
  <2>5. CASE age[at] > MaxInterval + MaxBlock
    BY <2>3, <2>4, <2>5 DEF Numbers
  <2>6. CASE SinceArmed(at) <= age[at] + lead[at]
    BY <2>2, <2>3, <2>6 DEF Numbers, SinceArmed, IsDue
  <2>7. QED
    BY <2>2, <2>3, <2>5, <2>6 DEF NotAhead
<1>2. QED
  BY <1>1, ScheduleInvariance, PTL DEF FetchSpec, NeverEarly
=============================================================================
