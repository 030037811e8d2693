----------------------------- MODULE Scheduler -----------------------------
(***************************************************************************)
(* The schedules of a service and the loop of its processing thread that   *)
(* runs them (Schedule.cpp, Scheduler.cpp, and runProcessing in            *)
(* Service.cpp).  Time is a clock of few bits that wraps around, and       *)
(* passes only while the loop waits for a packet.                          *)
(*                                                                         *)
(* Tick() holds the scheduler's mutex except during a callback, so the     *)
(* schedules may be changed by callbacks, by the handlers of packets, and  *)
(* by other threads while the loop waits.                                  *)
(***************************************************************************)
EXTENDS Naturals, FiniteSetsExt

CONSTANTS
  N,             \* schedules, in the order of the list
  Managed,       \* those that follow a flag of their owner's
  Intervals,     \* the intervals they may be given; 0 disables
  Wrap,          \* the clock counts modulo this (2^32 in the code)
  MaxBlock,      \* the longest wait of the loop
  MaxPackets,    \* bound: packets that wake the loop early
  MaxChanges     \* bound: changes to the schedules

Schedules == 1..N

ASSUME SchedulerAssumption ==
  /\ N \in Nat /\ Managed \subseteq Schedules
  /\ MaxBlock \in Nat \ {0} /\ Wrap \in Nat /\ MaxBlock < Wrap
  /\ \A i \in Intervals : i \in Nat /\ i + MaxBlock < Wrap
  /\ MaxPackets \in Nat /\ MaxChanges \in Nat

NO_ENABLED_SCHEDULE == Wrap

VARIABLES
  clock,             \* getTimeMicros()
  last_tick_micros,  \* what it was before the last Tick()
  now_,              \* the sum of what Tick() was given
  enabled_, interval_, last_tick_,
  pc,                \* the loop: "handle", "tick", "callback" or "wait"
  at,                \* the schedule Tick() has got to
  min_sleep_time,
  block_time,        \* what is left of the wait
  packets, changes,  \* ghost: counted for the bounds
  age,               \* ghost: time since a schedule was armed or fired
  lead,              \* ghost: how old last_tick_ was at that time
  missed             \* ghost: armed too late to count for the wait

schedule_vars == <<enabled_, interval_, last_tick_>>
loop_vars == <<last_tick_micros, now_, at, min_sleep_time>>
schedule_ghosts == <<age, lead, missed>>
scheduler_vars == <<clock, loop_vars, schedule_vars, pc, block_time, packets, changes,
                    schedule_ghosts>>

IsEnabled(s) == enabled_[s] /\ interval_[s] # 0

MaxInterval == Max(Intervals \cup {0})

TypeOK ==
  /\ {clock, last_tick_micros, now_} \subseteq 0..(Wrap - 1)
  /\ enabled_ \in [Schedules -> BOOLEAN]
  /\ interval_ \in [Schedules -> Intervals]
  /\ last_tick_ \in [Schedules -> 0..(Wrap - 1)]
  /\ pc \in {"handle", "tick", "callback", "wait"}
  /\ at \in 1..(N + 1)
  /\ min_sleep_time \in 0..NO_ENABLED_SCHEDULE
  /\ block_time \in 0..MaxBlock
  /\ packets \in 0..MaxPackets /\ changes \in 0..MaxChanges
  /\ age \in [Schedules -> Nat] /\ lead \in [Schedules -> 0..MaxBlock]
  /\ missed \subseteq Schedules

\* Every schedule was added at time 0 of the scheduler.
SchedulerInit ==
  /\ clock \in 0..(Wrap - 1)
  /\ enabled_ \in [Schedules -> BOOLEAN] /\ interval_ \in [Schedules -> Intervals]
  /\ last_tick_micros = clock /\ now_ = 0
  /\ last_tick_ = [s \in Schedules |-> 0]
  /\ pc = "handle" /\ at = 1
  /\ min_sleep_time = NO_ENABLED_SCHEDULE
  /\ block_time = 0
  /\ packets = 0 /\ changes = 0
  /\ age = [s \in Schedules |-> 0] /\ lead = [s \in Schedules |-> 0]
  /\ missed = {}

----------------------------------------------------------------------------
(* Changes to a schedule.                                                  *)

\* Tick() will not look at schedule s again before the loop waits.
TooLate(s) == pc = "wait" \/ (pc = "callback" /\ s < at)

\* Faulty variant: the new period starts where the old one did.
KeepLastTick(s) == last_tick_[s]

\* now_ is the time of the last Tick(), not that of the call.
NewLastTick(s) == now_

SinceTick == (clock - last_tick_micros) % Wrap

\* resetLastTick is TRUE wherever the repository calls this.
Rearm(s) ==
  /\ changes < MaxChanges /\ changes' = changes + 1
  /\ last_tick_' = [last_tick_ EXCEPT ![s] = NewLastTick(s)]
  /\ age' = [age EXCEPT ![s] = 0]
  /\ lead' = [lead EXCEPT ![s] = SinceTick]
  /\ missed' = IF TooLate(s) THEN missed \cup {s} ELSE missed \ {s}
  /\ UNCHANGED <<clock, loop_vars, pc, block_time, packets>>

MayChange == pc # "tick"

\* Without effect if the schedule has that interval already.
SetInterval(s, interval) ==
  /\ MayChange
  /\ interval_[s] # interval
  /\ interval_' = [interval_ EXCEPT ![s] = interval]
  /\ Rearm(s)
  /\ UNCHANGED enabled_

SetEnabled(s, enabled) ==
  /\ MayChange
  /\ s \notin Managed
  /\ enabled_[s] # enabled
  /\ enabled_' = [enabled_ EXCEPT ![s] = enabled]
  /\ Rearm(s)
  /\ UNCHANGED interval_

\* Start() and Stop() change is_running_: the schedule keeps its last_tick_,
\* however old that is.
ChangeFlag(s) ==
  /\ pc \in {"handle", "callback"}
  /\ s \in Managed
  /\ changes < MaxChanges /\ changes' = changes + 1
  /\ enabled_' = [enabled_ EXCEPT ![s] = ~@]
  /\ age' = [age EXCEPT ![s] = 0]
  /\ missed' = IF TooLate(s) THEN missed \cup {s} ELSE missed \ {s}
  /\ UNCHANGED <<clock, loop_vars, pc, block_time, packets, lead, interval_, last_tick_>>

Change ==
  \E s \in Schedules :
    \/ \E i \in Intervals : SetInterval(s, i)
    \/ \E enabled \in BOOLEAN : SetEnabled(s, enabled)
    \/ ChangeFlag(s)

----------------------------------------------------------------------------
(* Tick().                                                                 *)

BeginTick ==
  /\ pc = "handle"
  /\ pc' = "tick" /\ at' = 1
  /\ now_' = (now_ + SinceTick) % Wrap
  /\ last_tick_micros' = clock
  /\ min_sleep_time' = NO_ENABLED_SCHEDULE
  /\ UNCHANGED <<clock, schedule_vars, block_time, packets, changes, schedule_ghosts>>

\* Faulty variant: the first enabled schedule decides.
SoonerOfFirst(t) == IF min_sleep_time = NO_ENABLED_SCHEDULE THEN t ELSE min_sleep_time

Sooner(t) == IF t < min_sleep_time THEN t ELSE min_sleep_time

SinceLastTick(s) == (now_ - last_tick_[s]) % Wrap

IsDue(s) == SinceLastTick(s) >= interval_[s]

Visit ==
  /\ pc = "tick" /\ at <= N
  /\ IF IsEnabled(at) /\ IsDue(at)
       THEN pc' = "callback" /\ UNCHANGED <<at, min_sleep_time>>
       ELSE /\ min_sleep_time' = IF IsEnabled(at) THEN Sooner(interval_[at] - SinceLastTick(at))
                                 ELSE min_sleep_time
            /\ at' = at + 1
            /\ UNCHANGED pc
  /\ UNCHANGED <<clock, last_tick_micros, now_, schedule_vars, block_time, packets, changes,
                 schedule_ghosts>>

FiredTime == now_

\* The callback returns.  Whatever it did to its own schedule is undone or
\* counts for the next wait; what it did to an earlier one does not.
EndCallback ==
  /\ pc = "callback"
  /\ pc' = "tick" /\ at' = at + 1
  /\ last_tick_' = [last_tick_ EXCEPT ![at] = FiredTime]
  /\ min_sleep_time' = Sooner(interval_[at])
  /\ age' = [age EXCEPT ![at] = 0]
  /\ lead' = [lead EXCEPT ![at] = 0]
  /\ missed' = missed \ {at}
  /\ UNCHANGED <<clock, last_tick_micros, now_, enabled_, interval_, block_time, packets, changes>>

EndTick ==
  /\ pc = "tick" /\ at > N
  /\ pc' = "wait"
  /\ block_time' = IF min_sleep_time > MaxBlock THEN MaxBlock ELSE min_sleep_time
  /\ min_sleep_time' = NO_ENABLED_SCHEDULE
  /\ UNCHANGED <<clock, last_tick_micros, now_, at, schedule_vars, packets, changes, schedule_ghosts>>

----------------------------------------------------------------------------
(* The rest of the loop.                                                   *)

\* Ages count no further than anything below asks for.
Older(s) == IF age[s] > MaxInterval + MaxBlock THEN age[s] ELSE age[s] + 1

TimePasses ==
  /\ pc = "wait" /\ block_time > 0
  /\ clock' = (clock + 1) % Wrap
  /\ block_time' = block_time - 1
  /\ age' = [s \in Schedules |-> IF IsEnabled(s) THEN Older(s) ELSE 0]
  /\ UNCHANGED <<loop_vars, schedule_vars, pc, packets, changes, lead, missed>>

\* queuePopItem() finds nothing in the time it is given.
StopWaiting ==
  /\ pc = "wait" /\ block_time = 0
  /\ pc' = "handle"
  /\ UNCHANGED <<clock, loop_vars, schedule_vars, block_time, packets, changes, schedule_ghosts>>

\* queuePopItem() returns a packet, and its handler is run.
HandlePacket ==
  /\ pc = "wait"
  /\ pc' = "handle" /\ block_time' = 0
  /\ UNCHANGED <<clock, loop_vars, schedule_vars, changes, schedule_ghosts>>

OtherPacket == packets < MaxPackets /\ packets' = packets + 1 /\ HandlePacket

----------------------------------------------------------------------------
(***************************************************************************)
(* A schedule is never late: while the loop sleeps, no enabled schedule is *)
(* past its interval, although Tick() computes the wait before the last    *)
(* callbacks have run, although a schedule that follows a flag resumes     *)
(* with an old last_tick_, and although now_ wraps.  A schedule that was   *)
(* changed when Tick() had passed it - by the callback of a later one or   *)
(* by another thread - may be late by the longest wait of the loop, a      *)
(* second, which is more than some intervals (Scheduler.cpp:53).           *)
(***************************************************************************)
NeverLate ==
  \A s \in Schedules : pc = "wait" /\ IsEnabled(s) =>
    age[s] <= interval_[s] + IF s \in missed THEN MaxBlock ELSE 0

(***************************************************************************)
(* A callback is not run before its interval has passed since the last     *)
(* time, or since it was enabled; but that time counts from the last       *)
(* Tick(), at most one wait before (Schedule.cpp:27), and a schedule that  *)
(* follows a flag promises nothing.                                        *)
(***************************************************************************)
NeverEarly ==
  [][pc' = "callback" /\ pc # "callback" /\ at \notin Managed =>
       age[at] + lead[at] >= interval_[at]]_scheduler_vars
=============================================================================
