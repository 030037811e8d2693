------------------------------ MODULE Service ------------------------------
(***************************************************************************)
(* The service side of the protocol: libxbot-service/src/Service.cpp with  *)
(* the register handling that codegen/templates/ServiceTemplate.cpp        *)
(* generates for it.                                                       *)
(*                                                                         *)
(* One processing thread per service takes packets from the service's      *)
(* queue and runs the schedules; it owns every member but two kinds of     *)
(* state that other threads touch:                                         *)
(*   - the pending-RPC slot (rpc_in_progress_, rpc_pending_call_id_),      *)
(*     which the worker of an asynchronous RPC clears under state_mutex_;  *)
(*   - target_ip_ / target_port_, which every sender reads without it.     *)
(* A handler is therefore split into steps exactly where another thread    *)
(* can see it half done: Stop()'s lock section and the two target writes.  *)
(*                                                                         *)
(* Any packet a host can send may be at the head of the queue whenever the *)
(* thread looks; the queue itself is module BlockingQueue.  Data packets   *)
(* change none of this state.  Times are abstracted: a schedule that is    *)
(* enabled may fire whenever the loop comes around.                        *)
(***************************************************************************)
EXTENDS Naturals, FiniteSets

CONSTANTS
  Hosts,      \* the endpoints that may claim this service
  NoAddr,     \* the 0 that target_ip_ and target_port_ start with
  Registers,  \* the registers of the service's schema
  Required,   \* those allRegistersValid() insists on
  Defaulted,  \* those the schema gives a default value
  Values,     \* what a configuration may set a register to
  Default,    \* the value a default gives
  NoValue,    \* a register that is not valid / a chunk that is absent
  NoJob,      \* the processing thread handles no packet
  CallIds,    \* 16-bit call ids, chosen by the hosts
  MaxCalls    \* bound: RPC calls in a behaviour

(***************************************************************************)
(* A configuration transaction, by what SetRegistersFromConfigurationMessage*)
(* makes of it: the chunks it stores before it finishes or gives up, and   *)
(* whether it got to the end (every size right, no bytes left over).       *)
(***************************************************************************)
ConfigMessage ==
  [chunks : [Registers -> Values \cup {NoValue}], complete : BOOLEAN]

ClaimMessage == [host : Hosts]

ASSUME ServiceAssumption ==
  /\ NoAddr \notin Hosts
  /\ Required \subseteq Registers
  /\ Defaulted \subseteq Registers
  /\ NoValue \notin Values \cup {Default}
  /\ NoJob \notin ConfigMessage
  /\ 0 \in CallIds
  /\ MaxCalls \in Nat

CallNumber == 1..MaxCalls

\* The task that will call SendRpcResponse for a call it was dispatched for.
Worker == [call : CallNumber, id : CallIds, answers : 0..MaxCalls]

Packet ==
  [type : {"none", "CLAIM_ACK", "HEARTBEAT", "CONFIGURATION_REQUEST",
           "SERVICE_ADVERTISEMENT", "DATA", "RPC_RESPONSE", "RPC_BUSY"},
   ip : Hosts \cup {NoAddr}, port : Hosts \cup {NoAddr},
   call : 0..MaxCalls, from : 0..MaxCalls]

Schedules ==
  [heartbeat : BOOLEAN, config_request : BOOLEAN,
   discovery_timeout : BOOLEAN, advertise_fast : BOOLEAN]

VARIABLES
  pc,                   \* where the processing thread is
  job,                  \* the packet it handles
  is_running,
  config_required,
  sd_discovery_timed_out,
  target_ip,
  target_port,
  schedules,            \* which schedules are enabled
  registers,
  applied,              \* ghost: the configuration the service was started with
  rpc_in_progress,
  rpc_pending_call_id,
  pending,              \* ghost: the number of the call that holds the slot
  calls,                \* ghost: how many calls have been handled
  workers,              \* dispatched RPCs that have not sent their response
  replied,              \* ghost: the calls a response was transmitted for
  sender_ip,            \* the user thread in SendData: the address it has read
  out                   \* the packet this step transmitted

lifecycle == <<is_running, config_required, sd_discovery_timed_out, schedules>>
target == <<target_ip, target_port>>
configuration == <<registers, applied>>
slot == <<rpc_in_progress, rpc_pending_call_id, pending>>
rpc == <<slot, calls, workers, replied>>
vars == <<pc, job, lifecycle, target, configuration, rpc, sender_ip, out>>

----------------------------------------------------------------------------
hasRegisters == Registers # {}

\* Faulty variant: only registers with a default are written.
DefaultsOnly == [r \in Defaulted |-> Default]

Defaults == [r \in Registers |-> IF r \in Defaulted THEN Default ELSE NoValue]

\* Faulty variant: the defaults are not loaded before the message is applied.
ConfiguredOverOld(chunks) ==
  [r \in Registers |-> IF chunks[r] # NoValue THEN chunks[r] ELSE registers[r]]

\* Defaults overridden by the chunks of a message.
Configured(chunks) ==
  [r \in Registers |-> IF chunks[r] # NoValue THEN chunks[r] ELSE Defaults[r]]

allRegistersValid(regs) == \A r \in Required : regs[r] # NoValue

\* Faulty variant: half the endpoint is taken for the whole.
IsClaimedByIp == target_ip # NoAddr

IsClaimed == target_ip # NoAddr /\ target_port # NoAddr

NoPacket ==
  [type |-> "none", ip |-> NoAddr, port |-> NoAddr, call |-> 0, from |-> 0]

ToTarget(type) ==
  [NoPacket EXCEPT !.type = type, !.ip = target_ip, !.port = target_port]

Reply(type, call, from) ==
  [ToTarget(type) EXCEPT !.call = call, !.from = from]

\* TransmitRpcResponse: an unclaimed service has nobody to answer and drops it.
TransmitRpcResponse(type, call, from) ==
  IF IsClaimed
    THEN /\ out' = Reply(type, call, from)
         /\ replied' = replied \cup {call}
    ELSE /\ out' = NoPacket
         /\ UNCHANGED replied

\* Faulty variant: refreshed before config_required_ is written.
OnLifecycleStatusChangedEarly ==
  schedules' =
    [heartbeat         |-> IsClaimed',
     config_request    |-> config_required /\ IsClaimed',
     discovery_timeout |-> ~IsClaimed' /\ ~sd_discovery_timed_out',
     advertise_fast    |-> ~IsClaimed' /\ ~sd_discovery_timed_out']

(***************************************************************************)
(* Called whenever is_running_, IsClaimed() or config_required_ changed;   *)
(* every handler ends with a call of it, so the schedules follow from the  *)
(* state the handler leaves.                                               *)
(***************************************************************************)
OnLifecycleStatusChanged ==
  schedules' =
    [heartbeat         |-> IsClaimed',
     config_request    |-> config_required' /\ IsClaimed',
     discovery_timeout |-> ~IsClaimed' /\ ~sd_discovery_timed_out',
     advertise_fast    |-> ~IsClaimed' /\ ~sd_discovery_timed_out']

\* The user's OnStart() may refuse; only when it accepts is the service running.
Start == is_running' \in BOOLEAN

\* Faulty variant: Stop() leaves the pending call to a worker it cancelled.
KeepSlot == UNCHANGED slot

\* Second half of Stop(): give up the pending RPC.
FreeSlot ==
  /\ rpc_in_progress' = FALSE
  /\ rpc_pending_call_id' = 0
  /\ pending' = 0

\* Faulty variant: the slot stays taken after its answer.
AnswerKeepingSlot == UNCHANGED rpc_in_progress

\* SendRpcResponse accepts an answer.
AnswerSlot == rpc_in_progress' = FALSE

\* First half of Stop(): OnStop() cancels the RPC workers it knows about.
StopUser ==
  /\ is_running' = FALSE
  /\ applied' = NoJob
  /\ \E cancelled \in SUBSET {w \in workers : w.answers = 0} :
       workers' = workers \ cancelled

Init ==
  /\ pc = "create" /\ job = NoJob
  /\ is_running = FALSE /\ config_required = TRUE
  /\ sd_discovery_timed_out = FALSE
  /\ schedules = [heartbeat |-> FALSE, config_request |-> FALSE,
                  discovery_timeout |-> FALSE, advertise_fast |-> FALSE]
  /\ target_ip = NoAddr /\ target_port = NoAddr
  /\ registers = [r \in Registers |-> NoValue] /\ applied = NoJob
  /\ rpc_in_progress = FALSE /\ rpc_pending_call_id = 0
  /\ pending = 0 /\ calls = 0 /\ workers = {} /\ replied = {}
  /\ sender_ip = NoAddr
  /\ out = NoPacket

\* loadConfigurationDefaults() and, when no configuration is needed, Start().
LoadDefaultsAndStart ==
  /\ registers' = Defaults
  /\ config_required' = hasRegisters
  /\ IF hasRegisters THEN is_running' = FALSE ELSE Start
  /\ OnLifecycleStatusChanged

----------------------------------------------------------------------------
(* The processing thread.                                                  *)

\* runProcessing() before its loop.
Create ==
  /\ pc = "create" /\ pc' = "loop"
  /\ UNCHANGED <<job, sd_discovery_timed_out, target, applied, rpc, sender_ip>>
  /\ LoadDefaultsAndStart
  /\ out' = NoPacket

\* Both packets that reconfigure the service stop it first, if it runs.
BeginJob(message, next) ==
  /\ pc = "loop" /\ job' = message
  /\ IF is_running
       THEN pc' = "stop" /\ StopUser
       ELSE pc' = next /\ UNCHANGED <<is_running, applied, workers>>
  /\ out' = NoPacket
  /\ UNCHANGED <<config_required, sd_discovery_timed_out, schedules, target,
                 registers, slot, calls, replied, sender_ip>>

\* Faulty variant: a service that has an owner ignores claims.
ReceiveClaimUnowned(claim) == ~IsClaimed /\ BeginJob(claim, "target_ip")

ReceiveClaim(claim) == BeginJob(claim, "target_ip")

ReceiveConfiguration(message) == BeginJob(message, "configure")

\* Second half of Stop(), under state_mutex_.
StopRpc ==
  /\ pc = "stop"
  /\ pc' = IF job \in ClaimMessage THEN "target_ip" ELSE "configure"
  /\ FreeSlot
  /\ UNCHANGED <<job, is_running, config_required, sd_discovery_timed_out,
                 target, configuration, calls, workers, replied, sender_ip>>
  /\ OnLifecycleStatusChanged
  /\ out' = NoPacket

\* HandleClaimMessage writes the new target in two assignments, unlocked.
SetTargetIp ==
  /\ pc = "target_ip" /\ pc' = "target_port"
  /\ target_ip' = job.host
  /\ out' = NoPacket
  /\ UNCHANGED <<job, lifecycle, target_port, configuration, rpc, sender_ip>>

SetTargetPort ==
  /\ pc = "target_port" /\ pc' = "claimed"
  /\ target_port' = job.host
  /\ sd_discovery_timed_out' = FALSE
  /\ out' = NoPacket
  /\ UNCHANGED <<job, is_running, config_required, schedules, target_ip,
                 configuration, rpc, sender_ip>>

\* ... acknowledges, and starts over from the defaults.
FinishClaim ==
  /\ pc = "claimed" /\ pc' = "loop" /\ job' = NoJob
  /\ out' = ToTarget("CLAIM_ACK")
  /\ UNCHANGED <<sd_discovery_timed_out, target, applied, rpc, sender_ip>>
  /\ LoadDefaultsAndStart

\* HandleConfigurationTransaction once the service is stopped.
FinishConfiguration ==
  /\ pc = "configure" /\ pc' = "loop" /\ job' = NoJob
  /\ registers' = Configured(job.chunks)
  /\ IF job.complete /\ allRegistersValid(registers')
       THEN Start
       ELSE is_running' = FALSE
  /\ config_required' = IF is_running' THEN FALSE ELSE hasRegisters
  /\ applied' = IF is_running' THEN job ELSE NoJob
  /\ UNCHANGED <<sd_discovery_timed_out, target, rpc, sender_ip>>
  /\ OnLifecycleStatusChanged
  /\ out' = NoPacket

\* HandleRpcCall: one call at a time, a second one is told BUSY.
HandleRpcCall(id) ==
  /\ pc = "loop" /\ is_running /\ calls < MaxCalls
  /\ calls' = calls + 1
  /\ \/ /\ rpc_in_progress
        /\ TransmitRpcResponse("RPC_BUSY", calls', calls')
        /\ UNCHANGED <<slot, workers>>
     \/ /\ ~rpc_in_progress
        /\ rpc_in_progress' = TRUE
        /\ rpc_pending_call_id' = id
        /\ pending' = calls'
        /\ workers' = workers \cup {[call |-> calls', id |-> id, answers |-> 0]}
        /\ out' = NoPacket
        /\ UNCHANGED replied
  /\ UNCHANGED <<pc, job, lifecycle, target, configuration, sender_ip>>

\* A schedule that fires from Scheduler::Tick() and sends one packet.
Tick(type) ==
  /\ pc = "loop"
  /\ out' = ToTarget(type)
  /\ UNCHANGED <<pc, job, lifecycle, target, configuration, rpc, sender_ip>>

heartbeat == schedules.heartbeat /\ Tick("HEARTBEAT")

SendConfigurationRequest ==
  schedules.config_request /\ Tick("CONFIGURATION_REQUEST")

\* Multicast: its destination is not the target.
AdvertiseService ==
  /\ pc = "loop"
  /\ out' = [NoPacket EXCEPT !.type = "SERVICE_ADVERTISEMENT"]
  /\ UNCHANGED <<pc, job, lifecycle, target, configuration, rpc, sender_ip>>

OnServiceDiscoveryTimeout ==
  /\ pc = "loop" /\ schedules.discovery_timeout
  /\ ~IsClaimed
  /\ sd_discovery_timed_out' = TRUE
  /\ UNCHANGED <<pc, job, is_running, config_required, target, configuration,
                 rpc, sender_ip>>
  /\ OnLifecycleStatusChanged
  /\ out' = NoPacket

----------------------------------------------------------------------------
(* The other threads.                                                      *)

\* SendRpcResponse by a worker: its lock section accepts the answer or not.
SendRpcResponse(w) ==
  /\ w.answers = 0
  /\ IF rpc_in_progress /\ w.id = rpc_pending_call_id
       THEN /\ AnswerSlot
            /\ workers' = (workers \ {w}) \cup {[w EXCEPT !.answers = pending]}
       ELSE /\ workers' = workers \ {w}
            /\ UNCHANGED rpc_in_progress
  /\ out' = NoPacket
  /\ UNCHANGED <<pc, job, lifecycle, target, configuration, rpc_pending_call_id,
                 pending, calls, replied, sender_ip>>

\* ... and, the lock released, transmits it to whatever the target is by then.
TransmitAnswer(w) ==
  /\ w.answers # 0
  /\ workers' = workers \ {w}
  /\ TransmitRpcResponse("RPC_RESPONSE", w.answers, w.call)
  /\ UNCHANGED <<pc, job, lifecycle, target, configuration, slot, calls, sender_ip>>

\* SendData by a user thread, outside a transaction: IsClaimed() and the two
\* target reads hold no lock.
SendData ==
  /\ sender_ip = NoAddr /\ IsClaimed
  /\ sender_ip' = target_ip
  /\ out' = NoPacket
  /\ UNCHANGED <<pc, job, lifecycle, target, configuration, rpc>>

TransmitData ==
  /\ sender_ip # NoAddr
  /\ out' = [ToTarget("DATA") EXCEPT !.ip = sender_ip]
  /\ sender_ip' = NoAddr
  /\ UNCHANGED <<pc, job, lifecycle, target, configuration, rpc>>

----------------------------------------------------------------------------
ProcessingStep ==
  \/ Create
  \/ StopRpc \/ SetTargetIp \/ SetTargetPort \/ FinishClaim \/ FinishConfiguration

Environment ==
  \/ \E claim \in ClaimMessage : ReceiveClaim(claim)
  \/ \E message \in ConfigMessage : ReceiveConfiguration(message)
  \/ \E id \in CallIds : HandleRpcCall(id)

Schedule ==
  \/ heartbeat \/ SendConfigurationRequest \/ AdvertiseService
  \/ OnServiceDiscoveryTimeout

WorkerStep(w) == SendRpcResponse(w) \/ TransmitAnswer(w)

Sender == SendData \/ TransmitData

Next ==
  \/ ProcessingStep
  \/ Environment
  \/ Schedule
  \/ \E w \in workers : WorkerStep(w)
  \/ Sender

Spec == Init /\ [][Next]_vars

----------------------------------------------------------------------------
TypeOK ==
  /\ pc \in {"create", "loop", "stop", "target_ip", "target_port", "claimed",
             "configure"}
  /\ pc \in {"create", "loop"} => job = NoJob
  /\ pc \in {"target_ip", "target_port", "claimed"} => job \in ClaimMessage
  /\ pc = "configure" => job \in ConfigMessage
  /\ pc = "stop" => job \in ClaimMessage \cup ConfigMessage
  /\ is_running \in BOOLEAN /\ config_required \in BOOLEAN
  /\ sd_discovery_timed_out \in BOOLEAN
  /\ schedules \in Schedules
  /\ target_ip \in Hosts \cup {NoAddr} /\ target_port \in Hosts \cup {NoAddr}
  /\ registers \in [Registers -> Values \cup {Default, NoValue}]
  /\ applied \in ConfigMessage \cup {NoJob}
  /\ rpc_in_progress \in BOOLEAN /\ rpc_pending_call_id \in CallIds
  /\ pending \in 0..MaxCalls /\ calls \in 0..MaxCalls
  /\ workers \subseteq Worker /\ replied \subseteq CallNumber
  /\ sender_ip \in Hosts \cup {NoAddr}
  /\ out \in Packet

(***************************************************************************)
(* While the service runs, its registers are exactly the defaults          *)
(* overridden by one configuration message that was read to its end and    *)
(* left no required register invalid: nothing of an earlier, rejected or   *)
(* partially applied configuration survives (Service.hpp: OnStart() is     *)
(* "called once the configuration is valid").                              *)
(***************************************************************************)
RunningOnOneConfiguration ==
  is_running /\ hasRegisters =>
    /\ applied # NoJob
    /\ applied.complete
    /\ \A r \in Registers : registers[r] \in {applied.chunks[r], Defaults[r]}
    /\ \A r \in Registers :
         applied.chunks[r] # NoValue => registers[r] = applied.chunks[r]
    /\ allRegistersValid(registers)

(***************************************************************************)
(* A claimed service with registers that is not running keeps asking for   *)
(* its configuration, whatever went wrong before (a bad configuration, a   *)
(* refusing OnStart(), a second claim): it can never sit there silently.   *)
(***************************************************************************)
StoppedKeepsAsking ==
  pc = "loop" /\ hasRegisters =>
    /\ is_running <=> ~config_required
    /\ (IsClaimed /\ ~is_running) <=> schedules.config_request

(***************************************************************************)
(* The pending slot is never leaked: while it is taken the service runs    *)
(* (or Stop() is about to free it) and the worker of that very call is     *)
(* still going to release it - so BUSY is never answered forever, the      *)
(* purpose of the clear in Stop() (Service.cpp:62-65).                     *)
(***************************************************************************)
SlotHasOwner ==
  rpc_in_progress /\ pc # "stop" =>
    /\ is_running
    /\ [call |-> pending, id |-> rpc_pending_call_id, answers |-> 0] \in workers

(***************************************************************************)
(* A call gets at most one response, even when workers of calls given up   *)
(* by Stop() answer late, and across BUSY rejections.                      *)
(***************************************************************************)
AtMostOneResponse ==
  [][out'.type \in {"RPC_RESPONSE", "RPC_BUSY"} => out'.call \notin replied]_vars

(***************************************************************************)
(* Service.cpp:62-65 says of a worker OnStop() did not cancel: "the stale  *)
(* call_id check in SendRpcResponse will reject the late response", so     *)
(* every response that is accepted comes from the call it answers.         *)
(***************************************************************************)
LateResponseRejected ==
  \A w \in workers : w.answers # 0 => w.answers = w.call

(***************************************************************************)
(* Nothing is ever sent to address or port 0: although IsClaimed() and the *)
(* two target reads of a sender hold no lock, and the claim handler writes *)
(* the target in two steps, each check stays good until it is used.        *)
(***************************************************************************)
SentToSomeone ==
  out.type \notin {"none", "SERVICE_ADVERTISEMENT"} =>
    out.ip # NoAddr /\ out.port # NoAddr

(***************************************************************************)
(* A pending call is eventually answered or given up, so that the next one *)
(* is not BUSY.  Assumes what the framework asks of its user: every worker *)
(* that OnStop() does not cancel sends its response.                       *)
(***************************************************************************)
SlotIsFreed == rpc_in_progress ~> ~rpc_in_progress
=============================================================================
