--------------------------- MODULE Service_proof ---------------------------
(***************************************************************************)
(* Proofs about module Service, for any hosts, registers, values and call  *)
(* ids and any number of calls.  Each safety property of the module is one *)
(* conjunct of an inductive invariant or follows from it.                  *)
(*                                                                         *)
(* Then about module GoConn, for any hosts and connections, any number of  *)
(* calls and any width of the call ids: the composition does to the        *)
(* service only what module Service allows, whose theorems it therefore    *)
(* inherits, and a connection takes no answer of another call for its own. *)
(***************************************************************************)
EXTENDS GoConn, TLAPS

(***************************************************************************)
(* Types.                                                                  *)
(***************************************************************************)
LEMMA NoPacketType == NoPacket \in Packet /\ 0 \in 0..MaxCalls
<1>1. 0 \in 0..MaxCalls
  BY ServiceAssumption
<1>2. QED
  BY <1>1 DEF NoPacket, Packet

LEMMA InitType == Init => TypeOK
<1> SUFFICES ASSUME Init PROVE TypeOK
  OBVIOUS
<1>1. schedules \in Schedules /\ workers \subseteq Worker /\ replied \subseteq CallNumber
  BY DEF Init, Schedules
<1>2. registers \in [Registers -> Values \cup {Default, NoValue}]
  BY DEF Init
<1>3. QED
  BY <1>1, <1>2, NoPacketType, ServiceAssumption DEF Init, TypeOK

PacketType ==
  {"none", "CLAIM_ACK", "HEARTBEAT", "CONFIGURATION_REQUEST",
   "SERVICE_ADVERTISEMENT", "DATA", "RPC_RESPONSE", "RPC_BUSY"}

\* A packet to the target is a packet, with the fields one expects.
LEMMA ToTargetType ==
  ASSUME target_ip \in Hosts \cup {NoAddr}, target_port \in Hosts \cup {NoAddr},
         NEW type \in PacketType
  PROVE  /\ ToTarget(type) \in Packet
         /\ ToTarget(type).type = type
         /\ ToTarget(type).ip = target_ip /\ ToTarget(type).port = target_port
BY NoPacketType DEF NoPacket, ToTarget, Packet, PacketType

LEMMA ReplyType ==
  ASSUME target_ip \in Hosts \cup {NoAddr}, target_port \in Hosts \cup {NoAddr},
         NEW type \in PacketType,
         NEW call \in 0..MaxCalls, NEW from \in 0..MaxCalls
  PROVE  /\ Reply(type, call, from) \in Packet
         /\ Reply(type, call, from).type = type
         /\ Reply(type, call, from).call = call
         /\ Reply(type, call, from).ip = target_ip
         /\ Reply(type, call, from).port = target_port
BY NoPacketType DEF NoPacket, ToTarget, Reply, Packet, PacketType

\* The registers a configuration leaves have their type.
LEMMA ConfiguredType ==
  /\ Defaults \in [Registers -> Values \cup {Default, NoValue}]
  /\ \A m \in ConfigMessage :
       Configured(m.chunks) \in [Registers -> Values \cup {Default, NoValue}]
BY DEF Defaults, Configured, ConfigMessage

LEMMA LifecycleType ==
  ASSUME OnLifecycleStatusChanged, config_required' \in BOOLEAN
  PROVE  /\ schedules' \in Schedules
         /\ schedules'.heartbeat <=> IsClaimed'
         /\ schedules'.config_request <=> config_required' /\ IsClaimed'
BY DEF OnLifecycleStatusChanged, Schedules, IsClaimed

LEMMA NextType == TypeOK /\ [Next]_vars => TypeOK'
<1> SUFFICES ASSUME TypeOK, [Next]_vars PROVE TypeOK'
  OBVIOUS
<1> USE ServiceAssumption
<1> hasRegisters \in BOOLEAN
  BY DEF hasRegisters
<1>1. CASE Create
  <2>1. config_required' \in BOOLEAN /\ is_running' \in BOOLEAN
    BY <1>1 DEF Create, LoadDefaultsAndStart, Start
  <2>2. schedules' \in Schedules
    BY <1>1, <2>1, LifecycleType DEF Create, LoadDefaultsAndStart
  <2>3. QED
    BY <1>1, <2>1, <2>2, NoPacketType, ConfiguredType
    DEF TypeOK, Create, LoadDefaultsAndStart, target, rpc, slot
<1>2. ASSUME NEW message \in ClaimMessage \cup ConfigMessage,
             NEW next \in {"target_ip", "configure"},
             next = "target_ip" => message \in ClaimMessage,
             next = "configure" => message \in ConfigMessage,
             BeginJob(message, next)
      PROVE  TypeOK'
  <2>1. workers' \subseteq Worker /\ is_running' \in BOOLEAN
        /\ applied' \in ConfigMessage \cup {NoJob}
    BY <1>2 DEF BeginJob, StopUser, TypeOK
  <2>2. pc' \in {"stop", next} /\ job' = message
    BY <1>2 DEF BeginJob
  <2>3. QED
    BY <1>2, <2>1, <2>2, NoPacketType DEF TypeOK, BeginJob, target, slot
<1>3. ASSUME NEW claim \in ClaimMessage, ReceiveClaim(claim) PROVE TypeOK'
  BY <1>2, <1>3 DEF ReceiveClaim
<1>18. ASSUME NEW m \in ConfigMessage, ReceiveConfiguration(m) PROVE TypeOK'
  BY <1>2, <1>18 DEF ReceiveConfiguration
<1>4. CASE StopRpc
  <2>1. schedules' \in Schedules
    BY <1>4, LifecycleType DEF StopRpc, TypeOK
  <2>2. QED
    BY <1>4, <2>1, NoPacketType
    DEF TypeOK, StopRpc, FreeSlot, target, configuration
<1>5. CASE SetTargetIp
  BY <1>5, NoPacketType
  DEF TypeOK, SetTargetIp, ClaimMessage, lifecycle, configuration, rpc, slot
<1>6. CASE SetTargetPort
  BY <1>6, NoPacketType
  DEF TypeOK, SetTargetPort, ClaimMessage, configuration, rpc, slot
<1>7. CASE FinishClaim
  <2>1. config_required' \in BOOLEAN /\ is_running' \in BOOLEAN
    BY <1>7 DEF FinishClaim, LoadDefaultsAndStart, Start
  <2>2. schedules' \in Schedules
    BY <1>7, <2>1, LifecycleType DEF FinishClaim, LoadDefaultsAndStart
  <2>3. out' \in Packet
    BY <1>7, ToTargetType DEF FinishClaim, TypeOK, PacketType
  <2>4. QED
    BY <1>7, <2>1, <2>2, <2>3, ConfiguredType
    DEF TypeOK, FinishClaim, LoadDefaultsAndStart, target, rpc, slot
<1>8. CASE FinishConfiguration
  <2>1. config_required' \in BOOLEAN /\ is_running' \in BOOLEAN
    BY <1>8 DEF FinishConfiguration, Start
  <2>2. schedules' \in Schedules
    BY <1>8, <2>1, LifecycleType DEF FinishConfiguration
  <2>3. job \in ConfigMessage
    BY <1>8 DEF FinishConfiguration, TypeOK
  <2>4. registers' \in [Registers -> Values \cup {Default, NoValue}]
    BY <1>8, <2>3, ConfiguredType DEF FinishConfiguration
  <2>5. QED
    BY <1>8, <2>1, <2>2, <2>3, <2>4, NoPacketType
    DEF TypeOK, FinishConfiguration, target, rpc, slot
<1>9. ASSUME NEW id \in CallIds, HandleRpcCall(id) PROVE TypeOK'
  <2>1. calls' \in CallNumber /\ calls' \in 0..MaxCalls
    BY <1>9 DEF HandleRpcCall, TypeOK, CallNumber
  <2>2. out' \in Packet
    BY <1>9, <2>1, ReplyType, NoPacketType
    DEF HandleRpcCall, TransmitRpcResponse, TypeOK, PacketType
  <2>3. replied' \subseteq CallNumber
    BY <1>9, <2>1 DEF HandleRpcCall, TransmitRpcResponse, TypeOK
  <2>4. workers' \subseteq Worker
    BY <1>9, <2>1 DEF HandleRpcCall, TypeOK, Worker
  <2>5. QED
    BY <1>9, <2>1, <2>2, <2>3, <2>4
    DEF TypeOK, HandleRpcCall, lifecycle, target, configuration, slot
<1>10. CASE heartbeat \/ SendConfigurationRequest \/ AdvertiseService
  <2>1. out' \in Packet
    BY <1>10, ToTargetType, NoPacketType
    DEF heartbeat, SendConfigurationRequest, Tick, AdvertiseService, NoPacket,
        Packet, TypeOK, PacketType
  <2>2. UNCHANGED <<pc, job, lifecycle, target, configuration, rpc, sender_ip>>
    BY <1>10 DEF heartbeat, SendConfigurationRequest, Tick, AdvertiseService
  <2>3. QED
    BY <2>1, <2>2 DEF TypeOK, lifecycle, target, configuration, rpc, slot
<1>11. CASE OnServiceDiscoveryTimeout
  <2>1. schedules' \in Schedules
    BY <1>11, LifecycleType DEF OnServiceDiscoveryTimeout, TypeOK
  <2>2. QED
    BY <1>11, <2>1, NoPacketType
    DEF TypeOK, OnServiceDiscoveryTimeout, target, configuration, rpc, slot
<1>12. ASSUME NEW w \in workers, SendRpcResponse(w) PROVE TypeOK'
  <2>1. workers' \subseteq Worker
    <3>1. [w EXCEPT !.answers = pending] \in Worker
      BY DEF TypeOK, Worker
    <3>2. QED
      BY <1>12, <3>1 DEF SendRpcResponse, TypeOK
  <2>2. rpc_in_progress' \in BOOLEAN
    BY <1>12 DEF SendRpcResponse, AnswerSlot, TypeOK
  <2>3. QED
    BY <1>12, <2>1, <2>2, NoPacketType
    DEF TypeOK, SendRpcResponse, lifecycle, target, configuration
<1>13. ASSUME NEW w \in workers, TransmitAnswer(w) PROVE TypeOK'
  <2>1. w \in Worker /\ w.answers \in CallNumber /\ w.call \in 0..MaxCalls
    BY <1>13 DEF TransmitAnswer, TypeOK, Worker, CallNumber
  <2>2. w.answers \in 0..MaxCalls
    BY <2>1 DEF CallNumber
  <2>3. Reply("RPC_RESPONSE", w.answers, w.call) \in Packet
    BY <2>1, <2>2, ReplyType DEF TypeOK, PacketType
  <2>4. out' \in Packet /\ replied' \subseteq CallNumber
    BY <1>13, <2>1, <2>3, NoPacketType
    DEF TransmitAnswer, TransmitRpcResponse, TypeOK
  <2>5. QED
    BY <1>13, <2>4
    DEF TypeOK, TransmitAnswer, lifecycle, target, configuration, slot
<1>14. CASE SendData
  BY <1>14, NoPacketType
  DEF TypeOK, SendData, lifecycle, target, configuration, rpc, slot
<1>15. CASE TransmitData
  <2>1. out' \in Packet
    <3>1. ToTarget("DATA") \in Packet
      BY ToTargetType DEF TypeOK, PacketType
    <3>2. \A p \in Packet, a \in Hosts \cup {NoAddr} : [p EXCEPT !.ip = a] \in Packet
      BY DEF Packet
    <3>3. QED
      BY <1>15, <3>1, <3>2 DEF TransmitData, TypeOK
  <2>2. QED
    BY <1>15, <2>1
    DEF TypeOK, TransmitData, lifecycle, target, configuration, rpc, slot
<1>16. CASE UNCHANGED vars
  BY <1>16 DEF TypeOK, vars, lifecycle, target, configuration, rpc, slot
<1>17. QED
  BY <1>1, <1>3, <1>4, <1>5, <1>6, <1>7, <1>8, <1>9, <1>10, <1>11,
     <1>12, <1>13, <1>14, <1>15, <1>16, <1>18
  DEF Next, ProcessingStep, Environment, Schedule, WorkerStep, Sender

\* Every variable keeps its type in every behaviour.
THEOREM TypeCorrect == Spec => []TypeOK
BY InitType, NextType, PTL DEF Spec

(***************************************************************************)
(* The inductive invariant.  The user's code runs only between handlers    *)
(* (Stopped); the slot is free or owned by a worker (SlotHasOwner) and its *)
(* call is one nothing has answered yet (FreshCalls); what a sender checked*)
(* or a schedule was enabled for stays true (TargetHolds).                 *)
(***************************************************************************)
Stopped == pc # "loop" => ~is_running

\* Every call number is in at most one of: the slot, an accepted answer that is
\* on its way, the calls replied to; none of them is in the future.
FreshCalls ==
  /\ rpc_in_progress => pending \in 1..calls /\ pending \notin replied
  /\ replied \subseteq 1..calls
  /\ \A w \in workers :
       w.answers # 0 =>
         /\ w.answers \in 1..calls /\ w.answers \notin replied
         /\ rpc_in_progress => w.answers # pending
  /\ \A w1, w2 \in workers :
       w1.answers # 0 /\ w1.answers = w2.answers => w1 = w2

TargetHolds ==
  /\ schedules.heartbeat => IsClaimed
  /\ schedules.config_request => IsClaimed
  /\ sender_ip # NoAddr => IsClaimed
  /\ pc = "target_port" => target_ip # NoAddr
  /\ pc = "claimed" => IsClaimed

IInv ==
  /\ TypeOK
  /\ Stopped
  /\ RunningOnOneConfiguration
  /\ StoppedKeepsAsking
  /\ SlotHasOwner
  /\ FreshCalls
  /\ TargetHolds
  /\ SentToSomeone

LEMMA InitInv == Init => IInv
<1> SUFFICES ASSUME Init PROVE IInv
  OBVIOUS
<1>1. TypeOK
  BY InitType
<1>2. Stopped /\ RunningOnOneConfiguration /\ StoppedKeepsAsking /\ SlotHasOwner
  BY DEF Init, Stopped, RunningOnOneConfiguration, StoppedKeepsAsking, SlotHasOwner
<1>3. FreshCalls /\ TargetHolds /\ SentToSomeone
  BY DEF Init, FreshCalls, TargetHolds, SentToSomeone, NoPacket
<1>4. QED
  BY <1>1, <1>2, <1>3 DEF IInv

LEMMA NextInv == IInv /\ [Next]_vars => IInv'
<1> SUFFICES ASSUME IInv, [Next]_vars PROVE IInv'
  OBVIOUS
<1> USE ServiceAssumption
<1>0. TypeOK /\ TypeOK'
  BY NextType DEF IInv
<1>1. Stopped'
  <2>1. Stopped /\ TypeOK
    BY DEF IInv
  <2>2. CASE ProcessingStep
    BY <2>1, <2>2
    DEF ProcessingStep, Create, StopRpc, SetTargetIp, SetTargetPort, FinishClaim,
        FinishConfiguration, Stopped, TypeOK, lifecycle
  <2>3. CASE Environment
    BY <2>1, <2>3
    DEF Environment, ReceiveClaim, ReceiveConfiguration, BeginJob, StopUser,
        HandleRpcCall, Stopped, lifecycle
  <2>4. CASE Schedule
    BY <2>1, <2>4
    DEF Schedule, heartbeat, SendConfigurationRequest, AdvertiseService, Tick,
        OnServiceDiscoveryTimeout, Stopped, lifecycle
  <2>5. CASE \E w \in workers : WorkerStep(w)
    BY <2>1, <2>5
    DEF WorkerStep, SendRpcResponse, TransmitAnswer, Stopped, lifecycle
  <2>6. CASE Sender \/ UNCHANGED vars
    BY <2>1, <2>6 DEF Sender, SendData, TransmitData, Stopped, lifecycle, vars
  <2>7. QED
    BY <2>2, <2>3, <2>4, <2>5, <2>6 DEF Next
<1>2. RunningOnOneConfiguration'
  <2>1. RunningOnOneConfiguration /\ Stopped /\ TypeOK
    BY DEF IInv
  <2> USE DEF RunningOnOneConfiguration
  <2>2. CASE Create \/ FinishClaim
    BY <2>1, <2>2 DEF Create, FinishClaim, LoadDefaultsAndStart, hasRegisters
  <2>3. CASE FinishConfiguration
    <3>1. job \in ConfigMessage
      BY <2>3 DEF FinishConfiguration, TypeOK, IInv
    <3>2. is_running' => applied' = job /\ job.complete
                         /\ registers' = Configured(job.chunks)
                         /\ allRegistersValid(registers')
      BY <2>3 DEF FinishConfiguration
    <3>3. is_running' =>
            \A r \in Registers :
              /\ registers'[r] \in {job.chunks[r], Defaults[r]}
              /\ job.chunks[r] # NoValue => registers'[r] = job.chunks[r]
      BY <3>2 DEF Configured
    <3>4. QED
      BY <3>1, <3>2, <3>3 DEF allRegistersValid, Defaults, hasRegisters
  <2>4. CASE StopRpc \/ SetTargetIp \/ SetTargetPort
    BY <2>1, <2>4
    DEF StopRpc, SetTargetIp, SetTargetPort, configuration, lifecycle,
        allRegistersValid, Defaults, hasRegisters
  <2>5. CASE \E message, next : BeginJob(message, next)
    BY <2>1, <2>5
    DEF BeginJob, StopUser, allRegistersValid, Defaults, hasRegisters
  <2>6. ASSUME UNCHANGED <<is_running, configuration>>
        PROVE  RunningOnOneConfiguration'
    BY <2>1, <2>6
    DEF configuration, allRegistersValid, Defaults, hasRegisters
  <2>7. CASE \E id \in CallIds : HandleRpcCall(id)
    BY <2>6, <2>7 DEF HandleRpcCall, lifecycle
  <2>8. CASE Schedule \/ Sender \/ UNCHANGED vars
    BY <2>6, <2>8
    DEF Schedule, heartbeat, SendConfigurationRequest, AdvertiseService, Tick,
        OnServiceDiscoveryTimeout, Sender, SendData, TransmitData, lifecycle,
        configuration, vars
  <2>9. CASE \E w \in workers : WorkerStep(w)
    BY <2>6, <2>9 DEF WorkerStep, SendRpcResponse, TransmitAnswer, lifecycle
  <2>10. QED
    BY <2>2, <2>3, <2>4, <2>5, <2>7, <2>8, <2>9
    DEF Next, ProcessingStep, Environment, ReceiveClaim, ReceiveConfiguration
<1>3. StoppedKeepsAsking'
  <2>1. StoppedKeepsAsking /\ Stopped /\ TypeOK
    BY DEF IInv
  <2> USE DEF StoppedKeepsAsking
  <2>2. CASE Create \/ FinishClaim
    <3>1. config_required' \in BOOLEAN /\ (hasRegisters => config_required' /\ ~is_running')
      BY <2>2 DEF Create, FinishClaim, LoadDefaultsAndStart, hasRegisters
    <3>2. schedules'.config_request <=> config_required' /\ IsClaimed'
      BY <2>2, <3>1, LifecycleType DEF Create, FinishClaim, LoadDefaultsAndStart
    <3>3. QED
      BY <3>1, <3>2 DEF hasRegisters
  <2>3. CASE FinishConfiguration
    <3>1. config_required' \in BOOLEAN /\ (hasRegisters => (is_running' <=> ~config_required'))
      BY <2>3, <1>0 DEF FinishConfiguration, TypeOK
    <3>2. schedules'.config_request <=> config_required' /\ IsClaimed'
      BY <2>3, <3>1, LifecycleType DEF FinishConfiguration
    <3>3. QED
      BY <3>1, <3>2 DEF hasRegisters
  <2>4. CASE StopRpc \/ SetTargetIp \/ SetTargetPort
    BY <2>1, <2>4 DEF StopRpc, SetTargetIp, SetTargetPort
  <2>5. ASSUME NEW message, NEW next \in {"target_ip", "configure"},
               BeginJob(message, next)
        PROVE  StoppedKeepsAsking'
    BY <2>1, <2>5 DEF BeginJob
  <2>6. ASSUME UNCHANGED <<pc, lifecycle, target>>
        PROVE  StoppedKeepsAsking'
    BY <2>1, <2>6 DEF lifecycle, target, IsClaimed, hasRegisters
  <2>7. CASE OnServiceDiscoveryTimeout
    <3>1. schedules'.config_request <=> config_required' /\ IsClaimed'
      BY <2>7, <1>0, LifecycleType DEF OnServiceDiscoveryTimeout, TypeOK
    <3>2. QED
      BY <2>1, <2>7, <3>1 DEF OnServiceDiscoveryTimeout, target, IsClaimed, hasRegisters
  <2>8. CASE (\E id \in CallIds : HandleRpcCall(id)) \/ Sender \/ UNCHANGED vars
    BY <2>6, <2>8 DEF HandleRpcCall, Sender, SendData, TransmitData, vars
  <2>9. CASE heartbeat \/ SendConfigurationRequest \/ AdvertiseService
             \/ \E w \in workers : WorkerStep(w)
    BY <2>6, <2>9
    DEF heartbeat, SendConfigurationRequest, AdvertiseService, Tick,
        WorkerStep, SendRpcResponse, TransmitAnswer
  <2>10. QED
    BY <2>2, <2>3, <2>4, <2>5, <2>7, <2>8, <2>9
    DEF Next, ProcessingStep, Environment, ReceiveClaim, ReceiveConfiguration, Schedule
<1>4. SlotHasOwner'
  <2>1. SlotHasOwner /\ Stopped /\ TypeOK
    BY DEF IInv
  <2> USE DEF SlotHasOwner
  <2>2. CASE StopRpc
    BY <2>2 DEF StopRpc, FreeSlot
  <2>3. CASE Create \/ FinishClaim \/ FinishConfiguration \/ SetTargetIp
             \/ SetTargetPort
    <3>1. pc \notin {"loop", "stop"}
      BY <2>3
      DEF Create, FinishClaim, FinishConfiguration, SetTargetIp, SetTargetPort
    <3>2. ~rpc_in_progress
      BY <2>1, <3>1 DEF Stopped
    <3>3. UNCHANGED rpc_in_progress
      BY <2>3
      DEF Create, FinishClaim, FinishConfiguration, SetTargetIp, SetTargetPort,
          rpc, slot
    <3>4. QED
      BY <3>2, <3>3
  <2>5. ASSUME NEW message, NEW next \in {"target_ip", "configure"},
               BeginJob(message, next)
        PROVE  SlotHasOwner'
    <3>1. CASE is_running
      BY <2>5, <3>1 DEF BeginJob
    <3>2. CASE ~is_running
      <4>1. ~rpc_in_progress /\ UNCHANGED rpc_in_progress
        BY <2>1, <2>5, <3>2 DEF BeginJob, slot
      <4>2. QED
        BY <4>1
    <3>3. QED
      BY <3>1, <3>2
  <2>6. ASSUME NEW id \in CallIds, HandleRpcCall(id) PROVE SlotHasOwner'
    BY <2>1, <2>6 DEF HandleRpcCall, slot, lifecycle
  <2>7. CASE Schedule \/ Sender \/ UNCHANGED vars
    <3>1. UNCHANGED <<pc, is_running, rpc_in_progress, rpc_pending_call_id, pending, workers>>
      BY <2>7
      DEF Schedule, heartbeat, SendConfigurationRequest, AdvertiseService, Tick,
          OnServiceDiscoveryTimeout, Sender, SendData, TransmitData, lifecycle,
          rpc, slot, vars
    <3>2. QED
      BY <2>1, <3>1
  <2>8. ASSUME NEW w \in workers, SendRpcResponse(w) PROVE SlotHasOwner'
    <3>1. CASE rpc_in_progress /\ w.id = rpc_pending_call_id
      BY <2>8, <3>1 DEF SendRpcResponse, AnswerSlot
    <3>2. CASE ~(rpc_in_progress /\ w.id = rpc_pending_call_id)
      <4> DEFINE owner == [call |-> pending, id |-> rpc_pending_call_id, answers |-> 0]
      <4>1. /\ workers' = workers \ {w}
            /\ UNCHANGED <<rpc_in_progress, rpc_pending_call_id, pending, pc, is_running>>
        BY <2>8, <3>2 DEF SendRpcResponse, lifecycle
      <4>2. rpc_in_progress => w # owner
        BY <3>2
      <4>3. rpc_in_progress /\ pc # "stop" => is_running /\ owner \in workers
        BY <2>1
      <4>4. QED
        BY <4>1, <4>2, <4>3
    <3>3. QED
      BY <3>1, <3>2
  <2>9. ASSUME NEW w \in workers, TransmitAnswer(w) PROVE SlotHasOwner'
    BY <2>1, <2>9 DEF TransmitAnswer, slot, lifecycle
  <2>10. QED
    BY <2>2, <2>3, <2>5, <2>6, <2>7, <2>8, <2>9
    DEF Next, ProcessingStep, Environment, ReceiveClaim, ReceiveConfiguration,
        WorkerStep
<1>5. FreshCalls'
  <2>1. FreshCalls /\ TypeOK
    BY DEF IInv
  <2> USE DEF FreshCalls
  <2>2. CASE StopRpc
    BY <2>1, <2>2 DEF StopRpc, FreeSlot
  <2>3. ASSUME UNCHANGED <<slot, calls, replied>>, workers' \subseteq workers
        PROVE  FreshCalls'
    BY <2>1, <2>3 DEF slot
  <2>4. CASE Create \/ FinishClaim \/ FinishConfiguration \/ SetTargetIp
             \/ SetTargetPort \/ Schedule \/ Sender \/ UNCHANGED vars
    BY <2>3, <2>4
    DEF Create, FinishClaim, FinishConfiguration, SetTargetIp, SetTargetPort,
        Schedule, heartbeat, SendConfigurationRequest, AdvertiseService, Tick,
        OnServiceDiscoveryTimeout, Sender, SendData, TransmitData, rpc, slot, vars
  <2>5. ASSUME NEW message, NEW next, BeginJob(message, next)
        PROVE  FreshCalls'
    BY <2>3, <2>5 DEF BeginJob, StopUser, slot
  <2>6. ASSUME NEW id \in CallIds, HandleRpcCall(id) PROVE FreshCalls'
    <3>1. calls \in Nat /\ calls' = calls + 1 /\ 1..calls \subseteq 1..calls'
          /\ calls' \notin 1..calls /\ calls' \in 1..calls'
      BY <2>6 DEF HandleRpcCall, TypeOK, IInv
    <3>2. CASE rpc_in_progress
      <4>1. replied' \subseteq replied \cup {calls'} /\ UNCHANGED <<slot, workers>>
        BY <2>6, <3>2 DEF HandleRpcCall, TransmitRpcResponse
      <4>2. QED
        BY <2>1, <3>1, <4>1 DEF slot
    <3>3. CASE ~rpc_in_progress
      <4>1. /\ rpc_in_progress' /\ pending' = calls' /\ UNCHANGED replied
            /\ workers' = workers \cup {[call |-> calls', id |-> id, answers |-> 0]}
        BY <2>6, <3>3 DEF HandleRpcCall
      <4>2. QED
        BY <2>1, <3>1, <4>1
    <3>4. QED
      BY <3>2, <3>3
  <2>7. ASSUME NEW w \in workers, SendRpcResponse(w) PROVE FreshCalls'
    <3>1. CASE rpc_in_progress /\ w.id = rpc_pending_call_id
      <4> DEFINE a == [w EXCEPT !.answers = pending]
      <4>1. /\ ~rpc_in_progress' /\ UNCHANGED <<calls, replied>>
            /\ workers' = (workers \ {w}) \cup {a}
        BY <2>7, <3>1 DEF SendRpcResponse, AnswerSlot
      <4>2. a.answers = pending
        BY DEF TypeOK, Worker, IInv
      <4>3. pending \in 1..calls /\ pending \notin replied
            /\ \A v \in workers : v.answers # 0 => v.answers # pending
        BY <2>1, <3>1
      <4> HIDE DEF a
      <4>4. QED
        BY <2>1, <4>1, <4>2, <4>3
    <3>2. CASE ~(rpc_in_progress /\ w.id = rpc_pending_call_id)
      BY <2>3, <2>7, <3>2 DEF SendRpcResponse, slot
    <3>3. QED
      BY <3>1, <3>2
  <2>8. ASSUME NEW w \in workers, TransmitAnswer(w) PROVE FreshCalls'
    <3>1. w.answers # 0 /\ workers' = workers \ {w} /\ UNCHANGED <<slot, calls>>
          /\ replied' \subseteq replied \cup {w.answers}
      BY <2>8 DEF TransmitAnswer, TransmitRpcResponse
    <3>2. QED
      BY <2>1, <3>1 DEF slot
  <2>9. QED
    BY <2>2, <2>4, <2>5, <2>6, <2>7, <2>8
    DEF Next, ProcessingStep, Environment, ReceiveClaim, ReceiveConfiguration,
        WorkerStep
<1>6. TargetHolds'
  <2>1. TargetHolds /\ TypeOK
    BY DEF IInv
  <2> USE DEF TargetHolds
  <2>2. CASE Create
    <3>1. config_required' \in BOOLEAN
      BY <2>2, <1>0 DEF TypeOK
    <3>2. /\ schedules'.heartbeat <=> IsClaimed'
          /\ schedules'.config_request <=> config_required' /\ IsClaimed'
      BY <2>2, <3>1, LifecycleType DEF Create, LoadDefaultsAndStart
    <3>3. QED
      BY <2>1, <2>2, <3>2 DEF Create, target, IsClaimed
  <2>3. CASE StopRpc \/ FinishClaim \/ FinishConfiguration \/ OnServiceDiscoveryTimeout
    <3>1. config_required' \in BOOLEAN
      BY <1>0 DEF TypeOK
    <3>2. /\ schedules'.heartbeat <=> IsClaimed'
          /\ schedules'.config_request <=> config_required' /\ IsClaimed'
      BY <2>3, <3>1, LifecycleType
      DEF StopRpc, FinishClaim, FinishConfiguration, OnServiceDiscoveryTimeout,
          LoadDefaultsAndStart
    <3>3. QED
      BY <2>1, <2>3, <3>2
      DEF StopRpc, FinishClaim, FinishConfiguration, OnServiceDiscoveryTimeout,
          target, IsClaimed
  <2>4. CASE SetTargetIp
    BY <2>1, <2>4
    DEF SetTargetIp, TypeOK, ClaimMessage, lifecycle, IsClaimed
  <2>5. CASE SetTargetPort
    BY <2>1, <2>5 DEF SetTargetPort, TypeOK, ClaimMessage, IsClaimed
  <2>6. ASSUME NEW message, NEW next \in {"target_ip", "configure"},
               BeginJob(message, next)
        PROVE  TargetHolds'
    BY <2>1, <2>6 DEF BeginJob, target, IsClaimed
  <2>7. ASSUME UNCHANGED <<pc, schedules, target, sender_ip>>
        PROVE  TargetHolds'
    BY <2>1, <2>7 DEF target, IsClaimed
  <2>8. CASE (\E id \in CallIds : HandleRpcCall(id)) \/ UNCHANGED vars
             \/ \E w \in workers : WorkerStep(w)
    BY <2>7, <2>8
    DEF HandleRpcCall, WorkerStep, SendRpcResponse, TransmitAnswer, lifecycle, vars
  <2>9. CASE heartbeat \/ SendConfigurationRequest \/ AdvertiseService
    BY <2>7, <2>9
    DEF heartbeat, SendConfigurationRequest, AdvertiseService, Tick, lifecycle
  <2>10. CASE Sender
    BY <2>1, <2>10
    DEF Sender, SendData, TransmitData, lifecycle, target, IsClaimed
  <2>11. QED
    BY <2>2, <2>3, <2>4, <2>5, <2>6, <2>8, <2>9, <2>10
    DEF Next, ProcessingStep, Environment, ReceiveClaim, ReceiveConfiguration, Schedule
<1>7. SentToSomeone'
  <2>1. TargetHolds /\ SentToSomeone /\ TypeOK
    BY DEF IInv
  <2> USE DEF SentToSomeone
  <2>2. ASSUME out' = NoPacket PROVE SentToSomeone'
    BY <2>2 DEF NoPacket
  <2>3. ASSUME NEW type \in PacketType, IsClaimed, out' = ToTarget(type)
        PROVE  SentToSomeone'
    BY <2>1, <2>3, ToTargetType DEF IsClaimed, TypeOK
  <2>4. ASSUME NEW type \in PacketType, NEW call \in 0..MaxCalls,
               NEW from \in 0..MaxCalls, TransmitRpcResponse(type, call, from)
        PROVE  SentToSomeone'
    <3>1. CASE IsClaimed
      BY <2>1, <2>4, <3>1, ReplyType DEF TransmitRpcResponse, IsClaimed, TypeOK
    <3>2. CASE ~IsClaimed
      BY <2>2, <2>4, <3>2 DEF TransmitRpcResponse
    <3>3. QED
      BY <3>1, <3>2
  <2>5. CASE FinishClaim
    BY <2>1, <2>3, <2>5 DEF FinishClaim, TargetHolds, PacketType
  <2>6. CASE heartbeat \/ SendConfigurationRequest
    BY <2>1, <2>3, <2>6
    DEF heartbeat, SendConfigurationRequest, Tick, TargetHolds, PacketType
  <2>7. CASE AdvertiseService
    BY <2>7 DEF AdvertiseService, NoPacket
  <2>8. ASSUME NEW id \in CallIds, HandleRpcCall(id) PROVE SentToSomeone'
    <3>1. calls' \in 0..MaxCalls
      BY <1>0 DEF TypeOK
    <3>2. QED
      BY <2>2, <2>4, <2>8, <3>1 DEF HandleRpcCall, PacketType
  <2>9. ASSUME NEW w \in workers, TransmitAnswer(w) PROVE SentToSomeone'
    <3>1. w.answers \in 0..MaxCalls /\ w.call \in 0..MaxCalls
      BY <2>1 DEF TypeOK, Worker, CallNumber
    <3>2. QED
      BY <2>4, <2>9, <3>1 DEF TransmitAnswer, PacketType
  <2>10. CASE TransmitData
    BY <2>1, <2>10, NoPacketType
    DEF TransmitData, ToTarget, NoPacket, TargetHolds, IsClaimed
  <2>11. CASE Create \/ StopRpc \/ SetTargetIp \/ SetTargetPort
              \/ FinishConfiguration \/ OnServiceDiscoveryTimeout \/ SendData
    BY <2>2, <2>11
    DEF Create, StopRpc, SetTargetIp, SetTargetPort, FinishConfiguration,
        OnServiceDiscoveryTimeout, SendData
  <2>12. ASSUME NEW message, NEW next, BeginJob(message, next)
         PROVE  SentToSomeone'
    BY <2>2, <2>12 DEF BeginJob
  <2>13. ASSUME NEW w \in workers, SendRpcResponse(w) PROVE SentToSomeone'
    BY <2>2, <2>13 DEF SendRpcResponse
  <2>14. CASE UNCHANGED vars
    BY <2>1, <2>14 DEF vars
  <2>15. QED
    BY <2>5, <2>6, <2>7, <2>8, <2>9, <2>10, <2>11, <2>12, <2>13, <2>14
    DEF Next, ProcessingStep, Environment, ReceiveClaim, ReceiveConfiguration,
        Schedule, Sender, WorkerStep
<1>8. QED
  BY <1>0, <1>1, <1>2, <1>3, <1>4, <1>5, <1>6, <1>7 DEF IInv

LEMMA Invariance == Spec => []IInv
BY InitInv, NextInv, PTL DEF Spec

\* A running service has exactly one whole configuration in its registers.
THEOREM RunningOnOneConfigurationHolds == Spec => []RunningOnOneConfiguration
<1>1. IInv => RunningOnOneConfiguration
  BY DEF IInv
<1>2. QED
  BY <1>1, Invariance, PTL

\* A claimed service that is not running asks for its configuration.
THEOREM StoppedKeepsAskingHolds == Spec => []StoppedKeepsAsking
<1>1. IInv => StoppedKeepsAsking
  BY DEF IInv
<1>2. QED
  BY <1>1, Invariance, PTL

\* The RPC slot is never leaked.
THEOREM SlotHasOwnerHolds == Spec => []SlotHasOwner
<1>1. IInv => SlotHasOwner
  BY DEF IInv
<1>2. QED
  BY <1>1, Invariance, PTL

\* No packet is addressed to nobody.
THEOREM SentToSomeoneHolds == Spec => []SentToSomeone
<1>1. IInv => SentToSomeone
  BY DEF IInv
<1>2. QED
  BY <1>1, Invariance, PTL

\* No call gets two responses.
THEOREM AtMostOneResponseHolds == Spec => AtMostOneResponse
<1> DEFINE Fresh == out'.type \in {"RPC_RESPONSE", "RPC_BUSY"} => out'.call \notin replied
<1>1. IInv /\ [Next]_vars => [Fresh]_vars
  <2> SUFFICES ASSUME IInv, Next PROVE Fresh
    BY DEF vars
  <2>1. FreshCalls /\ TypeOK
    BY DEF IInv
  <2>2. ASSUME out'.type \notin {"RPC_RESPONSE", "RPC_BUSY"} PROVE Fresh
    BY <2>2
  <2>3. NoPacket.type = "none"
    BY DEF NoPacket
  <2>4. \A type \in PacketType : ToTarget(type).type = type
    BY ToTargetType, <2>1 DEF TypeOK
  <2>5. ASSUME NEW id \in CallIds, HandleRpcCall(id) PROVE Fresh
    <3>1. calls' \in 0..MaxCalls /\ calls' \notin replied
      BY <2>1, <2>5, NextType, ServiceAssumption
      DEF HandleRpcCall, FreshCalls, TypeOK
    <3>2. CASE out' = Reply("RPC_BUSY", calls', calls')
      BY <2>1, <3>1, <3>2, ReplyType DEF TypeOK, PacketType
    <3>3. CASE out' = NoPacket
      BY <2>3, <3>3
    <3>4. QED
      BY <2>5, <3>2, <3>3 DEF HandleRpcCall, TransmitRpcResponse
  <2>6. ASSUME NEW w \in workers, TransmitAnswer(w) PROVE Fresh
    <3>1. /\ w.answers \in 0..MaxCalls /\ w.call \in 0..MaxCalls
          /\ w.answers \notin replied
      BY <2>1, <2>6 DEF TransmitAnswer, FreshCalls, TypeOK, Worker, CallNumber
    <3>2. CASE out' = Reply("RPC_RESPONSE", w.answers, w.call)
      BY <2>1, <3>1, <3>2, ReplyType DEF TypeOK, PacketType
    <3>3. CASE out' = NoPacket
      BY <2>3, <3>3
    <3>4. QED
      BY <2>6, <3>2, <3>3 DEF TransmitAnswer, TransmitRpcResponse
  <2>7. CASE Create \/ StopRpc \/ SetTargetIp \/ SetTargetPort
             \/ FinishConfiguration \/ OnServiceDiscoveryTimeout \/ SendData
    BY <2>2, <2>3, <2>7
    DEF Create, StopRpc, SetTargetIp, SetTargetPort, FinishConfiguration,
        OnServiceDiscoveryTimeout, SendData
  <2>8. CASE FinishClaim \/ heartbeat \/ SendConfigurationRequest
    BY <2>2, <2>4, <2>8
    DEF FinishClaim, heartbeat, SendConfigurationRequest, Tick, PacketType
  <2>9. CASE AdvertiseService
    BY <2>2, <2>9 DEF AdvertiseService, NoPacket
  <2>10. CASE TransmitData
    BY <2>2, <2>10 DEF TransmitData, ToTarget, NoPacket
  <2>11. ASSUME NEW message, NEW next, BeginJob(message, next) PROVE Fresh
    BY <2>2, <2>3, <2>11 DEF BeginJob
  <2>12. ASSUME NEW w \in workers, SendRpcResponse(w) PROVE Fresh
    BY <2>2, <2>3, <2>12 DEF SendRpcResponse
  <2>13. QED
    BY <2>5, <2>6, <2>7, <2>8, <2>9, <2>10, <2>11, <2>12
    DEF Next, ProcessingStep, Environment, ReceiveClaim, ReceiveConfiguration,
        Schedule, Sender, WorkerStep
<1>2. QED
  BY <1>1, Invariance, PTL DEF Spec, AtMostOneResponse

----------------------------------------------------------------------------
(* Go connections.                                                         *)


\* Calls, by where they came from.
Calls == [conn : Conns \cup {NoAddr}, n : Nat, id : CallIds]

GoType ==
  /\ callID \in [Conns -> Nat] /\ waiting \in [Conns -> Nat]
  /\ requests \subseteq Calls
  /\ handled \in Seq(Calls)

Handled(q) == \E i \in DOMAIN handled : handled[i] = q

\* The calls handled are the ones the service has counted, its workers work on
\* some of them, and a response carries the id of the call it is a response to.
ResponsesToHandled ==
  /\ Len(handled) = calls
  /\ \A w \in workers : w.call \in 1..calls
  /\ \A r \in responses : Handled(r.of) /\ r.id = r.of.id

GoInv == TypeOK /\ GoType /\ ResponsesToHandled /\ OutcomeIsOwn

LEMMA GoInitInv == GoInit => GoInv
<1> SUFFICES ASSUME GoInit PROVE GoInv
  OBVIOUS
<1>1. TypeOK
  BY InitType DEF GoInit
<1>2. GoType
  BY DEF GoInit, GoType
<1>3. ResponsesToHandled
  BY DEF GoInit, Init, ResponsesToHandled
<1>4. OutcomeIsOwn
  BY DEF GoInit, OutcomeIsOwn
<1>5. QED
  BY <1>1, <1>2, <1>3, <1>4 DEF GoInv

(***************************************************************************)
(* What a connection sends is a call.                                      *)
(***************************************************************************)
LEMMA OwnType == ASSUME NEW c \in Conns, NEW n \in Nat PROVE Own(c, n) \in Calls
<1>1. n % IdSpan \in 0..(IdSpan - 1)
  BY GoConnAssumption
<1>2. QED
  BY <1>1, GoConnAssumption DEF Own, Origin, Calls

\* Every step of the composition is one the service may take, or none of its.
LEMMA StepIsService ==
  ASSUME GoType, [GoNext]_go_vars
  PROVE  [Next]_vars
<1>1. CASE ServiceStep
  <2>1. \A h \in Hosts : [host |-> h] \in ClaimMessage
    BY DEF ClaimMessage
  <2>2. QED
    BY <1>1, <2>1 DEF ServiceStep, Next, Environment, Schedule
<1>2. CASE Advertise
  BY <1>2 DEF Advertise, Next, Schedule
<1>3. CASE HandleCall
  <2>1. PICK q \in requests \cup {Origin(NoAddr, 0, id) : id \in CallIds} : HandleRpcCall(q.id)
    BY <1>3 DEF HandleCall
  <2>2. q.id \in CallIds
    BY DEF GoType, Calls, Origin
  <2>3. QED
    BY <2>1, <2>2 DEF Next, Environment
<1>4. ASSUME NEW c \in Conns, HandleClaim(c) PROVE Next
  <2>1. [host |-> c] \in ClaimMessage
    BY GoConnAssumption DEF ClaimMessage
  <2>2. QED
    BY <1>4, <2>1 DEF HandleClaim, Next, Environment
<1>5. CASE LosePacket /\ UNCHANGED <<vars, handled>>
  BY <1>5
<1>6. ASSUME NEW c \in Conns, ConnStep(c), UNCHANGED <<vars, handled>> PROVE UNCHANGED vars
  BY <1>6
<1>7. CASE UNCHANGED go_vars
  BY <1>7 DEF go_vars
<1>8. QED
  BY <1>1, <1>2, <1>3, <1>4, <1>5, <1>6, <1>7 DEF GoNext

(***************************************************************************)
(* What a step of the service other than the dispatch of a call does to    *)
(* calls and workers: it counts none, and answers none but a worker's.     *)
(***************************************************************************)
Answered(type, from) ==
  type \in {"RPC_RESPONSE", "RPC_BUSY"} => \E w \in workers : from = w.call

LEMMA NoNewCalls ==
  ASSUME TypeOK, ServiceStep \/ AdvertiseService \/ \E c \in Conns : HandleClaim(c)
  PROVE  /\ calls' = calls
         /\ \A w \in workers' : \E u \in workers : w.call = u.call
         /\ Answered(out'.type, out'.from)
<1> USE DEF Answered, slot, rpc
<1> DEFINE Goal == /\ calls' = calls
                   /\ \A w \in workers' : \E u \in workers : w.call = u.call
                   /\ Answered(out'.type, out'.from)
<1> NoPacket.type = "none"
  BY DEF NoPacket
<1>1. \A type \in PacketType : ToTarget(type).type = type
  BY ToTargetType DEF TypeOK
<1>2. ASSUME NEW type \in PacketType \ {"RPC_RESPONSE", "RPC_BUSY"}, out' = ToTarget(type)
      PROVE  Answered(out'.type, out'.from)
  BY <1>1, <1>2
<1>3. CASE ProcessingStep
  <2>1. CASE FinishClaim
    BY <1>2, <2>1 DEF FinishClaim, PacketType
  <2>2. CASE ~FinishClaim
    BY <1>3, <2>2 DEF ProcessingStep, Create, StopRpc, SetTargetIp, SetTargetPort, FinishConfiguration, FreeSlot
  <2>3. QED
    BY <2>1, <2>2
<1>4. ASSUME NEW message, NEW next, BeginJob(message, next) PROVE Goal
  BY <1>4 DEF BeginJob, StopUser
<1>5. CASE heartbeat \/ SendConfigurationRequest
  <2>1. PICK type \in {"HEARTBEAT", "CONFIGURATION_REQUEST"} : Tick(type)
    BY <1>5 DEF heartbeat, SendConfigurationRequest
  <2>2. QED
    BY <1>2, <2>1 DEF Tick, PacketType
<1>6. CASE AdvertiseService \/ OnServiceDiscoveryTimeout
  BY <1>6 DEF AdvertiseService, OnServiceDiscoveryTimeout, NoPacket
<1>7. ASSUME NEW w \in workers, WorkerStep(w) PROVE Goal
  <2>1. CASE SendRpcResponse(w)
    BY <2>1 DEF SendRpcResponse, AnswerSlot, TypeOK, Worker
  <2>2. CASE TransmitAnswer(w)
    <3>1. Reply("RPC_RESPONSE", w.answers, w.call).from = w.call
      BY DEF Reply, ToTarget, NoPacket
    <3>2. QED
      BY <2>2, <3>1 DEF TransmitAnswer, TransmitRpcResponse
  <2>3. QED
    BY <1>7, <2>1, <2>2 DEF WorkerStep
<1>8. CASE Sender
  <2>1. CASE SendData
    BY <2>1 DEF SendData
  <2>2. CASE TransmitData
    <3>1. [ToTarget("DATA") EXCEPT !.ip = sender_ip].type = "DATA"
      BY DEF ToTarget, NoPacket
    <3>2. QED
      BY <2>2, <3>1 DEF TransmitData
  <2>3. QED
    BY <1>8, <2>1, <2>2 DEF Sender
<1>9. QED
  BY <1>3, <1>4, <1>5, <1>6, <1>7, <1>8
  DEF ServiceStep, HandleClaim, ReceiveClaim, ReceiveConfiguration

\* A packet that was sent for a handled call becomes a response to it.
LEMMA Transmitted ==
  ASSUME NEW r \in responses', Transmit,
         out'.type \in {"RPC_RESPONSE", "RPC_BUSY"} => out'.from \in DOMAIN handled'
  PROVE  r \in responses \/ (Handled(r.of)' /\ r.id = r.of.id)
BY DEF Transmit, Handled

(***************************************************************************)
(* One case for each thread: the service, the dispatch of a call, and the  *)
(* connections, of whose steps only Receive() has a result.                *)
(***************************************************************************)
LEMMA ServiceKeeps ==
  ASSUME GoInv, TypeOK',
         ServiceStep \/ Advertise \/ \E c \in Conns : HandleClaim(c)
  PROVE  GoInv'
<1>1. /\ UNCHANGED <<callID, waiting, requests, handled>>
      /\ result' = NoResult
  BY DEF ServiceStep, Advertise, HandleClaim, Transmit, find, conn_vars, network
<1>2. /\ calls' = calls
      /\ \A w \in workers' : \E u \in workers : w.call = u.call
      /\ Answered(out'.type, out'.from)
  BY NoNewCalls DEF GoInv, Advertise
<1>3. GoType'
  BY <1>1 DEF GoInv, GoType
<1>4. ResponsesToHandled'
  <2>1. Len(handled') = calls' /\ \A w \in workers' : w.call \in 1..calls'
    BY <1>1, <1>2 DEF GoInv, ResponsesToHandled
  <2>2. ASSUME NEW r \in responses' PROVE Handled(r.of)' /\ r.id = r.of.id
    <3>1. CASE Advertise
      BY <1>1, <2>2, <3>1 DEF Advertise, find, network, GoInv, ResponsesToHandled, Handled
    <3>2. CASE ~Advertise
      <4>1. out'.type \in {"RPC_RESPONSE", "RPC_BUSY"} => out'.from \in DOMAIN handled'
        BY <1>1, <1>2 DEF Answered, GoInv, GoType, ResponsesToHandled
      <4>2. Transmit
        BY <3>2 DEF ServiceStep, HandleClaim
      <4>3. r \in responses \/ (Handled(r.of)' /\ r.id = r.of.id)
        BY <4>1, <4>2, Transmitted
      <4>4. QED
        BY <1>1, <4>3 DEF GoInv, ResponsesToHandled, Handled
    <3>3. QED
      BY <3>1, <3>2
  <2>3. QED
    BY <2>1, <2>2 DEF ResponsesToHandled
<1>5. OutcomeIsOwn'
  BY <1>1 DEF OutcomeIsOwn
<1>6. QED
  BY <1>3, <1>4, <1>5 DEF GoInv

LEMMA HandleCallKeeps == ASSUME GoInv, TypeOK', HandleCall PROVE GoInv'
<1> PICK q \in requests \cup {Origin(NoAddr, 0, id) : id \in CallIds} :
      /\ HandleRpcCall(q.id)
      /\ handled' = Append(handled, q)
      /\ requests' = requests \ {q}
  BY DEF HandleCall
<1>1. q \in Calls
  BY DEF GoInv, GoType, Calls, Origin
<1>2. UNCHANGED <<callID, waiting>> /\ result' = NoResult /\ Transmit
  BY DEF HandleCall, conn_vars, Transmit
<1>3. GoType'
  BY <1>1, <1>2 DEF GoInv, GoType
<1>4. ResponsesToHandled'
  <2>1. /\ calls \in Nat /\ calls' = calls + 1
        /\ Len(handled') = calls' /\ handled'[calls'] = q
        /\ \A i \in DOMAIN handled : i \in DOMAIN handled' /\ handled'[i] = handled[i]
    BY <1>1, ServiceAssumption
    DEF GoInv, GoType, ResponsesToHandled, HandleRpcCall, TypeOK
  <2>2. \A w \in workers' : w.call \in 1..calls'
    BY <2>1 DEF HandleRpcCall, TransmitRpcResponse, GoInv, ResponsesToHandled
  <2>3. out'.type \in {"RPC_RESPONSE", "RPC_BUSY"} => out'.from = calls'
    <3>1. Reply("RPC_BUSY", calls', calls').from = calls' /\ NoPacket.type = "none"
      BY DEF Reply, ToTarget, NoPacket
    <3>2. QED
      BY <3>1 DEF HandleRpcCall, TransmitRpcResponse
  <2>4. calls' \in DOMAIN handled'
    BY <1>3, <2>1 DEF GoType
  <2>5. ASSUME NEW r \in responses' PROVE Handled(r.of)' /\ r.id = r.of.id
    BY <1>2, <2>1, <2>3, <2>4, Transmitted DEF GoInv, ResponsesToHandled, Handled
  <2>6. QED
    BY <2>1, <2>2, <2>5 DEF ResponsesToHandled
<1>5. OutcomeIsOwn'
  BY <1>2 DEF OutcomeIsOwn
<1>6. QED
  BY <1>3, <1>4, <1>5 DEF GoInv

LEMMA ConnKeeps ==
  ASSUME GoInv, TypeOK', UNCHANGED <<vars, handled>>,
         LosePacket \/ \E c \in Conns : ConnStep(c)
  PROVE  GoInv'
<1>1. UNCHANGED <<workers, calls, handled>>
  BY DEF vars, rpc
<1>2. ASSUME NEW c \in Conns, NEW r \in responses, Receive(c, r) PROVE GoInv'
  <2>1. GoType'
    <3>1. UNCHANGED <<callID, requests>> /\ (UNCHANGED waiting \/ waiting' = [waiting EXCEPT ![c] = 0])
      BY <1>2 DEF Receive
    <3>2. QED
      BY <1>1, <3>1 DEF GoInv, GoType
  <2>2. ResponsesToHandled'
    BY <1>1, <1>2 DEF Receive, GoInv, ResponsesToHandled, Handled
  <2>3. OutcomeIsOwn'
    <3>1. CASE result' = NoResult
      BY <3>1 DEF OutcomeIsOwn
    <3>2. CASE IsResponse(c, r) /\ result' = [type |-> r.type, own |-> Own(c, waiting[c]), of |-> r.of]
      <4>1. PICK i \in DOMAIN handled : handled[i] = r.of
        BY DEF GoInv, ResponsesToHandled, Handled
      <4>2. handled[i].id = Own(c, waiting[c]).id
        <5>1. Own(c, waiting[c]).id = waiting[c] % IdSpan
          BY DEF Own, Origin
        <5>2. r.id = waiting[c] % IdSpan
          BY <3>2 DEF IsResponse
        <5>3. r.id = r.of.id
          BY DEF GoInv, ResponsesToHandled
        <5>4. QED
          BY <4>1, <5>1, <5>2, <5>3
      <4>3. QED
        BY <3>2, <4>1, <4>2 DEF OutcomeIsOwn
    <3>3. QED
      BY <1>2, <3>1, <3>2 DEF Receive
  <2>4. QED
    BY <2>1, <2>2, <2>3 DEF GoInv
<1>3. ASSUME NEW c \in Conns, startCall(c), UNCHANGED waiting \/ waiting' = [waiting EXCEPT ![c] = callID'[c]]
      PROVE  GoInv'
  <2>1. callID' \in [Conns -> Nat] /\ waiting' \in [Conns -> Nat] /\ callID'[c] \in Nat
    BY <1>3 DEF startCall, GoInv, GoType
  <2>2. requests' \subseteq Calls
    <3>1. Own(c, callID'[c]) \in Calls
      BY <2>1, OwnType
    <3>2. QED
      BY <1>3, <3>1 DEF startCall, GoInv, GoType
  <2>3. GoType'
    BY <2>1, <2>2 DEF GoInv, GoType
  <2>4. QED
    BY <1>1, <1>3, <2>3 DEF startCall, GoInv, ResponsesToHandled, Handled, OutcomeIsOwn
<1>4. ASSUME NEW c \in Conns, SendRPC(c) \/ Call(c) PROVE GoInv'
  BY <1>3, <1>4 DEF SendRPC, Call
<1>5. ASSUME UNCHANGED <<callID, requests, responses>>, result' = NoResult,
             waiting' \in [Conns -> Nat]
      PROVE  GoInv'
  BY <1>1, <1>5 DEF GoInv, GoType, ResponsesToHandled, Handled, OutcomeIsOwn
<1>6. CASE LosePacket
  BY <1>5, <1>6 DEF LosePacket, conn_vars, GoInv, GoType
<1>7. ASSUME NEW c \in Conns, Dial(c) \/ SendClaim(c) \/ ReceiveClaimAck(c) \/ Close(c) \/ TimeOut(c)
      PROVE  GoInv'
  BY <1>5, <1>7
  DEF Dial, SendClaim, ReceiveClaimAck, Close, TimeOut, conn_vars, network, GoInv, GoType
<1>8. QED
  BY <1>2, <1>4, <1>6, <1>7 DEF ConnStep

LEMMA GoNextInv == GoInv /\ [GoNext]_go_vars => GoInv'
<1> SUFFICES ASSUME GoInv, [GoNext]_go_vars PROVE GoInv'
  OBVIOUS
<1>1. TypeOK'
  BY NextType, StepIsService DEF GoInv
<1>2. CASE UNCHANGED go_vars
  BY <1>1, <1>2
  DEF go_vars, vars, rpc, conn_vars, network, GoInv, GoType, ResponsesToHandled, Handled, OutcomeIsOwn
<1>3. QED
  BY <1>1, <1>2, ServiceKeeps, HandleCallKeeps, ConnKeeps DEF GoNext

LEMMA GoInvariance == GoSpec => []GoInv
BY GoInitInv, GoNextInv, PTL DEF GoSpec

(***************************************************************************)
(* Composed with connections the service behaves as module Service says,   *)
(* so that every theorem of Service_proof holds of it.                     *)
(***************************************************************************)
THEOREM ServiceImplemented == GoSpec => Spec
<1>1. GoInit => Init
  BY DEF GoInit
<1>2. GoInv /\ [GoNext]_go_vars => [Next]_vars
  BY StepIsService DEF GoInv
<1>3. QED
  BY <1>1, <1>2, GoInvariance, PTL DEF GoSpec, Spec

\* Call() returns the outcome of its own call, unless its id was given twice.
THEOREM OutcomeIsOwnHolds == GoSpec => []OutcomeIsOwn
<1>1. GoInv => OutcomeIsOwn
  BY DEF GoInv
<1>2. QED
  BY <1>1, GoInvariance, PTL
=============================================================================
