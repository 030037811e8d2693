----------------------------- MODULE RpcClient -----------------------------
(***************************************************************************)
(* Remote calls of the C++ interface: ServiceInterfaceBase::SendRpc and    *)
(* the callbacks that end a call (ServiceInterfaceBase.cpp).  Any number   *)
(* of threads may call SendRpc; responses come from the ServiceIO thread.  *)
(*                                                                         *)
(* Every section under rpc_mutex_ is one step, and a thread that waits on  *)
(* rpc_cv_ is off the processor until a notify_all(): `asleep` are those   *)
(* in the first wait, which has no timeout.                                *)
(***************************************************************************)
EXTENDS Naturals, FiniteSets

CONSTANTS
  Callers,   \* the threads that call SendRpc
  NoCaller,  \* a null response pointer
  IdSpan,    \* call ids are counted modulo this (2^16 in the code)
  MaxAge,    \* how many calls later a response may still arrive
  MaxCalls   \* bound: calls in a behaviour

ASSUME RpcClientAssumption ==
  /\ IsFiniteSet(Callers) /\ NoCaller \notin Callers
  /\ IdSpan \in Nat \ {0}
  /\ MaxAge \in 1..IdSpan
  /\ MaxCalls \in Nat

Disconnected == 255    \* UINT8_MAX
Status == {0, 1, Disconnected}

Fits == 1
TooLarge == 2
Size == {0, Fits, TooLarge}

NoResponse == [from |-> 0, status |-> 0, size |-> 0]

VARIABLES
  pc,                     \* what each thread is doing
  rpc_call_counter,
  pending_call_id,
  rpc_call_active,
  rpc_response_status,
  rpc_response_payload,   \* whose buffer the response goes to
  rpc_received_size,
  asleep,                 \* the threads in rpc_cv_.wait()
  service_discovered,
  disconnecting,          \* MarkServiceDisconnected is between its sections
  calls,                  \* ghost: how many calls were begun
  sent,                   \* ghost: those that were sent
  call,                   \* ghost: the number of each thread's call
  response,               \* ghost: what ended it
  result                  \* what SendRpc returned

slot == <<rpc_call_counter, pending_call_id, rpc_call_active,
          rpc_response_status, rpc_received_size>>
link == <<service_discovered, disconnecting>>
vars == <<pc, slot, rpc_response_payload, asleep, link, calls, sent, call,
          response, result>>

TypeOK ==
  /\ pc \in [Callers -> {"idle", "enter", "wait"}]
  /\ rpc_call_counter \in 0..(IdSpan - 1) /\ pending_call_id \in 0..(IdSpan - 1)
  /\ rpc_call_active \in BOOLEAN
  /\ rpc_response_status \in Status /\ rpc_received_size \in Size
  /\ rpc_response_payload \in Callers \cup {NoCaller}
  /\ asleep \subseteq Callers
  /\ service_discovered \in BOOLEAN /\ disconnecting \in BOOLEAN
  /\ calls \in Nat /\ sent \subseteq 1..calls
  /\ call \in [Callers -> 0..calls]
  /\ response \in [Callers -> [from : 0..calls, status : Status, size : Size]]
  /\ result \in [Callers -> {"none", "OK", "ERROR", "TIMEOUT"}]

Init ==
  /\ pc = [c \in Callers |-> "idle"]
  /\ rpc_call_counter = 0 /\ pending_call_id = 0
  /\ rpc_call_active = FALSE
  /\ rpc_response_status = 0 /\ rpc_received_size = 0
  /\ rpc_response_payload = NoCaller
  /\ asleep = {}
  /\ service_discovered = FALSE /\ disconnecting = FALSE
  /\ calls = 0 /\ sent = {}
  /\ call = [c \in Callers |-> 0]
  /\ response = [c \in Callers |-> NoResponse]
  /\ result = [c \in Callers |-> "none"]

----------------------------------------------------------------------------
(* SendRpc.                                                                *)

\* service_discovered_ is read before the lock is taken.
Call(c) ==
  /\ pc[c] = "idle"
  /\ service_discovered
  /\ calls + Cardinality({d \in Callers : pc[d] = "enter"}) < MaxCalls
  /\ pc' = [pc EXCEPT ![c] = "enter"]
  /\ result' = [result EXCEPT ![c] = "none"]
  /\ response' = [response EXCEPT ![c] = NoResponse]
  /\ UNCHANGED <<slot, rpc_response_payload, asleep, link, calls, sent, call>>

Refuse(c) ==
  /\ pc[c] = "idle"
  /\ ~service_discovered
  /\ result' = [result EXCEPT ![c] = "ERROR"]
  /\ response' = [response EXCEPT ![c] = NoResponse]
  /\ UNCHANGED <<pc, slot, rpc_response_payload, asleep, link, calls, sent, call>>

\* Another call is in flight: wait to be notified that it no longer is.
Sleep(c) ==
  /\ pc[c] = "enter" /\ c \notin asleep
  /\ rpc_call_active
  /\ asleep' = asleep \cup {c}
  /\ UNCHANGED <<pc, slot, rpc_response_payload, link, calls, sent, call,
                 response, result>>

\* Faulty variant: the counter is wider than the call id.
TakeCallIdWide ==
  /\ rpc_call_counter' = rpc_call_counter + 1
  /\ pending_call_id' = rpc_call_counter'

TakeCallId ==
  /\ rpc_call_counter' = (rpc_call_counter + 1) % IdSpan
  /\ pending_call_id' = rpc_call_counter'

\* The packet goes out and the thread waits for its response.
Send(c) ==
  /\ pc' = [pc EXCEPT ![c] = "wait"]
  /\ sent' = sent \cup {calls'}
  /\ rpc_call_active' = TRUE
  /\ rpc_response_payload' = c
  /\ rpc_received_size' = 0
  /\ UNCHANGED <<asleep, result>>

\* ServiceIO has no endpoint, or the socket refuses the packet.
FailToSend(c) ==
  /\ pc' = [pc EXCEPT ![c] = "idle"]
  /\ result' = [result EXCEPT ![c] = "ERROR"]
  /\ rpc_call_active' = FALSE
  /\ asleep' = {}
  /\ UNCHANGED <<sent, rpc_response_payload, rpc_received_size>>

Begin(c) ==
  /\ pc[c] = "enter" /\ c \notin asleep
  /\ ~rpc_call_active
  /\ TakeCallId
  /\ rpc_response_status' = 0
  /\ calls' = calls + 1
  /\ call' = [call EXCEPT ![c] = calls']
  /\ Send(c) \/ FailToSend(c)
  /\ UNCHANGED <<link, response>>

\* Faulty variant: a call that was given up leaves its buffer behind.
KeepBuffer == UNCHANGED rpc_response_payload

ClearBuffer == rpc_response_payload' = NoCaller

\* Faulty variant: nobody is told that the slot is free again.
KeepQuiet == UNCHANGED asleep

notify_all == asleep' = {}

\* The call is over when the thread gets the lock back.
Wake(c) ==
  /\ pc[c] = "wait"
  /\ ~rpc_call_active
  /\ pc' = [pc EXCEPT ![c] = "idle"]
  /\ ClearBuffer
  /\ result' = [result EXCEPT ![c] =
       IF rpc_response_status = 0 /\ rpc_received_size # TooLarge
         THEN "OK" ELSE "ERROR"]
  /\ UNCHANGED <<slot, asleep, link, calls, sent, call, response>>

\* timeout_ms have passed and a call - this one or a later one - is in flight.
Timeout(c) ==
  /\ pc[c] = "wait"
  /\ rpc_call_active
  /\ pc' = [pc EXCEPT ![c] = "idle"]
  /\ ClearBuffer
  /\ rpc_call_active' = FALSE
  /\ notify_all
  /\ result' = [result EXCEPT ![c] = "TIMEOUT"]
  /\ UNCHANGED <<rpc_call_counter, pending_call_id, rpc_response_status,
                 rpc_received_size, link, calls, sent, call, response>>

----------------------------------------------------------------------------
(* The ServiceIO and discovery threads.                                    *)

\* Both callbacks end the call in flight the same way.
EndCall(from, status, size) ==
  /\ rpc_response_status' = status
  /\ rpc_received_size' = size
  /\ rpc_call_active' = FALSE
  /\ notify_all
  /\ response' = [response EXCEPT ![rpc_response_payload] =
       [from |-> from, status |-> status, size |-> size]]
  /\ UNCHANGED <<rpc_call_counter, pending_call_id, rpc_response_payload>>

\* Faulty variant: any response ends the call.
IsForAnyCall(id) == rpc_call_active

IsExpected(id) == rpc_call_active /\ id = pending_call_id

\* A response to call number n: delayed, duplicated or lost as UDP pleases,
\* but gone once MaxAge newer calls have been made.
OnRpcResponse(n, status, size) ==
  /\ n \in sent /\ calls - n < MaxAge
  /\ IsExpected(n % IdSpan)
  /\ EndCall(n, status, size)
  /\ UNCHANGED <<pc, link, calls, sent, call, result>>

OnServiceDiscovered ==
  /\ ~disconnecting /\ ~service_discovered
  /\ service_discovered' = TRUE
  /\ UNCHANGED <<pc, slot, rpc_response_payload, asleep, disconnecting, calls,
                 sent, call, response, result>>

\* MarkServiceDisconnected: first under state_mutex_ ...
LoseService ==
  /\ ~disconnecting /\ service_discovered
  /\ service_discovered' = FALSE
  /\ disconnecting' = TRUE
  /\ UNCHANGED <<pc, slot, rpc_response_payload, asleep, calls, sent, call,
                 response, result>>

\* ... then under rpc_mutex_.
AbortCall ==
  /\ disconnecting
  /\ disconnecting' = FALSE
  /\ IF rpc_call_active
       THEN EndCall(0, Disconnected, 0)
       ELSE UNCHANGED <<slot, rpc_response_payload, asleep, response>>
  /\ UNCHANGED <<pc, service_discovered, calls, sent, call, result>>

----------------------------------------------------------------------------
\* A thread inside SendRpc goes on when it has the lock and something to do.
Advance(c) == Sleep(c) \/ Begin(c) \/ Wake(c) \/ Timeout(c)

Response ==
  \E n \in sent, status \in {0, 1}, size \in {Fits, TooLarge} :
    OnRpcResponse(n, status, size)

Next ==
  \/ \E c \in Callers : Call(c) \/ Refuse(c) \/ Advance(c)
  \/ Response
  \/ OnServiceDiscovered \/ LoseService \/ AbortCall

Spec == Init /\ [][Next]_vars

\* Threads are scheduled and timeouts pass; nothing else need happen.
FairSpec == Spec /\ \A c \in Callers : WF_vars(Advance(c))

----------------------------------------------------------------------------
(***************************************************************************)
(* OnRpcResponse and MarkServiceDisconnected write through pointers to a   *)
(* caller's stack without a null check on the size.  They never dangle:    *)
(* whatever the pointer is, its owner is still inside SendRpc; and while a *)
(* call is in flight it points to the buffer of that very call, although   *)
(* every returning caller resets it (ServiceInterfaceBase.cpp:173-174).    *)
(***************************************************************************)
ResponseBufferAlive ==
  /\ rpc_response_payload # NoCaller => pc[rpc_response_payload] = "wait"
  /\ rpc_call_active =>
       /\ rpc_response_payload # NoCaller
       /\ call[rpc_response_payload] = calls

(***************************************************************************)
(* The wait for a free slot (ServiceInterfaceBase.cpp:135) has no timeout. *)
(* No wakeup is lost: a thread sleeps there only while a call is in flight *)
(* whose caller waits and will time out.                                   *)
(***************************************************************************)
SleeperHasWaker ==
  asleep # {} =>
    /\ rpc_call_active
    /\ \E c \in Callers \ asleep : pc[c] = "wait" /\ call[c] = calls

(***************************************************************************)
(* A call ends with its own response or with none: a response that comes   *)
(* late, twice or after the 16-bit counter wrapped is never taken for the  *)
(* response to a newer call, as long as none is IdSpan calls late.         *)
(***************************************************************************)
OwnResponse ==
  \A c \in Callers : response[c].from # 0 => response[c].from = call[c]

(***************************************************************************)
(* Every call returns, whatever the network and the other callers do - as  *)
(* long as these stop calling some day: nothing orders the threads that    *)
(* wait for the slot.                                                      *)
(***************************************************************************)
CallReturns == \A c \in Callers : pc[c] # "idle" ~> pc[c] = "idle"

(***************************************************************************)
(* ServiceInterfaceBase.hpp:48: SendRpc "waits for response and returns    *)
(* the response in the provided buffer".  So RPC_OK means that a response  *)
(* to this call came, reported success and fitted the buffer.              *)
(***************************************************************************)
OkMeansAnswered ==
  \A c \in Callers : result[c] = "OK" =>
    response[c] = [from |-> call[c], status |-> 0, size |-> Fits]

----------------------------------------------------------------------------
\* A call is answered by its own good response; anything else fails it.
Stage(c) ==
  CASE pc[c] = "idle" -> "idle"
    [] pc[c] # "idle" /\ response[c] = NoResponse -> "calling"
    [] OTHER -> IF response[c] = [from |-> call[c], status |-> 0, size |-> Fits]
                  THEN "answered" ELSE "failed"

Promise == INSTANCE RpcPromise WITH stage <- [c \in Callers |-> Stage(c)]

(***************************************************************************)
(* For a single caller SendRpc keeps the promise of RpcPromise.            *)
(***************************************************************************)
KeepsPromise == Promise!Spec
=============================================================================
