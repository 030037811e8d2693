------------------------------- MODULE PyRpc -------------------------------
(***************************************************************************)
(* Remote calls of the Python interface: ServiceInterface._call_rpc and    *)
(* the callbacks that end a call (interface.py).                           *)
(*                                                                         *)
(* _rpc_lock serialises the callers for a whole call, so that a thread in  *)
(* "enter" goes on only when none is in "wait".  _rpc_condition's lock     *)
(* makes each section of the other threads one step.                       *)
(***************************************************************************)
EXTENDS Naturals, FiniteSets

CONSTANTS
  Callers,    \* the threads that call call_*()
  IdSpan,     \* call ids are counted modulo this (2^16 in the code)
  MaxAge,     \* how many calls later a response may still arrive
  MaxCalls,   \* bound: calls in a behaviour
  PromptWake  \* a caller that was woken runs before a service reconnects

ASSUME PyRpcAssumption ==
  /\ IdSpan \in Nat \ {0}
  /\ MaxAge \in 1..IdSpan
  /\ MaxCalls \in Nat
  /\ PromptWake \in BOOLEAN
  /\ IsFiniteSet(Callers)

Good == [status |-> "ok", from |-> 0]  \* what _rpc_response_* start with

Status == {"ok", "busy", "error"}

VARIABLES
  pc,                    \* what each thread is doing
  _rpc_call_counter,
  _pending_call_id,
  _rpc_call_active,
  _rpc_response,         \* _rpc_response_status and _payload; whose they are
  _connected,
  calls,                 \* ghost: how many calls were begun
  sent,                  \* ghost: those that were sent
  response,              \* ghost: what ended the call in flight
  result                 \* what each thread's last call returned or raised

slot == <<_rpc_call_counter, _pending_call_id, _rpc_call_active, _rpc_response>>
vars == <<pc, slot, _connected, calls, sent, response, result>>

None == [status |-> "none", from |-> 0]
Lost == [status |-> "lost", from |-> 0]

TypeOK ==
  /\ pc \in [Callers -> {"idle", "enter", "wait"}]
  /\ _rpc_call_counter \in 0..(IdSpan - 1) /\ _pending_call_id \in 0..(IdSpan - 1)
  /\ _rpc_call_active \in BOOLEAN
  /\ _rpc_response \in [status : Status, from : 0..calls]
  /\ _connected \in BOOLEAN
  /\ calls \in 0..MaxCalls /\ sent \subseteq 1..calls
  /\ response \in [status : Status, from : 1..calls] \cup {None, Lost}
  /\ result \in [Callers -> {"none", "OK", "ERROR", "TIMEOUT"}]

Init ==
  /\ pc = [c \in Callers |-> "idle"]
  /\ _rpc_call_counter = 0 /\ _pending_call_id = 0 /\ _rpc_call_active = FALSE
  /\ _rpc_response = Good
  /\ _connected = FALSE
  /\ calls = 0 /\ sent = {} /\ response = None
  /\ result = [c \in Callers |-> "none"]

Return(c, r) ==
  /\ pc' = [pc EXCEPT ![c] = "idle"]
  /\ result' = [result EXCEPT ![c] = r]

----------------------------------------------------------------------------
(* _call_rpc.                                                              *)

\* Serialise the parameters and queue for _rpc_lock.
Call(c) ==
  /\ pc[c] = "idle"
  /\ calls + Cardinality({d \in Callers : pc[d] = "enter"}) < MaxCalls
  /\ pc' = [pc EXCEPT ![c] = "enter"]
  /\ result' = [result EXCEPT ![c] = "none"]
  /\ UNCHANGED <<slot, _connected, calls, sent, response>>

\* Faulty variant: the counter is not cut to 16 bits.
NextCallIdUncut == _rpc_call_counter + 1

NextCallId == (_rpc_call_counter + 1) % IdSpan

\* The id advances even when the packet is not sent (not claimed, socket error).
Begin(c) ==
  /\ pc[c] = "enter"
  /\ \A d \in Callers : pc[d] # "wait"
  /\ calls' = calls + 1
  /\ _rpc_call_counter' = NextCallId
  /\ _pending_call_id' = _rpc_call_counter'
  /\ response' = None
  /\ \/ /\ pc' = [pc EXCEPT ![c] = "wait"]
        /\ sent' = sent \cup {calls'}
        /\ _rpc_call_active' = TRUE
        /\ UNCHANGED result
     \/ /\ Return(c, "ERROR")
        /\ _rpc_call_active' = FALSE
        /\ UNCHANGED sent
  /\ UNCHANGED <<_rpc_response, _connected>>

\* Faulty variant: does not look whether the service is still there.
OutcomeBlind == IF _rpc_response.status = "ok" THEN "OK" ELSE "ERROR"

\* What wait_for() is followed by once the call is no longer active.
Outcome ==
  IF _connected /\ _rpc_response.status = "ok" THEN "OK" ELSE "ERROR"

Wake(c) ==
  /\ pc[c] = "wait"
  /\ ~_rpc_call_active
  /\ Return(c, Outcome)
  /\ UNCHANGED <<slot, _connected, calls, sent, response>>

Timeout(c) ==
  /\ pc[c] = "wait"
  /\ _rpc_call_active
  /\ _rpc_call_active' = FALSE
  /\ Return(c, "TIMEOUT")
  /\ UNCHANGED <<_rpc_call_counter, _pending_call_id, _rpc_response, _connected,
                 calls, sent, response>>

----------------------------------------------------------------------------
(* The recv and watchdog threads.                                          *)

\* Faulty variant: accepts what a call that timed out left on the way.
IsForAnyCall(id) == _rpc_call_active

IsExpected(id) == _rpc_call_active /\ id = _pending_call_id

\* A response to call number n: late, twice or never.
_on_rpc_response(n, status) ==
  /\ calls - n < MaxAge
  /\ IsExpected(n % IdSpan)
  /\ _rpc_response' = [status |-> status, from |-> n]
  /\ response' = [status |-> status, from |-> n]
  /\ _rpc_call_active' = FALSE
  /\ UNCHANGED <<pc, _rpc_call_counter, _pending_call_id, _connected, calls,
                 sent, result>>

\* Ends the call in flight, but leaves the last response where it is.
_on_disconnected ==
  /\ _connected' = FALSE
  /\ _rpc_call_active' = FALSE
  /\ response' = IF _rpc_call_active THEN Lost ELSE response
  /\ UNCHANGED <<pc, _rpc_call_counter, _pending_call_id, _rpc_response, calls,
                 sent, result>>

_on_claim_ack ==
  /\ PromptWake => ~ \E c \in Callers : pc[c] = "wait" /\ ~_rpc_call_active
  /\ _connected' = TRUE
  /\ UNCHANGED <<pc, slot, calls, sent, response, result>>

----------------------------------------------------------------------------
Advance(c) == Begin(c) \/ Wake(c) \/ Timeout(c)

Next ==
  \/ \E c \in Callers : Call(c) \/ Advance(c)
  \/ \E n \in sent, status \in Status : _on_rpc_response(n, status)
  \/ _on_disconnected \/ _on_claim_ack

\* Threads are scheduled and timeouts pass; nothing else need happen.
Spec == Init /\ [][Next]_vars /\ \A c \in Callers : WF_vars(Advance(c))

----------------------------------------------------------------------------
(***************************************************************************)
(* manager.py:67: "Caller unblocks, reads response, returns" - so a call   *)
(* returns a value only when its own response, reporting success, is what  *)
(* ended it.                                                               *)
(***************************************************************************)
ReturnsItsResponse ==
  \A c \in Callers : pc[c] = "wait" /\ ~_rpc_call_active /\ Outcome = "OK" =>
    response = [status |-> "ok", from |-> calls]

----------------------------------------------------------------------------
Stage(c) ==
  CASE pc[c] = "idle" -> "idle"
    [] pc[c] = "enter" \/ (pc[c] = "wait" /\ response = None) -> "calling"
    [] OTHER -> IF response = [status |-> "ok", from |-> calls]
                  THEN "answered" ELSE "failed"

Promise == INSTANCE RpcPromise WITH stage <- [c \in Callers |-> Stage(c)]

(***************************************************************************)
(* _call_rpc keeps the promise of RpcPromise for any number of threads at  *)
(* once, provided a woken caller runs before the service has reconnected.  *)
(***************************************************************************)
KeepsPromise == Promise!Spec
=============================================================================
