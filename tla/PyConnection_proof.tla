------------------------- MODULE PyConnection_proof -------------------------
(***************************************************************************)
(* Proofs about the Python interface, for any finite set of calling        *)
(* threads, any width of the call id, any descriptions and endpoints and   *)
(* any number of restarts and losses: its calls keep the promise of        *)
(* RpcPromise, and a loss that nobody overtook is noticed.  The history    *)
(* variable of MCPyRpc says when it was overtaken.                         *)
(***************************************************************************)
EXTENDS MCPyRpc, Lemmas_proof

----------------------------------------------------------------------------
(* The inductive invariant of PyRpc.                                       *)

\* _rpc_lock is held for a whole call.
OneWaits == \A c, d \in Callers : pc[c] = "wait" /\ pc[d] = "wait" => c = d

ActiveIsWaitedFor ==
  _rpc_call_active => response = None /\ \E c \in Callers : pc[c] = "wait"

\* The id that is pending is that of the last call.
Counted ==
  _rpc_call_counter = calls % IdSpan /\ _pending_call_id = _rpc_call_counter

\* A call that waits and is not active was ended by the loss of the service, or
\* by its own response, which is then what _rpc_response_* hold.
Ended ==
  (\E c \in Callers : pc[c] = "wait") /\ ~_rpc_call_active =>
    \/ response = Lost /\ (PromptWake => ~_connected)
    \/ response \in [status : Status, from : {calls}] /\ _rpc_response = response

Entering == {c \in Callers : pc[c] = "enter"}

\* The bound on the calls of a behaviour counts those that are about to begin.
CallsLeft == calls + Cardinality(Entering) <= MaxCalls

RpcInv ==
  /\ TypeOK
  /\ CallsLeft
  /\ OneWaits
  /\ ActiveIsWaitedFor
  /\ Counted
  /\ Ended

----------------------------------------------------------------------------
(* Type correctness.                                                       *)

LEMMA EnteringFinite ==
  IsFiniteSet(Entering) /\ Cardinality(Entering) \in Nat
<1>1. Entering \in SUBSET Callers
  BY DEF Entering
<1>2. IsFiniteSet(Entering)
  BY <1>1, PyRpcAssumption, FS_Subset
<1>3. QED
  BY <1>2, FS_CardinalityType

LEMMA CallIdInRange ==
  ASSUME NEW n \in Nat
  PROVE  n % IdSpan \in 0..(IdSpan - 1)
  BY PyRpcAssumption, DivMod

\* A thread that was counted as entering is one no longer.
LEMMA EnteringLeaves ==
  ASSUME TypeOK, NEW c \in Callers, pc[c] = "enter",
         NEW step \in {"idle", "wait"}, pc' = [pc EXCEPT ![c] = step]
  PROVE  /\ Entering' = Entering \ {c}
         /\ Cardinality(Entering') = Cardinality(Entering) - 1
         /\ Cardinality(Entering') \in Nat
<1>1. Entering' = Entering \ {c} /\ c \in Entering
  BY DEF Entering, TypeOK
<1>2. Cardinality(Entering \ {c}) = Cardinality(Entering) - 1
  BY <1>1, EnteringFinite, FS_RemoveElement
<1>3. IsFiniteSet(Entering \ {c}) /\ Cardinality(Entering \ {c}) \in Nat
  BY EnteringFinite, FS_RemoveElement, FS_CardinalityType
<1>4. QED
  BY <1>1, <1>2, <1>3

\* A waiting thread returns: nobody enters.
LEMMA WaiterReturns ==
  ASSUME TypeOK, NEW c \in Callers, pc[c] = "wait", pc' = [pc EXCEPT ![c] = "idle"]
  PROVE  Entering' = Entering
  BY DEF Entering, TypeOK

LEMMA CallKeepsType ==
  ASSUME TypeOK, CallsLeft, NEW c \in Callers, Call(c)
  PROVE  TypeOK' /\ CallsLeft'
<1>1. Entering' = Entering \cup {c} /\ c \notin Entering
  BY DEF Call, Entering, TypeOK
<1>2. Cardinality(Entering \cup {c}) = Cardinality(Entering) + 1
  BY <1>1, EnteringFinite, FS_AddElement
<1>3. Cardinality(Entering') = Cardinality(Entering) + 1
  BY <1>1, <1>2
<1>4. /\ calls \in Nat /\ MaxCalls \in Nat /\ calls' = calls
      /\ calls + Cardinality(Entering) < MaxCalls
  BY PyRpcAssumption DEF TypeOK, Call, Entering
<1>5. CallsLeft'
  BY <1>3, <1>4, EnteringFinite DEF CallsLeft
<1>6. TypeOK'
  BY DEF TypeOK, Call, slot
<1>7. QED
  BY <1>5, <1>6

LEMMA BeginKeepsType ==
  ASSUME TypeOK, CallsLeft, NEW c \in Callers, Begin(c)
  PROVE  TypeOK' /\ CallsLeft'
<1>1. PICK step \in {"idle", "wait"} : pc' = [pc EXCEPT ![c] = step]
  BY DEF Begin, Return
<1>2. calls \in Nat /\ MaxCalls \in Nat /\ calls' = calls + 1
  BY PyRpcAssumption DEF TypeOK, Begin
<1>3. /\ Cardinality(Entering') = Cardinality(Entering) - 1
      /\ Cardinality(Entering') \in Nat
  BY <1>1, EnteringLeaves DEF Begin
<1>4. CallsLeft'
  BY <1>2, <1>3, EnteringFinite DEF CallsLeft
<1>5. calls' \in 0..MaxCalls
  BY <1>2, <1>3, EnteringFinite DEF CallsLeft
<1>6. _rpc_call_counter' \in 0..(IdSpan - 1) /\ _pending_call_id' = _rpc_call_counter'
  <2>1. _rpc_call_counter + 1 \in Nat
    BY PyRpcAssumption DEF TypeOK
  <2>2. (_rpc_call_counter + 1) % IdSpan \in 0..(IdSpan - 1)
    BY <2>1, CallIdInRange
  <2>3. QED
    BY <2>2 DEF Begin, NextCallId
<1>7. sent' \subseteq 1..calls'
  <2>1. sent \subseteq 1..calls
    BY DEF TypeOK
  <2>2. sent' \subseteq sent \cup {calls'}
    BY DEF Begin
  <2>3. QED
    BY <1>2, <2>1, <2>2
<1>8. _rpc_response' \in [status : Status, from : 0..calls']
  <2>1. [status : Status, from : 0..calls] \subseteq [status : Status, from : 0..calls']
    BY <1>2
  <2>2. _rpc_response' = _rpc_response /\ _rpc_response \in [status : Status, from : 0..calls]
    BY DEF Begin, TypeOK
  <2>3. QED
    BY <2>1, <2>2
<1>9. /\ pc' \in [Callers -> {"idle", "enter", "wait"}]
      /\ _rpc_call_active' \in BOOLEAN
      /\ _connected' \in BOOLEAN
      /\ response' = None
      /\ result' \in [Callers -> {"none", "OK", "ERROR", "TIMEOUT"}]
  BY DEF TypeOK, Begin, Return
<1>10. QED
  BY <1>4, <1>5, <1>6, <1>7, <1>8, <1>9 DEF TypeOK

\* The sections that begin no call.
LEMMA OtherKeepsType ==
  ASSUME TypeOK, CallsLeft,
         \/ \E c \in Callers : Wake(c) \/ Timeout(c)
         \/ \E n \in sent, status \in Status : _on_rpc_response(n, status)
         \/ _on_disconnected \/ _on_claim_ack \/ UNCHANGED vars
  PROVE  TypeOK' /\ CallsLeft'
<1>1. ASSUME NEW c \in Callers, Wake(c) \/ Timeout(c) PROVE TypeOK' /\ CallsLeft'
  <2>1. Entering' = Entering
    BY <1>1, WaiterReturns DEF Wake, Timeout, Return
  <2>2. Outcome \in {"OK", "ERROR"}
    BY DEF Outcome
  <2>3. TypeOK'
    BY <1>1, <2>2 DEF TypeOK, Wake, Timeout, Return, slot
  <2>4. QED
    BY <1>1, <2>1, <2>3 DEF CallsLeft, Wake, Timeout
<1>2. ASSUME NEW n \in sent, NEW status \in Status, _on_rpc_response(n, status)
      PROVE  TypeOK' /\ CallsLeft'
  <2>1. n \in 1..calls /\ n \in 0..calls /\ calls' = calls
    BY <1>2 DEF TypeOK, _on_rpc_response
  <2>2. /\ [status |-> status, from |-> n] \in [status : Status, from : 0..calls']
        /\ [status |-> status, from |-> n] \in [status : Status, from : 1..calls']
    BY <2>1
  <2>3. TypeOK'
    BY <1>2, <2>2 DEF TypeOK, _on_rpc_response
  <2>4. QED
    BY <1>2, <2>3 DEF CallsLeft, Entering, _on_rpc_response
<1>3. CASE _on_disconnected \/ _on_claim_ack \/ UNCHANGED vars
  <2>1. TypeOK'
    BY <1>3 DEF TypeOK, _on_disconnected, _on_claim_ack, vars, slot
  <2>2. QED
    BY <1>3, <2>1 DEF CallsLeft, Entering, _on_disconnected, _on_claim_ack, vars
<1>4. QED
  BY <1>1, <1>2, <1>3

LEMMA NextKeepsType == TypeOK /\ CallsLeft /\ [Next]_vars => TypeOK' /\ CallsLeft'
  BY CallKeepsType, BeginKeepsType, OtherKeepsType DEF Next, Advance

LEMMA InitKeepsType == Init => TypeOK /\ CallsLeft
<1> SUFFICES ASSUME Init PROVE TypeOK /\ CallsLeft
  OBVIOUS
<1>1. Entering = {}
  BY DEF Init, Entering
<1>2. CallsLeft
  BY <1>1, FS_EmptySet, PyRpcAssumption DEF Init, CallsLeft
<1>3. /\ _rpc_call_counter \in 0..(IdSpan - 1) /\ _pending_call_id \in 0..(IdSpan - 1)
      /\ calls \in 0..MaxCalls /\ sent \subseteq 1..calls
  BY PyRpcAssumption DEF Init
<1>4. _rpc_response \in [status : Status, from : 0..calls]
  BY DEF Init, Good, Status
<1>5. /\ pc \in [Callers -> {"idle", "enter", "wait"}]
      /\ _rpc_call_active \in BOOLEAN /\ _connected \in BOOLEAN
      /\ response = None
      /\ result \in [Callers -> {"none", "OK", "ERROR", "TIMEOUT"}]
  BY DEF Init
<1>6. QED
  BY <1>2, <1>3, <1>4, <1>5 DEF TypeOK

----------------------------------------------------------------------------
(* The rest of the invariant.                                              *)

\* The only response the call in flight accepts is its own: later than MaxAge
\* calls nothing arrives, and within them no id comes twice.
LEMMA ExpectedIsOwn ==
  ASSUME TypeOK, Counted, NEW n \in sent, NEW status \in Status,
         _on_rpc_response(n, status)
  PROVE  n = calls
<1>1. n \in Nat /\ calls \in Nat /\ n <= calls /\ calls - n < IdSpan /\ IdSpan \in Nat \ {0}
  BY PyRpcAssumption DEF TypeOK, _on_rpc_response
<1>2. n % IdSpan = calls % IdSpan
  BY DEF _on_rpc_response, IsExpected, Counted
<1>3. QED
  BY <1>1, <1>2, RemainderUnique

LEMMA BeginKeeps ==
  ASSUME RpcInv, NEW c \in Callers, Begin(c)
  PROVE  OneWaits' /\ ActiveIsWaitedFor' /\ Counted' /\ Ended'
<1>1. PICK step \in {"idle", "wait"} :
        pc' = [pc EXCEPT ![c] = step] /\ _rpc_call_active' = (step = "wait")
  BY DEF Begin, Return
<1>2. response' = None /\ \A d \in Callers : pc[d] # "wait"
  BY DEF Begin
<1>3. \A d \in Callers : pc'[d] = "wait" => d = c /\ step = "wait"
  BY <1>1, <1>2 DEF RpcInv, TypeOK
<1>4. OneWaits'
  BY <1>3 DEF OneWaits
<1>5. ActiveIsWaitedFor'
  BY <1>1, <1>2 DEF ActiveIsWaitedFor, RpcInv, TypeOK
<1>6. Counted'
  <2>1. calls \in Nat /\ _rpc_call_counter = calls % IdSpan
    BY DEF RpcInv, TypeOK, Counted
  <2>2. (calls + 1) % IdSpan = ((calls % IdSpan) + 1) % IdSpan
    BY <2>1, PyRpcAssumption, WrappedIncrement
  <2>3. QED
    BY <2>1, <2>2 DEF Counted, Begin, NextCallId
<1>7. Ended'
  BY <1>1, <1>3 DEF Ended
<1>8. QED
  BY <1>4, <1>5, <1>6, <1>7

\* With the call of the only waiter, nobody waits any longer.
LEMMA ReturnKeeps ==
  ASSUME RpcInv, NEW c \in Callers, Wake(c) \/ Timeout(c)
  PROVE  OneWaits' /\ ActiveIsWaitedFor' /\ Counted' /\ Ended'
<1>1. /\ pc[c] = "wait" /\ pc' = [pc EXCEPT ![c] = "idle"] /\ ~_rpc_call_active'
      /\ UNCHANGED <<_rpc_call_counter, _pending_call_id, calls>>
  BY DEF Wake, Timeout, Return, slot
<1>2. \A d \in Callers : pc'[d] # "wait"
  BY <1>1 DEF RpcInv, OneWaits, TypeOK
<1>3. QED
  BY <1>1, <1>2 DEF OneWaits, ActiveIsWaitedFor, Counted, Ended, RpcInv

LEMMA NextRpcInv == RpcInv /\ [Next]_vars => RpcInv'
<1> SUFFICES ASSUME RpcInv, [Next]_vars PROVE RpcInv'
  OBVIOUS
<1>1. TypeOK' /\ CallsLeft'
  BY NextKeepsType DEF RpcInv
<1>2. SUFFICES OneWaits' /\ ActiveIsWaitedFor' /\ Counted' /\ Ended'
  BY <1>1 DEF RpcInv
<1>3. ASSUME NEW c \in Callers, Call(c)
      PROVE  OneWaits' /\ ActiveIsWaitedFor' /\ Counted' /\ Ended'
  <2>1. \A d \in Callers : pc'[d] = "wait" <=> pc[d] = "wait"
    BY <1>3 DEF Call, RpcInv, TypeOK
  <2>2. UNCHANGED <<slot, _connected, calls, response>>
    BY <1>3 DEF Call
  <2>3. QED
    BY <2>1, <2>2 DEF RpcInv, OneWaits, ActiveIsWaitedFor, Counted, Ended, slot
<1>4. ASSUME NEW n \in sent, NEW status \in Status, _on_rpc_response(n, status)
      PROVE  OneWaits' /\ ActiveIsWaitedFor' /\ Counted' /\ Ended'
  <2>1. n = calls /\ calls' = calls
    BY <1>4, ExpectedIsOwn DEF RpcInv, _on_rpc_response
  <2>2. /\ response' = [status |-> status, from |-> calls'] /\ _rpc_response' = response'
        /\ ~_rpc_call_active'
    BY <1>4, <2>1 DEF _on_rpc_response
  <2>3. Ended'
    BY <2>2 DEF Ended
  <2>4. QED
    BY <1>4, <2>2, <2>3
    DEF RpcInv, OneWaits, ActiveIsWaitedFor, Counted, _on_rpc_response
<1>5. CASE _on_disconnected
  <2>1. Ended'
    BY <1>5 DEF RpcInv, Ended, _on_disconnected
  <2>2. QED
    BY <1>5, <2>1 DEF RpcInv, OneWaits, ActiveIsWaitedFor, Counted, _on_disconnected
<1>6. CASE _on_claim_ack
  <2>1. Ended'
    BY <1>6 DEF RpcInv, Ended, _on_claim_ack, slot
  <2>2. QED
    BY <1>6, <2>1 DEF RpcInv, OneWaits, ActiveIsWaitedFor, Counted, _on_claim_ack, slot
<1>7. CASE UNCHANGED vars
  BY <1>7 DEF RpcInv, OneWaits, ActiveIsWaitedFor, Counted, Ended, vars, slot
<1>8. QED
  BY <1>3, <1>4, <1>5, <1>6, <1>7, BeginKeeps, ReturnKeeps DEF Next, Advance

LEMMA InitRpcInv == Init => RpcInv
<1> SUFFICES ASSUME Init PROVE RpcInv
  OBVIOUS
<1>1. 0 % IdSpan = 0
  <2>1. 0 = IdSpan * 0 + 0 /\ 0 \in 0..(IdSpan - 1)
    BY PyRpcAssumption
  <2>2. QED
    BY <2>1, PyRpcAssumption, Remainder
<1>2. QED
  BY <1>1, InitKeepsType
  DEF Init, RpcInv, OneWaits, ActiveIsWaitedFor, Counted, Ended

LEMMA RpcInvariance == Init /\ [][Next]_vars => []RpcInv
BY InitRpcInv, NextRpcInv, PTL

----------------------------------------------------------------------------
(* What a caller is told.                                                  *)

\* A caller that was woken finds the outcome of its own call.
LEMMA WokenIsTold ==
  ASSUME PromptWake, RpcInv, NEW c \in Callers, pc[c] = "wait", ~_rpc_call_active,
         Outcome = "OK"
  PROVE  response = [status |-> "ok", from |-> calls]
<1>1. _connected /\ _rpc_response.status = "ok"
  BY DEF Outcome
<1>2. response \in [status : Status, from : {calls}] /\ _rpc_response = response
  BY <1>1 DEF RpcInv, Ended
<1>3. QED
  BY <1>1, <1>2

(***************************************************************************)
(* _call_rpc returns a value only with its own response, one that reports  *)
(* success (manager.py:67), if a woken caller runs before its service has  *)
(* reconnected.  The run py_rpc_reconnect shows that this is needed.       *)
(***************************************************************************)
THEOREM ReturnsItsResponseHolds == ASSUME PromptWake PROVE Spec => []ReturnsItsResponse
<1>1. RpcInv => ReturnsItsResponse
  <2> SUFFICES ASSUME RpcInv, NEW c \in Callers, pc[c] = "wait", ~_rpc_call_active,
                      Outcome = "OK"
               PROVE  response = [status |-> "ok", from |-> calls]
    BY DEF ReturnsItsResponse
  <2>1. QED
    BY WokenIsTold
<1>2. QED
  BY <1>1, RpcInvariance, PTL DEF Spec

----------------------------------------------------------------------------
(* Every step of PyRpc is one of RpcPromise, or none.                      *)

\* Only a caller that waits is concerned by what becomes of the call in flight.
LEMMA StageStays ==
  ASSUME TypeOK, NEW c \in Callers,
         pc'[c] = pc[c], UNCHANGED <<response, calls>> \/ pc[c] # "wait"
  PROVE  Stage(c)' = Stage(c)
<1>1. pc[c] \in {"idle", "enter", "wait"}
  BY DEF TypeOK
<1>2. QED
  BY <1>1 DEF Stage

LEMMA CallPromised ==
  ASSUME TypeOK, NEW c \in Callers, Call(c)
  PROVE  Promise!Call(c)
<1>1. pc[c] = "idle" /\ pc'[c] = "enter"
  BY DEF Call, TypeOK
<1>2. Stage(c) = "idle" /\ Stage(c)' = "calling"
  BY <1>1 DEF Stage
<1>3. \A d \in Callers \ {c} : Stage(d)' = Stage(d)
  <2> SUFFICES ASSUME NEW d \in Callers \ {c} PROVE Stage(d)' = Stage(d)
    OBVIOUS
  <2>1. pc'[d] = pc[d] /\ UNCHANGED <<response, calls>>
    BY DEF Call, TypeOK
  <2>2. QED
    BY <2>1, StageStays
<1>4. [d \in Callers |-> Stage(d)'] = [[d \in Callers |-> Stage(d)] EXCEPT ![c] = "calling"]
  BY <1>2, <1>3
<1>5. result' = [result EXCEPT ![c] = "none"]
  BY DEF Call
<1>6. QED
  BY <1>2, <1>4, <1>5 DEF Promise!Call

\* A call that could not be sent returns, and one that was sent goes on.
LEMMA BeginPromised ==
  ASSUME TypeOK, NEW c \in Callers, Begin(c)
  PROVE  Promise!Return(c) \/ UNCHANGED Promise!vars
<1>1. pc[c] = "enter" /\ \A d \in Callers : pc[d] # "wait"
  BY DEF Begin
<1>2. Stage(c) = "calling"
  BY <1>1 DEF Stage
<1>3. PICK step \in {"idle", "wait"} :
        /\ pc' = [pc EXCEPT ![c] = step]
        /\ step = "wait" => result' = result
        /\ step = "idle" => result' = [result EXCEPT ![c] = "ERROR"]
  BY DEF Begin, Return
<1>4. Stage(c)' = IF step = "wait" THEN "calling" ELSE "idle"
  <2>1. pc'[c] = step
    BY <1>3 DEF TypeOK
  <2>2. response' = None
    BY DEF Begin
  <2>3. QED
    BY <2>1, <2>2 DEF Stage
<1>5. \A d \in Callers \ {c} : Stage(d)' = Stage(d)
  <2> SUFFICES ASSUME NEW d \in Callers \ {c} PROVE Stage(d)' = Stage(d)
    OBVIOUS
  <2>1. pc'[d] = pc[d] /\ pc[d] # "wait"
    BY <1>1, <1>3 DEF TypeOK
  <2>2. QED
    BY <2>1, StageStays
<1>6. CASE step = "wait"
  <2>1. \A d \in Callers : Stage(d)' = Stage(d)
    BY <1>2, <1>4, <1>5, <1>6
  <2>2. [d \in Callers |-> Stage(d)'] = [d \in Callers |-> Stage(d)]
    BY <2>1
  <2>3. QED
    BY <1>3, <1>6, <2>2 DEF Promise!vars
<1>7. CASE step = "idle"
  <2>1. [d \in Callers |-> Stage(d)'] = [[d \in Callers |-> Stage(d)] EXCEPT ![c] = "idle"]
    BY <1>4, <1>5, <1>7
  <2>2. QED
    BY <1>2, <1>3, <1>7, <2>1 DEF Promise!Return
<1>8. QED
  BY <1>6, <1>7

LEMMA ReturnPromised ==
  ASSUME PromptWake, RpcInv, NEW c \in Callers, Wake(c) \/ Timeout(c)
  PROVE  Promise!Return(c)
<1>1. /\ pc[c] = "wait" /\ pc' = [pc EXCEPT ![c] = "idle"]
      /\ UNCHANGED <<response, calls>> /\ TypeOK
  BY DEF Wake, Timeout, Return, RpcInv
<1>2. Stage(c) # "idle" /\ Stage(c)' = "idle"
  <2>1. pc'[c] = "idle"
    BY <1>1 DEF TypeOK
  <2>2. QED
    BY <1>1, <2>1 DEF Stage
<1>3. \A d \in Callers \ {c} : Stage(d)' = Stage(d)
  <2> SUFFICES ASSUME NEW d \in Callers \ {c} PROVE Stage(d)' = Stage(d)
    OBVIOUS
  <2>1. pc'[d] = pc[d]
    BY <1>1 DEF TypeOK
  <2>2. QED
    BY <1>1, <2>1, StageStays
<1>4. [d \in Callers |-> Stage(d)'] = [[d \in Callers |-> Stage(d)] EXCEPT ![c] = "idle"]
  BY <1>2, <1>3
<1>5. \/ Stage(c) = "answered" /\ result' = [result EXCEPT ![c] = "OK"]
      \/ Stage(c) = "calling" /\ result' = [result EXCEPT ![c] = "TIMEOUT"]
      \/ result' = [result EXCEPT ![c] = "ERROR"]
  <2>1. CASE Timeout(c)
    <3>1. response = None /\ result' = [result EXCEPT ![c] = "TIMEOUT"]
      BY <2>1 DEF RpcInv, ActiveIsWaitedFor, Timeout, Return
    <3>2. Stage(c) = "calling"
      BY <1>1, <3>1 DEF Stage
    <3>3. QED
      BY <3>1, <3>2
  <2>2. CASE Wake(c) /\ Outcome = "OK"
    <3>1. response = [status |-> "ok", from |-> calls]
      BY <2>2, WokenIsTold DEF Wake
    <3>2. response # None
      BY <3>1 DEF None
    <3>3. Stage(c) = "answered"
      BY <1>1, <3>1, <3>2 DEF Stage
    <3>4. QED
      BY <2>2, <3>3 DEF Wake, Return
  <2>3. CASE Wake(c) /\ Outcome # "OK"
    <3>1. Outcome = "ERROR"
      BY <2>3 DEF Outcome
    <3>2. QED
      BY <2>3, <3>1 DEF Wake, Return
  <2>4. QED
    BY <2>1, <2>2, <2>3
<1>6. QED
  BY <1>2, <1>4, <1>5 DEF Promise!Return

\* The call in flight is ended: by its response or by the loss of the service.
LEMMA EndPromised ==
  ASSUME RpcInv, _rpc_call_active, response' # None, UNCHANGED <<pc, calls, result>>
  PROVE  \E c \in Callers : Promise!Answer(c)
<1>1. PICK c \in Callers : pc[c] = "wait"
  BY DEF RpcInv, ActiveIsWaitedFor
<1>2. Stage(c) = "calling"
  BY <1>1 DEF Stage, RpcInv, ActiveIsWaitedFor
<1>3. PICK s \in {"answered", "failed"} : Stage(c)' = s
  <2>1. Stage(c)' = IF response' = [status |-> "ok", from |-> calls'] THEN "answered"
                    ELSE "failed"
    BY <1>1 DEF Stage
  <2>2. QED
    BY <2>1
<1>4. \A d \in Callers \ {c} : Stage(d)' = Stage(d)
  <2> SUFFICES ASSUME NEW d \in Callers \ {c} PROVE Stage(d)' = Stage(d)
    OBVIOUS
  <2>1. pc[d] # "wait" /\ pc'[d] = pc[d] /\ TypeOK
    BY <1>1 DEF RpcInv, OneWaits
  <2>2. QED
    BY <2>1, StageStays
<1>5. [d \in Callers |-> Stage(d)'] = [[d \in Callers |-> Stage(d)] EXCEPT ![c] = s]
  BY <1>3, <1>4
<1>6. QED
  BY <1>2, <1>5 DEF Promise!Answer

LEMMA NothingPromised ==
  ASSUME UNCHANGED <<pc, calls, response, result>>
  PROVE  UNCHANGED Promise!vars
<1>1. \A c \in Callers : Stage(c)' = Stage(c)
  BY DEF Stage
<1>2. [c \in Callers |-> Stage(c)'] = [c \in Callers |-> Stage(c)]
  BY <1>1
<1>3. QED
  BY <1>2 DEF Promise!vars

LEMMA StepPromised ==
  ASSUME PromptWake
  PROVE  RpcInv /\ [Next]_vars => [Promise!Next]_(Promise!vars)
<1> SUFFICES ASSUME RpcInv, [Next]_vars PROVE [Promise!Next]_(Promise!vars)
  OBVIOUS
<1>1. TypeOK
  BY DEF RpcInv
<1>2. ASSUME NEW c \in Callers, Call(c) \/ Advance(c) PROVE [Promise!Next]_(Promise!vars)
  BY <1>1, <1>2, CallPromised, BeginPromised, ReturnPromised DEF Advance, Promise!Next
<1>3. ASSUME NEW n \in sent, NEW status \in Status, _on_rpc_response(n, status)
      PROVE  [Promise!Next]_(Promise!vars)
  <2>1. _rpc_call_active /\ UNCHANGED <<pc, calls, result>>
    BY <1>3 DEF _on_rpc_response, IsExpected
  <2>2. response' # None
    BY <1>3 DEF _on_rpc_response, None, Status
  <2>3. QED
    BY <2>1, <2>2, EndPromised DEF Promise!Next
<1>4. CASE _on_disconnected /\ _rpc_call_active
  <2>1. response' # None /\ UNCHANGED <<pc, calls, result>>
    BY <1>4 DEF _on_disconnected, None, Lost
  <2>2. QED
    BY <1>4, <2>1, EndPromised DEF Promise!Next
<1>5. CASE (_on_disconnected /\ ~_rpc_call_active) \/ _on_claim_ack \/ UNCHANGED vars
  <2>1. UNCHANGED <<pc, calls, response, result>>
    BY <1>5 DEF _on_disconnected, _on_claim_ack, vars
  <2>2. QED
    BY <2>1, NothingPromised
<1>6. QED
  BY <1>2, <1>3, <1>4, <1>5 DEF Next

LEMMA InitPromised == Init => Promise!Init
<1> SUFFICES ASSUME Init PROVE Promise!Init
  OBVIOUS
<1>1. \A c \in Callers : Stage(c) = "idle"
  BY DEF Init, Stage
<1>2. QED
  BY <1>1 DEF Init, Promise!Init

----------------------------------------------------------------------------
(* The host: its calls are those of PyRpc.                                 *)

LEMMA HostStep == [HostNext]_host_vars => [Next]_vars
<1> SUFFICES ASSUME [HostNext]_host_vars PROVE [Next]_vars
  OBVIOUS
<1>1. CASE UNCHANGED host_vars \/ (ConnectionStep /\ UNCHANGED vars)
  BY <1>1 DEF host_vars
<1>2. CASE (Disconnect /\ _on_disconnected) \/ (Connect /\ _on_claim_ack)
  BY <1>2 DEF Next
<1>3. CASE Response
  BY <1>3 DEF Response, Next
<1>4. ASSUME NEW c \in Callers, Call(c) \/ AdvanceCall(c) PROVE [Next]_vars
  BY <1>4 DEF AdvanceCall, BeginCall, Advance, Next
<1>5. QED
  BY <1>1, <1>2, <1>3, <1>4 DEF HostNext

LEMMA HostCalls == HostSpec => Init /\ [][Next]_vars
<1>1. HostInit => Init
  BY DEF HostInit
<1>2. QED
  BY <1>1, HostStep, PTL DEF HostSpec

(***************************************************************************)
(* The Python host implements RpcPromise, but for its fairness: whatever   *)
(* the watchdog, the receiver and the other callers do between two         *)
(* sections of _call_rpc, a call that returns a value was answered, one    *)
(* that times out was neither answered nor ended before, and no call is    *)
(* answered that is not under way - if a woken caller runs before its      *)
(* service has reconnected.                                                *)
(***************************************************************************)
THEOREM PromiseKept ==
  ASSUME PromptWake
  PROVE  HostSpec => Promise!Init /\ [][Promise!Next]_(Promise!vars)
<1>1. RpcInv /\ [Next]_vars => [Promise!Next]_(Promise!vars)
  BY StepPromised
<1>2. QED
  BY <1>1, InitPromised, HostCalls, RpcInvariance, PTL

----------------------------------------------------------------------------
(* Type correctness of the host.                                           *)

EnvironmentType ==
  /\ service \in Service /\ has_target \in BOOLEAN
  /\ claim \in BOOLEAN /\ ack \in BOOLEAN
  /\ restarts \in 0..MaxRestarts /\ losses \in 0..MaxLosses

FindersType ==
  /\ fetched \in BOOLEAN
  /\ discovered \in Info \cup {Nothing}
  /\ at \in [Finders -> {"new", "lookup", "found", "idle"}]
  /\ found \in [Finders -> Info \cup {Nothing}]
  /\ \A t \in Finders : at[t] = "found" => found[t] # Nothing

StateType ==
  /\ registered \in Registration \cup {Nothing}
  /\ recv \in {"idle", "acked"}
  /\ watchdog \in {"idle", "claim", "timeout", "disconnect", "drop", "unregister"}

HostType == EnvironmentType /\ FindersType /\ StateType

LEMMA Bounds == MaxRestarts \in Nat /\ MaxLosses \in Nat
  BY PyConnectionAssumption

LEMMA EnvironmentTypeStep == HostType /\ [HostNext]_host_vars => EnvironmentType'
<1> SUFFICES ASSUME HostType, [HostNext]_host_vars PROVE EnvironmentType'
  OBVIOUS
<1> USE DEF HostType, EnvironmentType
<1>1. ASSUME UNCHANGED environment PROVE EnvironmentType'
  BY <1>1 DEF environment
<1>2. ASSUME NEW new \in Service, Restart(new) PROVE EnvironmentType'
  <2>1. restarts' \in 0..MaxRestarts
    BY <1>2, Bounds DEF Restart
  <2>2. claim' \in BOOLEAN
    BY <1>2, Zenon DEF Restart
  <2>3. QED
    BY <1>2, <2>1, <2>2 DEF Restart
<1>3. CASE ReceiveClaim \/ _handle_claim_ack
  BY <1>3 DEF ReceiveClaim, _handle_claim_ack
<1>4. CASE LosePacket \/ CheckHeartbeat
  <2>1. losses' \in 0..MaxLosses
    BY <1>4, Bounds DEF LosePacket, CheckHeartbeat
  <2>2. claim' \in BOOLEAN /\ ack' \in BOOLEAN
    BY <1>4 DEF LosePacket, CheckHeartbeat
  <2>3. UNCHANGED <<service, has_target, restarts>>
    BY <1>4 DEF LosePacket, CheckHeartbeat
  <2>4. QED
    BY <2>1, <2>2, <2>3
<1>5. CASE _send_claim
  <2>1. claim' \in BOOLEAN
    BY <1>5, Zenon DEF _send_claim
  <2>2. QED
    BY <1>5, <2>1 DEF _send_claim
<1>6. CASE ReceiveAdvertisement \/ Register \/ GetServiceInfo
           \/ CheckUnclaimed \/ ClearClaimed \/ drop_service \/ unregister_service
           \/ Disconnect \/ Connect \/ UNCHANGED connection_vars
  BY <1>1, <1>6
  DEF ReceiveAdvertisement, Register, GetServiceInfo, CheckUnclaimed, ClearClaimed,
      drop_service, unregister_service, Disconnect, Connect, connection_vars
<1>7. ASSUME NEW t \in Finders, _on_service_found(t) PROVE EnvironmentType'
  BY <1>1, <1>7 DEF _on_service_found
<1>8. QED
  BY <1>2, <1>3, <1>4, <1>5, <1>6, <1>7 DEF HostNext, ConnectionStep, WatchdogStep, host_vars

LEMMA FindersTypeStep == HostType /\ [HostNext]_host_vars => FindersType'
<1> SUFFICES ASSUME HostType, [HostNext]_host_vars PROVE FindersType'
  OBVIOUS
<1> USE DEF HostType, FindersType
<1>1. ASSUME UNCHANGED finders PROVE FindersType'
  BY <1>1 DEF finders
<1>2. CASE ReceiveAdvertisement
  <2>1. PICK full \in {fetched, TRUE} :
          /\ fetched' = full
          /\ LET info == [desc |-> service.desc, ep |-> service.ep, full |-> full] IN
             \/ /\ discovered' = info
                /\ found' = [found EXCEPT !["discovery"] = info]
                /\ at' = [at EXCEPT !["discovery"] = "found"]
             \/ UNCHANGED <<discovered, found, at>>
    BY <1>2, Zenon DEF ReceiveAdvertisement
  <2> DEFINE news == [desc |-> service.desc, ep |-> service.ep, full |-> full]
  <2>2. news \in Info /\ full \in BOOLEAN
    BY DEF EnvironmentType, Service, Info
  <2>3. news # Nothing
    BY <2>2, PyConnectionAssumption
  <2>4. \/ discovered' = news /\ found' = [found EXCEPT !["discovery"] = news]
           /\ at' = [at EXCEPT !["discovery"] = "found"]
        \/ UNCHANGED <<discovered, found, at>>
    BY <2>1
  <2> HIDE DEF news
  <2>5. discovered' \in Info \cup {Nothing} /\ found' \in [Finders -> Info \cup {Nothing}]
    BY <2>2, <2>4
  <2>6. at' \in [Finders -> {"new", "lookup", "found", "idle"}]
    BY <2>4
  <2>7. \A t \in Finders : at'[t] = "found" => found'[t] # Nothing
    BY <2>3, <2>4
  <2>8. QED
    BY <2>1, <2>2, <2>5, <2>6, <2>7
<1>3. CASE Register \/ GetServiceInfo
  BY <1>3 DEF Register, GetServiceInfo
<1>4. ASSUME NEW t \in Finders, _on_service_found(t) PROVE FindersType'
  BY <1>4 DEF _on_service_found
<1>5. CASE drop_service
  BY <1>5 DEF drop_service
<1>6. ASSUME NEW new \in Service, Restart(new) PROVE FindersType'
  BY <1>1, <1>6 DEF Restart
<1>7. CASE ReceiveClaim \/ LosePacket \/ CheckUnclaimed \/ _send_claim \/ CheckHeartbeat
           \/ ClearClaimed \/ unregister_service \/ Disconnect \/ Connect
           \/ _handle_claim_ack \/ UNCHANGED connection_vars
  BY <1>1, <1>7
  DEF ReceiveClaim, LosePacket, CheckUnclaimed, _send_claim, CheckHeartbeat, ClearClaimed,
      unregister_service, Disconnect, Connect, _handle_claim_ack, connection_vars
<1>8. QED
  BY <1>2, <1>3, <1>4, <1>5, <1>6, <1>7 DEF HostNext, ConnectionStep, WatchdogStep, host_vars

LEMMA StateTypeStep == HostType /\ [HostNext]_host_vars => StateType'
<1> SUFFICES ASSUME HostType, [HostNext]_host_vars PROVE StateType'
  OBVIOUS
<1> USE DEF HostType, StateType
<1>1. ASSUME UNCHANGED <<registered, recv, watchdog>> PROVE StateType'
  BY <1>1
<1>2. ASSUME NEW t \in Finders, _on_service_found(t) PROVE StateType'
  <2>1. Accepts(found[t]) => NewState(found[t]) \in Registration
    BY <1>2, PyConnectionAssumption DEF _on_service_found, FindersType, NewState, Info, Registration
  <2>2. QED
    BY <1>2, <2>1 DEF _on_service_found
<1>3. CASE CheckUnclaimed \/ _send_claim \/ CheckHeartbeat \/ Disconnect \/ Connect
           \/ drop_service \/ unregister_service
  BY <1>3 DEF CheckUnclaimed, _send_claim, CheckHeartbeat, Disconnect, Connect, drop_service,
     unregister_service
<1>4. CASE ClearClaimed \/ _handle_claim_ack
  BY <1>4 DEF ClearClaimed, Unclaimed, _handle_claim_ack, Registration
<1>5. ASSUME NEW new \in Service, Restart(new) PROVE StateType'
  BY <1>1, <1>5 DEF Restart
<1>6. CASE ReceiveClaim \/ LosePacket \/ ReceiveAdvertisement \/ Register \/ GetServiceInfo
           \/ UNCHANGED connection_vars
  BY <1>1, <1>6 DEF ReceiveClaim, LosePacket, ReceiveAdvertisement, Register, GetServiceInfo,
     connection_vars
<1>7. QED
  BY <1>2, <1>3, <1>4, <1>5, <1>6 DEF HostNext, ConnectionStep, WatchdogStep, host_vars

LEMMA HostTypeInit == HostInit => HostType
<1> SUFFICES ASSUME HostInit PROVE HostType
  OBVIOUS
<1>1. EnvironmentType
  <2>1. restarts \in 0..MaxRestarts /\ losses \in 0..MaxLosses
    BY Bounds DEF HostInit
  <2>2. QED
    BY <2>1 DEF HostInit, EnvironmentType
<1>2. FindersType
  BY DEF HostInit, FindersType, Finders
<1>3. QED
  BY <1>1, <1>2 DEF HostInit, HostType, StateType

(***************************************************************************)
(* The dictionaries of ServiceDiscovery and ServiceIO and the fields of    *)
(* the call slot keep their types, with any number of calling threads; a   *)
(* thread in _on_service_found holds a description (the null check of      *)
(* register()).                                                            *)
(***************************************************************************)
THEOREM HostTypeCorrect == HostSpec => []ConnectionTypeOK
<1>1. HostType /\ [HostNext]_host_vars => HostType'
  BY EnvironmentTypeStep, FindersTypeStep, StateTypeStep DEF HostType
<1>2. RpcInv /\ HostType => ConnectionTypeOK
  BY DEF RpcInv, HostType, EnvironmentType, FindersType, StateType, ConnectionTypeOK
<1>3. QED
  BY <1>1, <1>2, HostTypeInit, HostCalls, RpcInvariance, PTL DEF HostSpec

----------------------------------------------------------------------------
(* A loss is noticed.                                                      *)

\* While the watchdog reports a loss the receiver holds no acknowledgement; once
\* it has cleared the claim no call can begin, and from _on_disconnected on the
\* interface is not connected and no call is in flight - until it is served anew.
QuietWhileReported ==
  /\ Reporting => recv = "idle"
  /\ watchdog \in {"disconnect", "drop", "unregister"} => ~Claimed
  /\ watchdog \in {"drop", "unregister"} \/ registered = Nothing =>
       recv = "idle" /\ ~_connected /\ ~_rpc_call_active

NoticedInv == HostType /\ (~overtaken => QuietWhileReported)

LEMMA NoticedNext ==
  TypeOK /\ NoticedInv /\ HostType' /\ [TracedNext]_<<host_vars, overtaken>> => NoticedInv'
<1> SUFFICES ASSUME TypeOK, NoticedInv, HostType', [TracedNext]_<<host_vars, overtaken>>,
                    ~overtaken'
             PROVE  QuietWhileReported'
  BY DEF NoticedInv
<1>1. ~overtaken /\ QuietWhileReported
  <2>1. overtaken => overtaken'
    BY DEF TracedNext
  <2>2. QED
    BY <2>1 DEF NoticedInv
<1> USE DEF QuietWhileReported, Reporting, Claimed
<1>2. ASSUME UNCHANGED <<registered, recv, watchdog>>,
             _connected' => _connected, _rpc_call_active' => _rpc_call_active
      PROVE  QuietWhileReported'
  BY <1>1, <1>2
<1>3. CASE UNCHANGED <<host_vars, overtaken>>
  BY <1>2, <1>3 DEF host_vars, connection_vars, vars, slot
<1>4. CASE TracedNext
  <2>1. HostNext /\ ~(Reporting' /\ recv' = "acked")
    BY <1>4 DEF TracedNext
  <2>2. registered \in Registration \cup {Nothing} /\ Nothing \notin Registration
    BY PyConnectionAssumption DEF NoticedInv, HostType, StateType
  <2>3. CASE ConnectionStep /\ UNCHANGED vars
    <3>1. UNCHANGED <<_connected, _rpc_call_active>>
      BY <2>3 DEF vars, slot
    <3>2. ASSUME NEW new \in Service, Restart(new) PROVE QuietWhileReported'
      BY <1>2, <3>1, <3>2 DEF Restart
    <3>3. CASE ReceiveClaim \/ LosePacket \/ ReceiveAdvertisement \/ Register \/ GetServiceInfo
      BY <1>2, <3>1, <3>3
      DEF ReceiveClaim, LosePacket, ReceiveAdvertisement, Register, GetServiceInfo
    <3>4. ASSUME NEW t \in Finders, _on_service_found(t) PROVE QuietWhileReported'
      <4>1. CASE registered' = registered
        BY <1>2, <3>1, <3>4, <4>1 DEF _on_service_found
      <4>2. CASE registered' = NewState(found[t])
        <5>1. registered' \in Registration \cup {Nothing}
          BY DEF HostType, StateType
        <5>2. registered' # Nothing => ~registered'.claimed
          BY <4>2 DEF NewState
        <5>3. registered' # Nothing
          <6>1. found[t] \in Info
            BY <3>4 DEF _on_service_found, NoticedInv, HostType, FindersType
          <6>2. NewState(found[t]) \in Registration
            BY <6>1 DEF NewState, Info, Registration
          <6>3. QED
            BY <2>2, <4>2, <6>2
        <5>4. UNCHANGED <<recv, watchdog>>
          BY <3>4 DEF _on_service_found
        <5>5. QED
          BY <1>1, <3>1, <5>2, <5>3, <5>4
      <4>3. QED
        BY <3>4, <4>1, <4>2 DEF _on_service_found
    <3>5. CASE CheckUnclaimed \/ _send_claim \/ CheckHeartbeat
      BY <1>1, <3>1, <3>5 DEF CheckUnclaimed, _send_claim, CheckHeartbeat
    <3>6. CASE ClearClaimed
      <4>1. Unclaimed = Nothing <=> registered = Nothing
        BY <2>2 DEF Unclaimed, Registration
      <4>2. Unclaimed # Nothing => ~Unclaimed.claimed
        BY <2>2 DEF Unclaimed, Registration
      <4>3. QED
        BY <1>1, <3>1, <3>6, <4>1, <4>2 DEF ClearClaimed
    <3>7. CASE drop_service \/ unregister_service
      BY <1>1, <3>1, <3>7 DEF drop_service, unregister_service
    <3>8. CASE _handle_claim_ack
      <4>1. CASE registered # Nothing /\ ~registered.claimed
        <5>1. recv' = "acked" /\ watchdog' = watchdog
          BY <3>8, <4>1 DEF _handle_claim_ack
        <5>2. registered' # Nothing
          BY <2>2, <3>8, <4>1 DEF _handle_claim_ack, Registration
        <5>3. QED
          BY <1>1, <2>1, <5>1, <5>2
      <4>2. CASE ~(registered # Nothing /\ ~registered.claimed)
        BY <1>2, <3>1, <3>8, <4>2 DEF _handle_claim_ack
      <4>3. QED
        BY <4>1, <4>2
    <3>9. QED
      BY <2>3, <3>2, <3>3, <3>4, <3>5, <3>6, <3>7, <3>8 DEF ConnectionStep, WatchdogStep
  <2>4. CASE Disconnect /\ _on_disconnected
    BY <1>1, <2>4 DEF Disconnect, _on_disconnected
  <2>5. CASE Connect /\ _on_claim_ack
    BY <1>1, <2>5 DEF Connect, _on_claim_ack
  <2>6. CASE (Response \/ \E c \in Callers : Call(c) \/ AdvanceCall(c)) /\ UNCHANGED connection_vars
    <3>1. UNCHANGED <<registered, recv, watchdog>>
      BY <2>6 DEF connection_vars
    <3>2. CASE Response
      BY <1>2, <3>1, <3>2 DEF Response, _on_rpc_response
    <3>3. ASSUME NEW c \in Callers, Call(c) \/ Wake(c) \/ Timeout(c)
          PROVE  QuietWhileReported'
      BY <1>2, <3>1, <3>3 DEF Call, Wake, Timeout, slot
    <3>4. ASSUME NEW c \in Callers, BeginCall(c) PROVE QuietWhileReported'
      <4>1. _connected' = _connected
        BY <3>4 DEF BeginCall, Begin
      <4>2. _rpc_call_active' => pc'[c] = "wait"
        BY <3>4 DEF BeginCall, Begin, TypeOK
      <4>3. _rpc_call_active' => Claimed
        BY <3>4, <4>2 DEF BeginCall
      <4>4. QED
        BY <1>1, <3>1, <4>1, <4>3
    <3>5. QED
      BY <2>6, <3>2, <3>3, <3>4 DEF AdvanceCall
  <2>7. QED
    BY <2>1, <2>3, <2>4, <2>5, <2>6 DEF HostNext
<1>5. QED
  BY <1>3, <1>4

(***************************************************************************)
(* When a lost service has been dropped, the interface knows: it is not    *)
(* connected and no caller waits for a response of the service it lost,    *)
(* unless the service was claimed again while its loss was still being     *)
(* reported - whichever callers, restarts and lost packets there are.      *)
(***************************************************************************)
THEOREM LossIsNoticedUnlessOvertakenHolds == TracedSpec => []LossIsNoticedUnlessOvertaken
<1>1. TracedInit => NoticedInv
  BY HostTypeInit
  DEF TracedInit, HostInit, Init, NoticedInv, QuietWhileReported, Reporting
<1>2. TracedInit => HostInit
  BY DEF TracedInit
<1>3. [TracedNext]_<<host_vars, overtaken>> => [HostNext]_host_vars
  BY DEF TracedNext
<1>4. HostType /\ [HostNext]_host_vars => HostType'
  BY EnvironmentTypeStep, FindersTypeStep, StateTypeStep DEF HostType
<1>5. NoticedInv => HostType
  BY DEF NoticedInv
<1>6. RpcInv => TypeOK
  BY DEF RpcInv
<1>7. NoticedInv => LossIsNoticedUnlessOvertaken
  BY DEF NoticedInv, QuietWhileReported, LossIsNoticedUnlessOvertaken, LossIsNoticed
<1>8. TracedSpec => HostSpec
  BY <1>2, <1>3, PTL DEF TracedSpec, HostSpec
<1>9. QED
  BY <1>1, <1>3, <1>4, <1>5, <1>6, <1>7, <1>8, NoticedNext, HostCalls, RpcInvariance, PTL
  DEF TracedSpec
=============================================================================
