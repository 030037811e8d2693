-------------------------- MODULE RpcClient_proof --------------------------
(***************************************************************************)
(* Proofs that the remote calls of RpcClient are safe for any set of       *)
(* calling threads, any width of the call id and any number of calls; that *)
(* they stay so in InterfaceTransaction, with two mutexes and a shared     *)
(* buffer; and that what is sent from that buffer - transactions and calls *)
(* of any items - is what its thread put there.                            *)
(***************************************************************************)
EXTENDS MCRpcClient, Lemmas_proof

----------------------------------------------------------------------------
(* Type correctness.                                                       *)

LEMMA CallIdType ==
  ASSUME TypeOK, TakeCallId
  PROVE  rpc_call_counter' \in 0..(IdSpan - 1) /\ pending_call_id' = rpc_call_counter'
<1>1. rpc_call_counter + 1 \in Nat
  BY DEF TypeOK
<1> QED
  BY <1>1, RpcClientAssumption, DivMod DEF TakeCallId

\* A call more widens the range of the ghost variables.
LEMMA GhostType ==
  ASSUME TypeOK, calls' = calls + 1, NEW c \in Callers,
         call' = [call EXCEPT ![c] = calls'], UNCHANGED response
  PROVE  /\ calls' \in Nat
         /\ call' \in [Callers -> 0..calls']
         /\ response' \in [Callers -> [from : 0..calls', status : Status, size : Size]]
<1>1. calls \in Nat /\ calls' \in Nat /\ 0..calls \subseteq 0..calls' /\ calls' \in 0..calls'
  BY DEF TypeOK
<1>2. call \in [Callers -> 0..calls']
  BY <1>1 DEF TypeOK
<1>3. [from : 0..calls, status : Status, size : Size]
        \subseteq [from : 0..calls', status : Status, size : Size]
  BY <1>1
<1>4. response' = response /\ response \in [Callers -> [from : 0..calls, status : Status, size : Size]]
  BY DEF TypeOK
<1>5. response' \in [Callers -> [from : 0..calls', status : Status, size : Size]]
  BY <1>3, <1>4
<1> QED
  BY <1>1, <1>2, <1>5

LEMMA EndCallType ==
  ASSUME TypeOK, NEW from \in 0..calls, NEW status \in Status, NEW size \in Size,
         EndCall(from, status, size), UNCHANGED <<pc, calls, sent, call, result>>,
         UNCHANGED service_discovered, disconnecting' \in BOOLEAN
  PROVE  TypeOK'
<1>1. [from |-> from, status |-> status, size |-> size]
        \in [from : 0..calls', status : Status, size : Size]
  OBVIOUS
<1>2. response' \in [Callers -> [from : 0..calls', status : Status, size : Size]]
  BY <1>1 DEF TypeOK, EndCall
<1> QED
  BY <1>2 DEF TypeOK, EndCall, notify_all

LEMMA InitType == Init => TypeOK
<1> SUFFICES ASSUME Init PROVE TypeOK
  OBVIOUS
<1>1. NoResponse \in [from : 0..0, status : Status, size : Size]
  BY DEF NoResponse, Status, Size
<1>2. response \in [Callers -> [from : 0..calls, status : Status, size : Size]]
  BY <1>1 DEF Init
<1>3. rpc_call_counter \in 0..(IdSpan - 1) /\ pending_call_id \in 0..(IdSpan - 1)
  BY RpcClientAssumption DEF Init
<1>4. calls \in Nat /\ sent \subseteq 1..calls /\ call \in [Callers -> 0..calls]
  BY DEF Init
<1>5. rpc_response_status \in Status /\ rpc_received_size \in Size
  BY DEF Init, Status, Size
<1>6. /\ pc \in [Callers -> {"idle", "enter", "wait"}]
      /\ result \in [Callers -> {"none", "OK", "ERROR", "TIMEOUT"}]
      /\ asleep \subseteq Callers
      /\ rpc_response_payload \in Callers \cup {NoCaller}
      /\ rpc_call_active \in BOOLEAN
      /\ service_discovered \in BOOLEAN /\ disconnecting \in BOOLEAN
  BY DEF Init
<1> QED
  BY <1>2, <1>3, <1>4, <1>5, <1>6 DEF TypeOK

LEMMA CallerType ==
  ASSUME TypeOK, NEW c \in Callers, Call(c) \/ Refuse(c) \/ Advance(c)
  PROVE  TypeOK'
<1>1. ASSUME Call(c) \/ Refuse(c) PROVE TypeOK'
  <2>1. NoResponse \in [from : 0..calls, status : Status, size : Size]
    BY DEF NoResponse, Status, Size, TypeOK
  <2>2. response' \in [Callers -> [from : 0..calls, status : Status, size : Size]]
    BY <1>1, <2>1 DEF TypeOK, Call, Refuse
  <2> QED
    BY <1>1, <2>2 DEF TypeOK, Call, Refuse, slot, link
<1>2. CASE Sleep(c)
  BY <1>2 DEF TypeOK, Sleep, slot, link
<1>3. CASE Begin(c)
  <2>1. TakeCallId /\ calls' = calls + 1 /\ UNCHANGED <<link, response>>
    BY <1>3 DEF Begin
  <2>2. sent' \subseteq 1..calls'
    <3>1. calls \in Nat /\ sent \subseteq 1..calls
      BY DEF TypeOK
    <3>2. sent' \subseteq sent \cup {calls'}
      BY <1>3 DEF Begin, Send, FailToSend
    <3> QED
      BY <2>1, <3>1, <3>2
  <2>3. /\ rpc_call_counter' \in 0..(IdSpan - 1)
        /\ pending_call_id' \in 0..(IdSpan - 1)
    BY <2>1, CallIdType
  <2>4. /\ calls' \in Nat
        /\ call' \in [Callers -> 0..calls']
        /\ response' \in [Callers -> [from : 0..calls', status : Status, size : Size]]
    BY <1>3, GhostType DEF Begin
  <2>5. /\ pc' \in [Callers -> {"idle", "enter", "wait"}]
        /\ rpc_call_active' \in BOOLEAN
        /\ rpc_response_status' \in Status /\ rpc_received_size' \in Size
        /\ rpc_response_payload' \in Callers \cup {NoCaller}
        /\ asleep' \subseteq Callers
        /\ result' \in [Callers -> {"none", "OK", "ERROR", "TIMEOUT"}]
    BY <1>3 DEF TypeOK, Begin, Send, FailToSend, Status, Size
  <2> QED
    BY <2>1, <2>2, <2>3, <2>4, <2>5 DEF TypeOK, link
<1>4. CASE Wake(c)
  BY <1>4 DEF TypeOK, Wake, ClearBuffer, slot, link
<1>5. CASE Timeout(c)
  BY <1>5 DEF TypeOK, Timeout, ClearBuffer, notify_all, link
<1> QED
  BY <1>1, <1>2, <1>3, <1>4, <1>5 DEF Advance

LEMMA NextType == TypeOK /\ [Next]_vars => TypeOK'
<1> SUFFICES ASSUME TypeOK, [Next]_vars PROVE TypeOK'
  OBVIOUS
<1>1. ASSUME NEW c \in Callers, Call(c) \/ Refuse(c) \/ Advance(c) PROVE TypeOK'
  BY <1>1, CallerType
<1>2. CASE Response
  <2>1. PICK n \in sent, status \in {0, 1}, size \in {Fits, TooLarge} :
          OnRpcResponse(n, status, size)
    BY <1>2 DEF Response
  <2>2. n \in 0..calls /\ status \in Status /\ size \in Size
    BY DEF TypeOK, Status, Size
  <2>3. EndCall(n, status, size) /\ UNCHANGED <<pc, link, calls, sent, call, result>>
    BY <2>1 DEF OnRpcResponse
  <2>4. UNCHANGED service_discovered /\ disconnecting' \in BOOLEAN
    BY <2>3 DEF link, TypeOK
  <2> QED
    BY <2>2, <2>3, <2>4, EndCallType
<1>3. CASE OnServiceDiscovered
  BY <1>3 DEF TypeOK, OnServiceDiscovered, slot
<1>4. CASE LoseService
  BY <1>4 DEF TypeOK, LoseService, slot
<1>5. CASE AbortCall
  <2>1. UNCHANGED <<pc, service_discovered, calls, sent, call, result>>
        /\ disconnecting' \in BOOLEAN
    BY <1>5 DEF AbortCall
  <2>2. CASE rpc_call_active
    <3>1. EndCall(0, Disconnected, 0)
      BY <1>5, <2>2 DEF AbortCall
    <3>2. 0 \in 0..calls /\ Disconnected \in Status /\ 0 \in Size
      BY DEF TypeOK, Status, Size
    <3> QED
      BY <2>1, <3>1, <3>2, EndCallType
  <2>3. CASE ~rpc_call_active
    BY <1>5, <2>1, <2>3 DEF AbortCall, TypeOK, slot
  <2> QED
    BY <2>2, <2>3
<1>6. CASE UNCHANGED vars
  BY <1>6 DEF TypeOK, vars, slot, link
<1> QED
  BY <1>1, <1>2, <1>3, <1>4, <1>5, <1>6 DEF Next

(***************************************************************************)
(* Every variable of SendRpc keeps its type, the call ids their 16 bits.   *)
(***************************************************************************)
THEOREM TypeCorrect == Spec => []TypeOK
<1> QED
  BY InitType, NextType, PTL DEF Spec

----------------------------------------------------------------------------
(* The inductive invariant.                                                *)

\* Only threads that queue for the slot sleep without a timeout.
SleepersQueue == \A c \in asleep : pc[c] = "enter"

\* The counter is the number of calls, wrapped, and names the call in flight.
Counted ==
  /\ rpc_call_counter = calls % IdSpan
  /\ pending_call_id = rpc_call_counter

\* A thread that has no call number yet has no response either.
NotAnsweredYet == \A c \in Callers : pc[c] = "enter" => response[c].from = 0

\* A sleeper relies on a call in flight; ResponseBufferAlive says whose.
SleepersHaveCall == asleep # {} => rpc_call_active

IInv ==
  /\ TypeOK
  /\ ResponseBufferAlive
  /\ SleepersQueue
  /\ SleepersHaveCall
  /\ Counted
  /\ NotAnsweredYet
  /\ OwnResponse

LEMMA InitIInv == Init => IInv
<1> SUFFICES ASSUME Init PROVE IInv
  OBVIOUS
<1>1. TypeOK
  BY InitType
<1>2. ResponseBufferAlive /\ SleepersQueue /\ SleepersHaveCall
  BY DEF Init, ResponseBufferAlive, SleepersQueue, SleepersHaveCall
<1>3. Counted
  <2>1. 0 = IdSpan * 0 + 0 /\ 0 \in 0..(IdSpan - 1)
    BY RpcClientAssumption
  <2>2. 0 % IdSpan = 0
    BY <2>1, RpcClientAssumption, Remainder
  <2> QED
    BY <2>2 DEF Init, Counted
<1>4. NotAnsweredYet /\ OwnResponse
  BY DEF Init, NotAnsweredYet, OwnResponse, NoResponse
<1> QED
  BY <1>1, <1>2, <1>3, <1>4 DEF IInv

LEMMA CallerKeepsBuffer ==
  ASSUME TypeOK, ResponseBufferAlive, NEW c \in Callers,
         Call(c) \/ Refuse(c) \/ Advance(c)
  PROVE  ResponseBufferAlive'
<1>1. NoCaller \notin Callers
  BY RpcClientAssumption
<1>2. CASE Call(c)
  BY <1>2 DEF TypeOK, ResponseBufferAlive, Call, slot
<1>3. CASE Refuse(c)
  BY <1>3 DEF ResponseBufferAlive, Refuse, slot
<1>4. CASE Sleep(c)
  BY <1>4 DEF ResponseBufferAlive, Sleep, slot
<1>5. CASE Begin(c)
  <2>1. CASE Send(c)
    BY <1>1, <1>5, <2>1 DEF TypeOK, ResponseBufferAlive, Begin, Send
  <2>2. CASE FailToSend(c)
    BY <1>5, <2>2 DEF TypeOK, ResponseBufferAlive, Begin, FailToSend
  <2> QED
    BY <1>5, <2>1, <2>2 DEF Begin
<1>6. CASE Wake(c)
  BY <1>6 DEF ResponseBufferAlive, Wake, ClearBuffer, slot
<1>7. CASE Timeout(c)
  BY <1>7 DEF ResponseBufferAlive, Timeout, ClearBuffer
<1> QED
  BY <1>2, <1>3, <1>4, <1>5, <1>6, <1>7 DEF Advance

LEMMA CallerKeepsSleepers ==
  ASSUME TypeOK, SleepersQueue, SleepersHaveCall, NEW c \in Callers,
         Call(c) \/ Refuse(c) \/ Advance(c)
  PROVE  SleepersQueue' /\ SleepersHaveCall'
<1>1. CASE Call(c)
  BY <1>1 DEF TypeOK, SleepersQueue, SleepersHaveCall, Call, slot
<1>2. CASE Refuse(c)
  BY <1>2 DEF SleepersQueue, SleepersHaveCall, Refuse, slot
<1>3. CASE Sleep(c)
  BY <1>3 DEF SleepersQueue, SleepersHaveCall, Sleep, slot
<1>4. CASE Begin(c)
  BY <1>4 DEF TypeOK, SleepersQueue, SleepersHaveCall, Begin, Send, FailToSend
<1>5. CASE Wake(c)
  BY <1>5 DEF TypeOK, SleepersQueue, SleepersHaveCall, Wake, slot
<1>6. CASE Timeout(c)
  BY <1>6 DEF SleepersQueue, SleepersHaveCall, Timeout, notify_all
<1> QED
  BY <1>1, <1>2, <1>3, <1>4, <1>5, <1>6 DEF Advance

LEMMA CallerKeepsCount ==
  ASSUME TypeOK, Counted, NEW c \in Callers,
         Call(c) \/ Refuse(c) \/ Advance(c)
  PROVE  Counted'
<1>1. CASE Begin(c)
  <2>1. /\ calls' = calls + 1 /\ calls \in Nat
        /\ rpc_call_counter' = (rpc_call_counter + 1) % IdSpan
        /\ pending_call_id' = rpc_call_counter'
    BY <1>1 DEF TypeOK, Begin, TakeCallId
  <2>2. ((calls % IdSpan) + 1) % IdSpan = (calls + 1) % IdSpan
    BY <2>1, RpcClientAssumption, WrappedIncrement
  <2> QED
    BY <2>1, <2>2 DEF Counted
<1>2. CASE ~Begin(c)
  <2>1. UNCHANGED <<rpc_call_counter, pending_call_id, calls>>
    BY <1>2 DEF Advance, Call, Refuse, Sleep, Wake, Timeout, slot
  <2> QED
    BY <2>1 DEF Counted
<1> QED
  BY <1>1, <1>2

LEMMA CallerKeepsResponses ==
  ASSUME TypeOK, NotAnsweredYet, OwnResponse, NEW c \in Callers,
         Call(c) \/ Refuse(c) \/ Advance(c)
  PROVE  NotAnsweredYet' /\ OwnResponse'
<1>1. CASE Call(c)
  BY <1>1 DEF TypeOK, NotAnsweredYet, OwnResponse, Call, NoResponse
<1>2. CASE Refuse(c)
  BY <1>2 DEF TypeOK, NotAnsweredYet, OwnResponse, Refuse, NoResponse
<1>3. CASE Sleep(c)
  BY <1>3 DEF NotAnsweredYet, OwnResponse, Sleep
<1>4. CASE Begin(c)
  BY <1>4 DEF TypeOK, NotAnsweredYet, OwnResponse, Begin, Send, FailToSend
<1>5. CASE Wake(c)
  BY <1>5 DEF TypeOK, NotAnsweredYet, OwnResponse, Wake
<1>6. CASE Timeout(c)
  BY <1>6 DEF TypeOK, NotAnsweredYet, OwnResponse, Timeout
<1> QED
  BY <1>1, <1>2, <1>3, <1>4, <1>5, <1>6 DEF Advance

\* What ends a call leaves the buffer to its waiting owner and wakes everyone.
LEMMA EndCallKeeps ==
  ASSUME IInv, NEW from \in 0..calls, NEW status, NEW size,
         rpc_call_active, EndCall(from, status, size),
         UNCHANGED <<pc, calls, call>>, from # 0 => from = calls
  PROVE  /\ ResponseBufferAlive' /\ SleepersQueue' /\ SleepersHaveCall'
         /\ Counted' /\ NotAnsweredYet' /\ OwnResponse'
<1>1. /\ rpc_response_payload \in Callers
      /\ pc[rpc_response_payload] = "wait"
      /\ call[rpc_response_payload] = calls
  BY DEF IInv, TypeOK, ResponseBufferAlive
<1>2. ResponseBufferAlive' /\ Counted'
  BY DEF IInv, ResponseBufferAlive, Counted, EndCall
<1>3. SleepersQueue' /\ SleepersHaveCall'
  BY DEF EndCall, notify_all, SleepersQueue, SleepersHaveCall
<1>4. NotAnsweredYet'
  BY <1>1 DEF IInv, TypeOK, EndCall, NotAnsweredYet
<1>5. OwnResponse'
  BY <1>1 DEF IInv, TypeOK, EndCall, OwnResponse
<1> QED
  BY <1>2, <1>3, <1>4, <1>5

LEMMA NextIInv == IInv /\ [Next]_vars => IInv'
<1> SUFFICES ASSUME IInv, [Next]_vars PROVE IInv'
  OBVIOUS
<1>1. TypeOK'
  BY NextType DEF IInv
<1>2. ASSUME NEW c \in Callers, Call(c) \/ Refuse(c) \/ Advance(c) PROVE IInv'
  BY <1>1, <1>2, CallerKeepsBuffer, CallerKeepsSleepers, CallerKeepsCount,
     CallerKeepsResponses DEF IInv
<1>3. CASE Response
  <2>1. PICK n \in sent, status \in {0, 1}, size \in {Fits, TooLarge} :
          OnRpcResponse(n, status, size)
    BY <1>3 DEF Response
  <2>2. /\ n \in Nat /\ calls \in Nat /\ n <= calls /\ n \in 0..calls
        /\ calls - n < IdSpan
    BY <2>1, RpcClientAssumption DEF IInv, TypeOK, OnRpcResponse
  <2>3. n % IdSpan = calls % IdSpan /\ rpc_call_active
    BY <2>1 DEF IInv, Counted, OnRpcResponse, IsExpected
  <2>4. n = calls
    BY <2>2, <2>3, RpcClientAssumption, RemainderUnique
  <2>5. EndCall(n, status, size) /\ UNCHANGED <<pc, calls, call>>
    BY <2>1 DEF OnRpcResponse
  <2> QED
    BY <1>1, <2>2, <2>3, <2>4, <2>5, EndCallKeeps DEF IInv
<1>4. CASE OnServiceDiscovered \/ LoseService \/ UNCHANGED vars
      \/ (AbortCall /\ ~rpc_call_active)
  <2>1. UNCHANGED <<pc, slot, rpc_response_payload, asleep, calls, call, response>>
    BY <1>4 DEF OnServiceDiscovered, LoseService, AbortCall, vars
  <2> QED
    BY <1>1, <2>1 DEF IInv, ResponseBufferAlive, SleepersQueue, SleepersHaveCall,
       Counted, NotAnsweredYet, OwnResponse, slot
<1>5. CASE AbortCall /\ rpc_call_active
  <2>1. EndCall(0, Disconnected, 0) /\ UNCHANGED <<pc, calls, call>>
    BY <1>5 DEF AbortCall
  <2>2. 0 \in 0..calls
    BY DEF IInv, TypeOK
  <2> QED
    BY <1>1, <1>5, <2>1, <2>2, EndCallKeeps DEF IInv
<1> QED
  BY <1>2, <1>3, <1>4, <1>5 DEF Next

LEMMA Invariance == Spec => []IInv
<1> QED
  BY InitIInv, NextIInv, PTL DEF Spec

(***************************************************************************)
(* OnRpcResponse and MarkServiceDisconnected only ever write to the buffer *)
(* of a thread that is still inside SendRpc, and while a call is in flight *)
(* to the buffer of that call.                                             *)
(***************************************************************************)
THEOREM ResponseBufferAliveHolds == Spec => []ResponseBufferAlive
<1> QED
  BY Invariance, PTL DEF IInv

(***************************************************************************)
(* No wakeup is lost in the wait for a free slot: whoever sleeps there has *)
(* a caller to wait for that is awake on its timeout.                      *)
(***************************************************************************)
THEOREM SleeperHasWakerHolds == Spec => []SleeperHasWaker
<1>1. IInv => SleeperHasWaker
  <2> SUFFICES ASSUME IInv, asleep # {} PROVE SleeperHasWaker
    BY DEF SleeperHasWaker
  <2>1. rpc_call_active
    BY DEF IInv, SleepersHaveCall
  <2>2. /\ rpc_response_payload \in Callers
        /\ pc[rpc_response_payload] = "wait"
        /\ call[rpc_response_payload] = calls
    BY <2>1 DEF IInv, TypeOK, ResponseBufferAlive
  <2>3. rpc_response_payload \notin asleep
    BY <2>2 DEF IInv, SleepersQueue
  <2> QED
    BY <2>1, <2>2, <2>3 DEF SleeperHasWaker
<1> QED
  BY <1>1, Invariance, PTL

(***************************************************************************)
(* OnRpcResponse accepts for a call only the response to that call, for    *)
(* every width of the id and every lateness below it.                      *)
(***************************************************************************)
THEOREM OwnResponseHolds == Spec => []OwnResponse
<1> QED
  BY Invariance, PTL DEF IInv

----------------------------------------------------------------------------
(* The same calls with the two mutexes.                                    *)

LEMMA StepIsCall == [InterfaceNext]_interface_vars => [Next]_vars
<1> SUFFICES ASSUME [InterfaceNext]_interface_vars PROVE [Next]_vars
  OBVIOUS
<1>1. CASE SendingNext /\ UNCHANGED <<vars, call_vars>>
  BY <1>1
<1>2. ASSUME NEW c \in Callers, CallStep(c) PROVE [Next]_vars
  <2>1. CASE SendCall(c)
    BY <2>1 DEF SendCall, Next, Advance
  <2>2. CASE BuildCall(c) \/ \E arguments \in Arguments : LockRpc(c, arguments)
    BY <2>2 DEF BuildCall, LockRpc
  <2> QED
    BY <1>2, <2>1, <2>2 DEF CallStep
<1>3. CASE CallNext
  BY <1>3 DEF CallNext, Proceed, Next, Advance
<1>4. CASE UNCHANGED interface_vars
  BY <1>4 DEF interface_vars
<1> QED
  BY <1>1, <1>2, <1>3, <1>4 DEF InterfaceNext

(***************************************************************************)
(* Whatever transactions, single values and configurations share the       *)
(* mutexes and the buffer, calls go on as module RpcClient says ...        *)
(***************************************************************************)
THEOREM CallsImplemented == InterfaceSpec => Spec
<1>1. InterfaceInit => Init
  BY DEF InterfaceInit
<1> QED
  BY <1>1, StepIsCall, PTL DEF InterfaceSpec, Spec

\* ... so that no pointer dangles, no wakeup is lost and no response mistaken.
THEOREM CallsSafeInComposition ==
  InterfaceSpec => [](TypeOK /\ ResponseBufferAlive /\ SleeperHasWaker /\ OwnResponse)
BY CallsImplemented, TypeCorrect, ResponseBufferAliveHolds, SleeperHasWakerHolds,
   OwnResponseHolds, PTL

----------------------------------------------------------------------------
(* What is sent.                                                           *)

(***************************************************************************)
(* Who holds state_mutex_ from one step to the next has a transaction      *)
(* open, in code of the user's, or is in SendRpc with a call in the        *)
(* buffer: never both, and never anyone else.                              *)
(***************************************************************************)
Held ==
  /\ rpc_mutex_ # nobody =>
       rpc_mutex_ \in Callers /\ pc[rpc_mutex_] = "enter" /\ params \in Arguments
  /\ transaction_started_ => state_mutex_ \in Threads /\ InUserCode(state_mutex_)
  /\ state_mutex_ # nobody /\ ~transaction_started_ =>
       state_mutex_ = rpc_mutex_ /\ buffer_ = FramedAll(params)

ItemsOf(entries) == [i \in DOMAIN entries |-> entries[i][1]]

HoldsAdded ==
  /\ buffer_ \in Seq(Cells)
  /\ Parse(buffer_) = [items |-> ItemsOf(added), processed_len |-> Len(buffer_)]

\* While a transaction is open nobody finds or loses the service: an item is
\* refused only when all are and the transaction will not be sent.
Whole ==
  transaction_started_ =>
    /\ added \in Seq(Items \X BOOLEAN)
    /\ \A i \in DOMAIN added : added[i][2] = is_configuration_transaction_
    /\ refused => ~service_discovered
    /\ ~refused => HoldsAdded

SendInv == TypeOK /\ Held /\ Whole

LEMMA SomeThread == \A t \in Threads : t # nobody
BY InterfaceTransactionAssumption DEF Threads

\* A thread in code of the user's waits for no call.
LEMMA UserHasNoCall ==
  ASSUME Held, NEW t \in Threads, InUserCode(t)
  PROVE  /\ t # rpc_mutex_
         /\ CanLock(t) /\ ~transaction_started_ => state_mutex_ = nobody
<1>1. Io \notin Callers /\ t # nobody
  BY SomeThread, InterfaceTransactionAssumption
<1>2. t # rpc_mutex_
  BY <1>1 DEF Held, InUserCode
<1> QED
  BY <1>2 DEF Held, CanLock

\* ... and one that waits for a call has no transaction.
LEMMA CallerHasNoTransaction ==
  ASSUME Held, NEW c \in Callers, rpc_mutex_ = c, state_mutex_ = c
  PROVE  ~transaction_started_ /\ buffer_ = FramedAll(params) /\ params \in Arguments
<1>1. c # nobody /\ c # Io
  BY SomeThread, InterfaceTransactionAssumption DEF Threads
<1> QED
  BY <1>1 DEF Held, InUserCode

LEMMA StartSends ==
  ASSUME SendInv, NEW t \in Threads, NEW is_configuration \in BOOLEAN,
         StartTransaction(t, is_configuration), UNCHANGED <<vars, call_vars>>
  PROVE  Held' /\ Whole'
<1>1. Held'
  BY SomeThread, UserHasNoCall
  DEF SendInv, Held, StartTransaction, vars, call_vars, InUserCode
<1>2. added' = <<>> /\ buffer_' = <<>> /\ refused' = FALSE
  BY DEF StartTransaction
<1>3. ItemsOf(<<>>) = <<>> /\ Len(<<>>) = 0
  BY DEF ItemsOf
<1>4. HoldsAdded'
  BY <1>2, <1>3, ParseNothing DEF HoldsAdded
<1> QED
  BY <1>1, <1>2, <1>4 DEF Whole

LEMMA AddSends ==
  ASSUME SendInv, NEW t \in Threads, NEW item \in Items, NEW is_configuration \in BOOLEAN,
         AddData(t, item, is_configuration), UNCHANGED <<vars, call_vars>>
  PROVE  Held' /\ Whole'
<1>1. /\ transaction_started_ /\ state_mutex_ = t
      /\ is_configuration = is_configuration_transaction_
      /\ added' = Append(added, <<item, is_configuration>>)
      /\ UNCHANGED <<state_mutex_, transaction_started_, is_configuration_transaction_, io>>
      /\ UNCHANGED <<pc, service_discovered, rpc_mutex_, params>>
  BY DEF AddData, SameKind, vars, link, call_vars
<1>2. Held'
  BY <1>1 DEF SendInv, Held, InUserCode
<1>3. /\ added \in Seq(Items \X BOOLEAN)
      /\ \A i \in DOMAIN added : added[i][2] = is_configuration_transaction_
      /\ refused => ~service_discovered
      /\ ~refused => HoldsAdded
  BY <1>1 DEF SendInv, Whole
<1> DEFINE entry == <<item, is_configuration>>
<1>4. entry \in Items \X BOOLEAN /\ entry[1] = item /\ entry[2] = is_configuration
  OBVIOUS
<1> HIDE DEF entry
<1>5. /\ added' \in Seq(Items \X BOOLEAN)
      /\ Len(added) \in Nat /\ DOMAIN added = 1..Len(added)
      /\ Len(added') = Len(added) + 1 /\ DOMAIN added' = 1..(Len(added) + 1)
      /\ \A i \in 1..Len(added) : added'[i] = added[i]
      /\ added'[Len(added) + 1] = entry
  BY <1>1, <1>3, <1>4, AppendProperties, LenProperties DEF entry
<1>6. \A i \in DOMAIN added' : added'[i][2] = is_configuration_transaction_'
  <2> SUFFICES ASSUME NEW i \in 1..(Len(added) + 1)
               PROVE  added'[i][2] = is_configuration_transaction_
    BY <1>1, <1>5
  <2>1. CASE i = Len(added) + 1
    BY <1>1, <1>4, <1>5, <2>1
  <2>2. CASE i # Len(added) + 1
    <3>1. i \in 1..Len(added)
      BY <1>5, <2>2
    <3> QED
      BY <1>3, <1>5, <3>1
  <2> QED
    BY <2>1, <2>2
<1>7. ASSUME service_discovered PROVE UNCHANGED refused /\ (~refused => HoldsAdded')
  <2>1. UNCHANGED refused /\ buffer_' = buffer_ \o Framed(item)
    BY <1>7 DEF AddData
  <2>2. item \in Sendable
    BY InterfaceTransactionAssumption
  <2>3. ASSUME ~refused PROVE HoldsAdded'
    <3>1. /\ buffer_' \in Seq(Cells)
          /\ Parse(buffer_') = [items |-> Append(ItemsOf(added), item),
                                processed_len |-> Len(buffer_')]
      BY <1>3, <2>1, <2>2, <2>3, ParseAppended DEF HoldsAdded
    <3>2. Append(ItemsOf(added), item) = ItemsOf(added')
      <4> DEFINE old == ItemsOf(added)
                 new == ItemsOf(added')
      <4>1. \A i \in 1..Len(added) : added[i] \in Items \X BOOLEAN /\ added[i][1] \in Items
        BY <1>3, <1>5
      <4>2. \A i \in 1..(Len(added) + 1) : added'[i] \in Items \X BOOLEAN /\ added'[i][1] \in Items
        BY <1>5
      <4>3. old \in Seq(Items) /\ Len(old) = Len(added) /\ \A i \in 1..Len(added) : old[i] = added[i][1]
        BY <1>5, <4>1 DEF ItemsOf
      <4>4. /\ new \in Seq(Items) /\ Len(new) = Len(added) + 1
            /\ \A i \in 1..(Len(added) + 1) : new[i] = added'[i][1]
        BY <1>5, <4>2 DEF ItemsOf
      <4> HIDE DEF old, new
      <4>5. /\ Append(old, item) \in Seq(Items) /\ Len(Append(old, item)) = Len(added) + 1
            /\ \A i \in 1..Len(added) : Append(old, item)[i] = old[i]
            /\ Append(old, item)[Len(added) + 1] = item
        BY <4>3, AppendProperties
      <4>6. ASSUME NEW i \in 1..(Len(added) + 1) PROVE Append(old, item)[i] = new[i]
        <5>1. CASE i = Len(added) + 1
          BY <1>4, <1>5, <4>4, <4>5, <5>1
        <5>2. CASE i # Len(added) + 1
          <6>1. i \in 1..Len(added)
            BY <1>5, <5>2
          <6> QED
            BY <1>5, <4>3, <4>4, <4>5, <6>1
        <5> QED
          BY <5>1, <5>2
      <4>7. Append(old, item) = new
        BY <4>4, <4>5, <4>6, SeqEqual
      <4> QED
        BY <4>7 DEF old, new
    <3> QED
      BY <3>1, <3>2 DEF HoldsAdded
  <2> QED
    BY <2>1, <2>3
<1>8. ASSUME ~service_discovered PROVE refused' = TRUE
  BY <1>8 DEF AddData
<1>9. Whole'
  BY <1>1, <1>3, <1>5, <1>6, <1>7, <1>8 DEF Whole
<1> QED
  BY <1>2, <1>9

LEMMA CommitSends ==
  ASSUME SendInv, NEW t \in Threads, CommitTransaction(t), UNCHANGED <<vars, call_vars>>
  PROVE  Held' /\ Whole' /\ WholeOrNothing' /\ CallArrives'
<1>1. Held' /\ Whole'
  BY DEF SendInv, Held, Whole, CommitTransaction, Unlocked, vars, call_vars
<1>2. CASE ~service_discovered
  BY <1>1, <1>2 DEF CommitTransaction, WholeOrNothing, CallArrives, Nothing
<1>3. CASE service_discovered
  <2>1. /\ out'.type = "TRANSACTION" /\ out'.payload = buffer_
        /\ out'.is_configuration = is_configuration_transaction_
        /\ out'.added = added /\ out'.refused = refused
    BY <1>3 DEF CommitTransaction
  <2>2. /\ \A i \in DOMAIN added : added[i][2] = is_configuration_transaction_
        /\ ~refused /\ HoldsAdded
    BY <1>3 DEF CommitTransaction, SendInv, Whole
  <2>3. WholeOrNothing'
    BY <2>1, <2>2 DEF WholeOrNothing, HoldsAdded, ItemsOf
  <2> QED
    BY <1>1, <2>1, <2>3 DEF CallArrives
<1> QED
  BY <1>2, <1>3

LEMMA SendingSends ==
  ASSUME SendInv, SendingNext, UNCHANGED <<vars, call_vars>>
  PROVE  Held' /\ Whole' /\ WholeOrNothing' /\ CallArrives'
<1>1. ASSUME out'.type \notin {"TRANSACTION", "RPC_CALL"} PROVE WholeOrNothing' /\ CallArrives'
  BY <1>1 DEF WholeOrNothing, CallArrives
<1>2. ASSUME NEW t \in Threads, CommitTransaction(t)
      PROVE  Held' /\ Whole' /\ WholeOrNothing' /\ CallArrives'
  BY <1>2, CommitSends
<1>3. ASSUME NEW t \in Threads, NEW is_configuration \in BOOLEAN,
             StartTransaction(t, is_configuration)
      PROVE  Held' /\ Whole' /\ WholeOrNothing' /\ CallArrives'
  <2>1. out'.type = "none"
    BY <1>3 DEF StartTransaction, Nothing
  <2> QED
    BY <1>1, <1>3, <2>1, StartSends
<1>4. ASSUME NEW t \in Threads, NEW is_configuration \in BOOLEAN, NEW item \in Items,
             AddData(t, item, is_configuration)
      PROVE  Held' /\ Whole' /\ WholeOrNothing' /\ CallArrives'
  <2>1. out'.type = "none"
    BY <1>4 DEF AddData, Nothing
  <2> QED
    BY <1>1, <1>4, <2>1, AddSends
<1>5. ASSUME NEW t \in Threads, NEW item \in Items, SendValue(t, item)
      PROVE  Held' /\ Whole' /\ WholeOrNothing' /\ CallArrives'
  <2>1. state_mutex_ = nobody /\ ~transaction_started_
    BY <1>5, UserHasNoCall DEF SendInv, SendValue, SendsAlone
  <2>2. Held' /\ Whole'
    BY <1>5, <2>1 DEF SendInv, Held, Whole, SendValue, vars, call_vars
  <2>3. out'.type = "DATA"
    BY <1>5 DEF SendValue
  <2> QED
    BY <1>1, <2>2, <2>3
<1>6. ASSUME RequestConfiguration
      PROVE  Held' /\ Whole' /\ WholeOrNothing' /\ CallArrives'
  <2>1. out'.type = "none"
    BY <1>6 DEF RequestConfiguration, Nothing
  <2>2. Held' /\ Whole'
    BY <1>6 DEF SendInv, Held, Whole, HoldsAdded, RequestConfiguration, InUserCode, transaction,
                vars, link, call_vars
  <2> QED
    BY <1>1, <2>1, <2>2
<1> QED
  BY <1>2, <1>3, <1>4, <1>5, <1>6 DEF SendingNext

LEMMA CallSends ==
  ASSUME SendInv, NEW c \in Callers, CallStep(c)
  PROVE  Held' /\ Whole' /\ WholeOrNothing' /\ CallArrives'
<1>1. c \in Threads /\ c # nobody /\ c # Io
  BY SomeThread, InterfaceTransactionAssumption DEF Threads
<1>2. ASSUME NEW arguments \in Arguments, LockRpc(c, arguments)
      PROVE  Held' /\ Whole' /\ WholeOrNothing' /\ CallArrives'
  <2>1. Held' /\ Whole'
    BY <1>1, <1>2
    DEF SendInv, Held, Whole, HoldsAdded, LockRpc, InUserCode, sending, transaction, ghosts,
        vars, link
  <2> QED
    BY <1>2, <2>1 DEF LockRpc, WholeOrNothing, CallArrives, Nothing
<1>3. ASSUME BuildCall(c)
      PROVE  Held' /\ Whole' /\ WholeOrNothing' /\ CallArrives'
  <2>1. Held' /\ Whole'
    BY <1>1, <1>3
    DEF SendInv, Held, Whole, BuildCall, SendsAlone, call_vars, vars
  <2> QED
    BY <1>3, <2>1 DEF BuildCall, WholeOrNothing, CallArrives, Nothing
<1>4. ASSUME SendCall(c)
      PROVE  Held' /\ Whole' /\ WholeOrNothing' /\ CallArrives'
  <2>1. rpc_mutex_ = c /\ state_mutex_ = c
    BY <1>4 DEF SendCall
  <2>2. ~transaction_started_ /\ buffer_ = FramedAll(params) /\ params \in Arguments
    BY <2>1, CallerHasNoTransaction DEF SendInv
  <2>3. Held' /\ Whole'
    BY <1>4, <2>2 DEF Held, Whole, SendCall, transaction
  <2>4. /\ out'.type = "RPC_CALL" /\ out'.arguments = params
        /\ out'.payload = FramedAll(params)
    BY <1>4, <2>2 DEF SendCall
  <2>5. params \in Seq(Sendable) /\ EveryParameter(Parameters, params)
    BY <2>2, InterfaceTransactionAssumption
  <2>6. CallArrives'
    BY <2>4, <2>5, DispatchFramed DEF CallArrives, ArgumentFits
  <2> QED
    BY <2>3, <2>4, <2>6 DEF WholeOrNothing
<1> QED
  BY <1>2, <1>3, <1>4 DEF CallStep

LEMMA OtherwiseSends ==
  ASSUME SendInv, CallNext
  PROVE  Held' /\ Whole' /\ WholeOrNothing' /\ CallArrives'
<1>1. /\ out' = Nothing
      /\ UNCHANGED <<rpc_mutex_, params, state_mutex_, transaction_started_,
                     is_configuration_transaction_, buffer_, io, added, refused>>
  BY DEF CallNext, call_vars, sending, transaction, ghosts
<1>2. WholeOrNothing' /\ CallArrives'
  BY <1>1 DEF WholeOrNothing, CallArrives, Nothing
<1>3. transaction_started_ => UNCHANGED service_discovered
  <2> SUFFICES ASSUME transaction_started_ PROVE UNCHANGED service_discovered
    OBVIOUS
  <2>1. ~FlagLocked
    BY SomeThread DEF SendInv, Held, FlagLocked
  <2> QED
    BY <2>1 DEF CallNext, Call, Refuse, Proceed, Sleep, Wake, Timeout, Response, OnRpcResponse,
                AbortCall, link
<1>4. Whole'
  BY <1>1, <1>3 DEF SendInv, Whole, HoldsAdded
<1> DEFINE KeptPc ==
      /\ rpc_mutex_ # nobody => pc'[rpc_mutex_] = pc[rpc_mutex_]
      /\ \A t \in Callers : state_mutex_ = t /\ pc[t] = "idle" => pc'[t] = "idle"
<1>5. KeptPc
  <2>1. ASSUME NEW c \in Callers, state_mutex_ # c, Call(c) \/ Refuse(c) PROVE KeptPc
    BY <2>1 DEF Call, Refuse, SendInv, TypeOK, Held
  <2>2. ASSUME rpc_mutex_ = nobody, NEW c \in Callers, Proceed(c) PROVE KeptPc
    BY <2>2 DEF Proceed, Sleep, Wake, Timeout, SendInv, TypeOK
  <2>3. ASSUME UNCHANGED pc PROVE KeptPc
    BY <2>3
  <2> QED
    BY <2>1, <2>2, <2>3 DEF CallNext, Response, OnRpcResponse, AbortCall, OnServiceDiscovered, LoseService
<1>6. Held'
  BY <1>1, <1>5 DEF SendInv, Held, InUserCode, Threads
<1> QED
  BY <1>2, <1>4, <1>6

LEMMA SendInit == InterfaceInit => SendInv /\ WholeOrNothing /\ CallArrives
<1> SUFFICES ASSUME InterfaceInit PROVE SendInv /\ WholeOrNothing /\ CallArrives
  OBVIOUS
<1>1. TypeOK
  BY InitType DEF InterfaceInit
<1> QED
  BY <1>1 DEF InterfaceInit, SendInv, Held, Whole, WholeOrNothing, CallArrives, Nothing

LEMMA SendNext ==
  SendInv /\ WholeOrNothing /\ CallArrives /\ [InterfaceNext]_interface_vars
    => SendInv' /\ WholeOrNothing' /\ CallArrives'
<1> SUFFICES ASSUME SendInv, WholeOrNothing, CallArrives, [InterfaceNext]_interface_vars
             PROVE  SendInv' /\ WholeOrNothing' /\ CallArrives'
  OBVIOUS
<1>1. TypeOK'
  BY NextType, StepIsCall DEF SendInv
<1>2. CASE UNCHANGED interface_vars
  <2>1. UNCHANGED <<pc, service_discovered, rpc_mutex_, params, state_mutex_, transaction_started_,
                    is_configuration_transaction_, buffer_, io, out, added, refused>>
    BY <1>2 DEF interface_vars, vars, link, call_vars, sending, transaction, ghosts
  <2>2. Held' /\ Whole'
    BY <2>1 DEF SendInv, Held, Whole, HoldsAdded, InUserCode
  <2>3. WholeOrNothing' /\ CallArrives'
    BY <2>1 DEF WholeOrNothing, CallArrives
  <2> QED
    BY <1>1, <2>2, <2>3 DEF SendInv
<1>3. CASE InterfaceNext
  <2>1. Held' /\ Whole' /\ WholeOrNothing' /\ CallArrives'
    BY <1>3, SendingSends, CallSends, OtherwiseSends DEF InterfaceNext
  <2> QED
    BY <1>1, <2>1 DEF SendInv
<1> QED
  BY <1>2, <1>3

(***************************************************************************)
(* A transaction is sent whole, of one kind and readable to its end, or    *)
(* not at all, for any threads, items and number of transactions.          *)
(***************************************************************************)
THEOREM WholeOrNothingHolds == InterfaceSpec => []WholeOrNothing
BY SendInit, SendNext, PTL DEF InterfaceSpec

(***************************************************************************)
(* The function of the service is called with the arguments of the caller, *)
(* or the call fails, for every schema, any arguments and any threads.     *)
(***************************************************************************)
THEOREM CallArrivesHolds == InterfaceSpec => []CallArrives
BY SendInit, SendNext, PTL DEF InterfaceSpec

----------------------------------------------------------------------------
(* A call that overlaps with no other: RpcPromise, with the history        *)
(* variable of MCRpcClient.                                                *)

\* What ended the call of a waiting thread, if anything did: rpc_response_status
\* and rpc_received_size, which SendRpc looks at, are those of its response.
EndedBy(c) ==
  IF rpc_call_active
    THEN response[c] = NoResponse
    ELSE /\ response[c].status = rpc_response_status
         /\ response[c].size = rpc_received_size
         /\ IF response[c].from = 0 THEN response[c].status = Disconnected
                                    ELSE response[c].size \in {Fits, TooLarge}

Alone ==
  /\ \A c, d \in Callers : pc[c] # "idle" /\ pc[d] # "idle" => c = d
  /\ \A c \in Callers : pc[c] = "enter" => response[c] = NoResponse
  /\ \A c \in Callers : pc[c] = "wait" => EndedBy(c)

AloneInv == ~overlapped => Alone

AtMostOneActive == Cardinality(Active) > 1 \/ \A c, d \in Active : c = d

LEMMA AtMostOne == AtMostOneActive
<1> SUFFICES ASSUME NEW c \in Active, NEW d \in Active, c # d
             PROVE  Cardinality(Active) > 1
  BY DEF AtMostOneActive
<1>1. IsFiniteSet(Active)
  <2>1. Active \in SUBSET Callers
    BY DEF Active
  <2>2. QED
    BY <2>1, RpcClientAssumption, FS_Subset
<1>2. {c, d} \in SUBSET Active /\ {c, d} = {c} \cup {d}
  OBVIOUS
<1>3. IsFiniteSet({c}) /\ Cardinality({c}) = 1
  BY FS_Singleton
<1>4. Cardinality({c} \cup {d}) = 2
  BY <1>3, FS_AddElement
<1>5. Cardinality({c, d}) <= Cardinality(Active) /\ Cardinality(Active) \in Nat
  BY <1>1, <1>2, FS_Subset, FS_CardinalityType
<1>6. QED
  BY <1>2, <1>4, <1>5

\* The callback that ends the call ends that of the only caller.
LEMMA EndsTheOnlyCall ==
  ASSUME IInv, Alone, rpc_call_active,
         NEW from \in 0..calls, NEW status \in Status, NEW size \in Size,
         EndCall(from, status, size), UNCHANGED <<pc, calls, sent, call, result>>,
         IF from = 0 THEN status = Disconnected ELSE size \in {Fits, TooLarge}
  PROVE  /\ rpc_response_payload \in Callers /\ pc[rpc_response_payload] = "wait"
         /\ response[rpc_response_payload] = NoResponse
         /\ response'[rpc_response_payload] = [from |-> from, status |-> status, size |-> size]
         /\ Alone'
<1>1. /\ rpc_response_payload \in Callers
      /\ pc[rpc_response_payload] = "wait"
  BY DEF IInv, TypeOK, ResponseBufferAlive
<1>2. response[rpc_response_payload] = NoResponse
  BY <1>1 DEF Alone, EndedBy
<1>3. response'[rpc_response_payload] = [from |-> from, status |-> status, size |-> size]
  BY <1>1 DEF EndCall, IInv, TypeOK
<1>4. \A c \in Callers : pc'[c] # "idle" => c = rpc_response_payload
  BY <1>1 DEF Alone
<1>5. ASSUME NEW c \in Callers, pc'[c] = "wait" PROVE EndedBy(c)'
  <2>1. response'[c] = [from |-> from, status |-> status, size |-> size]
    BY <1>3, <1>4, <1>5
  <2>2. QED
    BY <2>1 DEF EndedBy, EndCall
<1>6. Alone'
  <2>1. \A c \in Callers : pc'[c] # "enter"
    BY <1>1, <1>4
  <2>2. QED
    BY <1>4, <1>5, <2>1 DEF Alone
<1>7. QED
  BY <1>1, <1>2, <1>3, <1>6

\* A callback as a case of EndCall: it knows which call it ends.
LEMMA CallbackEnds ==
  ASSUME IInv, Response \/ (AbortCall /\ rpc_call_active)
  PROVE  \E from \in 0..calls, status \in Status, size \in Size :
           /\ EndCall(from, status, size) /\ rpc_call_active
           /\ UNCHANGED <<pc, calls, sent, call, result>>
           /\ IF from = 0 THEN status = Disconnected ELSE size \in {Fits, TooLarge}
<1>1. CASE Response
  <2>1. PICK n \in sent, status \in {0, 1}, size \in {Fits, TooLarge} :
          OnRpcResponse(n, status, size)
    BY <1>1 DEF Response
  <2>2. n \in 0..calls /\ n # 0 /\ status \in Status /\ size \in Size
    BY DEF IInv, TypeOK, Status, Size
  <2>3. /\ EndCall(n, status, size) /\ rpc_call_active
        /\ UNCHANGED <<pc, calls, sent, call, result>>
    BY <2>1 DEF OnRpcResponse, IsExpected
  <2>4. QED
    BY <2>2, <2>3
<1>2. CASE AbortCall /\ rpc_call_active
  <2>1. /\ EndCall(0, Disconnected, 0) /\ rpc_call_active
        /\ UNCHANGED <<pc, calls, sent, call, result>>
    BY <1>2 DEF AbortCall
  <2>2. 0 \in 0..calls /\ Disconnected \in Status /\ 0 \in Size
    BY DEF IInv, TypeOK, Status, Size
  <2>3. QED
    BY <2>1, <2>2
<1>3. QED
  BY <1>1, <1>2

LEMMA AloneStep ==
  ASSUME IInv, Alone, [Next]_vars,
         \A c, d \in Callers : pc'[c] # "idle" /\ pc'[d] # "idle" => c = d
  PROVE  Alone'
<1>1. TypeOK
  BY DEF IInv
<1>2. ASSUME UNCHANGED <<pc, slot, response>> PROVE Alone'
  BY <1>2 DEF Alone, EndedBy, slot
<1>3. ASSUME NEW c \in Callers, Call(c) PROVE Alone'
  <2>1. pc'[c] = "enter" /\ response'[c] = NoResponse
    BY <1>1, <1>3 DEF Call, TypeOK
  <2>2. \A d \in Callers : pc'[d] # "idle" => d = c
    BY <2>1
  <2>3. QED
    BY <2>1, <2>2 DEF Alone
<1>4. ASSUME NEW c \in Callers, Refuse(c) PROVE Alone'
  <2>1. UNCHANGED <<pc, slot>> /\ pc[c] = "idle"
    BY <1>4 DEF Refuse
  <2>2. \A d \in Callers \ {c} : response'[d] = response[d]
    BY <1>1, <1>4 DEF Refuse, TypeOK
  <2>3. QED
    BY <2>1, <2>2 DEF Alone, EndedBy, slot
<1>5. ASSUME NEW c \in Callers, Begin(c) PROVE Alone'
  <2>1. pc[c] = "enter" /\ response[c] = NoResponse /\ response' = response
    BY <1>5 DEF Begin, Alone
  <2>2. \A d \in Callers \ {c} : pc[d] = "idle"
    BY <2>1 DEF Alone
  <2>3. CASE Send(c)
    <3>1. \A d \in Callers : pc'[d] = IF d = c THEN "wait" ELSE "idle"
      BY <1>1, <2>2, <2>3 DEF Send, TypeOK
    <3>2. rpc_call_active'
      BY <2>3 DEF Send
    <3>3. QED
      BY <2>1, <3>1, <3>2 DEF Alone, EndedBy
  <2>4. CASE FailToSend(c)
    <3>1. \A d \in Callers : pc'[d] = "idle"
      BY <1>1, <2>2, <2>4 DEF FailToSend, TypeOK
    <3>2. QED
      BY <3>1 DEF Alone
  <2>5. QED
    BY <1>5, <2>3, <2>4 DEF Begin
<1>6. ASSUME NEW c \in Callers, Wake(c) \/ Timeout(c) PROVE Alone'
  <2>1. \A d \in Callers : pc'[d] = "idle"
    BY <1>1, <1>6 DEF Wake, Timeout, Alone, TypeOK
  <2>2. QED
    BY <2>1 DEF Alone
<1>7. CASE Response \/ (AbortCall /\ rpc_call_active)
  BY <1>7, CallbackEnds, EndsTheOnlyCall
<1>8. CASE (AbortCall /\ ~rpc_call_active) \/ OnServiceDiscovered \/ LoseService \/ UNCHANGED vars
  BY <1>2, <1>8 DEF AbortCall, OnServiceDiscovered, LoseService, vars
<1>9. ASSUME NEW c \in Callers, Sleep(c) PROVE Alone'
  BY <1>2, <1>9 DEF Sleep
<1>10. QED
  BY <1>3, <1>4, <1>5, <1>6, <1>7, <1>8, <1>9 DEF Next, Advance

\* The lone caller's step in RpcPromise; the others are idle before and after.
LEMMA OnlyStage ==
  ASSUME NEW c \in Callers, \A d \in Callers \ {c} : pc[d] = "idle" /\ pc'[d] = "idle",
         NEW s, Stage(c)' = s
  PROVE  [d \in Callers |-> Stage(d)'] = [[d \in Callers |-> Stage(d)] EXCEPT ![c] = s]
<1>1. \A d \in Callers \ {c} : Stage(d)' = Stage(d)
  BY DEF Stage
<1>2. QED
  BY <1>1

LEMMA CallerPromised ==
  ASSUME IInv, Alone, Alone', NEW c \in Callers, Call(c) \/ Refuse(c) \/ Advance(c)
  PROVE  [Promise!Next]_(Promise!vars)
<1>1. TypeOK
  BY DEF IInv
<1>2. \A d \in Callers \ {c} : pc'[d] = pc[d]
  BY <1>1 DEF TypeOK, Call, Refuse, Advance, Sleep, Begin, Send, FailToSend, Wake, Timeout
<1>3. ASSUME pc[c] # "idle" \/ pc'[c] # "idle"
      PROVE  \A d \in Callers \ {c} : pc[d] = "idle" /\ pc'[d] = "idle"
  BY <1>2, <1>3 DEF Alone
<1>4. CASE Call(c)
  <2>1. /\ pc[c] = "idle" /\ pc'[c] = "enter" /\ response'[c] = NoResponse
        /\ result' = [result EXCEPT ![c] = "none"]
    BY <1>1, <1>4 DEF Call, TypeOK
  <2>2. Stage(c) = "idle" /\ Stage(c)' = "calling"
    BY <2>1 DEF Stage
  <2>3. Promise!Call(c)
    BY <1>3, <2>1, <2>2, OnlyStage DEF Promise!Call
  <2>4. QED
    BY <2>3 DEF Promise!Next
<1>5. CASE Refuse(c)
  <2>1. UNCHANGED <<pc, call>> /\ pc[c] = "idle" /\ result' = [result EXCEPT ![c] = "ERROR"]
    BY <1>5 DEF Refuse
  <2>2. \A d \in Callers \ {c} : response'[d] = response[d]
    BY <1>1, <1>5 DEF Refuse, TypeOK
  <2>3. \A d \in Callers : Stage(d)' = Stage(d)
    BY <2>1, <2>2 DEF Stage
  <2>4. [d \in Callers |-> Stage(d)'] = [d \in Callers |-> Stage(d)] /\ Stage(c) = "idle"
    BY <2>1, <2>3 DEF Stage
  <2>5. Promise!Refuse(c)
    BY <2>1, <2>4 DEF Promise!Refuse
  <2>6. QED
    BY <2>5 DEF Promise!Next
<1>6. CASE Sleep(c)
  <2>1. UNCHANGED <<pc, call, response, result>>
    BY <1>6 DEF Sleep
  <2>2. \A d \in Callers : Stage(d)' = Stage(d)
    BY <2>1 DEF Stage
  <2>3. [d \in Callers |-> Stage(d)'] = [d \in Callers |-> Stage(d)]
    BY <2>2
  <2>4. QED
    BY <2>1, <2>3 DEF Promise!vars
<1>7. CASE Begin(c)
  <2>1. pc[c] = "enter" /\ response[c] = NoResponse /\ response' = response
    BY <1>7 DEF Begin, Alone
  <2>2. Stage(c) = "calling"
    BY <2>1 DEF Stage
  <2>3. CASE Send(c)
    <3>1. pc'[c] = "wait" /\ result' = result
      BY <1>1, <2>3 DEF Send, TypeOK
    <3>2. Stage(c)' = Stage(c)
      BY <2>1, <2>2, <3>1 DEF Stage
    <3>3. \A d \in Callers : Stage(d)' = Stage(d)
      BY <1>3, <2>1, <3>2 DEF Stage
    <3>4. [d \in Callers |-> Stage(d)'] = [d \in Callers |-> Stage(d)]
      BY <3>3
    <3>5. QED
      BY <3>1, <3>4 DEF Promise!vars
  <2>4. CASE FailToSend(c)
    <3>1. pc'[c] = "idle" /\ result' = [result EXCEPT ![c] = "ERROR"]
      BY <1>1, <2>4 DEF FailToSend, TypeOK
    <3>2. Stage(c)' = "idle"
      BY <3>1 DEF Stage
    <3>3. Promise!Return(c)
      BY <1>3, <2>1, <2>2, <3>1, <3>2, OnlyStage DEF Promise!Return
    <3>4. QED
      BY <3>3 DEF Promise!Next
  <2>5. QED
    BY <1>7, <2>3, <2>4 DEF Begin
<1>8. CASE Wake(c) \/ Timeout(c)
  <2>1. pc[c] = "wait" /\ pc'[c] = "idle" /\ EndedBy(c)
    BY <1>1, <1>8 DEF Wake, Timeout, TypeOK, Alone
  <2>2. Stage(c) # "idle" /\ Stage(c)' = "idle"
    BY <2>1 DEF Stage
  <2>3. \/ Stage(c) = "answered" /\ result' = [result EXCEPT ![c] = "OK"]
        \/ Stage(c) = "calling" /\ result' = [result EXCEPT ![c] = "TIMEOUT"]
        \/ result' = [result EXCEPT ![c] = "ERROR"]
    <3>1. CASE Timeout(c)
      <4>1. response[c] = NoResponse /\ result' = [result EXCEPT ![c] = "TIMEOUT"]
        BY <2>1, <3>1 DEF EndedBy, Timeout
      <4>2. Stage(c) = "calling"
        BY <2>1, <4>1 DEF Stage
      <4>3. QED
        BY <4>1, <4>2
    <3>2. CASE Wake(c) /\ rpc_response_status = 0 /\ rpc_received_size # TooLarge
      <4>1. response[c].status = 0 /\ response[c].from # 0 /\ response[c].size = Fits
        BY <2>1, <3>2 DEF EndedBy, Wake, Disconnected
      <4>2. response[c] \in [from : 0..calls, status : Status, size : Size]
        BY <1>1 DEF TypeOK
      <4>3. response[c].from = call[c]
        BY <4>1 DEF IInv, OwnResponse
      <4>4. response[c] = [from |-> call[c], status |-> 0, size |-> Fits]
        BY <4>1, <4>2, <4>3
      <4>5. response[c] # NoResponse
        BY <4>1 DEF NoResponse
      <4>6. Stage(c) = "answered"
        BY <2>1, <4>4, <4>5 DEF Stage
      <4>7. QED
        BY <3>2, <4>6 DEF Wake
    <3>3. CASE Wake(c) /\ ~(rpc_response_status = 0 /\ rpc_received_size # TooLarge)
      BY <3>3 DEF Wake
    <3>4. QED
      BY <1>8, <3>1, <3>2, <3>3
  <2>4. Promise!Return(c)
    BY <1>3, <2>1, <2>2, <2>3, OnlyStage DEF Promise!Return
  <2>5. QED
    BY <2>4 DEF Promise!Next
<1>9. QED
  BY <1>4, <1>5, <1>6, <1>7, <1>8 DEF Advance

LEMMA CallbackPromised ==
  ASSUME IInv, Alone, Response \/ (AbortCall /\ rpc_call_active)
  PROVE  [Promise!Next]_(Promise!vars)
<1>1. PICK from \in 0..calls, status \in Status, size \in Size :
        /\ EndCall(from, status, size) /\ rpc_call_active
        /\ UNCHANGED <<pc, calls, sent, call, result>>
        /\ IF from = 0 THEN status = Disconnected ELSE size \in {Fits, TooLarge}
  BY CallbackEnds
<1>2. PICK c \in Callers : /\ pc[c] = "wait" /\ response[c] = NoResponse
                           /\ response'[c] = [from |-> from, status |-> status, size |-> size]
  BY <1>1, EndsTheOnlyCall
<1>3. \A d \in Callers \ {c} : pc[d] = "idle" /\ pc'[d] = "idle"
  BY <1>1, <1>2 DEF Alone
<1>4. Stage(c) = "calling"
  BY <1>2 DEF Stage
<1>5. response'[c] # NoResponse
  <2>1. response'[c].from # 0 \/ response'[c].status = Disconnected
    BY <1>1, <1>2
  <2>2. QED
    BY <2>1 DEF NoResponse, Disconnected
<1>6. PICK s \in {"answered", "failed"} : Stage(c)' = s
  <2>1. Stage(c)' = IF response'[c] = [from |-> call'[c], status |-> 0, size |-> Fits]
                      THEN "answered" ELSE "failed"
    BY <1>1, <1>2, <1>5 DEF Stage
  <2>2. QED
    BY <2>1
<1>7. Promise!Answer(c)
  BY <1>1, <1>3, <1>4, <1>6, OnlyStage DEF Promise!Answer
<1>8. QED
  BY <1>7 DEF Promise!Next

LEMMA AlonePromised ==
  ASSUME IInv, Alone, [Next]_vars, Alone'
  PROVE  [Promise!Next]_(Promise!vars)
<1>1. CASE (AbortCall /\ ~rpc_call_active) \/ OnServiceDiscovered \/ LoseService \/ UNCHANGED vars
  <2>1. UNCHANGED <<pc, call, response, result>>
    BY <1>1 DEF AbortCall, OnServiceDiscovered, LoseService, vars
  <2>2. \A d \in Callers : Stage(d)' = Stage(d)
    BY <2>1 DEF Stage
  <2>3. [d \in Callers |-> Stage(d)'] = [d \in Callers |-> Stage(d)]
    BY <2>2
  <2>4. QED
    BY <2>1, <2>3 DEF Promise!vars
<1>2. QED
  BY <1>1, CallerPromised, CallbackPromised DEF Next

(***************************************************************************)
(* SendRpc keeps the promise of RpcPromise for a call that overlaps with   *)
(* no other, whatever transactions, discoveries, losses and late responses *)
(* come between its sections: it returns RPC_OK only with its own response *)
(* (ServiceInterfaceBase.hpp:48), and RPC_TIMEOUT only without any.        *)
(***************************************************************************)
THEOREM PromiseWhileAloneHolds == TracedSpec => PromiseWhileAlone
<1>1. TracedSpec => InterfaceSpec
  <2>1. MCInit => InterfaceInit
    BY DEF MCInit
  <2>2. [TracedNext]_<<interface_vars, overlapped>> => [InterfaceNext]_interface_vars
    BY DEF TracedNext
  <2>3. QED
    BY <2>1, <2>2, PTL DEF TracedSpec, InterfaceSpec
<1>2. MCInit => AloneInv /\ Promise!Init
  <2> SUFFICES ASSUME MCInit PROVE AloneInv /\ Promise!Init
    OBVIOUS
  <2>1. \A c \in Callers : pc[c] = "idle" /\ Stage(c) = "idle" /\ result = [d \in Callers |-> "none"]
    BY DEF MCInit, InterfaceInit, Init, Stage
  <2>2. result = [d \in Callers |-> "none"]
    BY DEF MCInit, InterfaceInit, Init
  <2>3. QED
    BY <2>1, <2>2 DEF AloneInv, Alone, Promise!Init
<1>3. IInv /\ AloneInv /\ [TracedNext]_<<interface_vars, overlapped>> => AloneInv'
  <2> SUFFICES ASSUME IInv, AloneInv, [TracedNext]_<<interface_vars, overlapped>>, ~overlapped'
               PROVE  Alone'
    BY DEF AloneInv
  <2>1. [Next]_vars
    BY StepIsCall DEF TracedNext
  <2>2. CASE UNCHANGED <<interface_vars, overlapped>>
    <3>1. UNCHANGED <<pc, slot, response>> /\ Alone
      BY <2>2 DEF interface_vars, vars, AloneInv
    <3>2. QED
      BY <3>1 DEF Alone, EndedBy, slot
  <2>3. CASE Active' = {}
    <3>1. \A c \in Callers : pc'[c] = "idle"
      BY <2>3 DEF Active
    <3>2. QED
      BY <3>1 DEF Alone
  <2>4. CASE TracedNext /\ Active' # {}
    <3>1. ~overlapped /\ ~(Cardinality(Active') > 1)
      BY <2>4 DEF TracedNext
    <3>2. AtMostOneActive'
      BY AtMostOne, PTL
    <3>3. \A c, d \in Active' : c = d
      BY <3>1, <3>2 DEF AtMostOneActive
    <3>4. \A c, d \in Callers : pc'[c] # "idle" /\ pc'[d] # "idle" => c = d
      BY <3>3 DEF Active
    <3>5. QED
      BY <2>1, <3>1, <3>4, AloneStep DEF AloneInv
  <2>5. QED
    BY <2>2, <2>3, <2>4
<1>4. IInv /\ AloneInv /\ AloneInv' /\ [TracedNext]_<<interface_vars, overlapped>> =>
        [overlapped \/ overlapped' \/ Promise!Next]_(Promise!vars)
  <2> SUFFICES ASSUME IInv, AloneInv, AloneInv', [TracedNext]_<<interface_vars, overlapped>>,
                      ~overlapped, ~overlapped'
               PROVE  [Promise!Next]_(Promise!vars)
    OBVIOUS
  <2>1. [Next]_vars
    BY StepIsCall DEF TracedNext, interface_vars
  <2>2. Alone /\ Alone'
    BY DEF AloneInv
  <2>3. QED
    BY <2>1, <2>2, AlonePromised
<1>5. QED
  BY <1>1, <1>2, <1>3, <1>4, CallsImplemented, Invariance, PTL
  DEF TracedSpec, PromiseWhileAlone
=============================================================================
