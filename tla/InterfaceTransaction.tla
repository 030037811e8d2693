------------------------ MODULE InterfaceTransaction ------------------------
(***************************************************************************)
(* What a C++ interface sends (ServiceInterfaceBase.cpp): transactions,    *)
(* single values and calls, which all build their packet in buffer_ under  *)
(* the recursive state_mutex_.  A transaction keeps the mutex from its     *)
(* start to its commit; a call takes it while it holds rpc_mutex_; and the *)
(* IO thread, which has to deliver the responses, runs transactions of its *)
(* own when the service asks for its configuration.                        *)
(*                                                                         *)
(* This module extends RpcClient with the two mutexes and the buffer.  A   *)
(* thread makes no call inside its own transaction.                        *)
(***************************************************************************)
EXTENDS RpcClient, Framing

CONSTANTS
  Io,                \* the thread of ServiceIO
  nobody,            \* no thread
  Parameters,        \* the schema of a function's parameters
  Items,             \* the values that are sent
  Arguments,         \* the parameter lists of calls
  MaxTransactions    \* bound: transactions started

Threads == Callers \cup {Io}

ASSUME InterfaceTransactionAssumption ==
  /\ Io \notin Callers /\ nobody \notin Threads
  /\ Items \subseteq Sendable
  /\ Arguments \subseteq Seq(Sendable)
  /\ \A arguments \in Arguments : EveryParameter(Parameters, arguments)
  /\ MaxTransactions \in Nat

VARIABLES
  rpc_mutex_,                \* who holds it while it waits for state_mutex_
  params,                    \* ... and the arguments it wants to send
  state_mutex_,              \* who holds it from one step to the next
  transaction_started_,
  is_configuration_transaction_,
  buffer_,                   \* the payload behind the header
  io,                        \* the IO thread: "run", or in a callback
  out,                       \* the packet this step has sent, if any
  starts,                    \* ghost: transactions started
  added,                     \* ghost: what SendData was given since the start
  refused                    \* ghost: whether it refused some of it

transaction == <<transaction_started_, is_configuration_transaction_, buffer_>>
ghosts == <<starts, added, refused>>
call_vars == <<rpc_mutex_, params>>
sending == <<state_mutex_, transaction, io, ghosts>>
interface_vars == <<vars, call_vars, sending, out>>

Nothing == [type |-> "none"]

InterfaceInit ==
  /\ Init
  /\ rpc_mutex_ = nobody /\ params = <<>>
  /\ state_mutex_ = nobody
  /\ transaction_started_ = FALSE
  /\ is_configuration_transaction_ = FALSE
  /\ buffer_ = <<>>
  /\ io = "run"
  /\ out = Nothing
  /\ starts = 0 /\ added = <<>> /\ refused = FALSE

\* A thread that may run code of the user's.
InUserCode(t) == IF t = Io THEN io = "configure" ELSE pc[t] = "idle"

CanLock(t) == state_mutex_ \in {t, nobody}

----------------------------------------------------------------------------
(* Transactions.                                                           *)

\* Refused, without effect, to the thread that has one open already.
StartTransaction(t, is_configuration) ==
  /\ InUserCode(t) /\ (t = Io \/ starts < MaxTransactions)
  /\ CanLock(t)
  /\ ~transaction_started_
  /\ state_mutex_' = t
  /\ transaction_started_' = TRUE
  /\ is_configuration_transaction_' = is_configuration
  /\ buffer_' = <<>>
  /\ starts' = IF t = Io THEN starts ELSE starts + 1
  /\ added' = <<>> /\ refused' = FALSE
  /\ out' = Nothing
  /\ UNCHANGED io

\* Faulty variant: data and configuration share a transaction.
AnyKind(is_configuration) == TRUE

SameKind(is_configuration) == is_configuration = is_configuration_transaction_

\* SendData in a transaction: while it is open nobody else has the mutex, so
\* that service_discovered_, though read without it, cannot change.
AddData(t, item, is_configuration) ==
  /\ InUserCode(t)
  /\ transaction_started_ /\ state_mutex_ = t
  /\ Len(added) < 2
  /\ SameKind(is_configuration)
  /\ added' = Append(added, <<item, is_configuration>>)
  /\ IF service_discovered
       THEN buffer_' = buffer_ \o Framed(item) /\ UNCHANGED refused
       ELSE refused' = TRUE /\ UNCHANGED buffer_
  /\ out' = Nothing
  /\ UNCHANGED <<state_mutex_, transaction_started_, is_configuration_transaction_, io, starts>>

\* Faulty variant: keeps the lock of StartTransaction when it gives up early.
UnlockIfSent == IF service_discovered THEN nobody ELSE state_mutex_

\* The lock of StartTransaction goes first, then that of CommitTransaction.
Unlocked == nobody

\* FALSE, without effect, unless this thread has a transaction open.
CommitTransaction(t) ==
  /\ InUserCode(t)
  /\ transaction_started_ /\ state_mutex_ = t
  /\ transaction_started_' = FALSE
  /\ state_mutex_' = Unlocked
  /\ out' = IF ~service_discovered THEN Nothing
            ELSE [type |-> "TRANSACTION", payload |-> buffer_,
                  is_configuration |-> is_configuration_transaction_,
                  added |-> added, refused |-> refused]
  /\ added' = <<>> /\ refused' = FALSE
  /\ io' = IF t = Io THEN "run" ELSE io
  /\ UNCHANGED <<is_configuration_transaction_, buffer_, starts>>

\* Faulty variant: takes the buffer without the mutex.
SendsAnytime(t) == TRUE

SendsAlone(t) == CanLock(t) /\ ~transaction_started_

\* SendData outside a transaction: its packet is in the buffer, and sent.
SendValue(t, item) ==
  /\ InUserCode(t) /\ service_discovered
  /\ SendsAlone(t)
  /\ buffer_' = item.data
  /\ out' = [type |-> "DATA", item |-> Item(item.id, buffer_')]
  /\ UNCHANGED <<state_mutex_, transaction_started_, is_configuration_transaction_, io, ghosts>>

\* RunIo hands a CONFIGURATION_REQUEST to OnConfigurationRequested, which
\* answers with one transaction, counted here.
RequestConfiguration ==
  /\ io = "run" /\ starts < MaxTransactions
  /\ io' = "configure"
  /\ starts' = starts + 1
  /\ out' = Nothing
  /\ UNCHANGED <<state_mutex_, transaction, added, refused>>

SendingNext ==
  \/ \E t \in Threads :
       \/ CommitTransaction(t)
       \/ \E is_configuration \in BOOLEAN :
            \/ StartTransaction(t, is_configuration)
            \/ \E item \in Items : AddData(t, item, is_configuration)
       \/ \E item \in Items : SendValue(t, item)
  \/ RequestConfiguration

----------------------------------------------------------------------------
(* Calls.                                                                  *)

\* SendRpc has rpc_mutex_ and a free slot.
LockRpc(c, arguments) ==
  /\ pc[c] = "enter" /\ c \notin asleep
  /\ ~rpc_call_active
  /\ rpc_mutex_ = nobody
  /\ rpc_mutex_' = c
  /\ params' = arguments
  /\ out' = Nothing
  /\ UNCHANGED <<vars, sending>>

\* The generated Call method has framed the parameters; they are copied.
BuildCall(c) ==
  /\ rpc_mutex_ = c /\ state_mutex_ # c
  /\ SendsAlone(c)
  /\ state_mutex_' = c
  /\ buffer_' = FramedAll(params)
  /\ out' = Nothing
  /\ UNCHANGED <<vars, call_vars, transaction_started_, is_configuration_transaction_, io,
                 ghosts>>

\* The end of the section under state_mutex_, and what follows it under
\* rpc_mutex_, is Begin.
SendCall(c) ==
  /\ rpc_mutex_ = c /\ state_mutex_ = c
  /\ Begin(c)
  /\ out' = [type |-> "RPC_CALL", payload |-> buffer_, arguments |-> params]
  /\ rpc_mutex_' = nobody /\ params' = <<>>
  /\ state_mutex_' = nobody
  /\ UNCHANGED <<transaction, io, ghosts>>

CallStep(c) ==
  (\E arguments \in Arguments : LockRpc(c, arguments)) \/ BuildCall(c) \/ SendCall(c)

Proceed(c) == Sleep(c) \/ Wake(c) \/ Timeout(c)

FlagLocked == state_mutex_ = nobody

\* Everything else RpcClient does, with the mutex it takes.
CallNext ==
  /\ \/ \E c \in Callers : state_mutex_ # c /\ (Call(c) \/ Refuse(c))
     \/ rpc_mutex_ = nobody /\ \E c \in Callers : Proceed(c)
     \/ rpc_mutex_ = nobody /\ io = "run" /\ Response
     \/ rpc_mutex_ = nobody /\ AbortCall
     \/ FlagLocked /\ (OnServiceDiscovered \/ LoseService)
  /\ out' = Nothing
  /\ UNCHANGED <<call_vars, sending>>

InterfaceNext ==
  \/ SendingNext /\ UNCHANGED <<vars, call_vars>>
  \/ \E c \in Callers : CallStep(c)
  \/ CallNext

InterfaceSpec == InterfaceInit /\ [][InterfaceNext]_interface_vars

\* Threads are scheduled, and who started a transaction commits it.
InterfaceFairness ==
  /\ \A c \in Callers :
       WF_interface_vars(CallStep(c) \/ (Proceed(c) /\ CallNext))
  /\ WF_interface_vars((\E k \in BOOLEAN : StartTransaction(Io, k)) /\ UNCHANGED <<vars, call_vars>>)
  /\ \A t \in Threads :
       WF_interface_vars(CommitTransaction(t) /\ UNCHANGED <<vars, call_vars>>)

InterfaceFairSpec == InterfaceSpec /\ InterfaceFairness

----------------------------------------------------------------------------
(***************************************************************************)
(* A transaction is sent whole or not at all: the payload is what its      *)
(* thread added since it started it, all of one kind, and nothing was      *)
(* refused on the way because the service was just lost or found.  So a    *)
(* configuration cannot reach the service without some of its registers,   *)
(* although OnConfigurationRequested ignores what SendData returns         *)
(* (EchoServiceInterface.cpp:16-22).                                       *)
(***************************************************************************)
WholeOrNothing ==
  out.type = "TRANSACTION" =>
    /\ ~out.refused
    /\ \A i \in DOMAIN out.added : out.added[i][2] = out.is_configuration
    /\ Parse(out.payload) = [items |-> [i \in DOMAIN out.added |-> out.added[i][1]],
                             processed_len |-> Len(out.payload)]

ArgumentFits(item) == ParameterFits(Parameters[item.id], Len(item.data))

(***************************************************************************)
(* The function of the service is called with the arguments of the caller, *)
(* or the call fails when one of them does not fit its parameter - never   *)
(* with what another thread put into the shared buffer.                    *)
(***************************************************************************)
CallArrives ==
  out.type = "RPC_CALL" =>
    dispatchRpcCall(Parameters, out.payload) =
      IF \A i \in DOMAIN out.arguments : ArgumentFits(out.arguments[i])
        THEN Called([id \in DOMAIN Parameters |->
                       (CHOOSE item \in ToSet(out.arguments) : item.id = id).data])
        ELSE Error

(***************************************************************************)
(* No deadlock between rpc_mutex_ and state_mutex_: the IO thread, which   *)
(* keeps ServiceIO's lock all the while, gets through a configuration      *)
(* request, whatever calls and transactions are open when it comes.        *)
(***************************************************************************)
ConfigurationDone == io = "configure" ~> io = "run"
=============================================================================
