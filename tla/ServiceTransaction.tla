------------------------- MODULE ServiceTransaction -------------------------
(***************************************************************************)
(* Data a service sends: single values, and transactions that are built up *)
(* in scratch_buffer_ (Service.cpp: SendData, StartTransaction,            *)
(* CommitTransaction).  A transaction holds the recursive state_mutex_     *)
(* from its start to its commit, across user code; but the flag that says  *)
(* there is one is read without it, and SendData appends without it.       *)
(*                                                                         *)
(* The same mutex guards header_, from which every packet is copied, and   *)
(* the Io thread takes it to deliver a packet to the service: this module  *)
(* extends PacketPath, whose Io thread an open transaction holds up.       *)
(***************************************************************************)
EXTENDS PacketPath, Framing

CONSTANTS
  Node,              \* the service whose sending side is modelled
  Processing,        \* its processing thread
  Workers,           \* the other threads that send data for it
  nobody,            \* no thread
  Outputs,           \* the schema the host has of its outputs
  Items,             \* what the threads send
  scratch_size,      \* cells of scratch_buffer_
  MaxTransactions    \* bound: transactions started

Threads == Workers \cup {Processing}

ASSUME ServiceTransactionAssumption ==
  /\ Node \in Services
  /\ Processing \notin Workers /\ nobody \notin Threads
  /\ Items \subseteq Sendable
  /\ scratch_size \in Nat /\ MaxTransactions \in Nat

VARIABLES
  for_node,                \* the Io thread's packet is for this service
  owner, depth,            \* state_mutex_: who holds it, how many times
  transaction_started_,
  header_,                 \* what of the header outlives fillHeader()
  scratch_buffer_,
  scratch_buffer_fill_,
  claimed,                 \* IsClaimed()
  appending,               \* the item a thread is copying, and where to
  out,                     \* the packet with data this step has sent, if any
  starts,                  \* ghost: transactions started
  accepted,                \* ghost: what SendData took in this transaction
  disturbed                \* ghost: somebody else wrote meanwhile

mutex == <<owner, depth, transaction_started_>>
buffer == <<header_, scratch_buffer_, scratch_buffer_fill_>>
ghosts == <<starts, accepted, disturbed>>
sending == <<mutex, buffer, claimed, appending, ghosts>>
node_vars == <<vars, for_node, sending, out>>

NoItem == <<>>
Nothing == [type |-> "none"]

\* The user gives a transaction its time stamp; everything else is sent "now".
\* arg1 is 1 in the acknowledgement of a claim and the response to a failed call.
Header(arg1, timestamp) == [arg1 |-> arg1, timestamp |-> timestamp]

\* The buffer outside a transaction, whatever it holds.
Old == [i \in 1..scratch_size |-> Byte(0)]

NodeInit ==
  /\ Init
  /\ for_node = FALSE
  /\ owner = nobody /\ depth = 0
  /\ transaction_started_ = FALSE
  /\ header_ = Header(0, "now")
  /\ scratch_buffer_ = Old /\ scratch_buffer_fill_ = 0
  /\ claimed = FALSE
  /\ appending = [t \in Threads |-> NoItem]
  /\ out = Nothing
  /\ starts = 0 /\ accepted = <<>> /\ disturbed = FALSE

CanLock(t) == owner \in {t, nobody}

Idle(t) == appending[t] = NoItem

\* Somebody else is between the two halves of an append.
OthersAppend(t) == \E u \in Threads \ {t} : ~Idle(u)

----------------------------------------------------------------------------
(* The transaction.                                                        *)

\* With the flag set StartTransaction returns FALSE and changes nothing.  A
\* thread that found it clear finds it so when it gets the mutex.
StartTransaction(t) ==
  /\ Idle(t) /\ starts < MaxTransactions
  /\ CanLock(t)
  /\ ~transaction_started_
  /\ owner' = t /\ depth' = depth + 1
  /\ transaction_started_' = TRUE
  /\ header_' = Header(0, "given")
  /\ scratch_buffer_fill_' = 0
  /\ starts' = starts + 1
  /\ accepted' = <<>>
  /\ disturbed' = OthersAppend(t)
  /\ out' = Nothing
  /\ UNCHANGED <<scratch_buffer_, claimed, appending>>

HasRoom(item) == scratch_buffer_fill_ + Len(Framed(item)) <= scratch_size

\* SendData finds the flag set, by whichever thread, and room in the buffer.
BeginAppend(t, item) ==
  /\ Idle(t)
  /\ transaction_started_
  /\ HasRoom(item)
  /\ appending' = [appending EXCEPT ![t] = <<item, scratch_buffer_fill_>>]
  /\ disturbed' = (disturbed \/ OthersAppend(t))
  /\ out' = Nothing
  /\ UNCHANGED <<mutex, buffer, claimed, starts, accepted>>

\* The buffer with cells copied to it behind an offset.
Copied(offset, cells) ==
  [i \in 1..scratch_size |->
    IF i - offset \in DOMAIN cells THEN cells[i - offset] ELSE scratch_buffer_[i]]

EndAppend(t) ==
  /\ ~Idle(t)
  /\ LET item == appending[t][1] IN
       /\ scratch_buffer_' = Copied(appending[t][2], Framed(item))
       /\ scratch_buffer_fill_' = scratch_buffer_fill_ + Len(Framed(item))
       /\ accepted' = Append(accepted, item)
  /\ appending' = [appending EXCEPT ![t] = NoItem]
  /\ out' = Nothing
  /\ UNCHANGED <<mutex, header_, claimed, starts, disturbed>>

\* Faulty variant: forgets the lock of StartTransaction.
UnlockOnce == UNCHANGED depth

\* CommitTransaction unlocks for itself and, if there is one, for the start.
Unlock == depth' = IF transaction_started_ THEN depth - 1 ELSE depth

\* Appends that ran into each other may have moved scratch_buffer_fill_ beyond
\* the end of the buffer; packetAppendData() adds nothing that does not fit.
Payload ==
  IF scratch_buffer_fill_ > scratch_size THEN <<>>
  ELSE SubSeq(scratch_buffer_, 1, scratch_buffer_fill_)

\* Without a transaction it sends again what the buffer still holds.
CommitTransaction(t) ==
  /\ Idle(t)
  /\ CanLock(t)
  /\ Unlock
  /\ owner' = IF depth' = 0 THEN nobody ELSE owner
  /\ transaction_started_' = FALSE
  /\ out' = IF ~claimed THEN Nothing
            ELSE [type |-> "TRANSACTION", header |-> header_, payload |-> Payload,
                  accepted |-> accepted,
                  whole |-> transaction_started_ /\ ~disturbed /\ ~OthersAppend(t)]
  /\ accepted' = <<>> /\ disturbed' = FALSE
  /\ scratch_buffer_' = Old
  /\ UNCHANGED <<header_, scratch_buffer_fill_, claimed, appending, starts>>

----------------------------------------------------------------------------
(* What else a service sends.                                              *)

\* The sections that copy header_ into a packet: of a heartbeat, the requests
\* and acknowledgements, a response.  The owner of a transaction may get here.
FillHeader(t) ==
  /\ Idle(t)
  /\ CanLock(t)
  /\ header_' = Header(1, "now")
  /\ disturbed' = (disturbed \/ transaction_started_)
  /\ out' = Nothing
  /\ UNCHANGED <<mutex, scratch_buffer_, scratch_buffer_fill_, claimed, appending,
                 starts, accepted>>

\* SendData outside a transaction, to the end of its section.
SendValue(t, item) ==
  /\ Idle(t)
  /\ ~transaction_started_ /\ claimed
  /\ CanLock(t)
  /\ header_' = Header(0, "now")
  /\ out' = [type |-> "DATA", item |-> item]
  /\ UNCHANGED <<mutex, scratch_buffer_, scratch_buffer_fill_, claimed, appending, ghosts>>

\* Faulty variant: the advertisement is built without the mutex.
MayAdvertiseAnytime == TRUE

MayAdvertise == CanLock(Processing)

\* AdvertiseServiceImpl builds the description in the same buffer.
AdvertiseService ==
  /\ Idle(Processing)
  /\ MayAdvertise
  /\ scratch_buffer_' = Old
  /\ disturbed' = (disturbed \/ owner = Processing)
  /\ out' = Nothing
  /\ UNCHANGED <<mutex, header_, scratch_buffer_fill_, claimed, appending,
                 starts, accepted>>

\* HandleClaimMessage sets the target without the mutex.
SetTarget ==
  /\ Idle(Processing) /\ ~claimed
  /\ claimed' = TRUE
  /\ out' = Nothing
  /\ UNCHANGED <<mutex, buffer, appending, ghosts>>

----------------------------------------------------------------------------
(* The packet path: the Io thread needs the mutex to deliver to this       *)
(* service, whose processing thread takes it once per loop and has no      *)
(* transaction open when it gets there.                                    *)

Receive == \E p \in Packets : receivePacket(p) /\ for_node' \in BOOLEAN

NodeIoStep ==
  /\ \/ Deliver(Node) /\ for_node /\ owner = nobody
     \/ \E s \in Services \ {Node} : Deliver(s) /\ ~for_node
     \/ FindNobody /\ (for_node => Node \notin services)
     \/ Discard \/ FreeUndelivered
  /\ for_node' = FALSE

NodeProcessingStep(s) ==
  /\ s = Node => Idle(Processing) /\ owner = nobody
  /\ ProcessingStep(s)
  /\ UNCHANGED for_node

PathNext ==
  \/ \E s \in Services : NodeProcessingStep(s)
  \/ NodeIoStep \/ Receive
  \/ \E s \in Services : registerServiceIo(s) /\ UNCHANGED for_node

SendingNext ==
  \/ \E t \in Threads :
       \/ StartTransaction(t) \/ EndAppend(t) \/ CommitTransaction(t)
       \/ FillHeader(t)
       \/ \E item \in Items : BeginAppend(t, item) \/ SendValue(t, item)
  \/ AdvertiseService \/ SetTarget

NodeNext ==
  \/ PathNext /\ out' = Nothing /\ UNCHANGED sending
  \/ SendingNext /\ UNCHANGED <<vars, for_node>>

NodeSpec == NodeInit /\ [][NodeNext]_node_vars

\* As in PacketPath; and who started a transaction commits it some day.
NodeFairness ==
  /\ WF_node_vars(NodeIoStep /\ out' = Nothing /\ UNCHANGED sending)
  /\ \A s \in Services : SF_node_vars(NodeProcessingStep(s) /\ out' = Nothing /\ UNCHANGED sending)
  /\ \A t \in Threads :
       /\ WF_node_vars(EndAppend(t) /\ UNCHANGED <<vars, for_node>>)
       /\ WF_node_vars(owner = t /\ CommitTransaction(t) /\ UNCHANGED <<vars, for_node>>)

NodeFairSpec == NodeSpec /\ NodeFairness

----------------------------------------------------------------------------
(***************************************************************************)
(* state_mutex_ is held exactly as long as a transaction is open, once:    *)
(* a start that is refused, a commit without a start and appends from      *)
(* other threads neither leave it locked nor unlock it too early.          *)
(***************************************************************************)
HeldWhileOpen ==
  /\ transaction_started_ <=> owner # nobody
  /\ depth = IF transaction_started_ THEN 1 ELSE 0

(***************************************************************************)
(* A transaction reaches the callbacks of the host as SendData accepted    *)
(* it: every item the host has an output for, in order, with the time      *)
(* stamp of the transaction - whatever advertisements, single values,      *)
(* stale commits and disturbed transactions the same buffer held before.   *)
(* Appends that overlap, and a response sent inside the transaction, are   *)
(* the exceptions; none outlives the next StartTransaction.                *)
(***************************************************************************)
TransactionArrives ==
  out.type = "TRANSACTION" /\ out.whole =>
    /\ out.header = Header(0, "given")
    /\ HandleDataTransaction(Outputs, out.payload)
         = SelectSeq(out.accepted, LAMBDA item : Accepted(Outputs, item))
=============================================================================
