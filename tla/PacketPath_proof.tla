-------------------------- MODULE PacketPath_proof --------------------------
(***************************************************************************)
(* Proofs about PacketPath: every packet has one owner, for any number of  *)
(* packets and services and every length of the queues; and about the      *)
(* sending side that ServiceTransaction adds to it, for any threads,       *)
(* items, buffer size and number of transactions: the mutex is held        *)
(* exactly while a transaction is open, a transaction arrives as it was    *)
(* accepted, and a sending side that holds up the Io thread does nothing   *)
(* to packets that module PacketPath does not allow.                       *)
(***************************************************************************)
EXTENDS ServiceTransaction, Lemmas_proof

\* What a queue holds after a push of a packet it did not hold ...
LEMMA Pushed ==
  ASSUME NEW q \in Seq(Packets), NEW p \in Packets,
         IsInjective(q), p \notin ToSet(q)
  PROVE  /\ ToSet(Append(q, p)) = ToSet(q) \cup {p}
         /\ IsInjective(Append(q, p))
<1> DEFINE r == Append(q, p)
<1>1. /\ r \in Seq(Packets)
      /\ DOMAIN r = 1..(Len(q) + 1) /\ DOMAIN q = 1..Len(q)
      /\ \A i \in 1..Len(q) : r[i] = q[i]
      /\ r[Len(q) + 1] = p
      /\ Len(q) \in Nat
  BY AppendProperties, LenProperties
<1> HIDE DEF r
<1>2. ToSet(r) = ToSet(q) \cup {p}
  <2>1. ASSUME NEW x \in ToSet(r) PROVE x \in ToSet(q) \cup {p}
    <3>1. PICK i \in 1..(Len(q) + 1) : x = r[i]
      BY <1>1, <2>1 DEF ToSet
    <3>2. CASE i = Len(q) + 1
      BY <1>1, <3>1, <3>2
    <3>3. CASE i \in 1..Len(q)
      BY <1>1, <3>1, <3>3 DEF ToSet
    <3>4. QED
      BY <1>1, <3>2, <3>3
  <2>2. ASSUME NEW x \in ToSet(q) PROVE x \in ToSet(r)
    <3>1. PICK i \in 1..Len(q) : x = q[i]
      BY <1>1, <2>2 DEF ToSet
    <3>2. i \in DOMAIN r /\ r[i] = x
      BY <1>1, <3>1
    <3>3. QED
      BY <3>2 DEF ToSet
  <2>3. p \in ToSet(r)
    <3>1. Len(q) + 1 \in DOMAIN r
      BY <1>1
    <3>2. QED
      BY <1>1, <3>1 DEF ToSet
  <2>4. QED
    BY <2>1, <2>2, <2>3
<1>3. IsInjective(r)
  <2>1. SUFFICES ASSUME NEW i \in DOMAIN r, NEW j \in DOMAIN r, r[i] = r[j]
                 PROVE  i = j
    BY DEF IsInjective
  <2>2. \A k \in 1..Len(q) : q[k] # p
    BY <1>1 DEF ToSet
  <2>3. CASE i \in 1..Len(q) /\ j \in 1..Len(q)
    BY <1>1, <2>1, <2>3 DEF IsInjective
  <2>4. QED
    BY <1>1, <2>1, <2>2, <2>3
<1>4. QED
  BY <1>2, <1>3 DEF r

\* ... and what a pop leaves.
LEMMA Popped ==
  ASSUME NEW q \in Seq(Packets), q # <<>>, IsInjective(q)
  PROVE  /\ ToSet(q) = ToSet(Tail(q)) \cup {Head(q)}
         /\ Head(q) \notin ToSet(Tail(q)) /\ Head(q) \in Packets
         /\ IsInjective(Tail(q))
<1> DEFINE r == Tail(q)
<1>1. /\ r \in Seq(Packets) /\ Len(q) \in Nat /\ Len(q) >= 1
      /\ DOMAIN q = 1..Len(q) /\ DOMAIN r = 1..(Len(q) - 1)
      /\ \A i \in 1..(Len(q) - 1) : r[i] = q[i + 1]
      /\ Head(q) = q[1] /\ Head(q) \in Packets
  BY HeadTailProperties, LenProperties, EmptySeq
<1> HIDE DEF r
<1>2. ASSUME NEW x \in ToSet(q), x # q[1] PROVE x \in ToSet(r)
  <2>1. PICK i \in 1..Len(q) : x = q[i]
    BY <1>1, <1>2 DEF ToSet
  <2>2. i - 1 \in DOMAIN r /\ r[i - 1] = x
    BY <1>1, <1>2, <2>1
  <2>3. QED
    BY <2>2 DEF ToSet
<1>3. ASSUME NEW x \in ToSet(r) PROVE x \in ToSet(q) /\ x # q[1]
  <2>1. PICK i \in 1..(Len(q) - 1) : x = q[i + 1]
    BY <1>1, <1>3 DEF ToSet
  <2>2. i + 1 \in DOMAIN q /\ 1 \in DOMAIN q /\ i + 1 # 1
    BY <1>1
  <2>3. QED
    BY <2>1, <2>2 DEF ToSet, IsInjective
<1>4. q[1] \in ToSet(q)
  <2>1. 1 \in DOMAIN q
    BY <1>1
  <2>2. QED
    BY <2>1 DEF ToSet
<1>5. IsInjective(r)
  <2>1. SUFFICES ASSUME NEW i \in DOMAIN r, NEW j \in DOMAIN r, r[i] = r[j]
                 PROVE  i = j
    BY DEF IsInjective
  <2>2. i + 1 \in DOMAIN q /\ j + 1 \in DOMAIN q /\ q[i + 1] = q[j + 1]
    BY <1>1, <2>1
  <2>3. i + 1 = j + 1
    BY <2>2 DEF IsInjective
  <2>4. QED
    BY <1>1, <2>3
<1>6. QED
  BY <1>1, <1>2, <1>3, <1>4, <1>5 DEF r

LEMMA InitType == Init => TypeOK
<1> SUFFICES ASSUME Init PROVE TypeOK
  OBVIOUS
<1>1. <<>> \in Seq(Packets) /\ Len(<<>>) = 0 /\ packet_queue_length \in Nat
  BY EmptySeq, PacketPathAssumption
<1>2. QED
  BY <1>1 DEF Init, TypeOK

LEMMA NextType == TypeOK /\ [Next]_vars => TypeOK'
<1> SUFFICES ASSUME TypeOK, [Next]_vars PROVE TypeOK'
  OBVIOUS
<1> USE PacketPathAssumption
<1>1. ASSUME NEW s \in Services, registerServiceIo(s) PROVE TypeOK'
  BY <1>1 DEF TypeOK, registerServiceIo
<1>2. ASSUME NEW p \in Packets, receivePacket(p) PROVE TypeOK'
  BY <1>2 DEF TypeOK, receivePacket
<1>3. CASE Discard \/ FindNobody \/ FreeUndelivered
  BY <1>3 DEF TypeOK, Discard, FindNobody, FreeUndelivered, freePacket
<1>4. ASSUME NEW s \in Services, Deliver(s) PROVE TypeOK'
  <2>1. packet \in Packets /\ at' = "receive" /\ packet' = nullptr
    BY <1>4 DEF TypeOK, Deliver, ioInput, packet_delivered
  <2>2. allocated' \subseteq Packets
    BY <1>4 DEF TypeOK, Deliver, ioInput, freePacket
  <2>3. CASE isFull(s)
    BY <1>4, <2>1, <2>2, <2>3 DEF TypeOK, Deliver, ioInput
  <2>4. CASE ~isFull(s)
    <3>1. packet_queue_[s] \in Seq(Packets) /\ Len(packet_queue_[s]) < packet_queue_length
      BY <2>4, LenProperties DEF TypeOK, isFull
    <3>2. /\ Append(packet_queue_[s], packet) \in Seq(Packets)
          /\ Len(Append(packet_queue_[s], packet)) <= packet_queue_length
      BY <2>1, <3>1, AppendProperties, LenProperties
    <3>3. packet_queue_' = [packet_queue_ EXCEPT ![s] = Append(@, packet)]
      BY <1>4, <2>4 DEF Deliver, ioInput
    <3>4. /\ packet_queue_' \in [Services -> Seq(Packets)]
          /\ \A t \in Services : Len(packet_queue_'[t]) <= packet_queue_length
      BY <3>2, <3>3 DEF TypeOK
    <3>5. QED
      BY <1>4, <2>1, <2>2, <3>4 DEF TypeOK, Deliver
  <2>5. QED
    BY <2>3, <2>4
<1>5. ASSUME NEW s \in Services, queuePopItem(s) PROVE TypeOK'
  <2>1. packet_queue_[s] \in Seq(Packets) /\ packet_queue_[s] # <<>>
    BY <1>5 DEF TypeOK, queuePopItem
  <2>2. /\ Head(packet_queue_[s]) \in Packets
        /\ Tail(packet_queue_[s]) \in Seq(Packets)
        /\ Len(Tail(packet_queue_[s])) = Len(packet_queue_[s]) - 1
        /\ Len(packet_queue_[s]) \in Nat
    BY <2>1, HeadTailProperties, LenProperties
  <2>3. Len(Tail(packet_queue_[s])) <= packet_queue_length
    BY <2>2 DEF TypeOK
  <2>4. QED
    BY <1>5, <2>2, <2>3 DEF TypeOK, queuePopItem
<1>6. ASSUME NEW s \in Services, Finish(s) PROVE TypeOK'
  BY <1>6 DEF TypeOK, Finish, FreeHandled, freePacket
<1>7. CASE UNCHANGED vars
  BY <1>7 DEF vars, TypeOK
<1>8. QED
  BY <1>1, <1>2, <1>3, <1>4, <1>5, <1>6, <1>7
  DEF Next, IoStep, ProcessingStep

\* Every variable keeps its type; in particular no queue outgrows its length.
THEOREM TypeCorrect == Spec => []TypeOK
BY InitType, NextType, PTL DEF Spec

----------------------------------------------------------------------------
(***************************************************************************)
(* OneOwner is inductive together with the types: each step frees a packet *)
(* of the thread that takes it, or hands one owner's packet to another.    *)
(***************************************************************************)
LEMMA InitOneOwner == Init => OneOwner
<1> SUFFICES ASSUME Init PROVE OneOwner
  OBVIOUS
<1>1. \A s \in Services : Queued(s) = {} /\ Handled(s) = {} /\ IsInjective(packet_queue_[s])
  BY DEF Init, Queued, Handled, ToSet, IsInjective
<1>2. QED
  BY <1>1 DEF Init, OneOwner, AllocatedIsOwned, OwnersDiffer

LEMMA NextOneOwner == TypeOK /\ OneOwner /\ [Next]_vars => OneOwner'
<1> SUFFICES ASSUME TypeOK, OneOwner, [Next]_vars PROVE OneOwner'
  OBVIOUS
<1> USE PacketPathAssumption DEF OneOwner
<1>1. ASSUME UNCHANGED <<packet_queue_, handling>>
      PROVE  \A s \in Services : /\ Queued(s)' = Queued(s) /\ Handled(s)' = Handled(s)
                                 /\ IsInjective(packet_queue_'[s])
  BY <1>1 DEF Queued, Handled, OwnersDiffer
<1>2. \A s \in Services : Queued(s) \subseteq Packets /\ Handled(s) \subseteq Packets
  <2>1. ASSUME NEW s \in Services PROVE Queued(s) \subseteq Packets
    <3>1. packet_queue_[s] \in Seq(Packets)
      BY DEF TypeOK
    <3>2. \A i \in DOMAIN packet_queue_[s] : packet_queue_[s][i] \in Packets
      BY <3>1, LenProperties, ElementOfSeq
    <3>3. QED
      BY <3>2 DEF Queued, ToSet
  <2>2. QED
    BY <2>1 DEF TypeOK, Handled
<1>3. ASSUME NEW s \in Services, registerServiceIo(s) PROVE OneOwner'
  BY <1>1, <1>3 DEF registerServiceIo, AllocatedIsOwned, OwnersDiffer
<1>4. ASSUME NEW p \in Packets, receivePacket(p) PROVE OneOwner'
  <2>1. packet = nullptr /\ packet' = p /\ allocated' = allocated \cup {p} /\ p \notin allocated
    BY <1>4 DEF receivePacket, TypeOK
  <2>2. UNCHANGED <<packet_queue_, handling>>
    BY <1>4 DEF receivePacket
  <2>3. QED
    BY <1>1, <2>1, <2>2 DEF AllocatedIsOwned, OwnersDiffer
<1>5. CASE Discard \/ FreeUndelivered
  <2>1. /\ packet \in Packets /\ packet' = nullptr
        /\ allocated' = allocated \ {packet}
        /\ UNCHANGED <<packet_queue_, handling>>
    BY <1>5 DEF Discard, FreeUndelivered, TypeOK, freePacket
  <2>2. QED
    BY <1>1, <1>2, <2>1 DEF AllocatedIsOwned, OwnersDiffer
<1>6. CASE FindNobody
  BY <1>1, <1>6 DEF FindNobody, AllocatedIsOwned, OwnersDiffer
<1>7. ASSUME NEW s \in Services, Deliver(s) PROVE OneOwner'
  <2>1. packet \in Packets /\ packet' = nullptr /\ UNCHANGED handling
    BY <1>7 DEF TypeOK, Deliver, ioInput, packet_delivered
  <2>2. CASE isFull(s)
    <3>1. allocated' = allocated \ {packet} /\ UNCHANGED packet_queue_
      BY <1>7, <2>2 DEF Deliver, ioInput, freePacket
    <3>2. QED
      BY <1>1, <1>2, <2>1, <3>1 DEF AllocatedIsOwned, OwnersDiffer
  <2>3. CASE ~isFull(s)
    <3>1. /\ UNCHANGED allocated
          /\ packet_queue_' = [packet_queue_ EXCEPT ![s] = Append(@, packet)]
      BY <1>7, <2>3 DEF Deliver, ioInput
    <3>2. packet \notin Queued(s) /\ IsInjective(packet_queue_[s])
      BY DEF OwnersDiffer
    <3>3. /\ Queued(s)' = Queued(s) \cup {packet}
          /\ IsInjective(packet_queue_'[s])
      BY <2>1, <3>1, <3>2, Pushed DEF Queued, TypeOK
    <3>4. \A t \in Services \ {s} :
            Queued(t)' = Queued(t) /\ IsInjective(packet_queue_'[t])
      BY <3>1 DEF Queued, OwnersDiffer, TypeOK
    <3>5. \A t \in Services : Handled(t)' = Handled(t)
      BY <2>1 DEF Handled
    <3>6. AllocatedIsOwned'
      BY <1>2, <2>1, <3>1, <3>3, <3>4, <3>5 DEF AllocatedIsOwned
    <3>7. OwnersDiffer'
      BY <1>2, <2>1, <3>3, <3>4, <3>5 DEF OwnersDiffer
    <3>8. QED
      BY <3>6, <3>7
  <2>4. QED
    BY <2>2, <2>3
<1>8. ASSUME NEW s \in Services, queuePopItem(s) PROVE OneOwner'
  <2> DEFINE p == Head(packet_queue_[s])
  <2>1. /\ packet_queue_[s] \in Seq(Packets) /\ packet_queue_[s] # <<>>
        /\ handling[s] = nullptr
        /\ handling' = [handling EXCEPT ![s] = p]
        /\ packet_queue_' = [packet_queue_ EXCEPT ![s] = Tail(@)]
        /\ UNCHANGED <<allocated, packet>>
    BY <1>8 DEF TypeOK, queuePopItem
  <2>2. /\ Queued(s) = Queued(s)' \cup {p} /\ p \notin Queued(s)'
        /\ p \in Packets /\ IsInjective(packet_queue_'[s])
    BY <2>1, Popped DEF Queued, TypeOK, OwnersDiffer
  <2>3. Handled(s) = {} /\ Handled(s)' = {p}
    BY <2>1, <2>2 DEF Handled, TypeOK
  <2>4. \A t \in Services \ {s} : /\ Queued(t)' = Queued(t) /\ Handled(t)' = Handled(t)
                                  /\ IsInjective(packet_queue_'[t])
    BY <2>1 DEF Queued, Handled, OwnersDiffer, TypeOK
  <2> HIDE DEF p
  <2>5. AllocatedIsOwned'
    BY <2>1, <2>2, <2>3, <2>4 DEF AllocatedIsOwned
  <2>6. OwnersDiffer'
    BY <2>1, <2>2, <2>3, <2>4 DEF OwnersDiffer
  <2>7. QED
    BY <2>5, <2>6
<1>9. ASSUME NEW s \in Services, Finish(s) PROVE OneOwner'
  <2>1. /\ handling[s] # nullptr /\ handling' = [handling EXCEPT ![s] = nullptr]
        /\ allocated' = allocated \ {handling[s]}
        /\ UNCHANGED <<packet, packet_queue_>>
    BY <1>9 DEF Finish, FreeHandled, freePacket
  <2>2. Handled(s) = {handling[s]} /\ Handled(s)' = {}
    BY <2>1 DEF Handled, TypeOK
  <2>3. \A t \in Services : Queued(t)' = Queued(t) /\ IsInjective(packet_queue_'[t])
    BY <2>1 DEF Queued, OwnersDiffer
  <2>4. \A t \in Services \ {s} : Handled(t)' = Handled(t)
    BY <2>1 DEF Handled, TypeOK
  <2>5. AllocatedIsOwned'
    BY <2>1, <2>2, <2>3, <2>4 DEF AllocatedIsOwned, OwnersDiffer
  <2>6. OwnersDiffer'
    BY <2>1, <2>2, <2>3, <2>4 DEF OwnersDiffer
  <2>7. QED
    BY <2>5, <2>6
<1>10. CASE UNCHANGED vars
  BY <1>1, <1>10 DEF vars, AllocatedIsOwned, OwnersDiffer
<1>11. QED
  BY <1>3, <1>4, <1>5, <1>6, <1>7, <1>8, <1>9, <1>10
  DEF Next, IoStep, ProcessingStep

(***************************************************************************)
(* No packet is leaked, freed twice or used after it was freed.            *)
(***************************************************************************)
THEOREM OneOwnerHolds == Spec => []OneOwner
<1>1. TypeOK /\ OneOwner /\ [Next]_vars => (TypeOK /\ OneOwner)'
  BY NextType, NextOneOwner
<1>2. Init => TypeOK /\ OneOwner
  BY InitType, InitOneOwner
<1>3. QED
  BY <1>1, <1>2, PTL DEF Spec

----------------------------------------------------------------------------
(* Transactions.                                                           *)


LEMMA InitHeld == NodeInit => HeldWhileOpen
BY DEF NodeInit, HeldWhileOpen

(***************************************************************************)
(* HeldWhileOpen is inductive: an owner of the mutex who starts found the  *)
(* flag clear, so the mutex free; a commit without a start finds it free   *)
(* as well, since CanLock excludes another thread's transaction.           *)
(***************************************************************************)
LEMMA NextHeld == HeldWhileOpen /\ [NodeNext]_node_vars => HeldWhileOpen'
<1> SUFFICES ASSUME HeldWhileOpen, [NodeNext]_node_vars PROVE HeldWhileOpen'
  OBVIOUS
<1>1. CASE UNCHANGED <<owner, depth, transaction_started_>>
  BY <1>1 DEF HeldWhileOpen
<1>2. CASE PathNext /\ out' = Nothing /\ UNCHANGED sending
  BY <1>1, <1>2 DEF sending, mutex
<1>3. ASSUME NEW t \in Threads, StartTransaction(t) PROVE HeldWhileOpen'
  <2>1. t # nobody
    BY ServiceTransactionAssumption DEF Threads
  <2>2. QED
    BY <1>3, <2>1 DEF StartTransaction, HeldWhileOpen
<1>4. ASSUME NEW t \in Threads, CommitTransaction(t) PROVE HeldWhileOpen'
  BY <1>4 DEF CommitTransaction, Unlock, CanLock, HeldWhileOpen
<1>5. ASSUME NEW t \in Threads, NEW item,
             EndAppend(t) \/ FillHeader(t) \/ BeginAppend(t, item) \/ SendValue(t, item)
      PROVE  HeldWhileOpen'
  BY <1>1, <1>5 DEF EndAppend, FillHeader, BeginAppend, SendValue, mutex
<1>6. CASE AdvertiseService \/ SetTarget
  BY <1>1, <1>6 DEF AdvertiseService, SetTarget, mutex
<1>7. CASE UNCHANGED node_vars
  BY <1>1, <1>7 DEF node_vars, sending, mutex
<1>8. QED
  BY <1>2, <1>3, <1>4, <1>5, <1>6, <1>7 DEF NodeNext, SendingNext

\* No start, commit or append leaves the mutex locked or unlocks it too early.
THEOREM HeldWhileOpenHolds == NodeSpec => []HeldWhileOpen
BY InitHeld, NextHeld, PTL DEF NodeSpec

(***************************************************************************)
(* The header of a transaction that nobody disturbed is the one its start  *)
(* has given it; a single value, which would overwrite it, is not sent.    *)
(***************************************************************************)
KeepsHeader ==
  transaction_started_ /\ ~disturbed => header_ = Header(0, "given")

HeaderArrives ==
  out.type = "TRANSACTION" /\ out.whole => out.header = Header(0, "given")

LEMMA NextHeader ==
  KeepsHeader /\ HeaderArrives /\ [NodeNext]_node_vars => KeepsHeader' /\ HeaderArrives'
<1> SUFFICES ASSUME KeepsHeader, HeaderArrives, [NodeNext]_node_vars
             PROVE  KeepsHeader' /\ HeaderArrives'
  OBVIOUS
<1>1. ASSUME out' = Nothing PROVE HeaderArrives'
  BY <1>1 DEF HeaderArrives, Nothing
<1>2. CASE PathNext /\ out' = Nothing /\ UNCHANGED sending
  BY <1>1, <1>2 DEF sending, mutex, buffer, ghosts, KeepsHeader
<1>3. ASSUME NEW t \in Threads, StartTransaction(t) PROVE KeepsHeader' /\ HeaderArrives'
  BY <1>1, <1>3 DEF StartTransaction, KeepsHeader
<1>4. ASSUME NEW t \in Threads, CommitTransaction(t) PROVE KeepsHeader' /\ HeaderArrives'
  <2>1. KeepsHeader'
    BY <1>4 DEF CommitTransaction, KeepsHeader
  <2>2. CASE claimed
    <3>1. out'.whole = (transaction_started_ /\ ~disturbed /\ ~OthersAppend(t))
          /\ out'.header = header_
      BY <1>4, <2>2 DEF CommitTransaction
    <3>2. QED
      BY <2>1, <3>1 DEF HeaderArrives, KeepsHeader
  <2>3. CASE ~claimed
    BY <1>1, <1>4, <2>1, <2>3 DEF CommitTransaction
  <2>4. QED
    BY <2>2, <2>3
<1>5. ASSUME UNCHANGED <<transaction_started_, header_>>, ~disturbed' => ~disturbed, out' = Nothing
      PROVE  KeepsHeader' /\ HeaderArrives'
  BY <1>1, <1>5 DEF KeepsHeader
<1>10. ASSUME NEW t \in Threads, NEW item, EndAppend(t) \/ BeginAppend(t, item)
      PROVE  KeepsHeader' /\ HeaderArrives'
  BY <1>5, <1>10 DEF EndAppend, BeginAppend, mutex, buffer
<1>6. ASSUME NEW t \in Threads, FillHeader(t) PROVE KeepsHeader' /\ HeaderArrives'
  BY <1>1, <1>6 DEF FillHeader, mutex, KeepsHeader
<1>7. ASSUME NEW t \in Threads, NEW item, SendValue(t, item)
      PROVE  KeepsHeader' /\ HeaderArrives'
  <2>1. KeepsHeader'
    BY <1>7 DEF SendValue, mutex, KeepsHeader
  <2>2. out'.type = "DATA"
    BY <1>7 DEF SendValue
  <2>3. QED
    BY <2>1, <2>2 DEF HeaderArrives
<1>8. CASE AdvertiseService \/ SetTarget
  BY <1>5, <1>8 DEF AdvertiseService, SetTarget, mutex, buffer, ghosts
<1>9. CASE UNCHANGED node_vars
  BY <1>9 DEF node_vars, sending, mutex, buffer, ghosts, KeepsHeader, HeaderArrives
<1>11. QED
  BY <1>2, <1>3, <1>4, <1>10, <1>6, <1>7, <1>8, <1>9 DEF NodeNext, SendingNext

\* The part of TransactionArrives that is about the time stamp.
THEOREM HeaderArrivesHolds == NodeSpec => []HeaderArrives
<1>1. NodeInit => KeepsHeader /\ HeaderArrives
  BY DEF NodeInit, KeepsHeader, HeaderArrives, Nothing
<1>2. QED
  BY <1>1, NextHeader, PTL DEF NodeSpec

(***************************************************************************)
(* The contents of a transaction that nobody disturbed: what the buffer    *)
(* holds reads as what was accepted, and whoever copies an item copies it  *)
(* to the end, where there is room for it.                                 *)
(***************************************************************************)
BufferTypes ==
  /\ scratch_buffer_ \in [1..scratch_size -> Cells]
  /\ scratch_buffer_fill_ \in Nat
  /\ appending \in [Threads -> {NoItem} \cup (Items \X Nat)]

OneAppends == \A t, u \in Threads : ~Idle(t) /\ ~Idle(u) => t = u

AppendsAtEnd ==
  \A t \in Threads : ~Idle(t) =>
    /\ appending[t][2] = scratch_buffer_fill_
    /\ HasRoom(appending[t][1])

Filled == SubSeq(scratch_buffer_, 1, scratch_buffer_fill_)

HoldsAccepted ==
  /\ scratch_buffer_fill_ <= scratch_size
  /\ Parse(Filled) = [items |-> accepted, processed_len |-> scratch_buffer_fill_]

Undisturbed == transaction_started_ /\ ~disturbed => OneAppends /\ AppendsAtEnd /\ HoldsAccepted

BufferInv == HeldWhileOpen /\ BufferTypes /\ Undisturbed

LEMMA FilledCells ==
  ASSUME NEW fill \in 0..scratch_size, NEW held \in [1..scratch_size -> Cells]
  PROVE  /\ SubSeq(held, 1, fill) \in Seq(Cells)
         /\ Len(SubSeq(held, 1, fill)) = fill
         /\ \A i \in 1..fill : SubSeq(held, 1, fill)[i] = held[i]
<1>1. scratch_size \in Nat
  BY ServiceTransactionAssumption
<1>2. \A i \in 1..fill : held[i] \in Cells
  BY <1>1
<1> DEFINE r == SubSeq(held, 1, fill)
<1>3. /\ r \in Seq(Cells) /\ Len(r) = IF 1 <= fill THEN fill - 1 + 1 ELSE 0
      /\ \A i \in 1..(fill - 1 + 1) : r[i] = held[1 + i - 1]
  BY <1>1, <1>2, SubSeqProperties
<1> HIDE DEF r
<1>4. fill - 1 + 1 = fill /\ (~(1 <= fill) => fill = 0) /\ \A i \in 1..fill : 1 + i - 1 = i
  BY <1>1
<1>5. Len(r) = fill /\ \A i \in 1..fill : r[i] = held[i]
  BY <1>3, <1>4
<1> QED
  BY <1>3, <1>5 DEF r

LEMMA CopiedCells ==
  ASSUME BufferTypes, NEW offset \in Nat, NEW item \in Items
  PROVE  Copied(offset, Framed(item)) \in [1..scratch_size -> Cells]
<1>1. Framed(item) \in Seq(Cells)
  BY FramedCells, ServiceTransactionAssumption
<1>2. \A j \in DOMAIN Framed(item) : Framed(item)[j] \in Cells
  BY <1>1, LenProperties, ElementOfSeq
<1> QED
  BY <1>2 DEF Copied, BufferTypes

LEMMA CopiedToEnd ==
  ASSUME BufferTypes, NEW item \in Items, HasRoom(item)
  PROVE  LET fill == scratch_buffer_fill_ + Len(Framed(item))
         IN  /\ fill \in 0..scratch_size
             /\ SubSeq(Copied(scratch_buffer_fill_, Framed(item)), 1, fill)
                  = Filled \o Framed(item)
<1> DEFINE f == scratch_buffer_fill_
           cells == Framed(item)
           m == Len(cells)
           all == Copied(f, cells)
           got == SubSeq(all, 1, f + m)
           want == Filled \o cells
<1>1. cells \in Seq(Cells) /\ m \in Nat /\ DOMAIN cells = 1..m
  BY FramedCells, LenProperties, ServiceTransactionAssumption
<1>2. scratch_size \in Nat /\ f \in Nat /\ f + m <= scratch_size
  BY ServiceTransactionAssumption DEF BufferTypes, HasRoom
<1>3. all \in [1..scratch_size -> Cells]
  BY <1>2, CopiedCells
<1>4. \A i \in 1..scratch_size : all[i] = IF i - f \in 1..m THEN cells[i - f] ELSE scratch_buffer_[i]
  BY <1>1 DEF Copied
<1> HIDE DEF all, cells, m
<1>5. f + m \in 0..scratch_size /\ f \in 0..scratch_size
  BY <1>1, <1>2
<1>6. got \in Seq(Cells) /\ Len(got) = f + m /\ \A i \in 1..(f + m) : got[i] = all[i]
  BY <1>3, <1>5, FilledCells
<1>7. Filled \in Seq(Cells) /\ Len(Filled) = f /\ \A i \in 1..f : Filled[i] = scratch_buffer_[i]
  BY <1>5, FilledCells DEF Filled, BufferTypes
<1>8. /\ want \in Seq(Cells) /\ Len(want) = f + m
      /\ \A i \in 1..(f + m) : want[i] = IF i <= f THEN Filled[i] ELSE cells[i - f]
  BY <1>1, <1>7, ConcatProperties DEF m
<1> HIDE DEF got, want
<1>9. ASSUME NEW i \in 1..(f + m) PROVE got[i] = want[i]
  <2>1. i \in 1..scratch_size /\ (i <= f => i \in 1..f /\ i - f \notin 1..m)
        /\ (~(i <= f) => i - f \in 1..m)
    BY <1>1, <1>2
  <2> QED
    BY <1>4, <1>6, <1>7, <1>8, <2>1
<1>10. got = want
  BY <1>6, <1>8, <1>9, SeqEqual
<1> QED
  BY <1>5, <1>10 DEF got, want, all, cells, m

LEMMA AppendKeeps ==
  ASSUME BufferInv, NEW t \in Threads, EndAppend(t)
  PROVE  BufferTypes' /\ Undisturbed'
<1> DEFINE item == appending[t][1]
           offset == appending[t][2]
<1>1. ~Idle(t) /\ item \in Items /\ offset \in Nat /\ Len(Framed(item)) \in Nat
      /\ item \in Sendable
  BY FramedCells, LenProperties, ServiceTransactionAssumption
  DEF BufferInv, BufferTypes, EndAppend, Idle
<1>2. /\ scratch_buffer_' = Copied(offset, Framed(item))
      /\ scratch_buffer_fill_' = scratch_buffer_fill_ + Len(Framed(item))
      /\ accepted' = Append(accepted, item)
      /\ appending' = [appending EXCEPT ![t] = NoItem]
      /\ UNCHANGED <<transaction_started_, disturbed>>
  BY DEF EndAppend, mutex
<1> HIDE DEF item, offset
<1>3. BufferTypes'
  BY <1>1, <1>2, CopiedCells DEF BufferInv, BufferTypes
<1>4. ASSUME transaction_started_, ~disturbed
      PROVE  OneAppends' /\ AppendsAtEnd' /\ HoldsAccepted'
  <2>1. OneAppends /\ AppendsAtEnd /\ HoldsAccepted
    BY <1>4 DEF BufferInv, Undisturbed
  <2>2. offset = scratch_buffer_fill_ /\ HasRoom(item)
    BY <1>1, <2>1 DEF AppendsAtEnd, offset, item
  <2>3. \A u \in Threads : Idle(u)'
    BY <1>1, <1>2, <2>1 DEF OneAppends, Idle, BufferInv, BufferTypes
  <2>4. /\ scratch_buffer_fill_' \in 0..scratch_size
        /\ Filled' = Filled \o Framed(item)
    BY <1>1, <1>2, <2>2, CopiedToEnd DEF BufferInv, Filled
  <2>5. /\ Filled \in Seq(Cells) /\ Len(Filled) = scratch_buffer_fill_
        /\ Parse(Filled) = [items |-> accepted, processed_len |-> Len(Filled)]
    <3>1. scratch_buffer_fill_ \in 0..scratch_size
      BY <2>1, ServiceTransactionAssumption DEF HoldsAccepted, BufferInv, BufferTypes
    <3>2. Filled \in Seq(Cells) /\ Len(Filled) = scratch_buffer_fill_
      BY <3>1, FilledCells DEF BufferInv, BufferTypes, Filled
    <3> QED
      BY <2>1, <3>2 DEF HoldsAccepted
  <2>6. Parse(Filled') = [items |-> accepted', processed_len |-> Len(Filled')]
    BY <1>1, <1>2, <2>4, <2>5, ParseAppended
  <2>7. Len(Filled') = scratch_buffer_fill_'
    <3>1. Len(Filled \o Framed(item)) = Len(Filled) + Len(Framed(item))
      BY <1>1, <2>5, FramedCells, ConcatProperties
    <3> QED
      BY <1>2, <2>4, <2>5, <3>1
  <2>8. HoldsAccepted'
    BY <2>4, <2>6, <2>7, ServiceTransactionAssumption DEF HoldsAccepted
  <2> QED
    BY <2>3, <2>8 DEF OneAppends, AppendsAtEnd
<1> QED
  BY <1>2, <1>3, <1>4 DEF Undisturbed

LEMMA BeginKeeps ==
  ASSUME BufferInv, NEW t \in Threads, NEW item \in Items, BeginAppend(t, item)
  PROVE  BufferTypes' /\ Undisturbed'
<1>1. /\ Idle(t) /\ HasRoom(item)
      /\ appending' = [appending EXCEPT ![t] = <<item, scratch_buffer_fill_>>]
      /\ disturbed' = (disturbed \/ OthersAppend(t))
      /\ UNCHANGED <<transaction_started_, scratch_buffer_, scratch_buffer_fill_, accepted>>
  BY DEF BeginAppend, mutex, buffer
<1>2. BufferTypes'
  BY <1>1 DEF BufferInv, BufferTypes
<1>3. ASSUME transaction_started_, ~disturbed, ~OthersAppend(t)
      PROVE  OneAppends' /\ AppendsAtEnd' /\ HoldsAccepted'
  <2>1. HoldsAccepted'
    BY <1>1, <1>3 DEF BufferInv, Undisturbed, HoldsAccepted, Filled
  <2>2. \A u \in Threads \ {t} : Idle(u)
    BY <1>3 DEF OthersAppend
  <2>3. \A u \in Threads \ {t} : Idle(u)'
    BY <1>1, <2>2 DEF BufferInv, BufferTypes, Idle
  <2>4. appending'[t] = <<item, scratch_buffer_fill_>>
    BY <1>1 DEF BufferInv, BufferTypes
  <2>5. AppendsAtEnd'
    BY <1>1, <2>3, <2>4 DEF AppendsAtEnd, HasRoom
  <2> QED
    BY <2>1, <2>3, <2>5 DEF OneAppends
<1> QED
  BY <1>1, <1>2, <1>3 DEF Undisturbed

LEMMA StartKeeps ==
  ASSUME BufferInv, NEW t \in Threads, StartTransaction(t)
  PROVE  BufferTypes' /\ Undisturbed'
<1>1. /\ Idle(t) /\ scratch_buffer_fill_' = 0 /\ accepted' = <<>>
      /\ disturbed' = OthersAppend(t)
      /\ UNCHANGED <<scratch_buffer_, appending>>
  BY DEF StartTransaction
<1>2. BufferTypes'
  BY <1>1 DEF BufferInv, BufferTypes
<1>3. ASSUME ~OthersAppend(t) PROVE OneAppends' /\ AppendsAtEnd' /\ HoldsAccepted'
  <2>1. \A u \in Threads : Idle(u)'
    BY <1>1, <1>3 DEF OthersAppend, Idle
  <2>2. Filled' = <<>>
    BY <1>1, SubSeqEmpty DEF Filled
  <2>3. HoldsAccepted'
    BY <1>1, <2>2, ParseNothing, ServiceTransactionAssumption DEF HoldsAccepted
  <2> QED
    BY <2>1, <2>3 DEF OneAppends, AppendsAtEnd
<1> QED
  BY <1>1, <1>2, <1>3 DEF Undisturbed

LEMMA OldCells == Old \in [1..scratch_size -> Cells]
BY DEF Old, Byte, Cell, Cells

LEMMA BufferInit == NodeInit => BufferInv
<1> SUFFICES ASSUME NodeInit PROVE BufferInv
  OBVIOUS
<1> QED
  BY InitHeld, OldCells DEF NodeInit, BufferInv, BufferTypes, Undisturbed

LEMMA BufferNext == BufferInv /\ [NodeNext]_node_vars => BufferInv'
<1> SUFFICES ASSUME BufferInv, [NodeNext]_node_vars PROVE BufferTypes' /\ Undisturbed'
  BY NextHeld DEF BufferInv
<1>1. ASSUME UNCHANGED <<transaction_started_, scratch_buffer_, scratch_buffer_fill_,
                         appending, accepted>>, ~disturbed' => ~disturbed
      PROVE  BufferTypes' /\ Undisturbed'
  BY <1>1 DEF BufferInv, BufferTypes, Undisturbed, OneAppends, AppendsAtEnd, HoldsAccepted,
              Filled, Idle, HasRoom
<1>2. CASE PathNext /\ out' = Nothing /\ UNCHANGED sending
  BY <1>1, <1>2 DEF sending, mutex, buffer, ghosts
<1>3. ASSUME NEW t \in Threads, CommitTransaction(t) PROVE BufferTypes' /\ Undisturbed'
  BY <1>3, OldCells DEF CommitTransaction, BufferInv, BufferTypes, Undisturbed
<1>4. ASSUME NEW t \in Threads, NEW item, FillHeader(t) \/ SendValue(t, item)
      PROVE  BufferTypes' /\ Undisturbed'
  BY <1>1, <1>4 DEF FillHeader, SendValue, mutex, ghosts
<1>5. CASE AdvertiseService
  <2>1. /\ scratch_buffer_' \in [1..scratch_size -> Cells]
        /\ UNCHANGED <<transaction_started_, scratch_buffer_fill_, appending>>
        /\ CanLock(Processing) /\ disturbed' = (disturbed \/ owner = Processing)
    BY <1>5, OldCells DEF AdvertiseService, MayAdvertise, mutex
  <2>2. transaction_started_ => owner = Processing
    BY <2>1 DEF CanLock, BufferInv, HeldWhileOpen
  <2> QED
    BY <2>1, <2>2 DEF BufferInv, BufferTypes, Undisturbed
<1>6. CASE SetTarget
  BY <1>1, <1>6 DEF SetTarget, mutex, buffer, ghosts
<1>7. CASE UNCHANGED node_vars
  BY <1>1, <1>7 DEF node_vars, sending, mutex, buffer, ghosts
<1> QED
  BY <1>2, <1>3, <1>4, <1>5, <1>6, <1>7, AppendKeeps, BeginKeeps, StartKeeps
  DEF NodeNext, SendingNext

(***************************************************************************)
(* The contents of an undisturbed transaction arrive as SendData accepted  *)
(* them, for any items, schema, buffer size and threads.                   *)
(***************************************************************************)
ContentsArrive ==
  out.type = "TRANSACTION" /\ out.whole => Parse(out.payload).items = out.accepted

LEMMA ContentsNext == BufferInv /\ ContentsArrive /\ [NodeNext]_node_vars => ContentsArrive'
<1> SUFFICES ASSUME BufferInv, ContentsArrive, [NodeNext]_node_vars PROVE ContentsArrive'
  OBVIOUS
<1>1. ASSUME out' = Nothing PROVE ContentsArrive'
  BY <1>1 DEF ContentsArrive, Nothing
<1>2. ASSUME NEW t \in Threads, CommitTransaction(t) PROVE ContentsArrive'
  <2>1. CASE ~claimed
    BY <1>1, <1>2, <2>1 DEF CommitTransaction
  <2>2. CASE claimed
    <3>1. /\ out'.whole = (transaction_started_ /\ ~disturbed /\ ~OthersAppend(t))
          /\ out'.payload = Payload /\ out'.accepted = accepted
      BY <1>2, <2>2 DEF CommitTransaction
    <3>2. ASSUME transaction_started_, ~disturbed PROVE Parse(Payload).items = accepted
      <4>1. HoldsAccepted
        BY <3>2 DEF BufferInv, Undisturbed
      <4>2. Payload = Filled
        BY <4>1, ServiceTransactionAssumption
        DEF HoldsAccepted, BufferInv, BufferTypes, Payload, Filled
      <4> QED
        BY <4>1, <4>2 DEF HoldsAccepted
    <3> QED
      BY <3>1, <3>2 DEF ContentsArrive
  <2> QED
    BY <2>1, <2>2
<1>3. ASSUME NEW t \in Threads, NEW item, SendValue(t, item) PROVE ContentsArrive'
  <2>1. out'.type = "DATA"
    BY <1>3 DEF SendValue
  <2> QED
    BY <2>1 DEF ContentsArrive
<1>4. ASSUME NEW t \in Threads, NEW item,
             StartTransaction(t) \/ EndAppend(t) \/ BeginAppend(t, item) \/ FillHeader(t)
      PROVE  ContentsArrive'
  BY <1>1, <1>4 DEF StartTransaction, EndAppend, BeginAppend, FillHeader
<1>5. CASE AdvertiseService \/ SetTarget \/ (PathNext /\ out' = Nothing /\ UNCHANGED sending)
  BY <1>1, <1>5 DEF AdvertiseService, SetTarget
<1>6. CASE UNCHANGED node_vars
  BY <1>6 DEF node_vars, ContentsArrive
<1> QED
  BY <1>2, <1>3, <1>4, <1>5, <1>6 DEF NodeNext, SendingNext

LEMMA SameItemsKept ==
  ASSUME NEW payload, NEW items, Parse(payload).items = items
  PROVE  HandleDataTransaction(Outputs, payload)
           = SelectSeq(items, LAMBDA item : Accepted(Outputs, item))
BY DEF HandleDataTransaction

(***************************************************************************)
(* A transaction reaches the callbacks of the host with its own time stamp *)
(* and as SendData accepted it, whatever else used the buffer, the header  *)
(* and the mutex before.                                                   *)
(***************************************************************************)
THEOREM TransactionArrivesHolds == NodeSpec => []TransactionArrives
<1>1. NodeInit => BufferInv /\ ContentsArrive
  BY BufferInit DEF NodeInit, ContentsArrive, Nothing
<1>2. ContentsArrive /\ HeaderArrives => TransactionArrives
  BY SameItemsKept DEF ContentsArrive, HeaderArrives, TransactionArrives
<1> QED
  BY <1>1, <1>2, BufferNext, ContentsNext, HeaderArrivesHolds, PTL DEF NodeSpec

(***************************************************************************)
(* The packet path underneath.                                             *)
(***************************************************************************)
LEMMA StepIsPath == [NodeNext]_node_vars => [Next]_vars
<1> SUFFICES ASSUME [NodeNext]_node_vars PROVE [Next]_vars
  OBVIOUS
<1>1. CASE PathNext
  BY <1>1, ServiceTransactionAssumption
  DEF PathNext, NodeProcessingStep, NodeIoStep, Receive, Next, IoStep
<1>2. CASE UNCHANGED <<vars, for_node>>
  BY <1>2
<1>3. CASE UNCHANGED node_vars
  BY <1>3 DEF node_vars
<1>4. QED
  BY <1>1, <1>2, <1>3 DEF NodeNext

\* With transactions that hold up the Io thread, the packet path is PacketPath.
THEOREM PathImplemented == NodeSpec => Spec
<1>1. NodeInit => Init
  BY DEF NodeInit
<1>2. QED
  BY <1>1, StepIsPath, PTL DEF NodeSpec, Spec

\* ... and each packet has one owner.
THEOREM OneOwnerInComposition == NodeSpec => []OneOwner
BY PathImplemented, OneOwnerHolds, PTL
=============================================================================
