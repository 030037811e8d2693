----------------------------- MODULE PacketPath -----------------------------
(***************************************************************************)
(* The way of a received packet through a program with services: allocated *)
(* by sock::receivePacket, passed on by the Io thread (Io.cpp, runIo) into *)
(* the queue of the service it is for (ServiceIo::ioInput), handled and    *)
(* freed by that service's processing thread (Service.cpp, runProcessing). *)
(* Nothing but convention says who frees a packet: packets are raw         *)
(* pointers from malloc().                                                 *)
(*                                                                         *)
(* The queues are the bounded FIFO queues that BlockingQueue implements.   *)
(* The Io thread looks a service up and pushes under its state_mutex_, in  *)
(* one step.                                                               *)
(***************************************************************************)
EXTENDS Naturals, SequencesExt

CONSTANTS
  Packets,              \* the addresses malloc() hands out
  Services,
  nullptr,
  packet_queue_length

ASSUME PacketPathAssumption ==
  /\ nullptr \notin Packets
  /\ packet_queue_length \in Nat \ {0}

VARIABLES
  allocated,       \* the packets that are not free
  at,              \* where the Io thread is
  packet,          \* its packet
  services,        \* the services in the list behind firstService_
  packet_queue_,   \* of each service
  handling         \* the packet each processing thread has popped

vars == <<allocated, at, packet, services, packet_queue_, handling>>

TypeOK ==
  /\ allocated \subseteq Packets
  /\ at \in {"receive", "received", "undelivered"}
  /\ packet \in Packets \cup {nullptr}
  /\ at = "receive" <=> packet = nullptr
  /\ services \subseteq Services
  /\ packet_queue_ \in [Services -> Seq(Packets)]
  /\ \A s \in Services : Len(packet_queue_[s]) <= packet_queue_length
  /\ handling \in [Services -> Packets \cup {nullptr}]

Init ==
  /\ allocated = {}
  /\ at = "receive" /\ packet = nullptr
  /\ services = {}
  /\ packet_queue_ = [s \in Services |-> <<>>]
  /\ handling = [s \in Services |-> nullptr]

freePacket(p) == allocated' = allocated \ {p}

----------------------------------------------------------------------------
\* Service::start() appends the service to the list when its queue is ready.
registerServiceIo(s) ==
  /\ s \notin services
  /\ services' = services \cup {s}
  /\ UNCHANGED <<allocated, at, packet, packet_queue_, handling>>

\* allocatePacket(), then recvfrom() with a timeout of a second.
receivePacket(p) ==
  /\ at = "receive"
  /\ p \notin allocated
  /\ allocated' = allocated \cup {p}
  /\ at' = "received"
  /\ packet' = p
  /\ UNCHANGED <<services, packet_queue_, handling>>

\* Nothing came, or something without a valid header.
Discard ==
  /\ at = "received"
  /\ freePacket(packet)
  /\ at' = "receive"
  /\ packet' = nullptr
  /\ UNCHANGED <<services, packet_queue_, handling>>

\* Faulty variant: a packet the service refused counts as undelivered.
DeliveredIfPushed(pushed) == pushed

\* packet_delivered, of a service that was found: ioInput()'s result is ignored.
packet_delivered(pushed) == TRUE

\* Faulty variant: takes one packet more than there is room for.
isFullLate(s) == Len(packet_queue_[s]) > packet_queue_length

isFull(s) == Len(packet_queue_[s]) = packet_queue_length

\* ioInput() frees the packet when the service's queue is full.
ioInput(s) ==
  \/ /\ ~isFull(s)
     /\ packet_queue_' = [packet_queue_ EXCEPT ![s] = Append(@, packet)]
     /\ UNCHANGED allocated
     /\ at' = IF packet_delivered(TRUE) THEN "receive" ELSE "undelivered"
  \/ /\ isFull(s)
     /\ freePacket(packet)
     /\ UNCHANGED packet_queue_
     /\ at' = IF packet_delivered(FALSE) THEN "receive" ELSE "undelivered"

Deliver(s) ==
  /\ at = "received"
  /\ s \in services
  /\ ioInput(s)
  /\ packet' = IF at' = "receive" THEN nullptr ELSE packet
  /\ UNCHANGED <<services, handling>>

\* The packet is for a service that is not in the list or not started yet.
FindNobody ==
  /\ at = "received"
  /\ at' = "undelivered"
  /\ UNCHANGED <<allocated, packet, services, packet_queue_, handling>>

FreeUndelivered ==
  /\ at = "undelivered"
  /\ freePacket(packet)
  /\ at' = "receive"
  /\ packet' = nullptr
  /\ UNCHANGED <<services, packet_queue_, handling>>

----------------------------------------------------------------------------
\* The processing thread takes the oldest packet ...
queuePopItem(s) ==
  /\ handling[s] = nullptr
  /\ packet_queue_[s] # <<>>
  /\ handling' = [handling EXCEPT ![s] = Head(packet_queue_[s])]
  /\ packet_queue_' = [packet_queue_ EXCEPT ![s] = Tail(@)]
  /\ UNCHANGED <<allocated, at, packet, services>>

\* Faulty variant: a packet that is too short is skipped but not freed.
SkipShort(s) == freePacket(handling[s]) \/ UNCHANGED allocated

\* ... and frees it, whether a handler took it or it was malformed.
FreeHandled(s) == freePacket(handling[s])

Finish(s) ==
  /\ handling[s] # nullptr
  /\ FreeHandled(s)
  /\ handling' = [handling EXCEPT ![s] = nullptr]
  /\ UNCHANGED <<at, packet, services, packet_queue_>>

----------------------------------------------------------------------------
IoStep == Discard \/ FindNobody \/ FreeUndelivered \/ \E s \in Services : Deliver(s)

ProcessingStep(s) == queuePopItem(s) \/ Finish(s)

Next ==
  \/ \E s \in Services : registerServiceIo(s) \/ ProcessingStep(s)
  \/ \E p \in Packets : receivePacket(p)
  \/ IoStep

Spec == Init /\ [][Next]_vars

\* Both kinds of thread loop for ever; a packet need not come.
FairSpec == Spec /\ WF_vars(IoStep) /\ \A s \in Services : WF_vars(ProcessingStep(s))

----------------------------------------------------------------------------
Queued(s) == ToSet(packet_queue_[s])

Handled(s) == {handling[s]} \ {nullptr}

(***************************************************************************)
(* A packet that is allocated has exactly one owner - the Io thread, one   *)
(* place in one queue, or one processing thread - and no thread or queue   *)
(* holds one that was freed: nothing is leaked, freed twice or used after  *)
(* it was freed, although ioInput() frees what it refuses and its caller   *)
(* frees what nobody took.                                                 *)
(***************************************************************************)
AllocatedIsOwned ==
  allocated = ({packet} \ {nullptr}) \cup UNION {Queued(s) \cup Handled(s) : s \in Services}

OwnersDiffer ==
  \A s \in Services :
    /\ packet \notin Queued(s) \cup Handled(s)
    /\ Queued(s) \cap Handled(s) = {}
    /\ IsInjective(packet_queue_[s])
    /\ \A t \in Services \ {s} :
         (Queued(s) \cup Handled(s)) \cap (Queued(t) \cup Handled(t)) = {}

OneOwner == AllocatedIsOwned /\ OwnersDiffer

(***************************************************************************)
(* Every packet is freed again, however full the queues get.               *)
(***************************************************************************)
EveryPacketFreed == \A p \in Packets : p \in allocated ~> p \notin allocated
=============================================================================
