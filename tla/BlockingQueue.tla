--------------------------- MODULE BlockingQueue ---------------------------
(***************************************************************************)
(* The queue between the Io thread and a service's processing thread:      *)
(* class BlockingQueue of libxbot-service/src/portable/linux/queue.cpp, a  *)
(* ring buffer of pointers with two condition variables.  The class is     *)
(* modelled for any number of threads on either side; the service has one  *)
(* on each, and its producer never waits (queuePushItem passes timeout 0). *)
(*                                                                         *)
(* Each stretch of push() and pop() under mutex_ is one step.  wait_for()  *)
(* returns on a notification, on its timeout or for no reason at all, so a *)
(* thread in it may go on at any time.                                     *)
(***************************************************************************)
EXTENDS Integers, FiniteSets

CONSTANTS
  Producers, Consumers,   \* the threads that push and pop
  Items,                  \* what they push
  nullptr,
  queue_size_             \* length of the ring

ASSUME BlockingQueueAssumption ==
  /\ queue_size_ \in Nat \ {0}
  /\ nullptr \notin Items
  /\ IsFiniteSet(Producers) /\ IsFiniteSet(Consumers)

VARIABLES
  buffer_,
  front_idx_,
  item_count_,
  cv_push_, cv_pop_,     \* the threads that wait there: consumers, producers
  poppers, pushers,      \* those that were notified but have not yet gone on
  pending,               \* the item of a producer that waits
  pushed, popped         \* what the last push() and pop() returned

ring == <<buffer_, front_idx_, item_count_>>
waiters == <<cv_push_, cv_pop_, poppers, pushers>>
vars == <<ring, waiters, pending, pushed, popped>>

Index == 0..(queue_size_ - 1)

RingType ==
  /\ buffer_ \in [Index -> Items \cup {nullptr}]
  /\ front_idx_ \in Index
  /\ item_count_ \in 0..queue_size_

WaitersType ==
  /\ cv_push_ \subseteq Consumers /\ poppers \subseteq Consumers \ cv_push_
  /\ cv_pop_ \subseteq Producers /\ pushers \subseteq Producers \ cv_pop_

ResultsType ==
  /\ pending \in [Producers -> Items \cup {nullptr}]
  /\ \A p \in cv_pop_ \cup pushers : pending[p] # nullptr
  /\ pushed \in [Producers -> BOOLEAN]
  /\ popped \in [Consumers -> Items \cup {nullptr}]

TypeOK == RingType /\ WaitersType /\ ResultsType

\* init()
Init ==
  /\ buffer_ = [i \in Index |-> nullptr]
  /\ front_idx_ = 0 /\ item_count_ = 0
  /\ cv_push_ = {} /\ cv_pop_ = {} /\ poppers = {} /\ pushers = {}
  /\ pending = [p \in Producers |-> nullptr]
  /\ pushed = [p \in Producers |-> FALSE]
  /\ popped = [c \in Consumers |-> nullptr]

isEmpty == item_count_ = 0

isFull == item_count_ = queue_size_

\* Faulty variant: wakes somebody only when the queue was empty or full.
notify_first(threads) ==
  IF threads = {} \/ ~(isEmpty \/ isFull) THEN {{}} ELSE {{t} : t \in threads}

\* notify_one(): the sets of threads it may wake.
notify_one(threads) == IF threads = {} THEN {{}} ELSE {{t} : t \in threads}

----------------------------------------------------------------------------
(* push()                                                                  *)

\* Faulty variant: forgets that the items start at front_idx_.
back_idx_from_0 == item_count_ % queue_size_

back_idx == (front_idx_ + item_count_) % queue_size_

Store(p, item) ==
  /\ ~isFull
  /\ buffer_' = [buffer_ EXCEPT ![back_idx] = item]
  /\ item_count_' = item_count_ + 1
  /\ UNCHANGED front_idx_
  /\ \E woken \in notify_one(cv_push_) :
       /\ cv_push_' = cv_push_ \ woken
       /\ poppers' = poppers \cup woken
  /\ pushed' = [pushed EXCEPT ![p] = TRUE]

Refuse(p) ==
  /\ isFull
  /\ pushed' = [pushed EXCEPT ![p] = FALSE]
  /\ UNCHANGED <<ring, cv_push_, poppers>>

push(p, item) ==
  /\ p \notin cv_pop_ \cup pushers
  /\ Store(p, item) \/ Refuse(p)
  /\ UNCHANGED <<cv_pop_, pushers, pending, popped>>

\* The queue is full and the producer has some time.
WaitForPop(p, item) ==
  /\ p \notin cv_pop_ \cup pushers
  /\ isFull
  /\ cv_pop_' = cv_pop_ \cup {p}
  /\ pending' = [pending EXCEPT ![p] = item]
  /\ UNCHANGED <<ring, cv_push_, poppers, pushers, pushed, popped>>

\* wait_for() is over; whatever ended it, the queue decides.
EndWaitForPop(p) ==
  /\ p \in cv_pop_ \cup pushers
  /\ Store(p, pending[p]) \/ Refuse(p)
  /\ cv_pop_' = cv_pop_ \ {p}
  /\ pushers' = pushers \ {p}
  /\ UNCHANGED <<pending, popped>>

----------------------------------------------------------------------------
(* pop()                                                                   *)

next_idx == (front_idx_ + 1) % queue_size_

Take(c) ==
  /\ ~isEmpty
  /\ popped' = [popped EXCEPT ![c] = buffer_[front_idx_]]
  /\ front_idx_' = next_idx
  /\ item_count_' = item_count_ - 1
  /\ UNCHANGED buffer_
  /\ \E woken \in notify_one(cv_pop_) :
       /\ cv_pop_' = cv_pop_ \ woken
       /\ pushers' = pushers \cup woken

TakeNothing(c) ==
  /\ isEmpty
  /\ popped' = [popped EXCEPT ![c] = nullptr]
  /\ UNCHANGED <<ring, cv_pop_, pushers>>

pop(c) ==
  /\ c \notin cv_push_ \cup poppers
  /\ Take(c) \/ TakeNothing(c)
  /\ UNCHANGED <<cv_push_, poppers, pending, pushed>>

WaitForPush(c) ==
  /\ c \notin cv_push_ \cup poppers
  /\ isEmpty
  /\ cv_push_' = cv_push_ \cup {c}
  /\ UNCHANGED <<ring, cv_pop_, poppers, pushers, pending, pushed, popped>>

EndWaitForPush(c) ==
  /\ c \in cv_push_ \cup poppers
  /\ Take(c) \/ TakeNothing(c)
  /\ cv_push_' = cv_push_ \ {c}
  /\ poppers' = poppers \ {c}
  /\ UNCHANGED <<pending, pushed>>

----------------------------------------------------------------------------
ProducerStep(p) ==
  \/ \E item \in Items : push(p, item) \/ WaitForPop(p, item)
  \/ EndWaitForPop(p)

ConsumerStep(c) == pop(c) \/ WaitForPush(c) \/ EndWaitForPush(c)

Next ==
  \/ \E p \in Producers : ProducerStep(p)
  \/ \E c \in Consumers : ConsumerStep(c)

Spec == Init /\ [][Next]_vars

----------------------------------------------------------------------------
(***************************************************************************)
(* Nobody sleeps out a timeout that is no longer called for: while a       *)
(* consumer waits unnotified, every item in the queue has a notified       *)
(* consumer coming for it; and while a producer does, every free place.    *)
(* It takes one notify_one() per item: a packet would otherwise lie in the *)
(* queue until the service's next tick, up to a second later.              *)
(***************************************************************************)
NoNeedlessSleep ==
  /\ cv_push_ # {} => item_count_ <= Cardinality(poppers)
  /\ cv_pop_ # {} => queue_size_ - item_count_ <= Cardinality(pushers)

Contents ==
  [i \in 1..item_count_ |-> buffer_[(front_idx_ + i - 1) % queue_size_]]

Fifo == INSTANCE BoundedFifo WITH items <- Contents, Capacity <- queue_size_

(***************************************************************************)
(* The ring buffer, with its waiting threads, is a bounded FIFO queue.     *)
(***************************************************************************)
IsFifo == Fifo!Spec
=============================================================================
