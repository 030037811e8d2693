------------------------ MODULE BlockingQueue_proof ------------------------
(***************************************************************************)
(* Proofs that BlockingQueue is a bounded FIFO queue and loses no wakeup,  *)
(* for every length of the ring and any number of threads.                 *)
(***************************************************************************)
EXTENDS BlockingQueue, FiniteSetTheorems, SequenceTheorems, TLAPS

----------------------------------------------------------------------------
(* Indices of the ring.                                                    *)

LEMMA WrapAround ==
  ASSUME NEW n \in Nat \ {0}, NEW x \in Nat, x < n + n
  PROVE  x % n = IF x < n THEN x ELSE x - n
<1>1. x = n * (x \div n) + (x % n) /\ x % n \in 0..(n - 1) /\ x \div n \in Nat
  BY SMT
<1>2. PICK q \in Nat, r \in 0..(n - 1) : x = n * q + r /\ r = x % n
  BY <1>1
<1>3. CASE q = 0
  BY <1>2, <1>3
<1>4. CASE q = 1
  BY <1>2, <1>4
<1>5. CASE q >= 2
  <2>1. n * q >= n * 2
    BY <1>5, SMT
  <2> QED
    BY <1>2, <2>1
<1> QED
  BY <1>3, <1>4, <1>5

LEMMA SizeIsPositive == queue_size_ \in Nat \ {0} /\ Index = 0..(queue_size_ - 1)
BY BlockingQueueAssumption DEF Index

\* Where the i-th item from some front lies, when nothing is beyond one turn.
LEMMA Slot ==
  ASSUME NEW f \in Index, NEW i \in 0..queue_size_
  PROVE  /\ (f + i) % queue_size_ \in Index
         /\ (f + i) % queue_size_ =
              IF f + i < queue_size_ THEN f + i ELSE f + i - queue_size_
<1>1. f + i \in Nat /\ f + i < queue_size_ + queue_size_
  BY SizeIsPositive
<1>2. PICK x \in Nat : x = f + i /\ x < queue_size_ + queue_size_
  BY <1>1
<1>3. x % queue_size_ = IF x < queue_size_ THEN x ELSE x - queue_size_
  BY <1>2, SizeIsPositive, WrapAround
<1> QED
  BY <1>2, <1>3, SizeIsPositive

LEMMA IndexType ==
  ASSUME RingType
  PROVE  /\ back_idx \in Index
         /\ next_idx \in Index
<1>1. 1 \in 0..queue_size_ /\ front_idx_ \in Index /\ item_count_ \in 0..queue_size_
  BY SizeIsPositive DEF RingType
<1> QED
  BY <1>1, Slot DEF back_idx, next_idx

----------------------------------------------------------------------------
(* Type correctness.                                                       *)

LEMMA InitType == Init => TypeOK
<1> SUFFICES ASSUME Init PROVE TypeOK
  OBVIOUS
<1>1. RingType
  BY SizeIsPositive DEF Init, RingType
<1>2. WaitersType /\ ResultsType
  BY DEF Init, WaitersType, ResultsType
<1> QED
  BY <1>1, <1>2 DEF TypeOK

LEMMA StoreType ==
  ASSUME TypeOK, NEW p \in Producers, NEW item \in Items, Store(p, item)
  PROVE  /\ RingType'
         /\ cv_push_' \subseteq Consumers /\ poppers' \subseteq Consumers \ cv_push_'
         /\ pushed' \in [Producers -> BOOLEAN]
<1>1. item_count_' \in 0..queue_size_
  BY SizeIsPositive DEF Store, TypeOK, RingType, isFull
<1>2. RingType'
  BY <1>1, IndexType DEF Store, TypeOK, RingType
<1>3. PICK woken \in notify_one(cv_push_) :
        cv_push_' = cv_push_ \ woken /\ poppers' = poppers \cup woken
  BY DEF Store
<1>4. woken \subseteq cv_push_
  BY <1>3 DEF notify_one
<1>5. cv_push_' \subseteq Consumers /\ poppers' \subseteq Consumers \ cv_push_'
  BY <1>3, <1>4 DEF TypeOK, WaitersType
<1>6. pushed' \in [Producers -> BOOLEAN]
  BY DEF Store, TypeOK, ResultsType
<1> QED
  BY <1>2, <1>5, <1>6

LEMMA RefuseType ==
  ASSUME TypeOK, NEW p \in Producers, Refuse(p)
  PROVE  /\ RingType'
         /\ cv_push_' \subseteq Consumers /\ poppers' \subseteq Consumers \ cv_push_'
         /\ pushed' \in [Producers -> BOOLEAN]
<1>1. RingType'
  BY DEF Refuse, TypeOK, RingType, ring
<1> QED
  BY <1>1 DEF Refuse, TypeOK, WaitersType, ResultsType, ring

LEMMA TakeType ==
  ASSUME TypeOK, NEW c \in Consumers, Take(c)
  PROVE  /\ RingType'
         /\ cv_pop_' \subseteq Producers /\ pushers' \subseteq Producers \ cv_pop_'
         /\ cv_pop_' \cup pushers' = cv_pop_ \cup pushers
         /\ popped' \in [Consumers -> Items \cup {nullptr}]
<1>1. item_count_' \in 0..queue_size_
  BY SizeIsPositive DEF Take, TypeOK, RingType, isEmpty
<1>2. RingType'
  BY <1>1, IndexType DEF Take, TypeOK, RingType
<1>3. PICK woken \in notify_one(cv_pop_) :
        cv_pop_' = cv_pop_ \ woken /\ pushers' = pushers \cup woken
  BY DEF Take
<1>4. woken \subseteq cv_pop_
  BY <1>3 DEF notify_one
<1>5. /\ cv_pop_' \subseteq Producers /\ pushers' \subseteq Producers \ cv_pop_'
      /\ cv_pop_' \cup pushers' = cv_pop_ \cup pushers
  BY <1>3, <1>4 DEF TypeOK, WaitersType
<1>6. popped' \in [Consumers -> Items \cup {nullptr}]
  BY DEF Take, TypeOK, RingType, ResultsType
<1> QED
  BY <1>2, <1>5, <1>6

LEMMA TakeNothingType ==
  ASSUME TypeOK, NEW c \in Consumers, TakeNothing(c)
  PROVE  /\ RingType'
         /\ cv_pop_' \subseteq Producers /\ pushers' \subseteq Producers \ cv_pop_'
         /\ cv_pop_' \cup pushers' = cv_pop_ \cup pushers
         /\ popped' \in [Consumers -> Items \cup {nullptr}]
<1>1. RingType'
  BY DEF TakeNothing, TypeOK, RingType, ring
<1> QED
  BY <1>1 DEF TakeNothing, TypeOK, WaitersType, ResultsType, ring

LEMMA ProducerType ==
  ASSUME TypeOK, NEW p \in Producers, ProducerStep(p)
  PROVE  TypeOK'
<1>1. ASSUME NEW item \in Items, push(p, item) PROVE TypeOK'
  <2>1. RingType' /\ cv_push_' \subseteq Consumers
        /\ poppers' \subseteq Consumers \ cv_push_' /\ pushed' \in [Producers -> BOOLEAN]
    BY <1>1, StoreType, RefuseType DEF push
  <2>2. UNCHANGED <<cv_pop_, pushers, pending, popped>>
    BY <1>1 DEF push
  <2> QED
    BY <2>1, <2>2 DEF TypeOK, WaitersType, ResultsType
<1>2. ASSUME NEW item \in Items, WaitForPop(p, item) PROVE TypeOK'
  <2>1. RingType'
    BY <1>2 DEF WaitForPop, TypeOK, RingType, ring
  <2>2. WaitersType'
    BY <1>2 DEF WaitForPop, TypeOK, WaitersType
  <2>3. ResultsType'
    BY <1>2, BlockingQueueAssumption DEF WaitForPop, TypeOK, WaitersType, ResultsType
  <2> QED
    BY <2>1, <2>2, <2>3 DEF TypeOK
<1>3. ASSUME EndWaitForPop(p) PROVE TypeOK'
  <2>1. pending[p] \in Items
    BY <1>3 DEF EndWaitForPop, TypeOK, ResultsType
  <2>2. RingType' /\ cv_push_' \subseteq Consumers
        /\ poppers' \subseteq Consumers \ cv_push_' /\ pushed' \in [Producers -> BOOLEAN]
    BY <1>3, <2>1, StoreType, RefuseType DEF EndWaitForPop
  <2>3. /\ cv_pop_' = cv_pop_ \ {p} /\ pushers' = pushers \ {p}
        /\ UNCHANGED <<pending, popped>>
    BY <1>3 DEF EndWaitForPop
  <2> QED
    BY <2>2, <2>3 DEF TypeOK, WaitersType, ResultsType
<1> QED
  BY <1>1, <1>2, <1>3 DEF ProducerStep

LEMMA ConsumerType ==
  ASSUME TypeOK, NEW c \in Consumers, ConsumerStep(c)
  PROVE  TypeOK'
<1>1. ASSUME pop(c) PROVE TypeOK'
  <2>1. RingType' /\ cv_pop_' \subseteq Producers
        /\ pushers' \subseteq Producers \ cv_pop_'
        /\ cv_pop_' \cup pushers' = cv_pop_ \cup pushers
        /\ popped' \in [Consumers -> Items \cup {nullptr}]
    BY <1>1, TakeType, TakeNothingType DEF pop
  <2>2. UNCHANGED <<cv_push_, poppers, pending, pushed>>
    BY <1>1 DEF pop
  <2> QED
    BY <2>1, <2>2 DEF TypeOK, WaitersType, ResultsType
<1>2. ASSUME WaitForPush(c) PROVE TypeOK'
  <2>1. RingType'
    BY <1>2 DEF WaitForPush, TypeOK, RingType, ring
  <2>2. WaitersType'
    BY <1>2 DEF WaitForPush, TypeOK, WaitersType
  <2>3. ResultsType'
    BY <1>2 DEF WaitForPush, TypeOK, ResultsType
  <2> QED
    BY <2>1, <2>2, <2>3 DEF TypeOK
<1>3. ASSUME EndWaitForPush(c) PROVE TypeOK'
  <2>1. RingType' /\ cv_pop_' \subseteq Producers
        /\ pushers' \subseteq Producers \ cv_pop_'
        /\ cv_pop_' \cup pushers' = cv_pop_ \cup pushers
        /\ popped' \in [Consumers -> Items \cup {nullptr}]
    BY <1>3, TakeType, TakeNothingType DEF EndWaitForPush
  <2>2. /\ cv_push_' = cv_push_ \ {c} /\ poppers' = poppers \ {c}
        /\ UNCHANGED <<pending, pushed>>
    BY <1>3 DEF EndWaitForPush
  <2> QED
    BY <2>1, <2>2 DEF TypeOK, WaitersType, ResultsType
<1> QED
  BY <1>1, <1>2, <1>3 DEF ConsumerStep

LEMMA NextType == TypeOK /\ [Next]_vars => TypeOK'
<1> SUFFICES ASSUME TypeOK, [Next]_vars PROVE TypeOK'
  OBVIOUS
<1>1. CASE Next
  BY <1>1, ProducerType, ConsumerType DEF Next
<1>2. CASE UNCHANGED vars
  BY <1>2 DEF TypeOK, RingType, WaitersType, ResultsType, vars, ring, waiters
<1> QED
  BY <1>1, <1>2

\* Every variable of the queue keeps its type: no index leaves the ring and no
\* counter its bounds, for every queue length.
THEOREM TypeCorrect == Spec => []TypeOK
<1> QED
  BY InitType, NextType, PTL DEF Spec

----------------------------------------------------------------------------
(* No lost wakeup.                                                         *)

LEMMA Finite ==
  ASSUME TypeOK
  PROVE  /\ IsFiniteSet(poppers) /\ Cardinality(poppers) \in Nat
         /\ IsFiniteSet(pushers) /\ Cardinality(pushers) \in Nat
<1>1. IsFiniteSet(poppers) /\ IsFiniteSet(pushers)
  BY BlockingQueueAssumption, FS_Subset DEF TypeOK, WaitersType
<1> QED
  BY <1>1, FS_CardinalityType

\* notify_one() adds one thread to those on their way, if any waits.
LEMMA OneMore ==
  ASSUME NEW waiting, NEW notified, IsFiniteSet(notified),
         notified \cap waiting = {}, waiting # {},
         NEW woken \in notify_one(waiting)
  PROVE  Cardinality(notified \cup woken) = Cardinality(notified) + 1
<1>1. PICK t \in waiting : woken = {t}
  BY DEF notify_one
<1>2. t \notin notified
  BY <1>1
<1> QED
  BY <1>1, <1>2, FS_AddElement

\* A thread that goes on leaves the notified ones by at most one fewer.
LEMMA OneLess ==
  ASSUME NEW notified, IsFiniteSet(notified), NEW t
  PROVE  /\ Cardinality(notified \ {t}) \in Nat
         /\ Cardinality(notified \ {t}) >= Cardinality(notified) - 1
<1>1. IsFiniteSet(notified \ {t})
  BY FS_RemoveElement
<1>2. Cardinality(notified \ {t}) \in Nat /\ Cardinality(notified) \in Nat
  BY <1>1, FS_CardinalityType
<1>3. Cardinality(notified \ {t}) =
        IF t \in notified THEN Cardinality(notified) - 1 ELSE Cardinality(notified)
  BY FS_RemoveElement
<1> QED
  BY <1>2, <1>3

ConsumersAwake == cv_push_ # {} => item_count_ <= Cardinality(poppers)

ProducersAwake == cv_pop_ # {} => queue_size_ - item_count_ <= Cardinality(pushers)

LEMMA InitAwake == Init => ConsumersAwake /\ ProducersAwake
BY DEF Init, ConsumersAwake, ProducersAwake

LEMMA StoreAwake ==
  ASSUME TypeOK, ConsumersAwake, NEW p \in Producers, NEW item, Store(p, item)
  PROVE  ConsumersAwake' /\ item_count_' = item_count_ + 1
<1>1. PICK woken \in notify_one(cv_push_) :
        cv_push_' = cv_push_ \ woken /\ poppers' = poppers \cup woken
  BY DEF Store
<1>2. item_count_' = item_count_ + 1
  BY DEF Store
<1>3. CASE cv_push_ = {}
  BY <1>1, <1>2, <1>3 DEF ConsumersAwake
<1>4. CASE cv_push_ # {}
  <2>1. poppers \cap cv_push_ = {}
    BY DEF TypeOK, WaitersType
  <2>2. Cardinality(poppers') = Cardinality(poppers) + 1
    BY <1>1, <1>4, <2>1, Finite, OneMore
  <2>3. item_count_ \in Nat
    BY SizeIsPositive DEF TypeOK, RingType
  <2> QED
    BY <1>2, <1>4, <2>2, <2>3, Finite DEF ConsumersAwake
<1> QED
  BY <1>2, <1>3, <1>4

LEMMA TakeAwake ==
  ASSUME TypeOK, ProducersAwake, NEW c \in Consumers, Take(c)
  PROVE  ProducersAwake' /\ item_count_' = item_count_ - 1
<1>1. PICK woken \in notify_one(cv_pop_) :
        cv_pop_' = cv_pop_ \ woken /\ pushers' = pushers \cup woken
  BY DEF Take
<1>2. item_count_' = item_count_ - 1
  BY DEF Take
<1>3. CASE cv_pop_ = {}
  BY <1>1, <1>2, <1>3 DEF ProducersAwake
<1>4. CASE cv_pop_ # {}
  <2>1. pushers \cap cv_pop_ = {}
    BY DEF TypeOK, WaitersType
  <2>2. Cardinality(pushers') = Cardinality(pushers) + 1
    BY <1>1, <1>4, <2>1, Finite, OneMore
  <2>3. item_count_ \in Nat /\ queue_size_ \in Nat
    BY SizeIsPositive DEF TypeOK, RingType
  <2>4. queue_size_ - item_count_ <= Cardinality(pushers)
    BY <1>4 DEF ProducersAwake
  <2>5. queue_size_ - (item_count_ - 1) <= Cardinality(pushers')
    BY <2>2, <2>3, <2>4, Finite
  <2> QED
    BY <1>2, <2>5 DEF ProducersAwake
<1> QED
  BY <1>2, <1>3, <1>4

\* What push() leaves of the room the producers wait for.
LEMMA RoomShrinks ==
  ASSUME TypeOK, NEW p \in Producers, NEW item, Store(p, item) \/ Refuse(p)
  PROVE  /\ queue_size_ - item_count_' \in Int /\ queue_size_ - item_count_ \in Nat
         /\ \/ queue_size_ - item_count_' = queue_size_ - item_count_ - 1
            \/ queue_size_ - item_count_' = 0
<1>1. item_count_ \in 0..queue_size_ /\ queue_size_ \in Nat
  BY SizeIsPositive DEF TypeOK, RingType
<1>2. CASE Store(p, item)
  BY <1>1, <1>2 DEF Store
<1>3. CASE Refuse(p)
  BY <1>1, <1>3 DEF Refuse, isFull, ring
<1> QED
  BY <1>2, <1>3

LEMMA ProducerAwake ==
  ASSUME TypeOK, ConsumersAwake, ProducersAwake, NEW p \in Producers, ProducerStep(p)
  PROVE  ConsumersAwake' /\ ProducersAwake'
<1>1. ASSUME NEW item \in Items, Store(p, item) \/ Refuse(p) PROVE ConsumersAwake'
  <2>1. CASE Store(p, item)
    BY <2>1, StoreAwake
  <2>2. CASE Refuse(p)
    BY <2>2 DEF Refuse, ConsumersAwake, ring
  <2> QED
    BY <1>1, <2>1, <2>2
<1>2. ASSUME NEW item \in Items, push(p, item) PROVE ConsumersAwake' /\ ProducersAwake'
  <2>1. ConsumersAwake'
    BY <1>1, <1>2 DEF push
  <2>2. UNCHANGED <<cv_pop_, pushers>>
    BY <1>2 DEF push
  <2>3. \/ queue_size_ - item_count_' = queue_size_ - item_count_ - 1
        \/ queue_size_ - item_count_' = 0
    BY <1>2, RoomShrinks DEF push
  <2>4. queue_size_ - item_count_ \in Nat
    BY <1>2, RoomShrinks DEF push
  <2> QED
    BY <2>1, <2>2, <2>3, <2>4, Finite DEF ProducersAwake
<1>3. ASSUME NEW item \in Items, WaitForPop(p, item) PROVE ConsumersAwake' /\ ProducersAwake'
  <2>1. UNCHANGED <<item_count_, cv_push_, poppers, pushers>>
    BY <1>3 DEF WaitForPop, ring
  <2>2. ConsumersAwake'
    BY <2>1 DEF ConsumersAwake
  <2>3. queue_size_ - item_count_ = 0
    BY <1>3, SizeIsPositive DEF WaitForPop, isFull
  <2> QED
    BY <2>1, <2>2, <2>3, Finite DEF ProducersAwake
<1>4. ASSUME EndWaitForPop(p) PROVE ConsumersAwake' /\ ProducersAwake'
  <2>1. pending[p] \in Items
    BY <1>4 DEF EndWaitForPop, TypeOK, ResultsType
  <2>2. ConsumersAwake'
    BY <1>1, <1>4, <2>1 DEF EndWaitForPop
  <2>3. cv_pop_' \subseteq cv_pop_ /\ pushers' = pushers \ {p}
    BY <1>4 DEF EndWaitForPop
  <2>4. /\ Cardinality(pushers') \in Nat
        /\ Cardinality(pushers') >= Cardinality(pushers) - 1
    BY <2>3, Finite, OneLess
  <2>5. /\ queue_size_ - item_count_ \in Nat
        /\ \/ queue_size_ - item_count_' = queue_size_ - item_count_ - 1
           \/ queue_size_ - item_count_' = 0
    BY <1>4, RoomShrinks DEF EndWaitForPop
  <2> QED
    BY <2>2, <2>3, <2>4, <2>5, Finite DEF ProducersAwake
<1> QED
  BY <1>2, <1>3, <1>4 DEF ProducerStep

LEMMA ConsumerAwake ==
  ASSUME TypeOK, ConsumersAwake, ProducersAwake, NEW c \in Consumers, ConsumerStep(c)
  PROVE  ConsumersAwake' /\ ProducersAwake'
<1>1. ASSUME Take(c) \/ TakeNothing(c)
      PROVE  /\ ProducersAwake'
             /\ item_count_ \in Nat
             /\ item_count_' = item_count_ - 1 \/ item_count_' = 0
  <2>1. item_count_ \in Nat
    BY SizeIsPositive DEF TypeOK, RingType
  <2>2. CASE Take(c)
    BY <2>1, <2>2, TakeAwake
  <2>3. CASE TakeNothing(c)
    BY <2>1, <2>3 DEF TakeNothing, isEmpty, ProducersAwake, ring
  <2> QED
    BY <1>1, <2>2, <2>3
<1>2. ASSUME pop(c) PROVE ConsumersAwake' /\ ProducersAwake'
  <2>1. UNCHANGED <<cv_push_, poppers>>
    BY <1>2 DEF pop
  <2> QED
    BY <1>1, <1>2, <2>1, Finite DEF pop, ConsumersAwake
<1>3. ASSUME WaitForPush(c) PROVE ConsumersAwake' /\ ProducersAwake'
  <2>1. UNCHANGED <<item_count_, cv_pop_, poppers, pushers>>
    BY <1>3 DEF WaitForPush, ring
  <2>2. item_count_ = 0
    BY <1>3 DEF WaitForPush, isEmpty
  <2> QED
    BY <2>1, <2>2, Finite DEF ConsumersAwake, ProducersAwake
<1>4. ASSUME EndWaitForPush(c) PROVE ConsumersAwake' /\ ProducersAwake'
  <2>1. cv_push_' \subseteq cv_push_ /\ poppers' = poppers \ {c}
    BY <1>4 DEF EndWaitForPush
  <2>2. /\ Cardinality(poppers') \in Nat
        /\ Cardinality(poppers') >= Cardinality(poppers) - 1
    BY <2>1, Finite, OneLess
  <2>3. /\ ProducersAwake'
        /\ item_count_ \in Nat
        /\ item_count_' = item_count_ - 1 \/ item_count_' = 0
    BY <1>1, <1>4 DEF EndWaitForPush
  <2> QED
    BY <2>1, <2>2, <2>3, Finite DEF ConsumersAwake
<1> QED
  BY <1>2, <1>3, <1>4 DEF ConsumerStep

LEMMA NextAwake ==
  TypeOK /\ ConsumersAwake /\ ProducersAwake /\ [Next]_vars
    => ConsumersAwake' /\ ProducersAwake'
<1> SUFFICES ASSUME TypeOK, ConsumersAwake, ProducersAwake, [Next]_vars
             PROVE  ConsumersAwake' /\ ProducersAwake'
  OBVIOUS
<1>1. CASE Next
  BY <1>1, ProducerAwake, ConsumerAwake DEF Next
<1>2. CASE UNCHANGED vars
  BY <1>2 DEF ConsumersAwake, ProducersAwake, vars, ring, waiters
<1> QED
  BY <1>1, <1>2

\* No thread sleeps out its timeout beside an item (or a place) that none of
\* the notified threads comes for: notify_one() is never one too few.
THEOREM NoNeedlessSleepHolds == Spec => []NoNeedlessSleep
<1>1. ConsumersAwake /\ ProducersAwake => NoNeedlessSleep
  BY DEF ConsumersAwake, ProducersAwake, NoNeedlessSleep
<1>2. QED
  BY <1>1, InitType, NextType, InitAwake, NextAwake, PTL DEF Spec

----------------------------------------------------------------------------
(* Refinement.                                                             *)

\* The sequence that n slots from f on hold.
LEMMA RingIsSeq ==
  ASSUME NEW buf \in [Index -> Items \cup {nullptr}], NEW f \in Index,
         NEW n \in 0..queue_size_
  PROVE  LET s == [i \in 1..n |-> buf[(f + i - 1) % queue_size_]]
         IN  /\ s \in Seq(Items \cup {nullptr}) /\ Len(s) = n
             /\ \A i \in 1..n : s[i] = buf[(f + (i - 1)) % queue_size_]
<1>1. n \in Nat
  BY SizeIsPositive
<1>2. ASSUME NEW i \in 1..n
      PROVE  /\ f + i - 1 = f + (i - 1)
             /\ buf[(f + (i - 1)) % queue_size_] \in Items \cup {nullptr}
  <2>1. i - 1 \in 0..queue_size_ /\ f + i - 1 = f + (i - 1)
    BY <1>1, SizeIsPositive
  <2>2. (f + (i - 1)) % queue_size_ \in Index
    BY <2>1, Slot
  <2> QED
    BY <2>1, <2>2
<1> DEFINE s == [i \in 1..n |-> buf[(f + i - 1) % queue_size_]]
<1>3. s = [i \in 1..n |-> buf[(f + (i - 1)) % queue_size_]]
  BY <1>2
<1>4. s \in [1..n -> Items \cup {nullptr}]
  BY <1>2, <1>3
<1>5. s \in Seq(Items \cup {nullptr}) /\ Len(s) = n
  BY <1>1, <1>4
<1> QED
  BY <1>3, <1>5

LEMMA ContentsAre ==
  ASSUME RingType
  PROVE  /\ Contents \in Seq(Items \cup {nullptr}) /\ Len(Contents) = item_count_
         /\ \A i \in 1..item_count_ :
              Contents[i] = buffer_[(front_idx_ + (i - 1)) % queue_size_]
BY RingIsSeq DEF RingType, Contents

LEMMA ContentsWillBe ==
  ASSUME RingType'
  PROVE  /\ Contents' \in Seq(Items \cup {nullptr}) /\ Len(Contents') = item_count_'
         /\ \A i \in 1..item_count_' :
              Contents'[i] = buffer_'[(front_idx_' + (i - 1)) % queue_size_]
BY RingIsSeq DEF RingType, Contents

\* No two items of the queue share a slot.
LEMMA SlotsDiffer ==
  ASSUME NEW f \in Index, NEW i \in 0..(queue_size_ - 1), NEW j \in 0..(queue_size_ - 1),
         i < j
  PROVE  (f + i) % queue_size_ # (f + j) % queue_size_
<1>1. i \in 0..queue_size_ /\ j \in 0..queue_size_
  BY SizeIsPositive
<1>2. PICK a : a = (f + i) % queue_size_
  OBVIOUS
<1>3. PICK b : b = (f + j) % queue_size_
  OBVIOUS
<1>4. a = IF f + i < queue_size_ THEN f + i ELSE f + i - queue_size_
  BY <1>1, <1>2, Slot
<1>5. b = IF f + j < queue_size_ THEN f + j ELSE f + j - queue_size_
  BY <1>1, <1>3, Slot
<1>6. a # b
  BY <1>4, <1>5, SizeIsPositive
<1> QED
  BY <1>2, <1>3, <1>6

\* Advancing the front by one and then by i is advancing it by i + 1.
LEMMA Advance ==
  ASSUME NEW f \in Index, NEW i \in 0..(queue_size_ - 1)
  PROVE  (((f + 1) % queue_size_) + i) % queue_size_ = (f + (i + 1)) % queue_size_
<1>1. 1 \in 0..queue_size_ /\ i \in 0..queue_size_ /\ i + 1 \in 0..queue_size_
  BY SizeIsPositive
<1>2. PICK g \in Index : g = (f + 1) % queue_size_
  BY <1>1, Slot
<1>3. g = IF f + 1 < queue_size_ THEN f + 1 ELSE f + 1 - queue_size_
  BY <1>1, <1>2, Slot
<1>4. PICK a : a = (g + i) % queue_size_
  OBVIOUS
<1>5. a = IF g + i < queue_size_ THEN g + i ELSE g + i - queue_size_
  BY <1>1, <1>4, Slot
<1>6. PICK b : b = (f + (i + 1)) % queue_size_
  OBVIOUS
<1>7. b = IF f + (i + 1) < queue_size_ THEN f + (i + 1) ELSE f + (i + 1) - queue_size_
  BY <1>1, <1>6, Slot
<1>8. a = b
  BY <1>3, <1>5, <1>7, SizeIsPositive
<1> QED
  BY <1>2, <1>4, <1>6, <1>8

LEMMA StoreAppends ==
  ASSUME TypeOK, NEW p \in Producers, NEW item \in Items, Store(p, item)
  PROVE  Contents' = Append(Contents, item) /\ Len(Contents) < queue_size_
<1>1. RingType /\ RingType'
  BY StoreType DEF TypeOK
<1>2. /\ item_count_ \in Nat /\ item_count_ < queue_size_
      /\ item_count_' = item_count_ + 1 /\ front_idx_' = front_idx_
      /\ front_idx_ \in Index
      /\ buffer_' = [buffer_ EXCEPT ![back_idx] = item]
      /\ buffer_ \in [Index -> Items \cup {nullptr}]
  BY <1>1, SizeIsPositive DEF Store, RingType, isFull
<1>3. /\ Contents' \in Seq(Items \cup {nullptr}) /\ Len(Contents') = item_count_ + 1
      /\ \A i \in 1..(item_count_ + 1) :
           Contents'[i] = buffer_'[(front_idx_ + (i - 1)) % queue_size_]
  BY <1>1, <1>2, ContentsWillBe
<1>4. /\ Contents \in Seq(Items \cup {nullptr}) /\ Len(Contents) = item_count_
      /\ \A i \in 1..item_count_ :
           Contents[i] = buffer_[(front_idx_ + (i - 1)) % queue_size_]
  BY <1>1, ContentsAre
<1>5. ASSUME NEW i \in 1..item_count_ PROVE Contents'[i] = Contents[i]
  <2>1. i - 1 \in 0..(queue_size_ - 1) /\ item_count_ \in 0..(queue_size_ - 1)
        /\ i - 1 < item_count_ /\ i - 1 \in 0..queue_size_
    BY <1>2, SizeIsPositive
  <2>2. (front_idx_ + (i - 1)) % queue_size_ # back_idx
    BY <1>2, <2>1, SlotsDiffer DEF back_idx
  <2>3. (front_idx_ + (i - 1)) % queue_size_ \in Index
    BY <1>2, <2>1, Slot
  <2>4. buffer_'[(front_idx_ + (i - 1)) % queue_size_] =
          buffer_[(front_idx_ + (i - 1)) % queue_size_]
    BY <1>2, <2>2, <2>3
  <2>5. i \in 1..(item_count_ + 1)
    BY <1>2
  <2> QED
    BY <1>3, <1>4, <2>4, <2>5
<1>6. Contents'[item_count_ + 1] = item
  <2>1. item_count_ + 1 \in 1..(item_count_ + 1) /\ (item_count_ + 1) - 1 = item_count_
    BY <1>2
  <2>2. Contents'[item_count_ + 1] = buffer_'[back_idx]
    BY <1>3, <2>1 DEF back_idx
  <2>3. back_idx \in Index
    BY <1>1, IndexType
  <2> QED
    BY <1>2, <2>2, <2>3
<1>7. PICK s \in Seq(Items \cup {nullptr}) :
        /\ s = Append(Contents, item) /\ Len(s) = item_count_ + 1
        /\ s[item_count_ + 1] = item
        /\ \A i \in 1..item_count_ : s[i] = Contents[i]
  <2>1. Append(Contents, item) \in Seq(Items \cup {nullptr})
    BY <1>4
  <2>2. /\ Len(Append(Contents, item)) = Len(Contents) + 1
        /\ Append(Contents, item)[Len(Contents) + 1] = item
        /\ \A i \in 1..Len(Contents) : Append(Contents, item)[i] = Contents[i]
    BY <1>4, AppendProperties
  <2> QED
    BY <1>4, <2>1, <2>2, Zenon
<1>8. ASSUME NEW i \in 1..(item_count_ + 1) PROVE Contents'[i] = s[i]
  <2>1. i = item_count_ + 1 \/ i \in 1..item_count_
    BY <1>2
  <2> QED
    BY <1>5, <1>6, <1>7, <2>1
<1>9. Contents' = s
  BY <1>3, <1>7, <1>8, SeqEqual
<1> QED
  BY <1>2, <1>4, <1>7, <1>9

LEMMA TakeRemovesHead ==
  ASSUME TypeOK, NEW c \in Consumers, Take(c)
  PROVE  /\ Contents # <<>> /\ Contents' = Tail(Contents)
         /\ Head(Contents) = buffer_[front_idx_]
<1>1. RingType /\ RingType'
  BY TakeType DEF TypeOK
<1>2. /\ item_count_ \in 1..queue_size_ /\ item_count_' = item_count_ - 1
      /\ front_idx_ \in Index /\ front_idx_' = next_idx
      /\ buffer_' = buffer_
  BY <1>1, SizeIsPositive DEF Take, RingType, isEmpty
<1>3. /\ Contents' \in Seq(Items \cup {nullptr}) /\ Len(Contents') = item_count_ - 1
      /\ \A i \in 1..(item_count_ - 1) :
           Contents'[i] = buffer_[(next_idx + (i - 1)) % queue_size_]
  BY <1>1, <1>2, ContentsWillBe
<1>4. /\ Contents \in Seq(Items \cup {nullptr}) /\ Len(Contents) = item_count_
      /\ \A i \in 1..item_count_ :
           Contents[i] = buffer_[(front_idx_ + (i - 1)) % queue_size_]
  BY <1>1, ContentsAre
<1>5. Contents # <<>>
  BY <1>2, <1>4
<1>6. Head(Contents) = buffer_[front_idx_]
  <2>1. 1 \in 1..item_count_ /\ 1 - 1 = 0 /\ 0 \in 0..queue_size_
    BY <1>2, SizeIsPositive
  <2>2. PICK a : a = (front_idx_ + 0) % queue_size_
    OBVIOUS
  <2>3. a = IF front_idx_ + 0 < queue_size_
              THEN front_idx_ + 0 ELSE front_idx_ + 0 - queue_size_
    BY <1>2, <2>1, <2>2, Slot
  <2>4. a = front_idx_
    BY <1>2, <2>3, SizeIsPositive
  <2>5. Contents[1] = buffer_[(front_idx_ + 0) % queue_size_]
    BY <1>4, <2>1
  <2> QED
    BY <1>4, <1>5, <2>2, <2>4, <2>5
<1>7. /\ Tail(Contents) \in Seq(Items \cup {nullptr}) /\ Len(Tail(Contents)) = item_count_ - 1
      /\ \A i \in 1..(item_count_ - 1) : Tail(Contents)[i] = Contents[i + 1]
  BY <1>4, <1>5, HeadTailProperties
<1>8. ASSUME NEW i \in 1..(item_count_ - 1) PROVE Contents'[i] = Tail(Contents)[i]
  <2>1. /\ i - 1 \in 0..(queue_size_ - 1) /\ i + 1 \in 1..item_count_
        /\ (i + 1) - 1 = (i - 1) + 1
    BY <1>2, SizeIsPositive
  <2>2. (next_idx + (i - 1)) % queue_size_ = (front_idx_ + ((i - 1) + 1)) % queue_size_
    BY <1>2, <2>1, Advance DEF next_idx
  <2>3. Contents[i + 1] = buffer_[(front_idx_ + ((i + 1) - 1)) % queue_size_]
    BY <1>4, <2>1
  <2> QED
    BY <1>3, <1>7, <2>1, <2>2, <2>3
<1>9. Contents' = Tail(Contents)
  BY <1>3, <1>7, <1>8, SeqEqual
<1> QED
  BY <1>5, <1>6, <1>9

LEMMA ContentsStutter ==
  ASSUME UNCHANGED ring
  PROVE  Contents' = Contents
BY DEF Contents, ring

LEMMA StoreOrRefuse ==
  ASSUME TypeOK, NEW p \in Producers, NEW item \in Items,
         Store(p, item) \/ Refuse(p), UNCHANGED popped
  PROVE  Fifo!Next
<1>1. CASE Store(p, item)
  <2>1. Fifo!Push(p, item)
    BY <1>1, StoreAppends DEF Store, Fifo!Push
  <2> QED
    BY <2>1 DEF Fifo!Next
<1>2. CASE Refuse(p)
  <2>1. Len(Contents) = queue_size_
    BY <1>2, ContentsAre DEF Refuse, isFull, TypeOK
  <2>2. Fifo!Refuse(p)
    BY <1>2, <2>1, ContentsStutter DEF Refuse, Fifo!Refuse
  <2> QED
    BY <2>2 DEF Fifo!Next
<1> QED
  BY <1>1, <1>2

LEMMA TakeOrNothing ==
  ASSUME TypeOK, NEW c \in Consumers, Take(c) \/ TakeNothing(c), UNCHANGED pushed
  PROVE  Fifo!Next
<1>1. CASE Take(c)
  <2>1. Fifo!Pop(c)
    BY <1>1, TakeRemovesHead DEF Take, Fifo!Pop
  <2> QED
    BY <2>1 DEF Fifo!Next
<1>2. CASE TakeNothing(c)
  <2>1. Contents = <<>>
    BY <1>2, ContentsAre DEF TakeNothing, isEmpty, TypeOK
  <2>2. Fifo!PopNothing(c)
    BY <1>2, <2>1, ContentsStutter DEF TakeNothing, Fifo!PopNothing
  <2> QED
    BY <2>2 DEF Fifo!Next
<1> QED
  BY <1>1, <1>2

LEMMA FifoInit == Init => Fifo!Init
<1> SUFFICES ASSUME Init PROVE Fifo!Init
  OBVIOUS
<1>1. Contents = <<>>
  BY InitType, ContentsAre DEF Init, TypeOK
<1> QED
  BY <1>1 DEF Init, Fifo!Init

LEMMA FifoNext == TypeOK /\ [Next]_vars => [Fifo!Next]_Fifo!vars
<1> SUFFICES ASSUME TypeOK, [Next]_vars PROVE [Fifo!Next]_Fifo!vars
  OBVIOUS
<1>1. ASSUME NEW p \in Producers, ProducerStep(p) PROVE [Fifo!Next]_Fifo!vars
  <2>1. ASSUME NEW item \in Items, push(p, item) PROVE Fifo!Next
    BY <2>1, StoreOrRefuse DEF push
  <2>2. ASSUME NEW item \in Items, WaitForPop(p, item) PROVE UNCHANGED Fifo!vars
    BY <2>2, ContentsStutter DEF WaitForPop, Fifo!vars
  <2>3. ASSUME EndWaitForPop(p) PROVE Fifo!Next
    <3>1. pending[p] \in Items
      BY <2>3 DEF EndWaitForPop, TypeOK, ResultsType
    <3> QED
      BY <2>3, <3>1, StoreOrRefuse DEF EndWaitForPop
  <2> QED
    BY <1>1, <2>1, <2>2, <2>3 DEF ProducerStep
<1>2. ASSUME NEW c \in Consumers, ConsumerStep(c) PROVE [Fifo!Next]_Fifo!vars
  <2>1. ASSUME pop(c) PROVE Fifo!Next
    BY <2>1, TakeOrNothing DEF pop
  <2>2. ASSUME WaitForPush(c) PROVE UNCHANGED Fifo!vars
    BY <2>2, ContentsStutter DEF WaitForPush, Fifo!vars
  <2>3. ASSUME EndWaitForPush(c) PROVE Fifo!Next
    BY <2>3, TakeOrNothing DEF EndWaitForPush
  <2> QED
    BY <1>2, <2>1, <2>2, <2>3 DEF ConsumerStep
<1>3. CASE UNCHANGED vars
  <2>1. UNCHANGED ring /\ UNCHANGED <<pushed, popped>>
    BY <1>3 DEF vars
  <2> QED
    BY <2>1, ContentsStutter DEF Fifo!vars
<1> QED
  BY <1>1, <1>2, <1>3 DEF Next

\* The ring buffer implements the bounded FIFO queue, whatever its length and
\* however many threads push, pop and wait.
THEOREM Refinement == Spec => IsFifo
<1> QED
  BY InitType, NextType, FifoInit, FifoNext, PTL DEF Spec, IsFifo, Fifo!Spec
=============================================================================
