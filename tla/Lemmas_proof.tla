---------------------------- MODULE Lemmas_proof ----------------------------
(***************************************************************************)
(* What the proofs about several components rest on: numbers that wrap,    *)
(* and what the receive loops of module Framing make of a payload that was *)
(* put together item by item - the items, and nothing is left over - for   *)
(* any items and any number of them.  Parse is a recursive function; what  *)
(* it returns for every payload is proved from a least counterexample.     *)
(***************************************************************************)
EXTENDS Framing, SequenceTheorems, FiniteSetTheorems, TLAPS

----------------------------------------------------------------------------
(* Numbers.                                                                *)

\* Every set of numbers has a least one.
LEMMA Least ==
  ASSUME NEW S \in SUBSET Nat, S # {}
  PROVE  \E n \in S : \A m \in S : n <= m
<1>1. PICK n \in S : \A m \in S : ~(<<m, n>> \in OpToRel(<, Nat))
  BY NatLessThanWellFounded, WFMin
<1>2. \A m \in S : ~(m < n)
  BY <1>1 DEF OpToRel
<1> QED
  BY <1>2

\* A set of numbers up to n has its greatest one.
LEMMA MaxIsMember ==
  ASSUME NEW n \in Nat, NEW S \in SUBSET (1..n), S # {}
  PROVE  Max(S) \in S
<1> DEFINE T == {n - i : i \in S}
<1>1. T \in SUBSET Nat /\ T # {}
  <2>1. \A i \in S : n - i \in Nat
    OBVIOUS
  <2>2. PICK i \in S : TRUE
    OBVIOUS
  <2> QED
    BY <2>1, <2>2
<1>2. PICK k \in T : \A m \in T : k <= m
  <2> HIDE DEF T
  <2> QED
    BY <1>1, Least
<1>3. PICK i \in S : k = n - i
  OBVIOUS
<1>4. \A j \in S : i >= j
  <2> SUFFICES ASSUME NEW j \in S PROVE i >= j
    OBVIOUS
  <2>1. n - i <= n - j
    BY <1>2, <1>3
  <2> QED
    BY <2>1
<1> QED
  BY <1>4 DEF Max

LEMMA DivMod ==
  ASSUME NEW k \in Nat \ {0}, NEW a \in Nat
  PROVE  /\ a = k * (a \div k) + (a % k)
         /\ a % k \in 0..(k - 1)
         /\ a \div k \in Nat
  BY SMT

LEMMA NextMultiple ==
  ASSUME NEW k \in Nat \ {0}, NEW p \in Nat, NEW q \in Nat, p < q
  PROVE  k * p + k <= k * q
  BY SMT

\* A remainder is determined by any decomposition.
LEMMA Remainder ==
  ASSUME NEW k \in Nat \ {0}, NEW a \in Nat, NEW p \in Nat, NEW r \in 0..(k - 1),
         a = k * p + r
  PROVE  a % k = r
<1>1. PICK q \in Nat, s \in 0..(k - 1) : a = k * q + s /\ s = a % k
  BY DivMod
<1>2. CASE p < q
  BY <1>1, <1>2, NextMultiple
<1>3. CASE q < p
  BY <1>1, <1>3, NextMultiple
<1>4. CASE p = q
  BY <1>1, <1>4
<1> QED
  BY <1>1, <1>2, <1>3, <1>4

\* Incrementing before or after taking the remainder is the same.
LEMMA WrappedIncrement ==
  ASSUME NEW k \in Nat \ {0}, NEW a \in Nat
  PROVE  ((a % k) + 1) % k = (a + 1) % k
<1>1. PICK q \in Nat, r \in 0..(k - 1) : a = k * q + r /\ r = a % k
  BY DivMod
<1>2. CASE r + 1 < k
  <2>1. a + 1 \in Nat /\ a + 1 = k * q + (r + 1) /\ r + 1 \in 0..(k - 1)
    BY <1>1, <1>2
  <2>2. (a + 1) % k = r + 1
    BY <2>1, Remainder
  <2>3. r + 1 = k * 0 + (r + 1)
    OBVIOUS
  <2>4. (r + 1) % k = r + 1
    BY <2>1, <2>3, Remainder
  <2> QED
    BY <1>1, <2>2, <2>4
<1>3. CASE r + 1 = k
  <2>1. a + 1 = k * (q + 1) + 0 /\ r + 1 = k * 1 + 0 /\ 0 \in 0..(k - 1)
    BY <1>1, <1>3
  <2>2. a + 1 \in Nat /\ r + 1 \in Nat /\ q + 1 \in Nat
    BY <1>1
  <2>3. (a + 1) % k = 0
    BY <2>1, <2>2, Remainder
  <2>4. (r + 1) % k = 0
    BY <2>1, <2>2, Remainder
  <2> QED
    BY <1>1, <2>3, <2>4
<1> QED
  BY <1>1, <1>2, <1>3

\* Two numbers less than k apart with the same remainder are equal.
LEMMA RemainderUnique ==
  ASSUME NEW k \in Nat \ {0}, NEW a \in Nat, NEW b \in Nat,
         a <= b, b - a < k, a % k = b % k
  PROVE  a = b
<1>1. PICK p \in Nat, r \in 0..(k - 1) : a = k * p + r /\ r = a % k
  BY DivMod
<1>2. PICK q \in Nat, s \in 0..(k - 1) : b = k * q + s /\ s = b % k
  BY DivMod
<1>3. CASE p < q
  BY <1>1, <1>2, <1>3, NextMultiple
<1>4. CASE q < p
  BY <1>1, <1>2, <1>4, NextMultiple
<1>5. CASE p = q
  BY <1>1, <1>2, <1>5
<1> QED
  BY <1>1, <1>2, <1>3, <1>4, <1>5

----------------------------------------------------------------------------
(* The receive loop.                                                       *)

Parsed(payload) == [items : Seq(Sendable), processed_len : 0..Len(payload)]

\* Behind the descriptor at an offset, and behind the data it announces.
Data(at) == at + DescriptorSize
Following(payload, at) == Data(at) + payload[at + 1].payload_size

\* There is an item at the offset, whole.
HasItem(payload, at) ==
  /\ Data(at) <= Len(payload)
  /\ Following(payload, at) <= Len(payload)

ItemAt(payload, at) ==
  Item(payload[at + 1].target_id, SubSeq(payload, Data(at) + 1, Following(payload, at)))

\* One round of the loop, given what the later ones find.
Round(payload, later, at) ==
  IF HasItem(payload, at)
    THEN [items |-> <<ItemAt(payload, at)>> \o later[Following(payload, at)].items,
          processed_len |-> later[Following(payload, at)].processed_len]
    ELSE [items |-> <<>>, processed_len |-> at]

\* What the loop finds from each offset on, for the offsets from one on.
FindsFrom(payload, found, first) ==
  /\ found \in [first..Len(payload) -> Parsed(payload)]
  /\ \A at \in first..Len(payload) : found[at] = Round(payload, found, at)

LEMMA Reads ==
  ASSUME NEW payload \in Seq(Cells), NEW at \in 0..Len(payload), HasItem(payload, at)
  PROVE  /\ Following(payload, at) \in (at + 2)..Len(payload)
         /\ ItemAt(payload, at) \in Sendable
<1>1. payload[at + 1] \in Cells
  BY DEF HasItem, Data, DescriptorSize
<1>2. payload[at + 1].target_id \in Nat /\ payload[at + 1].payload_size \in Nat
  BY <1>1 DEF Cells
<1>3. Following(payload, at) \in (at + 2)..Len(payload)
  BY <1>2 DEF HasItem, Following, Data, DescriptorSize
<1>4. SubSeq(payload, Data(at) + 1, Following(payload, at)) \in Seq(Cells)
  <2>1. Data(at) + 1 \in 1..(Len(payload) + 1)
    BY DEF HasItem, Data, DescriptorSize
  <2>2. Following(payload, at) \in (Data(at) + 1 - 1)..Len(payload)
    BY <1>2, <1>3 DEF Following, Data, DescriptorSize
  <2> QED
    BY <2>1, <2>2, SubSeqProperties
<1> QED
  BY <1>2, <1>3, <1>4 DEF ItemAt, Item, Sendable

\* A round depends on the later offsets only, and has the type of the rest.
LEMMA RoundOfLater ==
  ASSUME NEW payload \in Seq(Cells), NEW at \in 0..Len(payload), NEW f, NEW g,
         \A next \in (at + 2)..Len(payload) : f[next] = g[next]
  PROVE  Round(payload, f, at) = Round(payload, g, at)
BY Reads DEF Round

LEMMA RoundType ==
  ASSUME NEW payload \in Seq(Cells), NEW at \in 0..Len(payload), NEW f,
         \A next \in (at + 2)..Len(payload) : f[next] \in Parsed(payload)
  PROVE  Round(payload, f, at) \in Parsed(payload)
<1>1. CASE HasItem(payload, at)
  <2> DEFINE next == Following(payload, at)
  <2>1. next \in (at + 2)..Len(payload) /\ ItemAt(payload, at) \in Sendable
    BY <1>1, Reads
  <2>2. f[next].items \in Seq(Sendable) /\ f[next].processed_len \in 0..Len(payload)
    BY <2>1 DEF Parsed
  <2>3. <<ItemAt(payload, at)>> \o f[next].items \in Seq(Sendable)
    <3>1. <<ItemAt(payload, at)>> \in Seq(Sendable)
      BY <2>1
    <3> QED
      BY <2>2, <3>1, ConcatProperties
  <2> QED
    BY <1>1, <2>2, <2>3 DEF Round, Parsed
<1>2. CASE ~HasItem(payload, at)
  BY <1>2 DEF Round, Parsed
<1> QED
  BY <1>1, <1>2

\* The loop can be run from every offset ...
LEMMA LoopRuns ==
  ASSUME NEW payload \in Seq(Cells), NEW first \in 0..Len(payload)
  PROVE  \E found : FindsFrom(payload, found, first)
<1> DEFINE L == Len(payload)
           S == {k \in 0..L : ~ \E found : FindsFrom(payload, found, L - k)}
<1>1. L \in Nat
  BY LenProperties
<1>2. CASE S = {}
  <2>1. L - first \in 0..L /\ L - (L - first) = first
    BY <1>1
  <2> QED
    BY <1>2, <2>1
<1>3. CASE S # {}
  <2>1. S \in SUBSET Nat
    BY <1>1
  <2>2. PICK k \in S : \A m \in S : k <= m
    <3> HIDE DEF S
    <3> QED
      BY <1>3, <2>1, Least
  <2>3. k \in 0..L /\ ~ \E found : FindsFrom(payload, found, L - k)
    BY <2>2
  <2>4. PICK at \in 0..L : at = L - k
    <3>1. L - k \in 0..L
      BY <1>1, <2>3
    <3> QED
      BY <3>1
  <2>5. \E g : \A later \in (at + 1)..L : /\ g[later] \in Parsed(payload)
                                         /\ g[later] = Round(payload, g, later)
    <3>1. CASE k = 0
      BY <1>1, <2>4, <3>1
    <3>2. CASE k # 0
      <4>1. k - 1 \in 0..L /\ ~(k <= k - 1) /\ L - (k - 1) = at + 1
        BY <1>1, <2>3, <2>4, <3>2
      <4>2. k - 1 \notin S
        BY <2>2, <4>1
      <4>3. PICK g : FindsFrom(payload, g, at + 1)
        BY <4>1, <4>2
      <4> QED
        BY <4>3 DEF FindsFrom
    <3> QED
      BY <3>1, <3>2
  <2>6. PICK g : \A later \in (at + 1)..L : /\ g[later] \in Parsed(payload)
                                           /\ g[later] = Round(payload, g, later)
    BY <2>5
  <2> DEFINE f == [i \in at..L |-> IF i = at THEN Round(payload, g, at) ELSE g[i]]
  <2>7. /\ \A i \in (at + 1)..L : f[i] = g[i]
        /\ f[at] = Round(payload, g, at)
    BY <1>1, <2>4
  <2>8. f \in [at..L -> Parsed(payload)]
    <3>1. Round(payload, g, at) \in Parsed(payload)
      <4>1. \A next \in (at + 2)..L : g[next] \in Parsed(payload)
        BY <1>1, <2>4, <2>6
      <4> QED
        BY <4>1, RoundType
    <3>2. \A i \in at..L : i = at \/ i \in (at + 1)..L
      BY <1>1, <2>4
    <3> QED
      BY <2>6, <3>1, <3>2
  <2>9. \A i \in at..L : f[i] = Round(payload, f, i)
    <3> SUFFICES ASSUME NEW i \in at..L PROVE f[i] = Round(payload, f, i)
      OBVIOUS
    <3>1. i \in 0..L /\ \A next \in (i + 2)..L : f[next] = g[next]
      BY <1>1, <2>4, <2>7
    <3> HIDE DEF f
    <3>2. Round(payload, f, i) = Round(payload, g, i)
      BY <3>1, RoundOfLater
    <3>3. f[i] = Round(payload, g, i)
      BY <1>1, <2>4, <2>6, <2>7
    <3> QED
      BY <3>2, <3>3
  <2>10. FindsFrom(payload, f, at)
    <3> HIDE DEF f
    <3> QED
      BY <2>8, <2>9 DEF FindsFrom
  <2> QED
    BY <2>3, <2>4, <2>10
<1> QED
  BY <1>2, <1>3

\* ... and what Parse returns is what it finds from the first offset on.
Loop(payload, found, at) ==
  IF at + DescriptorSize > Len(payload)
    THEN [items |-> <<>>, processed_len |-> at]
    ELSE LET descriptor == payload[at + 1]
             data == at + DescriptorSize
             next == data + descriptor.payload_size
         IN IF next > Len(payload)
              THEN [items |-> <<>>, processed_len |-> at]
              ELSE [found[next] EXCEPT !.items =
                      <<Item(descriptor.target_id, SubSeq(payload, data + 1, next))>> \o @]

LEMMA LoopIsRound ==
  ASSUME NEW payload \in Seq(Cells), NEW at \in 0..Len(payload), NEW f,
         \A next \in (at + 2)..Len(payload) : f[next] \in Parsed(payload)
  PROVE  Loop(payload, f, at) = Round(payload, f, at)
<1>1. Len(payload) \in Nat /\ DescriptorSize \in Nat
  BY LenProperties DEF DescriptorSize
<1>2. CASE ~(Data(at) <= Len(payload))
  <2>1. at + DescriptorSize > Len(payload)
    BY <1>1, <1>2 DEF Data
  <2> QED
    BY <1>2, <2>1 DEF Loop, Round, HasItem
<1>3. CASE Data(at) <= Len(payload)
  <2>1. ~(at + DescriptorSize > Len(payload))
    BY <1>1, <1>3 DEF Data
  <2>2. payload[at + 1] \in Cells
    BY <1>3 DEF Data, DescriptorSize
  <2>3. Following(payload, at) \in Nat
    BY <1>1, <2>2 DEF Cells, Following, Data
  <2>4. CASE ~HasItem(payload, at)
    <3>1. Following(payload, at) > Len(payload)
      BY <1>1, <1>3, <2>3, <2>4 DEF HasItem
    <3>2. (at + DescriptorSize) + payload[at + 1].payload_size > Len(payload)
      BY <3>1 DEF Following, Data
    <3> QED
      BY <2>1, <2>4, <3>2 DEF Loop, Round
  <2>5. CASE HasItem(payload, at)
    <3> DEFINE next == Following(payload, at)
    <3>1. next \in (at + 2)..Len(payload)
      BY <2>5, Reads
    <3>2. f[next] \in [items : Seq(Sendable), processed_len : 0..Len(payload)]
      BY <3>1 DEF Parsed
    <3>3. [f[next] EXCEPT !.items = <<ItemAt(payload, at)>> \o @]
            = [items |-> <<ItemAt(payload, at)>> \o f[next].items,
               processed_len |-> f[next].processed_len]
      <4>1. PICK r : r = f[next] /\ r \in [items : Seq(Sendable), processed_len : 0..Len(payload)]
        BY <3>2
      <4>2. \A x : [r EXCEPT !.items = x] = [items |-> x, processed_len |-> r.processed_len]
        BY <4>1
      <4> QED
        BY <4>1, <4>2
    <3>4. ~(next > Len(payload))
      BY <1>1, <3>1
    <3>5. Loop(payload, f, at) = [f[next] EXCEPT !.items = <<ItemAt(payload, at)>> \o @]
      BY <2>1, <3>4 DEF Loop, ItemAt, Following, Data
    <3> QED
      BY <2>5, <3>3, <3>5 DEF Round
  <2> QED
    BY <2>4, <2>5
<1> QED
  BY <1>2, <1>3

LEMMA ParseLoops ==
  ASSUME NEW payload \in Seq(Cells)
  PROVE  \E found : FindsFrom(payload, found, 0) /\ Parse(payload) = found[0]
<1> DEFINE L == Len(payload)
           IsLoop(found) == found = [at \in 0..L |-> Loop(payload, found, at)]
           h == CHOOSE found : IsLoop(found)
<1>1. L \in Nat /\ 0 \in 0..L
  BY LenProperties
<1>2. \E found : IsLoop(found)
  <2>1. PICK g : FindsFrom(payload, g, 0)
    BY <1>1, LoopRuns
  <2>2. /\ g \in [0..L -> Parsed(payload)]
        /\ \A at \in 0..L : g[at] = Round(payload, g, at)
    BY <2>1 DEF FindsFrom
  <2>3. \A at \in 0..L : g[at] = Loop(payload, g, at)
    <3> SUFFICES ASSUME NEW at \in 0..L PROVE g[at] = Loop(payload, g, at)
      OBVIOUS
    <3>1. \A next \in (at + 2)..L : g[next] \in Parsed(payload)
      BY <1>1, <2>2
    <3> QED
      BY <2>2, <3>1, LoopIsRound
  <2>4. IsLoop(g)
    BY <2>2, <2>3
  <2> QED
    BY <2>4
<1>3. IsLoop(h)
  <2> HIDE DEF IsLoop
  <2> QED
    BY <1>2
<1>4. Parse(payload) = h[0]
  BY DEF Parse, Loop
<1> HIDE DEF h
<1>5. \A at \in 0..L : h[at] \in Parsed(payload)
  <2> DEFINE S == {k \in 0..L : h[L - k] \notin Parsed(payload)}
  <2>1. CASE S = {}
    <3> SUFFICES ASSUME NEW at \in 0..L PROVE h[at] \in Parsed(payload)
      OBVIOUS
    <3>1. L - at \in 0..L /\ L - (L - at) = at
      BY <1>1
    <3> QED
      BY <2>1, <3>1
  <2>2. CASE S # {}
    <3>1. S \in SUBSET Nat
      BY <1>1
    <3>2. PICK k \in S : \A m \in S : k <= m
      <4> HIDE DEF S
      <4> QED
        BY <2>2, <3>1, Least
    <3>3. PICK at \in 0..L : at = L - k /\ h[at] \notin Parsed(payload)
      BY <1>1, <3>2
    <3>4. \A next \in (at + 2)..L : h[next] \in Parsed(payload)
      <4> SUFFICES ASSUME NEW next \in (at + 2)..L, h[next] \notin Parsed(payload) PROVE FALSE
        OBVIOUS
      <4>1. L - next \in 0..L /\ L - (L - next) = next /\ ~(k <= L - next)
        BY <1>1, <3>2, <3>3
      <4> QED
        BY <3>2, <4>1
    <3>5. h[at] = Loop(payload, h, at)
      BY <1>3
    <3> QED
      BY <3>3, <3>4, <3>5, LoopIsRound, RoundType
  <2> QED
    BY <2>1, <2>2
<1>6. \A at \in 0..L : h[at] = Round(payload, h, at)
  <2> SUFFICES ASSUME NEW at \in 0..L PROVE h[at] = Round(payload, h, at)
    OBVIOUS
  <2>1. \A next \in (at + 2)..L : h[next] \in Parsed(payload)
    BY <1>1, <1>5
  <2>2. h[at] = Loop(payload, h, at)
    BY <1>3
  <2> QED
    BY <2>1, <2>2, LoopIsRound
<1>7. h \in [0..L -> Parsed(payload)]
  BY <1>3, <1>5
<1>8. FindsFrom(payload, h, 0)
  BY <1>6, <1>7 DEF FindsFrom
<1> QED
  BY <1>4, <1>8

(***************************************************************************)
(* Whatever a payload holds, the receive loop reads items out of it, stops *)
(* inside it, and stops only where no further item is there whole: bytes   *)
(* nobody framed are never read as data from behind the payload's end.     *)
(***************************************************************************)
THEOREM ParseStops ==
  ASSUME NEW payload \in Seq(Cells)
  PROVE  /\ Parse(payload) \in [items : Seq(Sendable), processed_len : 0..Len(payload)]
         /\ ~HasItem(payload, Parse(payload).processed_len)
<1> DEFINE L == Len(payload)
<1>1. L \in Nat
  BY LenProperties
<1>2. PICK found : FindsFrom(payload, found, 0) /\ Parse(payload) = found[0]
  BY ParseLoops
<1>3. \A at \in 0..L : found[at] \in Parsed(payload) /\ found[at] = Round(payload, found, at)
  BY <1>2 DEF FindsFrom
<1> DEFINE Stops(at) == ~HasItem(payload, found[at].processed_len)
           S == {k \in 0..L : ~Stops(L - k)}
<1>4. \A at \in 0..L : Stops(at)
  <2>1. CASE S = {}
    <3> SUFFICES ASSUME NEW at \in 0..L PROVE Stops(at)
      OBVIOUS
    <3>1. L - at \in 0..L /\ L - (L - at) = at
      BY <1>1
    <3> QED
      BY <2>1, <3>1
  <2>2. CASE S # {}
    <3>1. PICK k \in S : \A m \in S : k <= m
      <4>1. S \in SUBSET Nat
        BY <1>1
      <4> HIDE DEF S
      <4> QED
        BY <2>2, <4>1, Least
    <3>2. PICK at \in 0..L : at = L - k /\ ~Stops(at)
      BY <1>1, <3>1
    <3>3. CASE HasItem(payload, at)
      <4> DEFINE next == Following(payload, at)
      <4>1. next \in (at + 2)..L
        BY <3>3, Reads
      <4>2. found[at].processed_len = found[next].processed_len
        <5>1. found[at] = [items |-> <<ItemAt(payload, at)>> \o found[next].items,
                           processed_len |-> found[next].processed_len]
          BY <1>3, <3>3 DEF Round
        <5> HIDE DEF next
        <5> QED
          BY <5>1
      <4>3. L - next \in 0..L /\ L - (L - next) = next /\ ~(k <= L - next)
        BY <1>1, <3>1, <3>2, <4>1
      <4>4. Stops(next)
        <5> HIDE DEF Stops, next
        <5> QED
          BY <3>1, <4>3
      <4> QED
        BY <3>2, <4>2, <4>4
    <3>4. CASE ~HasItem(payload, at)
      <4>1. found[at] = [items |-> <<>>, processed_len |-> at]
        BY <1>3, <3>4 DEF Round
      <4>2. found[at].processed_len = at
        BY <4>1
      <4> QED
        BY <3>2, <3>4, <4>2
    <3> QED
      BY <3>3, <3>4
  <2> QED
    BY <2>1, <2>2
<1>5. 0 \in 0..L
  BY <1>1
<1>6. Parse(payload) \in Parsed(payload)
  BY <1>2, <1>3, <1>5
<1> QED
  BY <1>2, <1>4, <1>5, <1>6 DEF Parsed

----------------------------------------------------------------------------
(* What was framed is read back.                                           *)

LEMMA FramedCells ==
  ASSUME NEW item \in Sendable
  PROVE  /\ Framed(item) \in Seq(Cells)
         /\ Len(Framed(item)) = DescriptorSize + Len(item.data)
         /\ Framed(item)[1] = Cell(item.id, Len(item.data))
         /\ \A i \in 1..Len(item.data) : Framed(item)[DescriptorSize + i] = item.data[i]
         /\ item = Item(item.id, item.data)
         /\ item.data \in Seq(Cells) /\ Len(item.data) \in Nat
<1>1. item.id \in Nat /\ item.data \in Seq(Cells) /\ Len(item.data) \in Nat
  BY LenProperties DEF Sendable
<1>2. Cell(item.id, Len(item.data)) \in Cells /\ Byte(0) \in Cells
  BY <1>1 DEF Cell, Byte, Cells
<1> DEFINE d == Descriptor(item)
<1>3. d \in Seq(Cells) /\ Len(d) = 2 /\ d[1] = Cell(item.id, Len(item.data))
  BY <1>2 DEF Descriptor
<1> HIDE DEF d
<1>4. /\ d \o item.data \in Seq(Cells)
      /\ Len(d \o item.data) = 2 + Len(item.data)
      /\ \A i \in 1..(2 + Len(item.data)) : (d \o item.data)[i]
                                           = IF i <= 2 THEN d[i] ELSE item.data[i - 2]
  <2>1. \A tail \in Seq(Cells) :
          /\ d \o tail \in Seq(Cells)
          /\ Len(d \o tail) = Len(d) + Len(tail)
          /\ \A i \in 1..(Len(d) + Len(tail)) : (d \o tail)[i]
                                               = IF i <= Len(d) THEN d[i] ELSE tail[i - Len(d)]
    BY <1>3, ConcatProperties
  <2> QED
    BY <1>1, <1>3, <2>1
<1>5. (d \o item.data)[1] = d[1]
  BY <1>1, <1>4
<1>6. \A i \in 1..Len(item.data) : (d \o item.data)[2 + i] = item.data[i]
  <2> SUFFICES ASSUME NEW i \in 1..Len(item.data) PROVE (d \o item.data)[2 + i] = item.data[i]
    OBVIOUS
  <2>1. 2 + i \in 1..(2 + Len(item.data)) /\ ~(2 + i <= 2) /\ (2 + i) - 2 = i
    BY <1>1
  <2> QED
    BY <1>4, <2>1
<1>7. Framed(item) = d \o item.data
  BY DEF Framed, d
<1>8. item = Item(item.id, item.data)
  BY DEF Item, Sendable
<1> QED
  BY <1>1, <1>3, <1>4, <1>5, <1>6, <1>7, <1>8 DEF DescriptorSize

\* The item behind a payload is the last one the loop finds ...
LEMMA ReadsAppended ==
  ASSUME NEW payload \in Seq(Cells), NEW item \in Sendable,
         NEW found, FindsFrom(payload \o Framed(item), found, 0)
  PROVE  found[Len(payload)] = [items |-> <<item>>,
                                processed_len |-> Len(payload \o Framed(item))]
<1> DEFINE all == payload \o Framed(item)
           at == Len(payload)
           n == Len(item.data)
<1>1. /\ Framed(item) \in Seq(Cells) /\ Len(Framed(item)) = 2 + n
      /\ Framed(item)[1] = Cell(item.id, n)
      /\ \A i \in 1..n : Framed(item)[2 + i] = item.data[i]
      /\ item = Item(item.id, item.data)
      /\ item.data \in Seq(Cells) /\ n \in Nat
  BY FramedCells DEF DescriptorSize
<1>2. at \in Nat
  BY LenProperties
<1>3. /\ all \in Seq(Cells) /\ Len(all) = at + 2 + n
      /\ \A i \in 1..(at + 2 + n) : all[i] = IF i <= at THEN payload[i] ELSE Framed(item)[i - at]
  <2>1. \A tail \in Seq(Cells) :
          /\ payload \o tail \in Seq(Cells)
          /\ Len(payload \o tail) = Len(payload) + Len(tail)
          /\ \A i \in 1..(Len(payload) + Len(tail)) : (payload \o tail)[i]
               = IF i <= Len(payload) THEN payload[i] ELSE tail[i - Len(payload)]
    BY ConcatProperties
  <2> DEFINE m == Len(Framed(item))
  <2>2. /\ all \in Seq(Cells) /\ Len(all) = at + m
        /\ \A i \in 1..(at + m) : all[i] = IF i <= at THEN payload[i] ELSE Framed(item)[i - at]
    BY <1>1, <2>1
  <2>3. m = 2 + n
    BY <1>1
  <2> HIDE DEF all, at, m, n
  <2>4. at + m = at + 2 + n
    BY <1>1, <1>2, <2>3
  <2> QED
    BY <2>2, <2>4
<1> HIDE DEF all, at, n
<1>4. all[at + 1] = Cell(item.id, n)
  <2>1. at + 1 \in 1..(at + 2 + n) /\ ~(at + 1 <= at) /\ (at + 1) - at = 1
    BY <1>1, <1>2
  <2> QED
    BY <1>1, <1>3, <2>1
<1>5. \A i \in 1..n : all[at + 2 + i] = item.data[i]
  <2> SUFFICES ASSUME NEW i \in 1..n PROVE all[at + 2 + i] = item.data[i]
    OBVIOUS
  <2>1. at + 2 + i \in 1..(at + 2 + n) /\ ~(at + 2 + i <= at) /\ (at + 2 + i) - at = 2 + i
    BY <1>1, <1>2
  <2> QED
    BY <1>1, <1>3, <2>1
<1>6. Following(all, at) = at + 2 + n /\ Data(at) = at + 2 /\ HasItem(all, at)
  BY <1>1, <1>2, <1>3, <1>4 DEF HasItem, Following, Data, DescriptorSize, Cell
<1>7. ItemAt(all, at) = item
  <2> DEFINE r == SubSeq(all, at + 2 + 1, at + 2 + n)
  <2>1. /\ r \in Seq(Cells) /\ Len(r) = n
        /\ \A i \in 1..n : r[i] = all[at + 2 + i]
    <3>1. at + 2 + 1 \in 1..(Len(all) + 1) /\ at + 2 + n \in (at + 2 + 1 - 1)..Len(all)
      BY <1>1, <1>2, <1>3
    <3>2. /\ r \in Seq(Cells) /\ Len(r) = (at + 2 + n) - (at + 2 + 1) + 1
          /\ \A i \in 1..((at + 2 + n) - (at + 2 + 1) + 1) : r[i] = all[at + 2 + 1 + i - 1]
      BY <1>3, <3>1, SubSeqProperties
    <3>3. (at + 2 + n) - (at + 2 + 1) + 1 = n
      BY <1>1, <1>2
    <3>4. \A i \in 1..n : at + 2 + 1 + i - 1 = at + 2 + i
      BY <1>1, <1>2
    <3> HIDE DEF r
    <3> QED
      BY <3>2, <3>3, <3>4
  <2> HIDE DEF r
  <2>2. r = item.data
    BY <1>1, <1>5, <2>1, SeqEqual DEF n
  <2>3. ItemAt(all, at) = Item(item.id, r)
    BY <1>4, <1>6 DEF ItemAt, Cell, r
  <2> QED
    BY <1>1, <2>2, <2>3
<1>8. found[at + 2 + n] = [items |-> <<>>, processed_len |-> Len(all)]
  <2>1. at + 2 + n \in 0..Len(all) /\ ~HasItem(all, at + 2 + n)
    BY <1>1, <1>2, <1>3 DEF HasItem, Data, DescriptorSize
  <2> QED
    BY <1>3, <2>1 DEF FindsFrom, Round, all
<1>9. found[at] = [items |-> <<item>> \o <<>>, processed_len |-> Len(all)]
  <2>1. at \in 0..Len(all)
    BY <1>1, <1>2, <1>3
  <2>2. found[at] = Round(all, found, at)
    BY <2>1 DEF FindsFrom, all
  <2> QED
    BY <1>6, <1>7, <1>8, <2>2 DEF Round
<1> QED
  BY <1>9 DEF all, at

LEMMA ItemsAssociate ==
  ASSUME NEW s \in Seq(Sendable), NEW t \in Seq(Sendable), NEW u \in Seq(Sendable)
  PROVE  s \o (t \o u) = (s \o t) \o u
BY ConcatAssociative

\* ... and those before it are found as without it.
LEMMA ParseAppended ==
  ASSUME NEW payload \in Seq(Cells), NEW item \in Sendable, NEW items,
         Parse(payload) = [items |-> items, processed_len |-> Len(payload)]
  PROVE  /\ payload \o Framed(item) \in Seq(Cells)
         /\ items \in Seq(Sendable)
         /\ Parse(payload \o Framed(item))
              = [items |-> Append(items, item),
                 processed_len |-> Len(payload \o Framed(item))]
<1> DEFINE all == payload \o Framed(item)
           L == Len(payload)
           N == Len(all)
<1>1. Framed(item) \in Seq(Cells) /\ Len(Framed(item)) \in Nat /\ L \in Nat
  BY FramedCells, LenProperties
<1>2. /\ all \in Seq(Cells) /\ N = L + Len(Framed(item)) /\ N \in Nat
      /\ \A i \in 1..N : all[i] = IF i <= L THEN payload[i] ELSE Framed(item)[i - L]
  BY <1>1, ConcatProperties
<1>3. L <= N /\ \A i \in 1..L : all[i] = payload[i]
  BY <1>1, <1>2
<1>4. PICK f : FindsFrom(payload, f, 0) /\ Parse(payload) = f[0]
  BY ParseLoops
<1>5. PICK g : FindsFrom(all, g, 0) /\ Parse(all) = g[0]
  BY <1>2, ParseLoops
<1>6. g[L] = [items |-> <<item>>, processed_len |-> N]
  BY <1>5, ReadsAppended
<1> HIDE DEF all
<1>7. /\ f \in [0..L -> Parsed(payload)]
      /\ \A at \in 0..L : f[at] = Round(payload, f, at)
      /\ g \in [0..N -> Parsed(all)]
      /\ \A at \in 0..N : g[at] = Round(all, g, at)
  BY <1>4, <1>5 DEF FindsFrom
<1> DEFINE Extends(at) == f[at].processed_len = L =>
             g[at] = [items |-> f[at].items \o <<item>>, processed_len |-> N]
           S == {k \in 0..L : ~Extends(L - k)}
<1>8. CASE S = {}
  <2>1. L \in 0..L /\ L - L = 0
    BY <1>1
  <2>2. Extends(0)
    BY <1>8, <2>1
  <2>3. f[0] = [items |-> items, processed_len |-> L]
    BY <1>4
  <2>4. items \in Seq(Sendable)
    BY <1>1, <1>7, <2>3 DEF Parsed
  <2>5. items \o <<item>> = Append(items, item)
    BY <2>4, AppendIsConcat
  <2>6. g[0] = [items |-> Append(items, item), processed_len |-> N]
    <3>1. f[0].processed_len = L /\ f[0].items = items
      BY <2>3
    <3>2. g[0] = [items |-> f[0].items \o <<item>>, processed_len |-> N]
      BY <2>2, <3>1
    <3> QED
      BY <2>5, <3>1, <3>2
  <2> QED
    BY <1>2, <1>5, <2>4, <2>6 DEF all
<1>9. CASE S # {}
  <2>1. S \in SUBSET Nat
    BY <1>1
  <2>2. PICK k \in S : \A m \in S : k <= m
    <3> HIDE DEF S
    <3> QED
      BY <1>9, <2>1, Least
  <2>3. PICK at \in 0..L : at = L - k
    <3>1. L - k \in 0..L
      BY <1>1, <2>2
    <3> QED
      BY <3>1
  <2>4. ~Extends(at)
    BY <2>2, <2>3
  <2>5. \A next \in (at + 2)..L : Extends(next)
    <3> SUFFICES ASSUME NEW next \in (at + 2)..L, ~Extends(next) PROVE FALSE
      OBVIOUS
    <3>1. L - next \in 0..L /\ L - (L - next) = next /\ ~(k <= L - next)
      BY <1>1, <2>2, <2>3
    <3> HIDE DEF Extends
    <3> QED
      BY <2>2, <3>1
  <2>6. f[at].processed_len = L
    BY <2>4
  <2>7. f[at] = Round(payload, f, at) /\ g[at] = Round(all, g, at)
    BY <1>1, <1>3, <1>7
  <2>8. CASE HasItem(payload, at)
    <3> DEFINE next == Following(payload, at)
    <3>1. next \in (at + 2)..L /\ ItemAt(payload, at) \in Sendable
      BY <2>8, Reads
    <3>2. /\ f[at].items = <<ItemAt(payload, at)>> \o f[next].items
          /\ f[next].processed_len = L
      BY <2>6, <2>7, <2>8 DEF Round
    <3>3. g[next] = [items |-> f[next].items \o <<item>>, processed_len |-> N]
      BY <2>5, <3>1, <3>2
    <3>4. all[at + 1] = payload[at + 1]
      BY <1>1, <1>3, <3>1
    <3>5. Following(all, at) = next
      BY <3>4 DEF Following
    <3>6. HasItem(all, at)
      BY <1>1, <1>2, <1>3, <2>8, <3>1, <3>5 DEF HasItem, Data, DescriptorSize
    <3>7. SubSeq(all, Data(at) + 1, next) = SubSeq(payload, Data(at) + 1, next)
      <4> DEFINE lo == Data(at) + 1
                 p == SubSeq(payload, lo, next)
                 q == SubSeq(all, lo, next)
      <4>1. lo \in Nat /\ next \in Nat /\ lo \in 1..(L + 1) /\ next \in (lo - 1)..L
            /\ lo \in 1..(N + 1) /\ next \in (lo - 1)..N
        <5>1. payload[at + 1] \in Cells
          BY <1>1, <3>1
        <5>2. payload[at + 1].payload_size \in Nat
          BY <5>1 DEF Cells
        <5> QED
          BY <1>1, <1>2, <1>3, <3>1, <5>2 DEF Following, Data, DescriptorSize
      <4> HIDE DEF lo, next
      <4>2. /\ p \in Seq(Cells) /\ Len(p) = next - lo + 1
            /\ \A i \in 1..(next - lo + 1) : p[i] = payload[lo + i - 1]
        BY <4>1, SubSeqProperties
      <4>3. /\ q \in Seq(Cells) /\ Len(q) = next - lo + 1
            /\ \A i \in 1..(next - lo + 1) : q[i] = all[lo + i - 1]
        BY <1>2, <4>1, SubSeqProperties
      <4>4. ASSUME NEW i \in 1..(next - lo + 1) PROVE lo + i - 1 \in 1..L
        <5>1. i \in Int /\ 1 <= i /\ i <= next - lo + 1
          BY <4>1
        <5> QED
          BY <1>1, <4>1, <5>1
      <4> HIDE DEF p, q
      <4>5. p = q
        <5>1. ASSUME NEW i \in 1..Len(p) PROVE p[i] = q[i]
          BY <1>3, <4>2, <4>3, <4>4
        <5> QED
          BY <4>2, <4>3, <5>1, SeqEqual
      <4> QED
        BY <4>5 DEF p, q, lo
    <3>8. ItemAt(all, at) = ItemAt(payload, at)
      BY <3>4, <3>5, <3>7 DEF ItemAt
    <3>9. g[at] = [items |-> <<ItemAt(payload, at)>> \o (f[next].items \o <<item>>),
                   processed_len |-> N]
      <4>1. /\ g[next].items = f[next].items \o <<item>>
            /\ g[next].processed_len = N
        <5> HIDE DEF next, N
        <5> QED
          BY <3>3
      <4>2. g[at] = [items |-> <<ItemAt(all, at)>> \o g[Following(all, at)].items,
                     processed_len |-> g[Following(all, at)].processed_len]
        BY <2>7, <3>6 DEF Round
      <4> HIDE DEF next
      <4> QED
        BY <3>5, <3>8, <4>1, <4>2
    <3>10. <<ItemAt(payload, at)>> \o (f[next].items \o <<item>>)
             = (<<ItemAt(payload, at)>> \o f[next].items) \o <<item>>
      <4>1. f[next] \in Parsed(payload)
        BY <1>1, <1>7, <3>1
      <4>2. f[next].items \in Seq(Sendable)
        BY <4>1 DEF Parsed
      <4>3. <<ItemAt(payload, at)>> \in Seq(Sendable) /\ <<item>> \in Seq(Sendable)
        BY <3>1
      <4> HIDE DEF next
      <4> QED
        BY <4>2, <4>3, ItemsAssociate
    <3> QED
      BY <2>4, <3>2, <3>9, <3>10
  <2>9. CASE ~HasItem(payload, at)
    <3>1. f[at] = [items |-> <<>>, processed_len |-> at]
      BY <2>7, <2>9 DEF Round
    <3>2. at = L
      BY <2>6, <3>1
    <3>3. <<>> \o <<item>> = <<item>>
      BY <1>1, ConcatEmptySeq
    <3> QED
      BY <1>6, <2>4, <3>1, <3>2, <3>3
  <2> QED
    BY <2>8, <2>9
<1> QED
  BY <1>8, <1>9

LEMMA ParseNothing == Parse(<<>>) = [items |-> <<>>, processed_len |-> 0]
<1>1. <<>> \in Seq(Cells) /\ Len(<<>>) = 0
  OBVIOUS
<1>2. PICK found : FindsFrom(<<>>, found, 0) /\ Parse(<<>>) = found[0]
  BY <1>1, ParseLoops
<1>3. ~HasItem(<<>>, 0)
  BY <1>1 DEF HasItem, Data, DescriptorSize
<1>4. found[0] = Round(<<>>, found, 0)
  BY <1>1, <1>2 DEF FindsFrom
<1> QED
  BY <1>2, <1>3, <1>4 DEF Round

\* FlattenSeq joins its parts one after the other.
JoinsUpTo(parts, joined, n) ==
  \A i \in 1..n : joined[i] = IF i = 1 THEN parts[i] ELSE joined[i - 1] \o parts[i]

LEMMA PartsJoin ==
  ASSUME NEW parts, NEW n \in Nat
  PROVE  \E joined : /\ joined = [i \in 1..n |-> joined[i]]
                     /\ JoinsUpTo(parts, joined, n)
<1> DEFINE Joins(k) == \E joined : /\ joined = [i \in 1..k |-> joined[i]]
                                   /\ JoinsUpTo(parts, joined, k)
           S == {k \in Nat : ~Joins(k)}
<1>1. CASE S = {}
  BY <1>1
<1>2. CASE S # {}
  <2>1. PICK k \in S : \A m \in S : k <= m
    <3> HIDE DEF S
    <3>1. S \in SUBSET Nat
      BY DEF S
    <3> QED
      BY <1>2, <3>1, Least
  <2>2. k \in Nat /\ ~Joins(k)
    BY <2>1
  <2>3. CASE k = 0
    <3> DEFINE g == [i \in 1..0 |-> parts[i]]
    <3>1. g = [i \in 1..0 |-> g[i]] /\ JoinsUpTo(parts, g, 0)
      BY DEF JoinsUpTo
    <3> QED
      BY <2>2, <2>3, <3>1
  <2>4. CASE k # 0
    <3>1. k - 1 \in Nat /\ ~(k <= k - 1)
      BY <2>2, <2>4
    <3>2. Joins(k - 1)
      <4> HIDE DEF Joins
      <4> QED
        BY <2>1, <3>1
    <3>3. PICK h : JoinsUpTo(parts, h, k - 1)
      BY <3>2
    <3> DEFINE g == [i \in 1..k |-> IF i = k THEN IF k = 1 THEN parts[k] ELSE h[k - 1] \o parts[k]
                                    ELSE h[i]]
    <3>4. g = [i \in 1..k |-> g[i]]
      OBVIOUS
    <3>5. /\ g[k] = IF k = 1 THEN parts[k] ELSE h[k - 1] \o parts[k]
          /\ \A i \in 1..(k - 1) : g[i] = h[i]
      <4>1. k \in 1..k /\ \A i \in 1..(k - 1) : i \in 1..k /\ i # k
        BY <2>2, <2>4
      <4> QED
        BY <4>1
    <3> HIDE DEF g
    <3>6. ASSUME NEW i \in 1..k
          PROVE  g[i] = IF i = 1 THEN parts[i] ELSE g[i - 1] \o parts[i]
      <4>1. CASE i = k
        <5>1. CASE k = 1
          BY <3>5, <4>1, <5>1
        <5>2. CASE k # 1
          <6>1. k - 1 \in 1..(k - 1)
            BY <2>2, <2>4, <5>2
          <6> QED
            BY <3>5, <4>1, <5>2, <6>1
        <5> QED
          BY <5>1, <5>2
      <4>2. CASE i # k
        <5>1. i \in 1..(k - 1) /\ (i # 1 => i - 1 \in 1..(k - 1))
          BY <2>2, <4>2
        <5>2. h[i] = IF i = 1 THEN parts[i] ELSE h[i - 1] \o parts[i]
          BY <3>3, <5>1 DEF JoinsUpTo
        <5> QED
          BY <3>5, <5>1, <5>2
      <4> QED
        BY <4>1, <4>2
    <3>7. JoinsUpTo(parts, g, k)
      BY <3>6 DEF JoinsUpTo
    <3> QED
      BY <2>2, <3>4, <3>7
  <2> QED
    BY <2>3, <2>4
<1> QED
  BY <1>1, <1>2

(***************************************************************************)
(* A receive loop gets exactly the items that were framed, in their order, *)
(* and reaches the end of the payload - for any items: those a generated   *)
(* Call method frames are those dispatchRpcCall reads.                     *)
(***************************************************************************)
THEOREM ParseFramedAll ==
  ASSUME NEW items \in Seq(Sendable)
  PROVE  /\ FramedAll(items) \in Seq(Cells)
         /\ Parse(FramedAll(items)) = [items |-> items, processed_len |-> Len(FramedAll(items))]
<1> DEFINE n == Len(items)
           parts == [i \in 1..n |-> Framed(items[i])]
           IsFlat(f) == f = [i \in 1..n |-> IF i = 1 THEN parts[i] ELSE f[i - 1] \o parts[i]]
           f == CHOOSE f : IsFlat(f)
<1>1. n \in Nat /\ DOMAIN items = 1..n
  BY LenProperties
<1>2. FramedAll(items) = IF Len(parts) = 0 THEN parts ELSE f[Len(parts)]
  BY <1>1 DEF FramedAll, FlattenSeq
<1>3. \A i \in 1..n : parts[i] = Framed(items[i]) /\ items[i] \in Sendable
  BY <1>1
<1>4. Len(parts) = n
  BY <1>1
<1>5. IsFlat(f)
  <2> HIDE DEF parts, n
  <2>1. PICK g : g = [i \in 1..n |-> g[i]] /\ JoinsUpTo(parts, g, n)
    BY <1>1, PartsJoin
  <2>2. IsFlat(g)
    BY <2>1 DEF JoinsUpTo
  <2> HIDE DEF IsFlat
  <2> QED
    BY <2>2
<1>6. CASE n = 0
  <2>1. parts = <<>> /\ items = <<>>
    BY <1>1, <1>6
  <2>2. FramedAll(items) = <<>>
    BY <1>2, <1>4, <1>6, <2>1
  <2>3. Parse(FramedAll(items)) = [items |-> items, processed_len |-> Len(FramedAll(items))]
    <3>1. Len(<<>>) = 0
      OBVIOUS
    <3> HIDE DEF parts
    <3> QED
      BY <2>1, <2>2, <3>1, ParseNothing
  <2>4. <<>> \in Seq(Cells)
    OBVIOUS
  <2> QED
    BY <2>2, <2>3, <2>4
<1>7. CASE n # 0
  <2> HIDE DEF f, parts
  <2> DEFINE Read(i) == /\ f[i] \in Seq(Cells)
                        /\ Parse(f[i]) = [items |-> SubSeq(items, 1, i),
                                          processed_len |-> Len(f[i])]
             S == {i \in 1..n : ~Read(i)}
  <2>1. f[1] = parts[1] /\ \A i \in 2..n : f[i] = f[i - 1] \o parts[i]
    <3>1. \A i \in 1..n : f[i] = IF i = 1 THEN parts[i] ELSE f[i - 1] \o parts[i]
      BY <1>5
    <3>2. 1 \in 1..n /\ \A i \in 2..n : i \in 1..n /\ i # 1
      BY <1>1, <1>7
    <3> QED
      BY <3>1, <3>2
  <2>2. Read(1)
    <3>1. 1 \in 1..n
      BY <1>1, <1>7
    <3>2. Framed(items[1]) \in Seq(Cells) /\ <<>> \in Seq(Cells)
      BY <1>3, <3>1, FramedCells
    <3>3. <<>> \o Framed(items[1]) = Framed(items[1])
      BY <3>2, ConcatEmptySeq
    <3>4. Parse(<<>>) = [items |-> <<>>, processed_len |-> Len(<<>>)]
      BY ParseNothing
    <3>5. Parse(<<>> \o Framed(items[1]))
            = [items |-> Append(<<>>, items[1]), processed_len |-> Len(<<>> \o Framed(items[1]))]
      BY <1>3, <3>1, <3>2, <3>4, ParseAppended
    <3>6. Append(<<>>, items[1]) = SubSeq(items, 1, 1)
      BY <1>1, <3>1
    <3> QED
      BY <1>3, <2>1, <3>1, <3>2, <3>3, <3>5, <3>6
  <2>3. CASE S = {}
    <3>1. n \in 1..n
      BY <1>1, <1>7
    <3>2. Read(n)
      BY <2>3, <3>1
    <3>3. SubSeq(items, 1, n) = items
      BY <1>1
    <3> QED
      BY <1>2, <1>4, <1>7, <3>2, <3>3
  <2>4. CASE S # {}
    <3>1. PICK k \in S : \A m \in S : k <= m
      <4> HIDE DEF S
      <4>1. S \in SUBSET Nat
        BY <1>1 DEF S
      <4> QED
        BY <2>4, <4>1, Least
    <3> HIDE DEF Read
    <3>2. k \in 2..n /\ k - 1 \in 1..n /\ ~(k <= k - 1) /\ ~Read(k)
      <4>1. k \in 1..n /\ ~Read(k)
        BY <3>1
      <4>2. k # 1
        BY <2>2, <4>1
      <4> QED
        BY <1>1, <4>1, <4>2
    <3>3. Read(k - 1)
      BY <3>1, <3>2
    <3>4. /\ f[k - 1] \in Seq(Cells) /\ items[k] \in Sendable
          /\ Parse(f[k - 1]) = [items |-> SubSeq(items, 1, k - 1),
                                processed_len |-> Len(f[k - 1])]
      BY <1>1, <1>3, <3>2, <3>3 DEF Read
    <3>5. f[k] = f[k - 1] \o Framed(items[k])
      BY <1>1, <1>3, <2>1, <3>2
    <3>6. /\ f[k] \in Seq(Cells)
          /\ Parse(f[k]) = [items |-> Append(SubSeq(items, 1, k - 1), items[k]),
                            processed_len |-> Len(f[k])]
      BY <3>4, <3>5, ParseAppended
    <3>7. Append(SubSeq(items, 1, k - 1), items[k]) = SubSeq(items, 1, k)
      BY <1>1, <3>2
    <3> QED
      BY <3>2, <3>6, <3>7 DEF Read
  <2> QED
    BY <2>3, <2>4
<1> QED
  BY <1>6, <1>7

----------------------------------------------------------------------------
(* Remote calls.                                                           *)

LEMMA AsManyAsParameters ==
  ASSUME NEW parameters, NEW items \in Seq(Sendable), EveryParameter(parameters, items)
  PROVE  Cardinality(DOMAIN items) = Cardinality(DOMAIN parameters)
<1> DEFINE ids == [i \in 1..Len(items) |-> items[i].id]
<1>1. Len(items) \in Nat /\ DOMAIN items = 1..Len(items)
  BY LenProperties
<1>2. \A i, j \in 1..Len(items) : items[i].id = items[j].id => i = j
  BY <1>1 DEF EveryParameter
<1>3. DOMAIN parameters = {items[i].id : i \in 1..Len(items)}
  BY <1>1 DEF EveryParameter
<1>4. ids \in Bijection(1..Len(items), DOMAIN parameters)
  BY <1>2, <1>3 DEF Bijection, Injection, Surjection, IsInjective
<1>5. Cardinality(DOMAIN parameters) = Len(items)
  <2>1. ExistsBijection(1..Len(items), DOMAIN parameters)
    BY <1>4 DEF ExistsBijection
  <2> QED
    BY <1>1, <2>1, FS_CountingElements
<1>6. Cardinality(1..Len(items)) = Len(items)
  <2> DEFINE same == [i \in 1..Len(items) |-> i]
  <2>1. same \in Bijection(1..Len(items), 1..Len(items))
    BY DEF Bijection, Injection, Surjection, IsInjective
  <2>2. ExistsBijection(1..Len(items), 1..Len(items))
    BY <2>1 DEF ExistsBijection
  <2> QED
    BY <1>1, <2>2, FS_CountingElements
<1> QED
  BY <1>1, <1>5, <1>6

(***************************************************************************)
(* The generated dispatchRpcCall calls the function with the arguments     *)
(* that the generated Call method framed, or fails the call when one of    *)
(* them does not fit its parameter - for every schema and all arguments.   *)
(***************************************************************************)
THEOREM DispatchFramed ==
  ASSUME NEW parameters, NEW items \in Seq(Sendable), EveryParameter(parameters, items)
  PROVE  dispatchRpcCall(parameters, FramedAll(items)) =
           IF \A i \in DOMAIN items :
                ParameterFits(parameters[items[i].id], Len(items[i].data))
             THEN Called([id \in DOMAIN parameters |->
                            (CHOOSE item \in ToSet(items) : item.id = id).data])
             ELSE Error
<1> DEFINE payload == FramedAll(items)
           known == {i \in DOMAIN items : items[i].id \in DOMAIN parameters}
           fits == \A i \in DOMAIN items :
                     ParameterFits(parameters[items[i].id], Len(items[i].data))
           read == [id \in {items[i].id : i \in known} |->
                      items[Max({i \in known : items[i].id = id})].data]
           given == [id \in DOMAIN parameters |->
                       (CHOOSE item \in ToSet(items) : item.id = id).data]
<1>1. /\ payload \in Seq(Cells) /\ Len(payload) \in Nat
      /\ Parse(payload) = [items |-> items, processed_len |-> Len(payload)]
  BY ParseFramedAll, LenProperties
<1>2. known = DOMAIN items
  BY DEF EveryParameter
<1>3. ~(Len(payload) + DescriptorSize <= Len(payload))
  BY <1>1 DEF DescriptorSize
<1>4. AllReceived(parameters, known)
  BY <1>2, AsManyAsParameters DEF AllReceived
<1>5. dispatchRpcCall(parameters, payload) = IF fits THEN Called(read) ELSE Error
  <2>1. Parse(payload).items = items /\ Parse(payload).processed_len = Len(payload)
    BY <1>1
  <2> HIDE DEF payload
  <2> QED
    BY <1>2, <1>3, <1>4, <2>1 DEF dispatchRpcCall
<1>6. ASSUME NEW id \in DOMAIN parameters
      PROVE  items[Max({i \in known : items[i].id = id})]
               = (CHOOSE item \in ToSet(items) : item.id = id)
  <2>1. PICK n \in DOMAIN items : items[n].id = id
    BY DEF EveryParameter
  <2>2. \A i \in DOMAIN items : items[i].id = id => i = n
    BY <2>1 DEF EveryParameter
  <2>3. {i \in known : items[i].id = id} = {n}
    BY <1>2, <2>1, <2>2
  <2>4. Max({n}) = n
    <3>1. n \in Nat
      BY LenProperties
    <3> QED
      BY <3>1 DEF Max
  <2>5. items[n] \in ToSet(items) /\ \A item \in ToSet(items) : item.id = id => item = items[n]
    BY <2>1, <2>2 DEF ToSet
  <2>6. (CHOOSE item \in ToSet(items) : item.id = id) = items[n]
    BY <2>1, <2>5
  <2> QED
    BY <2>3, <2>4, <2>6
<1>7. {items[i].id : i \in known} = DOMAIN parameters
  BY <1>2 DEF EveryParameter
<1>8. read = given
  <2> HIDE DEF known
  <2> QED
    BY <1>6, <1>7
<1> HIDE DEF read, given
<1> QED
  BY <1>5, <1>8 DEF given

(***************************************************************************)
(* Whatever a request holds, dispatchRpcCall only calls the function with  *)
(* arguments of its parameters that have the size of the parameter, or fit *)
(* its array: a request nobody generated leads to an error at worst.  That *)
(* every parameter is given is not said: an id sent twice counts for two.  *)
(***************************************************************************)
THEOREM DispatchFits ==
  ASSUME NEW parameters, NEW payload \in Seq(Cells),
         dispatchRpcCall(parameters, payload) # Error
  PROVE  \E arguments :
           /\ dispatchRpcCall(parameters, payload) = Called(arguments)
           /\ DOMAIN arguments \subseteq DOMAIN parameters
           /\ \A id \in DOMAIN arguments :
                /\ arguments[id] \in Seq(Cells)
                /\ ParameterFits(parameters[id], Len(arguments[id]))
<1> DEFINE items == Parse(payload).items
           known == {i \in DOMAIN items : items[i].id \in DOMAIN parameters}
           of(id) == {i \in known : items[i].id = id}
           given == [id \in {items[i].id : i \in known} |-> items[Max(of(id))].data]
<1>1. items \in Seq(Sendable)
  BY ParseStops
<1>2. /\ dispatchRpcCall(parameters, payload) = Called(given)
      /\ \A i \in known : ParameterFits(parameters[items[i].id], Len(items[i].data))
  BY DEF dispatchRpcCall
<1>3. ASSUME NEW id \in DOMAIN given
      PROVE  /\ id \in DOMAIN parameters
             /\ given[id] \in Seq(Cells)
             /\ ParameterFits(parameters[id], Len(given[id]))
  <2>1. of(id) # {} /\ of(id) \subseteq 1..Len(items) /\ Len(items) \in Nat
    <3>1. DOMAIN items = 1..Len(items) /\ Len(items) \in Nat
      BY <1>1, LenProperties
    <3> HIDE DEF items
    <3> QED
      BY <3>1
  <2>2. Max(of(id)) \in of(id)
    <3> HIDE DEF of
    <3> QED
      BY <2>1, MaxIsMember
  <2>3. PICK i \in known : i = Max(of(id)) /\ items[i].id = id
    BY <2>2
  <2>4. items[i].data \in Seq(Cells)
    <3>1. items[i] \in Sendable
      BY <1>1
    <3> QED
      BY <3>1 DEF Sendable
  <2>5. given[id] = items[i].data
    BY <2>3
  <2> HIDE DEF given, items
  <2> QED
    BY <1>2, <2>3, <2>4, <2>5
<1>4. DOMAIN given \subseteq DOMAIN parameters
  BY <1>3
<1> HIDE DEF given
<1> QED
  BY <1>2, <1>3, <1>4
=============================================================================
