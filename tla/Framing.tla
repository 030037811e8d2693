------------------------------ MODULE Framing ------------------------------
(***************************************************************************)
(* How several values travel in one payload: each is preceded by a         *)
(* DataDescriptor with its id and size.  Transactions, configurations and  *)
(* the parameters of remote calls are all framed so, by four writers       *)
(* (SendData on either side, and the generated Call methods) and read by   *)
(* four loops (HandleDataTransaction on either side, the configuration     *)
(* and the generated dispatchRpcCall).                                     *)
(*                                                                         *)
(* A payload is a sequence of cells.  A descriptor fills DescriptorSize of *)
(* them, the first with what it says; the others hold a number each.  All  *)
(* cells are alike, so any can be read as a descriptor.  Sizes are in      *)
(* cells.                                                                  *)
(***************************************************************************)
EXTENDS Naturals, SequencesExt

DescriptorSize == 2

Cell(id, size) == [target_id |-> id, payload_size |-> size]

Byte(b) == Cell(b, 0)

Cells == [target_id : Nat, payload_size : Nat]

\* A value as it is given to SendData: an id and the cells of its data.
Item(id, data) == [id |-> id, data |-> data]

Sendable == [id : Nat, data : Seq(Cells)]

Descriptor(item) ==
  <<Cell(item.id, Len(item.data)), Byte(0)>>

Framed(item) == Descriptor(item) \o item.data

FramedAll(items) == FlattenSeq([i \in DOMAIN items |-> Framed(items[i])])

\* A generated Call method frames every parameter, once.
EveryParameter(parameters, items) ==
  /\ {items[i].id : i \in DOMAIN items} = DOMAIN parameters
  /\ \A i, j \in DOMAIN items : items[i].id = items[j].id => i = j

\* What a receive loop finds from offset at on: the items it can read whole,
\* and the offset where it stops.
Parse(payload) ==
  LET found[at \in 0..Len(payload)] ==
        IF at + DescriptorSize > Len(payload)
          THEN [items |-> <<>>, processed_len |-> at]
          ELSE LET descriptor == payload[at + 1]
                   data == at + DescriptorSize
                   next == data + descriptor.payload_size
               IN IF next > Len(payload)
                    THEN [items |-> <<>>, processed_len |-> at]
                    ELSE [found[next] EXCEPT !.items =
                            <<Item(descriptor.target_id, SubSeq(payload, data + 1, next))>> \o @]
  IN found[0]

----------------------------------------------------------------------------
(* The generated receivers.  A schema gives each id its element size,      *)
(* whether it is an array, and the most elements there is room for.        *)

SizeFits(type, size) ==
  IF type.array THEN size % type.size = 0 ELSE size = type.size

\* handleData and OnData: unknown ids and sizes that do not fit are ignored.
Accepted(schema, item) ==
  item.id \in DOMAIN schema /\ SizeFits(schema[item.id], Len(item.data))

\* The callbacks a transaction leads to, between its start and its end.
HandleDataTransaction(schema, payload) ==
  SelectSeq(Parse(payload).items, LAMBDA item : Accepted(schema, item))

\* A parameter additionally has to fit its buffer.
ParameterFits(type, size) ==
  SizeFits(type, size) /\ (type.array => size <= type.max * type.size)

\* What becomes of a call: the function is called, or the caller gets ERROR.
Called(arguments) == [function |-> "called", arguments |-> arguments]
Error == [function |-> "error"]

\* params_received counts items, not ids.
AllReceived(parameters, known) == Cardinality(known) = Cardinality(DOMAIN parameters)

\* dispatchRpcCall: the arguments the function is called with, or the error.
\* An item that was cut off fails the call; of a repeated one the last counts.
dispatchRpcCall(parameters, payload) ==
  LET parsed == Parse(payload)
      items == parsed.items
      known == {i \in DOMAIN items : items[i].id \in DOMAIN parameters}
      cut_off == parsed.processed_len + DescriptorSize <= Len(payload)
      parse_ok == ~cut_off /\ \A i \in known :
                    ParameterFits(parameters[items[i].id], Len(items[i].data))
  IN IF parse_ok /\ AllReceived(parameters, known)
       THEN Called([id \in {items[i].id : i \in known} |->
                      items[Max({i \in known : items[i].id = id})].data])
       ELSE Error
=============================================================================
