----------------------------- MODULE HelperProofs -----------------------------
(***************************************************************************)
(* The multicast helper sends what it accepted in order and once, and      *)
(* delivers what arrived in order and once, for every prefix, suffix and   *)
(* number of messages.                                                     *)
(*                                                                         *)
(* The codecs of string_codec.cpp give back what they are given, for every *)
(* input.                                                                  *)
(***************************************************************************)
EXTENDS Multicast, SequenceTheorems, TLAPS

Codec == INSTANCE StringCodec

-----------------------------------------------------------------------------
(* The frame *)

(* What unframes was framed.                                               *)
LEMMA Unframed ==
    ASSUME Prefix \in Seq(Byte), Suffix \in Seq(Byte), NEW m \in Seq(Byte), Unpacks(m)
    PROVE  /\ UnpackMessage(m) \in Seq(Byte) /\ UnpackMessage(m) # <<>>
           /\ PacketMessage(UnpackMessage(m)) = m
<1> DEFINE p == Len(Prefix)
           s == Len(m) - Len(Suffix)
<1>1. /\ p \in Nat /\ s \in Nat /\ p < s /\ s <= Len(m) /\ Len(m) \in Nat
      /\ SubSeq(m, 1, p) = Prefix /\ SubSeq(m, s + 1, Len(m)) = Suffix
  <2>1. Len(Prefix) \in Nat /\ Len(Suffix) \in Nat /\ Len(m) \in Nat
    OBVIOUS
  <2> QED BY <2>1 DEF Unpacks
<1>2. UnpackMessage(m) = SubSeq(m, p + 1, s)
  BY DEF UnpackMessage
<1> HIDE DEF p, s
<1>3. SubSeq(m, 1, p) \o SubSeq(m, p + 1, s) = SubSeq(m, 1, s)
  <2>1. 1 \in 1 .. Len(m) + 1 /\ p \in 1 - 1 .. Len(m) /\ s \in p .. Len(m)
    BY <1>1
  <2> QED BY <2>1, ConcatAdjacentSubSeq, Zenon
<1>4. SubSeq(m, 1, s) \o SubSeq(m, s + 1, Len(m)) = SubSeq(m, 1, Len(m))
  <2>1. 1 \in 1 .. Len(m) + 1 /\ s \in 1 - 1 .. Len(m) /\ Len(m) \in s .. Len(m)
    BY <1>1
  <2> QED BY <2>1, ConcatAdjacentSubSeq, Zenon
<1>5. SubSeq(m, 1, Len(m)) = m
  BY SubSeqFull
<1>6. SubSeq(m, p + 1, s) \in Seq(Byte) /\ Len(SubSeq(m, p + 1, s)) = s - p
  BY <1>1
<1>7. SubSeq(m, p + 1, s) # <<>>
  BY <1>1, <1>6
<1> QED BY <1>1, <1>2, <1>3, <1>4, <1>5, <1>6, <1>7 DEF PacketMessage

Cuts(m, p, d, s) ==
    /\ Len(m) = Len(p) + Len(d) + Len(s)
    /\ SubSeq(m, 1, Len(p)) = p
    /\ SubSeq(m, Len(p) + 1, Len(p) + Len(d)) = d
    /\ SubSeq(m, Len(p) + Len(d) + 1, Len(p) + Len(d) + Len(s)) = s

LEMMA ThreeParts ==
    ASSUME NEW p \in Seq(Byte), NEW d \in Seq(Byte), NEW s \in Seq(Byte)
    PROVE  Cuts((p \o d) \o s, p, d, s)
<1>1. Len((p \o d) \o s) = Len(p) + Len(d) + Len(s)
  OBVIOUS
<1>2. SubSeq((p \o d) \o s, 1, Len(p)) = p
  OBVIOUS
<1>3. SubSeq((p \o d) \o s, Len(p) + 1, Len(p) + Len(d)) = d
  OBVIOUS
<1>4. SubSeq((p \o d) \o s, Len(p) + Len(d) + 1, Len(p) + Len(d) + Len(s)) = s
  OBVIOUS
<1> QED BY <1>1, <1>2, <1>3, <1>4 DEF Cuts

(* unpack_message() accepts what packet_message() makes and gives the data *)
(* back, whatever the prefix and the suffix.                               *)
THEOREM FrameRoundTrip ==
    ASSUME Prefix \in Seq(Byte), Suffix \in Seq(Byte), NEW data \in Seq(Byte), data # <<>>
    PROVE  Unpacks(PacketMessage(data)) /\ UnpackMessage(PacketMessage(data)) = data
<1> DEFINE m == PacketMessage(data)
           p == Len(Prefix)
           n == Len(data)
           q == Len(Suffix)
<1>1. /\ Len(m) = p + n + q
      /\ SubSeq(m, 1, p) = Prefix
      /\ SubSeq(m, p + 1, p + n) = data
      /\ SubSeq(m, p + n + 1, p + n + q) = Suffix
  <2>1. Cuts((Prefix \o data) \o Suffix, Prefix, data, Suffix)
    BY ThreeParts, Zenon
  <2> QED BY <2>1 DEF Cuts, PacketMessage
<1>2. p \in Nat /\ q \in Nat /\ n \in Nat /\ n > 0
  OBVIOUS
<1> HIDE DEF m, p, q, n
<1>3. /\ Len(m) > p + q /\ Len(m) - q + 1 = p + n + 1 /\ Len(m) - q = p + n
  BY <1>1, <1>2
<1>4. Unpacks(m)
  BY <1>1, <1>3 DEF Unpacks, p, q
<1>5. UnpackMessage(m) = data
  BY <1>1, <1>3 DEF UnpackMessage, p, q
<1> QED BY <1>4, <1>5 DEF m

-----------------------------------------------------------------------------
(* Sequences of messages *)

LEMMA Assoc ==
    \A p, q, r \in Seq(Data) : (p \o q) \o r = p \o (q \o r)
  OBVIOUS

LEMMA Ends ==
    ASSUME NEW s \in Seq(Data)
    PROVE  /\ \A x \in Data : /\ Append(s, x) = s \o <<x>> /\ Append(s, x) \in Seq(Data)
                              /\ <<x>> \in Seq(Data)
           /\ s # <<>> => /\ Head(s) \in Data /\ Tail(s) \in Seq(Data)
                          /\ <<Head(s)>> \in Seq(Data) /\ s = <<Head(s)>> \o Tail(s)
  OBVIOUS

LEMMA Single ==
    ASSUME NEW x \in Data
    PROVE  Head(<<x>>) = x /\ Tail(<<x>>) = <<>> /\ Append(<<>>, x) = <<x>>
  OBVIOUS

(* One more at the end.                                                    *)
LEMMA Longer ==
    ASSUME NEW p \in Seq(Data), NEW q \in Seq(Data), NEW x \in Data
    PROVE  Append(p \o q, x) = p \o Append(q, x)
  OBVIOUS

(* The first of the second part becomes the last of the first.             *)
LEMMA Moved ==
    ASSUME NEW p \in Seq(Data), NEW q \in Seq(Data), q # <<>>
    PROVE  Append(p, Head(q)) \o Tail(q) = p \o q
  OBVIOUS

-----------------------------------------------------------------------------
(* The invariant *)

Delivery == [at : Nat, data : Data]

SendTypes ==
    /\ posted \in Seq(Data) /\ list \in Seq(Data) /\ flying \in Seq(Data)
    /\ accepted \in Seq(Data) /\ wire \in Seq(Data)
RecvTypes ==
    /\ queue \in Seq(Data) /\ batch \in Seq(Data) /\ arrived \in Seq(Data)
    /\ done \in Seq(Data) /\ delivered \in Seq(Delivery)

(* The contexts are stopped, and the lists cleared, after m_running.       *)
Stages ==
    /\ running \in BOOLEAN
    /\ owner \in {"up", "send", "recv", "notify", "join", "exited"}
    /\ owner \notin {"up", "send"} => "send" \in stopped
    /\ owner # "up" => ~running

(* What arrived and was not dealt with is in the batch and in the queue.   *)
Incoming ==
    /\ \E rest \in Seq(Data) : arrived = done \o rest /\ (running => rest = batch \o queue)
    /\ handler # "deliver" => batch = <<>>

Deliveries ==
    /\ \A i \in 1 .. Len(delivered) :
          /\ delivered[i].at \in 1 .. Len(done)
          /\ delivered[i].data # <<>>
          /\ done[delivered[i].at] = PacketMessage(delivered[i].data)
    /\ \A i, j \in 1 .. Len(delivered) : i < j => delivered[i].at < delivered[j].at

SendInv == SendTypes /\ OneSend /\ SentInOrder
RecvInv == RecvTypes /\ Incoming /\ Deliveries
IInv == Stages /\ SendInv /\ RecvInv

LEMMA InitIInv == Init => IInv
<1> SUFFICES ASSUME Init PROVE IInv
  OBVIOUS
<1>1. <<>> \in Seq(Data) /\ <<>> \in Seq(Delivery) /\ <<>> \o <<>> = <<>> /\ Len(<<>>) = 0
  OBVIOUS
<1>2. Stages
  BY DEF Init, Stages
<1>3. SendInv
  BY <1>1 DEF Init, SendInv, SendTypes, OneSend, SentInOrder
<1>4. RecvTypes /\ Incoming
  BY <1>1 DEF Init, RecvTypes, Incoming
<1>5. Deliveries
  BY <1>1 DEF Init, Deliveries
<1> QED BY <1>2, <1>3, <1>4, <1>5 DEF IInv, RecvInv

(* The two halves do not touch each other.                                 *)
LEMMA SendKept ==
    ASSUME SendInv, UNCHANGED <<sending, stopped>>, running' => running
    PROVE  SendInv'
<1>1. UNCHANGED <<posted, list, flying, accepted, wire, stopped>>
  BY DEF sending
<1> QED BY <1>1 DEF SendInv, SendTypes, OneSend, SentInOrder

LEMMA RecvKept ==
    ASSUME RecvInv, UNCHANGED <<receiving, handler>>, running' => running
    PROVE  RecvInv'
<1>1. UNCHANGED <<queue, batch, arrived, done, delivered, handler>>
  BY DEF receiving
<1> QED BY <1>1 DEF RecvInv, RecvTypes, Incoming, Deliveries

-----------------------------------------------------------------------------
(* Sending *)

LEMMA SendDataStep ==
    ASSUME IInv, Prefix \in Data, Suffix \in Data, NEW data \in Data, SendData(data)
    PROVE  IInv'
<1> DEFINE m == PacketMessage(data)
<1>1. m \in Data
  BY DEF PacketMessage, Data
<1> HIDE DEF m
<1>2. /\ running /\ posted' = Append(posted, m) /\ accepted' = Append(accepted, m)
      /\ UNCHANGED <<running, list, flying, wire, stopped, owner>>
      /\ UNCHANGED <<receiving, handler>>
  BY DEF SendData, m
<1>3. SendTypes /\ OneSend /\ accepted = (wire \o list) \o posted /\ wire \o list \in Seq(Data)
  BY <1>2 DEF IInv, SendInv, SendTypes, SentInOrder
<1>4. Append((wire \o list) \o posted, m) = (wire \o list) \o Append(posted, m)
  <2>1. posted \in Seq(Data)
    BY <1>3 DEF SendTypes
  <2> QED BY <1>1, <1>3, <2>1, Longer
<1>5. SendTypes'
  BY <1>1, <1>2, <1>3, Ends DEF SendTypes
<1>6. OneSend'
  BY <1>2, <1>3 DEF OneSend
<1>7. SentInOrder'
  BY <1>2, <1>3, <1>4, <1>5 DEF SentInOrder, SendTypes
<1>8. RecvInv' /\ Stages'
  BY <1>2, RecvKept DEF IInv, Stages
<1> QED BY <1>5, <1>6, <1>7, <1>8 DEF IInv, SendInv

LEMMA HandlePostStep ==
    ASSUME IInv, HandlePost
    PROVE  IInv'
<1>1. /\ UNCHANGED <<running, accepted, wire, stopped, owner>> /\ UNCHANGED <<receiving, handler>>
      /\ "send" \notin stopped /\ posted # <<>> /\ posted' = Tail(posted)
  BY DEF HandlePost
<1>2. RecvInv' /\ Stages'
  BY <1>1, RecvKept DEF IInv, Stages
<1>3. /\ SendTypes /\ OneSend /\ SentInOrder
      /\ Head(posted) \in Data /\ Tail(posted) \in Seq(Data)
  <2>1. SendTypes /\ OneSend /\ SentInOrder
    BY DEF IInv, SendInv
  <2> QED BY <1>1, <2>1, Ends DEF SendTypes
<1>4. CASE running
  <2>1. /\ list' = Append(list, Head(posted))
        /\ flying' = IF list = <<>> THEN Append(flying, Head(posted)) ELSE flying
    BY <1>4 DEF HandlePost
  <2>2. list' \in Seq(Data) /\ flying' \in Seq(Data)
    BY <1>3, <2>1, Ends DEF SendTypes
  <2>3. SendTypes'
    BY <1>1, <1>3, <2>2 DEF SendTypes
  <2>4. OneSend'
    <3>1. CASE list = <<>>
      <4>1. flying = <<>>
        BY <1>1, <1>3, <3>1 DEF OneSend
      <4>2. list' = <<Head(posted)>> /\ flying' = <<Head(posted)>> /\ Head(list') = Head(posted)
        BY <1>3, <2>1, <3>1, <4>1, Single
      <4> QED BY <4>2 DEF OneSend
    <3>2. CASE list # <<>>
      <4>1. flying = <<Head(list)>> /\ flying' = flying
        BY <1>1, <1>3, <1>4, <2>1, <3>2 DEF OneSend
      <4>2. list' # <<>> /\ Head(list') = Head(list)
        <5>1. list \in Seq(Data)
          BY <1>3 DEF SendTypes
        <5> QED BY <5>1, <1>3, <2>1, <3>2
      <4> QED BY <4>1, <4>2 DEF OneSend
    <3> QED BY <3>1, <3>2
  <2>6. SentInOrder'
    <3>1. accepted = (wire \o list) \o posted /\ wire \o list \in Seq(Data)
          /\ posted \in Seq(Data) /\ wire \in Seq(Data) /\ list \in Seq(Data)
      BY <1>3, <1>4 DEF SentInOrder, SendTypes
    <3>2. Append(wire \o list, Head(posted)) \o Tail(posted) = (wire \o list) \o posted
      BY <1>1, <3>1, Moved
    <3>3. Append(wire \o list, Head(posted)) = wire \o Append(list, Head(posted))
      BY <1>3, <3>1, Longer
    <3> QED BY <1>1, <1>3, <2>1, <3>1, <3>2, <3>3 DEF SentInOrder
  <2> QED BY <1>2, <2>3, <2>4, <2>6 DEF IInv, SendInv
<1>5. CASE ~running
  <2>1. UNCHANGED <<list, flying>>
    BY <1>5 DEF HandlePost
  <2> QED BY <1>1, <1>2, <1>3, <1>5, <2>1 DEF IInv, SendInv, SendTypes, OneSend, SentInOrder
<1> QED BY <1>4, <1>5

LEMMA HandleSentStep ==
    ASSUME IInv, HandleSent
    PROVE  IInv'
<1>1. /\ UNCHANGED <<running, posted, accepted, stopped, owner>> /\ UNCHANGED <<receiving, handler>>
      /\ "send" \notin stopped /\ flying # <<>>
      /\ SendTypes /\ OneSend /\ SentInOrder
  BY DEF HandleSent, IInv, SendInv
<1>2. list # <<>> /\ flying = <<Head(list)>> /\ Head(flying) = Head(list) /\ Tail(flying) = <<>>
  <2>1. list # <<>> /\ flying = <<Head(list)>>
    BY <1>1 DEF OneSend
  <2>2. Head(list) \in Data
    BY <1>1, <2>1, Ends DEF SendTypes
  <2> QED BY <2>1, <2>2, Single
<1>3. /\ wire' = Append(wire, Head(list)) /\ list' = Tail(list)
      /\ flying' = IF list' = <<>> THEN <<>> ELSE <<Head(list')>>
  <2>1. wire' = Append(wire, Head(list)) /\ list' = Tail(list)
    BY <1>2 DEF HandleSent
  <2>2. Tail(list) # <<>> => Append(<<>>, Head(Tail(list))) = <<Head(Tail(list))>>
    BY <1>1, <1>2, Ends, Single DEF SendTypes
  <2> QED BY <1>2, <2>1, <2>2 DEF HandleSent
<1>4. wire \in Seq(Data) /\ list \in Seq(Data) /\ Head(list) \in Data /\ list' \in Seq(Data)
  BY <1>1, <1>2, <1>3, Ends DEF SendTypes
<1>5. wire' \in Seq(Data) /\ flying' \in Seq(Data)
  BY <1>3, <1>4, Ends
<1>6. wire' \o list' = wire \o list
  BY <1>2, <1>3, <1>4, Moved
<1>7. SendTypes' /\ OneSend' /\ SentInOrder'
  BY <1>1, <1>3, <1>4, <1>5, <1>6 DEF SendTypes, OneSend, SentInOrder
<1>8. RecvInv' /\ Stages'
  BY <1>1, RecvKept DEF IInv, Stages
<1> QED BY <1>7, <1>8 DEF IInv, SendInv

LEMMA HandleSendErrorStep ==
    ASSUME IInv, HandleSendError
    PROVE  IInv'
<1>1. /\ UNCHANGED <<running, posted, list, accepted, wire, stopped, owner>>
      /\ UNCHANGED <<receiving, handler>>
      /\ "send" \notin stopped /\ flying # <<>>
      /\ SendTypes /\ OneSend /\ SentInOrder
  BY DEF HandleSendError, IInv, SendInv
<1>2. list # <<>> /\ flying = <<Head(list)>> /\ Tail(flying) = <<>> /\ Head(list) \in Data
  <2>1. list # <<>> /\ flying = <<Head(list)>>
    BY <1>1 DEF OneSend
  <2>2. Head(list) \in Data
    BY <1>1, <2>1, Ends DEF SendTypes
  <2> QED BY <2>1, <2>2, Single
<1>3. flying' = IF running THEN <<Head(list)>> ELSE <<>>
  BY <1>2, Single DEF HandleSendError
<1>4. flying' \in Seq(Data)
  BY <1>1, <1>2, <1>3, Ends DEF SendTypes
<1>5. SendTypes' /\ OneSend' /\ SentInOrder'
  BY <1>1, <1>2, <1>3, <1>4 DEF SendTypes, OneSend, SentInOrder
<1>6. RecvInv' /\ Stages'
  BY <1>1, RecvKept DEF IInv, Stages
<1> QED BY <1>5, <1>6 DEF IInv, SendInv

-----------------------------------------------------------------------------
(* Receiving *)

LEMMA ArriveStep ==
    ASSUME IInv, NEW m \in Data, Arrive(m)
    PROVE  IInv'
<1>1. /\ UNCHANGED <<sending, stopped>> /\ UNCHANGED <<running, owner, batch, done, delivered>>
      /\ queue' = Append(queue, m) /\ arrived' = Append(arrived, m)
      /\ handler' = IF handler = "wait" THEN "test" ELSE handler
  BY DEF Arrive
<1>2. SendInv' /\ Stages'
  BY <1>1, SendKept DEF IInv, Stages
<1>3. RecvTypes /\ Incoming /\ Deliveries
  BY DEF IInv, RecvInv
<1>4. RecvTypes'
  BY <1>1, <1>3, Ends DEF RecvTypes
<1>5. PICK rest \in Seq(Data) : arrived = done \o rest /\ (running => rest = batch \o queue)
  BY <1>3 DEF Incoming
<1>6. /\ Append(done \o rest, m) = done \o Append(rest, m) /\ Append(rest, m) \in Seq(Data)
      /\ Append(batch \o queue, m) = batch \o Append(queue, m)
  <2>1. done \in Seq(Data) /\ batch \in Seq(Data) /\ queue \in Seq(Data)
    BY <1>3 DEF RecvTypes
  <2>2. Append(done \o rest, m) = done \o Append(rest, m)
    BY <2>1, Longer
  <2>a. Append(rest, m) \in Seq(Data)
    OBVIOUS
  <2>3. Append(batch \o queue, m) = batch \o Append(queue, m)
    BY <2>1, Longer
  <2> QED BY <2>2, <2>a, <2>3
<1>7. Incoming'
  <2>1. arrived' = done' \o Append(rest, m)
    BY <1>1, <1>5, <1>6
  <2>2. running' => Append(rest, m) = batch' \o queue'
    BY <1>1, <1>5, <1>6
  <2>3. handler' # "deliver" => batch' = <<>>
    BY <1>1, <1>3 DEF Incoming
  <2> QED BY <2>1, <2>2, <2>3, <1>6 DEF Incoming
<1>8. Deliveries'
  BY <1>1, <1>3 DEF Deliveries
<1> QED BY <1>2, <1>4, <1>7, <1>8 DEF IInv, RecvInv

LEMMA HandlerStep ==
    ASSUME IInv, HandlerTest \/ HandlerWaits \/ HandlerNext
    PROVE  IInv'
<1>1. /\ UNCHANGED <<sending, stopped>> /\ UNCHANGED <<running, owner, arrived, done, delivered>>
  BY DEF HandlerTest, HandlerWaits, HandlerNext, receiving
<1>2. SendInv' /\ Stages'
  BY <1>1, SendKept DEF IInv, Stages
<1>3. RecvTypes /\ Incoming /\ Deliveries
  BY DEF IInv, RecvInv
<1>4. Deliveries'
  BY <1>1, <1>3 DEF Deliveries
<1>5. \A q \in Seq(Data) : <<>> \o q = q /\ q \o <<>> = q
  OBVIOUS
<1>6. PICK rest \in Seq(Data) : arrived = done \o rest /\ (running => rest = batch \o queue)
  BY <1>3 DEF Incoming
<1>7. queue \in Seq(Data) /\ batch \in Seq(Data) /\ (handler # "deliver" => batch = <<>>)
  BY <1>3 DEF RecvTypes, Incoming
<1>8. queue' \in Seq(Data) /\ batch' \in Seq(Data) /\ (handler' # "deliver" => batch' = <<>>)
  <2>1. CASE HandlerTest
    BY <2>1, <1>7 DEF HandlerTest
  <2>2. CASE HandlerWaits
    BY <2>2, <1>7 DEF HandlerWaits, receiving
  <2>3. CASE HandlerNext
    <3>1. queue' = queue /\ batch' = <<>> /\ <<>> \in Seq(Data)
      BY <2>3 DEF HandlerNext
    <3> QED BY <1>7, <3>1
  <2> QED BY <2>1, <2>2, <2>3
<1>9. running' => rest = batch' \o queue'
  <2>1. CASE HandlerTest
    BY <2>1, <1>1, <1>5, <1>6, <1>7 DEF HandlerTest
  <2>2. CASE HandlerWaits
    BY <2>2, <1>1, <1>6 DEF HandlerWaits, receiving
  <2>3. CASE HandlerNext
    <3>1. running => batch' = batch /\ queue' = queue
      BY <2>3 DEF HandlerNext
    <3> QED BY <1>1, <1>6, <3>1
  <2> QED BY <2>1, <2>2, <2>3
<1>10. RecvTypes'
  BY <1>1, <1>3, <1>8 DEF RecvTypes
<1>11. Incoming'
  BY <1>1, <1>6, <1>8, <1>9 DEF Incoming
<1> QED BY <1>2, <1>4, <1>10, <1>11 DEF IInv, RecvInv

LEMMA DeliverStep ==
    ASSUME IInv, Prefix \in Data, Suffix \in Data, Deliver
    PROVE  IInv'
<1> DEFINE m == Head(batch)
<1>1. /\ UNCHANGED <<sending, stopped>> /\ UNCHANGED <<running, owner, queue, arrived, handler>>
      /\ running /\ batch # <<>> /\ handler = "deliver"
      /\ done' = Append(done, m) /\ batch' = Tail(batch)
  BY DEF Deliver
<1>2. SendInv' /\ Stages'
  BY <1>1, SendKept DEF IInv, Stages
<1>3. RecvTypes /\ Incoming /\ Deliveries
  BY DEF IInv, RecvInv
<1>4. m \in Data /\ Tail(batch) \in Seq(Data) /\ done' \in Seq(Data)
  BY <1>1, <1>3, Ends DEF RecvTypes
<1>5. Incoming'
  <2>1. /\ batch \in Seq(Data) /\ queue \in Seq(Data) /\ done \in Seq(Data)
        /\ arrived = done \o (batch \o queue)
    BY <1>1, <1>3 DEF RecvTypes, Incoming
  <2>2. done \o batch = Append(done, m) \o Tail(batch)
    BY <1>1, <2>1, Moved
  <2>3. (done \o batch) \o queue = done \o (batch \o queue)
    BY <2>1, Assoc
  <2>4. (done' \o batch') \o queue = done' \o (batch' \o queue)
    BY <1>1, <1>4, <2>1, Assoc
  <2>5. arrived' = done' \o (batch' \o queue')
    BY <1>1, <2>1, <2>2, <2>3, <2>4
  <2>6. batch' \o queue' \in Seq(Data)
    BY <1>1, <1>4, <2>1
  <2> QED BY <1>1, <2>5, <2>6 DEF Incoming
<1>6. Len(done) \in Nat /\ Len(done') = Len(done) + 1 /\ done'[Len(done) + 1] = m
      /\ \A k \in 1 .. Len(done) : done'[k] = done[k]
  <2>1. done \in Seq(Data)
    BY <1>3 DEF RecvTypes
  <2> QED BY <1>1, <1>4, <2>1
<1>7. delivered \in Seq(Delivery) /\ Len(delivered) \in Nat
  BY <1>3 DEF RecvTypes
<1>8. CASE Unpacks(m)
  <2> DEFINE new == [at |-> Len(done) + 1, data |-> UnpackMessage(m)]
  <2>1. /\ UnpackMessage(m) \in Data /\ UnpackMessage(m) # <<>>
        /\ PacketMessage(UnpackMessage(m)) = m
    BY <1>4, <1>8, Unframed DEF Data
  <2>2. /\ new \in Delivery /\ new.at = Len(done) + 1 /\ new.data # <<>>
        /\ PacketMessage(new.data) = m
    BY <1>6, <2>1 DEF Delivery
  <2>3. delivered' = Append(delivered, new)
    BY <1>8 DEF Deliver
  <2> HIDE DEF new, m
  <2>4. /\ delivered' \in Seq(Delivery) /\ Len(delivered') = Len(delivered) + 1
        /\ delivered'[Len(delivered) + 1] = new
        /\ \A i \in 1 .. Len(delivered) : delivered'[i] = delivered[i]
    BY <1>7, <2>2, <2>3
  <2>5. ASSUME NEW i \in 1 .. Len(delivered')
        PROVE  /\ delivered'[i].at \in 1 .. Len(done')
               /\ delivered'[i].data # <<>>
               /\ done'[delivered'[i].at] = PacketMessage(delivered'[i].data)
    <3>1. CASE i \in 1 .. Len(delivered)
      <4>1. /\ delivered[i].at \in 1 .. Len(done) /\ delivered[i].data # <<>>
            /\ done[delivered[i].at] = PacketMessage(delivered[i].data)
        BY <1>3, <3>1 DEF Deliveries
      <4> QED BY <1>6, <2>4, <3>1, <4>1
    <3>2. CASE i = Len(delivered) + 1
      BY <1>6, <2>2, <2>4, <3>2
    <3> QED BY <1>7, <2>4, <3>1, <3>2
  <2>6. ASSUME NEW i \in 1 .. Len(delivered'), NEW j \in 1 .. Len(delivered'), i < j
        PROVE  delivered'[i].at < delivered'[j].at
    <3>1. i \in 1 .. Len(delivered) /\ delivered[i].at \in 1 .. Len(done)
      BY <1>3, <1>7, <2>4, <2>6 DEF Deliveries
    <3>2. CASE j \in 1 .. Len(delivered)
      BY <1>3, <2>4, <2>6, <3>1, <3>2 DEF Deliveries
    <3>3. CASE j = Len(delivered) + 1
      BY <1>6, <2>2, <2>4, <3>1, <3>3
    <3> QED BY <1>7, <2>4, <3>2, <3>3
  <2>7. Deliveries'
    BY <2>5, <2>6 DEF Deliveries
  <2>8. RecvTypes'
    BY <1>1, <1>3, <1>4, <2>4 DEF RecvTypes
  <2> QED BY <1>2, <1>5, <2>7, <2>8 DEF IInv, RecvInv
<1>9. CASE ~Unpacks(m)
  <2>1. delivered' = delivered
    BY <1>9 DEF Deliver
  <2>2. RecvTypes'
    BY <1>1, <1>3, <1>4, <2>1 DEF RecvTypes
  <2>3. Deliveries'
    BY <1>3, <1>6, <2>1 DEF Deliveries
  <2> QED BY <1>2, <1>5, <2>2, <2>3 DEF IInv, RecvInv
<1> QED BY <1>8, <1>9

-----------------------------------------------------------------------------
(* exit() *)

LEMMA ExitStep ==
    ASSUME IInv, Exit \/ ExitStops("send", "recv") \/ ExitStops("recv", "notify")
    PROVE  IInv'
<1>1. /\ UNCHANGED sending /\ UNCHANGED <<receiving, handler>>
      /\ running' => running
      /\ stopped \subseteq stopped'
  BY DEF Exit, ExitStops
<1>2. SendInv'
  <2>1. UNCHANGED <<posted, list, flying, accepted, wire>>
    BY <1>1 DEF sending
  <2> QED BY <1>1, <2>1 DEF IInv, SendInv, SendTypes, OneSend, SentInOrder
<1>3. RecvInv'
  BY <1>1, RecvKept DEF IInv
<1>4. Stages'
  <2>1. CASE Exit
    BY <2>1 DEF IInv, Stages, Exit
  <2>2. CASE ExitStops("send", "recv")
    BY <2>2 DEF IInv, Stages, ExitStops
  <2>3. CASE ExitStops("recv", "notify")
    BY <2>3 DEF IInv, Stages, ExitStops
  <2> QED BY <2>1, <2>2, <2>3
<1> QED BY <1>2, <1>3, <1>4 DEF IInv

LEMMA ExitNotifiesStep ==
    ASSUME IInv, ExitNotifies
    PROVE  IInv'
<1>1. /\ UNCHANGED <<sending, stopped>> /\ UNCHANGED running /\ receiving' = receiving
      /\ owner = "notify" /\ owner' = "join"
      /\ handler' = IF handler = "wait" THEN "test" ELSE handler
  BY DEF ExitNotifies
<1>2. SendInv' /\ Stages'
  BY <1>1, SendKept DEF IInv, Stages
<1>3. RecvInv'
  BY <1>1 DEF IInv, RecvInv, RecvTypes, Incoming, Deliveries, receiving
<1> QED BY <1>2, <1>3 DEF IInv

LEMMA ExitJoinsStep ==
    ASSUME IInv, ExitJoins
    PROVE  IInv'
<1>1. /\ UNCHANGED <<running, posted, flying, accepted, wire, stopped>>
      /\ UNCHANGED <<batch, arrived, done, delivered, handler>>
      /\ owner = "join" /\ owner' = "exited" /\ list' = <<>> /\ queue' = <<>>
  BY DEF ExitJoins
<1>2. ~running /\ "send" \in stopped /\ Stages'
  BY <1>1 DEF IInv, Stages
<1>3. RecvInv'
  <2>1. RecvTypes /\ Incoming /\ Deliveries
    BY DEF IInv, RecvInv
  <2>2. RecvTypes'
    BY <1>1, <2>1 DEF RecvTypes
  <2>3. Incoming'
    BY <1>1, <1>2, <2>1 DEF Incoming
  <2>4. Deliveries'
    BY <1>1, <2>1 DEF Deliveries
  <2> QED BY <2>2, <2>3, <2>4 DEF RecvInv
<1>4. SendTypes' /\ OneSend'
  BY <1>1, <1>2 DEF IInv, SendInv, SendTypes, OneSend
<1>5. SentInOrder'
  <2>1. PICK rest \in Seq(Data) : accepted = (wire \o list) \o rest
    BY DEF IInv, SendInv, SentInOrder
  <2>2. wire \in Seq(Data) /\ list \in Seq(Data)
    BY DEF IInv, SendInv, SendTypes
  <2>3. (wire \o list) \o rest = wire \o (list \o rest) /\ list \o rest \in Seq(Data)
    BY <2>2, Assoc, SMTT(30)
  <2>4. wire \o <<>> = wire
    BY <2>2
  <2> QED BY <1>1, <1>2, <2>1, <2>3, <2>4 DEF SentInOrder
<1> QED BY <1>2, <1>3, <1>4, <1>5 DEF IInv, SendInv

LEMMA NextIInv ==
    ASSUME Prefix \in Data, Suffix \in Data, IInv, [Next]_vars
    PROVE  IInv'
<1>1. ASSUME NEW data \in Data, SendData(data) PROVE IInv'
  BY <1>1, SendDataStep
<1>2. ASSUME NEW data \in Data, Arrive(data) PROVE IInv'
  BY <1>2, ArriveStep
<1>3. CASE HandlePost \/ HandleSent \/ HandleSendError
  BY <1>3, HandlePostStep, HandleSentStep, HandleSendErrorStep
<1>4. CASE HandlerTest \/ HandlerWaits \/ HandlerNext
  BY <1>4, HandlerStep
<1>5. CASE Deliver
  BY <1>5, DeliverStep
<1>6. CASE Exit \/ ExitStops("send", "recv") \/ ExitStops("recv", "notify")
  BY <1>6, ExitStep
<1>7. CASE ExitNotifies \/ ExitJoins
  BY <1>7, ExitNotifiesStep, ExitJoinsStep
<1>8. CASE UNCHANGED vars
  <2>1. UNCHANGED <<sending, stopped>> /\ UNCHANGED <<receiving, handler>> /\ UNCHANGED <<running, owner>>
    BY <1>8 DEF vars
  <2> QED BY <2>1, SendKept, RecvKept DEF IInv, Stages
<1> QED BY <1>1, <1>2, <1>3, <1>4, <1>5, <1>6, <1>7, <1>8 DEF Next

LEMMA IInvDelivered == IInv => DeliveredOnce
  BY DEF IInv, RecvInv, Incoming, Deliveries, DeliveredOnce

(* send_data()'s messages go out one at a time, in order and once each,    *)
(* whatever fails and whenever exit() is called.                           *)
THEOREM MulticastSends ==
    ASSUME Prefix \in Data, Suffix \in Data
    PROVE  Spec => [](OneSend /\ SentInOrder)
<1>1. Init => IInv
  BY InitIInv
<1>2. IInv /\ [Next]_vars => IInv'
  BY NextIInv
<1>3. IInv => OneSend /\ SentInOrder
  BY DEF IInv, SendInv
<1> QED BY <1>1, <1>2, <1>3, PTL DEF Spec

(* Every datagram that arrives is delivered at most once and in order, and *)
(* as the data that send_data() would have made it from.                   *)
THEOREM MulticastDelivers ==
    ASSUME Prefix \in Data, Suffix \in Data
    PROVE  Spec => []DeliveredOnce
<1>1. Init => IInv
  BY InitIInv
<1>2. IInv /\ [Next]_vars => IInv'
  BY NextIInv
<1>3. IInv => DeliveredOnce
  BY IInvDelivered
<1> QED BY <1>1, <1>2, <1>3, PTL DEF Spec
-----------------------------------------------------------------------------
(* The codecs: hexadecimal *)

LEMMA HexSymbol ==
    ASSUME NEW v \in 0 .. 15, NEW lower \in BOOLEAN
    PROVE  Codec!HexIndex(Codec!HexTable(v, lower)) = v
<1>1. CASE v < 10
  BY <1>1 DEF Codec!HexIndex, Codec!HexTable
<1>2. CASE v >= 10 /\ lower
  BY <1>2 DEF Codec!HexIndex, Codec!HexTable
<1>3. CASE v >= 10 /\ ~lower
  BY <1>3 DEF Codec!HexIndex, Codec!HexTable
<1> QED BY <1>1, <1>2, <1>3

LEMMA HexNibble ==
    ASSUME NEW src \in Seq(Codec!Byte), NEW lower \in BOOLEAN, NEW i \in 1 .. 2 * Len(src)
    PROVE  /\ (i + 1) \div 2 \in 1 .. Len(src)
           /\ src[(i + 1) \div 2] \in Codec!Byte
           /\ Codec!HexIndex(Codec!HexEncode(src, lower)[i]) =
                  IF i % 2 = 1 THEN src[(i + 1) \div 2] \div 16 ELSE src[(i + 1) \div 2] % 16
<1>1. Len(src) \in Nat
  OBVIOUS
<1>2. (i + 1) \div 2 \in 1 .. Len(src)
  BY <1>1
<1>3. PICK b \in Codec!Byte : b = src[(i + 1) \div 2]
  BY <1>2
<1>4. b \div 16 \in 0 .. 15 /\ b % 16 \in 0 .. 15
  BY DEF Codec!Byte
<1>5. Codec!HexEncode(src, lower)[i] = Codec!HexTable(IF i % 2 = 1 THEN b \div 16 ELSE b % 16, lower)
  BY <1>3 DEF Codec!HexEncode
<1> QED BY <1>2, <1>3, <1>4, <1>5, HexSymbol

(* hex_encode() accepts every input but an empty one behind a null         *)
(* pointer; hex_decode() accepts what hex_encode() makes and gives it      *)
(* back, for every input and both alphabets.                               *)
THEOREM HexRoundTrip ==
    ASSUME NEW src \in Seq(Codec!Byte), NEW lower \in BOOLEAN
    PROVE  /\ \A null \in Codec!NullData(src) : ~Codec!HexEncodes(null) => src = <<>> /\ null
           /\ Codec!HexDecodes(Codec!HexEncode(src, lower))
           /\ Codec!HexDecoded(Codec!HexEncode(src, lower)) = src
<1> DEFINE text == Codec!HexEncode(src, lower)
<1>1. Len(src) \in Nat /\ Len(text) = 2 * Len(src)
  BY DEF Codec!HexEncode
<1>2. \A i \in 1 .. 2 * Len(src) : Codec!HexIndex(text[i]) \in 0 .. 15
  <2> TAKE i \in 1 .. 2 * Len(src)
  <2>1. PICK b \in Codec!Byte : Codec!HexIndex(text[i]) = IF i % 2 = 1 THEN b \div 16 ELSE b % 16
    BY HexNibble
  <2> QED BY <2>1 DEF Codec!Byte
<1>3. Codec!HexDecodes(text)
  BY <1>1, <1>2 DEF Codec!HexDecodes
<1>4. ASSUME NEW i \in 1 .. Len(src)
      PROVE  Codec!HexIndex(text[2 * i - 1]) * 16 + Codec!HexIndex(text[2 * i]) = src[i]
  <2>1. /\ 2 * i - 1 \in 1 .. 2 * Len(src) /\ 2 * i \in 1 .. 2 * Len(src)
        /\ (2 * i - 1 + 1) \div 2 = i /\ (2 * i + 1) \div 2 = i
        /\ (2 * i - 1) % 2 = 1 /\ (2 * i) % 2 = 0
    BY <1>1
  <2>2. Codec!HexIndex(text[2 * i - 1]) = src[i] \div 16
    BY <2>1, HexNibble
  <2>3. Codec!HexIndex(text[2 * i]) = src[i] % 16
    BY <2>1, HexNibble
  <2>4. src[i] \in Codec!Byte
    OBVIOUS
  <2>5. \A b \in Codec!Byte : (b \div 16) * 16 + (b % 16) = b
    BY DEF Codec!Byte
  <2> QED BY <2>2, <2>3, <2>4, <2>5
<1>5. Codec!HexDecoded(text) = [i \in 1 .. Len(src) |-> src[i]]
  BY <1>1, <1>4 DEF Codec!HexDecoded
<1>6. src = [i \in 1 .. Len(src) |-> src[i]]
  OBVIOUS
<1>7. \A null \in Codec!NullData(src) : ~Codec!HexEncodes(null) => src = <<>> /\ null
  BY DEF Codec!NullData, Codec!HexEncodes
<1> QED BY <1>3, <1>5, <1>6, <1>7

-----------------------------------------------------------------------------
(* The codecs: base64 *)

LEMMA Base64Symbol ==
    ASSUME NEW v \in 0 .. 63
    PROVE  Codec!Base64Index(Codec!Base64Table(v)) = v /\ Codec!Base64Table(v) # Codec!Pad
<1>1. CASE v \in 0 .. 25
  BY <1>1 DEF Codec!Base64Index, Codec!Base64Table, Codec!Pad
<1>2. CASE v \in 26 .. 51
  BY <1>2 DEF Codec!Base64Index, Codec!Base64Table, Codec!Pad
<1>3. CASE v \in 52 .. 61
  BY <1>3 DEF Codec!Base64Index, Codec!Base64Table, Codec!Pad
<1>4. CASE v = 62 \/ v = 63
  BY <1>4 DEF Codec!Base64Index, Codec!Base64Table, Codec!Pad
<1> QED BY <1>1, <1>2, <1>3, <1>4

(* Three bytes are four sextets, and each byte comes from two neighbours   *)
(* among them.                                                             *)
LEMMA Group ==
    ASSUME NEW x \in Codec!Byte, NEW y \in Codec!Byte, NEW z \in Codec!Byte
    PROVE  /\ \A r \in 0 .. 3 : Codec!Sextet(x, y, z, r) \in 0 .. 63
           /\ \A c, d : Codec!Octet(Codec!Sextet(x, y, z, 0), Codec!Sextet(x, y, z, 1), c, d, 0) = x
           /\ \A a, d : Codec!Octet(a, Codec!Sextet(x, y, z, 1), Codec!Sextet(x, y, z, 2), d, 1) = y
           /\ \A a, b : Codec!Octet(a, b, Codec!Sextet(x, y, z, 2), Codec!Sextet(x, y, z, 3), 2) = z
<1>1. /\ Codec!Sextet(x, y, z, 0) = x \div 4
      /\ Codec!Sextet(x, y, z, 1) = (x % 4) * 16 + y \div 16
      /\ Codec!Sextet(x, y, z, 2) = (y % 16) * 4 + z \div 64
      /\ Codec!Sextet(x, y, z, 3) = z % 64
  BY DEF Codec!Sextet
<1>2. /\ Codec!Sextet(x, y, z, 0) \in 0 .. 63 /\ Codec!Sextet(x, y, z, 1) \in 0 .. 63
      /\ Codec!Sextet(x, y, z, 2) \in 0 .. 63 /\ Codec!Sextet(x, y, z, 3) \in 0 .. 63
  <2>1. x \div 4 \in 0 .. 63 /\ (x % 4) * 16 + y \div 16 \in 0 .. 63
    BY DEF Codec!Byte
  <2>2. (y % 16) * 4 + z \div 64 \in 0 .. 63 /\ z % 64 \in 0 .. 63
    BY DEF Codec!Byte
  <2> QED BY <1>1, <2>1, <2>2
<1>3. ASSUME NEW c, NEW d PROVE Codec!Octet(Codec!Sextet(x, y, z, 0), Codec!Sextet(x, y, z, 1), c, d, 0) = x
  <2>1. Codec!OrBelow(4 * (x \div 4), ((x % 4) * 16 + y \div 16) \div 16, 4) = x
    BY DEF Codec!OrBelow, Codec!Byte
  <2> QED BY <1>1, <2>1 DEF Codec!Octet, Codec!Byte
<1>4. ASSUME NEW a, NEW d PROVE Codec!Octet(a, Codec!Sextet(x, y, z, 1), Codec!Sextet(x, y, z, 2), d, 1) = y
  <2>1. Codec!OrBelow(16 * ((x % 4) * 16 + y \div 16), ((y % 16) * 4 + z \div 64) \div 4, 16)
          = 256 * (x % 4) + y
    BY DEF Codec!OrBelow, Codec!Byte
  <2>2. (256 * (x % 4) + y) % 256 = y
    BY DEF Codec!Byte
  <2> QED BY <1>1, <2>1, <2>2 DEF Codec!Octet
<1>5. ASSUME NEW a, NEW b PROVE Codec!Octet(a, b, Codec!Sextet(x, y, z, 2), Codec!Sextet(x, y, z, 3), 2) = z
  <2>1. Codec!OrBelow(64 * ((y % 16) * 4 + z \div 64), z % 64, 64) = 256 * (y % 16) + z
    BY DEF Codec!OrBelow, Codec!Byte
  <2>2. (256 * (y % 16) + z) % 256 = z
    BY DEF Codec!Byte
  <2> QED BY <1>1, <2>1, <2>2 DEF Codec!Octet
<1> QED BY <1>1, <1>2, <1>3, <1>4, <1>5

(* The symbol at k that is not padding.                                    *)
SymbolIs(src, k) ==
    LET g == 3 * ((k - 1) \div 4)
        s == Codec!Sextet(Codec!Tmp(src, g + 1), Codec!Tmp(src, g + 2), Codec!Tmp(src, g + 3), (k - 1) % 4)
    IN  /\ Codec!Base64Index(Codec!Base64Encode(src)[k]) = s
        /\ Codec!Base64Index(Codec!Base64Encode(src)[k]) \in 0 .. 63
        /\ Codec!Base64Encode(src)[k] # Codec!Pad

LEMMA SymbolAt ==
    ASSUME NEW src \in Seq(Codec!Byte), NEW k \in 1 .. Codec!EncodedLen(src) - Codec!Pads(src)
    PROVE  SymbolIs(src, k)
<1> DEFINE g == 3 * ((k - 1) \div 4)
           s == Codec!Sextet(Codec!Tmp(src, g + 1), Codec!Tmp(src, g + 2), Codec!Tmp(src, g + 3), (k - 1) % 4)
<1>1. Len(src) \in Nat /\ Codec!EncodedLen(src) \in Nat /\ Codec!Pads(src) \in 0 .. 2
  BY DEF Codec!EncodedLen, Codec!Pads
<1>2. k \in 1 .. Codec!EncodedLen(src) /\ ~(k > Codec!EncodedLen(src) - Codec!Pads(src)) /\ g \in Nat
      /\ (k - 1) % 4 \in 0 .. 3
  BY <1>1
<1>3. Codec!Base64Encode(src)[k] = Codec!Base64Table(s)
  BY <1>2 DEF Codec!Base64Encode
<1>4. \A i \in Nat \ {0} : Codec!Tmp(src, i) \in Codec!Byte
  <2>1. \A i \in 1 .. Len(src) : src[i] \in Codec!Byte
    OBVIOUS
  <2>2. 0 \in Codec!Byte
    BY DEF Codec!Byte
  <2> QED BY <1>1, <2>1, <2>2 DEF Codec!Tmp
<1>5. Codec!Tmp(src, g + 1) \in Codec!Byte /\ Codec!Tmp(src, g + 2) \in Codec!Byte /\ Codec!Tmp(src, g + 3) \in Codec!Byte
  BY <1>2, <1>4
<1>6. s \in 0 .. 63
  BY <1>2, <1>5, Group
<1> HIDE DEF s
<1>7. Codec!Base64Index(Codec!Base64Table(s)) = s /\ Codec!Base64Table(s) # Codec!Pad
  BY <1>6, Base64Symbol
<1> QED BY <1>3, <1>6, <1>7 DEF s, SymbolIs

(* n bytes are m whole groups and e more.                                  *)
LEMMA Lengths ==
    ASSUME NEW src \in Seq(Codec!Byte)
    PROVE  \E m \in Nat, e \in 0 .. 2 :
               /\ Len(src) = 3 * m + e
               /\ Codec!Pads(src) = (IF e = 0 THEN 0 ELSE 3 - e)
               /\ Codec!EncodedLen(src) = (IF e = 0 THEN 4 * m ELSE 4 * m + 4)
<1>1. PICK n \in Nat : n = Len(src)
  OBVIOUS
<1>2. n \div 3 \in Nat /\ n % 3 \in 0 .. 2 /\ n = 3 * (n \div 3) + (n % 3)
  OBVIOUS
<1>3. ((n + 2) \div 3) * 4 = (IF n % 3 = 0 THEN 4 * (n \div 3) ELSE 4 * (n \div 3) + 4)
  OBVIOUS
<1> QED BY <1>1, <1>2, <1>3 DEF Codec!Pads, Codec!EncodedLen

(* Where the decoder finds the two sextets of the k-th byte.               *)
LEMMA Neighbours ==
    ASSUME NEW src \in Seq(Codec!Byte), NEW k \in 1 .. Len(src)
    PROVE  LET q == (k - 1) \div 3
               r == (k - 1) % 3
           IN  /\ q \in Nat /\ r \in 0 .. 2 /\ k = 3 * q + r + 1
               /\ 4 * q + r + 1 \in 1 .. Codec!EncodedLen(src) - Codec!Pads(src)
               /\ 4 * q + r + 2 \in 1 .. Codec!EncodedLen(src) - Codec!Pads(src)
               /\ (4 * q + r) \div 4 = q /\ (4 * q + r) % 4 = r
               /\ (4 * q + r + 1) \div 4 = q /\ (4 * q + r + 1) % 4 = r + 1
<1>1. PICK m \in Nat, e \in 0 .. 2 :
        /\ Len(src) = 3 * m + e
        /\ Codec!Pads(src) = (IF e = 0 THEN 0 ELSE 3 - e)
        /\ Codec!EncodedLen(src) = (IF e = 0 THEN 4 * m ELSE 4 * m + 4)
  BY Lengths
<1>2. PICK q \in Nat, r \in 0 .. 2 :
        q = (k - 1) \div 3 /\ r = (k - 1) % 3 /\ k = 3 * q + r + 1
  OBVIOUS
<1>3. q <= m /\ (q = m => r + 1 <= e)
  BY <1>1, <1>2
<1>4. /\ 4 * q + r + 1 \in 1 .. Codec!EncodedLen(src) - Codec!Pads(src)
      /\ 4 * q + r + 2 \in 1 .. Codec!EncodedLen(src) - Codec!Pads(src)
  BY <1>1, <1>3
<1>5. /\ (4 * q + r) \div 4 = q /\ (4 * q + r) % 4 = r
      /\ (4 * q + r + 1) \div 4 = q /\ (4 * q + r + 1) % 4 = r + 1
  OBVIOUS
<1> QED BY <1>2, <1>4, <1>5

(* base64_encode() accepts every input, and base64_decode() accepts what   *)
(* it makes and gives it back: padding neither loses nor adds a byte.      *)
THEOREM Base64RoundTrip ==
    ASSUME NEW src \in Seq(Codec!Byte)
    PROVE  /\ \A null \in Codec!NullData(src) : Codec!Base64Encodes(src, null)
           /\ Codec!Base64Decodes(Codec!Base64Encode(src))
           /\ Codec!Base64Decoded(Codec!Base64Encode(src)) = src
<1> DEFINE text == Codec!Base64Encode(src)
           L == Codec!EncodedLen(src)
           P == Codec!Pads(src)
<1>1. PICK m \in Nat, e \in 0 .. 2 :
        /\ Len(src) = 3 * m + e
        /\ P = (IF e = 0 THEN 0 ELSE 3 - e)
        /\ L = (IF e = 0 THEN 4 * m ELSE 4 * m + 4)
  BY Lengths
<1>2. Len(text) = L /\ L \in Nat
  <2>1. L \in Nat
    BY <1>1
  <2>2. text \in [1 .. L -> {text[k] : k \in 1 .. L}]
    BY DEF Codec!Base64Encode
  <2> QED BY <2>1, <2>2
<1>3. \A k \in 1 .. L - P : Codec!Base64Index(text[k]) \in 0 .. 63 /\ text[k] # Codec!Pad
  <2> SUFFICES ASSUME NEW k \in 1 .. L - P PROVE Codec!Base64Index(text[k]) \in 0 .. 63 /\ text[k] # Codec!Pad
    OBVIOUS
  <2>1. SymbolIs(src, k)
    BY SymbolAt
  <2> QED BY <2>1, Zenon DEF SymbolIs
<1>4. \A k \in L - P + 1 .. L : k \in 1 .. L => text[k] = Codec!Pad
  <2> SUFFICES ASSUME NEW k \in L - P + 1 .. L, k \in 1 .. L PROVE text[k] = Codec!Pad
    OBVIOUS
  <2>1. k > L - P
    BY <1>1
  <2> QED BY <2>1 DEF Codec!Base64Encode
<1>5. Codec!Base64Index(Codec!Pad) = 0
  BY DEF Codec!Base64Index, Codec!Pad
<1> HIDE DEF text, L, P
<1>6. Codec!Base64Decodes(text)
  <2>1. L % 4 = 0
    BY <1>1
  <2>2. ASSUME L > 0
        PROVE  /\ \A i \in 1 .. L - 2 : text[i] # Codec!Pad
               /\ Codec!Base64Index(text[L]) <= 63 /\ Codec!Base64Index(text[L - 1]) <= 63
               /\ text[L - 1] = Codec!Pad => text[L] = Codec!Pad
    <3>1. L >= 4 /\ P \in 0 .. 2
      BY <1>1, <2>2
    <3>2. \A i \in 1 .. L - 2 : text[i] # Codec!Pad
      BY <1>2, <1>3, <3>1
    <3>3. Codec!Base64Index(text[L]) \in 0 .. 63 /\ Codec!Base64Index(text[L - 1]) \in 0 .. 63
      <4>1. CASE P = 0
        <5>1. L \in 1 .. L - P /\ L - 1 \in 1 .. L - P
          BY <1>2, <3>1, <4>1
        <5> QED BY <1>3, <5>1, Zenon
      <4>2. CASE P = 1
        <5>1. L - 1 \in 1 .. L - P /\ text[L] = Codec!Pad
          BY <1>2, <1>4, <3>1, <4>2
        <5>2. 0 \in 0 .. 63
          OBVIOUS
        <5> QED BY <1>3, <1>5, <5>1, <5>2, Zenon
      <4>3. CASE P = 2
        BY <1>2, <1>4, <1>5, <3>1, <4>3
      <4> QED BY <3>1, <4>1, <4>2, <4>3
    <3>4. text[L - 1] = Codec!Pad => text[L] = Codec!Pad
      BY <1>2, <1>3, <1>4, <3>1
    <3>5. \A v \in 0 .. 63 : v <= 63
      OBVIOUS
    <3>6. Codec!Base64Index(text[L]) <= 63 /\ Codec!Base64Index(text[L - 1]) <= 63
      BY <3>3, <3>5, Zenon
    <3> QED BY <3>2, <3>4, <3>6
  <2> QED BY <1>2, <2>1, <2>2 DEF Codec!Base64Decodes
<1>7. Codec!PadLen(text) = P
  <2>1. CASE L = 0
    BY <1>1, <1>2, <2>1 DEF Codec!PadLen
  <2>2. CASE L > 0
    <3>1. L >= 4 /\ P \in 0 .. 2
      BY <1>1, <2>2
    <3>2. CASE P = 0
      BY <1>2, <1>3, <3>1, <3>2 DEF Codec!PadLen
    <3>3. CASE P = 1
      BY <1>2, <1>3, <1>4, <3>1, <3>3 DEF Codec!PadLen
    <3>4. CASE P = 2
      BY <1>2, <1>4, <3>1, <3>4 DEF Codec!PadLen
    <3> QED BY <3>1, <3>2, <3>3, <3>4
  <2> QED BY <1>2, <2>1, <2>2
<1>8. ((Len(text) + 3) \div 4) * 3 - Codec!PadLen(text) = Len(src)
  <2>1. CASE e = 0
    BY <1>1, <1>2, <1>7, <2>1
  <2>2. CASE e # 0
    BY <1>1, <1>2, <1>7, <2>2
  <2> QED BY <2>1, <2>2
<1>9. ASSUME NEW k \in 1 .. Len(src)
      PROVE  LET g == 4 * ((k - 1) \div 3)
             IN  Codec!Octet(Codec!Base64Index(text[g + 1]), Codec!Base64Index(text[g + 2]),
                       Codec!Base64Index(text[g + 3]), Codec!Base64Index(text[g + 4]), (k - 1) % 3) = src[k]
  <2> DEFINE q == (k - 1) \div 3
             r == (k - 1) % 3
             x == Codec!Tmp(src, 3 * q + 1)
             y == Codec!Tmp(src, 3 * q + 2)
             z == Codec!Tmp(src, 3 * q + 3)
  <2>1. /\ q \in Nat /\ r \in 0 .. 2 /\ k = 3 * q + r + 1
        /\ 4 * q + r + 1 \in 1 .. L - P /\ 4 * q + r + 2 \in 1 .. L - P
        /\ (4 * q + r) \div 4 = q /\ (4 * q + r) % 4 = r
        /\ (4 * q + r + 1) \div 4 = q /\ (4 * q + r + 1) % 4 = r + 1
    BY Neighbours DEF L, P
  <2> HIDE DEF q, r
  <2>2. x \in Codec!Byte /\ y \in Codec!Byte /\ z \in Codec!Byte /\ src[k] = Codec!Tmp(src, 3 * q + r + 1)
    <3>1. \A i \in 1 .. Len(src) : src[i] \in Codec!Byte
      OBVIOUS
    <3>2. 0 \in Codec!Byte /\ Len(src) \in Nat
      BY DEF Codec!Byte
    <3> QED BY <2>1, <3>1, <3>2 DEF Codec!Tmp
  <2>3. Codec!Base64Index(text[4 * q + r + 1]) = Codec!Sextet(x, y, z, r)
    <3>1. 4 * q + r + 1 - 1 = 4 * q + r
      BY <2>1
    <3>2. SymbolIs(src, 4 * q + r + 1)
      BY <2>1, SymbolAt DEF L, P
    <3> QED BY <2>1, <3>1, <3>2 DEF text, SymbolIs
  <2>4. Codec!Base64Index(text[4 * q + r + 2]) = Codec!Sextet(x, y, z, r + 1)
    <3>1. 4 * q + r + 2 - 1 = 4 * q + r + 1
      BY <2>1
    <3>2. SymbolIs(src, 4 * q + r + 2)
      BY <2>1, SymbolAt DEF L, P
    <3> QED BY <2>1, <3>1, <3>2 DEF text, SymbolIs
  <2> HIDE DEF x, y, z
  <2>5. CASE r = 0
    <3>1. src[k] = x
      BY <2>1, <2>2, <2>5 DEF x
    <3>2. /\ Codec!Base64Index(text[4 * q + 1]) = Codec!Sextet(x, y, z, 0)
          /\ Codec!Base64Index(text[4 * q + 2]) = Codec!Sextet(x, y, z, 1)
      BY <2>1, <2>3, <2>4, <2>5
    <3> QED BY <2>2, <2>5, <3>1, <3>2, Group DEF q, r
  <2>6. CASE r = 1
    <3>1. src[k] = y
      BY <2>1, <2>2, <2>6 DEF y
    <3>2. /\ Codec!Base64Index(text[4 * q + 2]) = Codec!Sextet(x, y, z, 1)
          /\ Codec!Base64Index(text[4 * q + 3]) = Codec!Sextet(x, y, z, 2)
      BY <2>1, <2>3, <2>4, <2>6
    <3> QED BY <2>2, <2>6, <3>1, <3>2, Group DEF q, r
  <2>7. CASE r = 2
    <3>1. src[k] = z
      BY <2>1, <2>2, <2>7 DEF z
    <3>2. /\ Codec!Base64Index(text[4 * q + 3]) = Codec!Sextet(x, y, z, 2)
          /\ Codec!Base64Index(text[4 * q + 4]) = Codec!Sextet(x, y, z, 3)
      BY <2>1, <2>3, <2>4, <2>7
    <3> QED BY <2>2, <2>7, <3>1, <3>2, Group DEF q, r
  <2> QED BY <2>1, <2>5, <2>6, <2>7
<1>10. Codec!Base64Decoded(text) = [k \in 1 .. Len(src) |-> src[k]]
  BY <1>8, <1>9 DEF Codec!Base64Decoded
<1>11. src = [k \in 1 .. Len(src) |-> src[k]]
  OBVIOUS
<1>12. \A null \in Codec!NullData(src) : Codec!Base64Encodes(src, null)
  BY Zenon DEF Codec!NullData, Codec!Base64Encodes
<1> QED BY <1>6, <1>10, <1>11, <1>12 DEF text
=============================================================================
