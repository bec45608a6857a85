--------------------------- MODULE EtcpStreamProofs ---------------------------
(***************************************************************************)
(* Proofs about EtcpStream, for headers of every size, any number of       *)
(* messages and any network: first the sending side (IInv), for packets of *)
(* every size, then the bytes on their way and the receiver (StreamInv),   *)
(* and last that the two ends are a MessageChannel, both for packets that  *)
(* a header can announce (Announceable).                                   *)
(***************************************************************************)
EXTENDS EtcpStream, SequenceTheorems, TLAPS

IInv == SenderTypeOK /\ OneWrite /\ FramesPaired

-----------------------------------------------------------------------------
(* What do_write() does to the sender: types ...                           *)
LEMMA DoWriteTypes ==
    ASSUME SenderTypeOK, NEW q \in Seq(SenderHandler), DoWrite(q)
    PROVE  writing' \in BOOLEAN /\ squeue' \in Seq(SenderHandler) /\ done' \in Nat
<1>1. [kind |-> "wrote", err |-> TRUE] \in SenderHandler
  BY DEF SenderHandler
<1>2. CASE open
  BY <1>2 DEF SenderTypeOK, DoWrite
<1>3. CASE ~open
  <2>1. Append(q, [kind |-> "wrote", err |-> TRUE]) \in Seq(SenderHandler)
    BY <1>1
  <2> QED BY <1>3, <2>1 DEF SenderTypeOK, DoWrite
<1> QED BY <1>2, <1>3

(* ... and, with no write to come before, exactly one to come after.       *)
LEMMA DoWriteOne ==
    ASSUME NEW q \in Seq(SenderHandler), DoWrite(q), writing = FALSE,
           \A i \in DOMAIN q : q[i].kind # "wrote"
    PROVE  /\ \A i, j \in DOMAIN squeue' : Wrote(i)' /\ Wrote(j)' => i = j
           /\ \A i \in DOMAIN squeue' : Wrote(i)' => ~writing'
           /\ writing' \/ \E i \in DOMAIN squeue' : Wrote(i)'
<1>1. CASE open
  BY <1>1 DEF DoWrite, Wrote
<1>2. CASE ~open
  <2> DEFINE h == [kind |-> "wrote", err |-> TRUE]
  <2>1. squeue' = Append(q, h) /\ writing' = FALSE
    BY <1>2 DEF DoWrite
  <2>2. h \in SenderHandler
    BY DEF SenderHandler
  <2>3. /\ DOMAIN squeue' = 1..(Len(q) + 1)
        /\ squeue'[Len(q) + 1] = h
        /\ \A i \in 1..Len(q) : squeue'[i] = q[i]
    BY <2>1, <2>2
  <2>4. DOMAIN q = 1..Len(q) /\ Len(q) \in Nat
    OBVIOUS
  <2> QED BY <2>1, <2>3, <2>4 DEF Wrote
<1> QED BY <1>1, <1>2

(* The initial states satisfy the invariant.                               *)
LEMMA InitIInv == Init => IInv
<1> SUFFICES ASSUME Init PROVE IInv
  OBVIOUS
<1>1. SenderTypeOK
  <2>1. <<>> \in Seq(Sizes) /\ <<>> \in Seq(SenderHandler) /\ <<>> \in Seq(ChunkType)
    OBVIOUS
  <2> QED BY <2>1 DEF Init, SenderTypeOK
<1>2. OneWrite /\ FramesPaired
  BY DEF Init, OneWrite, FramesPaired
<1> QED BY <1>1, <1>2 DEF IInv

(* Types: send_message() adds a message, the rest refers to it.            *)
LEMMA NextSenderType == SenderTypeOK /\ [Next]_vars => SenderTypeOK'
<1> SUFFICES ASSUME SenderTypeOK, [Next]_vars PROVE SenderTypeOK'
  OBVIOUS
<1> USE DEF SenderTypeOK
<1>1. ASSUME NEW n \in Sizes, SendMessage(n) PROVE SenderTypeOK'
  <2>1. accepted' \in Seq(Sizes) /\ Len(accepted') = Len(accepted) + 1
    BY <1>1 DEF SendMessage
  <2>2. Messages \subseteq Messages' /\ Len(accepted) + 1 \in Messages'
    BY <2>1 DEF Messages
  <2>3. SenderHandler \subseteq SenderHandler' /\ ChunkType \subseteq ChunkType'
    BY <2>2 DEF SenderHandler, ChunkType
  <2>4. [kind |-> "send", m |-> Len(accepted) + 1] \in SenderHandler'
    BY <2>2 DEF SenderHandler
  <2>5. squeue \in Seq(SenderHandler')
    BY <2>3
  <2>6. squeue' \in Seq(SenderHandler')
    BY <1>1, <2>4, <2>5 DEF SendMessage
  <2>7. m_send_data_list' \in Seq(ChunkType')
    BY <1>1, <2>3 DEF SendMessage
  <2> QED BY <1>1, <2>1, <2>6, <2>7 DEF SendMessage
<1>a. ASSUME UNCHANGED accepted
      PROVE  SenderHandler' = SenderHandler /\ ChunkType' = ChunkType
  BY <1>a DEF SenderHandler, ChunkType, Messages
<1>b. ASSUME squeue # <<>>
      PROVE  Head(squeue) \in SenderHandler /\ Tail(squeue) \in Seq(SenderHandler)
  BY <1>b
<1>c. /\ [kind |-> "wrote", err |-> TRUE] \in SenderHandler
      /\ [kind |-> "wrote", err |-> FALSE] \in SenderHandler
      /\ [kind |-> "close"] \in SenderHandler
  BY DEF SenderHandler
<1>2. CASE SenderClose
  BY <1>2, <1>a, <1>c DEF SenderClose
<1>3. CASE HandleSend
  <2> DEFINE m == Head(squeue).m
  <2>1. m \in Messages
    BY <1>3, <1>b DEF HandleSend, NextS, SenderHandler
  <2>2. Chunk("head", m) \in ChunkType /\ Chunk("body", m) \in ChunkType
    BY <2>1 DEF Chunk, ChunkType
  <2>3. m_send_data_list' \in Seq(ChunkType)
    <3>1. CASE open
      <4>1. m_send_data_list' = m_send_data_list \o <<Chunk("head", m), Chunk("body", m)>>
        BY <1>3, <3>1 DEF HandleSend, Frame
      <4> QED BY <2>2, <4>1
    <3>2. CASE ~open
      BY <1>3, <3>2 DEF HandleSend
    <3> QED BY <3>1, <3>2
  <2>4. writing' \in BOOLEAN /\ squeue' \in Seq(SenderHandler) /\ done' \in Nat
    <3>1. CASE DoWrite(Tail(squeue))
      BY <1>3, <3>1, <1>b, DoWriteTypes DEF HandleSend, NextS
    <3>2. CASE squeue' = Tail(squeue) /\ UNCHANGED <<writing, done>>
      BY <1>3, <3>2, <1>b DEF HandleSend, NextS
    <3> QED BY <1>3, <3>1, <3>2 DEF HandleSend
  <2> QED BY <1>3, <1>a, <2>3, <2>4 DEF HandleSend
<1>4. CASE HandleWrote
  <2>1. m_send_data_list' \in Seq(ChunkType)
    BY <1>4 DEF HandleWrote
  <2>2. writing' \in BOOLEAN /\ squeue' \in Seq(SenderHandler) /\ done' \in Nat
    <3>1. CASE DoWrite(Tail(squeue))
      BY <1>4, <3>1, <1>b, DoWriteTypes DEF HandleWrote, NextS
    <3>2. CASE squeue' = Tail(squeue) /\ UNCHANGED <<writing, done>>
      BY <1>4, <3>2, <1>b DEF HandleWrote, NextS
    <3> QED BY <1>4, <3>1, <3>2 DEF HandleWrote
  <2> QED BY <1>4, <1>a, <2>1, <2>2 DEF HandleWrote
<1>5. CASE HandleWriteError
  BY <1>5, <1>a, <1>b DEF HandleWriteError, NextS
<1>d. ASSUME NEW q \in Seq(SenderHandler), NEW h \in SenderHandler
      PROVE  Append(q, h) \in Seq(SenderHandler)
  OBVIOUS
<1>6. CASE HandleSenderClose
  <2>1. squeue' \in Seq(SenderHandler)
    <3>1. CASE writing
      BY <1>6, <1>b, <1>c, <1>d, <3>1 DEF HandleSenderClose, NextS
    <3>2. CASE ~writing
      BY <1>6, <1>b, <3>2 DEF HandleSenderClose, NextS
    <3> QED BY <3>1, <3>2
  <2> QED BY <1>6, <1>a, <2>1 DEF HandleSenderClose
<1>7. ASSUME NEW n \in 1..WireCapacity, Transfer(n) PROVE SenderTypeOK'
  <2>1. squeue' \in Seq(SenderHandler) /\ writing' \in BOOLEAN
    BY <1>7, <1>c, <1>d DEF Transfer
  <2>2. done' \in Nat
    BY <1>7, WireAssumption DEF Transfer
  <2> QED BY <1>7, <1>a, <2>1, <2>2 DEF Transfer
<1>8. CASE WriteFails
  <2>1. squeue' \in Seq(SenderHandler)
    BY <1>8, <1>c, <1>d DEF WriteFails
  <2> QED BY <1>8, <1>a, <2>1 DEF WriteFails
<1>9. CASE UNCHANGED sender
  BY <1>9, <1>a DEF sender
<1>10. \/ \E n \in Sizes : SendMessage(n)
       \/ SenderClose \/ HandleSend \/ HandleWrote \/ HandleWriteError \/ HandleSenderClose
       \/ \E n \in 1..WireCapacity : Transfer(n)
       \/ WriteFails
       \/ UNCHANGED sender
  BY DEF Next, Users, SenderStep, ReceiverStep, NetworkStep, Receive, ReadFails, Break,
     HandleHead, HandleBadHead, HandleBody, Deliver, HandleReadError, ReceiverClose,
     HandleReceiverClose, vars
<1> QED BY <1>1, <1>2, <1>3, <1>4, <1>5, <1>6, <1>7, <1>8, <1>9, <1>10

-----------------------------------------------------------------------------
(* Every step that moves the sender is one of these.                       *)
LEMMA SenderSteps ==
    [Next]_vars =>
       \/ \E n \in Sizes : SendMessage(n)
       \/ SenderClose \/ HandleSend \/ HandleWrote \/ HandleWriteError \/ HandleSenderClose
       \/ \E n \in 1..WireCapacity : Transfer(n)
       \/ WriteFails
       \/ UNCHANGED sender
  BY DEF Next, Users, SenderStep, ReceiverStep, NetworkStep, Receive, ReadFails, Break,
     HandleHead, HandleBadHead, HandleBody, Deliver, HandleReadError, ReceiverClose,
     HandleReceiverClose, vars

(* Removing the first handler.                                             *)
LEMMA QueueTail ==
    ASSUME NEW S, NEW q \in Seq(S), q # <<>>
    PROVE  /\ Tail(q) \in Seq(S)
           /\ \A i \in DOMAIN Tail(q) : i + 1 \in DOMAIN q /\ Tail(q)[i] = q[i + 1]
           /\ 1 \in DOMAIN q /\ Head(q) = q[1]
           /\ DOMAIN q \subseteq Nat /\ DOMAIN Tail(q) \subseteq Nat \ {0}
  OBVIOUS

(* Adding a handler at the end.                                            *)
LEMMA QueueAppend ==
    ASSUME NEW S, NEW q \in Seq(S), NEW h \in S
    PROVE  /\ DOMAIN Append(q, h) = DOMAIN q \cup {Len(q) + 1}
           /\ Len(q) + 1 \notin DOMAIN q
           /\ Append(q, h)[Len(q) + 1] = h
           /\ \A i \in DOMAIN q : Append(q, h)[i] = q[i]
  OBVIOUS

(* Appending a frame.                                                      *)
LEMMA FrameAppended ==
    ASSUME NEW S, NEW q \in Seq(S), NEW a, NEW b
    PROVE  /\ Len(q \o <<a, b>>) = Len(q) + 2
           /\ DOMAIN (q \o <<a, b>>) = 1..(Len(q) + 2)
           /\ \A i \in 1..Len(q) : (q \o <<a, b>>)[i] = q[i]
           /\ (q \o <<a, b>>)[Len(q) + 1] = a
           /\ (q \o <<a, b>>)[Len(q) + 2] = b
<1> DEFINE T == S \cup {a, b}
           f == <<a, b>>
<1>1. q \in Seq(T)
  OBVIOUS
<1>2. f \in Seq(T) /\ Len(f) = 2 /\ f[1] = a /\ f[2] = b
  OBVIOUS
<1> HIDE DEF T, f
<1>3. /\ Len(q \o f) = Len(q) + Len(f)
      /\ DOMAIN (q \o f) = 1..(Len(q) + Len(f))
      /\ \A i \in 1..(Len(q) + Len(f)) : (q \o f)[i] = IF i <= Len(q) THEN q[i] ELSE f[i - Len(q)]
  <2>1. q \o f \in Seq(T)
    BY <1>1, <1>2, ConcatProperties
  <2>2. Len(q \o f) = Len(q) + Len(f)
    BY <1>1, <1>2, ConcatProperties, Zenon
  <2>3. \A i \in 1..(Len(q) + Len(f)) : (q \o f)[i] = IF i <= Len(q) THEN q[i] ELSE f[i - Len(q)]
    BY <1>1, <1>2, ConcatProperties, Zenon
  <2>4. DOMAIN (q \o f) = 1..Len(q \o f)
    BY <2>1
  <2> QED BY <2>2, <2>3, <2>4, Zenon
<1>4. Len(q) \in Nat
  BY <1>1
<1>5. (q \o f)[Len(q) + 1] = f[1] /\ (q \o f)[Len(q) + 2] = f[2]
  BY <1>2, <1>3, <1>4
<1>6. \A i \in 1..Len(q) : (q \o f)[i] = q[i]
  BY <1>2, <1>3, <1>4
<1> QED BY <1>2, <1>3, <1>5, <1>6 DEF f

(* A handler that is not a completion, added at the end, or taken from the *)
(* front, changes nothing about the write under way.                       *)
LEMMA NoCompletionAdded ==
    ASSUME SenderTypeOK, OneWrite, NEW h, h.kind # "wrote",
           squeue' = Append(squeue, h), UNCHANGED <<writing, m_send_data_list>>
    PROVE  OneWrite'
<1> DEFINE T == SenderHandler \cup {h}
<1>1. squeue \in Seq(T)
  BY DEF SenderTypeOK
<1>2. /\ DOMAIN squeue' = DOMAIN squeue \cup {Len(squeue) + 1}
      /\ squeue'[Len(squeue) + 1] = h
      /\ \A i \in DOMAIN squeue : squeue'[i] = squeue[i]
  <2> HIDE DEF T
  <2>1. h \in T
    BY DEF T
  <2> QED BY <1>1, <2>1, QueueAppend
<1>3. \A i \in DOMAIN squeue' : Wrote(i)' => i \in DOMAIN squeue /\ Wrote(i)
  BY <1>2 DEF Wrote
<1>4. \A i \in DOMAIN squeue : Wrote(i) => i \in DOMAIN squeue' /\ Wrote(i)'
  BY <1>2 DEF Wrote
<1> QED BY <1>3, <1>4 DEF OneWrite

(* Taking such a handler from the front.                                   *)
LEMMA NoCompletionTaken ==
    ASSUME SenderTypeOK, OneWrite, squeue # <<>>, Head(squeue).kind # "wrote",
           squeue' = Tail(squeue), UNCHANGED writing,
           m_send_data_list' # <<>> <=> m_send_data_list # <<>>
    PROVE  OneWrite'
<1>1. squeue \in Seq(SenderHandler)
  BY DEF SenderTypeOK
<1>2. /\ \A i \in DOMAIN squeue' : i + 1 \in DOMAIN squeue /\ squeue'[i] = squeue[i + 1]
      /\ DOMAIN squeue' \subseteq Nat
  BY <1>1, QueueTail
<1>3. \A i \in DOMAIN squeue : Wrote(i) => i - 1 \in DOMAIN squeue' /\ Wrote(i - 1)'
  BY <1>1 DEF Wrote
<1>4. \A i \in DOMAIN squeue' : Wrote(i)' => i + 1 \in DOMAIN squeue /\ Wrote(i + 1)
  BY <1>2 DEF Wrote
<1>5. \A i, j \in DOMAIN squeue' : Wrote(i)' /\ Wrote(j)' => i = j
  BY <1>2, <1>4 DEF OneWrite
<1>6. \A i \in DOMAIN squeue' : Wrote(i)' => ~writing'
  BY <1>4 DEF OneWrite
<1>7. m_send_data_list' # <<>> <=> writing' \/ \E i \in DOMAIN squeue' : Wrote(i)'
  BY <1>3, <1>4 DEF OneWrite
<1> QED BY <1>5, <1>6, <1>7 DEF OneWrite

(* The completion that a pending write leaves is the only one.             *)
LEMMA CompletionAdded ==
    ASSUME SenderTypeOK, OneWrite, writing, NEW q \in Seq(SenderHandler),
           NEW h \in SenderHandler, h.kind = "wrote",
           \A i \in DOMAIN q : q[i].kind # "wrote",
           squeue' = Append(q, h), writing' = FALSE, UNCHANGED m_send_data_list
    PROVE  OneWrite'
<1>1. /\ DOMAIN squeue' = DOMAIN q \cup {Len(q) + 1}
      /\ squeue'[Len(q) + 1] = h
      /\ \A i \in DOMAIN q : squeue'[i] = q[i]
  BY QueueAppend
<1>2. \A i \in DOMAIN squeue' : Wrote(i)' <=> i = Len(q) + 1
  BY <1>1 DEF Wrote
<1>3. m_send_data_list' # <<>>
  BY DEF OneWrite
<1> QED BY <1>1, <1>2, <1>3 DEF OneWrite

(* When the handled completion is the one of the list's first chunk there  *)
(* is no other, and no write is pending.                                   *)
LEMMA CompletionTaken ==
    ASSUME SenderTypeOK, OneWrite, squeue # <<>>, Head(squeue).kind = "wrote"
    PROVE  /\ writing = FALSE
           /\ \A i \in DOMAIN Tail(squeue) : Tail(squeue)[i].kind # "wrote"
<1>1. squeue \in Seq(SenderHandler)
  BY DEF SenderTypeOK
<1>2. 1 \in DOMAIN squeue /\ Wrote(1)
  BY <1>1, QueueTail DEF Wrote
<1>3. \A i \in DOMAIN Tail(squeue) :
         i + 1 \in DOMAIN squeue /\ Tail(squeue)[i] = squeue[i + 1] /\ i + 1 # 1
  BY <1>1, QueueTail
<1>4. \A i \in DOMAIN squeue : i # 1 => ~Wrote(i)
  BY <1>2 DEF OneWrite
<1> QED BY <1>2, <1>3, <1>4 DEF OneWrite, SenderTypeOK, Wrote

-----------------------------------------------------------------------------
(* One write at a time, kept by every step.                                *)
LEMMA NextOneWrite == SenderTypeOK /\ OneWrite /\ [Next]_vars => OneWrite'
<1> SUFFICES ASSUME SenderTypeOK, OneWrite, [Next]_vars PROVE OneWrite'
  OBVIOUS
<1>q. squeue \in Seq(SenderHandler)
  BY DEF SenderTypeOK
<1>w. /\ [kind |-> "wrote", err |-> TRUE] \in SenderHandler
      /\ [kind |-> "wrote", err |-> FALSE] \in SenderHandler
  BY DEF SenderHandler
<1>p. writing => \A i \in DOMAIN squeue : squeue[i].kind # "wrote"
  BY DEF OneWrite, Wrote
<1>1. ASSUME NEW n \in Sizes, SendMessage(n) PROVE OneWrite'
  <2>1. [kind |-> "send", m |-> Len(accepted) + 1].kind # "wrote"
    OBVIOUS
  <2> QED BY <1>1, <2>1, NoCompletionAdded DEF SendMessage
<1>2. CASE SenderClose
  <2>1. [kind |-> "close"].kind # "wrote"
    OBVIOUS
  <2> QED BY <1>2, <2>1, NoCompletionAdded DEF SenderClose
<1>3. CASE HandleSend
  <2>1. squeue # <<>> /\ Head(squeue).kind # "wrote"
    BY <1>3 DEF HandleSend, NextS
  <2> DEFINE frame == <<Chunk("head", Head(squeue).m), Chunk("body", Head(squeue).m)>>
  <2>2. CASE open /\ m_send_data_list = <<>>
    <3>1. m_send_data_list' = frame /\ m_send_data_list' # <<>>
      BY <1>3, <2>2 DEF HandleSend, Frame
    <3>2. Len(m_send_data_list') = 2
      BY <3>1
    <3>3. DoWrite(Tail(squeue))
      BY <1>3, <2>2, <3>2 DEF HandleSend
    <3>4. writing = FALSE /\ \A i \in DOMAIN squeue : ~Wrote(i)
      BY <2>2 DEF OneWrite, SenderTypeOK
    <3>5. /\ Tail(squeue) \in Seq(SenderHandler)
          /\ \A i \in DOMAIN Tail(squeue) : Tail(squeue)[i].kind # "wrote"
      BY <1>q, <2>1, <3>4, QueueTail DEF Wrote
    <3> QED BY <3>1, <3>3, <3>4, <3>5, DoWriteOne DEF OneWrite
  <2>3. CASE open /\ m_send_data_list # <<>>
    <3>1. m_send_data_list' = m_send_data_list \o frame
      BY <1>3, <2>3 DEF HandleSend, Frame
    <3>2. Len(m_send_data_list') # 2 /\ m_send_data_list' # <<>>
      <4>2. Len(m_send_data_list) \in Nat \ {0}
        BY <2>3 DEF SenderTypeOK
      <4>3. Len(m_send_data_list') = Len(m_send_data_list) + 2
        BY <3>1, FrameAppended DEF SenderTypeOK
      <4> QED BY <4>2, <4>3
    <3>3. squeue' = Tail(squeue) /\ UNCHANGED writing
      BY <1>3, <2>3, <3>2 DEF HandleSend
    <3> QED BY <2>1, <2>3, <3>2, <3>3, NoCompletionTaken
  <2>4. CASE ~open
    BY <1>3, <2>1, <2>4, NoCompletionTaken DEF HandleSend
  <2> QED BY <2>2, <2>3, <2>4
<1>4. CASE HandleWrote
  <2>1. squeue # <<>> /\ Head(squeue).kind = "wrote"
    BY <1>4 DEF HandleWrote, NextS
  <2>2. /\ writing = FALSE /\ Tail(squeue) \in Seq(SenderHandler)
        /\ \A i \in DOMAIN Tail(squeue) : Tail(squeue)[i].kind # "wrote"
    BY <1>q, <2>1, CompletionTaken, QueueTail
  <2>3. CASE m_send_data_list' # <<>>
    <3>1. DoWrite(Tail(squeue))
      BY <1>4, <2>3 DEF HandleWrote
    <3> QED BY <2>2, <2>3, <3>1, DoWriteOne DEF OneWrite
  <2>4. CASE m_send_data_list' = <<>>
    <3>1. squeue' = Tail(squeue) /\ writing' = FALSE
      BY <1>4, <2>2, <2>4 DEF HandleWrote
    <3> QED BY <2>2, <2>4, <3>1 DEF OneWrite, Wrote
  <2> QED BY <2>3, <2>4
<1>5. CASE HandleWriteError
  <2>1. squeue # <<>> /\ Head(squeue).kind = "wrote"
    BY <1>5 DEF HandleWriteError, NextS
  <2>2. /\ squeue' = Tail(squeue) /\ m_send_data_list' = <<>> /\ writing' = FALSE
        /\ \A i \in DOMAIN Tail(squeue) : Tail(squeue)[i].kind # "wrote"
    BY <1>5, <2>1, CompletionTaken DEF HandleWriteError
  <2> QED BY <2>2 DEF OneWrite, Wrote
<1>6. CASE HandleSenderClose
  <2>1. /\ squeue # <<>> /\ Head(squeue).kind # "wrote"
        /\ writing' = FALSE /\ UNCHANGED m_send_data_list
    BY <1>6 DEF HandleSenderClose, NextS
  <2>2. CASE writing
    <3>1. squeue' = Append(Tail(squeue), [kind |-> "wrote", err |-> TRUE])
      BY <1>6, <2>2 DEF HandleSenderClose
    <3>2. /\ Tail(squeue) \in Seq(SenderHandler)
          /\ \A i \in DOMAIN Tail(squeue) : Tail(squeue)[i].kind # "wrote"
      BY <1>q, <1>p, <2>1, <2>2, QueueTail
    <3> QED BY <1>w, <2>1, <2>2, <3>1, <3>2, CompletionAdded
  <2>3. CASE ~writing
    <3>1. squeue' = Tail(squeue) /\ UNCHANGED writing
      BY <1>6, <2>3 DEF HandleSenderClose, SenderTypeOK
    <3> QED BY <2>1, <3>1, NoCompletionTaken
  <2> QED BY <2>2, <2>3
<1>7. ASSUME NEW n \in 1..WireCapacity, Transfer(n) PROVE OneWrite'
  <2>1. writing /\ UNCHANGED m_send_data_list
    BY <1>7 DEF Transfer
  <2>2. CASE writing' = FALSE /\ squeue' = Append(squeue, [kind |-> "wrote", err |-> FALSE])
    BY <1>q, <1>w, <1>p, <2>1, <2>2, CompletionAdded
  <2>3. CASE UNCHANGED <<writing, squeue>>
    BY <2>1, <2>3 DEF OneWrite, Wrote
  <2> QED BY <1>7, <2>2, <2>3 DEF Transfer
<1>8. CASE WriteFails
  <2>1. /\ writing /\ writing' = FALSE /\ UNCHANGED m_send_data_list
        /\ squeue' = Append(squeue, [kind |-> "wrote", err |-> TRUE])
    BY <1>8 DEF WriteFails
  <2> QED BY <1>q, <1>w, <1>p, <2>1, CompletionAdded
<1>9. CASE UNCHANGED sender
  BY <1>9 DEF sender, OneWrite, Wrote
<1> QED BY <1>1, <1>2, <1>3, <1>4, <1>5, <1>6, <1>7, <1>8, <1>9, SenderSteps

-----------------------------------------------------------------------------
(* Frames stay whole in the list: it grows by a frame at its end, loses    *)
(* its first chunk, or everything.                                         *)
LEMMA NextFramesPaired == SenderTypeOK /\ FramesPaired /\ [Next]_vars => FramesPaired'
<1> SUFFICES ASSUME SenderTypeOK, FramesPaired, [Next]_vars PROVE FramesPaired'
  OBVIOUS
<1>1. CASE UNCHANGED m_send_data_list
  BY <1>1 DEF FramesPaired
<1>2. CASE m_send_data_list' = <<>>
  BY <1>2 DEF FramesPaired
<1>3. CASE m_send_data_list # <<>> /\ m_send_data_list' = Tail(m_send_data_list)
  <2>1. /\ Len(m_send_data_list') = Len(m_send_data_list) - 1
        /\ \A i \in DOMAIN m_send_data_list' :
              /\ i + 1 \in DOMAIN m_send_data_list
              /\ m_send_data_list'[i] = m_send_data_list[i + 1]
    BY <1>3 DEF SenderTypeOK
  <2>2. SUFFICES ASSUME NEW i \in DOMAIN m_send_data_list', m_send_data_list'[i].part = "head"
                 PROVE  /\ i < Len(m_send_data_list')
                        /\ m_send_data_list'[i + 1] = Chunk("body", m_send_data_list'[i].m)
    BY DEF FramesPaired
  <2>3. /\ i + 1 < Len(m_send_data_list)
        /\ m_send_data_list[i + 2] = Chunk("body", m_send_data_list'[i].m)
    BY <1>3, <2>1, <2>2 DEF FramesPaired, SenderTypeOK
  <2>4. i < Len(m_send_data_list') /\ i + 1 \in DOMAIN m_send_data_list'
    BY <1>3, <2>1, <2>3 DEF SenderTypeOK
  <2>5. m_send_data_list'[i + 1] = m_send_data_list[i + 2]
    BY <1>3, <2>4 DEF SenderTypeOK
  <2> QED BY <2>3, <2>4, <2>5
<1>4. ASSUME NEW m, m_send_data_list' = m_send_data_list \o <<Chunk("head", m), Chunk("body", m)>>
      PROVE  FramesPaired'
  <2> DEFINE l == m_send_data_list
             k == Len(m_send_data_list)
  <2>1. k \in Nat /\ DOMAIN l = 1..k
    BY DEF SenderTypeOK
  <2>2. /\ DOMAIN l' = 1..(k + 2) /\ Len(l') = k + 2
        /\ \A i \in 1..k : l'[i] = l[i]
        /\ l'[k + 1] = Chunk("head", m) /\ l'[k + 2] = Chunk("body", m)
    <3>1. l \in Seq(ChunkType)
      BY DEF SenderTypeOK
    <3> QED BY <1>4, <2>1, <3>1, FrameAppended
  <2>3. SUFFICES ASSUME NEW i \in DOMAIN l', l'[i].part = "head"
                 PROVE  i < Len(l') /\ l'[i + 1] = Chunk("body", l'[i].m)
    BY DEF FramesPaired
  <2>4. CASE i \in 1..k
    <3>1. i < k /\ l[i + 1] = Chunk("body", l[i].m)
      BY <2>1, <2>2, <2>3, <2>4 DEF FramesPaired
    <3> QED BY <2>1, <2>2, <2>4, <3>1
  <2>5. CASE i = k + 1
    <3>1. l'[i] = Chunk("head", m) /\ l'[i + 1] = Chunk("body", m) /\ i < Len(l')
      BY <2>1, <2>2, <2>5
    <3>2. l'[i].m = m
      BY <3>1 DEF Chunk
    <3> QED BY <3>1, <3>2
  <2>6. CASE i = k + 2
    BY <2>2, <2>3, <2>6 DEF Chunk
  <2> QED BY <2>1, <2>2, <2>3, <2>4, <2>5, <2>6
<1>5. CASE HandleSend
  BY <1>1, <1>4, <1>5 DEF HandleSend, Frame
<1>6. CASE HandleWrote
  BY <1>2, <1>3, <1>6 DEF HandleWrote
<1>7. \/ UNCHANGED m_send_data_list \/ m_send_data_list' = <<>>
      \/ HandleSend \/ HandleWrote
  BY SenderSteps DEF SendMessage, SenderClose, HandleWriteError, HandleSenderClose,
     Transfer, WriteFails, sender
<1> QED BY <1>1, <1>2, <1>5, <1>6, <1>7

(* The invariant holds in every state.                                     *)
LEMMA IInvHolds == Spec => []IInv
<1>1. IInv /\ [Next]_vars => IInv'
  BY NextSenderType, NextOneWrite, NextFramesPaired DEF IInv
<1> QED BY InitIInv, <1>1, PTL DEF Spec

-----------------------------------------------------------------------------
(* Whatever is sent, and however posted sends, completions, failures and   *)
(* close() interleave: exactly one write is under way while there is       *)
(* something to write, and do_write() and its completion never find the    *)
(* list empty.                                                             *)
THEOREM OneWriteCorrect == Spec => []OneWrite
<1>1. IInv => OneWrite
  BY DEF IInv
<1> QED BY <1>1, IInvHolds, PTL

(* A header never stands in the list without its packet behind it.         *)
THEOREM FramesPairedCorrect == Spec => []FramesPaired
<1>1. IInv => FramesPaired
  BY DEF IInv
<1> QED BY <1>1, IInvHolds, PTL

-----------------------------------------------------------------------------
(***************************************************************************)
(* Framed: what is on its way is the rest of the stream of frames, in      *)
(* order, from the byte the receiver read last to the byte the sender      *)
(* writes next.                                                            *)
(***************************************************************************)

(* The chunk that comes after ch in the stream.                            *)
NextChunk(ch) == IF ch.part = "head" THEN Chunk("body", ch.m) ELSE Chunk("head", ch.m + 1)

(* Between byte a and the byte b that comes d places later: if the chunk   *)
(* of a goes so far then b is in it, and if it ends just before b then b   *)
(* is the first of the next.                                               *)
Apart(a, b, d) ==
    /\ a.at + d <= ChunkSize(a) => b = Byte(a, a.at + d)
    /\ d = 1 /\ a.at = ChunkSize(a) => b = Byte(NextChunk(a), 1)

(* The bytes of the messages sent so far.                                  *)
StreamByte == {b \in [part : {"head", "body"}, m : Messages, at : Nat \ {0}] : b.at <= ChunkSize(b)}

(* The bytes w follow the byte first, and the byte last follows them.      *)
Flowing(w, first) ==
    /\ \A j \in DOMAIN w : Apart(first, w[j], j)
    /\ \A i, j \in DOMAIN w : i < j => Apart(w[i], w[j], j - i)

Reaches(w, first, last) ==
    /\ Apart(first, last, Len(w) + 1)
    /\ \A i \in DOMAIN w : Apart(w[i], last, Len(w) + 1 - i)

ReceiverTypeOK ==
    /\ broken \in BOOLEAN /\ ropen \in BOOLEAN
    /\ rqueue \in Seq({"head", "body", "error", "close"})
    /\ rpc \in {"idle", "deliver"}
    /\ reading \in {"none", "head", "body"}
    /\ size \in 0 .. SizeModulus - 1
    /\ delivered \in Seq(Nat)

(* The receiver: handlers waiting, messages read, the last byte read.      *)
Has(q, kind) == \E i \in DOMAIN q : q[i] = kind
Have(kind) == Has(rqueue, kind)
Got == Len(delivered) + (IF rpc = "deliver" \/ Have("body") THEN 1 ELSE 0)
InBody == reading = "body" \/ Have("head")
LastRead == Byte(Chunk(IF InBody THEN "body" ELSE "head", Got + 1),
                 IF reading = "none" THEN 0 ELSE Len(Buffer))

(* The sender: f messages were framed, the rest wait in order.             *)
Waiting(q, f, n) ==
    /\ \A i \in DOMAIN q : q[i].kind = "send" => q[i].m > f
    /\ \A i, j \in DOMAIN q : q[i].kind = "send" /\ q[j].kind = "send" /\ i < j => q[i].m < q[j].m
    /\ \A m \in (f + 1)..n : \E i \in DOMAIN q : q[i].kind = "send" /\ q[i].m = m

Unframed(f) == Waiting(squeue, f, Len(accepted))

Listed(f) ==
    LET n == Len(m_send_data_list) IN
    /\ n # 0 => m_send_data_list[n] = Chunk("body", f)
    /\ \A i \in DOMAIN m_send_data_list :
         i < n => m_send_data_list[i + 1] = NextChunk(m_send_data_list[i])
    /\ writing => done < ChunkSize(m_send_data_list[1])

(* The byte that is written next.                                          *)
ToWrite(f) ==
    IF writing THEN Byte(m_send_data_list[1], done + 1)
    ELSE IF m_send_data_list = <<>> THEN Byte(Chunk("head", f + 1), 1)
    ELSE Byte(NextChunk(m_send_data_list[1]), 1)

(* A write fails only on a closed socket or a broken connection.           *)
FailsOnly(q) == \A i \in DOMAIN q : q[i].kind = "wrote" /\ q[i].err => broken \/ ~open

Failing == (writing => open) /\ FailsOnly(squeue)

(* What is in flight continues what the receiver has read ...              *)
InFlight ==
    /\ wire \in Seq(StreamByte)
    /\ Len(wire) <= WireCapacity
    /\ broken => wire = <<>>
    /\ ~ropen => broken
    /\ ~broken => Flowing(wire, LastRead)

(* ... and what is written next continues that.                            *)
Source ==
    open /\ ~broken =>
        \E f \in 0..Len(accepted) : Unframed(f) /\ Listed(f) /\ Reaches(wire, LastRead, ToWrite(f))

(* A read that is complete, a message that is read but not delivered: one  *)
(* of a kind.                                                              *)
OneRead(q) ==
    \A i, j \in DOMAIN q : q[i] \in {"head", "body"} /\ q[j] \in {"head", "body"} => i = j

Reading ==
    /\ OneRead(rqueue)
    /\ Have("head") \/ Have("body") => reading = "none"
    /\ rpc = "deliver" => ~Have("body") /\ reading # "body"

(* What the receiver has is what was sent.                                 *)
Buffers ==
    /\ \A i \in DOMAIN delivered : delivered[i] = i
    /\ Got <= Len(accepted)
    /\ InBody => Got < Len(accepted)
    /\ Have("head") => m_recv_head = Whole(Chunk("head", Got + 1))
    /\ rpc = "deliver" \/ Have("body") => m_recv_data = Whole(Chunk("body", Got))
    /\ reading = "head" =>
         \E k \in 0..(HeadSize - 1) : m_recv_head = Bytes(Chunk("head", Got + 1), 1, k)
    /\ reading = "body" =>
         /\ size = accepted[Got + 1]
         /\ \E k \in 0..(size - 1) : m_recv_data = Bytes(Chunk("body", Got + 1), 1, k)

Framed == signErrors = 0 /\ Failing /\ InFlight /\ Source /\ Reading /\ Buffers

(* The other peer wrote its noise and went: what is read of it, what not.  *)
NoiseRead(k) == [i \in 1..k |-> Noise[i]]
NoiseLeft(k) == [i \in 1..(HeadSize - k) |-> Noise[k + i]]

Stranger ==
    /\ accepted = <<>> /\ ~open /\ m_send_data_list = <<>> /\ delivered = <<>>
    /\ rpc = "idle" /\ ~Have("body") /\ reading # "body"
    /\ OneRead(rqueue)
    /\ Have("head") => reading = "none" /\ m_recv_head = Noise
    /\ signErrors \in {0, 1}
    /\ signErrors = 1 => reading = "none" /\ ~Have("head") /\ m_recv_head = Noise
    /\ reading = "head" =>
         \E k \in 0..(HeadSize - 1) :
            m_recv_head = NoiseRead(k) /\ (wire = <<>> \/ wire = NoiseLeft(k))
    /\ reading = "none" \/ broken => wire = <<>>

StreamInv == ReceiverTypeOK /\ (Framed \/ Stranger)

(* Sizes.                                                                  *)
LEMMA ChunkSizes ==
  ASSUME SenderTypeOK, NEW ch, ch.part = "head" \/ ch.m \in Messages
  PROVE  ChunkSize(ch) \in Nat \ {0}
<1>1. \A m \in Messages : accepted[m] \in Nat \ {0}
  <2>1. \A m \in 1..Len(accepted) : accepted[m] \in Sizes
    BY DEF SenderTypeOK
  <2> QED BY <2>1, SizesAssumption DEF Messages
<1> QED BY <1>1, HeadSizeAssumption DEF ChunkSize

(* Bytes of a chunk.                                                       *)
LEMMA ByteParts ==
  ASSUME NEW ch, NEW i
  PROVE  /\ Byte(ch, i).part = ch.part /\ Byte(ch, i).m = ch.m /\ Byte(ch, i).at = i
         /\ ChunkSize(Byte(ch, i)) = ChunkSize(ch)
         /\ \A j : Byte(Byte(ch, i), j) = Byte(ch, j)
         /\ NextChunk(Byte(ch, i)) = NextChunk(ch)
BY DEF Byte, ChunkSize, NextChunk

(* Equal bytes are of the same chunk.                                      *)
LEMMA SameByte ==
  ASSUME NEW a, NEW b, NEW i, NEW j, Byte(a, i) = Byte(b, j)
  PROVE  /\ i = j /\ ChunkSize(a) = ChunkSize(b)
         /\ \A k : Byte(a, k) = Byte(b, k)
<1>1. a.part = b.part /\ a.m = b.m /\ i = j
  BY ByteParts
<1> QED BY <1>1 DEF ChunkSize, Byte

(* A chunk that goes on where byte a's place d is.                         *)
LEMMA ApartOn ==
  ASSUME NEW a, NEW ch, NEW k \in Nat, NEW d \in Nat \ {0}, NEW t \in Nat \ {0},
         a.at \in Nat, ChunkSize(a) \in Nat, Apart(a, Byte(ch, k + 1), d)
  PROVE  Apart(a, Byte(ch, k + t), d + t - 1)
<1>1. ASSUME a.at + (d + t - 1) <= ChunkSize(a) PROVE Byte(ch, k + t) = Byte(a, a.at + (d + t - 1))
  <2>1. a.at + d <= ChunkSize(a)
    BY <1>1
  <2>2. Byte(ch, k + 1) = Byte(a, a.at + d)
    BY <2>1 DEF Apart
  <2>3. k + 1 = a.at + d /\ \A i : Byte(ch, i) = Byte(a, i)
    BY <2>2, SameByte
  <2>4. k + t = a.at + (d + t - 1)
    BY <2>3
  <2> QED BY <2>3, <2>4
<1>2. ASSUME d + t - 1 = 1, a.at = ChunkSize(a) PROVE Byte(ch, k + t) = Byte(NextChunk(a), 1)
  <2>1. d = 1 /\ t = 1
    BY <1>2
  <2> QED BY <1>2, <2>1 DEF Apart
<1> QED BY <1>1, <1>2 DEF Apart

(* What follows the end of that chunk.                                     *)
LEMMA ApartOver ==
  ASSUME NEW a, NEW ch, NEW k \in Nat, NEW d \in Nat \ {0}, NEW n \in Nat \ {0},
         a.at \in Nat, ChunkSize(a) \in Nat, Apart(a, Byte(ch, k + 1), d), k + n = ChunkSize(ch)
  PROVE  Apart(a, Byte(NextChunk(ch), 1), d + n)
<1>1. ~(a.at + (d + n) <= ChunkSize(a))
  <2> SUFFICES ASSUME a.at + (d + n) <= ChunkSize(a) PROVE FALSE
    OBVIOUS
  <2>1. Byte(ch, k + 1) = Byte(a, a.at + d)
    BY DEF Apart
  <2>2. k + 1 = a.at + d /\ ChunkSize(ch) = ChunkSize(a)
    BY <2>1, SameByte
  <2> QED BY <2>2
<1>2. d + n # 1
  OBVIOUS
<1> QED BY <1>1, <1>2 DEF Apart

(* A byte at the end of its chunk: what follows is as far from the start   *)
(* of the next.                                                            *)
LEMMA ApartNext ==
  ASSUME NEW a, NEW x, NEW b, NEW d \in Nat \ {0}, a.at = ChunkSize(a), Apart(a, x, 1),
         d = 1 => b = x, d # 1 => Apart(x, b, d - 1), ChunkSize(NextChunk(a)) \in Nat \ {0}
  PROVE  Apart(Byte(NextChunk(a), 0), b, d)
<1> DEFINE c == NextChunk(a)
           z == Byte(NextChunk(a), 0)
<1>1. x = Byte(c, 1)
  BY DEF Apart
<1>2. z.at = 0 /\ ChunkSize(z) = ChunkSize(c) /\ \A i : Byte(z, i) = Byte(c, i)
  BY ByteParts
<1>3. x.at = 1 /\ ChunkSize(x) = ChunkSize(c) /\ \A i : Byte(x, i) = Byte(c, i)
  BY <1>1, ByteParts
<1>4. ASSUME d <= ChunkSize(c) PROVE b = Byte(c, d)
  <2>1. CASE d = 1
    BY <1>1, <2>1
  <2>2. CASE d # 1
    <3>1. x.at + (d - 1) = d
      BY <1>3
    <3> QED BY <1>3, <1>4, <2>2, <3>1 DEF Apart
  <2> QED BY <2>1, <2>2
<1> HIDE DEF c, z
<1>5. z.at + d = d
  BY <1>2
<1>6. z.at # ChunkSize(z)
  BY <1>2 DEF c
<1>7. Apart(z, b, d)
  BY <1>2, <1>4, <1>5, <1>6 DEF Apart
<1> QED BY <1>7 DEF z

(* The bytes of a part of a chunk.                                         *)
LEMMA BytesOf ==
  ASSUME SenderTypeOK, NEW ch \in ChunkType, NEW k \in Nat, NEW n \in Nat, k + n <= ChunkSize(ch)
  PROVE  /\ Bytes(ch, k + 1, k + n) \in Seq(StreamByte)
         /\ Len(Bytes(ch, k + 1, k + n)) = n
         /\ \A i \in 1..n : Bytes(ch, k + 1, k + n)[i] = Byte(ch, k + i)
<1> DEFINE b == Bytes(ch, k + 1, k + n)
<1>1. b = [i \in 1..n |-> Byte(ch, k + i)]
  <2>1. (k + n) - (k + 1) + 1 = n
    OBVIOUS
  <2>2. \A i \in 1..n : (k + 1) + i - 1 = k + i
    OBVIOUS
  <2> QED BY <2>1, <2>2 DEF Bytes
<1>2. \A i \in 1..n : Byte(ch, k + i) \in StreamByte
  <2> SUFFICES ASSUME NEW i \in 1..n PROVE Byte(ch, k + i) \in StreamByte
    OBVIOUS
  <2>1. ch.part \in {"head", "body"} /\ ch.m \in Messages
    BY DEF ChunkType
  <2>2. ChunkSize(ch) \in Nat
    BY <2>1, ChunkSizes
  <2>3. k + i \in Nat \ {0} /\ k + i <= ChunkSize(ch)
    BY <2>2
  <2>4. Byte(ch, k + i) \in [part : {"head", "body"}, m : Messages, at : Nat \ {0}]
    BY <2>1, <2>3 DEF Byte
  <2>5. Byte(ch, k + i).at <= ChunkSize(Byte(ch, k + i))
    BY <2>3, ByteParts
  <2> QED BY <2>4, <2>5 DEF StreamByte
<1> HIDE DEF b
<1>3. b \in [1..n -> StreamByte]
  BY <1>1, <1>2
<1>4. b \in Seq(StreamByte) /\ Len(b) = n
  BY <1>3
<1> QED BY <1>1, <1>4 DEF b

(* Bytes of a stream have a place in their chunk.                          *)
LEMMA StreamBytes ==
  ASSUME SenderTypeOK, NEW b \in StreamByte
  PROVE  /\ b.part \in {"head", "body"} /\ b.m \in Messages /\ b.at \in Nat \ {0}
         /\ b.at <= ChunkSize(b) /\ ChunkSize(b) \in Nat \ {0}
<1>1. b.part \in {"head", "body"} /\ b.m \in Messages /\ b.at \in Nat \ {0} /\ b.at <= ChunkSize(b)
  BY DEF StreamByte
<1> QED BY <1>1, ChunkSizes

(* Bytes in flight with the next bytes of a chunk behind them.             *)
Sent(w, ch, k, n) == w \o Bytes(ch, k + 1, k + n)
Sendable(w, ch, k, n) ==
    w \in Seq(StreamByte) /\ ch \in ChunkType /\ k \in Nat /\ n \in Nat /\ k + n <= ChunkSize(ch)

LEMMA BytesAppended ==
  ASSUME SenderTypeOK, NEW w, NEW ch, NEW k, NEW n, Sendable(w, ch, k, n), NEW v, v = Sent(w, ch, k, n)
  PROVE  /\ v \in Seq(StreamByte) /\ Len(v) = Len(w) + n /\ DOMAIN v = 1..(Len(w) + n)
         /\ \A i \in 1..Len(w) : v[i] = w[i]
         /\ \A i \in 1..n : v[Len(w) + i] = Byte(ch, k + i)
<1> DEFINE u == Bytes(ch, k + 1, k + n)
<1> USE DEF Sendable
<1>1. u \in Seq(StreamByte) /\ Len(u) = n /\ \A i \in 1..n : u[i] = Byte(ch, k + i)
  BY BytesOf
<1>2. v = w \o u
  BY DEF Sent
<1> HIDE DEF u
<1>3. w \in Seq(StreamByte) /\ Len(w) \in Nat
  OBVIOUS
<1>4. w \o u \in Seq(StreamByte)
  BY <1>1, <1>3, ConcatProperties, Zenon
<1>5. Len(w \o u) = Len(w) + Len(u)
  BY <1>1, <1>3, ConcatProperties, Zenon
<1>6. \A i \in 1..(Len(w) + Len(u)) : (w \o u)[i] = IF i <= Len(w) THEN w[i] ELSE u[i - Len(w)]
  BY <1>1, <1>3, ConcatProperties, Zenon
<1>7. /\ v \in Seq(StreamByte) /\ Len(v) = Len(w) + n
      /\ \A i \in 1..(Len(w) + n) : v[i] = IF i <= Len(w) THEN w[i] ELSE u[i - Len(w)]
  BY <1>1, <1>2, <1>4, <1>5, <1>6, Zenon
<1>8. DOMAIN v = 1..(Len(w) + n)
  BY <1>7
<1>9. \A i \in 1..Len(w) : v[i] = w[i]
  BY <1>3, <1>7
<1>10. \A i \in 1..n : v[Len(w) + i] = Byte(ch, k + i)
  <2> SUFFICES ASSUME NEW i \in 1..n PROVE v[Len(w) + i] = Byte(ch, k + i)
    OBVIOUS
  <2>1. Len(w) + i \in 1..(Len(w) + n) /\ ~(Len(w) + i <= Len(w)) /\ (Len(w) + i) - Len(w) = i
    BY <1>3
  <2> QED BY <1>1, <1>7, <2>1
<1> QED BY <1>7, <1>8, <1>9, <1>10

(* A write puts the next bytes of its chunk behind those in flight.        *)
Appended(w, first, ch, k, n, last, v) ==
    /\ w \in Seq(StreamByte) /\ first.at \in Nat /\ ChunkSize(first) \in Nat
    /\ ch \in ChunkType /\ k \in Nat /\ n \in Nat \ {0} /\ k + n <= ChunkSize(ch)
    /\ Flowing(w, first) /\ Reaches(w, first, Byte(ch, k + 1))
    /\ last = IF k + n < ChunkSize(ch) THEN Byte(ch, k + n + 1) ELSE Byte(NextChunk(ch), 1)
    /\ Len(v) = Len(w) + n /\ DOMAIN v = 1..(Len(w) + n)
    /\ \A i \in 1..Len(w) : v[i] = w[i]
    /\ \A i \in 1..n : v[Len(w) + i] = Byte(ch, k + i)

LEMMA FlowAppend ==
  ASSUME SenderTypeOK, NEW w, NEW first, NEW ch, NEW k, NEW n, NEW last, NEW v,
         Appended(w, first, ch, k, n, last, v)
  PROVE  Flowing(v, first) /\ Reaches(v, first, last)
<1> USE DEF Appended
<1> DEFINE l == Len(w)
<1>0. ChunkSize(ch) \in Nat
  BY ChunkSizes DEF ChunkType
<1>1. /\ Len(v) = l + n /\ DOMAIN v = 1..(l + n)
      /\ \A i \in 1..l : v[i] = w[i]
      /\ \A i \in 1..n : v[l + i] = Byte(ch, k + i)
  OBVIOUS
<1>2. l \in Nat /\ DOMAIN w = 1..l /\ \A i \in 1..l : w[i] \in StreamByte
  OBVIOUS
<1>3. \A i \in 1..l : w[i].at \in Nat /\ ChunkSize(w[i]) \in Nat
  BY <1>2, StreamBytes
<1> HIDE DEF l
<1>4. \A j \in 1..(l + n) : j \in 1..l \/ \E t \in 1..n : j = l + t
  <2> SUFFICES ASSUME NEW j \in 1..(l + n), j \notin 1..l PROVE \E t \in 1..n : j = l + t
    OBVIOUS
  <2>1. j - l \in 1..n /\ j = l + (j - l)
    BY <1>2
  <2> QED BY <2>1
<1>5. ASSUME NEW a, a.at \in Nat, ChunkSize(a) \in Nat, NEW d \in Nat \ {0}, Apart(a, Byte(ch, k + 1), d)
      PROVE  /\ \A t \in 1..n : Apart(a, Byte(ch, k + t), d + t - 1)
             /\ Apart(a, last, d + n)
  <2>1. \A t \in Nat \ {0} : Apart(a, Byte(ch, k + t), d + t - 1)
    BY <1>5, ApartOn
  <2>a. \A t \in 1..n : Apart(a, Byte(ch, k + t), d + t - 1)
    <3>1. \A t \in 1..n : t \in Nat \ {0}
      OBVIOUS
    <3> QED BY <2>1, <3>1, Zenon
  <2>2. CASE k + n < ChunkSize(ch)
    <3>1. k + n + 1 = k + (n + 1) /\ d + (n + 1) - 1 = d + n /\ n + 1 \in Nat \ {0}
      OBVIOUS
    <3>2. last = Byte(ch, k + (n + 1))
      BY <2>2, <3>1
    <3>3. Apart(a, Byte(ch, k + (n + 1)), d + (n + 1) - 1)
      BY <2>1, <3>1
    <3>4. Apart(a, last, d + n)
      BY <3>1, <3>2, <3>3, Zenon
    <3> QED BY <2>a, <3>4
  <2>3. CASE k + n = ChunkSize(ch)
    <3>1. last = Byte(NextChunk(ch), 1)
      BY <2>3
    <3>2. Apart(a, Byte(NextChunk(ch), 1), d + n)
      BY <1>5, <2>3, ApartOver
    <3> QED BY <2>a, <3>1, <3>2
  <2> QED BY <1>0, <2>2, <2>3
<1>6. /\ \A t \in 1..n : Apart(first, v[l + t], l + t)
      /\ Apart(first, last, l + n + 1)
  <2>1. Apart(first, Byte(ch, k + 1), l + 1) /\ l + 1 \in Nat \ {0}
    BY <1>2 DEF Reaches, l
  <2>2. /\ \A t \in 1..n : Apart(first, Byte(ch, k + t), (l + 1) + t - 1)
        /\ Apart(first, last, (l + 1) + n)
    BY <1>5, <2>1
  <2>3. \A t \in 1..n : (l + 1) + t - 1 = l + t
    BY <1>2
  <2>4. (l + 1) + n = l + n + 1
    BY <1>2
  <2> QED BY <1>1, <2>2, <2>3, <2>4
<1>7. ASSUME NEW i \in 1..l
      PROVE  /\ \A t \in 1..n : Apart(v[i], v[l + t], (l + t) - i)
             /\ Apart(v[i], last, l + n + 1 - i)
  <2>0. l + 1 - i \in Nat \ {0} /\ i \in DOMAIN w
    BY <1>2
  <2>1. Apart(w[i], Byte(ch, k + 1), l + 1 - i)
    BY <2>0, Zenon DEF Reaches, l
  <2>2. /\ \A t \in 1..n : Apart(w[i], Byte(ch, k + t), (l + 1 - i) + t - 1)
        /\ Apart(w[i], last, (l + 1 - i) + n)
    BY <1>3, <1>5, <2>0, <2>1
  <2>3. \A t \in 1..n : (l + 1 - i) + t - 1 = (l + t) - i
    BY <1>2
  <2>4. (l + 1 - i) + n = l + n + 1 - i
    BY <1>2
  <2> QED BY <1>1, <2>2, <2>3, <2>4
<1>8. ASSUME NEW s \in 1..n
      PROVE  /\ \A t \in 1..n : s < t => Apart(v[l + s], v[l + t], (l + t) - (l + s))
             /\ Apart(v[l + s], last, l + n + 1 - (l + s))
  <2> DEFINE a == Byte(ch, k + s)
  <2>1. a.at = k + s /\ ChunkSize(a) = ChunkSize(ch) /\ NextChunk(a) = NextChunk(ch)
        /\ \A i : Byte(a, i) = Byte(ch, i)
    BY ByteParts
  <2>2. v[l + s] = a
    BY <1>1
  <2> HIDE DEF a
  <2>3. ASSUME NEW t \in 1..n, s < t PROVE Apart(a, Byte(ch, k + t), t - s)
    <3>1. a.at + (t - s) = k + t /\ a.at # ChunkSize(a)
      BY <1>0, <2>1, <2>3, SMTT(30)
    <3> QED BY <2>1, <3>1 DEF Apart
  <2>4. Apart(a, last, n + 1 - s)
    <3>1. CASE k + n < ChunkSize(ch)
      <4>1. a.at + (n + 1 - s) = k + n + 1 /\ a.at # ChunkSize(a)
        BY <1>0, <2>1, <3>1
      <4> QED BY <2>1, <3>1, <4>1 DEF Apart
    <3>2. CASE k + n = ChunkSize(ch)
      <4>1. ~(a.at + (n + 1 - s) <= ChunkSize(a))
        BY <2>1, <3>2
      <4>2. last = Byte(NextChunk(a), 1)
        BY <2>1, <3>2
      <4> QED BY <4>1, <4>2 DEF Apart
    <3>3. k + n < ChunkSize(ch) \/ k + n = ChunkSize(ch)
      <4>1. k + n <= ChunkSize(ch) /\ k + n \in Nat
        OBVIOUS
      <4> HIDE DEF Appended
      <4> QED BY <1>0, <4>1
    <3> QED BY <3>1, <3>2, <3>3
  <2>5. \A t \in 1..n : (l + t) - (l + s) = t - s
    BY <1>2
  <2>6. l + n + 1 - (l + s) = n + 1 - s
    BY <1>2
  <2> QED BY <1>1, <2>2, <2>3, <2>4, <2>5, <2>6
<1>9. \A j \in DOMAIN v : Apart(first, v[j], j)
  <2>1. \A j \in 1..l : Apart(first, v[j], j)
    BY <1>1, <1>2 DEF Flowing
  <2> SUFFICES ASSUME NEW j \in 1..(l + n), j \notin 1..l PROVE Apart(first, v[j], j)
    BY <1>1, <2>1
  <2>2. PICK t \in 1..n : j = l + t
    BY <1>4
  <2> QED BY <1>6, <2>2, Zenon
<1>10. \A i, j \in DOMAIN v : i < j => Apart(v[i], v[j], j - i)
  <2> SUFFICES ASSUME NEW i \in 1..(l + n), NEW j \in 1..(l + n), i < j PROVE Apart(v[i], v[j], j - i)
    BY <1>1
  <2>1. CASE i \in 1..l /\ j \in 1..l
    BY <1>1, <1>2, <2>1 DEF Flowing
  <2>2. CASE i \in 1..l /\ j \notin 1..l
    BY <1>4, <1>7, <2>2
  <2>3. CASE i \notin 1..l
    <3>1. PICK s \in 1..n : i = l + s
      BY <1>4, <2>3
    <3>2. PICK t \in 1..n : j = l + t
      BY <1>2, <1>4, <2>3
    <3>3. s < t
      BY <1>2, <3>1, <3>2
    <3> QED BY <1>8, <3>1, <3>2, <3>3
  <2> QED BY <2>1, <2>2, <2>3
<1>11. \A i \in DOMAIN v : Apart(v[i], last, l + n + 1 - i)
  BY <1>1, <1>4, <1>7, <1>8
<1> QED BY <1>1, <1>6, <1>9, <1>10, <1>11 DEF Flowing, Reaches, l

(* A read takes the next bytes of the chunk it is in, up to the end of     *)
(* the chunk at most; what is left follows the last of them.               *)
Dropped(w, first, n, v, next) ==
    /\ w \in Seq(StreamByte) /\ first.at \in Nat /\ ChunkSize(first) \in Nat
    /\ n \in 1..Len(w) /\ first.at + n <= ChunkSize(first) /\ Flowing(w, first)
    /\ next = IF first.at + n < ChunkSize(first) THEN Byte(first, first.at + n)
              ELSE Byte(NextChunk(first), 0)
    /\ Len(v) = Len(w) - n /\ DOMAIN v = 1..(Len(w) - n)
    /\ \A j \in 1..(Len(w) - n) : v[j] = w[n + j]

LEMMA FlowDrop ==
  ASSUME SenderTypeOK, NEW w, NEW first, NEW n, NEW v, NEW next, Dropped(w, first, n, v, next)
  PROVE  /\ \A j \in 1..n : w[j] = Byte(first, first.at + j)
         /\ Flowing(v, next)
         /\ \A last : Reaches(w, first, last) => Reaches(v, next, last)
<1> USE DEF Dropped
<1>1. Len(w) \in Nat /\ DOMAIN w = 1..Len(w) /\ n \in Nat \ {0}
      /\ \A j \in 1..Len(w) : w[j] \in StreamByte
  OBVIOUS
<1>2. \A j \in 1..n : w[j] = Byte(first, first.at + j)
  <2> SUFFICES ASSUME NEW j \in 1..n PROVE w[j] = Byte(first, first.at + j)
    OBVIOUS
  <2>1. j \in DOMAIN w /\ first.at + j <= ChunkSize(first)
    BY <1>1
  <2> QED BY <2>1 DEF Flowing, Apart
<1> DEFINE a == w[n]
<1>3. /\ a = Byte(first, first.at + n) /\ a.at = first.at + n
      /\ ChunkSize(a) = ChunkSize(first) /\ NextChunk(a) = NextChunk(first)
  <2>1. a = Byte(first, first.at + n)
    BY <1>1, <1>2
  <2> QED BY <2>1, ByteParts
<1>4. ChunkSize(NextChunk(a)) \in Nat \ {0}
  <2>1. a.m \in Messages
    BY <1>1, StreamBytes
  <2> QED BY <2>1, ChunkSizes DEF NextChunk, Chunk
<1>5. ASSUME NEW x, NEW b, NEW d \in Nat \ {0}, Apart(a, x, 1), Apart(a, b, d), d = 1 => b = x,
             d # 1 => Apart(x, b, d - 1)
      PROVE  Apart(next, b, d)
  <2>1. CASE first.at + n < ChunkSize(first)
    BY <1>3, <1>5, <2>1
  <2>2. CASE first.at + n = ChunkSize(first)
    <3>1. next = Byte(NextChunk(a), 0) /\ a.at = ChunkSize(a)
      BY <1>3, <2>2
    <3> HIDE DEF a
    <3>2. Apart(Byte(NextChunk(a), 0), b, d)
      BY <1>4, <1>5, <3>1, ApartNext
    <3> QED BY <3>1, <3>2
  <2>3. first.at + n < ChunkSize(first) \/ first.at + n = ChunkSize(first)
    OBVIOUS
  <2> QED BY <2>1, <2>2, <2>3
<1>6. ASSUME NEW i \in 1..Len(w), NEW j \in 1..Len(w), i < j PROVE Apart(w[i], w[j], j - i)
  BY <1>1, <1>6 DEF Flowing
<1> HIDE DEF a
<1>7. \A j \in DOMAIN v : Apart(next, v[j], j)
  <2> SUFFICES ASSUME NEW j \in 1..(Len(w) - n) PROVE Apart(next, v[j], j)
    OBVIOUS
  <2>1. /\ n + 1 \in 1..Len(w) /\ n + j \in 1..Len(w) /\ n < n + 1 /\ n < n + j
        /\ (n + 1) - n = 1 /\ (n + j) - n = j /\ (n + j) - (n + 1) = j - 1 /\ j \in Nat \ {0}
        /\ j # 1 => n + 1 < n + j
    BY <1>1
  <2>2. Apart(a, w[n + 1], 1) /\ Apart(a, w[n + j], j)
    BY <1>6, <2>1 DEF a
  <2>3. j # 1 => Apart(w[n + 1], w[n + j], j - 1)
    BY <1>6, <2>1
  <2>4. Apart(next, w[n + j], j)
    BY <1>5, <2>1, <2>2, <2>3
  <2> QED BY <2>4
<1>8. \A i, j \in DOMAIN v : i < j => Apart(v[i], v[j], j - i)
  <2> SUFFICES ASSUME NEW i \in 1..(Len(w) - n), NEW j \in 1..(Len(w) - n), i < j
               PROVE  Apart(v[i], v[j], j - i)
    OBVIOUS
  <2>1. n + i \in 1..Len(w) /\ n + j \in 1..Len(w) /\ n + i < n + j /\ (n + j) - (n + i) = j - i
    BY <1>1
  <2>2. Apart(w[n + i], w[n + j], (n + j) - (n + i))
    BY <1>6, <2>1
  <2> QED BY <2>1, <2>2
<1>9. ASSUME NEW last, Reaches(w, first, last) PROVE Reaches(v, next, last)
  <2>1. \A i \in 1..Len(w) : Apart(w[i], last, Len(w) + 1 - i)
    BY <1>1, <1>9 DEF Reaches
  <2>2. Apart(next, last, Len(v) + 1)
    <3> DEFINE d == Len(v) + 1
    <3>1. d \in Nat \ {0} /\ Len(w) + 1 - n = d
      BY <1>1
    <3>2. Apart(a, last, d)
      BY <2>1, <3>1 DEF a
    <3>3. CASE n = Len(w)
      <4>1. d = 1
        BY <1>1, <3>3
      <4> HIDE DEF d
      <4> QED BY <1>5, <3>1, <3>2, <4>1 DEF d
    <3>4. CASE n # Len(w)
      <4>1. n + 1 \in 1..Len(w) /\ n < n + 1 /\ (n + 1) - n = 1 /\ d # 1 /\ Len(w) + 1 - (n + 1) = d - 1
        BY <1>1, <3>4
      <4>2. Apart(a, w[n + 1], 1)
        BY <1>6, <4>1 DEF a
      <4>3. Apart(w[n + 1], last, d - 1)
        BY <2>1, <4>1
      <4> HIDE DEF d
      <4>4. Apart(next, last, d)
        BY <1>5, <3>1, <3>2, <4>1, <4>2, <4>3
      <4> QED BY <4>4 DEF d
    <3> QED BY <3>3, <3>4
  <2>3. ASSUME NEW i \in DOMAIN v PROVE Apart(v[i], last, Len(v) + 1 - i)
    <3>1. n + i \in 1..Len(w) /\ Len(w) + 1 - (n + i) = Len(v) + 1 - i
      BY <1>1
    <3>2. Apart(w[n + i], last, Len(w) + 1 - (n + i))
      BY <2>1, <3>1
    <3> QED BY <3>1, <3>2
  <2> QED BY <2>2, <2>3 DEF Reaches
<1> QED BY <1>2, <1>7, <1>8, <1>9 DEF Flowing

-----------------------------------------------------------------------------
(* The steps that the receiver, or the connection, takes.                  *)
LEMMA AllSteps ==
    [Next]_vars =>
       \/ \E n \in Sizes : SendMessage(n)
       \/ SenderClose \/ HandleSend \/ HandleWrote \/ HandleWriteError \/ HandleSenderClose
       \/ \E n \in 1..WireCapacity : Transfer(n) \/ Receive(n)
       \/ WriteFails \/ ReadFails \/ Break
       \/ HandleHead \/ HandleBadHead \/ HandleBody \/ Deliver \/ HandleReadError
       \/ ReceiverClose \/ HandleReceiverClose
       \/ UNCHANGED vars
  BY DEF Next, Users, SenderStep, ReceiverStep, NetworkStep

(* Handlers of the receiver.                                               *)
RKinds == {"head", "body", "error", "close"}

(* Types of the receiver: a header that is right has a size that fits it,  *)
(* and what is delivered is a message or 0.                                *)
LEMMA NextReceiverType == SenderTypeOK /\ ReceiverTypeOK /\ [Next]_vars => ReceiverTypeOK'
<1> SUFFICES ASSUME SenderTypeOK, ReceiverTypeOK, [Next]_vars PROVE ReceiverTypeOK'
  OBVIOUS
<1> USE DEF receiver
<1>1. /\ rqueue \in Seq(RKinds) /\ (rqueue # <<>> => Tail(rqueue) \in Seq(RKinds))
      /\ \A q \in Seq(RKinds), k \in RKinds : Append(q, k) \in Seq(RKinds)
  BY DEF ReceiverTypeOK, RKinds
<1>2. "head" \in RKinds /\ "body" \in RKinds /\ "error" \in RKinds /\ "close" \in RKinds
  BY DEF RKinds
<1>3. ASSUME rqueue' \in Seq(RKinds), UNCHANGED <<broken, ropen, rpc, reading, size, delivered>>
      PROVE  ReceiverTypeOK'
  BY <1>3 DEF ReceiverTypeOK, RKinds
<1>4. ASSUME NEW n \in 1..WireCapacity, Receive(n) PROVE ReceiverTypeOK'
  <2>1. reading \in RKinds \/ reading = "none"
    BY DEF ReceiverTypeOK, RKinds
  <2>2. rqueue' \in Seq(RKinds) /\ reading' \in {"none", "head", "body"}
    BY <1>1, <1>4, <2>1 DEF Receive, ReceiverTypeOK
  <2> QED BY <1>4, <2>2 DEF Receive, ReceiverTypeOK, RKinds
<1>5. CASE ReadFails
  BY <1>1, <1>2, <1>5 DEF ReadFails, ReceiverTypeOK, RKinds
<1>6. CASE Break
  BY <1>6 DEF Break, ReceiverTypeOK
<1>7. CASE HandleHead
  <2>1. HeaderOf(m_recv_head) \in Messages
    BY <1>7 DEF HandleHead, SignMatches, HeaderOf
  <2>2. size' \in 0 .. SizeModulus - 1
    <3>1. accepted[HeaderOf(m_recv_head)] \in Nat
      <4>1. \A m \in 1..Len(accepted) : accepted[m] \in Sizes
        BY DEF SenderTypeOK
      <4> QED BY <2>1, <4>1, SizesAssumption DEF Messages
    <3>2. \A n \in Nat, d \in Nat \ {0} : n % d \in 0 .. d - 1
      OBVIOUS
    <3>3. Announced(HeaderOf(m_recv_head)) \in 0 .. SizeModulus - 1
      BY <3>1, <3>2, ModulusAssumption DEF Announced
    <3> QED BY <1>7, <3>3 DEF HandleHead
  <2>3. rqueue' \in Seq(RKinds) /\ reading' \in {"none", "head", "body"}
    BY <1>1, <1>2, <1>7 DEF HandleHead, ReadHead, ReadBody, NextR, ReceiverTypeOK
  <2> QED BY <1>7, <2>2, <2>3 DEF HandleHead, ReceiverTypeOK, RKinds
<1>8. CASE HandleBadHead
  BY <1>1, <1>2, <1>3, <1>8 DEF HandleBadHead, NextR
<1>9. CASE HandleBody
  <2>1. rqueue' \in Seq(RKinds) /\ reading' \in {"none", "head", "body"}
    BY <1>1, <1>2, <1>9 DEF HandleBody, NextR, ReadHead, ReceiverTypeOK
  <2> QED BY <1>9, <2>1 DEF HandleBody, ReceiverTypeOK, RKinds
<1>10. CASE Deliver
  <2>1. Received(m_recv_data) \in Nat
    BY DEF Received, Messages, SenderTypeOK
  <2>2. delivered' \in Seq(Nat)
    BY <1>10, <2>1 DEF Deliver, ReceiverTypeOK
  <2> QED BY <1>10, <2>2 DEF Deliver, ReceiverTypeOK
<1>11. CASE HandleReadError
  BY <1>1, <1>3, <1>11 DEF HandleReadError, NextR
<1>12. CASE ReceiverClose
  BY <1>1, <1>2, <1>3, <1>12 DEF ReceiverClose
<1>13. CASE HandleReceiverClose
  <2>1. rqueue' \in Seq(RKinds)
    BY <1>1, <1>2, <1>13 DEF HandleReceiverClose, NextR
  <2> QED BY <1>13, <2>1 DEF HandleReceiverClose, ReceiverTypeOK, RKinds
<1>14. CASE UNCHANGED <<broken, receiver>>
  BY <1>14 DEF ReceiverTypeOK
<1>15. \/ UNCHANGED <<broken, receiver>> \/ ReadFails \/ Break
       \/ \E n \in 1..WireCapacity : Receive(n)
       \/ HandleHead \/ HandleBadHead \/ HandleBody \/ Deliver \/ HandleReadError
       \/ ReceiverClose \/ HandleReceiverClose
  BY AllSteps DEF SendMessage, SenderClose, HandleSend, HandleWrote, HandleWriteError, HandleSenderClose,
     Transfer, WriteFails, vars
<1> QED BY <1>4, <1>5, <1>6, <1>7, <1>8, <1>9, <1>10, <1>11, <1>12, <1>13, <1>14, <1>15

(* At first.                                                               *)
LEMMA InitStream == Init => StreamInv
<1> SUFFICES ASSUME Init PROVE StreamInv
  OBVIOUS
<1>1. ReceiverTypeOK
  <2>1. <<>> \in Seq({"head", "body", "error", "close"}) /\ <<>> \in Seq(Nat)
    OBVIOUS
  <2>2. 0 \in 0 .. SizeModulus - 1
    BY ModulusAssumption
  <2> QED BY <2>1, <2>2 DEF Init, ReceiverTypeOK
<1>2. ~Have("head") /\ ~Have("body")
  BY DEF Init, Have, Has
<1>3. CASE wire = Noise
  <2>1. ~open
    <3>1. 1 \in DOMAIN wire
      BY <1>3, HeadSizeAssumption DEF Noise
    <3>2. DOMAIN <<>> = {}
      OBVIOUS
    <3> QED BY <3>1, <3>2 DEF Init
  <2>2. \A n \in Nat \ {0} : 0 \in 0..(n - 1) /\ n - 0 = n
    OBVIOUS
  <2>3. 0 \in 0..(HeadSize - 1) /\ HeadSize - 0 = HeadSize /\ 1..0 = {}
    BY <2>2, HeadSizeAssumption
  <2>4. \A i \in 1..HeadSize : 0 + i = i
    BY HeadSizeAssumption
  <2>5. m_recv_head = NoiseRead(0)
    BY <2>3 DEF Init, NoiseRead
  <2>6. wire = NoiseLeft(0)
    BY <1>3, <2>3, <2>4 DEF Noise, NoiseLeft
  <2>7. Stranger
    BY <1>2, <2>1, <2>3, <2>5, <2>6 DEF Init, Stranger, OneRead
  <2> QED BY <1>1, <2>7 DEF StreamInv
<1>4. CASE wire = <<>>
  <2>1. Got = 0 /\ ~InBody /\ Len(m_recv_head) = 0 /\ Len(wire) = 0 /\ Len(accepted) = 0
    BY <1>2, <1>4 DEF Init, Got, InBody
  <2>2. LastRead = Byte(Chunk("head", 1), 0)
    BY <2>1 DEF LastRead, Init, Buffer
  <2>3. Failing
    BY DEF Init, Failing, FailsOnly
  <2>4. InFlight
    <3>1. <<>> \in Seq(StreamByte) /\ DOMAIN wire = {}
      BY <1>4
    <3> QED BY <1>4, <2>1, <3>1, WireAssumption DEF InFlight, Flowing, Init
  <2>5. Source
    <3>1. Unframed(0) /\ Listed(0)
      BY <2>1 DEF Unframed, Waiting, Listed, Init
    <3>2. ToWrite(0) = Byte(Chunk("head", 1), 1)
      BY DEF ToWrite, Init
    <3>3. Reaches(wire, LastRead, ToWrite(0))
      <4> DEFINE a == Byte(Chunk("head", 1), 0)
      <4>1. a.at = 0 /\ ChunkSize(a) = HeadSize /\ Byte(a, 1) = Byte(Chunk("head", 1), 1)
        BY ByteParts DEF ChunkSize, Chunk
      <4>2. Apart(a, Byte(Chunk("head", 1), 1), 1)
        <5> HIDE DEF a
        <5> QED BY <4>1, HeadSizeAssumption DEF Apart
      <4> QED BY <1>4, <2>1, <2>2, <3>2, <4>2 DEF Reaches
    <3> QED BY <2>1, <3>1, <3>3 DEF Source
  <2>6. Reading
    BY <1>2 DEF Init, Reading, OneRead
  <2>7. Buffers
    <3>1. m_recv_head = Bytes(Chunk("head", Got + 1), 1, 0) /\ 0 \in 0..(HeadSize - 1)
      <4>1. 0 - 1 + 1 = 0 /\ 1..0 = {} /\ \A n \in Nat \ {0} : 0 \in 0..(n - 1)
        OBVIOUS
      <4> QED BY <4>1, HeadSizeAssumption DEF Bytes, Init
    <3> QED BY <1>2, <2>1, <3>1 DEF Init, Buffers
  <2> QED BY <1>1, <2>3, <2>4, <2>5, <2>6, <2>7 DEF StreamInv, Framed, Init
<1> QED BY <1>3, <1>4 DEF Init

-----------------------------------------------------------------------------
(* A handler is taken from the receiver's queue, or added to it.           *)
LEMMA TakeR ==
  ASSUME NEW q \in Seq(RKinds), q # <<>>
  PROVE  /\ Tail(q) \in Seq(RKinds)
         /\ \A k : Has(q, k) <=> (k = Head(q) \/ Has(Tail(q), k))
         /\ OneRead(q) =>
              /\ OneRead(Tail(q))
              /\ Head(q) \in {"head", "body"} => ~Has(Tail(q), "head") /\ ~Has(Tail(q), "body")
<1> DEFINE t == Tail(q)
<1>1. /\ t \in Seq(RKinds) /\ 1 \in DOMAIN q /\ Head(q) = q[1]
      /\ \A i \in DOMAIN t : i \in Nat \ {0} /\ i + 1 \in DOMAIN q /\ t[i] = q[i + 1]
      /\ \A i \in DOMAIN q : i \in Nat /\ (i # 1 => i - 1 \in DOMAIN t /\ t[i - 1] = q[i])
  OBVIOUS
<1> HIDE DEF t
<1>2. \A k : Has(q, k) <=> (k = Head(q) \/ Has(t, k))
  BY <1>1 DEF Has
<1>3. ASSUME OneRead(q) PROVE OneRead(t)
  <2> SUFFICES ASSUME NEW i \in DOMAIN t, NEW j \in DOMAIN t, t[i] \in {"head", "body"},
                      t[j] \in {"head", "body"}
               PROVE  i = j
    BY DEF OneRead
  <2>1. i + 1 = j + 1
    BY <1>1, <1>3 DEF OneRead
  <2> QED BY <1>1, <2>1
<1>4. ASSUME OneRead(q), Head(q) \in {"head", "body"}, NEW i \in DOMAIN t PROVE t[i] \notin {"head", "body"}
  <2>1. i + 1 # 1
    BY <1>1
  <2> QED BY <1>1, <1>4, <2>1 DEF OneRead
<1>5. OneRead(q) => /\ OneRead(t)
                    /\ Head(q) \in {"head", "body"} => ~Has(t, "head") /\ ~Has(t, "body")
  BY <1>3, <1>4 DEF Has
<1> QED BY <1>1, <1>2, <1>5 DEF t

(* Adding one at the end.                                                  *)
LEMMA AddR ==
  ASSUME NEW q \in Seq(RKinds), NEW h \in RKinds
  PROVE  /\ Append(q, h) \in Seq(RKinds)
         /\ \A k : Has(Append(q, h), k) <=> (k = h \/ Has(q, k))
         /\ OneRead(q) /\ (h \in {"head", "body"} => ~Has(q, "head") /\ ~Has(q, "body")) =>
              OneRead(Append(q, h))
<1> DEFINE a == Append(q, h)
           n == Len(q) + 1
<1>1. /\ a \in Seq(RKinds) /\ n \notin DOMAIN q /\ DOMAIN a = DOMAIN q \cup {n} /\ a[n] = h
      /\ \A i \in DOMAIN q : a[i] = q[i]
  OBVIOUS
<1> HIDE DEF a, n
<1>2. \A k : Has(a, k) <=> (k = h \/ Has(q, k))
  BY <1>1 DEF Has
<1>3. OneRead(q) /\ (h \in {"head", "body"} => ~Has(q, "head") /\ ~Has(q, "body")) => OneRead(a)
  BY <1>1 DEF OneRead, Has
<1> QED BY <1>1, <1>2, <1>3 DEF a

(* What a step of the receiver leaves alone.                               *)
LEMMA SenderKept ==
  ASSUME UNCHANGED sender
  PROVE  /\ \A f : (Unframed(f)' <=> Unframed(f)) /\ (Listed(f)' <=> Listed(f)) /\ ToWrite(f)' = ToWrite(f)
         /\ StreamByte' = StreamByte /\ Messages' = Messages
         /\ \A w, a : Flowing(w, a)' <=> Flowing(w, a)
         /\ \A w, a, b : Reaches(w, a, b)' <=> Reaches(w, a, b)
         /\ \A c : ChunkSize(c)' = ChunkSize(c)
         /\ \A c : Whole(c)' = Whole(c)
<1>1. UNCHANGED <<accepted, squeue, m_send_data_list, writing, done>>
  BY DEF sender
<1> QED BY <1>1 DEF Unframed, Listed, ToWrite, StreamByte, Messages, Flowing, Reaches, Apart, ChunkSize, Whole

(* The stream is as before if the last byte read is.                       *)
LEMMA SameStream ==
  ASSUME Failing, InFlight, Source, UNCHANGED <<sender, wire, broken, ropen>>,
         ~broken => LastRead' = LastRead
  PROVE  Failing' /\ InFlight' /\ Source'
<1>1. UNCHANGED <<accepted, open, squeue, m_send_data_list, writing, done>>
  BY DEF sender
<1>2. Failing'
  BY <1>1 DEF Failing, FailsOnly
<1>3. InFlight'
  BY <1>1 DEF InFlight, StreamByte, Messages, ChunkSize, Flowing, Apart
<1>4. Source'
  BY <1>1 DEF Source, Unframed, Listed, ToWrite, Reaches, Apart, ChunkSize
<1> QED BY <1>2, <1>3, <1>4

(* Nothing is in flight on a connection that is reset.                     *)
LEMMA BrokenStream ==
  ASSUME Failing, UNCHANGED sender, wire' = <<>>, broken' = TRUE
  PROVE  Failing' /\ InFlight' /\ Source'
<1>1. UNCHANGED <<accepted, open, squeue, m_send_data_list, writing, done>>
  BY DEF sender
<1>2. <<>> \in Seq(StreamByte') /\ Len(<<>>) = 0
  OBVIOUS
<1> QED BY <1>1, <1>2, WireAssumption DEF Failing, FailsOnly, InFlight, Source

(* A chunk read whole tells its message.                                   *)
LEMMA WholeTells ==
  ASSUME SenderTypeOK, NEW part \in {"head", "body"}, NEW a \in Messages, NEW b \in Messages,
         Whole(Chunk(part, a)) = Whole(Chunk(part, b))
  PROVE  a = b
<1>1. ASSUME NEW m \in Messages PROVE 1 \in DOMAIN Whole(Chunk(part, m)) /\ Whole(Chunk(part, m))[1].m = m
  <2> DEFINE ch == Chunk(part, m)
             n == ChunkSize(Chunk(part, m))
  <2>1. ch.m = m /\ ch.part = part
    BY DEF Chunk
  <2>2. n \in Nat \ {0}
    BY <2>1, ChunkSizes
  <2> HIDE DEF n, ch
  <2>3. n - 1 + 1 = n /\ 1 + 1 - 1 = 1 /\ 1 \in 1..n
    BY <2>2
  <2>4. Whole(ch) = [i \in 1..n |-> Byte(ch, 1 + i - 1)]
    BY <2>3 DEF Whole, Bytes, n, ch
  <2>5. 1 \in DOMAIN Whole(ch) /\ Whole(ch)[1] = Byte(ch, 1)
    BY <2>3, <2>4
  <2> QED BY <2>1, <2>5, ByteParts DEF ch
<1> QED BY <1>1

(* No byte of a chunk is read yet.                                         *)
LEMMA NoBytes ==
  ASSUME NEW ch
  PROVE  Bytes(ch, 1, 0) = <<>>
<1>1. 0 - 1 + 1 = 0 /\ 1..0 = {}
  OBVIOUS
<1> QED BY <1>1 DEF Bytes

(* A header is always right.                                               *)
LEMMA HeaderRight ==
  ASSUME SenderTypeOK, ReceiverTypeOK, Framed, NextR("head")
  PROVE  /\ SignMatches(m_recv_head) /\ HeaderOf(m_recv_head) = Got + 1 /\ Got + 1 \in Messages
         /\ reading = "none" /\ rpc \in {"idle"} /\ Got = Len(delivered) /\ InBody /\ Have("head")
         /\ ~Have("body") /\ Tail(rqueue) \in Seq(RKinds) /\ OneRead(Tail(rqueue))
         /\ ~Has(Tail(rqueue), "head") /\ ~Has(Tail(rqueue), "body")
<1>1. rqueue \in Seq(RKinds) /\ rqueue # <<>> /\ Head(rqueue) = "head" /\ rpc = "idle" /\ OneRead(rqueue)
  BY DEF ReceiverTypeOK, RKinds, NextR, Framed, Reading
<1>2. /\ Tail(rqueue) \in Seq(RKinds) /\ OneRead(Tail(rqueue))
      /\ ~Has(Tail(rqueue), "head") /\ ~Has(Tail(rqueue), "body")
      /\ Have("head") /\ ~Have("body")
  BY <1>1, TakeR DEF Have
<1>3. reading = "none" /\ Got = Len(delivered) /\ InBody
  BY <1>1, <1>2 DEF Framed, Reading, Got, InBody, ReceiverTypeOK
<1>4. Got < Len(accepted) /\ m_recv_head = Whole(Chunk("head", Got + 1))
  BY <1>2, <1>3 DEF Framed, Buffers
<1>5. Got \in Nat /\ Len(accepted) \in Nat
  BY <1>3 DEF ReceiverTypeOK, SenderTypeOK
<1>6. Got + 1 \in Messages
  BY <1>4, <1>5 DEF Messages
<1>7. SignMatches(m_recv_head)
  BY <1>4, <1>6 DEF SignMatches
<1>8. HeaderOf(m_recv_head) \in Messages /\ m_recv_head = Whole(Chunk("head", HeaderOf(m_recv_head)))
  BY <1>7 DEF SignMatches, HeaderOf
<1>9. HeaderOf(m_recv_head) = Got + 1
  BY <1>4, <1>6, <1>8, WholeTells
<1> QED BY <1>1, <1>2, <1>3, <1>6, <1>7, <1>9

(* A header: the read of the body it announces.                            *)
LEMMA HandleHeadFramed ==
  ASSUME Announceable, SenderTypeOK, ReceiverTypeOK, Framed, HandleHead
  PROVE  Framed'
<1>1. NextR("head")
  BY DEF HandleHead
<1>2. /\ HeaderOf(m_recv_head) = Got + 1 /\ Got + 1 \in Messages
      /\ reading = "none" /\ rpc = "idle" /\ Got = Len(delivered) /\ InBody
      /\ Tail(rqueue) \in Seq(RKinds) /\ OneRead(Tail(rqueue))
      /\ ~Has(Tail(rqueue), "head") /\ ~Has(Tail(rqueue), "body")
  BY <1>1, HeaderRight
<1>4. Got \in Nat /\ Got + 1 \in 1..Len(accepted) /\ Len(accepted) \in Nat
  BY <1>2 DEF ReceiverTypeOK, SenderTypeOK, Messages
<1>8. Announced(Got + 1) = accepted[Got + 1] /\ Announced(Got + 1) # 0
  <2>1. accepted[Got + 1] \in Sizes
    BY <1>4 DEF SenderTypeOK
  <2>2. \A n \in Nat, d \in Nat \ {0} : n < d => n % d = n
    OBVIOUS
  <2> QED BY <2>1, <2>2, SizesAssumption, ModulusAssumption DEF Announced, Announceable
<1>3. /\ UNCHANGED <<sender, wire, broken, ropen, rpc, m_recv_head, delivered, signErrors>>
      /\ accepted' = accepted /\ size' = accepted[Got + 1]
      /\ ReadBody(Tail(rqueue))
  BY <1>2, <1>8 DEF HandleHead, sender
<1>5. \A i \in DOMAIN delivered : delivered[i] = i
  BY DEF Framed, Buffers
<1>6. CASE ropen
  <2>1. reading' = "body" /\ m_recv_data' = <<>> /\ rqueue' = Tail(rqueue)
    BY <1>3, <1>6 DEF ReadBody
  <2>2. ~Have("head")' /\ ~Have("body")' /\ OneRead(rqueue')
    BY <1>2, <2>1 DEF Have
  <2>3. Got' = Got /\ InBody'
    BY <1>2, <1>3, <2>1, <2>2 DEF Got, InBody
  <2>4. LastRead' = LastRead
    BY <1>2, <1>3, <2>1, <2>2, <2>3 DEF LastRead, Buffer
  <2>5. Failing' /\ InFlight' /\ Source'
    BY <1>3, <2>4, SameStream DEF Framed
  <2>6. Reading'
    BY <1>2, <1>3, <2>1, <2>2 DEF Reading, OneRead
  <2>7. Buffers'
    <3>1. size' \in Nat \ {0}
      <4>1. accepted[Got + 1] \in Sizes
        <5>1. \A m \in 1..Len(accepted) : accepted[m] \in Sizes
          BY DEF SenderTypeOK
        <5> QED BY <1>4, <5>1
      <4> QED BY <1>3, <4>1, SizesAssumption
    <3>2. 0 \in 0..(size' - 1)
      <4>1. \A n \in Nat \ {0} : 0 \in 0..(n - 1)
        OBVIOUS
      <4> QED BY <3>1, <4>1
    <3>3. m_recv_data' = Bytes(Chunk("body", Got + 1), 1, 0)
      BY <2>1, NoBytes
    <3>4. \E k \in 0..(size' - 1) : m_recv_data' = Bytes(Chunk("body", Got + 1), 1, k)
      BY <3>2, <3>3
    <3>5. Got < Len(accepted) /\ Got <= Len(accepted)
      BY <1>4
    <3>6. \E k \in 0..(size' - 1) : m_recv_data' = Bytes(Chunk("body", Got' + 1), 1, k)
      BY <2>3, <3>4
    <3> QED BY <1>2, <1>3, <1>5, <2>1, <2>2, <2>3, <3>5, <3>6 DEF Buffers, Bytes, Byte, Chunk
  <2> QED BY <1>3, <2>5, <2>6, <2>7 DEF Framed
<1>7. CASE ~ropen
  <2>1. rqueue' = Append(Tail(rqueue), "error") /\ reading' = "none" /\ m_recv_data' = m_recv_data
    BY <1>2, <1>3, <1>7 DEF ReadBody
  <2>2. ~Have("head")' /\ ~Have("body")' /\ OneRead(rqueue')
    BY <1>2, <2>1, AddR DEF Have, RKinds
  <2>3. Got' = Got /\ ~InBody'
    BY <1>2, <1>3, <2>1, <2>2 DEF Got, InBody
  <2>4. broken
    BY <1>7 DEF Framed, InFlight
  <2>5. Failing' /\ InFlight' /\ Source'
    BY <1>3, <2>4, SameStream DEF Framed
  <2>6. Reading'
    BY <1>2, <1>3, <2>1, <2>2 DEF Reading, OneRead
  <2>7. Got <= Len(accepted)
    BY <1>4
  <2>8. Buffers'
    BY <1>2, <1>3, <1>5, <2>1, <2>2, <2>3, <2>7 DEF Buffers
  <2> QED BY <1>3, <2>5, <2>6, <2>8 DEF Framed
<1> QED BY <1>6, <1>7

(* A body: the read of the next header.                                    *)
LEMMA HandleBodyFramed ==
  ASSUME SenderTypeOK, ReceiverTypeOK, Framed, HandleBody
  PROVE  Framed'
<1>1. rqueue \in Seq(RKinds) /\ rqueue # <<>> /\ Head(rqueue) = "body" /\ rpc = "idle" /\ OneRead(rqueue)
  BY DEF ReceiverTypeOK, RKinds, HandleBody, NextR, Framed, Reading
<1>2. /\ Tail(rqueue) \in Seq(RKinds) /\ OneRead(Tail(rqueue))
      /\ ~Has(Tail(rqueue), "head") /\ ~Has(Tail(rqueue), "body")
      /\ Have("body") /\ ~Have("head")
  BY <1>1, TakeR DEF Have
<1>3. reading = "none" /\ Got = Len(delivered) + 1 /\ ~InBody
  BY <1>1, <1>2 DEF Framed, Reading, Got, InBody
<1>4. /\ UNCHANGED <<sender, wire, broken, ropen, m_recv_data, size, delivered, signErrors>>
      /\ accepted' = accepted /\ rpc' = "deliver"
  BY DEF HandleBody, sender
<1>5. \A i \in DOMAIN delivered : delivered[i] = i
  BY DEF Framed, Buffers
<1>6. Got <= Len(accepted) /\ m_recv_data = Whole(Chunk("body", Got))
  BY <1>2 DEF Framed, Buffers
<1>7. m_recv_data' = Whole(Chunk("body", Got))'  <=> m_recv_data = Whole(Chunk("body", Got'))
  BY <1>4 DEF Whole, Bytes, ChunkSize
<1>8. CASE ropen
  <2>1. reading' = "head" /\ m_recv_head' = <<>> /\ rqueue' = Tail(rqueue)
    BY <1>8 DEF HandleBody, ReadHead
  <2>2. ~Have("head")' /\ ~Have("body")' /\ OneRead(rqueue')
    BY <1>2, <2>1 DEF Have
  <2>3. Got' = Got /\ ~InBody'
    BY <1>3, <1>4, <2>1, <2>2 DEF Got, InBody
  <2>4. LastRead' = LastRead
    BY <1>3, <1>4, <2>1, <2>2, <2>3 DEF LastRead, Buffer
  <2>5. Failing' /\ InFlight' /\ Source'
    BY <1>4, <2>4, SameStream DEF Framed
  <2>6. Reading'
    BY <1>4, <2>1, <2>2 DEF Reading, OneRead
  <2>7. m_recv_head' = Bytes(Chunk("head", Got' + 1), 1, 0) /\ 0 \in 0..(HeadSize - 1)
    <3>1. \A n \in Nat \ {0} : 0 \in 0..(n - 1)
      OBVIOUS
    <3> QED BY <2>1, <3>1, NoBytes, HeadSizeAssumption
  <2>8. Buffers'
    BY <1>4, <1>5, <1>6, <1>7, <2>1, <2>2, <2>3, <2>7 DEF Buffers, Bytes, Byte, Chunk
  <2> QED BY <1>4, <2>5, <2>6, <2>8 DEF Framed
<1>9. CASE ~ropen
  <2>1. rqueue' = Append(Tail(rqueue), "error") /\ reading' = "none" /\ m_recv_head' = m_recv_head
    BY <1>3, <1>9 DEF HandleBody, ReadHead
  <2>2. ~Have("head")' /\ ~Have("body")' /\ OneRead(rqueue')
    BY <1>2, <2>1, AddR DEF Have, RKinds
  <2>3. Got' = Got /\ ~InBody'
    BY <1>3, <1>4, <2>1, <2>2 DEF Got, InBody
  <2>4. broken
    BY <1>9 DEF Framed, InFlight
  <2>5. Failing' /\ InFlight' /\ Source'
    BY <1>4, <2>4, SameStream DEF Framed
  <2>6. Reading'
    BY <1>4, <2>1, <2>2 DEF Reading, OneRead
  <2>7. Buffers'
    BY <1>4, <1>5, <1>6, <1>7, <2>1, <2>2, <2>3 DEF Buffers
  <2> QED BY <1>4, <2>5, <2>6, <2>7 DEF Framed
<1> QED BY <1>8, <1>9

(* What is delivered is the next message.                                  *)
LEMMA DeliverNext ==
  ASSUME SenderTypeOK, ReceiverTypeOK, Framed, Deliver
  PROVE  /\ delivered' = Append(delivered, Len(delivered) + 1)
         /\ Len(delivered) < Len(accepted) /\ Got = Len(delivered) + 1
<1>1. rpc = "deliver" /\ Got = Len(delivered) + 1
  BY DEF Deliver, Got
<1>2. Got <= Len(accepted) /\ m_recv_data = Whole(Chunk("body", Got))
  BY <1>1 DEF Framed, Buffers
<1>3. Len(delivered) \in Nat /\ Len(accepted) \in Nat
  BY DEF ReceiverTypeOK, SenderTypeOK
<1>4. Got \in Messages /\ Len(delivered) < Len(accepted)
  BY <1>1, <1>2, <1>3 DEF Messages
<1>5. Received(m_recv_data) \in Messages /\ m_recv_data = Whole(Chunk("body", Received(m_recv_data)))
  BY <1>2, <1>4 DEF Received
<1>6. Received(m_recv_data) = Got
  BY <1>2, <1>4, <1>5, WholeTells
<1> QED BY <1>1, <1>4, <1>6 DEF Deliver

(* on_etcp_recv.                                                           *)
LEMMA DeliverFramed ==
  ASSUME SenderTypeOK, ReceiverTypeOK, Framed, Deliver
  PROVE  Framed'
<1> DEFINE n == Len(delivered) + 1
<1>1. delivered' = Append(delivered, n) /\ Got = n /\ delivered \in Seq(Nat) /\ n \in Nat
  BY DeliverNext DEF ReceiverTypeOK
<1>2. Len(delivered') = n /\ \A i \in DOMAIN delivered' : delivered'[i] = i
  <2>1. \A i \in DOMAIN delivered : delivered[i] = i
    BY DEF Framed, Buffers
  <2> QED BY <1>1, <2>1
<1>3. /\ rpc = "deliver" /\ rpc' = "idle" /\ accepted' = accepted
      /\ UNCHANGED <<sender, wire, broken, ropen, rqueue, reading, m_recv_head, size, signErrors>>
  BY DEF Deliver, sender
<1> HIDE DEF n
<1>4. ~Have("body") /\ reading # "body" /\ (Have("head")' <=> Have("head")) /\ ~Have("body")'
  BY <1>3 DEF Framed, Reading, Have
<1>5. Got' = Got /\ (InBody' <=> InBody)
  BY <1>1, <1>2, <1>3, <1>4 DEF Got, InBody
<1>6. LastRead' = LastRead
  <2>1. (reading = "none" \/ reading = "head") /\ reading' = reading /\ m_recv_head' = m_recv_head
    BY <1>3, <1>4 DEF ReceiverTypeOK
  <2>2. (IF reading' = "none" THEN 0 ELSE Len(Buffer')) = (IF reading = "none" THEN 0 ELSE Len(Buffer))
    BY <2>1 DEF Buffer
  <2> QED BY <1>5, <2>2 DEF LastRead
<1>7. Failing' /\ InFlight' /\ Source'
  BY <1>3, <1>6, SameStream DEF Framed
<1>8. Reading'
  BY <1>3, <1>4 DEF Framed, Reading, OneRead
<1>9. Buffers'
  BY <1>2, <1>3, <1>4, <1>5 DEF Framed, Buffers, Whole, Bytes, ChunkSize
<1> QED BY <1>3, <1>7, <1>8, <1>9 DEF Framed

(* The receiver's other handlers: the queue changes, what is read stays.   *)
LEMMA QueueOnly ==
  ASSUME Reading, Buffers, UNCHANGED <<accepted, rpc, reading, m_recv_head, m_recv_data, size, delivered>>,
         Have("head")' <=> Have("head"), Have("body")' <=> Have("body"), OneRead(rqueue')
  PROVE  Reading' /\ Buffers' /\ LastRead' = LastRead
<1>1. Got' = Got /\ (InBody' <=> InBody)
  BY DEF Got, InBody
<1>2. LastRead' = LastRead
  BY <1>1 DEF LastRead, Buffer
<1>3. Reading'
  BY DEF Reading, OneRead
<1>4. Buffers'
  BY <1>1 DEF Buffers, Whole, Bytes, ChunkSize
<1> QED BY <1>2, <1>3, <1>4

(* The same for a read that is given up.                                   *)
LEMMA ReadDropped ==
  ASSUME Reading, Buffers, UNCHANGED <<accepted, rpc, m_recv_head, m_recv_data, size, delivered>>,
         reading' = "none", Have("head")' <=> Have("head"), Have("body")' <=> Have("body"), OneRead(rqueue')
  PROVE  Reading' /\ Buffers'
<1>1. Got' = Got /\ (InBody' => InBody)
  BY DEF Got, InBody
<1>3. Reading'
  BY DEF Reading, OneRead
<1>4. Buffers'
  BY <1>1 DEF Buffers, Whole, Bytes, ChunkSize
<1> QED BY <1>3, <1>4

(* A failed read.                                                          *)
LEMMA HandleReadErrorFramed ==
  ASSUME ReceiverTypeOK, Framed, HandleReadError
  PROVE  Framed'
<1>1. rqueue \in Seq(RKinds) /\ rqueue # <<>> /\ Head(rqueue) = "error" /\ OneRead(rqueue)
  BY DEF ReceiverTypeOK, RKinds, HandleReadError, NextR, Framed, Reading
<1>2. rqueue' = Tail(rqueue) /\ UNCHANGED <<sender, wire, broken, ropen, rpc, reading, m_recv_head,
                   m_recv_data, size, delivered, signErrors>> /\ accepted' = accepted
  BY DEF HandleReadError, sender
<1>3. (Have("head")' <=> Have("head")) /\ (Have("body")' <=> Have("body")) /\ OneRead(rqueue')
  BY <1>1, <1>2, TakeR DEF Have
<1>4. Reading' /\ Buffers' /\ LastRead' = LastRead
  BY <1>2, <1>3, QueueOnly DEF Framed
<1>5. Failing' /\ InFlight' /\ Source'
  BY <1>2, <1>4, SameStream DEF Framed
<1> QED BY <1>2, <1>4, <1>5 DEF Framed

(* close() at the receiver.                                                *)
LEMMA ReceiverCloseFramed ==
  ASSUME ReceiverTypeOK, Framed, ReceiverClose
  PROVE  Framed'
<1>1. rqueue \in Seq(RKinds) /\ OneRead(rqueue) /\ "close" \in RKinds
  BY DEF ReceiverTypeOK, RKinds, Framed, Reading
<1>2. rqueue' = Append(rqueue, "close") /\ UNCHANGED <<sender, wire, broken, ropen, rpc, reading, m_recv_head,
                   m_recv_data, size, delivered, signErrors>> /\ accepted' = accepted
  BY DEF ReceiverClose, sender
<1>3. (Have("head")' <=> Have("head")) /\ (Have("body")' <=> Have("body")) /\ OneRead(rqueue')
  BY <1>1, <1>2, AddR DEF Have
<1>4. Reading' /\ Buffers' /\ LastRead' = LastRead
  BY <1>2, <1>3, QueueOnly DEF Framed
<1>5. Failing' /\ InFlight' /\ Source'
  BY <1>2, <1>4, SameStream DEF Framed
<1> QED BY <1>2, <1>4, <1>5 DEF Framed

(* What it posts.                                                          *)
LEMMA HandleReceiverCloseFramed ==
  ASSUME ReceiverTypeOK, Framed, HandleReceiverClose
  PROVE  Framed'
<1>1. rqueue \in Seq(RKinds) /\ rqueue # <<>> /\ Head(rqueue) = "close" /\ OneRead(rqueue) /\ "error" \in RKinds
  BY DEF ReceiverTypeOK, RKinds, HandleReceiverClose, NextR, Framed, Reading
<1>2. /\ UNCHANGED <<sender, rpc, m_recv_head, m_recv_data, size, delivered, signErrors>> /\ accepted' = accepted
      /\ reading' = "none" /\ broken' = TRUE /\ wire' = <<>>
      /\ rqueue' = Tail(rqueue) \/ rqueue' = Append(Tail(rqueue), "error")
  BY DEF HandleReceiverClose, sender
<1>3. Tail(rqueue) \in Seq(RKinds) /\ (Has(Tail(rqueue), "head") <=> Have("head"))
      /\ (Has(Tail(rqueue), "body") <=> Have("body")) /\ OneRead(Tail(rqueue))
  BY <1>1, TakeR DEF Have
<1>4. (Have("head")' <=> Have("head")) /\ (Have("body")' <=> Have("body")) /\ OneRead(rqueue')
  <2>1. CASE rqueue' = Tail(rqueue)
    BY <1>3, <2>1 DEF Have
  <2>2. CASE rqueue' = Append(Tail(rqueue), "error")
    BY <1>1, <1>3, <2>2, AddR DEF Have
  <2> QED BY <1>2, <2>1, <2>2
<1>5. Reading' /\ Buffers'
  BY <1>2, <1>4, ReadDropped DEF Framed
<1>6. Failing' /\ InFlight' /\ Source'
  BY <1>2, BrokenStream DEF Framed
<1> QED BY <1>2, <1>5, <1>6 DEF Framed

(* A reset.                                                                *)
LEMMA BreakFramed ==
  ASSUME ReceiverTypeOK, Framed, Break
  PROVE  Framed'
<1>1. /\ UNCHANGED <<sender, ropen, rqueue, rpc, reading, m_recv_head, m_recv_data, size, delivered, signErrors>>
      /\ accepted' = accepted /\ broken' = TRUE /\ wire' = <<>>
  BY DEF Break, sender, receiver
<1>2. (Have("head")' <=> Have("head")) /\ (Have("body")' <=> Have("body")) /\ OneRead(rqueue')
  BY <1>1 DEF Have, Framed, Reading
<1>3. Reading' /\ Buffers'
  BY <1>1, <1>2, QueueOnly DEF Framed
<1>4. Failing' /\ InFlight' /\ Source'
  BY <1>1, BrokenStream DEF Framed
<1> QED BY <1>1, <1>3, <1>4 DEF Framed

(* A read that meets the reset or the end.                                 *)
LEMMA ReadFailsFramed ==
  ASSUME ReceiverTypeOK, Framed, ReadFails
  PROVE  Framed'
<1>1. rqueue \in Seq(RKinds) /\ OneRead(rqueue) /\ "error" \in RKinds
  BY DEF ReceiverTypeOK, RKinds, Framed, Reading
<1>2. /\ UNCHANGED <<sender, wire, broken, ropen, rpc, m_recv_head, m_recv_data, size, delivered, signErrors>>
      /\ reading' = "none" /\ rqueue' = Append(rqueue, "error")
      /\ UNCHANGED <<accepted, open, squeue, m_send_data_list, writing, done>>
  BY DEF ReadFails, sender
<1>3. (Have("head")' <=> Have("head")) /\ (Have("body")' <=> Have("body")) /\ OneRead(rqueue')
  BY <1>1, <1>2, AddR DEF Have
<1>4. Reading' /\ Buffers'
  BY <1>2, <1>3, ReadDropped DEF Framed
<1>5. CASE broken
  <2>1. Failing' /\ InFlight' /\ Source'
    BY <1>2, <1>5, SameStream DEF Framed
  <2> QED BY <1>2, <1>4, <2>1 DEF Framed
<1>6. CASE ~open /\ wire = <<>>
  <2>1. Failing'
    BY <1>2 DEF Framed, Failing, FailsOnly
  <2>2. wire' = <<>> /\ DOMAIN wire' = {} /\ wire' \in Seq(StreamByte')
    BY <1>2, <1>6
  <2>3. \A a : Flowing(wire, a)'
    BY <2>2 DEF Flowing
  <2>4. InFlight'
    BY <1>2, <2>2, <2>3 DEF Framed, InFlight, Flowing
  <2>5. Source'
    BY <1>2, <1>6 DEF Source
  <2> QED BY <1>2, <1>4, <2>1, <2>4, <2>5 DEF Framed
<1> QED BY <1>5, <1>6 DEF ReadFails

(* No header is wrong.                                                     *)
LEMMA NoBadHead ==
  ASSUME SenderTypeOK, ReceiverTypeOK, Framed
  PROVE  ~HandleBadHead
BY HeaderRight DEF HandleBadHead

-----------------------------------------------------------------------------
(* The bytes of a chunk that a buffer has, and what a read adds.           *)
LEMMA BytesFrom ==
  ASSUME NEW ch, NEW k \in Nat
  PROVE  Bytes(ch, 1, k) = [i \in 1..k |-> Byte(ch, i)] /\ Len(Bytes(ch, 1, k)) = k
<1>1. k - 1 + 1 = k /\ \A i \in 1..k : 1 + i - 1 = i
  OBVIOUS
<1>2. Bytes(ch, 1, k) = [i \in 1..k |-> Byte(ch, i)]
  BY <1>1 DEF Bytes
<1> QED BY <1>2

(* w begins with the n bytes of ch that come after its first k.            *)
Continues(w, ch, k, n) ==
    /\ w \in Seq(StreamByte) /\ k \in Nat /\ n \in 1..Len(w)
    /\ \A j \in 1..n : w[j] = Byte(ch, k + j)

Filled(b, w, n) == b \o SubSeq(w, 1, n)

LEMMA BufferGrows ==
  ASSUME NEW w, NEW ch, NEW k, NEW n, Continues(w, ch, k, n)
  PROVE  Filled(Bytes(ch, 1, k), w, n) = Bytes(ch, 1, k + n)
<1> USE DEF Continues
<1> DEFINE T == StreamByte \cup {Byte(ch, i) : i \in Nat}
           b == Bytes(ch, 1, k)
           u == SubSeq(w, 1, n)
           c == Bytes(ch, 1, k + n)
<1>1. w \in Seq(T) /\ n \in Nat /\ n <= Len(w)
  OBVIOUS
<1>2. b = [i \in 1..k |-> Byte(ch, i)] /\ c = [i \in 1..(k + n) |-> Byte(ch, i)]
  BY <1>1, BytesFrom
<1>3. u = [i \in 1..n |-> w[i]]
  BY <1>1
<1> HIDE DEF T, b, u, c
<1>4. b \in Seq(T) /\ Len(b) = k
  <2>1. b \in [1..k -> T]
    BY <1>2 DEF T
  <2> QED BY <1>2, <2>1
<1>5. c \in Seq(T) /\ Len(c) = k + n
  <2>1. c \in [1..(k + n) -> T] /\ k + n \in Nat
    BY <1>1, <1>2 DEF T
  <2> QED BY <1>2, <2>1
<1>6. u \in Seq(T) /\ Len(u) = n
  <2>1. u \in [1..n -> T]
    BY <1>1, <1>3
  <2> QED BY <1>1, <1>3, <2>1
<1>7. b \o u \in Seq(T)
  BY <1>4, <1>6, ConcatProperties, Zenon
<1>8. Len(b \o u) = Len(b) + Len(u)
  BY <1>4, <1>6, ConcatProperties, Zenon
<1>9. \A i \in 1..(Len(b) + Len(u)) : (b \o u)[i] = IF i <= Len(b) THEN b[i] ELSE u[i - Len(b)]
  BY <1>4, <1>6, ConcatProperties, Zenon
<1>10. \A i \in 1..(k + n) : (b \o u)[i] = c[i]
  <2> SUFFICES ASSUME NEW i \in 1..(k + n) PROVE (b \o u)[i] = c[i]
    OBVIOUS
  <2>1. (b \o u)[i] = IF i <= k THEN b[i] ELSE u[i - k]
    BY <1>4, <1>6, <1>9
  <2>2. c[i] = Byte(ch, i)
    BY <1>2
  <2>3. CASE i <= k
    <3>1. i \in 1..k
      BY <2>3
    <3> QED BY <1>2, <2>1, <2>2, <2>3, <3>1
  <2>4. CASE ~(i <= k)
    <3>1. i - k \in 1..n /\ k + (i - k) = i
      BY <1>1, <2>4
    <3>2. u[i - k] = Byte(ch, k + (i - k))
      BY <1>3, <3>1
    <3> QED BY <2>1, <2>2, <2>4, <3>1, <3>2
  <2> QED BY <2>3, <2>4
<1>11. b \o u = c
  <2>1. Len(b \o u) = Len(c) /\ Len(c) = k + n
    BY <1>4, <1>5, <1>6, <1>8
  <2>2. \A i \in 1..Len(b \o u) : (b \o u)[i] = c[i]
    BY <1>10, <2>1
  <2> QED BY <1>5, <1>7, <2>1, <2>2, SeqEqual
<1> QED BY <1>11 DEF b, u, c, Filled

(* What a read leaves on its way.                                          *)
LEMMA Rest ==
  ASSUME NEW S, NEW w \in Seq(S), NEW n \in 1..Len(w)
  PROVE  /\ SubSeq(w, n + 1, Len(w)) \in Seq(S)
         /\ Len(SubSeq(w, n + 1, Len(w))) = Len(w) - n
         /\ DOMAIN SubSeq(w, n + 1, Len(w)) = 1..(Len(w) - n)
         /\ \A j \in 1..(Len(w) - n) : SubSeq(w, n + 1, Len(w))[j] = w[n + j]
<1> DEFINE l == Len(w)
           v == SubSeq(w, n + 1, Len(w))
<1>1. l \in Nat /\ n \in Nat /\ l - n \in Nat
  OBVIOUS
<1>2. v = [i \in 1..(l - n) |-> w[n + i]]
  <2>1. l - (n + 1) + 1 = l - n /\ \A i \in 1..(l - n) : (n + 1) + i - 1 = n + i
    BY <1>1
  <2> QED BY <1>1, <2>1
<1>3. \A i \in 1..(l - n) : n + i \in 1..l /\ w[n + i] \in S
  BY <1>1
<1> HIDE DEF l, v
<1>4. v \in [1..(l - n) -> S]
  BY <1>2, <1>3
<1>5. v \in Seq(S) /\ Len(v) = l - n
  BY <1>1, <1>4
<1> QED BY <1>1, <1>2, <1>5 DEF l, v

(* A read takes the next bytes of the chunk it is in ...                   *)
LEMMA ReceiveBytes ==
  ASSUME SenderTypeOK, InFlight, ~broken, NEW ch, NEW k \in Nat, NEW n \in 1..Len(wire),
         LastRead = Byte(ch, k), ChunkSize(ch) \in Nat, k + n <= ChunkSize(ch)
  PROVE  Continues(wire, ch, k, n) /\ ch.m \in Messages
<1>1. wire \in Seq(StreamByte) /\ Flowing(wire, Byte(ch, k))
  BY DEF InFlight
<1>2. \A j \in 1..n : wire[j] = Byte(ch, k + j)
  <2> SUFFICES ASSUME NEW j \in 1..n PROVE wire[j] = Byte(ch, k + j)
    OBVIOUS
  <2>1. j \in DOMAIN wire /\ k + j <= ChunkSize(ch)
    BY <1>1
  <2>2. Apart(Byte(ch, k), wire[j], j)
    BY <1>1, <2>1 DEF Flowing
  <2> QED BY <2>1, <2>2, ByteParts DEF Apart
<1>3. 1 \in 1..n /\ wire[1] \in StreamByte
  BY <1>1
<1>4. wire[1].m = ch.m
  BY <1>2, <1>3, ByteParts
<1> QED BY <1>1, <1>2, <1>3, <1>4, StreamBytes DEF Continues

(* ... and the rest follows.                                               *)
LEMMA ReceiveFlow ==
  ASSUME SenderTypeOK, Failing, InFlight, Source, ~broken, UNCHANGED <<sender, broken, ropen>>,
         NEW ch, NEW k \in Nat, NEW n \in 1..Len(wire),
         LastRead = Byte(ch, k), ChunkSize(ch) \in Nat, k + n <= ChunkSize(ch),
         wire' = SubSeq(wire, n + 1, Len(wire)),
         LastRead' = IF k + n < ChunkSize(ch) THEN Byte(ch, k + n) ELSE Byte(NextChunk(ch), 0)
  PROVE  Failing' /\ InFlight' /\ Source'
<1>1. wire \in Seq(StreamByte) /\ Flowing(wire, Byte(ch, k)) /\ Len(wire) <= WireCapacity
  BY DEF InFlight
<1> DEFINE first == Byte(ch, k)
           next == IF k + n < ChunkSize(ch) THEN Byte(ch, k + n) ELSE Byte(NextChunk(ch), 0)
           v == SubSeq(wire, n + 1, Len(wire))
<1>2. first.at = k /\ ChunkSize(first) = ChunkSize(ch) /\ NextChunk(first) = NextChunk(ch)
      /\ \A i : Byte(first, i) = Byte(ch, i)
  BY ByteParts
<1>3. /\ v \in Seq(StreamByte) /\ Len(v) = Len(wire) - n /\ DOMAIN v = 1..(Len(wire) - n)
      /\ \A j \in 1..(Len(wire) - n) : v[j] = wire[n + j]
  BY <1>1, Rest
<1>4. next = IF first.at + n < ChunkSize(first) THEN Byte(first, first.at + n)
             ELSE Byte(NextChunk(first), 0)
  BY <1>2
<1>5. first.at \in Nat /\ ChunkSize(first) \in Nat /\ first.at + n <= ChunkSize(first) /\ Flowing(wire, first)
  BY <1>1, <1>2
<1>6. wire' = v /\ LastRead' = next /\ LastRead = first
  OBVIOUS
<1> HIDE DEF first, next, v
<1>7. Flowing(v, next) /\ \A last : Reaches(wire, first, last) => Reaches(v, next, last)
  <2>1. Dropped(wire, first, n, v, next)
    BY <1>1, <1>3, <1>4, <1>5 DEF Dropped
  <2> QED BY <2>1, FlowDrop
<1>8. UNCHANGED <<accepted, open, squeue, m_send_data_list, writing, done>>
  BY DEF sender
<1>9. StreamByte' = StreamByte
  BY <1>8 DEF StreamByte, Messages, ChunkSize
<1>10. Failing'
  BY <1>8 DEF Failing, FailsOnly
<1>11. InFlight'
  <2>1. Len(v) <= WireCapacity
    BY <1>1, <1>3, WireAssumption
  <2>2. Flowing(wire, LastRead)'
    BY <1>6, <1>7, <1>8, ZenonT(30) DEF Flowing, Apart, ChunkSize
  <2> QED BY <1>3, <1>6, <1>9, <2>1, <2>2 DEF InFlight
<1>12. Source'
  <2> SUFFICES ASSUME open' /\ ~broken'
               PROVE  \E f \in 0..Len(accepted') : Unframed(f)' /\ Listed(f)' /\ Reaches(wire, LastRead, ToWrite(f))'
    BY DEF Source
  <2>1. PICK f \in 0..Len(accepted) : Unframed(f) /\ Listed(f) /\ Reaches(wire, LastRead, ToWrite(f))
    BY <1>8 DEF Source
  <2>2. Reaches(v, next, ToWrite(f))
    BY <1>6, <1>7, <2>1
  <2>3. Unframed(f)' /\ Listed(f)' /\ ToWrite(f)' = ToWrite(f)
    BY <1>8, <2>1 DEF Unframed, Listed, ToWrite, ChunkSize
  <2>4. Reaches(wire, LastRead, ToWrite(f))'
    BY <1>6, <1>8, <2>2, <2>3 DEF Reaches, Apart, ChunkSize
  <2> QED BY <1>8, <2>1, <2>3, <2>4
<1> QED BY <1>10, <1>11, <1>12

(* Bytes reach the read of a header.                                       *)
LEMMA ReceiveHeadFramed ==
  ASSUME SenderTypeOK, ReceiverTypeOK, Framed, NEW n \in 1..WireCapacity, Receive(n), reading = "head"
  PROVE  Framed'
<1>1. /\ UNCHANGED <<sender, broken, ropen, rpc, m_recv_data, size, delivered, signErrors>>
      /\ accepted' = accepted /\ wire' = SubSeq(wire, n + 1, Len(wire))
      /\ m_recv_head' = Filled(m_recv_head, wire, n)
      /\ n <= Least(Len(wire), HeadSize - Len(m_recv_head))
      /\ IF Len(m_recv_head) + n = HeadSize
         THEN reading' = "none" /\ rqueue' = Append(rqueue, "head")
         ELSE reading' = "head" /\ rqueue' = rqueue
  BY DEF Receive, Buffer, Wanted, sender, Filled
<1> DEFINE ch == Chunk("head", Got + 1)
<1>2. rqueue \in Seq(RKinds) /\ "head" \in RKinds /\ OneRead(rqueue) /\ ~Have("head") /\ ~Have("body") /\ ~InBody
      /\ wire \in Seq(StreamByte)
  BY DEF ReceiverTypeOK, RKinds, Framed, Reading, InBody, InFlight
<1>3. PICK k \in 0..(HeadSize - 1) : m_recv_head = Bytes(ch, 1, k)
  BY DEF Framed, Buffers
<1>4. k \in Nat /\ Len(m_recv_head) = k
  BY <1>3, BytesFrom, HeadSizeAssumption
<1>5. ch.part = "head" /\ ch.m = Got + 1 /\ ChunkSize(ch) = HeadSize /\ NextChunk(ch) = Chunk("body", Got + 1)
  BY DEF Chunk, ChunkSize, NextChunk
<1>6. LastRead = Byte(ch, k)
  BY <1>2, <1>4 DEF LastRead, Buffer
<1>7. n \in 1..Len(wire) /\ k + n <= HeadSize /\ k + n \in Nat /\ HeadSize \in Nat
  BY <1>1, <1>2, <1>4, HeadSizeAssumption, WireAssumption DEF Least
<1>8. ~broken
  <2>1. broken => wire = <<>>
    BY DEF Framed, InFlight
  <2> QED BY <1>7, <2>1
<1> HIDE DEF ch
<1>9. Continues(wire, ch, k, n) /\ Got + 1 \in Messages
  BY <1>4, <1>5, <1>6, <1>7, <1>8, ReceiveBytes DEF Framed
<1>10. m_recv_head' = Bytes(ch, 1, k + n) /\ Len(m_recv_head') = k + n
  <2>1. Filled(Bytes(ch, 1, k), wire, n) = Bytes(ch, 1, k + n)
    BY <1>9, BufferGrows
  <2>2. Len(Bytes(ch, 1, k + n)) = k + n
    BY <1>7, BytesFrom
  <2> QED BY <1>1, <1>3, <2>1, <2>2
<1>12. CASE k + n = HeadSize
  <2>1. reading' = "none" /\ rqueue' = Append(rqueue, "head")
    BY <1>1, <1>4, <1>12
  <2>2. Have("head")' /\ ~Have("body")' /\ OneRead(rqueue')
    BY <1>2, <2>1, AddR DEF Have
  <2>3. Got' = Got /\ InBody'
    BY <1>1, <1>2, <2>2 DEF Got, InBody
  <2>4. LastRead' = Byte(NextChunk(ch), 0)
    BY <1>5, <2>1, <2>3 DEF LastRead
  <2>4a. LastRead' = IF k + n < ChunkSize(ch) THEN Byte(ch, k + n) ELSE Byte(NextChunk(ch), 0)
    BY <1>5, <1>7, <1>12, <2>4
  <2>5. Failing' /\ InFlight' /\ Source'
    BY <1>1, <1>4, <1>5, <1>6, <1>7, <1>8, <2>4a, ReceiveFlow DEF Framed
  <2>6. Reading'
    BY <1>1, <2>1, <2>2 DEF Framed, Reading, OneRead
  <2>7. Got < Len(accepted) /\ Got <= Len(accepted)
    BY <1>9 DEF Messages, Got, ReceiverTypeOK, SenderTypeOK
  <2>8. m_recv_head' = Whole(Chunk("head", Got + 1))'
    BY <1>1, <1>5, <1>10, <1>12, <2>3 DEF Whole, ch, ChunkSize, Bytes, Chunk, Byte
  <2>9. Buffers'
    BY <1>1, <1>2, <2>1, <2>2, <2>3, <2>7, <2>8 DEF Framed, Buffers, Whole, Bytes, ChunkSize
  <2> QED BY <1>1, <2>5, <2>6, <2>9 DEF Framed
<1>13. CASE k + n # HeadSize
  <2>1. reading' = "head" /\ rqueue' = rqueue
    BY <1>1, <1>4, <1>13
  <2>2. ~Have("head")' /\ ~Have("body")' /\ OneRead(rqueue')
    BY <1>2, <2>1 DEF Have
  <2>3. Got' = Got /\ ~InBody'
    BY <1>1, <1>2, <2>1, <2>2 DEF Got, InBody
  <2>4. LastRead' = Byte(ch, k + n)
    BY <1>10, <2>1, <2>3 DEF LastRead, Buffer, ch
  <2>4a. k + n < ChunkSize(ch)
    BY <1>5, <1>7, <1>13
  <2>5. Failing' /\ InFlight' /\ Source'
    BY <1>1, <1>4, <1>5, <1>6, <1>7, <1>8, <2>4, <2>4a, ReceiveFlow DEF Framed
  <2>6. Reading'
    BY <1>1, <2>1, <2>2 DEF Framed, Reading, OneRead
  <2>7. k + n \in 0..(HeadSize - 1)
    BY <1>7, <1>13
  <2>8. m_recv_head' = Bytes(Chunk("head", Got' + 1), 1, k + n)
    BY <1>10, <2>3 DEF ch
  <2>9. Buffers'
    BY <1>1, <1>2, <2>1, <2>2, <2>3, <2>7, <2>8 DEF Framed, Buffers, Whole, Bytes, ChunkSize, Chunk, Byte
  <2> QED BY <1>1, <2>5, <2>6, <2>9 DEF Framed
<1> QED BY <1>12, <1>13

(* Bytes reach the read of a body.                                         *)
LEMMA ReceiveBodyFramed ==
  ASSUME SenderTypeOK, ReceiverTypeOK, Framed, NEW n \in 1..WireCapacity, Receive(n), reading = "body"
  PROVE  Framed'
<1>1. /\ UNCHANGED <<sender, broken, ropen, rpc, m_recv_head, size, delivered, signErrors>>
      /\ accepted' = accepted /\ wire' = SubSeq(wire, n + 1, Len(wire))
      /\ m_recv_data' = Filled(m_recv_data, wire, n)
      /\ n <= Least(Len(wire), size - Len(m_recv_data))
      /\ IF Len(m_recv_data) + n = size
         THEN reading' = "none" /\ rqueue' = Append(rqueue, "body")
         ELSE reading' = "body" /\ rqueue' = rqueue
  BY DEF Receive, Buffer, Wanted, sender, Filled
<1> DEFINE ch == Chunk("body", Got + 1)
<1>2. rqueue \in Seq(RKinds) /\ "body" \in RKinds /\ OneRead(rqueue) /\ ~Have("head") /\ ~Have("body") /\ InBody
      /\ wire \in Seq(StreamByte) /\ rpc # "deliver"
  BY DEF ReceiverTypeOK, RKinds, Framed, Reading, InBody, InFlight
<1>3. PICK k \in 0..(size - 1) : m_recv_data = Bytes(ch, 1, k)
  BY DEF Framed, Buffers
<1>3a. Got = Len(delivered) /\ Got \in Nat /\ Got < Len(accepted) /\ Len(accepted) \in Nat /\ size \in Nat
       /\ size = accepted[Got + 1]
  BY <1>2, SizesAssumption DEF Got, ReceiverTypeOK, SenderTypeOK, Framed, Buffers
<1>4. k \in Nat /\ Len(m_recv_data) = k
  BY <1>3, <1>3a, BytesFrom
<1>5. ch.part = "body" /\ ch.m = Got + 1 /\ ChunkSize(ch) = size /\ NextChunk(ch) = Chunk("head", Got + 1 + 1)
  BY <1>3a DEF Chunk, ChunkSize, NextChunk
<1>6. LastRead = Byte(ch, k)
  BY <1>2, <1>4 DEF LastRead, Buffer
<1>7. n \in 1..Len(wire) /\ k + n <= size /\ k + n \in Nat
  <2>1. n \in Nat \ {0} /\ Len(wire) \in Nat
    BY <1>2, WireAssumption
  <2>2. n <= Least(Len(wire), size - k)
    BY <1>1, <1>4, Zenon
  <2>3. n <= Len(wire) /\ n <= size - k
    BY <1>3a, <1>4, <2>1, <2>2 DEF Least
  <2> QED BY <1>3a, <1>4, <2>1, <2>3
<1>8. ~broken
  <2>1. broken => wire = <<>>
    BY DEF Framed, InFlight
  <2> QED BY <1>7, <2>1
<1> HIDE DEF ch
<1>9. Continues(wire, ch, k, n)
  BY <1>3a, <1>4, <1>5, <1>6, <1>7, <1>8, ReceiveBytes DEF Framed
<1>10. m_recv_data' = Bytes(ch, 1, k + n) /\ Len(m_recv_data') = k + n
  <2>1. Filled(Bytes(ch, 1, k), wire, n) = Bytes(ch, 1, k + n)
    BY <1>9, BufferGrows
  <2>2. Len(Bytes(ch, 1, k + n)) = k + n
    BY <1>7, BytesFrom
  <2> QED BY <1>1, <1>3, <2>1, <2>2
<1>12. CASE k + n = size
  <2>1. reading' = "none" /\ rqueue' = Append(rqueue, "body")
    BY <1>1, <1>4, <1>12
  <2>2. ~Have("head")' /\ Have("body")' /\ OneRead(rqueue')
    BY <1>2, <2>1, AddR DEF Have
  <2>3. Got' = Got + 1 /\ ~InBody'
    BY <1>1, <1>2, <1>3a, <2>1, <2>2 DEF Got, InBody
  <2>4. LastRead' = Byte(NextChunk(ch), 0)
    BY <1>5, <2>1, <2>3 DEF LastRead
  <2>4a. LastRead' = IF k + n < ChunkSize(ch) THEN Byte(ch, k + n) ELSE Byte(NextChunk(ch), 0)
    BY <1>5, <1>7, <1>12, <2>4
  <2>5. Failing' /\ InFlight' /\ Source'
    BY <1>1, <1>3a, <1>4, <1>5, <1>6, <1>7, <1>8, <2>4a, ReceiveFlow DEF Framed
  <2>6. Reading'
    BY <1>1, <1>2, <2>1, <2>2 DEF Framed, Reading, OneRead
  <2>7. Got' <= Len(accepted)
    BY <1>3a, <2>3
  <2>8. m_recv_data' = Whole(Chunk("body", Got))'
    BY <1>1, <1>5, <1>10, <1>12, <2>3 DEF Whole, ch, ChunkSize, Bytes, Chunk, Byte
  <2>9. Buffers'
    BY <1>1, <1>2, <2>1, <2>2, <2>3, <2>7, <2>8 DEF Framed, Buffers
  <2> QED BY <1>1, <2>5, <2>6, <2>9 DEF Framed
<1>13. CASE k + n # size
  <2>1. reading' = "body" /\ rqueue' = rqueue
    BY <1>1, <1>4, <1>13
  <2>2. ~Have("head")' /\ ~Have("body")' /\ OneRead(rqueue')
    BY <1>2, <2>1 DEF Have
  <2>3. Got' = Got /\ InBody'
    BY <1>1, <1>2, <2>1, <2>2 DEF Got, InBody
  <2>4. LastRead' = Byte(ch, k + n)
    BY <1>10, <2>1, <2>3 DEF LastRead, Buffer, ch
  <2>4a. k + n < ChunkSize(ch)
    BY <1>3a, <1>5, <1>7, <1>13
  <2>5. Failing' /\ InFlight' /\ Source'
    BY <1>1, <1>3a, <1>4, <1>5, <1>6, <1>7, <1>8, <2>4, <2>4a, ReceiveFlow DEF Framed
  <2>6. Reading'
    BY <1>1, <1>2, <2>1, <2>2 DEF Framed, Reading, OneRead
  <2>7. k + n \in 0..(size - 1)
    BY <1>3a, <1>7, <1>13
  <2>8. m_recv_data' = Bytes(Chunk("body", Got' + 1), 1, k + n)
    BY <1>10, <2>3 DEF ch
  <2>9. Buffers'
    BY <1>1, <1>2, <1>3a, <2>1, <2>2, <2>3, <2>7, <2>8 DEF Framed, Buffers, Bytes, Chunk, Byte
  <2> QED BY <1>1, <2>5, <2>6, <2>9 DEF Framed
<1> QED BY <1>12, <1>13

-----------------------------------------------------------------------------
(* The sender's queue: a handler is added at the end ...                   *)
LEMMA WaitAdd ==
  ASSUME NEW S, NEW q \in Seq(S), NEW h \in S, NEW f \in Nat, NEW n \in Nat
  PROVE  /\ h.kind # "send" /\ Waiting(q, f, n) => Waiting(Append(q, h), f, n)
         /\ /\ h.kind = "send" /\ h.m = n + 1 /\ f <= n /\ Waiting(q, f, n)
            /\ \A i \in DOMAIN q : q[i].kind = "send" => q[i].m \in 1..n
            => Waiting(Append(q, h), f, n + 1)
         /\ FailsOnly(q) /\ (h.kind = "wrote" /\ h.err => broken \/ ~open) => FailsOnly(Append(q, h))
<1> DEFINE a == Append(q, h)
           l == Len(q) + 1
<1>1. /\ DOMAIN a = DOMAIN q \cup {l} /\ l \notin DOMAIN q /\ a[l] = h
      /\ \A i \in DOMAIN q : a[i] = q[i]
  BY QueueAppend
<1>1a. l \in Nat /\ \A i \in DOMAIN q : i \in Nat /\ i < l
  OBVIOUS
<1> HIDE DEF a, l
<1>2. h.kind # "send" /\ Waiting(q, f, n) => Waiting(a, f, n)
  BY <1>1 DEF Waiting
<1>3. ASSUME h.kind = "send", h.m = n + 1, f <= n, Waiting(q, f, n),
             \A i \in DOMAIN q : q[i].kind = "send" => q[i].m \in 1..n
      PROVE  Waiting(a, f, n + 1)
  <2>1. \A i \in DOMAIN a : a[i].kind = "send" => a[i].m > f
    BY <1>1, <1>3 DEF Waiting
  <2>2. \A i, j \in DOMAIN a : a[i].kind = "send" /\ a[j].kind = "send" /\ i < j => a[i].m < a[j].m
    <3> SUFFICES ASSUME NEW i \in DOMAIN a, NEW j \in DOMAIN a, a[i].kind = "send", a[j].kind = "send", i < j
                 PROVE  a[i].m < a[j].m
      OBVIOUS
    <3>1. i \in DOMAIN q
      BY <1>1, <1>1a
    <3>2. CASE j \in DOMAIN q
      BY <1>1, <1>3, <3>1, <3>2 DEF Waiting
    <3>3. CASE j = l
      <4>1. a[i].m \in 1..n /\ a[j].m = n + 1
        BY <1>1, <1>3, <3>1, <3>3
      <4> QED BY <4>1
    <3> QED BY <1>1, <3>2, <3>3
  <2>3. ASSUME NEW m \in (f + 1)..(n + 1) PROVE \E i \in DOMAIN a : a[i].kind = "send" /\ a[i].m = m
    <3>1. CASE m = n + 1
      BY <1>1, <1>3, <3>1
    <3>2. CASE m # n + 1
      <4>1. m \in (f + 1)..n
        BY <3>2
      <4>2. PICK i \in DOMAIN q : q[i].kind = "send" /\ q[i].m = m
        BY <1>3, <4>1 DEF Waiting
      <4> QED BY <1>1, <4>2
    <3> QED BY <3>1, <3>2
  <2> QED BY <2>1, <2>2, <2>3 DEF Waiting
<1>4. FailsOnly(q) /\ (h.kind = "wrote" /\ h.err => broken \/ ~open) => FailsOnly(a)
  BY <1>1 DEF FailsOnly
<1> QED BY <1>2, <1>3, <1>4 DEF a

(* ... and taken from the front: the messages come in order.               *)
LEMMA WaitTake ==
  ASSUME NEW S, NEW q \in Seq(S), q # <<>>, NEW f \in Nat, NEW n \in Nat
  PROVE  /\ Head(q).kind # "send" /\ Waiting(q, f, n) => Waiting(Tail(q), f, n)
         /\ Head(q).kind = "send" /\ Waiting(q, f, n)
            /\ (\A i \in DOMAIN q : q[i].kind = "send" => q[i].m \in 1..n)
            => Head(q).m = f + 1 /\ f + 1 <= n /\ Waiting(Tail(q), f + 1, n)
         /\ FailsOnly(q) => FailsOnly(Tail(q))
<1> DEFINE t == Tail(q)
<1>1. /\ 1 \in DOMAIN q /\ Head(q) = q[1]
      /\ \A i \in DOMAIN t : i \in Nat \ {0} /\ i + 1 \in DOMAIN q /\ t[i] = q[i + 1]
      /\ \A i \in DOMAIN q : i \in Nat /\ (i # 1 => 1 < i /\ i - 1 \in DOMAIN t /\ t[i - 1] = q[i])
  OBVIOUS
<1> HIDE DEF t
<1>o. ASSUME Waiting(q, f, n), NEW i \in DOMAIN t, NEW j \in DOMAIN t, t[i].kind = "send",
             t[j].kind = "send", i < j
      PROVE  t[i].m < t[j].m
  <2>1. i + 1 \in DOMAIN q /\ j + 1 \in DOMAIN q /\ i + 1 < j + 1 /\ t[i] = q[i + 1] /\ t[j] = q[j + 1]
    BY <1>1, <1>o
  <2> QED BY <1>o, <2>1 DEF Waiting
<1>2. ASSUME Head(q).kind # "send", Waiting(q, f, n) PROVE Waiting(t, f, n)
  <2>1. \A i \in DOMAIN t : t[i].kind = "send" => t[i].m > f
    BY <1>1, <1>2 DEF Waiting
  <2>2. \A i, j \in DOMAIN t : t[i].kind = "send" /\ t[j].kind = "send" /\ i < j => t[i].m < t[j].m
    BY <1>o, <1>2
  <2>3. ASSUME NEW m \in (f + 1)..n PROVE \E i \in DOMAIN t : t[i].kind = "send" /\ t[i].m = m
    <3>1. PICK i \in DOMAIN q : q[i].kind = "send" /\ q[i].m = m
      BY <1>2 DEF Waiting
    <3>2. i # 1
      BY <1>1, <1>2, <3>1
    <3> QED BY <1>1, <3>1, <3>2
  <2> QED BY <2>1, <2>2, <2>3 DEF Waiting
<1>3. ASSUME Head(q).kind = "send", Waiting(q, f, n),
             \A i \in DOMAIN q : q[i].kind = "send" => q[i].m \in 1..n
      PROVE  Head(q).m = f + 1 /\ f + 1 <= n /\ Waiting(t, f + 1, n)
  <2>1. q[1].m > f /\ q[1].m \in 1..n
    BY <1>1, <1>3 DEF Waiting
  <2>2. f + 1 \in (f + 1)..n /\ f + 1 <= n
    BY <2>1
  <2>3. PICK i \in DOMAIN q : q[i].kind = "send" /\ q[i].m = f + 1
    BY <1>3, <2>2 DEF Waiting
  <2>4. i = 1
    <3> SUFFICES ASSUME i # 1 PROVE FALSE
      OBVIOUS
    <3>1. q[1].m < q[i].m
      BY <1>1, <1>3, <2>3 DEF Waiting
    <3> QED BY <2>1, <2>3, <3>1
  <2>5. Head(q).m = f + 1
    BY <1>1, <2>3, <2>4
  <2>6. \A j \in DOMAIN t : t[j].kind = "send" => t[j].m > f + 1
    <3> SUFFICES ASSUME NEW j \in DOMAIN t, t[j].kind = "send" PROVE t[j].m > f + 1
      OBVIOUS
    <3>1. 1 < j + 1 /\ j + 1 \in DOMAIN q /\ q[j + 1] = t[j]
      BY <1>1
    <3>2. q[1].m < q[j + 1].m /\ q[j + 1].m \in 1..n
      BY <1>1, <1>3, <3>1 DEF Waiting
    <3> QED BY <1>1, <2>5, <3>1, <3>2
  <2>7. \A k, j \in DOMAIN t : t[k].kind = "send" /\ t[j].kind = "send" /\ k < j => t[k].m < t[j].m
    BY <1>o, <1>3
  <2>8. ASSUME NEW m \in (f + 1 + 1)..n PROVE \E j \in DOMAIN t : t[j].kind = "send" /\ t[j].m = m
    <3>1. m \in (f + 1)..n /\ m # f + 1
      OBVIOUS
    <3>2. PICK j \in DOMAIN q : q[j].kind = "send" /\ q[j].m = m
      BY <1>3, <3>1 DEF Waiting
    <3>3. j # 1
      BY <1>1, <2>5, <3>1, <3>2
    <3> QED BY <1>1, <3>2, <3>3
  <2> QED BY <2>2, <2>5, <2>6, <2>7, <2>8 DEF Waiting
<1>4. FailsOnly(q) => FailsOnly(t)
  BY <1>1 DEF FailsOnly
<1> QED BY <1>2, <1>3, <1>4 DEF t

(* What a step of the sender leaves alone.                                 *)
LEMMA ReceiverKept ==
  ASSUME UNCHANGED receiver
  PROVE  /\ Got' = Got /\ (InBody' <=> InBody) /\ LastRead' = LastRead
         /\ (Have("head")' <=> Have("head")) /\ (Have("body")' <=> Have("body"))
         /\ UNCHANGED <<ropen, rqueue, rpc, reading, m_recv_head, m_recv_data, size, delivered, signErrors>>
         /\ Reading => Reading'
         /\ accepted' = accepted /\ Buffers => Buffers'
<1>1. UNCHANGED <<ropen, rqueue, rpc, reading, m_recv_head, m_recv_data, size, delivered, signErrors>>
  BY DEF receiver
<1>2. (Have("head")' <=> Have("head")) /\ (Have("body")' <=> Have("body"))
  BY <1>1 DEF Have
<1>3. Got' = Got /\ (InBody' <=> InBody)
  BY <1>1, <1>2 DEF Got, InBody
<1>4. LastRead' = LastRead
  BY <1>1, <1>3 DEF LastRead, Buffer
<1>5. Reading => Reading'
  BY <1>1, <1>2 DEF Reading, OneRead
<1>6. accepted' = accepted /\ Buffers => Buffers'
  BY <1>1, <1>2, <1>3 DEF Buffers, Whole, Bytes, ChunkSize
<1> QED BY <1>1, <1>2, <1>3, <1>4, <1>5, <1>6

(* The bytes in flight when the sender only moves its handlers.            *)
LEMMA FlightKept ==
  ASSUME InFlight, UNCHANGED <<accepted, wire, broken, receiver>>
  PROVE  InFlight'
<1>1. LastRead' = LastRead /\ ropen' = ropen
  BY ReceiverKept
<1> QED BY <1>1 DEF InFlight, StreamByte, Messages, ChunkSize, Flowing, Apart

(* A handler of the sender that leaves the stream as it is: what is still  *)
(* to be framed, listed and written decides.                               *)
LEMMA SenderStepFramed ==
  ASSUME Framed, UNCHANGED <<accepted, wire, broken, receiver>>, Failing', Source'
  PROVE  Framed'
<1>1. Reading' /\ Buffers' /\ signErrors' = signErrors
  BY ReceiverKept DEF Framed
<1>2. InFlight'
  BY FlightKept DEF Framed
<1> QED BY <1>1, <1>2 DEF Framed

(* Source, one message on or as before.                                    *)
LEMMA SourceKept ==
  ASSUME UNCHANGED <<accepted, wire, receiver>>, NEW f, NEW g \in 0..Len(accepted),
         Reaches(wire, LastRead, ToWrite(f)), Unframed(g)', Listed(g)', ToWrite(g)' = ToWrite(f)
  PROVE  Source'
<1>1. LastRead' = LastRead
  BY ReceiverKept
<1>2. Reaches(wire, LastRead, ToWrite(g))'
  BY <1>1 DEF Reaches, Apart, ChunkSize
<1> QED BY <1>2 DEF Source

-----------------------------------------------------------------------------
(* close() at the sender.                                                  *)
LEMMA SenderCloseFramed ==
  ASSUME SenderTypeOK, Framed, SenderClose
  PROVE  Framed'
<1> DEFINE h == [kind |-> "close"]
<1>1. /\ squeue' = Append(squeue, h)
      /\ UNCHANGED <<accepted, open, m_send_data_list, writing, done, wire, broken, receiver>>
  BY DEF SenderClose
<1>2. squeue \in Seq(SenderHandler) /\ h \in SenderHandler /\ h.kind = "close" /\ Len(accepted) \in Nat
  BY DEF SenderTypeOK, SenderHandler
<1> HIDE DEF h
<1>3. Failing'
  <2>1. FailsOnly(Append(squeue, h))
    BY <1>2, WaitAdd DEF Framed, Failing
  <2> QED BY <1>1, <2>1 DEF Framed, Failing, FailsOnly
<1>4. Source'
  <2> SUFFICES ASSUME open', ~broken' PROVE Source'
    BY DEF Source
  <2>1. PICK f \in 0..Len(accepted) : Unframed(f) /\ Listed(f) /\ Reaches(wire, LastRead, ToWrite(f))
    BY <1>1 DEF Framed, Source
  <2>2. Waiting(Append(squeue, h), f, Len(accepted))
    BY <1>2, <2>1, WaitAdd DEF Unframed
  <2>3. Unframed(f)' /\ Listed(f)' /\ ToWrite(f)' = ToWrite(f)
    BY <1>1, <2>1, <2>2 DEF Unframed, Listed, ToWrite, ChunkSize
  <2> QED BY <1>1, <2>1, <2>3, SourceKept
<1> QED BY <1>1, <1>3, <1>4, SenderStepFramed

(* The posted part of close().                                             *)
LEMMA HandleSenderCloseFramed ==
  ASSUME Framed, HandleSenderClose
  PROVE  Framed'
<1>1. UNCHANGED <<accepted, wire, broken, receiver>> /\ open' = FALSE /\ writing' = FALSE
  BY DEF HandleSenderClose
<1>2. Failing' /\ Source'
  BY <1>1 DEF Failing, FailsOnly, Source
<1> QED BY <1>1, <1>2, SenderStepFramed

(* A write that meets the reset.                                           *)
LEMMA WriteFailsFramed ==
  ASSUME SenderTypeOK, Framed, WriteFails
  PROVE  Framed'
<1> DEFINE h == [kind |-> "wrote", err |-> TRUE]
<1>1. /\ squeue' = Append(squeue, h) /\ writing' = FALSE /\ broken
      /\ UNCHANGED <<accepted, open, m_send_data_list, done, wire, broken, receiver>>
  BY DEF WriteFails
<1>2. squeue \in Seq(SenderHandler) /\ h \in SenderHandler
  BY DEF SenderTypeOK, SenderHandler
<1> HIDE DEF h
<1>3. FailsOnly(Append(squeue, h))
  BY <1>1, <1>2, WaitAdd DEF Framed, Failing
<1>4. Failing' /\ Source'
  BY <1>1, <1>3 DEF Failing, FailsOnly, Source
<1> QED BY <1>1, <1>4, SenderStepFramed

(* A write fails when there is nothing to hope for.                        *)
LEMMA HandleWriteErrorFramed ==
  ASSUME SenderTypeOK, Framed, HandleWriteError
  PROVE  Framed'
<1>1. /\ squeue # <<>> /\ Head(squeue).kind = "wrote" /\ Head(squeue).err /\ squeue' = Tail(squeue)
      /\ UNCHANGED <<accepted, open, writing, done, wire, broken, receiver>>
  BY DEF HandleWriteError, NextS
<1>2. squeue \in Seq(SenderHandler) /\ 1 \in DOMAIN squeue /\ Head(squeue) = squeue[1]
  BY <1>1 DEF SenderTypeOK
<1>3. broken \/ ~open
  BY <1>1, <1>2 DEF Framed, Failing, FailsOnly
<1>4. FailsOnly(Tail(squeue))
  BY <1>1, <1>2, WaitTake DEF Framed, Failing
<1>5. Failing' /\ Source'
  BY <1>1, <1>3, <1>4 DEF Framed, Failing, FailsOnly, Source
<1> QED BY <1>1, <1>5, SenderStepFramed

(* What the handlers of sends say.                                         *)
LEMMA SendsKnown ==
  ASSUME SenderTypeOK
  PROVE  \A i \in DOMAIN squeue : squeue[i].kind = "send" => squeue[i].m \in 1..Len(accepted)
<1> SUFFICES ASSUME NEW i \in DOMAIN squeue, squeue[i].kind = "send" PROVE squeue[i].m \in 1..Len(accepted)
  OBVIOUS
<1>1. squeue[i] \in SenderHandler
  BY DEF SenderTypeOK
<1>2. squeue[i] \in [kind : {"send"}, m : Messages]
  BY <1>1 DEF SenderHandler
<1> QED BY <1>2 DEF Messages

(* The posted part of send_message(): the next frame.                      *)
LEMMA HandleSendFramed ==
  ASSUME SenderTypeOK, OneWrite, Framed, HandleSend
  PROVE  Framed'
<1> DEFINE m == Head(squeue).m
           l == Len(m_send_data_list)
<1>1. /\ squeue # <<>> /\ Head(squeue).kind = "send"
      /\ UNCHANGED <<accepted, open, wire, broken, receiver>>
  BY DEF HandleSend, NextS
<1>2. /\ squeue \in Seq(SenderHandler) /\ m_send_data_list \in Seq(ChunkType)
      /\ Len(accepted) \in Nat /\ l \in Nat
  BY DEF SenderTypeOK
<1>3. CASE ~open
  <2>1. squeue' = Tail(squeue) /\ UNCHANGED <<m_send_data_list, writing, done>>
    BY <1>3 DEF HandleSend
  <2>2. FailsOnly(Tail(squeue))
    BY <1>1, <1>2, WaitTake DEF Framed, Failing
  <2>3. Failing' /\ Source'
    BY <1>1, <1>3, <2>1, <2>2 DEF Framed, Failing, FailsOnly, Source
  <2> QED BY <1>1, <2>3, SenderStepFramed
<1>4. CASE open
  <2>1. m_send_data_list' = m_send_data_list \o <<Chunk("head", m), Chunk("body", m)>> /\ squeue' = Tail(squeue)
    BY <1>4 DEF HandleSend, Frame, DoWrite
  <2>2. /\ Len(m_send_data_list') = l + 2 /\ DOMAIN m_send_data_list' = 1..(l + 2)
        /\ \A i \in 1..l : m_send_data_list'[i] = m_send_data_list[i]
        /\ m_send_data_list'[l + 1] = Chunk("head", m) /\ m_send_data_list'[l + 2] = Chunk("body", m)
    BY <1>2, <2>1, FrameAppended
  <2>3. /\ l = 0 => writing' = TRUE /\ done' = 0
        /\ l # 0 => writing' = writing /\ done' = done
    BY <1>2, <1>4, <2>2 DEF HandleSend, DoWrite
  <2>4. l = 0 <=> m_send_data_list = <<>>
    BY <1>2
  <2>4a. l = 0 => writing = FALSE
    BY <2>4 DEF OneWrite, SenderTypeOK
  <2> HIDE DEF m, l
  <2>5. FailsOnly(Tail(squeue))
    BY <1>1, <1>2, WaitTake DEF Framed, Failing
  <2>6. Failing'
    BY <1>1, <1>4, <2>1, <2>5 DEF Failing, FailsOnly
  <2>7. Source'
    <3> SUFFICES ASSUME ~broken PROVE Source'
      BY <1>1 DEF Source
    <3>1. PICK f \in 0..Len(accepted) : Unframed(f) /\ Listed(f) /\ Reaches(wire, LastRead, ToWrite(f))
      BY <1>4 DEF Framed, Source
    <3>2. f \in Nat
      BY <1>2
    <3>3. Head(squeue).m = f + 1 /\ f + 1 <= Len(accepted) /\ Waiting(Tail(squeue), f + 1, Len(accepted))
      <4>1. Waiting(squeue, f, Len(accepted))
        BY <3>1 DEF Unframed
      <4>2. Head(squeue).kind = "send"
        BY <1>1
      <4> QED BY <1>1, <1>2, <3>2, <4>1, <4>2, SendsKnown, WaitTake
    <3>4. m = f + 1 /\ f + 1 \in 0..Len(accepted)
      BY <1>2, <3>2, <3>3 DEF m
    <3>5. Unframed(f + 1)'
      BY <1>1, <2>1, <3>3 DEF Unframed
    <3>6. Listed(f + 1)'
      <4>1. m_send_data_list'[Len(m_send_data_list')] = Chunk("body", f + 1)
        BY <1>2, <2>2, <3>4
      <4>2. ASSUME NEW i \in DOMAIN m_send_data_list', i < Len(m_send_data_list')
            PROVE  m_send_data_list'[i + 1] = NextChunk(m_send_data_list'[i])
        <5>1. i \in 1..(l + 2) /\ i < l + 2
          BY <2>2, <4>2
        <5>2. CASE i < l
          <6>1. i \in 1..l /\ i + 1 \in 1..l /\ i \in DOMAIN m_send_data_list
            BY <1>2, <5>1, <5>2 DEF l
          <6>2. m_send_data_list[i + 1] = NextChunk(m_send_data_list[i])
            BY <3>1, <5>2, <6>1 DEF Listed, l
          <6> QED BY <2>2, <6>1, <6>2
        <5>3. CASE i = l
          <6>1. i \in 1..l /\ l # 0 /\ i + 1 = l + 1
            BY <1>2, <5>1, <5>3
          <6>2. m_send_data_list[i] = Chunk("body", f)
            BY <3>1, <5>3, <6>1 DEF Listed, l
          <6>3. NextChunk(Chunk("body", f)) = Chunk("head", f + 1)
            BY DEF NextChunk, Chunk
          <6> QED BY <2>2, <3>4, <6>1, <6>2, <6>3
        <5>4. CASE i = l + 1
          <6>1. i + 1 = l + 2
            BY <1>2, <5>4
          <6>2. NextChunk(Chunk("head", f + 1)) = Chunk("body", f + 1)
            BY DEF NextChunk, Chunk
          <6> QED BY <2>2, <3>4, <5>4, <6>1, <6>2
        <5> QED BY <1>2, <5>1, <5>2, <5>3, <5>4
      <4>3. writing' => done' < ChunkSize(m_send_data_list[1])'
        <5>1. CASE l = 0
          <6>1. m_send_data_list'[1] = Chunk("head", f + 1) /\ done' = 0
            BY <2>2, <2>3, <3>4, <5>1
          <6> QED BY <6>1, HeadSizeAssumption DEF ChunkSize, Chunk
        <5>2. CASE l # 0
          <6>1. m_send_data_list'[1] = m_send_data_list[1]
            BY <1>2, <2>2, <5>2
          <6> QED BY <1>1, <2>3, <3>1, <5>2, <6>1 DEF Listed, ChunkSize
        <5> QED BY <5>1, <5>2
      <4> QED BY <4>1, <4>2, <4>3 DEF Listed, NextChunk, ChunkSize, Chunk
    <3>7. ToWrite(f + 1)' = ToWrite(f)
      <4>1. CASE l = 0
        <5>1. m_send_data_list'[1] = Chunk("head", f + 1) /\ done' = 0 /\ writing' = TRUE
          BY <2>2, <2>3, <3>4, <4>1
        <5>2. ToWrite(f) = Byte(Chunk("head", f + 1), 1)
          BY <2>4, <2>4a, <4>1 DEF ToWrite
        <5>3. ToWrite(f + 1)' = Byte(Chunk("head", f + 1), 0 + 1)
          BY <5>1 DEF ToWrite, Byte, Chunk
        <5> QED BY <5>2, <5>3
      <4>2. CASE l # 0
        <5>1. m_send_data_list'[1] = m_send_data_list[1] /\ m_send_data_list' # <<>> /\ m_send_data_list # <<>>
              /\ writing' = writing /\ done' = done
          BY <1>2, <2>2, <2>3, <2>4, <4>2
        <5> QED BY <5>1 DEF ToWrite
      <4> QED BY <4>1, <4>2
    <3> QED BY <1>1, <3>1, <3>4, <3>5, <3>6, <3>7, SourceKept
  <2> QED BY <1>1, <2>6, <2>7, SenderStepFramed
<1> QED BY <1>3, <1>4 DEF SenderTypeOK

(* A write is complete: the next chunk.                                    *)
LEMMA HandleWroteFramed ==
  ASSUME SenderTypeOK, OneWrite, Framed, HandleWrote
  PROVE  Framed'
<1> DEFINE l == Len(m_send_data_list)
           h == [kind |-> "wrote", err |-> TRUE]
<1>1. /\ squeue # <<>> /\ Head(squeue).kind = "wrote"
      /\ UNCHANGED <<accepted, open, wire, broken, receiver>>
  BY DEF HandleWrote, NextS
<1>2. /\ squeue \in Seq(SenderHandler) /\ m_send_data_list \in Seq(ChunkType)
      /\ Len(accepted) \in Nat /\ l \in Nat
  BY DEF SenderTypeOK
<1>3. writing = FALSE /\ m_send_data_list # <<>>
  <2>1. 1 \in DOMAIN squeue /\ Wrote(1)
    BY <1>1, <1>2 DEF Wrote
  <2> QED BY <1>1, <2>1, CompletionTaken DEF OneWrite
<1>4. /\ m_send_data_list' = Tail(m_send_data_list) /\ l # 0
      /\ Len(m_send_data_list') = l - 1 /\ DOMAIN m_send_data_list' = 1..(l - 1)
      /\ \A i \in 1..(l - 1) : m_send_data_list'[i] = m_send_data_list[i + 1]
  BY <1>2, <1>3 DEF HandleWrote
<1>5. m_send_data_list' = <<>> <=> l = 1
  BY <1>2, <1>4
<1>6. FailsOnly(Tail(squeue)) /\ Tail(squeue) \in Seq(SenderHandler)
  BY <1>1, <1>2, WaitTake DEF Framed, Failing
<1>7. h \in SenderHandler /\ h.kind = "wrote"
  BY DEF SenderHandler
<1>8. /\ l = 1 => squeue' = Tail(squeue) /\ writing' = FALSE
      /\ l # 1 /\ open => squeue' = Tail(squeue) /\ writing' = TRUE /\ done' = 0
      /\ l # 1 /\ ~open => squeue' = Append(Tail(squeue), h) /\ writing' = FALSE
  BY <1>3, <1>5 DEF HandleWrote, DoWrite
<1> HIDE DEF l, h
<1>9. Failing'
  <2>1. CASE squeue' = Tail(squeue)
    BY <1>1, <1>3, <1>6, <1>8, <2>1 DEF Failing, FailsOnly
  <2>2. CASE ~open /\ squeue' = Append(Tail(squeue), h) /\ writing' = FALSE
    <3>1. FailsOnly(Append(Tail(squeue), h))
      BY <1>6, <1>7, <2>2, WaitAdd
    <3> QED BY <1>1, <2>2, <3>1 DEF Failing, FailsOnly
  <2> QED BY <1>8, <2>1, <2>2
<1>10. Source'
  <2> SUFFICES ASSUME open, ~broken PROVE Source'
    BY <1>1 DEF Source
  <2>1. PICK f \in 0..Len(accepted) : Unframed(f) /\ Listed(f) /\ Reaches(wire, LastRead, ToWrite(f))
    BY DEF Framed, Source
  <2>2. f \in Nat
    BY <1>2
  <2>3. Unframed(f)'
    <3>1. Waiting(Tail(squeue), f, Len(accepted))
      BY <1>1, <1>2, <2>1, <2>2, WaitTake DEF Unframed
    <3> QED BY <1>1, <1>8, <3>1 DEF Unframed
  <2>4. l # 0 /\ m_send_data_list[l] = Chunk("body", f)
    BY <1>4, <2>1 DEF Listed, l
  <2>5. \A i \in 1..l : i < l => m_send_data_list[i + 1] = NextChunk(m_send_data_list[i])
    BY <1>2, <2>1 DEF Listed, l
  <2>6. Listed(f)'
    <3>1. Len(m_send_data_list') # 0 => m_send_data_list'[Len(m_send_data_list')] = Chunk("body", f)
      <4>1. l - 1 # 0 => l - 1 \in 1..(l - 1) /\ (l - 1) + 1 = l
        BY <1>2, <1>4
      <4>2. l - 1 # 0 => m_send_data_list'[l - 1] = m_send_data_list[l]
        BY <1>4, <4>1
      <4> QED BY <1>4, <2>4, <4>2
    <3>2. ASSUME NEW i \in DOMAIN m_send_data_list', i < Len(m_send_data_list')
          PROVE  m_send_data_list'[i + 1] = NextChunk(m_send_data_list'[i])
      <4>1. i \in 1..(l - 1) /\ i + 1 \in 1..(l - 1) /\ i + 1 \in 1..l /\ i + 1 < l
        BY <1>2, <1>4, <3>2
      <4>2. m_send_data_list[i + 1 + 1] = NextChunk(m_send_data_list[i + 1])
        BY <2>5, <4>1
      <4> QED BY <1>4, <4>1, <4>2
    <3>3. writing' => done' < ChunkSize(m_send_data_list[1])'
      <4> SUFFICES ASSUME writing' PROVE done' < ChunkSize(m_send_data_list[1])'
        OBVIOUS
      <4>1. l # 1 /\ done' = 0
        BY <1>8
      <4>2. m_send_data_list'[1] = m_send_data_list[2] /\ m_send_data_list[2] \in ChunkType
        BY <1>2, <1>4, <4>1 DEF l
      <4>3. ChunkSize(m_send_data_list[2]) \in Nat \ {0}
        BY <4>2, ChunkSizes DEF ChunkType
      <4>4. ChunkSize(m_send_data_list[1])' = ChunkSize(m_send_data_list[2])
        BY <1>1, <4>2 DEF ChunkSize
      <4> QED BY <4>1, <4>3, <4>4
    <3> QED BY <3>1, <3>2, <3>3 DEF Listed, NextChunk, ChunkSize, Chunk
  <2>7. ToWrite(f)' = ToWrite(f)
    <3>1. ToWrite(f) = Byte(NextChunk(m_send_data_list[1]), 1)
      BY <1>3 DEF ToWrite
    <3>2. CASE l = 1
      <4>1. ToWrite(f)' = Byte(Chunk("head", f + 1), 1)
        BY <1>5, <1>8, <3>2 DEF ToWrite, Byte, Chunk
      <4>2. NextChunk(m_send_data_list[1]) = Chunk("head", f + 1)
        BY <2>4, <3>2 DEF NextChunk, Chunk
      <4> QED BY <3>1, <4>1, <4>2
    <3>3. CASE l # 1
      <4>1. writing' = TRUE /\ done' = 0
        BY <1>8, <3>3
      <4>2. 1 \in 1..(l - 1) /\ 1 \in 1..l /\ 1 < l
        BY <1>2, <1>4, <3>3
      <4>3. m_send_data_list'[1] = NextChunk(m_send_data_list[1])
        BY <1>4, <2>5, <4>2
      <4>4. ToWrite(f)' = Byte(m_send_data_list'[1], 0 + 1)
        BY <4>1 DEF ToWrite, Byte
      <4> QED BY <3>1, <4>3, <4>4
    <3> QED BY <3>2, <3>3
  <2> QED BY <1>1, <2>1, <2>3, <2>6, <2>7, SourceKept
<1> QED BY <1>1, <1>9, <1>10, SenderStepFramed

(* The receiver is always at a byte of a chunk that has a size.            *)
LEMMA LastReadPlaced ==
  ASSUME SenderTypeOK, ReceiverTypeOK, Framed
  PROVE  LastRead.at \in Nat /\ (LastRead.part = "head" \/ LastRead.m \in Messages) /\ ChunkSize(LastRead) \in Nat
<1>1. LastRead.at = IF reading = "none" THEN 0 ELSE Len(Buffer)
  BY ByteParts DEF LastRead
<1>2. LastRead.at \in Nat
  <2>1. CASE reading = "none"
    BY <1>1, <2>1
  <2>2. CASE reading = "head"
    <3>1. PICK k \in 0..(HeadSize - 1) : m_recv_head = Bytes(Chunk("head", Got + 1), 1, k)
      BY <2>2 DEF Framed, Buffers
    <3>2. k \in Nat
      BY HeadSizeAssumption
    <3>3. Len(m_recv_head) = k
      BY <3>1, <3>2, BytesFrom
    <3> QED BY <1>1, <2>2, <3>2, <3>3 DEF Buffer
  <2>3. CASE reading = "body"
    <3>1. PICK k \in 0..(size - 1) : m_recv_data = Bytes(Chunk("body", Got + 1), 1, k)
      BY <2>3 DEF Framed, Buffers
    <3>2. k \in Nat
      BY SizesAssumption DEF ReceiverTypeOK
    <3>3. Len(m_recv_data) = k
      BY <3>1, <3>2, BytesFrom
    <3> QED BY <1>1, <2>3, <3>2, <3>3 DEF Buffer
  <2> QED BY <2>1, <2>2, <2>3 DEF ReceiverTypeOK
<1>3. LastRead.part = (IF InBody THEN "body" ELSE "head") /\ LastRead.m = Got + 1
  BY ByteParts DEF LastRead, Chunk
<1>4. InBody => Got + 1 \in Messages
  <2>1. Len(delivered) \in Nat /\ Len(accepted) \in Nat
    BY DEF ReceiverTypeOK, SenderTypeOK
  <2>2. Got \in Nat
    BY <2>1 DEF Got
  <2>3. InBody => Got < Len(accepted)
    BY DEF Framed, Buffers
  <2> QED BY <2>1, <2>2, <2>3 DEF Messages
<1>5. LastRead.part = "head" \/ LastRead.m \in Messages
  BY <1>3, <1>4
<1> QED BY <1>2, <1>5, ChunkSizes

(* The connection takes bytes.                                             *)
LEMMA TransferFramed ==
  ASSUME SenderTypeOK, OneWrite, ReceiverTypeOK, Framed, NEW n \in 1..WireCapacity, Transfer(n)
  PROVE  Framed'
<1> DEFINE ch == m_send_data_list[1]
           h == [kind |-> "wrote", err |-> FALSE]
<1>1. m_send_data_list # <<>> /\ ch \in ChunkType /\ Head(m_send_data_list) = ch /\ done \in Nat
      /\ squeue \in Seq(SenderHandler) /\ Len(accepted) \in Nat /\ writing /\ ~broken /\ open
  <2>1. writing /\ ~broken /\ open
    BY DEF Transfer, Framed, Failing
  <2>2. m_send_data_list # <<>>
    BY <2>1 DEF OneWrite
  <2> QED BY <2>1, <2>2 DEF SenderTypeOK
<1>2. h \in SenderHandler /\ h.kind = "wrote" /\ ~h.err
  BY DEF SenderHandler
<1>3. ChunkSize(ch) \in Nat \ {0}
  BY <1>1, ChunkSizes DEF ChunkType
<1> HIDE DEF ch, h
<1>4. /\ UNCHANGED <<accepted, open, m_send_data_list, broken, receiver>>
      /\ wire' = wire \o Bytes(ch, done + 1, done + n) /\ done' = done + n
      /\ n <= Least(ChunkSize(ch) - done, WireCapacity - Len(wire))
      /\ done + n = ChunkSize(ch) => writing' = FALSE /\ squeue' = Append(squeue, h)
      /\ done + n # ChunkSize(ch) => writing' = writing /\ squeue' = squeue
  BY <1>1 DEF Transfer, ch, h
<1>5. wire \in Seq(StreamByte) /\ Len(wire) \in Nat /\ Len(wire) <= WireCapacity /\ Flowing(wire, LastRead)
  BY <1>1 DEF Framed, InFlight
<1>6. n \in Nat \ {0} /\ done + n <= ChunkSize(ch) /\ Len(wire) + n <= WireCapacity
  <2>1. n \in Nat \ {0} /\ WireCapacity \in Nat
    BY WireAssumption
  <2> QED BY <1>1, <1>3, <1>4, <1>5, <2>1 DEF Least
<1> DEFINE v == Sent(wire, ch, done, n)
           last == IF done + n < ChunkSize(ch) THEN Byte(ch, done + n + 1) ELSE Byte(NextChunk(ch), 1)
<1>7. wire' = v
  BY <1>4 DEF Sent
<1>7a. v = Sent(wire, ch, done, n)
  OBVIOUS
<1>8. last = IF done + n < ChunkSize(ch) THEN Byte(ch, done + n + 1) ELSE Byte(NextChunk(ch), 1)
  OBVIOUS
<1> HIDE DEF v, last
<1>9. /\ v \in Seq(StreamByte) /\ Len(v) = Len(wire) + n /\ DOMAIN v = 1..(Len(wire) + n)
      /\ \A i \in 1..Len(wire) : v[i] = wire[i]
      /\ \A i \in 1..n : v[Len(wire) + i] = Byte(ch, done + i)
  <2>1. Sendable(wire, ch, done, n)
    BY <1>1, <1>5, <1>6 DEF Sendable
  <2> QED BY <1>7a, <2>1, BytesAppended
<1>10. PICK f \in 0..Len(accepted) : Unframed(f) /\ Listed(f) /\ Reaches(wire, LastRead, ToWrite(f))
  BY <1>1 DEF Framed, Source
<1>11. ToWrite(f) = Byte(ch, done + 1)
  BY <1>1 DEF ToWrite, ch
<1>12. Flowing(v, LastRead) /\ Reaches(v, LastRead, last)
  <2>1. LastRead.at \in Nat /\ ChunkSize(LastRead) \in Nat
    BY LastReadPlaced
  <2>2. Reaches(wire, LastRead, Byte(ch, done + 1))
    BY <1>10, <1>11
  <2>3. Appended(wire, LastRead, ch, done, n, last, v)
    BY <1>1, <1>5, <1>6, <1>8, <1>9, <2>1, <2>2 DEF Appended
  <2> QED BY <2>3, FlowAppend
<1>13. LastRead' = LastRead /\ Reading' /\ Buffers' /\ signErrors' = signErrors /\ ropen' = ropen
  BY <1>4, ReceiverKept DEF Framed
<1>14. InFlight'
  <2>1. StreamByte' = StreamByte
    BY <1>4 DEF StreamByte, Messages, ChunkSize
  <2>2. Flowing(wire, LastRead)'
    BY <1>4, <1>7, <1>12, <1>13, ZenonT(30) DEF Flowing, Apart, ChunkSize
  <2>3. ropen
    BY <1>1 DEF Framed, InFlight
  <2> QED BY <1>1, <1>4, <1>6, <1>7, <1>9, <1>13, <2>1, <2>2, <2>3 DEF InFlight
<1>15. Failing'
  <2>1. FailsOnly(Append(squeue, h))
    BY <1>1, <1>2, WaitAdd DEF Framed, Failing
  <2> QED BY <1>1, <1>4, <2>1 DEF Framed, Failing, FailsOnly
<1>17. done + n # ChunkSize(ch) => done + n < ChunkSize(ch)
  <2>1. done + n \in Nat /\ ChunkSize(ch) \in Nat
    BY <1>1, <1>3, <1>6
  <2> QED BY <1>6, <2>1
<1>16. Source'
  <2>1. Unframed(f)'
    <3>1. Waiting(squeue, f, Len(accepted)) /\ Waiting(Append(squeue, h), f, Len(accepted))
      BY <1>1, <1>2, <1>10, WaitAdd DEF Unframed
    <3> QED BY <1>4, <3>1 DEF Unframed
  <2>2. Listed(f)'
    <3>1. writing' => done' < ChunkSize(ch)
      BY <1>4, <1>17
    <3> QED BY <1>4, <1>10, <3>1 DEF Listed, ChunkSize, ch
  <2>3. ToWrite(f)' = last
    <3>1. CASE done + n = ChunkSize(ch)
      <4>1. writing' = FALSE /\ last = Byte(NextChunk(ch), 1)
        BY <1>3, <1>4, <1>8, <3>1
      <4> QED BY <1>1, <1>4, <4>1 DEF ToWrite, ch
    <3>2. CASE done + n # ChunkSize(ch)
      <4>1. writing' = writing /\ done + n < ChunkSize(ch)
        BY <1>4, <1>17, <3>2
      <4>2. last = Byte(ch, done + n + 1)
        BY <1>8, <4>1
      <4> QED BY <1>1, <1>4, <4>1, <4>2 DEF ToWrite, ch
    <3> QED BY <3>1, <3>2
  <2>4. Reaches(wire, LastRead, ToWrite(f))'
    BY <1>4, <1>7, <1>12, <1>13, <2>3 DEF Reaches, Apart, ChunkSize
  <2> QED BY <1>4, <1>10, <2>1, <2>2, <2>4 DEF Source
<1> QED BY <1>13, <1>14, <1>15, <1>16 DEF Framed

(* send_message(): one more message.                                       *)
LEMMA SendMessageFramed ==
  ASSUME SenderTypeOK, OneWrite, ReceiverTypeOK, Framed, NEW n \in Sizes, SendMessage(n)
  PROVE  Framed'
<1> DEFINE l == Len(accepted)
           h == [kind |-> "send", m |-> l + 1]
<1>1. /\ open /\ accepted' = Append(accepted, n) /\ squeue' = Append(squeue, h)
      /\ UNCHANGED <<open, m_send_data_list, writing, done, wire, broken, receiver>>
  BY DEF SendMessage
<1>2. /\ accepted \in Seq(Sizes) /\ squeue \in Seq(SenderHandler) /\ m_send_data_list \in Seq(ChunkType)
      /\ l \in Nat /\ Messages = 1..l
  BY DEF SenderTypeOK, Messages
<1>3. Len(accepted') = l + 1 /\ \A m \in 1..l : accepted'[m] = accepted[m]
  BY <1>1, <1>2
<1>4. squeue \in Seq(SenderHandler \cup {h}) /\ h \in SenderHandler \cup {h} /\ h.kind = "send" /\ h.m = l + 1
  BY <1>2
<1> HIDE DEF l, h
<1>5. Messages' = 1..(l + 1) /\ Messages \subseteq Messages'
  BY <1>2, <1>3 DEF Messages
<1>6. \A c : c.part = "head" \/ c.m \in Messages =>
         (IF c.part = "head" THEN HeadSize ELSE accepted'[c.m]) = ChunkSize(c)
  BY <1>2, <1>3 DEF ChunkSize
<1>7. /\ LastRead' = LastRead /\ Reading' /\ Got' = Got /\ (InBody' <=> InBody)
      /\ (Have("head")' <=> Have("head")) /\ (Have("body")' <=> Have("body"))
      /\ UNCHANGED <<ropen, rpc, reading, m_recv_head, m_recv_data, size, delivered, signErrors>>
  BY <1>1, ReceiverKept DEF Framed
<1>8. ChunkSize(LastRead)' = ChunkSize(LastRead)
  <2>1. LastRead.part = "head" \/ LastRead.m \in Messages
    BY LastReadPlaced
  <2> QED BY <1>6, <1>7, <2>1 DEF ChunkSize
<1>9. wire \in Seq(StreamByte) /\ \A i \in DOMAIN wire : wire[i] \in StreamByte
  BY DEF Framed, InFlight
<1>10. \A i \in DOMAIN wire : ChunkSize(wire[i])' = ChunkSize(wire[i])
  <2>1. \A i \in DOMAIN wire : wire[i].m \in Messages
    BY <1>9, StreamBytes
  <2> QED BY <1>1, <1>6, <2>1 DEF ChunkSize
<1>11. InFlight'
  <2>1. StreamByte \subseteq StreamByte'
    <3> SUFFICES ASSUME NEW b \in StreamByte PROVE b \in StreamByte'
      OBVIOUS
    <3>1. b \in [part : {"head", "body"}, m : Messages', at : Nat \ {0}]
      BY <1>5 DEF StreamByte
    <3>2. b.m \in Messages /\ b.at <= ChunkSize(b)
      BY StreamBytes
    <3>3. ChunkSize(b)' = ChunkSize(b)
      BY <1>6, <3>2 DEF ChunkSize
    <3> QED BY <3>1, <3>2, <3>3 DEF StreamByte
  <2>2. wire' \in Seq(StreamByte')
    BY <1>1, <1>9, <2>1
  <2>3. ~broken => Flowing(wire, LastRead)'
    <3> SUFFICES ASSUME ~broken PROVE Flowing(wire, LastRead)'
      OBVIOUS
    <3>1. Flowing(wire, LastRead) /\ wire' = wire
      BY <1>1 DEF Framed, InFlight
    <3>2. ASSUME NEW j \in DOMAIN wire PROVE Apart(LastRead, wire[j], j)'
      BY <1>7, <1>8, <3>1 DEF Flowing, Apart
    <3>3. ASSUME NEW i \in DOMAIN wire, NEW j \in DOMAIN wire, i < j PROVE Apart(wire[i], wire[j], j - i)'
      <4>1. Apart(wire[i], wire[j], j - i)
        BY <3>1, <3>3 DEF Flowing
      <4> QED BY <1>10, <3>1, <4>1 DEF Apart
    <3> QED BY <3>1, <3>2, <3>3 DEF Flowing
  <2> QED BY <1>1, <1>7, <2>2, <2>3 DEF Framed, InFlight
<1>12. Failing'
  <2>1. FailsOnly(Append(squeue, h))
    BY <1>2, <1>4, WaitAdd DEF Framed, Failing
  <2> QED BY <1>1, <2>1 DEF Framed, Failing, FailsOnly
<1>13. Source'
  <2> SUFFICES ASSUME ~broken PROVE Source'
    BY <1>1 DEF Source
  <2>1. PICK f \in 0..l : Unframed(f) /\ Listed(f) /\ Reaches(wire, LastRead, ToWrite(f))
    BY <1>1 DEF Framed, Source, l
  <2>2. f \in Nat /\ f <= l /\ f \in 0..(l + 1)
    BY <1>2
  <2>3. Unframed(f)'
    <3>1. Waiting(squeue, f, l) /\ \A i \in DOMAIN squeue : squeue[i].kind = "send" => squeue[i].m \in 1..l
      BY <2>1, SendsKnown DEF Unframed, l
    <3>2. Waiting(Append(squeue, h), f, l + 1)
      BY <1>2, <1>4, <2>2, <3>1, WaitAdd
    <3> QED BY <1>1, <1>3, <3>2 DEF Unframed
  <2>4. Listed(f)'
    <3>1. writing => ChunkSize(m_send_data_list[1])' = ChunkSize(m_send_data_list[1])
      <4>1. writing => m_send_data_list[1] \in ChunkType
        BY <1>2 DEF OneWrite
      <4> QED BY <1>1, <1>6, <4>1 DEF ChunkType, ChunkSize
    <3> QED BY <1>1, <2>1, <3>1 DEF Listed, NextChunk, Chunk
  <2>5. ToWrite(f)' = ToWrite(f)
    BY <1>1 DEF ToWrite
  <2>6. Reaches(wire, LastRead, ToWrite(f))'
    BY <1>1, <1>7, <1>8, <1>10, <2>1, <2>5 DEF Reaches, Apart
  <2> QED BY <1>3, <2>2, <2>3, <2>4, <2>6 DEF Source
<1>14. Buffers'
  <2>1. Len(delivered) \in Nat /\ Got \in Nat
    BY DEF ReceiverTypeOK, Got
  <2>2. Got <= Len(accepted') /\ (InBody => Got < Len(accepted'))
    BY <1>2, <1>3, <2>1 DEF Framed, Buffers, l
  <2>3. Have("head") => m_recv_head = Whole(Chunk("head", Got + 1))'
    BY <1>7 DEF Framed, Buffers, Whole, ChunkSize, Bytes, Byte, Chunk
  <2>4. rpc = "deliver" \/ Have("body") => m_recv_data = Whole(Chunk("body", Got))'
    <3> SUFFICES ASSUME rpc = "deliver" \/ Have("body") PROVE m_recv_data = Whole(Chunk("body", Got))'
      OBVIOUS
    <3>1. Got \in Messages
      BY <1>2, <2>1 DEF Framed, Buffers, Got, l
    <3>2. ChunkSize(Chunk("body", Got))' = ChunkSize(Chunk("body", Got))
      BY <1>3, <1>2, <1>7, <3>1 DEF Chunk, ChunkSize
    <3> QED BY <1>7, <3>2 DEF Framed, Buffers, Whole, Bytes, Byte, Chunk
  <2>5. reading = "body" => size = accepted'[Got + 1]
    <3> SUFFICES ASSUME reading = "body" PROVE size = accepted'[Got + 1]
      OBVIOUS
    <3>1. Got + 1 \in 1..l
      BY <1>2, <2>1 DEF Framed, Buffers, InBody, l
    <3> QED BY <1>3, <3>1 DEF Framed, Buffers
  <2>6. reading = "head" =>
           \E k \in 0..(HeadSize - 1) : m_recv_head = Bytes(Chunk("head", Got + 1), 1, k)
    BY DEF Framed, Buffers
  <2>7. reading = "body" =>
           \E k \in 0..(size - 1) : m_recv_data = Bytes(Chunk("body", Got + 1), 1, k)
    BY DEF Framed, Buffers
  <2>8. \A i \in DOMAIN delivered : delivered[i] = i
    BY DEF Framed, Buffers
  <2>9. (reading = "head" =>
           \E k \in 0..(HeadSize - 1) : m_recv_head = Bytes(Chunk("head", Got + 1), 1, k))'
    BY <1>7, <2>6 DEF Bytes, Byte, Chunk
  <2>10. (reading = "body" =>
           \E k \in 0..(size - 1) : m_recv_data = Bytes(Chunk("body", Got + 1), 1, k))'
    BY <1>7, <2>7 DEF Bytes, Byte, Chunk
  <2> QED BY <1>7, <2>2, <2>3, <2>4, <2>5, <2>8, <2>9, <2>10 DEF Buffers
<1> QED BY <1>7, <1>11, <1>12, <1>13, <1>14 DEF Framed

-----------------------------------------------------------------------------
(* The noise of a stranger, read piece by piece.                           *)
LEMMA NoisePieces ==
  ASSUME NEW k \in 0..(HeadSize - 1), NEW n \in 1..(HeadSize - k)
  PROVE  /\ Len(NoiseRead(k)) = k /\ Len(NoiseLeft(k)) = HeadSize - k
         /\ Filled(NoiseRead(k), NoiseLeft(k), n) = NoiseRead(k + n)
         /\ SubSeq(NoiseLeft(k), n + 1, Len(NoiseLeft(k))) = NoiseLeft(k + n)
         /\ NoiseRead(HeadSize) = Noise /\ NoiseLeft(HeadSize) = <<>>
<1> DEFINE S == {Noise[i] : i \in 1..HeadSize}
           b == NoiseRead(k)
           w == NoiseLeft(k)
           c == NoiseRead(k + n)
           u == SubSeq(w, 1, n)
           v == SubSeq(w, n + 1, Len(w))
<1>1. k \in Nat /\ n \in Nat \ {0} /\ HeadSize \in Nat /\ k + n <= HeadSize /\ HeadSize - k \in Nat
      /\ HeadSize - (k + n) \in Nat
  BY HeadSizeAssumption
<1>2. b = [i \in 1..k |-> Noise[i]] /\ c = [i \in 1..(k + n) |-> Noise[i]]
      /\ w = [i \in 1..(HeadSize - k) |-> Noise[k + i]]
  BY DEF NoiseRead, NoiseLeft
<1>3. b \in Seq(S) /\ Len(b) = k
  <2>1. \A i \in 1..k : i \in 1..HeadSize
    BY <1>1
  <2>2. b \in [1..k -> S]
    BY <1>2, <2>1
  <2> HIDE DEF b, S
  <2> QED BY <1>1, <2>2
<1>4. c \in Seq(S) /\ Len(c) = k + n
  <2>1. k + n \in Nat /\ \A i \in 1..(k + n) : i \in 1..HeadSize
    BY <1>1
  <2>2. c \in [1..(k + n) -> S]
    BY <1>2, <2>1
  <2> HIDE DEF c, S
  <2> QED BY <2>1, <2>2
<1>5. w \in Seq(S) /\ Len(w) = HeadSize - k
  <2>1. \A i \in 1..(HeadSize - k) : k + i \in 1..HeadSize
    BY <1>1
  <2>2. w \in [1..(HeadSize - k) -> S]
    BY <1>2, <2>1
  <2> HIDE DEF w, S
  <2> QED BY <1>1, <2>2
<1> HIDE DEF S, b, c, w
<1>6. n \in 1..Len(w)
  BY <1>1, <1>5
<1>7. u \in Seq(S) /\ Len(u) = n /\ \A i \in 1..n : u[i] = w[i]
  <2>1. u = [i \in 1..n |-> w[i]]
    BY <1>1, <1>5, <1>6
  <2>1a. \A i \in 1..n : i \in 1..Len(w) /\ w[i] \in S
    BY <1>1, <1>5
  <2>2. u \in [1..n -> S]
    BY <2>1, <2>1a, Zenon
  <2> HIDE DEF u
  <2> QED BY <1>1, <2>1, <2>2
<1>8. /\ v \in Seq(S) /\ Len(v) = Len(w) - n /\ DOMAIN v = 1..(Len(w) - n)
      /\ \A j \in 1..(Len(w) - n) : v[j] = w[n + j]
  BY <1>5, <1>6, Rest
<1> HIDE DEF u, v
<1>9. b \o u \in Seq(S)
  BY <1>3, <1>7, ConcatProperties, Zenon
<1>10. Len(b \o u) = Len(b) + Len(u)
  BY <1>3, <1>7, ConcatProperties, Zenon
<1>11. \A i \in 1..(Len(b) + Len(u)) : (b \o u)[i] = IF i <= Len(b) THEN b[i] ELSE u[i - Len(b)]
  BY <1>3, <1>7, ConcatProperties, Zenon
<1>12. \A i \in 1..(k + n) : (b \o u)[i] = c[i]
  <2> SUFFICES ASSUME NEW i \in 1..(k + n) PROVE (b \o u)[i] = c[i]
    OBVIOUS
  <2>1. (b \o u)[i] = IF i <= k THEN b[i] ELSE u[i - k]
    BY <1>3, <1>7, <1>11
  <2>2. c[i] = Noise[i]
    BY <1>2
  <2>3. CASE i <= k
    <3>1. i \in 1..k
      BY <2>3
    <3> QED BY <1>2, <2>1, <2>2, <2>3, <3>1
  <2>4. CASE ~(i <= k)
    <3>1. i - k \in 1..n /\ i - k \in 1..(HeadSize - k) /\ k + (i - k) = i
      BY <1>1, <2>4
    <3>2. u[i - k] = Noise[k + (i - k)]
      BY <1>2, <1>7, <3>1
    <3> QED BY <2>1, <2>2, <2>4, <3>1, <3>2
  <2> QED BY <2>3, <2>4
<1>13. b \o u = c
  <2>1. Len(b \o u) = Len(c) /\ Len(c) = k + n
    BY <1>3, <1>4, <1>7, <1>10
  <2>2. \A i \in 1..Len(b \o u) : (b \o u)[i] = c[i]
    BY <1>12, <2>1
  <2> QED BY <1>4, <1>9, <2>1, <2>2, SeqEqual
<1>14. v = NoiseLeft(k + n)
  <2>1. Len(w) - n = HeadSize - (k + n)
    BY <1>1, <1>5
  <2>2. \A j \in 1..(HeadSize - (k + n)) : v[j] = Noise[(k + n) + j]
    <3> SUFFICES ASSUME NEW j \in 1..(HeadSize - (k + n)) PROVE v[j] = Noise[(k + n) + j]
      OBVIOUS
    <3>1. n + j \in 1..(HeadSize - k) /\ k + (n + j) = (k + n) + j
      BY <1>1
    <3>2. v[j] = w[n + j]
      BY <1>8, <2>1
    <3> QED BY <1>2, <3>1, <3>2
  <2>3. v = [j \in 1..(HeadSize - (k + n)) |-> v[j]]
    BY <1>8, <2>1
  <2> QED BY <2>2, <2>3 DEF NoiseLeft
<1>15. Filled(b, w, n) = c
  BY <1>13 DEF Filled, u
<1>16. NoiseRead(HeadSize) = Noise
  BY DEF NoiseRead, Noise
<1>17. NoiseLeft(HeadSize) = <<>>
  <2>1. HeadSize - HeadSize = 0 /\ 1..0 = {}
    BY <1>1
  <2> QED BY <2>1 DEF NoiseLeft
<1> QED BY <1>3, <1>5, <1>14, <1>15, <1>16, <1>17 DEF b, c, w, v

(* What the stranger's steps leave to check.                               *)
LEMMA StrangerQueue ==
  ASSUME Stranger, UNCHANGED <<accepted, open, m_send_data_list, broken, rpc, reading, m_recv_head,
                               delivered, signErrors, wire>>,
         Have("head")' <=> Have("head"), Have("body")' <=> Have("body"), OneRead(rqueue')
  PROVE  Stranger'
BY DEF Stranger, NoiseRead, NoiseLeft, OneRead

LEMMA StrangerSender ==
  ASSUME Stranger, UNCHANGED <<accepted, wire, broken, receiver>>, ~open', m_send_data_list' = <<>>
  PROVE  Stranger'
<1>1. /\ (Have("head")' <=> Have("head")) /\ (Have("body")' <=> Have("body"))
      /\ UNCHANGED <<rqueue, rpc, reading, m_recv_head, delivered, signErrors>>
  BY ReceiverKept
<1> QED BY <1>1 DEF Stranger, NoiseRead, NoiseLeft, OneRead

(* Noise reaches the read of a header.                                     *)
LEMMA ReceiveNoise ==
  ASSUME ReceiverTypeOK, Stranger, NEW n \in 1..WireCapacity, Receive(n)
  PROVE  Stranger'
<1>1. reading = "head"
  BY DEF Receive, Stranger, ReceiverTypeOK
<1>2. /\ UNCHANGED <<sender, broken, ropen, rpc, size, delivered, signErrors>>
      /\ UNCHANGED <<accepted, open, m_send_data_list>>
      /\ wire' = SubSeq(wire, n + 1, Len(wire))
      /\ m_recv_head' = Filled(m_recv_head, wire, n)
      /\ n <= Least(Len(wire), HeadSize - Len(m_recv_head))
      /\ IF Len(m_recv_head) + n = HeadSize
         THEN reading' = "none" /\ rqueue' = Append(rqueue, "head")
         ELSE reading' = "head" /\ rqueue' = rqueue
  BY <1>1 DEF Receive, Buffer, Wanted, sender, Filled
<1>3. rqueue \in Seq(RKinds) /\ "head" \in RKinds /\ OneRead(rqueue) /\ ~Have("head") /\ ~Have("body") /\ signErrors = 0
  BY <1>1 DEF ReceiverTypeOK, RKinds, Stranger
<1>4. PICK k \in 0..(HeadSize - 1) : m_recv_head = NoiseRead(k) /\ (wire = <<>> \/ wire = NoiseLeft(k))
  BY <1>1 DEF Stranger
<1>5. n \in Nat \ {0} /\ HeadSize \in Nat /\ k \in Nat /\ k < HeadSize /\ HeadSize - k \in Nat \ {0}
  BY WireAssumption, HeadSizeAssumption
<1>5a. 1 \in 1..(HeadSize - k)
  BY <1>5
<1>6. Len(m_recv_head) = k /\ Len(NoiseLeft(k)) = HeadSize - k
  BY <1>4, <1>5a, NoisePieces
<1>7. wire = NoiseLeft(k)
  <2>1. CASE wire = <<>>
    <3>1. n <= Least(0, HeadSize - k)
      BY <1>2, <1>6, <2>1
    <3> QED BY <1>5, <3>1 DEF Least
  <2> QED BY <1>4, <2>1
<1>8. n \in 1..(HeadSize - k)
  <2>1. n <= Least(HeadSize - k, HeadSize - k)
    BY <1>2, <1>6, <1>7
  <2> QED BY <1>5, <2>1 DEF Least
<1>9. /\ Filled(NoiseRead(k), NoiseLeft(k), n) = NoiseRead(k + n)
      /\ SubSeq(NoiseLeft(k), n + 1, Len(NoiseLeft(k))) = NoiseLeft(k + n)
      /\ NoiseRead(HeadSize) = Noise /\ NoiseLeft(HeadSize) = <<>>
  BY <1>8, NoisePieces
<1>10. m_recv_head' = NoiseRead(k + n) /\ wire' = NoiseLeft(k + n)
  BY <1>2, <1>4, <1>7, <1>9
<1>11. ~broken
  <2>1. broken => wire = <<>>
    BY DEF Stranger
  <2>2. Len(<<>>) = 0
    OBVIOUS
  <2> QED BY <1>5, <1>6, <1>7, <2>1, <2>2
<1>12. CASE k + n = HeadSize
  <2>1. reading' = "none" /\ rqueue' = Append(rqueue, "head") /\ m_recv_head' = Noise /\ wire' = <<>>
    BY <1>2, <1>6, <1>9, <1>10, <1>12
  <2>2. Have("head")' /\ ~Have("body")' /\ OneRead(rqueue')
    BY <1>3, <2>1, AddR DEF Have
  <2>3. Noise' = Noise
    BY DEF Noise
  <2> QED BY <1>2, <1>3, <2>1, <2>2, <2>3 DEF Stranger, OneRead
<1>13. CASE k + n # HeadSize
  <2>1. reading' = "head" /\ rqueue' = rqueue
    BY <1>2, <1>6, <1>13
  <2>2. ~Have("head")' /\ ~Have("body")' /\ OneRead(rqueue')
    BY <1>3, <2>1 DEF Have
  <2>3. k + n \in 0..(HeadSize - 1)
    BY <1>5, <1>8, <1>13
  <2>4. \E j \in 0..(HeadSize - 1) : m_recv_head' = NoiseRead(j) /\ (wire' = <<>> \/ wire' = NoiseLeft(j))
    BY <1>10, <2>3
  <2>5. (\E j \in 0..(HeadSize - 1) : m_recv_head = NoiseRead(j) /\ (wire = <<>> \/ wire = NoiseLeft(j)))'
    BY <2>4 DEF NoiseRead, NoiseLeft, Noise
  <2> QED BY <1>2, <1>3, <1>11, <2>1, <2>2, <2>5 DEF Stranger, OneRead
<1> QED BY <1>12, <1>13

(* A peer that does not speak the protocol: every step.                    *)
LEMMA NextStranger == SenderTypeOK /\ OneWrite /\ ReceiverTypeOK /\ Stranger /\ [Next]_vars => Stranger'
<1> SUFFICES ASSUME SenderTypeOK, OneWrite, ReceiverTypeOK, Stranger, [Next]_vars PROVE Stranger'
  OBVIOUS
<1>1. /\ rqueue \in Seq(RKinds) /\ "error" \in RKinds /\ "close" \in RKinds /\ OneRead(rqueue)
      /\ rpc = "idle" /\ ~Have("body") /\ ~open /\ m_send_data_list = <<>> /\ Messages = {}
  <2>1. Len(accepted) = 0 /\ 1..0 = {}
    BY DEF Stranger
  <2> QED BY <2>1 DEF ReceiverTypeOK, RKinds, Stranger, Messages
<1>2. writing = FALSE
  BY <1>1 DEF OneWrite, SenderTypeOK
<1>3. ASSUME NEW n \in Sizes, SendMessage(n) PROVE Stranger'
  BY <1>1, <1>3 DEF SendMessage
<1>4. CASE SenderClose
  BY <1>1, <1>4 DEF SenderClose
<1>5. CASE HandleSend
  BY <1>1, <1>5, StrangerSender DEF HandleSend
<1>6. CASE HandleWrote
  BY <1>1, <1>6, StrangerSender DEF HandleWrote
<1>7. CASE HandleWriteError
  BY <1>1, <1>7, StrangerSender DEF HandleWriteError
<1>8. CASE HandleSenderClose
  BY <1>1, <1>8, StrangerSender DEF HandleSenderClose
<1>9. ASSUME NEW n \in 1..WireCapacity, Transfer(n) PROVE Stranger'
  BY <1>2, <1>9 DEF Transfer
<1>10. CASE WriteFails
  BY <1>2, <1>10 DEF WriteFails
<1>11. ASSUME NEW n \in 1..WireCapacity, Receive(n) PROVE Stranger'
  BY <1>11, ReceiveNoise
<1>12. CASE ReadFails
  <2>1. /\ rqueue' = Append(rqueue, "error") /\ reading' = "none" /\ reading = "head" /\ wire = <<>>
        /\ UNCHANGED <<accepted, open, m_send_data_list, wire, broken, rpc, m_recv_head, delivered, signErrors>>
    BY <1>12 DEF ReadFails, Stranger, ReceiverTypeOK, sender
  <2>2. ~Have("head") /\ ~Have("head")' /\ ~Have("body")' /\ OneRead(rqueue')
    <3>1. ~Have("head")
      BY <2>1 DEF Stranger
    <3> QED BY <1>1, <2>1, <3>1, AddR DEF Have
  <2> QED BY <2>1, <2>2 DEF Stranger, OneRead
<1>13. CASE Break
  <2>1. /\ UNCHANGED <<accepted, open, m_send_data_list, rqueue, rpc, reading, m_recv_head, delivered, signErrors>>
        /\ broken' = TRUE /\ wire' = <<>>
    BY <1>13 DEF Break, sender, receiver
  <2>2. (Have("head")' <=> Have("head")) /\ (Have("body")' <=> Have("body"))
    BY <2>1 DEF Have
  <2> QED BY <2>1, <2>2 DEF Stranger, OneRead, NoiseRead, NoiseLeft, Noise
<1>14. CASE HandleHead
  BY <1>1, <1>14 DEF HandleHead, SignMatches
<1>15. CASE HandleBadHead
  <2>1. /\ rqueue # <<>> /\ Head(rqueue) = "head" /\ rqueue' = Append(Tail(rqueue), "close")
        /\ signErrors' = signErrors + 1
        /\ UNCHANGED <<accepted, open, m_send_data_list, wire, broken, rpc, reading, m_recv_head, delivered>>
    BY <1>15 DEF HandleBadHead, NextR, sender
  <2>2. /\ Tail(rqueue) \in Seq(RKinds) /\ Have("head") /\ OneRead(Tail(rqueue))
        /\ ~Has(Tail(rqueue), "head") /\ ~Has(Tail(rqueue), "body")
    BY <1>1, <2>1, TakeR DEF Have
  <2>3. ~Have("head")' /\ ~Have("body")' /\ OneRead(rqueue')
    BY <1>1, <2>1, <2>2, AddR DEF Have
  <2>4. reading = "none" /\ m_recv_head = Noise /\ signErrors = 0
    BY <2>2 DEF Stranger
  <2>5. signErrors' = 1
    BY <2>1, <2>4
  <2> QED BY <2>1, <2>3, <2>4, <2>5 DEF Stranger, OneRead, Noise
<1>16. CASE HandleBody
  <2>1. rqueue # <<>> /\ Head(rqueue) = "body"
    BY <1>16 DEF HandleBody, NextR
  <2> QED BY <1>1, <2>1, TakeR DEF Have
<1>17. CASE Deliver
  BY <1>1, <1>17 DEF Deliver
<1>18. CASE HandleReadError
  <2>1. /\ rqueue # <<>> /\ Head(rqueue) = "error" /\ rqueue' = Tail(rqueue)
        /\ UNCHANGED <<accepted, open, m_send_data_list, broken, rpc, reading, m_recv_head,
                       delivered, signErrors, wire>>
    BY <1>18 DEF HandleReadError, NextR, sender
  <2>2. (Have("head")' <=> Have("head")) /\ (Have("body")' <=> Have("body")) /\ OneRead(rqueue')
    BY <1>1, <2>1, TakeR DEF Have
  <2> QED BY <2>1, <2>2, StrangerQueue
<1>19. CASE ReceiverClose
  <2>1. /\ rqueue' = Append(rqueue, "close")
        /\ UNCHANGED <<accepted, open, m_send_data_list, broken, rpc, reading, m_recv_head,
                       delivered, signErrors, wire>>
    BY <1>19 DEF ReceiverClose, sender
  <2>2. (Have("head")' <=> Have("head")) /\ (Have("body")' <=> Have("body")) /\ OneRead(rqueue')
    BY <1>1, <2>1, AddR DEF Have
  <2> QED BY <2>1, <2>2, StrangerQueue
<1>20. CASE HandleReceiverClose
  <2>1. /\ rqueue # <<>> /\ Head(rqueue) = "close" /\ reading' = "none" /\ broken' = TRUE /\ wire' = <<>>
        /\ rqueue' = Tail(rqueue) \/ rqueue' = Append(Tail(rqueue), "error")
        /\ UNCHANGED <<accepted, open, m_send_data_list, rpc, m_recv_head, delivered, signErrors>>
    BY <1>20 DEF HandleReceiverClose, NextR, sender
  <2>2. Tail(rqueue) \in Seq(RKinds) /\ (Has(Tail(rqueue), "head") <=> Have("head"))
        /\ (Has(Tail(rqueue), "body") <=> Have("body")) /\ OneRead(Tail(rqueue))
    BY <1>1, <2>1, TakeR DEF Have
  <2>3. (Have("head")' <=> Have("head")) /\ (Have("body")' <=> Have("body")) /\ OneRead(rqueue')
    <3>1. CASE rqueue' = Tail(rqueue)
      BY <2>2, <3>1 DEF Have
    <3>2. CASE rqueue' = Append(Tail(rqueue), "error")
      BY <1>1, <2>2, <3>2, AddR DEF Have
    <3> QED BY <2>1, <3>1, <3>2
  <2> QED BY <2>1, <2>3 DEF Stranger, OneRead, Noise
<1>21. CASE UNCHANGED vars
  BY <1>1, <1>21, StrangerSender DEF vars, sender
<1> QED BY <1>3, <1>4, <1>5, <1>6, <1>7, <1>8, <1>9, <1>10, <1>11, <1>12, <1>13, <1>14, <1>15,
           <1>16, <1>17, <1>18, <1>19, <1>20, <1>21, AllSteps

-----------------------------------------------------------------------------
(* Every step.                                                             *)
LEMMA NextFramed ==
  Announceable /\ SenderTypeOK /\ OneWrite /\ ReceiverTypeOK /\ Framed /\ [Next]_vars => Framed'
<1> SUFFICES ASSUME Announceable, SenderTypeOK, OneWrite, ReceiverTypeOK, Framed, [Next]_vars PROVE Framed'
  OBVIOUS
<1>1. ASSUME NEW n \in Sizes, SendMessage(n) PROVE Framed'
  BY <1>1, SendMessageFramed
<1>2. SenderClose \/ HandleSend \/ HandleWrote \/ HandleWriteError \/ HandleSenderClose \/ WriteFails => Framed'
  BY SenderCloseFramed, HandleSendFramed, HandleWroteFramed, HandleWriteErrorFramed, HandleSenderCloseFramed,
     WriteFailsFramed
<1>3. ASSUME NEW n \in 1..WireCapacity, Transfer(n) PROVE Framed'
  BY <1>3, TransferFramed
<1>4. ASSUME NEW n \in 1..WireCapacity, Receive(n) PROVE Framed'
  <2>1. reading = "head" \/ reading = "body"
    BY <1>4 DEF Receive, ReceiverTypeOK
  <2> QED BY <1>4, <2>1, ReceiveHeadFramed, ReceiveBodyFramed
<1>5. ReadFails \/ Break \/ HandleHead \/ HandleBody \/ Deliver \/ HandleReadError \/ ReceiverClose
      \/ HandleReceiverClose => Framed'
  BY ReadFailsFramed, BreakFramed, HandleHeadFramed, HandleBodyFramed, DeliverFramed, HandleReadErrorFramed,
     ReceiverCloseFramed, HandleReceiverCloseFramed
<1>6. ~HandleBadHead
  BY NoBadHead
<1>7. CASE UNCHANGED vars
  <2>1. UNCHANGED <<accepted, open, squeue, m_send_data_list, writing, done, wire, broken, receiver>>
    BY <1>7 DEF vars, sender
  <2>2. LastRead' = LastRead /\ UNCHANGED <<sender, wire, broken, ropen>>
    BY <2>1, ReceiverKept DEF sender
  <2>3. Failing' /\ Source'
    BY <2>2, SameStream DEF Framed
  <2> QED BY <2>1, <2>3, SenderStepFramed
<1> QED BY <1>1, <1>2, <1>3, <1>4, <1>5, <1>6, <1>7, AllSteps

LEMMA NextStream == Announceable /\ IInv /\ StreamInv /\ [Next]_vars => StreamInv'
BY NextFramed, NextStranger, NextReceiverType DEF IInv, StreamInv

LEMMA StreamInvHolds ==
  ASSUME Announceable
  PROVE  Spec => [](IInv /\ StreamInv)
<1>1. Init => IInv /\ StreamInv
  BY InitIInv, InitStream
<1>2. IInv /\ StreamInv /\ [Next]_vars => IInv' /\ StreamInv'
  BY NextStream, NextSenderType, NextOneWrite, NextFramesPaired DEF IInv
<1> QED BY <1>1, <1>2, PTL DEF Spec

(* What is in flight, whoever wrote it.                                    *)
AnyByte == [part : {"head", "body", "noise"}, m : Nat, at : Nat]
WireOK == wire \in Seq(AnyByte) /\ Len(wire) <= WireCapacity

LEMMA InitWire == Init => WireOK
<1> SUFFICES ASSUME Init PROVE WireOK
  OBVIOUS
<1>1. CASE wire = <<>>
  BY <1>1, WireAssumption DEF WireOK
<1>2. CASE wire = Noise
  <2>1. Noise \in Seq(AnyByte)
    <3>1. \A i \in 1..HeadSize : [part |-> "noise", m |-> 0, at |-> i] \in AnyByte
      BY DEF AnyByte
    <3>2. Noise \in [1..HeadSize -> AnyByte]
      BY <3>1 DEF Noise
    <3> QED BY <3>2, HeadSizeAssumption
  <2>2. Len(Noise) = HeadSize
    BY HeadSizeAssumption DEF Noise
  <2> QED BY <1>2, <2>1, <2>2, WireAssumption DEF WireOK
<1> QED BY <1>1, <1>2 DEF Init

(* The network takes in no more than it holds.                             *)
LEMMA NextWire == IInv /\ WireOK /\ [Next]_vars => WireOK'
<1> SUFFICES ASSUME IInv, WireOK, [Next]_vars PROVE WireOK'
  OBVIOUS
<1>1. ASSUME NEW n \in 1..WireCapacity, Transfer(n) PROVE WireOK'
  <2> DEFINE ch == Head(m_send_data_list)
             b == Bytes(ch, done + 1, done + n)
  <2>1. ch \in ChunkType /\ done \in Nat
    <3>1. m_send_data_list # <<>>
      BY <1>1 DEF Transfer, IInv, OneWrite
    <3> QED BY <3>1 DEF IInv, SenderTypeOK
  <2>2. n \in Nat /\ n <= ChunkSize(ch) - done /\ n <= WireCapacity - Len(wire)
    <3>1. n <= Least(ChunkSize(ch) - done, WireCapacity - Len(wire))
      BY <1>1 DEF Transfer
    <3>2. ChunkSize(ch) \in Nat
      BY <2>1, ChunkSizes DEF IInv, ChunkType
    <3>3. WireCapacity - Len(wire) \in Int /\ ChunkSize(ch) - done \in Int
      BY <2>1, <3>2, WireAssumption DEF WireOK
    <3> HIDE DEF ch
    <3> QED BY <3>1, <3>3 DEF Least
  <2>3. b \in Seq(StreamByte) /\ Len(b) = n
    <3>1. ChunkSize(ch) \in Nat
      BY <2>1, ChunkSizes DEF IInv, ChunkType
    <3>2. done + n <= ChunkSize(ch)
      <4> HIDE DEF ch
      <4> QED BY <2>1, <2>2, <3>1
    <3> QED BY <2>1, <2>2, <3>2, BytesOf DEF IInv
  <2>4. StreamByte \subseteq AnyByte
    BY DEF StreamByte, AnyByte, Messages
  <2>5. wire' = wire \o b
    BY <1>1 DEF Transfer
  <2> HIDE DEF b, ch
  <2>6. b \in Seq(AnyByte)
    BY <2>3, <2>4
  <2> QED BY <2>2, <2>3, <2>5, <2>6, WireAssumption DEF WireOK
<1>2. ASSUME NEW n \in 1..WireCapacity, Receive(n) PROVE WireOK'
  <2>1. wire' = SubSeq(wire, n + 1, Len(wire)) /\ Len(wire) \in Nat
    BY <1>2 DEF Receive, WireOK
  <2>2. wire' \in Seq(AnyByte) /\ Len(wire') <= Len(wire)
    BY <2>1 DEF WireOK
  <2> QED BY <2>1, <2>2, WireAssumption DEF WireOK
<1>3. wire' = <<>> => WireOK'
  BY WireAssumption DEF WireOK
<1>4. wire' = wire => WireOK'
  BY DEF WireOK
<1>5. \/ wire' = wire \/ wire' = <<>>
      \/ \E n \in 1..WireCapacity : Transfer(n) \/ Receive(n)
  BY AllSteps DEF SendMessage, SenderClose, HandleSend, HandleWrote, HandleWriteError, HandleSenderClose,
     WriteFails, ReadFails, Break, HandleHead, HandleBadHead, HandleBody, Deliver, HandleReadError,
     ReceiverClose, HandleReceiverClose, vars
<1> QED BY <1>1, <1>2, <1>3, <1>4, <1>5

(* Types, for packets of every size: the size a header announces fits in   *)
(* its field, and the network holds no more than it can.                   *)
THEOREM TypesCorrect == Spec => []TypeOK
<1>1. Init => IInv /\ WireOK /\ ReceiverTypeOK
  <2>1. Init => ReceiverTypeOK
    BY InitStream DEF StreamInv
  <2> QED BY <2>1, InitIInv, InitWire
<1>2. IInv /\ WireOK /\ ReceiverTypeOK /\ [Next]_vars => IInv' /\ WireOK' /\ ReceiverTypeOK'
  BY NextWire, NextReceiverType, NextSenderType, NextOneWrite, NextFramesPaired DEF IInv
<1>3. IInv /\ WireOK /\ ReceiverTypeOK => TypeOK
  BY DEF IInv, WireOK, ReceiverTypeOK, TypeOK
<1> QED BY <1>1, <1>2, <1>3, PTL DEF Spec

(* Only a stranger is reported for a wrong sign, and no message is torn,   *)
(* if every packet is small enough for its header to announce its size.    *)
THEOREM NeverFalseAlarm ==
  ASSUME Announceable
  PROVE  Spec => []NoFalseAlarm
<1>1. IInv /\ StreamInv => NoFalseAlarm
  <2> SUFFICES ASSUME IInv, StreamInv PROVE NoFalseAlarm
    OBVIOUS
  <2>1. CASE Framed
    <3>1. \A i \in DOMAIN delivered : delivered[i] = i /\ i # 0
      <4>1. \A i \in DOMAIN delivered : i # 0
        BY DEF StreamInv, ReceiverTypeOK
      <4> QED BY <2>1, <4>1 DEF Framed, Buffers
    <3> QED BY <2>1, <3>1 DEF Framed, NoFalseAlarm
  <2>2. CASE Stranger
    BY <2>2 DEF Stranger, NoFalseAlarm
  <2> QED BY <2>1, <2>2 DEF StreamInv
<1> QED BY <1>1, StreamInvHolds, PTL

-----------------------------------------------------------------------------
(* Refinement: what the channel sees of a step.                            *)
Closing == \E i \in DOMAIN squeue : squeue[i].kind = "close"
Ended == broken \/ ~open \/ ~ropen \/ Closing \/ Have("close")
Said == [i \in Messages |-> i]

(* The posted close() waits for its turn.                                  *)
LEMMA ClosingStays ==
  ASSUME NEW S, NEW q \in Seq(S), NEW h \in S, NEW i \in DOMAIN q, q[i].kind = "close"
  PROVE  /\ \E j \in DOMAIN Append(q, h) : Append(q, h)[j].kind = "close"
         /\ Head(q).kind # "close" => \E j \in DOMAIN Tail(q) : Tail(q)[j].kind = "close"
<1>1. i \in DOMAIN Append(q, h) /\ Append(q, h)[i] = q[i]
  OBVIOUS
<1>2. ASSUME Head(q).kind # "close" PROVE \E j \in DOMAIN Tail(q) : Tail(q)[j].kind = "close"
  <2>1. i # 1 /\ q # <<>>
    BY <1>2
  <2>2. i - 1 \in DOMAIN Tail(q) /\ Tail(q)[i - 1] = q[i]
    BY <2>1
  <2> QED BY <2>2
<1> QED BY <1>1, <1>2

(* The end of a connection is for good.                                    *)
LEMMA EndedStays == SenderTypeOK /\ ReceiverTypeOK /\ [Next]_vars /\ Ended => Ended'
<1> SUFFICES ASSUME SenderTypeOK, ReceiverTypeOK, [Next]_vars, Ended, ~Ended' PROVE FALSE
  OBVIOUS
<1>1. squeue \in Seq(SenderHandler) /\ rqueue \in Seq(RKinds)
      /\ "head" \in RKinds /\ "body" \in RKinds /\ "error" \in RKinds /\ "close" \in RKinds
  BY DEF SenderTypeOK, ReceiverTypeOK, RKinds
<1>2. ~broken' /\ open' /\ ropen' /\ ~Closing' /\ ~Have("close")'
  BY DEF Ended
<1>3. open /\ (UNCHANGED open \/ open' = FALSE)
  BY <1>2, AllSteps DEF SendMessage, SenderClose, HandleSend, HandleWrote, HandleWriteError, HandleSenderClose,
     Transfer, Receive, WriteFails, ReadFails, Break, HandleHead, HandleBadHead, HandleBody, Deliver,
     HandleReadError, ReceiverClose, HandleReceiverClose, vars, sender, receiver
<1>4. ~broken /\ ropen
  <2>1. UNCHANGED broken \/ broken' = TRUE
    BY AllSteps DEF SendMessage, SenderClose, HandleSend, HandleWrote, HandleWriteError, HandleSenderClose,
       Transfer, Receive, WriteFails, ReadFails, Break, HandleHead, HandleBadHead, HandleBody, Deliver,
       HandleReadError, ReceiverClose, HandleReceiverClose, vars, sender, receiver
  <2>2. UNCHANGED ropen \/ ropen' = FALSE
    BY AllSteps DEF SendMessage, SenderClose, HandleSend, HandleWrote, HandleWriteError, HandleSenderClose,
       Transfer, Receive, WriteFails, ReadFails, Break, HandleHead, HandleBadHead, HandleBody, Deliver,
       HandleReadError, ReceiverClose, HandleReceiverClose, vars, sender, receiver
  <2>3. ~broken /\ ropen \in BOOLEAN /\ broken \in BOOLEAN
    BY <1>2, <2>1 DEF ReceiverTypeOK
  <2>4. ropen
    BY <1>2, <2>2, <2>3
  <2> QED BY <2>3, <2>4
<1>5. ~Closing
  <2> SUFFICES ASSUME Closing PROVE FALSE
    OBVIOUS
  <2>1. PICK i \in DOMAIN squeue : squeue[i].kind = "close"
    BY DEF Closing
  <2>2. \A S, h : squeue \in Seq(S) /\ h \in S /\ squeue' = Append(squeue, h) => Closing'
    BY <2>1, ClosingStays DEF Closing
  <2>3. ASSUME NEW h, squeue' = Append(squeue, h) PROVE FALSE
    <3>1. squeue \in Seq(SenderHandler \cup {h}) /\ h \in SenderHandler \cup {h}
      BY <1>1
    <3> QED BY <1>2, <2>2, <2>3, <3>1
  <2>4. squeue' # squeue
    BY <1>2, <2>1 DEF Closing
  <2>5. ASSUME Head(squeue).kind # "close", squeue' = Tail(squeue) PROVE FALSE
    <3>1. [kind |-> "close"] \in SenderHandler
      BY DEF SenderHandler
    <3>2. \E j \in DOMAIN Tail(squeue) : Tail(squeue)[j].kind = "close"
      BY <1>1, <2>1, <2>5, <3>1, ClosingStays
    <3> QED BY <1>2, <2>5, <3>2 DEF Closing
  <2>6. ~HandleSenderClose
    BY <1>2 DEF HandleSenderClose
  <2>7. ~HandleSend /\ ~HandleWrote /\ ~HandleWriteError
    BY <1>3, <2>5 DEF HandleSend, HandleWrote, HandleWriteError, DoWrite, NextS
  <2>8. ~SenderClose /\ ~WriteFails /\ \A n : ~SendMessage(n) /\ ~Transfer(n)
    BY <2>3, <2>4 DEF SenderClose, WriteFails, SendMessage, Transfer
  <2> QED BY <2>4, <2>6, <2>7, <2>8, SenderSteps DEF sender
<1>6. Have("close")
  BY <1>3, <1>4, <1>5 DEF Ended
<1>7. rqueue' # rqueue
  BY <1>2, <1>6 DEF Have
<1>8. ASSUME NEW h \in RKinds, rqueue' = Append(rqueue, h) PROVE FALSE
  BY <1>1, <1>2, <1>6, <1>8, AddR DEF Have
<1>9. ASSUME rqueue # <<>>, Head(rqueue) # "close",
             rqueue' = Tail(rqueue) \/ \E h \in RKinds : rqueue' = Append(Tail(rqueue), h)
      PROVE  FALSE
  <2>1. Tail(rqueue) \in Seq(RKinds) /\ Has(Tail(rqueue), "close")
    BY <1>1, <1>6, <1>9, TakeR DEF Have
  <2> QED BY <1>2, <1>9, <2>1, AddR DEF Have
<1>10. ~HandleHead /\ ~HandleBadHead /\ ~HandleBody /\ ~HandleReadError
  BY <1>1, <1>9 DEF HandleHead, HandleBadHead, HandleBody, HandleReadError, ReadHead, ReadBody, NextR
<1>11. ~ReadFails /\ ~ReceiverClose /\ ~HandleReceiverClose
  BY <1>1, <1>2, <1>8 DEF ReadFails, ReceiverClose, HandleReceiverClose
<1>12. \A n : ~Receive(n)
  <2>1. reading \in RKinds \/ reading = "none"
    BY <1>1 DEF ReceiverTypeOK
  <2> QED BY <1>7, <1>8, <2>1 DEF Receive
<1>13. \/ \E n \in Sizes : SendMessage(n)
       \/ SenderClose \/ HandleSend \/ HandleWrote \/ HandleWriteError \/ HandleSenderClose
       \/ \E n \in 1..WireCapacity : Transfer(n)
       \/ WriteFails \/ Break \/ Deliver \/ UNCHANGED vars
  BY <1>10, <1>11, <1>12, AllSteps
<1> QED BY <1>7, <1>13 DEF SendMessage, SenderClose, HandleSend, HandleWrote, HandleWriteError,
           HandleSenderClose, Transfer, WriteFails, Break, Deliver, vars, receiver

(* send_message() is the only step that accepts, on_etcp_recv the only one *)
(* that delivers.                                                          *)
LEMMA SaidAndGot ==
  ASSUME [Next]_vars
  PROVE  /\ UNCHANGED accepted \/ \E n \in Sizes : SendMessage(n)
         /\ UNCHANGED delivered \/ Deliver
<1>1. UNCHANGED accepted \/ \E n \in Sizes : SendMessage(n)
  BY AllSteps DEF SenderClose, HandleSend, HandleWrote, HandleWriteError, HandleSenderClose,
     Transfer, Receive, WriteFails, ReadFails, Break, HandleHead, HandleBadHead, HandleBody, Deliver,
     HandleReadError, ReceiverClose, HandleReceiverClose, vars, sender, receiver
<1>2. UNCHANGED delivered \/ Deliver
  BY AllSteps DEF SendMessage, SenderClose, HandleSend, HandleWrote, HandleWriteError, HandleSenderClose,
     Transfer, Receive, WriteFails, ReadFails, Break, HandleHead, HandleBadHead, HandleBody,
     HandleReadError, ReceiverClose, HandleReceiverClose, vars, sender, receiver
<1> QED BY <1>1, <1>2

(* Every step is one of the channel, or does not show.                     *)
LEMMA ChannelStep == IInv /\ StreamInv /\ [Next]_vars => [Channel!Next]_(Channel!vars)
<1> SUFFICES ASSUME IInv, StreamInv, [Next]_vars PROVE [Channel!Next]_(Channel!vars)
  OBVIOUS
<1>1. SenderTypeOK /\ ReceiverTypeOK /\ Len(accepted) \in Nat /\ Len(delivered) \in Nat
  BY DEF IInv, StreamInv, SenderTypeOK, ReceiverTypeOK
<1>2. Ended => Ended'
  BY <1>1, EndedStays
<1>3. Ended \in BOOLEAN /\ Ended' \in BOOLEAN
  BY DEF Ended
<1>4. ASSUME UNCHANGED <<accepted, delivered>> PROVE [Channel!Next]_(Channel!vars)
  <2>1. Said' = Said
    BY <1>4 DEF Said, Messages
  <2>2. CASE Ended'
    <3>1. Ended' = TRUE
      BY <1>3, <2>2
    <3>2. Channel!End
      BY <1>4, <2>1, <3>1 DEF Channel!End, Said, Ended, Closing, Have, Has
    <3> QED BY <3>2 DEF Channel!Next
  <2>3. CASE ~Ended'
    <3>1. Ended' = Ended
      BY <1>2, <1>3, <2>3
    <3> QED BY <1>4, <2>1, <3>1 DEF Channel!vars, Said, Ended, Closing, Have, Has
  <2> QED BY <2>2, <2>3
<1>5. ASSUME NEW n \in Sizes, SendMessage(n) PROVE [Channel!Next]_(Channel!vars)
  <2> DEFINE m == Len(accepted) + 1
  <2>1. m \in 1..MaxMessages /\ Len(accepted') = m /\ delivered' = delivered
    BY <1>1, <1>5, WireAssumption DEF SendMessage, SenderTypeOK, receiver
  <2>2. Said' = Append(Said, m)
    <3>1. Said = [i \in 1..Len(accepted) |-> i] /\ Said' = [i \in 1..m |-> i]
      BY <2>1 DEF Said, Messages
    <3>2. Said \in Seq(Nat) /\ Len(Said) = Len(accepted)
      BY <1>1, <3>1
    <3>3. Said' \in Seq(Nat) /\ Len(Said') = m
      BY <1>1, <3>1
    <3> HIDE DEF m
    <3>4. Append(Said, m) \in Seq(Nat) /\ Len(Append(Said, m)) = m
      BY <1>1, <3>2 DEF m
    <3>5. \A i \in 1..m : Append(Said, m)[i] = i
      BY <1>1, <3>1, <3>2 DEF m
    <3>6. \A i \in 1..m : Said'[i] = Append(Said, m)[i]
      BY <3>1, <3>5
    <3> QED BY <3>3, <3>4, <3>6, SeqEqual
  <2>3. Ended' = Ended
    <3>1. UNCHANGED <<broken, open, ropen, rqueue>>
          /\ squeue' = Append(squeue, [kind |-> "send", m |-> m])
      BY <1>5 DEF SendMessage, receiver
    <3>2. Closing' => Closing
      <4> DEFINE h == [kind |-> "send", m |-> m]
      <4>1. squeue \in Seq(SenderHandler \cup {h}) /\ h \in SenderHandler \cup {h} /\ h.kind = "send"
        BY <1>1 DEF SenderTypeOK
      <4> HIDE DEF h
      <4>2. squeue' = Append(squeue, h)
        BY <3>1 DEF h
      <4>3. \A i \in DOMAIN squeue' : squeue'[i].kind = "close" => i \in DOMAIN squeue /\ squeue[i] = squeue'[i]
        BY <4>1, <4>2, QueueAppend
      <4> QED BY <4>3 DEF Closing
    <3>3. Have("close")' <=> Have("close")
      BY <3>1 DEF Have
    <3>4. Ended' => Ended
      BY <3>1, <3>2, <3>3 DEF Ended
    <3> QED BY <1>2, <1>3, <3>4
  <2> HIDE DEF m
  <2>4. PICK x \in 1..MaxMessages : x = m
    BY <2>1
  <2>5. Channel!Send(x)
    <3>1. [i \in Messages |-> i]' = Append([i \in Messages |-> i], m)
      BY <2>2 DEF Said
    <3>2. UNCHANGED (\/ broken \/ ~open \/ ~ropen
                     \/ \E i \in DOMAIN squeue : squeue[i].kind = "close"
                     \/ \E i \in DOMAIN rqueue : rqueue[i] = "close")
      BY <2>3 DEF Ended, Closing, Have, Has
    <3> QED BY <2>1, <2>4, <3>1, <3>2 DEF Channel!Send
  <2> QED BY <2>5 DEF Channel!Next
<1>6. CASE Deliver
  <2>1. Framed
    BY <1>6 DEF StreamInv, Stranger, Deliver
  <2>2. delivered' = Append(delivered, Len(delivered) + 1) /\ Len(delivered) < Len(accepted)
    BY <1>1, <1>6, <2>1, DeliverNext
  <2>3. Len(Said) = Len(accepted) /\ Said[Len(delivered) + 1] = Len(delivered) + 1
    <3>1. Len(delivered) + 1 \in 1..Len(accepted)
      BY <1>1, <2>2
    <3> QED BY <1>1, <3>1 DEF Said, Messages
  <2>4. Said' = Said /\ Ended' = Ended
    <3>1. UNCHANGED <<accepted, broken, open, ropen, squeue, rqueue>>
      BY <1>6 DEF Deliver, sender
    <3> QED BY <3>1 DEF Said, Messages, Ended, Closing, Have
  <2>5. Channel!Deliver
    BY <2>2, <2>3, <2>4 DEF Channel!Deliver, Said, Ended, Closing, Have, Has
  <2> QED BY <2>5 DEF Channel!Next
<1> QED BY <1>4, <1>5, <1>6, SaidAndGot

(* The stream is a channel: whole messages, in order, without gap or       *)
(* duplicate, if every packet is small enough for its header to announce   *)
(* its size.                                                               *)
THEOREM StreamIsChannel ==
  ASSUME Announceable
  PROVE  Spec => Channel!Safety
<1>1. Init => Channel!Init
  <2> SUFFICES ASSUME Init PROVE Channel!Init
    OBVIOUS
  <2>1. Said = <<>>
    <3>1. Len(accepted) = 0 /\ 1..0 = {}
      BY DEF Init
    <3> QED BY <3>1 DEF Said, Messages
  <2>2. Ended \in BOOLEAN
    BY DEF Ended
  <2> QED BY <2>1, <2>2 DEF Channel!Init, Init, Said, Ended, Closing, Have, Has
<1> QED BY <1>1, ChannelStep, StreamInvHolds, PTL DEF Spec, Channel!Safety
=============================================================================
