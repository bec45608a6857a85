------------------------------ MODULE EtcpStream ------------------------------
(***************************************************************************)
(* One direction of an ETCP connection: send_message() and do_write() at   *)
(* one end, do_read() at the other.  The code of the two ends is the same  *)
(* in src/src/etcp_server/etcp_session.cpp and                             *)
(* src/src/etcp_client/etcp_client_impl.cpp; the model has one sender and  *)
(* one receiver, each with the one thread that runs its io_context, and    *)
(* between them a TCP connection that transfers any number of bytes at a   *)
(* time and may break.                                                     *)
(*                                                                         *)
(* A message is its index among those send_message() accepted; a byte      *)
(* knows its place in the frame it belongs to, so that a decoder that has  *)
(* lost its alignment can tell.  The peer may also be a stranger that      *)
(* writes something else and goes.                                         *)
(***************************************************************************)
EXTENDS Naturals, Sequences

CONSTANTS
    Sizes,        \* sizes of the packets users send
    HeadSize,     \* sizeof(EtcpPrefix), sizeof(EtcpHeader)
    SizeModulus,  \* sizes are announced modulo this: 2^32 in the code
    MaxMessages,  \* bound: messages a run sends
    WireCapacity  \* bound: bytes in flight

ASSUME SizesAssumption == Sizes \subseteq Nat \ {0}
ASSUME HeadSizeAssumption == HeadSize \in Nat \ {0}
ASSUME ModulusAssumption == SizeModulus \in Nat \ {0}
ASSUME WireAssumption == MaxMessages \in Nat /\ WireCapacity \in Nat /\ WireCapacity >= HeadSize

VARIABLES
    accepted,         \* sizes of the messages send_message() returned true for
    open,             \* the sender's socket is open
    squeue,           \* handlers ready on the sender's context
    m_send_data_list, \* the chunks to write, the one being written first
    writing,          \* a write of the first chunk is pending
    done,             \* bytes of it that the connection has taken
    wire,             \* bytes in flight
    broken,           \* the connection was reset
    ropen,            \* the receiver's socket is open
    rqueue,           \* handlers ready on the receiver's context
    rpc,              \* "deliver" inside the handler of a body, else "idle"
    reading,          \* the read pending at the receiver
    m_recv_head,      \* bytes read into m_recv_head
    m_recv_data,      \* bytes read into m_recv_data
    size,             \* the size that the last header announced
    delivered,        \* messages handed to on_etcp_recv
    signErrors        \* "protocol sign check failed" reports

sender == <<accepted, open, squeue, m_send_data_list, writing, done>>
receiver == <<ropen, rqueue, rpc, reading, m_recv_head, m_recv_data, size,
              delivered, signErrors>>
vars == <<sender, wire, broken, receiver>>

-----------------------------------------------------------------------------
(* Chunks and bytes.                                                      *)
Chunk(part, m) == [part |-> part, m |-> m]
ChunkSize(ch) == IF ch.part = "head" THEN HeadSize ELSE accepted[ch.m]

Byte(ch, i) == [part |-> ch.part, m |-> ch.m, at |-> i]
Bytes(ch, first, last) == [i \in 1..(last - first + 1) |-> Byte(ch, first + i - 1)]
Whole(ch) == Bytes(ch, 1, ChunkSize(ch))

(* The two chunks of a message; a slip: queued in the wrong order.        *)
FrameSwapped(m) == <<Chunk("body", m), Chunk("head", m)>>

Frame(m) == <<Chunk("head", m), Chunk("body", m)>>

Messages == 1..Len(accepted)

(* Slip: a field that is too narrow for the largest packet.               *)
AnnouncedNarrow(m) == accepted[m] % (SizeModulus - 1)

(* static_cast<uint32_t>(pack.size()): what the header of a message says.  *)
Announced(m) == accepted[m] % SizeModulus

(* Every packet is small enough for a header to announce.                 *)
Announceable == \A n \in Sizes : n < SizeModulus

(* PROTOCOL_SIGN == prefix->sign: the bytes are a header, read in place.  *)
(* EtcpPrefix::encode and decode undo each other, so that it is read as   *)
(* what was written.                                                      *)
SignMatches(bytes) == \E m \in Messages : bytes = Whole(Chunk("head", m))
HeaderOf(bytes) == CHOOSE m \in Messages : bytes = Whole(Chunk("head", m))

(* What on_etcp_recv is given: a message, or 0 for anything else.         *)
Received(bytes) == IF \E m \in Messages : bytes = Whole(Chunk("body", m))
                   THEN CHOOSE m \in Messages : bytes = Whole(Chunk("body", m))
                   ELSE 0

Least(a, b) == IF a < b THEN a ELSE b

(* What a peer that does not speak the protocol writes.                   *)
Noise == [i \in 1..HeadSize |-> [part |-> "noise", m |-> 0, at |-> i]]

Init ==
    /\ accepted = <<>>
    /\ wire \in {<<>>, Noise}
    /\ open = (wire = <<>>)
    /\ squeue = <<>>
    /\ m_send_data_list = <<>>
    /\ writing = FALSE
    /\ done = 0
    /\ broken = FALSE
    /\ ropen = TRUE
    /\ rqueue = <<>>
    /\ rpc = "idle"
    /\ reading = "head"
    /\ m_recv_head = <<>>
    /\ m_recv_data = <<>>
    /\ size = 0
    /\ delivered = <<>>
    /\ signErrors = 0

-----------------------------------------------------------------------------
(* The sender *)

(* Slip: a message posted that was not counted.                           *)
SendUncounted(n) ==
    /\ open
    /\ Len(accepted) < MaxMessages
    /\ squeue' = Append(squeue, [kind |-> "send", m |-> Len(accepted) + 1])
    /\ UNCHANGED <<accepted, open, m_send_data_list, writing, done, wire,
                   broken, receiver>>

(* send_message() from any thread: the socket is open, the packet is not  *)
(* empty; post the rest.                                                  *)
SendMessage(n) ==
    /\ open
    /\ Len(accepted) < MaxMessages
    /\ accepted' = Append(accepted, n)
    /\ squeue' = Append(squeue, [kind |-> "send", m |-> Len(accepted) + 1])
    /\ UNCHANGED <<open, m_send_data_list, writing, done, wire, broken, receiver>>

(* close() from any thread posts the closing.                             *)
SenderClose ==
    /\ open
    /\ \A i \in DOMAIN squeue : squeue[i].kind # "close"
    /\ squeue' = Append(squeue, [kind |-> "close"])
    /\ UNCHANGED <<accepted, open, m_send_data_list, writing, done, wire,
                   broken, receiver>>

NextS(kind) == squeue # <<>> /\ Head(squeue).kind = kind

(* do_write() with the list it finds: the socket takes the first chunk,   *)
(* or the write fails at once because the socket is closed.               *)
DoWrite(rest) ==
    IF open THEN writing' = TRUE /\ done' = 0 /\ squeue' = rest
            ELSE /\ squeue' = Append(rest, [kind |-> "wrote", err |-> TRUE])
                 /\ UNCHANGED <<writing, done>>

(* The posted part of send_message(): nothing if the socket was closed    *)
(* meanwhile; else queue header and packet, and write unless a write is   *)
(* under way.                                                             *)
HandleSend ==
    LET m == Head(squeue).m IN
    /\ NextS("send")
    /\ IF open
       THEN /\ m_send_data_list' = m_send_data_list \o Frame(m)
            /\ IF Len(m_send_data_list') = 2
               THEN DoWrite(Tail(squeue))
               ELSE squeue' = Tail(squeue) /\ UNCHANGED <<writing, done>>
       ELSE squeue' = Tail(squeue) /\ UNCHANGED <<m_send_data_list, writing, done>>
    /\ UNCHANGED <<accepted, open, wire, broken, receiver>>

(* Slip: the next chunk is not written.                                   *)
HandleWroteOnce ==
    /\ NextS("wrote") /\ ~Head(squeue).err
    /\ m_send_data_list' = Tail(m_send_data_list)
    /\ squeue' = Tail(squeue)
    /\ UNCHANGED <<accepted, open, writing, done, wire, broken, receiver>>

(* The completion of a write: drop the chunk and write the next (there    *)
(* is one, or the code only reports that there is none).                  *)
HandleWrote ==
    /\ NextS("wrote") /\ ~Head(squeue).err
    /\ m_send_data_list' = IF m_send_data_list = <<>> THEN <<>> ELSE Tail(m_send_data_list)
    /\ IF m_send_data_list' # <<>>
       THEN DoWrite(Tail(squeue))
       ELSE squeue' = Tail(squeue) /\ UNCHANGED <<writing, done>>
    /\ UNCHANGED <<accepted, open, wire, broken, receiver>>

(* Slip: a failed write leaves the list as it is.                         *)
HandleWriteErrorOnly ==
    /\ NextS("wrote") /\ Head(squeue).err
    /\ squeue' = Tail(squeue)
    /\ UNCHANGED <<accepted, open, m_send_data_list, writing, done, wire,
                   broken, receiver>>

(* A failed write drops everything queued.                                *)
HandleWriteError ==
    /\ NextS("wrote") /\ Head(squeue).err
    /\ m_send_data_list' = <<>>
    /\ squeue' = Tail(squeue)
    /\ UNCHANGED <<accepted, open, writing, done, wire, broken, receiver>>

(* The posted part of close(): a pending write completes with an error.   *)
HandleSenderClose ==
    /\ NextS("close")
    /\ open' = FALSE
    /\ writing' = FALSE
    /\ squeue' = IF writing THEN Append(Tail(squeue), [kind |-> "wrote", err |-> TRUE])
                 ELSE Tail(squeue)
    /\ UNCHANGED <<accepted, m_send_data_list, done, wire, broken, receiver>>

-----------------------------------------------------------------------------
(* The network *)

(* The connection takes the next bytes of the chunk being written; the    *)
(* write completes with its last byte.                                    *)
Transfer(n) ==
    LET ch == Head(m_send_data_list) IN
    /\ writing /\ ~broken
    /\ n <= Least(ChunkSize(ch) - done, WireCapacity - Len(wire))
    /\ wire' = wire \o Bytes(ch, done + 1, done + n)
    /\ done' = done + n
    /\ IF done' = ChunkSize(ch)
       THEN /\ writing' = FALSE
            /\ squeue' = Append(squeue, [kind |-> "wrote", err |-> FALSE])
       ELSE UNCHANGED <<writing, squeue>>
    /\ UNCHANGED <<accepted, open, m_send_data_list, broken, receiver>>

(* The pending write meets the reset.                                     *)
WriteFails ==
    /\ writing /\ broken
    /\ writing' = FALSE
    /\ squeue' = Append(squeue, [kind |-> "wrote", err |-> TRUE])
    /\ UNCHANGED <<accepted, open, m_send_data_list, done, wire, broken, receiver>>

(* The buffer the pending read fills, and how much it wants.              *)
Buffer == IF reading = "head" THEN m_recv_head ELSE m_recv_data
Wanted == IF reading = "head" THEN HeadSize ELSE size

(* Bytes reach the pending read; it completes when its buffer is full.    *)
Receive(n) ==
    /\ reading # "none"
    /\ n <= Least(Len(wire), Wanted - Len(Buffer))
    /\ wire' = SubSeq(wire, n + 1, Len(wire))
    /\ IF reading = "head"
       THEN m_recv_head' = m_recv_head \o SubSeq(wire, 1, n) /\ UNCHANGED m_recv_data
       ELSE m_recv_data' = m_recv_data \o SubSeq(wire, 1, n) /\ UNCHANGED m_recv_head
    /\ IF Len(Buffer) + n = Wanted
       THEN reading' = "none" /\ rqueue' = Append(rqueue, reading)
       ELSE UNCHANGED <<reading, rqueue>>
    /\ UNCHANGED <<sender, broken, ropen, rpc, size, delivered, signErrors>>

(* The pending read meets the reset, or the end of what the sender wrote  *)
(* before it closed.                                                      *)
ReadFails ==
    /\ reading # "none"
    /\ broken \/ (~open /\ wire = <<>>)
    /\ reading' = "none"
    /\ rqueue' = Append(rqueue, "error")
    /\ UNCHANGED <<sender, wire, broken, ropen, rpc, m_recv_head, m_recv_data,
                   size, delivered, signErrors>>

(* The connection is reset and what was in flight is lost.                *)
Break ==
    /\ ~broken
    /\ broken' = TRUE
    /\ wire' = <<>>
    /\ UNCHANGED <<sender, receiver>>

-----------------------------------------------------------------------------
(* The receiver *)

NextR(kind) == rpc = "idle" /\ rqueue # <<>> /\ Head(rqueue) = kind

(* async_read of the header: on a closed socket it fails at once.         *)
ReadHead(rest) ==
    IF ropen THEN reading' = "head" /\ m_recv_head' = <<>> /\ rqueue' = rest
             ELSE rqueue' = Append(rest, "error") /\ UNCHANGED <<reading, m_recv_head>>

(* async_read of the body, likewise.                                      *)
ReadBody(rest) ==
    IF ropen THEN reading' = "body" /\ m_recv_data' = <<>> /\ rqueue' = rest
             ELSE rqueue' = Append(rest, "error") /\ UNCHANGED <<reading, m_recv_data>>

(* A header: its sign, its size, and the read of the body, or of the next *)
(* header if the size it announces is zero.                               *)
HandleHead ==
    /\ NextR("head")
    /\ SignMatches(m_recv_head)
    /\ size' = Announced(HeaderOf(m_recv_head))
    /\ IF size' = 0 THEN ReadHead(Tail(rqueue)) /\ UNCHANGED m_recv_data
                    ELSE ReadBody(Tail(rqueue)) /\ UNCHANGED m_recv_head
    /\ UNCHANGED <<sender, wire, broken, ropen, rpc, delivered, signErrors>>

(* A wrong sign: on_error() and do_close().                               *)
HandleBadHead ==
    /\ NextR("head")
    /\ ~SignMatches(m_recv_head)
    /\ signErrors' = signErrors + 1
    /\ rqueue' = Append(Tail(rqueue), "close")
    /\ UNCHANGED <<sender, wire, broken, ropen, rpc, reading, m_recv_head,
                   m_recv_data, size, delivered>>

(* A body: first the next header is asked for ...                         *)
HandleBody ==
    /\ NextR("body")
    /\ ReadHead(Tail(rqueue))
    /\ rpc' = "deliver"
    /\ UNCHANGED <<sender, wire, broken, ropen, m_recv_data, size, delivered, signErrors>>

(* ... then m_recv_data is given away.                                    *)
Deliver ==
    /\ rpc = "deliver"
    /\ delivered' = Append(delivered, Received(m_recv_data))
    /\ m_recv_data' = <<>>
    /\ rpc' = "idle"
    /\ UNCHANGED <<sender, wire, broken, ropen, rqueue, reading, m_recv_head,
                   size, signErrors>>

(* A failed read: on_close().                                             *)
HandleReadError ==
    /\ NextR("error")
    /\ rqueue' = Tail(rqueue)
    /\ UNCHANGED <<sender, wire, broken, ropen, rpc, reading, m_recv_head,
                   m_recv_data, size, delivered, signErrors>>

(* close() from any thread, and what it posts: the pending read fails and *)
(* the sender will meet a reset.                                          *)
ReceiverClose ==
    /\ ropen
    /\ \A i \in DOMAIN rqueue : rqueue[i] # "close"
    /\ rqueue' = Append(rqueue, "close")
    /\ UNCHANGED <<sender, wire, broken, ropen, rpc, reading, m_recv_head,
                   m_recv_data, size, delivered, signErrors>>

HandleReceiverClose ==
    /\ NextR("close")
    /\ ropen' = FALSE
    /\ reading' = "none"
    /\ rqueue' = IF reading # "none" THEN Append(Tail(rqueue), "error") ELSE Tail(rqueue)
    /\ broken' = TRUE
    /\ wire' = <<>>
    /\ UNCHANGED <<sender, rpc, m_recv_head, m_recv_data, size, delivered, signErrors>>

-----------------------------------------------------------------------------
SenderStep == HandleSend \/ HandleWrote \/ HandleWriteError \/ HandleSenderClose

ReceiverStep ==
    \/ HandleHead \/ HandleBadHead \/ HandleBody \/ Deliver
    \/ HandleReadError \/ HandleReceiverClose

NetworkStep ==
    \/ \E n \in 1..WireCapacity : Transfer(n) \/ Receive(n)
    \/ WriteFails
    \/ ReadFails

Users == (\E n \in Sizes : SendMessage(n)) \/ SenderClose \/ ReceiverClose

Next == SenderStep \/ ReceiverStep \/ NetworkStep \/ Users \/ Break

Spec == Init /\ [][Next]_vars

(* Both threads keep running handlers, and a connection that is not reset *)
(* moves bytes; nobody has to send, close or break.                       *)
Fairness == WF_vars(SenderStep) /\ WF_vars(ReceiverStep) /\ WF_vars(NetworkStep)

FairSpec == Spec /\ Fairness

-----------------------------------------------------------------------------
(* Properties *)

ChunkType == [part : {"head", "body"}, m : Messages]
SenderHandler == [kind : {"send"}, m : Messages]
                 \cup [kind : {"wrote"}, err : BOOLEAN] \cup [kind : {"close"}]

SenderTypeOK ==
    /\ accepted \in Seq(Sizes)
    /\ open \in BOOLEAN /\ writing \in BOOLEAN
    /\ squeue \in Seq(SenderHandler)
    /\ m_send_data_list \in Seq(ChunkType)
    /\ done \in Nat

(* The type invariant.                                                     *)
TypeOK ==
    /\ SenderTypeOK
    /\ broken \in BOOLEAN /\ ropen \in BOOLEAN
    /\ Len(wire) <= WireCapacity
    /\ rpc \in {"idle", "deliver"}
    /\ reading \in {"none", "head", "body"}
    /\ size \in 0 .. SizeModulus - 1
    /\ delivered \in Seq(Nat)

(* do_write()'s two RUN_LOG_CRI reports never happen: whenever there is   *)
(* something in m_send_data_list exactly one write of it is pending or    *)
(* completed, whatever the order of posted sends, completions and close;  *)
(* a completion never finds the list empty.                               *)
Wrote(i) == squeue[i].kind = "wrote"
OneWrite ==
    /\ \A i, j \in DOMAIN squeue : Wrote(i) /\ Wrote(j) => i = j
    /\ \A i \in DOMAIN squeue : Wrote(i) => ~writing
    /\ m_send_data_list # <<>> <=> writing \/ \E i \in DOMAIN squeue : Wrote(i)

(* Each header in the list is followed by its packet: a frame is queued as *)
(* a whole and never split, even when a failed write has emptied the list. *)
FramesPaired ==
    \A i \in DOMAIN m_send_data_list :
        m_send_data_list[i].part = "head" =>
            /\ i < Len(m_send_data_list)
            /\ m_send_data_list[i + 1] = Chunk("body", m_send_data_list[i].m)

(* The receiver never loses the frame boundary: only a peer that does not *)
(* speak the protocol is reported for a wrong sign, once, however the      *)
(* bytes were cut on the way, and no message is torn by the read that      *)
(* do_read() has under way while on_etcp_recv is called.  So it is if      *)
(* every packet is Announceable; a larger one is announced too short, and  *)
(* what is left of it is taken for headers.                                *)
NoFalseAlarm ==
    /\ signErrors <= 1
    /\ signErrors = 1 => m_recv_head = Noise
    /\ \A i \in DOMAIN delivered : delivered[i] # 0

(* Refinement: the messages delivered are those accepted, in order, and   *)
(* all of them while nobody closes and the connection holds, again if     *)
(* every packet is Announceable.                                          *)
Channel == INSTANCE MessageChannel
             WITH Messages <- 1..MaxMessages,
                  sent <- [i \in Messages |-> i],
                  got <- delivered,
                  ended <- \/ broken \/ ~open \/ ~ropen
                           \/ \E i \in DOMAIN squeue : squeue[i].kind = "close"
                           \/ \E i \in DOMAIN rqueue : rqueue[i] = "close"
ImplementsChannel == Channel!Spec
=============================================================================
