------------------------------ MODULE Multicast ------------------------------
(***************************************************************************)
(* MulticastHelperImpl (multicast_helper_impl.cpp), after a successful     *)
(* init().  send_data() frames the data and posts them to the send         *)
(* context, whose thread keeps m_send_data_list and one async_send_to at a *)
(* time.  The receive context's thread queues what arrives, the handle     *)
(* thread takes the queue, unframes and delivers.                          *)
(*                                                                         *)
(* UDP is the environment: any datagram may arrive, in any order and any   *)
(* number of times.  A receive that fails is repeated and changes nothing. *)
(* m_running is a plain bool that exit() clears without a mutex.  The      *)
(* sockets stay open after exit(), so a second init() fails; the module    *)
(* ends with exit().                                                       *)
(***************************************************************************)
EXTENDS Naturals, Sequences

CONSTANTS
    Byte,
    Prefix, Suffix, \* m_protocol_prefix, m_protocol_suffix
    BufferSize,     \* of m_recv_buffer
    Listens         \* TRUE: init() was given a MulticastRecver

VARIABLES
    running,   \* m_running
    posted,    \* messages in handlers posted to the send context
    list,      \* m_send_data_list
    flying,    \* the buffers of the async_send_to under way
    stopped,   \* contexts that were stopped and whose threads were joined
    queue,     \* m_recv_data_list
    batch,     \* recv_data_list of handle_data()
    handler,   \* where the handle thread stands
    owner,     \* where exit() stands
    accepted,  \* history: messages for which send_data() returned true
    wire,      \* history: datagrams that were sent
    arrived,   \* history: datagrams that were received
    done,      \* history: those the handle thread has dealt with
    delivered  \* history: [at, data], from the at-th of these

sending == <<posted, list, flying, accepted, wire>>
receiving == <<queue, batch, arrived, done, delivered>>
vars == <<running, sending, stopped, receiving, handler, owner>>

Data == Seq(Byte)

-----------------------------------------------------------------------------
(* The frame *)

Fits(data) == data # <<>> /\ Len(Prefix) + Len(data) + Len(Suffix) <= BufferSize
PacketMessage(data) == (Prefix \o data) \o Suffix

Unpacks(message) ==
    /\ Len(message) > Len(Prefix) + Len(Suffix)
    /\ SubSeq(message, 1, Len(Prefix)) = Prefix
    /\ SubSeq(message, Len(message) - Len(Suffix) + 1, Len(message)) = Suffix
UnpackMessage(message) == SubSeq(message, Len(Prefix) + 1, Len(message) - Len(Suffix))

Init ==
    /\ running = TRUE /\ stopped = {} /\ owner = "up"
    /\ handler = IF Listens THEN "test" ELSE "none"
    /\ posted = <<>> /\ list = <<>> /\ flying = <<>> /\ accepted = <<>> /\ wire = <<>>
    /\ queue = <<>> /\ batch = <<>> /\ arrived = <<>> /\ done = <<>> /\ delivered = <<>>

-----------------------------------------------------------------------------
(* Sending *)

SendData(data) ==
    /\ running /\ Fits(data)
    /\ posted' = Append(posted, PacketMessage(data))
    /\ accepted' = Append(accepted, PacketMessage(data))
    /\ UNCHANGED <<running, list, flying, wire, stopped, receiving, handler, owner>>

(* The posted handler, with do_send() for the first of the list.           *)
HandlePost ==
    /\ "send" \notin stopped /\ posted # <<>>
    /\ posted' = Tail(posted)
    /\ IF running
       THEN /\ list' = Append(list, Head(posted))
            /\ flying' = IF list = <<>> THEN Append(flying, Head(posted)) ELSE flying
       ELSE UNCHANGED <<list, flying>>
    /\ UNCHANGED <<running, accepted, wire, stopped, receiving, handler, owner>>

(* do_send(): async_send_to has sent a buffer.  The front is popped and    *)
(* the next one started, also when the helper is about to exit.            *)
HandleSent ==
    /\ "send" \notin stopped /\ flying # <<>>
    /\ wire' = Append(wire, Head(flying))
    /\ IF list = <<>>
       THEN flying' = Tail(flying) /\ UNCHANGED list
       ELSE /\ list' = Tail(list)
            /\ flying' = IF Tail(list) = <<>> THEN Tail(flying)
                                              ELSE Append(Tail(flying), Head(Tail(list)))
    /\ UNCHANGED <<running, posted, accepted, stopped, receiving, handler, owner>>

(* It has failed: while the helper runs the same buffer is tried again.    *)
HandleSendError ==
    /\ "send" \notin stopped /\ flying # <<>>
    /\ flying' = IF running /\ list # <<>> THEN Append(Tail(flying), Head(list))
                                           ELSE Tail(flying)
    /\ UNCHANGED <<running, posted, list, accepted, wire, stopped, receiving, handler, owner>>

-----------------------------------------------------------------------------
(* Receiving *)

(* do_recv(): what fits in the buffer of a datagram that arrived.  The     *)
(* handle thread holds the mutex when it is about to wait.                 *)
Arrive(message) ==
    /\ Listens /\ "recv" \notin stopped /\ handler # "about"
    /\ Len(message) <= BufferSize
    /\ queue' = Append(queue, message)
    /\ arrived' = Append(arrived, message)
    /\ handler' = IF handler = "wait" THEN "test" ELSE handler
    /\ UNCHANGED <<running, sending, stopped, batch, done, delivered, owner>>

(* handle_data(): swap() with the queue, or nothing to do.                 *)
HandlerTest ==
    /\ handler = "test"
    /\ IF running /\ queue # <<>>
       THEN batch' = queue /\ queue' = <<>> /\ handler' = "deliver"
       ELSE handler' = (IF running THEN "about" ELSE "ended") /\ UNCHANGED <<batch, queue>>
    /\ UNCHANGED <<running, sending, stopped, arrived, done, delivered, owner>>

HandlerWaits ==
    /\ handler = "about"
    /\ handler' = "wait"
    /\ UNCHANGED <<running, sending, stopped, receiving, owner>>

(* One of the batch; the rest of it is dropped when the helper exits.      *)
Deliver ==
    /\ handler = "deliver" /\ running /\ batch # <<>>
    /\ done' = Append(done, Head(batch))
    /\ batch' = Tail(batch)
    /\ delivered' = IF Unpacks(Head(batch))
                    THEN Append(delivered, [at |-> Len(done) + 1,
                                            data |-> UnpackMessage(Head(batch))])
                    ELSE delivered
    /\ UNCHANGED <<running, sending, stopped, queue, arrived, handler, owner>>

HandlerNext ==
    /\ handler = "deliver" /\ (~running \/ batch = <<>>)
    /\ handler' = "test" /\ batch' = <<>>
    /\ UNCHANGED <<running, sending, stopped, queue, arrived, done, delivered, owner>>

-----------------------------------------------------------------------------
(* exit() *)

Exit ==
    /\ owner = "up"
    /\ running' = FALSE
    /\ owner' = "send"
    /\ UNCHANGED <<sending, stopped, receiving, handler>>

ExitStops(context, next) ==
    /\ owner = context
    /\ stopped' = stopped \cup {context}
    /\ owner' = next
    /\ UNCHANGED <<running, sending, receiving, handler>>

(* notify_one(), missed by a thread that does not wait yet                 *)
ExitNotifies ==
    /\ owner = "notify"
    /\ handler' = IF handler = "wait" THEN "test" ELSE handler
    /\ owner' = "join"
    /\ UNCHANGED <<running, sending, stopped, receiving>>

ExitJoins ==
    /\ owner = "join" /\ handler \in {"ended", "none"}
    /\ owner' = "exited"
    /\ list' = <<>> /\ queue' = <<>>
    /\ UNCHANGED <<running, posted, flying, accepted, wire, stopped,
                   batch, arrived, done, delivered, handler>>

Next ==
    \/ \E data \in Data : SendData(data) \/ Arrive(data)
    \/ HandlePost \/ HandleSent \/ HandleSendError
    \/ HandlerTest \/ HandlerWaits \/ Deliver \/ HandlerNext
    \/ Exit \/ ExitStops("send", "recv") \/ ExitStops("recv", "notify")
    \/ ExitNotifies \/ ExitJoins

Spec == Init /\ [][Next]_vars

-----------------------------------------------------------------------------
(* Properties *)

(* As long as the helper runs an async_send_to is under way exactly when   *)
(* there is something to send, and never two: the one under way uses the   *)
(* front of the list, which stays there until it has completed.            *)
OneSend ==
    "send" \notin stopped =>
        /\ flying = <<>> \/ (list # <<>> /\ flying = <<Head(list)>>)
        /\ running /\ list # <<>> => flying # <<>>

(* What was sent is the beginning of what send_data() accepted, each       *)
(* message once and in order although failed sends are repeated; while the *)
(* helper runs the rest is on its way.                                     *)
SentInOrder ==
    \E rest \in Seq(Data) :
        /\ accepted = (wire \o list) \o rest
        /\ running => rest = posted

(* The handle thread gives each datagram to the receiver at most once, in  *)
(* the order of arrival, and what it gives is what send_data() must have   *)
(* framed to make that datagram.                                           *)
DeliveredOnce ==
    /\ \E rest \in Seq(Data) : arrived = done \o rest
    /\ \A i \in 1 .. Len(delivered) :
          /\ delivered[i].at \in 1 .. Len(done)
          /\ delivered[i].data # <<>>
          /\ done[delivered[i].at] = PacketMessage(delivered[i].data)
    /\ \A i, j \in 1 .. Len(delivered) : i < j => delivered[i].at < delivered[j].at
=============================================================================
