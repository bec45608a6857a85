-------------------------------- MODULE Relay --------------------------------
(***************************************************************************)
(* A relay session: TcpForwardSession and TcpGatewaySession, which are the *)
(* same code but for their names (tcp_forward_session.cpp,                 *)
(* tcp_gateway_session.cpp).  It joins two TCP connections, `near` towards *)
(* the one who asked and `far` towards the target, and for each direction  *)
(* repeats: read what there is into the direction's buffer, write all of   *)
(* it, read again.  Any error closes both connections.                     *)
(*                                                                         *)
(* All handlers of a session run on one thread.  A completion and its      *)
(* handler are one step: what was completed and not handled when stop()    *)
(* runs is lost, as what is still in the buffers.                          *)
(*                                                                         *)
(* A connection is a record: the bytes in flight `down` (towards the       *)
(* target) and `up`, and the ends that have closed or finished.  Module    *)
(* Tunnel puts two relays in a row; Spec below is one relay between peers  *)
(* that may do anything.                                                   *)
(***************************************************************************)
EXTENDS Naturals, Sequences

CONSTANTS
    Bytes,      \* what peers may write
    BufferSize, \* size of m_local_buffer and m_remote_buffer
    Capacity    \* bytes a connection holds in each direction

VARIABLES
    near,  \* the connection whose far end the session holds (m_remote_socket
           \* of the gateway's session, m_local_socket of the forward server's)
    far,   \* the connection whose near end the session holds
    chain, \* chain[d]: the operation under way in direction d, with its data
    fed,   \* history: bytes that were given to the session, by direction
    taken  \* history: bytes that its peers received, by direction

Dirs == {"down", "up"}

-----------------------------------------------------------------------------
(* TCP *)

Link(down, up, shut) == [down |-> down, up |-> up, shut |-> shut]
NewLink == Link(<<>>, <<>>, {})

(* n bytes leave the connection in direction d, or data enter it.          *)
Drop(link, d, n) == [link EXCEPT ![d] = SubSeq(@, n + 1, Len(@))]
Put(link, d, data) == [link EXCEPT ![d] = @ \o data]
Shut(link, end) == [link EXCEPT !.shut = @ \cup {end}]

Room(link, d) == Capacity - Len(link[d])
Broken(link) == link.shut # {}

-----------------------------------------------------------------------------
(* The session *)

Reading == [op |-> "read", data |-> <<>>]
Writing(data) == [op |-> "write", data |-> data]
Idle == [op |-> "none", data |-> <<>>]

Stopped == chain["down"].op = "none"

(* start(): a read in each direction.                                      *)
Started == [d \in Dirs |-> Reading]

Source(d) == IF d = "down" THEN near ELSE far
Sink(d) == IF d = "down" THEN far ELSE near

\* A slip: the buffer is read into again while it is being written.
ReadAhead(d, n) ==
    /\ chain[d].op # "none"
    /\ n \in 1 .. BufferSize /\ n <= Len(Source(d)[d])
    /\ chain' = [chain EXCEPT ![d] = Writing(SubSeq(Source(d)[d], 1, n))]
    /\ IF d = "down" THEN near' = Drop(near, d, n) /\ UNCHANGED far
                     ELSE far' = Drop(far, d, n) /\ UNCHANGED near

(* do_recv(): async_read_some has n bytes, async_write is started.         *)
ReadSome(d, n) ==
    /\ chain[d].op = "read"
    /\ n \in 1 .. BufferSize /\ n <= Len(Source(d)[d])
    /\ chain' = [chain EXCEPT ![d] = Writing(SubSeq(Source(d)[d], 1, n))]
    /\ IF d = "down" THEN near' = Drop(near, d, n) /\ UNCHANGED far
                     ELSE far' = Drop(far, d, n) /\ UNCHANGED near

(* do_recv(): n more bytes are out; after the last of them (transfer_all)  *)
(* the next read is started.                                               *)
WriteSome(d, n) ==
    LET data == chain[d].data
        rest == SubSeq(data, n + 1, Len(data))
    IN  /\ chain[d].op = "write"
        /\ n \in 1 .. Len(data) /\ n <= Room(Sink(d), d)
        /\ chain' = [chain EXCEPT ![d] = IF rest = <<>> THEN Reading ELSE Writing(rest)]
        /\ IF d = "down" THEN far' = Put(far, d, SubSeq(data, 1, n)) /\ UNCHANGED near
                         ELSE near' = Put(near, d, SubSeq(data, 1, n)) /\ UNCHANGED far

(* A read meets the end of its connection, or an operation its failure.    *)
Fails(d) ==
    \/ chain[d].op = "read" /\ Broken(Source(d))
    \/ chain[d].op = "write" /\ Broken(Sink(d))

(* Slip: only the connection that failed is closed.                        *)
StopHalf ==
    /\ \E d \in Dirs : Fails(d)
    /\ chain' = [d \in Dirs |-> Idle]
    /\ IF Broken(near) THEN near' = Shut(near, "far") /\ UNCHANGED far
                       ELSE far' = Shut(far, "near") /\ UNCHANGED near

(* stop().  The operation that close() aborts comes back with an error and *)
(* stops the session again, to no effect.                                  *)
Stop ==
    /\ \E d \in Dirs : Fails(d)
    /\ chain' = [d \in Dirs |-> Idle]
    /\ near' = Shut(near, "far")
    /\ far' = Shut(far, "near")

Step ==
    \/ \E d \in Dirs, n \in 1 .. BufferSize : ReadSome(d, n) \/ WriteSome(d, n)
    \/ Stop

-----------------------------------------------------------------------------
(* Peers that write, read and leave as they like *)

Init ==
    /\ near = NewLink /\ far = NewLink
    /\ chain = Started
    /\ fed = [d \in Dirs |-> <<>>] /\ taken = [d \in Dirs |-> <<>>]

Feed(d, b) ==
    /\ Room(Source(d), d) > 0
    /\ (IF d = "down" THEN "near" ELSE "far") \notin Source(d).shut
    /\ fed' = [fed EXCEPT ![d] = Append(@, b)]
    /\ IF d = "down" THEN near' = Put(near, d, <<b>>) /\ UNCHANGED far
                     ELSE far' = Put(far, d, <<b>>) /\ UNCHANGED near
    /\ UNCHANGED <<chain, taken>>

Take(d) ==
    /\ Sink(d)[d] # <<>>
    /\ taken' = [taken EXCEPT ![d] = Append(@, Head(Sink(d)[d]))]
    /\ IF d = "down" THEN far' = Drop(far, d, 1) /\ UNCHANGED near
                     ELSE near' = Drop(near, d, 1) /\ UNCHANGED far
    /\ UNCHANGED <<chain, fed>>

Leave ==
    /\ \/ near' = Shut(near, "near") /\ UNCHANGED far
       \/ far' = Shut(far, "far") /\ UNCHANGED near
    /\ UNCHANGED <<chain, fed, taken>>

vars == <<near, far, chain, fed, taken>>

Next ==
    \/ Step /\ UNCHANGED <<fed, taken>>
    \/ \E d \in Dirs : Take(d) \/ \E b \in Bytes : Feed(d, b)
    \/ Leave

Spec == Init /\ [][Next]_vars

(* What has been received, what is on its way out, in the buffer and on    *)
(* its way in is what was sent, until the session stops: no byte is lost,  *)
(* doubled or overtaken, and a buffer is not read into before all of it    *)
(* was written.  After that a prefix has been sent on.                     *)
Carried ==
    \A d \in Dirs :
        IF Stopped
        THEN \E n \in 0 .. Len(fed[d]) : SubSeq(fed[d], 1, n) = taken[d] \o Sink(d)[d]
        ELSE fed[d] = ((taken[d] \o Sink(d)[d]) \o chain[d].data) \o Source(d)[d]
=============================================================================
