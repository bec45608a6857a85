------------------------------ MODULE EtcpClient ------------------------------
(***************************************************************************)
(* The life of a client connection and its reconnections:                  *)
(* src/src/etcp_client/etcp_client_impl.cpp behind the facade EtcpClient.  *)
(*                                                                         *)
(* connect(), close() and send_message() post handlers to the one          *)
(* io_context, whose thread runs them and the completions of the socket's  *)
(* operations one at a time, in the order they became ready.  m_socket is  *)
(* one member that every connection reuses in turn, and no completion      *)
(* knows which connection it was started on: what a handler does to the    *)
(* socket it does to whatever connection is there when it runs.            *)
(***************************************************************************)
EXTENDS Naturals, Sequences

CONSTANTS
    Sizes,       \* sizes of the packets that peers send
    Gateways,    \* the values that "init() was given a gateway" takes
    Impatient,   \* TRUE: users may connect() again before on_etcp_close
    MaxConnects, \* bound: calls of connect()
    MaxMessages  \* bound: messages a run sends

ASSUME GatewayAssumption == Gateways \subseteq BOOLEAN
ASSUME ImpatientAssumption == Impatient \in BOOLEAN
ASSUME ClientBounds == MaxConnects \in Nat /\ MaxMessages \in Nat

VARIABLES
    app,              \* "up" from init() to exit()
    m_request,        \* TRUE: there is a CONNECT request for the gateway
    queue,            \* handlers ready on m_io_context
    open,             \* m_socket.is_open()
    linked,           \* its TCP connection was established
    pending,          \* operations under way on m_socket, in starting order
    m_closed,
    m_send_data_list, \* chunks to write
    m_recv_data,      \* size of the buffer m_recv_data
    line,             \* what was written on the present connection
    user,             \* what the callbacks told the user last
    odd,              \* a callback came where the user expected none
    connects,         \* connect() calls so far
    sent              \* send_message() calls that returned true so far

socket == <<open, linked, pending, line>>
told == <<m_closed, user, odd>>
counts == <<connects, sent>>
vars == <<app, m_request, queue, socket, told, m_send_data_list, m_recv_data,
          counts>>

-----------------------------------------------------------------------------
(* An operation of the socket.  `what` is the chunk that a write writes    *)
(* and the number of bytes that the read of a body wants.                  *)
Op(kind, what) == [kind |-> kind, what |-> what]

(* A handler in the queue: posted, or the completion of an operation.      *)
Posted(kind) == [kind |-> kind, what |-> 0, res |-> "ok"]
Done(op, res) == [kind |-> op.kind, what |-> op.what, res |-> res]

Chunks(m) == << <<"head", m>>, <<"body", m>> >>

NextIs(kind) == app = "up" /\ queue # <<>> /\ Head(queue).kind = kind
Ok == Head(queue).res = "ok"
Rest == Tail(queue)

Aborted == [i \in DOMAIN pending |-> Done(pending[i], "err")]

(* Starting an operation: on a closed socket it fails at once.             *)
Start(op) ==
    IF open THEN pending' = Append(pending, op) /\ queue' = Rest
            ELSE queue' = Append(Rest, Done(op, "err")) /\ UNCHANGED pending

(* real_close()                                                            *)
RealClose ==
    /\ open' = FALSE
    /\ linked' = FALSE
    /\ pending' = <<>>
    /\ queue' = Rest \o Aborted
    /\ UNCHANGED line

(* Slips: on_close() without its test of m_closed, and without a callback. *)
OnCloseAlways(closed) ==
    m_closed' = TRUE /\ user' = "idle" /\ odd' = (odd \/ user = "idle")

OnCloseSilently(closed) == m_closed' = TRUE /\ UNCHANGED <<user, odd>>

(* on_connect() and on_close()                                             *)
OnConnect == user' = "connected" /\ odd' = (odd \/ user # "connecting")

OnClose(closed) ==
    /\ m_closed' = TRUE
    /\ IF closed THEN UNCHANGED <<user, odd>>
                 ELSE user' = "idle" /\ odd' = (odd \/ user = "idle")

Init ==
    /\ app = "down"
    /\ m_request = FALSE
    /\ queue = <<>>
    /\ open = FALSE /\ linked = FALSE /\ pending = <<>> /\ line = <<>>
    /\ m_closed = TRUE
    /\ user = "idle" /\ odd = FALSE
    /\ m_send_data_list = <<>>
    /\ m_recv_data = 0
    /\ connects = 0 /\ sent = 0

-----------------------------------------------------------------------------
(* The user's threads *)

(* init() of the facade: a new EtcpClientImpl and its thread.              *)
InitClient ==
    /\ app = "down"
    /\ app' = "up"
    /\ m_request' \in Gateways
    /\ UNCHANGED <<queue, socket, told, m_send_data_list, m_recv_data, counts>>

(* exit() of the facade: the context is stopped after the handler it runs, *)
(* the implementation deleted with the handlers that still wait.           *)
ExitClient ==
    /\ app = "up"
    /\ app' = "down"
    /\ m_request' = FALSE
    /\ queue' = <<>>
    /\ open' = FALSE /\ linked' = FALSE /\ pending' = <<>> /\ line' = <<>>
    /\ m_closed' = TRUE /\ user' = "idle"
    /\ m_send_data_list' = <<>>
    /\ m_recv_data' = 0
    /\ UNCHANGED <<odd, counts>>

(* connect(): close what is open, then connect.                            *)
Connect ==
    /\ app = "up"
    /\ connects < MaxConnects
    /\ Impatient \/ user = "idle"
    /\ connects' = connects + 1
    /\ user' = "connecting"
    /\ queue' = queue \o (IF open THEN <<Posted("do_close"), Posted("real_connect")>>
                                  ELSE <<Posted("real_connect")>>)
    /\ UNCHANGED <<app, m_request, socket, m_closed, odd, m_send_data_list,
                   m_recv_data, sent>>

(* close(), at most one at a time waiting in the queue (a bound).  Behind  *)
(* a gateway, patient users do not close what they did not see connected.  *)
Close ==
    /\ app = "up"
    /\ \A i \in DOMAIN queue : queue[i].kind # "do_close"
    /\ m_request /\ ~Impatient => user # "connecting"
    /\ queue' = Append(queue, Posted("do_close"))
    /\ UNCHANGED <<app, m_request, socket, told, m_send_data_list, m_recv_data,
                   counts>>

(* send_message() that returns true.                                       *)
SendMessage ==
    /\ app = "up"
    /\ open
    /\ sent < MaxMessages
    /\ sent' = sent + 1
    /\ queue' = Append(queue, [Posted("send") EXCEPT !.what = sent + 1])
    /\ UNCHANGED <<app, m_request, socket, told, m_send_data_list, m_recv_data,
                   connects>>

-----------------------------------------------------------------------------
(* Handlers *)

(* do_close()                                                              *)
HandleDoClose ==
    /\ NextIs("do_close")
    /\ IF open THEN RealClose /\ OnClose(m_closed)
               ELSE queue' = Rest /\ UNCHANGED <<socket, told>>
    /\ UNCHANGED <<app, m_request, m_send_data_list, m_recv_data, counts>>

(* real_connect(): the assignment to m_socket closes what was open.        *)
HandleRealConnect ==
    /\ NextIs("real_connect")
    /\ open' = TRUE
    /\ linked' = FALSE
    /\ line' = <<>>
    /\ pending' = <<Op("connect", 0)>>
    /\ queue' = Rest \o Aborted
    /\ UNCHANGED <<app, m_request, told, m_send_data_list, m_recv_data, counts>>

(* The completion of async_connect.  It clears m_closed in either case; a  *)
(* failure leaves the socket open.                                         *)
HandleConnected ==
    /\ NextIs("connect") /\ Ok
    /\ m_closed' = FALSE
    /\ IF m_request THEN Start(Op("request", 0)) /\ UNCHANGED <<user, odd>>
                    ELSE Start(Op("head", 0)) /\ OnConnect
    /\ UNCHANGED <<app, m_request, open, linked, line, m_send_data_list,
                   m_recv_data, counts>>

\* A slip: without clearing m_closed.
ConnectFailedQuietly ==
    /\ NextIs("connect") /\ ~Ok
    /\ OnClose(m_closed)
    /\ queue' = Rest
    /\ UNCHANGED <<app, m_request, socket, m_send_data_list, m_recv_data, counts>>

HandleConnectFailed ==
    /\ NextIs("connect") /\ ~Ok
    /\ OnClose(FALSE)
    /\ queue' = Rest
    /\ UNCHANGED <<app, m_request, socket, m_send_data_list, m_recv_data, counts>>

(* do_proxy(): the request is out, read the answer.                        *)
HandleRequest ==
    /\ NextIs("request") /\ Ok
    /\ Start(Op("response", 0))
    /\ UNCHANGED <<app, m_request, open, linked, line, told, m_send_data_list,
                   m_recv_data, counts>>

(* do_proxy(): a status 2xx.                                               *)
HandleResponse ==
    /\ NextIs("response") /\ Ok
    /\ Start(Op("head", 0))
    /\ OnConnect
    /\ UNCHANGED <<app, m_request, open, linked, line, m_closed,
                   m_send_data_list, m_recv_data, counts>>

(* do_proxy(): an error or another status; do_read(): a wrong sign.        *)
HandleRefused ==
    /\ \/ NextIs("request") /\ ~Ok
       \/ NextIs("response") /\ ~Ok
       \/ NextIs("head") /\ Head(queue).res = "bad"
    /\ RealClose
    /\ OnClose(m_closed)
    /\ UNCHANGED <<app, m_request, m_send_data_list, m_recv_data, counts>>

(* do_read(): a failed read leaves the socket open.                        *)
HandleReadError ==
    /\ NextIs("head") \/ NextIs("body")
    /\ Head(queue).res = "err"
    /\ OnClose(m_closed)
    /\ queue' = Rest
    /\ UNCHANGED <<app, m_request, socket, m_send_data_list, m_recv_data, counts>>

(* do_read(): a header that announces n bytes.                             *)
HandleHead(n) ==
    /\ NextIs("head") /\ Ok
    /\ m_recv_data' = n
    /\ Start(Op("body", n))
    /\ UNCHANGED <<app, m_request, open, linked, line, told, m_send_data_list,
                   counts>>

(* Slip: no return after the do_read() for an empty packet.                *)
EmptyHeadFallsThrough ==
    /\ NextIs("head") /\ Head(queue).res = "empty"
    /\ m_recv_data' = 0
    /\ IF open
       THEN pending' = pending \o <<Op("head", 0), Op("body", 0)>> /\ queue' = Rest
       ELSE Start(Op("head", 0))
    /\ UNCHANGED <<app, m_request, open, linked, line, told, m_send_data_list,
                   counts>>

(* do_read(): a header that announces nothing.                             *)
HandleEmptyHead ==
    /\ NextIs("head") /\ Head(queue).res = "empty"
    /\ Start(Op("head", 0))
    /\ UNCHANGED <<app, m_request, open, linked, line, told, m_send_data_list,
                   m_recv_data, counts>>

(* Slip: a body after which nothing is read.                               *)
HandleLastBody ==
    /\ NextIs("body") /\ Ok
    /\ m_recv_data' = 0
    /\ queue' = Rest
    /\ UNCHANGED <<app, m_request, socket, told, m_send_data_list, counts>>

(* do_read(): a body; read on, give m_recv_data away.                      *)
HandleBody ==
    /\ NextIs("body") /\ Ok
    /\ Start(Op("head", 0))
    /\ m_recv_data' = 0
    /\ UNCHANGED <<app, m_request, open, linked, line, told, m_send_data_list,
                   counts>>

(* do_write() with the list it finds.                                      *)
DoWrite(list) == Start(Op("write", Head(list)))

(* Slip: a write for every message.                                        *)
HandleSendEagerly ==
    /\ NextIs("send")
    /\ m_send_data_list' = IF open THEN m_send_data_list \o Chunks(Head(queue).what)
                                   ELSE m_send_data_list
    /\ IF open THEN DoWrite(m_send_data_list') ELSE queue' = Rest /\ UNCHANGED pending
    /\ UNCHANGED <<app, m_request, open, linked, line, told, m_recv_data, counts>>

(* The posted part of send_message().                                      *)
HandleSend ==
    /\ NextIs("send")
    /\ m_send_data_list' = IF open THEN m_send_data_list \o Chunks(Head(queue).what)
                                   ELSE m_send_data_list
    /\ IF open /\ Len(m_send_data_list') = 2
       THEN DoWrite(m_send_data_list')
       ELSE queue' = Rest /\ UNCHANGED pending
    /\ UNCHANGED <<app, m_request, open, linked, line, told, m_recv_data, counts>>

(* The completion of do_write()'s write.                                   *)
HandleWrote ==
    /\ NextIs("write")
    /\ m_send_data_list' = IF Ok /\ m_send_data_list # <<>>
                           THEN Tail(m_send_data_list) ELSE <<>>
    /\ IF m_send_data_list' # <<>>
       THEN DoWrite(m_send_data_list')
       ELSE queue' = Rest /\ UNCHANGED pending
    /\ UNCHANGED <<app, m_request, open, linked, line, told, m_recv_data, counts>>

-----------------------------------------------------------------------------
(* The network: an operation completes.  Other operations wait for the     *)
(* connection, and nothing but the connection succeeds before it does.     *)
Connecting == \E i \in DOMAIN pending : pending[i].kind = "connect"

Outcomes(op) ==
    CASE op.kind = "connect" -> {"ok", "err"}
      [] op.kind = "head" -> IF linked THEN {"ok", "empty", "bad", "err"} ELSE {"err"}
      [] op.kind = "response" -> IF linked THEN {"ok", "bad", "err"} ELSE {"err"}
      [] OTHER -> IF linked THEN {"ok", "err"} ELSE {"err"}

Complete(i, res) ==
    LET op == pending[i] IN
    /\ op.kind = "connect" \/ ~Connecting
    /\ res \in Outcomes(op)
    /\ pending' = SubSeq(pending, 1, i - 1) \o SubSeq(pending, i + 1, Len(pending))
    /\ queue' = Append(queue, Done(op, res))
    /\ linked' = (linked \/ (op.kind = "connect" /\ res = "ok"))
    /\ line' = IF op.kind = "write" /\ res = "ok" THEN Append(line, op.what) ELSE line
    /\ UNCHANGED <<app, m_request, open, told, m_send_data_list, m_recv_data, counts>>

-----------------------------------------------------------------------------
User == InitClient \/ ExitClient \/ Connect \/ Close \/ SendMessage

Thread ==
    \/ HandleDoClose \/ HandleRealConnect \/ HandleConnected \/ HandleConnectFailed
    \/ HandleRequest \/ HandleResponse \/ HandleRefused
    \/ HandleReadError \/ HandleEmptyHead \/ HandleBody
    \/ \E n \in Sizes : HandleHead(n)
    \/ HandleSend \/ HandleWrote

Network ==
    \E i \in DOMAIN pending :
        \E res \in {"ok", "empty", "bad", "err"} : Complete(i, res)

Next == User \/ Thread \/ Network

Spec == Init /\ [][Next]_vars

(* The thread keeps running handlers, and TCP gives up a connection that   *)
(* nobody answers.  Nothing else has to complete: neither a write, nor a   *)
(* read, nor the answer of a gateway.                                      *)
ConnectCompletes ==
    \E i \in DOMAIN pending : pending[i].kind = "connect" /\
        \E res \in {"ok", "err"} : Complete(i, res)

FairSpec == Spec /\ WF_vars(Thread) /\ WF_vars(ConnectCompletes)

-----------------------------------------------------------------------------
(* Properties *)

(* Operations of these kinds that are under way or completed and not yet   *)
(* handled, by their place in Flow.                                        *)
Flow == pending \o queue
Under(kinds) == {i \in DOMAIN Flow : Flow[i].kind \in kinds}

(* do_write() and its completion report nothing critical: whatever is      *)
(* reconnected in between, and with the completions of old connections in  *)
(* the queue, a nonempty list has exactly one write to come, and it is     *)
(* that of its first chunk.                                                *)
OneWrite ==
    IF m_send_data_list = <<>> THEN Under({"write"}) = {}
    ELSE \E i \in DOMAIN Flow :
             Under({"write"}) = {i} /\ Flow[i].what = Head(m_send_data_list)

(* m_recv_head and m_recv_data have one reader: a completion that outlives *)
(* its connection never puts a second chain of handshake and do_read() on  *)
(* the next one, and has been handled when that one is reported connected. *)
OneReader ==
    LET chain == {"connect", "request", "response", "head", "body"} IN
    /\ \A i, j \in DOMAIN pending :
         pending[i].kind \in chain /\ pending[j].kind \in chain => i = j
    /\ user = "connected" => \A i, j \in Under(chain) : i = j

(* What do_read() reports as critical ("recv data size"): when a body is   *)
(* handled m_recv_data still has the size that the body was read with.     *)
BodyInPlace ==
    NextIs("body") /\ Ok => m_recv_data = Head(queue).what

(* on_etcp_connect answers a connect(), on_etcp_close ends it, and neither *)
(* comes out of nowhere: old completions do not speak for a connection     *)
(* that is over.                                                           *)
CallbacksPaired == ~odd

(* A user who has been told of a connection will be told of its end: it is *)
(* open with somebody reading it, or its end is in the queue.              *)
ConnectedIsWatched ==
    user = "connected" => ~m_closed /\ Under({"head", "body"}) # {}

(* What the peer decodes: on one connection each header is followed by its *)
(* packet, and nothing comes before the first header.                      *)
FramesWhole ==
    \A i \in DOMAIN line :
        line[i][1] = "body" => i > 1 /\ line[i - 1] = <<"head", line[i][2]>>

(* connect() is answered, by on_etcp_connect or by on_etcp_close.          *)
ConnectAnswered ==
    (user = "connecting" /\ ~m_request) ~> user # "connecting"

(* close() of a connection leads to on_etcp_close.                         *)
CloseAnswered ==
    (user = "connected" /\ \E i \in DOMAIN queue : queue[i].kind = "do_close")
        ~> user # "connected"
=============================================================================
