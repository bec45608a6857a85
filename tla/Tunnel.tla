-------------------------------- MODULE Tunnel --------------------------------
(***************************************************************************)
(* One tunnel, from the one who asks for it to its target:                 *)
(*                                                                         *)
(*   an application on a local forward port                                *)
(*     --asked--> TcpForwardAcceptor, TcpForwardSession                    *)
(*     --middle-> TcpGatewayServer, TcpGatewaySession --last--> target     *)
(*                                                                         *)
(* or an EtcpClient that speaks CONNECT with the gateway itself (do_proxy, *)
(* etcp_client_impl.cpp) and has no connection `asked`.  A byte is the set *)
(* of its bits that are one: the handshake's have bits 1 .. Width, and the *)
(* payload's others, so that a byte of the handshake that reaches an end,  *)
(* or a payload byte that is taken for the handshake's, shows.             *)
(*                                                                         *)
(* The handlers of the forward server run on one thread, those of a tunnel *)
(* at the gateway on one thread too; release_local_forward_port() runs on  *)
(* a user's.                                                               *)
(***************************************************************************)
EXTENDS Integers, Sequences

CONSTANTS
    Width,      \* bits of a byte
    Targets,    \* <<address, port>> pairs, one byte each, asked for
    Modes,      \* a subset of {"forward", "client"}
    Patient,    \* those of Modes in which clients wait for on_etcp_connect, and
                \* targets until they are spoken to
    Freed,      \* what may be found where a deleted acceptor's message was
    MaxBytes,   \* bound: payload bytes in each direction
    BufferSize,
    Capacity

ASSUME TunnelAssumption ==
    /\ Width \in Nat /\ Width >= 2 /\ MaxBytes \in Nat
    /\ BufferSize \in Nat /\ Capacity \in Nat
    /\ Modes \subseteq {"forward", "client"} /\ Patient \subseteq Modes
    /\ Targets \subseteq (SUBSET (1 .. Width)) \X (SUBSET (1 .. Width))
    /\ Freed \subseteq Seq(SUBSET (1 .. Width))

VARIABLES
    mode,    \* who asks
    key,     \* xor_val of make_forward_message()
    target,  \* the target asked for
    asked, middle, last, \* the connections
    fchain,  \* the forward session's operations
    gchain,  \* the gateway session's operations
    fstage,  \* where the acceptor's handlers, or do_proxy(), stand
    gstage,  \* where the gateway's handlers stand
    left,    \* bytes of its request, its answer: left[1], left[2], still to write
    reached, \* what the gateway understood
    port,    \* the TcpForwardAcceptor: "none" yet, "held", "deaf" (it no longer
             \* accepts), "cancelled" (deleted while it accepted) or "released"
    dangling, \* a handler used the acceptor after it was deleted
    stray,   \* history: the gateway was written other bytes than the request
    sent, got \* history: payload, by direction, of a tunnel that is not stray

links == <<asked, middle, last>>
stages == <<fstage, gstage, left, reached>>
setup == <<mode, key, target>>
acceptor == <<port, dangling>>
history == <<stray, sent, got>>
vars == <<setup, links, fchain, gchain, stages, acceptor, history>>

Byte == SUBSET (1 .. Width)
Zero == {}
Xor(a, b) == (a \ b) \cup (b \ a)

(* The bytes that the ends send.                                           *)
Payload(d, i) == {Width + 2 + i + (IF d = "down" THEN 0 ELSE MaxBytes)}

Forward == INSTANCE Relay WITH
    Bytes <- {}, near <- asked, far <- middle, chain <- fchain, fed <- sent, taken <- got
Gateway == INSTANCE Relay WITH
    Bytes <- {}, near <- middle, far <- last, chain <- gchain, fed <- sent, taken <- got

Dirs == Forward!Dirs
NoChain == [d \in Dirs |-> Forward!Idle]

-----------------------------------------------------------------------------
(* Requests and answers *)

LetterC == {1}
(* "CONNECT", the seven bytes that the gateway reads first                 *)
Connect == <<LetterC, {2}, {1, 2}>>
HeadSize == 3
(* The rest of a CONNECT request, up to the blank line.                    *)
Blank == {Width + 1}
Body(t) == <<t[1], t[2], Blank>>

\* A slip: any key will do.
AnyKey == Byte \ {Zero}

(* make_forward_message(): the keys it may draw, and the message.          *)
Keys == Byte \ {Zero, LetterC}
MakeForwardMessage(k, t) == <<k, Xor(k, t[1]), Xor(k, t[2])>>

\* A slip: every byte is undone with the one before it.
DecodeRolling(head) == <<Xor(head[1], head[2]), Xor(head[2], head[3])>>

(* do_recv_head(): the target of a binary request.                         *)
Decode(head) == <<Xor(head[1], head[2]), Xor(head[1], head[3])>>
(* A binary request for address or port zero is refused; a text request    *)
(* when the name does not resolve, which is the resolver's choice.         *)
Valid(t) == t[1] # Zero /\ t[2] # Zero

(* One byte, or a status line up to its blank line.                        *)
Answer(m, result) ==
    LET status == IF result = "yes" THEN {1} ELSE {2}
    IN  IF m = "forward" THEN <<status>> ELSE <<status, Blank>>
Granted(answer) == answer[1] = {1}

Request == IF mode = "forward" THEN MakeForwardMessage(key, target)
                               ELSE Connect \o Body(target)

Init ==
    /\ mode \in Modes /\ target \in Targets
    /\ key = Zero
    /\ asked = Forward!NewLink /\ middle = Forward!NewLink /\ last = Forward!NewLink
    /\ fchain = NoChain /\ gchain = NoChain
    /\ fstage = "none" /\ gstage = "none"
    /\ left = <<<<>>, <<>>>>
    /\ reached = <<>>
    /\ port = "none" /\ dangling = FALSE
    /\ stray = FALSE /\ sent = [d \in Dirs |-> <<>>] /\ got = [d \in Dirs |-> <<>>]

-----------------------------------------------------------------------------
(* The near side: TcpForwardAcceptor, or EtcpClientImpl behind a gateway *)

(* acquire_local_forward_port(): the acceptor's message is made once, for  *)
(* all its connections.                                                    *)
Acquire ==
    /\ mode = "forward" /\ port = "none"
    /\ port' = "held"
    /\ key' \in Keys
    /\ UNCHANGED <<mode, target, links, fchain, gchain, stages, dangling, history>>

(* The acceptor is deleted; a handler uses it through its raw pointer.     *)
Gone == mode = "forward" /\ port \in {"cancelled", "released"}
Uses == dangling' = (dangling \/ Gone)

(* do_accept(): an application is accepted, async_connect and the next     *)
(* async_accept are started, even if the acceptor was deleted before this  *)
(* handler came to run; or real_connect().                                 *)
Begin ==
    /\ fstage = "none"
    /\ mode = "forward" => port \in {"held", "cancelled"}
    /\ fstage' = "connecting"
    /\ port' = IF port = "cancelled" THEN "released" ELSE port
    /\ Uses
    /\ UNCHANGED <<setup, links, fchain, gchain, gstage, left, reached, history>>

(* do_accept(): one error and the port accepts no more.                    *)
AcceptFails ==
    /\ mode = "forward" /\ port = "held" /\ fstage = "none"
    /\ port' = "deaf"
    /\ UNCHANGED <<setup, links, fchain, gchain, stages, dangling, history>>

(* release_local_forward_port(): ~TcpForwardAcceptor() on the user's       *)
(* thread; an async_accept under way is cancelled.                         *)
Release ==
    /\ mode = "forward" /\ port \in {"held", "deaf"}
    /\ port' = IF port = "held" THEN "cancelled" ELSE "released"
    /\ UNCHANGED <<setup, links, fchain, gchain, stages, dangling, history>>

(* The cancelled async_accept: its handler reads m_running.                *)
AcceptCancelled ==
    /\ port = "cancelled" /\ fstage # "dead"
    /\ port' = "released"
    /\ Uses
    /\ UNCHANGED <<setup, links, fchain, gchain, stages, history>>

(* What the near side's handlers let go: their two sockets.                *)
NearGone ==
    /\ fstage' = "dead"
    /\ fchain' = NoChain
    /\ asked' = IF mode = "forward" THEN Forward!Shut(asked, "far") ELSE asked
    /\ middle' = Forward!Shut(middle, "near")

(* async_connect to the gateway succeeds: write m_message, or m_request.   *)
(* A deleted acceptor's message is whatever its memory holds by now, be it *)
(* nothing at all.                                                         *)
NearConnected ==
    /\ fstage = "connecting"
    /\ \E message \in {Request} \cup (IF Gone THEN Freed ELSE {}) :
          /\ left' = [left EXCEPT ![1] = message]
          /\ fstage' = IF message = <<>> THEN "answer" ELSE "request"
          /\ stray' = (stray \/ message # Request)
    /\ gstage' = "backlog"
    /\ Uses
    /\ UNCHANGED <<setup, links, fchain, gchain, reached, port, sent, got>>

(* async_write reads m_message piece by piece.                             *)
WriteRequest(n) ==
    /\ fstage = "request"
    /\ n \in 1 .. Len(left[1]) /\ n <= Forward!Room(middle, "down")
    /\ middle' = Forward!Put(middle, "down", SubSeq(left[1], 1, n))
    /\ left' = [left EXCEPT ![1] = SubSeq(@, n + 1, Len(@))]
    /\ fstage' = IF n = Len(left[1]) THEN "answer" ELSE "request"
    /\ Uses
    /\ UNCHANGED <<setup, asked, last, fchain, gchain, gstage, reached, port, history>>

(* The acceptor was deleted while its message was being written, and what  *)
(* is left of it is overwritten.                                           *)
Overwritten ==
    /\ Gone /\ fstage = "request"
    /\ \E message \in Freed :
          LET done == Len(message) - Len(left[1]) IN
          /\ done >= 0
          /\ left' = [left EXCEPT ![1] = SubSeq(message, done + 1, Len(message))]
    /\ left' # left
    /\ stray' = TRUE
    /\ UNCHANGED <<setup, links, fchain, gchain, fstage, gstage, reached, acceptor, sent, got>>

(* async_read of one byte, or async_read_until the blank line, which may   *)
(* take in bytes beyond it: these stay in m_response.                      *)
AnswerEnds == IF mode = "forward" THEN 1 .. 1
              ELSE {n \in 1 .. Len(middle.up) : \E i \in 1 .. n : middle.up[i] = Blank}

ReadAnswer(n) ==
    /\ fstage = "answer"
    /\ n \in AnswerEnds /\ n <= Len(middle.up)
    /\ Granted(middle.up)
    /\ fstage' = "session"
    /\ fchain' = IF mode = "forward" THEN Forward!Started ELSE NoChain
    /\ middle' = Forward!Drop(middle, "up", n)
    /\ Uses
    /\ UNCHANGED <<setup, asked, last, gchain, gstage, left, reached, port, history>>

(* The gateway says no, or the connection with it fails, at any stage of   *)
(* the handshake; for a client, also later (its do_read() fails).          *)
NearFails ==
    /\ \/ fstage = "connecting"
       \/ fstage \in {"request", "answer"} /\ Forward!Broken(middle)
       \/ fstage = "session" /\ mode = "client" /\ Forward!Broken(middle)
       \/ fstage = "answer" /\ middle.up # <<>> /\ ~Granted(middle.up)
    /\ NearGone
    /\ Uses
    /\ UNCHANGED <<setup, last, gchain, gstage, left, reached, port, history>>

(* exit() of the forward server joins its thread before it deletes the     *)
(* acceptors; exit() of a client.                                          *)
NearExit ==
    /\ fstage \notin {"none", "dead"}
    /\ NearGone
    /\ port' = IF mode = "forward" THEN "released" ELSE port
    /\ UNCHANGED <<setup, last, gchain, gstage, left, reached, dangling, history>>

(* Undefined behaviour: after a use of the deleted acceptor the process    *)
(* goes on as if it were there, or dies.                                   *)
Crash ==
    /\ dangling /\ fstage # "dead"
    /\ NearGone
    /\ UNCHANGED <<setup, last, gchain, gstage, left, reached, acceptor, history>>

-----------------------------------------------------------------------------
(* The gateway *)

(* do_accept()                                                             *)
GatewayAccept ==
    /\ gstage = "backlog"
    /\ gstage' \in {"head", "deaf"}
    /\ UNCHANGED <<setup, links, fchain, gchain, fstage, left, reached, acceptor, history>>

(* do_recv_head(): seven bytes, no more.                                   *)
GatewayHead ==
    LET head == SubSeq(middle.down, 1, HeadSize) IN
    /\ gstage = "head"
    /\ Len(middle.down) >= HeadSize
    /\ middle' = Forward!Drop(middle, "down", HeadSize)
    /\ IF head = Connect
       THEN gstage' = "body" /\ UNCHANGED <<left, reached>>
       ELSE /\ gstage' = IF Valid(Decode(head)) THEN "yes" ELSE "no"
            /\ reached' = Decode(head)
            /\ left' = [left EXCEPT ![2] = Answer("forward", gstage')]
    /\ UNCHANGED <<setup, asked, last, fchain, gchain, fstage, acceptor, history>>

(* do_recv_body(): up to the blank line, and whatever else is there, which *)
(* is lost with `request`.  The name resolves or it does not.              *)
GatewayBody(n) ==
    /\ gstage = "body"
    /\ n \in 1 .. Len(middle.down)
    /\ \E i \in 1 .. n : middle.down[i] = Blank
    /\ middle' = Forward!Drop(middle, "down", n)
    /\ gstage' \in {"yes", "no"}
    /\ reached' = SubSeq(middle.down, 1, 2)
    /\ left' = [left EXCEPT ![2] = Answer("client", gstage')]
    /\ UNCHANGED <<setup, asked, last, fchain, gchain, fstage, acceptor, history>>

(* do_send_result(): the answer is written first, the target is connected  *)
(* after it, or the sockets are let go.                                    *)
GatewayAnswer(n) ==
    LET answer == left[2]
        wrote == Forward!Put(middle, "up", SubSeq(answer, 1, n))
    IN  /\ gstage \in {"yes", "no"}
        /\ n \in 1 .. Len(answer) /\ n <= Forward!Room(middle, "up")
        /\ left' = [left EXCEPT ![2] = SubSeq(answer, n + 1, Len(answer))]
        /\ CASE n < Len(answer) -> middle' = wrote /\ UNCHANGED gstage
             [] n = Len(answer) /\ gstage = "yes" -> middle' = wrote /\ gstage' = "connecting"
             [] OTHER -> middle' = Forward!Shut(wrote, "far") /\ gstage' = "dead"
        /\ UNCHANGED <<setup, asked, last, fchain, gchain, fstage, reached, acceptor, history>>

(* async_connect to the target succeeds: a TcpGatewaySession is started.   *)
GatewayConnected ==
    /\ gstage = "connecting"
    /\ gstage' = "session"
    /\ gchain' = Gateway!Started
    /\ UNCHANGED <<setup, links, fchain, fstage, left, reached, acceptor, history>>

(* What the gateway's handlers let go: their sockets.                      *)
GatewayGone ==
    /\ gstage' = "dead"
    /\ gchain' = NoChain
    /\ middle' = Forward!Shut(middle, "far")
    /\ last' = IF gstage = "session" THEN Forward!Shut(last, "near") ELSE last

(* An error at a stage of the handshake.                                   *)
GatewayFails ==
    /\ \/ gstage \in {"head", "body", "yes", "no"} /\ Forward!Broken(middle)
       \/ gstage = "connecting"
    /\ GatewayGone
    /\ UNCHANGED <<setup, asked, fchain, fstage, left, reached, acceptor, history>>

(* exit(): the contexts are stopped and destroyed with their handlers.     *)
GatewayExit ==
    /\ gstage \notin {"none", "dead"}
    /\ GatewayGone
    /\ UNCHANGED <<setup, asked, fchain, fstage, left, reached, acceptor, history>>

-----------------------------------------------------------------------------
(* The sessions *)

ForwardRelays ==
    /\ mode = "forward" /\ fstage = "session"
    /\ Forward!Step
    /\ UNCHANGED <<setup, last, gchain, stages, acceptor, history>>

GatewayRelays ==
    /\ gstage = "session"
    /\ Gateway!Step
    /\ UNCHANGED <<setup, asked, fchain, stages, acceptor, history>>

-----------------------------------------------------------------------------
(* The ends *)

NearUp == IF mode = "forward" THEN fstage # "none"
          ELSE fstage = "session" \/ (mode \notin Patient /\ fstage = "answer")

(* The ends of a tunnel that went astray send no more: a bound.            *)
NextByte(d) == Payload(d, Len(sent[d]))
SendOn(link, d) == Forward!Put(link, d, <<NextByte(d)>>)
Sends(d) ==
    /\ ~stray
    /\ sent' = [sent EXCEPT ![d] = Append(@, NextByte(d))]
    /\ UNCHANGED <<stray, got>>
Gets(link, d) ==
    /\ got' = IF stray THEN got ELSE [got EXCEPT ![d] = Append(@, Head(link[d]))]
    /\ UNCHANGED <<stray, sent>>

NearSends ==
    LET link == IF mode = "forward" THEN asked ELSE middle IN
    /\ NearUp /\ "near" \notin link.shut
    /\ Len(sent["down"]) < MaxBytes /\ Forward!Room(link, "down") > 0
    /\ Sends("down")
    /\ IF mode = "forward" THEN asked' = SendOn(asked, "down") /\ UNCHANGED middle
                           ELSE middle' = SendOn(middle, "down") /\ UNCHANGED asked
    /\ UNCHANGED <<setup, last, fchain, gchain, stages, acceptor>>

NearGets ==
    /\ \/ mode = "forward" /\ asked.up # <<>>
          /\ Gets(asked, "up")
          /\ asked' = Forward!Drop(asked, "up", 1) /\ UNCHANGED middle
       \/ mode = "client" /\ fstage = "session" /\ middle.up # <<>>
          /\ Gets(middle, "up")
          /\ middle' = Forward!Drop(middle, "up", 1) /\ UNCHANGED asked
    /\ UNCHANGED <<setup, last, fchain, gchain, stages, acceptor>>

TargetSends ==
    /\ gstage = "session" /\ "far" \notin last.shut
    /\ mode \in Patient => got["down"] # <<>>
    /\ Len(sent["up"]) < MaxBytes /\ Forward!Room(last, "up") > 0
    /\ Sends("up")
    /\ last' = SendOn(last, "up")
    /\ UNCHANGED <<setup, asked, middle, fchain, gchain, stages, acceptor>>

TargetGets ==
    /\ last.down # <<>>
    /\ Gets(last, "down")
    /\ last' = Forward!Drop(last, "down", 1)
    /\ UNCHANGED <<setup, asked, middle, fchain, gchain, stages, acceptor>>

(* An end finishes, or a connection breaks.                                *)
NearFinishes ==
    /\ mode = "forward" /\ fstage # "none"
    /\ asked' = Forward!Shut(asked, "near")
    /\ UNCHANGED <<setup, middle, last, fchain, gchain, stages, acceptor, history>>

TargetFinishes ==
    /\ gstage = "session"
    /\ last' = Forward!Shut(last, "far")
    /\ UNCHANGED <<setup, asked, middle, fchain, gchain, stages, acceptor, history>>

MiddleBreaks ==
    /\ gstage # "none"
    /\ middle' = Forward!Shut(Forward!Shut(middle, "near"), "far")
    /\ UNCHANGED <<setup, asked, last, fchain, gchain, stages, acceptor, history>>

-----------------------------------------------------------------------------
NearThread ==
    \/ AcceptCancelled \/ NearConnected \/ NearFails \/ ForwardRelays
    \/ \E n \in 1 .. Capacity : WriteRequest(n) \/ ReadAnswer(n)

GatewayThread ==
    \/ GatewayAccept \/ GatewayHead \/ GatewayConnected \/ GatewayFails \/ GatewayRelays
    \/ \E n \in 1 .. Capacity : GatewayBody(n) \/ GatewayAnswer(n)

Next ==
    \/ Acquire \/ Begin \/ AcceptFails \/ Release \/ Overwritten \/ Crash \/ NearExit \/ GatewayExit
    \/ NearThread \/ GatewayThread
    \/ NearSends \/ NearGets \/ TargetSends \/ TargetGets
    \/ NearFinishes \/ TargetFinishes \/ MiddleBreaks

(* Both threads run as long as they have handlers, connects are answered   *)
(* because TCP gives up, and the ends read what arrives.                   *)
Fairness ==
    /\ WF_vars(NearThread) /\ WF_vars(GatewayThread)
    /\ WF_vars(NearGets) /\ WF_vars(TargetGets)

Spec == Init /\ [][Next]_vars /\ Fairness

-----------------------------------------------------------------------------
(* Properties *)

AllPayload == {Payload(d, i) : d \in Dirs, i \in 0 .. MaxBytes}

(* Somebody has left, failed or been refused, or what the gateway is asked *)
(* is not the request any more.                                            *)
Over ==
    \/ stray
    \/ \E link \in {asked, middle, last} : Forward!Broken(link)
    \/ fstage = "dead" \/ gstage \in {"dead", "deaf"}

DownChannel == INSTANCE MessageChannel WITH
    Messages <- AllPayload, sent <- sent["down"], got <- got["down"], ended <- Over
UpChannel == INSTANCE MessageChannel WITH
    Messages <- AllPayload, sent <- sent["up"], got <- got["up"], ended <- Over

(* A tunnel is a byte stream in both directions: whatever the handshakes   *)
(* read and write on the same connections, and however the two sessions    *)
(* cut it, each end receives what the other sent, in order and without     *)
(* gap, from the first byte on, and all of it unless somebody leaves or    *)
(* fails.  What an end gets that asked through a deleted acceptor, whose   *)
(* message is not the request any more, is not said.                       *)
CarriesDown == DownChannel!Spec
CarriesUp == UpChannel!Spec

(* The gateway goes where the one who asked wanted to go: it undoes the    *)
(* encoding of make_forward_message() and takes no such message for text.  *)
(* Only the release of the port can lead astray: a connection that is      *)
(* being set up by then reads its message from freed memory, and may name  *)
(* any target once that has been overwritten.                              *)
RightTarget == reached # <<>> => reached = target \/ (stray /\ Gone)

(* The end of any part reaches both others: no session and no handshake is *)
(* left waiting once a connection of the tunnel is gone, except for a      *)
(* gateway that has stopped accepting, and for one that was written freed  *)
(* bytes and waits for the rest of a request.                              *)
NearOver == fstage = "dead" \/ (mode = "forward" /\ fstage = "session" /\ Forward!Stopped)
GatewayOver == gstage \in {"none", "dead"} \/ (gstage = "session" /\ Gateway!Stopped)
Starved ==
    /\ stray /\ fstage = "answer"
    /\ \/ gstage = "head" /\ Len(middle.down) < HeadSize
       \/ gstage = "body"
TornDown ==
    (\E link \in {asked, middle, last} : Forward!Broken(link))
        ~> (NearOver /\ GatewayOver) \/ gstage = "deaf" \/ Starved
=============================================================================
