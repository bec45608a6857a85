------------------------------ MODULE EnetClient ------------------------------
(***************************************************************************)
(* EnetClientImpl (enet_client_impl.cpp): connect() and close() queue      *)
(* events that the event thread carries out, their results are queued for  *)
(* the callback thread, and while a connection is up a send thread         *)
(* services the ENetHost.  exit() runs do_close() itself, beside the event *)
(* thread, and then joins the event and the callback thread.               *)
(*                                                                         *)
(* m_running is a plain bool that exit() clears without a mutex.  A thread *)
(* that found nothing to do holds its mutex until it waits ("about"); a    *)
(* notify that comes before it waits is lost.                              *)
(*                                                                         *)
(* The host has room for one peer.  Of ENet the model keeps that peer's    *)
(* state, written by every thread that calls into the host; torn lists     *)
(* inside the host, which those calls risk, are not modelled, nor are the  *)
(* packets.                                                                *)
(***************************************************************************)
EXTENDS Naturals, Sequences

CONSTANTS
    MaxConnects, \* bound: calls of connect()
    MaxCloses    \* bound: calls of close()

ASSUME EnetAssumption == MaxConnects \in Nat /\ MaxCloses \in Nat

VARIABLES
    running,   \* m_running
    events,    \* m_event_list: n > 0 is the n-th connect(), 0 a close()
    callbacks, \* m_callback_list: [up, of], of the connect() it answers or 0
    ptr,       \* m_enet_peer is not null
    peer,      \* state of the host's peer
    pc,        \* where "event", "callback", "send" and "owner" (in exit()) stand
    now,       \* the event that the event thread carries out
    connects, closes, \* calls so far
    last,      \* history: the last callback
    answered   \* history: connect() calls that had their callback

queues == <<events, callbacks>>
calls == <<connects, closes>>
history == <<last, answered>>
vars == <<running, queues, ptr, peer, pc, now, calls, history>>

Threads == {"event", "callback", "send", "owner"}

Go(t, l) == pc' = [pc EXCEPT ![t] = l]

(* notify_one() by t, which goes on at l: a thread that does not wait yet  *)
(* misses it.                                                              *)
GoAndNotify(t, l, other) ==
    pc' = [pc EXCEPT ![t] = l, ![other] = IF @ = "wait" THEN "test" ELSE @]

IsConnected == ptr /\ peer = "connected"

Init ==
    /\ running = TRUE
    /\ events = <<>> /\ callbacks = <<>>
    /\ ptr = FALSE /\ peer = "disconnected"
    /\ pc = [t \in Threads |->
                CASE t = "owner" -> "up" [] t = "send" -> "none" [] OTHER -> "test"]
    /\ now = 0
    /\ connects = 0 /\ closes = 0
    /\ last = "none" /\ answered = {}

-----------------------------------------------------------------------------
(* connect(), close(): by any thread of the user's                         *)

Post(e) ==
    /\ pc["owner"] = "up" /\ pc["event"] # "about"
    /\ events' = Append(events, e)
    /\ pc' = [pc EXCEPT !["event"] = IF @ = "wait" THEN "test" ELSE @]
    /\ UNCHANGED <<running, callbacks, ptr, peer, now, history>>

Connect ==
    /\ connects < MaxConnects
    /\ connects' = connects + 1
    /\ UNCHANGED closes
    /\ Post(connects + 1)

Close ==
    /\ closes < MaxCloses
    /\ closes' = closes + 1
    /\ UNCHANGED connects
    /\ Post(0)

(* on_connect(), on_close(): the callback thread has the mutex or not.     *)
Report(t, l, up, of) ==
    /\ pc["callback"] # "about"
    /\ callbacks' = Append(callbacks, [up |-> up, of |-> of])
    /\ GoAndNotify(t, l, "callback")

-----------------------------------------------------------------------------
(* do_close(), by the event thread or by exit(); it ends at l              *)

(* is_connected()                                                          *)
CloseTest(t, l) ==
    /\ pc[t] = "close"
    /\ Go(t, IF IsConnected THEN "disconnect" ELSE l)
    /\ UNCHANGED <<running, queues, ptr, peer, now, calls, history>>

(* enet_peer_disconnect()                                                  *)
Disconnect(t) ==
    /\ pc[t] = "disconnect"
    /\ peer' = IF ptr /\ peer = "connected" THEN "disconnecting" ELSE peer
    /\ Go(t, "join")
    /\ UNCHANGED <<running, queues, ptr, now, calls, history>>

CloseJoin(t) ==
    /\ pc[t] = "join" /\ pc["send"] \in {"none", "ended"}
    /\ pc' = [pc EXCEPT ![t] = "closed", !["send"] = "none"]
    /\ ptr' = FALSE
    /\ UNCHANGED <<running, queues, peer, now, calls, history>>

Closed(t, l) ==
    /\ pc[t] = "closed"
    /\ Report(t, l, FALSE, 0)
    /\ UNCHANGED <<running, events, ptr, peer, now, calls, history>>

DoClose(t, l) == CloseTest(t, l) \/ Disconnect(t) \/ CloseJoin(t) \/ Closed(t, l)

-----------------------------------------------------------------------------
(* do_connect(), by the event thread                                       *)

(* A client that runs resets what is left of its connection.               *)
Reset ==
    /\ pc["event"] = "connect" /\ running
    /\ peer' = IF ptr THEN "disconnected" ELSE peer
    /\ Go("event", "rejoin")
    /\ UNCHANGED <<running, queues, ptr, now, calls, history>>

ConnectLate ==
    /\ pc["event"] = "connect" /\ ~running
    /\ Report("event", "test", FALSE, now)
    /\ UNCHANGED <<running, events, ptr, peer, now, calls, history>>

Rejoin ==
    /\ pc["event"] = "rejoin" /\ pc["send"] \in {"none", "ended"}
    /\ pc' = [pc EXCEPT !["event"] = "dial", !["send"] = "none"]
    /\ ptr' = FALSE
    /\ UNCHANGED <<running, queues, peer, now, calls, history>>

(* enet_host_connect(): the host's peer must be disconnected.              *)
Dial ==
    /\ pc["event"] = "dial" /\ peer = "disconnected"
    /\ peer' = "connecting"
    /\ Go("event", "service")
    /\ UNCHANGED <<running, queues, ptr, now, calls, history>>

\* A slip: the error is reported, the close is not.
DialRefusedSilently ==
    /\ pc["event"] = "dial" /\ peer # "disconnected"
    /\ Go("event", "test")
    /\ UNCHANGED <<running, queues, ptr, peer, now, calls, history>>

DialRefused ==
    /\ pc["event"] = "dial" /\ peer # "disconnected"
    /\ Report("event", "test", FALSE, now)
    /\ UNCHANGED <<running, events, ptr, peer, now, calls, history>>

(* enet_host_service() for up to five seconds.                             *)
DialAnswered ==
    /\ pc["event"] = "service"
    /\ peer' = "connected"
    /\ Go("event", "publish")
    /\ UNCHANGED <<running, queues, ptr, now, calls, history>>

DialFailed ==
    /\ pc["event"] = "service"
    /\ peer' = "disconnected"
    /\ Report("event", "test", FALSE, now)
    /\ UNCHANGED <<running, events, ptr, now, calls, history>>

Publish ==
    /\ pc["event"] = "publish"
    /\ ptr' = TRUE
    /\ Go("event", "report")
    /\ UNCHANGED <<running, queues, peer, now, calls, history>>

ReportConnect ==
    /\ pc["event"] = "report"
    /\ Report("event", "start", TRUE, now)
    /\ UNCHANGED <<running, events, ptr, peer, now, calls, history>>

\* A slip: an exit() that came in between is taken into account here only.
StartSendIfRunning ==
    /\ pc["event"] = "start"
    /\ pc' = [pc EXCEPT !["event"] = "test", !["send"] = IF running THEN "service" ELSE @]
    /\ UNCHANGED <<running, queues, ptr, peer, now, calls, history>>

StartSend ==
    /\ pc["event"] = "start"
    /\ pc' = [pc EXCEPT !["event"] = "test", !["send"] = "service"]
    /\ UNCHANGED <<running, queues, ptr, peer, now, calls, history>>

DoConnect ==
    \/ Reset \/ ConnectLate \/ Rejoin \/ Dial \/ DialRefused \/ DialAnswered \/ DialFailed
    \/ Publish \/ ReportConnect \/ StartSend

-----------------------------------------------------------------------------
(* The loops of the event and the callback thread                          *)

Wait(t) ==
    /\ pc[t] = "about"
    /\ Go(t, "wait")
    /\ UNCHANGED <<running, queues, ptr, peer, now, calls, history>>

(* The thread empties the list with swap() and then carries out, or        *)
(* delivers, one by one: the list and what was taken out of it are one     *)
(* queue here, looked at when m_running is tested for the next one.        *)
EventTest ==
    /\ pc["event"] = "test"
    /\ Go("event", CASE ~running -> "done"
                     [] running /\ events = <<>> -> "about"
                     [] OTHER -> IF Head(events) > 0 THEN "connect" ELSE "close")
    /\ IF running /\ events # <<>>
       THEN now' = Head(events) /\ events' = Tail(events)
       ELSE UNCHANGED <<now, events>>
    /\ UNCHANGED <<running, callbacks, ptr, peer, calls, history>>

EventThread ==
    Wait("event") \/ EventTest \/ DoConnect \/ DoClose("event", "test")

(* on_enet_connect(), on_enet_close(), or nothing to do                    *)
CallbackTest ==
    /\ pc["callback"] = "test"
    /\ IF running /\ callbacks # <<>>
       THEN LET c == Head(callbacks)
            IN  /\ last' = IF c.up THEN "connect" ELSE "close"
                /\ answered' = answered \cup ({c.of} \ {0})
                /\ callbacks' = Tail(callbacks)
                /\ UNCHANGED pc
       ELSE /\ Go("callback", IF running THEN "about" ELSE "done")
            /\ UNCHANGED <<callbacks, history>>
    /\ UNCHANGED <<running, events, ptr, peer, now, calls>>

CallbackThread == Wait("callback") \/ CallbackTest

-----------------------------------------------------------------------------
(* The send thread                                                         *)

(* The server disconnects, or falls silent, and enet_host_service() sees   *)
(* it.                                                                     *)
ServerLeaves ==
    /\ pc["send"] = "service" /\ peer = "connected"
    /\ peer' = "zombie"
    /\ UNCHANGED <<running, queues, ptr, pc, now, calls, history>>

(* A DISCONNECT event: of a zombie, or of a disconnect that was            *)
(* acknowledged in time.                                                   *)
SendDisconnected ==
    /\ pc["send"] = "service" /\ peer \in {"zombie", "disconnecting"}
    /\ peer' = "disconnected"
    /\ Go("send", "lost")
    /\ UNCHANGED <<running, queues, ptr, now, calls, history>>

\* A slip: the thread ends and tells nobody.
SendEndsSilently ==
    /\ pc["send"] = "lost"
    /\ Go("send", "ended")
    /\ UNCHANGED <<running, queues, ptr, peer, now, calls, history>>

SendReports ==
    /\ pc["send"] = "lost"
    /\ Report("send", "ended", FALSE, 0)
    /\ UNCHANGED <<running, events, ptr, peer, now, calls, history>>

(* No event, and not connected.                                            *)
SendEnds ==
    /\ pc["send"] = "service" /\ peer # "zombie" /\ ~IsConnected
    /\ Go("send", "ended")
    /\ UNCHANGED <<running, queues, ptr, peer, now, calls, history>>

SendThread == SendDisconnected \/ SendReports \/ SendEnds

-----------------------------------------------------------------------------
(* exit()                                                                  *)

Exit ==
    /\ pc["owner"] = "up"
    /\ running' = FALSE
    /\ Go("owner", "close")
    /\ UNCHANGED <<queues, ptr, peer, now, calls, history>>

ExitNotifies(l, other, next) ==
    /\ pc["owner"] = l
    /\ GoAndNotify("owner", next, other)
    /\ UNCHANGED <<running, queues, ptr, peer, now, calls, history>>

ExitJoins(l, other, next) ==
    /\ pc["owner"] = l /\ pc[other] = "done"
    /\ Go("owner", next)
    /\ UNCHANGED <<running, queues, ptr, peer, now, calls, history>>

(* The lists are cleared, the host is destroyed.                           *)
ExitDestroys ==
    /\ pc["owner"] = "destroy"
    /\ events' = <<>> /\ callbacks' = <<>> /\ ptr' = FALSE
    /\ Go("owner", "exited")
    /\ UNCHANGED <<running, peer, now, calls, history>>

OwnerThread ==
    \/ DoClose("owner", "notify event")
    \/ ExitNotifies("notify event", "event", "join event")
    \/ ExitJoins("join event", "event", "notify callback")
    \/ ExitNotifies("notify callback", "callback", "join callback")
    \/ ExitJoins("join callback", "callback", "destroy")
    \/ ExitDestroys

(* Undefined behaviour: of two threads that join the send thread at the    *)
(* same time the second goes on with the first, or its join() throws and   *)
(* the process ends.                                                       *)
JoinTwice ==
    /\ pc["owner"] = "join" /\ pc["event"] \in {"join", "rejoin"} /\ pc["send"] # "none"
    /\ running' = FALSE
    /\ pc' = [t \in Threads |-> "dead"]
    /\ UNCHANGED <<queues, ptr, peer, now, calls, history>>

-----------------------------------------------------------------------------
Next ==
    \/ Connect \/ Close \/ Exit \/ ServerLeaves \/ JoinTwice
    \/ EventThread \/ CallbackThread \/ SendThread \/ OwnerThread

(* Every thread that can go on does.                                       *)
Fairness ==
    WF_vars(EventThread) /\ WF_vars(CallbackThread) /\ WF_vars(SendThread) /\ WF_vars(OwnerThread)

Spec == Init /\ [][Next]_vars /\ Fairness

-----------------------------------------------------------------------------
(* Properties *)

Quiet ==
    /\ running
    /\ pc["event"] = "wait" /\ pc["callback"] = "wait"
    /\ pc["send"] # "lost" /\ peer # "zombie"

(* When all is quiet the last callback told the truth about is_connected().*)
LastReportTrue == Quiet => (IsConnected <=> last = "connect")

(* A connection that is_connected() shows has a thread that services it,   *)
(* or is getting or losing one.                                            *)
Watched ==
    IsConnected =>
        \/ pc["send"] # "none"
        \/ pc["event"] \in {"report", "start"}

(* connect() is answered by on_enet_connect() or on_enet_close(), unless   *)
(* the client exits.                                                       *)
ConnectAnswered ==
    \A n \in 1 .. MaxConnects : connects >= n ~> n \in answered \/ ~running

(* exit() leaves no send thread that still has to be joined.               *)
NoThreadLeft == pc["owner"] = "exited" => pc["send"] = "none"

(* A host that has a client not connected and not connecting has a peer    *)
(* to spare.                                                               *)
CanDial == pc["event"] = "dial" => peer = "disconnected"
=============================================================================
