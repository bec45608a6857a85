--------------------------- MODULE WebsocketSession ---------------------------
(***************************************************************************)
(* WebsocketSession (websocket_client_impl.h): the event and the callback  *)
(* thread of module EnetClient, a work thread that runs websocketpp for    *)
(* one connection at a time, and a ping thread that pings an open          *)
(* connection and posts close() when the answer is five seconds late.      *)
(* exit() runs do_close() beside the event thread and joins all four.      *)
(*                                                                         *)
(* The flag m_callback makes on_close() report a connection once, whoever  *)
(* sees its end first, and the handlers compare their connection with      *)
(* m_connection.  A connection that is terminated while the client stops   *)
(* leaves a handler behind, which the next connection's run() calls.       *)
(*                                                                         *)
(* The ping thread's clocks are left out, but for what its two times say:  *)
(* an answer is overdue.  They are the thread's, not the connection's: a   *)
(* connection that opens before the thread has looked in between takes     *)
(* them over from the one before.                                          *)
(***************************************************************************)
EXTENDS Naturals, Sequences

CONSTANTS
    MaxConnects, \* bound: calls of connect()
    MaxCloses    \* bound: calls of close() by the user

ASSUME WebsocketAssumption == MaxConnects \in Nat /\ MaxCloses \in Nat

VARIABLES
    running,   \* m_running
    callback,  \* m_callback
    events,    \* m_event_list: n > 0 is the n-th connect(), 0 a close()
    callbacks, \* m_callback_list: [up, of], of the connection it is about
    ptr,       \* m_connection is not null: it is the last connection
    state,     \* of the last connection
    silent,    \* send_ping_time > m_recv_pong_time + 5000
    stopped,   \* m_client is stopped
    leftover,  \* of which terminated connections a handler waits in m_client:
               \* the last one ("new"), earlier ones ("old")
    pc,        \* where "event", "callback", "work", "ping" and "owner" stand
    now,       \* the event that the event thread carries out
    connects, closes, \* calls so far
    current,   \* the connect() that the work thread serves
    last       \* history: the last callback

queues == <<events, callbacks>>
connection == <<ptr, state, silent>>
client == <<stopped, leftover>>
calls == <<connects, closes>>
vars == <<running, callback, queues, connection, client, pc, now, calls, current, last>>

Threads == {"event", "callback", "work", "ping", "owner"}

Go(t, l) == pc' = [pc EXCEPT ![t] = l]
GoAndNotify(t, l, other) ==
    pc' = [pc EXCEPT ![t] = l, ![other] = IF @ = "wait" THEN "test" ELSE @]

Die ==
    /\ running' = FALSE
    /\ pc' = [t \in Threads |-> "dead"]
    /\ UNCHANGED <<callback, queues, connection, client, now, calls, current, last>>

IsConnected == ptr /\ state = "open"

Init ==
    /\ running = TRUE /\ callback = FALSE
    /\ events = <<>> /\ callbacks = <<>>
    /\ ptr = FALSE /\ state = "closed" /\ silent = FALSE
    /\ stopped = FALSE /\ leftover = {}
    /\ pc = [t \in Threads |->
                CASE t = "owner" -> "up" [] t = "work" -> "none" [] OTHER -> "test"]
    /\ now = 0
    /\ connects = 0 /\ closes = 0 /\ current = 0 /\ last = [up |-> FALSE, of |-> 0]

-----------------------------------------------------------------------------
(* connect(), close()                                                      *)

\* A slip: nobody is woken.
PostSilently(e) ==
    /\ pc["event"] # "about"
    /\ events' = Append(events, e)
    /\ UNCHANGED <<running, callback, callbacks, connection, client, pc, now, current, last>>

Post(e) ==
    /\ pc["event"] # "about"
    /\ events' = Append(events, e)
    /\ pc' = [pc EXCEPT !["event"] = IF @ = "wait" THEN "test" ELSE @]
    /\ UNCHANGED <<running, callback, callbacks, connection, client, now, current, last>>

Connect ==
    /\ pc["owner"] = "up" /\ connects < MaxConnects
    /\ connects' = connects + 1
    /\ UNCHANGED closes
    /\ Post(connects + 1)

Close ==
    /\ pc["owner"] = "up" /\ closes < MaxCloses
    /\ closes' = closes + 1
    /\ UNCHANGED connects
    /\ Post(0)

-----------------------------------------------------------------------------
(* The ping thread                                                         *)

(* It looks at the state of a copy of m_connection.  Without an open       *)
(* connection its times are reset.                                         *)
PingResets ==
    /\ pc["ping"] = "test" /\ running /\ ~IsConnected /\ silent
    /\ silent' = FALSE
    /\ UNCHANGED <<running, callback, queues, ptr, state, client, pc, now, calls, current, last>>

(* An answer is overdue: close(), again and again while that lasts; the    *)
(* model waits for its last close() to be carried out.                     *)
PingTimeout ==
    /\ pc["ping"] = "test" /\ running /\ IsConnected /\ silent
    /\ \A i \in 1 .. Len(events) : events[i] # 0
    /\ now = 0 => pc["event"] \in {"test", "wait"}
    /\ Post(0)
    /\ UNCHANGED calls

PingTest ==
    /\ pc["ping"] = "test" /\ running /\ IsConnected /\ ~silent
    /\ Go("ping", "ping")
    /\ UNCHANGED <<running, callback, queues, connection, client, now, calls, current, last>>

Pings ==
    /\ pc["ping"] = "ping" /\ state = "open"
    /\ Go("ping", "test")
    /\ UNCHANGED <<running, callback, queues, connection, client, now, calls, current, last>>

(* The connection of the test, by now perhaps an earlier one, is not open  *)
(* any more: ping() throws, nobody catches it, and the process ends.       *)
PingThrows ==
    /\ \/ pc["ping"] = "ping" /\ state # "open"
       \/ pc["ping"] = "throw"
    /\ Die

PingEnds ==
    /\ pc["ping"] = "test" /\ ~running
    /\ Go("ping", "done")
    /\ UNCHANGED <<running, callback, queues, connection, client, now, calls, current, last>>

PingThread == PingResets \/ PingTimeout \/ PingTest \/ Pings \/ PingThrows \/ PingEnds

-----------------------------------------------------------------------------
(* on_connect(), on_close()                                                *)

Report(t, l, up) ==
    /\ pc["callback"] # "about"
    /\ callbacks' = Append(callbacks, [up |-> up, of |-> current])
    /\ GoAndNotify(t, l, "callback")

\* A slip: the flag stays set.
OnCloseTwice(t, from, l) ==
    /\ pc[t] = from
    /\ IF callback THEN Report(t, l, FALSE)
                   ELSE Go(t, l) /\ UNCHANGED callbacks
    /\ UNCHANGED <<running, callback, events, connection, client, now, calls, current, last>>

(* on_close() of thread t, from its label `from` on; it goes on at l.  Two *)
(* threads are in it at the same time only when exit() has begun and       *)
(* nothing is delivered any more.                                          *)
OnClose(t, from, l) ==
    /\ pc[t] = from
    /\ IF callback THEN Report(t, l, FALSE)
                   ELSE Go(t, l) /\ UNCHANGED callbacks
    /\ callback' = FALSE
    /\ UNCHANGED <<running, events, connection, client, now, calls, current, last>>

-----------------------------------------------------------------------------
(* do_close(), and the same part of do_connect(): real_close(), join,      *)
(* on_close(); by the event thread or by exit(), up to label l             *)

CloseTest(t, from, no) ==
    /\ pc[t] = from
    /\ Go(t, IF IsConnected THEN "check" ELSE no)
    /\ UNCHANGED <<running, callback, queues, connection, client, now, calls, current, last>>

(* real_close(): the connection may be gone by now.                        *)
CloseCheck(t) ==
    /\ pc[t] = "check"
    /\ Go(t, IF ptr THEN "terminate" ELSE "stop")
    /\ UNCHANGED <<running, callback, queues, connection, client, now, calls, current, last>>

(* m_connection->terminate(): its handler is left to the work thread.      *)
Terminate(t) ==
    /\ pc[t] = "terminate" /\ ptr
    /\ leftover' = leftover \cup (IF state = "closed" THEN {} ELSE {"new"})
    /\ state' = "closed"
    /\ Go(t, "reset")
    /\ UNCHANGED <<running, callback, queues, ptr, silent, stopped, now, calls, current, last>>

(* Undefined behaviour: a handler has reset m_connection in between; the   *)
(* process ends.                                                           *)
TerminateNull(t) ==
    /\ pc[t] = "terminate" /\ ~ptr
    /\ Die

CloseReset(t) ==
    /\ pc[t] = "reset"
    /\ ptr' = FALSE
    /\ Go(t, "stop")
    /\ UNCHANGED <<running, callback, queues, state, silent, client, now, calls, current, last>>

Stop(t) ==
    /\ pc[t] = "stop"
    /\ stopped' = TRUE
    /\ Go(t, "join")
    /\ UNCHANGED <<running, callback, queues, connection, leftover, now, calls, current, last>>

Join(t, from, l) ==
    /\ pc[t] = from /\ pc["work"] \in {"none", "ended"}
    /\ pc' = [pc EXCEPT ![t] = l, !["work"] = "none"]
    /\ UNCHANGED <<running, callback, queues, connection, client, now, calls, current, last>>

RealClose(t) ==
    CloseCheck(t) \/ Terminate(t) \/ TerminateNull(t) \/ CloseReset(t) \/ Stop(t) \/ Join(t, "join", "closed")

-----------------------------------------------------------------------------
(* The event thread                                                        *)

Wait(t) ==
    /\ pc[t] = "about"
    /\ Go(t, "wait")
    /\ UNCHANGED <<running, callback, queues, connection, client, now, calls, current, last>>

(* As in module EnetClient, a list and what was taken out of it are one    *)
(* queue.                                                                  *)
EventTest ==
    /\ pc["event"] = "test"
    /\ Go("event", CASE ~running -> "done"
                     [] running /\ events = <<>> -> "about"
                     [] OTHER -> IF Head(events) > 0 THEN "connect" ELSE "close")
    /\ IF running /\ events # <<>>
       THEN now' = Head(events) /\ events' = Tail(events)
       ELSE UNCHANGED <<now, events>>
    /\ UNCHANGED <<running, callback, callbacks, connection, client, calls, current, last>>

ConnectTest ==
    /\ pc["event"] = "connect"
    /\ Go("event", CASE ~running -> "late" [] running /\ IsConnected -> "check" [] OTHER -> "rejoin")
    /\ UNCHANGED <<running, callback, queues, connection, client, now, calls, current, last>>

ConnectLate ==
    /\ pc["event"] = "late"
    /\ Report("event", "test", FALSE)
    /\ callback' = FALSE
    /\ UNCHANGED <<running, events, connection, client, now, calls, current, last>>

(* The end of do_close(), or of a connection that connect() replaces.      *)
EventClosed == OnClose("event", "closed", IF now > 0 THEN "start" ELSE "test")

StartWork ==
    /\ pc["event"] = "start"
    /\ pc' = [pc EXCEPT !["event"] = "test", !["work"] = "begin"]
    /\ current' = now
    /\ UNCHANGED <<running, callback, queues, connection, client, now, calls, last>>

EventThread ==
    \/ Wait("event") \/ EventTest
    \/ CloseTest("event", "close", "test") \/ RealClose("event") \/ EventClosed
    \/ ConnectTest \/ ConnectLate \/ Join("event", "rejoin", "start") \/ StartWork

-----------------------------------------------------------------------------
(* The callback thread                                                     *)

(* on_websocket_connect(), on_websocket_close(), or nothing to do          *)
CallbackTest ==
    /\ pc["callback"] = "test"
    /\ IF running /\ callbacks # <<>>
       THEN /\ last' = Head(callbacks)
            /\ callbacks' = Tail(callbacks)
            /\ UNCHANGED pc
       ELSE /\ Go("callback", IF running THEN "about" ELSE "done")
            /\ UNCHANGED <<callbacks, last>>
    /\ UNCHANGED <<running, callback, events, connection, client, now, calls, current>>

CallbackThread == Wait("callback") \/ CallbackTest

-----------------------------------------------------------------------------
(* The work thread: m_callback = true, real_connect(), run()               *)

\* A slip: the flag is not set again.
FlagNotSet ==
    /\ pc["work"] = "begin"
    /\ Go("work", "dial")
    /\ UNCHANGED <<running, callback, queues, connection, client, now, calls, current, last>>

WorkBegin ==
    /\ pc["work"] = "begin"
    /\ callback' = TRUE
    /\ Go("work", "dial")
    /\ UNCHANGED <<running, queues, connection, client, now, calls, current, last>>

(* real_connect(): a stopped client is reset, the handlers it still holds  *)
(* are now an earlier connection's, as is the ping thread's copy.          *)
WorkDial ==
    /\ pc["work"] = "dial"
    /\ stopped' = FALSE
    /\ leftover' = IF leftover = {} THEN {} ELSE {"old"}
    /\ \/ /\ ptr' = TRUE /\ state' = "connecting"
          /\ pc' = [pc EXCEPT !["work"] = "run", !["ping"] = IF @ = "ping" THEN "throw" ELSE @]
          /\ UNCHANGED silent
       \/ /\ Go("work", "failed")
          /\ UNCHANGED connection
    /\ UNCHANGED <<running, callback, queues, now, calls, current, last>>

WorkFailed == OnClose("work", "failed", "run")

(* The handshake succeeds; set_open_handler.                               *)
WorkOpens ==
    /\ pc["work"] = "run" /\ state = "connecting" /\ ~stopped
    /\ state' = "open"
    /\ Go("work", "opened")
    /\ UNCHANGED <<running, callback, queues, ptr, silent, client, now, calls, current, last>>

WorkOpened ==
    /\ pc["work"] = "opened"
    /\ IF ptr THEN Report("work", "run", TRUE)
              ELSE Go("work", "run") /\ UNCHANGED callbacks
    /\ UNCHANGED <<running, callback, events, connection, client, now, calls, current, last>>

(* The connection fails, or the server closes it.                          *)
WorkLoses ==
    /\ pc["work"] = "run" /\ state # "closed" /\ ~stopped
    /\ state' = "closed"
    /\ Go("work", "lost")
    /\ UNCHANGED <<running, callback, queues, ptr, silent, client, now, calls, current, last>>

\* A slip: a handler does not ask whose it is.
AnyHandler(h) ==
    /\ pc["work"] = "run" /\ h \in leftover /\ ~stopped
    /\ leftover' = leftover \ {h}
    /\ Go("work", "lost")
    /\ UNCHANGED <<running, callback, queues, connection, stopped, now, calls, current, last>>

(* The handler of a terminated connection: an earlier one's finds that it  *)
(* is not m_connection.                                                    *)
WorkHandler(h) ==
    /\ pc["work"] = "run" /\ h \in leftover /\ ~stopped
    /\ leftover' = leftover \ {h}
    /\ Go("work", IF h = "new" THEN "lost" ELSE "run")
    /\ UNCHANGED <<running, callback, queues, connection, stopped, now, calls, current, last>>

(* set_close_handler, set_fail_handler                                     *)
WorkLost ==
    /\ pc["work"] = "lost"
    /\ ptr' = FALSE
    /\ Go("work", IF ptr THEN "report" ELSE "run")
    /\ UNCHANGED <<running, callback, queues, state, silent, client, now, calls, current, last>>

WorkReports == OnClose("work", "report", "run")

(* run() returns.                                                          *)
WorkEnds ==
    /\ pc["work"] = "run" /\ (stopped \/ (state = "closed" /\ leftover = {}))
    /\ Go("work", "ended")
    /\ UNCHANGED <<running, callback, queues, connection, client, now, calls, current, last>>

(* What the work thread does without the server's help: a handshake that   *)
(* is not answered times out.                                              *)
WorkThread ==
    \/ WorkBegin \/ WorkDial \/ WorkFailed \/ WorkOpened \/ WorkLost \/ WorkReports \/ WorkEnds
    \/ \E h \in {"old", "new"} : WorkHandler(h)
    \/ state = "connecting" /\ (WorkOpens \/ WorkLoses)

ServerCloses == state = "open" /\ WorkLoses

ServerFallsSilent ==
    /\ state = "open" /\ ~silent /\ running
    /\ silent' = TRUE
    /\ UNCHANGED <<running, callback, queues, ptr, state, client, pc, now, calls, current, last>>

-----------------------------------------------------------------------------
(* exit()                                                                  *)

(* The ping thread's times are not looked at any more.                     *)
Exit ==
    /\ pc["owner"] = "up"
    /\ running' = FALSE /\ silent' = FALSE
    /\ Go("owner", "close")
    /\ UNCHANGED <<callback, queues, ptr, state, client, now, calls, current, last>>

ExitNotifies ==
    /\ pc["owner"] = "notify"
    /\ GoAndNotify("owner", "join event", "event")
    /\ UNCHANGED <<running, callback, queues, connection, client, now, calls, current, last>>

(* The event thread is joined, the callback thread notified.               *)
ExitJoinsEvent ==
    /\ pc["owner"] = "join event" /\ pc["event"] = "done"
    /\ GoAndNotify("owner", "join others", "callback")
    /\ UNCHANGED <<running, callback, queues, connection, client, now, calls, current, last>>

\* A slip: do_close() has joined the work thread, if there was one.
ExitJoinsNoWork ==
    /\ pc["owner"] = "join others"
    /\ pc["callback"] = "done" /\ pc["ping"] = "done"
    /\ events' = <<>> /\ callbacks' = <<>> /\ callback' = FALSE
    /\ pc' = [pc EXCEPT !["owner"] = "exited"]
    /\ UNCHANGED <<running, connection, client, now, calls, current, last>>

(* The callback, the ping and the work thread are joined, the lists        *)
(* cleared.                                                                *)
ExitJoinsOthers ==
    /\ pc["owner"] = "join others"
    /\ pc["callback"] = "done" /\ pc["ping"] = "done" /\ pc["work"] \in {"none", "ended"}
    /\ events' = <<>> /\ callbacks' = <<>> /\ callback' = FALSE
    /\ pc' = [pc EXCEPT !["owner"] = "exited", !["work"] = "none"]
    /\ UNCHANGED <<running, connection, client, now, calls, current, last>>

OwnerThread ==
    \/ CloseTest("owner", "close", "notify") \/ RealClose("owner")
    \/ OnClose("owner", "closed", "notify")
    \/ ExitNotifies \/ ExitJoinsEvent \/ ExitJoinsOthers

(* Undefined behaviour: of two threads that join the work thread at the    *)
(* same time the second goes on with the first, or its join() throws and   *)
(* the process ends.                                                       *)
JoinTwice ==
    /\ pc["owner"] = "join" /\ pc["event"] \in {"join", "rejoin"} /\ pc["work"] # "none"
    /\ Die

-----------------------------------------------------------------------------
Next ==
    \/ Connect \/ Close \/ Exit \/ ServerCloses \/ ServerFallsSilent \/ JoinTwice
    \/ EventThread \/ CallbackThread \/ WorkThread \/ PingThread \/ OwnerThread

(* Every thread that can go on does, and the ping thread's times come.     *)
Fairness ==
    /\ WF_vars(EventThread) /\ WF_vars(CallbackThread) /\ WF_vars(WorkThread)
    /\ WF_vars(PingThread) /\ WF_vars(OwnerThread)

Spec == Init /\ [][Next]_vars /\ Fairness

-----------------------------------------------------------------------------
(* Properties *)

(* Every on_websocket_connect() is followed by the on_websocket_close() of *)
(* the same connection, and no connection is closed twice, whoever ends    *)
(* it: close(), a connect() that replaces it, the server or the ping       *)
(* thread.                                                                 *)
FollowsUp ==
    IF last.up THEN last' = [up |-> FALSE, of |-> last.of]
               ELSE last'.of > last.of
Delivers == running /\ Len(callbacks') < Len(callbacks)
Paired == [][Delivers => FollowsUp]_vars

(* When all is quiet the last callback told the truth about the connection *)
(* and about is_connected(): no handler of an earlier connection ended it. *)
Quiet ==
    /\ running
    /\ pc["event"] = "wait" /\ pc["callback"] = "wait"
    /\ pc["work"] \in {"none", "run", "ended"}
LastReportTrue == Quiet => (last.up <=> state = "open") /\ (last.up <=> IsConnected)

(* exit() leaves no thread behind, not even one that do_connect() starts   *)
(* while exit() runs.                                                      *)
AllJoined ==
    pc["owner"] = "exited" =>
        pc["work"] = "none" /\ \A t \in {"event", "callback", "ping"} : pc[t] = "done"

(* A connect() that came before the last one was answered keeps the event  *)
(* thread in a join until that connection ends.                            *)
Deaf == pc["event"] = "rejoin" /\ IsConnected

(* connect() is answered by on_websocket_connect() or                      *)
(* on_websocket_close(), unless the client exits or is deaf.               *)
ConnectAnswered ==
    \A n \in 1 .. MaxConnects :
        connects >= n ~> last.of >= n \/ ~running \/ Deaf

(* A connection that is silent by the ping thread's times is closed,       *)
(* unless the client exits or is deaf: also one that opens while they      *)
(* still are those of the connection before, until the thread has looked.  *)
SilentIsClosed == IsConnected /\ silent ~> ~IsConnected \/ ~running \/ Deaf
=============================================================================
