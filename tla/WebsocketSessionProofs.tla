------------------------ MODULE WebsocketSessionProofs ------------------------
(***************************************************************************)
(* Proofs about WebsocketSession, for any number of connect() and close()  *)
(* calls, of the user's and of the ping thread's.                          *)
(***************************************************************************)
EXTENDS WebsocketSession, SequenceTheorems, TLAPS

(* Where threads may stand.                                                *)
Closing == {"check", "terminate", "reset", "stop", "join", "closed"}
EventLabel == {"test", "about", "wait", "connect", "late", "rejoin", "start", "close", "done", "dead"} \cup Closing
CallbackLabel == {"test", "about", "wait", "done", "dead"}
WorkLabel ==
    {"none", "begin", "dial", "failed", "run", "opened", "lost", "report", "ended", "dead"}
OwnerLabel ==
    {"up", "close", "notify", "join event", "join others", "exited", "dead"} \cup Closing

PingLabel == {"test", "ping", "throw", "done", "dead"}

Label == PingLabel \cup EventLabel \cup CallbackLabel \cup WorkLabel \cup OwnerLabel

Labels ==
    /\ pc \in [Threads -> Label]
    /\ pc["event"] \in EventLabel /\ pc["callback"] \in CallbackLabel
    /\ pc["work"] \in WorkLabel /\ pc["ping"] \in PingLabel
    /\ pc["owner"] \in OwnerLabel

(* exit() joins the event thread before the others, so that nobody starts  *)
(* a work thread behind its back.                                          *)
EventDone == pc["owner"] \in {"join others", "exited"} => pc["event"] = "done"

JoinInv == Labels /\ EventDone /\ AllJoined

(* The initial states satisfy it.                                          *)
LEMMA InitJoin == Init => JoinInv
<1> SUFFICES ASSUME Init PROVE JoinInv
  OBVIOUS
<1> USE DEF Threads, EventLabel, CallbackLabel, WorkLabel, OwnerLabel, PingLabel, Closing, Label
<1>1. /\ pc["owner"] = "up" /\ pc["work"] = "none"
      /\ pc["event"] = "test" /\ pc["callback"] = "test" /\ pc["ping"] = "test"
  BY DEF Init
<1>2. pc \in [Threads -> Label]
  BY DEF Init
<1> QED BY <1>1, <1>2 DEF JoinInv, Labels, EventDone, AllJoined

(* Steps of the ping thread that report nothing and do not end the process, *)
(* and what a new connection makes of its ping.                            *)
PingMoves == PingResets \/ PingTest \/ Pings \/ PingEnds

LEMMA PingKeeps ==
    ASSUME Labels, PingMoves
    PROVE  /\ \A u \in Threads \ {"ping"} : pc'[u] = pc[u]
           /\ UNCHANGED <<running, callback, queues, ptr, state, client, now, calls, current, last>>
BY DEF PingMoves, PingResets, PingTest, Pings, PingEnds, Go, Labels, connection

LEMMA DialMoves ==
    ASSUME Labels, WorkDial
    PROVE  /\ pc["work"] = "dial" /\ pc'["work"] \in {"run", "failed"}
           /\ \A u \in {"event", "callback", "owner"} : pc'[u] = pc[u]
           /\ pc'["work"] = "failed" => UNCHANGED connection
           /\ pc'["work"] = "run" => ptr' = TRUE /\ state' = "connecting" /\ silent' = silent
BY DEF WorkDial, Go, Labels, Threads

(* A step that moves no thread.                                            *)
LEMMA SamePlaces == JoinInv /\ pc' = pc => JoinInv'
BY DEF JoinInv, Labels, EventDone, AllJoined

(* on_close() may wake the callback thread.                                *)
LEMMA OnCloseMoves ==
    ASSUME NEW t, NEW from, NEW l, OnClose(t, from, l)
    PROVE  pc[t] = from /\ (GoAndNotify(t, l, "callback") \/ Go(t, l))
BY DEF OnClose, Report

(* real_close() keeps it, on the event thread and on the owner's.          *)
LEMMA RealCloseJoin ==
    ASSUME JoinInv, NEW t \in {"event", "owner"}, RealClose(t)
    PROVE  JoinInv'
<1> USE DEF JoinInv, Labels, EventDone, AllJoined, Threads, EventLabel, CallbackLabel, WorkLabel,
            OwnerLabel, PingLabel, Closing, Label
<1>1. CASE CloseCheck(t)
  BY <1>1 DEF CloseCheck, Go
<1>2. CASE Terminate(t)
  BY <1>2 DEF Terminate, Go
<1>3. CASE TerminateNull(t)
  BY <1>3 DEF TerminateNull, Die
<1>4. CASE CloseReset(t)
  BY <1>4 DEF CloseReset, Go
<1>5. CASE Stop(t)
  BY <1>5 DEF Stop, Go
<1>6. CASE Join(t, "join", "closed")
  <2>1. CASE t = "event"
    BY <1>6, <2>1 DEF Join
  <2>2. CASE t = "owner"
    BY <1>6, <2>2 DEF Join
  <2> QED BY <2>1, <2>2
<1> QED BY <1>1, <1>2, <1>3, <1>4, <1>5, <1>6 DEF RealClose

(* The event thread keeps it: only it starts a work thread.                *)
LEMMA EventJoin == JoinInv /\ EventThread => JoinInv'
<1> SUFFICES ASSUME JoinInv, EventThread PROVE JoinInv'
  OBVIOUS
<1>1. CASE RealClose("event")
  BY <1>1, RealCloseJoin
<1> USE DEF JoinInv, Labels, EventDone, AllJoined, Threads, EventLabel, CallbackLabel, WorkLabel,
            OwnerLabel, PingLabel, Closing, Label
<1>2. CASE Wait("event")
  BY <1>2 DEF Wait, Go
<1>3. CASE EventTest
  BY <1>3 DEF EventTest, Go
<1>4. CASE CloseTest("event", "close", "test")
  BY <1>4 DEF CloseTest, Go
<1>5. CASE EventClosed
  <2>1. pc["event"] = "closed" /\ \E l \in {"start", "test"} :
          GoAndNotify("event", l, "callback") \/ Go("event", l)
    BY <1>5, OnCloseMoves DEF EventClosed
  <2>2. CASE Go("event", "start")
    BY <2>1, <2>2 DEF Go
  <2>3. CASE Go("event", "test")
    BY <2>1, <2>3 DEF Go
  <2>4. CASE GoAndNotify("event", "start", "callback")
    BY <2>1, <2>4 DEF GoAndNotify
  <2>5. CASE GoAndNotify("event", "test", "callback")
    BY <2>1, <2>5 DEF GoAndNotify
  <2> QED BY <2>1, <2>2, <2>3, <2>4, <2>5
<1>6. CASE ConnectTest
  BY <1>6 DEF ConnectTest, Go
<1>7. CASE ConnectLate
  BY <1>7 DEF ConnectLate, Report, GoAndNotify
<1>8. CASE Join("event", "rejoin", "start")
  BY <1>8 DEF Join
<1>9. CASE StartWork
  BY <1>9 DEF StartWork
<1> QED BY <1>1, <1>2, <1>3, <1>4, <1>5, <1>6, <1>7, <1>8, <1>9 DEF EventThread

(* The work thread keeps it.                                               *)
LEMMA ReportPlaces ==
    ASSUME JoinInv, pc["work"] \in {"failed", "report", "opened"},
           GoAndNotify("work", "run", "callback") \/ Go("work", "run")
    PROVE  JoinInv'
<1>1. /\ pc \in [Threads -> Label] /\ "run" \in Label /\ "test" \in Label
      /\ "run" \in WorkLabel /\ "test" \in CallbackLabel
  BY DEF JoinInv, Labels, Label, WorkLabel, CallbackLabel
<1>2. /\ pc' \in [Threads -> Label]
      /\ pc'["work"] = "run" /\ pc'["callback"] \in {pc["callback"], "test"}
      /\ \A t \in {"event", "ping", "owner"} : pc'[t] = pc[t]
  <2>1. CASE Go("work", "run")
    BY <1>1, <2>1 DEF Go, Threads
  <2>2. CASE GoAndNotify("work", "run", "callback")
    BY <1>1, <2>2 DEF GoAndNotify, Threads
  <2> QED BY <2>1, <2>2
<1>3. Labels'
  BY <1>1, <1>2 DEF JoinInv, Labels
<1>4. EventDone' /\ AllJoined'
  BY <1>2 DEF JoinInv, EventDone, AllJoined, Threads
<1> QED BY <1>3, <1>4 DEF JoinInv

LEMMA WorkJoin == JoinInv /\ (WorkThread \/ WorkLoses) => JoinInv'
<1> SUFFICES ASSUME JoinInv, WorkThread \/ WorkLoses PROVE JoinInv'
  OBVIOUS
<1> USE DEF JoinInv, Labels, EventDone, AllJoined, Threads, EventLabel, CallbackLabel, WorkLabel,
            OwnerLabel, PingLabel, Closing, Label
<1>1. CASE WorkBegin
  BY <1>1 DEF WorkBegin, Go
<1>2. CASE WorkDial
  <2>1. CASE Go("work", "failed")
    BY <1>2, <2>1 DEF WorkDial, Go
  <2>2. CASE pc' = [pc EXCEPT !["work"] = "run", !["ping"] = IF @ = "ping" THEN "throw" ELSE @]
    BY <1>2, <2>2 DEF WorkDial
  <2> QED BY <1>2, <2>1, <2>2 DEF WorkDial
<1>3. CASE WorkFailed
  <2>1. pc["work"] = "failed" /\ (GoAndNotify("work", "run", "callback") \/ Go("work", "run"))
    BY <1>3, OnCloseMoves DEF WorkFailed
  <2> QED BY <2>1, ReportPlaces
<1>4. CASE WorkOpens
  BY <1>4 DEF WorkOpens, Go
<1>5. CASE WorkOpened
  <2>1. pc["work"] = "opened" /\ (GoAndNotify("work", "run", "callback") \/ Go("work", "run"))
    BY <1>5 DEF WorkOpened, Report
  <2> QED BY <2>1, ReportPlaces
<1>6. CASE WorkLoses
  BY <1>6 DEF WorkLoses, Go
<1>7. ASSUME NEW h \in {"old", "new"}, WorkHandler(h) PROVE JoinInv'
  BY <1>7 DEF WorkHandler, Go
<1>8. CASE WorkLost
  BY <1>8 DEF WorkLost, Go
<1>9. CASE WorkReports
  <2>1. pc["work"] = "report" /\ (GoAndNotify("work", "run", "callback") \/ Go("work", "run"))
    BY <1>9, OnCloseMoves DEF WorkReports
  <2> QED BY <2>1, ReportPlaces
<1>10. CASE WorkEnds
  BY <1>10 DEF WorkEnds, Go
<1> QED BY <1>1, <1>2, <1>3, <1>4, <1>5, <1>6, <1>7, <1>8, <1>9, <1>10 DEF WorkThread

(* exit() keeps it: it joins what it says it has joined.                   *)
LEMMA OwnerJoin == JoinInv /\ OwnerThread => JoinInv'
<1> SUFFICES ASSUME JoinInv, OwnerThread PROVE JoinInv'
  OBVIOUS
<1>1. CASE RealClose("owner")
  BY <1>1, RealCloseJoin
<1> USE DEF JoinInv, Labels, EventDone, AllJoined, Threads, EventLabel, CallbackLabel, WorkLabel,
            OwnerLabel, PingLabel, Closing, Label
<1>2. CASE CloseTest("owner", "close", "notify")
  BY <1>2 DEF CloseTest, Go
<1>3. CASE OnClose("owner", "closed", "notify")
  <2>1. pc["owner"] = "closed" /\ (GoAndNotify("owner", "notify", "callback") \/ Go("owner", "notify"))
    BY <1>3, OnCloseMoves
  <2>2. CASE Go("owner", "notify")
    BY <2>1, <2>2 DEF Go
  <2>3. CASE GoAndNotify("owner", "notify", "callback")
    BY <2>1, <2>3 DEF GoAndNotify
  <2> QED BY <2>1, <2>2, <2>3
<1>4. CASE ExitNotifies
  BY <1>4 DEF ExitNotifies, GoAndNotify
<1>5. CASE ExitJoinsEvent
  BY <1>5 DEF ExitJoinsEvent, GoAndNotify
<1>6. CASE ExitJoinsOthers
  BY <1>6 DEF ExitJoinsOthers
<1> QED BY <1>1, <1>2, <1>3, <1>4, <1>5, <1>6 DEF OwnerThread

(* Nor does it matter that a request wakes the event thread.               *)
LEMMA EventWoken ==
    ASSUME JoinInv, pc' = [pc EXCEPT !["event"] = IF @ = "wait" THEN "test" ELSE @]
    PROVE  JoinInv'
<1>1. /\ pc \in [Threads -> Label] /\ "test" \in Label /\ "test" \in EventLabel
  BY DEF JoinInv, Labels, Label, EventLabel
<1>2. /\ pc' \in [Threads -> Label] /\ pc'["event"] \in {pc["event"], "test"}
      /\ pc["event"] = "done" => pc'["event"] = "done"
      /\ \A t \in {"callback", "work", "ping", "owner"} : pc'[t] = pc[t]
  BY <1>1 DEF Threads
<1>3. Labels'
  BY <1>1, <1>2 DEF JoinInv, Labels
<1>4. EventDone' /\ AllJoined'
  BY <1>2 DEF JoinInv, EventDone, AllJoined
<1> QED BY <1>3, <1>4 DEF JoinInv

(* Every step keeps it.                                                    *)
LEMMA NextJoin == JoinInv /\ [Next]_vars => JoinInv'
<1> SUFFICES ASSUME JoinInv, [Next]_vars PROVE JoinInv'
  OBVIOUS
<1>1. CASE EventThread \/ WorkThread \/ ServerCloses \/ OwnerThread
  BY <1>1, EventJoin, WorkJoin, OwnerJoin DEF ServerCloses
<1> USE DEF JoinInv, Labels, EventDone, AllJoined, Threads, EventLabel, CallbackLabel, WorkLabel,
            OwnerLabel, PingLabel, Closing, Label
<1>2. CASE Connect \/ Close \/ PingTimeout
  <2>1. pc' = [pc EXCEPT !["event"] = IF @ = "wait" THEN "test" ELSE @]
    BY <1>2 DEF Connect, Close, PingTimeout, Post
  <2> QED BY <2>1, EventWoken
<1>3. CASE Exit
  BY <1>3 DEF Exit, Go
<1>4. CASE ServerFallsSilent \/ UNCHANGED vars
  BY <1>4, SamePlaces DEF ServerFallsSilent, vars
<1>5. CASE JoinTwice
  BY <1>5 DEF JoinTwice, Die
<1>6. CASE CallbackThread
  <2>1. CASE Wait("callback")
    BY <2>1 DEF Wait, Go
  <2>2. CASE CallbackTest
    <3>1. CASE pc' = pc
      BY <3>1, SamePlaces
    <3>2. CASE pc["callback"] = "test" /\ Go("callback", "about")
      BY <3>2 DEF Go
    <3>3. CASE pc["callback"] = "test" /\ Go("callback", "done")
      BY <3>3 DEF Go
    <3> QED BY <2>2, <3>1, <3>2, <3>3 DEF CallbackTest
  <2> QED BY <1>6, <2>1, <2>2 DEF CallbackThread
<1>7. CASE PingResets \/ PingTest \/ Pings \/ PingEnds
  <2>1. CASE pc' = pc
    BY <2>1, SamePlaces
  <2>2. CASE PingTest
    BY <2>2 DEF PingTest, Go
  <2>3. CASE Pings
    BY <2>3 DEF Pings, Go
  <2>4. CASE PingEnds
    BY <2>4 DEF PingEnds, Go
  <2> QED BY <1>7, <2>1, <2>2, <2>3, <2>4 DEF PingResets
<1>8. CASE PingThrows
  BY <1>8 DEF PingThrows, Die
<1> QED BY <1>1, <1>2, <1>3, <1>4, <1>5, <1>6, <1>7, <1>8 DEF Next, PingThread

(* JoinInv always holds.                                                   *)
LEMMA JoinAlways == Spec => []JoinInv
BY InitJoin, NextJoin, PTL DEF Spec

(* exit() leaves no thread behind, not even one that do_connect() starts   *)
(* while exit() runs: the event thread is joined before the work thread is *)
(* looked at for the last time.                                            *)
THEOREM EveryThreadJoined == Spec => []AllJoined
<1>1. JoinInv => AllJoined
  BY DEF JoinInv
<1> QED BY <1>1, JoinAlways, PTL

-----------------------------------------------------------------------------
(* Types: reports answer a connect(), events are connects and closes.      *)
Reports == [up : BOOLEAN, of : Nat]

Typed ==
    /\ events \in Seq(Nat) /\ callbacks \in Seq(Reports) /\ last \in Reports
    /\ now \in Nat /\ connects \in Nat /\ current \in Nat
    /\ running \in BOOLEAN /\ callback \in BOOLEAN /\ ptr \in BOOLEAN /\ stopped \in BOOLEAN
    /\ state \in {"closed", "connecting", "open"}
    /\ leftover \subseteq {"old", "new"}

(* exit() has not begun while the client runs.                             *)
Up == running => pc["owner"] = "up" /\ pc["event"] # "late"

(* The connection and its threads.                                         *)
Connection ==
    running =>
        /\ pc["work"] \in {"none", "begin", "dial", "failed"} => ~ptr /\ state = "closed"
        /\ pc["work"] \in {"lost", "report"} => state = "closed"
        /\ pc["work"] = "report" => ~ptr
        /\ pc["work"] = "ended" => state = "closed"
        /\ pc["event"] \in Closing => pc["work"] \notin {"begin", "dial", "failed"} /\ state # "connecting"
        /\ pc["event"] \in {"reset", "stop", "join", "closed"} => state = "closed"
        /\ pc["event"] \in {"stop", "join", "closed"} => ~ptr
        /\ pc["event"] \in {"closed", "start"} => pc["work"] = "none"
        /\ state # "closed" => ptr
        /\ ptr /\ state = "closed" => pc["work"] = "lost" \/ pc["event"] = "reset"
        /\ stopped => pc["event"] = "join" \/ pc["work"] \in {"none", "begin", "dial"}
        /\ pc["work"] = "opened" => state # "connecting"
        /\ pc["work"] = "lost" /\ ~ptr => pc["event"] \in {"stop", "join"}
        /\ "new" \in leftover =>
               /\ state = "closed" /\ pc["work"] \notin {"lost", "report"}
               /\ pc["event"] = "reset" => ptr
               /\ pc["event"] \in {"reset", "stop", "join"} \/ pc["work"] \in {"none", "begin", "dial"}

(* The last report on its way.                                             *)
Latest == IF callbacks = <<>> THEN last ELSE callbacks[Len(callbacks)]

CallbackWaits == running /\ pc["callback"] \in {"about", "wait"} => callbacks = <<>>

(* m_callback says that on_close() has something to report.                *)
Flag ==
    running =>
        /\ Latest.up => callback
        /\ pc["work"] \in {"dial", "failed", "opened"} \/ state # "closed" => callback
        /\ pc["work"] = "opened" => ~Latest.up

(* The reports on their way say what is_connected() says, unless a thread  *)
(* is on its way to report the difference.                                 *)
Reporting ==
    running =>
        /\ IsConnected /\ pc["work"] # "opened" => Latest.up
        /\ Latest.up /\ ~IsConnected =>
               \/ pc["event"] \in {"reset", "stop", "join", "closed"}
               \/ pc["work"] \in {"lost", "report"}

ReportInv == Typed /\ Up /\ Connection /\ CallbackWaits /\ Flag /\ Reporting

(* The initial states satisfy it.                                          *)
LEMMA InitReport == Init => ReportInv
<1> SUFFICES ASSUME Init PROVE ReportInv
  OBVIOUS
<1>1. Typed
  <2>1. [up |-> FALSE, of |-> 0] \in Reports /\ <<>> \in Seq(Nat) /\ <<>> \in Seq(Reports)
    BY DEF Reports
  <2> QED BY <2>1 DEF Init, Typed
<1>2. /\ pc["owner"] = "up" /\ pc["event"] = "test" /\ pc["callback"] = "test"
      /\ pc["work"] = "none"
  BY DEF Init, Threads
<1>3. ~Latest.up
  BY DEF Init, Latest
<1> QED BY <1>1, <1>2, <1>3
     DEF Init, ReportInv, Up, Connection, CallbackWaits, Flag, Reporting, IsConnected, Closing

(* One thread goes on, and another may be woken.                           *)
LEMMA GoFacts ==
    ASSUME Labels, NEW t \in Threads, NEW l, Go(t, l)
    PROVE  pc'[t] = l /\ \A u \in Threads \ {t} : pc'[u] = pc[u]
BY DEF Labels, Go

LEMMA NotifyFacts ==
    ASSUME Labels, NEW t \in Threads, NEW l, NEW o \in Threads \ {t}, GoAndNotify(t, l, o)
    PROVE  /\ pc'[t] = l /\ \A u \in Threads \ {t, o} : pc'[u] = pc[u]
           /\ pc'[o] = IF pc[o] = "wait" THEN "test" ELSE pc[o]
BY DEF Labels, GoAndNotify

(* What is queued keeps its type: when something is posted, ...            *)
LEMMA PostTyped ==
    ASSUME Typed, NEW e \in Nat, Post(e), connects' \in Nat
    PROVE  Typed'
<1>1. events' \in Seq(Nat)
  <2>1. events \in Seq(Nat)
    BY DEF Typed
  <2> QED BY <2>1 DEF Post
<1> QED BY <1>1 DEF Typed, Post, connection, client

(* ... reported, ...                                                       *)
LEMMA ReportTyped ==
    ASSUME Typed, NEW t, NEW l, NEW up \in BOOLEAN, Report(t, l, up)
    PROVE  /\ callbacks' \in Seq(Reports)
           /\ callbacks' # <<>> /\ callbacks'[Len(callbacks')] = [up |-> up, of |-> current]
           /\ Len(callbacks') = Len(callbacks) + 1
           /\ \A i \in 1 .. Len(callbacks) : callbacks'[i] = callbacks[i]
<1> DEFINE c == [up |-> up, of |-> current]
<1>1. c \in Reports /\ callbacks \in Seq(Reports) /\ callbacks' = Append(callbacks, c)
  BY DEF Report, Typed, Reports
<1> HIDE DEF c
<1>2. /\ callbacks' \in Seq(Reports) /\ callbacks' # <<>> /\ callbacks'[Len(callbacks')] = c
      /\ Len(callbacks') = Len(callbacks) + 1
      /\ \A i \in 1 .. Len(callbacks) : callbacks'[i] = callbacks[i]
  BY <1>1
<1> QED BY <1>2 DEF c

(* ... taken out, ...                                                      *)
LEMMA EventTyped == Typed /\ EventTest => Typed'
<1> SUFFICES ASSUME Typed, EventTest PROVE Typed'
  OBVIOUS
<1>1. events \in Seq(Nat)
  BY DEF Typed
<1>2. events # <<>> => Head(events) \in Nat /\ Tail(events) \in Seq(Nat)
  BY <1>1, HeadTailProperties, Zenon
<1>3. events' \in Seq(Nat) /\ now' \in Nat
  BY <1>1, <1>2 DEF EventTest, Typed
<1> QED BY <1>3 DEF EventTest, Typed, connection, client, calls

(* ... or delivered.                                                       *)
LEMMA DeliveryTyped ==
    ASSUME Typed, callbacks # <<>>, callbacks' = Tail(callbacks), last' = Head(callbacks)
    PROVE  /\ callbacks' \in Seq(Reports) /\ last' \in Reports /\ last' = callbacks[1]
           /\ Len(callbacks') = Len(callbacks) - 1 /\ Len(callbacks) \in Nat \ {0}
           /\ \A i \in 1 .. Len(callbacks') : callbacks'[i] = callbacks[i + 1]
<1>1. callbacks \in Seq(Reports)
  BY DEF Typed
<1>2. Len(callbacks) \in Nat \ {0} /\ Head(callbacks) = callbacks[1] /\ callbacks[1] \in Reports
  BY <1>1, EmptySeq
<1>3. /\ Tail(callbacks) \in Seq(Reports) /\ Len(Tail(callbacks)) = Len(callbacks) - 1
      /\ \A i \in 1 .. Len(Tail(callbacks)) : Tail(callbacks)[i] = callbacks[i + 1]
  BY <1>1, HeadTailProperties
<1> QED BY <1>2, <1>3

(* A delivery does not change the latest report.                           *)
LEMMA DeliveryLatest ==
    ASSUME Typed, callbacks # <<>>, callbacks' = Tail(callbacks), last' = Head(callbacks)
    PROVE  Latest' = Latest
<1>1. /\ last' = callbacks[1] /\ callbacks' \in Seq(Reports)
      /\ Len(callbacks') = Len(callbacks) - 1 /\ Len(callbacks) \in Nat \ {0}
      /\ \A i \in 1 .. Len(callbacks') : callbacks'[i] = callbacks[i + 1]
  BY DeliveryTyped
<1>2. CASE Len(callbacks) = 1
  <2>1. callbacks' = <<>>
    BY <1>1, <1>2, EmptySeq
  <2> QED BY <1>1, <1>2, <2>1 DEF Latest
<1>3. CASE Len(callbacks) # 1
  <2> DEFINE n == Len(callbacks)  m == Len(callbacks')
  <2>1. m \in 1 .. m /\ m + 1 = n
    BY <1>1, <1>3
  <2>2. callbacks' # <<>>
    BY <1>1, <1>3, EmptySeq
  <2>3. callbacks'[m] = callbacks[n]
    BY <1>1, <2>1
  <2> QED BY <2>2, <2>3 DEF Latest
<1> QED BY <1>2, <1>3

(* on_close() and the callback's types.                                    *)
LEMMA OnCloseTyped == ASSUME Typed, NEW t, NEW from, NEW l, OnClose(t, from, l) PROVE Typed'
<1>1. callbacks' \in Seq(Reports)
  <2>1. Report(t, l, FALSE) => callbacks' \in Seq(Reports)
    BY ReportTyped
  <2> QED BY <2>1 DEF OnClose, Typed
<1> QED BY <1>1 DEF OnClose, Typed, connection, client, calls

(* Every step keeps the types.                                             *)
LEMMA NextTyped == Typed /\ [Next]_vars => Typed'
<1> SUFFICES ASSUME Typed, [Next]_vars PROVE Typed'
  OBVIOUS
<1>1. CASE Connect \/ Close \/ PingTimeout
  <2>1. \E e \in Nat : Post(e) /\ connects' \in Nat
    BY <1>1 DEF Connect, Close, PingTimeout, Typed, calls
  <2> QED BY <2>1, PostTyped
<1>2. ASSUME NEW t \in {"event", "owner"}, RealClose(t) PROVE Typed'
  BY <1>2 DEF RealClose, CloseCheck, Terminate, TerminateNull, Die, CloseReset, Stop, Join, Typed,
     queues, connection, client, calls
<1>3. CASE EventThread
  <2>1. CASE ConnectLate
    <3>1. callbacks' \in Seq(Reports)
      BY <2>1, ReportTyped DEF ConnectLate
    <3> QED BY <2>1, <3>1 DEF ConnectLate, Typed, connection, client, calls
  <2>2. CASE \/ Wait("event") \/ CloseTest("event", "close", "test")
             \/ ConnectTest \/ Join("event", "rejoin", "start") \/ StartWork
    BY <2>2 DEF Wait, CloseTest, ConnectTest, Join, StartWork, Typed, queues, connection, client, calls
  <2> QED BY <1>2, <1>3, <2>1, <2>2, EventTyped, OnCloseTyped DEF EventThread, EventClosed
<1>4. CASE WorkThread \/ WorkLoses
  <2>1. CASE WorkFailed \/ WorkReports
    BY <2>1, OnCloseTyped DEF WorkFailed, WorkReports
  <2>2. CASE WorkOpened
    <3>1. callbacks' \in Seq(Reports)
      <4>1. Report("work", "run", TRUE) => callbacks' \in Seq(Reports)
        BY ReportTyped
      <4> QED BY <2>2, <4>1 DEF WorkOpened, Typed
    <3> QED BY <2>2, <3>1 DEF WorkOpened, Typed, connection, client, calls
  <2>3. CASE WorkBegin \/ WorkDial \/ WorkOpens \/ WorkLoses
    BY <2>3 DEF WorkBegin, WorkDial, WorkOpens, WorkLoses, Typed, queues, connection, client, calls
  <2>4. CASE WorkLost \/ WorkEnds \/ \E h \in {"old", "new"} : WorkHandler(h)
    BY <2>4 DEF WorkLost, WorkEnds, WorkHandler, Typed, queues, connection, client, calls
  <2> QED BY <1>4, <2>1, <2>2, <2>3, <2>4 DEF WorkThread
<1>5. CASE CallbackThread
  <2>1. callbacks' \in Seq(Reports) /\ last' \in Reports
    BY <1>5, DeliveryTyped DEF CallbackThread, Wait, CallbackTest, Typed, queues
  <2> QED BY <1>5, <2>1 DEF CallbackThread, Wait, CallbackTest, Typed, queues, connection, client, calls
<1>6. CASE OwnerThread
  <2>1. CASE CloseTest("owner", "close", "notify") \/ ExitNotifies \/ ExitJoinsEvent
    BY <2>1 DEF CloseTest, ExitNotifies, ExitJoinsEvent, Typed, queues, connection, client, calls
  <2>2. CASE ExitJoinsOthers
    <3>1. <<>> \in Seq(Nat) /\ <<>> \in Seq(Reports)
      OBVIOUS
    <3> QED BY <2>2, <3>1 DEF ExitJoinsOthers, Typed, connection, client, calls
  <2> QED BY <1>2, <1>6, <2>1, <2>2, OnCloseTyped DEF OwnerThread
<1>7. CASE Exit \/ ServerFallsSilent \/ JoinTwice \/ UNCHANGED vars
  BY <1>7 DEF Exit, ServerFallsSilent, JoinTwice, Die, vars, Typed, queues, connection, client, calls
<1>8. CASE PingResets \/ PingTest \/ Pings \/ PingThrows \/ PingEnds
  BY <1>8 DEF PingResets, PingTest, Pings, PingThrows, Die, PingEnds, Typed, queues, connection, client,
     calls
<1> QED BY <1>1, <1>3, <1>4, <1>5, <1>6, <1>7, <1>8 DEF Next, ServerCloses, PingThread

(* Only a client that runs has to report.                                  *)
LEMMA NotRunning ==
    ASSUME ~running' PROVE Up' /\ Connection' /\ CallbackWaits' /\ Flag' /\ Reporting'
BY DEF Up, Connection, CallbackWaits, Flag, Reporting

(* on_close() has the last word, if it reports; in any case the latest     *)
(* report is then of a connection that is closed.                          *)
LEMMA OnCloseSays ==
    ASSUME JoinInv, ReportInv, running, NEW t \in {"event", "work"}, NEW from, NEW l,
           OnClose(t, from, l)
    PROVE  /\ pc[t] = from /\ pc'[t] = l
           /\ \A u \in Threads \ {t, "callback"} : pc'[u] = pc[u]
           /\ ~Latest'.up /\ CallbackWaits' /\ callback' = FALSE
           /\ Latest' = Latest \/ (callback /\ Latest' = [up |-> FALSE, of |-> current])
           /\ UNCHANGED <<running, ptr, state, stopped, leftover, events, now, connects, current>>
<1>1. t \in Threads \ {"callback"} /\ "callback" \in Threads \ {t} /\ Labels /\ Typed
  BY DEF Threads, JoinInv, ReportInv
<1>2. pc[t] = from /\ callback' = FALSE
      /\ UNCHANGED <<running, ptr, state, stopped, leftover, events, now, connects, current>>
  BY DEF OnClose, connection, client, calls
<1>3. CASE callback
  <2>1. Report(t, l, FALSE)
    BY <1>3 DEF OnClose
  <2>2. Latest' = [up |-> FALSE, of |-> current]
    BY <1>1, <2>1, ReportTyped DEF Latest
  <2>3. /\ pc'[t] = l /\ \A u \in Threads \ {t, "callback"} : pc'[u] = pc[u]
        /\ pc["callback"] # "about"
        /\ pc'["callback"] = IF pc["callback"] = "wait" THEN "test" ELSE pc["callback"]
    BY <1>1, <2>1, NotifyFacts DEF Report
  <2> QED BY <1>2, <1>3, <2>2, <2>3 DEF CallbackWaits
<1>4. CASE ~callback
  <2>1. Go(t, l) /\ UNCHANGED <<callbacks, last>>
    BY <1>4 DEF OnClose
  <2>2. pc'[t] = l /\ \A u \in Threads \ {t} : pc'[u] = pc[u]
    BY <1>1, <2>1, GoFacts
  <2>3. Latest' = Latest
    BY <2>1 DEF Latest
  <2>4. ~Latest.up
    BY <1>4 DEF ReportInv, Flag
  <2> QED BY <1>1, <1>2, <2>1, <2>2, <2>3, <2>4 DEF CallbackWaits, ReportInv
<1> QED BY <1>3, <1>4

(* Reporting a connection.                                                 *)
LEMMA OpenSays ==
    ASSUME JoinInv, ReportInv, running, WorkOpened, ptr
    PROVE  /\ pc["work"] = "opened" /\ pc'["work"] = "run"
           /\ \A u \in Threads \ {"work", "callback"} : pc'[u] = pc[u]
           /\ Latest' = [up |-> TRUE, of |-> current] /\ CallbackWaits'
<1>1. Report("work", "run", TRUE) /\ pc["work"] = "opened"
  BY DEF WorkOpened
<1>2. Latest' = [up |-> TRUE, of |-> current]
  BY <1>1, ReportTyped DEF Latest, ReportInv
<1>3. /\ pc'["work"] = "run" /\ \A u \in Threads \ {"work", "callback"} : pc'[u] = pc[u]
      /\ pc["callback"] # "about"
      /\ pc'["callback"] = IF pc["callback"] = "wait" THEN "test" ELSE pc["callback"]
  <2>1. Labels /\ "work" \in Threads /\ "callback" \in Threads \ {"work"}
    BY DEF JoinInv, Threads
  <2> QED BY <1>1, <2>1, NotifyFacts DEF Report
<1> QED BY <1>1, <1>2, <1>3 DEF CallbackWaits

(* Steps of the event thread while the client runs.                        *)
LEMMA EventReport ==
    ASSUME JoinInv, ReportInv, EventThread, running'
    PROVE  Up' /\ Connection' /\ CallbackWaits' /\ Flag' /\ Reporting'
<1>1. running
  BY DEF EventThread, Wait, EventTest, CloseTest, RealClose, CloseCheck, Terminate, TerminateNull, Die,
     CloseReset, Stop, Join, EventClosed, OnClose, ConnectTest, ConnectLate, StartWork
<1>2. Labels /\ Up /\ Connection /\ CallbackWaits /\ Flag /\ Reporting /\ Typed
  BY DEF JoinInv, ReportInv
<1>3. "event" \in Threads /\ {"work", "owner", "callback"} \subseteq Threads \ {"event"}
  BY DEF Threads
<1>4. ASSUME NEW l, Go("event", l)
      PROVE  pc'["event"] = l /\ pc'["work"] = pc["work"] /\ pc'["owner"] = pc["owner"]
             /\ pc'["callback"] = pc["callback"]
  BY <1>2, <1>3, <1>4, GoFacts
<1>5. ASSUME UNCHANGED <<callbacks, last>> PROVE Latest' = Latest
  BY <1>5 DEF Latest
<1> USE <1>1, <1>2 DEF Up, Connection, CallbackWaits, Flag, Reporting, IsConnected, Closing
<1>6. CASE Wait("event")
  BY <1>4, <1>5, <1>6 DEF Wait, queues, connection, client
<1>7. CASE EventTest
  <2>1. /\ \E l \in {"about", "connect", "close"} : Go("event", l)
        /\ pc["event"] = "test"
        /\ UNCHANGED <<callback, callbacks, last, ptr, state, stopped, leftover, running>>
    BY <1>7 DEF EventTest, connection, client
  <2>2. /\ pc'["event"] \in {"about", "connect", "close"} /\ pc'["work"] = pc["work"]
        /\ pc'["owner"] = pc["owner"] /\ pc'["callback"] = pc["callback"]
    BY <2>1, <1>4
  <2> QED BY <1>5, <2>1, <2>2
<1>8. CASE CloseTest("event", "close", "test")
  BY <1>4, <1>5, <1>8 DEF CloseTest, queues, connection, client, Typed
<1>9. CASE CloseCheck("event")
  BY <1>4, <1>5, <1>9 DEF CloseCheck, queues, connection, client
<1>10. CASE Terminate("event")
  BY <1>4, <1>5, <1>10 DEF Terminate, queues, Typed
<1>11. CASE CloseReset("event")
  BY <1>4, <1>5, <1>11 DEF CloseReset, queues, client
<1>12. CASE Stop("event")
  BY <1>4, <1>5, <1>12 DEF Stop, queues, connection
<1>13. CASE Join("event", "join", "closed") \/ Join("event", "rejoin", "start")
  <2>1. /\ pc["work"] \in {"none", "ended"} /\ pc'["work"] = "none"
        /\ \/ pc["event"] = "join" /\ pc'["event"] = "closed"
           \/ pc["event"] = "rejoin" /\ pc'["event"] = "start"
        /\ pc'["owner"] = pc["owner"] /\ pc'["callback"] = pc["callback"]
        /\ UNCHANGED <<callback, callbacks, last, ptr, state, stopped, leftover, running>>
    BY <1>13 DEF Join, Labels, Threads, queues, connection, client
  <2> QED BY <1>5, <2>1
<1>14. CASE EventClosed
  <2>1. /\ pc["event"] = "closed" /\ pc'["event"] \in {"start", "test"}
        /\ pc'["work"] = pc["work"] /\ pc'["owner"] = pc["owner"]
        /\ ~Latest'.up /\ CallbackWaits' /\ callback' = FALSE
        /\ UNCHANGED <<running, ptr, state, stopped, leftover>>
    <3>1. \A u \in Threads \ {"event", "callback"} : pc'[u] = pc[u]
      BY <1>14, OnCloseSays DEF EventClosed
    <3> QED BY <1>14, <3>1, OnCloseSays DEF EventClosed, Threads
  <2> QED BY <2>1
<1>15. CASE ConnectTest
  BY <1>4, <1>5, <1>15 DEF ConnectTest, queues, connection, client, Typed
<1>16. CASE StartWork
  <2>1. /\ pc["event"] = "start" /\ pc'["event"] = "test" /\ pc'["work"] = "begin"
        /\ pc'["owner"] = pc["owner"] /\ pc'["callback"] = pc["callback"]
        /\ UNCHANGED <<callback, callbacks, last, ptr, state, stopped, leftover, running>>
    BY <1>16 DEF StartWork, Labels, Threads, queues, connection, client
  <2> QED BY <1>5, <2>1
<1> QED BY <1>6, <1>7, <1>8, <1>9, <1>10, <1>11, <1>12, <1>13, <1>14, <1>15, <1>16
        DEF EventThread, RealClose, TerminateNull, Die, ConnectLate

(* Steps of the work thread while the client runs.                         *)
LEMMA WorkReport ==
    ASSUME JoinInv, ReportInv, WorkThread \/ WorkLoses, running'
    PROVE  Up' /\ Connection' /\ CallbackWaits' /\ Flag' /\ Reporting'
<1>1. running
  BY DEF WorkThread, WorkBegin, WorkDial, WorkFailed, OnClose, WorkOpens, WorkOpened, WorkLoses,
     WorkHandler, WorkLost, WorkReports, WorkEnds
<1>2. Labels /\ Up /\ Connection /\ CallbackWaits /\ Flag /\ Reporting /\ Typed
  BY DEF JoinInv, ReportInv
<1>3. "work" \in Threads /\ {"event", "owner", "callback"} \subseteq Threads \ {"work"}
  BY DEF Threads
<1>4. ASSUME NEW l, Go("work", l)
      PROVE  pc'["work"] = l /\ pc'["event"] = pc["event"] /\ pc'["owner"] = pc["owner"]
             /\ pc'["callback"] = pc["callback"]
  BY <1>2, <1>3, <1>4, GoFacts
<1>5. ASSUME UNCHANGED <<callbacks, last>> PROVE Latest' = Latest
  BY <1>5 DEF Latest
<1> USE <1>1, <1>2 DEF Up, Connection, CallbackWaits, Flag, Reporting, IsConnected, Closing
<1>6. CASE WorkBegin
  BY <1>4, <1>5, <1>6 DEF WorkBegin, queues, connection, client
<1>7. CASE WorkDial
  <2>1. CASE pc'["work"] = "run"
    BY <1>5, <1>7, <2>1, DialMoves DEF WorkDial, queues
  <2>2. CASE pc'["work"] = "failed"
    <3>1. /\ pc["work"] = "dial" /\ \A u \in {"event", "callback", "owner"} : pc'[u] = pc[u]
          /\ leftover' = {} \/ leftover' = {"old"}
          /\ stopped' = FALSE /\ Latest' = Latest
          /\ UNCHANGED <<running, callback, callbacks, last, ptr, state>>
      BY <1>5, <1>7, <2>2, DialMoves DEF WorkDial, queues, connection
    <3> QED BY <2>2, <3>1
  <2> QED BY <1>7, <2>1, <2>2, DialMoves
<1>8. CASE WorkFailed \/ WorkReports
  <2>1. /\ pc["work"] \in {"failed", "report"} /\ pc'["work"] = "run"
        /\ pc'["event"] = pc["event"] /\ pc'["owner"] = pc["owner"]
        /\ ~Latest'.up /\ CallbackWaits' /\ callback' = FALSE
        /\ UNCHANGED <<running, ptr, state, stopped, leftover>>
    <3>1. \A u \in Threads \ {"work", "callback"} : pc'[u] = pc[u]
      BY <1>8, OnCloseSays DEF WorkFailed, WorkReports
    <3> QED BY <1>8, <3>1, OnCloseSays DEF WorkFailed, WorkReports, Threads
  <2> QED BY <2>1
<1>9. CASE WorkOpens
  BY <1>4, <1>5, <1>9 DEF WorkOpens, queues, client
<1>10. CASE WorkOpened /\ ptr
  <2>1. /\ pc["work"] = "opened" /\ pc'["work"] = "run" /\ Latest'.up /\ CallbackWaits'
        /\ pc'["event"] = pc["event"] /\ pc'["owner"] = pc["owner"]
    <3>1. \A u \in Threads \ {"work", "callback"} : pc'[u] = pc[u]
      BY <1>10, OpenSays
    <3> QED BY <1>10, <3>1, OpenSays DEF Threads
  <2>2. UNCHANGED <<running, callback, ptr, state, stopped, leftover>>
    BY <1>10 DEF WorkOpened, connection, client
  <2>3. Up' /\ CallbackWaits'
    BY <2>1, <2>2
  <2>4. Connection'
    BY <1>10, <2>1, <2>2
  <2>5. callback /\ state # "connecting"
    BY <1>10, <2>1
  <2>6. Flag'
    BY <2>1, <2>2, <2>5
  <2>7. Reporting'
    <3>1. state = "open" \/ pc["event"] = "reset"
      BY <1>10, <2>1, <2>5 DEF Typed
    <3> QED BY <2>1, <2>2, <2>5, <3>1, Zenon
  <2> QED BY <2>3, <2>4, <2>6, <2>7
<1>11. CASE WorkOpened /\ ~ptr
  BY <1>4, <1>5, <1>11 DEF WorkOpened, connection, client
<1>12. CASE WorkLoses
  BY <1>4, <1>5, <1>12 DEF WorkLoses, queues, client
<1>13. ASSUME NEW h \in {"old", "new"}, WorkHandler(h)
       PROVE  Up' /\ Connection' /\ CallbackWaits' /\ Flag' /\ Reporting'
  BY <1>4, <1>5, <1>13 DEF WorkHandler, queues, connection
<1>14. CASE WorkLost
  BY <1>4, <1>5, <1>14 DEF WorkLost, queues, client, Typed
<1>15. CASE WorkEnds
  BY <1>4, <1>5, <1>15 DEF WorkEnds, queues, connection, client
<1> QED BY <1>6, <1>7, <1>8, <1>9, <1>10, <1>11, <1>12, <1>13, <1>14, <1>15 DEF WorkThread

(* Every step keeps it.                                                    *)
LEMMA NextReport == JoinInv /\ ReportInv /\ [Next]_vars => ReportInv'
<1> SUFFICES ASSUME JoinInv, ReportInv, [Next]_vars
             PROVE  Up' /\ Connection' /\ CallbackWaits' /\ Flag' /\ Reporting'
  BY NextTyped DEF ReportInv
<1>1. CASE ~running'
  BY <1>1, NotRunning
<1> SUFFICES ASSUME running' PROVE Up' /\ Connection' /\ CallbackWaits' /\ Flag' /\ Reporting'
  BY <1>1
<1>2. Labels /\ Up /\ Connection /\ CallbackWaits /\ Flag /\ Reporting /\ Typed
  BY DEF JoinInv, ReportInv
<1>3. ASSUME UNCHANGED <<callbacks, last>> PROVE Latest' = Latest
  BY <1>3 DEF Latest
<1> USE <1>2 DEF Up, Connection, CallbackWaits, Flag, Reporting, IsConnected, Closing
<1>4. CASE Connect \/ Close \/ PingTimeout
  <2>1. /\ \A u \in {"owner", "work", "callback"} : pc'[u] = pc[u]
        /\ pc'["event"] = IF pc["event"] = "wait" THEN "test" ELSE pc["event"]
        /\ UNCHANGED <<running, callback, callbacks, last, ptr, state, stopped, leftover>>
    BY <1>4 DEF Connect, Close, PingTimeout, Post, Labels, Threads, connection, client
  <2> QED BY <1>3, <2>1
<1>5. CASE CallbackThread
  <2>1. CASE Wait("callback")
    <3>1. /\ \A u \in {"owner", "work", "event"} : pc'[u] = pc[u]
          /\ pc["callback"] = "about"
          /\ UNCHANGED <<running, callback, callbacks, last, ptr, state, stopped, leftover>>
      BY <2>1 DEF Wait, Go, Labels, Threads, queues, connection, client
    <3> QED BY <1>3, <3>1
  <2>2. CASE CallbackTest /\ running /\ callbacks # <<>>
    <3>1. /\ UNCHANGED <<running, callback, pc, ptr, state, stopped, leftover>>
          /\ Latest' = Latest /\ pc["callback"] = "test"
      BY <2>2, DeliveryLatest DEF CallbackTest, connection, client
    <3> QED BY <3>1
  <2>3. CASE CallbackTest /\ ~(running /\ callbacks # <<>>)
    <3>1. UNCHANGED <<running, callback, callbacks, last, ptr, state, stopped, leftover>>
      BY <2>3 DEF CallbackTest, connection, client
    <3>2. callbacks = <<>> /\ \A u \in {"owner", "work", "event"} : pc'[u] = pc[u]
      BY <2>3, <3>1 DEF CallbackTest, Go, Labels, Threads
    <3> QED BY <1>3, <3>1, <3>2
  <2> QED BY <1>5, <2>1, <2>2, <2>3 DEF CallbackThread
<1>6. CASE PingMoves
  <2>1. /\ \A u \in {"owner", "work", "event", "callback"} : pc'[u] = pc[u]
        /\ UNCHANGED <<running, callback, callbacks, last, ptr, state, stopped, leftover>>
    BY <1>6, PingKeeps DEF Threads, queues, client
  <2> QED BY <1>3, <2>1
<1>7. CASE ServerFallsSilent \/ UNCHANGED vars
  <2>1. UNCHANGED <<running, callback, callbacks, last, ptr, state, stopped, leftover, pc>>
    BY <1>7 DEF ServerFallsSilent, vars, queues, connection, client
  <2> QED BY <1>3, <2>1
<1>8. CASE Exit \/ JoinTwice \/ PingThrows \/ OwnerThread
  <2>1. ~running'
    BY <1>8 DEF Exit, JoinTwice, PingThrows, Die, OwnerThread, CloseTest, RealClose, CloseCheck, Terminate,
       TerminateNull, CloseReset, Stop, Join, OnClose, ExitNotifies, ExitJoinsEvent, ExitJoinsOthers
  <2> QED BY <2>1
<1> QED BY <1>4, <1>5, <1>6, <1>7, <1>8, EventReport, WorkReport
        DEF Next, ServerCloses, PingThread, PingMoves

(* ReportInv always holds.                                                 *)
LEMMA ReportAlways == Spec => []ReportInv
BY InitReport, NextReport, JoinAlways, PTL DEF Spec

(* When all is quiet the last callback told the truth about the connection *)
(* and about is_connected(), for any number of connect() and close() calls *)
(* and a server that closes, fails or falls silent at any time: neither a  *)
(* handler of an earlier connection nor one that was overtaken by close()  *)
(* leaves a report behind that is false.                                   *)
THEOREM AlwaysLastReportTrue == Spec => []LastReportTrue
<1>1. ReportInv => LastReportTrue
  BY DEF ReportInv, CallbackWaits, Connection, Reporting, Latest, LastReportTrue, Quiet, IsConnected,
     Closing
<1> QED BY <1>1, ReportAlways, PTL

-----------------------------------------------------------------------------
(* connect()s are carried out in order.                                    *)
Queued ==
    /\ \A i \in 1 .. Len(events) : events[i] <= connects
    /\ \A i \in 1 .. Len(events) : events[i] # 0 => events[i] > current /\ events[i] > now
    /\ \A i, j \in 1 .. Len(events) : i < j /\ events[j] # 0 => events[i] < events[j]

Ordered ==
    running =>
        /\ Queued
        /\ current <= connects /\ now <= connects
        /\ pc["event"] = "close" => now = 0
        /\ pc["event"] \in {"connect", "rejoin", "start"} => now > current
        /\ pc["event"] \in Closing /\ now > 0 => now > current

Follows(a, b) == IF a.up THEN b = [up |-> FALSE, of |-> a.of] ELSE b.of > a.of

(* One report follows the other, ...                                       *)
Chain ==
    /\ callbacks # <<>> => Follows(last, callbacks[1])
    /\ \A i \in 1 .. (Len(callbacks) - 1) : Follows(callbacks[i], callbacks[i + 1])

(* ... and the next one will, too.                                         *)
Chained ==
    running =>
        /\ Chain
        /\ Latest.of <= current
        /\ Latest.up => Latest.of = current
        /\ ~Latest.up /\ (callback \/ pc["work"] = "begin") => Latest.of < current

PairInv == Ordered /\ Chained

(* The initial states satisfy it.                                          *)
LEMMA InitPair == Init => PairInv
<1> SUFFICES ASSUME Init PROVE PairInv
  OBVIOUS
<1>1. pc["event"] = "test" /\ pc["work"] = "none" /\ Latest = [up |-> FALSE, of |-> 0]
  BY DEF Init, Threads, Latest
<1>2. Queued /\ Chain
  BY DEF Init, Queued, Chain
<1> QED BY <1>1, <1>2 DEF Init, PairInv, Ordered, Chained, Closing

(* A new connect() is the last one.                                        *)
LEMMA PostOrdered ==
    ASSUME Typed, Queued, current <= connects, now <= connects, NEW e \in Nat, Post(e),
           \/ e = 0 /\ UNCHANGED connects
           \/ e = connects + 1 /\ connects' = connects + 1
    PROVE  Queued'
<1> DEFINE n == Len(events)
<1>1. /\ events \in Seq(Nat) /\ events' = Append(events, e) /\ connects \in Nat /\ current \in Nat
      /\ now \in Nat /\ UNCHANGED <<now, current>>
  BY DEF Typed, Post
<1>2. /\ n \in Nat /\ Len(events') = n + 1 /\ events'[n + 1] = e
      /\ \A i \in 1 .. n : events'[i] = events[i] /\ events[i] \in Nat
  BY <1>1
<1>3. ASSUME NEW i \in 1 .. (n + 1)
      PROVE  /\ events'[i] <= connects'
             /\ events'[i] # 0 => events'[i] > current' /\ events'[i] > now'
  <2>1. CASE i = n + 1
    BY <1>1, <1>2, <2>1
  <2>2. CASE i \in 1 .. n
    BY <1>1, <1>2, <2>2 DEF Queued
  <2> QED BY <1>2, <2>1, <2>2
<1>4. ASSUME NEW i \in 1 .. (n + 1), NEW j \in 1 .. (n + 1), i < j, events'[j] # 0
      PROVE  events'[i] < events'[j]
  <2>1. i \in 1 .. n
    BY <1>2, <1>4
  <2>2. CASE j = n + 1
    <3>1. events'[j] = connects + 1
      BY <1>2, <1>4, <2>2
    <3>2. events'[i] = events[i] /\ events[i] \in Nat /\ events[i] <= connects
      BY <1>2, <2>1 DEF Queued
    <3> QED BY <1>1, <3>1, <3>2
  <2>3. CASE j \in 1 .. n
    BY <1>2, <1>4, <2>1, <2>3 DEF Queued
  <2> QED BY <1>2, <2>2, <2>3
<1> QED BY <1>2, <1>3, <1>4 DEF Queued

(* The first one is carried out, the others come after it.                 *)
LEMMA TakeOrdered ==
    ASSUME Typed, Queued, events # <<>>, now' = Head(events), events' = Tail(events),
           UNCHANGED <<connects, current>>
    PROVE  Queued' /\ now' \in Nat /\ now' <= connects /\ (now' > 0 => now' > current)
<1> DEFINE n == Len(events)
<1>1. events \in Seq(Nat)
  BY DEF Typed
<1>2. /\ n \in Nat \ {0} /\ now' = events[1] /\ Len(events') = n - 1 /\ 1 \in 1 .. n
      /\ \A i \in 1 .. n : events[i] \in Nat
  BY <1>1, EmptySeq
<1>3. \A i \in 1 .. (n - 1) : events'[i] = events[i + 1] /\ i + 1 \in 1 .. n
  BY <1>1, <1>2, HeadTailProperties
<1>4. ASSUME NEW i \in 1 .. (n - 1)
      PROVE  /\ events'[i] <= connects'
             /\ events'[i] # 0 => events'[i] > current' /\ events'[i] > now'
  BY <1>2, <1>3 DEF Queued, Typed
<1>5. ASSUME NEW i \in 1 .. (n - 1), NEW j \in 1 .. (n - 1), i < j, events'[j] # 0
      PROVE  events'[i] < events'[j]
  BY <1>2, <1>3, <1>5 DEF Queued
<1>6. now' \in Nat /\ now' <= connects /\ (now' > 0 => now' > current)
  BY <1>2 DEF Queued, Typed
<1> QED BY <1>2, <1>4, <1>5, <1>6 DEF Queued

(* The threads that only look at m_running leave the event thread alone.   *)
LEMMA OthersMove ==
    ASSUME Labels, CallbackThread \/ WorkThread \/ WorkLoses \/ PingMoves \/ ServerFallsSilent
    PROVE  pc'["event"] = pc["event"] /\ UNCHANGED <<running, events, connects, now, current>>
<1>1. /\ \A t \in {"callback", "work", "ping"} :
            t \in Threads /\ "event" \in Threads \ {t} /\ "event" \in Threads \ {t, "callback"}
      /\ "callback" \in Threads \ {"work"}
  BY DEF Threads
<1>2. ASSUME NEW t \in {"callback", "work", "ping"}, NEW l, Go(t, l) PROVE pc'["event"] = pc["event"]
  BY <1>1, <1>2, GoFacts
<1>3. ASSUME NEW l, GoAndNotify("work", l, "callback") PROVE pc'["event"] = pc["event"]
  BY <1>1, <1>3, NotifyFacts
<1>4. CASE CallbackThread
  BY <1>2, <1>4 DEF CallbackThread, Wait, CallbackTest, queues, calls
<1>5. CASE WorkFailed \/ WorkReports
  <2>1. \E from \in {"failed", "report"} : OnClose("work", from, "run")
    BY <1>5 DEF WorkFailed, WorkReports
  <2> QED BY <1>2, <1>3, <2>1, OnCloseMoves DEF OnClose, calls
<1>6. CASE WorkOpened
  BY <1>2, <1>3, <1>6 DEF WorkOpened, Report, calls
<1>7. CASE WorkBegin \/ WorkOpens \/ WorkLoses \/ WorkLost \/ WorkEnds
  BY <1>2, <1>7 DEF WorkBegin, WorkOpens, WorkLoses, WorkLost, WorkEnds, queues, calls
<1>8. CASE WorkDial
  BY <1>8, DialMoves DEF WorkDial, queues, calls
<1>9. ASSUME NEW h \in {"old", "new"}, WorkHandler(h)
      PROVE  pc'["event"] = pc["event"] /\ UNCHANGED <<running, events, connects, now, current>>
  BY <1>2, <1>9 DEF WorkHandler, queues, calls
<1>10. CASE PingMoves
  BY <1>1, <1>10, PingKeeps DEF queues, calls
<1>11. CASE ServerFallsSilent
  BY <1>11 DEF ServerFallsSilent, queues, calls
<1> QED BY <1>4, <1>5, <1>6, <1>7, <1>8, <1>9, <1>10, <1>11 DEF WorkThread

(* Steps of the event thread, whatever it reports.                         *)
LEMMA EventOrdered ==
    ASSUME JoinInv, ReportInv, Ordered, EventThread, running'
    PROVE  Ordered'
<1>1. running
  BY DEF EventThread, Wait, EventTest, CloseTest, RealClose, CloseCheck, Terminate, TerminateNull, Die,
     CloseReset, Stop, Join, EventClosed, OnClose, ConnectTest, ConnectLate, StartWork
<1>2. Labels /\ Typed /\ Up
  BY DEF JoinInv, ReportInv
<1>3. "event" \in Threads
  BY DEF Threads
<1>4. ASSUME NEW l, Go("event", l) PROVE pc'["event"] = l
  BY <1>2, <1>3, <1>4, GoFacts
<1>5. ASSUME UNCHANGED <<events, connects, now, current>> PROVE Queued'
  BY <1>1, <1>5 DEF Ordered, Queued
<1>6. CASE EventTest
  <2>1. CASE events = <<>>
    <3>1. Go("event", "about") /\ UNCHANGED <<events, connects, now, current>>
      BY <1>1, <1>6, <2>1 DEF EventTest, calls
    <3> QED BY <1>1, <1>4, <1>5, <3>1 DEF Ordered, Closing
  <2>2. CASE events # <<>>
    <3>1. /\ Go("event", IF Head(events) > 0 THEN "connect" ELSE "close")
          /\ now' = Head(events) /\ events' = Tail(events)
          /\ UNCHANGED <<connects, current>>
      BY <1>1, <1>6, <2>2 DEF EventTest, calls
    <3>2. pc'["event"] = IF now' > 0 THEN "connect" ELSE "close"
      BY <1>4, <3>1
    <3>3. Queued' /\ now' \in Nat /\ now' <= connects /\ (now' > 0 => now' > current)
      BY <1>1, <1>2, <2>2, <3>1, TakeOrdered DEF Ordered
    <3> QED BY <1>1, <3>1, <3>2, <3>3 DEF Ordered, Closing
  <2> QED BY <2>1, <2>2
<1>7. CASE StartWork
  <2>1. /\ pc'["event"] = "test" /\ pc["event"] = "start"
        /\ current' = now /\ UNCHANGED <<events, connects, now>>
    BY <1>2, <1>7 DEF StartWork, Labels, Threads, queues, calls
  <2>2. now \in Nat /\ current \in Nat /\ connects \in Nat /\ events \in Seq(Nat)
    BY <1>2 DEF Typed
  <2>3. Queued'
    BY <1>1, <2>1, <2>2 DEF Ordered, Queued
  <2> QED BY <1>1, <2>1, <2>3 DEF Ordered, Closing
<1>8. ASSUME UNCHANGED <<events, connects, now, current>>,
             \/ pc["event"] = "about" /\ pc'["event"] = "wait"
             \/ pc["event"] = "close" /\ pc'["event"] \in {"check", "test"}
             \/ pc["event"] \in Closing /\ pc'["event"] \in Closing
             \/ pc["event"] = "connect" /\ pc'["event"] \in {"check", "rejoin"}
             \/ pc["event"] = "rejoin" /\ pc'["event"] = "start"
             \/ pc["event"] = "closed" /\ pc'["event"] = IF now > 0 THEN "start" ELSE "test"
      PROVE  Ordered'
  BY <1>1, <1>2, <1>5, <1>8 DEF Ordered, Closing, Typed
<1>9. CASE Wait("event")
  BY <1>4, <1>8, <1>9 DEF Wait, queues, calls
<1>10. CASE CloseTest("event", "close", "test")
  BY <1>4, <1>8, <1>10 DEF CloseTest, queues, calls
<1>11. CASE \/ CloseCheck("event") \/ Terminate("event") \/ TerminateNull("event")
            \/ CloseReset("event") \/ Stop("event")
  <2>1. /\ \E l \in Closing : Go("event", l)
        /\ pc["event"] \in Closing /\ UNCHANGED <<events, connects, now, current>>
    BY <1>1, <1>11 DEF CloseCheck, Terminate, TerminateNull, Die, CloseReset, Stop, Closing, queues, calls
  <2> QED BY <1>4, <1>8, <2>1
<1>12. CASE Join("event", "join", "closed") \/ Join("event", "rejoin", "start")
  <2>1. /\ \/ pc["event"] = "join" /\ pc'["event"] = "closed"
           \/ pc["event"] = "rejoin" /\ pc'["event"] = "start"
        /\ UNCHANGED <<events, connects, now, current>>
    BY <1>2, <1>12 DEF Join, Labels, Threads, queues, calls
  <2> QED BY <1>8, <2>1 DEF Closing
<1>13. CASE EventClosed
  <2>1. /\ pc["event"] = "closed" /\ pc'["event"] = IF now > 0 THEN "start" ELSE "test"
        /\ UNCHANGED <<events, connects, now, current>>
    BY <1>1, <1>13, OnCloseSays DEF EventClosed
  <2> QED BY <1>8, <2>1
<1>14. CASE ConnectTest
  BY <1>1, <1>4, <1>8, <1>14 DEF ConnectTest, queues, calls
<1>15. CASE ConnectLate
  BY <1>1, <1>2, <1>15 DEF ConnectLate, Up
<1> QED BY <1>6, <1>7, <1>9, <1>10, <1>11, <1>12, <1>13, <1>14, <1>15 DEF EventThread, RealClose

(* exit() has begun when these steps are taken, or begins with one.        *)
LEMMA ExitStops ==
    ASSUME Up, Exit \/ JoinTwice \/ PingThrows \/ OwnerThread PROVE ~running'
BY DEF Up, Exit, JoinTwice, PingThrows, Die, OwnerThread, CloseTest, RealClose, CloseCheck, Terminate,
   TerminateNull, CloseReset, Stop, Join, OnClose, ExitNotifies, ExitJoinsEvent, ExitJoinsOthers, Closing

(* connect()s are carried out in order.                                    *)
LEMMA NextOrdered == JoinInv /\ ReportInv /\ Ordered /\ [Next]_vars => Ordered'
<1> SUFFICES ASSUME JoinInv, ReportInv, Ordered, [Next]_vars, running' PROVE Ordered'
  BY DEF Ordered
<1>1. Labels /\ Typed /\ Up
  BY DEF JoinInv, ReportInv
<1>2. CASE Connect \/ Close \/ PingTimeout
  <2>1. PICK e \in Nat : /\ Post(e)
                         /\ \/ e = 0 /\ UNCHANGED connects
                            \/ e = connects + 1 /\ connects' = connects + 1
    BY <1>1, <1>2 DEF Connect, Close, PingTimeout, Typed, calls
  <2>2. /\ running /\ UNCHANGED <<now, current>>
        /\ pc'["event"] = IF pc["event"] = "wait" THEN "test" ELSE pc["event"]
    BY <1>1, <2>1 DEF Post, Labels, Threads
  <2>3. Queued'
    BY <1>1, <2>1, <2>2, PostOrdered DEF Ordered
  <2> QED BY <1>1, <2>1, <2>2, <2>3 DEF Ordered, Closing, Typed
<1>3. CASE \/ CallbackThread \/ WorkThread \/ WorkLoses \/ PingMoves \/ ServerFallsSilent
           \/ UNCHANGED vars
  <2>1. pc'["event"] = pc["event"] /\ UNCHANGED <<running, events, connects, now, current>>
    BY <1>1, <1>3, OthersMove DEF vars, queues, calls
  <2>2. running /\ (Queued => Queued')
    BY <2>1 DEF Queued
  <2> QED BY <2>1, <2>2 DEF Ordered
<1> QED BY <1>1, <1>2, <1>3, EventOrdered, ExitStops DEF Next, ServerCloses, PingThread, PingMoves

(* A report that follows the latest one goes on with the chain.            *)
LEMMA ReportChain ==
    ASSUME Typed, Chain, NEW t, NEW l, NEW up \in BOOLEAN, Report(t, l, up), UNCHANGED last,
           Follows(Latest, [up |-> up, of |-> current])
    PROVE  Chain' /\ Latest' = [up |-> up, of |-> current]
<1> DEFINE n == Len(callbacks)  c == [up |-> up, of |-> current]
<1>1. /\ callbacks' # <<>> /\ callbacks'[Len(callbacks')] = c /\ Len(callbacks') = n + 1
      /\ \A i \in 1 .. n : callbacks'[i] = callbacks[i]
  BY ReportTyped
<1>2. n \in Nat /\ (callbacks = <<>> <=> n = 0)
  BY EmptySeq DEF Typed
<1>3. Follows(last', callbacks'[1])
  <2>1. CASE callbacks = <<>>
    BY <1>1, <1>2, <2>1 DEF Latest
  <2>2. CASE callbacks # <<>>
    <3>1. callbacks'[1] = callbacks[1]
      BY <1>1, <1>2, <2>2
    <3> QED BY <2>2, <3>1 DEF Chain
  <2> QED BY <2>1, <2>2
<1>4. ASSUME NEW i \in 1 .. n PROVE Follows(callbacks'[i], callbacks'[i + 1])
  <2>1. CASE i = n
    <3>1. callbacks # <<>> /\ callbacks'[i] = callbacks[n] /\ callbacks'[i + 1] = c
      BY <1>1, <1>2, <2>1
    <3> QED BY <3>1 DEF Latest
  <2>2. CASE i # n
    <3>1. i \in 1 .. (n - 1) /\ i + 1 \in 1 .. n
      BY <1>2, <2>2
    <3>2. callbacks'[i] = callbacks[i] /\ callbacks'[i + 1] = callbacks[i + 1]
      BY <1>1, <3>1
    <3> QED BY <3>1, <3>2 DEF Chain
  <2> QED BY <2>1, <2>2
<1>5. Chain'
  BY <1>1, <1>2, <1>3, <1>4 DEF Chain
<1> QED BY <1>1, <1>5 DEF Latest

(* So does a delivery, which says what comes next.                         *)
LEMMA DeliveryChain ==
    ASSUME Typed, Chain, callbacks # <<>>, callbacks' = Tail(callbacks), last' = Head(callbacks)
    PROVE  Chain' /\ Follows(last, last')
<1>1. /\ last' = callbacks[1] /\ callbacks' \in Seq(Reports)
      /\ Len(callbacks') = Len(callbacks) - 1 /\ Len(callbacks) \in Nat \ {0}
      /\ \A i \in 1 .. Len(callbacks') : callbacks'[i] = callbacks[i + 1]
  BY DeliveryTyped
<1>2. Follows(last, last')
  BY <1>1 DEF Chain
<1>3. callbacks' # <<>> => Follows(last', callbacks'[1])
  <2>1. callbacks' # <<>> => 1 \in 1 .. Len(callbacks') /\ 1 \in 1 .. (Len(callbacks) - 1)
    BY <1>1, EmptySeq
  <2>2. callbacks' # <<>> => callbacks'[1] = callbacks[2]
    BY <1>1, <2>1
  <2> QED BY <1>1, <2>1, <2>2 DEF Chain
<1>4. ASSUME NEW i \in 1 .. (Len(callbacks') - 1)
      PROVE  Follows(callbacks'[i], callbacks'[i + 1])
  <2>1. i \in 1 .. Len(callbacks') /\ i + 1 \in 1 .. Len(callbacks') /\ i + 1 \in 1 .. (Len(callbacks) - 1)
    BY <1>1
  <2>2. callbacks'[i] = callbacks[i + 1] /\ callbacks'[i + 1] = callbacks[(i + 1) + 1]
    BY <1>1, <2>1
  <2> QED BY <2>1, <2>2 DEF Chain
<1> QED BY <1>2, <1>3, <1>4 DEF Chain

(* on_close() reports what follows: the end of the connection.             *)
LEMMA OnCloseChained ==
    ASSUME JoinInv, ReportInv, Chained, running, NEW t \in {"event", "work"}, NEW from, NEW l,
           l # "begin", t = "event" => pc["work"] # "begin", OnClose(t, from, l)
    PROVE  Chained'
<1>1. /\ pc[t] = from /\ pc'[t] = l /\ callback' = FALSE /\ UNCHANGED <<running, current>>
      /\ \A u \in Threads \ {t, "callback"} : pc'[u] = pc[u]
  BY OnCloseSays
<1>2. pc'["work"] # "begin"
  BY <1>1 DEF Threads
<1>3. Typed /\ Latest.of <= current /\ current \in Nat
  BY DEF ReportInv, Chained, Typed
<1>4. CASE callback
  <2>1. Report(t, l, FALSE) /\ UNCHANGED last
    BY <1>4 DEF OnClose
  <2>2. Follows(Latest, [up |-> FALSE, of |-> current])
    BY <1>4 DEF Follows, Chained
  <2>3. Chain' /\ Latest' = [up |-> FALSE, of |-> current]
    BY <1>3, <2>1, <2>2, ReportChain DEF Chained
  <2> QED BY <1>1, <1>2, <1>3, <2>3 DEF Chained
<1>5. CASE ~callback
  <2>1. UNCHANGED <<callbacks, last>>
    BY <1>5 DEF OnClose
  <2>2. Chain' /\ Latest' = Latest
    BY <2>1 DEF Chained, Chain, Latest
  <2> QED BY <1>1, <1>2, <2>2 DEF Chained
<1> QED BY <1>4, <1>5

(* Nothing is reported or delivered, and no connection begins.             *)
LEMMA SameChain ==
    ASSUME Chained, UNCHANGED <<callbacks, last, current>>, running' => running,
           callback' => callback \/ pc["work"] = "begin", pc'["work"] = "begin" => pc["work"] = "begin"
    PROVE  Chained'
<1>1. Latest' = Latest /\ (Chain => Chain')
  BY DEF Latest, Chain
<1> QED BY <1>1 DEF Chained

(* Steps of the event thread.                                              *)
LEMMA EventChained ==
    ASSUME JoinInv, ReportInv, Ordered, Chained, EventThread, running'
    PROVE  Chained'
<1>1. running
  BY DEF EventThread, Wait, EventTest, CloseTest, RealClose, CloseCheck, Terminate, TerminateNull, Die,
     CloseReset, Stop, Join, EventClosed, OnClose, ConnectTest, ConnectLate, StartWork
<1>2. Labels /\ Typed /\ Up /\ Connection /\ Reporting
  BY DEF JoinInv, ReportInv
<1>3. "event" \in Threads /\ "work" \in Threads \ {"event"}
  BY DEF Threads
<1>4. ASSUME NEW l, Go("event", l), UNCHANGED <<callbacks, last, current, running, callback>>
      PROVE  Chained'
  BY <1>2, <1>3, <1>4, GoFacts, SameChain
<1>5. CASE \/ Wait("event") \/ CloseTest("event", "close", "test") \/ CloseCheck("event")
           \/ Terminate("event") \/ CloseReset("event") \/ Stop("event") \/ ConnectTest
  BY <1>4, <1>5 DEF Wait, CloseTest, CloseCheck, Terminate, CloseReset, Stop, ConnectTest, queues
<1>6. CASE EventTest
  BY <1>4, <1>6 DEF EventTest
<1>7. CASE Join("event", "join", "closed") \/ Join("event", "rejoin", "start")
  <2>1. pc'["work"] = "none" /\ UNCHANGED <<callbacks, last, current, running, callback>>
    BY <1>2, <1>7 DEF Join, Labels, Threads, queues
  <2> QED BY <2>1, SameChain
<1>8. CASE EventClosed
  <2>1. pc["work"] # "begin"
    BY <1>1, <1>2, <1>8 DEF EventClosed, OnClose, Connection
  <2> QED BY <1>1, <1>8, <2>1, OnCloseChained DEF EventClosed
<1>9. CASE StartWork
  <2>1. /\ pc["event"] = "start" /\ current' = now /\ UNCHANGED <<callbacks, last, running, callback>>
    BY <1>9 DEF StartWork, queues
  <2>2. now > current /\ now \in Nat /\ current \in Nat /\ Latest \in Reports
    <3>1. Latest \in Reports
      BY <1>2, EmptySeq DEF Latest, Typed
    <3> QED BY <1>1, <1>2, <2>1, <3>1 DEF Ordered, Typed
  <2>3. ~Latest.up
    BY <1>1, <1>2, <2>1 DEF Connection, Reporting, IsConnected
  <2>4. Latest' = Latest /\ Chain' /\ Latest.of <= current /\ Latest.of \in Nat
    BY <1>1, <2>1, <2>2 DEF Latest, Chain, Chained, Reports
  <2> QED BY <2>1, <2>2, <2>3, <2>4 DEF Chained
<1>10. CASE ConnectLate
  BY <1>1, <1>2, <1>10 DEF ConnectLate, Up
<1>11. CASE TerminateNull("event")
  BY <1>11 DEF TerminateNull, Die
<1> QED BY <1>5, <1>6, <1>7, <1>8, <1>9, <1>10, <1>11 DEF EventThread, RealClose

(* Steps of the work thread.                                               *)
LEMMA WorkChained ==
    ASSUME JoinInv, ReportInv, Chained, WorkThread \/ WorkLoses, running'
    PROVE  Chained'
<1>1. running
  BY DEF WorkThread, WorkBegin, WorkDial, WorkFailed, OnClose, WorkOpens, WorkOpened, WorkLoses,
     WorkHandler, WorkLost, WorkReports, WorkEnds
<1>2. Labels /\ Typed /\ Flag
  BY DEF JoinInv, ReportInv
<1>3. "work" \in Threads
  BY DEF Threads
<1>4. ASSUME NEW l, Go("work", l), l # "begin", UNCHANGED <<callbacks, last, current, running>>,
             callback' => callback \/ pc["work"] = "begin"
      PROVE  Chained'
  BY <1>2, <1>3, <1>4, GoFacts, SameChain
<1>5. CASE WorkBegin \/ WorkOpens \/ WorkLoses \/ WorkLost \/ WorkEnds
  <2>1. CASE WorkBegin
    BY <1>4, <2>1 DEF WorkBegin, queues
  <2>2. CASE WorkLost
    BY <1>4, <2>2 DEF WorkLost, queues
  <2>3. CASE WorkOpens
    BY <1>4, <2>3 DEF WorkOpens, queues
  <2>4. CASE WorkLoses
    BY <1>4, <2>4 DEF WorkLoses, queues
  <2>5. CASE WorkEnds
    BY <1>4, <2>5 DEF WorkEnds, queues
  <2> QED BY <1>5, <2>1, <2>2, <2>3, <2>4, <2>5
<1>6. CASE WorkDial
  <2>1. pc'["work"] # "begin" /\ UNCHANGED <<callbacks, last, current, running, callback>>
    BY <1>2, <1>6, DialMoves DEF WorkDial, queues
  <2> QED BY <2>1, SameChain
<1>7. ASSUME NEW h \in {"old", "new"}, WorkHandler(h) PROVE Chained'
  BY <1>4, <1>7 DEF WorkHandler, queues
<1>8. CASE WorkFailed
  BY <1>1, <1>8, OnCloseChained DEF WorkFailed
<1>9. CASE WorkReports
  BY <1>1, <1>9, OnCloseChained DEF WorkReports
<1>10. CASE WorkOpened /\ ptr
  <2>1. /\ Report("work", "run", TRUE) /\ pc["work"] = "opened"
        /\ UNCHANGED <<last, current, running, callback>>
    BY <1>10 DEF WorkOpened
  <2>2. ~Latest.up /\ callback /\ current \in Nat
    BY <1>1, <1>2, <2>1 DEF Flag, Typed
  <2>3. Follows(Latest, [up |-> TRUE, of |-> current]) /\ Chain
    BY <1>1, <2>2 DEF Chained, Follows
  <2>4. Chain' /\ Latest' = [up |-> TRUE, of |-> current]
    BY <1>2, <2>1, <2>3, ReportChain
  <2> QED BY <2>1, <2>2, <2>4 DEF Chained
<1>11. CASE WorkOpened /\ ~ptr
  BY <1>4, <1>11 DEF WorkOpened
<1> QED BY <1>5, <1>6, <1>7, <1>8, <1>9, <1>10, <1>11 DEF WorkThread

(* Every step keeps the chain.                                             *)
LEMMA NextChained == JoinInv /\ ReportInv /\ PairInv /\ [Next]_vars => Chained'
<1> SUFFICES ASSUME JoinInv, ReportInv, Ordered, Chained, [Next]_vars, running' PROVE Chained'
  BY DEF PairInv, Chained
<1>1. Labels /\ Typed /\ Up
  BY DEF JoinInv, ReportInv
<1>2. CASE Connect \/ Close \/ PingTimeout
  <2>1. /\ pc'["work"] = pc["work"]
        /\ UNCHANGED <<callbacks, last, current, running, callback>>
    BY <1>1, <1>2 DEF Connect, Close, PingTimeout, Post, Labels, Threads
  <2> QED BY <2>1, SameChain
<1>3. CASE CallbackThread
  <2>1. CASE CallbackTest /\ running /\ callbacks # <<>>
    <3>1. Chain' /\ Latest' = Latest
      BY <1>1, <2>1, DeliveryChain, DeliveryLatest DEF CallbackTest, Chained
    <3>2. UNCHANGED <<running, callback, pc, current>>
      BY <2>1 DEF CallbackTest
    <3> QED BY <2>1, <3>1, <3>2 DEF Chained
  <2>2. CASE Wait("callback") \/ (CallbackTest /\ ~(running /\ callbacks # <<>>))
    <3>1. /\ \E l : Go("callback", l)
          /\ UNCHANGED <<callbacks, last, current, running, callback>>
      BY <2>2 DEF Wait, CallbackTest, queues
    <3>2. pc'["work"] = pc["work"]
      BY <1>1, <3>1 DEF Go, Labels, Threads
    <3> QED BY <3>1, <3>2, SameChain
  <2> QED BY <1>3, <2>1, <2>2 DEF CallbackThread
<1>4. CASE PingMoves
  <2>1. /\ pc'["work"] = pc["work"]
        /\ UNCHANGED <<callbacks, last, current, running, callback>>
    BY <1>1, <1>4, PingKeeps DEF Threads, queues
  <2> QED BY <2>1, SameChain
<1>5. CASE ServerFallsSilent \/ UNCHANGED vars
  <2>1. UNCHANGED <<pc, callbacks, last, current, running, callback>>
    BY <1>5 DEF ServerFallsSilent, vars, queues
  <2> QED BY <2>1, SameChain
<1> QED BY <1>1, <1>2, <1>3, <1>4, <1>5, EventChained, WorkChained, ExitStops
        DEF Next, ServerCloses, PingThread, PingMoves

(* PairInv always holds.                                                   *)
LEMMA PairAlways == Spec => []PairInv
<1>1. JoinInv /\ ReportInv /\ PairInv /\ [Next]_vars => PairInv'
  BY NextOrdered, NextChained DEF PairInv
<1> QED BY <1>1, InitPair, JoinAlways, ReportAlways, PTL DEF Spec

(* Every on_websocket_connect() is followed by the on_websocket_close() of *)
(* the same connection, and no connection is closed twice, whoever ends    *)
(* it, for any number of connect() and close() calls: whatever is on its   *)
(* way to the callback thread is chained already.                          *)
THEOREM AlwaysPaired == Spec => Paired
<1>1. JoinInv /\ ReportInv /\ PairInv /\ [Next]_vars => [Delivers => FollowsUp]_vars
  <2> SUFFICES ASSUME ReportInv, PairInv, Next, Delivers PROVE FollowsUp
    OBVIOUS
  <2>1. Typed /\ Chain /\ running /\ Up
    BY DEF ReportInv, PairInv, Chained, Delivers
  <2>2. CASE CallbackTest
    <3>1. callbacks # <<>>
      BY <2>1, <2>2, EmptySeq DEF CallbackTest, Delivers
    <3>2. Follows(last, last')
      BY <2>1, <2>2, <3>1, DeliveryChain DEF CallbackTest
    <3> QED BY <3>2 DEF Follows, FollowsUp
  <2>3. ASSUME NEW t, NEW l, NEW up \in BOOLEAN, Report(t, l, up) PROVE FALSE
    <3>1. Len(callbacks') = Len(callbacks) + 1
      BY <2>1, <2>3, ReportTyped
    <3>2. Len(callbacks) \in Nat
      BY <2>1 DEF Typed
    <3> QED BY <3>1, <3>2 DEF Delivers
  <2>4. ASSUME UNCHANGED callbacks PROVE FALSE
    BY <2>1, <2>4 DEF Delivers, Typed
  <2>5. ASSUME NEW t, NEW from, NEW l, OnClose(t, from, l) PROVE FALSE
    BY <2>3, <2>4, <2>5 DEF OnClose
  <2>6. CASE Connect \/ Close \/ PingTimeout
    BY <2>4, <2>6 DEF Connect, Close, PingTimeout, Post
  <2>7. ASSUME NEW t, RealClose(t) PROVE FALSE
    BY <2>4, <2>7 DEF RealClose, CloseCheck, Terminate, TerminateNull, Die, CloseReset, Stop, Join, queues
  <2>8. CASE EventThread
    BY <2>3, <2>4, <2>5, <2>7, <2>8 DEF EventThread, Wait, EventTest, CloseTest, EventClosed, ConnectTest,
       ConnectLate, Join, StartWork, queues
  <2>9. CASE WorkThread \/ WorkLoses
    BY <2>3, <2>4, <2>5, <2>9 DEF WorkThread, WorkBegin, WorkDial, WorkFailed, WorkOpens, WorkOpened,
       WorkLoses, WorkHandler, WorkLost, WorkReports, WorkEnds, queues
  <2>10. CASE Wait("callback") \/ ServerFallsSilent \/ PingResets \/ PingTest \/ Pings \/ PingEnds
    BY <2>4, <2>10 DEF Wait, ServerFallsSilent, PingResets, PingTest, Pings, PingEnds, queues
  <2>11. CASE Exit \/ JoinTwice \/ PingThrows
    BY <2>4, <2>11 DEF Exit, JoinTwice, PingThrows, Die, queues
  <2>12. CASE OwnerThread
    BY <2>1, <2>12 DEF Up, OwnerThread, CloseTest, RealClose, CloseCheck, Terminate, TerminateNull,
       CloseReset, Stop, Join, OnClose, ExitNotifies, ExitJoinsEvent, ExitJoinsOthers, Closing
  <2> QED BY <2>2, <2>6, <2>8, <2>9, <2>10, <2>11, <2>12 DEF Next, ServerCloses, CallbackThread, PingThread
<1> QED BY <1>1, JoinAlways, ReportAlways, PairAlways, PTL DEF Spec, Paired
=============================================================================
