--------------------------- MODULE EnetClientProofs ---------------------------
(***************************************************************************)
(* Proofs about EnetClient, for any number of connect() and close() calls. *)
(***************************************************************************)
EXTENDS EnetClient, SequenceTheorems, TLAPS

(* Where threads may stand.                                                *)
Label ==
    {"up", "none", "test", "about", "wait", "done", "dead",
     "connect", "rejoin", "dial", "service", "publish", "report", "start",
     "close", "disconnect", "join", "closed", "lost", "ended",
     "notify event", "join event", "notify callback", "join callback", "destroy", "exited"}

(* Every thread stands somewhere.                                          *)
Labels == pc \in [Threads -> Label] /\ ptr \in BOOLEAN

(* From the moment it has forgotten the last peer until it publishes the   *)
(* next one, do_connect() has m_enet_peer null, whatever exit() does.      *)
NoPeerYet == pc["event"] \in {"dial", "service", "publish"} => ~ptr

IInv == Labels /\ NoPeerYet /\ Watched

-----------------------------------------------------------------------------

(* The initial states satisfy the invariant.                               *)
LEMMA InitIInv == Init => IInv
  BY DEF Init, IInv, Labels, NoPeerYet, Watched, IsConnected, Threads, Label

(* do_close() keeps it, on the event thread and on the owner's.            *)
LEMMA DoCloseIInv ==
    ASSUME IInv, NEW t \in {"event", "owner"}, NEW l \in {"test", "notify event"},
           DoClose(t, l)
    PROVE  IInv'
<1> USE DEF IInv, Labels, NoPeerYet, Watched, IsConnected, Threads, Label
<1>1. CASE CloseTest(t, l)
  BY <1>1 DEF CloseTest, Go
<1>2. CASE Disconnect(t)
  BY <1>2 DEF Disconnect, Go
<1>3. CASE CloseJoin(t)
  BY <1>3 DEF CloseJoin
<1>4. CASE Closed(t, l)
  BY <1>4 DEF Closed, Report, GoAndNotify
<1> QED BY <1>1, <1>2, <1>3, <1>4 DEF DoClose

(* do_connect() keeps it: the connection is published before the report,   *)
(* and its thread is started whether or not exit() has begun.              *)
LEMMA DoConnectIInv == IInv /\ DoConnect => IInv'
<1> SUFFICES ASSUME IInv, DoConnect PROVE IInv'
  OBVIOUS
<1> USE DEF IInv, Labels, NoPeerYet, Watched, IsConnected, Threads, Label
<1>1. CASE Reset
  BY <1>1 DEF Reset, Go
<1>2. CASE ConnectLate
  BY <1>2 DEF ConnectLate, Report, GoAndNotify
<1>3. CASE Rejoin
  BY <1>3 DEF Rejoin
<1>4. CASE Dial
  BY <1>4 DEF Dial, Go
<1>5. CASE DialRefused
  BY <1>5 DEF DialRefused, Report, GoAndNotify
<1>6. CASE DialAnswered
  BY <1>6 DEF DialAnswered, Go
<1>7. CASE DialFailed
  BY <1>7 DEF DialFailed, Report, GoAndNotify
<1>8. CASE Publish
  BY <1>8 DEF Publish, Go
<1>9. CASE ReportConnect
  BY <1>9 DEF ReportConnect, Report, GoAndNotify
<1>10. CASE StartSend
  BY <1>10 DEF StartSend
<1> QED BY <1>1, <1>2, <1>3, <1>4, <1>5, <1>6, <1>7, <1>8, <1>9, <1>10 DEF DoConnect

(* A thread that begins to wait keeps it.                                  *)
LEMMA WaitIInv ==
    ASSUME IInv, NEW t \in {"event", "callback"}, Wait(t)
    PROVE  IInv'
  BY DEF Wait, Go, IInv, Labels, NoPeerYet, Watched, IsConnected, Threads, Label

(* Every step keeps it.                                                    *)
LEMMA NextIInv == IInv /\ [Next]_vars => IInv'
<1> SUFFICES ASSUME IInv, [Next]_vars PROVE IInv'
  OBVIOUS
<1>1. ASSUME EventThread PROVE IInv'
  <2>1. CASE Wait("event")
    BY <2>1, WaitIInv
  <2>2. CASE EventTest
    BY <2>2 DEF EventTest, Go, IInv, Labels, NoPeerYet, Watched, IsConnected, Threads, Label
  <2> QED BY <1>1, <2>1, <2>2, DoConnectIInv, DoCloseIInv DEF EventThread
<1>2. ASSUME OwnerThread PROVE IInv'
  <2> USE DEF IInv, Labels, NoPeerYet, Watched, IsConnected, Threads, Label
  <2>1. CASE ExitNotifies("notify event", "event", "join event")
    BY <2>1 DEF ExitNotifies, GoAndNotify
  <2>2. CASE ExitJoins("join event", "event", "notify callback")
    BY <2>2 DEF ExitJoins, Go
  <2>3. CASE ExitNotifies("notify callback", "callback", "join callback")
    BY <2>3 DEF ExitNotifies, GoAndNotify
  <2>4. CASE ExitJoins("join callback", "callback", "destroy")
    BY <2>4 DEF ExitJoins, Go
  <2>5. CASE ExitDestroys
    BY <2>5 DEF ExitDestroys, Go
  <2>6. CASE DoClose("owner", "notify event")
    BY <2>6, DoCloseIInv
  <2> QED BY <1>2, <2>1, <2>2, <2>3, <2>4, <2>5, <2>6 DEF OwnerThread
<1> USE DEF IInv, Labels, NoPeerYet, Watched, IsConnected, Threads, Label
<1>3. CASE Connect \/ Close
  <2>1. /\ pc' = [pc EXCEPT !["event"] = IF @ = "wait" THEN "test" ELSE @]
        /\ UNCHANGED <<ptr, peer>>
    BY <1>3 DEF Connect, Close, Post
  <2> QED BY <2>1
<1>4. CASE Exit
  BY <1>4 DEF Exit, Go
<1>5. CASE ServerLeaves
  BY <1>5 DEF ServerLeaves
<1>6. CASE JoinTwice
  BY <1>6 DEF JoinTwice
<1>7. CASE CallbackThread
  <2>1. CASE Wait("callback")
    BY <2>1, WaitIInv
  <2>2. CASE CallbackTest
    BY <2>2 DEF CallbackTest, Go
  <2> QED BY <1>7, <2>1, <2>2 DEF CallbackThread
<1>8. CASE SendThread
  <2>1. CASE SendDisconnected
    BY <2>1 DEF SendDisconnected, Go
  <2>2. CASE SendReports
    BY <2>2 DEF SendReports, Report, GoAndNotify
  <2>3. CASE SendEnds
    BY <2>3 DEF SendEnds, Go
  <2> QED BY <1>8, <2>1, <2>2, <2>3 DEF SendThread
<1>9. CASE UNCHANGED vars
  BY <1>9 DEF vars
<1> QED BY <1>1, <1>2, <1>3, <1>4, <1>5, <1>6, <1>7, <1>8, <1>9 DEF Next

(* A connection that is_connected() shows is serviced: its send thread was *)
(* started and not yet joined, or do_connect() is about to start it, for   *)
(* any number of connect() and close() calls and an exit() at any time.    *)
THEOREM AlwaysWatched == Spec => []Watched
<1>1. IInv => Watched
  BY DEF IInv
<1> QED BY InitIInv, NextIInv, <1>1, PTL DEF Spec

-----------------------------------------------------------------------------
(* What the callbacks say                                                  *)

(* A report, and the connect() that it answers.                            *)
Reports == [up : BOOLEAN, of : Nat]

(* The queues hold events and reports; exit() has not begun while the      *)
(* client runs.                                                            *)
Queues ==
    /\ events \in Seq(Nat) /\ now \in Nat /\ connects \in Nat
    /\ callbacks \in Seq(Reports)
    /\ running => pc["owner"] = "up"

(* What the last callback will have said when all are delivered.           *)
SaysConnected ==
    IF callbacks = <<>> THEN last = "connect" ELSE callbacks[Len(callbacks)].up

(* The callback thread waits only when there is nothing to deliver.        *)
CallbackWaits == running /\ pc["callback"] \in {"about", "wait"} => callbacks = <<>>

(* do_connect() has no send thread between its join and the next start, so *)
(* that nobody but exit() touches the peer.                                *)
Alone ==
    /\ pc["event"] \in {"dial", "service", "publish", "report", "start"} => pc["send"] = "none"
    /\ running /\ pc["event"] = "publish" => peer = "connected"
    /\ running /\ pc["event"] \in {"report", "start"} => ptr /\ peer = "connected"

(* A send thread that saw the disconnect has a peer that is not connected, *)
(* and do_close() that is about to report has forgotten it.                *)
Losing ==
    /\ pc["send"] = "lost" => peer # "connected"
    /\ pc["event"] = "closed" => ~ptr

(* The callbacks on their way say what is_connected() says, unless a       *)
(* thread is on its way to report the difference.                          *)
Reporting ==
    running =>
        /\ IsConnected /\ pc["event"] # "report" => SaysConnected
        /\ SaysConnected /\ ~IsConnected =>
               \/ peer = "zombie" \/ pc["send"] = "lost"
               \/ pc["event"] \in {"join", "closed", "rejoin", "dial", "service", "publish", "report"}

(* IInv and ReportInv together are inductive.                              *)
ReportInv == Queues /\ CallbackWaits /\ Alone /\ Losing /\ Reporting

(* The initial states satisfy it.                                          *)
LEMMA InitReportInv == Init => ReportInv
  BY EnetAssumption DEF Init, ReportInv, Queues, CallbackWaits, Alone, Losing, Reporting, SaysConnected,
     IsConnected, Threads

(* on_connect() and on_close() have the last word.                         *)
LEMMA ReportSays ==
    ASSUME Labels, Queues, NEW t \in Threads, NEW l \in Label, NEW up \in BOOLEAN, NEW of \in Nat,
           Report(t, l, up, of), UNCHANGED <<running, events, now, connects>>,
           t # "owner" \/ ~running, t # "callback", l \notin {"about", "wait"}
    PROVE  Queues' /\ CallbackWaits' /\ (SaysConnected' <=> up)
<1> DEFINE c == [up |-> up, of |-> of]
<1>1. c \in Reports /\ callbacks \in Seq(Reports) /\ callbacks' = Append(callbacks, c)
  BY DEF Report, Queues, Reports
<1>2. /\ callbacks' \in Seq(Reports) /\ callbacks' # <<>>
      /\ callbacks'[Len(callbacks')] = c
  BY <1>1
<1>3. SaysConnected' <=> up
  BY <1>2 DEF SaysConnected
<1>4. pc'["callback"] \notin {"about", "wait"} /\ (t # "owner" => pc'["owner"] = pc["owner"])
  BY DEF Report, GoAndNotify, Labels, Threads
<1>5. Queues'
  BY <1>2, <1>4 DEF Queues
<1>6. CallbackWaits'
  BY <1>4 DEF CallbackWaits
<1> QED BY <1>3, <1>5, <1>6

(* The last element of a sequence is that of its tail.                     *)
LEMMA TailFacts ==
    ASSUME NEW S, NEW s \in Seq(S), s # <<>>
    PROVE  /\ Head(s) = s[1] /\ s[1] \in S /\ Tail(s) \in Seq(S)
           /\ Len(s) = 1 => Tail(s) = <<>>
           /\ Len(s) # 1 => Tail(s) # <<>> /\ Tail(s)[Len(Tail(s))] = s[Len(s)]
<1>1. Len(s) \in Nat \ {0} /\ Head(s) = s[1] /\ s[1] \in S
  BY EmptySeq
<1>2. /\ Tail(s) \in Seq(S) /\ Len(Tail(s)) = Len(s) - 1
      /\ \A i \in 1 .. Len(Tail(s)) : Tail(s)[i] = s[i + 1]
  BY HeadTailProperties
<1>3. ASSUME Len(s) = 1 PROVE Tail(s) = <<>>
  <2>1. Len(Tail(s)) \notin Nat \ {0}
    BY <1>2, <1>3
  <2> QED BY <1>2, <2>1, EmptySeq, Zenon
<1>4. ASSUME Len(s) # 1 PROVE Tail(s) # <<>> /\ Tail(s)[Len(Tail(s))] = s[Len(s)]
  <2> DEFINE n == Len(s)  t == Tail(s)  m == Len(t)
  <2>1. n \in Nat /\ n # 0 /\ n # 1 /\ m = n - 1
    BY <1>1, <1>2, <1>4
  <2>2. \A i \in 1 .. m : t[i] = s[i + 1]
    BY <1>2
  <2>3. Len(<<>>) = 0
    BY EmptySeq
  <2>4. m # 0 => t # <<>>
    BY <2>3, Zenon
  <2> HIDE DEF n, t, m
  <2>5. m \in 1 .. m /\ m + 1 = n /\ m # 0
    BY <2>1
  <2>6. t[m] = s[n]
    BY <2>2, <2>5
  <2> QED BY <2>4, <2>5, <2>6 DEF n, t, m
<1> QED BY <1>1, <1>2, <1>3, <1>4, Zenon

(* Delivering a report does not change what the last one says.             *)
LEMMA DeliverySays ==
    ASSUME Queues, CallbackTest
    PROVE  callbacks' \in Seq(Reports) /\ (SaysConnected' <=> SaysConnected)
<1>1. CASE running /\ callbacks # <<>>
  <2>1. /\ callbacks' = Tail(callbacks)
        /\ last' = IF Head(callbacks).up THEN "connect" ELSE "close"
    BY <1>1 DEF CallbackTest
  <2>2. callbacks \in Seq(Reports)
    BY DEF Queues
  <2>3. /\ Head(callbacks) = callbacks[1] /\ callbacks[1] \in Reports /\ callbacks' \in Seq(Reports)
        /\ Len(callbacks) = 1 => callbacks' = <<>>
        /\ Len(callbacks) # 1 =>
               callbacks' # <<>> /\ callbacks'[Len(callbacks')] = callbacks[Len(callbacks)]
    BY <1>1, <2>1, <2>2, TailFacts, Zenon
  <2>4. CASE Len(callbacks) = 1
    <3>1. callbacks[1].up \in BOOLEAN
      BY <2>3 DEF Reports
    <3>2. SaysConnected' <=> callbacks[1].up
      BY <2>1, <2>3, <2>4, <3>1 DEF SaysConnected
    <3>3. SaysConnected = callbacks[1].up
      BY <1>1, <2>4 DEF SaysConnected
    <3> QED BY <2>3, <3>2, <3>3
  <2>5. CASE Len(callbacks) # 1
    BY <1>1, <2>3, <2>5, Zenon DEF SaysConnected
  <2> QED BY <2>4, <2>5
<1>2. CASE ~(running /\ callbacks # <<>>)
  BY <1>2 DEF CallbackTest, Queues, SaysConnected, history
<1> QED BY <1>1, <1>2

(* A step that leaves the callbacks alone.                                 *)
LEMMA SilentStep ==
    ASSUME Queues, CallbackWaits, UNCHANGED <<callbacks, last>>,
           events' \in Seq(Nat) /\ now' \in Nat /\ connects' \in Nat,
           running' => running /\ pc'["owner"] = pc["owner"],
           pc'["callback"] \in {"about", "wait"} => pc["callback"] \in {"about", "wait"}
    PROVE  Queues' /\ CallbackWaits' /\ (SaysConnected' <=> SaysConnected)
  BY DEF Queues, CallbackWaits, SaysConnected

(* connect() and close() keep it.                                          *)
LEMMA PostReport ==
    ASSUME IInv, ReportInv, NEW e \in Nat, Post(e), connects' \in Nat
    PROVE  ReportInv'
<1> USE DEF IInv, ReportInv
<1>1. events \in Seq(Nat)
  BY DEF Queues
<1>2. Append(events, e) \in Seq(Nat)
  BY <1>1
<1>3. /\ events' \in Seq(Nat) /\ now' \in Nat
      /\ UNCHANGED <<running, callbacks, last, ptr, peer>>
      /\ \A t \in Threads \ {"event"} : pc'[t] = pc[t]
      /\ pc'["event"] = IF pc["event"] = "wait" THEN "test" ELSE pc["event"]
  BY <1>2 DEF Post, Queues, history, Labels, Threads
<1>4. Queues' /\ CallbackWaits' /\ (SaysConnected' <=> SaysConnected)
  <2>1. pc'["owner"] = pc["owner"] /\ pc'["callback"] = pc["callback"]
    BY <1>3 DEF Threads
  <2> QED BY <1>3, <2>1, SilentStep
<1> QED BY <1>3, <1>4 DEF Alone, Losing, Reporting, IsConnected, Threads

(* do_close() on the event thread keeps it: it has forgotten the peer      *)
(* before it reports.                                                      *)
LEMMA DoCloseReport == IInv /\ ReportInv /\ DoClose("event", "test") => ReportInv'
<1> SUFFICES ASSUME IInv, ReportInv, DoClose("event", "test") PROVE ReportInv'
  OBVIOUS
<1> USE DEF IInv, ReportInv
<1>1. CASE CloseTest("event", "test") \/ Disconnect("event") \/ CloseJoin("event")
  <2>1. /\ UNCHANGED <<callbacks, last, events, now, connects, running>>
        /\ pc'["owner"] = pc["owner"] /\ pc'["callback"] = pc["callback"]
    BY <1>1 DEF CloseTest, Disconnect, CloseJoin, Go, queues, calls, history, Labels, Threads
  <2>2. Queues' /\ CallbackWaits' /\ (SaysConnected' <=> SaysConnected)
    BY <2>1, SilentStep DEF Queues
  <2> QED BY <1>1, <2>1, <2>2
       DEF CloseTest, Disconnect, CloseJoin, Go, Alone, Losing, Reporting, IsConnected, Labels, Threads
<1>2. CASE Closed("event", "test")
  <2>1. Report("event", "test", FALSE, 0) /\ UNCHANGED <<running, events, now, connects>>
    BY <1>2 DEF Closed, calls
  <2>2. Queues' /\ CallbackWaits' /\ ~SaysConnected'
    BY <2>1, ReportSays DEF Threads, Label
  <2> QED BY <1>2, <2>2
       DEF Closed, Report, GoAndNotify, Alone, Losing, Reporting, IsConnected, Labels, Threads
<1> QED BY <1>1, <1>2 DEF DoClose

(* do_connect() keeps it: until it publishes the peer, is_connected() is   *)
(* false, and it reports what it did.                                      *)
LEMMA DoConnectReport == IInv /\ ReportInv /\ DoConnect => ReportInv'
<1> SUFFICES ASSUME IInv, ReportInv, DoConnect PROVE ReportInv'
  OBVIOUS
<1> USE DEF IInv, ReportInv
<1>1. CASE Reset \/ Rejoin \/ Dial \/ DialAnswered \/ Publish \/ StartSend
  <2>1. /\ UNCHANGED <<callbacks, last, events, now, connects, running>>
        /\ pc'["owner"] = pc["owner"] /\ pc'["callback"] = pc["callback"]
    BY <1>1 DEF Reset, Rejoin, Dial, DialAnswered, Publish, StartSend, Go, queues, calls, history,
       Labels, Threads
  <2>2. Queues' /\ CallbackWaits' /\ (SaysConnected' <=> SaysConnected)
    BY <2>1, SilentStep DEF Queues
  <2>3. CASE Reset
    BY <2>1, <2>2, <2>3 DEF Reset, Go, Alone, Losing, Reporting, IsConnected, Labels, Threads
  <2>4. CASE Rejoin
    BY <2>1, <2>2, <2>4 DEF Rejoin, Alone, Losing, Reporting, IsConnected, Labels, Threads
  <2>5. CASE Dial
    BY <2>1, <2>2, <2>5 DEF Dial, Go, NoPeerYet, Alone, Losing, Reporting, IsConnected, Labels, Threads
  <2>6. CASE DialAnswered
    BY <2>1, <2>2, <2>6 DEF DialAnswered, Go, NoPeerYet, Alone, Losing, Reporting, IsConnected,
       Labels, Threads
  <2>7. CASE Publish
    BY <2>1, <2>2, <2>7 DEF Publish, Go, Alone, Losing, Reporting, IsConnected, Labels, Threads
  <2>8. CASE StartSend
    BY <2>1, <2>2, <2>8 DEF StartSend, Alone, Losing, Reporting, IsConnected, Labels, Threads
  <2> QED BY <1>1, <2>3, <2>4, <2>5, <2>6, <2>7, <2>8
<1>2. CASE ConnectLate \/ DialRefused \/ DialFailed
  <2>1. Report("event", "test", FALSE, now) /\ UNCHANGED <<running, events, now, connects>>
    BY <1>2 DEF ConnectLate, DialRefused, DialFailed, calls
  <2>2. Queues' /\ CallbackWaits' /\ ~SaysConnected'
    BY <2>1, ReportSays DEF Threads, Label, Queues
  <2>3. CASE ConnectLate
    BY <2>2, <2>3 DEF ConnectLate, Report, GoAndNotify, Alone, Losing, Reporting, IsConnected, Labels, Threads
  <2>4. CASE DialRefused \/ DialFailed
    BY <2>2, <2>4 DEF DialRefused, DialFailed, Report, GoAndNotify, NoPeerYet, Alone, Losing, Reporting,
       IsConnected, Labels, Threads
  <2> QED BY <1>2, <2>3, <2>4
<1>3. CASE ReportConnect
  <2>1. Report("event", "start", TRUE, now) /\ UNCHANGED <<running, events, now, connects>>
    BY <1>3 DEF ReportConnect, calls
  <2>2. Queues' /\ CallbackWaits' /\ SaysConnected'
    BY <2>1, ReportSays DEF Threads, Label, Queues
  <2> QED BY <1>3, <2>2 DEF ReportConnect, Report, GoAndNotify, Alone, Losing, Reporting, IsConnected,
       Labels, Threads
<1> QED BY <1>1, <1>2, <1>3 DEF DoConnect

(* exit() keeps it: the client does not run any more.                      *)
LEMMA OwnerReport == IInv /\ ReportInv /\ OwnerThread => ReportInv'
<1> SUFFICES ASSUME IInv, ReportInv, OwnerThread PROVE ReportInv'
  OBVIOUS
<1> USE DEF IInv, ReportInv
<1>1. ~running /\ running' = running
  BY DEF OwnerThread, DoClose, CloseTest, Disconnect, CloseJoin, Closed, ExitNotifies, ExitJoins,
     ExitDestroys, Queues, Label
<1>2. CallbackWaits' /\ Reporting'
  BY <1>1 DEF CallbackWaits, Reporting
<1>3. CASE CloseTest("owner", "notify event") \/ Disconnect("owner") \/ CloseJoin("owner")
  <2>1. Queues'
    BY <1>1, <1>3 DEF CloseTest, Disconnect, CloseJoin, Queues, queues, calls
  <2>2. /\ pc'["event"] = pc["event"] /\ pc'["send"] \in {pc["send"], "none"}
        /\ peer' \in {peer, "disconnecting"}
    BY <1>3 DEF CloseTest, Disconnect, CloseJoin, Go, Labels, Threads
  <2>3. ptr' => ptr
    BY <1>3, Zenon DEF CloseTest, Disconnect, CloseJoin
  <2> QED BY <1>1, <1>2, <2>1, <2>2, <2>3 DEF Alone, Losing
<1>4. CASE Closed("owner", "notify event")
  <2>1. Report("owner", "notify event", FALSE, 0) /\ UNCHANGED <<running, events, now, connects>>
    BY <1>4 DEF Closed, calls
  <2>2. Queues'
    BY <1>1, <2>1, ReportSays DEF Threads, Label
  <2>3. pc'["event"] = pc["event"] /\ pc'["send"] = pc["send"] /\ UNCHANGED <<ptr, peer>>
    BY <1>4 DEF Closed, Report, GoAndNotify, Labels, Threads
  <2> QED BY <1>1, <1>2, <2>2, <2>3 DEF Alone, Losing
<1>5. CASE \/ ExitNotifies("notify event", "event", "join event")
           \/ ExitNotifies("notify callback", "callback", "join callback")
  <2>1. Queues'
    BY <1>1, <1>5 DEF ExitNotifies, Queues, queues, calls
  <2>2. /\ pc'["event"] \in {pc["event"], "test"} /\ pc'["send"] = pc["send"]
        /\ UNCHANGED <<ptr, peer>>
    BY <1>5 DEF ExitNotifies, GoAndNotify, Labels, Threads
  <2> QED BY <1>1, <1>2, <2>1, <2>2 DEF Alone, Losing
<1>6. CASE \/ ExitJoins("join event", "event", "notify callback")
           \/ ExitJoins("join callback", "callback", "destroy")
  <2>1. Queues'
    BY <1>1, <1>6 DEF ExitJoins, Queues, queues, calls
  <2>2. pc'["event"] = pc["event"] /\ pc'["send"] = pc["send"] /\ UNCHANGED <<ptr, peer>>
    BY <1>6 DEF ExitJoins, Go, Labels, Threads
  <2> QED BY <1>1, <1>2, <2>1, <2>2 DEF Alone, Losing
<1>7. CASE ExitDestroys
  BY <1>1, <1>2, <1>7 DEF ExitDestroys, Go, Queues, Alone, Losing, Labels, Threads, calls
<1> QED BY <1>3, <1>4, <1>5, <1>6, <1>7 DEF OwnerThread, DoClose

(* Every step keeps it.                                                    *)
LEMMA NextReport == IInv /\ ReportInv /\ [Next]_vars => ReportInv'
<1> SUFFICES ASSUME IInv, ReportInv, [Next]_vars PROVE ReportInv'
  OBVIOUS
<1> USE DEF IInv, ReportInv
<1>1. CASE Connect
  <2>1. connects + 1 \in Nat /\ connects' \in Nat /\ Post(connects + 1)
    BY <1>1 DEF Connect, Queues
  <2> QED BY <2>1, PostReport
<1>2. CASE Close
  <2>1. connects' \in Nat /\ Post(0)
    BY <1>2 DEF Close, Queues
  <2> QED BY <2>1, PostReport
<1>3. CASE Exit \/ JoinTwice
  BY <1>3 DEF Exit, JoinTwice, Go, Queues, CallbackWaits, Alone, Losing, Reporting, Labels, Threads,
     queues, calls
<1>4. CASE ServerLeaves
  <2>1. Queues' /\ CallbackWaits' /\ (SaysConnected' <=> SaysConnected)
    BY <1>4, SilentStep DEF ServerLeaves, Queues, queues, calls, history
  <2> QED BY <1>4, <2>1 DEF ServerLeaves, Alone, Losing, Reporting, IsConnected
<1>5. CASE EventThread
  <2>1. CASE Wait("event")
    <3>1. Queues' /\ CallbackWaits' /\ (SaysConnected' <=> SaysConnected)
      BY <2>1, SilentStep DEF Wait, Go, Queues, queues, calls, history, Labels, Threads
    <3> QED BY <2>1, <3>1 DEF Wait, Go, Alone, Losing, Reporting, IsConnected, Labels, Threads
  <2>2. CASE EventTest
    <3>1. events' \in Seq(Nat) /\ now' \in Nat
      <4>1. events \in Seq(Nat) /\ now \in Nat
        BY DEF Queues
      <4>2. events # <<>> => Head(events) \in Nat /\ Tail(events) \in Seq(Nat)
        BY <4>1, HeadTailProperties, Zenon
      <4> QED BY <2>2, <4>1, <4>2 DEF EventTest
    <3>2. /\ pc["event"] = "test" /\ pc'["event"] \in {"done", "about", "connect", "close"}
          /\ pc'["send"] = pc["send"] /\ pc'["owner"] = pc["owner"] /\ pc'["callback"] = pc["callback"]
          /\ UNCHANGED <<running, callbacks, last, ptr, peer, connects>>
      BY <2>2 DEF EventTest, Go, calls, history, Labels, Threads
    <3>3. Queues' /\ CallbackWaits' /\ (SaysConnected' <=> SaysConnected)
      BY <3>1, <3>2, SilentStep DEF Queues
    <3> QED BY <3>2, <3>3 DEF Alone, Losing, Reporting, IsConnected
  <2> QED BY <1>5, <2>1, <2>2, DoConnectReport, DoCloseReport DEF EventThread
<1>6. CASE CallbackThread
  <2>1. CASE Wait("callback")
    <3>1. Queues' /\ CallbackWaits' /\ (SaysConnected' <=> SaysConnected)
      BY <2>1, SilentStep DEF Wait, Go, Queues, queues, calls, history, Labels, Threads
    <3> QED BY <2>1, <3>1 DEF Wait, Go, Alone, Losing, Reporting, IsConnected, Labels, Threads
  <2>2. CASE CallbackTest
    <3>1. callbacks' \in Seq(Reports) /\ (SaysConnected' <=> SaysConnected)
      BY <2>2, DeliverySays
    <3>2. /\ pc'["event"] = pc["event"] /\ pc'["send"] = pc["send"] /\ pc'["owner"] = pc["owner"]
          /\ running' /\ pc'["callback"] \in {"about", "wait"} => callbacks' = <<>>
          /\ UNCHANGED <<running, events, ptr, peer, now, connects>>
      BY <2>2 DEF CallbackTest, Go, calls, Labels, Threads
    <3>3. Queues' /\ CallbackWaits'
      BY <3>1, <3>2 DEF Queues, CallbackWaits
    <3> QED BY <3>1, <3>2, <3>3 DEF Alone, Losing, Reporting, IsConnected
  <2> QED BY <1>6, <2>1, <2>2 DEF CallbackThread
<1>7. CASE SendThread
  <2>1. CASE SendDisconnected \/ SendEnds
    <3>1. Queues' /\ CallbackWaits' /\ (SaysConnected' <=> SaysConnected)
      BY <2>1, SilentStep DEF SendDisconnected, SendEnds, Go, Queues, queues, calls, history, Labels, Threads
    <3> QED BY <2>1, <3>1
         DEF SendDisconnected, SendEnds, Go, Alone, Losing, Reporting, IsConnected, Labels, Threads
  <2>2. CASE SendReports
    <3>1. Report("send", "ended", FALSE, 0) /\ UNCHANGED <<running, events, now, connects>>
      BY <2>2 DEF SendReports, calls
    <3>2. Queues' /\ CallbackWaits' /\ ~SaysConnected'
      BY <3>1, ReportSays DEF Threads, Label
    <3> QED BY <2>2, <3>2
         DEF SendReports, Report, GoAndNotify, Alone, Losing, Reporting, IsConnected, Labels, Threads
  <2> QED BY <1>7, <2>1, <2>2 DEF SendThread
<1>8. CASE UNCHANGED vars
  <2>1. Queues' /\ CallbackWaits' /\ (SaysConnected' <=> SaysConnected)
    BY <1>8, SilentStep DEF vars, Queues, queues, calls, history
  <2> QED BY <1>8, <2>1 DEF vars, Alone, Losing, Reporting, IsConnected
<1> QED BY <1>1, <1>2, <1>3, <1>4, <1>5, <1>6, <1>7, <1>8, OwnerReport DEF Next

(* When the threads have nothing left to do the last callback told the     *)
(* truth about is_connected(), for any number of connect() and close()     *)
(* calls, a server that leaves at any time, and closes reported twice.     *)
THEOREM AlwaysLastReportTrue == Spec => []LastReportTrue
<1>1. ReportInv => LastReportTrue
  BY DEF ReportInv, CallbackWaits, Reporting, SaysConnected, LastReportTrue, Quiet
<1> QED BY InitIInv, NextIInv, InitReportInv, NextReport, <1>1, PTL DEF Spec
=============================================================================
