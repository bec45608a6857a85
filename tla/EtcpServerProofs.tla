-------------------------- MODULE EtcpServerProofs --------------------------
(***************************************************************************)
(* Proofs about EtcpServer, for every set of sessions, every number of     *)
(* contexts and every way the server is used.                              *)
(***************************************************************************)
EXTENDS EtcpServer, FiniteSetTheorems, TLAPS

(* Posting a handler keeps the queues well formed.                        *)
LEMMA PostType ==
  ASSUME NEW q \in [Ctx -> Seq(Handler)], NEW c, NEW h \in Handler
  PROVE  Post(q, c, h) \in [Ctx -> Seq(Handler)]
<1>1. CASE c \in Ctx
  <2>1. Append(q[c], h) \in Seq(Handler)
    BY <1>1
  <2>2. QED
    BY <1>1, <2>1 DEF Post
<1>2. CASE c \notin Ctx
  BY <1>2, Zenon DEF Post
<1>3. QED
  BY <1>1, <1>2

(* A handler made ready is a handler.                                      *)
LEMMA ReadyType ==
  ASSUME NEW kind \in {"accept", "close", "head", "body"}, NEW s \in Sessions,
         NEW res \in Outcome
  PROVE  Ready(kind, s, res) \in Handler
BY DEF Ready, Handler, Outcome

(* A handler being run is a handler.                                      *)
LEMMA BusyHandler ==
  ASSUME ThreadTypeOK, NEW c \in Ctx, pc[c] # "idle"
  PROVE  cur[c] \in Handler
BY DEF ThreadTypeOK

(* "No handler" is not one.                                                *)
LEMMA NoHandlerIsNone == NoHandler \notin Handler
BY DEF NoHandler, Handler

(* The session that do_accept() builds is one of the sessions.            *)
LEMMA NewSessionType == Fresh # {} => NewSession \in Sessions /\ ctx[NewSession] = 0
BY DEF NewSession, Fresh

(* The context that get_io_context() hands out is one of the contexts.    *)
LEMMA NextCtxType == OwnerTypeOK => NextCtx \in Ctx
BY ContextCountAssumption DEF OwnerTypeOK, NextCtx, Ctx

-----------------------------------------------------------------------------
(* Types hold at first.                                                    *)
LEMMA InitType == Init => TypeOK
<1> SUFFICES ASSUME Init PROVE TypeOK
  OBVIOUS
<1>1. OwnerTypeOK
  <2>1. 1 \in 1..(ContextCount + 1)
    BY ContextCountAssumption
  <2>2. m_acceptor \in BOOLEAN /\ stopped \in BOOLEAN
    BY DEF Init
  <2>3. QED
    BY <2>1, <2>2 DEF Init, OwnerTypeOK, Phase
<1>2. ThreadTypeOK
  BY DEF Init, ThreadTypeOK, Label
<1>3. SessionTypeOK
  BY ContextCountAssumption DEF Init, SessionTypeOK
<1>4. QED
  BY <1>1, <1>2, <1>3 DEF TypeOK

(* The steps of the thread that calls init() and exit().                  *)
LEMMA OwnerStepType == TypeOK /\ OwnerStep => TypeOK'
<1> SUFFICES ASSUME TypeOK, OwnerStep PROVE TypeOK'
  OBVIOUS
<1>0. OwnerTypeOK /\ ThreadTypeOK /\ SessionTypeOK
  BY DEF TypeOK
<1> USE <1>0, ContextCountAssumption DEF owner, threads, socket, history
<1>1. CASE InitServer
  <2>1. OwnerTypeOK'
    BY <1>1, NewSessionType DEF InitServer, OwnerTypeOK, Phase
  <2>2. ThreadTypeOK'
    BY <1>1 DEF InitServer, ThreadTypeOK
  <2>3. SessionTypeOK'
    BY <1>1 DEF InitServer, SessionTypeOK
  <2>4. QED
    BY <2>1, <2>2, <2>3 DEF TypeOK
<1>2. CASE InitServerFails
  BY <1>2 DEF InitServerFails, TypeOK, OwnerTypeOK, ThreadTypeOK, SessionTypeOK, Phase
<1>3. CASE BeginExit
  BY <1>3 DEF BeginExit, TypeOK, OwnerTypeOK, ThreadTypeOK, SessionTypeOK, Phase
<1>4. CASE ResetAcceptor
  <2>1. OwnerTypeOK'
    BY <1>4 DEF ResetAcceptor, OwnerTypeOK, Phase
  <2>2. accepting # None => Ready("accept", accepting, "err") \in Handler
    BY DEF OwnerTypeOK, Ready, Handler, Outcome
  <2>3. ThreadTypeOK'
    BY <1>4, <2>2, PostType DEF ResetAcceptor, ThreadTypeOK
  <2>4. SessionTypeOK'
    BY <1>4 DEF ResetAcceptor, SessionTypeOK
  <2>5. QED
    BY <2>1, <2>3, <2>4 DEF TypeOK
<1>5. CASE SweepSession
  <2>1. PICK s \in m_session_map :
           queue' = IF m_closed[s] THEN queue
                    ELSE Post(queue, ctx[s], Ready("close", s, "ok"))
    BY <1>5 DEF SweepSession
  <2>2. Ready("close", s, "ok") \in Handler
    BY <2>1 DEF OwnerTypeOK, Ready, Handler, Outcome
  <2>3. ThreadTypeOK'
    BY <1>5, <2>1, <2>2, PostType DEF SweepSession, ThreadTypeOK
  <2>4. OwnerTypeOK' /\ SessionTypeOK'
    BY <1>5 DEF SweepSession, OwnerTypeOK, SessionTypeOK
  <2>5. QED
    BY <2>3, <2>4 DEF TypeOK
<1>6. CASE SweepDone
  BY <1>6 DEF SweepDone, TypeOK, OwnerTypeOK, ThreadTypeOK, SessionTypeOK, Phase
<1>7. CASE Drained
  BY <1>7 DEF Drained, TypeOK, OwnerTypeOK, ThreadTypeOK, SessionTypeOK, Phase
<1>8. CASE StopContexts
  BY <1>8 DEF StopContexts, TypeOK, OwnerTypeOK, ThreadTypeOK, SessionTypeOK, Phase
<1>9. CASE JoinAndDestroy
  <2>1. fault' \in {"none", "bad_weak_ptr"}
    BY <1>9 DEF JoinAndDestroy
  <2>2. OwnerTypeOK'
    BY <1>9, <2>1 DEF JoinAndDestroy, OwnerTypeOK, Phase
  <2>3. ThreadTypeOK'
    BY <1>9 DEF JoinAndDestroy, ThreadTypeOK
  <2>4. SessionTypeOK'
    BY <1>9 DEF JoinAndDestroy, SessionTypeOK
  <2>5. QED
    BY <2>2, <2>3, <2>4 DEF TypeOK
<1>10. QED
  BY <1>1, <1>2, <1>3, <1>4, <1>5, <1>6, <1>7, <1>8, <1>9 DEF OwnerStep, ExitStep

(* A handler ends, or moves on.                                           *)
LEMMA FinishType ==
  ASSUME ThreadTypeOK, NEW c \in Ctx, Finish(c)
  PROVE  /\ cur' \in [Ctx -> Handler \cup {NoHandler}]
         /\ pc' \in [Ctx -> Label]
         /\ \A d \in Ctx : pc'[d] = "idle" <=> cur'[d] = NoHandler
BY DEF ThreadTypeOK, Finish, Label

(* A handler that goes on leaves the threads well typed.                   *)
LEMMA GotoType ==
  ASSUME ThreadTypeOK, NEW c \in Ctx, pc[c] # "idle",
         NEW label \in Label \ {"idle"}, Goto(c, label)
  PROVE  /\ cur' \in [Ctx -> Handler \cup {NoHandler}]
         /\ pc' \in [Ctx -> Label]
         /\ \A d \in Ctx : pc'[d] = "idle" <=> cur'[d] = NoHandler
BY DEF ThreadTypeOK, Goto, Label

(* Starting a read posts nothing but a handler.                           *)
LEMMA StartReadType ==
  ASSUME TypeOK, NEW s \in Sessions, NEW kind \in {"head", "body"}, StartRead(s, kind)
  PROVE  /\ queue' \in [Ctx -> Seq(Handler)]
         /\ reading' \in [Sessions -> {"none", "head", "body"}]
<1>1. Ready(kind, s, "err") \in Handler
  BY DEF Ready, Handler, Outcome
<1>2. CASE open[s]
  BY <1>2 DEF StartRead, TypeOK, ThreadTypeOK, SessionTypeOK
<1>3. CASE ~open[s]
  <2>1. queue' = Post(queue, ctx[s], Ready(kind, s, "err")) /\ reading' = reading
    BY <1>3 DEF StartRead
  <2>2. queue \in [Ctx -> Seq(Handler)]
    BY DEF TypeOK, ThreadTypeOK
  <2>3. queue' \in [Ctx -> Seq(Handler)]
    BY <1>1, <2>1, <2>2, PostType
  <2>4. QED
    BY <2>1, <2>3 DEF TypeOK, SessionTypeOK
<1>4. QED
  BY <1>2, <1>3

(* on_close() keeps the type of what it touches.                          *)
LEMMA OnCloseType ==
  ASSUME TypeOK, NEW c \in Ctx, NEW s \in Sessions, pc[c] # "idle", OnClose(c, s)
  PROVE  /\ cur' \in [Ctx -> Handler \cup {NoHandler}]
         /\ pc' \in [Ctx -> Label]
         /\ \A d \in Ctx : pc'[d] = "idle" <=> cur'[d] = NoHandler
         /\ m_closed' \in [Sessions -> BOOLEAN]
         /\ closes' \in [Sessions -> Nat]
<1>0. ThreadTypeOK /\ SessionTypeOK
  BY DEF TypeOK
<1>1. CASE m_closed[s]
  <2>1. Finish(c) /\ UNCHANGED <<m_closed, closes>>
    BY <1>1 DEF OnClose
  <2>2. QED
    BY <1>0, <2>1, FinishType DEF SessionTypeOK
<1>2. CASE ~m_closed[s]
  <2>1. "remove" \in Label \ {"idle"}
    BY DEF Label
  <2>2. /\ Goto(c, "remove")
        /\ m_closed' = [m_closed EXCEPT ![s] = TRUE]
        /\ closes' = [closes EXCEPT ![s] = @ + 1]
    BY <1>2 DEF OnClose
  <2>3. m_closed' \in [Sessions -> BOOLEAN] /\ closes' \in [Sessions -> Nat]
    BY <1>0, <2>2 DEF SessionTypeOK
  <2>4. QED
    BY <1>0, <2>1, <2>2, <2>3, GotoType
<1>3. QED
  BY <1>1, <1>2

(* Counting a callback.                                                   *)
LEMMA CallbackType ==
  ASSUME SessionTypeOK, NEW s \in Sessions, Callback(s)
  PROVE  late' \in [Sessions -> 0..2]
<1> DEFINE n == IF closes[s] > 0 /\ late[s] < 2 THEN late[s] + 1 ELSE late[s]
<1>1. late[s] \in 0..2 /\ late \in [Sessions -> 0..2]
  BY DEF SessionTypeOK
<1>2. n \in 0..2
  BY <1>1
<1>3. late' = [late EXCEPT ![s] = n]
  BY DEF Callback
<1>4. QED
  BY <1>1, <1>2, <1>3

-----------------------------------------------------------------------------
(* The steps of the threads that run the contexts.                        *)
LEMMA ThreadStepType ==
  ASSUME TypeOK, NEW c \in Ctx, ThreadStep(c)
  PROVE  TypeOK'
<1>0. OwnerTypeOK /\ ThreadTypeOK /\ SessionTypeOK
  BY DEF TypeOK
<1>a. pc[c] # "idle" => cur[c] \in Handler /\ cur[c].s \in Sessions
  BY <1>0, BusyHandler DEF Handler
<1> USE <1>0 DEF owner, threads, socket, history
<1>1. CASE Dispatch(c)
  <2>1. queue[c] \in Seq(Handler) /\ queue[c] # <<>>
    BY <1>1 DEF Dispatch, ThreadTypeOK
  <2>2. Head(queue[c]) \in Handler /\ Tail(queue[c]) \in Seq(Handler)
    BY <2>1
  <2>3. ThreadTypeOK'
    BY <1>1, <2>2, NoHandlerIsNone DEF Dispatch, ThreadTypeOK, Label
  <2>4. OwnerTypeOK' /\ SessionTypeOK'
    BY <1>1 DEF Dispatch, OwnerTypeOK, SessionTypeOK
  <2>5. QED
    BY <2>3, <2>4 DEF TypeOK
<1>2. CASE AcceptFailed(c)
  <2>1. pc[c] # "idle" /\ "rearm" \in Label \ {"idle"} /\ Goto(c, "rearm")
    BY <1>2 DEF AcceptFailed, Label
  <2>2. ThreadTypeOK'
    BY <1>2, <2>1, GotoType DEF AcceptFailed, ThreadTypeOK
  <2>3. OwnerTypeOK' /\ SessionTypeOK'
    BY <1>2 DEF AcceptFailed, OwnerTypeOK, SessionTypeOK
  <2>4. QED
    BY <2>2, <2>3 DEF TypeOK
<1>3. CASE OnAccept(c)
  <2>1. pc[c] # "idle" /\ "append" \in Label \ {"idle"} /\ Goto(c, "append")
    BY <1>3 DEF OnAccept, Label
  <2>2. ThreadTypeOK'
    BY <1>3, <2>1, GotoType DEF OnAccept, ThreadTypeOK
  <2>3. m_closed' \in [Sessions -> BOOLEAN] /\ accepts' \in [Sessions -> Nat]
    BY <1>3, <1>a, <2>1 DEF OnAccept, SessionTypeOK
  <2>4. OwnerTypeOK' /\ SessionTypeOK'
    BY <1>3, <2>3 DEF OnAccept, OwnerTypeOK, SessionTypeOK
  <2>5. QED
    BY <2>2, <2>4 DEF TypeOK
<1>4. CASE AppendSession(c)
  <2>1. pc[c] # "idle" /\ "read" \in Label \ {"idle"} /\ Goto(c, "read")
    BY <1>4 DEF AppendSession, Label
  <2>2. ThreadTypeOK'
    BY <1>4, <2>1, GotoType DEF AppendSession, ThreadTypeOK
  <2>3. OwnerTypeOK' /\ SessionTypeOK'
    BY <1>4, <1>a, <2>1 DEF AppendSession, OwnerTypeOK, SessionTypeOK
  <2>4. QED
    BY <2>2, <2>3 DEF TypeOK
<1>5. CASE StartSession(c)
  <2>1. /\ pc[c] # "idle" /\ "rearm" \in Label \ {"idle"} /\ Goto(c, "rearm")
        /\ StartRead(cur[c].s, "head")
    BY <1>5 DEF StartSession, Label
  <2>2. /\ queue' \in [Ctx -> Seq(Handler)]
        /\ reading' \in [Sessions -> {"none", "head", "body"}]
    BY <1>a, <2>1, StartReadType
  <2>3. ThreadTypeOK'
    BY <2>1, <2>2, GotoType DEF ThreadTypeOK
  <2>4. OwnerTypeOK' /\ SessionTypeOK'
    BY <1>5, <2>2 DEF StartSession, OwnerTypeOK, SessionTypeOK
  <2>5. QED
    BY <2>3, <2>4 DEF TypeOK
<1>6. CASE RearmAccept(c)
  <2>1. pc[c] # "idle"
    BY <1>6 DEF RearmAccept
  <2>2. CASE Finish(c) /\ UNCHANGED <<ctx, m_io_context_iter>>
    <3>1. ThreadTypeOK'
      BY <1>6, <2>2, FinishType DEF RearmAccept, ThreadTypeOK
    <3>2. OwnerTypeOK' /\ SessionTypeOK'
      BY <1>6, <2>2 DEF RearmAccept, OwnerTypeOK, SessionTypeOK
    <3>3. QED
      BY <3>1, <3>2 DEF TypeOK
  <2>3. CASE /\ m_acceptor /\ Fresh # {}
             /\ ctx' = [ctx EXCEPT ![NewSession] = NextCtx]
             /\ cur' = [cur EXCEPT ![c].s = NewSession]
             /\ pc' = [pc EXCEPT ![c] = "listen"]
             /\ m_io_context_iter' = NextCtx + 1
    <3>1. NewSession \in Sessions /\ NextCtx \in Ctx
      BY <2>3, NewSessionType, NextCtxType
    <3>2. [cur[c] EXCEPT !.s = NewSession] \in Handler
      BY <1>a, <2>1, <3>1 DEF Handler
    <3>3. ThreadTypeOK'
      BY <1>6, <2>3, <3>2, NoHandlerIsNone DEF RearmAccept, ThreadTypeOK, Label
    <3>4. OwnerTypeOK'
      BY <1>6, <2>3, <3>1, ContextCountAssumption DEF RearmAccept, OwnerTypeOK, Ctx
    <3>5. SessionTypeOK'
      BY <1>6, <2>3, <3>1, ContextCountAssumption DEF RearmAccept, SessionTypeOK, Ctx
    <3>6. QED
      BY <3>3, <3>4, <3>5 DEF TypeOK
  <2>4. QED
    BY <1>6, <2>2, <2>3 DEF RearmAccept
<1>7. CASE ListenAgain(c)
  <2>1. pc[c] # "idle" /\ Finish(c)
    BY <1>7 DEF ListenAgain
  <2>2. ThreadTypeOK'
    BY <1>7, <2>1, FinishType DEF ListenAgain, ThreadTypeOK
  <2>3. OwnerTypeOK' /\ SessionTypeOK'
    BY <1>7, <1>a, <2>1 DEF ListenAgain, OwnerTypeOK, SessionTypeOK
  <2>4. QED
    BY <2>2, <2>3 DEF TypeOK
<1>8. CASE HandleClose(c)
  <2> DEFINE s == cur[c].s
  <2>1. pc[c] # "idle" /\ s \in Sessions /\ OnClose(c, s) /\ CloseSocket(s)
    BY <1>8, <1>a DEF HandleClose
  <2>2. reading[s] # "none" => Ready(reading[s], s, "err") \in Handler
    BY <2>1 DEF SessionTypeOK, Ready, Handler, Outcome
  <2>3. /\ queue' \in [Ctx -> Seq(Handler)]
        /\ open' \in [Sessions -> BOOLEAN]
        /\ reading' \in [Sessions -> {"none", "head", "body"}]
    <3>1. queue \in [Ctx -> Seq(Handler)]
      BY DEF ThreadTypeOK
    <3>2. queue' \in [Ctx -> Seq(Handler)]
      BY <2>1, <2>2, <3>1, PostType DEF CloseSocket
    <3>3. QED
      BY <2>1, <3>2 DEF CloseSocket, SessionTypeOK
  <2>4. /\ cur' \in [Ctx -> Handler \cup {NoHandler}]
        /\ pc' \in [Ctx -> Label]
        /\ \A d \in Ctx : pc'[d] = "idle" <=> cur'[d] = NoHandler
        /\ m_closed' \in [Sessions -> BOOLEAN]
        /\ closes' \in [Sessions -> Nat]
    BY <2>1, OnCloseType
  <2>5. ThreadTypeOK'
    BY <2>3, <2>4 DEF ThreadTypeOK
  <2>6. OwnerTypeOK' /\ SessionTypeOK'
    BY <1>8, <2>3, <2>4 DEF HandleClose, OwnerTypeOK, SessionTypeOK
  <2>7. QED
    BY <2>5, <2>6 DEF TypeOK
<1>9. CASE ReadFailed(c)
  <2>1. pc[c] # "idle" /\ cur[c].s \in Sessions /\ OnClose(c, cur[c].s)
    BY <1>9, <1>a DEF ReadFailed
  <2>2. /\ cur' \in [Ctx -> Handler \cup {NoHandler}]
        /\ pc' \in [Ctx -> Label]
        /\ \A d \in Ctx : pc'[d] = "idle" <=> cur'[d] = NoHandler
        /\ m_closed' \in [Sessions -> BOOLEAN]
        /\ closes' \in [Sessions -> Nat]
    BY <2>1, OnCloseType
  <2>3. ThreadTypeOK'
    BY <1>9, <2>2 DEF ReadFailed, ThreadTypeOK
  <2>4. OwnerTypeOK' /\ SessionTypeOK'
    BY <1>9, <2>2 DEF ReadFailed, OwnerTypeOK, SessionTypeOK
  <2>5. QED
    BY <2>3, <2>4 DEF TypeOK
<1>10. CASE HeadBad(c)
  <2>1. /\ pc[c] # "idle" /\ cur[c].s \in Sessions /\ Callback(cur[c].s) /\ Finish(c)
        /\ queue' = Post(queue, ctx[cur[c].s], Ready("close", cur[c].s, "ok"))
    BY <1>10, <1>a DEF HeadBad
  <2>2. Ready("close", cur[c].s, "ok") \in Handler
    BY <2>1 DEF Ready, Handler, Outcome
  <2>3. queue' \in [Ctx -> Seq(Handler)]
    BY <2>1, <2>2, PostType DEF ThreadTypeOK
  <2>4. ThreadTypeOK'
    BY <2>1, <2>3, FinishType DEF ThreadTypeOK
  <2>5. late' \in [Sessions -> 0..2]
    BY <2>1, CallbackType
  <2>6. OwnerTypeOK' /\ SessionTypeOK'
    BY <1>10, <2>5 DEF HeadBad, OwnerTypeOK, SessionTypeOK
  <2>7. QED
    BY <2>4, <2>6 DEF TypeOK
<1>11. CASE HeadRead(c)
  <2> DEFINE kind == IF cur[c].res = "ok" THEN "body" ELSE "head"
  <2>1. /\ pc[c] # "idle" /\ cur[c].s \in Sessions /\ Finish(c)
        /\ StartRead(cur[c].s, kind) /\ kind \in {"head", "body"}
    BY <1>11, <1>a DEF HeadRead
  <2> HIDE DEF kind
  <2>2. /\ queue' \in [Ctx -> Seq(Handler)]
        /\ reading' \in [Sessions -> {"none", "head", "body"}]
    BY <2>1, StartReadType
  <2>3. ThreadTypeOK'
    BY <2>1, <2>2, FinishType DEF ThreadTypeOK
  <2>4. OwnerTypeOK' /\ SessionTypeOK'
    BY <1>11, <2>2 DEF HeadRead, OwnerTypeOK, SessionTypeOK
  <2>5. QED
    BY <2>3, <2>4 DEF TypeOK
<1>12. CASE BodyRead(c)
  <2>1. /\ pc[c] # "idle" /\ cur[c].s \in Sessions /\ Finish(c)
        /\ StartRead(cur[c].s, "head") /\ Callback(cur[c].s)
    BY <1>12, <1>a DEF BodyRead
  <2>2. /\ queue' \in [Ctx -> Seq(Handler)]
        /\ reading' \in [Sessions -> {"none", "head", "body"}]
    BY <2>1, StartReadType
  <2>3. ThreadTypeOK'
    BY <2>1, <2>2, FinishType DEF ThreadTypeOK
  <2>4. late' \in [Sessions -> 0..2]
    BY <2>1, CallbackType
  <2>5. OwnerTypeOK' /\ SessionTypeOK'
    BY <1>12, <2>2, <2>4 DEF BodyRead, OwnerTypeOK, SessionTypeOK
  <2>6. QED
    BY <2>3, <2>5 DEF TypeOK
<1>13. CASE RemoveSession(c)
  <2>1. pc[c] # "idle" /\ Finish(c)
    BY <1>13 DEF RemoveSession
  <2>2. ThreadTypeOK'
    BY <1>13, <2>1, FinishType DEF RemoveSession, ThreadTypeOK
  <2>3. OwnerTypeOK' /\ SessionTypeOK'
    BY <1>13 DEF RemoveSession, OwnerTypeOK, SessionTypeOK
  <2>4. QED
    BY <2>2, <2>3 DEF TypeOK
<1>14. QED
  BY <1>1, <1>2, <1>3, <1>4, <1>5, <1>6, <1>7, <1>8, <1>9, <1>10, <1>11, <1>12,
     <1>13 DEF ThreadStep, HandlerStep

(* The steps of users, clients and the network.                           *)
LEMMA WorldType == TypeOK /\ World => TypeOK'
<1> SUFFICES ASSUME TypeOK, World PROVE TypeOK'
  OBVIOUS
<1>0. OwnerTypeOK /\ ThreadTypeOK /\ SessionTypeOK
  BY DEF TypeOK
<1>a. queue \in [Ctx -> Seq(Handler)]
  BY <1>0 DEF ThreadTypeOK
<1> USE <1>0 DEF owner, threads, socket, history
<1>1. ASSUME NEW s \in Sessions, UserClose(s) PROVE TypeOK'
  <2>1. Ready("close", s, "ok") \in Handler
    BY DEF Ready, Handler, Outcome
  <2>2. queue' \in [Ctx -> Seq(Handler)]
    BY <1>1, <1>a, <2>1, PostType DEF UserClose
  <2>3. UNCHANGED <<owner, accepting, cur, pc, ctx, m_closed, socket, m_session_map, history, fault>>
    BY <1>1 DEF UserClose
  <2>4. ThreadTypeOK'
    BY <2>2, <2>3 DEF ThreadTypeOK
  <2>5. OwnerTypeOK' /\ SessionTypeOK'
    BY <2>3 DEF OwnerTypeOK, SessionTypeOK
  <2>6. QED
    BY <2>4, <2>5 DEF TypeOK
<1>2. ASSUME NEW res \in {"ok", "err"}, AcceptCompletes(res) PROVE TypeOK'
  <2>1. accepting \in Sessions
    BY <1>2 DEF AcceptCompletes, OwnerTypeOK
  <2>2. Ready("accept", accepting, res) \in Handler
    BY <2>1 DEF Ready, Handler, Outcome
  <2>3. queue' \in [Ctx -> Seq(Handler)]
    BY <1>2, <1>a, <2>2, PostType DEF AcceptCompletes
  <2>4. ThreadTypeOK'
    BY <1>2, <2>3 DEF AcceptCompletes, ThreadTypeOK
  <2>5. OwnerTypeOK'
    BY <1>2 DEF AcceptCompletes, OwnerTypeOK
  <2>6. SessionTypeOK'
    BY <1>2 DEF AcceptCompletes, SessionTypeOK
  <2>7. QED
    BY <2>4, <2>5, <2>6 DEF TypeOK
<1>3. ASSUME NEW s \in Sessions, NEW res \in ReadOutcomes, ReadCompletes(s, res)
      PROVE  TypeOK'
  <2>0. reading[s] \in {"head", "body"} /\ res \in Outcome
    BY <1>3, OutcomeAssumption DEF ReadCompletes, SessionTypeOK
  <2>1. Ready(reading[s], s, res) \in Handler
    BY <2>0, ReadyType
  <2>2. queue' \in [Ctx -> Seq(Handler)]
    BY <1>3, <1>a, <2>1, PostType DEF ReadCompletes
  <2>3. ThreadTypeOK'
    BY <1>3, <2>2 DEF ReadCompletes, ThreadTypeOK
  <2>4. OwnerTypeOK' /\ SessionTypeOK'
    BY <1>3 DEF ReadCompletes, OwnerTypeOK, SessionTypeOK
  <2>5. QED
    BY <2>3, <2>4 DEF TypeOK
<1>4. QED
  BY <1>1, <1>2, <1>3 DEF World

(* Types are kept by every step.                                           *)
LEMMA NextType == TypeOK /\ [Next]_vars => TypeOK'
<1> SUFFICES ASSUME TypeOK, [Next]_vars PROVE TypeOK'
  OBVIOUS
<1>1. CASE OwnerStep
  BY <1>1, OwnerStepType
<1>2. ASSUME NEW c \in Ctx, ThreadStep(c) PROVE TypeOK'
  BY <1>2, ThreadStepType
<1>3. CASE World
  BY <1>3, WorldType
<1>4. CASE UNCHANGED vars
  BY <1>4 DEF vars, owner, threads, socket, history, TypeOK, OwnerTypeOK,
     ThreadTypeOK, SessionTypeOK
<1>5. QED
  BY <1>1, <1>2, <1>3, <1>4 DEF Next

(* The server's state stays well formed, however many contexts and        *)
(* sessions there are and however init(), exit() and close() are used.    *)
THEOREM TypeCorrect == Spec => []TypeOK
<1>1. Init => TypeOK
  BY InitType
<1>2. TypeOK /\ [Next]_vars => TypeOK'
  BY NextType
<1>3. QED
  BY <1>1, <1>2, PTL DEF Spec
-----------------------------------------------------------------------------
(***************************************************************************)
(* Accepting is one chain: an accept is pending, or its completion waits,  *)
(* or is being handled, and never two of these.  The session it carries    *)
(* has not been accepted yet, which is why on_accept runs once on it.      *)
(***************************************************************************)
AcceptQueued == \E i \in DOMAIN queue[AcceptCtx] : queue[AcceptCtx][i].kind = "accept"
AcceptRunning == cur[AcceptCtx].kind = "accept"

Unaccepted(s) == accepts[s] = 0 /\ ctx[s] # 0

(* Only the first context handles accepts; which labels a handler has.    *)
HandlerShape ==
    \A c \in Ctx :
        /\ pc[c] \in {"append", "read", "rearm", "listen"} => cur[c].kind = "accept"
        /\ pc[c] = "remove" => cur[c].kind # "accept"
        /\ c # AcceptCtx =>
             /\ cur[c].kind # "accept"
             /\ \A i \in DOMAIN queue[c] : queue[c][i].kind # "accept"

OneAccept ==
    /\ accepting # None => ~AcceptQueued /\ ~AcceptRunning
    /\ AcceptQueued => ~AcceptRunning
    /\ \A i, j \in DOMAIN queue[AcceptCtx] :
         queue[AcceptCtx][i].kind = "accept" /\ queue[AcceptCtx][j].kind = "accept" => i = j

AcceptsFresh ==
    /\ \A s \in Sessions : ctx[s] = 0 => accepts[s] = 0
    /\ accepting # None => Unaccepted(accepting)
    /\ \A i \in DOMAIN queue[AcceptCtx] :
         queue[AcceptCtx][i].kind = "accept" => Unaccepted(queue[AcceptCtx][i].s)
    /\ AcceptRunning /\ pc[AcceptCtx] \in {"begin", "listen"} => Unaccepted(cur[AcceptCtx].s)

(* A session is registered from on_accept to on_close.                    *)
RegisteredWhileOpen ==
    /\ \A s \in Sessions :
         ~m_closed[s] => s \in m_session_map \/ \E c \in Ctx : pc[c] = "append" /\ cur[c].s = s
    /\ \A c \in Ctx : pc[c] = "remove" => m_closed[cur[c].s] /\ accepts[cur[c].s] # 0

(* What init() and exit() leave behind.                                   *)
OwnerState ==
    /\ app = "up" => m_acceptor
    /\ app \notin {"up", "reset"} => ~m_acceptor /\ accepting = None
    /\ app = "down" /\ fault = "none" =>
         /\ \A c \in Ctx : queue[c] = <<>> /\ pc[c] = "idle"
         /\ \A s \in Sessions : reading[s] = "none" /\ m_closed[s]

(* An exit() called while no client is connecting meets no session that   *)
(* is being accepted, from its first step to its last.                    *)
QuietExitState ==
    QuietExit =>
        /\ fault = "none"
        /\ app # "up" =>
             /\ pc[AcceptCtx] \notin {"append", "read", "listen"}
             /\ AcceptRunning /\ pc[AcceptCtx] = "begin" => cur[AcceptCtx].res = "err"
             /\ \A i \in DOMAIN queue[AcceptCtx] :
                  queue[AcceptCtx][i].kind = "accept" => queue[AcceptCtx][i].res = "err"
        /\ app = "reset" => NoAcceptInProgress
        /\ app \in {"stop", "join", "down"} => m_session_map = {}

AcceptInv == HandlerShape /\ OneAccept /\ AcceptsFresh

Core ==
    /\ CallbacksPaired
    /\ AcceptInv
    /\ RegisteredWhileOpen
    /\ OwnerState
    /\ QuietExitState

IInv == TypeOK /\ Core

-----------------------------------------------------------------------------
(* The strengthening holds at first: nothing runs, nothing is accepted.    *)
LEMMA InitCore == Init => Core
<1> SUFFICES ASSUME Init PROVE Core
  OBVIOUS
<1>0. \A c \in Ctx : queue[c] = <<>> /\ pc[c] = "idle" /\ cur[c] = NoHandler
  BY DEF Init
<1>00. AcceptCtx \in Ctx
  BY ContextCountAssumption DEF AcceptCtx, Ctx
<1>1. CallbacksPaired
  BY DEF Init, CallbacksPaired
<1>2. AcceptInv
  BY <1>0, <1>00 DEF Init, AcceptInv, HandlerShape, OneAccept, AcceptsFresh,
     AcceptQueued, AcceptRunning, NoHandler
<1>3. RegisteredWhileOpen
  BY <1>0 DEF Init, RegisteredWhileOpen
<1>4. OwnerState
  BY <1>0 DEF Init, OwnerState
<1>5. QuietExitState
  BY <1>0, <1>00 DEF Init, QuietExitState, AcceptRunning, NoHandler
<1>6. QED
  BY <1>1, <1>2, <1>3, <1>4, <1>5 DEF Core

(* The acceptor has a context: there is at least one.                      *)
LEMMA AcceptCtxType == AcceptCtx \in Ctx
BY ContextCountAssumption DEF AcceptCtx, Ctx

(* The step leaves every accept handler of every queue where it was, and  *)
(* adds none.                                                             *)
SameAccepts ==
    \A c \in Ctx : \A i \in DOMAIN queue'[c] :
        queue'[c][i].kind = "accept" => i \in DOMAIN queue[c] /\ queue'[c][i] = queue[c][i]

(* Posting a handler that is no accept is such a step.                    *)
LEMMA PostSameAccepts ==
  ASSUME ThreadTypeOK, NEW d, NEW h \in Handler, h.kind # "accept",
         queue' = Post(queue, d, h)
  PROVE  SameAccepts
<1> SUFFICES ASSUME NEW c \in Ctx, NEW i \in DOMAIN queue'[c],
                    queue'[c][i].kind = "accept"
             PROVE  i \in DOMAIN queue[c] /\ queue'[c][i] = queue[c][i]
  BY DEF SameAccepts
<1>1. queue[c] \in Seq(Handler) /\ queue \in [Ctx -> Seq(Handler)]
  BY DEF ThreadTypeOK
<1>2. CASE c = d
  <2>1. queue'[c] = Append(queue[c], h)
    BY <1>1, <1>2 DEF Post
  <2>2. i \in 1..(Len(queue[c]) + 1)
    BY <1>1, <2>1
  <2>3. i # Len(queue[c]) + 1
    BY <1>1, <2>1
  <2>4. QED
    BY <1>1, <2>1, <2>2, <2>3
<1>3. CASE c # d
  BY <1>1, <1>3 DEF Post
<1>4. QED
  BY <1>2, <1>3

(* So are starting a read and closing a socket.                           *)
LEMMA StartReadSameAccepts ==
  ASSUME TypeOK, NEW s \in Sessions, NEW kind \in {"head", "body"}, StartRead(s, kind)
  PROVE  SameAccepts
<1>1. CASE open[s]
  BY <1>1 DEF StartRead, SameAccepts
<1>2. CASE ~open[s]
  <2>1. Ready(kind, s, "err") \in Handler
    BY ReadyType DEF Outcome
  <2>2. Ready(kind, s, "err").kind # "accept"
    BY DEF Ready
  <2>3. queue' = Post(queue, ctx[s], Ready(kind, s, "err"))
    BY <1>2 DEF StartRead
  <2>4. QED
    BY <2>1, <2>2, <2>3, PostSameAccepts DEF TypeOK
<1>3. QED
  BY <1>1, <1>2

(* Closing a socket posts no accept.                                       *)
LEMMA CloseSocketSameAccepts ==
  ASSUME TypeOK, NEW s \in Sessions, CloseSocket(s)
  PROVE  SameAccepts
<1>1. CASE reading[s] = "none"
  BY <1>1 DEF CloseSocket, SameAccepts
<1>2. CASE reading[s] # "none"
  <2>1. reading[s] \in {"head", "body"}
    BY <1>2 DEF TypeOK, SessionTypeOK
  <2>2. Ready(reading[s], s, "err") \in Handler
    BY <2>1, ReadyType DEF Outcome
  <2>3. Ready(reading[s], s, "err").kind # "accept"
    BY <2>1 DEF Ready
  <2>4. queue' = Post(queue, ctx[s], Ready(reading[s], s, "err"))
    BY <1>2 DEF CloseSocket
  <2>5. QED
    BY <2>2, <2>3, <2>4, PostSameAccepts DEF TypeOK
<1>3. QED
  BY <1>1, <1>2

(* A step that adds no accept and runs no accept handler keeps AcceptInv. *)
LEMMA SameAcceptsInv ==
  ASSUME AcceptInv, SameAccepts, UNCHANGED <<accepting, accepts, ctx, cur, pc>>
  PROVE  AcceptInv'
<1>1. HandlerShape'
  BY DEF AcceptInv, HandlerShape, SameAccepts
<1>2. AcceptQueued' => AcceptQueued
  BY AcceptCtxType DEF AcceptQueued, SameAccepts
<1>3. OneAccept'
  BY <1>2, AcceptCtxType DEF AcceptInv, OneAccept, SameAccepts, AcceptRunning
<1>4. AcceptsFresh'
  BY AcceptCtxType DEF AcceptInv, AcceptsFresh, SameAccepts, AcceptRunning, Unaccepted
<1>5. QED
  BY <1>1, <1>3, <1>4 DEF AcceptInv

(* What a handler other than an accept does to a session leaves the one    *)
(* accept under way alone.                                                 *)
LEMMA OtherHandlerInv ==
  ASSUME TypeOK, AcceptInv, SameAccepts, UNCHANGED <<accepting, accepts, ctx>>,
         NEW c \in Ctx, cur[c].kind # "accept", Finish(c) \/ Goto(c, "remove")
  PROVE  AcceptInv'
<1>0. /\ \A d \in Ctx : d # c => cur'[d] = cur[d] /\ pc'[d] = pc[d]
      /\ cur'[c].kind # "accept"
      /\ pc'[c] \in {"idle", "remove"}
  BY DEF TypeOK, ThreadTypeOK, Finish, Goto, NoHandler
<1>1. HandlerShape'
  BY <1>0 DEF AcceptInv, HandlerShape, SameAccepts
<1>2. AcceptQueued' => AcceptQueued
  BY AcceptCtxType DEF AcceptQueued, SameAccepts
<1>3. AcceptRunning' => AcceptRunning /\ cur'[AcceptCtx] = cur[AcceptCtx] /\ pc'[AcceptCtx] = pc[AcceptCtx]
  BY <1>0, AcceptCtxType DEF AcceptRunning
<1>4. OneAccept'
  BY <1>2, <1>3, AcceptCtxType DEF AcceptInv, OneAccept, SameAccepts
<1>5. AcceptsFresh'
  BY <1>3, AcceptCtxType DEF AcceptInv, AcceptsFresh, SameAccepts, Unaccepted
<1>6. QED
  BY <1>1, <1>4, <1>5 DEF AcceptInv

(* No thread has anything to run once exit() has returned.                *)
LEMMA DownIsIdle ==
  ASSUME OwnerState, NEW c \in Ctx, ThreadStep(c)
  PROVE  app # "down" /\ fault = "none"
<1> SUFFICES ASSUME app = "down" PROVE FALSE
  BY DEF ThreadStep
<1>1. fault = "none" /\ queue[c] = <<>> /\ pc[c] = "idle"
  BY DEF ThreadStep, OwnerState
<1>2. QED
  BY <1>1 DEF ThreadStep, HandlerStep, Dispatch, AcceptFailed, OnAccept,
     AppendSession, StartSession, RearmAccept, ListenAgain, HandleClose,
     ReadFailed, HeadBad, HeadRead, BodyRead, RemoveSession

(* The parts of Core that a handler other than an accept cannot disturb.  *)
LEMMA OtherHandlerOwner ==
  ASSUME TypeOK, AcceptInv, OwnerState, QuietExitState, SameAccepts,
         UNCHANGED <<owner, accepting, accepts, ctx, fault>>,
         m_session_map' \subseteq m_session_map, app # "down",
         NEW c \in Ctx, cur[c].kind # "accept", Finish(c) \/ Goto(c, "remove")
  PROVE  AcceptInv' /\ OwnerState' /\ QuietExitState'
<1>0. /\ \A d \in Ctx : d # c => cur'[d] = cur[d] /\ pc'[d] = pc[d]
      /\ cur'[c].kind # "accept"
      /\ pc'[c] \in {"idle", "remove"}
  BY DEF TypeOK, ThreadTypeOK, Finish, Goto, NoHandler
<1>1. AcceptInv'
  BY OtherHandlerInv
<1>2. OwnerState'
  BY DEF OwnerState, owner
<1>3. AcceptRunning' => AcceptRunning /\ cur'[AcceptCtx] = cur[AcceptCtx] /\ pc'[AcceptCtx] = pc[AcceptCtx]
  BY <1>0, AcceptCtxType DEF AcceptRunning
<1>4. NoAcceptInProgress => NoAcceptInProgress'
  BY <1>3, AcceptCtxType DEF NoAcceptInProgress, AcceptRunning, SameAccepts
<1>5. QuietExitState'
  <2> SUFFICES ASSUME QuietExit PROVE QuietExitState'
    BY DEF QuietExitState
  <2>1. app' # "up" => pc'[AcceptCtx] \notin {"append", "read", "listen"}
    BY <1>0, AcceptCtxType DEF QuietExitState, owner
  <2>2. app' # "up" =>
          /\ AcceptRunning' /\ pc'[AcceptCtx] = "begin" => cur'[AcceptCtx].res = "err"
          /\ \A i \in DOMAIN queue'[AcceptCtx] :
               queue'[AcceptCtx][i].kind = "accept" => queue'[AcceptCtx][i].res = "err"
    BY <1>3, AcceptCtxType DEF QuietExitState, owner, SameAccepts
  <2>3. app' = "reset" => NoAcceptInProgress'
    BY <1>4 DEF QuietExitState, owner
  <2>4. app' \in {"stop", "join", "down"} => m_session_map' = {}
    BY DEF QuietExitState, owner
  <2>5. QED
    BY <2>1, <2>2, <2>3, <2>4 DEF QuietExitState
<1>6. QED
  BY <1>1, <1>2, <1>5

(* on_close() by a posted close or by a failed read.                      *)
LEMMA OnCloseCore ==
  ASSUME TypeOK, Core, SameAccepts,
         UNCHANGED <<owner, accepting, accepts, ctx, fault, m_session_map>>, app # "down",
         NEW c \in Ctx, pc[c] # "idle", cur[c].kind # "accept", OnClose(c, cur[c].s)
  PROVE  Core'
<1> DEFINE s == cur[c].s
<1>0. /\ CallbacksPaired /\ AcceptInv /\ RegisteredWhileOpen /\ OwnerState /\ QuietExitState
      /\ s \in Sessions
  BY BusyHandler DEF Core, TypeOK, Handler
<1>1. Finish(c) \/ Goto(c, "remove")
  BY DEF OnClose
<1>2. AcceptInv' /\ OwnerState' /\ QuietExitState'
  BY <1>0, <1>1, OtherHandlerOwner
<1>3. pc[c] # "append"
  BY <1>0 DEF AcceptInv, HandlerShape
<1>4. /\ \A d \in Ctx : d # c => cur'[d] = cur[d] /\ pc'[d] = pc[d]
      /\ pc'[c] = "remove" => cur'[c] = cur[c] /\ ~m_closed[s]
      /\ pc'[c] # "append"
      /\ pc'[c] \in {"idle", "remove"}
  BY <1>1 DEF OnClose, Finish, Goto, TypeOK, ThreadTypeOK
<1>5. CASE m_closed[s]
  <2>1. UNCHANGED <<m_closed, closes>> /\ pc'[c] = "idle"
    BY <1>5 DEF OnClose, Finish, TypeOK, ThreadTypeOK
  <2>2. CallbacksPaired'
    BY <1>0, <2>1 DEF CallbacksPaired
  <2>3. RegisteredWhileOpen'
    BY <1>0, <1>3, <1>4, <2>1 DEF RegisteredWhileOpen
  <2>4. QED
    BY <1>2, <2>2, <2>3 DEF Core
<1>6. CASE ~m_closed[s]
  <2>1. /\ m_closed' = [m_closed EXCEPT ![s] = TRUE]
        /\ closes' = [closes EXCEPT ![s] = closes[s] + 1]
    BY <1>6 DEF OnClose
  <2>2. accepts[s] = closes[s] + 1 /\ accepts[s] # 0
    BY <1>0, <1>6 DEF CallbacksPaired, TypeOK, SessionTypeOK
  <2>3. CallbacksPaired'
    <3> SUFFICES ASSUME NEW r \in Sessions
                 PROVE  accepts'[r] <= 1 /\ accepts'[r] = closes'[r] + (IF m_closed'[r] THEN 0 ELSE 1)
      BY DEF CallbacksPaired
    <3>1. CASE r = s
      BY <1>0, <2>1, <2>2, <3>1 DEF CallbacksPaired, TypeOK, SessionTypeOK
    <3>2. CASE r # s
      BY <1>0, <2>1, <3>2 DEF CallbacksPaired, TypeOK, SessionTypeOK
    <3>3. QED
      BY <3>1, <3>2
  <2>4. \A r \in Sessions : ~m_closed'[r] => ~m_closed[r]
    BY <2>1 DEF TypeOK, SessionTypeOK
  <2>5. \A d \in Ctx : pc[d] = "remove" => cur[d].s \in Sessions
    BY BusyHandler DEF TypeOK, Handler
  <2>6. \A d \in Ctx : pc'[d] = "remove" => m_closed'[cur'[d].s] /\ accepts'[cur'[d].s] # 0
    BY <1>0, <1>4, <2>1, <2>2, <2>5 DEF RegisteredWhileOpen, TypeOK, SessionTypeOK
  <2>7. RegisteredWhileOpen'
    BY <1>0, <1>3, <1>4, <2>4, <2>6 DEF RegisteredWhileOpen
  <2>8. QED
    BY <1>2, <2>3, <2>7 DEF Core
<1>7. QED
  BY <1>5, <1>6

(* A handler that ends and leaves m_closed and the map alone.             *)
LEMMA FinishCore ==
  ASSUME TypeOK, Core, SameAccepts,
         UNCHANGED <<owner, accepting, accepts, closes, m_closed, ctx, fault, m_session_map>>,
         app # "down", NEW c \in Ctx, cur[c].kind # "accept", Finish(c)
  PROVE  Core'
<1>0. CallbacksPaired /\ AcceptInv /\ RegisteredWhileOpen /\ OwnerState /\ QuietExitState
  BY DEF Core
<1>1. AcceptInv' /\ OwnerState' /\ QuietExitState'
  BY <1>0, OtherHandlerOwner
<1>2. pc[c] # "append"
  BY <1>0 DEF AcceptInv, HandlerShape
<1>3. /\ \A d \in Ctx : d # c => cur'[d] = cur[d] /\ pc'[d] = pc[d]
      /\ pc'[c] = "idle"
  BY DEF Finish, TypeOK, ThreadTypeOK
<1>4. CallbacksPaired'
  BY <1>0 DEF CallbacksPaired
<1>5. RegisteredWhileOpen'
  BY <1>0, <1>2, <1>3 DEF RegisteredWhileOpen
<1>6. QED
  BY <1>1, <1>4, <1>5 DEF Core

(* Taking a handler from a queue.                                         *)
LEMMA DispatchCore ==
  ASSUME TypeOK, Core, NEW c \in Ctx, Dispatch(c), app # "down"
  PROVE  Core'
<1>0. CallbacksPaired /\ AcceptInv /\ RegisteredWhileOpen /\ OwnerState /\ QuietExitState
  BY DEF Core
<1>1. queue[c] \in Seq(Handler) /\ queue[c] # <<>> /\ cur[c] = NoHandler /\ pc[c] = "idle"
  BY DEF Dispatch, TypeOK, ThreadTypeOK
<1>2. /\ 1 \in DOMAIN queue[c] /\ cur'[c] = queue[c][1] /\ pc'[c] = "begin"
      /\ \A i \in DOMAIN queue'[c] : i + 1 \in DOMAIN queue[c] /\ queue'[c][i] = queue[c][i + 1]
      /\ DOMAIN queue'[c] \subseteq Nat
  <2>1. queue'[c] = Tail(queue[c]) /\ cur'[c] = Head(queue[c]) /\ pc'[c] = "begin"
    BY DEF Dispatch, TypeOK, ThreadTypeOK
  <2>2. QED
    BY <1>1, <2>1
<1>3. \A d \in Ctx : d # c => cur'[d] = cur[d] /\ pc'[d] = pc[d] /\ queue'[d] = queue[d]
  BY DEF Dispatch, TypeOK, ThreadTypeOK
<1>4. HandlerShape'
  BY <1>0, <1>2, <1>3 DEF AcceptInv, HandlerShape
<1>5. ASSUME c = AcceptCtx PROVE AcceptInv' /\ QuietExitState'
  <2>1. ~AcceptRunning
    BY <1>1, <1>5 DEF AcceptRunning, NoHandler
  <2>2. AcceptQueued' => AcceptQueued
    BY <1>2, <1>5 DEF AcceptQueued
  <2>3. AcceptRunning' => AcceptQueued /\ ~AcceptQueued'
    <3>1. ASSUME AcceptRunning' PROVE AcceptQueued
      BY <1>2, <1>5, <3>1 DEF AcceptRunning, AcceptQueued
    <3>2. ASSUME AcceptRunning', NEW i \in DOMAIN queue'[c], queue'[c][i].kind = "accept"
          PROVE  FALSE
      <4>1. i + 1 = 1
        BY <1>0, <1>2, <1>5, <3>2 DEF AcceptInv, OneAccept, AcceptRunning
      <4>2. i \in Nat /\ i \in DOMAIN queue'[c] /\ DOMAIN queue'[c] = 1..Len(queue'[c])
        BY <1>1, <1>2, <3>2 DEF Dispatch, TypeOK, ThreadTypeOK
      <4>3. QED
        BY <4>1, <4>2
    <3>3. QED
      BY <1>5, <3>1, <3>2 DEF AcceptQueued
  <2>4. OneAccept'
    <3>1. accepting' = accepting
      BY DEF Dispatch
    <3>2. \A i, j \in DOMAIN queue'[AcceptCtx] :
            queue'[AcceptCtx][i].kind = "accept" /\ queue'[AcceptCtx][j].kind = "accept" => i = j
      <4> SUFFICES ASSUME NEW i \in DOMAIN queue'[AcceptCtx], NEW j \in DOMAIN queue'[AcceptCtx],
                          queue'[AcceptCtx][i].kind = "accept", queue'[AcceptCtx][j].kind = "accept"
                   PROVE  i = j
        OBVIOUS
      <4>1. i + 1 = j + 1
        BY <1>0, <1>2, <1>5 DEF AcceptInv, OneAccept
      <4>2. i \in Nat /\ j \in Nat
        BY <1>2, <1>5
      <4>3. QED
        BY <4>1, <4>2
    <3>3. QED
      BY <1>0, <2>1, <2>2, <2>3, <3>1, <3>2 DEF AcceptInv, OneAccept
  <2>5. AcceptsFresh'
    <3>1. UNCHANGED <<accepting, accepts, ctx>>
      BY DEF Dispatch, history
    <3>2. QED
      BY <1>0, <1>2, <1>5, <3>1 DEF AcceptInv, AcceptsFresh, AcceptRunning, Unaccepted
  <2>6. AcceptInv'
    BY <1>4, <2>4, <2>5 DEF AcceptInv
  <2>7. NoAcceptInProgress => NoAcceptInProgress'
    BY <1>2, <1>5 DEF NoAcceptInProgress
  <2>8. QuietExitState'
    BY <1>0, <1>2, <1>5, <2>7 DEF QuietExitState, AcceptRunning, Dispatch, owner
  <2>9. QED
    BY <2>6, <2>8
<1>6. ASSUME c # AcceptCtx PROVE AcceptInv' /\ QuietExitState'
  <2>1. UNCHANGED <<accepting, accepts, ctx, owner, fault, m_session_map>>
    BY DEF Dispatch, history
  <2>2. UNCHANGED <<queue[AcceptCtx], cur[AcceptCtx], pc[AcceptCtx]>>
    BY <1>3, <1>6, AcceptCtxType
  <2>3. OneAccept' /\ AcceptsFresh'
    BY <1>0, <2>1, <2>2 DEF AcceptInv, OneAccept, AcceptsFresh, AcceptQueued, AcceptRunning, Unaccepted
  <2>4. QuietExitState'
    BY <1>0, <2>1, <2>2 DEF QuietExitState, AcceptRunning, NoAcceptInProgress, owner
  <2>5. QED
    BY <1>4, <2>3, <2>4 DEF AcceptInv
<1>7. AcceptInv' /\ QuietExitState'
  BY <1>5, <1>6
<1>8. CallbacksPaired'
  BY <1>0 DEF CallbacksPaired, Dispatch, history
<1>9. RegisteredWhileOpen'
  BY <1>0, <1>1, <1>2, <1>3 DEF RegisteredWhileOpen, Dispatch, history
<1>10. OwnerState'
  BY <1>0 DEF OwnerState, Dispatch, owner
<1>11. QED
  BY <1>7, <1>8, <1>9, <1>10 DEF Core

(* The labels of an accept handler, and that it runs on the first context *)
(* while no accept is pending or queued.                                  *)
LEMMA AcceptAlone ==
  ASSUME AcceptInv, NEW c \in Ctx, cur[c].kind = "accept"
  PROVE  c = AcceptCtx /\ AcceptRunning /\ ~AcceptQueued /\ accepting = None
BY DEF AcceptInv, HandlerShape, OneAccept, AcceptRunning

(* The steps of the accept handler.                                       *)
LEMMA AcceptHandlerCore ==
  ASSUME TypeOK, Core, NEW c \in Ctx, app # "down", fault = "none",
         \/ AcceptFailed(c) \/ OnAccept(c) \/ AppendSession(c) \/ StartSession(c)
         \/ RearmAccept(c) \/ ListenAgain(c)
  PROVE  Core'
<1>0. CallbacksPaired /\ AcceptInv /\ RegisteredWhileOpen /\ OwnerState /\ QuietExitState
  BY DEF Core
<1>1. pc[c] \in {"begin", "append", "read", "rearm", "listen"} /\ cur[c].kind = "accept"
  BY <1>0 DEF AcceptFailed, OnAccept, AppendSession, StartSession, RearmAccept,
     ListenAgain, AcceptInv, HandlerShape
<1>2. /\ c = AcceptCtx /\ AcceptRunning /\ ~AcceptQueued /\ accepting = None
      /\ cur[c] \in Handler /\ cur[c].s \in Sessions
  BY <1>0, <1>1, AcceptAlone, BusyHandler DEF TypeOK, Handler
<1>3. app \in {"up", "sweep", "drain", "stop", "join"} \/ ~QuietExit
  <2> SUFFICES ASSUME QuietExit, app = "reset" PROVE FALSE
    BY DEF TypeOK, OwnerTypeOK, Phase
  <2>1. NoAcceptInProgress
    BY <1>0 DEF QuietExitState
  <2>2. QED
    BY <1>2, <2>1 DEF NoAcceptInProgress, AcceptRunning
<1>4. CASE AcceptFailed(c)
  <2>1. /\ pc[c] = "begin" /\ pc' = [pc EXCEPT ![c] = "rearm"]
        /\ UNCHANGED <<cur, owner, accepting, queue, ctx, m_closed, m_session_map,
                       accepts, closes, fault>>
    BY <1>4 DEF AcceptFailed, Goto, history
  <2>2. pc'[c] = "rearm" /\ \A d \in Ctx : d # c => pc'[d] = pc[d]
    BY <2>1 DEF TypeOK, ThreadTypeOK
  <2>3. AcceptInv'
    BY <1>0, <1>1, <1>2, <2>1, <2>2 DEF AcceptInv, HandlerShape, OneAccept, AcceptsFresh,
       AcceptQueued, AcceptRunning, Unaccepted
  <2>4. CallbacksPaired' /\ OwnerState'
    BY <1>0, <2>1 DEF CallbacksPaired, OwnerState, owner
  <2>5. RegisteredWhileOpen'
    BY <1>0, <2>1, <2>2 DEF RegisteredWhileOpen
  <2>6. QuietExitState'
    BY <1>0, <1>2, <1>3, <2>1, <2>2 DEF QuietExitState, AcceptRunning, NoAcceptInProgress, owner
  <2>7. QED
    BY <2>3, <2>4, <2>5, <2>6 DEF Core
<1>5. CASE OnAccept(c)
  <2> DEFINE s == cur[c].s
  <2>1. /\ pc[c] = "begin" /\ pc' = [pc EXCEPT ![c] = "append"] /\ cur[c].res = "ok"
        /\ m_closed[s]
        /\ m_closed' = [m_closed EXCEPT ![s] = FALSE]
        /\ accepts' = [accepts EXCEPT ![s] = accepts[s] + 1]
        /\ UNCHANGED <<cur, owner, accepting, queue, ctx, m_session_map, closes, fault>>
    BY <1>5 DEF OnAccept, Goto
  <2>2. pc'[c] = "append" /\ \A d \in Ctx : d # c => pc'[d] = pc[d]
    BY <2>1 DEF TypeOK, ThreadTypeOK
  <2>3. accepts[s] = 0 /\ ctx[s] # 0
    BY <1>0, <1>2, <2>1 DEF AcceptInv, AcceptsFresh, Unaccepted
  <2>4. accepts'[s] = 1 /\ \A r \in Sessions : r # s => accepts'[r] = accepts[r] /\ m_closed'[r] = m_closed[r]
    BY <2>1, <2>3, <1>2 DEF TypeOK, SessionTypeOK
  <2>5. CallbacksPaired'
    <3>1. accepts'[s] = 1 /\ closes'[s] = 0 /\ ~m_closed'[s]
      BY <1>0, <1>2, <2>1, <2>3, <2>4 DEF CallbacksPaired, TypeOK, SessionTypeOK
    <3>2. QED
      BY <1>0, <2>1, <2>4, <3>1 DEF CallbacksPaired
  <2>6. HandlerShape' /\ OneAccept'
    BY <1>0, <1>1, <1>2, <2>1, <2>2 DEF AcceptInv, HandlerShape, OneAccept, AcceptQueued, AcceptRunning
  <2>7. AcceptsFresh'
    BY <1>0, <1>2, <2>1, <2>2, <2>3, <2>4 DEF AcceptInv, AcceptsFresh, AcceptQueued, AcceptRunning, Unaccepted
  <2>8. OwnerState'
    BY <1>0, <2>1 DEF OwnerState, owner
  <2>9. \A d \in Ctx : pc[d] = "remove" => cur[d].s \in Sessions /\ cur[d].s # s
    BY <1>0, <2>3, BusyHandler DEF RegisteredWhileOpen, TypeOK, Handler
  <2>10. RegisteredWhileOpen'
    <3>1. \A r \in Sessions : ~m_closed'[r] =>
            r \in m_session_map' \/ \E d \in Ctx : pc'[d] = "append" /\ cur'[d].s = r
      BY <1>0, <2>1, <2>2, <2>4 DEF RegisteredWhileOpen
    <3>2. \A d \in Ctx : pc'[d] = "remove" => m_closed'[cur'[d].s] /\ accepts'[cur'[d].s] # 0
      BY <1>0, <2>1, <2>2, <2>4, <2>9 DEF RegisteredWhileOpen
    <3>3. QED
      BY <3>1, <3>2 DEF RegisteredWhileOpen
  <2>11. QuietExitState'
    BY <1>0, <1>2, <1>3, <2>1, <2>2 DEF QuietExitState, AcceptRunning, NoAcceptInProgress, owner
  <2>12. QED
    BY <2>5, <2>6, <2>7, <2>8, <2>10, <2>11 DEF Core, AcceptInv
<1>6. CASE AppendSession(c)
  <2>1. /\ pc[c] = "append" /\ pc' = [pc EXCEPT ![c] = "read"]
        /\ m_session_map' = m_session_map \cup {cur[c].s}
        /\ UNCHANGED <<cur, owner, accepting, queue, ctx, m_closed, accepts, closes, fault>>
    BY <1>6 DEF AppendSession, Goto, history
  <2>2. pc'[c] = "read" /\ \A d \in Ctx : d # c => pc'[d] = pc[d]
    BY <2>1 DEF TypeOK, ThreadTypeOK
  <2>3. AcceptInv'
    BY <1>0, <1>1, <1>2, <2>1, <2>2 DEF AcceptInv, HandlerShape, OneAccept, AcceptsFresh,
       AcceptQueued, AcceptRunning, Unaccepted
  <2>4. CallbacksPaired' /\ OwnerState'
    BY <1>0, <2>1 DEF CallbacksPaired, OwnerState, owner
  <2>5. RegisteredWhileOpen'
    BY <1>0, <2>1, <2>2 DEF RegisteredWhileOpen
  <2>6. QuietExitState'
    BY <1>0, <1>2, <1>3, <2>1, <2>2 DEF QuietExitState, AcceptRunning, NoAcceptInProgress, owner
  <2>7. QED
    BY <2>3, <2>4, <2>5, <2>6 DEF Core
<1>7. CASE StartSession(c)
  <2>1. /\ pc[c] = "read" /\ pc' = [pc EXCEPT ![c] = "rearm"]
        /\ StartRead(cur[c].s, "head")
        /\ UNCHANGED <<cur, owner, accepting, ctx, m_closed, m_session_map, accepts, closes, fault>>
    BY <1>7 DEF StartSession, Goto, history
  <2>2. pc'[c] = "rearm" /\ \A d \in Ctx : d # c => pc'[d] = pc[d]
    BY <2>1 DEF TypeOK, ThreadTypeOK
  <2>3. SameAccepts
    BY <1>2, <2>1, StartReadSameAccepts
  <2>4. ~AcceptQueued'
    BY <1>2, <2>3, AcceptCtxType DEF AcceptQueued, SameAccepts
  <2>5. AcceptInv'
    <3>1. HandlerShape'
      BY <1>0, <1>1, <1>2, <2>1, <2>2, <2>3 DEF AcceptInv, HandlerShape, SameAccepts
    <3>2. OneAccept' /\ AcceptsFresh'
      BY <1>0, <1>2, <2>1, <2>2, <2>4 DEF AcceptInv, OneAccept, AcceptsFresh, AcceptQueued,
         AcceptRunning, Unaccepted
    <3>3. QED
      BY <3>1, <3>2 DEF AcceptInv
  <2>6. CallbacksPaired' /\ OwnerState'
    BY <1>0, <2>1 DEF CallbacksPaired, OwnerState, owner
  <2>7. RegisteredWhileOpen'
    BY <1>0, <2>1, <2>2 DEF RegisteredWhileOpen
  <2>8. QuietExitState'
    BY <1>0, <1>2, <1>3, <2>1, <2>2, <2>4 DEF QuietExitState, AcceptRunning, AcceptQueued,
       NoAcceptInProgress, owner
  <2>9. QED
    BY <2>5, <2>6, <2>7, <2>8 DEF Core
<1>8. CASE RearmAccept(c)
  <2>1. /\ pc[c] = "rearm"
        /\ UNCHANGED <<app, m_acceptor, accepting, queue, m_closed, m_session_map, accepts, closes, fault>>
    BY <1>8 DEF RearmAccept, history
  <2>2. CallbacksPaired' /\ OwnerState'
    BY <1>0, <2>1 DEF CallbacksPaired, OwnerState
  <2>3. CASE Finish(c) /\ UNCHANGED <<ctx, m_io_context_iter>>
    <3>1. /\ pc'[c] = "idle" /\ cur'[c] = NoHandler
          /\ \A d \in Ctx : d # c => pc'[d] = pc[d] /\ cur'[d] = cur[d]
      BY <2>3 DEF Finish, TypeOK, ThreadTypeOK
    <3>2. ~AcceptRunning'
      BY <1>2, <3>1 DEF AcceptRunning, NoHandler
    <3>3. AcceptInv'
      BY <1>0, <1>2, <2>1, <2>3, <3>1, <3>2 DEF AcceptInv, HandlerShape, OneAccept, AcceptsFresh,
         AcceptQueued, AcceptRunning, Unaccepted
    <3>4. RegisteredWhileOpen'
      BY <1>0, <2>1, <3>1 DEF RegisteredWhileOpen
    <3>5. QuietExitState'
      BY <1>0, <1>2, <1>3, <2>1, <3>1, <3>2 DEF QuietExitState, AcceptRunning, NoAcceptInProgress
    <3>6. QED
      BY <2>2, <3>3, <3>4, <3>5 DEF Core
  <2>4. CASE /\ m_acceptor /\ Fresh # {}
             /\ ctx' = [ctx EXCEPT ![NewSession] = NextCtx]
             /\ cur' = [cur EXCEPT ![c].s = NewSession]
             /\ pc' = [pc EXCEPT ![c] = "listen"]
    <3>1. /\ NewSession \in Sessions /\ ctx[NewSession] = 0 /\ accepts[NewSession] = 0
          /\ NextCtx \in Ctx /\ NextCtx # 0
      BY <1>0, <2>4, NewSessionType, NextCtxType DEF AcceptInv, AcceptsFresh, TypeOK, Ctx
    <3>2. /\ pc'[c] = "listen" /\ cur'[c].s = NewSession /\ cur'[c].kind = "accept"
          /\ \A d \in Ctx : d # c => pc'[d] = pc[d] /\ cur'[d] = cur[d]
      BY <1>1, <1>2, <2>4 DEF TypeOK, ThreadTypeOK, Handler
    <3>3. ctx'[NewSession] # 0 /\ \A r \in Sessions : ctx'[r] = 0 => ctx[r] = 0
      BY <2>4, <3>1 DEF TypeOK, SessionTypeOK
    <3>4. AcceptInv'
      BY <1>0, <1>2, <2>1, <3>1, <3>2, <3>3 DEF AcceptInv, HandlerShape, OneAccept, AcceptsFresh,
         AcceptQueued, AcceptRunning, Unaccepted
    <3>5. RegisteredWhileOpen'
      BY <1>0, <2>1, <3>2 DEF RegisteredWhileOpen
    <3>6. app = "up" \/ ~QuietExit
      BY <1>0, <1>3, <2>4 DEF OwnerState
    <3>7. QuietExitState'
      BY <1>0, <2>1, <3>6 DEF QuietExitState
    <3>8. QED
      BY <2>2, <3>4, <3>5, <3>7 DEF Core
  <2>5. QED
    BY <1>8, <2>3, <2>4 DEF RearmAccept
<1>9. CASE ListenAgain(c)
  <2>1. /\ pc[c] = "listen" /\ Finish(c)
        /\ IF m_acceptor THEN accepting' = cur[c].s /\ UNCHANGED fault
                         ELSE fault' = "null_acceptor" /\ UNCHANGED accepting
        /\ UNCHANGED <<owner, queue, ctx, m_closed, m_session_map, accepts, closes>>
    BY <1>9 DEF ListenAgain, history
  <2>2. /\ pc'[c] = "idle" /\ cur'[c] = NoHandler
        /\ \A d \in Ctx : d # c => pc'[d] = pc[d] /\ cur'[d] = cur[d]
    BY <2>1 DEF Finish, TypeOK, ThreadTypeOK
  <2>3. ~AcceptRunning' /\ ~AcceptQueued'
    BY <1>2, <2>1, <2>2 DEF AcceptRunning, AcceptQueued, NoHandler
  <2>4. Unaccepted(cur[c].s)
    BY <1>0, <1>2, <2>1 DEF AcceptInv, AcceptsFresh
  <2>5. HandlerShape'
    BY <1>0, <2>1, <2>2 DEF AcceptInv, HandlerShape, NoHandler
  <2>6. OneAccept'
    BY <1>0, <1>2, <2>1, <2>3 DEF AcceptInv, OneAccept, AcceptQueued
  <2>7. AcceptsFresh'
    BY <1>0, <1>2, <2>1, <2>3, <2>4 DEF AcceptInv, AcceptsFresh, AcceptQueued, AcceptRunning, Unaccepted
  <2>8. CallbacksPaired' /\ OwnerState'
    BY <1>0, <2>1 DEF CallbacksPaired, OwnerState, owner
  <2>9. RegisteredWhileOpen'
    BY <1>0, <2>1, <2>2 DEF RegisteredWhileOpen
  <2>10. QuietExit => app = "up" /\ m_acceptor
    BY <1>0, <1>2, <2>1 DEF QuietExitState, OwnerState
  <2>11. QuietExitState'
    BY <1>0, <2>1, <2>10 DEF QuietExitState, owner
  <2>12. QED
    BY <2>5, <2>6, <2>7, <2>8, <2>9, <2>11 DEF Core, AcceptInv
<1>10. QED
  BY <1>4, <1>5, <1>6, <1>7, <1>8, <1>9

(* Every step of a thread.                                                *)
LEMMA ThreadStepCore ==
  ASSUME TypeOK, Core, NEW c \in Ctx, ThreadStep(c)
  PROVE  Core'
<1>0. CallbacksPaired /\ AcceptInv /\ RegisteredWhileOpen /\ OwnerState /\ QuietExitState
  BY DEF Core
<1>1. app # "down" /\ fault = "none"
  BY <1>0, DownIsIdle
<1>2. CASE Dispatch(c)
  BY <1>1, <1>2, DispatchCore
<1>3. CASE \/ AcceptFailed(c) \/ OnAccept(c) \/ AppendSession(c) \/ StartSession(c)
           \/ RearmAccept(c) \/ ListenAgain(c)
  BY <1>1, <1>3, AcceptHandlerCore
<1>4. CASE HandleClose(c)
  <2>1. pc[c] # "idle" /\ cur[c].kind # "accept" /\ OnClose(c, cur[c].s) /\ CloseSocket(cur[c].s)
    BY <1>4 DEF HandleClose
  <2>2. SameAccepts
    BY <2>1, BusyHandler, CloseSocketSameAccepts DEF TypeOK, Handler
  <2>3. UNCHANGED <<owner, accepting, accepts, ctx, fault, m_session_map>>
    BY <1>4 DEF HandleClose
  <2>4. QED
    BY <1>1, <2>1, <2>2, <2>3, OnCloseCore
<1>5. CASE ReadFailed(c)
  <2>1. pc[c] # "idle" /\ cur[c].kind # "accept" /\ OnClose(c, cur[c].s)
    BY <1>5 DEF ReadFailed
  <2>2. SameAccepts
    BY <1>5 DEF ReadFailed, SameAccepts
  <2>3. UNCHANGED <<owner, accepting, accepts, ctx, fault, m_session_map>>
    BY <1>5 DEF ReadFailed
  <2>4. QED
    BY <1>1, <2>1, <2>2, <2>3, OnCloseCore
<1>6. CASE HeadBad(c)
  <2>1. pc[c] # "idle" /\ cur[c].kind # "accept" /\ Finish(c)
    BY <1>6 DEF HeadBad
  <2>2. cur[c].s \in Sessions
    BY <2>1, BusyHandler DEF TypeOK, Handler
  <2>3. Ready("close", cur[c].s, "ok") \in Handler /\ Ready("close", cur[c].s, "ok").kind # "accept"
    BY <2>2 DEF Ready, Handler, Outcome
  <2>4. SameAccepts
    BY <1>6, <2>3, PostSameAccepts DEF HeadBad, TypeOK
  <2>5. UNCHANGED <<owner, accepting, accepts, closes, m_closed, ctx, fault, m_session_map>>
    BY <1>6 DEF HeadBad
  <2>6. QED
    BY <1>1, <2>1, <2>4, <2>5, FinishCore
<1>7. CASE HeadRead(c)
  <2> DEFINE kind == IF cur[c].res = "ok" THEN "body" ELSE "head"
  <2>1. pc[c] # "idle" /\ cur[c].kind # "accept" /\ Finish(c) /\ StartRead(cur[c].s, kind)
    BY <1>7 DEF HeadRead
  <2>2. cur[c].s \in Sessions /\ kind \in {"head", "body"}
    BY <2>1, BusyHandler DEF TypeOK, Handler
  <2> HIDE DEF kind
  <2>3. SameAccepts
    BY <2>1, <2>2, StartReadSameAccepts
  <2>4. UNCHANGED <<owner, accepting, accepts, closes, m_closed, ctx, fault, m_session_map>>
    BY <1>7 DEF HeadRead, history
  <2>5. QED
    BY <1>1, <2>1, <2>3, <2>4, FinishCore
<1>8. CASE BodyRead(c)
  <2>1. pc[c] # "idle" /\ cur[c].kind # "accept" /\ Finish(c) /\ StartRead(cur[c].s, "head")
    BY <1>8 DEF BodyRead
  <2>2. cur[c].s \in Sessions
    BY <2>1, BusyHandler DEF TypeOK, Handler
  <2>3. SameAccepts
    BY <2>1, <2>2, StartReadSameAccepts
  <2>4. UNCHANGED <<owner, accepting, accepts, closes, m_closed, ctx, fault, m_session_map>>
    BY <1>8 DEF BodyRead
  <2>5. QED
    BY <1>1, <2>1, <2>3, <2>4, FinishCore
<1>9. CASE RemoveSession(c)
  <2> DEFINE s == cur[c].s
  <2>1. /\ pc[c] = "remove" /\ cur[c].kind # "accept" /\ Finish(c)
        /\ m_session_map' = m_session_map \ {s}
        /\ UNCHANGED <<owner, accepting, queue, accepts, closes, m_closed, ctx, fault>>
    BY <1>0, <1>9 DEF RemoveSession, history, AcceptInv, HandlerShape
  <2>2. SameAccepts
    BY <2>1 DEF SameAccepts
  <2>3. AcceptInv' /\ OwnerState' /\ QuietExitState'
    BY <1>0, <1>1, <2>1, <2>2, OtherHandlerOwner
  <2>4. CallbacksPaired'
    BY <1>0, <2>1 DEF CallbacksPaired
  <2>5. /\ pc'[c] = "idle"
        /\ \A d \in Ctx : d # c => pc'[d] = pc[d] /\ cur'[d] = cur[d]
    BY <2>1 DEF Finish, TypeOK, ThreadTypeOK
  <2>6. m_closed[s]
    BY <1>0, <2>1 DEF RegisteredWhileOpen
  <2>7. RegisteredWhileOpen'
    BY <1>0, <2>1, <2>5, <2>6 DEF RegisteredWhileOpen
  <2>8. QED
    BY <2>3, <2>4, <2>7 DEF Core
<1>10. QED
  BY <1>2, <1>3, <1>4, <1>5, <1>6, <1>7, <1>8, <1>9 DEF ThreadStep, HandlerStep

(* Users, clients and the network.                                        *)
LEMMA WorldCore == TypeOK /\ Core /\ World => Core'
<1> SUFFICES ASSUME TypeOK, Core, World PROVE Core'
  OBVIOUS
<1>0. CallbacksPaired /\ AcceptInv /\ RegisteredWhileOpen /\ OwnerState /\ QuietExitState /\ fault = "none"
  BY DEF Core, World
<1>1. ASSUME app # "down", SameAccepts,
             UNCHANGED <<owner, accepting, cur, pc, ctx, m_closed, m_session_map, history, fault>>
      PROVE  Core'
  <2>1. AcceptInv'
    BY <1>0, <1>1, SameAcceptsInv DEF history
  <2>2. CallbacksPaired' /\ RegisteredWhileOpen' /\ OwnerState'
    BY <1>0, <1>1 DEF CallbacksPaired, RegisteredWhileOpen, OwnerState, history, owner
  <2>3. NoAcceptInProgress => NoAcceptInProgress'
    BY <1>1, AcceptCtxType DEF NoAcceptInProgress, SameAccepts
  <2>4. QuietExitState'
    BY <1>0, <1>1, <2>3, AcceptCtxType DEF QuietExitState, SameAccepts, AcceptRunning, owner
  <2>5. QED
    BY <2>1, <2>2, <2>4 DEF Core
<1>2. ASSUME NEW s \in Sessions, UserClose(s) PROVE Core'
  <2>1. app # "down"
    BY <1>0, <1>2 DEF UserClose, OwnerState
  <2>2. Ready("close", s, "ok") \in Handler /\ Ready("close", s, "ok").kind # "accept"
    BY DEF Ready, Handler, Outcome
  <2>3. SameAccepts
    BY <1>2, <2>2, PostSameAccepts DEF UserClose, TypeOK
  <2>4. UNCHANGED <<owner, accepting, cur, pc, ctx, m_closed, m_session_map, history, fault>>
    BY <1>2 DEF UserClose
  <2>5. QED
    BY <1>1, <2>1, <2>3, <2>4
<1>3. ASSUME NEW s \in Sessions, NEW res \in ReadOutcomes, ReadCompletes(s, res) PROVE Core'
  <2>1. app # "down"
    BY <1>0, <1>3 DEF ReadCompletes, OwnerState
  <2>2. reading[s] \in {"head", "body"} /\ res \in Outcome
    BY <1>3, OutcomeAssumption DEF ReadCompletes, TypeOK, SessionTypeOK
  <2>3. Ready(reading[s], s, res) \in Handler /\ Ready(reading[s], s, res).kind # "accept"
    <3>1. Ready(reading[s], s, res) \in Handler
      BY <2>2, ReadyType
    <3>2. QED
      BY <2>2, <3>1 DEF Ready
  <2>4. SameAccepts
    BY <1>3, <2>3, PostSameAccepts DEF ReadCompletes, TypeOK
  <2>5. UNCHANGED <<owner, accepting, cur, pc, ctx, m_closed, m_session_map, history, fault>>
    BY <1>3 DEF ReadCompletes
  <2>6. QED
    BY <1>1, <2>1, <2>4, <2>5
<1>4. ASSUME NEW res \in {"ok", "err"}, AcceptCompletes(res) PROVE Core'
  <2> DEFINE h == Ready("accept", accepting, res)
  <2>1. /\ accepting # None /\ accepting \in Sessions /\ Unaccepted(accepting)
        /\ ~AcceptQueued /\ ~AcceptRunning
        /\ accepting' = None /\ queue' = Post(queue, AcceptCtx, h)
        /\ UNCHANGED <<owner, cur, pc, ctx, m_closed, m_session_map, history, fault>>
    BY <1>0, <1>4 DEF AcceptCompletes, AcceptInv, OneAccept, AcceptsFresh, TypeOK, OwnerTypeOK
  <2>2. app \in {"up", "reset"} /\ (QuietExit => app = "up")
    BY <1>0, <1>4, <2>1 DEF AcceptCompletes, OwnerState
  <2>3. queue[AcceptCtx] \in Seq(Handler) /\ queue'[AcceptCtx] = Append(queue[AcceptCtx], h)
    BY <2>1, AcceptCtxType DEF Post, TypeOK, ThreadTypeOK
  <2>4. \A i \in DOMAIN queue'[AcceptCtx] :
           \/ i \in DOMAIN queue[AcceptCtx] /\ queue'[AcceptCtx][i] = queue[AcceptCtx][i]
           \/ i = Len(queue[AcceptCtx]) + 1 /\ queue'[AcceptCtx][i] = h
    BY <2>3
  <2>5. \A i \in DOMAIN queue'[AcceptCtx] :
           queue'[AcceptCtx][i].kind = "accept" =>
             i = Len(queue[AcceptCtx]) + 1 /\ queue'[AcceptCtx][i].s = accepting
    BY <2>1, <2>4 DEF AcceptQueued, Ready
  <2>6. \A d \in Ctx : d # AcceptCtx => queue'[d] = queue[d]
    BY <2>1, AcceptCtxType DEF Post, TypeOK, ThreadTypeOK
  <2>7. HandlerShape'
    BY <1>0, <2>1, <2>6 DEF AcceptInv, HandlerShape
  <2>8. OneAccept'
    BY <2>1, <2>5 DEF OneAccept, AcceptRunning
  <2>9. AcceptsFresh'
    BY <1>0, <2>1, <2>5 DEF AcceptInv, AcceptsFresh, AcceptRunning, Unaccepted, history
  <2>10. CallbacksPaired' /\ RegisteredWhileOpen' /\ OwnerState'
    BY <1>0, <2>1, <2>2 DEF CallbacksPaired, RegisteredWhileOpen, OwnerState, history, owner
  <2>11. QuietExitState'
    BY <1>0, <2>1, <2>2 DEF QuietExitState, owner
  <2>12. QED
    BY <2>7, <2>8, <2>9, <2>10, <2>11 DEF Core, AcceptInv
<1>5. QED
  BY <1>2, <1>3, <1>4 DEF World

(* The owner's thread.                                                    *)
LEMMA OwnerStepCore == TypeOK /\ Core /\ OwnerStep => Core'
<1> SUFFICES ASSUME TypeOK, Core, OwnerStep PROVE Core'
  OBVIOUS
<1>0. /\ CallbacksPaired /\ AcceptInv /\ RegisteredWhileOpen /\ OwnerState /\ QuietExitState
      /\ fault = "none" /\ AcceptCtx \in Ctx
  BY AcceptCtxType DEF Core, OwnerStep
<1>1. ASSUME UNCHANGED <<accepting, queue, cur, pc, ctx, m_closed, socket, m_session_map, history, fault>>
      PROVE  AcceptInv' /\ CallbacksPaired' /\ RegisteredWhileOpen'
  <2>1. SameAccepts
    BY <1>1 DEF SameAccepts
  <2>2. AcceptInv'
    BY <1>0, <1>1, <2>1, SameAcceptsInv DEF history
  <2>3. QED
    BY <1>0, <1>1, <2>2 DEF CallbacksPaired, RegisteredWhileOpen, history
<1>2. CASE InitServer
  <2>1. /\ app = "down" /\ app' = "up" /\ m_acceptor' = TRUE
        /\ UNCHANGED <<queue, cur, pc, m_closed, m_session_map, accepts, closes, fault>>
        /\ \/ UNCHANGED <<accepting, ctx>>
           \/ /\ Fresh # {} /\ accepting' = NewSession
              /\ \E d \in 1..2 : ctx' = [ctx EXCEPT ![NewSession] = d]
    BY <1>2 DEF InitServer, threads, history
  <2>2. \A d \in Ctx : queue[d] = <<>> /\ pc[d] = "idle" /\ cur[d] = NoHandler
    BY <1>0, <2>1 DEF OwnerState, TypeOK, ThreadTypeOK
  <2>3. ~AcceptQueued' /\ ~AcceptRunning' /\ accepting = None
    BY <1>0, <2>1, <2>2 DEF AcceptQueued, AcceptRunning, NoHandler, OwnerState
  <2>4. HandlerShape' /\ OneAccept'
    BY <1>0, <2>1, <2>2, <2>3 DEF HandlerShape, OneAccept, AcceptQueued, NoHandler
  <2>5. AcceptsFresh'
    <3>1. CASE UNCHANGED <<accepting, ctx>>
      BY <1>0, <2>1, <2>3, <3>1 DEF AcceptInv, AcceptsFresh, AcceptQueued, Unaccepted
    <3>2. CASE Fresh # {} /\ accepting' = NewSession /\ \E d \in 1..2 : ctx' = [ctx EXCEPT ![NewSession] = d]
      <4>1. NewSession \in Sessions /\ ctx[NewSession] = 0 /\ accepts[NewSession] = 0
        BY <1>0, <3>2, NewSessionType DEF AcceptInv, AcceptsFresh
      <4>2. ctx'[NewSession] # 0 /\ \A r \in Sessions : ctx'[r] = 0 => ctx[r] = 0
        BY <3>2, <4>1 DEF TypeOK, SessionTypeOK
      <4>3. QED
        BY <1>0, <2>1, <2>3, <3>2, <4>1, <4>2 DEF AcceptInv, AcceptsFresh, AcceptQueued, Unaccepted
    <3>3. QED
      BY <2>1, <3>1, <3>2
  <2>6. CallbacksPaired' /\ RegisteredWhileOpen' /\ OwnerState' /\ QuietExitState'
    BY <1>0, <2>1 DEF CallbacksPaired, RegisteredWhileOpen, OwnerState, QuietExitState
  <2>7. QED
    BY <2>4, <2>5, <2>6 DEF Core, AcceptInv
<1>3. CASE InitServerFails
  <2>1. /\ app = "down" /\ app' = "reset"
        /\ UNCHANGED <<m_acceptor, accepting, queue, cur, pc, ctx, m_closed, socket, m_session_map, history, fault>>
    BY <1>3 DEF InitServerFails, threads
  <2>2. \A d \in Ctx : queue[d] = <<>> /\ pc[d] = "idle" /\ cur[d] = NoHandler
    BY <1>0, <2>1 DEF OwnerState, TypeOK, ThreadTypeOK
  <2>3. NoAcceptInProgress'
    BY <1>0, <2>1, <2>2 DEF NoAcceptInProgress, NoHandler
  <2>4. OwnerState' /\ QuietExitState'
    BY <1>0, <2>1, <2>2, <2>3 DEF OwnerState, QuietExitState, AcceptRunning
  <2>5. QED
    BY <1>1, <2>1, <2>4 DEF Core
<1>4. CASE BeginExit
  <2>1. /\ app = "up" /\ app' = "reset" /\ (QuietExit => NoAcceptInProgress)
        /\ UNCHANGED <<m_acceptor, accepting, queue, cur, pc, ctx, m_closed, socket, m_session_map, history, fault>>
    BY <1>4 DEF BeginExit, threads
  <2>2. NoAcceptInProgress => NoAcceptInProgress' /\ pc'[AcceptCtx] \notin {"append", "read", "listen"}
    BY <1>0, <2>1 DEF NoAcceptInProgress, AcceptInv, HandlerShape
  <2>3. OwnerState' /\ QuietExitState'
    BY <1>0, <2>1, <2>2 DEF OwnerState, QuietExitState, AcceptRunning, NoAcceptInProgress
  <2>4. QED
    BY <1>1, <2>1, <2>3 DEF Core
<1>5. CASE ResetAcceptor
  <2> DEFINE h == Ready("accept", accepting, "err")
  <2>1. /\ app = "reset" /\ app' = "sweep" /\ m_acceptor' = FALSE /\ accepting' = None
        /\ UNCHANGED <<cur, pc, ctx, m_closed, m_session_map, accepts, closes, fault>>
        /\ queue' = IF accepting = None THEN queue ELSE Post(queue, AcceptCtx, h)
    BY <1>5 DEF ResetAcceptor, history
  <2>2. CallbacksPaired' /\ RegisteredWhileOpen' /\ OwnerState'
    BY <1>0, <2>1 DEF CallbacksPaired, RegisteredWhileOpen, OwnerState
  <2>3. CASE accepting = None
    <3>1. SameAccepts
      BY <2>1, <2>3 DEF SameAccepts
    <3>2. AcceptInv'
      BY <1>0, <2>1, <2>3, <3>1, SameAcceptsInv
    <3>3. QuietExitState'
      BY <1>0, <2>1, <2>3 DEF QuietExitState, AcceptRunning, AcceptInv, HandlerShape, NoAcceptInProgress
    <3>4. QED
      BY <2>2, <3>2, <3>3 DEF Core
  <2>4. CASE accepting # None
    <3>1. accepting \in Sessions /\ Unaccepted(accepting) /\ ~AcceptQueued /\ ~AcceptRunning
      BY <1>0, <2>4 DEF AcceptInv, OneAccept, AcceptsFresh, TypeOK, OwnerTypeOK
    <3>2. queue[AcceptCtx] \in Seq(Handler) /\ queue'[AcceptCtx] = Append(queue[AcceptCtx], h)
      BY <1>0, <2>1, <2>4 DEF Post, TypeOK, ThreadTypeOK
    <3>3. \A i \in DOMAIN queue'[AcceptCtx] :
             \/ i \in DOMAIN queue[AcceptCtx] /\ queue'[AcceptCtx][i] = queue[AcceptCtx][i]
             \/ i = Len(queue[AcceptCtx]) + 1 /\ queue'[AcceptCtx][i] = h
      BY <3>2
    <3>4. \A i \in DOMAIN queue'[AcceptCtx] :
             queue'[AcceptCtx][i].kind = "accept" =>
               /\ i = Len(queue[AcceptCtx]) + 1 /\ queue'[AcceptCtx][i].s = accepting
               /\ queue'[AcceptCtx][i].res = "err"
      BY <3>1, <3>3 DEF AcceptQueued, Ready
    <3>5. \A d \in Ctx : d # AcceptCtx => queue'[d] = queue[d]
      BY <2>1, <2>4 DEF Post, TypeOK, ThreadTypeOK
    <3>6. HandlerShape'
      BY <1>0, <2>1, <3>5 DEF AcceptInv, HandlerShape
    <3>7. OneAccept'
      BY <2>1, <3>1, <3>4 DEF OneAccept, AcceptRunning
    <3>8. AcceptsFresh'
      BY <1>0, <2>1, <3>1, <3>4 DEF AcceptInv, AcceptsFresh, AcceptRunning, Unaccepted
    <3>9. QuietExitState'
      BY <1>0, <2>1, <3>1, <3>4 DEF QuietExitState, AcceptRunning, AcceptInv, HandlerShape
    <3>10. QED
      BY <2>2, <3>6, <3>7, <3>8, <3>9 DEF Core, AcceptInv
  <2>5. QED
    BY <2>3, <2>4
<1>6. CASE SweepSession
  <2>1. PICK s \in m_session_map :
           queue' = IF m_closed[s] THEN queue
                    ELSE Post(queue, ctx[s], Ready("close", s, "ok"))
    BY <1>6 DEF SweepSession
  <2>2. Ready("close", s, "ok") \in Handler /\ Ready("close", s, "ok").kind # "accept"
    BY <2>1 DEF TypeOK, OwnerTypeOK, Ready, Handler, Outcome
  <2>3. SameAccepts
    <3>1. CASE m_closed[s]
      BY <2>1, <3>1 DEF SameAccepts
    <3>2. CASE ~m_closed[s]
      BY <2>1, <2>2, <3>2, PostSameAccepts DEF TypeOK
    <3>3. QED
      BY <3>1, <3>2
  <2>4. /\ app = "sweep" /\ app' = app
        /\ UNCHANGED <<m_acceptor, accepting, cur, pc, ctx, m_closed, m_session_map, accepts, closes, fault>>
    BY <1>6 DEF SweepSession, history
  <2>5. AcceptInv'
    BY <1>0, <2>3, <2>4, SameAcceptsInv
  <2>6. CallbacksPaired' /\ RegisteredWhileOpen' /\ OwnerState'
    BY <1>0, <2>4 DEF CallbacksPaired, RegisteredWhileOpen, OwnerState
  <2>7. QuietExitState'
    BY <1>0, <2>3, <2>4 DEF QuietExitState, SameAccepts, AcceptRunning
  <2>8. QED
    BY <2>5, <2>6, <2>7 DEF Core
<1>7. CASE SweepDone \/ Drained \/ StopContexts
  <2>1. /\ app \in {"sweep", "drain", "stop"} /\ app' \in {"drain", "stop", "join"}
        /\ app = "drain" => m_session_map = {}
        /\ app = "sweep" => app' = "drain"
        /\ UNCHANGED <<m_acceptor, accepting, queue, cur, pc, ctx, m_closed, socket, m_session_map, history, fault>>
    BY <1>7 DEF SweepDone, Drained, StopContexts, threads
  <2>2. OwnerState'
    BY <1>0, <2>1 DEF OwnerState
  <2>3. QuietExitState'
    BY <1>0, <2>1 DEF QuietExitState, AcceptRunning
  <2>4. QED
    BY <1>1, <2>1, <2>2, <2>3 DEF Core
<1>8. CASE JoinAndDestroy
  <2>1. /\ app = "join" /\ app' = "down" /\ \A c \in Ctx : pc[c] = "idle"
        /\ queue' = [c \in Ctx |-> <<>>]
        /\ reading' = [s \in Sessions |-> "none"]
        /\ fault' = (IF \E s \in Sessions : ~m_closed[s] THEN "bad_weak_ptr" ELSE "none")
        /\ UNCHANGED <<m_acceptor, accepting, cur, pc, ctx, m_closed, m_session_map, accepts, closes>>
    BY <1>8 DEF JoinAndDestroy, history
  <2>2. SameAccepts
    BY <2>1 DEF SameAccepts
  <2>3. AcceptInv'
    BY <1>0, <2>1, <2>2, SameAcceptsInv
  <2>4. CallbacksPaired' /\ RegisteredWhileOpen'
    BY <1>0, <2>1 DEF CallbacksPaired, RegisteredWhileOpen
  <2>5. OwnerState'
    BY <1>0, <2>1 DEF OwnerState
  <2>6. QuietExit => \A s \in Sessions : m_closed[s]
    BY <1>0, <2>1 DEF QuietExitState, RegisteredWhileOpen
  <2>7. QuietExitState'
    BY <1>0, <2>1, <2>6 DEF QuietExitState, AcceptRunning
  <2>8. QED
    BY <2>3, <2>4, <2>5, <2>7 DEF Core
<1>9. QED
  BY <1>2, <1>3, <1>4, <1>5, <1>6, <1>7, <1>8 DEF OwnerStep, ExitStep

(* The strengthening is kept by every step.                                *)
LEMMA NextCore == TypeOK /\ Core /\ [Next]_vars => Core'
<1> SUFFICES ASSUME TypeOK, Core, [Next]_vars PROVE Core'
  OBVIOUS
<1>1. CASE OwnerStep
  BY <1>1, OwnerStepCore
<1>2. ASSUME NEW c \in Ctx, ThreadStep(c) PROVE Core'
  BY <1>2, ThreadStepCore
<1>3. CASE World
  BY <1>3, WorldCore
<1>4. CASE UNCHANGED vars
  <2>1. SameAccepts
    BY <1>4 DEF vars, threads, SameAccepts
  <2>2. AcceptInv'
    BY <1>4, <2>1, SameAcceptsInv DEF Core, vars, threads, history
  <2>3. QED
    BY <1>4, <2>2 DEF Core, vars, owner, threads, socket, history, CallbacksPaired,
       RegisteredWhileOpen, OwnerState, QuietExitState, AcceptRunning, NoAcceptInProgress
<1>5. QED
  BY <1>1, <1>2, <1>3, <1>4 DEF Next

(* The inductive invariant holds throughout.                              *)
THEOREM IInvCorrect == Spec => []IInv
<1>1. Init => IInv
  BY InitType, InitCore DEF IInv
<1>2. IInv /\ [Next]_vars => IInv'
  BY NextType, NextCore DEF IInv
<1>3. QED
  BY <1>1, <1>2, PTL DEF Spec

(* on_etcp_accept and on_etcp_close pair up for every connection, on any  *)
(* number of threads and whenever exit() is called.                       *)
THEOREM CallbacksAlwaysPaired == Spec => []CallbacksPaired
<1>1. IInv => CallbacksPaired
  BY DEF IInv, Core
<1>2. QED
  BY <1>1, IInvCorrect, PTL

(* If no client is connecting while exit() runs, then exit() destroys no  *)
(* open session, on any number of threads and whatever the users of the   *)
(* connections do.                                                        *)
THEOREM QuietShutdown ==
  ASSUME QuietExit
  PROVE  Spec => []CleanShutdown
<1>1. IInv => CleanShutdown
  BY DEF IInv, Core, QuietExitState, OwnerState, CleanShutdown
<1>2. QED
  BY <1>1, IInvCorrect, PTL

-----------------------------------------------------------------------------
(* Refinement: what the contract sees of a step.                          *)

(* A step that the sessions and the phase do not show.                     *)
LEMMA ContractStutter ==
  ASSUME UNCHANGED <<accepts, m_closed>>, app' = app \/ (app # "up" /\ app' \notin {"up", "down"} /\ app # "down")
  PROVE  UNCHANGED Contract!vars
BY DEF Contract!vars, phase, conn

(* A handler accepts a connection, closes one, or shows nothing.           *)
LEMMA ContractThreadStep ==
  ASSUME QuietExit, IInv, NEW c \in Ctx, ThreadStep(c)
  PROVE  [Contract!Next]_(Contract!vars)
<1>0. /\ TypeOK /\ CallbacksPaired /\ AcceptInv /\ RegisteredWhileOpen /\ OwnerState
      /\ QuietExitState
  BY DEF IInv, Core
<1>1. app # "down"
  BY <1>0, DownIsIdle
<1>2. CASE OnAccept(c)
  <2> DEFINE s == cur[c].s
  <2>1. /\ pc[c] = "begin" /\ cur[c].kind = "accept" /\ cur[c].res = "ok"
        /\ m_closed' = [m_closed EXCEPT ![s] = FALSE]
        /\ accepts' = [accepts EXCEPT ![s] = accepts[s] + 1]
        /\ app' = app
    BY <1>2 DEF OnAccept, owner
  <2>2. c = AcceptCtx /\ s \in Sessions
    BY <1>0, <2>1, AcceptAlone, BusyHandler DEF TypeOK, Handler
  <2>3. app = "up"
    BY <1>0, <2>1, <2>2 DEF QuietExitState, AcceptRunning
  <2>4. accepts[s] = 0 /\ accepts'[s] = 1
    BY <1>0, <2>1, <2>2 DEF AcceptInv, AcceptsFresh, AcceptRunning, Unaccepted, TypeOK, SessionTypeOK
  <2>5. ~m_closed'[s] /\ \A r \in Sessions : r # s => m_closed'[r] = m_closed[r] /\ accepts'[r] = accepts[r]
    BY <1>0, <2>1, <2>2 DEF TypeOK, SessionTypeOK
  <2>6. conn' = [conn EXCEPT ![s] = "open"] /\ conn[s] = "idle"
    BY <2>2, <2>4, <2>5 DEF conn
  <2>7. Contract!Accept(s)
    BY <2>1, <2>3, <2>6 DEF Contract!Accept, phase
  <2>8. QED
    BY <2>2, <2>7 DEF Contract!Next
<1>3. ASSUME OnClose(c, cur[c].s), cur[c].s \in Sessions, UNCHANGED <<app, accepts>>
      PROVE  [Contract!Next]_(Contract!vars)
  <2> DEFINE s == cur[c].s
  <2>1. CASE m_closed[s]
    BY <1>3, <2>1, ContractStutter DEF OnClose
  <2>2. CASE ~m_closed[s]
    <3>1. m_closed' = [m_closed EXCEPT ![s] = TRUE] /\ accepts[s] # 0
      BY <1>0, <1>3, <2>2 DEF OnClose, CallbacksPaired, TypeOK, SessionTypeOK
    <3>2. m_closed'[s] /\ \A r \in Sessions : r # s => m_closed'[r] = m_closed[r]
      BY <1>0, <1>3, <3>1 DEF TypeOK, SessionTypeOK
    <3>3. conn' = [conn EXCEPT ![s] = "closed"] /\ conn[s] = "open"
      BY <1>3, <2>2, <3>1, <3>2 DEF conn
    <3>4. Contract!Close(s)
      BY <1>1, <1>3, <3>3 DEF Contract!Close, phase
    <3>5. QED
      BY <1>3, <3>4 DEF Contract!Next
  <2>3. QED
    BY <2>1, <2>2
<1>4. CASE HandleClose(c) \/ ReadFailed(c)
  <2>1. pc[c] # "idle" /\ OnClose(c, cur[c].s) /\ UNCHANGED <<app, accepts>>
    BY <1>4 DEF HandleClose, ReadFailed, owner
  <2>2. cur[c].s \in Sessions
    BY <1>0, <2>1, BusyHandler DEF TypeOK, Handler
  <2>3. QED
    BY <1>3, <2>1, <2>2
<1>5. CASE \/ Dispatch(c) \/ AcceptFailed(c) \/ AppendSession(c) \/ StartSession(c)
           \/ RearmAccept(c) \/ ListenAgain(c) \/ HeadBad(c) \/ HeadRead(c)
           \/ BodyRead(c) \/ RemoveSession(c)
  <2>1. UNCHANGED <<accepts, m_closed, app>>
    BY <1>5 DEF Dispatch, AcceptFailed, AppendSession, StartSession, RearmAccept,
       ListenAgain, HeadBad, HeadRead, BodyRead, RemoveSession, owner, history
  <2>2. QED
    BY <2>1, ContractStutter
<1>6. QED
  BY <1>2, <1>4, <1>5 DEF ThreadStep, HandlerStep

(* init() and exit() change the phase, exit() last of all.                 *)
LEMMA ContractOwnerStep ==
  ASSUME QuietExit, IInv, IInv', OwnerStep
  PROVE  [Contract!Next]_(Contract!vars)
<1>1. UNCHANGED <<accepts, m_closed>> /\ conn' = conn
  BY DEF OwnerStep, ExitStep, InitServer, InitServerFails, BeginExit, ResetAcceptor,
     SweepSession, SweepDone, Drained, StopContexts, JoinAndDestroy, history, conn
<1>2. CASE InitServer \/ InitServerFails
  <2>1. Contract!Start
    BY <1>1, <1>2 DEF InitServer, InitServerFails, Contract!Start, phase
  <2>2. QED
    BY <2>1 DEF Contract!Next
<1>3. CASE BeginExit
  <2>1. Contract!Exit
    BY <1>1, <1>3 DEF BeginExit, Contract!Exit, phase
  <2>2. QED
    BY <2>1 DEF Contract!Next
<1>4. CASE ResetAcceptor \/ SweepSession \/ SweepDone \/ Drained \/ StopContexts
  <2>1. app' = app \/ (app \notin {"up", "down"} /\ app' \notin {"up", "down"})
    BY <1>4 DEF ResetAcceptor, SweepSession, SweepDone, Drained, StopContexts
  <2>2. QED
    BY <1>1, <2>1, ContractStutter
<1>5. CASE JoinAndDestroy
  <2>1. app = "join" /\ app' = "down"
    BY <1>5 DEF JoinAndDestroy
  <2>2. \A s \in Sessions : m_closed'[s]
    BY <2>1 DEF IInv, Core, OwnerState, QuietExitState
  <2>3. \A s \in Sessions : conn[s] # "open"
    BY <1>1, <2>2 DEF conn
  <2>4. Contract!Exited
    BY <1>1, <2>1, <2>3 DEF Contract!Exited, phase
  <2>5. QED
    BY <2>4 DEF Contract!Next
<1>6. QED
  BY <1>2, <1>3, <1>4, <1>5 DEF OwnerStep, ExitStep

(* Used with quiet exits, the server implements the safety part of its    *)
(* contract: whatever a user sees of EtcpServer, the contract allows.     *)
THEOREM ContractImplemented ==
  ASSUME QuietExit
  PROVE  Spec => Contract!Safety
<1>1. Init => Contract!Init
  BY DEF Init, Contract!Init, phase, conn
<1>2. IInv /\ IInv' /\ [Next]_vars => [Contract!Next]_(Contract!vars)
  <2> SUFFICES ASSUME IInv, IInv', [Next]_vars PROVE [Contract!Next]_(Contract!vars)
    OBVIOUS
  <2>1. CASE OwnerStep
    BY <2>1, ContractOwnerStep
  <2>2. ASSUME NEW c \in Ctx, ThreadStep(c) PROVE [Contract!Next]_(Contract!vars)
    BY <2>2, ContractThreadStep
  <2>3. CASE World
    <3>1. UNCHANGED <<accepts, m_closed, app>>
      BY <2>3 DEF World, UserClose, AcceptCompletes, ReadCompletes, owner, history
    <3>2. QED
      BY <3>1, ContractStutter
  <2>4. CASE UNCHANGED vars
    <3>1. UNCHANGED <<accepts, m_closed, app>>
      BY <2>4 DEF vars, owner, history
    <3>2. QED
      BY <3>1, ContractStutter
  <2>5. QED
    BY <2>1, <2>2, <2>3, <2>4 DEF Next
<1>3. QED
  BY <1>1, <1>2, IInvCorrect, PTL DEF Spec, Contract!Safety
-----------------------------------------------------------------------------
(***************************************************************************)
(* Serving: the handlers of a session, from on_accept to the last one.     *)
(***************************************************************************)
ReadKinds == {"head", "body"}

(* A read of s is complete and waits, or is being handled, on context c.   *)
ReadWaits(c, i) == queue[c][i].kind \in ReadKinds
ReadRuns(c) == pc[c] = "begin" /\ cur[c].kind \in ReadKinds

(* Handlers run in the context of their session, and only after on_accept. *)
Home ==
    /\ \A c \in Ctx : \A i \in DOMAIN queue[c] :
         queue[c][i].kind # "accept" => c = ctx[queue[c][i].s] /\ accepts[queue[c][i].s] # 0
    /\ \A c \in Ctx :
         cur[c].kind \in {"head", "body", "close"} => c = ctx[cur[c].s] /\ accepts[cur[c].s] # 0
    /\ \A s \in Sessions : accepts[s] = 0 => reading[s] = "none" /\ s \notin m_session_map

(* A session has one read: pending, complete, or being handled.            *)
OneRead ==
    \A c \in Ctx :
        /\ \A i, j \in DOMAIN queue[c] :
             ReadWaits(c, i) /\ ReadWaits(c, j) /\ queue[c][i].s = queue[c][j].s => i = j
        /\ \A i \in DOMAIN queue[c] : ReadWaits(c, i) =>
             /\ reading[queue[c][i].s] = "none"
             /\ ReadRuns(c) => cur[c].s # queue[c][i].s
        /\ ReadRuns(c) => reading[cur[c].s] = "none"

(* A session that is being started has none, and if it has been closed     *)
(* already then its socket is closed.                                      *)
Starting ==
    \A a \in Ctx : pc[a] \in {"append", "read"} =>
        /\ accepts[cur[a].s] # 0
        /\ pc[a] = "append" => cur[a].s \notin m_session_map
        /\ reading[cur[a].s] = "none"
        /\ closes[cur[a].s] # 0 => ~open[cur[a].s]
        /\ \A c \in Ctx :
             /\ \A i \in DOMAIN queue[c] : ReadWaits(c, i) => queue[c][i].s # cur[a].s
             /\ ReadRuns(c) => cur[c].s # cur[a].s

(* After on_close: a read that is left is complete, finds the socket       *)
(* closed, and has not been reported late if there is something to report. *)
Late ==
    /\ \A s \in Sessions :
         /\ closes[s] = 0 => late[s] = 0
         /\ late[s] <= 1
         /\ closes[s] # 0 => reading[s] = "none"
    /\ \A c \in Ctx :
         /\ \A i \in DOMAIN queue[c] : ReadWaits(c, i) /\ closes[queue[c][i].s] # 0 =>
              ~open[queue[c][i].s] /\ (queue[c][i].res # "err" => late[queue[c][i].s] = 0)
         /\ ReadRuns(c) /\ closes[cur[c].s] # 0 =>
              ~open[cur[c].s] /\ (cur[c].res # "err" => late[cur[c].s] = 0)

(* Before on_close: something of the session is under way.                 *)
Alive(s) ==
    \/ reading[s] # "none"
    \/ \E c \in Ctx :
         \/ \E i \in DOMAIN queue[c] : queue[c][i].kind # "accept" /\ queue[c][i].s = s
         \/ pc[c] = "begin" /\ cur[c].kind # "accept" /\ cur[c].s = s
         \/ pc[c] \in {"append", "read"} /\ cur[c].s = s

Referenced == \A s \in Sessions : ~m_closed[s] => fault = "bad_weak_ptr" \/ Alive(s)

(* Users who do not close() inside on_etcp_accept: append_session() comes  *)
(* before on_close(), hence before remove_session().                       *)
Orderly ==
    ~EarlyClose =>
        /\ \A a \in Ctx : pc[a] = "append" =>
             /\ ~m_closed[cur[a].s]
             /\ \A d \in Ctx : d # a =>
                  /\ \A i \in DOMAIN queue[d] :
                       queue[d][i].kind = "close" => queue[d][i].s # cur[a].s
                  /\ cur[d].kind = "close" => cur[d].s # cur[a].s
        /\ \A s \in Sessions : m_closed[s] /\ s \in m_session_map =>
             \E c \in Ctx : pc[c] = "remove" /\ cur[c].s = s

Serving == Home /\ OneRead /\ Starting /\ Late /\ Referenced /\ Orderly

(* A handler h is put at the end, n, of the queue of context d.            *)
Posted(d, n, h) ==
    /\ n \notin DOMAIN queue[d]
    /\ \A c \in Ctx : DOMAIN queue[c] \subseteq DOMAIN queue'[c]
    /\ \A c \in Ctx : \A i \in DOMAIN queue[c] : queue'[c][i] = queue[c][i]
    /\ \A c \in Ctx : \A i \in DOMAIN queue'[c] : i \in DOMAIN queue[c] \/ (c = d /\ i = n)
    /\ n \in DOMAIN queue'[d] /\ queue'[d][n] = h

(* Posting to a context.                                                   *)
LEMMA PostFacts ==
  ASSUME ThreadTypeOK, NEW d \in Ctx, NEW h \in Handler, queue' = Post(queue, d, h)
  PROVE  \E n : Posted(d, n, h)
<1> DEFINE n == Len(queue[d]) + 1
<1>1. queue \in [Ctx -> Seq(Handler)] /\ queue[d] \in Seq(Handler)
  BY DEF ThreadTypeOK
<1>2. queue'[d] = Append(queue[d], h) /\ \A c \in Ctx : c # d => queue'[c] = queue[c]
  BY <1>1 DEF Post
<1>3. /\ n \notin DOMAIN queue[d] /\ DOMAIN queue[d] \subseteq DOMAIN queue'[d]
      /\ \A i \in DOMAIN queue[d] : queue'[d][i] = queue[d][i]
      /\ \A i \in DOMAIN queue'[d] : i \in DOMAIN queue[d] \/ i = n
      /\ n \in DOMAIN queue'[d] /\ queue'[d][n] = h
  BY <1>1, <1>2
<1> HIDE DEF n
<1>4. Posted(d, n, h)
  BY <1>2, <1>3 DEF Posted
<1> QED BY <1>4

(* Whom the handlers are about.                                            *)
LEMMA HandlerSessions ==
  ASSUME TypeOK
  PROVE  /\ \A c \in Ctx : \A i \in DOMAIN queue[c] :
              queue[c][i] \in Handler /\ queue[c][i].s \in Sessions
         /\ \A c \in Ctx : pc[c] # "idle" => cur[c] \in Handler /\ cur[c].s \in Sessions
         /\ \A c \in Ctx : cur[c].kind # "none" => cur[c] \in Handler /\ cur[c].s \in Sessions
         /\ \A c \in Ctx : pc[c] = "idle" => cur[c] = NoHandler /\ cur[c].kind = "none"
<1>1. queue \in [Ctx -> Seq(Handler)] /\ cur \in [Ctx -> Handler \cup {NoHandler}]
  BY DEF TypeOK, ThreadTypeOK
<1>2. \A c \in Ctx : \A i \in DOMAIN queue[c] : queue[c][i] \in Handler
  BY <1>1
<1>3. \A h \in Handler : h.s \in Sessions
  BY DEF Handler
<1>4. \A c \in Ctx : cur[c].kind # "none" => cur[c] \in Handler
  BY <1>1 DEF NoHandler
<1>5. \A c \in Ctx : pc[c] = "idle" <=> cur[c] = NoHandler
  BY DEF TypeOK, ThreadTypeOK
<1>6. NoHandler.kind = "none"
  BY DEF NoHandler
<1> QED BY <1>1, <1>2, <1>3, <1>4, <1>5, <1>6

(* Nothing is there at first.                                              *)
LEMMA InitServing == Init => Serving
<1> SUFFICES ASSUME Init PROVE Serving
  OBVIOUS
<1>1. /\ \A c \in Ctx : queue[c] = <<>> /\ pc[c] = "idle" /\ cur[c] = NoHandler /\ cur[c].kind = "none"
      /\ \A s \in Sessions : m_closed[s] /\ reading[s] = "none" /\ late[s] = 0 /\ closes[s] = 0
      /\ m_session_map = {}
  BY DEF Init, NoHandler
<1> QED BY <1>1 DEF Serving, Home, OneRead, Starting, Late, Referenced, Orderly, ReadRuns, ReadWaits, ReadKinds

(* A close is posted for a session, by its user, by exit() or by do_read() *)
(* after a wrong header.                                                   *)
LEMMA PostCloseServing ==
  ASSUME IInv, Serving, NEW s \in Sessions, NEW n, accepts[s] # 0, ctx[s] \in Ctx,
         Posted(ctx[s], n, Ready("close", s, "ok")),
         ~EarlyClose => \A a \in Ctx : pc[a] = "append" /\ cur[a].s = s => ctx[s] = a,
         UNCHANGED <<cur, pc, ctx, open, reading, m_closed, m_session_map, accepts, closes, late, fault>>
  PROVE  Serving'
<1> DEFINE h == Ready("close", s, "ok")
<1>1. h.kind = "close" /\ h.s = s
  BY DEF Ready
<1> HIDE DEF h
<1>2. Posted(ctx[s], n, h)
  BY DEF h
<1>3. Home'
  BY <1>1, <1>2 DEF Serving, Home, Posted
<1>4. \A c \in Ctx : \A i \in DOMAIN queue'[c] :
        ReadWaits(c, i)' => i \in DOMAIN queue[c] /\ queue'[c][i] = queue[c][i] /\ ReadWaits(c, i)
  BY <1>1, <1>2 DEF Posted, ReadWaits, ReadKinds
<1>5. OneRead'
  BY <1>4 DEF Serving, OneRead, ReadRuns
<1>6. Starting'
  BY <1>4 DEF Serving, Starting, ReadRuns
<1>7. Late'
  BY <1>4 DEF Serving, Late, ReadRuns
<1>8. Referenced'
  BY <1>2 DEF Serving, Referenced, Alive, Posted
<1>9. Orderly'
  BY <1>1, <1>2 DEF Serving, Orderly, Posted
<1> QED BY <1>3, <1>5, <1>6, <1>7, <1>8, <1>9 DEF Serving

(* A read completes.                                                       *)
LEMMA ReadCompletesServing ==
  ASSUME IInv, Serving, NEW s \in Sessions, NEW res \in ReadOutcomes, ReadCompletes(s, res)
  PROVE  Serving'
<1> DEFINE h == Ready(reading[s], s, res)
<1>1. /\ reading[s] \in {"head", "body"} /\ queue' = Post(queue, ctx[s], h)
      /\ reading'[s] = "none" /\ \A r \in Sessions : r # s => reading'[r] = reading[r]
      /\ UNCHANGED <<cur, pc, ctx, open, m_closed, m_session_map, accepts, closes, late, fault>>
  BY DEF ReadCompletes, IInv, TypeOK, SessionTypeOK, history
<1>2. h \in Handler /\ h.kind \in ReadKinds /\ h.s = s
  <2>1. h \in Handler
    BY <1>1, OutcomeAssumption, ReadyType DEF Outcome
  <2> QED BY <1>1, <2>1 DEF Ready, ReadKinds
<1>3. accepts[s] # 0 /\ ctx[s] \in Ctx
  BY <1>1 DEF Serving, Home, IInv, Core, AcceptInv, AcceptsFresh, TypeOK, SessionTypeOK, Ctx
<1> HIDE DEF h
<1>4. PICK n : Posted(ctx[s], n, h)
  BY <1>1, <1>2, <1>3, PostFacts DEF IInv, TypeOK
<1>5. \A c \in Ctx : \A i \in DOMAIN queue[c] : queue[c][i].s \in Sessions
  BY HandlerSessions DEF IInv
<1>6. /\ \A c \in Ctx : pc[c] # "idle" => cur[c].s \in Sessions
      /\ \A c \in Ctx : pc[c] \in {"begin", "append", "read"} => pc[c] # "idle"
  BY HandlerSessions DEF IInv
<1>7. Home'
  BY <1>1, <1>2, <1>3, <1>4 DEF Serving, Home, Posted, ReadKinds
<1>8. \A c \in Ctx : \A i \in DOMAIN queue'[c] : ReadWaits(c, i)' =>
        \/ i \in DOMAIN queue[c] /\ queue'[c][i] = queue[c][i] /\ ReadWaits(c, i) /\ queue[c][i].s # s
        \/ c = ctx[s] /\ i = n /\ queue'[c][i] = h
  BY <1>1, <1>2, <1>4 DEF Posted, ReadWaits, Serving, OneRead
<1>9. \A c \in Ctx : ReadRuns(c) => cur[c].s # s
  BY <1>1 DEF Serving, OneRead
<1>10. OneRead'
  BY <1>1, <1>2, <1>5, <1>6, <1>8, <1>9 DEF Serving, OneRead, ReadRuns
<1>11. Starting'
  BY <1>1, <1>2, <1>5, <1>6, <1>8, <1>9 DEF Serving, Starting, ReadRuns
<1>12. Late'
  BY <1>1, <1>2, <1>5, <1>6, <1>8, <1>9 DEF Serving, Late, ReadRuns
<1>13. Referenced'
  <2> SUFFICES ASSUME NEW r \in Sessions, ~m_closed'[r], fault' # "bad_weak_ptr" PROVE Alive(r)'
    BY DEF Referenced
  <2>1. Alive(r)
    BY <1>1 DEF Serving, Referenced
  <2>2. CASE r = s
    <3>1. n \in DOMAIN queue'[ctx[s]] /\ queue'[ctx[s]][n].kind # "accept" /\ queue'[ctx[s]][n].s = s
      BY <1>2, <1>4 DEF Posted, ReadKinds
    <3> QED BY <1>3, <2>2, <3>1 DEF Alive
  <2>3. CASE r # s
    BY <1>1, <1>4, <2>1, <2>3 DEF Alive, Posted
  <2> QED BY <2>2, <2>3
<1>14. Orderly'
  BY <1>1, <1>2, <1>4 DEF Serving, Orderly, Posted, ReadKinds
<1> QED BY <1>7, <1>10, <1>11, <1>12, <1>13, <1>14 DEF Serving

(* The accept completes, or is cancelled: nobody has heard of its session. *)
LEMMA PostAcceptServing ==
  ASSUME IInv, Serving, NEW s \in Sessions, NEW res \in {"ok", "err"}, Unaccepted(s),
         queue' = Post(queue, AcceptCtx, Ready("accept", s, res)),
         \A r \in Sessions : r # s => open'[r] = open[r],
         UNCHANGED <<cur, pc, ctx, reading, m_closed, m_session_map, accepts, closes, late, fault>>
  PROVE  Serving'
<1> DEFINE h == Ready("accept", s, res)
<1>1. h \in Handler /\ h.kind = "accept"
  BY DEF Ready, Handler
<1> HIDE DEF h
<1>2. PICK n : Posted(AcceptCtx, n, h)
  BY <1>1, PostFacts, AcceptCtxType DEF h, IInv, TypeOK
<1>3. \A c \in Ctx : \A i \in DOMAIN queue[c] : queue[c][i].s \in Sessions
  BY HandlerSessions DEF IInv
<1>4. \A c \in Ctx : pc[c] # "idle" => cur[c].s \in Sessions
  BY HandlerSessions DEF IInv
<1>5. \A c \in Ctx : \A i \in DOMAIN queue'[c] :
        (i \in DOMAIN queue[c] /\ queue'[c][i] = queue[c][i]) \/ queue'[c][i].kind = "accept"
  BY <1>1, <1>2 DEF Posted
<1>6. \A c \in Ctx : \A i \in DOMAIN queue'[c] :
        ReadWaits(c, i)' =>
          /\ i \in DOMAIN queue[c] /\ queue'[c][i] = queue[c][i] /\ ReadWaits(c, i)
          /\ queue[c][i].s # s
  BY <1>5 DEF ReadWaits, ReadKinds, Serving, Home, Unaccepted
<1>7. \A c \in Ctx : ReadRuns(c) => cur[c].s # s
  BY DEF ReadRuns, ReadKinds, Serving, Home, Unaccepted
<1>8. Home'
  BY <1>5 DEF Serving, Home
<1>9. OneRead'
  BY <1>6 DEF Serving, OneRead, ReadRuns
<1>10. Starting'
  <2>1. \A a \in Ctx : pc[a] \in {"append", "read"} => cur[a].s # s /\ cur[a].s \in Sessions
    BY <1>4 DEF Serving, Starting, Unaccepted
  <2> QED BY <1>6, <2>1 DEF Serving, Starting, ReadRuns
<1>11. Late'
  BY <1>3, <1>4, <1>6, <1>7 DEF Serving, Late, ReadRuns
<1>12. Referenced'
  BY <1>2 DEF Serving, Referenced, Alive, Posted
<1>13. Orderly'
  BY <1>5 DEF Serving, Orderly
<1> QED BY <1>8, <1>9, <1>10, <1>11, <1>12, <1>13 DEF Serving

(* Users, clients and the network.                                         *)
LEMMA WorldServing ==
  ASSUME IInv, Serving, World
  PROVE  Serving'
<1>1. ASSUME NEW s \in Sessions, UserClose(s) PROVE Serving'
  <2>1. /\ accepts[s] # 0 /\ (EarlyClose \/ s \in m_session_map \/ ctx[s] = AcceptCtx)
        /\ queue' = Post(queue, ctx[s], Ready("close", s, "ok"))
        /\ UNCHANGED <<cur, pc, ctx, open, reading, m_closed, m_session_map, accepts, closes, late, fault>>
    BY <1>1 DEF UserClose, socket, history, IInv, TypeOK, SessionTypeOK
  <2>2. ctx[s] \in Ctx /\ Ready("close", s, "ok") \in Handler
    BY <2>1 DEF IInv, Core, AcceptInv, AcceptsFresh, TypeOK, SessionTypeOK, Ctx, Ready, Handler
  <2>3. PICK n : Posted(ctx[s], n, Ready("close", s, "ok"))
    BY <2>1, <2>2, PostFacts DEF IInv, TypeOK
  <2>4. ~EarlyClose => \A a \in Ctx : pc[a] = "append" /\ cur[a].s = s => ctx[s] = a
    BY <2>1 DEF IInv, Core, AcceptInv, HandlerShape, Serving, Starting
  <2> QED BY <2>1, <2>2, <2>3, <2>4, PostCloseServing
<1>2. ASSUME NEW res \in {"ok", "err"}, AcceptCompletes(res) PROVE Serving'
  <2>1. /\ accepting \in Sessions /\ Unaccepted(accepting)
        /\ queue' = Post(queue, AcceptCtx, Ready("accept", accepting, res))
        /\ \A r \in Sessions : r # accepting => open'[r] = open[r]
        /\ UNCHANGED <<cur, pc, ctx, reading, m_closed, m_session_map, accepts, closes, late, fault>>
    BY <1>2 DEF AcceptCompletes, history, IInv, Core, AcceptInv, AcceptsFresh, TypeOK, OwnerTypeOK,
       SessionTypeOK
  <2> QED BY <2>1, PostAcceptServing
<1> QED BY <1>1, <1>2, ReadCompletesServing DEF World

(* The thread that calls init() and exit().                                *)
LEMMA OwnerServing ==
  ASSUME IInv, Serving, OwnerStep
  PROVE  Serving'
<1> USE DEF owner, threads, socket, history
<1>1. ASSUME UNCHANGED <<queue, cur, pc, ctx, open, reading, m_closed, m_session_map, accepts, closes,
                         late, fault>>
      PROVE  Serving'
  BY <1>1 DEF Serving, Home, OneRead, Starting, Late, Referenced, Orderly, Alive, ReadWaits, ReadRuns
<1>2. CASE InitServer
  <2>1. UNCHANGED <<queue, cur, pc, open, reading, m_closed, m_session_map, accepts, closes, late, fault>>
    BY <1>2 DEF InitServer
  <2>2. \A s \in Sessions : accepts[s] # 0 => ctx'[s] = ctx[s]
    <3>1. ctx' = ctx \/ (Fresh # {} /\ \E c : ctx' = [ctx EXCEPT ![NewSession] = c])
      BY <1>2 DEF InitServer
    <3>2. Fresh # {} => accepts[NewSession] = 0 /\ NewSession \in Sessions
      BY NewSessionType DEF IInv, Core, AcceptInv, AcceptsFresh
    <3> QED BY <3>1, <3>2 DEF IInv, TypeOK, SessionTypeOK
  <2>3. /\ \A c \in Ctx : \A i \in DOMAIN queue[c] : queue[c][i].s \in Sessions
        /\ \A c \in Ctx : cur[c].kind # "none" => cur[c].s \in Sessions
    BY HandlerSessions DEF IInv
  <2>4. Home'
    BY <2>1, <2>2, <2>3 DEF Serving, Home
  <2> QED BY <2>1, <2>4 DEF Serving, OneRead, Starting, Late, Referenced, Orderly, Alive, ReadWaits,
       ReadRuns
<1>3. CASE ResetAcceptor
  <2>1. /\ UNCHANGED <<cur, pc, ctx, open, reading, m_closed, m_session_map, accepts, closes, late, fault>>
        /\ accepting # None => queue' = Post(queue, AcceptCtx, Ready("accept", accepting, "err"))
        /\ accepting = None => queue' = queue
    BY <1>3 DEF ResetAcceptor
  <2>2. accepting # None => accepting \in Sessions /\ Unaccepted(accepting)
    BY DEF IInv, Core, AcceptInv, AcceptsFresh, TypeOK, OwnerTypeOK
  <2> QED BY <1>1, <2>1, <2>2, PostAcceptServing
<1>4. CASE SweepSession
  <2>1. PICK s \in m_session_map :
          queue' = IF m_closed[s] THEN queue ELSE Post(queue, ctx[s], Ready("close", s, "ok"))
    BY <1>4 DEF SweepSession
  <2>2. UNCHANGED <<cur, pc, ctx, open, reading, m_closed, m_session_map, accepts, closes, late, fault>>
    BY <1>4 DEF SweepSession
  <2>3. s \in Sessions /\ accepts[s] # 0
    BY DEF IInv, TypeOK, OwnerTypeOK, Serving, Home
  <2>4. ctx[s] \in Ctx /\ Ready("close", s, "ok") \in Handler
    BY <2>3 DEF IInv, Core, AcceptInv, AcceptsFresh, TypeOK, SessionTypeOK, Ctx, Ready, Handler
  <2>5. CASE m_closed[s]
    BY <1>1, <2>1, <2>2, <2>5
  <2>6. CASE ~m_closed[s]
    <3>1. PICK n : Posted(ctx[s], n, Ready("close", s, "ok"))
      BY <2>1, <2>4, <2>6, PostFacts DEF IInv, TypeOK
    <3>2. \A a \in Ctx : pc[a] = "append" => cur[a].s # s
      BY DEF Serving, Starting
    <3> QED BY <2>2, <2>3, <2>4, <3>1, <3>2, PostCloseServing
  <2> QED BY <2>5, <2>6
<1>5. CASE JoinAndDestroy
  <2>1. /\ \A c \in Ctx : pc[c] = "idle" /\ queue'[c] = <<>>
        /\ \A s \in Sessions : reading'[s] = "none" /\ ~open'[s]
        /\ \A s \in Sessions : ~m_closed[s] => fault' = "bad_weak_ptr"
        /\ UNCHANGED <<cur, pc, ctx, m_closed, m_session_map, accepts, closes, late>>
    BY <1>5 DEF JoinAndDestroy
  <2>2. \A c \in Ctx : cur[c].kind = "none"
    BY <2>1, HandlerSessions DEF IInv
  <2>3. Home' /\ OneRead' /\ Starting'
    BY <2>1, <2>2 DEF Serving, Home, OneRead, Starting, ReadRuns
  <2>4. Late' /\ Referenced' /\ Orderly'
    BY <2>1, <2>2 DEF Serving, Late, Referenced, Orderly, ReadRuns
  <2> QED BY <2>3, <2>4 DEF Serving
<1>6. CASE InitServerFails \/ BeginExit \/ SweepDone \/ Drained \/ StopContexts
  BY <1>1, <1>6 DEF InitServerFails, BeginExit, SweepDone, Drained, StopContexts
<1> QED BY <1>2, <1>3, <1>4, <1>5, <1>6 DEF OwnerStep, ExitStep

(* A thread takes a handler.                                               *)
LEMMA DispatchServing ==
  ASSUME IInv, Serving, NEW c \in Ctx, Dispatch(c)
  PROVE  Serving'
<1>1. queue[c] \in Seq(Handler) /\ queue[c] # <<>> /\ pc[c] = "idle" /\ cur[c].kind = "none"
  BY HandlerSessions DEF Dispatch, IInv, TypeOK, ThreadTypeOK
<1>2. /\ 1 \in DOMAIN queue[c] /\ cur'[c] = queue[c][1] /\ pc'[c] = "begin"
      /\ \A i \in DOMAIN queue'[c] :
           i \in Nat \ {0} /\ i + 1 \in DOMAIN queue[c] /\ queue'[c][i] = queue[c][i + 1]
      /\ \A i \in DOMAIN queue[c] : i # 1 => i - 1 \in DOMAIN queue'[c] /\ queue'[c][i - 1] = queue[c][i]
  <2>1. queue'[c] = Tail(queue[c]) /\ cur'[c] = Head(queue[c]) /\ pc'[c] = "begin"
    BY DEF Dispatch, IInv, TypeOK, ThreadTypeOK
  <2> QED BY <1>1, <2>1
<1>3. \A d \in Ctx : d # c => cur'[d] = cur[d] /\ pc'[d] = pc[d] /\ queue'[d] = queue[d]
  BY DEF Dispatch, IInv, TypeOK, ThreadTypeOK
<1>4. UNCHANGED <<ctx, open, reading, m_closed, m_session_map, accepts, closes, late, fault>>
  BY DEF Dispatch, socket, history
<1>5. Home'
  <2>1. queue[c][1].kind \in {"accept", "close", "head", "body"}
    BY <1>2, HandlerSessions DEF IInv, Handler
  <2> QED BY <1>2, <1>3, <1>4, <2>1 DEF Serving, Home
<1>6. /\ ReadRuns(c)' <=> ReadWaits(c, 1)
      /\ \A d \in Ctx : d # c => (ReadRuns(d)' <=> ReadRuns(d))
      /\ \A i \in DOMAIN queue'[c] : ReadWaits(c, i)' <=> ReadWaits(c, i + 1)
      /\ \A d \in Ctx : d # c => \A i \in DOMAIN queue[d] : ReadWaits(d, i)' <=> ReadWaits(d, i)
  BY <1>2, <1>3 DEF ReadRuns, ReadWaits
<1>7. OneRead'
  <2>1. ASSUME NEW d \in Ctx, d # c
        PROVE  /\ \A i, j \in DOMAIN queue'[d] :
                    ReadWaits(d, i)' /\ ReadWaits(d, j)' /\ queue'[d][i].s = queue'[d][j].s => i = j
               /\ \A i \in DOMAIN queue'[d] : ReadWaits(d, i)' =>
                    reading'[queue'[d][i].s] = "none" /\ (ReadRuns(d)' => cur'[d].s # queue'[d][i].s)
               /\ ReadRuns(d)' => reading'[cur'[d].s] = "none"
    BY <1>3, <1>4, <1>6, <2>1 DEF Serving, OneRead
  <2>2. \A i, j \in DOMAIN queue'[c] :
          ReadWaits(c, i)' /\ ReadWaits(c, j)' /\ queue'[c][i].s = queue'[c][j].s => i = j
    <3> SUFFICES ASSUME NEW i \in DOMAIN queue'[c], NEW j \in DOMAIN queue'[c],
                        ReadWaits(c, i)', ReadWaits(c, j)', queue'[c][i].s = queue'[c][j].s
                 PROVE  i = j
      OBVIOUS
    <3>1. i + 1 = j + 1
      BY <1>2, <1>6 DEF Serving, OneRead
    <3> QED BY <1>2, <3>1
  <2>3. \A i \in DOMAIN queue'[c] : ReadWaits(c, i)' => reading'[queue'[c][i].s] = "none"
    BY <1>2, <1>4, <1>6 DEF Serving, OneRead
  <2>4. ASSUME NEW i \in DOMAIN queue'[c], ReadWaits(c, i)', ReadRuns(c)' PROVE cur'[c].s # queue'[c][i].s
    <3>1. i + 1 # 1
      BY <1>2
    <3> QED BY <1>2, <1>6, <2>4, <3>1 DEF Serving, OneRead
  <2>5. ReadRuns(c)' => reading'[cur'[c].s] = "none"
    BY <1>2, <1>4, <1>6 DEF Serving, OneRead
  <2> QED BY <2>1, <2>2, <2>3, <2>4, <2>5 DEF OneRead
<1>8. Starting'
  <2> SUFFICES ASSUME NEW a \in Ctx, pc'[a] \in {"append", "read"}
               PROVE  /\ accepts'[cur'[a].s] # 0
                      /\ pc'[a] = "append" => cur'[a].s \notin m_session_map'
                      /\ reading'[cur'[a].s] = "none"
                      /\ closes'[cur'[a].s] # 0 => ~open'[cur'[a].s]
                      /\ \A d \in Ctx :
                           /\ \A i \in DOMAIN queue'[d] : ReadWaits(d, i)' => queue'[d][i].s # cur'[a].s
                           /\ ReadRuns(d)' => cur'[d].s # cur'[a].s
    BY DEF Starting
  <2>1. a # c /\ pc[a] \in {"append", "read"} /\ cur'[a] = cur[a] /\ pc'[a] = pc[a]
    BY <1>2, <1>3
  <2>2. \A d \in Ctx : d # c =>
          /\ \A i \in DOMAIN queue'[d] : ReadWaits(d, i)' => queue'[d][i].s # cur'[a].s
          /\ ReadRuns(d)' => cur'[d].s # cur'[a].s
    BY <1>3, <1>6, <2>1 DEF Serving, Starting
  <2>3. /\ \A i \in DOMAIN queue'[c] : ReadWaits(c, i)' => queue'[c][i].s # cur'[a].s
        /\ ReadRuns(c)' => cur'[c].s # cur'[a].s
    BY <1>2, <1>6, <2>1 DEF Serving, Starting
  <2> QED BY <1>4, <2>1, <2>2, <2>3 DEF Serving, Starting
<1>9. Late'
  <2>1. \A d \in Ctx : d # c =>
          /\ \A i \in DOMAIN queue'[d] : ReadWaits(d, i)' /\ closes'[queue'[d][i].s] # 0 =>
               ~open'[queue'[d][i].s] /\ (queue'[d][i].res # "err" => late'[queue'[d][i].s] = 0)
          /\ ReadRuns(d)' /\ closes'[cur'[d].s] # 0 =>
               ~open'[cur'[d].s] /\ (cur'[d].res # "err" => late'[cur'[d].s] = 0)
    BY <1>3, <1>4, <1>6 DEF Serving, Late
  <2>2. \A i \in DOMAIN queue'[c] : ReadWaits(c, i)' /\ closes'[queue'[c][i].s] # 0 =>
          ~open'[queue'[c][i].s] /\ (queue'[c][i].res # "err" => late'[queue'[c][i].s] = 0)
    BY <1>2, <1>4, <1>6 DEF Serving, Late
  <2>3. ReadRuns(c)' /\ closes'[cur'[c].s] # 0 =>
          ~open'[cur'[c].s] /\ (cur'[c].res # "err" => late'[cur'[c].s] = 0)
    BY <1>2, <1>4, <1>6 DEF Serving, Late
  <2> QED BY <1>4, <2>1, <2>2, <2>3 DEF Serving, Late
<1>10. Referenced'
  <2> SUFFICES ASSUME NEW s \in Sessions, ~m_closed'[s], fault' # "bad_weak_ptr" PROVE Alive(s)'
    BY DEF Referenced
  <2>1. Alive(s)
    BY <1>4 DEF Serving, Referenced
  <2>2. CASE reading[s] # "none"
    BY <1>4, <2>2 DEF Alive
  <2>3. CASE \E d \in Ctx : \E i \in DOMAIN queue[d] : queue[d][i].kind # "accept" /\ queue[d][i].s = s
    <3>0. PICK d \in Ctx : \E i \in DOMAIN queue[d] : queue[d][i].kind # "accept" /\ queue[d][i].s = s
      BY <2>3
    <3>1. PICK i \in DOMAIN queue[d] : queue[d][i].kind # "accept" /\ queue[d][i].s = s
      BY <3>0
    <3>2. CASE d = c /\ i = 1
      BY <1>2, <3>1, <3>2 DEF Alive
    <3>3. CASE d = c /\ i # 1
      BY <1>2, <3>1, <3>3 DEF Alive
    <3>4. CASE d # c
      BY <1>3, <3>1, <3>4 DEF Alive
    <3> QED BY <3>2, <3>3, <3>4
  <2>4. CASE \E d \in Ctx : \/ pc[d] = "begin" /\ cur[d].kind # "accept" /\ cur[d].s = s
                            \/ pc[d] \in {"append", "read"} /\ cur[d].s = s
    BY <1>1, <1>3, <2>4 DEF Alive
  <2> QED BY <2>1, <2>2, <2>3, <2>4 DEF Alive
<1>11. Orderly'
  <2> SUFFICES ASSUME ~EarlyClose PROVE Orderly'
    BY DEF Orderly
  <2>1. ASSUME NEW a \in Ctx, pc'[a] = "append"
        PROVE  /\ ~m_closed'[cur'[a].s]
               /\ \A d \in Ctx : d # a =>
                    /\ \A i \in DOMAIN queue'[d] :
                         queue'[d][i].kind = "close" => queue'[d][i].s # cur'[a].s
                    /\ cur'[d].kind = "close" => cur'[d].s # cur'[a].s
    <3>1. a # c /\ pc[a] = "append" /\ cur'[a] = cur[a]
      BY <1>2, <1>3, <2>1
    <3>2. \A i \in DOMAIN queue'[c] : queue'[c][i].kind = "close" => queue'[c][i].s # cur'[a].s
      BY <1>2, <3>1 DEF Serving, Orderly
    <3>3. cur'[c].kind = "close" => cur'[c].s # cur'[a].s
      BY <1>2, <3>1 DEF Serving, Orderly
    <3> QED BY <1>3, <1>4, <3>1, <3>2, <3>3 DEF Serving, Orderly
  <2>2. \A s \in Sessions : m_closed'[s] /\ s \in m_session_map' =>
          \E d \in Ctx : pc'[d] = "remove" /\ cur'[d].s = s
    BY <1>1, <1>3, <1>4 DEF Serving, Orderly
  <2> QED BY <2>1, <2>2 DEF Orderly
<1> QED BY <1>5, <1>7, <1>8, <1>9, <1>10, <1>11 DEF Serving

(* do_read() starts a read of s, whose last one is over: it was handled    *)
(* by this thread, or the session is being started by it.                  *)
LEMMA StartReadServing ==
  ASSUME IInv, Serving, NEW c \in Ctx, NEW s \in Sessions, NEW kind \in ReadKinds, StartRead(s, kind),
         cur[c].s = s,
         \A d \in Ctx : d # c => cur'[d] = cur[d] /\ pc'[d] = pc[d],
         \/ ReadRuns(c) /\ pc'[c] = "idle" /\ cur'[c] = NoHandler
         \/ pc[c] = "read" /\ pc'[c] = "rearm" /\ cur'[c] = cur[c],
         \A r \in Sessions : late'[r] = late[r] \/ (r = s /\ closes[s] # 0 /\ late'[r] = 1),
         UNCHANGED <<ctx, open, m_closed, m_session_map, accepts, closes, fault>>
  PROVE  Serving'
<1>1. /\ accepts[s] # 0 /\ ctx[s] \in Ctx /\ reading[s] = "none" /\ (closes[s] # 0 => ~open[s])
  <2>1. accepts[s] # 0 /\ reading[s] = "none" /\ (closes[s] # 0 => ~open[s])
    BY DEF Serving, Home, OneRead, Starting, Late, ReadRuns, ReadKinds
  <2> QED BY <2>1 DEF IInv, Core, AcceptInv, AcceptsFresh, TypeOK, SessionTypeOK, Ctx
<1>2. /\ \A d \in Ctx : \A i \in DOMAIN queue[d] : ReadWaits(d, i) => queue[d][i].s # s
      /\ \A d \in Ctx : d # c /\ ReadRuns(d) => cur[d].s # s
      /\ \A a \in Ctx : a # c /\ pc[a] \in {"append", "read"} => cur[a].s # s
  <2>1. \A d \in Ctx : \A i \in DOMAIN queue[d] : ReadWaits(d, i) /\ queue[d][i].s = s => d = ctx[s]
    BY DEF Serving, Home, ReadWaits, ReadKinds
  <2>2. \A d \in Ctx : ReadRuns(d) /\ cur[d].s = s => d = ctx[s]
    BY DEF Serving, Home, ReadRuns, ReadKinds
  <2>3. CASE ReadRuns(c)
    BY <2>1, <2>2, <2>3 DEF Serving, OneRead, Starting
  <2>4. CASE pc[c] = "read"
    <3>1. \A a \in Ctx : pc[a] \in {"append", "read"} => a = c
      BY <2>4 DEF IInv, Core, AcceptInv, HandlerShape
    <3> QED BY <2>4, <3>1 DEF Serving, Starting
  <2> QED BY <2>3, <2>4
<1>3. /\ \A d \in Ctx : \A i \in DOMAIN queue[d] : queue[d][i].s \in Sessions
      /\ \A d \in Ctx : pc[d] # "idle" => cur[d].s \in Sessions
  BY HandlerSessions DEF IInv
<1>4. ~ReadRuns(c)' /\ \A d \in Ctx : d # c => (ReadRuns(d)' <=> ReadRuns(d))
  BY DEF ReadRuns
<1>5. cur'[c].kind \in {"none", "accept"}
  BY DEF NoHandler, IInv, Core, AcceptInv, HandlerShape
<1>6. CASE open[s]
  <2>1. /\ queue' = queue /\ reading'[s] = kind
        /\ \A r \in Sessions : r # s => reading'[r] = reading[r]
    BY <1>6 DEF StartRead, IInv, TypeOK, SessionTypeOK
  <2>2. closes[s] = 0
    BY <1>1, <1>6
  <2>3. Home'
    BY <1>1, <1>5, <2>1 DEF Serving, Home
  <2>4. OneRead'
    BY <1>2, <1>3, <1>4, <2>1 DEF Serving, OneRead, ReadWaits, ReadRuns
  <2>5. Starting'
    BY <1>2, <1>3, <1>4, <2>1 DEF Serving, Starting, ReadWaits, ReadRuns
  <2>6. Late'
    BY <1>2, <1>3, <1>4, <2>1, <2>2 DEF Serving, Late, ReadWaits, ReadRuns
  <2>7. Referenced'
    BY <2>1 DEF Serving, Referenced, Alive, ReadKinds
  <2>8. Orderly'
    BY <1>5, <2>1 DEF Serving, Orderly, ReadRuns
  <2> QED BY <2>3, <2>4, <2>5, <2>6, <2>7, <2>8 DEF Serving
<1>7. CASE ~open[s]
  <2> DEFINE h == Ready(kind, s, "err")
  <2>1. h \in Handler /\ h.kind \in ReadKinds /\ h.s = s /\ h.res = "err"
    BY DEF Ready, Handler, ReadKinds
  <2>2. queue' = Post(queue, ctx[s], h) /\ reading' = reading
    BY <1>7 DEF StartRead
  <2> HIDE DEF h
  <2>3. PICK n : Posted(ctx[s], n, h)
    BY <1>1, <2>1, <2>2, PostFacts DEF IInv, TypeOK
  <2>4. \A d \in Ctx : \A i \in DOMAIN queue'[d] : ReadWaits(d, i)' =>
          \/ i \in DOMAIN queue[d] /\ queue'[d][i] = queue[d][i] /\ ReadWaits(d, i) /\ queue[d][i].s # s
          \/ d = ctx[s] /\ i = n /\ queue'[d][i] = h
    BY <1>2, <2>3 DEF Posted, ReadWaits
  <2>5. Home'
    BY <1>1, <1>5, <2>1, <2>2, <2>3 DEF Serving, Home, Posted
  <2>6. OneRead'
    BY <1>1, <1>2, <1>3, <1>4, <2>1, <2>2, <2>4 DEF Serving, OneRead, ReadRuns
  <2>7. Starting'
    BY <1>2, <1>3, <1>4, <2>1, <2>2, <2>4 DEF Serving, Starting, ReadRuns
  <2>8. Late'
    <3>1. \A d \in Ctx : ReadRuns(d)' => d # c /\ ReadRuns(d) /\ cur'[d] = cur[d] /\ cur[d].s # s /\ cur[d].s \in Sessions
      BY <1>2, <1>3, <1>4 DEF ReadRuns
    <3>2. \A r \in Sessions :
            /\ closes[r] = 0 => late'[r] = 0
            /\ late'[r] <= 1
            /\ closes[r] # 0 => reading'[r] = "none"
      BY <2>2 DEF Serving, Late
    <3>3. \A d \in Ctx : \A i \in DOMAIN queue'[d] : ReadWaits(d, i)' /\ closes'[queue'[d][i].s] # 0 =>
            ~open'[queue'[d][i].s] /\ (queue'[d][i].res # "err" => late'[queue'[d][i].s] = 0)
      BY <1>3, <1>7, <2>1, <2>4 DEF Serving, Late
    <3>4. \A d \in Ctx : ReadRuns(d)' /\ closes'[cur'[d].s] # 0 =>
            ~open'[cur'[d].s] /\ (cur'[d].res # "err" => late'[cur'[d].s] = 0)
      BY <3>1 DEF Serving, Late
    <3> QED BY <3>2, <3>3, <3>4 DEF Late
  <2>9. Referenced'
    <3> SUFFICES ASSUME NEW r \in Sessions, ~m_closed'[r], fault' # "bad_weak_ptr" PROVE Alive(r)'
      BY DEF Referenced
    <3>1. Alive(r)
      BY DEF Serving, Referenced
    <3>2. CASE r = s
      <4>1. n \in DOMAIN queue'[ctx[s]] /\ queue'[ctx[s]][n].kind # "accept" /\ queue'[ctx[s]][n].s = s
        BY <2>1, <2>3 DEF Posted, ReadKinds
      <4> QED BY <1>1, <3>2, <4>1 DEF Alive
    <3>3. CASE r # s
      BY <2>2, <2>3, <3>1, <3>3 DEF Alive, Posted
    <3> QED BY <3>2, <3>3
  <2>10. Orderly'
    BY <1>5, <2>1, <2>3 DEF Serving, Orderly, Posted, ReadRuns, ReadKinds
  <2> QED BY <2>5, <2>6, <2>7, <2>8, <2>9, <2>10 DEF Serving
<1> QED BY <1>6, <1>7

(* on_close() of a session whose socket has just been closed, or whose     *)
(* read has just failed.                                                   *)
LEMMA OnCloseServing ==
  ASSUME IInv, Serving, NEW c \in Ctx, pc[c] = "begin", OnClose(c, cur[c].s),
         \/ cur[c].kind = "close" /\ CloseSocket(cur[c].s)
         \/ cur[c].kind \in ReadKinds /\ UNCHANGED <<queue, open, reading>>,
         UNCHANGED <<ctx, m_session_map, accepts, late, fault>>
  PROVE  Serving'
<1> DEFINE s == cur[c].s
<1>1. s \in Sessions /\ accepts[s] # 0 /\ ctx[s] = c
  BY HandlerSessions DEF IInv, Serving, Home, ReadKinds
<1>2. /\ \A d \in Ctx : d # c => cur'[d] = cur[d] /\ pc'[d] = pc[d]
      /\ \/ pc'[c] = "idle" /\ cur'[c] = NoHandler /\ cur'[c].kind = "none" /\ m_closed[s]
            /\ UNCHANGED <<m_closed, closes>>
         \/ pc'[c] = "remove" /\ cur'[c] = cur[c] /\ ~m_closed[s]
            /\ m_closed'[s] /\ closes'[s] # 0
            /\ \A r \in Sessions : r # s => m_closed'[r] = m_closed[r] /\ closes'[r] = closes[r]
  <2>1. CASE m_closed[s]
    BY <2>1 DEF OnClose, Finish, NoHandler, IInv, TypeOK, ThreadTypeOK
  <2>2. CASE ~m_closed[s]
    <3>1. /\ pc'[c] = "remove" /\ cur' = cur /\ \A d \in Ctx : d # c => pc'[d] = pc[d]
      BY <2>2 DEF OnClose, Goto, IInv, TypeOK, ThreadTypeOK
    <3>2. m_closed' = [m_closed EXCEPT ![s] = TRUE] /\ closes' = [closes EXCEPT ![s] = closes[s] + 1]
      BY <2>2 DEF OnClose
    <3>3. m_closed'[s] /\ closes'[s] # 0
      BY <1>1, <3>2 DEF IInv, TypeOK, SessionTypeOK
    <3>4. \A r \in Sessions : r # s => m_closed'[r] = m_closed[r] /\ closes'[r] = closes[r]
      BY <3>2 DEF IInv, TypeOK, SessionTypeOK
    <3> QED BY <2>2, <3>1, <3>3, <3>4
  <2> QED BY <2>1, <2>2
<1>3. /\ \A d \in Ctx : \A i \in DOMAIN queue[d] : queue[d][i].s \in Sessions
      /\ \A d \in Ctx : pc[d] # "idle" => cur[d].s \in Sessions
  BY HandlerSessions DEF IInv
<1>4. ~ReadRuns(c)' /\ \A d \in Ctx : d # c => (ReadRuns(d)' <=> ReadRuns(d))
  BY <1>2 DEF ReadRuns
<1>5. m_closed[s] <=> closes[s] # 0
  <2>1. accepts[s] = 1 /\ accepts[s] = closes[s] + (IF m_closed[s] THEN 0 ELSE 1) /\ closes[s] \in Nat
    BY <1>1 DEF IInv, Core, CallbacksPaired, TypeOK, SessionTypeOK
  <2> QED BY <2>1
<1>6. \A a \in Ctx : pc[a] \in {"append", "read"} => a # c
  OBVIOUS
<1>7. ~EarlyClose => \A a \in Ctx : pc[a] = "append" => cur[a].s # s
  BY <1>6 DEF Serving, Orderly, Starting, ReadRuns
<1> HIDE DEF s
<1>8. CASE cur[c].kind \in ReadKinds /\ UNCHANGED <<queue, open, reading>>
  <2>1. /\ reading[s] = "none"
        /\ \A d \in Ctx : \A i \in DOMAIN queue[d] : ReadWaits(d, i) => queue[d][i].s # s
        /\ \A d \in Ctx : d # c /\ ReadRuns(d) => cur[d].s # s
        /\ \A a \in Ctx : pc[a] \in {"append", "read"} => cur[a].s # s
    <3>1. ReadRuns(c) /\ cur[c].s = s
      BY <1>8 DEF ReadRuns, s
    <3> QED BY <1>1, <1>6, <3>1 DEF Serving, Home, OneRead, Starting, ReadWaits, ReadRuns, ReadKinds
  <2>2. Home'
    BY <1>2, <1>8 DEF Serving, Home
  <2>3. OneRead'
    BY <1>2, <1>4, <1>8 DEF Serving, OneRead, ReadWaits, ReadRuns
  <2>4. Starting'
    BY <1>2, <1>3, <1>4, <1>8, <2>1 DEF Serving, Starting, ReadWaits, ReadRuns
  <2>5. Late'
    <3>1. \A r \in Sessions :
            /\ closes'[r] = 0 => late'[r] = 0
            /\ late'[r] <= 1
            /\ closes'[r] # 0 => reading'[r] = "none"
      BY <1>2, <1>8, <2>1 DEF Serving, Late
    <3>2. \A d \in Ctx : \A i \in DOMAIN queue'[d] : ReadWaits(d, i)' /\ closes'[queue'[d][i].s] # 0 =>
            ~open'[queue'[d][i].s] /\ (queue'[d][i].res # "err" => late'[queue'[d][i].s] = 0)
      BY <1>2, <1>3, <1>8, <2>1 DEF Serving, Late, ReadWaits
    <3>3. \A d \in Ctx : ReadRuns(d)' /\ closes'[cur'[d].s] # 0 =>
            ~open'[cur'[d].s] /\ (cur'[d].res # "err" => late'[cur'[d].s] = 0)
      BY <1>2, <1>3, <1>4, <1>8, <2>1 DEF Serving, Late, ReadRuns
    <3> QED BY <3>1, <3>2, <3>3 DEF Late
  <2>6. Referenced'
    BY <1>2, <1>8 DEF Serving, Referenced, Alive, s
  <2>7. Orderly'
    BY <1>2, <1>3, <1>7, <1>8 DEF Serving, Orderly, s
  <2> QED BY <2>2, <2>3, <2>4, <2>5, <2>6, <2>7 DEF Serving
<1>9. CASE cur[c].kind = "close" /\ CloseSocket(s)
  <2>1. /\ ~open'[s] /\ reading'[s] = "none"
        /\ \A r \in Sessions : r # s => open'[r] = open[r] /\ reading'[r] = reading[r]
        /\ reading[s] = "none" => queue' = queue
        /\ reading[s] # "none" => queue' = Post(queue, ctx[s], Ready(reading[s], s, "err"))
    BY <1>1, <1>9 DEF CloseSocket, IInv, TypeOK, SessionTypeOK
  <2>2. ~ReadRuns(c)
    BY <1>9 DEF ReadRuns, ReadKinds
  <2>3. /\ \A d \in Ctx : \A i \in DOMAIN queue[d] : i \in DOMAIN queue'[d] /\ queue'[d][i] = queue[d][i]
        /\ \E n : \A d \in Ctx : \A i \in DOMAIN queue'[d] :
             \/ i \in DOMAIN queue[d] /\ queue'[d][i] = queue[d][i]
             \/ /\ d = c /\ i = n /\ queue'[d][i].kind \in ReadKinds /\ queue'[d][i].s = s
                /\ queue'[d][i].res = "err" /\ reading[s] # "none"
    <3>1. CASE reading[s] = "none"
      BY <2>1, <3>1
    <3>2. CASE reading[s] # "none"
      <4>1. reading[s] \in ReadKinds
        BY <1>1, <3>2 DEF IInv, TypeOK, SessionTypeOK, ReadKinds
      <4> DEFINE h == Ready(reading[s], s, "err")
      <4>2. h \in Handler /\ h.kind \in ReadKinds /\ h.s = s /\ h.res = "err"
        BY <1>1, <4>1 DEF Ready, Handler, ReadKinds
      <4> HIDE DEF h
      <4>3. queue' = Post(queue, c, h)
        BY <1>1, <2>1, <3>2 DEF h
      <4>4. PICK n : Posted(c, n, h)
        BY <4>2, <4>3, PostFacts DEF IInv, TypeOK
      <4> QED BY <3>2, <4>2, <4>4 DEF Posted
    <3> QED BY <3>1, <3>2
  <2>4. PICK n : \A d \in Ctx : \A i \in DOMAIN queue'[d] :
          \/ i \in DOMAIN queue[d] /\ queue'[d][i] = queue[d][i]
          \/ /\ d = c /\ i = n /\ queue'[d][i].kind \in ReadKinds /\ queue'[d][i].s = s
             /\ queue'[d][i].res = "err" /\ reading[s] # "none"
    BY <2>3
  <2>5. reading[s] # "none" =>
          /\ \A d \in Ctx : \A i \in DOMAIN queue[d] : ReadWaits(d, i) => queue[d][i].s # s
          /\ \A d \in Ctx : ReadRuns(d) => cur[d].s # s
          /\ \A a \in Ctx : pc[a] \in {"append", "read"} => cur[a].s # s
    BY DEF Serving, OneRead, Starting
  <2>6. \A d \in Ctx : \A i \in DOMAIN queue'[d] : ReadWaits(d, i)' =>
          \/ i \in DOMAIN queue[d] /\ queue'[d][i] = queue[d][i] /\ ReadWaits(d, i)
          \/ /\ d = c /\ i = n /\ queue'[d][i].s = s /\ queue'[d][i].res = "err" /\ reading[s] # "none"
    BY <2>4 DEF ReadWaits
  <2>7. Home'
    BY <1>1, <1>2, <2>1, <2>4 DEF Serving, Home, ReadKinds, s
  <2>8. OneRead'
    BY <1>2, <1>3, <1>4, <2>1, <2>5, <2>6 DEF Serving, OneRead, ReadRuns
  <2>9. Starting'
    BY <1>2, <1>3, <1>4, <1>6, <2>1, <2>5, <2>6 DEF Serving, Starting, ReadRuns
  <2>10. Late'
    <3>1. \A r \in Sessions :
            /\ closes'[r] = 0 => late'[r] = 0
            /\ late'[r] <= 1
            /\ closes'[r] # 0 => reading'[r] = "none"
      BY <1>2, <2>1 DEF Serving, Late
    <3>2. \A d \in Ctx : \A i \in DOMAIN queue'[d] : ReadWaits(d, i)' /\ closes'[queue'[d][i].s] # 0 =>
            ~open'[queue'[d][i].s] /\ (queue'[d][i].res # "err" => late'[queue'[d][i].s] = 0)
      BY <1>1, <1>2, <1>3, <1>5, <2>1, <2>6 DEF Serving, Late
    <3>3. \A d \in Ctx : ReadRuns(d)' /\ closes'[cur'[d].s] # 0 =>
            ~open'[cur'[d].s] /\ (cur'[d].res # "err" => late'[cur'[d].s] = 0)
      BY <1>1, <1>2, <1>3, <1>4, <1>5, <2>1 DEF Serving, Late, ReadRuns
    <3> QED BY <3>1, <3>2, <3>3 DEF Late
  <2>11. Referenced'
    <3> SUFFICES ASSUME NEW r \in Sessions, ~m_closed'[r], fault' # "bad_weak_ptr" PROVE Alive(r)'
      BY DEF Referenced
    <3>1. r # s /\ Alive(r)
      BY <1>2 DEF Serving, Referenced
    <3> QED BY <1>2, <2>1, <2>3, <3>1 DEF Alive, s
  <2>12. Orderly'
    BY <1>2, <1>3, <1>7, <2>4 DEF Serving, Orderly, ReadKinds, s
  <2> QED BY <2>7, <2>8, <2>9, <2>10, <2>11, <2>12 DEF Serving
<1> QED BY <1>8, <1>9 DEF s

(* on_accept, up to append_session: nothing of the session is under way.   *)
LEMMA OnAcceptServing ==
  ASSUME IInv, Serving, NEW c \in Ctx, OnAccept(c)
  PROVE  Serving'
<1> DEFINE s == cur[c].s
<1>1. /\ s \in Sessions /\ c = AcceptCtx /\ accepts[s] = 0 /\ cur[c].kind = "accept" /\ pc[c] = "begin"
  <2>1. pc[c] = "begin" /\ cur[c].kind = "accept"
    BY DEF OnAccept
  <2>2. s \in Sessions /\ c = AcceptCtx
    BY <2>1, HandlerSessions DEF IInv, Core, AcceptInv, HandlerShape
  <2> QED BY <2>1, <2>2 DEF IInv, Core, AcceptInv, AcceptsFresh, AcceptRunning, Unaccepted
<1>2. /\ pc'[c] = "append" /\ cur' = cur /\ \A d \in Ctx : d # c => pc'[d] = pc[d]
  BY DEF OnAccept, Goto, IInv, TypeOK, ThreadTypeOK
<1>3. ~m_closed'[s] /\ \A r \in Sessions : r # s => m_closed'[r] = m_closed[r]
  BY <1>1 DEF OnAccept, IInv, TypeOK, SessionTypeOK
<1>4. accepts'[s] # 0 /\ \A r \in Sessions : r # s => accepts'[r] = accepts[r]
  <2>1. accepts \in [Sessions -> Nat] /\ accepts' = [accepts EXCEPT ![s] = accepts[s] + 1]
    BY DEF OnAccept, IInv, TypeOK, SessionTypeOK
  <2> QED BY <1>1, <2>1
<1>5. UNCHANGED <<queue, ctx, open, reading, m_session_map, closes, late, fault>>
  BY DEF OnAccept, socket
<1>6. /\ reading[s] = "none" /\ s \notin m_session_map /\ closes[s] = 0
      /\ \A d \in Ctx : \A i \in DOMAIN queue[d] : queue[d][i].kind # "accept" => queue[d][i].s # s
      /\ \A d \in Ctx : cur[d].kind \in {"head", "body", "close"} => cur[d].s # s
  <2>1. closes[s] = 0
    <3>1. accepts[s] = closes[s] + (IF m_closed[s] THEN 0 ELSE 1) /\ closes[s] \in Nat /\ m_closed[s]
      BY <1>1 DEF OnAccept, IInv, Core, CallbacksPaired, TypeOK, SessionTypeOK
    <3> QED BY <1>1, <3>1
  <2> QED BY <1>1, <2>1 DEF Serving, Home
<1>7. \A a \in Ctx : pc'[a] \in {"append", "read"} => a = c
  BY <1>1, <1>2 DEF IInv, Core, AcceptInv, HandlerShape
<1>8. \A d \in Ctx : ReadRuns(d)' <=> ReadRuns(d)
  BY <1>1, <1>2 DEF ReadRuns, ReadKinds
<1> HIDE DEF s
<1>9. Home'
  <2>1. /\ \A d \in Ctx : \A i \in DOMAIN queue[d] : queue[d][i].s \in Sessions
        /\ \A d \in Ctx : cur[d].kind # "none" => cur[d].s \in Sessions
    BY HandlerSessions DEF IInv
  <2> QED BY <1>2, <1>4, <1>5, <1>6, <2>1 DEF Serving, Home
<1>10. OneRead'
  BY <1>2, <1>5, <1>8 DEF Serving, OneRead, ReadWaits
<1>11. Starting'
  BY <1>2, <1>4, <1>5, <1>6, <1>7, <1>8 DEF Starting, ReadWaits, ReadRuns, ReadKinds, s
<1>12. Late'
  BY <1>2, <1>5, <1>8 DEF Serving, Late, ReadWaits
<1>13. Referenced'
  <2> SUFFICES ASSUME NEW r \in Sessions, ~m_closed'[r], fault' # "bad_weak_ptr" PROVE Alive(r)'
    BY DEF Referenced
  <2>1. CASE r = s
    BY <1>2, <2>1 DEF Alive, s
  <2>2. CASE r # s
    <3>1. Alive(r)
      BY <1>3, <1>5, <2>2 DEF Serving, Referenced
    <3> QED BY <1>1, <1>2, <1>5, <3>1 DEF Alive
  <2> QED BY <2>1, <2>2
<1>14. Orderly'
  <2>1. \A a \in Ctx : pc'[a] = "append" =>
          /\ ~m_closed'[cur'[a].s]
          /\ \A d \in Ctx : d # a =>
               /\ \A i \in DOMAIN queue'[d] : queue'[d][i].kind = "close" => queue'[d][i].s # cur'[a].s
               /\ cur'[d].kind = "close" => cur'[d].s # cur'[a].s
    BY <1>2, <1>3, <1>5, <1>6, <1>7 DEF s
  <2>2. ~EarlyClose => \A r \in Sessions : m_closed'[r] /\ r \in m_session_map' =>
          \E d \in Ctx : pc'[d] = "remove" /\ cur'[d].s = r
    BY <1>1, <1>2, <1>3, <1>5, <1>6 DEF Serving, Orderly
  <2> QED BY <2>1, <2>2 DEF Orderly
<1> QED BY <1>9, <1>10, <1>11, <1>12, <1>13, <1>14 DEF Serving

(* append_session.                                                         *)
LEMMA AppendServing ==
  ASSUME IInv, Serving, NEW c \in Ctx, AppendSession(c)
  PROVE  Serving'
<1>1. /\ pc[c] = "append" /\ pc'[c] = "read" /\ cur' = cur /\ \A d \in Ctx : d # c => pc'[d] = pc[d]
      /\ m_session_map' = m_session_map \cup {cur[c].s}
  BY DEF AppendSession, Goto, IInv, TypeOK, ThreadTypeOK
<1>2. UNCHANGED <<queue, ctx, m_closed, open, reading, accepts, closes, late, fault>>
  BY DEF AppendSession, socket, history
<1>3. \A a \in Ctx : pc[a] \in {"append", "read"} => a = c
  BY <1>1 DEF IInv, Core, AcceptInv, HandlerShape
<1>4. Home'
  BY <1>1, <1>2 DEF Serving, Home, Starting
<1>5. OneRead' /\ Late'
  BY <1>1, <1>2 DEF Serving, OneRead, Late, ReadWaits, ReadRuns
<1>6. Starting'
  BY <1>1, <1>2, <1>3 DEF Serving, Starting, ReadWaits, ReadRuns
<1>7. Referenced'
  BY <1>1, <1>2 DEF Serving, Referenced, Alive
<1>8. Orderly'
  BY <1>1, <1>2, <1>3 DEF Serving, Orderly
<1> QED BY <1>4, <1>5, <1>6, <1>7, <1>8 DEF Serving

(* The rest of the accept handler, which no session but a new one sees.    *)
LEMMA AcceptRestServing ==
  ASSUME IInv, Serving, NEW c \in Ctx, fault = "none",
         AcceptFailed(c) \/ RearmAccept(c) \/ ListenAgain(c)
  PROVE  Serving'
<1>1. /\ cur[c].kind = "accept" /\ pc[c] \in {"begin", "rearm", "listen"}
      /\ pc'[c] \in {"idle", "rearm", "listen"} /\ cur'[c].kind \in {"accept", "none"}
      /\ \A d \in Ctx : d # c => pc'[d] = pc[d] /\ cur'[d] = cur[d]
  <2>1. cur[c].kind = "accept" /\ pc[c] \in {"begin", "rearm", "listen"} /\ cur[c] \in Handler
    BY HandlerSessions DEF AcceptFailed, RearmAccept, ListenAgain, IInv, Core, AcceptInv, HandlerShape
  <2>2. CASE Goto(c, "rearm") \/ Finish(c)
    BY <2>1, <2>2 DEF Goto, Finish, NoHandler, IInv, TypeOK, ThreadTypeOK
  <2>3. CASE cur' = [cur EXCEPT ![c].s = NewSession] /\ pc' = [pc EXCEPT ![c] = "listen"]
    <3>1. cur'[c].kind = "accept"
      BY <2>1, <2>3 DEF IInv, TypeOK, ThreadTypeOK, Handler
    <3> QED BY <2>1, <2>3, <3>1 DEF IInv, TypeOK, ThreadTypeOK
  <2> QED BY <2>2, <2>3 DEF AcceptFailed, RearmAccept, ListenAgain
<1>2. UNCHANGED <<queue, m_closed, open, reading, m_session_map, accepts, closes, late>>
  BY DEF AcceptFailed, RearmAccept, ListenAgain, socket, history
<1>3. \A s \in Sessions : accepts[s] # 0 => ctx'[s] = ctx[s]
  <2>1. ctx' = ctx \/ (Fresh # {} /\ \E d : ctx' = [ctx EXCEPT ![NewSession] = d])
    BY DEF AcceptFailed, RearmAccept, ListenAgain
  <2>2. Fresh # {} => accepts[NewSession] = 0 /\ NewSession \in Sessions
    BY NewSessionType DEF IInv, Core, AcceptInv, AcceptsFresh
  <2> QED BY <2>1, <2>2 DEF IInv, TypeOK, SessionTypeOK
<1>4. /\ \A d \in Ctx : \A i \in DOMAIN queue[d] : queue[d][i].s \in Sessions
      /\ \A d \in Ctx : cur[d].kind # "none" => cur[d].s \in Sessions
  BY HandlerSessions DEF IInv
<1>5. Home'
  BY <1>1, <1>2, <1>3, <1>4 DEF Serving, Home
<1>6. \A d \in Ctx : ReadRuns(d)' => d # c /\ ReadRuns(d)
  BY <1>1 DEF ReadRuns
<1>7. OneRead' /\ Late'
  BY <1>1, <1>2, <1>6 DEF Serving, OneRead, Late, ReadWaits
<1>8. Starting'
  BY <1>1, <1>2, <1>6 DEF Serving, Starting, ReadWaits
<1>9. Referenced'
  BY <1>1, <1>2 DEF Serving, Referenced, Alive
<1>10. Orderly'
  BY <1>1, <1>2 DEF Serving, Orderly, IInv, Core, AcceptInv, HandlerShape
<1> QED BY <1>5, <1>7, <1>8, <1>9, <1>10 DEF Serving

(* remove_session, at the end of on_close.                                 *)
LEMMA RemoveServing ==
  ASSUME IInv, Serving, NEW c \in Ctx, RemoveSession(c)
  PROVE  Serving'
<1>1. /\ pc[c] = "remove" /\ pc'[c] = "idle" /\ cur'[c].kind = "none"
      /\ \A d \in Ctx : d # c => pc'[d] = pc[d] /\ cur'[d] = cur[d]
      /\ m_session_map' = m_session_map \ {cur[c].s}
  BY DEF RemoveSession, Finish, NoHandler, IInv, TypeOK, ThreadTypeOK
<1>2. UNCHANGED <<queue, ctx, m_closed, open, reading, accepts, closes, late, fault>>
  BY DEF RemoveSession, socket, history
<1>3. \A d \in Ctx : ReadRuns(d)' => d # c /\ ReadRuns(d)
  BY <1>1 DEF ReadRuns
<1>4. Home'
  BY <1>1, <1>2 DEF Serving, Home
<1>5. OneRead' /\ Late'
  BY <1>1, <1>2, <1>3 DEF Serving, OneRead, Late, ReadWaits
<1>6. Starting'
  BY <1>1, <1>2, <1>3 DEF Serving, Starting, ReadWaits
<1>7. Referenced'
  BY <1>1, <1>2 DEF Serving, Referenced, Alive
<1>8. Orderly'
  BY <1>1, <1>2 DEF Serving, Orderly
<1> QED BY <1>4, <1>5, <1>6, <1>7, <1>8 DEF Serving

(* A callback of a read: the first one after on_close(), if it is late.    *)
LEMMA CallbackLate ==
  ASSUME IInv, Serving, NEW c \in Ctx, ReadRuns(c), cur[c].res # "err", Callback(cur[c].s)
  PROVE  \A r \in Sessions :
           late'[r] = late[r] \/ (r = cur[c].s /\ closes[r] # 0 /\ late'[r] = 1)
<1> DEFINE s == cur[c].s
<1>1. s \in Sessions
  BY HandlerSessions DEF IInv, ReadRuns
<1>2. late \in [Sessions -> 0..2] /\ closes[s] \in Nat
  BY <1>1 DEF IInv, TypeOK, SessionTypeOK
<1>3. late' = [late EXCEPT ![s] = IF closes[s] > 0 /\ late[s] < 2 THEN late[s] + 1 ELSE late[s]]
  BY DEF Callback
<1>4. closes[s] # 0 => late[s] = 0
  BY DEF Serving, Late
<1> HIDE DEF s
<1>5. \A r \in Sessions : late'[r] = late[r] \/ (r = s /\ closes[r] # 0 /\ late'[r] = 1)
  BY <1>1, <1>2, <1>3, <1>4
<1> QED BY <1>5 DEF s

(* A header with a wrong sign: a callback and a posted close.              *)
LEMMA HeadBadServing ==
  ASSUME IInv, Serving, NEW c \in Ctx, HeadBad(c)
  PROVE  Serving'
<1> DEFINE s == cur[c].s
           h == Ready("close", s, "ok")
<1>1. /\ pc[c] = "begin" /\ cur[c].kind = "head" /\ cur[c].res = "bad" /\ Callback(s)
      /\ queue' = Post(queue, ctx[s], h)
      /\ UNCHANGED <<ctx, m_closed, open, reading, m_session_map, accepts, closes, fault>>
  BY DEF HeadBad, socket
<1>2. /\ pc'[c] = "idle" /\ cur'[c].kind = "none"
      /\ \A d \in Ctx : d # c => pc'[d] = pc[d] /\ cur'[d] = cur[d]
  BY DEF HeadBad, Finish, NoHandler, IInv, TypeOK, ThreadTypeOK
<1>3. ReadRuns(c) /\ s \in Sessions /\ ctx[s] = c /\ accepts[s] # 0
  BY <1>1, HandlerSessions DEF ReadRuns, ReadKinds, IInv, Serving, Home
<1>4. h \in Handler /\ h.kind = "close" /\ h.s = s
  BY <1>3 DEF Ready, Handler
<1>5. \A r \in Sessions : late'[r] = late[r] \/ (r = s /\ closes[r] # 0 /\ late'[r] = 1)
  BY <1>1, <1>3, CallbackLate
<1> HIDE DEF h
<1>6. PICK n : Posted(c, n, h)
  BY <1>1, <1>3, <1>4, PostFacts DEF IInv, TypeOK
<1>7. /\ \A d \in Ctx : \A i \in DOMAIN queue[d] : queue[d][i].s \in Sessions
      /\ \A d \in Ctx : pc[d] # "idle" => cur[d].s \in Sessions
  BY HandlerSessions DEF IInv
<1>8. \A d \in Ctx : \A i \in DOMAIN queue'[d] : ReadWaits(d, i)' =>
        /\ i \in DOMAIN queue[d] /\ queue'[d][i] = queue[d][i] /\ ReadWaits(d, i)
        /\ queue[d][i].s # s
  <2>1. \A d \in Ctx : \A i \in DOMAIN queue[d] : ReadWaits(d, i) => queue[d][i].s # s
    BY <1>3 DEF Serving, Home, OneRead, ReadWaits, ReadKinds
  <2> QED BY <1>4, <1>6, <2>1 DEF Posted, ReadWaits, ReadKinds
<1>9. \A d \in Ctx : ReadRuns(d)' => /\ d # c /\ ReadRuns(d) /\ cur'[d] = cur[d]
                                     /\ cur[d].s # s /\ cur[d].s \in Sessions
  BY <1>2, <1>3, <1>7 DEF ReadRuns, ReadKinds, Serving, Home
<1> HIDE DEF s
<1>10. Home'
  BY <1>1, <1>2, <1>3, <1>4, <1>6 DEF Serving, Home, Posted
<1>11. OneRead'
  BY <1>1, <1>8, <1>9 DEF Serving, OneRead
<1>12. Starting'
  BY <1>1, <1>2, <1>8, <1>9 DEF Serving, Starting
<1>13. Late'
  <2>1. \A r \in Sessions : /\ closes'[r] = 0 => late'[r] = 0
                            /\ late'[r] <= 1
                            /\ closes'[r] # 0 => reading'[r] = "none"
    BY <1>1, <1>5 DEF Serving, Late
  <2>2. \A d \in Ctx : \A i \in DOMAIN queue'[d] : ReadWaits(d, i)' /\ closes'[queue'[d][i].s] # 0 =>
          ~open'[queue'[d][i].s] /\ (queue'[d][i].res # "err" => late'[queue'[d][i].s] = 0)
    BY <1>1, <1>5, <1>7, <1>8 DEF Serving, Late
  <2>3. \A d \in Ctx : ReadRuns(d)' /\ closes'[cur'[d].s] # 0 =>
          ~open'[cur'[d].s] /\ (cur'[d].res # "err" => late'[cur'[d].s] = 0)
    BY <1>1, <1>5, <1>9 DEF Serving, Late
  <2> QED BY <2>1, <2>2, <2>3 DEF Late
<1>14. Referenced'
  <2> SUFFICES ASSUME NEW r \in Sessions, ~m_closed'[r], fault' # "bad_weak_ptr" PROVE Alive(r)'
    BY DEF Referenced
  <2>1. Alive(r)
    BY <1>1 DEF Serving, Referenced
  <2>2. CASE r = s
    BY <1>4, <1>6, <2>2 DEF Alive, Posted
  <2>3. CASE r # s
    BY <1>1, <1>2, <1>6, <2>1, <2>3 DEF Alive, Posted, s
  <2> QED BY <2>2, <2>3
<1>15. Orderly'
  <2>1. \A a \in Ctx : pc[a] \in {"append", "read"} => cur[a].s # s
    BY <1>3 DEF Serving, Starting, s
  <2> QED BY <1>1, <1>2, <1>4, <1>6, <2>1 DEF Serving, Orderly, Posted
<1> QED BY <1>10, <1>11, <1>12, <1>13, <1>14, <1>15 DEF Serving

(* The steps of the threads.                                               *)
LEMMA ThreadServing ==
  ASSUME IInv, Serving, NEW c \in Ctx, ThreadStep(c)
  PROVE  Serving'
<1>1. CASE StartSession(c)
  <2>1. /\ pc[c] = "read" /\ pc'[c] = "rearm" /\ cur' = cur /\ \A d \in Ctx : d # c => pc'[d] = pc[d]
        /\ StartRead(cur[c].s, "head")
        /\ UNCHANGED <<ctx, open, m_closed, m_session_map, accepts, closes, late, fault>>
    BY <1>1 DEF StartSession, Goto, history, IInv, TypeOK, ThreadTypeOK
  <2>2. cur[c].s \in Sessions /\ "head" \in ReadKinds
    BY <2>1, HandlerSessions DEF IInv, ReadKinds
  <2> QED BY <2>1, <2>2, StartReadServing
<1>2. CASE HeadRead(c) \/ BodyRead(c)
  <2>1. ReadRuns(c) /\ cur[c].s \in Sessions
    BY <1>2, HandlerSessions DEF HeadRead, BodyRead, ReadRuns, ReadKinds, IInv
  <2>2. /\ pc'[c] = "idle" /\ cur'[c] = NoHandler
        /\ \A d \in Ctx : d # c => pc'[d] = pc[d] /\ cur'[d] = cur[d]
    BY <1>2 DEF HeadRead, BodyRead, Finish, IInv, TypeOK, ThreadTypeOK
  <2>3. UNCHANGED <<ctx, open, m_closed, m_session_map, accepts, closes, fault>>
    BY <1>2 DEF HeadRead, BodyRead, history
  <2>4. PICK kind \in ReadKinds : StartRead(cur[c].s, kind)
    BY <1>2 DEF HeadRead, BodyRead, ReadKinds
  <2>5. \A r \in Sessions : late'[r] = late[r] \/ (r = cur[c].s /\ closes[r] # 0 /\ late'[r] = 1)
    <3>1. CASE HeadRead(c)
      BY <3>1 DEF HeadRead, history
    <3>2. CASE BodyRead(c)
      <4>1. cur[c].res # "err" /\ Callback(cur[c].s)
        BY <3>2 DEF BodyRead
      <4> QED BY <2>1, <4>1, CallbackLate
    <3> QED BY <1>2, <3>1, <3>2
  <2> QED BY <2>1, <2>2, <2>3, <2>4, <2>5, StartReadServing
<1>3. CASE HandleClose(c) \/ ReadFailed(c)
  <2>1. /\ pc[c] = "begin" /\ OnClose(c, cur[c].s)
        /\ \/ cur[c].kind = "close" /\ CloseSocket(cur[c].s)
           \/ cur[c].kind \in ReadKinds /\ UNCHANGED <<queue, open, reading>>
        /\ UNCHANGED <<ctx, m_session_map, accepts, late, fault>>
    BY <1>3 DEF HandleClose, ReadFailed, ReadKinds, socket
  <2> QED BY <2>1, OnCloseServing
<1> QED BY <1>1, <1>2, <1>3, DispatchServing, OnAcceptServing, AppendServing, AcceptRestServing,
       RemoveServing, HeadBadServing DEF ThreadStep, HandlerStep

(* Serving is kept by every step.                                          *)
LEMMA NextServing == IInv /\ Serving /\ [Next]_vars => Serving'
<1> SUFFICES ASSUME IInv, Serving, [Next]_vars PROVE Serving'
  OBVIOUS
<1>1. CASE UNCHANGED vars
  BY <1>1 DEF vars, owner, threads, socket, history, Serving, Home, OneRead, Starting, Late, Referenced,
     Orderly, Alive, ReadWaits, ReadRuns
<1> QED BY <1>1, OwnerServing, ThreadServing, WorldServing DEF Next

(* What on_accept starts is served in order until on_close: the invariant  *)
(* the theorems below are read off.                                        *)
THEOREM ServingCorrect == Spec => [](IInv /\ Serving)
<1>1. IInv /\ Serving /\ [Next]_vars => Serving'
  BY NextServing
<1> QED BY <1>1, InitServing, IInvCorrect, PTL DEF Spec

(* A set of at most one element has at most one.                           *)
LEMMA AtMostOne ==
  ASSUME NEW S, \A x, y \in S : x = y
  PROVE  /\ Cardinality(S) \in {0, 1}
         /\ S = {} => Cardinality(S) = 0
<1>1. CASE S = {}
  BY <1>1, FS_EmptySet
<1>2. CASE S # {}
  <2>1. PICK x : x \in S
    BY <1>2
  <2>2. S = {x}
    BY <2>1
  <2>3. Cardinality({x}) = 1
    BY FS_Singleton
  <2> QED BY <1>2, <2>2, <2>3
<1> QED BY <1>1, <1>2

(* The invariant leaves a session with one reader.                         *)
LEMMA ServingOneReader ==
  ASSUME IInv, Serving, NEW s \in Sessions, ctx[s] # 0
  PROVE  Readers(s) <= 1
<1> DEFINE d == ctx[s]
           H == Queued(d, "head", s)
           B == Queued(d, "body", s)
           R == {c \in Ctx : /\ pc[c] \in {"begin", "append", "read"}
                             /\ cur[c].s = s
                             /\ cur[c].kind \in {"accept", "head", "body"}}
           p == IF reading[s] = "none" THEN 0 ELSE 1
<1>1. d \in Ctx
  BY DEF IInv, TypeOK, SessionTypeOK, Ctx
<1>2. /\ \A i \in H : i \in DOMAIN queue[d] /\ queue[d][i].kind = "head" /\ queue[d][i].s = s
      /\ \A i \in B : i \in DOMAIN queue[d] /\ queue[d][i].kind = "body" /\ queue[d][i].s = s
  BY DEF Queued
<1>3. /\ \A i \in H \cup B : i \in DOMAIN queue[d] /\ ReadWaits(d, i) /\ queue[d][i].s = s
      /\ \A i, j \in H \cup B : i = j
  BY <1>1, <1>2 DEF Serving, OneRead, ReadWaits, ReadKinds
<1>4. H = {} \/ B = {}
  BY <1>2, <1>3
<1>5. H \cup B # {} => reading[s] = "none"
  BY <1>1, <1>3 DEF Serving, OneRead
<1>6. \A c \in R : \/ ReadRuns(c) /\ c = d
                   \/ c = AcceptCtx /\ cur[c].kind = "accept"
  BY DEF Serving, Home, ReadRuns, ReadKinds, IInv, Core, AcceptInv, HandlerShape
<1>7. \A c \in R : cur[c].kind = "accept" =>
        /\ reading[s] = "none" /\ H \cup B = {}
        /\ \A e \in Ctx : ReadRuns(e) => cur[e].s # s
  <2> SUFFICES ASSUME NEW c \in R, cur[c].kind = "accept"
               PROVE  /\ reading[s] = "none" /\ H \cup B = {}
                      /\ \A e \in Ctx : ReadRuns(e) => cur[e].s # s
    OBVIOUS
  <2>1. CASE pc[c] = "begin"
    <3>1. accepts[s] = 0
      BY <1>6, <2>1 DEF IInv, Core, AcceptInv, AcceptsFresh, AcceptRunning, Unaccepted, ReadRuns, ReadKinds
    <3> QED BY <1>1, <1>3, <3>1 DEF Serving, Home, ReadRuns, ReadWaits, ReadKinds
  <2>2. CASE pc[c] \in {"append", "read"}
    BY <1>1, <1>3, <2>2 DEF Serving, Starting
  <2> QED BY <2>1, <2>2
<1>8. \A c \in R : ReadRuns(c) => reading[s] = "none" /\ H \cup B = {}
  BY <1>1, <1>3, <1>6 DEF Serving, OneRead, Home, ReadRuns, ReadKinds
<1>9. \A c, e \in R : c = e
  BY <1>6, <1>7
<1>10. R # {} => reading[s] = "none" /\ H = {} /\ B = {}
  BY <1>6, <1>7, <1>8
<1>11. /\ Cardinality(H) \in {0, 1} /\ (H = {} => Cardinality(H) = 0)
       /\ Cardinality(B) \in {0, 1} /\ (B = {} => Cardinality(B) = 0)
       /\ Cardinality(R) \in {0, 1} /\ (R = {} => Cardinality(R) = 0)
  <2>1. (\A i, j \in H : i = j) /\ (\A i, j \in B : i = j)
    BY <1>3
  <2> HIDE DEF H, B, R
  <2>2. Cardinality(H) \in {0, 1} /\ (H = {} => Cardinality(H) = 0)
    BY <2>1, AtMostOne
  <2>3. Cardinality(B) \in {0, 1} /\ (B = {} => Cardinality(B) = 0)
    BY <2>1, AtMostOne
  <2>4. Cardinality(R) \in {0, 1} /\ (R = {} => Cardinality(R) = 0)
    BY <1>9, AtMostOne
  <2> QED BY <2>2, <2>3, <2>4
<1>12. Readers(s) = p + Cardinality(H) + Cardinality(B) + Cardinality(R)
  BY DEF Readers
<1>13. p \in {0, 1} /\ (reading[s] = "none" => p = 0)
  OBVIOUS
<1> HIDE DEF H, B, R, p
<1> QED BY <1>4, <1>5, <1>10, <1>11, <1>12, <1>13

(* A session never has two reads filling m_recv_head and m_recv_data:      *)
(* do_read() is re-armed by its own completion only, on any number of      *)
(* threads, with on_accept, close() and exit() at any moment.              *)
THEOREM AlwaysOneReader == Spec => []OneReader
<1>1. IInv /\ Serving => OneReader
  BY ServingOneReader DEF OneReader
<1> QED BY <1>1, ServingCorrect, PTL

(* After on_etcp_close a session reports at most once more.                *)
THEOREM AtMostOneLateCallback == Spec => []OneLateCallback
<1>1. IInv /\ Serving => OneLateCallback
  BY DEF Serving, Late, OneLateCallback
<1> QED BY <1>1, ServingCorrect, PTL

(* Until exit() destroys the contexts under it, an accepted session that   *)
(* is not closed is held by its pending read or by one of its handlers,    *)
(* however it is used.                                                     *)
THEOREM OpenIsReferenced == Spec => [](fault # "bad_weak_ptr" => OpenSessionReferenced)
<1>1. IInv /\ Serving => (fault # "bad_weak_ptr" => OpenSessionReferenced)
  BY DEF Serving, Referenced, Alive, OpenSessionReferenced, HandlerOf
<1> QED BY <1>1, ServingCorrect, PTL

(* Used with quiet exits, that is always: ~EtcpSession never runs on an    *)
(* open session.                                                           *)
THEOREM QuietReferenced ==
  ASSUME QuietExit
  PROVE  Spec => []OpenSessionReferenced
<1>1. IInv /\ (fault # "bad_weak_ptr" => OpenSessionReferenced) => OpenSessionReferenced
  BY DEF IInv, Core, QuietExitState
<1> QED BY <1>1, IInvCorrect, OpenIsReferenced, PTL

(* With users who close() no connection inside on_etcp_accept, an open     *)
(* session is in the map or about to be put there, and a closed one that   *)
(* is in the map is about to be taken out: clear_sessions() never waits    *)
(* for an entry nobody will erase.                                         *)
THEOREM PatientRegistration ==
  ASSUME ~EarlyClose
  PROVE  Spec => []Registration
<1>1. IInv /\ Serving => Registration
  BY DEF IInv, Core, RegisteredWhileOpen, Serving, Orderly, Registration
<1> QED BY <1>1, ServingCorrect, PTL
=============================================================================
