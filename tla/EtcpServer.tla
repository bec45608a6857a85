----------------------------- MODULE EtcpServer -----------------------------
(***************************************************************************)
(* The life of EtcpServerImpl and of its EtcpSession objects:              *)
(* src/src/etcp_server/etcp_server_impl.cpp and etcp_session.cpp.          *)
(*                                                                         *)
(* One owner thread calls init() and exit().  init() creates               *)
(* ContextCount io_contexts, each run by a thread of its own that takes    *)
(* one handler at a time from the context's queue.  The acceptor lives on  *)
(* context 1, the sessions are spread round robin.  A handler that calls   *)
(* into the server between two of its effects is cut at that call, so that *)
(* the other threads interleave exactly where the code lets them.          *)
(*                                                                         *)
(* The bytes a session carries are the subject of EtcpStream; here a read  *)
(* ends with one of the outcomes the handlers tell apart.                  *)
(***************************************************************************)
EXTENDS Naturals, Sequences, FiniteSets

CONSTANTS
    Sessions,        \* the EtcpSession objects that may be built (a bound)
    ContextCount,    \* thread_count of init(), after clamping
    ReadOutcomes,    \* the ways a read of a session may end
    MaxPostedCloses, \* bound: close handlers of a session the users post at a time
    QuietExit,       \* TRUE: exit() is called while no client is connecting
    EarlyClose,      \* TRUE: a user may close() inside on_etcp_accept in every context
    None             \* no session

ASSUME ContextCountAssumption == ContextCount \in 1..20
ASSUME SwitchAssumption == QuietExit \in BOOLEAN /\ EarlyClose \in BOOLEAN
ASSUME BoundAssumption == MaxPostedCloses \in Nat
ASSUME NoneAssumption == None \notin Sessions

Ctx == 1..ContextCount

Outcome == {"ok", "empty", "bad", "err"}
ASSUME OutcomeAssumption == ReadOutcomes \subseteq Outcome

(* The context that the acceptor and its handlers run on: the first one   *)
(* get_io_context() hands out.                                            *)
AcceptCtx == 1

(* A handler waiting in, or taken from, a context's queue.  "head" and    *)
(* "body" are the completions of the two reads of do_read().              *)
Handler == [kind : {"accept", "close", "head", "body"},
            s    : Sessions,
            res  : {"ok", "empty", "bad", "err"}]

NoHandler == [kind |-> "none"]

(* Where the handler a context runs stands.                               *)
Label == {"idle", "begin", "append", "read", "rearm", "listen", "remove"}

(* Where the owner thread stands: "down" before init() and after exit().  *)
Phase == {"down", "up", "reset", "sweep", "drain", "stop", "join"}

VARIABLES
    app,                \* the owner thread
    m_acceptor,         \* is m_acceptor set
    m_io_context_iter,  \* the context get_io_context() hands out next
    accepting,          \* session whose socket an async_accept is pending on
    queue,              \* queue[c]: handlers ready on context c
    cur,                \* cur[c]: handler the thread of context c runs
    pc,                 \* pc[c]: where that handler stands
    stopped,            \* the contexts were stopped
    ctx,                \* ctx[s]: context of session s, 0 before it is built
    m_closed,           \* EtcpSession::m_closed
    open,               \* is the socket of s open
    reading,            \* reading[s]: the read pending on the socket of s
    m_session_map,      \* the sessions the server has registered
    swept,              \* sessions that clear_sessions() has visited
    accepts,            \* on_etcp_accept calls of s
    closes,             \* on_etcp_close calls of s
    late,               \* on_etcp_recv/on_etcp_error calls after on_etcp_close
    fault               \* what killed the process, if anything did

owner == <<app, m_acceptor, m_io_context_iter, stopped, swept>>
threads == <<queue, cur, pc>>
socket == <<open, reading>>
history == <<accepts, closes, late>>
vars == <<owner, accepting, threads, ctx, m_closed, socket, m_session_map,
          history, fault>>

-----------------------------------------------------------------------------
(* Helpers *)

Post(q, c, h) == [q EXCEPT ![c] = Append(@, h)]

Ready(kind, s, res) == [kind |-> kind, s |-> s, res |-> res]

(* Handlers of session s on context c that wait or run.                   *)
Queued(c, kind, s) == {i \in DOMAIN queue[c] : queue[c][i].kind = kind /\ queue[c][i].s = s}

(* Objects not built yet, and the one the next make_shared returns: any   *)
(* would do, they are interchangeable.                                    *)
Fresh == {s \in Sessions : ctx[s] = 0}
NewSession == CHOOSE s \in Fresh : TRUE

Finish(c) ==
    /\ cur' = [cur EXCEPT ![c] = NoHandler]
    /\ pc' = [pc EXCEPT ![c] = "idle"]

Goto(c, label) ==
    /\ pc' = [pc EXCEPT ![c] = label]
    /\ UNCHANGED cur

(* asio::async_read: on an open socket the operation pends, on a closed   *)
(* one it completes at once with an error.                                *)
StartRead(s, kind) ==
    IF open[s] THEN /\ reading' = [reading EXCEPT ![s] = kind]
                    /\ UNCHANGED queue
               ELSE /\ queue' = Post(queue, ctx[s], Ready(kind, s, "err"))
                    /\ UNCHANGED reading

(* Closing a socket completes its pending read with an error.             *)
CloseSocket(s) ==
    /\ open' = [open EXCEPT ![s] = FALSE]
    /\ reading' = [reading EXCEPT ![s] = "none"]
    /\ queue' = IF reading[s] = "none" THEN queue
                ELSE Post(queue, ctx[s], Ready(reading[s], s, "err"))

(* A callback for s: late once on_etcp_close has been called.             *)
Callback(s) ==
    late' = [late EXCEPT ![s] = IF closes[s] > 0 /\ @ < 2 THEN @ + 1 ELSE @]

(* Slips: on_close() without its test of m_closed, and one that does nothing. *)
OnCloseAlways(c, s) ==
    /\ m_closed' = [m_closed EXCEPT ![s] = TRUE]
    /\ closes' = [closes EXCEPT ![s] = @ + 1]
    /\ Goto(c, "remove")

OnCloseNever(c, s) == Finish(c) /\ UNCHANGED <<m_closed, closes>>

(* EtcpSession::on_close up to remove_session, on the thread of c.        *)
OnClose(c, s) ==
    IF m_closed[s] THEN /\ Finish(c)
                        /\ UNCHANGED <<m_closed, closes>>
                   ELSE /\ m_closed' = [m_closed EXCEPT ![s] = TRUE]
                        /\ closes' = [closes EXCEPT ![s] = @ + 1]
                        /\ Goto(c, "remove")

(* Slip: get_io_context() that does not start over.                       *)
NextCtxUnwrapped == m_io_context_iter

(* The session that do_accept() makes and the context it is given.        *)
NextCtx == IF m_io_context_iter > ContextCount THEN 1 ELSE m_io_context_iter

(* No accept completion is queued or being handled.                       *)
NoAcceptInProgress ==
    /\ cur[AcceptCtx].kind # "accept"
    /\ \A i \in DOMAIN queue[AcceptCtx] : queue[AcceptCtx][i].kind # "accept"

-----------------------------------------------------------------------------
Init ==
    /\ app = "down"
    /\ m_acceptor = FALSE
    /\ m_io_context_iter = 1
    /\ accepting = None
    /\ queue = [c \in Ctx |-> <<>>]
    /\ cur = [c \in Ctx |-> NoHandler]
    /\ pc = [c \in Ctx |-> "idle"]
    /\ stopped = FALSE
    /\ ctx = [s \in Sessions |-> 0]
    /\ m_closed = [s \in Sessions |-> TRUE]
    /\ open = [s \in Sessions |-> FALSE]
    /\ reading = [s \in Sessions |-> "none"]
    /\ m_session_map = {}
    /\ swept = {}
    /\ accepts = [s \in Sessions |-> 0]
    /\ closes = [s \in Sessions |-> 0]
    /\ late = [s \in Sessions |-> 0]
    /\ fault = "none"

-----------------------------------------------------------------------------
(* The owner thread *)

(* init(): contexts and threads, the acceptor on context 1, do_accept().  *)
(* When the bound on sessions is used up nothing is accepted.             *)
InitServer ==
    /\ app = "down"
    /\ app' = "up"
    /\ m_acceptor' = TRUE
    /\ IF Fresh = {} THEN /\ m_io_context_iter' = 2
                          /\ UNCHANGED <<accepting, ctx>>
       ELSE LET c == IF ContextCount = 1 THEN 1 ELSE 2 IN
            /\ m_io_context_iter' = c + 1
            /\ accepting' = NewSession
            /\ ctx' = [ctx EXCEPT ![NewSession] = c]
    /\ UNCHANGED <<threads, stopped, swept, m_closed, socket, m_session_map,
                   history, fault>>

(* init() whose endpoint or acceptor throws: exit() with no acceptor.     *)
InitServerFails ==
    /\ app = "down"
    /\ app' = "reset"
    /\ m_io_context_iter' = 1
    /\ UNCHANGED <<m_acceptor, accepting, threads, stopped, swept, ctx,
                   m_closed, socket, m_session_map, history, fault>>

(* exit() is entered: m_running = false.                                  *)
BeginExit ==
    /\ app = "up"
    /\ QuietExit => NoAcceptInProgress
    /\ app' = "reset"
    /\ UNCHANGED <<m_acceptor, m_io_context_iter, stopped, swept, accepting,
                   threads, ctx, m_closed, socket, m_session_map, history, fault>>

(* m_acceptor.reset(): a pending accept completes with an error.          *)
ResetAcceptor ==
    /\ app = "reset"
    /\ app' = "sweep"
    /\ m_acceptor' = FALSE
    /\ accepting' = None
    /\ queue' = IF accepting = None THEN queue
                ELSE Post(queue, AcceptCtx, Ready("accept", accepting, "err"))
    /\ UNCHANGED <<m_io_context_iter, stopped, swept, cur, pc, ctx, m_closed,
                   socket, m_session_map, history, fault>>

(* Slip: the sweep closes nobody.                                         *)
SweepOnly ==
    /\ app = "sweep"
    /\ \E s \in m_session_map \ swept : swept' = swept \cup {s}
    /\ UNCHANGED <<app, m_acceptor, m_io_context_iter, stopped, accepting,
                   threads, ctx, m_closed, socket, m_session_map, history, fault>>

(* clear_sessions(), first loop: close() every registered session, under  *)
(* m_session_mutex (append_session and remove_session wait for it).       *)
SweepSession ==
    /\ app = "sweep"
    /\ \E s \in m_session_map \ swept :
         /\ swept' = swept \cup {s}
         /\ queue' = IF m_closed[s] THEN queue
                     ELSE Post(queue, ctx[s], Ready("close", s, "ok"))
    /\ UNCHANGED <<app, m_acceptor, m_io_context_iter, stopped, accepting, cur,
                   pc, ctx, m_closed, socket, m_session_map, history, fault>>

SweepDone ==
    /\ app = "sweep"
    /\ m_session_map \subseteq swept
    /\ app' = "drain"
    /\ swept' = {}
    /\ UNCHANGED <<m_acceptor, m_io_context_iter, stopped, accepting, threads,
                   ctx, m_closed, socket, m_session_map, history, fault>>

(* Slip: exit() that does not wait for the map to be empty.               *)
DrainedAtOnce ==
    /\ app = "drain"
    /\ app' = "stop"
    /\ UNCHANGED <<m_acceptor, m_io_context_iter, stopped, swept, accepting,
                   threads, ctx, m_closed, socket, m_session_map, history, fault>>

(* clear_sessions(), second loop: poll until the map is empty.            *)
Drained ==
    /\ app = "drain"
    /\ m_session_map = {}
    /\ app' = "stop"
    /\ UNCHANGED <<m_acceptor, m_io_context_iter, stopped, swept, accepting,
                   threads, ctx, m_closed, socket, m_session_map, history, fault>>

(* The work guards are dropped and every context is stopped.              *)
StopContexts ==
    /\ app = "stop"
    /\ app' = "join"
    /\ stopped' = TRUE
    /\ UNCHANGED <<m_acceptor, m_io_context_iter, swept, accepting, threads,
                   ctx, m_closed, socket, m_session_map, history, fault>>

(* Join the threads and destroy the contexts: waiting handlers and        *)
(* pending operations go, and with them the last references to their      *)
(* sessions and their sockets.  ~EtcpSession of a session that is not     *)
(* closed calls close(), whose shared_from_this() throws in the           *)
(* destructor.                                                            *)
JoinAndDestroy ==
    /\ app = "join"
    /\ \A c \in Ctx : pc[c] = "idle"
    /\ app' = "down"
    /\ stopped' = FALSE
    /\ queue' = [c \in Ctx |-> <<>>]
    /\ open' = [s \in Sessions |-> FALSE]
    /\ reading' = [s \in Sessions |-> "none"]
    /\ fault' = IF \E s \in Sessions : ~m_closed[s] THEN "bad_weak_ptr" ELSE "none"
    /\ UNCHANGED <<m_acceptor, m_io_context_iter, swept, accepting, cur, pc,
                   ctx, m_closed, m_session_map, history>>

-----------------------------------------------------------------------------
(* The threads of the io_contexts *)

(* io_context::run takes the next handler.                                *)
Dispatch(c) ==
    /\ ~stopped
    /\ pc[c] = "idle"
    /\ queue[c] # <<>>
    /\ cur' = [cur EXCEPT ![c] = Head(queue[c])]
    /\ pc' = [pc EXCEPT ![c] = "begin"]
    /\ queue' = [queue EXCEPT ![c] = Tail(@)]
    /\ UNCHANGED <<owner, accepting, ctx, m_closed, socket, m_session_map,
                   history, fault>>

(* The accept completion with an error goes straight to do_accept().      *)
AcceptFailed(c) ==
    /\ pc[c] = "begin" /\ cur[c].kind = "accept" /\ cur[c].res = "err"
    /\ Goto(c, "rearm")
    /\ UNCHANGED <<owner, accepting, queue, ctx, m_closed, socket,
                   m_session_map, history, fault>>

(* EtcpSession::on_accept up to append_session.                           *)
OnAccept(c) ==
    LET s == cur[c].s IN
    /\ pc[c] = "begin" /\ cur[c].kind = "accept" /\ cur[c].res = "ok"
    /\ m_closed[s]
    /\ m_closed' = [m_closed EXCEPT ![s] = FALSE]
    /\ accepts' = [accepts EXCEPT ![s] = @ + 1]
    /\ Goto(c, "append")
    /\ UNCHANGED <<owner, accepting, queue, ctx, socket, m_session_map, closes,
                   late, fault>>

(* append_session, under m_session_mutex.                                 *)
AppendSession(c) ==
    /\ pc[c] = "append"
    /\ app # "sweep"
    /\ m_session_map' = m_session_map \cup {cur[c].s}
    /\ Goto(c, "read")
    /\ UNCHANGED <<owner, accepting, queue, ctx, m_closed, socket, history, fault>>

(* start() ends with do_read().                                           *)
StartSession(c) ==
    /\ pc[c] = "read"
    /\ StartRead(cur[c].s, "head")
    /\ Goto(c, "rearm")
    /\ UNCHANGED <<owner, accepting, ctx, m_closed, open, m_session_map,
                   history, fault>>

(* do_accept(), its test of m_acceptor and the session it makes.          *)
RearmAccept(c) ==
    /\ pc[c] = "rearm"
    /\ \/ /\ ~m_acceptor \/ Fresh = {}
          /\ Finish(c)
          /\ UNCHANGED <<ctx, m_io_context_iter>>
       \/ /\ m_acceptor /\ Fresh # {}
          /\ ctx' = [ctx EXCEPT ![NewSession] = NextCtx]
          /\ cur' = [cur EXCEPT ![c].s = NewSession]
          /\ pc' = [pc EXCEPT ![c] = "listen"]
          /\ m_io_context_iter' = NextCtx + 1
    /\ UNCHANGED <<app, m_acceptor, stopped, swept, accepting, queue, m_closed,
                   socket, m_session_map, history, fault>>

(* do_accept(), its use of m_acceptor: exit() may have reset it since.    *)
ListenAgain(c) ==
    /\ pc[c] = "listen"
    /\ IF m_acceptor THEN /\ accepting' = cur[c].s
                          /\ UNCHANGED fault
                     ELSE /\ fault' = "null_acceptor"
                          /\ UNCHANGED accepting
    /\ Finish(c)
    /\ UNCHANGED <<owner, queue, ctx, m_closed, socket, m_session_map, history>>

(* Slip: the socket is left open.                                         *)
HandleCloseOnly(c) ==
    /\ pc[c] = "begin" /\ cur[c].kind = "close"
    /\ OnClose(c, cur[c].s)
    /\ UNCHANGED <<owner, accepting, queue, ctx, socket, m_session_map,
                   accepts, late, fault>>

(* The handler that EtcpSession::do_close posts.                          *)
HandleClose(c) ==
    LET s == cur[c].s IN
    /\ pc[c] = "begin" /\ cur[c].kind = "close"
    /\ CloseSocket(s)
    /\ OnClose(c, s)
    /\ UNCHANGED <<owner, accepting, ctx, m_session_map, accepts, late, fault>>

(* A read of do_read() ended with an error: on_close().                   *)
ReadFailed(c) ==
    /\ pc[c] = "begin" /\ cur[c].kind \in {"head", "body"} /\ cur[c].res = "err"
    /\ OnClose(c, cur[c].s)
    /\ UNCHANGED <<owner, accepting, queue, ctx, socket, m_session_map,
                   accepts, late, fault>>

(* A header with a wrong sign: on_error() and do_close().                 *)
HeadBad(c) ==
    LET s == cur[c].s IN
    /\ pc[c] = "begin" /\ cur[c].kind = "head" /\ cur[c].res = "bad"
    /\ Callback(s)
    /\ queue' = Post(queue, ctx[s], Ready("close", s, "ok"))
    /\ Finish(c)
    /\ UNCHANGED <<owner, accepting, ctx, m_closed, socket, m_session_map,
                   accepts, closes, fault>>

(* Slip: no return after the do_read() for an empty packet; the read of   *)
(* no bytes that follows is over at once.                                 *)
HeadReadFallsThrough(c) ==
    LET s == cur[c].s IN
    /\ pc[c] = "begin" /\ cur[c].kind = "head" /\ cur[c].res \in {"ok", "empty"}
    /\ IF cur[c].res = "empty" /\ open[s]
       THEN /\ reading' = [reading EXCEPT ![s] = "head"]
            /\ queue' = Post(queue, ctx[s], Ready("body", s, "ok"))
       ELSE StartRead(s, "body")
    /\ Finish(c)
    /\ UNCHANGED <<owner, accepting, ctx, m_closed, open, m_session_map,
                   history, fault>>

(* A header: read the body, or the next header when the size is zero.     *)
HeadRead(c) ==
    LET s == cur[c].s IN
    /\ pc[c] = "begin" /\ cur[c].kind = "head" /\ cur[c].res \in {"ok", "empty"}
    /\ StartRead(s, IF cur[c].res = "ok" THEN "body" ELSE "head")
    /\ Finish(c)
    /\ UNCHANGED <<owner, accepting, ctx, m_closed, open, m_session_map,
                   history, fault>>

(* Slip: nothing is read after a body.                                    *)
BodyReadLast(c) ==
    /\ pc[c] = "begin" /\ cur[c].kind = "body" /\ cur[c].res = "ok"
    /\ Callback(cur[c].s)
    /\ Finish(c)
    /\ UNCHANGED <<owner, accepting, queue, ctx, m_closed, socket,
                   m_session_map, accepts, closes, fault>>

(* A body: do_read() again, then on_etcp_recv.                            *)
BodyRead(c) ==
    LET s == cur[c].s IN
    /\ pc[c] = "begin" /\ cur[c].kind = "body" /\ cur[c].res = "ok"
    /\ StartRead(s, "head")
    /\ Callback(s)
    /\ Finish(c)
    /\ UNCHANGED <<owner, accepting, ctx, m_closed, open, m_session_map,
                   accepts, closes, fault>>

(* Slip: remove_session() that does not erase.                            *)
RemoveNothing(c) ==
    /\ pc[c] = "remove"
    /\ app # "sweep"
    /\ Finish(c)
    /\ UNCHANGED <<owner, accepting, queue, ctx, m_closed, socket,
                   m_session_map, history, fault>>

(* remove_session, under m_session_mutex.                                 *)
RemoveSession(c) ==
    /\ pc[c] = "remove"
    /\ app # "sweep"
    /\ m_session_map' = m_session_map \ {cur[c].s}
    /\ Finish(c)
    /\ UNCHANGED <<owner, accepting, queue, ctx, m_closed, socket, history, fault>>

-----------------------------------------------------------------------------
(* Users of the connections, clients, and the network *)

(* close() of a connection by its user, in a callback or from a thread.   *)
(* The thread that accepts cannot overtake itself: do_close() of a session *)
(* in its own context comes after append_session().                        *)
UserClose(s) ==
    /\ accepts[s] > 0
    /\ ~m_closed[s]
    /\ EarlyClose \/ s \in m_session_map \/ ctx[s] = AcceptCtx
    /\ Cardinality(Queued(ctx[s], "close", s)) < MaxPostedCloses
    /\ queue' = Post(queue, ctx[s], Ready("close", s, "ok"))
    /\ UNCHANGED <<owner, accepting, cur, pc, ctx, m_closed, socket,
                   m_session_map, history, fault>>

(* The pending accept completes: a client, or an error of accept().       *)
AcceptCompletes(res) ==
    /\ accepting # None
    /\ QuietExit => app = "up"
    /\ queue' = Post(queue, AcceptCtx, Ready("accept", accepting, res))
    /\ open' = [open EXCEPT ![accepting] = (res = "ok")]
    /\ accepting' = None
    /\ UNCHANGED <<owner, cur, pc, ctx, m_closed, reading, m_session_map,
                   history, fault>>

(* The pending read completes: data, or the peer closed or reset.         *)
ReadCompletes(s, res) ==
    /\ reading[s] # "none"
    /\ res \in {"bad", "empty"} => reading[s] = "head"
    /\ queue' = Post(queue, ctx[s], Ready(reading[s], s, res))
    /\ reading' = [reading EXCEPT ![s] = "none"]
    /\ UNCHANGED <<owner, accepting, cur, pc, ctx, m_closed, open,
                   m_session_map, history, fault>>

-----------------------------------------------------------------------------
ExitStep ==
    \/ ResetAcceptor
    \/ SweepSession
    \/ SweepDone
    \/ Drained
    \/ StopContexts
    \/ JoinAndDestroy

HandlerStep(c) ==
    \/ AcceptFailed(c)
    \/ OnAccept(c)
    \/ AppendSession(c)
    \/ StartSession(c)
    \/ RearmAccept(c)
    \/ ListenAgain(c)
    \/ HandleClose(c)
    \/ ReadFailed(c)
    \/ HeadBad(c)
    \/ HeadRead(c)
    \/ BodyRead(c)
    \/ RemoveSession(c)

ThreadStep(c) == fault = "none" /\ (Dispatch(c) \/ HandlerStep(c))

OwnerStep == fault = "none" /\ (InitServer \/ InitServerFails \/ BeginExit \/ ExitStep)

World ==
    /\ fault = "none"
    /\ \/ \E s \in Sessions : UserClose(s)
       \/ \E res \in {"ok", "err"} : AcceptCompletes(res)
       \/ \E s \in Sessions, res \in ReadOutcomes : ReadCompletes(s, res)

Next ==
    \/ OwnerStep
    \/ \E c \in Ctx : ThreadStep(c)
    \/ World

Spec == Init /\ [][Next]_vars

(* The threads of the contexts keep running handlers, and exit() once     *)
(* entered keeps going; users, clients and the network owe nothing.       *)
Fairness ==
    /\ \A c \in Ctx : WF_vars(ThreadStep(c))
    /\ WF_vars(fault = "none" /\ ExitStep)

FairSpec == Spec /\ Fairness
-----------------------------------------------------------------------------
(* Properties *)

OwnerTypeOK ==
    /\ app \in Phase
    /\ m_acceptor \in BOOLEAN
    /\ m_io_context_iter \in 1..(ContextCount + 1)
    /\ stopped \in BOOLEAN
    /\ swept \subseteq Sessions
    /\ accepting \in Sessions \cup {None}
    /\ m_session_map \subseteq Sessions
    /\ fault \in {"none", "null_acceptor", "bad_weak_ptr"}

ThreadTypeOK ==
    /\ queue \in [Ctx -> Seq(Handler)]
    /\ cur \in [Ctx -> Handler \cup {NoHandler}]
    /\ pc \in [Ctx -> Label]
    /\ \A c \in Ctx : pc[c] = "idle" <=> cur[c] = NoHandler

SessionTypeOK ==
    /\ ctx \in [Sessions -> 0..ContextCount]
    /\ m_closed \in [Sessions -> BOOLEAN]
    /\ open \in [Sessions -> BOOLEAN]
    /\ reading \in [Sessions -> {"none", "head", "body"}]
    /\ accepts \in [Sessions -> Nat]
    /\ closes \in [Sessions -> Nat]
    /\ late \in [Sessions -> 0..2]

(* The type invariant.                                                    *)
TypeOK == OwnerTypeOK /\ ThreadTypeOK /\ SessionTypeOK

(* A handler of s waits on, or is run by, the context c.                  *)
HandlerOf(s) ==
    \E c \in Ctx : \/ pc[c] # "idle" /\ cur[c].s = s
                   \/ \E i \in DOMAIN queue[c] : queue[c][i].s = s

(* Every session is reported accepted at most once, closed at most once   *)
(* and never closed without having been accepted, whichever of on_accept, *)
(* the posted close and the failed read run, in whatever order            *)
(* (on_accept and on_close test and set m_closed).                        *)
CallbacksPaired ==
    \A s \in Sessions :
        /\ accepts[s] <= 1
        /\ accepts[s] = closes[s] + (IF m_closed[s] THEN 0 ELSE 1)

(* A read that was complete when the connection was closed still reports  *)
(* its outcome after on_etcp_close, but it is the only one: the read it   *)
(* starts fails and on_close does nothing the second time.                *)
OneLateCallback == \A s \in Sessions : late[s] <= 1

(* do_read() is re-armed by its own completion only: a session never has  *)
(* two reads filling m_recv_head and m_recv_data.                         *)
Readers(s) ==
    (IF reading[s] = "none" THEN 0 ELSE 1)
    + Cardinality(Queued(ctx[s], "head", s)) + Cardinality(Queued(ctx[s], "body", s))
    + Cardinality({c \in Ctx : /\ pc[c] \in {"begin", "append", "read"}
                               /\ cur[c].s = s
                               /\ cur[c].kind \in {"accept", "head", "body"}})
OneReader == \A s \in Sessions : ctx[s] # 0 => Readers(s) <= 1

(* The map holds weak pointers: what keeps an accepted session alive is   *)
(* the `self` captured by its pending read or by one of its handlers.     *)
(* Were there none, ~EtcpSession would run close() on an open session.    *)
OpenSessionReferenced ==
    \A s \in Sessions : ~m_closed[s] => reading[s] # "none" \/ HandlerOf(s)

(* The map that exit() waits on: an open session is registered, or its    *)
(* on_accept is about to register it; a closed one that is registered is  *)
(* about to be removed by its on_close.  Otherwise clear_sessions() waits *)
(* for an entry nobody will erase.                                        *)
Registration ==
    \A s \in Sessions :
        /\ ~m_closed[s] =>
             \/ s \in m_session_map
             \/ \E c \in Ctx : pc[c] = "append" /\ cur[c].s = s
        /\ m_closed[s] /\ s \in m_session_map =>
             \E c \in Ctx : pc[c] = "remove" /\ cur[c].s = s

(* exit() leaves no accepted session open: each was reported closed, and  *)
(* none is destroyed with the contexts while open (its destructor would   *)
(* terminate the process).                                                *)
CleanShutdown ==
    /\ fault # "bad_weak_ptr"
    /\ app = "down" => \A s \in Sessions : m_closed[s]

(* exit() returns.                                                        *)
ExitTerminates == app \notin {"down", "up"} ~> app = "down"

(* A connection its user closed is reported closed, whether the posted    *)
(* handler or a failing read gets there first, exit() included.           *)
CloseIsReported ==
    \A s \in Sessions :
        (~m_closed[s] /\ \E c \in Ctx : Queued(c, "close", s) # {}) ~> m_closed[s]

(* What a user of EtcpServer may rely on: see EtcpServerContract.         *)
phase == IF app \in {"down", "up"} THEN app ELSE "closing"
conn == [s \in Sessions |-> IF accepts[s] = 0 THEN "idle"
                            ELSE IF m_closed[s] THEN "closed" ELSE "open"]
Contract == INSTANCE EtcpServerContract

(* The server implements its contract: connections are accepted while the *)
(* server is up, each is closed once, and exit() returns only after the   *)
(* last one was closed and, the threads running, does return.             *)
ImplementsContract == Contract!Spec
=============================================================================
