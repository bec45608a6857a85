# A verification of network_utility

TLA+ models of the networking library in `src/src`, the TLC configurations that
check them and TLAPS proofs about them. Vendored code (`asio`, `websocket`,
`httplib`, `json`, `enet`) is not modelled; what a model needs of it is modelled
from how this code relies on it, and PROJECT.json marks the definition external.
That code is more than nine tenths of the repository's lines, so the share of
all lines that the models cover stays small however much of the library itself
they cover.

## 1. Inventory

| Component | State it keeps | Operations | What is hard about it |
|---|---|---|---|
| **EtcpServer** `etcp_server/etcp_server_impl.cpp` | contexts, their threads and work guards, round-robin iterator, `m_acceptor`, `m_session_map` of weak pointers under a mutex | `init`, `exit`, `append_session`, `remove_session`, `do_accept` | `exit()` runs on the owner's thread while 1 to 20 threads accept, read and close; it waits for a map that others empty |
| **EtcpSession** `etcp_server/etcp_session.cpp` | `m_closed`, socket, `m_recv_head`, `m_recv_data`, `m_send_data_list`; alive while a handler holds `self` | `start`, `close`, `send_message`, `do_read`, `do_write` | callbacks once and in order, one reader and one writer, frames cut anywhere by TCP, close against failing reads |
| **EtcpClient** `etcp_client/*.cpp` | one context and thread, one `m_socket` reused by every connection, `m_closed`, `m_request`, the list and the buffers | `init`, `exit`, `connect`, `close`, `send_message`, CONNECT handshake | completions do not know their connection: after a reconnection old ones act on the new socket |
| **TaskActuator** `task_actuator/task_actuator.hpp` | `m_running`, queue, mutex, condition, threads | `async_exec`, destructor | wakeups, notification after unlocking, `m_running` written without the mutex |
| **TcpGatewayServer** `tcp_gateway_server/*.cpp` | contexts, acceptor; per tunnel two sockets and two buffers | CONNECT text and 7-byte binary requests, relay | answer sent before the target is reached, two protocols told apart by their first bytes, end of accepting after one error |
| **TcpForwardServer** `tcp_forward_server/*.cpp` | `m_acceptor_map`, one context; relay sessions | acquire and release a local port | handlers with a raw `this` of an acceptor that may be released |
| **EnetClient** `enet_client/*.cpp` | event list, callback list, send list, three threads, `ENetHost`, `m_enet_peer` | `connect`, `close`, `send_message`, `exit` | `exit()` does the event thread's work on another thread; lost wakeups; a close reported twice; one peer for all connections |
| **WebsocketClient** `websocket_client/*` | as EnetClient, with a ping thread and a work thread; `m_connection`, `m_callback` | the same | the same, handlers of old connections, a connection that is being opened cannot be closed |
| **MulticastHelper** `multicast_helper/*` | send list, receive list under a mutex, three threads | `send_data`, `do_recv`, `handle_data`, `exit` | one send at a time although sends are repeated, lost wakeup at exit |
| **string_codec** | none | hex and base64 | padding, partial groups |
| **WutnetClient** | which client it forwards to, `m_sink` | forwards | order of `exit` and callbacks |
| **HttpClient**, HttpManager | a TaskActuator with two workers | get, post, upload, download as tasks | the pool's |
| HttpRequest, JsonHelper, base, singleton | none | conversions, one system call each | nothing concurrent |

How they interact: users call the facades from their threads and get callbacks
(`on_etcp_*`) on the threads of the contexts. The facades post handlers to an
asio context; sessions call back into the server (`append_session`,
`remove_session`). A client reaches a server directly or through a gateway,
with which it first speaks HTTP CONNECT; the forward server reaches the gateway
with a 7-byte request. Client and session share no code, but `do_write` and
`do_read` are the same text in both. HttpManager is the only user of
TaskActuator.

What makes each correct, in brief: callbacks come once and in pairs; `exit()`
returns, and returns only when no connection is left; messages arrive whole and
in order; `connect()` and `close()` are answered; a task is started, and a pool
can be destroyed; a tunnel carries what it was given. The full list of what can
go wrong, each at its line, is `hazards` in PROJECT.json.

## 2. Modules

| Module | Models | Checked by | Proved in |
|---|---|---|---|
| `EtcpServer` | the life of server and sessions | server, server_exit_race, server_early_close | `EtcpServerProofs` |
| `EtcpServerContract` | what a user of EtcpServer may rely on (abstract) | refined by `EtcpServer` | safety: `EtcpServerProofs` |
| `EtcpStream` | one direction of a connection, to the byte | stream | `EtcpStreamProofs` |
| `MessageChannel` | what a sender and a receiver are promised (abstract) | refined by `EtcpStream` and, in both directions, by `Tunnel` | safety: `EtcpStreamProofs`, `TunnelProofs` |
| `EtcpClient` | a client and its reconnections | client, client_reconnect | `EtcpClientProofs` |
| `TaskActuator` | the thread pool | task_actuator, task_actuator_lost_wakeup | `TaskActuatorProofs` |
| `Relay` | a session of the forward server or of the gateway | in `Tunnel` | `TunnelProofs` |
| `Tunnel`, `MCTunnel` | acceptor or client, forward session, gateway, gateway session, target | tunnel | `TunnelProofs` |
| `EnetClient` | the ENet client's threads | enet, enet_reconnect | `EnetClientProofs` |
| `WebsocketSession` | the websocket client's threads | websocket | `WebsocketSessionProofs` |
| `Multicast` | the multicast helper | | `HelperProofs` |
| `StringCodec` | hex and base64 | | `HelperProofs` |

Constants get their values in the `.cfg` files directly. The operators whose
comment begins with "Slip" or "A slip" belong to no specification: each is a
plausible mistake in the definition that follows it, and PROJECT.json
(`mutants`) says which property finds it.

### EtcpServer

`app` is the owner's thread: `InitServer`, then the steps of `exit()` that other
threads can see between: `BeginExit` (`m_running = false`), `ResetAcceptor`,
`SweepSession` for each entry of the map (a step each, with the mutex held, so
`AppendSession` and `RemoveSession` wait), `Drained` (the poll for an empty
map), `StopContexts`, `JoinAndDestroy`. Each context `c` has a queue and a
thread that takes one handler at a time (`Dispatch`); `pc[c]` cuts a handler
where it calls into the server or tests and then uses `m_acceptor`:
`OnAccept`, `AppendSession`, `StartSession`, `RearmAccept`, `ListenAgain`, and
`RemoveSession` at the end of `OnClose`. A read ends with an outcome the
handlers tell apart: `ok`, `empty` (size zero), `bad` (sign) or `err`.

A session is destroyed when its last handler goes. The model does not remove
it, it asks instead that an open session always has a handler
(`OpenSessionReferenced`). `JoinAndDestroy` is where the rest is destroyed; a
session open there runs `close()` in its destructor, whose `shared_from_this()`
throws: `fault = "bad_weak_ptr"`. `fault = "null_acceptor"` is `m_acceptor` used
after it was reset; only an exit that is not quiet meets it. The unsynchronised accesses to `m_acceptor` and `m_closed`
are modelled as accesses in some order: `m_closed` is written by the context
thread only, and what a closing thread reads of it decides only whether a
handler is posted.

`EtcpServerContract` has a phase and a state per connection. Its fairness says
that once `exit()` is entered every connection is closed and `exit()` returns.

### EtcpStream

A byte is (part, message, place), so that a misaligned decoder can be told from
a good one. Initially the wire may also hold `Noise`, what a peer that does not
speak the protocol wrote before it left: the sign check is for these peers, and
NoFalseAlarm says that it reports nobody else. `Transfer(n)` and `Receive(n)` move any number of bytes that fits,
which is what `transfer_all` is built over. `Deliver` is apart from
`HandleBody` because `do_read()` is called before `m_recv_data` is given away.
A header announces the size of its packet in 32 bits (`Announced`, modulo
`SizeModulus`): a packet of 4 GiB or more is announced too short and what is left
of it is read as headers. What is checked and proved about the framing is for
packets that a header can announce (`Announceable`).

### EtcpClient

One queue, one thread; `pending` holds the operations under way on `m_socket`.
Closing, or assigning a new socket in `real_connect()`, completes them with an
error: the completions wait in the queue like those that had succeeded, and
their handlers find whatever socket is there then. `line` is what was written
on the present connection, `user` what the callbacks made the user believe, and
`odd` that a callback contradicted it.

### Relay and Tunnel

`Relay` is the text that TcpForwardSession and TcpGatewaySession share: for each
direction one operation under way (`chain`), a read of what is there, then a
write of all of it, then the next read; any error stops both. A connection is a
record with the bytes in flight in each direction and the ends that closed it.
The module has a specification of its own, a relay between peers that do
anything, which is what is proved about. `Tunnel` instantiates it twice, for
`asked`-`middle` and for `middle`-`last`, and adds what happens before the
sessions: `Acquire` draws the key of the forward message (never 0 or 'C'),
`Begin`, `NearConnected`, `WriteRequest` and `ReadAnswer` are the nested handlers of
`TcpForwardAcceptor::do_accept`, or of `do_proxy()` when `mode = "client"`;
`GatewayHead`, `GatewayBody`, `GatewayAnswer` and `GatewayConnected` the gateway's.
A byte is the set of its bits that are one, which makes `^` the symmetric
difference; those of the handshake have `Width` bits, payload bytes others. A
request has one byte of key, one of address and one of port, so that all keys
and the prefix "CONNECT" (three bytes here) can be enumerated. `Release` deletes the
acceptor while its handlers wait, that of a successful accept included (`Begin`);
`dangling` is their use of it, after which the process goes on or dies (`Crash`).
The request is a member of the acceptor, and `async_write` reads it where it is:
what `NearConnected` writes once the acceptor is `Gone`, or has still to write when
the memory is `Overwritten`, is the request or anything of the constant `Freed`.
`stray` records that it was not the request; from then on no more payload is sent
or recorded. The freed address of the gateway is taken to be that of the gateway,
or one that cannot be connected to (`NearFails`). Reads may stop anywhere, and
`async_read_until` may take in more than it was asked for.

### EnetClient and WebsocketSession

Both classes queue events for an event thread and results for a callback
thread. `pc` has one label per thread; a thread that found nothing to do is
"about" to wait and still holds its mutex, so that posting waits for it, but
`exit()`, which takes no mutex, may notify before it waits. `exit()` runs
`do_close()` on the owner's thread, beside the event thread: the same actions
with `t = "owner"`.

In `EnetClient`, `peer` is the state of the only peer of the host and `ptr` says
whether `m_enet_peer` points to it. In `WebsocketSession`, `state` is the last
connection's, `ptr` says whether `m_connection` still points to it, `callback` is
`m_callback`, and `leftover` are handlers that a terminated connection has left
in a stopped `m_client` for the next `run()`. Two threads joining one thread,
and a null `m_connection` dereferenced, are undefined: the process may end.
`silent` is what the ping thread's two times say of an open connection, that
its pong is overdue; they are reset only when the thread looks and finds no open
connection. `ping()` comes a step after that look, on the connection it looked
at: it throws when that is closed by then (`PingThrows`), which ends the process.

### Multicast and StringCodec

`Multicast` starts after `init()`. Any datagram may arrive, at any time and any
number of times; sends fail as they like. `StringCodec` gives the output of each
function position by position, which is how the loops fill it, and the
conditions under which they return true; `NullData` is what `data()` of an empty
vector may give, which `hex_encode` rejects and `base64_encode` does not.

### TaskActuator

Each worker's loop at its reads of `m_running`, the mutex and the wait;
`async_exec()` in two steps, since it notifies after unlocking; the destructor
in three, without the mutex, as in the code.

## 3. Runs

| Run | Bounds | Distinct states | What it shows |
|---|---|---|---|
| server | 2 sessions, 2 contexts, all outcomes, 1 posted user close per session | 191,000 | callbacks pair; at most one late callback; one reader; an open session is referenced and registered; quiet exits are clean and return; closes are reported; the contract with its fairness |
| server_exit_race | 2 sessions, 1 context, clients at any time | violation | finding 1 |
| server_early_close | 1 session, 2 contexts | violation | finding 2 |
| stream | 3 messages of 1 or 2 bytes, sizes announced modulo 3, headers of 2, 3 bytes in flight | 209,000 | one write, whole frames, no false alarm, refinement of `MessageChannel` |
| client | 3 `connect()`, 2 messages, packets of 1 or 2 bytes received, with and without gateway | 133,000 | one writer, one reader, buffers in place, callbacks pair, `connect()` and `close()` answered |
| client_reconnect | as client | violation | finding 3 |
| task_actuator | 2 workers, 3 tasks, calm destructor | 32,000 | no task stranded, tasks started, destructor returns |
| task_actuator_lost_wakeup | 2 workers, 2 tasks | violation | finding 4 |
| tunnel | any two ends behind a forward port, patient ones of a client, bytes of 2 bits and every key, a target that is reached and one that is refused, 2 payload bytes each way, buffers of 2, 3 bytes in flight, a released port's message left alone, replaced by another or gone | 303,000 | the gateway goes where it was asked to, unless it is written a freed message; both directions refine `MessageChannel`; the end of a part reaches the others |
| enet | 2 `connect()`, 1 `close()` | 27,000 | the last callback is true when all is quiet; a connection has a thread that services it; `connect()` is answered |
| enet_reconnect | as enet | violation | finding 5 |
| websocket | 2 `connect()`, 1 `close()` of the user's and any of the ping thread's | 619,000 | callbacks pair per connection and are true; `exit()` leaves no thread; `connect()` is answered; silent connections are closed |

Why the bounds are enough. Server: two sessions let one be accepted while
another reads, closes or is swept, and two contexts put the acceptor's thread
and a session's thread apart; a third session or thread only repeats a role.
The session that asks for a close twice is the user and `exit()`. Since objects
are interchangeable, `NewSession` chooses one. Stream: headers of two bytes can
be cut, bodies of one and two can be shorter than, or as long as, a header, and
three bytes in flight let a read end in the middle of a chunk while the next is
on its way; three messages fill the list while a write is under way, and the largest packet
has the largest size that a header can announce. Client:
a stale completion needs one reconnection, a stale completion of a stale
completion two. Pool: with two workers one can take the task the other was
woken for; the third task finds both busy. Tunnel: with two payload bytes and
buffers and connections that hold two and three, a read can be short, a write
can be cut, and payload can follow a handshake in the same connection; a target
whose forward message would read "CONNECT" under the key 'C' shows why that key
is not drawn. What is `Freed` is a request for another target, which the gateway
grants, or nothing, which leaves it waiting. ENet and websocket: a second
connection is what a stale handler, a forgotten peer or a late report needs, one close lets it be closed by the user
before it is replaced, and exit() may come at any step.

Assumptions that the passing runs make, each with the run that shows why:

- `QuietExit`: `exit()` is called while no client is connecting (server_exit_race).
- `EarlyClose = FALSE`: users close a connection only once `on_accept()` has
  registered it (server_early_close), or when it is served by the context that
  accepts, whose thread runs the close after the registration.
- `Impatient = FALSE`: users connect again only after `on_etcp_close`, and
  behind a gateway do not close before they were told of a connection. With
  TRUE, TLC finds BodyInPlace violated: two readers after `connect()` on a live
  connection (`etcp_client_impl.cpp:345`), which that function means to support.
- `Patient = {"client"}`: clients behind a gateway send after `on_etcp_connect`, and
  their targets speak when spoken to. With an empty set, TLC finds bytes lost
  (CarriesUp on the run's other constants, CarriesDown once a connection holds
  four bytes, one more than a request): `async_read_until`
  (`etcp_client_impl.cpp:242`, `tcp_gateway_server_impl.cpp:217`) reads past the
  blank line, and what it read stays in its buffer. Behind a local forward port
  nobody has to wait, since the acceptor reads the one byte of the answer and
  the gateway the seven of the request.
- TornDown excepts a gateway whose one failed `async_accept` was its last
  (`gstage = "deaf"`), where a connection waits that nobody reads, and one that was
  written a freed message which is no whole request (`Starved`).
- `CalmExit`: the pool is destroyed while no worker is between its test and its
  wait (task_actuator_lost_wakeup).

Fairness. Threads run: a context's thread takes handlers as long as there are
any (WF on its steps), a call of `exit()` or of the destructor goes on once
begun (WF), a worker that waits for a mutex that is free again and again gets
it (SF on `Lock`). `wait()` need not end by itself. The network owes a stream
WF as long as it is not reset, and `connect` an answer, because TCP gives up;
it owes no other completion: liveness of the client's `close()` and of
`exit()` may not depend on a peer. The threads of the ENet and of the websocket
client go on when they can, `enet_host_service` ends after five seconds, a
websocket handshake times out, and the ping thread's times come; the ends of a
tunnel read what arrives. Users owe nothing. `exit()` polls every 5 ms
and the poll is one enabled step: WF.

Deadlock is checked in the server's passing run and in the client's. A stream
whose messages are all delivered, a pool that was destroyed, a tunnel that was
torn down and a client that exited have stopped for good, so those
configurations do not, and neither do the violation runs of the server and the
pool.

### Findings

1. **A connection accepted during `exit()`** (`etcp_server_impl.cpp:107`) is not
   in the map when it is swept. It blocks `exit()` until its peer leaves, or is
   destroyed open and its destructor throws.
2. **A connection closed in `on_etcp_accept`** (`etcp_session.cpp:127`) of a
   server with several threads may be removed before it is appended; `exit()`
   never returns.
3. **The packet of an old connection on a new one** (`etcp_client_impl.cpp:281`):
   the failed read has reported the close, the user reconnects, and the handler
   of the last write of the old connection carries on with the old list.
4. **A worker that cannot be joined** (`task_actuator.hpp:70`).
5. **An ENet client that cannot connect again** (`enet_client_impl.cpp:348`):
   `close()` leaves the host's only peer disconnecting and services it no more.

Met while modelling, without a run of its own: `do_accept()` tests `m_acceptor`
and uses it while `exit()`, on another thread, may reset it
(`etcp_server_impl.cpp:189`; with `QuietExit = FALSE` TLC reaches
`fault = "null_acceptor"`); `send_message()` accepts packets of 4 GiB and more,
whose announced size is truncated (`etcp_session.cpp:103`, `etcp_client_impl.cpp:190`;
with `SizeModulus = 2` TLC finds NoFalseAlarm violated); an ENet `exit()` beside
`do_connect()` may leave a send thread on a destroyed host, and a send thread
that ended by itself is still joinable when the client is destroyed
(`NoThreadLeft` of `EnetClient` does not hold); a websocket `connect()` that comes
while an earlier one is being answered keeps the event thread in `join()` until
that connection ends (`Deaf`), and `exit()` waits for a handshake
(`websocket_client_impl.h:518`); the websocket ping thread calls a `ping()` that
throws, outside any `try`, on a connection that may have been closed since its
test, `exit()`'s own close included (`websocket_client_impl.h:351`, `PingThrows`),
and closes a healthy connection that opens before its times of a silent one were
reset (`websocket_client_impl.h:339`); a connection that is being set up when its forward
port is released writes its request from freed memory, and may reach any target
(`tcp_forward_acceptor.cpp:130`; without `stray` in `RightTarget` TLC finds it
violated); the wakeups of these two clients and of the
multicast helper can be lost as the pool's (`enet_client_impl.cpp:164`,
`websocket_client_impl.h:389`, `multicast_helper_impl.cpp:192`); a multicast helper
cannot be initialised twice, its sockets being still open; `base64_decode` checks
only the last two symbols and decodes foreign ones elsewhere to other bytes.

## 4. Proofs

For every value of the constants, from the assumptions named in the modules:

- `EtcpServerProofs`. `TypeCorrect` by cases on the actions. `IInvCorrect`:
  `TypeOK /\ Core`. CallbacksPaired is not inductive: that a session is
  accepted once depends on there being one accept under way, pending, queued or
  running, on context 1 and for a session nobody has accepted (`AcceptInv`).
  That no session is open when `exit()` returns follows from registration while
  open (`RegisteredWhileOpen`), from the empty map, and from the fact that a
  quiet exit meets no session between `on_accept` and `append_session`
  (`QuietExitState`), which in turn needs what `init()` and `exit()` leave
  behind (`OwnerState`). From the invariant: `CallbacksAlwaysPaired`,
  `QuietShutdown` (CleanShutdown) and `ContractImplemented`, the refinement of the
  contract's safety, step by step; the last two under `QuietExit`.

  A second invariant, `Serving` (`ServingCorrect`), follows one session through
  the threads. Its handlers run in its own context, and only after `on_accept`
  (`Home`). It has one read, pending, complete or being handled (`OneRead`), and
  none while it is still being started; if `close()` came before the start then
  the socket is closed already, so that `start()`'s read can only fail
  (`Starting`). What is left after `on_close` is one complete read that finds the
  socket closed and has reported nothing yet (`Late`). Until then something of
  the session is under way (`Referenced`). From it: `AlwaysOneReader` and
  `AtMostOneLateCallback` for every use of the server; `OpenIsReferenced` for
  every use, until `exit()` has destroyed a context under an open session, which
  is finding 1, and `QuietReferenced` without this exception when exits are
  quiet; `PatientRegistration` when users do not close inside `on_etcp_accept`,
  without which the property is false (finding 2).
- `EtcpStreamProofs`. `OneWriteCorrect` and `FramesPairedCorrect` from one
  invariant about the sender: the list is empty or starts with a header or its
  body, and then one write, or one completion, is there.

  The other half is `StreamInv`. The peer is a sender (`Framed`) or a stranger who
  writes noise (`Stranger`). With a sender, the bytes in flight follow each
  other, and the last byte the receiver took in (`InFlight`); the byte the sender
  writes next continues them, and the messages that wait for the strand are
  those not in the list yet, in order (`Source`); the receiver has one read under
  way or complete (`Reading`), and what is in its buffers is what was sent
  (`Buffers`). `Apart` says how many bytes lie between two bytes of one stream,
  within a header, a packet or across a boundary; by it "byte by byte" is one
  formula for all sizes, and reads and writes may be cut anywhere. From it:
  `TypesCorrect`, `NeverFalseAlarm`, and `StreamIsChannel`, the refinement of
  `MessageChannel`'s safety, step by step. Headers have any size,
  packets any size that a header can announce (`Announceable`, which
  `NeverFalseAlarm` and `StreamIsChannel` assume and TLC finds necessary), and the
  network any capacity that holds a header, as it must to deliver the stranger's
  noise. `TypesCorrect` and the sender's theorems need no such bound. This invariant was checked with TLC on the constants of the
  run `stream` before it was proved.
- `EtcpClientProofs`. `AlwaysOneWrite` holds for every user: each list has one
  write to come, that of its first chunk, through any reconnections (`Writing`).
  `PatientOneReader`, `PatientBodyInPlace`, `PatientCallbacksPaired` and
  `PatientConnectedIsWatched` are about patient users (`Impatient = FALSE`; why
  is told above), from `PatientInv`. Completions do not say which connection
  they belong to, so the invariant has to: a user who is idle may have one
  completion of a read left, and then the socket is closed (`Idle`); while he
  waits there is one handshake (`OneDial`), which finds the socket closed or a
  `do_close()` before it in the queue (`DialsClosed`), and the old completion
  comes before the handshake's and, once there is a new socket, has failed
  (`Stale`), since the context hands handlers out in order. `m_closed` is cleared
  when TCP is connected, and with a gateway the user is told only after the
  CONNECT answer; that no `close()` comes between is what `Phase` says. Clients
  with and without a gateway are covered.
- `TaskActuatorProofs`. `TypeCorrect`, `MutualExclusion`, `NeverStranded`: the
  invariant ties the mutex to the program counters; a worker about to sleep
  holds it, and saw an empty queue.
- `TunnelProofs`. `AlwaysRightTarget`, for all keys, targets and users, patient or
  not: what the gateway has not read yet, on the connection and in the hands of
  the one who asks, begins with the request (`Asked`), and a request decodes to
  its target because applying a key twice is the identity and no key makes a
  binary request begin as a text one. The invariant holds until `stray`, which
  only a deleted acceptor brings about (`StrayStays`, `GoneStays`), whatever bytes
  its memory holds.

  `TunnelIsChannels` composes both handshakes and both sessions, and shows the
  safety of `MessageChannel` in both directions. The theorem supposes
  that clients that speak CONNECT are `Patient`, as the run does; otherwise the
  property is false, as told above; a tunnel that went astray is over, so that
  nothing is promised of it. The invariant is in two parts. `Order` ties
  the stages of the two sides together: the gateway reads its request to the end and nothing
  more (`Taken`), the answer is the first thing it writes and is read to its end
  and no further (`Answered`), because whoever might send too early waits
  (`Waiting`). `StreamDown` and `StreamUp` then say what the bytes sent have become:
  those beyond both sessions, then those in the session and connection between,
  then the rest. A session that stops loses what it holds, so that the three
  parts only count up to the first gap (the level of `Stream`). TLC finds both parts
  true on the constants of the run tunnel.

  `RelayCarries` is about `Relay`'s own specification, a session between peers
  that write anything at any time: until it stops, what its peers received, what
  is on its way out, in the buffer and on its way in is what was sent, and after
  that the prefix stays one. For any bytes, capacity and buffer size.
- `WebsocketSessionProofs`, for any number of calls. `EveryThreadJoined`
  (`JoinInv`): `exit()` joins the event thread, which may still start a work
  thread, before it joins the others. `AlwaysLastReportTrue` (`ReportInv`): the
  last report on its way says what `is_connected()` says, or the event thread is
  closing, or the work thread is about to report (`Reporting`). Who reports is
  decided by `m_callback`, so the invariant ties it to the reports and to the work
  thread (`Flag`); and a handler left in a stopped `m_client` must not be taken
  for one of the next connection, which is why `Connection` says where each
  thread may stand while `state`, `ptr` and `leftover` have which value.
  `AlwaysPaired` (`PairInv`): events are dealt with in the order they were posted
  (`Ordered`), and each report in the queue answers the one before it, as will
  the next one (`Chained`).
- `EnetClientProofs`. `AlwaysWatched`: `exit()` runs beside `do_connect()`, so the
  invariant says that `m_enet_peer` is null from the moment `do_connect()` has
  forgotten the last peer until it publishes the next (`NoPeerYet`).
  `AlwaysLastReportTrue` (`ReportInv`): the last report on its way agrees with
  `is_connected()`, or a thread is about to report the difference (`Reporting`);
  this needs that no send thread runs while `do_connect()` does (`Alone`) and that
  the callback thread waits only with nothing to deliver (`CallbackWaits`).
- `HelperProofs`. `FrameRoundTrip` is about the two framing functions.
  `MulticastSends`: the send under way is the front of the list (`SendInv`, with
  where `exit()` stands, `Stages`, because the list is cleared under it).
  `MulticastDelivers` (`RecvInv`): what was dealt with, the batch and the queue are
  what arrived, in this order, until `exit()` drops a batch. `HexRoundTrip` and
  `Base64RoundTrip`, for inputs of any length: position by position, from lemmas
  about one symbol and one group.

Every safety property that a passing run checks is stated by a theorem. Only
model-checked are the liveness properties, since liveness and ENABLED are beyond
the prover: ExitTerminates and CloseIsReported of the server, ConnectAnswered of
the three clients, CloseAnswered, TaskStarted, DestructorReturns, TornDown,
SilentIsClosed, and the fairness that ImplementsContract, ImplementsChannel,
CarriesDown and CarriesUp ask for beyond the safety proved above.

## 5. Not modelled, and why

- Vendored libraries: third-party code.
- The text of the CONNECT request and answer beyond its blank line and status; a
  gateway that never answers.
- `exit()` called from a callback, `init()` called again while up (the facades
  call `exit()` first), two threads in `init()`/`exit()` at once: the library does
  not support them.
- Failures to create threads or contexts, other than the one path of `init()`
  that ends in `exit()`.
- Messages of the ENet and the websocket client: one call into the library each;
  data races inside ENet's structures and on a shared pointer's counter.
- Several ports of a forward server and several tunnels of a gateway: they share
  the map of ports, under its mutex, and threads, but no other state.
- `get_host_address`, user data, socket options, log messages.
- The bodies of the HTTP requests, JSON, and the facades that only forward
  (WutnetClient, HttpRequest): no state and no interleaving of their own.

## 6. Plan

The modules were written in the order of section 2, each with its runs before its
proofs: server and stream first, because everything else speaks their protocol
or copies their text, then the client, the pool, the tunnel, and the clients
over foreign libraries. The proofs followed in the same order, the abstract
specifications last. What could still be added:

1. messages of the ENet and the websocket client, whose send lists are the
   stream's without its framing;
2. several tunnels through one forward port, to tell apart what `Release` does to
   the one being asked for and to those that stand;
3. the handshake of a client with a gateway under `close()`
   (`etcp_client_impl.cpp:242`), where the client run restricts its users.
