--------------------------- MODULE EtcpClientProofs ---------------------------
(***************************************************************************)
(* Proofs about EtcpClient, for any number of connections, messages and    *)
(* packet sizes, with and without a gateway.                               *)
(***************************************************************************)
EXTENDS EtcpClient, SequenceTheorems, TLAPS

(* The operations of do_read() and of the handshake, and what may lead to  *)
(* them: the kinds of handlers.                                            *)
Reads == {"head", "body"}
Shakes == {"connect", "request", "response"}
Dials == Shakes \cup {"real_connect"}
Kinds == Reads \cup Dials \cup {"do_close", "send", "write"}
Results == {"ok", "empty", "bad", "err"}

Chunk == {"head", "body"} \X Nat
What == Chunk \cup Nat \cup Sizes
Operation == [kind : Reads \cup Shakes \cup {"write"}, what : What]
Handler ==
    [kind : Kinds \ {"send"}, what : What, res : Results]
        \cup [kind : {"send"}, what : Nat, res : Results]

(* The types.                                                              *)
Typed ==
    /\ app \in {"down", "up"} /\ m_request \in BOOLEAN
    /\ queue \in Seq(Handler) /\ pending \in Seq(Operation)
    /\ open \in BOOLEAN /\ linked \in BOOLEAN
    /\ m_closed \in BOOLEAN /\ odd \in BOOLEAN
    /\ user \in {"idle", "connecting", "connected"}
    /\ m_send_data_list \in Seq(Chunk)
    /\ m_recv_data \in What
    /\ connects \in Nat /\ sent \in Nat

(* The socket has no operations when it is closed, and the implementation  *)
(* no handlers before init() and after exit().                             *)
Shut ==
    /\ ~open => pending = <<>>
    /\ app = "down" => user = "idle" /\ queue = <<>> /\ pending = <<>>

(* One handshake or reader on the socket, one reader in all.               *)
Single ==
    /\ \A i, j \in DOMAIN pending :
         pending[i].kind \in Shakes \cup Reads /\ pending[j].kind \in Shakes \cup Reads => i = j
    /\ \A i, j \in DOMAIN queue :
         queue[i].kind \in Reads /\ queue[j].kind \in Reads => i = j
    /\ \A i \in DOMAIN pending : \A j \in DOMAIN queue :
         pending[i].kind \in Reads => queue[j].kind \notin Reads

(* A user without a connection: what is left of the last one is at most a  *)
(* completion in the queue, and then the socket is closed.                 *)
Idle ==
    user = "idle" =>
        /\ m_closed
        /\ \A i \in DOMAIN pending : pending[i].kind \notin Shakes \cup Reads
        /\ \A i \in DOMAIN queue :
             queue[i].kind \notin Dials /\ (open => queue[i].kind \notin Reads)

(* A user who waits: one handshake ...                                     *)
OneDial ==
    user = "connecting" =>
        /\ \A i, j \in DOMAIN queue :
             queue[i].kind \in Dials /\ queue[j].kind \in Dials => i = j
        /\ \A i \in DOMAIN pending : \A j \in DOMAIN queue :
             pending[i].kind \in Shakes => queue[j].kind \notin Dials

(* ... that finds the socket closed ...                                    *)
ClosedBefore(i) == \E j \in DOMAIN queue : j < i /\ queue[j].kind = "do_close"

DialsClosed ==
    user = "connecting" =>
        \A i \in DOMAIN queue : queue[i].kind = "real_connect" =>
            m_closed /\ (open => ClosedBefore(i))

(* ... and, of the last connection, a completion that comes before that of *)
(* the handshake and does not touch its socket.                            *)
Stale ==
    user = "connecting" =>
        /\ \A i \in DOMAIN pending : pending[i].kind \notin Reads
        /\ \A j \in DOMAIN queue : queue[j].kind \in Reads =>
             /\ m_closed
             /\ open => queue[j].res = "err"
             /\ \A i \in DOMAIN queue :
                  /\ queue[i].kind = "real_connect" => ~open /\ (j > i => queue[j].res = "err")
                  /\ queue[i].kind \in Shakes => j < i /\ queue[j].res = "err"
             /\ \A i \in DOMAIN pending : pending[i].kind \in Shakes => queue[j].res = "err"

(* m_closed is cleared with the TCP connection; only a gateway's answer    *)
(* comes after that, and nobody closes before it.                          *)
DialAfter(i) == \E j \in DOMAIN queue : j > i /\ queue[j].kind = "real_connect"

Phase ==
    user = "connecting" =>
        /\ \A i \in DOMAIN pending :
             /\ pending[i].kind = "connect" => m_closed
             /\ pending[i].kind \in {"request", "response"} => m_request /\ ~m_closed
        /\ \A i \in DOMAIN queue :
             /\ queue[i].kind = "connect" => m_closed
             /\ queue[i].kind \in {"request", "response"} => m_request /\ ~m_closed
             /\ m_request /\ queue[i].kind = "do_close" => DialAfter(i)
        /\ ~m_request => m_closed

(* A user who is connected: a reader, and no handshake.                    *)
Connected ==
    user = "connected" =>
        /\ ~m_closed
        /\ \A i \in DOMAIN pending : pending[i].kind \notin Shakes
        /\ \A i \in DOMAIN queue : queue[i].kind \notin Dials
        /\ \/ \E i \in DOMAIN pending : pending[i].kind \in Reads
           \/ \E i \in DOMAIN queue : queue[i].kind \in Reads

(* m_recv_data is the buffer of the body that is read or was read.         *)
Sized ==
    /\ \A i \in DOMAIN pending : pending[i].kind = "body" => pending[i].what = m_recv_data
    /\ \A i \in DOMAIN queue :
         queue[i].kind = "body" /\ queue[i].res = "ok" => queue[i].what = m_recv_data

(* The inductive invariant of a client whose user is patient.              *)
PatientInv ==
    /\ Typed /\ Shut /\ Single /\ Idle /\ OneDial /\ DialsClosed /\ Stale /\ Phase
    /\ Connected /\ Sized /\ ~odd

-----------------------------------------------------------------------------
(* What handlers do to the queue and to the socket's operations            *)

(* The first handler is gone and n more are there.                         *)
Popped(n) ==
    /\ Len(queue) \in Nat \ {0}
    /\ DOMAIN queue = 1 .. Len(queue) /\ DOMAIN queue' = 1 .. (Len(queue) - 1 + n)
    /\ \A i \in 1 .. Len(queue) - 1 : queue'[i] = queue[i + 1]
    /\ \A i \in 2 .. Len(queue) : queue'[i - 1] = queue[i]

(* An operation more is under way.                                         *)
Begun(op) ==
    /\ Len(pending) \in Nat
    /\ DOMAIN pending = 1 .. Len(pending) /\ DOMAIN pending' = 1 .. (Len(pending) + 1)
    /\ \A i \in 1 .. Len(pending) : pending'[i] = pending[i]
    /\ pending'[Len(pending) + 1] = op

(* Start(op): it is under way, or its failure is in the queue.             *)
Started(op) ==
    \/ open /\ Popped(0) /\ Begun(op)
    \/ ~open /\ Popped(1) /\ queue'[Len(queue)] = Done(op, "err") /\ pending' = pending

(* RealClose: the operations' failures are in the queue.                   *)
Flushed ==
    /\ Popped(Len(pending))
    /\ Len(pending) \in Nat /\ DOMAIN pending = 1 .. Len(pending)
    /\ \A i \in DOMAIN pending : queue'[Len(queue) - 1 + i] = Done(pending[i], "err")
    /\ \A i \in Len(queue) .. Len(queue) - 1 + Len(pending) :
         queue'[i] = Done(pending[i - Len(queue) + 1], "err")

(* A completion is a handler.                                              *)
LEMMA DoneHandler ==
    ASSUME NEW op \in Operation, NEW res \in Results
    PROVE  Done(op, res) \in Handler
<1>1. op.kind \in Reads \cup Shakes \cup {"write"} /\ op.what \in What
  BY DEF Operation
<1>2. op.kind \in Kinds \ {"send"}
  BY <1>1 DEF Kinds, Dials, Reads, Shakes
<1> QED BY <1>1, <1>2 DEF Done, Handler

(* The rest of a queue.                                                    *)
LEMMA RestFacts ==
    ASSUME Typed, queue # <<>>
    PROVE  /\ Rest \in Seq(Handler) /\ Head(queue) = queue[1] /\ queue[1] \in Handler
           /\ Len(queue) \in Nat \ {0} /\ DOMAIN queue = 1 .. Len(queue)
           /\ Len(Rest) = Len(queue) - 1
           /\ \A i \in 1 .. Len(queue) - 1 : Rest[i] = queue[i + 1]
<1>1. queue \in Seq(Handler)
  BY DEF Typed
<1>2. Len(queue) \in Nat \ {0} /\ DOMAIN queue = 1 .. Len(queue)
  BY <1>1, EmptySeq, LenProperties
<1>3. /\ Tail(queue) \in Seq(Handler) /\ Len(Tail(queue)) = Len(queue) - 1
      /\ \A i \in 1 .. Len(Tail(queue)) : Tail(queue)[i] = queue[i + 1]
  BY <1>1, HeadTailProperties
<1>4. Head(queue) = queue[1] /\ queue[1] \in Handler
  BY <1>1, <1>2
<1> QED BY <1>2, <1>3, <1>4 DEF Rest

(* A handler that starts nothing.                                          *)
LEMMA PopFacts ==
    ASSUME Typed, queue # <<>>, queue' = Rest
    PROVE  queue' \in Seq(Handler) /\ Popped(0)
<1> DEFINE n == Len(queue)
<1>1. /\ Rest \in Seq(Handler) /\ n \in Nat \ {0} /\ DOMAIN queue = 1 .. n
      /\ Len(Rest) = n - 1 /\ \A i \in 1 .. n - 1 : Rest[i] = queue[i + 1]
  BY RestFacts
<1>2. DOMAIN Rest = 1 .. n - 1
  BY <1>1, LenProperties
<1> HIDE DEF n
<1>3. \A i \in 2 .. n : i - 1 \in 1 .. n - 1 /\ (i - 1) + 1 = i
  BY <1>1
<1>4. \A i \in 2 .. n : Rest[i - 1] = queue[i]
  BY <1>1, <1>3
<1> QED BY <1>1, <1>2, <1>4 DEF Popped, n

(* A handler that puts another one into the queue.                         *)
LEMMA PopAppendFacts ==
    ASSUME Typed, queue # <<>>, NEW h \in Handler, queue' = Append(Rest, h)
    PROVE  queue' \in Seq(Handler) /\ Popped(1) /\ queue'[Len(queue)] = h
<1> DEFINE n == Len(queue)
<1>1. /\ Rest \in Seq(Handler) /\ n \in Nat \ {0} /\ DOMAIN queue = 1 .. n
      /\ Len(Rest) = n - 1 /\ \A i \in 1 .. n - 1 : Rest[i] = queue[i + 1]
  BY RestFacts
<1>2. /\ queue' \in Seq(Handler) /\ Len(queue') = Len(Rest) + 1
      /\ \A i \in 1 .. Len(Rest) : queue'[i] = Rest[i]
      /\ queue'[Len(Rest) + 1] = h
  <2> DEFINE r == Rest
  <2>1. r \in Seq(Handler) /\ queue' = Append(r, h)
    BY <1>1
  <2> HIDE DEF r
  <2>2. /\ Append(r, h) \in Seq(Handler) /\ Len(Append(r, h)) = Len(r) + 1
        /\ \A i \in 1 .. Len(r) : Append(r, h)[i] = r[i]
        /\ Append(r, h)[Len(r) + 1] = h
    BY <2>1, AppendProperties
  <2> QED BY <2>1, <2>2 DEF r
<1>3. DOMAIN queue' = 1 .. Len(queue')
  BY <1>2, LenProperties
<1> HIDE DEF n
<1>4. \A i \in 2 .. n : i - 1 \in 1 .. n - 1 /\ (i - 1) + 1 = i
  BY <1>1
<1>5. \A i \in 1 .. n - 1 : queue'[i] = queue[i + 1]
  BY <1>1, <1>2
<1>6. \A i \in 2 .. n : queue'[i - 1] = queue[i]
  BY <1>4, <1>5
<1>7. Len(Rest) + 1 = n /\ (n - 1) + 1 = n
  BY <1>1
<1>8. DOMAIN queue' = 1 .. n /\ queue'[n] = h
  BY <1>2, <1>3, <1>7
<1> QED BY <1>1, <1>2, <1>5, <1>6, <1>7, <1>8 DEF Popped, n

(* Start()                                                                 *)
LEMMA StartFacts ==
    ASSUME Typed, queue # <<>>, NEW op \in Operation, Start(op)
    PROVE  queue' \in Seq(Handler) /\ pending' \in Seq(Operation) /\ Started(op)
<1>1. CASE open
  <2>1. pending \in Seq(Operation) /\ pending' = Append(pending, op) /\ queue' = Rest
    BY <1>1 DEF Start, Typed
  <2>2. pending' \in Seq(Operation) /\ Begun(op)
    <3>1. /\ pending' \in Seq(Operation) /\ Len(pending') = Len(pending) + 1
          /\ \A i \in 1 .. Len(pending) : pending'[i] = pending[i]
          /\ pending'[Len(pending) + 1] = op
      BY <2>1, AppendProperties
    <3>2. Len(pending) \in Nat /\ DOMAIN pending = 1 .. Len(pending) /\ DOMAIN pending' = 1 .. Len(pending')
      BY <2>1, <3>1, LenProperties
    <3> QED BY <3>1, <3>2 DEF Begun
  <2> QED BY <1>1, <2>1, <2>2, PopFacts DEF Started
<1>2. CASE ~open
  <2>1. Done(op, "err") \in Handler
    BY DoneHandler DEF Results
  <2>2. pending' = pending /\ queue' = Append(Rest, Done(op, "err"))
    BY <1>2 DEF Start
  <2> QED BY <1>2, <2>1, <2>2, PopAppendFacts DEF Started, Typed
<1> QED BY <1>1, <1>2 DEF Typed

(* real_close()                                                            *)
LEMMA FlushFacts ==
    ASSUME Typed, queue # <<>>, queue' = Rest \o Aborted
    PROVE  queue' \in Seq(Handler) /\ Flushed
<1> DEFINE n == Len(queue)  m == Len(pending)
<1>1. /\ Rest \in Seq(Handler) /\ n \in Nat \ {0} /\ DOMAIN queue = 1 .. n
      /\ Len(Rest) = n - 1 /\ \A i \in 1 .. n - 1 : Rest[i] = queue[i + 1]
  BY RestFacts
<1>2. m \in Nat /\ DOMAIN pending = 1 .. m /\ \A i \in 1 .. m : pending[i] \in Operation
  BY LenProperties DEF Typed
<1>3. \A i \in 1 .. m : Done(pending[i], "err") \in Handler
  BY <1>2, DoneHandler DEF Results
<1>4. Aborted \in Seq(Handler) /\ Len(Aborted) = m /\ \A i \in 1 .. m : Aborted[i] = Done(pending[i], "err")
  <2>1. Aborted \in [1 .. m -> Handler] /\ \A i \in 1 .. m : Aborted[i] = Done(pending[i], "err")
    BY <1>2, <1>3 DEF Aborted
  <2> HIDE DEF m
  <2>2. Aborted \in Seq(Handler)
    BY <2>1, <1>2
  <2>3. Len(Aborted) = m
    BY <2>1, <2>2, <1>2
  <2> QED BY <2>1, <2>2, <2>3
<1>5. /\ queue' \in Seq(Handler) /\ Len(queue') = Len(Rest) + Len(Aborted)
      /\ \A i \in 1 .. Len(Rest) + Len(Aborted) :
           queue'[i] = IF i <= Len(Rest) THEN Rest[i] ELSE Aborted[i - Len(Rest)]
  BY <1>1, <1>4, ConcatProperties
<1>6. DOMAIN queue' = 1 .. Len(queue')
  BY <1>5, LenProperties
<1> HIDE DEF n, m
<1>7. \A i \in 1 .. n - 1 : queue'[i] = queue[i + 1]
  BY <1>1, <1>2, <1>4, <1>5
<1>8. \A i \in 2 .. n : i - 1 \in 1 .. n - 1 /\ (i - 1) + 1 = i
  BY <1>1
<1>9. \A i \in 2 .. n : queue'[i - 1] = queue[i]
  BY <1>7, <1>8
<1>10. \A i \in n .. n - 1 + m : queue'[i] = Done(pending[i - n + 1], "err")
  <2> SUFFICES ASSUME NEW i \in n .. n - 1 + m PROVE queue'[i] = Done(pending[i - n + 1], "err")
    OBVIOUS
  <2>1. i \in 1 .. (n - 1) + m /\ ~(i <= n - 1) /\ i - (n - 1) = i - n + 1 /\ i - n + 1 \in 1 .. m
    BY <1>1, <1>2
  <2>2. queue'[i] = Aborted[i - (n - 1)]
    BY <2>1, <1>1, <1>4, <1>5
  <2> QED BY <2>1, <2>2, <1>4
<1>11. \A i \in 1 .. m : queue'[n - 1 + i] = Done(pending[i], "err")
  <2> SUFFICES ASSUME NEW i \in 1 .. m PROVE queue'[n - 1 + i] = Done(pending[i], "err")
    OBVIOUS
  <2>1. n - 1 + i \in n .. n - 1 + m /\ (n - 1 + i) - n + 1 = i
    BY <1>1, <1>2
  <2> QED BY <2>1, <1>10
<1>12. Popped(m)
  BY <1>1, <1>4, <1>5, <1>6, <1>7, <1>9 DEF Popped, n
<1> QED BY <1>1, <1>2, <1>5, <1>10, <1>11, <1>12 DEF Flushed, n, m

(* The handler that runs.                                                  *)
LEMMA FirstFacts ==
    ASSUME Typed, NEW k, NextIs(k)
    PROVE  /\ queue # <<>> /\ app = "up" /\ 1 \in DOMAIN queue
           /\ Head(queue) = queue[1] /\ queue[1] \in Handler /\ queue[1].kind = k
<1>1. queue # <<>> /\ app = "up" /\ Head(queue).kind = k
  BY DEF NextIs
<1> QED BY <1>1, RestFacts

(* Where the handlers of a queue go when the first is gone; the others     *)
(* stay in order.                                                          *)
LEMMA PoppedFacts ==
    ASSUME NEW n \in Nat, Popped(n)
    PROVE  /\ 1 \in DOMAIN queue
           /\ \A i \in DOMAIN queue : i \in Nat /\ i >= 1 /\ i <= Len(queue)
           /\ \A i \in DOMAIN queue' : i \in Nat /\ i >= 1
           /\ \A i \in DOMAIN queue' :
                \/ i + 1 \in DOMAIN queue /\ queue'[i] = queue[i + 1]
                \/ i \in Len(queue) .. Len(queue) - 1 + n
           /\ \A i \in DOMAIN queue \ {1} : i - 1 \in DOMAIN queue' /\ queue'[i - 1] = queue[i]
           /\ Len(queue) \in Nat
           /\ Len(queue) .. Len(queue) - 1 + n \subseteq DOMAIN queue'
<1> DEFINE l == Len(queue)
<1>1. /\ l \in Nat /\ l # 0 /\ DOMAIN queue = 1 .. l /\ DOMAIN queue' = 1 .. (l - 1 + n)
      /\ \A i \in 1 .. l - 1 : queue'[i] = queue[i + 1]
      /\ \A i \in 2 .. l : queue'[i - 1] = queue[i]
  BY DEF Popped
<1> HIDE DEF l
<1>2. ASSUME NEW i \in DOMAIN queue'
      PROVE  /\ i \in Nat /\ i >= 1
             /\ \/ i + 1 \in DOMAIN queue /\ queue'[i] = queue[i + 1]
                \/ i \in l .. l - 1 + n
  <2>1. i \in 1 .. (l - 1 + n)
    BY <1>1
  <2>2. CASE i <= l - 1
    <3>1. i \in 1 .. l - 1 /\ i + 1 \in 1 .. l
      BY <1>1, <2>1, <2>2
    <3> QED BY <1>1, <3>1
  <2>3. CASE ~(i <= l - 1)
    BY <1>1, <2>1, <2>3
  <2> QED BY <2>2, <2>3
<1>3. ASSUME NEW i \in DOMAIN queue \ {1}
      PROVE  i - 1 \in DOMAIN queue' /\ queue'[i - 1] = queue[i]
  <2>1. i \in 2 .. l /\ i - 1 \in 1 .. (l - 1 + n)
    BY <1>1
  <2> QED BY <2>1, <1>1
<1>4. 1 \in DOMAIN queue /\ \A i \in DOMAIN queue : i \in Nat /\ i >= 1 /\ i <= l
  BY <1>1
<1>5. l .. l - 1 + n \subseteq DOMAIN queue'
  BY <1>1
<1> QED BY <1>1, <1>2, <1>3, <1>4, <1>5 DEF l

(* A do_close() before, or a real_connect() after, a handler is still      *)
(* there when another handler is gone.                                     *)
LEMMA PoppedOrder ==
    ASSUME NEW n \in Nat, Popped(n), NEW i \in Nat
    PROVE  /\ ClosedBefore(i + 1) /\ queue[1].kind # "do_close" => ClosedBefore(i)'
           /\ DialAfter(i + 1) => DialAfter(i)'
<1>1. /\ \A j \in DOMAIN queue : j \in Nat /\ j >= 1
      /\ \A j \in DOMAIN queue \ {1} : j - 1 \in DOMAIN queue' /\ queue'[j - 1] = queue[j]
  BY PoppedFacts
<1>2. ASSUME ClosedBefore(i + 1), queue[1].kind # "do_close" PROVE ClosedBefore(i)'
  <2>1. PICK j \in DOMAIN queue : j < i + 1 /\ queue[j].kind = "do_close"
    BY <1>2 DEF ClosedBefore
  <2>2. j - 1 \in DOMAIN queue' /\ queue'[j - 1] = queue[j]
    BY <1>1, <1>2, <2>1
  <2>3. j - 1 < i
    BY <1>1, <2>1
  <2> QED BY <2>1, <2>2, <2>3 DEF ClosedBefore
<1>3. ASSUME DialAfter(i + 1) PROVE DialAfter(i)'
  <2>1. PICK j \in DOMAIN queue : j > i + 1 /\ queue[j].kind = "real_connect"
    BY <1>3 DEF DialAfter
  <2>2. j # 1 /\ j - 1 > i
    BY <1>1, <2>1
  <2>3. j - 1 \in DOMAIN queue' /\ queue'[j - 1] = queue[j]
    BY <1>1, <2>2
  <2> QED BY <2>1, <2>2, <2>3 DEF DialAfter
<1> QED BY <1>2, <1>3

(* A handler that puts nothing into the queue ...                          *)
LEMMA PoppedZero ==
    ASSUME Popped(0)
    PROVE  /\ 1 \in DOMAIN queue
           /\ \A i \in DOMAIN queue' :
                i \in Nat /\ i >= 1 /\ i + 1 \in DOMAIN queue /\ queue'[i] = queue[i + 1]
           /\ \A i \in DOMAIN queue \ {1} : i - 1 \in DOMAIN queue' /\ queue'[i - 1] = queue[i]
           /\ \A i \in DOMAIN queue' : DialAfter(i + 1) => DialAfter(i)'
  BY PoppedFacts, PoppedOrder

(* ... or one more ...                                                     *)
LEMMA PoppedOne ==
    ASSUME Popped(1)
    PROVE  /\ 1 \in DOMAIN queue
           /\ \A i \in DOMAIN queue' :
                /\ i \in Nat /\ i >= 1
                /\ \/ i < Len(queue) /\ i + 1 \in DOMAIN queue /\ queue'[i] = queue[i + 1]
                   \/ i = Len(queue)
           /\ \A i \in DOMAIN queue \ {1} : i - 1 \in DOMAIN queue' /\ queue'[i - 1] = queue[i]
           /\ \A i \in DOMAIN queue' : DialAfter(i + 1) => DialAfter(i)'
           /\ Len(queue) \in DOMAIN queue'
<1>1. /\ \A i \in DOMAIN queue' : i \in Nat /\ i >= 1
      /\ \A i \in DOMAIN queue' :
           \/ i + 1 \in DOMAIN queue /\ queue'[i] = queue[i + 1]
           \/ i \in Len(queue) .. Len(queue) - 1 + 1
      /\ \A i \in DOMAIN queue : i <= Len(queue)
      /\ \A i \in DOMAIN queue \ {1} : i - 1 \in DOMAIN queue' /\ queue'[i - 1] = queue[i]
      /\ 1 \in DOMAIN queue /\ Len(queue) \in Nat
      /\ Len(queue) .. Len(queue) - 1 + 1 \subseteq DOMAIN queue'
  BY PoppedFacts
<1>2. Len(queue) .. Len(queue) - 1 + 1 = {Len(queue)}
  BY <1>1
<1>3. \A i \in DOMAIN queue' : DialAfter(i + 1) => DialAfter(i)'
  BY <1>1, PoppedOrder
<1> QED BY <1>1, <1>2, <1>3

(* ... or the failures of all operations.                                  *)
LEMMA FlushedFacts ==
    ASSUME Flushed
    PROVE  /\ 1 \in DOMAIN queue
           /\ \A i \in DOMAIN queue' :
                /\ i \in Nat /\ i >= 1
                /\ \/ i < Len(queue) /\ i + 1 \in DOMAIN queue /\ queue'[i] = queue[i + 1]
                   \/ /\ i >= Len(queue)
                      /\ \E j \in DOMAIN pending :
                           i = Len(queue) - 1 + j /\ queue'[i] = Done(pending[j], "err")
           /\ \A i \in DOMAIN queue \ {1} : i - 1 \in DOMAIN queue' /\ queue'[i - 1] = queue[i]
           /\ \A i \in DOMAIN queue' : DialAfter(i + 1) => DialAfter(i)'
           /\ Len(queue) \in Nat
<1> DEFINE n == Len(queue)  m == Len(pending)
<1>1. /\ m \in Nat /\ Popped(m) /\ DOMAIN pending = 1 .. m
      /\ \A i \in n .. n - 1 + m : queue'[i] = Done(pending[i - n + 1], "err")
  BY DEF Flushed
<1>2. /\ \A i \in DOMAIN queue' : i \in Nat /\ i >= 1
      /\ \A i \in DOMAIN queue' :
           \/ i + 1 \in DOMAIN queue /\ queue'[i] = queue[i + 1]
           \/ i \in n .. n - 1 + m
      /\ \A i \in DOMAIN queue : i <= n
      /\ \A i \in DOMAIN queue \ {1} : i - 1 \in DOMAIN queue' /\ queue'[i - 1] = queue[i]
      /\ 1 \in DOMAIN queue /\ n \in Nat
  BY <1>1, PoppedFacts
<1>3. \A i \in DOMAIN queue' : DialAfter(i + 1) => DialAfter(i)'
  BY <1>1, <1>2, PoppedOrder
<1> HIDE DEF n, m
<1>4. ASSUME NEW i \in n .. n - 1 + m
      PROVE  i >= n /\ \E j \in DOMAIN pending :
                 i = n - 1 + j /\ queue'[i] = Done(pending[j], "err")
  <2>1. i - n + 1 \in DOMAIN pending /\ i = n - 1 + (i - n + 1) /\ i >= n
    BY <1>1, <1>2
  <2> QED BY <1>1, <2>1
<1>5. \A i \in DOMAIN queue' : i + 1 \in DOMAIN queue => i < n
  BY <1>2
<1> QED BY <1>2, <1>3, <1>4, <1>5 DEF n

(* What may be under way on the socket.                                    *)
LEMMA PendingKinds ==
    ASSUME Typed
    PROVE  \A i \in DOMAIN pending : pending[i].kind \notin {"real_connect", "do_close", "send"}
<1>1. \A i \in DOMAIN pending : pending[i] \in Operation
  BY LenProperties DEF Typed
<1> QED BY <1>1 DEF Operation, Reads, Shakes

-----------------------------------------------------------------------------
(* Users who wait for on_etcp_close before they connect() again            *)

(* The steps of the writing chain leave the rest alone.                    *)
LEMMA WriteStep ==
    ASSUME PatientInv, app = "up", queue[1].kind \in {"send", "write"},
           \/ Popped(0) /\ pending' = pending
           \/ \E c \in Chunk : Started(Op("write", c)),
           UNCHANGED <<app, open, m_closed, user, odd, m_request, m_recv_data>>
    PROVE  /\ Shut' /\ Single' /\ Idle' /\ OneDial' /\ DialsClosed' /\ Stale' /\ Phase'
           /\ Connected' /\ Sized' /\ ~odd'
<1>1. PICK n \in {0, 1} :
        /\ Popped(n)
        /\ n = 1 => queue'[Len(queue)].kind = "write" /\ queue'[Len(queue)].res = "err"
  <2>1. CASE Popped(0)
    BY <2>1
  <2>2. CASE \E c \in Chunk : Popped(1) /\ queue'[Len(queue)] = Done(Op("write", c), "err")
    BY <2>2 DEF Done, Op
  <2> QED BY <2>1, <2>2 DEF Started
<1>2. PICK m \in Nat :
        /\ DOMAIN pending \subseteq DOMAIN pending' /\ m \notin DOMAIN pending
        /\ DOMAIN pending' \subseteq DOMAIN pending \cup {m}
        /\ \A i \in DOMAIN pending : pending'[i] = pending[i]
        /\ m \in DOMAIN pending' => pending'[m].kind = "write" /\ open
  <2>1. Len(pending) \in Nat /\ DOMAIN pending = 1 .. Len(pending)
    BY LenProperties DEF PatientInv, Typed
  <2>2. Len(pending) + 1 \in Nat /\ Len(pending) + 1 \notin DOMAIN pending
    BY <2>1
  <2>3. CASE pending' = pending
    BY <2>2, <2>3
  <2>4. CASE \E c \in Chunk : open /\ Begun(Op("write", c))
    BY <2>1, <2>2, <2>4 DEF Begun, Op
  <2> QED BY <2>3, <2>4 DEF Started
<1> USE DEF PatientInv
<1>4. Shut'
  BY <1>2 DEF Shut, Started
<1>5. /\ \A i \in DOMAIN queue' : i \in Nat /\ i >= 1
      /\ \A i \in DOMAIN queue' :
           \/ i + 1 \in DOMAIN queue /\ queue'[i] = queue[i + 1]
           \/ queue'[i].kind = "write" /\ queue'[i].res = "err"
      /\ \A i \in DOMAIN queue \ {1} : i - 1 \in DOMAIN queue' /\ queue'[i - 1] = queue[i]
  BY <1>1, PoppedFacts
<1>6. /\ \A i \in DOMAIN queue' : ClosedBefore(i + 1) => ClosedBefore(i)'
      /\ \A i \in DOMAIN queue' : DialAfter(i + 1) => DialAfter(i)'
  BY <1>1, <1>5, PoppedOrder
<1>8. Single'
  BY <1>1, <1>2, <1>5 DEF Single, Reads, Shakes
<1>9. Idle'
  BY <1>1, <1>2, <1>5 DEF Idle, Reads, Shakes, Dials
<1>10. OneDial'
  BY <1>1, <1>2, <1>5 DEF OneDial, Dials, Shakes
<1>11. DialsClosed'
  BY <1>1, <1>5, <1>6 DEF DialsClosed
<1>12. Stale'
  BY <1>1, <1>2, <1>5 DEF Stale, Reads, Shakes
<1>13. Phase'
  BY <1>1, <1>2, <1>5, <1>6 DEF Phase
<1>14. Connected'
  BY <1>1, <1>2, <1>5 DEF Connected, Dials, Shakes, Reads
<1>15. Sized'
  BY <1>1, <1>2, <1>5 DEF Sized
<1> QED BY <1>4, <1>8, <1>9, <1>10, <1>11, <1>12, <1>13, <1>14, <1>15

(* do_read() goes on: nobody but the reader notices.                       *)
LEMMA ReadStep ==
    ASSUME PatientInv, app = "up", queue[1].kind \in Reads, queue[1].res # "err",
           NEW op \in Operation, op.kind \in Reads, Started(op),
           op.kind = "body" => m_recv_data' = op.what,
           UNCHANGED <<app, open, m_closed, user, odd, m_request>>
    PROVE  /\ Shut' /\ Single' /\ Idle' /\ OneDial' /\ DialsClosed' /\ Stale' /\ Phase'
           /\ Connected' /\ Sized' /\ ~odd'
<1> USE DEF PatientInv
<1>1. CASE open
  <2>1. Popped(0) /\ Begun(op) /\ user = "connected"
    <3>1. Popped(0) /\ Begun(op)
      BY <1>1 DEF Started
    <3>2. 1 \in DOMAIN queue
      BY <3>1, PoppedFacts
    <3> QED BY <1>1, <3>1, <3>2 DEF Idle, Stale, Typed
  <2>2. /\ \A i \in DOMAIN queue' : i + 1 \in DOMAIN queue /\ queue'[i] = queue[i + 1]
        /\ 1 \in DOMAIN queue /\ \A i \in DOMAIN queue' : i \in Nat /\ i >= 1
    BY <2>1, PoppedFacts
  <2> DEFINE m == Len(pending) + 1
  <2>3. /\ m \notin DOMAIN pending /\ DOMAIN pending' = DOMAIN pending \cup {m}
        /\ \A i \in DOMAIN pending : pending'[i] = pending[i]
        /\ pending'[m] = op
    BY <2>1 DEF Begun
  <2> HIDE DEF m
  <2>4. \A i \in DOMAIN pending : pending[i].kind \notin Reads \cup Shakes
    BY <2>1, <2>2 DEF Single, Connected
  <2>5. \A i \in DOMAIN queue' : queue'[i].kind \notin Reads
    BY <2>2 DEF Single
  <2>6. Shut'
    BY <1>1 DEF Shut
  <2>7. Single'
    BY <2>3, <2>4, <2>5 DEF Single
  <2>8. Connected'
    BY <2>1, <2>2, <2>3, <2>4 DEF Connected, Reads, Shakes
  <2>9. Sized'
    BY <2>3, <2>4, <2>5 DEF Sized, Reads
  <2>10. Idle' /\ OneDial' /\ DialsClosed' /\ Stale' /\ Phase'
    BY <2>1 DEF Idle, OneDial, DialsClosed, Stale, Phase
  <2> QED BY <2>6, <2>7, <2>8, <2>9, <2>10
<1>2. CASE ~open
  <2>1. /\ Popped(1) /\ queue'[Len(queue)].kind = op.kind /\ queue'[Len(queue)].res = "err"
        /\ pending' = pending
    BY <1>2 DEF Started, Done
  <2>2. DOMAIN pending = {} /\ DOMAIN pending' = {}
    BY <1>2, <2>1 DEF Shut
  <2>3. /\ \A i \in DOMAIN queue' : i \in Nat /\ i >= 1
        /\ \A i \in DOMAIN queue' :
             \/ i + 1 \in DOMAIN queue /\ queue'[i] = queue[i + 1] /\ queue[i + 1].kind \notin Reads
                /\ i < Len(queue)
             \/ i = Len(queue) /\ queue'[i].kind \in Reads /\ queue'[i].res = "err"
        /\ \A i \in DOMAIN queue \ {1} : i - 1 \in DOMAIN queue' /\ queue'[i - 1] = queue[i]
        /\ 1 \in DOMAIN queue /\ Len(queue) \in DOMAIN queue'
    BY <2>1, PoppedOne DEF Single
  <2>4. \A i \in DOMAIN queue' : DialAfter(i + 1) => DialAfter(i)'
    BY <2>1, PoppedOne
  <2>5. Shut'
    BY <1>2, <2>2, <2>1 DEF Shut
  <2>6. Single'
    BY <2>2, <2>3 DEF Single
  <2>7. Idle'
    BY <1>2, <2>2, <2>3 DEF Idle, Reads, Dials, Shakes
  <2>8. OneDial'
    BY <2>2, <2>3 DEF OneDial, Reads, Dials, Shakes
  <2>9. DialsClosed'
    BY <1>2, <2>3 DEF DialsClosed, Reads
  <2>10. Stale'
    BY <1>2, <2>2, <2>3 DEF Stale, Reads, Shakes
  <2>11. Phase'
    BY <2>2, <2>3, <2>4 DEF Phase, Reads
  <2>12. Connected'
    BY <2>2, <2>3 DEF Connected, Reads, Dials, Shakes
  <2>13. Sized'
    BY <2>2, <2>3 DEF Sized, Reads
  <2> QED BY <2>5, <2>6, <2>7, <2>8, <2>9, <2>10, <2>11, <2>12, <2>13
<1> QED BY <1>1, <1>2

(* do_read() failed: the user is told unless he was told before.           *)
LEMMA ReadErrorStep ==
    ASSUME PatientInv, app = "up", queue[1].kind \in Reads, Popped(0), OnClose(m_closed),
           UNCHANGED <<app, pending, open, m_request, m_recv_data>>
    PROVE  /\ Shut' /\ Single' /\ Idle' /\ OneDial' /\ DialsClosed' /\ Stale' /\ Phase'
           /\ Connected' /\ Sized' /\ ~odd'
<1> USE DEF PatientInv
<1>1. /\ 1 \in DOMAIN queue
      /\ \A i \in DOMAIN queue' :
           i \in Nat /\ i >= 1 /\ i + 1 \in DOMAIN queue /\ queue'[i] = queue[i + 1]
      /\ \A i \in DOMAIN queue \ {1} : i - 1 \in DOMAIN queue' /\ queue'[i - 1] = queue[i]
      /\ \A i \in DOMAIN queue' : DialAfter(i + 1) => DialAfter(i)'
      /\ \A i \in DOMAIN queue' : ClosedBefore(i + 1) => ClosedBefore(i)'
  BY PoppedZero, PoppedOrder DEF Reads
<1>2. \A i \in DOMAIN queue' : queue'[i].kind \notin Reads
  BY <1>1 DEF Single
<1>3. Shut' /\ Single' /\ Sized'
  BY <1>1, <1>2 DEF Shut, Single, Sized, Reads
<1>4. CASE m_closed
  <2>1. UNCHANGED <<user, odd, m_closed>> /\ user # "connected"
    BY <1>4 DEF OnClose, Connected
  <2>2. Idle'
    BY <1>1, <2>1 DEF Idle
  <2>3. OneDial'
    BY <1>1, <2>1 DEF OneDial
  <2>4. DialsClosed'
    BY <1>1, <2>1 DEF DialsClosed
  <2>5. Stale'
    BY <1>1, <1>2, <2>1 DEF Stale
  <2>6. Phase'
    BY <1>1, <2>1 DEF Phase
  <2> QED BY <1>3, <2>1, <2>2, <2>3, <2>4, <2>5, <2>6 DEF Connected
<1>5. CASE ~m_closed
  <2>1. user = "connected"
    BY <1>1, <1>5 DEF Idle, Stale, Typed
  <2>2. m_closed' /\ user' = "idle" /\ ~odd'
    BY <1>5, <2>1 DEF OnClose
  <2>3. \A i \in DOMAIN pending : pending[i].kind \notin Reads
    BY <1>1 DEF Single
  <2>4. Idle'
    BY <1>1, <1>2, <2>1, <2>2, <2>3 DEF Idle, Connected
  <2> QED BY <1>3, <2>2, <2>4 DEF OneDial, DialsClosed, Stale, Phase, Connected
<1> QED BY <1>4, <1>5

(* A gateway that refuses, or a header with a wrong sign: the socket is    *)
(* closed.                                                                 *)
LEMMA RefusedStep ==
    ASSUME PatientInv, app = "up", Flushed, pending' = <<>>, open' = FALSE, OnClose(m_closed),
           \/ queue[1].kind \in {"request", "response"}
           \/ queue[1].kind = "head" /\ queue[1].res = "bad",
           UNCHANGED <<app, m_request, m_recv_data>>
    PROVE  /\ Shut' /\ Single' /\ Idle' /\ OneDial' /\ DialsClosed' /\ Stale' /\ Phase'
           /\ Connected' /\ Sized' /\ ~odd'
<1> USE DEF PatientInv
<1>1. /\ 1 \in DOMAIN queue
      /\ \A i \in DOMAIN queue' :
           /\ i \in Nat /\ i >= 1
           /\ \/ i + 1 \in DOMAIN queue /\ queue'[i] = queue[i + 1]
              \/ \E j \in DOMAIN pending : queue'[i].kind = pending[j].kind /\ queue'[i].res = "err"
      /\ \A i \in DOMAIN queue' : DialAfter(i + 1) => DialAfter(i)'
  BY FlushedFacts DEF Done
<1>2. DOMAIN pending' = {}
  OBVIOUS
<1>3. \A i \in DOMAIN pending : pending[i].kind \notin Shakes \cup Reads
  BY <1>1 DEF Idle, OneDial, Stale, Connected, Single, Typed, Reads, Shakes, Dials
<1>4. \A i \in DOMAIN queue' : queue'[i].kind \notin Reads
  BY <1>1, <1>3 DEF Single, Idle, OneDial, Stale, Phase, Connected, Typed, Reads, Shakes, Dials
<1>5. Shut' /\ Single' /\ Sized'
  BY <1>2, <1>4 DEF Shut, Single, Sized, Reads
<1>6. CASE m_closed
  <2>1. UNCHANGED <<user, odd, m_closed>> /\ user # "connected"
    BY <1>6 DEF OnClose, Connected
  <2>2. queue[1].kind = "head" /\ ~open /\ DOMAIN pending = {}
    BY <1>1, <1>6, <2>1 DEF Idle, Phase, Stale, Typed, Shut, Dials, Shakes, Reads
  <2>3. \A i \in DOMAIN queue' :
           i \in Nat /\ i >= 1 /\ i + 1 \in DOMAIN queue /\ queue'[i] = queue[i + 1]
    BY <1>1, <2>2
  <2>4. Idle' /\ OneDial' /\ DialsClosed' /\ Stale'
    BY <1>2, <1>4, <2>1, <2>3 DEF Idle, OneDial, DialsClosed, Stale
  <2>5. Phase'
    BY <1>1, <1>2, <2>1, <2>3 DEF Phase
  <2> QED BY <1>5, <2>1, <2>4, <2>5 DEF Connected
<1>7. CASE ~m_closed
  <2>0. \A i \in DOMAIN pending : pending[i].kind # "real_connect"
    BY PendingKinds
  <2>1. user # "idle"
    BY <1>7 DEF Idle
  <2>2. m_closed' /\ user' = "idle" /\ ~odd'
    BY <1>7, <2>1 DEF OnClose
  <2>3. \A i \in DOMAIN queue' : queue'[i].kind \notin Dials
    <3>1. CASE user = "connected"
      BY <1>1, <1>3, <2>0, <3>1 DEF Connected, Dials
    <3>2. CASE user = "connecting"
      <4>1. queue[1].kind \in Dials
        BY <1>1, <1>7, <3>2 DEF Stale, Dials, Shakes, Reads
      <4> QED BY <1>1, <1>3, <2>0, <3>2, <4>1 DEF OneDial, Dials
    <3> QED BY <2>1, <3>1, <3>2 DEF Typed
  <2>4. Idle'
    BY <1>2, <1>4, <2>2, <2>3 DEF Idle
  <2> QED BY <1>5, <2>2, <2>4 DEF OneDial, DialsClosed, Stale, Phase, Connected
<1> QED BY <1>6, <1>7

(* async_connect failed.                                                   *)
LEMMA ConnectFailedStep ==
    ASSUME PatientInv, app = "up", queue[1].kind = "connect", Popped(0), OnClose(FALSE),
           UNCHANGED <<app, pending, open, m_request, m_recv_data>>
    PROVE  /\ Shut' /\ Single' /\ Idle' /\ OneDial' /\ DialsClosed' /\ Stale' /\ Phase'
           /\ Connected' /\ Sized' /\ ~odd'
<1> USE DEF PatientInv
<1>1. /\ 1 \in DOMAIN queue
      /\ \A i \in DOMAIN queue' :
           i \in Nat /\ i >= 1 /\ i + 1 \in DOMAIN queue /\ queue'[i] = queue[i + 1]
  BY PoppedZero
<1>2. user = "connecting"
  BY <1>1 DEF Idle, Connected, Dials, Shakes, Typed
<1>3. m_closed' /\ user' = "idle" /\ ~odd'
  BY <1>2 DEF OnClose
<1>4. \A i \in DOMAIN pending : pending[i].kind \notin Shakes \cup Reads
  BY <1>1, <1>2 DEF OneDial, Stale, Dials, Shakes
<1>5. \A i \in DOMAIN queue' : queue'[i].kind \notin Dials \cup Reads
  BY <1>1, <1>2 DEF OneDial, Stale, Dials, Shakes
<1>6. Shut'
  BY DEF Shut
<1>7. Single' /\ Sized'
  BY <1>4, <1>5 DEF Single, Sized, Reads
<1>8. Idle'
  BY <1>3, <1>4, <1>5 DEF Idle
<1> QED BY <1>3, <1>6, <1>7, <1>8 DEF OneDial, DialsClosed, Stale, Phase, Connected

(* A step of the handshake with the gateway.                               *)
LEMMA ShakeStep ==
    ASSUME PatientInv, app = "up", queue[1].kind \in {"connect", "request"}, m_request,
           NEW op \in Operation, op.kind \in {"request", "response"}, Started(op),
           m_closed' = FALSE, UNCHANGED <<app, open, user, odd, m_request, m_recv_data>>
    PROVE  /\ Shut' /\ Single' /\ Idle' /\ OneDial' /\ DialsClosed' /\ Stale' /\ Phase'
           /\ Connected' /\ Sized' /\ ~odd'
<1> USE DEF PatientInv
<1>1. 1 \in DOMAIN queue
  BY PoppedZero, PoppedOne DEF Started
<1>2. user = "connecting"
  BY <1>1 DEF Idle, Connected, Dials, Shakes, Typed
<1>3. \A i \in DOMAIN pending : pending[i].kind \notin Shakes \cup Reads
  BY <1>1, <1>2 DEF OneDial, Stale, Dials, Shakes
<1>4. \A i \in DOMAIN queue \ {1} : queue[i].kind \notin Dials \cup Reads
  <2>1. \A i \in DOMAIN queue : i \in Nat /\ i >= 1
    BY PoppedFacts DEF Started
  <2> QED BY <1>1, <1>2, <2>1 DEF OneDial, Stale, Dials, Shakes
<1>5. \A i \in DOMAIN queue \ {1} : queue[i].kind # "do_close"
  <2>1. SUFFICES ASSUME NEW i \in DOMAIN queue \ {1}, queue[i].kind = "do_close" PROVE FALSE
    OBVIOUS
  <2>2. \A j \in DOMAIN queue : j \in Nat /\ j >= 1
    BY PoppedFacts DEF Started
  <2>3. PICK j \in DOMAIN queue : j > i /\ queue[j].kind = "real_connect"
    BY <1>2, <2>1 DEF Phase, DialAfter
  <2> QED BY <1>4, <2>2, <2>3 DEF Dials
<1>6. CASE open
  <2> DEFINE m == Len(pending) + 1
  <2>1. /\ m \notin DOMAIN pending /\ DOMAIN pending' = DOMAIN pending \cup {m}
        /\ \A i \in DOMAIN pending : pending'[i] = pending[i]
        /\ pending'[m] = op
    BY <1>6 DEF Started, Begun
  <2> HIDE DEF m
  <2>2. Popped(0)
    BY <1>6 DEF Started
  <2>3. \A i \in DOMAIN queue' : queue'[i].kind \notin Dials \cup Reads \cup {"do_close"}
    BY <1>4, <1>5, <2>2, PoppedZero
  <2>4. Shut'
    BY <1>6 DEF Shut
  <2>5. Single' /\ Sized'
    BY <1>3, <2>1, <2>3 DEF Single, Sized, Reads, Shakes
  <2>6. OneDial' /\ DialsClosed' /\ Stale'
    BY <1>3, <2>1, <2>3 DEF OneDial, DialsClosed, Stale, Reads, Dials, Shakes
  <2>7. Phase'
    BY <1>3, <2>1, <2>3 DEF Phase, Reads, Dials, Shakes
  <2> QED BY <1>2, <2>4, <2>5, <2>6, <2>7 DEF Idle, Connected
<1>7. CASE ~open
  <2>1. /\ Popped(1) /\ queue'[Len(queue)].kind = op.kind /\ pending' = pending
    BY <1>7 DEF Started, Done
  <2>2. DOMAIN pending = {} /\ DOMAIN pending' = {}
    BY <1>7, <2>1 DEF Shut
  <2>3. \A i \in DOMAIN queue' :
           \/ queue'[i].kind \notin Dials \cup Reads \cup {"do_close"}
           \/ i = Len(queue) /\ queue'[i].kind \in {"request", "response"}
    BY <1>4, <1>5, <2>1, PoppedOne
  <2>4. Shut'
    BY <1>7, <2>2, <2>1 DEF Shut
  <2>5. Single' /\ Sized'
    BY <2>2, <2>3 DEF Single, Sized, Reads, Shakes
  <2>6. OneDial' /\ DialsClosed' /\ Stale'
    BY <2>2, <2>3 DEF OneDial, DialsClosed, Stale, Reads, Dials, Shakes
  <2>7. Phase'
    BY <2>2, <2>3 DEF Phase, Reads, Dials, Shakes
  <2> QED BY <1>2, <2>4, <2>5, <2>6, <2>7 DEF Idle, Connected
<1> QED BY <1>6, <1>7

(* The end of the handshake, with or without a gateway.                    *)
LEMMA ConnectedStep ==
    ASSUME PatientInv, app = "up", NEW op \in Operation, op.kind = "head", Started(op), OnConnect,
           \/ queue[1].kind = "connect" /\ m_closed' = FALSE
           \/ queue[1].kind = "response" /\ m_closed' = m_closed,
           UNCHANGED <<app, open, m_request, m_recv_data>>
    PROVE  /\ Shut' /\ Single' /\ Idle' /\ OneDial' /\ DialsClosed' /\ Stale' /\ Phase'
           /\ Connected' /\ Sized' /\ ~odd'
<1> USE DEF PatientInv
<1>1. 1 \in DOMAIN queue
  BY PoppedZero, PoppedOne DEF Started
<1>2. user = "connecting"
  BY <1>1 DEF Idle, Connected, Dials, Shakes, Typed
<1>3. user' = "connected" /\ ~odd' /\ ~m_closed'
  <2>1. user' = "connected" /\ ~odd'
    BY <1>2 DEF OnConnect
  <2>2. queue[1].kind = "response" => ~m_closed
    BY <1>1, <1>2 DEF Phase
  <2> QED BY <2>1, <2>2
<1>4. \A i \in DOMAIN pending : pending[i].kind \notin Shakes \cup Reads
  BY <1>1, <1>2 DEF OneDial, Stale, Dials, Shakes
<1>5. \A i \in DOMAIN queue \ {1} : queue[i].kind \notin Dials \cup Reads
  <2>1. \A i \in DOMAIN queue : i \in Nat /\ i >= 1
    BY PoppedFacts DEF Started
  <2> QED BY <1>1, <1>2, <2>1 DEF OneDial, Stale, Dials, Shakes
<1>6. CASE open
  <2> DEFINE m == Len(pending) + 1
  <2>1. /\ m \notin DOMAIN pending /\ DOMAIN pending' = DOMAIN pending \cup {m}
        /\ \A i \in DOMAIN pending : pending'[i] = pending[i]
        /\ pending'[m] = op
    BY <1>6 DEF Started, Begun
  <2> HIDE DEF m
  <2>2. Popped(0)
    BY <1>6 DEF Started
  <2>3. \A i \in DOMAIN queue' : queue'[i].kind \notin Dials \cup Reads
    BY <1>5, <2>2, PoppedZero
  <2>4. Shut'
    BY <1>6 DEF Shut
  <2>5. Single' /\ Sized'
    BY <1>4, <2>1, <2>3 DEF Single, Sized, Reads, Shakes
  <2>6. Connected'
    BY <1>3, <1>4, <2>1, <2>3 DEF Connected, Reads, Shakes
  <2> QED BY <1>3, <2>4, <2>5, <2>6 DEF Idle, OneDial, DialsClosed, Stale, Phase
<1>7. CASE ~open
  <2>1. /\ Popped(1) /\ queue'[Len(queue)].kind = op.kind /\ pending' = pending
    BY <1>7 DEF Started, Done
  <2>2. DOMAIN pending = {} /\ DOMAIN pending' = {}
    BY <1>7, <2>1 DEF Shut
  <2>3. /\ Len(queue) \in DOMAIN queue'
        /\ \A i \in DOMAIN queue' :
             \/ queue'[i].kind \notin Dials \cup Reads
             \/ i = Len(queue) /\ queue'[i].kind = "head"
    BY <1>5, <2>1, PoppedOne
  <2>4. Shut'
    BY <1>7, <2>2, <2>1 DEF Shut
  <2>5. Single' /\ Sized'
    BY <2>2, <2>3 DEF Single, Sized, Reads, Shakes
  <2>6. Connected'
    BY <1>3, <2>1, <2>2, <2>3 DEF Connected, Reads, Dials, Shakes
  <2> QED BY <1>3, <2>4, <2>5, <2>6 DEF Idle, OneDial, DialsClosed, Stale, Phase
<1> QED BY <1>6, <1>7

(* do_close()                                                              *)
LEMMA DoCloseStep ==
    ASSUME PatientInv, app = "up", queue[1].kind = "do_close",
           \/ /\ open /\ Flushed /\ pending' = <<>> /\ open' = FALSE /\ OnClose(m_closed)
           \/ /\ ~open /\ Popped(0) /\ UNCHANGED <<pending, open, m_closed, user, odd>>,
           UNCHANGED <<app, m_request, m_recv_data>>
    PROVE  /\ Shut' /\ Single' /\ Idle' /\ OneDial' /\ DialsClosed' /\ Stale' /\ Phase'
           /\ Connected' /\ Sized' /\ ~odd'
<1> USE DEF PatientInv
<1>1. CASE ~open
  <2>1. /\ 1 \in DOMAIN queue
        /\ \A i \in DOMAIN queue' :
             i \in Nat /\ i >= 1 /\ i + 1 \in DOMAIN queue /\ queue'[i] = queue[i + 1]
        /\ \A i \in DOMAIN queue \ {1} : i - 1 \in DOMAIN queue' /\ queue'[i - 1] = queue[i]
        /\ \A i \in DOMAIN queue' : DialAfter(i + 1) => DialAfter(i)'
    BY <1>1, PoppedZero
  <2>2. /\ UNCHANGED <<pending, open, m_closed, user, odd>>
        /\ DOMAIN pending = {} /\ DOMAIN pending' = {}
    BY <1>1 DEF Shut
  <2>3. Shut' /\ Single' /\ Sized'
    BY <2>1, <2>2 DEF Shut, Single, Sized
  <2>4. Idle' /\ OneDial' /\ DialsClosed'
    BY <1>1, <2>1, <2>2 DEF Idle, OneDial, DialsClosed
  <2>5. Stale'
    BY <1>1, <2>1, <2>2 DEF Stale
  <2>6. Phase'
    BY <2>1, <2>2 DEF Phase
  <2>7. Connected'
    BY <2>1, <2>2 DEF Connected, Reads
  <2> QED BY <2>2, <2>3, <2>4, <2>5, <2>6, <2>7
<1>2. CASE open
  <2>1. /\ 1 \in DOMAIN queue
        /\ \A i \in DOMAIN queue' :
             /\ i \in Nat /\ i >= 1
             /\ \/ i < Len(queue) /\ i + 1 \in DOMAIN queue /\ queue'[i] = queue[i + 1]
                \/ /\ i >= Len(queue)
                   /\ \E j \in DOMAIN pending :
                        /\ i = Len(queue) - 1 + j
                        /\ queue'[i].kind = pending[j].kind /\ queue'[i].res = "err"
        /\ \A i \in DOMAIN queue' : DialAfter(i + 1) => DialAfter(i)'
        /\ Len(queue) \in Nat
    BY <1>2, FlushedFacts DEF Done
  <2>2. DOMAIN pending' = {} /\ open' = FALSE
    BY <1>2
  <2>3. \A i \in DOMAIN pending : pending[i].kind \notin {"real_connect", "do_close", "send"}
    BY PendingKinds
  <2>4. Shut'
    BY <2>2, <1>2 DEF Shut
  <2>5. Single'
    BY <2>1, <2>2 DEF Single
  <2>6. Sized'
    BY <2>1, <2>2 DEF Sized
  <2>7. CASE user = "connected"
    <3>1. m_closed' /\ user' = "idle" /\ ~odd'
      BY <1>2, <2>7 DEF OnClose, Connected
    <3>2. Idle'
      BY <2>1, <2>2, <2>3, <2>7, <3>1 DEF Idle, Connected, Dials, Shakes
    <3> QED BY <2>4, <2>5, <2>6, <3>1, <3>2 DEF OneDial, DialsClosed, Stale, Phase, Connected
  <2>8. CASE user \in {"idle", "connecting"}
    <3>1. m_closed
      <4>1. CASE user = "idle"
        BY <4>1 DEF Idle
      <4>2. CASE user = "connecting" /\ ~m_request
        BY <4>2 DEF Phase
      <4>3. CASE user = "connecting" /\ m_request
        <5>1. PICK j \in DOMAIN queue : queue[j].kind = "real_connect"
          BY <2>1, <4>3 DEF Phase, DialAfter
        <5> QED BY <4>3, <5>1 DEF DialsClosed
      <4> QED BY <2>8, <4>1, <4>2, <4>3
    <3>2. UNCHANGED <<m_closed, user, odd>>
      BY <1>2, <3>1 DEF OnClose
    <3>3. Idle'
      BY <2>1, <2>2, <2>3, <3>2 DEF Idle, Dials
    <3>4. OneDial'
      BY <2>1, <2>2, <2>3, <3>2 DEF OneDial, Single, Dials
    <3>5. DialsClosed'
      BY <2>1, <2>2, <2>3, <3>2 DEF DialsClosed
    <3>6. Stale'
      BY <2>1, <2>2, <2>3, <3>2, <3>1 DEF Stale, Reads, Shakes
    <3>7. Phase'
      BY <2>1, <2>2, <2>3, <3>2, <3>1 DEF Phase
    <3> QED BY <2>4, <2>5, <2>6, <2>8, <3>2, <3>3, <3>4, <3>5, <3>6, <3>7 DEF Connected
  <2> QED BY <2>7, <2>8 DEF Typed
<1> QED BY <1>1, <1>2

(* real_connect() finds the socket closed.                                 *)
LEMMA RealConnectStep ==
    ASSUME PatientInv, app = "up", queue[1].kind = "real_connect", Flushed,
           pending' = <<Op("connect", 0)>>, open' = TRUE,
           UNCHANGED <<app, m_closed, user, odd, m_request, m_recv_data>>
    PROVE  /\ Shut' /\ Single' /\ Idle' /\ OneDial' /\ DialsClosed' /\ Stale' /\ Phase'
           /\ Connected' /\ Sized' /\ ~odd'
<1> USE DEF PatientInv
<1>1. 1 \in DOMAIN queue /\ \A i \in DOMAIN queue : i >= 1
  BY FlushedFacts, PoppedFacts DEF Flushed
<1>2. user = "connecting" /\ m_closed
  BY <1>1 DEF Idle, Connected, DialsClosed, Dials, Typed
<1>3. ~open /\ DOMAIN pending = {}
  BY <1>1, <1>2, PoppedFacts DEF DialsClosed, ClosedBefore, Shut, Flushed
<1>4. /\ \A i \in DOMAIN queue' :
           i \in Nat /\ i >= 1 /\ i + 1 \in DOMAIN queue /\ queue'[i] = queue[i + 1]
      /\ \A i \in DOMAIN queue' : DialAfter(i + 1) => DialAfter(i)'
  BY <1>3, FlushedFacts
<1>5. DOMAIN pending' = {1} /\ pending'[1].kind = "connect"
  BY DEF Op
<1>6. \A i \in DOMAIN queue' :
         queue'[i].kind \notin Dials /\ (queue'[i].kind \in Reads => queue'[i].res = "err")
  BY <1>1, <1>2, <1>4 DEF OneDial, Stale, Dials
<1>7. Shut' /\ Sized'
  BY <1>4, <1>5 DEF Shut, Sized
<1>8. Single'
  BY <1>4, <1>5 DEF Single, Reads
<1>9. OneDial' /\ DialsClosed'
  BY <1>5, <1>6 DEF OneDial, DialsClosed, Dials
<1>10. Stale'
  BY <1>2, <1>5, <1>6 DEF Stale, Dials, Reads
<1>11. Phase'
  BY <1>2, <1>4, <1>5, <1>6 DEF Phase, Dials, Shakes
<1> QED BY <1>2, <1>7, <1>8, <1>9, <1>10, <1>11 DEF Idle, Connected

(* Handlers that are put into the queue leave the others in place.         *)
LEMMA PostedFacts ==
    ASSUME Typed, NEW s \in Seq(Handler), queue' = queue \o s
    PROVE  /\ queue' \in Seq(Handler)
           /\ Len(queue) \in Nat /\ Len(s) \in Nat
           /\ DOMAIN queue = 1 .. Len(queue) /\ DOMAIN queue' = 1 .. (Len(queue) + Len(s))
           /\ \A i \in DOMAIN queue : i \in DOMAIN queue' /\ queue'[i] = queue[i]
           /\ \A i \in DOMAIN queue' : i \in DOMAIN queue \/ i - Len(queue) \in 1 .. Len(s)
           /\ \A i \in 1 .. Len(s) : Len(queue) + i \in DOMAIN queue' /\ queue'[Len(queue) + i] = s[i]
           /\ \A i \in DOMAIN queue : ClosedBefore(i) => ClosedBefore(i)'
           /\ \A i \in DOMAIN queue : DialAfter(i) => DialAfter(i)'
<1> DEFINE n == Len(queue)  m == Len(s)
<1>1. queue \in Seq(Handler)
  BY DEF Typed
<1>2. /\ queue' \in Seq(Handler) /\ Len(queue') = n + m
      /\ \A i \in 1 .. n + m : queue'[i] = IF i <= n THEN queue[i] ELSE s[i - n]
  BY <1>1, ConcatProperties
<1>3. n \in Nat /\ m \in Nat /\ DOMAIN queue = 1 .. n /\ DOMAIN queue' = 1 .. Len(queue')
  BY <1>1, <1>2, LenProperties
<1> HIDE DEF n, m
<1>4. DOMAIN queue' = 1 .. (n + m)
  BY <1>2, <1>3
<1>5. \A i \in 1 .. n : i \in 1 .. n + m /\ queue'[i] = queue[i]
  BY <1>2, <1>3
<1>6. \A i \in 1 .. n + m : i \in 1 .. n \/ i - n \in 1 .. m
  BY <1>3
<1>7. \A i \in 1 .. m : n + i \in 1 .. n + m /\ queue'[n + i] = s[i]
  <2> SUFFICES ASSUME NEW i \in 1 .. m PROVE n + i \in 1 .. n + m /\ queue'[n + i] = s[i]
    OBVIOUS
  <2>1. n + i \in 1 .. n + m /\ ~(n + i <= n) /\ (n + i) - n = i
    BY <1>3
  <2> QED BY <1>2, <2>1
<1>8. /\ \A i \in DOMAIN queue : ClosedBefore(i) => ClosedBefore(i)'
      /\ \A i \in DOMAIN queue : DialAfter(i) => DialAfter(i)'
  BY <1>3, <1>4, <1>5 DEF ClosedBefore, DialAfter
<1> QED BY <1>2, <1>3, <1>4, <1>5, <1>6, <1>7, <1>8 DEF n, m

(* A single one.                                                           *)
LEMMA PostOneFacts ==
    ASSUME Typed, NEW h \in Handler, queue' = Append(queue, h)
    PROVE  /\ queue' \in Seq(Handler)
           /\ Len(queue) \in Nat
           /\ \A i \in DOMAIN queue : i \in Nat /\ i <= Len(queue)
           /\ DOMAIN queue' = DOMAIN queue \cup {Len(queue) + 1}
           /\ \A i \in DOMAIN queue : queue'[i] = queue[i]
           /\ queue'[Len(queue) + 1] = h
           /\ \A i \in DOMAIN queue : ClosedBefore(i) => ClosedBefore(i)'
           /\ \A i \in DOMAIN queue : DialAfter(i) => DialAfter(i)'
<1> DEFINE s == <<h>>
<1>1. s \in Seq(Handler) /\ Len(s) = 1 /\ s[1] = h
  OBVIOUS
<1>2. queue' = queue \o s
  BY AppendIsConcat DEF Typed
<1> HIDE DEF s
<1>3. /\ queue' \in Seq(Handler) /\ Len(queue) \in Nat
      /\ DOMAIN queue = 1 .. Len(queue) /\ DOMAIN queue' = 1 .. (Len(queue) + Len(s))
      /\ \A i \in DOMAIN queue : i \in DOMAIN queue' /\ queue'[i] = queue[i]
      /\ \A i \in 1 .. Len(s) : Len(queue) + i \in DOMAIN queue' /\ queue'[Len(queue) + i] = s[i]
      /\ \A i \in DOMAIN queue : ClosedBefore(i) => ClosedBefore(i)'
      /\ \A i \in DOMAIN queue : DialAfter(i) => DialAfter(i)'
  BY <1>1, <1>2, PostedFacts
<1>4. queue'[Len(queue) + 1] = h
  BY <1>1, <1>3
<1>5. /\ DOMAIN queue' = DOMAIN queue \cup {Len(queue) + 1}
      /\ \A i \in DOMAIN queue : i \in Nat /\ i <= Len(queue)
  BY <1>1, <1>3
<1> QED BY <1>3, <1>4, <1>5

(* close() and send_message()                                              *)
LEMMA PostStep ==
    ASSUME PatientInv, app = "up", NEW h \in Handler, h.kind \in {"do_close", "send"},
           queue' = Append(queue, h),
           h.kind = "do_close" /\ m_request => user # "connecting",
           UNCHANGED <<app, pending, open, m_closed, user, odd, m_request, m_recv_data>>
    PROVE  /\ Shut' /\ Single' /\ Idle' /\ OneDial' /\ DialsClosed' /\ Stale' /\ Phase'
           /\ Connected' /\ Sized' /\ ~odd'
<1> USE DEF PatientInv
<1>1. /\ \A i \in DOMAIN queue : queue'[i] = queue[i]
      /\ \A i \in DOMAIN queue' : i \in DOMAIN queue \/ queue'[i] = h
      /\ DOMAIN queue \subseteq DOMAIN queue'
      /\ \A i \in DOMAIN queue : ClosedBefore(i) => ClosedBefore(i)'
      /\ \A i \in DOMAIN queue : DialAfter(i) => DialAfter(i)'
  BY PostOneFacts
<1>2. Shut' /\ Single' /\ Sized'
  BY <1>1 DEF Shut, Single, Sized, Reads
<1>3. Idle' /\ OneDial' /\ DialsClosed'
  BY <1>1 DEF Idle, OneDial, DialsClosed, Reads, Dials, Shakes
<1>4. Stale'
  BY <1>1 DEF Stale, Reads, Shakes
<1>5. Phase'
  BY <1>1 DEF Phase
<1>6. Connected'
  BY <1>1 DEF Connected, Dials, Shakes
<1> QED BY <1>2, <1>3, <1>4, <1>5, <1>6

(* connect(): a patient user has no connection.                            *)
LEMMA ConnectStep ==
    ASSUME PatientInv, ~Impatient, Connect
    PROVE  /\ Shut' /\ Single' /\ Idle' /\ OneDial' /\ DialsClosed' /\ Stale' /\ Phase'
           /\ Connected' /\ Sized' /\ ~odd' /\ queue' \in Seq(Handler)
<1> USE DEF PatientInv
<1> DEFINE c == Posted("do_close")  r == Posted("real_connect")  n == Len(queue)
<1>1. /\ app = "up" /\ user = "idle" /\ user' = "connecting"
      /\ queue' = queue \o (IF open THEN <<c, r>> ELSE <<r>>)
      /\ UNCHANGED <<app, pending, open, m_closed, odd, m_request, m_recv_data>>
  BY DEF Connect, socket
<1>2. /\ c \in Handler /\ r \in Handler /\ c.kind = "do_close" /\ r.kind = "real_connect"
  BY DEF Posted, Handler, Kinds, Dials, What, Results
<1> HIDE DEF c, r
<1> DEFINE Dialled(d) ==
             /\ queue' \in Seq(Handler)
             /\ \A i \in DOMAIN queue : i \in DOMAIN queue' /\ queue'[i] = queue[i] /\ i < d /\ i \in Nat
             /\ d \in DOMAIN queue' /\ queue'[d] = r
             /\ \A i \in DOMAIN queue' : i \in DOMAIN queue \/ i = d \/ (i < d /\ queue'[i] = c)
             /\ open => \E j \in DOMAIN queue' : j < d /\ queue'[j].kind = "do_close"
<1>3. PICK d \in Nat : Dialled(d)
  <2>1. CASE ~open
    <3> DEFINE s == <<r>>
    <3>1. s \in Seq(Handler) /\ Len(s) = 1 /\ s[1] = r /\ queue' = queue \o s
      BY <1>1, <1>2, <2>1
    <3> HIDE DEF s
    <3>2. /\ queue' \in Seq(Handler) /\ n \in Nat
          /\ DOMAIN queue = 1 .. n /\ DOMAIN queue' = 1 .. (n + 1)
          /\ \A i \in DOMAIN queue : i \in DOMAIN queue' /\ queue'[i] = queue[i]
          /\ \A i \in 1 .. 1 : n + i \in DOMAIN queue' /\ queue'[n + i] = s[i]
      BY <3>1, PostedFacts
    <3> HIDE DEF n
    <3>3. PICK d \in Nat : d = n + 1
      BY <3>2
    <3>4. /\ d \in DOMAIN queue' /\ queue'[d] = r
          /\ \A i \in DOMAIN queue : i < d /\ i \in Nat
          /\ \A i \in DOMAIN queue' : i \in DOMAIN queue \/ i = d
      BY <3>1, <3>2, <3>3
    <3>5. Dialled(d)
      BY <2>1, <3>2, <3>4
    <3> HIDE DEF Dialled
    <3> QED BY <3>5
  <2>2. CASE open
    <3> DEFINE s == <<c, r>>
    <3>1. s \in Seq(Handler) /\ Len(s) = 2 /\ s[1] = c /\ s[2] = r /\ queue' = queue \o s
      BY <1>1, <1>2, <2>2
    <3> HIDE DEF s
    <3>2. /\ queue' \in Seq(Handler) /\ n \in Nat
          /\ DOMAIN queue = 1 .. n /\ DOMAIN queue' = 1 .. (n + 2)
          /\ \A i \in DOMAIN queue : i \in DOMAIN queue' /\ queue'[i] = queue[i]
          /\ \A i \in 1 .. 2 : n + i \in DOMAIN queue' /\ queue'[n + i] = s[i]
      BY <3>1, PostedFacts
    <3> HIDE DEF n
    <3>3. PICK b \in Nat, d \in Nat : b = n + 1 /\ d = n + 2
      BY <3>2
    <3>4. b \in DOMAIN queue' /\ queue'[b] = c /\ d \in DOMAIN queue' /\ queue'[d] = r
      BY <3>1, <3>2, <3>3
    <3>5. /\ \A i \in DOMAIN queue : i < d /\ i \in Nat
          /\ \A i \in DOMAIN queue' : i \in DOMAIN queue \/ i = d \/ i = b
          /\ b < d
      BY <3>2, <3>3
    <3>6. Dialled(d)
      BY <1>2, <3>2, <3>4, <3>5
    <3> HIDE DEF Dialled
    <3> QED BY <3>6
  <2> QED BY <2>1, <2>2
<1>4. /\ \A i \in DOMAIN queue : queue[i].kind \notin Dials
      /\ open => ClosedBefore(d)'
      /\ \A i \in DOMAIN queue' : i # d => DialAfter(i)'
  BY <1>1, <1>2, <1>3 DEF Idle, ClosedBefore, DialAfter
<1>5. /\ \A i \in DOMAIN queue' :
           \/ i \in DOMAIN queue /\ queue'[i] = queue[i]
           \/ queue'[i].kind = "do_close"
           \/ i = d /\ queue'[i].kind = "real_connect"
      /\ \A i \in DOMAIN queue : i \in Nat /\ i < d
      /\ queue'[d].kind = "real_connect"
  BY <1>2, <1>3
<1> HIDE DEF Dialled
<1>6. Shut' /\ Single' /\ Sized'
  <2>1. Shut'
    BY <1>1 DEF Shut
  <2>2. Single'
    <3>1. \A i \in DOMAIN queue' : queue'[i].kind \in Reads => i \in DOMAIN queue /\ queue[i].kind \in Reads
      BY <1>5 DEF Reads
    <3> QED BY <1>1, <3>1 DEF Single
  <2>3. Sized'
    BY <1>1, <1>5 DEF Sized
  <2> QED BY <2>1, <2>2, <2>3
<1>7. OneDial'
  BY <1>1, <1>4, <1>5 DEF OneDial, Idle, Dials, Shakes
<1>8. DialsClosed'
  BY <1>1, <1>4, <1>5 DEF DialsClosed, Idle, Dials
<1>9. Stale'
  BY <1>1, <1>4, <1>5 DEF Stale, Idle, Reads, Dials, Shakes
<1>10. Phase'
  BY <1>1, <1>4, <1>5 DEF Phase, Idle, Dials, Shakes
<1>11. queue' \in Seq(Handler)
  BY <1>3 DEF Dialled
<1> QED BY <1>1, <1>6, <1>7, <1>8, <1>9, <1>10, <1>11 DEF Idle, Connected

(* An operation that completes leaves the others and goes to the end of    *)
(* the queue.                                                              *)
LEMMA CompleteFacts ==
    ASSUME Typed, NEW i \in DOMAIN pending, NEW res \in Results, Complete(i, res)
    PROVE  /\ pending' \in Seq(Operation) /\ queue' \in Seq(Handler)
           /\ \A k \in DOMAIN pending' : \E j \in DOMAIN pending \ {i} :
                /\ pending'[k] = pending[j]
                /\ j = IF k < i THEN k ELSE k + 1
           /\ \A k \in DOMAIN pending' : k \in Nat
           /\ \A j \in DOMAIN pending \ {i} : \E k \in DOMAIN pending' : pending'[k] = pending[j]
           /\ Len(queue) \in Nat
           /\ \A j \in DOMAIN queue : j \in Nat /\ j <= Len(queue)
           /\ DOMAIN queue' = DOMAIN queue \cup {Len(queue) + 1}
           /\ \A j \in DOMAIN queue : queue'[j] = queue[j]
           /\ queue'[Len(queue) + 1] = Done(pending[i], res)
           /\ \A j \in DOMAIN queue : ClosedBefore(j) => ClosedBefore(j)'
           /\ \A j \in DOMAIN queue : DialAfter(j) => DialAfter(j)'
<1> DEFINE n == Len(pending)  a == SubSeq(pending, 1, i - 1)  b == SubSeq(pending, i + 1, n)
<1>1. pending \in Seq(Operation) /\ pending' = a \o b /\ queue' = Append(queue, Done(pending[i], res))
  BY DEF Typed, Complete
<1>2. n \in Nat /\ DOMAIN pending = 1 .. n /\ i \in 1 .. n /\ pending[i] \in Operation
  BY <1>1, LenProperties
<1>3. Done(pending[i], res) \in Handler
  BY <1>2, DoneHandler
<1>4. /\ queue' \in Seq(Handler)
      /\ Len(queue) \in Nat
      /\ \A j \in DOMAIN queue : j \in Nat /\ j <= Len(queue)
      /\ DOMAIN queue' = DOMAIN queue \cup {Len(queue) + 1}
      /\ \A j \in DOMAIN queue : queue'[j] = queue[j]
      /\ queue'[Len(queue) + 1] = Done(pending[i], res)
      /\ \A j \in DOMAIN queue : ClosedBefore(j) => ClosedBefore(j)'
      /\ \A j \in DOMAIN queue : DialAfter(j) => DialAfter(j)'
  BY <1>1, <1>3, PostOneFacts
<1>5. /\ a \in Seq(Operation) /\ Len(a) = i - 1
      /\ \A k \in 1 .. i - 1 : a[k] = pending[k]
  BY <1>1, <1>2
<1>6. /\ b \in Seq(Operation) /\ Len(b) = n - i
      /\ \A k \in 1 .. n - i : b[k] = pending[i + k]
  <2>1. i + 1 \in Int /\ n \in Int /\ \A k \in i + 1 .. n : pending[k] \in Operation
    BY <1>1, <1>2
  <2>2. /\ b \in Seq(Operation) /\ Len(b) = IF i + 1 <= n THEN n - (i + 1) + 1 ELSE 0
        /\ \A k \in 1 .. n - (i + 1) + 1 : b[k] = pending[(i + 1) + k - 1]
    BY <2>1, SubSeqProperties
  <2> HIDE DEF b
  <2>3. n - (i + 1) + 1 = n - i /\ \A k \in 1 .. n - i : (i + 1) + k - 1 = i + k
    BY <1>2
  <2> QED BY <1>2, <2>2, <2>3
<1> HIDE DEF a, b, n
<1>7. /\ pending' \in Seq(Operation) /\ Len(pending') = Len(a) + Len(b)
      /\ \A k \in 1 .. Len(a) + Len(b) : pending'[k] = IF k <= Len(a) THEN a[k] ELSE b[k - Len(a)]
  BY <1>1, <1>5, <1>6, ConcatProperties, Zenon
<1>7a. /\ Len(pending') = (i - 1) + (n - i)
      /\ \A k \in 1 .. (i - 1) + (n - i) : pending'[k] = IF k <= i - 1 THEN a[k] ELSE b[k - (i - 1)]
  BY <1>5, <1>6, <1>7
<1>8. DOMAIN pending' = 1 .. n - 1
  BY <1>2, <1>7, <1>7a, LenProperties
<1>9. ASSUME NEW k \in 1 .. n - 1
      PROVE  pending'[k] = pending[IF k < i THEN k ELSE k + 1]
  <2>1. k \in 1 .. (i - 1) + (n - i)
    BY <1>2
  <2>2. CASE k < i
    BY <1>2, <1>5, <1>7a, <2>1, <2>2
  <2>3. CASE ~(k < i)
    <3>1. ~(k <= i - 1) /\ k - (i - 1) \in 1 .. n - i /\ i + (k - (i - 1)) = k + 1
      BY <1>2, <2>3
    <3> QED BY <1>6, <1>7a, <2>1, <2>3, <3>1
  <2> QED BY <2>2, <2>3
<1>10. ASSUME NEW k \in DOMAIN pending'
       PROVE  k \in Nat /\ \E j \in DOMAIN pending \ {i} :
                  pending'[k] = pending[j] /\ j = IF k < i THEN k ELSE k + 1
  <2>1. (IF k < i THEN k ELSE k + 1) \in 1 .. n /\ (IF k < i THEN k ELSE k + 1) # i /\ k \in Nat
    BY <1>2, <1>8
  <2> QED BY <1>2, <1>8, <1>9, <2>1
<1>11. ASSUME NEW j \in DOMAIN pending \ {i}
       PROVE  \E k \in DOMAIN pending' : pending'[k] = pending[j]
  <2> DEFINE k == IF j < i THEN j ELSE j - 1
  <2>1. k \in 1 .. n - 1 /\ (IF k < i THEN k ELSE k + 1) = j
    BY <1>2
  <2> HIDE DEF k
  <2> QED BY <1>8, <1>9, <2>1
<1> QED BY <1>4, <1>7, <1>10, <1>11

(* The network                                                             *)
LEMMA CompleteStep ==
    ASSUME PatientInv, NEW i \in DOMAIN pending, NEW res \in Results, Complete(i, res)
    PROVE  /\ Shut' /\ Single' /\ Idle' /\ OneDial' /\ DialsClosed' /\ Stale' /\ Phase'
           /\ Connected' /\ Sized' /\ ~odd'
<1> USE DEF PatientInv
<1> DEFINE n == Len(queue) + 1
<1>1. /\ \A k \in DOMAIN pending' : \E j \in DOMAIN pending \ {i} :
           /\ pending'[k] = pending[j]
           /\ j = IF k < i THEN k ELSE k + 1
      /\ \A k \in DOMAIN pending' : k \in Nat
      /\ \A j \in DOMAIN pending \ {i} : \E k \in DOMAIN pending' : pending'[k] = pending[j]
      /\ n \in Nat
      /\ \A j \in DOMAIN queue : j \in Nat /\ j < n
      /\ DOMAIN queue' = DOMAIN queue \cup {n}
      /\ \A j \in DOMAIN queue : queue'[j] = queue[j]
      /\ queue'[n].kind = pending[i].kind /\ queue'[n].what = pending[i].what /\ queue'[n].res = res
      /\ \A j \in DOMAIN queue : ClosedBefore(j) => ClosedBefore(j)'
      /\ \A j \in DOMAIN queue : DialAfter(j) => DialAfter(j)'
  <2>1. /\ Len(queue) \in Nat
        /\ \A j \in DOMAIN queue : j \in Nat /\ j <= Len(queue)
        /\ DOMAIN queue' = DOMAIN queue \cup {Len(queue) + 1}
        /\ \A j \in DOMAIN queue : queue'[j] = queue[j]
        /\ queue'[Len(queue) + 1] = Done(pending[i], res)
    BY CompleteFacts
  <2>2. n \in Nat /\ \A j \in DOMAIN queue : j < n
    BY <2>1
  <2>3. queue'[n].kind = pending[i].kind /\ queue'[n].what = pending[i].what /\ queue'[n].res = res
    BY <2>1 DEF Done
  <2>4. /\ \A k \in DOMAIN pending' : \E j \in DOMAIN pending \ {i} :
             /\ pending'[k] = pending[j]
             /\ j = IF k < i THEN k ELSE k + 1
        /\ \A k \in DOMAIN pending' : k \in Nat
        /\ \A j \in DOMAIN pending \ {i} : \E k \in DOMAIN pending' : pending'[k] = pending[j]
        /\ \A j \in DOMAIN queue : ClosedBefore(j) => ClosedBefore(j)'
        /\ \A j \in DOMAIN queue : DialAfter(j) => DialAfter(j)'
    BY CompleteFacts, Zenon
  <2> QED BY <2>1, <2>2, <2>3, <2>4
<1> HIDE DEF n
<1>2. /\ pending[i].kind \notin {"real_connect", "do_close", "send"}
      /\ i \in Nat
  <2>1. pending \in Seq(Operation)
    BY DEF Typed
  <2>2. i \in Nat
    BY <2>1, LenProperties
  <2> QED BY <2>2, PendingKinds
<1>3. UNCHANGED <<app, open, m_closed, user, odd, m_request, m_recv_data>> /\ open /\ app = "up"
  BY DEF Complete, told, Shut, Typed
<1>4. Shut' /\ Sized'
  BY <1>1, <1>3 DEF Shut, Sized
<1>5. Single'
  <2>1. \A k, l \in DOMAIN pending' :
          pending'[k].kind \in Shakes \cup Reads /\ pending'[l].kind \in Shakes \cup Reads => k = l
    BY <1>1, <1>2 DEF Single
  <2>2. \A k, l \in DOMAIN queue' :
          queue'[k].kind \in Reads /\ queue'[l].kind \in Reads => k = l
    BY <1>1, <1>2 DEF Single
  <2>3. \A k \in DOMAIN pending' : \A l \in DOMAIN queue' :
          pending'[k].kind \in Reads => queue'[l].kind \notin Reads
    BY <1>1, <1>2 DEF Single
  <2> QED BY <2>1, <2>2, <2>3 DEF Single
<1>6. Idle'
  BY <1>1, <1>2, <1>3 DEF Idle, Dials
<1>7. OneDial'
  BY <1>1, <1>2, <1>3 DEF OneDial, Single, Dials
<1>8. DialsClosed'
  BY <1>1, <1>2, <1>3 DEF DialsClosed
<1>9. Stale'
  BY <1>1, <1>2, <1>3 DEF Stale, Shakes, Reads
<1>10. Phase'
  BY <1>1, <1>2, <1>3 DEF Phase
<1>11. Connected'
  BY <1>1, <1>2, <1>3 DEF Connected, Dials
<1> QED BY <1>3, <1>4, <1>5, <1>6, <1>7, <1>8, <1>9, <1>10, <1>11

-----------------------------------------------------------------------------
(* Every step of a patient user's client                                   *)

(* The initial states satisfy the invariant.                               *)
LEMMA InitPatient == Init => PatientInv
<1> SUFFICES ASSUME Init PROVE PatientInv
  OBVIOUS
<1>1. <<>> \in Seq(Handler) /\ <<>> \in Seq(Operation) /\ <<>> \in Seq(Chunk) /\ 0 \in What
  BY DEF What
<1>2. Typed
  BY <1>1 DEF Init, Typed
<1> QED BY <1>2 DEF Init, PatientInv, Shut, Single, Idle, OneDial, DialsClosed, Stale, Phase, Connected,
         Sized

(* The user's calls keep the types ...                                     *)
LEMMA UserTyped == Typed /\ User => Typed'
<1> SUFFICES ASSUME Typed, User PROVE Typed'
  OBVIOUS
<1>1. CASE InitClient
  BY <1>1, GatewayAssumption DEF InitClient, Typed, socket, told, counts
<1>2. CASE ExitClient
  <2>1. <<>> \in Seq(Handler) /\ <<>> \in Seq(Operation) /\ <<>> \in Seq(Chunk) /\ 0 \in What
    BY DEF What
  <2> QED BY <1>2, <2>1 DEF ExitClient, Typed, counts
<1>3. CASE Connect
  <2> DEFINE c == Posted("do_close")  r == Posted("real_connect")
  <2>1. c \in Handler /\ r \in Handler
    BY DEF Posted, Handler, Kinds, Dials, What, Results
  <2>2. <<c, r>> \in Seq(Handler) /\ <<r>> \in Seq(Handler)
    BY <2>1
  <2>3. queue' \in Seq(Handler)
    <3> DEFINE s == IF open THEN <<c, r>> ELSE <<r>>
    <3>1. s \in Seq(Handler) /\ queue' = queue \o s
      BY <1>3, <2>2 DEF Connect
    <3> HIDE DEF s
    <3> QED BY <3>1, PostedFacts
  <2> QED BY <1>3, <2>3 DEF Connect, Typed, socket
<1>4. CASE Close
  <2>1. Posted("do_close") \in Handler
    BY DEF Posted, Handler, Kinds, Dials, What, Results
  <2>2. queue' \in Seq(Handler)
    BY <1>4, <2>1, PostOneFacts DEF Close
  <2> QED BY <1>4, <2>2 DEF Close, Typed, socket, told, counts
<1>5. CASE SendMessage
  <2> DEFINE h == [Posted("send") EXCEPT !.what = sent + 1]
  <2>1. h \in Handler
    BY DEF Posted, Handler, Kinds, Dials, What, Results, Typed
  <2>2. queue' = Append(queue, h)
    BY <1>5 DEF SendMessage
  <2> HIDE DEF h
  <2>3. queue' \in Seq(Handler)
    BY <2>1, <2>2, PostOneFacts
  <2> QED BY <1>5, <2>3 DEF SendMessage, Typed, socket, told
<1> QED BY <1>1, <1>2, <1>3, <1>4, <1>5 DEF User

(* ... and, of a patient user, the invariant.                              *)
LEMMA UserPatient == ~Impatient /\ PatientInv /\ User => PatientInv'
<1> SUFFICES ASSUME ~Impatient, PatientInv, User PROVE PatientInv'
  OBVIOUS
<1>1. Typed'
  BY UserTyped DEF PatientInv
<1>2. CASE InitClient
  <2>1. UNCHANGED <<queue, pending, open, m_closed, user, odd, m_recv_data>> /\ app = "down" /\ app' = "up"
    BY <1>2 DEF InitClient, socket, told
  <2> QED BY <1>1, <2>1 DEF PatientInv, Shut, Single, Idle, OneDial, DialsClosed, Stale, Phase, Connected,
       Sized
<1>3. CASE ExitClient
  BY <1>1, <1>3 DEF ExitClient, PatientInv, Shut, Single, Idle, OneDial, DialsClosed, Stale, Phase,
     Connected, Sized
<1>4. CASE Connect
  BY <1>1, <1>4, ConnectStep DEF PatientInv
<1>5. CASE Close
  <2>1. Posted("do_close") \in Handler /\ Posted("do_close").kind = "do_close"
    BY DEF Posted, Handler, Kinds, Dials, What, Results
  <2>2. /\ app = "up" /\ queue' = Append(queue, Posted("do_close"))
        /\ m_request => user # "connecting"
        /\ UNCHANGED <<app, pending, open, m_closed, user, odd, m_request, m_recv_data>>
    BY <1>5 DEF Close, socket, told
  <2> QED BY <1>1, <2>1, <2>2, PostStep DEF PatientInv
<1>6. CASE SendMessage
  <2> DEFINE h == [Posted("send") EXCEPT !.what = sent + 1]
  <2>1. h \in Handler /\ h.kind = "send"
    BY DEF Posted, Handler, Kinds, Dials, What, Results, PatientInv, Typed
  <2>2. /\ app = "up" /\ queue' = Append(queue, h)
        /\ UNCHANGED <<app, pending, open, m_closed, user, odd, m_request, m_recv_data>>
    BY <1>6 DEF SendMessage, socket, told
  <2> HIDE DEF h
  <2> QED BY <1>1, <2>1, <2>2, PostStep DEF PatientInv
<1> QED BY <1>2, <1>3, <1>4, <1>5, <1>6 DEF User

(* A handler that starts an operation, by its guard.                       *)
LEMMA StartTyped ==
    ASSUME Typed, NEW k, NextIs(k), NEW op \in Operation, Start(op)
    PROVE  /\ queue' \in Seq(Handler) /\ pending' \in Seq(Operation) /\ Started(op)
           /\ app = "up" /\ queue[1].kind = k /\ Head(queue) = queue[1]
  BY FirstFacts, StartFacts

(* A handler that starts nothing, by its guard.                            *)
LEMMA RestTyped ==
    ASSUME Typed, NEW k, NextIs(k), queue' = Rest
    PROVE  /\ queue' \in Seq(Handler) /\ Popped(0)
           /\ app = "up" /\ queue[1].kind = k /\ Head(queue) = queue[1]
  BY FirstFacts, PopFacts

(* A handler that closes the socket, by its guard.                         *)
LEMMA FlushTyped ==
    ASSUME Typed, NEW k, NextIs(k), queue' = Rest \o Aborted
    PROVE  /\ queue' \in Seq(Handler) /\ Flushed
           /\ app = "up" /\ queue[1].kind = k /\ Head(queue) = queue[1]
  BY FirstFacts, FlushFacts

(* The operations that handlers start.                                     *)
LEMMA Ops ==
    /\ \A k \in {"head", "connect", "request", "response"} :
         Op(k, 0) \in Operation /\ Op(k, 0).kind = k
    /\ \A n \in Sizes : Op("body", n) \in Operation /\ Op("body", n).kind = "body" /\ Op("body", n).what = n
    /\ \A c \in Chunk : Op("write", c) \in Operation /\ Op("write", c).kind = "write" /\ Op("write", c).what = c
  BY DEF Op, Operation, Reads, Shakes, What

(* on_close() keeps the types.                                             *)
LEMMA OnCloseTyped ==
    ASSUME Typed, NEW c \in BOOLEAN, OnClose(c)
    PROVE  m_closed' \in BOOLEAN /\ odd' \in BOOLEAN /\ user' \in {"idle", "connecting", "connected"}
<1>1. CASE c
  BY <1>1 DEF OnClose, Typed
<1>2. CASE ~c
  BY <1>2 DEF OnClose, Typed
<1> QED BY <1>1, <1>2

(* The chunks in the list.                                                 *)
LEMMA ChunksTyped ==
    ASSUME NEW m \in Nat
    PROVE  Chunks(m) \in Seq(Chunk) /\ Len(Chunks(m)) = 2 /\ Chunks(m)[1] = <<"head", m>>
  BY DEF Chunks, Chunk

(* The list after the posted part of send_message().                       *)
LEMMA SendTyped ==
    ASSUME Typed, HandleSend
    PROVE  /\ queue[1].kind = "send" /\ app = "up" /\ queue[1].what \in Nat
           /\ queue' \in Seq(Handler) /\ pending' \in Seq(Operation) /\ m_send_data_list' \in Seq(Chunk)
           /\ \/ ~open /\ m_send_data_list' = m_send_data_list /\ Popped(0) /\ pending' = pending
              \/ /\ open /\ m_send_data_list # <<>> /\ Popped(0) /\ pending' = pending
                 /\ m_send_data_list' # <<>> /\ Head(m_send_data_list') = Head(m_send_data_list)
              \/ /\ open /\ m_send_data_list = <<>> /\ m_send_data_list' # <<>>
                 /\ Head(m_send_data_list') \in Chunk /\ Started(Op("write", Head(m_send_data_list')))
<1>1. NextIs("send") /\ m_send_data_list \in Seq(Chunk)
  BY DEF HandleSend, Typed
<1>2. queue[1].kind = "send" /\ app = "up" /\ queue[1].what \in Nat /\ Head(queue) = queue[1]
  BY <1>1, FirstFacts DEF Handler
<1> DEFINE l == m_send_data_list  x == Chunks(Head(queue).what)
<1>3. x \in Seq(Chunk) /\ Len(x) = 2
  BY <1>2, ChunksTyped
<1> HIDE DEF x
<1>4. CASE ~open
  <2>1. l' = l /\ queue' = Rest /\ pending' = pending
    BY <1>4 DEF HandleSend
  <2> QED BY <1>1, <1>2, <1>4, <2>1, RestTyped DEF Typed
<1>5. CASE open
  <2>1. l' = l \o x
    BY <1>5 DEF HandleSend, x
  <2>2. /\ l' \in Seq(Chunk) /\ Len(l') = Len(l) + 2 /\ Len(l) \in Nat
        /\ \A i \in 1 .. Len(l) + 2 : l'[i] = IF i <= Len(l) THEN l[i] ELSE x[i - Len(l)]
    <3>1. /\ l' \in Seq(Chunk) /\ Len(l') = Len(l) + Len(x)
          /\ \A i \in 1 .. Len(l) + Len(x) : l'[i] = IF i <= Len(l) THEN l[i] ELSE x[i - Len(l)]
      BY <1>1, <1>3, <2>1, ConcatProperties, Zenon
    <3> QED BY <1>1, <1>3, <3>1, LenProperties
  <2>3. l' # <<>>
    BY <2>2
  <2>4. Head(l') = l'[1] /\ l'[1] \in Chunk
    BY <2>2, <2>3
  <2>5. CASE l = <<>>
    <3>1. Len(l') = 2
      BY <2>2, <2>5
    <3>2. Start(Op("write", Head(l')))
      BY <1>5, <3>1 DEF HandleSend, DoWrite
    <3>3. Op("write", Head(l')) \in Operation
      BY <2>4, Ops
    <3> QED BY <1>1, <1>2, <1>5, <2>2, <2>3, <2>4, <2>5, <3>2, <3>3, StartTyped
  <2>6. CASE l # <<>>
    <3>1. Len(l) \in Nat \ {0} /\ Head(l) = l[1]
      BY <1>1, <2>6, EmptySeq
    <3>2. Len(l') # 2 /\ 1 \in 1 .. Len(l) + 2 /\ 1 <= Len(l)
      BY <2>2, <3>1
    <3>3. Head(l') = Head(l)
      BY <2>2, <2>4, <3>1, <3>2
    <3>4. queue' = Rest /\ pending' = pending
      BY <1>5, <3>2 DEF HandleSend
    <3> QED BY <1>1, <1>2, <1>5, <2>2, <2>3, <2>6, <3>3, <3>4, RestTyped DEF Typed
  <2> QED BY <2>5, <2>6
<1> QED BY <1>4, <1>5

(* The list after a write.                                                 *)
LEMMA WroteTyped ==
    ASSUME Typed, HandleWrote
    PROVE  /\ queue[1].kind = "write" /\ app = "up"
           /\ queue' \in Seq(Handler) /\ pending' \in Seq(Operation) /\ m_send_data_list' \in Seq(Chunk)
           /\ \/ m_send_data_list' = <<>> /\ Popped(0) /\ pending' = pending
              \/ /\ m_send_data_list' # <<>> /\ Head(m_send_data_list') \in Chunk
                 /\ Started(Op("write", Head(m_send_data_list')))
<1> DEFINE l == m_send_data_list
<1>1. NextIs("write") /\ l \in Seq(Chunk)
  BY DEF HandleWrote, Typed
<1>2. l' \in Seq(Chunk)
  <2>1. l' = <<>> \/ (l # <<>> /\ l' = Tail(l))
    BY DEF HandleWrote
  <2>2. <<>> \in Seq(Chunk)
    OBVIOUS
  <2>3. l # <<>> => Tail(l) \in Seq(Chunk)
    BY <1>1, HeadTailProperties
  <2> HIDE DEF l
  <2> QED BY <2>1, <2>2, <2>3
<1>3. CASE l' = <<>>
  <2>1. queue' = Rest /\ pending' = pending
    BY <1>3 DEF HandleWrote
  <2> QED BY <1>1, <1>2, <1>3, <2>1, RestTyped DEF Typed
<1>4. CASE l' # <<>>
  <2>1. Head(l') \in Chunk
    BY <1>2, <1>4, HeadTailProperties
  <2>2. Start(Op("write", Head(l'))) /\ Op("write", Head(l')) \in Operation
    BY <1>4, <2>1, Ops DEF HandleWrote, DoWrite
  <2> QED BY <1>1, <1>2, <1>4, <2>1, <2>2, StartTyped
<1> QED BY <1>3, <1>4

(* The handlers keep the types.                                            *)
LEMMA ThreadTyped == Typed /\ Thread => Typed'
<1> SUFFICES ASSUME Typed, Thread PROVE Typed'
  OBVIOUS
<1>0. 0 \in What /\ (\A n \in Sizes : n \in What) /\ <<>> \in Seq(Operation)
  BY DEF What
<1>1. CASE HandleDoClose
  <2>1. CASE open
    <3>1. NextIs("do_close") /\ queue' = Rest \o Aborted /\ pending' = <<>> /\ OnClose(m_closed)
      BY <1>1, <2>1 DEF HandleDoClose, RealClose
    <3>2. queue' \in Seq(Handler)
      BY <3>1, FlushTyped
    <3>3. m_closed' \in BOOLEAN /\ odd' \in BOOLEAN /\ user' \in {"idle", "connecting", "connected"}
      BY <3>1, OnCloseTyped DEF Typed
    <3> QED BY <1>0, <1>1, <2>1, <3>1, <3>2, <3>3 DEF HandleDoClose, RealClose, Typed, counts
  <2>2. CASE ~open
    <3>1. NextIs("do_close") /\ queue' = Rest
      BY <1>1, <2>2 DEF HandleDoClose
    <3>2. queue' \in Seq(Handler)
      BY <3>1, RestTyped
    <3> QED BY <1>1, <2>2, <3>2 DEF HandleDoClose, Typed, socket, told, counts
  <2> QED BY <2>1, <2>2
<1>2. CASE HandleRealConnect
  <2>1. queue' \in Seq(Handler)
    BY <1>2, FlushTyped DEF HandleRealConnect
  <2>2. Op("connect", 0) \in Operation
    BY Ops
  <2>3. pending' \in Seq(Operation)
    BY <1>2, <2>2 DEF HandleRealConnect
  <2> QED BY <1>2, <2>1, <2>3 DEF HandleRealConnect, Typed, told, counts
<1>3. CASE HandleConnected
  <2>1. queue' \in Seq(Handler) /\ pending' \in Seq(Operation)
    BY <1>3, Ops, StartTyped DEF HandleConnected
  <2>2. odd' \in BOOLEAN /\ user' \in {"idle", "connecting", "connected"}
    BY <1>3 DEF HandleConnected, OnConnect, Typed
  <2> QED BY <1>3, <2>1, <2>2 DEF HandleConnected, Typed, counts
<1>4. CASE HandleConnectFailed
  <2>1. queue' \in Seq(Handler)
    BY <1>4, RestTyped DEF HandleConnectFailed
  <2>2. m_closed' \in BOOLEAN /\ odd' \in BOOLEAN /\ user' \in {"idle", "connecting", "connected"}
    BY <1>4, OnCloseTyped DEF HandleConnectFailed
  <2> QED BY <1>4, <2>1, <2>2 DEF HandleConnectFailed, Typed, socket, counts
<1>5. CASE HandleRequest
  <2>1. queue' \in Seq(Handler) /\ pending' \in Seq(Operation)
    BY <1>5, Ops, StartTyped DEF HandleRequest
  <2> QED BY <1>5, <2>1 DEF HandleRequest, Typed, told, counts
<1>6. CASE HandleResponse
  <2>1. queue' \in Seq(Handler) /\ pending' \in Seq(Operation)
    BY <1>6, Ops, StartTyped DEF HandleResponse
  <2>2. odd' \in BOOLEAN /\ user' \in {"idle", "connecting", "connected"}
    BY <1>6 DEF HandleResponse, OnConnect, Typed
  <2> QED BY <1>6, <2>1, <2>2 DEF HandleResponse, Typed, counts
<1>7. CASE HandleRefused
  <2>1. queue' = Rest \o Aborted /\ pending' = <<>> /\ OnClose(m_closed)
    BY <1>7 DEF HandleRefused, RealClose
  <2>2. queue' \in Seq(Handler)
    BY <1>7, <2>1, FlushTyped DEF HandleRefused
  <2>3. m_closed' \in BOOLEAN /\ odd' \in BOOLEAN /\ user' \in {"idle", "connecting", "connected"}
    BY <2>1, OnCloseTyped DEF Typed
  <2> QED BY <1>0, <1>7, <2>1, <2>2, <2>3 DEF HandleRefused, RealClose, Typed, counts
<1>8. CASE HandleReadError
  <2>1. queue' \in Seq(Handler)
    BY <1>8, RestTyped DEF HandleReadError
  <2>2. m_closed' \in BOOLEAN /\ odd' \in BOOLEAN /\ user' \in {"idle", "connecting", "connected"}
    BY <1>8, OnCloseTyped DEF HandleReadError, Typed
  <2> QED BY <1>8, <2>1, <2>2 DEF HandleReadError, Typed, socket, counts
<1>9. CASE HandleEmptyHead
  <2>1. queue' \in Seq(Handler) /\ pending' \in Seq(Operation)
    BY <1>9, Ops, StartTyped DEF HandleEmptyHead
  <2> QED BY <1>9, <2>1 DEF HandleEmptyHead, Typed, told, counts
<1>10. CASE HandleBody
  <2>1. queue' \in Seq(Handler) /\ pending' \in Seq(Operation)
    BY <1>10, Ops, StartTyped DEF HandleBody
  <2> QED BY <1>0, <1>10, <2>1 DEF HandleBody, Typed, told, counts
<1>11. ASSUME NEW n \in Sizes, HandleHead(n) PROVE Typed'
  <2>1. queue' \in Seq(Handler) /\ pending' \in Seq(Operation)
    BY <1>11, Ops, StartTyped DEF HandleHead
  <2> QED BY <1>0, <1>11, <2>1 DEF HandleHead, Typed, told, counts
<1>12. CASE HandleSend
  <2>1. queue' \in Seq(Handler) /\ pending' \in Seq(Operation) /\ m_send_data_list' \in Seq(Chunk)
    BY <1>12, SendTyped
  <2> QED BY <1>12, <2>1 DEF HandleSend, Typed, told, counts
<1>13. CASE HandleWrote
  <2>1. queue' \in Seq(Handler) /\ pending' \in Seq(Operation) /\ m_send_data_list' \in Seq(Chunk)
    BY <1>13, WroteTyped
  <2> QED BY <1>13, <2>1 DEF HandleWrote, Typed, told, counts
<1> QED BY <1>1, <1>2, <1>3, <1>4, <1>5, <1>6, <1>7, <1>8, <1>9, <1>10, <1>11, <1>12, <1>13 DEF Thread

(* The handlers keep the invariant.                                        *)
LEMMA ThreadPatient == PatientInv /\ Thread => PatientInv'
<1> SUFFICES ASSUME PatientInv, Thread PROVE PatientInv'
  OBVIOUS
<1>0. Typed /\ Typed'
  BY ThreadTyped DEF PatientInv
<1>1. CASE HandleDoClose
  <2>1. NextIs("do_close") /\ UNCHANGED <<app, m_request, m_recv_data>>
    BY <1>1 DEF HandleDoClose
  <2>2. CASE open
    <3>1. queue' = Rest \o Aborted /\ pending' = <<>> /\ open' = FALSE /\ OnClose(m_closed)
      BY <1>1, <2>2 DEF HandleDoClose, RealClose
    <3>2. Flushed /\ app = "up" /\ queue[1].kind = "do_close"
      BY <1>0, <2>1, <3>1, FlushTyped
    <3> QED BY <1>0, <2>1, <2>2, <3>1, <3>2, DoCloseStep DEF PatientInv
  <2>3. CASE ~open
    <3>1. queue' = Rest /\ UNCHANGED <<pending, open, m_closed, user, odd>>
      BY <1>1, <2>3 DEF HandleDoClose, socket, told
    <3>2. Popped(0) /\ app = "up" /\ queue[1].kind = "do_close"
      BY <1>0, <2>1, <3>1, RestTyped
    <3> QED BY <1>0, <2>1, <2>3, <3>1, <3>2, DoCloseStep DEF PatientInv
  <2> QED BY <2>2, <2>3
<1>2. CASE HandleRealConnect
  <2>1. /\ NextIs("real_connect") /\ queue' = Rest \o Aborted
        /\ pending' = <<Op("connect", 0)>> /\ open' = TRUE
        /\ UNCHANGED <<app, m_closed, user, odd, m_request, m_recv_data>>
    BY <1>2 DEF HandleRealConnect, told
  <2>2. Flushed /\ app = "up" /\ queue[1].kind = "real_connect"
    BY <1>0, <2>1, FlushTyped
  <2> QED BY <1>0, <2>1, <2>2, RealConnectStep DEF PatientInv
<1>3. CASE HandleConnected
  <2>1. NextIs("connect") /\ m_closed' = FALSE /\ UNCHANGED <<app, open, m_request, m_recv_data>>
    BY <1>3 DEF HandleConnected
  <2>2. CASE m_request
    <3>1. Start(Op("request", 0)) /\ UNCHANGED <<user, odd>>
      BY <1>3, <2>2 DEF HandleConnected
    <3>2. Started(Op("request", 0)) /\ app = "up" /\ queue[1].kind = "connect"
      BY <1>0, <2>1, <3>1, Ops, StartTyped
    <3> QED BY <1>0, <2>1, <2>2, <3>1, <3>2, Ops, ShakeStep DEF PatientInv
  <2>3. CASE ~m_request
    <3>1. Start(Op("head", 0)) /\ OnConnect
      BY <1>3, <2>3 DEF HandleConnected
    <3>2. Started(Op("head", 0)) /\ app = "up" /\ queue[1].kind = "connect"
      BY <1>0, <2>1, <3>1, Ops, StartTyped
    <3> QED BY <1>0, <2>1, <3>1, <3>2, Ops, ConnectedStep DEF PatientInv
  <2> QED BY <2>2, <2>3
<1>4. CASE HandleConnectFailed
  <2>1. /\ NextIs("connect") /\ queue' = Rest /\ OnClose(FALSE)
        /\ UNCHANGED <<app, pending, open, m_request, m_recv_data>>
    BY <1>4 DEF HandleConnectFailed, socket
  <2>2. Popped(0) /\ app = "up" /\ queue[1].kind = "connect"
    BY <1>0, <2>1, RestTyped
  <2> QED BY <1>0, <2>1, <2>2, ConnectFailedStep DEF PatientInv
<1>5. CASE HandleRequest
  <2>1. /\ NextIs("request") /\ Start(Op("response", 0))
        /\ UNCHANGED <<app, open, m_closed, user, odd, m_request, m_recv_data>>
    BY <1>5 DEF HandleRequest, told
  <2>2. Started(Op("response", 0)) /\ app = "up" /\ queue[1].kind = "request" /\ 1 \in DOMAIN queue
    BY <1>0, <2>1, Ops, StartTyped, FirstFacts
  <2>3. m_request /\ m_closed' = FALSE
    BY <2>1, <2>2 DEF PatientInv, Idle, Connected, Phase, Typed, Dials, Shakes
  <2> QED BY <1>0, <2>1, <2>2, <2>3, Ops, ShakeStep DEF PatientInv
<1>6. CASE HandleResponse
  <2>1. /\ NextIs("response") /\ Start(Op("head", 0)) /\ OnConnect
        /\ UNCHANGED <<app, open, m_closed, m_request, m_recv_data>>
    BY <1>6 DEF HandleResponse
  <2>2. Started(Op("head", 0)) /\ app = "up" /\ queue[1].kind = "response"
    BY <1>0, <2>1, Ops, StartTyped
  <2> QED BY <1>0, <2>1, <2>2, Ops, ConnectedStep DEF PatientInv
<1>7. CASE HandleRefused
  <2>1. /\ queue' = Rest \o Aborted /\ pending' = <<>> /\ open' = FALSE /\ OnClose(m_closed)
        /\ UNCHANGED <<app, m_request, m_recv_data>>
    BY <1>7 DEF HandleRefused, RealClose
  <2>2. /\ Flushed /\ app = "up"
        /\ \/ queue[1].kind \in {"request", "response"}
           \/ queue[1].kind = "head" /\ queue[1].res = "bad"
    BY <1>0, <1>7, <2>1, FlushTyped DEF HandleRefused
  <2> QED BY <1>0, <2>1, <2>2, RefusedStep DEF PatientInv
<1>8. CASE HandleReadError
  <2>1. queue' = Rest /\ OnClose(m_closed) /\ UNCHANGED <<app, pending, open, m_request, m_recv_data>>
    BY <1>8 DEF HandleReadError, socket
  <2>2. Popped(0) /\ app = "up" /\ queue[1].kind \in Reads
    BY <1>0, <1>8, <2>1, RestTyped DEF HandleReadError, Reads
  <2> QED BY <1>0, <2>1, <2>2, ReadErrorStep DEF PatientInv
<1>9. CASE HandleEmptyHead
  <2>1. /\ NextIs("head") /\ Head(queue).res = "empty" /\ Start(Op("head", 0))
        /\ UNCHANGED <<app, open, m_closed, user, odd, m_request, m_recv_data>>
    BY <1>9 DEF HandleEmptyHead, told
  <2>2. /\ Started(Op("head", 0)) /\ app = "up" /\ queue[1].kind \in Reads /\ queue[1].res # "err"
        /\ Op("head", 0) \in Operation /\ Op("head", 0).kind = "head"
    BY <1>0, <2>1, Ops, StartTyped DEF Reads
  <2> QED BY <1>0, <2>1, <2>2, ReadStep DEF PatientInv, Reads
<1>10. CASE HandleBody
  <2>1. /\ NextIs("body") /\ Head(queue).res = "ok" /\ Start(Op("head", 0))
        /\ UNCHANGED <<app, open, m_closed, user, odd, m_request>>
    BY <1>10 DEF HandleBody, told, Ok
  <2>2. /\ Started(Op("head", 0)) /\ app = "up" /\ queue[1].kind \in Reads /\ queue[1].res # "err"
        /\ Op("head", 0) \in Operation /\ Op("head", 0).kind = "head"
    BY <1>0, <2>1, Ops, StartTyped DEF Reads
  <2> QED BY <1>0, <2>1, <2>2, ReadStep DEF PatientInv, Reads
<1>11. ASSUME NEW n \in Sizes, HandleHead(n) PROVE PatientInv'
  <2>1. /\ NextIs("head") /\ Head(queue).res = "ok" /\ Start(Op("body", n)) /\ m_recv_data' = n
        /\ UNCHANGED <<app, open, m_closed, user, odd, m_request>>
    BY <1>11 DEF HandleHead, told, Ok
  <2>2. /\ Op("body", n) \in Operation /\ Op("body", n).kind = "body" /\ Op("body", n).what = n
    BY Ops
  <2>3. /\ Started(Op("body", n)) /\ app = "up" /\ queue[1].kind \in Reads /\ queue[1].res # "err"
    BY <1>0, <2>1, <2>2, StartTyped DEF Reads
  <2> QED BY <1>0, <2>1, <2>2, <2>3, ReadStep DEF PatientInv, Reads
<1>12. CASE HandleSend
  <2>1. UNCHANGED <<app, open, m_closed, user, odd, m_request, m_recv_data>>
    BY <1>12 DEF HandleSend, told
  <2>2. /\ queue[1].kind = "send" /\ app = "up"
        /\ \/ Popped(0) /\ pending' = pending
           \/ \E c \in Chunk : Started(Op("write", c))
    BY <1>0, <1>12, SendTyped
  <2> QED BY <1>0, <2>1, <2>2, WriteStep DEF PatientInv
<1>13. CASE HandleWrote
  <2>1. UNCHANGED <<app, open, m_closed, user, odd, m_request, m_recv_data>>
    BY <1>13 DEF HandleWrote, told
  <2>2. /\ queue[1].kind = "write" /\ app = "up"
        /\ \/ Popped(0) /\ pending' = pending
           \/ \E c \in Chunk : Started(Op("write", c))
    BY <1>0, <1>13, WroteTyped
  <2> QED BY <1>0, <2>1, <2>2, WriteStep DEF PatientInv
<1> QED BY <1>1, <1>2, <1>3, <1>4, <1>5, <1>6, <1>7, <1>8, <1>9, <1>10, <1>11, <1>12, <1>13 DEF Thread

(* Completions keep the types ...                                          *)
LEMMA NetworkTyped == Typed /\ Network => Typed'
<1> SUFFICES ASSUME Typed, NEW i \in DOMAIN pending, NEW res \in Results, Complete(i, res) PROVE Typed'
  BY DEF Network, Results
<1>1. pending' \in Seq(Operation) /\ queue' \in Seq(Handler)
  BY CompleteFacts
<1>2. linked' \in BOOLEAN
  BY DEF Complete, Typed
<1> QED BY <1>1, <1>2 DEF Complete, Typed, told, counts

(* ... and the invariant.                                                  *)
LEMMA NetworkPatient == PatientInv /\ Network => PatientInv'
<1> SUFFICES ASSUME PatientInv, NEW i \in DOMAIN pending, NEW res \in Results, Complete(i, res)
             PROVE  PatientInv'
  BY DEF Network, Results
<1>1. Network
  BY DEF Network, Results
<1> QED BY <1>1, CompleteStep, NetworkTyped DEF PatientInv

(* Every step keeps the types.                                             *)
LEMMA NextTyped == Typed /\ [Next]_vars => Typed'
<1>1. Typed /\ UNCHANGED vars => Typed'
  BY DEF Typed, vars, socket, told, counts
<1> QED BY <1>1, UserTyped, ThreadTyped, NetworkTyped DEF Next

(* Every step of a patient user's client keeps the invariant.              *)
LEMMA NextPatient == ~Impatient /\ PatientInv /\ [Next]_vars => PatientInv'
<1>1. PatientInv /\ UNCHANGED vars => PatientInv'
  BY DEF PatientInv, Typed, Shut, Single, Idle, OneDial, DialsClosed, ClosedBefore, Stale, Phase, DialAfter,
     Connected, Sized, vars, socket, told, counts
<1> QED BY <1>1, UserPatient, ThreadPatient, NetworkPatient DEF Next

-----------------------------------------------------------------------------
(* A patient user's client                                                 *)

(* What Flow holds: the operations under way, then the queue.              *)
LEMMA FlowFacts ==
    ASSUME Typed
    PROVE  /\ Len(pending) \in Nat
           /\ \A i \in DOMAIN pending :
                i \in Nat /\ i <= Len(pending) /\ i \in DOMAIN Flow /\ Flow[i] = pending[i]
           /\ \A i \in DOMAIN queue :
                /\ i \in Nat \ {0} /\ Len(pending) + i \in DOMAIN Flow
                /\ Flow[Len(pending) + i] = queue[i]
           /\ \A i \in DOMAIN Flow :
                \/ i \in DOMAIN pending /\ Flow[i] = pending[i]
                \/ \E j \in DOMAIN queue : i = Len(pending) + j /\ Flow[i] = queue[j]
<1> DEFINE n == Len(pending)  m == Len(queue)  Any == Operation \cup Handler
<1>1. pending \in Seq(Operation) /\ queue \in Seq(Handler)
  BY DEF Typed
<1>2. n \in Nat /\ m \in Nat /\ DOMAIN pending = 1 .. n /\ DOMAIN queue = 1 .. m
  BY <1>1, LenProperties
<1>3. pending \in Seq(Any) /\ queue \in Seq(Any)
  BY <1>1, <1>2
<1>4. /\ Flow \in Seq(Any) /\ Len(Flow) = Len(pending) + Len(queue)
      /\ \A i \in 1 .. Len(pending) + Len(queue) :
           Flow[i] = IF i <= Len(pending) THEN pending[i] ELSE queue[i - Len(pending)]
  BY <1>3, ConcatProperties, Zenon DEF Flow
<1>5. DOMAIN Flow = 1 .. n + m
  BY <1>4, LenProperties
<1>6. \A i \in 1 .. n + m : Flow[i] = IF i <= n THEN pending[i] ELSE queue[i - n]
  BY <1>4
<1> HIDE DEF n, m
<1>7. \A i \in 1 .. n : i \in 1 .. n + m /\ Flow[i] = pending[i]
  BY <1>2, <1>6
<1>8. \A i \in 1 .. m : n + i \in 1 .. n + m /\ Flow[n + i] = queue[i]
  <2> SUFFICES ASSUME NEW i \in 1 .. m PROVE n + i \in 1 .. n + m /\ Flow[n + i] = queue[i]
    OBVIOUS
  <2>1. n + i \in 1 .. n + m /\ ~(n + i <= n) /\ (n + i) - n = i
    BY <1>2
  <2> QED BY <1>6, <2>1
<1>9. \A i \in 1 .. n + m : i \notin 1 .. n => i - n \in 1 .. m /\ i = n + (i - n)
  BY <1>2
<1>10. \A i \in 1 .. n + m :
         \/ i \in 1 .. n /\ Flow[i] = pending[i]
         \/ \E j \in 1 .. m : i = n + j /\ Flow[i] = queue[j]
  <2> SUFFICES ASSUME NEW i \in 1 .. n + m, i \notin 1 .. n
               PROVE  \E j \in 1 .. m : i = n + j /\ Flow[i] = queue[j]
    BY <1>7
  <2>1. PICK j \in 1 .. m : i = n + j
    BY <1>9
  <2> QED BY <1>8, <2>1
<1>11. /\ \A i \in 1 .. n : i \in Nat /\ i <= n
       /\ \A i \in 1 .. m : i \in Nat \ {0}
  BY <1>2
<1>12. \A i \in DOMAIN pending : i \in Nat /\ i <= n /\ i \in DOMAIN Flow /\ Flow[i] = pending[i]
  BY <1>2, <1>5, <1>7, <1>11
<1>13. \A i \in DOMAIN queue : i \in Nat \ {0} /\ n + i \in DOMAIN Flow /\ Flow[n + i] = queue[i]
  BY <1>2, <1>5, <1>8, <1>11
<1> QED BY <1>2, <1>5, <1>10, <1>12, <1>13 DEF n

(* The invariant that patience keeps.                                      *)
LEMMA PatientAlways == ~Impatient => (Spec => []PatientInv)
<1> SUFFICES ASSUME ~Impatient PROVE Spec => []PatientInv
  OBVIOUS
<1>1. PatientInv /\ [Next]_vars => PatientInv'
  BY NextPatient
<1> QED BY <1>1, InitPatient, PTL DEF Spec

(* OneReader, for users who wait for on_etcp_close before they connect     *)
(* again: of all connections that do_read() and the handshake ran on, one  *)
(* chain is left on the socket, and one in all when on_etcp_connect has    *)
(* been called.                                                            *)
THEOREM PatientOneReader == ~Impatient => (Spec => []OneReader)
<1>1. PatientInv => OneReader
  <2> SUFFICES ASSUME PatientInv PROVE OneReader
    OBVIOUS
  <2> DEFINE chain == {"connect", "request", "response", "head", "body"}
  <2>1. chain = Shakes \cup Reads /\ Typed
    BY DEF Shakes, Reads, PatientInv
  <2>2. \A i, j \in DOMAIN pending : pending[i].kind \in chain /\ pending[j].kind \in chain => i = j
    BY <2>1 DEF PatientInv, Single
  <2>3. ASSUME user = "connected", NEW i \in Under(chain), NEW j \in Under(chain)
        PROVE  i = j
    <3>1. /\ \A k \in DOMAIN pending : pending[k].kind \in chain => pending[k].kind \in Reads
          /\ \A k \in DOMAIN queue : queue[k].kind \in chain => queue[k].kind \in Reads
      BY <2>1, <2>3 DEF PatientInv, Connected, Dials
    <3>2. i \in DOMAIN Flow /\ j \in DOMAIN Flow /\ Flow[i].kind \in chain /\ Flow[j].kind \in chain
      BY <2>3 DEF Under
    <3> HIDE DEF chain
    <3>3. ASSUME NEW k \in DOMAIN Flow, Flow[k].kind \in chain
          PROVE  \/ k \in DOMAIN pending /\ pending[k].kind \in Reads
                 \/ \E l \in DOMAIN queue : k = Len(pending) + l /\ queue[l].kind \in Reads
      BY <2>1, <3>1, <3>3, FlowFacts
    <3> QED BY <3>2, <3>3 DEF PatientInv, Single
  <2> QED BY <2>2, <2>3 DEF OneReader
<1> QED BY <1>1, PatientAlways, PTL

(* BodyInPlace, for such users: when do_read() handles a body, m_recv_data *)
(* has the size that the body was read with.                               *)
THEOREM PatientBodyInPlace == ~Impatient => (Spec => []BodyInPlace)
<1>1. PatientInv => BodyInPlace
  <2> SUFFICES ASSUME PatientInv, NextIs("body"), Ok PROVE m_recv_data = Head(queue).what
    BY DEF BodyInPlace
  <2>1. 1 \in DOMAIN queue /\ Head(queue) = queue[1] /\ queue[1].kind = "body"
    BY FirstFacts DEF PatientInv
  <2> QED BY <2>1 DEF PatientInv, Sized, Ok
<1> QED BY <1>1, PatientAlways, PTL

(* CallbacksPaired, for such users: on_connect() answers a connect() and   *)
(* on_close() ends what the user was told of.                              *)
THEOREM PatientCallbacksPaired == ~Impatient => (Spec => []CallbacksPaired)
<1>1. PatientInv => CallbacksPaired
  BY DEF PatientInv, CallbacksPaired
<1> QED BY <1>1, PatientAlways, PTL

(* ConnectedIsWatched, for such users: whoever was told of a connection    *)
(* has a do_read() under way or completed on it, and m_closed will let its *)
(* end be reported.                                                        *)
THEOREM PatientConnectedIsWatched == ~Impatient => (Spec => []ConnectedIsWatched)
<1>1. PatientInv => ConnectedIsWatched
  <2> SUFFICES ASSUME PatientInv, user = "connected" PROVE ~m_closed /\ Under({"head", "body"}) # {}
    BY DEF ConnectedIsWatched
  <2>1. Typed /\ ~m_closed
    BY DEF PatientInv, Connected
  <2>2. CASE \E i \in DOMAIN pending : pending[i].kind \in Reads
    BY <2>1, <2>2, FlowFacts DEF Under, Reads
  <2>3. CASE \E i \in DOMAIN queue : queue[i].kind \in Reads
    BY <2>1, <2>3, FlowFacts DEF Under, Reads
  <2> QED BY <2>1, <2>2, <2>3 DEF PatientInv, Connected
<1> QED BY <1>1, PatientAlways, PTL

-----------------------------------------------------------------------------
(* The writing chain, whatever the user does                               *)

(* At most one write is under way or completed, that of the first chunk;   *)
(* there is one while the list is not empty.                               *)
OneChain ==
    /\ \A i, j \in DOMAIN pending : pending[i].kind = "write" /\ pending[j].kind = "write" => i = j
    /\ \A i, j \in DOMAIN queue : queue[i].kind = "write" /\ queue[j].kind = "write" => i = j
    /\ \A i \in DOMAIN pending : \A j \in DOMAIN queue :
         pending[i].kind = "write" => queue[j].kind # "write"

ItsChunk ==
    /\ \A i \in DOMAIN pending : pending[i].kind = "write" =>
         m_send_data_list # <<>> /\ pending[i].what = Head(m_send_data_list)
    /\ \A i \in DOMAIN queue : queue[i].kind = "write" =>
         m_send_data_list # <<>> /\ queue[i].what = Head(m_send_data_list)

GoesOn ==
    m_send_data_list # <<>> =>
        \/ \E i \in DOMAIN pending : pending[i].kind = "write"
        \/ \E i \in DOMAIN queue : queue[i].kind = "write"

Writing == OneChain /\ ItsChunk /\ GoesOn

(* A handler that is not a write's and starts nothing, ...                 *)
LEMMA PopWriting ==
    ASSUME Writing, Popped(0), pending' = pending, queue[1].kind # "write",
           m_send_data_list' # <<>> <=> m_send_data_list # <<>>,
           m_send_data_list # <<>> => Head(m_send_data_list') = Head(m_send_data_list)
    PROVE  Writing'
<1>1. /\ 1 \in DOMAIN queue
      /\ \A i \in DOMAIN queue' :
           i \in Nat /\ i >= 1 /\ i + 1 \in DOMAIN queue /\ queue'[i] = queue[i + 1]
      /\ \A i \in DOMAIN queue \ {1} : i - 1 \in DOMAIN queue' /\ queue'[i - 1] = queue[i]
  BY PoppedZero
<1>2. OneChain'
  BY <1>1 DEF Writing, OneChain
<1>3. ItsChunk'
  BY <1>1 DEF Writing, ItsChunk
<1>4. GoesOn'
  BY <1>1 DEF Writing, GoesOn
<1> QED BY <1>2, <1>3, <1>4 DEF Writing

(* ... or starts an operation of another chain, or fails to start it.      *)
LEMMA StartWriting ==
    ASSUME Writing, NEW op, Started(op), op.kind # "write", queue[1].kind # "write",
           UNCHANGED m_send_data_list
    PROVE  Writing'
<1>1. CASE open /\ Popped(0) /\ Begun(op)
  <2>1. /\ \A i \in DOMAIN queue' :
             i \in Nat /\ i >= 1 /\ i + 1 \in DOMAIN queue /\ queue'[i] = queue[i + 1]
        /\ \A i \in DOMAIN queue \ {1} : i - 1 \in DOMAIN queue' /\ queue'[i - 1] = queue[i]
    BY <1>1, PoppedZero
  <2>2. /\ \A i \in DOMAIN pending : i \in DOMAIN pending' /\ pending'[i] = pending[i]
        /\ \A i \in DOMAIN pending' : pending'[i].kind = "write" => i \in DOMAIN pending
    BY <1>1 DEF Begun
  <2>3. OneChain'
    BY <2>1, <2>2 DEF Writing, OneChain
  <2>4. ItsChunk'
    BY <2>1, <2>2 DEF Writing, ItsChunk
  <2>5. GoesOn'
    BY <2>1, <2>2 DEF Writing, GoesOn
  <2> QED BY <2>3, <2>4, <2>5 DEF Writing
<1>2. CASE Popped(1) /\ queue'[Len(queue)] = Done(op, "err") /\ pending' = pending
  <2>1. /\ \A i \in DOMAIN queue' : i \in Nat /\ i >= 1
        /\ \A i \in DOMAIN queue' : queue'[i].kind = "write" =>
             i + 1 \in DOMAIN queue /\ queue'[i] = queue[i + 1]
        /\ \A i \in DOMAIN queue \ {1} : i - 1 \in DOMAIN queue' /\ queue'[i - 1] = queue[i]
    BY <1>2, PoppedOne DEF Done
  <2>3. OneChain'
    BY <1>2, <2>1 DEF Writing, OneChain
  <2>4. ItsChunk'
    BY <1>2, <2>1 DEF Writing, ItsChunk
  <2>5. GoesOn'
    BY <1>2, <2>1 DEF Writing, GoesOn
  <2> QED BY <2>3, <2>4, <2>5 DEF Writing
<1> QED BY <1>1, <1>2 DEF Started

(* Nothing is written, then do_write() starts a write.                     *)
LEMMA WriteWriting ==
    ASSUME NEW op, Started(op), op.kind = "write", m_send_data_list' # <<>>,
           op.what = Head(m_send_data_list'),
           \A i \in DOMAIN pending : pending[i].kind # "write",
           \A i \in DOMAIN queue \ {1} : queue[i].kind # "write"
    PROVE  Writing'
<1>1. CASE open /\ Popped(0) /\ Begun(op)
  <2>1. \A i \in DOMAIN queue' : i + 1 \in DOMAIN queue \ {1} /\ queue'[i] = queue[i + 1]
    BY <1>1, PoppedZero
  <2>2. PICK k \in DOMAIN pending' :
          pending'[k] = op /\ \A i \in DOMAIN pending' : i = k \/ pending'[i].kind # "write"
    <3>1. /\ Len(pending) \in Nat
          /\ DOMAIN pending = 1 .. Len(pending) /\ DOMAIN pending' = 1 .. (Len(pending) + 1)
          /\ \A i \in 1 .. Len(pending) : pending'[i] = pending[i]
          /\ pending'[Len(pending) + 1] = op
      BY <1>1 DEF Begun
    <3>2. Len(pending) + 1 \in DOMAIN pending'
      BY <3>1
    <3>3. \A i \in DOMAIN pending' : i = Len(pending) + 1 \/ i \in DOMAIN pending
      BY <3>1
    <3> QED BY <3>1, <3>2, <3>3
  <2> QED BY <2>1, <2>2 DEF Writing, OneChain, ItsChunk, GoesOn
<1>2. CASE Popped(1) /\ queue'[Len(queue)] = Done(op, "err") /\ pending' = pending
  <2>1. /\ \A i \in DOMAIN queue' :
             \/ i + 1 \in DOMAIN queue \ {1} /\ queue'[i] = queue[i + 1]
             \/ i = Len(queue)
        /\ Len(queue) \in DOMAIN queue'
        /\ queue'[Len(queue)].kind = "write" /\ queue'[Len(queue)].what = Head(m_send_data_list')
    BY <1>2, PoppedOne DEF Done
  <2> DEFINE n == Len(queue)
  <2>2. PICK k \in DOMAIN queue' :
          /\ queue'[k].kind = "write" /\ queue'[k].what = Head(m_send_data_list')
          /\ \A i \in DOMAIN queue' : i = k \/ queue'[i].kind # "write"
    BY <2>1
  <2> QED BY <1>2, <2>2 DEF Writing, OneChain, ItsChunk, GoesOn
<1> QED BY <1>1, <1>2 DEF Started

(* real_close() and the assignment to m_socket: a write that was under way *)
(* fails, and has its failure in the queue.                                *)
LEMMA FlushWriting ==
    ASSUME Typed, Writing, Flushed, queue[1].kind # "write", UNCHANGED m_send_data_list,
           \A i \in DOMAIN pending' : pending'[i].kind # "write"
    PROVE  Writing'
<1> DEFINE n == Len(queue)  m == Len(pending)
<1>1. /\ n \in Nat /\ 1 \in DOMAIN queue
      /\ \A i \in DOMAIN queue : i \in Nat /\ i >= 1
      /\ \A i \in DOMAIN queue' :
           /\ i \in Nat /\ i >= 1
           /\ \/ i < n /\ i + 1 \in DOMAIN queue /\ queue'[i] = queue[i + 1]
              \/ /\ i >= n
                 /\ \E j \in DOMAIN pending : i = n - 1 + j /\ queue'[i] = Done(pending[j], "err")
      /\ \A i \in DOMAIN queue \ {1} : i - 1 \in DOMAIN queue' /\ queue'[i - 1] = queue[i]
  BY FlushedFacts, PoppedFacts DEF Flushed
<1>2. \A j \in DOMAIN pending :
        j \in Nat /\ n - 1 + j \in DOMAIN queue' /\ queue'[n - 1 + j] = Done(pending[j], "err")
  <2>1. /\ m \in Nat /\ DOMAIN pending = 1 .. m /\ n .. n - 1 + m \subseteq DOMAIN queue'
        /\ \A j \in DOMAIN pending : queue'[n - 1 + j] = Done(pending[j], "err")
    BY PoppedFacts DEF Flushed
  <2> HIDE DEF n, m
  <2>2. \A j \in 1 .. m : j \in Nat /\ n - 1 + j \in n .. n - 1 + m
    BY <1>1, <2>1
  <2> QED BY <2>1, <2>2
<1> HIDE DEF n
<1>3. \A i \in DOMAIN queue' :
        \/ i + 1 \in DOMAIN queue /\ queue'[i].kind = queue[i + 1].kind /\ queue'[i].what = queue[i + 1].what
        \/ \E j \in DOMAIN pending :
             i = n - 1 + j /\ queue'[i].kind = pending[j].kind /\ queue'[i].what = pending[j].what
  BY <1>1 DEF Done
<1>4. OneChain'
  <2> SUFFICES ASSUME NEW i \in DOMAIN queue', NEW k \in DOMAIN queue',
                      queue'[i].kind = "write", queue'[k].kind = "write"
               PROVE  i = k
    BY DEF OneChain
  <2>1. i \in Nat /\ k \in Nat
    BY <1>1
  <2>2. CASE /\ i + 1 \in DOMAIN queue /\ queue[i + 1].kind = "write"
             /\ k + 1 \in DOMAIN queue /\ queue[k + 1].kind = "write"
    <3>1. i + 1 = k + 1
      BY <2>2 DEF Writing, OneChain
    <3> QED BY <2>1, <3>1
  <2> QED BY <1>3, <2>1, <2>2 DEF Writing, OneChain
<1>5. ItsChunk'
  BY <1>3 DEF Writing, ItsChunk
<1>6. GoesOn'
  <2>1. \A j \in DOMAIN pending : pending[j].kind = "write" =>
          n - 1 + j \in DOMAIN queue' /\ queue'[n - 1 + j].kind = "write"
    <3>1. \A j \in DOMAIN pending : Done(pending[j], "err").kind = pending[j].kind
      BY DEF Done
    <3> QED BY <1>2, <3>1
  <2>2. \A j \in DOMAIN queue : queue[j].kind = "write" =>
          j - 1 \in DOMAIN queue' /\ queue'[j - 1].kind = "write"
    BY <1>1
  <2> QED BY <2>1, <2>2 DEF Writing, GoesOn
<1> QED BY <1>4, <1>5, <1>6 DEF Writing

(* What is put at the end of the queue is not a write's completion.        *)
LEMMA PostWriting ==
    ASSUME Writing, pending' = pending, UNCHANGED m_send_data_list,
           \A i \in DOMAIN queue : i \in DOMAIN queue' /\ queue'[i] = queue[i],
           \A i \in DOMAIN queue' : i \in DOMAIN queue \/ queue'[i].kind # "write"
    PROVE  Writing'
  BY DEF Writing, OneChain, ItsChunk, GoesOn

(* A completion takes its operation along.                                 *)
LEMMA CompleteWriting ==
    ASSUME Typed, Writing, NEW i \in DOMAIN pending, NEW res \in Results, Complete(i, res)
    PROVE  Writing'
<1> DEFINE n == Len(queue) + 1
<1>1. /\ \A k \in DOMAIN pending' : \E j \in DOMAIN pending \ {i} :
           /\ pending'[k] = pending[j]
           /\ j = IF k < i THEN k ELSE k + 1
      /\ \A k \in DOMAIN pending' : k \in Nat
      /\ \A j \in DOMAIN pending \ {i} : \E k \in DOMAIN pending' : pending'[k] = pending[j]
  BY CompleteFacts, Zenon
<1>2. /\ Len(queue) \in Nat
      /\ \A j \in DOMAIN queue : j \in Nat /\ j <= Len(queue)
      /\ DOMAIN queue' = DOMAIN queue \cup {n}
      /\ \A j \in DOMAIN queue : queue'[j] = queue[j]
      /\ queue'[n] = Done(pending[i], res)
  BY CompleteFacts
<1>3. n \notin DOMAIN queue /\ queue'[n].kind = pending[i].kind /\ queue'[n].what = pending[i].what
  BY <1>2 DEF Done
<1> HIDE DEF n
<1>4. m_send_data_list' = m_send_data_list
  BY DEF Complete
<1>5. i \in Nat
  BY LenProperties DEF Typed
<1>6. OneChain'
  <2>1. \A k, l \in DOMAIN pending' :
          pending'[k].kind = "write" /\ pending'[l].kind = "write" => k = l
    BY <1>1, <1>5 DEF Writing, OneChain
  <2>2. \A k, l \in DOMAIN queue' : queue'[k].kind = "write" /\ queue'[l].kind = "write" => k = l
    BY <1>2, <1>3 DEF Writing, OneChain
  <2>3. \A k \in DOMAIN pending' : \A l \in DOMAIN queue' :
          pending'[k].kind = "write" => queue'[l].kind # "write"
    BY <1>1, <1>2, <1>3 DEF Writing, OneChain
  <2> QED BY <2>1, <2>2, <2>3 DEF OneChain
<1>7. ItsChunk'
  BY <1>1, <1>2, <1>3, <1>4 DEF Writing, ItsChunk
<1>8. GoesOn'
  BY <1>1, <1>2, <1>3, <1>4 DEF Writing, GoesOn
<1> QED BY <1>6, <1>7, <1>8 DEF Writing

(* The user's calls keep the chain: none of them touches the list, and     *)
(* exit() takes all of it.                                                 *)
LEMMA UserWriting == Typed /\ Writing /\ User => Writing'
<1> SUFFICES ASSUME Typed, Writing, User PROVE Writing'
  OBVIOUS
<1>1. CASE InitClient
  BY <1>1 DEF InitClient, Writing, OneChain, ItsChunk, GoesOn, socket
<1>2. CASE ExitClient
  BY <1>2 DEF ExitClient, Writing, OneChain, ItsChunk, GoesOn
<1>3. CASE Connect
  <2> DEFINE c == Posted("do_close")  r == Posted("real_connect")
             s == IF open THEN <<c, r>> ELSE <<r>>
  <2>1. c \in Handler /\ r \in Handler /\ c.kind # "write" /\ r.kind # "write"
    BY DEF Posted, Handler, Kinds, Dials, What, Results
  <2> HIDE DEF c, r
  <2>2. s \in Seq(Handler) /\ \A i \in 1 .. Len(s) : s[i].kind # "write"
    <3>1. <<c, r>> \in Seq(Handler) /\ \A i \in 1 .. Len(<<c, r>>) : <<c, r>>[i].kind # "write"
      BY <2>1
    <3>2. <<r>> \in Seq(Handler) /\ \A i \in 1 .. Len(<<r>>) : <<r>>[i].kind # "write"
      BY <2>1
    <3> QED BY <3>1, <3>2
  <2>3. queue' = queue \o s /\ UNCHANGED <<pending, m_send_data_list>>
    BY <1>3 DEF Connect, socket, c, r
  <2> HIDE DEF s
  <2>4. /\ \A i \in DOMAIN queue : i \in DOMAIN queue' /\ queue'[i] = queue[i]
        /\ \A i \in DOMAIN queue' : i \in DOMAIN queue \/ i - Len(queue) \in 1 .. Len(s)
        /\ \A i \in 1 .. Len(s) : queue'[Len(queue) + i] = s[i]
        /\ Len(queue) \in Nat /\ Len(s) \in Nat
        /\ DOMAIN queue' = 1 .. (Len(queue) + Len(s))
    BY <2>2, <2>3, PostedFacts
  <2>5. ASSUME NEW i \in DOMAIN queue', i \notin DOMAIN queue PROVE queue'[i].kind # "write"
    <3>1. i - Len(queue) \in 1 .. Len(s) /\ i \in Nat
      BY <2>4, <2>5
    <3>2. i = Len(queue) + (i - Len(queue))
      BY <2>4, <3>1
    <3>3. queue'[i] = s[i - Len(queue)]
      BY <2>4, <3>1, <3>2
    <3> QED BY <2>2, <3>1, <3>3
  <2> QED BY <2>3, <2>4, <2>5, PostWriting
<1>4. CASE Close
  <2>1. Posted("do_close") \in Handler /\ Posted("do_close").kind # "write"
    BY DEF Posted, Handler, Kinds, Dials, What, Results
  <2>2. queue' = Append(queue, Posted("do_close")) /\ UNCHANGED <<pending, m_send_data_list>>
    BY <1>4 DEF Close, socket
  <2> QED BY <2>1, <2>2, PostOneFacts, PostWriting
<1>5. CASE SendMessage
  <2> DEFINE h == [Posted("send") EXCEPT !.what = sent + 1]
  <2>1. h \in Handler /\ h.kind # "write"
    BY DEF Posted, Handler, Kinds, Dials, What, Results, Typed
  <2>2. queue' = Append(queue, h) /\ UNCHANGED <<pending, m_send_data_list>>
    BY <1>5 DEF SendMessage, socket
  <2> HIDE DEF h
  <2> QED BY <2>1, <2>2, PostOneFacts, PostWriting
<1> QED BY <1>1, <1>2, <1>3, <1>4, <1>5 DEF User

(* So do the handlers of connecting, reading and closing.                  *)
LEMMA OtherWriting ==
    ASSUME Typed, Writing,
           \/ HandleDoClose \/ HandleRealConnect \/ HandleConnected \/ HandleConnectFailed
           \/ HandleRequest \/ HandleResponse \/ HandleRefused
           \/ HandleReadError \/ HandleEmptyHead \/ HandleBody
           \/ \E n \in Sizes : HandleHead(n)
    PROVE  Writing'
<1>1. CASE HandleDoClose
  <2>1. NextIs("do_close") /\ UNCHANGED m_send_data_list
    BY <1>1 DEF HandleDoClose
  <2>2. CASE open
    <3>1. queue' = Rest \o Aborted /\ pending' = <<>>
      BY <1>1, <2>2 DEF HandleDoClose, RealClose
    <3> QED BY <2>1, <3>1, FlushTyped, FlushWriting
  <2>3. CASE ~open
    <3>1. queue' = Rest /\ pending' = pending
      BY <1>1, <2>3 DEF HandleDoClose, socket
    <3> QED BY <2>1, <3>1, RestTyped, PopWriting
  <2> QED BY <2>2, <2>3
<1>2. CASE HandleRealConnect
  <2>1. /\ NextIs("real_connect") /\ queue' = Rest \o Aborted /\ UNCHANGED m_send_data_list
        /\ \A i \in DOMAIN pending' : pending'[i].kind # "write"
    BY <1>2 DEF HandleRealConnect, Op
  <2> QED BY <2>1, FlushTyped, FlushWriting
<1>3. CASE HandleConnected
  <2>1. /\ NextIs("connect") /\ UNCHANGED m_send_data_list
        /\ \E k \in {"head", "request"} : Start(Op(k, 0))
    BY <1>3 DEF HandleConnected
  <2> QED BY <2>1, Ops, StartTyped, StartWriting
<1>4. CASE HandleConnectFailed
  <2>1. NextIs("connect") /\ queue' = Rest /\ UNCHANGED <<pending, m_send_data_list>>
    BY <1>4 DEF HandleConnectFailed, socket
  <2> QED BY <2>1, RestTyped, PopWriting
<1>5. CASE HandleRequest
  <2>1. NextIs("request") /\ Start(Op("response", 0)) /\ UNCHANGED m_send_data_list
    BY <1>5 DEF HandleRequest
  <2> QED BY <2>1, Ops, StartTyped, StartWriting
<1>6. CASE HandleResponse
  <2>1. NextIs("response") /\ Start(Op("head", 0)) /\ UNCHANGED m_send_data_list
    BY <1>6 DEF HandleResponse
  <2> QED BY <2>1, Ops, StartTyped, StartWriting
<1>7. CASE HandleRefused
  <2>1. /\ \E k \in {"request", "response", "head"} : NextIs(k)
        /\ queue' = Rest \o Aborted /\ pending' = <<>> /\ UNCHANGED m_send_data_list
    BY <1>7 DEF HandleRefused, RealClose
  <2> QED BY <2>1, FlushTyped, FlushWriting
<1>8. CASE HandleReadError
  <2>1. /\ \E k \in {"head", "body"} : NextIs(k)
        /\ queue' = Rest /\ UNCHANGED <<pending, m_send_data_list>>
    BY <1>8 DEF HandleReadError, socket
  <2> QED BY <2>1, RestTyped, PopWriting
<1>9. CASE HandleEmptyHead
  <2>1. NextIs("head") /\ Start(Op("head", 0)) /\ UNCHANGED m_send_data_list
    BY <1>9 DEF HandleEmptyHead
  <2> QED BY <2>1, Ops, StartTyped, StartWriting
<1>10. CASE HandleBody
  <2>1. NextIs("body") /\ Start(Op("head", 0)) /\ UNCHANGED m_send_data_list
    BY <1>10 DEF HandleBody
  <2> QED BY <2>1, Ops, StartTyped, StartWriting
<1>11. ASSUME NEW n \in Sizes, HandleHead(n) PROVE Writing'
  <2>1. NextIs("head") /\ Start(Op("body", n)) /\ UNCHANGED m_send_data_list
    BY <1>11 DEF HandleHead
  <2> QED BY <2>1, Ops, StartTyped, StartWriting
<1> QED BY <1>1, <1>2, <1>3, <1>4, <1>5, <1>6, <1>7, <1>8, <1>9, <1>10, <1>11

(* The posted part of send_message() starts the chain or lengthens the     *)
(* list behind its first chunk; a write's completion goes on or ends it.   *)
LEMMA ChainWriting == Typed /\ Writing /\ (HandleSend \/ HandleWrote) => Writing'
<1> SUFFICES ASSUME Typed, Writing, HandleSend \/ HandleWrote PROVE Writing'
  OBVIOUS
<1> DEFINE l == m_send_data_list
<1>1. CASE HandleSend
  <2>1. queue[1].kind = "send"
    BY <1>1, SendTyped
  <2>2. CASE ~open /\ l' = l /\ Popped(0) /\ pending' = pending
    BY <2>1, <2>2, PopWriting
  <2>3. CASE /\ l # <<>> /\ Popped(0) /\ pending' = pending
             /\ l' # <<>> /\ Head(l') = Head(l)
    BY <2>1, <2>3, PopWriting
  <2>4. CASE l = <<>> /\ l' # <<>> /\ Head(l') \in Chunk /\ Started(Op("write", Head(l')))
    <3>1. /\ \A i \in DOMAIN pending : pending[i].kind # "write"
          /\ \A i \in DOMAIN queue : queue[i].kind # "write"
      BY <2>4 DEF Writing, ItsChunk
    <3>2. Op("write", Head(l')).kind = "write" /\ Op("write", Head(l')).what = Head(l')
      BY DEF Op
    <3> QED BY <2>4, <3>1, <3>2, WriteWriting
  <2> QED BY <1>1, <2>2, <2>3, <2>4, SendTyped
<1>2. CASE HandleWrote
  <2>1. queue[1].kind = "write" /\ 1 \in DOMAIN queue
    BY <1>2, FirstFacts DEF HandleWrote
  <2>2. /\ \A i \in DOMAIN pending : pending[i].kind # "write"
        /\ \A i \in DOMAIN queue \ {1} : queue[i].kind # "write"
    BY <2>1 DEF Writing, OneChain
  <2>3. CASE l' = <<>> /\ Popped(0) /\ pending' = pending
    <3>1. \A i \in DOMAIN queue' : i + 1 \in DOMAIN queue \ {1} /\ queue'[i] = queue[i + 1]
      BY <2>3, PoppedZero
    <3>2. /\ \A i \in DOMAIN pending' : pending'[i].kind # "write"
          /\ \A i \in DOMAIN queue' : queue'[i].kind # "write"
      BY <2>2, <2>3, <3>1
    <3> QED BY <2>3, <3>2 DEF Writing, OneChain, ItsChunk, GoesOn
  <2>4. CASE l' # <<>> /\ Started(Op("write", Head(l')))
    <3>2. Op("write", Head(l')).kind = "write" /\ Op("write", Head(l')).what = Head(l')
      BY DEF Op
    <3> QED BY <2>2, <2>4, <3>2, WriteWriting
  <2> QED BY <1>2, <2>3, <2>4, WroteTyped
<1> QED BY <1>1, <1>2

(* Every step keeps the chain.                                             *)
LEMMA NextWriting == Typed /\ Writing /\ [Next]_vars => Writing'
<1> SUFFICES ASSUME Typed, Writing, [Next]_vars PROVE Writing'
  OBVIOUS
<1>1. CASE Thread
  BY <1>1, OtherWriting, ChainWriting DEF Thread
<1>2. CASE Network
  BY <1>2, CompleteWriting DEF Network, Results
<1>3. CASE UNCHANGED vars
  BY <1>3 DEF Writing, OneChain, ItsChunk, GoesOn, vars, socket
<1> QED BY <1>1, <1>2, <1>3, UserWriting DEF Next

(* OneWrite, for every user, patient or not: through any reconnections     *)
(* do_write()'s list has exactly one write to come, that of its first      *)
(* chunk, or the list is empty and has none.                               *)
THEOREM AlwaysOneWrite == Spec => []OneWrite
<1>1. Init => Typed /\ Writing
  BY InitPatient DEF PatientInv, Init, Writing, OneChain, ItsChunk, GoesOn
<1>2. Typed /\ Writing => OneWrite
  <2> SUFFICES ASSUME Typed, Writing PROVE OneWrite
    OBVIOUS
  <2> DEFINE l == m_send_data_list
  <2>1. ASSUME NEW k \in DOMAIN Flow, Flow[k].kind = "write"
        PROVE  /\ l # <<>> /\ Flow[k].what = Head(l)
               /\ \A i \in DOMAIN Flow : Flow[i].kind = "write" => i = k
    <3>1. \A i \in DOMAIN Flow : Flow[i].kind = "write" =>
            \/ i \in DOMAIN pending /\ Flow[i] = pending[i] /\ pending[i].kind = "write"
            \/ \E j \in DOMAIN queue :
                 i = Len(pending) + j /\ Flow[i] = queue[j] /\ queue[j].kind = "write"
      BY FlowFacts
    <3>2. l # <<>> /\ Flow[k].what = Head(l)
      BY <2>1, <3>1 DEF Writing, ItsChunk
    <3>3. \A i \in DOMAIN Flow : Flow[i].kind = "write" => i = k
      BY <2>1, <3>1 DEF Writing, OneChain
    <3> QED BY <3>2, <3>3
  <2>2. l # <<>> => \E k \in DOMAIN Flow : Flow[k].kind = "write"
    <3>1. CASE \E i \in DOMAIN pending : pending[i].kind = "write"
      BY <3>1, FlowFacts
    <3>2. CASE \E i \in DOMAIN queue : queue[i].kind = "write"
      BY <3>2, FlowFacts
    <3> QED BY <3>1, <3>2 DEF Writing, GoesOn
  <2> QED BY <2>1, <2>2 DEF OneWrite, Under
<1> QED BY <1>1, <1>2, NextTyped, NextWriting, PTL DEF Spec
=============================================================================
