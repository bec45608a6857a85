----------------------------- MODULE TaskActuator -----------------------------
(***************************************************************************)
(* The thread pool src/src/task_actuator/task_actuator.hpp, which runs the *)
(* requests of HttpManager.                                                *)
(*                                                                         *)
(* A worker is cut at every point where another thread may interleave: its *)
(* reads of m_running, the mutex, the wait on the condition variable.      *)
(* async_exec() is one step under the mutex and one for the notification   *)
(* it gives after unlocking.  The destructor does not take the mutex.      *)
(***************************************************************************)
EXTENDS Naturals, Sequences

CONSTANTS
    Workers,  \* the threads
    Tasks,    \* the calls of async_exec() of a run (a bound)
    CalmExit, \* TRUE: the destructor starts while no worker is about to wait
    Nobody    \* no worker

ASSUME WorkersAssumption == Workers # {} /\ Nobody \notin Workers
ASSUME CalmAssumption == CalmExit \in BOOLEAN

VARIABLES
    m_running,
    m_task_queue,
    mutex,   \* the worker that holds m_task_mutex
    pc,      \* pc[w]: what the thread w does next
    waiting, \* the threads in m_task_condition.wait()
    asked,   \* tasks given to async_exec()
    calling, \* those whose async_exec() has not yet called notify_one()
    started, \* those a worker has taken from the queue
    dtor     \* the destructor

vars == <<m_running, m_task_queue, mutex, pc, waiting, asked, calling, started, dtor>>

Label == {"loop", "lock", "test", "sleep", "check", "run", "exit"}

Init ==
    /\ m_running = TRUE
    /\ m_task_queue = <<>>
    /\ mutex = Nobody
    /\ pc = [w \in Workers |-> "loop"]
    /\ waiting = {}
    /\ asked = {} /\ calling = {} /\ started = {}
    /\ dtor = "none"

Goto(w, label) == pc' = [pc EXCEPT ![w] = label]

-----------------------------------------------------------------------------
(* A worker *)

(* while (m_running)                                                       *)
Loop(w) ==
    /\ pc[w] = "loop"
    /\ Goto(w, IF m_running THEN "lock" ELSE "exit")
    /\ UNCHANGED <<m_running, m_task_queue, mutex, waiting, asked, calling, started, dtor>>

(* Take the mutex, at first or when wait() is over.                        *)
Lock(w) ==
    /\ pc[w] = "lock" /\ w \notin waiting
    /\ mutex = Nobody
    /\ mutex' = w
    /\ Goto(w, "test")
    /\ UNCHANGED <<m_running, m_task_queue, waiting, asked, calling, started, dtor>>

(* while (m_running && m_task_queue.empty())                               *)
Test(w) ==
    /\ pc[w] = "test"
    /\ Goto(w, IF m_running /\ m_task_queue = <<>> THEN "sleep" ELSE "check")
    /\ UNCHANGED <<m_running, m_task_queue, mutex, waiting, asked, calling, started, dtor>>

(* wait(): release the mutex and wait, in one step.                        *)
Sleep(w) ==
    /\ pc[w] = "sleep"
    /\ mutex' = Nobody
    /\ waiting' = waiting \cup {w}
    /\ Goto(w, "lock")
    /\ UNCHANGED <<m_running, m_task_queue, asked, calling, started, dtor>>

(* Leave when the pool stops, go round when there is nothing, else take    *)
(* the first task.                                                         *)
Check(w) ==
    /\ pc[w] = "check"
    /\ mutex' = Nobody
    /\ IF m_running /\ m_task_queue # <<>>
       THEN /\ m_task_queue' = Tail(m_task_queue)
            /\ started' = started \cup {Head(m_task_queue)}
            /\ Goto(w, "run")
       ELSE /\ Goto(w, IF m_running THEN "loop" ELSE "exit")
            /\ UNCHANGED <<m_task_queue, started>>
    /\ UNCHANGED <<m_running, waiting, asked, calling, dtor>>

(* task()                                                                  *)
Run(w) ==
    /\ pc[w] = "run"
    /\ Goto(w, "loop")
    /\ UNCHANGED <<m_running, m_task_queue, mutex, waiting, asked, calling, started, dtor>>

(* A wait() may end with no notification.                                  *)
WakeSpuriously(w) ==
    /\ w \in waiting
    /\ waiting' = waiting \ {w}
    /\ UNCHANGED <<m_running, m_task_queue, mutex, pc, asked, calling, started, dtor>>

-----------------------------------------------------------------------------
(* Callers *)

(* Slips: no notification, and a task that is not recorded.                *)
AsyncExecQuietly(t) ==
    /\ t \notin asked
    /\ dtor # "done"
    /\ mutex = Nobody
    /\ asked' = asked \cup {t}
    /\ m_task_queue' = IF m_running THEN Append(m_task_queue, t) ELSE m_task_queue
    /\ UNCHANGED <<m_running, mutex, pc, waiting, calling, started, dtor>>

AsyncExecUnrecorded(t) ==
    /\ t \notin asked
    /\ mutex = Nobody
    /\ m_task_queue' = Append(m_task_queue, t)
    /\ calling' = calling \cup {t}
    /\ UNCHANGED <<m_running, mutex, pc, waiting, asked, started, dtor>>

(* async_exec() under the mutex: a pool that stops drops the task.         *)
AsyncExec(t) ==
    /\ t \notin asked
    /\ dtor # "done"
    /\ mutex = Nobody
    /\ asked' = asked \cup {t}
    /\ calling' = calling \cup {t}
    /\ m_task_queue' = IF m_running THEN Append(m_task_queue, t) ELSE m_task_queue
    /\ UNCHANGED <<m_running, mutex, pc, waiting, started, dtor>>

(* notify_one()                                                            *)
Notify(t) ==
    /\ t \in calling
    /\ calling' = calling \ {t}
    /\ IF waiting = {} THEN UNCHANGED waiting
                       ELSE \E w \in waiting : waiting' = waiting \ {w}
    /\ UNCHANGED <<m_running, m_task_queue, mutex, pc, asked, started, dtor>>

-----------------------------------------------------------------------------
(* The destructor *)

Stop ==
    /\ dtor = "none"
    /\ CalmExit => \A w \in Workers : pc[w] \notin {"test", "sleep"}
    /\ dtor' = "notify"
    /\ m_running' = FALSE
    /\ UNCHANGED <<m_task_queue, mutex, pc, waiting, asked, calling, started>>

\* A slip: only one worker is woken.
NotifyFirst ==
    /\ dtor = "notify"
    /\ dtor' = "join"
    /\ IF waiting = {} THEN UNCHANGED waiting
                       ELSE \E w \in waiting : waiting' = waiting \ {w}
    /\ UNCHANGED <<m_running, m_task_queue, mutex, pc, asked, calling, started>>

NotifyAll ==
    /\ dtor = "notify"
    /\ dtor' = "join"
    /\ waiting' = {}
    /\ UNCHANGED <<m_running, m_task_queue, mutex, pc, asked, calling, started>>

Join ==
    /\ dtor = "join"
    /\ \A w \in Workers : pc[w] = "exit"
    /\ dtor' = "done"
    /\ UNCHANGED <<m_running, m_task_queue, mutex, pc, waiting, asked, calling, started>>

-----------------------------------------------------------------------------
Worker(w) == Loop(w) \/ Lock(w) \/ Test(w) \/ Sleep(w) \/ Check(w) \/ Run(w)

Destructor == NotifyAll \/ Join

Next ==
    \/ \E w \in Workers : Worker(w) \/ WakeSpuriously(w)
    \/ \E t \in Tasks : AsyncExec(t) \/ Notify(t)
    \/ Stop
    \/ Destructor

Spec == Init /\ [][Next]_vars

(* Threads run, a mutex that is free again and again is obtained, and a    *)
(* call once begun goes on.  wait() need not end by itself.                *)
Fairness ==
    /\ \A w \in Workers : WF_vars(Worker(w)) /\ SF_vars(Lock(w))
    /\ \A t \in Tasks : WF_vars(Notify(t))
    /\ WF_vars(Destructor)

FairSpec == Spec /\ Fairness

-----------------------------------------------------------------------------
(* Properties *)

(* The type invariant.                                                     *)
TypeOK ==
    /\ m_running \in BOOLEAN
    /\ m_task_queue \in Seq(asked)
    /\ mutex \in Workers \cup {Nobody}
    /\ pc \in [Workers -> Label]
    /\ waiting \subseteq Workers
    /\ asked \subseteq Tasks
    /\ calling \subseteq asked /\ started \subseteq asked
    /\ dtor \in {"none", "notify", "join", "done"}

(* No task is stranded by workers that all sleep: notify_one() is called   *)
(* after the mutex was released, when the worker it was meant for may run  *)
(* already and another one take the task; still, while a task is queued    *)
(* somebody is awake who will look at the queue, or will be woken.         *)
Awake(w) == pc[w] \in {"loop", "lock", "test", "check", "run"} /\ w \notin waiting

NoTaskStranded ==
    m_running /\ m_task_queue # <<>> =>
        calling # {} \/ \E w \in Workers : Awake(w)

(* A task that was queued is started, unless the pool stops.               *)
TaskStarted ==
    \A t \in Tasks : t \in asked ~> t \in started \/ ~m_running

(* ~TaskActuator() returns: every worker it has to join learns of it.      *)
DestructorReturns == dtor # "none" ~> dtor = "done"
=============================================================================
