-------------------------- MODULE TaskActuatorProofs --------------------------
(***************************************************************************)
(* Proofs about TaskActuator, for every set of workers and of tasks,       *)
(* whenever the destructor starts.                                         *)
(***************************************************************************)
EXTENDS TaskActuator, TLAPS

-----------------------------------------------------------------------------
(* What the code's locking gives. *)

(* m_task_mutex is held exactly by the worker that looks at the queue.     *)
Exclusion ==
    \A w \in Workers : mutex = w <=> pc[w] \in {"test", "sleep", "check"}

(* A worker decides to wait with the mutex in hand: nothing is queued.     *)
SleepsOnEmpty ==
    \A w \in Workers : pc[w] = "sleep" /\ m_running => m_task_queue = <<>>

(* wait() ends by taking the mutex again, and a worker leaves only a pool  *)
(* that stops.                                                             *)
Positions ==
    /\ \A w \in waiting : pc[w] = "lock"
    /\ \A w \in Workers : pc[w] = "exit" => ~m_running

IInv == TypeOK /\ Exclusion /\ SleepsOnEmpty /\ Positions /\ NoTaskStranded

-----------------------------------------------------------------------------

(* The initial states satisfy the invariant.                               *)
LEMMA InitIInv == Init => IInv
  BY WorkersAssumption DEF Init, IInv, TypeOK, Exclusion, SleepsOnEmpty, Positions,
     NoTaskStranded, Label

(* Types are kept.                                                         *)
LEMMA NextType == TypeOK /\ [Next]_vars => TypeOK'
<1> SUFFICES ASSUME TypeOK, [Next]_vars PROVE TypeOK'
  OBVIOUS
<1> USE DEF TypeOK
<1>1. ASSUME NEW w \in Workers, Worker(w) PROVE TypeOK'
  <2>1. CASE Loop(w)
    BY <2>1 DEF Loop, Goto, Label
  <2>2. CASE Lock(w)
    BY <2>2 DEF Lock, Goto, Label
  <2>3. CASE Test(w)
    BY <2>3 DEF Test, Goto, Label
  <2>4. CASE Sleep(w)
    BY <2>4 DEF Sleep, Goto, Label
  <2>5. CASE Check(w)
    <3>1. CASE m_running /\ m_task_queue # <<>>
      <4>1. Head(m_task_queue) \in asked /\ Tail(m_task_queue) \in Seq(asked)
        BY <3>1
      <4>2. m_task_queue' \in Seq(asked')
        BY <2>5, <3>1, <4>1 DEF Check
      <4> QED BY <2>5, <3>1, <4>1, <4>2 DEF Check, Goto, Label
    <3>2. CASE ~(m_running /\ m_task_queue # <<>>)
      BY <2>5, <3>2 DEF Check, Goto, Label
    <3> QED BY <3>1, <3>2
  <2>6. CASE Run(w)
    BY <2>6 DEF Run, Goto, Label
  <2> QED BY <1>1, <2>1, <2>2, <2>3, <2>4, <2>5, <2>6 DEF Worker
<1>2. ASSUME NEW w \in Workers, WakeSpuriously(w) PROVE TypeOK'
  BY <1>2 DEF WakeSpuriously
<1>3. ASSUME NEW t \in Tasks, AsyncExec(t) PROVE TypeOK'
  <2>1. m_task_queue \in Seq(asked') /\ t \in asked'
    BY <1>3 DEF AsyncExec
  <2>2. m_task_queue' \in Seq(asked')
    BY <1>3, <2>1 DEF AsyncExec
  <2> QED BY <1>3, <2>2 DEF AsyncExec
<1>4. ASSUME NEW t \in Tasks, Notify(t) PROVE TypeOK'
  BY <1>4 DEF Notify
<1>5. CASE Stop \/ Destructor
  BY <1>5 DEF Stop, Destructor, NotifyAll, Join
<1>6. CASE UNCHANGED vars
  BY <1>6 DEF vars
<1> QED BY <1>1, <1>2, <1>3, <1>4, <1>5, <1>6 DEF Next

(* The locking is kept.                                                    *)
LEMMA NextLocking ==
    IInv /\ [Next]_vars => (Exclusion /\ SleepsOnEmpty /\ Positions)'
<1> SUFFICES ASSUME IInv, [Next]_vars PROVE (Exclusion /\ SleepsOnEmpty /\ Positions)'
  OBVIOUS
<1> USE WorkersAssumption DEF IInv, TypeOK, Exclusion, SleepsOnEmpty, Positions
<1>1. ASSUME NEW w \in Workers, Worker(w) PROVE (Exclusion /\ SleepsOnEmpty /\ Positions)'
  <2>1. CASE Loop(w)
    BY <2>1 DEF Loop, Goto
  <2>2. CASE Lock(w)
    BY <2>2 DEF Lock, Goto
  <2>3. CASE Test(w)
    BY <2>3 DEF Test, Goto
  <2>4. CASE Sleep(w)
    BY <2>4 DEF Sleep, Goto
  <2>5. CASE Check(w)
    BY <2>5 DEF Check, Goto
  <2>6. CASE Run(w)
    BY <2>6 DEF Run, Goto
  <2> QED BY <1>1, <2>1, <2>2, <2>3, <2>4, <2>5, <2>6 DEF Worker
<1>2. ASSUME NEW w \in Workers, WakeSpuriously(w)
      PROVE  (Exclusion /\ SleepsOnEmpty /\ Positions)'
  BY <1>2 DEF WakeSpuriously
<1>3. ASSUME NEW t \in Tasks, AsyncExec(t) PROVE (Exclusion /\ SleepsOnEmpty /\ Positions)'
  BY <1>3 DEF AsyncExec
<1>4. ASSUME NEW t \in Tasks, Notify(t) PROVE (Exclusion /\ SleepsOnEmpty /\ Positions)'
  BY <1>4 DEF Notify
<1>5. CASE Stop \/ Destructor
  BY <1>5 DEF Stop, Destructor, NotifyAll, Join
<1>6. CASE UNCHANGED vars
  BY <1>6 DEF vars
<1> QED BY <1>1, <1>2, <1>3, <1>4, <1>5, <1>6 DEF Next

(* No step leaves a queued task to sleepers.                               *)
LEMMA NextStranded == IInv /\ [Next]_vars => NoTaskStranded'
<1> SUFFICES ASSUME IInv, [Next]_vars, m_running', m_task_queue' # <<>>
             PROVE  calling' # {} \/ (\E w \in Workers : Awake(w))'
  BY DEF NoTaskStranded
<1> USE DEF IInv, TypeOK
<1>1. ASSUME NEW w \in Workers, Worker(w)
      PROVE  calling' # {} \/ (\E v \in Workers : Awake(v))'
  <2>1. CASE Loop(w)
    <3>1. Awake(w)'
      BY <2>1 DEF Loop, Goto, Awake, Positions
    <3> QED BY <3>1
  <2>2. CASE Lock(w)
    <3>1. Awake(w)'
      BY <2>2 DEF Lock, Goto, Awake
    <3> QED BY <3>1
  <2>3. CASE Test(w)
    <3>1. Awake(w)'
      BY <2>3 DEF Test, Goto, Awake, Positions
    <3> QED BY <3>1
  <2>4. CASE Sleep(w)
    BY <2>4 DEF Sleep, SleepsOnEmpty
  <2>5. CASE Check(w)
    <3>1. Awake(w)'
      BY <2>5 DEF Check, Goto, Awake, Positions
    <3> QED BY <3>1
  <2>6. CASE Run(w)
    <3>1. Awake(w)'
      BY <2>6 DEF Run, Goto, Awake, Positions
    <3> QED BY <3>1
  <2> QED BY <1>1, <2>1, <2>2, <2>3, <2>4, <2>5, <2>6 DEF Worker
<1>2. ASSUME NEW w \in Workers, WakeSpuriously(w)
      PROVE  calling' # {} \/ (\E v \in Workers : Awake(v))'
  BY <1>2 DEF WakeSpuriously, Awake, NoTaskStranded
<1>3. ASSUME NEW t \in Tasks, AsyncExec(t) PROVE calling' # {}
  BY <1>3 DEF AsyncExec
<1>4. ASSUME NEW t \in Tasks, Notify(t) PROVE (\E w \in Workers : Awake(w))'
  <2>1. CASE waiting = {}
    <3>1. PICK w \in Workers : TRUE
      BY WorkersAssumption
    <3>2. Awake(w)'
      BY <1>4, <2>1 DEF Notify, Awake, Label, Positions, SleepsOnEmpty
    <3> QED BY <3>2
  <2>2. CASE waiting # {}
    <3>1. PICK w \in waiting : waiting' = waiting \ {w}
      BY <1>4, <2>2 DEF Notify
    <3>2. Awake(w)'
      BY <1>4, <3>1 DEF Notify, Awake, Positions
    <3> QED BY <3>2
  <2> QED BY <2>1, <2>2
<1>5. CASE Stop \/ Destructor
  BY <1>5 DEF Stop, Destructor, NotifyAll, Join, Awake, NoTaskStranded
<1>6. CASE UNCHANGED vars
  BY <1>6 DEF vars, Awake, NoTaskStranded
<1> QED BY <1>1, <1>2, <1>3, <1>4, <1>5, <1>6 DEF Next

(* The invariant holds in every state.                                     *)
LEMMA IInvHolds == Spec => []IInv
<1>1. IInv /\ [Next]_vars => IInv'
  BY NextType, NextLocking, NextStranded DEF IInv
<1> QED BY InitIInv, <1>1, PTL DEF Spec

-----------------------------------------------------------------------------
(* Type correctness.                                                       *)
THEOREM TypeCorrect == Spec => []TypeOK
<1>1. IInv => TypeOK
  BY DEF IInv
<1> QED BY <1>1, IInvHolds, PTL

(* Any number of workers, tasks and spurious wakeups: a queued task is     *)
(* never left to workers that all wait in m_task_condition, although       *)
(* notify_one() is called outside the mutex.                               *)
THEOREM NeverStranded == Spec => []NoTaskStranded
<1>1. IInv => NoTaskStranded
  BY DEF IInv
<1> QED BY <1>1, IInvHolds, PTL

(* Two workers never look at m_task_queue at the same time.                *)
THEOREM MutualExclusion ==
    Spec => [](\A v, w \in Workers :
                  pc[v] \in {"test", "sleep", "check"} /\ pc[w] \in {"test", "sleep", "check"}
                  => v = w)
<1>1. IInv => \A v, w \in Workers :
                  pc[v] \in {"test", "sleep", "check"} /\ pc[w] \in {"test", "sleep", "check"}
                  => v = w
  BY DEF IInv, Exclusion
<1> QED BY <1>1, IInvHolds, PTL
=============================================================================
