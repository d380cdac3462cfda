------------------------- MODULE ThreadPoolV1_proofs -------------------------
(***************************************************************************)
(* Proofs about ThreadPoolV1, for every number of workers and tasks and    *)
(* every nesting of submissions.                                           *)
(***************************************************************************)
EXTENDS ThreadPoolV1, SequenceLemmas, FiniteSetTheorems

\* A worker has a task exactly while it runs one.
JobInv == \A w \in Workers : wpc[w] = "run" <=> job[w] # None

\* The mutex is held across a step only by a worker about to wait, and what
\* that worker saw is still so: nobody changes it without the mutex.
MutexInv == \A w \in Workers : /\ wpc[w] = "block" <=> mutex = w
                               /\ wpc[w] = "block" => queue = <<>> /\ ~stop

\* The destructor and the flag it sets.
StopInv == stop <=> dtor # "alive"

\* Workers leave only a stopped pool with an empty queue, and all of them
\* have left when it is destroyed.
ExitInv == /\ \A w \in Workers : wpc[w] = "exit" => stop /\ queue = <<>>
           /\ dtor = "destroyed" => \A w \in Workers : wpc[w] = "exit"

\* Who may be inside enqueue(): a client while the pool is alive, a task while
\* it runs.
CallInv == \A t \in Tasks : InCall(t) =>
             IF Parent[t] = None THEN dtor = "alive"
                                 ELSE \E w \in Workers : job[w] = Parent[t]

Control == TypeOK /\ JobInv /\ MutexInv /\ StopInv /\ ExitInv

-----------------------------------------------------------------------------
\* A pool that is being constructed satisfies Control.
LEMMA InitControl == Init => Control
  <1> SUFFICES ASSUME Init PROVE Control
    OBVIOUS
  <1> USE ConstantsAssumption DEF Init
  <1>1. TypeOK
    <2>1. queue \in Seq(Tasks)
      BY EmptySeq
    <2> QED
      BY <2>1 DEF TypeOK
  <1>2. JobInv /\ MutexInv /\ StopInv /\ ExitInv
    BY DEF JobInv, MutexInv, StopInv, ExitInv
  <1> QED
    BY <1>1, <1>2 DEF Control

\* Control is inductive: no step of a worker, a caller or the destructor breaks it.
LEMMA NextControl == Control /\ [Next]_vars => Control'
  <1> SUFFICES ASSUME Control, [Next]_vars
               PROVE Control'
    OBVIOUS
  <1> USE ConstantsAssumption DEF Control, TypeOK, JobInv, MutexInv, StopInv, ExitInv,
                              MutexFree, Open, Popped, MayExit, Completed
  <1>1. ASSUME NEW t \in Tasks, Call(t) PROVE Control'
    BY <1>1 DEF Call
  <1>2. ASSUME NEW t \in Tasks, Push(t) PROVE Control'
    BY <1>2 DEF Push
  <1>3. ASSUME NEW t \in Tasks, Throw(t) PROVE Control'
    BY <1>3 DEF Throw
  <1>4. ASSUME NEW t \in Tasks, NotifyOne(t) PROVE Control'
    <2>1. CASE Waiting = {}
      BY <1>4, <2>1 DEF NotifyOne, WakeOne
    <2>2. CASE \E w \in Waiting : wpc' = [wpc EXCEPT ![w] = "lock"]
      BY <1>4, <2>2 DEF NotifyOne, WakeOne, Waiting
    <2> QED
      BY <1>4, <2>1, <2>2 DEF NotifyOne, WakeOne
  <1>5. ASSUME NEW w \in Workers, Take(w) PROVE Control'
    BY <1>5, HeadTailProperties DEF Take
  <1>6. ASSUME NEW w \in Workers, Exit(w) PROVE Control'
    BY <1>6 DEF Exit
  <1>7. ASSUME NEW w \in Workers, BeginWait(w) PROVE Control'
    BY <1>7 DEF BeginWait
  <1>8. ASSUME NEW w \in Workers, Block(w) PROVE Control'
    BY <1>8 DEF Block
  <1>9. ASSUME NEW w \in Workers, SpuriousWake(w) PROVE Control'
    BY <1>9 DEF SpuriousWake
  <1>10. ASSUME NEW w \in Workers, Finish(w) PROVE Control'
    BY <1>10 DEF Finish
  <1>11. CASE SetStop
    BY <1>11 DEF SetStop
  <1>12. CASE NotifyAll
    BY <1>12 DEF NotifyAll
  <1>13. CASE Join
    BY <1>13 DEF Join
  <1>14. CASE UNCHANGED vars
    BY <1>14 DEF vars
  <1> QED
    BY <1>1, <1>2, <1>3, <1>4, <1>5, <1>6, <1>7, <1>8, <1>9, <1>10, <1>11,
       <1>12, <1>13, <1>14 DEF Next, Worker, Acquire, Enqueue, Finished

\* Who holds the mutex, who has a task and how far the shutdown is are always
\* consistent with each other.
THEOREM ControlInvariant == Spec => []Control
  BY InitControl, NextControl, PTL DEF Spec

\* Every variable keeps its type.
THEOREM TypeCorrect == Spec => []TypeOK
  BY ControlInvariant, PTL DEF Control

-----------------------------------------------------------------------------
(* No wakeup is lost                                                       *)

\* What the wakeup rule counts are finite sets.
LEMMA FiniteCounts ==
  ASSUME Control
  PROVE  /\ IsFiniteSet(Notifying) /\ Cardinality(Notifying) \in Nat
         /\ IsFiniteSet(Locking) /\ Cardinality(Locking) \in Nat
         /\ Len(queue) \in Nat
  <1>1. Notifying \subseteq Tasks /\ Locking \subseteq Workers
    BY DEF Notifying, Locking
  <1>2. IsFiniteSet(Notifying) /\ IsFiniteSet(Locking)
    BY <1>1, FS_Subset, ConstantsAssumption
  <1> QED
    BY <1>2, FS_CardinalityType, LenProperties DEF Control, TypeOK, Open, Popped, MayExit, Completed

\* Nothing to cover: the queue is empty and the destructor has yet to notify,
\* or has not begun.
LEMMA EmptyIsCovered ==
  ASSUME Control', queue' = <<>>, stop' => dtor' = "notify"
  PROVE  NoLostWakeup'
  <1>1. Len(queue') = 0
    BY EmptySeq
  <1>2. Cardinality(Notifying') \in Nat /\ Cardinality(Locking') \in Nat
    <2>1. Notifying' \subseteq Tasks /\ Locking' \subseteq Workers
      BY DEF Notifying, Locking
    <2> QED
      BY <2>1, FS_Subset, FS_CardinalityType, ConstantsAssumption
  <1> QED
    BY <1>1, <1>2 DEF NoLostWakeup

\* No step leaves a task in the queue that nobody is awake or about to be woken for.
LEMMA NextNoLostWakeup == Control /\ NoLostWakeup /\ [Next]_vars => NoLostWakeup'
  <1> SUFFICES ASSUME Control, NoLostWakeup, [Next]_vars
               PROVE NoLostWakeup'
    OBVIOUS
  <1>c. Control'
    BY NextControl
  <1> USE FiniteCounts DEF Control, TypeOK, Open, Popped, MayExit, Completed
  \* Steps that leave the three sets, the queue and the flags alone.
  <1>u. ASSUME UNCHANGED <<queue, stop, dtor, Waiting, Locking, Notifying>>
        PROVE  NoLostWakeup'
    BY <1>u DEF NoLostWakeup
  \* Steps by which one more worker is awake.
  <1>l. ASSUME NEW w \in Workers, wpc[w] # "lock", wpc' = [wpc EXCEPT ![w] = "lock"]
        PROVE  /\ Cardinality(Locking') = Cardinality(Locking) + 1
               /\ Waiting' \subseteq Waiting
    <2>1. Locking' = Locking \cup {w} /\ w \notin Locking
      BY <1>l DEF Locking
    <2>2. Waiting' \subseteq Waiting
      BY <1>l DEF Waiting
    <2> QED
      BY <2>1, <2>2, FS_AddElement
  <1>m. ASSUME NEW w \in Workers, wpc[w] # "lock", wpc' = [wpc EXCEPT ![w] = "lock"],
               UNCHANGED <<queue, stop, dtor, Notifying>>
        PROVE  NoLostWakeup'
    <2>1. /\ Cardinality(Locking') = Cardinality(Locking) + 1
          /\ Waiting' \subseteq Waiting
      BY <1>l, <1>m
    <2>2. CASE Waiting = {}
      <3>1. Waiting' = {}
        BY <2>1, <2>2
      <3> QED
        BY <3>1 DEF NoLostWakeup
    <2>3. CASE Waiting # {}
      BY <1>m, <2>1, <2>3 DEF NoLostWakeup
    <2> QED
      BY <2>2, <2>3
  <1>1. ASSUME NEW t \in Tasks, Call(t) PROVE NoLostWakeup'
    BY <1>1, <1>u DEF Call, Waiting, Locking, Notifying
  <1>2. ASSUME NEW t \in Tasks, Push(t) PROVE NoLostWakeup'
    <2>1. Notifying' = Notifying \cup {t} /\ t \notin Notifying
      BY <1>2 DEF Push, Notifying
    <2>2. Cardinality(Notifying') = Cardinality(Notifying) + 1
      BY <2>1, FS_AddElement
    <2>3. Len(queue') = Len(queue) + 1
      BY <1>2, AppendProperties DEF Push
    <2>4. UNCHANGED <<Waiting, Locking, stop, dtor>>
      BY <1>2 DEF Push, Waiting, Locking
    <2> QED
      BY <2>2, <2>3, <2>4 DEF NoLostWakeup
  <1>3. ASSUME NEW t \in Tasks, Throw(t) PROVE NoLostWakeup'
    BY <1>3, <1>u DEF Throw, Waiting, Locking, Notifying
  <1>4. ASSUME NEW t \in Tasks, NotifyOne(t) PROVE NoLostWakeup'
    <2>1. CASE Waiting = {}
      BY <1>4, <2>1 DEF NotifyOne, WakeOne, NoLostWakeup, Waiting
    <2>2. ASSUME NEW w \in Waiting, wpc' = [wpc EXCEPT ![w] = "lock"]
          PROVE  NoLostWakeup'
      <3>1. Notifying' = Notifying \ {t} /\ t \in Notifying
        BY <1>4 DEF NotifyOne, WakeOne, Notifying
      <3>2. Cardinality(Notifying') = Cardinality(Notifying) - 1
        BY <3>1, FS_RemoveElement
      <3>3. Cardinality(Locking') = Cardinality(Locking) + 1
        BY <2>2, <1>l DEF Waiting
      <3>4. Waiting # {} /\ UNCHANGED <<queue, stop, dtor>>
        BY <1>4, <2>2 DEF NotifyOne, WakeOne
      <3> QED
        BY <3>2, <3>3, <3>4 DEF NoLostWakeup
    <2> QED
      BY <1>4, <2>1, <2>2 DEF NotifyOne, WakeOne
  <1>5. ASSUME NEW w \in Workers, Take(w) PROVE NoLostWakeup'
    <2>1. Locking' = Locking \ {w} /\ w \in Locking
      BY <1>5 DEF Take, Locking
    <2>2. Cardinality(Locking') = Cardinality(Locking) - 1
      BY <2>1, FS_RemoveElement
    <2>3. Len(queue') = Len(queue) - 1
      BY <1>5, HeadTailProperties DEF Take
    <2>4. UNCHANGED <<Waiting, Notifying, stop, dtor>>
      BY <1>5 DEF Take, Waiting, Notifying
    <2> QED
      BY <2>2, <2>3, <2>4 DEF NoLostWakeup
  <1>6. ASSUME NEW w \in Workers, Exit(w) PROVE NoLostWakeup'
    <2>1. Waiting' = Waiting /\ Len(queue') = 0
      BY <1>6, EmptySeq DEF Exit, Waiting
    <2>2. Cardinality(Notifying') \in Nat /\ Cardinality(Locking') \in Nat
      <3>1. Locking' \subseteq Workers /\ Notifying' = Notifying
        BY <1>6 DEF Exit, Locking, Notifying
      <3> QED
        BY <3>1, FS_Subset, FS_CardinalityType, ConstantsAssumption
    <2> QED
      BY <1>6, <2>1, <2>2 DEF Exit, NoLostWakeup
  <1>7. ASSUME NEW w \in Workers, BeginWait(w) PROVE NoLostWakeup'
    BY <1>7, <1>c, EmptyIsCovered DEF BeginWait
  <1>8. ASSUME NEW w \in Workers, Block(w) PROVE NoLostWakeup'
    BY <1>8, <1>c, EmptyIsCovered DEF Block, MutexInv
  <1>9. ASSUME NEW w \in Workers, SpuriousWake(w) PROVE NoLostWakeup'
    <2>1. UNCHANGED <<queue, stop, dtor, Notifying>>
      BY <1>9 DEF SpuriousWake, Notifying
    <2>2. wpc[w] # "lock" /\ wpc' = [wpc EXCEPT ![w] = "lock"]
      BY <1>9 DEF SpuriousWake
    <2> QED
      BY <1>m, <2>1, <2>2
  <1>10. ASSUME NEW w \in Workers, Finish(w) PROVE NoLostWakeup'
    <2>1. UNCHANGED <<queue, stop, dtor, Notifying>>
      BY <1>10 DEF Finish, Notifying
    <2>2. wpc[w] # "lock" /\ wpc' = [wpc EXCEPT ![w] = "lock"]
      BY <1>10 DEF Finish
    <2> QED
      BY <1>m, <2>1, <2>2
  <1>11. CASE SetStop
    <2>1. UNCHANGED <<queue, Waiting, Locking, Notifying>> /\ dtor' = "notify"
      BY <1>11 DEF SetStop, Waiting, Locking, Notifying
    <2> QED
      BY <2>1 DEF NoLostWakeup
  <1>12. CASE NotifyAll
    <2>1. Waiting' = {}
      BY <1>12 DEF NotifyAll, Waiting
    <2> QED
      BY <2>1 DEF NoLostWakeup
  <1>13. CASE Join
    <2>1. Waiting' = {}
      BY <1>13 DEF Join, Waiting
    <2> QED
      BY <2>1 DEF NoLostWakeup
  <1>14. CASE UNCHANGED vars
    BY <1>14, <1>u DEF vars, Waiting, Locking, Notifying
  <1> QED
    BY <1>1, <1>2, <1>3, <1>4, <1>5, <1>6, <1>7, <1>8, <1>9, <1>10, <1>11,
       <1>12, <1>13, <1>14 DEF Next, Worker, Acquire, Enqueue, Finished

\* No wakeup is lost: the protocol of enqueue() (lines 38-46), of the worker's
\* wait (line 75) and of the destructor (lines 90-95).
THEOREM WakeupsArrive == Spec => []NoLostWakeup
  <1>1. Init => NoLostWakeup
    BY DEF Init, NoLostWakeup, Waiting
  <1> QED
    BY <1>1, NextNoLostWakeup, ControlInvariant, PTL DEF Spec

-----------------------------------------------------------------------------
(* Every task is in one place                                              *)

\* A push, a take and the end of a task move it, and copy or drop none.
LEMMA NextTaskInOnePlace == Control /\ TaskInOnePlace /\ [Next]_vars => TaskInOnePlace'
  <1> SUFFICES ASSUME Control, TaskInOnePlace, [Next]_vars
               PROVE TaskInOnePlace'
    OBVIOUS
  <1> USE ConstantsAssumption DEF Control, TypeOK, Open, Popped, MayExit, Completed
  \* Steps that move no task.
  <1>u. ASSUME UNCHANGED <<queue, job, done, Accepted>>
        PROVE  TaskInOnePlace'
    BY <1>u DEF TaskInOnePlace, Queued, Running
  <1>1. ASSUME NEW t \in Tasks, Call(t) PROVE TaskInOnePlace'
    BY <1>1, <1>u DEF Call, Accepted
  <1>2. ASSUME NEW t \in Tasks, Push(t) PROVE TaskInOnePlace'
    <2>1. Accepted' = Accepted \cup {t} /\ t \notin Accepted
      BY <1>2 DEF Push, Accepted
    <2>2. t \notin Queued /\ t \notin Running /\ t \notin done
      BY <2>1 DEF TaskInOnePlace
    <2>3. Queued' = Queued \cup {t} /\ IsInjective(queue)'
      BY <1>2, <2>2, AppendElements DEF Push, Queued, TaskInOnePlace
    <2>4. Running' = Running /\ done' = done /\ job' = job
      BY <1>2 DEF Push, Running
    <2> QED
      BY <2>1, <2>2, <2>3, <2>4 DEF TaskInOnePlace
  <1>3. ASSUME NEW t \in Tasks, Throw(t) PROVE TaskInOnePlace'
    BY <1>3, <1>u DEF Throw, Accepted
  <1>4. ASSUME NEW t \in Tasks, NotifyOne(t) PROVE TaskInOnePlace'
    BY <1>4, <1>u DEF NotifyOne, Accepted
  <1>5. ASSUME NEW w \in Workers, Take(w) PROVE TaskInOnePlace'
    <2> DEFINE t == Head(queue)
    <2>1. /\ Queued = Queued' \cup {t} /\ t \notin Queued' /\ t \in Tasks
          /\ IsInjective(queue)'
      BY <1>5, TailElements DEF Take, Queued, TaskInOnePlace
    <2>2. job[w] = None
      BY <1>5 DEF Take, JobInv
    <2>3. t \notin Running /\ t \notin done
      BY <2>1 DEF TaskInOnePlace
    <2>4. Running' = Running \cup {t}
      <3>1. job' = [job EXCEPT ![w] = t]
        BY <1>5 DEF Take
      <3> QED
        BY <2>1, <2>2, <3>1 DEF Running
    <2>5. \A v \in Workers : job[v] # t
      BY <2>1, <2>3 DEF Running
    <2>6. UNCHANGED <<done, Accepted>>
      BY <1>5 DEF Take, Accepted
    <2>7. \A u, v \in Workers : job'[u] = job'[v] /\ job'[u] # None => u = v
      BY <1>5, <2>5 DEF Take, TaskInOnePlace
    <2> QED
      BY <2>1, <2>3, <2>4, <2>6, <2>7 DEF TaskInOnePlace
  <1>6. ASSUME NEW w \in Workers, Exit(w) PROVE TaskInOnePlace'
    BY <1>6, <1>u DEF Exit, Accepted
  <1>7. ASSUME NEW w \in Workers, BeginWait(w) PROVE TaskInOnePlace'
    BY <1>7, <1>u DEF BeginWait, Accepted
  <1>8. ASSUME NEW w \in Workers, Block(w) PROVE TaskInOnePlace'
    BY <1>8, <1>u DEF Block, Accepted
  <1>9. ASSUME NEW w \in Workers, SpuriousWake(w) PROVE TaskInOnePlace'
    BY <1>9, <1>u DEF SpuriousWake, Accepted
  <1>10. ASSUME NEW w \in Workers, Finish(w) PROVE TaskInOnePlace'
    <2>1. job[w] \in Tasks /\ job[w] \in Running
      BY <1>10 DEF Finish, JobInv, Running
    <2>2. Running' = Running \ {job[w]}
      <3>1. job' = [job EXCEPT ![w] = None]
        BY <1>10 DEF Finish
      <3>2. \A v \in Workers : job[v] = job[w] => v = w
        BY <2>1 DEF TaskInOnePlace
      <3> QED
        BY <2>1, <3>1, <3>2 DEF Running
    <2>3. done' = done \cup {job[w]}
      BY <1>10 DEF Finish
    <2>4. UNCHANGED <<queue, Queued, Accepted>>
      BY <1>10 DEF Finish, Queued, Accepted
    <2>5. \A u, v \in Workers : job'[u] = job'[v] /\ job'[u] # None => u = v
      BY <1>10 DEF Finish, TaskInOnePlace
    <2> QED
      BY <2>1, <2>2, <2>3, <2>4, <2>5 DEF TaskInOnePlace
  <1>11. CASE SetStop
    BY <1>11, <1>u DEF SetStop, Accepted
  <1>12. CASE NotifyAll
    BY <1>12, <1>u DEF NotifyAll, Accepted
  <1>13. CASE Join
    BY <1>13, <1>u DEF Join, Accepted
  <1>14. CASE UNCHANGED vars
    BY <1>14, <1>u DEF vars, Accepted
  <1> QED
    BY <1>1, <1>2, <1>3, <1>4, <1>5, <1>6, <1>7, <1>8, <1>9, <1>10, <1>11,
       <1>12, <1>13, <1>14 DEF Next, Worker, Acquire, Enqueue, Finished

\* Nothing enqueue() accepted is lost, and no task runs twice.
THEOREM EveryTaskInOnePlace == Spec => []TaskInOnePlace
  <1>1. Init => TaskInOnePlace
    BY EmptyElements, ConstantsAssumption
       DEF Init, TaskInOnePlace, Queued, Running, Accepted
  <1> QED
    BY <1>1, NextTaskInOnePlace, ControlInvariant, PTL DEF Spec

\* The destructor returns only when every accepted task has run: each worker
\* left a stopped pool with an empty queue, and no worker has a task.
THEOREM DestructorDrains == Spec => []DrainedOnDestroy
  <1>1. Control /\ TaskInOnePlace => DrainedOnDestroy
    <2> SUFFICES ASSUME Control, TaskInOnePlace, dtor = "destroyed"
                 PROVE done = Accepted
      BY DEF DrainedOnDestroy
    <2>1. \A w \in Workers : wpc[w] = "exit" /\ queue = <<>>
      BY DEF Control, ExitInv
    <2>2. queue = <<>>
      BY <2>1, ConstantsAssumption
    <2>3. Queued = {}
      BY <2>2, EmptyElements DEF Queued
    <2>4. Running = {}
      BY <2>1 DEF Running, Control, JobInv
    <2> QED
      BY <2>3, <2>4 DEF TaskInOnePlace
  <1> QED
    BY <1>1, ControlInvariant, EveryTaskInOnePlace, PTL

-----------------------------------------------------------------------------
(* The pool implements the abstract executor                               *)

\* A task that is submitting goes on running until its call returns.
LEMMA NextCallInv == Control /\ CallInv /\ [Next]_vars => CallInv'
  <1> SUFFICES ASSUME Control, CallInv, [Next]_vars,
                      NEW t \in Tasks, InCall(t)'
               PROVE  IF Parent[t] = None THEN dtor' = "alive"
                                          ELSE \E w \in Workers : job'[w] = Parent[t]
    BY DEF CallInv
  <1> USE ConstantsAssumption DEF Control, TypeOK, InCall, CallInv,
                              Open, Popped, MayExit, Completed
  <1>1. CASE InCall(t) /\ UNCHANGED <<job, dtor>>
    BY <1>1
  <1>2. CASE Call(t)
    BY <1>2 DEF Call
  <1>3. ASSUME InCall(t), NEW w \in Workers, Take(w)
        PROVE  IF Parent[t] = None THEN dtor' = "alive"
                                   ELSE \E v \in Workers : job'[v] = Parent[t]
    <2>1. job[w] = None /\ UNCHANGED dtor
      BY <1>3 DEF Take, JobInv
    <2>2. ASSUME NEW v \in Workers, Parent[t] # None, job[v] = Parent[t]
          PROVE  job'[v] = Parent[t]
      BY <1>3, <2>1, <2>2 DEF Take
    <2> QED
      BY <1>3, <2>1, <2>2
  <1>4. ASSUME InCall(t), NEW w \in Workers, Finish(w)
        PROVE  IF Parent[t] = None THEN dtor' = "alive"
                                   ELSE \E v \in Workers : job'[v] = Parent[t]
    <2>1. Parent[t] # job[w] /\ UNCHANGED dtor
      BY <1>4 DEF Finish, Children
    <2>2. ASSUME NEW v \in Workers, Parent[t] # None, job[v] = Parent[t]
          PROVE  job'[v] = Parent[t]
      BY <1>4, <2>1, <2>2 DEF Finish
    <2> QED
      BY <1>4, <2>1, <2>2
  <1>5. CASE InCall(t) /\ SetStop
    BY <1>5 DEF SetStop
  <1>6. CASE InCall(t) /\ NotifyAll
    BY <1>6, StopInv DEF NotifyAll
  <1>7. CASE InCall(t) /\ Join
    BY <1>7 DEF Join
  <1>8. InCall(t) \/ Call(t)
    BY DEF Next, Worker, Acquire, Enqueue, Finished, vars, Call, Push, Throw, NotifyOne,
           Take, Exit, BeginWait, Block, SpuriousWake, Finish, SetStop, NotifyAll, Join
  <1>9. \/ UNCHANGED <<job, dtor>>
        \/ \E w \in Workers : Take(w) \/ Finish(w)
        \/ SetStop \/ NotifyAll \/ Join
    BY DEF Next, Worker, Acquire, Enqueue, Finished, vars, Call, Push, Throw, NotifyOne,
           Exit, BeginWait, Block, SpuriousWake
  <1> QED
    BY <1>1, <1>2, <1>3, <1>4, <1>5, <1>6, <1>7, <1>8, <1>9

\* Only a client whose pool is alive, or a task that is running, is inside
\* enqueue(): nobody is left in it when the pool is destroyed.
THEOREM NobodyInCall == Spec => []CallInv
  <1>1. Init => CallInv
    BY DEF Init, CallInv, InCall
  <1> QED
    BY <1>1, NextCallInv, ControlInvariant, PTL DEF Spec

\* A pool that is being constructed is an executor that has accepted nothing.
LEMMA InitExecutor == Init => Executor!Init
  BY ConstantsAssumption DEF Init, Executor!Init, Running, Refused, Phase

\* Every step of the pool is one step of the executor, or none.
LEMMA NextExecutor ==
  Control /\ CallInv /\ TaskInOnePlace /\ [Next]_vars
    => [Executor!Next]_(Executor!vars)
  <1> SUFFICES ASSUME Control, CallInv, TaskInOnePlace, [Next]_vars
               PROVE  [Executor!Next]_(Executor!vars)
    OBVIOUS
  <1> USE ConstantsAssumption DEF Control, TypeOK, Open, Popped, MayExit, Completed
  <1>n. ASSUME NEW t \in Tasks, sub[t] = "called"
        PROVE  t \notin Executor!Submitted
    <2>1. t \notin Accepted /\ t \notin Refused
      BY <1>n DEF Accepted, Refused
    <2>2. t \notin ToSet(queue) \cup Running \cup done
      BY <2>1 DEF TaskInOnePlace, Queued
    <2> QED
      BY <2>1, <2>2 DEF Executor!Submitted, Executor!ToSet, ToSet
  \* Steps the executor does not see.
  <1>u. ASSUME UNCHANGED <<queue, job, done, Refused, Phase>>
        PROVE  UNCHANGED Executor!vars
    BY <1>u DEF Executor!vars, Running
  <1>1. ASSUME NEW t \in Tasks, Call(t) PROVE UNCHANGED Executor!vars
    BY <1>1, <1>u DEF Call, Refused, Phase
  <1>2. ASSUME NEW t \in Tasks, Push(t) PROVE Executor!Accept(t)
    <2>1. t \notin Executor!Submitted
      BY <1>2, <1>n DEF Push
    <2>2. Phase = "open" /\ queue' = Append(queue, t)
      BY <1>2 DEF Push, Phase
    <2>3. UNCHANGED <<Running, done, Refused, Phase>>
      BY <1>2 DEF Push, Running, Refused, Phase
    <2> QED
      BY <2>1, <2>2, <2>3 DEF Executor!Accept
  <1>3. ASSUME NEW t \in Tasks, Throw(t) PROVE Executor!Refuse(t)
    <2>1. t \notin Executor!Submitted
      BY <1>3, <1>n DEF Throw
    <2>2. dtor # "destroyed"
      BY <1>3 DEF Throw, CallInv, InCall, ExitInv, JobInv
    <2>3. Phase = "closing"
      BY <1>3, <2>2 DEF Throw, Phase
    <2>4. Refused' = Refused \cup {t}
      BY <1>3 DEF Throw, Refused
    <2>5. UNCHANGED <<queue, Running, done, Phase>>
      BY <1>3 DEF Throw, Running, Phase
    <2> QED
      BY <2>1, <2>3, <2>4, <2>5 DEF Executor!Refuse
  <1>4. ASSUME NEW t \in Tasks, NotifyOne(t) PROVE UNCHANGED Executor!vars
    BY <1>4, <1>u DEF NotifyOne, Refused, Phase
  <1>5. ASSUME NEW w \in Workers, Take(w) PROVE Executor!Start
    <2>1. job[w] = None /\ Head(queue) \in Tasks
      BY <1>5, TailElements DEF Take, JobInv
    <2>2. Running' = Running \cup {Head(queue)}
      <3>1. job' = [job EXCEPT ![w] = Head(queue)]
        BY <1>5 DEF Take
      <3> QED
        BY <2>1, <3>1 DEF Running
    <2>3. Phase # "closed"
      BY <1>5 DEF Take, Phase, ExitInv
    <2>4. queue # <<>> /\ queue' = Tail(queue) /\ UNCHANGED <<done, Refused, Phase>>
      BY <1>5 DEF Take, Refused, Phase
    <2> QED
      BY <2>2, <2>3, <2>4 DEF Executor!Start
  <1>6. ASSUME NEW w \in Workers, Exit(w) PROVE UNCHANGED Executor!vars
    BY <1>6, <1>u DEF Exit, Refused, Phase
  <1>7. ASSUME NEW w \in Workers, BeginWait(w) PROVE UNCHANGED Executor!vars
    BY <1>7, <1>u DEF BeginWait, Refused, Phase
  <1>8. ASSUME NEW w \in Workers, Block(w) PROVE UNCHANGED Executor!vars
    BY <1>8, <1>u DEF Block, Refused, Phase
  <1>9. ASSUME NEW w \in Workers, SpuriousWake(w) PROVE UNCHANGED Executor!vars
    BY <1>9, <1>u DEF SpuriousWake, Refused, Phase
  <1>10. ASSUME NEW w \in Workers, Finish(w)
         PROVE job[w] \in Tasks /\ Executor!Finish(job[w])
    <2>1. job[w] \in Tasks /\ job[w] \in Running
      BY <1>10 DEF Finish, JobInv, Running
    <2>2. Running' = Running \ {job[w]}
      <3>1. job' = [job EXCEPT ![w] = None]
        BY <1>10 DEF Finish
      <3>2. \A v \in Workers : job[v] = job[w] => v = w
        BY <2>1 DEF TaskInOnePlace
      <3> QED
        BY <2>1, <3>1, <3>2 DEF Running
    <2>3. done' = done \cup {job[w]} /\ UNCHANGED <<queue, Refused, Phase>>
      BY <1>10 DEF Finish, Refused, Phase
    <2> QED
      BY <2>1, <2>2, <2>3 DEF Executor!Finish
  <1>11. CASE SetStop
    <2>1. Phase = "open" /\ Phase' = "closing"
      BY <1>11 DEF SetStop, Phase, StopInv
    <2>2. UNCHANGED <<queue, Running, done, Refused>>
      BY <1>11 DEF SetStop, Running, Refused
    <2> QED
      BY <2>1, <2>2 DEF Executor!Close, Executor!Next
  <1>12. CASE NotifyAll
    BY <1>12, <1>u DEF NotifyAll, Refused, Phase
  <1>13. CASE Join
    <2>1. Phase = "closing" /\ Phase' = "closed"
      BY <1>13 DEF Join, Phase, StopInv
    <2>2. queue = <<>> /\ Running = {}
      BY <1>13 DEF Join, ExitInv, JobInv, Running
    <2>3. UNCHANGED <<queue, Running, done, Refused>>
      BY <1>13 DEF Join, Running, Refused
    <2> QED
      BY <2>1, <2>2, <2>3 DEF Executor!Terminate, Executor!Next
  <1>14. CASE UNCHANGED vars
    BY <1>14, <1>u DEF vars, Refused, Phase
  <1> QED
    BY <1>1, <1>2, <1>3, <1>4, <1>5, <1>6, <1>7, <1>8, <1>9, <1>10, <1>11,
       <1>12, <1>13, <1>14
       DEF Next, Worker, Acquire, Enqueue, Finished, Executor!Next

\* The pool of ThreadPool_V1.h is a task executor: FIFO, every task at most
\* once, nothing accepted after the shutdown began, nothing left at its end.
THEOREM PoolImplementsExecutor == Spec => ImplementsExecutor
  BY InitExecutor, NextExecutor, ControlInvariant, NobodyInCall,
     EveryTaskInOnePlace, PTL DEF Spec, ImplementsExecutor, Executor!Spec
=============================================================================
