------------------------ MODULE ThreadPoolV2_proofs ------------------------
(***************************************************************************)
(* Proofs about ThreadPoolV2 (include/ThreadPool_v2.h), for every number   *)
(* of workers and tasks and every nesting of submissions.                  *)
(***************************************************************************)
EXTENDS ThreadPoolV2, SequenceLemmas, FiniteSetTheorems

\* A worker has a task from the moment it takes it until the task returns.
JobInv == \A w \in Workers : wpc[w] = "run" <=> job[w] # None

\* The mutex is held across a step only by a worker about to wait, and the
\* queue it saw is still empty.
MutexInv == \A w \in Workers : /\ wpc[w] = "block" <=> mutex = w
                               /\ wpc[w] = "block" => queue = <<>>

Control == TypeOK /\ JobInv /\ MutexInv

-----------------------------------------------------------------------------
\* A pool that has just been constructed satisfies Control.
LEMMA InitControl == Init => Control
  <1> SUFFICES ASSUME Init PROVE Control
    OBVIOUS
  <1> USE ConstantsAssumption DEF Init
  <1>1. queue \in Seq(Tasks)
    BY EmptySeq
  <1> QED
    BY <1>1 DEF Control, TypeOK, JobInv, MutexInv

\* Control is inductive: no step of a worker, a caller, stop() or restart() breaks it.
LEMMA NextControl == Control /\ [Next]_vars => Control'
  <1> SUFFICES ASSUME Control, [Next]_vars
               PROVE Control'
    OBVIOUS
  <1> USE ConstantsAssumption DEF Control, TypeOK, JobInv, MutexInv, MutexFree
  <1>1. ASSUME NEW t \in Tasks, Check(t) PROVE Control'
    BY <1>1 DEF Check, MayCall
  <1>2. ASSUME NEW t \in Tasks, Throw(t) PROVE Control'
    BY <1>2 DEF Throw, MayCall
  <1>3. ASSUME NEW t \in Tasks, Push(t) PROVE Control'
    BY <1>3 DEF Push, Pushed
  <1>4. ASSUME NEW t \in Tasks, NotifyAll(t) PROVE Control'
    BY <1>4 DEF NotifyAll, WakeAll
  <1>5. ASSUME NEW w \in Workers, Take(w) PROVE Control'
    BY <1>5, HeadTailProperties DEF Take, Popped
  <1>6. ASSUME NEW w \in Workers, BeginWait(w) PROVE Control'
    BY <1>6 DEF BeginWait
  <1>7. ASSUME NEW w \in Workers, Block(w) PROVE Control'
    BY <1>7 DEF Block
  <1>8. ASSUME NEW w \in Workers, SpuriousWake(w) PROVE Control'
    BY <1>8 DEF SpuriousWake
  <1>9. ASSUME NEW w \in Workers, Finish(w) PROVE Control'
    BY <1>9 DEF Finish, Completed
  <1>10. CASE Stop
    BY <1>10 DEF Stop
  <1>11. CASE Restart
    BY <1>11 DEF Restart
  <1>12. CASE Destroy
    BY <1>12 DEF Destroy
  <1>13. CASE UNCHANGED vars
    BY <1>13 DEF vars
  <1> QED
    BY <1>1, <1>2, <1>3, <1>4, <1>5, <1>6, <1>7, <1>8, <1>9, <1>10, <1>11, <1>12, <1>13
       DEF Next, Worker, Acquire, Commit

\* Who holds the mutex and who has a task are always consistent.
THEOREM ControlInvariant == Spec => []Control
  BY InitControl, NextControl, PTL DEF Spec

\* Every variable keeps its type.
THEOREM TypeCorrect == Spec => []TypeOK
  BY ControlInvariant, PTL DEF Control

-----------------------------------------------------------------------------
(* No wakeup is lost                                                       *)

\* No step leaves a task in the queue that nobody is awake or about to be woken for.
LEMMA NextNoLostWakeup == Control /\ NoLostWakeup /\ [Next]_vars => NoLostWakeup'
  <1> SUFFICES ASSUME Control, NoLostWakeup, [Next]_vars
               PROVE NoLostWakeup'
    OBVIOUS
  <1> USE DEF Control, TypeOK, NoLostWakeup
  \* Steps that leave the queue and the two sets alone.
  <1>u. ASSUME UNCHANGED <<queue, Waiting, Notifying>> PROVE NoLostWakeup'
    BY <1>u
  <1>1. ASSUME NEW t \in Tasks, Check(t) PROVE NoLostWakeup'
    BY <1>1, <1>u DEF Check, MayCall, Waiting, Notifying
  <1>2. ASSUME NEW t \in Tasks, Throw(t) PROVE NoLostWakeup'
    BY <1>2, <1>u DEF Throw, MayCall, Waiting, Notifying
  <1>3. ASSUME NEW t \in Tasks, Push(t) PROVE NoLostWakeup'
    BY <1>3 DEF Push, Notifying
  <1>4. ASSUME NEW t \in Tasks, NotifyAll(t) PROVE NoLostWakeup'
    <2>1. Waiting' = {}
      BY <1>4 DEF NotifyAll, WakeAll, Waiting
    <2> QED
      BY <2>1
  <1>5. ASSUME NEW w \in Workers, Take(w) PROVE NoLostWakeup'
    <2>1. UNCHANGED <<Waiting, Notifying>> /\ queue # <<>>
      BY <1>5 DEF Take, Waiting, Notifying
    <2> QED
      BY <2>1
  <1>6. ASSUME NEW w \in Workers, BeginWait(w) PROVE NoLostWakeup'
    BY <1>6 DEF BeginWait
  <1>7. ASSUME NEW w \in Workers, Block(w) PROVE NoLostWakeup'
    BY <1>7 DEF Block, MutexInv
  <1>8. ASSUME NEW w \in Workers, SpuriousWake(w) PROVE NoLostWakeup'
    <2>1. Waiting' \subseteq Waiting /\ UNCHANGED <<queue, Notifying>>
      BY <1>8 DEF SpuriousWake, Waiting, Notifying
    <2> QED
      BY <2>1
  <1>9. ASSUME NEW w \in Workers, Finish(w) PROVE NoLostWakeup'
    BY <1>9, <1>u DEF Finish, Waiting, Notifying
  <1>10. CASE Stop
    BY <1>10, <1>u DEF Stop, Waiting, Notifying
  <1>11. CASE Restart
    BY <1>11, <1>u DEF Restart, Waiting, Notifying
  <1>12. CASE Destroy
    BY <1>12, <1>u DEF Destroy, Waiting, Notifying
  <1>13. CASE UNCHANGED vars
    BY <1>13, <1>u DEF vars, Waiting, Notifying
  <1> QED
    BY <1>1, <1>2, <1>3, <1>4, <1>5, <1>6, <1>7, <1>8, <1>9, <1>10, <1>11, <1>12, <1>13
       DEF Next, Worker, Acquire, Commit

\* No worker sleeps beside a queued task unless the notify_all of line 103 is
\* still to come.
THEOREM WakeupsArrive == Spec => []NoLostWakeup
  <1>1. Init => NoLostWakeup
    BY DEF Init, NoLostWakeup
  <1> QED
    BY <1>1, NextNoLostWakeup, ControlInvariant, PTL DEF Spec

-----------------------------------------------------------------------------
(* Every task is in one place                                              *)

\* A push, a take and the end of a task move it, and copy or drop none.
LEMMA NextTaskInOnePlace == Control /\ TaskInOnePlace /\ [Next]_vars => TaskInOnePlace'
  <1> SUFFICES ASSUME Control, TaskInOnePlace, [Next]_vars
               PROVE TaskInOnePlace'
    OBVIOUS
  <1> USE ConstantsAssumption DEF Control, TypeOK
  \* Steps that move no task.
  <1>u. ASSUME UNCHANGED <<queue, job, done, Accepted>>
        PROVE  TaskInOnePlace'
    BY <1>u DEF TaskInOnePlace, Queued, Running
  <1>1. ASSUME NEW t \in Tasks, Check(t) PROVE TaskInOnePlace'
    BY <1>1, <1>u DEF Check, MayCall, Accepted
  <1>2. ASSUME NEW t \in Tasks, Throw(t) PROVE TaskInOnePlace'
    BY <1>2, <1>u DEF Throw, MayCall, Accepted
  <1>3. ASSUME NEW t \in Tasks, Push(t) PROVE TaskInOnePlace'
    <2>1. Accepted' = Accepted \cup {t} /\ t \notin Accepted
      BY <1>3 DEF Push, Accepted
    <2>2. t \notin Queued /\ t \notin Running /\ t \notin done
      BY <2>1 DEF TaskInOnePlace
    <2>3. Queued' = Queued \cup {t} /\ IsInjective(queue)'
      BY <1>3, <2>2, AppendElements DEF Push, Pushed, Queued, TaskInOnePlace
    <2>4. Running' = Running /\ done' = done /\ job' = job
      BY <1>3 DEF Push, Running
    <2> QED
      BY <2>1, <2>2, <2>3, <2>4 DEF TaskInOnePlace
  <1>4. ASSUME NEW t \in Tasks, NotifyAll(t) PROVE TaskInOnePlace'
    BY <1>4, <1>u DEF NotifyAll, Accepted
  <1>5. ASSUME NEW w \in Workers, Take(w) PROVE TaskInOnePlace'
    <2> DEFINE t == Head(queue)
    <2>1. /\ Queued = Queued' \cup {t} /\ t \notin Queued' /\ t \in Tasks
          /\ IsInjective(queue)'
      BY <1>5, TailElements DEF Take, Popped, Queued, TaskInOnePlace
    <2>2. t \notin Running /\ t \notin done
      BY <2>1 DEF TaskInOnePlace
    <2>3. job[w] = None /\ job' = [job EXCEPT ![w] = t]
      BY <1>5 DEF Take, JobInv
    <2>4. Running' = Running \cup {t}
      BY <2>1, <2>3 DEF Running
    <2>5. \A v \in Workers : job[v] # t
      BY <2>1, <2>2 DEF Running
    <2>6. UNCHANGED <<done, Accepted>>
      BY <1>5 DEF Take, Accepted
    <2>7. \A u, v \in Workers : job'[u] = job'[v] /\ job'[u] # None => u = v
      BY <2>3, <2>5 DEF TaskInOnePlace
    <2> QED
      BY <2>1, <2>2, <2>4, <2>6, <2>7 DEF TaskInOnePlace
  <1>6. ASSUME NEW w \in Workers, BeginWait(w) PROVE TaskInOnePlace'
    BY <1>6, <1>u DEF BeginWait, Accepted
  <1>7. ASSUME NEW w \in Workers, Block(w) PROVE TaskInOnePlace'
    BY <1>7, <1>u DEF Block, Accepted
  <1>8. ASSUME NEW w \in Workers, SpuriousWake(w) PROVE TaskInOnePlace'
    BY <1>8, <1>u DEF SpuriousWake, Accepted
  <1>9. ASSUME NEW w \in Workers, Finish(w) PROVE TaskInOnePlace'
    <2>1. job[w] \in Tasks /\ job[w] \in Running
      BY <1>9 DEF Finish, JobInv, Running
    <2>2. Running' = Running \ {job[w]}
      <3>1. job' = [job EXCEPT ![w] = None]
        BY <1>9 DEF Finish
      <3>2. \A v \in Workers : job[v] = job[w] => v = w
        BY <2>1 DEF TaskInOnePlace
      <3> QED
        BY <2>1, <3>1, <3>2 DEF Running
    <2>3. done' = done \cup {job[w]}
      BY <1>9 DEF Finish, Completed
    <2>4. UNCHANGED <<queue, Queued, Accepted>>
      BY <1>9 DEF Finish, Queued, Accepted
    <2>5. \A u, v \in Workers : job'[u] = job'[v] /\ job'[u] # None => u = v
      BY <1>9 DEF Finish, TaskInOnePlace
    <2> QED
      BY <2>1, <2>2, <2>3, <2>4, <2>5 DEF TaskInOnePlace
  <1>10. CASE Stop
    BY <1>10, <1>u DEF Stop, Accepted
  <1>11. CASE Restart
    BY <1>11, <1>u DEF Restart, Accepted
  <1>12. CASE Destroy
    BY <1>12, <1>u DEF Destroy, Accepted
  <1>13. CASE UNCHANGED vars
    BY <1>13, <1>u DEF vars, Accepted
  <1> QED
    BY <1>1, <1>2, <1>3, <1>4, <1>5, <1>6, <1>7, <1>8, <1>9, <1>10, <1>11, <1>12, <1>13
       DEF Next, Worker, Acquire, Commit

\* Nothing commit() accepted is lost or run twice, however often the pool is
\* stopped and restarted.
THEOREM EveryTaskInOnePlace == Spec => []TaskInOnePlace
  <1>1. Init => TaskInOnePlace
    BY EmptyElements, ConstantsAssumption
       DEF Init, TaskInOnePlace, Queued, Running, Accepted
  <1> QED
    BY <1>1, NextTaskInOnePlace, ControlInvariant, PTL DEF Spec

-----------------------------------------------------------------------------
(* The pool implements the abstract executor                               *)

\* A pool that is being constructed is an executor that has accepted nothing.
LEMMA InitExecutor == Init => Executor!Init
  BY ConstantsAssumption DEF Init, Executor!Init, Running, Refused, Phase

\* Every step of the pool is one step of the executor, or none.
LEMMA NextExecutor ==
  Control /\ TaskInOnePlace /\ [Next]_vars => [Executor!Next]_(Executor!vars)
  <1> SUFFICES ASSUME Control, TaskInOnePlace, [Next]_vars
               PROVE  [Executor!Next]_(Executor!vars)
    OBVIOUS
  <1> USE ConstantsAssumption DEF Control, TypeOK
  <1>n. ASSUME NEW t \in Tasks, sub[t] \in {"idle", "checked"}
        PROVE  t \notin Executor!Submitted
    <2>1. t \notin Accepted /\ t \notin Refused
      BY <1>n DEF Accepted, Refused
    <2>2. t \notin ToSet(queue) \cup Running \cup done
      BY <2>1 DEF TaskInOnePlace, Queued
    <2> QED
      BY <2>1, <2>2 DEF Executor!Submitted, Executor!ToSet, ToSet
  \* Steps the executor does not see.
  <1>u. ASSUME UNCHANGED <<queue, job, done, Refused, Phase>>
        PROVE  UNCHANGED Executor!vars
    BY <1>u DEF Executor!vars, Running
  <1>1. ASSUME NEW t \in Tasks, Check(t) PROVE UNCHANGED Executor!vars
    BY <1>1, <1>u DEF Check, MayCall, Refused, Phase
  <1>2. ASSUME NEW t \in Tasks, Throw(t) PROVE Executor!Refuse(t)
    <2>1. t \notin Executor!Submitted
      BY <1>2, <1>n DEF Throw, MayCall
    <2>2. Phase = "closing" /\ UNCHANGED <<queue, Running, done, Phase>>
      BY <1>2 DEF Throw, Running, Phase
    <2>3. Refused' = Refused \cup {t}
      BY <1>2 DEF Throw, Refused
    <2> QED
      BY <2>1, <2>2, <2>3 DEF Executor!Refuse
  <1>3. ASSUME NEW t \in Tasks, Push(t) PROVE Executor!Accept(t)
    <2>1. t \notin Executor!Submitted
      BY <1>3, <1>n DEF Push
    <2>2. Phase \in {"open", "closing"} /\ queue' = Append(queue, t)
      BY <1>3 DEF Push, Pushed, Phase
    <2>3. UNCHANGED <<Running, done, Refused, Phase>>
      BY <1>3 DEF Push, Running, Refused, Phase
    <2> QED
      BY <2>1, <2>2, <2>3 DEF Executor!Accept
  <1>4. ASSUME NEW t \in Tasks, NotifyAll(t) PROVE UNCHANGED Executor!vars
    BY <1>4, <1>u DEF NotifyAll, Refused, Phase
  <1>5. ASSUME NEW w \in Workers, Take(w) PROVE Executor!Start
    <2>1. job[w] = None /\ Head(queue) \in Tasks /\ job' = [job EXCEPT ![w] = Head(queue)]
      BY <1>5, TailElements DEF Take, JobInv
    <2>2. Running' = Running \cup {Head(queue)}
      BY <2>1 DEF Running
    <2>3. /\ queue # <<>> /\ queue' = Tail(queue) /\ Phase # "closed"
          /\ UNCHANGED <<done, Refused, Phase>>
      BY <1>5 DEF Take, Popped, Refused, Phase
    <2> QED
      BY <2>2, <2>3 DEF Executor!Start
  <1>6. ASSUME NEW w \in Workers, BeginWait(w) PROVE UNCHANGED Executor!vars
    BY <1>6, <1>u DEF BeginWait, Refused, Phase
  <1>7. ASSUME NEW w \in Workers, Block(w) PROVE UNCHANGED Executor!vars
    BY <1>7, <1>u DEF Block, Refused, Phase
  <1>8. ASSUME NEW w \in Workers, SpuriousWake(w) PROVE UNCHANGED Executor!vars
    BY <1>8, <1>u DEF SpuriousWake, Refused, Phase
  <1>9. ASSUME NEW w \in Workers, Finish(w) PROVE job[w] \in Tasks /\ Executor!Finish(job[w])
    <2>1. job[w] \in Tasks /\ job[w] \in Running
      BY <1>9 DEF Finish, JobInv, Running
    <2>2. Running' = Running \ {job[w]}
      <3>1. job' = [job EXCEPT ![w] = None]
        BY <1>9 DEF Finish
      <3>2. \A v \in Workers : job[v] = job[w] => v = w
        BY <2>1 DEF TaskInOnePlace
      <3> QED
        BY <2>1, <3>1, <3>2 DEF Running
    <2>3. done' = done \cup {job[w]} /\ UNCHANGED <<queue, Refused, Phase>>
      BY <1>9 DEF Finish, Completed, Refused, Phase
    <2> QED
      BY <2>1, <2>2, <2>3 DEF Executor!Finish
  <1>10. ASSUME Stop PROVE Executor!Close
    <2>1. Phase = "open" /\ Phase' = "closing"
      BY <1>10 DEF Stop, Phase
    <2>2. UNCHANGED <<queue, Running, done, Refused>>
      BY <1>10 DEF Stop, Running, Refused
    <2> QED
      BY <2>1, <2>2 DEF Executor!Close
  <1>11. ASSUME Restart PROVE Executor!Reopen
    <2>1. Phase = "closing" /\ Phase' = "open"
      BY <1>11 DEF Restart, Phase
    <2>2. UNCHANGED <<queue, Running, done, Refused>>
      BY <1>11 DEF Restart, Running, Refused
    <2> QED
      BY <2>1, <2>2 DEF Executor!Reopen
  <1>12. ASSUME Destroy PROVE UNCHANGED Executor!vars
    BY <1>12, <1>u DEF Destroy, Refused, Phase
  <1>13. ASSUME UNCHANGED vars PROVE UNCHANGED Executor!vars
    BY <1>13, <1>u DEF vars, Refused, Phase
  <1> QED
    BY <1>1, <1>2, <1>3, <1>4, <1>5, <1>6, <1>7, <1>8, <1>9, <1>10, <1>11, <1>12, <1>13
       DEF Next, Worker, Acquire, Commit, Executor!Next

\* The pool of ThreadPool_v2.h is a FIFO executor that can be reopened, that
\* may accept late, and that abandons nothing.
THEOREM PoolImplementsExecutor == Spec => ImplementsExecutor
  BY InitExecutor, NextExecutor, ControlInvariant, EveryTaskInOnePlace,
     PTL DEF Spec, ImplementsExecutor, Executor!Spec
=============================================================================
