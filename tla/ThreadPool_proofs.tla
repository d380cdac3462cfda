------------------------- MODULE ThreadPool_proofs -------------------------
(***************************************************************************)
(* Proofs about ThreadPool (include/ThreadPool.h), for every number of     *)
(* workers and tasks and every nesting of submissions.                     *)
(***************************************************************************)
EXTENDS ThreadPool, SequenceLemmas, FiniteSetTheorems

\* A worker has a task from the moment it takes it until the task returns.
JobInv == \A w \in Workers : wpc[w] \in {"dec", "run"} <=> job[w] # None

\* The mutex is held across a step only by a worker about to wait; the queue
\* it saw is still empty, but the flag may have been set meanwhile.
MutexInv == \A w \in Workers : /\ wpc[w] = "block" <=> mutex = w
                               /\ wpc[w] = "block" => queue = <<>>

\* Once the destructor has begun the flag is set; workers leave only when it
\* is, and all of them have left when the pool is destroyed.
StopInv == dtor # "alive" => stoped
ExitInv == /\ \A w \in Workers : wpc[w] = "exit" => stoped
           /\ dtor = "destroyed" => \A w \in Workers : wpc[w] = "exit"

\* Who may be inside commit(): a client while the pool is alive, a task while
\* it runs.
CallInv == \A t \in Tasks : InCall(t) =>
             IF Parent[t] = None THEN dtor = "alive"
               ELSE \E w \in Workers : job[w] = Parent[t] /\ wpc[w] = "run"

Control == TypeOK /\ JobInv /\ MutexInv /\ StopInv /\ ExitInv

-----------------------------------------------------------------------------
\* A pool that is being constructed satisfies Control.
LEMMA InitControl == Init => Control
  <1> SUFFICES ASSUME Init PROVE Control
    OBVIOUS
  <1> USE ConstantsAssumption DEF Init
  <1>1. TypeOK
    <2>1. queue \in Seq(Tasks) /\ Cardinality(Workers) \in Int
      BY EmptySeq, FS_CardinalityType
    <2> QED
      BY <2>1 DEF TypeOK
  <1>2. JobInv /\ MutexInv /\ StopInv /\ ExitInv
    BY DEF JobInv, MutexInv, StopInv, ExitInv
  <1> QED
    BY <1>1, <1>2 DEF Control

\* Control is inductive: no step of a worker, a caller or the destructor breaks it.
LEMMA NextControl == Control /\ [Next]_vars => Control'
  <1> SUFFICES ASSUME Control, [Next]_vars
               PROVE Control'
    OBVIOUS
  <1> USE ConstantsAssumption DEF Control, TypeOK, JobInv, MutexInv, StopInv, ExitInv,
                              MutexFree, Pushed, Popped, Completed
  <1>1. ASSUME NEW t \in Tasks, Check(t) PROVE Control'
    BY <1>1 DEF Check, MayCall
  <1>2. ASSUME NEW t \in Tasks, Throw(t) PROVE Control'
    BY <1>2 DEF Throw, MayCall
  <1>3. ASSUME NEW t \in Tasks, Push(t) PROVE Control'
    BY <1>3 DEF Push
  <1>4. ASSUME NEW t \in Tasks, NotifyOne(t) PROVE Control'
    <2>1. CASE Waiting = {}
      BY <1>4, <2>1 DEF NotifyOne, WakeOne
    <2>2. CASE \E w \in Waiting : wpc' = [wpc EXCEPT ![w] = "lock"]
      BY <1>4, <2>2 DEF NotifyOne, Waiting
    <2> QED
      BY <1>4, <2>1, <2>2 DEF NotifyOne, WakeOne
  <1>5. ASSUME NEW w \in Workers, Again(w) PROVE Control'
    BY <1>5 DEF Again
  <1>6. ASSUME NEW w \in Workers, Leave(w) PROVE Control'
    BY <1>6 DEF Leave
  <1>7. ASSUME NEW w \in Workers, Take(w) PROVE Control'
    BY <1>7, HeadTailProperties DEF Take
  <1>8. ASSUME NEW w \in Workers, Exit(w) PROVE Control'
    BY <1>8 DEF Exit
  <1>9. ASSUME NEW w \in Workers, BeginWait(w) PROVE Control'
    BY <1>9 DEF BeginWait
  <1>10. ASSUME NEW w \in Workers, Block(w) PROVE Control'
    BY <1>10 DEF Block
  <1>11. ASSUME NEW w \in Workers, SpuriousWake(w) PROVE Control'
    BY <1>11 DEF SpuriousWake
  <1>12. ASSUME NEW w \in Workers, Decrement(w) PROVE Control'
    BY <1>12 DEF Decrement
  <1>13. ASSUME NEW w \in Workers, Finish(w) PROVE Control'
    BY <1>13 DEF Finish
  <1>14. ASSUME NEW w \in Workers, Increment(w) PROVE Control'
    BY <1>14 DEF Increment, IdleAgain
  <1>15. CASE Stop
    BY <1>15 DEF Stop
  <1>16. CASE StoreStop
    BY <1>16 DEF StoreStop
  <1>17. CASE NotifyAll
    BY <1>17 DEF NotifyAll
  <1>18. CASE Join
    BY <1>18 DEF Join
  <1>19. CASE UNCHANGED vars
    BY <1>19 DEF vars
  <1> QED
    BY <1>1, <1>2, <1>3, <1>4, <1>5, <1>6, <1>7, <1>8, <1>9, <1>10, <1>11, <1>12,
       <1>13, <1>14, <1>15, <1>16, <1>17, <1>18, <1>19
       DEF Next, Acquire, Own, Commit, Finished

\* Who holds the mutex, who has a task and how far the shutdown is are always
\* consistent with each other.
THEOREM ControlInvariant == Spec => []Control
  BY InitControl, NextControl, PTL DEF Spec

\* Every variable keeps its type.
THEOREM TypeCorrect == Spec => []TypeOK
  BY ControlInvariant, PTL DEF Control

-----------------------------------------------------------------------------
(* The count of idle workers                                               *)

Idle == {w \in Workers : wpc[w] \notin {"run", "inc"}}

\* Every step that changes _idlnum changes the set of idle workers with it.
LEMMA NextIdleExact == Control /\ IdleExact /\ [Next]_vars => IdleExact'
  <1> SUFFICES ASSUME Control, IdleExact, [Next]_vars
               PROVE idlnum' = Cardinality(Idle')
    BY DEF IdleExact, Idle
  <1> USE DEF Control, TypeOK
  <1>f. IsFiniteSet(Idle) /\ Cardinality(Idle) \in Nat /\ idlnum = Cardinality(Idle)
    <2>1. Idle \subseteq Workers
      BY DEF Idle
    <2> QED
      BY <2>1, FS_Subset, FS_CardinalityType, ConstantsAssumption DEF IdleExact, Idle
  <1>u. ASSUME UNCHANGED <<idlnum, Idle>> PROVE idlnum' = Cardinality(Idle')
    BY <1>u, <1>f
  <1>1. ASSUME NEW t \in Tasks, Check(t) PROVE idlnum' = Cardinality(Idle')
    BY <1>1, <1>u DEF Check, Idle
  <1>2. ASSUME NEW t \in Tasks, Throw(t) PROVE idlnum' = Cardinality(Idle')
    BY <1>2, <1>u DEF Throw, Idle
  <1>3. ASSUME NEW t \in Tasks, Push(t) PROVE idlnum' = Cardinality(Idle')
    BY <1>3, <1>u DEF Push, Idle
  <1>4. ASSUME NEW t \in Tasks, NotifyOne(t) PROVE idlnum' = Cardinality(Idle')
    BY <1>4, <1>u DEF NotifyOne, WakeOne, Waiting, Idle
  <1>5. ASSUME NEW w \in Workers, Again(w) PROVE idlnum' = Cardinality(Idle')
    BY <1>5, <1>u DEF Again, Idle
  <1>6. ASSUME NEW w \in Workers, Leave(w) PROVE idlnum' = Cardinality(Idle')
    BY <1>6, <1>u DEF Leave, Idle
  <1>7. ASSUME NEW w \in Workers, Take(w) PROVE idlnum' = Cardinality(Idle')
    BY <1>7, <1>u DEF Take, Idle
  <1>8. ASSUME NEW w \in Workers, Exit(w) PROVE idlnum' = Cardinality(Idle')
    BY <1>8, <1>u DEF Exit, Idle
  <1>9. ASSUME NEW w \in Workers, BeginWait(w) PROVE idlnum' = Cardinality(Idle')
    BY <1>9, <1>u DEF BeginWait, Idle
  <1>10. ASSUME NEW w \in Workers, Block(w) PROVE idlnum' = Cardinality(Idle')
    BY <1>10, <1>u DEF Block, Idle
  <1>11. ASSUME NEW w \in Workers, SpuriousWake(w) PROVE idlnum' = Cardinality(Idle')
    BY <1>11, <1>u DEF SpuriousWake, Idle
  <1>12. ASSUME NEW w \in Workers, Decrement(w) PROVE idlnum' = Cardinality(Idle')
    <2>1. Idle' = Idle \ {w} /\ w \in Idle
      BY <1>12 DEF Decrement, Idle
    <2>2. Cardinality(Idle') = Cardinality(Idle) - 1
      BY <2>1, <1>f, FS_RemoveElement
    <2> QED
      BY <1>12, <2>2, <1>f DEF Decrement
  <1>13. ASSUME NEW w \in Workers, Finish(w) PROVE idlnum' = Cardinality(Idle')
    BY <1>13, <1>u DEF Finish, Idle
  <1>14. ASSUME NEW w \in Workers, Increment(w) PROVE idlnum' = Cardinality(Idle')
    <2>1. Idle' = Idle \cup {w} /\ w \notin Idle
      BY <1>14 DEF Increment, Idle
    <2>2. Cardinality(Idle') = Cardinality(Idle) + 1
      BY <2>1, <1>f, FS_AddElement
    <2> QED
      BY <1>14, <2>2, <1>f DEF Increment, IdleAgain
  <1>15. CASE Stop
    BY <1>15, <1>u DEF Stop, Idle
  <1>16. CASE StoreStop
    BY <1>16, <1>u DEF StoreStop, Idle
  <1>17. CASE NotifyAll
    BY <1>17, <1>u DEF NotifyAll, Idle
  <1>18. CASE Join
    BY <1>18, <1>u DEF Join, Idle
  <1>19. CASE UNCHANGED vars
    BY <1>19, <1>u DEF vars, Idle
  <1> QED
    BY <1>1, <1>2, <1>3, <1>4, <1>5, <1>6, <1>7, <1>8, <1>9, <1>10, <1>11, <1>12,
       <1>13, <1>14, <1>15, <1>16, <1>17, <1>18, <1>19
       DEF Next, Acquire, Own, Commit, Finished

\* idle() counts exactly the workers outside the code between the decrement
\* (line 78) and the increment (line 81), whatever the interleaving.
THEOREM IdleCount == Spec => []IdleExact
  <1>1. Init => IdleExact
    <2> SUFFICES ASSUME Init PROVE IdleExact
      OBVIOUS
    <2>1. Workers = {w \in Workers : wpc[w] \notin {"run", "inc"}}
      BY DEF Init
    <2> QED
      BY <2>1 DEF Init, IdleExact
  <1> QED
    BY <1>1, NextIdleExact, ControlInvariant, PTL DEF Spec

-----------------------------------------------------------------------------
(* No wakeup is lost                                                       *)

\* What the wakeup rule counts are finite sets.
LEMMA FiniteCounts ==
  ASSUME Control
  PROVE  /\ IsFiniteSet(Notifying) /\ Cardinality(Notifying) \in Nat
         /\ IsFiniteSet(Looking) /\ Cardinality(Looking) \in Nat
         /\ Len(queue) \in Nat
  <1>1. Notifying \subseteq Tasks /\ Looking \subseteq Workers
    BY DEF Notifying, Looking
  <1>2. IsFiniteSet(Notifying) /\ IsFiniteSet(Looking)
    BY <1>1, FS_Subset, ConstantsAssumption
  <1> QED
    BY <1>2, FS_CardinalityType, LenProperties DEF Control, TypeOK

\* An empty queue needs nobody.
LEMMA EmptyIsCovered ==
  ASSUME queue' = <<>>
  PROVE  NoLostWakeup'
  <1>1. Len(queue') = 0
    BY EmptySeq
  <1>2. Cardinality(Notifying') \in Nat /\ Cardinality(Looking') \in Nat
    <2>1. Notifying' \subseteq Tasks /\ Looking' \subseteq Workers
      BY DEF Notifying, Looking
    <2> QED
      BY <2>1, FS_Subset, FS_CardinalityType, ConstantsAssumption
  <1> QED
    BY <1>1, <1>2 DEF NoLostWakeup

\* No step leaves a task in the queue that nobody is awake or about to be woken for.
LEMMA NextNoLostWakeup == Control /\ NoLostWakeup /\ [Next]_vars => NoLostWakeup'
  <1> SUFFICES ASSUME Control, NoLostWakeup, [Next]_vars
               PROVE NoLostWakeup'
    OBVIOUS
  <1> USE FiniteCounts DEF Control, TypeOK
  \* Steps that leave the queue, the flag and the three sets alone.
  <1>u. ASSUME UNCHANGED <<queue, stoped, Waiting, Looking, Notifying>>
        PROVE  NoLostWakeup'
    BY <1>u DEF NoLostWakeup
  \* Steps after which the pool is stopped.
  <1>s. ASSUME stoped' PROVE NoLostWakeup'
    BY <1>s DEF NoLostWakeup
  \* Steps by which one more worker is on its way to the queue.
  <1>l. ASSUME NEW w \in Workers, wpc[w] \notin {"top", "lock"},
               NEW l \in {"top", "lock"}, wpc' = [wpc EXCEPT ![w] = l]
        PROVE  /\ Cardinality(Looking') = Cardinality(Looking) + 1
               /\ Waiting' \subseteq Waiting
    <2>1. Looking' = Looking \cup {w} /\ w \notin Looking
      BY <1>l DEF Looking
    <2>2. Waiting' \subseteq Waiting
      BY <1>l DEF Waiting
    <2> QED
      BY <2>1, <2>2, FS_AddElement
  <1>m. ASSUME NEW w \in Workers, wpc[w] \notin {"top", "lock"},
               NEW l \in {"top", "lock"}, wpc' = [wpc EXCEPT ![w] = l],
               UNCHANGED <<queue, stoped, Notifying>>
        PROVE  NoLostWakeup'
    <2>1. /\ Cardinality(Looking') = Cardinality(Looking) + 1
          /\ Waiting' \subseteq Waiting
      BY <1>l, <1>m
    <2>2. CASE Waiting = {}
      <3>1. Waiting' = {}
        BY <2>1, <2>2
      <3> QED
        BY <3>1 DEF NoLostWakeup
    <2>3. CASE Waiting # {}
      BY <1>m, <2>1, <2>3 DEF NoLostWakeup
    <2> QED
      BY <2>2, <2>3
  <1>1. ASSUME NEW t \in Tasks, Check(t) PROVE NoLostWakeup'
    BY <1>1, <1>u DEF Check, MayCall, Waiting, Looking, Notifying
  <1>2. ASSUME NEW t \in Tasks, Throw(t) PROVE NoLostWakeup'
    BY <1>2, <1>u DEF Throw, MayCall, Waiting, Looking, Notifying
  <1>3. ASSUME NEW t \in Tasks, Push(t) PROVE NoLostWakeup'
    <2>1. Notifying' = Notifying \cup {t} /\ t \notin Notifying
      BY <1>3 DEF Push, Notifying
    <2>2. Cardinality(Notifying') = Cardinality(Notifying) + 1
      BY <2>1, FS_AddElement
    <2>3. Len(queue') = Len(queue) + 1
      BY <1>3, AppendProperties DEF Push, Pushed
    <2>4. UNCHANGED <<Waiting, Looking, stoped>>
      BY <1>3 DEF Push, Waiting, Looking
    <2> QED
      BY <2>2, <2>3, <2>4 DEF NoLostWakeup
  <1>4. ASSUME NEW t \in Tasks, NotifyOne(t) PROVE NoLostWakeup'
    <2>1. CASE Waiting = {}
      BY <1>4, <2>1 DEF NotifyOne, WakeOne, NoLostWakeup, Waiting
    <2>2. ASSUME NEW w \in Waiting, wpc' = [wpc EXCEPT ![w] = "lock"]
          PROVE  NoLostWakeup'
      <3>1. Notifying' = Notifying \ {t} /\ t \in Notifying
        BY <1>4 DEF NotifyOne, Notifying
      <3>2. Cardinality(Notifying') = Cardinality(Notifying) - 1
        BY <3>1, FS_RemoveElement
      <3>3. Cardinality(Looking') = Cardinality(Looking) + 1
        BY <2>2, <1>l DEF Waiting
      <3>4. Waiting # {} /\ UNCHANGED <<queue, stoped>>
        BY <1>4, <2>2 DEF NotifyOne
      <3> QED
        BY <3>2, <3>3, <3>4 DEF NoLostWakeup
    <2> QED
      BY <1>4, <2>1, <2>2 DEF NotifyOne, WakeOne
  <1>5. ASSUME NEW w \in Workers, Again(w) PROVE NoLostWakeup'
    BY <1>5, <1>u DEF Again, Waiting, Looking, Notifying
  <1>6. ASSUME NEW w \in Workers, Leave(w) PROVE NoLostWakeup'
    BY <1>6, <1>s DEF Leave
  <1>7. ASSUME NEW w \in Workers, Take(w) PROVE NoLostWakeup'
    <2>1. Looking' = Looking \ {w} /\ w \in Looking
      BY <1>7 DEF Take, Looking
    <2>2. Cardinality(Looking') = Cardinality(Looking) - 1
      BY <2>1, FS_RemoveElement
    <2>3. Len(queue') = Len(queue) - 1
      BY <1>7, HeadTailProperties DEF Take, Popped
    <2>4. UNCHANGED <<Waiting, Notifying, stoped>>
      BY <1>7 DEF Take, Waiting, Notifying
    <2> QED
      BY <2>2, <2>3, <2>4 DEF NoLostWakeup
  <1>8. ASSUME NEW w \in Workers, Exit(w) PROVE NoLostWakeup'
    BY <1>8, <1>s DEF Exit
  <1>9. ASSUME NEW w \in Workers, BeginWait(w) PROVE NoLostWakeup'
    BY <1>9, EmptyIsCovered DEF BeginWait
  <1>10. ASSUME NEW w \in Workers, Block(w) PROVE NoLostWakeup'
    BY <1>10, EmptyIsCovered DEF Block, MutexInv
  <1>11. ASSUME NEW w \in Workers, SpuriousWake(w) PROVE NoLostWakeup'
    <2>1. wpc[w] \notin {"top", "lock"} /\ wpc' = [wpc EXCEPT ![w] = "lock"]
      BY <1>11 DEF SpuriousWake
    <2>2. UNCHANGED <<queue, stoped, Notifying>>
      BY <1>11 DEF SpuriousWake, Notifying
    <2> QED
      BY <1>m, <2>1, <2>2
  <1>12. ASSUME NEW w \in Workers, Decrement(w) PROVE NoLostWakeup'
    BY <1>12, <1>u DEF Decrement, Waiting, Looking, Notifying
  <1>13. ASSUME NEW w \in Workers, Finish(w) PROVE NoLostWakeup'
    BY <1>13, <1>u DEF Finish, Waiting, Looking, Notifying
  <1>14. ASSUME NEW w \in Workers, Increment(w) PROVE NoLostWakeup'
    <2>1. wpc[w] \notin {"top", "lock"} /\ wpc' = [wpc EXCEPT ![w] = "top"]
      BY <1>14 DEF Increment
    <2>2. UNCHANGED <<queue, stoped, Notifying>>
      BY <1>14 DEF Increment, Notifying
    <2> QED
      BY <1>m, <2>1, <2>2
  <1>15. CASE Stop
    BY <1>15, <1>s DEF Stop
  <1>16. CASE StoreStop
    BY <1>16, <1>s DEF StoreStop
  <1>17. CASE NotifyAll
    BY <1>17, <1>s, StopInv DEF NotifyAll, StopInv
  <1>18. CASE Join
    BY <1>18, <1>s DEF Join, StopInv
  <1>19. CASE UNCHANGED vars
    BY <1>19, <1>u DEF vars, Waiting, Looking, Notifying
  <1> QED
    BY <1>1, <1>2, <1>3, <1>4, <1>5, <1>6, <1>7, <1>8, <1>9, <1>10, <1>11, <1>12,
       <1>13, <1>14, <1>15, <1>16, <1>17, <1>18, <1>19
       DEF Next, Acquire, Own, Commit, Finished

\* While the pool is open no wakeup is lost.  Stopping it is what breaks the
\* protocol: the flag is set without the mutex (lines 89 and 128).
THEOREM WakeupsArrive == Spec => []NoLostWakeup
  <1>1. Init => NoLostWakeup
    BY DEF Init, NoLostWakeup, Waiting
  <1> QED
    BY <1>1, NextNoLostWakeup, ControlInvariant, PTL DEF Spec

-----------------------------------------------------------------------------
(* Every task is in one place                                              *)

\* A push, a take and the end of a task move it, and copy or drop none.
LEMMA NextTaskInOnePlace == Control /\ TaskInOnePlace /\ [Next]_vars => TaskInOnePlace'
  <1> SUFFICES ASSUME Control, TaskInOnePlace, [Next]_vars
               PROVE TaskInOnePlace'
    OBVIOUS
  <1> USE ConstantsAssumption DEF Control, TypeOK
  \* Steps that move no task.
  <1>u. ASSUME UNCHANGED <<queue, job, done, Accepted>>
        PROVE  TaskInOnePlace'
    BY <1>u DEF TaskInOnePlace, Queued, Running
  <1>1. ASSUME NEW t \in Tasks, Check(t) PROVE TaskInOnePlace'
    BY <1>1, <1>u DEF Check, MayCall, Accepted
  <1>2. ASSUME NEW t \in Tasks, Throw(t) PROVE TaskInOnePlace'
    BY <1>2, <1>u DEF Throw, MayCall, Accepted
  <1>3. ASSUME NEW t \in Tasks, Push(t) PROVE TaskInOnePlace'
    <2>1. Accepted' = Accepted \cup {t} /\ t \notin Accepted
      BY <1>3 DEF Push, Accepted
    <2>2. t \notin Queued /\ t \notin Running /\ t \notin done
      BY <2>1 DEF TaskInOnePlace
    <2>3. Queued' = Queued \cup {t} /\ IsInjective(queue)'
      BY <1>3, <2>2, AppendElements DEF Push, Pushed, Queued, TaskInOnePlace
    <2>4. Running' = Running /\ done' = done /\ job' = job
      BY <1>3 DEF Push, Running
    <2> QED
      BY <2>1, <2>2, <2>3, <2>4 DEF TaskInOnePlace
  <1>4. ASSUME NEW t \in Tasks, NotifyOne(t) PROVE TaskInOnePlace'
    BY <1>4, <1>u DEF NotifyOne, Accepted
  <1>5. ASSUME NEW w \in Workers, Again(w) PROVE TaskInOnePlace'
    BY <1>5, <1>u DEF Again, Accepted
  <1>6. ASSUME NEW w \in Workers, Leave(w) PROVE TaskInOnePlace'
    BY <1>6, <1>u DEF Leave, Accepted
  <1>7. ASSUME NEW w \in Workers, Take(w) PROVE TaskInOnePlace'
    <2> DEFINE t == Head(queue)
    <2>1. /\ Queued = Queued' \cup {t} /\ t \notin Queued' /\ t \in Tasks
          /\ IsInjective(queue)'
      BY <1>7, TailElements DEF Take, Popped, Queued, TaskInOnePlace
    <2>2. job[w] = None
      BY <1>7 DEF Take, JobInv
    <2>3. t \notin Running /\ t \notin done
      BY <2>1 DEF TaskInOnePlace
    <2>4. Running' = Running \cup {t}
      <3>1. job' = [job EXCEPT ![w] = t]
        BY <1>7 DEF Take
      <3> QED
        BY <2>1, <2>2, <3>1 DEF Running
    <2>5. \A v \in Workers : job[v] # t
      BY <2>1, <2>3 DEF Running
    <2>6. UNCHANGED <<done, Accepted>>
      BY <1>7 DEF Take, Accepted
    <2>7. \A u, v \in Workers : job'[u] = job'[v] /\ job'[u] # None => u = v
      BY <1>7, <2>5 DEF Take, TaskInOnePlace
    <2> QED
      BY <2>1, <2>3, <2>4, <2>6, <2>7 DEF TaskInOnePlace
  <1>8. ASSUME NEW w \in Workers, Exit(w) PROVE TaskInOnePlace'
    BY <1>8, <1>u DEF Exit, Accepted
  <1>9. ASSUME NEW w \in Workers, BeginWait(w) PROVE TaskInOnePlace'
    BY <1>9, <1>u DEF BeginWait, Accepted
  <1>10. ASSUME NEW w \in Workers, Block(w) PROVE TaskInOnePlace'
    BY <1>10, <1>u DEF Block, Accepted
  <1>11. ASSUME NEW w \in Workers, SpuriousWake(w) PROVE TaskInOnePlace'
    BY <1>11, <1>u DEF SpuriousWake, Accepted
  <1>12. ASSUME NEW w \in Workers, Decrement(w) PROVE TaskInOnePlace'
    BY <1>12, <1>u DEF Decrement, Accepted
  <1>13. ASSUME NEW w \in Workers, Finish(w) PROVE TaskInOnePlace'
    <2>1. job[w] \in Tasks /\ job[w] \in Running
      BY <1>13 DEF Finish, JobInv, Running
    <2>2. Running' = Running \ {job[w]}
      <3>1. job' = [job EXCEPT ![w] = None]
        BY <1>13 DEF Finish
      <3>2. \A v \in Workers : job[v] = job[w] => v = w
        BY <2>1 DEF TaskInOnePlace
      <3> QED
        BY <2>1, <3>1, <3>2 DEF Running
    <2>3. done' = done \cup {job[w]}
      BY <1>13 DEF Finish, Completed
    <2>4. UNCHANGED <<queue, Queued, Accepted>>
      BY <1>13 DEF Finish, Queued, Accepted
    <2>5. \A u, v \in Workers : job'[u] = job'[v] /\ job'[u] # None => u = v
      BY <1>13 DEF Finish, TaskInOnePlace
    <2> QED
      BY <2>1, <2>2, <2>3, <2>4, <2>5 DEF TaskInOnePlace
  <1>14. ASSUME NEW w \in Workers, Increment(w) PROVE TaskInOnePlace'
    BY <1>14, <1>u DEF Increment, Accepted
  <1>15. CASE Stop
    BY <1>15, <1>u DEF Stop, Accepted
  <1>16. CASE StoreStop
    BY <1>16, <1>u DEF StoreStop, Accepted
  <1>17. CASE NotifyAll
    BY <1>17, <1>u DEF NotifyAll, Accepted
  <1>18. CASE Join
    BY <1>18, <1>u DEF Join, Accepted
  <1>19. CASE UNCHANGED vars
    BY <1>19, <1>u DEF vars, Accepted
  <1> QED
    BY <1>1, <1>2, <1>3, <1>4, <1>5, <1>6, <1>7, <1>8, <1>9, <1>10, <1>11, <1>12,
       <1>13, <1>14, <1>15, <1>16, <1>17, <1>18, <1>19
       DEF Next, Acquire, Own, Commit, Finished

\* Nothing commit() accepted is lost or run twice, stopped or not.
THEOREM EveryTaskInOnePlace == Spec => []TaskInOnePlace
  <1>1. Init => TaskInOnePlace
    BY EmptyElements, ConstantsAssumption
       DEF Init, TaskInOnePlace, Queued, Running, Accepted
  <1> QED
    BY <1>1, NextTaskInOnePlace, ControlInvariant, PTL DEF Spec

-----------------------------------------------------------------------------
(* The pool implements the abstract executor                               *)

\* A task that is submitting goes on running until its call returns.
LEMMA NextCallInv == Control /\ CallInv /\ [Next]_vars => CallInv'
  <1> DEFINE Entitled(t) == IF Parent[t] = None THEN dtor = "alive"
                              ELSE \E w \in Workers : job[w] = Parent[t] /\ wpc[w] = "run"
  <1> SUFFICES ASSUME Control, CallInv, [Next]_vars,
                      NEW t \in Tasks, InCall(t)'
               PROVE  Entitled(t)'
    BY DEF CallInv
  <1> USE ConstantsAssumption DEF Control, TypeOK, InCall, CallInv
  \* A step of a worker that is not running a task.
  <1>w. ASSUME InCall(t), UNCHANGED dtor,
               NEW v \in Workers, wpc[v] # "run",
               \A u \in Workers \ {v} : job'[u] = job[u] /\ wpc'[u] = wpc[u]
        PROVE  Entitled(t)'
    <2>1. ASSUME NEW u \in Workers, Parent[t] # None, job[u] = Parent[t], wpc[u] = "run"
          PROVE  job'[u] = Parent[t] /\ wpc'[u] = "run"
      BY <1>w, <2>1
    <2> QED
      BY <1>w, <2>1
  <1>1. CASE InCall(t) /\ UNCHANGED <<job, wpc, dtor>>
    BY <1>1
  <1>2. CASE Check(t)
    BY <1>2 DEF Check, MayCall
  <1>3. ASSUME InCall(t), NEW v \in Workers,
               \/ Take(v) \/ Exit(v) \/ BeginWait(v) \/ Again(v) \/ Leave(v)
               \/ Block(v) \/ SpuriousWake(v) \/ Decrement(v) \/ Increment(v)
        PROVE  Entitled(t)'
    <2>1. wpc[v] # "run" /\ UNCHANGED dtor
      BY <1>3 DEF Take, Exit, BeginWait, Again, Leave, Block, SpuriousWake, Decrement, Increment
    <2>2. \A u \in Workers \ {v} : job'[u] = job[u] /\ wpc'[u] = wpc[u]
      BY <1>3 DEF Take, Exit, BeginWait, Again, Leave, Block, SpuriousWake, Decrement, Increment
    <2> QED
      BY <1>3, <1>w, <2>1, <2>2
  <1>4. ASSUME InCall(t), NEW v \in Workers, Finish(v)
        PROVE  Entitled(t)'
    <2>1. Parent[t] # job[v] /\ UNCHANGED dtor
      BY <1>4 DEF Finish, Children
    <2>2. ASSUME NEW u \in Workers, Parent[t] # None, job[u] = Parent[t], wpc[u] = "run"
          PROVE  job'[u] = Parent[t] /\ wpc'[u] = "run"
      BY <1>4, <2>1, <2>2 DEF Finish
    <2> QED
      BY <1>4, <2>1, <2>2
  <1>5. ASSUME InCall(t), NEW u \in Tasks, NotifyOne(u)
        PROVE  Entitled(t)'
    <2>1. UNCHANGED <<job, dtor>>
      BY <1>5 DEF NotifyOne
    <2>2. \A v \in Workers : wpc[v] = "run" => wpc'[v] = "run"
      BY <1>5 DEF NotifyOne, WakeOne, Waiting
    <2> QED
      BY <1>5, <2>1, <2>2
  <1>6. CASE InCall(t) /\ StoreStop
    BY <1>6 DEF StoreStop
  <1>7. CASE InCall(t) /\ NotifyAll
    BY <1>7 DEF NotifyAll
  <1>8. CASE InCall(t) /\ Join
    BY <1>8 DEF Join
  <1>9. InCall(t) \/ Check(t)
    BY DEF Next, Acquire, Own, Commit, Finished, vars, Check, Throw, Push, NotifyOne, Stop,
           Again, Leave, Take, Exit, BeginWait, Block, SpuriousWake, Decrement, Finish,
           Increment, StoreStop, NotifyAll, Join
  <1>10. \/ UNCHANGED <<job, wpc, dtor>>
         \/ \E v \in Workers : \/ Take(v) \/ Exit(v) \/ BeginWait(v) \/ Again(v) \/ Leave(v)
                               \/ Block(v) \/ SpuriousWake(v) \/ Decrement(v) \/ Increment(v)
         \/ \E v \in Workers : Finish(v)
         \/ \E u \in Tasks : NotifyOne(u)
         \/ StoreStop \/ NotifyAll \/ Join
    BY DEF Next, Acquire, Own, Commit, Finished, vars, Check, Throw, Push, Stop
  <1> QED
    BY <1>1, <1>2, <1>3, <1>4, <1>5, <1>6, <1>7, <1>8, <1>9, <1>10

\* Only a client whose pool is alive, or a task that is running, is inside
\* commit(): nobody is left in it when the pool is destroyed.
THEOREM NobodyInCall == Spec => []CallInv
  <1>1. Init => CallInv
    BY DEF Init, CallInv, InCall
  <1> QED
    BY <1>1, NextCallInv, ControlInvariant, PTL DEF Spec

\* A pool that is being constructed is an executor that has accepted nothing.
LEMMA InitExecutor == Init => Executor!Init
  BY ConstantsAssumption DEF Init, Executor!Init, Running, Refused, Phase

\* Every step of the pool is one step of the executor, or none.
LEMMA NextExecutor ==
  Control /\ CallInv /\ TaskInOnePlace /\ [Next]_vars
    => [Executor!Next]_(Executor!vars)
  <1> SUFFICES ASSUME Control, CallInv, TaskInOnePlace, [Next]_vars
               PROVE  [Executor!Next]_(Executor!vars)
    OBVIOUS
  <1> USE ConstantsAssumption DEF Control, TypeOK
  <1>n. ASSUME NEW t \in Tasks, sub[t] \in {"idle", "checked"}
        PROVE  t \notin Executor!Submitted
    <2>1. t \notin Accepted /\ t \notin Refused
      BY <1>n DEF Accepted, Refused
    <2>2. t \notin ToSet(queue) \cup Running \cup done
      BY <2>1 DEF TaskInOnePlace, Queued
    <2> QED
      BY <2>1, <2>2 DEF Executor!Submitted, Executor!ToSet, ToSet
  \* Steps the executor does not see.
  <1>u. ASSUME UNCHANGED <<queue, job, done, Refused, Phase>>
        PROVE  UNCHANGED Executor!vars
    BY <1>u DEF Executor!vars, Running
  <1>1. ASSUME NEW t \in Tasks, Check(t) PROVE UNCHANGED Executor!vars
    BY <1>1, <1>u DEF Check, MayCall, Refused, Phase
  <1>2. ASSUME NEW t \in Tasks, Throw(t) PROVE Executor!Refuse(t)
    <2>1. t \notin Executor!Submitted
      BY <1>2, <1>n DEF Throw, MayCall
    <2>2. dtor # "destroyed"
      BY <1>2 DEF Throw, MayCall, ExitInv
    <2>3. Phase = "closing"
      BY <1>2, <2>2 DEF Throw, Phase
    <2>4. Refused' = Refused \cup {t}
      BY <1>2 DEF Throw, Refused
    <2>5. UNCHANGED <<queue, Running, done, Phase>>
      BY <1>2 DEF Throw, Running, Phase
    <2> QED
      BY <2>1, <2>3, <2>4, <2>5 DEF Executor!Refuse
  <1>3. ASSUME NEW t \in Tasks, Push(t) PROVE Executor!Accept(t)
    <2>1. t \notin Executor!Submitted
      BY <1>3, <1>n DEF Push
    <2>2. dtor # "destroyed"
      BY <1>3 DEF Push, CallInv, InCall, ExitInv
    <2>3. Phase \in {"open", "closing"} /\ queue' = Append(queue, t)
      BY <1>3, <2>2 DEF Push, Pushed, Phase
    <2>4. UNCHANGED <<Running, done, Refused, Phase>>
      BY <1>3 DEF Push, Running, Refused, Phase
    <2> QED
      BY <2>1, <2>3, <2>4 DEF Executor!Accept
  <1>4. ASSUME NEW t \in Tasks, NotifyOne(t) PROVE UNCHANGED Executor!vars
    BY <1>4, <1>u DEF NotifyOne, Refused, Phase
  <1>5. ASSUME NEW w \in Workers, Again(w) PROVE UNCHANGED Executor!vars
    BY <1>5, <1>u DEF Again, Refused, Phase
  <1>6. ASSUME NEW w \in Workers, Leave(w) PROVE UNCHANGED Executor!vars
    BY <1>6, <1>u DEF Leave, Refused, Phase
  <1>7. ASSUME NEW w \in Workers, Take(w) PROVE Executor!Start
    <2>1. job[w] = None /\ Head(queue) \in Tasks
      BY <1>7, TailElements DEF Take, JobInv
    <2>2. Running' = Running \cup {Head(queue)}
      <3>1. job' = [job EXCEPT ![w] = Head(queue)]
        BY <1>7 DEF Take
      <3> QED
        BY <2>1, <3>1 DEF Running
    <2>3. Phase # "closed"
      BY <1>7 DEF Take, Phase, ExitInv
    <2>4. queue # <<>> /\ queue' = Tail(queue) /\ UNCHANGED <<done, Refused, Phase>>
      BY <1>7 DEF Take, Popped, Refused, Phase
    <2> QED
      BY <2>2, <2>3, <2>4 DEF Executor!Start
  <1>8. ASSUME NEW w \in Workers, Exit(w) PROVE UNCHANGED Executor!vars
    BY <1>8, <1>u DEF Exit, Refused, Phase
  <1>9. ASSUME NEW w \in Workers, BeginWait(w) PROVE UNCHANGED Executor!vars
    BY <1>9, <1>u DEF BeginWait, Refused, Phase
  <1>10. ASSUME NEW w \in Workers, Block(w) PROVE UNCHANGED Executor!vars
    BY <1>10, <1>u DEF Block, Refused, Phase
  <1>11. ASSUME NEW w \in Workers, SpuriousWake(w) PROVE UNCHANGED Executor!vars
    BY <1>11, <1>u DEF SpuriousWake, Refused, Phase
  <1>12. ASSUME NEW w \in Workers, Decrement(w) PROVE UNCHANGED Executor!vars
    BY <1>12, <1>u DEF Decrement, Refused, Phase
  <1>13. ASSUME NEW w \in Workers, Finish(w) PROVE job[w] \in Tasks /\ Executor!Finish(job[w])
    <2>1. job[w] \in Tasks /\ job[w] \in Running
      BY <1>13 DEF Finish, JobInv, Running
    <2>2. Running' = Running \ {job[w]}
      <3>1. job' = [job EXCEPT ![w] = None]
        BY <1>13 DEF Finish
      <3>2. \A v \in Workers : job[v] = job[w] => v = w
        BY <2>1 DEF TaskInOnePlace
      <3> QED
        BY <2>1, <3>1, <3>2 DEF Running
    <2>3. done' = done \cup {job[w]} /\ UNCHANGED <<queue, Refused, Phase>>
      BY <1>13 DEF Finish, Completed, Refused, Phase
    <2> QED
      BY <2>1, <2>2, <2>3 DEF Executor!Finish
  <1>14. ASSUME NEW w \in Workers, Increment(w) PROVE UNCHANGED Executor!vars
    BY <1>14, <1>u DEF Increment, Refused, Phase
  <1>15. ASSUME Stop PROVE Executor!Close
    <2>1. Phase = "open" /\ Phase' = "closing"
      BY <1>15 DEF Stop, Phase
    <2>2. UNCHANGED <<queue, Running, done, Refused>>
      BY <1>15 DEF Stop, Running, Refused
    <2> QED
      BY <2>1, <2>2 DEF Executor!Close
  <1>16. ASSUME StoreStop PROVE Executor!Close \/ UNCHANGED Executor!vars
    <2>1. UNCHANGED <<queue, job, done, Running, Refused>> /\ Phase' = "closing"
      BY <1>16 DEF StoreStop, Running, Refused, Phase
    <2>2. Phase \in {"open", "closing"}
      BY <1>16 DEF StoreStop, Phase
    <2>3. CASE Phase = "open"
      BY <2>1, <2>3 DEF Executor!Close
    <2>4. CASE Phase = "closing"
      BY <2>1, <2>4, <1>u
    <2> QED
      BY <2>2, <2>3, <2>4
  <1>17. ASSUME NotifyAll PROVE UNCHANGED Executor!vars
    BY <1>17, <1>u DEF NotifyAll, Refused, Phase
  <1>18. ASSUME Join PROVE Executor!Terminate
    <2>1. Phase = "closing" /\ Phase' = "closed"
      BY <1>18 DEF Join, Phase, StopInv
    <2>2. Running = {}
      BY <1>18 DEF Join, JobInv, Running
    <2>3. UNCHANGED <<queue, Running, done, Refused>>
      BY <1>18 DEF Join, Running, Refused
    <2> QED
      BY <2>1, <2>2, <2>3 DEF Executor!Terminate
  <1>19. ASSUME UNCHANGED vars PROVE UNCHANGED Executor!vars
    BY <1>19, <1>u DEF vars, Refused, Phase
  <1> QED
    BY <1>1, <1>2, <1>3, <1>4, <1>5, <1>6, <1>7, <1>8, <1>9, <1>10, <1>11, <1>12,
       <1>13, <1>14, <1>15, <1>16, <1>17, <1>18, <1>19
       DEF Next, Acquire, Own, Commit, Finished, Executor!Next

\* The pool of ThreadPool.h is a FIFO executor that runs every task at most
\* once, one that may accept late and may abandon what it accepted.
THEOREM PoolImplementsExecutor == Spec => ImplementsExecutor
  BY InitExecutor, NextExecutor, ControlInvariant, NobodyInCall,
     EveryTaskInOnePlace, PTL DEF Spec, ImplementsExecutor, Executor!Spec
=============================================================================
