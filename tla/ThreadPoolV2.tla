---------------------------- MODULE ThreadPoolV2 ----------------------------
(***************************************************************************)
(* ThreadPoolV2::ThreadPool of include/ThreadPool_v2.h.  The flag _stop    *)
(* only closes commit(), and restart() opens it again; workers never look  *)
(* at it and never end, so neither does the destructor, which joins them.  *)
(* commit() tests the flag before it locks and wakes every waiting worker. *)
(*                                                                         *)
(* Tasks, clients, nesting, critical sections and waiting are modelled as  *)
(* in ThreadPoolV1.  A task in the queue is never an empty std::function,  *)
(* so the else branch of schedule() (lines 52-55) is not reached.          *)
(***************************************************************************)
EXTENDS SequencesExt

CONSTANTS Workers,  \* the threads of _pool: at least one, line 63
          Tasks,    \* the calls of commit()
          Parent,   \* the task whose body makes the call, None for a client
          None

ASSUME ConstantsAssumption ==
  /\ IsFiniteSet(Workers) /\ Workers # {}
  /\ IsFiniteSet(Tasks)
  /\ None \notin Workers /\ None \notin Tasks
  /\ Parent \in [Tasks -> Tasks \cup {None}]

VARIABLES queue,  \* _tasks
          stop,   \* _stop
          mutex,  \* the worker holding _mutex across a step, or None
          wpc,    \* where each worker is
          job,    \* the local "task" of each worker
          sub,    \* where each call of commit() is
          done,   \* the tasks whose future is ready
          dtor    \* "alive", or "join" once the destructor runs

vars == <<queue, stop, mutex, wpc, job, sub, done, dtor>>

Waiting   == {w \in Workers : wpc[w] = "wait"}   \* inside _cond.wait
Notifying == {t \in Tasks : sub[t] = "notify"}   \* at the notify_all

Children(t) == {c \in Tasks : Parent[c] = t}
InCall(t) == sub[t] \in {"checked", "notify"}

Init == /\ queue = <<>>
        /\ stop = FALSE
        /\ mutex = None
        /\ wpc = [w \in Workers |-> "lock"]
        /\ job = [w \in Workers |-> None]
        /\ sub = [t \in Tasks |-> "idle"]
        /\ done = {}
        /\ dtor = "alive"

-----------------------------------------------------------------------------
(* The decisions of the code, most with a faulty variant that a run is     *)
(* shown to tell from it.                                                  *)

\* Faulty variant: the critical sections do not lock.
NoLock == TRUE
MutexFree == mutex = None

\* Faulty variant: the newest task is taken first.
PushedInFront(t) == <<t>> \o queue
Pushed(t) == Append(queue, t)              \* line 101

Popped == Tail(queue)                      \* line 40

Completed(w) == done \cup {job[w]}         \* line 50

\* notify_all at line 103.
\* Faulty variant: it is not called.
WakeNobody == UNCHANGED wpc
WakeAll == wpc' = [w \in Workers |-> IF wpc[w] = "wait" THEN "lock" ELSE wpc[w]]

-----------------------------------------------------------------------------
(* commit(), stop() and restart()                                          *)

\* A client may call until it destroys the pool, a task while it runs, one
\* call after the other.  The test of line 93 is made without the mutex.
MayCall(t) == /\ sub[t] = "idle"
              /\ IF Parent[t] = None
                   THEN dtor = "alive"
                   ELSE /\ \E w \in Workers : job[w] = Parent[t]
                        /\ \A c \in Children(Parent[t]) : ~InCall(c)

Check(t) == /\ MayCall(t) /\ ~stop
            /\ sub' = [sub EXCEPT ![t] = "checked"]
            /\ UNCHANGED <<queue, stop, mutex, wpc, job, done, dtor>>

Throw(t) == /\ MayCall(t) /\ stop
            /\ sub' = [sub EXCEPT ![t] = "threw"]
            /\ UNCHANGED <<queue, stop, mutex, wpc, job, done, dtor>>

\* Lines 99-102: the flag may have been set since it was tested.
Push(t) == /\ sub[t] = "checked" /\ MutexFree
           /\ queue' = Pushed(t)
           /\ sub' = [sub EXCEPT ![t] = "notify"]
           /\ UNCHANGED <<stop, mutex, wpc, job, done, dtor>>

\* Lines 103-105.  The task may have run already when its future is taken
\* from the packaged_task; the result is there to be found.
NotifyAll(t) == /\ sub[t] = "notify"
                /\ sub' = [sub EXCEPT ![t] = "returned"]
                /\ WakeAll
                /\ UNCHANGED <<queue, stop, mutex, job, done, dtor>>

Stop == /\ dtor = "alive" /\ ~stop
        /\ stop' = TRUE
        /\ UNCHANGED <<queue, mutex, wpc, job, sub, done, dtor>>

Restart == /\ dtor = "alive" /\ stop
           /\ stop' = FALSE
           /\ UNCHANGED <<queue, mutex, wpc, job, sub, done, dtor>>

-----------------------------------------------------------------------------
(* schedule(): get_one_task() and the call of the task, for ever           *)

Take(w) == /\ wpc[w] = "lock" /\ MutexFree
           /\ queue # <<>>
           /\ job' = [job EXCEPT ![w] = Head(queue)]
           /\ queue' = Popped
           /\ wpc' = [wpc EXCEPT ![w] = "run"]
           /\ UNCHANGED <<stop, mutex, sub, done, dtor>>

\* The predicate is false: the worker is going to wait, with the mutex held.
BeginWait(w) == /\ wpc[w] = "lock" /\ MutexFree
                /\ queue = <<>>
                /\ mutex' = w
                /\ wpc' = [wpc EXCEPT ![w] = "block"]
                /\ UNCHANGED <<queue, stop, job, sub, done, dtor>>

Block(w) == /\ wpc[w] = "block"
            /\ mutex' = None
            /\ wpc' = [wpc EXCEPT ![w] = "wait"]
            /\ UNCHANGED <<queue, stop, job, sub, done, dtor>>

SpuriousWake(w) == /\ wpc[w] = "wait"
                   /\ wpc' = [wpc EXCEPT ![w] = "lock"]
                   /\ UNCHANGED <<queue, stop, mutex, job, sub, done, dtor>>

Finish(w) == /\ wpc[w] = "run"
             /\ \A c \in Children(job[w]) : ~InCall(c)
             /\ done' = Completed(w)
             /\ job' = [job EXCEPT ![w] = None]
             /\ wpc' = [wpc EXCEPT ![w] = "lock"]
             /\ UNCHANGED <<queue, stop, mutex, sub, dtor>>

\* The destructor: join a worker, lines 70-77.  No worker has an end to reach.
Destroy == /\ dtor = "alive"
           /\ \A t \in Tasks : Parent[t] = None => ~InCall(t)
           /\ dtor' = "join"
           /\ UNCHANGED <<queue, stop, mutex, wpc, job, sub, done>>

-----------------------------------------------------------------------------
Acquire(w) == Take(w) \/ BeginWait(w)

Worker(w) == Acquire(w) \/ Block(w) \/ SpuriousWake(w) \/ Finish(w)

Commit(t) == Check(t) \/ Throw(t) \/ Push(t) \/ NotifyAll(t)

Next == \/ \E w \in Workers : Worker(w)
        \/ \E t \in Tasks : Commit(t)
        \/ Stop \/ Restart \/ Destroy

Spec == Init /\ [][Next]_vars

\* As for ThreadPoolV1; nobody has to call commit(), stop() or restart(), or
\* to destroy the pool.
Fairness ==
  /\ \A w \in Workers : SF_vars(Acquire(w)) /\ WF_vars(Block(w)) /\ WF_vars(Finish(w))
  /\ \A t \in Tasks : SF_vars(Push(t)) /\ WF_vars(NotifyAll(t))

FairSpec == Spec /\ Fairness

-----------------------------------------------------------------------------
(* Properties                                                              *)

\* The type invariant.
TypeOK == /\ queue \in Seq(Tasks)
          /\ stop \in BOOLEAN
          /\ mutex \in Workers \cup {None}
          /\ wpc \in [Workers -> {"lock", "block", "wait", "run"}]
          /\ job \in [Workers -> Tasks \cup {None}]
          /\ sub \in [Tasks -> {"idle", "checked", "notify", "returned", "threw"}]
          /\ done \subseteq Tasks
          /\ dtor \in {"alive", "join"}

Queued   == ToSet(queue)
Running  == {job[w] : w \in Workers} \ {None}
Accepted == {t \in Tasks : sub[t] \in {"notify", "returned"}}
Refused  == {t \in Tasks : sub[t] = "threw"}

\* What commit() accepted is in the queue, with one worker, or finished, and
\* only once, however often the pool is stopped and restarted.
TaskInOnePlace ==
  /\ Queued \cup Running \cup done = Accepted
  /\ Queued \cap Running = {} /\ Queued \cap done = {} /\ Running \cap done = {}
  /\ IsInjective(queue)
  /\ \A v, w \in Workers : job[v] = job[w] /\ job[v] # None => v = w

\* No wakeup is lost: a worker waits beside a queued task only until the
\* notify_all of line 103 that is on its way.
NoLostWakeup == Waiting # {} /\ queue # <<>> => Notifying # {}

\* stop() closes commit() only: every task it let in is run, stopped or not,
\* and even while the destructor waits.
EveryFutureReady == \A t \in Tasks : (sub[t] = "returned") ~> (t \in done)

Phase == IF stop THEN "closing" ELSE "open"

Executor == INSTANCE TaskExecutor WITH
  running <- Running, refused <- Refused, phase <- Phase,
  LateAccept <- TRUE, Abandons <- FALSE, Restarts <- TRUE

\* The pool is a FIFO executor that can be reopened and that may accept a
\* task after it was closed (lines 93 and 101 are two steps).
ImplementsExecutor == Executor!Spec

\* Refuted.  test_threadpool_v2 lets executor{10} go out of scope and returns
\* (test_threadpool.cpp:174-212), so the workers the destructor joins must
\* leave the loop of schedule().  It has no exit.
WorkersEnd ==
  (dtor = "join") ~> (\A w \in Workers : wpc[w] \notin {"lock", "block", "wait", "run"})
=============================================================================
