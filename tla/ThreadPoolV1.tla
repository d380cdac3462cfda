---------------------------- MODULE ThreadPoolV1 ----------------------------
(***************************************************************************)
(* ThreadPoolV1::ThreadPool of include/ThreadPool_V1.h: workers that share *)
(* a queue of tasks under one mutex and one condition variable, clients    *)
(* that call enqueue(), and the destructor.                                *)
(*                                                                         *)
(* A task stands for one call of enqueue(), made by a thread of the        *)
(* client, or by the task Parent[t] while a worker runs it.  C++ lets the  *)
(* destructor run only when no client thread is inside enqueue(); a task   *)
(* that is still running may call it, and is then the one that can throw.  *)
(*                                                                         *)
(* A critical section that only touches memory is one step, taken when the *)
(* mutex is free.  The exception is condition_variable::wait: a worker     *)
(* that finds its predicate false keeps the mutex for one more step, in    *)
(* which it is not yet waiting; a notification sent in between finds       *)
(* nobody.  Log output (print, lines 17-24 and 76) is left out.            *)
(***************************************************************************)
EXTENDS SequencesExt

CONSTANTS Workers,  \* the threads of _workers
          Tasks,    \* the calls of enqueue()
          Parent,   \* the task whose body makes the call, None for a client
          None

ASSUME ConstantsAssumption ==
  /\ IsFiniteSet(Workers) /\ Workers # {}
  /\ IsFiniteSet(Tasks)
  /\ None \notin Workers /\ None \notin Tasks
  /\ Parent \in [Tasks -> Tasks \cup {None}]

VARIABLES queue,  \* _tasks
          stop,   \* _stop
          mutex,  \* the worker holding _mutex across a step, or None
          wpc,    \* where each worker is
          job,    \* the local "task" of each worker
          sub,    \* where each call of enqueue() is
          done,   \* the tasks whose future is ready
          dtor    \* where the destructor is

vars == <<queue, stop, mutex, wpc, job, sub, done, dtor>>

Waiting   == {w \in Workers : wpc[w] = "wait"}   \* inside _cond.wait
Locking   == {w \in Workers : wpc[w] = "lock"}   \* about to lock _mutex
Notifying == {t \in Tasks : sub[t] = "notify"}   \* at the notify_one

Children(t) == {c \in Tasks : Parent[c] = t}
InCall(t) == sub[t] \in {"called", "notify"}

Init == /\ queue = <<>>
        /\ stop = FALSE
        /\ mutex = None
        /\ wpc = [w \in Workers |-> "lock"]
        /\ job = [w \in Workers |-> None]
        /\ sub = [t \in Tasks |-> "idle"]
        /\ done = {}
        /\ dtor = "alive"

-----------------------------------------------------------------------------
(* The decisions of the code, most with a faulty variant that a run is     *)
(* shown to tell from it.                                                  *)

\* Faulty variant: the critical sections do not lock.
NoLock == TRUE
MutexFree == mutex = None

\* Faulty variant: _stop is not tested.
AlwaysOpen == TRUE
Open == ~stop                              \* the test of line 40, negated

\* Faulty variant: front without pop.
KeptFront == queue
Popped == Tail(queue)                      \* line 80

MayExit == stop /\ queue = <<>>            \* line 77

\* Faulty variant: the task is called after it was moved away.
MovedFrom(w) == done \cup {None}
Completed(w) == done \cup {job[w]}         \* line 82

\* notify_one wakes one waiting worker, whichever, or nobody, line 46.
\* Faulty variant: it is not called.
WakeNobody == UNCHANGED wpc
WakeOne == IF Waiting = {}
             THEN UNCHANGED wpc
             ELSE \E w \in Waiting : wpc' = [wpc EXCEPT ![w] = "lock"]

-----------------------------------------------------------------------------
(* enqueue()                                                               *)

\* A client may call until it destroys the pool, a task while it runs, one
\* call after the other.
Call(t) == /\ sub[t] = "idle"
           /\ IF Parent[t] = None
                THEN dtor = "alive"
                ELSE /\ \E w \in Workers : job[w] = Parent[t]
                     /\ \A c \in Children(Parent[t]) : ~InCall(c)
           /\ sub' = [sub EXCEPT ![t] = "called"]
           /\ UNCHANGED <<queue, stop, mutex, wpc, job, done, dtor>>

\* The critical section of lines 39-44, when the pool is not stopped ...
Push(t) == /\ sub[t] = "called" /\ MutexFree /\ Open
           /\ queue' = Append(queue, t)
           /\ sub' = [sub EXCEPT ![t] = "notify"]
           /\ UNCHANGED <<stop, mutex, wpc, job, done, dtor>>

\* ... and when it is: the exception leaves the block and the call.
Throw(t) == /\ sub[t] = "called" /\ MutexFree /\ ~Open
            /\ sub' = [sub EXCEPT ![t] = "threw"]
            /\ UNCHANGED <<queue, stop, mutex, wpc, job, done, dtor>>

\* Line 46, without the mutex.
NotifyOne(t) == /\ sub[t] = "notify"
                /\ sub' = [sub EXCEPT ![t] = "returned"]
                /\ WakeOne
                /\ UNCHANGED <<queue, stop, mutex, job, done, dtor>>

-----------------------------------------------------------------------------
(* The loop of a worker                                                    *)

\* The predicate holds and there is a task: take the oldest, lines 75-80.
Take(w) == /\ wpc[w] = "lock" /\ MutexFree
           /\ queue # <<>>
           /\ job' = [job EXCEPT ![w] = Head(queue)]
           /\ queue' = Popped
           /\ wpc' = [wpc EXCEPT ![w] = "run"]
           /\ UNCHANGED <<stop, mutex, sub, done, dtor>>

\* Stopped and nothing left: return, lines 77-78.
Exit(w) == /\ wpc[w] = "lock" /\ MutexFree /\ MayExit
           /\ wpc' = [wpc EXCEPT ![w] = "exit"]
           /\ UNCHANGED <<queue, stop, mutex, job, sub, done, dtor>>

\* The predicate is false: the worker is going to wait, with the mutex held.
BeginWait(w) == /\ wpc[w] = "lock" /\ MutexFree
                /\ ~stop /\ queue = <<>>
                /\ mutex' = w
                /\ wpc' = [wpc EXCEPT ![w] = "block"]
                /\ UNCHANGED <<queue, stop, job, sub, done, dtor>>

\* Release the mutex and wait, in one step.
Block(w) == /\ wpc[w] = "block"
            /\ mutex' = None
            /\ wpc' = [wpc EXCEPT ![w] = "wait"]
            /\ UNCHANGED <<queue, stop, job, sub, done, dtor>>

SpuriousWake(w) == /\ wpc[w] = "wait"
                   /\ wpc' = [wpc EXCEPT ![w] = "lock"]
                   /\ UNCHANGED <<queue, stop, mutex, job, sub, done, dtor>>

\* task() at line 82 returns or throws: the packaged_task makes its future
\* ready.  The calls of enqueue() its body made have returned by then.
Finish(w) == /\ wpc[w] = "run"
             /\ \A c \in Children(job[w]) : ~InCall(c)
             /\ done' = Completed(w)
             /\ job' = [job EXCEPT ![w] = None]
             /\ wpc' = [wpc EXCEPT ![w] = "lock"]
             /\ UNCHANGED <<queue, stop, mutex, sub, dtor>>

-----------------------------------------------------------------------------
(* The destructor                                                          *)

\* Lines 91-94.  No client is inside enqueue() when it starts.
SetStop == /\ dtor = "alive" /\ MutexFree
           /\ \A t \in Tasks : Parent[t] = None => ~InCall(t)
           /\ stop' = TRUE
           /\ dtor' = "notify"
           /\ UNCHANGED <<queue, mutex, wpc, job, sub, done>>

\* notify_all at line 95, without the mutex.
NotifyAll == /\ dtor = "notify"
             /\ wpc' = [w \in Workers |-> IF wpc[w] = "wait" THEN "lock" ELSE wpc[w]]
             /\ dtor' = "join"
             /\ UNCHANGED <<queue, stop, mutex, job, sub, done>>

\* The last join of lines 96-99 returns, then the members are destroyed.
Join == /\ dtor = "join"
        /\ \A w \in Workers : wpc[w] = "exit"
        /\ dtor' = "destroyed"
        /\ UNCHANGED <<queue, stop, mutex, wpc, job, sub, done>>

\* With the pool gone nothing is left to do.
Finished == dtor = "destroyed" /\ UNCHANGED vars

-----------------------------------------------------------------------------
Acquire(w) == Take(w) \/ Exit(w) \/ BeginWait(w)

Worker(w) == Acquire(w) \/ Block(w) \/ SpuriousWake(w) \/ Finish(w)

Enqueue(t) == Call(t) \/ Push(t) \/ Throw(t) \/ NotifyOne(t)

Next == \/ \E w \in Workers : Worker(w)
        \/ \E t \in Tasks : Enqueue(t)
        \/ SetStop \/ NotifyAll \/ Join
        \/ Finished

Spec == Init /\ [][Next]_vars

(***************************************************************************)
(* The scheduler runs every thread, a thread that keeps asking for the     *)
(* mutex gets it in the end, and tasks end.  Nothing obliges a client to   *)
(* call enqueue() or to destroy the pool.                                  *)
(***************************************************************************)
Fairness ==
  /\ \A w \in Workers : SF_vars(Acquire(w)) /\ WF_vars(Block(w)) /\ WF_vars(Finish(w))
  /\ \A t \in Tasks : SF_vars(Push(t) \/ Throw(t)) /\ WF_vars(NotifyOne(t))
  /\ WF_vars(NotifyAll) /\ WF_vars(Join)

FairSpec == Spec /\ Fairness

-----------------------------------------------------------------------------
(* Properties                                                              *)

\* The type invariant.
TypeOK == /\ queue \in Seq(Tasks)
          /\ stop \in BOOLEAN
          /\ mutex \in Workers \cup {None}
          /\ wpc \in [Workers -> {"lock", "block", "wait", "run", "exit"}]
          /\ job \in [Workers -> Tasks \cup {None}]
          /\ sub \in [Tasks -> {"idle", "called", "notify", "returned", "threw"}]
          /\ done \subseteq Tasks
          /\ dtor \in {"alive", "notify", "join", "destroyed"}

Queued   == ToSet(queue)
Running  == {job[w] : w \in Workers} \ {None}
Accepted == {t \in Tasks : sub[t] \in {"notify", "returned"}}
Refused  == {t \in Tasks : sub[t] = "threw"}

\* A task is never lost and never run twice: what enqueue() accepted is in
\* exactly one place, once - in the queue, with one worker, or finished - and
\* what it did not accept is nowhere.
TaskInOnePlace ==
  /\ Queued \cup Running \cup done = Accepted
  /\ Queued \cap Running = {} /\ Queued \cap done = {} /\ Running \cap done = {}
  /\ IsInjective(queue)
  /\ \A v, w \in Workers : job[v] = job[w] /\ job[v] # None => v = w

\* No wakeup is lost: while some worker waits, every queued task is covered
\* by a notify_one still to come (line 46) or by a worker that is awake and
\* has not looked yet; and once the pool is stopped nobody waits unless the
\* destructor's notify_all (line 95) is still to come.
NoLostWakeup ==
  Waiting # {} =>
    /\ Len(queue) <= Cardinality(Notifying) + Cardinality(Locking)
    /\ stop => dtor = "notify"

\* The destructor drains: when it returns, every task ever accepted has run,
\* the ones enqueued by tasks during the shutdown included.
DrainedOnDestroy == dtor = "destroyed" => done = Accepted

\* The future enqueue() returned becomes ready, whatever happens to the pool.
EveryFutureReady == \A t \in Tasks : (sub[t] = "returned") ~> (t \in done)

\* A destructor that has started returns.
DestructorReturns == (dtor = "notify") ~> (dtor = "destroyed")

Phase == IF ~stop THEN "open" ELSE IF dtor = "destroyed" THEN "closed" ELSE "closing"

Executor == INSTANCE TaskExecutor WITH
  running <- Running, refused <- Refused, phase <- Phase,
  LateAccept <- FALSE, Abandons <- FALSE, Restarts <- FALSE

\* The pool is a task executor that never accepts a task once it is closing
\* and never ends with a task left.
ImplementsExecutor == Executor!Spec
=============================================================================
