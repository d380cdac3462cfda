----------------------------- MODULE ThreadPool -----------------------------
(***************************************************************************)
(* ThreadPool::ThreadPool of include/ThreadPool.h.  It differs from        *)
(* ThreadPoolV1 in three ways that matter: the flag _stoped is an atomic   *)
(* set without the mutex (by stop() and by the destructor); commit() tests *)
(* it before it locks; and the loop of a worker ends as soon as it is set, *)
(* whatever is in the queue.  A counter of idle workers is kept as well.   *)
(*                                                                         *)
(* Tasks, clients, nesting, critical sections and waiting are modelled as  *)
(* in ThreadPoolV1; log output (lines 26-33, 67, 71, 79) is left out.      *)
(***************************************************************************)
EXTENDS Integers, SequencesExt

CONSTANTS Workers,  \* the threads of _pool: at least one, line 54
          Tasks,    \* the calls of commit()
          Parent,   \* the task whose body makes the call, None for a client
          None

ASSUME ConstantsAssumption ==
  /\ IsFiniteSet(Workers) /\ Workers # {}
  /\ IsFiniteSet(Tasks)
  /\ None \notin Workers /\ None \notin Tasks
  /\ Parent \in [Tasks -> Tasks \cup {None}]

VARIABLES queue,   \* _tasks
          stoped,  \* _stoped
          idlnum,  \* _idlnum
          mutex,   \* the worker holding _mutex across a step, or None
          wpc,     \* where each worker is
          job,     \* the local "task" of each worker
          sub,     \* where each call of commit() is
          done,    \* the tasks whose future is ready
          dtor     \* where the destructor is

vars == <<queue, stoped, idlnum, mutex, wpc, job, sub, done, dtor>>

Waiting   == {w \in Workers : wpc[w] = "wait"}             \* inside _cond.wait
Looking   == {w \in Workers : wpc[w] \in {"top", "lock"}}  \* awake, to look at the queue
Notifying == {t \in Tasks : sub[t] = "notify"}             \* at the notify_one

Children(t) == {c \in Tasks : Parent[c] = t}
InCall(t) == sub[t] \in {"checked", "notify"}

\* The constructor: the workers start before it returns, but no task can be
\* committed yet, so _idlnum is still the size when it bounds the loop.
Init == /\ queue = <<>>
        /\ stoped = FALSE
        /\ idlnum = Cardinality(Workers)
        /\ mutex = None
        /\ wpc = [w \in Workers |-> "top"]
        /\ job = [w \in Workers |-> None]
        /\ sub = [t \in Tasks |-> "idle"]
        /\ done = {}
        /\ dtor = "alive"

-----------------------------------------------------------------------------
(* The decisions of the code, most with a faulty variant that a run is     *)
(* shown to tell from it.                                                  *)

MutexFree == mutex = None

\* Faulty variant: the newest task is taken first.
PushedInFront(t) == <<t>> \o queue
Pushed(t) == Append(queue, t)              \* line 121

Popped == Tail(queue)                      \* line 76

Completed(w) == done \cup {job[w]}         \* line 80

\* Faulty variant: the increment after the task is forgotten.
StillBusy == idlnum
IdleAgain == idlnum + 1                    \* line 81

\* notify_one wakes one waiting worker, whichever, or nobody, line 123.
\* Faulty variant: it is not called.
WakeNobody == UNCHANGED wpc
WakeOne == IF Waiting = {}
             THEN UNCHANGED wpc
             ELSE \E w \in Waiting : wpc' = [wpc EXCEPT ![w] = "lock"]

-----------------------------------------------------------------------------
(* commit() and stop()                                                     *)

\* A client may call until it destroys the pool, a task while it runs, one
\* call after the other.  The test of line 113 is made without the mutex.
MayCall(t) == /\ sub[t] = "idle"
              /\ IF Parent[t] = None
                   THEN dtor = "alive"
                   ELSE /\ \E w \in Workers : job[w] = Parent[t] /\ wpc[w] = "run"
                        /\ \A c \in Children(Parent[t]) : ~InCall(c)

Check(t) == /\ MayCall(t) /\ ~stoped
            /\ sub' = [sub EXCEPT ![t] = "checked"]
            /\ UNCHANGED <<queue, stoped, idlnum, mutex, wpc, job, done, dtor>>

Throw(t) == /\ MayCall(t) /\ stoped
            /\ sub' = [sub EXCEPT ![t] = "threw"]
            /\ UNCHANGED <<queue, stoped, idlnum, mutex, wpc, job, done, dtor>>

\* Lines 118-122: the flag may have been set since it was tested.
Push(t) == /\ sub[t] = "checked" /\ MutexFree
           /\ queue' = Pushed(t)
           /\ sub' = [sub EXCEPT ![t] = "notify"]
           /\ UNCHANGED <<stoped, idlnum, mutex, wpc, job, done, dtor>>

NotifyOne(t) == /\ sub[t] = "notify"
                /\ sub' = [sub EXCEPT ![t] = "returned"]
                /\ WakeOne
                /\ UNCHANGED <<queue, stoped, idlnum, mutex, job, done, dtor>>

\* stop() sets the flag and wakes nobody, line 128.
Stop == /\ dtor = "alive" /\ ~stoped
        /\ stoped' = TRUE
        /\ UNCHANGED <<queue, idlnum, mutex, wpc, job, sub, done, dtor>>

-----------------------------------------------------------------------------
(* The loop of a worker                                                    *)

\* The test of line 61.
Again(w) == /\ wpc[w] = "top" /\ ~stoped
            /\ wpc' = [wpc EXCEPT ![w] = "lock"]
            /\ UNCHANGED <<queue, stoped, idlnum, mutex, job, sub, done, dtor>>

Leave(w) == /\ wpc[w] = "top" /\ stoped
            /\ wpc' = [wpc EXCEPT ![w] = "exit"]
            /\ UNCHANGED <<queue, stoped, idlnum, mutex, job, sub, done, dtor>>

\* The predicate of line 68 holds and there is a task, lines 68-77.
Take(w) == /\ wpc[w] = "lock" /\ MutexFree
           /\ queue # <<>>
           /\ job' = [job EXCEPT ![w] = Head(queue)]
           /\ queue' = Popped
           /\ wpc' = [wpc EXCEPT ![w] = "dec"]
           /\ UNCHANGED <<stoped, idlnum, mutex, sub, done, dtor>>

\* Lines 69-73.
Exit(w) == /\ wpc[w] = "lock" /\ MutexFree
           /\ stoped /\ queue = <<>>
           /\ wpc' = [wpc EXCEPT ![w] = "exit"]
           /\ UNCHANGED <<queue, stoped, idlnum, mutex, job, sub, done, dtor>>

\* The predicate is false: the worker is going to wait, with the mutex held.
\* The flag may be set before it does.
BeginWait(w) == /\ wpc[w] = "lock" /\ MutexFree
                /\ ~stoped /\ queue = <<>>
                /\ mutex' = w
                /\ wpc' = [wpc EXCEPT ![w] = "block"]
                /\ UNCHANGED <<queue, stoped, idlnum, job, sub, done, dtor>>

Block(w) == /\ wpc[w] = "block"
            /\ mutex' = None
            /\ wpc' = [wpc EXCEPT ![w] = "wait"]
            /\ UNCHANGED <<queue, stoped, idlnum, job, sub, done, dtor>>

SpuriousWake(w) == /\ wpc[w] = "wait"
                   /\ wpc' = [wpc EXCEPT ![w] = "lock"]
                   /\ UNCHANGED <<queue, stoped, idlnum, mutex, job, sub, done, dtor>>

\* Line 78, after the mutex is released.
Decrement(w) == /\ wpc[w] = "dec"
                /\ idlnum' = idlnum - 1
                /\ wpc' = [wpc EXCEPT ![w] = "run"]
                /\ UNCHANGED <<queue, stoped, mutex, job, sub, done, dtor>>

\* task() at line 80 makes its future ready, with a value or an exception.
Finish(w) == /\ wpc[w] = "run"
             /\ \A c \in Children(job[w]) : ~InCall(c)
             /\ done' = Completed(w)
             /\ job' = [job EXCEPT ![w] = None]
             /\ wpc' = [wpc EXCEPT ![w] = "inc"]
             /\ UNCHANGED <<queue, stoped, idlnum, mutex, sub, dtor>>

Increment(w) == /\ wpc[w] = "inc"
                /\ idlnum' = IdleAgain
                /\ wpc' = [wpc EXCEPT ![w] = "top"]
                /\ UNCHANGED <<queue, stoped, mutex, job, sub, done, dtor>>

-----------------------------------------------------------------------------
(* The destructor                                                          *)

\* Line 89, without the mutex.  No client is inside commit() when it starts.
StoreStop == /\ dtor = "alive"
             /\ \A t \in Tasks : Parent[t] = None => ~InCall(t)
             /\ stoped' = TRUE
             /\ dtor' = "notify"
             /\ UNCHANGED <<queue, idlnum, mutex, wpc, job, sub, done>>

NotifyAll == /\ dtor = "notify"
             /\ wpc' = [w \in Workers |-> IF wpc[w] = "wait" THEN "lock" ELSE wpc[w]]
             /\ dtor' = "join"
             /\ UNCHANGED <<queue, stoped, idlnum, mutex, job, sub, done>>

\* The last join returns, then the members are destroyed: a task still in the
\* queue breaks its promise.
Join == /\ dtor = "join"
        /\ \A w \in Workers : wpc[w] = "exit"
        /\ dtor' = "destroyed"
        /\ UNCHANGED <<queue, stoped, idlnum, mutex, wpc, job, sub, done>>

Finished == dtor = "destroyed" /\ UNCHANGED vars

-----------------------------------------------------------------------------
Acquire(w) == Take(w) \/ Exit(w) \/ BeginWait(w)

Own(w) == Again(w) \/ Leave(w) \/ Block(w) \/ Decrement(w) \/ Finish(w) \/ Increment(w)

Commit(t) == Check(t) \/ Throw(t) \/ Push(t) \/ NotifyOne(t)

Next == \/ \E w \in Workers : Acquire(w) \/ Own(w) \/ SpuriousWake(w)
        \/ \E t \in Tasks : Commit(t)
        \/ Stop
        \/ StoreStop \/ NotifyAll \/ Join
        \/ Finished

Spec == Init /\ [][Next]_vars

\* As for ThreadPoolV1: threads run, the mutex is granted in the end, tasks
\* end; nobody has to call commit() or stop(), or to destroy the pool.
Fairness ==
  /\ \A w \in Workers : SF_vars(Acquire(w)) /\ WF_vars(Own(w))
  /\ \A t \in Tasks : SF_vars(Push(t)) /\ WF_vars(NotifyOne(t))
  /\ WF_vars(NotifyAll) /\ WF_vars(Join)

FairSpec == Spec /\ Fairness

-----------------------------------------------------------------------------
(* Properties                                                              *)

\* The type invariant.
TypeOK == /\ queue \in Seq(Tasks)
          /\ stoped \in BOOLEAN
          /\ idlnum \in Int
          /\ mutex \in Workers \cup {None}
          /\ wpc \in [Workers -> {"top", "lock", "block", "wait", "dec", "run", "inc", "exit"}]
          /\ job \in [Workers -> Tasks \cup {None}]
          /\ sub \in [Tasks -> {"idle", "checked", "notify", "returned", "threw"}]
          /\ done \subseteq Tasks
          /\ dtor \in {"alive", "notify", "join", "destroyed"}

Queued   == ToSet(queue)
Running  == {job[w] : w \in Workers} \ {None}
Accepted == {t \in Tasks : sub[t] \in {"notify", "returned"}}
Refused  == {t \in Tasks : sub[t] = "threw"}

\* What commit() accepted is in the queue, with one worker, or finished, and
\* only once; stopping loses nothing from these three places.
TaskInOnePlace ==
  /\ Queued \cup Running \cup done = Accepted
  /\ Queued \cap Running = {} /\ Queued \cap done = {} /\ Running \cap done = {}
  /\ IsInjective(queue)
  /\ \A v, w \in Workers : job[v] = job[w] /\ job[v] # None => v = w

\* While the pool is open no wakeup is lost: if a worker waits, every queued
\* task has a notify_one to come or a worker on its way to the queue.
NoLostWakeup ==
  ~stoped /\ Waiting # {} => Len(queue) <= Cardinality(Notifying) + Cardinality(Looking)

\* idle() is the number of workers outside lines 79-81, counted without a
\* lock: never negative, and back at the size of the pool when all is quiet,
\* a stopped pool included.
IdleExact == idlnum = Cardinality({w \in Workers : wpc[w] \notin {"run", "inc"}})

\* Unless the pool is stopped, the future commit() returned becomes ready.
ReadyUnlessStopped ==
  \A t \in Tasks : (sub[t] = "returned") ~> (t \in done \/ stoped)

Phase == IF ~stoped THEN "open" ELSE IF dtor = "destroyed" THEN "closed" ELSE "closing"

Executor == INSTANCE TaskExecutor WITH
  running <- Running, refused <- Refused, phase <- Phase,
  LateAccept <- TRUE, Abandons <- TRUE, Restarts <- FALSE

\* The pool is a FIFO executor, but one that may accept a task after it was
\* closed (the test of line 113 and the push of line 121 are two steps) and
\* that may end with tasks it never ran (line 61).
ImplementsExecutor == Executor!Spec

\* Refuted.  test_threadpool_v2 lets pool{4} go out of scope and returns
\* (test_threadpool.cpp:190-212), so the destructor must return.  The flag is
\* set without the mutex: a worker between its predicate and its wait misses
\* notify_all and is never woken.
DestructorReturns == (dtor = "notify") ~> (dtor = "destroyed")

\* Refuted.  test_threadpool_v0 calls stop() and then get() on every future
\* (test_threadpool.cpp:133-139), so a committed task must still be run.
\* Workers leave a stopped pool with tasks in its queue.
CommittedIsRun ==
  \A t \in Tasks : (sub[t] = "returned") ~> (t \in done \/ dtor # "alive")
=============================================================================
