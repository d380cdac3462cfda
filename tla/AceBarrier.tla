----------------------------- MODULE AceBarrier -----------------------------
(***************************************************************************)
(* Barrier_Task of source/test_ace_task2.cpp: n_threads threads meet       *)
(* n_iterations times at a barrier and then leave; close() counts the      *)
(* threads that believe to be the last one.                                *)
(*                                                                         *)
(* ACE_Barrier keeps two counters and uses them in turn, so that a thread  *)
(* may be back at the barrier while others have not left it yet.  The last *)
(* to arrive resets the counter of its turn, which lets the others go.     *)
(* When a thread leaves svc(), ACE decrements thr_count_ under the lock of *)
(* the task, makes it last_thread() if the count is 0, and then, without   *)
(* the lock, calls close().                                                *)
(***************************************************************************)
EXTENDS Naturals, FiniteSets

CONSTANTS Threads,
          NIterations,  \* n_iterations
          None

VARIABLES iter,      \* iterations in svc()
          running,   \* running_threads_ of the two halves of barrier_
          gen,       \* current_generation_ of barrier_
          half,      \* the half each thread waits at
          pc,        \* where each thread is
          thrCount,  \* thr_count_
          last,      \* last_thread()
          cleanups,  \* close_cleanups
          main       \* "off", "wait" at line 63, or "done"

vars == <<iter, running, gen, half, pc, thrCount, last, cleanups, main>>

\* on is FALSE if this program is not the one that runs.
Launched(on) == /\ iter = [t \in Threads |-> 1]
                /\ running = [g \in 0 .. 1 |-> Cardinality(Threads)]
                /\ gen = 0
                /\ half = [t \in Threads |-> 0]
                /\ pc = [t \in Threads |-> IF on THEN "svc" ELSE "off"]
                /\ thrCount = Cardinality(Threads)
                /\ last = None
                /\ cleanups = 0
                /\ main = IF on THEN "wait" ELSE "off"

\* Faulty variant: the barrier opens one thread too early.
AlmostAllIn == running[gen] <= 2
AllIn == running[gen] = 1

\* Faulty variant: the generations are counted on, not used in turn.
CountedOn == gen + 1
NextGen == 1 - gen

\* The test of close(), line 37.
\* Faulty variant: the count is asked, not who brought it to 0.
CountIsZero(t) == thrCount = 0
IsLast(t) == last = t

-----------------------------------------------------------------------------
\* Line 50: wait for the others, or let them go.
Arrive(t) == /\ pc[t] = "svc" /\ iter[t] <= NIterations /\ ~AllIn
             /\ running' = [running EXCEPT ![gen] = @ - 1]
             /\ half' = [half EXCEPT ![t] = gen]
             /\ pc' = [pc EXCEPT ![t] = "barrier"]
             /\ UNCHANGED <<iter, gen, thrCount, last, cleanups, main>>

Open(t) == /\ pc[t] = "svc" /\ iter[t] <= NIterations /\ AllIn
           /\ running' = [running EXCEPT ![gen] = Cardinality(Threads)]
           /\ gen' = NextGen
           /\ iter' = [iter EXCEPT ![t] = @ + 1]
           /\ UNCHANGED <<half, pc, thrCount, last, cleanups, main>>

Pass(t) == /\ pc[t] = "barrier" /\ running[half[t]] = Cardinality(Threads)
           /\ iter' = [iter EXCEPT ![t] = @ + 1]
           /\ pc' = [pc EXCEPT ![t] = "svc"]
           /\ UNCHANGED <<running, gen, half, thrCount, last, cleanups, main>>

\* The end of svc().
Cleanup(t) == /\ pc[t] = "svc" /\ iter[t] > NIterations
              /\ thrCount' = thrCount - 1
              /\ last' = IF thrCount' = 0 THEN t ELSE last
              /\ pc' = [pc EXCEPT ![t] = "close"]
              /\ UNCHANGED <<iter, running, gen, half, cleanups, main>>

\* Lines 35-42.
Close(t) == /\ pc[t] = "close"
            /\ cleanups' = IF IsLast(t) THEN cleanups + 1 ELSE cleanups
            /\ pc' = [pc EXCEPT ![t] = "ended"]
            /\ UNCHANGED <<iter, running, gen, half, thrCount, last, main>>

\* Line 63.
Wait == /\ main = "wait"
        /\ \A t \in Threads : pc[t] = "ended"
        /\ main' = "done"
        /\ UNCHANGED <<iter, running, gen, half, pc, thrCount, last, cleanups>>

-----------------------------------------------------------------------------
Thread(t) == Arrive(t) \/ Open(t) \/ Pass(t) \/ Cleanup(t) \/ Close(t)

Next == (\E t \in Threads : Thread(t)) \/ Wait

\* Threads run.
Fairness == WF_vars(Wait) /\ \A t \in Threads : WF_vars(Thread(t))

-----------------------------------------------------------------------------
TypeOK == /\ iter \in [Threads -> 1 .. NIterations + 1]
          /\ running \in [0 .. 1 -> 1 .. Cardinality(Threads)]
          /\ gen \in 0 .. 1 /\ half \in [Threads -> 0 .. 1]
          /\ pc \in [Threads -> {"off", "svc", "barrier", "close", "ended"}]
          /\ thrCount \in 0 .. Cardinality(Threads)
          /\ last \in Threads \cup {None}
          /\ cleanups \in Nat
          /\ main \in {"off", "wait", "done"}

\* The threads go in step: one is ahead of another only while the other is
\* being let out of the barrier, and by one iteration at most.
InStep == \A t, u \in Threads :
  iter[t] > iter[u] => iter[t] = iter[u] + 1 /\ pc[u] = "barrier"

\* "only one of the threads should see a cleanup", lines 65-66.
OneCleanup == main = "done" => cleanups = 1
=============================================================================
