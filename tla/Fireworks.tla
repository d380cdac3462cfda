----------------------------- MODULE Fireworks -----------------------------
(***************************************************************************)
(* fireworks() and test_mtx() of source/test_thread.cpp: threads that try  *)
(* to lock and increment a volatile counter when they succeed.  try_lock   *)
(* may fail although the mutex is free.  Iterations stands for 10000.      *)
(***************************************************************************)
EXTENDS Naturals, FiniteSets

CONSTANTS Threads, Iterations, None

VARIABLES mtx,      \* the owner of mtx, or None
          counter,  \* counter
          seen,     \* what each thread has read of counter, to increment it
          i,        \* the loop variable of each thread
          locked,   \* how often try_lock has succeeded: not in the code
          pc        \* where each thread is

vars == <<mtx, counter, seen, i, locked, pc>>

\* on is FALSE if this program is not the one that runs.
Launched(on) == /\ mtx = None /\ counter = 0 /\ locked = 0
                /\ seen = [t \in Threads |-> 0]
                /\ i = [t \in Threads |-> 0]
                /\ pc = [t \in Threads |-> IF on THEN "try" ELSE "off"]

Free == mtx = None   \* line 155

NextIteration(t) ==
  /\ i' = [i EXCEPT ![t] = @ + 1]
  /\ pc' = [pc EXCEPT ![t] = IF i'[t] < Iterations THEN "try" ELSE "ended"]

\* Line 155.
TryLock(t) == /\ pc[t] = "try" /\ Free
              /\ mtx' = t /\ locked' = locked + 1
              /\ pc' = [pc EXCEPT ![t] = "read"]
              /\ UNCHANGED <<counter, seen, i>>

TryLockFails(t) == /\ pc[t] = "try"
                   /\ NextIteration(t)
                   /\ UNCHANGED <<mtx, counter, seen, locked>>

\* Line 157, a read and a write.
Read(t) == /\ pc[t] = "read"
           /\ seen' = [seen EXCEPT ![t] = counter]
           /\ pc' = [pc EXCEPT ![t] = "write"]
           /\ UNCHANGED <<mtx, counter, i, locked>>

Write(t) == /\ pc[t] = "write"
            /\ counter' = seen[t] + 1
            /\ pc' = [pc EXCEPT ![t] = "unlock"]
            /\ UNCHANGED <<mtx, seen, i, locked>>

\* Line 158.
Unlock(t) == /\ pc[t] = "unlock"
             /\ mtx' = None
             /\ NextIteration(t)
             /\ UNCHANGED <<counter, seen, locked>>

Thread(t) == TryLock(t) \/ TryLockFails(t) \/ Read(t) \/ Write(t) \/ Unlock(t)

Next == \E t \in Threads : Thread(t)

Fairness == \A t \in Threads : WF_vars(Thread(t))

TypeOK == /\ mtx \in Threads \cup {None}
          /\ counter \in Nat /\ locked \in Nat
          /\ seen \in [Threads -> Nat]
          /\ i \in [Threads -> 0 .. Iterations]
          /\ pc \in [Threads -> {"off", "try", "read", "write", "unlock", "ended"}]

\* "successful increases of the counter" (line 231): the counter is the number
\* of times the lock was taken, less the increment under way.
CounterExact ==
  counter = locked - Cardinality({t \in Threads : pc[t] \in {"read", "write"}})
=============================================================================
