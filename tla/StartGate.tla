----------------------------- MODULE StartGate -----------------------------
(***************************************************************************)
(* test_cond(), print_id() and go() of source/test_condition.cpp: threads  *)
(* wait at a gate that the main thread opens when it has counted them.     *)
(*                                                                         *)
(* What is counted are waits, not threads, and nobody notifies when the    *)
(* count changes: go() returns only if it need not wait or wakes by        *)
(* itself.  Each critical section is one step.  spurious is not in the     *)
(* code; it counts the waits that a spurious wakeup caused, and the model  *)
(* allows MaxSpurious of them; with the gate open they change no count.    *)
(***************************************************************************)
EXTENDS Naturals, FiniteSets

CONSTANTS Runners,      \* the threads of test_cond()
          MaxSpurious

VARIABLES ready,     \* ready
          readyCnt,  \* ready_cnt
          pc,        \* where each thread is
          main,      \* where the main thread is
          spurious

vars == <<ready, readyCnt, pc, main, spurious>>

\* on is FALSE if this program is not the one that runs.
Launched(on) == /\ ready = FALSE /\ readyCnt = 0
                /\ pc = [r \in Runners |-> IF on THEN "lock" ELSE "off"]
                /\ main = IF on THEN "go" ELSE "off"
                /\ spurious = 0

\* Faulty variant: the gate is opened whatever the count is.
AnyCount == TRUE
AllReady == readyCnt = Cardinality(Runners)   \* line 37

\* Faulty variant: only one thread is notified.
WakeOne == \E r \in Runners : pc' = [pc EXCEPT ![r] = IF @ = "wait" THEN "lock" ELSE @]
WakeAll == pc' = [r \in Runners |-> IF pc[r] = "wait" THEN "lock" ELSE pc[r]]

\* Lines 19-24.
Wait(r) == /\ pc[r] = "lock" /\ ~ready
           /\ readyCnt' = readyCnt + 1
           /\ pc' = [pc EXCEPT ![r] = "wait"]
           /\ UNCHANGED <<ready, main, spurious>>

Pass(r) == /\ pc[r] = "lock" /\ ready
           /\ pc' = [pc EXCEPT ![r] = "passed"]
           /\ UNCHANGED <<ready, readyCnt, main, spurious>>

SpuriousWake(r) == /\ pc[r] = "wait"
                   /\ IF ready THEN UNCHANGED spurious
                      ELSE spurious < MaxSpurious /\ spurious' = spurious + 1
                   /\ pc' = [pc EXCEPT ![r] = "lock"]
                   /\ UNCHANGED <<ready, readyCnt, main>>

\* Lines 36-39, after the sleep of line 121, which orders nothing.
Go == /\ main = "go" /\ AllReady
      /\ ready' = TRUE
      /\ WakeAll
      /\ main' = "join"
      /\ UNCHANGED <<readyCnt, spurious>>

GoWait == /\ main = "go" /\ ~AllReady
          /\ main' = "wait"
          /\ UNCHANGED <<ready, readyCnt, pc, spurious>>

GoSpuriousWake == /\ main = "wait"
                  /\ main' = "go"
                  /\ UNCHANGED <<ready, readyCnt, pc, spurious>>

\* Lines 124-127.
Join == /\ main = "join"
        /\ \A r \in Runners : pc[r] = "passed"
        /\ main' = "done"
        /\ UNCHANGED <<ready, readyCnt, pc, spurious>>

Runner(r) == Wait(r) \/ Pass(r)

Next == \/ \E r \in Runners : Runner(r) \/ SpuriousWake(r)
        \/ Go \/ GoWait \/ GoSpuriousWake \/ Join

\* Threads run; nothing wakes go() but chance.
Fairness == /\ \A r \in Runners : WF_vars(Runner(r))
            /\ WF_vars(Go \/ GoWait \/ Join)

TypeOK == /\ ready \in BOOLEAN
          /\ readyCnt \in Nat
          /\ pc \in [Runners -> {"off", "lock", "wait", "passed"}]
          /\ main \in {"off", "go", "wait", "join", "done"}
          /\ spurious \in 0 .. MaxSpurious

\* The gate opens when every thread is waiting at it, unless a thread was
\* counted again after a spurious wakeup.
OpensForAll ==
  [][ready' /\ ~ready /\ spurious = 0 => \A r \in Runners : pc[r] = "wait"]_vars

\* Once the gate is open every thread passes it, and test_cond() returns.
EveryonePasses == ready ~> main = "done"
=============================================================================
