--------------------------- MODULE BoundedBuffer ---------------------------
(***************************************************************************)
(* The bounded buffers of source/bounded_buffer_comparison.cpp (and the    *)
(* copy in circular_buffer_bound_example.cpp) with the program around      *)
(* them, fifo_test: Main fills part of the buffer, starts the producers    *)
(* and consumers, and joins them.  The test has one of each; the class     *)
(* allows any number.                                                      *)
(*                                                                         *)
(* The class of the buffer is the template parameter of fifo_test, and     *)
(* main (lines 251-286) runs it for each.  When ring is TRUE it is         *)
(* bounded_buffer: items are pushed at the front of a                      *)
(* boost::circular_buffer that never shrinks, m_unread counts the ones not *)
(* read yet, and a push into a full container drops its last item.         *)
(* Otherwise it is one of the three variants that pop what they read       *)
(* (space-optimized, deque, list) and differ only in the container.        *)
(*                                                                         *)
(* The mutex is held across a step only by a thread that found the         *)
(* predicate of its wait false and has not blocked yet; both notifications *)
(* are sent after the unlock.                                              *)
(***************************************************************************)
EXTENDS Naturals, SequencesExt

CONSTANTS Capacity,   \* QUEUE_SIZE
          Prefill,    \* the items Main pushes, QUEUE_SIZE / 2
          Total,      \* the items each thread pushes or pops, TOTAL_ELEMENTS
          Producers, Consumers, Main,
          Items,      \* the values of the items
          None

Pushers == Producers \cup {Main}
Threads == Pushers \cup Consumers

\* What is pushed fits when everything that is popped has been popped, so
\* that every thread can finish, and Main alone never fills the buffer.
ASSUME ConstantsAssumption ==
  /\ Capacity \in Nat /\ Prefill \in 1 .. Capacity /\ Total \in Nat \ {0}
  /\ IsFiniteSet(Producers) /\ IsFiniteSet(Consumers)
  /\ Producers \cap Consumers = {} /\ Main \notin Producers \cup Consumers
  /\ None \notin Items \cup Threads
  /\ Cardinality(Consumers) * Total <= Prefill + Cardinality(Producers) * Total
  /\ Prefill + Cardinality(Producers) * Total <= Capacity + Cardinality(Consumers) * Total

VARIABLES ring,       \* which class the buffer is
          container,  \* m_container, front first
          unread,     \* m_unread, used when ring
          mutex,      \* the thread holding m_mutex across a step, or None
          pc,         \* where each thread is
          todo,       \* the iterations each thread has left
          item        \* m_item of each consumer

vars == <<ring, container, unread, mutex, pc, todo, item>>

Init == /\ ring \in BOOLEAN
        /\ container = <<>>
        /\ unread = 0
        /\ mutex = None
        /\ pc = [t \in Threads |-> IF t = Main THEN "lock" ELSE "new"]
        /\ todo = [t \in Threads |-> IF t = Main THEN Prefill ELSE Total]
        /\ item = [c \in Consumers |-> None]

Unread == IF ring THEN unread ELSE Len(container)

WaitingNotEmpty == {c \in Consumers : pc[c] = "wait"}
WaitingNotFull  == {p \in Pushers : pc[p] = "wait"}

-----------------------------------------------------------------------------
(* The decisions of the code, most with a faulty variant that a run is     *)
(* shown to tell from it.                                                  *)

\* Faulty variant: the methods do not lock.
NoLock == TRUE
MutexFree == mutex = None

\* Faulty variant: one item too many.
HasRoom == Unread <= Capacity
NotFull == Unread < Capacity
NotEmpty == Unread > 0

\* The item a consumer reads, m_container[--m_unread] or back().
\* Faulty variant: the newest is read.
Newest == Head(container)
Oldest == container[Unread]

\* What a push leaves in the container: a full ring drops the item at its end.
Inserted(x) == <<x>> \o (IF ring /\ Len(container) = Capacity
                           THEN Front(container) ELSE container)

\* What a pop leaves in it: the ring keeps the item and counts it as read.
Removed == IF ring THEN container ELSE Front(container)

\* One waiting thread wakes up, whichever, or none.
\* Faulty variant: nobody is notified.
WakeNobody(waiting, after) == pc' = after
WakeOne(waiting, after) ==
  IF waiting = {}
    THEN pc' = after
    ELSE \E t \in waiting : pc' = [after EXCEPT ![t] = "lock"]

\* After a call: the next iteration, or the end of the loop.
AfterCall(t) == IF todo[t] > 1 THEN "lock" ELSE IF t = Main THEN "launch" ELSE "done"

-----------------------------------------------------------------------------
(* push_front() and pop_back()                                             *)

Ready(t) == IF t \in Consumers THEN NotEmpty ELSE NotFull

Push(p, x) == /\ pc[p] = "lock" /\ MutexFree /\ NotFull
              /\ container' = Inserted(x)
              /\ unread' = IF ring THEN unread + 1 ELSE unread
              /\ pc' = [pc EXCEPT ![p] = "notify"]
              /\ UNCHANGED <<ring, mutex, todo, item>>

Pop(c) == /\ pc[c] = "lock" /\ MutexFree /\ NotEmpty
          /\ item' = [item EXCEPT ![c] = Oldest]
          /\ container' = Removed
          /\ unread' = IF ring THEN unread - 1 ELSE unread
          /\ pc' = [pc EXCEPT ![c] = "notify"]
          /\ UNCHANGED <<ring, mutex, todo>>

\* The predicate of line 33 or 43 is false: going to wait, mutex held.
BeginWait(t) == /\ pc[t] = "lock" /\ MutexFree /\ ~Ready(t)
                /\ mutex' = t
                /\ pc' = [pc EXCEPT ![t] = "block"]
                /\ UNCHANGED <<ring, container, unread, todo, item>>

Block(t) == /\ pc[t] = "block"
            /\ mutex' = None
            /\ pc' = [pc EXCEPT ![t] = "wait"]
            /\ UNCHANGED <<ring, container, unread, todo, item>>

SpuriousWake(t) == /\ pc[t] = "wait"
                   /\ pc' = [pc EXCEPT ![t] = "lock"]
                   /\ UNCHANGED <<ring, container, unread, mutex, todo, item>>

\* notify_one after the unlock, on the other side's condition, and the loop
\* around the call.
Notify(t) == /\ pc[t] = "notify"
             /\ WakeOne(IF t \in Consumers THEN WaitingNotFull ELSE WaitingNotEmpty,
                        [pc EXCEPT ![t] = AfterCall(t)])
             /\ todo' = [todo EXCEPT ![t] = @ - 1]
             /\ UNCHANGED <<ring, container, unread, mutex, item>>

-----------------------------------------------------------------------------
(* fifo_test()                                                             *)

Launch == /\ pc[Main] = "launch"
          /\ pc' = [t \in Threads |-> IF t = Main THEN "join" ELSE "lock"]
          /\ UNCHANGED <<ring, container, unread, mutex, todo, item>>

Join == /\ pc[Main] = "join"
        /\ \A t \in Threads \ {Main} : pc[t] = "done"
        /\ pc' = [pc EXCEPT ![Main] = "done"]
        /\ UNCHANGED <<ring, container, unread, mutex, todo, item>>

Finished == pc[Main] = "done" /\ UNCHANGED vars

Acquire(t) == \/ t \in Pushers /\ \E x \in Items : Push(t, x)
              \/ t \in Consumers /\ Pop(t)
              \/ BeginWait(t)

Next == \/ \E t \in Threads : Acquire(t) \/ Block(t) \/ SpuriousWake(t) \/ Notify(t)
        \/ Launch \/ Join
        \/ Finished

Spec == Init /\ [][Next]_vars

\* Threads run, and one that keeps asking for the mutex gets it in the end.
Fairness ==
  /\ \A t \in Threads : SF_vars(Acquire(t)) /\ WF_vars(Block(t)) /\ WF_vars(Notify(t))
  /\ WF_vars(Launch) /\ WF_vars(Join)

FairSpec == Spec /\ Fairness

-----------------------------------------------------------------------------
(* Properties                                                              *)

\* The type invariant: the container never outgrows the capacity, and the
\* index of line 44 is inside it.
TypeOK == /\ ring \in BOOLEAN
          /\ container \in Seq(Items) /\ Len(container) <= Capacity
          /\ unread \in 0 .. Len(container)
          /\ mutex \in Threads \cup {None}
          /\ pc \in [Threads -> {"new", "lock", "block", "wait", "notify", "launch", "join", "done"}]
          /\ todo \in [Threads -> Nat]
          /\ item \in [Consumers -> Items \cup {None}]

At(S, l) == Cardinality({t \in S : pc[t] = l})

\* No wakeup is lost on either condition variable: while a consumer waits,
\* every unread item is covered by a notification to come or by a consumer
\* that is awake; while a producer waits, every free place is.
NoLostWakeup ==
  /\ WaitingNotEmpty # {} => Unread <= At(Pushers, "notify") + At(Consumers, "lock")
  /\ WaitingNotFull # {} => Capacity - Unread <= At(Consumers, "notify") + At(Pushers, "lock")

\* The unread items, oldest first.
Buf == [i \in 1 .. Unread |-> container[Unread + 1 - i]]

Fifo == INSTANCE BoundedFifo WITH
  buf <- Buf, got <- item, Getters <- Consumers, NoItem <- None

\* The buffer is a bounded FIFO: the ring never drops or rereads an item.
ImplementsFifo == Fifo!Spec

\* fifo_test returns.
TestReturns == <>(pc[Main] = "done")
=============================================================================
