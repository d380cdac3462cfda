--------------------------- MODULE ItemRepository ---------------------------
(***************************************************************************)
(* source/test_prodcons1.cpp: one producer and some consumers around the   *)
(* ring gRepo, which leaves one slot free to tell full from empty.         *)
(*                                                                         *)
(* produce() and consume() do everything under _mutex, the notify_all      *)
(* included, and give it up only inside a wait: each is one step, or one   *)
(* step up to the wait.  _counter is read and written without a lock; with *)
(* one producer a read finds the value before or after an increment.       *)
(* Log output and the sleep of the consumers are left out.                 *)
(***************************************************************************)
EXTENDS Naturals

CONSTANTS Size,       \* MAX_BUFF_SIZE
          MaxItem,    \* MAX_ITEM_TO_PRODUCE
          Consumers, Producer,
          NoItem      \* what an unwritten slot or an unset local holds

ASSUME ConstantsAssumption ==
  /\ Size \in Nat /\ Size > 1
  /\ MaxItem \in Nat \ {0}
  /\ Producer \notin Consumers
  /\ NoItem \notin Nat

VARIABLES buffer,   \* _buffer
          readPos,  \* _read_pos
          writePos, \* _write_pos
          counter,  \* _counter
          i,        \* the loop variable of producer_task
          data,     \* the item each consumer got last
          pc        \* where each thread is

vars == <<buffer, readPos, writePos, counter, i, data, pc>>

Slots   == 0 .. Size - 1
Threads == Consumers \cup {Producer}

Init == /\ buffer = [s \in Slots |-> NoItem]
        /\ readPos = 0 /\ writePos = 0
        /\ counter = 0
        /\ i = 1
        /\ data = [c \in Consumers |-> NoItem]
        /\ pc = [t \in Threads |-> IF t = Producer THEN "loop" ELSE "look"]

-----------------------------------------------------------------------------
(* The decisions of the code, most with a faulty variant that a run is     *)
(* shown to tell from it.                                                  *)

Empty == readPos = writePos                 \* line 48

\* Faulty variant: the free slot is not kept.
NeverFull == FALSE
Full == (writePos + 1) % Size = readPos     \* line 31

\* Faulty variant: the position does not wrap.
NoWrap(pos) == pos + 1
NextPos(pos) == IF pos + 1 >= Size THEN 0 ELSE pos + 1   \* lines 37-40, 54-56

\* notify_all on the other side's condition, which the waiting threads in
\* set wait for; the caller goes on at after.
\* Faulty variant: it is not called.
WakeNone(set, t, after) == [pc EXCEPT ![t] = after]
WakeAll(set, t, after) ==
  [u \in Threads |-> IF u = t THEN after
                     ELSE IF u \in set /\ pc[u] = "wait" THEN "lock" ELSE pc[u]]

-----------------------------------------------------------------------------
(* producer_task() and produce()                                           *)

\* Lines 63-65.
Count == /\ pc[Producer] = "loop"
         /\ i < MaxItem
         /\ counter' = counter + 1
         /\ pc' = [pc EXCEPT ![Producer] = "lock"]
         /\ UNCHANGED <<buffer, readPos, writePos, i, data>>

ProducerExit == /\ pc[Producer] = "loop"
                /\ i >= MaxItem
                /\ pc' = [pc EXCEPT ![Producer] = "exit"]
                /\ UNCHANGED <<buffer, readPos, writePos, counter, i, data>>

Produce == /\ pc[Producer] = "lock" /\ ~Full
           /\ buffer' = [buffer EXCEPT ![writePos] = i]
           /\ writePos' = NextPos(writePos)
           /\ pc' = WakeAll(Consumers, Producer, "loop")
           /\ i' = i + 1
           /\ UNCHANGED <<readPos, counter, data>>

ProducerWait == /\ pc[Producer] = "lock" /\ Full
                /\ pc' = [pc EXCEPT ![Producer] = "wait"]
                /\ UNCHANGED <<buffer, readPos, writePos, counter, i, data>>

-----------------------------------------------------------------------------
(* consumer_task() and consume()                                           *)

\* Line 78: go on, or leave for good.
Look(c) == /\ pc[c] = "look"
           /\ pc' = [pc EXCEPT ![c] = IF counter < MaxItem THEN "lock" ELSE "exit"]
           /\ UNCHANGED <<buffer, readPos, writePos, counter, i, data>>

Consume(c) == /\ pc[c] = "lock" /\ ~Empty
              /\ data' = [data EXCEPT ![c] = buffer[readPos]]
              /\ readPos' = NextPos(readPos)
              /\ pc' = WakeAll({Producer}, c, "look")
              /\ UNCHANGED <<buffer, writePos, counter, i>>

ConsumerWait(c) == /\ pc[c] = "lock" /\ Empty
                   /\ pc' = [pc EXCEPT ![c] = "wait"]
                   /\ UNCHANGED <<buffer, readPos, writePos, counter, i, data>>

SpuriousWake(t) == /\ pc[t] = "wait"
                   /\ pc' = [pc EXCEPT ![t] = "lock"]
                   /\ UNCHANGED <<buffer, readPos, writePos, counter, i, data>>

-----------------------------------------------------------------------------
ProducerStep == Count \/ ProducerExit \/ Produce \/ ProducerWait
ConsumerStep(c) == Look(c) \/ Consume(c) \/ ConsumerWait(c)

Next == \/ ProducerStep
        \/ \E c \in Consumers : ConsumerStep(c)
        \/ \E t \in Threads : SpuriousWake(t)

Spec == Init /\ [][Next]_vars

\* Every thread that is not waiting is run.  A step of one thread never
\* disables another's: it changes which step comes next, not that one can.
FairSpec == /\ Spec
            /\ WF_vars(ProducerStep)
            /\ \A c \in Consumers : WF_vars(ConsumerStep(c))

-----------------------------------------------------------------------------
(* Properties                                                              *)

\* The type invariant.
TypeOK == /\ buffer \in [Slots -> 1 .. MaxItem \cup {NoItem}]
          /\ readPos \in Slots /\ writePos \in Slots
          /\ counter \in 0 .. MaxItem
          /\ i \in 1 .. MaxItem
          /\ data \in [Consumers -> 1 .. MaxItem \cup {NoItem}]
          /\ pc \in [Threads -> {"loop", "look", "lock", "wait", "exit"}]

\* Whoever waits has reason to: a consumer waits only at an empty ring and
\* the producer only at a full one.
WaitersAreRight == /\ (\E c \in Consumers : pc[c] = "wait") => Empty
                   /\ pc[Producer] = "wait" => Full

\* The number of items in the ring, and the items, oldest first.
Used == IF readPos <= writePos THEN writePos - readPos ELSE writePos + Size - readPos
Buf == [k \in 1 .. Used |-> buffer[(readPos + k - 1) % Size]]

Fifo == INSTANCE BoundedFifo WITH
  buf <- Buf, got <- data, Getters <- Consumers,
  Capacity <- Size - 1, Items <- 1 .. MaxItem

\* The ring is a FIFO of Size - 1 places: no slot is overwritten before it is
\* read, or read twice.
ImplementsFifo == Fifo!Spec

\* Everything the producer makes is consumed, with all the consumers at work.
AllConsumed == <>[](i = MaxItem /\ Empty)

\* Refuted.  MAX_ITEM_TO_PRODUCE is "How many items we plan to produce"
\* (line 12), and main joins the consumers, which leave when _counter has
\* reached it (line 78).  The loop of line 63 makes one item less: the
\* consumers wait for another for ever.
EveryThreadExits == <>(\A t \in Threads : pc[t] = "exit")
=============================================================================
