------------------------- MODULE AcePrograms_proofs -------------------------
(***************************************************************************)
(* Proofs about the programs with producers and consumers: AcePrograms,    *)
(* for every number of threads, messages and iterations, and               *)
(* ItemRepository, for every size of the ring and every number of items    *)
(* and of consumers.  A component of AcePrograms is proved by itself       *)
(* first: its invariant holds at the launch and is kept by its Next.       *)
(***************************************************************************)
EXTENDS AcePrograms, ItemRepository, SequenceLemmas, FiniteSetTheorems

-----------------------------------------------------------------------------
(* ItemRepository: what is proved.                                         *)

\* _counter is ahead of the loop variable only while an item is being made,
\* and no item is begun after the last.
CounterInv == /\ pc[Producer] \in {"loop", "exit"} => counter = i - 1
              /\ pc[Producer] \in {"lock", "wait"} => counter = i /\ i < MaxItem

\* The producer is never in the consumers' loop, nor they in its.
PlaceInv == pc[Producer] # "look" /\ \A c \in Consumers : pc[c] # "loop"

Control == TypeOK /\ CounterInv /\ PlaceInv

-----------------------------------------------------------------------------
(* ItemRepository: control                                                 *)

\* The program that has just begun satisfies Control.
LEMMA InitControl == Init => Control
  BY ConstantsAssumption
     DEF Init, Control, TypeOK, CounterInv, PlaceInv, Slots, Threads

\* A position that moves on stays in the ring.
LEMMA NextPosType == \A p \in Slots : NextPos(p) \in Slots
  BY ConstantsAssumption DEF Slots, NextPos

\* Control is inductive.
LEMMA NextControl == Control /\ [Next]_vars => Control'
  <1> SUFFICES ASSUME Control, [Next]_vars
               PROVE Control'
    OBVIOUS
  <1> USE ConstantsAssumption DEF Control, TypeOK, CounterInv, PlaceInv
  <1>p. Producer \in Threads /\ Producer \notin Consumers /\ Consumers \subseteq Threads
    BY DEF Threads
  <1>1. CASE Count
    BY <1>1, <1>p DEF Count
  <1>2. CASE ProducerExit
    BY <1>2, <1>p DEF ProducerExit
  <1>3. CASE Produce
    <2>1. i \in 1 .. MaxItem /\ i + 1 \in 1 .. MaxItem /\ counter = i
      BY <1>3, <1>p DEF Produce
    <2>2. buffer' \in [Slots -> 1 .. MaxItem \cup {NoItem}] /\ writePos' \in Slots
      BY <1>3, <2>1, NextPosType DEF Produce
    <2>3. /\ pc' \in [Threads -> {"loop", "look", "lock", "wait", "exit"}]
          /\ pc'[Producer] = "loop" /\ \A c \in Consumers : pc'[c] # "loop"
      BY <1>3, <1>p DEF Produce, WakeAll
    <2> QED
      BY <1>3, <2>1, <2>2, <2>3 DEF Produce
  <1>4. CASE ProducerWait
    BY <1>4, <1>p DEF ProducerWait
  <1>5. ASSUME NEW c \in Consumers, Look(c) PROVE Control'
    BY <1>5, <1>p DEF Look
  <1>6. ASSUME NEW c \in Consumers, Consume(c) PROVE Control'
    <2>1. data' \in [Consumers -> 1 .. MaxItem \cup {NoItem}] /\ readPos' \in Slots
      BY <1>6, NextPosType DEF Consume
    <2>2. /\ pc' \in [Threads -> {"loop", "look", "lock", "wait", "exit"}]
          /\ \A u \in Consumers : pc'[u] # "loop"
          /\ pc'[Producer] = IF pc[Producer] = "wait" THEN "lock" ELSE pc[Producer]
      BY <1>6, <1>p DEF Consume, WakeAll
    <2> QED
      BY <1>6, <2>1, <2>2 DEF Consume
  <1>7. ASSUME NEW c \in Consumers, ConsumerWait(c) PROVE Control'
    BY <1>7, <1>p DEF ConsumerWait
  <1>8. ASSUME NEW t \in Threads, SpuriousWake(t) PROVE Control'
    BY <1>8, <1>p DEF SpuriousWake
  <1>9. CASE UNCHANGED vars
    BY <1>9 DEF vars
  <1> QED
    BY <1>1, <1>2, <1>3, <1>4, <1>5, <1>6, <1>7, <1>8, <1>9
       DEF Next, ProducerStep, ConsumerStep

\* Where the threads are is always consistent with the counter.
THEOREM ControlInvariant == Spec => []Control
  BY InitControl, NextControl, PTL DEF Spec

\* Every variable keeps its type: the positions stay inside the ring, and
\* _counter never passes the number of items.
THEOREM TypeCorrect == Spec => []TypeOK
  BY ControlInvariant, PTL DEF Control

-----------------------------------------------------------------------------
(* ItemRepository: waiting                                                 *)

\* produce() and consume() (lines 27-59): as every call wakes all who wait for
\* what it changes, whoever is still waiting has reason to.
THEOREM WaitersHaveReason == Spec => []WaitersAreRight
  <1>1. Init => WaitersAreRight
    BY ConstantsAssumption DEF Init, WaitersAreRight, Threads
  <1>2. TypeOK /\ WaitersAreRight /\ [Next]_vars => WaitersAreRight'
    <2> SUFFICES ASSUME TypeOK, WaitersAreRight, [Next]_vars
                 PROVE WaitersAreRight'
      OBVIOUS
    <2> USE DEF TypeOK, WaitersAreRight
    <2>p. Producer \in Threads /\ Producer \notin Consumers /\ Consumers \subseteq Threads
      BY ConstantsAssumption DEF Threads
    <2>1. CASE Count
      BY <2>1, <2>p DEF Count, Empty, Full
    <2>2. CASE ProducerExit
      BY <2>2, <2>p DEF ProducerExit, Empty, Full
    <2>3. CASE Produce
      <3>1. pc'[Producer] = "loop" /\ \A c \in Consumers : pc'[c] # "wait"
        BY <2>3, <2>p DEF Produce, WakeAll
      <3> QED
        BY <3>1
    <2>4. CASE ProducerWait
      BY <2>4, <2>p DEF ProducerWait, Empty, Full
    <2>5. ASSUME NEW c \in Consumers, Look(c) PROVE WaitersAreRight'
      BY <2>5, <2>p DEF Look, Empty, Full
    <2>6. ASSUME NEW c \in Consumers, Consume(c) PROVE WaitersAreRight'
      <3>1. \A u \in Consumers : pc[u] # "wait"
        BY <2>6 DEF Consume
      <3>2. pc'[Producer] # "wait" /\ \A u \in Consumers : pc'[u] # "wait"
        BY <2>6, <2>p, <3>1 DEF Consume, WakeAll
      <3> QED
        BY <3>2
    <2>7. ASSUME NEW c \in Consumers, ConsumerWait(c) PROVE WaitersAreRight'
      BY <2>7, <2>p DEF ConsumerWait, Empty, Full
    <2>8. ASSUME NEW t \in Threads, SpuriousWake(t) PROVE WaitersAreRight'
      BY <2>8, <2>p DEF SpuriousWake, Empty, Full
    <2>9. CASE UNCHANGED vars
      BY <2>9 DEF vars, Empty, Full
    <2> QED
      BY <2>1, <2>2, <2>3, <2>4, <2>5, <2>6, <2>7, <2>8, <2>9
         DEF Next, ProducerStep, ConsumerStep
  <1> QED
    BY <1>1, <1>2, TypeCorrect, PTL DEF Spec

-----------------------------------------------------------------------------
(* ItemRepository: the ring                                                *)

\* A position less than one round ahead is brought back by a subtraction.
LEMMA Wrapped ==
  ASSUME NEW n \in Nat, n > 0, NEW a \in 0 .. n + n - 1
  PROVE  a % n = IF a < n THEN a ELSE a - n
  <1>1. a \in 0 .. n - 1 => a % n = a
    BY SMT
  <1>2. a \in n .. n + n - 1 => a % n = a - n
    BY SMT
  <1> QED
    BY <1>1, <1>2

\* Of two positions of a ring, the places from the first up to the second: all
\* but one when the second is just behind the first, none when they are equal.
LEMMA RingArithmetic ==
  ASSUME NEW r \in Slots, NEW w \in Slots
  PROVE  LET u == IF r <= w THEN w - r ELSE w + Size - r
         IN  /\ u \in 0 .. Size - 1
             /\ (w + 1) % Size = r <=> u = Size - 1
             /\ r = w <=> u = 0
             /\ w = (r + u) % Size
  <1> DEFINE u == IF r <= w THEN w - r ELSE w + Size - r
  <1>1. /\ Size \in Nat /\ Size > 1 /\ r \in 0 .. Size - 1 /\ w \in 0 .. Size - 1
    BY ConstantsAssumption DEF Slots
  <1>2. u \in 0 .. Size - 1
    BY <1>1
  <1>3. (w + 1) % Size = IF w + 1 < Size THEN w + 1 ELSE w + 1 - Size
    BY <1>1, Wrapped
  <1>4. (r + u) % Size = IF r + u < Size THEN r + u ELSE r + u - Size
    BY <1>1, <1>2, Wrapped
  <1> QED
    BY <1>1, <1>2, <1>3, <1>4

\* The slot of the k-th item is not the one the next item goes to, and when an
\* item is taken it becomes that of the item before.
LEMMA SlotOf ==
  ASSUME NEW r \in Slots, NEW u \in 0 .. Size - 1, NEW k \in 1 .. u
  PROVE  /\ (r + k - 1) % Size \in Slots
         /\ (r + k - 1) % Size # (r + u) % Size
         /\ (NextPos(r) + k - 1) % Size = (r + (k + 1) - 1) % Size
  <1>1. /\ Size \in Nat /\ Size > 1 /\ r \in 0 .. Size - 1
    BY ConstantsAssumption DEF Slots
  <1>2. /\ r + k - 1 \in 0 .. Size + Size - 1 /\ r + u \in 0 .. Size + Size - 1
        /\ r + (k + 1) - 1 \in 0 .. Size + Size - 1 /\ r + (k + 1) - 1 = r + k
    BY <1>1
  <1>5. (r + k - 1) % Size = IF r + k - 1 < Size THEN r + k - 1 ELSE r + k - 1 - Size
    BY <1>1, <1>2, Wrapped
  <1>6. (r + u) % Size = IF r + u < Size THEN r + u ELSE r + u - Size
    BY <1>1, <1>2, Wrapped
  <1>7. (r + (k + 1) - 1) % Size = IF r + k < Size THEN r + k ELSE r + k - Size
    BY <1>1, <1>2, Wrapped
  <1>3. NextPos(r) = IF r + 1 >= Size THEN 0 ELSE r + 1
    BY DEF NextPos
  <1>4. (NextPos(r) + k - 1) % Size
          = IF NextPos(r) + k - 1 < Size THEN NextPos(r) + k - 1 ELSE NextPos(r) + k - 1 - Size
    BY <1>1, <1>3, Wrapped
  <1> QED
    BY <1>1, <1>3, <1>4, <1>5, <1>6, <1>7 DEF Slots

\* A function on 1 .. n is a sequence of n elements.
LEMMA FunctionIsSeq ==
  ASSUME NEW S, NEW n \in Nat, NEW f \in [1 .. n -> S]
  PROVE  f \in Seq(S) /\ Len(f) = n
  <1>1. f \in Seq(S)
    BY SeqDef
  <1>2. DOMAIN f = 1 .. n /\ DOMAIN f = 1 .. Len(f) /\ Len(f) \in Nat
    BY <1>1, LenProperties
  <1> QED
    BY <1>1, <1>2

\* So the items in the ring are a sequence, before a step and after it.
LEMMA BufType ==
  ASSUME TypeOK, TypeOK'
  PROVE  /\ Buf \in Seq(1 .. MaxItem \cup {NoItem}) /\ Len(Buf) = Used
         /\ Buf' \in Seq(1 .. MaxItem \cup {NoItem}) /\ Len(Buf') = Used'
  <1> DEFINE T == 1 .. MaxItem \cup {NoItem}
  <1>1. /\ buffer \in [Slots -> T] /\ readPos \in Slots
        /\ buffer' \in [Slots -> T] /\ readPos' \in Slots
    BY DEF TypeOK
  <1>2. Used \in 0 .. Size - 1 /\ Used' \in 0 .. Size - 1
    BY RingArithmetic DEF TypeOK, Used
  <1>3. Used \in Nat /\ Used' \in Nat
    BY <1>2, ConstantsAssumption
  <1>4. \A k \in 1 .. Used : (readPos + k - 1) % Size \in Slots
    BY <1>1, <1>2, SlotOf
  <1>5. \A k \in 1 .. Used' : (readPos' + k - 1) % Size \in Slots
    BY <1>1, <1>2, SlotOf
  <1> HIDE DEF T
  <1>6. Buf \in [1 .. Used -> T]
    BY <1>1, <1>4 DEF Buf
  <1>7. Buf' \in [1 .. Used' -> T]
    BY <1>1, <1>5 DEF Buf
  <1>8. Buf \in Seq(T) /\ Len(Buf) = Used
    BY <1>3, <1>6, FunctionIsSeq
  <1>9. Buf' \in Seq(T) /\ Len(Buf') = Used'
    BY <1>3, <1>7, FunctionIsSeq
  <1> QED
    BY <1>8, <1>9 DEF T

-----------------------------------------------------------------------------
(* ItemRepository: the ring is a bounded FIFO                              *)

\* What is produced goes behind what is there, into a slot that is free.
LEMMA ProduceAppends ==
  ASSUME Control, TypeOK', Produce
  PROVE  /\ i \in 1 .. MaxItem /\ Len(Buf) < Size - 1
         /\ Buf' = Append(Buf, i)
  <1> DEFINE T == 1 .. MaxItem \cup {NoItem}
  <1>1. /\ readPos \in Slots /\ writePos \in Slots /\ buffer \in [Slots -> T]
        /\ i \in 1 .. MaxItem /\ i \in T /\ Size \in Nat /\ Size > 1
    BY ConstantsAssumption DEF Control, TypeOK
  <1>2. /\ Used \in 0 .. Size - 1 /\ Used # Size - 1
        /\ writePos = (readPos + Used) % Size
    BY <1>1, RingArithmetic DEF Used, Produce, Full
  <1>3. /\ readPos' = readPos /\ writePos' = NextPos(writePos)
        /\ buffer' = [buffer EXCEPT ![writePos] = i]
    BY DEF Produce
  <1>4. Used' = Used + 1
    BY <1>1, <1>2, <1>3 DEF Used, NextPos, Slots
  <1>5. /\ Buf \in Seq(T) /\ Len(Buf) = Used
        /\ Buf' \in Seq(T) /\ Len(Buf') = Used + 1
    BY <1>4, BufType DEF Control
  <1> HIDE DEF T
  <1>6. /\ Append(Buf, i) \in Seq(T) /\ Len(Append(Buf, i)) = Used + 1
        /\ \A k \in 1 .. Used : Append(Buf, i)[k] = Buf[k]
        /\ Append(Buf, i)[Used + 1] = i
    BY <1>1, <1>5, AppendProperties
  <1>7. ASSUME NEW k \in 1 .. Used + 1 PROVE Buf'[k] = Append(Buf, i)[k]
    <2>1. Buf'[k] = buffer'[(readPos + k - 1) % Size]
      BY <1>3, <1>4 DEF Buf
    <2>2. CASE k = Used + 1
      <3>1. (readPos + k - 1) % Size = writePos
        BY <1>1, <1>2, <2>2 DEF Slots
      <3>2. Buf'[k] = i
        BY <1>1, <1>3, <2>1, <3>1
      <3> QED
        BY <1>6, <2>2, <3>2
    <2>3. CASE k \in 1 .. Used
      <3>1. (readPos + k - 1) % Size \in Slots /\ (readPos + k - 1) % Size # writePos
        <4>0. readPos \in Slots /\ Used \in 0 .. Size - 1 /\ k \in 1 .. Used
          BY <1>1, <1>2, <2>3
        <4>1. /\ (readPos + k - 1) % Size \in Slots
              /\ (readPos + k - 1) % Size # (readPos + Used) % Size
          BY <4>0, SlotOf
        <4> QED
          BY <1>2, <4>1
      <3>2. Buf'[k] = buffer[(readPos + k - 1) % Size]
        BY <1>1, <1>3, <2>1, <3>1
      <3>3. Buf[k] = buffer[(readPos + k - 1) % Size]
        BY <2>3 DEF Buf
      <3>4. Append(Buf, i)[k] = Buf[k]
        BY <1>6, <2>3
      <3> QED
        BY <3>2, <3>3, <3>4
    <2>4. k = Used + 1 \/ k \in 1 .. Used
      BY <1>2
    <2> QED
      BY <2>2, <2>3, <2>4
  <1>8. Buf' = Append(Buf, i)
    BY <1>5, <1>6, <1>7, SeqEqual
  <1> QED
    BY <1>1, <1>2, <1>5, <1>8

\* What is consumed is the oldest of what is there.
LEMMA ConsumeTakesHead ==
  ASSUME TypeOK, TypeOK', NEW c \in Consumers, Consume(c)
  PROVE  /\ Buf # <<>> /\ Buf' = Tail(Buf)
         /\ data' = [data EXCEPT ![c] = Head(Buf)]
  <1> DEFINE T == 1 .. MaxItem \cup {NoItem}
  <1>1. /\ readPos \in Slots /\ writePos \in Slots /\ buffer \in [Slots -> T]
        /\ Size \in Nat /\ Size > 1
    BY ConstantsAssumption DEF TypeOK
  <1>2. Used \in 0 .. Size - 1 /\ Used # 0
    BY <1>1, RingArithmetic DEF Used, Consume, Empty
  <1>3. /\ readPos' = NextPos(readPos) /\ writePos' = writePos
        /\ buffer' = buffer /\ data' = [data EXCEPT ![c] = buffer[readPos]]
    BY DEF Consume
  <1>4. Used' = Used - 1
    BY <1>1, <1>2, <1>3 DEF Used, NextPos, Slots
  <1>5. /\ Buf \in Seq(T) /\ Len(Buf) = Used
        /\ Buf' \in Seq(T) /\ Len(Buf') = Used - 1
    BY <1>4, BufType
  <1> HIDE DEF T
  <1>6. Buf # <<>>
    BY <1>2, <1>5, EmptySeq
  <1>7. /\ Tail(Buf) \in Seq(T) /\ Len(Tail(Buf)) = Used - 1
        /\ \A k \in 1 .. Used - 1 : Tail(Buf)[k] = Buf[k + 1]
    BY <1>5, <1>6, HeadTailProperties
  <1>8. ASSUME NEW k \in 1 .. Used - 1 PROVE Buf'[k] = Tail(Buf)[k]
    <2>1. Buf'[k] = buffer[(NextPos(readPos) + k - 1) % Size]
      BY <1>3, <1>4 DEF Buf
    <2>2. k \in 1 .. Used /\ k + 1 \in 1 .. Used
      BY <1>2
    <2>3. Buf[k + 1] = buffer[(readPos + (k + 1) - 1) % Size]
      BY <2>2 DEF Buf
    <2>4. (NextPos(readPos) + k - 1) % Size = (readPos + (k + 1) - 1) % Size
      BY <1>1, <1>2, <2>2, SlotOf
    <2> QED
      BY <1>7, <2>1, <2>3, <2>4
  <1>9. Buf' = Tail(Buf)
    BY <1>5, <1>7, <1>8, SeqEqual
  <1>10. Head(Buf) = buffer[readPos]
    <2>1. 1 \in 1 .. Used /\ readPos + 1 - 1 = readPos
          /\ readPos \in 0 .. Size + Size - 1 /\ readPos < Size
      BY <1>1, <1>2 DEF Slots
    <2>2. readPos % Size = readPos
      BY <1>1, <2>1, Wrapped
    <2>3. Buf[1] = buffer[readPos]
      BY <2>1, <2>2 DEF Buf
    <2> QED
      BY <1>5, <2>3
  <1> QED
    BY <1>3, <1>6, <1>9, <1>10

\* The other steps leave the ring and what was consumed alone.
LEMMA OthersStutter ==
  ASSUME UNCHANGED <<buffer, readPos, writePos, data>>
  PROVE  UNCHANGED Fifo!vars
  BY DEF Fifo!vars, Buf, Used

\* produce() and consume() (lines 27-59): the ring is a first-in first-out queue
\* of Size - 1 items; no slot is overwritten before it is read or read twice,
\* however the positions wrap.
THEOREM RingImplementsFifo == Spec => ImplementsFifo
  <1>1. Init => Fifo!Init
    <2> SUFFICES ASSUME Init PROVE Fifo!Init
      OBVIOUS
    <2>1. Used = 0
      BY DEF Init, Used
    <2>2. Buf = <<>>
      BY <2>1 DEF Buf
    <2> QED
      BY <2>2 DEF Init, Fifo!Init
  <1>2. Control /\ Control' /\ [Next]_vars => [Fifo!Next]_(Fifo!vars)
    <2> SUFFICES ASSUME Control, Control', [Next]_vars PROVE [Fifo!Next]_(Fifo!vars)
      OBVIOUS
    <2>t. TypeOK /\ TypeOK'
      BY DEF Control
    <2>1. CASE Produce
      <3>1. i \in 1 .. MaxItem /\ Fifo!Put(i)
        BY <2>1, <2>t, ProduceAppends DEF Produce, Fifo!Put
      <3> QED
        BY <3>1 DEF Fifo!Next
    <2>2. ASSUME NEW c \in Consumers, Consume(c) PROVE Fifo!Get(c)
      BY <2>2, <2>t, ConsumeTakesHead DEF Fifo!Get
    <2>3. CASE Count \/ ProducerExit \/ ProducerWait \/ UNCHANGED vars
      BY <2>3, OthersStutter DEF Count, ProducerExit, ProducerWait, vars
    <2>4. ASSUME NEW c \in Consumers, Look(c) \/ ConsumerWait(c) PROVE UNCHANGED Fifo!vars
      BY <2>4, OthersStutter DEF Look, ConsumerWait
    <2>5. ASSUME NEW t \in Threads, SpuriousWake(t) PROVE UNCHANGED Fifo!vars
      BY <2>5, OthersStutter DEF SpuriousWake
    <2> QED
      BY <2>1, <2>2, <2>3, <2>4, <2>5 DEF Next, ProducerStep, ConsumerStep, Fifo!Next
  <1> QED
    BY <1>1, <1>2, ControlInvariant, PTL DEF Spec, ImplementsFifo, Fifo!Spec

-----------------------------------------------------------------------------
(* AceManager.                                                             *)

Requests == 0 .. NRequests - 1

Serving == {"getq", "pick", "wait", "hand"}
Ending == {"hangup", "join", "ended"}

\* Where a message is that has been posted.
Somewhere(m) == \/ m \in ToSet(inbox) \/ m = mb \/ m \in wdone
                \/ \E w \in TaskThreads : m \in ToSet(wqueue[w]) \/ m = wmb[w]

\* A worker has at most one message, in its queue or in hand.
OneAtATime(w) ==
  \/ /\ wplace[w] = "getq" /\ wmb[w] = Nil
     /\ wqueue[w] = <<>> \/ \E m \in Requests : wqueue[w] = <<m>>
  \/ wplace[w] = "svc" /\ wqueue[w] = <<>> /\ wmb[w] \in Requests
  \/ wplace[w] = "return" /\ wqueue[w] = <<>> /\ wmb[w] = Nil

\* How far shut_down() has come with the worker at position k: those before pos
\* have ended, the one at pos has its hangup, the others wait for theirs.
ShutDownAt(k) ==
  LET w == workers[k]
  IN  IF k < pos THEN wplace[w] = "ended" /\ wqueue[w] = <<>>
      ELSE IF k = pos /\ mgr = "join"
           THEN \/ wplace[w] = "getq" /\ wqueue[w] = <<Hangup>>
                \/ wplace[w] = "svc" /\ wqueue[w] = <<>> /\ wmb[w] = Hangup
                \/ wplace[w] = "ended" /\ wqueue[w] = <<>>
           ELSE wplace[w] = "getq" /\ wqueue[w] = <<>>

ManagerInv ==
  /\ TestTask!TypeOK
  /\ mb = Nil <=> mgr \notin {"pick", "wait", "hand"}
  /\ worker = Nil <=> mgr # "hand"
  /\ mgr = "hand" => TestTask!Idle(worker)
  /\ mgr \in {"off", "start"} => \A w \in TaskThreads : wplace[w] = "off" /\ wqueue[w] = <<>>
                                                      /\ wmb[w] = Nil
  /\ mgr \in Serving =>
       /\ \A w \in TaskThreads : OneAtATime(w)
       /\ IsInjective(workers)
       /\ ToSet(workers) = {w \in TaskThreads : TestTask!Idle(w) /\ w # worker}
  /\ mgr = "wait" => workers = <<>>
  /\ mgr \notin Ending => pos = 1
  /\ mgr # "off" => \A m \in Requests : m < posted => Somewhere(m)
  /\ mgr \in Ending =>
       /\ posted = NRequests /\ inbox = <<>> /\ wdone = Requests
       /\ IsInjective(workers) /\ ToSet(workers) = TaskThreads
       /\ mgr # "ended" => pos <= Len(workers)
       /\ \A k \in 1 .. Len(workers) : ShutDownAt(k)

\* The operators of the modules that AceManager extends are the same here.
LEMMA ManagerOperators ==
  /\ \A s : TestTask!ToSet(s) = ToSet(s) /\ (TestTask!IsInjective(s) <=> IsInjective(s))
            /\ TestTask!Cardinality(s) = Cardinality(s)
  /\ TestTask!Msgs = Requests
  BY DEF ToSet, TestTask!ToSet, IsInjective, TestTask!IsInjective,
         Cardinality, TestTask!Cardinality, TestTask!Msgs, Requests

\* Messages are numbers, and neither a hangup nor no message is one.
LEMMA ManagerConstants ==
  /\ NRequests \in Nat /\ Requests \subseteq Nat /\ Hangup \notin Requests /\ Nil \notin Requests
  /\ Nil \notin TaskThreads /\ Cardinality(TaskThreads) \in Nat \ {0} /\ IsFiniteSet(TaskThreads)
  BY AceAssumption, FS_CardinalityType, FS_EmptySet DEF Requests

\* The list of all the workers.
LEMMA AllWorkers ==
  /\ TestTask!SetToSeq(TaskThreads) \in Seq(TaskThreads)
  /\ IsInjective(TestTask!SetToSeq(TaskThreads))
  /\ ToSet(TestTask!SetToSeq(TaskThreads)) = TaskThreads
  <1> DEFINE n == Cardinality(TaskThreads)
             s == TestTask!SetToSeq(TaskThreads)
  <1>1. n \in Nat /\ IsFiniteSet(TaskThreads) /\ ExistsBijection(1 .. n, TaskThreads)
    BY AceAssumption, FS_CardinalityType
  <1>2. PICK f \in Bijection(1 .. n, TaskThreads) : TRUE
    BY <1>1 DEF ExistsBijection
  <1>3. f \in [1 .. n -> TaskThreads] /\ IsInjective(f)
    BY <1>2 DEF Bijection, Injection, Surjection, IsInjective
  <1>4. s = CHOOSE g \in [1 .. n -> TaskThreads] : IsInjective(g)
    BY ManagerOperators DEF TestTask!SetToSeq
  <1>5. s \in [1 .. n -> TaskThreads] /\ IsInjective(s)
    BY <1>3, <1>4
  <1> HIDE DEF s, n
  <1>6. s \in Seq(TaskThreads) /\ Len(s) = n
    BY <1>1, <1>5
  <1>7. IsFiniteSet(ToSet(s)) /\ Cardinality(ToSet(s)) = n
    BY <1>5, <1>6, InjectiveLength
  <1>8. ToSet(s) \in SUBSET TaskThreads
    BY <1>5 DEF ToSet
  <1>9. ToSet(s) = TaskThreads
    BY <1>1, <1>7, <1>8, FS_Subset DEF n
  <1> QED
    BY <1>5, <1>6, <1>9 DEF s

\* What the invariant says of the properties of the component.
LEMMA ManagerImplied ==
  ManagerInv => /\ TestTask!TypeOK /\ TestTask!ListIsIdle
                /\ TestTask!ManagerAwake /\ TestTask!ShutDownIsSafe
  <1> SUFFICES ASSUME ManagerInv
               PROVE  TestTask!ListIsIdle /\ TestTask!ManagerAwake /\ TestTask!ShutDownIsSafe
    BY DEF ManagerInv
  <1>t. /\ mgr \in {"off", "start", "getq", "pick", "wait", "hand", "hangup", "join", "ended"}
        /\ workers \in Seq(TaskThreads)
    BY DEF ManagerInv, TestTask!TypeOK
  <1>1. TestTask!ListIsIdle
    BY <1>t, ManagerOperators
       DEF ManagerInv, TestTask!ListIsIdle, TestTask!Started, TestTask!Stopping, Serving
  <1>2. TestTask!ManagerAwake
    BY DEF ManagerInv, TestTask!ManagerAwake
  <1>3. ASSUME TestTask!Stopping
        PROVE  /\ TestTask!ToSet(workers) = TaskThreads
               /\ Len(workers) = TestTask!Cardinality(TaskThreads)
               /\ wdone = TestTask!Msgs
               /\ \A w \in TaskThreads : wplace[w] = "ended" => wqueue[w] = <<>>
    <2>1. /\ IsInjective(workers) /\ ToSet(workers) = TaskThreads /\ wdone = Requests
          /\ \A k \in 1 .. Len(workers) : ShutDownAt(k)
      BY <1>3 DEF ManagerInv, TestTask!Stopping, Ending
    <2>2. Len(workers) = Cardinality(TaskThreads)
      BY <2>1, <1>t, InjectiveLength
    <2>3. ASSUME NEW w \in TaskThreads, wplace[w] = "ended" PROVE wqueue[w] = <<>>
      <3>1. PICK k \in 1 .. Len(workers) : w = workers[k]
        BY <2>1, <1>t, LenProperties DEF ToSet
      <3> QED
        BY <2>1, <2>3, <3>1 DEF ShutDownAt
    <2> QED
      BY <2>1, <2>2, <2>3, ManagerOperators
  <1> QED
    BY <1>1, <1>2, <1>3 DEF TestTask!ShutDownIsSafe

\* At the launch there is no worker yet.
LEMMA ManagerInit == ASSUME NEW on \in BOOLEAN PROVE TestTask!Launched(on) => ManagerInv
  <1> SUFFICES ASSUME TestTask!Launched(on) PROVE ManagerInv
    OBVIOUS
  <1> USE DEF TestTask!Launched
  <1>1. /\ inbox \in Seq(Requests) /\ workers \in Seq(TaskThreads)
        /\ \A w \in TaskThreads : wqueue[w] \in Seq(Requests \cup {Hangup})
    BY EmptySeq
  <1>2. TestTask!TypeOK
    BY <1>1, ManagerOperators, ManagerConstants DEF TestTask!TypeOK
  <1>3. mgr \in {"off", "start"} /\ (mgr # "off" => posted = 0)
    OBVIOUS
  <1>4. mgr # "off" => \A m \in Requests : ~ m < posted
    BY <1>3 DEF Requests
  <1> QED
    BY <1>2, <1>3, <1>4, ManagerConstants DEF ManagerInv, Serving, Ending

\* Every step of test_task(), of the manager and of a worker keeps the invariant.
LEMMA ManagerStep == ManagerInv /\ TestTask!Next => ManagerInv'
  <1> SUFFICES ASSUME ManagerInv, TestTask!Next PROVE ManagerInv'
    OBVIOUS
  <1> DEFINE T == TaskThreads
             Q == Seq(Requests \cup {Hangup})
             Places == {"off", "start", "getq", "pick", "wait", "hand", "hangup", "join", "ended"}
  <1>t. /\ posted \in 0 .. NRequests /\ inbox \in Seq(Requests) /\ workers \in Seq(T)
        /\ mgr \in Places /\ mb \in Requests \cup {Nil} /\ worker \in T \cup {Nil}
        /\ pos \in 1 .. Cardinality(T) + 1 /\ wqueue \in [T -> Q]
        /\ wplace \in [T -> {"off", "getq", "svc", "return", "ended"}]
        /\ wmb \in [T -> Requests \cup {Hangup, Nil}] /\ wdone \subseteq Requests
    BY ManagerOperators DEF ManagerInv, TestTask!TypeOK
  <1>T. TestTask!TypeOK' <=>
          /\ posted' \in 0 .. NRequests /\ inbox' \in Seq(Requests) /\ workers' \in Seq(T)
          /\ mgr' \in Places /\ mb' \in Requests \cup {Nil} /\ worker' \in T \cup {Nil}
          /\ pos' \in 1 .. Cardinality(T) + 1 /\ wqueue' \in [T -> Q]
          /\ wplace' \in [T -> {"off", "getq", "svc", "return", "ended"}]
          /\ wmb' \in [T -> Requests \cup {Hangup, Nil}] /\ wdone' \subseteq Requests
    BY ManagerOperators DEF TestTask!TypeOK
  <1>c. /\ NRequests \in Nat /\ Requests \subseteq Nat /\ Hangup \notin Requests
        /\ Nil \notin Requests /\ Nil \notin T /\ Cardinality(T) \in Nat \ {0}
    BY ManagerConstants
  <1> USE DEF Serving, Ending
  <1>1. CASE TestTask!Post
    <2>1. /\ posted \in Requests /\ inbox' = Append(inbox, posted) /\ posted' = posted + 1
          /\ posted < NRequests
          /\ UNCHANGED <<workers, mgr, mb, worker, pos, wqueue, wplace, wmb, wdone>>
      BY <1>1, <1>t, <1>c DEF TestTask!Post, Requests
    <2>2. inbox' \in Seq(Requests) /\ ToSet(inbox') = ToSet(inbox) \cup {posted}
      BY <2>1, <1>t, AppendElements
    <2>3. TestTask!TypeOK'
      BY <2>1, <2>2, <1>t, <1>c, <1>T
    <2>4. \A w \in T : (TestTask!Idle(w))' <=> TestTask!Idle(w)
      BY <2>1 DEF TestTask!Idle
    <2>5. \A w \in T : OneAtATime(w)' <=> OneAtATime(w)
      BY <2>1 DEF OneAtATime
    <2>6. ASSUME mgr # "off", NEW m \in Requests, m < posted + 1 PROVE Somewhere(m)'
      <3>1. m = posted \/ m < posted
        BY <2>6, <1>t, <1>c
      <3>2. m < posted => Somewhere(m)
        BY <2>6 DEF ManagerInv
      <3> QED
        BY <3>1, <3>2, <2>1, <2>2 DEF Somewhere
    <2>7. mgr \notin Ending
      BY <2>1, <1>t, <1>c DEF ManagerInv
    <2>8. mgr = "hand" => (TestTask!Idle(worker))'
      BY <2>1 DEF ManagerInv, TestTask!Idle
    <2> QED
      BY <2>1, <2>3, <2>4, <2>5, <2>6, <2>7, <2>8 DEF ManagerInv
  <1>2. CASE TestTask!CreateWorkerPool
    <2>1. /\ mgr = "start" /\ workers' = TestTask!SetToSeq(T)
          /\ wplace' = [w \in T |-> "getq"] /\ mgr' = "getq"
          /\ UNCHANGED <<posted, inbox, mb, worker, pos, wqueue, wmb, wdone>>
      BY <1>2 DEF TestTask!CreateWorkerPool
    <2>2. workers' \in Seq(T) /\ IsInjective(workers') /\ ToSet(workers') = T
      BY <2>1, AllWorkers
    <2>3. TestTask!TypeOK'
      BY <2>1, <2>2, <1>t, <1>T
    <2>4. \A w \in T : (TestTask!Idle(w))' /\ OneAtATime(w)' /\ w # worker'
      BY <2>1, <1>c DEF ManagerInv, TestTask!Idle, OneAtATime
    <2>5. \A m \in Requests : Somewhere(m) => Somewhere(m)'
      BY <2>1 DEF Somewhere
    <2> QED
      BY <2>1, <2>2, <2>3, <2>4, <2>5 DEF ManagerInv
  <1>3. CASE TestTask!GetQ
    <2>1. /\ mgr = "getq" /\ inbox # <<>> /\ mb' = Head(inbox) /\ inbox' = Tail(inbox)
          /\ mgr' = "pick"
          /\ UNCHANGED <<posted, workers, worker, pos, wqueue, wplace, wmb, wdone>>
      BY <1>3 DEF TestTask!GetQ
    <2>2. mb' \in Requests /\ inbox' \in Seq(Requests) /\ ToSet(inbox) = ToSet(inbox') \cup {mb'}
      BY <2>1, <1>t, TailElements
    <2>3. TestTask!TypeOK'
      BY <2>1, <2>2, <1>t, <1>T
    <2>4. \A w \in T : ((TestTask!Idle(w))' <=> TestTask!Idle(w)) /\ (OneAtATime(w)' <=> OneAtATime(w))
      BY <2>1 DEF TestTask!Idle, OneAtATime
    <2>5. \A m \in Requests : Somewhere(m) => Somewhere(m)'
      BY <2>1, <2>2, <1>c DEF Somewhere, ManagerInv
    <2>6. mb' # Nil /\ worker' = Nil
      BY <2>1, <2>2, <1>c DEF ManagerInv
    <2> QED
      BY <2>1, <2>3, <2>4, <2>5, <2>6 DEF ManagerInv
  <1>4. CASE TestTask!TimeOut
    <2>1. /\ mgr = "getq" /\ inbox = <<>> /\ posted = NRequests
          /\ \A w \in T : TestTask!Idle(w)
          /\ mgr' = "hangup"
          /\ UNCHANGED <<posted, inbox, workers, mb, worker, pos, wqueue, wplace, wmb, wdone>>
      BY <1>4 DEF TestTask!TimeOut
    <2>2. TestTask!TypeOK'
      BY <2>1, <1>t, <1>T
    <2>3. mb = Nil /\ worker = Nil /\ pos = 1 /\ IsInjective(workers) /\ ToSet(workers) = T
      BY <2>1, <1>c DEF ManagerInv
    <2>4. \A w \in T : wplace[w] = "getq" /\ wqueue[w] = <<>> /\ wmb[w] = Nil
      BY <2>1 DEF ManagerInv, OneAtATime, TestTask!Idle
    <2>5. wdone = Requests
      <3>1. \A m \in Requests : Somewhere(m)
        BY <2>1, <1>c DEF ManagerInv, Requests
      <3>2. \A m \in Requests : m \in wdone
        BY <3>1, <2>1, <2>3, <2>4, <1>c, EmptyElements DEF Somewhere
      <3> QED
        BY <3>2, <1>t
    <2>6. 1 <= Len(workers) /\ Len(workers) \in Nat
      BY <2>3, <1>t, <1>c, InjectiveLength
    <2>7. \A k \in 1 .. Len(workers) : workers[k] \in T
      BY <1>t, ElementOfSeq
    <2>8. \A k \in 1 .. Len(workers) : ShutDownAt(k)'
      BY <2>1, <2>3, <2>4, <2>6, <2>7 DEF ShutDownAt
    <2>9. \A m \in Requests : Somewhere(m)'
      BY <2>1, <2>5 DEF Somewhere
    <2> QED
      BY <2>1, <2>2, <2>3, <2>5, <2>6, <2>8, <2>9 DEF ManagerInv
  <1>5. CASE TestTask!WaitForWorker \/ TestTask!SpuriousWake
    <2>1. /\ mgr \in {"pick", "wait"} /\ mgr' \in {"pick", "wait"}
          /\ mgr' = "wait" => workers = <<>>
          /\ UNCHANGED <<posted, inbox, workers, mb, worker, pos, wqueue, wplace, wmb, wdone>>
      BY <1>5 DEF TestTask!WaitForWorker, TestTask!SpuriousWake
    <2>2. TestTask!TypeOK'
      BY <2>1, <1>t, <1>T
    <2>3. \A w \in T : ((TestTask!Idle(w))' <=> TestTask!Idle(w)) /\ (OneAtATime(w)' <=> OneAtATime(w))
      BY <2>1 DEF TestTask!Idle, OneAtATime
    <2>4. \A m \in Requests : Somewhere(m) => Somewhere(m)'
      BY <2>1 DEF Somewhere
    <2> QED
      BY <2>1, <2>2, <2>3, <2>4 DEF ManagerInv
  <1>6. CASE TestTask!Pick
    <2>1. /\ mgr = "pick" /\ workers # <<>> /\ worker' = Head(workers) /\ workers' = Tail(workers)
          /\ mgr' = "hand"
          /\ UNCHANGED <<posted, inbox, mb, pos, wqueue, wplace, wmb, wdone>>
      BY <1>6 DEF TestTask!Pick, TestTask!Taken
    <2>2. /\ IsInjective(workers) /\ worker = Nil
          /\ ToSet(workers) = {w \in T : TestTask!Idle(w) /\ w # worker}
      BY <2>1 DEF ManagerInv
    <2>3. /\ worker' \in T /\ workers' \in Seq(T) /\ IsInjective(workers')
          /\ ToSet(workers) = ToSet(workers') \cup {worker'} /\ worker' \notin ToSet(workers')
      BY <2>1, <2>2, <1>t, TailElements
    <2>4. TestTask!TypeOK'
      BY <2>1, <2>3, <1>t, <1>T
    <2>5. \A w \in T : ((TestTask!Idle(w))' <=> TestTask!Idle(w)) /\ (OneAtATime(w)' <=> OneAtATime(w))
      BY <2>1 DEF TestTask!Idle, OneAtATime
    <2>6. ToSet(workers') = {w \in T : (TestTask!Idle(w))' /\ w # worker'}
      BY <2>2, <2>3, <2>5, <1>c
    <2>7. (TestTask!Idle(worker))'
      <3>1. TestTask!Idle(worker')
        BY <2>2, <2>3
      <3> QED
        BY <3>1, <2>1 DEF TestTask!Idle
    <2>8. \A m \in Requests : Somewhere(m) => Somewhere(m)'
      BY <2>1 DEF Somewhere
    <2>9. worker' # Nil
      BY <2>3, <1>c
    <2> QED
      BY <2>1, <2>3, <2>4, <2>5, <2>6, <2>7, <2>8, <2>9 DEF ManagerInv
  <1>7. CASE TestTask!Hand
    <2>1. /\ mgr = "hand" /\ wqueue' = [wqueue EXCEPT ![worker] = Append(@, mb)]
          /\ mb' = Nil /\ worker' = Nil /\ mgr' = "getq"
          /\ UNCHANGED <<posted, inbox, workers, pos, wplace, wmb, wdone>>
      BY <1>7 DEF TestTask!Hand
    <2>2. /\ worker \in T /\ mb \in Requests /\ wplace[worker] = "getq" /\ wqueue[worker] = <<>>
          /\ wmb[worker] = Nil
      BY <2>1, <1>t DEF ManagerInv, TestTask!Idle, OneAtATime
    <2>3. wqueue' = [wqueue EXCEPT ![worker] = <<mb>>]
      BY <2>1, <2>2
    <2>4. <<mb>> \in Q /\ <<mb>> # <<>> /\ ToSet(<<mb>>) = {mb}
      BY <2>2 DEF ToSet
    <2>5. TestTask!TypeOK'
      BY <2>1, <2>3, <2>4, <1>t, <1>T
    <2>6. \A w \in T : (TestTask!Idle(w))' <=> TestTask!Idle(w) /\ w # worker
      BY <2>1, <2>3, <2>4, <1>t DEF TestTask!Idle
    <2>7. \A w \in T : OneAtATime(w)'
      BY <2>1, <2>2, <2>3, <1>t DEF ManagerInv, OneAtATime
    <2>8. ToSet(workers') = {w \in T : (TestTask!Idle(w))' /\ w # worker'}
      BY <2>1, <2>6, <1>c DEF ManagerInv
    <2>9. \A m \in Requests : Somewhere(m) => Somewhere(m)'
      <3>1. \A w \in T : ToSet(wqueue[w]) \subseteq ToSet(wqueue'[w])
        BY <2>2, <2>3, <1>t, EmptyElements
      <3>2. mb \in ToSet(wqueue'[worker])
        BY <2>2, <2>3, <2>4, <1>t
      <3> QED
        BY <3>1, <3>2, <2>1, <2>2 DEF Somewhere
    <2> QED
      BY <2>1, <2>5, <2>7, <2>8, <2>9 DEF ManagerInv
  <1>8. CASE TestTask!SendHangup
    <2> DEFINE h == workers[pos]
    <2>1. /\ mgr = "hangup" /\ wqueue' = [wqueue EXCEPT ![h] = Append(@, Hangup)] /\ mgr' = "join"
          /\ UNCHANGED <<posted, inbox, workers, mb, worker, pos, wplace, wmb, wdone>>
      BY <1>8 DEF TestTask!SendHangup
    <2>2. /\ IsInjective(workers) /\ ToSet(workers) = T /\ pos <= Len(workers) /\ wdone = Requests
          /\ posted = NRequests /\ inbox = <<>> /\ mb = Nil /\ worker = Nil
          /\ \A k \in 1 .. Len(workers) : ShutDownAt(k)
      BY <2>1 DEF ManagerInv
    <2>3. pos \in 1 .. Len(workers) /\ DOMAIN workers = 1 .. Len(workers) /\ h \in T
          /\ \A k \in 1 .. Len(workers) : workers[k] \in T /\ (workers[k] = h => k = pos)
      BY <2>2, <1>t, <1>c, LenProperties, ElementOfSeq DEF IsInjective
    <2> HIDE DEF h
    <2>4. wqueue[h] = <<>>
      BY <2>1, <2>2, <2>3 DEF ShutDownAt, h
    <2>5. wqueue' = [wqueue EXCEPT ![h] = <<Hangup>>] /\ <<Hangup>> \in Q
      BY <2>1, <2>4
    <2>6. TestTask!TypeOK'
      BY <2>1, <2>5, <1>t, <1>T
    <2>7. ASSUME NEW k \in 1 .. Len(workers) PROVE ShutDownAt(k)'
      <3>1. k = pos => workers[k] = h
        BY DEF h
      <3>2. wqueue'[workers[k]] = IF k = pos THEN <<Hangup>> ELSE wqueue[workers[k]]
        BY <2>3, <2>5, <3>1, <1>t
      <3>3. ShutDownAt(k) /\ mgr # "join"
        BY <2>1, <2>2
      <3> QED
        BY <3>2, <3>3, <2>1, <2>3 DEF ShutDownAt
    <2>8. \A m \in Requests : Somewhere(m)'
      BY <2>1, <2>2 DEF Somewhere
    <2> QED
      BY <2>1, <2>2, <2>6, <2>7, <2>8 DEF ManagerInv
  <1>9. CASE TestTask!JoinWorker
    <2>1. /\ mgr = "join" /\ wplace[workers[pos]] = "ended" /\ pos' = pos + 1
          /\ mgr' = IF pos < Len(workers) THEN "hangup" ELSE "ended"
          /\ UNCHANGED <<posted, inbox, workers, mb, worker, wqueue, wplace, wmb, wdone>>
      BY <1>9 DEF TestTask!JoinWorker
    <2>2. /\ IsInjective(workers) /\ ToSet(workers) = T /\ pos <= Len(workers) /\ wdone = Requests
          /\ posted = NRequests /\ inbox = <<>> /\ mb = Nil /\ worker = Nil
          /\ \A k \in 1 .. Len(workers) : ShutDownAt(k)
      BY <2>1 DEF ManagerInv
    <2>3. Len(workers) = Cardinality(T) /\ pos \in Nat
      BY <2>2, <1>t, InjectiveLength
    <2>4. TestTask!TypeOK'
      BY <2>1, <2>2, <2>3, <1>t, <1>c, <1>T
    <2>5. ASSUME NEW k \in 1 .. Len(workers) PROVE ShutDownAt(k)'
      <3>1. ShutDownAt(k) /\ (mgr' = "ended" => k < pos') /\ mgr' # "join"
        BY <2>1, <2>2, <2>3, <1>c
      <3>2. CASE k < pos
        BY <3>1, <3>2, <2>1, <2>3 DEF ShutDownAt
      <3>3. CASE k = pos
        BY <3>1, <3>3, <2>1, <2>3 DEF ShutDownAt
      <3>4. CASE k > pos
        <4>1. ~ k < pos /\ k # pos /\ ~ k < pos'
          BY <3>4, <2>1, <2>3
        <4> QED
          BY <3>1, <4>1, <2>1 DEF ShutDownAt
      <3> QED
        BY <3>2, <3>3, <3>4, <2>3
    <2>6. \A m \in Requests : Somewhere(m)'
      BY <2>1, <2>2 DEF Somewhere
    <2>7. mgr' # "ended" => pos' <= Len(workers)
      BY <2>1, <2>3, <1>c
    <2> QED
      BY <2>1, <2>2, <2>4, <2>5, <2>6, <2>7 DEF ManagerInv
  <1>10. ASSUME NEW w \in T, wplace[w] # "off" PROVE mgr \in Serving \/ mgr \in Ending
    BY <1>10, <1>t DEF ManagerInv
  <1>11. ASSUME mgr \in Ending, NEW w \in T
         PROVE  \E k \in 1 .. Len(workers) :
                  /\ w = workers[k] /\ ShutDownAt(k)
                  /\ \A j \in 1 .. Len(workers) : workers[j] \in T /\ (workers[j] = w => j = k)
    <2>1. /\ IsInjective(workers) /\ ToSet(workers) = T
          /\ \A k \in 1 .. Len(workers) : ShutDownAt(k)
      BY <1>11 DEF ManagerInv
    <2>2. DOMAIN workers = 1 .. Len(workers) /\ \A j \in 1 .. Len(workers) : workers[j] \in T
      BY <1>t, LenProperties, ElementOfSeq
    <2>3. PICK k \in 1 .. Len(workers) : w = workers[k]
      BY <2>1, <2>2 DEF ToSet
    <2> QED
      BY <2>1, <2>2, <2>3 DEF IsInjective
  <1>12. ASSUME NEW w \in T, TestTask!WorkerGetQ(w) PROVE ManagerInv'
    <2> DEFINE h == Head(wqueue[w])
               q == Tail(wqueue[w])
    <2>1. /\ wplace[w] = "getq" /\ wqueue[w] # <<>>
          /\ wmb' = [wmb EXCEPT ![w] = h] /\ wqueue' = [wqueue EXCEPT ![w] = q]
          /\ wplace' = [wplace EXCEPT ![w] = "svc"]
          /\ UNCHANGED <<posted, inbox, workers, mgr, mb, worker, pos, wdone>>
      BY <1>12 DEF TestTask!WorkerGetQ
    <2>2. h \in Requests \cup {Hangup} /\ q \in Q /\ ToSet(wqueue[w]) = ToSet(q) \cup {h}
      BY <2>1, <1>t, TailElements
    <2>3. TestTask!TypeOK'
      BY <2>1, <2>2, <1>t, <1>T
    <2>4. ASSUME NEW m \in Requests PROVE wqueue[w] = <<m>> => h = m /\ q = <<>>
      OBVIOUS
    <2>5. wqueue[w] = <<Hangup>> => h = Hangup /\ q = <<>>
      OBVIOUS
    <2> HIDE DEF h, q
    <2>6. CASE mgr \in Serving
      <3>1. OneAtATime(w)
        BY <2>6 DEF ManagerInv
      <3>2. h \in Requests /\ q = <<>> /\ wmb[w] = Nil
        BY <3>1, <2>1, <2>4 DEF OneAtATime
      <3>3. \A u \in T : OneAtATime(u)'
        BY <3>2, <2>1, <2>6, <1>t DEF ManagerInv, OneAtATime
      <3>4. \A u \in T : (TestTask!Idle(u))' <=> TestTask!Idle(u)
        BY <2>1, <1>t DEF TestTask!Idle
      <3>5. ASSUME NEW m \in Requests, Somewhere(m) PROVE Somewhere(m)'
        <4>1. m # wmb[w] /\ (m \in ToSet(wqueue[w]) => m = wmb'[w])
          BY <3>2, <2>1, <2>2, <1>t, <1>c, EmptyElements
        <4>2. \A u \in T : u # w => wqueue'[u] = wqueue[u] /\ wmb'[u] = wmb[u]
          BY <2>1, <1>t
        <4> QED
          BY <3>5, <4>1, <4>2, <2>1 DEF Somewhere
      <3>6. mgr = "hand" => (TestTask!Idle(worker))'
        BY <2>1, <1>t, <1>c DEF ManagerInv, TestTask!Idle
      <3> QED
        BY <2>1, <2>3, <2>6, <3>3, <3>4, <3>5, <3>6 DEF ManagerInv
    <2>7. CASE mgr \in Ending
      <3>1. PICK k \in 1 .. Len(workers) :
              /\ w = workers[k] /\ ShutDownAt(k)
              /\ \A j \in 1 .. Len(workers) : workers[j] \in T /\ (workers[j] = w => j = k)
        BY <2>7, <1>11
      <3>2. k = pos /\ mgr = "join" /\ wqueue[w] = <<Hangup>> /\ ~ k < pos
        BY <3>1, <2>1 DEF ShutDownAt
      <3>3. ASSUME NEW j \in 1 .. Len(workers) PROVE ShutDownAt(j)'
        <4>1. ShutDownAt(j)
          BY <2>7 DEF ManagerInv
        <4>2. CASE j = k
          BY <4>2, <3>1, <3>2, <2>1, <2>5, <1>t DEF ShutDownAt
        <4>3. CASE j # k
          <5>1. workers[j] # w /\ workers[j] \in T
            BY <4>3, <3>1
          <5> QED
            BY <5>1, <4>1, <2>1, <1>t DEF ShutDownAt
        <4> QED
          BY <4>2, <4>3
      <3>4. \A m \in Requests : Somewhere(m)'
        BY <2>1, <2>7 DEF Somewhere, ManagerInv
      <3> QED
        BY <2>1, <2>3, <2>7, <3>3, <3>4 DEF ManagerInv
    <2> QED
      BY <2>1, <2>6, <2>7, <1>10
  <1>13. ASSUME NEW w \in T, TestTask!ProcessMessage(w) PROVE ManagerInv'
    <2>1. PICK m0 : /\ m0 = wmb[w] /\ wplace[w] = "svc" /\ m0 # Hangup
                    /\ wdone' = wdone \cup {m0} /\ wmb' = [wmb EXCEPT ![w] = Nil]
                    /\ wplace' = [wplace EXCEPT ![w] = "return"]
                    /\ UNCHANGED <<posted, inbox, workers, mgr, mb, worker, pos, wqueue>>
      BY <1>13 DEF TestTask!ProcessMessage
    <2>2. mgr \notin Ending
      <3> SUFFICES ASSUME mgr \in Ending PROVE FALSE
        OBVIOUS
      <3>1. PICK k \in 1 .. Len(workers) : w = workers[k] /\ ShutDownAt(k)
        BY <1>11
      <3> QED
        BY <3>1, <2>1 DEF ShutDownAt
    <2>3. mgr \in Serving
      BY <2>1, <2>2, <1>10
    <2>4. OneAtATime(w)
      BY <2>3 DEF ManagerInv
    <2>5. m0 \in Requests /\ wqueue[w] = <<>>
      BY <2>4, <2>1 DEF OneAtATime
    <2>6. TestTask!TypeOK'
      BY <2>1, <2>5, <1>t, <1>T
    <2>7. \A u \in T : OneAtATime(u)'
      BY <2>1, <2>3, <2>5, <1>t DEF ManagerInv, OneAtATime
    <2>8. \A u \in T : (TestTask!Idle(u))' <=> TestTask!Idle(u)
      BY <2>1, <1>t DEF TestTask!Idle
    <2>9. ASSUME NEW m \in Requests, Somewhere(m) PROVE Somewhere(m)'
      <3>1. \A u \in T : u # w => wmb'[u] = wmb[u]
        BY <2>1, <1>t
      <3> QED
        BY <2>9, <3>1, <2>1 DEF Somewhere
    <2>10. mgr = "hand" => (TestTask!Idle(worker))'
      BY <2>1, <1>t, <1>c DEF ManagerInv, TestTask!Idle
    <2> QED
      BY <2>1, <2>2, <2>3, <2>6, <2>7, <2>8, <2>9, <2>10 DEF ManagerInv
  <1>14. ASSUME NEW w \in T, TestTask!HangUp(w) PROVE ManagerInv'
    <2>1. /\ wplace[w] = "svc" /\ wmb[w] = Hangup
          /\ wmb' = [wmb EXCEPT ![w] = Nil] /\ wplace' = [wplace EXCEPT ![w] = "ended"]
          /\ UNCHANGED <<posted, inbox, workers, mgr, mb, worker, pos, wqueue, wdone>>
      BY <1>14 DEF TestTask!HangUp
    <2>2. mgr \notin Serving
      <3>1. mgr \in Serving => OneAtATime(w)
        BY DEF ManagerInv
      <3> QED
        BY <3>1, <2>1, <1>c DEF OneAtATime
    <2>3. mgr \in Ending
      BY <2>1, <2>2, <1>10
    <2>4. TestTask!TypeOK'
      BY <2>1, <1>t, <1>T
    <2>5. PICK k \in 1 .. Len(workers) :
            /\ w = workers[k] /\ ShutDownAt(k)
            /\ \A j \in 1 .. Len(workers) : workers[j] \in T /\ (workers[j] = w => j = k)
      BY <2>3, <1>11
    <2>6. k = pos /\ mgr = "join" /\ wqueue[w] = <<>> /\ ~ k < pos
      BY <2>5, <2>1 DEF ShutDownAt
    <2>7. ASSUME NEW j \in 1 .. Len(workers) PROVE ShutDownAt(j)'
      <3>1. ShutDownAt(j)
        BY <2>3 DEF ManagerInv
      <3>2. CASE j = k
        BY <3>2, <2>1, <2>5, <2>6, <1>t DEF ShutDownAt
      <3>3. CASE j # k
        <4>1. workers[j] # w /\ workers[j] \in T
          BY <3>3, <2>5
        <4> QED
          BY <4>1, <3>1, <2>1, <1>t DEF ShutDownAt
      <3> QED
        BY <3>2, <3>3
    <2>8. \A m \in Requests : Somewhere(m)'
      BY <2>1, <2>3 DEF Somewhere, ManagerInv
    <2> QED
      BY <2>1, <2>2, <2>3, <2>4, <2>7, <2>8 DEF ManagerInv
  <1>15. ASSUME NEW w \in T, TestTask!ReturnToWork(w) PROVE ManagerInv'
    <2>1. /\ wplace[w] = "return" /\ workers' = Append(workers, w)
          /\ mgr' = IF mgr = "wait" THEN "pick" ELSE mgr
          /\ wplace' = [wplace EXCEPT ![w] = "getq"]
          /\ UNCHANGED <<posted, inbox, mb, worker, pos, wqueue, wmb, wdone>>
      BY <1>15 DEF TestTask!ReturnToWork, TestTask!Listed, TestTask!Signalled
    <2>2. mgr \notin Ending
      <3> SUFFICES ASSUME mgr \in Ending PROVE FALSE
        OBVIOUS
      <3>1. PICK k \in 1 .. Len(workers) : w = workers[k] /\ ShutDownAt(k)
        BY <1>11
      <3> QED
        BY <3>1, <2>1 DEF ShutDownAt
    <2>3. mgr \in Serving /\ mgr' \in Serving
      BY <2>1, <2>2, <1>10
    <2>4. OneAtATime(w) /\ IsInjective(workers)
          /\ ToSet(workers) = {u \in T : TestTask!Idle(u) /\ u # worker}
      BY <2>3 DEF ManagerInv
    <2>5. wqueue[w] = <<>> /\ wmb[w] = Nil /\ ~ TestTask!Idle(w) /\ w # worker /\ w \notin ToSet(workers)
      BY <2>1, <2>4, <1>c DEF OneAtATime, TestTask!Idle, ManagerInv
    <2>6. /\ workers' \in Seq(T) /\ IsInjective(workers')
          /\ ToSet(workers') = ToSet(workers) \cup {w}
      BY <2>1, <2>4, <2>5, <1>t, AppendElements
    <2>7. TestTask!TypeOK'
      BY <2>1, <2>6, <1>t, <1>T
    <2>8. \A u \in T : OneAtATime(u)'
      BY <2>1, <2>3, <2>5, <1>t DEF ManagerInv, OneAtATime
    <2>9. \A u \in T : (TestTask!Idle(u))' <=> TestTask!Idle(u) \/ u = w
      BY <2>1, <2>5, <1>t DEF TestTask!Idle
    <2>10. ToSet(workers') = {u \in T : (TestTask!Idle(u))' /\ u # worker'}
      BY <2>1, <2>4, <2>5, <2>6, <2>9
    <2>11. \A m \in Requests : Somewhere(m) => Somewhere(m)'
      BY <2>1 DEF Somewhere
    <2>12. mgr' = "hand" => mgr = "hand" /\ (TestTask!Idle(worker))'
      BY <2>1, <2>9, <1>t, <1>c DEF ManagerInv
    <2>13. mgr' # "wait" /\ mgr # "off"
           /\ (mgr' \notin {"pick", "wait", "hand"} <=> mgr \notin {"pick", "wait", "hand"})
           /\ (mgr' # "hand" <=> mgr # "hand")
      BY <2>1, <2>3
    <2> QED
      BY <2>1, <2>2, <2>3, <2>6, <2>7, <2>8, <2>10, <2>11, <2>12, <2>13 DEF ManagerInv
  <1> QED
    BY <1>1, <1>2, <1>3, <1>4, <1>5, <1>6, <1>7, <1>8, <1>9, <1>12, <1>13, <1>14, <1>15
       DEF TestTask!Next, TestTask!Manager, TestTask!Worker

-----------------------------------------------------------------------------
(* AceThreadPool.                                                          *)

Data == 0 .. NRequests - 1

\* The first k messages of q have data, and no other.
DataFirst(q, k) == \A j \in 1 .. Len(q) : q[j] # NullMsg <=> j <= k

\* A thread has met an empty message.
EmptyMet == \E t \in TaskThreads : \/ ppc[t] = "closed"
                                   \/ ppc[t] = "svc" /\ pmsg[t] = NullMsg

PoolInv ==
  /\ TestThreadPool!TypeOK
  /\ \E k \in 0 .. Len(pqueue) : DataFirst(pqueue, k)
  /\ \A a, j \in 1 .. Len(pqueue) : pqueue[a] = pqueue[j] /\ pqueue[a] # NullMsg => a = j
  /\ \A j \in 1 .. Len(pqueue) :
       pqueue[j] # NullMsg => pqueue[j] < pcount /\ \A t \in TaskThreads : pmsg[t] # pqueue[j]
  /\ \A t \in TaskThreads :
       /\ ppc[t] = "svc" => pmsg[t] \in Data \cup {NullMsg}
       /\ ppc[t] # "svc" => pmsg[t] = Nil
       /\ pmsg[t] \in Data => /\ pmsg[t] < pcount
                              /\ \A u \in TaskThreads : pmsg[u] = pmsg[t] => u = t
  /\ \A m \in phandled : m < pcount
  /\ EmptyMet => \A j \in 1 .. Len(pqueue) : pqueue[j] = NullMsg
  /\ pmain \in {"off", "produce"} =>
       ~ EmptyMet /\ \A j \in 1 .. Len(pqueue) : pqueue[j] # NullMsg
  /\ pmain = "done" => \A t \in TaskThreads : ppc[t] = "closed"

\* An empty message and a thread without one are no data.
LEMMA PoolConstants ==
  /\ NRequests \in Nat /\ Data \subseteq Nat /\ NullMsg \notin Data /\ Nil \notin Data
  /\ TestThreadPool!Data = Data
  /\ \A S : TestThreadPool!Cardinality(S) = Cardinality(S)
  /\ Cardinality(TaskThreads) \in Nat \ {0}
  <1>1. \A S : TestThreadPool!Cardinality(S) = Cardinality(S)
    BY DEF Cardinality, TestThreadPool!Cardinality
  <1>2. Cardinality(TaskThreads) \in Nat \ {0}
    BY AceAssumption, FS_CardinalityType, FS_EmptySet
  <1> QED
    BY <1>1, <1>2, AceAssumption DEF Data, TestThreadPool!Data

\* At the launch there is no message.
LEMMA PoolInit ==
  ASSUME NEW on \in BOOLEAN PROVE TestThreadPool!Launched(on) => PoolInv
  <1> SUFFICES ASSUME TestThreadPool!Launched(on) PROVE PoolInv
    OBVIOUS
  <1> USE DEF TestThreadPool!Launched
  <1>1. pqueue \in Seq(Data \cup {NullMsg}) /\ Len(pqueue) = 0
    BY EmptySeq
  <1>2. TestThreadPool!TypeOK
    BY <1>1, PoolConstants DEF TestThreadPool!TypeOK
  <1>3. DataFirst(pqueue, 0) /\ ~ EmptyMet
    BY <1>1 DEF DataFirst, EmptyMet
  <1>4. 0 \in 0 .. Len(pqueue)
    BY <1>1
  <1> QED
    BY <1>1, <1>2, <1>3, <1>4, PoolConstants DEF PoolInv

\* Every step of the producer and of a thread keeps the invariant.
LEMMA PoolStep == PoolInv /\ TestThreadPool!Next => PoolInv'
  <1> SUFFICES ASSUME PoolInv, TestThreadPool!Next PROVE PoolInv'
    OBVIOUS
  <1> DEFINE T == TaskThreads
             M == Data \cup {NullMsg}
  <1>t. /\ pqueue \in Seq(M)
        /\ ppc \in [T -> {"off", "getq", "svc", "closed"}]
        /\ pmsg \in [T -> M \cup {Nil}]
        /\ pmain \in {"off", "produce", "close", "done"}
        /\ pcount \in 0 .. NRequests /\ pnulls \in 0 .. Cardinality(T)
        /\ phandled \subseteq Data
    BY PoolConstants DEF PoolInv, TestThreadPool!TypeOK
  <1>c. /\ NRequests \in Nat /\ Data \subseteq Nat /\ NullMsg \notin Data /\ Nil \notin Data
        /\ Cardinality(T) \in Nat \ {0}
        /\ Len(pqueue) \in Nat /\ \A j \in 1 .. Len(pqueue) : pqueue[j] \in M
        /\ \A m \in Data : m \in Nat
    BY <1>t, PoolConstants, LenProperties, ElementOfSeq
  <1>k. PICK k \in 0 .. Len(pqueue) : DataFirst(pqueue, k)
    BY DEF PoolInv
  <1>T. TestThreadPool!TypeOK' <=>
          /\ pqueue' \in Seq(M)
          /\ ppc' \in [T -> {"off", "getq", "svc", "closed"}]
          /\ pmsg' \in [T -> M \cup {Nil}]
          /\ pmain' \in {"off", "produce", "close", "done"}
          /\ pcount' \in 0 .. NRequests /\ pnulls' \in 0 .. Cardinality(T)
          /\ phandled' \subseteq Data
    BY PoolConstants DEF TestThreadPool!TypeOK
  <1>1. CASE TestThreadPool!Put
    <2> USE <1>1 DEF TestThreadPool!Put, TestThreadPool!PutLast
    <2>1. pcount \in Data /\ pqueue' = Append(pqueue, pcount) /\ pcount' = pcount + 1
      BY <1>c, <1>t DEF Data
    <2>2. /\ pqueue' \in Seq(M) /\ Len(pqueue') = Len(pqueue) + 1
          /\ \A j \in 1 .. Len(pqueue) : pqueue'[j] = pqueue[j]
          /\ pqueue'[Len(pqueue) + 1] = pcount
      BY <2>1, <1>t, AppendProperties
    <2>3. TestThreadPool!TypeOK'
      BY <2>1, <2>2, <1>t, <1>c, <1>T DEF Data
    <2>4. /\ ~ EmptyMet /\ ~ EmptyMet'
          /\ \A j \in 1 .. Len(pqueue) : pqueue[j] # NullMsg
      BY DEF PoolInv, EmptyMet
    <2>5. DataFirst(pqueue', Len(pqueue')) /\ Len(pqueue') \in 0 .. Len(pqueue')
      BY <2>1, <2>2, <2>4, <1>c DEF DataFirst
    <2>6. \A j \in 1 .. Len(pqueue) : pqueue[j] < pcount
      BY <2>4 DEF PoolInv
    <2>7. \A a, j \in 1 .. Len(pqueue') : pqueue'[a] = pqueue'[j] => a = j
      BY <2>2, <2>4, <2>6, <1>c, <1>t DEF PoolInv
    <2>12. pcount \in Nat /\ \A m \in Data : m \in Nat /\ (m < pcount => m < pcount + 1)
      BY <2>1, <1>c
    <2>8. \A t \in T : pmsg[t] # pcount
      BY <2>1, <1>c, <1>t DEF PoolInv
    <2>9. \A j \in 1 .. Len(pqueue') :
            pqueue'[j] # NullMsg /\ pqueue'[j] < pcount' /\ \A t \in T : pmsg'[t] # pqueue'[j]
      <3>1. \A j \in 1 .. Len(pqueue) : \A t \in T : pmsg[t] # pqueue[j]
        BY <2>4 DEF PoolInv
      <3>2. \A j \in 1 .. Len(pqueue') :
              \/ j \in 1 .. Len(pqueue) /\ pqueue'[j] = pqueue[j]
              \/ pqueue'[j] = pcount
        BY <2>2, <1>c
      <3>3. \A j \in 1 .. Len(pqueue') : pqueue'[j] \in Data /\ pqueue'[j] < pcount + 1
        <4>1. \A j \in 1 .. Len(pqueue) : pqueue[j] \in Data /\ pqueue[j] < pcount + 1
          BY <2>4, <2>6, <2>12, <1>c
        <4>2. pcount \in Data /\ pcount < pcount + 1
          BY <2>1, <2>12
        <4> QED
          BY <3>2, <4>1, <4>2
      <3> QED
        BY <3>1, <3>2, <3>3, <2>1, <2>8, <1>c
    <2>10. \A m \in phandled' : m < pcount'
      BY <2>1, <1>c, <1>t DEF PoolInv
    <2>11. \A t \in T : pmsg[t] \in Data => pmsg[t] < pcount'
      <3>1. \A t \in T : pmsg[t] \in Data => pmsg[t] < pcount
        BY DEF PoolInv
      <3> QED
        BY <3>1, <2>1, <2>12
    <2> QED
      BY <2>3, <2>4, <2>5, <2>7, <2>9, <2>10, <2>11, <1>t DEF PoolInv
  <1>2. CASE TestThreadPool!Eof
    <2> USE <1>2 DEF TestThreadPool!Eof
    <2>1. TestThreadPool!ThrCount \in 0 .. Cardinality(T)
      <3> DEFINE S == {t \in T : ppc[t] # "closed"}
      <3>1. S \in SUBSET T /\ IsFiniteSet(T)
        BY AceAssumption
      <3>2. Cardinality(S) \in Nat /\ Cardinality(S) <= Cardinality(T)
        BY <3>1, FS_Subset, FS_CardinalityType
      <3> QED
        BY <3>2, <1>c, PoolConstants DEF TestThreadPool!ThrCount
    <2> QED
      BY <2>1, <1>t, <1>T DEF PoolInv, EmptyMet
  <1>3. CASE TestThreadPool!PutNull
    <2> USE <1>3 DEF TestThreadPool!PutNull, TestThreadPool!PutLast
    <2>1. /\ pqueue' \in Seq(M) /\ Len(pqueue') = Len(pqueue) + 1
          /\ \A j \in 1 .. Len(pqueue) : pqueue'[j] = pqueue[j]
          /\ pqueue'[Len(pqueue) + 1] = NullMsg
      BY <1>t, AppendProperties
    <2>2. TestThreadPool!TypeOK'
      BY <2>1, <1>t, <1>c, <1>T
    <2>3. DataFirst(pqueue', k) /\ k \in 0 .. Len(pqueue')
      BY <2>1, <1>c, <1>k DEF DataFirst
    <2>4. EmptyMet' <=> EmptyMet
      BY DEF EmptyMet
    <2>5. \A j \in 1 .. Len(pqueue') : pqueue'[j] # NullMsg => j \in 1 .. Len(pqueue)
      BY <2>1, <1>c
    <2>6. \A a, j \in 1 .. Len(pqueue') : pqueue'[a] = pqueue'[j] /\ pqueue'[a] # NullMsg => a = j
      BY <2>1, <2>5 DEF PoolInv
    <2>7. \A j \in 1 .. Len(pqueue') : pqueue'[j] # NullMsg =>
            pqueue'[j] < pcount /\ \A t \in T : pmsg[t] # pqueue'[j]
      BY <2>1, <2>5 DEF PoolInv
    <2>8. EmptyMet => \A j \in 1 .. Len(pqueue') : pqueue'[j] = NullMsg
      BY <2>1, <2>5 DEF PoolInv
    <2> QED
      BY <2>2, <2>3, <2>4, <2>6, <2>7, <2>8 DEF PoolInv
  <1>4. CASE TestThreadPool!Wait
    BY <1>4, <1>t, <1>T DEF TestThreadPool!Wait, PoolInv, EmptyMet
  <1>5. ASSUME NEW t \in T, TestThreadPool!GetQ(t) PROVE PoolInv'
    <2> USE <1>5 DEF TestThreadPool!GetQ
    <2> DEFINE h == Head(pqueue)
    <2>1. /\ pqueue' \in Seq(M) /\ Len(pqueue') = Len(pqueue) - 1
          /\ \A j \in 1 .. Len(pqueue') : pqueue'[j] = pqueue[j + 1]
          /\ h = pqueue[1] /\ h \in M /\ Len(pqueue) > 0
      BY <1>t, HeadTailProperties, EmptySeq
    <2>2. /\ pmsg' = [pmsg EXCEPT ![t] = h] /\ pmsg[t] = Nil
          /\ ppc' = [ppc EXCEPT ![t] = "svc"] /\ ppc[t] = "getq"
      BY DEF PoolInv
    <2> HIDE DEF h
    <2>3. TestThreadPool!TypeOK'
      BY <2>1, <2>2, <1>t, <1>c, <1>T
    <2>4. \E n \in 0 .. Len(pqueue') : DataFirst(pqueue', n)
      <3>1. CASE k = 0
        <4>1. DataFirst(pqueue', 0) /\ 0 \in 0 .. Len(pqueue')
          BY <3>1, <2>1, <1>c, <1>k DEF DataFirst
        <4> QED
          BY <4>1
      <3>2. CASE k > 0
        <4>1. DataFirst(pqueue', k - 1) /\ k - 1 \in 0 .. Len(pqueue')
          BY <3>2, <2>1, <1>c, <1>k DEF DataFirst
        <4> QED
          BY <4>1
      <3> QED
        BY <3>1, <3>2, <1>k
    <2>5. \A a, j \in 1 .. Len(pqueue') : pqueue'[a] = pqueue'[j] /\ pqueue'[a] # NullMsg => a = j
      BY <2>1, <1>c DEF PoolInv
    <2>6. /\ h # NullMsg => /\ h \in Data /\ h < pcount
                            /\ \A u \in T : pmsg[u] # h
                            /\ \A j \in 1 .. Len(pqueue') : pqueue'[j] # h
      BY <2>1, <1>c DEF PoolInv
    <2>7. \A j \in 1 .. Len(pqueue') : pqueue'[j] # NullMsg =>
            pqueue'[j] < pcount /\ \A u \in T : pmsg'[u] # pqueue'[j]
      BY <2>1, <2>2, <2>6, <1>c, <1>t DEF PoolInv
    <2>8. \A u \in T : /\ ppc'[u] = "svc" => pmsg'[u] \in Data \cup {NullMsg}
                       /\ ppc'[u] # "svc" => pmsg'[u] = Nil
      BY <2>1, <2>2, <1>t DEF PoolInv
    <2>9. \A u \in T : pmsg'[u] \in Data =>
            pmsg'[u] < pcount /\ \A v \in T : pmsg'[v] = pmsg'[u] => v = u
      BY <2>2, <2>6, <1>c, <1>t DEF PoolInv
    <2>10. EmptyMet' => EmptyMet \/ h = NullMsg
      BY <2>2, <1>t DEF EmptyMet
    <2>11. EmptyMet \/ h = NullMsg => \A j \in 1 .. Len(pqueue') : pqueue'[j] = NullMsg
      BY <2>1, <1>c, <1>k DEF PoolInv, DataFirst
    <2>12. pmain' \in {"off", "produce"} =>
             ~ EmptyMet' /\ \A j \in 1 .. Len(pqueue') : pqueue'[j] # NullMsg
      BY <2>1, <2>10, <1>c DEF PoolInv
    <2>13. pmain # "done"
      BY <2>2 DEF PoolInv
    <2>14. \A m \in phandled' : m < pcount
      BY DEF PoolInv
    <2> QED
      BY <2>3, <2>4, <2>5, <2>7, <2>8, <2>9, <2>10, <2>11, <2>12, <2>13, <2>14 DEF PoolInv
  <1>6. ASSUME NEW t \in T, TestThreadPool!Handle(t) PROVE PoolInv'
    <2> USE <1>6 DEF TestThreadPool!Handle, TestThreadPool!IsData
    <2>1. pmsg[t] \in Data /\ pmsg[t] < pcount
      BY DEF PoolInv
    <2>2. TestThreadPool!TypeOK'
      BY <2>1, <1>t, <1>T
    <2>3. EmptyMet' <=> EmptyMet
      BY <1>t DEF EmptyMet
    <2>4. \A u \in T : pmsg'[u] = IF u = t THEN Nil ELSE pmsg[u]
      BY <1>t
    <2>5. \A u \in T : pmsg'[u] \in Data =>
            pmsg'[u] < pcount /\ \A v \in T : pmsg'[v] = pmsg'[u] => v = u
      BY <2>4, <1>c DEF PoolInv
    <2>6. \A j \in 1 .. Len(pqueue) : pqueue[j] # NullMsg => \A u \in T : pmsg'[u] # pqueue[j]
      BY <2>4, <1>c DEF PoolInv
    <2>7. \A u \in T : /\ ppc'[u] = "svc" => pmsg'[u] \in Data \cup {NullMsg}
                       /\ ppc'[u] # "svc" => pmsg'[u] = Nil
      BY <2>4, <1>t DEF PoolInv
    <2>8. pmain # "done"
      BY DEF PoolInv
    <2>9. \A m \in phandled' : m < pcount
      BY <2>1 DEF PoolInv
    <2> QED
      BY <2>2, <2>3, <2>5, <2>6, <2>7, <2>8, <2>9 DEF PoolInv
  <1>7. ASSUME NEW t \in T, TestThreadPool!Break(t) PROVE PoolInv'
    <2> USE <1>7 DEF TestThreadPool!Break, TestThreadPool!IsData
    <2>1. TestThreadPool!TypeOK'
      BY <1>t, <1>T
    <2>2. EmptyMet /\ EmptyMet'
      BY <1>t DEF EmptyMet
    <2>3. \A u \in T : pmsg'[u] = IF u = t THEN Nil ELSE pmsg[u]
      BY <1>t
    <2>4. \A u \in T : pmsg'[u] \in Data =>
            pmsg'[u] < pcount /\ \A v \in T : pmsg'[v] = pmsg'[u] => v = u
      BY <2>3, <1>c DEF PoolInv
    <2>5. \A j \in 1 .. Len(pqueue) : pqueue[j] # NullMsg => \A u \in T : pmsg'[u] # pqueue[j]
      BY <2>3, <1>c DEF PoolInv
    <2>6. \A u \in T : /\ ppc'[u] = "svc" => pmsg'[u] \in Data \cup {NullMsg}
                       /\ ppc'[u] # "svc" => pmsg'[u] = Nil
      BY <2>3, <1>t DEF PoolInv
    <2>7. pmain \notin {"done", "off", "produce"}
      BY <2>2 DEF PoolInv
    <2> QED
      BY <2>1, <2>2, <2>4, <2>5, <2>6, <2>7 DEF PoolInv
  <1> QED
    BY <1>1, <1>2, <1>3, <1>4, <1>5, <1>6, <1>7
       DEF TestThreadPool!Next, TestThreadPool!Producer, TestThreadPool!Svc

\* The part of a queue that has data.
LEMMA DataPrefix ==
  ASSUME NEW q \in Seq(Data \cup {NullMsg}), NEW k \in 0 .. Len(q), DataFirst(q, k)
  PROVE  /\ Cardinality({a \in DOMAIN q : q[a] # NullMsg}) = k
         /\ SubSeq(q, 1, k) \in Seq(Data) /\ Len(SubSeq(q, 1, k)) = k
         /\ \A a \in 1 .. k : SubSeq(q, 1, k)[a] = q[a]
  <1>1. /\ Len(q) \in Nat /\ DOMAIN q = 1 .. Len(q) /\ k \in Int /\ k >= 0
        /\ \A a \in 1 .. Len(q) : q[a] \in Data \cup {NullMsg}
    BY LenProperties, ElementOfSeq
  <1>2. {a \in DOMAIN q : q[a] # NullMsg} = 1 .. k
    BY <1>1 DEF DataFirst
  <1>3. Cardinality(1 .. k) = k
    BY <1>1, FS_Interval
  <1>4. \A a \in 1 .. k : q[a] \in Data
    BY <1>1 DEF DataFirst
  <1>5. /\ SubSeq(q, 1, k) \in Seq(Data)
        /\ Len(SubSeq(q, 1, k)) = IF 1 <= k THEN k - 1 + 1 ELSE 0
        /\ \A a \in 1 .. k - 1 + 1 : SubSeq(q, 1, k)[a] = q[1 + a - 1]
    BY <1>1, <1>4, SubSeqProperties
  <1> HIDE DEF DataFirst
  <1>6. Len(SubSeq(q, 1, k)) = k /\ \A a \in 1 .. k : SubSeq(q, 1, k)[a] = q[a]
    BY <1>1, <1>5
  <1> QED
    BY <1>2, <1>3, <1>5, <1>6

\* An empty message at the end adds no data.
LEMMA DataStays ==
  ASSUME NEW q \in Seq(Data \cup {NullMsg}), NEW r \in Seq(Data \cup {NullMsg}),
         NEW k \in 0 .. Len(q), DataFirst(q, k), k <= Len(r), DataFirst(r, k),
         \A a \in 1 .. k : r[a] = q[a]
  PROVE  SubSeq(r, 1, k) = SubSeq(q, 1, k)
  <1>1. k \in 0 .. Len(r) /\ k \in Nat
    BY LenProperties
  <1>2. /\ SubSeq(q, 1, k) \in Seq(Data) /\ Len(SubSeq(q, 1, k)) = k
        /\ \A a \in 1 .. k : SubSeq(q, 1, k)[a] = q[a]
    BY DataPrefix
  <1>3. /\ SubSeq(r, 1, k) \in Seq(Data) /\ Len(SubSeq(r, 1, k)) = k
        /\ \A a \in 1 .. k : SubSeq(r, 1, k)[a] = r[a]
    BY <1>1, DataPrefix
  <1> DEFINE s == SubSeq(r, 1, k)
             t == SubSeq(q, 1, k)
  <1>4. s \in Seq(Data) /\ t \in Seq(Data) /\ Len(s) = Len(t) /\ \A a \in 1 .. Len(s) : s[a] = t[a]
    BY <1>2, <1>3
  <1> HIDE DEF s, t
  <1>5. s = t
    BY <1>4, SeqEqual
  <1> QED
    BY <1>5 DEF s, t

\* What the mapping of AceThreadPool makes of a queue whose first k messages
\* have data.
LEMMA PoolMapping ==
  ASSUME NEW k \in 0 .. Len(pqueue), DataFirst(pqueue, k), TestThreadPool!TypeOK
  PROVE  /\ TestThreadPool!DataLen = k
         /\ SubSeq(pqueue, 1, k) \in Seq(Data) /\ Len(SubSeq(pqueue, 1, k)) = k
         /\ \A a \in 1 .. k : SubSeq(pqueue, 1, k)[a] = pqueue[a]
  <1>1. pqueue \in Seq(Data \cup {NullMsg})
    BY PoolConstants DEF TestThreadPool!TypeOK
  <1>2. TestThreadPool!DataLen = Cardinality({a \in DOMAIN pqueue : pqueue[a] # NullMsg})
    BY PoolConstants DEF TestThreadPool!DataLen, TestThreadPool!IsData
  <1> QED
    BY <1>1, <1>2, DataPrefix

\* A step of the program is one of the executor, or none.
LEMMA PoolImplements ==
  PoolInv /\ PoolInv' /\ TestThreadPool!Next
    => [TestThreadPool!Executor!Next]_(TestThreadPool!Executor!vars)
  <1> SUFFICES ASSUME PoolInv, PoolInv', TestThreadPool!Next
               PROVE  [TestThreadPool!Executor!Next]_(TestThreadPool!Executor!vars)
    OBVIOUS
  <1> DEFINE T == TaskThreads
             M == Data \cup {NullMsg}
             d == SubSeq(pqueue, 1, TestThreadPool!DataLen)
             run == {pmsg[t] : t \in T} \ {NullMsg, Nil}
  <1>t. /\ pqueue \in Seq(M) /\ pqueue' \in Seq(M)
        /\ ppc \in [T -> {"off", "getq", "svc", "closed"}]
        /\ pmsg \in [T -> M \cup {Nil}] /\ pcount \in 0 .. NRequests
        /\ pmain \in {"off", "produce", "close", "done"}
        /\ TestThreadPool!TypeOK /\ TestThreadPool!TypeOK'
    BY PoolConstants DEF PoolInv, TestThreadPool!TypeOK
  <1>c. /\ NRequests \in Nat /\ Data \subseteq Nat /\ NullMsg \notin Data /\ Nil \notin Data
        /\ Len(pqueue) \in Nat /\ Len(pqueue') \in Nat
        /\ \A j \in 1 .. Len(pqueue) : pqueue[j] \in M
    BY <1>t, PoolConstants, LenProperties, ElementOfSeq
  <1>k. PICK k \in 0 .. Len(pqueue) : DataFirst(pqueue, k)
    BY DEF PoolInv
  <1>l. PICK l \in 0 .. Len(pqueue') : DataFirst(pqueue', l)
    BY DEF PoolInv
  <1>d. /\ d = SubSeq(pqueue, 1, k) /\ d \in Seq(Data) /\ Len(d) = k
        /\ \A a \in 1 .. k : d[a] = pqueue[a]
    BY <1>t, <1>k, PoolMapping
  <1>e. /\ d' = SubSeq(pqueue', 1, l) /\ d' \in Seq(Data) /\ Len(d') = l
        /\ \A a \in 1 .. l : d'[a] = pqueue'[a]
    <2>1. TestThreadPool!DataLen' = Cardinality({a \in DOMAIN pqueue' : pqueue'[a] # NullMsg})
      BY PoolConstants DEF TestThreadPool!DataLen, TestThreadPool!IsData
    <2>2. TestThreadPool!DataLen' = l
      BY <2>1, <1>t, <1>l, DataPrefix
    <2>3. d' = SubSeq(pqueue', 1, l)
      BY <2>2
    <2> HIDE DEF d
    <2> QED
      BY <2>3, <1>t, <1>l, DataPrefix
  <1>m. /\ \A s : TestThreadPool!Executor!ToSet(s) = ToSet(s)
        /\ ToSet(d) = {pqueue[a] : a \in 1 .. k}
    <2>1. \A s : TestThreadPool!Executor!ToSet(s) = ToSet(s)
      BY DEF ToSet, TestThreadPool!Executor!ToSet
    <2>2. DOMAIN d = 1 .. k
      BY <1>d, LenProperties
    <2> HIDE DEF d
    <2>3. ToSet(d) = {d[a] : a \in 1 .. k}
      BY <2>2 DEF ToSet
    <2> QED
      BY <2>1, <2>3, <1>d
  <1> HIDE DEF d
  <1>1. CASE TestThreadPool!Put
    <2> USE <1>1 DEF TestThreadPool!Put, TestThreadPool!PutLast
    <2>1. pcount \in Data /\ pqueue' = Append(pqueue, pcount) /\ UNCHANGED <<pmsg, pmain, phandled>>
      BY <1>c, <1>t DEF Data
    <2>2. /\ Len(pqueue') = Len(pqueue) + 1
          /\ \A j \in 1 .. Len(pqueue) : pqueue'[j] = pqueue[j]
          /\ pqueue'[Len(pqueue) + 1] = pcount
      BY <2>1, <1>t, AppendProperties
    <2>3. \A j \in 1 .. Len(pqueue) : pqueue[j] # NullMsg /\ pqueue[j] < pcount
      BY DEF PoolInv
    <2>4. k = Len(pqueue) /\ l = k + 1
      BY <2>1, <2>2, <2>3, <1>c, <1>k, <1>l DEF DataFirst
    <2>5. d' = Append(d, pcount)
      <3> DEFINE e == Append(d, pcount)
      <3>1. /\ e \in Seq(Data) /\ Len(e) = k + 1 /\ e[k + 1] = pcount
            /\ \A a \in 1 .. k : e[a] = d[a]
        BY <2>1, <1>d, AppendProperties
      <3> HIDE DEF e
      <3>2. \A a \in 1 .. l : d'[a] = e[a]
        BY <3>1, <2>2, <2>4, <1>d, <1>e
      <3>3. d' = e
        BY <3>1, <3>2, <2>4, <1>e, SeqEqual
      <3> QED
        BY <3>3 DEF e
    <2>6. pcount \notin ToSet(d)
      BY <2>1, <2>3, <2>4, <1>c, <1>m
    <2>7. pcount \notin run
      BY <2>1, <1>c, <1>t DEF PoolInv
    <2>8. pcount \notin phandled
      BY <2>1, <1>c DEF PoolInv
    <2>9. TestThreadPool!Executor!Accept(pcount)
      BY <2>1, <2>5, <2>6, <2>7, <2>8, <1>m
         DEF d, TestThreadPool!Executor!Accept, TestThreadPool!Executor!Submitted
    <2> QED
      BY <2>1, <2>9, PoolConstants DEF TestThreadPool!Executor!Next
  <1>2. CASE TestThreadPool!Eof
    <2>1. TestThreadPool!Executor!Close
      BY <1>2 DEF TestThreadPool!Eof, TestThreadPool!Executor!Close,
                  TestThreadPool!DataLen, TestThreadPool!IsData
    <2> QED
      BY <2>1 DEF TestThreadPool!Executor!Next
  <1>3. CASE TestThreadPool!PutNull
    <2> USE <1>3 DEF TestThreadPool!PutNull, TestThreadPool!PutLast
    <2>1. /\ Len(pqueue') = Len(pqueue) + 1
          /\ \A j \in 1 .. Len(pqueue) : pqueue'[j] = pqueue[j]
          /\ pqueue'[Len(pqueue) + 1] = NullMsg
      BY <1>t, AppendProperties
    <2>2. l = k /\ k <= Len(pqueue')
      BY <2>1, <1>c, <1>k, <1>l DEF DataFirst
    <2>3. d' = d
      BY <2>1, <2>2, <1>c, <1>d, <1>e, <1>k, <1>l, <1>t, DataStays
    <2> QED
      BY <2>3 DEF d, TestThreadPool!Executor!vars
  <1>4. CASE TestThreadPool!Wait
    <2> USE <1>4 DEF TestThreadPool!Wait
    <2>1. PICK t \in T : ppc[t] = "closed"
      BY AceAssumption
    <2>2. \A j \in 1 .. Len(pqueue) : pqueue[j] = NullMsg
      BY <2>1 DEF PoolInv, EmptyMet
    <2>3. d = <<>>
      BY <2>2, <1>c, <1>d, <1>k, EmptySeq DEF DataFirst
    <2>4. run = {}
      BY <1>t DEF PoolInv
    <2>5. d' = d
      BY DEF d, TestThreadPool!DataLen, TestThreadPool!IsData
    <2>6. TestThreadPool!Executor!Terminate
      BY <2>3, <2>4, <2>5 DEF d, TestThreadPool!Executor!Terminate
    <2> QED
      BY <2>6 DEF TestThreadPool!Executor!Next
  <1>5. ASSUME NEW t \in T, TestThreadPool!GetQ(t)
        PROVE  [TestThreadPool!Executor!Next]_(TestThreadPool!Executor!vars)
    <2> USE <1>5 DEF TestThreadPool!GetQ
    <2> DEFINE h == Head(pqueue)
    <2>1. /\ Len(pqueue') = Len(pqueue) - 1
          /\ \A j \in 1 .. Len(pqueue') : pqueue'[j] = pqueue[j + 1]
          /\ h = pqueue[1] /\ h \in M /\ Len(pqueue) > 0
      BY <1>t, HeadTailProperties, EmptySeq
    <2>2. /\ pmsg' = [pmsg EXCEPT ![t] = h] /\ pmsg[t] = Nil
          /\ ppc[t] = "getq" /\ pmain # "done" /\ UNCHANGED <<pmain, phandled>>
      BY DEF PoolInv
    <2> HIDE DEF h
    <2>3. CASE k = 0
      <3>1. h = NullMsg
        BY <2>1, <2>3, <1>c, <1>k DEF DataFirst
      <3>2. l = 0
        BY <2>1, <2>3, <1>c, <1>k, <1>l DEF DataFirst
      <3>3. d = <<>> /\ d' = <<>>
        BY <2>3, <3>2, <1>d, <1>e, EmptySeq
      <3>4. run' = run
        BY <2>2, <3>1, <1>t
      <3> QED
        BY <2>2, <3>3, <3>4 DEF d, TestThreadPool!Executor!vars
    <2>4. CASE k > 0
      <3>1. h \in Data
        BY <2>1, <2>4, <1>c, <1>k DEF DataFirst
      <3>2. l = k - 1
        BY <2>1, <2>4, <1>c, <1>k, <1>l DEF DataFirst
      <3>3. d # <<>> /\ Head(d) = h
        <4>1. d \in Seq(Data) /\ Len(d) # 0 /\ d[1] = pqueue[1]
          BY <2>4, <1>d
        <4>2. d # <<>>
          BY <4>1, EmptySeq
        <4> QED
          BY <4>1, <4>2, <2>1
      <3>4. d' = Tail(d)
        <4> DEFINE e == Tail(d)
        <4>1. /\ e \in Seq(Data) /\ Len(e) = k - 1
              /\ \A a \in 1 .. k - 1 : e[a] = d[a + 1]
          <5>1. d \in Seq(Data) /\ d # <<>> /\ Len(d) = k
            BY <3>3, <1>d
          <5> QED
            BY <5>1, HeadTailProperties
        <4> HIDE DEF e
        <4>2. \A a \in 1 .. l : d'[a] = e[a]
          BY <4>1, <3>2, <2>1, <1>c, <1>d, <1>e, <1>k, <1>l
        <4>3. d' = e
          BY <4>1, <4>2, <3>2, <1>e, SeqEqual
        <4> QED
          BY <4>3 DEF e
      <3>5. run' = run \cup {h}
        BY <2>2, <3>1, <1>c, <1>t
      <3>6. TestThreadPool!Executor!Start
        BY <2>2, <3>3, <3>4, <3>5, <1>t DEF d, TestThreadPool!Executor!Start
      <3> QED
        BY <3>6 DEF TestThreadPool!Executor!Next
    <2> QED
      BY <2>3, <2>4, <1>k
  <1>6. ASSUME NEW t \in T, TestThreadPool!Handle(t)
        PROVE  [TestThreadPool!Executor!Next]_(TestThreadPool!Executor!vars)
    <2> USE <1>6 DEF TestThreadPool!Handle, TestThreadPool!IsData
    <2>1. PICK m \in Data : pmsg[t] = m
      BY DEF PoolInv
    <2>2. run' = run \ {m}
      BY <2>1, <1>c, <1>t DEF PoolInv
    <2>3. d' = d
      BY DEF d, TestThreadPool!DataLen
    <2>4. m \in run
      BY <2>1, <1>c
    <2>5. TestThreadPool!Executor!Finish(m)
      BY <2>1, <2>2, <2>3, <2>4 DEF d, TestThreadPool!Executor!Finish
    <2> QED
      BY <2>5, PoolConstants DEF TestThreadPool!Executor!Next
  <1>7. ASSUME NEW t \in T, TestThreadPool!Break(t)
        PROVE  [TestThreadPool!Executor!Next]_(TestThreadPool!Executor!vars)
    <2> USE <1>7 DEF TestThreadPool!Break, TestThreadPool!IsData
    <2>1. run' = run
      BY <1>t
    <2>2. d' = d
      BY DEF d, TestThreadPool!DataLen
    <2> QED
      BY <2>1, <2>2 DEF d, TestThreadPool!Executor!vars
  <1> QED
    BY <1>1, <1>2, <1>3, <1>4, <1>5, <1>6, <1>7
       DEF TestThreadPool!Next, TestThreadPool!Producer, TestThreadPool!Svc

-----------------------------------------------------------------------------
(* AceTaskEx.                                                              *)

\* The messages that consumers have taken and not yet printed.
Held == {emsg[c] : c \in {d \in TaskThreads : epc[d] = "svc"}}

\* The producers whose last message has been printed, and the consumers that
\* have left.
Finished == {p \in Producers : <<p, NMsgs - 1>> \in eused}
LeftLoop == {c \in TaskThreads : epc[c] = "ended"}

TaskExInv ==
  /\ TaskEx!TypeOK
  /\ \A a, j \in 1 .. Len(equeue) :
       a < j /\ equeue[a][1] = equeue[j][1] => equeue[a][2] < equeue[j][2]
  /\ \A m \in eused \cup Held : \A j \in 1 .. Len(equeue) :
       equeue[j][1] = m[1] => m[2] < equeue[j][2]
  /\ \A m \in ToSet(equeue) \cup Held \cup eused : m[2] < enext[m[1]]
  /\ \A p \in Producers : \A n \in 0 .. NMsgs - 1 :
       n < enext[p] => <<p, n>> \in ToSet(equeue) \cup Held \cup eused
  /\ \A c \in TaskThreads : epc[c] = "svc" =>
       /\ emsg[c] \in TaskEx!Msgs \ eused
       /\ \A d \in TaskThreads : epc[d] = "svc" /\ emsg[d] = emsg[c] => d = c
  /\ Cardinality(LeftLoop) = Cardinality(Finished)

\* What is counted is finite, and there are as many consumers as producers.
LEMMA TaskExSets ==
  /\ IsFiniteSet(LeftLoop) /\ IsFiniteSet(Finished)
  /\ Finished \in SUBSET Producers /\ LeftLoop \in SUBSET TaskThreads
  /\ NMsgs \in Nat \ {0}
  <1>1. Finished \in SUBSET Producers /\ LeftLoop \in SUBSET TaskThreads
    BY DEF Finished, LeftLoop
  <1> QED
    BY <1>1, AceAssumption, FS_Subset

\* What the invariant says of the properties of the component: when all
\* consumers have left each has printed the last message of another producer.
LEMMA TaskExImplied == TaskExInv => TaskEx!TypeOK /\ TaskEx!NothingLeft
  <1> SUFFICES ASSUME TaskExInv, \A c \in TaskThreads : epc[c] = "ended"
               PROVE  equeue = <<>> /\ eused = TaskEx!Msgs
    BY DEF TaskExInv, TaskEx!NothingLeft
  <1>t. /\ equeue \in Seq(TaskEx!Msgs) /\ eused \subseteq TaskEx!Msgs
        /\ enext \in [Producers -> 0 .. NMsgs]
    BY DEF TaskExInv, TaskEx!TypeOK
  <1>1. LeftLoop = TaskThreads /\ Held = {}
    BY DEF LeftLoop, Held
  <1>2. Finished = Producers
    BY <1>1, TaskExSets, AceAssumption, FS_Subset DEF TaskExInv
  <1>3. \A p \in Producers : <<p, NMsgs - 1>> \in eused /\ NMsgs - 1 < enext[p]
    <2>1. \A p \in Producers : <<p, NMsgs - 1>> \in eused
      BY <1>2 DEF Finished
    <2> QED
      BY <2>1 DEF TaskExInv
  <1>4. Len(equeue) = 0
    <2>1. SUFFICES ASSUME 1 \in 1 .. Len(equeue) PROVE FALSE
      BY <1>t, LenProperties
    <2>2. PICK p \in Producers, n \in 0 .. NMsgs - 1 : equeue[1] = <<p, n>>
      BY <2>1, <1>t, ElementOfSeq DEF TaskEx!Msgs
    <2>3. NMsgs - 1 < n
      <3> DEFINE x == <<p, NMsgs - 1>>
      <3>1. x \in eused /\ equeue[1][1] = x[1] /\ x[2] = NMsgs - 1 /\ equeue[1][2] = n
        BY <2>2, <1>3
      <3> HIDE DEF x
      <3> QED
        BY <2>1, <3>1 DEF TaskExInv
    <2> QED
      BY <2>3, TaskExSets
  <1>5. equeue = <<>>
    BY <1>4, <1>t, EmptySeq
  <1>6. \A p \in Producers : \A n \in 0 .. NMsgs - 1 : <<p, n>> \in eused
    <2>1. ToSet(equeue) = {}
      BY <1>5, EmptyElements
    <2>2. \A p \in Producers : \A n \in 0 .. NMsgs - 1 : n < enext[p]
      <3>1. \A p \in Producers : enext[p] \in 0 .. NMsgs /\ NMsgs - 1 < enext[p]
        BY <1>3, <1>t
      <3> QED
        BY <3>1, TaskExSets
    <2> QED
      BY <2>1, <2>2, <1>1 DEF TaskExInv
  <1>7. eused = TaskEx!Msgs
    BY <1>6, <1>t DEF TaskEx!Msgs
  <1> QED
    BY <1>5, <1>7

\* At the launch there is no message.
LEMMA TaskExInit == ASSUME NEW on \in BOOLEAN PROVE TaskEx!Launched(on) => TaskExInv
  <1> SUFFICES ASSUME TaskEx!Launched(on) PROVE TaskExInv
    OBVIOUS
  <1> USE DEF TaskEx!Launched
  <1>1. equeue \in Seq(TaskEx!Msgs) /\ Len(equeue) = 0 /\ ToSet(equeue) = {}
    BY EmptySeq, EmptyElements
  <1>2. Held = {} /\ LeftLoop = {} /\ Finished = {}
    BY DEF Held, LeftLoop, Finished
  <1>3. TaskEx!TypeOK
    BY <1>1, AceAssumption DEF TaskEx!TypeOK
  <1>4. \A p \in Producers : \A n \in 0 .. NMsgs - 1 : ~ n < enext[p]
    BY AceAssumption
  <1> QED
    BY <1>1, <1>2, <1>3, <1>4 DEF TaskExInv

\* getq takes the head of the queue.
LEMMA TakesHead ==
  ASSUME NEW S, NEW q \in Seq(S), q # <<>>
  PROVE  TaskEx!RemoveAt(q, TaskEx!Oldest) = Tail(q) /\ q[TaskEx!Oldest] = Head(q)
  <1>1. SubSeq(q, 1, 0) = <<>>
    BY SubSeqEmpty
  <1>2. SubSeq(q, 2, Len(q)) = Tail(q) /\ Tail(q) \in Seq(S)
    BY TailIsSubSeq, HeadTailProperties
  <1>3. TaskEx!RemoveAt(q, 1) = <<>> \o Tail(q)
    BY <1>1, <1>2 DEF TaskEx!RemoveAt
  <1> QED
    BY <1>2, <1>3, ConcatEmptySeq DEF TaskEx!Oldest

\* Every step of a producer, of a consumer and of main keeps the invariant.
LEMMA TaskExStep == TaskExInv /\ TaskEx!Next => TaskExInv'
  <1> SUFFICES ASSUME TaskExInv, TaskEx!Next PROVE TaskExInv'
    OBVIOUS
  <1> DEFINE T == TaskThreads
             M == TaskEx!Msgs
  <1>t. /\ equeue \in Seq(M)
        /\ enext \in [Producers -> 0 .. NMsgs]
        /\ epc \in [T -> {"off", "getq", "svc", "ended"}]
        /\ emsg \in [T -> M \cup {Nil}]
        /\ eused \subseteq M /\ emain \in {"off", "wait", "done"}
    BY DEF TaskExInv, TaskEx!TypeOK
  <1>c. /\ NMsgs \in Nat \ {0} /\ Len(equeue) \in Nat /\ ToSet(equeue) \subseteq M
        /\ \A j \in 1 .. Len(equeue) : equeue[j] \in M /\ equeue[j] \in ToSet(equeue)
        /\ Held \subseteq M
        /\ \A m \in M : /\ m[1] \in Producers /\ m[2] \in 0 .. NMsgs - 1 /\ m = <<m[1], m[2]>>
                        /\ m[2] \in Nat
        /\ \A p \in Producers : \A n \in 0 .. NMsgs - 1 : <<p, n>> \in M
    <2>1. /\ Len(equeue) \in Nat /\ ToSet(equeue) \subseteq M
          /\ \A j \in 1 .. Len(equeue) : equeue[j] \in M /\ equeue[j] \in ToSet(equeue)
      BY <1>t, LenProperties, ElementOfSeq DEF ToSet
    <2>2. Held \subseteq M
      BY DEF TaskExInv, Held
    <2>3. NMsgs \in Nat \ {0}
      BY AceAssumption
    <2>4. \A m \in M : /\ m[1] \in Producers /\ m[2] \in 0 .. NMsgs - 1 /\ m = <<m[1], m[2]>>
                       /\ m[2] \in Nat
      BY <2>3 DEF TaskEx!Msgs
    <2>5. \A p \in Producers : \A n \in 0 .. NMsgs - 1 : <<p, n>> \in M
      BY DEF TaskEx!Msgs
    <2> QED
      BY <2>1, <2>2, <2>3, <2>4, <2>5
  <1>1. ASSUME NEW p \in Producers, TaskEx!Produce(p) PROVE TaskExInv'
    <2> DEFINE m == <<p, enext[p]>>
    <2>1. /\ m \in M /\ m[1] = p /\ m[2] = enext[p] /\ equeue' = Append(equeue, m)
          /\ enext' = [enext EXCEPT ![p] = @ + 1]
          /\ UNCHANGED <<epc, emsg, eused, emain>>
      BY <1>1, <1>t, <1>c DEF TaskEx!Produce
    <2> HIDE DEF m
    <2>2. /\ equeue' \in Seq(M) /\ Len(equeue') = Len(equeue) + 1
          /\ \A j \in 1 .. Len(equeue) : equeue'[j] = equeue[j]
          /\ equeue'[Len(equeue) + 1] = m
          /\ ToSet(equeue') = ToSet(equeue) \cup {m}
      BY <2>1, <1>t, AppendProperties, AppendElements
    <2>3. TaskEx!TypeOK'
      BY <1>1, <2>1, <2>2, <1>t, <1>c DEF TaskEx!TypeOK, TaskEx!Produce
    <2>4. Held' = Held /\ LeftLoop' = LeftLoop /\ Finished' = Finished
      BY <2>1 DEF Held, LeftLoop, Finished
    <2>5. \A x \in ToSet(equeue) \cup Held \cup eused : x[1] = p => x[2] < enext[p]
      BY DEF TaskExInv
    <2>10. \A j \in 1 .. Len(equeue') :
             \/ j \in 1 .. Len(equeue) /\ equeue'[j] = equeue[j]
             \/ j = Len(equeue) + 1 /\ equeue'[j] = m
      BY <2>2, <1>c
    <2>11. \A a \in 1 .. Len(equeue) : equeue[a][1] = m[1] => equeue[a][2] < m[2]
      BY <2>1, <2>5, <1>c
    <2>6. \A a, j \in 1 .. Len(equeue') :
            a < j /\ equeue'[a][1] = equeue'[j][1] => equeue'[a][2] < equeue'[j][2]
      <3> SUFFICES ASSUME NEW a \in 1 .. Len(equeue'), NEW j \in 1 .. Len(equeue'),
                          a < j, equeue'[a][1] = equeue'[j][1]
                   PROVE  equeue'[a][2] < equeue'[j][2]
        OBVIOUS
      <3>1. a \in 1 .. Len(equeue) /\ equeue'[a] = equeue[a]
        BY <2>2, <1>c
      <3>2. CASE j \in 1 .. Len(equeue) /\ equeue'[j] = equeue[j]
        BY <3>1, <3>2 DEF TaskExInv
      <3>3. CASE equeue'[j] = m
        BY <3>1, <3>3, <2>11
      <3> QED
        BY <3>2, <3>3, <2>10
    <2>7. \A x \in eused \cup Held : \A j \in 1 .. Len(equeue') :
            equeue'[j][1] = x[1] => x[2] < equeue'[j][2]
      BY <2>1, <2>2, <2>5, <2>10 DEF TaskExInv
    <2>8. \A x \in ToSet(equeue') \cup Held \cup eused : x[2] < enext'[x[1]]
      <3>1. \A x \in ToSet(equeue) \cup Held \cup eused :
              x[2] \in Nat /\ x[1] \in Producers /\ x[2] < enext[x[1]] /\ enext[x[1]] \in Nat
        BY <1>c, <1>t DEF TaskExInv
      <3>2. \A q \in Producers : enext'[q] = IF q = p THEN enext[p] + 1 ELSE enext[q]
        BY <2>1, <1>t
      <3>3. \A x \in ToSet(equeue) \cup Held \cup eused : x[2] < enext'[x[1]]
        BY <3>1, <3>2
      <3>4. m[2] < enext'[m[1]]
        BY <3>2, <2>1, <1>t
      <3> QED
        BY <3>3, <3>4, <2>2
    <2>9. \A q \in Producers : \A n \in 0 .. NMsgs - 1 :
            n < enext'[q] => <<q, n>> \in ToSet(equeue') \cup Held \cup eused
      <3> SUFFICES ASSUME NEW q \in Producers, NEW n \in 0 .. NMsgs - 1, n < enext'[q]
                   PROVE  <<q, n>> \in ToSet(equeue') \cup Held \cup eused
        OBVIOUS
      <3>1. n < enext[q] \/ <<q, n>> = m
        BY <2>1, <1>t, <1>c DEF m
      <3> QED
        BY <3>1, <2>2 DEF TaskExInv
    <2> QED
      BY <2>1, <2>3, <2>4, <2>6, <2>7, <2>8, <2>9 DEF TaskExInv
  <1>2. ASSUME NEW c \in T, TaskEx!GetQ(c) PROVE TaskExInv'
    <2> DEFINE h == Head(equeue)
    <2>1. /\ epc[c] = "getq" /\ equeue # <<>>
          /\ equeue' = Tail(equeue) /\ emsg' = [emsg EXCEPT ![c] = h]
          /\ epc' = [epc EXCEPT ![c] = "svc"] /\ UNCHANGED <<enext, eused, emain>>
      BY <1>2, <1>t, TakesHead DEF TaskEx!GetQ
    <2>2. /\ equeue' \in Seq(M) /\ Len(equeue') = Len(equeue) - 1
          /\ \A j \in 1 .. Len(equeue') : equeue'[j] = equeue[j + 1]
          /\ h = equeue[1] /\ h \in M /\ Len(equeue) > 0
          /\ ToSet(equeue) = ToSet(equeue') \cup {h}
      BY <2>1, <1>t, HeadTailProperties, TailElements, EmptySeq
    <2> HIDE DEF h
    <2>3. TaskEx!TypeOK'
      BY <2>1, <2>2, <1>t DEF TaskEx!TypeOK
    <2>4. Held' = Held \cup {h}
      BY <2>1, <1>t DEF Held
    <2>5. LeftLoop' = LeftLoop /\ Finished' = Finished
      BY <2>1, <1>t DEF LeftLoop, Finished
    <2>6. \A a, j \in 1 .. Len(equeue') :
            a < j /\ equeue'[a][1] = equeue'[j][1] => equeue'[a][2] < equeue'[j][2]
      <3>1. \A a \in 1 .. Len(equeue') : a + 1 \in 1 .. Len(equeue)
        BY <2>2, <1>c
      <3> QED
        BY <3>1, <2>2 DEF TaskExInv
    <2>7. \A x \in eused \cup Held' : \A j \in 1 .. Len(equeue') :
            equeue'[j][1] = x[1] => x[2] < equeue'[j][2]
      <3>1. \A j \in 1 .. Len(equeue') :
              j + 1 \in 1 .. Len(equeue) /\ 1 < j + 1 /\ 1 \in 1 .. Len(equeue)
        BY <2>2, <1>c
      <3>2. \A j \in 1 .. Len(equeue') : equeue'[j][1] = h[1] => h[2] < equeue'[j][2]
        BY <3>1, <2>2 DEF TaskExInv
      <3>3. \A x \in eused \cup Held : \A j \in 1 .. Len(equeue') :
              equeue'[j][1] = x[1] => x[2] < equeue'[j][2]
        BY <3>1, <2>2 DEF TaskExInv
      <3> QED
        BY <3>2, <3>3, <2>4
    <2>8. ToSet(equeue') \cup Held' \cup eused = ToSet(equeue) \cup Held \cup eused
      BY <2>2, <2>4
    <2>9. h \notin eused \cup Held
      <3>1. 1 \in 1 .. Len(equeue) /\ h[2] \in Nat
        BY <2>2, <1>c
      <3> QED
        BY <3>1, <2>2 DEF TaskExInv
    <2>10. \A u \in T : epc[u] = "svc" => emsg[u] \in Held
      BY DEF Held
    <2>11. \A u \in T : epc'[u] = "svc" =>
             /\ emsg'[u] \in M \ eused
             /\ \A v \in T : epc'[v] = "svc" /\ emsg'[v] = emsg'[u] => v = u
      BY <2>1, <2>2, <2>9, <2>10, <1>t DEF TaskExInv
    <2> QED
      BY <2>1, <2>3, <2>5, <2>6, <2>7, <2>8, <2>11 DEF TaskExInv
  <1>3. ASSUME NEW c \in T, TaskEx!Consume(c) PROVE TaskExInv'
    <2>1. PICK m \in M : m = emsg[c] /\ m \notin eused /\ epc[c] = "svc"
      BY <1>3 DEF TaskEx!Consume, TaskExInv
    <2>2. /\ eused' = eused \cup {m} /\ emsg' = [emsg EXCEPT ![c] = Nil]
          /\ epc' = [epc EXCEPT ![c] = IF m[2] = NMsgs - 1 THEN "ended" ELSE "getq"]
          /\ UNCHANGED <<equeue, enext, emain>>
      BY <1>3, <2>1 DEF TaskEx!Consume, TaskEx!IsLast
    <2>3. TaskEx!TypeOK'
      BY <2>1, <2>2, <1>t DEF TaskEx!TypeOK
    <2>4. Held = Held' \cup {m} /\ \A u \in T : epc'[u] = "svc" => emsg'[u] = emsg[u] /\ u # c
      BY <2>1, <2>2, <1>t DEF Held
    <2>5. eused' \cup Held' = eused \cup Held
      BY <2>2, <2>4
    <2>6. ToSet(equeue') \cup Held' \cup eused' = ToSet(equeue) \cup Held \cup eused
      BY <2>2, <2>5
    <2>7. \A u \in T : epc'[u] = "svc" =>
            /\ emsg'[u] \in M \ eused'
            /\ \A v \in T : epc'[v] = "svc" /\ emsg'[v] = emsg'[u] => v = u
      <3>1. \A u \in T : epc'[u] = "svc" => epc[u] = "svc" /\ emsg'[u] = emsg[u] /\ u # c
        BY <2>2, <2>4, <1>t
      <3> QED
        BY <3>1, <2>1, <2>2 DEF TaskExInv
    <2>8. Cardinality(LeftLoop') = Cardinality(Finished')
      <3>1. CASE m[2] = NMsgs - 1
        <4>1. LeftLoop' = LeftLoop \cup {c} /\ c \notin LeftLoop
          BY <3>1, <2>1, <2>2, <1>t DEF LeftLoop
        <4>2. m[1] \in Producers /\ m = <<m[1], NMsgs - 1>>
          BY <3>1, <1>c
        <4>3. Finished' = Finished \cup {m[1]} /\ m[1] \notin Finished
          BY <4>2, <2>1, <2>2 DEF Finished
        <4> QED
          <5>1. Cardinality(LeftLoop') = Cardinality(LeftLoop) + 1
            BY <4>1, TaskExSets, FS_AddElement
          <5>2. Cardinality(Finished') = Cardinality(Finished) + 1
            BY <4>3, TaskExSets, FS_AddElement
          <5> QED
            BY <5>1, <5>2 DEF TaskExInv
      <3>2. CASE m[2] # NMsgs - 1
        <4>1. LeftLoop' = LeftLoop
          BY <3>2, <2>1, <2>2, <1>t DEF LeftLoop
        <4>2. Finished' = Finished
          BY <3>2, <2>2 DEF Finished
        <4> QED
          BY <4>1, <4>2 DEF TaskExInv
      <3> QED
        BY <3>1, <3>2
    <2> QED
      BY <2>2, <2>3, <2>5, <2>6, <2>7, <2>8 DEF TaskExInv
  <1>4. CASE TaskEx!Wait
    BY <1>4, <1>t DEF TaskEx!Wait, TaskExInv, TaskEx!TypeOK, Held, LeftLoop, Finished
  <1> QED
    BY <1>1, <1>2, <1>3, <1>4 DEF TaskEx!Next, TaskEx!Svc

-----------------------------------------------------------------------------
(* AceBarrier.                                                             *)

\* The threads that wait at the half of the barrier that is in use.
AtBarrier == {t \in TaskThreads : tpc[t] = "barrier" /\ bhalf[t] = bgen}

\* The threads ACE has counted out.
Gone == {t \in TaskThreads : tpc[t] \in {"close", "ended"}}

\* All threads are in iteration k but those that have not yet left the other
\* half of the barrier.
InIteration(k) == \A t \in TaskThreads :
  biter[t] = IF tpc[t] = "barrier" /\ bhalf[t] # bgen THEN k - 1 ELSE k

BarrierInv ==
  /\ BarrierTask!TypeOK
  /\ brunning[bgen] = Cardinality(TaskThreads) - Cardinality(AtBarrier)
  /\ brunning[1 - bgen] = Cardinality(TaskThreads)
  /\ \E k \in 1 .. NIterations + 1 : InIteration(k)
  /\ \A t \in TaskThreads : /\ tpc[t] = "barrier" => biter[t] <= NIterations
                            /\ t \in Gone => biter[t] = NIterations + 1
  /\ bcount = Cardinality(TaskThreads) - Cardinality(Gone)
  /\ blast = Nil <=> bcount > 0
  /\ blast # Nil => blast \in Gone
  /\ bcleanups = IF blast # Nil /\ tpc[blast] = "ended" THEN 1 ELSE 0
  /\ bmain = "done" => \A t \in TaskThreads : tpc[t] = "ended"

\* There is a thread, and what is counted is finite.
LEMMA BarrierSets ==
  /\ Cardinality(TaskThreads) \in Nat \ {0} /\ Nil \notin TaskThreads
  /\ IsFiniteSet(AtBarrier) /\ IsFiniteSet(Gone)
  /\ Cardinality(AtBarrier) \in Nat /\ Cardinality(Gone) \in Nat
  /\ BarrierTask!Cardinality(TaskThreads) = Cardinality(TaskThreads)
  <1>1. /\ Cardinality(TaskThreads) \in Nat \ {0} /\ Nil \notin TaskThreads
    BY AceAssumption, FS_CardinalityType, FS_EmptySet
  <1>2. AtBarrier \in SUBSET TaskThreads /\ Gone \in SUBSET TaskThreads
    BY DEF AtBarrier, Gone
  <1>3. IsFiniteSet(AtBarrier) /\ IsFiniteSet(Gone)
    BY <1>2, AceAssumption, FS_Subset
  <1>4. Cardinality(AtBarrier) \in Nat /\ Cardinality(Gone) \in Nat
    BY <1>3, FS_CardinalityType
  <1>5. BarrierTask!Cardinality(TaskThreads) = Cardinality(TaskThreads)
    BY DEF Cardinality, BarrierTask!Cardinality
  <1> QED
    BY <1>1, <1>3, <1>4, <1>5

\* What the invariant says of the properties of the component.
LEMMA BarrierImplied ==
  BarrierInv => BarrierTask!TypeOK /\ BarrierTask!InStep /\ BarrierTask!OneCleanup
  <1> SUFFICES ASSUME BarrierInv
               PROVE  BarrierTask!TypeOK /\ BarrierTask!InStep /\ BarrierTask!OneCleanup
    OBVIOUS
  <1>1. BarrierTask!InStep
    <2>1. PICK k \in 1 .. NIterations + 1 : InIteration(k)
      BY DEF BarrierInv
    <2> QED
      BY <2>1, AceAssumption DEF InIteration, BarrierTask!InStep
  <1>2. ASSUME bmain = "done" PROVE bcleanups = 1
    <2>1. Gone = TaskThreads
      BY <1>2 DEF BarrierInv, Gone
    <2>2. bcount = 0
      BY <2>1, BarrierSets DEF BarrierInv
    <2>3. blast # Nil /\ tpc[blast] = "ended"
      BY <1>2, <2>1, <2>2 DEF BarrierInv
    <2> QED
      BY <2>3 DEF BarrierInv
  <1> QED
    BY <1>1, <1>2 DEF BarrierInv, BarrierTask!OneCleanup

\* At the launch all threads are in the first iteration.
LEMMA BarrierInit == ASSUME NEW on \in BOOLEAN PROVE BarrierTask!Launched(on) => BarrierInv
  <1> SUFFICES ASSUME BarrierTask!Launched(on) PROVE BarrierInv
    OBVIOUS
  <1> USE DEF BarrierTask!Launched
  <1>1. AtBarrier = {} /\ Gone = {}
    BY DEF AtBarrier, Gone
  <1>2. Cardinality(AtBarrier) = 0 /\ Cardinality(Gone) = 0
    BY <1>1, FS_EmptySet
  <1>3. BarrierTask!TypeOK
    BY BarrierSets, AceAssumption DEF BarrierTask!TypeOK
  <1>4. InIteration(1) /\ 1 \in 1 .. NIterations + 1
    BY AceAssumption DEF InIteration
  <1> QED
    BY <1>1, <1>2, <1>3, <1>4, BarrierSets DEF BarrierInv

\* One more thread is counted by a set.
LEMMA OneMore ==
  ASSUME NEW S, NEW t, IsFiniteSet(S), t \notin S
  PROVE  Cardinality(S \cup {t}) = Cardinality(S) + 1
  BY FS_AddElement

\* If all but one wait, all the others do.
LEMMA AllOthersWait ==
  ASSUME BarrierInv, BarrierTask!AllIn, NEW t \in TaskThreads, t \notin AtBarrier
  PROVE  AtBarrier = TaskThreads \ {t}
  <1>1. Cardinality(AtBarrier) = Cardinality(TaskThreads) - 1
    BY BarrierSets DEF BarrierInv, BarrierTask!AllIn
  <1>2. /\ IsFiniteSet(TaskThreads \ {t})
        /\ Cardinality(TaskThreads \ {t}) = Cardinality(TaskThreads) - 1
    BY AceAssumption, FS_RemoveElement
  <1>3. AtBarrier \in SUBSET (TaskThreads \ {t})
    BY DEF AtBarrier
  <1> QED
    BY <1>1, <1>2, <1>3, FS_Subset

\* Every step of a thread keeps the invariant.
LEMMA BarrierStep == BarrierInv /\ BarrierTask!Next => BarrierInv'
  <1> SUFFICES ASSUME BarrierInv, BarrierTask!Next PROVE BarrierInv'
    OBVIOUS
  <1> DEFINE N == Cardinality(TaskThreads)
  <1>n. /\ N \in Nat \ {0} /\ Nil \notin TaskThreads /\ NIterations \in Nat
        /\ BarrierTask!Cardinality(TaskThreads) = N
        /\ Cardinality(AtBarrier) \in Nat /\ Cardinality(Gone) \in Nat
        /\ IsFiniteSet(AtBarrier) /\ IsFiniteSet(Gone)
    BY BarrierSets, AceAssumption
  <1> HIDE DEF N
  <1>t. /\ biter \in [TaskThreads -> 1 .. NIterations + 1]
        /\ brunning \in [0 .. 1 -> 1 .. N]
        /\ bgen \in 0 .. 1 /\ bhalf \in [TaskThreads -> 0 .. 1]
        /\ tpc \in [TaskThreads -> {"off", "svc", "barrier", "close", "ended"}]
        /\ bcount \in 0 .. N /\ blast \in TaskThreads \cup {Nil} /\ bcleanups \in Nat
        /\ bmain \in {"off", "wait", "done"}
    BY <1>n DEF BarrierInv, BarrierTask!TypeOK
  <1>a. /\ brunning[bgen] = N - Cardinality(AtBarrier) /\ brunning[1 - bgen] = N
        /\ bcount = N - Cardinality(Gone)
    BY DEF BarrierInv, N
  <1>k. PICK k \in 1 .. NIterations + 1 : InIteration(k)
    BY DEF BarrierInv
  <1>1. ASSUME NEW t \in TaskThreads, BarrierTask!Arrive(t) PROVE BarrierInv'
    <2> USE <1>1 DEF BarrierTask!Arrive
    <2>1. AtBarrier' = AtBarrier \cup {t} /\ t \notin AtBarrier /\ Gone' = Gone
      BY <1>t DEF AtBarrier, Gone
    <2>2. Cardinality(AtBarrier') = Cardinality(AtBarrier) + 1
      BY <2>1, <1>n, OneMore
    <2>3. brunning' \in [0 .. 1 -> 1 .. N]
      BY <1>n, <1>t DEF BarrierTask!AllIn
    <2>4. BarrierTask!TypeOK'
      BY <1>n, <1>t, <2>3 DEF BarrierTask!TypeOK
    <2>5. brunning'[bgen'] = N - Cardinality(AtBarrier') /\ brunning'[1 - bgen'] = N
      BY <1>n, <1>t, <1>a, <2>2
    <2>6. InIteration(k)'
      BY <1>t, <1>k DEF InIteration
    <2>7. bcleanups' = IF blast' # Nil /\ tpc'[blast'] = "ended" THEN 1 ELSE 0
      BY <1>t DEF BarrierInv, Gone
    <2> QED
      BY <1>n, <1>t, <2>1, <2>4, <2>5, <2>6, <2>7 DEF BarrierInv, N
  <1>2. ASSUME NEW t \in TaskThreads, BarrierTask!Open(t) PROVE BarrierInv'
    <2> USE <1>2 DEF BarrierTask!Open
    <2>1. t \notin AtBarrier
      BY DEF AtBarrier
    <2>2. AtBarrier = TaskThreads \ {t}
      BY <2>1, AllOthersWait
    <2>3. AtBarrier' = {} /\ Gone' = Gone
      BY <1>t, <2>2 DEF AtBarrier, Gone, BarrierTask!NextGen
    <2>4. Cardinality(AtBarrier') = 0
      BY <2>3, FS_EmptySet
    <2>5. BarrierTask!TypeOK'
      BY <1>n, <1>t DEF BarrierTask!TypeOK, BarrierTask!NextGen
    <2>6. brunning'[bgen'] = N - Cardinality(AtBarrier') /\ brunning'[1 - bgen'] = N
      BY <1>n, <1>t, <1>a, <2>4 DEF BarrierTask!NextGen
    <2>7. k + 1 \in 1 .. NIterations + 1 /\ biter[t] = k
      BY <1>n, <1>t, <1>k DEF InIteration
    <2>8. InIteration(k + 1)'
      BY <1>n, <1>t, <1>k, <2>2, <2>7 DEF InIteration, AtBarrier, BarrierTask!NextGen
    <2> QED
      BY <1>n, <1>t, <2>3, <2>5, <2>6, <2>7, <2>8 DEF BarrierInv, Gone, N
  <1>3. ASSUME NEW t \in TaskThreads, BarrierTask!Pass(t) PROVE BarrierInv'
    <2> USE <1>3 DEF BarrierTask!Pass
    <2>1. ASSUME bhalf[t] = bgen PROVE FALSE
      <3>1. t \in AtBarrier
        BY <2>1 DEF AtBarrier
      <3>2. Cardinality(AtBarrier) # 0
        BY <3>1, <1>n, FS_EmptySet
      <3> QED
        BY <3>2, <1>n, <1>a, <2>1
    <2>2. AtBarrier' = AtBarrier /\ Gone' = Gone
      BY <1>t, <2>1 DEF AtBarrier, Gone
    <2>3. biter[t] <= NIterations
      BY DEF BarrierInv
    <2>4. BarrierTask!TypeOK'
      BY <1>n, <1>t, <2>3 DEF BarrierTask!TypeOK
    <2>5. InIteration(k)'
      BY <1>n, <1>t, <1>k, <2>1 DEF InIteration
    <2>6. bcleanups' = IF blast' # Nil /\ tpc'[blast'] = "ended" THEN 1 ELSE 0
      BY <1>t DEF BarrierInv, Gone
    <2>7. brunning'[bgen'] = N - Cardinality(AtBarrier') /\ brunning'[1 - bgen'] = N
      BY <1>a, <2>2
    <2> QED
      BY <1>n, <1>t, <2>2, <2>4, <2>5, <2>6, <2>7 DEF BarrierInv, Gone, N
  <1>4. ASSUME NEW t \in TaskThreads, BarrierTask!Cleanup(t) PROVE BarrierInv'
    <2> USE <1>4 DEF BarrierTask!Cleanup
    <2>1. AtBarrier' = AtBarrier /\ Gone' = Gone \cup {t} /\ t \notin Gone
      BY <1>t DEF AtBarrier, Gone
    <2>2. Cardinality(Gone') = Cardinality(Gone) + 1
      BY <2>1, <1>n, OneMore
    <2>3. Gone' \in SUBSET TaskThreads
      BY DEF Gone
    <2>4. Cardinality(Gone') <= N
      BY <2>3, AceAssumption, FS_Subset DEF N
    <2>5. bcount' = N - Cardinality(Gone') /\ bcount' \in 0 .. N /\ bcount > 0
      BY <1>n, <1>t, <1>a, <2>2, <2>4
    <2>6. BarrierTask!TypeOK'
      BY <1>n, <1>t, <2>5 DEF BarrierTask!TypeOK
    <2>7. InIteration(k)'
      BY <1>t, <1>k DEF InIteration
    <2>8. blast = Nil
      BY <2>5 DEF BarrierInv
    <2>9. /\ blast' = Nil <=> bcount' > 0
          /\ blast' # Nil => blast' \in Gone' /\ tpc'[blast'] # "ended"
      BY <1>n, <1>t, <2>1, <2>5, <2>8
    <2>10. bcleanups' = 0
      BY <2>8 DEF BarrierInv
    <2>11. biter[t] = NIterations + 1
      BY <1>n, <1>t
    <2> QED
      BY <1>n, <1>t, <1>a, <2>1, <2>5, <2>6, <2>7, <2>9, <2>10, <2>11 DEF BarrierInv, N
  <1>5. ASSUME NEW t \in TaskThreads, BarrierTask!Close(t) PROVE BarrierInv'
    <2> USE <1>5 DEF BarrierTask!Close
    <2>1. AtBarrier' = AtBarrier /\ Gone' = Gone
      BY <1>t DEF AtBarrier, Gone
    <2>2. BarrierTask!TypeOK'
      BY <1>n, <1>t DEF BarrierTask!TypeOK
    <2>3. InIteration(k)'
      BY <1>t, <1>k DEF InIteration
    <2>4. bcleanups' = IF blast' # Nil /\ tpc'[blast'] = "ended" THEN 1 ELSE 0
      BY <1>n, <1>t DEF BarrierInv, BarrierTask!IsLast
    <2> QED
      BY <1>n, <1>t, <2>1, <2>2, <2>3, <2>4 DEF BarrierInv
  <1>6. ASSUME BarrierTask!Wait PROVE BarrierInv'
    <2> USE <1>6 DEF BarrierTask!Wait
    <2>1. AtBarrier' = AtBarrier /\ Gone' = Gone /\ InIteration(k)'
      BY <1>k DEF AtBarrier, Gone, InIteration
    <2>2. BarrierTask!TypeOK'
      BY <1>n, <1>t DEF BarrierTask!TypeOK
    <2> QED
      BY <1>t, <2>1, <2>2 DEF BarrierInv
  <1> QED
    BY <1>1, <1>2, <1>3, <1>4, <1>5, <1>6 DEF BarrierTask!Next, BarrierTask!Thread

-----------------------------------------------------------------------------
(* The programs built on ACE tasks.                                        *)

AceProgramsInv == ManagerInv /\ PoolInv /\ TaskExInv /\ BarrierInv

\* Nothing a component speaks of changes while another one runs.
LEMMA ManagerStays == ManagerInv /\ UNCHANGED mvars => ManagerInv'
  <1> SUFFICES ASSUME ManagerInv, UNCHANGED mvars PROVE ManagerInv'
    OBVIOUS
  <1> USE DEF mvars
  <1>1. /\ TestTask!TypeOK' <=> TestTask!TypeOK
        /\ (\A w \in TaskThreads : OneAtATime(w)') <=> \A w \in TaskThreads : OneAtATime(w)
        /\ (TestTask!Idle(worker))' <=> TestTask!Idle(worker)
        /\ {w \in TaskThreads : (TestTask!Idle(w))' /\ w # worker'}
             = {w \in TaskThreads : TestTask!Idle(w) /\ w # worker}
    BY DEF TestTask!TypeOK, OneAtATime, TestTask!Idle
  <1>2. \A m \in Requests : Somewhere(m)' <=> Somewhere(m)
    BY DEF Somewhere
  <1>3. \A k \in 1 .. Len(workers) : ShutDownAt(k)' <=> ShutDownAt(k)
    BY DEF ShutDownAt
  <1> QED
    BY <1>1, <1>2, <1>3 DEF ManagerInv

\* The same of the next component.
LEMMA PoolStays == PoolInv /\ UNCHANGED pvars => PoolInv'
  BY DEF PoolInv, pvars, TestThreadPool!TypeOK, EmptyMet

\* The same of the next component.
LEMMA TaskExStays == TaskExInv /\ UNCHANGED evars => TaskExInv'
  <1> SUFFICES ASSUME TaskExInv, UNCHANGED evars PROVE TaskExInv'
    OBVIOUS
  <1> USE DEF evars
  <1>1. Held' = Held /\ LeftLoop' = LeftLoop /\ Finished' = Finished
    BY DEF Held, LeftLoop, Finished
  <1>2. TaskEx!TypeOK' <=> TaskEx!TypeOK
    BY DEF TaskEx!TypeOK
  <1> QED
    BY <1>1, <1>2 DEF TaskExInv

\* The same of the next component.
LEMMA BarrierStays == BarrierInv /\ UNCHANGED bvars => BarrierInv'
  BY DEF BarrierInv, bvars, BarrierTask!TypeOK, AtBarrier, Gone, InIteration

\* At the launch of one of the programs all invariants hold.
LEMMA AceProgramsStart == AceInit => AceProgramsInv
  <1> SUFFICES ASSUME AceInit PROVE AceProgramsInv
    OBVIOUS
  <1>1. PICK program \in {"test_task", "test_thread_pool", "test_ace_task_ex", "test_ace_task2"} :
          /\ TestTask!Launched(program = "test_task")
          /\ TestThreadPool!Launched(program = "test_thread_pool")
          /\ TaskEx!Launched(program = "test_ace_task_ex")
          /\ BarrierTask!Launched(program = "test_ace_task2")
    BY DEF AceInit
  <1>2. /\ (program = "test_task") \in BOOLEAN /\ (program = "test_thread_pool") \in BOOLEAN
        /\ (program = "test_ace_task_ex") \in BOOLEAN /\ (program = "test_ace_task2") \in BOOLEAN
    OBVIOUS
  <1> QED
    BY <1>1, <1>2, ManagerInit, PoolInit, TaskExInit, BarrierInit DEF AceProgramsInv

\* A step of one component keeps the invariants of all.
LEMMA AceProgramsStep == AceProgramsInv /\ [AceNext]_aceVars => AceProgramsInv'
  <1> SUFFICES ASSUME AceProgramsInv, [AceNext]_aceVars PROVE AceProgramsInv'
    OBVIOUS
  <1>1. /\ TestTask!Next \/ UNCHANGED mvars
        /\ TestThreadPool!Next \/ UNCHANGED pvars
        /\ TaskEx!Next \/ UNCHANGED evars
        /\ BarrierTask!Next \/ UNCHANGED bvars
    BY DEF AceNext, aceVars
  <1>2. ManagerInv'
    BY <1>1, ManagerStep, ManagerStays DEF AceProgramsInv
  <1>3. PoolInv'
    BY <1>1, PoolStep, PoolStays DEF AceProgramsInv
  <1>4. TaskExInv'
    BY <1>1, TaskExStep, TaskExStays DEF AceProgramsInv
  <1>5. BarrierInv'
    BY <1>1, BarrierStep, BarrierStays DEF AceProgramsInv
  <1> QED
    BY <1>2, <1>3, <1>4, <1>5 DEF AceProgramsInv

\* The inductive invariant holds of all behaviours of the programs.
THEOREM AceProgramsInvariant == AceSpec => []AceProgramsInv
  BY AceProgramsStart, AceProgramsStep, PTL DEF AceSpec

\* The variables keep their types (AcePrograms).
THEOREM AceTypeCorrect == AceSpec => []AceTypeOK
  <1>1. AceProgramsInv => AceTypeOK
    BY DEF AceProgramsInv, AceTypeOK, ManagerInv, PoolInv, TaskExInv, BarrierInv
  <1> QED
    BY <1>1, AceProgramsInvariant, PTL

\* The list of the manager (test_ace_task.cpp:133-192) is the idle workers, it
\* sleeps only while there is none, and shut_down() finds everybody idle and all
\* messages worked on; the consumers of test_ace_task_ex.cpp leave no message.
THEOREM NothingIsMissed == AceSpec => []NothingMissed
  <1>1. AceProgramsInv => NothingMissed
    BY ManagerImplied, TaskExImplied DEF AceProgramsInv, NothingMissed
  <1> QED
    BY <1>1, AceProgramsInvariant, PTL

\* No thread of Barrier_Task (test_ace_task2.cpp:50, 65) is more than one
\* iteration ahead of another, and one of them sees the cleanup.
THEOREM BarrierKeepsStep == AceSpec => []BarrierIsRight
  <1>1. AceProgramsInv => BarrierIsRight
    BY BarrierImplied DEF AceProgramsInv, BarrierIsRight
  <1> QED
    BY <1>1, AceProgramsInvariant, PTL

\* Thread_Pool (test_ace_task.cpp:228-300) is a FIFO executor that finishes what
\* was put into it: its threads, its full queue and its empty messages do not
\* show.
THEOREM AcePoolImplementsExecutor == AceSpec => PoolImplementsExecutor
  <1>1. AceInit => TestThreadPool!Executor!Init
    <2> SUFFICES ASSUME AceInit PROVE TestThreadPool!Executor!Init
      OBVIOUS
    <2>1. PICK on \in BOOLEAN : TestThreadPool!Launched(on)
      BY DEF AceInit
    <2>2. /\ pqueue = <<>> /\ pmsg = [t \in TaskThreads |-> Nil] /\ phandled = {}
          /\ pmain \in {"off", "produce"}
      BY <2>1 DEF TestThreadPool!Launched
    <2>3. TestThreadPool!DataLen = 0
      <3>1. {a \in DOMAIN pqueue : TestThreadPool!IsData(pqueue[a])} = {}
        BY <2>2, EmptySeq
      <3> QED
        BY <3>1, PoolConstants, FS_EmptySet DEF TestThreadPool!DataLen
    <2>4. SubSeq(pqueue, 1, 0) = <<>>
      BY <2>2, SubSeqEmpty
    <2>5. {pmsg[t] : t \in TaskThreads} \ {NullMsg, Nil} = {}
      BY <2>2
    <2> QED
      BY <2>2, <2>3, <2>4, <2>5 DEF TestThreadPool!Executor!Init
  <1>2. AceProgramsInv /\ AceProgramsInv' /\ [AceNext]_aceVars
          => [TestThreadPool!Executor!Next]_(TestThreadPool!Executor!vars)
    <2> SUFFICES ASSUME AceProgramsInv, AceProgramsInv', [AceNext]_aceVars
                 PROVE  [TestThreadPool!Executor!Next]_(TestThreadPool!Executor!vars)
      OBVIOUS
    <2>1. CASE TestThreadPool!Next
      BY <2>1, PoolImplements DEF AceProgramsInv
    <2>2. CASE UNCHANGED pvars
      BY <2>2 DEF pvars, TestThreadPool!Executor!vars, TestThreadPool!DataLen
    <2> QED
      BY <2>1, <2>2 DEF AceNext, aceVars
  <1> QED
    BY <1>1, <1>2, AceProgramsInvariant, PTL
       DEF AceSpec, PoolImplementsExecutor, TestThreadPool!Executor!Spec
=============================================================================
