------------------------ MODULE BoundedBuffer_proofs ------------------------
(***************************************************************************)
(* Proofs about BoundedBuffer, for every capacity, every number of         *)
(* producers and consumers, and both kinds of buffer.                      *)
(***************************************************************************)
EXTENDS BoundedBuffer, SequenceTheorems, FiniteSetTheorems, TLAPS

\* m_unread is not used by the classes that pop.
ShapeInv == ~ ring => unread = 0

\* The mutex is held across a step by the thread that is about to wait, and
\* what it saw is still so.
MutexInv == \A t \in Threads : /\ pc[t] = "block" <=> mutex = t
                               /\ pc[t] = "block" => ~ Ready(t)

\* While Main fills the buffer nobody else exists; only Main launches and joins.
Filling == {"lock", "block", "wait", "notify", "launch"}
LaunchInv == /\ \A t \in Threads \ {Main} : /\ pc[t] = "new" <=> pc[Main] \in Filling
                                            /\ pc[t] \notin {"launch", "join"}
             /\ pc[Main] # "new"

\* A thread that is in a call, or before one, has an iteration left.
TodoInv == \A t \in Threads :
  pc[t] \in {"new", "lock", "block", "wait", "notify"} => todo[t] > 0

Control == TypeOK /\ ShapeInv /\ MutexInv /\ LaunchInv /\ TodoInv

-----------------------------------------------------------------------------
(* The container.                                                          *)

\* Front drops the last element.
LEMMA FrontElements ==
  ASSUME NEW S, NEW s \in Seq(S), Len(s) > 0
  PROVE  /\ Front(s) \in Seq(S) /\ Len(Front(s)) = Len(s) - 1
         /\ \A i \in 1 .. Len(s) - 1 : Front(s)[i] = s[i]
  <1>1. Len(s) \in Nat /\ \A i \in 1 .. Len(s) - 1 : s[i] \in S
    BY LenProperties, ElementOfSeq
  <1>2. Front(s) = SubSeq(s, 1, Len(s) - 1)
    BY DEF Front
  <1> DEFINE n == Len(s) - 1
  <1>3. n \in Int /\ n >= 0 /\ n - 1 + 1 = n /\ \A i \in 1 .. n : s[i] \in S
    BY <1>1
  <1> HIDE DEF n
  <1>4. /\ SubSeq(s, 1, n) \in Seq(S)
        /\ Len(SubSeq(s, 1, n)) = IF 1 <= n THEN n - 1 + 1 ELSE 0
        /\ \A i \in 1 .. n - 1 + 1 : SubSeq(s, 1, n)[i] = s[1 + i - 1]
    BY <1>3, SubSeqProperties
  <1>5. /\ SubSeq(s, 1, n) \in Seq(S) /\ Len(SubSeq(s, 1, n)) = n
        /\ \A i \in 1 .. n : SubSeq(s, 1, n)[i] = s[i]
    BY <1>3, <1>4
  <1> QED
    BY <1>2, <1>5 DEF n

\* An item pushed at the front moves every other one back by one place.
LEMMA InsertedElements ==
  ASSUME TypeOK, NEW x \in Items
  PROVE  LET n == IF ring /\ Len(container) = Capacity THEN Capacity ELSE Len(container) + 1
         IN  /\ Inserted(x) \in Seq(Items) /\ Len(Inserted(x)) = n
             /\ Inserted(x)[1] = x
             /\ \A i \in 2 .. n : Inserted(x)[i] = container[i - 1]
  <1> DEFINE s == IF ring /\ Len(container) = Capacity THEN Front(container) ELSE container
             n == IF ring /\ Len(container) = Capacity THEN Capacity ELSE Len(container) + 1
  <1>1. container \in Seq(Items) /\ Len(container) \in Nat
        /\ Capacity \in Nat /\ Capacity > 0
    BY LenProperties, ConstantsAssumption DEF TypeOK
  <1>2. /\ s \in Seq(Items) /\ Len(s) = n - 1
        /\ \A i \in 1 .. n - 1 : s[i] = container[i]
    BY <1>1, FrontElements
  <1>3. <<x>> \in Seq(Items) /\ Len(<<x>>) = 1 /\ <<x>>[1] = x
    OBVIOUS
  <1>4. Inserted(x) = <<x>> \o s
    BY DEF Inserted
  <1>5. n \in Nat /\ n > 0
    BY <1>1
  <1> HIDE DEF s, n
  <1>6. /\ <<x>> \o s \in Seq(Items) /\ Len(<<x>> \o s) = n
        /\ \A i \in 1 .. n : (<<x>> \o s)[i] = IF i <= 1 THEN <<x>>[i] ELSE s[i - 1]
    BY <1>2, <1>3, <1>5, ConcatProperties
  <1>7. /\ Inserted(x) \in Seq(Items) /\ Len(Inserted(x)) = n
        /\ Inserted(x)[1] = x
        /\ \A i \in 2 .. n : Inserted(x)[i] = container[i - 1]
    BY <1>2, <1>3, <1>4, <1>5, <1>6
  <1> QED
    BY <1>7 DEF n

\* A pop from a ring leaves the item where it is.
LEMMA RemovedElements ==
  ASSUME TypeOK, NotEmpty
  PROVE  LET n == IF ring THEN Len(container) ELSE Len(container) - 1
         IN  /\ Removed \in Seq(Items) /\ Len(Removed) = n
             /\ \A i \in 1 .. n : Removed[i] = container[i]
  BY FrontElements, LenProperties DEF TypeOK, NotEmpty, Unread, Removed

\* What both kinds of buffer say of their unread items.
LEMMA UnreadType ==
  ASSUME TypeOK
  PROVE  /\ Unread \in 0 .. Len(container) /\ Unread <= Capacity
         /\ Len(container) \in Nat /\ Capacity \in Nat \ {0}
  BY LenProperties, ConstantsAssumption DEF TypeOK, Unread

-----------------------------------------------------------------------------
(* Control                                                                 *)

\* The test that has just begun satisfies Control.
LEMMA InitControl == Init => Control
  <1> SUFFICES ASSUME Init PROVE Control
    OBVIOUS
  <1> USE ConstantsAssumption DEF Init
  <1>1. container \in Seq(Items) /\ Len(container) = 0
    BY EmptySeq
  <1>2. TypeOK
    BY <1>1 DEF TypeOK, Threads, Pushers
  <1>3. ShapeInv /\ MutexInv /\ LaunchInv /\ TodoInv
    BY DEF ShapeInv, MutexInv, LaunchInv, TodoInv, Filling, Threads, Pushers
  <1> QED
    BY <1>2, <1>3 DEF Control

\* Control is inductive.
LEMMA NextControl == Control /\ [Next]_vars => Control'
  <1> SUFFICES ASSUME Control, [Next]_vars
               PROVE Control'
    OBVIOUS
  <1> USE ConstantsAssumption DEF Control
  <1>m. Main \in Threads /\ Main \in Pushers /\ Main \notin Consumers
    BY DEF Threads, Pushers
  <1>t. TypeOK
    OBVIOUS
  <1>1. ASSUME NEW p \in Pushers, NEW x \in Items, Push(p, x) PROVE Control'
    <2>1. p \in Threads
      BY DEF Threads
    <2>2. TypeOK' /\ ShapeInv'
      <3>1. /\ container' \in Seq(Items) /\ Len(container') <= Capacity
            /\ unread' \in 0 .. Len(container')
            /\ ~ ring => unread' = 0
        BY <1>1, <1>t, InsertedElements, UnreadType
           DEF Push, TypeOK, ShapeInv, NotFull, Unread
      <3>2. pc' \in [Threads -> {"new", "lock", "block", "wait", "notify", "launch", "join", "done"}]
        BY <1>1, <1>t, <2>1 DEF Push, TypeOK
      <3> QED
        BY <1>1, <1>t, <3>1, <3>2 DEF Push, TypeOK, ShapeInv
    <2>3. MutexInv'
      BY <1>1, <2>1 DEF Push, TypeOK, MutexInv, MutexFree, Threads
    <2>4. LaunchInv' /\ TodoInv'
      BY <1>1, <1>m, <2>1 DEF Push, TypeOK, LaunchInv, TodoInv, Filling
    <2> QED
      BY <2>2, <2>3, <2>4
  <1>2. ASSUME NEW c \in Consumers, Pop(c) PROVE Control'
    <2>1. c \in Threads
      BY DEF Threads
    <2>2. Oldest \in Items
      BY <1>2, UnreadType, ElementOfSeq DEF Pop, NotEmpty, Oldest, TypeOK
    <2>3. TypeOK' /\ ShapeInv'
      BY <1>2, <1>t, <2>1, <2>2, RemovedElements, UnreadType
         DEF Pop, TypeOK, ShapeInv, NotEmpty, Unread
    <2>4. MutexInv'
      BY <1>2, <2>1 DEF Pop, TypeOK, MutexInv, MutexFree, Threads
    <2>5. LaunchInv' /\ TodoInv'
      BY <1>2, <1>m, <2>1 DEF Pop, TypeOK, LaunchInv, TodoInv, Filling
    <2> QED
      BY <2>3, <2>4, <2>5
  <1> USE DEF TypeOK, ShapeInv, MutexInv, LaunchInv, TodoInv, Filling, Ready, NotEmpty, NotFull,
              Unread, MutexFree
  <1>3. ASSUME NEW t \in Threads, BeginWait(t) PROVE Control'
    BY <1>3, <1>m DEF BeginWait
  <1>4. ASSUME NEW t \in Threads, Block(t) PROVE Control'
    BY <1>4, <1>m DEF Block
  <1>5. ASSUME NEW t \in Threads, SpuriousWake(t) PROVE Control'
    BY <1>5, <1>m DEF SpuriousWake
  <1>6. ASSUME NEW t \in Threads, Notify(t) PROVE Control'
    <2> DEFINE after == [pc EXCEPT ![t] = AfterCall(t)]
    <2>1. /\ todo' = [todo EXCEPT ![t] = @ - 1] /\ todo[t] > 0 /\ pc[t] = "notify"
          /\ AfterCall(t) = "lock" => todo[t] > 1
          /\ AfterCall(t) \in {"lock", "launch", "done"}
          /\ AfterCall(t) = "launch" => t = Main
          /\ t = Main => AfterCall(t) # "done"
          /\ UNCHANGED <<ring, container, unread, mutex, item>>
      BY <1>6 DEF Notify, AfterCall
    <2>2. CASE pc' = after
      BY <1>m, <2>1, <2>2
    <2>3. ASSUME NEW w \in Threads, pc[w] = "wait", pc' = [after EXCEPT ![w] = "lock"]
          PROVE  Control'
      <3>1. /\ pc' \in [Threads -> {"new", "lock", "block", "wait", "notify",
                                    "launch", "join", "done"}]
            /\ w # t /\ pc'[w] = "lock" /\ pc'[t] = AfterCall(t)
            /\ \A u \in Threads \ {t, w} : pc'[u] = pc[u]
        BY <2>1, <2>3
      <3>2. TypeOK' /\ ShapeInv'
        <4>1. todo' \in [Threads -> Nat]
          BY <2>1
        <4> QED
          BY <2>1, <3>1, <4>1
      <3>3. MutexInv'
        BY <1>m, <2>1, <2>3, <3>1
      <3>4. LaunchInv'
        BY <1>m, <2>1, <2>3, <3>1
      <3>5. TodoInv'
        BY <2>1, <2>3, <3>1
      <3> QED
        BY <3>2, <3>3, <3>4, <3>5
    <2>4. \/ pc' = after
          \/ \E w \in Threads : pc[w] = "wait" /\ pc' = [after EXCEPT ![w] = "lock"]
      BY <1>6 DEF Notify, WakeOne, WaitingNotEmpty, WaitingNotFull, Threads
    <2> QED
      BY <2>2, <2>3, <2>4
  <1>7. CASE Launch
    BY <1>7, <1>m DEF Launch
  <1>8. CASE Join
    BY <1>8, <1>m DEF Join
  <1>9. CASE UNCHANGED vars
    BY <1>9 DEF vars
  <1> QED
    BY <1>1, <1>2, <1>3, <1>4, <1>5, <1>6, <1>7, <1>8, <1>9 DEF Next, Acquire, Finished

\* Who holds the mutex, who exists and what is left to do are always
\* consistent with the buffer.
THEOREM ControlInvariant == Spec => []Control
  BY InitControl, NextControl, PTL DEF Spec

\* Every variable keeps its type: the container never outgrows the capacity,
\* m_unread never the container, so that the index of line 44 is inside it.
THEOREM TypeCorrect == Spec => []TypeOK
  BY ControlInvariant, PTL DEF Control
-----------------------------------------------------------------------------
(* No wakeup is lost                                                       *)

\* Pushers and consumers are different threads, and finitely many.
LEMMA Sides ==
  /\ IsFiniteSet(Pushers) /\ IsFiniteSet(Consumers)
  /\ Pushers \cap Consumers = {} /\ Threads = Pushers \cup Consumers
  <1>1. IsFiniteSet(Pushers)
    BY ConstantsAssumption, FS_AddElement DEF Pushers
  <1> QED
    BY <1>1, ConstantsAssumption DEF Pushers, Threads

\* How many threads of a finite set are at a place is a number.
LEMMA AtType ==
  ASSUME NEW S, IsFiniteSet(S), NEW l
  PROVE  At(S, l) \in Nat /\ At(S, l)' \in Nat
  <1>1. {t \in S : pc[t] = l} \subseteq S /\ {t \in S : pc'[t] = l} \subseteq S
    OBVIOUS
  <1> QED
    BY <1>1, FS_Subset, FS_CardinalityType DEF At

\* When one thread of a set goes from one place to another, one fewer is
\* there and one more here.
LEMMA AtMoves ==
  ASSUME NEW S, IsFiniteSet(S), NEW t \in S, NEW l, NEW k, pc[t] = l, pc'[t] = k, l # k,
         \A u \in S \ {t} : pc'[u] = pc[u]
  PROVE  /\ At(S, l) = At(S, l)' + 1 /\ At(S, k)' = At(S, k) + 1
         /\ At(S, l)' \in Nat /\ At(S, k) \in Nat
  <1> DEFINE A(m) == {u \in S : pc[u] = m}
             B(m) == {u \in S : pc'[u] = m}
  <1>1. ASSUME NEW m PROVE IsFiniteSet(A(m)) /\ IsFiniteSet(B(m))
    BY FS_Subset
  <1>2. A(l) = B(l) \cup {t} /\ t \notin B(l)
    OBVIOUS
  <1>3. B(k) = A(k) \cup {t} /\ t \notin A(k)
    OBVIOUS
  <1> HIDE DEF A, B
  <1>4. /\ Cardinality(B(l)) \in Nat
        /\ Cardinality(A(l)) = Cardinality(B(l)) + 1
    BY <1>1, <1>2, FS_AddElement, FS_CardinalityType
  <1>5. /\ Cardinality(A(k)) \in Nat
        /\ Cardinality(B(k)) = Cardinality(A(k)) + 1
    BY <1>1, <1>3, FS_AddElement, FS_CardinalityType
  <1> QED
    BY <1>4, <1>5 DEF At, A, B

\* At any other place there are as many as before.
LEMMA AtOther ==
  ASSUME NEW S, NEW t \in S, NEW l, pc[t] # l, pc'[t] # l,
         \A u \in S \ {t} : pc'[u] = pc[u]
  PROVE  At(S, l)' = At(S, l)
  <1>1. {u \in S : pc'[u] = l} = {u \in S : pc[u] = l}
    OBVIOUS
  <1> QED
    BY <1>1 DEF At

\* Nor if no thread of the set goes anywhere.
LEMMA AtStays ==
  ASSUME NEW S, \A u \in S : pc'[u] = pc[u], NEW l
  PROVE  At(S, l)' = At(S, l)
  BY DEF At

\* A push, a pop, a wait and a wakeup keep the balance; the step that matters is
\* Block, where MutexInv says that the thread which joins the waiting ones has
\* missed nothing.
LEMMA NextNoLostWakeup == Control /\ NoLostWakeup /\ [Next]_vars => NoLostWakeup'
  <1> SUFFICES ASSUME Control, NoLostWakeup, [Next]_vars
               PROVE NoLostWakeup'
    OBVIOUS
  <1>s. /\ IsFiniteSet(Pushers) /\ IsFiniteSet(Consumers)
        /\ Pushers \cap Consumers = {} /\ Threads = Pushers \cup Consumers
    BY Sides
  <1>a. \A l : /\ At(Pushers, l) \in Nat /\ At(Consumers, l) \in Nat
               /\ At(Pushers, l)' \in Nat /\ At(Consumers, l)' \in Nat
    BY <1>s, AtType
  <1>c. TypeOK /\ TypeOK' /\ MutexInv
    BY NextControl DEF Control
  <1>n. Unread \in Nat /\ Unread' \in Nat /\ Capacity \in Nat /\ Unread <= Capacity
    BY <1>c, UnreadType, ConstantsAssumption, LenProperties DEF TypeOK, Unread
  <1>p. pc \in [Threads -> {"new", "lock", "block", "wait", "notify", "launch", "join", "done"}]
    BY <1>c DEF TypeOK
  <1>1. ASSUME NEW p \in Pushers, NEW x \in Items, Push(p, x) PROVE NoLostWakeup'
    <2>1. Unread' = Unread + 1
      BY <1>1, <1>c, InsertedElements, LenProperties
         DEF Push, Unread, NotFull, TypeOK
    <2>2. pc[p] = "lock" /\ pc'[p] = "notify" /\ \A u \in Threads \ {p} : pc'[u] = pc[u]
      BY <1>1, <1>p, <1>s DEF Push
    <2>3. /\ At(Pushers, "notify")' = At(Pushers, "notify") + 1
          /\ At(Pushers, "lock") = At(Pushers, "lock")' + 1
      BY <1>s, <2>2, AtMoves
    <2>4. \A l : At(Consumers, l)' = At(Consumers, l)
      BY <1>s, <2>2, AtStays
    <2>5. UNCHANGED <<WaitingNotEmpty, WaitingNotFull>>
      BY <1>s, <2>2 DEF WaitingNotEmpty, WaitingNotFull
    <2> QED
      BY <1>a, <1>n, <2>1, <2>3, <2>4, <2>5 DEF NoLostWakeup
  <1>2. ASSUME NEW c \in Consumers, Pop(c) PROVE NoLostWakeup'
    <2>1. Unread' = Unread - 1
      BY <1>2, <1>c, RemovedElements, LenProperties DEF Pop, Unread, NotEmpty, TypeOK
    <2>2. pc[c] = "lock" /\ pc'[c] = "notify" /\ \A u \in Threads \ {c} : pc'[u] = pc[u]
      BY <1>2, <1>p, <1>s DEF Pop
    <2>3. /\ At(Consumers, "notify")' = At(Consumers, "notify") + 1
          /\ At(Consumers, "lock") = At(Consumers, "lock")' + 1
      BY <1>s, <2>2, AtMoves
    <2>4. \A l : At(Pushers, l)' = At(Pushers, l)
      BY <1>s, <2>2, AtStays
    <2>5. UNCHANGED <<WaitingNotEmpty, WaitingNotFull>>
      BY <1>s, <2>2 DEF WaitingNotEmpty, WaitingNotFull
    <2> QED
      BY <1>a, <1>n, <2>1, <2>3, <2>4, <2>5 DEF NoLostWakeup
  \* A thread that leaves "lock" to wait has seen that it must: its side is
  \* covered, and nothing changes for the other one.
  <1>w. ASSUME NEW t \in Threads, NEW l, pc' = [pc EXCEPT ![t] = l], pc[t] # "wait",
               <<pc[t], l>> \in {<<"lock", "block">>, <<"block", "wait">>},
               Unread' = Unread, ~ Ready(t)
        PROVE  NoLostWakeup'
    <2>1. /\ pc'[t] = l /\ l # pc[t] /\ l # "notify" /\ pc[t] # "notify"
          /\ \A u \in Threads \ {t} : pc'[u] = pc[u]
      BY <1>p, <1>w
    <2>2. CASE t \in Consumers
      <3>1. Unread = 0
        BY <1>n, <1>w, <2>2 DEF Ready, NotEmpty
      <3>2. At(Consumers, "notify")' = At(Consumers, "notify")
        BY <1>s, <2>1, <2>2, AtOther
      <3>3. \A k : At(Pushers, k)' = At(Pushers, k)
        BY <1>s, <2>1, <2>2, AtStays
      <3>4. WaitingNotFull' = WaitingNotFull
        BY <1>s, <2>1, <2>2 DEF WaitingNotFull
      <3> QED
        BY <1>a, <1>n, <1>w, <3>1, <3>2, <3>3, <3>4 DEF NoLostWakeup
    <2>3. CASE t \in Pushers
      <3>1. Unread = Capacity
        BY <1>n, <1>s, <1>w, <2>3 DEF Ready, NotFull
      <3>2. At(Pushers, "notify")' = At(Pushers, "notify")
        BY <1>s, <2>1, <2>3, AtOther
      <3>3. \A k : At(Consumers, k)' = At(Consumers, k)
        BY <1>s, <2>1, <2>3, AtStays
      <3>4. WaitingNotEmpty' = WaitingNotEmpty
        BY <1>s, <2>1, <2>3 DEF WaitingNotEmpty
      <3> QED
        BY <1>a, <1>n, <1>w, <3>1, <3>2, <3>3, <3>4 DEF NoLostWakeup
    <2> QED
      BY <1>s, <2>2, <2>3
  <1>3. ASSUME NEW t \in Threads, BeginWait(t) PROVE NoLostWakeup'
    BY <1>3, <1>w DEF BeginWait, Unread
  <1>4. ASSUME NEW t \in Threads, Block(t) PROVE NoLostWakeup'
    BY <1>4, <1>c, <1>w DEF Block, Unread, MutexInv
  <1>5. ASSUME NEW t \in Threads, SpuriousWake(t) PROVE NoLostWakeup'
    <2>1. /\ pc[t] = "wait" /\ pc'[t] = "lock" /\ Unread' = Unread
          /\ \A u \in Threads \ {t} : pc'[u] = pc[u]
      BY <1>5, <1>p DEF SpuriousWake, Unread
    <2>2. WaitingNotEmpty' \subseteq WaitingNotEmpty /\ WaitingNotFull' \subseteq WaitingNotFull
      BY <1>s, <2>1 DEF WaitingNotEmpty, WaitingNotFull
    <2>3. /\ At(Consumers, "notify")' = At(Consumers, "notify")
          /\ At(Pushers, "notify")' = At(Pushers, "notify")
          /\ At(Consumers, "lock")' >= At(Consumers, "lock")
          /\ At(Pushers, "lock")' >= At(Pushers, "lock")
      <3>1. CASE t \in Consumers
        <4>1. At(Consumers, "lock")' = At(Consumers, "lock") + 1
          BY <1>s, <2>1, <3>1, AtMoves
        <4>2. At(Consumers, "notify")' = At(Consumers, "notify")
          BY <1>s, <2>1, <3>1, AtOther
        <4>3. \A l : At(Pushers, l)' = At(Pushers, l)
          BY <1>s, <2>1, <3>1, AtStays
        <4> QED
          BY <1>a, <4>1, <4>2, <4>3
      <3>2. CASE t \in Pushers
        <4>1. At(Pushers, "lock")' = At(Pushers, "lock") + 1
          BY <1>s, <2>1, <3>2, AtMoves
        <4>2. At(Pushers, "notify")' = At(Pushers, "notify")
          BY <1>s, <2>1, <3>2, AtOther
        <4>3. \A l : At(Consumers, l)' = At(Consumers, l)
          BY <1>s, <2>1, <3>2, AtStays
        <4> QED
          BY <1>a, <4>1, <4>2, <4>3
      <3> QED
        BY <1>s, <3>1, <3>2
    <2> QED
      BY <1>a, <1>n, <2>1, <2>2, <2>3 DEF NoLostWakeup
  \* The end of a call of one side, which wakes one waiting thread of the other.
  <1>6. ASSUME NEW t \in Threads, Notify(t) PROVE NoLostWakeup'
    <2> DEFINE mine == IF t \in Consumers THEN Consumers ELSE Pushers
               theirs == IF t \in Consumers THEN Pushers ELSE Consumers
               waiting == {u \in theirs : pc[u] = "wait"}
               after == [pc EXCEPT ![t] = AfterCall(t)]
    <2>1. /\ pc[t] = "notify" /\ AfterCall(t) \in {"lock", "launch", "done"}
          /\ t \in mine /\ t \notin theirs /\ Unread' = Unread
          /\ mine \cap theirs = {} /\ mine \cup theirs = Threads
          /\ IsFiniteSet(mine) /\ IsFiniteSet(theirs)
      BY <1>6, <1>s DEF Notify, AfterCall, Unread
    <2>2. \/ waiting = {} /\ pc' = after
          \/ \E w \in waiting : pc' = [after EXCEPT ![w] = "lock"]
      BY <1>6, <1>s DEF Notify, WakeOne, WaitingNotEmpty, WaitingNotFull
    <2>3. /\ pc'[t] = AfterCall(t) /\ \A u \in mine \ {t} : pc'[u] = pc[u]
      BY <1>p, <2>1, <2>2
    <2>4. {u \in mine : pc'[u] = "wait"} = {u \in mine : pc[u] = "wait"}
      BY <2>1, <2>3
    <2>5. /\ At(mine, "notify") = At(mine, "notify")' + 1
          /\ At(mine, "lock")' >= At(mine, "lock")
      <3> HIDE DEF mine, theirs, after
      <3>1. At(mine, "notify") = At(mine, "notify")' + 1
        BY <2>1, <2>3, AtMoves
      <3>2. CASE AfterCall(t) = "lock"
        <4>1. At(mine, "lock")' = At(mine, "lock") + 1 /\ At(mine, "lock") \in Nat
          BY <2>1, <2>3, <3>2, AtMoves
        <4> QED
          BY <3>1, <4>1
      <3>3. CASE AfterCall(t) # "lock"
        <4>1. At(mine, "lock")' = At(mine, "lock") /\ At(mine, "lock") \in Nat
          BY <2>1, <2>3, <3>3, AtOther, AtType
        <4> QED
          BY <3>1, <4>1
      <3> QED
        BY <3>2, <3>3
    <2>6. CASE waiting = {} /\ pc' = after
      <3>1. \A u \in theirs : pc'[u] = pc[u]
        BY <1>p, <2>1, <2>6
      <3>2. {u \in theirs : pc'[u] = "wait"} = {}
        BY <2>6, <3>1
      <3>3. \A l : At(theirs, l)' = At(theirs, l)
        BY <3>1, AtStays
      <3> QED
        BY <1>a, <1>n, <2>1, <2>4, <2>5, <3>2, <3>3
           DEF NoLostWakeup, WaitingNotEmpty, WaitingNotFull
    <2>7. ASSUME NEW w \in waiting, pc' = [after EXCEPT ![w] = "lock"] PROVE NoLostWakeup'
      <3>1. /\ pc[w] = "wait" /\ pc'[w] = "lock" /\ w \in theirs
            /\ \A u \in theirs \ {w} : pc'[u] = pc[u]
        BY <1>p, <2>1, <2>7
      <3>2. /\ At(theirs, "notify")' = At(theirs, "notify")
            /\ At(theirs, "lock")' = At(theirs, "lock") + 1
        <4> HIDE DEF mine, theirs, after
        <4> QED
          BY <2>1, <3>1, AtMoves, AtOther
      <3>3. waiting # {}
        OBVIOUS
      <3> QED
        BY <1>a, <1>n, <2>1, <2>4, <2>5, <3>2, <3>3
           DEF NoLostWakeup, WaitingNotEmpty, WaitingNotFull
    <2> QED
      BY <2>2, <2>6, <2>7
  <1>7. CASE Launch
    <2>1. \A t \in Threads : pc'[t] # "wait"
      BY <1>7 DEF Launch
    <2> QED
      BY <1>s, <2>1 DEF NoLostWakeup, WaitingNotEmpty, WaitingNotFull
  <1>8. CASE Join
    <2>1. Main \in Pushers /\ Main \in Threads
      BY <1>s DEF Pushers
    <2>2. /\ pc[Main] = "join" /\ pc'[Main] = "done" /\ Unread' = Unread
          /\ \A u \in Threads \ {Main} : pc'[u] = pc[u]
      BY <1>8, <1>p, <2>1 DEF Join, Unread
    <2>3. UNCHANGED <<WaitingNotEmpty, WaitingNotFull>>
      BY <1>s, <2>2 DEF WaitingNotEmpty, WaitingNotFull
    <2>4. /\ \A l : At(Consumers, l)' = At(Consumers, l)
          /\ UNCHANGED <<At(Pushers, "lock"), At(Pushers, "notify")>>
      BY <1>s, <2>1, <2>2, AtOther, AtStays
    <2> QED
      BY <2>2, <2>3, <2>4 DEF NoLostWakeup
  <1>9. CASE UNCHANGED vars
    BY <1>9 DEF vars, NoLostWakeup, WaitingNotEmpty, WaitingNotFull, Unread, At
  <1> QED
    BY <1>1, <1>2, <1>3, <1>4, <1>5, <1>6, <1>7, <1>8, <1>9 DEF Next, Acquire, Finished

\* push_front() and pop_back() (lines 33-46): on neither condition a wakeup is
\* lost, whoever else is notified, in whatever order threads get the mutex.
THEOREM WakeupsArrive == Spec => []NoLostWakeup
  <1>1. Init => NoLostWakeup
    BY DEF Init, NoLostWakeup, WaitingNotEmpty, WaitingNotFull, Threads, Pushers
  <1> QED
    BY <1>1, NextNoLostWakeup, ControlInvariant, PTL DEF Spec

-----------------------------------------------------------------------------
(* The buffer is a bounded FIFO                                            *)

\* The first n elements of a sequence, read backwards, are a sequence.
LEMMA Reversed ==
  ASSUME NEW S, NEW s \in Seq(S), NEW n \in 0 .. Len(s)
  PROVE  LET r == [i \in 1 .. n |-> s[n + 1 - i]]
         IN  r \in Seq(S) /\ Len(r) = n
  <1> DEFINE r == [i \in 1 .. n |-> s[n + 1 - i]]
  <1>1. Len(s) \in Nat /\ n \in Nat
    BY LenProperties
  <1>2. \A i \in 1 .. n : n + 1 - i \in 1 .. Len(s)
    BY <1>1
  <1>3. \A i \in 1 .. n : s[n + 1 - i] \in S
    BY <1>2, ElementOfSeq
  <1>4. r \in [1 .. n -> S]
    BY <1>3
  <1>5. r \in Seq(S)
    BY <1>1, <1>4, SeqDef
  <1>6. DOMAIN r = 1 .. n /\ DOMAIN r = 1 .. Len(r) /\ Len(r) \in Nat
    BY <1>5, LenProperties
  <1> QED
    BY <1>1, <1>5, <1>6

\* So are the unread items, before a step and after it.
LEMMA BufType ==
  ASSUME TypeOK, TypeOK'
  PROVE  /\ Buf \in Seq(Items) /\ Len(Buf) = Unread
         /\ \A i \in 1 .. Unread : Buf[i] = container[Unread + 1 - i]
         /\ Buf' \in Seq(Items) /\ Len(Buf') = Unread'
         /\ \A i \in 1 .. Unread' : Buf'[i] = container'[Unread' + 1 - i]
  <1>1. container \in Seq(Items) /\ Unread \in 0 .. Len(container)
    BY UnreadType DEF TypeOK
  <1>2. container' \in Seq(Items) /\ Unread' \in 0 .. Len(container')
    BY LenProperties DEF TypeOK, Unread
  <1> QED
    BY <1>1, <1>2, Reversed DEF Buf

\* A push appends to the unread items, though the container of a ring that is
\* full drops one: the dropped one has been read.
LEMMA PushAppends ==
  ASSUME TypeOK, TypeOK', NEW p \in Pushers, NEW x \in Items, Push(p, x)
  PROVE  Len(Buf) < Capacity /\ Buf' = Append(Buf, x)
  <1>1. /\ Unread \in Nat /\ Unread <= Len(container) /\ Unread < Capacity
        /\ Len(container) \in Nat /\ Capacity \in Nat
    BY UnreadType DEF Push, NotFull
  <1> DEFINE n == IF ring /\ Len(container) = Capacity THEN Capacity ELSE Len(container) + 1
  <1>2. /\ container' = Inserted(x) /\ Len(container') = n /\ container'[1] = x
        /\ \A i \in 2 .. n : container'[i] = container[i - 1]
    BY InsertedElements DEF Push
  <1>3. Unread' = Unread + 1 /\ n \in Nat /\ Unread + 1 <= n
    BY <1>1, <1>2 DEF Push, Unread
  <1> HIDE DEF n
  <1>4. /\ Buf \in Seq(Items) /\ Len(Buf) = Unread
        /\ \A i \in 1 .. Unread : Buf[i] = container[Unread + 1 - i]
    BY BufType
  <1>5. /\ Buf' \in Seq(Items) /\ Len(Buf') = Unread'
        /\ \A i \in 1 .. Unread' : Buf'[i] = container'[Unread' + 1 - i]
    BY BufType
  <1>6. /\ Append(Buf, x) \in Seq(Items) /\ Len(Append(Buf, x)) = Unread + 1
        /\ \A i \in 1 .. Unread : Append(Buf, x)[i] = Buf[i]
        /\ Append(Buf, x)[Unread + 1] = x
    BY <1>4, AppendProperties
  <1>7. ASSUME NEW i \in 1 .. Unread + 1 PROVE Buf'[i] = Append(Buf, x)[i]
    <2>1. Buf'[i] = container'[Unread + 2 - i]
      BY <1>1, <1>3, <1>5
    <2>2. CASE i = Unread + 1
      BY <1>1, <1>2, <1>6, <2>1, <2>2
    <2>3. CASE i \in 1 .. Unread
      <3> DEFINE j == Unread + 2 - i
      <3>1. j \in 2 .. n /\ j - 1 = Unread + 1 - i /\ Buf'[i] = container'[j]
        BY <1>1, <1>3, <2>1, <2>3
      <3> HIDE DEF j
      <3>2. container'[j] = container[Unread + 1 - i]
        BY <1>2, <3>1
      <3>3. Append(Buf, x)[i] = Buf[i] /\ Buf[i] = container[Unread + 1 - i]
        BY <1>4, <1>6, <2>3
      <3> QED
        BY <3>1, <3>2, <3>3
    <2>4. i = Unread + 1 \/ i \in 1 .. Unread
      BY <1>1
    <2> QED
      BY <2>2, <2>3, <2>4
  <1> QED
    BY <1>1, <1>3, <1>4, <1>5, <1>6, <1>7, SeqEqual

\* A pop takes the oldest unread item.
LEMMA PopTakesHead ==
  ASSUME TypeOK, TypeOK', NEW c \in Consumers, Pop(c)
  PROVE  /\ Buf # <<>> /\ Buf' = Tail(Buf)
         /\ item' = [item EXCEPT ![c] = Head(Buf)]
  <1>1. /\ Unread \in Nat /\ Unread <= Len(container) /\ Unread > 0
        /\ Len(container) \in Nat
    BY UnreadType DEF Pop, NotEmpty
  <1> DEFINE n == IF ring THEN Len(container) ELSE Len(container) - 1
  <1>2. /\ container' = Removed /\ Len(container') = n
        /\ \A i \in 1 .. n : container'[i] = container[i]
    BY RemovedElements DEF Pop
  <1>3. Unread' = Unread - 1 /\ n \in Nat /\ Unread - 1 <= n
    BY <1>1, <1>2 DEF Pop, Unread
  <1> HIDE DEF n
  <1>4. /\ Buf \in Seq(Items) /\ Len(Buf) = Unread
        /\ \A i \in 1 .. Unread : Buf[i] = container[Unread + 1 - i]
    BY BufType
  <1>5. /\ Buf' \in Seq(Items) /\ Len(Buf') = Unread'
        /\ \A i \in 1 .. Unread' : Buf'[i] = container'[Unread' + 1 - i]
    BY BufType
  <1>6. Buf # <<>>
    BY <1>1, <1>4, EmptySeq
  <1>7. /\ Tail(Buf) \in Seq(Items) /\ Len(Tail(Buf)) = Unread - 1
        /\ \A i \in 1 .. Unread - 1 : Tail(Buf)[i] = Buf[i + 1]
        /\ Head(Buf) = Buf[1]
    BY <1>4, <1>6, HeadTailProperties
  <1>8. ASSUME NEW i \in 1 .. Unread - 1 PROVE Buf'[i] = Tail(Buf)[i]
    <2>1. Buf'[i] = container'[Unread - i]
      BY <1>1, <1>3, <1>5
    <2>2. Unread - i \in 1 .. n /\ i + 1 \in 1 .. Unread /\ Unread + 1 - (i + 1) = Unread - i
      BY <1>1, <1>3
    <2> QED
      BY <1>2, <1>4, <1>7, <2>1, <2>2
  <1>9. Buf' = Tail(Buf)
    BY <1>1, <1>3, <1>5, <1>7, <1>8, SeqEqual
  <1>10. Head(Buf) = Oldest
    BY <1>1, <1>4, <1>7 DEF Oldest
  <1> QED
    BY <1>6, <1>9, <1>10 DEF Pop

\* The other steps move threads only.
LEMMA OthersStutter ==
  ASSUME UNCHANGED <<ring, container, unread, item>>
  PROVE  UNCHANGED Fifo!vars
  BY DEF Fifo!vars, Buf, Unread

\* push_front() and pop_back(): every class of buffer is a first-in first-out
\* queue of Capacity items; a full ring drops no item that is not read, and
\* m_unread never makes it read one twice (lines 35 and 44).
THEOREM BufferImplementsFifo == Spec => ImplementsFifo
  <1>1. Init => Fifo!Init
    <2> SUFFICES ASSUME Init PROVE Fifo!Init
      OBVIOUS
    <2>1. Unread = 0
      BY DEF Init, Unread
    <2>2. Buf = <<>>
      BY <2>1 DEF Buf
    <2> QED
      BY <2>2 DEF Init, Fifo!Init
  <1>2. Control /\ Control' /\ [Next]_vars => [Fifo!Next]_(Fifo!vars)
    <2> SUFFICES ASSUME Control, Control', [Next]_vars PROVE [Fifo!Next]_(Fifo!vars)
      OBVIOUS
    <2>t. TypeOK /\ TypeOK'
      BY DEF Control
    <2>1. ASSUME NEW p \in Pushers, NEW x \in Items, Push(p, x) PROVE Fifo!Put(x)
      BY <2>1, <2>t, PushAppends DEF Push, Fifo!Put
    <2>2. ASSUME NEW c \in Consumers, Pop(c) PROVE Fifo!Get(c)
      BY <2>2, <2>t, PopTakesHead DEF Fifo!Get
    <2>3. ASSUME NEW t \in Threads, BeginWait(t) \/ Block(t) \/ SpuriousWake(t) \/ Notify(t)
          PROVE  UNCHANGED Fifo!vars
      BY <2>3, OthersStutter DEF BeginWait, Block, SpuriousWake, Notify
    <2>4. CASE Launch \/ Join \/ UNCHANGED vars
      BY <2>4, OthersStutter DEF Launch, Join, vars
    <2> QED
      BY <2>1, <2>2, <2>3, <2>4 DEF Next, Acquire, Finished, Fifo!Next
  <1> QED
    BY <1>1, <1>2, ControlInvariant, PTL DEF Spec, ImplementsFifo, Fifo!Spec
=============================================================================
