-------------------------- MODULE SharedContainer --------------------------
(***************************************************************************)
(* container, func1() and test_cont1() of source/test_thread.cpp: threads  *)
(* add ranges to one vector.  addrange() locks for every element, and      *)
(* add() locks again inside: the mutex must be recursive.                  *)
(***************************************************************************)
EXTENDS Naturals, SequencesExt

CONSTANTS Adders,  \* the threads of test_cont1()
          Num,     \* the elements of a range: 3, line 65
          None

VARIABLES elements,  \* _elements, each with the thread that brought it
          owner,     \* the owner of _lock, or None
          depth,     \* how often it has locked it
          i,         \* the loop variable of each addrange()
          pc,        \* where each thread is
          dumped     \* what dump() printed

vars == <<elements, owner, depth, i, pc, dumped>>

\* on is FALSE if this program is not the one that runs.
Launched(on) == /\ elements = <<>>
                /\ owner = None /\ depth = 0
                /\ i = [a \in Adders |-> 0]
                /\ pc = [a \in Adders |-> IF on THEN "addrange" ELSE "off"]
                /\ dumped = {}

MayLock(a) == owner \in {None, a}                  \* a recursive mutex, line 27

Released == IF depth = 1 THEN None ELSE owner

Lock(a) == /\ MayLock(a)
           /\ owner' = a /\ depth' = depth + 1

Unlock == owner' = Released /\ depth' = depth - 1

\* Lines 42-46.
Enter(a) == /\ pc[a] = "addrange" /\ i[a] < Num
            /\ Lock(a)
            /\ pc' = [pc EXCEPT ![a] = "add"]
            /\ UNCHANGED <<elements, i, dumped>>

\* Lines 33-34.
LockAgain(a) == /\ pc[a] = "add"
                /\ Lock(a)
                /\ pc' = [pc EXCEPT ![a] = "push"]
                /\ UNCHANGED <<elements, i, dumped>>

\* Lines 34-36.
PushBack(a) == /\ pc[a] = "push"
               /\ elements' = Append(elements, <<a, i[a]>>)
               /\ Unlock
               /\ pc' = [pc EXCEPT ![a] = "leave"]
               /\ UNCHANGED <<i, dumped>>

\* Lines 47-48.
Leave(a) == /\ pc[a] = "leave"
            /\ Unlock
            /\ i' = [i EXCEPT ![a] = @ + 1]
            /\ pc' = [pc EXCEPT ![a] = IF i'[a] < Num THEN "addrange" ELSE "ended"]
            /\ UNCHANGED <<elements, dumped>>

\* Faulty variant: main waits for one of the threads.
OneJoined == \E a \in Adders : pc[a] = "ended"
Joined == \A a \in Adders : pc[a] = "ended"    \* lines 244-246

\* Line 248, and lines 52-59.
Dump == /\ Joined /\ owner = None
        /\ dumped = {}
        /\ dumped' = ToSet(elements)
        /\ UNCHANGED <<elements, owner, depth, i, pc>>

Adder(a) == Enter(a) \/ LockAgain(a) \/ PushBack(a) \/ Leave(a)

Next == (\E a \in Adders : Adder(a)) \/ Dump

\* Threads run, and who keeps asking for the lock gets it in the end.
Fairness == WF_vars(Dump) /\ \A a \in Adders : SF_vars(Adder(a))

TypeOK == /\ elements \in Seq(Adders \X (0 .. Num - 1))
          /\ owner \in Adders \cup {None} /\ depth \in 0 .. 2
          /\ i \in [Adders -> 0 .. Num]
          /\ pc \in [Adders -> {"off", "addrange", "add", "push", "leave", "ended"}]
          /\ dumped \subseteq Adders \X (0 .. Num - 1)

\* Between two locks of one thread nobody else gets in: the vector has one
\* user, who has locked as often as its place in the code says.
OneUser == \A a \in Adders :
  CASE pc[a] \in {"add", "leave"} -> owner = a /\ depth = 1
    [] pc[a] = "push" -> owner = a /\ depth = 2
    [] OTHER -> owner # a

\* dump() prints all ranges, and the elements of each are in their order.
AllDumped ==
  /\ dumped # {} => dumped = Adders \X (0 .. Num - 1) /\ Len(elements) = Cardinality(dumped)
  /\ \A j, k \in DOMAIN elements :
       elements[j][1] = elements[k][1] /\ j < k => elements[j][2] < elements[k][2]
=============================================================================
