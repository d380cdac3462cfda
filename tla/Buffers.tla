------------------------------ MODULE Buffers ------------------------------
(***************************************************************************)
(* The class Buffer of source/chapter_10.cpp: objects that own an array,   *)
(* copied, moved and assigned in any order, while any allocation may fail. *)
(***************************************************************************)
EXTENDS Naturals, FiniteSets

CONSTANTS Objects, Sizes,
          DefaultSize,  \* the 16 of Buffer()
          None

VARIABLES size,     \* size[b]: _size, None when there is no object b
          array,    \* array[b]: the elements _buffer has room for, or None for null
          broken,   \* the objects whose operator= has thrown
          outcome   \* "off", "run", "aborted" by the assert, or "crashed" by a null

vars == <<size, array, broken, outcome>>

Launched(on) == /\ size = [b \in Objects |-> None] /\ array = [b \in Objects |-> None]
                /\ broken = {} /\ outcome = IF on THEN "run" ELSE "off"

Alive(b) == size[b] # None

\* Buffer() and Buffer(name, size); if new throws there is no object.
Construct(b) == /\ outcome = "run" /\ ~Alive(b)
                /\ \E n \in Sizes \cup {DefaultSize} : /\ size' = [size EXCEPT ![b] = n]
                                                       /\ array' = [array EXCEPT ![b] = n]
                /\ UNCHANGED <<broken, outcome>>

Destroy(b) == /\ outcome = "run" /\ Alive(b)
              /\ size' = [size EXCEPT ![b] = None] /\ array' = [array EXCEPT ![b] = None]
              /\ broken' = broken \ {b} /\ UNCHANGED outcome

Null(b) == array[b] = None

\* std::copy() of n elements through a null pointer.
Crash == outcome' = "crashed" /\ UNCHANGED <<size, array, broken>>

\* Buffer(const Buffer&).
CopyConstruct(b, copy) ==
  /\ outcome = "run" /\ ~Alive(b) /\ Alive(copy)
  /\ IF Null(copy) /\ size[copy] > 0 THEN Crash
     ELSE /\ size' = [size EXCEPT ![b] = size[copy]]
          /\ array' = [array EXCEPT ![b] = size[copy]]
          /\ UNCHANGED <<broken, outcome>>

\* The array operator= copies into: a new one only if the sizes differ.
Destination(b, n) == CASE size[b] = n -> array[b]
                       [] size[b] # n /\ n > 0 -> n
                       [] OTHER -> None

\* operator=(const Buffer&).  The name is assigned first and is not modelled.
Assign(b, copy) ==
  /\ outcome = "run" /\ Alive(b) /\ Alive(copy) /\ b # copy
  /\ LET n == size[copy]
         dest == Destination(b, n) IN
     IF n > 0 /\ (Null(copy) \/ dest = None) THEN Crash
     ELSE /\ size' = [size EXCEPT ![b] = n]
          /\ array' = [array EXCEPT ![b] = dest]
          /\ broken' = broken \ {b}
          /\ UNCHANGED outcome

\* new throws: _size has its new value, but the array is gone.
AssignThrows(b, copy) ==
  /\ outcome = "run" /\ Alive(b) /\ Alive(copy) /\ size[b] # size[copy] /\ size[copy] > 0
  /\ size' = [size EXCEPT ![b] = size[copy]]
  /\ array' = [array EXCEPT ![b] = None]
  /\ broken' = broken \cup {b} /\ UNCHANGED outcome

\* Faulty variant: the move constructor does not reset its source.
MovedFromSizeKept(b) == size[b]
\* temp._size = 0
MovedFromSize(b) == 0

\* Buffer(Buffer&&), which is also how getBuffer() returns its object.
MoveConstruct(b, temp) ==
  /\ outcome = "run" /\ ~Alive(b) /\ Alive(temp)
  /\ size' = [size EXCEPT ![b] = size[temp], ![temp] = MovedFromSize(temp)]
  /\ array' = [array EXCEPT ![b] = array[temp], ![temp] = None]
  /\ broken' = IF temp \in broken THEN (broken \ {temp}) \cup {b} ELSE broken
  /\ UNCHANGED outcome

\* operator=(Buffer&&); the assert fails for a move to itself.
MoveAssign(b, temp) ==
  /\ outcome = "run" /\ Alive(b) /\ Alive(temp)
  /\ IF b = temp THEN outcome' = "aborted" /\ UNCHANGED <<size, array, broken>>
     ELSE /\ size' = [size EXCEPT ![b] = size[temp], ![temp] = MovedFromSize(temp)]
          /\ array' = [array EXCEPT ![b] = array[temp], ![temp] = None]
          /\ broken' = (broken \ {b, temp}) \cup (IF temp \in broken THEN {b} ELSE {})
          /\ UNCHANGED outcome

Next == \E b \in Objects :
          \/ Construct(b) \/ Destroy(b)
          \/ \E c \in Objects : \/ CopyConstruct(b, c) \/ Assign(b, c) \/ AssignThrows(b, c)
                                \/ MoveConstruct(b, c) \/ MoveAssign(b, c)

-----------------------------------------------------------------------------
TypeOK == \A b \in Objects : Alive(b) => size[b] \in Sizes \cup {DefaultSize, 0}

\* _size is the length of the array of every object that is moved from or that
\* no assignment has left half-way; without such an object nothing is copied
\* through a null pointer.
SizesAreRight ==
  /\ \A b \in Objects : Alive(b) /\ b \notin broken =>
       IF Null(b) THEN size[b] = 0 ELSE array[b] = size[b]
  /\ outcome = "crashed" => broken # {}
=============================================================================
