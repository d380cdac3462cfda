------------------------------- MODULE Blobs -------------------------------
(***************************************************************************)
(* The template Blob (include/Blob.hpp): handles on vectors.  A copy of a  *)
(* Blob shares the vector of its source; the vector is destroyed with its  *)
(* last handle.                                                            *)
(***************************************************************************)
EXTENDS Integers, SequencesExt

CONSTANTS Handles, Vectors, Elements, MaxSize, None

VARIABLES data,    \* data[h]: the vector of handle h, or None when there is no h
          vector,  \* vector[v]: its elements, or None
          access   \* the last access: "off", "none", "inside", "outside" or "out_of_range"

vars == <<data, vector, access>>

Launched(on) == /\ data = [h \in Handles |-> None] /\ vector = [v \in Vectors |-> None]
                /\ access = IF on THEN "none" ELSE "off"

Size(h) == Len(vector[data[h]])

\* Blob() and Blob(initializer_list): make_shared.
Construct(h) == /\ access # "off" /\ data[h] = None
                /\ \E v \in Vectors, il \in {<< >>} \cup {<<e>> : e \in Elements} :
                     /\ vector[v] = None
                     /\ data' = [data EXCEPT ![h] = v] /\ vector' = [vector EXCEPT ![v] = il]
                /\ UNCHANGED access

\* Faulty variant: ~Blob() deletes the vector, whoever else shares it.
SharersForgotten(h) == {}
Sharers(h) == {g \in Handles \ {h} : data[g] = data[h]}

Destroy(h) == /\ data[h] # None
              /\ data' = [data EXCEPT ![h] = None]
              /\ vector' = IF Sharers(h) = {} THEN [vector EXCEPT ![data[h]] = None] ELSE vector
              /\ UNCHANGED access

Copy(h) == /\ data[h] = None
           /\ \E g \in Handles : data[g] # None /\ data' = [data EXCEPT ![h] = data[g]]
           /\ UNCHANGED <<vector, access>>

PushBack(h) == /\ data[h] # None /\ Size(h) < MaxSize
               /\ \E t \in Elements : vector' = [vector EXCEPT ![data[h]] = Append(@, t)]
               /\ UNCHANGED <<data, access>>

\* Faulty variant: i may be the size.
CheckOneTooFar(h, i) == i <= Size(h)
\* check(): throws otherwise.
Check(h, i) == i < Size(h)

\* What becomes of an access to element place after check(i).
Accessed(h, i, place) == CASE ~Check(h, i) -> "out_of_range"
                           [] Check(h, i) /\ place \in 0..(Size(h) - 1) -> "inside"
                           [] OTHER -> "outside"

\* operator[] checks its index, back() checks 0 and takes the last.
Access(h) == /\ data[h] # None
             /\ \/ \E i \in 0..MaxSize : access' = Accessed(h, i, i)
                \/ access' = Accessed(h, 0, Size(h) - 1)
             /\ UNCHANGED <<data, vector>>

PopBack(h) == /\ data[h] # None
              /\ access' = Accessed(h, 0, Size(h) - 1)
              /\ vector' = IF access' = "inside" THEN [vector EXCEPT ![data[h]] = Front(@)] ELSE vector
              /\ UNCHANGED data

Next == \E h \in Handles :
  Construct(h) \/ Destroy(h) \/ Copy(h) \/ PushBack(h) \/ Access(h) \/ PopBack(h)

-----------------------------------------------------------------------------
TypeOK == /\ data \in [Handles -> Vectors \cup {None}]
          /\ \A v \in Vectors : vector[v] # None => Len(vector[v]) <= MaxSize

\* A vector lives exactly as long as one of its handles, and whichever handle has
\* shrunk it, no access through another one is outside it.
SharedSafely == /\ \A v \in Vectors : vector[v] # None <=> \E h \in Handles : data[h] = v
                /\ access # "outside"
=============================================================================
