---------------------------- MODULE BoundedFifo ----------------------------
(***************************************************************************)
(* What the bounded buffers of source/ promise to the threads that share   *)
(* them: a first-in first-out queue of at most Capacity items.  Put and    *)
(* Get are the moments at which a blocking call takes effect; each getter  *)
(* keeps the item it got last.                                             *)
(***************************************************************************)
EXTENDS Naturals, Sequences

CONSTANTS Capacity, Items, Getters, NoItem

VARIABLES buf,  \* the items that wait, oldest first
          got   \* the item each getter got last

vars == <<buf, got>>

Init == /\ buf = <<>>
        /\ got = [g \in Getters |-> NoItem]

Put(x) == /\ Len(buf) < Capacity
          /\ buf' = Append(buf, x)
          /\ UNCHANGED got

Get(g) == /\ buf # <<>>
          /\ got' = [got EXCEPT ![g] = Head(buf)]
          /\ buf' = Tail(buf)

Next == \/ \E x \in Items : Put(x)
        \/ \E g \in Getters : Get(g)

Spec == Init /\ [][Next]_vars
=============================================================================
