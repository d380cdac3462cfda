-------------------------- MODULE MemoryReclaimer --------------------------
(***************************************************************************)
(* MemoryReclaimer of source/test_readwrite_lock.cpp: what was unlinked    *)
(* from a shared structure is freed by a callback once every thread has    *)
(* been quiescent, that is, without a reference into the structure.        *)
(*                                                                         *)
(* Every method holds m_mutex from beginning to end and is one step; the   *)
(* callbacks free memory and call no method.  holders is not in the code:  *)
(* it names the threads that were registered when a callback was added     *)
(* and have not been quiescent since, so that they may still hold what the *)
(* callback frees.                                                         *)
(***************************************************************************)
EXTENDS Naturals, SequencesExt

CONSTANTS Threads, Callbacks

VARIABLES registered,    \* the registered threads; the index of a thread is its place
          wasQuiescent,  \* m_threadWasQuiescent
          current,       \* m_currentIntervalCallbacks
          previous,      \* m_previousIntervalCallbacks
          numRemaining,  \* m_numRemaining
          invoked,       \* the callbacks called, in order
          holders

vars == <<registered, wasQuiescent, current, previous, numRemaining, invoked, holders>>

Launched == /\ registered = <<>>
            /\ wasQuiescent = <<>>
            /\ current = <<>> /\ previous = <<>>
            /\ numRemaining = 0
            /\ invoked = <<>>
            /\ holders = [c \in Callbacks |-> {}]

Index(t) == CHOOSE k \in DOMAIN registered : registered[k] = t
Added(c) == c \in ToSet(current) \cup ToSet(previous) \cup ToSet(invoked)

-----------------------------------------------------------------------------
(* The decisions of the code, most with a faulty variant that a run is     *)
(* shown to tell from it.                                                  *)

\* What the end of an interval calls, line 102.
\* Faulty variant: the callbacks of the interval that ends.
Recent == current
Due == previous

\* m_numRemaining for the next interval, line 115.
\* Faulty variant: the thread that ended the interval is not counted again.
OthersOnly == Len(wasQuiescent) - 1
All == Len(wasQuiescent)

\* The flags at the end of an interval, lines 111-114.
\* Faulty variant: the first one is forgotten.
FirstLeft == [k \in DOMAIN wasQuiescent |-> k = 1]
Reset == [k \in DOMAIN wasQuiescent |-> FALSE]

-----------------------------------------------------------------------------
RegisterThread(t) ==
  /\ t \notin ToSet(registered)
  /\ registered' = Append(registered, t)
  /\ wasQuiescent' = Append(wasQuiescent, FALSE)
  /\ numRemaining' = numRemaining + 1
  /\ UNCHANGED <<current, previous, invoked, holders>>

AddCallback(c) ==
  /\ ~Added(c)
  /\ current' = Append(current, c)
  /\ holders' = [holders EXCEPT ![c] = ToSet(registered)]
  /\ UNCHANGED <<registered, wasQuiescent, previous, numRemaining, invoked>>

\* onQuiescentState() of a thread that was not: lines 97-98, and the end of
\* the interval, lines 99-116.
OnQuiescentState(t) ==
  /\ t \in ToSet(registered) /\ ~wasQuiescent[Index(t)]
  /\ holders' = [c \in Callbacks |-> holders[c] \ {t}]
  /\ IF numRemaining - 1 = 0
       THEN /\ invoked' = invoked \o Due
            /\ previous' = current
            /\ current' = <<>>
            /\ wasQuiescent' = Reset
            /\ numRemaining' = All
       ELSE /\ wasQuiescent' = [wasQuiescent EXCEPT ![Index(t)] = TRUE]
            /\ numRemaining' = numRemaining - 1
            /\ UNCHANGED <<current, previous, invoked>>
  /\ UNCHANGED registered

\* The same of a thread that was: nothing is done, line 95.
StillQuiescent(t) ==
  /\ t \in ToSet(registered) /\ wasQuiescent[Index(t)]
  /\ holders' = [c \in Callbacks |-> holders[c] \ {t}]
  /\ UNCHANGED <<registered, wasQuiescent, current, previous, numRemaining, invoked>>

Next == \/ \E t \in Threads : RegisterThread(t) \/ OnQuiescentState(t) \/ StillQuiescent(t)
        \/ \E c \in Callbacks : AddCallback(c)

\* Every registered thread comes to a quiescent state again and again.
Fairness == \A t \in Threads : WF_vars(OnQuiescentState(t))

-----------------------------------------------------------------------------
TypeOK == /\ registered \in Seq(Threads)
          /\ wasQuiescent \in Seq(BOOLEAN) /\ Len(wasQuiescent) = Len(registered)
          /\ {current, previous, invoked} \subseteq Seq(Callbacks)
          /\ numRemaining = Cardinality({k \in DOMAIN wasQuiescent : ~wasQuiescent[k]})
          /\ holders \in [Callbacks -> SUBSET Threads]

\* Nothing is freed that a thread may still hold, and nothing twice.
SafeToFree == /\ \A k \in DOMAIN invoked : holders[invoked[k]] = {}
              /\ IsInjective(current \o previous \o invoked)

\* Everything is freed in the end, if there is a thread to be quiescent.
AllFreed == \A c \in Callbacks :
  (c \in ToSet(current) /\ registered # <<>>) ~> (c \in ToSet(invoked))
=============================================================================
