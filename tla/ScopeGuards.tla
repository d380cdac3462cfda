---------------------------- MODULE ScopeGuards ----------------------------
(***************************************************************************)
(* ScopeGuard (include/ScopeGuard.h) as its comments use it: a scope that  *)
(* acquires resources, makes a guard for each, may move and dismiss guards *)
(* and is left at any point, by its end, by return or by an exception.  A  *)
(* guard's callback releases its resource.                                 *)
(***************************************************************************)
EXTENDS Naturals, SequencesExt

CONSTANTS Resources,
          MaxGuards  \* objects in the scope, moved ones included

VARIABLES gpc,       \* "off", "run", "make", "unwind", "left" or "terminated"
          acquired,  \* the resources in the order in which they were acquired
          guards,    \* the objects in the scope, oldest first
          released,  \* the resources in the order in which callbacks released them
          kept,      \* those for whose guard the program called Dismiss()
          unguarded, \* those whose guard could not be made
          moved      \* those whose guard was moved

vars == <<gpc, acquired, guards, released, kept, unguarded, moved>>

ScopeGuard(r) == [m_func |-> r, m_dismiss |-> FALSE]

Launched(on) == /\ gpc = IF on THEN "run" ELSE "off"
                /\ acquired = << >> /\ guards = << >> /\ released = << >>
                /\ kept = {} /\ unguarded = {} /\ moved = {}

Acquire == /\ gpc = "run" /\ Len(guards) < MaxGuards
           /\ \E r \in Resources \ Range(acquired) : acquired' = Append(acquired, r)
           /\ gpc' = "make"
           /\ UNCHANGED <<guards, released, kept, unguarded, moved>>

\* The constructor copies or moves a callback.
Make == /\ gpc = "make" /\ gpc' = "run"
        /\ guards' = Append(guards, ScopeGuard(Last(acquired)))
        /\ UNCHANGED <<acquired, released, kept, unguarded, moved>>

\* The copy of the callback throws: there is no guard, and the scope is left.
MakeThrows == /\ gpc = "make" /\ gpc' = "unwind"
              /\ unguarded' = {Last(acquired)}
              /\ UNCHANGED <<acquired, guards, released, kept, moved>>

Dismissed(g) == [g EXCEPT !.m_dismiss = TRUE]

\* Faulty variant: the move constructor leaves its source armed.
SourceArmed(g) == g
\* What the move constructor leaves of its source.
Source(g) == Dismissed(g)

Move == /\ gpc = "run" /\ Len(guards) < MaxGuards
        /\ \E i \in DOMAIN guards :
             /\ guards' = Append([guards EXCEPT ![i] = Source(@)], guards[i])
             /\ moved' = moved \cup {guards[i].m_func}
        /\ UNCHANGED <<gpc, acquired, released, kept, unguarded>>

Dismiss == /\ gpc = "run"
           /\ \E i \in DOMAIN guards :
                /\ guards' = [guards EXCEPT ![i] = Dismissed(@)]
                /\ kept' = IF guards[i].m_dismiss THEN kept ELSE kept \cup {guards[i].m_func}
           /\ UNCHANGED <<gpc, acquired, released, unguarded, moved>>

Leave == gpc = "run" /\ gpc' = "unwind"
         /\ UNCHANGED <<acquired, guards, released, kept, unguarded, moved>>

\* ~ScopeGuard() of the youngest object.
Destroy == /\ gpc = "unwind" /\ guards # << >>
           /\ guards' = Front(guards)
           /\ released' = IF Last(guards).m_dismiss THEN released
                          ELSE Append(released, Last(guards).m_func)
           /\ UNCHANGED <<gpc, acquired, kept, unguarded, moved>>

\* A destructor does not throw: a callback that does ends the program.
CallbackThrows == /\ gpc = "unwind" /\ guards # << >> /\ ~Last(guards).m_dismiss
                  /\ gpc' = "terminated"
                  /\ UNCHANGED <<acquired, guards, released, kept, unguarded, moved>>

Left == /\ gpc = "unwind" /\ guards = << >> /\ gpc' = "left"
        /\ UNCHANGED <<acquired, guards, released, kept, unguarded, moved>>

Next == Acquire \/ Make \/ MakeThrows \/ Move \/ Dismiss \/ Leave \/ Destroy \/ CallbackThrows \/ Left

-----------------------------------------------------------------------------
TypeOK == /\ Range(released) \subseteq Range(acquired)
          /\ Len(guards) <= MaxGuards

\* Wherever the scope is left and however its guards were moved, a resource is
\* released once, unless it is to be kept; when the scope is left it holds
\* nothing else, but for a resource that never had a guard; and where no guard
\* was moved the order is the reverse of the acquisition.
ReleasedOnce ==
  /\ IsInjective(released) /\ Range(released) \cap kept = {}
  /\ gpc = "left" => Range(acquired) = Range(released) \cup kept \cup unguarded
  /\ \A i, j \in DOMAIN released : i < j /\ moved = {} =>
       \A m, n \in DOMAIN acquired :
         acquired[m] = released[i] /\ acquired[n] = released[j] => n < m
=============================================================================
