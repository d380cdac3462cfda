---------------------------- MODULE TaskExecutor ----------------------------
(***************************************************************************)
(* What the thread pools of include/ promise to the code that submits      *)
(* tasks, with no threads, locks or condition variables in it: a FIFO of   *)
(* accepted tasks, the tasks now running, those whose result is there, and *)
(* whether the executor is open, closing or gone.                          *)
(*                                                                         *)
(* The three pools differ in what they promise, so three constants say     *)
(* which promise is meant:                                                 *)
(*   LateAccept  a task may still be accepted once the executor is closing *)
(*   Abandons    the executor may end with accepted tasks left in its queue*)
(*   Restarts    a closing executor may open again                         *)
(* ThreadPoolV1 implements the specification with all three FALSE.         *)
(***************************************************************************)
EXTENDS SequencesExt

CONSTANTS Tasks, LateAccept, Abandons, Restarts

VARIABLES queue,    \* accepted tasks nobody has started, oldest first
          running,  \* tasks started and not finished
          done,     \* tasks that ran to their end
          refused,  \* tasks whose submission threw
          phase     \* "open", "closing" or "closed"

vars == <<queue, running, done, refused, phase>>

\* A task is submitted once: afterwards it is in one of these places for good.
Submitted == ToSet(queue) \cup running \cup done \cup refused

Init == /\ queue = <<>>
        /\ running = {}
        /\ done = {}
        /\ refused = {}
        /\ phase = "open"

Accept(t) == /\ t \notin Submitted
             /\ phase = "open" \/ (LateAccept /\ phase = "closing")
             /\ queue' = Append(queue, t)
             /\ UNCHANGED <<running, done, refused, phase>>

Refuse(t) == /\ t \notin Submitted
             /\ phase = "closing"
             /\ refused' = refused \cup {t}
             /\ UNCHANGED <<queue, running, done, phase>>

\* Tasks start in the order in which they were accepted.
Start == /\ queue # <<>>
         /\ phase # "closed"
         /\ running' = running \cup {Head(queue)}
         /\ queue' = Tail(queue)
         /\ UNCHANGED <<done, refused, phase>>

Finish(t) == /\ t \in running
             /\ running' = running \ {t}
             /\ done' = done \cup {t}
             /\ UNCHANGED <<queue, refused, phase>>

Close == /\ phase = "open"
         /\ phase' = "closing"
         /\ UNCHANGED <<queue, running, done, refused>>

Reopen == /\ Restarts
          /\ phase = "closing"
          /\ phase' = "open"
          /\ UNCHANGED <<queue, running, done, refused>>

\* Nothing is running when the executor ends, and unless it abandons tasks
\* nothing it accepted is left either.
Terminate == /\ phase = "closing"
             /\ running = {}
             /\ Abandons \/ queue = <<>>
             /\ phase' = "closed"
             /\ UNCHANGED <<queue, running, done, refused>>

Next == \/ \E t \in Tasks : Accept(t) \/ Refuse(t) \/ Finish(t)
        \/ Start
        \/ Close
        \/ Reopen
        \/ Terminate

Spec == Init /\ [][Next]_vars
=============================================================================
