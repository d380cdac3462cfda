---------------------------- MODULE ErrorLogger ----------------------------
(***************************************************************************)
(* workerfunc(), loggerfunc() and the second half of main() of             *)
(* source/test_thread.cpp: each worker queues one error code, one logger   *)
(* takes them all.                                                         *)
(*                                                                         *)
(* g_done is set without a lock and without a notification: a logger that  *)
(* waits stays there, and one that comes back to line 130 leaves with what *)
(* it has not looked at.  It is a plain bool; a read finds it set or not.  *)
(* Printing and its mutex are left out.                                    *)
(***************************************************************************)
EXTENDS Naturals, SequencesExt

CONSTANTS Workers,  \* a worker, and the error code it queues
          Logger, None

VARIABLES codes,   \* g_codes
          done,    \* g_done
          mutex,   \* the logger while it holds g_lockqueue, or None
          wpc,     \* where each worker is
          lpc,     \* where the logger is
          logged,  \* the code the logger printed last
          main     \* "off", "join" at line 210, "stop" at 215, "done"

vars == <<codes, done, mutex, wpc, lpc, logged, main>>

\* on is FALSE if this program is not the one that runs.
Launched(on) == /\ codes = <<>>
                /\ done = FALSE
                /\ mutex = None
                /\ wpc = [w \in Workers |-> IF on THEN "run" ELSE "off"]
                /\ lpc = IF on THEN "loop" ELSE "off"
                /\ logged = None
                /\ main = IF on THEN "join" ELSE "off"

\* Faulty variant: the queue is read as a stack.
Newest == codes[Len(codes)]
Oldest == Head(codes)                      \* line 139

\* Faulty variant: nobody is notified.
NotNotified == lpc
Notified == IF lpc = "wait" THEN "lock" ELSE lpc   \* line 119

\* Lines 115-120.
Report(w) == /\ wpc[w] = "run" /\ mutex = None
             /\ codes' = Append(codes, w)
             /\ lpc' = Notified
             /\ wpc' = [wpc EXCEPT ![w] = "ended"]
             /\ UNCHANGED <<done, mutex, logged, main>>

\* Line 130.
Loop == /\ lpc = "loop"
        /\ lpc' = IF done THEN "ended" ELSE "lock"
        /\ UNCHANGED <<codes, done, mutex, wpc, logged, main>>

\* Lines 132-134.
Wait == /\ lpc = "lock" /\ codes = <<>>
        /\ lpc' = "wait"
        /\ UNCHANGED <<codes, done, mutex, wpc, logged, main>>

SpuriousWake == /\ lpc = "wait"
                /\ lpc' = "lock"
                /\ UNCHANGED <<codes, done, mutex, wpc, logged, main>>

Begin == /\ lpc = "lock" /\ codes # <<>>
         /\ mutex' = Logger
         /\ lpc' = "log"
         /\ UNCHANGED <<codes, done, wpc, logged, main>>

\* Lines 136-141, one code after the other with g_lockqueue held.
Log == /\ lpc = "log" /\ codes # <<>>
       /\ logged' = Oldest
       /\ codes' = Tail(codes)
       /\ UNCHANGED <<done, mutex, wpc, lpc, main>>

EndLog == /\ lpc = "log" /\ codes = <<>>
          /\ mutex' = None
          /\ lpc' = "loop"
          /\ UNCHANGED <<codes, done, wpc, logged, main>>

\* Lines 208-214.
SetDone == /\ main = "join"
           /\ \A w \in Workers : wpc[w] = "ended"
           /\ done' = TRUE
           /\ main' = "stop"
           /\ UNCHANGED <<codes, mutex, wpc, lpc, logged>>

Join == /\ main = "stop" /\ lpc = "ended"
        /\ main' = "done"
        /\ UNCHANGED <<codes, done, mutex, wpc, lpc, logged>>

LoggerStep == Loop \/ Wait \/ Begin \/ Log \/ EndLog

Next == \/ \E w \in Workers : Report(w)
        \/ LoggerStep \/ SpuriousWake
        \/ SetDone \/ Join

\* Threads run, and who keeps asking for the mutex gets it in the end.
Fairness == /\ \A w \in Workers : SF_vars(Report(w))
            /\ WF_vars(LoggerStep) /\ WF_vars(SetDone) /\ WF_vars(Join)

TypeOK == /\ codes \in Seq(Workers)
          /\ done \in BOOLEAN
          /\ mutex \in {Logger, None}
          /\ wpc \in [Workers -> {"off", "run", "ended"}]
          /\ lpc \in {"off", "loop", "lock", "wait", "log", "ended"}
          /\ logged \in Workers \cup {None}
          /\ main \in {"off", "join", "stop", "done"}

Fifo == INSTANCE BoundedFifo WITH
  buf <- codes, got <- [l \in {Logger} |-> logged], Getters <- {Logger},
  Capacity <- Cardinality(Workers), Items <- Workers, NoItem <- None

\* Every code is logged, unless the logger has seen that it is over and left.
LoggedUnlessLeft == \A w \in Workers :
  (\E k \in DOMAIN codes : codes[k] = w) ~> (logged = w \/ lpc = "ended")
=============================================================================
