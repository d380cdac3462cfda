----------------------------- MODULE AceManager -----------------------------
(***************************************************************************)
(* Manager, Worker and test_task() of source/test_ace_task.cpp: a manager  *)
(* hands each message to an idle worker, which reports back when it is     *)
(* done, and ends the workers when no message came for MAX_TIMEOUT.        *)
(*                                                                         *)
(* workers_lock_ is held in critical sections only, which no wait          *)
(* interrupts but that of line 135; each is one step.  The queues belong   *)
(* to ACE and are never full here.                                         *)
(*                                                                         *)
(* Time: a message takes 3 seconds (line 42), the next one comes after 0.1 *)
(* (line 208), and the manager gives up after 5 (line 119).  So when it    *)
(* does, everything has been posted and no worker has work in hand.        *)
(***************************************************************************)
EXTENDS Naturals, SequencesExt

CONSTANTS Workers,  \* POOL_SIZE of them
          NMsgs,    \* the messages of test_task(), 0 .. NMsgs - 1
          Hangup,   \* a message of type MB_HANGUP
          None

VARIABLES posted,   \* the loop variable of test_task()
          inbox,    \* the queue of the manager
          workers,  \* workers_
          mgr,      \* where the manager is
          mb,       \* the local mb of its svc()
          worker,   \* the local worker of its svc()
          pos,      \* the position of iter in shut_down()
          wqueue,   \* the queue of each worker
          wpc,      \* where each worker is
          wmb,      \* the local mb of each worker
          handled   \* the messages worked on to the end

vars == <<posted, inbox, workers, mgr, mb, worker, pos, wqueue, wpc, wmb, handled>>

Msgs == 0 .. NMsgs - 1

\* on is FALSE if this program is not the one that runs.
Launched(on) == /\ posted = IF on THEN 0 ELSE NMsgs
                /\ inbox = <<>> /\ workers = <<>>
                /\ mgr = IF on THEN "start" ELSE "off"
                /\ mb = None /\ worker = None /\ pos = 1
                /\ wqueue = [w \in Workers |-> <<>>]
                /\ wpc = [w \in Workers |-> "off"]
                /\ wmb = [w \in Workers |-> None]
                /\ handled = {}

\* A worker with nothing to do.
Idle(w) == wpc[w] = "getq" /\ wqueue[w] = <<>>

-----------------------------------------------------------------------------
(* The decisions of the code, most with a faulty variant that a run is     *)
(* shown to tell from it.                                                  *)

Listed(w) == Append(workers, w)            \* line 156

Signalled == IF mgr = "wait" THEN "pick" ELSE mgr   \* line 157

\* Faulty variant: the worker stays in the list.
NotTaken == workers
Taken == Tail(workers)                     \* line 137

-----------------------------------------------------------------------------
(* test_task()                                                             *)

\* Lines 206-210.
Post == /\ posted < NMsgs
        /\ inbox' = Append(inbox, posted)
        /\ posted' = posted + 1
        /\ UNCHANGED <<workers, mgr, mb, worker, pos, wqueue, wpc, wmb, handled>>

-----------------------------------------------------------------------------
(* Manager                                                                 *)

\* create_worker_pool(), with the lock held.
CreateWorkerPool == /\ mgr = "start"
                    /\ workers' = SetToSeq(Workers)
                    /\ wpc' = [w \in Workers |-> "getq"]
                    /\ mgr' = "getq"
                    /\ UNCHANGED <<posted, inbox, mb, worker, pos, wqueue, wmb, handled>>

GetQ == /\ mgr = "getq" /\ inbox # <<>>
        /\ mb' = Head(inbox)
        /\ inbox' = Tail(inbox)
        /\ mgr' = "pick"
        /\ UNCHANGED <<posted, workers, worker, pos, wqueue, wpc, wmb, handled>>

\* Line 123: MAX_TIMEOUT has passed.
TimeOut == /\ mgr = "getq" /\ inbox = <<>>
           /\ posted = NMsgs /\ \A w \in Workers : Idle(w)
           /\ mgr' = "hangup"
           /\ UNCHANGED <<posted, inbox, workers, mb, worker, pos, wqueue, wpc, wmb, handled>>

\* Lines 132-138.
WaitForWorker == /\ mgr = "pick" /\ workers = <<>>
                 /\ mgr' = "wait"
                 /\ UNCHANGED <<posted, inbox, workers, mb, worker, pos, wqueue, wpc, wmb, handled>>

SpuriousWake == /\ mgr = "wait"
                /\ mgr' = "pick"
                /\ UNCHANGED <<posted, inbox, workers, mb, worker, pos, wqueue, wpc, wmb, handled>>

Pick == /\ mgr = "pick" /\ workers # <<>>
        /\ worker' = Head(workers)
        /\ workers' = Taken
        /\ mgr' = "hand"
        /\ UNCHANGED <<posted, inbox, mb, pos, wqueue, wpc, wmb, handled>>

\* Line 140, and the test of line 116: shutdown_ is still 0.
Hand == /\ mgr = "hand"
        /\ wqueue' = [wqueue EXCEPT ![worker] = Append(@, mb)]
        /\ mb' = None /\ worker' = None
        /\ mgr' = "getq"
        /\ UNCHANGED <<posted, inbox, workers, pos, wpc, wmb, handled>>

\* shut_down(), lines 169-180, without the lock.
SendHangup == /\ mgr = "hangup"
              /\ wqueue' = [wqueue EXCEPT ![workers[pos]] = Append(@, Hangup)]
              /\ mgr' = "join"
              /\ UNCHANGED <<posted, inbox, workers, mb, worker, pos, wpc, wmb, handled>>

\* Lines 183-190: the next worker, or the end of svc().
JoinWorker == /\ mgr = "join"
              /\ wpc[workers[pos]] = "ended"
              /\ pos' = pos + 1
              /\ mgr' = IF pos < Len(workers) THEN "hangup" ELSE "ended"
              /\ UNCHANGED <<posted, inbox, workers, mb, worker, wqueue, wpc, wmb, handled>>

-----------------------------------------------------------------------------
(* Worker::svc()                                                           *)

WorkerGetQ(w) == /\ wpc[w] = "getq" /\ wqueue[w] # <<>>
                 /\ wmb' = [wmb EXCEPT ![w] = Head(wqueue[w])]
                 /\ wqueue' = [wqueue EXCEPT ![w] = Tail(@)]
                 /\ wpc' = [wpc EXCEPT ![w] = "svc"]
                 /\ UNCHANGED <<posted, inbox, workers, mgr, mb, worker, pos, handled>>

\* process_message().
ProcessMessage(w) == /\ wpc[w] = "svc" /\ wmb[w] # Hangup
                     /\ handled' = handled \cup {wmb[w]}
                     /\ wmb' = [wmb EXCEPT ![w] = None]
                     /\ wpc' = [wpc EXCEPT ![w] = "return"]
                     /\ UNCHANGED <<posted, inbox, workers, mgr, mb, worker, pos, wqueue>>

HangUp(w) == /\ wpc[w] = "svc" /\ wmb[w] = Hangup
             /\ wmb' = [wmb EXCEPT ![w] = None]
             /\ wpc' = [wpc EXCEPT ![w] = "ended"]
             /\ UNCHANGED <<posted, inbox, workers, mgr, mb, worker, pos, wqueue, handled>>

\* return_to_work().
ReturnToWork(w) == /\ wpc[w] = "return"
                   /\ workers' = Listed(w)
                   /\ mgr' = Signalled
                   /\ wpc' = [wpc EXCEPT ![w] = "getq"]
                   /\ UNCHANGED <<posted, inbox, mb, worker, pos, wqueue, wmb, handled>>

-----------------------------------------------------------------------------
Manager == CreateWorkerPool \/ GetQ \/ TimeOut \/ WaitForWorker \/ Pick \/ Hand
           \/ SendHangup \/ JoinWorker

Worker(w) == WorkerGetQ(w) \/ ProcessMessage(w) \/ HangUp(w) \/ ReturnToWork(w)

Next == \/ Post
        \/ Manager \/ SpuriousWake
        \/ \E w \in Workers : Worker(w)

\* Threads run.
Fairness == WF_vars(Post) /\ WF_vars(Manager) /\ \A w \in Workers : WF_vars(Worker(w))

-----------------------------------------------------------------------------
TypeOK == /\ posted \in 0 .. NMsgs
          /\ inbox \in Seq(Msgs)
          /\ workers \in Seq(Workers)
          /\ mgr \in {"off", "start", "getq", "pick", "wait", "hand", "hangup", "join", "ended"}
          /\ mb \in Msgs \cup {None} /\ worker \in Workers \cup {None}
          /\ pos \in 1 .. Cardinality(Workers) + 1
          /\ wqueue \in [Workers -> Seq(Msgs \cup {Hangup})]
          /\ wpc \in [Workers -> {"off", "getq", "svc", "return", "ended"}]
          /\ wmb \in [Workers -> Msgs \cup {Hangup, None}]
          /\ handled \subseteq Msgs

Started == mgr \notin {"off", "start"}
Stopping == mgr \in {"hangup", "join", "ended"}

\* While messages are handed out the list holds the idle workers, each once,
\* and nobody who has a message or is about to get one.
ListIsIdle ==
  Started /\ ~Stopping =>
    /\ IsInjective(workers)
    /\ ToSet(workers) = {w \in Workers : Idle(w) /\ w # worker}

\* The manager is not asleep while a worker is in the list.
ManagerAwake == mgr = "wait" => workers = <<>>

\* shut_down() walks the list without the lock and takes its first element for
\* granted: nobody changes the list meanwhile, every worker is in it, and the
\* assertion of line 185 holds.
ShutDownIsSafe ==
  Stopping => /\ ToSet(workers) = Workers /\ Len(workers) = Cardinality(Workers)
              /\ handled = Msgs
              /\ \A w \in Workers : wpc[w] = "ended" => wqueue[w] = <<>>
=============================================================================
