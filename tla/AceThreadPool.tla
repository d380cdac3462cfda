--------------------------- MODULE AceThreadPool ---------------------------
(***************************************************************************)
(* Thread_Pool, producer() and test_thread_pool() of                       *)
(* source/test_ace_task.cpp: threads that share the message queue of one   *)
(* ACE_Task, and a producer that ends them with one empty message each.    *)
(*                                                                         *)
(* The queue belongs to ACE: putq blocks while it is full, getq while it   *)
(* is empty.  The producer counts (manual = 0); where its data come from   *)
(* makes no difference to the pool.  Log output and sleeps are left out.   *)
(***************************************************************************)
EXTENDS Naturals, SequencesExt

CONSTANTS Threads,    \* the threads of the pool
          NData,      \* n_iterations
          HighWater,  \* the messages with data that fill the queue
          NullMsg,    \* a message of length 0
          None

VARIABLES queue,   \* msg_queue()
          pc,      \* where each thread of the pool is
          msg,     \* the local mb of each thread
          main,    \* where the thread of producer() is
          count,   \* count in producer()
          nulls,   \* i in producer()
          handled  \* the messages released after they were printed

vars == <<queue, pc, msg, main, count, nulls, handled>>

Data == 0 .. NData - 1
IsData(m) == m # NullMsg
DataLen == Cardinality({i \in DOMAIN queue : IsData(queue[i])})
Full == DataLen >= HighWater

\* The constructor activates the threads.  on is FALSE if this program is not
\* the one that runs.
Launched(on) == /\ queue = <<>>
                /\ pc = [t \in Threads |-> IF on THEN "getq" ELSE "off"]
                /\ msg = [t \in Threads |-> None]
                /\ main = IF on THEN "produce" ELSE "off"
                /\ count = 0 /\ nulls = 0
                /\ handled = {}

\* Faulty variant: the message goes to the head of the queue.
PutFirst(m) == <<m>> \o queue
PutLast(m) == Append(queue, m)             \* line 234

\* thr_count() at line 320.
\* Faulty variant: one empty message too few.
OneLess == Cardinality(Threads) - 1
ThrCount == Cardinality({t \in Threads : pc[t] # "closed"})

-----------------------------------------------------------------------------
\* Lines 287-314.
Put == /\ main = "produce" /\ count < NData /\ ~Full
       /\ queue' = PutLast(count)
       /\ count' = count + 1
       /\ UNCHANGED <<pc, msg, main, nulls, handled>>

Eof == /\ main = "produce" /\ count = NData
       /\ main' = "close"
       /\ nulls' = ThrCount
       /\ UNCHANGED <<queue, pc, msg, count, handled>>

\* Lines 320-331.
PutNull == /\ main = "close" /\ nulls > 0 /\ ~Full
           /\ queue' = PutLast(NullMsg)
           /\ nulls' = nulls - 1
           /\ UNCHANGED <<pc, msg, main, count, handled>>

\* Line 353, and the destruction of the pool.
Wait == /\ main = "close" /\ nulls = 0
        /\ \A t \in Threads : pc[t] = "closed"
        /\ main' = "done"
        /\ UNCHANGED <<queue, pc, msg, count, nulls, handled>>

\* Line 253.
GetQ(t) == /\ pc[t] = "getq" /\ queue # <<>>
           /\ msg' = [msg EXCEPT ![t] = Head(queue)]
           /\ queue' = Tail(queue)
           /\ pc' = [pc EXCEPT ![t] = "svc"]
           /\ UNCHANGED <<main, count, nulls, handled>>

\* Lines 258-264: the next iteration, or line 269.
Handle(t) == /\ pc[t] = "svc" /\ IsData(msg[t])
             /\ handled' = handled \cup {msg[t]}
             /\ msg' = [msg EXCEPT ![t] = None]
             /\ pc' = [pc EXCEPT ![t] = "getq"]
             /\ UNCHANGED <<queue, main, count, nulls>>

Break(t) == /\ pc[t] = "svc" /\ ~IsData(msg[t])
            /\ msg' = [msg EXCEPT ![t] = None]
            /\ pc' = [pc EXCEPT ![t] = "closed"]
            /\ UNCHANGED <<queue, main, count, nulls, handled>>

-----------------------------------------------------------------------------
Producer == Put \/ Eof \/ PutNull \/ Wait
Svc(t) == GetQ(t) \/ Handle(t) \/ Break(t)

Next == Producer \/ \E t \in Threads : Svc(t)

\* Threads run.  Nobody is promised a message: getq serves whoever comes.
Fairness == WF_vars(Producer) /\ \A t \in Threads : WF_vars(Svc(t))

-----------------------------------------------------------------------------
TypeOK == /\ queue \in Seq(Data \cup {NullMsg})
          /\ pc \in [Threads -> {"off", "getq", "svc", "closed"}]
          /\ msg \in [Threads -> Data \cup {NullMsg, None}]
          /\ main \in {"off", "produce", "close", "done"}
          /\ count \in 0 .. NData /\ nulls \in 0 .. Cardinality(Threads)
          /\ handled \subseteq Data

\* The messages with data are before the empty ones.
Executor == INSTANCE TaskExecutor WITH
  Tasks <- Data,
  queue <- SubSeq(queue, 1, DataLen),
  running <- {msg[t] : t \in Threads} \ {NullMsg, None},
  done <- handled, refused <- {},
  phase <- CASE main \in {"off", "produce"} -> "open"
             [] main = "close" -> "closing"
             [] main = "done" -> "closed",
  LateAccept <- FALSE, Abandons <- FALSE, Restarts <- FALSE
=============================================================================
