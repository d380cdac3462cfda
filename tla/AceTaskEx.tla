----------------------------- MODULE AceTaskEx -----------------------------
(***************************************************************************)
(* source/test_ace_task_ex.cpp: PRODUCER_THREADS_NO threads put            *)
(* NUMBER_OF_MSGS messages each into the queue of one ACE_Task_Ex, and     *)
(* CONSUMER_THREADS_NO threads take them.  A consumer leaves with the last *)
(* message of some producer, whichever.                                    *)
(*                                                                         *)
(* The queue belongs to ACE; its limit of 16384 messages is above what the *)
(* program puts into it, so putq does not block.                           *)
(***************************************************************************)
EXTENDS Naturals, SequencesExt

CONSTANTS Producers, Consumers,
          NMsgs,     \* NUMBER_OF_MSGS
          None

VARIABLES queue,  \* the message queue of c
          next,   \* the loop variable of each producer
          pc,     \* where each consumer is
          msg,    \* pMsg of each consumer
          used,   \* the messages consumers have printed and deleted
          main    \* "off", "wait" at line 96, or "done"

vars == <<queue, next, pc, msg, used, main>>

Msgs == Producers \X (0 .. NMsgs - 1)

\* on is FALSE if this program is not the one that runs.
Launched(on) == /\ queue = <<>>
                /\ next = [p \in Producers |-> 0]
                /\ pc = [c \in Consumers |-> IF on THEN "getq" ELSE "off"]
                /\ msg = [c \in Consumers |-> None]
                /\ used = {}
                /\ main = IF on THEN "wait" ELSE "off"

\* The message that ends its consumer, line 45.
IsLast(m) == m[2] = NMsgs - 1

\* The place of the message that is taken.
\* Faulty variant: the newest one.
Newest == Len(queue)
Oldest == 1

-----------------------------------------------------------------------------
\* Lines 64-76.
Produce(p) == /\ main # "off" /\ next[p] # NMsgs
              /\ queue' = Append(queue, <<p, next[p]>>)
              /\ next' = [next EXCEPT ![p] = @ + 1]
              /\ UNCHANGED <<pc, msg, used, main>>

\* Line 40.
GetQ(c) == /\ pc[c] = "getq" /\ queue # <<>>
           /\ msg' = [msg EXCEPT ![c] = queue[Oldest]]
           /\ queue' = RemoveAt(queue, Oldest)
           /\ pc' = [pc EXCEPT ![c] = "svc"]
           /\ UNCHANGED <<next, used, main>>

\* Lines 42-46.
Consume(c) == /\ pc[c] = "svc"
              /\ used' = used \cup {msg[c]}
              /\ msg' = [msg EXCEPT ![c] = None]
              /\ pc' = [pc EXCEPT ![c] = IF IsLast(msg[c]) THEN "ended" ELSE "getq"]
              /\ UNCHANGED <<queue, next, main>>

\* Line 96.
Wait == /\ main = "wait"
        /\ \A p \in Producers : next[p] = NMsgs
        /\ \A c \in Consumers : pc[c] = "ended"
        /\ main' = "done"
        /\ UNCHANGED <<queue, next, pc, msg, used>>

-----------------------------------------------------------------------------
Svc(c) == GetQ(c) \/ Consume(c)

Next == \/ \E p \in Producers : Produce(p)
        \/ \E c \in Consumers : Svc(c)
        \/ Wait

\* Threads run.
Fairness == /\ \A p \in Producers : WF_vars(Produce(p))
            /\ \A c \in Consumers : WF_vars(Svc(c))
            /\ WF_vars(Wait)

-----------------------------------------------------------------------------
TypeOK == /\ queue \in Seq(Msgs)
          /\ next \in [Producers -> 0 .. NMsgs]
          /\ pc \in [Consumers -> {"off", "getq", "svc", "ended"}]
          /\ msg \in [Consumers -> Msgs \cup {None}]
          /\ used \subseteq Msgs
          /\ main \in {"off", "wait", "done"}

\* The last consumer to leave leaves nothing behind: its message is the last
\* of the last producer.
NothingLeft == (main # "off" /\ \A c \in Consumers : pc[c] = "ended")
                 => queue = <<>> /\ used = Msgs
=============================================================================
