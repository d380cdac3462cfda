---------------------------- MODULE AcePrograms ----------------------------
(***************************************************************************)
(* The programs built on ACE tasks: AceManager and AceThreadPool           *)
(* (source/test_ace_task.cpp), AceTaskEx (source/test_ace_task_ex.cpp) and *)
(* AceBarrier (source/test_ace_task2.cpp).  They share nothing but the     *)
(* library; one of them is launched, and the threads of the others do not  *)
(* exist.                                                                  *)
(***************************************************************************)
EXTENDS Naturals, SequencesExt

CONSTANTS TaskThreads,  \* the threads of the task that is launched
          Producers,    \* the producers of AceTaskEx
          NRequests,    \* the messages of AceManager and of AceThreadPool
          NMsgs,        \* the messages of each producer of AceTaskEx
          HighWater,    \* the messages with data that fill a queue
          NIterations,
          NullMsg, Hangup, Nil

\* AceTaskEx has as many consumers as producers, each a last message.
ASSUME AceAssumption ==
  /\ IsFiniteSet(TaskThreads) /\ TaskThreads # {}
  /\ IsFiniteSet(Producers) /\ Cardinality(Producers) = Cardinality(TaskThreads)
  /\ NRequests \in Nat /\ NMsgs \in Nat \ {0}
  /\ HighWater \in Nat \ {0} /\ NIterations \in Nat
  /\ {NullMsg, Hangup, Nil} \cap (Nat \cup TaskThreads) = {}

VARIABLES posted, inbox, workers, mgr, mb, worker, pos, wqueue, wplace, wmb, wdone,
          pqueue, ppc, pmsg, pmain, pcount, pnulls, phandled,
          equeue, enext, epc, emsg, eused, emain,
          biter, brunning, bgen, bhalf, tpc, bcount, blast, bcleanups, bmain

mvars == <<posted, inbox, workers, mgr, mb, worker, pos, wqueue, wplace, wmb, wdone>>
pvars == <<pqueue, ppc, pmsg, pmain, pcount, pnulls, phandled>>
evars == <<equeue, enext, epc, emsg, eused, emain>>
bvars == <<biter, brunning, bgen, bhalf, tpc, bcount, blast, bcleanups, bmain>>
aceVars == <<mvars, pvars, evars, bvars>>

TestTask == INSTANCE AceManager WITH
  Workers <- TaskThreads, NMsgs <- NRequests, None <- Nil,
  wpc <- wplace, handled <- wdone
TestThreadPool == INSTANCE AceThreadPool WITH
  Threads <- TaskThreads, None <- Nil,
  NData <- NRequests, queue <- pqueue, pc <- ppc, msg <- pmsg, main <- pmain,
  count <- pcount, nulls <- pnulls, handled <- phandled
TaskEx == INSTANCE AceTaskEx WITH
  Consumers <- TaskThreads, None <- Nil,
  queue <- equeue, next <- enext, pc <- epc, msg <- emsg,
  used <- eused, main <- emain
BarrierTask == INSTANCE AceBarrier WITH
  Threads <- TaskThreads, None <- Nil,
  iter <- biter, running <- brunning, gen <- bgen, half <- bhalf, pc <- tpc,
  thrCount <- bcount, last <- blast, cleanups <- bcleanups, main <- bmain

AceInit == \E program \in {"test_task", "test_thread_pool", "test_ace_task_ex", "test_ace_task2"} :
  /\ TestTask!Launched(program = "test_task")
  /\ TestThreadPool!Launched(program = "test_thread_pool")
  /\ TaskEx!Launched(program = "test_ace_task_ex")
  /\ BarrierTask!Launched(program = "test_ace_task2")

\* The program has returned from main.
AceReturned == \/ mgr = "ended" /\ posted = NRequests
               \/ pmain = "done" \/ emain = "done" \/ bmain = "done"

AceNext == \/ TestTask!Next /\ UNCHANGED <<pvars, evars, bvars>>
           \/ TestThreadPool!Next /\ UNCHANGED <<mvars, evars, bvars>>
           \/ TaskEx!Next /\ UNCHANGED <<mvars, pvars, bvars>>
           \/ BarrierTask!Next /\ UNCHANGED <<mvars, pvars, evars>>
           \/ AceReturned /\ UNCHANGED aceVars

AceFairness == /\ TestTask!Fairness /\ TestThreadPool!Fairness
               /\ TaskEx!Fairness /\ BarrierTask!Fairness

AceSpec == AceInit /\ [][AceNext]_aceVars /\ AceFairness

-----------------------------------------------------------------------------
(* Properties: those of the components.                                    *)

\* The type invariants.
AceTypeOK == TestTask!TypeOK /\ TestThreadPool!TypeOK /\ TaskEx!TypeOK /\ BarrierTask!TypeOK

\* Manager (test_ace_task.cpp:133-192) and test_ace_task_ex.cpp: the list of
\* workers is the idle ones, the manager sleeps only while it is empty, and
\* shut_down() finds everybody idle and everything done; no message is left
\* when the consumers have left.
NothingMissed == /\ TestTask!ListIsIdle /\ TestTask!ManagerAwake /\ TestTask!ShutDownIsSafe
                 /\ TaskEx!NothingLeft

\* Thread_Pool is a FIFO executor that finishes what was put into it.
PoolImplementsExecutor == TestThreadPool!Executor!Spec

\* Barrier_Task (test_ace_task2.cpp:50, 65): the threads go in step, and "only
\* one of the threads should see a cleanup".
BarrierIsRight == BarrierTask!InStep /\ BarrierTask!OneCleanup

\* Each of the programs returns from main.
ProgramReturns == <>AceReturned
=============================================================================
