--------------------------- MODULE ThreadPrograms ---------------------------
(***************************************************************************)
(* The exercises with std::thread: StartGate (source/test_condition.cpp),  *)
(* ErrorLogger, SharedContainer and Fireworks (source/test_thread.cpp),    *)
(* BroadcastServer and MemoryReclaimer (source/test_readwrite_lock.cpp).   *)
(* They share nothing; one of them is launched, and the threads of the     *)
(* others do not exist.                                                    *)
(***************************************************************************)
EXTENDS Naturals, SequencesExt

CONSTANTS Threads,       \* the threads of the program that is launched
          Logger,
          Callbacks,     \* of MemoryReclaimer
          Broadcasters,  \* of BroadcastServer
          Num, Iterations, MaxSpurious,
          None

ASSUME ConstantsAssumption ==
  /\ IsFiniteSet(Threads) /\ Threads # {}
  /\ Num \in Nat \ {0} /\ Iterations \in Nat \ {0} /\ MaxSpurious \in Nat
  /\ Logger \notin Threads /\ None \notin Threads \cup {Logger}

VARIABLES ready, readyCnt, gpc, gmain, spurious,
          codes, done, lmutex, wpc, lpc, logged, lmain,
          elements, owner, depth, ci, cpc, dumped,
          mtx, counter, seen, fi, locked, fpc,
          clients, readers, writer, bpc, range, sent, known, apc,
          registered, wasQuiescent, current, previous, numRemaining, invoked, holders,
          reclaims  \* MemoryReclaimer is the program that is launched

gvars == <<ready, readyCnt, gpc, gmain, spurious>>
lvars == <<codes, done, lmutex, wpc, lpc, logged, lmain>>
cvars == <<elements, owner, depth, ci, cpc, dumped>>
fvars == <<mtx, counter, seen, fi, locked, fpc>>
svars == <<clients, readers, writer, bpc, range, sent, known, apc>>
rvars == <<registered, wasQuiescent, current, previous, numRemaining, invoked, holders>>
vars == <<gvars, lvars, cvars, fvars, svars, rvars, reclaims>>

Gate == INSTANCE StartGate WITH Runners <- Threads, pc <- gpc, main <- gmain
Log == INSTANCE ErrorLogger WITH Workers <- Threads, mutex <- lmutex, main <- lmain
Container == INSTANCE SharedContainer WITH Adders <- Threads, i <- ci, pc <- cpc
Counter == INSTANCE Fireworks WITH i <- fi, pc <- fpc
Server == INSTANCE BroadcastServer WITH Fds <- Threads
Reclaimer == INSTANCE MemoryReclaimer

Programs == {"test_cond", "logger", "test_cont1", "test_mtx", "Server", "MemoryReclaimer"}

Init == \E program \in Programs :
  /\ Gate!Launched(program = "test_cond")
  /\ Log!Launched(program = "logger")
  /\ Container!Launched(program = "test_cont1")
  /\ Counter!Launched(program = "test_mtx")
  /\ Server!Launched(program = "Server")
  /\ Reclaimer!Launched
  /\ reclaims = (program = "MemoryReclaimer")

\* The program has returned, or every call of the class has.
Returned == \/ gmain = "done" \/ lmain = "done" \/ dumped # {}
            \/ \A t \in Threads : fpc[t] = "ended"
            \/ /\ \A t \in Threads : apc[t] = "returned"
               /\ \A b \in Broadcasters : bpc[b] = "returned"

Next ==
  \/ Gate!Next /\ UNCHANGED <<lvars, cvars, fvars, svars, rvars, reclaims>>
  \/ Log!Next /\ UNCHANGED <<gvars, cvars, fvars, svars, rvars, reclaims>>
  \/ Container!Next /\ UNCHANGED <<gvars, lvars, fvars, svars, rvars, reclaims>>
  \/ Counter!Next /\ UNCHANGED <<gvars, lvars, cvars, svars, rvars, reclaims>>
  \/ Server!Next /\ UNCHANGED <<gvars, lvars, cvars, fvars, rvars, reclaims>>
  \/ reclaims /\ Reclaimer!Next /\ UNCHANGED <<gvars, lvars, cvars, fvars, svars, reclaims>>
  \/ Returned /\ UNCHANGED vars

Fairness == /\ Gate!Fairness /\ Log!Fairness /\ Container!Fairness
            /\ Counter!Fairness /\ Reclaimer!Fairness

FairSpec == Init /\ [][Next]_vars /\ Fairness

-----------------------------------------------------------------------------
(* Properties: those of the components.                                    *)

\* The type invariants.
TypeOK == /\ Gate!TypeOK /\ Log!TypeOK /\ Container!TypeOK
          /\ Counter!TypeOK /\ Server!TypeOK /\ Reclaimer!TypeOK

\* test_cond() (test_condition.cpp:37): unless a spurious wakeup was counted,
\* the gate opens when all threads are waiting at it.
OpensForAll == Gate!OpensForAll

\* loggerfunc() (test_thread.cpp:139): error codes are logged in the order in
\* which they were queued, each once.
LoggerIsFifo == Log!Fifo!Spec

\* container, test_mtx() and Server (test_thread.cpp:33, 155,
\* test_readwrite_lock.cpp:17, 25): what one thread did under the lock is not
\* lost on another: dump() prints all ranges, the counter counts every
\* success, a broadcast reaches every client that was added before it.
NothingLost == /\ Container!OneUser /\ Container!AllDumped
               /\ Counter!CounterExact
               /\ Server!LoopIsSafe /\ Server!ReachesAll

\* MemoryReclaimer (test_readwrite_lock.cpp:101): what is freed is held by
\* nobody, and it is freed once.
SafeToFree == Reclaimer!SafeToFree

\* test_cond() (test_condition.cpp:39), workerfunc() (test_thread.cpp:119) and
\* MemoryReclaimer (test_readwrite_lock.cpp:101): once the gate is open
\* everybody passes, a code that is queued gets logged unless the logger has
\* seen g_done, and everything is freed in the end.
NobodyWaitsForever == Gate!EveryonePasses /\ Log!LoggedUnlessLeft /\ Reclaimer!AllFreed
=============================================================================
