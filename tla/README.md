# Verification of the C++ examples

The repository is a collection of C++ programs written while reading *The C++
Programming Language* and the documentation of Boost and ACE. `CMakeLists.txt`
builds one executable per file of `source/`; `include/` holds the classes they
share. Most of its logic that is hard to get right is concurrent: three thread
pools, bounded buffers, producer/consumer programs, ACE tasks, and clients and
servers on Boost.Asio. Some programs do not compile as they stand
(`async_server.cpp` names an undefined `self_type`, `test_thread.cpp` uses a
constructor only MSVC's `std::exception` has); what their code says is modelled.

## 1. Inventory

### Thread pools (`include/`)

| part | state | operations |
|---|---|---|
| `ThreadPool` (`ThreadPool.h`) | `_tasks`, `_mutex`, `_cond`, atomic `_stoped`, atomic `_idlnum` | `commit`, `stop`, `idle`, worker loop, destructor |
| `ThreadPoolV1` (`ThreadPool_V1.h`) | `_tasks`, `_mutex`, `_cond`, `_stop` (under the mutex) | `enqueue`, worker loop, destructor |
| `ThreadPoolV2` (`ThreadPool_v2.h`) | `_tasks`, `_mutex`, `_cond`, atomic `_stop` | `commit`, `stop`, `restart`, `get_one_task`/`schedule`, destructor |

Clients call from any thread; workers share the queue and one condition
variable; a task may itself submit tasks. Hard: notifications sent outside the
mutex, a flag set outside it, the check of the flag and the push being two
steps, the shutdown with tasks queued and running. Correct means: an accepted
task runs once, in FIFO order, its future becomes ready, no worker sleeps
while work waits, the destructor returns.

### Bounded buffers and producer/consumer programs (`source/`)

| part | state | operations |
|---|---|---|
| `bounded_buffer` and its variants (`bounded_buffer_comparison.cpp`, `circular_buffer_bound_example.cpp`) | container, `m_unread`, mutex, two condition variables | `push_front`, `pop_back`, `fifo_test` |
| item repository (`test_prodcons1.cpp`) | ring of 10, read and write position, `_counter` | producer, three consumers, `main` |
| start gate (`test_condition.cpp`) | `ready`, `ready_cnt` | `print_id`, `go` |
| container with a recursive mutex, error logger, `try_lock` counter (`test_thread.cpp`) | element vector; queue of error codes, `g_done`; a counter | `add`, `addrange`, `dump`; `workerfunc`, `loggerfunc`; `fireworks` |
| broadcast servers, quiescent-state reclaimer (`test_readwrite_lock.cpp`) | client list, or an atomic pointer to one; the quiescent flags, the callbacks of two intervals | `broadcast`, `add_client`; `registerThread`, `addCallback`, `onQuiescentState` |

Correct means: a buffer never over- or underflows, items leave in the order
they entered, nobody waits for ever while the condition waited for holds, and
the programs end.

### ACE programs (`source/test_ace_*.cpp`)

Manager/Worker pool with a worker list and per-worker message queue
(`test_ace_task.cpp` 27-214), a thread pool over one message queue
(218-358), a barrier-based clean-up (`test_ace_task2.cpp`), five
producers and five consumers over one queue (`test_ace_task_ex.cpp`), a logger
with a recursion guard (`test_ace_log.cpp`), a reactor with a timer
(`test_ace_reactor.cpp`), a thread manager demo (`test_ace_thrmgr.cpp`).
Correct means: every message is handled once or returned, shutdown reaches
every thread, no thread waits for a message nobody sends.

### Networking programs on Boost.Asio

Chat servers and clients (`async_server.cpp`, `async_client.cpp`,
`sync_server.cpp`, `sync_client.cpp`): per-connection read buffer, `last_ping`,
`username_`, a global client list, ping and clients requests, a five-second
timeout. Echo servers and clients over TCP and UDP (`echo_*.cpp`). Exercises of
`run`, timers, resolvers and streams (`test_asio*.cpp`, `test_boost_stream.cpp`).

The synchronous servers have one or two threads that block in calls, the
asynchronous programs one thread that runs completion handlers. Hard: several
clients against one thread, requests that arrive in pieces or together, a client
that leaves at any time, a list walked by one thread and extended by another, a
timer that races the reads, datagrams that are lost, doubled or overtake each
other, and a completion condition that returns 0, with which `async_read`
completes at once, with no byte and no error. Correct means: an answer reaches
the one who asked, who pings in time stays, who is gone is dropped, the list is
the connections that are alive, every chain of handlers ends.

### Sequential helpers

`ScopeGuard.h`, `lambda.cpp` (`scope_exit`, the compensating `world::add_person`),
`Blob.hpp`, `Buffer` of `chapter_10.cpp`, `util.h`, `smart_assert.h`, and the
chapter exercises (`chapter_*.cpp`, `copy_control.cpp`, ...). Hard: any order of
copies, moves, assignments and dismissals, with an exception at any step; equal
elements under a sort that is not stable; results of parallel tasks in any order;
an iterator at its end. Correct means: what is owned is released once, sizes are
those of the arrays, and a function computes what its definition says.

The components share no state with each other, so the project models them side
by side; what interacts is inside a component: threads, the queue or list they
share, the mutex and the condition variables around it, and the caller.
`PROJECT.json` lists every component and, under "hazards", every place that is
hard to test, with the properties that cover it or the reason why none does.

## 2. Plan

Done, in this order:

1. `ThreadPoolV1`, the pool with the cleanest protocol, with `TaskExecutor`, the
   abstract executor all pools are compared with; then `ThreadPool` and
   `ThreadPoolV2` against the same abstraction; their theorems.
2. `BoundedFifo`, the abstract queue, and `BoundedBuffer`, `ItemRepository`.
3. The ACE programs, composed by `AcePrograms`.
4. The `std::thread` exercises, composed by `ThreadPrograms`.

5. The network programs, composed by `NetPrograms`: `TcpEcho`, `UdpEcho` (with a
   network at fault), `AsyncEcho` and `AsyncChat` as chains of completion
   handlers, `SyncChat` with both kinds of client.
6. The sequential classes whose order of calls matters, `ScopeGuards`, `Buffers`,
   `Blobs`, and the functions of `Chapter3` and `Chapter16` against reference
   definitions, composed by `ClassPrograms`; one run, `MCPrograms`, for both
   groups.
7. The theorems of the network programs and of the classes, `MCPrograms_proofs`:
   the echo answers, `KeptInTime` and `ListsAreRight` of the chats,
   `ObjectsAreSound`.
8. The theorems of both buffers between threads (types, waiting, the FIFO
   refinement), in `BoundedBuffer_proofs` and `AcePrograms_proofs`, of the four ACE
   programs, `AcePrograms_proofs`, and of the six thread programs,
   `ThreadPrograms_proofs`.

9. The types of `MCPrograms` and what the functions of `Chapter3` and `Chapter16`
   return for every input, in `MCPrograms_proofs`, with the lemmas about sequences
   and sums they need in `SequenceLemmas`.

Every action property and every invariant that the passing runs check is now a
theorem; what TLC alone checks is liveness.

## 3. Modules

| module | models | notes |
|---|---|---|
| `TaskExecutor` | abstract: accept, start, finish, refuse tasks in FIFO order; open, closing, closed | three constants say what a pool may do beyond that: accept late, abandon tasks, restart |
| `ThreadPoolV1` | `include/ThreadPool_V1.h` | `enqueue` = `Call`, `Push`/`Throw`, `NotifyOne`; a worker = `Acquire`, `Block`, `Finish`; destructor = `SetStop`, `NotifyAll`, `Join` |
| `ThreadPool` | `include/ThreadPool.h` | as above, but `commit` = `Check`/`Throw` without the mutex, then `Push`; `stop`; the counter `_idlnum` |
| `ThreadPoolV2` | `include/ThreadPool_v2.h` | `stop`/`restart`; workers without an end |
| `MCThreadPool*` | instances: which task submits which | |
| `MCPrograms` | the instance that launches one program of `NetPrograms` or `ClassPrograms` | |
| `Selection` | `std::remove_if`, `list::remove`, `std::unique_copy` | what they leave: the elements at some places, in their order; used by `SyncChat`, `Chapter3`, `Chapter16` |
| `SequenceLemmas`, `*_proofs` | the theorems of section 6 | |
| `BoundedFifo` | abstract: a queue of at most `Capacity` items | used by three components |
| `BoundedBuffer` | `bounded_buffer_comparison.cpp`, `circular_buffer_bound_example.cpp` | both kinds of class (ring with `m_unread`, pop on read) in one module, with `fifo_test` around them |
| `ItemRepository` | `test_prodcons1.cpp` | the ring, its two positions, `_counter`, producer and consumers |
| `AceManager`, `AceThreadPool`, `AceTaskEx`, `AceBarrier` | `test_ace_task.cpp` (two programs), `test_ace_task_ex.cpp`, `test_ace_task2.cpp` | ACE's queue, barrier and thread count are modelled from how the programs use them, and marked external |
| `StartGate` | `test_condition.cpp` 11-40, 110-128 | |
| `ErrorLogger`, `SharedContainer`, `Fireworks` | `test_thread.cpp` | the logger is in the part of `main` behind a return |
| `BroadcastServer`, `MemoryReclaimer` | `test_readwrite_lock.cpp` | |
| `TcpEcho` | `echo_tcp_sync_server.cpp`, `echo_tcp_sync_client.cpp` | a connection is a pair of streams; a message is two cells, itself and its newline, read one at a time |
| `UdpEcho` | `echo_udp_sync_server.cpp`, `echo_udp_sync_client.cpp` | the network is a bag of datagrams; `Lose` and `Duplicate` are its faults |
| `AsyncEcho` | `echo_tcp_async_server.cpp`, `echo_tcp_async_client.cpp` | an object is its one outstanding handler, `started_` and its socket; `bytes - 1` is taken in `SizeBits` bits |
| `AsyncChat` | `async_server.cpp` | the handlers that can run: `handle_accept`, `on_read` with no byte, `on_check_ping`; the global list |
| `SyncChat` | `sync_server.cpp`, `sync_client.cpp`, `async_client.cpp` | the loop of `handle_clients_thread()` client by client under `cs`, `accept_thread()`, a clock; the buffer with what `process_request()` leaves in it |
| `ScopeGuards` | `ScopeGuard.h` | a scope that acquires, guards, moves, dismisses and is left anywhere |
| `Buffers`, `Blobs` | `Buffer` of `chapter_10.cpp`, `Blob.hpp` | objects are created, copied, moved, assigned and destroyed in any order; `new` may throw |
| `Chapter3`, `Chapter16` | the functions of `chapter_3.cpp` and `chapter_16.cpp` that compute, `my_count` of `util.h` | `Chapter16` calls each function with every input within the bounds |
| `AcePrograms`, `ThreadPrograms`, `NetPrograms`, `ClassPrograms` | launchers | one program is launched; the threads of the others stay "off"; the properties are the components' |

Conventions. Each thread has a program counter (`pc`, `wpc`, ...) whose values
are places in the code. A critical section that only touches memory is one step
that needs the mutex free. `condition_variable::wait` is split where it matters:
a thread that found its predicate false holds the mutex for one more step and
only then waits, so that a notification sent without the mutex can fall in
between; where every notification is sent under the mutex the two are one step.
`notify_one` wakes an arbitrary waiting thread; a wakeup may be spurious. An atomic or plain
read outside a lock is a step of its own. Definitions with the comment "Faulty
variant" are not part of a specification: they are the bugs that show that a
property can fail (`PROJECT.json`, "mutants").

Tasks are model values; a task may submit others (`Parent`) while it runs. A
task always ends. What tasks compute, log output, timing of sleeps and
exceptions of allocations (but for `Buffers` and `ScopeGuards`) are left out.

In `SyncChat` `already_read_` and `clients_changed_` begin with what the memory
holds: the count is 0, or covers a few bytes with or without a newline, or is so
wild that the first use of the buffer ends the server; each connection may have
any of these. A request then begins with the bytes found there and is reported as
invalid. Time is a tick that comes only when nobody has something to do at once:
the server passes over all clients every millisecond, while the timeouts and the
pauses of the clients are seconds.

## 4. Runs

| run | bounds | shows |
|---|---|---|
| `v1` | 2 workers, 2 client tasks, 2 nested | a task is in one place, no wakeup is lost, the destructor returns and drains, the pool refines the strict executor |
| `v0` | 2 workers, 2 client tasks, 1 nested | no wakeup is lost while the pool is open; the idle count is exact; refines an executor that accepts late and abandons |
| `v2` | 2 workers, 2 client tasks, 1 nested | every committed task runs, stopped or not; refines an executor that restarts |
| `v0_destroy`, `v0_stop`, `v2_destroy` | 2 workers, 2 tasks | the three disagreements below |
| `bounded_buffer` | 2 producers, 2 consumers, 2 places, both classes | no lost wakeup on either condition, FIFO, `fifo_test` returns |
| `items` | 3 consumers, a ring of 4 slots, 6 items | FIFO across two rounds of the ring, nobody waits without reason, all is consumed |
| `items_exit` | 2 consumers, 3 items | the disagreement below |
| `ace` | 3 threads, 6 requests, queues for 2 | `NothingMissed`: the manager's list is the idle workers, `shut_down()` finds all of them, no message stays behind; the shared-queue pool is a FIFO executor; `BarrierIsRight`: the barrier keeps step, one clean-up; every program returns |
| `threads` | 3 threads, 2 callbacks, 2 broadcasts | the properties of the six exercises; `NobodyWaitsForever` is those about liveness of the gate, the logger and the reclaimer |
| `programs` | 3 peers of the echo programs and of the asynchronous chat, 1 client of each kind of the synchronous chat, 2 faults of the network; 3 resources and 4 guards, 3 buffers, 3 handles on 2 vectors, 5 entries, 6 words, containers of up to 3 values | `EchoedOwn`, `KeptInTime`, `ListsAreRight`, `NobodyIsLeft`, `ProgramsEnd` of the network programs, `ObjectsAreSound` and `ResultsRight` of the classes and functions |

Why these bounds are enough. With two workers one can be waiting, blocking or
leaving while the other runs, and a notification can go to either; four tasks
fill the queue, keep both busy and leave one submitted from inside. A third
worker or a fourth unrelated task only repeats these roles, and the theorems of
section 6 hold for every number. Two producers and two consumers on two places
make the buffer full and empty with somebody waiting on each condition; six
items go around a ring of four. The ACE manager needs more requests than
workers to find its list empty, hence six for three; the
queue fills at two messages with data. Three threads make an interval of the
reclaimer end in the hands of any, with one registered in its middle; two
callbacks are in different intervals. Three peers make one wait while another is
served and a third connects; two faults double a datagram and lose the answer to
it. One client of each kind puts two connections in the list of the synchronous
server, so that one is erased while the other is served, and lets requests of the
client that reads no answers pile up in its buffer. A tick of delay keeps a client
in time, two ticks do not. Three buffers allow a copy of what an assignment has left
half-way into a third; four guards for three resources leave room for a move; six
words make one that occurs five times beside another.

No run uses symmetry, because all check liveness. Deadlock is checked in all:
programs that return have a step that stutters at the end.

### Disagreements between the code and its tests

* `v0_destroy` - the destructor of `ThreadPool` sets `_stoped` without the mutex
  (line 89); a worker between its predicate (68) and its wait misses the
  `notify_all`, and the join never returns. `test_threadpool_v2` destroys a pool
  at its end.
* `v0_stop` - after `stop()` workers leave at line 61 with tasks in the queue;
  `test_threadpool_v0` calls `stop()` and then `get()` on every future. Only its
  sleep hides it.
* `v2_destroy` - the destructor of `ThreadPoolV2` joins workers that loop for
  ever. The test destroys one.
* `items_exit` - the producer makes 99 of 100 items; the consumers leave only
  when `_counter` reaches 100, so they wait for ever and `main` does not return.

## 5. Fairness

Weak fairness of a thread's own steps: the scheduler runs every thread. Strong
fairness of the steps that take a mutex, because it is free again and again
but not always: the implementations of `std::mutex` and ACE's do not starve a
thread for ever, although the standard does not promise it. Tasks end, so
`Finish` is fair. Never fair: calls of clients, `stop()`, `restart()`, the start of a destructor,
spurious wakeups, the registration of threads. Two
assumptions are particular. The timeout of the ACE manager
(five seconds) comes only when every worker is idle, because messages come in a
burst and a message takes three seconds: this is the
timing the constants of the program give, and the hazard at
`test_ace_task.cpp:119` says what it hides. In `NetPrograms` one weak fairness is
stated for the steps of the four programs without a clock: only one of them is
launched, and its threads and handlers go on as long as one can; the connections and
the losses of the network are not among them. In `SyncChat`
the pass of the server, the clock and the clients' handlers are weakly fair, and
`accept_thread()`, which needs `cs`, strongly: the server sleeps without it between
any two passes. That a client ends (`Leave`) is never fair. And every thread registered with the
`MemoryReclaimer` is quiescent again and again, which is the contract of the class.

Not claimed: that `go()` of `test_condition.cpp` returns. It waits on a
condition nobody signals; `StartGate` shows what follows once it does. Not
claimed either: that `main()` of the error logger returns; a logger that waits
when `g_done` is set stays there.

## 6. Theorems

Proved with TLAPS for any finite sets of workers and tasks and any nesting; for
any capacity, any numbers of producers and consumers and of items; for any finite
set of threads and any number of rounds of the thread programs; for any set of
threads and any number of messages and iterations of the ACE programs; for any set of
clients, any timeout and any number of faults of the network; for any set of
resources, objects and handles of the classes; and for any array, phone book, words,
lists and strings of the chapter exercises:

| module | theorem | states |
|---|---|---|
| `ThreadPoolV1_proofs` | `TypeCorrect`, `WakeupsArrive`, `EveryTaskInOnePlace`, `DestructorDrains`, `NobodyInCall`, `PoolImplementsExecutor` | the safety properties of run `v1`; that the destructor drains is also in the refinement |
| `ThreadPool_proofs` | `TypeCorrect`, `IdleCount`, `WakeupsArrive`, `EveryTaskInOnePlace`, `NobodyInCall`, `PoolImplementsExecutor` | those of run `v0`, the types, and that a task is in one place |
| `ThreadPoolV2_proofs` | `TypeCorrect`, `WakeupsArrive`, `EveryTaskInOnePlace`, `PoolImplementsExecutor` | those of run `v2`, the types, and that a task is in one place |
| `BoundedBuffer_proofs` | `TypeCorrect`, `WakeupsArrive`, `BufferImplementsFifo` | the safety properties of run `bounded_buffer`, and the refinement of `BoundedFifo` |
| `AcePrograms_proofs` | `TypeCorrect`, `WaitersHaveReason`, `RingImplementsFifo` | those of run `items` (`ItemRepository`), and the refinement of `BoundedFifo` |
| | `AceTypeCorrect`, `NothingIsMissed`, `BarrierKeepsStep`, `AcePoolImplementsExecutor` | the safety properties of run `ace`, and the refinement of `TaskExecutor` |
| `ThreadPrograms_proofs` | `TypeCorrect`, `LocksExclude`, `FreedWhenUnused`, `GateOpensForAll`, `LoggerImplementsFifo` | the safety properties of run `threads` |
| `MCPrograms_proofs` | `AnswersAreOwn` | `EchoedOwn` of run `programs`: over TCP and over UDP a thread is answered with its own message |
| | `NobodyDroppedInTime`, `ListsStayRight` | `KeptInTime` and `ListsAreRight` of that run: the synchronous server drops nobody who pings in time and does not change the list it walks; the asynchronous one lists who is started, once each |
| | `OwnersAreSound` | `ObjectsAreSound` of that run: the guards release once and in order, the buffers know their sizes, the shared vectors outlive their handles |
| | `ResultsStayRight` | `ResultsRight` of that run: what the functions of `chapter_3.cpp` and `chapter_16.cpp` compute is what their definitions say, for all inputs |
| | `TypesStayRight` | `TypeOK` of that run |

Assumptions: `ConstantsAssumption` of each pool (finite sets, at least one
worker for the reason the constructor gives, `None` is neither), those of
`BoundedBuffer` (a capacity that holds the items written before the threads begin,
and rounds that leave neither side waiting for ever, as `fifo_test` has them), of `ItemRepository`
(a ring of at least two slots) and of `ThreadPrograms` (some threads, at least
one round), `AceAssumption` (some threads, as many producers as consumers, a
message for each producer, a queue with room for one, and that a hangup or an
empty message is no number), `NetAssumption` of `NetPrograms` (a message holds no `"\n"`, the
port is no client) and `ClassAssumption` of `ClassPrograms` (sizes and bounds are numbers, a vector has
room for the one element it may be made with, and
`Nothing`, which stands for `nullptr` and for what was destroyed, is no number, no vector and
no vector's contents; the array of `test_ppl()` rises, and names, words, values and the
letters that `toupper()` gives are numbers, which is their order), nothing else.

The argument is the same in all three pools. `Control` collects what the other proofs
need: the type invariant, a worker holds a task exactly in the places where its
local variable is set (`JobInv`), the mutex is held across a step exactly by the
worker that is about to wait (`MutexInv`), and how the flag, the destructor and
the workers that have left relate (`StopInv`, `ExitInv`); it is inductive.
`NoLostWakeup` is not inductive without it: the step that matters is `Block`,
where a worker joins the waiting ones, and it is `MutexInv` that says that
nothing was pushed since its predicate was false. The rest is counting: a push adds one
task and one notification to come, a `notify_one` turns one of these into a
worker that is awake, a take removes one task and one such worker.
`TaskInOnePlace` uses the lemmas of `SequenceLemmas` on what append and tail do to
the elements of a sequence without repetition, and that two workers never hold
the same task. `CallInv` says that only a running task is inside a call once the
destructor has begun; with it the destructor of `ThreadPoolV1` leaves nothing
behind. The refinement maps the queue to itself, the workers' local variables to
the set of running tasks, and the flag and the destructor to the phase; every
step is one step of `TaskExecutor` or a stutter.

`EchoedOwn` of the echo programs only says what was printed, so it needs what is
under way. Over UDP (`UdpInv`) every datagram carries the message of the client
at its other end; what is lost or doubled changes no datagram. Over TCP (`TcpInv`)
each thread's message is in one of four phases: not written, at the server, on its
way back, compared. At the server and on the way back the line is split between a
stream and a buffer at one of three places, and the server has bytes of a thread in
`buff` only while it serves that thread: this is what a server that went to the
next connection with half a line would break.

In `BoundedBuffer_proofs`, `Control` says who may hold the mutex across a step
(`MutexInv`: only a thread whose predicate is false, the step before it waits), that nobody
but `Main` is there while the buffer is filled (`LaunchInv`), and that a thread in a
call has an iteration left (`TodoInv`). `NoLostWakeup` is a
balance per condition, as in the pools: each push brings one item and one
notification to come, and `Block` cannot come between because of `MutexInv`. The refinement maps the
container to the abstract queue backwards, since items are pushed at the front,
and to its unread part only. The case that could be wrong is a push onto a full ring: it drops the last
element, which has been read because `unread < Capacity` there.

`ItemRepository` needs little to be inductive: `_counter` is ahead of the
loop variable just while an item is made. Its work is arithmetic: the lemmas
`Wrapped`, `RingArithmetic` and `SlotOf` say where a position is after one step
round the ring, that the slots between the positions are different, and that the slot
written is none of them. With them a `Produce` is an append and a `Consume` a tail.

`ThreadPrograms_proofs` has one invariant per component (`XInv`) with the same
four lemmas: it holds at the launch (`XInit`), every action of the component keeps it
(`XStep`), so does every other component's (`XStays`), and it implies the
properties (`XImplied`). What each adds to the properties:

- `ReclaimerInv`: whoever still holds a callback of the previous interval is a thread
  whose flag is not set; so when none remains the callbacks that are called have no holder. No callback is
  in two of the three lists.
- `ServerInv`: a writer excludes readers, so the list a broadcast walks is the one it
  began with, and what it sent is a prefix of it.
- `CounterInv`: the successes of `try_lock` are the counter plus the one increment
  that is under way, and who is between reading and writing still sees what it read.
- `ContainerInv`: the depth of the recursive mutex by the place of its owner, and that a
  thread's elements are in the container in order, exactly those of the rounds done.
- `GateInv`: until the gate opens the count is that of the waiting threads plus the
  spurious wakeups, which is why `OpensForAll` speaks of executions without them.
- `LogInv`: the queue is no longer than the number of workers that have reported.

The proofs about `AcePrograms` are laid out in the same way:

- `ManagerInv`: as long as the manager serves, a worker has at most one message
  (`OneAtATime`) and the list is injective, which is why the worker that comes back is
  not in it yet. Every posted message is in one of the queues, with somebody, or done
  (`Somewhere`); with all workers idle that leaves only "done", so the timeout ends
  a pool that has nothing to lose. While `shut_down()` walks, each position is behind
  it (ended), at it (its hangup under way) or before it (idle): `ShutDownAt`.
- `PoolInv`: the messages with data come before the empty ones, and once a thread has
  met an empty one none with data is left. So the part of the queue that the
  mapping keeps is a prefix, `putq` appends to it and `getq` takes its head, and the
  pool closes with nothing in it (`DataPrefix`, `PoolMapping`).
- `TaskExInv`: the numbers of a producer's messages rise along the queue and behind
  what was taken, and as many consumers have left as last messages were printed. When
  all have left, all last messages were, and behind the last there is nothing.
- `BarrierInv`: the count of a half is the number of threads less those that wait at
  it, and all threads are in the same iteration but those that have not yet left
  the other half. The thread that opens a half finds all others there
  (`AllOthersWait`).

`MCPrograms_proofs` is laid out in the same way once more; besides `UdpInv` and
`TcpInv` above:

- `AsyncInv`: a connection that `async_accept` was given is not started, so the one that
  `start()` appends is not in the list. `RemovedOnce` says what the `erase` in `stop()`
  leaves of a list in which everybody is once.
- `SyncInv`, for each client whose delays stay within the timeout. `Living`: an
  `async_client` has at most one request under way or one answer to read, never
  both, so the server never meets half a request of it behind another. `Kept`, from
  its login on: the server's buffer holds nothing of it, and while its timer
  runs and nothing of it is under way `age + delay` is within the timeout, which is what the clock cannot
  break; while it reads, its ping is at the server or has just been
  handled. `Cells` and `LineFound` say which line `process_request()` finds among the cells of
  `buff_`, with the uninitialised `already_read_` of an object that was never read: what
  is left there is no request, and where it is not in range the server ends, which
  is why the property excludes that server.
- `LoopIsSafe` is not about reachable states: each pass takes `cs`, and
  `accept_thread()` appends only when it has it.
- `BufferInv`: an object is broken only while its array is null and its size is not,
  which is what an `operator=` that throws leaves behind. Destruction, moves and the next
  assignment take care of that case.
- `BlobInv`: with `SharedSafely`, a vector has contents exactly while a
  handle refers to it.
- `GuardsInv`: every acquired resource is in one place: with one armed guard, released,
  kept, unguarded, or its guard is being made; and as long as no guard was moved
  the guards stand in the order of acquisition, with what was released behind all of
  them (`InOrder`). `ArmedAppended` and `ArmedDismissed` say what a new guard and a
  dismissed one change.

- `EchoTypes`, `LoopTypes`, `SizeTypes`, `VectorFits`, `GuardsFit` are what the types need
  beyond these invariants. The loop of `handle_clients_thread()` is at a client of the list or
  behind the last one, because `Erase` shortens the list only when the loop begins again.
  A scope is about to make a guard only if it has room for one. Over TCP a line is
  under way in one of the four phases, so no stream or buffer holds more than it.
- `Ch3Inv`: `results2` holds the pairs of the numbers whose task is done, once each
  (`Collected`). When all are, it and `results1` hold the same pairs, and both rise after
  `sort()`: two sequences that rise and have the same elements are the same
  (`RisingUnique`). `SortedProperties` says what any order of equal elements
  leaves, `OncePerKey` that the first of each run of one name is each name once.
- `Ch16Inv`: a call was made with the inputs that are enumerated, and a result is right. Each function has a
  lemma for all inputs, not only those enumerated: `SumRight`, `Distance`, `Count`, `MyCount`, `Stack`,
  `MergeRight` with `RemoveRight` and `ListsRight`, `NocaseRight`.

A loop of the code is a recursive function over the places of its container. That such a
function is what the loop computes is an induction; since the induction theorems of the
library take an operator, each is the argument by the least counterexample: if the
function is wrong somewhere, it is wrong at a last place or on a smallest set (`GreatestNumber`, `Least`), and beyond that place it is
right on. Where the argument of the recursion falls in two ways, as in `merge()`, the
function is defined on pairs of places and exists because it does on ever
larger sets of pairs (`MergeExists`), and so for the sums over sets of
places (`SumExists`). `sum()` adds from the first element to the last, its definition
value by value; `SumByValue` says that both are one. `Nocase` is proved to be the order of the
upper-case strings by the first place where two strings differ (`FirstDifferenceOf`), and
this order is strict and weak (`BeforeIsOrder`), which `sort()` needs.

`Selection` gives what `remove_if()`, `remove()` and `unique_copy()` leave by its
places, and not with `SelectSeq`, of which the provers only have an
induction theorem; the lemmas `SelectedProperties` and `SelectedOccurrences` are
about it.

Model-checked only: the liveness properties of the runs, since fairness and `ENABLED` are
out of TLAPS's reach here.

## 7. Not modelled

`Server2` (`test_readwrite_lock.cpp` 34-65) reads a pointer that nothing
initialises in every call, so that no run of it means anything. Of
`async_server.cpp` the handlers of requests and `do_write()`: its
`read_complete()` returns 0, `on_read()` finds an empty message, and nothing calls
them; `async_client.cpp`, which would ask, is modelled against the synchronous
server. `ThreadPoolV1` with zero threads (the constructor allows it) has nobody to
run a task and is excluded by `ConstantsAssumption`. The promise, `packaged_task`
and `async` exercises, the exception list of `test_thread.cpp` and the drivers in
`test_threadpool.cpp` are straight-line uses of what is modelled or of the library.
The exercises of Asio, of ACE's log, reactor and thread manager have handlers that
print and no state of their own. Files, logs, TLS and Windows exercises call the
operating system. Of the chapter exercises those that print, convert or show syntax,
`copy_control.cpp`, `test_mem_ptr.cpp`, `smart_assert.h` and the rest of `util.h`;
`scope_exit` and `world::add_person` of `lambda.cpp`, which no program calls. The
names and texts of the chat, connections that break while both ends live, and a
buffer of 1024 bytes that is full: `MaxUnread` keeps the requests that wait below it.
Memory models weaker than sequential consistency are not modelled: a data race
(`_counter`, `g_done`) is a read that finds the value before or after the write.
