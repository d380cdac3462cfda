---------------------------- MODULE NetPrograms ----------------------------
(***************************************************************************)
(* The programs on Boost.Asio: TcpEcho, UdpEcho, AsyncEcho, AsyncChat and  *)
(* SyncChat.  They share nothing; one of them is launched, and the threads *)
(* and handlers of the others do not exist.                                *)
(***************************************************************************)
EXTENDS Integers, SequencesExt

CONSTANTS Peers,       \* the messages of the echo clients, the connections of AsyncChat
          AsyncPeers,  \* the clients of SyncChat
          SyncPeers,
          ServerPort, MaxFaults, SizeBits,
          Timeout, Delays, MaxUnread,
          None

ASSUME NetAssumption ==
  /\ IsFiniteSet(Peers) /\ Peers # {} /\ "\n" \notin Peers
  /\ AsyncPeers \cap SyncPeers = {}
  /\ MaxFaults \in Nat /\ SizeBits \in Nat \ {0}
  /\ Timeout \in Nat /\ Delays \subseteq Nat /\ MaxUnread \in Nat \ {0}
  /\ None \notin Peers \cup AsyncPeers \cup SyncPeers /\ ServerPort \notin Peers

VARIABLES backlog, toServer, toClient, spc, sock, buff, cpc, buf, printed, main,
          net, received, upc, answer, faults, umain,
          abacklog, sh, sstarted, ssock, ch, cstarted, connected, prog,
          listening, offered, list, started, read, timer, elapsed,
          waiting, clients, hpc, pos, inbox, sbuff, age, changed, username,
          open, chat, answers, delay, slow

tvars == <<backlog, toServer, toClient, spc, sock, buff, cpc, buf, printed, main>>
uvars == <<net, received, upc, answer, faults, umain>>
evars == <<abacklog, sh, sstarted, ssock, ch, cstarted, connected, prog>>
avars == <<listening, offered, list, started, read, timer, elapsed>>
svars == <<waiting, clients, hpc, pos, inbox, sbuff, age, changed, username,
           open, chat, answers, delay, slow>>
netVars == <<tvars, uvars, evars, avars, svars>>

Tcp == INSTANCE TcpEcho WITH Clients <- Peers
Udp == INSTANCE UdpEcho WITH Clients <- Peers
Echo == INSTANCE AsyncEcho WITH Clients <- Peers, backlog <- abacklog
Async == INSTANCE AsyncChat WITH Conns <- Peers, clients <- list
Sync == INSTANCE SyncChat WITH AsyncClients <- AsyncPeers, SyncClients <- SyncPeers,
                               backlog <- waiting, buff <- sbuff, cpc <- chat

NetLaunched(program) ==
  /\ Tcp!Launched(program = "tcp_echo") /\ Udp!Launched(program = "udp_echo")
  /\ Echo!Launched(program = "async_echo") /\ Async!Launched(program = "async_chat")
  /\ Sync!Launched(program = "sync_chat")

NetInit == \E program \in {"tcp_echo", "udp_echo", "async_echo", "async_chat", "sync_chat"} :
             NetLaunched(program)

\* The clients have ended, or for good wait for what was lost.
NetReturned == \/ main = "returned" \/ umain = "returned"
               \/ umain = "create" /\ faults > 0
               \/ prog \in {"returned", "terminated"} \/ listening \/ hpc = "crashed"

\* What the programs without a clock do themselves, without what is only the
\* network's doing.
Step == \/ Tcp!Next /\ UNCHANGED <<uvars, evars, avars, svars>>
        \/ Udp!Programs /\ UNCHANGED <<tvars, evars, avars, svars>>
        \/ Echo!Programs /\ UNCHANGED <<tvars, uvars, avars, svars>>
        \/ Async!Next /\ UNCHANGED <<tvars, uvars, evars, svars>>

NetNext ==
  \/ Tcp!Next /\ UNCHANGED <<uvars, evars, avars, svars>>
  \/ Udp!Next /\ UNCHANGED <<tvars, evars, avars, svars>>
  \/ Echo!Next /\ UNCHANGED <<tvars, uvars, avars, svars>>
  \/ Async!Next /\ UNCHANGED <<tvars, uvars, evars, svars>>
  \/ Sync!Next /\ UNCHANGED <<tvars, uvars, evars, avars>>
  \/ NetReturned /\ UNCHANGED netVars

\* One fairness for four programs: only one of them ever has a step.
NetFairness == WF_netVars(Step) /\ Sync!Fairness

NetSpec == NetInit /\ [][NetNext]_netVars /\ NetFairness

-----------------------------------------------------------------------------
\* The programs' state: every client is at a place of its code, a buffer holds
\* no more than was sent, and a datagram goes from one program to the other.
NetTypeOK ==
  /\ cpc \in [Peers -> {"new", "connect", "write", "read", "returned"}]
  /\ \A c \in Peers : Len(buf[c]) <= 2 /\ Len(toServer[c]) <= 2 /\ Len(toClient[c]) <= 2
  /\ \A d \in DOMAIN net : ServerPort \in {d.from, d.to} /\ d.from # d.to
  /\ sh \in [Peers -> {"none", "on_read", "on_write"}]
  /\ ch \in [Peers -> {"none", "on_connect", "on_write", "on_read"}]
  /\ age \in [AsyncPeers \cup SyncPeers -> 0..Sync!NotADate]
  /\ pos \in 1..(Len(clients) + 1) \/ hpc \in {"sleep", "crashed"}

\* sync_echo() (echo_tcp_sync_client.cpp:32, echo_udp_sync_client.cpp:24): a
\* thread is answered with its own message, over TCP while others wait for the
\* server, over UDP while datagrams are lost, doubled and overtake each other.
EchoedOwn == Tcp!EchoedOwn /\ Udp!EchoedOwn

\* main() of the echo clients joins every thread and returns
\* (echo_tcp_sync_client.cpp:45, echo_udp_sync_client.cpp:37), over UDP only if
\* the network was not at fault; each completion of the asynchronous echo
\* programs starts another operation, but every chain ends with the socket closed
\* (echo_tcp_async_server.cpp:58, 68); and every connection of the asynchronous
\* chat server is settled, closed or left (async_server.cpp:67).
ProgramsEnd == <>[](Tcp!Returned /\ Udp!Returned /\ Echo!Ended /\ Async!Settled)

\* clients of both chat servers: it holds the started connections once each, so
\* that stop() erases the right one (async_server.cpp:82), and nobody touches it
\* under the loop that walks it (sync_server.cpp:160).
ListsAreRight == [][Async!ClientsAreStarted' /\ Sync!LoopIsSafe]_netVars

\* timed_out() (sync_server.cpp:58): a client whose login was handled and that
\* pings in time is never dropped, in whatever pieces its requests are read.
KeptInTime == Sync!KeptInTime

\* handle_clients_thread() (sync_server.cpp:164) and on_read()
\* (async_client.cpp:77): who is gone leaves the list, and the read a client has
\* started completes.
NobodyIsLeft == Sync!GoneAreErased /\ Sync!EveryReadReturns
=============================================================================
