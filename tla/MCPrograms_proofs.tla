-------------------------- MODULE MCPrograms_proofs --------------------------
(***************************************************************************)
(* Proofs about the programs on Boost.Asio and the classes of MCPrograms,  *)
(* for every number of clients, faults, objects and resources.             *)
(***************************************************************************)
EXTENDS MCPrograms, SequenceLemmas

-----------------------------------------------------------------------------
(* UdpEcho.                                                                *)

\* A datagram to the server carries the message of its sender, one from the
\* server that of its receiver.
Addressed(d) == IF d.to = ServerPort THEN d.from \in Peers /\ d.data = d.from
                ELSE d.from = ServerPort /\ d.data = d.to

UdpInv == /\ \A d \in DOMAIN net : Addressed(d)
          /\ received # None => received.to = ServerPort /\ Addressed(received)
          /\ answer \in [Peers -> Peers \cup {None}] /\ Udp!EchoedOwn

\* What is sent is added to the datagrams under way.
LEMMA Sent == ASSUME NEW d PROVE DOMAIN Udp!Sent(d) = DOMAIN net \cup {d}
  BY DEF Udp!Sent, Udp!(+), Udp!SetToBag

\* What is taken is one of the datagrams under way.
LEMMA Taken == ASSUME NEW d PROVE DOMAIN Udp!Taken(d) \subseteq DOMAIN net
  BY DEF Udp!Taken, Udp!(-), Udp!SetToBag

\* At the start no datagram is under way.
LEMMA UdpInit == ASSUME NEW on \in BOOLEAN PROVE Udp!Launched(on) => UdpInv
  <1> SUFFICES ASSUME Udp!Launched(on) PROVE UdpInv
    OBVIOUS
  <1>1. DOMAIN net = {} /\ received = None /\ answer = [c \in Peers |-> None]
    BY DEF Udp!Launched, Udp!EmptyBag, Udp!SetToBag
  <1> QED
    BY <1>1 DEF UdpInv, Udp!EchoedOwn

\* Every step of the server, of a thread and of the network, faults included,
\* leaves the datagrams addressed as they were.
LEMMA UdpStep == UdpInv /\ Udp!Next => UdpInv'
  <1> SUFFICES ASSUME UdpInv, Udp!Next PROVE UdpInv'
    OBVIOUS
  <1> USE NetAssumption DEF UdpInv, Addressed, Udp!EchoedOwn, Udp!BagToSet
  <1>1. CASE Udp!ReceiveFrom
    BY <1>1, Taken DEF Udp!ReceiveFrom
  <1>2. CASE Udp!SendBack
    <2> DEFINE d == Udp!Reply(received)
    <2>1. Addressed(d)
      BY <1>2 DEF Udp!SendBack, Udp!Reply, Udp!Datagram
    <2>2. DOMAIN net' = DOMAIN net \cup {d}
      BY <1>2, Sent DEF Udp!SendBack
    <2> QED
      BY <1>2, <2>1, <2>2 DEF Udp!SendBack
  <1>3. ASSUME NEW c \in Peers, Udp!SendTo(c) PROVE UdpInv'
    <2> DEFINE d == Udp!Datagram(c, ServerPort, c)
    <2>1. Addressed(d)
      BY DEF Udp!Datagram
    <2>2. DOMAIN net' = DOMAIN net \cup {d}
      BY <1>3, Sent DEF Udp!SendTo
    <2> QED
      BY <1>3, <2>1, <2>2 DEF Udp!SendTo
  <1>4. ASSUME NEW c \in Peers, Udp!Receive(c) PROVE UdpInv'
    <2>1. PICK d \in DOMAIN net : /\ d.to = c /\ net' = Udp!Taken(d)
                                  /\ answer' = [answer EXCEPT ![c] = d.data]
      BY <1>4 DEF Udp!Receive
    <2>2. d.data = c
      BY <2>1
    <2> QED
      BY <1>4, <2>1, <2>2, Taken DEF Udp!Receive
  <1>5. CASE Udp!CreateThread \/ Udp!JoinAll
    BY <1>5 DEF Udp!CreateThread, Udp!JoinAll
  <1>6. CASE Udp!Lose
    BY <1>6, Taken DEF Udp!Lose
  <1>7. CASE Udp!Duplicate
    BY <1>7, Sent DEF Udp!Duplicate
  <1> QED
    BY <1>1, <1>2, <1>3, <1>4, <1>5, <1>6, <1>7
       DEF Udp!Next, Udp!Programs, Udp!Server, Udp!Main, Udp!Thread

LEMMA UdpStays == UdpInv /\ UNCHANGED uvars => UdpInv'
  BY DEF uvars, UdpInv, Addressed, Udp!EchoedOwn

-----------------------------------------------------------------------------
(* TcpEcho.                                                                *)

\* The server has read nothing of a connection to c yet, if it serves one.
Unread(c) == sock = c => spc = "read" /\ buff = << >>

\* What becomes of the message of c: not yet written; being read by the server,
\* who serves c from the first byte of it on; on its way back, as the two parts
\* of one line; compared.
NotWritten(c) == /\ cpc[c] \in {"new", "connect", "write"} /\ Unread(c)
                 /\ toServer[c] = << >> /\ toClient[c] = << >> /\ buf[c] = << >>

AtServer(c) ==
  /\ cpc[c] = "read" /\ toClient[c] = << >> /\ buf[c] = << >>
  /\ \/ toServer[c] = Tcp!Line(c) /\ Unread(c)
     \/ toServer[c] = <<"\n">> /\ sock = c /\ spc = "read" /\ buff = <<c>>
     \/ toServer[c] = << >> /\ sock = c /\ spc \in {"read", "write"} /\ buff = Tcp!Line(c)

WayBack(c) ==
  /\ cpc[c] = "read" /\ toServer[c] = << >>
  /\ sock = c => spc = "close" \/ (spc = "read" /\ buff = << >>)
  /\ \/ buf[c] = << >> /\ toClient[c] = Tcp!Line(c)
     \/ buf[c] = <<c>> /\ toClient[c] = <<"\n">>
     \/ buf[c] = Tcp!Line(c) /\ toClient[c] = << >>

Compared(c) ==
  /\ cpc[c] = "returned" /\ buf[c] = Tcp!Line(c) /\ toServer[c] = << >> /\ toClient[c] = << >>
  /\ sock = c => spc = "close" \/ (spc = "read" /\ buff = << >>)

Phase(c) == NotWritten(c) \/ AtServer(c) \/ WayBack(c) \/ Compared(c)

\* What the phase of a thread depends on.
Steady(c) == /\ cpc'[c] = cpc[c] /\ buf'[c] = buf[c]
             /\ toServer'[c] = toServer[c] /\ toClient'[c] = toClient[c]
             /\ UNCHANGED <<sock, spc, buff>>

LEMMA SamePhase == ASSUME NEW c, Phase(c), Steady(c) PROVE Phase(c)'
  <1>1. CASE NotWritten(c)
    <2>1. NotWritten(c)'
      BY <1>1 DEF Steady, NotWritten, Unread
    <2> QED
      BY <2>1 DEF Phase
  <1>2. CASE AtServer(c)
    <2>1. AtServer(c)'
      BY <1>2 DEF Steady, AtServer, Unread
    <2> QED
      BY <2>1 DEF Phase
  <1>3. CASE WayBack(c)
    <2>1. WayBack(c)'
      BY <1>3 DEF Steady, WayBack
    <2> QED
      BY <2>1 DEF Phase
  <1>4. CASE Compared(c)
    <2>1. Compared(c)'
      BY <1>4 DEF Steady, Compared
    <2> QED
      BY <2>1 DEF Phase
  <1> QED
    BY <1>1, <1>2, <1>3, <1>4 DEF Phase

OnPeers(f) == f = [c \in Peers |-> f[c]]

TcpInv == /\ backlog \in Seq(Peers)
          /\ OnPeers(toServer) /\ OnPeers(toClient) /\ OnPeers(buf)
          /\ cpc \in [Peers -> {"new", "connect", "write", "read", "returned"}]
          /\ spc \in {"off", "accept"} => sock = None
          /\ spc \in {"read", "write", "close"} => sock \in Peers
          /\ printed \in [Peers -> {"", "OK"}]
          /\ \A c \in Peers : Phase(c)

\* A line, written as a whole and read byte by byte.
LEMMA Bytes ==
  ASSUME NEW c
  PROVE  /\ Tcp!Line(c) # << >> /\ Head(Tcp!Line(c)) = c /\ Tail(Tcp!Line(c)) = <<"\n">>
         /\ Head(<<"\n">>) = "\n" /\ Tail(<<"\n">>) = << >> /\ <<"\n">> # << >>
         /\ Append(<< >>, c) = <<c>> /\ Append(<<c>>, "\n") = Tcp!Line(c)
         /\ << >> \o Tcp!Line(c) = Tcp!Line(c)
         /\ <<c>> # << >> /\ <<c>> # Tcp!Line(c)
  <1> DEFINE S == {c, "\n"}
  <1>1. Tcp!Line(c) = <<c, "\n">> /\ <<c, "\n">> # << >>
    BY DEF Tcp!Line
  <1>2. Head(<<c, "\n">>) = c /\ Tail(<<c, "\n">>) = <<"\n">>
    OBVIOUS
  <1>3. Head(<<"\n">>) = "\n" /\ Tail(<<"\n">>) = << >> /\ <<"\n">> # << >>
    OBVIOUS
  <1>4. Append(<< >>, c) = <<c>> /\ << >> \o <<c, "\n">> = <<c, "\n">>
    OBVIOUS
  <1>5. Append(<<c>>, "\n") = <<c, "\n">>
    <2>1. <<c>> \in Seq(S) /\ Len(<<c>>) = 1 /\ <<c>>[1] = c
      OBVIOUS
    <2>2. <<c, "\n">> \in Seq(S) /\ Len(<<c, "\n">>) = 2
          /\ <<c, "\n">>[1] = c /\ <<c, "\n">>[2] = "\n"
      OBVIOUS
    <2>3. /\ Append(<<c>>, "\n") \in Seq(S) /\ Len(Append(<<c>>, "\n")) = 2
          /\ Append(<<c>>, "\n")[1] = c /\ Append(<<c>>, "\n")[2] = "\n"
      BY <2>1, AppendProperties
    <2>4. \A i \in 1..2 : Append(<<c>>, "\n")[i] = <<c, "\n">>[i]
      BY <2>2, <2>3
    <2> HIDE DEF S
    <2> QED
      BY <2>2, <2>3, <2>4, SeqEqual
  <1>6. <<c>> # << >> /\ Len(<<c>>) = 1 /\ Len(<<c, "\n">>) = 2
    OBVIOUS
  <1> QED
    BY <1>1, <1>2, <1>3, <1>4, <1>5, <1>6

\* read_complete() is true of a whole line, and of no part of it.
LEMMA Complete ==
  ASSUME NEW c \in Peers
  PROVE  /\ ~ Tcp!ReadComplete(<< >>) /\ ~ Tcp!ReadComplete(<<c>>)
         /\ Tcp!ReadComplete(Tcp!Line(c)) /\ Tcp!Copy(Tcp!Line(c)) = <<c>>
  <1>1. "\n" # c
    BY NetAssumption
  <1>2. DOMAIN Tcp!Line(c) = 1..2 /\ Tcp!Line(c)[2] = "\n" /\ Tcp!Line(c)[1] = c
    BY DEF Tcp!Line
  <1>3. Tcp!Copy(Tcp!Line(c)) = <<c>>
    <2>1. Len(Tcp!Line(c)) = 2
      BY DEF Tcp!Line
    <2>2. Tcp!Copy(Tcp!Line(c)) = SubSeq(Tcp!Line(c), 1, 1)
      BY <2>1 DEF Tcp!Copy
    <2>3. /\ SubSeq(Tcp!Line(c), 1, 1) \in Seq({c}) /\ Len(SubSeq(Tcp!Line(c), 1, 1)) = 1
          /\ SubSeq(Tcp!Line(c), 1, 1)[1] = c
      BY <1>2, SubSeqProperties
    <2>4. <<c>> \in Seq({c}) /\ Len(<<c>>) = 1 /\ <<c>>[1] = c
      OBVIOUS
    <2>5. \A i \in 1..1 : SubSeq(Tcp!Line(c), 1, 1)[i] = <<c>>[i]
      BY <2>3, <2>4
    <2>6. SubSeq(Tcp!Line(c), 1, 1) = <<c>>
      BY <2>3, <2>4, <2>5, SeqEqual
    <2> QED
      BY <2>2, <2>6
  <1> QED
    BY <1>1, <1>2, <1>3 DEF Tcp!ReadComplete, Tcp!Range

\* One more byte of a line.
LEMMA ServerByte ==
  ASSUME NEW c, AtServer(c), sock = c, spc = "read", toServer[c] # << >>,
         buff' = Append(buff, Head(toServer[c])), toServer'[c] = Tail(toServer[c]),
         UNCHANGED <<cpc, toClient, buf, sock, spc>>
  PROVE  AtServer(c)'
  <1>1. CASE toServer[c] = Tcp!Line(c) /\ Unread(c)
    <2>1. buff' = <<c>> /\ toServer'[c] = <<"\n">>
      BY <1>1, Bytes DEF Unread
    <2> QED
      BY <2>1 DEF AtServer
  <1>2. CASE toServer[c] = <<"\n">> /\ buff = <<c>>
    <2>1. buff' = Tcp!Line(c) /\ toServer'[c] = << >>
      BY <1>2, Bytes
    <2> QED
      BY <2>1 DEF AtServer
  <1> QED
    BY <1>1, <1>2 DEF AtServer

\* The same at the client.
LEMMA ClientByte ==
  ASSUME NEW c, WayBack(c), toClient[c] # << >>,
         buf'[c] = Append(buf[c], Head(toClient[c])), toClient'[c] = Tail(toClient[c]),
         UNCHANGED <<cpc, toServer, sock, spc, buff>>
  PROVE  WayBack(c)'
  <1>1. CASE buf[c] = << >> /\ toClient[c] = Tcp!Line(c)
    <2>1. buf'[c] = <<c>> /\ toClient'[c] = <<"\n">>
      BY <1>1, Bytes
    <2> QED
      BY <2>1 DEF WayBack
  <1>2. CASE buf[c] = <<c>> /\ toClient[c] = <<"\n">>
    <2>1. buf'[c] = Tcp!Line(c) /\ toClient'[c] = << >>
      BY <1>2, Bytes
    <2> QED
      BY <2>1 DEF WayBack
  <1> QED
    BY <1>1, <1>2 DEF WayBack

\* At the start no thread has written.
LEMMA TcpInit == ASSUME NEW on \in BOOLEAN PROVE Tcp!Launched(on) => TcpInv
  <1> SUFFICES ASSUME Tcp!Launched(on) PROVE TcpInv
    OBVIOUS
  <1>1. /\ sock = None /\ backlog = << >> /\ spc \in {"off", "accept"}
        /\ cpc = [c \in Peers |-> "new"] /\ printed = [c \in Peers |-> ""]
        /\ toServer = [c \in Peers |-> << >>] /\ toClient = [c \in Peers |-> << >>]
        /\ buf = [c \in Peers |-> << >>]
    BY DEF Tcp!Launched
  <1>2. OnPeers(toServer) /\ OnPeers(toClient) /\ OnPeers(buf)
    BY <1>1 DEF OnPeers
  <1>3. ASSUME NEW c \in Peers PROVE Phase(c)
    BY <1>1, NetAssumption DEF Phase, NotWritten, Unread
  <1>4. backlog \in Seq(Peers)
    <2>1. backlog = << >> /\ << >> \in Seq(Peers)
      BY <1>1, EmptySeq
    <2> QED
      BY <2>1
  <1> QED
    BY <1>1, <1>2, <1>3, <1>4, NetAssumption DEF TcpInv

\* The server reads all of one connection before it serves another.
LEMMA TcpServer == TcpInv /\ Tcp!Server => TcpInv'
  <1> SUFFICES ASSUME TcpInv, Tcp!Server PROVE TcpInv'
    OBVIOUS
  <1> USE NetAssumption DEF TcpInv, OnPeers
  <1>1. CASE Tcp!Accept
    <2>1. sock = None /\ sock' \in Peers /\ backlog' \in Seq(Peers)
      BY <1>1, HeadTailProperties DEF Tcp!Accept
    <2>2. ASSUME NEW c \in Peers PROVE Phase(c)'
      BY <1>1, <2>1 DEF Tcp!Accept, Phase, NotWritten, AtServer, WayBack, Compared, Unread
    <2> QED
      BY <1>1, <2>1, <2>2 DEF Tcp!Accept
  <1>2. CASE Tcp!ServerRead
    <2>1. sock \in Peers
      BY <1>2 DEF Tcp!ServerRead
    <2>2. Phase(sock)'
      <3>1. AtServer(sock)
        BY <1>2, <2>1, Complete
           DEF Tcp!ServerRead, Phase, NotWritten, WayBack, Compared, Unread
      <3>2. CASE Tcp!ReadComplete(buff)
        <4>1. buff = Tcp!Line(sock)
          BY <2>1, <3>1, <3>2, Complete DEF AtServer, Unread
        <4> QED
          BY <1>2, <2>1, <3>1, <3>2, <4>1, Bytes DEF Tcp!ServerRead, Phase, AtServer, Unread
      <3>3. CASE ~ Tcp!ReadComplete(buff)
        <4>1. /\ toServer[sock] # << >> /\ buff' = Append(buff, Head(toServer[sock]))
              /\ toServer'[sock] = Tail(toServer[sock])
              /\ UNCHANGED <<cpc, toClient, buf, sock, spc>>
          BY <1>2, <2>1, <3>3 DEF Tcp!ServerRead
        <4> QED
          BY <1>2, <2>1, <3>1, <4>1, ServerByte DEF Tcp!ServerRead, Phase
      <3> QED
        BY <3>2, <3>3
    <2>3. ASSUME NEW c \in Peers, c # sock PROVE Phase(c)'
      BY <1>2, <2>1, <2>3
         DEF Tcp!ServerRead, Phase, NotWritten, AtServer, WayBack, Compared, Unread
    <2> QED
      BY <1>2, <2>1, <2>2, <2>3 DEF Tcp!ServerRead
  <1>3. CASE Tcp!ServerWrite
    <2>1. sock \in Peers
      BY <1>3 DEF Tcp!ServerWrite
    <2>2. Phase(sock)'
      BY <1>3, <2>1, Bytes
         DEF Tcp!ServerWrite, Phase, NotWritten, AtServer, WayBack, Compared, Unread
    <2>3. ASSUME NEW c \in Peers, c # sock PROVE Phase(c)'
      BY <1>3, <2>1, <2>3
         DEF Tcp!ServerWrite, Phase, NotWritten, AtServer, WayBack, Compared, Unread
    <2> QED
      BY <1>3, <2>1, <2>2, <2>3 DEF Tcp!ServerWrite
  <1>4. CASE Tcp!ServerClose
    <2>1. ASSUME NEW c \in Peers PROVE Phase(c)'
      BY <1>4 DEF Tcp!ServerClose, Phase, NotWritten, AtServer, WayBack, Compared, Unread
    <2> QED
      BY <1>4, <2>1 DEF Tcp!ServerClose
  <1> QED
    BY <1>1, <1>2, <1>3, <1>4 DEF Tcp!Server

\* A thread changes what is its own; the server is not concerned.
LEMMA TcpThread == ASSUME NEW c \in Peers PROVE TcpInv /\ Tcp!Thread(c) => TcpInv'
  <1> SUFFICES ASSUME TcpInv, Tcp!Thread(c) PROVE TcpInv'
    OBVIOUS
  <1> USE NetAssumption DEF TcpInv, OnPeers
  <1>1. ASSUME NEW d \in Peers, d # c PROVE Phase(d)'
    <2>1. Steady(d)
      BY <1>1 DEF Tcp!Thread, Tcp!Connect, Tcp!ClientWrite, Tcp!ClientRead, Steady
    <2> QED
      BY <2>1, SamePhase
  <1>2. CASE Tcp!Connect(c)
    <2>1. Phase(c)'
      BY <1>2 DEF Tcp!Connect, Phase, NotWritten, AtServer, WayBack, Compared, Unread
    <2> QED
      BY <1>1, <1>2, <2>1, AppendProperties DEF Tcp!Connect, Tcp!Connected
  <1>3. CASE Tcp!ClientWrite(c)
    <2>1. Phase(c)'
      BY <1>3, Bytes DEF Tcp!ClientWrite, Phase, NotWritten, AtServer, WayBack, Compared, Unread
    <2> QED
      BY <1>1, <1>3, <2>1 DEF Tcp!ClientWrite
  <1>4. CASE Tcp!ClientRead(c)
    <2>1. cpc[c] = "read"
      BY <1>4 DEF Tcp!ClientRead
    <2>2. AtServer(c) \/ WayBack(c)
      BY <2>1 DEF Phase, NotWritten, Compared
    <2>3. CASE Tcp!ReadComplete(buf[c])
      <3>1. WayBack(c) /\ buf[c] = Tcp!Line(c)
        BY <2>2, <2>3, Complete DEF AtServer, WayBack
      <3>2. printed' = [printed EXCEPT ![c] = "OK"] /\ cpc' = [cpc EXCEPT ![c] = "returned"]
        BY <1>4, <2>3, <3>1, Complete DEF Tcp!ClientRead
      <3>3. Compared(c)'
        <4>1. toClient[c] = << >>
          BY <3>1, Bytes DEF WayBack
        <4> QED
          BY <1>4, <2>3, <3>1, <3>2, <4>1 DEF Tcp!ClientRead, WayBack, Compared
      <3> QED
        BY <1>1, <1>4, <2>3, <3>2, <3>3 DEF Tcp!ClientRead, Phase
    <2>4. CASE ~ Tcp!ReadComplete(buf[c])
      <3>1. WayBack(c) /\ toClient[c] # << >>
        BY <1>4, <2>2, <2>4 DEF Tcp!ClientRead, AtServer
      <3>2. /\ buf'[c] = Append(buf[c], Head(toClient[c])) /\ toClient'[c] = Tail(toClient[c])
            /\ UNCHANGED <<cpc, toServer, sock, spc, buff>>
        BY <1>4, <2>4 DEF Tcp!ClientRead, OnPeers
      <3>3. WayBack(c)'
        BY <3>1, <3>2, ClientByte
      <3> QED
        BY <1>1, <1>4, <2>4, <3>3 DEF Tcp!ClientRead, Phase
    <2> QED
      BY <2>3, <2>4
  <1> QED
    BY <1>2, <1>3, <1>4 DEF Tcp!Thread

\* A step of the TCP programs takes each thread from a phase to the same or the
\* next.
LEMMA TcpStep == TcpInv /\ Tcp!Next => TcpInv'
  <1> SUFFICES ASSUME TcpInv, Tcp!Next PROVE TcpInv'
    OBVIOUS
  <1>1. CASE Tcp!Main
    <2> USE DEF TcpInv, OnPeers
    <2>1. ASSUME NEW c \in Peers PROVE Phase(c)'
      <3>1. CASE cpc'[c] = cpc[c]
        <4>1. Steady(c)
          BY <1>1, <3>1 DEF Tcp!Main, Tcp!CreateThread, Tcp!JoinAll, Steady
        <4> QED
          BY <4>1, SamePhase
      <3>2. CASE cpc'[c] # cpc[c]
        <4>1. /\ cpc[c] = "new" /\ cpc'[c] = "connect"
              /\ UNCHANGED <<toServer, toClient, sock, spc, buff, buf>>
          BY <1>1, <3>2 DEF Tcp!Main, Tcp!CreateThread, Tcp!JoinAll
        <4>2. NotWritten(c)
          BY <4>1 DEF Phase, NotWritten, AtServer, WayBack, Compared
        <4>3. NotWritten(c)'
          BY <4>1, <4>2 DEF NotWritten, Unread
        <4> QED
          BY <4>3 DEF Phase
      <3> QED
        BY <3>1, <3>2
    <2> QED
      BY <1>1, <2>1 DEF Tcp!Main, Tcp!CreateThread, Tcp!JoinAll
  <1> QED
    BY <1>1, TcpServer, TcpThread DEF Tcp!Next

LEMMA TcpStays == TcpInv /\ UNCHANGED tvars => TcpInv'
  <1> SUFFICES ASSUME TcpInv, UNCHANGED tvars PROVE TcpInv'
    OBVIOUS
  <1>1. ASSUME NEW c \in Peers PROVE Phase(c)'
    BY SamePhase DEF tvars, Steady, TcpInv
  <1> QED
    BY <1>1 DEF tvars, TcpInv, OnPeers

\* What is under way over TCP is a line or a part of one.
LEMMA LinesAreShort ==
  ASSUME TcpInv, NEW c \in Peers
  PROVE  Len(buf[c]) <= 2 /\ Len(toServer[c]) <= 2 /\ Len(toClient[c]) <= 2
  <1>1. Len(<< >>) = 0 /\ Len(<<c>>) = 1 /\ Len(<<"\n">>) = 1 /\ Len(Tcp!Line(c)) = 2
    BY DEF Tcp!Line
  <1>2. Phase(c)
    BY DEF TcpInv
  <1> QED
    <2>1. /\ buf[c] \in {<< >>, <<c>>, Tcp!Line(c)}
          /\ toServer[c] \in {<< >>, <<"\n">>, Tcp!Line(c)}
          /\ toClient[c] \in {<< >>, <<"\n">>, Tcp!Line(c)}
      <3>1. CASE NotWritten(c)
        BY <3>1 DEF NotWritten
      <3>2. CASE AtServer(c)
        BY <3>2 DEF AtServer
      <3>3. CASE WayBack(c)
        BY <3>3 DEF WayBack
      <3>4. CASE Compared(c)
        BY <3>4 DEF Compared
      <3> QED
        BY <1>2, <3>1, <3>2, <3>3, <3>4 DEF Phase
    <2>2. \A q \in {<< >>, <<c>>, <<"\n">>, Tcp!Line(c)} : Len(q) <= 2
      <3>1. Len(<< >>) <= 2 /\ Len(<<c>>) <= 2 /\ Len(<<"\n">>) <= 2 /\ Len(Tcp!Line(c)) <= 2
        BY <1>1
      <3> QED
        BY <3>1, Zenon
    <2> QED
      BY <2>1, <2>2

-----------------------------------------------------------------------------
(* AsyncEcho.                                                              *)

\* A handler of either side of the asynchronous echo programs.
EchoTypes == /\ sh \in [Peers -> {"none", "on_read", "on_write"}]
             /\ ch \in [Peers -> {"none", "on_connect", "on_write", "on_read"}]

\* No handler is waited for at the start.
LEMMA EchoInit == ASSUME NEW on \in BOOLEAN PROVE Echo!Launched(on) => EchoTypes
  BY DEF Echo!Launched, EchoTypes

\* Nor do they change while another program runs.
LEMMA EchoStays == EchoTypes /\ UNCHANGED evars => EchoTypes'
  BY DEF EchoTypes, evars

\* One step of the asynchronous echo programs.
LEMMA EchoStep == EchoTypes /\ Echo!Next => EchoTypes'
  <1> SUFFICES ASSUME EchoTypes, Echo!Next PROVE EchoTypes'
    OBVIOUS
  <1> USE DEF EchoTypes, Echo!cvars, Echo!svars
  <1>1. CASE Echo!Server
    BY <1>1 DEF Echo!Server, Echo!HandleAccept, Echo!ServerOnRead, Echo!ServerOnWrite,
       Echo!DoRead, Echo!DoWrite
  <1>2. CASE Echo!Client
    BY <1>2 DEF Echo!Client, Echo!Run, Echo!Return, Echo!Start, Echo!OnConnect,
       Echo!ClientOnWrite, Echo!ClientOnRead, Echo!AfterConnect
  <1>3. CASE \E c \in Peers : Echo!Connect(c)
    BY <1>3 DEF Echo!Connect
  <1> QED
    BY <1>1, <1>2, <1>3 DEF Echo!Next, Echo!Programs

-----------------------------------------------------------------------------
(* AsyncChat.                                                              *)

\* A connection is offered until handle_accept(), and only then is it listed.
AsyncInv == /\ list \in Seq(Peers) /\ Async!ClientsAreStarted
            /\ started \in [Peers -> BOOLEAN] /\ offered \subseteq Peers
            /\ \A c \in offered : ~ started[c]

\* What stop() leaves of a list in which each connection is once.
LEMMA RemovedOnce ==
  ASSUME NEW S, NEW q \in Seq(S), IsInjective(q), NEW c \in ToSet(q)
  PROVE  /\ Async!RemoveFirst(q, c) \in Seq(S)
         /\ IsInjective(Async!RemoveFirst(q, c))
         /\ ToSet(Async!RemoveFirst(q, c)) = ToSet(q) \ {c}
  <1>1. Len(q) \in Nat /\ DOMAIN q = 1 .. Len(q)
    BY LenProperties
  <1>2. PICK k \in 1 .. Len(q) : q[k] = c
    BY <1>1 DEF ToSet
  <1>3. {a \in 1 .. Len(q) : q[a] = c} = {k}
    BY <1>1, <1>2 DEF IsInjective
  <1>4. Async!SelectInSeq(q, LAMBDA v : v = c) = k
    <2>1. Async!Min({k}) = k
      BY <1>2 DEF Async!Min
    <2> QED
      BY <1>3, <2>1 DEF Async!SelectInSeq
  <1>5. Async!RemoveFirst(q, c) = SubSeq(q, 1, k - 1) \o SubSeq(q, k + 1, Len(q))
    BY <1>2, <1>4 DEF Async!RemoveFirst, Async!RemoveAt
  <1>6. Async!RemoveFirst(q, c) \in Seq(S) /\ IsInjective(Async!RemoveFirst(q, c))
        /\ ToSet(Async!RemoveFirst(q, c)) = ToSet(q) \ {q[k]}
    BY <1>5, RemovedPlace
  <1> QED
    BY ONLY <1>2, <1>6

\* The operators of the modules that AsyncChat extends are the same here.
LEMMA AsyncOperators ==
  \A s : Async!Range(s) = ToSet(s) /\ (Async!IsInjective(s) <=> IsInjective(s))
  BY DEF ToSet, Async!Range, IsInjective, Async!IsInjective

LEMMA AsyncInit == ASSUME NEW on \in BOOLEAN PROVE Async!Launched(on) => AsyncInv
  <1> SUFFICES ASSUME Async!Launched(on) PROVE AsyncInv
    OBVIOUS
  <1>1. list = << >> /\ list \in Seq(Peers) /\ DOMAIN list = {}
    BY EmptySeq DEF Async!Launched
  <1>2. IsInjective(list) /\ ToSet(list) = {}
    BY <1>1 DEF IsInjective, ToSet
  <1>3. {c \in Peers : started[c]} = {}
    BY DEF Async!Launched
  <1> QED
    BY <1>1, <1>2, <1>3, AsyncOperators DEF AsyncInv, Async!ClientsAreStarted, Async!Launched

\* Every handler keeps the list.
LEMMA AsyncStep == AsyncInv /\ Async!Next => AsyncInv'
  <1> SUFFICES ASSUME AsyncInv, Async!Next PROVE AsyncInv'
    OBVIOUS
  <1>t. /\ list \in Seq(Peers) /\ IsInjective(list) /\ ToSet(list) = {c \in Peers : started[c]}
        /\ started \in [Peers -> BOOLEAN] /\ offered \subseteq Peers
        /\ \A c \in offered : ~ started[c]
    BY AsyncOperators DEF AsyncInv, Async!ClientsAreStarted
  <1>T. AsyncInv' <=>
          /\ list' \in Seq(Peers) /\ IsInjective(list')
          /\ ToSet(list') = {c \in Peers : started'[c]}
          /\ started' \in [Peers -> BOOLEAN] /\ offered' \subseteq Peers
          /\ \A c \in offered' : ~ started'[c]
    BY AsyncOperators DEF AsyncInv, Async!ClientsAreStarted
  <1>1. ASSUME NEW c \in Peers, Async!HandleAccept(c) PROVE AsyncInv'
    <2>1. /\ c \in offered /\ offered' = offered \ {c}
          /\ started' = [started EXCEPT ![c] = TRUE] /\ list' = Append(list, c)
      BY <1>1 DEF Async!HandleAccept
    <2>2. /\ list' \in Seq(Peers) /\ IsInjective(list') /\ ToSet(list') = ToSet(list) \cup {c}
      BY <2>1, <1>t, AppendElements
    <2>3. {d \in Peers : started'[d]} = {d \in Peers : started[d]} \cup {c}
      BY <2>1, <1>t
    <2> QED
      BY <2>1, <2>2, <2>3, <1>t, <1>T
  <1>2. ASSUME NEW c \in Peers, Async!OnCheckPing(c) PROVE AsyncInv'
    <2>1. CASE UNCHANGED <<started, list>>
      BY <2>1, <1>2, <1>t, <1>T DEF Async!OnCheckPing
    <2>2. CASE started[c] /\ started' = [started EXCEPT ![c] = FALSE]
               /\ list' = Async!RemoveFirst(list, c)
      <3>1. c \in ToSet(list)
        BY <2>2, <1>t
      <3>2. /\ list' \in Seq(Peers) /\ IsInjective(list') /\ ToSet(list') = ToSet(list) \ {c}
        BY <2>2, <3>1, <1>t, RemovedOnce
      <3>3. {d \in Peers : started'[d]} = {d \in Peers : started[d]} \ {c}
        BY <2>2, <1>t
      <3>4. offered' = offered
        BY <1>2 DEF Async!OnCheckPing
      <3> QED
        BY <2>2, <3>2, <3>3, <3>4, <1>t, <1>T
    <2> QED
      BY <1>2, <2>1, <2>2 DEF Async!OnCheckPing, Async!Unlisted
  <1>3. CASE \E c \in Peers : Async!OnRead(c) \/ Async!Expire(c)
    BY <1>3, <1>t, <1>T DEF Async!OnRead, Async!Expire
  <1> QED
    BY <1>1, <1>2, <1>3 DEF Async!Next, Async!Handler

LEMMA AsyncStays == AsyncInv /\ UNCHANGED avars => AsyncInv'
  BY DEF AsyncInv, avars, Async!ClientsAreStarted

-----------------------------------------------------------------------------
(* SyncChat.                                                               *)

Rest == {"noise", "junk"}
AnswerLines == {"login ok", "ping client_list_changed", "ping ok", "clients"}
Places == {"off", "connect", "login", "read", "postponed", "loop", "ended"}

\* A set of numbers has a smallest one.
LEMMA Smallest ==
  ASSUME NEW I \in SUBSET Nat, I # {}
  PROVE  Sync!Min(I) \in I /\ \A a \in I : Sync!Min(I) <= a
  <1>1. PICK x \in I : \A y \in I : ~ (<<y, x>> \in OpToRel(<, Nat))
    BY NatLessThanWellFounded, WFMin
  <1>2. \A y \in I : x <= y
    <2> SUFFICES ASSUME NEW y \in I, y < x PROVE FALSE
      OBVIOUS
    <2> QED
      BY <1>1 DEF OpToRel
  <1> QED
    BY <1>2 DEF Sync!Min

\* FirstLine() of what is in a buffer.
LEMMA LineFound ==
  ASSUME NEW q \in Seq(Sync!Lines \cup {"junk"})
  PROVE  /\ Sync!FirstLine(q) \in 0 .. Len(q)
         /\ Sync!FirstLine(q) = 0 <=> \A a \in 1 .. Len(q) : q[a] \notin Sync!Lines
         /\ Sync!FirstLine(q) = 1 <=> q # << >> /\ q[1] \in Sync!Lines
  <1> DEFINE I == {a \in 1 .. Len(q) : q[a] \in Sync!Lines}
  <1>1. Len(q) \in Nat /\ DOMAIN q = 1 .. Len(q) /\ (q = << >> <=> Len(q) = 0)
    BY LenProperties, EmptySeq
  <1>2. CASE I = {}
    <2>1. Sync!Range(q) \cap Sync!Lines = {}
      BY <1>1, <1>2 DEF Sync!Range
    <2>2. Sync!FirstLine(q) = 0
      BY <2>1 DEF Sync!FirstLine
    <2> QED
      BY <1>1, <1>2, <2>2
  <1>3. CASE I # {}
    <2>1. Sync!Range(q) \cap Sync!Lines # {}
      BY <1>1, <1>3 DEF Sync!Range
    <2>2. Sync!SelectInSeq(q, LAMBDA x : x \in Sync!Lines) = Sync!Min(I)
      BY <1>3 DEF Sync!SelectInSeq
    <2>3. Sync!FirstLine(q) = Sync!Min(I)
      BY <2>1, <2>2 DEF Sync!FirstLine
    <2>4. Sync!Min(I) \in I /\ \A a \in I : Sync!Min(I) <= a
      <3>1. I \in SUBSET Nat
        BY <1>1
      <3> HIDE DEF I
      <3> QED
        BY <1>3, <3>1, Smallest
    <2> QED
      BY <1>1, <1>3, <2>3, <2>4
  <1> QED
    BY <1>2, <1>3

\* What process_request() does with the rest b of a buffer and the requests r
\* that have come since.
LEMMA Cells ==
  ASSUME NEW b \in Seq(Rest), NEW r \in Seq(Sync!Requests)
  PROVE  /\ b \o r \in Seq(Sync!Lines \cup {"junk"})
         /\ Sync!FirstLine(b \o r) = 0 => r = << >>
         /\ r = << >> => b \o r = b
         /\ b = << >> => b \o r = r
         /\ b = << >> /\ r = << >> => Sync!FirstLine(b \o r) = 0
         /\ Sync!FirstLine(b \o r) # 0 =>
              /\ Sync!Message(b \o r) \in Sync!Lines
              /\ Sync!Message(b \o r) \in Sync!Requests => b = << >> /\ r # << >>
         /\ b = << >> /\ r # << >> => Sync!Message(b \o r) \in Sync!Requests
         /\ b = << >> /\ r # << >> /\ Len(r) <= 1 => Sync!Leftover(b \o r) = {<< >>}
         /\ Sync!Leftover(b \o r) \subseteq Seq(Rest)
  <1> DEFINE q == b \o r
  <1> USE DEF Rest, Sync!Requests, Sync!Lines
  <1>1. /\ Len(b) \in Nat /\ Len(r) \in Nat
        /\ (b = << >> <=> Len(b) = 0) /\ (r = << >> <=> Len(r) = 0)
        /\ \A a \in 1 .. Len(b) : b[a] \in Rest
        /\ \A a \in 1 .. Len(r) : r[a] \in Sync!Requests
    BY LenProperties, EmptySeq, ElementOfSeq
  <1>2. /\ b \in Seq(Sync!Lines \cup {"junk"}) /\ r \in Seq(Sync!Lines \cup {"junk"})
    BY SeqMonotonic
  <1>3. /\ q \in Seq(Sync!Lines \cup {"junk"}) /\ Len(q) = Len(b) + Len(r)
        /\ \A a \in 1 .. Len(b) + Len(r) : q[a] = IF a <= Len(b) THEN b[a] ELSE r[a - Len(b)]
    BY <1>2, ConcatProperties
  <1>4. (r = << >> => q = b) /\ (b = << >> => q = r)
    BY ConcatEmptySeq
  <1> HIDE DEF q
  <1>5. /\ Sync!FirstLine(q) \in 0 .. Len(q)
        /\ Sync!FirstLine(q) = 0 <=> \A a \in 1 .. Len(q) : q[a] \notin Sync!Lines
        /\ Sync!FirstLine(q) = 1 <=> q # << >> /\ q[1] \in Sync!Lines
    BY <1>3, LineFound
  <1>6. Sync!FirstLine(q) = 0 => r = << >>
    <2> SUFFICES ASSUME r # << >> PROVE \E a \in 1 .. Len(q) : q[a] \in Sync!Lines
      BY <1>5
    <2>1. /\ Len(b) + 1 \in 1 .. Len(q) /\ (Len(b) + 1) - Len(b) = 1
          /\ ~ Len(b) + 1 <= Len(b) /\ 1 \in 1 .. Len(r)
      BY <1>1, <1>3
    <2>2. q[Len(b) + 1] = r[1]
      BY <2>1, <1>1, <1>3
    <2> QED
      BY <2>1, <2>2, <1>1
  <1>7. ASSUME Sync!FirstLine(q) # 0 PROVE Sync!Message(q) \in Sync!Lines
    BY <1>5, HeadTailProperties, <1>3 DEF Sync!Message
  <1>8. ASSUME Sync!Message(q) \in Sync!Requests PROVE b = << >> /\ r # << >>
    <2>1. Sync!FirstLine(q) = 1 /\ Head(q) \in Sync!Requests
      BY <1>8 DEF Sync!Message
    <2>2. q # << >> /\ Head(q) = q[1] /\ Len(q) > 0
      BY <2>1, <1>3, <1>5, HeadTailProperties, EmptySeq
    <2>3. b = << >>
      <3> SUFFICES ASSUME Len(b) > 0 PROVE FALSE
        BY <1>1
      <3>1. q[1] = b[1] /\ b[1] \in Rest
        BY <1>1, <1>3
      <3> QED
        BY <2>1, <2>2, <3>1
    <2> QED
      BY <2>2, <2>3, <1>4, <1>1
  <1>9. ASSUME b = << >>, r # << >>
        PROVE  Sync!Message(q) \in Sync!Requests /\ Sync!FirstLine(q) = 1
    <2>1. q = r /\ Head(r) = r[1] /\ r[1] \in Sync!Requests
      BY <1>1, <1>4, <1>9, HeadTailProperties
    <2>2. Sync!FirstLine(q) = 1
      BY <1>5, <1>9, <2>1
    <2> QED
      BY <2>1, <2>2 DEF Sync!Message
  <1>10. ASSUME b = << >>, r # << >>, Len(r) <= 1 PROVE Sync!Leftover(q) = {<< >>}
    <2>1. Len(q) - Sync!FirstLine(q) = 0
      <3>1. Len(r) = 1 /\ q = r
        <4>1. Len(r) # 0 /\ Len(r) \in Nat
          BY <1>1, <1>10
        <4>2. Len(r) = 1
          <5> DEFINE n == Len(r)
          <5> SUFFICES ASSUME n \in Nat, n # 0, n <= 1 PROVE n = 1
            BY <4>1, <1>10
          <5> HIDE DEF n
          <5> QED
            OBVIOUS
        <4>3. q = r
          BY <1>4, <1>10, Zenon
        <4> QED
          BY <4>2, <4>3
      <3> QED
        BY <3>1, <1>9, <1>10
    <2>2. Sync!Leftover(q) = [1 .. 0 -> Rest]
      BY <2>1 DEF Sync!Leftover
    <2>3. ASSUME NEW f \in [1 .. 0 -> Rest] PROVE f = << >>
      <3>1. f \in Seq(Rest) /\ DOMAIN f = 1 .. 0
        BY SeqDef
      <3>2. Len(f) = 0
        BY <3>1, LenProperties
      <3> QED
        BY <3>1, <3>2, EmptySeq
    <2>4. << >> \in [1 .. 0 -> Rest]
      BY EmptySeq, LenProperties
    <2> QED
      BY <2>2, <2>3, <2>4
  <1>11. Sync!Leftover(q) \subseteq Seq(Rest)
    <2>1. Len(q) - Sync!FirstLine(q) \in Nat
      BY <1>1, <1>3, <1>5
    <2> QED
      BY <2>1, SeqDef DEF Sync!Leftover
  <1>12. b = << >> /\ r = << >> => Sync!FirstLine(q) = 0
    BY <1>1, <1>3, <1>5
  <1> QED
    BY <1>3, <1>4, <1>6, <1>7, <1>8, <1>9, <1>10, <1>11, <1>12 DEF q

SyncTypes ==
  /\ inbox \in [Sync!Clients -> Seq(Sync!Requests)]
  /\ sbuff \in [Sync!Clients -> Seq(Rest) \cup {Sync!Wild}]
  /\ answers \in [Sync!Clients -> Seq(AnswerLines)]
  /\ age \in [Sync!Clients -> Nat] /\ delay \in [Sync!Clients -> Nat]
  /\ open \in [Sync!Clients -> BOOLEAN] /\ changed \in [AsyncPeers -> BOOLEAN]
  /\ chat \in [Sync!Clients -> Places] /\ username \subseteq Sync!Clients

\* Where a client is that has not let too much time pass: an async_client has
\* either a request under way or at most one answer to read.
Living(c) ==
  /\ chat[c] # "ended" /\ delay[c] <= Timeout
  /\ chat[c] \in {"off", "connect", "login"} => inbox[c] = << >> /\ c \notin username
  /\ c \in AsyncPeers =>
       /\ chat[c] # "loop"
       /\ chat[c] # "read" => inbox[c] = << >> /\ answers[c] = << >>
       /\ Len(inbox[c]) <= 1 /\ Len(answers[c]) <= 1
       /\ inbox[c] # << >> => answers[c] = << >>
  /\ c \in SyncPeers => chat[c] \notin {"read", "postponed"}

\* And after its login was handled: the server's buffer holds no part of a
\* request of an async_client, and what time may still pass is counted.
Kept(c) ==
  /\ open[c] /\ age[c] <= Timeout
  /\ c \in AsyncPeers => sbuff[c] = << >>
  /\ chat[c] \in {"postponed", "loop"} /\ inbox[c] = << >> => age[c] + delay[c] <= Timeout
  /\ chat[c] = "read" => inbox[c] # << >> \/ (answers[c] # << >> /\ age[c] = 0)

SyncInv == /\ SyncTypes
           /\ \A c \in Sync!Clients : c \notin slow =>
                Living(c) /\ (c \in username /\ hpc # "crashed" => Kept(c))

LEMMA SyncInit == ASSUME NEW on \in BOOLEAN PROVE Sync!Launched(on) => SyncInv
  <1> SUFFICES ASSUME Sync!Launched(on) PROVE SyncInv
    OBVIOUS
  <1>1. SyncTypes
    <2>1. << >> \in Seq(Sync!Requests) /\ << >> \in Seq(AnswerLines) /\ << >> \in Seq(Rest)
      BY EmptySeq
    <2>2. <<"junk">> \in Seq(Rest) /\ <<"noise">> \in Seq(Rest)
      BY DEF Rest
    <2>3. Sync!Uninitialised \subseteq Seq(Rest) \cup {Sync!Wild}
      BY <2>1, <2>2 DEF Sync!Uninitialised
    <2>4. sbuff \in [Sync!Clients -> Seq(Rest) \cup {Sync!Wild}]
      BY <2>1, <2>3 DEF Sync!Launched
    <2>5. changed \in [AsyncPeers -> BOOLEAN]
      BY DEF Sync!Launched
    <2> QED
      BY <2>1, <2>4, <2>5, NetAssumption DEF SyncTypes, Sync!Launched, Sync!NotADate, Places
  <1>2. ASSUME NEW c \in Sync!Clients PROVE Living(c)
    <2>1. /\ chat[c] \in {"off", "connect"} /\ delay[c] = 0 /\ username = {}
          /\ inbox[c] = << >> /\ answers[c] = << >> /\ Len(<< >>) = 0
      BY EmptySeq DEF Sync!Launched
    <2> QED
      BY <2>1, NetAssumption DEF Living
  <1>3. username = {}
    BY DEF Sync!Launched
  <1> QED
    BY <1>1, <1>2, <1>3 DEF SyncInv

LEMMA SyncStays == SyncInv /\ UNCHANGED svars => SyncInv'
  BY DEF SyncInv, SyncTypes, Living, Kept, svars
-----------------------------------------------------------------------------

\* The clients' steps: whoever is not concerned stays as it is.
LEMMA Apart ==
  ASSUME SyncInv, SyncTypes', NEW c \in Sync!Clients, c \notin slow',
         slow \subseteq slow', username' = username, hpc' = hpc,
         chat'[c] = chat[c], delay'[c] = delay[c], inbox'[c] = inbox[c], sbuff'[c] = sbuff[c],
         answers'[c] = answers[c], open'[c] = open[c], age'[c] = age[c]
  PROVE  Living(c)' /\ (c \in username' /\ hpc' # "crashed" => Kept(c)')
  BY DEF SyncInv, Living, Kept

\* A request is written.
LEMMA Written ==
  ASSUME SyncTypes, NEW c \in Sync!Clients, NEW m \in Sync!Requests, Sync!Write(c, m)
  PROVE  /\ inbox' \in [Sync!Clients -> Seq(Sync!Requests)]
         /\ \A d \in Sync!Clients : d # c => inbox'[d] = inbox[d]
         /\ open[c] => inbox'[c] # << >>
         /\ inbox[c] = << >> => Len(inbox'[c]) <= 1
  <1>1. inbox[c] \in Seq(Sync!Requests)
    BY DEF SyncTypes
  <1>2. inbox' = [inbox EXCEPT ![c] = IF open[c] THEN Append(inbox[c], m) ELSE inbox[c]]
    BY DEF Sync!Write
  <1>3. /\ Append(inbox[c], m) \in Seq(Sync!Requests)
        /\ Append(inbox[c], m) # << >>
        /\ Len(Append(inbox[c], m)) = Len(inbox[c]) + 1
    BY <1>1, AppendProperties
  <1>4. Len(inbox[c]) \in Nat /\ (inbox[c] = << >> => Len(inbox[c]) = 0)
    BY <1>1, LenProperties, EmptySeq
  <1>5. inbox'[c] = IF open[c] THEN Append(inbox[c], m) ELSE inbox[c]
    BY <1>2 DEF SyncTypes
  <1>6. inbox' \in [Sync!Clients -> Seq(Sync!Requests)]
    BY <1>1, <1>2, <1>3 DEF SyncTypes
  <1>7. \A d \in Sync!Clients : d # c => inbox'[d] = inbox[d]
    BY <1>2 DEF SyncTypes
  <1> QED
    BY <1>3, <1>4, <1>5, <1>6, <1>7

LEMMA SyncConnect == ASSUME NEW c \in Sync!Clients PROVE SyncInv /\ Sync!Connect(c) => SyncInv'
  <1> SUFFICES ASSUME SyncInv, Sync!Connect(c) PROVE SyncInv'
    OBVIOUS
  <1>1. SyncTypes'
    <2>1. CASE hpc # "crashed"
      BY <2>1 DEF SyncInv, SyncTypes, Sync!Connect, Places
    <2>2. CASE hpc = "crashed"
      <3>1. /\ chat' = [chat EXCEPT ![c] = "ended"] /\ delay' = [delay EXCEPT ![c] = 0]
            /\ UNCHANGED <<sbuff, age, changed, username, inbox, open, answers>>
        BY <2>2 DEF Sync!Connect, Sync!Ended
      <3> QED
        BY <3>1 DEF SyncInv, SyncTypes, Places
    <2> QED
      BY <2>1, <2>2
  <1>2. slow \subseteq slow' /\ username' = username /\ hpc' = hpc
    BY DEF Sync!Connect, Sync!Ended
  <1>3. ASSUME NEW d \in Sync!Clients, d # c, d \notin slow'
        PROVE  Living(d)' /\ (d \in username' /\ hpc' # "crashed" => Kept(d)')
    BY <1>1, <1>2, <1>3, Apart DEF SyncInv, SyncTypes, Sync!Connect, Sync!Ended
  <1>4. ASSUME c \notin slow' PROVE Living(c)' /\ c \notin username'
    BY <1>2, <1>4 DEF SyncInv, SyncTypes, Living, Sync!Connect, Sync!Ended
  <1> QED
    BY <1>1, <1>3, <1>4 DEF SyncInv

LEMMA SyncAsk ==
  ASSUME NEW c \in Sync!Clients
  PROVE  SyncInv /\ (Sync!AsyncLogin(c) \/ Sync!DoPing(c)) => SyncInv'
  <1> SUFFICES ASSUME SyncInv, Sync!AsyncLogin(c) \/ Sync!DoPing(c) PROVE SyncInv'
    OBVIOUS
  <1>1. /\ c \in AsyncPeers /\ chat[c] \in {"login", "postponed"}
        /\ chat' = [chat EXCEPT ![c] = "read"]
        /\ UNCHANGED <<sbuff, age, changed, username, hpc, delay, slow, open, answers>>
        /\ \E m \in Sync!Requests : Sync!Write(c, m)
    BY DEF Sync!AsyncLogin, Sync!DoPing, Sync!Ask, Sync!server, Sync!Requests
  <1>2. /\ inbox' \in [Sync!Clients -> Seq(Sync!Requests)]
        /\ \A d \in Sync!Clients : d # c => inbox'[d] = inbox[d]
        /\ open[c] => inbox'[c] # << >>
        /\ inbox[c] = << >> => Len(inbox'[c]) <= 1
    BY <1>1, Written DEF SyncInv
  <1>3. SyncTypes'
    BY <1>1, <1>2 DEF SyncInv, SyncTypes, Places
  <1>4. ASSUME NEW d \in Sync!Clients, d # c, d \notin slow'
        PROVE  Living(d)' /\ (d \in username' /\ hpc' # "crashed" => Kept(d)')
    BY <1>1, <1>2, <1>3, <1>4, Apart DEF SyncInv, SyncTypes
  <1>5. ASSUME c \notin slow'
        PROVE  Living(c)' /\ (c \in username' /\ hpc' # "crashed" => Kept(c)')
    <2>1. chat'[c] = "read"
      BY <1>1 DEF SyncInv, SyncTypes
    <2> QED
      BY <1>1, <1>2, <1>5, <2>1, NetAssumption DEF SyncInv, Living, Kept
  <1> QED
    BY <1>3, <1>4, <1>5 DEF SyncInv
\* An answer is read; with nothing left to do the client waits.
LEMMA SyncOnRead == ASSUME NEW c \in Sync!Clients PROVE SyncInv /\ Sync!OnRead(c) => SyncInv'
  <1> SUFFICES ASSUME SyncInv, Sync!OnRead(c) PROVE SyncInv'
    OBVIOUS
  <1>1. /\ c \in AsyncPeers /\ chat[c] = "read" /\ answers[c] # << >>
        /\ answers' = [answers EXCEPT ![c] = Tail(answers[c])]
        /\ UNCHANGED <<sbuff, age, changed, username, hpc, open>>
    BY DEF Sync!OnRead, Sync!server
  <1>2. /\ answers[c] \in Seq(AnswerLines) /\ Tail(answers[c]) \in Seq(AnswerLines)
        /\ Len(answers[c]) \in Nat /\ Len(Tail(answers[c])) = Len(answers[c]) - 1
        /\ Len(Tail(answers[c])) = 0 => Tail(answers[c]) = << >>
    <2>1. answers[c] \in Seq(AnswerLines)
      BY DEF SyncInv, SyncTypes
    <2> QED
      BY <1>1, <2>1, HeadTailProperties, LenProperties, EmptySeq
  <1>3. answers' \in [Sync!Clients -> Seq(AnswerLines)]
        /\ answers'[c] = Tail(answers[c])
        /\ \A d \in Sync!Clients : d # c => answers'[d] = answers[d]
    BY <1>1, <1>2 DEF SyncInv, SyncTypes
  <1>4. CASE Sync!Ask(c, "ask_clients")
    <2>1. /\ inbox' \in [Sync!Clients -> Seq(Sync!Requests)]
          /\ \A d \in Sync!Clients : d # c => inbox'[d] = inbox[d]
          /\ open[c] => inbox'[c] # << >>
          /\ inbox[c] = << >> => Len(inbox'[c]) <= 1
      BY <1>4, Written DEF SyncInv, Sync!Ask, Sync!Requests
    <2>2. chat' = [chat EXCEPT ![c] = "read"] /\ UNCHANGED <<delay, slow>>
      BY <1>4 DEF Sync!Ask
    <2>3. SyncTypes'
      BY <1>1, <1>3, <2>1, <2>2 DEF SyncInv, SyncTypes, Places
    <2>4. ASSUME NEW d \in Sync!Clients, d # c, d \notin slow'
          PROVE  Living(d)' /\ (d \in username' /\ hpc' # "crashed" => Kept(d)')
      BY <1>1, <1>3, <2>1, <2>2, <2>3, <2>4, Apart DEF SyncInv, SyncTypes
    <2>5. ASSUME c \notin slow'
          PROVE  Living(c)' /\ (c \in username' /\ hpc' # "crashed" => Kept(c)')
      <3>1. chat'[c] = "read" /\ c \notin slow
        BY <2>2, <2>5 DEF SyncInv, SyncTypes
      <3>2. answers'[c] = << >> /\ inbox[c] = << >> /\ Len(answers'[c]) = 0
        BY <3>1, <1>1, <1>2, <1>3 DEF SyncInv, Living
      <3>3. Living(c)'
        BY <3>1, <3>2, <1>1, <2>1, <2>2, <2>5, NetAssumption DEF SyncInv, Living
      <3>4. ASSUME c \in username', hpc' # "crashed" PROVE Kept(c)'
        BY <3>1, <3>4, <1>1, <2>1, <2>2, <2>5 DEF SyncInv, Kept
      <3> QED
        BY <3>3, <3>4
    <2> QED
      BY <2>3, <2>4, <2>5 DEF SyncInv
  <1>5. CASE Sync!Postpone(c, "postponed") /\ UNCHANGED inbox
    <2>1. PICK t \in Delays : /\ delay' = [delay EXCEPT ![c] = t]
                              /\ slow' = IF t > Timeout THEN slow \cup {c} ELSE slow
                              /\ chat' = [chat EXCEPT ![c] = "postponed"]
      BY <1>5 DEF Sync!Postpone
    <2>2. t \in Nat /\ Timeout \in Nat
      BY NetAssumption
    <2>3. SyncTypes'
      BY <1>1, <1>3, <1>5, <2>1, <2>2 DEF SyncInv, SyncTypes, Places
    <2>4. ASSUME NEW d \in Sync!Clients, d # c, d \notin slow'
          PROVE  Living(d)' /\ (d \in username' /\ hpc' # "crashed" => Kept(d)')
      <3>1. d \notin slow /\ slow \subseteq slow'
        BY <2>1, <2>4
      <3> QED
        BY <3>1, <1>1, <1>3, <1>5, <2>1, <2>3, <2>4, Apart DEF SyncInv, SyncTypes
    <2>5. ASSUME c \notin slow'
          PROVE  Living(c)' /\ (c \in username' /\ hpc' # "crashed" => Kept(c)')
      <3>1. chat'[c] = "postponed" /\ c \notin slow /\ t <= Timeout /\ delay'[c] = t
        BY <2>1, <2>2, <2>5 DEF SyncInv, SyncTypes
      <3>2. answers'[c] = << >> /\ inbox'[c] = << >> /\ Len(<< >>) = 0
        BY <3>1, <1>1, <1>2, <1>3, <1>5, EmptySeq DEF SyncInv, Living
      <3>3. Living(c)'
        BY <3>1, <3>2, <1>1, NetAssumption DEF SyncInv, Living
      <3>4. ASSUME c \in username', hpc' # "crashed" PROVE Kept(c)'
        <4>1. Kept(c) /\ inbox[c] = << >>
          BY <3>1, <3>2, <3>4, <1>1, <1>5 DEF SyncInv
        <4>2. age'[c] = 0
          BY <4>1, <1>1 DEF Kept
        <4> QED
          BY <4>1, <4>2, <3>1, <1>1, <2>2 DEF Kept
      <3> QED
        BY <3>3, <3>4
    <2> QED
      BY <2>3, <2>4, <2>5 DEF SyncInv
  <1> QED
    BY <1>4, <1>5 DEF Sync!OnRead

\* Whoever ends is among the slow.
LEMMA SyncEnd ==
  ASSUME NEW c \in Sync!Clients
  PROVE  SyncInv /\ (Sync!OnReadError(c) \/ Sync!Leave(c)) => SyncInv'
  <1> SUFFICES ASSUME SyncInv, Sync!OnReadError(c) \/ Sync!Leave(c) PROVE SyncInv'
    OBVIOUS
  <1>1. /\ chat' = [chat EXCEPT ![c] = "ended"] /\ delay' = [delay EXCEPT ![c] = 0]
        /\ slow' = slow \cup {c}
        /\ answers' = answers \/ answers' = [answers EXCEPT ![c] = << >>]
        /\ UNCHANGED <<sbuff, age, changed, username, hpc, inbox, open>>
    BY DEF Sync!OnReadError, Sync!Leave, Sync!Ended, Sync!server
  <1>2. SyncTypes'
    <2>1. answers' \in [Sync!Clients -> Seq(AnswerLines)]
      BY <1>1, EmptySeq DEF SyncInv, SyncTypes
    <2> QED
      BY <1>1, <2>1 DEF SyncInv, SyncTypes, Places
  <1>3. ASSUME NEW d \in Sync!Clients, d \notin slow'
        PROVE  Living(d)' /\ (d \in username' /\ hpc' # "crashed" => Kept(d)')
    <2>1. d # c /\ d \notin slow
      BY <1>1, <1>3
    <2> QED
      BY <1>1, <1>2, <1>3, <2>1, Apart DEF SyncInv, SyncTypes
  <1> QED
    BY <1>2, <1>3 DEF SyncInv

\* A sync_client writes one request after the other.
LEMMA SyncLoop == ASSUME NEW c \in Sync!Clients PROVE SyncInv /\ Sync!Loop(c) => SyncInv'
  <1> SUFFICES ASSUME SyncInv, Sync!Loop(c) PROVE SyncInv'
    OBVIOUS
  <1>1. /\ c \in SyncPeers /\ c \notin AsyncPeers /\ delay[c] = 0
        /\ UNCHANGED <<sbuff, age, changed, username, hpc, open, answers>>
    BY NetAssumption DEF Sync!Loop, Sync!server
  <1>2. CASE ~open[c] /\ Sync!Ended(c) /\ UNCHANGED <<inbox, answers>>
    <2>1. /\ chat' = [chat EXCEPT ![c] = "ended"] /\ delay' = [delay EXCEPT ![c] = 0]
          /\ slow' = slow \cup {c}
      BY <1>2 DEF Sync!Ended
    <2>2. SyncTypes'
      BY <1>1, <1>2, <2>1 DEF SyncInv, SyncTypes, Places
    <2>3. ASSUME NEW d \in Sync!Clients, d \notin slow'
          PROVE  Living(d)' /\ (d \in username' /\ hpc' # "crashed" => Kept(d)')
      <3>1. d # c /\ d \notin slow
        BY <2>1, <2>3
      <3> QED
        BY <1>1, <1>2, <2>1, <2>2, <2>3, <3>1, Apart DEF SyncInv, SyncTypes
    <2> QED
      BY <2>2, <2>3 DEF SyncInv
  <1>3. CASE ~ (~open[c] /\ Sync!Ended(c) /\ UNCHANGED <<inbox, answers>>)
    <2>1. /\ \E m \in Sync!Requests : Sync!Write(c, m)
          /\ chat' = [chat EXCEPT ![c] = "loop"]
          /\ \/ chat[c] = "login" /\ UNCHANGED <<delay, slow>>
             \/ /\ chat[c] = "loop"
                /\ \E t \in Delays : /\ delay' = [delay EXCEPT ![c] = t]
                                     /\ slow' = IF t > Timeout THEN slow \cup {c} ELSE slow
      BY <1>3 DEF Sync!Loop, Sync!Postpone, Sync!Requests
    <2>2. /\ inbox' \in [Sync!Clients -> Seq(Sync!Requests)]
          /\ \A d \in Sync!Clients : d # c => inbox'[d] = inbox[d]
          /\ open[c] => inbox'[c] # << >>
      BY <2>1, Written DEF SyncInv
    <2>3. /\ delay' \in [Sync!Clients -> Nat] /\ slow \subseteq slow'
          /\ \A d \in Sync!Clients : d # c => delay'[d] = delay[d]
          /\ c \notin slow' => delay'[c] <= Timeout
      <3>1. delay \in [Sync!Clients -> Nat] /\ Delays \subseteq Nat /\ Timeout \in Nat
        BY NetAssumption DEF SyncInv, SyncTypes
      <3>2. CASE UNCHANGED <<delay, slow>>
        BY <1>1, <3>1, <3>2
      <3>3. CASE \E t \in Delays : /\ delay' = [delay EXCEPT ![c] = t]
                                   /\ slow' = IF t > Timeout THEN slow \cup {c} ELSE slow
        BY <3>1, <3>3
      <3> QED
        BY <2>1, <3>2, <3>3
    <2>4. SyncTypes'
      BY <1>1, <2>1, <2>2, <2>3 DEF SyncInv, SyncTypes, Places
    <2>5. ASSUME NEW d \in Sync!Clients, d # c, d \notin slow'
          PROVE  Living(d)' /\ (d \in username' /\ hpc' # "crashed" => Kept(d)')
      BY <1>1, <2>1, <2>2, <2>3, <2>4, <2>5, Apart DEF SyncInv, SyncTypes
    <2>6. ASSUME c \notin slow'
          PROVE  Living(c)' /\ (c \in username' /\ hpc' # "crashed" => Kept(c)')
      <3>1. chat'[c] = "loop" /\ c \notin slow
        BY <2>1, <2>3, <2>6 DEF SyncInv, SyncTypes
      <3>2. Living(c)'
        BY <3>1, <1>1, <2>3, <2>6 DEF Living
      <3>3. ASSUME c \in username', hpc' # "crashed" PROVE Kept(c)'
        <4>1. Kept(c)
          BY <3>1, <3>3, <1>1 DEF SyncInv
        <4> QED
          BY <4>1, <3>1, <1>1, <2>2 DEF Kept
      <3> QED
        BY <3>2, <3>3
    <2> QED
      BY <2>4, <2>5, <2>6 DEF SyncInv
  <1> QED
    BY <1>2, <1>3

\* Time passes for those who wait; what they count down is added to their age.
LEMMA SyncTick == SyncInv /\ Sync!Tick => SyncInv'
  <1> SUFFICES ASSUME SyncInv, Sync!Tick PROVE SyncInv'
    OBVIOUS
  <1>1. /\ \A c \in Sync!Clients : ~ Sync!Busy(c)
        /\ age' = [c \in Sync!Clients |-> IF age[c] > Timeout THEN Timeout + 1 ELSE age[c] + 1]
        /\ delay' = [c \in Sync!Clients |-> IF delay[c] = 0 THEN 0 ELSE delay[c] - 1]
        /\ UNCHANGED <<hpc, sbuff, changed, username, chat, slow, inbox, open, answers>>
    BY DEF Sync!Tick, Sync!NotADate
  <1>2. SyncTypes'
    <2>1. age' \in [Sync!Clients -> Nat] /\ delay' \in [Sync!Clients -> Nat]
      BY <1>1, NetAssumption DEF SyncInv, SyncTypes
    <2> QED
      BY <1>1, <2>1 DEF SyncInv, SyncTypes
  <1>3. ASSUME NEW c \in Sync!Clients, c \notin slow'
        PROVE  Living(c)' /\ (c \in username' /\ hpc' # "crashed" => Kept(c)')
    <2>1. /\ c \notin slow /\ Living(c) /\ (c \in username /\ hpc # "crashed" => Kept(c))
          /\ age[c] \in Nat /\ delay[c] \in Nat /\ Timeout \in Nat /\ chat[c] \in Places
      BY <1>1, <1>3, NetAssumption DEF SyncInv, SyncTypes
    <2>2. /\ age'[c] = IF age[c] > Timeout THEN Timeout + 1 ELSE age[c] + 1
          /\ delay'[c] = IF delay[c] = 0 THEN 0 ELSE delay[c] - 1
      BY <1>1
    <2>3. delay'[c] <= delay[c]
      BY <2>1, <2>2
    <2>4. Living(c)'
      BY <1>1, <2>1, <2>2 DEF Living
    <2>5. ASSUME c \in username', hpc' # "crashed" PROVE Kept(c)'
      <3>1. Kept(c)
        BY <1>1, <2>1, <2>5
      <3>2. inbox[c] = << >> /\ chat[c] \in {"postponed", "loop"} /\ delay[c] # 0
        BY <1>1, <2>1, <2>5, <3>1 DEF Kept, Living, Sync!Busy, Places
      <3>3. age'[c] <= Timeout /\ age'[c] + delay'[c] <= Timeout
        BY <2>1, <2>2, <3>1, <3>2 DEF Kept
      <3> QED
        BY <1>1, <3>1, <3>2, <3>3 DEF Kept
    <2> QED
      BY <2>4, <2>5
  <1> QED
    BY <1>2, <1>3 DEF SyncInv

\* Who is left when objects are destroyed: who is not among them.
LEMMA SyncDestroyed ==
  ASSUME SyncInv, NEW S, Sync!Destroyed(S),
         \A c \in S : c \in username /\ c \notin slow => hpc' = "crashed" \/ age[c] > Timeout,
         hpc' = "crashed" \/ hpc # "crashed",
         UNCHANGED <<changed, username, chat, delay, slow, answers>>
  PROVE  SyncInv'
  <1>1. /\ open' = [c \in Sync!Clients |-> open[c] /\ c \notin S]
        /\ sbuff' = [c \in Sync!Clients |-> IF c \in S THEN << >> ELSE sbuff[c]]
        /\ inbox' = [c \in Sync!Clients |-> IF c \in S THEN << >> ELSE inbox[c]]
        /\ age' = [c \in Sync!Clients |-> IF c \in S THEN Timeout + 1 ELSE age[c]]
    BY DEF Sync!Destroyed, Sync!NotADate
  <1>2. SyncTypes'
    <2>1. << >> \in Seq(Sync!Requests) /\ << >> \in Seq(Rest)
      BY EmptySeq
    <2> QED
      BY <1>1, <2>1, NetAssumption DEF SyncInv, SyncTypes
  <1>3. ASSUME NEW c \in Sync!Clients, c \notin slow'
        PROVE  Living(c)' /\ (c \in username' /\ hpc' # "crashed" => Kept(c)')
    <2>1. Living(c) /\ c \notin slow /\ (c \in username /\ hpc # "crashed" => Kept(c))
      BY <1>3 DEF SyncInv
    <2>2. Living(c)'
      <3>1. inbox'[c] = inbox[c] \/ (inbox'[c] = << >> /\ Len(inbox'[c]) = 0)
        BY <1>1, EmptySeq
      <3> QED
        BY <2>1, <3>1 DEF Living
    <2>3. ASSUME c \in username', hpc' # "crashed" PROVE Kept(c)'
      <3>1. Kept(c) /\ age[c] <= Timeout
        BY <2>1, <2>3 DEF Kept
      <3>2. c \notin S
        <4>1. age[c] \in Nat /\ Timeout \in Nat
          BY NetAssumption DEF SyncInv, SyncTypes
        <4> QED
          BY <2>1, <2>3, <3>1, <4>1
      <3> QED
        BY <1>1, <3>1, <3>2 DEF Kept
    <2> QED
      BY <2>2, <2>3
  <1> QED
    BY <1>2, <1>3 DEF SyncInv

\* on_login(), on_ping() and on_clients() write at most one answer.
LEMMA AnswerLine ==
  ASSUME SyncTypes, NEW c, NEW m \in Sync!Lines
  PROVE  /\ Sync!Answer(c, m) \in Seq(AnswerLines) /\ Len(Sync!Answer(c, m)) <= 1
         /\ m = "noise" => Sync!Answer(c, m) = << >>
         /\ c \in AsyncPeers /\ chat[c] # "ended" /\ m \in Sync!Requests => Sync!Answer(c, m) # << >>
  <1>1. /\ << >> \in Seq(AnswerLines) /\ Len(<< >>) = 0
        /\ \A l \in AnswerLines : <<l>> \in Seq(AnswerLines) /\ Len(<<l>>) = 1 /\ <<l>> # << >>
    BY EmptySeq
  <1>2. CASE c \notin AsyncPeers \/ chat[c] = "ended" \/ m = "noise"
    <2>1. CASE c \notin AsyncPeers \/ chat[c] = "ended"
      <3>1. Sync!Answer(c, m) = << >>
        BY <2>1 DEF Sync!Answer
      <3> QED
        BY <3>1, <1>1, <2>1
    <2>2. CASE m = "noise" /\ ~ (c \notin AsyncPeers \/ chat[c] = "ended")
      <3>1. Sync!Answer(c, m) = << >>
        BY <2>2 DEF Sync!Answer
      <3> QED
        BY <3>1, <1>1, <2>2 DEF Sync!Requests
    <2> QED
      BY <1>2, <2>1, <2>2
  <1>3. CASE c \in AsyncPeers /\ chat[c] # "ended" /\ m # "noise"
    <2>1. changed[c] \in BOOLEAN
      BY <1>3 DEF SyncTypes
    <2>2. m = "login" => Sync!Answer(c, m) = <<"login ok">>
      BY <1>3 DEF Sync!Answer
    <2>3. m = "ping" => Sync!Answer(c, m) = <<"ping ok">>
                        \/ Sync!Answer(c, m) = <<"ping client_list_changed">>
      BY <1>3, <2>1 DEF Sync!Answer
    <2>4. m = "ask_clients" => Sync!Answer(c, m) = <<"clients">>
      BY <1>3 DEF Sync!Answer
    <2>5. m \in Sync!Requests
      BY <1>3 DEF Sync!Lines
    <2>6. \E l \in AnswerLines : Sync!Answer(c, m) = <<l>>
      BY <2>2, <2>3, <2>4, <2>5 DEF Sync!Requests, AnswerLines
    <2> QED
      BY <1>1, <1>3, <2>6
  <1> QED
    BY <1>2, <1>3

\* A client's state after a pass of the loop over it, and everybody else's.
LEMMA SyncPass ==
  ASSUME SyncInv, NEW c \in Sync!Clients, sbuff[c] # Sync!Wild, open[c],
         inbox' = [inbox EXCEPT ![c] = << >>],
         Sync!ReadOnly(c, sbuff[c] \o inbox[c]) \/ Sync!Process(c, sbuff[c] \o inbox[c]),
         UNCHANGED <<hpc, chat, delay, slow>>
  PROVE  SyncInv'
  <1> DEFINE b == sbuff[c]
             r == inbox[c]
             q == b \o r
             m == Sync!Message(q)
  <1>1. /\ b \in Seq(Rest) /\ r \in Seq(Sync!Requests) /\ age[c] \in Nat /\ Timeout \in Nat
        /\ Len(r) \in Nat /\ (Len(r) = 0 <=> r = << >>) /\ delay[c] \in Nat
        /\ << >> \in Seq(Sync!Requests) /\ Len(<< >>) = 0
    <2>1. b \in Seq(Rest) /\ r \in Seq(Sync!Requests)
      BY DEF SyncInv, SyncTypes
    <2>2. age[c] \in Nat /\ Timeout \in Nat /\ delay[c] \in Nat
      BY NetAssumption DEF SyncInv, SyncTypes
    <2>3. Len(r) \in Nat /\ (Len(r) = 0 <=> r = << >>)
      BY <2>1, LenProperties, EmptySeq
    <2>4. << >> \in Seq(Sync!Requests) /\ Len(<< >>) = 0
      BY EmptySeq
    <2> QED
      BY <2>1, <2>2, <2>3, <2>4
  <1>2. /\ Sync!FirstLine(q) = 0 => r = << >>
        /\ r = << >> => q = b
        /\ b = << >> /\ r = << >> => Sync!FirstLine(q) = 0
        /\ Sync!FirstLine(q) # 0 =>
             m \in Sync!Lines /\ (m \in Sync!Requests => b = << >> /\ r # << >>)
        /\ b = << >> /\ r # << >> => m \in Sync!Requests
        /\ b = << >> /\ r # << >> /\ Len(r) <= 1 => Sync!Leftover(q) = {<< >>}
        /\ Sync!Leftover(q) \subseteq Seq(Rest)
    BY <1>1, Cells
  <1>3. inbox' \in [Sync!Clients -> Seq(Sync!Requests)] /\ inbox'[c] = << >>
        /\ \A d \in Sync!Clients : d # c => inbox'[d] = inbox[d]
    BY <1>1 DEF SyncInv, SyncTypes
  <1>4. Living(c) \/ c \in slow
    BY DEF SyncInv
  <1>5. c \notin slow /\ c \in username /\ hpc # "crashed" => Kept(c)
    BY DEF SyncInv
  <1> HIDE DEF b, r, q, m
  <1>6. CASE Sync!ReadOnly(c, q)
    <2>1. /\ Sync!FirstLine(q) = 0 /\ sbuff' = [sbuff EXCEPT ![c] = q]
          /\ open' = [open EXCEPT ![c] = ~ Sync!TimedOut(age[c])]
          /\ UNCHANGED <<age, changed, username, answers>>
      BY <1>6 DEF Sync!ReadOnly
    <2>2. q = b /\ r = << >> /\ sbuff' = sbuff
      BY <2>1, <1>2 DEF b, SyncInv, SyncTypes
    <2>3. SyncTypes'
      BY <1>3, <2>1, <2>2 DEF SyncInv, SyncTypes, Sync!TimedOut
    <2>4. ASSUME NEW d \in Sync!Clients, d # c, d \notin slow'
          PROVE  Living(d)' /\ (d \in username' /\ hpc' # "crashed" => Kept(d)')
      BY <1>3, <2>1, <2>2, <2>3, <2>4, Apart DEF SyncInv, SyncTypes
    <2>5. ASSUME c \notin slow'
          PROVE  Living(c)' /\ (c \in username' /\ hpc' # "crashed" => Kept(c)')
      <3>1. inbox'[c] = inbox[c]
        BY <1>3, <2>2 DEF r
      <3>2. Living(c)'
        BY <1>4, <2>1, <2>5, <3>1 DEF Living
      <3>3. ASSUME c \in username', hpc' # "crashed" PROVE Kept(c)'
        <4>1. Kept(c)
          BY <1>5, <2>1, <2>5, <3>3
        <4>2. open'[c]
          BY <4>1, <2>1, <1>1 DEF Kept, SyncInv, SyncTypes, Sync!TimedOut
        <4> QED
          BY <4>1, <4>2, <2>1, <2>2, <3>1 DEF Kept
      <3> QED
        BY <3>2, <3>3
    <2> QED
      BY <2>3, <2>4, <2>5 DEF SyncInv
  <1>7. CASE Sync!Process(c, q)
    <2>1. PICK rest \in Sync!Leftover(q) : sbuff' = [sbuff EXCEPT ![c] = rest]
      BY <1>7 DEF Sync!Process
    <2>2. /\ Sync!FirstLine(q) # 0 /\ m \in Sync!Lines /\ age' = [age EXCEPT ![c] = 0]
          /\ username' = IF m = "login" THEN username \cup {c} ELSE username
      BY <1>7, <1>2 DEF Sync!Process, Sync!LastPing, m
    <2>3. \/ /\ answers' = [answers EXCEPT ![c] = answers[c] \o Sync!Answer(c, m)]
             /\ changed' = [d \in AsyncPeers |-> changed[d] /\ ~(d = c /\ m = "ping")]
             /\ open' = [open EXCEPT ![c] = ~Sync!TimedOut(age'[c])]
          \/ /\ chat[c] = "ended"
             /\ open' = [open EXCEPT ![c] = FALSE] /\ UNCHANGED <<answers, changed>>
      BY <1>7 DEF Sync!Process, m
    <2>4. /\ Sync!Answer(c, m) \in Seq(AnswerLines) /\ Len(Sync!Answer(c, m)) <= 1
          /\ m = "noise" => Sync!Answer(c, m) = << >>
          /\ c \in AsyncPeers /\ chat[c] # "ended" /\ m \in Sync!Requests =>
               Sync!Answer(c, m) # << >>
      BY <2>2, AnswerLine DEF SyncInv
    <2>5. /\ answers[c] \in Seq(AnswerLines)
          /\ answers[c] \o Sync!Answer(c, m) \in Seq(AnswerLines)
          /\ Sync!Answer(c, m) = << >> => answers[c] \o Sync!Answer(c, m) = answers[c]
          /\ answers[c] = << >> => answers[c] \o Sync!Answer(c, m) = Sync!Answer(c, m)
      <3>1. answers[c] \in Seq(AnswerLines)
        BY DEF SyncInv, SyncTypes
      <3> QED
        BY <3>1, <2>4, ConcatProperties, ConcatEmptySeq
    <2>6. rest \in Seq(Rest) /\ sbuff'[c] = rest /\ age'[c] = 0
      BY <1>2, <2>1, <2>2 DEF SyncInv, SyncTypes
    <2>7. SyncTypes'
      <3>1. answers' \in [Sync!Clients -> Seq(AnswerLines)]
        BY <2>3, <2>5 DEF SyncInv, SyncTypes
      <3>2. changed' \in [AsyncPeers -> BOOLEAN] /\ open' \in [Sync!Clients -> BOOLEAN]
        BY <2>3 DEF SyncInv, SyncTypes, Sync!TimedOut
      <3>3. username' \subseteq Sync!Clients /\ age' \in [Sync!Clients -> Nat]
        BY <2>2 DEF SyncInv, SyncTypes
      <3>4. sbuff' \in [Sync!Clients -> Seq(Rest) \cup {Sync!Wild}]
        BY <2>1, <2>6 DEF SyncInv, SyncTypes
      <3> QED
        BY <1>3, <3>1, <3>2, <3>3, <3>4 DEF SyncInv, SyncTypes
    <2>8. ASSUME NEW d \in Sync!Clients, d # c, d \notin slow'
          PROVE  Living(d)' /\ (d \in username' /\ hpc' # "crashed" => Kept(d)')
      <3>1. /\ sbuff'[d] = sbuff[d] /\ age'[d] = age[d] /\ open'[d] = open[d]
            /\ answers'[d] = answers[d] /\ (d \in username' <=> d \in username)
        BY <2>1, <2>2, <2>3, <2>8 DEF SyncInv, SyncTypes
      <3> QED
        BY <1>3, <2>8, <3>1 DEF SyncInv, Living, Kept
    <2>9. ASSUME c \notin slow'
          PROVE  Living(c)' /\ (c \in username' /\ hpc' # "crashed" => Kept(c)')
      <3>1. /\ Living(c) /\ chat[c] # "ended" /\ chat'[c] = chat[c]
            /\ chat[c] \in Places /\ delay'[c] = delay[c]
        BY <1>4, <2>9 DEF Living, SyncInv, SyncTypes
      <3>2. /\ answers'[c] = answers[c] \o Sync!Answer(c, m) /\ open'[c]
        <4>1. ~ Sync!TimedOut(age'[c])
          BY <1>1, <2>6 DEF Sync!TimedOut
        <4> QED
          BY <2>3, <3>1, <4>1 DEF SyncInv, SyncTypes
      <3>3. m = "login" => chat[c] \notin {"off", "connect", "login"}
        BY <1>2, <2>2, <3>1 DEF Living, Sync!Requests, r
      <3>4. Living(c)'
        <4>1. chat[c] \in {"off", "connect", "login"} => c \notin username'
          BY <2>2, <3>1, <3>3 DEF Living
        <4>2. ASSUME c \in AsyncPeers
              PROVE  Len(answers'[c]) <= 1 /\ (chat[c] # "read" => answers'[c] = << >>)
          <5>1. CASE m = "noise"
            BY <2>4, <2>5, <3>1, <3>2, <4>2, <5>1 DEF Living
          <5>2. CASE m # "noise"
            <6>1. r # << >>
              BY <1>2, <2>2, <5>2 DEF Sync!Lines
            <6> QED
              BY <2>4, <2>5, <3>1, <3>2, <4>2, <6>1 DEF Living, r
          <5> QED
            BY <5>1, <5>2
        <4> QED
          BY <1>1, <1>3, <3>1, <4>1, <4>2 DEF Living
      <3>5. ASSUME c \in username', hpc' # "crashed" PROVE Kept(c)'
        <4>1. c \in AsyncPeers => b = << >> /\ r # << >>
          <5>1. CASE c \in username
            BY <1>2, <1>5, <2>2, <2>9, <3>5, <5>1 DEF Kept, b
          <5>2. CASE c \notin username
            BY <1>2, <2>2, <3>5, <5>2 DEF Sync!Requests
          <5> QED
            BY <5>1, <5>2
        <4>2. c \in AsyncPeers => rest = << >> /\ Sync!Answer(c, m) # << >> /\ answers[c] = << >>
          BY <1>2, <2>1, <2>4, <3>1, <4>1 DEF Living, r
        <4>3. chat[c] = "read" => c \in AsyncPeers
          BY <3>1 DEF Living, Sync!Clients
        <4>4. age'[c] + delay'[c] <= Timeout
          BY <1>1, <2>6, <3>1 DEF Living
        <4> QED
          BY <1>1, <2>5, <2>6, <3>1, <3>2, <4>2, <4>3, <4>4 DEF Kept
      <3> QED
        BY <3>4, <3>5
    <2> QED
      BY <2>7, <2>8, <2>9 DEF SyncInv
  <1> QED
    BY <1>6, <1>7 DEF b, r, q

\* The server's steps.
LEMMA SyncAnswer == SyncInv /\ Sync!AnswerToClient => SyncInv'
  <1> SUFFICES ASSUME SyncInv, Sync!AnswerToClient PROVE SyncInv'
    OBVIOUS
  <1>1. PICK c \in Sync!Clients :
          \/ sbuff[c] = Sync!Wild /\ Sync!Crash
          \/ /\ sbuff[c] # Sync!Wild
             /\ IF open[c]
                THEN /\ inbox' = [inbox EXCEPT ![c] = << >>]
                     /\ \/ Sync!ReadOnly(c, sbuff[c] \o inbox[c])
                        \/ Sync!Process(c, sbuff[c] \o inbox[c])
                ELSE UNCHANGED <<inbox, sbuff, age, changed, username, open, answers>>
             /\ UNCHANGED <<waiting, clients, hpc, chat, delay, slow>>
    BY DEF Sync!AnswerToClient, Sync!client
  <1>2. CASE Sync!Crash
    <2>1. /\ Sync!Destroyed(Sync!Clients) /\ hpc' = "crashed"
          /\ UNCHANGED <<changed, username, chat, delay, slow, answers>>
      BY <1>2 DEF Sync!Crash, Sync!client
    <2> QED
      BY <2>1, SyncDestroyed
  <1>3. CASE /\ sbuff[c] # Sync!Wild /\ open[c] /\ inbox' = [inbox EXCEPT ![c] = << >>]
             /\ \/ Sync!ReadOnly(c, sbuff[c] \o inbox[c])
                \/ Sync!Process(c, sbuff[c] \o inbox[c])
             /\ UNCHANGED <<hpc, chat, delay, slow>>
    BY <1>3, SyncPass
  <1>4. CASE UNCHANGED <<inbox, sbuff, age, changed, username, open, answers,
                         hpc, chat, delay, slow>>
    BY <1>4 DEF SyncInv, SyncTypes, Living, Kept
  <1> QED
    BY <1>1, <1>2, <1>3, <1>4

\* Every step of the server and of its clients.
LEMMA SyncStep == SyncInv /\ Sync!Next => SyncInv'
  <1> SUFFICES ASSUME SyncInv, Sync!Next PROVE SyncInv'
    OBVIOUS
  <1>1. CASE Sync!AcceptThread \/ Sync!Wake
    <2>1. /\ UNCHANGED <<inbox, sbuff, age, changed, username, open, answers, chat, delay, slow>>
          /\ hpc # "crashed"
      BY <1>1 DEF Sync!AcceptThread, Sync!Wake, Sync!CsFree, Sync!client
    <2> QED
      BY <2>1 DEF SyncInv, SyncTypes, Living, Kept
  <1>2. CASE Sync!Erase
    <2>1. /\ hpc # "crashed" /\ Sync!Destroyed({c \in Sync!Range(clients) : Sync!Erased(c)})
          /\ UNCHANGED <<changed, username, chat, delay, slow, answers>>
      BY <1>2 DEF Sync!Erase, Sync!client
    <2>2. \A c \in {d \in Sync!Range(clients) : Sync!Erased(d)} : age[c] > Timeout
      BY DEF Sync!Erased, Sync!TimedOut
    <2> QED
      BY <2>1, <2>2, SyncDestroyed
  <1>3. CASE Sync!Tick
    BY <1>3, SyncTick
  <1>4. CASE \E c \in Sync!Clients : Sync!Client(c) \/ Sync!Leave(c)
    BY <1>4, SyncConnect, SyncAsk, SyncOnRead, SyncEnd, SyncLoop DEF Sync!Client
  <1> QED
    BY <1>1, <1>2, <1>3, <1>4, SyncAnswer DEF Sync!Next, Sync!HandleClientsThread

LEMMA SyncKept == SyncInv => KeptInTime
  BY DEF SyncInv, SyncTypes, Kept, KeptInTime, Sync!KeptInTime

\* The loop walks the list under cs.
LEMMA SyncLoopIsSafe == Sync!Next => Sync!LoopIsSafe
  BY DEF Sync!LoopIsSafe, Sync!Next, Sync!AcceptThread, Sync!CsFree, Sync!HandleClientsThread,
         Sync!Wake, Sync!AnswerToClient, Sync!Crash, Sync!Erase, Sync!Tick, Sync!Client,
         Sync!Connect, Sync!AsyncLogin, Sync!DoPing, Sync!OnRead, Sync!OnReadError, Sync!Loop,
         Sync!Leave, Sync!server, Sync!ReadOnly, Sync!Process

\* The loop of handle_clients_thread() is at a client of the list or behind the
\* last one, also after the list has grown or lost some.
LoopTypes == /\ age \in [Sync!Clients -> 0 .. Timeout + 1]
             /\ waiting \in Seq(Sync!Clients) /\ clients \in Seq(Sync!Clients)
             /\ pos \in 1 .. Len(clients) + 1

\* The loop begins before the first client.
LEMMA LoopInit == ASSUME NEW on \in BOOLEAN PROVE Sync!Launched(on) => LoopTypes
  <1> SUFFICES ASSUME Sync!Launched(on) PROVE LoopTypes
    OBVIOUS
  <1>1. << >> \in Seq(Sync!Clients) /\ Len(<< >>) = 0
    BY EmptySeq
  <1> QED
    BY <1>1, NetAssumption DEF Sync!Launched, LoopTypes, Sync!NotADate

\* It stays there while another program runs.
LEMMA LoopStays == LoopTypes /\ UNCHANGED svars => LoopTypes'
  BY DEF LoopTypes, svars

\* Who is destroyed has no date any more.
LEMMA AgesDestroyed ==
  ASSUME LoopTypes, NEW S, Sync!Destroyed(S) PROVE age' \in [Sync!Clients -> 0 .. Timeout + 1]
  <1>1. Timeout + 1 \in 0 .. Timeout + 1
    BY NetAssumption
  <1> QED
    BY <1>1 DEF LoopTypes, Sync!Destroyed, Sync!NotADate

\* One step of the chat server or of a client of it.
LEMMA LoopStep == LoopTypes /\ Sync!Next => LoopTypes'
  <1> SUFFICES ASSUME LoopTypes, Sync!Next PROVE LoopTypes'
    OBVIOUS
  <1>t. Timeout \in Nat /\ 0 \in 0 .. Timeout + 1 /\ Timeout + 1 \in 0 .. Timeout + 1
    BY NetAssumption
  <1>l. Len(clients) \in Nat
    BY LenProperties DEF LoopTypes
  <1>1. CASE Sync!AcceptThread
    <2>1. /\ clients' = Append(clients, Head(waiting)) /\ waiting' = Tail(waiting)
          /\ waiting # << >> /\ pos' = pos /\ age' = age
      BY <1>1 DEF Sync!AcceptThread
    <2>2. Head(waiting) \in Sync!Clients /\ Tail(waiting) \in Seq(Sync!Clients)
      BY <2>1, HeadTailProperties DEF LoopTypes
    <2>3. clients' \in Seq(Sync!Clients) /\ Len(clients') = Len(clients) + 1
      BY <2>1, <2>2, AppendProperties DEF LoopTypes
    <2> QED
      BY <1>l, <2>1, <2>2, <2>3 DEF LoopTypes
  <1>2. CASE Sync!Wake
    BY <1>2 DEF Sync!Wake, LoopTypes
  <1>3. CASE Sync!AnswerToClient
    <2>1. PICK c \in Sync!Clients :
            /\ pos <= Len(clients)
            /\ \/ Sync!Crash
               \/ /\ pos' = pos + 1 /\ waiting' = waiting /\ clients' = clients
                  /\ \/ age' = age
                     \/ \E m : age' = [age EXCEPT ![c] = Sync!LastPing(c, m)]
      BY <1>3 DEF Sync!AnswerToClient, Sync!ReadOnly, Sync!Process
    <2>2. CASE Sync!Crash
      <3>1. << >> \in Seq(Sync!Clients) /\ Len(<< >>) = 0
        BY EmptySeq
      <3>2. age' \in [Sync!Clients -> 0 .. Timeout + 1]
        BY <2>2, AgesDestroyed DEF Sync!Crash
      <3> QED
        BY <2>2, <3>1, <3>2 DEF Sync!Crash, LoopTypes
    <2>3. CASE ~ Sync!Crash
      <3>1. age' \in [Sync!Clients -> 0 .. Timeout + 1]
        BY <1>t, <2>1, <2>3 DEF LoopTypes, Sync!LastPing
      <3> QED
        BY <1>l, <2>1, <2>3, <3>1 DEF LoopTypes
    <2> QED
      BY <2>2, <2>3
  <1>4. CASE Sync!Erase
    <2> DEFINE I == {i \in DOMAIN clients : ~ Sync!Erased(clients[i])}
    <2>1. clients' = Sync!Selected(clients, I) /\ pos' = 1 /\ waiting' = waiting
      BY <1>4 DEF Sync!Erase
    <2>2. Sync!Selected(clients, I) = Selected(clients, I)
      <3>1. \A S : Sync!Cardinality(S) = Cardinality(S)
        BY DEF Sync!Cardinality, Cardinality
      <3>2. \A n : Sync!Place(I, n) = Place(I, n)
        BY <3>1 DEF Sync!Place, Place
      <3> HIDE DEF I
      <3> QED
        BY <3>1, <3>2 DEF Sync!Selected, Selected
    <2>3. clients \in Seq(Sync!Clients) /\ I \in SUBSET (1 .. Len(clients))
      BY LenProperties DEF LoopTypes
    <2> HIDE DEF I
    <2>4. Selected(clients, I) \in Seq(Sync!Clients) /\ Len(Selected(clients, I)) \in Nat
      BY ONLY <2>3, SelectedProperties
    <2>5. age' \in [Sync!Clients -> 0 .. Timeout + 1]
      BY <1>4, AgesDestroyed DEF Sync!Erase
    <2> QED
      BY <2>1, <2>2, <2>4, <2>5 DEF LoopTypes
  <1>5. CASE Sync!Tick
    <2>1. /\ age' = [c \in Sync!Clients |-> IF age[c] > Timeout THEN Timeout + 1 ELSE age[c] + 1]
          /\ UNCHANGED <<waiting, clients, pos>>
      BY <1>5 DEF Sync!Tick, Sync!NotADate
    <2>2. age' \in [Sync!Clients -> 0 .. Timeout + 1]
      BY <1>t, <2>1 DEF LoopTypes
    <2> QED
      BY <2>1, <2>2 DEF LoopTypes
  <1>6. ASSUME NEW c \in Sync!Clients, Sync!Connect(c) PROVE LoopTypes'
    <2>1. /\ waiting' = Append(waiting, c) \/ waiting' = waiting
          /\ UNCHANGED <<clients, pos, age>>
      BY <1>6 DEF Sync!Connect
    <2>2. Append(waiting, c) \in Seq(Sync!Clients)
      BY AppendProperties DEF LoopTypes
    <2> QED
      BY <2>1, <2>2 DEF LoopTypes
  <1>7. ASSUME NEW c \in Sync!Clients, Sync!Client(c) \/ Sync!Leave(c), ~ Sync!Connect(c)
        PROVE  LoopTypes'
    <2>1. UNCHANGED <<waiting, clients, pos, age>>
      BY <1>7 DEF Sync!Client, Sync!AsyncLogin, Sync!DoPing, Sync!OnRead, Sync!OnReadError,
         Sync!Loop, Sync!Leave, Sync!server
    <2> QED
      BY <2>1 DEF LoopTypes
  <1> QED
    BY <1>1, <1>2, <1>3, <1>4, <1>5, <1>6, <1>7 DEF Sync!Next, Sync!HandleClientsThread, Sync!Client

-----------------------------------------------------------------------------
(* Buffers.                                                                *)

\* An object is broken only while its array is missing.
BufferInv == /\ size \in [Objects -> Nat \cup {Nothing}]
             /\ array \in [Objects -> Nat \cup {Nothing}] /\ broken \subseteq Objects
             /\ \A b \in broken : Buffer!Alive(b) /\ Buffer!Null(b) /\ size[b] > 0
             /\ Buffer!SizesAreRight

LEMMA BufferInit == ASSUME NEW on \in BOOLEAN PROVE Buffer!Launched(on) => BufferInv
  BY ClassAssumption DEF BufferInv, Buffer!Launched, Buffer!SizesAreRight, Buffer!Alive

LEMMA BufferStays == BufferInv /\ UNCHANGED bufferVars => BufferInv'
  BY DEF BufferInv, bufferVars, Buffer!SizesAreRight, Buffer!Alive, Buffer!Null

\* Construction, destruction and moves take what is broken along; an assignment
\* that throws breaks, one that succeeds mends.
LEMMA BufferStep == BufferInv /\ Buffer!Next => BufferInv'
  <1> SUFFICES ASSUME BufferInv, Buffer!Next PROVE BufferInv'
    OBVIOUS
  <1>0. Sizes \subseteq Nat /\ DefaultSize \in Nat \ {0} /\ Nothing \notin Nat
    BY ClassAssumption
  <1> USE <1>0 DEF BufferInv, Buffer!SizesAreRight, Buffer!Alive, Buffer!Null
  <1>1. ASSUME NEW b \in Objects, Buffer!Construct(b) \/ Buffer!Destroy(b) PROVE BufferInv'
    <2>1. CASE Buffer!Construct(b)
      BY <2>1 DEF Buffer!Construct
    <2>2. CASE Buffer!Destroy(b)
      BY <2>2 DEF Buffer!Destroy
    <2> QED
      BY <1>1, <2>1, <2>2
  <1>2. ASSUME NEW b \in Objects, NEW c \in Objects, Buffer!CopyConstruct(b, c) PROVE BufferInv'
    BY <1>2 DEF Buffer!CopyConstruct, Buffer!Crash
  <1>3. ASSUME NEW b \in Objects, NEW c \in Objects, Buffer!Assign(b, c) PROVE BufferInv'
    <2>1. size[c] \in Nat /\ size[b] \in Nat
      <3>1. size[b] # Nothing /\ size[c] # Nothing
        BY <1>3 DEF Buffer!Assign
      <3>2. \A d \in Objects : size[d] = Nothing \/ size[d] \in Nat
        OBVIOUS
      <3> QED
        BY <3>1, <3>2
    <2>2. CASE size[c] > 0 /\ (Buffer!Null(c) \/ Buffer!Destination(b, size[c]) = Nothing)
      <3>1. broken # {}
        BY <1>3, <2>1, <2>2 DEF Buffer!Destination
      <3> QED
        BY <1>3, <2>2, <3>1 DEF Buffer!Assign, Buffer!Crash
    <2>3. CASE ~ (size[c] > 0 /\ (Buffer!Null(c) \/ Buffer!Destination(b, size[c]) = Nothing))
      <3> DEFINE dest == Buffer!Destination(b, size[c])
      <3>1. /\ size' = [size EXCEPT ![b] = size[c]] /\ array' = [array EXCEPT ![b] = dest]
            /\ broken' = broken \ {b} /\ outcome' = outcome /\ outcome = "run" /\ b # c
        BY <1>3, <2>3 DEF Buffer!Assign
      <3>2. dest \in Nat \cup {Nothing} /\ (IF dest = Nothing THEN size[c] = 0 ELSE dest = size[c])
        BY <1>3, <2>1, <2>3 DEF Buffer!Destination, Buffer!Assign
      <3> HIDE DEF dest
      <3> QED
        BY <2>1, <3>1, <3>2
    <2> QED
      BY <2>2, <2>3
  <1>4. ASSUME NEW b \in Objects, NEW c \in Objects, Buffer!AssignThrows(b, c) PROVE BufferInv'
    BY <1>4 DEF Buffer!AssignThrows
  <1>5. ASSUME NEW b \in Objects, NEW c \in Objects, Buffer!MoveConstruct(b, c) PROVE BufferInv'
    BY <1>5 DEF Buffer!MoveConstruct, Buffer!MovedFromSize
  <1>6. ASSUME NEW b \in Objects, NEW c \in Objects, Buffer!MoveAssign(b, c) PROVE BufferInv'
    BY <1>6, SMTT(30) DEF Buffer!MoveAssign, Buffer!MovedFromSize
  <1> QED
    BY <1>1, <1>2, <1>3, <1>4, <1>5, <1>6 DEF Buffer!Next

\* The size of an object is one it was made with, or 0.
SizeTypes == size \in [Objects -> Sizes \cup {DefaultSize, 0, Nothing}]

\* There is no object at the start.
LEMMA SizeInit == ASSUME NEW on \in BOOLEAN PROVE Buffer!Launched(on) => SizeTypes
  BY DEF Buffer!Launched, SizeTypes

\* Every operation gives an object a size of another one, or a new one.
LEMMA SizeStep == SizeTypes /\ (Buffer!Next \/ UNCHANGED bufferVars) => SizeTypes'
  BY DEF SizeTypes, bufferVars, Buffer!Next, Buffer!Construct, Buffer!Destroy, Buffer!CopyConstruct,
     Buffer!Crash, Buffer!Assign, Buffer!AssignThrows, Buffer!MoveConstruct, Buffer!MoveAssign,
     Buffer!MovedFromSize

-----------------------------------------------------------------------------
(* Blobs.                                                                  *)

BlobInv == /\ data \in [Handles -> Vectors \cup {Nothing}]
           /\ vector \in [Vectors -> Seq(Elements) \cup {Nothing}]
           /\ Blob!SharedSafely

LEMMA BlobInit == ASSUME NEW on \in BOOLEAN PROVE Blob!Launched(on) => BlobInv
  BY ClassAssumption DEF BlobInv, Blob!Launched, Blob!SharedSafely

LEMMA BlobStays == BlobInv /\ UNCHANGED blobVars => BlobInv'
  BY DEF BlobInv, blobVars, Blob!SharedSafely

\* check() says of every access whether it is inside.
LEMMA BlobStep == BlobInv /\ Blob!Next => BlobInv'
  <1> SUFFICES ASSUME BlobInv, Blob!Next PROVE BlobInv'
    OBVIOUS
  <1>0. MaxSize \in Nat /\ Nothing \notin Vectors /\ Nothing \notin Seq(Elements)
    BY ClassAssumption
  <1> USE <1>0 DEF BlobInv, Blob!SharedSafely
  <1>1. ASSUME NEW h \in Handles, data[h] # Nothing
        PROVE  data[h] \in Vectors /\ vector[data[h]] \in Seq(Elements) /\ Blob!Size(h) \in Nat
    <2>1. data[h] \in Vectors /\ vector[data[h]] \in Seq(Elements)
      BY <1>1
    <2> QED
      BY <2>1, LenProperties DEF Blob!Size
  <1>2. ASSUME NEW h \in Handles, Blob!Construct(h) PROVE BlobInv'
    <2>1. PICK v \in Vectors, il \in {<< >>} \cup {<<e>> : e \in Elements} :
            /\ vector[v] = Nothing /\ data' = [data EXCEPT ![h] = v]
            /\ vector' = [vector EXCEPT ![v] = il]
      BY <1>2 DEF Blob!Construct
    <2>2. il \in Seq(Elements)
      <3>1. << >> \in Seq(Elements) /\ \A e \in Elements : <<e>> \in Seq(Elements)
        BY EmptySeq
      <3>2. CASE il = << >>
        BY <3>1, <3>2
      <3>3. ASSUME NEW e \in Elements, il = <<e>> PROVE il \in Seq(Elements)
        BY <3>1, <3>3
      <3>4. il = << >> \/ \E e \in Elements : il = <<e>>
        OBVIOUS
      <3> QED
        BY <3>2, <3>3, <3>4
    <2> QED
      BY <1>2, <2>1, <2>2 DEF Blob!Construct
  <1>3. ASSUME NEW h \in Handles, Blob!Destroy(h) PROVE BlobInv'
    BY <1>3 DEF Blob!Destroy, Blob!Sharers
  <1>4. ASSUME NEW h \in Handles, Blob!Copy(h) PROVE BlobInv'
    BY <1>4 DEF Blob!Copy
  <1>5. ASSUME NEW h \in Handles, Blob!PushBack(h) PROVE BlobInv'
    <2>1. PICK t \in Elements : vector' = [vector EXCEPT ![data[h]] = Append(vector[data[h]], t)]
      BY <1>5 DEF Blob!PushBack
    <2>2. Append(vector[data[h]], t) \in Seq(Elements)
      BY <1>1, <1>5, AppendProperties DEF Blob!PushBack
    <2> QED
      BY <1>1, <1>5, <2>1, <2>2 DEF Blob!PushBack
  <1>6. ASSUME NEW h \in Handles, NEW a \in Nat, data[h] # Nothing
        PROVE  /\ Blob!Accessed(h, a, a) # "outside"
               /\ Blob!Accessed(h, 0, Blob!Size(h) - 1) # "outside"
               /\ Blob!Accessed(h, 0, Blob!Size(h) - 1) = "inside" => Blob!Size(h) > 0
    BY <1>1, <1>6 DEF Blob!Accessed, Blob!Check
  <1>7. ASSUME NEW h \in Handles, Blob!Access(h) PROVE BlobInv'
    <2>1. data[h] # Nothing /\ UNCHANGED <<data, vector>> /\ access' # "outside"
      BY <1>6, <1>7 DEF Blob!Access
    <2> QED
      BY <2>1
  <1>8. ASSUME NEW h \in Handles, Blob!PopBack(h) PROVE BlobInv'
    <2>1. data[h] # Nothing /\ data' = data /\ access' = Blob!Accessed(h, 0, Blob!Size(h) - 1)
      BY <1>8 DEF Blob!PopBack
    <2>2. access' # "outside" /\ (access' = "inside" => Blob!Size(h) > 0)
      BY <1>6, <2>1
    <2>3. CASE access' = "inside"
      <3>1. Blob!Front(vector[data[h]]) \in Seq(Elements)
        <4>1. \A a \in 1 .. Blob!Size(h) : vector[data[h]][a] \in Elements
          BY <1>1, <2>1, ElementOfSeq DEF Blob!Size
        <4> QED
          BY <1>1, <2>1, <2>2, <2>3, <4>1, SubSeqProperties DEF Blob!Front, Blob!Size
      <3> QED
        BY <1>1, <1>8, <2>1, <2>2, <2>3, <3>1 DEF Blob!PopBack
    <2>4. CASE access' # "inside"
      BY <1>8, <2>1, <2>2, <2>4 DEF Blob!PopBack
    <2> QED
      BY <2>3, <2>4
  <1> QED
    BY <1>2, <1>3, <1>4, <1>5, <1>7, <1>8 DEF Blob!Next

\* The elements of a vector fit.
VectorFits == \A v \in Vectors : vector[v] # Nothing => Len(vector[v]) <= MaxSize

\* There is no vector at the start.
LEMMA VectorInit == ASSUME NEW on \in BOOLEAN PROVE Blob!Launched(on) => VectorFits
  BY DEF Blob!Launched, VectorFits

\* A push is made only where there is room, and a pop leaves less.
LEMMA VectorStep == BlobInv /\ VectorFits /\ (Blob!Next \/ UNCHANGED blobVars) => VectorFits'
  <1> SUFFICES ASSUME BlobInv, VectorFits, Blob!Next \/ UNCHANGED blobVars PROVE VectorFits'
    OBVIOUS
  <1>m. MaxSize \in Nat /\ 1 <= MaxSize
    BY ClassAssumption
  <1>1. ASSUME NEW h \in Handles, data[h] # Nothing
        PROVE  data[h] \in Vectors /\ vector[data[h]] \in Seq(Elements)
               /\ vector[data[h]] # Nothing /\ Blob!Size(h) \in Nat
    <2>1. data[h] \in Vectors /\ vector[data[h]] \in Seq(Elements) /\ vector[data[h]] # Nothing
      BY <1>1, ClassAssumption DEF BlobInv, Blob!SharedSafely
    <2> QED
      BY <2>1, LenProperties DEF Blob!Size
  <1>2. ASSUME NEW h \in Handles, Blob!Construct(h) PROVE VectorFits'
    <2>1. PICK v \in Vectors, il \in {<< >>} \cup {<<e>> : e \in Elements} :
            vector' = [vector EXCEPT ![v] = il]
      BY <1>2 DEF Blob!Construct
    <2>2. Len(il) <= MaxSize
      <3>1. CASE il = << >>
        BY <1>m, <3>1, EmptySeq
      <3>2. ASSUME NEW e \in Elements, il = <<e>> PROVE Len(il) <= MaxSize
        BY <1>m, <3>2
      <3>3. il = << >> \/ \E e \in Elements : il = <<e>>
        OBVIOUS
      <3> QED
        BY <3>1, <3>2, <3>3
    <2> QED
      BY <2>1, <2>2 DEF VectorFits, BlobInv
  <1>3. ASSUME NEW h \in Handles, Blob!Destroy(h) \/ Blob!Copy(h) \/ Blob!Access(h) PROVE VectorFits'
    BY <1>3 DEF Blob!Destroy, Blob!Copy, Blob!Access, VectorFits, BlobInv
  <1>4. ASSUME NEW h \in Handles, Blob!PushBack(h) PROVE VectorFits'
    <2>1. PICK t \in Elements : vector' = [vector EXCEPT ![data[h]] = Append(vector[data[h]], t)]
      BY <1>4 DEF Blob!PushBack
    <2>2. Len(Append(vector[data[h]], t)) = Blob!Size(h) + 1 /\ Blob!Size(h) < MaxSize
      BY <1>1, <1>4, AppendProperties DEF Blob!PushBack, Blob!Size
    <2>3. Len(Append(vector[data[h]], t)) <= MaxSize
      BY <1>1, <1>4, <1>m, <2>2 DEF Blob!PushBack
    <2> QED
      BY <2>1, <2>3 DEF VectorFits, BlobInv
  <1>5. ASSUME NEW h \in Handles, Blob!PopBack(h) PROVE VectorFits'
    <2>1. /\ data[h] # Nothing
          /\ vector' = vector \/ vector' = [vector EXCEPT ![data[h]] = Blob!Front(vector[data[h]])]
      BY <1>5 DEF Blob!PopBack
    <2>2. /\ Len(vector[data[h]]) \in Nat
          /\ \A a \in 1 .. Len(vector[data[h]]) : vector[data[h]][a] \in Elements
      BY <1>1, <2>1, ElementOfSeq, LenProperties
    <2>3. Len(Blob!Front(vector[data[h]])) <= Len(vector[data[h]])
      <3> DEFINE q == vector[data[h]]
                 n == Len(q) - 1
      <3>1. 1 \in Int /\ n \in Int /\ \A a \in 1 .. n : q[a] \in Elements
        BY <2>2
      <3>2. Blob!Front(q) = SubSeq(q, 1, n)
        BY DEF Blob!Front
      <3> HIDE DEF n, q
      <3>3. Len(SubSeq(q, 1, n)) = IF 1 <= n THEN n - 1 + 1 ELSE 0
        BY <3>1, SubSeqProperties
      <3> QED
        BY <2>2, <3>1, <3>2, <3>3 DEF n, q
    <2>4. Len(vector[data[h]]) <= MaxSize
      BY <1>1, <2>1 DEF VectorFits
    <2>5. Blob!Front(vector[data[h]]) \in Seq(Elements) => Len(Blob!Front(vector[data[h]])) \in Nat
      BY LenProperties
    <2> QED
      BY <1>m, <2>1, <2>2, <2>3, <2>4 DEF VectorFits, BlobInv
  <1>6. CASE UNCHANGED blobVars
    BY <1>6 DEF blobVars, VectorFits
  <1> QED
    BY <1>2, <1>3, <1>4, <1>5, <1>6 DEF Blob!Next

-----------------------------------------------------------------------------
(* ScopeGuards.                                                            *)

ArmedAt(g, a) == a \in DOMAIN g /\ ~ g[a].m_dismiss
Armed(g) == {g[a].m_func : a \in {n \in DOMAIN g : ArmedAt(g, n)}}

\* No two armed guards have the same resource.
Distinct(g) == \A a, b \in DOMAIN g :
  ArmedAt(g, a) /\ ArmedAt(g, b) /\ g[a].m_func = g[b].m_func => a = b

\* Guard k is dismissed.
OneDismissed(g, k) == [g EXCEPT ![k] = Guards!Dismissed(g[k])]

\* Resource x was acquired before y, if both were.
Before(q, x, y) == \A m, n \in DOMAIN q : q[m] = x /\ q[n] = y => m < n

\* While nothing was moved the guards are in the order of acquisition, and what
\* was released had been acquired after all that have one still.
InOrder(q, g, r) ==
  /\ \A a, b \in DOMAIN g : a < b => Before(q, g[a].m_func, g[b].m_func)
  /\ \A a \in DOMAIN g, b \in DOMAIN r : Before(q, g[a].m_func, r[b])
  /\ \A a, b \in DOMAIN r : a < b => Before(q, r[b], r[a])

Guard == [m_func : Resources, m_dismiss : BOOLEAN]

\* Every acquired resource is in one place: with the armed guard it has, released,
\* kept, unguarded, or its guard is being made.
GuardsInv ==
  /\ acquired \in Seq(Resources) /\ IsInjective(acquired)
  /\ guards \in Seq(Guard)
  /\ \A a \in DOMAIN guards : guards[a].m_func \in ToSet(acquired)
  /\ Distinct(guards)
  /\ released \in Seq(Resources) /\ IsInjective(released)
  /\ ToSet(released) \subseteq ToSet(acquired) /\ kept \subseteq ToSet(acquired)
  /\ Armed(guards) \cap ToSet(released) = {} /\ Armed(guards) \cap kept = {}
  /\ ToSet(released) \cap kept = {}
  /\ gpc # "make" =>
       ToSet(acquired) = Armed(guards) \cup ToSet(released) \cup kept \cup unguarded
  /\ gpc = "make" => \E r \in Resources :
       /\ acquired # << >> /\ acquired[Len(acquired)] = r
       /\ r \notin ToSet(released) \cup kept
       /\ \A a \in DOMAIN guards : guards[a].m_func # r
       /\ ToSet(acquired) = Armed(guards) \cup ToSet(released) \cup kept \cup {r}
  /\ gpc \in {"off", "run", "make"} => released = << >> /\ unguarded = {}
  /\ gpc = "left" => guards = << >>
  /\ moved = {} => InOrder(acquired, guards, released)

LEMMA GuardsInit == ASSUME NEW on \in BOOLEAN PROVE Guards!Launched(on) => GuardsInv
  <1> SUFFICES ASSUME Guards!Launched(on) PROVE GuardsInv
    OBVIOUS
  <1>1. /\ acquired = << >> /\ guards = << >> /\ released = << >> /\ kept = {} /\ unguarded = {}
        /\ gpc \in {"off", "run"}
    BY DEF Guards!Launched
  <1>2. DOMAIN << >> = {} /\ << >> \in Seq(Resources) /\ << >> \in Seq(Guard)
    BY EmptySeq
  <1>3. ToSet(<< >>) = {} /\ IsInjective(<< >>) /\ Armed(<< >>) = {}
    BY <1>2, EmptyElements DEF Armed
  <1> QED
    BY <1>1, <1>2, <1>3 DEF GuardsInv, Distinct, InOrder

LEMMA GuardsStays == GuardsInv /\ UNCHANGED guardVars => GuardsInv'
  <1> SUFFICES ASSUME GuardsInv, UNCHANGED guardVars PROVE GuardsInv'
    OBVIOUS
  <1>1. UNCHANGED <<gpc, acquired, guards, released, kept, unguarded, moved>>
    BY DEF guardVars
  <1>2. /\ Armed(guards)' = Armed(guards) /\ ToSet(acquired)' = ToSet(acquired)
        /\ ToSet(released)' = ToSet(released)
        /\ InOrder(acquired, guards, released)' <=> InOrder(acquired, guards, released)
        /\ \A a : ArmedAt(guards, a)' <=> ArmedAt(guards, a)
    BY <1>1 DEF Armed, ArmedAt, ToSet, InOrder, Before
  <1> QED
    BY <1>1, <1>2 DEF GuardsInv, Distinct

\* What is in order stays so when something new is acquired.
LEMMA AppendedBehind ==
  ASSUME NEW q \in Seq(Resources), NEW r \in Resources, r \notin ToSet(q),
         NEW x \in ToSet(q), NEW y \in ToSet(q), Before(q, x, y)
  PROVE  Before(Append(q, r), x, y)
  <1>1. /\ DOMAIN Append(q, r) = 1 .. Len(q) + 1 /\ DOMAIN q = 1 .. Len(q) /\ Len(q) \in Nat
        /\ \A a \in 1 .. Len(q) : Append(q, r)[a] = q[a]
        /\ Append(q, r)[Len(q) + 1] = r
    BY AppendProperties, LenProperties
  <1>2. x # r /\ y # r
    OBVIOUS
  <1> SUFFICES ASSUME NEW m \in 1 .. Len(q) + 1, NEW n \in 1 .. Len(q) + 1,
                      Append(q, r)[m] = x, Append(q, r)[n] = y
               PROVE  m < n
    BY <1>1 DEF Before
  <1>3. m \in DOMAIN q /\ n \in DOMAIN q
    BY <1>1, <1>2
  <1> QED
    BY <1>1, <1>3 DEF Before

\* The armed guards when one is appended, and when one is dismissed.
LEMMA ArmedAppended ==
  ASSUME NEW g \in Seq(Guard), NEW e \in Guard
  PROVE  /\ Append(g, e) \in Seq(Guard) /\ DOMAIN Append(g, e) = DOMAIN g \cup {Len(g) + 1}
         /\ DOMAIN g = 1 .. Len(g) /\ Len(g) \in Nat
         /\ Append(g, e)[Len(g) + 1] = e /\ \A a \in DOMAIN g : Append(g, e)[a] = g[a]
         /\ Armed(Append(g, e)) = Armed(g) \cup (IF e.m_dismiss THEN {} ELSE {e.m_func})
  <1>1. /\ Append(g, e) \in Seq(Guard) /\ DOMAIN Append(g, e) = DOMAIN g \cup {Len(g) + 1}
        /\ DOMAIN g = 1 .. Len(g) /\ Len(g) \in Nat
        /\ Append(g, e)[Len(g) + 1] = e /\ \A a \in DOMAIN g : Append(g, e)[a] = g[a]
    BY AppendProperties, LenProperties
  <1> DEFINE h == Append(g, e)
  <1> HIDE DEF h
  <1>2. Armed(h) = Armed(g) \cup (IF e.m_dismiss THEN {} ELSE {e.m_func})
    BY <1>1 DEF Armed, ArmedAt, h
  <1> QED
    BY <1>1, <1>2 DEF h

LEMMA ArmedDismissed ==
  ASSUME NEW g \in Seq(Guard), NEW k \in DOMAIN g,
         NEW h, h = OneDismissed(g, k), Distinct(g)
  PROVE  /\ h \in Seq(Guard) /\ DOMAIN h = DOMAIN g /\ Len(h) = Len(g)
         /\ \A a \in DOMAIN g : h[a].m_func = g[a].m_func
         /\ \A a \in DOMAIN g : ArmedAt(h, a) <=> ArmedAt(g, a) /\ a # k
         /\ Armed(h) = Armed(g) \ (IF g[k].m_dismiss THEN {} ELSE {g[k].m_func})
  <1>1. g[k] \in Guard /\ DOMAIN g = 1 .. Len(g)
    BY LenProperties, ElementOfSeq
  <1>2. /\ Guards!Dismissed(g[k]) \in Guard /\ Guards!Dismissed(g[k]).m_dismiss
        /\ Guards!Dismissed(g[k]).m_func = g[k].m_func
    BY <1>1 DEF Guards!Dismissed, Guard
  <1>4. /\ h \in Seq(Guard) /\ Len(h) = Len(g) /\ DOMAIN h = DOMAIN g
        /\ \A a \in DOMAIN g : h[a] = IF a = k THEN Guards!Dismissed(g[k]) ELSE g[a]
    BY <1>1, <1>2, ExceptSeq, LenProperties DEF OneDismissed
  <1>5. \A a \in DOMAIN g : /\ h[a].m_func = g[a].m_func
                            /\ ArmedAt(h, a) <=> ArmedAt(g, a) /\ a # k
    BY <1>2, <1>4 DEF ArmedAt
  <1>6. ASSUME NEW x \in Armed(h) PROVE x \in Armed(g) \ (IF g[k].m_dismiss THEN {} ELSE {g[k].m_func})
    <2>1. PICK a \in DOMAIN h : ArmedAt(h, a) /\ x = h[a].m_func
      BY DEF Armed
    <2>2. ArmedAt(g, a) /\ a # k /\ x = g[a].m_func /\ a \in DOMAIN g
      BY <2>1, <1>4, <1>5
    <2> QED
      BY <2>2, <1>4 DEF Armed, ArmedAt, Distinct
  <1>7. ASSUME NEW x \in Armed(g) \ (IF g[k].m_dismiss THEN {} ELSE {g[k].m_func})
        PROVE  x \in Armed(h)
    <2>1. PICK a \in DOMAIN g : ArmedAt(g, a) /\ x = g[a].m_func
      BY <1>7 DEF Armed
    <2>2. a # k
      BY <1>7, <2>1 DEF ArmedAt
    <2> QED
      BY <2>1, <2>2, <1>4, <1>5 DEF Armed
  <1> QED
    BY <1>4, <1>5, <1>6, <1>7

\* The steps.
LEMMA GuardsAcquire == GuardsInv /\ Guards!Acquire => GuardsInv'
  <1> SUFFICES ASSUME GuardsInv, Guards!Acquire PROVE GuardsInv'
    OBVIOUS
  <1>1. PICK r \in Resources : r \notin ToSet(acquired) /\ acquired' = Append(acquired, r)
    BY DEF Guards!Acquire, Guards!Range, ToSet
  <1>2. gpc = "run" /\ gpc' = "make" /\ UNCHANGED <<guards, released, kept, unguarded, moved>>
    BY DEF Guards!Acquire
  <1> DEFINE q == acquired
             p == Append(q, r)
  <1>3. /\ q \in Seq(Resources) /\ IsInjective(q)
        /\ p \in Seq(Resources) /\ IsInjective(p) /\ ToSet(p) = ToSet(q) \cup {r}
        /\ p # << >> /\ p[Len(p)] = r
    BY <1>1, AppendElements, AppendProperties DEF GuardsInv
  <1>4. ASSUME moved = {} PROVE InOrder(p, guards, released)
    <2>1. InOrder(q, guards, released) /\ \A a \in DOMAIN guards : guards[a].m_func \in ToSet(q)
      BY <1>4 DEF GuardsInv
    <2>2. released = << >> /\ DOMAIN released = {}
      BY <1>2 DEF GuardsInv
    <2>3. \A a, b \in DOMAIN guards : a < b => Before(p, guards[a].m_func, guards[b].m_func)
      BY <1>1, <1>3, <2>1, AppendedBehind DEF InOrder
    <2> QED
      BY <2>2, <2>3 DEF InOrder
  <1>5. Armed(guards)' = Armed(guards) /\ \A a : ArmedAt(guards, a)' <=> ArmedAt(guards, a)
    BY <1>2 DEF Armed, ArmedAt
  <1>6. ToSet(released)' = ToSet(released) /\ ToSet(acquired)' = ToSet(q) \cup {r}
    BY <1>1, <1>2, <1>3 DEF ToSet
  <1>7. acquired' # << >> /\ acquired'[Len(acquired')] = r /\ acquired' \in Seq(Resources)
        /\ IsInjective(acquired)' /\ (moved' = {} => InOrder(acquired, guards, released)')
    BY <1>1, <1>2, <1>3, <1>4 DEF IsInjective, InOrder, Before
  <1> HIDE DEF p
  <1>8. /\ r \notin ToSet(released) \cup kept /\ \A a \in DOMAIN guards : guards[a].m_func # r
        /\ ToSet(q) = Armed(guards) \cup ToSet(released) \cup kept
    BY <1>1, <1>2 DEF GuardsInv
  <1> QED
    BY <1>2, <1>5, <1>6, <1>7, <1>8 DEF GuardsInv, Distinct

LEMMA GuardsMake == GuardsInv /\ Guards!Make => GuardsInv'
  <1> SUFFICES ASSUME GuardsInv, Guards!Make PROVE GuardsInv'
    OBVIOUS
  <1>1. PICK r \in Resources :
          /\ acquired # << >> /\ acquired[Len(acquired)] = r
          /\ r \notin ToSet(released) \cup kept
          /\ \A a \in DOMAIN guards : guards[a].m_func # r
          /\ ToSet(acquired) = Armed(guards) \cup ToSet(released) \cup kept \cup {r}
    BY DEF GuardsInv, Guards!Make
  <1> DEFINE e == [m_func |-> r, m_dismiss |-> FALSE]
             g == Append(guards, e)
  <1>2. /\ gpc' = "run" /\ guards' = g /\ UNCHANGED <<acquired, released, kept, unguarded, moved>>
        /\ released = << >> /\ unguarded = {}
    BY <1>1 DEF Guards!Make, Guards!ScopeGuard, Guards!Last, GuardsInv
  <1>3. e \in Guard /\ guards \in Seq(Guard) /\ ~ e.m_dismiss /\ e.m_func = r
    BY DEF Guard, GuardsInv
  <1>4. /\ g \in Seq(Guard) /\ DOMAIN g = DOMAIN guards \cup {Len(guards) + 1}
        /\ DOMAIN guards = 1 .. Len(guards) /\ Len(guards) \in Nat
        /\ g[Len(guards) + 1] = e /\ \A a \in DOMAIN guards : g[a] = guards[a]
        /\ Armed(g) = Armed(guards) \cup {r}
    <2> HIDE DEF e, g
    <2>1. IF e.m_dismiss THEN {} ELSE {e.m_func} = {r}
      BY <1>3
    <2> QED
      BY <1>3, <2>1, ArmedAppended DEF g
  <1> HIDE DEF e, g
  <1>5. \A a \in DOMAIN g : g[a].m_func \in ToSet(acquired)
    BY <1>1, <1>3, <1>4 DEF GuardsInv
  <1>6. \A a, b \in DOMAIN g : ArmedAt(g, a) /\ ArmedAt(g, b) /\ g[a].m_func = g[b].m_func => a = b
    BY <1>1, <1>3, <1>4 DEF GuardsInv, Distinct, ArmedAt
  <1>7. ASSUME moved = {} PROVE InOrder(acquired, g, released)
    <2>1. InOrder(acquired, guards, released) /\ DOMAIN released = {}
      BY <1>2, <1>7 DEF GuardsInv
    <2>2. /\ DOMAIN acquired = 1 .. Len(acquired) /\ IsInjective(acquired)
          /\ Len(acquired) \in Nat /\ Len(acquired) # 0
      BY <1>1, LenProperties, EmptySeq DEF GuardsInv
    <2>3. ASSUME NEW x, x # r PROVE Before(acquired, x, r)
      BY <1>1, <2>2, <2>3 DEF Before, IsInjective
    <2>4. ASSUME NEW a \in DOMAIN g, NEW b \in DOMAIN g, a < b
          PROVE  Before(acquired, g[a].m_func, g[b].m_func)
      <3>1. a \in DOMAIN guards
        BY <1>4, <2>4
      <3>2. CASE b \in DOMAIN guards
        BY <1>4, <2>1, <2>4, <3>1, <3>2 DEF InOrder
      <3>3. CASE b = Len(guards) + 1
        <4>1. g[b].m_func = r /\ g[a].m_func # r
          BY <1>1, <1>3, <1>4, <3>1, <3>3
        <4> QED
          BY <2>3, <4>1
      <3> QED
        BY <1>4, <3>2, <3>3
    <2> QED
      BY <2>1, <2>4 DEF InOrder
  <1>8. /\ Armed(guards)' = Armed(g) /\ \A a : ArmedAt(guards, a)' <=> ArmedAt(g, a)
        /\ ToSet(released)' = ToSet(released) /\ ToSet(acquired)' = ToSet(acquired)
        /\ IsInjective(acquired)' = IsInjective(acquired)
        /\ IsInjective(released)' = IsInjective(released)
        /\ InOrder(acquired, guards, released)' <=> InOrder(acquired, g, released)
    BY <1>2 DEF Armed, ArmedAt, ToSet, IsInjective, InOrder, Before
  <1> QED
    BY <1>1, <1>2, <1>4, <1>5, <1>6, <1>7, <1>8 DEF GuardsInv, Distinct

LEMMA GuardsMakeThrows == GuardsInv /\ Guards!MakeThrows => GuardsInv'
  <1> SUFFICES ASSUME GuardsInv, Guards!MakeThrows PROVE GuardsInv'
    OBVIOUS
  <1>1. PICK r \in Resources :
          /\ acquired # << >> /\ acquired[Len(acquired)] = r
          /\ ToSet(acquired) = Armed(guards) \cup ToSet(released) \cup kept \cup {r}
    BY DEF GuardsInv, Guards!MakeThrows
  <1>2. gpc' = "unwind" /\ unguarded' = {r} /\ UNCHANGED <<acquired, guards, released, kept, moved>>
    BY <1>1 DEF Guards!MakeThrows, Guards!Last
  <1>3. /\ Armed(guards)' = Armed(guards) /\ ToSet(acquired)' = ToSet(acquired)
        /\ ToSet(released)' = ToSet(released)
        /\ InOrder(acquired, guards, released)' <=> InOrder(acquired, guards, released)
        /\ \A a : ArmedAt(guards, a)' <=> ArmedAt(guards, a)
        /\ IsInjective(acquired)' = IsInjective(acquired)
        /\ IsInjective(released)' = IsInjective(released)
    BY <1>2 DEF Armed, ArmedAt, ToSet, IsInjective, InOrder, Before
  <1> QED
    BY <1>1, <1>2, <1>3 DEF GuardsInv, Distinct

LEMMA GuardsMove == GuardsInv /\ Guards!Move => GuardsInv'
  <1> SUFFICES ASSUME GuardsInv, Guards!Move PROVE GuardsInv'
    OBVIOUS
  <1>1. PICK k \in DOMAIN guards :
          /\ guards' = Append(OneDismissed(guards, k), guards[k])
          /\ moved' = moved \cup {guards[k].m_func}
    BY DEF Guards!Move, Guards!Source, OneDismissed
  <1>2. gpc = "run" /\ UNCHANGED <<gpc, acquired, released, kept, unguarded>>
    BY DEF Guards!Move
  <1> DEFINE e == guards[k]
             h == OneDismissed(guards, k)
             g == Append(h, e)
  <1>3. guards \in Seq(Guard) /\ e \in Guard /\ DOMAIN guards = 1 .. Len(guards)
    BY LenProperties, ElementOfSeq DEF GuardsInv
  <1>4. /\ h \in Seq(Guard) /\ DOMAIN h = DOMAIN guards /\ Len(h) = Len(guards)
        /\ \A a \in DOMAIN guards : h[a].m_func = guards[a].m_func
        /\ \A a \in DOMAIN guards : ArmedAt(h, a) <=> ArmedAt(guards, a) /\ a # k
        /\ Armed(h) = Armed(guards) \ (IF e.m_dismiss THEN {} ELSE {e.m_func})
    <2>2. h = OneDismissed(guards, k)
      OBVIOUS
    <2> HIDE DEF h
    <2>3. Distinct(guards)
      BY DEF GuardsInv
    <2> HIDE DEF e
    <2>4. k \in DOMAIN guards /\ e = guards[k]
      BY DEF e
    <2>5. /\ h \in Seq(Guard) /\ DOMAIN h = DOMAIN guards /\ Len(h) = Len(guards)
          /\ \A a \in DOMAIN guards : h[a].m_func = guards[a].m_func
          /\ \A a \in DOMAIN guards : ArmedAt(h, a) <=> ArmedAt(guards, a) /\ a # k
          /\ Armed(h) = Armed(guards) \ (IF guards[k].m_dismiss THEN {} ELSE {guards[k].m_func})
      BY <1>3, <2>2, <2>3, ArmedDismissed
    <2> QED
      BY <2>4, <2>5
  <1>5. /\ g \in Seq(Guard) /\ DOMAIN g = DOMAIN h \cup {Len(h) + 1}
        /\ DOMAIN h = 1 .. Len(h) /\ Len(h) \in Nat
        /\ g[Len(h) + 1] = e /\ \A a \in DOMAIN h : g[a] = h[a]
        /\ Armed(g) = Armed(h) \cup (IF e.m_dismiss THEN {} ELSE {e.m_func})
    <2> HIDE DEF e, h
    <2> QED
      BY <1>3, <1>4, ArmedAppended
  <1>6. guards' = g
    BY <1>1
  <1>7. e.m_dismiss \in BOOLEAN /\ (~ e.m_dismiss => e.m_func \in Armed(guards))
    BY <1>3 DEF Guard, Armed, ArmedAt
  <1>k. k \in DOMAIN guards /\ e = guards[k]
    OBVIOUS
  <1> HIDE DEF e, h, g
  <1>8. Armed(g) = Armed(guards)
    BY <1>4, <1>5, <1>7
  <1>9. \A a \in DOMAIN g : g[a].m_func \in ToSet(acquired)
    BY <1>4, <1>5, <1>k DEF GuardsInv
  <1>10. ASSUME NEW a \in DOMAIN g, NEW b \in DOMAIN g, ArmedAt(g, a), ArmedAt(g, b),
                g[a].m_func = g[b].m_func
         PROVE  a = b
    <2>1. \A c \in DOMAIN h : ArmedAt(g, c) <=> ArmedAt(guards, c) /\ c # k
      BY <1>4, <1>5 DEF ArmedAt
    <2>2. ArmedAt(g, Len(h) + 1) => ArmedAt(guards, k)
      BY <1>5, <1>k, <1>3 DEF ArmedAt
    <2>3. \A c, d \in DOMAIN guards : ArmedAt(guards, c) /\ ArmedAt(guards, d)
                                       /\ guards[c].m_func = guards[d].m_func => c = d
      BY DEF GuardsInv, Distinct
    <2>4. CASE a \in DOMAIN h /\ b \in DOMAIN h
      BY <1>4, <1>5, <1>10, <2>1, <2>3, <2>4
    <2>5. CASE a \in DOMAIN h /\ b = Len(h) + 1
      <3>1. ArmedAt(guards, a) /\ a # k /\ ArmedAt(guards, k)
            /\ guards[a].m_func = guards[k].m_func /\ a \in DOMAIN guards
        BY <1>4, <1>5, <1>10, <1>k, <2>1, <2>2, <2>5
      <3> QED
        BY <3>1, <2>3, <1>k
    <2>6. CASE a = Len(h) + 1 /\ b \in DOMAIN h
      <3>1. ArmedAt(guards, b) /\ b # k /\ ArmedAt(guards, k)
            /\ guards[b].m_func = guards[k].m_func /\ b \in DOMAIN guards
        BY <1>4, <1>5, <1>10, <1>k, <2>1, <2>2, <2>6
      <3> QED
        BY <3>1, <2>3, <1>k
    <2> QED
      BY <1>5, <2>4, <2>5, <2>6
  <1>11. /\ Armed(guards)' = Armed(g) /\ \A a : ArmedAt(guards, a)' <=> ArmedAt(g, a)
         /\ ToSet(released)' = ToSet(released) /\ ToSet(acquired)' = ToSet(acquired)
         /\ IsInjective(acquired)' = IsInjective(acquired)
         /\ IsInjective(released)' = IsInjective(released) /\ moved' # {}
    BY <1>1, <1>2, <1>6 DEF Armed, ArmedAt, ToSet, IsInjective
  <1> QED
    BY <1>2, <1>5, <1>6, <1>8, <1>9, <1>10, <1>11 DEF GuardsInv, Distinct

LEMMA GuardsDismiss == GuardsInv /\ Guards!Dismiss => GuardsInv'
  <1> SUFFICES ASSUME GuardsInv, Guards!Dismiss PROVE GuardsInv'
    OBVIOUS
  <1>1. PICK k \in DOMAIN guards :
          /\ guards' = OneDismissed(guards, k)
          /\ kept' = IF guards[k].m_dismiss THEN kept ELSE kept \cup {guards[k].m_func}
    BY DEF Guards!Dismiss, OneDismissed
  <1>2. gpc = "run" /\ UNCHANGED <<gpc, acquired, released, unguarded, moved>>
    BY DEF Guards!Dismiss
  <1> DEFINE e == guards[k]
  <1>3. guards \in Seq(Guard) /\ e \in Guard /\ DOMAIN guards = 1 .. Len(guards)
    BY LenProperties, ElementOfSeq DEF GuardsInv
  <1>4. PICK h : h = OneDismissed(guards, k)
    OBVIOUS
  <1>5. /\ h \in Seq(Guard) /\ DOMAIN h = DOMAIN guards /\ Len(h) = Len(guards)
        /\ \A a \in DOMAIN guards : h[a].m_func = guards[a].m_func
        /\ \A a \in DOMAIN guards : ArmedAt(h, a) <=> ArmedAt(guards, a) /\ a # k
        /\ Armed(h) = Armed(guards) \ (IF e.m_dismiss THEN {} ELSE {e.m_func})
    <2>1. Distinct(guards)
      BY DEF GuardsInv
    <2> HIDE DEF e
    <2>2. k \in DOMAIN guards /\ e = guards[k]
      BY DEF e
    <2>5. /\ h \in Seq(Guard) /\ DOMAIN h = DOMAIN guards /\ Len(h) = Len(guards)
          /\ \A a \in DOMAIN guards : h[a].m_func = guards[a].m_func
          /\ \A a \in DOMAIN guards : ArmedAt(h, a) <=> ArmedAt(guards, a) /\ a # k
          /\ Armed(h) = Armed(guards) \ (IF guards[k].m_dismiss THEN {} ELSE {guards[k].m_func})
      BY <1>3, <1>4, <2>1, ArmedDismissed
    <2> QED
      BY <2>2, <2>5
  <1>6. guards' = h /\ kept' = kept \cup (IF e.m_dismiss THEN {} ELSE {e.m_func})
    BY <1>1, <1>4
  <1>7. e.m_dismiss \in BOOLEAN /\ (~ e.m_dismiss => e.m_func \in Armed(guards))
        /\ e.m_func \in ToSet(acquired)
    BY <1>3 DEF Guard, Armed, ArmedAt, GuardsInv
  <1> HIDE DEF e
  <1>8. /\ Armed(guards)' = Armed(h) /\ \A a : ArmedAt(guards, a)' <=> ArmedAt(h, a)
        /\ ToSet(released)' = ToSet(released) /\ ToSet(acquired)' = ToSet(acquired)
        /\ IsInjective(acquired)' = IsInjective(acquired)
        /\ IsInjective(released)' = IsInjective(released)
    BY <1>2, <1>6 DEF Armed, ArmedAt, ToSet, IsInjective
  <1>9. moved' = {} => InOrder(acquired, guards, released)'
    <2>1. InOrder(acquired, guards, released) => InOrder(acquired, h, released)
      BY <1>5 DEF InOrder
    <2> QED
      BY <1>2, <1>6, <2>1 DEF InOrder, Before, GuardsInv
  <1>10. /\ Armed(h) \cup kept' = Armed(guards) \cup kept
         /\ Armed(h) \cap ToSet(released) = {} /\ Armed(h) \cap kept' = {}
         /\ ToSet(released) \cap kept' = {} /\ kept' \subseteq ToSet(acquired)
    BY <1>5, <1>6, <1>7 DEF GuardsInv
  <1>11. ToSet(acquired) = Armed(h) \cup ToSet(released) \cup kept' \cup unguarded
    BY <1>2, <1>10 DEF GuardsInv
  <1>12. /\ \A a \in DOMAIN h : h[a].m_func \in ToSet(acquired)
         /\ \A a, b \in DOMAIN h : ArmedAt(h, a) /\ ArmedAt(h, b)
                                    /\ h[a].m_func = h[b].m_func => a = b
    BY <1>5 DEF GuardsInv, Distinct
  <1> QED
    BY <1>2, <1>5, <1>6, <1>8, <1>9, <1>10, <1>11, <1>12 DEF GuardsInv, Distinct

\* Destroying the youngest object releases what it guards.
LEMMA GuardsDestroy == GuardsInv /\ Guards!Destroy => GuardsInv'
  <1> SUFFICES ASSUME GuardsInv, Guards!Destroy PROVE GuardsInv'
    OBVIOUS
  <1> DEFINE e == guards[Len(guards)]
             f == SubSeq(guards, 1, Len(guards) - 1)
  <1>1. /\ gpc = "unwind" /\ guards # << >> /\ guards' = f
        /\ released' = IF e.m_dismiss THEN released ELSE Append(released, e.m_func)
        /\ UNCHANGED <<gpc, acquired, kept, unguarded, moved>>
    BY DEF Guards!Destroy, Guards!Front, Guards!Last
  <1>2. /\ guards \in Seq(Guard) /\ DOMAIN guards = 1 .. Len(guards)
        /\ Len(guards) \in Nat /\ Len(guards) # 0
    BY <1>1, LenProperties, EmptySeq DEF GuardsInv
  <1>3. e \in Guard /\ e.m_func \in Resources /\ e.m_dismiss \in BOOLEAN
    <2>1. e \in Guard
      BY <1>2, ElementOfSeq
    <2> HIDE DEF e
    <2> QED
      BY <2>1 DEF Guard
  <1>4. /\ f \in Seq(Guard) /\ Len(f) = Len(guards) - 1 /\ DOMAIN f = 1 .. Len(guards) - 1
        /\ \A a \in 1 .. Len(guards) - 1 : f[a] = guards[a]
    <2>1. \A a \in 1 .. Len(guards) - 1 : guards[a] \in Guard
      BY <1>2, ElementOfSeq
    <2>2. /\ f \in Seq(Guard) /\ Len(f) = Len(guards) - 1
          /\ \A a \in 1 .. Len(guards) - 1 : f[a] = guards[a]
      BY <1>2, <2>1, SubSeqProperties
    <2> QED
      BY <2>2, LenProperties
  <1> HIDE DEF f
  <1>5. \A a \in 1 .. Len(guards) - 1 : ArmedAt(f, a) <=> ArmedAt(guards, a)
    BY <1>2, <1>4 DEF ArmedAt
  <1>6. ArmedAt(guards, Len(guards)) <=> ~ e.m_dismiss
    BY <1>2 DEF ArmedAt
  <1>7. \A a, b \in DOMAIN guards : ArmedAt(guards, a) /\ ArmedAt(guards, b)
                                     /\ guards[a].m_func = guards[b].m_func => a = b
    BY DEF GuardsInv, Distinct
  <1>e. e = guards[Len(guards)] /\ Len(guards) \in DOMAIN guards
    BY <1>2
  <1>n. \A n \in 1 .. Len(guards) - 1 : n \in DOMAIN guards /\ n # Len(guards)
    <2>1. \A l \in Nat : \A n \in 1 .. l - 1 : n \in 1 .. l /\ n # l
      OBVIOUS
    <2> QED
      BY ONLY <1>2, <2>1, Zenon
  <1> HIDE DEF e
  <1>8. Armed(f) = Armed(guards) \ (IF e.m_dismiss THEN {} ELSE {e.m_func})
    <2>1. ASSUME NEW x \in Armed(f) PROVE x \in Armed(guards) /\ (~ e.m_dismiss => x # e.m_func)
      <3>1. PICK a \in 1 .. Len(guards) - 1 : ArmedAt(f, a) /\ x = f[a].m_func
        BY <1>4 DEF Armed
      <3>2. ArmedAt(guards, a) /\ x = guards[a].m_func
        BY <3>1, <1>4, <1>5
      <3>3. a \in DOMAIN guards /\ a # Len(guards)
        BY <3>1, <1>n
      <3> QED
        BY <3>2, <3>3, <1>6, <1>7, <1>e DEF Armed
    <2>2. ASSUME NEW x \in Armed(guards), ~ e.m_dismiss => x # e.m_func PROVE x \in Armed(f)
      <3>1. PICK a \in DOMAIN guards : ArmedAt(guards, a) /\ x = guards[a].m_func
        BY DEF Armed
      <3>2. a \in 1 .. Len(guards) - 1
        BY <2>2, <3>1, <1>2, <1>6, <1>e
      <3> QED
        BY <3>1, <3>2, <1>4, <1>5 DEF Armed
    <2> QED
      BY <2>1, <2>2, <1>3
  <1>9. e.m_func \in ToSet(acquired) /\ (~ e.m_dismiss => e.m_func \in Armed(guards))
    BY <1>6, <1>e DEF GuardsInv, Armed
  <1>10. PICK r : r = IF e.m_dismiss THEN released ELSE Append(released, e.m_func)
    OBVIOUS
  <1>11. /\ released \in Seq(Resources) /\ r \in Seq(Resources) /\ IsInjective(r)
         /\ ToSet(r) = ToSet(released) \cup (IF e.m_dismiss THEN {} ELSE {e.m_func})
    <2>1. released \in Seq(Resources) /\ IsInjective(released)
      BY DEF GuardsInv
    <2>2. CASE e.m_dismiss
      BY <2>1, <2>2, <1>10
    <2>3. CASE ~ e.m_dismiss
      <3>1. e.m_func \notin ToSet(released)
        BY <2>3, <1>9 DEF GuardsInv
      <3> QED
        BY <2>1, <2>3, <3>1, <1>3, <1>10, AppendElements
    <2> QED
      BY <2>2, <2>3
  <1>12. ASSUME moved = {} PROVE InOrder(acquired, f, r)
    <2>1. InOrder(acquired, guards, released)
      BY <1>12 DEF GuardsInv
    <2>2. \A a, b \in DOMAIN f : a < b => Before(acquired, f[a].m_func, f[b].m_func)
      BY <2>1, <1>2, <1>4 DEF InOrder
    <2>3. CASE e.m_dismiss
      <3>1. r = released
        BY <2>3, <1>10
      <3>2. \A a \in DOMAIN f, b \in DOMAIN r : Before(acquired, f[a].m_func, r[b])
        BY <3>1, <2>1, <1>2, <1>4 DEF InOrder
      <3> QED
        BY <2>1, <2>2, <3>1, <3>2 DEF InOrder
    <2>4. CASE ~ e.m_dismiss
      <3>1. /\ DOMAIN r = DOMAIN released \cup {Len(released) + 1}
            /\ DOMAIN released = 1 .. Len(released) /\ Len(released) \in Nat
            /\ r[Len(released) + 1] = e.m_func
            /\ \A a \in DOMAIN released : r[a] = released[a]
        <4>1. r = Append(released, e.m_func)
          BY <2>4, <1>10
        <4> QED
          BY <4>1, <1>3, <1>11, AppendProperties, LenProperties
      <3>2. ASSUME NEW a \in DOMAIN f, NEW b \in DOMAIN r
            PROVE  Before(acquired, f[a].m_func, r[b])
        <4>1. a \in DOMAIN guards /\ a < Len(guards) /\ f[a] = guards[a]
          BY <1>2, <1>4
        <4>2. CASE b \in DOMAIN released
          BY <2>1, <3>1, <4>1, <4>2 DEF InOrder
        <4>3. CASE b = Len(released) + 1
          <5>1. r[b] = guards[Len(guards)].m_func
            BY <3>1, <4>3, <1>e
          <5> QED
            BY <2>1, <4>1, <5>1, <1>e DEF InOrder
        <4> QED
          BY <3>1, <4>2, <4>3
      <3>3. ASSUME NEW a \in DOMAIN r, NEW b \in DOMAIN r, a < b
            PROVE  Before(acquired, r[b], r[a])
        <4>1. a \in DOMAIN released
          BY <3>1, <3>3
        <4>2. CASE b \in DOMAIN released
          BY <2>1, <3>1, <3>3, <4>1, <4>2 DEF InOrder
        <4>3. CASE b = Len(released) + 1
          <5>1. r[b] = guards[Len(guards)].m_func /\ r[a] = released[a]
            BY <3>1, <4>1, <4>3, <1>e
          <5> QED
            BY <2>1, <4>1, <5>1, <1>e DEF InOrder
        <4> QED
          BY <3>1, <4>2, <4>3
      <3> QED
        BY <2>2, <3>2, <3>3 DEF InOrder
    <2> QED
      BY <2>3, <2>4
  <1>13. /\ ToSet(r) \subseteq ToSet(acquired)
         /\ Armed(f) \cap ToSet(r) = {} /\ Armed(f) \cap kept = {} /\ ToSet(r) \cap kept = {}
         /\ ToSet(acquired) = Armed(f) \cup ToSet(r) \cup kept \cup unguarded
    <2>1. /\ ToSet(released) \subseteq ToSet(acquired)
          /\ Armed(guards) \cap ToSet(released) = {} /\ Armed(guards) \cap kept = {}
          /\ ToSet(released) \cap kept = {}
          /\ ToSet(acquired) = Armed(guards) \cup ToSet(released) \cup kept \cup unguarded
      BY <1>1 DEF GuardsInv
    <2> QED
      BY <2>1, <1>3, <1>8, <1>9, <1>11
  <1>14. /\ \A a \in DOMAIN f : f[a].m_func \in ToSet(acquired)
         /\ \A a, b \in DOMAIN f : ArmedAt(f, a) /\ ArmedAt(f, b)
                                    /\ f[a].m_func = f[b].m_func => a = b
    <2>1. \A a \in DOMAIN f : a \in DOMAIN guards /\ f[a] = guards[a]
      BY <1>2, <1>4
    <2>2. \A a \in DOMAIN f : ArmedAt(f, a) <=> ArmedAt(guards, a)
      BY <1>4, <1>5
    <2> QED
      BY <2>1, <2>2, <1>7 DEF GuardsInv
  <1>15. guards' = f /\ released' = r
    BY <1>1, <1>10
  <1>16. /\ Armed(guards)' = Armed(f) /\ \A a : ArmedAt(guards, a)' <=> ArmedAt(f, a)
         /\ ToSet(released)' = ToSet(r) /\ ToSet(acquired)' = ToSet(acquired)
         /\ IsInjective(acquired)' = IsInjective(acquired)
         /\ IsInjective(released)' = IsInjective(r)
         /\ InOrder(acquired, guards, released)' <=> InOrder(acquired, f, r)
    BY <1>1, <1>15 DEF Armed, ArmedAt, ToSet, IsInjective, InOrder, Before
  <1> QED
    BY <1>1, <1>4, <1>11, <1>12, <1>13, <1>14, <1>15, <1>16 DEF GuardsInv, Distinct

\* Every step of the scope.
LEMMA GuardsStep == GuardsInv /\ Guards!Next => GuardsInv'
  <1> SUFFICES ASSUME GuardsInv, Guards!Next PROVE GuardsInv'
    OBVIOUS
  <1>1. ASSUME Guards!Leave \/ Guards!CallbackThrows \/ Guards!Left PROVE GuardsInv'
    <2>1. /\ gpc \in {"run", "unwind"} /\ gpc' \in {"unwind", "terminated", "left"}
          /\ gpc' = "left" => guards = << >>
          /\ UNCHANGED <<acquired, guards, released, kept, unguarded, moved>>
      BY <1>1 DEF Guards!Leave, Guards!CallbackThrows, Guards!Left
    <2>2. /\ Armed(guards)' = Armed(guards) /\ ToSet(acquired)' = ToSet(acquired)
          /\ ToSet(released)' = ToSet(released)
          /\ InOrder(acquired, guards, released)' <=> InOrder(acquired, guards, released)
          /\ \A a : ArmedAt(guards, a)' <=> ArmedAt(guards, a)
          /\ IsInjective(acquired)' = IsInjective(acquired)
          /\ IsInjective(released)' = IsInjective(released)
      BY <2>1 DEF Armed, ArmedAt, ToSet, IsInjective, InOrder, Before
    <2> QED
      BY <2>1, <2>2 DEF GuardsInv
  <1> QED
    BY <1>1, GuardsAcquire, GuardsMake, GuardsMakeThrows, GuardsMove, GuardsDismiss,
       GuardsDestroy DEF Guards!Next

LEMMA GuardsRight == GuardsInv => Guards!ReleasedOnce
  <1> SUFFICES ASSUME GuardsInv PROVE Guards!ReleasedOnce
    OBVIOUS
  <1>1. Guards!Range(released) = ToSet(released) /\ Guards!Range(acquired) = ToSet(acquired)
        /\ Guards!IsInjective(released) = IsInjective(released)
    BY DEF Guards!Range, ToSet, Guards!IsInjective, IsInjective
  <1>2. ASSUME gpc = "left" PROVE ToSet(acquired) = ToSet(released) \cup kept \cup unguarded
    <2>1. guards = << >> /\ DOMAIN << >> = {}
      BY <1>2 DEF GuardsInv
    <2>2. Armed(guards) = {}
      BY <2>1 DEF Armed
    <2> QED
      BY <1>2, <2>2 DEF GuardsInv
  <1>3. ASSUME NEW a \in DOMAIN released, NEW b \in DOMAIN released, a < b, moved = {}
        PROVE  \A m, n \in DOMAIN acquired :
                 acquired[m] = released[a] /\ acquired[n] = released[b] => n < m
    BY <1>3 DEF GuardsInv, InOrder, Before
  <1> QED
    BY <1>1, <1>2, <1>3 DEF GuardsInv, Distinct, Guards!ReleasedOnce

\* The scope has room for its guards, and for the one that is being made.
GuardsFit == Len(guards) <= MaxGuards /\ (gpc = "make" => Len(guards) < MaxGuards)

\* There is no guard at the start.
LEMMA FitInit == ASSUME NEW on \in BOOLEAN PROVE Guards!Launched(on) => GuardsFit
  BY EmptySeq, ClassAssumption DEF Guards!Launched, GuardsFit

\* A guard is made or moved only where there is room.
LEMMA FitStep == GuardsInv /\ GuardsFit /\ (Guards!Next \/ UNCHANGED guardVars) => GuardsFit'
  <1> SUFFICES ASSUME GuardsInv, GuardsFit, Guards!Next \/ UNCHANGED guardVars PROVE GuardsFit'
    OBVIOUS
  <1>1. guards \in Seq(Guard) /\ Len(guards) \in Nat /\ MaxGuards \in Nat /\ DOMAIN guards = 1 .. Len(guards)
    BY LenProperties, ClassAssumption DEF GuardsInv
  <1>2. ASSUME NEW k \in DOMAIN guards, NEW g \in Guard
        PROVE  [guards EXCEPT ![k] = g] \in Seq(Guard) /\ Len([guards EXCEPT ![k] = g]) = Len(guards)
    BY <1>1, ExceptSeq
  <1>3. ASSUME NEW k \in DOMAIN guards PROVE Guards!Dismissed(guards[k]) \in Guard
    <2>1. guards[k] \in Guard
      BY <1>1, ElementOfSeq
    <2>2. \A g \in Guard : Guards!Dismissed(g) \in Guard
      BY DEF Guards!Dismissed, Guard
    <2> QED
      BY <2>1, <2>2
  <1>4. CASE UNCHANGED guardVars
    BY <1>4 DEF guardVars, GuardsFit
  <1>5. CASE Guards!Acquire
    BY <1>5 DEF Guards!Acquire, GuardsFit
  <1>6. CASE Guards!Make
    <2>1. /\ gpc = "make" /\ gpc' = "run"
          /\ guards' = Append(guards, Guards!ScopeGuard(Guards!Last(acquired)))
      BY <1>6 DEF Guards!Make
    <2>2. acquired # << >> /\ acquired \in Seq(Resources)
      BY <2>1 DEF GuardsInv
    <2>3. Guards!ScopeGuard(Guards!Last(acquired)) \in Guard
      BY <2>1, <2>2 DEF GuardsInv, Guards!Last, Guards!ScopeGuard, Guard
    <2>4. Len(guards') = Len(guards) + 1
      BY <1>1, <2>1, <2>3, AppendProperties
    <2> QED
      BY <1>1, <2>1, <2>4 DEF GuardsFit
  <1>7. CASE Guards!Move
    <2>1. PICK k \in DOMAIN guards :
            guards' = Append([guards EXCEPT ![k] = Guards!Dismissed(guards[k])], guards[k])
      BY <1>7 DEF Guards!Move, Guards!Source
    <2>2. /\ [guards EXCEPT ![k] = Guards!Dismissed(guards[k])] \in Seq(Guard)
          /\ Len([guards EXCEPT ![k] = Guards!Dismissed(guards[k])]) = Len(guards)
          /\ guards[k] \in Guard
      BY <1>1, <1>2, <1>3, ElementOfSeq
    <2>3. Len(guards') = Len(guards) + 1
      BY <2>1, <2>2, AppendProperties
    <2> QED
      BY <1>1, <1>7, <2>3 DEF Guards!Move, GuardsFit
  <1>8. CASE Guards!Dismiss
    <2>1. PICK k \in DOMAIN guards : guards' = [guards EXCEPT ![k] = Guards!Dismissed(guards[k])]
      BY <1>8 DEF Guards!Dismiss
    <2>2. Len(guards') = Len(guards)
      BY <1>2, <1>3, <2>1
    <2> QED
      BY <1>1, <1>8, <2>2 DEF Guards!Dismiss, GuardsFit
  <1>9. CASE Guards!Destroy
    <2>1. guards # << >> /\ guards' = Guards!Front(guards) /\ gpc' = "unwind"
      BY <1>9 DEF Guards!Destroy
    <2>2. Guards!Front(guards) = SubSeq(guards, 1, Len(guards) - 1)
      BY DEF Guards!Front
    <2>3. /\ 1 \in Int /\ Len(guards) - 1 \in Int
          /\ \A a \in 1 .. Len(guards) - 1 : guards[a] \in Guard
      BY <1>1, ElementOfSeq
    <2>4. Len(guards') = IF 1 <= Len(guards) - 1 THEN (Len(guards) - 1) - 1 + 1 ELSE 0
      BY <2>1, <2>2, <2>3, SubSeqProperties
    <2>5. Len(guards') <= MaxGuards
      <3>1. Len(guards) <= MaxGuards /\ \A m, n \in Nat :
              n <= m => (IF 1 <= n - 1 THEN (n - 1) - 1 + 1 ELSE 0) <= m
        BY DEF GuardsFit
      <3> QED
        BY <1>1, <2>4, <3>1
    <2> QED
      BY <2>1, <2>5 DEF GuardsFit
  <1>10. CASE Guards!MakeThrows \/ Guards!Leave \/ Guards!CallbackThrows \/ Guards!Left
    BY <1>10 DEF Guards!MakeThrows, Guards!Leave, Guards!CallbackThrows, Guards!Left, GuardsFit
  <1> QED
    BY <1>4, <1>5, <1>6, <1>7, <1>8, <1>9, <1>10 DEF Guards!Next

-----------------------------------------------------------------------------
(* Chapter3.                                                               *)

\* Of the numbers whose task is done the results have come, each once.
Results == {Ch3!Result(n) : n \in Ch3!Range(Numbers)}

Collected == /\ results2 \in Seq(Results) /\ IsInjective(results2)
             /\ ToSet(results2) = {Ch3!Result(n) : n \in Ch3!Range(Numbers) \ todo}

Serial == [i \in DOMAIN Numbers |-> Ch3!Result(Numbers[i])]

Ch3Inv == /\ todo \subseteq Ch3!Range(Numbers) /\ results1 \in {<< >>, Serial}
          /\ at = "run" => Collected
          /\ test = "test_ppl" /\ at # "run" => todo = {}
          /\ words \in Seq(Words) /\ histogram \in [Words -> Nat]
          /\ test = "test_map" => \A w \in Words : histogram[w] = Occurrences(words, w)
          /\ Ch3!ResultsRight

\* The numbers of test_ppl() rise and are natural.
LEMMA NumbersAre ==
  /\ Numbers \in Seq(Nat) /\ RisesIn(Numbers) /\ Ch3!Range(Numbers) = ToSet(Numbers)
  /\ Ch3!Range(Numbers) \subseteq Nat
  <1>1. Numbers \in Seq(Nat) /\ RisesIn(Numbers)
    BY ClassAssumption DEF RisesIn
  <1>2. Ch3!Range(Numbers) = ToSet(Numbers)
    BY DEF Ch3!Range, ToSet
  <1>3. ToSet(Numbers) \subseteq Nat
    BY <1>1, ElementOfSeq DEF ToSet
  <1> QED
    BY <1>1, <1>2, <1>3

\* The operators the instance of Chapter3 has are those of the lemmas.
LEMMA Ch3Operators ==
  /\ \A S : Ch3!Cardinality(S) = Cardinality(S)
  /\ \A I, n : Ch3!Place(I, n) = Place(I, n)
  /\ \A s, I : Ch3!Selected(s, I) = Selected(s, I)
  <1>1. ASSUME NEW S PROVE Ch3!Cardinality(S) = Cardinality(S)
    BY DEF Ch3!Cardinality, Cardinality
  <1>2. ASSUME NEW I, NEW n PROVE Ch3!Place(I, n) = Place(I, n)
    BY <1>1 DEF Ch3!Place, Place
  <1>3. ASSUME NEW s, NEW I PROVE Ch3!Selected(s, I) = Selected(s, I)
    BY <1>1, <1>2 DEF Ch3!Selected, Selected
  <1> QED
    BY <1>1, <1>2, <1>3

\* test_ppl() and the other tests begin with no result.
LEMMA Ch3Init == ASSUME NEW on \in BOOLEAN PROVE Ch3!Launched(on) => Ch3Inv
  <1> SUFFICES ASSUME Ch3!Launched(on) PROVE Ch3Inv
    OBVIOUS
  <1>1. /\ at = "run" /\ results1 = << >> /\ results2 = << >> /\ todo = Ch3!Range(Numbers)
        /\ words = << >> /\ histogram = [w \in Words |-> 0]
    BY DEF Ch3!Launched
  <1>2. DOMAIN << >> = {} /\ \A S : << >> \in Seq(S)
    OBVIOUS
  <1>3. Collected
    BY <1>1, <1>2 DEF Collected, IsInjective, ToSet
  <1>4. ASSUME NEW w \in Words PROVE Occurrences(<< >>, w) = 0
    <2>1. << >> \in Seq(Words) /\ w \notin ToSet(<< >>)
      BY <1>2 DEF ToSet
    <2> QED
      BY <2>1, FinitePlaces
  <1> QED
    BY <1>1, <1>3, <1>4 DEF Ch3Inv, Ch3!ResultsRight

\* They stay right while another program runs.
LEMMA Ch3Stays == Ch3Inv /\ UNCHANGED ch3Vars => Ch3Inv'
  <1> SUFFICES ASSUME Ch3Inv, UNCHANGED ch3Vars PROVE Ch3Inv'
    OBVIOUS
  <1>1. /\ test' = test /\ at' = at /\ results1' = results1 /\ results2' = results2
        /\ todo' = todo /\ words' = words /\ histogram' = histogram /\ shown' = shown
    BY DEF ch3Vars
  <1>2. Ch3!ResultsRight'
    BY <1>1 DEF Ch3Inv, Ch3!ResultsRight, Ch3!Occurrences
  <1> QED
    BY <1>1, <1>2 DEF Ch3Inv, Collected, Serial

\* What sort() leaves is a queue of the same elements, as often each.
LEMMA SortedProperties ==
  ASSUME NEW S, NEW s \in Seq(S), NEW b \in [DOMAIN s -> Ch3!Range(s)],
         \A x \in Ch3!Range(s) : Occurrences(b, x) = Occurrences(s, x)
  PROVE  /\ b \in Seq(S) /\ DOMAIN b = DOMAIN s /\ DOMAIN s = 1 .. Len(s) /\ Len(s) \in Nat
         /\ ToSet(b) = ToSet(s) /\ ToSet(s) \subseteq S
         /\ \A x \in ToSet(s) : Occurrences(b, x) = Occurrences(s, x)
  <1>2. Ch3!Range(s) = ToSet(s)
    BY DEF Ch3!Range, ToSet
  <1>3. DOMAIN b = DOMAIN s /\ DOMAIN s = 1 .. Len(s) /\ Len(s) \in Nat /\ ToSet(s) \subseteq S
    BY LenProperties, ElementOfSeq DEF ToSet
  <1>4. b \in Seq(S)
    BY <1>2, <1>3, SeqDef
  <1>5. \A x \in ToSet(s) : Occurrences(b, x) = Occurrences(s, x)
    BY <1>2
  <1>6. ToSet(b) \subseteq ToSet(s)
    BY <1>2, <1>3 DEF ToSet
  <1>7. ASSUME NEW x \in ToSet(s) PROVE x \in ToSet(b)
    BY <1>4, <1>5, FinitePlaces
  <1> QED
    BY <1>3, <1>4, <1>5, <1>6, <1>7

\* A task of parallel_for_each() adds the result of its number.
LEMMA Ch3Task ==
  ASSUME Ch3Inv, NEW n \in Ch3!Range(Numbers), Ch3!Task(n)
  PROVE  Ch3Inv'
  <1> USE DEF Ch3Inv
  <1>1. /\ test = "test_ppl" /\ n \in todo /\ results2' = Append(results2, Ch3!Result(n))
        /\ todo' = todo \ {n}
        /\ UNCHANGED <<test, at, results1, words, histogram, shown>>
    BY DEF Ch3!Task
  <1>2. at = "run" /\ Collected
    BY <1>1
  <1> DEFINE x == Ch3!Result(n)
  <1>3. x \in Results /\ \A k : Ch3!Result(k)[1] = k
    BY DEF Ch3!Result, Results
  <1>4. results2 \in Seq(Results) /\ IsInjective(results2)
    BY <1>2 DEF Collected
  <1>5. x \notin ToSet(results2)
    BY <1>1, <1>2, <1>3 DEF Collected
  <1>6. /\ results2' \in Seq(Results) /\ ToSet(results2') = ToSet(results2) \cup {x}
        /\ IsInjective(results2')
    <2> HIDE DEF x
    <2>1. results2' = Append(results2, x)
      BY <1>1 DEF x
    <2> QED
      BY ONLY <1>3, <1>4, <1>5, <2>1, AppendElements
  <1>8. ToSet(results2') = {Ch3!Result(k) : k \in Ch3!Range(Numbers) \ todo'}
    BY <1>1, <1>2, <1>6 DEF Collected
  <1>9. Ch3!ResultsRight'
    BY <1>1, <1>2 DEF Ch3!ResultsRight
  <1>10. Collected'
    BY <1>6, <1>8 DEF Collected
  <1> QED
    BY <1>1, <1>2, <1>9, <1>10 DEF Serial

\* The parallel results, sorted, are those of the serial loop: both rise, and
\* hold the same pairs.
LEMMA Ch3Sort == Ch3Inv /\ Ch3!Sort => Ch3Inv'
  <1> SUFFICES ASSUME Ch3Inv, Ch3!Sort PROVE Ch3Inv'
    OBVIOUS
  <1> USE DEF Ch3Inv
  <1> DEFINE b == results2'
             p == [i \in DOMAIN b |-> b[i][1]]
  <1>1. /\ test = "test_ppl" /\ at = "run" /\ results1 = Serial /\ todo = {} /\ at' = "end"
        /\ UNCHANGED <<test, results1, todo, words, histogram, shown>>
    BY DEF Ch3!Sort
  <1>2. /\ b \in [DOMAIN results2 -> Ch3!Range(results2)]
        /\ \A i, j \in DOMAIN results2 : i < j => ~ Ch3!TupleLess(b[j], b[i])
        /\ \A x \in Ch3!Range(results2) : Cardinality({i \in DOMAIN results2 : b[i] = x})
                                          = Cardinality({i \in DOMAIN results2 : results2[i] = x})
    BY Ch3Operators DEF Ch3!Sort, Ch3!Sorted, Ch3!SortedBy
  <1>3. Collected
    BY <1>1
  <1> HIDE DEF b
  <1>4. /\ b \in Seq(Results) /\ DOMAIN b = DOMAIN results2 /\ ToSet(b) = ToSet(results2)
        /\ DOMAIN b = 1 .. Len(b) /\ Len(b) \in Nat
        /\ \A x \in ToSet(b) : Occurrences(b, x) = Occurrences(results2, x)
    <2>1. \A x \in Ch3!Range(results2) : Occurrences(b, x) = Occurrences(results2, x)
      BY <1>2 DEF Occurrences
    <2>2. results2 \in Seq(Results) /\ b \in [DOMAIN results2 -> Ch3!Range(results2)]
      BY <1>2, <1>3 DEF Collected
    <2> QED
      BY <2>1, <2>2, SortedProperties
  <1>5. IsInjective(b)
    BY <1>3, <1>4, InjectiveOccurrences DEF Collected
  <1>6. ToSet(b) = {Ch3!Result(n) : n \in Ch3!Range(Numbers)}
    BY <1>1, <1>3, <1>4 DEF Collected
  <1>7. \A i \in DOMAIN b : b[i][1] \in Ch3!Range(Numbers) /\ b[i] = Ch3!Result(b[i][1])
    BY <1>6 DEF ToSet, Ch3!Result
  <1>8. p \in Seq(Int) /\ DOMAIN p = DOMAIN b
    <2>1. p \in [1 .. Len(b) -> Int]
      BY <1>4, <1>7, NumbersAre
    <2> QED
      BY <1>4, <2>1, SeqDef
  <1>9. RisesIn(p)
    <2> SUFFICES ASSUME NEW i \in DOMAIN b, NEW j \in DOMAIN b, i < j PROVE p[i] < p[j]
      BY DEF RisesIn
    <2>1. ~ Ch3!TupleLess(b[j], b[i])
      BY <1>2, <1>4
    <2>2. b[i] # b[j]
      BY <1>4, <1>5 DEF IsInjective
    <2>3. b[i][1] # b[j][1]
      BY <1>7, <2>2
    <2>4. b[i][1] \in Nat /\ b[j][1] \in Nat
      BY <1>7, NumbersAre
    <2> QED
      BY <2>1, <2>3, <2>4 DEF Ch3!TupleLess
  <1>10. ToSet(p) = ToSet(Numbers)
    <2>1. ASSUME NEW n \in Ch3!Range(Numbers) PROVE n \in ToSet(p)
      <3>1. PICK i \in DOMAIN b : b[i] = Ch3!Result(n)
        BY <1>6 DEF ToSet
      <3>2. p[i] = n
        BY <3>1 DEF Ch3!Result
      <3> QED
        BY <3>2 DEF ToSet
    <2>2. ASSUME NEW n \in ToSet(p) PROVE n \in Ch3!Range(Numbers)
      BY <1>7 DEF ToSet
    <2> QED
      BY <2>1, <2>2, NumbersAre
  <1>11. p = Numbers
    <2>1. Numbers \in Seq(Int)
      <3>1. Nat \subseteq Int
        OBVIOUS
      <3> QED
        BY <3>1, NumbersAre, LenProperties, ElementOfSeq, SeqDef
    <2> HIDE DEF p
    <2> QED
      BY <1>8, <1>9, <1>10, <2>1, NumbersAre, RisingUnique
  <1>12. b = Serial
    <2>1. DOMAIN b = DOMAIN Numbers /\ \A i \in DOMAIN b : b[i] = Ch3!Result(Numbers[i])
      BY <1>7, <1>8, <1>11
    <2> QED
      BY <1>4, <2>1 DEF Serial
  <1>13. Ch3!ResultsRight'
    BY <1>1, <1>12 DEF Ch3!ResultsRight, Serial, b
  <1> QED
    BY <1>1, <1>13 DEF Serial

\* Of a sequence in some order of the keys the first of each run of one key:
\* each key once, in their order.
LEMMA OncePerKey ==
  ASSUME NEW S, NEW q, q \in Seq(S), NEW key \in [S -> Int], NEW b, b \in [DOMAIN q -> Ch3!Range(q)],
         \A x \in Ch3!Range(q) : Occurrences(b, x) = Occurrences(q, x),
         KeysAscend(b, key), NEW p, p = Selected(b, RunStarts(b, key))
  PROVE  /\ p \in Seq(S) /\ Ch3!Range(p) \subseteq Ch3!Range(q) /\ KeysRise(p, key)
         /\ \A x \in Ch3!Range(q) : \E y \in Ch3!Range(p) : key[y] = key[x]
         /\ \A i \in DOMAIN p : p[i] \in S
         /\ Ch3!Range(q) \subseteq S
  <1>1. /\ b \in Seq(S) /\ DOMAIN b = DOMAIN q /\ ToSet(b) = ToSet(q)
        /\ DOMAIN b = 1 .. Len(b) /\ Len(b) \in Nat
    BY SortedProperties, LenProperties
  <1>5. /\ p \in Seq(S) /\ ToSet(p) \subseteq ToSet(b) /\ KeysRise(p, key)
        /\ \A x \in ToSet(b) : \E y \in ToSet(p) : key[y] = key[x]
    <2>1. /\ b \in Seq(S) /\ key \in [S -> Int] /\ p = Selected(b, RunStarts(b, key))
          /\ KeysAscend(b, key)
      BY <1>1
    <2> QED
      BY ONLY <2>1, FirstOfRuns
  <1>6. Ch3!Range(p) = ToSet(p) /\ Ch3!Range(q) = ToSet(b)
    BY <1>1 DEF Ch3!Range, ToSet
  <1>7. \A i \in DOMAIN p : p[i] \in S
    BY <1>5, LenProperties, ElementOfSeq
  <1>8. ToSet(b) \subseteq S
    BY <1>1, ElementOfSeq DEF ToSet
  <1> QED
    BY <1>5, <1>6, <1>7, <1>8

\* test_alg(): sorted by name, the unique copy begins each run of one name.
LEMMA Ch3TestAlg == Ch3Inv /\ Ch3!TestAlg => Ch3Inv'
  <1> SUFFICES ASSUME Ch3Inv, Ch3!TestAlg PROVE Ch3Inv'
    OBVIOUS
  <1> DEFINE Entry == [name : Nat, number : Nat]
             key == [e \in Entry |-> e.name]
  <1>1. /\ test = "test_alg" /\ at = "run" /\ at' = "end"
        /\ UNCHANGED <<test, results1, results2, todo, words, histogram>>
    BY DEF Ch3!TestAlg
  <1>2. PICK b \in [DOMAIN Book -> Ch3!Range(Book)] :
          /\ \A i, j \in DOMAIN Book : i < j => ~ b[j].name < b[i].name
          /\ \A x \in Ch3!Range(Book) : Occurrences(b, x) = Occurrences(Book, x)
          /\ shown' = Selected(b, {i \in DOMAIN b : i = 1 \/ ~ b[i - 1].name = b[i].name})
    BY Ch3Operators
       DEF Ch3!TestAlg, Ch3!SortedBy, Ch3!EntryLess, Ch3!UniqueCopy, Ch3!EntryEqual, Occurrences
  <1>3. PICK p : p = shown'
    OBVIOUS
  <1>4. Book \in Seq(Entry)
    BY ClassAssumption
  <1>5. key \in [Entry -> Int] /\ \A e \in Entry : key[e] = e.name
    OBVIOUS
  <1> HIDE DEF Entry, key
  <1>6. DOMAIN b = DOMAIN Book /\ DOMAIN Book = 1 .. Len(Book) /\ Len(Book) \in Nat
        /\ \A i \in DOMAIN b : b[i] \in Entry
    BY <1>4, LenProperties, ElementOfSeq DEF Ch3!Range
  <1>7. KeysAscend(b, key)
    BY <1>2, <1>5, <1>6 DEF KeysAscend
  <1>8. p = Selected(b, RunStarts(b, key))
    <2>1. RunStarts(b, key) = {i \in DOMAIN b : i = 1 \/ ~ b[i - 1].name = b[i].name}
      BY <1>5, <1>6 DEF RunStarts
    <2> QED
      BY <1>2, <1>3, <2>1
  <1>9. /\ p \in Seq(Entry) /\ Ch3!Range(p) \subseteq Ch3!Range(Book) /\ KeysRise(p, key)
        /\ \A x \in Ch3!Range(Book) : \E y \in Ch3!Range(p) : key[y] = key[x]
        /\ \A i \in DOMAIN p : p[i] \in Entry
        /\ Ch3!Range(Book) \subseteq Entry
    BY <1>2, <1>4, <1>5, <1>7, <1>8, OncePerKey
  <1>10. Ch3!Ascending([i \in DOMAIN p |-> p[i].name])
    BY <1>5, <1>9 DEF Ch3!Ascending, KeysRise
  <1>11. {e.name : e \in Ch3!Range(p)} = {e.name : e \in Ch3!Range(Book)}
    BY <1>5, <1>9
  <1>12. Ch3!ResultsRight'
    BY <1>1, <1>3, <1>9, <1>10, <1>11 DEF Ch3!ResultsRight
  <1> QED
    BY <1>1, <1>12 DEF Ch3Inv, Serial

\* test_rwf(): what is written rises and is what was read.
LEMMA Ch3SortAndWrite == Ch3Inv /\ Ch3!SortAndWrite => Ch3Inv'
  <1> SUFFICES ASSUME Ch3Inv, Ch3!SortAndWrite PROVE Ch3Inv'
    OBVIOUS
  <1> DEFINE key == [w \in Words |-> w]
  <1>1. /\ test = "test_rwf" /\ at = "run" /\ at' = "end"
        /\ UNCHANGED <<test, results1, results2, todo, words, histogram>>
    BY DEF Ch3!SortAndWrite
  <1>2. PICK b \in [DOMAIN words -> Ch3!Range(words)] :
          /\ \A i, j \in DOMAIN words : i < j => ~ b[j] < b[i]
          /\ \A x \in Ch3!Range(words) : Occurrences(b, x) = Occurrences(words, x)
          /\ shown' = Selected(b, {i \in DOMAIN b : i = 1 \/ ~ b[i - 1] = b[i]})
    BY Ch3Operators
       DEF Ch3!SortAndWrite, Ch3!SortedBy, Ch3!WordLess, Ch3!UniqueCopy, Ch3!WordEqual, Occurrences
  <1>3. PICK p : p = shown'
    OBVIOUS
  <1>4. words \in Seq(Words)
    BY DEF Ch3Inv
  <1>5. key \in [Words -> Int] /\ \A w \in Words : key[w] = w
    BY ClassAssumption
  <1> HIDE DEF key
  <1>6. DOMAIN b = DOMAIN words /\ DOMAIN words = 1 .. Len(words) /\ Len(words) \in Nat
        /\ \A i \in DOMAIN b : b[i] \in Words
    BY <1>4, LenProperties, ElementOfSeq DEF Ch3!Range
  <1>7. KeysAscend(b, key)
    <2>1. \A w \in Words : w \in Nat
      BY ClassAssumption
    <2> QED
      BY <1>2, <1>5, <1>6, <2>1 DEF KeysAscend
  <1>8. p = Selected(b, RunStarts(b, key))
    <2>1. RunStarts(b, key) = {i \in DOMAIN b : i = 1 \/ ~ b[i - 1] = b[i]}
      BY <1>5, <1>6 DEF RunStarts
    <2> QED
      BY <1>2, <1>3, <2>1
  <1>9. /\ p \in Seq(Words) /\ Ch3!Range(p) \subseteq Ch3!Range(words) /\ KeysRise(p, key)
        /\ \A x \in Ch3!Range(words) : \E y \in Ch3!Range(p) : key[y] = key[x]
        /\ \A i \in DOMAIN p : p[i] \in Words
        /\ Ch3!Range(words) \subseteq Words
    <2>1. /\ b \in [DOMAIN words -> Ch3!Range(words)]
          /\ \A x \in Ch3!Range(words) : Occurrences(b, x) = Occurrences(words, x)
      BY <1>2
    <2>2. key \in [Words -> Int]
      BY <1>5
    <2> QED
      BY ONLY <1>4, <1>7, <1>8, <2>1, <2>2, OncePerKey
  <1>10. Ch3!Ascending(p)
    BY <1>5, <1>9 DEF Ch3!Ascending, KeysRise
  <1>11. Ch3!Range(p) = Ch3!Range(words)
    BY <1>5, <1>9
  <1>12. Ch3!ResultsRight'
    BY <1>1, <1>3, <1>10, <1>11 DEF Ch3!ResultsRight
  <1> QED
    BY <1>1, <1>12 DEF Ch3Inv, Serial

\* A word that is read is counted once.
LEMMA Ch3Read == Ch3Inv /\ Ch3!Read => Ch3Inv'
  <1> SUFFICES ASSUME Ch3Inv, Ch3!Read PROVE Ch3Inv'
    OBVIOUS
  <1>1. PICK w \in Words :
          /\ test \in {"test_map", "test_rwf"} /\ at = "run" /\ words' = Append(words, w)
          /\ histogram' = IF test = "test_map" THEN [histogram EXCEPT ![w] = @ + 1] ELSE histogram
          /\ UNCHANGED <<test, at, results1, results2, todo, shown>>
    BY DEF Ch3!Read
  <1>2. words \in Seq(Words) /\ histogram \in [Words -> Nat] /\ Ch3!ResultsRight
    BY DEF Ch3Inv
  <1>3. words' \in Seq(Words) /\ words' = words \o <<w>> /\ <<w>> \in Seq(Words)
    BY <1>1, <1>2
  <1>4. histogram' \in [Words -> Nat]
    BY <1>1, <1>2
  <1>5. ASSUME test = "test_map", NEW v \in Words PROVE histogram'[v] = Occurrences(words', v)
    <2>1. Occurrences(words', v) = Occurrences(words, v) + Occurrences(<<w>>, v)
      BY <1>2, <1>3, ConcatOccurrences
    <2>2. histogram[v] = Occurrences(words, v) /\ histogram[v] \in Nat
      BY <1>2, <1>5 DEF Ch3Inv
    <2>3. histogram'[v] = IF v = w THEN histogram[v] + 1 ELSE histogram[v]
      BY <1>1, <1>2, <1>5
    <2> QED
      BY <2>1, <2>2, <2>3, SingleOccurrence
  <1>6. Ch3!ResultsRight'
    BY <1>1 DEF Ch3!ResultsRight
  <1> QED
    BY <1>1, <1>3, <1>4, <1>5, <1>6 DEF Ch3Inv, Collected, Serial

\* test_map(): what find_if() finds has been read so often.
LEMMA Ch3FindIf == Ch3Inv /\ Ch3!FindIf => Ch3Inv'
  <1> SUFFICES ASSUME Ch3Inv, Ch3!FindIf PROVE Ch3Inv'
    OBVIOUS
  <1>1. /\ test = "test_map" /\ at = "run"
        /\ UNCHANGED <<test, results1, results2, todo, words, histogram>>
    BY DEF Ch3!FindIf
  <1>2. \A w \in Words : histogram[w] = Ch3!Occurrences(w) /\ histogram[w] \in Nat
    BY <1>1, Ch3Operators DEF Ch3Inv, Ch3!Occurrences, Occurrences
  <1> DEFINE Common == {w \in Words : Ch3!Gt4(w)}
  <1>3. Ch3!ResultsRight'
    <2>1. CASE \E w \in Words : Ch3!Gt4(w)
      <3> DEFINE least == CHOOSE w \in Words : Ch3!Gt4(w) /\ \A v \in Words : Ch3!Gt4(v) => w <= v
      <3>1. at' = "end" /\ shown' = <<least>>
        BY <2>1 DEF Ch3!FindIf
      <3>2. PICK x \in Common : \A y \in Common : x <= y
        BY <2>1, LeastNumber, ClassAssumption
      <3>3. PICK u \in Words : Ch3!Gt4(u) /\ shown' = <<u>>
        BY <3>1, <3>2
      <3>4. Ch3!Occurrences(u) > Many
        BY <1>2, <3>3 DEF Ch3!Gt4
      <3>5. shown'[1] = u
        BY <3>3
      <3> QED
        BY <1>1, <3>1, <3>4, <3>5 DEF Ch3!ResultsRight, Ch3!Occurrences
    <2>2. CASE ~ \E w \in Words : Ch3!Gt4(w)
      <3>1. at' = "crashed"
        BY <2>2 DEF Ch3!FindIf
      <3>2. \A w \in Words : Ch3!Occurrences(w) <= Many
        BY <1>2, <2>2, ClassAssumption DEF Ch3!Gt4
      <3>3. \A w \in Words : Ch3!Occurrences(w)' = Ch3!Occurrences(w)
        BY <1>1 DEF Ch3!Occurrences
      <3> QED
        BY <1>1, <3>1, <3>2, <3>3 DEF Ch3!ResultsRight
    <2> QED
      BY <2>1, <2>2
  <1>4. at' # "run"
    BY DEF Ch3!FindIf
  <1> QED
    BY <1>1, <1>3, <1>4 DEF Ch3Inv, Serial

\* One step of any of the tests of chapter_3.cpp.
LEMMA Ch3Step == Ch3Inv /\ Ch3!Next => Ch3Inv'
  <1> SUFFICES ASSUME Ch3Inv, Ch3!Next PROVE Ch3Inv'
    OBVIOUS
  <1>1. CASE Ch3!ForEach
    BY <1>1 DEF Ch3Inv, Collected, Serial, Ch3!ForEach, Ch3!ResultsRight
  <1> QED
    BY <1>1, Ch3Task, Ch3Sort, Ch3TestAlg, Ch3Read, Ch3FindIf, Ch3SortAndWrite DEF Ch3!Next

-----------------------------------------------------------------------------
(* Chapter16.                                                              *)

\* distance() counts the elements, whatever the kind of its iterators.
LEMMA Distance ==
  ASSUME NEW n \in Nat
  PROVE  Ch16!dist_helper(1, n + 1) = n
  <1> DEFINE last == n + 1
             d == CHOOSE h : h = [i \in 1 .. last |-> IF i = last THEN 0 ELSE 1 + h[i + 1]]
             g == [i \in 1 .. last |-> last - i]
  <1>1. Ch16!dist_helper(1, n + 1) = d[1]
    BY DEF Ch16!dist_helper
  <1>2. g = [i \in 1 .. last |-> IF i = last THEN 0 ELSE 1 + g[i + 1]]
    <2>1. ASSUME NEW i \in 1 .. last PROVE g[i] = IF i = last THEN 0 ELSE 1 + g[i + 1]
      <3>1. i # last => i + 1 \in 1 .. last
        OBVIOUS
      <3> QED
        BY <3>1
    <2> QED
      BY <2>1
  <1>3. d = [i \in 1 .. last |-> IF i = last THEN 0 ELSE 1 + d[i + 1]]
    <2> HIDE DEF g, last
    <2> QED
      BY <1>2
  <1> HIDE DEF d, g
  <1> DEFINE Bad == {i \in 1 .. last : d[i] # last - i}
  <1>4. Bad = {}
    <2> SUFFICES ASSUME Bad # {} PROVE FALSE
      OBVIOUS
    <2>1. PICK i \in Bad : \A j \in Bad : j <= i
      <3>1. Bad \in SUBSET (1 .. last) /\ last \in Int /\ 1 \in Int /\ Bad # {}
        OBVIOUS
      <3> HIDE DEF Bad, last
      <3> QED
        BY <3>1, GreatestNumber
    <2>2. i = last \/ (i + 1 \in 1 .. last /\ i + 1 \notin Bad)
      BY <2>1
    <2>3. d[i] = IF i = last THEN 0 ELSE 1 + d[i + 1]
      BY <1>3, <2>1
    <2> QED
      BY <2>1, <2>2, <2>3
  <1>5. 1 \in 1 .. last
    OBVIOUS
  <1>6. d[1] = last - 1
    BY <1>4, <1>5
  <1> QED
    BY <1>1, <1>6

\* count() is how often a value occurs.
LEMMA Count ==
  ASSUME NEW S, NEW c \in Seq(S), NEW val
  PROVE  Ch16!count(c, val) = Occurrences(c, val)
  BY CountOccurrences, Zenon DEF Ch16!count

\* And so is what my_count() counts with find().
LEMMA MyCount ==
  ASSUME NEW S, NEW c \in Seq(S), NEW val
  PROVE  Ch16!my_count(c, val) = Occurrences(c, val)
  BY PlacesCount, Zenon DEF Ch16!my_count, Ch16!find, Ch16!After, FirstPlace

\* What top() shows is the stack from its top down.
LEMMA Stack ==
  ASSUME NEW S, NEW c \in Seq(S)
  PROVE  Ch16!test_stk(c) = Reverse(c)
  <1> DEFINE Fronts == {SubSeq(c, 1, i) : i \in 0 .. Len(c)}
             shown1 == CHOOSE h : h = [s \in Fronts |-> IF s = << >> THEN << >>
                                       ELSE <<Ch16!Last(s)>> \o h[Ch16!Front(s)]]
             g == [s \in Fronts |-> Reverse(s)]
  <1>1. Ch16!test_stk(c) = shown1[c]
    BY DEF Ch16!test_stk
  <1>2. Len(c) \in Nat /\ DOMAIN c = 1 .. Len(c) /\ c = SubSeq(c, 1, Len(c))
    BY LenProperties, SubSeqFull
  <1>3. ASSUME NEW s \in Fronts
        PROVE  /\ s \in Seq(S) /\ Len(s) \in Nat
               /\ s # << >> => /\ Ch16!Front(s) \in Fronts
                               /\ Len(Ch16!Front(s)) = Len(s) - 1
                               /\ Reverse(s) = <<Ch16!Last(s)>> \o Reverse(Ch16!Front(s))
    <2>1. PICK i \in 0 .. Len(c) : s = SubSeq(c, 1, i)
      OBVIOUS
    <2>2. /\ s \in Seq(S) /\ Len(s) = i
          /\ \A j \in 1 .. i : s[j] = c[j]
      BY <1>2, <2>1, SubSeqProperties
    <2>3. ASSUME s # << >>
          PROVE  /\ Ch16!Front(s) \in Fronts
                 /\ Len(Ch16!Front(s)) = Len(s) - 1
                 /\ Reverse(s) = <<Ch16!Last(s)>> \o Reverse(Ch16!Front(s))
      <3>1. i > 0 /\ i - 1 \in 0 .. Len(c) /\ i \in 1 .. Len(c)
        BY <1>2, <2>2, <2>3, EmptySeq
      <3>2. Ch16!Front(s) = SubSeq(s, 1, i - 1) /\ Ch16!Last(s) = s[i]
        BY <2>2 DEF Ch16!Front, Ch16!Last
      <3>3. /\ SubSeq(s, 1, i - 1) = SubSeq(c, 1, i - 1) /\ Len(SubSeq(s, 1, i - 1)) = i - 1
            /\ Reverse(s) = <<s[i]>> \o Reverse(SubSeq(s, 1, i - 1))
        BY <2>1, <3>1, ReverseFront, Zenon
      <3>4. Ch16!Front(s) \in Fronts
        BY <3>1, <3>2, <3>3
      <3> HIDE DEF Fronts
      <3> QED
        BY <2>2, <3>2, <3>3, <3>4
    <2> QED
      BY <1>2, <2>2, <2>3
  <1>4. Reverse(<< >>) = << >>
    <2>1. << >> \in Seq(S) /\ Len(<< >>) = 0
      OBVIOUS
    <2>2. Reverse(<< >>) \in Seq(S) /\ Len(Reverse(<< >>)) = 0
      BY <2>1, ReverseOccurrences
    <2> QED
      BY <2>2, EmptySeq
  <1>5. c \in Fronts
    <2>1. Len(c) \in 0 .. Len(c)
      BY <1>2
    <2> QED
      BY <1>2, <2>1, Zenon
  <1> HIDE DEF Fronts
  <1>6. g = [s \in Fronts |-> IF s = << >> THEN << >> ELSE <<Ch16!Last(s)>> \o g[Ch16!Front(s)]]
    <2>1. ASSUME NEW s \in Fronts
          PROVE  g[s] = IF s = << >> THEN << >> ELSE <<Ch16!Last(s)>> \o g[Ch16!Front(s)]
      BY <1>3, <1>4
    <2> QED
      BY <2>1
  <1>7. shown1 = [s \in Fronts |-> IF s = << >> THEN << >>
                                     ELSE <<Ch16!Last(s)>> \o shown1[Ch16!Front(s)]]
    <2> HIDE DEF g
    <2> QED
      BY <1>6, Zenon
  <1> HIDE DEF shown1, g
  <1> DEFINE Bad == {k \in Nat : \E s \in Fronts : Len(s) = k /\ shown1[s] # Reverse(s)}
  <1>8. Bad = {}
    <2> SUFFICES ASSUME Bad # {} PROVE FALSE
      OBVIOUS
    <2>1. PICK k \in Bad : \A l \in Bad : k <= l
      <3>1. Bad \in SUBSET Nat /\ Bad # {}
        OBVIOUS
      <3> HIDE DEF Bad
      <3> QED
        BY <3>1, LeastNumber
    <2>2. PICK s \in Fronts : Len(s) = k /\ shown1[s] # Reverse(s)
      OBVIOUS
    <2>3. s # << >>
      BY <1>4, <1>7, <2>2
    <2>4. /\ Ch16!Front(s) \in Fronts /\ Len(Ch16!Front(s)) = k - 1
          /\ Len(Ch16!Front(s)) \in Nat
          /\ Reverse(s) = <<Ch16!Last(s)>> \o Reverse(Ch16!Front(s))
      BY <1>3, <2>2, <2>3
    <2>5. k - 1 \notin Bad /\ k - 1 \in Nat
      BY <2>1, <2>4
    <2>6. shown1[Ch16!Front(s)] = Reverse(Ch16!Front(s))
      BY <2>4, <2>5
    <2> QED
      BY <1>7, <2>2, <2>3, <2>4, <2>6
  <1> QED
    BY <1>1, <1>2, <1>5, <1>8

-----------------------------------------------------------------------------
(* Nocase.                                                                 *)

Texts == Seq(Letters)

\* A string is a sequence of characters that have a letter.
LEMMA Text == ASSUME NEW x \in Texts PROVE IsText(x)
  BY LenProperties, ElementOfSeq, ClassAssumption DEF Texts, IsText

\* Nocase() is that order.
LEMMA NocaseIsBefore ==
  ASSUME NEW x \in Texts, NEW y \in Texts
  PROVE  Ch16!Nocase(x, y) = ComesBefore(x, y)
  <1> DEFINE First(k) == /\ Alike(x, y, k)
                         /\ k > Len(x) \/ k > Len(y) \/ x[k].letter # y[k].letter
             p == CHOOSE i \in 1 .. Len(x) + 1 :
                    /\ \A j \in 1 .. i - 1 : j <= Len(y) /\ Ch16!toupper(x[j]) = Ch16!toupper(y[j])
                    /\ i > Len(x) \/ i > Len(y) \/ Ch16!toupper(x[i]) # Ch16!toupper(y[i])
  <1>1. Ch16!Nocase(x, y) = IF p > Len(x) THEN p <= Len(y)
                            ELSE p <= Len(y) /\ Ch16!toupper(x[p]) < Ch16!toupper(y[p])
    BY DEF Ch16!Nocase
  <1>2. Len(x) \in Nat /\ Len(y) \in Nat /\ \A z : Ch16!toupper(z) = z.letter
    BY Text DEF IsText, Ch16!toupper
  <1>3. \A i \in 1 .. Len(x) + 1 :
          First(i) <=> /\ \A j \in 1 .. i - 1 : j <= Len(y) /\ x[j].letter = y[j].letter
                       /\ i > Len(x) \/ i > Len(y) \/ x[i].letter # y[i].letter
    BY <1>2 DEF Alike
  <1>4. \E i \in 1 .. Len(x) + 1 : First(i)
    BY Text, FirstDifferenceOf
  <1>5. p \in 1 .. Len(x) + 1 /\ First(p)
    <2>1. PICK i \in 1 .. Len(x) + 1 : First(i)
      BY <1>4
    <2> HIDE DEF First
    <2> QED
      BY <1>2, <1>3, <2>1
  <1> HIDE DEF p
  <1>6. Ch16!Nocase(x, y) <=> LessAt(x, y, p)
    BY <1>1, <1>2, <1>5 DEF LessAt
  <1>7. ComesBefore(x, y) => LessAt(x, y, p)
    <2> SUFFICES ASSUME NEW k \in 1 .. Len(x) + 1, Alike(x, y, k), LessAt(x, y, k)
                 PROVE  LessAt(x, y, p)
      BY DEF ComesBefore
    <2>1. k > Len(x) \/ k > Len(y) \/ x[k].letter # y[k].letter
      BY <1>2, Text DEF IsText, LessAt
    <2>2. k = p
      BY <1>5, <2>1, Text, OneFirstDifference
    <2> QED
      BY <2>2
  <1>8. LessAt(x, y, p) => ComesBefore(x, y)
    BY <1>5 DEF ComesBefore
  <1>9. Ch16!Nocase(x, y) \in BOOLEAN /\ ComesBefore(x, y) \in BOOLEAN
    <2>1. (p <= Len(y)) \in BOOLEAN
      BY <1>2, <1>5
    <2>2. (p <= Len(y) /\ Ch16!toupper(x[p]) < Ch16!toupper(y[p])) \in BOOLEAN
      BY Zenon
    <2>3. Ch16!Nocase(x, y) \in BOOLEAN
      BY <1>1, <2>1, <2>2, Zenon
    <2>4. ComesBefore(x, y) \in BOOLEAN
      BY Zenon DEF ComesBefore
    <2> QED
      BY <2>3, <2>4
  <1> QED
    BY <1>6, <1>7, <1>8, <1>9

\* The order of the upper-case strings, as lists of letters, is the same.
LEMMA PrecedesIsBefore ==
  ASSUME NEW x \in Texts, NEW y \in Texts
  PROVE  Ch16!Precedes(x, y) = ComesBefore(x, y)
  <1>1. IsText(x) /\ IsText(y)
    BY Text
  <1>2. ComesBefore(x, y) = LettersPrecede(x, y)
    BY <1>1, LettersInOrder
  <1>3. Ch16!Precedes(x, y) = LettersPrecede(x, y)
    BY Zenon DEF LettersPrecede, LettersOf, IsStrictPrefix, IsPrefix, Ch16!Precedes, Ch16!Upper,
       Ch16!toupper, Ch16!IsStrictPrefix, Ch16!IsPrefix
  <1> QED
    BY <1>2, <1>3

\* Nocase is what it should be, and orders the strings as sort() needs.
LEMMA NocaseRight ==
  ASSUME NEW x \in Texts, NEW y \in Texts, NEW z \in Texts
  PROVE  /\ Ch16!Nocase(x, y) = Ch16!Precedes(x, y)
         /\ Ch16!Nocase(x, y) /\ Ch16!Nocase(y, z) => Ch16!Nocase(x, z)
         /\ Ch16!Nocase(x, z) => Ch16!Nocase(x, y) \/ Ch16!Nocase(y, z)
  BY Text, NocaseIsBefore, PrecedesIsBefore, BeforeIsOrder

-----------------------------------------------------------------------------
(* sum().                                                                  *)

\* Added from the first to the last, or value by value, the sum is the same.
LEMMA SumRight ==
  ASSUME NEW c \in Seq(Int)
  PROVE  Ch16!sum(c) = Ch16!FoldSet(LAMBDA v, s : s + v * Ch16!Occurrences(c, v), 0, Ch16!Range(c))
  <1> DEFINE D == DOMAIN c
             V == Ch16!Range(c)
             m == [s \in SUBSET D |-> Ch16!Max(s)]
             n == [s \in SUBSET V |-> CHOOSE x \in s : TRUE]
             h == CHOOSE f : f = [s \in SUBSET D |->
                    IF s = {} THEN 0 ELSE f[s \ {Ch16!Max(s)}] + c[Ch16!Max(s)]]
             g == CHOOSE f : f = [s \in SUBSET V |->
                    IF s = {} THEN 0
                    ELSE f[s \ {CHOOSE x \in s : TRUE}]
                         + (CHOOSE x \in s : TRUE) * Ch16!Occurrences(c, CHOOSE x \in s : TRUE)]
  <1>1. Ch16!sum(c) = h[D]
    BY Zenon DEF Ch16!sum, Ch16!FoldLeft, Ch16!MapThenFoldSet
  <1>2. Ch16!FoldSet(LAMBDA v, s : s + v * Ch16!Occurrences(c, v), 0, V) = g[V]
    BY Zenon DEF Ch16!FoldSet, Ch16!MapThenFoldSet
  <1>3. /\ V = ToSet(c) /\ \A i \in DOMAIN c : c[i] \in Int
        /\ DOMAIN c = 1 .. Len(c) /\ Len(c) \in Nat
    BY LenProperties, ElementOfSeq DEF Ch16!Range, ToSet
  <1>4. IsFiniteSet(D)
    <2>1. IsFiniteSet(1 .. Len(c))
      BY <1>3, FS_Interval
    <2> QED
      BY <1>3, <2>1
  <1>5. IsFiniteSet(V)
    <2>1. c \in Surjection(D, V)
      BY DEF Ch16!Range, Surjection
    <2> QED
      BY <1>4, <2>1, FS_Surjection
  <1>6. \A v : Ch16!Occurrences(c, v) = Occurrences(c, v)
    BY DEF Ch16!Occurrences, Occurrences, Ch16!Cardinality, Cardinality
  <1>7. IsSum(h, D, m, c)
    <2>1. ASSUME NEW s \in SUBSET D, s # {} PROVE Ch16!Max(s) \in s
      <3>1. s \in SUBSET (1 .. Len(c)) /\ 1 \in Int /\ Len(c) \in Int
        BY <1>3
      <3>2. \E x \in s : \A y \in s : y <= x
        BY <2>1, <3>1, GreatestNumber
      <3> QED
        BY <3>2 DEF Ch16!Max
    <2>2. \A s \in SUBSET D : s # {} => m[s] \in s
      BY <2>1
    <2>3. PICK f : IsSum(f, D, m, c)
      <3> HIDE DEF m
      <3> QED
        BY <1>3, <1>4, <2>2, SumExists
    <2>4. f = [s \in SUBSET D |-> IF s = {} THEN 0 ELSE f[s \ {Ch16!Max(s)}] + c[Ch16!Max(s)]]
      BY <2>3 DEF IsSum
    <2>5. h = [s \in SUBSET D |-> IF s = {} THEN 0 ELSE h[s \ {Ch16!Max(s)}] + c[Ch16!Max(s)]]
      BY <2>4
    <2> HIDE DEF h
    <2> QED
      BY <1>3, <1>4, <2>2, <2>5 DEF IsSum
  <1> DEFINE w == [v \in ToSet(c) |-> v * Occurrences(c, v)]
             x(s) == CHOOSE x \in s : TRUE
  <1>8. IsSum(g, V, n, w)
    <2>1. \A s \in SUBSET V : s # {} => n[s] \in s
      OBVIOUS
    <2>2. \A v \in V : w[v] \in Int /\ w[v] = v * Ch16!Occurrences(c, v)
      <3>1. \A v \in V : v \in Int /\ Occurrences(c, v) \in Nat
        BY <1>3, FinitePlaces DEF ToSet
      <3> QED
        BY <1>3, <1>6, <3>1
    <2>3. PICK f : IsSum(f, V, n, w)
      <3> HIDE DEF n, w, V
      <3> QED
        BY <1>5, <2>1, <2>2, SumExists
    <2>4. f = [s \in SUBSET V |-> IF s = {} THEN 0 ELSE f[s \ {n[s]}] + w[n[s]]]
      <3> HIDE DEF n, w, V
      <3> QED
        BY <2>3 DEF IsSum
    <2>5. ASSUME NEW s \in SUBSET V, s # {}
          PROVE  n[s] = x(s) /\ w[n[s]] = x(s) * Ch16!Occurrences(c, x(s))
      <3>1. n[s] = x(s) /\ n[s] \in V
        BY <2>1, <2>5
      <3> HIDE DEF n, w
      <3> QED
        BY <2>2, <3>1
    <2>6. f = [s \in SUBSET V |-> IF s = {} THEN 0
                                  ELSE f[s \ {x(s)}] + x(s) * Ch16!Occurrences(c, x(s))]
      <3> HIDE DEF n, w, V, x
      <3> QED
        BY <2>4, <2>5
    <2>7. g = [s \in SUBSET V |-> IF s = {} THEN 0
                                  ELSE g[s \ {x(s)}] + x(s) * Ch16!Occurrences(c, x(s))]
      <3> HIDE DEF V
      <3> QED
        BY <2>6
    <2>8. g = [s \in SUBSET V |-> IF s = {} THEN 0 ELSE g[s \ {n[s]}] + w[n[s]]]
      <3> HIDE DEF n, w, V, x, g
      <3> QED
        BY <2>5, <2>7
    <2> HIDE DEF n, w, V, g
    <2> QED
      BY <1>5, <2>1, <2>2, <2>8 DEF IsSum
  <1>9. h[D] = g[V]
    <2>1. IsSum(h, DOMAIN c, m, c) /\ IsSum(g, ToSet(c), n, w)
      BY <1>3, <1>7, <1>8
    <2> HIDE DEF h, g, m, n
    <2>2. h[DOMAIN c] = g[ToSet(c)]
      BY <2>1, SumByValue
    <2> QED
      BY <1>3, <2>2
  <1> QED
    BY <1>1, <1>2, <1>9

-----------------------------------------------------------------------------
(* merge().                                                                *)

\* What merge() does at the first places of both lists.
LEMMA MergeIs ==
  ASSUME NEW c, NEW d, Len(c) \in Nat, Len(d) \in Nat
  PROVE  \E h : IsMerge(h, c, d) /\ Ch16!merge(c, d) = h[<<1, 1>>]
  <1> DEFINE P(m) == m = [p \in (1 .. (Len(c) + 1)) \X (1 .. (Len(d) + 1)) |->
        IF p[1] > Len(c) THEN SubSeq(d, p[2], Len(d))
        ELSE IF p[2] > Len(d) THEN SubSeq(c, p[1], Len(c))
        ELSE IF d[p[2]] < c[p[1]] THEN <<d[p[2]]>> \o m[<<p[1], p[2] + 1>>]
             ELSE <<c[p[1]]>> \o m[<<p[1] + 1, p[2]>>]]
             h == CHOOSE m : P(m)
  <1>1. Ch16!merge(c, d) = h[<<1, 1>>]
    BY Zenon DEF Ch16!merge
  <1>2. \E f : IsMerge(f, c, d)
    BY MergeExists
  <1>3. \A f : IsMerge(f, c, d) <=> P(f)
    BY Zenon DEF IsMerge, MergeStep, Pairs
  <1> HIDE DEF P
  <1>4. P(h)
    <2>1. \E f : P(f)
      BY <1>2, <1>3
    <2> QED
      BY ONLY <2>1, Zenon DEF h
  <1> HIDE DEF h
  <1> QED
    BY ONLY <1>1, <1>3, <1>4, Zenon

\* merge() has both lists' elements, and ascends if they do.
LEMMA MergeRight ==
  ASSUME NEW c \in Seq(Int), NEW d \in Seq(Int)
  PROVE  /\ Ch16!merge(c, d) \in Seq(Int)
         /\ \A x : Occurrences(Ch16!merge(c, d), x) = Occurrences(c, x) + Occurrences(d, x)
         /\ AscendsIn(c) /\ AscendsIn(d) => AscendsIn(Ch16!merge(c, d))
  <1>1. Len(c) \in Nat /\ Len(d) \in Nat
    BY LenProperties
  <1>2. PICK h : IsMerge(h, c, d) /\ Ch16!merge(c, d) = h[<<1, 1>>]
    BY <1>1, MergeIs
  <1> QED
    BY <1>2, MergeProperties

\* The operators the instance of Chapter16 has are those of the lemmas.
LEMMA Ch16Operators ==
  /\ \A S : Ch16!Cardinality(S) = Cardinality(S)
  /\ \A s, I : Ch16!Selected(s, I) = Selected(s, I)
  /\ \A s, x : Ch16!Occurrences(s, x) = Occurrences(s, x)
  /\ \A s : Ch16!Reverse(s) = Reverse(s) /\ Ch16!Ascends(s) = AscendsIn(s)
  <1>1. ASSUME NEW S PROVE Ch16!Cardinality(S) = Cardinality(S)
    BY DEF Ch16!Cardinality, Cardinality
  <1>2. ASSUME NEW I, NEW n PROVE Ch16!Place(I, n) = Place(I, n)
    BY <1>1 DEF Ch16!Place, Place
  <1>3. ASSUME NEW s, NEW I PROVE Ch16!Selected(s, I) = Selected(s, I)
    BY <1>1, <1>2 DEF Ch16!Selected, Selected
  <1>4. ASSUME NEW s, NEW x PROVE Ch16!Occurrences(s, x) = Occurrences(s, x)
    BY <1>1 DEF Ch16!Occurrences, Occurrences
  <1>5. ASSUME NEW s PROVE Ch16!Reverse(s) = Reverse(s) /\ Ch16!Ascends(s) = AscendsIn(s)
    BY DEF Ch16!Reverse, Reverse, Ch16!Ascends, AscendsIn
  <1> QED
    BY <1>1, <1>3, <1>4, <1>5

\* remove() takes every val out and leaves the others, in their order.
LEMMA RemoveRight ==
  ASSUME NEW c \in Seq(Int), NEW val
  PROVE  /\ Ch16!remove(c, val) \in Seq(Int)
         /\ \A x : Occurrences(Ch16!remove(c, val), x) = IF x = val THEN 0 ELSE Occurrences(c, x)
         /\ AscendsIn(c) => AscendsIn(Ch16!remove(c, val))
  <1> DEFINE I == {i \in DOMAIN c : c[i] # val}
             q == Selected(c, I)
             n == Cardinality(I)
  <1>1. /\ Ch16!remove(c, val) = q /\ I \in SUBSET (1 .. Len(c)) /\ Len(c) \in Nat
        /\ DOMAIN c = 1 .. Len(c)
    BY Ch16Operators, LenProperties DEF Ch16!remove
  <1>2. \A x : {i \in I : c[i] = x} = IF x = val THEN {} ELSE {i \in DOMAIN c : c[i] = x}
    OBVIOUS
  <1> HIDE DEF I
  <1>3. /\ q \in Seq(Int) /\ DOMAIN q = 1 .. n /\ n \in Nat
        /\ \A k \in 1 .. n : q[k] = c[Place(I, k)]
    BY <1>1, SelectedProperties, LenProperties
  <1>4. /\ \A k \in 1 .. n : Place(I, k) \in I
        /\ \A k, l \in 1 .. n : k < l => Place(I, k) < Place(I, l)
    BY <1>1, PlaceProperties
  <1>5. ASSUME NEW x PROVE Occurrences(q, x) = IF x = val THEN 0 ELSE Occurrences(c, x)
    <2>1. Occurrences(q, x) = Cardinality({i \in I : c[i] = x})
      <3>1. c \in Seq(Int) /\ I \in SUBSET (1 .. Len(c))
        BY <1>1
      <3> QED
        BY ONLY <3>1, SelectedOccurrences
    <2> QED
      BY <1>2, <2>1, FS_EmptySet DEF Occurrences
  <1> HIDE DEF q, n
  <1>6. AscendsIn(c) => AscendsIn(q)
    <2> SUFFICES ASSUME AscendsIn(c), NEW k \in 1 .. n, NEW l \in 1 .. n, k < l PROVE q[k] <= q[l]
      BY <1>3 DEF AscendsIn
    <2>1. Place(I, k) \in DOMAIN c /\ Place(I, l) \in DOMAIN c /\ Place(I, k) < Place(I, l)
      BY <1>1, <1>4
    <2> QED
      BY <1>3, <2>1 DEF AscendsIn
  <1> QED
    BY <1>1, <1>3, <1>5, <1>6

\* test_lst(): the lists lose what is removed and nothing else.
LEMMA ListsRight ==
  ASSUME NEW c \in Seq(Int), NEW d \in Seq(Int), NEW val
  PROVE  LET r == Ch16!test_lst(c, d, val) IN
         /\ \A x : Ch16!Occurrences(r, x) = IF x = val THEN 0
                                            ELSE Ch16!Occurrences(c, x) + Ch16!Occurrences(d, x)
         /\ Ch16!Ascends(c) /\ Ch16!Ascends(d) => Ch16!Ascends(Ch16!Reverse(r))
  <1> DEFINE m == Ch16!merge(c, d)
             q == Ch16!remove(m, val)
             r == Ch16!test_lst(c, d, val)
  <1>1. /\ m \in Seq(Int) /\ \A x : Occurrences(m, x) = Occurrences(c, x) + Occurrences(d, x)
        /\ AscendsIn(c) /\ AscendsIn(d) => AscendsIn(m)
    BY MergeRight
  <1>2. r = Reverse(q)
    BY Ch16Operators DEF Ch16!test_lst
  <1> HIDE DEF m, r
  <1>3. /\ q \in Seq(Int) /\ \A x : Occurrences(q, x) = IF x = val THEN 0 ELSE Occurrences(m, x)
        /\ AscendsIn(m) => AscendsIn(q)
    BY ONLY <1>1, RemoveRight
  <1> HIDE DEF q
  <1>4. /\ \A x : Occurrences(r, x) = Occurrences(q, x)
        /\ Len(r) = Len(q) /\ \A i \in 1 .. Len(q) : r[i] = q[Len(q) - i + 1]
    BY ONLY <1>2, <1>3, ReverseOccurrences
  <1>5. Reverse(r) = q
    <2>1. Len(q) \in Nat /\ DOMAIN q = 1 .. Len(q) /\ q = [i \in 1 .. Len(q) |-> q[i]]
      BY <1>3, LenProperties
    <2>2. ASSUME NEW i \in 1 .. Len(q) PROVE r[(Len(r) - i) + 1] = q[i]
      <3>1. (Len(q) - i) + 1 \in 1 .. Len(q) /\ Len(q) - ((Len(q) - i) + 1) + 1 = i
        BY <2>1
      <3> QED
        BY <1>4, <3>1
    <2>3. Reverse(r) = [i \in 1 .. Len(q) |-> r[(Len(r) - i) + 1]]
      BY <1>4 DEF Reverse
    <2> QED
      BY <2>1, <2>2, <2>3
  <1>6. ASSUME NEW x
        PROVE  Ch16!Occurrences(r, x)
                 = IF x = val THEN 0 ELSE Ch16!Occurrences(c, x) + Ch16!Occurrences(d, x)
    BY <1>1, <1>3, <1>4, Ch16Operators
  <1>7. Ch16!Ascends(c) /\ Ch16!Ascends(d) => Ch16!Ascends(Ch16!Reverse(r))
    BY <1>1, <1>3, <1>5, Ch16Operators
  <1> QED
    BY <1>6, <1>7 DEF r

-----------------------------------------------------------------------------
\* The sum over the elements, each as often as it occurs.
Total(c) == Ch16!FoldSet(LAMBDA v, s : s + v * Ch16!Occurrences(c, v), 0, Ch16!Range(c))

\* What a call returns is right.
Right(c, r) ==
  /\ c.function = "sum" => r = Total(c.x)
  /\ c.function = "distance" => r = Len(c.x)
  /\ c.function \in {"count", "my_count"} => r = Ch16!Occurrences(c.x, c.y[1])
  /\ c.function = "test_stk" => r = Ch16!Reverse(c.x)
  /\ c.function = "test_lst" =>
       /\ \A v \in Values : Ch16!Occurrences(r, v)
                             = IF <<v>> = c.z THEN 0
                               ELSE Ch16!Occurrences(c.x, v) + Ch16!Occurrences(c.y, v)
       /\ Ch16!Ascends(c.x) /\ Ch16!Ascends(c.y) => Ch16!Ascends(Ch16!Reverse(r))
  /\ c.function = "Nocase" =>
       /\ r = <<Ch16!Precedes(c.x, c.y), Ch16!Precedes(c.y, c.z), Ch16!Precedes(c.x, c.z)>>
       /\ r[1] /\ r[2] => r[3]
       /\ r[3] => r[1] \/ r[2]

Functions16 == {"sum", "distance", "count", "my_count", "test_stk", "test_lst", "Nocase"}

ReturnedRight == call.function \in Functions16 /\ result # << >> => Right(call, result[1])

RightIffReturned == /\ result = << >> => Ch16!ResultsRight
                    /\ call.function \in Functions16 => (Ch16!ResultsRight <=> ReturnedRight)

\* What each function returns is right if the last one is.
LEMMA RightResults == RightIffReturned
  BY Zenon DEF RightIffReturned, ReturnedRight, Ch16!ResultsRight, Right, Total, Functions16

\* The same of the next state.
LEMMA RightResultsNext == RightIffReturned'
  BY RightResults, PTL

\* One call is made with the inputs it is declared for.
Made == Ch16!Called \/ Ch16!Compared \/ call = Ch16!Call("off", << >>, << >>, << >>)

Ch16Inv == Made /\ (call.function = "off" => result = << >>) /\ Ch16!ResultsRight

\* The call has a function.
LEMMA MadeCalls == Made /\ call.function # "off" => call.function \in Functions16
  BY DEF Made, Ch16!Called, Ch16!Compared, Ch16!Call, Functions16


\* No function has been called.
LEMMA Ch16Init == ASSUME NEW on \in BOOLEAN PROVE Ch16!Launched(on) => Ch16Inv
  <1> SUFFICES ASSUME Ch16!Launched(on) PROVE Ch16Inv
    OBVIOUS
  <1>1. Made /\ result = << >>
    BY DEF Ch16!Launched, Made
  <1> QED
    BY <1>1, RightResults DEF Ch16Inv, RightIffReturned

\* A result stays right while another program runs.
LEMMA Ch16Stays == Ch16Inv /\ UNCHANGED ch16Vars => Ch16Inv'
  <1> SUFFICES ASSUME Ch16Inv, UNCHANGED ch16Vars PROVE Ch16Inv'
    OBVIOUS
  <1>1. call' = call /\ result' = result
    BY DEF ch16Vars
  <1>2. ASSUME call.function = "off" PROVE Ch16!ResultsRight'
    BY <1>1, <1>2, RightResultsNext DEF Ch16Inv, RightIffReturned
  <1>3. ASSUME call.function # "off" PROVE Ch16!ResultsRight'
    <2>1. call.function \in Functions16
      BY <1>3, MadeCalls DEF Ch16Inv
    <2> QED
      BY <1>1, <2>1, RightResults, RightResultsNext DEF Ch16Inv, RightIffReturned, ReturnedRight
  <1>4. Ch16!ResultsRight'
    BY <1>2, <1>3
  <1>5. Made'
    BY <1>1 DEF Ch16Inv, Made, Ch16!Called, Ch16!Compared
  <1> QED
    BY <1>1, <1>4, <1>5 DEF Ch16Inv

\* What the containers and the strings are.
LEMMA Inputs == Ch16!Containers \subseteq Seq(Int) /\ Ch16!Strings \subseteq Texts
  <1>1. ASSUME NEW c \in Ch16!Containers PROVE c \in Seq(Int)
    <2>1. PICK m \in 0 .. MaxLength : c \in [1 .. m -> Values]
      BY DEF Ch16!Containers, Ch16!SeqOf
    <2>2. m \in Nat /\ c \in [1 .. m -> Int]
      <3>1. MaxLength \in Nat /\ Values \subseteq Int
        BY ClassAssumption
      <3> HIDE DEF ClassAssumption
      <3>2. \A i \in 1 .. m : c[i] \in Int
        BY <2>1, <3>1
      <3> QED
        BY <2>1, <3>1, <3>2
    <2> QED
      BY <2>2, SeqDef
  <1>2. ASSUME NEW c \in Ch16!Strings PROVE c \in Texts
    <2>1. PICK m \in 0 .. MaxString : c \in [1 .. m -> Letters]
      BY DEF Ch16!Strings, Ch16!SeqOf
    <2>2. m \in Nat
      BY <2>1, ClassAssumption
    <2> QED
      BY <2>1, <2>2, SeqDef DEF Texts
  <1> QED
    BY <1>1, <1>2

\* The value a call returns is right.
LEMMA ValueRight == ASSUME Made, call.function # "off" PROVE Right(call, Ch16!Value(call))
  <1> DEFINE r == Ch16!Value(call)
  <1> USE DEF Ch16!Call
  <1>1. ASSUME NEW c \in Ch16!Containers, NEW v \in Values,
               \/ \E f \in {"sum", "distance", "test_stk"} : call = Ch16!Call(f, c, << >>, << >>)
               \/ \E f \in {"count", "my_count"} : call = Ch16!Call(f, c, <<v>>, << >>)
               \/ \E d \in Ch16!Containers : call = Ch16!Call("test_lst", c, d, <<v>>)
        PROVE  Right(call, r)
    <2>1. c \in Seq(Int) /\ Len(c) \in Nat
      BY Inputs, LenProperties
    <2>2. CASE call = Ch16!Call("sum", c, << >>, << >>)
      <3>1. Ch16!sum(c) = Total(c)
        BY ONLY <2>1, SumRight DEF Total
      <3>2. call.function = "sum" /\ call.x = c
        BY <2>2
      <3>3. r = Ch16!sum(c)
        BY <3>2, Zenon DEF Ch16!Value
      <3> QED
        BY <3>1, <3>2, <3>3, Zenon DEF Right
    <2>3. CASE call = Ch16!Call("distance", c, << >>, << >>)
      <3>1. Ch16!dist_helper(1, Len(c) + 1) = Len(c)
        BY ONLY <2>1, Distance
      <3>2. call.function = "distance" /\ call.x = c
        BY <2>3
      <3>3. r = Ch16!dist_helper(1, Len(c) + 1)
        BY <3>2 DEF Ch16!Value
      <3> QED
        BY <3>1, <3>2, <3>3, Zenon DEF Right
    <2>4. CASE call = Ch16!Call("test_stk", c, << >>, << >>)
      <3>1. Ch16!test_stk(c) = Ch16!Reverse(c)
        BY <2>1, Stack, Ch16Operators
      <3>2. call.function = "test_stk" /\ call.x = c
        BY <2>4
      <3>3. r = Ch16!test_stk(c)
        BY <3>2 DEF Ch16!Value
      <3> QED
        BY <3>1, <3>2, <3>3, Zenon DEF Right
    <2>5. CASE call = Ch16!Call("count", c, <<v>>, << >>)
      <3>1. Ch16!count(c, v) = Ch16!Occurrences(c, v)
        BY <2>1, Count, Ch16Operators
      <3>2. call.function = "count" /\ call.x = c /\ call.y[1] = v
        BY <2>5
      <3>3. r = Ch16!count(c, v)
        BY <3>2 DEF Ch16!Value
      <3> QED
        BY <3>1, <3>2, <3>3, Zenon DEF Right
    <2>6. CASE call = Ch16!Call("my_count", c, <<v>>, << >>)
      <3>1. Ch16!my_count(c, v) = Ch16!Occurrences(c, v)
        BY <2>1, MyCount, Ch16Operators
      <3>2. call.function = "my_count" /\ call.x = c /\ call.y[1] = v
        BY <2>6
      <3>3. r = Ch16!my_count(c, v)
        BY <3>2 DEF Ch16!Value
      <3> QED
        BY <3>1, <3>2, <3>3, Zenon DEF Right
    <2>7. ASSUME NEW d \in Ch16!Containers, call = Ch16!Call("test_lst", c, d, <<v>>)
          PROVE  Right(call, r)
      <3>0. d \in Seq(Int)
        BY Inputs
      <3>1. LET q == Ch16!test_lst(c, d, v) IN
            /\ \A x : Ch16!Occurrences(q, x) = IF x = v THEN 0
                                               ELSE Ch16!Occurrences(c, x) + Ch16!Occurrences(d, x)
            /\ Ch16!Ascends(c) /\ Ch16!Ascends(d) => Ch16!Ascends(Ch16!Reverse(q))
        BY ONLY <2>1, <3>0, ListsRight
      <3>2. call.function = "test_lst" /\ call.x = c /\ call.y = d /\ call.z = <<v>> /\ call.z[1] = v
        BY <2>7
      <3>3. r = Ch16!test_lst(c, d, v)
        BY <3>2 DEF Ch16!Value
      <3>4. \A x : <<x>> = <<v>> <=> x = v
        OBVIOUS
      <3> HIDE DEF r
      <3> QED
        BY <3>1, <3>2, <3>3, <3>4, Zenon DEF Right
    <2> QED
      BY <1>1, <2>2, <2>3, <2>4, <2>5, <2>6, <2>7
  <1>2. ASSUME NEW x \in Ch16!Strings, NEW y \in Ch16!Strings, NEW z \in Ch16!Strings,
               call = Ch16!Call("Nocase", x, y, z)
        PROVE  Right(call, r)
    <2>1. x \in Texts /\ y \in Texts /\ z \in Texts
      BY Inputs
    <2>2. /\ Ch16!Nocase(x, y) = Ch16!Precedes(x, y) /\ Ch16!Nocase(y, z) = Ch16!Precedes(y, z)
          /\ Ch16!Nocase(x, z) = Ch16!Precedes(x, z)
          /\ Ch16!Nocase(x, y) /\ Ch16!Nocase(y, z) => Ch16!Nocase(x, z)
          /\ Ch16!Nocase(x, z) => Ch16!Nocase(x, y) \/ Ch16!Nocase(y, z)
      BY ONLY <2>1, NocaseRight
    <2>3. call.function = "Nocase" /\ call.x = x /\ call.y = y /\ call.z = z
      BY <1>2
    <2>4. r = <<Ch16!Nocase(x, y), Ch16!Nocase(y, z), Ch16!Nocase(x, z)>>
      BY <2>3 DEF Ch16!Value
    <2>5. \A a, b, c : <<a, b, c>>[1] = a /\ <<a, b, c>>[2] = b /\ <<a, b, c>>[3] = c
      OBVIOUS
    <2> HIDE DEF r
    <2> QED
      BY <2>2, <2>3, <2>4, <2>5, Zenon DEF Right
  <1>3. \/ \E c \in Ch16!Containers, v \in Values :
             \/ \E f \in {"sum", "distance", "test_stk"} : call = Ch16!Call(f, c, << >>, << >>)
             \/ \E f \in {"count", "my_count"} : call = Ch16!Call(f, c, <<v>>, << >>)
             \/ \E d \in Ch16!Containers : call = Ch16!Call("test_lst", c, d, <<v>>)
        \/ \E x \in Ch16!Strings, y \in Ch16!Strings, z \in Ch16!Strings :
             call = Ch16!Call("Nocase", x, y, z)
    BY DEF Made, Ch16!Called, Ch16!Compared
  <1> HIDE DEF r, Ch16!Call
  <1>4. Right(call, r)
    BY <1>1, <1>2, <1>3
  <1> QED
    BY <1>4 DEF r

\* What a function returns is right.
LEMMA Ch16Step == Ch16Inv /\ Ch16!Next => Ch16Inv'
  <1> SUFFICES ASSUME Ch16Inv, Ch16!Next PROVE Ch16Inv'
    OBVIOUS
  <1>1. /\ call.function # "off" /\ result' = <<Ch16!Value(call)>> /\ call' = call
    BY DEF Ch16!Next, Ch16!Return
  <1>2. Made /\ Made'
    BY <1>1 DEF Ch16Inv, Made, Ch16!Called, Ch16!Compared
  <1>3. Right(call', result'[1])
    <2> DEFINE r == Ch16!Value(call)
    <2>1. Right(call, r)
      BY <1>1, <1>2, ValueRight
    <2> HIDE DEF r
    <2>2. result'[1] = r
      BY <1>1 DEF r
    <2> QED
      BY <1>1, <2>1, <2>2
  <1>4. call'.function \in Functions16
    BY <1>1, <1>2, MadeCalls
  <1>5. Ch16!ResultsRight'
    BY <1>3, <1>4, RightResultsNext DEF RightIffReturned, ReturnedRight
  <1> QED
    BY <1>1, <1>2, <1>5 DEF Ch16Inv

-----------------------------------------------------------------------------
(* All of them: one is launched, the others do not move.                   *)

ProgramsInv == /\ UdpInv /\ TcpInv /\ EchoTypes /\ AsyncInv /\ SyncInv /\ LoopTypes
               /\ BufferInv /\ SizeTypes /\ BlobInv /\ VectorFits /\ GuardsInv /\ GuardsFit
               /\ Ch3Inv /\ Ch16Inv

LEMMA ProgramsInit == Init => ProgramsInv
  <1> SUFFICES ASSUME Init PROVE ProgramsInv
    OBVIOUS
  <1>1. /\ \E on \in BOOLEAN : Udp!Launched(on)
        /\ \E on \in BOOLEAN : Tcp!Launched(on)
        /\ \E on \in BOOLEAN : Echo!Launched(on)
        /\ \E on \in BOOLEAN : Async!Launched(on)
        /\ \E on \in BOOLEAN : Sync!Launched(on)
        /\ \E on \in BOOLEAN : Buffer!Launched(on)
        /\ \E on \in BOOLEAN : Blob!Launched(on)
        /\ \E on \in BOOLEAN : Guards!Launched(on)
        /\ \E on \in BOOLEAN : Ch3!Launched(on)
        /\ \E on \in BOOLEAN : Ch16!Launched(on)
    <2>1. \E p, q : NetLaunched(p) /\ ClassLaunched(q)
      BY DEF Init, NetInit, ClassInit
    <2> QED
      BY <2>1 DEF NetLaunched, ClassLaunched
  <1>2. UdpInv /\ TcpInv /\ EchoTypes /\ AsyncInv /\ SyncInv /\ LoopTypes
    BY ONLY <1>1, UdpInit, TcpInit, EchoInit, AsyncInit, SyncInit, LoopInit
  <1>3. BufferInv /\ SizeTypes /\ BlobInv /\ VectorFits /\ GuardsInv /\ GuardsFit
    BY ONLY <1>1, BufferInit, SizeInit, BlobInit, VectorInit, GuardsInit, FitInit
  <1>4. Ch3Inv /\ Ch16Inv
    BY ONLY <1>1, Ch3Init, Ch16Init
  <1> QED
    BY <1>2, <1>3, <1>4 DEF ProgramsInv

LEMMA ProgramsNext == ProgramsInv /\ [Next]_<<netVars, classVars>> => ProgramsInv'
  <1> SUFFICES ASSUME ProgramsInv, [Next]_<<netVars, classVars>> PROVE ProgramsInv'
    OBVIOUS
  <1>1. /\ Udp!Next \/ UNCHANGED uvars
        /\ Tcp!Next \/ UNCHANGED tvars
        /\ Echo!Next \/ UNCHANGED evars
        /\ Async!Next \/ UNCHANGED avars
        /\ Sync!Next \/ UNCHANGED svars
    BY DEF Next, NetNext, netVars, Udp!Next
  <1>2. /\ Buffer!Next \/ UNCHANGED bufferVars
        /\ Blob!Next \/ UNCHANGED blobVars
        /\ Guards!Next \/ UNCHANGED guardVars
        /\ Ch3!Next \/ UNCHANGED ch3Vars
        /\ Ch16!Next \/ UNCHANGED ch16Vars
    BY DEF Next, ClassNext, classVars
  <1>3. /\ UdpInv /\ TcpInv /\ EchoTypes /\ AsyncInv /\ SyncInv /\ LoopTypes
        /\ BufferInv /\ SizeTypes /\ BlobInv /\ VectorFits /\ GuardsInv /\ GuardsFit
        /\ Ch3Inv /\ Ch16Inv
    BY DEF ProgramsInv
  <1>4. UdpInv' /\ TcpInv' /\ EchoTypes'
    BY ONLY <1>1, <1>3, UdpStep, TcpStep, EchoStep, UdpStays, TcpStays, EchoStays
  <1>5. AsyncInv' /\ SyncInv' /\ LoopTypes'
    BY ONLY <1>1, <1>3, AsyncStep, SyncStep, LoopStep, AsyncStays, SyncStays, LoopStays
  <1>6. BufferInv' /\ SizeTypes' /\ BlobInv' /\ VectorFits'
    BY ONLY <1>2, <1>3, BufferStep, BufferStays, SizeStep, BlobStep, BlobStays, VectorStep
  <1>7. GuardsInv' /\ GuardsFit'
    BY ONLY <1>2, <1>3, GuardsStep, GuardsStays, FitStep
  <1>8. Ch3Inv' /\ Ch16Inv'
    BY ONLY <1>2, <1>3, Ch3Step, Ch3Stays, Ch16Step, Ch16Stays
  <1> QED
    BY <1>4, <1>5, <1>6, <1>7, <1>8 DEF ProgramsInv

\* The inductive invariant of the programs holds in all their executions.
THEOREM ProgramsInvariant == Spec => []ProgramsInv
  BY ProgramsInit, ProgramsNext, PTL DEF Spec

\* sync_echo() (echo_tcp_sync_client.cpp:32, echo_udp_sync_client.cpp:24): for
\* any number of threads, a thread that is answered is answered with its own
\* message; over TCP since a line is read whole before the server serves another
\* connection, over UDP whatever number of datagrams is lost or doubled.
THEOREM AnswersAreOwn == Spec => []EchoedOwn
  <1>1. ProgramsInv => EchoedOwn
    BY DEF ProgramsInv, UdpInv, TcpInv, EchoedOwn, Tcp!EchoedOwn
  <1> QED
    BY <1>1, ProgramsInvariant, PTL

\* timed_out() (sync_server.cpp:58): for any number of clients of both kinds, any
\* timeout and any delays, a client whose login was handled and that pings in time
\* is not dropped, unless the uninitialised already_read_ of some object ends the
\* server.
THEOREM NobodyDroppedInTime == Spec => []KeptInTime
  <1>1. ProgramsInv => KeptInTime
    BY SyncKept DEF ProgramsInv
  <1> QED
    BY <1>1, ProgramsInvariant, PTL

\* clients of both chat servers (async_server.cpp:82, sync_server.cpp:160): for
\* any number of connections the first holds those that are started, once each,
\* after every handler; the second does not change under the loop that walks it.
THEOREM ListsStayRight == Spec => ListsAreRight
  <1>1. ProgramsInv /\ ProgramsInv' /\ [Next]_<<netVars, classVars>>
          => [Async!ClientsAreStarted' /\ Sync!LoopIsSafe]_netVars
    <2> SUFFICES ASSUME ProgramsInv', Next, UNCHANGED netVars => FALSE
                 PROVE  Async!ClientsAreStarted' /\ Sync!LoopIsSafe
      BY DEF netVars, Next
    <2>1. Async!ClientsAreStarted'
      BY DEF ProgramsInv, AsyncInv
    <2>2. Sync!Next \/ UNCHANGED svars
      BY DEF Next, NetNext, netVars
    <2>3. CASE UNCHANGED svars
      <3>1. clients' = clients
        BY <2>3 DEF svars
      <3> QED
        BY <2>1, <3>1 DEF Sync!LoopIsSafe
    <2> QED
      BY <2>1, <2>2, <2>3, SyncLoopIsSafe
  <1> QED
    BY <1>1, ProgramsInvariant, PTL DEF Spec, ListsAreRight

\* ~ScopeGuard() (ScopeGuard.h:22), Buffer (chapter_10.cpp:54) and Blob
\* (Blob.hpp:41): for any number of resources, guards, arrays, handles and vectors,
\* through every sequence of copies, moves, assignments and failures, what an
\* object owns is released once, its size is right unless an operator= has thrown,
\* and what several handles share outlives none of them.
THEOREM OwnersAreSound == Spec => []ObjectsAreSound
  <1>1. ProgramsInv => ObjectsAreSound
    BY GuardsRight DEF ProgramsInv, ObjectsAreSound, BufferInv, BlobInv
  <1> QED
    BY <1>1, ProgramsInvariant, PTL

\* What the parts keep is the type invariant of all of them.
LEMMA TypesAreRight == ProgramsInv => TypeOK
  <1> SUFFICES ASSUME ProgramsInv PROVE TypeOK
    OBVIOUS
  <1>1. NetTypeOK
    <2>1. \A d \in DOMAIN net : ServerPort \in {d.from, d.to} /\ d.from # d.to
      BY NetAssumption DEF ProgramsInv, UdpInv, Addressed
    <2>2. cpc \in [Peers -> {"new", "connect", "write", "read", "returned"}]
      BY DEF ProgramsInv, TcpInv
    <2>3. \A c \in Peers : Len(buf[c]) <= 2 /\ Len(toServer[c]) <= 2 /\ Len(toClient[c]) <= 2
      BY LinesAreShort DEF ProgramsInv
    <2>4. age \in [AsyncPeers \cup SyncPeers -> 0 .. Sync!NotADate]
      BY DEF ProgramsInv, LoopTypes, Sync!Clients, Sync!NotADate
    <2> QED
      BY <2>1, <2>2, <2>3, <2>4 DEF NetTypeOK, ProgramsInv, EchoTypes, LoopTypes
  <1>2. Guards!TypeOK
    <2>1. Guards!Range(released) = ToSet(released) /\ Guards!Range(acquired) = ToSet(acquired)
      BY DEF Guards!Range, ToSet
    <2> QED
      BY <2>1 DEF ProgramsInv, GuardsInv, GuardsFit, Guards!TypeOK
  <1>3. Buffer!TypeOK
    BY DEF ProgramsInv, SizeTypes, Buffer!TypeOK, Buffer!Alive
  <1>4. Blob!TypeOK
    BY DEF ProgramsInv, BlobInv, VectorFits, Blob!TypeOK
  <1> QED
    BY <1>1, <1>2, <1>3, <1>4 DEF TypeOK, ClassTypeOK

\* The types: for any number of clients, objects and resources, and whatever is
\* lost, refused or thrown, a datagram is to or from the server, the programs
\* hold no more of a line than a line, handle_clients_thread()
\* (sync_server.cpp:166) stays in its list, no scope, vector or queue exceeds its
\* room.
THEOREM TypesStayRight == Spec => []TypeOK
  BY ProgramsInvariant, TypesAreRight, PTL

\* test_ppl() and others (chapter_3.cpp:182, 222, 250, 292) and the functions of
\* chapter_16.cpp: for all inputs, however many, what they compute is what its
\* definition says: the parallel results, collected in any order and sorted, are
\* the serial ones, the copies hold each name once, sum(), distance(), count() and
\* the lists, the stack and Nocase return what the values alone determine.
THEOREM ResultsStayRight == Spec => []ResultsRight
  <1>1. ProgramsInv => ResultsRight
    BY DEF ProgramsInv, Ch3Inv, Ch16Inv, ResultsRight
  <1> QED
    BY <1>1, ProgramsInvariant, PTL
=============================================================================
