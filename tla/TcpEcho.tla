------------------------------ MODULE TcpEcho ------------------------------
(***************************************************************************)
(* The synchronous TCP echo programs: handle_connections()                 *)
(* (source/echo_tcp_sync_server.cpp) serves one connection at a time,      *)
(* sync_echo() (source/echo_tcp_sync_client.cpp) runs in one thread per    *)
(* message.  A message m travels as the stream <<m, "\n">>; both sides     *)
(* read until read_complete() has seen the "\n".  A connection is a pair   *)
(* of streams that lose and reorder nothing.                               *)
(***************************************************************************)
EXTENDS Naturals, SequencesExt

CONSTANTS Clients,  \* the threads of the client; each one's message is itself
          None

VARIABLES backlog,   \* connections the acceptor has not accepted
          toServer,  \* toServer[c]: written by c, not read by the server
          toClient,
          spc,       \* the server
          sock,      \* the connection it serves, or None
          buff,      \* what it has read from it
          cpc,       \* cpc[c]: sync_echo() in thread c
          buf,       \* buf[c]: what c has read
          printed,   \* printed[c]: what c has printed: "", "OK" or "FAIL"
          main       \* main() of the client

vars == <<backlog, toServer, toClient, spc, sock, buff, cpc, buf, printed, main>>

Line(m) == <<m, "\n">>

\* read_complete(): read one more byte unless a "\n" has been read.
ReadComplete(read) == "\n" \in Range(read)

Launched(on) ==
  /\ backlog = << >> /\ sock = None /\ buff = << >>
  /\ toServer = [c \in Clients |-> << >>] /\ toClient = [c \in Clients |-> << >>]
  /\ spc = IF on THEN "accept" ELSE "off"
  /\ cpc = [c \in Clients |-> "new"]
  /\ buf = [c \in Clients |-> << >>] /\ printed = [c \in Clients |-> ""]
  /\ main = IF on THEN "create" ELSE "off"

-----------------------------------------------------------------------------
(* The server.                                                             *)

Accept == /\ spc = "accept" /\ backlog # << >>
          /\ sock' = Head(backlog) /\ backlog' = Tail(backlog)
          /\ buff' = << >> /\ spc' = "read"
          /\ UNCHANGED <<toServer, toClient, cpc, buf, printed, main>>

ServerRead ==
  /\ spc = "read"
  /\ IF ReadComplete(buff)
     THEN spc' = "write" /\ UNCHANGED <<buff, toServer>>
     ELSE /\ toServer[sock] # << >>
          /\ buff' = Append(buff, Head(toServer[sock]))
          /\ toServer' = [toServer EXCEPT ![sock] = Tail(@)]
          /\ UNCHANGED spc
  /\ UNCHANGED <<backlog, toClient, sock, cpc, buf, printed, main>>

ServerWrite == /\ spc = "write"
               /\ toClient' = [toClient EXCEPT ![sock] = @ \o buff]
               /\ spc' = "close"
               /\ UNCHANGED <<backlog, toServer, sock, buff, cpc, buf, printed, main>>

\* sock.close(): what was written still arrives.
ServerClose == /\ spc = "close"
               /\ sock' = None /\ spc' = "accept"
               /\ UNCHANGED <<backlog, toServer, toClient, buff, cpc, buf, printed, main>>

-----------------------------------------------------------------------------
(* The client.                                                             *)

Connected(c) == Append(backlog, c)

Connect(c) == /\ cpc[c] = "connect"
              /\ backlog' = Connected(c)
              /\ cpc' = [cpc EXCEPT ![c] = "write"]
              /\ UNCHANGED <<toServer, toClient, spc, sock, buff, buf, printed, main>>

ClientWrite(c) == /\ cpc[c] = "write"
                  /\ toServer' = [toServer EXCEPT ![c] = @ \o Line(c)]
                  /\ cpc' = [cpc EXCEPT ![c] = "read"]
                  /\ UNCHANGED <<backlog, toClient, spc, sock, buff, buf, printed, main>>

\* Faulty variant: the "\n" is compared as well.
CopyWithNewline(read) == read
\* string(buf, bytes - 1)
Copy(read) == SubSeq(read, 1, Len(read) - 1)

ClientRead(c) ==
  /\ cpc[c] = "read"
  /\ IF ReadComplete(buf[c])
     THEN /\ printed' = [printed EXCEPT ![c] = IF Copy(buf[c]) = <<c>> THEN "OK" ELSE "FAIL"]
          /\ cpc' = [cpc EXCEPT ![c] = "returned"]
          /\ UNCHANGED <<buf, toClient>>
     ELSE /\ toClient[c] # << >>
          /\ buf' = [buf EXCEPT ![c] = Append(@, Head(toClient[c]))]
          /\ toClient' = [toClient EXCEPT ![c] = Tail(@)]
          /\ UNCHANGED <<cpc, printed>>
  /\ UNCHANGED <<backlog, toServer, spc, sock, buff, main>>

\* main() of the client creates one thread after the other and joins them.
CreateThread == /\ main = "create"
                /\ \E c \in Clients : /\ cpc[c] = "new"
                                      /\ cpc' = [cpc EXCEPT ![c] = "connect"]
                /\ UNCHANGED <<backlog, toServer, toClient, spc, sock, buff, buf, printed, main>>

JoinAll == /\ main = "create" /\ \A c \in Clients : cpc[c] = "returned"
           /\ main' = "returned"
           /\ UNCHANGED <<backlog, toServer, toClient, spc, sock, buff, cpc, buf, printed>>

Server == Accept \/ ServerRead \/ ServerWrite \/ ServerClose
Thread(c) == Connect(c) \/ ClientWrite(c) \/ ClientRead(c)
Main == CreateThread \/ JoinAll
Next == Server \/ Main \/ \E c \in Clients : Thread(c)

-----------------------------------------------------------------------------
\* What is echoed is what was sent, whoever else waits in the meantime.
EchoedOwn == \A c \in Clients : printed[c] # "FAIL"

\* Every thread gets its answer, and main() returns.
Returned == main \in {"off", "returned"}
=============================================================================
