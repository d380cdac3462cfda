----------------------------- MODULE AsyncEcho -----------------------------
(***************************************************************************)
(* The asynchronous TCP echo programs (source/echo_tcp_async_server.cpp,   *)
(* source/echo_tcp_async_client.cpp): on either side one thread runs the   *)
(* completion handlers of all connections, and an object has at most one   *)
(* operation outstanding.  read_complete() returns 0 at once, so           *)
(* async_read() completes, as the library defines it, with no error and no *)
(* byte, whatever the socket holds and whether or not it is open.          *)
(***************************************************************************)
EXTENDS Integers, FiniteSets

CONSTANTS Clients,   \* the objects of the client, one per message
          SizeBits   \* the width of size_t

VARIABLES backlog,   \* connections not accepted yet
          sh,        \* sh[c]: the outstanding handler of the server's object
          sstarted,  \* its started_
          ssock,     \* its socket: "none", "open" or "closed"
          ch,        \* ch[c]: the outstanding handler of the client's object
          cstarted,
          connected, \* the objects whose connect succeeded
          prog       \* the client: "off", "create", "run", "returned", "terminated"

svars == <<sh, sstarted, ssock>>
cvars == <<ch, cstarted, connected, prog>>
vars == <<backlog, svars, cvars>>

Launched(on) ==
  /\ backlog = {}
  /\ sh = [c \in Clients |-> "none"] /\ sstarted = [c \in Clients |-> FALSE]
  /\ ssock = [c \in Clients |-> "none"]
  /\ ch = [c \in Clients |-> "none"] /\ cstarted = [c \in Clients |-> FALSE]
  /\ connected = {} /\ prog = IF on THEN "create" ELSE "off"

\* The bytes an async_read() with read_complete() delivers.
ReadComplete == 0

-----------------------------------------------------------------------------
(* The server.                                                             *)

\* do_read(): the next handler is on_read().
DoRead == "on_read"

\* handle_accept(): start() whatever err says; the acceptor is armed again.
HandleAccept(c) == /\ c \in backlog /\ backlog' = backlog \ {c}
                   /\ sstarted' = [sstarted EXCEPT ![c] = TRUE]
                   /\ ssock' = [ssock EXCEPT ![c] = "open"]
                   /\ sh' = [sh EXCEPT ![c] = DoRead]
                   /\ UNCHANGED cvars

\* Faulty variant: do_write() does not ask whether the object is started.
DoWriteAlways(started) == "on_write"
\* do_write(): a write is outstanding, unless the object is stopped.
DoWrite(started) == IF started THEN "on_write" ELSE "none"

\* on_read(): echoes the message, with a "\n", and stops.
ServerOnRead(c) == /\ sh[c] = "on_read"
                   /\ sh' = [sh EXCEPT ![c] = DoWrite(sstarted[c])]
                   /\ sstarted' = [sstarted EXCEPT ![c] = FALSE]
                   /\ ssock' = [ssock EXCEPT ![c] = IF sstarted[c] THEN "closed" ELSE @]
                   /\ UNCHANGED <<backlog, cvars>>

ServerOnWrite(c) == /\ sh[c] = "on_write"
                    /\ sh' = [sh EXCEPT ![c] = DoRead]
                    /\ UNCHANGED <<backlog, sstarted, ssock, cvars>>

-----------------------------------------------------------------------------
(* The client.                                                             *)

\* main() starts one object after the other, then runs the handlers.
Start(c) == /\ prog = "create" /\ ch[c] = "none" /\ ~cstarted[c]
            /\ ch' = [ch EXCEPT ![c] = "on_connect"]
            /\ cstarted' = [cstarted EXCEPT ![c] = TRUE]
            /\ UNCHANGED <<backlog, svars, connected, prog>>

Run == /\ prog = "create" /\ \A c \in Clients : cstarted[c]
       /\ prog' = "run" /\ UNCHANGED <<backlog, svars, ch, cstarted, connected>>

\* The connection is made as soon as the kernel of the server has it; if the
\* server does not listen it is refused.
Connect(c) == /\ ch[c] = "on_connect" /\ c \notin connected /\ prog \in {"create", "run"}
              /\ connected' = connected \cup {c} /\ backlog' = backlog \cup {c}
              /\ UNCHANGED <<svars, ch, cstarted, prog>>

\* on_connect(): do_write() if there is a connection, stop() if not.
AfterConnect(c) == IF c \in connected THEN "on_write" ELSE "none"

OnConnect(c) ==
  /\ prog = "run" /\ ch[c] = "on_connect"
  /\ ch' = [ch EXCEPT ![c] = AfterConnect(c)]
  /\ cstarted' = [cstarted EXCEPT ![c] = c \in connected]
  /\ UNCHANGED <<backlog, svars, connected, prog>>

ClientOnWrite(c) == /\ prog = "run" /\ ch[c] = "on_write"
                    /\ ch' = [ch EXCEPT ![c] = "on_read"]
                    /\ UNCHANGED <<backlog, svars, cstarted, connected, prog>>

\* The size of string(read_buffer_, bytes - 1), in a size_t.
CopySize(bytes) == (bytes - 1) % 2^SizeBits
MaxStringSize == 2^(SizeBits - 1) - 1

\* on_read(): the constructor throws if the size is beyond max_size(); nothing
\* catches it, neither here nor around service.run() in main().
ClientOnRead(c) ==
  /\ prog = "run" /\ ch[c] = "on_read"
  /\ ch' = [ch EXCEPT ![c] = "none"]
  /\ IF CopySize(ReadComplete) > MaxStringSize
     THEN prog' = "terminated" /\ UNCHANGED cstarted
     ELSE cstarted' = [cstarted EXCEPT ![c] = FALSE] /\ UNCHANGED prog
  /\ UNCHANGED <<backlog, svars, connected>>

\* service.run() returns when no operation is outstanding, and so does main().
Return == /\ prog = "run" /\ \A c \in Clients : ch[c] = "none"
          /\ prog' = "returned" /\ UNCHANGED <<backlog, svars, ch, cstarted, connected>>

Server == \E c \in Clients : HandleAccept(c) \/ ServerOnRead(c) \/ ServerOnWrite(c)
Client == \/ Run \/ Return
          \/ \E c \in Clients : Start(c) \/ OnConnect(c) \/ ClientOnWrite(c) \/ ClientOnRead(c)
Programs == Server \/ Client
Next == Programs \/ \E c \in Clients : Connect(c)

-----------------------------------------------------------------------------
\* The chain of handlers of every accepted connection ends, with the socket
\* closed, although each completion starts the next operation; the client ends,
\* by itself only if nothing was connected: otherwise the first answer, of no
\* byte, ends it with an exception.
Ended == /\ \A c \in connected : sh[c] = "none" /\ ssock[c] = "closed"
         /\ \/ prog = "off"
            \/ prog = "returned" /\ connected = {}
            \/ prog = "terminated" /\ connected # {}
=============================================================================
