----------------------------- MODULE AsyncChat -----------------------------
(***************************************************************************)
(* The asynchronous chat server (source/async_server.cpp): one thread runs *)
(* the completion handlers of all connections.  read_complete() returns 0, *)
(* so the read that start() begins completes with no error and no byte     *)
(* whatever the peer sends, on_read() finds no request in it, and the      *)
(* handlers of requests and do_write() are never reached.                  *)
(***************************************************************************)
EXTENDS Naturals, SequencesExt

CONSTANTS Conns,   \* the connections peers make, with or without success
          Timeout  \* on_check_ping()'s 5000 ms

VARIABLES listening,  \* the server runs
          offered,    \* connections that are or will be made
          clients,    \* the global list
          started,    \* started[c]: started_
          read,       \* read[c]: on_read() is outstanding
          timer,      \* timer[c]: "off", "armed" or "expired"
          elapsed     \* elapsed[c]: whole ms since last_ping, when it matters

vars == <<listening, offered, clients, started, read, timer, elapsed>>

Launched(on) ==
  /\ listening = on /\ offered = Conns /\ clients = << >>
  /\ started = [c \in Conns |-> FALSE] /\ read = [c \in Conns |-> FALSE]
  /\ timer = [c \in Conns |-> "off"] /\ elapsed = [c \in Conns |-> 0]

\* handle_accept() starts the object whatever err says, and arms the acceptor
\* again; start() enters it in the list; do_read() begins a read and sets the
\* timer.
HandleAccept(c) ==
  /\ listening /\ c \in offered /\ offered' = offered \ {c}
  /\ started' = [started EXCEPT ![c] = TRUE] /\ clients' = Append(clients, c)
  /\ elapsed' = [elapsed EXCEPT ![c] = 0]
  /\ read' = [read EXCEPT ![c] = TRUE] /\ timer' = [timer EXCEPT ![c] = "armed"]
  /\ UNCHANGED listening

\* on_read(): an empty message is none of the requests.
OnRead(c) == /\ read[c] /\ read' = [read EXCEPT ![c] = FALSE]
             /\ UNCHANGED <<listening, offered, clients, started, timer, elapsed>>

\* The timer is due after 5000 ms; its handler runs then or some ms later.
Expire(c) == /\ timer[c] = "armed" /\ timer' = [timer EXCEPT ![c] = "expired"]
             /\ \E ms \in {Timeout, Timeout + 1} : elapsed' = [elapsed EXCEPT ![c] = ms]
             /\ UNCHANGED <<listening, offered, clients, started, read>>

\* Faulty variant: stop() leaves the object in the list.
UnlistedNever(c) == clients
\* stop(): erases the place find() gives.
Unlisted(c) == RemoveFirst(clients, c)

\* on_check_ping(): stop(), if more than 5000 ms have passed; nobody sets the
\* timer again.
OnCheckPing(c) ==
  /\ timer[c] = "expired" /\ timer' = [timer EXCEPT ![c] = "off"]
  /\ IF elapsed[c] > Timeout /\ started[c]
     THEN started' = [started EXCEPT ![c] = FALSE] /\ clients' = Unlisted(c)
     ELSE UNCHANGED <<started, clients>>
  /\ elapsed' = [elapsed EXCEPT ![c] = 0]
  /\ UNCHANGED <<listening, offered, read>>

Handler == \E c \in Conns : HandleAccept(c) \/ OnRead(c) \/ OnCheckPing(c)
Next == Handler \/ \E c \in Conns : Expire(c)

-----------------------------------------------------------------------------
\* clients holds the started objects, each once: stop() finds what it erases.
ClientsAreStarted == /\ IsInjective(clients)
                     /\ Range(clients) = {c \in Conns : started[c]}

\* Every connection comes to an end or is left for good: it stays in clients
\* with no read, write or timer outstanding.
Settled == listening => offered = {} /\ \A c \in Conns : ~read[c] /\ timer[c] = "off"
=============================================================================
