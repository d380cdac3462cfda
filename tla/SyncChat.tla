------------------------------ MODULE SyncChat ------------------------------
(***************************************************************************)
(* The synchronous chat server (source/sync_server.cpp) with clients of    *)
(* both kinds: the handlers of source/async_client.cpp, which wait for     *)
(* each answer, and the loop of source/sync_client.cpp, whose              *)
(* read_complete() returns 0, so that it reads no answer and never waits.  *)
(*                                                                         *)
(* A buffer is a sequence of cells: a request with its "\n", "noise" (some *)
(* other line) or "junk" (bytes without "\n").  already_read_ is the       *)
(* number of cells.  The constructor leaves it uninitialised: it may be 0, *)
(* count a few bytes of noise or junk, or be so wild that the first use    *)
(* of the buffer ends the server.  Time passes in ticks, which are long    *)
(* compared with a pass of the server or a handler of a client.            *)
(***************************************************************************)
EXTENDS Naturals, SequencesExt, Selection

CONSTANTS AsyncClients, SyncClients,
          Timeout,    \* timed_out()'s 5000 ms, in ticks
          Delays,     \* rand() % 7000, in ticks
          MaxUnread   \* requests a socket holds for the server

VARIABLES backlog,  \* connections accept() has not returned
          clients,  \* the global list
          hpc,      \* handle_clients_thread(); it holds cs unless it sleeps
          pos,      \* the next client of its loop
          inbox,    \* inbox[c]: requests not read by the server
          buff,     \* buff[c]: the read part of the server's buff_
          age,      \* age[c]: ticks since last_ping
          changed,  \* changed[c]: clients_changed_, where somebody reads the answer
          username, \* the connections whose login was handled
          open,     \* open[c]: the server has not closed the connection
          cpc,      \* cpc[c]: the client
          answers,  \* answers[c]: answers not read by the client
          delay,    \* delay[c]: ticks until its next ping
          slow      \* the clients that have let more than Timeout pass, or ended

server == <<backlog, clients, hpc, pos, buff, age, changed, username>>
client == <<cpc, delay, slow>>
vars == <<server, client, inbox, open, answers>>

Clients == AsyncClients \cup SyncClients
Requests == {"login", "ping", "ask_clients"}
Lines == Requests \cup {"noise"}
Wild == <<"wild">>

\* What already_read_ and buff_ may be when nobody has set them.
Uninitialised == {<< >>, <<"junk">>, <<"noise">>, Wild}

\* The difference to not_a_date_time is longer than any.
NotADate == Timeout + 1

Launched(on) ==
  /\ backlog = << >> /\ clients = << >> /\ pos = 1
  /\ hpc = IF on THEN "sleep" ELSE "off"
  /\ inbox = [c \in Clients |-> << >>] /\ answers = [c \in Clients |-> << >>]
  /\ age = [c \in Clients |-> NotADate]
  /\ IF on THEN buff \in [Clients -> Uninitialised] /\ changed \in [AsyncClients -> BOOLEAN]
           ELSE buff = [c \in Clients |-> << >>] /\ changed = [c \in AsyncClients |-> FALSE]
  /\ username = {} /\ open = [c \in Clients |-> FALSE]
  /\ cpc = [c \in Clients |-> IF on THEN "connect" ELSE "off"]
  /\ delay = [c \in Clients |-> 0] /\ slow = {}

-----------------------------------------------------------------------------
(* accept_thread().                                                        *)

\* Faulty variant: accept_thread() does not lock cs.
CsFreeForAll == hpc # "crashed"
CsFree == hpc = "sleep"

\* What accept() returned is out of everybody's reach until it is listed.
AcceptThread == /\ backlog # << >> /\ CsFree
                /\ clients' = Append(clients, Head(backlog)) /\ backlog' = Tail(backlog)
                /\ UNCHANGED <<hpc, pos, buff, age, changed, username, client, inbox, open, answers>>

-----------------------------------------------------------------------------
(* handle_clients_thread().                                                *)

TimedOut(ticks) == ticks > Timeout

Wake == /\ hpc = "sleep" /\ hpc' = "loop"
        /\ UNCHANGED <<backlog, clients, pos, buff, age, changed, username,
                       client, inbox, open, answers>>

\* What is left of the objects that S loses: their sockets are closed.
Destroyed(S) ==
  /\ open' = [c \in Clients |-> open[c] /\ c \notin S]
  /\ buff' = [c \in Clients |-> IF c \in S THEN << >> ELSE buff[c]]
  /\ inbox' = [c \in Clients |-> IF c \in S THEN << >> ELSE inbox[c]]
  /\ age' = [c \in Clients |-> IF c \in S THEN NotADate ELSE age[c]]

\* An already_read_ that was never set leads find() out of the buffer: the
\* server ends.
Crash == /\ hpc' = "crashed" /\ Destroyed(Clients)
         /\ backlog' = << >> /\ clients' = << >> /\ pos' = 1
         /\ UNCHANGED <<changed, username, client, answers>>

\* The position of the first "\n", 0 if there is none.
FirstLine(cells) ==
  IF Range(cells) \cap Lines = {} THEN 0 ELSE SelectInSeq(cells, LAMBDA x : x \in Lines)

\* A message is a request only if it begins with one.
Message(cells) == IF FirstLine(cells) = 1 THEN Head(cells) ELSE "noise"

\* What process_request() leaves: as many cells as lie behind the message, but
\* with the contents of what was never read.
Leftover(cells) == [1..(Len(cells) - FirstLine(cells)) -> {"noise", "junk"}]

\* on_login(), on_ping(), on_clients(); anything else is reported only.  Nobody
\* reads the answers to a sync_client or to who is gone.
Answer(c, m) ==
  IF c \notin AsyncClients \/ cpc[c] = "ended" THEN << >>
  ELSE CASE m = "login" -> <<"login ok">>
         [] m = "ping" -> IF changed[c] THEN <<"ping client_list_changed">> ELSE <<"ping ok">>
         [] m = "ask_clients" -> <<"clients">>
         [] OTHER -> << >>

\* read_request() and process_request() without a "\n": only the buffer grows.
ReadOnly(c, cells) ==
  /\ FirstLine(cells) = 0
  /\ buff' = [buff EXCEPT ![c] = cells]
  /\ open' = [open EXCEPT ![c] = ~TimedOut(age[c])]
  /\ UNCHANGED <<age, changed, username, answers>>

\* Faulty variant: the message does not count as a sign of life.
LastPingOfLogin(c, m) == IF m = "login" THEN 0 ELSE age[c]
LastPing(c, m) == 0

\* process_request() with a message.  write() throws, and the connection is
\* closed, at the latest when the peer is known to be gone.
Process(c, cells) == LET m == Message(cells) IN
  /\ FirstLine(cells) # 0
  /\ \E rest \in Leftover(cells) : buff' = [buff EXCEPT ![c] = rest]
  /\ age' = [age EXCEPT ![c] = LastPing(c, m)]
  /\ username' = IF m = "login" THEN username \cup {c} ELSE username
  /\ \/ /\ answers' = [answers EXCEPT ![c] = @ \o Answer(c, m)]
        /\ changed' = [d \in AsyncClients |-> changed[d] /\ ~(d = c /\ m = "ping")]
        /\ open' = [open EXCEPT ![c] = ~TimedOut(age'[c])]
     \/ /\ cpc[c] = "ended" /\ m \in Requests
        /\ open' = [open EXCEPT ![c] = FALSE] /\ UNCHANGED <<answers, changed>>

\* answer_to_client() for the next client of the loop.
AnswerToClient == \E c \in Clients :
  /\ hpc = "loop" /\ pos <= Len(clients) /\ c = clients[pos]
  /\ \/ buff[c] = Wild /\ Crash
     \/ /\ buff[c] # Wild
        /\ IF open[c] THEN /\ inbox' = [inbox EXCEPT ![c] = << >>]
                           /\ ReadOnly(c, buff[c] \o inbox[c]) \/ Process(c, buff[c] \o inbox[c])
                      ELSE UNCHANGED <<inbox, buff, age, changed, username, open, answers>>
        /\ pos' = pos + 1
        /\ UNCHANGED <<backlog, clients, hpc, client>>

\* Faulty variant: what is closed is erased, whether or not it is timed out.
ErasedIfClosed(c) == ~open[c] /\ age[c] <= Timeout
Erased(c) == TimedOut(age[c])

\* remove_if() and erase() after the loop; the last pointer to an object closes
\* its socket.
Erase == /\ hpc = "loop" /\ pos > Len(clients) /\ hpc' = "sleep" /\ pos' = 1
         /\ clients' = Selected(clients, {i \in DOMAIN clients : ~Erased(clients[i])})
         /\ Destroyed({c \in Range(clients) : Erased(c)})
         /\ UNCHANGED <<backlog, changed, username, client, answers>>

-----------------------------------------------------------------------------
(* The clients.                                                            *)

Ended(c) == /\ cpc' = [cpc EXCEPT ![c] = "ended"]
            /\ delay' = [delay EXCEPT ![c] = 0] /\ slow' = slow \cup {c}

\* A connection is made or, if the server is gone, refused; async_client
\* stops, sync_client catches the exception and ends.
Connect(c) ==
  /\ cpc[c] = "connect"
  /\ IF hpc # "crashed"
     THEN /\ backlog' = Append(backlog, c) /\ open' = [open EXCEPT ![c] = TRUE]
          /\ cpc' = [cpc EXCEPT ![c] = "login"]
          /\ UNCHANGED <<delay, slow>>
     ELSE Ended(c) /\ UNCHANGED <<backlog, open>>
  /\ UNCHANGED <<clients, hpc, pos, buff, age, changed, username, inbox, answers>>

\* do_write() or write(); what is written to a closed connection is lost.
Write(c, m) == inbox' = [inbox EXCEPT ![c] = IF open[c] THEN Append(@, m) ELSE @]

\* postpone_ping(), or the sleep of loop().
Postpone(c, place) == \E d \in Delays :
  /\ delay' = [delay EXCEPT ![c] = d]
  /\ slow' = IF d > Timeout THEN slow \cup {c} ELSE slow
  /\ cpc' = [cpc EXCEPT ![c] = place]

\* async_client: a request is written, then its answer is read.
Ask(c, m) == Write(c, m) /\ cpc' = [cpc EXCEPT ![c] = "read"] /\ UNCHANGED <<delay, slow>>

AsyncLogin(c) == /\ c \in AsyncClients /\ cpc[c] = "login" /\ Ask(c, "login")
                 /\ UNCHANGED <<server, open, answers>>

DoPing(c) == /\ c \in AsyncClients /\ cpc[c] = "postponed" /\ delay[c] = 0 /\ Ask(c, "ping")
             /\ UNCHANGED <<server, open, answers>>

OnRead(c) ==
  /\ c \in AsyncClients /\ cpc[c] = "read" /\ answers[c] # << >>
  /\ answers' = [answers EXCEPT ![c] = Tail(@)]
  /\ IF Head(answers[c]) \in {"login ok", "ping client_list_changed"}
     THEN Ask(c, "ask_clients")
     ELSE Postpone(c, "postponed") /\ UNCHANGED inbox
  /\ UNCHANGED <<server, open>>

\* on_read() with an error: stop().
OnReadError(c) == /\ c \in AsyncClients /\ cpc[c] = "read" /\ answers[c] = << >> /\ ~open[c]
                  /\ Ended(c) /\ UNCHANGED <<server, inbox, open, answers>>

\* loop(): login, then one ping after the other; a write to a closed
\* connection may throw, and run_client() ends.
Loop(c) ==
  /\ c \in SyncClients /\ cpc[c] \in {"login", "loop"} /\ delay[c] = 0
  /\ Len(inbox[c]) < MaxUnread
  /\ \/ /\ cpc[c] = "login" /\ Write(c, "login")
        /\ cpc' = [cpc EXCEPT ![c] = "loop"] /\ UNCHANGED <<delay, slow>>
     \/ cpc[c] = "loop" /\ Write(c, "ping") /\ Postpone(c, "loop")
     \/ ~open[c] /\ Ended(c) /\ UNCHANGED <<inbox, answers>>
  /\ UNCHANGED <<server, open, answers>>

\* The program around the client may end at any time.
Leave(c) == /\ cpc[c] \in {"login", "read", "postponed", "loop"}
            /\ Ended(c) /\ answers' = [answers EXCEPT ![c] = << >>]
            /\ UNCHANGED <<server, inbox, open>>

\* Something happens at once, not in the course of seconds.
Busy(c) == \/ c \in Range(backlog)
           \/ open[c] /\ inbox[c] # << >>
           \/ open[c] /\ c \in Range(clients) /\ FirstLine(buff[c]) # 0
           \/ cpc[c] \in {"connect", "login"}
           \/ cpc[c] = "read" /\ ~(answers[c] = << >> /\ open[c])
           \/ cpc[c] \in {"postponed", "loop"} /\ delay[c] = 0

Tick == /\ hpc # "off" /\ \A c \in Clients : ~Busy(c)
        /\ age' = [c \in Clients |-> IF age[c] > Timeout THEN NotADate ELSE age[c] + 1]
        /\ delay' = [c \in Clients |-> IF delay[c] = 0 THEN 0 ELSE delay[c] - 1]
        /\ UNCHANGED <<backlog, clients, hpc, pos, buff, changed, username,
                       cpc, slow, inbox, open, answers>>

HandleClientsThread == Wake \/ AnswerToClient \/ Erase
Client(c) == \/ Connect(c) \/ AsyncLogin(c) \/ DoPing(c) \/ OnRead(c) \/ OnReadError(c) \/ Loop(c)

Next == \/ AcceptThread \/ HandleClientsThread \/ Tick
        \/ \E c \in Clients : Client(c) \/ Leave(c)

Fairness == /\ SF_vars(AcceptThread) /\ WF_vars(HandleClientsThread)
            /\ WF_vars(Tick) /\ WF_vars(\E c \in Clients : Client(c))

-----------------------------------------------------------------------------
\* The list does not change under the loop that walks it.
LoopIsSafe == hpc = "loop" => clients' = clients \/ hpc' # "loop"

\* Who has logged in and pings in time is not dropped.
KeptInTime == \A c \in username : open[c] \/ c \in slow \/ hpc = "crashed"

\* Who has ended does not stay in the list, whoever else comes and goes.
GoneAreErased == []<>(\A c \in Range(clients) : cpc[c] # "ended")

\* A client that waits for an answer gets it, or is told that it is dropped.
EveryReadReturns == \A c \in AsyncClients : cpc[c] = "read" ~> cpc[c] # "read"
=============================================================================
