------------------------------ MODULE UdpEcho ------------------------------
(***************************************************************************)
(* The UDP echo programs: handle_connections()                             *)
(* (source/echo_udp_sync_server.cpp) answers one datagram after the other, *)
(* sync_echo() (source/echo_udp_sync_client.cpp) runs in one thread per    *)
(* message, with a socket of its own.  The network may lose, duplicate and *)
(* reorder datagrams, at most MaxFaults times.                             *)
(***************************************************************************)
EXTENDS Naturals, Bags, FiniteSets

CONSTANTS Clients,   \* the threads of the client; each one's message is itself
          ServerPort, None, MaxFaults

VARIABLES net,      \* the bag of datagrams under way: [from, to, data]
          received, \* the datagram the server answers, or None
          upc,      \* upc[c]: sync_echo() in thread c
          answer,   \* answer[c]: what c has received, or None
          faults,   \* datagrams lost or duplicated so far
          umain     \* main() of the client

vars == <<net, received, upc, answer, faults, umain>>

Datagram(from, to, data) == [from |-> from, to |-> to, data |-> data]
Sent(d) == net (+) SetToBag({d})
Taken(d) == net (-) SetToBag({d})

Launched(on) ==
  /\ net = EmptyBag /\ received = None /\ faults = 0
  /\ upc = [c \in Clients |-> "new"] /\ answer = [c \in Clients |-> None]
  /\ umain = IF on THEN "create" ELSE "off"

ReceiveFrom ==
  /\ received = None
  /\ \E d \in BagToSet(net) : d.to = ServerPort /\ received' = d /\ net' = Taken(d)
  /\ UNCHANGED <<upc, answer, faults, umain>>

\* Faulty variant: the sender's address is not kept.
ReplyToSelf(d) == Datagram(ServerPort, ServerPort, d.data)
\* send_to(): to the address receive_from() has left in sender_ep.
Reply(d) == Datagram(ServerPort, d.from, d.data)

SendBack == /\ received # None
            /\ net' = Sent(Reply(received)) /\ received' = None
            /\ UNCHANGED <<upc, answer, faults, umain>>

-----------------------------------------------------------------------------
SendTo(c) == /\ upc[c] = "send"
             /\ net' = Sent(Datagram(c, ServerPort, c))
             /\ upc' = [upc EXCEPT ![c] = "receive"]
             /\ UNCHANGED <<received, answer, faults, umain>>

\* receive_from() takes a datagram from any sender.
Receive(c) ==
  /\ upc[c] = "receive"
  /\ \E d \in BagToSet(net) : /\ d.to = c /\ net' = Taken(d)
                              /\ answer' = [answer EXCEPT ![c] = d.data]
  /\ upc' = [upc EXCEPT ![c] = "returned"]
  /\ UNCHANGED <<received, faults, umain>>

CreateThread == /\ umain = "create"
                /\ \E c \in Clients : upc[c] = "new" /\ upc' = [upc EXCEPT ![c] = "send"]
                /\ UNCHANGED <<net, received, answer, faults, umain>>

JoinAll == /\ umain = "create" /\ \A c \in Clients : upc[c] = "returned"
           /\ umain' = "returned"
           /\ UNCHANGED <<net, received, upc, answer, faults>>

Lose == /\ faults < MaxFaults
        /\ \E d \in BagToSet(net) : net' = Taken(d)
        /\ faults' = faults + 1
        /\ UNCHANGED <<received, upc, answer, umain>>

Duplicate == /\ faults < MaxFaults
             /\ \E d \in BagToSet(net) : net' = Sent(d)
             /\ faults' = faults + 1
             /\ UNCHANGED <<received, upc, answer, umain>>

Server == ReceiveFrom \/ SendBack
Main == CreateThread \/ JoinAll
Thread(c) == SendTo(c) \/ Receive(c)
Programs == Server \/ Main \/ \E c \in Clients : Thread(c)
Next == Programs \/ Lose \/ Duplicate

-----------------------------------------------------------------------------
\* A thread that gets an answer gets its own message.
EchoedOwn == \A c \in Clients : answer[c] \in {c, None}

\* Nobody sends again: main() returns if the network is not at fault.
Returned == umain \in {"off", "returned"} \/ faults > 0
=============================================================================
