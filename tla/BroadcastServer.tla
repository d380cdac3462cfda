-------------------------- MODULE BroadcastServer --------------------------
(***************************************************************************)
(* Server of source/test_readwrite_lock.cpp: broadcast() sends to every    *)
(* client under a shared lock, add_client() adds one under an exclusive    *)
(* lock.  send() is empty in the code; sent says whom it was called for.   *)
(***************************************************************************)
EXTENDS Naturals, SequencesExt

CONSTANTS Broadcasters,  \* calls of broadcast()
          Fds,           \* calls of add_client(), by their argument
          None

VARIABLES clients,  \* m_clients
          readers,  \* the calls that hold m_rwLock shared
          writer,   \* the call that holds it exclusively, or None
          bpc,      \* where each call of broadcast() is
          range,    \* the vector its loop began to walk through
          sent,     \* the clients it has sent to, in order
          known,    \* the clients added before it was called: not in the code
          apc       \* where each call of add_client() is

vars == <<clients, readers, writer, bpc, range, sent, known, apc>>

\* on is FALSE if this program is not the one that runs.
Launched(on) == /\ clients = <<>>
                /\ readers = {} /\ writer = None
                /\ bpc = [b \in Broadcasters |-> IF on THEN "idle" ELSE "off"]
                /\ range = [b \in Broadcasters |-> <<>>]
                /\ sent = [b \in Broadcasters |-> <<>>]
                /\ known = [b \in Broadcasters |-> {}]
                /\ apc = [f \in Fds |-> IF on THEN "idle" ELSE "off"]

NobodyIn == writer = None /\ readers = {}          \* line 25

LoopEnds(b) == Len(sent[b]) = Len(range[b])       \* line 18

-----------------------------------------------------------------------------
(* broadcast()                                                             *)

Call(b) == /\ bpc[b] = "idle"
           /\ known' = [known EXCEPT ![b] = {f \in Fds : apc[f] = "returned"}]
           /\ bpc' = [bpc EXCEPT ![b] = "lock"]
           /\ UNCHANGED <<clients, readers, writer, range, sent, apc>>

LockShared(b) == /\ bpc[b] = "lock" /\ writer = None
                 /\ readers' = readers \cup {b}
                 /\ range' = [range EXCEPT ![b] = clients]
                 /\ bpc' = [bpc EXCEPT ![b] = "loop"]
                 /\ UNCHANGED <<clients, writer, sent, known, apc>>

Send(b) == /\ bpc[b] = "loop" /\ ~LoopEnds(b)
           /\ sent' = [sent EXCEPT ![b] = Append(@, range[b][Len(@) + 1])]
           /\ UNCHANGED <<clients, readers, writer, bpc, range, known, apc>>

UnlockShared(b) == /\ bpc[b] = "loop" /\ LoopEnds(b)
                   /\ readers' = readers \ {b}
                   /\ bpc' = [bpc EXCEPT ![b] = "returned"]
                   /\ UNCHANGED <<clients, writer, range, sent, known, apc>>

-----------------------------------------------------------------------------
(* add_client()                                                            *)

LockExclusive(f) == /\ apc[f] = "idle" /\ NobodyIn
                    /\ writer' = f
                    /\ apc' = [apc EXCEPT ![f] = "push"]
                    /\ UNCHANGED <<clients, readers, bpc, range, sent, known>>

PushBack(f) == /\ apc[f] = "push"
               /\ clients' = Append(clients, f)
               /\ apc' = [apc EXCEPT ![f] = "unlock"]
               /\ UNCHANGED <<readers, writer, bpc, range, sent, known>>

UnlockExclusive(f) == /\ apc[f] = "unlock"
                      /\ writer' = None
                      /\ apc' = [apc EXCEPT ![f] = "returned"]
                      /\ UNCHANGED <<clients, readers, bpc, range, sent, known>>

Broadcast(b) == Call(b) \/ LockShared(b) \/ Send(b) \/ UnlockShared(b)
AddClient(f) == LockExclusive(f) \/ PushBack(f) \/ UnlockExclusive(f)

Next == \/ \E b \in Broadcasters : Broadcast(b)
        \/ \E f \in Fds : AddClient(f)

TypeOK == /\ clients \in Seq(Fds)
          /\ readers \subseteq Broadcasters /\ writer \in Fds \cup {None}
          /\ bpc \in [Broadcasters -> {"off", "idle", "lock", "loop", "returned"}]
          /\ range \in [Broadcasters -> Seq(Fds)] /\ sent \in [Broadcasters -> Seq(Fds)]
          /\ known \in [Broadcasters -> SUBSET Fds]
          /\ apc \in [Fds -> {"off", "idle", "push", "unlock", "returned"}]

\* The vector does not change under a loop that walks through it.
LoopIsSafe == \A b \in Broadcasters : bpc[b] = "loop" => range[b] = clients

\* A broadcast reaches every client added before it was called, once.
ReachesAll == \A b \in Broadcasters : bpc[b] = "returned" =>
  known[b] \subseteq ToSet(sent[b]) /\ IsInjective(sent[b])
=============================================================================
