------------------------ MODULE ThreadPrograms_proofs ------------------------
(***************************************************************************)
(* Proofs about ThreadPrograms, for every number of threads, callbacks,    *)
(* broadcasts and iterations.  A component is proved by itself first: its  *)
(* invariant holds at the launch and is kept by its Next.                  *)
(***************************************************************************)
EXTENDS ThreadPrograms, SequenceLemmas, FiniteSetTheorems

-----------------------------------------------------------------------------
(* MemoryReclaimer.                                                        *)

\* The threads whose flag is not set, by their index.
Remaining == {k \in DOMAIN wasQuiescent : ~ wasQuiescent[k]}

\* A callback of the previous interval may be awaited only by threads that have
\* not been quiescent in this one, a callback that was called by nobody.
ReclaimerInv ==
  /\ registered \in Seq(Threads) /\ IsInjective(registered)
  /\ wasQuiescent \in Seq(BOOLEAN) /\ Len(wasQuiescent) = Len(registered)
  /\ numRemaining = Cardinality(Remaining)
  /\ current \in Seq(Callbacks) /\ previous \in Seq(Callbacks) /\ invoked \in Seq(Callbacks)
  /\ IsInjective(current) /\ IsInjective(previous) /\ IsInjective(invoked)
  /\ ToSet(current) \cap ToSet(previous) = {}
  /\ ToSet(current) \cap ToSet(invoked) = {}
  /\ ToSet(previous) \cap ToSet(invoked) = {}
  /\ holders \in [Callbacks -> SUBSET ToSet(registered)]
  /\ \A c \in ToSet(previous) : \A k \in DOMAIN registered :
       registered[k] \in holders[c] => ~ wasQuiescent[k]
  /\ \A c \in ToSet(invoked) : holders[c] = {}

\* The operators of the modules that MemoryReclaimer extends are the same here.
LEMMA ReclaimerOperators ==
  ASSUME NEW s
  PROVE  /\ Reclaimer!ToSet(s) = ToSet(s)
         /\ Reclaimer!IsInjective(s) <=> IsInjective(s)
         /\ Reclaimer!Cardinality(s) = Cardinality(s)
  BY DEF ToSet, Reclaimer!ToSet, IsInjective, Reclaimer!IsInjective,
         Cardinality, Reclaimer!Cardinality

\* A registered thread has one index.
LEMMA IndexOf ==
  ASSUME NEW t \in ToSet(registered)
  PROVE  Reclaimer!Index(t) \in DOMAIN registered /\ registered[Reclaimer!Index(t)] = t
  BY DEF ToSet, Reclaimer!Index

\* What the invariant says of the properties of the component.
LEMMA ReclaimerImplied == ReclaimerInv => Reclaimer!TypeOK /\ Reclaimer!SafeToFree
  <1> SUFFICES ASSUME ReclaimerInv PROVE Reclaimer!TypeOK /\ Reclaimer!SafeToFree
    OBVIOUS
  <1> USE DEF ReclaimerInv
  <1>1. ToSet(registered) \subseteq Threads
    <2>1. \A k \in DOMAIN registered : registered[k] \in Threads
      BY ElementOfSeq, LenProperties
    <2> QED
      BY <2>1 DEF ToSet
  <1>2. Reclaimer!TypeOK
    BY <1>1, ReclaimerOperators DEF Reclaimer!TypeOK, Remaining
  <1>3. \A k \in DOMAIN invoked : holders[invoked[k]] = {}
    BY DEF ToSet
  <1>4. /\ previous \o invoked \in Seq(Callbacks) /\ IsInjective(previous \o invoked)
        /\ ToSet(previous \o invoked) = ToSet(previous) \cup ToSet(invoked)
    BY ConcatElements
  <1>5. ToSet(current) \cap ToSet(previous \o invoked) = {}
    BY <1>4
  <1>6. IsInjective(current \o (previous \o invoked))
    BY <1>4, <1>5, ConcatElements
  <1>7. (current \o previous) \o invoked = current \o (previous \o invoked)
    <2>1. current \in Seq(Callbacks) /\ previous \in Seq(Callbacks) /\ invoked \in Seq(Callbacks)
      OBVIOUS
    <2> HIDE DEF ReclaimerInv
    <2> QED
      BY <2>1, ConcatAssociative
  <1> QED
    BY <1>2, <1>3, <1>6, <1>7, ReclaimerOperators DEF Reclaimer!SafeToFree

\* At the launch nobody is registered.
LEMMA ReclaimerInit == Reclaimer!Launched => ReclaimerInv
  <1> SUFFICES ASSUME Reclaimer!Launched PROVE ReclaimerInv
    OBVIOUS
  <1>1. \A S : <<>> \in Seq(S)
    BY EmptySeq
  <1>2. Remaining = {}
    BY DEF Remaining, Reclaimer!Launched
  <1>3. numRemaining = Cardinality(Remaining)
    BY <1>2, FS_EmptySet DEF Reclaimer!Launched
  <1> QED
    BY <1>1, <1>3, EmptyElements DEF ReclaimerInv, Reclaimer!Launched

\* The flags: how many are left to be quiescent is a number.
LEMMA RemainingFinite ==
  ASSUME ReclaimerInv
  PROVE  /\ IsFiniteSet(Remaining) /\ Len(wasQuiescent) \in Nat
         /\ DOMAIN wasQuiescent = 1 .. Len(wasQuiescent) /\ DOMAIN registered = DOMAIN wasQuiescent
  <1>1. /\ Len(wasQuiescent) \in Nat /\ DOMAIN wasQuiescent = 1 .. Len(wasQuiescent)
        /\ DOMAIN registered = 1 .. Len(registered)
    BY LenProperties DEF ReclaimerInv
  <1>2. IsFiniteSet(1 .. Len(wasQuiescent))
    BY <1>1, FS_Interval
  <1>3. Remaining \in SUBSET (1 .. Len(wasQuiescent))
    BY <1>1 DEF Remaining
  <1> QED
    BY <1>1, <1>2, <1>3, FS_Subset DEF ReclaimerInv

\* A flag that is appended is behind the others.
LEMMA FlagAppended ==
  ASSUME NEW s \in Seq(BOOLEAN), NEW p, p = Append(s, FALSE)
  PROVE  /\ p \in Seq(BOOLEAN) /\ Len(p) = Len(s) + 1
         /\ \A k \in 1 .. Len(s) : p[k] = s[k]
         /\ ~ p[Len(s) + 1]
  OBVIOUS

\* registerThread(): the new thread is one more to wait for.
LEMMA ReclaimerRegister ==
  ASSUME ReclaimerInv, NEW t \in Threads, Reclaimer!RegisterThread(t)
  PROVE  ReclaimerInv'
  <1> DEFINE n == Len(wasQuiescent)
  <1>1. /\ t \notin ToSet(registered)
        /\ registered' = Append(registered, t) /\ wasQuiescent' = Append(wasQuiescent, FALSE)
        /\ numRemaining' = numRemaining + 1
        /\ UNCHANGED <<current, previous, invoked, holders>>
    BY ReclaimerOperators DEF Reclaimer!RegisterThread
  <1>2. /\ n \in Nat /\ IsFiniteSet(Remaining)
        /\ DOMAIN wasQuiescent = 1 .. n /\ DOMAIN registered = 1 .. n /\ Len(registered) = n
    BY RemainingFinite DEF ReclaimerInv
  <1>3. /\ registered' \in Seq(Threads) /\ IsInjective(registered')
        /\ ToSet(registered') = ToSet(registered) \cup {t}
    BY <1>1, AppendElements DEF ReclaimerInv
  <1>4. /\ registered' \in Seq(Threads) /\ Len(registered') = n + 1
        /\ \A k \in 1 .. n : registered'[k] = registered[k]
        /\ registered'[n + 1] = t
    BY <1>1, <1>2, AppendProperties DEF ReclaimerInv
  <1>5. /\ wasQuiescent' \in Seq(BOOLEAN) /\ Len(wasQuiescent') = n + 1
        /\ \A k \in 1 .. n : wasQuiescent'[k] = wasQuiescent[k]
        /\ ~ wasQuiescent'[n + 1]
    BY <1>1, FlagAppended DEF ReclaimerInv
  <1>6. DOMAIN registered' = 1 .. n + 1 /\ DOMAIN wasQuiescent' = 1 .. n + 1
    BY <1>4, <1>5, LenProperties
  <1> HIDE DEF n
  <1>7. Remaining' = Remaining \cup {n + 1} /\ n + 1 \notin Remaining
    BY <1>2, <1>5, <1>6 DEF Remaining
  <1>8. numRemaining' = Cardinality(Remaining')
    BY <1>1, <1>2, <1>7, FS_AddElement DEF ReclaimerInv
  <1>9. ASSUME NEW c \in ToSet(previous), NEW k \in 1 .. n + 1, registered'[k] \in holders[c]
        PROVE  ~ wasQuiescent'[k]
    <2>1. CASE k = n + 1
      BY <1>5, <2>1
    <2>2. CASE k \in 1 .. n
      BY <1>2, <1>4, <1>5, <1>9, <2>2 DEF ReclaimerInv
    <2> QED
      BY <1>2, <2>1, <2>2
  <1>10. holders' \in [Callbacks -> SUBSET ToSet(registered')]
    BY <1>1, <1>3 DEF ReclaimerInv
  <1> QED
    BY <1>1, <1>3, <1>4, <1>5, <1>6, <1>8, <1>9, <1>10 DEF ReclaimerInv

\* addCallback(): whoever is registered may hold what the callback frees.
LEMMA ReclaimerAdd ==
  ASSUME ReclaimerInv, NEW c \in Callbacks, Reclaimer!AddCallback(c)
  PROVE  ReclaimerInv'
  <1>1. /\ c \notin ToSet(current) /\ c \notin ToSet(previous) /\ c \notin ToSet(invoked)
        /\ current' = Append(current, c)
        /\ holders' = [holders EXCEPT ![c] = ToSet(registered)]
        /\ UNCHANGED <<registered, wasQuiescent, previous, numRemaining, invoked>>
    BY ReclaimerOperators DEF Reclaimer!AddCallback, Reclaimer!Added
  <1>2. /\ current' \in Seq(Callbacks) /\ IsInjective(current')
        /\ ToSet(current') = ToSet(current) \cup {c}
    BY <1>1, AppendElements DEF ReclaimerInv
  <1>3. holders' \in [Callbacks -> SUBSET ToSet(registered)]
    BY <1>1 DEF ReclaimerInv
  <1>4. \A d \in ToSet(previous) \cup ToSet(invoked) : holders'[d] = holders[d]
    BY <1>1 DEF ReclaimerInv
  <1>5. Remaining' = Remaining
    BY <1>1 DEF Remaining
  <1> QED
    BY <1>1, <1>2, <1>3, <1>4, <1>5 DEF ReclaimerInv

\* A thread that is quiescent holds nothing any more.
LEMMA ReclaimerReleases ==
  ASSUME ReclaimerInv, NEW t, holders' = [c \in Callbacks |-> holders[c] \ {t}],
         registered' = registered
  PROVE  /\ holders' \in [Callbacks -> SUBSET ToSet(registered')]
         /\ \A c \in Callbacks : holders'[c] \subseteq holders[c] /\ t \notin holders'[c]
         /\ \A c \in ToSet(current) \cup ToSet(previous) \cup ToSet(invoked) : c \in Callbacks
         /\ \A c \in ToSet(invoked) : holders'[c] = {}
  <1>1. \A c \in ToSet(current) \cup ToSet(previous) \cup ToSet(invoked) : c \in Callbacks
    BY ElementOfSeq, LenProperties DEF ReclaimerInv, ToSet
  <1> QED
    BY <1>1 DEF ReclaimerInv

\* onQuiescentState() of a thread that is not the last: its flag is set.
LEMMA ReclaimerMark ==
  ASSUME ReclaimerInv, NEW t \in Threads, Reclaimer!OnQuiescentState(t), numRemaining - 1 # 0
  PROVE  ReclaimerInv'
  <1> DEFINE i == Reclaimer!Index(t)
  <1>1. /\ t \in ToSet(registered) /\ ~ wasQuiescent[i]
        /\ holders' = [c \in Callbacks |-> holders[c] \ {t}]
        /\ wasQuiescent' = [wasQuiescent EXCEPT ![i] = TRUE]
        /\ numRemaining' = numRemaining - 1
        /\ UNCHANGED <<registered, current, previous, invoked>>
    BY ReclaimerOperators DEF Reclaimer!OnQuiescentState
  <1>2. i \in DOMAIN wasQuiescent /\ i \in DOMAIN registered /\ registered[i] = t
    BY <1>1, IndexOf, RemainingFinite
  <1> HIDE DEF i
  <1>3. /\ wasQuiescent' \in Seq(BOOLEAN) /\ Len(wasQuiescent') = Len(wasQuiescent)
        /\ DOMAIN wasQuiescent' = DOMAIN wasQuiescent
        /\ \A k \in DOMAIN wasQuiescent : wasQuiescent'[k] = IF k = i THEN TRUE ELSE wasQuiescent[k]
    BY <1>1, <1>2, RemainingFinite, ExceptSeq DEF ReclaimerInv
  <1>4. Remaining' = Remaining \ {i} /\ i \in Remaining
    BY <1>1, <1>2, <1>3 DEF Remaining
  <1>5. numRemaining' = Cardinality(Remaining')
    BY <1>1, <1>4, RemainingFinite, FS_RemoveElement DEF ReclaimerInv
  <1>6. /\ holders' \in [Callbacks -> SUBSET ToSet(registered')]
        /\ \A c \in Callbacks : holders'[c] \subseteq holders[c] /\ t \notin holders'[c]
        /\ \A c \in ToSet(previous) : c \in Callbacks
        /\ \A c \in ToSet(invoked) : holders'[c] = {}
    BY <1>1, ReclaimerReleases
  <1>7. ASSUME NEW c \in ToSet(previous), NEW k \in DOMAIN registered, registered[k] \in holders'[c]
        PROVE  ~ wasQuiescent'[k]
    <2>1. registered[k] \in holders[c] /\ k # i
      BY <1>2, <1>6, <1>7
    <2>2. ~ wasQuiescent[k] /\ k \in DOMAIN wasQuiescent
      BY <2>1, RemainingFinite DEF ReclaimerInv
    <2> QED
      BY <1>3, <2>1, <2>2
  <1> QED
    BY <1>1, <1>3, <1>5, <1>6, <1>7 DEF ReclaimerInv

\* onQuiescentState() of the last thread: nobody holds what the previous
\* interval left, and it is called; what this one leaves is next.
LEMMA ReclaimerEndInterval ==
  ASSUME ReclaimerInv, NEW t \in Threads, Reclaimer!OnQuiescentState(t), numRemaining - 1 = 0
  PROVE  ReclaimerInv'
  <1> DEFINE i == Reclaimer!Index(t)
  <1>1. /\ t \in ToSet(registered) /\ ~ wasQuiescent[i]
        /\ holders' = [c \in Callbacks |-> holders[c] \ {t}]
        /\ invoked' = invoked \o previous /\ previous' = current /\ current' = <<>>
        /\ wasQuiescent' = [k \in DOMAIN wasQuiescent |-> FALSE]
        /\ numRemaining' = Len(wasQuiescent)
        /\ registered' = registered
    BY ReclaimerOperators DEF Reclaimer!OnQuiescentState, Reclaimer!Due, Reclaimer!Reset, Reclaimer!All
  <1>2. i \in DOMAIN wasQuiescent /\ i \in DOMAIN registered /\ registered[i] = t
    BY <1>1, IndexOf, RemainingFinite
  <1> HIDE DEF i
  <1>3. Remaining = {i}
    <2>1. numRemaining = Cardinality(Remaining) /\ Cardinality(Remaining) \in Nat
      BY RemainingFinite, FS_CardinalityType DEF ReclaimerInv
    <2>4. Cardinality(Remaining) = 1
      BY <2>1
    <2>2. \E x : Remaining = {x}
      BY <2>4, RemainingFinite, FS_Singleton
    <2>3. i \in Remaining
      BY <1>1, <1>2 DEF Remaining
    <2> QED
      BY <2>2, <2>3
  <1>4. /\ wasQuiescent' \in Seq(BOOLEAN) /\ Len(wasQuiescent') = Len(wasQuiescent)
        /\ DOMAIN wasQuiescent' = DOMAIN wasQuiescent
    <2>1. wasQuiescent' \in [1 .. Len(wasQuiescent) -> BOOLEAN]
      BY <1>1, RemainingFinite
    <2>2. wasQuiescent' \in Seq(BOOLEAN)
      BY <2>1, RemainingFinite, SeqDef
    <2>3. Len(wasQuiescent') \in Nat /\ DOMAIN wasQuiescent' = 1 .. Len(wasQuiescent')
      BY <2>2, LenProperties
    <2> QED
      BY <2>1, <2>2, <2>3, RemainingFinite
  <1>5. Remaining' = 1 .. Len(wasQuiescent)
    BY <1>1, RemainingFinite DEF Remaining
  <1>6. numRemaining' = Cardinality(Remaining')
    <2>1. Len(wasQuiescent) \in Nat
      BY RemainingFinite
    <2>2. ASSUME NEW n \in Nat PROVE Cardinality(1 .. n) = n
      <3>1. Cardinality(1 .. n) = IF 1 > n THEN 0 ELSE n - 1 + 1
        BY FS_Interval
      <3> QED
        BY <3>1
    <2> QED
      BY <1>1, <1>5, <2>1, <2>2
  <1>7. /\ holders' \in [Callbacks -> SUBSET ToSet(registered')]
        /\ \A c \in Callbacks : holders'[c] \subseteq holders[c] /\ t \notin holders'[c]
        /\ \A c \in ToSet(previous) : c \in Callbacks
        /\ \A c \in ToSet(invoked) : holders'[c] = {}
    BY <1>1, ReclaimerReleases
  <1>8. ASSUME NEW c \in ToSet(previous) PROVE holders'[c] = {}
    <2>1. ASSUME NEW u \in holders'[c] PROVE FALSE
      <3>1. u \in holders[c] /\ u # t /\ u \in ToSet(registered)
        BY <1>1, <1>7
      <3>2. PICK k \in DOMAIN registered : registered[k] = u
        BY <3>1 DEF ToSet
      <3>3. k \in Remaining
        BY <3>1, <3>2, RemainingFinite DEF ReclaimerInv, Remaining
      <3> QED
        BY <1>2, <1>3, <3>1, <3>2, <3>3
    <2> QED
      BY <2>1
  <1>9. /\ invoked' \in Seq(Callbacks) /\ IsInjective(invoked')
        /\ ToSet(invoked') = ToSet(invoked) \cup ToSet(previous)
    BY <1>1, ConcatElements DEF ReclaimerInv
  <1>10. current' \in Seq(Callbacks) /\ ToSet(current') = {} /\ IsInjective(current')
    BY <1>1, EmptySeq, EmptyElements
  <1>11. \A k \in DOMAIN registered' : ~ wasQuiescent'[k]
    BY <1>1, RemainingFinite
  <1>12. previous' \in Seq(Callbacks) /\ IsInjective(previous')
         /\ ToSet(previous') \cap ToSet(invoked') = {}
    BY <1>1, <1>9 DEF ReclaimerInv
  <1> QED
    BY <1>1, <1>4, <1>6, <1>7, <1>8, <1>9, <1>10, <1>11, <1>12 DEF ReclaimerInv

\* Every step of the class keeps the invariant.
LEMMA ReclaimerStep == ReclaimerInv /\ Reclaimer!Next => ReclaimerInv'
  <1> SUFFICES ASSUME ReclaimerInv, Reclaimer!Next PROVE ReclaimerInv'
    OBVIOUS
  <1>1. ASSUME NEW t \in Threads, Reclaimer!RegisterThread(t) PROVE ReclaimerInv'
    BY <1>1, ReclaimerRegister
  <1>2. ASSUME NEW t \in Threads, Reclaimer!OnQuiescentState(t) PROVE ReclaimerInv'
    BY <1>2, ReclaimerMark, ReclaimerEndInterval
  <1>3. ASSUME NEW t \in Threads, Reclaimer!StillQuiescent(t) PROVE ReclaimerInv'
    <2>1. /\ holders' = [c \in Callbacks |-> holders[c] \ {t}]
          /\ UNCHANGED <<registered, wasQuiescent, current, previous, numRemaining, invoked>>
      BY <1>3 DEF Reclaimer!StillQuiescent
    <2>2. /\ holders' \in [Callbacks -> SUBSET ToSet(registered')]
          /\ \A c \in ToSet(previous) : holders'[c] \subseteq holders[c]
          /\ \A c \in ToSet(invoked) : holders'[c] = {}
      BY <2>1, ReclaimerReleases
    <2>3. Remaining' = Remaining
      BY <2>1 DEF Remaining
    <2> QED
      BY <2>1, <2>2, <2>3 DEF ReclaimerInv
  <1>4. ASSUME NEW c \in Callbacks, Reclaimer!AddCallback(c) PROVE ReclaimerInv'
    BY <1>4, ReclaimerAdd
  <1> QED
    BY <1>1, <1>2, <1>3, <1>4 DEF Reclaimer!Next

-----------------------------------------------------------------------------
(* BroadcastServer.                                                        *)

\* What a call of broadcast() has sent to is the beginning of its range.
Walked(b) == /\ Len(sent[b]) <= Len(range[b])
             /\ \A k \in 1 .. Len(sent[b]) : sent[b][k] = range[b][k]

\* The lock excludes, the vector holds whom add_client() has pushed, and a
\* broadcast walks through all who were known at its call.
ServerInv ==
  /\ Server!TypeOK
  /\ readers = {b \in Broadcasters : bpc[b] = "loop"}
  /\ \A f \in Threads : apc[f] \in {"push", "unlock"} <=> writer = f
  /\ writer # None => readers = {}
  /\ IsInjective(clients)
  /\ \A f \in Threads : f \in ToSet(clients) <=> apc[f] \in {"unlock", "returned"}
  /\ \A b \in Broadcasters :
       /\ \A f \in known[b] : apc[f] = "returned"
       /\ bpc[b] \in {"off", "idle", "lock"} => sent[b] = <<>>
       /\ bpc[b] = "loop" => range[b] = clients
       /\ bpc[b] \in {"loop", "returned"} =>
            known[b] \subseteq ToSet(range[b]) /\ IsInjective(range[b]) /\ Walked(b)
       /\ bpc[b] = "returned" => Len(sent[b]) = Len(range[b])

\* The operators of the modules that BroadcastServer extends are the same here.
LEMMA ServerOperators ==
  ASSUME NEW s
  PROVE  Server!ToSet(s) = ToSet(s) /\ (Server!IsInjective(s) <=> IsInjective(s))
  BY DEF ToSet, Server!ToSet, IsInjective, Server!IsInjective

\* Two sequences of one length that agree up to it are equal.
LEMMA WholeWalk ==
  ASSUME NEW S, NEW s \in Seq(S), NEW r \in Seq(S), Len(s) = Len(r),
         \A k \in 1 .. Len(s) : s[k] = r[k]
  PROVE  s = r
  BY SeqEqual

\* What the invariant says of the properties of the component.
LEMMA ServerImplied == ServerInv => Server!TypeOK /\ Server!LoopIsSafe /\ Server!ReachesAll
  <1> SUFFICES ASSUME ServerInv PROVE Server!TypeOK /\ Server!LoopIsSafe /\ Server!ReachesAll
    OBVIOUS
  <1>1. Server!TypeOK /\ Server!LoopIsSafe
    BY DEF ServerInv, Server!LoopIsSafe
  <1>2. ASSUME NEW b \in Broadcasters, bpc[b] = "returned"
        PROVE  known[b] \subseteq ToSet(sent[b]) /\ IsInjective(sent[b])
    <2>1. sent[b] \in Seq(Threads) /\ range[b] \in Seq(Threads)
      BY <1>1 DEF Server!TypeOK
    <2>2. Len(sent[b]) = Len(range[b]) /\ \A k \in 1 .. Len(sent[b]) : sent[b][k] = range[b][k]
      BY <1>2 DEF ServerInv, Walked
    <2>3. sent[b] = range[b]
      BY <2>1, <2>2, WholeWalk
    <2> QED
      BY <1>2, <2>3 DEF ServerInv
  <1> QED
    BY <1>1, <1>2, ServerOperators DEF Server!ReachesAll

\* At the launch there is no client.
LEMMA ServerInit == ASSUME NEW on \in BOOLEAN PROVE Server!Launched(on) => ServerInv
  <1> SUFFICES ASSUME Server!Launched(on) PROVE ServerInv
    OBVIOUS
  <1>1. \A S : <<>> \in Seq(S)
    BY EmptySeq
  <1>2. Server!TypeOK
    BY <1>1 DEF Server!Launched, Server!TypeOK
  <1> QED
    BY <1>2, EmptyElements, ConstantsAssumption DEF Server!Launched, ServerInv, Walked

\* Every step of the calls of broadcast() keeps the invariant.
LEMMA ServerBroadcast ==
  ASSUME ServerInv, NEW b \in Broadcasters, Server!Broadcast(b)
  PROVE  ServerInv'
  <1>t. /\ clients \in Seq(Threads) /\ writer \in Threads \cup {None}
        /\ bpc \in [Broadcasters -> {"off", "idle", "lock", "loop", "returned"}]
        /\ range \in [Broadcasters -> Seq(Threads)] /\ sent \in [Broadcasters -> Seq(Threads)]
        /\ known \in [Broadcasters -> SUBSET Threads]
        /\ apc \in [Threads -> {"off", "idle", "push", "unlock", "returned"}]
    BY DEF ServerInv, Server!TypeOK
  <1>1. CASE Server!Call(b)
    <2>1. Server!TypeOK'
      BY <1>1, <1>t DEF ServerInv, Server!Call, Server!TypeOK
    <2> QED
      BY <1>1, <1>t, <2>1 DEF ServerInv, Server!Call, Walked
  <1>2. CASE Server!LockShared(b)
    <2>1. Server!TypeOK'
      BY <1>2, <1>t DEF ServerInv, Server!LockShared, Server!TypeOK
    <2>2. /\ known[b] \subseteq ToSet(clients) /\ sent[b] = <<>>
          /\ bpc[b] = "lock" /\ bpc' = [bpc EXCEPT ![b] = "loop"]
          /\ range' = [range EXCEPT ![b] = clients] /\ readers' = readers \cup {b}
          /\ writer = None
          /\ UNCHANGED <<clients, writer, sent, known, apc>>
      BY <1>2, <1>t DEF ServerInv, Server!LockShared
    <2>3. range'[b] = clients /\ bpc'[b] = "loop" /\ sent'[b] = <<>>
      BY <1>t, <2>2
    <2>4. \A d \in Broadcasters : d # b => range'[d] = range[d] /\ bpc'[d] = bpc[d]
      BY <1>t, <2>2
    <2>5. Walked(b)'
      BY <1>t, <2>3, EmptySeq, LenProperties DEF Walked
    <2>6. \A d \in Broadcasters : d # b /\ Walked(d) => Walked(d)'
      BY <2>2, <2>4 DEF Walked
    <2> QED
      BY <1>t, <2>1, <2>2, <2>3, <2>4, <2>5, <2>6 DEF ServerInv
  <1>3. CASE Server!Send(b)
    <2> DEFINE n == Len(sent[b])
               x == range[b][n + 1]
    <2>1. /\ bpc[b] = "loop" /\ n # Len(range[b])
          /\ sent' = [sent EXCEPT ![b] = Append(sent[b], x)]
          /\ UNCHANGED <<clients, readers, writer, bpc, range, known, apc>>
      BY <1>3 DEF Server!Send, Server!LoopEnds
    <2>2. /\ Walked(b) /\ n \in Nat /\ Len(range[b]) \in Nat /\ n + 1 <= Len(range[b])
          /\ range[b] \in Seq(Threads) /\ sent[b] \in Seq(Threads)
      BY <1>t, <2>1, LenProperties DEF ServerInv, Walked
    <2>3. x \in Threads
      BY <2>2, ElementOfSeq
    <2> HIDE DEF x
    <2>4. /\ Append(sent[b], x) \in Seq(Threads) /\ Len(Append(sent[b], x)) = n + 1
          /\ \A k \in 1 .. n : Append(sent[b], x)[k] = sent[b][k]
          /\ Append(sent[b], x)[n + 1] = x
      BY <2>2, <2>3, AppendProperties
    <2>5. sent'[b] = Append(sent[b], x) /\ \A d \in Broadcasters : d # b => sent'[d] = sent[d]
      BY <1>t, <2>1
    <2>6. sent' \in [Broadcasters -> Seq(Threads)]
      BY <1>t, <2>1, <2>4
    <2>7. Server!TypeOK'
      BY <2>1, <2>6 DEF ServerInv, Server!TypeOK
    <2>8. Walked(b)'
      <3>1. sent'[b][n + 1] = range'[b][n + 1]
        BY <2>1, <2>4, <2>5 DEF x
      <3>2. \A k \in 1 .. n : sent'[b][k] = range'[b][k]
        BY <2>1, <2>2, <2>4, <2>5 DEF Walked
      <3>3. Len(sent'[b]) = n + 1 /\ Len(sent'[b]) <= Len(range'[b])
        BY <2>1, <2>2, <2>4, <2>5
      <3> HIDE DEF n
      <3>4. \A k \in 1 .. n + 1 : k \in 1 .. n \/ k = n + 1
        BY <2>2
      <3> QED
        BY <3>1, <3>2, <3>3, <3>4 DEF Walked
    <2>9. \A d \in Broadcasters : d # b /\ Walked(d) => Walked(d)'
      BY <2>1, <2>5 DEF Walked
    <2> QED
      BY <2>1, <2>5, <2>7, <2>8, <2>9 DEF ServerInv
  <1>4. CASE Server!UnlockShared(b)
    <2>1. Server!TypeOK'
      BY <1>4, <1>t DEF ServerInv, Server!UnlockShared, Server!TypeOK
    <2> QED
      BY <1>4, <1>t, <2>1 DEF ServerInv, Server!UnlockShared, Server!LoopEnds, Walked
  <1> QED
    BY <1>1, <1>2, <1>3, <1>4 DEF Server!Broadcast

\* Every step of the calls of add_client() keeps the invariant.
LEMMA ServerAddClient ==
  ASSUME ServerInv, NEW f \in Threads, Server!AddClient(f)
  PROVE  ServerInv'
  <1>t. /\ clients \in Seq(Threads) /\ writer \in Threads \cup {None} /\ None \notin Threads
        /\ apc \in [Threads -> {"off", "idle", "push", "unlock", "returned"}]
        /\ known \in [Broadcasters -> SUBSET Threads]
    BY ConstantsAssumption DEF ServerInv, Server!TypeOK
  <1>1. CASE Server!LockExclusive(f)
    <2>1. Server!TypeOK'
      BY <1>1, <1>t DEF ServerInv, Server!LockExclusive, Server!TypeOK
    <2> QED
      BY <1>1, <1>t, <2>1 DEF ServerInv, Server!LockExclusive, Server!NobodyIn, Walked
  <1>2. CASE Server!PushBack(f)
    <2>1. /\ apc[f] = "push" /\ clients' = Append(clients, f)
          /\ apc' = [apc EXCEPT ![f] = "unlock"]
          /\ UNCHANGED <<readers, writer, bpc, range, sent, known>>
      BY <1>2 DEF Server!PushBack
    <2>2. f \notin ToSet(clients) /\ \A b \in Broadcasters : bpc[b] # "loop"
      BY <1>t, <2>1 DEF ServerInv
    <2>3. /\ clients' \in Seq(Threads) /\ IsInjective(clients')
          /\ ToSet(clients') = ToSet(clients) \cup {f}
      BY <1>t, <2>1, <2>2, AppendElements DEF ServerInv
    <2>4. Server!TypeOK'
      BY <1>t, <2>1, <2>3 DEF ServerInv, Server!TypeOK
    <2> QED
      BY <1>t, <2>1, <2>2, <2>3, <2>4 DEF ServerInv, Walked
  <1>3. CASE Server!UnlockExclusive(f)
    <2>1. Server!TypeOK'
      BY <1>3, <1>t DEF ServerInv, Server!UnlockExclusive, Server!TypeOK
    <2> QED
      BY <1>3, <1>t, <2>1 DEF ServerInv, Server!UnlockExclusive, Walked
  <1> QED
    BY <1>1, <1>2, <1>3 DEF Server!AddClient

\* Every step of the class keeps the invariant.
LEMMA ServerStep == ServerInv /\ Server!Next => ServerInv'
  BY ServerBroadcast, ServerAddClient DEF Server!Next

-----------------------------------------------------------------------------
(* Fireworks.                                                              *)

\* 1 while a thread has the lock and has not incremented the counter yet.
Pending == IF \E t \in Threads : fpc[t] \in {"read", "write"} THEN 1 ELSE 0

\* The lock excludes, so that what a thread has read is still there when it
\* writes, and every success but the one under way is counted.
CounterInv ==
  /\ Counter!TypeOK
  /\ \A t \in Threads : /\ fpc[t] \in {"read", "write", "unlock"} <=> mtx = t
                        /\ fpc[t] = "write" => seen[t] = counter
                        /\ fpc[t] \notin {"off", "ended"} => fi[t] < Iterations
  /\ locked = counter + Pending

\* What the invariant says of the properties of the component.
LEMMA CounterImplied == CounterInv => Counter!TypeOK /\ Counter!CounterExact
  <1> SUFFICES ASSUME CounterInv PROVE Counter!TypeOK /\ Counter!CounterExact
    OBVIOUS
  <1> DEFINE S == {t \in Threads : fpc[t] \in {"read", "write"}}
  <1>1. \A s : Counter!Cardinality(s) = Cardinality(s)
    BY DEF Cardinality, Counter!Cardinality
  <1>2. Cardinality(S) = Pending
    <2>1. CASE \E t \in Threads : fpc[t] \in {"read", "write"}
      <3>1. PICK t \in Threads : fpc[t] \in {"read", "write"}
        BY <2>1
      <3>2. S = {t}
        BY <3>1 DEF CounterInv
      <3> QED
        BY <2>1, <3>2, FS_Singleton DEF Pending
    <2>2. CASE ~ \E t \in Threads : fpc[t] \in {"read", "write"}
      <3>1. S = {}
        BY <2>2
      <3> QED
        BY <2>2, <3>1, FS_EmptySet DEF Pending
    <2> QED
      BY <2>1, <2>2
  <1>3. counter \in Nat /\ Pending \in Nat /\ counter = locked - Pending
    BY DEF CounterInv, Counter!TypeOK, Pending
  <1> QED
    BY <1>1, <1>2, <1>3 DEF CounterInv, Counter!CounterExact

\* At the launch nothing is locked or counted.
LEMMA CounterInit == ASSUME NEW on \in BOOLEAN PROVE Counter!Launched(on) => CounterInv
  BY ConstantsAssumption DEF Counter!Launched, CounterInv, Counter!TypeOK, Pending

\* Every step of a thread keeps the invariant.
LEMMA CounterStep == CounterInv /\ Counter!Next => CounterInv'
  <1> SUFFICES ASSUME CounterInv, NEW t \in Threads, Counter!Thread(t) PROVE CounterInv'
    BY DEF Counter!Next
  <1>t. /\ counter \in Nat /\ locked \in Nat /\ seen \in [Threads -> Nat]
        /\ fi \in [Threads -> 0 .. Iterations] /\ mtx \in Threads \cup {None}
        /\ fpc \in [Threads -> {"off", "try", "read", "write", "unlock", "ended"}]
        /\ Iterations \in Nat \ {0} /\ None \notin Threads
    BY ConstantsAssumption DEF CounterInv, Counter!TypeOK
  <1>1. CASE Counter!TryLock(t)
    <2>1. Pending = 0 /\ Pending' = 1
      BY <1>1, <1>t DEF CounterInv, Counter!TryLock, Counter!Free, Pending
    <2>2. Counter!TypeOK'
      BY <1>1, <1>t DEF Counter!TryLock, Counter!TypeOK
    <2> QED
      BY <1>1, <1>t, <2>1, <2>2 DEF CounterInv, Counter!TryLock, Counter!Free
  <1>2. CASE Counter!TryLockFails(t)
    <2>1. Pending' = Pending
      BY <1>2, <1>t DEF Counter!TryLockFails, Counter!NextIteration, Pending
    <2>2. Counter!TypeOK'
      BY <1>2, <1>t DEF CounterInv, Counter!TryLockFails, Counter!NextIteration, Counter!TypeOK
    <2> QED
      BY <1>2, <1>t, <2>1, <2>2 DEF CounterInv, Counter!TryLockFails, Counter!NextIteration
  <1>3. CASE Counter!Read(t)
    <2>1. Pending' = Pending
      BY <1>3, <1>t DEF Counter!Read, Pending
    <2>2. Counter!TypeOK'
      BY <1>3, <1>t DEF Counter!Read, Counter!TypeOK
    <2> QED
      BY <1>3, <1>t, <2>1, <2>2 DEF CounterInv, Counter!Read
  <1>4. CASE Counter!Write(t)
    <2>1. Pending = 1 /\ Pending' = 0
      BY <1>4, <1>t DEF CounterInv, Counter!Write, Pending
    <2>2. Counter!TypeOK'
      BY <1>4, <1>t DEF Counter!Write, Counter!TypeOK
    <2> QED
      BY <1>4, <1>t, <2>1, <2>2 DEF CounterInv, Counter!Write
  <1>5. CASE Counter!Unlock(t)
    <2>1. Pending' = Pending
      BY <1>5, <1>t DEF Counter!Unlock, Counter!NextIteration, Pending
    <2>2. Counter!TypeOK'
      BY <1>5, <1>t DEF CounterInv, Counter!Unlock, Counter!NextIteration, Counter!TypeOK
    <2> QED
      BY <1>5, <1>t, <2>1, <2>2 DEF CounterInv, Counter!Unlock, Counter!NextIteration
  <1> QED
    BY <1>1, <1>2, <1>3, <1>4, <1>5 DEF Counter!Thread

-----------------------------------------------------------------------------
(* StartGate.                                                              *)

Waiting == {r \in Threads : gpc[r] = "wait"}

\* Until the gate is open the count is that of the waiting threads and of the
\* waits that ended by themselves.
GateInv == /\ Gate!TypeOK
           /\ ~ ready => readyCnt = Cardinality(Waiting) + spurious

\* At the launch nobody waits.
LEMMA GateInit == ASSUME NEW on \in BOOLEAN PROVE Gate!Launched(on) => GateInv
  <1> SUFFICES ASSUME Gate!Launched(on) PROVE GateInv
    OBVIOUS
  <1>1. Waiting = {}
    BY DEF Gate!Launched, Waiting
  <1>2. Cardinality(Waiting) = 0
    BY <1>1, FS_EmptySet
  <1>3. spurious = 0 /\ readyCnt = 0 /\ spurious \in 0 .. MaxSpurious
    BY ConstantsAssumption DEF Gate!Launched
  <1>4. /\ gpc \in [Threads -> {"off", "lock", "wait", "passed"}]
        /\ gmain \in {"off", "go", "wait", "join", "done"}
    BY DEF Gate!Launched
  <1>5. readyCnt \in Nat
    BY <1>3
  <1>7. ready \in BOOLEAN
    BY Zenon DEF Gate!Launched
  <1>6. Gate!TypeOK
    BY <1>3, <1>4, <1>5, <1>7 DEF Gate!TypeOK
  <1> QED
    BY <1>2, <1>3, <1>6 DEF GateInv

\* Every step of a thread and of go() keeps the invariant.
LEMMA GateStep == GateInv /\ Gate!Next => GateInv'
  <1> SUFFICES ASSUME GateInv, Gate!Next PROVE GateInv'
    OBVIOUS
  <1>t. /\ ready \in BOOLEAN /\ readyCnt \in Nat /\ spurious \in 0 .. MaxSpurious
        /\ gpc \in [Threads -> {"off", "lock", "wait", "passed"}]
        /\ gmain \in {"off", "go", "wait", "join", "done"}
        /\ MaxSpurious \in Nat
    BY ConstantsAssumption DEF GateInv, Gate!TypeOK
  <1>f. IsFiniteSet(Waiting) /\ Cardinality(Waiting) \in Nat
    BY ConstantsAssumption, FS_Subset, FS_CardinalityType DEF Waiting
  <1>1. ASSUME NEW r \in Threads, Gate!Wait(r) PROVE GateInv'
    <2>1. Waiting' = Waiting \cup {r} /\ r \notin Waiting
      BY <1>1, <1>t DEF Gate!Wait, Waiting
    <2>2. Cardinality(Waiting') = Cardinality(Waiting) + 1
      BY <1>f, <2>1, FS_AddElement
    <2>3. Gate!TypeOK'
      BY <1>1, <1>t DEF Gate!Wait, Gate!TypeOK
    <2> QED
      BY <1>1, <1>t, <1>f, <2>2, <2>3 DEF GateInv, Gate!Wait
  <1>2. ASSUME NEW r \in Threads, Gate!Pass(r) PROVE GateInv'
    BY <1>2, <1>t DEF GateInv, Gate!TypeOK, Gate!Pass
  <1>3. ASSUME NEW r \in Threads, Gate!SpuriousWake(r) PROVE GateInv'
    <2>1. Waiting' = Waiting \ {r} /\ r \in Waiting
      BY <1>3, <1>t DEF Gate!SpuriousWake, Waiting
    <2>2. Cardinality(Waiting') = Cardinality(Waiting) - 1
      BY <1>f, <2>1, FS_RemoveElement
    <2>3. Gate!TypeOK'
      BY <1>3, <1>t DEF Gate!SpuriousWake, Gate!TypeOK
    <2> QED
      BY <1>3, <1>t, <1>f, <2>2, <2>3 DEF GateInv, Gate!SpuriousWake
  <1>4. CASE Gate!Go
    BY <1>4, <1>t DEF GateInv, Gate!TypeOK, Gate!Go, Gate!WakeAll
  <1>5. CASE Gate!GoWait \/ Gate!GoSpuriousWake \/ Gate!Join
    BY <1>5, <1>t DEF GateInv, Gate!TypeOK, Gate!GoWait, Gate!GoSpuriousWake, Gate!Join, Waiting
  <1> QED
    BY <1>1, <1>2, <1>3, <1>4, <1>5 DEF Gate!Next, Gate!Runner

\* The step that opens the gate: as many waits as threads, and none of them over.
LEMMA GateOpens ==
  ASSUME GateInv, Gate!Next, ready', ~ ready, spurious = 0
  PROVE  \A r \in Threads : gpc[r] = "wait"
  <1>1. Gate!Go
    BY DEF Gate!Next, Gate!Runner, Gate!Wait, Gate!Pass, Gate!SpuriousWake, Gate!GoWait,
           Gate!GoSpuriousWake, Gate!Join
  <1>2. readyCnt = Cardinality(Threads)
    BY <1>1 DEF Gate!Go, Gate!AllReady, Cardinality, Gate!Cardinality
  <1>3. Waiting \in SUBSET Threads /\ IsFiniteSet(Threads)
    BY ConstantsAssumption DEF Waiting
  <1>4. Cardinality(Waiting) \in Nat
    BY <1>3, FS_Subset, FS_CardinalityType
  <1>5. Cardinality(Waiting) = Cardinality(Threads)
    BY <1>2, <1>4 DEF GateInv
  <1>6. Waiting = Threads
    BY <1>3, <1>5, FS_Subset
  <1> QED
    BY <1>6 DEF Waiting

-----------------------------------------------------------------------------
(* SharedContainer.                                                        *)

\* How many elements of its range a thread has brought.
Brought(a) == IF cpc[a] = "leave" THEN ci[a] + 1 ELSE ci[a]

\* The lock has one owner, and the vector holds of each thread what it has
\* brought, in order.
ContainerInv ==
  /\ Container!TypeOK
  /\ \A a \in Threads :
       /\ cpc[a] \in {"add", "leave"} => owner = a /\ depth = 1
       /\ cpc[a] = "push" => owner = a /\ depth = 2
       /\ cpc[a] \in {"off", "addrange", "ended"} => owner # a
       /\ cpc[a] \in {"addrange", "add", "push", "leave"} => ci[a] < Num
       /\ cpc[a] = "ended" => ci[a] = Num
       /\ \A m \in 0 .. Num - 1 : m < Brought(a) => <<a, m>> \in ToSet(elements)
  /\ owner = None => depth = 0
  /\ \A k \in DOMAIN elements : elements[k][2] < Brought(elements[k][1])
  /\ \A j, k \in DOMAIN elements :
       elements[j][1] = elements[k][1] /\ j < k => elements[j][2] < elements[k][2]
  /\ dumped # {} => Container!Joined /\ dumped = ToSet(elements)

\* The operators of the modules that SharedContainer extends are the same here.
LEMMA ContainerOperators ==
  ASSUME NEW s
  PROVE  Container!ToSet(s) = ToSet(s) /\ Container!Cardinality(s) = Cardinality(s)
  BY DEF ToSet, Container!ToSet, Cardinality, Container!Cardinality

\* Every element is that of a thread.
LEMMA ContainerElements ==
  ASSUME Container!TypeOK
  PROVE  /\ Len(elements) \in Nat /\ DOMAIN elements = 1 .. Len(elements)
         /\ \A k \in DOMAIN elements :
              /\ elements[k] = <<elements[k][1], elements[k][2]>>
              /\ elements[k][1] \in Threads /\ elements[k][2] \in 0 .. Num - 1
  <1>1. elements \in Seq(Threads \X (0 .. Num - 1))
    BY DEF Container!TypeOK
  <1>2. Len(elements) \in Nat /\ DOMAIN elements = 1 .. Len(elements)
    BY <1>1, LenProperties
  <1>3. \A k \in DOMAIN elements : elements[k] \in Threads \X (0 .. Num - 1)
    BY <1>1, <1>2, ElementOfSeq
  <1> QED
    BY <1>2, <1>3

\* What the invariant says of the properties of the component.
LEMMA ContainerImplied ==
  ContainerInv => Container!TypeOK /\ Container!OneUser /\ Container!AllDumped
  <1> SUFFICES ASSUME ContainerInv PROVE Container!TypeOK /\ Container!OneUser /\ Container!AllDumped
    OBVIOUS
  <1>1. Container!TypeOK /\ elements \in Seq(Threads \X (0 .. Num - 1))
    BY DEF ContainerInv, Container!TypeOK
  <1>2. Container!OneUser
    BY <1>1 DEF ContainerInv, Container!OneUser, Container!TypeOK
  <1>3. IsInjective(elements)
    <2>1. ASSUME NEW j \in DOMAIN elements, NEW k \in DOMAIN elements, j < k,
                 elements[j] = elements[k]
          PROVE  FALSE
      <3>1. elements[j][2] < elements[k][2]
        BY <2>1 DEF ContainerInv
      <3>2. elements[j][2] \in Nat /\ elements[j][2] = elements[k][2]
        BY <1>1, <2>1, ContainerElements
      <3> QED
        BY <3>1, <3>2
    <2>2. \A j \in DOMAIN elements : j \in Nat
      BY <1>1, ContainerElements
    <2>3. ASSUME NEW j \in DOMAIN elements, NEW k \in DOMAIN elements, elements[j] = elements[k]
          PROVE  j = k
      <3>1. ~ j < k /\ ~ k < j
        BY <2>1, <2>3
      <3> QED
        BY <2>2, <3>1
    <2> QED
      BY <2>3 DEF IsInjective
  <1>4. ASSUME dumped # {}
        PROVE  dumped = Threads \X (0 .. Num - 1) /\ Len(elements) = Cardinality(dumped)
    <2>1. /\ dumped = ToSet(elements) /\ \A a \in Threads : cpc[a] = "ended" /\ ci[a] = Num
      BY <1>4 DEF ContainerInv, Container!Joined
    <2>2. ASSUME NEW a \in Threads, NEW m \in 0 .. Num - 1 PROVE <<a, m>> \in ToSet(elements)
      <3>1. Brought(a) = Num /\ m < Num
        BY <2>1, ConstantsAssumption DEF Brought
      <3> QED
        BY <3>1 DEF ContainerInv
    <2>3. ToSet(elements) \subseteq Threads \X (0 .. Num - 1)
      BY <1>1, ContainerElements DEF ToSet
    <2>4. ToSet(elements) = Threads \X (0 .. Num - 1)
      BY <2>2, <2>3
    <2>5. Cardinality(ToSet(elements)) = Len(elements)
      BY <1>1, <1>3, InjectiveLength
    <2> QED
      BY <2>1, <2>4, <2>5
  <1>5. Container!AllDumped
    BY <1>4, ContainerOperators DEF ContainerInv, Container!AllDumped
  <1> QED
    BY <1>1, <1>2, <1>5

\* At the launch the container is empty.
LEMMA ContainerInit == ASSUME NEW on \in BOOLEAN PROVE Container!Launched(on) => ContainerInv
  <1> SUFFICES ASSUME Container!Launched(on) PROVE ContainerInv
    OBVIOUS
  <1>1. elements \in Seq(Threads \X (0 .. Num - 1)) /\ DOMAIN elements = {}
    BY EmptySeq DEF Container!Launched
  <1>2. Container!TypeOK
    BY <1>1, ConstantsAssumption DEF Container!Launched, Container!TypeOK
  <1> QED
    BY <1>1, <1>2, ConstantsAssumption DEF Container!Launched, ContainerInv, Brought

\* Every step of a thread, and dump(), keeps the invariant.
LEMMA ContainerStep == ContainerInv /\ Container!Next => ContainerInv'
  <1> SUFFICES ASSUME ContainerInv, Container!Next PROVE ContainerInv'
    OBVIOUS
  <1>t. /\ elements \in Seq(Threads \X (0 .. Num - 1))
        /\ owner \in Threads \cup {None} /\ depth \in 0 .. 2
        /\ ci \in [Threads -> 0 .. Num]
        /\ cpc \in [Threads -> {"off", "addrange", "add", "push", "leave", "ended"}]
        /\ dumped \subseteq Threads \X (0 .. Num - 1)
        /\ Container!TypeOK
    BY DEF ContainerInv, Container!TypeOK
  <1>n. Num \in Nat /\ Num > 0 /\ None \notin Threads /\ Threads # {}
    BY ConstantsAssumption
  <1>e. /\ Len(elements) \in Nat /\ DOMAIN elements = 1 .. Len(elements)
        /\ \A k \in DOMAIN elements :
             /\ elements[k] = <<elements[k][1], elements[k][2]>>
             /\ elements[k][1] \in Threads /\ elements[k][2] \in 0 .. Num - 1
    BY <1>t, ContainerElements
  <1>1. ASSUME NEW a \in Threads, Container!Enter(a) PROVE ContainerInv'
    <2>1. /\ cpc[a] = "addrange" /\ ci[a] < Num /\ owner \in {None, a}
          /\ owner' = a /\ depth' = depth + 1 /\ cpc' = [cpc EXCEPT ![a] = "add"]
          /\ UNCHANGED <<elements, ci, dumped>>
      BY <1>1 DEF Container!Enter, Container!Lock, Container!MayLock
    <2>2. owner = None /\ depth = 0 /\ dumped = {}
      BY <1>t, <2>1 DEF ContainerInv, Container!Joined
    <2>3. \A u \in Threads : Brought(u)' = Brought(u)
      BY <1>t, <2>1 DEF Brought
    <2>4. Container!TypeOK'
      BY <1>t, <2>1, <2>2 DEF Container!TypeOK
    <2>5. cpc'[a] = "add" /\ \A u \in Threads : u # a => cpc'[u] = cpc[u]
      BY <1>t, <2>1
    <2>6. ASSUME NEW u \in Threads
          PROVE  /\ cpc'[u] \in {"add", "leave"} => owner' = u /\ depth' = 1
                 /\ cpc'[u] = "push" => owner' = u /\ depth' = 2
                 /\ cpc'[u] \in {"off", "addrange", "ended"} => owner' # u
                 /\ cpc'[u] \in {"addrange", "add", "push", "leave"} => ci'[u] < Num
                 /\ cpc'[u] = "ended" => ci'[u] = Num
      BY <1>t, <1>n, <2>1, <2>2, <2>5 DEF ContainerInv
    <2> QED
      BY <1>n, <1>e, <2>1, <2>2, <2>3, <2>4, <2>6 DEF ContainerInv
  <1>2. ASSUME NEW a \in Threads, Container!LockAgain(a) PROVE ContainerInv'
    <2>1. /\ cpc[a] = "add" /\ owner' = a /\ depth' = depth + 1
          /\ cpc' = [cpc EXCEPT ![a] = "push"]
          /\ UNCHANGED <<elements, ci, dumped>>
      BY <1>2 DEF Container!LockAgain, Container!Lock
    <2>5. cpc'[a] = "push" /\ \A u \in Threads : u # a => cpc'[u] = cpc[u]
      BY <1>t, <2>1
    <2>2. owner = a /\ depth = 1 /\ dumped = {}
      BY <1>t, <2>1 DEF ContainerInv, Container!Joined
    <2>3. \A u \in Threads : Brought(u)' = Brought(u)
      BY <1>t, <2>1 DEF Brought
    <2>4. Container!TypeOK'
      BY <1>t, <2>1, <2>2 DEF Container!TypeOK
    <2>6. ASSUME NEW u \in Threads
          PROVE  /\ cpc'[u] \in {"add", "leave"} => owner' = u /\ depth' = 1
                 /\ cpc'[u] = "push" => owner' = u /\ depth' = 2
                 /\ cpc'[u] \in {"off", "addrange", "ended"} => owner' # u
                 /\ cpc'[u] \in {"addrange", "add", "push", "leave"} => ci'[u] < Num
                 /\ cpc'[u] = "ended" => ci'[u] = Num
      BY <1>t, <2>1, <2>2, <2>5 DEF ContainerInv
    <2> QED
      BY <1>n, <1>e, <2>1, <2>2, <2>3, <2>4, <2>6 DEF ContainerInv
  <1>3. ASSUME NEW a \in Threads, Container!PushBack(a) PROVE ContainerInv'
    <2> DEFINE n == Len(elements)
               T == Threads \X (0 .. Num - 1)
               e == <<a, ci[a]>>
               After(u) == IF cpc'[u] = "leave" THEN ci'[u] + 1 ELSE ci'[u]
    <2>1. /\ cpc[a] = "push" /\ elements' = Append(elements, e)
          /\ owner' = (IF depth = 1 THEN None ELSE owner) /\ depth' = depth - 1
          /\ cpc' = [cpc EXCEPT ![a] = "leave"]
          /\ UNCHANGED <<ci, dumped>>
      BY <1>3 DEF Container!PushBack, Container!Unlock, Container!Released
    <2>2. /\ owner = a /\ depth = 2 /\ dumped = {} /\ ci[a] < Num
          /\ owner' = a /\ depth' = 1
      BY <1>t, <2>1 DEF ContainerInv, Container!Joined
    <2>3. e \in T /\ e[1] = a /\ e[2] = ci[a]
      BY <1>t, <1>n, <2>2
    <2>4. Brought(a) = ci[a] /\ After(a) = ci[a] + 1 /\ ci[a] \in Nat
      BY <1>t, <2>1 DEF Brought
    <2>5. \A u \in Threads : u # a => After(u) = Brought(u)
      BY <1>t, <2>1 DEF Brought
    <2>14. \A u \in Threads : Brought(u) \in Nat /\ After(u) \in Nat
      BY <1>t, <2>1 DEF Brought
    <2> HIDE DEF T, e, After
    <2>6. /\ elements' \in Seq(T) /\ Len(elements') = n + 1
          /\ \A k \in 1 .. n : elements'[k] = elements[k]
          /\ elements'[n + 1] = e
          /\ ToSet(elements') = ToSet(elements) \cup {e}
      <3>1. elements \in Seq(T)
        BY <1>t DEF T
      <3>2. ToSet(elements') = ToSet(elements) \cup {e}
        BY <2>1, <2>3, <3>1, AppendElements
      <3>3. /\ Append(elements, e) \in Seq(T) /\ Len(Append(elements, e)) = n + 1
            /\ \A k \in 1 .. n : Append(elements, e)[k] = elements[k]
            /\ Append(elements, e)[n + 1] = e
        BY <2>3, <3>1, AppendProperties
      <3> QED
        BY <2>1, <3>2, <3>3
    <2>7. DOMAIN elements' = 1 .. n + 1
      BY <2>6, LenProperties
    <2> HIDE DEF n
    <2>8. n \in Nat /\ DOMAIN elements = 1 .. n
      BY <1>e DEF n
    <2>9. Container!TypeOK'
      BY <1>t, <2>1, <2>2, <2>6 DEF Container!TypeOK, T
    <2>10. ASSUME NEW u \in Threads, NEW m \in 0 .. Num - 1, m < After(u)
           PROVE  <<u, m>> \in ToSet(elements')
      <3>1. CASE u = a /\ m = ci[a]
        BY <2>6, <3>1 DEF e
      <3>2. CASE u # a \/ m < ci[a]
        <4>1. m < Brought(u)
          BY <2>4, <2>5, <2>10, <3>2
        <4> QED
          BY <2>6, <4>1 DEF ContainerInv
      <3> QED
        BY <2>4, <2>10, <3>1, <3>2
    <2>11. ASSUME NEW k \in 1 .. n + 1 PROVE elements'[k][2] < After(elements'[k][1])
      <3>1. CASE k = n + 1
        BY <2>3, <2>4, <2>6, <3>1
      <3>2. CASE k \in 1 .. n
        <4>1. elements'[k] = elements[k] /\ elements[k][1] \in Threads /\ elements[k][2] \in Nat
          BY <1>e, <2>6, <2>8, <3>2
        <4>2. elements[k][2] < Brought(elements[k][1])
          BY <2>8, <3>2 DEF ContainerInv
        <4>3. Brought(elements[k][1]) <= After(elements[k][1])
          BY <2>4, <2>5, <2>14, <4>1
        <4> QED
          BY <2>14, <4>1, <4>2, <4>3
      <3> QED
        BY <2>8, <3>1, <3>2
    <2>12. ASSUME NEW j \in 1 .. n + 1, NEW k \in 1 .. n + 1,
                  elements'[j][1] = elements'[k][1], j < k
           PROVE  elements'[j][2] < elements'[k][2]
      <3>1. j \in 1 .. n /\ elements'[j] = elements[j]
        BY <2>6, <2>8, <2>12
      <3>2. CASE k = n + 1
        <4>1. elements[j][1] = a
          BY <2>3, <2>6, <2>12, <3>1, <3>2
        <4>2. elements[j][2] < ci[a]
          BY <2>4, <2>8, <3>1, <4>1 DEF ContainerInv
        <4> QED
          BY <2>3, <2>6, <3>1, <3>2, <4>2
      <3>3. CASE k \in 1 .. n
        BY <2>6, <2>8, <2>12, <3>1, <3>3 DEF ContainerInv
      <3> QED
        BY <2>8, <3>2, <3>3
    <2>13. ASSUME NEW u \in Threads
           PROVE  /\ cpc'[u] \in {"add", "leave"} => owner' = u /\ depth' = 1
                  /\ cpc'[u] = "push" => owner' = u /\ depth' = 2
                  /\ cpc'[u] \in {"off", "addrange", "ended"} => owner' # u
                  /\ cpc'[u] \in {"addrange", "add", "push", "leave"} => ci'[u] < Num
                  /\ cpc'[u] = "ended" => ci'[u] = Num
      BY <1>t, <2>1, <2>2 DEF ContainerInv
    <2>15. \A u \in Threads : \A m \in 0 .. Num - 1 :
             m < Brought(u)' => <<u, m>> \in ToSet(elements)'
      BY <2>10 DEF Brought, After
    <2>16. \A k \in DOMAIN elements' : elements'[k][2] < After(elements'[k][1])
      BY <2>7, <2>11
    <2>17. (\A k \in DOMAIN elements : elements[k][2] < Brought(elements[k][1]))'
      BY <2>16 DEF Brought, After
    <2>18. \A j, k \in DOMAIN elements' :
             elements'[j][1] = elements'[k][1] /\ j < k => elements'[j][2] < elements'[k][2]
      BY <2>7, <2>12
    <2> QED
      BY <1>n, <2>1, <2>2, <2>9, <2>13, <2>15, <2>17, <2>18 DEF ContainerInv
  <1>4. ASSUME NEW a \in Threads, Container!Leave(a) PROVE ContainerInv'
    <2>1. /\ cpc[a] = "leave" /\ ci' = [ci EXCEPT ![a] = ci[a] + 1]
          /\ owner' = (IF depth = 1 THEN None ELSE owner) /\ depth' = depth - 1
          /\ cpc' = [cpc EXCEPT ![a] = IF ci'[a] < Num THEN "addrange" ELSE "ended"]
          /\ UNCHANGED <<elements, dumped>>
      BY <1>4 DEF Container!Leave, Container!Unlock, Container!Released
    <2>2. /\ owner = a /\ depth = 1 /\ dumped = {} /\ ci[a] < Num
          /\ owner' = None /\ depth' = 0
      BY <1>t, <2>1 DEF ContainerInv, Container!Joined
    <2>3. \A u \in Threads : Brought(u)' = Brought(u)
      BY <1>t, <2>1 DEF Brought
    <2>4. ci'[a] = ci[a] + 1 /\ ci[a] + 1 \in 0 .. Num
      BY <1>t, <1>n, <2>1, <2>2
    <2>5. Container!TypeOK'
      BY <1>t, <2>1, <2>2, <2>4 DEF Container!TypeOK
    <2> QED
      BY <1>t, <1>n, <1>e, <2>1, <2>2, <2>3, <2>4, <2>5 DEF ContainerInv
  <1>5. CASE Container!Dump
    <2>1. /\ Container!Joined /\ dumped' = ToSet(elements)
          /\ UNCHANGED <<elements, owner, depth, ci, cpc>>
      BY <1>5, ContainerOperators DEF Container!Dump
    <2>2. Container!Joined' /\ \A u \in Threads : Brought(u)' = Brought(u)
      BY <2>1 DEF Container!Joined, Brought
    <2>3. ToSet(elements) \subseteq Threads \X (0 .. Num - 1)
      <3>1. \A k \in DOMAIN elements : elements[k] \in Threads \X (0 .. Num - 1)
        BY <1>t, <1>e, ElementOfSeq
      <3> QED
        BY <3>1 DEF ToSet
    <2>4. Container!TypeOK'
      BY <1>t, <2>1, <2>3 DEF Container!TypeOK
    <2> QED
      BY <1>e, <2>1, <2>2, <2>4 DEF ContainerInv
  <1> QED
    BY <1>1, <1>2, <1>3, <1>4, <1>5 DEF Container!Next, Container!Adder

-----------------------------------------------------------------------------
(* ErrorLogger.                                                            *)

Reported == {w \in Threads : wpc[w] = "ended"}

\* A code is queued for every worker that has ended, or was.
LogInv == /\ Log!TypeOK
          /\ Len(codes) <= Cardinality(Reported)

\* How many workers have ended is a number.
LEMMA ReportedFinite == IsFiniteSet(Reported) /\ Cardinality(Reported) \in Nat
  BY ConstantsAssumption, FS_Subset, FS_CardinalityType DEF Reported

\* At the launch the queue is empty.
LEMMA LogInit == ASSUME NEW on \in BOOLEAN PROVE Log!Launched(on) => LogInv
  <1> SUFFICES ASSUME Log!Launched(on) PROVE LogInv
    OBVIOUS
  <1>1. codes \in Seq(Threads) /\ Len(codes) = 0
    BY EmptySeq DEF Log!Launched
  <1>2. done \in BOOLEAN
    BY Zenon DEF Log!Launched
  <1>3. Log!TypeOK
    BY <1>1, <1>2 DEF Log!Launched, Log!TypeOK
  <1> QED
    BY <1>1, <1>3, ReportedFinite DEF LogInv

\* A worker that reports is one more that has ended, and there is room for its
\* code.
LEMMA LogReport ==
  ASSUME LogInv, NEW w \in Threads, Log!Report(w)
  PROVE  LogInv' /\ Len(codes) < Cardinality(Threads)
  <1>1. /\ wpc[w] = "run" /\ codes' = Append(codes, w) /\ wpc' = [wpc EXCEPT ![w] = "ended"]
        /\ lpc' = (IF lpc = "wait" THEN "lock" ELSE lpc)
        /\ UNCHANGED <<done, lmutex, logged, lmain>>
    BY DEF Log!Report, Log!Notified
  <1>2. codes \in Seq(Threads) /\ wpc \in [Threads -> {"off", "run", "ended"}]
    BY DEF LogInv, Log!TypeOK
  <1>3. codes' \in Seq(Threads) /\ Len(codes') = Len(codes) + 1 /\ Len(codes) \in Nat
    BY <1>1, <1>2, AppendProperties, LenProperties
  <1>4. Reported' = Reported \cup {w} /\ w \notin Reported
    BY <1>1, <1>2 DEF Reported
  <1>5. Cardinality(Reported') = Cardinality(Reported) + 1
    BY <1>4, ReportedFinite, FS_AddElement
  <1>6. Log!TypeOK'
    BY <1>1, <1>2, <1>3 DEF LogInv, Log!TypeOK
  <1>7. Cardinality(Reported') <= Cardinality(Threads) /\ Cardinality(Threads) \in Nat
    <2>1. Reported' \in SUBSET Threads
      BY DEF Reported
    <2> QED
      BY <2>1, ConstantsAssumption, FS_Subset, FS_CardinalityType
  <1> QED
    BY <1>3, <1>5, <1>6, <1>7, ReportedFinite DEF LogInv

\* Every step of a worker, of the logger and of main keeps the invariant.
LEMMA LogStep == LogInv /\ Log!Next => LogInv'
  <1> SUFFICES ASSUME LogInv, Log!Next PROVE LogInv'
    OBVIOUS
  <1>1. ASSUME NEW w \in Threads, Log!Report(w) PROVE LogInv'
    BY <1>1, LogReport
  <1>2. CASE Log!Log
    <2>1. /\ codes # <<>> /\ logged' = Head(codes) /\ codes' = Tail(codes)
          /\ UNCHANGED <<done, lmutex, wpc, lpc, lmain>>
      BY <1>2 DEF Log!Log, Log!Oldest
    <2>2. codes \in Seq(Threads)
      BY DEF LogInv, Log!TypeOK
    <2>3. /\ codes' \in Seq(Threads) /\ Len(codes') = Len(codes) - 1
          /\ Len(codes) \in Nat /\ logged' \in Threads
      BY <2>1, <2>2, HeadTailProperties, LenProperties
    <2>4. Reported' = Reported
      BY <2>1 DEF Reported
    <2>5. Log!TypeOK'
      BY <2>1, <2>3 DEF LogInv, Log!TypeOK
    <2> QED
      BY <2>3, <2>4, <2>5, ReportedFinite DEF LogInv
  <1>3. CASE Log!Loop \/ Log!Wait \/ Log!Begin \/ Log!EndLog
    BY <1>3 DEF LogInv, Log!TypeOK, Reported, Log!Loop, Log!Wait, Log!Begin, Log!EndLog
  <1>4. CASE Log!SpuriousWake \/ Log!Join
    BY <1>4 DEF LogInv, Log!TypeOK, Reported, Log!SpuriousWake, Log!Join
  <1>5. CASE Log!SetDone
    <2>1. done' \in BOOLEAN
      BY <1>5, Zenon DEF Log!SetDone
    <2> QED
      BY <1>5, <2>1 DEF LogInv, Log!TypeOK, Reported, Log!SetDone
  <1> QED
    BY <1>1, <1>2, <1>3, <1>4, <1>5 DEF Log!Next, Log!LoggerStep

\* A step of the program is one of the queue, or none.
LEMMA LogImplements == LogInv /\ Log!Next => [Log!Fifo!Next]_(Log!Fifo!vars)
  <1> SUFFICES ASSUME LogInv, Log!Next PROVE [Log!Fifo!Next]_(Log!Fifo!vars)
    OBVIOUS
  <1>1. ASSUME NEW w \in Threads, Log!Report(w) PROVE Log!Fifo!Put(w)
    <2>1. Log!Cardinality(Threads) = Cardinality(Threads)
      BY DEF Cardinality, Log!Cardinality
    <2> QED
      BY <1>1, <2>1, LogReport DEF Log!Report, Log!Fifo!Put
  <1>2. ASSUME Log!Log PROVE Log!Fifo!Get(Logger)
    BY <1>2 DEF Log!Log, Log!Oldest, Log!Fifo!Get
  <1>3. CASE \/ Log!Loop \/ Log!Wait \/ Log!Begin \/ Log!EndLog
             \/ Log!SpuriousWake \/ Log!Join \/ Log!SetDone
    BY <1>3 DEF Log!Fifo!vars, Log!Loop, Log!Wait, Log!Begin, Log!EndLog, Log!SpuriousWake,
                Log!Join, Log!SetDone
  <1> QED
    BY <1>1, <1>2, <1>3 DEF Log!Next, Log!LoggerStep, Log!Fifo!Next

-----------------------------------------------------------------------------
(* The programs together.                                                  *)

ProgramsInv == GateInv /\ LogInv /\ ContainerInv /\ CounterInv /\ ServerInv /\ ReclaimerInv

\* Whichever program is launched, all begin with their invariants.
LEMMA ProgramsInit == Init => ProgramsInv
  <1> SUFFICES ASSUME Init PROVE ProgramsInv
    OBVIOUS
  <1>1. PICK program \in Programs :
          /\ Gate!Launched(program = "test_cond")
          /\ Log!Launched(program = "logger")
          /\ Container!Launched(program = "test_cont1")
          /\ Counter!Launched(program = "test_mtx")
          /\ Server!Launched(program = "Server")
          /\ Reclaimer!Launched
    BY DEF Init
  <1>2. GateInv
    BY <1>1, GateInit
  <1>3. LogInv
    BY <1>1, LogInit
  <1>4. ContainerInv
    BY <1>1, ContainerInit
  <1>5. CounterInv
    BY <1>1, CounterInit
  <1>6. ServerInv
    BY <1>1, ServerInit
  <1>7. ReclaimerInv
    BY <1>1, ReclaimerInit
  <1> QED
    BY <1>2, <1>3, <1>4, <1>5, <1>6, <1>7 DEF ProgramsInv

\* What a program does not touch stays as it was.
LEMMA GateStays == GateInv /\ UNCHANGED gvars => GateInv'
  BY DEF GateInv, gvars, Gate!TypeOK, Waiting

\* The same of the logger.
LEMMA LogStays == LogInv /\ UNCHANGED lvars => LogInv'
  BY DEF LogInv, lvars, Log!TypeOK, Reported

\* The same of the container.
LEMMA ContainerStays == ContainerInv /\ UNCHANGED cvars => ContainerInv'
  BY DEF ContainerInv, cvars, Container!TypeOK, Container!Joined, Brought

\* The same of the counter.
LEMMA CounterStays == CounterInv /\ UNCHANGED fvars => CounterInv'
  BY DEF CounterInv, fvars, Counter!TypeOK, Pending

\* The same of the server.
LEMMA ServerStays == ServerInv /\ UNCHANGED svars => ServerInv'
  BY DEF ServerInv, svars, Server!TypeOK, Walked

\* The same of the reclaimer.
LEMMA ReclaimerStays == ReclaimerInv /\ UNCHANGED rvars => ReclaimerInv'
  BY DEF ReclaimerInv, rvars, Remaining

\* ProgramsInv is inductive.
LEMMA ProgramsStep == ProgramsInv /\ [Next]_vars => ProgramsInv'
  BY GateStep, LogStep, ContainerStep, CounterStep, ServerStep, ReclaimerStep,
     GateStays, LogStays, ContainerStays, CounterStays, ServerStays, ReclaimerStays
     DEF ProgramsInv, Next, vars

\* The invariants of the components hold whichever program runs.
THEOREM ProgramsInvariant == FairSpec => []ProgramsInv
  BY ProgramsInit, ProgramsStep, PTL DEF FairSpec

\* Every variable of the programs keeps its type.
THEOREM TypeCorrect == FairSpec => []TypeOK
  <1>1. ProgramsInv => TypeOK
    <2>1. GateInv => Gate!TypeOK
      BY DEF GateInv
    <2>2. LogInv => Log!TypeOK
      BY DEF LogInv
    <2> QED
      BY <2>1, <2>2, ContainerImplied, CounterImplied, ServerImplied, ReclaimerImplied
         DEF ProgramsInv, TypeOK
  <1> QED
    BY <1>1, ProgramsInvariant, PTL

\* addrange(), fireworks() and broadcast(): what one thread did under the lock
\* is not lost on another, whatever the number of threads and of their rounds.
THEOREM LocksExclude == FairSpec => []NothingLost
  <1>1. ProgramsInv => NothingLost
    BY ContainerImplied, CounterImplied, ServerImplied DEF ProgramsInv, NothingLost
  <1> QED
    BY <1>1, ProgramsInvariant, PTL

\* onQuiescentState() (lines 93-118): when a callback is called every thread that
\* was registered when it was added has been quiescent since; none is called twice.
THEOREM FreedWhenUnused == FairSpec => []SafeToFree
  <1>1. ProgramsInv => SafeToFree
    BY ReclaimerImplied DEF ProgramsInv, SafeToFree
  <1> QED
    BY <1>1, ProgramsInvariant, PTL

\* go() (lines 36-39): if no wait ended by itself, the gate opens when all
\* threads are waiting at it.
THEOREM GateOpensForAll == FairSpec => OpensForAll
  <1> DEFINE Opens == ready' /\ ~ ready /\ spurious = 0 => \A r \in Threads : gpc[r] = "wait"
  <1>1. ProgramsInv /\ [Next]_vars => [Opens]_(Gate!vars)
    <2> SUFFICES ASSUME ProgramsInv, [Next]_vars, ready', ~ ready, spurious = 0
                 PROVE  \A r \in Threads : gpc[r] = "wait"
      OBVIOUS
    <2>1. ~ UNCHANGED gvars
      BY DEF gvars
    <2>2. Gate!Next
      BY <2>1 DEF Next, vars
    <2> QED
      BY <2>2, GateOpens DEF ProgramsInv
  <1> QED
    BY <1>1, ProgramsInvariant, PTL DEF FairSpec, OpensForAll, Gate!OpensForAll

\* loggerfunc() (lines 136-141): the codes are logged in the order in which they
\* were queued, each once.
THEOREM LoggerImplementsFifo == FairSpec => LoggerIsFifo
  <1>1. Init => Log!Fifo!Init
    BY DEF Init, Log!Launched, Log!Fifo!Init
  <1>2. ProgramsInv /\ [Next]_vars => [Log!Fifo!Next]_(Log!Fifo!vars)
    <2> SUFFICES ASSUME ProgramsInv, [Next]_vars PROVE [Log!Fifo!Next]_(Log!Fifo!vars)
      OBVIOUS
    <2>1. CASE Log!Next
      BY <2>1, LogImplements DEF ProgramsInv
    <2>2. CASE UNCHANGED lvars
      BY <2>2 DEF lvars, Log!Fifo!vars
    <2> QED
      BY <2>1, <2>2 DEF Next, vars
  <1> QED
    BY <1>1, <1>2, ProgramsInvariant, PTL DEF FairSpec, LoggerIsFifo, Log!Fifo!Spec
=============================================================================
