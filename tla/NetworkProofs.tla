--------------------------- MODULE NetworkProofs ---------------------------
(***************************************************************************)
(* What holds of the three state machines of nexus-network for every set   *)
(* of peers, messages and vertices, every limit and every bound: the peer  *)
(* table, the gossip cache, and the sync manager.                          *)
(***************************************************************************)
EXTENDS MCNetwork, FiniteSetTheorems, SequenceTheorems, TLAPS

\* The instance of Peers has a copy of Cardinality.
LEMMA PeersCardinality ==
    \A X : P!Cardinality(X) = Cardinality(X)
BY DEF P!Cardinality, Cardinality

-----------------------------------------------------------------------------
(* The peer table *)

\* The state part of Peers.PeerTableIsTrue, which is inductive.
PeersInv == P!TypeOK /\ P!NoPhantomPeers /\ P!LowReputationIsOut

\* Entry p of table E is that of T, or T's was disconnected and E has none.
Dropped(T, E, p) == E[p] = T[p] \/ (E[p] = P!NoPeer /\ T[p].state = "Disconnected")

\* Making room in the table takes nothing but disconnected entries.
LEMMA EvictTakesDisconnected ==
    ASSUME P!TypeOK
    PROVE  LET E == P!Evict(peers)
           IN /\ E \in [Peer -> P!PeerInfo \cup {P!NoPeer}]
              /\ \A p \in Peer : Dropped(peers, E, p)
              /\ Cardinality(P!Known(peers)) < MaxPeers => E = peers
              /\ ~(Cardinality(P!Known(peers)) < MaxPeers) =>
                    \A p \in Peer : E[p].state # "Disconnected"
<1>1. CASE Cardinality(P!Known(peers)) < MaxPeers
  BY <1>1, PeersCardinality DEF P!TypeOK, P!Evict, Dropped
<1>2. CASE ~(Cardinality(P!Known(peers)) < MaxPeers)
  <2>1. P!Evict(peers) = [p \in Peer |-> IF peers[p].state = "Disconnected" THEN P!NoPeer ELSE peers[p]]
    BY <1>2, PeersCardinality DEF P!Evict
  <2> QED
    BY <1>2, <2>1 DEF P!TypeOK, P!NoPeer, Dropped
<1> QED
  BY <1>1, <1>2

\* An insertion keeps the other entries or drops disconnected ones.
LEMMA AddPeerStep ==
    ASSUME PeersInv, NEW p \in Peer, P!AddPeer(p), UNCHANGED now
    PROVE  /\ peers' \in [Peer -> P!PeerInfo \cup {P!NoPeer}]
           /\ peers'[p] = [state |-> "Connected", reputation |-> 0, lastSeen |-> now]
           /\ \A q \in Peer \ {p} : Dropped(peers, peers', q)
           /\ Cardinality(P!Known(peers)) < MaxPeers => P!Known(peers') \subseteq P!Known(peers) \cup {p}
           /\ ~(Cardinality(P!Known(peers)) < MaxPeers) =>
                 \A q \in Peer : peers'[q].state # "Disconnected"
<1> USE PeersAssumption
<1> DEFINE E == P!Evict(peers)
           new == [state |-> "Connected", reputation |-> 0, lastSeen |-> now]
<1>1. P!TypeOK /\ new \in P!PeerInfo
  BY DEF PeersInv, P!TypeOK, P!PeerInfo
<1>2. /\ E \in [Peer -> P!PeerInfo \cup {P!NoPeer}]
      /\ \A q \in Peer : Dropped(peers, E, q)
      /\ Cardinality(P!Known(peers)) < MaxPeers => E = peers
      /\ ~(Cardinality(P!Known(peers)) < MaxPeers) =>
            \A q \in Peer : E[q].state # "Disconnected"
  BY <1>1, EvictTakesDisconnected
<1>3. peers' = [E EXCEPT ![p] = new]
  BY DEF P!AddPeer
<1> HIDE DEF E
<1>4. \A q \in Peer : peers'[q] = IF q = p THEN new ELSE E[q]
  BY <1>2, <1>3
<1>5. Cardinality(P!Known(peers)) < MaxPeers => P!Known(peers') \subseteq P!Known(peers) \cup {p}
  BY <1>2, <1>4 DEF P!Known
<1> QED
  BY <1>1, <1>2, <1>3, <1>4, <1>5 DEF Dropped

\* Every step of the peer table keeps the invariant.
LEMMA PeersStep ==
    ASSUME PeersInv, [P!Next]_peersVars
    PROVE  PeersInv'
<1> USE PeersAssumption
<1>0. P!TypeOK /\ P!NoPhantomPeers /\ P!LowReputationIsOut
  BY DEF PeersInv
<1>1. ASSUME NEW p \in Peer, P!ConnectionEstablished(p) \/ P!IdentifyReceived(p) PROVE PeersInv'
  <2>1. P!AddPeer(p) /\ UNCHANGED now
    BY <1>1 DEF P!ConnectionEstablished, P!IdentifyReceived
  <2>2. /\ peers' \in [Peer -> P!PeerInfo \cup {P!NoPeer}]
        /\ peers'[p] = [state |-> "Connected", reputation |-> 0, lastSeen |-> now]
        /\ \A q \in Peer \ {p} : Dropped(peers, peers', q)
    BY <2>1, AddPeerStep
  <2>3. /\ conns' \in [Peer -> 0 .. MaxConns]
        /\ conns'[p] > 0
        /\ \A q \in Peer \ {p} : conns'[q] = conns[q]
    BY <1>0, <1>1 DEF P!ConnectionEstablished, P!IdentifyReceived, P!TypeOK
  <2>4. P!TypeOK'
    BY <1>0, <2>1, <2>2, <2>3 DEF P!TypeOK
  <2>5. P!NoPhantomPeers'
    BY <1>0, <2>2, <2>3 DEF P!NoPhantomPeers, P!NoPeer, Dropped
  <2>6. P!LowReputationIsOut'
    BY <1>0, <2>2 DEF P!LowReputationIsOut, P!NoPeer, Dropped
  <2> QED
    BY <2>4, <2>5, <2>6 DEF PeersInv
<1>2. ASSUME NEW p \in Peer, P!ConnectionClosed(p) PROVE PeersInv'
  BY <1>0, <1>2 DEF PeersInv, P!ConnectionClosed, P!SetState, P!TypeOK, P!NoPhantomPeers,
                    P!LowReputationIsOut, P!PeerInfo, P!NoPeer
<1>3. ASSUME NEW p \in Peer, NEW i \in P!PeerInfo, peers' = [peers EXCEPT ![p] = i],
             i.state = "Connected" => peers[p].state = "Connected" /\ i.reputation > -BanAt,
             UNCHANGED <<conns, now>>
      PROVE  PeersInv'
  BY <1>0, <1>3 DEF PeersInv, P!TypeOK, P!NoPhantomPeers, P!LowReputationIsOut, P!PeerInfo
<1>4. ASSUME NEW p \in Peer, P!BanPeer(p) PROVE PeersInv'
  <2> DEFINE i == [state |-> "Banned", reputation |-> -RepBound, lastSeen |-> peers[p].lastSeen]
  <2>1. peers[p] \in P!PeerInfo
    BY <1>0, <1>4 DEF P!BanPeer, P!TypeOK
  <2>2. i \in P!PeerInfo
    BY <2>1 DEF P!PeerInfo
  <2>3. peers' = [peers EXCEPT ![p] = i]
    BY <1>4 DEF P!BanPeer
  <2> QED
    BY <1>3, <1>4, <2>2, <2>3 DEF P!BanPeer
<1>5. ASSUME NEW p \in Peer, NEW d \in {-1, 1}, P!UpdateReputation(p, d) PROVE PeersInv'
  <2> DEFINE r == P!Clip(peers[p].reputation + d)
             s == IF r <= -BanAt THEN "Banned" ELSE peers[p].state
             i == [state |-> s, reputation |-> r, lastSeen |-> peers[p].lastSeen]
  <2>1. peers[p] \in P!PeerInfo
    BY <1>0, <1>5 DEF P!UpdateReputation, P!TypeOK
  <2>2. r \in -RepBound .. RepBound
    BY <2>1 DEF P!Clip, P!PeerInfo
  <2>3. peers' = [peers EXCEPT ![p] = i]
    BY <1>5 DEF P!UpdateReputation
  <2>4. i \in P!PeerInfo
    BY <2>1, <2>2 DEF P!PeerInfo
  <2>5. i.state = "Connected" => peers[p].state = "Connected" /\ i.reputation > -BanAt
    BY <2>2
  <2>6. UNCHANGED <<conns, now>>
    BY <1>5 DEF P!UpdateReputation
  <2> HIDE DEF i
  <2> QED
    BY <1>3, <2>3, <2>4, <2>5, <2>6
<1>6. CASE P!Cleanup
  BY <1>0, <1>6 DEF PeersInv, P!Cleanup, P!TypeOK, P!NoPhantomPeers,
                    P!LowReputationIsOut, P!NoPeer
<1>7. CASE P!Tick
  BY <1>0, <1>7 DEF PeersInv, P!Tick, P!TypeOK, P!NoPhantomPeers, P!LowReputationIsOut
<1>8. CASE UNCHANGED peersVars
  BY <1>0, <1>8 DEF PeersInv, peersVars, P!TypeOK, P!NoPhantomPeers, P!LowReputationIsOut
<1> QED
  BY <1>1, <1>2, <1>4, <1>5, <1>6, <1>7, <1>8 DEF P!Next

\* A step that enters no peer into the table does not make it larger.
LEMMA KnownShrinks ==
    ASSUME P!Known(peers') \subseteq P!Known(peers)
    PROVE  Cardinality(P!Known(peers')) <= Cardinality(P!Known(peers))
<1>1. IsFiniteSet(P!Known(peers))
  BY PeersAssumption, FS_Subset DEF P!Known
<1> QED
  BY <1>1, FS_Subset

\* What a step of the table may remove, and for whom it may outgrow max_peers.
LEMMA PeersMoves ==
    ASSUME PeersInv, [P!Next]_peersVars
    PROVE  /\ \A p \in Peer : peers[p] # P!NoPeer /\ peers'[p] = P!NoPeer =>
                 /\ peers[p].state # "Connected"
                 /\ peers[p].state = "Banned" => now - peers[p].lastSeen >= MaxAge
           /\ (/\ Cardinality(P!Known(peers')) > Cardinality(P!Known(peers))
               /\ Cardinality(P!Known(peers')) > MaxPeers)
              => \A p \in Peer : peers'[p].state # "Disconnected"
<1> USE PeersAssumption
<1> DEFINE Stay == \A p \in Peer : peers[p] # P!NoPeer /\ peers'[p] = P!NoPeer =>
                      /\ peers[p].state # "Connected"
                      /\ peers[p].state = "Banned" => now - peers[p].lastSeen >= MaxAge
           n == Cardinality(P!Known(peers))
           m == Cardinality(P!Known(peers'))
           Live == \A p \in Peer : peers'[p].state # "Disconnected"
<1> SUFFICES Stay /\ (m > n /\ m > MaxPeers => Live)
  OBVIOUS
<1>0. P!TypeOK
  BY DEF PeersInv
<1>1. /\ n \in Nat /\ m \in Nat /\ IsFiniteSet(P!Known(peers))
      /\ \A p \in Peer : Cardinality(P!Known(peers) \cup {p}) <= n + 1
                         /\ IsFiniteSet(P!Known(peers) \cup {p})
  <2>1. IsFiniteSet(P!Known(peers)) /\ IsFiniteSet(P!Known(peers'))
    BY FS_Subset DEF P!Known
  <2>2. n \in Nat /\ m \in Nat
    BY <2>1, FS_CardinalityType
  <2>3. ASSUME NEW p \in Peer
        PROVE  /\ IsFiniteSet(P!Known(peers) \cup {p})
               /\ Cardinality(P!Known(peers) \cup {p}) <= n + 1
    <3>1. /\ IsFiniteSet(P!Known(peers) \cup {p})
          /\ Cardinality(P!Known(peers) \cup {p}) = IF p \in P!Known(peers) THEN n ELSE n + 1
      BY <2>1, FS_AddElement
    <3> QED
      BY <2>2, <3>1
  <2> QED
    BY <2>1, <2>2, <2>3
<1>2. ASSUME NEW p \in Peer, P!ConnectionEstablished(p) \/ P!IdentifyReceived(p)
      PROVE  Stay /\ (m > n /\ m > MaxPeers => Live)
  <2>1. P!AddPeer(p) /\ UNCHANGED now
    BY <1>2 DEF P!ConnectionEstablished, P!IdentifyReceived
  <2>2. /\ peers'[p] = [state |-> "Connected", reputation |-> 0, lastSeen |-> now]
        /\ \A q \in Peer \ {p} : Dropped(peers, peers', q)
        /\ n < MaxPeers => P!Known(peers') \subseteq P!Known(peers) \cup {p}
        /\ ~(n < MaxPeers) => Live
    BY <2>1, AddPeerStep
  <2>3. Stay
    BY <2>2 DEF Dropped, P!NoPeer
  <2>4. ASSUME n < MaxPeers PROVE m <= n + 1
    <3>1. m <= Cardinality(P!Known(peers) \cup {p})
      BY <1>1, <2>2, <2>4, FS_Subset
    <3>2. Cardinality(P!Known(peers) \cup {p}) \in Nat
      BY <1>1, FS_CardinalityType
    <3> QED
      BY <1>1, <3>1, <3>2
  <2> QED
    BY <1>1, <2>2, <2>3, <2>4
<1>3. ASSUME Stay, P!Known(peers') \subseteq P!Known(peers)
      PROVE  Stay /\ (m > n /\ m > MaxPeers => Live)
  BY <1>1, <1>3, KnownShrinks
<1>4. ASSUME NEW p \in Peer, P!ConnectionClosed(p) PROVE Stay /\ P!Known(peers') \subseteq P!Known(peers)
  BY <1>0, <1>4 DEF P!ConnectionClosed, P!SetState, P!Known, P!TypeOK, P!PeerInfo, P!NoPeer
<1>5. ASSUME NEW p \in Peer, P!BanPeer(p) PROVE Stay /\ P!Known(peers') \subseteq P!Known(peers)
  BY <1>0, <1>5 DEF P!BanPeer, P!Known, P!TypeOK, P!PeerInfo, P!NoPeer
<1>6. ASSUME NEW p \in Peer, NEW d \in {-1, 1}, P!UpdateReputation(p, d)
      PROVE  Stay /\ P!Known(peers') \subseteq P!Known(peers)
  BY <1>0, <1>6 DEF P!UpdateReputation, P!Known, P!TypeOK, P!PeerInfo, P!NoPeer
<1>7. CASE P!Cleanup
  <2>1. Stay
    BY <1>0, <1>7 DEF P!Cleanup, P!TypeOK, P!PeerInfo, P!NoPeer
  <2>2. P!Known(peers') \subseteq P!Known(peers)
    BY <1>0, <1>7 DEF P!Cleanup, P!Known
  <2> QED
    BY <1>3, <2>1, <2>2
<1>8. CASE P!Tick \/ UNCHANGED peersVars
  BY <1>3, <1>8 DEF P!Tick, P!Known, peersVars
<1> QED
  BY <1>2, <1>3, <1>4, <1>5, <1>6, <1>7, <1>8 DEF P!Next

\* Peers.PeerTableIsTrue of every behaviour of the network: the table lists only
\* peers with an open connection and a reputation above the threshold, gives up
\* no connected and no freshly banned one, and outgrows max_peers for live peers
\* only (add_peer, set_state, update_reputation, ban_peer, cleanup).
THEOREM PeerTableProved == Spec => PeerTableIsTrue
<1>1. Init => PeersInv
  BY PeersAssumption DEF Init, P!Init, PeersInv, P!TypeOK, P!NoPhantomPeers, P!LowReputationIsOut, P!NoPeer
<1>2. [Next]_vars => [P!Next]_peersVars
  BY DEF Next, vars, peersVars
<1>3. PeersInv /\ [Next]_vars => PeersInv'
  BY <1>2, PeersStep
<1>4. PeersInv /\ [Next]_vars =>
        [\A p \in Peer : peers[p] # P!NoPeer /\ peers'[p] = P!NoPeer =>
              /\ peers[p].state # "Connected"
              /\ peers[p].state = "Banned" => now - peers[p].lastSeen >= MaxAge]_(P!peerVars)
  BY <1>2, PeersMoves
<1>5. PeersInv /\ [Next]_vars =>
        [/\ P!Cardinality(P!Known(peers')) > P!Cardinality(P!Known(peers))
         /\ P!Cardinality(P!Known(peers')) > MaxPeers
         => \A p \in Peer : peers'[p].state # "Disconnected"]_(P!peerVars)
  BY <1>2, PeersMoves, PeersCardinality
<1> QED
  BY <1>1, <1>3, <1>4, <1>5, PTL
     DEF Spec, PeersInv, PeerTableIsTrue, P!PeerTableIsTrue, P!LivePeersStay, P!GrowsOnlyWithLivePeers

-----------------------------------------------------------------------------
(* The gossip cache *)

\* Whatever the cache gives up when it is full, a message whose time to live has
\* not passed since it was taken over is still marked, with the time of that.
FreshIsMarked ==
    \A m \in Message : accepted[m] # G!Never /\ clock - accepted[m] < Ttl => seen[m] = accepted[m]

CacheInv ==
    /\ seen \in [Message -> Int] /\ accepted \in [Message -> Int] /\ clock \in Nat
    /\ FreshIsMarked

\* mark_seen keeps what is fresh, also when it prunes.
LEMMA MarkSeenKeepsFresh ==
    ASSUME CacheInv, NEW m \in Message
    PROVE  /\ G!MarkSeen(m) \in [Message -> Int]
           /\ 0 < Ttl => G!MarkSeen(m)[m] = clock
           /\ \A k \in Message \ {m} : seen[k] # G!Never /\ clock - seen[k] < Ttl =>
                 G!MarkSeen(m)[k] = seen[k]
<1> DEFINE F == [seen EXCEPT ![m] = clock]
<1>0. F \in [Message -> Int] /\ F[m] = clock /\ \A k \in Message \ {m} : F[k] = seen[k]
  BY DEF CacheInv
<1>1. G!MarkSeen(m) = F \/ G!MarkSeen(m) = G!Prune(F)
  BY DEF G!MarkSeen
<1> HIDE DEF F
<1>2. CASE G!MarkSeen(m) = F
  BY <1>0, <1>2
<1>3. CASE G!MarkSeen(m) = G!Prune(F)
  BY <1>0, <1>3, GossipAssumption DEF G!Prune, G!Never, CacheInv
<1> QED
  BY <1>1, <1>2, <1>3

\* Only a message that is not marked becomes the one the loop hands on.
LEMMA CacheStep ==
    ASSUME CacheInv, [G!Next]_gossipVars
    PROVE  /\ CacheInv'
           /\ \A m \in Message : loop' = m /\ loop # m /\ accepted[m] # G!Never =>
                 clock - accepted[m] >= Ttl
<1> USE GossipAssumption
<1> DEFINE Once == \A m \in Message : loop' = m /\ loop # m /\ accepted[m] # G!Never =>
                      clock - accepted[m] >= Ttl
<1> SUFFICES CacheInv' /\ Once
  OBVIOUS
<1>1. ASSUME NEW m \in Message, G!HandleMessage(m) PROVE CacheInv' /\ Once
  <2>1. /\ seen[m] = G!Never /\ seen' = G!MarkSeen(m) /\ loop' = m
        /\ accepted' = [accepted EXCEPT ![m] = clock] /\ UNCHANGED clock
    BY <1>1 DEF G!HandleMessage
  <2>2. CacheInv'
    BY <2>1, MarkSeenKeepsFresh DEF CacheInv, FreshIsMarked, G!Never
  <2>3. Once
    BY <2>1 DEF CacheInv, FreshIsMarked, G!Never
  <2> QED
    BY <2>2, <2>3
<1>2. CASE G!ClockTick
  BY <1>2 DEF G!ClockTick, CacheInv, FreshIsMarked, G!Never
<1>3. ASSUME UNCHANGED <<seen, accepted, clock>>, loop' \in {loop, "select", "stopped"}
      PROVE  CacheInv' /\ Once
  BY <1>3 DEF CacheInv, FreshIsMarked
<1>4. CASE \/ G!SendToNode \/ G!RunCommand \/ G!Receive \/ G!ReceiveBlocks
           \/ G!AllWait \/ G!CommandRefused \/ UNCHANGED gossipVars
  BY <1>3, <1>4 DEF G!SendToNode, G!RunCommand, G!Receive, G!ReceiveBlocks, G!AllWait, G!CommandRefused,
                     G!gossipVars, gossipVars
<1>5. ASSUME NEW m \in Message, G!IgnoreMessage(m) PROVE CacheInv' /\ Once
  BY <1>3, <1>5 DEF G!IgnoreMessage, G!gossipVars
<1>6. ASSUME NEW c \in {"publish", "shutdown"}, G!Command(c) PROVE CacheInv' /\ Once
  BY <1>3, <1>6 DEF G!Command
<1> QED
  BY <1>1, <1>2, <1>4, <1>5, <1>6 DEF G!Next

\* Gossip.OncePerTtl of every behaviour of the network: the loop hands a message
\* on again only when its time to live has passed, however small the cache is
\* and whatever prune had to drop (mark_seen, prune, handle_message).
THEOREM OncePerTtlProved == Spec => OncePerTtl
<1>1. Init => CacheInv
  BY DEF Init, G!Init, CacheInv, FreshIsMarked, G!Never
<1>2. [Next]_vars => [G!Next]_gossipVars
  BY DEF Next, vars, gossipVars
<1>3. CacheInv /\ [Next]_vars => CacheInv'
  BY <1>2, CacheStep
<1>4. CacheInv /\ [Next]_vars =>
        [\A m \in Message : loop' = m /\ loop # m /\ accepted[m] # G!Never =>
            clock - accepted[m] >= Ttl]_(G!gossipVars)
  BY <1>2, CacheStep
<1> QED
  BY <1>1, <1>3, <1>4, PTL DEF Spec, OncePerTtl, G!OncePerTtl

-----------------------------------------------------------------------------
(* The sync manager *)

\* What an answer under way consists of: vertices between its height and the
\* next one to be read, and, until the limit is reached, all of them that were
\* indexed when the request came.
SinceInv ==
    since # S!NoRequest =>
      /\ since.base \in Nat /\ since.next \in Nat /\ since.limit \in Nat /\ since.top \in Nat
      /\ since.out \in Seq(Hash) /\ Len(since.out) <= since.limit
      /\ since.base < since.next
      /\ Len(since.out) < since.limit =>
           \A v \in began : since.base < HeightOf[v] /\ HeightOf[v] < since.next =>
             \E i \in 1 .. Len(since.out) : since.out[i] = v

SyncInv ==
    /\ have \subseteq Hash /\ orphans \subseteq Hash /\ indexed \subseteq Hash
    /\ wire \in Seq(S!ToSet(wire)) /\ inFlight \in Nat /\ strays \in Nat
    /\ S!OutstandingBounded
    /\ began \subseteq indexed
    /\ since \in {S!NoRequest} \cup [step : {"reading"}, base : Nat, limit : Nat, top : Nat,
                                    next : Nat, out : Seq(Hash)]
    /\ SinceInv
    /\ S!SinceIsCausal

\* A list of all members of a finite set without repetition has every member.
LEMMA SetToSeqsIsOnto ==
    ASSUME NEW A, IsFiniteSet(A), NEW q \in S!SetToSeqs(A)
    PROVE  /\ q \in Seq(A) /\ Len(q) = Cardinality(A)
           /\ \A a \in A : \E i \in 1 .. Len(q) : q[i] = a
<1> DEFINE n == Cardinality(A)
<1>1. n \in Nat
  BY FS_CardinalityType
<1>2. S!Cardinality(A) = n
  BY DEF S!Cardinality, Cardinality
<1> HIDE DEF n
<1>3. q \in [1 .. n -> A] /\ \A i, j \in 1 .. n : i # j => q[i] # q[j]
  BY <1>2 DEF S!SetToSeqs
<1>4. q \in Seq(A) /\ Len(q) = n
  BY <1>1, <1>3
<1>5. q \in Injection(1 .. n, A)
  BY <1>3 DEF Injection, IsInjective
<1>6. Cardinality(1 .. n) = n
  BY <1>1, FS_Interval
<1>7. q \in Surjection(1 .. n, A)
  BY <1>5, <1>6, FS_Injection DEF n
<1> QED
  BY <1>4, <1>7 DEF Surjection, n

\* The DAG stores vertices only.
LEMMA AddVerticesStep ==
    ASSUME have \subseteq Hash, orphans \subseteq Hash,
           NEW V \in SUBSET Hash, S!AddVertices(V)
    PROVE  have' \subseteq Hash /\ orphans' \subseteq Hash /\ UNCHANGED indexed
BY DEF S!AddVertices, S!Settled

\* A sequence over some set is one over the set of its elements.
LEMMA SeqOverItsElements ==
    ASSUME NEW X, NEW s \in Seq(X) PROVE s \in Seq(S!ToSet(s))
BY DEF S!ToSet

\* An answer, an error or a lost answer takes one request off the wire.
LEMMA WireShrinks ==
    ASSUME NEW w, w \in Seq(S!ToSet(w)), NEW i \in DOMAIN w
    PROVE  S!RemoveAt(w, i) \in Seq(S!ToSet(w)) /\ Len(S!RemoveAt(w, i)) = Len(w) - 1
<1> DEFINE E == S!ToSet(w)
<1>1. w \in Seq(E) /\ i \in 1 .. Len(w)
  OBVIOUS
<1> HIDE DEF E
<1> DEFINE L == SubSeq(w, 1, i - 1)
           R == SubSeq(w, i + 1, Len(w))
<1>2. /\ L \in Seq(E) /\ Len(L) = i - 1
      /\ R \in Seq(E) /\ Len(R) = Len(w) - i
  BY <1>1
<1>3. S!RemoveAt(w, i) = L \o R
  BY DEF S!RemoveAt
<1> HIDE DEF L, R
<1>4. L \o R \in Seq(E) /\ Len(L \o R) = Len(L) + Len(R)
  BY <1>2, ConcatProperties
<1> QED
  BY <1>1, <1>2, <1>3, <1>4 DEF E

\* A step that leaves the request being served alone, while the index may grow.
LEMMA ServedStays ==
    ASSUME SyncInv, UNCHANGED <<since, began>>, indexed \subseteq indexed', indexed' \subseteq Hash
    PROVE  /\ began' \subseteq indexed' /\ SinceInv' /\ S!SinceIsCausal'
           /\ since' \in {S!NoRequest} \cup [step : {"reading"}, base : Nat, limit : Nat, top : Nat,
                                            next : Nat, out : Seq(Hash)]
<1>1. /\ began \subseteq indexed /\ SinceInv /\ S!SinceIsCausal
      /\ since \in {S!NoRequest} \cup [step : {"reading"}, base : Nat, limit : Nat, top : Nat,
                                      next : Nat, out : Seq(Hash)]
  BY DEF SyncInv
<1>2. SinceInv' /\ S!SinceIsCausal'
  BY <1>1 DEF SinceInv, S!SinceIsCausal
<1> QED
  BY <1>1, <1>2

\* An answer frees a slot, of which the counter may have none to free.
LEMMA OneLessFacts ==
    ASSUME inFlight \in Nat
    PROVE  S!OneLess \in Nat /\ S!OneLess <= inFlight /\ inFlight <= S!OneLess + 1
BY DEF S!OneLess

\* What a request and a freed slot less do to the bound.
LEMMA SlotArithmetic ==
    ASSUME NEW w \in Nat, NEW f \in Nat, NEW g \in Nat, NEW s \in Nat, NEW n \in Nat,
           w <= f + s, f <= n, g <= f, f <= g + 1
    PROVE  w - 1 <= g + s /\ g <= n
OBVIOUS

\* The steps of the manager that sends requests and of the DAG under it.
LEMMA ClientStep ==
    ASSUME SyncInv,
           \/ \E v \in Hash : S!OwnVertex(v) \/ S!Index(v)
           \/ S!StartSync \/ S!MarkSynced \/ UNCHANGED syncVars
           \/ \E q \in S!SetToSeqs(S!Tips(Remote)) : S!HandleTips(q)
           \/ S!NextRequest
           \/ \E i \in DOMAIN wire : S!HandleVertices(i) \/ S!HandleError(i) \/ S!Lose(i)
           \/ \E V \in SUBSET Remote : S!HandleStray(V)
    PROVE  SyncInv'
<1> USE SyncAssumption
<1>0. /\ have \subseteq Hash /\ orphans \subseteq Hash /\ indexed \subseteq Hash
      /\ wire \in Seq(S!ToSet(wire)) /\ inFlight \in Nat /\ strays \in Nat
      /\ Len(wire) <= inFlight + strays /\ inFlight <= MaxConcurrent
      /\ Len(wire) \in Nat
  BY DEF SyncInv, S!OutstandingBounded
<1>2. ASSUME NEW v \in Hash, S!OwnVertex(v) PROVE SyncInv'
  <2>1. S!AddVertices({v}) /\ UNCHANGED <<wire, inFlight, strays, since, began>>
    BY <1>2 DEF S!OwnVertex, S!served
  <2>2. have' \subseteq Hash /\ orphans' \subseteq Hash /\ UNCHANGED indexed
    BY <1>0, <2>1, AddVerticesStep
  <2> QED
    BY <1>0, <2>1, <2>2, ServedStays DEF SyncInv, S!OutstandingBounded
<1>3. ASSUME NEW v \in Hash, S!Index(v) PROVE SyncInv'
  <2>1. indexed' = indexed \cup {v} /\ UNCHANGED <<have, orphans, wire, inFlight, strays, since, began>>
    BY <1>3 DEF S!Index, S!served
  <2> QED
    BY <1>0, <2>1, ServedStays DEF SyncInv, S!OutstandingBounded
<1>4. ASSUME UNCHANGED <<have, orphans, indexed, wire, inFlight, strays, since, began>> PROVE SyncInv'
  BY <1>0, <1>4, ServedStays DEF SyncInv, S!OutstandingBounded
<1>5. CASE S!StartSync \/ S!MarkSynced \/ UNCHANGED syncVars
  BY <1>4, <1>5 DEF S!StartSync, S!MarkSynced, S!dag, S!served, syncVars
<1>6. ASSUME NEW q, S!HandleTips(q) PROVE SyncInv'
  BY <1>4, <1>6 DEF S!HandleTips, S!dag, S!served
<1>7. CASE S!NextRequest
  <2>1. PICK b : wire' = Append(wire, b)
    BY <1>7 DEF S!NextRequest
  <2>2. /\ inFlight < MaxConcurrent /\ inFlight' = inFlight + 1
        /\ UNCHANGED <<have, orphans, indexed, strays, since, began>>
    BY <1>7 DEF S!NextRequest, S!dag, S!served
  <2>3. wire' \in Seq(S!ToSet(wire) \cup {b}) /\ Len(wire') = Len(wire) + 1
    <3> DEFINE E == S!ToSet(wire)
    <3>1. wire \in Seq(E)
      BY <1>0
    <3> HIDE DEF E
    <3> QED
      BY <2>1, <3>1 DEF E
  <2>4. wire' \in Seq(S!ToSet(wire'))
    BY <2>3, SeqOverItsElements
  <2> QED
    BY <1>0, <2>2, <2>3, <2>4, ServedStays DEF SyncInv, S!OutstandingBounded
<1>8. ASSUME NEW i \in DOMAIN wire, S!HandleVertices(i) \/ S!HandleError(i) \/ S!Lose(i)
      PROVE  SyncInv'
  <2>1. wire' = S!RemoveAt(wire, i) /\ UNCHANGED <<strays, since, began>>
    BY <1>8 DEF S!HandleVertices, S!HandleError, S!Lose, S!served
  <2>2. wire' \in Seq(S!ToSet(wire)) /\ Len(wire') = Len(wire) - 1
    BY <1>0, <2>1, WireShrinks
  <2>3. wire' \in Seq(S!ToSet(wire'))
    BY <2>2, SeqOverItsElements
  <2>4. inFlight' \in Nat /\ inFlight' <= inFlight /\ inFlight <= inFlight' + 1
    BY <1>0, <1>8, OneLessFacts DEF S!HandleVertices, S!HandleError, S!Lose
  <2>5. have' \subseteq Hash /\ orphans' \subseteq Hash /\ UNCHANGED indexed
    <3>1. CASE S!HandleVertices(i)
      <4>1. S!AddVertices(wire[i] \cap Remote)
        BY <3>1 DEF S!HandleVertices
      <4> QED
        BY <1>0, <4>1, AddVerticesStep
    <3>2. CASE S!HandleError(i) \/ S!Lose(i)
      BY <1>0, <3>2 DEF S!HandleError, S!Lose, S!dag
    <3> QED
      BY <1>8, <3>1, <3>2
  <2>6. Len(wire') <= inFlight' + strays' /\ inFlight' <= MaxConcurrent
    <3>1. Len(wire') = Len(wire) - 1 /\ strays' = strays
      BY <2>1, <2>2
    <3>2. Len(wire) \in Nat /\ strays \in Nat /\ MaxConcurrent \in Nat /\ inFlight \in Nat
      BY <1>0
    <3>3. Len(wire) <= inFlight + strays /\ inFlight <= MaxConcurrent
      BY <1>0
    <3>4. Len(wire) - 1 <= inFlight' + strays /\ inFlight' <= MaxConcurrent
      BY <2>4, <3>2, <3>3, SlotArithmetic
    <3> QED
      BY <3>1, <3>4
  <2>7. /\ began' \subseteq indexed' /\ SinceInv' /\ S!SinceIsCausal'
        /\ since' \in {S!NoRequest} \cup [step : {"reading"}, base : Nat, limit : Nat, top : Nat,
                                         next : Nat, out : Seq(Hash)]
    BY <1>0, <2>1, <2>5, ServedStays
  <2> QED
    BY <1>0, <2>1, <2>3, <2>4, <2>5, <2>6, <2>7 DEF SyncInv, S!OutstandingBounded
<1>9. ASSUME NEW V \in SUBSET Remote, S!HandleStray(V) PROVE SyncInv'
  <2>1. S!AddVertices(V) /\ strays' = strays + 1 /\ inFlight' = S!OneLess /\ UNCHANGED <<wire, since, began>>
    BY <1>9 DEF S!HandleStray, S!served
  <2>2. have' \subseteq Hash /\ orphans' \subseteq Hash /\ UNCHANGED indexed
    BY <1>0, <2>1, AddVerticesStep
  <2>3. inFlight' \in Nat /\ inFlight' <= inFlight /\ inFlight <= inFlight' + 1
    BY <1>0, <2>1, OneLessFacts
  <2> QED
    BY <1>0, <2>1, <2>2, <2>3, ServedStays DEF SyncInv, S!OutstandingBounded
<1> QED
  BY <1>2, <1>3, <1>5, <1>6, <1>7, <1>8, <1>9

\* The first elements of a sequence.
LEMMA PrefixFacts ==
    ASSUME NEW X, NEW s \in Seq(X), NEW k \in 0 .. Len(s)
    PROVE  /\ SubSeq(s, 1, k) \in Seq(X) /\ Len(SubSeq(s, 1, k)) = k
           /\ \A j \in 1 .. k : SubSeq(s, 1, k)[j] = s[j]
OBVIOUS

\* What a step of the loop changes of the request being served.
LEMMA SinceFields ==
    ASSUME NEW Q, NEW x \in Q,
           NEW s \in [step : {"reading"}, base : Nat, limit : Nat, top : Nat, next : Nat, out : Q],
           NEW r, r = [s EXCEPT !.next = s.next + 1, !.out = x]
    PROVE  /\ r.base = s.base /\ r.limit = s.limit /\ r.top = s.top
           /\ r.next = s.next + 1 /\ r.out = x /\ r.step = "reading"
           /\ r \in [step : {"reading"}, base : Nat, limit : Nat, top : Nat, next : Nat, out : Q]
<1>1. /\ s.base \in Nat /\ s.limit \in Nat /\ s.top \in Nat /\ s.next + 1 \in Nat /\ s.step = "reading"
      /\ s = [step |-> s.step, base |-> s.base, limit |-> s.limit, top |-> s.top,
              next |-> s.next, out |-> s.out]
  OBVIOUS
<1>2. r = [step |-> "reading", base |-> s.base, limit |-> s.limit, top |-> s.top,
           next |-> s.next + 1, out |-> x]
  <2>1. PICK m : m = s.next + 1
    OBVIOUS
  <2>2. r = [s EXCEPT !.next = m, !.out = x]
    BY <2>1
  <2>3. r = [step |-> s.step, base |-> s.base, limit |-> s.limit, top |-> s.top, next |-> m, out |-> x]
    BY <1>1, <2>2
  <2> QED
    BY <1>1, <2>1, <2>3
<1> QED
  BY <1>1, <1>2

\* One more height is read: its vertices come after all that were read before,
\* among them every vertex of a lower height that was indexed when the request
\* came, for the limit has not been reached.
LEMMA ReadHeightStep ==
    ASSUME SyncInv, NEW q, S!ReadHeight(q)
    PROVE  SyncInv'
<1> USE SyncAssumption
<1>0. /\ indexed \subseteq Hash /\ began \subseteq indexed /\ since # S!NoRequest
      /\ since \in [step : {"reading"}, base : Nat, limit : Nat, top : Nat, next : Nat, out : Seq(Hash)]
      /\ Len(since.out) < since.limit
  BY DEF SyncInv, S!ReadHeight, S!Reading
<1> DEFINE L == {v \in indexed : HeightOf[v] = since.next}
           room == since.limit - Len(since.out)
           cut == IF Len(q) < room THEN Len(q) ELSE room
           add == SubSeq(q, 1, cut)
           out == since.out
           n == Len(out)
<1>1. /\ q \in S!SetToSeqs(L)
      /\ since' = [since EXCEPT !.next = since.next + 1, !.out = out \o add]
      /\ UNCHANGED <<have, orphans, indexed, wire, inFlight, strays, began>>
  BY DEF S!ReadHeight, S!dag
<1>2. L \subseteq Hash /\ IsFiniteSet(L)
  BY <1>0, FS_Subset
<1> HIDE DEF L
<1>3. /\ q \in Seq(L) /\ Len(q) \in Nat
      /\ \A a \in L : \E i \in 1 .. Len(q) : q[i] = a
  BY <1>1, <1>2, SetToSeqsIsOnto
<1>4. out \in Seq(Hash) /\ n \in Nat /\ room \in Nat \ {0}
  BY <1>0
<1>5. cut \in Nat /\ cut <= Len(q) /\ cut <= room
  BY <1>3, <1>4
<1>6. add \in Seq(L) /\ Len(add) = cut /\ \A i \in 1 .. cut : add[i] = q[i] /\ add[i] \in L
  <2> HIDE DEF cut
  <2>1. cut \in 0 .. Len(q) /\ q \in Seq(L)
    BY <1>3, <1>5
  <2>2. add \in Seq(L) /\ Len(add) = cut /\ \A i \in 1 .. cut : add[i] = q[i]
    BY <2>1, PrefixFacts
  <2>3. \A i \in 1 .. cut : q[i] \in L
    BY <2>1
  <2> QED
    BY <2>2, <2>3
<1>7. PICK o : o = out \o add
  OBVIOUS
<1>8. /\ o \in Seq(Hash) /\ Len(o) = n + cut /\ Len(o) \in Nat
      /\ \A i \in 1 .. n : o[i] = out[i]
      /\ \A i \in n + 1 .. n + cut : o[i] = add[i - n]
  <2>1. add \in Seq(Hash)
    BY <1>2, <1>6
  <2> HIDE DEF add, cut, out, n
  <2>2. out \in Seq(Hash) /\ Len(out) = n
    BY <1>4 DEF n
  <2>3. Len(add) = cut
    BY <1>6
  <2>4. cut \in Nat /\ n \in Nat
    BY <1>4, <1>5
  <2>5. o \in Seq(Hash) /\ Len(o) = n + cut
    BY <1>7, <2>1, <2>2, <2>3, ConcatProperties
  <2>6. \A i \in 1 .. n : o[i] = out[i]
    BY <1>7, <2>1, <2>2, <2>3, <2>4
  <2>7. ASSUME NEW i \in n + 1 .. n + cut PROVE o[i] = add[i - n]
    <3>1. i \in 1 .. Len(out) + Len(add) /\ ~(i <= Len(out)) /\ i - n = i - Len(out)
      BY <2>2, <2>3, <2>4
    <3> QED
      BY <1>7, <2>1, <2>2, <3>1, ConcatProperties
  <2> QED
    BY <2>4, <2>5, <2>6, <2>7
<1>9. /\ since'.base = since.base /\ since'.limit = since.limit /\ since'.top = since.top
      /\ since'.next = since.next + 1 /\ since'.out = o /\ since'.step = "reading"
      /\ since' \in [step : {"reading"}, base : Nat, limit : Nat, top : Nat, next : Nat, out : Seq(Hash)]
  <2>1. since' = [since EXCEPT !.next = since.next + 1, !.out = o]
    BY <1>1, <1>7
  <2>2. o \in Seq(Hash)
    BY <1>8
  <2>3. since \in [step : {"reading"}, base : Nat, limit : Nat, top : Nat, next : Nat, out : Seq(Hash)]
    BY <1>0
  <2> HIDE DEF add, cut, room, out, n
  <2> QED
    BY <2>1, <2>2, <2>3, SinceFields
<1>10. /\ since.base < since.next
       /\ \A v \in began : since.base < HeightOf[v] /\ HeightOf[v] < since.next =>
             \E i \in 1 .. n : out[i] = v
  BY <1>0 DEF SyncInv, SinceInv
<1>15. out = since.out /\ n = Len(out) /\ DOMAIN out = 1 .. n
  BY <1>4
<1>16. cut < room => cut = Len(q)
  BY <1>3, <1>4
<1>17. room = since.limit - n
  OBVIOUS
<1> HIDE DEF add, cut, room, out, n
<1>11. Len(o) < since.limit =>
         \A v \in began : since.base < HeightOf[v] /\ HeightOf[v] < since.next + 1 =>
           \E i \in 1 .. Len(o) : o[i] = v
  <2> SUFFICES ASSUME Len(o) < since.limit, NEW v \in began,
                      since.base < HeightOf[v], HeightOf[v] < since.next + 1
               PROVE  \E i \in 1 .. Len(o) : o[i] = v
    OBVIOUS
  <2>1. v \in Hash /\ HeightOf[v] \in Nat /\ v \in indexed
    BY <1>0
  <2>2. CASE HeightOf[v] < since.next
    <3>1. PICK i \in 1 .. n : out[i] = v
      BY <1>10, <2>2
    <3>2. i \in 1 .. Len(o)
      BY <1>4, <1>5, <1>8, <3>1
    <3>3. o[i] = out[i]
      BY <1>8, <3>1
    <3> QED
      BY <3>1, <3>2, <3>3
  <2>3. CASE HeightOf[v] = since.next
    <3>1. cut = Len(q)
      BY <1>0, <1>4, <1>5, <1>8, <1>16, <1>17
    <3>2. v \in L
      BY <2>1, <2>3 DEF L
    <3>3. PICK i \in 1 .. Len(q) : q[i] = v
      BY <1>3, <3>2
    <3>4. i \in 1 .. cut /\ add[i] = v
      BY <1>6, <3>1, <3>3
    <3>5. n + i \in n + 1 .. n + cut /\ n + i \in 1 .. Len(o) /\ (n + i) - n = i
      <4>1. n \in Nat /\ cut \in Nat /\ Len(o) = n + cut
        BY <1>4, <1>5, <1>8
      <4>2. i \in 1 .. cut
        BY <3>4
      <4> QED
        BY <4>1, <4>2
    <3> QED
      BY <1>8, <3>4, <3>5
  <2> QED
    BY <1>0, <2>1, <2>2, <2>3
<1>12. SinceInv'
  <2>1. Len(o) <= since.limit
    BY <1>0, <1>4, <1>5, <1>8, <1>17
  <2>2. /\ since.base \in Nat /\ since.next \in Nat /\ since.limit \in Nat /\ since.top \in Nat
        /\ since.base < since.next + 1
    BY <1>0, <1>10
  <2>3. /\ since'.base \in Nat /\ since'.next \in Nat /\ since'.limit \in Nat /\ since'.top \in Nat
        /\ since'.out \in Seq(Hash) /\ Len(since'.out) <= since'.limit /\ since'.base < since'.next
    BY <1>8, <1>9, <2>1, <2>2
  <2>4. Len(since'.out) < since'.limit =>
          \A v \in began' : since'.base < HeightOf[v] /\ HeightOf[v] < since'.next =>
            \E i \in 1 .. Len(since'.out) : since'.out[i] = v
    BY <1>1, <1>9, <1>11
  <2> QED
    BY <2>3, <2>4 DEF SinceInv
<1>13. \A i \in 1 .. Len(o) : \A p \in Parents[o[i]] \cap began :
          HeightOf[p] <= since.base \/ p \in S!ToSet(SubSeq(o, 1, i - 1))
  <2> SUFFICES ASSUME NEW i \in 1 .. Len(o), NEW p \in Parents[o[i]], p \in began,
                      ~(HeightOf[p] <= since.base)
               PROVE  p \in S!ToSet(SubSeq(o, 1, i - 1))
    OBVIOUS
  <2>0. p \in Hash /\ HeightOf[p] \in Nat /\ since.base \in Nat
    BY <1>0
  <2>1. SUFFICES \E j \in 1 .. i - 1 : o[j] = p
    <3>1. PICK j \in 1 .. i - 1 : o[j] = p
      BY <2>1
    <3>2. /\ SubSeq(o, 1, i - 1) \in Seq(Hash) /\ Len(SubSeq(o, 1, i - 1)) = i - 1
          /\ SubSeq(o, 1, i - 1)[j] = o[j]
      BY <1>8, <3>1
    <3>3. PICK s : s = SubSeq(o, 1, i - 1)
      OBVIOUS
    <3>4. s \in Seq(Hash) /\ j \in DOMAIN s /\ s[j] = p
      BY <3>1, <3>2, <3>3
    <3> QED
      BY <3>3, <3>4 DEF S!ToSet
  <2>2. CASE i <= n
    <3>1. i \in 1 .. n /\ o[i] = out[i] /\ i \in DOMAIN out
      <4>1. i \in 1 .. n
        BY <1>4, <1>8, <2>2
      <4> QED
        BY <1>8, <1>15, <4>1
    <3>2. p \in S!ToSet(SubSeq(out, 1, i - 1))
      BY <1>0, <1>15, <2>0, <3>1 DEF SyncInv, S!SinceIsCausal
    <3>3. SubSeq(out, 1, i - 1) \in Seq(Hash) /\ Len(SubSeq(out, 1, i - 1)) = i - 1
          /\ \A j \in 1 .. i - 1 : SubSeq(out, 1, i - 1)[j] = out[j]
      <4>1. i - 1 \in 0 .. Len(out)
        BY <1>4, <1>15, <3>1
      <4> QED
        BY <1>4, <4>1, PrefixFacts
    <3>4. PICK j \in 1 .. i - 1 : out[j] = p
      BY <3>2, <3>3 DEF S!ToSet
    <3> QED
      BY <1>4, <1>8, <3>1, <3>4
  <2>3. CASE i > n
    <3>1. i \in n + 1 .. n + cut /\ i - n \in 1 .. cut
      <4> HIDE DEF cut, n
      <4> QED
        BY <1>4, <1>5, <1>8, <2>3
    <3>2. o[i] \in L
      BY <1>6, <1>8, <3>1
    <3>3. o[i] \in Hash /\ HeightOf[o[i]] = since.next
      BY <1>0, <3>2 DEF L
    <3>4. HeightOf[p] < since.next
      BY <3>3
    <3>5. PICK j \in 1 .. n : out[j] = p
      BY <1>10, <2>0, <3>4
    <3>6. j \in 1 .. i - 1 /\ o[j] = p
      BY <1>4, <1>8, <2>3, <3>5
    <3> QED
      BY <3>6
  <2> QED
    BY <1>4, <1>8, <2>2, <2>3
<1>14. S!SinceIsCausal'
  <2>1. DOMAIN o = 1 .. Len(o)
    BY <1>8
  <2> QED
    BY <1>1, <1>9, <1>13, <2>1 DEF S!SinceIsCausal
<1> QED
  BY <1>0, <1>1, <1>9, <1>12, <1>14 DEF SyncInv, S!OutstandingBounded

\* Every step of the sync manager and of the DAG under it keeps the invariant.
LEMMA SyncStep ==
    ASSUME SyncInv, [S!Next]_syncVars
    PROVE  SyncInv'
<1> USE SyncAssumption
<1>1. ASSUME NEW a \in have, NEW b \in have, NEW limit \in Limits,
             S!BeginSince(HeightOf[a], limit, HeightOf[b])
      PROVE  SyncInv'
  <2>1. /\ HeightOf[a] \in Nat /\ HeightOf[b] \in Nat /\ limit \in Nat
        /\ indexed \subseteq Hash
    BY DEF SyncInv
  <2>2. /\ since' = [step |-> "reading", base |-> HeightOf[a], limit |-> limit, top |-> HeightOf[b],
                     next |-> HeightOf[a] + 1, out |-> << >>]
        /\ began' = indexed /\ UNCHANGED <<have, orphans, indexed, wire, inFlight, strays>>
    BY <1>1 DEF S!BeginSince, S!dag
  <2>3. SinceInv' /\ S!SinceIsCausal'
    BY <2>1, <2>2 DEF SinceInv, S!SinceIsCausal
  <2> QED
    BY <2>1, <2>2, <2>3 DEF SyncInv, S!OutstandingBounded
<1>2. CASE S!AnswerSince
  <2>1. since' = S!NoRequest /\ began' = {} /\ UNCHANGED <<have, orphans, indexed, wire, inFlight, strays>>
    BY <1>2 DEF S!AnswerSince, S!dag
  <2> QED
    BY <2>1 DEF SyncInv, S!OutstandingBounded, SinceInv, S!SinceIsCausal
<1> QED
  BY <1>1, <1>2, ReadHeightStep, ClientStep DEF S!Next

\* Sync.SyncIsOrderly of every behaviour of the network: in whatever order
\* answers come, fail, get lost or repeat, no more requests are out than
\* max_concurrent and the stray answers allow, and an answer to
\* GetVerticesSince, read from a DAG that grows, can be added vertex by vertex
\* (next_request, handle_response, handle_request).
THEOREM SyncProvedOrderly == Spec => []SyncIsOrderly
<1>1. Init => SyncInv
  BY SyncAssumption DEF Init, S!Init, SyncInv, SinceInv, S!SinceIsCausal, S!OutstandingBounded, S!ToSet
<1>2. [Next]_vars => [S!Next]_syncVars
  BY DEF Next, vars, syncVars
<1>3. SyncInv /\ [Next]_vars => SyncInv'
  BY <1>2, SyncStep
<1>4. SyncInv => SyncIsOrderly
  BY DEF SyncInv, SyncIsOrderly, S!SyncIsOrderly
<1> QED
  BY <1>1, <1>3, <1>4, PTL DEF Spec
=============================================================================
