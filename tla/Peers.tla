------------------------------- MODULE Peers -------------------------------
(***************************************************************************)
(* The peer table: PeerManager of crates/nexus-network/src/peer.rs as the  *)
(* swarm loop of service.rs and the rest of the node use it.               *)
(*                                                                         *)
(* The swarm reports connections one by one; a peer may hold several at a  *)
(* time.  Only the swarm loop changes connection states, reputations may   *)
(* be changed by anybody.                                                  *)
(***************************************************************************)
EXTENDS Integers, FiniteSets

CONSTANTS
    Peer,
    MaxPeers,    \* max_peers
    MaxConns,    \* bound on the connections of one peer
    RepBound,    \* reputations are clipped to -RepBound .. RepBound
    BanAt,       \* a reputation of -BanAt or less bans the peer
    MaxAge,      \* the age cleanup is called with
    MaxTime      \* bound on the clock

VARIABLES
    peers,    \* the table: a record or NoPeer
    conns,    \* the open connections of each peer
    now

peerVars == <<peers, conns, now>>

NoPeer == [state |-> "none", reputation |-> 0, lastSeen |-> 0]
PeerInfo == [state : {"Disconnected", "Connected", "Banned"},
             reputation : -RepBound .. RepBound, lastSeen : 0 .. MaxTime]

Known(T) == {p \in Peer : T[p] # NoPeer}

Init ==
    /\ peers = [p \in Peer |-> NoPeer]
    /\ conns = [p \in Peer |-> 0]
    /\ now = 0

-----------------------------------------------------------------------------
\* add_peer makes room in a full table by dropping disconnected peers.
Evict(T) ==
    IF Cardinality(Known(T)) < MaxPeers THEN T
    ELSE [p \in Peer |-> IF T[p].state = "Disconnected" THEN NoPeer ELSE T[p]]

\* A new entry replaces whatever the table held, a ban included.
AddPeer(p) ==
    peers' = [Evict(peers) EXCEPT
                ![p] = [state |-> "Connected", reputation |-> 0, lastSeen |-> now]]

\* SwarmEvent::ConnectionEstablished
ConnectionEstablished(p) ==
    /\ conns[p] < MaxConns
    /\ conns' = [conns EXCEPT ![p] = @ + 1]
    /\ AddPeer(p)
    /\ UNCHANGED now

\* set_state: a peer that is not in the table stays out of it.
SetState(p, s) == peers' = IF peers[p] = NoPeer THEN peers ELSE [peers EXCEPT ![p].state = s]

\* SwarmEvent::ConnectionClosed, of any connection of the peer
ConnectionClosed(p) ==
    /\ conns[p] > 0
    /\ conns' = [conns EXCEPT ![p] = @ - 1]
    /\ SetState(p, "Disconnected")
    /\ UNCHANGED now

\* identify::Event::Received on an open connection
IdentifyReceived(p) == conns[p] > 0 /\ AddPeer(p) /\ UNCHANGED <<conns, now>>

BanPeer(p) ==
    /\ peers[p] # NoPeer
    /\ peers' = [peers EXCEPT ![p] =
                    [state |-> "Banned", reputation |-> -RepBound, lastSeen |-> @.lastSeen]]
    /\ UNCHANGED <<conns, now>>

Clip(r) == IF r > RepBound THEN RepBound ELSE IF r < -RepBound THEN -RepBound ELSE r

UpdateReputation(p, delta) ==
    /\ peers[p] # NoPeer
    /\ LET r == Clip(peers[p].reputation + delta)
       IN peers' = [peers EXCEPT ![p] = [state |-> IF r <= -BanAt THEN "Banned" ELSE @.state,
                                         reputation |-> r, lastSeen |-> @.lastSeen]]
    /\ UNCHANGED <<conns, now>>

\* Mutant: the age decides alone.
CleanupConnected ==
    /\ peers' = [p \in Peer |-> IF now - peers[p].lastSeen < MaxAge THEN peers[p] ELSE NoPeer]
    /\ UNCHANGED <<conns, now>>

\* cleanup keeps connected and recently seen peers.
Cleanup ==
    /\ peers' = [p \in Peer |-> IF \/ peers[p].state = "Connected"
                                   \/ now - peers[p].lastSeen < MaxAge
                                THEN peers[p] ELSE NoPeer]
    /\ UNCHANGED <<conns, now>>

Tick == now < MaxTime /\ now' = now + 1 /\ UNCHANGED <<peers, conns>>

\* on_swarm_event, as far as peers are concerned, and the manager's API
Next ==
    \/ \E p \in Peer : \/ ConnectionEstablished(p)
                       \/ ConnectionClosed(p)
                       \/ IdentifyReceived(p)
                       \/ BanPeer(p)
                       \/ \E d \in {-1, 1} : UpdateReputation(p, d)
    \/ Cleanup
    \/ Tick

Spec == Init /\ [][Next]_peerVars

-----------------------------------------------------------------------------
(* Properties *)

\* The table holds well-formed entries, the clock and the connections stay
\* within their bounds.
TypeOK ==
    /\ peers \in [Peer -> PeerInfo \cup {NoPeer}]
    /\ conns \in [Peer -> 0 .. MaxConns]
    /\ now \in 0 .. MaxTime

\* A peer that connected_peers lists has an open connection, although
\* connections of one peer open and close independently, evicted peers come
\* back through identify, and bans replace the connection state.
NoPhantomPeers == \A p \in Peer : peers[p].state = "Connected" => conns[p] > 0

\* Eviction and cleanup never remove a peer that is listed as connected, and
\* eviction never removes a banned one.
LivePeersStay ==
    [][\A p \in Peer : peers[p] # NoPeer /\ peers'[p] = NoPeer =>
          /\ peers[p].state # "Connected"
          /\ peers[p].state = "Banned" => now - peers[p].lastSeen >= MaxAge]_peerVars

\* The table exceeds max_peers only for peers that are connected or banned: an
\* insertion that makes it larger than max_peers leaves no disconnected entry.
GrowsOnlyWithLivePeers ==
    [][/\ Cardinality(Known(peers')) > Cardinality(Known(peers))
       /\ Cardinality(Known(peers')) > MaxPeers
       => \A p \in Peer : peers'[p].state # "Disconnected"]_peerVars

\* As long as a peer is not inserted anew, a reputation at or below the
\* threshold keeps it out of the connected peers.
LowReputationIsOut ==
    \A p \in Peer : peers[p].reputation <= -BanAt => peers[p].state # "Connected"

\* The table tells which peers are there: it lists no peer without connection
\* or reputation, gives up no live one, and grows beyond its limit for live
\* ones only (add_peer, set_state, update_reputation, cleanup).
PeerTableIsTrue ==
    [](TypeOK /\ NoPhantomPeers /\ LowReputationIsOut) /\ LivePeersStay /\ GrowsOnlyWithLivePeers
=============================================================================
