----------------------------- MODULE MCNetwork -----------------------------
(***************************************************************************)
(* The three state machines of nexus-network.  They share nothing, so a    *)
(* behaviour runs one of them.                                             *)
(***************************************************************************)
EXTENDS Integers, SequencesExt

CONSTANTS
    Peer, MaxPeers, MaxConns, RepBound, BanAt, MaxAge, MaxTime,
    Message, Malformed, CacheSize, Ttl, ChannelSize, CommandSize,
    Hash, Genesis, Parents, HeightOf, Remote,
    BatchSize, MaxConcurrent, Limits, MaxTips, MaxStrays

\* Peers: a finite table, and a threshold below the reputation of a new peer.
ASSUME PeersAssumption ==
    /\ IsFiniteSet(Peer)
    /\ MaxPeers \in Nat /\ MaxConns \in Nat /\ MaxAge \in Nat /\ MaxTime \in Nat
    /\ RepBound \in Nat /\ BanAt \in 1 .. RepBound

\* Gossip: messages are not the names of the loop's two other states.
ASSUME GossipAssumption ==
    /\ {"select", "stopped"} \cap Message = {}
    /\ Ttl \in Nat /\ CacheSize \in Nat

\* Sync: a DAG of finitely many vertices whose heights grow from the parents up.
ASSUME SyncAssumption ==
    /\ IsFiniteSet(Hash)
    /\ Genesis \in Hash /\ Remote \subseteq Hash
    /\ Parents \in [Hash -> SUBSET Hash] /\ Parents[Genesis] = {}
    /\ HeightOf \in [Hash -> Nat]
    /\ \A h \in Hash : \A p \in Parents[h] : HeightOf[p] < HeightOf[h]
    /\ MaxConcurrent \in Nat /\ Limits \subseteq Nat

VARIABLES
    part,
    peers, conns, now,
    seen, loop, channel, commands, received, stuck, clock, accepted,
    have, orphans, indexed, syncState, queue, inFlight, wire, tipsAsked, strays, since, began

\* g <- a, b; c merges a and b; d extends b
SmallHash == {"g", "a", "b", "c", "d"}
SmallParents == [h \in SmallHash |->
    CASE h = "g" -> {} [] h \in {"a", "b"} -> {"g"} [] h = "c" -> {"a", "b"} [] h = "d" -> {"b"}]
SmallHeights == [h \in SmallHash |->
    CASE h = "g" -> 0 [] h \in {"a", "b"} -> 1 [] h \in {"c", "d"} -> 2]

P == INSTANCE Peers
G == INSTANCE Gossip
S == INSTANCE Sync

peersVars == <<peers, conns, now>>
gossipVars == <<seen, loop, channel, commands, received, stuck, clock, accepted>>
syncVars == <<have, orphans, indexed, syncState, queue, inFlight, wire, tipsAsked, strays, since, began>>
vars == <<part, peersVars, gossipVars, syncVars>>

Init == part \in {"peers", "gossip", "sync"} /\ P!Init /\ G!Init /\ S!Init

Next ==
    /\ UNCHANGED part
    /\ \/ part = "peers" /\ P!Next /\ UNCHANGED <<gossipVars, syncVars>>
       \/ part = "gossip" /\ G!Next /\ UNCHANGED <<peersVars, syncVars>>
       \/ part = "sync" /\ S!Next /\ UNCHANGED <<peersVars, gossipVars>>

\* Only the tasks around the gossip cache are promised to make progress.
Spec == Init /\ [][Next]_vars
        /\ WF_vars(part = "gossip" /\ G!SendToNode /\ UNCHANGED <<part, peersVars, syncVars>>)
        /\ SF_vars(part = "gossip" /\ G!RunCommand /\ UNCHANGED <<part, peersVars, syncVars>>)
        /\ WF_vars(part = "gossip" /\ (G!Receive \/ G!ReceiveBlocks) /\ UNCHANGED <<part, peersVars, syncVars>>)

-----------------------------------------------------------------------------
(* Properties *)

\* Peers.PeerTableIsTrue: the table lists connected peers, keeps the live ones
\* and exceeds its limit for live ones only.
PeerTableIsTrue == P!PeerTableIsTrue

\* Gossip.OncePerTtl: a message is taken over again only after its time to live.
OncePerTtl == G!OncePerTtl

\* Gossip.LoopProgresses: what the loop takes over reaches the mempool, and a
\* shutdown request stops it, unless the receiving task blocks.
LoopProgresses == G!LoopProgresses

\* Sync.SyncIsOrderly: but for stray answers at most max_concurrent requests
\* wait for theirs, and the answer to GetVerticesSince can be added in its order.
SyncIsOrderly == S!SyncIsOrderly
=============================================================================
