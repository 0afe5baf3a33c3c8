-------------------------------- MODULE Bft --------------------------------
(***************************************************************************)
(* The BFT engine of one validator: crates/nexus-consensus/src/bft.rs.     *)
(*                                                                         *)
(* The engine is shared behind an Arc; its round state is one RwLock.      *)
(* Every handler verifies its message, then works on the round state in    *)
(* one or more critical sections, and the round may change between two of  *)
(* them.  An action is one critical section of the handler that thread t   *)
(* is running.  Peers' messages arrive late, repeated and in any order:    *)
(* any validator's signed vote, cast in any view, may be delivered at any  *)
(* time.  A vote is the vertex it names: the view in it is covered by the  *)
(* signature and compared with nothing.                                    *)
(***************************************************************************)
EXTENDS Integers, FiniteSetsExt

CONSTANTS
    Thread,      \* tasks that call the engine
    Validator,   \* the validator set, jailed and inactive members included
    Active,      \* the eligible ones (active_validators)
    Me,          \* the validator that runs this engine
    Slot,        \* Me's position in the iteration order of active_validators
    Stake,       \* Stake[v]
    Vertex,      \* vertex hashes
    MaxView,     \* bound: no proposal is made in this view or later
    MaxRequests, \* bound on repeated view-change requests of one validator
    None         \* Option::None

ASSUME BftAssumption ==
    /\ Active \subseteq Validator
    /\ Me \in Validator
    /\ Stake \in [Validator -> Nat]
    /\ Slot \in Nat
    /\ MaxView \in Nat
    /\ MaxRequests \in Nat
    /\ None \notin Vertex
    /\ None \notin [view : Nat, vertex : Vertex]

View == 0 .. MaxView
Proposal == [view : Nat, vertex : Vertex]
Phase == {"NewRound", "Prepare", "Commit", "Finalized"}
PC == {"idle", "install", "prepare", "commit", "finish", "advance", "viewChange", "accept"}

VARIABLES
    view,           \* BftRoundState ...
    phase,
    proposal,
    prepareVotes,   \* prepareVotes[v]: the vertex v voted for, None without one
    commitVotes,
    lockedVertex,
    lockedView,
    finalized,
    requests,       \* requests[w][v]: how often v asked for view w
    pc,             \* where each thread stands in its handler
    jobVertex,      \* the vertex it works on
    jobView         \* the view it read or was asked for

round == <<view, phase, proposal, prepareVotes, commitVotes, lockedVertex, lockedView>>
job == <<pc, jobVertex, jobView>>
vars == <<round, finalized, requests, job>>

NoVotes == [v \in Validator |-> None]
VotersIn(vs) == {v \in Validator : vs[v] # None}

Weight(S) == MapThenSumSet(LAMBDA v : Stake[v], S)

\* ValidatorSet::has_supermajority: the votes of ineligible members count on
\* the left, their stake does not count on the right.
Supermajority(w) == w * 3 > Weight(Active) * 2

IsLeader == Active # {} /\ view % Cardinality(Active) = Slot

\* on_proposal that has passed its checks holds the state's read guard and
\* asks for the write guard: from then on nobody gets the state lock.
StateFree == \A t \in Thread : pc[t] # "accept"

Starts(t) == pc[t] = "idle" /\ StateFree
At(t, where) == pc[t] = where /\ StateFree
Goto(t, where) == pc' = [pc EXCEPT ![t] = where]

-----------------------------------------------------------------------------
Init ==
    /\ view = 0
    /\ phase = "NewRound"
    /\ proposal = None
    /\ prepareVotes = NoVotes
    /\ commitVotes = NoVotes
    /\ lockedVertex = None
    /\ lockedView = 0
    /\ finalized = {}
    /\ requests = [w \in View |-> [v \in Validator |-> 0]]
    /\ pc = [t \in Thread |-> "idle"]
    /\ jobVertex = [t \in Thread |-> None]
    /\ jobView = [t \in Thread |-> 0]

\* propose: the leader test and the view the proposal is signed for.  Neither
\* the phase nor the lock is looked at.
Propose(t, x) ==
    /\ Starts(t)
    /\ view < MaxView
    /\ IsLeader
    /\ Goto(t, "install")
    /\ jobVertex' = [jobVertex EXCEPT ![t] = x]
    /\ jobView' = [jobView EXCEPT ![t] = view]
    /\ UNCHANGED <<round, finalized, requests>>

\* propose: "Update state"
Install(t) ==
    /\ At(t, "install")
    /\ proposal' = [view |-> jobView[t], vertex |-> jobVertex[t]]
    /\ phase' = "Prepare"
    /\ Goto(t, "prepare")
    /\ UNCHANGED <<view, prepareVotes, commitVotes, lockedVertex, lockedView,
                   finalized, requests, jobVertex, jobView>>

\* on_proposal: the proposer need not be the leader.  A refused proposal
\* changes nothing.
OnProposal(t, p) ==
    /\ Starts(t)
    /\ p.view = view
    /\ ~(lockedVertex # None /\ p.vertex # lockedVertex /\ p.view <= lockedView)
    /\ Goto(t, "accept")
    /\ jobVertex' = [jobVertex EXCEPT ![t] = p.vertex]
    /\ UNCHANGED <<round, finalized, requests, jobView>>

\* on_prepare of v's vote by thread t: outside the Prepare phase it is
\* ignored, a second vote of v is an error.  Neither the vote's view nor its
\* vertex is compared with the round's.
TakePrepare(t, v, x) ==
    \/ /\ phase # "Prepare" \/ prepareVotes[v] # None
       /\ Goto(t, "idle")
       /\ UNCHANGED <<round, jobVertex>>
    \/ /\ phase = "Prepare" /\ prepareVotes[v] = None
       /\ prepareVotes' = [prepareVotes EXCEPT ![v] = x]
       /\ IF Supermajority(Weight(VotersIn(prepareVotes) \cup {v}))
          THEN /\ lockedVertex' = x
               /\ lockedView' = view
               /\ phase' = "Commit"
               /\ Goto(t, "commit")
               /\ jobVertex' = [jobVertex EXCEPT ![t] = x]
          ELSE /\ Goto(t, "idle")
               /\ UNCHANGED <<phase, lockedVertex, lockedView, jobVertex>>
       /\ UNCHANGED <<view, proposal, commitVotes>>

\* A vote of any validator is delivered, the engine's own of another view too.
OnPrepare(t, v, x) ==
    /\ Starts(t)
    /\ TakePrepare(t, v, x)
    /\ UNCHANGED <<finalized, requests, jobView>>

\* vote_prepare, at the end of propose
VotePrepare(t) ==
    /\ At(t, "prepare")
    /\ TakePrepare(t, Me, jobVertex[t])
    /\ UNCHANGED <<finalized, requests, jobView>>

\* on_commit of v's vote by thread t
TakeCommit(t, v, x) ==
    \/ /\ phase # "Commit" \/ commitVotes[v] # None
       /\ Goto(t, "idle")
       /\ UNCHANGED <<round, jobVertex>>
    \/ /\ phase = "Commit" /\ commitVotes[v] = None
       /\ commitVotes' = [commitVotes EXCEPT ![v] = x]
       /\ IF Supermajority(Weight(VotersIn(commitVotes) \cup {v}))
          THEN /\ phase' = "Finalized"
               /\ Goto(t, "finish")
               /\ jobVertex' = [jobVertex EXCEPT ![t] = x]
          ELSE /\ Goto(t, "idle")
               /\ UNCHANGED <<phase, jobVertex>>
       /\ UNCHANGED <<view, proposal, prepareVotes, lockedVertex, lockedView>>

OnCommit(t, v, x) ==
    /\ Starts(t)
    /\ TakeCommit(t, v, x)
    /\ UNCHANGED <<finalized, requests, jobView>>

\* vote_commit, at the end of the on_prepare that reached the supermajority
VoteCommit(t) ==
    /\ At(t, "commit")
    /\ TakeCommit(t, Me, jobVertex[t])
    /\ UNCHANGED <<finalized, requests, jobView>>

\* Mutants: one of the four resets is missing.
ResetKeepsPhase ==
    /\ proposal' = None
    /\ prepareVotes' = NoVotes
    /\ commitVotes' = NoVotes
    /\ UNCHANGED <<phase, lockedVertex, lockedView>>
ResetKeepsCommits ==
    /\ phase' = "NewRound"
    /\ proposal' = None
    /\ prepareVotes' = NoVotes
    /\ UNCHANGED <<commitVotes, lockedVertex, lockedView>>

\* What advance_view and on_view_change reset.  The lock stays.
ResetRound ==
    /\ phase' = "NewRound"
    /\ proposal' = None
    /\ prepareVotes' = NoVotes
    /\ commitVotes' = NoVotes
    /\ UNCHANGED <<lockedVertex, lockedView>>

\* on_commit after the supermajority: finalized.insert needs no state lock ...
Record(t) ==
    /\ pc[t] = "finish"
    /\ finalized' = finalized \cup {jobVertex[t]}
    /\ Goto(t, "advance")
    /\ UNCHANGED <<round, requests, jobVertex, jobView>>

\* ... and advance_view does.  Whatever round it finds is the one it ends.
AdvanceView(t) ==
    /\ At(t, "advance")
    /\ view' = view + 1
    /\ ResetRound
    /\ Goto(t, "idle")
    /\ UNCHANGED <<finalized, requests, jobVertex, jobView>>

\* The stake behind the requests of one view, repeated requests included
RequestedStake(count) == MapThenSumSet(LAMBDA v : count[v] * Stake[v], Validator)

\* on_view_change (from a peer, or request_view_change for v = Me): every
\* request is pushed, repeated ones too, and each one's stake is added.
OnViewChange(t, v, w) ==
    /\ Starts(t)
    /\ requests[w][v] < MaxRequests
    /\ requests' = [requests EXCEPT ![w][v] = @ + 1]
    /\ IF Supermajority(RequestedStake(requests'[w]))
       THEN Goto(t, "viewChange")
       ELSE Goto(t, "idle")
    /\ jobView' = [jobView EXCEPT ![t] = w]
    /\ UNCHANGED <<round, finalized, jobVertex>>

\* on_view_change: "Perform view change"
ChangeView(t) ==
    /\ At(t, "viewChange")
    /\ view' = jobView[t]
    /\ ResetRound
    /\ Goto(t, "idle")
    /\ UNCHANGED <<finalized, requests, jobVertex, jobView>>

Next ==
    \E t \in Thread :
       \/ \E x \in Vertex : Propose(t, x)
       \/ Install(t)
       \/ \E w \in View, x \in Vertex : OnProposal(t, [view |-> w, vertex |-> x])
       \/ \E v \in Validator, x \in Vertex : OnPrepare(t, v, x) \/ OnCommit(t, v, x)
       \/ VotePrepare(t)
       \/ VoteCommit(t)
       \/ Record(t)
       \/ AdvanceView(t)
       \/ \E v \in Validator, w \in View : OnViewChange(t, v, w)
       \/ ChangeView(t)

Spec == Init /\ [][Next]_vars

-----------------------------------------------------------------------------
(* Properties *)

\* The round state, the request counts and the handlers in progress are of the
\* types of BftRoundState; a proposal always names a vertex.
TypeOK ==
    /\ view \in Nat
    /\ phase \in Phase
    /\ proposal \in Proposal \cup {None}
    /\ prepareVotes \in [Validator -> Vertex \cup {None}]
    /\ commitVotes \in [Validator -> Vertex \cup {None}]
    /\ lockedVertex \in Vertex \cup {None}
    /\ lockedView \in Nat
    /\ finalized \subseteq Vertex
    /\ requests \in [View -> [Validator -> 0 .. MaxRequests]]
    /\ pc \in [Thread -> PC]
    /\ jobVertex \in [Thread -> Vertex \cup {None}]
    /\ jobView \in [Thread -> Nat]

\* Commits are collected only for a round that is locked: a supermajority has
\* prepared in this very view, whatever view changes and proposals ran between
\* the steps of the handlers.
CommitPhaseIsLocked ==
    phase = "Commit" =>
       /\ lockedVertex # None
       /\ lockedView = view
       /\ Supermajority(Weight(VotersIn(prepareVotes)))

\* No vote survives into the next round: a new round starts empty, and a
\* commit vote is only ever held in the view of the lock.
VotesBelongToRound ==
    /\ phase = "NewRound" => /\ proposal = None
                             /\ prepareVotes = NoVotes
                             /\ commitVotes = NoVotes
    /\ commitVotes # NoVotes => lockedVertex # None /\ lockedView = view
=============================================================================
