----------------------------- MODULE BftProofs -----------------------------
(***************************************************************************)
(* What holds of the BFT engine's round for every validator set, every     *)
(* stake, every number of threads and every order of messages.             *)
(***************************************************************************)
EXTENDS Bft, TLAPS

\* A handler that has still to vote for, install or record a vertex knows it.
HandlersHaveVertex ==
    \A t \in Thread :
       pc[t] \in {"install", "prepare", "commit", "finish"} => jobVertex[t] \in Vertex

\* The round invariant.  A commit vote is taken only in the Commit phase, whose
\* lock (CommitPhaseIsLocked) is the one VotesBelongToRound speaks of.
RoundInv ==
    /\ TypeOK
    /\ HandlersHaveVertex
    /\ CommitPhaseIsLocked
    /\ VotesBelongToRound

-----------------------------------------------------------------------------
(* The three critical sections that several actions share. *)

\* Counting a prepare vote keeps the round invariant: the phase turns to Commit
\* only together with a lock of this view and a supermajority of votes.
LEMMA TakePrepareStep ==
    ASSUME RoundInv, NEW t \in Thread, NEW v \in Validator, NEW x \in Vertex,
           TakePrepare(t, v, x), UNCHANGED <<finalized, requests, jobView>>
    PROVE  RoundInv'
<1> USE BftAssumption
<1>1. CASE phase # "Prepare" \/ prepareVotes[v] # None
  <2>1. UNCHANGED <<round, jobVertex, finalized, requests, jobView>> /\ Goto(t, "idle")
    BY <1>1 DEF TakePrepare
  <2>2. TypeOK' /\ HandlersHaveVertex'
    BY <2>1 DEF RoundInv, TypeOK, HandlersHaveVertex, round, Goto, PC
  <2> QED
    BY <2>1, <2>2 DEF RoundInv, CommitPhaseIsLocked, VotesBelongToRound, round
<1>2. CASE phase = "Prepare" /\ prepareVotes[v] = None
  <2>1. /\ prepareVotes' = [prepareVotes EXCEPT ![v] = x]
        /\ UNCHANGED <<view, proposal, commitVotes, finalized, requests, jobView>>
    BY <1>2 DEF TakePrepare
  <2>2. VotersIn(prepareVotes)' = VotersIn(prepareVotes) \cup {v}
    BY <2>1 DEF RoundInv, TypeOK, VotersIn
  <2>3. CASE Supermajority(Weight(VotersIn(prepareVotes) \cup {v}))
    <3>1. /\ lockedVertex' = x /\ lockedView' = view /\ phase' = "Commit"
          /\ Goto(t, "commit")
          /\ jobVertex' = [jobVertex EXCEPT ![t] = x]
      BY <1>2, <2>3 DEF TakePrepare
    <3>2. TypeOK' /\ HandlersHaveVertex'
      BY <2>1, <3>1 DEF RoundInv, TypeOK, HandlersHaveVertex, Goto, PC, Phase
    <3>3. CommitPhaseIsLocked'
      <4>1. Supermajority(Weight(VotersIn(prepareVotes)))'
        BY <2>2, <2>3
      <4> QED
        BY <2>1, <3>1, <4>1 DEF CommitPhaseIsLocked
    <3>4. VotesBelongToRound'
      BY <2>1, <3>1 DEF VotesBelongToRound
    <3> QED
      BY <3>2, <3>3, <3>4 DEF RoundInv
  <2>4. CASE ~Supermajority(Weight(VotersIn(prepareVotes) \cup {v}))
    <3>1. UNCHANGED <<phase, lockedVertex, lockedView, jobVertex>> /\ Goto(t, "idle")
      BY <1>2, <2>4 DEF TakePrepare
    <3>2. TypeOK' /\ HandlersHaveVertex'
      BY <2>1, <3>1 DEF RoundInv, TypeOK, HandlersHaveVertex, Goto, PC
    <3> QED
      BY <1>2, <2>1, <3>1, <3>2
         DEF RoundInv, CommitPhaseIsLocked, VotesBelongToRound, NoVotes
  <2> QED
    BY <2>3, <2>4
<1> QED
  BY <1>1, <1>2

\* Counting a commit vote keeps the round invariant: it is counted only in the
\* Commit phase, so under a lock of this view.
LEMMA TakeCommitStep ==
    ASSUME RoundInv, NEW t \in Thread, NEW v \in Validator, NEW x \in Vertex,
           TakeCommit(t, v, x), UNCHANGED <<finalized, requests, jobView>>
    PROVE  RoundInv'
<1> USE BftAssumption
<1>1. CASE phase # "Commit" \/ commitVotes[v] # None
  <2>1. UNCHANGED <<round, jobVertex, finalized, requests, jobView>> /\ Goto(t, "idle")
    BY <1>1 DEF TakeCommit
  <2>2. TypeOK' /\ HandlersHaveVertex'
    BY <2>1 DEF RoundInv, TypeOK, HandlersHaveVertex, round, Goto, PC
  <2> QED
    BY <2>1, <2>2 DEF RoundInv, CommitPhaseIsLocked, VotesBelongToRound, round
<1>2. CASE phase = "Commit" /\ commitVotes[v] = None
  <2>1. /\ commitVotes' = [commitVotes EXCEPT ![v] = x]
        /\ UNCHANGED <<view, proposal, prepareVotes, lockedVertex, lockedView,
                       finalized, requests, jobView>>
    BY <1>2 DEF TakeCommit
  <2>2. phase' \in {"Commit", "Finalized"}
    BY <1>2 DEF TakeCommit
  <2>3. \/ Goto(t, "finish") /\ jobVertex' = [jobVertex EXCEPT ![t] = x]
        \/ Goto(t, "idle") /\ jobVertex' = jobVertex
    BY <1>2 DEF TakeCommit
  <2>4. TypeOK' /\ HandlersHaveVertex'
    BY <2>1, <2>2, <2>3 DEF RoundInv, TypeOK, HandlersHaveVertex, Goto, PC, Phase
  <2>5. lockedVertex # None /\ lockedView = view
        /\ Supermajority(Weight(VotersIn(prepareVotes)))
    BY <1>2 DEF RoundInv, CommitPhaseIsLocked
  <2>6. Supermajority(Weight(VotersIn(prepareVotes)))'
    BY <2>1, <2>5
  <2> QED
    BY <2>1, <2>2, <2>4, <2>5, <2>6 DEF RoundInv, CommitPhaseIsLocked, VotesBelongToRound
<1> QED
  BY <1>1, <1>2

\* Ending the round, in whatever view the engine goes on, keeps the invariant.
LEMMA ResetStep ==
    ASSUME RoundInv, NEW t \in Thread, ResetRound, Goto(t, "idle"), view' \in Nat,
           UNCHANGED <<finalized, requests, jobVertex, jobView>>
    PROVE  RoundInv'
<1>1. NoVotes \in [Validator -> Vertex \cup {None}]
  BY DEF NoVotes
<1>2. TypeOK' /\ HandlersHaveVertex'
  BY <1>1 DEF RoundInv, TypeOK, HandlersHaveVertex, ResetRound, Goto, PC, Phase
<1> QED
  BY <1>2 DEF RoundInv, ResetRound, CommitPhaseIsLocked, VotesBelongToRound, NoVotes

\* Every step of every thread keeps the round invariant.
LEMMA RoundStep == RoundInv /\ [Next]_vars => RoundInv'
<1> SUFFICES ASSUME RoundInv, [Next]_vars
             PROVE  RoundInv'
  OBVIOUS
<1> USE BftAssumption
<1>1. CASE UNCHANGED vars
  BY <1>1 DEF vars, round, job, RoundInv, TypeOK, HandlersHaveVertex,
              CommitPhaseIsLocked, VotesBelongToRound
<1>2. ASSUME NEW t \in Thread, NEW x \in Vertex, Propose(t, x)
      PROVE  RoundInv'
  <2>1. TypeOK' /\ HandlersHaveVertex'
    BY <1>2 DEF Propose, RoundInv, TypeOK, HandlersHaveVertex, round, Goto, PC
  <2> QED
    BY <1>2, <2>1 DEF Propose, RoundInv, CommitPhaseIsLocked, VotesBelongToRound, round
<1>3. ASSUME NEW t \in Thread, Install(t)
      PROVE  RoundInv'
  <2>1. jobVertex[t] \in Vertex
    BY <1>3 DEF Install, At, RoundInv, HandlersHaveVertex
  <2>2. TypeOK' /\ HandlersHaveVertex'
    BY <1>3, <2>1 DEF Install, RoundInv, TypeOK, HandlersHaveVertex, Goto, PC, Phase,
                      Proposal
  <2> QED
    BY <1>3, <2>2 DEF Install, RoundInv, CommitPhaseIsLocked, VotesBelongToRound, NoVotes
<1>4. ASSUME NEW t \in Thread, NEW w \in View, NEW x \in Vertex,
             OnProposal(t, [view |-> w, vertex |-> x])
      PROVE  RoundInv'
  <2>1. TypeOK' /\ HandlersHaveVertex'
    BY <1>4 DEF OnProposal, RoundInv, TypeOK, HandlersHaveVertex, round, Goto, PC
  <2> QED
    BY <1>4, <2>1 DEF OnProposal, RoundInv, CommitPhaseIsLocked, VotesBelongToRound, round
<1>5. ASSUME NEW t \in Thread, NEW v \in Validator, NEW x \in Vertex, OnPrepare(t, v, x)
      PROVE  RoundInv'
  BY <1>5, TakePrepareStep DEF OnPrepare
<1>6. ASSUME NEW t \in Thread, VotePrepare(t)
      PROVE  RoundInv'
  <2>1. jobVertex[t] \in Vertex
    BY <1>6 DEF VotePrepare, At, RoundInv, HandlersHaveVertex
  <2> QED
    BY <1>6, <2>1, TakePrepareStep DEF VotePrepare
<1>7. ASSUME NEW t \in Thread, NEW v \in Validator, NEW x \in Vertex, OnCommit(t, v, x)
      PROVE  RoundInv'
  BY <1>7, TakeCommitStep DEF OnCommit
<1>8. ASSUME NEW t \in Thread, VoteCommit(t)
      PROVE  RoundInv'
  <2>1. jobVertex[t] \in Vertex
    BY <1>8 DEF VoteCommit, At, RoundInv, HandlersHaveVertex
  <2> QED
    BY <1>8, <2>1, TakeCommitStep DEF VoteCommit
<1>9. ASSUME NEW t \in Thread, Record(t)
      PROVE  RoundInv'
  <2>1. jobVertex[t] \in Vertex
    BY <1>9 DEF Record, RoundInv, HandlersHaveVertex
  <2>2. TypeOK' /\ HandlersHaveVertex'
    BY <1>9, <2>1 DEF Record, RoundInv, TypeOK, HandlersHaveVertex, round, Goto, PC
  <2> QED
    BY <1>9, <2>2 DEF Record, RoundInv, CommitPhaseIsLocked, VotesBelongToRound, round
<1>10. ASSUME NEW t \in Thread, AdvanceView(t)
       PROVE  RoundInv'
  <2>1. view' \in Nat
    BY <1>10 DEF AdvanceView, RoundInv, TypeOK
  <2> QED
    BY <1>10, <2>1, ResetStep DEF AdvanceView
<1>11. ASSUME NEW t \in Thread, NEW v \in Validator, NEW w \in View, OnViewChange(t, v, w)
       PROVE  RoundInv'
  <2>1. w \in Nat
    BY DEF View
  <2>2. requests' \in [View -> [Validator -> 0 .. MaxRequests]]
    <3>1. requests[w][v] + 1 \in 0 .. MaxRequests
      BY <1>11 DEF OnViewChange, RoundInv, TypeOK
    <3>2. requests' = [requests EXCEPT ![w] = [requests[w] EXCEPT ![v] = requests[w][v] + 1]]
      BY <1>11 DEF OnViewChange, RoundInv, TypeOK
    <3>3. [requests[w] EXCEPT ![v] = requests[w][v] + 1] \in [Validator -> 0 .. MaxRequests]
      BY <3>1 DEF RoundInv, TypeOK
    <3> QED
      BY <3>2, <3>3 DEF RoundInv, TypeOK
  <2>3. Goto(t, "viewChange") \/ Goto(t, "idle")
    BY <1>11 DEF OnViewChange
  <2>4. TypeOK' /\ HandlersHaveVertex'
    BY <1>11, <2>1, <2>2, <2>3
       DEF OnViewChange, RoundInv, TypeOK, HandlersHaveVertex, round, Goto, PC
  <2> QED
    BY <1>11, <2>4 DEF OnViewChange, RoundInv, CommitPhaseIsLocked, VotesBelongToRound,
                       round
<1>12. ASSUME NEW t \in Thread, ChangeView(t)
       PROVE  RoundInv'
  <2>1. view' \in Nat
    BY <1>12 DEF ChangeView, RoundInv, TypeOK
  <2> QED
    BY <1>12, <2>1, ResetStep DEF ChangeView
<1> QED
  BY <1>1, <1>2, <1>3, <1>4, <1>5, <1>6, <1>7, <1>8, <1>9, <1>10, <1>11, <1>12 DEF Next

\* The initial round satisfies the invariant.
LEMMA RoundInit == Init => RoundInv
<1> SUFFICES ASSUME Init
             PROVE  RoundInv
  OBVIOUS
<1> USE BftAssumption
<1>1. NoVotes \in [Validator -> Vertex \cup {None}]
  BY DEF NoVotes
<1>2. [w \in View |-> [v \in Validator |-> 0]] \in [View -> [Validator -> 0 .. MaxRequests]]
  OBVIOUS
<1>3. /\ view \in Nat
      /\ phase \in Phase
      /\ proposal \in Proposal \cup {None}
      /\ prepareVotes \in [Validator -> Vertex \cup {None}]
      /\ commitVotes \in [Validator -> Vertex \cup {None}]
      /\ lockedVertex \in Vertex \cup {None}
      /\ lockedView \in Nat
  BY <1>1 DEF Init, Phase
<1>4. /\ finalized \subseteq Vertex
      /\ requests \in [View -> [Validator -> 0 .. MaxRequests]]
      /\ pc \in [Thread -> PC]
      /\ jobVertex \in [Thread -> Vertex \cup {None}]
      /\ jobView \in [Thread -> Nat]
  BY <1>2 DEF Init, PC
<1>5. HandlersHaveVertex
  BY DEF Init, HandlersHaveVertex
<1>6. CommitPhaseIsLocked /\ VotesBelongToRound
  BY DEF Init, CommitPhaseIsLocked, VotesBelongToRound
<1> QED
  BY <1>3, <1>4, <1>5, <1>6 DEF RoundInv, TypeOK

\* The state of the engine is well typed in every reachable state.
THEOREM BftTypeCorrect == Spec => []TypeOK
<1>1. RoundInv => TypeOK
  BY DEF RoundInv
<1> QED
  BY <1>1, RoundInit, RoundStep, PTL DEF Spec

\* The engine collects commits only in a view it is locked in, and a prepare
\* supermajority stands behind the lock, for any interleaving of the handlers.
THEOREM CommitsAreLocked == Spec => []CommitPhaseIsLocked
<1>1. RoundInv => CommitPhaseIsLocked
  BY DEF RoundInv
<1> QED
  BY <1>1, RoundInit, RoundStep, PTL DEF Spec

\* No prepare or commit vote that was stored in a round is counted in another.
THEOREM RoundsStartEmpty == Spec => []VotesBelongToRound
<1>1. RoundInv => VotesBelongToRound
  BY DEF RoundInv
<1> QED
  BY <1>1, RoundInit, RoundStep, PTL DEF Spec
=============================================================================
