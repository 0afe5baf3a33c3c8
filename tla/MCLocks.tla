------------------------------- MODULE MCLocks -------------------------------
(* Sets of calls that run at the same time; a thread without a call is idle. *)
EXTENDS Locks, TLC

CONSTANTS t1, t2, t3, t4

\* Voting, syncing and queries on the finality gadget within one epoch: every
\* choice of three of these calls, each of them also twice.
FinalityCalls ==
    {t1 :> x @@ t2 :> y @@ t3 :> z @@ t4 :> << >> :
        x, y \in {AddVote, ApplyProof}, z \in {AddVote, GetProofs, FinalizedState}}

\* Block production, the handlers of peers' votes and a view change on the BFT
\* engine, without on_proposal.  In the node nobody writes the engine's
\* validator set.
BftCalls ==
    {t1 :> Propose @@ t2 :> x @@ t3 :> y @@ t4 :> WeightedLeader :
        x, y \in {OnPrepare, RequestViewChange}}

\* The RPC server from several connections, or several bridge tasks: add and
\* drain_batch together are left out (README, known departures).
MempoolCalls ==
    {t1 :> x @@ t2 :> x @@ t3 :> x @@ t4 :> << >> : x \in {MempoolAdd, MempoolDrainBatch}}

Compatible == FinalityCalls \cup BftCalls \cup MempoolCalls
=============================================================================
