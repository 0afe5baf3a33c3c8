------------------------------- MODULE Locks -------------------------------
(***************************************************************************)
(* Which calls can wait for each other for ever.  A call is the sequence   *)
(* of lock operations its code performs on its longest path; each thread   *)
(* runs one call (`call`).  The locks are parking_lot::RwLock (finality.rs, bft.rs) *)
(* and std::sync::Mutex (mempool.rs), the latter taken with Write only.    *)
(*                                                                         *)
(* parking_lot is task-fair: a writer that waits sets the writer bit, and  *)
(* from then on every new read() waits behind it, also one by a thread     *)
(* that already holds the lock for reading.                                *)
(***************************************************************************)
EXTENDS Integers, Sequences

CONSTANTS
    Thread,
    Workloads,   \* which call each thread makes, in each of the cases of a run
    None

Read(l) == [do |-> "read", lock |-> l]
Write(l) == [do |-> "write", lock |-> l]
Drop(l) == [do |-> "drop", lock |-> l]

-----------------------------------------------------------------------------
(* Mempool: two mutexes, taken in opposite orders. *)
MempoolAdd ==
    <<Write("by_hash"), Write("pending"), Drop("pending"), Drop("by_hash")>>
MempoolDrainBatch ==
    <<Write("pending"), Write("by_hash"), Drop("by_hash"), Drop("pending")>>

(* FinalityGadget *)
AddVote ==
    <<Write("state"), Read("validator_set"), Write("proofs"), Drop("proofs"),
      Drop("validator_set"), Drop("state")>>
\* find_best_candidate takes the read lock its caller already holds.
CreateVote == <<Read("state"), Read("state"), Drop("state"), Drop("state")>>
UpdateValidatorSet ==
    <<Write("validator_set"), Drop("validator_set"), Write("state"), Drop("state")>>
ApplyProof ==
    <<Read("validator_set"), Write("state"), Drop("state"), Write("proofs"),
      Drop("proofs"), Drop("validator_set")>>
GetProofs == <<Read("proofs"), Drop("proofs")>>
FinalizedState == <<Read("state"), Drop("state")>>

(* BftConsensus *)
IsLeader ==
    <<Read("state"), Read("validator_set"), Drop("validator_set"), Drop("state")>>
WeightedLeader ==
    <<Read("validator_set"), Read("state"), Drop("state"), Drop("validator_set")>>
AdvanceView == <<Write("state"), Drop("state")>>
CheckVoter == <<Read("validator_set"), Drop("validator_set")>>
\* Mutant: the state is still held when the handler goes on.
CountVotesHolding ==
    <<Write("state"), Read("validator_set"), Drop("validator_set")>>
CountVotes ==
    <<Write("state"), Read("validator_set"), Drop("state"), Drop("validator_set")>>
ReadView == <<Read("state"), Drop("state")>>
OnCommit ==
    CheckVoter \o CountVotes \o <<Write("finalized"), Drop("finalized")>> \o AdvanceView
VoteCommit == ReadView \o OnCommit
OnPrepare == CheckVoter \o CountVotes \o VoteCommit
VotePrepare == ReadView \o OnPrepare
Propose == IsLeader \o ReadView \o <<Write("state"), Drop("state")>> \o VotePrepare
\* The read guard bound to `state` is shadowed, not dropped, by the write guard.
OnProposal ==
    <<Read("state"), Read("validator_set"), Drop("validator_set"), Write("state"),
      Drop("state")>> \o VotePrepare
OnViewChange ==
    <<Read("validator_set"), Write("view_change_votes"), Drop("view_change_votes"),
      Drop("validator_set"), Write("state"), Drop("state")>>
RequestViewChange == ReadView \o OnViewChange

Lock == {"by_hash", "pending", "state", "validator_set", "proofs", "finalized",
         "view_change_votes"}
Op == [do : {"read", "write", "drop"}, lock : Lock]

ASSUME LocksAssumption == Workloads \subseteq [Thread -> Seq(Op)] /\ None \notin Thread

-----------------------------------------------------------------------------
VARIABLES
    call,      \* call[t]: the lock operations of t's call
    pos,       \* pos[t]: how many operations of its call t has done
    readers,   \* readers[l][t]: how many read guards on l thread t holds
    writer,    \* writer[l]: the thread that holds the write guard, or None
    queued     \* queued[l]: the threads that wait to write

vars == <<call, pos, readers, writer, queued>>

Init ==
    /\ call \in Workloads
    /\ pos = [t \in Thread |-> 0]
    /\ readers = [l \in Lock |-> [t \in Thread |-> 0]]
    /\ writer = [l \in Lock |-> None]
    /\ queued = [l \in Lock |-> {}]

Returned(t) == pos[t] = Len(call[t])
NextIs(t, do, l) == ~Returned(t) /\ call[t][pos[t] + 1] = [do |-> do, lock |-> l]
Step(t) == pos' = [pos EXCEPT ![t] = @ + 1]

AcquireRead(t, l) ==
    /\ NextIs(t, "read", l)
    /\ writer[l] = None
    /\ queued[l] = {}
    /\ readers' = [readers EXCEPT ![l][t] = @ + 1]
    /\ Step(t)
    /\ UNCHANGED <<call, writer, queued>>

QueueWrite(t, l) ==
    /\ NextIs(t, "write", l)
    /\ t \notin queued[l]
    /\ queued' = [queued EXCEPT ![l] = @ \cup {t}]
    /\ UNCHANGED <<call, pos, readers, writer>>

AcquireWrite(t, l) ==
    /\ t \in queued[l]
    /\ writer[l] = None
    /\ \A u \in Thread : readers[l][u] = 0
    /\ queued' = [queued EXCEPT ![l] = @ \ {t}]
    /\ writer' = [writer EXCEPT ![l] = t]
    /\ Step(t)
    /\ UNCHANGED <<call, readers>>

Release(t, l) ==
    /\ NextIs(t, "drop", l)
    /\ IF writer[l] = t
       THEN writer' = [writer EXCEPT ![l] = None] /\ UNCHANGED readers
       ELSE readers' = [readers EXCEPT ![l][t] = @ - 1] /\ UNCHANGED writer
    /\ Step(t)
    /\ UNCHANGED <<call, queued>>

Move(t) ==
    \E l \in Lock : \/ AcquireRead(t, l)
                    \/ QueueWrite(t, l)
                    \/ AcquireWrite(t, l)
                    \/ Release(t, l)

Next == \E t \in Thread : Move(t)

\* A thread that can go on does so: the calls run on their own threads.
Spec == Init /\ [][Next]_vars /\ \A t \in Thread : WF_vars(Move(t))

-----------------------------------------------------------------------------
\* Every call returns: no set of concurrent calls blocks for ever.
EveryCallReturns == <>(\A t \in Thread : Returned(t))
=============================================================================
