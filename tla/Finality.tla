------------------------------ MODULE Finality ------------------------------
(***************************************************************************)
(* The finality gadget of crates/nexus-dag/src/finality.rs, one instance   *)
(* per validator, over DAGs that receive the same vertices in different    *)
(* orders.  Votes are signed and gossiped: they may be delayed,            *)
(* reordered, repeated or never delivered.  A proof built by one node can  *)
(* be applied by any other.                                                *)
(*                                                                         *)
(* The state lock makes add_vote atomic.  Two calls are not atomic:        *)
(* update_validator_set releases the validator set before it takes the     *)
(* state lock to clear the votes (`clearing`), and apply_proof drops the   *)
(* state lock before it pushes the proof (`applying`), holding the         *)
(* validator set's read lock all along.                                    *)
(*                                                                         *)
(* Each node's DAG is CausalStore's view of it: the set of stored          *)
(* vertices, which always contains the parents of its members.             *)
(***************************************************************************)
EXTENDS Integers, FiniteSetsExt

CONSTANTS
    Validator,   \* the validators of all epochs
    Node,        \* the validators whose gadget is modelled
    Byz,         \* validators whose votes follow no rule
    ByzBallots,  \* the votes they sign
    Stake,       \* Stake[v]: the weight of v
    MaxEpoch,    \* bound on the number of validator-set updates
    Members,     \* Members[e]: the validator set of epoch e
    Hash,
    Genesis,
    Parents,     \* Parents[h]: the parent hashes of h
    HeightOf,    \* HeightOf[h]: the height of h
    MaxHeight,
    NoVote,
    NoProof

Epoch == 0 .. MaxEpoch
Height == 0 .. MaxHeight
\* A node's round grows only when its finalized height does.
Round == 0 .. MaxHeight

\* A signed vote; it does not say in which epoch it was cast.
Vote == [voter : Validator, round : Round, hash : Hash, height : Height]
Proof == [round : Round, hash : Hash, height : Height, votes : SUBSET Vote,
          epoch : Epoch]

\* The stake of a set of validators
Weight(S) == MapThenSumSet(LAMBDA v : Stake[v], S)

\* ValidatorSet::has_supermajority, for the validators S of epoch e
HasSupermajority(S, e) ==
    /\ Weight(Members[e]) # 0
    /\ Weight(S) * 3 > Weight(Members[e]) * 2

ASSUME FinalityAssumption ==
    /\ MaxEpoch \in Nat
    /\ MaxHeight \in Nat
    /\ Byz \subseteq Validator
    /\ ByzBallots \subseteq {b \in Vote : b.voter \in Byz}
    /\ Node \subseteq Validator
    /\ Stake \in [Validator -> Nat]
    /\ Members \in [Epoch -> SUBSET Validator]
    /\ Genesis \in Hash
    /\ Parents \in [Hash -> SUBSET Hash]
    /\ HeightOf \in [Hash -> Height]
    /\ NoVote \notin Vote
    /\ NoProof \notin Proof

\* The fault assumption of every result about honest voters: in no epoch do
\* the faulty validators hold a supermajority by themselves.
ByzMinority == \A e \in Epoch : \A S \in SUBSET Byz : ~HasSupermajority(S, e)

VARIABLES
    known,        \* known[n]: the vertices of n's DAG
    dagFinal,     \* dagFinal[n]: finalized_height of n's DAG
    round,        \* FinalityState of n ...
    finHeight,
    finHash,
    votes,        \* votes[n][v]: the vote of v that n holds
    epoch,        \* epoch of the validator set n uses
    clearing,     \* n is between the two writes of update_validator_set
    applying,     \* the proof n has applied and not pushed yet
    proofs,       \* the proofs n stores
    ballots       \* the votes the honest validators have created

state == <<round, finHeight, finHash, votes>>
vars == <<known, dagFinal, state, epoch, clearing, applying, proofs, ballots>>

Honest == Validator \ Byz

-----------------------------------------------------------------------------
Init ==
    /\ known = [n \in Node |-> {Genesis}]
    /\ dagFinal = [n \in Node |-> 0]
    /\ round = [n \in Node |-> 0]
    /\ finHeight = [n \in Node |-> 0]
    /\ finHash = [n \in Node |-> Genesis]   \* Hash::ZERO, the genesis hash
    /\ votes = [n \in Node |-> [v \in Validator |-> NoVote]]
    /\ epoch = [n \in Node |-> 0]
    /\ clearing = [n \in Node |-> FALSE]
    /\ applying = [n \in Node |-> NoProof]
    /\ proofs = [n \in Node |-> {}]
    /\ ballots = {}

\* The DAG of n takes one more vertex (CausalStore's Deliver).
Learn(n, h) ==
    /\ h \notin known[n]
    /\ Parents[h] \subseteq known[n]
    /\ known' = [known EXCEPT ![n] = @ \cup {h}]
    /\ UNCHANGED <<dagFinal, state, epoch, clearing, applying, proofs, ballots>>

\* Dag::is_ancestor: the vertices reachable from h through parents, h included.
Ancestors[h \in Hash] == {h} \cup UNION {Ancestors[p] : p \in Parents[h]}

Tips(n) == {h \in known[n] : \A c \in known[n] : h \notin Parents[c]}

\* The vertices find_best_candidate looks for: above the finalized height and
\* an ancestor of every tip.
Candidates(n) ==
    {h \in known[n] : /\ HeightOf[h] > finHeight[n]
                      /\ \A tip \in Tips(n) : h \in Ancestors[tip]}

\* find_best_candidate scans the heights downwards; among the vertices of one
\* height it takes the first one in the iteration order of a HashSet.
FindBestCandidate(n) ==
    {h \in Candidates(n) : \A k \in Candidates(n) : HeightOf[k] <= HeightOf[h]}

\* create_vote.  Nothing stops a validator from voting again in a round.
CreateVote(n, h) ==
    /\ n \in Honest
    /\ h \in FindBestCandidate(n)
    /\ ballots' = ballots \cup
          {[voter |-> n, round |-> round[n], hash |-> h, height |-> HeightOf[h]]}
    /\ UNCHANGED <<known, dagFinal, state, epoch, clearing, applying, proofs>>

\* Mutants: votes of former members count; the height is not part of the target.
VotersAnyone(vs, e, h, k) ==
    {v \in Validator : vs[v] # NoVote /\ vs[v].hash = h /\ vs[v].height = k}
VotersByHash(vs, e, h, k) ==
    {v \in Members[e] : vs[v] # NoVote /\ vs[v].hash = h}

\* The voters in vs, members of epoch e, whose stored vote names the target.
Voters(vs, e, h, k) ==
    {v \in Members[e] : vs[v] # NoVote /\ vs[v].hash = h /\ vs[v].height = k}

\* add_vote's checks: current or future round, known voter.
Accepts(n, b) ==
    /\ b.round >= round[n]
    /\ b.voter \in Members[epoch[n]]

\* The targets try_finalize can finalize with the votes vs.
Decided(n, vs) ==
    {t \in {<<vs[v].hash, vs[v].height>> : v \in {u \in Validator : vs[u] # NoVote}} :
        /\ t[2] > finHeight[n]
        /\ HasSupermajority(Voters(vs, epoch[n], t[1], t[2]), epoch[n])}

\* add_vote of a vote that decides nothing: it replaces the voter's last one.
AddVote(n, b) ==
    /\ Accepts(n, b)
    /\ LET vs == [votes[n] EXCEPT ![b.voter] = b]
       IN /\ Decided(n, vs) = {}
          /\ votes' = [votes EXCEPT ![n] = vs]
    /\ UNCHANGED <<known, dagFinal, round, finHeight, finHash, epoch, clearing,
                   applying, proofs, ballots>>

\* add_vote of a vote that completes a supermajority: try_finalize.
AddVoteFinalize(n, b) ==
    /\ Accepts(n, b)
    /\ LET vs == [votes[n] EXCEPT ![b.voter] = b]
       IN \E t \in Decided(n, vs) :
             /\ proofs' = [proofs EXCEPT ![n] = @ \cup
                   {[round |-> round[n], hash |-> t[1], height |-> t[2],
                     votes |-> {vs[v] : v \in Voters(vs, epoch[n], t[1], t[2])},
                     epoch |-> epoch[n]]}]
             /\ finHeight' = [finHeight EXCEPT ![n] = t[2]]
             /\ finHash' = [finHash EXCEPT ![n] = t[1]]
    /\ round' = [round EXCEPT ![n] = @ + 1]
    /\ votes' = [votes EXCEPT ![n] = [v \in Validator |-> NoVote]]
    /\ UNCHANGED <<known, dagFinal, epoch, clearing, applying, ballots>>

\* FinalityProof::verify against the validator set of epoch e
Verify(p, e) ==
    /\ p.epoch = e
    /\ \A x, y \in p.votes : x.voter = y.voter => x = y
    /\ \A x \in p.votes : /\ x.hash = p.hash /\ x.height = p.height
                          /\ x.voter \in Members[e]
    /\ HasSupermajority({x.voter : x \in p.votes}, e)

\* Mutant: an older proof is applied too.
ApplyProofStale(n, p) ==
    /\ applying[n] = NoProof
    /\ Verify(p, epoch[n])
    /\ p.hash \in known[n]
    /\ finHeight' = [finHeight EXCEPT ![n] = p.height]
    /\ finHash' = [finHash EXCEPT ![n] = p.hash]
    /\ dagFinal' = [dagFinal EXCEPT ![n] = IF p.height > @ THEN p.height ELSE @]
    /\ applying' = [applying EXCEPT ![n] = p]
    /\ UNCHANGED <<known, round, votes, epoch, clearing, proofs, ballots>>

\* apply_proof up to drop(state).  A proof that fails a check, or is not above
\* the finalized height, changes nothing.  The round and the votes stay.
ApplyProof(n, p) ==
    /\ applying[n] = NoProof
    /\ Verify(p, epoch[n])
    /\ p.hash \in known[n]
    /\ p.height > finHeight[n]
    /\ finHeight' = [finHeight EXCEPT ![n] = p.height]
    /\ finHash' = [finHash EXCEPT ![n] = p.hash]
    /\ dagFinal' = [dagFinal EXCEPT ![n] = IF p.height > @ THEN p.height ELSE @]
    /\ applying' = [applying EXCEPT ![n] = p]
    /\ UNCHANGED <<known, round, votes, epoch, clearing, proofs, ballots>>

\* apply_proof stores the proof.
PushProof(n) ==
    /\ applying[n] # NoProof
    /\ proofs' = [proofs EXCEPT ![n] = @ \cup {applying[n]}]
    /\ applying' = [applying EXCEPT ![n] = NoProof]
    /\ UNCHANGED <<known, dagFinal, state, epoch, clearing, ballots>>

\* update_validator_set: the write waits for apply_proof's read lock.
UpdateValidatorSet(n) ==
    /\ ~clearing[n]
    /\ applying[n] = NoProof
    /\ epoch[n] < MaxEpoch
    /\ epoch' = [epoch EXCEPT ![n] = @ + 1]
    /\ clearing' = [clearing EXCEPT ![n] = TRUE]
    /\ UNCHANGED <<known, dagFinal, state, applying, proofs, ballots>>

ClearVotes(n) ==
    /\ clearing[n]
    /\ votes' = [votes EXCEPT ![n] = [v \in Validator |-> NoVote]]
    /\ clearing' = [clearing EXCEPT ![n] = FALSE]
    /\ UNCHANGED <<known, dagFinal, round, finHeight, finHash, epoch, applying,
                   proofs, ballots>>

Next ==
    \E n \in Node :
       \/ \E h \in Hash : Learn(n, h) \/ CreateVote(n, h)
       \/ \E b \in ballots \cup ByzBallots : AddVote(n, b) \/ AddVoteFinalize(n, b)
       \/ \E m \in Node : \E p \in proofs[m] : ApplyProof(n, p)
       \/ PushProof(n)
       \/ UpdateValidatorSet(n)
       \/ ClearVotes(n)

Spec == Init /\ [][Next]_vars

-----------------------------------------------------------------------------
(* Properties *)

\* The gadget's state, its stored votes and its proofs are of the types of
\* FinalityState and FinalityProof; what is pushed is a proof.
TypeOK ==
    /\ known \in [Node -> SUBSET Hash]
    /\ dagFinal \in [Node -> Height]
    /\ round \in [Node -> Round]
    /\ finHeight \in [Node -> Height]
    /\ finHash \in [Node -> Hash]
    /\ votes \in [Node -> [Validator -> Vote \cup {NoVote}]]
    /\ epoch \in [Node -> Epoch]
    /\ clearing \in [Node -> BOOLEAN]
    /\ applying \in [Node -> Proof \cup {NoProof}]
    /\ proofs \in [Node -> SUBSET Proof]
    /\ ballots \subseteq Vote

\* The proofs a node holds or is about to push.
Held(n) == proofs[n] \cup ({applying[n]} \ {NoProof})

\* A proof that add_vote assembled passes FinalityProof::verify at every node
\* of its epoch, whatever validator-set update ran in between: a node that
\* finalized can always convince one that syncs.
ProofsVerify == \A n \in Node : \A p \in Held(n) : Verify(p, p.epoch)

\* The finalized vertex of a node is always backed by a proof, also between
\* drop(state) and the push in apply_proof and when add_vote runs there.
FinalizedIsCertified ==
    \A n \in Node : finHeight[n] > 0 =>
       \E p \in Held(n) : p.hash = finHash[n] /\ p.height = finHeight[n]

\* A node finalizes one vertex per height, through votes and proofs together.
OneProofPerHeight ==
    \A n \in Node : \A p, q \in Held(n) : p.height = q.height => p.hash = q.hash

\* With a minority of faulty stake, what is finalized is a vertex that an
\* honest validator had in its DAG, under its real height.
FinalizedIsReal ==
    \A n \in Node : \A p \in Held(n) :
       \E v \in Node \cap Honest : p.hash \in known[v] /\ p.height = HeightOf[p.hash]

\* The DAG is never told to finalize more than the gadget has finalized.
DagNeverAhead == \A n \in Node : dagFinal[n] <= finHeight[n]

\* Finality is never taken back: the height only grows, and the finalized
\* vertex changes only with it.
FinalityAdvances ==
    [][\A n \in Node : /\ finHeight'[n] >= finHeight[n]
                       /\ finHash'[n] # finHash[n] => finHeight'[n] > finHeight[n]]_vars

\* "Deterministic finality": two nodes finalize the same vertex at a height.
Agreement ==
    \A m, n \in Node : \A p \in Held(m), q \in Held(n) :
       p.height = q.height => p.hash = q.hash

\* What a node finalized it can prove, once per height, and its DAG knows no
\* more than the gadget: through votes, proofs that are being applied and
\* validator-set updates in any order (try_finalize, apply_proof,
\* update_validator_set).
FinalityIsSound ==
    /\ TypeOK
    /\ ProofsVerify
    /\ FinalizedIsCertified
    /\ OneProofPerHeight
    /\ DagNeverAhead
=============================================================================
