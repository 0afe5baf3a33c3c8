--------------------------- MODULE FinalityProofs ---------------------------
(***************************************************************************)
(* What holds of the finality gadget for every set of validators, every    *)
(* stake, every DAG, any number of validator-set updates and any delay,    *)
(* order, repetition or loss of votes and proofs.                          *)
(***************************************************************************)
EXTENDS Finality, TLAPS

\* A validator only signs for a vertex of its own DAG, under its real height.
BallotsAreReal ==
    \A b \in ballots :
       /\ b.voter \in Node \cap Honest
       /\ b.hash \in known[b.voter]
       /\ b.height = HeightOf[b.hash]

\* A stored vote was signed by the validator whose slot it is in.
VotesAreSigned ==
    \A n \in Node : \A v \in Validator : votes[n][v] # NoVote =>
       votes[n][v].voter = v /\ votes[n][v] \in ballots \cup ByzBallots

\* The round of a node never overtakes its finalized height: apply_proof raises
\* the height alone, add_vote both.
RoundBelowHeight == \A n \in Node : round[n] <= finHeight[n]

\* The proofs a node holds are not above its finalized height, and made of votes
\* that were signed.
HeldAreBelow == \A n \in Node : \A p \in Held(n) : p.height <= finHeight[n]
HeldAreSigned == \A n \in Node : \A p \in Held(n) : p.votes \subseteq ballots \cup ByzBallots

\* The inductive invariant.  OneProofPerHeight needs HeldAreBelow: what a node
\* finalizes next is above everything it holds.
GadgetInv ==
    /\ FinalityIsSound
    /\ BallotsAreReal
    /\ VotesAreSigned
    /\ RoundBelowHeight
    /\ HeldAreBelow
    /\ HeldAreSigned

-----------------------------------------------------------------------------
(* What the two ways to finalize share. *)

\* A node that takes one more proof, above its finalized height, and finalizes
\* what it says keeps all that is said of proofs.
LEMMA HoldStep ==
    ASSUME GadgetInv, NEW n \in Node, NEW p \in Proof,
           Verify(p, p.epoch), p.votes \subseteq ballots \cup ByzBallots,
           p.height > finHeight[n],
           \A m \in Node : Held(m)' = IF m = n THEN Held(m) \cup {p} ELSE Held(m),
           finHeight' = [finHeight EXCEPT ![n] = p.height],
           finHash' = [finHash EXCEPT ![n] = p.hash],
           UNCHANGED ballots
    PROVE  /\ ProofsVerify' /\ FinalizedIsCertified' /\ OneProofPerHeight'
           /\ HeldAreBelow' /\ HeldAreSigned'
<1> USE FinalityAssumption
<1>0. /\ TypeOK /\ ProofsVerify /\ FinalizedIsCertified /\ OneProofPerHeight
      /\ HeldAreBelow /\ HeldAreSigned
  BY DEF GadgetInv, FinalityIsSound
<1>1. /\ finHeight \in [Node -> Int] /\ finHash \in [Node -> Hash]
      /\ p.height \in Int /\ p.hash \in Hash
      /\ \A m \in Node : \A q \in Held(m) : q.height \in Int
  BY <1>0 DEF TypeOK, Height, Proof, Held
<1>2. ProofsVerify'
  BY <1>0 DEF ProofsVerify, Verify, HasSupermajority
<1>3. FinalizedIsCertified'
  BY <1>0, <1>1 DEF FinalizedIsCertified
<1>4. HeldAreBelow' /\ HeldAreSigned'
  BY <1>0, <1>1 DEF HeldAreBelow, HeldAreSigned
<1>5. OneProofPerHeight'
  <2> SUFFICES ASSUME NEW m \in Node, NEW q \in Held(m)', NEW r \in Held(m)',
                      q.height = r.height
               PROVE  q.hash = r.hash
    BY DEF OneProofPerHeight
  <2>1. CASE m # n
    BY <1>0, <2>1 DEF OneProofPerHeight
  <2>2. CASE m = n
    <3>1. \A x \in Held(n) : x.height < p.height
      BY <1>0, <1>1 DEF HeldAreBelow
    <3> QED
      BY <1>0, <1>1, <2>2, <3>1 DEF OneProofPerHeight
  <2> QED
    BY <2>1, <2>2
<1> QED
  BY <1>2, <1>3, <1>4, <1>5

\* A step that leaves the proofs, the finalized vertices and the DAGs' finalized
\* heights alone, and takes no vote back, keeps all that is said of them.
LEMMA KeepStep ==
    ASSUME GadgetInv, \A m \in Node : Held(m)' = Held(m), ballots \subseteq ballots',
           UNCHANGED <<finHeight, finHash, dagFinal>>
    PROVE  /\ ProofsVerify' /\ FinalizedIsCertified' /\ OneProofPerHeight'
           /\ DagNeverAhead' /\ HeldAreBelow' /\ HeldAreSigned'
<1>1. ProofsVerify'
  BY DEF GadgetInv, FinalityIsSound, ProofsVerify, Verify, HasSupermajority
<1>2. FinalizedIsCertified' /\ OneProofPerHeight' /\ DagNeverAhead'
  BY DEF GadgetInv, FinalityIsSound, FinalizedIsCertified, OneProofPerHeight, DagNeverAhead
<1>3. HeldAreBelow' /\ HeldAreSigned'
  BY DEF GadgetInv, HeldAreBelow, HeldAreSigned
<1> QED
  BY <1>1, <1>2, <1>3

\* A set of votes with every slot empty is a set of votes.
LEMMA EmptySlots == [v \in Validator |-> NoVote] \in [Validator -> Vote \cup {NoVote}]
OBVIOUS

\* The proof that try_finalize assembles from the votes vs passes verify: its
\* votes are those of the members who named the target, one per member.
LEMMA AssembledVerifies ==
    ASSUME NEW vs \in [Validator -> Vote \cup {NoVote}],
           \A v \in Validator : vs[v] # NoVote => vs[v].voter = v,
           NEW e \in Epoch, NEW h \in Hash, NEW k \in Height, NEW r \in Round,
           HasSupermajority(Voters(vs, e, h, k), e),
           NEW p, p = [round |-> r, hash |-> h, height |-> k,
                       votes |-> {vs[v] : v \in Voters(vs, e, h, k)}, epoch |-> e]
    PROVE  p \in Proof /\ Verify(p, p.epoch)
<1> USE FinalityAssumption
<1>1. \A v \in Voters(vs, e, h, k) : /\ v \in Validator /\ v \in Members[e]
                                     /\ vs[v] \in Vote /\ vs[v].voter = v
                                     /\ vs[v].hash = h /\ vs[v].height = k
  BY DEF Voters
<1>2. p \in Proof
  BY <1>1 DEF Proof
<1>3. {x.voter : x \in p.votes} = Voters(vs, e, h, k)
  BY <1>1
<1>4. HasSupermajority({x.voter : x \in p.votes}, p.epoch)
  BY <1>3
<1>5. /\ \A x, y \in p.votes : x.voter = y.voter => x = y
      /\ \A x \in p.votes : x.hash = p.hash /\ x.height = p.height /\ x.voter \in Members[p.epoch]
  BY <1>1
<1> QED
  BY <1>2, <1>4, <1>5 DEF Verify

-----------------------------------------------------------------------------
(* One step of the gadget *)

\* Every step of every node keeps the invariant.
LEMMA GadgetStep == GadgetInv /\ [Next]_vars => GadgetInv'
<1> SUFFICES ASSUME GadgetInv, [Next]_vars
             PROVE  GadgetInv'
  OBVIOUS
<1> USE FinalityAssumption
<1>0. /\ TypeOK /\ DagNeverAhead /\ BallotsAreReal /\ VotesAreSigned
      /\ RoundBelowHeight /\ HeldAreSigned /\ ProofsVerify
  BY DEF GadgetInv, FinalityIsSound
<1>1. CASE UNCHANGED vars
  <2>1. \A m \in Node : Held(m)' = Held(m)
    BY <1>1 DEF vars, Held
  <2>2. TypeOK' /\ BallotsAreReal' /\ VotesAreSigned' /\ RoundBelowHeight'
    BY <1>0, <1>1 DEF vars, state, TypeOK, BallotsAreReal, VotesAreSigned, RoundBelowHeight
  <2> QED
    BY <1>1, <2>1, <2>2, KeepStep DEF vars, state, GadgetInv, FinalityIsSound
<1>2. ASSUME NEW n \in Node, NEW h \in Hash, Learn(n, h)
      PROVE  GadgetInv'
  <2>1. \A m \in Node : Held(m)' = Held(m)
    BY <1>2 DEF Learn, Held
  <2>2. TypeOK' /\ VotesAreSigned' /\ RoundBelowHeight'
    BY <1>0, <1>2 DEF Learn, state, TypeOK, VotesAreSigned, RoundBelowHeight
  <2>3. BallotsAreReal'
    BY <1>0, <1>2 DEF Learn, TypeOK, BallotsAreReal
  <2> QED
    BY <1>2, <2>1, <2>2, <2>3, KeepStep DEF Learn, state, GadgetInv, FinalityIsSound
<1>3. ASSUME NEW n \in Node, NEW h \in Hash, CreateVote(n, h)
      PROVE  GadgetInv'
  <2> DEFINE b == [voter |-> n, round |-> round[n], hash |-> h, height |-> HeightOf[h]]
  <2>1. \A m \in Node : Held(m)' = Held(m)
    BY <1>3 DEF CreateVote, Held
  <2>2. b \in Vote /\ ballots' = ballots \cup {b} /\ h \in known[n] /\ n \in Honest
    BY <1>0, <1>3 DEF CreateVote, FindBestCandidate, Candidates, TypeOK, Vote
  <2>3. TypeOK' /\ RoundBelowHeight'
    BY <1>0, <1>3, <2>2 DEF CreateVote, state, TypeOK, RoundBelowHeight
  <2>4. BallotsAreReal' /\ VotesAreSigned'
    BY <1>0, <1>3, <2>2 DEF CreateVote, state, BallotsAreReal, VotesAreSigned
  <2> QED
    BY <1>3, <2>1, <2>2, <2>3, <2>4, KeepStep DEF CreateVote, state, GadgetInv, FinalityIsSound
<1>4. ASSUME NEW n \in Node, NEW b \in ballots \cup ByzBallots, AddVote(n, b)
      PROVE  GadgetInv'
  <2>1. b \in Vote /\ b.voter \in Validator
    BY <1>0 DEF TypeOK, Vote
  <2>2. votes' = [votes EXCEPT ![n] = [votes[n] EXCEPT ![b.voter] = b]]
    BY <1>4 DEF AddVote
  <2>3. \A m \in Node : Held(m)' = Held(m)
    BY <1>4 DEF AddVote, Held
  <2>4. votes' \in [Node -> [Validator -> Vote \cup {NoVote}]]
    BY <1>0, <2>1, <2>2 DEF TypeOK
  <2>5. TypeOK' /\ RoundBelowHeight' /\ BallotsAreReal'
    BY <1>0, <1>4, <2>4 DEF AddVote, TypeOK, RoundBelowHeight, BallotsAreReal
  <2>6. VotesAreSigned'
    BY <1>0, <1>4, <2>1, <2>2 DEF AddVote, TypeOK, VotesAreSigned
  <2> QED
    BY <1>4, <2>3, <2>5, <2>6, KeepStep DEF AddVote, GadgetInv, FinalityIsSound
<1>5. ASSUME NEW n \in Node, NEW b \in ballots \cup ByzBallots, AddVoteFinalize(n, b)
      PROVE  GadgetInv'
  <2> DEFINE vs == [votes[n] EXCEPT ![b.voter] = b]
             proof(t) == [round |-> round[n], hash |-> t[1], height |-> t[2],
                          votes |-> {vs[v] : v \in Voters(vs, epoch[n], t[1], t[2])},
                          epoch |-> epoch[n]]
  <2>1. PICK t \in Decided(n, vs) :
           /\ proofs' = [proofs EXCEPT ![n] = @ \cup {proof(t)}]
           /\ finHeight' = [finHeight EXCEPT ![n] = t[2]]
           /\ finHash' = [finHash EXCEPT ![n] = t[1]]
    BY <1>5 DEF AddVoteFinalize
  <2>2. b \in Vote /\ b.voter \in Validator
    BY <1>0 DEF TypeOK, Vote
  <2>3. vs \in [Validator -> Vote \cup {NoVote}]
    BY <1>0, <2>2 DEF TypeOK
  <2>4. \A v \in Validator : vs[v] # NoVote =>
           vs[v].voter = v /\ vs[v] \in ballots \cup ByzBallots
    BY <1>0, <2>2 DEF TypeOK, VotesAreSigned
  <2>5. /\ t[1] \in Hash /\ t[2] \in Height /\ t[2] > finHeight[n]
        /\ HasSupermajority(Voters(vs, epoch[n], t[1], t[2]), epoch[n])
    <3> HIDE DEF vs
    <3> QED
      BY <2>3 DEF Decided, Vote
  <2>6. proof(t) \in Proof /\ Verify(proof(t), proof(t).epoch)
    <3> HIDE DEF vs
    <3>1. epoch[n] \in Epoch /\ round[n] \in Round
      BY <1>0 DEF TypeOK
    <3> QED
      BY <2>3, <2>4, <2>5, <3>1, AssembledVerifies
  <2>7. proof(t).votes \subseteq ballots \cup ByzBallots
    <3> HIDE DEF vs
    <3>1. Members[epoch[n]] \subseteq Validator
      BY <1>0 DEF TypeOK
    <3> QED
      BY <2>4, <3>1 DEF Voters
  <2>8. /\ proof(t).height = t[2] /\ proof(t).hash = t[1]
        /\ proof(t).height > finHeight[n]
    BY <2>5
  <2> HIDE DEF vs, proof
  <2>9. \A m \in Node : Held(m)' = IF m = n THEN Held(m) \cup {proof(t)} ELSE Held(m)
    BY <1>0, <1>5, <2>1 DEF AddVoteFinalize, Held, TypeOK
  <2>10. /\ ProofsVerify' /\ FinalizedIsCertified' /\ OneProofPerHeight'
         /\ HeldAreBelow' /\ HeldAreSigned'
    BY <1>5, <2>1, <2>6, <2>7, <2>8, <2>9, HoldStep DEF AddVoteFinalize
  <2>11. round[n] + 1 \in Round /\ round[n] + 1 <= t[2]
    BY <1>0, <2>5 DEF TypeOK, Round, Height, RoundBelowHeight
  <2>12. TypeOK'
    BY <1>0, <1>5, <2>1, <2>5, <2>6, <2>11, EmptySlots DEF AddVoteFinalize, TypeOK
  <2>13. RoundBelowHeight' /\ DagNeverAhead'
    BY <1>0, <1>5, <2>1, <2>5, <2>11
       DEF AddVoteFinalize, TypeOK, Height, RoundBelowHeight, DagNeverAhead
  <2>14. BallotsAreReal' /\ VotesAreSigned'
    BY <1>0, <1>5 DEF AddVoteFinalize, TypeOK, BallotsAreReal, VotesAreSigned
  <2> QED
    BY <2>10, <2>12, <2>13, <2>14 DEF GadgetInv, FinalityIsSound
<1>6. ASSUME NEW n \in Node, NEW m \in Node, NEW p \in proofs[m], ApplyProof(n, p)
      PROVE  GadgetInv'
  <2>1. p \in Proof /\ p \in Held(m)
    BY <1>0 DEF TypeOK, Held
  <2>2. /\ Verify(p, p.epoch) /\ p.votes \subseteq ballots \cup ByzBallots
        /\ p.height > finHeight[n]
    BY <1>0, <1>6, <2>1 DEF ApplyProof, ProofsVerify, HeldAreSigned
  <2>3. \A i \in Node : Held(i)' = IF i = n THEN Held(i) \cup {p} ELSE Held(i)
    BY <1>0, <1>6, <2>1 DEF ApplyProof, Held, TypeOK
  <2>4. /\ ProofsVerify' /\ FinalizedIsCertified' /\ OneProofPerHeight'
        /\ HeldAreBelow' /\ HeldAreSigned'
    BY <1>6, <2>1, <2>2, <2>3, HoldStep DEF ApplyProof
  <2>5. p.height \in Height /\ p.hash \in Hash
    BY <2>1 DEF Proof
  <2>6. TypeOK'
    BY <1>0, <1>6, <2>1, <2>5 DEF ApplyProof, TypeOK
  <2>7. RoundBelowHeight' /\ DagNeverAhead'
    BY <1>0, <1>6, <2>5
       DEF ApplyProof, TypeOK, Height, Round, RoundBelowHeight, DagNeverAhead
  <2>8. BallotsAreReal' /\ VotesAreSigned'
    BY <1>0, <1>6 DEF ApplyProof, BallotsAreReal, VotesAreSigned
  <2> QED
    BY <2>4, <2>6, <2>7, <2>8 DEF GadgetInv, FinalityIsSound
<1>7. ASSUME NEW n \in Node, PushProof(n)
      PROVE  GadgetInv'
  <2>1. applying[n] \in Proof
    BY <1>0, <1>7 DEF PushProof, TypeOK
  <2>2. \A m \in Node : Held(m)' = Held(m)
    BY <1>0, <1>7 DEF PushProof, Held, TypeOK
  <2>3. TypeOK' /\ RoundBelowHeight' /\ BallotsAreReal' /\ VotesAreSigned'
    BY <1>0, <1>7, <2>1
       DEF PushProof, state, TypeOK, RoundBelowHeight, BallotsAreReal, VotesAreSigned
  <2> QED
    BY <1>7, <2>2, <2>3, KeepStep DEF PushProof, state, GadgetInv, FinalityIsSound
<1>8. ASSUME NEW n \in Node, UpdateValidatorSet(n)
      PROVE  GadgetInv'
  <2>1. \A m \in Node : Held(m)' = Held(m)
    BY <1>8 DEF UpdateValidatorSet, Held
  <2>2. epoch[n] + 1 \in Epoch
    BY <1>0, <1>8 DEF UpdateValidatorSet, TypeOK, Epoch
  <2>3. TypeOK' /\ RoundBelowHeight' /\ BallotsAreReal' /\ VotesAreSigned'
    BY <1>0, <1>8, <2>2
       DEF UpdateValidatorSet, state, TypeOK, RoundBelowHeight, BallotsAreReal, VotesAreSigned
  <2> QED
    BY <1>8, <2>1, <2>3, KeepStep DEF UpdateValidatorSet, state, GadgetInv, FinalityIsSound
<1>9. ASSUME NEW n \in Node, ClearVotes(n)
      PROVE  GadgetInv'
  <2>1. \A m \in Node : Held(m)' = Held(m)
    BY <1>9 DEF ClearVotes, Held
  <2>2. TypeOK' /\ RoundBelowHeight' /\ BallotsAreReal' /\ VotesAreSigned'
    BY <1>0, <1>9, EmptySlots
       DEF ClearVotes, TypeOK, RoundBelowHeight, BallotsAreReal, VotesAreSigned
  <2> QED
    BY <1>9, <2>1, <2>2, KeepStep DEF ClearVotes, GadgetInv, FinalityIsSound
<1> QED
  BY <1>1, <1>2, <1>3, <1>4, <1>5, <1>6, <1>7, <1>8, <1>9 DEF Next

\* The nodes start without votes and proofs.
LEMMA GadgetInit == Init => GadgetInv
<1> SUFFICES ASSUME Init
             PROVE  GadgetInv
  OBVIOUS
<1> USE FinalityAssumption
<1>1. TypeOK
  BY EmptySlots DEF Init, TypeOK, Height, Round, Epoch
<1>2. \A n \in Node : Held(n) = {}
  BY DEF Init, Held
<1>3. ProofsVerify /\ OneProofPerHeight /\ HeldAreBelow /\ HeldAreSigned
  BY <1>2 DEF ProofsVerify, OneProofPerHeight, HeldAreBelow, HeldAreSigned
<1>4. FinalizedIsCertified /\ DagNeverAhead /\ RoundBelowHeight
  BY DEF Init, FinalizedIsCertified, DagNeverAhead, RoundBelowHeight
<1>5. BallotsAreReal /\ VotesAreSigned
  BY DEF Init, BallotsAreReal, VotesAreSigned
<1> QED
  BY <1>1, <1>3, <1>4, <1>5 DEF GadgetInv, FinalityIsSound

-----------------------------------------------------------------------------
(* Results *)

\* What a node finalized it can prove to every node of the epoch, once per
\* height, and its DAG is not told more, however try_finalize, apply_proof and
\* the two halves of update_validator_set interleave.
THEOREM FinalityProved == Spec => []FinalityIsSound
<1>1. GadgetInv => FinalityIsSound
  BY DEF GadgetInv
<1> QED
  BY <1>1, GadgetInit, GadgetStep, PTL DEF Spec

\* While the faulty validators of no epoch hold a supermajority, what any node
\* finalizes is a vertex that an honest validator had in its DAG, under its real
\* height: also through votes of former members, which an update of the
\* validator set may leave behind until it clears them.
THEOREM FinalizedProvedReal ==
    ASSUME ByzMinority
    PROVE  Spec => []FinalizedIsReal
<1>1. GadgetInv => FinalizedIsReal
  <2> SUFFICES ASSUME GadgetInv, NEW n \in Node, NEW p \in Held(n)
               PROVE  \E v \in Node \cap Honest :
                         p.hash \in known[v] /\ p.height = HeightOf[p.hash]
    BY DEF FinalizedIsReal
  <2>1. p \in Proof /\ Verify(p, p.epoch) /\ p.votes \subseteq ballots \cup ByzBallots
    BY DEF GadgetInv, FinalityIsSound, TypeOK, ProofsVerify, HeldAreSigned, Held
  <2>2. ~ ({x.voter : x \in p.votes} \subseteq Byz)
    BY <2>1 DEF Verify, ByzMinority, Proof
  <2>3. PICK x \in p.votes : x.voter \notin Byz
    BY <2>2
  <2>4. x \in ballots
    BY <2>1, <2>3, FinalityAssumption
  <2> QED
    BY <2>1, <2>4 DEF GadgetInv, BallotsAreReal, Verify
<1> QED
  BY <1>1, GadgetInit, GadgetStep, PTL DEF Spec

\* Finality is never taken back by any step: the height only grows, and the
\* finalized vertex changes only with it.
THEOREM FinalityProvedToAdvance == Spec => FinalityAdvances
<1>1. GadgetInv /\ [Next]_vars =>
        [\A n \in Node : /\ finHeight'[n] >= finHeight[n]
                         /\ finHash'[n] # finHash[n] => finHeight'[n] > finHeight[n]]_vars
  <2> SUFFICES ASSUME GadgetInv, Next, NEW n \in Node
               PROVE  /\ finHeight'[n] >= finHeight[n]
                      /\ finHash'[n] # finHash[n] => finHeight'[n] > finHeight[n]
    OBVIOUS
  <2>1. /\ finHeight \in [Node -> Int] /\ finHash \in [Node -> Hash]
    BY FinalityAssumption DEF GadgetInv, FinalityIsSound, TypeOK, Height
  <2>2. ASSUME NEW m \in Node, NEW b, AddVoteFinalize(m, b)
        PROVE  \E h, k : /\ k > finHeight[m]
                         /\ finHeight' = [finHeight EXCEPT ![m] = k]
                         /\ finHash' = [finHash EXCEPT ![m] = h]
    BY <2>2 DEF AddVoteFinalize, Decided
  <2>3. ASSUME NEW m \in Node, NEW p, ApplyProof(m, p)
        PROVE  \E h, k : /\ k > finHeight[m]
                         /\ finHeight' = [finHeight EXCEPT ![m] = k]
                         /\ finHash' = [finHash EXCEPT ![m] = h]
    BY <2>3 DEF ApplyProof
  <2>4. \/ UNCHANGED <<finHeight, finHash>>
        \/ \E m \in Node : \E h, k : /\ k > finHeight[m]
                                     /\ finHeight' = [finHeight EXCEPT ![m] = k]
                                     /\ finHash' = [finHash EXCEPT ![m] = h]
    BY <2>2, <2>3 DEF Next, Learn, CreateVote, AddVote, PushProof, UpdateValidatorSet,
                      ClearVotes, state
  <2>5. finHeight' \in [Node -> Int]
    BY GadgetStep, FinalityAssumption DEF GadgetInv, FinalityIsSound, TypeOK, Height
  <2> QED
    BY <2>1, <2>4, <2>5
<1> QED
  BY <1>1, GadgetInit, GadgetStep, PTL DEF Spec, FinalityAdvances
=============================================================================
