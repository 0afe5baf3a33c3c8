------------------------------ MODULE Shielded ------------------------------
(***************************************************************************)
(* Private transactions of nexus-zkp: the circuits, the (batch) prover,    *)
(* the verifier and its nullifier set.  The field is Z_Field.  Groth16 is  *)
(* external: a proof verifies under the key of its circuit, for the public *)
(* inputs it was made for, iff the witness satisfied the constraints.      *)
(* Nothing in the repository calls the nullifier set; clients stand for    *)
(* the callers its interface is made for, one for each proof under way (a  *)
(* batch of proofs is as many clients).  A client verifies, and then       *)
(* either marks the nullifier before it applies the transaction (and rolls *)
(* the mark back if that fails), or marks it "after successful             *)
(* transaction", as the comment of mark_nullifier_spent has it.            *)
(***************************************************************************)
EXTENDS Integers, Sequences, FiniteSets

CONSTANTS
    Field,        \* the field's size
    ZkRange,      \* what a u64 can hold; the circuits do not enforce it
    Cut,          \* what 31 bytes can hold
    ZkRequest,    \* the proofs that may be asked for
    Client,
    ProvingKeys,  \* the sets of circuits a prover may have keys for
    VerifyingKey, \* the circuits the verifier has keys for
    MaxPending,
    MaxUses       \* bound on the uses after which nobody asks again

VARIABLES
    zkKeys,                \* the prover's keys
    zkPending, zkProofs,   \* BatchProver.pending; the proofs handed out
    spent,                 \* NullifierSet
    zkPc,                  \* per client: its step and the nullifier in its hands
    applied,               \* per nullifier: transactions applied
    late,                  \* history: nullifiers some client applied before it marked
    overlapped             \* history: nullifiers verified while in somebody's hands

Nullifier == 0..(Field - 1)

\* bytes_to_fr keeps 31 of the 32 bytes; a u64 always fits.
BytesToFr(b) == b % Cut
Plus(x, y) == (x + y) % Field

PrivateCircuit(r) ==
    /\ Plus(r.in, BytesToFr(r.inBlind)) = BytesToFr(r.inCommit)
    /\ Plus(r.out, BytesToFr(r.outBlind)) = BytesToFr(r.outCommit)
    /\ r.in = Plus(r.out, r.fee)
    /\ Plus(BytesToFr(r.inCommit), BytesToFr(r.secret)) = BytesToFr(r.nullifier)

\* The minimum is a public input no constraint mentions.
BalanceCircuit(r) == Plus(r.in, BytesToFr(r.inBlind)) = BytesToFr(r.inCommit)

PublicInputs(r) ==
    IF r.kind = "private"
    THEN <<BytesToFr(r.inCommit), BytesToFr(r.outCommit), BytesToFr(r.nullifier), r.fee>>
    ELSE <<BytesToFr(r.inCommit), r.fee>>

\* witness is what the proof hides; it is kept for the properties.
Prove(r) ==
    [kind |-> r.kind, public |-> PublicInputs(r), witness |-> r,
     sound |-> IF r.kind = "private" THEN PrivateCircuit(r) ELSE BalanceCircuit(r)]

Groth16Verify(p, kind) == p.sound /\ p.kind = kind

\* verify_private_transaction, verify_balance_proof, verify_compliance_proof;
\* a Merkle inclusion proof is always refused.  With fewer than three public
\* inputs there is no nullifier to look up.
VerifyAs(p, kind) ==
    IF kind \notin VerifyingKey THEN "nokey"
    ELSE IF kind = "private" /\ Len(p.public) >= 3 /\ p.public[3] \in spent THEN "spent"
    ELSE IF Groth16Verify(p, kind) THEN "valid" ELSE "invalid"

\* The EVM precompile and the node's DefaultVerifier take every proof for a
\* private transaction; neither marks its nullifier.
DefaultVerify(p) == VerifyAs(p, "private") = "valid"

InHand == {zkPc[c][2] : c \in {d \in Client : zkPc[d][1] # "idle"}}

Init ==
    /\ zkKeys \in ProvingKeys
    /\ zkPending = << >> /\ zkProofs = {}
    /\ spent = {}
    /\ zkPc = [c \in Client |-> <<"idle", 0>>]
    /\ applied = [n \in Nullifier |-> 0]
    /\ late = {} /\ overlapped = {}

\* Asking again for what is pending or out adds nothing to the set of proofs.
AddProof ==
    /\ Len(zkPending) < MaxPending
    /\ \E r \in ZkRequest :
         /\ Prove(r) \notin zkProofs /\ \A i \in DOMAIN zkPending : zkPending[i] # r
         /\ zkPending' = Append(zkPending, r)
    /\ UNCHANGED <<zkKeys, zkProofs, spent, zkPc, applied, late, overlapped>>

\* Everything pending is taken out; one missing key and none of the proofs is
\* returned.
ProveAll ==
    /\ zkPending # << >>
    /\ zkPending' = << >>
    /\ zkProofs' = IF \E i \in DOMAIN zkPending : zkPending[i].kind \notin zkKeys
                   THEN zkProofs
                   ELSE zkProofs \cup {Prove(zkPending[i]) : i \in DOMAIN zkPending}
    /\ UNCHANGED <<zkKeys, spent, zkPc, applied, late, overlapped>>

\* verify_private_transaction, and each proof of verify_batch: nothing is
\* marked, so two proofs of a batch may spend the same note.
Verify(c) ==
    /\ zkPc[c][1] = "idle"
    /\ \E p \in zkProofs :
         /\ DefaultVerify(p) /\ applied[p.public[3]] < MaxUses
         /\ zkPc' = [zkPc EXCEPT ![c] = <<"verified", p.public[3]>>]
         /\ overlapped' = overlapped \cup ({p.public[3]} \cap InHand)
    /\ UNCHANGED <<zkKeys, zkPending, zkProofs, spent, applied, late>>

At(c, step) == zkPc[c][1] = step
Goes(c, step) == zkPc' = [zkPc EXCEPT ![c] = <<step, IF step = "idle" THEN 0 ELSE @[2]>>]

\* Mutant: the answer of insert is ignored.
MarkSpentAnyway(c) ==
    /\ At(c, "verified") /\ Goes(c, "marked")
    /\ spent' = spent \cup {zkPc[c][2]}
    /\ UNCHANGED <<zkKeys, zkPending, zkProofs, applied, late, overlapped>>

\* mark_nullifier_spent answers whether the nullifier was new.
MarkSpent(c) ==
    /\ At(c, "verified") /\ Goes(c, IF zkPc[c][2] \in spent THEN "idle" ELSE "marked")
    /\ spent' = spent \cup {zkPc[c][2]}
    /\ UNCHANGED <<zkKeys, zkPending, zkProofs, applied, late, overlapped>>

Apply(c) ==
    /\ At(c, "marked") /\ Goes(c, "idle")
    /\ applied' = [applied EXCEPT ![zkPc[c][2]] = @ + 1]
    /\ UNCHANGED <<zkKeys, zkPending, zkProofs, spent, late, overlapped>>

\* The transaction failed: rollback_nullifier.
Rollback(c) ==
    /\ At(c, "marked") /\ Goes(c, "idle")
    /\ spent' = spent \ {zkPc[c][2]}
    /\ UNCHANGED <<zkKeys, zkPending, zkProofs, applied, late, overlapped>>

\* A client that marks after the successful transaction, whatever the answer
ApplyFirst(c) ==
    /\ At(c, "verified") /\ Goes(c, "done")
    /\ applied' = [applied EXCEPT ![zkPc[c][2]] = @ + 1]
    /\ late' = late \cup {zkPc[c][2]}
    /\ UNCHANGED <<zkKeys, zkPending, zkProofs, spent, overlapped>>

MarkAfter(c) ==
    /\ At(c, "done") /\ Goes(c, "idle")
    /\ spent' = spent \cup {zkPc[c][2]}
    /\ UNCHANGED <<zkKeys, zkPending, zkProofs, applied, late, overlapped>>

Next ==
    \/ AddProof \/ ProveAll
    \/ \E c \in Client : \/ Verify(c) \/ MarkSpent(c) \/ Apply(c) \/ Rollback(c)
                         \/ ApplyFirst(c) \/ MarkAfter(c)

-----------------------------------------------------------------------------
(* Properties *)

\* A nullifier is used by one transaction and then stays in the set, if every
\* client marks it first and heeds the answer, however they race and roll back;
\* or if it is in one hand at a time, also for clients that mark it afterwards
\* (verify_private_transaction, mark_nullifier_spent, rollback_nullifier).
\* Clients that mark afterwards and overlap both apply: the set cannot help.
SpentOnce ==
    \A n \in Nullifier :
        /\ n \notin late => applied[n] <= 1 /\ (applied[n] = 1 => n \in spent)
        /\ n \notin overlapped =>
              /\ applied[n] <= 1
              /\ applied[n] = 1 => n \in spent \/ \E c \in Client : zkPc[c] = <<"done", n>>

\* A private transaction that verifies takes out what it brings in, in the field
\* whatever the witness, and as integers if what it hides are u64 values
\* (PrivateTransactionCircuit, whose range proof is a comment).
ValueIsConserved ==
    \A p \in zkProofs :
        Groth16Verify(p, "private") =>
            /\ p.witness.in = Plus(p.witness.out, p.witness.fee)
            /\ p.witness.out < ZkRange /\ p.witness.fee < ZkRange
                  => p.witness.in = p.witness.out + p.witness.fee

\* A shielded value is spent once and in full.
SpendsAreSound == SpentOnce /\ ValueIsConserved
=============================================================================
