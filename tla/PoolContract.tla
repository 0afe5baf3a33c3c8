---------------------------- MODULE PoolContract ----------------------------
(***************************************************************************)
(* contracts/NexusPrivacyPool.sol: deposits are leaves of a Merkle tree    *)
(* that is kept as its root and the last left subtree of each level;       *)
(* withdrawals mark a nullifier.  A hash is the pair of what it covers, the *)
(* verifier precompile is external, and a transaction is one step.         *)
(***************************************************************************)
EXTENDS Integers, Sequences, FiniteSets

CONSTANTS
    Depositor, PoolCommitment, PoolNullifier, Denomination,
    PoolDepth,        \* TREE_DEPTH
    MaxDeposits       \* bound, at most the leaves of the tree

VARIABLES
    filled,           \* filledSubtrees
    poolRoot,         \* root
    inserted,         \* the commitments in the order of their leaves
    nullified,        \* nullifierHashes
    compliance,       \* complianceEnabled, complianceOracle and the sanctioned
    funds

Hashed(l, r) == <<l, r>>
Zeros[i \in 0..PoolDepth] == IF i = 0 THEN "zero" ELSE Hashed(Zeros[i - 1], Zeros[i - 1])

Init ==
    /\ filled = [i \in 0..(PoolDepth - 1) |-> Zeros[i]]
    /\ poolRoot = Zeros[PoolDepth]
    /\ inserted = << >> /\ nullified = {} /\ funds = 0
    /\ compliance = [enabled |-> FALSE, oracle |-> "none", sanctioned |-> {}]

Barred(a) == compliance.enabled /\ a \in compliance.sanctioned

\* Mutant: the right neighbour of a left node is the last left subtree.
ClimbOverFilled(p, i) ==
    [hash   |-> IF p.index % 2 = 0 THEN Hashed(p.hash, p.filled[i]) ELSE Hashed(p.filled[i], p.hash),
     filled |-> IF p.index % 2 = 0 THEN [p.filled EXCEPT ![i] = p.hash] ELSE p.filled,
     index  |-> p.index \div 2]

\* One round of the loop of deposit: a left node is remembered and paired with
\* an empty subtree, a right node with the left one remembered.
Climb(p, i) ==
    [hash   |-> IF p.index % 2 = 0 THEN Hashed(p.hash, Zeros[i]) ELSE Hashed(p.filled[i], p.hash),
     filled |-> IF p.index % 2 = 0 THEN [p.filled EXCEPT ![i] = p.hash] ELSE p.filled,
     index  |-> p.index \div 2]

Insert(leaf, index) ==
    LET Round[i \in 0..PoolDepth] ==
            IF i = 0 THEN [hash |-> leaf, filled |-> filled, index |-> index]
            ELSE Climb(Round[i - 1], i - 1)
    IN Round[PoolDepth]

Deposit ==
    \E a \in Depositor, c \in PoolCommitment, v \in Denomination :
        /\ Len(inserted) < MaxDeposits
        /\ \A i \in DOMAIN inserted : inserted[i] # c
        /\ ~Barred(a)
        /\ filled' = Insert(c, Len(inserted)).filled
        /\ poolRoot' = Insert(c, Len(inserted)).hash
        /\ inserted' = Append(inserted, c)
        /\ funds' = funds + v
        /\ UNCHANGED <<nullified, compliance>>

\* The proof is against the current root.  The precompile at 0x0100 accepts
\* every input of sufficient length.
Withdraw ==
    \E n \in PoolNullifier, a \in Depositor, v \in Denomination :
        /\ n \notin nullified /\ ~Barred(a) /\ v <= funds
        /\ nullified' = nullified \cup {n}
        /\ funds' = funds - v
        /\ UNCHANGED <<filled, poolRoot, inserted, compliance>>

EnableCompliance ==
    \E o \in Depositor :
        /\ compliance' = [compliance EXCEPT !.enabled = TRUE, !.oracle = o]
        /\ UNCHANGED <<filled, poolRoot, inserted, nullified, funds>>

UpdateSanctioned ==
    \E a \in Depositor :
        /\ compliance.oracle # "none"
        /\ \E s \in {compliance.sanctioned \cup {a}, compliance.sanctioned \ {a}} :
               compliance' = [compliance EXCEPT !.sanctioned = s]
        /\ UNCHANGED <<filled, poolRoot, inserted, nullified, funds>>

Next == Deposit \/ Withdraw \/ EnableCompliance \/ UpdateSanctioned

-----------------------------------------------------------------------------
(* Properties *)

\* The root that withdrawals are proved against is that of the full tree over
\* all deposits in order, empty leaves to the right (constructor, deposit).
PoolRootIsTree ==
    LET Level[l \in 0..PoolDepth] ==
            [k \in Nat |-> IF l = 0 THEN IF k < Len(inserted) THEN inserted[k + 1] ELSE "zero"
                           ELSE Hashed(Level[l - 1][2 * k], Level[l - 1][2 * k + 1])]
    IN poolRoot = Level[PoolDepth][0]
=============================================================================
