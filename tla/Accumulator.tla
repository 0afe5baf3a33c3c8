---------------------------- MODULE Accumulator ----------------------------
(***************************************************************************)
(* CommitmentAccumulator and MerkleProof of nexus-zkp: a Merkle tree in an *)
(* array, the children of node i at 2i and 2i + 1, updated leaf by leaf.   *)
(* The hash of two nodes is the pair; an unused slot holds zeros.          *)
(***************************************************************************)
EXTENDS Integers, Sequences

CONSTANTS Commitment, TreeDepth, MaxLeaves

VARIABLES leaves, tree   \* commitments; node number -> hash

Zero == << >>
Offset == 2^TreeDepth
NodeAt(t, i) == IF i \in DOMAIN t THEN t[i] ELSE Zero
Root == NodeAt(tree, 1)

Init == leaves = << >> /\ tree = [i \in 0..(2 * Offset - 1) |-> Zero]

\* The array grows to hold the node.
Put(t, i, h) == [j \in DOMAIN t \cup 0..i |-> IF j = i THEN h ELSE NodeAt(t, j)]

\* Mutant: the two children are hashed in the order of the walk.
RehashParentOwnFirst(p) ==
    LET sibling == IF p.at % 2 = 0 THEN p.at + 1 ELSE p.at - 1
    IN IF p.at <= 1 THEN p
       ELSE [tree |-> Put(p.tree, p.at \div 2, <<NodeAt(p.tree, p.at), NodeAt(p.tree, sibling)>>),
             at   |-> p.at \div 2]

\* One round of the loop of update_tree, from node p.at to its parent
RehashParent(p) ==
    LET left == p.at - (p.at % 2)
    IN IF p.at <= 1 THEN p
       ELSE [tree |-> Put(p.tree, p.at \div 2, <<NodeAt(p.tree, left), NodeAt(p.tree, left + 1)>>),
             at   |-> p.at \div 2]

\* update_tree: rehash every node on the way from node i to the root, which is
\* reached in less than i rounds.
Rehash(t, i) ==
    LET Up[k \in 0..i] == IF k = 0 THEN [tree |-> t, at |-> i] ELSE RehashParent(Up[k - 1])
    IN Up[i].tree

\* Nothing stops at 2^depth leaves.
Add ==
    /\ Len(leaves) < MaxLeaves
    /\ \E c \in Commitment :
        /\ leaves' = Append(leaves, <<c>>)
        /\ LET i == Offset + Len(leaves) IN tree' = Rehash(Put(tree, i, <<c>>), i)

\* Leaves count from one here.
Proof(index) ==
    LET At[k \in 0..TreeDepth] == IF k = 0 THEN Offset + index - 1 ELSE At[k - 1] \div 2
        Sibling(i) == IF i % 2 = 0 THEN i + 1 ELSE i - 1
    IN [leaf |-> leaves[index], root |-> Root,
        path |-> [k \in 1..TreeDepth |-> NodeAt(tree, Sibling(At[k - 1]))],
        right |-> [k \in 1..TreeDepth |-> At[k - 1] % 2 = 1]]

VerifyProof(p) ==
    LET Climb[k \in 0..Len(p.path)] ==
          IF k = 0 THEN p.leaf
          ELSE IF p.right[k] THEN <<p.path[k], Climb[k-1]>> ELSE <<Climb[k-1], p.path[k]>>
    IN Climb[Len(p.path)] = p.root

Next == Add

-----------------------------------------------------------------------------
(* Properties *)

Fits == Len(leaves) <= Offset

\* The hash of two subtrees; one without leaves is zero.
Joined(l, r) == IF l = Zero /\ r = Zero THEN Zero ELSE <<l, r>>

\* Within the capacity the incremental updates leave the root that hashing all
\* leaves in order, level by level, would give (add, update_tree).
RootIsMerkleRoot ==
    LET Level[d \in 0..TreeDepth] ==
            [k \in Nat |-> IF d = 0 THEN IF k < Len(leaves) THEN leaves[k + 1] ELSE Zero
                           ELSE Joined(Level[d - 1][2 * k], Level[d - 1][2 * k + 1])]
    IN Fits => Root = Level[TreeDepth][0]

\* Within the capacity the proof of every leaf verifies and ends at the current
\* root, also for the leaves that were added before others (proof, verify).
InclusionHolds == Fits => \A i \in DOMAIN leaves : VerifyProof(Proof(i))

\* The accumulator is the Merkle tree of its leaves.
AccumulatorIsTree == RootIsMerkleRoot /\ InclusionHolds
=============================================================================
