-------------------------------- MODULE Trie --------------------------------
(***************************************************************************)
(* The Merkle Patricia trie of crates/nexus-state/src/trie.rs and          *)
(* StateDb::commit of storage.rs, which inserts every account in the order *)
(* a hash map happens to iterate.                                          *)
(*                                                                         *)
(* Hashes are collision free and nodes are never dropped, so a hash is the *)
(* node it stands for; Hash::ZERO, which names the empty node, is Zero.    *)
(* All keys have the same length (addresses); a nibble has fewer values.   *)
(***************************************************************************)
EXTENDS Integers, SequencesExt

CONSTANTS
    Key,          \* a set of sequences of nibbles, all of one length
    Nibble,
    TrieValue,    \* encoded accounts
    MaxOps        \* bound on the operations

Zero == [kind |-> "empty"]
NoValue == "none"

Leaf(end, v) == [kind |-> "leaf", end |-> end, value |-> v]
Extension(prefix, child) == [kind |-> "ext", prefix |-> prefix, child |-> child]
Branch(children, v) == [kind |-> "branch", children |-> children, value |-> v]
NoChildren == [n \in Nibble |-> Zero]

VARIABLES
    root,
    accounts,     \* the account map of the StateDb: a value or NoValue
    stored,       \* history: the last value inserted under each key,
    gone,         \* ... the keys deleted from the trie since,
    ops           \* ... and the number of operations

vars == <<root, accounts, stored, gone, ops>>

Init ==
    /\ root = Zero
    /\ accounts = [k \in Key |-> NoValue]
    /\ stored = accounts /\ gone = {} /\ ops = 0

RECURSIVE GetAt(_, _), PutAt(_, _, _), DeleteAt(_, _), Path(_, _), Canonical(_)

\* get_recursive; k is what is left of the key.
GetAt(node, k) ==
    CASE node.kind = "empty" -> NoValue
      [] node.kind = "leaf" -> IF k = node.end THEN node.value ELSE NoValue
      [] node.kind = "ext" -> IF IsPrefix(node.prefix, k)
                              THEN GetAt(node.child, SubSeq(k, Len(node.prefix) + 1, Len(k)))
                              ELSE NoValue
      [] node.kind = "branch" -> IF k = << >> THEN node.value
                                 ELSE GetAt(node.children[k[1]], Tail(k))

From(s, n) == SubSeq(s, n, Len(s))
Common(s, t) == LongestCommonPrefix({s, t})

\* A branch below the prefix that two paths share
Under(prefix, branch) == IF prefix = << >> THEN branch ELSE Extension(prefix, branch)

\* The keys differ and have the same length, so both leaves get a child slot.
SplitLeaf(node, k, v) ==
    LET p == Common(node.end, k)
        n == Len(p)
    IN  Under(p, Branch([NoChildren EXCEPT
            ![node.end[n + 1]] = Leaf(From(node.end, n + 2), node.value),
            ![k[n + 1]] = Leaf(From(k, n + 2), v)], NoValue))

\* Mutant: an extension of one nibble is kept for the existing branch.
SplitExtensionKeeps(node, k, v) ==
    LET p == Common(node.prefix, k)
        n == Len(p)
    IN  Under(p, Branch([NoChildren EXCEPT
            ![node.prefix[n + 1]] = Extension(From(node.prefix, n + 2), node.child),
            ![k[n + 1]] = Leaf(From(k, n + 2), v)], NoValue))

SplitExtension(node, k, v) ==
    LET p == Common(node.prefix, k)
        n == Len(p)
        rest == From(node.prefix, n + 2)
    IN  Under(p, Branch([NoChildren EXCEPT
            ![node.prefix[n + 1]] = Under(rest, node.child),
            ![k[n + 1]] = Leaf(From(k, n + 2), v)], NoValue))

\* insert_recursive
PutAt(node, k, v) ==
    CASE node.kind = "empty" -> Leaf(k, v)
      [] node.kind = "leaf" -> IF k = node.end THEN Leaf(k, v) ELSE SplitLeaf(node, k, v)
      [] node.kind = "ext" ->
            IF IsPrefix(node.prefix, k)
            THEN Extension(node.prefix, PutAt(node.child, From(k, Len(node.prefix) + 1), v))
            ELSE SplitExtension(node, k, v)
      [] node.kind = "branch" ->
            IF k = << >> THEN [node EXCEPT !.value = v]
            ELSE [node EXCEPT !.children[k[1]] = PutAt(@, Tail(k), v)]

\* delete_recursive: an extension is returned as it is, with all below it.
DeleteAt(node, k) ==
    CASE node.kind = "leaf" -> IF k = node.end THEN Zero ELSE node
      [] node.kind = "branch" ->
            IF k = << >> THEN [node EXCEPT !.value = NoValue]
            ELSE [node EXCEPT !.children[k[1]] = DeleteAt(@, Tail(k))]
      [] OTHER -> node

\* prove_recursive: the nodes on the way to the key.
Path(node, k) ==
    << node >> \o
    CASE node.kind = "ext" /\ IsPrefix(node.prefix, k) ->
            Path(node.child, From(k, Len(node.prefix) + 1))
      [] node.kind = "branch" /\ k # << >> ->
            IF node.children[k[1]] = Zero THEN << >> ELSE Path(node.children[k[1]], Tail(k))
      [] OTHER -> << >>

Prove(k) == [key |-> k, value |-> GetAt(root, k), nodes |-> Path(root, k), root |-> root]

\* verify_proof hashes the first node.  The empty node has a hash that is not
\* Hash::ZERO.
VerifyProof(p) == p.nodes[1] = p.root /\ p.nodes[1] # Zero

SetAccount(k, v) ==
    /\ accounts' = [accounts EXCEPT ![k] = v]
    /\ UNCHANGED <<root, stored, gone>>

DeleteAccount(k) ==
    /\ accounts[k] # NoValue
    /\ accounts' = [accounts EXCEPT ![k] = NoValue]
    /\ UNCHANGED <<root, stored, gone>>

\* StateDb::commit, for one order of the iteration.  Accounts that were deleted
\* stay in the trie.
Commit(order) ==
    LET live == {k \in Key : accounts[k] # NoValue} IN
    /\ root' = FoldLeft(LAMBDA t, k : PutAt(t, k, accounts[k]), root, order)
    /\ stored' = [k \in Key |-> IF k \in live THEN accounts[k] ELSE stored[k]]
    /\ gone' = gone \ live
    /\ UNCHANGED accounts

\* MerkleTrie::delete
Delete(k) ==
    /\ root' = DeleteAt(root, k)
    /\ gone' = IF stored[k] = NoValue THEN gone ELSE gone \cup {k}
    /\ UNCHANGED <<accounts, stored>>

Next ==
    /\ ops < MaxOps
    /\ ops' = ops + 1
    /\ \/ \E k \in Key : \/ \E v \in TrieValue : SetAccount(k, v)
                         \/ DeleteAccount(k) \/ Delete(k)
       \/ \E order \in SetToSeqs({k \in Key : accounts[k] # NoValue}) : Commit(order)

-----------------------------------------------------------------------------
(* Properties *)

\* A node for the keys in the domain of f, built from the set: what insertion
\* in any order should give.
Canonical(f) ==
    LET keys == DOMAIN f
        p == LongestCommonPrefix(keys)
        below(n) == {k \in keys : k[Len(p) + 1] = n}
        rest(n) == [k \in {From(x, Len(p) + 2) : x \in below(n)} |-> f[p \o << n >> \o k]]
    IN  IF keys = {} THEN Zero
        ELSE IF Cardinality(keys) = 1 THEN LET k == CHOOSE x \in keys : TRUE IN Leaf(k, f[k])
        ELSE Under(p, Branch([n \in Nibble |-> Canonical(rest(n))], NoValue))

\* The root depends on the accounts alone, not on the order in which they were
\* inserted or in which a commit walks its hash map, as long as every deleted
\* key was inserted again.
RootIgnoresOrder ==
    gone = {} => root = Canonical([k \in {x \in Key : stored[x] # NoValue} |-> stored[k]])

\* A key reads as the value inserted last; after its deletion it may read as
\* absent; operations on other keys never show.
ReadsBack ==
    \A k \in Key : GetAt(root, k) = stored[k] \/ (k \in gone /\ GetAt(root, k) = NoValue)

\* The proof of any key of a trie that is not empty verifies, its nodes hang
\* together and the last one decides the value it claims.
ProofsHold ==
    root # Zero => \A k \in Key : LET p == Prove(k) IN
        /\ VerifyProof(p)
        /\ \A i \in 2 .. Len(p.nodes) :
              \/ p.nodes[i - 1].kind = "ext" /\ p.nodes[i - 1].child = p.nodes[i]
              \/ p.nodes[i - 1].kind = "branch" /\ p.nodes[i] \in Range(p.nodes[i - 1].children)
        /\ p.value # NoValue => Last(p.nodes).kind = "leaf" /\ Last(p.nodes).value = p.value

\* The trie is a map with a canonical root and proofs (insert, delete, prove).
TrieIsFaithful == RootIgnoresOrder /\ ReadsBack /\ ProofsHold
=============================================================================
