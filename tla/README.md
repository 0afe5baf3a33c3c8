# A TLA+ verification of nexus-chain

Nexus is a layer-1 node written in Rust: a DAG of vertices, a finality gadget and
a BFT engine over it, an EVM, an RPC front end and an ISO 20022 layer. This
directory holds TLA+ models of its consensus core, its ledger, its network layer and
the services and contracts around them, TLC configurations that check them on small
instances, and TLAPS proofs of all but one of the safety properties of the passing runs for every
instance. Paths below are
relative to `src/`; `dag.rs`, `finality.rs`, `bft.rs` and so on are the files of
the crates they live in.

Contents: [inventory](#1-inventory) · [modules and code](#2-modules-and-code) ·
[runs](#3-runs) · [bounds](#4-bounds) · [fairness and deadlock](#5-fairness-and-deadlock) ·
[proofs](#6-proofs) · [known departures](#7-known-departures) ·
[plan](#8-plan) · [what is not modelled](#9-what-is-not-modelled)

## 1. Inventory

Each entry: the state, the operations, who calls them, what is hard, what makes it
correct.

**DAG vertex store** (`nexus-dag/src/dag.rs`, `vertex.rs`). Eight independent
`DashMap`s and locks behind one `Arc<Dag>`: vertices, status, children, tips, height
index, pending orphans, orphan dependencies, finalized height. Operations:
`init_genesis`, `add_vertex` (with `insert_vertex` and `process_orphans`, which are
mutually recursive), `set_finalized_height`, `prune`, and queries. Called by the
proposer, by sync and gossip, and by the finality gadget. Hard: no lock spans a
method, so two calls interleave between any two map operations; vertices arrive in
any order; an error in the middle of a drain leaves the remaining orphans behind.
Correct when the maps agree with each other once calls have returned, no vertex
enters before its parents, nothing accepted is lost, and finality is not undone.

**Finality gadget** (`nexus-dag/src/finality.rs`). State: round, finalized height and
hash, last vote of each voter, proofs, validator set of the epoch. Operations:
`add_vote` (with `try_finalize`), `create_vote` (with `find_best_candidate`),
`update_validator_set`, `apply_proof`, `get_proofs`. Votes and proofs come from peers
late, repeated and in any order. Hard: the candidate depends on hash order and on
what has arrived; a second vote replaces the first; the two writes of
`update_validator_set` and the two phases of `apply_proof` are not atomic; the locks
are taken in different orders. Correct when a proof convinces every other node, what
is finalized is a real vertex, a node never takes finality back, and nodes agree.

**BFT engine** (`nexus-consensus/src/bft.rs`). State: one round (view, phase,
proposal, prepare and commit votes, lock), finalized set, view-change requests.
Operations: `propose`, `on_proposal`, `on_prepare`, `on_commit`, `vote_prepare`,
`vote_commit`, `on_view_change`, `request_view_change`, `advance_view`,
`get_finality_certificate`. Called by the proposer task and by message handlers.
Hard: every handler gives up the state lock between its steps. Correct when commits
are collected only under a lock of the current view, votes of one round never count
in the next, and what is finalized has its own supermajority.

**Validator set and registry** (`validator.rs`). Members, stakes, jailed flags, the
sets of past epochs; `add_validator`, `remove_validator`, `queue_change`,
`advance_epoch`, `slash`. Hard: the total is kept beside the members; an error in the
middle of `advance_epoch` leaves half of the changes applied. Correct when the total
is the sum and the set of a past epoch stays what it was.

**Proof of stake** (`pos.rs`). Stakes, delegations, unbonding queue, rewards;
`register_validator`, `delegate`, `undelegate`, `end_epoch`, `claim_rewards`,
`select_leader`. Hard: conservation of stake across several maps and locks.

**Hybrid consensus and ISO logger** (`hybrid_consensus.rs`, `iso_logger.rs`). A
stake-weighted draw; an append-only file of hash-chained entries. Hard: failed writes
and restarts. Correct when every entry names the one before it, as far as a logger that
forgets its state in a restart can do so.

**Tip selection and metrics** (`tip_selection.rs`, `metrics.rs`). Strategies that read
tips, weights and children one by one from a DAG that grows; counters and windows
behind separate locks. Correct when what is selected can be the parents of a vertex,
and when a reset leaves no record half counted.

**Proposer and transaction pool** (`proposer.rs`), **RPC mempool and methods**
(`nexus-rpc`), **node wiring** (`nexus-node`). A transaction goes from the RPC mempool
through the bridge task into the pool, from there into a vertex, out of the pool when
the vertex is submitted, and to the execution task. Hard: three tasks, two queues with
limits, an early return between DAG and BFT. The genesis file is applied at the start
and can be exported from a running state.

**EVM** (`nexus-evm`). Accounts, code and storage (`state.rs`), a journal with nested
checkpoints, `execute_tx` and the simulated calls of RPC (`executor.rs`), gas schedule,
meter and fee market (`gas.rs`), precompiles. Hard: part of the writes bypass the
journal, several parties charge gas and raise nonces, the executors of RPC share the
accounts with the execution task without a lock, and the arithmetic is unchecked. Correct
when tokens are moved or burned but never created, a transaction runs once, and a revert
restores what was journaled.

**State** (`nexus-state`). A Merkle Patricia trie with proofs, the state database over
it, checkpoints that are created, applied, reverted, finalized and pruned. Hard: the
shape of a trie after any sequence of insertions; changes of one checkpoint that
overlap; parent links across pruning.

**Network** (`nexus-network`). Peer table, gossip with a cache of seen messages, the
swarm loop and its commands, the sync state machine. Hard: several connections of one
peer, a cache and channels at their limit, answers that are late, refused, cut off or
lost.

**ISO messaging** (`nexus-iso`). Routing rules with conditions and priorities, a
compliance check, ISO 8583 on the wire, ISO 20022 as XML, validators of account
numbers.

**Zero-knowledge proofs** (`nexus-zkp`). Batch prover, verifier, a nullifier set that
is tested and marked in separate calls, circuits, an incremental commitment tree.

**Contracts** (`contracts/*.sol`). Staking with delegations and unbonding, a privacy
pool with an incremental tree, a payment bridge with escrow.

How they interact: RPC → mempool → bridge task → transaction pool → proposer →
`Dag::add_vertex` and `BftConsensus::propose`; peers' vertices → `Dag::add_vertex`;
peers' votes → `BftConsensus::on_*` and `FinalityGadget::add_vote`; the execution task
→ `Executor::execute_tx` → `StateDb`, which `eth_call` shares; the gadget reads
the tips and ancestors of the DAG and reports finality back through
`set_finalized_height`. The interactions are direct calls on shared `Arc`s from
several tokio tasks; there is no message queue between components of one node.

The list of what is hard to test, at its lines and with the properties that cover it,
is `hazards` in PROJECT.json.

## 2. Modules and code

| module | models | extends / uses |
|---|---|---|
| `CausalStore` | the abstract promise of the DAG store | – |
| `Dag` | `dag.rs`, `vertex.rs` | INSTANCE `CausalStore` |
| `DagProofs` | theorems about `Dag` | `Dag` |
| `Finality` | `finality.rs`, several nodes | DAGs as `CausalStore` gives them |
| `FinalityProofs` | theorems about `Finality` | `Finality` |
| `Bft` | `bft.rs`, one engine and its threads | – |
| `BftProofs` | theorems about `Bft` | `Bft` |
| `Locks` | lock acquisition of `finality.rs`, `bft.rs`, `mempool.rs` | – |
| `Staking` | `pos.rs`, with `add_validator` of `validator.rs` | – |
| `StakingProofs` | theorems about `Staking` | `Staking`, `Sums` |
| `TxPipeline` | `mempool.rs`, `proposer.rs`, the tasks of `node.rs` | – |
| `Executor` | `executor.rs` with the account part of `state.rs`, `revm_db.rs`, `receipt.rs` | – |
| `ExecutorProofs` | theorems about `Executor`, `Gas`, `Journal`, `Checkpoints`, `Precompiles` | these, `Sums` |
| `Journal` | `JournaledState` of `evm/state.rs` | – |
| `Gas` | meter and fee market of `gas.rs` | – |
| `Precompiles` | `precompiles.rs` | – |
| `Checkpoints` | `checkpoint.rs` over `storage.rs` | – |
| `Trie` | `trie.rs` and `StateDb::commit` of `storage.rs` | – |
| `Peers` | `peer.rs` and the connection events of `service.rs` | – |
| `Gossip` | `gossip.rs`, the swarm loop of `service.rs`, the receiving task of `node.rs` | – |
| `Sync` | `sync.rs` between a node and its peers | – |
| `TipSelection`, `Metrics` | `tip_selection.rs`, `metrics.rs` | – |
| `Registry` | `ValidatorRegistry` of `validator.rs` | – |
| `Shielded`, `Accumulator` | prover, verifier and circuits; `commitment.rs` | – |
| `Router`, `Iso8583` | `message_router.rs`; `iso8583.rs` | – |
| `Genesis`, `AuditLog` | `genesis.rs`; `iso_logger.rs` | – |
| `StakingContract`, `PoolContract`, `PaymentBridge` | the three contracts | – |
| `MCDag`, `MCFinality`, `MCBft`, `MCLocks`, `MCStaking`, `MCExecutor` | instances for TLC | the module of their name |
| `MCLedger` | the state layer | `MCExecutor`, `Gas`, `Journal`, `Checkpoints`, `Precompiles`; INSTANCE `Trie` |
| `MCNetwork` | the network layer | INSTANCE `Peers`, `Gossip`, `Sync` |
| `NetworkProofs` | theorems about `Peers`, `Gossip` and `Sync` as `MCNetwork` composes them | `MCNetwork` |
| `Services` | the components beside consensus and ledger, as the run and the proofs share them | INSTANCE of each from `TipSelection` to `PaymentBridge` above |
| `ServiceProofs` | theorems about them | `Services`, `Sums` |
| `Sums` | lemmas: induction over sets, sums over finite sets, division | – |
| `MCServices` | its instance for TLC, one part per behaviour | `Services` |

`MCLedger`, `MCNetwork` and `MCServices` join components that share no state: the
variable `part` picks the one a behaviour runs, so the state space is the sum of the
parts. Where a part is an instance, the property named `X` is `X` of that instance.

**Dag.** Each map is a variable. `vertices` and `pending` map a hash to the height of
the stored or buffered copy, because the hash of a vertex does not cover its height
(`vertex.rs`, `compute_hash`) and copies under different heights can circulate;
parents and timestamp are covered and are functions of the hash. A thread runs
`add_vertex` as the steps `AddVertex` (tests up to the missing parents) → `Defer`, or
`Insert` → `Link` → `TakeWaiting` → (`DrainInsert` | `DrainKeep`)* → `DrainReturn`.
`InsertError` is the failed height check whose error leaves through every `?` of the
recursion. The stack of the recursion is `waiting[t]`. The map operations inside one
step commute with those of other threads as far as any property can see, with one
exception, which is listed in section 7: the tips. `init_genesis`,
`set_finalized_height` and `prune` are one step each. `accepted` is a history
variable: the vertices the store has taken charge of.

**Finality.** One gadget per node in `Node`; `known[n]` is the node's DAG, which
grows by `Learn`. `ballots` is the set of votes ever signed: a message is never
removed, so it can be delivered at any time and any number of times. Faulty
validators sign the votes in `ByzBallots` and nothing else about them matters.
`AddVote`/`AddVoteFinalize` are the two outcomes of `add_vote`; the finalized target
is any of the decided ones since `try_finalize` iterates a `HashMap`.
`FindBestCandidate` is a set since the code takes the first hit of a `HashSet`.
`applying` and `clearing` are the windows inside `apply_proof` and
`update_validator_set`. Signatures are not modelled: a vote by `v` exists only if `v`
made it. A proof's vote list is a set; `verify` refuses duplicate voters.

**Bft.** Actions are critical sections of handlers; `pc[t]` says where the handler of
thread `t` is between two of them. A vote is the vertex it names, since the view in
it is signed and compared with nothing. `OnProposal` leads to `accept`, where the
handler waits for ever for the write lock while holding the read lock of the same
`RwLock` (`bft.rs:322`, `bft.rs:350`); `StateFree` keeps everybody else out, as the
lock does. `requests` counts repeated requests as the code's `Vec` does.
`Validator \ Active` are jailed or inactive members: `has_supermajority` counts their
votes but not their stake in the total.

**Locks.** A call is its sequence of lock operations on the longest path.
`parking_lot::RwLock` is task-fair (a waiting writer blocks new readers, recursive
ones included) and is modelled as such, external to the repository.

**Staking.** One variable per lock of `ProofOfStake`; a call is the sequence of its
critical sections: `RegisterValidator` → `InitPool`; `Delegate` → `RecordDelegation`;
`Undelegate` → `Unstake` → `QueueUnbonding`; `EndEpoch` → `DistributeRewards` →
`ProcessUnbonding` → `StampEpoch`. The
delegations of a delegator to one validator are a sequence of amounts, as they stand
in the `Vec` of the code: several to one validator stay apart, a withdrawal works on
the first one, and using that one up removes all of them. `unbonding` is the queue as
a set of numbered entries. `deposited`, `released`, `minted` and `queued` (the number
of the last entry) are history variables. Shares and `reward_per_share` are left out,
and with them `claim_rewards`, the only reader.

**TxPipeline.** The mempool, the bridge's batch, the transaction pool, the proposal
between `create_proposal` and `submit_proposal`, and the vertex channel, moved by
four concurrent parties (RPC, bridge, proposer, execution). A vertex is its list of
transactions and the list its Merkle root was computed from. The node is the only
validator, so it is always leader and `bft.propose` succeeds.

**CausalStore.** Level of each vertex and finalized height; `Deliver`, `Finalize`,
`Discard`. `Dag!RefinesCausalStore` maps `level` to `vertices` and `final` to
`finalizedHeight`.

**Executor.** The execution task takes a transaction in three steps: the tests
(`CheckTx`, all of them in `Admissible`, or `RefuseTx`), the charge (`ChargeTx`, which
writes the nonce and the balance read with the tests), and the execution with refund and
payment (`FinishTx`). A request of RPC (`sim`) runs beside it over the same accounts, in two
steps: it reads the state (`BeginCall`) and stores what it made of it (`CallDryRun`).
`StateDb` has no lock across a read and a write, so what an executor stores may replace
what another one stored meanwhile; the action then sets `raced`. What REVM does with a
contract is a choice (`RunCode`): it may use any gas up to what it is given, succeed,
revert or halt, move the value on, write a slot, destroy the contract. The panic of the
subtraction at a legacy price below the base fee ends the execution task (`alive`).
Products of gas and price (`Fee`) are taken modulo `U256`, `gas_limit - gas_used` modulo
`U64`; `wrapped` records that either lost something. `burned` and `done` are history
variables. One request at a time can be under way in the run; the reads of one executor
are one window and so are its writes.

**Journal.** Cells stand for balances and slots, which are journaled, and for nonces,
which are written through `StateDb` directly. `atMark` keeps, per open checkpoint, the
cells at its mark and those written past the journal since.

**Gas.** A slot of an account through one transaction, and the base fee through a
sequence of blocks, with the arithmetic of the code and a smaller schedule in the
same proportions.

**Precompiles.** A call is the lengths its checks look at and a gas limit; the tests of
each function run in the order of the code. MODEXP reads its operands, pads them,
prices them and computes the power. Curves and hashes are one of the outcomes a
length allows.

**Checkpoints.** One account with balance, nonce, code and a slot; a plan of changes
is recorded as the code's `StateChange`s with their old values and can be reverted
and applied again. `lossy` records that a deletion was reverted, whose record lacks
code and storage; `made` keeps the vertex of every checkpoint ever created.

**Trie.** A hash is the node it stands for. `PutAt` has the case splits of
`insert_recursive`; `Canonical` builds the trie from the set of its entries and is the
reference for it.

**Peers, Gossip, Sync.** `conns` counts the open connections that libp2p reports.
The swarm loop awaits the send to the node: while it holds a message (`loop`) it takes
no command. The receiving task adds a transaction to the mempool itself and may block there
for ever (`ReceiveBlocks`, `stuck`). `wire` is the sequence of requests under way: any of
them may be answered, refused or lost at any time. `HandleStray` is an answer the counter
knows no request of: `handle_response` counts every `Vertices` and `Error` answer. A request
for the vertices since a height (`BeginSince`) is served one height after the other
(`ReadHeight`, `AnswerSince`) while `Index` puts further vertices into the height index.

**TipSelection.** A selection runs in steps between which vertices are inserted, in the
steps of `insert_vertex`: `Store`, one `Unlink` for each parent, which takes it off the tips,
then `TipUp`. `overtaken` marks vertices that got a child before they were tips themselves.
Random choices are choices; a draw by weight may take any vertex of positive weight.

**Metrics.** Each container has its lock: a record and a reset are sequences of steps.

**Registry.** `advance_epoch` holds its lock throughout and is one step, with the
prefix of the changes that precede a refused one, commissions included. Jail terms and
slash counts are left out. `skewed` marks the two changes after which the total is known to differ.

**Shielded.** A circuit is its equations over a field of 31 elements; a proof exists
exactly for a satisfied circuit, and verifies with the key of its kind. A witness may be any
element of the field, since no constraint keeps it in the range of a u64. Nothing in the
repository calls the nullifier set. Its clients follow either of the two orders its interface
allows: mark, apply, roll back on failure; or apply and mark afterwards, as the comment at
`verifier.rs:219` says. **Accumulator** and **PoolContract** keep
hashes as pairs and compare with the full tree.

**Router.** Rules with their conditions as terms, sorted by priority with a stable
sort; the compliance check as the sequence of its tests. **Iso8583.** A message is its
type, its bitmaps and its fields; the serializer and the parser walk the fields in
ascending order, as the loops of the code do, and lengths are small. **Genesis.** Accounts, code and
stakes of a node that deploys, spends, registers, delegates; export and import are
operators on it. **AuditLog.** The file is the sequence of the pieces that `writeln!` gets
into it: a text, the beginning of one, a newline. It survives `Restart`, the counters do not;
a failed write poisons the mutex.

**Contracts.** One action per transaction of the source; `require` is a guard. What
precompiles answer is a choice.

Most properties of a run are conjunctions of named parts, one idea each; the parts
are commented where they are defined.

Operators named in comments as *Mutant* are deliberate defects. Each stands before
the definition it distorts and is used nowhere; replacing the definition by it breaks
the property PROJECT.json names, which shows that the property is not vacuous.

## 3. Runs

| run | result | distinct states | what it shows |
|---|---|---|---|
| `dag_sequential` | pass | 427 | one caller, five vertices (fork, merge, parents on two levels) in any order of arrival, with finalization and pruning: indexes, tips and status agree (`MapsAgree`), nothing is lost, every orphan whose parents are there is stored |
| `dag_threads` | pass | 17 676 | two callers, forged heights and `prune` between their steps: the children and height indexes agree after every interleaving, the store refines `CausalStore`, and a finalized vertex of which no copy is on its way stays finalized |
| `finality` | pass | 98 480 | a fork, one faulty validator that votes in future rounds and under wrong heights, a validator-set change in two steps: only real vertices are finalized; proofs verify, the finalized vertex has its proof, no node finalizes both branches, the DAG is never ahead (`FinalityIsSound`); finality is never taken back |
| `finality_agreement` | violation | | `Agreement`: two honest validators that vote again in a round, with no fault at all, finalize different vertices of one height |
| `bft_threads` | pass | 160 783 | two interleaved handlers, view changes, late votes: commits only under a lock of this view, no vote survives its round |
| `locks_compatible` | pass | 156 008 | all mixes of three finality calls within an epoch, of four BFT calls without `on_proposal`, and of several mempool adds or several drains return |
| `staking_threads` | pass | 2 712 096 | two concurrent callers, repeated delegations and registrations, two epochs: delegations are backed by stake and the total is their sum while addresses register once (`StakeIsAccounted`); nobody gets back more than was put in and rewards are bounded (`NoGain`); nothing is released early |
| `tx_pipeline` | violation | | `PooledIsIncluded`: the proposer's vertices never pass `verify_structure`, so no transaction leaves the pool |
| `ledger` | pass | 727 725 | where no fee wraps and no account is written over another executor's change, transactions that overlap simulated calls create no token and run once (the latter with wrapping fees too), and a reverted call costs its fee and nothing else; reverting a journal checkpoint or a state checkpoint restores what it should; refunds are covered and base fees bounded; checkpoints stay linked through pruning and the vertex map loses an entry only to an older checkpoint of its vertex; the trie root ignores the order of insertion; precompiles are paid for and MODEXP is exact |
| `evm_dry_run` | violation | | `DryRunIsReadOnly`: a simulated call moves the value it was asked to simulate |
| `network` | pass | 329 000 | the peer table lists connected peers and keeps live ones; a message is taken over once per time to live; a full channel alone holds neither a message nor a shutdown up for ever, only a blocked receiver does; requests exceed their limit by stray answers only, and what a growing DAG answers can be added in order |
| `services` | pass | 463 118 | the remaining components, one property each, listed below |

The properties of `services`:

| property | shows |
|---|---|
| `SelectionHolds` | parents drawn from a snapshot stay valid while vertices are inserted, unless one of them was overtaken by its child; walks as deep as a DAG that stands still end at leaves; a selection has as many parents as it should and a height above them, and is empty only when an insertion was under way |
| `MetricsAreTrue` | a reset that runs beside records leaves totals that account for the windows, averages between the smallest and the largest sample, percentiles that are samples |
| `EpochsAreRecorded` | the total stake is the sum of the stakes, and every past epoch keeps the set it had, through refused changes and slashes |
| `SpendsAreSound` | one transaction per nullifier if every client marks it first, however they race, or if it is in one hand at a time; a proof that verifies conserves value in the field, and as integers if its witness is in the range of a u64 |
| `AccumulatorIsTree`, `PoolRootIsTree` | incremental insertion gives the root, and for the accumulator the proofs, of the full Merkle tree |
| `DecisionsStand` | a route changes only for a more urgent rule; a message passes exactly when no party is sanctioned |
| `WireIsFaithful` | an ISO 8583 message parses back; one that is cut off anywhere is refused |
| `GenesisRoundTrips` | an exported genesis restores balances, nonces, code and active stakes, not storage and delegations |
| `ChainIsLinked` | the entries of one process form one hash chain, behind which nothing of that process follows a torn line or a missing newline; it breaks once per restart at most |
| `BooksAgree` | validator list, delegations and total of the staking contract agree; exactly the entries that are due are withdrawn |
| `PendingIsFunded` | the bridge holds the funds of every pending payment |

The three violations are findings about the code against its own comments and
documents; PROJECT.json quotes both sides.

## 4. Bounds

- *Dag*: `Hash` holds 4 or 5 vertices. Five suffice for an orphan with two missing
  parents on different levels and a drain that recurses twice; four suffice for a
  merge whose parents are inserted by different threads. `MaxHeight` is the height of
  the highest vertex, so it cuts nothing off. `Cutoffs` are the arguments of `prune`;
  `{}` means it is not called, which is how the refinement proof is scoped. The
  two-thread run prunes below height 1, that is below every vertex still being
  inserted; section 7 says what a higher cutoff does. `Early = {}`: vertices arrive after `init_genesis` (section 7 says
  what happens otherwise). Two threads, since every race here is between two calls.
- *Finality*: `Round` is bounded by `MaxHeight` without loss, a round ends only when
  the finalized height grows. `MaxEpoch` bounds the updates; one update already puts
  its window between two votes. `ByzBallots` lists three votes that between them use a
  future round, a wrong height and a vote like an honest one's. Stakes 2, 1, 1 make
  a supermajority two validators, one of them honest, and change what a supermajority
  is when the large one leaves.
- *Bft*: no proposal is made at `MaxView` or later; views still grow beyond it through
  `advance_view`. `MaxRequests` bounds repeated requests. One vertex is enough,
  since the properties do not tell vertices apart. Stakes 1, 2, 1.
- *Locks*: each thread makes one call; a deadlock is a cycle of calls in progress, so
  a second call of the same thread adds none.

- *Staking*: one delegator with a budget of 3 (`MaxDeposit`) in amounts 1 and 2 can
  delegate twice to one validator or to two; `MaxEpoch = 2` with an unbonding period of
  1 lets entries complete, and lets `end_epoch` run inside `undelegate`;
  `MaxRegistrations = 2` exercises the replacement of an entry. Stakes 1 and 2 and
  rewards of 4 do not divide evenly.
- *TxPipeline*: two transactions and queues with room for both, so that neither a full
  queue nor a missing `iso_data` can be the reason of the violation. `HasTips = TRUE`
  likewise: the run grants the proposer a DAG with a genesis vertex.

- *Executor*: twelve transactions of two senders reach every early return, a transfer,
  calls of a contract and of a precompile, a creation with too little and with ample
  gas, a price below the base fee, fees that wrap to nothing and a cost that overflows
  (`U256` is 1000, gas limits go to 9); three of them are started (`MaxRuns`), and one
  simulated call (`MaxCalls`) may overlap any of their steps: a race takes one transaction
  and one call, a replay two runs. `EnvGas` is the block gas limit, `Deposit` and `Refunds` the gas a
  creation adds and a call gets back.
- *Journal*: three cells of two values, two open checkpoints (`MaxDepth`), two entries
  (`MaxJournal`): an inner commit under an outer revert needs no more.
- *Gas*: three slot values and five writes visit every pair of transitions of
  `sstore_gas`; the fee moves between 2 and 40 so that rounding, the floor and the cap
  are met. *Precompiles*: lengths on both sides of every comparison.
- *Checkpoints*: three vertices, one with two parents, four plans (a creation, a balance
  that goes and comes back around a storage write, a code removed, a deletion followed
  by a creation), three checkpoints. *Trie*: four keys that share two, one
  and no nibbles, two values, six operations.
- *Network*: two peers for a table of one; three messages, one malformed, for a cache
  and a channel of one; five vertices, two of them on each of two levels, one request at a
  time and one stray answer (`MaxStrays`), which suffices to let a second request out. `MaxTime` bounds the clocks: three steps exceed every age and time to live.
- *Services*: `services.cfg` gives each part the smallest sets in which its interesting
  case happens, for example four vertices, of which a
  merge can overtake a parent that is still being inserted, under a selection with either of
  three limits; two clients with two payments of one note, a payment whose change is nearly
  the size of the field, five leaves for a tree
  of four (the fifth overwrites, and the properties are about trees that fit), three
  stakers whose list is reordered by removals, stakes of 1 and 40000 at a width of 65536
  so that two large ones overflow, rules of two priorities, of which three are added.

`SYMMETRY` is used in `bft_threads` and `staking_threads` (threads, safety properties).

## 5. Fairness and deadlock

`Dag!FairSpec` is weak fairness of each thread's `Continue`: a call in progress goes
on, because `add_vertex` blocks on nothing but shard locks that are held for one map
operation. No call is ever obliged to start. `Locks!Spec` is weak fairness of each
thread's moves: a thread whose lock is free takes it, which is what parking_lot's
fair queue and the scheduler give. `TxPipeline!Spec` is weak
fairness of the bridge, proposer and execution tasks, which timers and wakers drive.
`MCNetwork!Spec` assumes that a send to a channel with room eventually happens, that the
receiving task takes the next message or blocks on it for ever (`Mempool::add` may deadlock,
section 7), and strong fairness of `RunCommand`: `select!` polls its
branches in random order, so a command that is ready again and again is taken, however
many messages arrive. The other specifications state no fairness and
their runs check safety only.

Deadlock is not checked where the instance may stop: a finality run ends when all
votes and proofs of the bounded instance have been used; the BFT engine really stops
when `on_proposal` hangs; in `Locks` all calls return; in `ledger` and `services` the
bounded parts run out of operations, and the execution task may have died. The other
runs do check deadlock.

## 6. Proofs

36 of the 40 properties that passing runs check are also proved, for every value of the
constants that satisfies the ASSUMEs of the modules, which TLC evaluates in every run
(`DagAssumption`, `FinalityAssumption`, `BftAssumption`, `StakingAssumption`,
`ExecutorAssumption`, `JournalAssumption`, `CheckpointAssumption`, and the three of `MCNetwork`). They give types to the constants
and say what the constants are: sets of peers, accounts and validators are finite,
parents lie below their children, a contract is not created at the address of a key.
Theorems that need more say so in an ASSUME of their own (the operators named `...Setting`), as
noted below; the instances of the runs satisfy them. TLC checked
each inductive invariant, or its parts, before it was proved.

### DagProofs

- `TypeCorrect`: `Spec => []TypeOK`. The one subtle part is that a buffered height
  read by `process_orphans` is a height and not the absence of one, and that the
  stack operations keep a stack of sets (lemma `StackType`).
- `ParentsBelow`: if `Cutoffs = {}`, `Spec => []CausalInv`. Every stored vertex has all
  parents stored on lower levels and one directly below. This is not inductive by
  itself: `CausalInv` adds that a thread about to insert has seen all parents of its
  job stored, and that a thread never works on the genesis vertex. Two threads may
  insert the same vertex twice, under different declared heights; `LevelUnique` shows
  that both passed the same height check and `LevelStable` that the answer of that
  check does not change, so the second store writes what is there.
- `DagRefinesCausalStore`: if `Cutoffs = {}`, `Spec => RefinesCausalStore`. An `Insert`
  is a `Deliver` or a stutter, `InitGenesis` delivers the genesis vertex,
  `SetFinalizedHeight` is `Finalize`, every other step is a stutter.
- `IndexesProved`: if `Cutoffs = {}`, `IndexesAgree` for any number of threads.
  `IndexInv` follows a vertex through the window in which it is stored and not yet
  indexed: it is in the indexes, or some thread is about to link it under the height it
  is stored with.
- `FinalityStickyProved`: `FinalityIsSticky` for any number of threads, with `prune`. A
  finalized vertex is *settled* when no copy of it is buffered and no call that found it
  absent holds one; no step unsettles a vertex the store keeps, because `add_vertex` gives
  up a hash it finds stored.
- `MapsProved`, `NoneLostProved`: `MapsAgree` and `NoneLost`, with `prune`, under
  `Setting(L)`: one caller, `init_genesis` first,
  and a level `L[h]` of every vertex that is the only height its copies declare. The
  hypotheses are the conditions of the run `dag_sequential`; section 7 says what
  happens without each of them (two callers: late tips and lost orphans; vertices before
  the genesis vertex; a drain that ends in an error). A vertex without parents is allowed
  only where nothing is pruned: once pruned it could be stored a second time, below
  children the store has kept. The inductive invariant `CallerInv` speaks of
  the middle of a call: which vertices have passed the tests and are not stored
  (`Inserting`), which are stored and not indexed, which the stack of `process_orphans`
  has claimed. `NoneLost` needs the last: a buffered vertex is registered under a missing
  parent, on the stack, or registered under the parent whose drain is about to begin.

The restriction to `Cutoffs = {}` in the theorems about several threads is needed: with
`prune` a thread may have seen a parent that is gone when it inserts, and the height
check then skips it.

### FinalityProofs

`GadgetInv` is `FinalityIsSound` with: an honest ballot is for a vertex of its voter's DAG
under its real height; a collected vote was signed; the round does not exceed the
finalized height; every proof a node holds is at or below that height, and its votes
were signed.

- `FinalityProved`: `Spec => []FinalityIsSound`. The lemma `HoldStep` is shared by
  `try_finalize` and the second half of `apply_proof`. One proof per height follows from
  the order of heights: a node only takes a proof above what it holds.
- `FinalizedProvedReal`: `FinalizedIsReal` under `ByzMinority`: in no epoch do the faulty
  members hold a supermajority. The statement counts votes left behind by former members
  (`update_validator_set` clears them in a second step).
- `FinalityProvedToAdvance`: `Spec => FinalityAdvances`.

Agreement between nodes is not among them: it is false (`finality_agreement`).

### BftProofs

`BftTypeCorrect`, `CommitsAreLocked`, `RoundsStartEmpty`:
`Spec => []TypeOK`, `[]CommitPhaseIsLocked`, `[]VotesBelongToRound`. The inductive
invariant `RoundInv` is their conjunction with `HandlersHaveVertex`: a handler that
has still to install, vote for or record a vertex knows it. It is needed because
`jobVertex` is read in a critical section after the one that set it.
`CommitPhaseIsLocked` is what makes `VotesBelongToRound` inductive: a commit vote is
stored in the Commit phase only, and the lock of that phase is one of this view.

### NetworkProofs

Stated for `MCNetwork!Spec`, each by a projection to the component's own next-state
relation.

- `PeerTableProved` (`PeerTableIsTrue`): the table's type, no phantom peers and no low
  reputations are inductive together; that live peers stay is a fact about `Evict` and
  `Cleanup`, which take disconnected entries only.
- `OncePerTtlProved` (`OncePerTtl`): a message accepted less than `Ttl` ago is still
  marked (`FreshIsMarked`), because `prune` drops entries by age only.
- `SyncProvedOrderly` (`SyncIsOrderly`): an answer lowers the counter by one at most, so the
  requests on the wire exceed it by the stray answers at most. The answer to a request for
  the vertices since a height has, until its limit, everything below the next height to be
  read that was indexed when the request came (`SinceInv`); parents lie below, hence before.

### ExecutorProofs

`LedgerInv` is `TypeOK`, `SupplyConserved`, `NoReplay`, that no sender has code (so no
execution runs at or deletes the address of a key), what the task and the requests of RPC
hold between their steps (`JobInv`, `SimInv`: the transaction was affordable and next in order
when it was checked, no sender had code), that what they read is within a supply that fits a
U256 (`SupplyInv`, so that no transfer overflows), and that the nonce of a charged or executed
transaction is used up (`NonceInv`), wrapped fees or not.
`SupplyProved`, `NoReplayProved` and `CallsSettledProved` follow the transaction through its
steps: charge, transfer or run, refund, payment of the coinbase. Each is a lemma of the form
*the sum of the balances changes by this amount*, in wrapping arithmetic (`Modulo`, `Products`,
`FeeFacts`).

`GasProvedFair` (`GasIsFair`), under `GasSetting` (a warm read costs at most what a
set or a reset does, the fee starts within its limits and the optional cap is set, to any value): what a slot has cost is its
accesses plus what is outstanding (`CostIsKnown`), and the refund for clearing it is
there while it is clear (`RefundIsThere`). Neither of the properties is inductive
without these two. The bound on the fee is integer division (`Divides`, `DividesPart`).

`RevertProvedToRestore` (`RevertRestores`): undoing the journal down to a mark gives every
cell, unless it was written past the journal, the value it had there (`MarksGive`), and
the marks lie in the order of the journal (`MarksNest`). A commit keeps the entries, so an
outer mark still reaches them; a revert of an inner mark cuts off what no outer mark
needs. What the loop of `revert_to` computes is an induction over the entries.

`RevertProvedToUndo` (`RevertUndoesApply`): the checkpoints in effect are stacked
(`CpStacked`): the state above each of them agrees with what its changes make of the state it
was recorded on, in balance and nonce always, in code and storage unless a deletion was
reverted. Reverting is shown to undo each kind of change, then a list of them.
`CheckpointsProvedLinked` (`CheckpointsAreLinked`): parents have smaller numbers, pruning
goes as far as a finalized checkpoint or not at all, and a vertex with a checkpoint and
without an entry in the vertex map had an older checkpoint that is gone.

`PrecompilesProvedExact` (`PrecompilesAreExact`), under `PrecompileSetting` (lengths and limits
are natural numbers, data are bytes): a state is before the call, or holds a call and what
`Run` or `Modexp` makes of it; the rest is arithmetic. A slice that is continued with zeros
is the sum of its bytes times powers of 256 (`DigitsSum`), the residues that `modpow` goes
through are those of the powers (`ModTimes`, `ModPowIs`), a number below 256^n is the number
its n bytes make (`BytesBack`, by `DivDiv`), and the complexity of a multiplication grows also
from 64 to 65 and from 1024 to 1025 (`ComplexityGrows`).

### StakingProofs

`StakeInv` has eight parts; besides types: the locals of a call fit the step it is at
(`JobsFit`), numbers in the queue are those handed out (`QueueFits`), an address that
never registered has nothing (`UnknownIsEmpty`), stake covers what was delegated and is
not yet taken out, calls between their locks included (`StakeCovers`), the total is the
sum (`TotalIsSum`), deposits cover what is delegated, in a call, queued or released
(`DepositsCover`), pools and rewards (`PoolsCovered`). `StakeAccountedProved`,
`NoGainProved` and `UnbondingProved` hold for any number of threads: a call between two
of its locks is accounted for by its locals, so steps of different threads only meet in
the maps.

### ServiceProofs

- `ChainProvedLinked` (`ChainIsLinked`): a logger that may write has written nothing, or the
  file ends with its last line and a newline, or, within a call, with the text it has just
  written (`LogContinues`); one that tore a line is poisoned.
- `PendingProvedFunded` (`PendingIsFunded`), under `BridgeSetting` (finitely many ids,
  amounts not negative): the sum of what is open is at most the escrow.
- `SpendsProvedSound` (`SpendsAreSound`), under `ZkSetting` (31 bytes fit in the field, and
  the sum of two u64 does; witnesses are any elements of the field): per nullifier
  (`NullifierSafe`), marks of clients that mark first are exclusive, so a rollback never frees a
  nullifier that somebody applied, and a nullifier that was never in two hands has one user;
  the equation of the circuit holds in the field, and as integers for values in range, because
  neither side then reaches the size of the field.

- `PoolRootProved` (`PoolRootIsTree`), under `PoolSetting` (the deposits fit in the tree): beside
  the root, `filled` holds the left sibling wherever the path of the next leaf turns right
  (`LeftIsKept`). One deposit changes one node per level.
- `AccumulatorProved` (`AccumulatorIsTree`), under `TreeSetting` (the array has the size of its
  depth): every inner node of the array is the hash of its two children and the last level
  holds the leaves; `update_tree` breaks and mends this on one path. The proof of a leaf follows
  that path.
- `EpochsProvedRecorded` (`EpochsAreRecorded`), under `RegistrySetting` (stakes fit their width,
  a slash takes at most the whole): each change keeps `SummedUp` unless it is one of the two
  that skew the total, and so does any prefix of a list of changes (`ChangesLead`), which is
  what a refused epoch applies.
- `BooksProvedToAgree` (`BooksAgree`), under `StakingSetting` (finitely many stakers): the list has
  no duplicates and holds exactly the active validators, delegations add up, the total is at
  most what the entries hold. The withdrawal loop, which removes by swapping with the last
  entry, has an invariant of its own (`ScanAt`).
- `SelectionProvedToHold` (`SelectionHolds`), under `SelectionSetting` (a finite DAG without cycles,
  1 <= min <= max parents): picks and their number through a draw and a walk (`DrawsCount`,
  `WalksCount`), a tip has no child but those still being inserted unless it was overtaken
  (`TipsFollow`), so no tip of a snapshot is above another however the DAG grows
  (`TipsApart`), there is a tip when no insertion is under way (`TipsThere`), each step of a walk
  climbs (`WalksClimb`), hence it ends at a leaf.
- `MetricsProvedTrue` (`MetricsAreTrue`), under `MetricSetting` (finitely many latencies): the
  window is accounted for by the totals and by what records in progress have still to add,
  except while a reset has cleared one and not the other. A list has a sorted permutation
  (`SortExists`), so percentiles are samples in order.
- `GenesisProvedToRoundTrip` (`GenesisRoundTrips`), under `GenesisSetting` (a minimal stake with
  delegations fits the width): a code is stored under its hash (`CodesHashed`), an active
  validator holds the minimum unless it registered again (`StakesKept`); then by induction over
  the entries of the file.
- `WireProvedFaithful` (`WireIsFaithful`), under `IsoSetting` (fields 2 to 128, values are
  sequences of numbers): bitmaps announce exactly the fields that are set (`IsoMessage`); the
  bytes grow by one encoded field after the other, and the parser, run on any prefix of
  them, follows the serializer until the bytes run out.
- `DecisionsProvedToStand` (`DecisionsStand`), under `RouteSetting` (priorities are numbers): rules
  lie in the order of their priorities, which gives a new one its place; a rule in front of
  that place still decides, one behind it is less urgent. What a condition says does not matter.

### Sums

The provers cannot use the library's induction theorems, whose predicate is a
parameter. `NatSetInduction` and `SubsetInduction` state induction over the *set* of good
values and are proved from the existence of minimal elements (`WFMin`); the lemmas about
`SumFunction` (one value changes, two functions are added or compared, zeros left out)
rest on them.

### Only model-checked

- `CatchesUp`, `EveryCallReturns`, `LoopProgresses`: liveness, which needs fairness and
  ENABLED; the refinement and the index property with pruning and several threads.
- `TrieIsFaithful`: nodes of a trie are nested to any depth, so its operations are recursive
  operators, which the prover does not support; the two-level statement (shape and contents)
  would need an induction over the nodes.

## 7. Known departures

Seen while modelling; each is a behaviour of the code a maintainer may want to know
of. The models contain it where they cover the code; no
property states its absence, except for the three violation runs.

*Consensus*

- `dag.rs:175-187`: between the store and the tip update of a vertex, another thread
  can insert and link its child; the late tip update then adds a vertex that has a
  child. `TipsAreLeaves` is therefore checked with one thread.
- `dag.rs:176`: of two overlapping `add_vertex` calls for one vertex, or of a call and a
  drain that holds a buffered copy, the second inserts it again and writes Confirmed over
  Finalized. `FinalityIsSticky` says that nothing else undoes finality.
- `dag.rs:217`: an orphan that fails the height check ends the drain with an error;
  the other orphans claimed with it are no longer registered anywhere.
- `dag.rs:105`: `init_genesis` does not call `process_orphans`; children of the
  genesis vertex that came first stay buffered.
- `dag.rs:244-248`: parents that are missing on arrival are never compared with the
  timestamp of the vertex.
- `dag.rs:421-434`: `prune` removes by height, Confirmed vertices included, while its
  comment speaks of finalized ones; a pruned hash can stay among the tips.
- `dag.rs:306`, `finality.rs:457`: `apply_proof` tells the DAG what is final,
  `add_vote` does not. `DagNeverAhead` is the half of the relation that holds.
- `finality.rs:420-422`: between the two writes of `update_validator_set`, votes cast
  in the old epoch count in the new one.
- `finality.rs:275-276`, `420`, `441-450`: `add_vote`, `apply_proof` and
  `update_validator_set` can wait for each other in a cycle; `finality.rs:400-402` with
  `364` reads a lock it already reads. `locks_compatible` leaves the epoch change and
  `create_vote` out for this reason.
- `bft.rs:308`: a proposal is installed in whatever round is current when the lock is
  taken again, also after a view change; the lock on a vertex is not consulted.
- `bft.rs:322`, `350`: `on_proposal` asks for the write lock while its read guard lives.
- `bft.rs:487`, `571`: the votes a certificate is made of are cleared when the round
  ends.
- `bft.rs:523-528`: repeated requests of one validator add up to a view change.
- `dag.rs:130-139`: a parent that is inserted between the test for missing parents and
  the registration under them never wakes the orphan, against the comment at
  `dag.rs:69`. `NoneLost` and `CatchesUp` are therefore checked with one caller.
- `dag.rs:431`: a vertex that another thread has stored but not yet put into the height
  index escapes `prune` and is indexed afterwards.
- `bft.rs:475`: commits for different vertices are added up, against the comment at
  `bft.rs:167`.
- `mempool.rs:48`: `add` takes `by_hash` and then `pending`, `drain_batch` takes them in
  the other order; the two can deadlock. The task that adds gossiped transactions is then
  blocked too, and once its channel is full the swarm loop waits at `gossip.rs:132` for ever
  and never sees a shutdown.
- `hybrid_consensus.rs:46`: `elect_leader` reads the stakes in two passes over a
  concurrent map.
- `tip_selection.rs:296`: with fewer tips than `min_parents` the filling loop never
  ends; when the DAG grows during an MCMC selection, a later walk may pick a descendant
  of an earlier pick. `83` with `dag.rs:183-187`: a snapshot taken while the parents of a new
  vertex have left the tips and the vertex has not joined them can be empty, which gives no
  parents and height 0; one with a late tip can hold a vertex and its descendant.
- `metrics.rs`: the averages are over all time although the documentation calls them
  rolling.
- `validator.rs:281`: a refused `Join` ends `advance_epoch`; the changes behind it are
  lost. `98`, `294`: a second `Join` and a decrease by more than the stake make the total
  differ from the sum; `106` can then underflow.
- `iso_logger.rs:26`: a restart begins again at number 1 and at the hash "0", although
  `iso_logger.rs:7-8` calls the number monotonically increasing and the hash a link to the
  previous entry; `62`: the line and its newline are separate writes, so a failed or killed
  one leaves a torn line to which the next process appends; the failure panics and poisons
  the mutex.
- `pos.rs:244-246`: when the first delegation to a validator is used up, the others to
  the same validator are removed with it; their amounts stay in the stake for ever.
- `pos.rs:241`: `undelegate` subtracts an amount from a number of shares;
  `pos.rs:332-352`: `claim_rewards` deducts nothing, a second claim pays again.
- `pos.rs:271-283`: of two overlapping `end_epoch` calls the older one may write the
  validator set's epoch last.
- `validator.rs:98`: registering an address again counts its stake twice in
  `total_stake`. A validator listed in the genesis file does so when it starts
  (`node.rs`, `start_validator`).
- `node.rs:280`: the sender of the proposer's shutdown channel is dropped when
  `start_validator` returns, which ends the proposer's loop; nothing in the node calls
  `init_genesis`.

*Ledger*

- `executor.rs:576`: simulated calls move value (`evm_dry_run`).
- `executor.rs:289-298`, `367`: a failed precompile call keeps the value, a failed
  creation leaves the account and its init code.
- `executor.rs:209`: a creation can use more than its limit; the refund then wraps.
  `121`, `210`, `214`: products of gas and price lose what does not fit a U256
  (`types.rs:159-177`), so that with a huge price an unaffordable transaction passes the
  balance test and its refund creates tokens.
- `eth.rs:174`, `215` with `state.rs:94-98`: the executors of `eth_call` and
  `eth_estimateGas` store whole accounts beside the execution task; one that read an account
  before a transaction and stores it after puts balance and nonce back, and the transaction
  can be executed again. `SupplyConserved` and `NoReplay` hold until an executor has done so.
  `215`: a legacy price below the base fee panics and ends the execution task.
  `revm_db.rs:130`: REVM raises the nonce once more.
- `state.rs:95`: balance changes are a read and a write without a lock; concurrent ones
  are lost. `215`: the root depends on the iteration order of a `DashMap`. `311`: the
  comment says the entries of a committed checkpoint are discarded; they are kept.
- `precompiles.rs:189`: a short MODEXP header costs 200 whatever the limit; `238`: an
  operand that starts behind the data panics; `245`: products of lengths wrap; `81`:
  `is_precompile` claims addresses that have no function.
- `checkpoint.rs:165`: pruning a checkpoint removes the vertex-map entry of its vertex, also
  when the entry leads to a newer checkpoint of the same vertex.
- `checkpoint.rs:139`: two concurrent calls of `finalize` can move it back; reverting a
  deletion loses code and storage.
- `trie.rs:336`: deletion below an extension does nothing; the proof of an empty trie
  never verifies; `verify_proof` (`405`) checks neither the value nor the inner nodes; an
  extension split panics for keys of different length. `storage.rs:178`: `commit` does
  not remove deleted accounts.

*Network*

- `peer.rs:94`: a banned peer that connects again is admitted; `service.rs:271`: one of
  several connections closing marks the peer disconnected. The limits of the table and
  of the cache are exceeded when everything in them is live.
- `gossip.rs:132`: a full channel (see `mempool.rs:48` above for one that stays full) stalls the swarm loop; a message is marked as seen
  before it is sent.
- `sync.rs:145`, `157`: a lost answer occupies its slot for ever; an answer to
  `GetVerticesSince`, or any error, lowers the counter although its request never raised it, so
  that more than `max_concurrent` requests can be out; hashes taken off the queue are
  not asked for again; `105`: the limit of an answer can leave out siblings; `100`: the heights
  are read one by one, so a vertex can be in an answer without a parent that was indexed after
  its height was read. `latest_height` may be lower than a stored vertex that is not indexed
  yet. `Sync` does not prune.
- `node.rs:160`: the peer count of RPC is the one at the start.

*Services and contracts*

- `prover.rs:291`: `prove_all` empties the queue before it proves; a missing key loses
  the rest. `circuits.rs:158`: the range proof is a comment, so a proof that verifies conserves
  value only in the field; the nullifier's secret is bound to nothing. `verifier.rs:219`: two
  clients that mark a nullifier after their transaction, as the comment says, and overlap both
  apply it. `commitment.rs`: past its capacity the tree overwrites; `278`: `verify` does
  not compare with its own root.
- `message_router.rs:133`: an amount with decimals is not parsed, so amount rules do not
  apply; only the first transaction of a message is looked at.
- `iso8583.rs:443`: field 65 is written and not read; fixed fields are cut or padded.
  `82`: `set_element` takes any number: 0 and those above 128 shift out of the bitmap, and
  field 1 reads back as the announcement of a second bitmap. The model sets fields 2 to 128.
- `genesis.rs:244`: storage is not exported, and delegations come back as stake of the
  validator; `231`: an account with nothing but a nonce is exported, although the comment at
  `200` limits the export to balance and code; `170`: a validator that registered again over
  its delegations can fall below the minimum, and the import stops there; `168`: stakes
  are cut to 64 bits.
- `NexusStaking.sol:106`, `158`: a leaving validator takes the delegations with it while
  the delegators can still undelegate; `228`: commissions are missing from the total.
  `NexusPrivacyPool.sol:122`: only the current root is accepted, the capacity is not
  checked. `Iso20022Bridge.sol:116`: the same id replaces an earlier payment; `189`: a
  report can reopen a settled one; the bridge asks precompile 0x0101 to parse, which is
  `zkp_batch_verify`.

## 8. Plan

Done: the modules of section 2, and the proofs of section 6. Left, in order of
importance:

1. `TrieIsFaithful` over tries of bounded depth, as recursive functions on the length of
   the rest of a key, which would bring it within reach of `NatSetInduction`.
2. Several BFT engines that exchange their messages, with timeouts, over one DAG each:
   agreement and progress of the composition.
3. `TxPipeline` with a rotating leader and a failing `bft.propose`.
4. An abstract ledger of stake that `Staking`, `Registry` and `StakingContract`
   implement.
5. Notes and the compliance circuits of `nexus-zkp`; shares and `claim_rewards` of
   `pos.rs`.

## 9. What is not modelled

- Transport (libp2p), hashing, signatures, curve arithmetic, the EVM's opcodes (revm)
  and Groth16: external, their results are choices or opaque values.
- ISO 20022 XML, currencies, BIC, LEI, IBAN and card-number formats, JSON-RPC decoding,
  configuration and the command line: conversions of text without state.
- `primitives`: byte encodings and value types; the models use the values.
- Leader selection (`select_leader`, `elect_leader`): a hash or a random draw.
- `claim_rewards` and shares, notes, Poseidon, the compliance and Merkle circuits:
  see the plan.
- Wall-clock time: timeouts are steps that may happen at any time.

PROJECT.json lists every component with its status and the reason.
