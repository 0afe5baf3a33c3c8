------------------------------ MODULE Services ------------------------------
(***************************************************************************)
(* Services that keep a record others rely on: the audit log, the          *)
(* nullifiers and the commitment tree of shielded transactions, the escrow *)
(* of the payment bridge, the tree of the privacy pool, the validator      *)
(* registry, the books of the staking contract, the selection of tips, the *)
(* metrics, the state that genesis files carry, ISO 8583 messages and the  *)
(* routing of payments.  They share nothing.                               *)
(***************************************************************************)

CONSTANTS
    LogText, MaxPieces, MaxStarts,
    Field, ZkRange, Cut, ZkRequest, Client, ProvingKeys, VerifyingKey, MaxPending, MaxUses,
    Participant, MessageId, Amount, MaxMessages,
    Depositor, PoolCommitment, PoolNullifier, Denomination, PoolDepth, MaxDeposits,
    Commitment, TreeDepth, MaxLeaves,
    Address, Stake, MinStake, Width, Percents, Rates, MaxAdvances, MaxChanges,
    Staker, Value, ScMinStake, MaxCommission, UnbondingPeriod, RewardDivisor, Commission, MaxTxs, MaxTime,
    TsVertex, TsParents, TsGenesis, MaxParents, Inserters, Limits, Depths,
    TxCount, Latency, WindowSize, MaxHistory, MaxRecords,
    GsAddress, Code, GsMinStake, GsWidth, MaxAmount,
    IsoField, IsoValue, FixedLen, LlMax, LllMax, MaxFields,
    Condition, Rule, Default, Transfer, Card, Sanctioned, HighRisk, EddThreshold, MaxRules

VARIABLES
    logFile, logSeq, prevHash, poisoned, line, inFile, starts,
    zkKeys, zkPending, zkProofs, spent, zkPc, applied, late, overlapped,
    payments, authorized, escrow, oracle, reopened, messages,
    filled, poolRoot, inserted, nullified, compliance, funds,
    leaves, tree,
    current, changes, historical, advances, skewed,
    members, validatorSet, totalStake, unbondings, balance, now, txs,
    tsDag, tipSet, opening, toUnlink, overtaken, tsPc, strategy, depth, limits, tips, weights, at, steps, todo,
    picked, calm, still,
    acc, window, lat, recording, resetting, history,
    accounts, code, slots, staked, delegated, replaced,
    iso,
    rules, defaults

L == INSTANCE AuditLog
Z == INSTANCE Shielded
B == INSTANCE PaymentBridge
P == INSTANCE PoolContract
A == INSTANCE Accumulator
G == INSTANCE Registry
S == INSTANCE StakingContract
V == INSTANCE TipSelection
M == INSTANCE Metrics
E == INSTANCE Genesis
I == INSTANCE Iso8583
R == INSTANCE Router

logVars == <<logFile, logSeq, prevHash, poisoned, line, inFile, starts>>
zkVars == <<zkKeys, zkPending, zkProofs, spent, zkPc, applied, late, overlapped>>
bridgeVars == <<payments, authorized, escrow, oracle, reopened, messages>>
poolVars == <<filled, poolRoot, inserted, nullified, compliance, funds>>
treeVars == <<leaves, tree>>
registryVars == <<current, changes, historical, advances, skewed>>
stakingVars == <<members, validatorSet, totalStake, unbondings, balance, now, txs>>
tipVars == <<tsDag, tipSet, opening, toUnlink, overtaken, tsPc, strategy, depth, limits, tips, weights, at, steps,
             todo, picked, calm, still>>
metricVars == <<acc, window, lat, recording, resetting, history>>
genesisVars == <<accounts, code, slots, staked, delegated, replaced>>
routeVars == <<rules, defaults>>

LogSpec == L!Init /\ [][L!Next]_logVars
ZkSpec == Z!Init /\ [][Z!Next]_zkVars
BridgeSpec == B!Init /\ [][B!Next]_bridgeVars
PoolSpec == P!Init /\ [][P!Next]_poolVars
TreeSpec == A!Init /\ [][A!Next]_treeVars
RegistrySpec == G!Init /\ [][G!Next]_registryVars
StakingSpec == S!Init /\ [][S!Next]_stakingVars
TipSpec == V!Init /\ [][V!Next]_tipVars
MetricSpec == M!Init /\ [][M!Next]_metricVars
GenesisSpec == E!Init /\ [][E!Next]_genesisVars
IsoSpec == I!Init /\ [][I!Next]_iso
RouteSpec == R!Init /\ [][R!Next]_routeVars

-----------------------------------------------------------------------------
(* Properties *)

\* AuditLog.ChainIsLinked: the entries of a process form one hash chain, whatever
\* writes were torn.
ChainIsLinked == L!ChainIsLinked

\* Shielded.SpendsAreSound: one transaction per nullifier, however clients race
\* that mark first, and proofs that verify conserve value.
SpendsAreSound == Z!SpendsAreSound

\* PaymentBridge.PendingIsFunded: the contract can pay what is pending.
PendingIsFunded == B!PendingIsFunded

\* PoolContract.PoolRootIsTree: the root is that of the tree of all deposits.
PoolRootIsTree == P!PoolRootIsTree

\* Accumulator.AccumulatorIsTree: the root is the Merkle root of all leaves and
\* their proofs verify.
AccumulatorIsTree == A!AccumulatorIsTree

\* Registry.EpochsAreRecorded: the total is the sum of the stakes, and every
\* past epoch keeps its set.
EpochsAreRecorded == G!EpochsAreRecorded

\* StakingContract.BooksAgree: the validator list, the delegations and the total
\* agree, and exactly the entries that are due leave.
BooksAgree == S!BooksAgree

\* TipSelection.SelectionHolds: selections are valid, large enough, above their
\* parents, and walks end at tips.
SelectionHolds == V!SelectionHolds

\* Metrics.MetricsAreTrue: windows, averages and percentiles match the records.
MetricsAreTrue == M!MetricsAreTrue

\* Genesis.GenesisRoundTrips: an export can be imported and restores the state.
GenesisRoundTrips == E!GenesisRoundTrips

\* Iso8583.WireIsFaithful: a message parses back; a truncated one is refused.
WireIsFaithful == I!WireIsFaithful

\* Router.DecisionsStand: only a more urgent rule changes a route, and nothing
\* lifts or adds a ban.
DecisionsStand == R!DecisionsStand
=============================================================================
