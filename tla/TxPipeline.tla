----------------------------- MODULE TxPipeline -----------------------------
(***************************************************************************)
(* The way of a transaction through a validator node: the RPC mempool      *)
(* (nexus-rpc/src/mempool.rs), the bridge task (nexus-node/src/node.rs),   *)
(* the transaction pool and the proposer (nexus-consensus/src/proposer.rs), *)
(* and the execution task.                                                 *)
(*                                                                         *)
(* The three tasks run concurrently and meet in the two queues and the     *)
(* vertex channel.  The node is the only validator, hence always leader.   *)
(***************************************************************************)
EXTENDS Integers, SequencesExt

CONSTANTS
    Tx,
    NoIsoData,     \* ISO payments that carry no iso_data
    HasTips,       \* init_genesis was called before the proposer runs
    MempoolSize,
    BatchSize,     \* the bridge's drain_batch limit
    PoolSize,
    MaxTxs,        \* max_txs_per_vertex
    ChannelSize,
    NoProposal

VARIABLES
    mempool,     \* Mempool: by_hash holds the same transactions
    batch,       \* what the bridge has drained and not handed over yet
    pool,        \* TransactionPool
    proposal,    \* the ProposedVertex between create_proposal and submit_proposal
    included,    \* transactions of vertices that entered the DAG
    channel,     \* the vertex channel: the transactions of each proposal
    executed     \* transactions given to execute_tx

vars == <<mempool, batch, pool, proposal, included, channel, executed>>

First(n, s) == SubSeq(s, 1, IF Len(s) < n THEN Len(s) ELSE n)

Init ==
    /\ mempool = << >>
    /\ batch = << >>
    /\ pool = << >>
    /\ proposal = NoProposal
    /\ included = {}
    /\ channel = << >>
    /\ executed = {}

\* eth_sendRawTransaction: a full mempool and a duplicate are refused.
SendRawTransaction(x) ==
    /\ x \notin ToSet(mempool)
    /\ Len(mempool) < MempoolSize
    /\ mempool' = Append(mempool, x)
    /\ UNCHANGED <<batch, pool, proposal, included, channel, executed>>

\* The bridge task drains the mempool ...
DrainBatch ==
    /\ batch = << >>
    /\ mempool # << >>
    /\ batch' = First(BatchSize, mempool)
    /\ mempool' = SubSeq(mempool, Len(batch') + 1, Len(mempool))
    /\ UNCHANGED <<pool, proposal, included, channel, executed>>

\* ... and adds each transaction to the pool; the result of add is ignored.
BridgeAdd ==
    /\ batch # << >>
    /\ batch' = Tail(batch)
    /\ pool' = IF Len(pool) < PoolSize /\ Head(batch) \notin ToSet(pool)
               THEN Append(pool, Head(batch)) ELSE pool
    /\ UNCHANGED <<mempool, proposal, included, channel, executed>>

\* Vertex::new: the Merkle root covers the hashes it is given, but the list of
\* transactions stays empty.  The root stands for the sequence it is made of.
NewVertex(txs) == [transactions |-> << >>, txRoot |-> txs]

\* verify_structure, as far as the transactions are concerned
VerifyStructure(vertex) == vertex.txRoot = vertex.transactions

\* should_propose and create_proposal
CreateProposal ==
    /\ proposal = NoProposal
    /\ pool # << >>
    /\ HasTips
    /\ LET txs == First(MaxTxs, pool)
       IN /\ ToSet(txs) \cap NoIsoData = {}
          /\ proposal' = [vertex |-> NewVertex(txs), transactions |-> txs]
    /\ UNCHANGED <<mempool, batch, pool, included, channel, executed>>

\* submit_proposal: add_vertex refuses the vertex, the pool keeps everything.
SubmitRefused ==
    /\ proposal # NoProposal
    /\ ~VerifyStructure(proposal.vertex)
    /\ proposal' = NoProposal
    /\ UNCHANGED <<mempool, batch, pool, included, channel, executed>>

\* submit_proposal: the vertex enters the DAG, bft.propose succeeds, the pool is
\* cleaned and the proposal sent, waiting for room in the channel.
SubmitProposal ==
    /\ proposal # NoProposal
    /\ VerifyStructure(proposal.vertex)
    /\ Len(channel) < ChannelSize
    /\ included' = included \cup ToSet(proposal.transactions)
    /\ pool' = SelectSeq(pool, LAMBDA x : x \notin ToSet(proposal.transactions))
    /\ channel' = Append(channel, proposal.transactions)
    /\ proposal' = NoProposal
    /\ UNCHANGED <<mempool, batch, executed>>

\* The execution task
Execute ==
    /\ channel # << >>
    /\ executed' = executed \cup ToSet(Head(channel))
    /\ channel' = Tail(channel)
    /\ UNCHANGED <<mempool, batch, pool, proposal, included>>

Bridge == DrainBatch \/ BridgeAdd
Proposer == CreateProposal \/ SubmitRefused \/ SubmitProposal
Next ==
    \/ \E x \in Tx : SendRawTransaction(x)
    \/ Bridge
    \/ Proposer
    \/ Execute

\* The three tasks are driven by tokio's timers and wakers.
Spec == Init /\ [][Next]_vars /\ WF_vars(Bridge) /\ WF_vars(Proposer) /\ WF_vars(Execute)

-----------------------------------------------------------------------------
\* "bridged into tx_pool so the proposer can include them in vertices": what is
\* in the pool is included in a vertex at last.
PooledIsIncluded == \A x \in Tx : (x \in ToSet(pool)) ~> (x \in included)
=============================================================================
