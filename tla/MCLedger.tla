------------------------------ MODULE MCLedger ------------------------------
(***************************************************************************)
(* The state layer: transaction execution, the journal below it, the gas   *)
(* rules, the checkpoints and the trie of nexus-state.  The code joins     *)
(* them by calls only, each over a store of its own, so a behaviour runs   *)
(* one of them.                                                            *)
(***************************************************************************)
EXTENDS MCExecutor, Gas, Journal, Checkpoints, Precompiles

CONSTANTS
    Nibble, TrieValue, MaxOps

VARIABLES
    part,
    root, accounts, stored, gone, ops

SetField(f, v) == [kind |-> "set", field |-> f, new |-> v]

\* An account is created with a code; one is spent and topped up around a
\* storage write; a code is removed; an account is deleted and made again.
Executions == {
    << [kind |-> "created"], SetField("balance", 1), SetField("code", 1) >>,
    << SetField("balance", 0), SetField("slot", 1), SetField("balance", 1) >>,
    << SetField("nonce", 1), SetField("code", 0) >>,
    << [kind |-> "deleted"], [kind |-> "created"] >>}

\* b extends a; c extends b and a.
ParentLists == [v \in CpVertex |-> CASE v = "a" -> << >> [] v = "b" -> <<"a">> [] v = "c" -> <<"b", "a">>]

\* Keys that share two nibbles, one and none
Key == {<<0, 0, 0>>, <<0, 0, 1>>, <<0, 1, 0>>, <<1, 0, 0>>}

T == INSTANCE Trie

\* Operands that are shorter than announced, and the boundaries of the price of
\* MODEXP
OperandLens == ((0..2) \X (0..1) \X (0..2))
                  \cup {<<64, 1, 0>>, <<64, 1, 64>>, <<2, 33, 64>>, <<1024, 32, 8>>, <<8, 64, 1024>>}
OperandData == UNION {[1..n -> {0, 1, 3}] : n \in 0..4}

executorVars == <<acct, store, alive, job, sim, receipt, done, burned, wrapped, raced, calls, runs>>
trieVars == <<root, accounts, stored, gone, ops>>

LedgerInit ==
    /\ part \in {"executor", "journal", "gas", "checkpoints", "trie", "precompiles"}
    /\ Init /\ JournalInit /\ GasInit /\ CheckpointInit /\ T!Init /\ PrecompileInit

LedgerNext ==
    /\ UNCHANGED part
    /\ \/ /\ part = "executor" /\ Next
          /\ UNCHANGED <<journalVars, gasVars, cpVars, trieVars, precompileVars>>
       \/ /\ part = "journal" /\ JournalNext
          /\ UNCHANGED <<executorVars, gasVars, cpVars, trieVars, precompileVars>>
       \/ /\ part = "gas" /\ GasNext
          /\ UNCHANGED <<executorVars, journalVars, cpVars, trieVars, precompileVars>>
       \/ /\ part = "checkpoints" /\ CheckpointNext
          /\ UNCHANGED <<executorVars, journalVars, gasVars, trieVars, precompileVars>>
       \/ /\ part = "trie" /\ T!Next
          /\ UNCHANGED <<executorVars, journalVars, gasVars, cpVars, precompileVars>>
       \/ /\ part = "precompiles" /\ PrecompileNext
          /\ UNCHANGED <<executorVars, journalVars, gasVars, cpVars, trieVars>>

LedgerSpec ==
    LedgerInit /\ [][LedgerNext]_<<part, executorVars, journalVars, gasVars, cpVars, trieVars,
                               precompileVars>>

-----------------------------------------------------------------------------
(* Properties *)

\* Trie.TrieIsFaithful: the root is a function of the contents, keys read back
\* as written, proofs verify.
TrieIsFaithful == part = "trie" => T!TrieIsFaithful
=============================================================================
