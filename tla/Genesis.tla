------------------------------ MODULE Genesis ------------------------------
(***************************************************************************)
(* apply_genesis and export_genesis of nexus-node.  The state of a running *)
(* node changes; exporting it and applying the file to a fresh node is     *)
(* compared with it.  Numbers survive the conversion to decimal text, a    *)
(* stake is then cut to Width.                                             *)
(***************************************************************************)
EXTENDS Integers, Sequences, SequencesExt, FiniteSets, Functions

CONSTANTS
    GsAddress, Code,     \* Code includes the empty code << >>
    GsMinStake, GsWidth,
    MaxAmount            \* bound on balances and nonces

VARIABLES
    accounts,     \* address -> balance, nonce, hash (of the code, "zero" if never set)
    code,         \* hash -> code
    slots,        \* address -> storage
    staked,       \* validator -> stake
    delegated,    \* validator -> what its delegators can take back
    replaced      \* history: a validator with delegations registered again

Put(f, k, v) == [x \in DOMAIN f \cup {k} |-> IF x = k THEN v ELSE f[x]]

ZeroHash == <<"zero">>
HashOf(c) == <<"keccak", c>>
EmptyAccount == [balance |-> 0, nonce |-> 0, hash |-> ZeroHash]
IsEmpty(a) == a = EmptyAccount
AccountAt(as, a) == IF a \in DOMAIN as THEN as[a] ELSE EmptyAccount
CodeAt(as, cs, a) ==
    LET h == AccountAt(as, a).hash IN IF h \in DOMAIN cs THEN cs[h] ELSE << >>

Fresh == [accounts |-> << >>, code |-> << >>, staked |-> << >>, ok |-> TRUE]

\* Mutant: the account is stored after its code.
ApplyAccountLast(n, e) ==
    [n EXCEPT !.accounts = Put(@, e.who, [balance |-> e.balance, nonce |-> e.nonce, hash |-> ZeroHash]),
              !.code = IF e.code = << >> THEN @ ELSE Put(@, HashOf(e.code[1]), e.code[1])]

\* set_account, then set_code if the entry has one.
ApplyAccount(n, e) ==
    LET account == [balance |-> e.balance, nonce |-> e.nonce,
                    hash |-> IF e.code = << >> THEN ZeroHash ELSE HashOf(e.code[1])]
    IN [n EXCEPT !.accounts = Put(@, e.who, account),
                 !.code = IF e.code = << >> THEN @ ELSE Put(@, HashOf(e.code[1]), e.code[1])]

\* register_validator refuses a stake below the minimum; that ends the import
\* with everything before it in place.
ApplyValidator(n, e) ==
    IF ~n.ok THEN n
    ELSE IF e.stake % GsWidth < GsMinStake THEN [n EXCEPT !.ok = FALSE]
    ELSE [n EXCEPT !.staked = Put(@, e.who, e.stake % GsWidth)]

ApplyGenesis(config) ==
    LET es == config.accounts
        vs == config.validators
        stored[i \in 0..Len(es)] == IF i = 0 THEN Fresh ELSE ApplyAccount(stored[i - 1], es[i])
        registered[i \in 0..Len(vs)] ==
            IF i = 0 THEN stored[Len(es)] ELSE ApplyValidator(registered[i - 1], vs[i])
    IN registered[Len(vs)]

\* is_empty also looks at the nonce, so an account with neither balance nor
\* code is exported for its nonce, although the comment of export_genesis
\* (genesis.rs:200) names balance and code alone.
Exported == {a \in DOMAIN accounts : ~IsEmpty(accounts[a])}

Eligible == {v \in DOMAIN staked : staked[v] > 0}

AccountEntry(a) ==
    [who |-> a, balance |-> accounts[a].balance, nonce |-> accounts[a].nonce,
     code |-> IF CodeAt(accounts, code, a) = << >> THEN << >> ELSE <<CodeAt(accounts, code, a)>>]
ValidatorEntry(v) == [who |-> v, stake |-> staked[v]]

\* Empty code and all storage are left out, and so are delegations and
\* validators without stake.  The maps are read in any order.
ExportGenesis ==
    LET es == SetToSeq(Exported)
        vs == SetToSeq(Eligible)
    IN [accounts |-> [i \in DOMAIN es |-> AccountEntry(es[i])],
        validators |-> [i \in DOMAIN vs |-> ValidatorEntry(vs[i])]]

Init ==
    /\ accounts = << >> /\ code = << >> /\ slots = << >>
    /\ staked = << >> /\ delegated = [v \in GsAddress |-> 0] /\ replaced = FALSE

stakes == <<staked, delegated, replaced>>
Store(a, account) == accounts' = Put(accounts, a, account)

\* The node runs: transactions, deployments, storage, deleted accounts, staking.
Credit == \E a \in GsAddress :
    /\ AccountAt(accounts, a).balance < MaxAmount
    /\ Store(a, [AccountAt(accounts, a) EXCEPT !.balance = @ + 1])
    /\ UNCHANGED <<code, slots, stakes>>
Spend == \E a \in DOMAIN accounts :
    /\ accounts[a].balance > 0 /\ accounts[a].nonce < MaxAmount
    /\ Store(a, [accounts[a] EXCEPT !.balance = @ - 1, !.nonce = @ + 1])
    /\ UNCHANGED <<code, slots, stakes>>
Deploy == \E a \in GsAddress, c \in Code :
    /\ code' = Put(code, HashOf(c), c)
    /\ Store(a, [AccountAt(accounts, a) EXCEPT !.hash = HashOf(c)])
    /\ UNCHANGED <<slots, stakes>>
Write == \E a \in DOMAIN accounts :
    slots' = Put(slots, a, 1) /\ UNCHANGED <<accounts, code, stakes>>
Delete == \E a \in DOMAIN accounts :
    /\ accounts' = Restrict(accounts, DOMAIN accounts \ {a})
    /\ slots' = Restrict(slots, DOMAIN slots \ {a})
    /\ UNCHANGED <<code, stakes>>

\* A second registration replaces the stake; the delegations stay.
Register == \E v \in GsAddress :
    /\ staked' = Put(staked, v, GsMinStake)
    /\ replaced' = (replaced \/ delegated[v] > 0)
    /\ UNCHANGED <<accounts, code, slots, delegated>>
Delegate == \E v \in Eligible :
    /\ delegated[v] < MaxAmount
    /\ delegated' = [delegated EXCEPT ![v] = @ + 1]
    /\ staked' = [staked EXCEPT ![v] = @ + 1]
    /\ UNCHANGED <<accounts, code, slots, replaced>>
Undelegate == \E v \in GsAddress :
    /\ delegated[v] > 0
    /\ delegated' = [delegated EXCEPT ![v] = @ - 1]
    /\ staked' = [staked EXCEPT ![v] = IF @ = 0 THEN 0 ELSE @ - 1]
    /\ UNCHANGED <<accounts, code, slots, replaced>>

Next == Credit \/ Spend \/ Deploy \/ Write \/ Delete \/ Register \/ Delegate \/ Undelegate

-----------------------------------------------------------------------------
(* Properties *)

\* A node that starts from an exported genesis has every balance, nonce and
\* code of the node that exported it (export_genesis, apply_genesis).  An
\* account that spent everything keeps its nonce, which protects it from
\* replay and which an export by the words of genesis.rs:200 would lose.  The
\* storage of contracts is not exported and not restored.
ExportRestores ==
    LET n == ApplyGenesis(ExportGenesis)
    IN \A a \in GsAddress :
         /\ AccountAt(n.accounts, a).balance = AccountAt(accounts, a).balance
         /\ AccountAt(n.accounts, a).nonce = AccountAt(accounts, a).nonce
         /\ CodeAt(n.accounts, n.code, a) = CodeAt(accounts, code, a)

\* What a node exports another can import, with every active validator at its
\* stake, unless a validator registered again over its delegations, which can
\* then take it below the minimum (export_genesis, register_validator,
\* undelegate).
ExportIsImportable ==
    LET n == ApplyGenesis(ExportGenesis)
    IN /\ ~n.ok => replaced
       /\ n.ok => n.staked = Restrict(staked, Eligible)

\* What an export keeps comes back: balances, nonces, codes and the active
\* validators at their total stake.  It is no restart of the node: storage is
\* lost, and delegations come back as stake of the validator itself
\* (export_genesis, apply_genesis).
GenesisRoundTrips == ExportRestores /\ ExportIsImportable
=============================================================================
