------------------------------ MODULE Executor ------------------------------
(***************************************************************************)
(* Transaction execution: crates/nexus-evm/src/executor.rs over the StateDb *)
(* of state.rs, the gas rules of gas.rs, the receipts of receipt.rs and the *)
(* REVM adapter of revm_db.rs; the execution task of nexus-node/src/node.rs *)
(* and the eth_call of nexus-rpc/src/eth.rs drive it, each with an executor *)
(* of its own over one StateDb, which reads and writes whole accounts and  *)
(* holds no lock in between.                                               *)
(*                                                                         *)
(* An address without an entry in the account map reads as the empty       *)
(* account, so the map is total.  The bytecode interpreter is external: it *)
(* may succeed, with or without a storage write or a self-destruction, it  *)
(* may revert, or it may refuse the call.  Gas is counted in small units.  *)
(***************************************************************************)
EXTENDS Integers, SequencesExt

CONSTANTS
    Address,
    Precompile,    \* the addresses of get_precompiles
    Coinbase,
    CreateAddr,    \* CreateAddr[s][n]: the contract address of sender s and nonce n,
    OtherAddr,     \* ... and the one of any other nonce
    Initial,       \* the account map after genesis
    Tx,            \* the transactions: records, see TxRecord
    NoAddress,     \* the recipient of a contract creation
    ChainId,
    EnvGas,        \* the gas limit of the environment
    BaseFee,       \* base_fee_per_gas
    TxBase,        \* gas schedule: tx_base,
    TxCreate,      \* ... and tx_create
    CallBase,      \* what the interpreter itself charges for any call
    Deposit,       \* the deposit costs a deployed code may have
    Refunds,       \* the refunds an execution may earn
    U64,           \* gas is computed modulo U64,
    U256,          \* ... a product of two amounts modulo U256
    Request,       \* the RPC requests that may be under way at once
    Calls,         \* the calls they may ask for
    MaxCalls,      \* bound on the simulated calls
    MaxRuns        \* bound on the transactions that are started

NoCode == "none"
InitCode == "init"      \* the init code a creation stores first
Deployed == "deployed"

Account == [nonce : Nat, balance : Nat, code : {NoCode, InitCode, Deployed}]
Empty == [nonce |-> 0, balance |-> 0, code |-> NoCode]
TxRecord == [id : Nat, sender : Address, to : Address \cup {NoAddress}, value : Nat,
             nonce : Nat, gas : Nat, data : Nat, price : Nat, tip : Nat,
             dynamic : BOOLEAN, chain : Nat, signed : BOOLEAN]

Senders == {t.sender : t \in Tx}

Sum(A) == SumFunction([x \in Address |-> A[x].balance])

\* Senders are accounts with a key: no code is deployed at their addresses, in
\* the genesis state or later.  The interpreter refunds no more than it charges,
\* the gas limit fits a u64, the supply and the base fee of a full block fit a
\* U256.
ASSUME ExecutorAssumption ==
    /\ IsFiniteSet(Address) /\ NoAddress \notin Address
    /\ Coinbase \in Address /\ Precompile \subseteq Address
    /\ Initial \in [Address -> Account]
    /\ Tx \subseteq TxRecord
    /\ \A s \in Senders : \A n \in DOMAIN CreateAddr[s] : CreateAddr[s][n] \in Address \ Senders
    /\ OtherAddr \in Address \ Senders
    /\ \A s \in Senders : Initial[s].code = NoCode
    /\ BaseFee \in Nat /\ TxBase \in Nat /\ TxCreate \in Nat /\ CallBase \in Nat
    /\ Deposit \subseteq Nat /\ Refunds \subseteq 0 .. CallBase
    /\ U64 \in Nat /\ EnvGas \in 0 .. U64 - 1 /\ MaxCalls \in Nat /\ MaxRuns \in Nat
    /\ Calls \subseteq [from : Address, to : Address, value : Nat]
    /\ U256 \in Nat /\ Sum(Initial) < U256 /\ BaseFee * EnvGas < U256

VARIABLES
    acct,      \* StateDb.accounts, with the code the hash stands for
    store,     \* StateDb.storage: one slot of every account
    alive,     \* the execution task has not panicked
    job,       \* the transaction the execution task is at, and what it has read
    sim,       \* the simulated call of every request, and what it has read
    receipt,   \* the last receipt
    done,      \* history: how often each transaction got a receipt,
    burned,    \* ... the fees that were charged and paid to nobody,
    wrapped,   \* ... whether unused gas or a fee left the range of its integer,
    raced,     \* ... whether an account that had changed since it was read was
               \* written over,
    calls,     \* ... the number of simulated calls
    runs       \* ... and of transactions started

vars == <<acct, store, alive, job, sim, receipt, done, burned, wrapped, raced, calls, runs>>

Idle == [step |-> "idle"]

\* A receipt as far as the properties read it
Receipt(id, status, gas) == [id |-> id, status |-> status, gas |-> gas]

Init ==
    /\ acct = Initial
    /\ store = [x \in Address |-> 0]
    /\ alive = TRUE
    /\ job = Idle
    /\ sim = [c \in Request |-> Idle]
    /\ receipt = Receipt(0, "none", 0)
    /\ done = [t \in Tx |-> 0]
    /\ burned = 0
    /\ wrapped = FALSE
    /\ raced = FALSE
    /\ calls = 0
    /\ runs = 0

-----------------------------------------------------------------------------
(* Gas and fees *)

IsCreate(t) == t.to = NoAddress

IntrinsicGas(t) == TxBase + t.data + (IF IsCreate(t) THEN TxCreate ELSE 0)

\* A dynamic-fee transaction pays the base fee and its tip up to its cap; all
\* other types pay gas_price as it stands.
EffectiveGasPrice(t) ==
    IF ~t.dynamic THEN t.price
    ELSE BaseFee + (IF t.tip < t.price - BaseFee THEN t.tip ELSE t.price - BaseFee)

\* U256 * U256 drops the carry past 256 bits.
Fee(price, gas) == (price * gas) % U256

MaxFee(t) == Fee(EffectiveGasPrice(t), t.gas)

\* validate_tx
ValidateTx(t) == t.gas <= EnvGas /\ t.chain = ChainId

\* What execute_tx tests before it adds the value to the fee
Priced(t) ==
    /\ ValidateTx(t)
    /\ t.signed
    /\ t.gas >= IntrinsicGas(t)
    /\ t.dynamic => t.price >= BaseFee

\* A sum of U256 that overflows panics, and nobody restarts the execution task.
CostOverflows(t) == Priced(t) /\ MaxFee(t) + t.value >= U256

\* Mutant: a nonce from the past is accepted.
AdmissibleStale(t) ==
    /\ Priced(t) /\ ~CostOverflows(t)
    /\ acct[t.sender].balance >= MaxFee(t) + t.value
    /\ acct[t.sender].nonce >= t.nonce

\* The early returns of execute_tx, none of which changes state
Admissible(t) ==
    /\ Priced(t) /\ ~CostOverflows(t)
    /\ acct[t.sender].balance >= MaxFee(t) + t.value
    /\ acct[t.sender].nonce = t.nonce

-----------------------------------------------------------------------------
(* What an execution may do: the set of its results.  A result has the     *)
(* state s the executor leaves, whatever its kind, and the accounts it     *)
(* wrote.                                                                  *)

State == [acct |-> acct, store |-> store]
\* add_balance; sub_balance with a negative amount, where the balance suffices
AddTo(A, x, v) == [A EXCEPT ![x].balance = @ + v]

\* checked_add
Fits(A, x, v) == A[x].balance + v < U256

Debit(S, from, v) == [S EXCEPT !.acct = AddTo(S.acct, from, -v)]

Transfer(S, from, to, v) ==
    [S EXCEPT !.acct = AddTo(AddTo(S.acct, from, -v), to, v)]

Result(k, g, r, S, W) == [kind |-> k, gas |-> g, refund |-> r, s |-> S, wrote |-> W]

\* apply_revm_state for an execution that succeeds: value, storage, and at will
\* the deletion of the contract, whose balance goes to the caller.
Touched(S, from, to, v) ==
    LET T == Transfer(S, from, to, v)
    IN IF from # to /\ ~Fits(S.acct, to, v) THEN {}
       ELSE {T, [T EXCEPT !.store[to] = 1]}
       \cup (IF from = to THEN {}
             ELSE {[acct |-> [Transfer(T, to, from, T.acct[to].balance).acct EXCEPT ![to] = Empty],
                    store |-> [T.store EXCEPT ![to] = 0]]})

\* REVM: it bumps the nonce of the caller of any call it accepts, and it charges
\* its own base cost.  A reverted execution leaves only the nonce.  The accounts
\* it touches, the beneficiary's included, are written back whole.
RunCode(S, from, to, v, gas, pays) ==
    IF gas < CallBase \/ S.acct[from].balance < v THEN {Result("err", 0, 0, S, {})}
    ELSE LET B == [S EXCEPT !.acct[from].nonce = @ + 1]
         IN {Result("revert", g, 0, B, {from} \cup pays) : g \in {CallBase, gas}}
            \cup {Result("ok", g, r, T, {from, to} \cup pays) :
                     g \in {CallBase, gas}, r \in Refunds, T \in Touched(B, from, to, v)}

\* The value transfer of execute_call: sub_balance, then add_balance, which
\* refuses a balance that overflows after the sender has paid.
Pay(S, from, to, v, gas) ==
    IF S.acct[from].balance < v THEN Result("err", 0, 0, S, {})
    ELSE IF from # to /\ ~Fits(S.acct, to, v) THEN Result("err", 0, 0, Debit(S, from, v), {from})
    ELSE Result("ok", gas, 0, Transfer(S, from, to, v), IF v = 0 THEN {} ELSE {from, to})

\* execute_call: a precompile moves the value before it runs and keeps it when
\* it fails; an account without code just receives the value.
ExecuteCall(S, from, to, v, gas, pays) ==
    IF to \in Precompile
    THEN LET r == Pay(S, from, to, v, gas) IN {r, [r EXCEPT !.kind = "err"]}
    ELSE IF S.acct[to].code = NoCode THEN {Pay(S, from, to, v, 0)}
    ELSE RunCode(S, from, to, v, gas, pays)

\* The hash of sender and nonce is free of collisions among the nonces listed.
CreateAddress(sender, nonce) ==
    IF nonce \in DOMAIN CreateAddr[sender] THEN CreateAddr[sender][nonce] ELSE OtherAddr

\* execute_create: the account and the init code are in place before the code
\* runs and stay there when it fails; oversized code and code that starts with
\* 0xEF are refused after it ran.
ExecuteCreate(S, t) ==
    LET to == CreateAddress(t.sender, S.acct[t.sender].nonce - 1)
        P == [S EXCEPT !.acct[to] = [nonce |-> 1, balance |-> 0, code |-> InitCode]]
    IN IF S.acct[to] # Empty THEN {Result("err", 0, 0, S, {})}
       ELSE UNION {IF r.kind # "ok" THEN {[r EXCEPT !.wrote = @ \cup {to}]}
                   ELSE {Result("err", 0, 0, r.s, r.wrote)}
                        \cup {Result("ok", r.gas + d, r.refund,
                                     [r.s EXCEPT !.acct[to].code = Deployed], r.wrote) : d \in Deposit} :
                   r \in RunCode(P, t.sender, to, t.value, t.gas - TxCreate, {Coinbase})}

\* Mutant: the fee is charged at the cap and refunded at the effective price.
ChargedAtCap(t) ==
    [State EXCEPT !.acct[t.sender] = [nonce |-> @.nonce + 1, code |-> @.code,
                                      balance |-> job.before.balance - Fee(t.price, t.gas)]]

\* The journal charges the largest fee, on the balance read before, and no
\* revert gives it back; the nonce is written past the journal.
Charged(t) ==
    [State EXCEPT !.acct[t.sender] = [nonce |-> @.nonce + 1, code |-> @.code,
                                      balance |-> job.before.balance - MaxFee(t)]]

Execute(S, t) ==
    IF IsCreate(t) THEN ExecuteCreate(S, t)
    ELSE ExecuteCall(S, t.sender, t.to, t.value, t.gas - IntrinsicGas(t), {Coinbase})

\* A failure consumes all gas, a revert earns no refund.
GasUsed(t, r) == IF r.kind = "err" THEN t.gas ELSE IntrinsicGas(t) + r.gas - r.refund

\* Mutant: the base fee goes to the coinbase as well.
PriorityFeeAll(t, used) == Fee(EffectiveGasPrice(t), used)

\* It panics when it is negative.
PriorityFee(t, used) == Fee(EffectiveGasPrice(t), used) - Fee(BaseFee, used)

\* The executor that read the state S stores its result r: balance and nonce of
\* the accounts it wrote, the code and the slot where it changed them.
StoreAccounts(S, r) ==
    [x \in Address |->
        IF x \notin r.wrote THEN acct[x]
        ELSE [r.s.acct[x] EXCEPT !.code = IF @ = S.acct[x].code THEN acct[x].code ELSE @]]

StoreSlots(S, r) ==
    [x \in Address |-> IF r.s.store[x] = S.store[x] THEN store[x] ELSE r.s.store[x]]

Stale(S, W) == \E x \in W : acct[x] # S.acct[x]

-----------------------------------------------------------------------------
(* Actions *)

\* execute_tx, up to the tests of balance and nonce
CheckTx(t) ==
    /\ alive
    /\ job = Idle
    /\ runs < MaxRuns
    /\ runs' = runs + 1
    /\ Admissible(t)
    /\ job' = [step |-> "checked", tx |-> t, before |-> acct[t.sender]]
    /\ UNCHANGED <<acct, store, alive, sim, receipt, done, burned, wrapped, raced, calls>>

\* The execution task logs the error and goes on with the next transaction; the
\* panic of an overflow ends it.
RefuseTx(t) ==
    /\ alive
    /\ job = Idle
    /\ ~Admissible(t)
    /\ alive' = ~CostOverflows(t)
    /\ UNCHANGED <<acct, store, job, sim, receipt, done, burned, wrapped, raced, calls, runs>>

\* The fee is charged and the nonce counted up; the execution reads the state.
ChargeTx ==
    /\ job.step = "checked"
    /\ LET t == job.tx
       IN /\ acct' = Charged(t).acct
          /\ raced' = (raced \/ acct[t.sender] # job.before)
          /\ job' = [step |-> "charged", tx |-> t, before |-> job.before, seen |-> Charged(t)]
    /\ UNCHANGED <<store, alive, sim, receipt, done, burned, wrapped, calls, runs>>

\* Refund and priority fee, from the accounts A: add_balance refuses a balance
\* that overflows, whereupon execute_tx returns the error and what was charged
\* is lost; a negative priority fee panics after the refund.
Settle(t, A, kind, used) ==
    LET price == EffectiveGasPrice(t)
        refund == Fee(price, (t.gas - used) % U64)
        B == AddTo(A, t.sender, refund)
        tip == PriorityFee(t, used)
        paid == Fits(A, t.sender, refund) /\ tip >= 0 /\ Fits(B, Coinbase, tip)
    IN /\ acct' = IF ~Fits(A, t.sender, refund) THEN A
                  ELSE IF paid THEN AddTo(B, Coinbase, tip) ELSE B
       /\ burned' = burned + (IF ~Fits(A, t.sender, refund) THEN MaxFee(t)
                              ELSE Fee(IF paid THEN BaseFee ELSE price, used))
       /\ alive' = (~Fits(A, t.sender, refund) \/ tip >= 0)
       /\ receipt' = IF paid THEN Receipt(t.id, kind, used) ELSE receipt
       /\ done' = IF paid THEN [done EXCEPT ![t] = @ + 1] ELSE done

\* execute_call or execute_create and the rest of execute_tx: nothing of the
\* execution is journaled, so the state of the result stands also when the
\* receipt says revert or failure.
FinishTx ==
    /\ job.step = "charged"
    /\ LET t == job.tx
       IN \E r \in Execute(job.seen, t) :
            /\ Settle(t, StoreAccounts(job.seen, r), r.kind, GasUsed(t, r))
            /\ store' = StoreSlots(job.seen, r)
            /\ wrapped' = (wrapped \/ GasUsed(t, r) > t.gas \/ EffectiveGasPrice(t) * t.gas >= U256)
            /\ raced' = (raced \/ Stale(job.seen, r.wrote))
    /\ job' = Idle
    /\ UNCHANGED <<sim, calls, runs>>

\* eth_call and eth_estimateGas: an executor of their own reads the state
BeginCall(c, q) ==
    /\ calls < MaxCalls
    /\ calls' = calls + 1
    /\ sim[c] = Idle
    /\ sim' = [sim EXCEPT ![c] = [step |-> "running", call |-> q, seen |-> State]]
    /\ UNCHANGED <<acct, store, alive, job, receipt, done, burned, wrapped, raced, runs>>

\* call_dry_run reverts the journal, in which execute_call never wrote anything.
CallDryRun(c) ==
    /\ sim[c].step = "running"
    /\ LET S == sim[c].seen
           q == sim[c].call
       IN \E r \in ExecuteCall(S, q.from, q.to, q.value, EnvGas, {}) :
            /\ acct' = StoreAccounts(S, r)
            /\ store' = StoreSlots(S, r)
            /\ raced' = (raced \/ Stale(S, r.wrote))
    /\ sim' = [sim EXCEPT ![c] = Idle]
    /\ UNCHANGED <<alive, job, receipt, done, burned, wrapped, calls, runs>>

\* The execution task is gone; nobody restarts it.
Dead == ~alive /\ UNCHANGED vars

DryRuns == \E c \in Request : CallDryRun(c)

Next ==
    \/ \E t \in Tx : CheckTx(t) \/ RefuseTx(t)
    \/ ChargeTx
    \/ FinishTx
    \/ \E c \in Request, q \in Calls : BeginCall(c, q)
    \/ DryRuns
    \/ Dead

Spec == Init /\ [][Next]_vars

-----------------------------------------------------------------------------
(* Properties *)

StateRecord == [acct : [Address -> Account], store : [Address -> 0 .. 1]]

\* Accounts keep the fields of Account, receipts the three statuses.
TypeOK ==
    /\ acct \in [Address -> Account]
    /\ store \in [Address -> 0 .. 1]
    /\ alive \in BOOLEAN
    /\ job \in {Idle} \cup [step : {"checked"}, tx : Tx, before : Account]
                     \cup [step : {"charged"}, tx : Tx, before : Account, seen : StateRecord]
    /\ sim \in [Request -> {Idle} \cup [step : {"running"}, call : Calls, seen : StateRecord]]
    /\ receipt.status \in {"none", "ok", "revert", "err"}
    /\ done \in [Tx -> Nat]
    /\ burned \in Nat
    /\ wrapped \in BOOLEAN
    /\ raced \in BOOLEAN
    /\ calls \in 0 .. MaxCalls /\ runs \in 0 .. MaxRuns

\* The fee of the transaction under way
Held == IF job.step = "charged" THEN MaxFee(job.tx) ELSE 0

\* Value transfers, failed executions that are not rolled back, refunds,
\* priority fees, self-destruction, simulated calls between the steps of a
\* transaction and even a panic move or burn tokens but create none, as long as
\* no account is written back over a change and neither unused gas nor a fee
\* wraps around: the code prevents none of the three.
SupplyConserved == ~wrapped /\ ~raced => Sum(acct) + burned + Held = Sum(Initial)

\* execute_tx issues at most one receipt for a transaction, whatever simulated
\* calls and failing transactions do to nonces in between, as long as no account
\* is written back over a change.  Fees that wrap do not matter here.
NoReplay == ~raced => \A t \in Tx : done[t] <= 1

\* The gas of a message call never exceeds its limit, base costs that are
\* charged twice included: only a contract creation, or a price whose product
\* with the gas limit is no U256, can make a fee wrap around.
CallsStayWithinLimit ==
    [][wrapped' # wrapped =>
          IsCreate(job.tx) \/ EffectiveGasPrice(job.tx) * job.tx.gas >= U256]_vars

\* A message call that reverts costs its sender the fee of its receipt, counted
\* from the balance execute_tx read first, and touches nobody else but the
\* coinbase, although nothing of it was journaled.
RevertOnlyCosts ==
    [][\A t \in Tx : done'[t] > done[t] /\ receipt'.status = "revert" /\ ~IsCreate(t) =>
          /\ store' = store
          /\ \A x \in Address \ {t.sender, Coinbase} : acct'[x] = acct[x]
          /\ ~raced' /\ ~wrapped' /\ t.sender # Coinbase =>
                acct'[t.sender].balance =
                    job.before.balance - EffectiveGasPrice(t) * receipt'.gas]_vars

\* "Simulate a call without committing any state changes": eth_call and
\* eth_estimateGas leave the accounts and their storage as they were.
DryRunIsReadOnly == [][DryRuns => UNCHANGED <<acct, store>>]_vars

\* What a message call uses and what it costs are settled within its limit.
CallsAreSettled == []TypeOK /\ CallsStayWithinLimit /\ RevertOnlyCosts
=============================================================================
