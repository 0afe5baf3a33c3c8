-------------------------- MODULE StakingContract --------------------------
(***************************************************************************)
(* contracts/NexusStaking.sol.  A transaction is one step; a failed        *)
(* require, an underflow and a division by zero revert it.  Public keys,   *)
(* uptime, epoch numbers and the list of delegations, whose rewards are    *)
(* never set so that claimRewards always reverts, are left out.            *)
(***************************************************************************)
EXTENDS Integers, SequencesExt

CONSTANTS
    Staker, Value,             \* senders, amounts of a transaction
    ScMinStake, MaxCommission, UnbondingPeriod, RewardDivisor,
    Commission,                \* rates, in 1/MaxCommission
    MaxTxs, MaxTime            \* bounds

VARIABLES
    members,       \* validators
    validatorSet,
    totalStake,
    unbondings,
    balance,       \* of the contract
    now,           \* block.timestamp
    txs            \* transactions so far

Outsider == [stake |-> 0, commission |-> 0, active |-> FALSE,
             delegations |-> [d \in Staker |-> 0], totalDelegated |-> 0]

Init ==
    /\ members = [a \in Staker |-> Outsider]
    /\ validatorSet = << >>
    /\ totalStake = 0 /\ balance = 0
    /\ unbondings = [a \in Staker |-> << >>]
    /\ now = 0 /\ txs = 0

Transaction == txs < MaxTxs /\ txs' = txs + 1 /\ UNCHANGED now
Backing(a) == members[a].stake + members[a].totalDelegated
Unbond(a, amount) ==
    unbondings' = [unbondings EXCEPT ![a] = Append(@, [amount |-> amount, unlock |-> now + UnbondingPeriod])]

\* The entry keeps what others delegated to the address before.
RegisterValidator ==
    \E a \in Staker, v \in Value, c \in Commission :
        /\ v >= ScMinStake /\ c <= MaxCommission /\ ~members[a].active
        /\ members' = [members EXCEPT ![a] = [@ EXCEPT !.stake = v, !.commission = c, !.active = TRUE]]
        /\ validatorSet' = Append(validatorSet, a)
        /\ totalStake' = totalStake + v /\ balance' = balance + v
        /\ Transaction /\ UNCHANGED unbondings

\* The last element takes the place of the one that leaves.
SwapRemove(s, i) == Front([s EXCEPT ![i] = s[Len(s)]])

UnregisterValidator ==
    \E a \in Staker :
        /\ members[a].active /\ totalStake >= Backing(a)
        /\ Unbond(a, Backing(a))
        /\ totalStake' = totalStake - Backing(a)
        /\ members' = [members EXCEPT ![a] = [@ EXCEPT !.active = FALSE]]
        /\ LET at == {i \in DOMAIN validatorSet : validatorSet[i] = a}
           IN validatorSet' = IF at = {} THEN validatorSet
                              ELSE SwapRemove(validatorSet, CHOOSE i \in at : \A j \in at : i <= j)
        /\ Transaction /\ UNCHANGED balance

\* v more from d, or less where v is negative
Delegated(m, d, v) == [m EXCEPT !.delegations[d] = @ + v, !.totalDelegated = @ + v]

Delegate ==
    \E d, a \in Staker, v \in Value :
        /\ members[a].active /\ v > 0
        /\ members' = [members EXCEPT ![a] = Delegated(@, d, v)]
        /\ totalStake' = totalStake + v /\ balance' = balance + v
        /\ Transaction /\ UNCHANGED <<validatorSet, unbondings>>

\* Works on inactive validators too.
Undelegate ==
    \E d, a \in Staker, v \in Value :
        /\ members[a].delegations[d] >= v /\ totalStake >= v
        /\ members' = [members EXCEPT ![a] = Delegated(@, d, -v)]
        /\ totalStake' = totalStake - v
        /\ Unbond(d, v)
        /\ Transaction /\ UNCHANGED <<validatorSet, balance>>

Due(e) == e.unlock <= now
Times(e, s) == Cardinality({i \in DOMAIN s : s[i] = e})
Amounts(s) == SumFunction([i \in DOMAIN s |-> s[i].amount])

\* Mutant: the entry moved into a gap is not looked at.
ScanSkips(s) ==
    LET After[n \in 0..Len(s)] ==
            IF n = 0 THEN <<1, s>>
            ELSE LET i == After[n - 1][1]  r == After[n - 1][2]
                 IN IF i > Len(r) THEN <<i, r>>
                    ELSE <<i + 1, IF Due(r[i]) THEN SwapRemove(r, i) ELSE r>>
    IN After[Len(s)][2]

\* The loop of withdrawUnbonded: an entry that is due is replaced by the last
\* one, and its place is looked at again.
LookAt(i, r) == IF Due(r[i]) THEN <<i, SwapRemove(r, i)>> ELSE <<i + 1, r>>
Scan(s) ==
    LET After[n \in 0..Len(s)] == IF n = 0 THEN <<1, s>> ELSE LookAt(After[n-1][1], After[n-1][2])
    IN After[Len(s)][2]

WithdrawUnbonded ==
    \E a \in Staker :
        LET left == Scan(unbondings[a])
            paid == Amounts(unbondings[a]) - Amounts(left)
        IN /\ paid > 0 /\ paid <= balance
           /\ unbondings' = [unbondings EXCEPT ![a] = left]
           /\ balance' = balance - paid
           /\ Transaction /\ UNCHANGED <<members, validatorSet, totalStake>>

\* The commission is added to the stake and to no total.
AdvanceEpoch ==
    LET rewards == balance \div RewardDivisor
        Kept(a) == (((rewards * Backing(a)) \div totalStake) * members[a].commission) \div MaxCommission
    IN /\ totalStake = 0 => \A a \in ToSet(validatorSet) : Backing(a) = 0
       /\ members' = [a \in Staker |->
              IF members[a].active /\ Backing(a) > 0
              THEN [members[a] EXCEPT !.stake = @ + Kept(a)] ELSE members[a]]
       /\ Transaction /\ UNCHANGED <<validatorSet, totalStake, unbondings, balance>>

SlashAmount(a, v) == IF v > members[a].stake THEN members[a].stake ELSE v

Slash ==
    \E a \in Staker, v \in Value :
        /\ members[a].active /\ totalStake >= SlashAmount(a, v)
        /\ members' = [members EXCEPT ![a] = [@ EXCEPT !.stake = members[a].stake - SlashAmount(a, v)]]
        /\ totalStake' = totalStake - SlashAmount(a, v)
        /\ Transaction /\ UNCHANGED <<validatorSet, unbondings, balance>>

\* A plain transfer to the contract
Receive ==
    \E v \in Value : /\ balance' = balance + v
                     /\ Transaction /\ UNCHANGED <<members, validatorSet, totalStake, unbondings>>

\* block.timestamp
Tick == now < MaxTime /\ now' = now + 1
        /\ UNCHANGED <<members, validatorSet, totalStake, unbondings, balance, txs>>

Next == RegisterValidator \/ UnregisterValidator \/ Delegate \/ Undelegate \/ WithdrawUnbonded
        \/ AdvanceEpoch \/ Slash \/ Receive \/ Tick

-----------------------------------------------------------------------------
(* Properties *)

\* The list that advanceEpoch walks holds every active validator exactly once
\* and nobody else, whatever the order of registrations and removals.
SetHoldsTheActive ==
    /\ ToSet(validatorSet) = {a \in Staker : members[a].active}
    /\ Len(validatorSet) = Cardinality(ToSet(validatorSet))

\* What a validator holds for others is the sum of what they can take back,
\* also after it left and came back (delegate, undelegate).
DelegatedIsSum ==
    \A a \in Staker :
        members[a].totalDelegated = SumFunction(members[a].delegations)

\* The total never exceeds what stands behind the active validators.  It can
\* fall behind: commissions are not added to it, and undelegating from a
\* validator that has left is subtracted a second time.
TotalIsBacked ==
    totalStake <= SumFunction([a \in {b \in Staker : members[b].active} |-> Backing(a)])

\* withdrawUnbonded, which removes entries of the list it walks, leaves
\* exactly those that are not due, each as often as before.
WithdrawsWhatIsDue ==
    [][now' = now /\ balance' < balance =>
          \A a \in Staker :
              unbondings'[a] # unbondings[a] =>
                  \A e \in ToSet(unbondings[a]) :
                      Times(e, unbondings'[a]) = IF Due(e) THEN 0 ELSE Times(e, unbondings[a])
      ]_<<members, validatorSet, totalStake, unbondings, balance, now, txs>>

\* The lists and sums of the contract agree through every sequence of
\* transactions, and withdrawals take what is due.
BooksAgree == [](SetHoldsTheActive /\ DelegatedIsSum /\ TotalIsBacked) /\ WithdrawsWhatIsDue
=============================================================================
