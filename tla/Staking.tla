------------------------------ MODULE Staking ------------------------------
(***************************************************************************)
(* Stake, delegations, unbonding and epoch rewards:                        *)
(* crates/nexus-consensus/src/pos.rs over the ValidatorSet of validator.rs. *)
(*                                                                         *)
(* ProofOfStake is shared behind an Arc and keeps epoch, validator set,    *)
(* delegations, unbonding queue and reward pools under five locks.  Every  *)
(* method takes them one after the other; an action is the part of a call  *)
(* between two of them.  A call that is refused (unknown validator, too    *)
(* small an amount, too large a withdrawal) changes nothing.               *)
(*                                                                         *)
(* Shares and reward_per_share are not part of the model: they decide the  *)
(* answer of claim_rewards and nothing else.  undelegate looks for the     *)
(* first delegation to one validator and retain drops all of them, so the  *)
(* vector of a delegator is kept as one sequence per validator; the order  *)
(* of the unbonding queue decides nothing, so it is a set.                 *)
(***************************************************************************)
EXTENDS Integers, SequencesExt

CONSTANTS
    Thread,
    Validator,
    Delegator,
    SelfStake,         \* SelfStake[v]: the stake v registers with
    Commission,        \* Commission[v], in basis points
    Amount,            \* the amounts delegated and undelegated
    Rewards,           \* the rewards of an epoch
    UnbondingPeriod,   \* in epochs
    MaxEpoch,          \* bound on the number of epochs
    MaxDeposit,        \* bound on what a delegator delegates in all
    MaxRegistrations   \* bound on the registrations of one validator

ASSUME StakingAssumption ==
    /\ IsFiniteSet(Thread) /\ IsFiniteSet(Validator) /\ IsFiniteSet(Delegator)
    /\ SelfStake \in [Validator -> Nat \ {0}]
    /\ Commission \in [Validator -> 0 .. 10000]
    /\ Amount \subseteq Nat \ {0}
    /\ Rewards \in Nat
    /\ UnbondingPeriod \in Nat
    /\ MaxEpoch \in Nat
    /\ MaxDeposit \in Nat
    /\ MaxRegistrations \in Nat

VARIABLES
    epoch,
    setEpoch,      \* the epoch in the validator set
    registered,    \* how often each validator was registered; 0: unknown
    stake,
    total,         \* total_stake of the validator set
    delegations,   \* delegations[d][v]: the amounts d delegated to v, in order
    unbonding,     \* the unbonding queue
    pools,         \* pools[v]: total_rewards of v's pool, NoPool without one
    pc,
    job,           \* the arguments and locals of each thread's call
    deposited,     \* history: what each delegator delegated,
    released,      \* ... what left the unbonding queue,
    minted,        \* ... all epoch rewards,
    queued         \* ... and the entries ever put into the unbonding queue

ledger == <<registered, stake, total, delegations, unbonding, pools>>
history == <<deposited, released, minted, queued>>
vars == <<epoch, setEpoch, ledger, pc, job, history>>

NoPool == -1
\* `number` tells equal entries apart; `since`, the epoch in which undelegate
\* was called, is history.
UnbondingEntry == [number : Nat, delegator : Delegator, validator : Validator,
                   amount : Nat, since : Nat, completion : Nat]
\* The locals of register_validator, end_epoch, delegate and undelegate
Job == [validator : Validator] \cup [epoch : Nat]
          \cup [delegator : Delegator, validator : Validator, amount : Nat]
          \cup [delegator : Delegator, validator : Validator, amount : Nat, since : Nat]
NoJob == << >>
PC == {"idle", "pool", "record", "unstake", "queue", "distribute", "unbond", "stamp"}

Less(a, b) == IF a > b THEN a - b ELSE 0     \* saturating_sub

Idle(t) == pc[t] = "idle"
Goto(t, where) == pc' = [pc EXCEPT ![t] = where]
Begin(t, where, j) == Goto(t, where) /\ job' = [job EXCEPT ![t] = j]
Return(t) == Goto(t, "idle") /\ job' = [job EXCEPT ![t] = NoJob]

-----------------------------------------------------------------------------
Init ==
    /\ epoch = 0
    /\ setEpoch = 0
    /\ registered = [v \in Validator |-> 0]
    /\ stake = [v \in Validator |-> 0]
    /\ total = 0
    /\ delegations = [d \in Delegator |-> [v \in Validator |-> << >>]]
    /\ unbonding = {}
    /\ pools = [v \in Validator |-> NoPool]
    /\ pc = [t \in Thread |-> "idle"]
    /\ job = [t \in Thread |-> NoJob]
    /\ deposited = [d \in Delegator |-> 0]
    /\ released = [d \in Delegator |-> 0]
    /\ minted = 0
    /\ queued = 0

\* register_validator: add_validator overwrites an entry of the same address
\* and adds the new stake to the total in any case.
RegisterValidator(t, v) ==
    /\ Idle(t)
    /\ registered[v] < MaxRegistrations
    /\ registered' = [registered EXCEPT ![v] = @ + 1]
    /\ stake' = [stake EXCEPT ![v] = SelfStake[v]]
    /\ total' = total + SelfStake[v]
    /\ Begin(t, "pool", [validator |-> v])
    /\ UNCHANGED <<epoch, setEpoch, delegations, unbonding, pools, history>>

\* register_validator: "Initialize reward pool"
InitPool(t) ==
    /\ pc[t] = "pool"
    /\ pools' = [pools EXCEPT ![job[t].validator] = 0]
    /\ Return(t)
    /\ UNCHANGED <<epoch, setEpoch, registered, stake, total, delegations,
                   unbonding, history>>

\* delegate under the validator set's write lock.
Delegate(t, d, v, a) ==
    /\ Idle(t)
    /\ registered[v] > 0
    /\ deposited[d] + a <= MaxDeposit
    /\ stake' = [stake EXCEPT ![v] = @ + a]
    /\ total' = total + a
    /\ deposited' = [deposited EXCEPT ![d] = @ + a]
    /\ Begin(t, "record", [delegator |-> d, validator |-> v, amount |-> a])
    /\ UNCHANGED <<epoch, setEpoch, registered, delegations, unbonding, pools,
                   released, minted, queued>>

\* delegate: "Create delegation".  Several delegations of one delegator to one
\* validator are kept side by side.
RecordDelegation(t) ==
    /\ pc[t] = "record"
    /\ delegations' = [delegations EXCEPT ![job[t].delegator][job[t].validator] =
                          Append(@, job[t].amount)]
    /\ Return(t)
    /\ UNCHANGED <<epoch, setEpoch, registered, stake, total, unbonding, pools, history>>

\* Mutant: the amount is not taken off the delegation.
WithdrawNothing(ds, a) == IF Head(ds) = a THEN << >> ELSE ds

\* "Remove if zero": every delegation to the validator goes when the first one
\* is used up.
Withdraw(ds, a) == IF Head(ds) = a THEN << >> ELSE [ds EXCEPT ![1] = @ - a]

\* undelegate under the delegations' write lock
Undelegate(t, d, v, a) ==
    /\ Idle(t)
    /\ delegations[d][v] # << >>
    /\ a <= Head(delegations[d][v])
    /\ delegations' = [delegations EXCEPT ![d][v] = Withdraw(@, a)]
    /\ Begin(t, "unstake", [delegator |-> d, validator |-> v, amount |-> a, since |-> epoch])
    /\ UNCHANGED <<epoch, setEpoch, registered, stake, total, unbonding, pools, history>>

\* Mutant: the stake is reduced twice.
UnstakeTwice(t) ==
    /\ pc[t] = "unstake"
    /\ stake' = [stake EXCEPT ![job[t].validator] = Less(@, 2 * job[t].amount)]
    /\ total' = Less(total, 2 * job[t].amount)
    /\ Goto(t, "queue")
    /\ UNCHANGED <<epoch, setEpoch, registered, delegations, unbonding, pools, job,
                   history>>

\* undelegate: "Update validator stake"
Unstake(t) ==
    /\ pc[t] = "unstake"
    /\ stake' = [stake EXCEPT ![job[t].validator] = Less(@, job[t].amount)]
    /\ total' = Less(total, job[t].amount)
    /\ Goto(t, "queue")
    /\ UNCHANGED <<epoch, setEpoch, registered, delegations, unbonding, pools, job,
                   history>>

\* undelegate: "Add to unbonding queue", with the epoch of this moment
QueueUnbonding(t) ==
    /\ pc[t] = "queue"
    /\ unbonding' = unbonding \cup
          {[number |-> queued + 1, delegator |-> job[t].delegator,
            validator |-> job[t].validator, amount |-> job[t].amount,
            since |-> job[t].since, completion |-> epoch + UnbondingPeriod]}
    /\ queued' = queued + 1
    /\ Return(t)
    /\ UNCHANGED <<epoch, setEpoch, registered, stake, total, delegations, pools,
                   deposited, released, minted>>

\* end_epoch: the counter
EndEpoch(t) ==
    /\ Idle(t)
    /\ epoch < MaxEpoch
    /\ epoch' = epoch + 1
    /\ minted' = minted + Rewards
    /\ Begin(t, "distribute", [epoch |-> epoch + 1])
    /\ UNCHANGED <<setEpoch, ledger, deposited, released, queued>>

ActiveStake == SumFunction(stake)

\* The part of the epoch's rewards that goes to the delegators of v
DelegatorReward(v) ==
    LET reward == (Rewards * stake[v]) \div ActiveStake
    IN reward - (reward * Commission[v]) \div 10000

\* distribute_rewards: a validator without a pool gets nothing.
DistributeRewards(t) ==
    /\ pc[t] = "distribute"
    /\ pools' = [v \in Validator |->
          IF pools[v] = NoPool \/ stake[v] = 0 THEN pools[v]
          ELSE pools[v] + DelegatorReward(v)]
    /\ Goto(t, "unbond")
    /\ UNCHANGED <<epoch, setEpoch, registered, stake, total, delegations, unbonding,
                   job, history>>

\* Mutant: an entry is released one epoch early.
CompletedEarly(entry, e) == entry.completion <= e + 1

\* retain's condition, negated
Completed(entry, e) == entry.completion <= e

\* process_unbonding of the epoch that end_epoch started
ProcessUnbonding(t) ==
    /\ pc[t] = "unbond"
    /\ unbonding' = {e \in unbonding : ~Completed(e, job[t].epoch)}
    /\ released' = [d \in Delegator |-> released[d] + SumFunction([e \in unbonding |->
          IF e.delegator = d /\ Completed(e, job[t].epoch) THEN e.amount ELSE 0])]
    /\ Goto(t, "stamp")
    /\ UNCHANGED <<epoch, setEpoch, registered, stake, total, delegations, pools, job,
                   deposited, minted, queued>>

\* end_epoch: "Update validator set epoch"
StampEpoch(t) ==
    /\ pc[t] = "stamp"
    /\ setEpoch' = job[t].epoch
    /\ Return(t)
    /\ UNCHANGED <<epoch, ledger, history>>

\* A call that returns an error; an amount below the minimum always does.
Refused(t) == Idle(t) /\ UNCHANGED vars

Next ==
    \E t \in Thread :
       \/ \E v \in Validator : RegisterValidator(t, v)
       \/ InitPool(t)
       \/ \E d \in Delegator, v \in Validator, a \in Amount :
             Delegate(t, d, v, a) \/ Undelegate(t, d, v, a)
       \/ RecordDelegation(t)
       \/ Unstake(t)
       \/ QueueUnbonding(t)
       \/ EndEpoch(t)
       \/ DistributeRewards(t)
       \/ ProcessUnbonding(t)
       \/ StampEpoch(t)
       \/ Refused(t)

Spec == Init /\ [][Next]_vars

-----------------------------------------------------------------------------
(* Properties *)

\* What d has delegated to v
DelegatedBy(d, v) == SumFunction(delegations[d][v])

\* Amounts d's calls have taken from the stake or the delegations and not yet
\* written to the delegations or the unbonding queue
InFlight(d) ==
    SumFunction([t \in Thread |->
        IF pc[t] \in {"record", "unstake", "queue"} /\ job[t].delegator = d
        THEN job[t].amount ELSE 0])
Unbonding(d) == SumFunction([e \in unbonding |-> IF e.delegator = d THEN e.amount ELSE 0])

\* Stakes, delegations, unbonding entries and pools are of the code's types;
\* amounts are unsigned.
TypeOK ==
    /\ epoch \in 0 .. MaxEpoch
    /\ setEpoch \in 0 .. MaxEpoch
    /\ registered \in [Validator -> 0 .. MaxRegistrations]
    /\ stake \in [Validator -> Nat]
    /\ total \in Nat
    /\ delegations \in [Delegator -> [Validator -> Seq(Nat)]]
    /\ unbonding \subseteq UnbondingEntry
    /\ pools \in [Validator -> Nat \cup {NoPool}]
    /\ pc \in [Thread -> PC]
    /\ job \in [Thread -> Job \cup {NoJob}]
    /\ deposited \in [Delegator -> 0 .. MaxDeposit]
    /\ released \in [Delegator -> Nat]
    /\ minted \in Nat
    /\ queued \in Nat

\* At no moment, also between the steps of concurrent calls, do the recorded
\* delegations to a validator exceed the stake it votes with.
DelegationsAreBacked ==
    \A v \in Validator : registered[v] = 1 =>
       stake[v] >= SelfStake[v] + SumFunction([d \in Delegator |-> DelegatedBy(d, v)])

\* A delegator never gets back more than it delegated: what is delegated, on
\* its way, unbonding and released is covered by its deposits.
NothingCreated ==
    \A d \in Delegator :
       SumFunction([v \in Validator |-> DelegatedBy(d, v)]) + InFlight(d) + Unbonding(d)
          + released[d] <= deposited[d]

\* While every address registers once, total_stake is the sum of the stakes.
TotalIsSum == (\A v \in Validator : registered[v] <= 1) => total = ActiveStake

\* The pools together never hold more than the rewards of the ended epochs,
\* whatever registrations and delegations run during the distribution.
RewardsAreBounded ==
    SumFunction([v \in Validator |-> IF pools[v] = NoPool THEN 0 ELSE pools[v]]) <= minted

\* An amount is released no earlier than UnbondingPeriod epochs after the call
\* of undelegate, also when end_epoch runs between its steps.
UnbondingTakesItsTime ==
    [][\A e \in unbonding \ unbonding' : e.since + UnbondingPeriod <= epoch]_vars

\* The stake a validator votes with and the total agree with the delegations
\* (delegate, undelegate, register_validator).
StakeIsAccounted == TypeOK /\ DelegationsAreBacked /\ TotalIsSum

\* Neither delegators nor pools get more than was put in (undelegate, end_epoch).
NoGain == NothingCreated /\ RewardsAreBounded
=============================================================================
