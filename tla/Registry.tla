------------------------------ MODULE Registry ------------------------------
(***************************************************************************)
(* ValidatorRegistry of nexus-consensus: changes are queued and applied at *)
(* the end of an epoch, slashing acts at once.  Every operation holds the  *)
(* lock of the current set throughout.  Stakes have width Width; jail      *)
(* terms and slash counts, which nothing here reads, are left out.         *)
(***************************************************************************)
EXTENDS Integers, Sequences, FiniteSetsExt, Functions

CONSTANTS
    Address, Stake,       \* who may be a validator, stakes and amounts of a change
    MinStake, Width,
    Percents,             \* slashes, in 1/10000
    Rates,                \* commissions asked for, in 1/10000
    MaxAdvances, MaxChanges   \* bounds

VARIABLES
    current,    \* epoch, stake and commission per validator, total_stake
    changes,    \* pending_changes
    historical, \* historical_sets
    advances,   \* calls of advance_epoch so far
    skewed      \* a change has made total_stake differ from the sum (history)

Change == [kind : {"join"}, who : Address, amount : Stake]
     \cup [kind : {"leave"}, who : Address]
     \cup [kind : {"increase", "decrease"}, who : Address, amount : Stake]
     \cup [kind : {"commission"}, who : Address, rate : Rates]

EmptySet == [epoch |-> 0, stake |-> << >>, total |-> 0, commission |-> << >>]

NewCommission == 500
CommissionCap == 10000

Init == current = EmptySet /\ changes = << >> /\ historical = << >> /\ advances = 0 /\ skewed = FALSE

Insert(f, a, v) == [x \in DOMAIN f \cup {a} |-> IF x = a THEN v ELSE f[x]]
Minus(f, a) == Restrict(f, DOMAIN f \ {a})
SaturatingSub(x, y) == IF y > x THEN 0 ELSE x - y

\* add_validator: a second entry replaces the first, the total counts both.
AddValidator(s, a, amount) ==
    [s EXCEPT !.stake = Insert(@, a, amount), !.total = (@ + amount) % Width,
              !.commission = Insert(@, a, NewCommission)]

RemoveValidator(s, a) ==
    IF a \in DOMAIN s.stake
    THEN [s EXCEPT !.stake = Minus(@, a), !.total = (@ - s.stake[a]) % Width,
                   !.commission = Minus(@, a)]
    ELSE s

\* One change of advance_epoch.
ApplyChange(s, c) ==
    CASE c.kind = "join" -> AddValidator(s, c.who, c.amount)
      [] c.kind = "leave" -> RemoveValidator(s, c.who)
      [] c.kind \in {"increase", "decrease", "commission"} /\ c.who \notin DOMAIN s.stake -> s
      [] c.kind = "increase" /\ c.who \in DOMAIN s.stake ->
            [s EXCEPT !.stake[c.who] = (@ + c.amount) % Width, !.total = (@ + c.amount) % Width]
      [] c.kind = "decrease" /\ c.who \in DOMAIN s.stake ->
            [s EXCEPT !.stake[c.who] = SaturatingSub(@, c.amount), !.total = SaturatingSub(@, c.amount)]
      [] c.kind = "commission" /\ c.who \in DOMAIN s.stake ->
            [s EXCEPT !.commission[c.who] = IF c.rate > CommissionCap THEN CommissionCap ELSE c.rate]

Refused(c) == c.kind = "join" /\ c.amount < MinStake

\* The changes skew the total where it outgrows its width, a validator joins
\* twice or loses more than it has.
Skews(s, c) ==
    LET member == c.who \in DOMAIN s.stake
    IN \/ /\ c.kind = "join" \/ (c.kind = "increase" /\ member)
          /\ s.total + c.amount >= Width
       \/ c.kind = "join" /\ member /\ s.stake[c.who] # 0
       \/ c.kind = "decrease" /\ member /\ c.amount > s.stake[c.who]

QueueChange ==
    /\ Len(changes) < MaxChanges /\ advances < MaxAdvances
    /\ \E c \in Change : changes' = Append(changes, c)
    /\ UNCHANGED <<current, historical, advances, skewed>>

\* Mutant: the set is stored when the changes are in.
AdvanceEpochStoresLate ==
    LET After[i \in 0..Len(changes)] == IF i = 0 THEN current ELSE ApplyChange(After[i-1], changes[i])
        done == [After[Len(changes)] EXCEPT !.epoch = @ + 1]
    IN /\ advances < MaxAdvances
       /\ advances' = advances + 1
       /\ changes' = << >> /\ current' = done
       /\ historical' = Insert(historical, done.epoch, done)
       /\ UNCHANGED skewed

\* The set is stored, then the changes are applied up to the first refused one.
\* With one refused the epoch stays, and the changes after it are gone.
AdvanceEpoch ==
    LET After[i \in 0..Len(changes)] == IF i = 0 THEN current ELSE ApplyChange(After[i-1], changes[i])
        bad == {i \in DOMAIN changes : Refused(changes[i])}
        last == IF bad = {} THEN Len(changes) ELSE Min(bad) - 1
    IN /\ advances < MaxAdvances
       /\ advances' = advances + 1
       /\ changes' = << >>
       /\ historical' = Insert(historical, current.epoch, current)
       /\ current' = IF bad = {} THEN [After[last] EXCEPT !.epoch = @ + 1] ELSE After[last]
       /\ skewed' = (skewed \/ \E i \in 1..last : Skews(After[i-1], changes[i]))

\* The part of a stake that a slash takes, in unsigned arithmetic.
Penalty(staked, p) == ((staked * p) % Width) \div 10000

Slashed(s, a, cut) == [s EXCEPT !.stake[a] = @ - cut, !.total = (@ - cut) % Width]

Slash ==
    /\ \E a \in DOMAIN current.stake, p \in Percents :
        current' = Slashed(current, a, Penalty(current.stake[a], p))
    /\ UNCHANGED <<changes, historical, advances, skewed>>

Next == QueueChange \/ AdvanceEpoch \/ Slash

-----------------------------------------------------------------------------
(* Properties *)

\* Through every sequence of changes, slashes and refused epochs the total is
\* the sum of the stakes, unless it has outgrown its width, a validator joined
\* twice or was decreased by more than it had (advance_epoch, slash).
TotalStakeIsSum == ~skewed => current.total = SumFunction(current.stake)

\* The set of every past epoch can be looked up under its number
\* (advance_epoch, get_historical_set).
HistoryIsComplete ==
    \A e \in 0..(current.epoch - 1) : e \in DOMAIN historical /\ historical[e].epoch = e

\* What is recorded of an epoch that has ended never changes, so that evidence
\* is judged by the set of its time (advance_epoch, slash).
HistoryIsFixed ==
    [][\A e \in 0..(current.epoch - 1) :
          e \in DOMAIN historical => e \in DOMAIN historical' /\ historical'[e] = historical[e]
      ]_<<current, changes, historical, advances, skewed>>

\* Epochs that end, are refused half way or are followed by a slash leave the
\* current set summed up and the past ones complete and fixed.
EpochsAreRecorded == [](TotalStakeIsSum /\ HistoryIsComplete) /\ HistoryIsFixed
=============================================================================
