--------------------------------- MODULE Gas ---------------------------------
(***************************************************************************)
(* The fee market and the gas meter of crates/nexus-evm/src/gas.rs.  The   *)
(* base fee moves from block to block; within a transaction the meter is   *)
(* charged for the SSTOREs to one slot and collects their refunds.         *)
(***************************************************************************)
EXTENDS Integers, FiniteSetsExt

CONSTANTS
    Target,        \* target_gas_per_block; the limit is twice that
    Denominator,   \* max_change_denominator
    MinBaseFee,
    MaxBaseFee,    \* the optional cap; also bounds the model
    StartFee,
    ColdSload, SloadWarm, SstoreSet, SstoreReset, ClearRefund,   \* GasSchedule
    Slot,          \* storage values, 0 among them
    MeterLimit,    \* the gas limit of a transaction
    MaxWrites      \* bound on the SSTOREs of a transaction

VARIABLES
    baseFee,
    original,      \* the slot at the start of the transaction,
    current,       \* ... and now
    used,          \* gas_used of the meter
    refund,        \* the signed sum of the refunds of sstore_gas
    writes         \* the SSTOREs so far: the first one finds the slot cold

gasVars == <<baseFee, original, current, used, refund, writes>>

GasInit ==
    /\ baseFee = StartFee
    /\ original = 0 /\ current = 0
    /\ used = 0 /\ refund = 0 /\ writes = 0

\* baseFee * gas / target / denominator, each division rounding down
FeeDelta(gas) == ((baseFee * gas) \div Target) \div Denominator

\* FeeMarket::next_base_fee
NextBaseFee(gas) ==
    LET moved == IF gas > Target THEN baseFee + Max({FeeDelta(gas - Target), 1})
                 ELSE Max({baseFee - FeeDelta(Target - gas), 0})
    IN  IF gas = Target THEN baseFee ELSE Min({Max({moved, MinBaseFee}), MaxBaseFee})

\* Mutant: clearing a slot that is already dirty earns nothing.
SstoreRefundForgets(new) ==
    IF current = new THEN 0
    ELSE IF original = current THEN IF original # 0 /\ new = 0 THEN ClearRefund ELSE 0
    ELSE (IF original # 0 /\ current = 0 THEN -ClearRefund ELSE 0)
         + (IF original # new THEN 0
            ELSE IF original = 0 THEN SstoreSet - SloadWarm ELSE SstoreReset - SloadWarm)

\* GasMeter::sstore_gas, second component
SstoreRefund(new) ==
    IF current = new THEN 0
    ELSE IF original = current THEN IF original # 0 /\ new = 0 THEN ClearRefund ELSE 0
    ELSE (IF original = 0 THEN 0 ELSE IF current = 0 THEN -ClearRefund
          ELSE IF new = 0 THEN ClearRefund ELSE 0)
         + (IF original # new THEN 0
            ELSE IF original = 0 THEN SstoreSet - SloadWarm ELSE SstoreReset - SloadWarm)

\* ... and the first one: a value that is already dirty costs a warm read.
SstoreCost(new) ==
    (IF writes > 0 THEN 0 ELSE ColdSload)
    + (IF current = new \/ original # current THEN SloadWarm
       ELSE IF original = 0 THEN SstoreSet ELSE SstoreReset)

\* GasMeter::consume refuses what exceeds the limit.
Sstore(new) ==
    /\ writes < MaxWrites
    /\ used + SstoreCost(new) <= MeterLimit
    /\ used' = used + SstoreCost(new)
    /\ refund' = refund + SstoreRefund(new)
    /\ current' = new
    /\ writes' = writes + 1
    /\ UNCHANGED <<baseFee, original>>

Refunded == Min({refund, used \div 5})
FinalUsed == used - Refunded

\* The transaction ends; the next one starts with a fresh meter, from the
\* value in storage.
EndTransaction ==
    /\ original' = current
    /\ used' = 0 /\ refund' = 0 /\ writes' = 0
    /\ UNCHANGED <<baseFee, current>>

EndBlock(gas) ==
    /\ used = 0
    /\ baseFee' = NextBaseFee(gas)
    /\ UNCHANGED <<original, current, used, refund, writes>>

GasNext ==
    \/ \E v \in Slot : Sstore(v)
    \/ EndTransaction
    \/ \E gas \in 0 .. 2 * Target : EndBlock(gas)

GasSpec == GasInit /\ [][GasNext]_gasVars

-----------------------------------------------------------------------------
(* Properties *)

\* However often a slot is set, cleared and restored in one transaction, its
\* refunds never sum to a negative number: refund of the meter takes a u64.
RefundIsCovered == refund >= 0 /\ FinalUsed \in 0 .. used

\* A slot that is back at its original value has cost, after refunds, one cold
\* access and a warm read per SSTORE, whatever values it went through.
RestoringIsCheap ==
    current = original /\ writes > 0 => used - refund = ColdSload + writes * SloadWarm

\* Between two blocks the base fee moves by at most one part in Denominator (by
\* one where that rounds to nothing), rises after every block above target that
\* is not at the cap and never rises after one below it.
FeeIsBounded ==
    [][\A gas \in 0 .. 2 * Target : EndBlock(gas) =>
          /\ baseFee' \in MinBaseFee .. MaxBaseFee
          /\ Denominator * (baseFee' - baseFee) <= Max({baseFee, Denominator})
          /\ Denominator * (baseFee - baseFee') <= baseFee
          /\ gas > Target /\ baseFee < MaxBaseFee => baseFee' > baseFee
          /\ gas < Target => baseFee' <= baseFee]_gasVars

\* What a slot and a block cost stays within what was spent and near what it
\* was (sstore_gas, next_base_fee).
GasIsFair == [](RefundIsCovered /\ RestoringIsCheap) /\ FeeIsBounded
=============================================================================
