----------------------------- MODULE MCStaking -----------------------------
(* Instances of Staking *)
EXTENDS Staking

CONSTANTS v1, v2, d1, t1, t2

\* Stakes whose shares of an epoch's rewards do not divide evenly
Uneven == [v \in {v1, v2} |-> IF v = v1 THEN 1 ELSE 2]
FivePercent == [v \in {v1, v2} |-> 500]

\* The threads are interchangeable.
ThreadSymmetry == Permutations(Thread)
=============================================================================
