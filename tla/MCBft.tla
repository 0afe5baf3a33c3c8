------------------------------- MODULE MCBft -------------------------------
(***************************************************************************)
(* Instances of Bft: the engine of v1 among three validators.  With stakes *)
(* 1, 2, 1 a supermajority is v2 and one other validator.                  *)
(***************************************************************************)
EXTENDS Bft, TLC

CONSTANTS v1, v2, v3, t1, t2

OneTwoOne == [v \in {v1, v2, v3} |-> IF v = v2 THEN 2 ELSE 1]

\* The threads are interchangeable.
ThreadSymmetry == Permutations(Thread)
=============================================================================
