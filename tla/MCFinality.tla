----------------------------- MODULE MCFinality -----------------------------
(* Instances of Finality *)
EXTENDS Finality

CONSTANTS v1, v2, v3, g, a, b, c, d

\* With stakes 2, 1, 1 a supermajority of epoch 0 is v1 and one other
\* validator; v1 leaves in epoch 1.
TwoOneOne == [v \in {v1, v2, v3} |-> IF v = v1 THEN 2 ELSE 1]
Leaving == [e \in 0 .. 1 |-> IF e = 0 THEN {v1, v2, v3} ELSE {v2, v3}]

\* v3 is faulty: it votes for a, for b in a future round, and for a under a
\* wrong height.
Ballot(r, h, k) == [voter |-> v3, round |-> r, hash |-> h, height |-> k]
ForkBallots == {Ballot(0, a, 1), Ballot(1, b, 1), Ballot(0, a, 2)}

\* g <- a, g <- b
ForkParents == [h \in {g, a, b} |-> IF h = g THEN {} ELSE {g}]
ForkHeights == [h \in {g, a, b} |-> IF h = g THEN 0 ELSE 1]

\* Two validators of equal stake, none of them faulty
OneOne == [v \in {v1, v2} |-> 1]
Fixed == [e \in 0 .. 0 |-> {v1, v2}]
NoBallots == {}

\* Two vertices over genesis and two that merge them: both a and b are
\* ancestors of every tip.
LadderParents == [h \in {g, a, b, c, d} |->
    CASE h = g -> {} [] h \in {a, b} -> {g} [] h \in {c, d} -> {a, b}]
LadderHeights == [h \in {g, a, b, c, d} |->
    CASE h = g -> 0 [] h \in {a, b} -> 1 [] h \in {c, d} -> 2]
=============================================================================
