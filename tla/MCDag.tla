------------------------------- MODULE MCDag -------------------------------
(***************************************************************************)
(* Instances of Dag: a fork, a merge, and a vertex whose parents lie on    *)
(* different levels.                                                       *)
(***************************************************************************)
EXTENDS Dag

CONSTANTS g, a, b, c, d

\* g <- a, b; c merges a and b; d has the parents a and c.
BigParents == [h \in {g, a, b, c, d} |->
    CASE h = g -> {} [] h \in {a, b} -> {g} [] h = c -> {a, b} [] h = d -> {a, c}]
BigHeights == [h \in {g, a, b, c, d} |->
    CASE h = g -> {0} [] h \in {a, b} -> {1} [] h = c -> {2} [] h = d -> {3}]
BigStamp == [h \in {g, a, b, c, d} |->
    CASE h = g -> 0 [] h \in {a, b} -> 1 [] h \in {c, d} -> 2]

\* g <- a, b; c merges a and b
SmallParents == [h \in {g, a, b, c} |->
    CASE h = g -> {} [] h \in {a, b} -> {g} [] h = c -> {a, b}]
SmallHeights == [h \in {g, a, b, c} |->
    CASE h = g -> {0} [] h \in {a, b} -> {1} [] h = c -> {2}]
SmallStamp == [h \in {g, a, b, c} |-> IF h = g THEN 0 ELSE 1]
\* Copies of a circulate under a wrong height too: the hash does not cover it.
ForgedHeights == [SmallHeights EXCEPT ![a] = {1, 2}]
=============================================================================
