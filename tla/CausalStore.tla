---------------------------- MODULE CausalStore ----------------------------
(***************************************************************************)
(* What the DAG store promises, without buffers, indexes or threads: a     *)
(* vertex is delivered once, after all its parents, at the level one above *)
(* the highest of them; the finalized height only grows; and only whole    *)
(* levels below the finalized height are ever discarded.                   *)
(***************************************************************************)
EXTENDS Integers

CONSTANTS Hash, Genesis, Parents, MaxHeight

VARIABLES level, final

None == -1
Present == {h \in Hash : level[h] # None}

Init ==
    /\ level = [h \in Hash |-> None]
    /\ final = 0

LevelOf(h, n) ==
    IF Parents[h] = {} THEN n = 0
    ELSE /\ \E p \in Parents[h] : n = level[p] + 1
         /\ \A p \in Parents[h] : level[p] < n

Deliver(h, n) ==
    /\ level[h] = None
    /\ Parents[h] \subseteq Present
    /\ LevelOf(h, n)
    /\ level' = [level EXCEPT ![h] = n]
    /\ UNCHANGED final

Finalize(n) ==
    /\ n > final
    /\ final' = n
    /\ UNCHANGED level

Discard(k) ==
    /\ k < final
    /\ level' = [h \in Hash |-> IF level[h] < k THEN None ELSE level[h]]
    /\ UNCHANGED final

Next ==
    \/ \E h \in Hash, n \in 0 .. MaxHeight : Deliver(h, n)
    \/ \E n \in 0 .. MaxHeight : Finalize(n) \/ Discard(n)

Spec == Init /\ [][Next]_<<level, final>>
=============================================================================
