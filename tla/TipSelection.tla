---------------------------- MODULE TipSelection ----------------------------
(***************************************************************************)
(* TipSelector::select and validate_parents: a selection reads the tips    *)
(* once, then weighs them or walks the graph one call at a time, while     *)
(* other threads insert vertices: insert_vertex stores a vertex, takes its *)
(* parents off the tips one by one and then adds the vertex to them.       *)
(* Probabilities are choices: every weight is positive, so a draw can      *)
(* return each candidate.                                                  *)
(***************************************************************************)
EXTENDS Integers, FiniteSets, FiniteSetsExt

CONSTANTS
    TsVertex,     \* the vertices that may arrive
    TsParents,    \* the parents each of them names
    TsGenesis,
    MaxParents,   \* MAX_PARENTS
    Inserters,    \* bound on the insertions under way
    Limits,       \* the <<min_parents, max_parents>> a selector may be built with
    Depths        \* the depths an MCMC selector may be configured with

VARIABLES
    tsDag,        \* the vertices in the DAG
    tipSet,       \* its tips
    opening,      \* the vertices being inserted, which are not tips yet
    toUnlink,     \* <<v, p>>: v has still to be entered as a child of p
    overtaken,    \* history: vertices that got a child while being inserted
    tsPc, strategy, depth, limits,
    tips,         \* the snapshot the selection works on
    weights,      \* weights computed so far
    at, steps,    \* the position of the walk and the steps it took
    todo,         \* walks, or draws, still to do
    picked,
    calm, still   \* history: no insertion under way at the snapshot, none begun since

dagVars == <<tsDag, tipSet, opening, toUnlink, overtaken>>

Snapshot == {"random", "weighted", "highest", "hybrid"}
MinOf == limits[1]
MaxOf == IF limits[2] > MaxParents THEN MaxParents ELSE limits[2]

\* What get_children returns
Children(v) == {c \in tsDag : v \in TsParents[c] /\ <<c, v>> \notin toUnlink}

\* Ancestors within n steps; with n the number of vertices, all of them.
Within(v, n) ==
    LET R[k \in 0..n] == IF k = 0 THEN {v} ELSE R[k-1] \cup UNION {TsParents[u] : u \in R[k-1]}
    IN R[n]
IsAncestor(a, v) == a \in Within(v, Cardinality(TsVertex))

\* The vertices that can be reached over children, v included
CalculateWeight(v) ==
    LET n == Cardinality(TsVertex)
        R[k \in 0..n] == IF k = 0 THEN {v} ELSE R[k-1] \cup UNION {Children(u) : u \in R[k-1]}
    IN Cardinality(R[n])

HeightOf[v \in TsVertex] ==
    IF TsParents[v] = {} THEN 0 ELSE 1 + Max({HeightOf[p] : p \in TsParents[v]})

\* Two parents if there are that many tips, within the configured limits.
SelectCount(n) ==
    IF n = 0 THEN 0
    ELSE LET two == IF n < 2 THEN n ELSE 2
             target == IF two < MinOf THEN MinOf ELSE two
         IN IF target > MaxOf THEN MaxOf ELSE target

\* Every vertex in the DAG is Confirmed or Finalized.
ValidateParents(ps) ==
    /\ ps # {} /\ Cardinality(ps) <= MaxParents
    /\ ps \subseteq tsDag
    /\ \A p, q \in ps : p # q => ~IsAncestor(p, q)

Init ==
    /\ tsDag = {TsGenesis} /\ tipSet = {TsGenesis}
    /\ opening = {} /\ toUnlink = {} /\ overtaken = {}
    /\ tsPc = "idle" /\ strategy = "random" /\ depth = 0 /\ limits \in Limits
    /\ tips = {} /\ weights = << >> /\ at = TsGenesis /\ steps = 0
    /\ todo = 0 /\ picked = {} /\ calm = TRUE /\ still = TRUE

\* Another thread stores a vertex whose parents are present, themselves perhaps
\* still being inserted.
Store(v) ==
    /\ v \notin tsDag /\ TsParents[v] \subseteq tsDag
    /\ Cardinality(opening) < Inserters
    /\ tsDag' = tsDag \cup {v} /\ opening' = opening \cup {v}
    /\ toUnlink' = toUnlink \cup ({v} \X TsParents[v])
    /\ overtaken' = overtaken \cup (TsParents[v] \cap opening)
    /\ still' = FALSE
    /\ UNCHANGED <<tipSet, tsPc, strategy, depth, limits, tips, weights, at, steps, todo, picked, calm>>

\* The child is entered and the parent taken off the tips: two locks, but a
\* selection reads the tips first and the children later.
Unlink(v) ==
    /\ \E p \in TsParents[v] :
         /\ <<v, p>> \in toUnlink
         /\ toUnlink' = toUnlink \ {<<v, p>>}
         /\ tipSet' = tipSet \ {p}
    /\ UNCHANGED <<tsDag, opening, overtaken, tsPc, strategy, depth, limits, tips, weights, at, steps, todo,
                   picked, calm, still>>

TipUp(v) ==
    /\ v \in opening /\ \A p \in TsParents[v] : <<v, p>> \notin toUnlink
    /\ tipSet' = tipSet \cup {v} /\ opening' = opening \ {v}
    /\ UNCHANGED <<tsDag, toUnlink, overtaken, tsPc, strategy, depth, limits, tips, weights, at, steps, todo,
                   picked, calm, still>>

Select ==
    /\ tsPc = "idle"
    /\ \E s \in Snapshot \cup {"mcmc"} :
        /\ strategy' = s
        /\ IF s = "mcmc" THEN depth' \in Depths ELSE depth' = 0
        /\ tsPc' = CASE s = "mcmc" -> "start" [] s = "random" -> "draw" [] OTHER -> "weigh"
    /\ tips' = tipSet
    /\ todo' = SelectCount(Cardinality(tipSet))
    /\ weights' = << >> /\ picked' = {} /\ at' = TsGenesis /\ steps' = 0
    /\ calm' = (opening = {}) /\ still' = TRUE
    /\ UNCHANGED <<dagVars, limits>>

\* calculate_weight of one tip after the other.
Weigh ==
    /\ tsPc = "weigh"
    /\ IF DOMAIN weights = tips
       THEN tsPc' = "draw" /\ UNCHANGED weights
       ELSE /\ \E t \in tips \ DOMAIN weights :
                 weights' = [u \in DOMAIN weights \cup {t} |->
                               IF u = t THEN CalculateWeight(t) ELSE weights[u]]
            /\ UNCHANGED tsPc
    /\ UNCHANGED <<dagVars, strategy, depth, limits, tips, at, steps, todo, picked, calm, still>>

\* Mutant: the tips are read again for every draw.
DrawFresh ==
    /\ tsPc = "draw"
    /\ IF todo = 0 \/ tipSet \ picked = {}
       THEN tsPc' = "done" /\ UNCHANGED <<picked, todo>>
       ELSE \E t \in tipSet \ picked : picked' = picked \cup {t} /\ todo' = todo - 1 /\ UNCHANGED tsPc
    /\ UNCHANGED <<dagVars, strategy, depth, limits, tips, weights, at, steps, calm, still>>

\* Draws without replacement; highest_weight takes the heaviest.
Draw ==
    /\ tsPc = "draw"
    /\ IF todo = 0 \/ tips \ picked = {}
       THEN tsPc' = "done" /\ UNCHANGED <<picked, todo>>
       ELSE \E t \in tips \ picked :
              /\ strategy = "highest" => \A u \in tips \ picked : weights[u] <= weights[t]
              /\ picked' = picked \cup {t}
              /\ todo' = todo - 1
              /\ UNCHANGED tsPc
    /\ UNCHANGED <<dagVars, strategy, depth, limits, tips, weights, at, steps, calm, still>>

\* MCMC: the next walk starts at a random tip; after the last one the
\* selection is filled up to min_parents with random tips.
StartWalk ==
    /\ tsPc = "start"
    /\ IF todo = 0
       THEN tsPc' = "fill" /\ UNCHANGED <<at, todo>>
       ELSE (\E t \in tips : at' = t) /\ todo' = todo - 1 /\ tsPc' = "back"
    /\ steps' = 0
    /\ UNCHANGED <<dagVars, strategy, depth, limits, tips, weights, picked, calm, still>>

WalkBack ==
    /\ tsPc = "back"
    /\ IF steps = depth \/ TsParents[at] = {}
       THEN tsPc' = "forward" /\ steps' = 0 /\ UNCHANGED at
       ELSE (\E p \in TsParents[at] : at' = p) /\ steps' = steps + 1 /\ UNCHANGED tsPc
    /\ UNCHANGED <<dagVars, strategy, depth, limits, tips, weights, todo, picked, calm, still>>

WalkForward ==
    /\ tsPc = "forward"
    /\ IF steps = depth \/ Children(at) = {}
       THEN tsPc' = "start" /\ picked' = picked \cup {at} /\ UNCHANGED <<at, steps>>
       ELSE (\E c \in Children(at) : at' = c) /\ steps' = steps + 1 /\ UNCHANGED <<tsPc, picked>>
    /\ UNCHANGED <<dagVars, strategy, depth, limits, tips, weights, todo, calm, still>>

\* Draws with replacement until there are enough: with fewer tips than
\* min_parents it never ends.
Fill ==
    /\ tsPc = "fill"
    /\ IF Cardinality(picked) < MinOf /\ tips # {}
       THEN \E t \in tips : picked' = picked \cup {t} /\ UNCHANGED tsPc
       ELSE tsPc' = "done" /\ UNCHANGED picked
    /\ UNCHANGED <<dagVars, strategy, depth, limits, tips, weights, at, steps, todo, calm, still>>

\* The caller takes the parents and the height, and may select again; the
\* locals of the call are gone.
Take ==
    /\ tsPc = "done" /\ tsPc' = "idle"
    /\ strategy' = "random" /\ depth' = 0
    /\ tips' = {} /\ weights' = << >> /\ at' = TsGenesis /\ steps' = 0
    /\ todo' = 0 /\ picked' = {} /\ calm' = TRUE /\ still' = TRUE
    /\ UNCHANGED <<dagVars, limits>>

SelectedHeight == IF picked = {} THEN 0 ELSE 1 + Max({HeightOf[p] : p \in picked})

Next ==
    \/ \E v \in TsVertex : Store(v) \/ Unlink(v) \/ TipUp(v)
    \/ Select \/ Weigh \/ Draw \/ StartWalk \/ WalkBack \/ WalkForward \/ Fill \/ Take

-----------------------------------------------------------------------------
(* Properties *)

Done == tsPc = "done"

\* No vertex below v, nor v itself, was given a child while it was inserted.
InOrder(v) == \A w \in overtaken : ~IsAncestor(w, v)

\* What a strategy draws from its snapshot passes validate_parents, however the
\* DAG has grown since: no parent is an ancestor of another (select,
\* validate_parents).  A vertex that was overtaken by its child becomes a tip
\* after it had one, and is excepted with its descendants.
SnapshotIsValid ==
    Done /\ strategy \in Snapshot /\ picked # {} /\ (\A p \in picked : InOrder(p))
        => ValidateParents(picked)

Leaves == {v \in tsDag : \A c \in tsDag : v \notin TsParents[c]}

\* A walk as deep as the DAG, over a DAG that does not change meanwhile, ends
\* at vertices without children, so that the selection is valid
\* (mcmc_selection).
WalkEndsAtTips ==
    Done /\ strategy = "mcmc" /\ calm /\ still /\ tips \cap overtaken = {}
         /\ (\A v \in tsDag : HeightOf[v] <= depth)
        => picked \subseteq Leaves /\ ValidateParents(picked)

\* Every selection yields distinct vertices of the DAG, at least min_parents
\* where there are that many tips, never more than the limit, and a height above
\* every parent; it is empty only if a vertex was being inserted when the tips
\* were read (select).
SelectionIsUsable ==
    Done => /\ picked = {} => tips = {} /\ ~calm
            /\ picked \subseteq tsDag
            /\ Cardinality(picked) <= MaxOf
            /\ Cardinality(tips) >= MinOf => Cardinality(picked) >= MinOf
            /\ \A p \in picked : SelectedHeight > HeightOf[p]

\* Every strategy selects parents that a vertex can be built on, while other
\* threads insert vertices (select).
SelectionHolds == SnapshotIsValid /\ WalkEndsAtTips /\ SelectionIsUsable
=============================================================================
