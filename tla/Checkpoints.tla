---------------------------- MODULE Checkpoints ----------------------------
(***************************************************************************)
(* CheckpointManager and the StateDb it replays changes on                 *)
(* (crates/nexus-state/src/checkpoint.rs, storage.rs).  An execution       *)
(* records what it changes and leaves a checkpoint; checkpoints are        *)
(* reverted in the reverse order, applied again, finalized and pruned.     *)
(*                                                                         *)
(* The database is one account with a balance, a nonce, a code and a slot. *)
(* A deleted and an absent account read alike.                             *)
(***************************************************************************)
EXTENDS Integers, SequencesExt

CONSTANTS
    CpVertex,       \* vertices with a state of their own
    CpParents,      \* CpParents[v]: the parents of v among them, in order
    Plans,          \* what executions do: sequences of steps
    MaxCheckpoints  \* bound on next_id

Field == {"balance", "nonce", "code", "slot"}
Absent == [f \in Field |-> 0]
EmptyCode == 2      \* the code hash of no code; the hash zero is 0

ASSUME CheckpointAssumption ==
    /\ CpParents \in [CpVertex -> Seq(CpVertex)]
    /\ MaxCheckpoints \in Nat
    /\ \A plan \in Plans :
        /\ plan \in Seq(Range(plan))
        /\ \A p \in Range(plan) : \/ p.kind \in {"created", "deleted"}
                                  \/ p.kind = "set" /\ p.field \in Field

VARIABLES
    db,
    cps,            \* checkpoints, by id
    byVertex,       \* vertex_to_checkpoint
    nextId,
    finalized,
    prune,          \* finalize between its write and prune_before, or 0
    applied,        \* history: the checkpoints in effect, in order
    saved,          \* history: the database each one was recorded on
    lossy,          \* history: a deletion of code or storage was reverted
    made            \* history: the vertex of every checkpoint ever created

cpVars == <<db, cps, byVertex, nextId, finalized, prune, applied, saved, lossy, made>>

CheckpointInit ==
    /\ db = Absent
    /\ cps = << >> /\ byVertex = << >>
    /\ nextId = 1 /\ finalized = 0 /\ prune = 0
    /\ applied = << >> /\ saved = << >> /\ lossy = FALSE /\ made = << >>

\* get_code of both hashes is the empty code.
Read(d, f) == IF f = "code" /\ d[f] = EmptyCode THEN 0 ELSE d[f]

\* set_balance, set_nonce, set_code and set_storage.
Write(d, f, v) == [d EXCEPT ![f] = IF f = "code" /\ v = 0 THEN EmptyCode ELSE v]

\* One change of apply_checkpoint
ApplyChange(d, c) ==
    CASE c.kind = "set" -> Write(d, c.field, c.new)
      [] c.kind = "created" -> d
      [] c.kind = "deleted" -> Absent

\* One change of revert_checkpoint.  A deletion brings balance and nonce back.
RevertChange(c, d) ==
    CASE c.kind = "set" -> Write(d, c.field, c.old)
      [] c.kind = "created" -> Absent
      [] c.kind = "deleted" -> Write(Write(d, "balance", c.balance), "nonce", c.nonce)

ApplyAll(d, changes) ==
    LET After[k \in 0..Len(changes)] == IF k = 0 THEN d ELSE ApplyChange(After[k - 1], changes[k])
    IN After[Len(changes)]

\* Mutant: the changes are undone in the order they were made.
RevertAllForward(d, changes) ==
    LET Back[k \in 0..Len(changes)] == IF k = 0 THEN d ELSE RevertChange(changes[k], Back[k - 1])
    IN Back[Len(changes)]

RevertAll(d, changes) ==
    LET Back[k \in 0..Len(changes)] ==
            IF k = 0 THEN d ELSE RevertChange(changes[Len(changes) - k + 1], Back[k - 1])
    IN Back[Len(changes)]

\* The StateChange record of a step, with the old value it finds
Record(d, p) ==
    CASE p.kind = "set" -> [kind |-> "set", field |-> p.field, old |-> Read(d, p.field), new |-> p.new]
      [] p.kind = "created" -> p
      [] p.kind = "deleted" -> [kind |-> "deleted", balance |-> d["balance"], nonce |-> d["nonce"]]

\* The states a plan goes through
States(d, plan) ==
    LET After[k \in 0..Len(plan)] ==
            IF k = 0 THEN d ELSE ApplyChange(After[k - 1], Record(After[k - 1], plan[k]))
    IN After

Recorded(d, plan) == [k \in 1..Len(plan) |-> Record(States(d, plan)[k - 1], plan[k])]

\* An account is created where there is none.
CanRun(d, plan) == \A k \in 1..Len(plan) : plan[k].kind = "created" => States(d, plan)[k - 1] = Absent

\* filter_map over parent_vertices: those without a checkpoint are skipped.
ParentIds(vs) ==
    LET Ids[k \in 0..Len(vs)] ==
            IF k = 0 THEN << >>
            ELSE IF vs[k] \in DOMAIN byVertex THEN Append(Ids[k - 1], byVertex[vs[k]]) ELSE Ids[k - 1]
    IN Ids[Len(vs)]

Insert(map, key, value) == [k \in DOMAIN map \cup {key} |-> IF k = key THEN value ELSE map[k]]

\* Execution of vertex v on the current state, then create_checkpoint.
CreateCheckpoint(v, plan) ==
    LET changes == Recorded(db, plan) IN
    /\ nextId <= MaxCheckpoints
    /\ CanRun(db, plan)
    /\ db' = ApplyAll(db, changes)
    /\ cps' = Insert(cps, nextId, [vertex |-> v, changes |-> changes, parents |-> ParentIds(CpParents[v])])
    /\ byVertex' = Insert(byVertex, v, nextId)
    /\ nextId' = nextId + 1
    /\ applied' = Append(applied, nextId)
    /\ saved' = Insert(saved, nextId, db)
    /\ made' = Insert(made, nextId, v)
    /\ UNCHANGED <<finalized, prune, lossy>>

Deletes(id) == \E k \in DOMAIN cps[id].changes : cps[id].changes[k].kind = "deleted"

\* revert_checkpoint of the last one in effect
RevertLast ==
    /\ applied # << >> /\ Last(applied) \in DOMAIN cps
    /\ db' = RevertAll(db, cps[Last(applied)].changes)
    /\ applied' = Front(applied)
    /\ lossy' = (lossy \/ Deletes(Last(applied)))
    /\ UNCHANGED <<cps, byVertex, nextId, finalized, prune, saved, made>>

\* apply_checkpoint of what was recorded on this very state
ApplyCheckpoint(id) ==
    /\ id \in DOMAIN cps /\ ~Contains(applied, id)
    /\ \A f \in Field : Read(db, f) = Read(saved[id], f)
    /\ db' = ApplyAll(db, cps[id].changes)
    /\ applied' = Append(applied, id)
    /\ UNCHANGED <<cps, byVertex, nextId, finalized, prune, saved, lossy, made>>

\* finalize up to the write; others run before it prunes.
Finalize(id) ==
    /\ prune = 0
    /\ id \in DOMAIN cps
    /\ finalized' = id /\ prune' = id
    /\ UNCHANGED <<db, cps, byVertex, nextId, applied, saved, lossy, made>>

\* Mutant: the vertex of the finalized checkpoint leaves the map as well.
PruneBeforeForgets ==
    LET old == {i \in DOMAIN cps : i < prune} IN
    /\ prune # 0
    /\ cps' = [id \in DOMAIN cps \ old |-> cps[id]]
    /\ byVertex' = [v \in DOMAIN byVertex \ {cps[i].vertex : i \in old \cup {prune}} |-> byVertex[v]]
    /\ prune' = 0
    /\ UNCHANGED <<db, nextId, finalized, applied, saved, lossy, made>>

\* prune_before: the entries of the vertices of what it removes leave the map,
\* also one that leads to a later checkpoint of the same vertex.
PruneBefore ==
    LET old == {i \in DOMAIN cps : i < prune} IN
    /\ prune # 0
    /\ cps' = [id \in DOMAIN cps \ old |-> cps[id]]
    /\ byVertex' = [v \in DOMAIN byVertex \ {cps[i].vertex : i \in old} |-> byVertex[v]]
    /\ prune' = 0
    /\ UNCHANGED <<db, nextId, finalized, applied, saved, lossy, made>>

CheckpointNext ==
    \/ \E v \in CpVertex, plan \in Plans : CreateCheckpoint(v, plan)
    \/ RevertLast
    \/ \E id \in 1 .. MaxCheckpoints : ApplyCheckpoint(id) \/ Finalize(id)
    \/ PruneBefore

CheckpointSpec == CheckpointInit /\ [][CheckpointNext]_cpVars

-----------------------------------------------------------------------------
(* Properties *)

\* get_chain_to_finalized
ChainToFinalized(from) ==
    LET up[id \in 0 .. MaxCheckpoints] ==
            IF id <= finalized THEN << >>
            ELSE IF id \notin DOMAIN cps \/ cps[id].parents = << >> THEN << id >>
            ELSE Append(up[cps[id].parents[1]], id)
    IN  up[from]

\* Reverting the last checkpoint restores the state it was recorded on, except
\* for code and storage once a deletion was reverted: its record holds only
\* balance and nonce.
RevertUndoesApply ==
    [][RevertLast =>
          \A f \in IF lossy' THEN {"balance", "nonce"} ELSE Field :
              Read(db', f) = Read(saved[Last(applied)], f)]_cpVars

\* Every entry of the vertex map leads to a checkpoint of that vertex, and to
\* the latest of them.
VertexMapIsCurrent ==
    \A v \in DOMAIN byVertex :
        /\ byVertex[v] \in DOMAIN cps
        /\ cps[byVertex[v]].vertex = v
        /\ \A id \in DOMAIN cps : cps[id].vertex = v => id <= byVertex[v]

\* get_checkpoint_for_vertex finds every checkpoint's vertex, unless an older
\* checkpoint of the same vertex was pruned: that removed the shared entry.
MissingWasPruned ==
    \A id \in DOMAIN cps :
        \/ cps[id].vertex \in DOMAIN byVertex
        \/ \E j \in DOMAIN made \ DOMAIN cps : j < id /\ made[j] = cps[id].vertex

\* Pruning never cuts a path: the first parents lead from any checkpoint to
\* one at or below the finalized one, or to a root.
ChainsReachFinality ==
    \A id \in DOMAIN cps :
        /\ \A p \in Range(cps[id].parents) : p < id /\ (p \in DOMAIN cps \/ p < finalized)
        /\ ToSet(ChainToFinalized(id)) \subseteq DOMAIN cps

\* The vertex map and the chains of parents survive revert, finalize and prune.
CheckpointsAreLinked == VertexMapIsCurrent /\ MissingWasPruned /\ ChainsReachFinality
=============================================================================
