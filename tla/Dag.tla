-------------------------------- MODULE Dag --------------------------------
(***************************************************************************)
(* The vertex store of crates/nexus-dag/src/dag.rs: vertices, their        *)
(* status, the children, tip and height indexes, and the buffer of         *)
(* vertices whose parents have not arrived.                                *)
(*                                                                         *)
(* `Dag` is shared behind an Arc and every method takes &self: proposer,   *)
(* sync and finality tasks call it at the same time.  Each map is a        *)
(* DashMap, so a single map operation is atomic and a method is not.  A    *)
(* call of add_vertex is therefore a sequence of steps of its thread       *)
(* (pc), one step for each group of map operations that the races tell     *)
(* apart.  insert_vertex and process_orphans call each other; `waiting`    *)
(* is that recursion's stack, one set of orphans per frame.                *)
(*                                                                         *)
(* A vertex is known by its hash.  vertex_hash covers the parents, the     *)
(* transactions, the timestamp and the validator, so Parents and Stamp are *)
(* functions of the hash; it does not cover the height, which is why the   *)
(* height arrives beside the hash in every call.                           *)
(***************************************************************************)
EXTENDS Integers, Sequences

CONSTANTS
    Thread,      \* tasks that hold an Arc<Dag>
    Hash,        \* vertex hashes
    Genesis,     \* the vertex given to init_genesis
    Parents,     \* Parents[h]: the parent hashes of h
    Stamp,       \* Stamp[h]: the timestamp of h
    WellFormed,  \* hashes whose vertex passes verify_structure's counts, roots and hash
    Declared,    \* Declared[h]: the heights under which copies of h circulate
    MaxHeight,   \* bound on the heights of the instance
    Cutoffs,     \* the arguments prune is called with ({}: prune is never called)
    Early        \* hashes that may be added before init_genesis is called

Absent == -1
Height == 0 .. MaxHeight
PC == {"idle", "defer", "insert", "link", "take", "drain"}
Status == {"None", "AwaitingParents", "Confirmed", "Finalized"}

ASSUME DagAssumption ==
    /\ MaxHeight \in Nat
    /\ Genesis \in Hash \ WellFormed    \* its hash field is the zero hash
    /\ WellFormed \subseteq Hash
    /\ Parents \in [Hash -> SUBSET Hash]
    /\ Parents[Genesis] = {}
    /\ Stamp \in [Hash -> Nat]
    /\ Declared \in [Hash -> SUBSET Height]
    /\ Cutoffs \subseteq Height
    /\ Early \subseteq Hash

VARIABLES
    vertices,         \* height of each stored vertex, Absent for the others
    status,
    children,
    tips,
    byHeight,
    finalizedHeight,
    genesisSet,       \* genesis_hash is Some
    pending,          \* height of each buffered vertex, Absent for the others
    orphanDeps,       \* orphanDeps[p]: the vertices registered as waiting for p
    pc,               \* where each thread stands in its call
    job,              \* the vertex the thread is working on ...
    jobHeight,        \* ... its declared height ...
    missing,          \* ... and the parents it found missing
    waiting,          \* the stack of process_orphans frames of each thread
    accepted          \* history: vertices the DAG took charge of and did not prune

store == <<vertices, status, children, tips, byHeight, pending, orphanDeps>>
locals == <<job, jobHeight, missing, waiting>>
vars == <<store, finalizedHeight, genesisSet, pc, locals, accepted>>

Stored == {h \in Hash : vertices[h] # Absent}
Missing(h) == Parents[h] \ Stored
Idle(t) == pc[t] = "idle"
Quiet == \A t \in Thread : Idle(t)

-----------------------------------------------------------------------------
\* Dag::new
Init ==
    /\ vertices = [h \in Hash |-> Absent]
    /\ status = [h \in Hash |-> "None"]
    /\ children = [h \in Hash |-> {}]
    /\ tips = {}
    /\ byHeight = [n \in Height |-> {}]
    /\ finalizedHeight = 0
    /\ genesisSet = FALSE
    /\ pending = [h \in Hash |-> Absent]
    /\ orphanDeps = [h \in Hash |-> {}]
    /\ pc = [t \in Thread |-> "idle"]
    /\ job = [t \in Thread |-> Genesis]
    /\ jobHeight = [t \in Thread |-> 0]
    /\ missing = [t \in Thread |-> {}]
    /\ waiting = [t \in Thread |-> << >>]
    /\ accepted = {}

\* The second call returns an error.  The orphans of the genesis vertex are
\* not processed here: only insert_vertex calls process_orphans.
InitGenesis(t) ==
    /\ Idle(t)
    /\ ~genesisSet
    /\ genesisSet' = TRUE
    /\ vertices' = [vertices EXCEPT ![Genesis] = 0]
    /\ status' = [status EXCEPT ![Genesis] = "Finalized"]
    /\ byHeight' = [byHeight EXCEPT ![0] = @ \cup {Genesis}]
    /\ tips' = tips \cup {Genesis}
    /\ accepted' = accepted \cup {Genesis}
    /\ UNCHANGED <<children, pending, orphanDeps, finalizedHeight, pc, locals>>

VerifyStructure(h, n) ==
    /\ h \in WellFormed
    /\ Parents[h] = {} => n = 0

\* Only the parents present at the time of the call are looked at.  A
\* timestamp too far ahead of the local clock is refused as well: that call
\* changes nothing and is AddNoop.
VerifyTimestamp(h) == \A p \in Parents[h] \ Missing(h) : Stamp[p] <= Stamp[h]

\* Mutant: the declared height may be any height above the parents.
HeightFitsAbove(h, n) == \A p \in Parents[h] \ Missing(h) : vertices[p] < n

\* insert_vertex's check: one more than the greatest height among the parents
\* that are in the map, 0 when none of them is.
HeightFits(h, n) ==
    LET hs == {vertices[p] : p \in Parents[h] \ Missing(h)}
    IN IF hs = {} THEN n = 0
       ELSE \E m \in hs : n = m + 1 /\ \A k \in hs : k <= m

\* Mutant: no test for a vertex that is already stored.
AddVertexAgain(t, h, n) ==
    /\ Idle(t)
    /\ n \in Declared[h]
    /\ genesisSet \/ h \in Early
    /\ VerifyStructure(h, n)
    /\ VerifyTimestamp(h)
    /\ pc' = [pc EXCEPT ![t] = IF Missing(h) = {} THEN "insert" ELSE "defer"]
    /\ job' = [job EXCEPT ![t] = h]
    /\ jobHeight' = [jobHeight EXCEPT ![t] = n]
    /\ missing' = [missing EXCEPT ![t] = Missing(h)]
    /\ UNCHANGED <<store, finalizedHeight, genesisSet, waiting, accepted>>

\* add_vertex up to the test of the parents
AddVertex(t, h, n) ==
    /\ Idle(t)
    /\ n \in Declared[h]
    /\ genesisSet \/ h \in Early
    /\ vertices[h] = Absent
    /\ VerifyStructure(h, n)
    /\ VerifyTimestamp(h)
    /\ pc' = [pc EXCEPT ![t] = IF Missing(h) = {} THEN "insert" ELSE "defer"]
    /\ job' = [job EXCEPT ![t] = h]
    /\ jobHeight' = [jobHeight EXCEPT ![t] = n]
    /\ missing' = [missing EXCEPT ![t] = Missing(h)]
    /\ UNCHANGED <<store, finalizedHeight, genesisSet, waiting, accepted>>

\* add_vertex of a stored vertex (Ok) or of a vertex that fails verification
\* (Err): nothing changes.
AddNoop(t) ==
    /\ Idle(t)
    /\ \E h \in Hash :
          \/ vertices[h] # Absent
          \/ \E n \in Declared[h] : ~VerifyStructure(h, n)
          \/ ~VerifyTimestamp(h)
    /\ UNCHANGED vars

\* add_vertex registers an orphan under every parent it found missing; a copy
\* of the vertex already in `pending` is overwritten.
Defer(t) ==
    /\ pc[t] = "defer"
    /\ orphanDeps' = [p \in Hash |-> IF p \in missing[t]
                                     THEN orphanDeps[p] \cup {job[t]}
                                     ELSE orphanDeps[p]]
    /\ pending' = [pending EXCEPT ![job[t]] = jobHeight[t]]
    /\ status' = [status EXCEPT ![job[t]] = "AwaitingParents"]
    /\ accepted' = accepted \cup {job[t]}
    /\ pc' = [pc EXCEPT ![t] = "idle"]
    /\ UNCHANGED <<vertices, children, tips, byHeight, finalizedHeight,
                   genesisSet, locals>>

\* insert_vertex: the height check and the store
Insert(t) ==
    /\ pc[t] = "insert"
    /\ HeightFits(job[t], jobHeight[t])
    /\ vertices' = [vertices EXCEPT ![job[t]] = jobHeight[t]]
    /\ status' = [status EXCEPT ![job[t]] = "Confirmed"]
    /\ accepted' = accepted \cup {job[t]}
    /\ pc' = [pc EXCEPT ![t] = "link"]
    /\ UNCHANGED <<children, tips, byHeight, pending, orphanDeps,
                   finalizedHeight, genesisSet, locals>>

\* insert_vertex fails the height check.  The error leaves through every `?`
\* of the recursion: the orphans still on the stack are dropped from it.
InsertError(t) ==
    /\ pc[t] = "insert"
    /\ ~HeightFits(job[t], jobHeight[t])
    /\ pc' = [pc EXCEPT ![t] = "idle"]
    /\ waiting' = [waiting EXCEPT ![t] = << >>]
    /\ UNCHANGED <<store, finalizedHeight, genesisSet, job, jobHeight, missing,
                   accepted>>

\* Mutant: the height index forgets the other vertices of the height.
LinkOverwrites(t) ==
    /\ pc[t] = "link"
    /\ children' = [p \in Hash |-> IF p \in Parents[job[t]]
                                   THEN children[p] \cup {job[t]}
                                   ELSE children[p]]
    /\ tips' = (tips \ Parents[job[t]]) \cup {job[t]}
    /\ byHeight' = [byHeight EXCEPT ![jobHeight[t]] = {job[t]}]
    /\ pc' = [pc EXCEPT ![t] = "take"]
    /\ UNCHANGED <<vertices, status, pending, orphanDeps, finalizedHeight,
                   genesisSet, locals, accepted>>

\* Mutant: a vertex with several parents leaves them among the tips.
LinkKeepsTips(t) ==
    /\ pc[t] = "link"
    /\ children' = [p \in Hash |-> IF p \in Parents[job[t]]
                                   THEN children[p] \cup {job[t]}
                                   ELSE children[p]]
    /\ tips' = (tips \ {p \in Parents[job[t]] : Parents[job[t]] = {p}}) \cup {job[t]}
    /\ byHeight' = [byHeight EXCEPT ![jobHeight[t]] = @ \cup {job[t]}]
    /\ pc' = [pc EXCEPT ![t] = "take"]
    /\ UNCHANGED <<vertices, status, pending, orphanDeps, finalizedHeight,
                   genesisSet, locals, accepted>>

\* insert_vertex: children, tips and height index
Link(t) ==
    /\ pc[t] = "link"
    /\ children' = [p \in Hash |-> IF p \in Parents[job[t]]
                                   THEN children[p] \cup {job[t]}
                                   ELSE children[p]]
    /\ tips' = (tips \ Parents[job[t]]) \cup {job[t]}
    /\ byHeight' = [byHeight EXCEPT ![jobHeight[t]] = @ \cup {job[t]}]
    /\ pc' = [pc EXCEPT ![t] = "take"]
    /\ UNCHANGED <<vertices, status, pending, orphanDeps, finalizedHeight,
                   genesisSet, locals, accepted>>

\* Mutant: insert_vertex returns without process_orphans.
TakeWaitingSkipped(t) ==
    /\ pc[t] = "take"
    /\ waiting' = [waiting EXCEPT ![t] = Append(@, {})]
    /\ pc' = [pc EXCEPT ![t] = "drain"]
    /\ UNCHANGED <<store, finalizedHeight, genesisSet, job, jobHeight, missing, accepted>>

\* process_orphans claims the vertices registered under the new parent.
TakeWaiting(t) ==
    /\ pc[t] = "take"
    /\ waiting' = [waiting EXCEPT ![t] = Append(@, orphanDeps[job[t]])]
    /\ orphanDeps' = [orphanDeps EXCEPT ![job[t]] = {}]
    /\ pc' = [pc EXCEPT ![t] = "drain"]
    /\ UNCHANGED <<vertices, status, children, tips, byHeight, pending,
                   finalizedHeight, genesisSet, job, jobHeight, missing, accepted>>

Top(t) == waiting[t][Len(waiting[t])]
Pop(t) == SubSeq(waiting[t], 1, Len(waiting[t]) - 1)
DropFromTop(t, h) == Append(Pop(t), Top(t) \ {h})

\* process_orphans: the next claimed orphan has all its parents and is inserted.
DrainInsert(t, h) ==
    /\ pc[t] = "drain"
    /\ waiting[t] # << >>
    /\ h \in Top(t)
    /\ pending[h] # Absent
    /\ Missing(h) = {}
    /\ pending' = [pending EXCEPT ![h] = Absent]
    /\ job' = [job EXCEPT ![t] = h]
    /\ jobHeight' = [jobHeight EXCEPT ![t] = pending[h]]
    /\ waiting' = [waiting EXCEPT ![t] = DropFromTop(t, h)]
    /\ pc' = [pc EXCEPT ![t] = "insert"]
    /\ UNCHANGED <<vertices, status, children, tips, byHeight, orphanDeps,
                   finalizedHeight, genesisSet, missing, accepted>>

\* Mutant: an orphan that still misses parents is dropped.
DrainKeepForgets(t, h) ==
    /\ pc[t] = "drain"
    /\ waiting[t] # << >>
    /\ h \in Top(t)
    /\ pending[h] # Absent => Missing(h) # {}
    /\ pending' = [pending EXCEPT ![h] = Absent]
    /\ waiting' = [waiting EXCEPT ![t] = DropFromTop(t, h)]
    /\ UNCHANGED <<vertices, status, children, tips, byHeight, orphanDeps,
                   finalizedHeight, genesisSet, pc, job, jobHeight, missing,
                   accepted>>

\* process_orphans: the next claimed orphan still misses parents and is
\* registered under them again, or has left `pending` and is skipped.
DrainKeep(t, h) ==
    /\ pc[t] = "drain"
    /\ waiting[t] # << >>
    /\ h \in Top(t)
    /\ pending[h] # Absent => Missing(h) # {}
    /\ orphanDeps' = [p \in Hash |->
                         IF pending[h] # Absent /\ p \in Missing(h)
                         THEN orphanDeps[p] \cup {h}
                         ELSE orphanDeps[p]]
    /\ waiting' = [waiting EXCEPT ![t] = DropFromTop(t, h)]
    /\ UNCHANGED <<vertices, status, children, tips, byHeight, pending,
                   finalizedHeight, genesisSet, pc, job, jobHeight, missing,
                   accepted>>

\* The innermost process_orphans, and the insert_vertex around it, return.
DrainReturn(t) ==
    /\ pc[t] = "drain"
    /\ waiting[t] # << >>
    /\ Top(t) = {}
    /\ waiting' = [waiting EXCEPT ![t] = Pop(t)]
    /\ pc' = [pc EXCEPT ![t] = IF Len(waiting[t]) = 1 THEN "idle" ELSE "drain"]
    /\ UNCHANGED <<store, finalizedHeight, genesisSet, job, jobHeight, missing,
                   accepted>>

\* set_finalized_height: only the vertices indexed at exactly this height are
\* marked.  Its caller (apply_proof) passes the height of a vertex it has just
\* found in the DAG.
SetFinalizedHeight(t, n) ==
    /\ Idle(t)
    /\ \E h \in Stored : vertices[h] = n
    /\ n > finalizedHeight
    /\ finalizedHeight' = n
    /\ status' = [h \in Hash |-> IF h \in byHeight[n] THEN "Finalized" ELSE status[h]]
    /\ UNCHANGED <<vertices, children, tips, byHeight, pending, orphanDeps,
                   genesisSet, pc, locals, accepted>>

\* prune: the victims are found through the height index; tips, pending and
\* orphan_deps are left alone.
Pruned(k) == UNION {byHeight[n] : n \in {m \in Height : m < k}}

Prune(t, k) ==
    /\ Idle(t)
    /\ k \in Cutoffs
    /\ k < finalizedHeight
    /\ vertices' = [h \in Hash |-> IF h \in Pruned(k) THEN Absent ELSE vertices[h]]
    /\ status' = [h \in Hash |-> IF h \in Pruned(k) THEN "None" ELSE status[h]]
    /\ children' = [h \in Hash |-> IF h \in Pruned(k) THEN {} ELSE children[h]]
    /\ byHeight' = [n \in Height |-> IF n < k THEN {} ELSE byHeight[n]]
    /\ accepted' = accepted \ Pruned(k)
    /\ UNCHANGED <<tips, pending, orphanDeps, finalizedHeight, genesisSet, pc, locals>>

\* The steps a thread takes by itself once it is inside add_vertex.
Continue(t) ==
    \/ Defer(t)
    \/ Insert(t)
    \/ InsertError(t)
    \/ Link(t)
    \/ TakeWaiting(t)
    \/ \E h \in Hash : DrainInsert(t, h) \/ DrainKeep(t, h)
    \/ DrainReturn(t)

Next ==
    \E t \in Thread :
       \/ InitGenesis(t)
       \/ \E h \in Hash, n \in Height : AddVertex(t, h, n)
       \/ AddNoop(t)
       \/ Continue(t)
       \/ \E n \in Height : SetFinalizedHeight(t, n)
       \/ \E k \in Cutoffs : Prune(t, k)

Spec == Init /\ [][Next]_vars

\* A call that has started runs to its end: add_vertex blocks on nothing but
\* locks its callees hold for one map operation.
FairSpec == Spec /\ \A t \in Thread : WF_vars(Continue(t))

-----------------------------------------------------------------------------
(* Properties *)

\* The maps of the store, the calls in progress and the orphan stacks hold
\* vertices, heights and hashes, and Absent only where the code has no entry.
TypeOK ==
    /\ vertices \in [Hash -> Height \cup {Absent}]
    /\ status \in [Hash -> Status]
    /\ children \in [Hash -> SUBSET Hash]
    /\ tips \subseteq Hash
    /\ byHeight \in [Height -> SUBSET Hash]
    /\ finalizedHeight \in Height
    /\ genesisSet \in BOOLEAN
    /\ pending \in [Hash -> Height \cup {Absent}]
    /\ orphanDeps \in [Hash -> SUBSET Hash]
    /\ pc \in [Thread -> PC]
    /\ job \in [Thread -> Hash]
    /\ jobHeight \in [Thread -> Height]
    /\ missing \in [Thread -> SUBSET Hash]
    /\ waiting \in [Thread -> Seq(SUBSET Hash)]
    /\ accepted \subseteq Hash

\* The children map and the height index list exactly the stored vertices
\* once no call is in progress, whatever the order in which insert_vertex and
\* process_orphans filled them and prune emptied them.  (The entry of a pruned
\* parent is gone although children of it are stored.)
IndexesAgree ==
    Quiet => /\ \A p \in Stored : children[p] = {h \in Stored : p \in Parents[h]}
             /\ \A n \in Height : byHeight[n] = {h \in Stored : vertices[h] = n}

\* The tips are the stored vertices that no stored vertex names as a parent
\* ("vertices with no children"); hashes of pruned vertices may be among them.
TipsAreLeaves ==
    Quiet => tips \cap Stored = {h \in Stored : \A c \in Stored : h \notin Parents[c]}

\* The status map never contradicts the maps that hold the vertices.
StatusAgrees ==
    Quiet => \A h \in Hash :
                /\ status[h] = "AwaitingParents" <=> pending[h] # Absent
                /\ status[h] \in {"Confirmed", "Finalized"} <=> vertices[h] # Absent

\* add_vertex loses nothing it accepted: between calls such a vertex is
\* stored, or buffered and registered under a parent that is still missing, so
\* that the arrival of that parent brings it back.
NoneLost ==
    Quiet => \A h \in accepted :
                \/ h \in Stored
                \/ /\ pending[h] # Absent
                   /\ \E p \in Missing(h) : h \in orphanDeps[p]

\* A finalized vertex of which no copy is under way: none is buffered, and no
\* call that found it absent has still to write its status.
Settled(h) ==
    /\ h \in Stored
    /\ status[h] = "Finalized"
    /\ pending[h] = Absent
    /\ \A t \in Thread : pc[t] \in {"insert", "defer"} => job[t] # h

\* Finality is not taken back: once a finalized vertex is settled, no call of
\* any thread writes its status again, or gets into a position to, until it is
\* pruned.  (A copy under way resets it: insert_vertex of a second caller that
\* passed contains_key before the vertex was stored writes Confirmed, Defer
\* writes AwaitingParents.)
FinalityIsSticky ==
    [][\A h \in Hash : Settled(h) /\ vertices'[h] # Absent => Settled(h)']_vars

\* The promise of the store: vertices enter after their parents, one level
\* above the highest of them, and leave only from below the finalized height.
Causal == INSTANCE CausalStore WITH level <- vertices, final <- finalizedHeight
RefinesCausalStore == Causal!Spec

\* The orphan buffer catches up: an accepted vertex whose parents are all
\* stored, in whatever order they came, ends up stored itself.
CatchesUp ==
    \A h \in Hash : (h \in accepted /\ Parents[h] \subseteq Stored) ~> (h \in Stored)

\* With one caller the five maps of the store tell one story after every call.
MapsAgree == TypeOK /\ IndexesAgree /\ TipsAreLeaves /\ StatusAgrees
=============================================================================
