----------------------------- MODULE DagProofs -----------------------------
(***************************************************************************)
(* What holds of the DAG store for every set of vertices, every number of  *)
(* threads and every interleaving of their steps.                          *)
(***************************************************************************)
EXTENDS Dag, SequenceTheorems, TLAPS

-----------------------------------------------------------------------------
(* Type correctness *)

\* Popping process_orphans' stack, and dropping one orphan from its top frame,
\* leave a stack of sets of hashes.
LEMMA StackType ==
    ASSUME TypeOK, NEW t \in Thread, NEW h \in Hash, waiting[t] # << >>
    PROVE  /\ Top(t) \in SUBSET Hash
           /\ Pop(t) \in Seq(SUBSET Hash)
           /\ DropFromTop(t, h) \in Seq(SUBSET Hash)
<1> DEFINE s == waiting[t]
<1>1. s \in Seq(SUBSET Hash) /\ s # << >>
  BY DEF TypeOK
<1>2. Len(s) \in 1 .. Len(s) /\ Len(s) \in Nat
  BY <1>1
<1>3. s[Len(s)] \in SUBSET Hash
  BY <1>1, <1>2
<1>4. SubSeq(s, 1, Len(s) - 1) \in Seq(SUBSET Hash)
  BY <1>1, <1>2
<1>5. Append(SubSeq(s, 1, Len(s) - 1), s[Len(s)] \ {h}) \in Seq(SUBSET Hash)
  BY <1>3, <1>4
<1> QED
  BY <1>3, <1>4, <1>5 DEF Top, Pop, DropFromTop

\* Every step of every thread keeps the types.
LEMMA TypeStep == TypeOK /\ [Next]_vars => TypeOK'
<1> SUFFICES ASSUME TypeOK, [Next]_vars
             PROVE  TypeOK'
  OBVIOUS
<1> USE DagAssumption
<1>1. CASE UNCHANGED vars
  BY <1>1 DEF TypeOK, vars, store, locals
<1>2. ASSUME NEW t \in Thread, InitGenesis(t)
      PROVE  TypeOK'
  BY <1>2 DEF TypeOK, InitGenesis, store, locals, Height, Status
<1>3. ASSUME NEW t \in Thread, NEW h \in Hash, NEW n \in Height, AddVertex(t, h, n)
      PROVE  TypeOK'
  <2>1. Missing(h) \subseteq Hash
    BY DEF Missing
  <2> QED
    BY <1>3, <2>1 DEF TypeOK, AddVertex, store, locals, PC
<1>4. ASSUME NEW t \in Thread, Defer(t)
      PROVE  TypeOK'
  BY <1>4 DEF TypeOK, Defer, locals, Status, PC
<1>5. ASSUME NEW t \in Thread, Insert(t)
      PROVE  TypeOK'
  BY <1>5 DEF TypeOK, Insert, locals, Status, PC
<1>6. ASSUME NEW t \in Thread, InsertError(t)
      PROVE  TypeOK'
  BY <1>6 DEF TypeOK, InsertError, store, PC
<1>7. ASSUME NEW t \in Thread, Link(t)
      PROVE  TypeOK'
  BY <1>7 DEF TypeOK, Link, locals, PC
<1>8. ASSUME NEW t \in Thread, TakeWaiting(t)
      PROVE  TypeOK'
  <2>1. Append(waiting[t], orphanDeps[job[t]]) \in Seq(SUBSET Hash)
    BY DEF TypeOK
  <2> QED
    BY <1>8, <2>1 DEF TypeOK, TakeWaiting, PC
<1>9. ASSUME NEW t \in Thread, NEW h \in Hash, DrainInsert(t, h)
      PROVE  TypeOK'
  <2>1. DropFromTop(t, h) \in Seq(SUBSET Hash)
    BY <1>9, StackType DEF DrainInsert
  <2>2. pending[h] \in Height
    BY <1>9 DEF TypeOK, DrainInsert
  <2> QED
    BY <1>9, <2>1, <2>2 DEF TypeOK, DrainInsert, PC
<1>10. ASSUME NEW t \in Thread, NEW h \in Hash, DrainKeep(t, h)
       PROVE  TypeOK'
  <2>1. DropFromTop(t, h) \in Seq(SUBSET Hash)
    BY <1>10, StackType DEF DrainKeep
  <2> QED
    BY <1>10, <2>1 DEF TypeOK, DrainKeep
<1>11. ASSUME NEW t \in Thread, DrainReturn(t)
       PROVE  TypeOK'
  <2>1. Pop(t) \in Seq(SUBSET Hash)
    BY <1>11, StackType, Genesis \in Hash DEF DrainReturn
  <2> QED
    BY <1>11, <2>1 DEF TypeOK, DrainReturn, store, PC
<1>12. ASSUME NEW t \in Thread, NEW n \in Height, SetFinalizedHeight(t, n)
       PROVE  TypeOK'
  BY <1>12 DEF TypeOK, SetFinalizedHeight, locals, Status
<1>13. ASSUME NEW t \in Thread, NEW k \in Cutoffs, Prune(t, k)
       PROVE  TypeOK'
  BY <1>13 DEF TypeOK, Prune, locals, Status
<1>14. ASSUME NEW t \in Thread, AddNoop(t)
       PROVE  TypeOK'
  BY <1>14 DEF TypeOK, AddNoop, vars, store, locals
<1> QED
  BY <1>1, <1>2, <1>3, <1>4, <1>5, <1>6, <1>7, <1>8, <1>9, <1>10, <1>11, <1>12,
     <1>13, <1>14 DEF Next, Continue

\* The state of the store is well typed in every reachable state.
THEOREM TypeCorrect == Spec => []TypeOK
<1>1. Init => TypeOK
  <2>1. 0 \in Height /\ << >> \in Seq(SUBSET Hash) /\ Genesis \in Hash
    BY DagAssumption DEF Height
  <2> SUFFICES ASSUME Init
               PROVE  TypeOK
    OBVIOUS
  <2>2. /\ vertices \in [Hash -> Height \cup {Absent}]
        /\ status \in [Hash -> Status]
        /\ children \in [Hash -> SUBSET Hash]
        /\ tips \subseteq Hash
        /\ byHeight \in [Height -> SUBSET Hash]
        /\ finalizedHeight \in Height
        /\ genesisSet \in BOOLEAN
    BY <2>1 DEF Init, Status
  <2>3. /\ pending \in [Hash -> Height \cup {Absent}]
        /\ orphanDeps \in [Hash -> SUBSET Hash]
        /\ accepted \subseteq Hash
    BY <2>1 DEF Init
  <2>4. /\ pc \in [Thread -> PC]
        /\ job \in [Thread -> Hash]
        /\ jobHeight \in [Thread -> Height]
        /\ missing \in [Thread -> SUBSET Hash]
        /\ waiting \in [Thread -> Seq(SUBSET Hash)]
    BY <2>1 DEF Init, PC
  <2> QED
    BY <2>2, <2>3, <2>4 DEF TypeOK
<1> QED
  BY <1>1, TypeStep, PTL DEF Spec

-----------------------------------------------------------------------------
(* The store implements CausalStore when prune is not called. *)

\* The inductive invariant.  A vertex is only stored by a thread that has seen
\* all its parents stored, and without prune they stay stored; so every stored
\* vertex sits above all its parents, and a vertex that two threads store at
\* the same time gets the same height twice.  The genesis vertex enters through
\* init_genesis alone: its hash field does not verify.
CausalInv ==
    /\ \A t \in Thread : pc[t] # "idle" => job[t] \in WellFormed
    /\ \A h \in Hash : pending[h] # Absent => h \in WellFormed
    /\ vertices[Genesis] # Absent => genesisSet
    /\ \A t \in Thread : pc[t] = "insert" => Parents[job[t]] \subseteq Stored
    /\ \A h \in Stored : Parents[h] \subseteq Stored /\ Causal!LevelOf(h, vertices[h])

\* insert_vertex's height check computes CausalStore's level when no parent is
\* missing.
LEMMA FitsIsLevel ==
    ASSUME TypeOK, NEW h \in Hash, NEW n \in Height,
           Parents[h] \subseteq Stored, HeightFits(h, n)
    PROVE  Causal!LevelOf(h, n)
<1>1. Parents[h] \ Missing(h) = Parents[h]
  BY DEF Missing
<1>2. \A p \in Parents[h] : vertices[p] \in Int
  BY DagAssumption DEF TypeOK, Height, Absent
<1>3. CASE Parents[h] = {}
  BY <1>1, <1>3 DEF HeightFits, Causal!LevelOf
<1>4. CASE Parents[h] # {}
  <2>1. PICK m \in {vertices[p] : p \in Parents[h]} :
           n = m + 1 /\ \A k \in {vertices[p] : p \in Parents[h]} : k <= m
    BY <1>1, <1>4 DEF HeightFits
  <2>2. PICK p \in Parents[h] : m = vertices[p]
    BY <2>1
  <2>3. \A q \in Parents[h] : vertices[q] < n
    BY <1>2, <2>1, <2>2
  <2> QED
    BY <1>4, <2>1, <2>2, <2>3 DEF Causal!LevelOf
<1> QED
  BY <1>3, <1>4

\* The level of a vertex is unique.
LEMMA LevelUnique ==
    ASSUME TypeOK, NEW h \in Hash, NEW m \in Height, NEW n \in Height,
           Causal!LevelOf(h, m), Causal!LevelOf(h, n)
    PROVE  m = n
<1>1. \A p \in Parents[h] : vertices[p] \in Int
  BY DagAssumption DEF TypeOK, Height, Absent
<1>2. m \in Int /\ n \in Int
  BY DEF Height
<1> QED
  BY <1>1, <1>2 DEF Causal!LevelOf

\* A step that leaves the stored vertices alone keeps the causal part of the
\* invariant.
LEMMA LevelStable ==
    ASSUME CausalInv, vertices' = vertices
    PROVE  /\ Stored' = Stored
           /\ \A h \in Stored' : /\ Parents[h] \subseteq Stored'
                                 /\ Causal!LevelOf(h, vertices[h])'
BY DEF CausalInv, Stored, Causal!LevelOf

\* Storing a vertex whose parents are stored, at its level, is a step of
\* CausalStore and keeps the causal part of the invariant.
LEMMA StoreStep ==
    ASSUME TypeOK, CausalInv, NEW h \in Hash, NEW n \in Height,
           Parents[h] \subseteq Stored, Causal!LevelOf(h, n),
           vertices' = [vertices EXCEPT ![h] = n],
           finalizedHeight' = finalizedHeight
    PROVE  /\ Causal!Next \/ UNCHANGED <<vertices, finalizedHeight>>
           /\ Stored \subseteq Stored'
           /\ \A k \in Stored' : /\ Parents[k] \subseteq Stored'
                                 /\ Causal!LevelOf(k, vertices[k])'
<1>1. n # Absent
  BY DagAssumption DEF Height, Absent
<1>2. Stored' = Stored \cup {h}
  BY <1>1 DEF Stored, TypeOK
<1>3. CASE vertices[h] = Absent
  <2>1. \A k \in Stored : k # h /\ vertices'[k] = vertices[k]
    BY <1>3 DEF Stored, TypeOK
  <2>2. \A k \in Stored : \A p \in Parents[k] : vertices'[p] = vertices[p]
    BY <2>1 DEF CausalInv
  <2>3. \A p \in Parents[h] : vertices'[p] = vertices[p]
    BY <2>1
  <2>4. \A k \in Stored : Causal!LevelOf(k, vertices[k])'
    BY <2>1, <2>2 DEF CausalInv, Causal!LevelOf
  <2>5. Causal!LevelOf(h, vertices[h])'
    BY <2>3 DEF TypeOK, Causal!LevelOf
  <2>6. Causal!Deliver(h, n)
    BY <1>3 DEF Causal!Deliver, Causal!Present, Causal!None, Stored, Absent
  <2>7. Causal!Next
    BY <2>6 DEF Causal!Next, Height
  <2> QED
    BY <1>2, <2>4, <2>5, <2>7 DEF CausalInv
<1>4. CASE vertices[h] # Absent
  <2>1. h \in Stored /\ vertices[h] \in Height
    BY <1>4 DEF Stored, TypeOK
  <2>2. vertices[h] = n
    BY <2>1, LevelUnique DEF CausalInv
  <2>3. vertices' = vertices
    BY <2>2 DEF TypeOK
  <2> QED
    BY <2>3, LevelStable
<1> QED
  BY <1>3, <1>4

\* A step of a thread that stores nothing keeps the causal part of the
\* invariant; what is left to show is about the thread itself.
LEMMA QuietStep ==
    ASSUME TypeOK, CausalInv, vertices' = vertices,
           finalizedHeight' = finalizedHeight,
           \A t \in Thread : pc'[t] # "idle" => job'[t] \in WellFormed,
           \A h \in Hash : pending'[h] # Absent => h \in WellFormed,
           genesisSet => genesisSet',
           \A t \in Thread : pc'[t] = "insert" => Parents[job'[t]] \subseteq Stored
    PROVE  CausalInv' /\ [Causal!Next]_<<vertices, finalizedHeight>>
<1>1. Stored' = Stored
  BY DEF Stored
<1>2. vertices'[Genesis] # Absent => genesisSet'
  BY DEF CausalInv
<1>3. \A h \in Stored' : /\ Parents[h] \subseteq Stored'
                         /\ Causal!LevelOf(h, vertices[h])'
  BY LevelStable
<1> QED
  BY <1>1, <1>2, <1>3 DEF CausalInv

\* Every step of every thread keeps the invariant and is a step of
\* CausalStore, or leaves its variables alone.
LEMMA CausalStep ==
    ASSUME Cutoffs = {}, TypeOK, CausalInv, [Next]_vars
    PROVE  CausalInv' /\ [Causal!Next]_<<vertices, finalizedHeight>>
<1> DEFINE Goal == CausalInv' /\ [Causal!Next]_<<vertices, finalizedHeight>>
<1> USE DagAssumption
<1>1. CASE UNCHANGED vars
  BY <1>1, QuietStep DEF vars, store, locals, CausalInv
<1>2. ASSUME NEW t \in Thread, InitGenesis(t)
      PROVE  Goal
  <2>1. vertices' = [vertices EXCEPT ![Genesis] = 0] /\ finalizedHeight' = finalizedHeight
    BY <1>2 DEF InitGenesis
  <2>2. 0 \in Height /\ Genesis \in Hash /\ Parents[Genesis] = {}
    BY DEF Height
  <2>3. Causal!LevelOf(Genesis, 0) /\ Parents[Genesis] \subseteq Stored
    BY <2>2 DEF Causal!LevelOf
  <2>4. /\ Causal!Next \/ UNCHANGED <<vertices, finalizedHeight>>
        /\ Stored \subseteq Stored'
        /\ \A k \in Stored' : /\ Parents[k] \subseteq Stored'
                              /\ Causal!LevelOf(k, vertices[k])'
    BY <2>1, <2>2, <2>3, StoreStep
  <2>5. pc' = pc /\ job' = job /\ pending' = pending /\ genesisSet'
    BY <1>2 DEF InitGenesis, locals
  <2> QED
    BY <2>4, <2>5 DEF CausalInv
<1>3. ASSUME NEW t \in Thread, NEW h \in Hash, NEW n \in Height, AddVertex(t, h, n)
      PROVE  Goal
  <2>1. h \in WellFormed
    BY <1>3 DEF AddVertex, VerifyStructure
  <2>2. Missing(h) = {} => Parents[h] \subseteq Stored
    BY DEF Missing
  <2>3. /\ vertices' = vertices /\ finalizedHeight' = finalizedHeight
        /\ pending' = pending /\ genesisSet' = genesisSet
        /\ pc' = [pc EXCEPT ![t] = IF Missing(h) = {} THEN "insert" ELSE "defer"]
        /\ job' = [job EXCEPT ![t] = h]
    BY <1>3 DEF AddVertex, store
  <2>4. \A u \in Thread : pc'[u] # "idle" => job'[u] \in WellFormed
    BY <2>1, <2>3 DEF CausalInv, TypeOK
  <2>5. \A u \in Thread : pc'[u] = "insert" => Parents[job'[u]] \subseteq Stored
    BY <2>2, <2>3 DEF CausalInv, TypeOK
  <2> QED
    BY <2>3, <2>4, <2>5, QuietStep DEF CausalInv
<1>4. ASSUME NEW t \in Thread, Defer(t)
      PROVE  Goal
  <2>1. job[t] \in WellFormed
    BY <1>4 DEF Defer, CausalInv
  <2>2. \A h \in Hash : pending'[h] # Absent => h \in WellFormed
    BY <1>4, <2>1 DEF Defer, CausalInv, TypeOK
  <2>3. \A u \in Thread : pc'[u] # "idle" => pc'[u] = pc[u]
    BY <1>4 DEF Defer, TypeOK
  <2>4. /\ vertices' = vertices /\ finalizedHeight' = finalizedHeight
        /\ genesisSet' = genesisSet /\ job' = job
    BY <1>4 DEF Defer, locals
  <2> QED
    BY <2>2, <2>3, <2>4, QuietStep DEF CausalInv
<1>5. ASSUME NEW t \in Thread, Insert(t)
      PROVE  Goal
  <2>1. vertices' = [vertices EXCEPT ![job[t]] = jobHeight[t]]
        /\ finalizedHeight' = finalizedHeight
    BY <1>5 DEF Insert
  <2>2. /\ job[t] \in Hash /\ jobHeight[t] \in Height
        /\ Parents[job[t]] \subseteq Stored /\ HeightFits(job[t], jobHeight[t])
        /\ job[t] # Genesis
    BY <1>5 DEF Insert, TypeOK, CausalInv
  <2>3. Causal!LevelOf(job[t], jobHeight[t])
    BY <2>2, FitsIsLevel
  <2>4. /\ Causal!Next \/ UNCHANGED <<vertices, finalizedHeight>>
        /\ Stored \subseteq Stored'
        /\ \A k \in Stored' : /\ Parents[k] \subseteq Stored'
                              /\ Causal!LevelOf(k, vertices[k])'
    BY <2>1, <2>2, <2>3, StoreStep
  <2>5. /\ \A u \in Thread : pc'[u] # "idle" => pc[u] # "idle"
        /\ \A u \in Thread : pc'[u] = "insert" => pc[u] = "insert"
        /\ job' = job /\ pending' = pending /\ genesisSet' = genesisSet
    BY <1>5 DEF Insert, locals, TypeOK
  <2>6. vertices'[Genesis] = vertices[Genesis]
    BY <2>1, <2>2 DEF TypeOK
  <2>7. \A u \in Thread : pc'[u] = "insert" => Parents[job'[u]] \subseteq Stored'
    BY <2>4, <2>5 DEF CausalInv
  <2> QED
    BY <2>4, <2>5, <2>6, <2>7 DEF CausalInv
<1>6. ASSUME NEW t \in Thread, InsertError(t) \/ DrainReturn(t)
      PROVE  Goal
  <2>1. \A u \in Thread : pc'[u] # "idle" => pc'[u] = pc[u]
    BY <1>6 DEF InsertError, DrainReturn, TypeOK
  <2>2. /\ vertices' = vertices /\ finalizedHeight' = finalizedHeight
        /\ genesisSet' = genesisSet /\ job' = job /\ pending' = pending
    BY <1>6 DEF InsertError, DrainReturn, store
  <2> QED
    BY <2>1, <2>2, QuietStep DEF CausalInv
<1>7. ASSUME NEW t \in Thread, Link(t) \/ TakeWaiting(t)
      PROVE  Goal
  <2>1. \A u \in Thread : /\ pc'[u] # "idle" => pc[u] # "idle"
                          /\ pc'[u] = "insert" => pc[u] = "insert"
    BY <1>7 DEF Link, TakeWaiting, TypeOK
  <2>2. /\ vertices' = vertices /\ finalizedHeight' = finalizedHeight
        /\ genesisSet' = genesisSet /\ job' = job /\ pending' = pending
    BY <1>7 DEF Link, TakeWaiting, locals
  <2> QED
    BY <2>1, <2>2, QuietStep DEF CausalInv
<1>8. ASSUME NEW t \in Thread, NEW h \in Hash, DrainInsert(t, h)
      PROVE  Goal
  <2>1. h \in WellFormed /\ Parents[h] \subseteq Stored
    BY <1>8 DEF DrainInsert, CausalInv, Missing
  <2>2. /\ vertices' = vertices /\ finalizedHeight' = finalizedHeight
        /\ genesisSet' = genesisSet
        /\ pending' = [pending EXCEPT ![h] = Absent]
        /\ job' = [job EXCEPT ![t] = h]
        /\ pc' = [pc EXCEPT ![t] = "insert"]
    BY <1>8 DEF DrainInsert
  <2>3. \A k \in Hash : pending'[k] # Absent => pending[k] # Absent
    BY <2>2 DEF TypeOK
  <2>4. \A u \in Thread : /\ pc'[u] # "idle" => job'[u] \in WellFormed
                          /\ pc'[u] = "insert" => Parents[job'[u]] \subseteq Stored
    BY <2>1, <2>2 DEF CausalInv, TypeOK
  <2> QED
    BY <2>2, <2>3, <2>4, QuietStep DEF CausalInv
<1>9. ASSUME NEW t \in Thread, NEW h \in Hash, DrainKeep(t, h)
      PROVE  Goal
  <2>1. /\ vertices' = vertices /\ finalizedHeight' = finalizedHeight
        /\ genesisSet' = genesisSet /\ pending' = pending
        /\ job' = job /\ pc' = pc
    BY <1>9 DEF DrainKeep
  <2> QED
    BY <2>1, QuietStep DEF CausalInv
<1>10. ASSUME NEW t \in Thread, NEW n \in Height, SetFinalizedHeight(t, n)
       PROVE  Goal
  <2>1. /\ vertices' = vertices /\ finalizedHeight' = n /\ n > finalizedHeight
        /\ genesisSet' = genesisSet /\ pending' = pending
        /\ job' = job /\ pc' = pc
    BY <1>10 DEF SetFinalizedHeight, locals
  <2>2. Causal!Next
    BY <2>1 DEF Causal!Next, Causal!Finalize, Height
  <2>3. CausalInv'
    BY <2>1, LevelStable DEF CausalInv
  <2> QED
    BY <2>2, <2>3
<1>11. ASSUME NEW t \in Thread, AddNoop(t)
       PROVE  Goal
  BY <1>1, <1>11 DEF AddNoop
<1> QED
  BY <1>1, <1>2, <1>3, <1>4, <1>5, <1>6, <1>7, <1>8, <1>9, <1>10, <1>11
     DEF Next, Continue

\* The invariant of the store, for every interleaving of any number of
\* threads: whatever is stored has all its parents stored, on lower levels.
THEOREM ParentsBelow ==
    ASSUME Cutoffs = {}
    PROVE  Spec => []CausalInv
<1>1. Init => CausalInv
  <2>1. Genesis \in Hash
    BY DagAssumption
  <2> SUFFICES ASSUME Init
               PROVE  CausalInv
    OBVIOUS
  <2>2. Stored = {} /\ vertices[Genesis] = Absent
    BY <2>1 DEF Init, Stored
  <2>3. \A t \in Thread : pc[t] = "idle"
    BY DEF Init
  <2>4. \A h \in Hash : pending[h] = Absent
    BY DEF Init
  <2> QED
    BY <2>2, <2>3, <2>4 DEF CausalInv
<1>2. TypeOK /\ CausalInv /\ [Next]_vars => CausalInv'
  BY CausalStep
<1> QED
  BY <1>1, <1>2, TypeCorrect, PTL DEF Spec

\* Without prune, the store implements CausalStore: whatever the interleaving
\* of the threads and the order of arrival, a vertex is delivered once, after
\* its parents, one level above the highest of them.
THEOREM DagRefinesCausalStore ==
    ASSUME Cutoffs = {}
    PROVE  Spec => RefinesCausalStore
<1>1. Init => Causal!Init
  BY DEF Init, Causal!Init, Absent, Causal!None
<1>2. TypeOK /\ CausalInv /\ [Next]_vars => [Causal!Next]_<<vertices, finalizedHeight>>
  BY CausalStep
<1> QED
  BY <1>1, <1>2, TypeCorrect, ParentsBelow, PTL DEF Spec, RefinesCausalStore, Causal!Spec

-----------------------------------------------------------------------------
(* The indexes, for any number of callers *)

\* A stored vertex that some thread has still to enter into the indexes.
Unlinked(h) == \E t \in Thread : pc[t] = "link" /\ job[t] = h

\* The inductive invariant behind IndexesAgree: the indexes never list more
\* than the store, and what they lack a thread is about to enter under the
\* height the store has for it.
IndexInv ==
    /\ \A t \in Thread : pc[t] = "link" => vertices[job[t]] = jobHeight[t]
    /\ \A p \in Hash : children[p] \subseteq {h \in Stored : p \in Parents[h]}
    /\ \A h \in Stored : \A p \in Parents[h] : h \in children[p] \/ Unlinked(h)
    /\ \A n \in Height : byHeight[n] \subseteq {h \in Stored : vertices[h] = n}
    /\ \A h \in Stored : h \in byHeight[vertices[h]] \/ Unlinked(h)

\* A step that changes neither the store nor the indexes, and neither starts nor
\* ends an insertion, keeps them in agreement.
LEMMA IndexQuiet ==
    ASSUME IndexInv, UNCHANGED <<vertices, children, byHeight>>,
           \A t \in Thread : pc'[t] = "link" <=> pc[t] = "link",
           \A t \in Thread : pc[t] = "link" =>
              job'[t] = job[t] /\ jobHeight'[t] = jobHeight[t]
    PROVE  IndexInv'
<1>1. Stored' = Stored
  BY DEF Stored
<1>2. \A h : Unlinked(h)' <=> Unlinked(h)
  BY DEF Unlinked
<1> QED
  BY <1>1, <1>2 DEF IndexInv

\* Every step keeps the indexes in agreement with the store, up to the vertices
\* that are being linked.
LEMMA IndexStep ==
    ASSUME Cutoffs = {}, TypeOK, CausalInv, IndexInv, [Next]_vars
    PROVE  IndexInv'
<1> USE DagAssumption
<1>0. \A n \in Height : n # Absent
  BY DEF Height, Absent
<1>1. CASE UNCHANGED vars
  BY <1>1, IndexQuiet DEF vars, store, locals
<1>2. ASSUME NEW t \in Thread, InitGenesis(t)
      PROVE  IndexInv'
  <2>1. 0 \in Height /\ vertices[Genesis] = Absent /\ Genesis \in Hash
    BY <1>2 DEF InitGenesis, CausalInv, Height
  <2>2. /\ Stored' = Stored \cup {Genesis} /\ Genesis \notin Stored
        /\ vertices'[Genesis] = 0 /\ \A h \in Stored : vertices'[h] = vertices[h]
    BY <1>0, <1>2, <2>1 DEF InitGenesis, Stored, TypeOK
  <2>3. \A h : Unlinked(h)' <=> Unlinked(h)
    BY <1>2 DEF InitGenesis, Unlinked, locals
  <2>4. \A u \in Thread : pc'[u] = "link" => vertices'[job'[u]] = jobHeight'[u]
    <3>1. \A u \in Thread : pc[u] = "link" => job[u] # Genesis /\ job[u] \in Hash
      BY DEF CausalInv, TypeOK
    <3> QED
      BY <1>2, <3>1 DEF InitGenesis, IndexInv, locals, TypeOK
  <2>5. byHeight' = [byHeight EXCEPT ![0] = @ \cup {Genesis}] /\ children' = children
    BY <1>2 DEF InitGenesis
  <2>6. \A n \in Height : byHeight'[n] \subseteq {h \in Stored' : vertices'[h] = n}
    BY <2>1, <2>2, <2>5 DEF IndexInv, TypeOK
  <2>7. \A h \in Stored' : h \in byHeight'[vertices'[h]] \/ Unlinked(h)'
    <3>1. \A n \in Height : byHeight[n] \subseteq byHeight'[n]
      BY <2>1, <2>5 DEF TypeOK
    <3>2. \A h \in Stored : vertices[h] \in Height
      BY DEF Stored, TypeOK
    <3> QED
      BY <2>1, <2>2, <2>3, <2>5, <3>1, <3>2 DEF IndexInv, TypeOK
  <2>8. /\ \A p \in Hash : children'[p] \subseteq {h \in Stored' : p \in Parents[h]}
        /\ \A h \in Stored' : \A p \in Parents[h] : h \in children'[p] \/ Unlinked(h)'
    BY <2>2, <2>3, <2>5 DEF IndexInv
  <2> QED
    BY <2>4, <2>6, <2>7, <2>8 DEF IndexInv
<1>3. ASSUME NEW t \in Thread, NEW h \in Hash, NEW n \in Height, AddVertex(t, h, n)
      PROVE  IndexInv'
  BY <1>3, IndexQuiet DEF AddVertex, Idle, store, TypeOK
<1>4. ASSUME NEW t \in Thread, Defer(t)
      PROVE  IndexInv'
  BY <1>4, IndexQuiet DEF Defer, locals, TypeOK
<1>5. ASSUME NEW t \in Thread, Insert(t)
      PROVE  IndexInv'
  <2> DEFINE x == job[t]
             n == jobHeight[t]
  <2>1. /\ vertices' = [vertices EXCEPT ![x] = n] /\ x \in Hash /\ n \in Height
        /\ UNCHANGED <<children, byHeight, job, jobHeight>>
        /\ pc[t] = "insert" /\ pc' = [pc EXCEPT ![t] = "link"]
    BY <1>5 DEF Insert, locals, TypeOK
  <2>2. Causal!LevelOf(x, n)
    BY <1>5, FitsIsLevel DEF Insert, TypeOK, CausalInv
  <2>3. \A h \in Stored : vertices'[h] = vertices[h]
    <3>1. x \in Stored => vertices[x] = n
      <4>1. x \in Stored => vertices[x] \in Height
        BY <2>1 DEF Stored, TypeOK
      <4> QED
        BY <2>1, <2>2, <4>1, LevelUnique DEF CausalInv
    <3> QED
      BY <2>1, <3>1 DEF TypeOK, Stored
  <2>4. Stored' = Stored \cup {x}
    BY <1>0, <2>1 DEF Stored, TypeOK
  <2>5. /\ \A h : Unlinked(h) => Unlinked(h)'
        /\ Unlinked(x)'
        /\ \A u \in Thread : pc'[u] = "link" => u = t \/ pc[u] = "link"
    BY <2>1 DEF Unlinked, TypeOK
  <2>6. \A u \in Thread : pc'[u] = "link" => vertices'[job'[u]] = jobHeight'[u]
    <3>1. \A u \in Thread : pc[u] = "link" => job[u] \in Stored
      BY <1>0 DEF IndexInv, TypeOK, Stored
    <3>2. vertices'[x] = n
      BY <2>1 DEF TypeOK
    <3> QED
      BY <2>1, <2>3, <2>5, <3>1, <3>2 DEF IndexInv
  <2>7. /\ \A p \in Hash : children'[p] \subseteq {h \in Stored' : p \in Parents[h]}
        /\ \A h \in Stored' : \A p \in Parents[h] : h \in children'[p] \/ Unlinked(h)'
    BY <2>1, <2>4, <2>5 DEF IndexInv
  <2>8. /\ \A k \in Height : byHeight'[k] \subseteq {h \in Stored' : vertices'[h] = k}
        /\ \A h \in Stored' : h \in byHeight'[vertices'[h]] \/ Unlinked(h)'
    BY <2>1, <2>3, <2>4, <2>5 DEF IndexInv
  <2> QED
    BY <2>6, <2>7, <2>8 DEF IndexInv
<1>6. ASSUME NEW t \in Thread, InsertError(t) \/ DrainReturn(t)
      PROVE  IndexInv'
  BY <1>6, IndexQuiet DEF InsertError, DrainReturn, store, TypeOK
<1>7. ASSUME NEW t \in Thread, Link(t)
      PROVE  IndexInv'
  <2> DEFINE x == job[t]
  <2>1. /\ x \in Hash /\ jobHeight[t] \in Height /\ vertices[x] = jobHeight[t]
        /\ UNCHANGED <<vertices, job, jobHeight>>
        /\ pc[t] = "link" /\ pc' = [pc EXCEPT ![t] = "take"]
        /\ children' = [p \in Hash |-> IF p \in Parents[x] THEN children[p] \cup {x}
                                       ELSE children[p]]
        /\ byHeight' = [byHeight EXCEPT ![jobHeight[t]] = @ \cup {x}]
    BY <1>7 DEF Link, IndexInv, TypeOK, locals
  <2>2. Stored' = Stored /\ x \in Stored
    BY <1>0, <2>1 DEF Stored
  <2>3. /\ \A h : h # x => (Unlinked(h)' <=> Unlinked(h))
        /\ \A u \in Thread : pc'[u] = "link" => pc[u] = "link"
    BY <2>1 DEF Unlinked, TypeOK
  <2>4. \A u \in Thread : pc'[u] = "link" => vertices'[job'[u]] = jobHeight'[u]
    BY <2>1, <2>3 DEF IndexInv
  <2>5. \A p \in Hash : children'[p] \subseteq {h \in Stored' : p \in Parents[h]}
    BY <2>1, <2>2 DEF IndexInv
  <2>6. \A h \in Stored' : \A p \in Parents[h] : h \in children'[p] \/ Unlinked(h)'
    <3>1. \A h \in Stored : Parents[h] \subseteq Hash
      BY DEF Stored
    <3> QED
      BY <2>1, <2>2, <2>3, <3>1 DEF IndexInv
  <2>7. \A k \in Height : byHeight'[k] \subseteq {h \in Stored' : vertices'[h] = k}
    BY <2>1, <2>2 DEF IndexInv, TypeOK
  <2>8. \A h \in Stored' : h \in byHeight'[vertices'[h]] \/ Unlinked(h)'
    <3>1. \A k \in Height : byHeight[k] \subseteq byHeight'[k]
      BY <2>1 DEF TypeOK
    <3>2. \A h \in Stored : vertices[h] \in Height
      BY DEF Stored, TypeOK
    <3>3. x \in byHeight'[vertices[x]]
      BY <2>1 DEF TypeOK
    <3> QED
      BY <2>1, <2>2, <2>3, <3>1, <3>2, <3>3 DEF IndexInv
  <2> QED
    BY <2>4, <2>5, <2>6, <2>7, <2>8 DEF IndexInv
<1>8. ASSUME NEW t \in Thread, TakeWaiting(t)
      PROVE  IndexInv'
  BY <1>8, IndexQuiet DEF TakeWaiting, TypeOK
<1>9. ASSUME NEW t \in Thread, NEW h \in Hash, DrainInsert(t, h)
      PROVE  IndexInv'
  BY <1>9, IndexQuiet DEF DrainInsert, TypeOK
<1>10. ASSUME NEW t \in Thread, NEW h \in Hash, DrainKeep(t, h)
       PROVE  IndexInv'
  BY <1>10, IndexQuiet DEF DrainKeep
<1>11. ASSUME NEW t \in Thread, NEW n \in Height, SetFinalizedHeight(t, n)
       PROVE  IndexInv'
  BY <1>11, IndexQuiet DEF SetFinalizedHeight, locals
<1>12. ASSUME NEW t \in Thread, AddNoop(t)
       PROVE  IndexInv'
  BY <1>1, <1>12 DEF AddNoop
<1> QED
  BY <1>1, <1>2, <1>3, <1>4, <1>5, <1>6, <1>7, <1>8, <1>9, <1>10, <1>11, <1>12
     DEF Next, Continue

\* Whenever no call is in progress the children map and the height index list
\* exactly the stored vertices, whatever any number of threads did at the same
\* time: also when two of them inserted the same vertex.
THEOREM IndexesProved ==
    ASSUME Cutoffs = {}
    PROVE  Spec => []IndexesAgree
<1>1. Init => IndexInv
  BY DEF Init, IndexInv, Stored
<1>2. TypeOK /\ CausalInv /\ IndexInv /\ [Next]_vars => IndexInv'
  BY IndexStep
<1>3. TypeOK /\ IndexInv => IndexesAgree
  <2> SUFFICES ASSUME TypeOK, IndexInv, Quiet
               PROVE  /\ \A p \in Stored : children[p] = {h \in Stored : p \in Parents[h]}
                      /\ \A n \in Height : byHeight[n] = {h \in Stored : vertices[h] = n}
    BY DEF IndexesAgree
  <2>1. \A h : ~Unlinked(h)
    BY DEF Unlinked, Quiet, Idle
  <2> QED
    BY <2>1 DEF IndexInv, Stored
<1> QED
  BY <1>1, <1>2, <1>3, TypeCorrect, ParentsBelow, PTL DEF Spec

-----------------------------------------------------------------------------
(***************************************************************************)
(* What holds of the DAG store when one task calls it, for every set of    *)
(* vertices and every order in which they arrive, finalize and are pruned: *)
(* the five maps tell one story and no vertex is lost in the recursion of  *)
(* insert_vertex and process_orphans.                                      *)
(***************************************************************************)

\* The setting: one caller, init_genesis before add_vertex, and copies of a
\* vertex that carry the height L of the vertex.  Where prune is called too,
\* every vertex has parents: a pruned vertex without parents could be stored a
\* second time, below children that the store has kept.
Setting(L) ==
    /\ \A t, u \in Thread : t = u
    /\ Early = {}
    /\ L \in [Hash -> Height]
    /\ L[Genesis] = 0
    /\ \A h \in WellFormed :
          /\ Declared[h] \subseteq {L[h]}
          /\ IF Parents[h] = {} THEN L[h] = 0 /\ Cutoffs = {}
             ELSE /\ \E p \in Parents[h] : L[h] = L[p] + 1
                  /\ \A p \in Parents[h] : L[p] < L[h]

\* The vertices that have passed add_vertex's or process_orphans' tests and are
\* not stored yet, those that are stored and not in the indexes yet, and the
\* orphans that process_orphans has claimed.
Inserting == {job[t] : t \in {u \in Thread : pc[u] = "insert"}}
Linked == {h \in Stored : ~Unlinked(h)}
Frames(s) == UNION {s[i] : i \in DOMAIN s}
OnStack(t) == Frames(waiting[t])

\* What a call knows about its vertex at each of its steps: with one caller,
\* nothing it has tested changes until it uses it.
CallInv(L) ==
    \A t \in Thread :
       /\ pc[t] # "idle" => genesisSet /\ job[t] \in WellFormed /\ jobHeight[t] = L[job[t]]
       /\ pc[t] \in {"insert", "defer"} => job[t] \notin Stored
       /\ pc[t] \in {"insert", "link"} => Missing(job[t]) = {}
       /\ pc[t] = "insert" => pending[job[t]] = Absent
       /\ pc[t] = "link" => \A c \in Stored : job[t] \notin Parents[c]
       /\ pc[t] = "defer" => missing[t] = Missing(job[t]) /\ missing[t] # {}
       /\ pc[t] \in {"link", "take"} => job[t] \in Stored
       /\ pc[t] \in {"idle", "defer"} => waiting[t] = << >>

PendingInv(L) ==
    \A h \in Hash : pending[h] # Absent =>
       genesisSet /\ h \in WellFormed /\ pending[h] = L[h] /\ h \notin Stored

StoredInv(L) ==
    \A h \in Stored : genesisSet /\ h \in WellFormed \cup {Genesis} /\ vertices[h] = L[h]

\* Everything below some level K has been pruned for good: a vertex below K is
\* never stored again, because a parent of it is missing for ever.
FloorInv(L) ==
    \E K \in Height :
       /\ \A h \in Stored : L[h] >= K
       /\ \A h \in Stored : \A p \in Parents[h] : p \in Stored \/ L[p] < K
       /\ \A h \in tips : h \in Stored \/ L[h] < K
       /\ K > 0 => genesisSet /\ Cutoffs # {}

\* The indexes list what is linked.
LinkInv(L) ==
    /\ children = [p \in Hash |-> {c \in Linked : p \in Parents[c] /\ p \in Stored}]
    /\ byHeight = [n \in Height |-> {h \in Linked : L[h] = n}]
    /\ tips \cap Stored = {h \in Linked : \A c \in Linked : h \notin Parents[c]}

StatusInv ==
    \A h \in Hash :
       /\ status[h] \in {"Confirmed", "Finalized"} <=> h \in Stored
       /\ h \notin Inserting => (status[h] = "AwaitingParents" <=> pending[h] # Absent)

\* An accepted vertex is stored, being stored or buffered; a buffered one is
\* registered under a missing parent, claimed by process_orphans, or registered
\* under the parent whose insertion is about to claim it.
LossInv ==
    /\ \A h \in accepted : h \in Stored \cup Inserting \/ pending[h] # Absent
    /\ \A h \in Hash : pending[h] # Absent =>
          \/ \E p \in Missing(h) : h \in orphanDeps[p]
          \/ \E t \in Thread : h \in OnStack(t)
          \/ \E t \in Thread : pc[t] \in {"link", "take"} /\ h \in orphanDeps[job[t]]

\* The inductive invariant
CallerInv(L) ==
    /\ TypeOK
    /\ CallInv(L)
    /\ PendingInv(L)
    /\ StoredInv(L)
    /\ FloorInv(L)
    /\ LinkInv(L)
    /\ StatusInv
    /\ LossInv

-----------------------------------------------------------------------------
(* The stack of process_orphans *)

\* Entering process_orphans adds the claimed orphans to the stack.
LEMMA FramesPush ==
    ASSUME NEW s \in Seq(SUBSET Hash), NEW X \in SUBSET Hash
    PROVE  Frames(Append(s, X)) = Frames(s) \cup X
<1>1. /\ DOMAIN s = 1 .. Len(s) /\ DOMAIN Append(s, X) = 1 .. (Len(s) + 1) /\ Len(s) \in Nat
      /\ Append(s, X)[Len(s) + 1] = X
      /\ \A i \in 1 .. Len(s) : Append(s, X)[i] = s[i]
  OBVIOUS
<1>2. Frames(s) \cup X \subseteq Frames(Append(s, X))
  <2>1. \A i \in 1 .. Len(s) : i \in 1 .. (Len(s) + 1)
    BY <1>1
  <2>2. Len(s) + 1 \in 1 .. (Len(s) + 1)
    BY <1>1
  <2> QED
    BY <1>1, <2>1, <2>2 DEF Frames
<1>3. Frames(Append(s, X)) \subseteq Frames(s) \cup X
  <2>1. \A i \in 1 .. (Len(s) + 1) : i \in 1 .. Len(s) \/ i = Len(s) + 1
    BY <1>1
  <2> QED
    BY <1>1, <2>1 DEF Frames
<1> QED
  BY <1>2, <1>3

\* Without its top frame the stack holds all that was not in that frame.
LEMMA FramesPop ==
    ASSUME TypeOK, NEW t \in Thread, waiting[t] # << >>
    PROVE  OnStack(t) = Frames(Pop(t)) \cup Top(t)
<1> DEFINE s == waiting[t]
           n == Len(s)
           u == SubSeq(s, 1, n - 1)
<1>1. s \in Seq(SUBSET Hash) /\ s # << >>
  BY DEF TypeOK
<1>2. n \in Nat /\ n >= 1 /\ DOMAIN s = 1 .. n
  BY <1>1
<1>3. /\ u \in Seq(SUBSET Hash) /\ DOMAIN u = 1 .. (n - 1)
      /\ \A i \in 1 .. (n - 1) : u[i] = s[i]
  BY <1>1, <1>2
<1> HIDE DEF s, n, u
<1>4. \A i \in 1 .. n : i \in 1 .. (n - 1) \/ i = n
  BY <1>2
<1>5. \A i \in 1 .. (n - 1) : i \in 1 .. n
  BY <1>2
<1>6. n \in 1 .. n
  BY <1>2
<1>7. Frames(s) = Frames(u) \cup s[n]
  BY <1>2, <1>3, <1>4, <1>5, <1>6 DEF Frames
<1> QED
  BY <1>7 DEF s, n, u, OnStack, Pop, Top

\* Taking one orphan off the top frame loses no other.
LEMMA FramesDrop ==
    ASSUME TypeOK, NEW t \in Thread, NEW h \in Hash, waiting[t] # << >>
    PROVE  OnStack(t) \ {h} \subseteq Frames(DropFromTop(t, h))
<1>1. Pop(t) \in Seq(SUBSET Hash) /\ Top(t) \in SUBSET Hash
  BY StackType
<1>2. Frames(DropFromTop(t, h)) = Frames(Pop(t)) \cup (Top(t) \ {h})
  BY <1>1, FramesPush DEF DropFromTop
<1> QED
  BY <1>2, FramesPop

\* The stack is empty after the last frame.
LEMMA LastPop ==
    ASSUME TypeOK, NEW t \in Thread, Len(waiting[t]) = 1
    PROVE  Pop(t) = << >>
<1>1. waiting[t] \in Seq(SUBSET Hash)
  BY DEF TypeOK
<1>2. Len(SubSeq(waiting[t], 1, 0)) = 0 /\ SubSeq(waiting[t], 1, 0) \in Seq(SUBSET Hash)
  BY <1>1
<1> QED
  BY <1>2 DEF Pop

-----------------------------------------------------------------------------
(* One step of the caller *)

\* A step that changes neither the store nor its indexes keeps what is said of
\* them.
LEMMA StoreKept ==
    ASSUME NEW CONSTANT L, CallerInv(L),
           UNCHANGED <<vertices, children, tips, byHeight, genesisSet>>,
           \A h : Unlinked(h)' <=> Unlinked(h)
    PROVE  /\ Stored' = Stored /\ \A h : Missing(h)' = Missing(h)
           /\ StoredInv(L)' /\ FloorInv(L)' /\ LinkInv(L)'
<1>1. Stored' = Stored /\ \A h : Missing(h)' = Missing(h)
  BY DEF Stored, Missing
<1>2. Linked' = Linked
  BY <1>1 DEF Linked
<1>3. StoredInv(L)'
  BY <1>1 DEF CallerInv, StoredInv
<1>4. FloorInv(L)'
  BY <1>1 DEF CallerInv, FloorInv
<1>5. LinkInv(L)'
  BY <1>1, <1>2 DEF CallerInv, LinkInv
<1> QED
  BY <1>1, <1>3, <1>4, <1>5

\* add_vertex finds the parents stored or missing.  A buffered vertex whose
\* parents are all stored does not exist between calls, so a vertex that goes
\* straight to insert_vertex is not in the buffer.
LEMMA AddVertexStep ==
    ASSUME NEW CONSTANT L, Setting(L), CallerInv(L), NEW t \in Thread,
           NEW h \in Hash, NEW n \in Height, AddVertex(t, h, n), TypeOK'
    PROVE  CallerInv(L)'
<1> USE DagAssumption
<1>0. TypeOK /\ CallInv(L) /\ PendingInv(L) /\ StatusInv /\ LossInv
  BY DEF CallerInv
<1>1. /\ pc[t] = "idle" /\ \A u \in Thread : u = t
      /\ pc' = [pc EXCEPT ![t] = IF Missing(h) = {} THEN "insert" ELSE "defer"]
      /\ job' = [job EXCEPT ![t] = h] /\ jobHeight' = [jobHeight EXCEPT ![t] = n]
      /\ missing' = [missing EXCEPT ![t] = Missing(h)]
      /\ UNCHANGED <<store, genesisSet, waiting, accepted>>
      /\ genesisSet /\ h \in WellFormed /\ n = L[h] /\ h \notin Stored
  BY DEF AddVertex, Idle, Setting, VerifyStructure, Stored
<1>2. \A x : ~Unlinked(x) /\ ~Unlinked(x)'
  BY <1>0, <1>1 DEF Unlinked, TypeOK
<1>3. /\ Stored' = Stored /\ \A x : Missing(x)' = Missing(x)
      /\ StoredInv(L)' /\ FloorInv(L)' /\ LinkInv(L)'
  BY <1>1, <1>2, StoreKept DEF store
<1>4. OnStack(t) = {} /\ waiting[t] = << >>
  BY <1>0, <1>1 DEF CallInv, OnStack, Frames
<1>5. Missing(h) = {} => pending[h] = Absent
  BY <1>0, <1>1, <1>4 DEF LossInv
<1>6. CallInv(L)'
  BY <1>0, <1>1, <1>3, <1>4, <1>5 DEF CallInv, TypeOK, store
<1>7. PendingInv(L)'
  BY <1>0, <1>1, <1>3 DEF PendingInv, store
<1>8. Inserting = {} /\ Inserting' \subseteq {h}
  BY <1>0, <1>1 DEF Inserting, TypeOK
<1>9. StatusInv'
  BY <1>0, <1>1, <1>3, <1>8 DEF StatusInv, store
<1>10. LossInv'
  BY <1>0, <1>1, <1>3, <1>4, <1>8 DEF LossInv, store
<1> QED
  BY <1>3, <1>6, <1>7, <1>9, <1>10 DEF CallerInv

\* add_vertex buffers the vertex under every parent it lacks.
LEMMA DeferStep ==
    ASSUME NEW CONSTANT L, Setting(L), CallerInv(L), NEW t \in Thread, Defer(t), TypeOK'
    PROVE  CallerInv(L)'
<1> USE DagAssumption
<1> DEFINE x == job[t]
<1>0. TypeOK /\ CallInv(L) /\ PendingInv(L) /\ StatusInv /\ LossInv
  BY DEF CallerInv
<1>1. /\ pc[t] = "defer" /\ (\A u \in Thread : u = t) /\ pc' = [pc EXCEPT ![t] = "idle"]
      /\ orphanDeps' = [p \in Hash |-> IF p \in missing[t] THEN orphanDeps[p] \cup {x}
                                       ELSE orphanDeps[p]]
      /\ pending' = [pending EXCEPT ![x] = jobHeight[t]]
      /\ status' = [status EXCEPT ![x] = "AwaitingParents"]
      /\ accepted' = accepted \cup {x}
      /\ UNCHANGED <<vertices, children, tips, byHeight, genesisSet, locals>>
  BY DEF Defer, Setting
<1>2. /\ x \in Hash /\ x \in WellFormed /\ genesisSet /\ x \notin Stored
      /\ jobHeight[t] = L[x] /\ L[x] # Absent
      /\ missing[t] = Missing(x) /\ missing[t] # {} /\ waiting[t] = << >>
  <2>1. L[x] \in Height
    BY <1>0 DEF Setting, TypeOK
  <2> QED
    BY <1>0, <1>1, <2>1 DEF CallInv, TypeOK, Height, Absent
<1>3. \A y : ~Unlinked(y) /\ ~Unlinked(y)'
  BY <1>0, <1>1 DEF Unlinked, TypeOK
<1>4. /\ Stored' = Stored /\ \A y : Missing(y)' = Missing(y)
      /\ StoredInv(L)' /\ FloorInv(L)' /\ LinkInv(L)'
  BY <1>1, <1>3, StoreKept
<1>5. CallInv(L)'
  BY <1>0, <1>1, <1>2, <1>4 DEF CallInv, TypeOK, locals
<1>6. PendingInv(L)'
  BY <1>0, <1>1, <1>2, <1>4 DEF PendingInv, TypeOK
<1>7. Inserting = {} /\ Inserting' = {}
  BY <1>0, <1>1 DEF Inserting, TypeOK
<1>8. StatusInv'
  BY <1>0, <1>1, <1>2, <1>4, <1>7 DEF StatusInv, TypeOK
<1>9. LossInv'
  <2>1. \A y \in accepted' : y \in Stored' \/ pending'[y] # Absent
    BY <1>0, <1>1, <1>2, <1>4, <1>7 DEF LossInv, TypeOK
  <2>2. \A u \in Thread : OnStack(u)' = OnStack(u) /\ OnStack(u) = {}
    BY <1>1, <1>2 DEF OnStack, Frames, locals
  <2>3. ASSUME NEW y \in Hash, pending'[y] # Absent
        PROVE  \E p \in Missing(y)' : y \in orphanDeps'[p]
    <3>1. \A p \in Hash : orphanDeps[p] \subseteq orphanDeps'[p]
      BY <1>1
    <3>2. Missing(x) \subseteq Hash /\ Missing(y) \subseteq Hash
      BY <1>2 DEF Missing
    <3>3. CASE y = x
      BY <1>1, <1>2, <1>4, <3>2, <3>3
    <3>4. CASE y # x
      <4>1. pending[y] # Absent
        BY <1>0, <1>1, <2>3, <3>4 DEF TypeOK
      <4>2. \E p \in Missing(y) : y \in orphanDeps[p]
        BY <1>0, <1>1, <2>2, <4>1 DEF LossInv
      <4> QED
        BY <1>4, <3>1, <3>2, <4>2
    <3> QED
      BY <3>3, <3>4
  <2> QED
    BY <2>1, <2>3 DEF LossInv
<1> QED
  BY <1>4, <1>5, <1>6, <1>8, <1>9 DEF CallerInv

\* The height check of insert_vertex never fails: the error path of the
\* recursion, which drops the orphans still on the stack, is not taken.
LEMMA HeightAlwaysFits ==
    ASSUME NEW CONSTANT L, Setting(L), CallerInv(L), NEW t \in Thread, pc[t] = "insert"
    PROVE  HeightFits(job[t], jobHeight[t])
<1> USE DagAssumption
<1> DEFINE x == job[t]
<1>1. /\ x \in WellFormed /\ x \in Hash /\ jobHeight[t] = L[x] /\ Missing(x) = {}
      /\ Parents[x] \subseteq Stored
  BY DEF CallerInv, CallInv, TypeOK, Missing
<1>2. \A p \in Parents[x] : vertices[p] = L[p] /\ L[p] \in Int
  BY <1>1 DEF CallerInv, StoredInv, Setting, Stored, Height
<1>3. CASE Parents[x] = {}
  BY <1>1, <1>3 DEF HeightFits, Setting
<1>4. CASE Parents[x] # {}
  <2>1. PICK p \in Parents[x] : L[x] = L[p] + 1
    BY <1>1, <1>4 DEF Setting
  <2>2. \A q \in Parents[x] : L[q] <= L[p]
    BY <1>1, <1>2, <1>4, <2>1 DEF Setting
  <2> DEFINE hs == {vertices[q] : q \in Parents[x] \ Missing(x)}
  <2>3. vertices[p] \in hs /\ L[x] = vertices[p] + 1 /\ \A k \in hs : k <= vertices[p]
    BY <1>1, <1>2, <2>1, <2>2
  <2> QED
    BY <1>1, <2>3 DEF HeightFits
<1> QED
  BY <1>3, <1>4

\* insert_vertex stores a vertex that nothing in the store or in the tip set
\* knows: it was never stored before.
LEMMA InsertStep ==
    ASSUME NEW CONSTANT L, Setting(L), CallerInv(L), NEW t \in Thread, Insert(t), TypeOK'
    PROVE  CallerInv(L)'
<1> USE DagAssumption
<1> DEFINE x == job[t]
<1>0. /\ TypeOK /\ CallInv(L) /\ PendingInv(L) /\ StoredInv(L) /\ FloorInv(L)
      /\ LinkInv(L) /\ StatusInv /\ LossInv
  BY DEF CallerInv
<1>1. /\ pc[t] = "insert" /\ (\A u \in Thread : u = t) /\ pc' = [pc EXCEPT ![t] = "link"]
      /\ vertices' = [vertices EXCEPT ![x] = jobHeight[t]]
      /\ status' = [status EXCEPT ![x] = "Confirmed"]
      /\ accepted' = accepted \cup {x}
      /\ UNCHANGED <<children, tips, byHeight, pending, orphanDeps, genesisSet, locals>>
  BY DEF Insert, Setting
<1>2. /\ x \in Hash /\ x \in WellFormed /\ genesisSet /\ x \notin Stored
      /\ jobHeight[t] = L[x] /\ L[x] # Absent /\ L[x] \in Int
      /\ Parents[x] \subseteq Stored /\ pending[x] = Absent
  <2>1. L[x] \in Height
    BY <1>0 DEF Setting, TypeOK
  <2> QED
    BY <1>0, <1>1, <2>1 DEF CallInv, TypeOK, Height, Absent, Missing
<1>3. /\ Stored' = Stored \cup {x} /\ vertices'[x] = L[x]
      /\ \A h \in Stored : vertices'[h] = vertices[h]
  BY <1>0, <1>1, <1>2 DEF Stored, TypeOK
<1>4. \A h \in Hash : Missing(h)' = Missing(h) \ {x}
  BY <1>3 DEF Missing
<1>5. PICK K \in Height :
         /\ \A h \in Stored : L[h] >= K
         /\ \A h \in Stored : \A p \in Parents[h] : p \in Stored \/ L[p] < K
         /\ \A h \in tips : h \in Stored \/ L[h] < K
         /\ K > 0 => genesisSet /\ Cutoffs # {}
  BY <1>0 DEF FloorInv
<1>6. L[x] >= K /\ K \in Int
  <2>1. K \in Int /\ K >= 0
    BY DEF Height
  <2>2. CASE Parents[x] = {}
    <3>1. L[x] = 0 /\ Cutoffs = {}
      BY <1>2, <2>2 DEF Setting
    <3> QED
      BY <1>5, <2>1, <3>1
  <2>3. CASE Parents[x] # {}
    <3>1. PICK p \in Parents[x] : L[p] < L[x]
      BY <1>2, <2>3 DEF Setting
    <3>2. L[p] >= K /\ L[p] \in Int
      BY <1>2, <1>5, <3>1 DEF Setting, Height
    <3> QED
      BY <1>2, <2>1, <3>1, <3>2
  <2> QED
    BY <2>1, <2>2, <2>3
<1>7. x \notin tips /\ x \notin Parents[x] /\ \A c \in Stored : x \notin Parents[c]
  BY <1>2, <1>5, <1>6
<1>8. FloorInv(L)'
  <2>1. /\ \A h \in Stored' : L[h] >= K
        /\ \A h \in Stored' : \A p \in Parents[h] : p \in Stored' \/ L[p] < K
        /\ \A h \in tips' : h \in Stored' \/ L[h] < K
        /\ K > 0 => genesisSet' /\ Cutoffs # {}
    BY <1>1, <1>2, <1>3, <1>5, <1>6
  <2> QED
    BY <2>1 DEF FloorInv
<1>9. Linked = Stored /\ Linked' = Stored
  <2>1. (\A h : ~Unlinked(h)) /\ \A h : Unlinked(h)' <=> h = x
    BY <1>0, <1>1 DEF Unlinked, TypeOK, locals
  <2> QED
    BY <1>2, <1>3, <2>1 DEF Linked
<1>10. LinkInv(L)'
  <2>1. children' = [p \in Hash |-> {c \in Stored : p \in Parents[c] /\ p \in Stored \cup {x}}]
    BY <1>0, <1>1, <1>7, <1>9 DEF LinkInv
  <2>2. tips' \cap Stored' = {h \in Stored : \A c \in Stored : h \notin Parents[c]}
    BY <1>0, <1>1, <1>3, <1>7, <1>9 DEF LinkInv
  <2>3. byHeight' = [n \in Height |-> {h \in Stored : L[h] = n}]
    BY <1>0, <1>1, <1>9 DEF LinkInv
  <2> QED
    BY <1>3, <1>9, <2>1, <2>2, <2>3 DEF LinkInv
<1>11. StoredInv(L)'
  BY <1>0, <1>1, <1>2, <1>3 DEF StoredInv
<1>12. PendingInv(L)'
  BY <1>0, <1>1, <1>2, <1>3 DEF PendingInv
<1>13. CallInv(L)'
  BY <1>0, <1>1, <1>2, <1>3, <1>4, <1>7 DEF CallInv, TypeOK, locals
<1>14. Inserting = {x} /\ Inserting' = {}
  BY <1>0, <1>1 DEF Inserting, TypeOK
<1>15. StatusInv'
  BY <1>0, <1>1, <1>2, <1>3, <1>14 DEF StatusInv, TypeOK
<1>16. LossInv'
  <2>1. \A y \in accepted' : y \in Stored' \/ pending'[y] # Absent
    BY <1>0, <1>1, <1>3, <1>14 DEF LossInv
  <2>2. \A u \in Thread : OnStack(u)' = OnStack(u)
    BY <1>1 DEF OnStack, locals
  <2>3. job'[t] = x /\ pc'[t] = "link"
    BY <1>0, <1>1 DEF locals, TypeOK
  <2> QED
    BY <1>0, <1>1, <1>4, <2>1, <2>2, <2>3 DEF LossInv
<1> QED
  BY <1>8, <1>10, <1>11, <1>12, <1>13, <1>15, <1>16 DEF CallerInv

\* insert_vertex enters the vertex into the indexes.
LEMMA LinkStep ==
    ASSUME NEW CONSTANT L, Setting(L), CallerInv(L), NEW t \in Thread, Link(t), TypeOK'
    PROVE  CallerInv(L)'
<1> USE DagAssumption
<1> DEFINE x == job[t]
<1>0. /\ TypeOK /\ CallInv(L) /\ PendingInv(L) /\ StoredInv(L) /\ FloorInv(L)
      /\ LinkInv(L) /\ StatusInv /\ LossInv
  BY DEF CallerInv
<1>1. /\ pc[t] = "link" /\ (\A u \in Thread : u = t) /\ pc' = [pc EXCEPT ![t] = "take"]
      /\ children' = [p \in Hash |-> IF p \in Parents[x] THEN children[p] \cup {x}
                                     ELSE children[p]]
      /\ tips' = (tips \ Parents[x]) \cup {x}
      /\ byHeight' = [byHeight EXCEPT ![jobHeight[t]] = @ \cup {x}]
      /\ UNCHANGED <<vertices, status, pending, orphanDeps, genesisSet, locals, accepted>>
  BY DEF Link, Setting
<1>2. /\ x \in Hash /\ x \in WellFormed /\ x \in Stored /\ jobHeight[t] = L[x]
      /\ jobHeight[t] \in Height
  BY <1>0, <1>1 DEF CallInv, TypeOK
<1>3. Stored' = Stored /\ \A h : Missing(h)' = Missing(h)
  BY <1>1 DEF Stored, Missing
<1>4. Linked' = Stored /\ Linked = Stored \ {x}
  <2>1. (\A h : ~Unlinked(h)') /\ \A h : Unlinked(h) <=> h = x
    BY <1>0, <1>1 DEF Unlinked, TypeOK
  <2> QED
    BY <1>2, <1>3, <2>1 DEF Linked
<1>5. PICK K \in Height :
         /\ \A h \in Stored : L[h] >= K
         /\ \A h \in Stored : \A p \in Parents[h] : p \in Stored \/ L[p] < K
         /\ \A h \in tips : h \in Stored \/ L[h] < K
         /\ K > 0 => genesisSet /\ Cutoffs # {}
  BY <1>0 DEF FloorInv
<1>6. FloorInv(L)'
  <2>1. /\ \A h \in Stored' : L[h] >= K
        /\ \A h \in Stored' : \A p \in Parents[h] : p \in Stored' \/ L[p] < K
        /\ \A h \in tips' : h \in Stored' \/ L[h] < K
        /\ K > 0 => genesisSet' /\ Cutoffs # {}
    BY <1>1, <1>2, <1>3, <1>5
  <2> QED
    BY <2>1 DEF FloorInv
<1>7. Parents[x] \subseteq Stored /\ \A c \in Stored : x \notin Parents[c]
  BY <1>0, <1>1, <1>2 DEF CallInv, Missing
<1>8. LinkInv(L)'
  <2>1. children' = [p \in Hash |-> {c \in Stored : p \in Parents[c] /\ p \in Stored}]
    BY <1>0, <1>1, <1>2, <1>4, <1>7 DEF LinkInv
  <2>2. byHeight' = [n \in Height |-> {h \in Stored : L[h] = n}]
    <3>1. ASSUME NEW n \in Height
          PROVE  byHeight'[n] = {h \in Stored : L[h] = n}
      BY <1>0, <1>1, <1>2, <1>4 DEF LinkInv, TypeOK
    <3> QED
      BY <1>1, <3>1 DEF TypeOK
  <2>3. tips' \cap Stored' = {h \in Stored : \A c \in Stored : h \notin Parents[c]}
    BY <1>0, <1>1, <1>2, <1>3, <1>4, <1>7 DEF LinkInv
  <2> QED
    BY <1>3, <1>4, <2>1, <2>2, <2>3 DEF LinkInv
<1>9. StoredInv(L)' /\ PendingInv(L)'
  BY <1>0, <1>1, <1>3 DEF StoredInv, PendingInv
<1>10. CallInv(L)'
  BY <1>0, <1>1, <1>2, <1>3 DEF CallInv, TypeOK, locals
<1>11. Inserting = {} /\ Inserting' = {}
  BY <1>0, <1>1 DEF Inserting, TypeOK
<1>12. StatusInv'
  BY <1>0, <1>1, <1>3, <1>11 DEF StatusInv
<1>13. LossInv'
  <2>1. \A u \in Thread : OnStack(u)' = OnStack(u)
    BY <1>1 DEF OnStack, locals
  <2>2. job'[t] = x /\ pc'[t] = "take"
    BY <1>0, <1>1 DEF locals, TypeOK
  <2> QED
    BY <1>0, <1>1, <1>3, <1>11, <2>1, <2>2 DEF LossInv
<1> QED
  BY <1>6, <1>8, <1>9, <1>10, <1>12, <1>13 DEF CallerInv

\* process_orphans claims the orphans of the vertex just stored: whoever was
\* registered under it is on the stack now.
LEMMA TakeStep ==
    ASSUME NEW CONSTANT L, Setting(L), CallerInv(L), NEW t \in Thread, TakeWaiting(t), TypeOK'
    PROVE  CallerInv(L)'
<1> USE DagAssumption
<1> DEFINE x == job[t]
<1>0. TypeOK /\ CallInv(L) /\ PendingInv(L) /\ StatusInv /\ LossInv
  BY DEF CallerInv
<1>1. /\ pc[t] = "take" /\ (\A u \in Thread : u = t) /\ pc' = [pc EXCEPT ![t] = "drain"]
      /\ waiting' = [waiting EXCEPT ![t] = Append(@, orphanDeps[x])]
      /\ orphanDeps' = [orphanDeps EXCEPT ![x] = {}]
      /\ UNCHANGED <<vertices, status, children, tips, byHeight, pending, genesisSet, job,
                     jobHeight, missing, accepted>>
  BY DEF TakeWaiting, Setting
<1>2. x \in Hash /\ x \in Stored /\ orphanDeps[x] \in SUBSET Hash
  BY <1>0, <1>1 DEF CallInv, TypeOK
<1>3. \A y : ~Unlinked(y) /\ ~Unlinked(y)'
  BY <1>0, <1>1 DEF Unlinked, TypeOK
<1>4. /\ Stored' = Stored /\ \A y : Missing(y)' = Missing(y)
      /\ StoredInv(L)' /\ FloorInv(L)' /\ LinkInv(L)'
  BY <1>1, <1>3, StoreKept
<1>5. CallInv(L)'
  BY <1>0, <1>1, <1>4 DEF CallInv, TypeOK
<1>6. PendingInv(L)'
  BY <1>0, <1>1, <1>4 DEF PendingInv
<1>7. Inserting = {} /\ Inserting' = {}
  BY <1>0, <1>1 DEF Inserting, TypeOK
<1>8. StatusInv'
  BY <1>0, <1>1, <1>4, <1>7 DEF StatusInv
<1>9. LossInv'
  <2>1. OnStack(t)' = OnStack(t) \cup orphanDeps[x]
    <3>1. waiting[t] \in Seq(SUBSET Hash) /\ waiting'[t] = Append(waiting[t], orphanDeps[x])
      BY <1>0, <1>1 DEF TypeOK
    <3> QED
      BY <1>2, <3>1, FramesPush DEF OnStack
  <2>2. \A p \in Hash \ {x} : orphanDeps'[p] = orphanDeps[p]
    BY <1>0, <1>1 DEF TypeOK
  <2>3. \A y \in Hash : Missing(y) \subseteq Hash \ {x}
    BY <1>2 DEF Missing
  <2> QED
    BY <1>0, <1>1, <1>4, <1>7, <2>1, <2>2, <2>3 DEF LossInv
<1> QED
  BY <1>4, <1>5, <1>6, <1>8, <1>9 DEF CallerInv

\* process_orphans takes a claimed orphan with all its parents out of the buffer.
LEMMA DrainInsertStep ==
    ASSUME NEW CONSTANT L, Setting(L), CallerInv(L), NEW t \in Thread, NEW x \in Hash,
           DrainInsert(t, x), TypeOK'
    PROVE  CallerInv(L)'
<1> USE DagAssumption
<1>0. TypeOK /\ CallInv(L) /\ PendingInv(L) /\ StatusInv /\ LossInv
  BY DEF CallerInv
<1>1. /\ pc[t] = "drain" /\ (\A u \in Thread : u = t) /\ pc' = [pc EXCEPT ![t] = "insert"]
      /\ waiting[t] # << >> /\ waiting' = [waiting EXCEPT ![t] = DropFromTop(t, x)]
      /\ pending[x] # Absent /\ Missing(x) = {}
      /\ pending' = [pending EXCEPT ![x] = Absent]
      /\ job' = [job EXCEPT ![t] = x] /\ jobHeight' = [jobHeight EXCEPT ![t] = pending[x]]
      /\ UNCHANGED <<vertices, status, children, tips, byHeight, orphanDeps, genesisSet,
                     missing, accepted>>
  BY DEF DrainInsert, Setting
<1>2. /\ x \in WellFormed /\ genesisSet /\ pending[x] = L[x] /\ x \notin Stored
  BY <1>0, <1>1 DEF PendingInv
<1>3. \A y : ~Unlinked(y) /\ ~Unlinked(y)'
  BY <1>0, <1>1 DEF Unlinked, TypeOK
<1>4. /\ Stored' = Stored /\ \A y : Missing(y)' = Missing(y)
      /\ StoredInv(L)' /\ FloorInv(L)' /\ LinkInv(L)'
  BY <1>1, <1>3, StoreKept
<1>5. CallInv(L)'
  BY <1>0, <1>1, <1>2, <1>4 DEF CallInv, TypeOK
<1>6. PendingInv(L)'
  BY <1>0, <1>1, <1>4 DEF PendingInv, TypeOK
<1>7. Inserting = {} /\ Inserting' = {x}
  BY <1>0, <1>1 DEF Inserting, TypeOK
<1>8. StatusInv'
  BY <1>0, <1>1, <1>4, <1>7 DEF StatusInv, TypeOK
<1>9. LossInv'
  <2>1. OnStack(t) \ {x} \subseteq OnStack(t)'
    BY <1>0, <1>1, FramesDrop DEF OnStack, TypeOK
  <2>2. \A y \in Hash : pending'[y] # Absent => y # x /\ pending[y] # Absent
    BY <1>0, <1>1 DEF TypeOK
  <2>3. \A y \in accepted' : y \in Stored' \cup Inserting' \/ pending'[y] # Absent
    BY <1>0, <1>1, <1>4, <1>7 DEF LossInv, TypeOK
  <2> QED
    BY <1>0, <1>1, <1>4, <2>1, <2>2, <2>3 DEF LossInv
<1> QED
  BY <1>4, <1>5, <1>6, <1>8, <1>9 DEF CallerInv

\* process_orphans leaves an orphan that lacks parents in the buffer, registered
\* under them, and skips one that has left the buffer.
LEMMA DrainKeepStep ==
    ASSUME NEW CONSTANT L, Setting(L), CallerInv(L), NEW t \in Thread, NEW x \in Hash,
           DrainKeep(t, x), TypeOK'
    PROVE  CallerInv(L)'
<1> USE DagAssumption
<1>0. TypeOK /\ CallInv(L) /\ PendingInv(L) /\ StatusInv /\ LossInv
  BY DEF CallerInv
<1>1. /\ pc[t] = "drain" /\ (\A u \in Thread : u = t)
      /\ waiting[t] # << >> /\ waiting' = [waiting EXCEPT ![t] = DropFromTop(t, x)]
      /\ pending[x] # Absent => Missing(x) # {}
      /\ orphanDeps' = [p \in Hash |-> IF pending[x] # Absent /\ p \in Missing(x)
                                       THEN orphanDeps[p] \cup {x} ELSE orphanDeps[p]]
      /\ UNCHANGED <<vertices, status, children, tips, byHeight, pending, genesisSet, pc,
                     job, jobHeight, missing, accepted>>
  BY DEF DrainKeep, Setting
<1>3. \A y : ~Unlinked(y) /\ ~Unlinked(y)'
  BY <1>0, <1>1 DEF Unlinked, TypeOK
<1>4. /\ Stored' = Stored /\ \A y : Missing(y)' = Missing(y)
      /\ StoredInv(L)' /\ FloorInv(L)' /\ LinkInv(L)'
  BY <1>1, <1>3, StoreKept
<1>5. CallInv(L)'
  BY <1>0, <1>1, <1>4 DEF CallInv, TypeOK
<1>6. PendingInv(L)'
  BY <1>0, <1>1, <1>4 DEF PendingInv
<1>7. Inserting = {} /\ Inserting' = {}
  BY <1>0, <1>1 DEF Inserting, TypeOK
<1>8. StatusInv'
  BY <1>0, <1>1, <1>4, <1>7 DEF StatusInv
<1>9. LossInv'
  <2>1. OnStack(t) \ {x} \subseteq OnStack(t)'
    BY <1>0, <1>1, FramesDrop DEF OnStack, TypeOK
  <2>2. /\ \A p \in Hash : orphanDeps[p] \subseteq orphanDeps'[p]
        /\ \A y \in Hash : Missing(y) \subseteq Hash
    BY <1>1 DEF Missing
  <2>3. pending[x] # Absent => \E p \in Missing(x) : x \in orphanDeps'[p]
    BY <1>1, <2>2
  <2>4. ASSUME NEW y \in Hash, pending[y] # Absent
        PROVE  (\E p \in Missing(y) : y \in orphanDeps'[p]) \/ y \in OnStack(t)'
    <3>1. (\E p \in Missing(y) : y \in orphanDeps[p]) \/ y \in OnStack(t)
      BY <1>0, <1>1, <2>4 DEF LossInv
    <3> QED
      BY <2>1, <2>2, <2>3, <2>4, <3>1
  <2> QED
    BY <1>0, <1>1, <1>4, <1>7, <2>4 DEF LossInv
<1> QED
  BY <1>4, <1>5, <1>6, <1>8, <1>9 DEF CallerInv

\* process_orphans returns when its frame is empty.
LEMMA DrainReturnStep ==
    ASSUME NEW CONSTANT L, Setting(L), CallerInv(L), NEW t \in Thread, DrainReturn(t), TypeOK'
    PROVE  CallerInv(L)'
<1> USE DagAssumption
<1>0. TypeOK /\ CallInv(L) /\ PendingInv(L) /\ StatusInv /\ LossInv
  BY DEF CallerInv
<1>1. /\ pc[t] = "drain" /\ (\A u \in Thread : u = t)
      /\ waiting[t] # << >> /\ waiting' = [waiting EXCEPT ![t] = Pop(t)]
      /\ Top(t) = {}
      /\ pc' = [pc EXCEPT ![t] = IF Len(waiting[t]) = 1 THEN "idle" ELSE "drain"]
      /\ UNCHANGED <<store, genesisSet, job, jobHeight, missing, accepted>>
  BY DEF DrainReturn, Setting
<1>2. pc'[t] = "idle" => waiting'[t] = << >>
  BY <1>0, <1>1, LastPop DEF TypeOK
<1>3. \A y : ~Unlinked(y) /\ ~Unlinked(y)'
  BY <1>0, <1>1 DEF Unlinked, TypeOK
<1>4. /\ Stored' = Stored /\ \A y : Missing(y)' = Missing(y)
      /\ StoredInv(L)' /\ FloorInv(L)' /\ LinkInv(L)'
  BY <1>1, <1>3, StoreKept DEF store
<1>5. CallInv(L)'
  BY <1>0, <1>1, <1>2, <1>4 DEF CallInv, TypeOK
<1>6. PendingInv(L)'
  BY <1>0, <1>1, <1>4 DEF PendingInv, store
<1>7. Inserting = {} /\ Inserting' = {}
  BY <1>0, <1>1 DEF Inserting, TypeOK
<1>8. StatusInv'
  BY <1>0, <1>1, <1>4, <1>7 DEF StatusInv, store
<1>9. LossInv'
  <2>1. OnStack(t)' = OnStack(t)
    <3>1. waiting'[t] = Pop(t)
      BY <1>0, <1>1 DEF TypeOK
    <3> QED
      BY <1>0, <1>1, <3>1, FramesPop DEF OnStack
  <2> QED
    BY <1>0, <1>1, <1>4, <1>7, <2>1 DEF LossInv, store
<1> QED
  BY <1>4, <1>5, <1>6, <1>8, <1>9 DEF CallerInv

\* init_genesis finds an empty store: nothing was added before it.
LEMMA GenesisStep ==
    ASSUME NEW CONSTANT L, Setting(L), CallerInv(L), NEW t \in Thread, InitGenesis(t), TypeOK'
    PROVE  CallerInv(L)'
<1> USE DagAssumption
<1>0. /\ TypeOK /\ CallInv(L) /\ PendingInv(L) /\ StoredInv(L) /\ FloorInv(L)
      /\ LinkInv(L) /\ StatusInv /\ LossInv
  BY DEF CallerInv
<1>1. /\ ~genesisSet /\ genesisSet'
      /\ vertices' = [vertices EXCEPT ![Genesis] = 0]
      /\ status' = [status EXCEPT ![Genesis] = "Finalized"]
      /\ byHeight' = [byHeight EXCEPT ![0] = @ \cup {Genesis}]
      /\ tips' = tips \cup {Genesis} /\ accepted' = accepted \cup {Genesis}
      /\ UNCHANGED <<children, pending, orphanDeps, pc, locals>>
  BY DEF InitGenesis
<1>2. /\ Stored = {} /\ Genesis \in Hash /\ 0 \in Height /\ L[Genesis] = 0
      /\ \A h \in Hash : pending[h] = Absent
      /\ \A u \in Thread : pc[u] = "idle"
  BY <1>0, <1>1 DEF StoredInv, PendingInv, CallInv, Setting, Height
<1>3. tips = {}
  <2>1. \A h \in tips : L[h] < 0 /\ L[h] \in Nat
    <3>1. PICK K \in Height : /\ \A h \in tips : h \in Stored \/ L[h] < K
                              /\ K > 0 => genesisSet
      BY <1>0 DEF FloorInv
    <3>2. K = 0
      BY <1>1, <3>1 DEF Height
    <3> QED
      BY <1>0, <1>2, <3>1, <3>2 DEF Setting, TypeOK, Height
  <2> QED
    BY <2>1
<1>4. Stored' = {Genesis} /\ vertices'[Genesis] = 0
  <2>1. 0 # Absent
    BY DEF Absent
  <2> QED
    BY <1>0, <1>1, <1>2, <2>1 DEF Stored, TypeOK
<1>5. Linked = {} /\ Linked' = {Genesis}
  BY <1>1, <1>2, <1>4 DEF Linked, Unlinked
<1>6. StoredInv(L)' /\ PendingInv(L)'
  BY <1>1, <1>2, <1>4 DEF StoredInv, PendingInv
<1>7. FloorInv(L)'
  <2>1. /\ \A h \in Stored' : L[h] >= 0
        /\ \A h \in Stored' : \A p \in Parents[h] : p \in Stored' \/ L[p] < 0
        /\ \A h \in tips' : h \in Stored' \/ L[h] < 0
        /\ 0 > 0 => genesisSet' /\ Cutoffs # {}
    BY <1>1, <1>2, <1>3, <1>4
  <2> QED
    BY <1>2, <2>1 DEF FloorInv
<1>8. LinkInv(L)'
  <2>1. children' = [p \in Hash |-> {c \in {Genesis} : p \in Parents[c] /\ p \in {Genesis}}]
    BY <1>0, <1>1, <1>5 DEF LinkInv
  <2>2. byHeight' = [n \in Height |-> {h \in {Genesis} : L[h] = n}]
    <3>1. ASSUME NEW n \in Height
          PROVE  byHeight'[n] = {h \in {Genesis} : L[h] = n}
      BY <1>0, <1>1, <1>2, <1>5 DEF LinkInv, TypeOK
    <3> QED
      BY <1>0, <1>1, <3>1 DEF TypeOK
  <2>3. tips' \cap Stored' = {h \in {Genesis} : \A c \in {Genesis} : h \notin Parents[c]}
    BY <1>1, <1>3, <1>4
  <2> QED
    BY <1>4, <1>5, <2>1, <2>2, <2>3 DEF LinkInv
<1>9. CallInv(L)'
  BY <1>0, <1>1, <1>2 DEF CallInv, locals
<1>10. Inserting = {} /\ Inserting' = {}
  BY <1>1, <1>2 DEF Inserting
<1>11. StatusInv'
  BY <1>0, <1>1, <1>2, <1>4, <1>10 DEF StatusInv, TypeOK
<1>12. LossInv'
  BY <1>0, <1>1, <1>2, <1>4, <1>10 DEF LossInv
<1> QED
  BY <1>6, <1>7, <1>8, <1>9, <1>11, <1>12 DEF CallerInv

\* set_finalized_height marks vertices that are stored.
LEMMA FinalizeStep ==
    ASSUME NEW CONSTANT L, Setting(L), CallerInv(L), NEW t \in Thread, NEW n \in Height,
           SetFinalizedHeight(t, n), TypeOK'
    PROVE  CallerInv(L)'
<1>0. /\ TypeOK /\ CallInv(L) /\ PendingInv(L) /\ LinkInv(L) /\ StatusInv /\ LossInv
  BY DEF CallerInv
<1>1. /\ status' = [h \in Hash |-> IF h \in byHeight[n] THEN "Finalized" ELSE status[h]]
      /\ UNCHANGED <<vertices, children, tips, byHeight, pending, orphanDeps, genesisSet, pc,
                     locals, accepted>>
  BY DEF SetFinalizedHeight
<1>2. \A h : Unlinked(h)' <=> Unlinked(h)
  BY <1>1 DEF Unlinked, locals
<1>3. /\ Stored' = Stored /\ \A h : Missing(h)' = Missing(h)
      /\ StoredInv(L)' /\ FloorInv(L)' /\ LinkInv(L)'
  BY <1>1, <1>2, StoreKept
<1>4. CallInv(L)' /\ PendingInv(L)'
  BY <1>0, <1>1, <1>3 DEF CallInv, PendingInv, locals
<1>5. Inserting' = Inserting
  BY <1>1 DEF Inserting, locals
<1>6. byHeight[n] \subseteq Stored
  BY <1>0 DEF LinkInv, Linked
<1>7. StatusInv'
  <2>1. \A h \in Stored : pending[h] = Absent
    BY <1>0 DEF PendingInv, Stored
  <2> QED
    BY <1>0, <1>1, <1>3, <1>5, <1>6, <2>1 DEF StatusInv
<1>8. LossInv'
  <2>1. \A u \in Thread : OnStack(u)' = OnStack(u)
    BY <1>1 DEF OnStack, locals
  <2> QED
    BY <1>0, <1>1, <1>3, <1>5, <2>1 DEF LossInv, locals
<1> QED
  BY <1>3, <1>4, <1>7, <1>8 DEF CallerInv

\* prune removes whole levels through the height index and raises the floor.
LEMMA PruneStep ==
    ASSUME NEW CONSTANT L, Setting(L), CallerInv(L), NEW t \in Thread, NEW k \in Cutoffs,
           Prune(t, k), TypeOK'
    PROVE  CallerInv(L)'
<1> USE DagAssumption
<1>0. /\ TypeOK /\ CallInv(L) /\ PendingInv(L) /\ StoredInv(L) /\ FloorInv(L)
      /\ LinkInv(L) /\ StatusInv /\ LossInv
  BY DEF CallerInv
<1>1. /\ vertices' = [h \in Hash |-> IF h \in Pruned(k) THEN Absent ELSE vertices[h]]
      /\ status' = [h \in Hash |-> IF h \in Pruned(k) THEN "None" ELSE status[h]]
      /\ children' = [h \in Hash |-> IF h \in Pruned(k) THEN {} ELSE children[h]]
      /\ byHeight' = [n \in Height |-> IF n < k THEN {} ELSE byHeight[n]]
      /\ accepted' = accepted \ Pruned(k)
      /\ UNCHANGED <<tips, pending, orphanDeps, genesisSet, pc, locals>>
  BY DEF Prune
<1>2. /\ \A u \in Thread : pc[u] = "idle" /\ waiting[u] = << >>
      /\ k \in Height /\ k \in Int /\ \A h \in Hash : L[h] \in Height /\ L[h] \in Int
  BY <1>0 DEF Prune, Idle, Setting, CallInv, Height
<1>3. Linked = Stored
  BY <1>2 DEF Linked, Unlinked
<1>4. Pruned(k) = {h \in Stored : L[h] < k}
  <2>1. \A n \in Height : byHeight[n] = {h \in Stored : L[h] = n}
    BY <1>0, <1>3 DEF LinkInv
  <2>2. ASSUME NEW h
        PROVE  h \in Pruned(k) <=> \E n \in Height : n < k /\ h \in byHeight[n]
    BY DEF Pruned
  <2>3. ASSUME NEW h
        PROVE  h \in Pruned(k) <=> h \in Stored /\ L[h] < k
    BY <1>2, <2>1, <2>2 DEF Stored
  <2> QED
    BY <2>3
<1>5. /\ Stored' = {h \in Stored : L[h] >= k}
      /\ \A h \in Stored' : vertices'[h] = vertices[h]
  BY <1>1, <1>2, <1>4 DEF Stored
<1>6. Linked' = Stored'
  BY <1>1, <1>2 DEF Linked, Unlinked
<1>7. \A h \in Hash : Missing(h) \subseteq Missing(h)'
  BY <1>5 DEF Missing
<1>8. StoredInv(L)' /\ PendingInv(L)'
  BY <1>0, <1>1, <1>5 DEF StoredInv, PendingInv
<1>9. CallInv(L)'
  BY <1>0, <1>1, <1>2 DEF CallInv, locals
<1>10. FloorInv(L)'
  <2>1. PICK K \in Height :
           /\ \A h \in Stored : L[h] >= K
           /\ \A h \in Stored : \A p \in Parents[h] : p \in Stored \/ L[p] < K
           /\ \A h \in tips : h \in Stored \/ L[h] < K
           /\ K > 0 => genesisSet /\ Cutoffs # {}
    BY <1>0 DEF FloorInv
  <2>2. K \in Int /\ Stored \subseteq Hash /\ tips \subseteq Hash
    BY <1>0 DEF Height, Stored, TypeOK
  <2>3. CASE genesisSet
    <3>1. PICK M \in Height : M >= K /\ M >= k /\ (M = K \/ M = k)
      BY <1>2, <2>2
    <3>2. M \in Int
      BY DEF Height
    <3>3. /\ \A h \in Stored' : L[h] >= M
          /\ \A h \in tips' : h \in Stored' \/ L[h] < M
      BY <1>1, <1>2, <1>5, <2>1, <2>2, <3>1, <3>2
    <3>4. \A h \in Stored' : \A p \in Parents[h] : p \in Stored' \/ L[p] < M
      <4> SUFFICES ASSUME NEW h \in Stored', NEW p \in Parents[h], p \notin Stored'
                   PROVE  L[p] < M
        OBVIOUS
      <4>1. h \in Stored /\ p \in Hash
        BY <1>5, <2>2
      <4> QED
        BY <1>2, <1>5, <2>1, <2>2, <3>1, <3>2, <4>1
    <3> QED
      BY <1>1, <2>3, <3>3, <3>4 DEF FloorInv
  <2>4. CASE ~genesisSet
    <3>1. Stored = {} /\ Stored' = {}
      BY <1>0, <1>5, <2>4 DEF StoredInv
    <3> QED
      BY <1>1, <2>1, <3>1 DEF FloorInv
  <2> QED
    BY <2>3, <2>4
<1>11. LinkInv(L)'
  <2>1. \A c \in Stored : \A p \in Parents[c] : p \in Hash /\ L[p] < L[c]
    BY <1>0 DEF StoredInv, Setting
  <2>2. children' = [p \in Hash |-> {c \in Stored' : p \in Parents[c] /\ p \in Stored'}]
    <3>1. ASSUME NEW p \in Hash
          PROVE  children'[p] = {c \in Stored' : p \in Parents[c] /\ p \in Stored'}
      <4>1. children[p] = {c \in Stored : p \in Parents[c] /\ p \in Stored}
        BY <1>0, <1>3 DEF LinkInv
      <4>2. CASE p \in Pruned(k)
        BY <1>1, <1>2, <1>4, <1>5, <4>2
      <4>3. CASE p \notin Pruned(k)
        <5>1. \A c \in Stored : p \in Parents[c] /\ p \in Stored => L[c] >= k /\ p \in Stored'
          BY <1>2, <1>4, <1>5, <2>1, <4>3 DEF Stored
        <5> QED
          BY <1>1, <1>5, <4>1, <4>3, <5>1
      <4> QED
        BY <4>2, <4>3
    <3> QED
      BY <1>1, <3>1
  <2>3. byHeight' = [n \in Height |-> {h \in Stored' : L[h] = n}]
    <3>1. ASSUME NEW n \in Height
          PROVE  byHeight'[n] = {h \in Stored' : L[h] = n}
      <4>1. byHeight[n] = {h \in Stored : L[h] = n} /\ n \in Int
        BY <1>0, <1>3 DEF LinkInv, Height
      <4> QED
        BY <1>1, <1>2, <1>5, <4>1
    <3> QED
      BY <1>1, <3>1
  <2>4. tips' \cap Stored' = {h \in Stored' : \A c \in Stored' : h \notin Parents[c]}
    <3>1. tips \cap Stored = {h \in Stored : \A c \in Stored : h \notin Parents[c]}
      BY <1>0, <1>3 DEF LinkInv
    <3>2. \A h \in Stored' : \A c \in Stored : h \in Parents[c] => c \in Stored'
      BY <1>2, <1>5, <2>1 DEF Stored
    <3> QED
      BY <1>1, <1>5, <3>1, <3>2
  <2> QED
    BY <1>6, <2>2, <2>3, <2>4 DEF LinkInv
<1>12. Inserting = {} /\ Inserting' = {}
  BY <1>1, <1>2 DEF Inserting
<1>13. StatusInv'
  <2>1. \A h \in Pruned(k) : h \in Stored /\ h \notin Stored' /\ pending[h] = Absent
    BY <1>0, <1>2, <1>4, <1>5 DEF PendingInv, Stored
  <2>2. \A h \in Hash \ Pruned(k) : h \in Stored' <=> h \in Stored
    BY <1>2, <1>4, <1>5
  <2> QED
    BY <1>0, <1>1, <1>12, <2>1, <2>2 DEF StatusInv
<1>14. LossInv'
  <2>1. \A h \in accepted' : h \in Stored' \/ pending'[h] # Absent
    <3>1. accepted \subseteq Hash
      BY <1>0 DEF TypeOK
    <3> QED
      BY <1>0, <1>1, <1>2, <1>4, <1>5, <1>12, <3>1 DEF LossInv
  <2>2. \A u \in Thread : OnStack(u) = {}
    BY <1>2 DEF OnStack, Frames
  <2>3. \A h \in Hash : pending'[h] # Absent => \E p \in Missing(h)' : h \in orphanDeps'[p]
    BY <1>0, <1>1, <1>2, <1>7, <2>2 DEF LossInv
  <2> QED
    BY <2>1, <2>3 DEF LossInv
<1> QED
  BY <1>8, <1>9, <1>10, <1>11, <1>13, <1>14 DEF CallerInv

\* Every step keeps the invariant.
LEMMA CallerStep ==
    ASSUME NEW CONSTANT L, Setting(L), CallerInv(L), [Next]_vars
    PROVE  CallerInv(L)'
<1>0. TypeOK /\ TypeOK'
  BY TypeStep DEF CallerInv
<1>1. CASE UNCHANGED vars
  <2>1. UNCHANGED <<vertices, status, children, tips, byHeight, pending, orphanDeps,
                    genesisSet, pc, job, jobHeight, missing, waiting, accepted>>
    BY <1>1 DEF vars, store, locals
  <2>2. \A h : Unlinked(h)' <=> Unlinked(h)
    BY <2>1 DEF Unlinked
  <2>3. /\ Stored' = Stored /\ \A h : Missing(h)' = Missing(h)
        /\ StoredInv(L)' /\ FloorInv(L)' /\ LinkInv(L)'
    BY <2>1, <2>2, StoreKept
  <2>4. Inserting' = Inserting /\ \A t \in Thread : OnStack(t)' = OnStack(t)
    BY <2>1 DEF Inserting, OnStack
  <2>5. CallInv(L)' /\ PendingInv(L)' /\ StatusInv' /\ LossInv'
    BY <2>1, <2>3, <2>4 DEF CallerInv, CallInv, PendingInv, StatusInv, LossInv
  <2> QED
    BY <1>0, <2>3, <2>5 DEF CallerInv
<1>2. ASSUME NEW t \in Thread, AddNoop(t)
      PROVE  CallerInv(L)'
  BY <1>1, <1>2 DEF AddNoop
<1>3. ASSUME NEW t \in Thread, InsertError(t)
      PROVE  CallerInv(L)'
  BY <1>3, HeightAlwaysFits DEF InsertError
<1>4. ASSUME NEW t \in Thread, NEW h \in Hash, NEW n \in Height, AddVertex(t, h, n)
      PROVE  CallerInv(L)'
  BY <1>0, <1>4, AddVertexStep
<1>5. ASSUME NEW t \in Thread, NEW h \in Hash, DrainInsert(t, h) \/ DrainKeep(t, h)
      PROVE  CallerInv(L)'
  BY <1>0, <1>5, DrainInsertStep, DrainKeepStep
<1>6. ASSUME NEW t \in Thread, NEW n \in Height, SetFinalizedHeight(t, n)
      PROVE  CallerInv(L)'
  BY <1>0, <1>6, FinalizeStep
<1>7. ASSUME NEW t \in Thread, NEW k \in Cutoffs, Prune(t, k)
      PROVE  CallerInv(L)'
  BY <1>0, <1>7, PruneStep
<1>8. ASSUME NEW t \in Thread, InitGenesis(t) \/ Defer(t) \/ Insert(t) \/ Link(t)
      PROVE  CallerInv(L)'
  BY <1>0, <1>8, GenesisStep, DeferStep, InsertStep, LinkStep
<1>9. ASSUME NEW t \in Thread, TakeWaiting(t) \/ DrainReturn(t)
      PROVE  CallerInv(L)'
  BY <1>0, <1>9, TakeStep, DrainReturnStep
<1> QED
  BY <1>1, <1>2, <1>3, <1>4, <1>5, <1>6, <1>7, <1>8, <1>9 DEF Next, Continue

\* The empty store satisfies the invariant.
LEMMA CallerInit ==
    ASSUME NEW CONSTANT L, Setting(L), Init, TypeOK
    PROVE  CallerInv(L)
<1> USE DagAssumption
<1>1. /\ Stored = {} /\ Linked = {} /\ Inserting = {} /\ 0 \in Height
      /\ \A t \in Thread : pc[t] = "idle" /\ waiting[t] = << >>
      /\ \A h \in Hash : pending[h] = Absent /\ status[h] = "None"
  BY DEF Init, Stored, Linked, Inserting, Height
<1>2. CallInv(L) /\ PendingInv(L) /\ StoredInv(L)
  BY <1>1 DEF CallInv, PendingInv, StoredInv
<1>3. FloorInv(L)
  BY <1>1 DEF Init, FloorInv
<1>4. LinkInv(L)
  BY <1>1 DEF Init, LinkInv
<1>5. StatusInv /\ LossInv
  BY <1>1 DEF Init, StatusInv, LossInv
<1> QED
  BY <1>2, <1>3, <1>4, <1>5 DEF CallerInv

\* The invariant in every reachable state.
LEMMA CallerAlways ==
    ASSUME NEW CONSTANT L, Setting(L)
    PROVE  Spec => []CallerInv(L)
<1>1. Init /\ TypeOK => CallerInv(L)
  BY CallerInit
<1>2. CallerInv(L) /\ [Next]_vars => CallerInv(L)'
  BY CallerStep
<1> QED
  BY <1>1, <1>2, TypeCorrect, PTL DEF Spec

-----------------------------------------------------------------------------
(* Results *)

\* After every call of a single caller the five maps tell one story: children,
\* heights, tips and status, through orphans, finalization and pruning
\* (insert_vertex, process_orphans, set_finalized_height, prune).
THEOREM MapsProved ==
    ASSUME NEW CONSTANT L, Setting(L)
    PROVE  Spec => []MapsAgree
<1>1. CallerInv(L) => MapsAgree
  <2> SUFFICES ASSUME CallerInv(L), Quiet
               PROVE  IndexesAgree /\ TipsAreLeaves /\ StatusAgrees
    BY DEF CallerInv, MapsAgree, IndexesAgree, TipsAreLeaves, StatusAgrees
  <2>1. Linked = Stored /\ Inserting = {} /\ Stored \subseteq Hash
    BY DEF Quiet, Idle, Linked, Unlinked, Inserting, Stored
  <2>2. \A h \in Stored : vertices[h] = L[h]
    BY DEF CallerInv, StoredInv
  <2>3. IndexesAgree /\ TipsAreLeaves
    BY <2>1, <2>2 DEF CallerInv, LinkInv, IndexesAgree, TipsAreLeaves
  <2>4. StatusAgrees
    BY <2>1 DEF CallerInv, StatusInv, StatusAgrees, Stored
  <2> QED
    BY <2>3, <2>4
<1> QED
  BY <1>1, CallerAlways, PTL

\* After every call of a single caller, an accepted vertex that was not pruned is
\* stored, or buffered and registered under a parent that is still missing:
\* process_orphans loses nobody, however deep the recursion.
THEOREM NoneLostProved ==
    ASSUME NEW CONSTANT L, Setting(L)
    PROVE  Spec => []NoneLost
<1>1. CallerInv(L) => NoneLost
  <2> SUFFICES ASSUME CallerInv(L), Quiet, NEW h \in accepted, h \notin Stored
               PROVE  pending[h] # Absent /\ \E p \in Missing(h) : h \in orphanDeps[p]
    BY DEF NoneLost
  <2>1. h \in Hash /\ Inserting = {}
    BY DEF CallerInv, TypeOK, Quiet, Idle, Inserting
  <2>2. pending[h] # Absent
    BY <2>1 DEF CallerInv, LossInv
  <2>3. \A t \in Thread : OnStack(t) = {} /\ pc[t] = "idle"
    <3>1. \A t \in Thread : waiting[t] = << >> /\ pc[t] = "idle"
      BY DEF CallerInv, CallInv, Quiet, Idle
    <3>2. Frames(<< >>) = {}
      BY DEF Frames
    <3> QED
      BY <3>1, <3>2 DEF OnStack
  <2> QED
    BY <2>1, <2>2, <2>3 DEF CallerInv, LossInv
<1> QED
  BY <1>1, CallerAlways, PTL

\* For any number of threads, heights and cutoffs: no step of add_vertex, its
\* recursion, set_finalized_height or prune makes a settled finalized vertex
\* unfinalized, or starts a call that could.  No invariant is needed: the two
\* writers of a status take their vertex from job, which only AddVertex (absent
\* vertices) and DrainInsert (buffered ones) fill.
THEOREM FinalityStickyProved == Spec => FinalityIsSticky
<1>1. TypeOK /\ [Next]_vars =>
        [\A h \in Hash : Settled(h) /\ vertices'[h] # Absent => Settled(h)']_vars
  <2> SUFFICES ASSUME TypeOK, Next, NEW h \in Hash, Settled(h), vertices'[h] # Absent
               PROVE  Settled(h)'
    OBVIOUS
  <2> USE DEF Settled, Stored
  <2> PICK u \in Thread :
         \/ InitGenesis(u)
         \/ \E k \in Hash, n \in Height : AddVertex(u, k, n)
         \/ AddNoop(u)
         \/ Continue(u)
         \/ \E n \in Height : SetFinalizedHeight(u, n)
         \/ \E k \in Cutoffs : Prune(u, k)
    BY DEF Next
  <2>1. CASE InitGenesis(u)
    BY <2>1 DEF InitGenesis, TypeOK, locals
  <2>2. ASSUME NEW k \in Hash, NEW n \in Height, AddVertex(u, k, n)
        PROVE  Settled(h)'
    <3>1. k # h
      BY <2>2 DEF AddVertex
    <3> QED
      BY <2>2, <3>1 DEF AddVertex, TypeOK, store
  <2>3. CASE AddNoop(u)
    BY <2>3 DEF AddNoop, vars, store, locals
  <2>4. CASE Defer(u)
    BY <2>4 DEF Defer, TypeOK, locals
  <2>5. CASE Insert(u)
    BY <2>5 DEF Insert, TypeOK, locals
  <2>6. CASE InsertError(u)
    BY <2>6 DEF InsertError, TypeOK, store
  <2>7. CASE Link(u)
    BY <2>7 DEF Link, TypeOK, locals
  <2>8. CASE TakeWaiting(u)
    BY <2>8 DEF TakeWaiting, TypeOK
  <2>9. ASSUME NEW k \in Hash, DrainInsert(u, k)
        PROVE  Settled(h)'
    <3>1. k # h
      BY <2>9 DEF DrainInsert
    <3> QED
      BY <2>9, <3>1 DEF DrainInsert, TypeOK
  <2>10. ASSUME NEW k \in Hash, DrainKeep(u, k)
         PROVE  Settled(h)'
    BY <2>10 DEF DrainKeep, TypeOK
  <2>11. CASE DrainReturn(u)
    BY <2>11 DEF DrainReturn, TypeOK, store
  <2>12. ASSUME NEW n \in Height, SetFinalizedHeight(u, n)
         PROVE  Settled(h)'
    BY <2>12 DEF SetFinalizedHeight, TypeOK, locals
  <2>13. ASSUME NEW k \in Cutoffs, Prune(u, k)
         PROVE  Settled(h)'
    BY <2>13 DEF Prune, TypeOK, locals
  <2> QED
    BY <2>1, <2>2, <2>3, <2>4, <2>5, <2>6, <2>7, <2>8, <2>9, <2>10, <2>11, <2>12, <2>13
       DEF Continue
<1> QED
  BY <1>1, TypeCorrect, PTL DEF Spec, FinalityIsSticky
=============================================================================
