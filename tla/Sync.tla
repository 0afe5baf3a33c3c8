-------------------------------- MODULE Sync --------------------------------
(***************************************************************************)
(* The sync manager: crates/nexus-network/src/sync.rs over the DAG, which  *)
(* it uses through add_vertex and its queries.                             *)
(*                                                                         *)
(* The manager of one node asks for the tips of others and then for the    *)
(* vertices it lacks; a driver outside the repository sends what           *)
(* next_request returns and delivers the answers.  An answer may be late,  *)
(* reordered, an error, lost or repeated.  The manager also serves the     *)
(* GetVerticesSince of others, one height after the other from a DAG that  *)
(* grows meanwhile.                                                        *)
(***************************************************************************)
EXTENDS Integers, SequencesExt

CONSTANTS
    Hash,
    Parents,
    HeightOf,
    Genesis,
    Remote,           \* what the other node stores, closed under parents
    BatchSize,        \* batch_size
    MaxConcurrent,    \* max_concurrent
    Limits,           \* the limits others ask GetVerticesSince with
    MaxTips,          \* bound on the answers to GetTips
    MaxStrays         \* bound on the answers no slot was taken for

VARIABLES
    have,         \* vertices the DAG stores
    orphans,      \* vertices the DAG buffers
    indexed,      \* by_height: those of have whose insertion is complete
    syncState,
    queue,        \* pending_requests
    inFlight,     \* in_flight
    wire,         \* history: the GetVertices requests that may still be answered
    tipsAsked,    \* history: the answers to GetTips
    strays,       \* history: the answers no slot was taken for
    since,        \* the GetVerticesSince being served
    began         \* history: what was indexed when it came

syncVars == <<have, orphans, indexed, syncState, queue, inFlight, wire, tipsAsked, strays, since, began>>
dag == <<have, orphans, indexed>>
served == <<since, began>>

NoRequest == [step |-> "idle"]

Tips(S) == {v \in S : \A c \in S : v \notin Parents[c]}

Init ==
    /\ have = {Genesis}
    /\ orphans = {}
    /\ indexed = {Genesis}
    /\ syncState = "Idle"
    /\ queue = << >>
    /\ inFlight = 0
    /\ wire = << >>
    /\ tipsAsked = 0
    /\ strays = 0
    /\ since = NoRequest
    /\ began = {}

-----------------------------------------------------------------------------
(* The DAG, by what add_vertex promises: a vertex is stored as soon as all  *)
(* its parents are, and buffered until then.                               *)
\* Parents are below their children, so this is the largest part of S and O
\* that contains the parents of what it adds to S.
Settled(S, O) ==
    UNION {S \cup X : X \in {Y \in SUBSET O : \A v \in Y : Parents[v] \subseteq S \cup Y}}

AddVertices(V) ==
    LET O == orphans \cup (V \ have)
    IN have' = Settled(have, O) /\ orphans' = O \ Settled(have, O) /\ UNCHANGED indexed

-----------------------------------------------------------------------------
StartSync ==
    /\ syncState' = "Syncing"
    /\ UNCHANGED <<dag, queue, inFlight, wire, tipsAsked, strays, served>>
MarkSynced ==
    /\ syncState' = "Synced"
    /\ UNCHANGED <<dag, queue, inFlight, wire, tipsAsked, strays, served>>

\* handle_response of Tips: the tips the DAG lacks are queued, also when they
\* are queued or requested already.
HandleTips(q) ==
    /\ tipsAsked < MaxTips
    /\ tipsAsked' = tipsAsked + 1
    /\ q \in SetToSeqs(Tips(Remote))
    /\ queue' = queue \o SelectSeq(q, LAMBDA v : v \notin have)
    /\ UNCHANGED <<dag, syncState, inFlight, wire, strays, served>>

\* next_request takes a batch off the queue while few requests are in flight.
NextRequest ==
    /\ inFlight < MaxConcurrent
    /\ queue # << >>
    /\ LET n == IF Len(queue) < BatchSize THEN Len(queue) ELSE BatchSize
       IN /\ wire' = Append(wire, ToSet(SubSeq(queue, 1, n)))
          /\ queue' = SubSeq(queue, n + 1, Len(queue))
    /\ inFlight' = inFlight + 1
    /\ UNCHANGED <<dag, syncState, tipsAsked, strays, served>>

\* saturating_sub(1)
OneLess == IF inFlight = 0 THEN 0 ELSE inFlight - 1

\* handle_response of Vertices: what the other node stores of request i
HandleVertices(i) ==
    /\ AddVertices(wire[i] \cap Remote)
    /\ inFlight' = OneLess
    /\ wire' = RemoveAt(wire, i)
    /\ UNCHANGED <<syncState, queue, tipsAsked, strays, served>>

\* handle_response of Error: the batch is not requested again.
HandleError(i) ==
    /\ inFlight' = OneLess
    /\ wire' = RemoveAt(wire, i)
    /\ UNCHANGED <<dag, syncState, queue, tipsAsked, strays, served>>

\* handle_response of Vertices or Error that answers a GetVerticesSince or a
\* GetTips of the driver, or comes a second time: it does not say what it
\* answers, and frees a slot all the same.
HandleStray(V) ==
    /\ strays < MaxStrays
    /\ strays' = strays + 1
    /\ AddVertices(V)
    /\ inFlight' = OneLess
    /\ UNCHANGED <<syncState, queue, wire, tipsAsked, served>>

\* The answer is lost.  No timeout ends the request: its slot stays taken.
Lose(i) ==
    /\ wire' = RemoveAt(wire, i)
    /\ UNCHANGED <<dag, syncState, queue, inFlight, tipsAsked, strays, served>>

\* The DAG is shared: vertices also come from the node itself.
OwnVertex(v) ==
    /\ v \notin have \cup orphans
    /\ AddVertices({v})
    /\ UNCHANGED <<syncState, queue, inFlight, wire, tipsAsked, strays, served>>

\* insert_vertex ends with the height index, after the vertex could be found
\* and extended.
Index(v) ==
    /\ v \in have \ indexed
    /\ indexed' = indexed \cup {v}
    /\ UNCHANGED <<have, orphans, syncState, queue, inFlight, wire, tipsAsked, strays, served>>

-----------------------------------------------------------------------------
(* handle_request of GetVerticesSince. *)
\* Mutant: the first height above the one asked for is skipped.
BeginSinceSkips(height, limit, top) ==
    /\ since = NoRequest
    /\ since' = [step |-> "reading", base |-> height, limit |-> limit, top |-> top,
                 next |-> height + 2, out |-> << >>]
    /\ began' = indexed
    /\ UNCHANGED <<dag, syncState, queue, inFlight, wire, tipsAsked, strays>>

\* latest_height is that of the highest tip, or of a lower one while an
\* insertion is between taking the parents off the tips and becoming one.
BeginSince(height, limit, top) ==
    /\ since = NoRequest
    /\ since' = [step |-> "reading", base |-> height, limit |-> limit, top |-> top,
                 next |-> height + 1, out |-> << >>]
    /\ began' = indexed
    /\ UNCHANGED <<dag, syncState, queue, inFlight, wire, tipsAsked, strays>>

Reading == since # NoRequest /\ since.next <= since.top /\ Len(since.out) < since.limit

\* The vertices of one height, in any order, until the limit is reached.
ReadHeight(q) ==
    /\ Reading
    /\ q \in SetToSeqs({v \in indexed : HeightOf[v] = since.next})
    /\ LET room == since.limit - Len(since.out)
       IN since' = [since EXCEPT !.next = @ + 1,
                                 !.out = @ \o SubSeq(q, 1, IF Len(q) < room THEN Len(q) ELSE room)]
    /\ UNCHANGED <<dag, syncState, queue, inFlight, wire, tipsAsked, strays, began>>

AnswerSince ==
    /\ since # NoRequest /\ ~Reading
    /\ since' = NoRequest /\ began' = {}
    /\ UNCHANGED <<dag, syncState, queue, inFlight, wire, tipsAsked, strays>>

-----------------------------------------------------------------------------
Next ==
    \/ \E v \in Hash : OwnVertex(v) \/ Index(v)
    \/ StartSync \/ MarkSynced
    \/ \E q \in SetToSeqs(Tips(Remote)) : HandleTips(q)
    \/ NextRequest
    \/ \E i \in DOMAIN wire : HandleVertices(i) \/ HandleError(i) \/ Lose(i)
    \/ \E V \in SUBSET Remote : HandleStray(V)
    \/ \E a, b \in have, limit \in Limits : BeginSince(HeightOf[a], limit, HeightOf[b])
    \/ Reading /\ \E q \in SetToSeqs({v \in indexed : HeightOf[v] = since.next}) : ReadHeight(q)
    \/ AnswerSince

Spec == Init /\ [][Next]_syncVars

-----------------------------------------------------------------------------
(* Properties *)

\* However answers are delayed, reordered, refused, lost or repeated, the
\* counter stays within max_concurrent and says at most as many too few as
\* stray answers have come: each lets one more request out than max_concurrent.
OutstandingBounded == Len(wire) <= inFlight + strays /\ inFlight <= MaxConcurrent

\* A node that stores everything up to a height can add the answer to its
\* GetVerticesSince one vertex after the other, although the DAG grew while the
\* answer was read and where the limit cuts it off: every vertex comes after
\* those of its parents that are above the height and were indexed when the
\* request came.
SinceIsCausal ==
    since # NoRequest =>
      \A i \in DOMAIN since.out : \A p \in Parents[since.out[i]] \cap began :
        HeightOf[p] <= since.base \/ p \in ToSet(SubSeq(since.out, 1, i - 1))

\* A sync stays within its requests, and its answers can be used in their order
\* (next_request, handle_request, handle_response).
SyncIsOrderly == OutstandingBounded /\ SinceIsCausal
=============================================================================
