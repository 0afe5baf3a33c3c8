------------------------------- MODULE Journal -------------------------------
(***************************************************************************)
(* The journaled state of crates/nexus-evm/src/state.rs: nested            *)
(* checkpoints over a StateDb that the interpreter also writes past the    *)
(* journal (increment_nonce, set_code, transfers).  A cell is a balance, a *)
(* storage slot, a nonce or a code hash; only the first two are journaled. *)
(***************************************************************************)
EXTENDS Integers, Sequences

CONSTANTS
    Journaled,     \* balances and storage slots
    Unjournaled,   \* nonces and code hashes: no operation journals them
    CellValue,     \* the values of a cell; 0 is the absent one
    MaxJournal,    \* bound on the length of the journal
    MaxDepth       \* bound on nested checkpoints

ASSUME JournalAssumption ==
    0 \in CellValue /\ Journaled \cap Unjournaled = {} /\ MaxJournal \in Nat /\ MaxDepth \in Nat

VARIABLES
    cell,          \* the StateDb
    journal,       \* entries: a cell and the value it had
    marks,         \* checkpoints: lengths of the journal
    atMark         \* history: per checkpoint, the cells at its creation and
                   \* those written past the journal since

journalVars == <<cell, journal, marks, atMark>>

Cell == Journaled \cup Unjournaled

JournalInit ==
    /\ cell = [c \in Cell |-> 0]
    /\ journal = << >>
    /\ marks = << >>
    /\ atMark = << >>

\* Cells written behind the back of every open checkpoint
Bypass(S) == [i \in DOMAIN atMark |-> [atMark[i] EXCEPT !.past = @ \cup (S \cap Journaled)]]

\* JournaledState::set_balance and set_storage: the previous value is read and
\* pushed before the write.
SetCell(c, v) ==
    /\ Len(journal) < MaxJournal
    /\ journal' = Append(journal, [cell |-> c, prev |-> cell[c]])
    /\ cell' = [cell EXCEPT ![c] = v]
    /\ UNCHANGED <<marks, atMark>>

\* A StateDb setter called directly.
WriteThrough(c, v) ==
    /\ cell' = [cell EXCEPT ![c] = v]
    /\ atMark' = Bypass({c})
    /\ UNCHANGED <<journal, marks>>

Checkpoint ==
    /\ Len(marks) < MaxDepth
    /\ marks' = Append(marks, Len(journal))
    /\ atMark' = Append(atMark, [cell |-> [c \in Journaled |-> cell[c]], past |-> {}])
    /\ UNCHANGED <<cell, journal>>

\* Mutant: the entries of the committed checkpoint are dropped, as its doc
\* comment says.
CommitCheckpointDrops(id) ==
    /\ id <= Len(marks)
    /\ marks' = SubSeq(marks, 1, id - 1)
    /\ atMark' = SubSeq(atMark, 1, id - 1)
    /\ journal' = SubSeq(journal, 1, marks[id])
    /\ UNCHANGED cell

\* commit_checkpoint forgets the marks from id on; the entries stay for the
\* enclosing checkpoints.
CommitCheckpoint(id) ==
    /\ id <= Len(marks)
    /\ marks' = SubSeq(marks, 1, id - 1)
    /\ atMark' = SubSeq(atMark, 1, id - 1)
    /\ UNCHANGED <<cell, journal>>

RevertEntry(entry, cells) == [cells EXCEPT ![entry.cell] = entry.prev]

\* Undo the entries beyond the mark, the last one first.
Undo(n) ==
    LET Back[k \in 0..Len(journal)] ==
            IF k = 0 THEN cell ELSE RevertEntry(journal[Len(journal) - k + 1], Back[k - 1])
    IN Back[Len(journal) - n]

RevertCheckpoint(id) ==
    /\ id <= Len(marks)
    /\ cell' = Undo(marks[id])
    /\ journal' = SubSeq(journal, 1, marks[id])
    /\ marks' = SubSeq(marks, 1, id - 1)
    /\ atMark' = SubSeq(atMark, 1, id - 1)

JournalNext ==
    \/ \E c \in Journaled, v \in CellValue : SetCell(c, v)
    \/ \E c \in Cell, v \in CellValue : WriteThrough(c, v)
    \/ Checkpoint
    \/ \E id \in 1 .. MaxDepth : CommitCheckpoint(id) \/ RevertCheckpoint(id)

JournalSpec == JournalInit /\ [][JournalNext]_journalVars

-----------------------------------------------------------------------------
(* Properties *)

\* Reverting to a checkpoint gives every cell that was written only through the
\* journal the value it had there, inner checkpoints that were committed or
\* reverted in between included, and leaves what is never journaled alone.
RevertRestores ==
    [][\A id \in DOMAIN marks \ DOMAIN marks' : RevertCheckpoint(id) =>
          /\ \A c \in Journaled \ atMark[id].past : cell'[c] = atMark[id].cell[c]
          /\ \A c \in Unjournaled : cell'[c] = cell[c]]_journalVars
=============================================================================
