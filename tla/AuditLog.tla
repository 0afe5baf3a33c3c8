------------------------------ MODULE AuditLog ------------------------------
(***************************************************************************)
(* IsoLogger of nexus-consensus behind its global mutex.  The hash of an   *)
(* entry is the entry itself.  writeln! hands the text and the newline to  *)
(* the file one after the other, so the file is the sequence of the pieces *)
(* that reached it: a whole text, the beginning of one, a newline.  A      *)
(* write that fails panics with the mutex held, which poisons it: only a   *)
(* restart logs again, into the same file.                                 *)
(***************************************************************************)
EXTENDS Integers, Sequences

CONSTANTS LogText, MaxPieces, MaxStarts

VARIABLES
    logFile,
    logSeq, prevHash, poisoned,
    line,       \* the entry between the start of log and its end, or NoLine
    inFile,     \* its text is in the file, its newline not yet
    starts      \* history: the number of the process

GenesisHash == << >>
NoLine == << >>

Init ==
    /\ logFile = << >> /\ logSeq = 0 /\ prevHash = GenesisHash /\ poisoned = FALSE
    /\ line = NoLine /\ inFile = FALSE /\ starts = 1

\* Mutant: the chain is moved on by the entry's predecessor.
NextHashStale(entry) == entry[3]

NextHash(entry) == entry

Put(kind) == Append(logFile, [kind |-> kind, entry |-> line, by |-> starts])

\* log up to the write: seq is counted up first.
Log ==
    /\ ~poisoned /\ line = NoLine /\ Len(logFile) + 2 <= MaxPieces
    /\ \E t \in LogText : line' = <<logSeq + 1, t, prevHash>>
    /\ logSeq' = logSeq + 1
    /\ UNCHANGED <<logFile, prevHash, poisoned, inFile, starts>>

WriteText ==
    /\ line # NoLine /\ ~inFile
    /\ logFile' = Put("text")
    /\ inFile' = TRUE
    /\ UNCHANGED <<logSeq, prevHash, poisoned, line, starts>>

\* prev_hash follows once the line is complete.
WriteNewline ==
    /\ line # NoLine /\ inFile
    /\ logFile' = Put("newline")
    /\ prevHash' = NextHash(line)
    /\ line' = NoLine /\ inFile' = FALSE
    /\ UNCHANGED <<logSeq, poisoned, starts>>

\* The file cannot be opened, the text is refused or cut short, or the newline
\* is refused: expect panics.
WriteFails ==
    /\ line # NoLine
    /\ \/ logFile' = logFile
       \/ ~inFile /\ logFile' = Put("torn")
    /\ poisoned' = TRUE /\ line' = NoLine /\ inFile' = FALSE
    /\ UNCHANGED <<logSeq, prevHash, starts>>

\* The process ends at any point (in the middle of a write: after WriteFails); a
\* new logger starts from nothing and appends to the old file.
Restart ==
    /\ logSeq > 0 /\ starts < MaxStarts
    /\ logSeq' = 0 /\ prevHash' = GenesisHash /\ poisoned' = FALSE
    /\ line' = NoLine /\ inFile' = FALSE /\ starts' = starts + 1
    /\ UNCHANGED logFile

Next == Log \/ WriteText \/ WriteNewline \/ WriteFails \/ Restart

-----------------------------------------------------------------------------
(* Properties *)

\* A new process: its first entry, behind nothing it has written itself
Begins(i) ==
    /\ logFile[i].entry[1] = 1 /\ logFile[i].entry[3] = GenesisHash
    /\ \A j \in 1..(i - 1) : logFile[j].by < logFile[i].by

\* The next number and the hash of the line before, which is complete
Continues(i) ==
    /\ i > 2
    /\ logFile[i - 1].kind = "newline" /\ logFile[i - 2].kind = "text"
    /\ logFile[i].entry[1] = logFile[i - 2].entry[1] + 1
    /\ logFile[i].entry[3] = logFile[i - 2].entry

\* The audit log is one hash chain per process (log, new): every text in the
\* file, torn ones included, continues the complete line just before it or is
\* the first of its process, and a newline ends the text just before it.  So a
\* torn line or a missing newline is followed by nothing of its own process, and
\* the chain breaks at most once per restart.
ChainIsLinked ==
    \A i \in DOMAIN logFile :
        IF logFile[i].kind = "newline"
        THEN i > 1 /\ logFile[i - 1] = [kind |-> "text", entry |-> logFile[i].entry, by |-> logFile[i].by]
        ELSE Begins(i) \/ Continues(i)
=============================================================================
