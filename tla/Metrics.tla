------------------------------ MODULE Metrics ------------------------------
(***************************************************************************)
(* MetricsCollector and ThroughputAnalyzer of nexus-dag.  A recorder holds *)
(* its window's lock while it adds to the totals; reset takes the locks    *)
(* one after the other, so records slip in between.                        *)
(***************************************************************************)
EXTENDS Integers, Sequences, FiniteSetsExt, Functions

CONSTANTS
    TxCount, Latency,    \* what may be recorded
    WindowSize, MaxHistory,
    MaxRecords           \* bound: vertices, and latencies of a kind

VARIABLES
    acc,        \* AccumulatedMetrics
    window,     \* tx_window, without the times
    lat,        \* confirmation_latencies and finality_latencies
    recording,  \* per kind, the latency still to be added while its lock is held
    resetting,  \* the steps reset has left
    history     \* tps_history, without the times

Kind == {"conf", "fin"}
Total(s) == SumFunction(s)

\* push_back on a full queue pops the front first.
Push(s, x, size) == Append(IF Len(s) >= size THEN SubSeq(s, 2, Len(s)) ELSE s, x)

NoTotals == [vertices |-> 0, txs |-> 0, sum |-> [k \in Kind |-> 0], count |-> [k \in Kind |-> 0]]

Init ==
    /\ acc = NoTotals /\ window = << >>
    /\ lat = [k \in Kind |-> << >>]
    /\ recording = [k \in Kind |-> << >>]
    /\ resetting = << >> /\ history = << >>

\* Both locks are held; entries older than ten seconds leave at the front.
RecordVertex ==
    /\ acc.vertices < MaxRecords
    /\ \E n \in TxCount, old \in 0..Len(window) :
        /\ acc' = [acc EXCEPT !.vertices = @ + 1, !.txs = @ + n]
        /\ window' = SubSeq(Append(window, n), old + 1, Len(window) + 1)
    /\ UNCHANGED <<lat, recording, resetting, history>>

\* record_confirmation and record_finality: the latency goes into the window,
StartRecord(k) ==
    /\ recording[k] = << >> /\ acc.count[k] < MaxRecords
    /\ \E l \in Latency :
        /\ lat' = [lat EXCEPT ![k] = Push(@, l, WindowSize)]
        /\ recording' = [recording EXCEPT ![k] = <<l>>]
    /\ UNCHANGED <<acc, window, resetting, history>>

\* and then, with the window still locked, into the totals.
FinishRecord(k) ==
    /\ recording[k] # << >>
    /\ acc' = [acc EXCEPT !.sum[k] = @ + recording[k][1], !.count[k] = @ + 1]
    /\ recording' = [recording EXCEPT ![k] = << >>]
    /\ UNCHANGED <<window, lat, resetting, history>>

\* Mutant: the windows are cleared before the totals.
ResetStepsReversed == <<"fin", "conf", "window", "acc">>

ResetSteps == <<"acc", "window", "conf", "fin">>

StartReset ==
    /\ resetting = << >>
    /\ resetting' = ResetSteps
    /\ UNCHANGED <<acc, window, lat, recording, history>>

ResetTotals == NoTotals

ResetStep ==
    /\ resetting # << >>
    /\ resetting' = Tail(resetting)
    /\ CASE Head(resetting) = "acc" -> acc' = ResetTotals /\ UNCHANGED <<window, lat>>
         [] Head(resetting) = "window" -> window' = << >> /\ UNCHANGED <<acc, lat>>
         [] OTHER -> /\ recording[Head(resetting)] = << >>
                     /\ lat' = [lat EXCEPT ![Head(resetting)] = << >>]
                     /\ UNCHANGED <<acc, window>>
    /\ UNCHANGED <<recording, history>>

\* record_sample.
RecordSample ==
    /\ \E t \in TxCount : history' = Push(history, t, MaxHistory)
    /\ UNCHANGED <<acc, window, lat, recording, resetting>>

\* The place of a percentile in the sorted samples, counted from one.
Rank(p) == (Len(history) * p) \div 100 + 1

PeakTps == Max(Range(history) \cup {0})

\* sort_by: the samples rearranged in ascending order.
Sorted(s) ==
    LET p == CHOOSE p \in [DOMAIN s -> DOMAIN s] :
                 IsInjective(p) /\ \A i, j \in DOMAIN s : i <= j => s[p[i]] <= s[p[j]]
    IN [i \in DOMAIN s |-> s[p[i]]]

Percentile(p) == Sorted(history)[Rank(p)]

\* The collector and the analyzer are separate objects.
AnalyzerNext == RecordSample
CollectorNext ==
    \/ RecordVertex \/ StartReset \/ ResetStep
    \/ \E k \in Kind : StartRecord(k) \/ FinishRecord(k)

Next == CollectorNext \/ AnalyzerNext

-----------------------------------------------------------------------------
(* Properties *)

\* Between resets the windows never hold more than the totals account for,
\* whatever was recorded while reset was half done (record_vertex,
\* record_confirmation, record_finality, reset).
WindowsAreAccounted ==
    resetting = << >> =>
        /\ Len(window) <= acc.vertices /\ Total(window) <= acc.txs
        /\ \A k \in Kind : recording[k] = << >> => /\ Len(lat[k]) <= acc.count[k]
                                                /\ Total(lat[k]) <= acc.sum[k]

\* The averages a snapshot reports lie between the smallest and the largest
\* latency ever recorded, also during a reset (snapshot, reset).
AveragesAreInRange ==
    \A k \in Kind : /\ Min(Latency) * acc.count[k] <= acc.sum[k]
                    /\ acc.sum[k] <= Max(Latency) * acc.count[k]

\* Every percentile of a history is one of its samples, they are ordered, and
\* none exceeds the peak (tps_percentiles, peak_tps).
PercentilesExist ==
    history # << >> =>
        /\ \A p \in {50, 90, 95, 99} : Rank(p) \in DOMAIN history
        /\ Percentile(50) <= Percentile(99) /\ Percentile(99) <= PeakTps

\* What the collector and the analyzer report was recorded.
MetricsAreTrue == WindowsAreAccounted /\ AveragesAreInRange /\ PercentilesExist
=============================================================================
