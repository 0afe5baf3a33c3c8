---------------------------- MODULE ServiceProofs ----------------------------
(***************************************************************************)
(* What holds of the services for every value of their constants: the      *)
(* audit log, the payment bridge, shielded transactions, the privacy pool, *)
(* the commitment tree, the validator registry, the staking contract, tip  *)
(* selection, metrics, genesis files, ISO 8583 and the routing of payments.*)
(***************************************************************************)
EXTENDS Services, Integers, Sequences, SequenceTheorems, Sums

-----------------------------------------------------------------------------
(* The audit log *)

\* What the next text may say: the first of a process that has written nothing,
\* or the one that continues the line at the end of the file
LogReady(n, h) ==
    \/ n = 1 /\ h = L!GenesisHash /\ \A j \in DOMAIN logFile : logFile[j].by < starts
    \/ /\ Len(logFile) >= 2
       /\ logFile[Len(logFile)].kind = "newline" /\ logFile[Len(logFile) - 1].kind = "text"
       /\ n = logFile[Len(logFile) - 1].entry[1] + 1 /\ h = logFile[Len(logFile) - 1].entry

LogType ==
    /\ \E X : logFile \in Seq(X)
    /\ logSeq \in Nat /\ starts \in Nat /\ poisoned \in BOOLEAN /\ inFile \in BOOLEAN
    /\ \A i \in DOMAIN logFile : logFile[i].by \in Nat /\ logFile[i].by <= starts

\* A logger that may write, or is about to, fits the end of the file; one that
\* has written its text has written it last.
LogContinues ==
    /\ inFile => line # L!NoLine
    /\ line # L!NoLine => line[1] = logSeq
    /\ ~poisoned /\ line = L!NoLine => LogReady(logSeq + 1, prevHash)
    /\ line # L!NoLine /\ ~inFile => LogReady(line[1], line[3])
    /\ inFile => /\ Len(logFile) >= 1
                 /\ logFile[Len(logFile)] = [kind |-> "text", entry |-> line, by |-> starts]

LogInv == LogType /\ LogContinues /\ L!ChainIsLinked

\* What one more piece leaves as it was
LEMMA PieceAdded ==
    ASSUME LogType, L!ChainIsLinked, NEW k, k \in {"text", "torn", "newline"},
           logFile' = Append(logFile, [kind |-> k, entry |-> line, by |-> starts]), starts' = starts
    PROVE  LET n == Len(logFile) IN
           /\ n \in Nat /\ Len(logFile') = n + 1 /\ DOMAIN logFile = 1..n /\ DOMAIN logFile' = 1..(n + 1)
           /\ \E X : logFile' \in Seq(X)
           /\ logFile'[n + 1] = [kind |-> k, entry |-> line, by |-> starts]
           /\ \A i \in 1..n : logFile'[i] = logFile[i]
           /\ \A i \in DOMAIN logFile' : logFile'[i].by \in Nat /\ logFile'[i].by <= starts'
           /\ \A i \in 1..n : IF logFile'[i].kind = "newline"
                              THEN i > 1 /\ logFile'[i - 1] = [kind |-> "text", entry |-> logFile'[i].entry,
                                                               by |-> logFile'[i].by]
                              ELSE L!Begins(i)' \/ L!Continues(i)'
<1> DEFINE x == [kind |-> k, entry |-> line, by |-> starts]
           n == Len(logFile)
<1>1. PICK X : logFile \in Seq(X)
  BY DEF LogType
<1>2. x.by = starts /\ starts \in Nat
  BY DEF LogType
<1> HIDE DEF x
<1>3. logFile \in Seq(X \cup {x}) /\ logFile' = Append(logFile, x)
  BY <1>1 DEF x
<1>4. /\ n \in Nat /\ Len(logFile') = n + 1 /\ DOMAIN logFile = 1..n /\ DOMAIN logFile' = 1..(n + 1)
      /\ logFile' \in Seq(X \cup {x})
      /\ logFile'[n + 1] = x /\ \A i \in 1..n : logFile'[i] = logFile[i]
  BY <1>3
<1>5. \A i \in DOMAIN logFile' : logFile'[i].by \in Nat /\ logFile'[i].by <= starts'
  BY <1>2, <1>4 DEF LogType
<1>6. ASSUME NEW i \in 1..n
      PROVE  IF logFile'[i].kind = "newline"
             THEN i > 1 /\ logFile'[i - 1] = [kind |-> "text", entry |-> logFile'[i].entry, by |-> logFile'[i].by]
             ELSE L!Begins(i)' \/ L!Continues(i)'
  <2>1. logFile'[i] = logFile[i] /\ i \in DOMAIN logFile
    BY <1>4
  <2>2. /\ i > 1 => logFile'[i - 1] = logFile[i - 1]
        /\ i > 2 => logFile'[i - 2] = logFile[i - 2]
        /\ \A j \in 1..(i - 1) : logFile'[j] = logFile[j]
    BY <1>4
  <2>3. L!Begins(i) => L!Begins(i)'
    BY <2>1, <2>2 DEF L!Begins, L!GenesisHash
  <2>4. L!Continues(i) => L!Continues(i)'
    BY <2>1, <2>2 DEF L!Continues
  <2> QED
    BY <2>1, <2>2, <2>3, <2>4 DEF L!ChainIsLinked
<1> QED
  BY <1>4, <1>5, <1>6 DEF x

\* A text or a torn text that the logger was ready for
LEMMA TextFits ==
    ASSUME LogType, L!ChainIsLinked, LogReady(line[1], line[3]), starts' = starts,
           NEW k, k \in {"text", "torn"},
           logFile' = Append(logFile, [kind |-> k, entry |-> line, by |-> starts])
    PROVE  L!ChainIsLinked'
<1> DEFINE n == Len(logFile)
           x == [kind |-> k, entry |-> line, by |-> starts]
<1>1. /\ n \in Nat /\ DOMAIN logFile = 1..n /\ DOMAIN logFile' = 1..(n + 1)
      /\ logFile'[n + 1] = x
      /\ \A i \in 1..n : logFile'[i] = logFile[i]
      /\ \A i \in 1..n : IF logFile'[i].kind = "newline"
                         THEN i > 1 /\ logFile'[i - 1] = [kind |-> "text", entry |-> logFile'[i].entry,
                                                          by |-> logFile'[i].by]
                         ELSE L!Begins(i)' \/ L!Continues(i)'
  BY PieceAdded
<1>2. x.kind # "newline" /\ x.entry = line /\ x.by = starts
  OBVIOUS
<1> HIDE DEF x, n
<1> SUFFICES ASSUME NEW i \in 1..(n + 1), i = n + 1 PROVE L!Begins(i)' \/ L!Continues(i)'
  BY <1>1, <1>2 DEF L!ChainIsLinked
<1>3. CASE line[1] = 1 /\ line[3] = L!GenesisHash /\ \A j \in DOMAIN logFile : logFile[j].by < starts
  <2>1. \A j \in 1..(i - 1) : logFile'[j].by < starts
    BY <1>1, <1>3
  <2> QED
    BY <1>1, <1>2, <1>3, <2>1 DEF L!Begins, L!GenesisHash
<1>4. CASE /\ n >= 2 /\ logFile[n].kind = "newline" /\ logFile[n - 1].kind = "text"
           /\ line[1] = logFile[n - 1].entry[1] + 1 /\ line[3] = logFile[n - 1].entry
  <2>1. i > 2 /\ i - 1 = n /\ i - 2 = n - 1 /\ n \in 1..n /\ n - 1 \in 1..n
    BY <1>1, <1>4
  <2>2. logFile'[n] = logFile[n] /\ logFile'[n - 1] = logFile[n - 1]
    BY <1>1, <2>1
  <2> QED
    BY <1>1, <1>2, <1>4, <2>1, <2>2 DEF L!Continues
<1> QED
  BY <1>3, <1>4 DEF LogReady, n

LEMMA LogStep == LogInv /\ [L!Next]_logVars => LogInv'
<1> SUFFICES ASSUME LogInv, [L!Next]_logVars PROVE LogInv'
  OBVIOUS
<1>0. LogType /\ LogContinues /\ L!ChainIsLinked
  BY DEF LogInv
<1>1. CASE UNCHANGED logVars
  BY <1>1 DEF LogInv, logVars, LogType, LogContinues, LogReady, L!ChainIsLinked, L!Begins, L!Continues,
              L!GenesisHash, L!NoLine
<1>2. CASE L!Log
  <2>1. PICK t \in LogText : line' = <<logSeq + 1, t, prevHash>>
    BY <1>2 DEF L!Log
  <2>2. /\ ~poisoned /\ line = L!NoLine /\ logSeq' = logSeq + 1
        /\ UNCHANGED <<logFile, prevHash, poisoned, inFile, starts>>
    BY <1>2 DEF L!Log, L!NoLine
  <2>3. line'[1] = logSeq + 1 /\ line'[3] = prevHash /\ line' # L!NoLine
    BY <2>1 DEF L!NoLine
  <2>4. ~inFile /\ LogReady(logSeq + 1, prevHash)
    BY <1>0, <2>2 DEF LogContinues
  <2>5. LogType' /\ L!ChainIsLinked'
    <3>1. LogType'
      BY <1>0, <2>2 DEF LogType
    <3>2. L!ChainIsLinked'
      BY <1>0, <2>2 DEF L!ChainIsLinked, L!Begins, L!Continues, L!GenesisHash
    <3> QED
      BY <3>1, <3>2
  <2>6. LogReady(line[1], line[3])'
    BY <2>2, <2>3, <2>4 DEF LogReady, L!GenesisHash
  <2>7. LogContinues'
    BY <2>2, <2>3, <2>4, <2>6 DEF LogContinues, L!NoLine
  <2> QED
    BY <2>5, <2>7 DEF LogInv
<1>3. CASE L!WriteText
  <2>1. /\ line # L!NoLine /\ ~inFile /\ inFile' = TRUE
        /\ logFile' = Append(logFile, [kind |-> "text", entry |-> line, by |-> starts])
        /\ UNCHANGED <<logSeq, prevHash, poisoned, line, starts>>
    BY <1>3 DEF L!WriteText, L!Put, L!NoLine
  <2>2. LogReady(line[1], line[3]) /\ line[1] = logSeq
    BY <1>0, <2>1 DEF LogContinues
  <2>3. L!ChainIsLinked'
    BY <1>0, <2>1, <2>2, TextFits
  <2>4. /\ Len(logFile') = Len(logFile) + 1 /\ Len(logFile) \in Nat
        /\ logFile'[Len(logFile) + 1] = [kind |-> "text", entry |-> line, by |-> starts]
        /\ \E X : logFile' \in Seq(X)
        /\ \A i \in DOMAIN logFile' : logFile'[i].by \in Nat /\ logFile'[i].by <= starts'
    BY <1>0, <2>1, PieceAdded
  <2>5. LogType'
    BY <1>0, <2>1, <2>4 DEF LogType
  <2>6. LogContinues'
    BY <2>1, <2>2, <2>4 DEF LogContinues, L!NoLine
  <2> QED
    BY <2>3, <2>5, <2>6 DEF LogInv
<1>4. CASE L!WriteNewline
  <2> DEFINE n == Len(logFile)
  <2>1. /\ line # L!NoLine /\ inFile /\ inFile' = FALSE /\ line' = L!NoLine /\ prevHash' = line
        /\ logFile' = Append(logFile, [kind |-> "newline", entry |-> line, by |-> starts])
        /\ UNCHANGED <<logSeq, poisoned, starts>>
    BY <1>4 DEF L!WriteNewline, L!NextHash, L!Put, L!NoLine
  <2>2. n >= 1 /\ logFile[n] = [kind |-> "text", entry |-> line, by |-> starts] /\ line[1] = logSeq
    BY <1>0, <2>1 DEF LogContinues
  <2>3. /\ Len(logFile') = n + 1 /\ n \in Nat /\ DOMAIN logFile = 1..n /\ DOMAIN logFile' = 1..(n + 1)
        /\ logFile'[n + 1] = [kind |-> "newline", entry |-> line, by |-> starts]
        /\ \E X : logFile' \in Seq(X)
        /\ \A i \in 1..n : logFile'[i] = logFile[i]
        /\ \A i \in DOMAIN logFile' : logFile'[i].by \in Nat /\ logFile'[i].by <= starts'
        /\ \A i \in 1..n : IF logFile'[i].kind = "newline"
                           THEN i > 1 /\ logFile'[i - 1] = [kind |-> "text", entry |-> logFile'[i].entry,
                                                            by |-> logFile'[i].by]
                           ELSE L!Begins(i)' \/ L!Continues(i)'
    BY <1>0, <2>1, PieceAdded
  <2> HIDE DEF n
  <2>4. /\ logFile'[n] = [kind |-> "text", entry |-> line, by |-> starts]
        /\ (n + 1) - 1 = n /\ n + 1 > 1 /\ n + 1 >= 2
    BY <2>2, <2>3
  <2>5. LogType'
    BY <1>0, <2>1, <2>3 DEF LogType
  <2>6. L!ChainIsLinked'
    <3> SUFFICES ASSUME NEW i \in 1..(n + 1)
                 PROVE  IF logFile'[i].kind = "newline"
                        THEN i > 1 /\ logFile'[i - 1] = [kind |-> "text", entry |-> logFile'[i].entry,
                                                         by |-> logFile'[i].by]
                        ELSE L!Begins(i)' \/ L!Continues(i)'
      BY <2>3 DEF L!ChainIsLinked
    <3>1. CASE i = n + 1
      BY <2>3, <2>4, <3>1
    <3>2. CASE i \in 1..n
      BY <2>3, <3>2
    <3> QED
      BY <2>3, <3>1, <3>2
  <2>7. LogReady(logSeq + 1, prevHash)'
    BY <2>1, <2>2, <2>3, <2>4 DEF LogReady
  <2>8. LogContinues'
    BY <2>1, <2>7 DEF LogContinues, L!NoLine
  <2> QED
    BY <2>5, <2>6, <2>8 DEF LogInv
<1>5. CASE L!WriteFails
  <2>1. /\ line # L!NoLine /\ inFile' = FALSE /\ line' = L!NoLine /\ poisoned' = TRUE
        /\ UNCHANGED <<logSeq, prevHash, starts>>
        /\ \/ logFile' = logFile
           \/ ~inFile /\ logFile' = Append(logFile, [kind |-> "torn", entry |-> line, by |-> starts])
    BY <1>5 DEF L!WriteFails, L!Put, L!NoLine
  <2>2. LogContinues'
    BY <2>1 DEF LogContinues, L!NoLine
  <2>3. CASE logFile' = logFile
    <3>1. LogType' /\ L!ChainIsLinked'
      BY <1>0, <2>1, <2>3 DEF LogType, L!ChainIsLinked, L!Begins, L!Continues, L!GenesisHash
    <3> QED
      BY <2>2, <3>1 DEF LogInv
  <2>4. CASE ~inFile /\ logFile' = Append(logFile, [kind |-> "torn", entry |-> line, by |-> starts])
    <3>1. LogReady(line[1], line[3])
      BY <1>0, <2>1, <2>4 DEF LogContinues
    <3>2. L!ChainIsLinked'
      BY <1>0, <2>1, <2>4, <3>1, TextFits
    <3>3. /\ \E X : logFile' \in Seq(X)
          /\ \A i \in DOMAIN logFile' : logFile'[i].by \in Nat /\ logFile'[i].by <= starts'
      BY <1>0, <2>1, <2>4, PieceAdded
    <3>4. LogType'
      BY <1>0, <2>1, <3>3 DEF LogType
    <3> QED
      BY <2>2, <3>2, <3>4 DEF LogInv
  <2> QED
    BY <2>1, <2>3, <2>4
<1>6. CASE L!Restart
  <2>1. /\ UNCHANGED logFile /\ logSeq' = 0 /\ prevHash' = L!GenesisHash /\ poisoned' = FALSE
        /\ line' = L!NoLine /\ inFile' = FALSE /\ starts' = starts + 1
    BY <1>6 DEF L!Restart, L!GenesisHash, L!NoLine
  <2>2. LogType' /\ \A i \in DOMAIN logFile' : logFile'[i].by < starts'
    <3>1. \E X : logFile' \in Seq(X)
      BY <1>0, <2>1 DEF LogType
    <3>2. \A i \in DOMAIN logFile' : logFile'[i].by \in Nat /\ logFile'[i].by < starts' /\ logFile'[i].by <= starts'
      BY <1>0, <2>1 DEF LogType
    <3>3. starts' \in Nat
      BY <1>0, <2>1 DEF LogType
    <3>4. logSeq' \in Nat /\ poisoned' \in BOOLEAN /\ inFile' \in BOOLEAN
      BY <2>1
    <3> QED
      BY <3>1, <3>2, <3>3, <3>4 DEF LogType
  <2>3. LogReady(logSeq + 1, prevHash)'
    BY <2>1, <2>2 DEF LogReady, L!GenesisHash
  <2>4. LogContinues'
    BY <2>1, <2>3 DEF LogContinues, L!NoLine
  <2>5. L!ChainIsLinked'
    BY <1>0, <2>1 DEF L!ChainIsLinked, L!Begins, L!Continues, L!GenesisHash
  <2> QED
    BY <2>2, <2>4, <2>5 DEF LogInv
<1> QED
  BY <1>1, <1>2, <1>3, <1>4, <1>5, <1>6 DEF L!Next

\* AuditLog.ChainIsLinked: through failed, torn and half finished writes and any
\* number of restarts, every text of the file continues the complete line before
\* it or is the first of its process (log, new of iso_logger.rs).
THEOREM ChainProvedLinked == LogSpec => []ChainIsLinked
<1>1. L!Init => LogInv
  <2> SUFFICES ASSUME L!Init PROVE LogInv
    OBVIOUS
  <2>1. /\ logFile \in Seq({}) /\ DOMAIN logFile = {}
        /\ logSeq = 0 /\ prevHash = L!GenesisHash /\ poisoned = FALSE
        /\ line = L!NoLine /\ inFile = FALSE /\ starts = 1
    BY DEF L!Init, L!GenesisHash, L!NoLine
  <2>2. LogReady(logSeq + 1, prevHash)
    BY <2>1 DEF LogReady
  <2>3. \E X : logFile \in Seq(X)
    BY <2>1
  <2>4. LogType
    BY <2>1, <2>3 DEF LogType
  <2> QED
    BY <2>1, <2>2, <2>4 DEF LogInv, LogContinues, L!ChainIsLinked
<1>2. LogInv => ChainIsLinked
  BY DEF LogInv, ChainIsLinked
<1> QED
  BY <1>1, <1>2, LogStep, PTL DEF LogSpec

-----------------------------------------------------------------------------
(* The payment bridge *)

\* Message ids are bytes32 and amounts uint256.
BridgeSetting == IsFiniteSet(MessageId) /\ Amount \subseteq Nat

Payment == [amount : Nat, status : B!PaymentStatus]

\* What executePayment or rejectPayment of m would still pay out
Open(p) == IF p.amount > 0 /\ p.status = "Pending" THEN p.amount ELSE 0
OpenSum(ps) == SumFunction([m \in MessageId |-> Open(ps[m])])

BridgeInv ==
    /\ payments \in [MessageId -> Payment]
    /\ escrow \in Nat
    /\ reopened \in BOOLEAN
    /\ ~reopened => OpenSum(payments) <= escrow

\* The instance of PaymentBridge has a copy of SumFunction.
LEMMA BridgeSums == \A f : B!SumFunction(f) = SumFunction(f)
BY DEF B!SumFunction, B!SumFunctionOnSet, B!FoldFunctionOnSet, B!MapThenFoldSet,
       SumFunction, SumFunctionOnSet, FoldFunctionOnSet, MapThenFoldSet

\* One payment is replaced.
LEMMA OpenChanges ==
    ASSUME BridgeSetting, NEW ps \in [MessageId -> Payment], NEW m \in MessageId, NEW p \in Payment,
           NEW qs, qs = [ps EXCEPT ![m] = p]
    PROVE  /\ qs \in [MessageId -> Payment]
           /\ Open(p) \in Nat /\ Open(ps[m]) \in Nat /\ OpenSum(ps) \in Nat
           /\ Open(ps[m]) <= OpenSum(ps)
           /\ OpenSum(qs) = OpenSum(ps) + Open(p) - Open(ps[m])
<1> DEFINE f == [k \in MessageId |-> Open(ps[k])]
           h == [k \in MessageId |-> Open(qs[k])]
<1>1. \A q \in Payment : Open(q) \in Nat
  BY DEF Payment, Open
<1>2. /\ qs \in [MessageId -> Payment] /\ qs[m] = p
      /\ \A k \in MessageId \ {m} : qs[k] = ps[k]
  OBVIOUS
<1>3. /\ f \in [MessageId -> Nat] /\ f \in [MessageId -> Int] /\ h \in [MessageId -> Int]
      /\ \A k \in MessageId \ {m} : h[k] = f[k]
      /\ f[m] = Open(ps[m]) /\ h[m] = Open(p)
  <2> HIDE DEF Open, Payment
  <2> QED
    BY <1>1, <1>2
<1>4. OpenSum(ps) = SumFunction(f) /\ OpenSum(qs) = SumFunction(h)
  BY DEF OpenSum
<1> HIDE DEF f, h
<1>5. IsFiniteSet(MessageId)
  BY DEF BridgeSetting
<1>6. SumFunction(f) \in Nat /\ f[m] <= SumFunction(f)
  BY <1>3, <1>5, SumIsNat
<1>7. SumFunction(h) = SumFunction(f) + h[m] - f[m]
  <2> HIDE DEF Open, Payment
  <2> QED
    BY ONLY <1>3, <1>5, SumChanges
<1> QED
  BY <1>1, <1>2, <1>3, <1>4, <1>6, <1>7

LEMMA OpenSumIsNat ==
    ASSUME BridgeSetting, payments \in [MessageId -> Payment] PROVE OpenSum(payments) \in Nat
<1> DEFINE f == [m \in MessageId |-> Open(payments[m])]
<1>1. DOMAIN f = MessageId /\ f \in [MessageId -> Nat] /\ IsFiniteSet(MessageId)
  BY DEF Open, Payment, BridgeSetting
<1> HIDE DEF f
<1>2. SumFunction(f) \in Nat
  BY <1>1, SumIsNat
<1> QED
  BY <1>2 DEF OpenSum, f

LEMMA BridgeStep ==
    ASSUME BridgeSetting, BridgeInv, [B!Next]_bridgeVars
    PROVE  BridgeInv'
<1>0. /\ payments \in [MessageId -> Payment] /\ escrow \in Nat /\ reopened \in BOOLEAN
      /\ ~reopened => OpenSum(payments) <= escrow
  BY DEF BridgeInv
<1>1. CASE UNCHANGED <<payments, escrow, reopened>>
  <2>1. OpenSum(payments') = OpenSum(payments)
    BY <1>1
  <2> QED
    BY <1>0, <1>1, <2>1 DEF BridgeInv
<1>2. CASE B!SubmitCreditTransfer
  <2>1. PICK m \in MessageId, x \in Amount, value \in Amount :
           /\ value >= x
           /\ payments' = [payments EXCEPT ![m] = [amount |-> x, status |-> "Pending"]]
           /\ escrow' = escrow + value
           /\ UNCHANGED reopened
    BY <1>2 DEF B!SubmitCreditTransfer
  <2> DEFINE p == [amount |-> x, status |-> "Pending"]
  <2>2. x \in Nat /\ value \in Nat /\ p \in Payment /\ Open(p) = x
    BY DEF BridgeSetting, Payment, B!PaymentStatus, Open
  <2> HIDE DEF p, Open, Payment
  <2>3. payments' = [payments EXCEPT ![m] = p]
    BY <2>1 DEF p
  <2>4. /\ payments' \in [MessageId -> Payment]
        /\ Open(payments[m]) \in Nat /\ OpenSum(payments) \in Nat
        /\ OpenSum(payments') = OpenSum(payments) + Open(p) - Open(payments[m])
    BY <1>0, <2>2, <2>3, OpenChanges
  <2> QED
    BY <1>0, <2>1, <2>2, <2>4 DEF BridgeInv
<1>3. ASSUME NEW m \in MessageId, NEW outcome \in {"Completed", "Rejected"}, B!Settle(m, outcome)
      PROVE  BridgeInv'
  <2> DEFINE p == [amount |-> payments[m].amount, status |-> outcome]
  <2>1. /\ payments[m].amount > 0 /\ payments[m].status = "Pending" /\ payments[m].amount <= escrow
        /\ escrow' = escrow - payments[m].amount /\ UNCHANGED reopened
    BY <1>3 DEF B!Settle, B!IsPending
  <2>2. payments[m] \in Payment /\ payments' = [payments EXCEPT ![m] = p]
    BY <1>0, <1>3 DEF B!Settle, Payment
  <2>3. /\ payments[m].amount \in Nat /\ Open(payments[m]) = payments[m].amount
        /\ p \in Payment /\ Open(p) = 0
    BY <2>1, <2>2 DEF Payment, Open, B!PaymentStatus
  <2> HIDE DEF p, Open, Payment
  <2>4. /\ payments' \in [MessageId -> Payment] /\ OpenSum(payments) \in Nat
        /\ OpenSum(payments') = OpenSum(payments) + Open(p) - Open(payments[m])
    BY <1>0, <2>2, <2>3, OpenChanges
  <2> QED
    BY <1>0, <2>1, <2>3, <2>4 DEF BridgeInv
<1>4. CASE B!SubmitStatusReport
  <2>1. PICK m \in MessageId, s \in B!PaymentStatus :
           /\ payments' = [payments EXCEPT ![m] = [amount |-> payments[m].amount, status |-> s]]
           /\ reopened' = (reopened \/ (s = "Pending" /\ ~B!IsPending(m)))
           /\ UNCHANGED escrow
    BY <1>4 DEF B!SubmitStatusReport
  <2> DEFINE p == [amount |-> payments[m].amount, status |-> s]
  <2>2. payments[m] \in Payment /\ payments' = [payments EXCEPT ![m] = p]
    BY <1>0, <2>1 DEF Payment
  <2>3. p \in Payment
    BY <2>2 DEF Payment
  <2>4. ~reopened' => Open(p) <= Open(payments[m])
    <3>1. p.amount = payments[m].amount /\ p.status = s /\ payments[m].amount \in Nat
      BY <2>2 DEF Payment
    <3>2. CASE s = "Pending"
      <4>1. ~reopened' => payments[m].amount > 0 /\ payments[m].status = "Pending"
        BY <2>1, <3>2 DEF B!IsPending
      <4> QED
        BY <3>1, <4>1 DEF Open
    <3>3. CASE s # "Pending"
      BY <3>1, <3>3 DEF Open
    <3> QED
      BY <3>2, <3>3
  <2> HIDE DEF p, Open, Payment
  <2>5. /\ payments' \in [MessageId -> Payment] /\ OpenSum(payments) \in Nat
        /\ Open(p) \in Nat /\ Open(payments[m]) \in Nat
        /\ OpenSum(payments') = OpenSum(payments) + Open(p) - Open(payments[m])
    BY <1>0, <2>2, <2>3, OpenChanges
  <2>6. reopened' \in BOOLEAN /\ (~reopened' => ~reopened)
    BY <1>0, <2>1
  <2> QED
    BY <1>0, <2>1, <2>4, <2>5, <2>6 DEF BridgeInv
<1> QED
  <2>1. CASE UNCHANGED bridgeVars
    BY <1>1, <2>1 DEF bridgeVars
  <2>2. CASE B!ExecutePayment \/ B!RejectPayment
    BY <1>3, <2>2 DEF B!ExecutePayment, B!RejectPayment
  <2>3. CASE B!AuthorizeParticipant \/ B!RevokeParticipant \/ B!SetComplianceOracle
    BY <1>1, <2>3 DEF B!AuthorizeParticipant, B!RevokeParticipant, B!SetComplianceOracle
  <2>4. CASE B!Receive
    <3>1. PICK value \in Amount : escrow' = escrow + value
      BY <2>4 DEF B!Receive
    <3>2. value \in Nat /\ UNCHANGED <<payments, reopened>>
      BY <2>4 DEF B!Receive, BridgeSetting
    <3>3. OpenSum(payments') = OpenSum(payments)
      BY <3>2
    <3>4. OpenSum(payments) \in Nat
      BY <1>0, OpenSumIsNat
    <3> QED
      BY <1>0, <3>1, <3>2, <3>3, <3>4 DEF BridgeInv
  <2> QED
    BY <1>2, <1>4, <2>1, <2>2, <2>3, <2>4 DEF B!Next

\* PaymentBridge.PendingIsFunded: the contract holds what every pending payment
\* would pay out, through replaced and settled ones, unless a status report made
\* one pending again (Iso20022Bridge.sol).
THEOREM PendingProvedFunded ==
    ASSUME BridgeSetting
    PROVE  BridgeSpec => []PendingIsFunded
<1>1. B!Init => BridgeInv
  <2> SUFFICES ASSUME B!Init PROVE BridgeInv
    OBVIOUS
  <2> DEFINE f == [m \in MessageId |-> Open(payments[m])]
  <2>1. payments \in [MessageId -> Payment] /\ escrow = 0 /\ reopened = FALSE
    BY DEF B!Init, Payment, B!PaymentStatus
  <2>2. DOMAIN f = MessageId /\ \A m \in MessageId : f[m] = 0
    BY DEF B!Init, Open
  <2>3. OpenSum(payments) = SumFunction(f)
    BY DEF OpenSum
  <2> HIDE DEF f
  <2>4. SumFunction(f) = 0
    BY <2>2, SumOfZeros DEF BridgeSetting
  <2>5. escrow \in Nat /\ reopened \in BOOLEAN /\ OpenSum(payments) <= escrow
    <3>1. OpenSum(payments) = 0
      BY ONLY <2>3, <2>4
    <3>2. escrow = 0
      BY ONLY <2>1
    <3>3. escrow \in Nat /\ OpenSum(payments) <= escrow
      BY ONLY <3>1, <3>2
    <3>4. reopened \in BOOLEAN
      BY ONLY <2>1
    <3> QED
      BY ONLY <3>3, <3>4
  <2> QED
    BY ONLY <2>1, <2>5 DEF BridgeInv
<1>2. BridgeInv /\ [B!Next]_bridgeVars => BridgeInv'
  BY BridgeStep
<1>3. BridgeInv => PendingIsFunded
  <2> DEFINE f == [m \in MessageId |-> IF B!IsPending(m) THEN payments[m].amount ELSE 0]
             h == [m \in MessageId |-> Open(payments[m])]
  <2>1. f = h
    BY DEF Open, B!IsPending
  <2>2. OpenSum(payments) = SumFunction(h)
    BY DEF OpenSum
  <2>3. PendingIsFunded = (~reopened => SumFunction(f) <= escrow)
    BY BridgeSums DEF PendingIsFunded, B!PendingIsFunded
  <2> HIDE DEF f, h
  <2> QED
    BY <2>1, <2>2, <2>3 DEF BridgeInv
<1> QED
  BY <1>1, <1>2, <1>3, PTL DEF BridgeSpec

-----------------------------------------------------------------------------
(* Shielded transactions *)

\* 31 bytes fit in a field element, and two u64 values add up without wrapping.
ZkSetting ==
    /\ Field \in Nat /\ Cut \in Nat \ {0} /\ Cut <= Field
    /\ ZkRange \in Nat /\ 2 * ZkRange <= Field
    /\ \A r \in ZkRequest : r.kind = "private" =>
          r.out \in Nat /\ r.fee \in Nat /\ r.nullifier \in Nat

\* Where a client can be between two steps
Seat == {"idle", "verified", "marked", "done"} \X Z!Nullifier

StepOf(c) == zkPc[c][1]
Holds(c, n) == zkPc[c][1] # "idle" /\ zkPc[c][2] = n

ZkTypeOK ==
    /\ zkPending \in Seq(ZkRequest)
    /\ \A p \in zkProofs : \E r \in ZkRequest : p = Z!Prove(r)
    /\ zkPc \in [Client -> Seat]
    /\ applied \in [Z!Nullifier -> Nat]

\* A nullifier everybody marks first: who marked it is the only one to.
MarkedFirst(n) ==
    /\ \A c \in Client : Holds(c, n) => StepOf(c) # "done"
    /\ \A c \in Client : Holds(c, n) /\ StepOf(c) = "marked" => n \in spent /\ applied[n] = 0
    /\ \A c, d \in Client :
          Holds(c, n) /\ Holds(d, n) /\ StepOf(c) = "marked" /\ StepOf(d) = "marked" => c = d
    /\ applied[n] <= 1 /\ (applied[n] = 1 => n \in spent)

\* A nullifier that is in one hand at a time
HeldByOne(n) ==
    /\ \A c, d \in Client : Holds(c, n) /\ Holds(d, n) => c = d
    /\ \A c \in Client : Holds(c, n) =>
          /\ applied[n] = (IF StepOf(c) = "done" THEN 1 ELSE 0)
          /\ StepOf(c) = "marked" => n \in spent
    /\ (\A c \in Client : ~Holds(c, n)) => applied[n] <= 1 /\ (applied[n] = 1 => n \in spent)

NullifierSafe(n) ==
    /\ n \notin late => MarkedFirst(n)
    /\ n \notin overlapped => HeldByOne(n)

ZkInv == ZkTypeOK /\ \A n \in Z!Nullifier : NullifierSafe(n)

\* A proof that passes for a private transaction names a nullifier and conserves
\* the value it hides, in the field and, within the range, as integers.
LEMMA ValidIsPrivate ==
    ASSUME ZkSetting, NEW r \in ZkRequest, NEW p, p = Z!Prove(r), Z!Groth16Verify(p, "private")
    PROVE  /\ p.public[3] \in Z!Nullifier
           /\ p.witness.in = Z!Plus(p.witness.out, p.witness.fee)
           /\ p.witness.out < ZkRange /\ p.witness.fee < ZkRange
                 => p.witness.in = p.witness.out + p.witness.fee
<1>1. p.kind = r.kind /\ p.public = Z!PublicInputs(r) /\ p.witness = r
  BY DEF Z!Prove
<1>2. r.kind = "private" /\ p.sound
  BY <1>1 DEF Z!Groth16Verify
<1>3. Z!PrivateCircuit(r)
  BY <1>2 DEF Z!Prove
<1>4. r.in = Z!Plus(r.out, r.fee) /\ r.in = (r.out + r.fee) % Field
  BY <1>3 DEF Z!PrivateCircuit, Z!Plus
<1>5. ASSUME r.out < ZkRange, r.fee < ZkRange PROVE r.in = r.out + r.fee
  <2>1. r.out + r.fee \in 0 .. Field - 1 /\ Field \in Nat
    BY <1>2, <1>5 DEF ZkSetting
  <2> QED
    BY <1>4, <2>1
<1>7. p.public[3] = r.nullifier % Cut
  BY <1>1, <1>2 DEF Z!PublicInputs, Z!BytesToFr
<1>8. r.nullifier % Cut \in 0 .. Cut - 1
  BY <1>2 DEF ZkSetting
<1> QED
  BY <1>1, <1>4, <1>5, <1>7, <1>8 DEF ZkSetting, Z!Nullifier

LEMMA Verifies ==
    ASSUME NEW p, Z!VerifyAs(p, "private") = "valid"
    PROVE  /\ Z!Groth16Verify(p, "private")
           /\ Len(p.public) >= 3 => p.public[3] \notin spent
BY DEF Z!VerifyAs

\* The public inputs of a proof that passes are four.
LEMMA PublicAreFour ==
    ASSUME NEW r \in ZkRequest, NEW p, p = Z!Prove(r), Z!Groth16Verify(p, "private")
    PROVE  Len(p.public) >= 3
<1>1. p.public = Z!PublicInputs(r) /\ r.kind = "private"
  BY DEF Z!Prove, Z!Groth16Verify
<1>2. p.public = <<Z!BytesToFr(r.inCommit), Z!BytesToFr(r.outCommit), Z!BytesToFr(r.nullifier), r.fee>>
  BY <1>1 DEF Z!PublicInputs
<1> QED
  BY <1>2

\* What a step of c leaves of the other clients
Others(c) == \A d \in Client \ {c} : zkPc'[d] = zkPc[d]

LEMMA SeatChanges ==
    ASSUME zkPc \in [Client -> Seat], NEW c \in Client, NEW st \in {"idle", "verified", "marked", "done"},
           NEW n \in Z!Nullifier, zkPc' = [zkPc EXCEPT ![c] = <<st, n>>]
    PROVE  /\ zkPc' \in [Client -> Seat] /\ Others(c)
           /\ zkPc'[c][1] = st /\ zkPc'[c][2] = n
<1>1. <<st, n>> \in Seat /\ <<st, n>>[1] = st /\ <<st, n>>[2] = n
  BY DEF Seat
<1> HIDE DEF Seat
<1> QED
  BY <1>1 DEF Others

\* A nullifier that a step of c does not concern
LEMMA NotConcerned ==
    ASSUME NEW c \in Client, NEW k, NullifierSafe(k), Others(c), ~Holds(c, k), ~Holds(c, k)',
           k \in spent <=> k \in spent', applied'[k] = applied[k],
           k \in late <=> k \in late', k \in overlapped <=> k \in overlapped'
    PROVE  NullifierSafe(k)'
<1>1. \A d \in Client : Holds(d, k)' <=> Holds(d, k)
  BY DEF Others, Holds
<1>2. \A d \in Client : Holds(d, k)' => StepOf(d)' = StepOf(d)
  BY DEF Others, Holds, StepOf
<1>3. MarkedFirst(k) => MarkedFirst(k)'
  BY <1>1, <1>2 DEF MarkedFirst
<1>4. HeldByOne(k) => HeldByOne(k)'
  BY <1>1, <1>2 DEF HeldByOne
<1> QED
  BY <1>3, <1>4 DEF NullifierSafe

\* A client with a nullifier in its hands goes one step on.
LEMMA HolderGoes ==
    ASSUME ZkSetting, zkPc \in [Client -> Seat], NEW c \in Client, zkPc[c][1] # "idle",
           NEW st \in {"idle", "verified", "marked", "done"}, Z!Goes(c, st)
    PROVE  /\ zkPc[c][2] \in Z!Nullifier /\ Holds(c, zkPc[c][2])
           /\ zkPc' \in [Client -> Seat] /\ Others(c) /\ StepOf(c)' = st
           /\ \A k : Holds(c, k)' <=> st # "idle" /\ k = zkPc[c][2]
<1>1. zkPc[c][2] \in Z!Nullifier
  BY DEF Seat
<1>2. 0 \in Z!Nullifier
  BY DEF ZkSetting, Z!Nullifier
<1>3. PICK n \in Z!Nullifier :
         /\ zkPc' = [zkPc EXCEPT ![c] = <<st, n>>]
         /\ st # "idle" => n = zkPc[c][2]
  BY <1>1, <1>2 DEF Z!Goes
<1>4. /\ zkPc' \in [Client -> Seat] /\ Others(c)
      /\ zkPc'[c][1] = st /\ zkPc'[c][2] = n
  BY <1>3, SeatChanges
<1> QED
  BY <1>1, <1>3, <1>4 DEF Holds, StepOf

LEMMA VerifyStep ==
    ASSUME ZkSetting, ZkInv, NEW c \in Client, Z!Verify(c)
    PROVE  /\ zkPc' \in [Client -> Seat]
           /\ \A k \in Z!Nullifier : NullifierSafe(k)'
<1>1. PICK p \in zkProofs :
         /\ Z!VerifyAs(p, "private") = "valid"
         /\ zkPc' = [zkPc EXCEPT ![c] = <<"verified", p.public[3]>>]
         /\ overlapped' = overlapped \cup ({p.public[3]} \cap Z!InHand)
  BY DEF Z!Verify, Z!DefaultVerify
<1>2. PICK r \in ZkRequest : p = Z!Prove(r)
  BY DEF ZkInv, ZkTypeOK
<1> DEFINE n == p.public[3]
<1>3. n \in Z!Nullifier /\ n \notin spent
  BY <1>1, <1>2, Verifies, ValidIsPrivate, PublicAreFour
<1>4. /\ StepOf(c) = "idle" /\ UNCHANGED <<spent, applied, late>>
      /\ zkPc' = [zkPc EXCEPT ![c] = <<"verified", n>>]
      /\ overlapped' = overlapped \cup ({n} \cap Z!InHand)
  BY <1>1 DEF Z!Verify, StepOf
<1> HIDE DEF n
<1>5. zkPc \in [Client -> Seat] /\ applied \in [Z!Nullifier -> Nat]
  BY DEF ZkInv, ZkTypeOK
<1>6. /\ zkPc' \in [Client -> Seat] /\ Others(c)
      /\ zkPc'[c][1] = "verified" /\ zkPc'[c][2] = n
  BY <1>3, <1>4, <1>5, SeatChanges
<1>7. \A k : ~Holds(c, k) /\ (Holds(c, k)' <=> k = n)
  BY <1>4, <1>6 DEF Holds, StepOf
<1>8. \A d \in Client : Holds(d, n) => n \in Z!InHand
  BY DEF Holds, Z!InHand
<1>9. NullifierSafe(n)'
  <2>1. n \notin late => MarkedFirst(n)'
    <3>1. ASSUME n \notin late PROVE MarkedFirst(n)
      BY <1>3, <3>1 DEF ZkInv, NullifierSafe
    <3>2. \A d \in Client : Holds(d, n)' /\ StepOf(d)' # "verified" => Holds(d, n) /\ StepOf(d)' = StepOf(d)
      BY <1>6 DEF Others, Holds, StepOf
    <3>3. MarkedFirst(n) => MarkedFirst(n)'
      BY <1>4, <1>6, <3>2 DEF MarkedFirst
    <3> QED
      BY <3>1, <3>3
  <2>2. n \notin overlapped' => HeldByOne(n)'
    <3> SUFFICES ASSUME n \notin overlapped' PROVE HeldByOne(n)'
      OBVIOUS
    <3>1. n \notin overlapped /\ \A d \in Client : ~Holds(d, n)
      BY <1>4, <1>8
    <3>2. applied[n] <= 1 /\ (applied[n] = 1 => n \in spent)
      BY <1>3, <3>1 DEF ZkInv, NullifierSafe, HeldByOne
    <3>3. applied[n] = 0
      BY <1>3, <1>5, <3>2
    <3>4. \A d \in Client : Holds(d, n)' => d = c
      BY <1>6, <3>1 DEF Holds, Others
    <3>5. Holds(c, n)' /\ StepOf(c)' = "verified"
      BY <1>6, <1>7 DEF StepOf
    <3> QED
      BY <1>4, <3>3, <3>4, <3>5 DEF HeldByOne
  <2> QED
    BY <1>4, <2>1, <2>2 DEF NullifierSafe
<1>10. ASSUME NEW k \in Z!Nullifier \ {n} PROVE NullifierSafe(k)'
  BY <1>4, <1>6, <1>7, NotConcerned DEF ZkInv
<1> QED
  BY <1>6, <1>9, <1>10

\* A step of c that concerns its own nullifier only
LEMMA OwnOnly ==
    ASSUME ZkSetting, ZkInv, NEW c \in Client, zkPc[c][1] # "idle",
           NEW st \in {"idle", "marked", "done"}, Z!Goes(c, st), UNCHANGED overlapped,
           NEW n, n = zkPc[c][2], NullifierSafe(n)',
           \A k \in Z!Nullifier \ {n} : /\ k \in spent <=> k \in spent'
                                        /\ k \in late <=> k \in late'
                                        /\ applied'[k] = applied[k]
    PROVE  zkPc' \in [Client -> Seat] /\ \A k \in Z!Nullifier : NullifierSafe(k)'
<1> HIDE DEF Seat
<1>1. zkPc \in [Client -> Seat]
  BY DEF ZkInv, ZkTypeOK
<1>2. /\ zkPc' \in [Client -> Seat] /\ Others(c)
      /\ \A k : Holds(c, k)' => k = n
  BY <1>1, HolderGoes
<1>3. \A k : Holds(c, k) => k = n
  BY DEF Holds
<1>4. ASSUME NEW k \in Z!Nullifier \ {n} PROVE NullifierSafe(k)'
  BY <1>2, <1>3, NotConcerned DEF ZkInv
<1> QED
  BY <1>2, <1>4

LEMMA ApplySafe ==
    ASSUME ZkSetting, ZkInv, NEW c \in Client, Z!Apply(c)
    PROVE  /\ zkPc' \in [Client -> Seat] /\ applied' \in [Z!Nullifier -> Nat]
           /\ \A k \in Z!Nullifier : NullifierSafe(k)'
<1> HIDE DEF Seat
<1>0. PICK n : n = zkPc[c][2]
  OBVIOUS
<1>1. zkPc \in [Client -> Seat] /\ applied \in [Z!Nullifier -> Nat]
  BY DEF ZkInv, ZkTypeOK
<1>2. /\ StepOf(c) = "marked" /\ Z!Goes(c, "idle") /\ UNCHANGED overlapped
      /\ applied' = [applied EXCEPT ![n] = @ + 1] /\ UNCHANGED <<spent, late>>
  BY <1>0 DEF Z!Apply, Z!At, StepOf
<1>3. /\ n \in Z!Nullifier /\ Holds(c, n)
      /\ zkPc' \in [Client -> Seat] /\ Others(c) /\ StepOf(c)' = "idle"
      /\ \A k : Holds(c, k)' <=> FALSE
  BY <1>0, <1>1, <1>2, HolderGoes DEF StepOf
<1>4. NullifierSafe(n)
  BY <1>3 DEF ZkInv
<1>5. \A d \in Client \ {c} : (Holds(d, n)' <=> Holds(d, n)) /\ StepOf(d)' = StepOf(d)
  BY <1>3 DEF Others, Holds, StepOf
<1>6. /\ applied' \in [Z!Nullifier -> Nat] /\ applied'[n] = applied[n] + 1
      /\ \A k \in Z!Nullifier \ {n} : applied'[k] = applied[k]
  BY <1>1, <1>2, <1>3
<1>7. /\ n \notin late' => MarkedFirst(n)'
      /\ n \notin overlapped' => HeldByOne(n)'
  <2>1. ASSUME n \notin late' PROVE MarkedFirst(n)'
    <3>1. MarkedFirst(n)
      BY <1>2, <1>4, <2>1 DEF NullifierSafe
    <3>2. applied[n] \in Nat
      BY <1>1, <1>3
    <3> QED
      BY <1>2, <1>3, <1>5, <1>6, <3>1, <3>2 DEF MarkedFirst
  <2>2. ASSUME n \notin overlapped' PROVE HeldByOne(n)'
    <3>1. HeldByOne(n)
      BY <1>2, <1>4, <2>2 DEF NullifierSafe
    <3>2. applied[n] \in Nat
      BY <1>1, <1>3
    <3> QED
      <4>1. \A d \in Client : ~Holds(d, n)'
        BY <1>3, <1>5, <3>1 DEF HeldByOne
      <4>2. applied'[n] = 1 /\ n \in spent'
        BY <1>2, <1>3, <1>4, <1>6, <3>1, <3>2, <2>2 DEF HeldByOne
      <4> QED
        BY <4>1, <4>2 DEF HeldByOne
  <2> QED
    BY <2>1, <2>2
<1>8. NullifierSafe(n)'
  BY <1>7 DEF NullifierSafe
<1> QED
  BY <1>0, <1>1, <1>2, <1>3, <1>6, <1>8, OwnOnly DEF StepOf

LEMMA RollbackSafe ==
    ASSUME ZkSetting, ZkInv, NEW c \in Client, Z!Rollback(c)
    PROVE  /\ zkPc' \in [Client -> Seat] /\ applied' \in [Z!Nullifier -> Nat]
           /\ \A k \in Z!Nullifier : NullifierSafe(k)'
<1> HIDE DEF Seat
<1>0. PICK n : n = zkPc[c][2]
  OBVIOUS
<1>1. zkPc \in [Client -> Seat] /\ applied \in [Z!Nullifier -> Nat]
  BY DEF ZkInv, ZkTypeOK
<1>2. /\ StepOf(c) = "marked" /\ Z!Goes(c, "idle") /\ UNCHANGED overlapped
      /\ spent' = spent \ {n} /\ UNCHANGED <<applied, late>>
  BY <1>0 DEF Z!Rollback, Z!At, StepOf
<1>3. /\ n \in Z!Nullifier /\ Holds(c, n)
      /\ zkPc' \in [Client -> Seat] /\ Others(c) /\ StepOf(c)' = "idle"
      /\ \A k : Holds(c, k)' <=> FALSE
  BY <1>0, <1>1, <1>2, HolderGoes DEF StepOf
<1>4. NullifierSafe(n)
  BY <1>3 DEF ZkInv
<1>5. \A d \in Client \ {c} : (Holds(d, n)' <=> Holds(d, n)) /\ StepOf(d)' = StepOf(d)
  BY <1>3 DEF Others, Holds, StepOf
<1>6. applied' = applied
  BY <1>2
<1>7. /\ n \notin late' => MarkedFirst(n)'
      /\ n \notin overlapped' => HeldByOne(n)'
  <2>1. ASSUME n \notin late' PROVE MarkedFirst(n)'
    <3>1. MarkedFirst(n)
      BY <1>2, <1>4, <2>1 DEF NullifierSafe
    <3>2. applied[n] \in Nat
      BY <1>1, <1>3
    <3> QED
      BY <1>2, <1>3, <1>5, <1>6, <3>1, <3>2 DEF MarkedFirst
  <2>2. ASSUME n \notin overlapped' PROVE HeldByOne(n)'
    <3>1. HeldByOne(n)
      BY <1>2, <1>4, <2>2 DEF NullifierSafe
    <3>2. applied[n] \in Nat
      BY <1>1, <1>3
    <3> QED
      BY <1>2, <1>3, <1>5, <1>6, <3>1, <3>2 DEF HeldByOne
  <2> QED
    BY <2>1, <2>2
<1>8. NullifierSafe(n)'
  BY <1>7 DEF NullifierSafe
<1> QED
  BY <1>0, <1>1, <1>2, <1>3, <1>6, <1>8, OwnOnly DEF StepOf

LEMMA MarkAfterSafe ==
    ASSUME ZkSetting, ZkInv, NEW c \in Client, Z!MarkAfter(c)
    PROVE  /\ zkPc' \in [Client -> Seat] /\ applied' \in [Z!Nullifier -> Nat]
           /\ \A k \in Z!Nullifier : NullifierSafe(k)'
<1> HIDE DEF Seat
<1>0. PICK n : n = zkPc[c][2]
  OBVIOUS
<1>1. zkPc \in [Client -> Seat] /\ applied \in [Z!Nullifier -> Nat]
  BY DEF ZkInv, ZkTypeOK
<1>2. /\ StepOf(c) = "done" /\ Z!Goes(c, "idle") /\ UNCHANGED overlapped
      /\ spent' = spent \cup {n} /\ UNCHANGED <<applied, late>>
  BY <1>0 DEF Z!MarkAfter, Z!At, StepOf
<1>3. /\ n \in Z!Nullifier /\ Holds(c, n)
      /\ zkPc' \in [Client -> Seat] /\ Others(c) /\ StepOf(c)' = "idle"
      /\ \A k : Holds(c, k)' <=> FALSE
  BY <1>0, <1>1, <1>2, HolderGoes DEF StepOf
<1>4. NullifierSafe(n)
  BY <1>3 DEF ZkInv
<1>5. \A d \in Client \ {c} : (Holds(d, n)' <=> Holds(d, n)) /\ StepOf(d)' = StepOf(d)
  BY <1>3 DEF Others, Holds, StepOf
<1>6. applied' = applied
  BY <1>2
<1>7. /\ n \notin late' => MarkedFirst(n)'
      /\ n \notin overlapped' => HeldByOne(n)'
  <2>1. ASSUME n \notin late' PROVE MarkedFirst(n)'
    <3>1. MarkedFirst(n)
      BY <1>2, <1>4, <2>1 DEF NullifierSafe
    <3>2. applied[n] \in Nat
      BY <1>1, <1>3
    <3> QED
      BY <1>2, <1>3, <1>5, <1>6, <3>1, <3>2 DEF MarkedFirst
  <2>2. ASSUME n \notin overlapped' PROVE HeldByOne(n)'
    <3>1. HeldByOne(n)
      BY <1>2, <1>4, <2>2 DEF NullifierSafe
    <3>2. applied[n] \in Nat
      BY <1>1, <1>3
    <3> QED
      BY <1>2, <1>3, <1>5, <1>6, <3>1, <3>2 DEF HeldByOne
  <2> QED
    BY <2>1, <2>2
<1>8. NullifierSafe(n)'
  BY <1>7 DEF NullifierSafe
<1> QED
  BY <1>0, <1>1, <1>2, <1>3, <1>6, <1>8, OwnOnly DEF StepOf

LEMMA ApplyFirstSafe ==
    ASSUME ZkSetting, ZkInv, NEW c \in Client, Z!ApplyFirst(c)
    PROVE  /\ zkPc' \in [Client -> Seat] /\ applied' \in [Z!Nullifier -> Nat]
           /\ \A k \in Z!Nullifier : NullifierSafe(k)'
<1> HIDE DEF Seat
<1>0. PICK n : n = zkPc[c][2]
  OBVIOUS
<1>1. zkPc \in [Client -> Seat] /\ applied \in [Z!Nullifier -> Nat]
  BY DEF ZkInv, ZkTypeOK
<1>2. /\ StepOf(c) = "verified" /\ Z!Goes(c, "done") /\ UNCHANGED overlapped
      /\ applied' = [applied EXCEPT ![n] = @ + 1] /\ late' = late \cup {n} /\ UNCHANGED spent
  BY <1>0 DEF Z!ApplyFirst, Z!At, StepOf
<1>3. /\ n \in Z!Nullifier /\ Holds(c, n)
      /\ zkPc' \in [Client -> Seat] /\ Others(c) /\ StepOf(c)' = "done"
      /\ \A k : Holds(c, k)' <=> k = n
  BY <1>0, <1>1, <1>2, HolderGoes DEF StepOf
<1>4. NullifierSafe(n)
  BY <1>3 DEF ZkInv
<1>5. \A d \in Client \ {c} : (Holds(d, n)' <=> Holds(d, n)) /\ StepOf(d)' = StepOf(d)
  BY <1>3 DEF Others, Holds, StepOf
<1>6. /\ applied' \in [Z!Nullifier -> Nat] /\ applied'[n] = applied[n] + 1
      /\ \A k \in Z!Nullifier \ {n} : applied'[k] = applied[k]
  BY <1>1, <1>2, <1>3
<1>7. /\ n \notin late' => MarkedFirst(n)'
      /\ n \notin overlapped' => HeldByOne(n)'
  <2>1. n \in late'
    BY <1>2
  <2>2. ASSUME n \notin overlapped' PROVE HeldByOne(n)'
    <3>1. HeldByOne(n)
      BY <1>2, <1>4, <2>2 DEF NullifierSafe
    <3>2. applied[n] \in Nat
      BY <1>1, <1>3
    <3> QED
      BY <1>2, <1>3, <1>5, <1>6, <3>1, <3>2 DEF HeldByOne
  <2> QED
    BY <2>1, <2>2
<1>8. NullifierSafe(n)'
  BY <1>7 DEF NullifierSafe
<1> QED
  BY <1>0, <1>1, <1>2, <1>3, <1>6, <1>8, OwnOnly DEF StepOf

LEMMA MarkNewSafe ==
    ASSUME ZkSetting, ZkInv, NEW c \in Client, Z!MarkSpent(c), zkPc[c][2] \notin spent
    PROVE  /\ zkPc' \in [Client -> Seat] /\ applied' \in [Z!Nullifier -> Nat]
           /\ \A k \in Z!Nullifier : NullifierSafe(k)'
<1> HIDE DEF Seat
<1>0. PICK n : n = zkPc[c][2]
  OBVIOUS
<1>1. zkPc \in [Client -> Seat] /\ applied \in [Z!Nullifier -> Nat]
  BY DEF ZkInv, ZkTypeOK
<1>2. /\ StepOf(c) = "verified" /\ Z!Goes(c, "marked") /\ UNCHANGED overlapped /\ n \notin spent
      /\ spent' = spent \cup {n} /\ UNCHANGED <<applied, late>>
  BY <1>0 DEF Z!MarkSpent, Z!At, StepOf
<1>3. /\ n \in Z!Nullifier /\ Holds(c, n)
      /\ zkPc' \in [Client -> Seat] /\ Others(c) /\ StepOf(c)' = "marked"
      /\ \A k : Holds(c, k)' <=> k = n
  BY <1>0, <1>1, <1>2, HolderGoes DEF StepOf
<1>4. NullifierSafe(n)
  BY <1>3 DEF ZkInv
<1>5. \A d \in Client \ {c} : (Holds(d, n)' <=> Holds(d, n)) /\ StepOf(d)' = StepOf(d)
  BY <1>3 DEF Others, Holds, StepOf
<1>6. applied' = applied
  BY <1>2
<1>7. /\ n \notin late' => MarkedFirst(n)'
      /\ n \notin overlapped' => HeldByOne(n)'
  <2>1. ASSUME n \notin late' PROVE MarkedFirst(n)'
    <3>1. MarkedFirst(n)
      BY <1>2, <1>4, <2>1 DEF NullifierSafe
    <3>2. applied[n] \in Nat
      BY <1>1, <1>3
    <3> QED
      BY <1>2, <1>3, <1>5, <1>6, <3>1, <3>2 DEF MarkedFirst
  <2>2. ASSUME n \notin overlapped' PROVE HeldByOne(n)'
    <3>1. HeldByOne(n)
      BY <1>2, <1>4, <2>2 DEF NullifierSafe
    <3>2. applied[n] \in Nat
      BY <1>1, <1>3
    <3> QED
      BY <1>2, <1>3, <1>5, <1>6, <3>1, <3>2 DEF HeldByOne
  <2> QED
    BY <2>1, <2>2
<1>8. NullifierSafe(n)'
  BY <1>7 DEF NullifierSafe
<1> QED
  BY <1>0, <1>1, <1>2, <1>3, <1>6, <1>8, OwnOnly DEF StepOf

LEMMA MarkOldSafe ==
    ASSUME ZkSetting, ZkInv, NEW c \in Client, Z!MarkSpent(c), zkPc[c][2] \in spent
    PROVE  /\ zkPc' \in [Client -> Seat] /\ applied' \in [Z!Nullifier -> Nat]
           /\ \A k \in Z!Nullifier : NullifierSafe(k)'
<1> HIDE DEF Seat
<1>0. PICK n : n = zkPc[c][2]
  OBVIOUS
<1>1. zkPc \in [Client -> Seat] /\ applied \in [Z!Nullifier -> Nat]
  BY DEF ZkInv, ZkTypeOK
<1>2. /\ StepOf(c) = "verified" /\ Z!Goes(c, "idle") /\ UNCHANGED overlapped /\ n \in spent
      /\ spent' = spent \cup {n} /\ UNCHANGED <<applied, late>>
  BY <1>0 DEF Z!MarkSpent, Z!At, StepOf
<1>3. /\ n \in Z!Nullifier /\ Holds(c, n)
      /\ zkPc' \in [Client -> Seat] /\ Others(c) /\ StepOf(c)' = "idle"
      /\ \A k : Holds(c, k)' <=> FALSE
  BY <1>0, <1>1, <1>2, HolderGoes DEF StepOf
<1>4. NullifierSafe(n)
  BY <1>3 DEF ZkInv
<1>5. \A d \in Client \ {c} : (Holds(d, n)' <=> Holds(d, n)) /\ StepOf(d)' = StepOf(d)
  BY <1>3 DEF Others, Holds, StepOf
<1>6. applied' = applied
  BY <1>2
<1>7. /\ n \notin late' => MarkedFirst(n)'
      /\ n \notin overlapped' => HeldByOne(n)'
  <2>1. ASSUME n \notin late' PROVE MarkedFirst(n)'
    <3>1. MarkedFirst(n)
      BY <1>2, <1>4, <2>1 DEF NullifierSafe
    <3>2. applied[n] \in Nat
      BY <1>1, <1>3
    <3> QED
      BY <1>2, <1>3, <1>5, <1>6, <3>1, <3>2 DEF MarkedFirst
  <2>2. ASSUME n \notin overlapped' PROVE HeldByOne(n)'
    <3>1. HeldByOne(n)
      BY <1>2, <1>4, <2>2 DEF NullifierSafe
    <3>2. applied[n] \in Nat
      BY <1>1, <1>3
    <3> QED
      BY <1>2, <1>3, <1>5, <1>6, <3>1, <3>2 DEF HeldByOne
  <2> QED
    BY <2>1, <2>2
<1>8. NullifierSafe(n)'
  BY <1>7 DEF NullifierSafe
<1> QED
  BY <1>0, <1>1, <1>2, <1>3, <1>6, <1>8, OwnOnly DEF StepOf

LEMMA ZkStep ==
    ASSUME ZkSetting, ZkInv, [Z!Next]_zkVars
    PROVE  ZkInv'
<1> HIDE DEF Seat
<1>0. /\ zkPending \in Seq(ZkRequest)
      /\ \A p \in zkProofs : \E r \in ZkRequest : p = Z!Prove(r)
      /\ zkPc \in [Client -> Seat]
      /\ applied \in [Z!Nullifier -> Nat]
  BY DEF ZkInv, ZkTypeOK
<1>1. ASSUME UNCHANGED <<spent, zkPc, applied, late, overlapped>>,
             zkPending' \in Seq(ZkRequest),
             \A p \in zkProofs' : \E r \in ZkRequest : p = Z!Prove(r)
      PROVE  ZkInv'
  <2>1. \A n \in Z!Nullifier : NullifierSafe(n)'
    BY <1>1 DEF ZkInv, NullifierSafe, MarkedFirst, HeldByOne, Holds, StepOf
  <2>2. ZkTypeOK'
    BY <1>0, <1>1 DEF ZkTypeOK, Z!Nullifier
  <2> QED
    BY <2>1, <2>2 DEF ZkInv, Z!Nullifier
<1>2. CASE UNCHANGED zkVars
  BY <1>0, <1>1, <1>2 DEF zkVars
<1>3. CASE Z!AddProof
  <2>1. PICK r \in ZkRequest : zkPending' = Append(zkPending, r)
    BY <1>3 DEF Z!AddProof
  <2>2. UNCHANGED <<zkProofs, spent, zkPc, applied, late, overlapped>>
    BY <1>3 DEF Z!AddProof
  <2>3. zkPending' \in Seq(ZkRequest)
    BY <1>0, <2>1
  <2> QED
    BY <1>0, <1>1, <2>2, <2>3
<1>4. CASE Z!ProveAll
  <2>1. /\ zkPending' = << >> /\ UNCHANGED <<spent, zkPc, applied, late, overlapped>>
        /\ \/ zkProofs' = zkProofs
           \/ zkProofs' = zkProofs \cup {Z!Prove(zkPending[i]) : i \in DOMAIN zkPending}
    BY <1>4 DEF Z!ProveAll
  <2>2. \A i \in DOMAIN zkPending : zkPending[i] \in ZkRequest
    BY <1>0
  <2>3. \A p \in zkProofs' : \E r \in ZkRequest : p = Z!Prove(r)
    BY <1>0, <2>1, <2>2
  <2>4. zkPending' \in Seq(ZkRequest)
    BY <2>1
  <2> QED
    BY <1>1, <2>1, <2>3, <2>4
<1>5. ASSUME NEW c \in Client,
             \/ Z!Verify(c) \/ Z!MarkSpent(c) \/ Z!Apply(c) \/ Z!Rollback(c)
             \/ Z!ApplyFirst(c) \/ Z!MarkAfter(c)
      PROVE  ZkInv'
  <2>1. UNCHANGED <<zkPending, zkProofs>> /\ (Z!Verify(c) => UNCHANGED applied)
    BY <1>5 DEF Z!Verify, Z!MarkSpent, Z!Apply, Z!Rollback, Z!ApplyFirst, Z!MarkAfter
  <2>2. /\ zkPc' \in [Client -> Seat] /\ applied' \in [Z!Nullifier -> Nat]
        /\ \A k \in Z!Nullifier : NullifierSafe(k)'
    BY <1>0, <1>5, <2>1, VerifyStep, MarkNewSafe, MarkOldSafe, ApplySafe, RollbackSafe, ApplyFirstSafe, MarkAfterSafe
  <2> QED
    BY <1>0, <2>1, <2>2 DEF ZkInv, ZkTypeOK, Z!Nullifier
<1> QED
  BY <1>2, <1>3, <1>4, <1>5 DEF Z!Next

\* Shielded.SpendsAreSound: however clients race, one transaction uses a
\* nullifier that everybody marks first, or that is in one hand at a time; and a
\* private proof that verifies conserves value in the field, and as integers
\* when what it hides is in the range the circuit does not enforce
\* (verify_private_transaction, mark_nullifier_spent, rollback_nullifier).
THEOREM SpendsProvedSound ==
    ASSUME ZkSetting
    PROVE  ZkSpec => []SpendsAreSound
<1>1. Z!Init => ZkInv
  <2> SUFFICES ASSUME Z!Init PROVE ZkInv
    OBVIOUS
  <2>1. /\ zkPending \in Seq(ZkRequest) /\ zkProofs = {}
        /\ applied = [n \in Z!Nullifier |-> 0]
        /\ zkPc = [c \in Client |-> <<"idle", 0>>]
    BY DEF Z!Init, Z!Nullifier
  <2>2. 0 \in Z!Nullifier
    BY DEF ZkSetting, Z!Nullifier
  <2>3. <<"idle", 0>> \in Seat /\ <<"idle", 0>>[1] = "idle"
    BY <2>2 DEF Seat
  <2>4. ZkTypeOK
    BY <2>1, <2>3 DEF ZkTypeOK
  <2>5. \A n : \A c \in Client : ~Holds(c, n)
    BY <2>1, <2>3 DEF Holds
  <2>6. \A n \in Z!Nullifier : NullifierSafe(n)
    BY <2>1, <2>5 DEF NullifierSafe, MarkedFirst, HeldByOne
  <2> QED
    BY <2>4, <2>6 DEF ZkInv
<1>2. ZkInv /\ [Z!Next]_zkVars => ZkInv'
  BY ZkStep
<1>3. ZkInv => SpendsAreSound
  <2> SUFFICES ASSUME ZkInv PROVE SpendsAreSound
    OBVIOUS
  <2>1. Z!ValueIsConserved
    BY ValidIsPrivate DEF ZkInv, ZkTypeOK, Z!ValueIsConserved
  <2>2. ASSUME NEW n \in Z!Nullifier
        PROVE  /\ n \notin late => applied[n] <= 1 /\ (applied[n] = 1 => n \in spent)
               /\ n \notin overlapped =>
                     /\ applied[n] <= 1
                     /\ applied[n] = 1 => n \in spent \/ \E c \in Client : zkPc[c] = <<"done", n>>
    <3>1. NullifierSafe(n)
      BY DEF ZkInv
    <3>2. \A c \in Client : Holds(c, n) /\ StepOf(c) = "done" => zkPc[c] = <<"done", n>>
      BY DEF ZkInv, ZkTypeOK, Seat, Holds, StepOf
    <3>3. CASE \A c \in Client : ~Holds(c, n)
      BY <3>1, <3>3 DEF NullifierSafe, MarkedFirst, HeldByOne
    <3>4. CASE \E c \in Client : Holds(c, n)
      <4>1. PICK c \in Client : Holds(c, n)
        BY <3>4
      <4> QED
        BY <3>1, <3>2, <4>1 DEF NullifierSafe, MarkedFirst, HeldByOne
    <3> QED
      BY <3>3, <3>4
  <2>3. Z!SpentOnce
    BY <2>2 DEF Z!SpentOnce
  <2> QED
    BY <2>1, <2>3 DEF SpendsAreSound, Z!SpendsAreSound
<1> QED
  BY <1>1, <1>2, <1>3, PTL DEF ZkSpec

-----------------------------------------------------------------------------
(* The privacy pool *)

\* A tree of depth PoolDepth has room for the deposits: size[i] is the number
\* of leaves under a node of level i.
PoolSetting ==
    /\ PoolDepth \in Nat
    /\ MaxDeposits \in Nat
    /\ \E size \in [0..PoolDepth -> Nat] :
          /\ size[0] = 1 /\ \A i \in 1..PoolDepth : size[i] = 2 * size[i - 1]
          /\ MaxDeposits <= size[PoolDepth]

\* The recursive definitions of the contract and of its property, as equations
ZerosTo(N, z) == z = [i \in 0..N |-> IF i = 0 THEN "zero" ELSE <<z[i - 1], z[i - 1]>>]

LevelsTo(N, s, f) ==
    f = [l \in 0..N |-> [k \in Nat |-> IF l = 0 THEN IF k < Len(s) THEN s[k + 1] ELSE "zero"
                                       ELSE <<f[l - 1][2 * k], f[l - 1][2 * k + 1]>>]]

RoundsTo(N, leaf, n, r) ==
    r = [i \in 0..N |-> IF i = 0 THEN [hash |-> leaf, filled |-> filled, index |-> n]
                        ELSE P!Climb(r[i - 1], i - 1)]

HalvesTo(N, n, h) == h = [i \in 0..N |-> IF i = 0 THEN n ELSE h[i - 1] \div 2]

\* Each has a solution, by induction on the last argument.
LEMMA ZerosExist == \A n \in Nat : \E z : ZerosTo(n, z)
<1> DEFINE Good == {n \in Nat : \E z : ZerosTo(n, z)}
<1>1. 0 \in Good
  <2>1. ZerosTo(0, [i \in 0..0 |-> "zero"])
    BY DEF ZerosTo
  <2> QED
    BY <2>1
<1>2. ASSUME NEW n \in Nat, n \in Good PROVE n + 1 \in Good
  <2>1. PICK z : ZerosTo(n, z)
    BY <1>2
  <2> DEFINE x == <<z[n], z[n]>>
             y == [i \in 0..(n + 1) |-> IF i = n + 1 THEN x ELSE z[i]]
  <2>2. \A i \in 0..n : z[i] = IF i = 0 THEN "zero" ELSE <<z[i - 1], z[i - 1]>>
    BY <2>1 DEF ZerosTo
  <2>3. y = [i \in 0..(n + 1) |-> y[i]] /\ (\A i \in 0..n : y[i] = z[i]) /\ y[n + 1] = x /\ y[n] = z[n]
    OBVIOUS
  <2> HIDE DEF y
  <2>4. \A i \in 0..(n + 1) : y[i] = IF i = 0 THEN "zero" ELSE <<y[i - 1], y[i - 1]>>
    <3> TAKE i \in 0..(n + 1)
    <3>1. CASE i = n + 1
      <4>1. i # 0 /\ i - 1 = n
        BY <3>1
      <4> QED
        BY <3>1, <4>1, <2>3
    <3>2. CASE i = 0
      <4>1. 0 \in 0..n /\ 0 \in 0..(n + 1)
        OBVIOUS
      <4> QED
        BY <3>2, <4>1, <2>2, <2>3
    <3>3. CASE i \in 1..n
      <4>1. i \in 0..n /\ i - 1 \in 0..n /\ i # 0
        BY <3>3
      <4> QED
        BY <4>1, <2>2, <2>3
    <3> QED
      BY <3>1, <3>2, <3>3
  <2>5. ZerosTo(n + 1, y)
    BY <2>3, <2>4 DEF ZerosTo
  <2> QED
    BY <2>5
<1> HIDE DEF Good
<1>3. \A n \in Nat : n \in Good
  BY <1>1, <1>2, NatSetInduction
<1> QED
  BY <1>3 DEF Good

LEMMA LevelsExist == ASSUME NEW s PROVE \A n \in Nat : \E f : LevelsTo(n, s, f)
<1> DEFINE Leaf == [k \in Nat |-> IF k < Len(s) THEN s[k + 1] ELSE "zero"]
           Above(g) == [k \in Nat |-> <<g[2 * k], g[2 * k + 1]>>]
           Good == {n \in Nat : \E f : LevelsTo(n, s, f)}
<1>0. \A n \in Nat : \A f : LevelsTo(n, s, f) <=> f = [l \in 0..n |-> IF l = 0 THEN Leaf ELSE Above(f[l - 1])]
  <2> TAKE n \in Nat
  <2> TAKE f
  <2>1. \A l \in 0..n :
          [k \in Nat |-> IF l = 0 THEN IF k < Len(s) THEN s[k + 1] ELSE "zero"
                         ELSE <<f[l - 1][2 * k], f[l - 1][2 * k + 1]>>]
          = IF l = 0 THEN Leaf ELSE Above(f[l - 1])
    OBVIOUS
  <2>2. [l \in 0..n |-> [k \in Nat |-> IF l = 0 THEN IF k < Len(s) THEN s[k + 1] ELSE "zero"
                                       ELSE <<f[l - 1][2 * k], f[l - 1][2 * k + 1]>>]]
        = [l \in 0..n |-> IF l = 0 THEN Leaf ELSE Above(f[l - 1])]
    BY <2>1
  <2> QED
    BY <2>2 DEF LevelsTo
<1> HIDE DEF Leaf, Above
<1>1. 0 \in Good
  <2> DEFINE y == [l \in 0..0 |-> Leaf]
  <2>1. y = [l \in 0..0 |-> IF l = 0 THEN Leaf ELSE Above(y[l - 1])]
    OBVIOUS
  <2> HIDE DEF y
  <2>2. LevelsTo(0, s, y)
    BY <2>1, <1>0
  <2> QED
    BY <2>2
<1>2. ASSUME NEW n \in Nat, n \in Good PROVE n + 1 \in Good
  <2>1. PICK f : LevelsTo(n, s, f)
    BY <1>2
  <2> DEFINE x == Above(f[n])
             y == [l \in 0..(n + 1) |-> IF l = n + 1 THEN x ELSE f[l]]
  <2>2. f = [l \in 0..n |-> IF l = 0 THEN Leaf ELSE Above(f[l - 1])]
    BY <2>1, <1>0
  <2>3. y = [l \in 0..(n + 1) |-> y[l]] /\ (\A l \in 0..n : y[l] = f[l]) /\ y[n + 1] = x /\ y[n] = f[n]
    OBVIOUS
  <2> HIDE DEF y
  <2>4. \A l \in 0..(n + 1) : y[l] = IF l = 0 THEN Leaf ELSE Above(y[l - 1])
    <3> TAKE l \in 0..(n + 1)
    <3>1. CASE l = n + 1
      <4>1. l # 0 /\ l - 1 = n
        BY <3>1
      <4> QED
        BY <3>1, <4>1, <2>3
    <3>2. CASE l = 0
      <4>1. 0 \in 0..n /\ 0 \in 0..(n + 1)
        OBVIOUS
      <4> QED
        BY <3>2, <4>1, <2>2, <2>3
    <3>3. CASE l \in 1..n
      <4>1. l \in 0..n /\ l - 1 \in 0..n /\ l # 0
        BY <3>3
      <4> QED
        BY <4>1, <2>2, <2>3
    <3> QED
      BY <3>1, <3>2, <3>3
  <2>5. y = [l \in 0..(n + 1) |-> IF l = 0 THEN Leaf ELSE Above(y[l - 1])]
    BY <2>3, <2>4
  <2>6. LevelsTo(n + 1, s, y)
    BY <2>5, <1>0
  <2> QED
    BY <2>6
<1> HIDE DEF Good
<1>3. \A n \in Nat : n \in Good
  BY <1>1, <1>2, NatSetInduction
<1> QED
  BY <1>3 DEF Good

LEMMA RoundsExist == ASSUME NEW leaf, NEW m PROVE \A n \in Nat : \E r : RoundsTo(n, leaf, m, r)
<1> DEFINE start == [hash |-> leaf, filled |-> filled, index |-> m]
           Good == {n \in Nat : \E r : RoundsTo(n, leaf, m, r)}
<1>0. \A n, r : RoundsTo(n, leaf, m, r) <=> r = [i \in 0..n |-> IF i = 0 THEN start ELSE P!Climb(r[i - 1], i - 1)]
  BY DEF RoundsTo
<1> HIDE DEF start
<1>1. 0 \in Good
  <2> DEFINE y == [i \in 0..0 |-> start]
  <2>1. y = [i \in 0..0 |-> IF i = 0 THEN start ELSE P!Climb(y[i - 1], i - 1)]
    OBVIOUS
  <2> HIDE DEF y
  <2> QED
    BY <2>1, <1>0
<1>2. ASSUME NEW n \in Nat, n \in Good PROVE n + 1 \in Good
  <2>1. PICK r : RoundsTo(n, leaf, m, r)
    BY <1>2
  <2> DEFINE x == P!Climb(r[n], n)
             y == [i \in 0..(n + 1) |-> IF i = n + 1 THEN x ELSE r[i]]
  <2>2. r = [i \in 0..n |-> IF i = 0 THEN start ELSE P!Climb(r[i - 1], i - 1)]
    BY <2>1, <1>0
  <2>3. y = [i \in 0..(n + 1) |-> y[i]] /\ (\A i \in 0..n : y[i] = r[i]) /\ y[n + 1] = x /\ y[n] = r[n]
    OBVIOUS
  <2> HIDE DEF y
  <2>4. \A i \in 0..(n + 1) : y[i] = IF i = 0 THEN start ELSE P!Climb(y[i - 1], i - 1)
    <3> TAKE i \in 0..(n + 1)
    <3>1. CASE i = n + 1
      <4>1. i # 0 /\ i - 1 = n
        BY <3>1
      <4> QED
        BY <3>1, <4>1, <2>3
    <3>2. CASE i = 0
      <4>1. 0 \in 0..n /\ 0 \in 0..(n + 1)
        OBVIOUS
      <4> QED
        BY <3>2, <4>1, <2>2, <2>3
    <3>3. CASE i \in 1..n
      <4>1. i \in 0..n /\ i - 1 \in 0..n /\ i # 0
        BY <3>3
      <4> QED
        BY <4>1, <2>2, <2>3
    <3> QED
      BY <3>1, <3>2, <3>3
  <2>5. y = [i \in 0..(n + 1) |-> IF i = 0 THEN start ELSE P!Climb(y[i - 1], i - 1)]
    BY <2>3, <2>4
  <2> QED
    BY <2>5, <1>0
<1> HIDE DEF Good
<1>3. \A n \in Nat : n \in Good
  BY <1>1, <1>2, NatSetInduction
<1> QED
  BY <1>3 DEF Good

LEMMA HalvesExist == ASSUME NEW m \in Nat PROVE \A n \in Nat : \E h \in [0..n -> Nat] : HalvesTo(n, m, h)
<1> DEFINE Good == {n \in Nat : \E h \in [0..n -> Nat] : HalvesTo(n, m, h)}
<1>1. 0 \in Good
  <2> DEFINE y == [i \in 0..0 |-> m]
  <2>1. y \in [0..0 -> Nat] /\ HalvesTo(0, m, y)
    BY DEF HalvesTo
  <2> QED
    BY <2>1
<1>2. ASSUME NEW n \in Nat, n \in Good PROVE n + 1 \in Good
  <2>1. PICK h \in [0..n -> Nat] : HalvesTo(n, m, h)
    BY <1>2
  <2> DEFINE x == h[n] \div 2
             y == [i \in 0..(n + 1) |-> IF i = n + 1 THEN x ELSE h[i]]
  <2>2. \A i \in 0..n : h[i] = IF i = 0 THEN m ELSE h[i - 1] \div 2
    BY <2>1 DEF HalvesTo
  <2>3. h[n] \in Nat
    OBVIOUS
  <2>4. x \in Nat
    BY <2>3
  <2>5. y = [i \in 0..(n + 1) |-> y[i]] /\ (\A i \in 0..n : y[i] = h[i]) /\ y[n + 1] = x /\ y[n] = h[n]
    OBVIOUS
  <2>6. y \in [0..(n + 1) -> Nat]
    BY <2>4
  <2> HIDE DEF y
  <2>7. \A i \in 0..(n + 1) : y[i] = IF i = 0 THEN m ELSE y[i - 1] \div 2
    <3> TAKE i \in 0..(n + 1)
    <3>1. CASE i = n + 1
      <4>1. i # 0 /\ i - 1 = n
        BY <3>1
      <4> QED
        BY <3>1, <4>1, <2>5
    <3>2. CASE i = 0
      <4>1. 0 \in 0..n /\ 0 \in 0..(n + 1)
        OBVIOUS
      <4> QED
        BY <3>2, <4>1, <2>2, <2>5
    <3>3. CASE i \in 1..n
      <4>1. i \in 0..n /\ i - 1 \in 0..n /\ i # 0
        BY <3>3
      <4> QED
        BY <4>1, <2>2, <2>5
    <3> QED
      BY <3>1, <3>2, <3>3
  <2>8. HalvesTo(n + 1, m, y)
    BY <2>5, <2>7 DEF HalvesTo
  <2> QED
    BY <2>6, <2>8
<1> HIDE DEF Good
<1>3. \A n \in Nat : n \in Good
  BY <1>1, <1>2, NatSetInduction
<1> QED
  BY <1>3 DEF Good

LEMMA ZerosAre == ASSUME PoolDepth \in Nat PROVE ZerosTo(PoolDepth, P!Zeros)
<1>1. P!Zeros = CHOOSE z : ZerosTo(PoolDepth, z)
  BY Zenon DEF P!Zeros, ZerosTo, P!Hashed
<1> QED
  BY <1>1, ZerosExist

LEMMA InsertIs ==
    ASSUME PoolDepth \in Nat, NEW leaf, NEW n
    PROVE  \E r : RoundsTo(PoolDepth, leaf, n, r) /\ P!Insert(leaf, n) = r[PoolDepth]
<1>1. P!Insert(leaf, n) = (CHOOSE r : RoundsTo(PoolDepth, leaf, n, r))[PoolDepth]
  BY Zenon DEF P!Insert, RoundsTo
<1> QED
  BY <1>1, RoundsExist

LEMMA RootIs ==
    ASSUME PoolDepth \in Nat
    PROVE  \E f : LevelsTo(PoolDepth, inserted, f) /\ (P!PoolRootIsTree <=> poolRoot = f[PoolDepth][0])
<1>1. P!PoolRootIsTree <=> poolRoot = (CHOOSE f : LevelsTo(PoolDepth, inserted, f))[PoolDepth][0]
  BY Zenon DEF P!PoolRootIsTree, LevelsTo, P!Hashed
<1> QED
  BY <1>1, LevelsExist

\* Levels of the tree, and of the halved index, one by one
AreLevels(N, s, f) ==
    /\ \A k \in Nat : f[0][k] = IF k < Len(s) THEN s[k + 1] ELSE "zero"
    /\ \A l \in Nat : l + 1 <= N => \A k \in Nat : f[l + 1][k] = <<f[l][2 * k], f[l][2 * k + 1]>>

AreHalves(N, n, h) == h[0] = n /\ \A i \in Nat : i + 1 <= N => h[i + 1] = h[i] \div 2

LEMMA LevelsAre == ASSUME NEW N \in Nat, NEW s, NEW f, LevelsTo(N, s, f) PROVE AreLevels(N, s, f)
<1> DEFINE Row(l) == [k \in Nat |-> IF l = 0 THEN IF k < Len(s) THEN s[k + 1] ELSE "zero"
                                  ELSE <<f[l - 1][2 * k], f[l - 1][2 * k + 1]>>]
<1>1. f = [l \in 0..N |-> Row(l)]
  BY DEF LevelsTo
<1> HIDE DEF Row
<1>2. \A l \in 0..N : f[l] = Row(l)
  BY <1>1
<1>3. \A k \in Nat : Row(0)[k] = IF k < Len(s) THEN s[k + 1] ELSE "zero"
  BY DEF Row
<1>4. ASSUME NEW l \in Nat, l + 1 <= N, NEW k \in Nat PROVE Row(l + 1)[k] = <<f[l][2 * k], f[l][2 * k + 1]>>
  <2>1. l + 1 # 0 /\ (l + 1) - 1 = l
    OBVIOUS
  <2> QED
    BY <2>1 DEF Row
<1>5. 0 \in 0..N /\ \A l \in Nat : l + 1 <= N => l + 1 \in 0..N
  OBVIOUS
<1> QED
  BY <1>2, <1>3, <1>4, <1>5 DEF AreLevels

LEMMA HalvesAre ==
    ASSUME NEW N \in Nat, NEW n \in Nat, NEW h \in [0..N -> Nat], HalvesTo(N, n, h)
    PROVE  AreHalves(N, n, h)
<1>1. \A i \in 0..N : h[i] = IF i = 0 THEN n ELSE h[i - 1] \div 2
  BY DEF HalvesTo
<1>2. \A i \in Nat : i + 1 <= N => i + 1 \in 0..N /\ i + 1 # 0 /\ (i + 1) - 1 = i
  OBVIOUS
<1> QED
  <2>1. 0 \in 0..N
    OBVIOUS
  <2>2. h[0] = n
    BY <1>1, <2>1
  <2>3. ASSUME NEW i \in Nat, i + 1 <= N PROVE h[i + 1] = h[i] \div 2
    BY <1>1, <1>2, <2>3
  <2> QED
    BY <2>2, <2>3 DEF AreHalves

LEMMA HalfOfNext ==
    ASSUME NEW a \in Nat, NEW b \in Nat, b = a \/ b = a + 1
    PROVE  b \div 2 = a \div 2 \/ b \div 2 = (a \div 2) + 1
OBVIOUS

LEMMA HalfIsLess == ASSUME NEW a \in Nat, NEW b \in Nat, a < 2 * b PROVE a \div 2 < b
OBVIOUS

LEMMA ZerosStep ==
    ASSUME PoolDepth \in Nat
    PROVE  P!Zeros[0] = "zero"
           /\ \A i \in Nat : i + 1 <= PoolDepth => P!Zeros[i + 1] = <<P!Zeros[i], P!Zeros[i]>>
<1>1. \A i \in 0..PoolDepth : P!Zeros[i] = IF i = 0 THEN "zero" ELSE <<P!Zeros[i - 1], P!Zeros[i - 1]>>
  BY ZerosAre DEF ZerosTo
<1>2. 0 \in 0..PoolDepth
      /\ \A i \in Nat : i + 1 <= PoolDepth => i + 1 \in 0..PoolDepth /\ i + 1 # 0 /\ (i + 1) - 1 = i
  OBVIOUS
<1>3. P!Zeros[0] = "zero"
  BY <1>1, <1>2
<1>4. ASSUME NEW i \in Nat, i + 1 <= PoolDepth PROVE P!Zeros[i + 1] = <<P!Zeros[i], P!Zeros[i]>>
  BY <1>1, <1>2, <1>4
<1> QED
  BY <1>3, <1>4

\* Right of the last leaf everything is empty.
RightIsEmpty(h, f) == \A l \in 0..PoolDepth : \A k \in Nat : k > h[l] => f[l][k] = P!Zeros[l]

LEMMA EmptyRight ==
    ASSUME PoolDepth \in Nat, NEW s, NEW m \in Nat, Len(s) = m + 1, NEW f, LevelsTo(PoolDepth, s, f),
           NEW h \in [0..PoolDepth -> Nat], HalvesTo(PoolDepth, m, h)
    PROVE  RightIsEmpty(h, f)
<1>a. /\ \A k \in Nat : f[0][k] = IF k < Len(s) THEN s[k + 1] ELSE "zero"
      /\ \A l \in Nat : l + 1 <= PoolDepth => \A k \in Nat : f[l + 1][k] = <<f[l][2 * k], f[l][2 * k + 1]>>
  <2>1. AreLevels(PoolDepth, s, f)
    BY LevelsAre
  <2> QED
    BY <2>1 DEF AreLevels
<1>b. h[0] = m /\ \A i \in Nat : i + 1 <= PoolDepth => h[i + 1] = h[i] \div 2
  <2>1. AreHalves(PoolDepth, m, h)
    BY HalvesAre
  <2> QED
    BY <2>1 DEF AreHalves
<1> DEFINE Good == {l \in Nat : l <= PoolDepth => \A k \in Nat : k > h[l] => f[l][k] = P!Zeros[l]}
<1>1. 0 \in Good
  BY <1>a, <1>b, ZerosStep
<1>2. ASSUME NEW l \in Nat, l \in Good PROVE l + 1 \in Good
  <2> SUFFICES ASSUME l + 1 <= PoolDepth, NEW k \in Nat, k > h[l + 1] PROVE f[l + 1][k] = P!Zeros[l + 1]
    OBVIOUS
  <2>1. h[l + 1] = h[l] \div 2 /\ h[l] \in Nat
    BY <1>b
  <2>2. 2 * k > h[l] /\ 2 * k + 1 > h[l] /\ 2 * k \in Nat /\ 2 * k + 1 \in Nat
    BY <2>1
  <2>3. f[l][2 * k] = P!Zeros[l] /\ f[l][2 * k + 1] = P!Zeros[l]
    BY <1>2, <2>2
  <2>4. f[l + 1][k] = <<f[l][2 * k], f[l][2 * k + 1]>>
    BY <1>a
  <2> QED
    BY <2>3, <2>4, ZerosStep
<1> HIDE DEF Good
<1>3. \A l \in Nat : l \in Good
  BY <1>1, <1>2, NatSetInduction
<1> QED
  BY <1>3 DEF Good, RightIsEmpty

AllEmpty(f) == \A l \in 0..PoolDepth : \A k \in Nat : f[l][k] = P!Zeros[l]

LEMMA EmptyTree ==
    ASSUME PoolDepth \in Nat, NEW s, Len(s) = 0, NEW f, LevelsTo(PoolDepth, s, f)
    PROVE  AllEmpty(f)
<1>a. /\ \A k \in Nat : f[0][k] = IF k < Len(s) THEN s[k + 1] ELSE "zero"
      /\ \A l \in Nat : l + 1 <= PoolDepth => \A k \in Nat : f[l + 1][k] = <<f[l][2 * k], f[l][2 * k + 1]>>
  <2>1. AreLevels(PoolDepth, s, f)
    BY LevelsAre
  <2> QED
    BY <2>1 DEF AreLevels
<1> DEFINE Good == {l \in Nat : l <= PoolDepth => \A k \in Nat : f[l][k] = P!Zeros[l]}
<1>1. 0 \in Good
  BY <1>a, ZerosStep
<1>2. ASSUME NEW l \in Nat, l \in Good PROVE l + 1 \in Good
  <2> SUFFICES ASSUME l + 1 <= PoolDepth, NEW k \in Nat PROVE f[l + 1][k] = P!Zeros[l + 1]
    OBVIOUS
  <2>1. f[l][2 * k] = P!Zeros[l] /\ f[l][2 * k + 1] = P!Zeros[l]
    BY <1>2
  <2>2. f[l + 1][k] = <<f[l][2 * k], f[l][2 * k + 1]>>
    BY <1>a
  <2> QED
    BY <2>1, <2>2, ZerosStep
<1> HIDE DEF Good
<1>3. \A l \in Nat : l \in Good
  BY <1>1, <1>2, NatSetInduction
<1> QED
  BY <1>3 DEF Good, AllEmpty

\* A new leaf changes only the nodes above it.
OthersKept(h, f, g) == \A l \in 0..PoolDepth : \A k \in Nat : k # h[l] => g[l][k] = f[l][k]

\* Only the two children of a / 2 can be a.
LEMMA ChildrenApart ==
    ASSUME NEW a \in Nat, NEW k \in Nat, k # a \div 2
    PROVE  2 * k # a /\ 2 * k + 1 # a
  OBVIOUS

LEMMA OneLeaf ==
    ASSUME PoolDepth \in Nat, NEW s, NEW t, Len(s) \in Nat, Len(t) = Len(s) + 1,
           \A i \in 1 .. Len(s) : t[i] = s[i],
           NEW f, LevelsTo(PoolDepth, s, f), NEW g, LevelsTo(PoolDepth, t, g),
           NEW h \in [0..PoolDepth -> Nat], HalvesTo(PoolDepth, Len(s), h)
    PROVE  OthersKept(h, f, g)
<1>a. /\ \A k \in Nat : f[0][k] = IF k < Len(s) THEN s[k + 1] ELSE "zero"
      /\ \A l \in Nat : l + 1 <= PoolDepth => \A k \in Nat : f[l + 1][k] = <<f[l][2 * k], f[l][2 * k + 1]>>
  <2>1. AreLevels(PoolDepth, s, f)
    BY LevelsAre
  <2> QED
    BY <2>1 DEF AreLevels
<1>b. /\ \A k \in Nat : g[0][k] = IF k < Len(t) THEN t[k + 1] ELSE "zero"
      /\ \A l \in Nat : l + 1 <= PoolDepth => \A k \in Nat : g[l + 1][k] = <<g[l][2 * k], g[l][2 * k + 1]>>
  <2>1. AreLevels(PoolDepth, t, g)
    BY LevelsAre
  <2> QED
    BY <2>1 DEF AreLevels
<1>c. h[0] = Len(s) /\ \A i \in Nat : i + 1 <= PoolDepth => h[i + 1] = h[i] \div 2
  <2>1. AreHalves(PoolDepth, Len(s), h)
    BY HalvesAre
  <2> QED
    BY <2>1 DEF AreHalves
<1> DEFINE Good == {l \in Nat : l <= PoolDepth => \A k \in Nat : k # h[l] => g[l][k] = f[l][k]}
<1>1. 0 \in Good
  <2> SUFFICES ASSUME NEW k \in Nat, k # h[0] PROVE g[0][k] = f[0][k]
    OBVIOUS
  <2>1. h[0] = Len(s)
    BY <1>c
  <2>2. f[0][k] = IF k < Len(s) THEN s[k + 1] ELSE "zero"
    BY <1>a, <1>b
  <2>3. g[0][k] = IF k < Len(t) THEN t[k + 1] ELSE "zero"
    BY <1>a, <1>b
  <2> QED
    BY <2>1, <2>2, <2>3
<1>2. ASSUME NEW l \in Nat, l \in Good PROVE l + 1 \in Good
  <2> SUFFICES ASSUME l + 1 <= PoolDepth, NEW k \in Nat, k # h[l + 1] PROVE g[l + 1][k] = f[l + 1][k]
    OBVIOUS
  <2>1. h[l + 1] = h[l] \div 2 /\ h[l] \in Nat
    BY <1>c
  <2>2. 2 * k # h[l] /\ 2 * k + 1 # h[l] /\ 2 * k \in Nat /\ 2 * k + 1 \in Nat
    <3>1. k # h[l] \div 2
      BY <2>1
    <3>2. 2 * k # h[l] /\ 2 * k + 1 # h[l]
      BY <2>1, <3>1, ChildrenApart
    <3> QED
      BY <3>2
  <2>3. g[l][2 * k] = f[l][2 * k] /\ g[l][2 * k + 1] = f[l][2 * k + 1]
    BY <1>2, <2>2
  <2>4. f[l + 1][k] = <<f[l][2 * k], f[l][2 * k + 1]>>
    BY <1>a, <1>b
  <2>5. g[l + 1][k] = <<g[l][2 * k], g[l][2 * k + 1]>>
    BY <1>a, <1>b
  <2> QED
    BY <2>3, <2>4, <2>5
<1> HIDE DEF Good
<1>3. \A l \in Nat : l \in Good
  BY <1>1, <1>2, NatSetInduction
<1> QED
  BY <1>3 DEF Good, OthersKept

\* The way of the next leaf to the root is the same, or next to it.
LEMMA NextWay ==
    ASSUME NEW N \in Nat, NEW m \in Nat, NEW h \in [0..N -> Nat], HalvesTo(N, m, h),
           NEW j \in [0..N -> Nat], HalvesTo(N, m + 1, j)
    PROVE  \A l \in 0..N : j[l] = h[l] \/ j[l] = h[l] + 1
<1>a. h[0] = m /\ \A i \in Nat : i + 1 <= N => h[i + 1] = h[i] \div 2
  <2>1. AreHalves(N, m, h)
    BY HalvesAre
  <2> QED
    BY <2>1 DEF AreHalves
<1>b. j[0] = m + 1 /\ \A i \in Nat : i + 1 <= N => j[i + 1] = j[i] \div 2
  <2>1. AreHalves(N, m + 1, j)
    BY HalvesAre
  <2> QED
    BY <2>1 DEF AreHalves
<1> DEFINE Good == {l \in Nat : l <= N => j[l] = h[l] \/ j[l] = h[l] + 1}
<1>1. 0 \in Good
  BY <1>a, <1>b
<1>2. ASSUME NEW l \in Nat, l \in Good PROVE l + 1 \in Good
  <2> SUFFICES ASSUME l + 1 <= N PROVE j[l + 1] = h[l + 1] \/ j[l + 1] = h[l + 1] + 1
    OBVIOUS
  <2>1. h[l + 1] = h[l] \div 2 /\ h[l] \in Nat
    BY <1>a, <1>b
  <2>2. j[l + 1] = j[l] \div 2 /\ j[l] \in Nat
    BY <1>a, <1>b
  <2>3. j[l] = h[l] \/ j[l] = h[l] + 1
    BY <1>2
  <2>4. j[l] \div 2 = h[l] \div 2 \/ j[l] \div 2 = (h[l] \div 2) + 1
    BY ONLY <2>1, <2>2, <2>3, HalfOfNext
  <2> QED
    BY <2>1, <2>2, <2>4
<1> HIDE DEF Good
<1>3. \A l \in Nat : l \in Good
  BY <1>1, <1>2, NatSetInduction
<1> QED
  BY <1>3 DEF Good

\* A leaf that has room in the tree is under the root.
LEMMA UnderRoot ==
    ASSUME NEW N \in Nat, NEW m \in Nat, NEW h \in [0..N -> Nat], HalvesTo(N, m, h),
           NEW size \in [0..N -> Nat], size[0] = 1, \A i \in 1..N : size[i] = 2 * size[i - 1], m < size[N]
    PROVE  h[N] = 0
<1>a. h[0] = m /\ \A i \in Nat : i + 1 <= N => h[i + 1] = h[i] \div 2
  <2>1. AreHalves(N, m, h)
    BY HalvesAre
  <2> QED
    BY <2>1 DEF AreHalves
<1> DEFINE Good == {l \in Nat : l <= N => h[l] < size[N - l]}
<1>1. 0 \in Good
  BY <1>a
<1>2. ASSUME NEW l \in Nat, l \in Good PROVE l + 1 \in Good
  <2> SUFFICES ASSUME l + 1 <= N PROVE h[l + 1] < size[N - (l + 1)]
    OBVIOUS
  <2>1. h[l + 1] = h[l] \div 2 /\ h[l] \in Nat
    BY <1>a
  <2>2. N - l \in 1..N /\ (N - l) - 1 = N - (l + 1) /\ N - (l + 1) \in 0..N
    OBVIOUS
  <2>3. size[N - l] = 2 * size[N - (l + 1)] /\ size[N - (l + 1)] \in Nat
    BY <2>2
  <2>4. h[l] < size[N - l]
    BY <1>2
  <2>5. h[l] \div 2 < size[N - (l + 1)]
    BY ONLY <2>1, <2>3, <2>4, HalfIsLess
  <2> QED
    BY <2>1, <2>5
<1> HIDE DEF Good
<1>3. \A l \in Nat : l \in Good
  BY <1>1, <1>2, NatSetInduction
<1>4. h[N] < size[N - N] /\ N - N = 0 /\ h[N] \in Nat
  BY <1>3 DEF Good
<1> QED
  BY <1>4

LEMMA EvenOrOdd ==
    ASSUME NEW a \in Nat
    PROVE  /\ a \div 2 \in Nat
           /\ (a % 2 = 0 /\ 2 * (a \div 2) = a) \/ (a % 2 = 1 /\ 2 * (a \div 2) + 1 = a /\ 2 * (a \div 2) = a - 1)
OBVIOUS

\* The loop of deposit: after i rounds the hash is the node above the new leaf,
\* and what it passed as a left node is remembered.
RoundHolds(i, h, g, p) ==
    /\ p.hash = g[i][h[i]] /\ p.index = h[i] /\ DOMAIN p.filled = 0..(PoolDepth - 1)
    /\ \A j \in 0..(PoolDepth - 1) : p.filled[j] = IF j < i /\ h[j] % 2 = 0 THEN g[j][h[j]] ELSE filled[j]

LEMMA ClimbHolds ==
    ASSUME PoolDepth \in Nat, NEW m \in Nat, NEW t, Len(t) = m + 1,
           NEW g, LevelsTo(PoolDepth, t, g),
           NEW h \in [0..PoolDepth -> Nat], HalvesTo(PoolDepth, m, h),
           NEW i \in Nat, i + 1 <= PoolDepth, h[i] % 2 = 1 => filled[i] = g[i][h[i] - 1],
           NEW p, RoundHolds(i, h, g, p)
    PROVE  RoundHolds(i + 1, h, g, P!Climb(p, i))
<1> DEFINE q == P!Climb(p, i)
           a == h[i]
<1>1. i \in 0..PoolDepth /\ i \in 0..(PoolDepth - 1) /\ a \in Nat
  OBVIOUS
<1>2. h[i + 1] = a \div 2
  <2>1. AreHalves(PoolDepth, m, h)
    BY HalvesAre
  <2> QED
    BY <2>1 DEF AreHalves
<1>3. \A k \in Nat : g[i + 1][k] = <<g[i][2 * k], g[i][2 * k + 1]>>
  <2>1. AreLevels(PoolDepth, t, g)
    BY LevelsAre
  <2> QED
    BY <2>1 DEF AreLevels
<1>4. p.hash = g[i][a] /\ p.index = a /\ DOMAIN p.filled = 0..(PoolDepth - 1)
  BY DEF RoundHolds
<1>5. \A j \in 0..(PoolDepth - 1) : p.filled[j] = IF j < i /\ h[j] % 2 = 0 THEN g[j][h[j]] ELSE filled[j]
  BY DEF RoundHolds
<1>6. /\ q.hash = IF a % 2 = 0 THEN <<g[i][a], P!Zeros[i]>> ELSE <<p.filled[i], g[i][a]>>
      /\ q.filled = IF a % 2 = 0 THEN [p.filled EXCEPT ![i] = p.hash] ELSE p.filled
      /\ q.index = a \div 2
  BY <1>4 DEF P!Climb, P!Hashed
<1> HIDE DEF q
<1>7. a \div 2 \in Nat /\ g[i + 1][a \div 2] = <<g[i][2 * (a \div 2)], g[i][2 * (a \div 2) + 1]>>
  BY <1>1, <1>3, EvenOrOdd
<1>8. ASSUME a % 2 = 0 PROVE RoundHolds(i + 1, h, g, q)
  <2>1. 2 * (a \div 2) = a /\ a + 1 \in Nat /\ a + 1 > a
    BY <1>1, <1>8, EvenOrOdd
  <2>2. g[i][a + 1] = P!Zeros[i]
    <3>1. RightIsEmpty(h, g)
      BY EmptyRight
    <3> QED
      BY <1>1, <2>1, <3>1 DEF RightIsEmpty
  <2>3. q.hash = g[i + 1][h[i + 1]]
    BY <1>2, <1>6, <1>7, <1>8, <2>1, <2>2
  <2>4. q.filled = [p.filled EXCEPT ![i] = p.hash]
    BY <1>6, <1>8
  <2>5. DOMAIN q.filled = 0..(PoolDepth - 1) /\ q.filled[i] = p.hash
        /\ \A j \in 0..(PoolDepth - 1) : j # i => q.filled[j] = p.filled[j]
    BY <1>1, <1>4, <2>4
  <2>6. ASSUME NEW j \in 0..(PoolDepth - 1)
        PROVE  q.filled[j] = IF j < i + 1 /\ h[j] % 2 = 0 THEN g[j][h[j]] ELSE filled[j]
    <3>1. CASE j = i
      BY <3>1, <2>5, <1>4, <1>8
    <3>2. CASE j # i
      <4>1. j < i + 1 <=> j < i
        BY <3>2
      <4> QED
        BY <3>2, <4>1, <2>5, <1>5
    <3> QED
      BY <3>1, <3>2
  <2> QED
    BY <1>2, <1>6, <2>3, <2>5, <2>6 DEF RoundHolds
<1>9. ASSUME a % 2 = 1 PROVE RoundHolds(i + 1, h, g, q)
  <2>1. 2 * (a \div 2) = a - 1 /\ 2 * (a \div 2) + 1 = a
    BY <1>1, <1>9, EvenOrOdd
  <2>2. p.filled[i] = filled[i]
    BY <1>1, <1>5
  <2>3. q.hash = g[i + 1][h[i + 1]]
    <3>1. q.hash = <<filled[i], g[i][a]>> /\ filled[i] = g[i][a - 1]
      BY <1>6, <1>9, <2>2
    <3>2. g[i + 1][a \div 2] = <<g[i][a - 1], g[i][a]>>
      BY <1>7, <2>1
    <3> QED
      BY <1>2, <3>1, <3>2
  <2>4. q.filled = p.filled
    BY <1>6, <1>9
  <2>5. ASSUME NEW j \in 0..(PoolDepth - 1)
        PROVE  q.filled[j] = IF j < i + 1 /\ h[j] % 2 = 0 THEN g[j][h[j]] ELSE filled[j]
    <3>1. CASE j = i
      <4>1. p.filled[j] = filled[j] /\ h[j] % 2 # 0
        BY <3>1, <2>2, <1>9
      <4> QED
        BY <4>1, <2>4
    <3>2. CASE j # i
      <4>1. j < i + 1 <=> j < i
        BY <3>2
      <4> QED
        BY <3>2, <4>1, <2>4, <1>5
    <3> QED
      BY <3>1, <3>2
  <2> QED
    BY <1>2, <1>4, <1>6, <2>3, <2>4, <2>5 DEF RoundHolds
<1> QED
  BY <1>1, <1>8, <1>9, EvenOrOdd DEF q

LEMMA RoundsHold ==
    ASSUME PoolDepth \in Nat, NEW m \in Nat, NEW t, Len(t) = m + 1,
           NEW g, LevelsTo(PoolDepth, t, g),
           NEW h \in [0..PoolDepth -> Nat], HalvesTo(PoolDepth, m, h),
           NEW r, RoundsTo(PoolDepth, t[m + 1], m, r),
           DOMAIN filled = 0..(PoolDepth - 1),
           \A i \in 0..(PoolDepth - 1) : h[i] % 2 = 1 => filled[i] = g[i][h[i] - 1]
    PROVE  RoundHolds(PoolDepth, h, g, r[PoolDepth])
<1> DEFINE Good == {i \in Nat : i <= PoolDepth => RoundHolds(i, h, g, r[i])}
           start == [hash |-> t[m + 1], filled |-> filled, index |-> m]
<1>1. r[0] = start /\ \A i \in Nat : i + 1 <= PoolDepth => r[i + 1] = P!Climb(r[i], i)
  <2>1. r = [i \in 0..PoolDepth |-> IF i = 0 THEN start ELSE P!Climb(r[i - 1], i - 1)]
    BY DEF RoundsTo
  <2> HIDE DEF start
  <2>2. \A i \in 0..PoolDepth : r[i] = IF i = 0 THEN start ELSE P!Climb(r[i - 1], i - 1)
    BY <2>1
  <2>3. 0 \in 0..PoolDepth
        /\ \A i \in Nat : i + 1 <= PoolDepth => i + 1 \in 0..PoolDepth /\ i + 1 # 0 /\ (i + 1) - 1 = i
    OBVIOUS
  <2>4. r[0] = start
    BY <2>2, <2>3
  <2>5. ASSUME NEW i \in Nat, i + 1 <= PoolDepth PROVE r[i + 1] = P!Climb(r[i], i)
    BY <2>2, <2>3, <2>5
  <2> QED
    BY <2>4, <2>5
<1>2. 0 \in Good
  <2>1. h[0] = m
    <3>1. AreHalves(PoolDepth, m, h)
      BY HalvesAre
    <3> QED
      BY <3>1 DEF AreHalves
  <2>2. g[0][m] = t[m + 1]
    <3>1. AreLevels(PoolDepth, t, g)
      BY LevelsAre
    <3> QED
      BY <3>1 DEF AreLevels
  <2>3. start.hash = t[m + 1] /\ start.filled = filled /\ start.index = m
    OBVIOUS
  <2> HIDE DEF start
  <2>4. \A j \in 0..(PoolDepth - 1) : ~(j < 0)
    OBVIOUS
  <2>5. RoundHolds(0, h, g, r[0])
    BY <1>1, <2>1, <2>2, <2>3, <2>4 DEF RoundHolds
  <2> QED
    BY <2>5
<1>3. ASSUME NEW i \in Nat, i \in Good PROVE i + 1 \in Good
  <2> SUFFICES ASSUME i + 1 <= PoolDepth PROVE RoundHolds(i + 1, h, g, r[i + 1])
    OBVIOUS
  <2>1. RoundHolds(i, h, g, r[i])
    BY <1>3
  <2>2. h[i] % 2 = 1 => filled[i] = g[i][h[i] - 1]
    OBVIOUS
  <2>3. RoundHolds(i + 1, h, g, P!Climb(r[i], i))
    BY <2>1, <2>2, ClimbHolds
  <2> QED
    BY <2>3, <1>1
<1> HIDE DEF Good
<1>4. \A i \in Nat : i \in Good
  BY <1>2, <1>3, NatSetInduction
<1> QED
  BY <1>4 DEF Good

\* The root is that of the tree of all deposits, and where the next leaf is in
\* a right subtree, the left one beside it is the one remembered.
IsRoot(f) == poolRoot = f[PoolDepth][0]

LeftIsKept(f, h) == \A i \in 0..(PoolDepth - 1) : h[i] % 2 = 1 => filled[i] = f[i][h[i] - 1]

PoolInv ==
    /\ inserted \in Seq(PoolCommitment)
    /\ DOMAIN filled = 0..(PoolDepth - 1)
    /\ \A f : LevelsTo(PoolDepth, inserted, f) => IsRoot(f)
    /\ \A f : \A h \in [0..PoolDepth -> Nat] :
          LevelsTo(PoolDepth, inserted, f) /\ HalvesTo(PoolDepth, Len(inserted), h) => LeftIsKept(f, h)

LEMMA PoolStarts == PoolSetting /\ P!Init => PoolInv
<1> SUFFICES ASSUME PoolSetting, P!Init PROVE PoolInv
  OBVIOUS
<1>1. PoolDepth \in Nat
  BY DEF PoolSetting
<1>2. inserted = << >> /\ poolRoot = P!Zeros[PoolDepth] /\ filled = [i \in 0..(PoolDepth - 1) |-> P!Zeros[i]]
  BY DEF P!Init
<1>3. inserted \in Seq(PoolCommitment) /\ Len(inserted) = 0 /\ DOMAIN filled = 0..(PoolDepth - 1)
  BY <1>2
<1>4. ASSUME NEW f, LevelsTo(PoolDepth, inserted, f) PROVE IsRoot(f)
  <2>1. AllEmpty(f)
    BY <1>1, <1>3, <1>4, EmptyTree
  <2>2. f[PoolDepth][0] = P!Zeros[PoolDepth]
    BY <1>1, <2>1 DEF AllEmpty
  <2> QED
    BY <1>2, <2>2 DEF IsRoot
<1>5. ASSUME NEW f, NEW h \in [0..PoolDepth -> Nat], HalvesTo(PoolDepth, Len(inserted), h) PROVE LeftIsKept(f, h)
  <2>1. AreHalves(PoolDepth, 0, h)
    BY <1>1, <1>3, <1>5, HalvesAre
  <2> DEFINE Good == {l \in Nat : l <= PoolDepth => h[l] = 0}
  <2>2. 0 \in Good
    BY <2>1 DEF AreHalves
  <2>3. ASSUME NEW l \in Nat, l \in Good PROVE l + 1 \in Good
    <3> SUFFICES ASSUME l + 1 <= PoolDepth PROVE h[l + 1] = 0
      OBVIOUS
    <3>1. h[l] = 0 /\ h[l + 1] = h[l] \div 2
      BY <1>1, <2>1, <2>3 DEF AreHalves
    <3> QED
      BY <3>1
  <2> HIDE DEF Good
  <2>4. \A l \in Nat : l \in Good
    BY <2>2, <2>3, NatSetInduction
  <2>5. \A l \in 0..(PoolDepth - 1) : h[l] = 0
    BY <1>1, <2>4 DEF Good
  <2> QED
    BY <2>5 DEF LeftIsKept
<1> QED
  BY <1>3, <1>4, <1>5 DEF PoolInv

LEMMA DepositTree ==
    ASSUME PoolSetting, PoolInv, P!Deposit, NEW g, LevelsTo(PoolDepth, inserted', g)
    PROVE  /\ inserted' \in Seq(PoolCommitment) /\ Len(inserted') = Len(inserted) + 1
           /\ DOMAIN filled' = 0..(PoolDepth - 1)
           /\ poolRoot' = g[PoolDepth][0]
           /\ \A j \in [0..PoolDepth -> Nat] : HalvesTo(PoolDepth, Len(inserted) + 1, j) =>
                 \A i \in 0..(PoolDepth - 1) : j[i] % 2 = 1 => filled'[i] = g[i][j[i] - 1]
<1> DEFINE D == PoolDepth
           m == Len(inserted)
<1>1. D \in Nat
  BY DEF PoolSetting
<1>2. PICK c \in PoolCommitment :
         /\ m < MaxDeposits /\ inserted' = Append(inserted, c)
         /\ filled' = P!Insert(c, m).filled /\ poolRoot' = P!Insert(c, m).hash
  BY DEF P!Deposit
<1> DEFINE t == Append(inserted, c)
<1>3. /\ inserted \in Seq(PoolCommitment) /\ m \in Nat /\ t \in Seq(PoolCommitment) /\ Len(t) = m + 1
      /\ t[m + 1] = c /\ \A i \in 1 .. m : t[i] = inserted[i]
  BY DEF PoolInv
<1> HIDE DEF t
<1>4. inserted' = t
  BY <1>2 DEF t
<1>5. PICK f : LevelsTo(D, inserted, f)
  BY <1>1, LevelsExist
<1>6. LevelsTo(D, t, g)
  BY <1>4
<1>7. PICK h \in [0..D -> Nat] : HalvesTo(D, m, h)
  BY <1>1, <1>3, HalvesExist
<1>8. PICK r : RoundsTo(D, c, m, r) /\ P!Insert(c, m) = r[D]
  BY <1>1, InsertIs
<1>9. OthersKept(h, f, g)
  BY <1>1, <1>3, <1>5, <1>6, <1>7, OneLeaf
<1>10. \A i \in 0..(D - 1) : h[i] % 2 = 1 => filled[i] = g[i][h[i] - 1]
  <2> SUFFICES ASSUME NEW i \in 0..(D - 1), h[i] % 2 = 1 PROVE filled[i] = g[i][h[i] - 1]
    OBVIOUS
  <2>1. LeftIsKept(f, h)
    BY <1>5, <1>7 DEF PoolInv
  <2>2. filled[i] = f[i][h[i] - 1]
    BY <2>1 DEF LeftIsKept
  <2>3. i \in 0..D /\ h[i] \in Nat
    BY <1>1
  <2>4. h[i] - 1 \in Nat /\ h[i] - 1 # h[i]
    BY <2>3
  <2>5. g[i][h[i] - 1] = f[i][h[i] - 1]
    BY <1>9, <2>3, <2>4 DEF OthersKept
  <2> QED
    BY <2>2, <2>5
<1>11. RoundHolds(D, h, g, r[D])
  <2>1. RoundsTo(D, t[m + 1], m, r) /\ DOMAIN filled = 0..(D - 1)
    BY <1>3, <1>8 DEF PoolInv
  <2> HIDE DEF m
  <2> QED
    BY <1>1, <1>3, <1>6, <1>7, <1>10, <2>1, RoundsHold
<1>12. /\ poolRoot' = g[D][h[D]] /\ DOMAIN filled' = 0..(D - 1)
       /\ \A j \in 0..(D - 1) : filled'[j] = IF j < D /\ h[j] % 2 = 0 THEN g[j][h[j]] ELSE filled[j]
  BY <1>2, <1>8, <1>11 DEF RoundHolds
<1>13. h[D] = 0
  <2>1. PICK size \in [0..D -> Nat] :
           /\ size[0] = 1 /\ \A i \in 1..D : size[i] = 2 * size[i - 1]
           /\ MaxDeposits <= size[D]
    BY DEF PoolSetting
  <2>2. MaxDeposits \in Nat /\ size[D] \in Nat
    BY <1>1 DEF PoolSetting
  <2>3. m < size[D]
    BY <1>2, <1>3, <2>1, <2>2
  <2> HIDE DEF m
  <2> QED
    BY <1>1, <1>3, <1>7, <2>1, <2>3, UnderRoot
<1>14. ASSUME NEW j \in [0..D -> Nat], HalvesTo(D, m + 1, j), NEW i \in 0..(D - 1), j[i] % 2 = 1
      PROVE  filled'[i] = g[i][j[i] - 1]
  <2>1. \A l \in 0..D : j[l] = h[l] \/ j[l] = h[l] + 1
    <3> HIDE DEF m
    <3> QED
      BY <1>1, <1>3, <1>7, <1>14, NextWay
  <2>2. i \in 0..D /\ i < D /\ h[i] \in Nat
    BY <1>1
  <2>3. CASE j[i] = h[i]
    <3>1. h[i] % 2 # 0 /\ h[i] % 2 = 1
      BY <1>14, <2>3
    <3>2. filled'[i] = filled[i]
      BY <1>12, <3>1
    <3> QED
      BY <1>10, <2>3, <3>1, <3>2
  <2>4. CASE j[i] = h[i] + 1
    <3>1. h[i] % 2 = 0 /\ j[i] - 1 = h[i]
      BY <1>14, <2>2, <2>4
    <3> QED
      BY <1>12, <2>2, <3>1
  <2> QED
    BY <2>1, <2>2, <2>3, <2>4
<1> QED
  BY <1>3, <1>4, <1>12, <1>13, <1>14

LEMMA PoolStep == PoolSetting /\ PoolInv /\ [P!Next]_poolVars => PoolInv'
<1> SUFFICES ASSUME PoolSetting, PoolInv, [P!Next]_poolVars PROVE PoolInv'
  OBVIOUS
<1>1. CASE P!Deposit
  <2>0. PoolDepth \in Nat
    BY DEF PoolSetting
  <2>1. PICK g : LevelsTo(PoolDepth, inserted', g)
    BY <2>0, LevelsExist
  <2>2. inserted' \in Seq(PoolCommitment) /\ Len(inserted') = Len(inserted) + 1 /\ DOMAIN filled' = 0..(PoolDepth - 1)
    BY <1>1, <2>1, DepositTree
  <2>3. ASSUME NEW f, LevelsTo(PoolDepth, inserted', f) PROVE poolRoot' = f[PoolDepth][0]
    BY <1>1, <2>3, DepositTree
  <2>4. ASSUME NEW f, LevelsTo(PoolDepth, inserted', f),
               NEW h \in [0..PoolDepth -> Nat], HalvesTo(PoolDepth, Len(inserted'), h)
        PROVE  \A i \in 0..(PoolDepth - 1) : h[i] % 2 = 1 => filled'[i] = f[i][h[i] - 1]
    <3>1. HalvesTo(PoolDepth, Len(inserted) + 1, h)
      BY <2>2, <2>4
    <3> QED
      BY <1>1, <2>4, <3>1, DepositTree
  <2> QED
    BY <2>2, <2>3, <2>4 DEF PoolInv, IsRoot, LeftIsKept
<1>2. CASE UNCHANGED <<filled, poolRoot, inserted>>
  BY <1>2 DEF PoolInv, IsRoot, LeftIsKept
<1>3. CASE P!Withdraw \/ P!EnableCompliance \/ P!UpdateSanctioned \/ UNCHANGED poolVars
  BY <1>2, <1>3 DEF P!Withdraw, P!EnableCompliance, P!UpdateSanctioned, poolVars
<1> QED
  BY <1>1, <1>3 DEF P!Next

\* For a tree of any depth and any deposits that fit in it, the root that the
\* incremental updates of deposit leave is that of the full tree over all
\* commitments in order, empty leaves to the right.
THEOREM PoolRootProved == ASSUME PoolSetting PROVE PoolSpec => []PoolRootIsTree
<1>1. P!Init => PoolInv
  BY PoolStarts
<1>2. PoolInv /\ [P!Next]_poolVars => PoolInv'
  BY PoolStep
<1>3. PoolInv => PoolRootIsTree
  <2> SUFFICES ASSUME PoolInv PROVE P!PoolRootIsTree
    BY DEF PoolRootIsTree
  <2>1. PoolDepth \in Nat
    BY DEF PoolSetting
  <2>2. PICK f : LevelsTo(PoolDepth, inserted, f) /\ (P!PoolRootIsTree <=> poolRoot = f[PoolDepth][0])
    BY <2>1, RootIs
  <2> QED
    BY <2>2 DEF PoolInv, IsRoot
<1> QED
  BY <1>1, <1>2, <1>3, PTL DEF PoolSpec

-----------------------------------------------------------------------------
(* The commitment tree *)

\* 1 << depth is what doubling one depth times gives: size[i] is the number of
\* nodes of the level i below the root.
TreeSizes(size) ==
    /\ size \in [0..TreeDepth -> Nat \ {0}]
    /\ size[0] = 1 /\ \A i \in 1..TreeDepth : size[i] = 2 * size[i - 1]
    /\ size[TreeDepth] = A!Offset

TreeSetting == TreeDepth \in Nat /\ \E size : TreeSizes(size)

LEMMA OffsetIsNat == ASSUME TreeSetting PROVE A!Offset \in Nat /\ A!Offset >= 1
<1>1. PICK size : TreeSizes(size)
  BY DEF TreeSetting
<1> QED
  BY <1>1 DEF TreeSetting, TreeSizes

Nodes == 0..(2 * A!Offset - 1)
Inner == 1..(A!Offset - 1)

\* Node j of t is the hash of its children.
Consistent(t, j) == t[j] = A!Joined(t[2 * j], t[2 * j + 1])

TreeInv ==
    /\ leaves \in Seq({<<c>> : c \in Commitment})
    /\ A!Fits =>
        /\ DOMAIN tree = Nodes
        /\ \A k \in 0..(A!Offset - 1) : tree[A!Offset + k] = IF k < Len(leaves) THEN leaves[k + 1] ELSE A!Zero
        /\ \A j \in Inner : Consistent(tree, j)

LEMMA PutIs ==
    ASSUME TreeSetting, NEW t, DOMAIN t = Nodes, NEW i \in Nodes, NEW v
    PROVE  /\ DOMAIN A!Put(t, i, v) = Nodes /\ A!Put(t, i, v)[i] = v
           /\ \A j \in Nodes : j # i => A!Put(t, i, v)[j] = t[j]
<1>1. A!Offset \in Nat
  BY OffsetIsNat
<1>2. DOMAIN t \cup 0..i = Nodes
  BY <1>1 DEF Nodes
<1>3. A!Put(t, i, v) = [j \in Nodes |-> IF j = i THEN v ELSE A!NodeAt(t, j)]
  BY <1>2 DEF A!Put
<1>4. \A j \in Nodes : A!NodeAt(t, j) = t[j]
  BY DEF A!NodeAt
<1> QED
  BY <1>3, <1>4

\* The loop of update_tree after k rounds: every inner node but the parent of
\* the one just written is the hash of its children, and no leaf has changed.
UpHolds(k, i, t, p) ==
    /\ p.at \in Nat /\ p.at >= 1 /\ p.at \in Nodes /\ (p.at = 1 \/ p.at + k <= i)
    /\ DOMAIN p.tree = Nodes
    /\ \A j \in Nodes : j >= A!Offset => p.tree[j] = t[j]
    /\ p.tree[p.at] # A!Zero
    /\ \A j \in Inner : 2 * j # p.at /\ 2 * j + 1 # p.at => Consistent(p.tree, j)

LEMMA HalfWay ==
    ASSUME NEW a \in Nat, a >= 2, NEW O \in Nat, a \in 0..(2 * O - 1)
    PROVE  /\ a \div 2 \in Nat /\ a \div 2 >= 1 /\ a \div 2 \in 1..(O - 1) /\ a \div 2 < a
           /\ a - (a % 2) = 2 * (a \div 2)
           /\ a = 2 * (a \div 2) \/ a = 2 * (a \div 2) + 1
           /\ \A j \in Nat : (2 * j = a \/ 2 * j + 1 = a) => j = a \div 2
OBVIOUS

LEMMA RoundKeeps ==
    ASSUME TreeSetting, NEW k \in Nat, NEW i \in Nat, NEW t, NEW p, UpHolds(k, i, t, p)
    PROVE  UpHolds(k + 1, i, t, A!RehashParent(p))
<1> DEFINE a == p.at
           q == a \div 2
           T == p.tree
           x == <<T[2 * q], T[2 * q + 1]>>
           U == A!Put(T, q, x)
<1>0. A!Offset \in Nat /\ A!Offset >= 1
  BY OffsetIsNat
<1>1. /\ a \in Nat /\ a >= 1 /\ a \in Nodes /\ (a = 1 \/ a + k <= i)
      /\ DOMAIN T = Nodes /\ T[a] # A!Zero
  BY DEF UpHolds
<1>2. /\ \A j \in Nodes : j >= A!Offset => T[j] = t[j]
      /\ \A j \in Inner : 2 * j # a /\ 2 * j + 1 # a => Consistent(T, j)
  BY DEF UpHolds
<1>3. CASE a <= 1
  <2>1. A!RehashParent(p) = p /\ a = 1
    BY <1>1, <1>3 DEF A!RehashParent
  <2> QED
    BY <2>1, <1>1, <1>2 DEF UpHolds
<1>4. CASE a >= 2
  <2>1. /\ q \in Nat /\ q >= 1 /\ q \in 1..(A!Offset - 1) /\ q < a /\ a - (a % 2) = 2 * q
        /\ a = 2 * q \/ a = 2 * q + 1
        /\ \A j \in Nat : (2 * j = a \/ 2 * j + 1 = a) => j = q
    BY <1>0, <1>1, <1>4, HalfWay DEF Nodes
  <2> HIDE DEF q
  <2>2. q \in Nodes /\ 2 * q \in Nodes /\ 2 * q + 1 \in Nodes /\ q < A!Offset /\ q \in Inner
    BY <1>0, <2>1 DEF Nodes, Inner
  <2>3. A!NodeAt(T, 2 * q) = T[2 * q] /\ A!NodeAt(T, 2 * q + 1) = T[2 * q + 1]
    BY <1>1, <2>2 DEF A!NodeAt
  <2>4. A!RehashParent(p) = [tree |-> U, at |-> q]
    <3>1. ~(a <= 1)
      BY <1>1, <1>4
    <3> QED
      BY <2>1, <2>3, <3>1 DEF A!RehashParent, q
  <2>5. DOMAIN U = Nodes /\ U[q] = x /\ \A j \in Nodes : j # q => U[j] = T[j]
    <3> HIDE DEF T, x
    <3> QED
      BY <1>1, <2>2, PutIs
  <2>6. x # A!Zero
    BY DEF A!Zero
  <2>7. x = A!Joined(T[2 * q], T[2 * q + 1])
    BY <1>1, <2>1 DEF A!Joined
  <2> HIDE DEF U, x
  <2>8. ASSUME NEW j \in Inner, 2 * j # q, 2 * j + 1 # q PROVE Consistent(U, j)
    <3>1. j \in Nat /\ j \in Nodes /\ 2 * j \in Nodes /\ 2 * j + 1 \in Nodes
      BY <1>0 DEF Inner, Nodes
    <3>2. U[2 * j] = T[2 * j] /\ U[2 * j + 1] = T[2 * j + 1]
      BY <2>5, <2>8, <3>1
    <3>3. CASE j = q
      BY <2>5, <2>7, <3>2, <3>3 DEF Consistent
    <3>4. CASE j # q
      <4>1. 2 * j # a /\ 2 * j + 1 # a
        BY <2>1, <3>1, <3>4
      <4>2. Consistent(T, j) /\ U[j] = T[j]
        BY <1>2, <2>5, <3>1, <3>4, <4>1
      <4> QED
        BY <3>2, <4>2 DEF Consistent
    <3> QED
      BY <3>3, <3>4
  <2>9. \A j \in Nodes : j >= A!Offset => U[j] = t[j]
    BY <1>2, <2>2, <2>5, <1>0 DEF Nodes
  <2>10. q + (k + 1) <= i
    BY <1>1, <1>4, <2>1
  <2> DEFINE r == [tree |-> U, at |-> q]
  <2>11. r.tree = U /\ r.at = q
    OBVIOUS
  <2> HIDE DEF r
  <2>12. UpHolds(k + 1, i, t, r)
    BY <2>1, <2>2, <2>5, <2>6, <2>8, <2>9, <2>10, <2>11 DEF UpHolds
  <2> QED
    BY <2>4, <2>12 DEF r
<1> QED
  BY <1>1, <1>3, <1>4

UpsTo(n, i, t, u) ==
    u = [k \in 0..n |-> IF k = 0 THEN [tree |-> t, at |-> i] ELSE A!RehashParent(u[k - 1])]

LEMMA UpsExist == ASSUME NEW i, NEW t PROVE \A n \in Nat : \E u : UpsTo(n, i, t, u)
<1> DEFINE start == [tree |-> t, at |-> i]
           Good == {n \in Nat : \E u : UpsTo(n, i, t, u)}
<1>0. \A n, u : UpsTo(n, i, t, u) <=> u = [k \in 0..n |-> IF k = 0 THEN start ELSE A!RehashParent(u[k - 1])]
  BY DEF UpsTo
<1> HIDE DEF start
<1>1. 0 \in Good
  <2> DEFINE y == [k \in 0..0 |-> start]
  <2>1. y = [k \in 0..0 |-> IF k = 0 THEN start ELSE A!RehashParent(y[k - 1])]
    OBVIOUS
  <2> HIDE DEF y
  <2> QED
    BY <2>1, <1>0
<1>2. ASSUME NEW n \in Nat, n \in Good PROVE n + 1 \in Good
  <2>1. PICK u : UpsTo(n, i, t, u)
    BY <1>2
  <2> DEFINE x == A!RehashParent(u[n])
             y == [k \in 0..(n + 1) |-> IF k = n + 1 THEN x ELSE u[k]]
  <2>2. u = [k \in 0..n |-> IF k = 0 THEN start ELSE A!RehashParent(u[k - 1])]
    BY <2>1, <1>0
  <2>3. y = [k \in 0..(n + 1) |-> y[k]] /\ (\A k \in 0..n : y[k] = u[k]) /\ y[n + 1] = x /\ y[n] = u[n]
    OBVIOUS
  <2> HIDE DEF y
  <2>4. \A k \in 0..(n + 1) : y[k] = IF k = 0 THEN start ELSE A!RehashParent(y[k - 1])
    <3> TAKE k \in 0..(n + 1)
    <3>1. CASE k = n + 1
      <4>1. k # 0 /\ k - 1 = n
        BY <3>1
      <4> QED
        BY <3>1, <4>1, <2>3
    <3>2. CASE k = 0
      <4>1. 0 \in 0..n
        OBVIOUS
      <4> QED
        BY <3>2, <4>1, <2>2, <2>3
    <3>3. CASE k \in 1..n
      <4>1. k \in 0..n /\ k - 1 \in 0..n /\ k # 0
        BY <3>3
      <4> QED
        BY <4>1, <2>2, <2>3
    <3> QED
      BY <3>1, <3>2, <3>3
  <2>5. y = [k \in 0..(n + 1) |-> IF k = 0 THEN start ELSE A!RehashParent(y[k - 1])]
    BY <2>3, <2>4
  <2>6. UpsTo(n + 1, i, t, y)
    BY <2>5, <1>0
  <2> QED
    BY <2>6
<1> HIDE DEF Good
<1>3. \A n \in Nat : n \in Good
  BY <1>1, <1>2, NatSetInduction
<1> QED
  BY <1>3 DEF Good

\* Writing a leaf and rehashing its way leaves every inner node the hash of its
\* children and every other leaf as it was.
LEMMA RehashIs ==
    ASSUME TreeSetting, NEW t, DOMAIN t = Nodes, NEW i \in Nodes, i >= A!Offset, t[i] # A!Zero,
           \A j \in Inner : 2 * j # i /\ 2 * j + 1 # i => Consistent(t, j)
    PROVE  /\ DOMAIN A!Rehash(t, i) = Nodes
           /\ \A j \in Nodes : j >= A!Offset => A!Rehash(t, i)[j] = t[j]
           /\ \A j \in Inner : Consistent(A!Rehash(t, i), j)
<1>0. A!Offset \in Nat /\ A!Offset >= 1 /\ i \in Nat /\ i >= 1
  BY OffsetIsNat DEF Nodes
<1>1. A!Rehash(t, i) = (CHOOSE u : UpsTo(i, i, t, u))[i].tree
  BY Zenon DEF A!Rehash, UpsTo
<1>2. PICK u : UpsTo(i, i, t, u) /\ A!Rehash(t, i) = u[i].tree
  BY <1>0, <1>1, UpsExist
<1> DEFINE start == [tree |-> t, at |-> i]
           Good == {k \in Nat : k <= i => UpHolds(k, i, t, u[k])}
<1>3. u[0] = start /\ \A k \in Nat : k + 1 <= i => u[k + 1] = A!RehashParent(u[k])
  <2>1. u = [k \in 0..i |-> IF k = 0 THEN start ELSE A!RehashParent(u[k - 1])]
    BY <1>2 DEF UpsTo
  <2> HIDE DEF start
  <2>2. \A k \in 0..i : u[k] = IF k = 0 THEN start ELSE A!RehashParent(u[k - 1])
    BY <2>1
  <2>3. 0 \in 0..i /\ \A k \in Nat : k + 1 <= i => k + 1 \in 0..i /\ k + 1 # 0 /\ (k + 1) - 1 = k
    BY <1>0
  <2>4. u[0] = start
    BY <2>2, <2>3
  <2>5. ASSUME NEW k \in Nat, k + 1 <= i PROVE u[k + 1] = A!RehashParent(u[k])
    BY <2>2, <2>3, <2>5
  <2> QED
    BY <2>4, <2>5
<1>4. 0 \in Good
  <2>1. start.tree = t /\ start.at = i
    OBVIOUS
  <2> HIDE DEF start
  <2>2. UpHolds(0, i, t, start)
    BY <1>0, <2>1 DEF UpHolds
  <2> QED
    BY <1>3, <2>2
<1>5. ASSUME NEW k \in Nat, k \in Good PROVE k + 1 \in Good
  <2> SUFFICES ASSUME k + 1 <= i PROVE UpHolds(k + 1, i, t, u[k + 1])
    OBVIOUS
  <2>1. UpHolds(k, i, t, u[k])
    BY <1>0, <1>5
  <2>2. UpHolds(k + 1, i, t, A!RehashParent(u[k]))
    BY <1>0, <2>1, RoundKeeps
  <2> QED
    BY <1>3, <2>2
<1> HIDE DEF Good, start
<1>6. \A k \in Nat : k \in Good
  BY <1>4, <1>5, NatSetInduction
<1>7. UpHolds(i, i, t, u[i])
  BY <1>0, <1>6 DEF Good
<1>8. u[i].at = 1
  BY <1>0, <1>7 DEF UpHolds
<1>9. \A j \in Inner : 2 * j # 1 /\ 2 * j + 1 # 1
  BY <1>0 DEF Inner
<1> QED
  BY <1>2, <1>7, <1>8, <1>9 DEF UpHolds

LEMMA TreeStarts == TreeSetting /\ A!Init => TreeInv
<1> SUFFICES ASSUME TreeSetting, A!Init PROVE TreeInv
  OBVIOUS
<1>0. A!Offset \in Nat /\ A!Offset >= 1
  BY OffsetIsNat
<1>1. leaves = << >> /\ tree = [i \in Nodes |-> A!Zero]
  BY DEF A!Init, Nodes
<1>2. leaves \in Seq({<<c>> : c \in Commitment}) /\ Len(leaves) = 0
  BY <1>1
<1>3. \A k \in 0..(A!Offset - 1) : A!Offset + k \in Nodes /\ ~(k < 0)
  BY <1>0 DEF Nodes
<1>4. \A j \in Inner : j \in Nodes /\ 2 * j \in Nodes /\ 2 * j + 1 \in Nodes
  BY <1>0 DEF Inner, Nodes
<1>5. \A j \in Inner : Consistent(tree, j)
  BY <1>1, <1>4 DEF Consistent, A!Joined
<1> QED
  BY <1>1, <1>2, <1>3, <1>5 DEF TreeInv

LEMMA TreeStep == TreeSetting /\ TreeInv /\ [A!Next]_treeVars => TreeInv'
<1> SUFFICES ASSUME TreeSetting, TreeInv, [A!Next]_treeVars PROVE TreeInv'
  OBVIOUS
<1>0. A!Offset \in Nat /\ A!Offset >= 1
  BY OffsetIsNat
<1>1. CASE UNCHANGED treeVars
  BY <1>1 DEF treeVars, TreeInv, A!Fits
<1>2. CASE A!Add
  <2> DEFINE K == {<<c>> : c \in Commitment}
             n == Len(leaves)
             i == A!Offset + n
  <2>1. PICK c \in Commitment :
           leaves' = Append(leaves, <<c>>) /\ tree' = A!Rehash(A!Put(tree, i, <<c>>), i)
    BY <1>2 DEF A!Add
  <2>2. leaves \in Seq(K) /\ <<c>> \in K
    BY DEF TreeInv
  <2> HIDE DEF K
  <2>3. /\ leaves' \in Seq(K) /\ n \in Nat /\ Len(leaves') = n + 1 /\ leaves'[n + 1] = <<c>>
        /\ \A j \in 1..n : leaves'[j] = leaves[j]
    BY <2>1, <2>2
  <2>4. ASSUME A!Fits'
        PROVE  /\ DOMAIN tree' = Nodes
               /\ \A k \in 0..(A!Offset - 1) :
                     tree'[A!Offset + k] = IF k < Len(leaves') THEN leaves'[k + 1] ELSE A!Zero
               /\ \A j \in Inner : Consistent(tree', j)
    <3> DEFINE t == A!Put(tree, i, <<c>>)
    <3>1. n + 1 <= A!Offset
      BY <2>3, <2>4 DEF A!Fits
    <3>2. A!Fits
      BY <1>0, <2>3, <3>1 DEF A!Fits
    <3>3. /\ DOMAIN tree = Nodes
          /\ \A k \in 0..(A!Offset - 1) : tree[A!Offset + k] = IF k < n THEN leaves[k + 1] ELSE A!Zero
          /\ \A j \in Inner : Consistent(tree, j)
      BY <3>2 DEF TreeInv
    <3>4. i \in Nodes /\ i >= A!Offset
      BY <1>0, <2>3, <3>1 DEF Nodes
    <3> HIDE DEF i
    <3>5. DOMAIN t = Nodes /\ t[i] = <<c>> /\ \A j \in Nodes : j # i => t[j] = tree[j]
      BY <3>3, <3>4, PutIs
    <3>6. <<c>> # A!Zero
      BY DEF A!Zero
    <3> HIDE DEF t
    <3>7. ASSUME NEW j \in Inner, 2 * j # i, 2 * j + 1 # i PROVE Consistent(t, j)
      <4>1. j \in Nodes /\ 2 * j \in Nodes /\ 2 * j + 1 \in Nodes /\ j # i
        BY <1>0, <3>4 DEF Inner, Nodes
      <4>2. t[j] = tree[j] /\ t[2 * j] = tree[2 * j] /\ t[2 * j + 1] = tree[2 * j + 1]
        BY <3>5, <3>7, <4>1
      <4> QED
        BY <3>3, <4>2 DEF Consistent
    <3>8. tree' = A!Rehash(t, i)
      BY <2>1 DEF t
    <3>9. /\ DOMAIN tree' = Nodes
          /\ \A j \in Nodes : j >= A!Offset => tree'[j] = t[j]
          /\ \A j \in Inner : Consistent(A!Rehash(t, i), j)
      BY <3>4, <3>5, <3>6, <3>7, <3>8, RehashIs
    <3>10. \A j \in Inner : Consistent(tree', j)
      BY <3>8, <3>9
    <3>11. ASSUME NEW k \in 0..(A!Offset - 1)
           PROVE  tree'[A!Offset + k] = IF k < Len(leaves') THEN leaves'[k + 1] ELSE A!Zero
      <4>1. A!Offset + k \in Nodes /\ A!Offset + k >= A!Offset
        BY <1>0 DEF Nodes
      <4>2. tree'[A!Offset + k] = t[A!Offset + k]
        BY <3>9, <4>1
      <4>3. CASE k = n
        <5>1. A!Offset + k = i /\ k < Len(leaves')
          BY <2>3, <4>3 DEF i
        <5> QED
          BY <2>3, <3>5, <4>2, <4>3, <5>1
      <4>4. CASE k # n
        <5>1. A!Offset + k # i /\ (k < Len(leaves') <=> k < n)
          BY <1>0, <2>3, <4>4 DEF i
        <5>2. t[A!Offset + k] = IF k < n THEN leaves[k + 1] ELSE A!Zero
          BY <3>3, <3>5, <4>1, <5>1
        <5>3. k < n => leaves'[k + 1] = leaves[k + 1]
          BY <1>0, <2>3
        <5> QED
          BY <4>2, <5>1, <5>2, <5>3
      <4> QED
        BY <4>3, <4>4
    <3> QED
      BY <3>9, <3>10, <3>11
  <2> QED
    BY <2>3, <2>4 DEF TreeInv, K
<1> QED
  BY <1>1, <1>2 DEF A!Next

\* The levels of the reference tree, from the leaves up
HashesTo(N, s, f) ==
    f = [d \in 0..N |-> [k \in Nat |-> IF d = 0 THEN IF k < Len(s) THEN s[k + 1] ELSE A!Zero
                                       ELSE A!Joined(f[d - 1][2 * k], f[d - 1][2 * k + 1])]]

LEMMA HashesExist == ASSUME NEW s PROVE \A n \in Nat : \E f : HashesTo(n, s, f)
<1> DEFINE Leaf == [k \in Nat |-> IF k < Len(s) THEN s[k + 1] ELSE A!Zero]
           Above(g) == [k \in Nat |-> A!Joined(g[2 * k], g[2 * k + 1])]
           Good == {n \in Nat : \E f : HashesTo(n, s, f)}
<1>0. \A n \in Nat : \A f : HashesTo(n, s, f) <=> f = [d \in 0..n |-> IF d = 0 THEN Leaf ELSE Above(f[d - 1])]
  <2> TAKE n \in Nat
  <2> TAKE f
  <2>1. \A d \in 0..n :
          [k \in Nat |-> IF d = 0 THEN IF k < Len(s) THEN s[k + 1] ELSE A!Zero
                         ELSE A!Joined(f[d - 1][2 * k], f[d - 1][2 * k + 1])]
          = IF d = 0 THEN Leaf ELSE Above(f[d - 1])
    OBVIOUS
  <2>2. [d \in 0..n |-> [k \in Nat |-> IF d = 0 THEN IF k < Len(s) THEN s[k + 1] ELSE A!Zero
                                       ELSE A!Joined(f[d - 1][2 * k], f[d - 1][2 * k + 1])]]
        = [d \in 0..n |-> IF d = 0 THEN Leaf ELSE Above(f[d - 1])]
    BY <2>1
  <2> QED
    BY <2>2 DEF HashesTo
<1> HIDE DEF Leaf, Above
<1>1. 0 \in Good
  <2> DEFINE y == [d \in 0..0 |-> Leaf]
  <2>1. y = [d \in 0..0 |-> IF d = 0 THEN Leaf ELSE Above(y[d - 1])]
    OBVIOUS
  <2> HIDE DEF y
  <2>2. HashesTo(0, s, y)
    BY <2>1, <1>0
  <2> QED
    BY <2>2
<1>2. ASSUME NEW n \in Nat, n \in Good PROVE n + 1 \in Good
  <2>1. PICK f : HashesTo(n, s, f)
    BY <1>2
  <2> DEFINE x == Above(f[n])
             y == [d \in 0..(n + 1) |-> IF d = n + 1 THEN x ELSE f[d]]
  <2>2. f = [d \in 0..n |-> IF d = 0 THEN Leaf ELSE Above(f[d - 1])]
    BY <2>1, <1>0
  <2>3. y = [d \in 0..(n + 1) |-> y[d]] /\ (\A d \in 0..n : y[d] = f[d]) /\ y[n + 1] = x /\ y[n] = f[n]
    OBVIOUS
  <2> HIDE DEF y
  <2>4. \A d \in 0..(n + 1) : y[d] = IF d = 0 THEN Leaf ELSE Above(y[d - 1])
    <3> TAKE d \in 0..(n + 1)
    <3>1. CASE d = n + 1
      <4>1. d # 0 /\ d - 1 = n
        BY <3>1
      <4> QED
        BY <3>1, <4>1, <2>3
    <3>2. CASE d = 0
      <4>1. 0 \in 0..n /\ 0 \in 0..(n + 1)
        OBVIOUS
      <4> QED
        BY <3>2, <4>1, <2>2, <2>3
    <3>3. CASE d \in 1..n
      <4>1. d \in 0..n /\ d - 1 \in 0..n /\ d # 0
        BY <3>3
      <4> QED
        BY <4>1, <2>2, <2>3
    <3> QED
      BY <3>1, <3>2, <3>3
  <2>5. y = [d \in 0..(n + 1) |-> IF d = 0 THEN Leaf ELSE Above(y[d - 1])]
    BY <2>3, <2>4
  <2>6. HashesTo(n + 1, s, y)
    BY <2>5, <1>0
  <2> QED
    BY <2>6
<1> HIDE DEF Good
<1>3. \A n \in Nat : n \in Good
  BY <1>1, <1>2, NatSetInduction
<1> QED
  BY <1>3 DEF Good

AreHashes(N, s, f) ==
    /\ \A k \in Nat : f[0][k] = IF k < Len(s) THEN s[k + 1] ELSE A!Zero
    /\ \A d \in Nat : d + 1 <= N => \A k \in Nat : f[d + 1][k] = A!Joined(f[d][2 * k], f[d][2 * k + 1])

LEMMA HashesAre == ASSUME NEW N \in Nat, NEW s, NEW f, HashesTo(N, s, f) PROVE AreHashes(N, s, f)
<1> DEFINE Row(d) == [k \in Nat |-> IF d = 0 THEN IF k < Len(s) THEN s[k + 1] ELSE A!Zero
                                    ELSE A!Joined(f[d - 1][2 * k], f[d - 1][2 * k + 1])]
<1>1. f = [d \in 0..N |-> Row(d)]
  BY DEF HashesTo
<1> HIDE DEF Row
<1>2. \A d \in 0..N : f[d] = Row(d)
  BY <1>1
<1>3. \A k \in Nat : Row(0)[k] = IF k < Len(s) THEN s[k + 1] ELSE A!Zero
  BY DEF Row
<1>4. ASSUME NEW d \in Nat, d + 1 <= N, NEW k \in Nat PROVE Row(d + 1)[k] = A!Joined(f[d][2 * k], f[d][2 * k + 1])
  <2>1. d + 1 # 0 /\ (d + 1) - 1 = d
    OBVIOUS
  <2> QED
    BY <2>1 DEF Row
<1>5. 0 \in 0..N /\ \A d \in Nat : d + 1 <= N => d + 1 \in 0..N
  OBVIOUS
<1> QED
  BY <1>2, <1>3, <1>4, <1>5 DEF AreHashes

\* Level d of the reference is level TreeDepth - d of the array.
LEMMA LevelsAgree ==
    ASSUME TreeSetting, TreeInv, A!Fits, NEW size, TreeSizes(size), NEW f, HashesTo(TreeDepth, leaves, f)
    PROVE  tree[1] = f[TreeDepth][0]
<1> DEFINE T == TreeDepth
           Good == {d \in Nat : d <= T => \A k \in Nat : k < size[T - d] => tree[size[T - d] + k] = f[d][k]}
<1>0. T \in Nat /\ A!Offset \in Nat /\ A!Offset >= 1
  BY OffsetIsNat DEF TreeSetting
<1>1. AreHashes(T, leaves, f)
  BY <1>0, HashesAre
<1>2. /\ size \in [0..T -> Nat \ {0}] /\ size[0] = 1 /\ size[T] = A!Offset
      /\ \A i \in 1..T : size[i] = 2 * size[i - 1]
  BY DEF TreeSizes
<1>3. /\ \A k \in 0..(A!Offset - 1) : tree[A!Offset + k] = IF k < Len(leaves) THEN leaves[k + 1] ELSE A!Zero
      /\ \A j \in Inner : Consistent(tree, j)
  BY DEF TreeInv
<1>4. 0 \in Good
  <2> SUFFICES ASSUME NEW k \in Nat, k < size[T - 0] PROVE tree[size[T - 0] + k] = f[0][k]
    OBVIOUS
  <2>1. T - 0 = T /\ k \in 0..(A!Offset - 1)
    BY <1>0, <1>2
  <2> QED
    BY <1>1, <1>2, <1>3, <2>1 DEF AreHashes
<1>5. \A d \in Nat : d + 1 <= T =>
         /\ size[T - (d + 1)] \in Nat /\ size[T - (d + 1)] >= 1 /\ size[T - d] = 2 * size[T - (d + 1)]
  <2> TAKE d \in Nat
  <2> HAVE d + 1 <= T
  <2>1. T - d \in 1..T /\ (T - d) - 1 = T - (d + 1) /\ T - (d + 1) \in 0..T
    BY <1>0
  <2> QED
    BY <1>2, <2>1
<1>6. \A i \in 0..T : size[i] \in Nat /\ size[i] <= A!Offset
  <2> DEFINE Ok == {d \in Nat : d <= T => size[T - d] \in Nat /\ size[T - d] <= A!Offset}
  <2>1. 0 \in Ok
    BY <1>0, <1>2
  <2>2. ASSUME NEW d \in Nat, d \in Ok PROVE d + 1 \in Ok
    <3> SUFFICES ASSUME d + 1 <= T PROVE size[T - (d + 1)] \in Nat /\ size[T - (d + 1)] <= A!Offset
      OBVIOUS
    <3>1. size[T - d] \in Nat /\ size[T - d] <= A!Offset
      BY <1>0, <2>2
    <3> QED
      BY <1>0, <1>5, <3>1
  <2> HIDE DEF Ok
  <2>3. \A d \in Nat : d \in Ok
    BY <2>1, <2>2, NatSetInduction
  <2> TAKE i \in 0..T
  <2>4. T - i \in Nat /\ T - i <= T /\ T - (T - i) = i
    BY <1>0
  <2> QED
    BY <2>3, <2>4 DEF Ok
<1>7. ASSUME NEW d \in Nat, d \in Good PROVE d + 1 \in Good
  <2> SUFFICES ASSUME d + 1 <= T, NEW k \in Nat, k < size[T - (d + 1)]
               PROVE  tree[size[T - (d + 1)] + k] = f[d + 1][k]
    OBVIOUS
  <2> DEFINE z == size[T - (d + 1)]
             j == z + k
  <2>1. z \in Nat /\ z >= 1 /\ size[T - d] = 2 * z
    BY <1>5
  <2>2. T - d \in 0..T
    BY <1>0
  <2>3. 2 * z <= A!Offset
    BY <1>6, <2>1, <2>2
  <2> HIDE DEF z
  <2>4. k < z
    BY DEF z
  <2>5. j \in Inner /\ 2 * j = 2 * z + 2 * k /\ 2 * j + 1 = 2 * z + (2 * k + 1)
        /\ 2 * k \in Nat /\ 2 * k + 1 \in Nat /\ 2 * k < 2 * z /\ 2 * k + 1 < 2 * z
    BY <1>0, <2>1, <2>3, <2>4 DEF Inner
  <2>6. tree[2 * z + 2 * k] = f[d][2 * k] /\ tree[2 * z + (2 * k + 1)] = f[d][2 * k + 1]
    BY <1>0, <1>7, <2>1, <2>5
  <2>7. tree[j] = A!Joined(tree[2 * j], tree[2 * j + 1])
    BY <1>3, <2>5 DEF Consistent
  <2>8. f[d + 1][k] = A!Joined(f[d][2 * k], f[d][2 * k + 1])
    BY <1>1 DEF AreHashes
  <2>9. tree[j] = f[d + 1][k]
    BY <2>5, <2>6, <2>7, <2>8
  <2> QED
    BY <2>9 DEF z
<1> HIDE DEF Good
<1>8. \A d \in Nat : d \in Good
  BY <1>4, <1>7, NatSetInduction
<1>9. T \in Nat /\ T <= T /\ T - T = 0
  BY <1>0
<1>10. \A k \in Nat : k < size[T - T] => tree[size[T - T] + k] = f[T][k]
  BY <1>8, <1>9 DEF Good
<1> QED
  BY <1>2, <1>9, <1>10

LEMMA RootProved == TreeSetting /\ TreeInv => A!RootIsMerkleRoot
<1> SUFFICES ASSUME TreeSetting, TreeInv PROVE A!RootIsMerkleRoot
  OBVIOUS
<1>1. A!RootIsMerkleRoot <=> (A!Fits => A!Root = (CHOOSE f : HashesTo(TreeDepth, leaves, f))[TreeDepth][0])
  BY Zenon DEF A!RootIsMerkleRoot, HashesTo
<1>2. PICK f : HashesTo(TreeDepth, leaves, f) /\ (A!RootIsMerkleRoot <=> (A!Fits => A!Root = f[TreeDepth][0]))
  BY <1>1, HashesExist DEF TreeSetting
<1>3. PICK size : TreeSizes(size)
  BY DEF TreeSetting
<1>4. ASSUME A!Fits PROVE A!Root = f[TreeDepth][0]
  <2>1. tree[1] = f[TreeDepth][0]
    BY <1>2, <1>3, <1>4, LevelsAgree
  <2>2. A!Root = tree[1]
    <3>1. 1 \in Nodes
      BY OffsetIsNat DEF Nodes
    <3> QED
      BY <1>4, <3>1 DEF A!Root, A!NodeAt, TreeInv
  <2> QED
    BY <2>1, <2>2
<1> QED
  BY <1>2, <1>4

ClimbsTo(N, p, c) ==
    c = [k \in 0..N |-> IF k = 0 THEN p.leaf
                        ELSE IF p.right[k] THEN <<p.path[k], c[k - 1]>> ELSE <<c[k - 1], p.path[k]>>]

LEMMA ClimbsExist == ASSUME NEW p PROVE \A n \in Nat : \E c : ClimbsTo(n, p, c)
<1> DEFINE Up(k, x) == IF p.right[k] THEN <<p.path[k], x>> ELSE <<x, p.path[k]>>
           Good == {n \in Nat : \E c : ClimbsTo(n, p, c)}
<1>0. \A n, c : ClimbsTo(n, p, c) <=> c = [k \in 0..n |-> IF k = 0 THEN p.leaf ELSE Up(k, c[k - 1])]
  BY DEF ClimbsTo
<1> HIDE DEF Up
<1>1. 0 \in Good
  <2> DEFINE y == [k \in 0..0 |-> p.leaf]
  <2>1. y = [k \in 0..0 |-> IF k = 0 THEN p.leaf ELSE Up(k, y[k - 1])]
    OBVIOUS
  <2> HIDE DEF y
  <2>2. ClimbsTo(0, p, y)
    BY <2>1, <1>0
  <2> QED
    BY <2>2
<1>2. ASSUME NEW n \in Nat, n \in Good PROVE n + 1 \in Good
  <2>1. PICK c : ClimbsTo(n, p, c)
    BY <1>2
  <2> DEFINE x == Up(n + 1, c[n])
             y == [k \in 0..(n + 1) |-> IF k = n + 1 THEN x ELSE c[k]]
  <2>2. c = [k \in 0..n |-> IF k = 0 THEN p.leaf ELSE Up(k, c[k - 1])]
    BY <2>1, <1>0
  <2>3. y = [k \in 0..(n + 1) |-> y[k]] /\ (\A k \in 0..n : y[k] = c[k]) /\ y[n + 1] = x /\ y[n] = c[n]
    OBVIOUS
  <2> HIDE DEF y
  <2>4. \A k \in 0..(n + 1) : y[k] = IF k = 0 THEN p.leaf ELSE Up(k, y[k - 1])
    <3> TAKE k \in 0..(n + 1)
    <3>1. CASE k = n + 1
      <4>1. k # 0 /\ k - 1 = n
        BY <3>1
      <4> QED
        BY <3>1, <4>1, <2>3
    <3>2. CASE k = 0
      <4>1. 0 \in 0..n /\ 0 \in 0..(n + 1)
        OBVIOUS
      <4> QED
        BY <3>2, <4>1, <2>2, <2>3
    <3>3. CASE k \in 1..n
      <4>1. k \in 0..n /\ k - 1 \in 0..n /\ k # 0
        BY <3>3
      <4> QED
        BY <4>1, <2>2, <2>3
    <3> QED
      BY <3>1, <3>2, <3>3
  <2>5. y = [k \in 0..(n + 1) |-> IF k = 0 THEN p.leaf ELSE Up(k, y[k - 1])]
    BY <2>3, <2>4
  <2>6. ClimbsTo(n + 1, p, y)
    BY <2>5, <1>0
  <2> QED
    BY <2>6
<1> HIDE DEF Good
<1>3. \A n \in Nat : n \in Good
  BY <1>1, <1>2, NatSetInduction
<1> QED
  BY <1>3 DEF Good

\* The way from a leaf to the root: k levels up it is among the nodes of the
\* level, which are size[TreeDepth - k] and the following.
LEMMA WayUp ==
    ASSUME TreeSetting, NEW size, TreeSizes(size), NEW x \in Nat, A!Offset <= x, x < 2 * A!Offset,
           NEW h \in [0..TreeDepth -> Nat], HalvesTo(TreeDepth, x, h)
    PROVE  /\ \A k \in Nat : k + 1 <= TreeDepth => h[k] \in Nat /\ h[k] >= 2 /\ h[k + 1] = h[k] \div 2
           /\ \A k \in 0..TreeDepth : h[k] \in Nodes
           /\ h[0] = x /\ h[TreeDepth] = 1
<1> DEFINE T == TreeDepth
           Good == {k \in Nat : k <= T => size[T - k] <= h[k] /\ h[k] < 2 * size[T - k] /\ h[k] <= x}
<1>0. T \in Nat /\ A!Offset \in Nat /\ A!Offset >= 1
  BY OffsetIsNat DEF TreeSetting
<1>1. AreHalves(T, x, h)
  BY <1>0, HalvesAre
<1>2. /\ size \in [0..T -> Nat \ {0}] /\ size[0] = 1 /\ size[T] = A!Offset
      /\ \A i \in 1..T : size[i] = 2 * size[i - 1]
  BY DEF TreeSizes
<1>3. h[0] = x /\ \A k \in Nat : k + 1 <= T => h[k + 1] = h[k] \div 2
  BY <1>1 DEF AreHalves
<1>4. 0 \in Good
  BY <1>0, <1>2, <1>3
<1>5. ASSUME NEW k \in Nat, k \in Good PROVE k + 1 \in Good
  <2> SUFFICES ASSUME k + 1 <= T
               PROVE  size[T - (k + 1)] <= h[k + 1] /\ h[k + 1] < 2 * size[T - (k + 1)] /\ h[k + 1] <= x
    OBVIOUS
  <2> DEFINE z == size[T - (k + 1)]
             a == h[k]
  <2>1. T - k \in 1..T /\ (T - k) - 1 = T - (k + 1) /\ T - (k + 1) \in 0..T /\ k \in 0..T
    BY <1>0
  <2>2. z \in Nat /\ size[T - k] = 2 * z /\ a \in Nat
    BY <1>2, <2>1
  <2>3. 2 * z <= a /\ a < 2 * (2 * z) /\ a <= x
    BY <1>0, <1>5, <2>2
  <2>4. h[k + 1] = a \div 2
    BY <1>3
  <2>5. z <= a \div 2 /\ a \div 2 < 2 * z /\ a \div 2 <= a /\ a \div 2 \in Nat
    <3> HIDE DEF z, a
    <3> QED
      BY ONLY <2>2, <2>3
  <2> HIDE DEF z, a
  <2> QED
    BY <2>2, <2>3, <2>4, <2>5 DEF z
<1> HIDE DEF Good
<1>6. \A k \in Nat : k \in Good
  BY <1>4, <1>5, NatSetInduction
<1>7. ASSUME NEW k \in Nat, k + 1 <= T PROVE h[k] \in Nat /\ h[k] >= 2 /\ h[k + 1] = h[k] \div 2
  <2>1. T - k \in 1..T /\ (T - k) - 1 \in 0..T /\ k \in 0..T /\ k <= T
    BY <1>0, <1>7
  <2>2. size[(T - k) - 1] \in Nat \ {0} /\ size[T - k] = 2 * size[(T - k) - 1] /\ h[k] \in Nat
    BY <1>2, <2>1
  <2>3. size[T - k] <= h[k]
    BY <1>6, <2>1 DEF Good
  <2> QED
    BY <1>3, <1>7, <2>2, <2>3
<1>8. ASSUME NEW k \in 0..T PROVE h[k] \in Nodes
  <2>1. k \in Nat /\ k <= T /\ h[k] \in Nat
    BY <1>0
  <2>2. h[k] <= x
    BY <1>6, <2>1 DEF Good
  <2> QED
    BY <1>0, <2>1, <2>2 DEF Nodes
<1>9. h[T] = 1
  <2>1. T - T = 0 /\ T <= T /\ h[T] \in Nat
    BY <1>0
  <2>2. size[T - T] <= h[T] /\ h[T] < 2 * size[T - T]
    BY <1>0, <1>6, <2>1 DEF Good
  <2> QED
    BY <1>2, <2>1, <2>2
<1> QED
  BY <1>3, <1>7, <1>8, <1>9

Beside(i) == IF i % 2 = 0 THEN i + 1 ELSE i - 1

\* What Proof(i) holds when h are the nodes on the way up from the leaf
ProofFields(i, h) ==
    /\ A!Proof(i).leaf = leaves[i] /\ A!Proof(i).root = A!Root
    /\ A!Proof(i).path = [k \in 1..TreeDepth |-> A!NodeAt(tree, Beside(h[k - 1]))]
    /\ A!Proof(i).right = [k \in 1..TreeDepth |-> h[k - 1] % 2 = 1]

LEMMA ProofIs ==
    ASSUME NEW i
    PROVE  ProofFields(i, CHOOSE g : HalvesTo(TreeDepth, A!Offset + i - 1, g))
<1> DEFINE H == CHOOSE g : HalvesTo(TreeDepth, A!Offset + i - 1, g)
<1>1. A!Proof(i) = [leaf |-> leaves[i], root |-> A!Root,
                    path |-> [k \in 1..TreeDepth |-> A!NodeAt(tree, Beside(H[k - 1]))],
                    right |-> [k \in 1..TreeDepth |-> H[k - 1] % 2 = 1]]
  BY Zenon DEF A!Proof, HalvesTo, Beside
<1> HIDE DEF H
<1>2. ProofFields(i, H)
  BY <1>1 DEF ProofFields
<1> QED
  BY <1>2 DEF H

LEMMA HalvesTyped ==
    ASSUME NEW N \in Nat, NEW n \in Nat, NEW h, HalvesTo(N, n, h)
    PROVE  h \in [0..N -> Nat]
<1> DEFINE Good == {k \in Nat : k <= N => h[k] \in Nat}
<1>1. h = [i \in 0..N |-> h[i]] /\ \A i \in 0..N : h[i] = IF i = 0 THEN n ELSE h[i - 1] \div 2
  BY DEF HalvesTo
<1>2. 0 \in Good
  <2>1. 0 \in 0..N
    OBVIOUS
  <2> QED
    BY <1>1, <2>1
<1>3. ASSUME NEW k \in Nat, k \in Good PROVE k + 1 \in Good
  <2> SUFFICES ASSUME k + 1 <= N PROVE h[k + 1] \in Nat
    OBVIOUS
  <2>1. k + 1 \in 0..N /\ k + 1 # 0 /\ (k + 1) - 1 = k /\ h[k] \in Nat
    BY <1>3
  <2>2. h[k + 1] = h[k] \div 2
    BY <1>1, <2>1
  <2> QED
    BY <2>1, <2>2
<1> HIDE DEF Good
<1>4. \A k \in Nat : k \in Good
  BY <1>2, <1>3, NatSetInduction
<1>5. \A k \in 0..N : h[k] \in Nat
  BY <1>4 DEF Good
<1> QED
  BY <1>1, <1>5

\* A function on 1..n is a sequence of length n.
LEMMA TableIsSeq ==
    ASSUME NEW n \in Nat, NEW Elem, NEW s \in [1..n -> Elem]
    PROVE  s \in Seq(Elem) /\ Len(s) = n
  OBVIOUS

\* The proof of a leaf climbs the nodes of the array up to the root.
LEMMA ProofVerifies ==
    ASSUME TreeSetting, TreeInv, A!Fits, NEW i \in 1 .. Len(leaves)
    PROVE  A!VerifyProof(A!Proof(i))
<1> DEFINE T == TreeDepth
           x == A!Offset + i - 1
           p == A!Proof(i)
<1>0. T \in Nat /\ A!Offset \in Nat /\ A!Offset >= 1
  BY OffsetIsNat DEF TreeSetting
<1>1. leaves \in Seq({<<c>> : c \in Commitment}) /\ Len(leaves) \in Nat /\ Len(leaves) <= A!Offset
  BY DEF TreeInv, A!Fits
<1>2. x \in Nat /\ A!Offset <= x /\ x < 2 * A!Offset /\ i - 1 \in 0..(A!Offset - 1) /\ x = A!Offset + (i - 1)
      /\ i - 1 < Len(leaves) /\ (i - 1) + 1 = i
  BY <1>0, <1>1
<1>3. /\ DOMAIN tree = Nodes
      /\ \A k \in 0..(A!Offset - 1) : tree[A!Offset + k] = IF k < Len(leaves) THEN leaves[k + 1] ELSE A!Zero
      /\ \A j \in Inner : Consistent(tree, j)
  BY DEF TreeInv
<1> DEFINE h == CHOOSE g : HalvesTo(T, x, g)
<1>4. HalvesTo(T, x, h)
  <2> HIDE DEF x
  <2>1. \E g \in [0..T -> Nat] : HalvesTo(T, x, g)
    BY <1>0, <1>2, HalvesExist
  <2> QED
    BY <2>1
<1>5. /\ p.leaf = leaves[i] /\ p.root = A!Root
      /\ p.path = [k \in 1..T |-> A!NodeAt(tree, Beside(h[k - 1]))]
      /\ p.right = [k \in 1..T |-> h[k - 1] % 2 = 1]
  <2>1. ProofFields(i, h)
    BY Zenon, ProofIs
  <2> HIDE DEF h
  <2> QED
    BY <2>1 DEF ProofFields
<1> HIDE DEF h, p
<1>6. h \in [0..T -> Nat]
  <2> HIDE DEF x
  <2> QED
    BY <1>0, <1>2, <1>4, HalvesTyped
<1>7. /\ \A k \in Nat : k + 1 <= T => h[k] \in Nat /\ h[k] >= 2 /\ h[k + 1] = h[k] \div 2
      /\ \A k \in 0..T : h[k] \in Nodes
      /\ h[0] = x /\ h[T] = 1
  <2>1. PICK size : TreeSizes(size)
    BY DEF TreeSetting
  <2> HIDE DEF x
  <2> QED
    BY <1>2, <1>4, <1>6, <2>1, WayUp
<1>8. Len(p.path) = T
  <2> DEFINE F(k) == A!NodeAt(tree, Beside(h[k - 1]))
  <2>1. p.path = [k \in 1..T |-> F(k)]
    BY <1>5
  <2> HIDE DEF F, T
  <2>2. p.path \in [1..T -> {F(k) : k \in 1..T}]
    BY ONLY <2>1
  <2> QED
    BY ONLY <1>0, <2>2, TableIsSeq
<1>9. PICK c : ClimbsTo(T, p, c) /\ (A!VerifyProof(p) <=> c[T] = p.root)
  <2>1. A!VerifyProof(p) <=> (CHOOSE c : ClimbsTo(Len(p.path), p, c))[Len(p.path)] = p.root
    BY Zenon DEF A!VerifyProof, ClimbsTo
  <2>2. \E c : ClimbsTo(T, p, c)
    BY <1>0, ClimbsExist
  <2> QED
    BY <1>8, <2>1, <2>2
<1>10. /\ c[0] = p.leaf
       /\ \A k \in Nat : k + 1 <= T =>
             c[k + 1] = IF p.right[k + 1] THEN <<p.path[k + 1], c[k]>> ELSE <<c[k], p.path[k + 1]>>
  <2>1. \A k \in 0..T : c[k] = IF k = 0 THEN p.leaf
                               ELSE IF p.right[k] THEN <<p.path[k], c[k - 1]>> ELSE <<c[k - 1], p.path[k]>>
    BY <1>9 DEF ClimbsTo
  <2>2. 0 \in 0..T /\ \A k \in Nat : k + 1 <= T => k + 1 \in 0..T /\ k + 1 # 0 /\ (k + 1) - 1 = k
    BY <1>0
  <2>3. c[0] = p.leaf
    BY <2>1, <2>2
  <2>4. ASSUME NEW k \in Nat, k + 1 <= T
        PROVE  c[k + 1] = IF p.right[k + 1] THEN <<p.path[k + 1], c[k]>> ELSE <<c[k], p.path[k + 1]>>
    BY <2>1, <2>2, <2>4
  <2> QED
    BY <2>3, <2>4
<1> DEFINE Good == {k \in Nat : k <= T => c[k] = tree[h[k]] /\ tree[h[k]] # A!Zero}
<1>11. 0 \in Good
  <2>1. tree[x] = leaves[i]
    BY <1>2, <1>3
  <2>2. leaves[i] \in {<<d>> : d \in Commitment}
    BY <1>1
  <2>3. leaves[i] # A!Zero
    BY <2>2 DEF A!Zero
  <2> QED
    BY <1>5, <1>7, <1>10, <2>1, <2>3
<1>12. ASSUME NEW k \in Nat, k \in Good PROVE k + 1 \in Good
  <2> SUFFICES ASSUME k + 1 <= T PROVE c[k + 1] = tree[h[k + 1]] /\ tree[h[k + 1]] # A!Zero
    OBVIOUS
  <2> DEFINE a == h[k]
             q == a \div 2
  <2>1. c[k] = tree[a] /\ tree[a] # A!Zero
    BY <1>0, <1>12
  <2>2. a \in Nat /\ a >= 2 /\ h[k + 1] = q /\ a \in Nodes
    BY <1>0, <1>7
  <2>4. /\ q \in Nat /\ q \in Inner
        /\ (a % 2 = 0 /\ 2 * q = a) \/ (a % 2 = 1 /\ 2 * q + 1 = a /\ 2 * q = a - 1)
    <3>1. q \in 1..(A!Offset - 1)
      BY <1>0, <2>2, HalfWay DEF Nodes
    <3>2. /\ q \in Nat
          /\ (a % 2 = 0 /\ 2 * q = a) \/ (a % 2 = 1 /\ 2 * q + 1 = a /\ 2 * q = a - 1)
      BY <2>2, EvenOrOdd
    <3> QED
      BY <3>1, <3>2 DEF Inner
  <2> HIDE DEF q, a
  <2>5. tree[q] = A!Joined(tree[2 * q], tree[2 * q + 1])
    BY <1>3, <2>4 DEF Consistent
  <2>6. tree[q] = <<tree[2 * q], tree[2 * q + 1]>>
    BY <2>1, <2>4, <2>5 DEF A!Joined
  <2>7. tree[q] # A!Zero
    BY <2>6 DEF A!Zero
  <2>8. k + 1 \in 1..T /\ (k + 1) - 1 = k
    BY <1>0
  <2>9. p.path[k + 1] = A!NodeAt(tree, Beside(a)) /\ p.right[k + 1] = (a % 2 = 1)
    BY <1>5, <2>8 DEF a
  <2>10. 2 * q \in Nodes /\ 2 * q + 1 \in Nodes
    BY <1>0, <2>4 DEF Inner, Nodes
  <2>11. CASE a % 2 = 0
    <3>1. 2 * q = a /\ Beside(a) = 2 * q + 1 /\ ~(a % 2 = 1)
      BY <2>4, <2>11 DEF Beside
    <3>2. p.path[k + 1] = tree[2 * q + 1] /\ ~p.right[k + 1]
      BY <1>3, <2>9, <2>10, <3>1 DEF A!NodeAt
    <3> QED
      BY <1>10, <2>1, <2>2, <2>6, <2>7, <3>1, <3>2
  <2>12. CASE a % 2 = 1
    <3>1. 2 * q + 1 = a /\ Beside(a) = 2 * q
      BY <2>4, <2>12 DEF Beside
    <3>2. p.path[k + 1] = tree[2 * q] /\ p.right[k + 1]
      BY <1>3, <2>9, <2>10, <2>12, <3>1 DEF A!NodeAt
    <3> QED
      BY <1>10, <2>1, <2>2, <2>6, <2>7, <3>1, <3>2
  <2> QED
    BY <2>4, <2>11, <2>12
<1> HIDE DEF Good
<1>13. \A k \in Nat : k \in Good
  BY <1>11, <1>12, NatSetInduction
<1>14. c[T] = tree[1]
  <2>1. T \in Good
    BY <1>0, <1>13
  <2>2. T <= T => c[T] = tree[h[T]]
    BY <2>1 DEF Good
  <2>3. T <= T
    BY <1>0
  <2> QED
    BY <1>7, <2>2, <2>3
<1>15. A!Root = tree[1]
  <2>1. 1 \in Nodes
    BY <1>0 DEF Nodes
  <2> QED
    BY <1>3, <2>1 DEF A!Root, A!NodeAt
<1>16. A!VerifyProof(p)
  BY <1>5, <1>9, <1>14, <1>15
<1> QED
  BY <1>16 DEF p

\* For a tree of any depth and any number of leaves within its capacity: the
\* root that the updates of update_tree leave is the Merkle root of all leaves,
\* and the proof of every leaf verifies against it, whatever was added since.
THEOREM AccumulatorProved == ASSUME TreeSetting PROVE TreeSpec => []AccumulatorIsTree
<1>1. A!Init => TreeInv
  BY TreeStarts
<1>2. TreeInv /\ [A!Next]_treeVars => TreeInv'
  BY TreeStep
<1>3. TreeInv => AccumulatorIsTree
  <2> SUFFICES ASSUME TreeInv PROVE A!RootIsMerkleRoot /\ A!InclusionHolds
    BY DEF AccumulatorIsTree, A!AccumulatorIsTree
  <2>1. A!RootIsMerkleRoot
    BY RootProved
  <2>2. DOMAIN leaves = 1 .. Len(leaves)
    BY DEF TreeInv
  <2>3. A!InclusionHolds
    BY <2>2, ProofVerifies DEF A!InclusionHolds
  <2> QED
    BY <2>1, <2>3
<1> QED
  BY <1>1, <1>2, <1>3, PTL DEF TreeSpec

-----------------------------------------------------------------------------
(* The validator registry: the total of the current set and the past sets     *)

\* Stakes and amounts fit the width, and a slash takes at most all.
RegistrySetting ==
    /\ Width \in Nat \ {0} /\ Stake \subseteq 0..(Width - 1)
    /\ Percents \subseteq 0..10000 /\ MaxChanges \in Nat

\* The instance of Registry has a copy of SumFunction.
LEMMA RegistrySums == \A f : G!SumFunction(f) = SumFunction(f)
BY DEF G!SumFunction, G!SumFunctionOnSet, G!FoldFunctionOnSet, G!MapThenFoldSet,
       SumFunction, SumFunctionOnSet, FoldFunctionOnSet, MapThenFoldSet

ValidSet(s) ==
    /\ s = [epoch |-> s.epoch, stake |-> s.stake, total |-> s.total, commission |-> s.commission]
    /\ s.epoch \in Nat /\ s.total \in 0..(Width - 1)
    /\ IsFiniteSet(DOMAIN s.stake) /\ s.stake \in [DOMAIN s.stake -> 0..(Width - 1)]

SummedUp(s) == s.total = SumFunction(s.stake)

\* What a change makes of a set
ChangedWell(s, t, c) ==
    ValidSet(t) /\ t.epoch = s.epoch /\ (SummedUp(s) /\ ~G!Skews(s, c) => SummedUp(t))

LEMMA Wraps == ASSUME RegistrySetting, NEW x \in Int
               PROVE  x % Width \in 0..(Width - 1) /\ (x \in 0..(Width - 1) => x % Width = x)
<1> DEFINE q == x \div Width
           r == x % Width
<1>0. Width \in Nat /\ Width > 0
  BY DEF RegistrySetting
<1>1. q \in Int /\ r \in 0..(Width - 1) /\ x = Width * q + r
  BY <1>0, SMT
<1> HIDE DEF q, r
<1>2. ASSUME x \in 0..(Width - 1) PROVE r = x
  <2>1. CASE q >= 1
    <3>1. Width * q >= Width
      BY <1>0, <1>1, <2>1, SMT
    <3> QED
      BY <1>0, <1>1, <1>2, <3>1, SMT
  <2>2. CASE q <= -1
    <3>1. Width * q <= -Width
      BY <1>0, <1>1, <2>2, SMT
    <3> QED
      BY <1>0, <1>1, <1>2, <3>1, SMT
  <2>3. CASE q = 0
    BY <1>0, <1>1, <2>3, SMT
  <2> QED
    BY <1>1, <2>1, <2>2, <2>3
<1> QED
  BY <1>1, <1>2 DEF r

LEMMA SetUpdate ==
    ASSUME NEW s, s = [epoch |-> s.epoch, stake |-> s.stake, total |-> s.total, commission |-> s.commission],
           NEW h, NEW v, NEW k, NEW t,
           \/ t = [s EXCEPT !.stake = h, !.total = v, !.commission = k]
           \/ t = [s EXCEPT !.stake = h, !.total = v] /\ k = s.commission
    PROVE  t = [epoch |-> s.epoch, stake |-> h, total |-> v, commission |-> k]
OBVIOUS

LEMMA StakesSum ==
    ASSUME RegistrySetting, NEW f, IsFiniteSet(DOMAIN f), f \in [DOMAIN f -> 0..(Width - 1)]
    PROVE  /\ f \in [DOMAIN f -> Int] /\ SumFunction(f) \in Nat
           /\ \A x \in DOMAIN f : f[x] \in Nat /\ f[x] <= Width - 1 /\ f[x] <= SumFunction(f)
<1>1. Width \in Nat
  BY DEF RegistrySetting
<1>2. f \in [DOMAIN f -> Nat] /\ f \in [DOMAIN f -> Int] /\ \A x \in DOMAIN f : f[x] \in Nat /\ f[x] <= Width - 1
  BY <1>1
<1> QED
  BY <1>2, SumIsNat

\* A validator joins, for the first time or again.
LEMMA JoinChanges ==
    ASSUME RegistrySetting, NEW s, ValidSet(s), NEW c, c.kind = "join", c.amount \in 0..(Width - 1)
    PROVE  ChangedWell(s, G!AddValidator(s, c.who, c.amount), c)
<1> DEFINE a == c.who
           n == c.amount
           f == s.stake
           h == G!Insert(f, a, n)
           k == G!Insert(s.commission, a, G!NewCommission)
           t == G!AddValidator(s, a, n)
<1>0. /\ Width \in Nat /\ Width > 0 /\ n \in Nat /\ n <= Width - 1 /\ s.total \in Nat /\ s.epoch \in Nat
      /\ IsFiniteSet(DOMAIN f) /\ f \in [DOMAIN f -> 0..(Width - 1)]
      /\ s = [epoch |-> s.epoch, stake |-> s.stake, total |-> s.total, commission |-> s.commission]
  BY DEF RegistrySetting, ValidSet
<1>1. h = [x \in DOMAIN f \cup {a} |-> IF x = a THEN n ELSE f[x]]
  BY DEF G!Insert
<1>2. t = [epoch |-> s.epoch, stake |-> h, total |-> (s.total + n) % Width, commission |-> k]
  <2>1. t = [s EXCEPT !.stake = h, !.total = (s.total + n) % Width, !.commission = k]
    BY Zenon DEF G!AddValidator
  <2> HIDE DEF t, h, n, k
  <2> QED
    BY <1>0, <2>1, SetUpdate
<1>3. /\ t.epoch = s.epoch /\ t.stake = h /\ t.total = (s.total + n) % Width /\ t.commission = k
  BY <1>2
<1> HIDE DEF h, t, f, n, a, k
<1>4. DOMAIN h = DOMAIN f \cup {a} /\ IsFiniteSet(DOMAIN h) /\ h \in [DOMAIN h -> 0..(Width - 1)]
      /\ h[a] = n /\ a \in DOMAIN h /\ \A x \in DOMAIN f : x # a => h[x] = f[x]
  <2>1. DOMAIN h = DOMAIN f \cup {a}
    BY <1>1
  <2>2. IsFiniteSet(DOMAIN f \cup {a})
    BY <1>0, FS_AddElement
  <2>3. n \in 0..(Width - 1)
    BY <1>0
  <2> QED
    BY <1>0, <1>1, <2>1, <2>2, <2>3
<1>5. s.total + n \in Int /\ (s.total + n) % Width \in 0..(Width - 1)
  BY <1>0, Wraps
<1>6. ValidSet(t)
  BY <1>0, <1>2, <1>3, <1>4, <1>5 DEF ValidSet
<1>7. ASSUME SummedUp(s), ~G!Skews(s, c) PROVE SummedUp(t)
  <2>1. s.total + n < Width /\ (a \in DOMAIN f => f[a] = 0)
    BY <1>0, <1>7 DEF G!Skews, a, n, f
  <2>2. t.total = s.total + n
    BY <1>0, <1>3, <2>1, Wraps
  <2>3. SumFunction(f) \in Int /\ SumFunction(h) = SumFunction(f) + n
    <3>1. CASE a \in DOMAIN f
      <4>1. DOMAIN h = DOMAIN f
        BY <1>4, <3>1
      <4>2. f \in [DOMAIN f -> Int] /\ h \in [DOMAIN f -> Int] /\ \A x \in DOMAIN f \ {a} : h[x] = f[x]
        BY <1>0, <1>4, <4>1, StakesSum
      <4>3. SumFunction(f) \in Int /\ SumFunction(h) = SumFunction(f) + h[a] - f[a]
        BY <1>0, <3>1, <4>2, SumChanges
      <4> QED
        BY <1>0, <1>4, <2>1, <3>1, <4>3
    <3>2. CASE a \notin DOMAIN f
      <4> DEFINE g == [x \in DOMAIN h \ {a} |-> h[x]]
      <4>1. h \in [DOMAIN h -> Int]
        BY <1>4, StakesSum
      <4>2. SumFunction(g) \in Int /\ SumFunction(h) = SumFunction(g) + h[a]
        BY <1>4, <4>1, SumExtends
      <4>3. g = f
        <5>1. DOMAIN h \ {a} = DOMAIN f
          BY <1>4, <3>2
        <5> QED
          BY <1>0, <1>4, <3>2, <5>1
      <4> HIDE DEF g
      <4> QED
        BY <1>4, <4>2, <4>3
    <3> QED
      BY <3>1, <3>2
  <2>4. s.total = SumFunction(f)
    BY <1>7 DEF SummedUp, f
  <2> QED
    BY <1>3, <2>2, <2>3, <2>4 DEF SummedUp
<1> QED
  BY <1>3, <1>6, <1>7 DEF ChangedWell, t, a, n

LEMMA LeaveChanges ==
    ASSUME RegistrySetting, NEW s, ValidSet(s), NEW c
    PROVE  ChangedWell(s, G!RemoveValidator(s, c.who), c)
<1> DEFINE a == c.who
           f == s.stake
           h == G!Minus(f, a)
           k == G!Minus(s.commission, a)
           t == G!RemoveValidator(s, a)
<1>0. /\ Width \in Nat /\ Width > 0 /\ s.total \in Nat /\ s.total <= Width - 1 /\ s.epoch \in Nat
      /\ IsFiniteSet(DOMAIN f) /\ f \in [DOMAIN f -> 0..(Width - 1)]
      /\ s = [epoch |-> s.epoch, stake |-> s.stake, total |-> s.total, commission |-> s.commission]
  BY DEF RegistrySetting, ValidSet
<1>1. CASE a \notin DOMAIN f
  <2>1. t = s
    BY <1>1 DEF G!RemoveValidator
  <2> QED
    BY <2>1 DEF ChangedWell
<1>2. CASE a \in DOMAIN f
  <2>1. h = [x \in DOMAIN f \ {a} |-> f[x]]
    BY DEF G!Minus, G!Restrict
  <2>2. t = [epoch |-> s.epoch, stake |-> h, total |-> (s.total - f[a]) % Width, commission |-> k]
    <3>1. t = [s EXCEPT !.stake = h, !.total = (s.total - f[a]) % Width, !.commission = k]
      BY Zenon, <1>2 DEF G!RemoveValidator
    <3> HIDE DEF t, h, k, f
    <3> QED
      BY <1>0, <3>1, SetUpdate
  <2>3. t.epoch = s.epoch /\ t.stake = h /\ t.total = (s.total - f[a]) % Width /\ t.commission = k
    BY <2>2
  <2> HIDE DEF k
  <2>4. /\ f \in [DOMAIN f -> Int] /\ SumFunction(f) \in Nat /\ f[a] \in Nat /\ f[a] <= SumFunction(f)
    BY <1>0, <1>2, StakesSum
  <2>5. SumFunction(h) \in Int /\ SumFunction(f) = SumFunction(h) + f[a]
    <3> HIDE DEF f, h
    <3> QED
      BY <1>0, <1>2, <2>1, <2>4, SumExtends
  <2> HIDE DEF h, t, f
  <2>6. DOMAIN h = DOMAIN f \ {a} /\ h \in [DOMAIN h -> 0..(Width - 1)] /\ IsFiniteSet(DOMAIN h)
    <3>1. DOMAIN h = DOMAIN f \ {a}
      BY <2>1
    <3>2. IsFiniteSet(DOMAIN f \ {a})
      BY <1>0, FS_RemoveElement
    <3> QED
      BY <1>0, <2>1, <3>1, <3>2
  <2>7. (s.total - f[a]) % Width \in 0..(Width - 1)
    BY <1>0, <2>4, Wraps
  <2>8. ValidSet(t)
    BY <1>0, <2>2, <2>3, <2>6, <2>7 DEF ValidSet
  <2>9. ASSUME SummedUp(s) PROVE SummedUp(t)
    <3>1. s.total = SumFunction(f)
      BY <2>9 DEF SummedUp, f
    <3>2. s.total - f[a] \in 0..(Width - 1)
      BY <1>0, <2>4, <3>1
    <3>3. t.total = s.total - f[a]
      BY <2>3, <3>2, Wraps
    <3> QED
      BY <2>3, <2>4, <2>5, <3>1, <3>3 DEF SummedUp
  <2> QED
    BY <2>3, <2>8, <2>9 DEF ChangedWell, t
<1> QED
  BY <1>1, <1>2

\* A member's stake becomes m and the total v.
Restaked(s, a, m, v) == [s EXCEPT !.stake[a] = m, !.total = v]

RestakedWell(s, t, a, m, v) ==
    ValidSet(t) /\ t.epoch = s.epoch /\ (SummedUp(s) /\ v = s.total + m - s.stake[a] => SummedUp(t))

LEMMA StakeChanges ==
    ASSUME RegistrySetting, NEW s, ValidSet(s), NEW a \in DOMAIN s.stake,
           NEW m \in 0..(Width - 1), NEW v \in 0..(Width - 1)
    PROVE  RestakedWell(s, Restaked(s, a, m, v), a, m, v)
<1> DEFINE f == s.stake
           h == [f EXCEPT ![a] = m]
           t == Restaked(s, a, m, v)
<1>0. /\ Width \in Nat /\ s.total \in Nat /\ s.epoch \in Nat /\ m \in Nat
      /\ IsFiniteSet(DOMAIN f) /\ f \in [DOMAIN f -> 0..(Width - 1)]
      /\ s = [epoch |-> s.epoch, stake |-> s.stake, total |-> s.total, commission |-> s.commission]
  BY DEF RegistrySetting, ValidSet
<1>1. t = [epoch |-> s.epoch, stake |-> h, total |-> v, commission |-> s.commission]
  <2>1. t = [s EXCEPT !.stake = h, !.total = v]
    BY Zenon DEF Restaked
  <2> HIDE DEF h, t
  <2> QED
    BY <1>0, <2>1, SetUpdate
<1> HIDE DEF t
<1>2. t.epoch = s.epoch /\ t.stake = h /\ t.total = v
  BY <1>1
<1>3. /\ f \in [DOMAIN f -> Int] /\ SumFunction(f) \in Nat /\ f[a] \in Nat
  BY <1>0, StakesSum
<1>4. /\ DOMAIN h = DOMAIN f /\ h \in [DOMAIN f -> 0..(Width - 1)] /\ h \in [DOMAIN f -> Int] /\ h[a] = m
      /\ \A x \in DOMAIN f \ {a} : h[x] = f[x]
  BY <1>0
<1>5. SumFunction(h) = SumFunction(f) + h[a] - f[a]
  <2> HIDE DEF f, h
  <2> QED
    BY <1>0, <1>3, <1>4, SumChanges DEF f
<1> HIDE DEF h
<1>6. ValidSet(t)
  BY <1>0, <1>1, <1>2, <1>4 DEF ValidSet
<1>7. SummedUp(s) /\ v = s.total + m - s.stake[a] => SummedUp(t)
  BY <1>0, <1>2, <1>3, <1>4, <1>5 DEF SummedUp
<1> QED
  BY <1>2, <1>6, <1>7 DEF RestakedWell, t

LEMMA ChangeKinds ==
    ASSUME NEW c \in G!Change
    PROVE  \/ c.kind = "leave"
           \/ c.kind = "commission"
           \/ c.kind \in {"join", "increase", "decrease"} /\ c.amount \in Stake
BY DEF G!Change

LEMMA ChangeApplies ==
    ASSUME RegistrySetting, NEW s, ValidSet(s), NEW c \in G!Change
    PROVE  ChangedWell(s, G!ApplyChange(s, c), c)
<1>0. /\ Width \in Nat /\ Width > 0 /\ s.total \in Nat /\ s.total <= Width - 1
      /\ IsFiniteSet(DOMAIN s.stake) /\ s.stake \in [DOMAIN s.stake -> 0..(Width - 1)]
      /\ c.kind \notin {"leave", "commission"} => c.amount \in 0..(Width - 1) /\ c.amount \in Nat
  BY ChangeKinds DEF RegistrySetting, ValidSet
<1>1. CASE c.kind = "join"
  <2>1. G!ApplyChange(s, c) = G!AddValidator(s, c.who, c.amount)
    BY <1>1 DEF G!ApplyChange
  <2> QED
    BY <1>0, <1>1, <2>1, JoinChanges
<1>2. CASE c.kind = "leave"
  <2>1. G!ApplyChange(s, c) = G!RemoveValidator(s, c.who)
    BY <1>2 DEF G!ApplyChange
  <2> QED
    BY <2>1, LeaveChanges
<1>3. CASE c.kind \in {"increase", "decrease", "commission"} /\ c.who \notin DOMAIN s.stake
  <2>1. G!ApplyChange(s, c) = s
    BY <1>3 DEF G!ApplyChange
  <2> QED
    BY <2>1 DEF ChangedWell
<1>4. CASE c.kind = "increase" /\ c.who \in DOMAIN s.stake
  <2> DEFINE a == c.who
             m == (s.stake[a] + c.amount) % Width
             v == (s.total + c.amount) % Width
             t == G!ApplyChange(s, c)
  <2>1. t = Restaked(s, a, m, v)
    BY <1>4 DEF G!ApplyChange, Restaked
  <2>2. s.stake[a] \in Nat /\ SumFunction(s.stake) \in Nat /\ s.stake[a] <= SumFunction(s.stake)
    BY <1>0, <1>4, StakesSum
  <2>3. m \in 0..(Width - 1) /\ v \in 0..(Width - 1)
    BY <1>0, <1>4, <2>2, Wraps
  <2>4. ASSUME SummedUp(s), ~G!Skews(s, c) PROVE v = s.total + m - s.stake[a]
    <3>1. s.total + c.amount < Width /\ s.stake[a] <= s.total
      BY <1>0, <1>4, <2>2, <2>4 DEF G!Skews, SummedUp
    <3>2. s.total + c.amount \in 0..(Width - 1) /\ s.stake[a] + c.amount \in 0..(Width - 1)
      BY <1>0, <1>4, <2>2, <3>1
    <3>3. v = s.total + c.amount /\ m = s.stake[a] + c.amount
      BY <3>2, Wraps
    <3> QED
      BY <1>0, <1>4, <2>2, <3>3
  <2> HIDE DEF m, v, t
  <2>5. RestakedWell(s, t, a, m, v)
    BY <1>4, <2>1, <2>3, StakeChanges
  <2> QED
    BY <2>4, <2>5 DEF ChangedWell, RestakedWell, t
<1>5. CASE c.kind = "decrease" /\ c.who \in DOMAIN s.stake
  <2> DEFINE a == c.who
             m == G!SaturatingSub(s.stake[a], c.amount)
             v == G!SaturatingSub(s.total, c.amount)
             t == G!ApplyChange(s, c)
  <2>1. t = Restaked(s, a, m, v)
    BY <1>5 DEF G!ApplyChange, Restaked
  <2>2. /\ s.stake[a] \in Nat /\ SumFunction(s.stake) \in Nat /\ s.stake[a] <= SumFunction(s.stake)
        /\ s.stake[a] <= Width - 1
    BY <1>0, <1>5, StakesSum
  <2>3. m \in 0..(Width - 1) /\ v \in 0..(Width - 1)
    BY <1>0, <1>5, <2>2 DEF G!SaturatingSub
  <2>4. ASSUME SummedUp(s), ~G!Skews(s, c) PROVE v = s.total + m - s.stake[a]
    <3>1. ~(c.amount > s.stake[a]) /\ s.stake[a] <= s.total
      BY <1>5, <2>2, <2>4 DEF G!Skews, SummedUp
    <3>2. v = s.total - c.amount /\ m = s.stake[a] - c.amount
      BY <1>0, <1>5, <2>2, <3>1 DEF G!SaturatingSub
    <3> QED
      BY <1>0, <1>5, <2>2, <3>2
  <2> HIDE DEF m, v, t
  <2>5. RestakedWell(s, t, a, m, v)
    BY <1>5, <2>1, <2>3, StakeChanges
  <2> QED
    BY <2>4, <2>5 DEF ChangedWell, RestakedWell, t
<1>6. CASE c.kind = "commission" /\ c.who \in DOMAIN s.stake
  <2> DEFINE a == c.who
             m == IF c.rate > G!CommissionCap THEN G!CommissionCap ELSE c.rate
             k == [s.commission EXCEPT ![a] = m]
             t == G!ApplyChange(s, c)
  <2>1. t = [s EXCEPT !.commission = k]
    BY Zenon, <1>6 DEF G!ApplyChange
  <2> HIDE DEF t, k
  <2>2. s = [epoch |-> s.epoch, stake |-> s.stake, total |-> s.total, commission |-> s.commission]
    BY DEF ValidSet
  <2>3. t = [epoch |-> s.epoch, stake |-> s.stake, total |-> s.total, commission |-> k]
    BY <2>1, <2>2
  <2>4. t.epoch = s.epoch /\ t.stake = s.stake /\ t.total = s.total /\ t.commission = k
    BY <2>3
  <2>5. ValidSet(t)
    BY <2>3, <2>4 DEF ValidSet
  <2> QED
    BY <2>4, <2>5 DEF ChangedWell, SummedUp, t
<1> QED
  BY <1>1, <1>2, <1>3, <1>4, <1>5, <1>6, ChangeKinds

ChangesTo(N, f) ==
    f = [k \in 0..N |-> IF k = 0 THEN current ELSE G!ApplyChange(f[k - 1], changes[k])]

LEMMA ChangesExist == \A n \in Nat : \E f : ChangesTo(n, f)
<1> DEFINE Good == {n \in Nat : \E f : ChangesTo(n, f)}
<1>1. 0 \in Good
  <2> DEFINE f == [k \in 0..0 |-> current]
  <2>1. ChangesTo(0, f)
    BY DEF ChangesTo
  <2> QED
    BY <2>1
<1>2. ASSUME NEW n \in Nat, n \in Good PROVE n + 1 \in Good
  <2>1. PICK f : ChangesTo(n, f)
    BY <1>2
  <2> DEFINE x == G!ApplyChange(f[n], changes[(n + 1)])
             h == [k \in 0..(n + 1) |-> IF k = n + 1 THEN x ELSE f[k]]
  <2>2. \A k \in 0..n : f[k] = IF k = 0 THEN current ELSE G!ApplyChange(f[k - 1], changes[k])
    BY <2>1 DEF ChangesTo
  <2>3. \A k \in 0..(n + 1) : h[k] = IF k = 0 THEN current ELSE G!ApplyChange(h[k - 1], changes[k])
    <3> TAKE k \in 0..(n + 1)
    <3>1. CASE k = n + 1
      <4>1. h[k] = x /\ h[k - 1] = f[n] /\ k # 0
        BY <3>1
      <4> QED
        BY <3>1, <4>1
    <3>2. CASE k = 0
      <4>1. h[k] = f[0] /\ f[0] = current
        BY <3>2, <2>2
      <4> QED
        BY <3>2, <4>1
    <3>3. CASE k \in 1..n
      <4>1. h[k] = f[k] /\ h[k - 1] = f[k - 1] /\ k \in 0..n /\ k # 0
        BY <3>3
      <4> HIDE DEF h
      <4> QED
        BY <4>1, <2>2
    <3> QED
      BY <3>1, <3>2, <3>3
  <2>4. ChangesTo(n + 1, h)
    <3>1. h = [k \in 0..(n + 1) |-> h[k]]
      OBVIOUS
    <3> HIDE DEF h
    <3> QED
      BY <2>3, <3>1 DEF ChangesTo
  <2> QED
    BY <2>4
<1> HIDE DEF Good
<1>3. \A n \in Nat : n \in Good
  BY <1>1, <1>2, NatSetInduction
<1> QED
  BY <1>3 DEF Good


\* The least element of a set of numbers
LEMMA LeastIn ==
    ASSUME NEW K, K \subseteq Nat, K # {} PROVE G!Min(K) \in K /\ \A k \in K : G!Min(K) <= k
<1>1. \E m \in K : \A k \in K : m <= k
  <2> SUFFICES ASSUME ~\E m \in K : \A k \in K : m <= k PROVE FALSE
    OBVIOUS
  <2> DEFINE Good == {n \in Nat : \A k \in Nat : k <= n => k \notin K}
  <2>1. 0 \in Good
    BY DEF Good
  <2>2. ASSUME NEW n \in Nat, n \in Good PROVE n + 1 \in Good
    <3>1. n + 1 \in K => \A k \in K : n + 1 <= k
      BY <2>2
    <3>2. n + 1 \notin K
      BY <3>1
    <3> QED
      BY <2>2, <3>2
  <2> HIDE DEF Good
  <2>3. \A n \in Nat : n \in Good
    BY <2>1, <2>2, NatSetInduction
  <2>4. \A n \in Nat : n \notin K
    BY <2>3 DEF Good
  <2> QED
    BY <2>4
<1> QED
  BY <1>1 DEF G!Min

RegistryInv ==
    /\ ValidSet(current) /\ (~skewed => SummedUp(current))
    /\ changes \in Seq(G!Change)
    /\ G!HistoryIsComplete

\* The states that the changes lead through
LEMMA ChangesLead ==
    ASSUME RegistrySetting, RegistryInv, NEW f, ChangesTo(Len(changes), f), NEW i \in 0..Len(changes)
    PROVE  /\ ValidSet(f[i]) /\ f[i].epoch = current.epoch
           /\ ~skewed /\ (\A j \in 1..i : ~G!Skews(f[j - 1], changes[j])) => SummedUp(f[i])
<1> DEFINE n == Len(changes)
<1>0. n \in Nat /\ \A k \in 1..n : changes[k] \in G!Change
  BY DEF RegistryInv
<1>1. \A k \in 0..n : f[k] = IF k = 0 THEN current ELSE G!ApplyChange(f[k - 1], changes[k])
  BY DEF ChangesTo
<1> DEFINE Good == {k \in Nat : k <= n =>
                      /\ ValidSet(f[k]) /\ f[k].epoch = current.epoch
                      /\ ~skewed /\ (\A j \in 1..k : ~G!Skews(f[j - 1], changes[j])) => SummedUp(f[k])}
<1> HIDE DEF n
<1>2. 0 \in Good
  <2>1. 0 \in 0..n
    BY <1>0
  <2>2. f[0] = current
    BY <1>1, <2>1
  <2> QED
    BY <2>2 DEF RegistryInv
<1>3. ASSUME NEW k \in Nat, k \in Good PROVE k + 1 \in Good
  <2> SUFFICES ASSUME k + 1 <= n
               PROVE  /\ ValidSet(f[k + 1]) /\ f[k + 1].epoch = current.epoch
                      /\ ~skewed /\ (\A j \in 1..(k + 1) : ~G!Skews(f[j - 1], changes[j])) => SummedUp(f[k + 1])
    OBVIOUS
  <2>1. /\ k + 1 \in 0..n /\ k + 1 # 0 /\ (k + 1) - 1 = k /\ k + 1 \in 1..n /\ k + 1 \in 1..(k + 1)
        /\ \A j \in 1..k : j \in 1..(k + 1)
    BY <1>0
  <2>2. /\ ValidSet(f[k]) /\ f[k].epoch = current.epoch
        /\ ~skewed /\ (\A j \in 1..k : ~G!Skews(f[j - 1], changes[j])) => SummedUp(f[k])
    BY <1>0, <1>3
  <2>3. f[k + 1] = G!ApplyChange(f[k], changes[k + 1]) /\ changes[k + 1] \in G!Change
    BY <1>0, <1>1, <2>1
  <2>4. ChangedWell(f[k], f[k + 1], changes[k + 1])
    BY <2>2, <2>3, ChangeApplies
  <2>5. ASSUME ~skewed, \A j \in 1..(k + 1) : ~G!Skews(f[j - 1], changes[j]) PROVE SummedUp(f[k + 1])
    <3>1. SummedUp(f[k])
      BY <2>1, <2>2, <2>5
    <3>2. ~G!Skews(f[k], changes[k + 1])
      BY <2>1, <2>5
    <3> QED
      BY <2>4, <3>1, <3>2 DEF ChangedWell
  <2> QED
    BY <2>2, <2>4, <2>5 DEF ChangedWell
<1> HIDE DEF Good
<1>4. \A k \in Nat : k \in Good
  BY <1>2, <1>3, NatSetInduction
<1> QED
  BY <1>0, <1>4 DEF Good, n

\* What advance_epoch does, with the number of changes that are applied
Advances(f, last) ==
    /\ last \in 0..Len(changes)
    /\ changes' = << >> /\ historical' = G!Insert(historical, current.epoch, current)
    /\ current' = f[last] \/ current' = [f[last] EXCEPT !.epoch = @ + 1]
    /\ skewed' = (skewed \/ \E i \in 1..last : G!Skews(f[i - 1], changes[i]))

LEMMA AdvanceIs ==
    ASSUME RegistryInv, G!AdvanceEpoch
    PROVE  \E f, last : ChangesTo(Len(changes), f) /\ Advances(f, last)
<1> DEFINE n == Len(changes)
           bad == {i \in DOMAIN changes : G!Refused(changes[i])}
           last == IF bad = {} THEN n ELSE G!Min(bad) - 1
           f == CHOOSE g : ChangesTo(n, g)
<1>0. n \in Nat /\ DOMAIN changes = 1..n
  BY DEF RegistryInv
<1>1. ChangesTo(n, f)
  <2>1. \E g : ChangesTo(n, g)
    BY <1>0, ChangesExist
  <2> QED
    BY <2>1
<1>2. last \in 0..n
  <2>1. CASE bad = {}
    BY <1>0, <2>1
  <2>2. CASE bad # {}
    <3>1. bad \subseteq 1..n /\ bad \subseteq Nat
      BY <1>0
    <3> HIDE DEF bad
    <3>2. G!Min(bad) \in 1..n
      BY <2>2, <3>1, LeastIn
    <3> QED
      BY <1>0, <2>2, <3>2
  <2> QED
    BY <2>1, <2>2
<1>3. /\ changes' = << >> /\ historical' = G!Insert(historical, current.epoch, current)
      /\ current' = IF bad = {} THEN [f[last] EXCEPT !.epoch = @ + 1] ELSE f[last]
      /\ skewed' = (skewed \/ \E i \in 1..last : G!Skews(f[i - 1], changes[i]))
  BY Zenon DEF G!AdvanceEpoch, ChangesTo
<1> HIDE DEF last, f, bad
<1>4. Advances(f, last)
  BY <1>2, <1>3 DEF Advances
<1> QED
  BY <1>1, <1>4

LEMMA HistoryGrows ==
    ASSUME NEW e \in Nat, NEW h, h = G!Insert(historical, e, current)
    PROVE  /\ e \in DOMAIN h /\ h[e] = current
           /\ \A i \in DOMAIN historical : i # e => i \in DOMAIN h /\ h[i] = historical[i]
BY DEF G!Insert

LEMMA AdvanceKeeps ==
    ASSUME RegistrySetting, RegistryInv, G!AdvanceEpoch
    PROVE  /\ RegistryInv'
           /\ \A e \in 0..(current.epoch - 1) :
                 e \in DOMAIN historical => e \in DOMAIN historical' /\ historical'[e] = historical[e]
<1>1. PICK f, last : ChangesTo(Len(changes), f) /\ Advances(f, last)
  BY AdvanceIs
<1>2. /\ last \in 0..Len(changes) /\ changes' = << >>
      /\ historical' = G!Insert(historical, current.epoch, current)
      /\ current' = f[last] \/ current' = [f[last] EXCEPT !.epoch = @ + 1]
      /\ skewed' = (skewed \/ \E i \in 1..last : G!Skews(f[i - 1], changes[i]))
  BY <1>1 DEF Advances
<1> DEFINE s == f[last]
<1>3. /\ ValidSet(s) /\ s.epoch = current.epoch
      /\ ~skewed /\ (\A j \in 1..last : ~G!Skews(f[j - 1], changes[j])) => SummedUp(s)
  BY <1>1, <1>2, ChangesLead
<1> HIDE DEF s
<1>4. current.epoch \in Nat
  BY DEF RegistryInv, ValidSet
<1>5. /\ current'.stake = s.stake /\ current'.total = s.total
      /\ current'.epoch = current.epoch \/ current'.epoch = current.epoch + 1
      /\ current' = [epoch |-> current'.epoch, stake |-> current'.stake, total |-> current'.total,
                     commission |-> current'.commission]
  <2>1. s = [epoch |-> s.epoch, stake |-> s.stake, total |-> s.total, commission |-> s.commission]
    BY <1>3 DEF ValidSet
  <2>2. CASE current' = s
    BY <1>3, <2>1, <2>2
  <2>3. CASE current' = [s EXCEPT !.epoch = @ + 1]
    <3>1. current' = [epoch |-> s.epoch + 1, stake |-> s.stake, total |-> s.total, commission |-> s.commission]
      BY <2>1, <2>3
    <3> QED
      BY <1>3, <3>1
  <2> QED
    BY <1>2, <2>2, <2>3 DEF s
<1>6. ValidSet(current)'
  BY <1>3, <1>4, <1>5 DEF ValidSet
<1>7. (~skewed => SummedUp(current))'
  BY <1>2, <1>3, <1>5 DEF SummedUp
<1>8. /\ current.epoch \in DOMAIN historical' /\ historical'[current.epoch] = current
      /\ \A i \in DOMAIN historical : i # current.epoch => i \in DOMAIN historical' /\ historical'[i] = historical[i]
  BY <1>2, <1>4, HistoryGrows
<1>9. G!HistoryIsComplete'
  <2> SUFFICES ASSUME NEW e \in 0..(current'.epoch - 1)
               PROVE  e \in DOMAIN historical' /\ historical'[e].epoch = e
    BY DEF G!HistoryIsComplete
  <2>1. CASE e = current.epoch
    BY <1>8, <2>1
  <2>2. CASE e # current.epoch
    <3>1. e \in 0..(current.epoch - 1)
      BY <1>4, <1>5, <2>2
    <3>2. e \in DOMAIN historical /\ historical[e].epoch = e
      BY <3>1 DEF RegistryInv, G!HistoryIsComplete
    <3> QED
      BY <1>8, <2>2, <3>2
  <2> QED
    BY <2>1, <2>2
<1>10. changes' \in Seq(G!Change)
  BY <1>2
<1>11. \A e \in 0..(current.epoch - 1) :
          e \in DOMAIN historical => e \in DOMAIN historical' /\ historical'[e] = historical[e]
  BY <1>4, <1>8
<1> QED
  BY <1>6, <1>7, <1>9, <1>10, <1>11 DEF RegistryInv

LEMMA SlashKeeps ==
    ASSUME RegistrySetting, RegistryInv, G!Slash PROVE RegistryInv' /\ historical' = historical
<1>1. PICK a \in DOMAIN current.stake, p \in Percents :
         current' = Restaked(current, a, current.stake[a] - G!Penalty(current.stake[a], p),
                             (current.total - G!Penalty(current.stake[a], p)) % Width)
  <2>1. PICK a \in DOMAIN current.stake, p \in Percents :
           current' = G!Slashed(current, a, G!Penalty(current.stake[a], p))
    BY Zenon DEF G!Slash
  <2> QED
    BY Zenon, <2>1 DEF G!Slashed, Restaked
<1> DEFINE x == current.stake[a]
           cut == G!Penalty(x, p)
           v == (current.total - cut) % Width
<1>2. changes' = changes /\ historical' = historical /\ skewed' = skewed
  BY DEF G!Slash
<1>3. /\ Width \in Nat /\ Width > 0 /\ p \in Nat /\ p <= 10000
      /\ ValidSet(current) /\ current.total \in Nat /\ current.total <= Width - 1
      /\ IsFiniteSet(DOMAIN current.stake) /\ current.stake \in [DOMAIN current.stake -> 0..(Width - 1)]
  <2>1. Width \in Nat /\ Width > 0 /\ p \in Nat /\ p <= 10000
    BY SMTT(30) DEF RegistrySetting
  <2>2. ValidSet(current)
    BY DEF RegistryInv
  <2> QED
    BY <2>1, <2>2 DEF ValidSet
<1>4. x \in Nat /\ x <= Width - 1 /\ x <= SumFunction(current.stake) /\ SumFunction(current.stake) \in Nat
  BY <1>3, StakesSum
<1>5. cut \in Nat /\ cut <= x
  <2> DEFINE m == x * p
             r == m % Width
  <2>1. m \in Nat /\ m <= x * 10000
    <3> HIDE DEF x
    <3> QED
      BY <1>3, <1>4, SMT
  <2>2. r \in Nat /\ r <= m
    <3> HIDE DEF m, x
    <3>1. r \in 0..(Width - 1) /\ (m \in 0..(Width - 1) => r = m)
      BY <2>1, Wraps
    <3> QED
      BY <1>3, <2>1, <3>1
  <2> HIDE DEF m, r, x
  <2>3. r \div 10000 \in Nat /\ 10000 * (r \div 10000) <= r
    BY <2>2, Divides
  <2>4. r \div 10000 <= x
    BY <1>4, <2>1, <2>2, <2>3
  <2> QED
    BY <2>3, <2>4 DEF G!Penalty, r, m
<1> HIDE DEF cut
<1>6. current' = Restaked(current, a, x - cut, v)
  BY <1>1 DEF cut
<1>7. x - cut \in 0..(Width - 1) /\ v \in 0..(Width - 1)
  BY <1>3, <1>4, <1>5, Wraps
<1>8. ASSUME SummedUp(current) PROVE v = current.total + (x - cut) - x
  <2>1. current.total - cut \in 0..(Width - 1)
    BY <1>3, <1>4, <1>5, <1>8 DEF SummedUp
  <2>2. v = current.total - cut
    BY <2>1, Wraps
  <2> QED
    BY <1>3, <1>4, <1>5, <2>2
<1>9. ValidSet(current') /\ current'.epoch = current.epoch
      /\ (SummedUp(current) /\ v = current.total + (x - cut) - x => SummedUp(current'))
  <2> DEFINE m == x - cut
  <2> HIDE DEF v, m
  <2>1. RestakedWell(current, Restaked(current, a, m, v), a, m, v)
    BY <1>3, <1>7, StakeChanges DEF m
  <2> QED
    BY <1>6, <2>1 DEF RestakedWell, m
<1>10. G!HistoryIsComplete'
  BY <1>2, <1>9 DEF RegistryInv, G!HistoryIsComplete
<1> QED
  BY <1>2, <1>8, <1>9, <1>10 DEF RegistryInv, ValidSet, SummedUp

LEMMA RegistryStarts == RegistrySetting /\ G!Init => RegistryInv
<1> SUFFICES ASSUME RegistrySetting, G!Init PROVE RegistryInv
  OBVIOUS
<1>1. current = [epoch |-> 0, stake |-> << >>, total |-> 0, commission |-> << >>] /\ changes = << >>
  BY DEF G!Init, G!EmptySet
<1>2. current.epoch = 0 /\ current.stake = << >> /\ current.total = 0 /\ current.commission = << >>
  BY <1>1
<1>3. DOMAIN current.stake = {} /\ IsFiniteSet({})
  BY <1>2, FS_EmptySet
<1>4. SumFunction(current.stake) = 0
  BY <1>3, SumOfZeros
<1>5. ValidSet(current)
  <2>1. current.stake \in [DOMAIN current.stake -> 0..(Width - 1)]
    BY <1>2, <1>3
  <2> QED
    BY <1>1, <1>2, <1>3, <2>1 DEF ValidSet, RegistrySetting
<1>6. G!HistoryIsComplete
  BY <1>2 DEF G!HistoryIsComplete
<1>7. changes \in Seq(G!Change)
  BY <1>1
<1> QED
  BY <1>2, <1>4, <1>5, <1>6, <1>7 DEF RegistryInv, SummedUp

\* What a step leaves of the past
PastStays ==
    \A e \in 0..(current.epoch - 1) :
        e \in DOMAIN historical => e \in DOMAIN historical' /\ historical'[e] = historical[e]

LEMMA RegistryStep ==
    ASSUME RegistrySetting, RegistryInv, [G!Next]_registryVars PROVE RegistryInv' /\ PastStays
<1>1. CASE G!QueueChange
  <2>1. PICK c \in G!Change : changes' = Append(changes, c)
    BY <1>1 DEF G!QueueChange
  <2>2. current' = current /\ historical' = historical /\ skewed' = skewed
    BY <1>1 DEF G!QueueChange
  <2>3. changes' \in Seq(G!Change)
    BY <2>1 DEF RegistryInv
  <2> QED
    BY <2>2, <2>3 DEF RegistryInv, PastStays, ValidSet, SummedUp, G!HistoryIsComplete
<1>2. CASE G!AdvanceEpoch
  BY <1>2, AdvanceKeeps DEF PastStays
<1>3. CASE G!Slash
  BY <1>3, SlashKeeps DEF PastStays
<1>4. CASE UNCHANGED registryVars
  <2>1. current' = current /\ historical' = historical /\ skewed' = skewed /\ changes' = changes
    BY <1>4 DEF registryVars
  <2> QED
    BY <2>1 DEF RegistryInv, PastStays, ValidSet, SummedUp, G!HistoryIsComplete
<1> QED
  BY <1>1, <1>2, <1>3, <1>4 DEF G!Next

\* For any validators, stakes, changes, slashes and width of the total: the
\* total is the sum of the stakes until a change skews it, and every past epoch
\* keeps the set it was recorded with.
THEOREM EpochsProvedRecorded == ASSUME RegistrySetting PROVE RegistrySpec => EpochsAreRecorded
<1>1. G!Init => RegistryInv
  BY RegistryStarts
<1>2. RegistryInv /\ [G!Next]_registryVars => RegistryInv' /\ [PastStays]_registryVars
  BY RegistryStep
<1>3. RegistryInv => G!TotalStakeIsSum /\ G!HistoryIsComplete
  BY RegistrySums DEF RegistryInv, SummedUp, G!TotalStakeIsSum
<1>4. RegistrySpec => [](G!TotalStakeIsSum /\ G!HistoryIsComplete) /\ [][PastStays]_registryVars
  BY <1>1, <1>2, <1>3, PTL DEF RegistrySpec
<1>5. [][PastStays]_registryVars <=> G!HistoryIsFixed
  BY DEF PastStays, registryVars, G!HistoryIsFixed
<1> QED
  BY <1>4, <1>5 DEF EpochsAreRecorded, G!EpochsAreRecorded

-----------------------------------------------------------------------------
(* The staking contract: its list of validators, its sums and its withdrawals *)

StakingSetting ==
    /\ IsFiniteSet(Staker) /\ Value \subseteq Nat /\ Commission \subseteq Nat
    /\ MaxCommission \in Nat \ {0} /\ RewardDivisor \in Nat \ {0} /\ UnbondingPeriod \in Nat

\* The instance of StakingContract has a copy of SumFunction.
LEMMA StakingSums == \A f : S!SumFunction(f) = SumFunction(f)
BY DEF S!SumFunction, S!SumFunctionOnSet, S!FoldFunctionOnSet, S!MapThenFoldSet,
       SumFunction, SumFunctionOnSet, FoldFunctionOnSet, MapThenFoldSet

Member == [stake : Nat, commission : Nat, active : BOOLEAN,
           delegations : [Staker -> Nat], totalDelegated : Nat]
Entry == [amount : Nat, unlock : Nat]

\* What the entry of a validator counts for in the total
HeldBy(m) == IF m.active THEN m.stake + m.totalDelegated ELSE 0
Backed == [a \in Staker |-> HeldBy(members[a])]

\* The list holds the active validators, each in one place.
ListsActive ==
    /\ \A i, j \in 1..Len(validatorSet) : validatorSet[i] = validatorSet[j] => i = j
    /\ \A a \in Staker : members[a].active <=> \E i \in 1..Len(validatorSet) : validatorSet[i] = a

BooksTyped ==
    /\ members \in [Staker -> Member] /\ validatorSet \in Seq(Staker)
    /\ totalStake \in Nat /\ balance \in Nat /\ now \in Nat
    /\ unbondings \in [Staker -> Seq(Entry)]

DelegationsSum == \A a \in Staker : members[a].totalDelegated = SumFunction(members[a].delegations)

BooksInv == BooksTyped /\ ListsActive /\ DelegationsSum /\ totalStake <= SumFunction(Backed)

\* One entry becomes x.
LEMMA OneMember ==
    ASSUME StakingSetting, BooksTyped, DelegationsSum, NEW a \in Staker, NEW x \in Member,
           members' = [members EXCEPT ![a] = x], x.totalDelegated = SumFunction(x.delegations)
    PROVE  /\ members' \in [Staker -> Member] /\ members'[a] = x
           /\ \A b \in Staker \ {a} : members'[b] = members[b]
           /\ DelegationsSum'
           /\ SumFunction(Backed) \in Nat /\ HeldBy(members[a]) \in Nat /\ HeldBy(x) \in Nat
           /\ HeldBy(members[a]) <= SumFunction(Backed)
           /\ SumFunction(Backed') = SumFunction(Backed) + HeldBy(x) - HeldBy(members[a])
<1>1. members \in [Staker -> Member] /\ IsFiniteSet(Staker)
  BY DEF BooksTyped, StakingSetting
<1>2. members' \in [Staker -> Member] /\ members'[a] = x /\ \A b \in Staker \ {a} : members'[b] = members[b]
  BY <1>1
<1>3. DelegationsSum'
  BY <1>2 DEF DelegationsSum
<1>4. \A m \in Member : HeldBy(m) \in Nat
  BY DEF HeldBy, Member
<1>5. Backed \in [Staker -> Nat] /\ Backed' \in [Staker -> Nat]
  <2> HIDE DEF HeldBy
  <2>1. \A b \in Staker : HeldBy(members[b]) \in Nat /\ HeldBy(members'[b]) \in Nat
    BY <1>1, <1>2, <1>4
  <2> QED
    BY <2>1 DEF Backed
<1>6. /\ \A b \in Staker \ {a} : Backed'[b] = Backed[b]
      /\ Backed'[a] = HeldBy(x) /\ Backed[a] = HeldBy(members[a])
  BY <1>2 DEF Backed
<1>7. SumFunction(Backed) \in Nat /\ Backed[a] <= SumFunction(Backed)
  BY <1>1, <1>5, SumIsNat
<1>8. SumFunction(Backed') = SumFunction(Backed) + Backed'[a] - Backed[a]
  <2>1. Backed \in [Staker -> Int] /\ Backed' \in [Staker -> Int]
    BY <1>5
  <2> QED
    BY <1>1, <1>6, <2>1, SumChanges
<1> QED
  BY <1>1, <1>2, <1>3, <1>4, <1>6, <1>7, <1>8

\* The last element takes the place of another.
LEMMA SwapRemoves ==
    ASSUME NEW T, NEW s \in Seq(T), NEW i \in 1..Len(s)
    PROVE  LET t == S!SwapRemove(s, i)
           IN /\ t \in Seq(T) /\ Len(t) = Len(s) - 1
              /\ \A j \in 1..Len(t) : t[j] = IF j = i THEN s[Len(s)] ELSE s[j]
<1> DEFINE n == Len(s)
           r == [s EXCEPT ![i] = s[n]]
<1>1. n \in Nat /\ n >= 1 /\ n - 1 \in Nat /\ s \in [1..n -> T]
  OBVIOUS
<1>2. r \in [1..n -> T] /\ \A j \in 1..n : r[j] = IF j = i THEN s[n] ELSE s[j]
  BY <1>1
<1>3. r \in Seq(T) /\ Len(r) = n
  BY <1>1, <1>2
<1> HIDE DEF r
<1>4. S!SwapRemove(s, i) = SubSeq(r, 1, n - 1)
  <2>1. S!SwapRemove(s, i) = SubSeq(r, 1, Len(r) - 1)
    BY Zenon DEF S!SwapRemove, S!Front, r
  <2> QED
    BY <1>3, <2>1
<1>5. SubSeq(r, 1, n - 1) \in Seq(T) /\ Len(SubSeq(r, 1, n - 1)) = n - 1
      /\ \A j \in 1..(n - 1) : SubSeq(r, 1, n - 1)[j] = r[j]
  BY <1>1, <1>3
<1> QED
  BY <1>2, <1>4, <1>5

LooksTo(N, s, f) ==
    f = [k \in 0..N |-> IF k = 0 THEN <<1, s>> ELSE S!LookAt(f[k - 1][1], f[k - 1][2])]

LEMMA LooksExist == ASSUME NEW s PROVE \A n \in Nat : \E f : LooksTo(n, s, f)
<1> DEFINE Good == {n \in Nat : \E f : LooksTo(n, s, f)}
<1>1. 0 \in Good
  <2> DEFINE f == [k \in 0..0 |-> <<1, s>>]
  <2>1. LooksTo(0, s, f)
    BY DEF LooksTo
  <2> QED
    BY <2>1
<1>2. ASSUME NEW n \in Nat, n \in Good PROVE n + 1 \in Good
  <2>1. PICK f : LooksTo(n, s, f)
    BY <1>2
  <2> DEFINE x == S!LookAt(f[n][1], f[n][2])
             h == [k \in 0..(n + 1) |-> IF k = n + 1 THEN x ELSE f[k]]
  <2>2. \A k \in 0..n : f[k] = IF k = 0 THEN <<1, s>> ELSE S!LookAt(f[k - 1][1], f[k - 1][2])
    BY <2>1 DEF LooksTo
  <2>3. \A k \in 0..(n + 1) : h[k] = IF k = 0 THEN <<1, s>> ELSE S!LookAt(h[k - 1][1], h[k - 1][2])
    <3> TAKE k \in 0..(n + 1)
    <3>1. CASE k = n + 1
      <4>1. h[k] = x /\ h[k - 1] = f[n] /\ k # 0
        BY <3>1
      <4> QED
        BY <3>1, <4>1
    <3>2. CASE k = 0
      <4>1. h[k] = f[0] /\ f[0] = <<1, s>>
        BY <3>2, <2>2
      <4> QED
        BY <3>2, <4>1
    <3>3. CASE k \in 1..n
      <4>1. h[k] = f[k] /\ h[k - 1] = f[k - 1] /\ k \in 0..n /\ k # 0
        BY <3>3
      <4> HIDE DEF h
      <4> QED
        BY <4>1, <2>2
    <3> QED
      BY <3>1, <3>2, <3>3
  <2>4. LooksTo(n + 1, s, h)
    <3>1. h = [k \in 0..(n + 1) |-> h[k]]
      OBVIOUS
    <3> HIDE DEF h
    <3> QED
      BY <2>3, <3>1 DEF LooksTo
  <2> QED
    BY <2>4
<1> HIDE DEF Good
<1>3. \A n \in Nat : n \in Good
  BY <1>1, <1>2, NatSetInduction
<1> QED
  BY <1>3 DEF Good

LEMMA ScanIs ==
    ASSUME NEW T, NEW s \in Seq(T)
    PROVE  \E f : LooksTo(Len(s), s, f) /\ S!Scan(s) = f[Len(s)][2]
<1>1. Len(s) \in Nat
  OBVIOUS
<1>2. \E f : LooksTo(Len(s), s, f)
  BY <1>1, LooksExist
<1>3. S!Scan(s) = (CHOOSE f : LooksTo(Len(s), s, f))[Len(s)][2]
  BY Zenon DEF S!Scan, LooksTo
<1> QED
  BY <1>2, <1>3

\* The instance of StakingContract has a copy of Cardinality.
LEMMA TimesIs == ASSUME NEW e, NEW s PROVE S!Times(e, s) = Cardinality({i \in DOMAIN s : s[i] = e})
BY DEF S!Times, S!Cardinality, Cardinality

LEMMA SwapCounts ==
    ASSUME NEW T, NEW s \in Seq(T), NEW i \in 1..Len(s), NEW e, s[i] # e
    PROVE  S!Times(e, S!SwapRemove(s, i)) = S!Times(e, s)
<1> DEFINE n == Len(s)
           t == S!SwapRemove(s, i)
           X == {j \in DOMAIN s : s[j] = e}
           Y == {j \in DOMAIN t : t[j] = e}
<1>1. /\ t \in Seq(T) /\ Len(t) = n - 1 /\ n \in Nat /\ n >= 1
      /\ \A j \in 1..(n - 1) : t[j] = IF j = i THEN s[n] ELSE s[j]
  BY SwapRemoves
<1> HIDE DEF t
<1>2. DOMAIN s = 1..n /\ DOMAIN t = 1..(n - 1)
  BY <1>1
<1>3. IsFiniteSet(X) /\ IsFiniteSet(X \ {n})
  <2>1. IsFiniteSet(1..n)
    <3> HIDE DEF n
    <3> QED
      BY <1>1, FS_Interval
  <2> QED
    BY <1>2, <2>1, FS_Subset
<1>4. CASE s[n] # e
  <2>1. X = Y
    BY <1>1, <1>2, <1>4
  <2> QED
    BY <2>1, TimesIs DEF t
<1>5. CASE s[n] = e
  <2>1. i # n /\ i \notin X /\ n \in X /\ i \notin X \ {n}
    BY <1>1, <1>2, <1>5
  <2>2. Y = (X \ {n}) \cup {i}
    BY <1>1, <1>2, <1>5, <2>1
  <2>3. Cardinality(X \ {n}) = Cardinality(X) - 1 /\ Cardinality(X) \in Nat
    BY <1>3, <2>1, FS_RemoveElement, FS_CardinalityType
  <2>4. Cardinality((X \ {n}) \cup {i}) = Cardinality(X \ {n}) + 1
    BY <1>3, <2>1, FS_AddElement
  <2>5. Cardinality(Y) = Cardinality(X)
    <3> HIDE DEF X, Y
    <3> QED
      BY <2>2, <2>3, <2>4
  <2> QED
    BY <2>5, TimesIs DEF t
<1> QED
  BY <1>4, <1>5

\* After n looks at the list s the scan is at place i of what is left, r: what
\* it passed is not due, and what is not due is there as often as before.
ScanAt(n, s, i, r) ==
    /\ r \in Seq(Entry) /\ i \in 1..(Len(r) + 1) /\ i + (Len(s) - n) = Len(r) + 1
    /\ \A j \in 1..(i - 1) : ~S!Due(r[j])
    /\ \A e : ~S!Due(e) => S!Times(e, r) = S!Times(e, s)

LEMMA ScanLooks ==
    ASSUME NEW s \in Seq(Entry), NEW n \in Nat, n < Len(s), NEW i, NEW r, ScanAt(n, s, i, r),
           NEW p, p = S!LookAt(i, r)
    PROVE  ScanAt(n + 1, s, p[1], p[2])
<1>1. /\ r \in Seq(Entry) /\ i \in 1..Len(r) /\ Len(r) \in Nat /\ Len(s) \in Nat
      /\ i + (Len(s) - n) = Len(r) + 1 /\ i \in Nat
  BY DEF ScanAt
<1>2. CASE S!Due(r[i])
  <2> DEFINE t == S!SwapRemove(r, i)
  <2>1. p[1] = i /\ p[2] = t
    BY <1>2 DEF S!LookAt
  <2>2. /\ t \in Seq(Entry) /\ Len(t) = Len(r) - 1
        /\ \A j \in 1..Len(t) : t[j] = IF j = i THEN r[Len(r)] ELSE r[j]
    BY <1>1, SwapRemoves
  <2>3. ASSUME NEW e, ~S!Due(e) PROVE S!Times(e, t) = S!Times(e, s)
    <3>1. r[i] # e
      BY <1>2, <2>3
    <3>2. S!Times(e, t) = S!Times(e, r)
      BY <1>1, <3>1, SwapCounts
    <3> QED
      BY <2>3, <3>2 DEF ScanAt
  <2> HIDE DEF t
  <2>4. \A j \in 1..(i - 1) : ~S!Due(t[j])
    <3> SUFFICES ASSUME NEW j \in 1..(i - 1) PROVE ~S!Due(t[j])
      OBVIOUS
    <3>1. t[j] = r[j]
      BY <1>1, <2>2
    <3>2. ~S!Due(r[j])
      BY DEF ScanAt
    <3> QED
      BY <3>1, <3>2
  <2> QED
    BY <1>1, <2>1, <2>2, <2>3, <2>4 DEF ScanAt
<1>3. CASE ~S!Due(r[i])
  <2>1. p[1] = i + 1 /\ p[2] = r
    BY <1>3 DEF S!LookAt
  <2>2. \A j \in 1..i : ~S!Due(r[j])
    BY <1>1, <1>3 DEF ScanAt
  <2>3. \A e : ~S!Due(e) => S!Times(e, r) = S!Times(e, s)
    BY DEF ScanAt
  <2> QED
    BY SMTT(30), <1>1, <2>1, <2>2, <2>3 DEF ScanAt
<1> QED
  BY <1>2, <1>3

\* The scan leaves exactly what is not due, as often as it was there.
LEMMA ScanLeaves ==
    ASSUME NEW s \in Seq(Entry)
    PROVE  /\ S!Scan(s) \in Seq(Entry)
           /\ \A e : S!Times(e, S!Scan(s)) = IF S!Due(e) THEN 0 ELSE S!Times(e, s)
<1> DEFINE N == Len(s)
<1>1. N \in Nat
  OBVIOUS
<1>2. PICK f : LooksTo(N, s, f) /\ S!Scan(s) = f[N][2]
  BY ScanIs
<1>3. \A n \in 0..N : f[n] = IF n = 0 THEN <<1, s>> ELSE S!LookAt(f[n - 1][1], f[n - 1][2])
  BY <1>2 DEF LooksTo
<1> DEFINE Good == {n \in Nat : n <= N => ScanAt(n, s, f[n][1], f[n][2])}
<1>4. 0 \in Good
  <2>1. f[0] = <<1, s>>
    BY <1>1, <1>3
  <2>2. f[0][1] = 1 /\ f[0][2] = s
    BY <2>1
  <2>3. ScanAt(0, s, 1, s)
    BY <1>1 DEF ScanAt
  <2> QED
    BY <2>2, <2>3
<1>5. ASSUME NEW n \in Nat, n \in Good PROVE n + 1 \in Good
  <2> SUFFICES ASSUME n + 1 <= N PROVE ScanAt(n + 1, s, f[n + 1][1], f[n + 1][2])
    OBVIOUS
  <2>1. n < N /\ ScanAt(n, s, f[n][1], f[n][2])
    BY <1>1, <1>5
  <2>2. f[n + 1] = S!LookAt(f[n][1], f[n][2])
    BY <1>1, <1>3
  <2> QED
    BY <2>1, <2>2, ScanLooks
<1>6. N \in Good
  <2> HIDE DEF Good
  <2>1. \A n \in Nat : n \in Good
    BY <1>4, <1>5, NatSetInduction
  <2> QED
    BY <1>1, <2>1
<1> DEFINE r == f[N][2]
<1>7. ScanAt(N, s, f[N][1], r)
  BY <1>1, <1>6
<1>8. r \in Seq(Entry) /\ \A j \in 1..Len(r) : ~S!Due(r[j])
  BY <1>1, <1>7 DEF ScanAt
<1>9. ASSUME NEW e, S!Due(e) PROVE S!Times(e, r) = 0
  <2>1. {j \in DOMAIN r : r[j] = e} = {}
    BY <1>8, <1>9
  <2> QED
    BY <2>1, TimesIs, FS_EmptySet
<1>10. \A e : ~S!Due(e) => S!Times(e, r) = S!Times(e, s)
  BY <1>7 DEF ScanAt
<1> HIDE DEF r
<1> QED
  BY <1>2, <1>8, <1>9, <1>10 DEF r

MemberOf(v, c, b, f, n) == [stake |-> v, commission |-> c, active |-> b, delegations |-> f, totalDelegated |-> n]

LEMMA MemberJoins ==
    ASSUME NEW m \in Member, NEW v, NEW c, NEW b, NEW x,
           x = [m EXCEPT !.stake = v, !.commission = c, !.active = b]
    PROVE  x = MemberOf(v, c, b, m.delegations, m.totalDelegated)
BY DEF Member, MemberOf

LEMMA MemberLeaves ==
    ASSUME NEW m \in Member, NEW b, NEW x, x = [m EXCEPT !.active = b]
    PROVE  x = MemberOf(m.stake, m.commission, b, m.delegations, m.totalDelegated)
BY DEF Member, MemberOf

LEMMA MemberRestakes ==
    ASSUME NEW m \in Member, NEW v, NEW x, x = [m EXCEPT !.stake = v]
    PROVE  x = MemberOf(v, m.commission, m.active, m.delegations, m.totalDelegated)
BY DEF Member, MemberOf

\* A delegation of d changes by v.
LEMMA MemberDelegates ==
    ASSUME StakingSetting, NEW m \in Member, m.totalDelegated = SumFunction(m.delegations),
           NEW d \in Staker, NEW v \in Int, m.delegations[d] + v >= 0
    PROVE  LET x == S!Delegated(m, d, v)
           IN /\ x \in Member /\ x.stake = m.stake /\ x.active = m.active
              /\ x.totalDelegated = m.totalDelegated + v
              /\ x.totalDelegated = SumFunction(x.delegations)
<1> DEFINE f == m.delegations
           h == [f EXCEPT ![d] = f[d] + v]
           w == m.totalDelegated + v
           x == S!Delegated(m, d, v)
<1>1. f \in [Staker -> Nat] /\ m.totalDelegated \in Nat /\ IsFiniteSet(Staker)
      /\ m = [stake |-> m.stake, commission |-> m.commission, active |-> m.active,
              delegations |-> f, totalDelegated |-> m.totalDelegated]
      /\ m.stake \in Nat /\ m.commission \in Nat /\ m.active \in BOOLEAN
  BY DEF Member, StakingSetting
<1>2. h \in [Staker -> Nat] /\ h[d] = f[d] + v /\ \A y \in Staker \ {d} : h[y] = f[y]
  BY <1>1
<1>3. SumFunction(h) = SumFunction(f) + v /\ SumFunction(h) \in Nat
  <2>1. f \in [Staker -> Int] /\ h \in [Staker -> Int]
    BY <1>1, <1>2
  <2>2. SumFunction(h) = SumFunction(f) + h[d] - f[d] /\ SumFunction(f) \in Int
    <3> HIDE DEF f, h
    <3> QED
      BY <1>1, <1>2, <2>1, SumChanges
  <2>3. SumFunction(h) \in Nat
    <3> HIDE DEF h
    <3> QED
      BY <1>1, <1>2, SumIsNat
  <2>4. f[d] \in Nat
    BY <1>1
  <2> QED
    BY <1>2, <2>2, <2>3, <2>4
<1>4. x = [stake |-> m.stake, commission |-> m.commission, active |-> m.active,
           delegations |-> h, totalDelegated |-> w]
  <2>1. x = [m EXCEPT !.delegations = h, !.totalDelegated = w]
    BY Zenon DEF S!Delegated
  <2> HIDE DEF x, h, w
  <2> QED
    BY <1>1, <2>1
<1>5. w = SumFunction(h) /\ w \in Nat
  BY <1>1, <1>3
<1> HIDE DEF x, h, w
<1>6. x \in Member /\ x.stake = m.stake /\ x.active = m.active /\ x.totalDelegated = w /\ x.delegations = h
  BY <1>1, <1>2, <1>4, <1>5 DEF Member
<1> QED
  BY <1>5, <1>6 DEF x, w

LEMMA UnbondKeeps ==
    ASSUME StakingSetting, BooksTyped, NEW a \in Staker, NEW v \in Nat, S!Unbond(a, v)
    PROVE  unbondings' \in [Staker -> Seq(Entry)]
<1>1. now \in Nat /\ UnbondingPeriod \in Nat /\ unbondings \in [Staker -> Seq(Entry)]
  BY DEF BooksTyped, StakingSetting
<1> DEFINE e == [amount |-> v, unlock |-> now + UnbondingPeriod]
<1>2. e \in Entry
  BY <1>1 DEF Entry
<1>3. unbondings' = [unbondings EXCEPT ![a] = Append(unbondings[a], e)]
  BY DEF S!Unbond
<1> HIDE DEF e
<1>4. Append(unbondings[a], e) \in Seq(Entry)
  BY <1>1, <1>2
<1> QED
  BY <1>1, <1>3, <1>4

LEMMA RegisterKeeps == ASSUME StakingSetting, BooksInv, S!RegisterValidator PROVE BooksInv' /\ balance' >= balance
<1>1. PICK a \in Staker, v \in Value, c \in Commission :
         /\ ~members[a].active
         /\ members' = [members EXCEPT ![a] = [members[a] EXCEPT !.stake = v, !.commission = c, !.active = TRUE]]
         /\ validatorSet' = Append(validatorSet, a)
         /\ totalStake' = totalStake + v /\ balance' = balance + v /\ now' = now /\ unbondings' = unbondings
  BY DEF S!RegisterValidator, S!Transaction
<1> DEFINE m == members[a]
           x == [m EXCEPT !.stake = v, !.commission = c, !.active = TRUE]
<1>2. /\ m \in Member /\ v \in Nat /\ c \in Nat /\ a \in Staker /\ BooksTyped /\ DelegationsSum /\ ListsActive
      /\ m.totalDelegated = SumFunction(m.delegations) /\ totalStake \in Nat /\ balance \in Nat
  BY DEF BooksInv, BooksTyped, StakingSetting, DelegationsSum
<1>3. x = MemberOf(v, c, TRUE, m.delegations, m.totalDelegated)
  BY <1>2, MemberJoins
<1>4. members' = [members EXCEPT ![a] = x]
  BY <1>1
<1> HIDE DEF x
<1>5. x \in Member /\ x.active /\ x.stake = v /\ x.totalDelegated = m.totalDelegated
      /\ x.totalDelegated = SumFunction(x.delegations) /\ m.totalDelegated \in Nat
  BY <1>2, <1>3 DEF Member, MemberOf
<1>6. /\ members' \in [Staker -> Member] /\ members'[a] = x
      /\ \A b \in Staker \ {a} : members'[b] = members[b]
      /\ DelegationsSum'
      /\ SumFunction(Backed) \in Nat /\ HeldBy(m) \in Nat /\ HeldBy(x) \in Nat
      /\ SumFunction(Backed') = SumFunction(Backed) + HeldBy(x) - HeldBy(m)
  BY <1>2, <1>4, <1>5, OneMember
<1>7. HeldBy(m) = 0 /\ HeldBy(x) >= v
  BY <1>1, <1>2, <1>5 DEF HeldBy
<1>8. (totalStake <= SumFunction(Backed))'
  BY <1>1, <1>2, <1>6, <1>7 DEF BooksInv
<1>9. ListsActive'
  <2>1. /\ validatorSet \in Seq(Staker) /\ Len(validatorSet') = Len(validatorSet) + 1
        /\ validatorSet'[Len(validatorSet) + 1] = a
        /\ \A i \in 1..Len(validatorSet) : validatorSet'[i] = validatorSet[i]
    BY <1>1, <1>2 DEF BooksTyped
  <2>2. \A i \in 1..Len(validatorSet) : validatorSet[i] # a
    BY <1>1, <1>2 DEF ListsActive
  <2>3. \A i, j \in 1..Len(validatorSet') : validatorSet'[i] = validatorSet'[j] => i = j
    BY <1>2, <2>1, <2>2 DEF ListsActive
  <2>4. \A b \in Staker : members'[b].active <=> \E i \in 1..Len(validatorSet') : validatorSet'[i] = b
    <3> SUFFICES ASSUME NEW b \in Staker
                 PROVE  members'[b].active <=> \E i \in 1..Len(validatorSet') : validatorSet'[i] = b
      OBVIOUS
    <3>1. CASE b = a
      <4>1. Len(validatorSet) + 1 \in 1..Len(validatorSet')
        BY <2>1
      <4> QED
        BY <1>5, <1>6, <2>1, <3>1, <4>1
    <3>2. CASE b # a
      <4>1. members[b].active <=> \E i \in 1..Len(validatorSet) : validatorSet[i] = b
        BY <1>2 DEF ListsActive
      <4>2. (\E i \in 1..Len(validatorSet) : validatorSet[i] = b)
               <=> \E i \in 1..Len(validatorSet') : validatorSet'[i] = b
        BY <2>1, <3>2
      <4> QED
        BY <1>6, <3>2, <4>1, <4>2
    <3> QED
      BY <3>1, <3>2
  <2> QED
    BY <2>3, <2>4 DEF ListsActive
<1>10. BooksTyped'
  BY <1>1, <1>2, <1>6 DEF BooksTyped
<1> QED
  BY <1>1, <1>2, <1>6, <1>8, <1>9, <1>10 DEF BooksInv

\* A validator leaves the list.
LEMMA ListShrinks ==
    ASSUME StakingSetting, BooksInv, NEW a \in Staker, members[a].active,
           NEW i \in 1..Len(validatorSet), validatorSet[i] = a,
           validatorSet' = S!SwapRemove(validatorSet, i),
           ~members'[a].active, \A b \in Staker \ {a} : members'[b] = members[b]
    PROVE  validatorSet' \in Seq(Staker) /\ ListsActive'
<1> DEFINE s == validatorSet
           t == validatorSet'
           n == Len(validatorSet)
<1>1. /\ s \in Seq(Staker) /\ n \in Nat /\ \A j, k \in 1..n : s[j] = s[k] => j = k
      /\ \A b \in Staker : members[b].active <=> \E j \in 1..n : s[j] = b
  BY DEF BooksInv, BooksTyped, ListsActive
<1>2. /\ t \in Seq(Staker) /\ Len(t) = n - 1
      /\ \A j \in 1..(n - 1) : t[j] = IF j = i THEN s[n] ELSE s[j]
  <2> DEFINE u == S!SwapRemove(s, i)
  <2>1. /\ u \in Seq(Staker) /\ Len(u) = n - 1
        /\ \A j \in 1..Len(u) : u[j] = IF j = i THEN s[n] ELSE s[j]
    BY <1>1, SwapRemoves
  <2> HIDE DEF u
  <2>2. t = u
    BY DEF u
  <2> QED
    BY <2>1, <2>2
<1> HIDE DEF s, t, n
<1>3. n >= 1 /\ i \in 1..n /\ s[i] = a
  BY <1>1 DEF n, s
<1>4. \A j, k \in 1..(n - 1) : t[j] = t[k] => j = k
  BY <1>1, <1>2, <1>3
<1>5. \A j \in 1..(n - 1) : t[j] # a
  BY <1>1, <1>2, <1>3
<1>6. ASSUME NEW b \in Staker PROVE members'[b].active <=> \E j \in 1..(n - 1) : t[j] = b
  <2>1. CASE b = a
    BY <1>5, <2>1
  <2>2. CASE b # a
    <3>1. ASSUME NEW j \in 1..n, s[j] = b PROVE \E k \in 1..(n - 1) : t[k] = b
      <4>1. CASE j = n
        <5>1. i \in 1..(n - 1) /\ t[i] = s[n]
          BY <1>1, <1>2, <1>3, <2>2, <3>1, <4>1
        <5> QED
          BY <3>1, <4>1, <5>1
      <4>2. CASE j # n
        <5>1. j \in 1..(n - 1) /\ t[j] = s[j]
          BY <1>1, <1>2, <1>3, <2>2, <3>1, <4>2
        <5> QED
          BY <3>1, <5>1
      <4> QED
        BY <4>1, <4>2
    <3>2. ASSUME NEW k \in 1..(n - 1), t[k] = b PROVE \E j \in 1..n : s[j] = b
      <4>1. k \in 1..n /\ n \in 1..n /\ (t[k] = s[n] \/ t[k] = s[k])
        BY <1>1, <1>2, <1>3
      <4> QED
        BY <3>2, <4>1
    <3>3. members'[b] = members[b]
      BY <2>2
    <3> QED
      BY <1>1, <3>1, <3>2, <3>3
  <2> QED
    BY <2>1, <2>2
<1> QED
  BY <1>2, <1>4, <1>6 DEF ListsActive, t

LEMMA UnregisterKeeps == ASSUME StakingSetting, BooksInv, S!UnregisterValidator PROVE BooksInv' /\ balance' = balance
<1>1. PICK a \in Staker :
         /\ members[a].active /\ totalStake >= S!Backing(a)
         /\ S!Unbond(a, S!Backing(a))
         /\ totalStake' = totalStake - S!Backing(a)
         /\ members' = [members EXCEPT ![a] = [members[a] EXCEPT !.active = FALSE]]
         /\ LET ps == {i \in DOMAIN validatorSet : validatorSet[i] = a}
            IN validatorSet' = IF ps = {} THEN validatorSet
                               ELSE S!SwapRemove(validatorSet, CHOOSE i \in ps : \A j \in ps : i <= j)
         /\ now' = now /\ balance' = balance
  BY Zenon DEF S!UnregisterValidator, S!Transaction
<1> DEFINE m == members[a]
           x == [m EXCEPT !.active = FALSE]
           w == m.stake + m.totalDelegated
<1>2. /\ m \in Member /\ a \in Staker /\ BooksTyped /\ DelegationsSum /\ ListsActive /\ members[a].active
      /\ m.totalDelegated = SumFunction(m.delegations) /\ totalStake \in Nat /\ balance \in Nat /\ now \in Nat
      /\ m.stake \in Nat /\ m.totalDelegated \in Nat /\ m.delegations \in [Staker -> Nat] /\ m.commission \in Nat
      /\ totalStake <= SumFunction(Backed) /\ validatorSet \in Seq(Staker)
  <2>1. m \in Member
    BY DEF BooksInv, BooksTyped
  <2> QED
    BY <1>1, <2>1 DEF BooksInv, BooksTyped, DelegationsSum, Member
<1>3. S!Backing(a) = w /\ w \in Nat
  BY <1>2 DEF S!Backing
<1>4. x = MemberOf(m.stake, m.commission, FALSE, m.delegations, m.totalDelegated)
  BY <1>2, MemberLeaves
<1>5. members' = [members EXCEPT ![a] = x]
  BY <1>1
<1> HIDE DEF x
<1>6. x \in Member /\ ~x.active /\ x.totalDelegated = SumFunction(x.delegations)
  BY <1>2, <1>4 DEF Member, MemberOf
<1>7. /\ members' \in [Staker -> Member] /\ members'[a] = x
      /\ \A b \in Staker \ {a} : members'[b] = members[b]
      /\ DelegationsSum'
      /\ SumFunction(Backed) \in Nat
      /\ SumFunction(Backed') = SumFunction(Backed) + HeldBy(x) - HeldBy(m)
  BY <1>2, <1>5, <1>6, OneMember
<1>8. HeldBy(m) = w /\ HeldBy(x) = 0
  BY <1>2, <1>6 DEF HeldBy
<1>9. (totalStake <= SumFunction(Backed))' /\ totalStake' \in Nat
  <2> HIDE DEF w, m
  <2> QED
    BY <1>1, <1>2, <1>3, <1>7, <1>8
<1>10. unbondings' \in [Staker -> Seq(Entry)]
  BY <1>1, <1>2, <1>3, UnbondKeeps
<1>11. validatorSet' \in Seq(Staker) /\ ListsActive'
  <2> DEFINE ps == {i \in DOMAIN validatorSet : validatorSet[i] = a}
  <2>1. PICK k \in 1..Len(validatorSet) : validatorSet[k] = a
    BY <1>2 DEF ListsActive
  <2>2. DOMAIN validatorSet = 1..Len(validatorSet)
    BY <1>2
  <2>3. k \in ps /\ ps \subseteq Nat
    BY <2>1, <2>2
  <2>4. ps = {k}
    BY <1>2, <2>1, <2>2 DEF ListsActive
  <2>5. validatorSet' = S!SwapRemove(validatorSet, CHOOSE i \in ps : \A j \in ps : i <= j)
    <3>1. ps # {}
      BY <2>3
    <3> QED
      BY Zenon, <1>1, <3>1
  <2> HIDE DEF ps
  <2>6. (CHOOSE i \in ps : \A j \in ps : i <= j) = k
    <3>1. \A j \in ps : k <= j
      BY <2>1, <2>4
    <3> QED
      BY <2>4, <3>1
  <2>7. validatorSet' = S!SwapRemove(validatorSet, k)
    BY <2>5, <2>6
  <2>8. ~members'[a].active
    BY <1>6, <1>7
  <2> QED
    BY <1>2, <1>7, <2>1, <2>7, <2>8, ListShrinks
<1> QED
  BY <1>1, <1>2, <1>7, <1>9, <1>10, <1>11 DEF BooksInv, BooksTyped

\* A delegation of d to a changes by v, and the total with it.
LEMMA DelegationKeeps ==
    ASSUME StakingSetting, BooksInv, NEW a \in Staker, NEW d \in Staker, NEW v \in Int,
           members[a].delegations[d] + v >= 0,
           members' = [members EXCEPT ![a] = S!Delegated(members[a], d, v)],
           totalStake' = totalStake + v, totalStake' >= 0, v > 0 => members[a].active,
           validatorSet' = validatorSet
    PROVE  /\ members' \in [Staker -> Member] /\ totalStake' \in Nat
           /\ DelegationsSum' /\ ListsActive' /\ (totalStake <= SumFunction(Backed))'
<1> DEFINE m == members[a]
           x == S!Delegated(m, d, v)
<1>1. /\ m \in Member /\ BooksTyped /\ DelegationsSum /\ ListsActive
      /\ m.totalDelegated = SumFunction(m.delegations) /\ totalStake \in Nat
      /\ totalStake <= SumFunction(Backed) /\ validatorSet \in Seq(Staker)
  BY DEF BooksInv, BooksTyped, DelegationsSum
<1>2. m.stake \in Nat /\ m.totalDelegated \in Nat
  BY <1>1 DEF Member
<1>3. /\ x \in Member /\ x.stake = m.stake /\ x.active = m.active
      /\ x.totalDelegated = m.totalDelegated + v
      /\ x.totalDelegated = SumFunction(x.delegations)
  BY <1>1, MemberDelegates
<1> HIDE DEF x
<1>4. members' = [members EXCEPT ![a] = x]
  BY DEF x
<1>5. /\ members' \in [Staker -> Member] /\ members'[a] = x
      /\ \A b \in Staker \ {a} : members'[b] = members[b]
      /\ DelegationsSum'
      /\ SumFunction(Backed) \in Nat
      /\ SumFunction(Backed') = SumFunction(Backed) + HeldBy(x) - HeldBy(m)
  BY <1>1, <1>3, <1>4, OneMember
<1>6. HeldBy(x) - HeldBy(m) = (IF m.active THEN v ELSE 0)
  BY <1>2, <1>3 DEF HeldBy
<1>7. (totalStake <= SumFunction(Backed))' /\ totalStake' \in Nat
  <2>1. HeldBy(x) \in Nat /\ HeldBy(m) \in Nat
    BY <1>1, <1>3, <1>4, OneMember
  <2>2. CASE m.active
    BY <1>1, <1>5, <1>6, <2>1, <2>2
  <2>3. CASE ~m.active
    <3>1. ~(v > 0)
      BY <2>3
    <3> QED
      BY <1>1, <1>5, <1>6, <2>1, <2>3, <3>1
  <2> QED
    BY <2>2, <2>3
<1>8. \A b \in Staker : members'[b].active = members[b].active
  BY <1>3, <1>5
<1>9. ListsActive'
  BY <1>1, <1>8 DEF ListsActive
<1> QED
  BY <1>5, <1>7, <1>9

LEMMA DelegateKeeps == ASSUME StakingSetting, BooksInv, S!Delegate PROVE BooksInv' /\ balance' >= balance
<1>1. PICK d \in Staker, a \in Staker, v \in Value :
         /\ members[a].active /\ v > 0
         /\ members' = [members EXCEPT ![a] = S!Delegated(members[a], d, v)]
         /\ totalStake' = totalStake + v /\ balance' = balance + v
         /\ now' = now /\ validatorSet' = validatorSet /\ unbondings' = unbondings
  BY Zenon DEF S!Delegate, S!Transaction
<1>2. /\ v \in Nat /\ BooksTyped /\ totalStake \in Nat /\ balance \in Nat /\ members[a] \in Member
  BY DEF BooksInv, BooksTyped, StakingSetting
<1>3. members[a].delegations[d] \in Nat
  BY <1>2 DEF Member
<1>4. v \in Int /\ members[a].delegations[d] + v >= 0 /\ totalStake' >= 0
  BY <1>1, <1>2, <1>3
<1>5. /\ members' \in [Staker -> Member] /\ totalStake' \in Nat
      /\ DelegationsSum' /\ ListsActive' /\ (totalStake <= SumFunction(Backed))'
  BY <1>1, <1>4, DelegationKeeps
<1> QED
  BY <1>1, <1>2, <1>5 DEF BooksInv, BooksTyped

LEMMA UndelegateKeeps == ASSUME StakingSetting, BooksInv, S!Undelegate PROVE BooksInv' /\ balance' = balance
<1>1. PICK d \in Staker, a \in Staker, v \in Value :
         /\ members[a].delegations[d] >= v /\ totalStake >= v
         /\ members' = [members EXCEPT ![a] = S!Delegated(members[a], d, -v)]
         /\ totalStake' = totalStake - v /\ S!Unbond(d, v)
         /\ now' = now /\ validatorSet' = validatorSet /\ balance' = balance
  BY Zenon DEF S!Undelegate, S!Transaction
<1>2. /\ v \in Nat /\ BooksTyped /\ totalStake \in Nat /\ members[a] \in Member
  BY DEF BooksInv, BooksTyped, StakingSetting
<1>3. members[a].delegations[d] \in Nat
  BY <1>2 DEF Member
<1> DEFINE w == -v
<1>4. w \in Int /\ members[a].delegations[d] + w >= 0 /\ totalStake' = totalStake + w /\ totalStake' >= 0 /\ ~(w > 0)
  BY <1>1, <1>2, <1>3
<1>5. members' = [members EXCEPT ![a] = S!Delegated(members[a], d, w)]
  BY <1>1
<1> HIDE DEF w
<1>6. /\ members' \in [Staker -> Member] /\ totalStake' \in Nat
      /\ DelegationsSum' /\ ListsActive' /\ (totalStake <= SumFunction(Backed))'
  BY <1>1, <1>4, <1>5, DelegationKeeps
<1>7. unbondings' \in [Staker -> Seq(Entry)]
  BY <1>1, <1>2, UnbondKeeps
<1> QED
  BY <1>1, <1>2, <1>6, <1>7 DEF BooksInv, BooksTyped

LEMMA AmountsAre == ASSUME NEW s \in Seq(Entry) PROVE S!Amounts(s) \in Nat
<1> DEFINE f == [i \in DOMAIN s |-> s[i].amount]
           n == Len(s)
<1>1. n \in Nat /\ f \in [1..n -> Nat]
  <2>1. DOMAIN s = 1..n /\ n \in Nat /\ \A i \in 1..n : s[i] \in Entry
    OBVIOUS
  <2>2. \A i \in 1..n : s[i].amount \in Nat
    BY <2>1 DEF Entry
  <2> QED
    BY <2>1, <2>2
<1>2. IsFiniteSet(1..n)
  <2>1. n \in Int /\ 1 \in Int
    BY <1>1
  <2> HIDE DEF n
  <2> QED
    BY <2>1, FS_Interval
<1>3. S!Amounts(s) = SumFunction(f)
  BY StakingSums DEF S!Amounts
<1> HIDE DEF f
<1> QED
  BY <1>1, <1>2, <1>3, SumIsNat

\* What a withdrawal leaves of the entries
Withdrawn ==
    now' = now /\ balance' < balance =>
        \A a \in Staker :
            unbondings'[a] # unbondings[a] =>
                \A e \in S!ToSet(unbondings[a]) :
                    S!Times(e, unbondings'[a]) = IF S!Due(e) THEN 0 ELSE S!Times(e, unbondings[a])

LEMMA WithdrawKeeps == ASSUME StakingSetting, BooksInv, S!WithdrawUnbonded PROVE BooksInv' /\ Withdrawn
<1>1. PICK a \in Staker :
         /\ S!Amounts(unbondings[a]) - S!Amounts(S!Scan(unbondings[a])) <= balance
         /\ unbondings' = [unbondings EXCEPT ![a] = S!Scan(unbondings[a])]
         /\ balance' = balance - (S!Amounts(unbondings[a]) - S!Amounts(S!Scan(unbondings[a])))
         /\ now' = now /\ members' = members /\ validatorSet' = validatorSet /\ totalStake' = totalStake
  BY Zenon DEF S!WithdrawUnbonded, S!Transaction
<1> DEFINE s == unbondings[a]
           left == S!Scan(s)
<1>2. s \in Seq(Entry) /\ unbondings \in [Staker -> Seq(Entry)] /\ balance \in Nat
  BY DEF BooksInv, BooksTyped
<1>3. left \in Seq(Entry) /\ \A e : S!Times(e, left) = IF S!Due(e) THEN 0 ELSE S!Times(e, s)
  BY <1>2, ScanLeaves
<1>4. unbondings' = [unbondings EXCEPT ![a] = left]
  BY <1>1
<1>5. S!Amounts(s) \in Nat /\ S!Amounts(left) \in Nat
  BY <1>2, <1>3, AmountsAre
<1>6. balance' \in Nat
  BY <1>1, <1>2, <1>5
<1> HIDE DEF left
<1>7. unbondings' \in [Staker -> Seq(Entry)] /\ unbondings'[a] = left /\ \A b \in Staker \ {a} : unbondings'[b] = unbondings[b]
  BY <1>2, <1>3, <1>4
<1>8. Withdrawn
  <2> SUFFICES ASSUME NEW b \in Staker, unbondings'[b] # unbondings[b], NEW e
               PROVE  S!Times(e, unbondings'[b]) = IF S!Due(e) THEN 0 ELSE S!Times(e, unbondings[b])
    BY DEF Withdrawn
  <2>1. b = a
    BY <1>7
  <2> QED
    BY <1>3, <1>7, <2>1
<1>9. Backed' = Backed
  BY <1>1 DEF Backed
<1> QED
  BY <1>1, <1>6, <1>7, <1>8, <1>9 DEF BooksInv, BooksTyped, ListsActive, DelegationsSum

LEMMA SlashedKeeps == ASSUME StakingSetting, BooksInv, S!Slash PROVE BooksInv' /\ balance' = balance
<1>0. PICK a \in Staker, v \in Value :
         /\ members[a].active /\ totalStake >= S!SlashAmount(a, v)
         /\ members' = [members EXCEPT ![a] = [members[a] EXCEPT !.stake = members[a].stake - S!SlashAmount(a, v)]]
         /\ totalStake' = totalStake - S!SlashAmount(a, v)
         /\ now' = now /\ validatorSet' = validatorSet /\ unbondings' = unbondings /\ balance' = balance
  BY Zenon DEF S!Slash, S!Transaction
<1> DEFINE cut == S!SlashAmount(a, v)
<1>1. /\ cut = (IF v > members[a].stake THEN members[a].stake ELSE v)
      /\ members[a].active /\ totalStake >= cut
      /\ members' = [members EXCEPT ![a] = [members[a] EXCEPT !.stake = members[a].stake - cut]]
      /\ totalStake' = totalStake - cut
      /\ now' = now /\ validatorSet' = validatorSet /\ unbondings' = unbondings /\ balance' = balance
  BY Zenon, <1>0 DEF S!SlashAmount
<1> HIDE DEF cut
<1> DEFINE m == members[a]
           x == [m EXCEPT !.stake = m.stake - cut]
<1>2. /\ m \in Member /\ v \in Nat /\ BooksTyped /\ DelegationsSum /\ ListsActive
      /\ m.totalDelegated = SumFunction(m.delegations) /\ totalStake \in Nat /\ totalStake <= SumFunction(Backed)
  BY DEF BooksInv, BooksTyped, StakingSetting, DelegationsSum
<1>3. m.stake \in Nat /\ m.totalDelegated \in Nat /\ m.commission \in Nat /\ m.active /\ m.delegations \in [Staker -> Nat]
  BY <1>1, <1>2 DEF Member
<1>4. cut \in Nat /\ m.stake - cut \in Nat
  BY <1>1, <1>2, <1>3
<1>5. x = MemberOf(m.stake - cut, m.commission, m.active, m.delegations, m.totalDelegated)
  <2> DEFINE w == m.stake - cut
  <2> HIDE DEF w
  <2>1. x = [m EXCEPT !.stake = w]
    BY DEF w
  <2> HIDE DEF x
  <2>2. x = MemberOf(w, m.commission, m.active, m.delegations, m.totalDelegated)
    BY <1>2, <2>1, MemberRestakes
  <2> QED
    BY <2>2 DEF w
<1>6. members' = [members EXCEPT ![a] = x]
  BY <1>1
<1> HIDE DEF x
<1>7. x \in Member /\ x.active /\ x.stake = m.stake - cut /\ x.totalDelegated = m.totalDelegated
      /\ x.totalDelegated = SumFunction(x.delegations) /\ x.active = m.active
  BY <1>2, <1>3, <1>4, <1>5 DEF Member, MemberOf
<1>8. /\ members' \in [Staker -> Member] /\ members'[a] = x
      /\ \A b \in Staker \ {a} : members'[b] = members[b]
      /\ DelegationsSum'
      /\ SumFunction(Backed) \in Nat
      /\ SumFunction(Backed') = SumFunction(Backed) + HeldBy(x) - HeldBy(m)
  BY <1>2, <1>6, <1>7, OneMember
<1>9. HeldBy(m) = m.stake + m.totalDelegated /\ HeldBy(x) = m.stake - cut + m.totalDelegated
  BY <1>3, <1>7 DEF HeldBy
<1>10. (totalStake <= SumFunction(Backed))' /\ totalStake' \in Nat
  BY <1>1, <1>2, <1>3, <1>4, <1>8, <1>9
<1>11. \A b \in Staker : members'[b].active = members[b].active
  BY <1>7, <1>8
<1>12. ListsActive'
  BY <1>1, <1>2, <1>11 DEF ListsActive
<1> QED
  BY <1>1, <1>2, <1>8, <1>10, <1>12 DEF BooksInv, BooksTyped

\* What a validator keeps of the rewards of an epoch
Kept(a) ==
    ((((balance \div RewardDivisor) * S!Backing(a)) \div totalStake) * members[a].commission) \div MaxCommission

LEMMA KeptIsNat == ASSUME StakingSetting, BooksInv, NEW a \in Staker, totalStake > 0 PROVE Kept(a) \in Nat
<1> DEFINE b == balance \div RewardDivisor
           p == b * S!Backing(a)
           q == p \div totalStake
           r == q * members[a].commission
<1>1. balance \in Nat /\ totalStake \in Nat /\ members[a] \in Member
  BY DEF BooksInv, BooksTyped
<1>2. S!Backing(a) \in Nat /\ members[a].commission \in Nat
  BY <1>1 DEF S!Backing, Member
<1>3. RewardDivisor \in Nat /\ RewardDivisor > 0 /\ MaxCommission \in Nat /\ MaxCommission > 0
  BY DEF StakingSetting
<1>4. b \in Nat
  BY <1>1, <1>3, Divides
<1> HIDE DEF b
<1>5. p \in Nat
  BY <1>2, <1>4
<1> HIDE DEF p
<1>6. q \in Nat
  BY <1>1, <1>5, Divides
<1> HIDE DEF q
<1>7. r \in Nat
  BY <1>2, <1>6
<1> HIDE DEF r
<1>8. r \div MaxCommission \in Nat
  BY <1>3, <1>7, Divides
<1> QED
  BY <1>8 DEF Kept, r, q, p, b

LEMMA EpochKeeps == ASSUME StakingSetting, BooksInv, S!AdvanceEpoch PROVE BooksInv' /\ balance' = balance
<1>1. /\ totalStake = 0 => \A a \in S!ToSet(validatorSet) : S!Backing(a) = 0
      /\ members' = [a \in Staker |->
             IF members[a].active /\ S!Backing(a) > 0
             THEN [members[a] EXCEPT !.stake = members[a].stake + Kept(a)] ELSE members[a]]
      /\ now' = now /\ validatorSet' = validatorSet /\ totalStake' = totalStake
      /\ unbondings' = unbondings /\ balance' = balance
  BY Zenon DEF S!AdvanceEpoch, S!Transaction, Kept
<1>2. /\ members \in [Staker -> Member] /\ DelegationsSum /\ ListsActive /\ IsFiniteSet(Staker) /\ totalStake \in Nat
      /\ totalStake <= SumFunction(Backed) /\ validatorSet \in Seq(Staker) /\ DOMAIN validatorSet = 1..Len(validatorSet)
  BY DEF BooksInv, BooksTyped, StakingSetting
<1>3. ASSUME NEW a \in Staker
      PROVE  /\ members'[a] \in Member /\ members'[a].active = members[a].active
             /\ members'[a].delegations = members[a].delegations
             /\ members'[a].totalDelegated = members[a].totalDelegated
             /\ members'[a].stake >= members[a].stake
  <2> DEFINE m == members[a]
  <2>1. m \in Member
    BY <1>2
  <2>2. m.stake \in Nat /\ m.totalDelegated \in Nat /\ m.commission \in Nat /\ m.active \in BOOLEAN /\ m.delegations \in [Staker -> Nat]
    BY <2>1 DEF Member
  <2>3. CASE members[a].active /\ S!Backing(a) > 0
    <3> DEFINE w == m.stake + Kept(a)
    <3>1. members'[a] = [m EXCEPT !.stake = w]
      BY <1>1, <2>3
    <3>2. totalStake > 0
      <4>1. PICK i \in 1..Len(validatorSet) : validatorSet[i] = a
        BY <1>2, <2>3 DEF ListsActive
      <4>2. a \in S!ToSet(validatorSet)
        BY <1>2, <4>1 DEF S!ToSet
      <4>3. totalStake # 0
        BY <1>1, <2>3, <4>2
      <4> QED
        BY <1>2, <4>3
    <3>3. Kept(a) \in Nat
      BY <3>2, KeptIsNat
    <3>4. w \in Nat /\ w >= m.stake
      BY <2>2, <3>3
    <3> HIDE DEF w
    <3>5. members'[a] = MemberOf(w, m.commission, m.active, m.delegations, m.totalDelegated)
      BY <2>1, <3>1, MemberRestakes
    <3> QED
      BY <2>2, <3>4, <3>5 DEF MemberOf, Member
  <2>4. CASE ~(members[a].active /\ S!Backing(a) > 0)
    <3>1. members'[a] = m
      BY <1>1, <2>4
    <3> QED
      BY <2>1, <2>2, <3>1
  <2> QED
    BY <2>3, <2>4
<1>4. members' \in [Staker -> Member]
  <2>1. members' = [a \in Staker |-> members'[a]]
    BY <1>1
  <2> QED
    BY <1>3, <2>1
<1>5. DelegationsSum'
  BY <1>2, <1>3 DEF DelegationsSum
<1>6. ListsActive'
  BY <1>1, <1>2, <1>3 DEF ListsActive
<1>7. \A a \in Staker : Backed[a] \in Nat /\ Backed'[a] \in Nat /\ 1 * Backed[a] <= 1 * Backed'[a]
  <2> SUFFICES ASSUME NEW a \in Staker
               PROVE  HeldBy(members[a]) \in Nat /\ HeldBy(members'[a]) \in Nat /\ HeldBy(members[a]) <= HeldBy(members'[a])
    BY DEF Backed
  <2>1. members[a] \in Member /\ members'[a] \in Member
    BY <1>2, <1>3
  <2> QED
    BY <1>3, <2>1 DEF HeldBy, Member
<1>8. Backed \in [Staker -> Nat] /\ Backed' \in [Staker -> Nat]
  BY <1>7 DEF Backed
<1>9. SumFunction(Backed) <= SumFunction(Backed') /\ SumFunction(Backed) \in Nat /\ SumFunction(Backed') \in Nat
  <2>1. SumFunction(Backed) \in Nat /\ SumFunction(Backed') \in Nat
    BY <1>2, <1>8, SumIsNat
  <2>2. 1 * SumFunction(Backed) <= 1 * SumFunction(Backed')
    BY <1>2, <1>7, <1>8, SumCompares
  <2> QED
    BY <2>1, <2>2
<1>10. (totalStake <= SumFunction(Backed))'
  BY <1>1, <1>2, <1>9
<1>11. BooksTyped'
  BY <1>1, <1>4 DEF BooksInv, BooksTyped
<1> QED
  BY <1>1, <1>5, <1>6, <1>10, <1>11 DEF BooksInv

LEMMA BooksStart == StakingSetting /\ S!Init => BooksInv
<1> SUFFICES ASSUME StakingSetting, S!Init PROVE BooksInv
  OBVIOUS
<1> DEFINE f == [d \in Staker |-> 0]
           x == [stake |-> 0, commission |-> 0, active |-> FALSE, delegations |-> f, totalDelegated |-> 0]
<1>1. /\ members = [a \in Staker |-> x] /\ validatorSet = << >> /\ totalStake = 0 /\ balance = 0 /\ now = 0
      /\ unbondings = [a \in Staker |-> << >>]
  BY DEF S!Init, S!Outsider
<1>2. IsFiniteSet(Staker)
  BY DEF StakingSetting
<1>3. f \in [Staker -> Nat] /\ SumFunction(f) = 0
  <2>1. DOMAIN f = Staker /\ \A d \in Staker : f[d] = 0
    OBVIOUS
  <2> HIDE DEF f
  <2>2. SumFunction(f) = 0
    BY <1>2, <2>1, SumOfZeros
  <2> QED
    BY <2>2 DEF f
<1> HIDE DEF f
<1>4. x \in Member /\ ~x.active /\ x.totalDelegated = SumFunction(x.delegations)
  BY <1>3 DEF Member
<1> HIDE DEF x
<1>5. BooksTyped
  BY <1>1, <1>4 DEF BooksTyped
<1>6. ListsActive /\ DelegationsSum
  BY <1>1, <1>4 DEF ListsActive, DelegationsSum
<1>7. SumFunction(Backed) \in Nat
  <2>1. Backed \in [Staker -> Nat]
    BY <1>1, <1>4 DEF Backed, HeldBy
  <2> QED
    BY <1>2, <2>1, SumIsNat
<1> QED
  BY <1>1, <1>5, <1>6, <1>7 DEF BooksInv

LEMMA BooksStep ==
    ASSUME StakingSetting, BooksInv, [S!Next]_stakingVars PROVE BooksInv' /\ Withdrawn
<1>0. balance \in Nat /\ now \in Nat
  BY DEF BooksInv, BooksTyped
<1>1. ASSUME BooksInv', balance' >= balance PROVE BooksInv' /\ Withdrawn
  <2>1. balance' \in Nat
    BY <1>1 DEF BooksInv, BooksTyped
  <2> QED
    BY <1>0, <1>1, <2>1 DEF Withdrawn
<1>2. balance' = balance => balance' >= balance
  BY <1>0
<1>3. CASE S!RegisterValidator
  BY <1>1, <1>3, RegisterKeeps
<1>4. CASE S!UnregisterValidator
  BY <1>1, <1>2, <1>4, UnregisterKeeps
<1>5. CASE S!Delegate
  BY <1>1, <1>5, DelegateKeeps
<1>6. CASE S!Undelegate
  BY <1>1, <1>2, <1>6, UndelegateKeeps
<1>7. CASE S!WithdrawUnbonded
  BY <1>7, WithdrawKeeps
<1>8. CASE S!AdvanceEpoch
  BY <1>1, <1>2, <1>8, EpochKeeps
<1>9. CASE S!Slash
  BY <1>1, <1>2, <1>9, SlashedKeeps
<1>10. CASE S!Receive
  <2>1. PICK v \in Value : balance' = balance + v
    BY <1>10 DEF S!Receive
  <2>2. /\ members' = members /\ validatorSet' = validatorSet /\ totalStake' = totalStake
        /\ unbondings' = unbondings /\ now' = now
    BY <1>10 DEF S!Receive, S!Transaction
  <2>3. v \in Nat
    BY DEF StakingSetting
  <2>4. balance' \in Nat /\ balance' >= balance
    BY <1>0, <2>1, <2>3
  <2>5. BooksInv'
    BY <2>2, <2>4 DEF BooksInv, BooksTyped, ListsActive, DelegationsSum, Backed
  <2> QED
    BY <1>1, <2>4, <2>5
<1>11. CASE S!Tick
  <2>1. /\ members' = members /\ validatorSet' = validatorSet /\ totalStake' = totalStake
        /\ unbondings' = unbondings /\ balance' = balance /\ now' = now + 1
    BY <1>11 DEF S!Tick
  <2>2. now' \in Nat
    BY <1>0, <2>1
  <2>3. BooksInv'
    BY <2>1, <2>2 DEF BooksInv, BooksTyped, ListsActive, DelegationsSum, Backed
  <2> QED
    BY <1>1, <1>2, <2>1, <2>3
<1>12. CASE UNCHANGED stakingVars
  <2>1. /\ members' = members /\ validatorSet' = validatorSet /\ totalStake' = totalStake
        /\ unbondings' = unbondings /\ balance' = balance /\ now' = now
    BY <1>12 DEF stakingVars
  <2>2. BooksInv'
    BY <2>1 DEF BooksInv, BooksTyped, ListsActive, DelegationsSum, Backed
  <2> QED
    BY <1>1, <1>2, <2>1, <2>2
<1> QED
  BY <1>3, <1>4, <1>5, <1>6, <1>7, <1>8, <1>9, <1>10, <1>11, <1>12 DEF S!Next

LEMMA BooksHold == StakingSetting /\ BooksInv => S!SetHoldsTheActive /\ S!DelegatedIsSum /\ S!TotalIsBacked
<1> SUFFICES ASSUME StakingSetting, BooksInv PROVE S!SetHoldsTheActive /\ S!DelegatedIsSum /\ S!TotalIsBacked
  OBVIOUS
<1> DEFINE n == Len(validatorSet)
           T == {a \in Staker : members[a].active}
<1>1. /\ validatorSet \in Seq(Staker) /\ DOMAIN validatorSet = 1..n /\ n \in Nat /\ IsFiniteSet(Staker)
      /\ members \in [Staker -> Member] /\ totalStake <= SumFunction(Backed)
  BY DEF BooksInv, BooksTyped, StakingSetting
<1>2. S!ToSet(validatorSet) = T
  BY <1>1 DEF S!ToSet, BooksInv, ListsActive
<1>3. S!SetHoldsTheActive
  <2>1. \A a \in T : \E i \in 1..n : validatorSet[i] = a
    BY DEF BooksInv, ListsActive
  <2>2. \A i \in 1..n : validatorSet[i] \in T
    BY <1>1 DEF BooksInv, ListsActive
  <2>3. \A i, j \in 1..n : validatorSet[i] = validatorSet[j] => i = j
    BY DEF BooksInv, ListsActive
  <2>4. validatorSet \in [1..n -> T]
    BY <1>1, <2>2
  <2> HIDE DEF n, T
  <2>5. validatorSet \in Surjection(1..n, T) /\ validatorSet \in Injection(1..n, T)
    BY <2>1, <2>3, <2>4 DEF Surjection, Injection, IsInjective
  <2>6. IsFiniteSet(1..n) /\ Cardinality(1..n) = n
    <3>1. n \in Int /\ 1 \in Int
      BY <1>1
    <3> QED
      BY <1>1, <3>1, FS_Interval
  <2>7. Cardinality(T) = n
    BY <2>5, <2>6, FS_Surjection
  <2>8. S!Cardinality(T) = n
    BY <2>7 DEF S!Cardinality, Cardinality
  <2> QED
    BY <1>2, <2>8 DEF S!SetHoldsTheActive, n, T
<1>4. S!DelegatedIsSum
  BY StakingSums DEF BooksInv, DelegationsSum, S!DelegatedIsSum
<1>5. S!TotalIsBacked
  <2> DEFINE h == [a \in T |-> Backed[a]]
  <2>1. \A a \in Staker : HeldBy(members[a]) \in Nat
    BY <1>1 DEF HeldBy, Member
  <2>2. Backed \in [Staker -> Int] /\ \A a \in Staker \ T : Backed[a] = 0
    BY <2>1 DEF Backed, HeldBy
  <2>3. h = [a \in T |-> S!Backing(a)]
    BY DEF Backed, HeldBy, S!Backing
  <2>4. SumFunction(h) = SumFunction(Backed)
    <3>1. T \in SUBSET Staker
      OBVIOUS
    <3>2. h = [a \in T |-> Backed[a]]
      OBVIOUS
    <3> DEFINE f == Backed
    <3>3. IsFiniteSet(Staker) /\ f \in [Staker -> Int] /\ h = [a \in T |-> f[a]] /\ \A a \in Staker \ T : f[a] = 0
      BY <1>1, <2>2, <3>2
    <3> HIDE DEF T, h, f
    <3>4. SumFunction(h) = SumFunction(f)
      BY <3>1, <3>3, SumRestricts
    <3> QED
      BY <3>4 DEF f
  <2>5. totalStake <= SumFunction([a \in T |-> S!Backing(a)])
    BY <1>1, <2>3, <2>4
  <2> QED
    BY <2>5, StakingSums DEF S!TotalIsBacked
<1> QED
  BY <1>3, <1>4, <1>5

\* For any number of stakers and any amounts, rates and divisors: through every
\* sequence of registrations, delegations, slashes and epochs the list of the
\* staking contract holds the active validators once, what a validator holds
\* for others is the sum of what they can take back, the total never exceeds
\* what stands behind the active validators, and a withdrawal takes exactly the
\* entries that are due.
THEOREM BooksProvedToAgree == ASSUME StakingSetting PROVE StakingSpec => BooksAgree
<1>1. S!Init => BooksInv
  BY BooksStart
<1>2. BooksInv /\ [S!Next]_stakingVars => BooksInv' /\ [Withdrawn]_stakingVars
  BY BooksStep
<1>3. BooksInv => S!SetHoldsTheActive /\ S!DelegatedIsSum /\ S!TotalIsBacked
  BY BooksHold
<1>4. StakingSpec => [](S!SetHoldsTheActive /\ S!DelegatedIsSum /\ S!TotalIsBacked) /\ [][Withdrawn]_stakingVars
  BY <1>1, <1>2, <1>3, PTL DEF StakingSpec
<1>5. [][Withdrawn]_stakingVars <=> S!WithdrawsWhatIsDue
  BY DEF Withdrawn, stakingVars, S!WithdrawsWhatIsDue
<1> QED
  BY <1>4, <1>5 DEF BooksAgree, S!BooksAgree

-----------------------------------------------------------------------------
(* Tip selection *)

\* The vertices form a DAG whose genesis has no parents, and a selector wants at
\* least one parent and no more than it may take.
SelectionSetting ==
    /\ IsFiniteSet(TsVertex) /\ TsGenesis \in TsVertex
    /\ TsParents \in [TsVertex -> SUBSET TsVertex] /\ TsParents[TsGenesis] = {}
    /\ \E n \in Nat : \E rank \in [TsVertex -> 0..n] :
          \A v \in TsVertex : \A p \in TsParents[v] : rank[p] < rank[v]
    /\ MaxParents \in Nat
    /\ \A l \in Limits : l[1] \in Nat /\ l[2] \in Nat /\ 1 <= l[1] /\ l[1] <= l[2] /\ l[1] <= MaxParents
    /\ Depths \subseteq Nat

LEMMA TipCards == \A X : V!Cardinality(X) = Cardinality(X)
BY DEF V!Cardinality, Cardinality

\* A finite set of numbers has a largest one.
LEMMA LargestIn ==
    ASSUME NEW X, IsFiniteSet(X), X \subseteq Nat, X # {}
    PROVE  V!Max(X) \in X /\ \A k \in X : V!Max(X) >= k
<1> DEFINE Good == {Y \in SUBSET X : Y = {} \/ \E m \in Y : \A k \in Y : m >= k}
<1>1. {} \in Good
  OBVIOUS
<1>2. \A Y \in SUBSET X : Y # {} => \E x \in Y : Y \ {x} \in Good => Y \in Good
  <2> SUFFICES ASSUME NEW Y \in SUBSET X, NEW x \in Y, Y \ {x} \in Good PROVE Y \in Good
    OBVIOUS
  <2>1. CASE Y \ {x} = {}
    <3>1. \A k \in Y : x >= k
      BY <2>1
    <3> QED
      BY <3>1
  <2>2. CASE Y \ {x} # {}
    <3>1. PICK m \in Y \ {x} : \A k \in Y \ {x} : m >= k
      BY <2>2
    <3>2. m \in Nat /\ x \in Nat /\ \A k \in Y : k \in Nat
      OBVIOUS
    <3>3. CASE m >= x
      BY <3>1, <3>2, <3>3
    <3>4. CASE ~(m >= x)
      <4>1. \A k \in Y : x >= k
        BY <3>1, <3>2, <3>4
      <4> QED
        BY <4>1
    <3> QED
      BY <3>3, <3>4
  <2> QED
    BY <2>1, <2>2
<1> HIDE DEF Good
<1>3. X \in Good
  BY <1>1, <1>2, SubsetInduction
<1>4. \E m \in X : \A k \in X : m >= k
  BY <1>3 DEF Good
<1> QED
  BY <1>4 DEF V!Max

\* The values of a function on a finite set
LEMMA FiniteImage ==
    ASSUME NEW X, IsFiniteSet(X), NEW f
    PROVE  IsFiniteSet({f[x] : x \in X})
<1> DEFINE Y == {f[x] : x \in X}
           g == [x \in X |-> f[x]]
<1>1. g \in Surjection(X, Y)
  BY DEF Surjection
<1> HIDE DEF g, Y
<1>2. IsFiniteSet(Y)
  BY <1>1, FS_Surjection
<1> QED
  BY <1>2 DEF Y

HeightsOn(D, h) ==
    h = [v \in D |-> IF TsParents[v] = {} THEN 0 ELSE 1 + V!Max({h[p] : p \in TsParents[v]})]

LEMMA HeightsExist == ASSUME SelectionSetting PROVE \E h : HeightsOn(TsVertex, h)
<1>1. TsParents \in [TsVertex -> SUBSET TsVertex]
  BY DEF SelectionSetting
<1>2. PICK N \in Nat : \E rank \in [TsVertex -> 0..N] :
          \A v \in TsVertex : \A p \in TsParents[v] : rank[p] < rank[v]
  BY DEF SelectionSetting
<1>3. PICK rank \in [TsVertex -> 0..N] : \A v \in TsVertex : \A p \in TsParents[v] : rank[p] < rank[v]
  BY <1>2
<1> DEFINE D(n) == {v \in TsVertex : rank[v] < n}
           Good == {n \in Nat : \E h : HeightsOn(D(n), h)}
<1>4. 0 \in Good
  <2> DEFINE h == [v \in {} |-> 0]
  <2>1. D(0) = {}
    BY <1>3
  <2> HIDE DEF D
  <2>2. HeightsOn(D(0), h)
    BY <2>1 DEF HeightsOn
  <2> QED
    BY <2>2
<1>5. ASSUME NEW n \in Nat, n \in Good PROVE n + 1 \in Good
  <2>1. PICK h : HeightsOn(D(n), h)
    BY <1>5
  <2> DEFINE Up(f, v) == IF TsParents[v] = {} THEN 0 ELSE 1 + V!Max({f[p] : p \in TsParents[v]})
             g == [v \in D(n + 1) |-> Up(h, v)]
  <2>2. \A v \in D(n) : h[v] = Up(h, v)
    BY <2>1 DEF HeightsOn
  <2>3. D(n) \subseteq D(n + 1) /\ \A v \in D(n + 1) : TsParents[v] \subseteq D(n)
    BY <1>1, <1>3
  <2> HIDE DEF D
  <2>4. \A v \in D(n + 1) : Up(g, v) = Up(h, v)
    <3> SUFFICES ASSUME NEW v \in D(n + 1) PROVE Up(g, v) = Up(h, v)
      OBVIOUS
    <3>1. \A p \in TsParents[v] : g[p] = h[p]
      BY <2>2, <2>3
    <3> HIDE DEF g
    <3>2. {g[p] : p \in TsParents[v]} = {h[p] : p \in TsParents[v]}
      BY <3>1
    <3> QED
      BY <3>2
  <2>5. HeightsOn(D(n + 1), g)
    <3>1. g = [v \in D(n + 1) |-> Up(h, v)]
      OBVIOUS
    <3> HIDE DEF g
    <3>2. g = [v \in D(n + 1) |-> Up(g, v)]
      BY <2>4, <3>1
    <3> QED
      BY <3>2 DEF HeightsOn
  <2> HIDE DEF g
  <2> QED
    BY <2>5
<1>6. N + 1 \in Good
  <2> HIDE DEF Good
  <2>1. \A n \in Nat : n \in Good
    BY <1>4, <1>5, NatSetInduction
  <2> QED
    BY <2>1
<1>7. D(N + 1) = TsVertex
  BY <1>3
<1> QED
  BY <1>6, <1>7

\* A vertex is higher than its parents.
LEMMA HeightsRise ==
    ASSUME SelectionSetting
    PROVE  /\ \A v \in TsVertex : V!HeightOf[v] \in Nat
           /\ \A v \in TsVertex : \A p \in TsParents[v] : V!HeightOf[p] < V!HeightOf[v]
<1> DEFINE h == V!HeightOf
<1>1. HeightsOn(TsVertex, h)
  <2>1. h = CHOOSE f : HeightsOn(TsVertex, f)
    BY Zenon DEF V!HeightOf, HeightsOn
  <2> QED
    BY <2>1, HeightsExist
<1> HIDE DEF h
<1>2. \A v \in TsVertex : h[v] = IF TsParents[v] = {} THEN 0 ELSE 1 + V!Max({h[p] : p \in TsParents[v]})
  BY <1>1 DEF HeightsOn
<1>3. TsParents \in [TsVertex -> SUBSET TsVertex] /\ IsFiniteSet(TsVertex)
  BY DEF SelectionSetting
<1>4. \A v \in TsVertex : IsFiniteSet(TsParents[v]) /\ IsFiniteSet({h[p] : p \in TsParents[v]})
  <2> SUFFICES ASSUME NEW v \in TsVertex PROVE IsFiniteSet(TsParents[v]) /\ IsFiniteSet({h[p] : p \in TsParents[v]})
    OBVIOUS
  <2>1. IsFiniteSet(TsParents[v])
    <3>1. TsParents[v] \subseteq TsVertex
      BY <1>3
    <3> QED
      BY <1>3, <3>1, FS_Subset
  <2> QED
    BY <2>1, FiniteImage
<1>5. PICK N \in Nat : \E rank \in [TsVertex -> 0..N] :
          \A v \in TsVertex : \A p \in TsParents[v] : rank[p] < rank[v]
  BY DEF SelectionSetting
<1>6. PICK rank \in [TsVertex -> 0..N] : \A v \in TsVertex : \A p \in TsParents[v] : rank[p] < rank[v]
  BY <1>5
<1> DEFINE Good == {n \in Nat : \A v \in TsVertex : rank[v] < n => h[v] \in Nat}
<1>7. 0 \in Good
  BY <1>6
<1>8. ASSUME NEW n \in Nat, n \in Good PROVE n + 1 \in Good
  <2> SUFFICES ASSUME NEW v \in TsVertex, rank[v] < n + 1 PROVE h[v] \in Nat
    OBVIOUS
  <2> DEFINE Y == {h[p] : p \in TsParents[v]}
  <2>1. CASE TsParents[v] = {}
    <3>1. h[v] = 0
      BY Zenon, <1>2, <2>1
    <3> QED
      BY <3>1
  <2>2. CASE TsParents[v] # {}
    <3>1. \A p \in TsParents[v] : p \in TsVertex /\ rank[p] < n
      BY <1>3, <1>6
    <3>2. Y \subseteq Nat /\ Y # {} /\ IsFiniteSet(Y)
      BY <1>4, <1>8, <2>2, <3>1
    <3> HIDE DEF Y
    <3>3. V!Max(Y) \in Nat
      BY <3>2, LargestIn
    <3>4. h[v] = 1 + V!Max(Y)
      BY <1>2, <2>2 DEF Y
    <3> QED
      BY <3>3, <3>4
  <2> QED
    BY <2>1, <2>2
<1>9. \A v \in TsVertex : h[v] \in Nat
  <2>1. N + 1 \in Good
    <3> HIDE DEF Good
    <3>1. \A n \in Nat : n \in Good
      BY <1>7, <1>8, NatSetInduction
    <3> QED
      BY <3>1
  <2> QED
    BY <1>6, <2>1
<1>10. ASSUME NEW v \in TsVertex, NEW p \in TsParents[v] PROVE h[p] < h[v]
  <2> DEFINE Y == {h[q] : q \in TsParents[v]}
  <2>1. Y \subseteq Nat /\ Y # {} /\ IsFiniteSet(Y) /\ h[p] \in Y
    BY <1>3, <1>4, <1>9
  <2>2. h[v] = 1 + V!Max(Y)
    BY <1>2
  <2> HIDE DEF Y
  <2>3. V!Max(Y) \in Nat /\ V!Max(Y) >= h[p] /\ h[p] \in Nat
    BY <2>1, LargestIn
  <2> QED
    BY <2>2, <2>3
<1> QED
  BY <1>9, <1>10 DEF h

\* One step towards the genesis
Only(v) == {v}
Further(vs) == vs \cup UNION {TsParents[u] : u \in vs}

ReachTo(N, v, f) ==
    f = [k \in 0..N |-> IF k = 0 THEN Only(v) ELSE Further(f[k - 1])]

LEMMA ReachExist == ASSUME NEW v PROVE \A n \in Nat : \E f : ReachTo(n, v, f)
<1> DEFINE Good == {n \in Nat : \E f : ReachTo(n, v, f)}
<1>1. 0 \in Good
  <2> DEFINE f == [k \in 0..0 |-> Only(v)]
  <2>1. ReachTo(0, v, f)
    BY DEF ReachTo
  <2> QED
    BY <2>1
<1>2. ASSUME NEW n \in Nat, n \in Good PROVE n + 1 \in Good
  <2>1. PICK f : ReachTo(n, v, f)
    BY <1>2
  <2> DEFINE x == Further(f[n])
             h == [k \in 0..(n + 1) |-> IF k = n + 1 THEN x ELSE f[k]]
  <2>2. \A k \in 0..n : f[k] = IF k = 0 THEN Only(v) ELSE Further(f[k - 1])
    BY <2>1 DEF ReachTo
  <2>3. \A k \in 0..(n + 1) : h[k] = IF k = 0 THEN Only(v) ELSE Further(h[k - 1])
    <3> TAKE k \in 0..(n + 1)
    <3>1. CASE k = n + 1
      <4>1. h[k] = x /\ h[k - 1] = f[n] /\ k # 0
        BY <3>1
      <4> QED
        BY <3>1, <4>1
    <3>2. CASE k = 0
      <4>1. h[k] = f[0] /\ f[0] = Only(v)
        BY <3>2, <2>2
      <4> QED
        BY <3>2, <4>1
    <3>3. CASE k \in 1..n
      <4>1. h[k] = f[k] /\ h[k - 1] = f[k - 1] /\ k \in 0..n /\ k # 0
        BY <3>3
      <4> HIDE DEF h
      <4> QED
        BY <4>1, <2>2
    <3> QED
      BY <3>1, <3>2, <3>3
  <2>4. ReachTo(n + 1, v, h)
    <3>1. h = [k \in 0..(n + 1) |-> h[k]]
      OBVIOUS
    <3> HIDE DEF h
    <3> QED
      BY <2>3, <3>1 DEF ReachTo
  <2> QED
    BY <2>4
<1> HIDE DEF Good
<1>3. \A n \in Nat : n \in Good
  BY <1>1, <1>2, NatSetInduction
<1> QED
  BY <1>3 DEF Good

\* In a set of vertices that holds the parents of its members, an ancestor of a
\* member is that member or a parent in the set.
LEMMA AncestorsHaveChildren ==
    ASSUME SelectionSetting, NEW D, \A u \in D : TsParents[u] \subseteq D,
           NEW v \in D, NEW a, V!IsAncestor(a, v), a # v
    PROVE  \E c \in D : a \in TsParents[c] /\ V!IsAncestor(c, v)
<1> DEFINE n == V!Cardinality(TsVertex)
<1>1. n \in Nat
  BY TipCards, FS_CardinalityType DEF SelectionSetting
<1> DEFINE f == CHOOSE g : ReachTo(n, v, g)
<1>2. \A b : V!IsAncestor(b, v) <=> b \in f[n]
  BY Zenon DEF V!IsAncestor, V!Within, ReachTo, Further, Only
<1> HIDE DEF n
<1>3. ReachTo(n, v, f) /\ a \in f[n]
  BY <1>1, <1>2, ReachExist
<1> HIDE DEF f
<1>4. \A k \in 0..n : f[k] = IF k = 0 THEN Only(v) ELSE Further(f[k - 1])
  BY <1>3 DEF ReachTo
<1> DEFINE Good == {k \in Nat : k <= n => f[k] \subseteq D /\ \A b \in f[k] : b # v => \E c \in f[k] : b \in TsParents[c]}
<1>5. 0 \in Good
  <2>1. f[0] = Only(v)
    BY <1>1, <1>4
  <2> QED
    BY <2>1 DEF Only
<1>6. ASSUME NEW k \in Nat, k \in Good PROVE k + 1 \in Good
  <2> SUFFICES ASSUME k + 1 <= n
               PROVE  f[k + 1] \subseteq D /\ \A b \in f[k + 1] : b # v => \E c \in f[k + 1] : b \in TsParents[c]
    OBVIOUS
  <2>1. f[k] \subseteq D /\ \A b \in f[k] : b # v => \E c \in f[k] : b \in TsParents[c]
    BY <1>1, <1>6
  <2>2. f[k + 1] = Further(f[k])
    BY <1>1, <1>4
  <2> QED
    BY <2>1, <2>2 DEF Further
<1>7. n \in Good
  <2> HIDE DEF Good
  <2>1. \A k \in Nat : k \in Good
    BY <1>5, <1>6, NatSetInduction
  <2> QED
    BY <1>1, <2>1
<1> QED
  BY <1>1, <1>2, <1>3, <1>7

\* How many parents a selection draws
LEMMA CountsWithin ==
    ASSUME SelectionSetting, limits \in Limits
    PROVE  /\ V!MinOf \in Nat /\ V!MaxOf \in Nat /\ 1 <= V!MinOf /\ V!MinOf <= V!MaxOf /\ V!MaxOf <= MaxParents
           /\ \A n \in Nat :
                 /\ V!SelectCount(n) \in Nat /\ V!SelectCount(n) <= V!MaxOf
                 /\ n # 0 => V!MinOf <= V!SelectCount(n)
<1>1. /\ V!MinOf \in Nat /\ V!MaxOf \in Nat /\ 1 <= V!MinOf /\ V!MinOf <= V!MaxOf /\ V!MaxOf <= MaxParents
  BY DEF SelectionSetting, V!MinOf, V!MaxOf
<1>2. ASSUME NEW n \in Nat
      PROVE  /\ V!SelectCount(n) \in Nat /\ V!SelectCount(n) <= V!MaxOf
             /\ n # 0 => V!MinOf <= V!SelectCount(n)
  BY <1>1, <1>2 DEF V!SelectCount
<1> QED
  BY <1>1, <1>2

SelectionTyped ==
    /\ tsDag \subseteq TsVertex /\ TsGenesis \in tsDag /\ \A u \in tsDag : TsParents[u] \subseteq tsDag
    /\ limits \in Limits /\ depth \in Nat /\ steps \in Nat /\ todo \in Nat
    /\ tips \subseteq tsDag /\ at \in tsDag /\ picked \subseteq tsDag
    /\ strategy \in V!Snapshot \cup {"mcmc"}
    /\ tsPc \in IF strategy = "mcmc" THEN {"idle", "start", "back", "forward", "fill", "done"}
                ELSE {"idle", "weigh", "draw", "done"}

\* What the steps of an insertion leave of the tips: a tip with a child was
\* overtaken or is about to be taken off, a vertex that got a child too early is
\* marked as such, and every leaf that is not being inserted is a tip.
TipsFollow ==
    /\ tipSet \subseteq tsDag /\ opening \subseteq tsDag /\ tipSet \cap opening = {}
    /\ \A x \in toUnlink : x[1] \in opening /\ x[2] \in TsParents[x[1]] /\ x = <<x[1], x[2]>>
    /\ \A v \in tsDag : \A u \in TsParents[v] :
          /\ u \in tipSet => u \in overtaken \/ <<v, u>> \in toUnlink
          /\ u \in opening => u \in overtaken
    /\ \A v \in tsDag \ opening : v \in tipSet \/ \E c \in tsDag : v \in TsParents[c]

\* No tip of the snapshot is an ancestor of another that was not overtaken,
\* whatever was added since.
TipsApart == \A p, q \in tips : p # q /\ V!InOrder(q) => ~V!IsAncestor(p, q)

\* The snapshot of a DAG at rest is not empty.
TipsThere == tsPc # "idle" /\ calm => tips # {}

Wanted == V!SelectCount(Cardinality(tips))
Walking == IF tsPc \in {"back", "forward"} THEN 1 ELSE 0

\* Draws take one new tip of the snapshot each.
DrawsCount ==
    strategy # "mcmc" /\ tsPc # "idle" =>
        /\ picked \subseteq tips /\ Cardinality(picked) + todo = Wanted
        /\ tsPc = "done" => todo = 0 \/ tips \subseteq picked

\* Walks pick at most one vertex each, and the first one picks one.
WalksCount ==
    strategy = "mcmc" /\ tsPc # "idle" =>
        /\ tsPc \in {"start", "back", "forward"} => Cardinality(picked) + todo + Walking <= Wanted
        /\ tsPc = "start" => tips = {} \/ picked # {} \/ todo > 0
        /\ tsPc \in {"fill", "done"} => (tips = {} \/ picked # {}) /\ Cardinality(picked) <= V!MaxOf
        /\ tsPc = "done" => tips = {} \/ V!MinOf <= Cardinality(picked)

Deep == \A v \in tsDag : V!HeightOf[v] <= depth

\* While the DAG stays, every step forward gains height, so that a walk as deep
\* as the DAG ends at a leaf.
WalksClimb ==
    strategy = "mcmc" /\ tsPc # "idle" /\ calm /\ still =>
        /\ opening = {}
        /\ tips \subseteq V!Leaves \cup overtaken
        /\ Deep /\ tips \cap overtaken = {} => picked \subseteq V!Leaves
        /\ tsPc = "forward" => steps <= V!HeightOf[at]

SelectionInv == SelectionTyped /\ TipsFollow /\ TipsThere /\ TipsApart /\ DrawsCount /\ WalksCount /\ WalksClimb

\* The leaves of a DAG: there are some, and none is above another.
LEMMA LeavesAre ==
    ASSUME SelectionSetting, SelectionTyped
    PROVE  /\ V!Leaves # {} /\ V!Leaves \subseteq tsDag
           /\ \A p, q \in V!Leaves : p # q => ~V!IsAncestor(p, q)
<1>1. /\ tsDag \subseteq TsVertex /\ TsGenesis \in tsDag /\ IsFiniteSet(TsVertex)
      /\ \A u \in tsDag : TsParents[u] \subseteq tsDag
  BY DEF SelectionSetting, SelectionTyped
<1>2. V!Leaves \subseteq tsDag
  BY DEF V!Leaves
<1>3. V!Leaves # {}
  <2> DEFINE Y == {V!HeightOf[v] : v \in tsDag}
  <2>1. IsFiniteSet(tsDag)
    BY <1>1, FS_Subset
  <2>2. IsFiniteSet(Y) /\ Y # {} /\ Y \subseteq Nat
    BY <1>1, <2>1, FiniteImage, HeightsRise
  <2>3. V!Max(Y) \in Y /\ \A k \in Y : V!Max(Y) >= k
    <3> HIDE DEF Y
    <3> QED
      BY <2>2, LargestIn
  <2>4. PICK v \in tsDag : \A u \in tsDag : V!HeightOf[v] >= V!HeightOf[u]
    BY <2>3
  <2>5. ASSUME NEW c \in tsDag, v \in TsParents[c] PROVE FALSE
    <3>1. V!HeightOf[v] < V!HeightOf[c] /\ V!HeightOf[v] >= V!HeightOf[c]
          /\ V!HeightOf[v] \in Nat /\ V!HeightOf[c] \in Nat
      BY <1>1, <2>4, <2>5, HeightsRise
    <3> QED
      BY <3>1
  <2>6. v \in V!Leaves
    BY <2>5 DEF V!Leaves
  <2> QED
    BY <2>6
<1>4. ASSUME NEW p \in V!Leaves, NEW q \in V!Leaves, p # q, V!IsAncestor(p, q) PROVE FALSE
  <2>1. q \in tsDag
    BY <1>2
  <2>2. PICK c \in tsDag : p \in TsParents[c]
    BY <1>1, <1>4, <2>1, AncestorsHaveChildren
  <2> QED
    BY <2>2 DEF V!Leaves
<1> QED
  BY <1>2, <1>3, <1>4

\* What a selection may read as tips
LEMMA TipsAre ==
    ASSUME SelectionSetting, SelectionTyped, TipsFollow
    PROVE  /\ opening = {} => tipSet # {} /\ tipSet \subseteq V!Leaves \cup overtaken
           /\ \A p, q \in tipSet : p # q /\ V!InOrder(q) => ~V!IsAncestor(p, q)
<1>1. \A u \in tsDag : TsParents[u] \subseteq tsDag
  BY DEF SelectionTyped
<1>2. opening = {} => tipSet # {}
  <2>1. PICK v \in V!Leaves : v \in tsDag
    BY LeavesAre
  <2> QED
    BY <2>1 DEF TipsFollow, V!Leaves
<1>3. opening = {} => tipSet \subseteq V!Leaves \cup overtaken
  BY DEF TipsFollow, V!Leaves
<1>4. ASSUME NEW p \in tipSet, NEW q \in tipSet, p # q, V!InOrder(q), V!IsAncestor(p, q) PROVE FALSE
  <2>1. q \in tsDag /\ q \notin opening
    BY DEF TipsFollow
  <2>2. PICK w \in tsDag : p \in TsParents[w] /\ V!IsAncestor(w, q)
    BY <1>1, <1>4, <2>1, AncestorsHaveChildren
  <2>3. p \notin overtaken /\ w \notin overtaken
    BY <1>4, <2>2 DEF V!InOrder
  <2>4. <<w, p>> \in toUnlink
    BY <2>2, <2>3 DEF TipsFollow
  <2>5. w \in opening
    BY <2>4 DEF TipsFollow
  <2>6. PICK x \in tsDag : w \in TsParents[x] /\ V!IsAncestor(x, q)
    BY <1>1, <2>1, <2>2, <2>5, AncestorsHaveChildren
  <2> QED
    BY <2>3, <2>5, <2>6 DEF TipsFollow
<1> QED
  BY <1>2, <1>3, <1>4

LEMMA Picks ==
    ASSUME SelectionSetting, SelectionTyped
    PROVE  /\ IsFiniteSet(picked) /\ Cardinality(picked) \in Nat /\ IsFiniteSet(tips) /\ Cardinality(tips) \in Nat
           /\ (tips # {} => Cardinality(tips) # 0) /\ (picked = {} => Cardinality(picked) = 0)
           /\ \A t : /\ Cardinality(picked \cup {t}) = IF t \in picked THEN Cardinality(picked) ELSE Cardinality(picked) + 1
                     /\ IsFiniteSet(picked \cup {t})
<1>1. picked \subseteq TsVertex /\ tips \subseteq TsVertex /\ IsFiniteSet(TsVertex)
  BY DEF SelectionSetting, SelectionTyped
<1>2. IsFiniteSet(picked) /\ IsFiniteSet(tips)
  BY <1>1, FS_Subset
<1>3. Cardinality(picked) \in Nat /\ Cardinality(tips) \in Nat
  BY <1>2, FS_CardinalityType
<1>4. (tips # {} => Cardinality(tips) # 0) /\ (picked = {} => Cardinality(picked) = 0)
  BY <1>2, FS_EmptySet
<1> QED
  BY <1>2, <1>3, <1>4, FS_AddElement

LEMMA WantedWithin ==
    ASSUME SelectionSetting, SelectionTyped
    PROVE  /\ V!MinOf \in Nat /\ V!MaxOf \in Nat /\ 1 <= V!MinOf /\ V!MinOf <= V!MaxOf /\ V!MaxOf <= MaxParents
           /\ Wanted \in Nat /\ Wanted <= V!MaxOf /\ (tips # {} => V!MinOf <= Wanted)
<1>1. limits \in Limits /\ Cardinality(tips) \in Nat /\ (tips # {} => Cardinality(tips) # 0)
  BY Picks DEF SelectionTyped
<1>2. ASSUME NEW n \in Nat
      PROVE  /\ V!SelectCount(n) \in Nat /\ V!SelectCount(n) <= V!MaxOf
             /\ n # 0 => V!MinOf <= V!SelectCount(n)
  BY <1>1, CountsWithin
<1> QED
  BY <1>1, <1>2, CountsWithin DEF Wanted

LEMMA SelectionStarts == SelectionSetting /\ V!Init => SelectionInv
<1> SUFFICES ASSUME SelectionSetting, V!Init PROVE SelectionInv
  OBVIOUS
<1>1. TsGenesis \in TsVertex /\ TsParents[TsGenesis] = {}
  BY DEF SelectionSetting
<1>2. /\ tsDag = {TsGenesis} /\ tsPc = "idle" /\ strategy = "random" /\ depth = 0 /\ limits \in Limits
      /\ tips = {} /\ at = TsGenesis /\ steps = 0 /\ todo = 0 /\ picked = {}
      /\ tipSet = {TsGenesis} /\ opening = {} /\ toUnlink = {}
  BY DEF V!Init
<1>3. SelectionTyped
  BY <1>1, <1>2 DEF SelectionTyped, V!Snapshot
<1>4. TipsFollow
  BY <1>1, <1>2 DEF TipsFollow
<1> QED
  BY <1>2, <1>3, <1>4 DEF SelectionInv, TipsThere, TipsApart, DrawsCount, WalksCount, WalksClimb

\* A step of the selection itself leaves the DAG alone.
LEMMA DagKept ==
    ASSUME SelectionInv, UNCHANGED V!dagVars
    PROVE  TipsFollow' /\ V!Leaves' = V!Leaves /\ (tips' = tips => TipsApart')
<1>1. UNCHANGED <<tsDag, tipSet, opening, toUnlink, overtaken>>
  BY DEF V!dagVars
<1>2. TipsFollow'
  BY <1>1 DEF SelectionInv, TipsFollow
<1>3. V!Leaves' = V!Leaves
  BY <1>1 DEF V!Leaves
<1>4. tips' = tips => TipsApart'
  BY <1>1 DEF SelectionInv, TipsApart, V!InOrder, V!IsAncestor, V!Within
<1> QED
  BY <1>2, <1>3, <1>4

\* Whatever other threads insert, the snapshot stays apart.
LEMMA StaysApart ==
    ASSUME TipsApart, tips' = tips, overtaken \subseteq overtaken'
    PROVE  TipsApart'
BY DEF TipsApart, V!InOrder, V!IsAncestor, V!Within

\* The steps of an insertion
LEMMA InsertionStep ==
    ASSUME SelectionSetting, SelectionInv, NEW v \in TsVertex, V!Store(v) \/ V!Unlink(v) \/ V!TipUp(v)
    PROVE  SelectionInv'
<1>0. /\ SelectionTyped /\ TipsFollow /\ TipsThere /\ TipsApart /\ DrawsCount /\ WalksCount /\ WalksClimb
      /\ TsParents \in [TsVertex -> SUBSET TsVertex]
      /\ tsDag \subseteq TsVertex /\ \A u \in tsDag : TsParents[u] \subseteq tsDag
  BY DEF SelectionInv, SelectionTyped, SelectionSetting
<1>1. /\ UNCHANGED <<tsPc, strategy, depth, limits, tips, at, steps, todo, picked, calm>>
      /\ overtaken \subseteq overtaken'
  BY DEF V!Store, V!Unlink, V!TipUp
<1>2. Wanted' = Wanted /\ Walking' = Walking /\ V!MaxOf' = V!MaxOf /\ V!MinOf' = V!MinOf
  BY <1>1 DEF Wanted, Walking, V!SelectCount, V!MinOf, V!MaxOf
<1>3. TipsApart'
  BY <1>0, <1>1, StaysApart
<1>4. TipsThere' /\ DrawsCount' /\ WalksCount'
  BY <1>0, <1>1, <1>2 DEF TipsThere, DrawsCount, WalksCount
<1>5. CASE V!Store(v)
  <2>1. /\ v \notin tsDag /\ TsParents[v] \subseteq tsDag
        /\ tsDag' = tsDag \cup {v} /\ opening' = opening \cup {v}
        /\ toUnlink' = toUnlink \cup ({v} \X TsParents[v])
        /\ overtaken' = overtaken \cup (TsParents[v] \cap opening)
        /\ still' = FALSE /\ tipSet' = tipSet
    BY <1>5 DEF V!Store
  <2>2. SelectionTyped'
    BY <1>0, <1>1, <2>1 DEF SelectionTyped, V!Snapshot
  <2>3. TipsFollow'
    <3>1. tipSet' \subseteq tsDag' /\ opening' \subseteq tsDag' /\ tipSet' \cap opening' = {}
      BY <1>0, <2>1 DEF TipsFollow
    <3>2. \A x \in toUnlink' : x[1] \in opening' /\ x[2] \in TsParents[x[1]] /\ x = <<x[1], x[2]>>
      BY <1>0, <2>1 DEF TipsFollow
    <3>3. ASSUME NEW w \in tsDag', NEW u \in TsParents[w]
          PROVE  /\ u \in tipSet' => u \in overtaken' \/ <<w, u>> \in toUnlink'
                 /\ u \in opening' => u \in overtaken'
      <4>1. CASE w = v
        BY <2>1, <4>1
      <4>2. CASE w # v
        <5>1. w \in tsDag /\ u # v
          BY <1>0, <2>1, <4>2
        <5> QED
          BY <1>0, <2>1, <5>1 DEF TipsFollow
      <4> QED
        BY <4>1, <4>2
    <3>4. \A w \in tsDag' \ opening' : w \in tipSet' \/ \E c \in tsDag' : w \in TsParents[c]
      BY <1>0, <2>1 DEF TipsFollow
    <3> QED
      BY <3>1, <3>2, <3>3, <3>4 DEF TipsFollow
  <2>4. WalksClimb'
    BY <2>1 DEF WalksClimb
  <2> QED
    BY <1>3, <1>4, <2>2, <2>3, <2>4 DEF SelectionInv
<1>6. CASE V!Unlink(v) \/ V!TipUp(v)
  <2>1. UNCHANGED <<tsDag, overtaken, still>>
    BY <1>6 DEF V!Unlink, V!TipUp
  <2>2. SelectionTyped'
    BY <1>0, <1>1, <2>1 DEF SelectionTyped, V!Snapshot
  <2>3. TipsFollow' /\ opening # {}
    <3>1. CASE V!Unlink(v)
      <4>1. PICK p \in TsParents[v] : /\ <<v, p>> \in toUnlink /\ toUnlink' = toUnlink \ {<<v, p>>}
                                      /\ tipSet' = tipSet \ {p}
        BY <3>1 DEF V!Unlink
      <4>2. opening' = opening /\ v \in opening /\ v \in tsDag
        BY <1>0, <3>1, <4>1 DEF V!Unlink, TipsFollow
      <4>3. \A w, u : <<w, u>> = <<v, p>> => u = p
        OBVIOUS
      <4> QED
        BY <1>0, <2>1, <4>1, <4>2, <4>3 DEF TipsFollow
    <3>2. CASE V!TipUp(v)
      <4>1. /\ v \in opening /\ \A p \in TsParents[v] : <<v, p>> \notin toUnlink
            /\ tipSet' = tipSet \cup {v} /\ opening' = opening \ {v} /\ toUnlink' = toUnlink
        BY <3>2 DEF V!TipUp
      <4>2. \A x \in toUnlink : x[1] # v
        BY <1>0, <4>1 DEF TipsFollow
      <4> QED
        BY <1>0, <2>1, <4>1, <4>2 DEF TipsFollow
    <3> QED
      BY <1>6, <3>1, <3>2
  <2>4. WalksClimb'
    BY <1>0, <1>1, <2>1, <2>3 DEF WalksClimb
  <2> QED
    BY <1>3, <1>4, <2>2, <2>3, <2>4 DEF SelectionInv
<1> QED
  BY <1>5, <1>6

LEMMA SelectionStep == ASSUME SelectionSetting, SelectionInv, [V!Next]_tipVars PROVE SelectionInv'
<1> USE DEF SelectionInv
<1>0. /\ SelectionTyped /\ tsDag \subseteq TsVertex /\ \A u \in tsDag : TsParents[u] \subseteq tsDag
      /\ Cardinality(picked) \in Nat /\ todo \in Nat /\ steps \in Nat
      /\ \A t : Cardinality(picked \cup {t}) = IF t \in picked THEN Cardinality(picked) ELSE Cardinality(picked) + 1
  BY Picks DEF SelectionTyped
<1>1. /\ V!MinOf \in Nat /\ V!MaxOf \in Nat /\ 1 <= V!MinOf /\ V!MinOf <= V!MaxOf
      /\ Wanted \in Nat /\ Wanted <= V!MaxOf /\ (tips # {} => V!MinOf <= Wanted)
  BY <1>0, WantedWithin
<1>2. CASE \E v \in TsVertex : V!Store(v) \/ V!Unlink(v) \/ V!TipUp(v)
  BY <1>2, InsertionStep
<1>3. CASE V!Select
  <2>1. PICK s \in V!Snapshot \cup {"mcmc"} :
           /\ strategy' = s
           /\ IF s = "mcmc" THEN depth' \in Depths ELSE depth' = 0
           /\ tsPc' = CASE s = "mcmc" -> "start" [] s = "random" -> "draw" [] OTHER -> "weigh"
    BY <1>3 DEF V!Select
  <2>2. /\ tips' = tipSet /\ todo' = V!SelectCount(V!Cardinality(tipSet)) /\ picked' = {} /\ at' = TsGenesis
        /\ steps' = 0 /\ calm' = (opening = {}) /\ still' = TRUE /\ limits' = limits
        /\ UNCHANGED <<tsDag, tipSet, opening, toUnlink, overtaken>> /\ UNCHANGED V!dagVars
    BY <1>3 DEF V!Select, V!dagVars
  <2>3. /\ opening = {} => tipSet # {} /\ tipSet \subseteq V!Leaves \cup overtaken
        /\ \A p, q \in tipSet : p # q /\ V!InOrder(q) => ~V!IsAncestor(p, q)
        /\ tipSet \subseteq tsDag
    BY <1>0, TipsAre DEF TipsFollow
  <2>4. tsPc' = (IF s = "mcmc" THEN "start" ELSE IF s = "random" THEN "draw" ELSE "weigh")
    BY <2>1
  <2>5. Cardinality(tipSet) \in Nat /\ (tipSet # {} => Cardinality(tipSet) # 0)
    <3>1. tipSet \subseteq TsVertex /\ IsFiniteSet(TsVertex)
      BY <1>0, <2>3 DEF SelectionSetting
    <3> QED
      BY <3>1, FS_Subset, FS_CardinalityType, FS_EmptySet
  <2>6. /\ todo' = V!SelectCount(Cardinality(tipSet)) /\ todo' \in Nat /\ (tipSet # {} => todo' > 0)
    <3>1. todo' = V!SelectCount(Cardinality(tipSet))
      BY <2>2, TipCards
    <3>2. /\ V!SelectCount(Cardinality(tipSet)) \in Nat
          /\ tipSet # {} => V!MinOf <= V!SelectCount(Cardinality(tipSet))
      <4>1. limits \in Limits
        BY <1>0 DEF SelectionTyped
      <4>2. ASSUME NEW n \in Nat
            PROVE  V!SelectCount(n) \in Nat /\ (n # 0 => V!MinOf <= V!SelectCount(n))
        BY <4>1, CountsWithin
      <4> QED
        BY <2>5, <4>2
    <3> QED
      BY <1>1, <3>1, <3>2
  <2>7. Wanted' = todo'
    BY <2>2, <2>6 DEF Wanted, V!SelectCount, V!MinOf, V!MaxOf
  <2>8. Cardinality({}) = 0
    BY FS_EmptySet
  <2>9. SelectionTyped'
    <3>1. depth' \in Nat
      BY <2>1 DEF SelectionSetting
    <3>2. s # "mcmc" => s \in V!Snapshot
      OBVIOUS
    <3> QED
      BY <2>1, <2>2, <2>3, <2>4, <2>6, <3>1, <3>2 DEF SelectionTyped, V!Snapshot
  <2>10. TipsFollow' /\ V!Leaves' = V!Leaves
    BY <2>2, DagKept
  <2>11. TipsApart' /\ TipsThere'
    BY <2>2, <2>3 DEF TipsApart, TipsThere, V!InOrder, V!IsAncestor, V!Within
  <2>12. DrawsCount'
    BY <2>1, <2>2, <2>3, <2>4, <2>6, <2>7, <2>8 DEF DrawsCount
  <2>13. WalksCount'
    BY <2>1, <2>2, <2>3, <2>4, <2>6, <2>7, <2>8 DEF WalksCount, Walking
  <2>14. WalksClimb'
    BY <2>1, <2>2, <2>3, <2>4, <2>10 DEF WalksClimb
  <2> QED
    BY <2>9, <2>10, <2>11, <2>12, <2>13, <2>14
<1>4. CASE V!Weigh
  <2>1. tsPc = "weigh" /\ tsPc' \in {"weigh", "draw"}
    BY <1>4 DEF V!Weigh
  <2>2. UNCHANGED <<tsDag, opening, overtaken, strategy, depth, limits, tips, at, steps, todo, picked, calm, still>> /\ UNCHANGED V!dagVars
    BY <1>4 DEF V!Weigh, V!dagVars
  <2>0. TipsFollow' /\ V!Leaves' = V!Leaves /\ TipsApart'
    BY <2>2, DagKept
  <2>3. SelectionTyped' /\ strategy # "mcmc"
    BY <2>1, <2>2 DEF SelectionTyped, V!Snapshot
  <2> QED
    BY <2>0, <2>1, <2>2, <2>3 DEF TipsThere, DrawsCount, WalksCount, WalksClimb, Wanted, V!SelectCount, V!MinOf, V!MaxOf
<1>5. CASE V!Draw
  <2>1. tsPc = "draw" /\ UNCHANGED <<tsDag, opening, overtaken, strategy, depth, limits, tips, at, steps, calm, still>> /\ UNCHANGED V!dagVars
    BY <1>5 DEF V!Draw, V!dagVars
  <2>0. TipsFollow' /\ V!Leaves' = V!Leaves /\ TipsApart'
    BY <2>1, DagKept
  <2>2. strategy # "mcmc"
    BY <2>1 DEF SelectionTyped
  <2>3. Wanted' = Wanted
    BY <2>1 DEF Wanted, V!SelectCount, V!MinOf, V!MaxOf
  <2>4. CASE tsPc' = "done" /\ UNCHANGED <<picked, todo>> /\ (todo = 0 \/ tips \ picked = {})
    <3>1. SelectionTyped'
      BY <2>1, <2>2, <2>4 DEF SelectionTyped, V!Snapshot
    <3> QED
      BY <2>0, <2>1, <2>2, <2>3, <2>4, <3>1 DEF TipsThere, DrawsCount, WalksCount, WalksClimb
  <2>5. CASE todo # 0 /\ \E t \in tips \ picked : picked' = picked \cup {t} /\ todo' = todo - 1 /\ UNCHANGED tsPc
    <3>1. PICK t \in tips \ picked : picked' = picked \cup {t} /\ todo' = todo - 1 /\ tsPc' = tsPc
      BY <2>5
    <3>2. SelectionTyped'
      BY <2>1, <2>2, <2>5, <3>1 DEF SelectionTyped, V!Snapshot
    <3>3. Cardinality(picked') = Cardinality(picked) + 1
      BY <1>0, <3>1
    <3>4. Cardinality(picked') + todo' = Wanted'
      BY <1>0, <1>1, <2>1, <2>2, <2>3, <3>1, <3>3 DEF DrawsCount
    <3> QED
      BY <2>0, <2>1, <2>2, <3>1, <3>2, <3>4 DEF TipsThere, DrawsCount, WalksCount, WalksClimb
  <2> QED
    BY <1>5, <2>4, <2>5 DEF V!Draw
<1>6. CASE V!StartWalk
  <2>1. tsPc = "start" /\ steps' = 0 /\ UNCHANGED <<tsDag, opening, overtaken, strategy, depth, limits, tips, picked, calm, still>> /\ UNCHANGED V!dagVars
    BY <1>6 DEF V!StartWalk, V!dagVars
  <2>0. TipsFollow' /\ V!Leaves' = V!Leaves /\ TipsApart'
    BY <2>1, DagKept
  <2>2. strategy = "mcmc"
    BY <2>1 DEF SelectionTyped, WalksCount
  <2>3. Wanted' = Wanted /\ V!MaxOf' = V!MaxOf /\ V!Leaves' = V!Leaves /\ (Deep' <=> Deep)
    BY <2>1 DEF Wanted, V!SelectCount, V!MinOf, V!MaxOf, V!Leaves, Deep, V!HeightOf
  <2>4. CASE todo = 0 /\ tsPc' = "fill" /\ UNCHANGED <<at, todo>>
    <3>1. SelectionTyped'
      BY <2>1, <2>2, <2>4 DEF SelectionTyped, V!Snapshot
    <3>2. (tips = {} \/ picked # {}) /\ Cardinality(picked) <= V!MaxOf
      BY <1>0, <1>1, <2>1, <2>2, <2>4 DEF WalksCount, Walking
    <3> QED
      BY <2>0, <2>1, <2>2, <2>3, <2>4, <3>1, <3>2 DEF TipsThere, DrawsCount, WalksCount, WalksClimb
  <2>5. CASE todo # 0 /\ (\E t \in tips : at' = t) /\ todo' = todo - 1 /\ tsPc' = "back"
    <3>1. SelectionTyped'
      BY <2>1, <2>2, <2>5 DEF SelectionTyped, V!Snapshot
    <3>2. Cardinality(picked) + todo' + 1 <= Wanted
      BY <1>0, <1>1, <2>1, <2>2, <2>5 DEF WalksCount, Walking
    <3> QED
      BY <2>0, <2>1, <2>2, <2>3, <2>5, <3>1, <3>2 DEF TipsThere, DrawsCount, WalksCount, WalksClimb, Walking
  <2> QED
    BY <1>6, <2>4, <2>5 DEF V!StartWalk
<1>7. CASE V!WalkBack
  <2>1. tsPc = "back" /\ UNCHANGED <<tsDag, opening, overtaken, strategy, depth, limits, tips, todo, picked, calm, still>> /\ UNCHANGED V!dagVars
    BY <1>7 DEF V!WalkBack, V!dagVars
  <2>0. TipsFollow' /\ V!Leaves' = V!Leaves /\ TipsApart'
    BY <2>1, DagKept
  <2>2. strategy = "mcmc"
    BY <2>1 DEF SelectionTyped, WalksCount
  <2>3. Wanted' = Wanted /\ V!Leaves' = V!Leaves /\ (Deep' <=> Deep)
    BY <2>1 DEF Wanted, V!SelectCount, V!MinOf, V!MaxOf, V!Leaves, Deep, V!HeightOf
  <2>4. CASE tsPc' = "forward" /\ steps' = 0 /\ UNCHANGED at
    <3>1. SelectionTyped'
      BY <2>1, <2>2, <2>4 DEF SelectionTyped, V!Snapshot
    <3>2. steps' <= V!HeightOf[at]
      BY <1>0, <2>4, HeightsRise DEF SelectionTyped
    <3> QED
      BY <2>0, <2>1, <2>2, <2>3, <2>4, <3>1, <3>2 DEF TipsThere, DrawsCount, WalksCount, WalksClimb, Walking
  <2>5. CASE (\E p \in TsParents[at] : at' = p) /\ steps' = steps + 1 /\ UNCHANGED tsPc
    <3>1. SelectionTyped'
      BY <2>1, <2>2, <2>5 DEF SelectionTyped, V!Snapshot
    <3> QED
      BY <2>0, <2>1, <2>2, <2>3, <2>5, <3>1 DEF TipsThere, DrawsCount, WalksCount, WalksClimb, Walking
  <2> QED
    BY <1>7, <2>4, <2>5 DEF V!WalkBack
<1>8. CASE V!WalkForward
  <2>1. tsPc = "forward" /\ UNCHANGED <<tsDag, opening, overtaken, strategy, depth, limits, tips, todo, calm, still>> /\ UNCHANGED V!dagVars
    BY <1>8 DEF V!WalkForward, V!dagVars
  <2>0. TipsFollow' /\ V!Leaves' = V!Leaves /\ TipsApart'
    BY <2>1, DagKept
  <2>2. strategy = "mcmc" /\ at \in tsDag
    BY <2>1 DEF SelectionTyped, WalksCount
  <2>3. Wanted' = Wanted /\ V!Leaves' = V!Leaves /\ (Deep' <=> Deep)
    BY <2>1 DEF Wanted, V!SelectCount, V!MinOf, V!MaxOf, V!Leaves, Deep, V!HeightOf
  <2>4. CASE /\ steps = depth \/ V!Children(at) = {}
             /\ tsPc' = "start" /\ picked' = picked \cup {at} /\ UNCHANGED <<at, steps>>
    <3>1. SelectionTyped'
      BY <2>1, <2>2, <2>4 DEF SelectionTyped, V!Snapshot
    <3>2. Cardinality(picked') + todo <= Wanted
      BY <1>0, <1>1, <2>1, <2>2, <2>4 DEF WalksCount, Walking
    <3>3. ASSUME calm, still, Deep PROVE at \in V!Leaves
      <4>0. toUnlink = {}
        BY <2>1, <2>2, <3>3 DEF WalksClimb, TipsFollow
      <4>1. CASE V!Children(at) = {}
        BY <2>2, <4>0, <4>1 DEF V!Leaves, V!Children
      <4>2. CASE steps = depth
        <5>1. steps <= V!HeightOf[at] /\ V!HeightOf[at] \in Nat /\ depth \in Nat
          BY <1>0, <2>1, <2>2, <3>3, HeightsRise DEF WalksClimb, SelectionTyped
        <5>2. ASSUME NEW c \in tsDag, at \in TsParents[c] PROVE FALSE
          <6>1. V!HeightOf[at] < V!HeightOf[c] /\ V!HeightOf[c] \in Nat
            BY <1>0, <5>2, HeightsRise
          <6>2. V!HeightOf[c] <= depth
            BY <3>3 DEF Deep
          <6> QED
            BY <4>2, <5>1, <6>1, <6>2
        <5> QED
          BY <2>2, <5>2 DEF V!Leaves
      <4> QED
        BY <2>4, <4>1, <4>2
    <3>4. WalksClimb'
      BY <2>1, <2>2, <2>3, <2>4, <3>3 DEF WalksClimb
    <3>5. WalksCount'
      BY <2>1, <2>2, <2>3, <2>4, <3>2, <1>0 DEF WalksCount, Walking
    <3> QED
      BY <2>0, <2>1, <2>2, <3>1, <3>4, <3>5 DEF TipsThere, DrawsCount
  <2>5. CASE (\E c \in V!Children(at) : at' = c) /\ steps' = steps + 1 /\ UNCHANGED <<tsPc, picked>>
    <3>1. at' \in tsDag /\ at \in TsParents[at']
      BY <2>5 DEF V!Children
    <3>2. SelectionTyped'
      BY <2>1, <2>2, <2>5, <3>1 DEF SelectionTyped, V!Snapshot
    <3>3. steps <= V!HeightOf[at] => steps + 1 <= V!HeightOf[at']
      <4>1. V!HeightOf[at] < V!HeightOf[at'] /\ V!HeightOf[at] \in Nat /\ V!HeightOf[at'] \in Nat
        BY <1>0, <2>2, <3>1, HeightsRise
      <4> QED
        BY <1>0, <4>1
    <3> QED
      BY <2>0, <2>1, <2>2, <2>3, <2>5, <3>2, <3>3 DEF TipsThere, DrawsCount, WalksCount, WalksClimb, Walking
  <2> QED
    BY <1>8, <2>4, <2>5 DEF V!WalkForward
<1>9. CASE V!Fill
  <2>1. tsPc = "fill" /\ UNCHANGED <<tsDag, opening, overtaken, strategy, depth, limits, tips, at, steps, todo, calm, still>> /\ UNCHANGED V!dagVars
    BY <1>9 DEF V!Fill, V!dagVars
  <2>0. TipsFollow' /\ V!Leaves' = V!Leaves /\ TipsApart'
    BY <2>1, DagKept
  <2>2. strategy = "mcmc" /\ (tips = {} \/ picked # {}) /\ Cardinality(picked) <= V!MaxOf
    BY <2>1 DEF SelectionTyped, WalksCount
  <2>3. V!MaxOf' = V!MaxOf /\ V!MinOf' = V!MinOf /\ V!Leaves' = V!Leaves /\ (Deep' <=> Deep)
    BY <2>1 DEF V!MinOf, V!MaxOf, V!Leaves, Deep, V!HeightOf
  <2>4. CASE V!Cardinality(picked) < V!MinOf /\ \E t \in tips : picked' = picked \cup {t} /\ UNCHANGED tsPc
    <3>1. PICK t \in tips : picked' = picked \cup {t} /\ tsPc' = tsPc
      BY <2>4
    <3>2. SelectionTyped'
      BY <2>1, <2>2, <3>1 DEF SelectionTyped, V!Snapshot
    <3>3. Cardinality(picked') <= V!MaxOf
      BY <1>0, <1>1, <2>4, <3>1, TipCards
    <3> QED
      BY <2>0, <2>1, <2>2, <2>3, <3>1, <3>2, <3>3 DEF TipsThere, DrawsCount, WalksCount, WalksClimb
  <2>5. CASE ~(V!Cardinality(picked) < V!MinOf /\ tips # {}) /\ tsPc' = "done" /\ UNCHANGED picked
    <3>1. SelectionTyped'
      BY <2>1, <2>2, <2>5 DEF SelectionTyped, V!Snapshot
    <3>2. tips = {} \/ V!MinOf <= Cardinality(picked)
      BY <1>0, <1>1, <2>5, TipCards
    <3> QED
      BY <2>0, <2>1, <2>2, <2>3, <2>5, <3>1, <3>2 DEF TipsThere, DrawsCount, WalksCount, WalksClimb
  <2> QED
    BY <1>9, <2>2, <2>4, <2>5 DEF V!Fill
<1>10. CASE V!Take
  <2>1. /\ tsPc' = "idle" /\ strategy' = "random" /\ depth' = 0 /\ tips' = {} /\ at' = TsGenesis /\ steps' = 0
        /\ todo' = 0 /\ picked' = {} /\ limits' = limits /\ tsDag' = tsDag /\ UNCHANGED V!dagVars
    BY <1>10 DEF V!Take, V!dagVars
  <2>2. SelectionTyped'
    BY <2>1 DEF SelectionTyped, V!Snapshot
  <2>3. TipsFollow'
    BY <2>1, DagKept
  <2> QED
    BY <2>1, <2>2, <2>3 DEF TipsThere, TipsApart, DrawsCount, WalksCount, WalksClimb
<1>11. CASE UNCHANGED tipVars
  <2>1. /\ UNCHANGED <<tsDag, opening, overtaken, tsPc, strategy, depth, limits, tips, at, steps, todo, picked, calm, still>>
        /\ UNCHANGED V!dagVars
    BY <1>11 DEF tipVars, V!dagVars
  <2>0. TipsFollow' /\ V!Leaves' = V!Leaves /\ TipsApart'
    BY <2>1, DagKept
  <2>2. SelectionTyped'
    BY <2>1 DEF SelectionTyped, V!Snapshot
  <2>3. Wanted' = Wanted /\ V!MaxOf' = V!MaxOf /\ V!MinOf' = V!MinOf /\ V!Leaves' = V!Leaves /\ (Deep' <=> Deep)
    BY <2>1 DEF Wanted, V!SelectCount, V!MinOf, V!MaxOf, V!Leaves, Deep, V!HeightOf
  <2> QED
    BY <2>0, <2>1, <2>2, <2>3 DEF TipsThere, DrawsCount, WalksCount, WalksClimb, Walking
<1> QED
  BY <1>2, <1>3, <1>4, <1>5, <1>6, <1>7, <1>8, <1>9, <1>10, <1>11 DEF V!Next

LEMMA SelectionIsGood == SelectionSetting /\ SelectionInv => SelectionHolds
<1> SUFFICES ASSUME SelectionSetting, SelectionInv PROVE V!SelectionHolds
  BY DEF SelectionHolds
<1>0. /\ SelectionTyped /\ TipsThere /\ TipsApart /\ DrawsCount /\ WalksCount /\ WalksClimb
      /\ tsDag \subseteq TsVertex /\ tips \subseteq tsDag /\ picked \subseteq tsDag /\ MaxParents \in Nat
  BY DEF SelectionInv, SelectionTyped, SelectionSetting
<1>1. /\ V!MinOf \in Nat /\ V!MaxOf \in Nat /\ 1 <= V!MinOf /\ V!MinOf <= V!MaxOf /\ V!MaxOf <= MaxParents
      /\ Wanted \in Nat /\ Wanted <= V!MaxOf /\ (tips # {} => V!MinOf <= Wanted)
  BY <1>0, WantedWithin
<1>2. /\ IsFiniteSet(picked) /\ IsFiniteSet(tips) /\ Cardinality(picked) \in Nat /\ Cardinality(tips) \in Nat
      /\ (picked = {} => Cardinality(picked) = 0) /\ (tips # {} => Cardinality(tips) # 0)
  BY <1>0, Picks
\* What both kinds of selection end with
<1>3. ASSUME tsPc = "done"
      PROVE  /\ (tips # {} => picked # {}) /\ Cardinality(picked) <= V!MaxOf
             /\ Cardinality(tips) >= V!MinOf => Cardinality(picked) >= V!MinOf
  <2>1. CASE strategy = "mcmc"
    <3>1. (tips # {} => picked # {}) /\ Cardinality(picked) <= V!MaxOf /\ (tips = {} \/ V!MinOf <= Cardinality(picked))
      BY <1>0, <1>3, <2>1 DEF WalksCount
    <3>2. tips = {} => Cardinality(tips) = 0
      BY FS_EmptySet
    <3> QED
      BY <1>1, <1>2, <3>1, <3>2
  <2>2. CASE strategy # "mcmc"
    <3>1. /\ picked \subseteq tips /\ Cardinality(picked) + todo = Wanted /\ todo \in Nat
          /\ todo = 0 \/ tips \subseteq picked
      BY <1>0, <1>3, <2>2 DEF DrawsCount, SelectionTyped
    <3>2. Cardinality(picked) <= V!MaxOf
      BY <1>1, <1>2, <3>1
    <3>3. CASE todo = 0
      <4>1. Cardinality(picked) = Wanted
        BY <1>2, <3>1, <3>3
      <4>2. tips = {} => Cardinality(tips) = 0
        BY FS_EmptySet
      <4> QED
        BY <1>1, <1>2, <3>1, <3>2, <4>1, <4>2
    <3>4. CASE tips \subseteq picked
      <4>1. picked = tips
        BY <3>1, <3>4
      <4> QED
        BY <3>1, <3>2, <4>1
    <3> QED
      BY <3>1, <3>3, <3>4
  <2> QED
    BY <2>1, <2>2
<1>4. ASSUME tsPc = "done", picked # {}, \A p, q \in picked : p # q => ~V!IsAncestor(p, q)
      PROVE  V!ValidateParents(picked)
  <2>1. V!Cardinality(picked) <= MaxParents
    BY <1>0, <1>1, <1>2, <1>3, <1>4, TipCards
  <2> QED
    BY <1>0, <1>3, <1>4, <2>1 DEF V!ValidateParents
<1>5. V!SnapshotIsValid
  <2> SUFFICES ASSUME tsPc = "done", strategy \in V!Snapshot, picked # {}, \A p \in picked : V!InOrder(p)
               PROVE  V!ValidateParents(picked)
    BY DEF V!SnapshotIsValid, V!Done
  <2>1. picked \subseteq tips
    BY <1>0 DEF DrawsCount, V!Snapshot
  <2> QED
    BY <1>0, <1>4, <2>1 DEF TipsApart
<1>6. V!WalkEndsAtTips
  <2> SUFFICES ASSUME tsPc = "done", strategy = "mcmc", calm, still, Deep, tips \cap overtaken = {}
               PROVE  picked \subseteq V!Leaves /\ V!ValidateParents(picked)
    BY DEF V!WalkEndsAtTips, V!Done, Deep
  <2>1. picked \subseteq V!Leaves
    BY <1>0 DEF WalksClimb
  <2>2. picked # {}
    BY <1>0, <1>3 DEF TipsThere
  <2> QED
    BY <1>0, <1>4, <2>1, <2>2, LeavesAre
<1>7. V!SelectionIsUsable
  <2> SUFFICES ASSUME tsPc = "done"
               PROVE  /\ picked = {} => tips = {} /\ ~calm
                      /\ picked \subseteq tsDag
                      /\ V!Cardinality(picked) <= V!MaxOf
                      /\ V!Cardinality(tips) >= V!MinOf => V!Cardinality(picked) >= V!MinOf
                      /\ \A p \in picked : V!SelectedHeight > V!HeightOf[p]
    BY DEF V!SelectionIsUsable, V!Done
  <2>1. ASSUME NEW p \in picked PROVE V!SelectedHeight > V!HeightOf[p]
    <3> DEFINE Y == {V!HeightOf[q] : q \in picked}
    <3>1. Y \subseteq Nat /\ Y # {} /\ IsFiniteSet(Y) /\ V!HeightOf[p] \in Y
      BY <1>0, <1>2, FiniteImage, HeightsRise
    <3>2. V!SelectedHeight = 1 + V!Max(Y)
      BY DEF V!SelectedHeight
    <3> HIDE DEF Y
    <3>3. V!Max(Y) \in Nat /\ V!Max(Y) >= V!HeightOf[p] /\ V!HeightOf[p] \in Nat
      BY <3>1, LargestIn
    <3> QED
      BY <3>2, <3>3
  <2> QED
    BY <1>0, <1>3, <2>1, TipCards DEF TipsThere
<1> QED
  BY <1>5, <1>6, <1>7 DEF V!SelectionHolds

\* For every finite DAG, any number of threads that insert vertices under a
\* selection in any order of their steps, all limits of at least one parent and
\* every depth: what a strategy draws from its snapshot passes validate_parents
\* unless a vertex was overtaken by its child, a deep enough walk over a DAG at
\* rest ends at leaves, and every selection has enough parents, not too many,
\* and the height above them; it is empty only if a vertex was being inserted
\* when the tips were read.
THEOREM SelectionProvedToHold == ASSUME SelectionSetting PROVE TipSpec => []SelectionHolds
<1>1. V!Init => SelectionInv
  BY SelectionStarts
<1>2. SelectionInv /\ [V!Next]_tipVars => SelectionInv'
  BY SelectionStep
<1>3. SelectionInv => SelectionHolds
  BY SelectionIsGood
<1> QED
  BY <1>1, <1>2, <1>3, PTL DEF TipSpec


-----------------------------------------------------------------------------
(***************************************************************************)
(* Metrics: reset takes one lock after the other while others record.      *)
(***************************************************************************)

\* Latencies and numbers of transactions are unsigned and of some finite width.
MetricSetting ==
    /\ IsFiniteSet(Latency) /\ Latency # {} /\ Latency \subseteq Nat
    /\ TxCount \subseteq Nat /\ WindowSize \in Nat /\ MaxHistory \in Nat

LEMMA MetricSums == \A f : M!SumFunction(f) = SumFunction(f)
BY DEF M!SumFunction, M!SumFunctionOnSet, M!FoldFunctionOnSet, M!MapThenFoldSet, SumFunction, SumFunctionOnSet, FoldFunctionOnSet, MapThenFoldSet

LEMMA UpTo == ASSUME NEW n \in Nat PROVE IsFiniteSet(1..n)
<1>1. 1 \in Int /\ n \in Int
  OBVIOUS
<1> QED
  BY <1>1, FS_Interval

\* The sum of a sequence with its last element split off
LEMMA LastSums ==
    ASSUME NEW n \in Nat, NEW f \in [1..(n + 1) -> Nat]
    PROVE  LET g == [i \in 1..n |-> f[i]]
           IN /\ SumFunction(g) \in Nat /\ SumFunction(f) \in Nat
              /\ SumFunction(f) = SumFunction(g) + f[n + 1]
<1> DEFINE T == 1..(n + 1)
           g == [i \in 1..n |-> f[i]]
           h == [i \in T \ {n + 1} |-> f[i]]
<1>1. IsFiniteSet(T) /\ n + 1 \in T /\ T \ {n + 1} = 1..n
  <2>1. n + 1 \in Nat /\ n + 1 \in T /\ T \ {n + 1} = 1..n
    OBVIOUS
  <2> QED
    BY <2>1, UpTo
<1>2. g = h
  BY <1>1
<1>3. f \in [T -> Int] /\ f \in [T -> Nat]
  OBVIOUS
<1>4. SumFunction(h) \in Int /\ SumFunction(f) = SumFunction(h) + f[n + 1]
  <2> HIDE DEF T
  <2> QED
    BY <1>1, <1>3, SumExtends
<1>5. IsFiniteSet(1..n) /\ g \in [1..n -> Nat]
  <2>1. g \in [1..n -> Nat]
    OBVIOUS
  <2> QED
    BY <2>1, UpTo
<1> HIDE DEF g, T, h
<1>6. SumFunction(g) \in Nat /\ SumFunction(f) \in Nat
  BY <1>1, <1>3, <1>5, SumIsNat
<1> QED
  BY <1>2, <1>4, <1>6 DEF g

\* and with its first one
LEMMA FirstSums ==
    ASSUME NEW n \in Nat, NEW f \in [1..(n + 1) -> Nat]
    PROVE  LET g == [i \in 1..n |-> f[i + 1]]
           IN /\ SumFunction(g) \in Nat /\ SumFunction(f) \in Nat
              /\ SumFunction(f) = f[1] + SumFunction(g)
<1> DEFINE Tl(k, s) == [i \in 1..k |-> s[i + 1]]
           Fr(k, s) == [i \in 1..k |-> s[i]]
           Good == {k \in Nat : \A s \in [1..(k + 1) -> Nat] :
                        SumFunction(s) = s[1] + SumFunction(Tl(k, s))}
<1>1. \A k \in Nat : \A s \in [1..(k + 1) -> Nat] :
         /\ SumFunction(Fr(k, s)) \in Nat /\ SumFunction(s) \in Nat
         /\ SumFunction(s) = SumFunction(Fr(k, s)) + s[k + 1]
  BY LastSums
<1>2. \A s : DOMAIN s = {} => SumFunction(s) = 0
  BY SumOfZeros, FS_EmptySet
<1>3. 0 \in Good
  <2> SUFFICES ASSUME NEW s \in [1..(0 + 1) -> Nat]
               PROVE  SumFunction(s) = s[1] + SumFunction(Tl(0, s))
    BY DEF Good
  <2>1. DOMAIN Fr(0, s) = {} /\ DOMAIN Tl(0, s) = {}
    OBVIOUS
  <2> HIDE DEF Fr, Tl
  <2>2. s[1] \in Nat
    OBVIOUS
  <2>3. SumFunction(s) = SumFunction(Fr(0, s)) + s[0 + 1]
    BY <1>1
  <2> QED
    BY <1>2, <2>1, <2>2, <2>3
<1>4. ASSUME NEW k \in Nat, k \in Good PROVE k + 1 \in Good
  <2>0. k + 1 \in Nat
    OBVIOUS
  <2> SUFFICES ASSUME NEW s \in [1..((k + 1) + 1) -> Nat]
               PROVE  SumFunction(s) = s[1] + SumFunction(Tl(k + 1, s))
    <3> HIDE DEF Tl
    <3> QED
      BY <2>0
  <2>1. Fr(k + 1, s) \in [1..(k + 1) -> Nat] /\ Fr(k + 1, s)[1] = s[1]
    OBVIOUS
  <2>2. Tl(k + 1, s) \in [1..(k + 1) -> Nat] /\ Tl(k + 1, s)[k + 1] = s[(k + 1) + 1]
    OBVIOUS
  <2>3. Fr(k, Tl(k + 1, s)) = Tl(k, Fr(k + 1, s))
    OBVIOUS
  <2>4. s[1] \in Nat /\ s[(k + 1) + 1] \in Nat
    OBVIOUS
  <2> HIDE DEF Fr, Tl
  <2>5. SumFunction(Fr(k + 1, s)) = s[1] + SumFunction(Tl(k, Fr(k + 1, s)))
    BY <1>4, <2>1 DEF Good
  <2>6. SumFunction(s) = SumFunction(Fr(k + 1, s)) + s[(k + 1) + 1]
    BY <1>1
  <2>7. /\ SumFunction(Tl(k + 1, s)) = SumFunction(Fr(k, Tl(k + 1, s))) + s[(k + 1) + 1]
        /\ SumFunction(Fr(k, Tl(k + 1, s))) \in Nat
    BY <1>1, <2>2
  <2> QED
    BY <2>3, <2>4, <2>5, <2>6, <2>7
<1>5. \A k \in Nat : k \in Good
  <2> HIDE DEF Good
  <2> QED
    BY <1>3, <1>4, NatSetInduction
<1>6. SumFunction(f) = f[1] + SumFunction(Tl(n, f))
  BY <1>5 DEF Good
<1>7. IsFiniteSet(1..n) /\ Tl(n, f) \in [1..n -> Nat]
  <2>1. Tl(n, f) \in [1..n -> Nat]
    OBVIOUS
  <2> QED
    BY <2>1, UpTo
<1> HIDE DEF Tl
<1>8. SumFunction(Tl(n, f)) \in Nat
  BY <1>7, SumIsNat
<1> QED
  BY <1>1, <1>6, <1>8 DEF Tl

LEMMA TotalIs ==
    ASSUME NEW s \in Seq(Nat)
    PROVE  M!Total(s) \in Nat /\ M!Total(s) = SumFunction(s)
<1>1. Len(s) \in Nat /\ s \in [1..Len(s) -> Nat]
  OBVIOUS
<1>2. IsFiniteSet(1..Len(s))
  BY <1>1, UpTo
<1> QED
  BY <1>1, <1>2, SumIsNat, MetricSums DEF M!Total

LEMMA EmptyTotal == M!Total(<< >>) = 0
<1>1. DOMAIN << >> = {}
  OBVIOUS
<1> QED
  BY <1>1, FS_EmptySet, SumOfZeros, MetricSums DEF M!Total

LEMMA AppendTotals ==
    ASSUME NEW s \in Seq(Nat), NEW x \in Nat
    PROVE  M!Total(Append(s, x)) = M!Total(s) + x
<1> DEFINE n == Len(s)
           t == Append(s, x)
<1>1. n \in Nat /\ t \in Seq(Nat) /\ t \in [1..(n + 1) -> Nat] /\ t[n + 1] = x
  <2>1. t \in Seq(Nat) /\ Len(t) = n + 1 /\ t[n + 1] = x
    BY AppendProperties
  <2>2. t \in [1..Len(t) -> Nat] /\ n \in Nat
    <3> HIDE DEF t
    <3> QED
      BY <2>1, LenProperties
  <2> QED
    BY <2>1, <2>2
<1>2. s = [i \in 1..n |-> t[i]]
  OBVIOUS
<1> HIDE DEF t, n
<1>3. SumFunction(t) = SumFunction([i \in 1..n |-> t[i]]) + t[n + 1]
  BY <1>1, LastSums
<1> QED
  BY <1>1, <1>2, <1>3, TotalIs DEF t

\* What is left of a sequence when some of its front is dropped
LEMMA RestTotals ==
    ASSUME NEW s \in Seq(Nat), NEW m \in 0..Len(s)
    PROVE  LET t == SubSeq(s, m + 1, Len(s))
           IN t \in Seq(Nat) /\ Len(t) = Len(s) - m /\ M!Total(t) <= M!Total(s)
<1> DEFINE n == Len(s)
           Rest(k) == SubSeq(s, k + 1, n)
           Good == {k \in Nat : k <= n => M!Total(Rest(k)) <= M!Total(s)}
<1>1. n \in Nat /\ \A k \in 0..n : Rest(k) \in Seq(Nat) /\ Len(Rest(k)) = n - k
  OBVIOUS
<1>2. 0 \in Good
  <2>1. Rest(0) = s
    OBVIOUS
  <2> HIDE DEF Rest
  <2> QED
    BY <2>1, TotalIs
<1>3. ASSUME NEW k \in Nat, k \in Good PROVE k + 1 \in Good
  <2> SUFFICES ASSUME k + 1 <= n PROVE M!Total(Rest(k + 1)) <= M!Total(s)
    OBVIOUS
  <2>1. k \in 0..n /\ k + 1 \in 0..n /\ n - (k + 1) \in Nat
    BY <1>1
  <2>2. Rest(k) \in [1..((n - (k + 1)) + 1) -> Nat]
    <3>1. Rest(k) \in Seq(Nat) /\ Len(Rest(k)) = (n - (k + 1)) + 1
      <4> HIDE DEF Rest
      <4> QED
        BY <1>1, <2>1
    <3> HIDE DEF Rest, n
    <3> QED
      BY <3>1, LenProperties
  <2>3. Rest(k + 1) = [i \in 1..(n - (k + 1)) |-> Rest(k)[i + 1]]
    BY <1>1, <2>1
  <2>4. Rest(k)[1] \in Nat
    BY <2>1, <2>2
  <2>5. M!Total(Rest(k)) <= M!Total(s)
    BY <1>3, <2>1
  <2> HIDE DEF Rest, n
  <2>6. SumFunction(Rest(k)) = Rest(k)[1] + SumFunction(Rest(k + 1))
    BY <2>1, <2>2, <2>3, FirstSums
  <2>7. /\ M!Total(Rest(k)) = SumFunction(Rest(k)) /\ M!Total(Rest(k)) \in Nat
        /\ M!Total(Rest(k + 1)) = SumFunction(Rest(k + 1)) /\ M!Total(Rest(k + 1)) \in Nat
        /\ M!Total(s) \in Nat
    BY <1>1, <2>1, TotalIs
  <2> QED
    BY <2>4, <2>5, <2>6, <2>7
<1>4. \A k \in Nat : k \in Good
  <2> HIDE DEF Good
  <2> QED
    BY <1>2, <1>3, NatSetInduction
<1>5. m \in Nat /\ m <= n
  BY <1>1
<1>6. M!Total(Rest(m)) <= M!Total(s)
  BY <1>4, <1>5
<1> QED
  BY <1>1, <1>6

\* A queue after push_back, full or not
LEMMA PushTotals ==
    ASSUME NEW s \in Seq(Nat), NEW x \in Nat, NEW size \in Nat
    PROVE  LET t == M!Push(s, x, size)
           IN t \in Seq(Nat) /\ Len(t) <= Len(s) + 1 /\ M!Total(t) <= M!Total(s) + x
<1> DEFINE u == SubSeq(s, 2, Len(s))
<1>1. u \in Seq(Nat) /\ Len(u) <= Len(s) /\ M!Total(u) <= M!Total(s)
  <2>1. CASE Len(s) = 0
    <3>1. u = s
      BY <2>1
    <3>2. Len(s) <= Len(s) /\ M!Total(s) <= M!Total(s)
      BY TotalIs
    <3> QED
      BY <3>1, <3>2, Zenon
  <2>2. CASE Len(s) # 0
    <3>1. 1 \in 0..Len(s)
      BY <2>2
    <3>2. SubSeq(s, 1 + 1, Len(s)) = u
      OBVIOUS
    <3> QED
      BY <3>1, <3>2, RestTotals
  <2> QED
    BY <2>1, <2>2
<1> HIDE DEF u
<1>2. \A v \in {s, u} : /\ Append(v, x) \in Seq(Nat) /\ Len(Append(v, x)) = Len(v) + 1
                        /\ M!Total(Append(v, x)) = M!Total(v) + x
  BY <1>1, AppendTotals
<1>3. M!Total(s) \in Nat /\ M!Total(u) \in Nat /\ Len(s) \in Nat /\ Len(u) \in Nat
  BY <1>1, TotalIs
<1>4. M!Push(s, x, size) \in {Append(s, x), Append(u, x)}
  BY DEF M!Push, u
<1>5. \A v \in {s, u} : /\ Append(v, x) \in Seq(Nat) /\ Len(Append(v, x)) <= Len(s) + 1
                        /\ M!Total(Append(v, x)) <= M!Total(s) + x
  BY <1>1, <1>2, <1>3
<1> QED
  BY <1>4, <1>5, Zenon

LEMMA MetricMax == \A X : M!Max(X) = V!Max(X) /\ M!Min(X) = G!Min(X)
BY DEF M!Max, V!Max, M!Min, G!Min

\* p arranges the values of s in ascending order.
Arranges(p, s, n) ==
    /\ p \in [1..n -> 1..n] /\ \A i, j \in 1..n : p[i] = p[j] => i = j
    /\ \A i, j \in 1..n : i <= j => s[p[i]] <= s[p[j]]

\* Every sequence can be sorted: the largest value goes last, and the value it
\* displaces takes its place among the others.
LEMMA SortExists == \A n \in Nat : \A s \in [1..n -> Nat] : \E p : Arranges(p, s, n)
<1> DEFINE Good == {n \in Nat : \A s \in [1..n -> Nat] : \E p : Arranges(p, s, n)}
<1>1. 0 \in Good
  <2> SUFFICES ASSUME NEW s \in [1..0 -> Nat] PROVE \E p : Arranges(p, s, 0)
    OBVIOUS
  <2>1. Arranges([i \in 1..0 |-> i], s, 0)
    BY DEF Arranges
  <2> QED
    BY <2>1
<1>2. ASSUME NEW n \in Nat, n \in Good PROVE n + 1 \in Good
  <2>0. n + 1 \in Nat
    OBVIOUS
  <2> SUFFICES ASSUME NEW s \in [1..(n + 1) -> Nat] PROVE \E p : Arranges(p, s, n + 1)
    BY <2>0
  <2>1. PICK m \in 1..(n + 1) : \A i \in 1..(n + 1) : s[i] <= s[m]
    <3> DEFINE X == {s[i] : i \in 1..(n + 1)}
    <3>1. IsFiniteSet(X)
      BY <2>0, UpTo, FiniteImage
    <3>2. X \subseteq Nat /\ s[1] \in X
      OBVIOUS
    <3>3. V!Max(X) \in X /\ \A k \in X : V!Max(X) >= k
      <4> HIDE DEF X
      <4> QED
        BY <3>1, <3>2, LargestIn
    <3>4. PICK m \in 1..(n + 1) : s[m] = V!Max(X)
      BY <3>3
    <3>5. \A i \in 1..(n + 1) : s[i] \in X /\ s[i] \in Nat
      OBVIOUS
    <3> HIDE DEF X
    <3>6. \A i \in 1..(n + 1) : s[m] >= s[i]
      BY <3>3, <3>4, <3>5
    <3> QED
      BY <3>5, <3>6
  <2> DEFINE t == [i \in 1..n |-> IF i = m THEN s[n + 1] ELSE s[i]]
  <2>2. t \in [1..n -> Nat]
    OBVIOUS
  <2>3. PICK q : Arranges(q, t, n)
    <3> HIDE DEF t
    <3> QED
      BY <1>2, <2>2
  <2> DEFINE p == [i \in 1..(n + 1) |-> IF i = n + 1 THEN m ELSE IF q[i] = m THEN n + 1 ELSE q[i]]
  <2>4. /\ \A i \in 1..n : q[i] \in 1..n
        /\ \A i, j \in 1..n : q[i] = q[j] => i = j
        /\ \A i, j \in 1..n : i <= j => t[q[i]] <= t[q[j]]
    BY <2>3 DEF Arranges
  <2>5. p \in [1..(n + 1) -> 1..(n + 1)] /\ p[n + 1] = m
    BY <2>4
  <2>6. \A i \in 1..n : /\ p[i] = IF q[i] = m THEN n + 1 ELSE q[i]
                        /\ p[i] # m /\ s[p[i]] = t[q[i]]
    BY <2>4
  <2>7. \A i \in 1..(n + 1) : i = n + 1 \/ i \in 1..n
    OBVIOUS
  <2> HIDE DEF p, t
  <2>8. \A i, j \in 1..(n + 1) : p[i] = p[j] => i = j
    <3> SUFFICES ASSUME NEW i \in 1..(n + 1), NEW j \in 1..(n + 1), p[i] = p[j] PROVE i = j
      OBVIOUS
    <3>1. CASE i \in 1..n /\ j \in 1..n
      <4>1. q[i] \in 1..n /\ q[j] \in 1..n /\ n + 1 \notin 1..n
        BY <2>4, <3>1
      <4>2. q[i] = q[j]
        BY <2>6, <3>1, <4>1
      <4> QED
        BY <2>4, <3>1, <4>2
    <3> QED
      BY <2>5, <2>6, <2>7, <3>1
  <2>9. \A i, j \in 1..(n + 1) : i <= j => s[p[i]] <= s[p[j]]
    <3> SUFFICES ASSUME NEW i \in 1..(n + 1), NEW j \in 1..(n + 1), i <= j PROVE s[p[i]] <= s[p[j]]
      OBVIOUS
    <3>1. CASE j = n + 1
      BY <2>1, <2>5, <3>1
    <3>2. CASE j \in 1..n
      <4>1. i \in 1..n
        BY <3>2
      <4> QED
        BY <2>4, <2>6, <3>2, <4>1
    <3> QED
      BY <2>7, <3>1, <3>2
  <2>10. Arranges(p, s, n + 1)
    BY <2>5, <2>8, <2>9 DEF Arranges
  <2> QED
    BY <2>10
<1>3. \A n \in Nat : n \in Good
  <2> HIDE DEF Good
  <2> QED
    BY <1>1, <1>2, NatSetInduction
<1> QED
  BY <1>3

LEMMA SortedIs ==
    ASSUME NEW s \in Seq(Nat)
    PROVE  /\ \A i, j \in DOMAIN s : i <= j => M!Sorted(s)[i] <= M!Sorted(s)[j]
           /\ \A i \in DOMAIN s : \E j \in DOMAIN s : M!Sorted(s)[i] = s[j]
<1> DEFINE n == Len(s)
           Sorts(p) == M!IsInjective(p) /\ \A i, j \in DOMAIN s : i <= j => s[p[i]] <= s[p[j]]
           q == CHOOSE p \in [DOMAIN s -> DOMAIN s] : Sorts(p)
<1>1. n \in Nat /\ s \in [1..n -> Nat] /\ DOMAIN s = 1..n
  OBVIOUS
<1>2. PICK p : Arranges(p, s, n)
  BY <1>1, SortExists
<1>3. p \in [DOMAIN s -> DOMAIN s] /\ Sorts(p)
  BY <1>1, <1>2 DEF Arranges, M!IsInjective
<1>4. q \in [DOMAIN s -> DOMAIN s] /\ Sorts(q)
  <2> HIDE DEF Sorts
  <2> QED
    BY <1>3
<1>5. M!Sorted(s) = [i \in DOMAIN s |-> s[q[i]]]
  BY DEF M!Sorted
<1> HIDE DEF q
<1> QED
  BY <1>4, <1>5

\* What reset may have left to do
ResetRests ==
    {<< >>, <<"fin">>, <<"conf", "fin">>, <<"window", "conf", "fin">>, <<"acc", "window", "conf", "fin">>}

\* The totals are cleared and the window of this name is not yet.
Uncleared(w) == w \in {"conf", "fin", "window"} /\ resetting \in
    CASE w = "window" -> {<<"window", "conf", "fin">>}
      [] w = "conf" -> {<<"window", "conf", "fin">>, <<"conf", "fin">>}
      [] w = "fin" -> {<<"window", "conf", "fin">>, <<"conf", "fin">>, <<"fin">>}

MetricTyped ==
    /\ acc \in [vertices : Nat, txs : Nat, sum : [M!Kind -> Nat], count : [M!Kind -> Nat]]
    /\ window \in Seq(Nat) /\ history \in Seq(Nat) /\ resetting \in ResetRests
    /\ lat \in [M!Kind -> Seq(Nat)] /\ recording \in [M!Kind -> {<< >>} \cup {<<l>> : l \in Latency}]

\* A latency that is being recorded is already in its window.
Added(r) == IF r = << >> THEN 0 ELSE r[1]
Adding(r) == IF r = << >> THEN 0 ELSE 1

WindowCounted == ~Uncleared("window") => Len(window) <= acc.vertices /\ M!Total(window) <= acc.txs
LatenciesCounted ==
    \A k \in M!Kind : ~Uncleared(k) => /\ Len(lat[k]) <= acc.count[k] + Adding(recording[k])
                                       /\ M!Total(lat[k]) <= acc.sum[k] + Added(recording[k])

MetricInv == MetricTyped /\ WindowCounted /\ LatenciesCounted /\ M!AveragesAreInRange

Totals(K) == [vertices : Nat, txs : Nat, sum : [K -> Nat], count : [K -> Nat]]

LEMMA VertexCounted ==
    ASSUME NEW K, NEW a \in Totals(K), NEW n \in Nat
    PROVE  LET b == [a EXCEPT !.vertices = @ + 1, !.txs = @ + n]
           IN /\ b \in Totals(K) /\ b.vertices = a.vertices + 1 /\ b.txs = a.txs + n
              /\ b.sum = a.sum /\ b.count = a.count
<1> DEFINE v == a.vertices + 1
           t == a.txs + n
           b == [a EXCEPT !.vertices = v, !.txs = t]
<1>1. v \in Nat /\ t \in Nat
  BY DEF Totals
<1>2. b = [a EXCEPT !.vertices = @ + 1, !.txs = @ + n]
  OBVIOUS
<1> HIDE DEF v, t
<1>3. b \in Totals(K)
  BY <1>1 DEF Totals
<1>4. b.vertices = v /\ b.txs = t /\ b.sum = a.sum /\ b.count = a.count
  BY DEF Totals
<1> HIDE DEF b
<1> QED
  BY <1>2, <1>3, <1>4, Zenon DEF v, t

LEMMA LatencyCounted ==
    ASSUME NEW K, NEW a \in Totals(K), NEW k \in K, NEW l \in Nat
    PROVE  [a EXCEPT !.sum[k] = @ + l, !.count[k] = @ + 1] \in Totals(K)
<1>1. a.sum \in [K -> Nat] /\ a.count \in [K -> Nat]
  BY DEF Totals
<1> DEFINE s == [a.sum EXCEPT ![k] = @ + l]
           c == [a.count EXCEPT ![k] = @ + 1]
<1>2. s \in [K -> Nat] /\ c \in [K -> Nat]
  BY <1>1
<1>3. [a EXCEPT !.sum[k] = @ + l, !.count[k] = @ + 1] = [a EXCEPT !.sum = s, !.count = c]
  BY <1>1 DEF Totals
<1> HIDE DEF s, c
<1>4. [a EXCEPT !.sum = s, !.count = c] \in Totals(K)
  BY <1>2 DEF Totals
<1> QED
  BY <1>3, <1>4, Zenon

LEMMA MetricStarts == MetricSetting /\ M!Init => MetricInv
<1> SUFFICES ASSUME MetricSetting, M!Init PROVE MetricInv
  OBVIOUS
<1>1. acc = M!NoTotals /\ window = << >> /\ resetting = << >> /\ history = << >>
      /\ lat = [k \in M!Kind |-> << >>] /\ recording = [k \in M!Kind |-> << >>]
  BY DEF M!Init
<1>2. acc.vertices = 0 /\ acc.txs = 0 /\ acc.sum = [k \in M!Kind |-> 0] /\ acc.count = [k \in M!Kind |-> 0]
  BY <1>1 DEF M!NoTotals
<1>3. MetricTyped
  <2>1. acc \in [vertices : Nat, txs : Nat, sum : [M!Kind -> Nat], count : [M!Kind -> Nat]]
    BY <1>1 DEF M!NoTotals
  <2> QED
    BY <1>1, <2>1 DEF MetricTyped, ResetRests
<1>4. WindowCounted /\ LatenciesCounted
  BY <1>1, <1>2, EmptyTotal DEF WindowCounted, LatenciesCounted, Adding, Added
<1>5. M!AveragesAreInRange
  <2>1. M!Min(Latency) \in Nat /\ M!Max(Latency) \in Nat
    BY MetricMax, LeastIn, LargestIn DEF MetricSetting
  <2> QED
    BY <1>2, <2>1 DEF M!AveragesAreInRange
<1> QED
  BY <1>3, <1>4, <1>5 DEF MetricInv

\* What is added to a part may be added to the bound.
LEMMA AddedUnder ==
    ASSUME NEW a \in Nat, NEW b \in Nat, NEW c \in Nat, NEW d \in Nat, a <= b + d, b <= c
    PROVE  a <= c + d
  OBVIOUS

LEMMA MetricStep == ASSUME MetricSetting, MetricInv, [M!Next]_metricVars PROVE MetricInv'
<1> DEFINE lo == M!Min(Latency)
           hi == M!Max(Latency)
<1>1. lo \in Nat /\ hi \in Nat /\ \A l \in Latency : l \in Nat /\ lo <= l /\ l <= hi
  <2>1. lo \in Latency /\ hi \in Latency /\ \A l \in Latency : lo <= l /\ hi >= l
    BY MetricMax, LeastIn, LargestIn DEF MetricSetting
  <2>2. Latency \subseteq Nat
    BY DEF MetricSetting
  <2> HIDE DEF lo, hi
  <2> QED
    BY <2>1, <2>2
<1> USE DEF MetricInv
<1>2. CASE M!RecordVertex
  <2>1. PICK n \in TxCount, old \in 0..Len(window) :
            /\ acc' = [acc EXCEPT !.vertices = @ + 1, !.txs = @ + n]
            /\ window' = SubSeq(Append(window, n), old + 1, Len(window) + 1)
    BY <1>2 DEF M!RecordVertex
  <2>2. UNCHANGED <<lat, recording, resetting, history>>
    BY <1>2 DEF M!RecordVertex
  <2>3. n \in Nat /\ window \in Seq(Nat) /\ Len(window) \in Nat
    <3>1. n \in Nat
      BY DEF MetricSetting
    <3>2. window \in Seq(Nat)
      BY DEF MetricTyped
    <3> QED
      BY <3>1, <3>2, LenProperties
  <2> DEFINE u == Append(window, n)
  <2>4. u \in Seq(Nat) /\ Len(u) = Len(window) + 1 /\ M!Total(u) = M!Total(window) + n
    BY <2>3, AppendTotals, AppendProperties
  <2>5. old \in 0..Len(u)
    BY <2>3, <2>4
  <2>6. window' = SubSeq(u, old + 1, Len(u))
    BY <2>1, <2>4
  <2> HIDE DEF u
  <2>7. /\ window' \in Seq(Nat) /\ Len(window') = Len(window) + 1 - old
        /\ M!Total(window') <= M!Total(window) + n
    BY <2>4, <2>5, <2>6, RestTotals
  <2>8. /\ acc' \in [vertices : Nat, txs : Nat, sum : [M!Kind -> Nat], count : [M!Kind -> Nat]]
        /\ acc'.vertices = acc.vertices + 1 /\ acc'.txs = acc.txs + n
        /\ acc'.sum = acc.sum /\ acc'.count = acc.count
    <3>1. acc \in Totals(M!Kind)
      BY DEF MetricTyped, Totals
    <3> QED
      BY <2>1, <2>3, <3>1, VertexCounted DEF Totals
  <2>9. MetricTyped'
    BY <2>2, <2>7, <2>8 DEF MetricTyped
  <2>10. WindowCounted'
    <3>1. M!Total(window) \in Nat /\ M!Total(window') \in Nat /\ acc.vertices \in Nat /\ acc.txs \in Nat
      BY <2>3, <2>7, TotalIs DEF MetricTyped
    <3> SUFFICES ASSUME ~Uncleared("window")' PROVE Len(window') <= acc'.vertices /\ M!Total(window') <= acc'.txs
      BY DEF WindowCounted, M!Total
    <3>2. ~Uncleared("window")
      BY <2>2 DEF Uncleared
    <3>3. Len(window) <= acc.vertices /\ M!Total(window) <= acc.txs
      BY <3>2 DEF WindowCounted
    <3>4. old \in Nat /\ Len(window') <= Len(window) + 1
      BY <2>3, <2>7
    <3>5. Len(window') \in Nat
      BY <2>7
    <3>6. Len(window') <= acc'.vertices
      BY <2>3, <2>8, <3>1, <3>3, <3>4, <3>5
    <3>7. M!Total(window') <= acc'.txs
      BY <2>3, <2>7, <2>8, <3>1, <3>3
    <3> QED
      BY <3>6, <3>7
  <2> QED
    BY <2>2, <2>8, <2>9, <2>10 DEF LatenciesCounted, M!AveragesAreInRange, Uncleared, M!Total
<1>3. CASE M!StartReset
  <2>1. resetting = << >> /\ resetting' = <<"acc", "window", "conf", "fin">>
        /\ UNCHANGED <<acc, window, lat, recording, history>>
    BY <1>3 DEF M!StartReset, M!ResetSteps
  <2>2. \A w : ~Uncleared(w) /\ ~Uncleared(w)'
    BY <2>1 DEF Uncleared
  <2> QED
    BY <2>1, <2>2 DEF MetricTyped, ResetRests, WindowCounted, LatenciesCounted, M!AveragesAreInRange, M!Total
<1>4. CASE M!RecordSample
  <2>1. PICK t \in TxCount : history' = M!Push(history, t, MaxHistory)
    BY <1>4 DEF M!RecordSample
  <2>2. UNCHANGED <<acc, window, lat, recording, resetting>>
    BY <1>4 DEF M!RecordSample
  <2>3. t \in Nat /\ history \in Seq(Nat) /\ MaxHistory \in Nat
    BY DEF MetricSetting, MetricTyped
  <2>4. history' \in Seq(Nat)
    BY <2>1, <2>3, PushTotals
  <2> QED
    BY <2>2, <2>4 DEF MetricTyped, WindowCounted, LatenciesCounted, M!AveragesAreInRange, Uncleared, M!Total
<1>5. CASE UNCHANGED metricVars
  BY <1>5 DEF metricVars, MetricTyped, WindowCounted, LatenciesCounted, M!AveragesAreInRange, Uncleared, M!Total
<1>6. ASSUME NEW k \in M!Kind, M!StartRecord(k) PROVE MetricInv'
  <2>1. PICK l \in Latency : /\ lat' = [lat EXCEPT ![k] = M!Push(lat[k], l, WindowSize)]
                             /\ recording' = [recording EXCEPT ![k] = <<l>>]
    BY <1>6 DEF M!StartRecord
  <2>2. recording[k] = << >> /\ UNCHANGED <<acc, window, resetting, history>>
    BY <1>6 DEF M!StartRecord
  <2>3. l \in Nat /\ lat[k] \in Seq(Nat) /\ WindowSize \in Nat
    BY <1>1 DEF MetricSetting, MetricTyped
  <2> DEFINE t == M!Push(lat[k], l, WindowSize)
  <2>4. t \in Seq(Nat) /\ Len(t) <= Len(lat[k]) + 1 /\ M!Total(t) <= M!Total(lat[k]) + l
    BY <2>3, PushTotals
  <2> HIDE DEF t
  <2>5. lat'[k] = t /\ recording'[k] = <<l>>
        /\ \A j \in M!Kind : j # k => lat'[j] = lat[j] /\ recording'[j] = recording[j]
    BY <2>1 DEF MetricTyped, t
  <2>6. MetricTyped'
    <3>1. lat' \in [M!Kind -> Seq(Nat)]
      BY <2>1, <2>4 DEF MetricTyped, t
    <3>2. recording' \in [M!Kind -> {<< >>} \cup {<<i>> : i \in Latency}]
      BY <2>1 DEF MetricTyped
    <3> QED
      BY <2>2, <3>1, <3>2 DEF MetricTyped
  <2>7. LatenciesCounted'
    <3> SUFFICES ASSUME NEW j \in M!Kind, ~Uncleared(j)'
                 PROVE  /\ Len(lat'[j]) <= acc'.count[j] + Adding(recording'[j])
                        /\ M!Total(lat'[j]) <= acc'.sum[j] + Added(recording'[j])
      BY DEF LatenciesCounted, M!Total, Adding, Added
    <3>1. ~Uncleared(j)
      BY <2>2 DEF Uncleared
    <3>2. /\ Len(lat[j]) <= acc.count[j] + Adding(recording[j])
          /\ M!Total(lat[j]) <= acc.sum[j] + Added(recording[j])
      BY <3>1 DEF LatenciesCounted
    <3>3. CASE j # k
      BY <2>2, <2>5, <3>2, <3>3
    <3>4. CASE j = k
      <4>1. Len(lat[k]) <= acc.count[k] /\ M!Total(lat[k]) <= acc.sum[k]
            /\ acc.count[k] \in Nat /\ acc.sum[k] \in Nat
        BY <2>2, <3>2, <3>4 DEF Adding, Added, MetricTyped
      <4>2. Adding(recording'[k]) = 1 /\ Added(recording'[k]) = l
        BY <2>5 DEF Adding, Added
      <4>3. M!Total(t) \in Nat /\ M!Total(lat[k]) \in Nat /\ Len(t) \in Nat /\ Len(lat[k]) \in Nat
        BY <2>3, <2>4, TotalIs
      <4>4. Len(t) <= acc.count[k] + 1
        BY <2>4, <4>1, <4>3, AddedUnder
      <4>5. M!Total(t) <= acc.sum[k] + l
        BY <2>3, <2>4, <4>1, <4>3, AddedUnder
      <4> QED
        BY <2>2, <2>5, <3>4, <4>2, <4>4, <4>5
    <3> QED
      BY <3>3, <3>4
  <2> QED
    BY <2>2, <2>6, <2>7 DEF WindowCounted, M!AveragesAreInRange, Uncleared, M!Total
<1>7. ASSUME NEW k \in M!Kind, M!FinishRecord(k) PROVE MetricInv'
  <2>1. /\ recording[k] # << >>
        /\ acc' = [acc EXCEPT !.sum[k] = @ + recording[k][1], !.count[k] = @ + 1]
        /\ recording' = [recording EXCEPT ![k] = << >>]
        /\ UNCHANGED <<window, lat, resetting, history>>
    BY <1>7 DEF M!FinishRecord
  <2>2. PICK l \in Latency : recording[k] = <<l>>
    BY <2>1 DEF MetricTyped
  <2>3. l \in Nat /\ recording[k][1] = l /\ lo <= l /\ l <= hi
    BY <1>1, <2>2
  <2>4. /\ acc.sum \in [M!Kind -> Nat] /\ acc.count \in [M!Kind -> Nat]
        /\ acc'.vertices = acc.vertices /\ acc'.txs = acc.txs
        /\ acc'.sum = [acc.sum EXCEPT ![k] = acc.sum[k] + l]
        /\ acc'.count = [acc.count EXCEPT ![k] = acc.count[k] + 1]
    BY <2>1, <2>3 DEF MetricTyped
  <2>5. acc' \in [vertices : Nat, txs : Nat, sum : [M!Kind -> Nat], count : [M!Kind -> Nat]]
    <3>1. acc \in Totals(M!Kind)
      BY DEF MetricTyped, Totals
    <3>2. acc' = [acc EXCEPT !.sum[k] = @ + l, !.count[k] = @ + 1]
      BY <2>1, <2>3
    <3>3. acc' \in Totals(M!Kind)
      BY <2>3, <3>1, <3>2, LatencyCounted
    <3> QED
      BY <3>3 DEF Totals
  <2>6. /\ acc'.sum[k] = acc.sum[k] + l /\ acc'.count[k] = acc.count[k] + 1 /\ recording'[k] = << >>
        /\ \A j \in M!Kind : j # k => /\ acc'.sum[j] = acc.sum[j] /\ acc'.count[j] = acc.count[j]
                                      /\ recording'[j] = recording[j]
    BY <2>1, <2>4 DEF MetricTyped
  <2>7. MetricTyped'
    <3>1. recording' \in [M!Kind -> {<< >>} \cup {<<i>> : i \in Latency}]
      BY <2>1 DEF MetricTyped
    <3> QED
      BY <2>1, <2>5, <3>1 DEF MetricTyped
  <2>8. LatenciesCounted'
    <3> SUFFICES ASSUME NEW j \in M!Kind, ~Uncleared(j)'
                 PROVE  /\ Len(lat'[j]) <= acc'.count[j] + Adding(recording'[j])
                        /\ M!Total(lat'[j]) <= acc'.sum[j] + Added(recording'[j])
      BY DEF LatenciesCounted, M!Total, Adding, Added
    <3>1. ~Uncleared(j)
      BY <2>1 DEF Uncleared
    <3>2. /\ Len(lat[j]) <= acc.count[j] + Adding(recording[j])
          /\ M!Total(lat[j]) <= acc.sum[j] + Added(recording[j])
      BY <3>1 DEF LatenciesCounted
    <3>3. CASE j # k
      BY <2>1, <2>6, <3>2, <3>3
    <3>4. CASE j = k
      <4>1. Adding(recording[k]) = 1 /\ Added(recording[k]) = l
        BY <2>1, <2>3 DEF Adding, Added
      <4>2. Adding(recording'[k]) = 0 /\ Added(recording'[k]) = 0
        BY <2>6 DEF Adding, Added
      <4>3. acc.count[k] \in Nat /\ acc.sum[k] \in Nat
        BY <2>4
      <4>4. Len(lat[k]) <= acc'.count[k] + 0 /\ M!Total(lat[k]) <= acc'.sum[k] + 0
        BY <2>3, <2>6, <3>2, <3>4, <4>1, <4>3
      <4> QED
        BY <2>1, <3>4, <4>2, <4>4
    <3> QED
      BY <3>3, <3>4
  <2>9. M!AveragesAreInRange'
    <3> HIDE DEF lo, hi
    <3> SUFFICES ASSUME NEW j \in M!Kind PROVE lo * acc'.count[j] <= acc'.sum[j] /\ acc'.sum[j] <= hi * acc'.count[j]
      BY DEF M!AveragesAreInRange, lo, hi
    <3>1. lo * acc.count[j] <= acc.sum[j] /\ acc.sum[j] <= hi * acc.count[j]
      BY DEF M!AveragesAreInRange, lo, hi
    <3>2. CASE j # k
      BY <2>6, <3>1, <3>2
    <3>3. CASE j = k
      <4> DEFINE c == acc.count[k]
                 v == acc.sum[k]
      <4>1. c \in Nat /\ v \in Nat /\ lo * c <= v /\ v <= hi * c
        BY <2>4, <3>1, <3>3
      <4> HIDE DEF c, v
      <4>2. lo * (c + 1) <= v + l /\ v + l <= hi * (c + 1)
        BY <1>1, <2>3, <4>1
      <4> QED
        BY <2>6, <3>3, <4>2 DEF c, v
    <3> QED
      BY <3>2, <3>3
  <2> QED
    BY <2>1, <2>4, <2>7, <2>8, <2>9 DEF WindowCounted, Uncleared, M!Total
<1>8. CASE M!ResetStep
  <2>1. resetting # << >> /\ resetting' = Tail(resetting) /\ UNCHANGED <<recording, history>>
    BY <1>8 DEF M!ResetStep
  <2>2. CASE resetting = <<"acc", "window", "conf", "fin">>
    <3>1. Head(resetting) = "acc" /\ resetting' = <<"window", "conf", "fin">>
      BY <2>1, <2>2
    <3>2. acc' = M!NoTotals /\ UNCHANGED <<window, lat>>
      BY <1>8, <3>1 DEF M!ResetStep, M!ResetTotals
    <3>3. /\ acc' \in [vertices : Nat, txs : Nat, sum : [M!Kind -> Nat], count : [M!Kind -> Nat]]
          /\ acc'.sum = [j \in M!Kind |-> 0] /\ acc'.count = [j \in M!Kind |-> 0]
      BY <3>2 DEF M!NoTotals
    <3>4. \A w \in {"conf", "fin", "window"} : Uncleared(w)'
      BY <3>1 DEF Uncleared
    <3>5. M!AveragesAreInRange'
      BY <1>1, <3>3 DEF M!AveragesAreInRange
    <3> QED
      BY <2>1, <3>1, <3>2, <3>3, <3>4, <3>5
         DEF MetricTyped, ResetRests, WindowCounted, LatenciesCounted, M!Kind
  <2>3. CASE resetting = <<"window", "conf", "fin">>
    <3>1. Head(resetting) = "window" /\ resetting' = <<"conf", "fin">>
      BY <2>1, <2>3
    <3>2. window' = << >> /\ UNCHANGED <<acc, lat>>
      BY <1>8, <3>1 DEF M!ResetStep
    <3>3. Uncleared("conf")' /\ Uncleared("fin")'
      BY <3>1 DEF Uncleared
    <3>4. acc.vertices \in Nat /\ acc.txs \in Nat
      BY DEF MetricTyped
    <3>5. WindowCounted'
      <4>1. Len(window') <= acc'.vertices /\ M!Total(window') <= acc'.txs
        BY <3>2, <3>4, EmptyTotal
      <4> QED
        BY <4>1 DEF WindowCounted, M!Total
    <3>6. MetricTyped'
      <4>1. window' \in Seq(Nat) /\ resetting' \in ResetRests
        BY <3>1, <3>2 DEF ResetRests
      <4> QED
        BY <2>1, <3>2, <4>1 DEF MetricTyped
    <3>7. LatenciesCounted'
      BY <3>3 DEF LatenciesCounted, M!Kind
    <3> QED
      BY <3>2, <3>5, <3>6, <3>7 DEF M!AveragesAreInRange
  <2>4. ASSUME NEW w \in M!Kind, resetting # << >>, Head(resetting) = w,
               resetting \in {<<"conf", "fin">>, <<"fin">>}
        PROVE  MetricInv'
    <3>1. /\ recording[w] = << >> /\ lat' = [lat EXCEPT ![w] = << >>] /\ UNCHANGED <<acc, window>>
      BY <1>8, <2>4 DEF M!ResetStep, M!Kind
    <3>2. \/ resetting = <<"conf", "fin">> /\ resetting' = <<"fin">> /\ w = "conf"
          \/ resetting = <<"fin">> /\ resetting' = << >> /\ w = "fin"
      <4>1. CASE resetting = <<"conf", "fin">>
        BY <2>1, <2>4, <4>1
      <4>2. CASE resetting = <<"fin">>
        BY <2>1, <2>4, <4>2
      <4> QED
        BY <2>4, <4>1, <4>2
    <3>3. lat'[w] = << >> /\ \A j \in M!Kind : j # w => lat'[j] = lat[j]
      BY <3>1 DEF MetricTyped
    <3>4. \A j \in M!Kind : j # w /\ ~Uncleared(j)' => ~Uncleared(j)
      <4>1. CASE resetting = <<"conf", "fin">> /\ resetting' = <<"fin">> /\ w = "conf"
        BY <4>1 DEF Uncleared, M!Kind
      <4>2. CASE resetting = <<"fin">> /\ resetting' = << >> /\ w = "fin"
        BY <4>2 DEF Uncleared, M!Kind
      <4> QED
        BY <3>2, <4>1, <4>2
    <3>5. ~Uncleared("window") /\ ~Uncleared("window")'
      BY <2>4, <3>2 DEF Uncleared
    <3>6. MetricTyped'
      BY <2>1, <3>1, <3>2 DEF MetricTyped, ResetRests
    <3>7. LatenciesCounted'
      <4> SUFFICES ASSUME NEW j \in M!Kind, ~Uncleared(j)'
                   PROVE  /\ Len(lat'[j]) <= acc'.count[j] + Adding(recording'[j])
                          /\ M!Total(lat'[j]) <= acc'.sum[j] + Added(recording'[j])
        BY DEF LatenciesCounted, M!Total, Adding, Added
      <4>1. CASE j = w
        <5>1. acc.count[w] \in Nat /\ acc.sum[w] \in Nat
          BY DEF MetricTyped
        <5>2. Adding(recording'[w]) = 0 /\ Added(recording'[w]) = 0
          BY <2>1, <3>1 DEF Adding, Added
        <5> QED
          BY <3>1, <3>3, <4>1, <5>1, <5>2, EmptyTotal
      <4>2. CASE j # w
        <5>1. /\ Len(lat[j]) <= acc.count[j] + Adding(recording[j])
              /\ M!Total(lat[j]) <= acc.sum[j] + Added(recording[j])
          BY <3>4, <4>2 DEF LatenciesCounted
        <5> QED
          BY <2>1, <3>1, <3>3, <4>2, <5>1
      <4> QED
        BY <4>1, <4>2
    <3> QED
      BY <3>1, <3>5, <3>6, <3>7 DEF WindowCounted, M!AveragesAreInRange, M!Total
  <2>5. CASE resetting = <<"conf", "fin">>
    <3>1. Head(resetting) = "conf" /\ "conf" \in M!Kind
      BY <2>5 DEF M!Kind
    <3> QED
      BY <2>1, <2>4, <2>5, <3>1
  <2>6. CASE resetting = <<"fin">>
    <3>1. Head(resetting) = "fin" /\ "fin" \in M!Kind
      BY <2>6 DEF M!Kind
    <3> QED
      BY <2>1, <2>4, <2>6, <3>1
  <2>7. resetting \in ResetRests
    BY DEF MetricTyped
  <2> QED
    BY <2>1, <2>2, <2>3, <2>5, <2>6, <2>7 DEF ResetRests
<1> QED
  BY <1>2, <1>3, <1>4, <1>5, <1>6, <1>7, <1>8 DEF M!Next, M!CollectorNext, M!AnalyzerNext

\* What a snapshot shows follows.
LEMMA MetricsHold == MetricSetting /\ MetricInv => M!MetricsAreTrue
<1> SUFFICES ASSUME MetricSetting, MetricInv PROVE M!MetricsAreTrue
  OBVIOUS
<1>1. M!WindowsAreAccounted
  <2> SUFFICES ASSUME resetting = << >>
               PROVE  /\ Len(window) <= acc.vertices /\ M!Total(window) <= acc.txs
                      /\ \A k \in M!Kind : recording[k] = << >> => /\ Len(lat[k]) <= acc.count[k]
                                                                   /\ M!Total(lat[k]) <= acc.sum[k]
    BY DEF M!WindowsAreAccounted
  <2>1. \A w : ~Uncleared(w)
    BY DEF Uncleared
  <2>2. acc.sum \in [M!Kind -> Nat] /\ acc.count \in [M!Kind -> Nat]
    BY DEF MetricInv, MetricTyped
  <2> QED
    BY <2>1, <2>2 DEF MetricInv, WindowCounted, LatenciesCounted, Adding, Added
<1>2. M!PercentilesExist
  <2> DEFINE n == Len(history)
  <2>1. history \in Seq(Nat) /\ n \in Nat /\ DOMAIN history = 1..n
    BY DEF MetricInv, MetricTyped
  <2> SUFFICES ASSUME history # << >>
               PROVE  /\ \A p \in {50, 90, 95, 99} : M!Rank(p) \in DOMAIN history
                      /\ M!Percentile(50) <= M!Percentile(99) /\ M!Percentile(99) <= M!PeakTps
    BY DEF M!PercentilesExist
  <2>2. n >= 1
    BY <2>1
  <2> HIDE DEF n
  <2>3. \A p \in {50, 90, 95, 99} : (n * p) \div 100 + 1 \in 1..n
    BY <2>1, <2>2
  <2>4. (n * 50) \div 100 + 1 <= (n * 99) \div 100 + 1
    BY <2>1, <2>2
  <2>5. \A p \in {50, 90, 95, 99} : M!Rank(p) \in DOMAIN history
    BY <2>1, <2>3 DEF M!Rank, n
  <2>6. M!Rank(50) <= M!Rank(99)
    BY <2>4 DEF M!Rank, n
  <2>7. M!Percentile(50) <= M!Percentile(99)
    BY <2>1, <2>5, <2>6, SortedIs DEF M!Percentile
  <2>8. PICK j \in DOMAIN history : M!Percentile(99) = history[j]
    BY <2>1, <2>5, SortedIs DEF M!Percentile
  <2>9. history[j] <= M!PeakTps
    <3> DEFINE X == M!Range(history) \cup {0}
    <3>1. X = {history[i] : i \in 1..n} \cup {0}
      BY <2>1 DEF M!Range
    <3>2. IsFiniteSet({history[i] : i \in 1..n})
      BY <2>1, UpTo, FiniteImage
    <3>3. IsFiniteSet(X) /\ X \subseteq Nat /\ X # {} /\ history[j] \in X
      <4>1. IsFiniteSet({history[i] : i \in 1..n} \cup {0})
        BY <3>2, FS_AddElement
      <4>2. X \subseteq Nat /\ X # {} /\ history[j] \in X
        BY <2>1, <3>1
      <4> QED
        BY <3>1, <4>1, <4>2
    <3> HIDE DEF X
    <3>4. M!Max(X) >= history[j] /\ M!Max(X) \in Nat /\ history[j] \in Nat
      BY <3>3, LargestIn, MetricMax
    <3> QED
      BY <3>4 DEF M!PeakTps, X
  <2> QED
    BY <2>5, <2>7, <2>8, <2>9
<1> QED
  BY <1>1, <1>2 DEF M!MetricsAreTrue, MetricInv

\* For any window and history sizes, and whatever is recorded while reset has
\* cleared the totals but not yet the windows, between resets the windows hold
\* no more than the totals account for, averages lie between the smallest and
\* the largest latency, and percentiles are ordered samples below the peak
\* (metrics.rs: record_vertex, record_confirmation, record_finality, reset,
\* tps_percentiles).
THEOREM MetricsProvedTrue == ASSUME MetricSetting PROVE MetricSpec => []MetricsAreTrue
<1>1. M!Init => MetricInv
  BY MetricStarts
<1>2. MetricInv /\ [M!Next]_metricVars => MetricInv'
  BY MetricStep
<1>3. MetricInv => MetricsAreTrue
  BY MetricsHold DEF MetricsAreTrue
<1> QED
  BY <1>1, <1>2, <1>3, PTL DEF MetricSpec

-----------------------------------------------------------------------------
(***************************************************************************)
(* Genesis: a node that imports what another one exported.                 *)
(***************************************************************************)

\* Accounts are finitely many and stakes fit their width.
GenesisSetting ==
    /\ IsFiniteSet(GsAddress) /\ GsMinStake \in Nat /\ MaxAmount \in Nat
    /\ GsWidth \in Nat /\ GsMinStake + MaxAmount < GsWidth

LEMMA GenesisCards == \A X : E!Cardinality(X) = Cardinality(X)
BY DEF E!Cardinality, Cardinality

\* The order in which a map is read lists every key once.
LEMMA ListsAll ==
    ASSUME NEW X, IsFiniteSet(X)
    PROVE  \E n \in Nat : /\ E!SetToSeq(X) \in [1..n -> X]
                         /\ \A x \in X : \E i \in 1..n : E!SetToSeq(X)[i] = x
<1>1. PICK n \in Nat : ExistsBijection(1..n, X)
  BY FS_NatBijection
<1>2. Cardinality(X) = n
  BY <1>1, FS_CountingElements
<1> DEFINE s == CHOOSE f \in [1..n -> X] : E!IsInjective(f)
<1>3. E!SetToSeq(X) = s
  BY <1>2, GenesisCards DEF E!SetToSeq
<1>4. \E f \in [1..n -> X] : E!IsInjective(f)
  BY <1>1 DEF ExistsBijection, Bijection, Injection, IsInjective, E!IsInjective
<1>5. s \in [1..n -> X] /\ E!IsInjective(s)
  BY <1>4
<1> HIDE DEF s
<1>6. s \in Injection(1..n, X)
  BY <1>5 DEF Injection, IsInjective, E!IsInjective
<1>7. Cardinality(1..n) = n
  <2>1. 1 \in Int /\ n \in Int
    OBVIOUS
  <2>2. Cardinality(1..n) = IF 1 > n THEN 0 ELSE n - 1 + 1
    BY <2>1, FS_Interval
  <2> QED
    BY <2>2
<1>8. s \in Surjection(1..n, X)
  BY <1>2, <1>6, <1>7, FS_Injection
<1> QED
  BY <1>3, <1>5, <1>8 DEF Surjection

StoredTo(N, es, f) ==
    f = [k \in 0..N |-> IF k = 0 THEN E!Fresh ELSE E!ApplyAccount(f[k - 1], es[k])]

LEMMA StoredExist == ASSUME NEW es PROVE \A n \in Nat : \E f : StoredTo(n, es, f)
<1> DEFINE Good == {n \in Nat : \E f : StoredTo(n, es, f)}
<1>1. 0 \in Good
  <2> DEFINE f == [k \in 0..0 |-> E!Fresh]
  <2>1. StoredTo(0, es, f)
    BY DEF StoredTo
  <2> QED
    BY <2>1
<1>2. ASSUME NEW n \in Nat, n \in Good PROVE n + 1 \in Good
  <2>1. PICK f : StoredTo(n, es, f)
    BY <1>2
  <2> DEFINE x == E!ApplyAccount(f[n], es[(n + 1)])
             h == [k \in 0..(n + 1) |-> IF k = n + 1 THEN x ELSE f[k]]
  <2> HIDE DEF x
  <2>2. \A k \in 0..n : f[k] = IF k = 0 THEN E!Fresh ELSE E!ApplyAccount(f[k - 1], es[k])
    BY <2>1 DEF StoredTo
  <2>3. \A k \in 0..(n + 1) : h[k] = IF k = 0 THEN E!Fresh ELSE E!ApplyAccount(h[k - 1], es[k])
    <3> TAKE k \in 0..(n + 1)
    <3>1. CASE k = n + 1
      <4>1. h[k] = x /\ h[k - 1] = f[n] /\ k # 0
        BY <3>1
      <4> QED
        BY <3>1, <4>1 DEF x
    <3>2. CASE k = 0
      <4>1. h[k] = f[0] /\ f[0] = E!Fresh
        BY <3>2, <2>2
      <4> QED
        BY <3>2, <4>1
    <3>3. CASE k \in 1..n
      <4>1. h[k] = f[k] /\ h[k - 1] = f[k - 1] /\ k \in 0..n /\ k # 0
        BY <3>3
      <4> HIDE DEF h
      <4> QED
        BY <4>1, <2>2
    <3> QED
      BY <3>1, <3>2, <3>3
  <2>4. StoredTo(n + 1, es, h)
    <3>1. h = [k \in 0..(n + 1) |-> h[k]]
      OBVIOUS
    <3> HIDE DEF h
    <3> QED
      BY <2>3, <3>1 DEF StoredTo
  <2> QED
    BY <2>4
<1> HIDE DEF Good
<1>3. \A n \in Nat : n \in Good
  BY <1>1, <1>2, NatSetInduction
<1> QED
  BY <1>3 DEF Good

RegisteredTo(N, m, vs, f) ==
    f = [k \in 0..N |-> IF k = 0 THEN m ELSE E!ApplyValidator(f[k - 1], vs[k])]

LEMMA RegisteredExist == ASSUME NEW m, NEW vs PROVE \A n \in Nat : \E f : RegisteredTo(n, m, vs, f)
<1> DEFINE Good == {n \in Nat : \E f : RegisteredTo(n, m, vs, f)}
<1>1. 0 \in Good
  <2> DEFINE f == [k \in 0..0 |-> m]
  <2>1. RegisteredTo(0, m, vs, f)
    BY DEF RegisteredTo
  <2> QED
    BY <2>1
<1>2. ASSUME NEW n \in Nat, n \in Good PROVE n + 1 \in Good
  <2>1. PICK f : RegisteredTo(n, m, vs, f)
    BY <1>2
  <2> DEFINE x == E!ApplyValidator(f[n], vs[(n + 1)])
             h == [k \in 0..(n + 1) |-> IF k = n + 1 THEN x ELSE f[k]]
  <2> HIDE DEF x
  <2>2. \A k \in 0..n : f[k] = IF k = 0 THEN m ELSE E!ApplyValidator(f[k - 1], vs[k])
    BY <2>1 DEF RegisteredTo
  <2>3. \A k \in 0..(n + 1) : h[k] = IF k = 0 THEN m ELSE E!ApplyValidator(h[k - 1], vs[k])
    <3> TAKE k \in 0..(n + 1)
    <3>1. CASE k = n + 1
      <4>1. h[k] = x /\ h[k - 1] = f[n] /\ k # 0
        BY <3>1
      <4> QED
        BY <3>1, <4>1 DEF x
    <3>2. CASE k = 0
      <4>1. h[k] = f[0] /\ f[0] = m
        BY <3>2, <2>2
      <4> QED
        BY <3>2, <4>1
    <3>3. CASE k \in 1..n
      <4>1. h[k] = f[k] /\ h[k - 1] = f[k - 1] /\ k \in 0..n /\ k # 0
        BY <3>3
      <4> HIDE DEF h
      <4> QED
        BY <4>1, <2>2
    <3> QED
      BY <3>1, <3>2, <3>3
  <2>4. RegisteredTo(n + 1, m, vs, h)
    <3>1. h = [k \in 0..(n + 1) |-> h[k]]
      OBVIOUS
    <3> HIDE DEF h
    <3> QED
      BY <2>3, <3>1 DEF RegisteredTo
  <2> QED
    BY <2>4
<1> HIDE DEF Good
<1>3. \A n \in Nat : n \in Good
  BY <1>1, <1>2, NatSetInduction
<1> QED
  BY <1>3 DEF Good

LEMMA ImportIs ==
    ASSUME NEW c, Len(c.accounts) \in Nat, Len(c.validators) \in Nat
    PROVE  \E f, g : /\ StoredTo(Len(c.accounts), c.accounts, f)
                     /\ RegisteredTo(Len(c.validators), f[Len(c.accounts)], c.validators, g)
                     /\ E!ApplyGenesis(c) = g[Len(c.validators)]
<1> DEFINE f == CHOOSE h : StoredTo(Len(c.accounts), c.accounts, h)
           g == CHOOSE h : RegisteredTo(Len(c.validators), f[Len(c.accounts)], c.validators, h)
<1>1. StoredTo(Len(c.accounts), c.accounts, f)
  BY StoredExist
<1> HIDE DEF f
<1>2. RegisteredTo(Len(c.validators), f[Len(c.accounts)], c.validators, g)
  BY RegisteredExist
<1>3. E!ApplyGenesis(c) = g[Len(c.validators)]
  BY Zenon DEF E!ApplyGenesis, StoredTo, RegisteredTo, f
<1> HIDE DEF g
<1> QED
  BY <1>1, <1>2, <1>3

CodeOf(a) == E!CodeAt(accounts, code, a)

\* Keys of the code map are the hashes of its values.
CodesHashed(m) == \A h \in DOMAIN m : h = E!HashOf(m[h])

StakesKept ==
    /\ DOMAIN staked \subseteq GsAddress /\ delegated \in [GsAddress -> Nat]
    /\ \A v \in DOMAIN staked : /\ staked[v] \in Nat /\ staked[v] <= GsMinStake + delegated[v]
                                /\ ~replaced => staked[v] = GsMinStake + delegated[v]
    /\ \A v \in GsAddress : delegated[v] <= MaxAmount /\ (delegated[v] > 0 => v \in DOMAIN staked)

GenesisInv ==
    /\ DOMAIN accounts \subseteq GsAddress
    /\ \A a \in DOMAIN accounts :
           /\ accounts[a] \in [balance : Int, nonce : Int, hash : {E!ZeroHash} \cup DOMAIN code]
    /\ CodesHashed(code) /\ StakesKept /\ replaced \in BOOLEAN

LEMMA Hashes == /\ \A c, d : E!HashOf(c) = E!HashOf(d) => c = d
                /\ \A c : E!HashOf(c) # E!ZeroHash
BY DEF E!HashOf, E!ZeroHash

LEMMA PutIn ==
    ASSUME NEW f, NEW k, NEW v
    PROVE  LET g == E!Put(f, k, v)
           IN /\ DOMAIN g = DOMAIN f \cup {k} /\ g[k] = v
              /\ \A x \in DOMAIN f : x # k => g[x] = f[x]
BY DEF E!Put

LEMMA CodePut ==
    ASSUME NEW m, NEW c, CodesHashed(m)
    PROVE  CodesHashed(E!Put(m, E!HashOf(c), c))
BY DEF E!Put, CodesHashed

LEMMA AccountStored ==
    ASSUME GenesisInv, NEW a \in GsAddress, NEW x, E!Store(a, x),
           x \in [balance : Int, nonce : Int, hash : {E!ZeroHash} \cup DOMAIN code']
    PROVE  /\ DOMAIN accounts' \subseteq GsAddress
           /\ DOMAIN code \subseteq DOMAIN code' =>
                  \A b \in DOMAIN accounts' :
                      accounts'[b] \in [balance : Int, nonce : Int, hash : {E!ZeroHash} \cup DOMAIN code']
<1>1. accounts' = E!Put(accounts, a, x)
  BY DEF E!Store
<1>2. /\ DOMAIN accounts' = DOMAIN accounts \cup {a} /\ accounts'[a] = x
      /\ \A b \in DOMAIN accounts : b # a => accounts'[b] = accounts[b]
  BY <1>1 DEF E!Put
<1>3. DOMAIN accounts \subseteq GsAddress
      /\ \A b \in DOMAIN accounts : accounts[b] \in [balance : Int, nonce : Int, hash : {E!ZeroHash} \cup DOMAIN code]
  BY DEF GenesisInv
<1>4. ASSUME DOMAIN code \subseteq DOMAIN code', NEW b \in DOMAIN accounts'
      PROVE  accounts'[b] \in [balance : Int, nonce : Int, hash : {E!ZeroHash} \cup DOMAIN code']
  <2>1. CASE b = a
    BY <1>2, <2>1
  <2>2. CASE b # a
    <3>1. accounts'[b] \in [balance : Int, nonce : Int, hash : {E!ZeroHash} \cup DOMAIN code]
      BY <1>2, <1>3, <2>2
    <3> QED
      BY <1>4, <3>1
  <2> QED
    BY <2>1, <2>2
<1> QED
  BY <1>2, <1>3, <1>4

LEMMA AccountOf ==
    ASSUME GenesisInv, NEW a
    PROVE  E!AccountAt(accounts, a) \in [balance : Int, nonce : Int, hash : {E!ZeroHash} \cup DOMAIN code]
<1>1. E!EmptyAccount \in [balance : Int, nonce : Int, hash : {E!ZeroHash} \cup DOMAIN code]
  BY DEF E!EmptyAccount
<1> QED
  BY <1>1 DEF GenesisInv, E!AccountAt

LEMMA GenesisStarts == GenesisSetting /\ E!Init => GenesisInv
<1> SUFFICES ASSUME GenesisSetting, E!Init PROVE GenesisInv
  OBVIOUS
<1>1. DOMAIN accounts = {} /\ DOMAIN code = {} /\ DOMAIN staked = {}
  BY DEF E!Init
<1>2. delegated = [v \in GsAddress |-> 0] /\ replaced = FALSE
  BY DEF E!Init
<1>3. delegated \in [GsAddress -> Nat] /\ \A v \in GsAddress : delegated[v] = 0
  BY <1>2
<1>4. StakesKept
  BY <1>1, <1>3 DEF StakesKept, GenesisSetting
<1> QED
  BY <1>1, <1>2, <1>4 DEF GenesisInv, CodesHashed

LEMMA GenesisStep == ASSUME GenesisSetting, GenesisInv, [E!Next]_genesisVars PROVE GenesisInv'
<1>0. /\ GsMinStake \in Nat /\ MaxAmount \in Nat
  BY DEF GenesisSetting
<1>1. ASSUME E!Credit \/ E!Spend PROVE GenesisInv'
  <2>1. UNCHANGED <<code, slots, staked, delegated, replaced>>
    BY <1>1 DEF E!Credit, E!Spend, E!stakes
  <2>2. PICK a \in GsAddress, x \in [balance : Int, nonce : Int, hash : {E!ZeroHash} \cup DOMAIN code] : E!Store(a, x)
    <3>1. CASE E!Credit
      <4>1. PICK a \in GsAddress : E!Store(a, [E!AccountAt(accounts, a) EXCEPT !.balance = @ + 1])
        BY <3>1 DEF E!Credit
      <4> DEFINE o == E!AccountAt(accounts, a)
      <4>2. o \in [balance : Int, nonce : Int, hash : {E!ZeroHash} \cup DOMAIN code]
        BY AccountOf
      <4> HIDE DEF o
      <4>3. [o EXCEPT !.balance = @ + 1] \in [balance : Int, nonce : Int, hash : {E!ZeroHash} \cup DOMAIN code]
        BY <4>2
      <4> QED
        BY <4>1, <4>3 DEF o
    <3>2. CASE E!Spend
      <4>1. PICK a \in DOMAIN accounts : E!Store(a, [accounts[a] EXCEPT !.balance = @ - 1, !.nonce = @ + 1])
        BY <3>2 DEF E!Spend
      <4> DEFINE o == accounts[a]
      <4>2. o \in [balance : Int, nonce : Int, hash : {E!ZeroHash} \cup DOMAIN code] /\ a \in GsAddress
        BY DEF GenesisInv
      <4> HIDE DEF o
      <4>3. [o EXCEPT !.balance = @ - 1, !.nonce = @ + 1] \in [balance : Int, nonce : Int, hash : {E!ZeroHash} \cup DOMAIN code]
        <5> DEFINE b == o.balance - 1
                   c == o.nonce + 1
        <5>1. b \in Int /\ c \in Int
          BY <4>2
        <5> HIDE DEF b, c
        <5>2. [o EXCEPT !.balance = b, !.nonce = c] \in [balance : Int, nonce : Int, hash : {E!ZeroHash} \cup DOMAIN code]
          BY <4>2, <5>1
        <5> QED
          BY <5>2 DEF b, c
      <4> QED
        BY <4>1, <4>2, <4>3 DEF o
    <3> QED
      BY <1>1, <3>1, <3>2
  <2>3. code' = code
    BY <2>1
  <2>4. /\ DOMAIN accounts' \subseteq GsAddress
        /\ \A b \in DOMAIN accounts' :
               accounts'[b] \in [balance : Int, nonce : Int, hash : {E!ZeroHash} \cup DOMAIN code']
    BY <2>2, <2>3, AccountStored
  <2> QED
    BY <2>1, <2>4 DEF GenesisInv, StakesKept, CodesHashed
<1>2. CASE E!Deploy
  <2>1. PICK a \in GsAddress, c \in Code :
            /\ code' = E!Put(code, E!HashOf(c), c)
            /\ E!Store(a, [E!AccountAt(accounts, a) EXCEPT !.hash = E!HashOf(c)])
    BY <1>2 DEF E!Deploy
  <2>2. UNCHANGED <<staked, delegated, replaced>>
    BY <1>2 DEF E!Deploy, E!stakes
  <2>3. DOMAIN code' = DOMAIN code \cup {E!HashOf(c)}
    BY <2>1, PutIn
  <2> DEFINE o == E!AccountAt(accounts, a)
             x == [o EXCEPT !.hash = E!HashOf(c)]
  <2>4. o \in [balance : Int, nonce : Int, hash : {E!ZeroHash} \cup DOMAIN code]
    BY AccountOf
  <2> HIDE DEF o
  <2>5. x \in [balance : Int, nonce : Int, hash : {E!ZeroHash} \cup DOMAIN code']
    BY <2>3, <2>4
  <2> HIDE DEF x
  <2>6. /\ DOMAIN accounts' \subseteq GsAddress
        /\ \A b \in DOMAIN accounts' :
               accounts'[b] \in [balance : Int, nonce : Int, hash : {E!ZeroHash} \cup DOMAIN code']
    <3>1. E!Store(a, x)
      BY <2>1 DEF x, o
    <3> QED
      BY <2>3, <2>5, <3>1, AccountStored
  <2>7. CodesHashed(code')
    BY <2>1, CodePut DEF GenesisInv
  <2> QED
    BY <2>2, <2>6, <2>7 DEF GenesisInv, StakesKept, CodesHashed
<1>3. CASE E!Write \/ UNCHANGED genesisVars
  <2>1. UNCHANGED <<accounts, code, staked, delegated, replaced>>
    BY <1>3 DEF E!Write, E!stakes, genesisVars
  <2> QED
    BY <2>1 DEF GenesisInv, StakesKept, CodesHashed
<1>4. CASE E!Delete
  <2>1. PICK a \in DOMAIN accounts : accounts' = E!Restrict(accounts, DOMAIN accounts \ {a})
    BY <1>4 DEF E!Delete
  <2>2. UNCHANGED <<code, staked, delegated, replaced>>
    BY <1>4 DEF E!Delete, E!stakes
  <2>3. DOMAIN accounts' = DOMAIN accounts \ {a} /\ \A b \in DOMAIN accounts' : accounts'[b] = accounts[b]
    BY <2>1 DEF E!Restrict
  <2> QED
    BY <2>2, <2>3 DEF GenesisInv, StakesKept, CodesHashed
<1>5. ASSUME StakesKept', replaced' \in BOOLEAN, UNCHANGED <<accounts, code>> PROVE GenesisInv'
  BY <1>5 DEF GenesisInv, CodesHashed
<1>6. CASE E!Register
  <2>1. PICK v \in GsAddress : staked' = E!Put(staked, v, GsMinStake) /\ replaced' = (replaced \/ delegated[v] > 0)
    BY <1>6 DEF E!Register
  <2>2. UNCHANGED <<accounts, code, delegated>>
    BY <1>6 DEF E!Register
  <2>3. /\ DOMAIN staked' = DOMAIN staked \cup {v} /\ staked'[v] = GsMinStake
        /\ \A u \in DOMAIN staked : u # v => staked'[u] = staked[u]
    BY <2>1 DEF E!Put
  <2>4. StakesKept /\ delegated[v] \in Nat /\ replaced' \in BOOLEAN
    BY <2>1 DEF GenesisInv, StakesKept
  <2>5. ~replaced' => ~replaced /\ delegated[v] = 0
    <3>1. ~replaced' => ~replaced /\ ~(delegated[v] > 0)
      BY <2>1, Zenon
    <3> QED
      BY <2>4, <3>1
  <2>6. StakesKept'
    <3>1. ASSUME NEW u \in DOMAIN staked'
          PROVE  /\ staked'[u] \in Nat /\ staked'[u] <= GsMinStake + delegated[u]
                 /\ ~replaced' => staked'[u] = GsMinStake + delegated[u]
      <4>1. CASE u = v
        BY <1>0, <2>3, <2>4, <2>5, <4>1
      <4>2. CASE u # v
        BY <2>3, <2>4, <2>5, <4>2 DEF StakesKept
      <4> QED
        BY <4>1, <4>2
    <3> QED
      BY <2>2, <2>3, <2>4, <3>1 DEF StakesKept
  <2> QED
    BY <1>5, <2>2, <2>4, <2>6
<1>7. CASE E!Delegate
  <2>1. PICK v \in DOMAIN staked : /\ delegated[v] < MaxAmount
                                   /\ delegated' = [delegated EXCEPT ![v] = @ + 1]
                                   /\ staked' = [staked EXCEPT ![v] = @ + 1]
    BY <1>7 DEF E!Delegate, E!Eligible
  <2>2. UNCHANGED <<accounts, code, replaced>>
    BY <1>7 DEF E!Delegate
  <2>3. StakesKept /\ v \in GsAddress /\ delegated \in [GsAddress -> Nat] /\ delegated[v] \in Nat /\ staked[v] \in Nat
    BY DEF GenesisInv, StakesKept
  <2>4. /\ DOMAIN staked' = DOMAIN staked /\ staked'[v] = staked[v] + 1 /\ delegated'[v] = delegated[v] + 1
        /\ \A u \in DOMAIN staked : u # v => staked'[u] = staked[u]
        /\ \A u \in GsAddress : u # v => delegated'[u] = delegated[u]
        /\ delegated' \in [GsAddress -> Nat]
    BY <2>1, <2>3
  <2>5. StakesKept'
    <3>1. ASSUME NEW u \in DOMAIN staked'
          PROVE  /\ staked'[u] \in Nat /\ staked'[u] <= GsMinStake + delegated'[u]
                 /\ ~replaced' => staked'[u] = GsMinStake + delegated'[u]
      <4>1. CASE u = v
        BY <1>0, <2>2, <2>3, <2>4, <4>1 DEF StakesKept
      <4>2. CASE u # v
        BY <2>2, <2>3, <2>4, <4>2 DEF StakesKept
      <4> QED
        BY <4>1, <4>2
    <3>2. \A u \in GsAddress : delegated'[u] <= MaxAmount /\ (delegated'[u] > 0 => u \in DOMAIN staked')
      BY <1>0, <2>1, <2>3, <2>4 DEF StakesKept
    <3> QED
      BY <2>3, <2>4, <3>1, <3>2 DEF StakesKept
  <2> QED
    BY <1>5, <2>2, <2>5 DEF GenesisInv
<1>8. CASE E!Undelegate
  <2>1. PICK v \in GsAddress : /\ delegated[v] > 0
                               /\ delegated' = [delegated EXCEPT ![v] = @ - 1]
                               /\ staked' = [staked EXCEPT ![v] = IF @ = 0 THEN 0 ELSE @ - 1]
    BY <1>8 DEF E!Undelegate
  <2>2. UNCHANGED <<accounts, code, replaced>>
    BY <1>8 DEF E!Undelegate
  <2>3. StakesKept /\ v \in DOMAIN staked /\ delegated \in [GsAddress -> Nat] /\ delegated[v] \in Nat /\ staked[v] \in Nat
    BY <2>1 DEF GenesisInv, StakesKept
  <2>4. /\ DOMAIN staked' = DOMAIN staked /\ staked'[v] = (IF staked[v] = 0 THEN 0 ELSE staked[v] - 1)
        /\ delegated'[v] = delegated[v] - 1
        /\ \A u \in DOMAIN staked : u # v => staked'[u] = staked[u]
        /\ \A u \in GsAddress : u # v => delegated'[u] = delegated[u]
        /\ delegated' \in [GsAddress -> Nat]
    BY <2>1, <2>3
  <2>5. StakesKept'
    <3>1. ASSUME NEW u \in DOMAIN staked'
          PROVE  /\ staked'[u] \in Nat /\ staked'[u] <= GsMinStake + delegated'[u]
                 /\ ~replaced' => staked'[u] = GsMinStake + delegated'[u]
      <4>1. CASE u = v
        BY <1>0, <2>1, <2>2, <2>3, <2>4, <4>1 DEF StakesKept
      <4>2. CASE u # v
        BY <2>2, <2>3, <2>4, <4>2 DEF StakesKept
      <4> QED
        BY <4>1, <4>2
    <3>2. \A u \in GsAddress : delegated'[u] <= MaxAmount /\ (delegated'[u] > 0 => u \in DOMAIN staked')
      BY <1>0, <2>1, <2>3, <2>4 DEF StakesKept
    <3> QED
      BY <2>3, <2>4, <3>1, <3>2 DEF StakesKept
  <2> QED
    BY <1>5, <2>2, <2>5 DEF GenesisInv
<1> QED
  BY <1>1, <1>2, <1>3, <1>4, <1>6, <1>7, <1>8 DEF E!Next

\* What an import makes of an exported account
ImportedAccount(a) ==
    [balance |-> accounts[a].balance, nonce |-> accounts[a].nonce,
     hash |-> IF CodeOf(a) = << >> THEN E!ZeroHash ELSE E!HashOf(CodeOf(a))]

FirstOf(s, i) == {s[j] : j \in 1..i}

ImportShape(n) == n = [accounts |-> n.accounts, code |-> n.code, staked |-> n.staked, ok |-> n.ok]

\* The new node after the first i accounts
StoredAt(i, s, n) ==
    /\ ImportShape(n) /\ n.ok = TRUE /\ DOMAIN n.staked = {} /\ n.staked = << >>
    /\ n.accounts = [a \in FirstOf(s, i) |-> ImportedAccount(a)]
    /\ CodesHashed(n.code)
    /\ \A j \in 1..i : CodeOf(s[j]) # << >> => E!HashOf(CodeOf(s[j])) \in DOMAIN n.code

LEMMA FirstGrows == ASSUME NEW s, NEW i \in Nat PROVE FirstOf(s, i + 1) = FirstOf(s, i) \cup {s[i + 1]} /\ FirstOf(s, 0) = {}
<1>1. 1..(i + 1) = 1..i \cup {i + 1}
  OBVIOUS
<1> QED
  BY <1>1 DEF FirstOf

LEMMA StoreStarts == ASSUME NEW s PROVE StoredAt(0, s, E!Fresh)
<1>1. E!Fresh = [accounts |-> << >>, code |-> << >>, staked |-> << >>, ok |-> TRUE]
  BY DEF E!Fresh
<1> DEFINE n == E!Fresh
<1>2. n.accounts = << >> /\ n.code = << >> /\ n.staked = << >> /\ n.ok = TRUE /\ ImportShape(n)
  BY <1>1 DEF ImportShape
<1>3. DOMAIN << >> = {} /\ CodesHashed(<< >>)
  BY DEF CodesHashed
<1>4. << >> = [a \in FirstOf(s, 0) |-> ImportedAccount(a)]
  <2>1. FirstOf(s, 0) = {}
    BY DEF FirstOf
  <2> QED
    BY <2>1
<1> HIDE DEF n
<1> QED
  BY <1>2, <1>3, <1>4 DEF StoredAt, n

LEMMA ImportUpdate ==
    ASSUME NEW n, n = [accounts |-> n.accounts, code |-> n.code, staked |-> n.staked, ok |-> n.ok],
           NEW y, NEW z, NEW t, t = [n EXCEPT !.accounts = z, !.code = y]
    PROVE  t = [accounts |-> z, code |-> y, staked |-> n.staked, ok |-> n.ok]
OBVIOUS

LEMMA StoreGoes ==
    ASSUME NEW s, NEW i \in Nat, NEW n, StoredAt(i, s, n)
    PROVE  StoredAt(i + 1, s, E!ApplyAccount(n, E!AccountEntry(s[i + 1])))
<1> DEFINE a == s[i + 1]
           c == CodeOf(a)
           x == ImportedAccount(a)
           m == [accounts |-> E!Put(n.accounts, a, x),
                 code |-> IF c = << >> THEN n.code ELSE E!Put(n.code, E!HashOf(c), c),
                 staked |-> n.staked, ok |-> n.ok]
<1>1. E!ApplyAccount(n, E!AccountEntry(a)) = m
  <2> DEFINE e == E!AccountEntry(a)
  <2>1. /\ e.who = a /\ e.balance = accounts[a].balance /\ e.nonce = accounts[a].nonce
        /\ e.code = IF c = << >> THEN << >> ELSE <<c>>
    BY DEF E!AccountEntry, CodeOf
  <2>2. (e.code = << >>) = (c = << >>) /\ (c # << >> => e.code[1] = c)
    <3>1. <<c>> # << >> /\ <<c>>[1] = c
      OBVIOUS
    <3> HIDE DEF e, c
    <3> QED
      BY <2>1, <3>1
  <2>3. x = [balance |-> e.balance, nonce |-> e.nonce, hash |-> IF e.code = << >> THEN E!ZeroHash ELSE E!HashOf(e.code[1])]
    <3> HIDE DEF e, c
    <3> QED
      BY <2>1, <2>2 DEF ImportedAccount, c
  <2> HIDE DEF e, c, x, a
  <2>4. n = [accounts |-> n.accounts, code |-> n.code, staked |-> n.staked, ok |-> n.ok]
    BY DEF StoredAt, ImportShape
  <2> DEFINE y == IF e.code = << >> THEN n.code ELSE E!Put(n.code, E!HashOf(e.code[1]), e.code[1])
             z == E!Put(n.accounts, e.who, x)
  <2>5. E!ApplyAccount(n, e) = [n EXCEPT !.accounts = z, !.code = y]
    BY <2>3 DEF E!ApplyAccount
  <2>6. y = (IF c = << >> THEN n.code ELSE E!Put(n.code, E!HashOf(c), c)) /\ z = E!Put(n.accounts, a, x)
    BY <2>1, <2>2
  <2> HIDE DEF y, z
  <2>7. [n EXCEPT !.accounts = z, !.code = y] = [accounts |-> z, code |-> y, staked |-> n.staked, ok |-> n.ok]
    BY <2>4, ImportUpdate
  <2> QED
    BY <2>5, <2>6, <2>7 DEF e
<1>2. ImportShape(m) /\ m.ok = TRUE /\ DOMAIN m.staked = {} /\ m.staked = << >>
  BY DEF StoredAt, ImportShape
<1> HIDE DEF c, x, a
<1>3. m.accounts = [b \in FirstOf(s, i + 1) |-> ImportedAccount(b)]
  <2>1. n.accounts = [b \in FirstOf(s, i) |-> ImportedAccount(b)]
    BY DEF StoredAt
  <2>2. m.accounts = E!Put(n.accounts, a, x) /\ FirstOf(s, i + 1) = FirstOf(s, i) \cup {a}
    BY FirstGrows DEF a
  <2>3. x = ImportedAccount(a)
    BY DEF x
  <2> QED
    BY <2>1, <2>2, <2>3 DEF E!Put
<1>4. CodesHashed(m.code)
  BY CodePut DEF StoredAt
<1>5. ASSUME NEW j \in 1..(i + 1), CodeOf(s[j]) # << >> PROVE E!HashOf(CodeOf(s[j])) \in DOMAIN m.code
  <2>1. DOMAIN n.code \subseteq DOMAIN m.code
    BY DEF E!Put
  <2>2. CASE j = i + 1
    <3>1. c # << >> /\ c = CodeOf(s[j])
      BY <1>5, <2>2 DEF c, a
    <3>2. m.code = E!Put(n.code, E!HashOf(c), c)
      BY <3>1
    <3>3. E!HashOf(c) \in DOMAIN E!Put(n.code, E!HashOf(c), c)
      BY DEF E!Put
    <3> QED
      BY <3>1, <3>2, <3>3, Zenon
  <2>3. CASE j \in 1..i
    BY <1>5, <2>1, <2>3 DEF StoredAt
  <2> QED
    BY <2>2, <2>3
<1> HIDE DEF m
<1>6. StoredAt(i + 1, s, m)
  BY <1>2, <1>3, <1>4, <1>5 DEF StoredAt
<1> QED
  BY <1>1, <1>6 DEF a

\* and after the first i validators
RegisteredAt(i, s, n, m) ==
    /\ ImportShape(m) /\ m.accounts = n.accounts /\ m.code = n.code /\ m.ok \in BOOLEAN
    /\ ~m.ok => replaced
    /\ m.ok => m.staked = [v \in FirstOf(s, i) |-> staked[v]]

LEMMA StakeFits ==
    ASSUME GenesisSetting, NEW x \in Nat, x <= GsMinStake + MaxAmount
    PROVE  x % GsWidth = x
<1> DEFINE q == x \div GsWidth
           r == x % GsWidth
<1>0. GsWidth \in Nat /\ GsWidth > 0 /\ x < GsWidth
  BY DEF GenesisSetting
<1>1. q \in Int /\ r \in 0..(GsWidth - 1) /\ x = GsWidth * q + r
  BY <1>0, SMT
<1> HIDE DEF q, r
<1>2. CASE q >= 1
  <2>1. GsWidth * q >= GsWidth
    BY <1>0, <1>1, <1>2, SMT
  <2> QED
    BY <1>0, <1>1, <2>1, SMT
<1>3. CASE q <= -1
  <2>1. GsWidth * q <= -GsWidth
    BY <1>0, <1>1, <1>3, SMT
  <2> QED
    BY <1>0, <1>1, <2>1, SMT
<1>4. CASE q = 0
  BY <1>0, <1>1, <1>4, SMT DEF r
<1> QED
  BY <1>1, <1>2, <1>3, <1>4

LEMMA RegisterGoes ==
    ASSUME GenesisSetting, GenesisInv, NEW s, NEW i \in Nat, NEW n, NEW m, RegisteredAt(i, s, n, m),
           s[i + 1] \in DOMAIN staked
    PROVE  RegisteredAt(i + 1, s, n, E!ApplyValidator(m, E!ValidatorEntry(s[i + 1])))
<1> DEFINE v == s[i + 1]
           e == E!ValidatorEntry(v)
           k == E!ApplyValidator(m, e)
<1>1. e.who = v /\ e.stake = staked[v]
  BY DEF E!ValidatorEntry
<1>2. staked[v] % GsWidth = staked[v] /\ (~replaced => staked[v] >= GsMinStake)
  <2>1. /\ staked[v] \in Nat /\ staked[v] <= GsMinStake + delegated[v] /\ v \in GsAddress
        /\ ~replaced => staked[v] = GsMinStake + delegated[v]
    BY DEF GenesisInv, StakesKept
  <2>2. delegated[v] \in Nat /\ delegated[v] <= MaxAmount /\ GsMinStake \in Nat /\ MaxAmount \in Nat
    BY <2>1 DEF GenesisInv, StakesKept, GenesisSetting
  <2>3. staked[v] <= GsMinStake + MaxAmount
    BY <2>1, <2>2
  <2> HIDE DEF v
  <2> QED
    BY <2>1, <2>2, <2>3, StakeFits
<1>3. ImportShape(m) /\ m.ok \in BOOLEAN
  BY DEF RegisteredAt
<1> HIDE DEF e, v
<1>4. CASE ~m.ok
  <2>1. k = m
    BY <1>4 DEF E!ApplyValidator
  <2> QED
    BY <1>4, <2>1 DEF RegisteredAt, v, e
<1>5. CASE m.ok /\ staked[v] < GsMinStake
  <2>1. k = [m EXCEPT !.ok = FALSE]
    BY <1>1, <1>2, <1>5 DEF E!ApplyValidator
  <2>2. k.accounts = m.accounts /\ k.code = m.code /\ k.ok = FALSE /\ ImportShape(k)
    BY <1>3, <2>1 DEF ImportShape
  <2>3. replaced
    <3>1. staked[v] \in Nat /\ GsMinStake \in Nat
      BY DEF GenesisInv, StakesKept, GenesisSetting, v
    <3> QED
      BY <1>2, <1>5, <3>1
  <2> QED
    BY <2>2, <2>3 DEF RegisteredAt, v, e
<1>6. CASE m.ok /\ ~(staked[v] < GsMinStake)
  <2> DEFINE z == E!Put(m.staked, v, staked[v])
  <2>1. k = [m EXCEPT !.staked = z]
    BY <1>1, <1>2, <1>6 DEF E!ApplyValidator
  <2>2. m.staked = [u \in FirstOf(s, i) |-> staked[u]]
    BY <1>6 DEF RegisteredAt
  <2>3. z = [u \in FirstOf(s, i + 1) |-> staked[u]]
    <3>1. FirstOf(s, i + 1) = FirstOf(s, i) \cup {v}
      BY FirstGrows DEF v
    <3> QED
      BY <2>2, <3>1 DEF E!Put
  <2> HIDE DEF z
  <2>4. k.accounts = m.accounts /\ k.code = m.code /\ k.ok = m.ok /\ k.staked = z /\ ImportShape(k)
    BY <1>3, <2>1 DEF ImportShape
  <2> QED
    BY <1>6, <2>3, <2>4 DEF RegisteredAt, v, e
<1> QED
  BY <1>3, <1>4, <1>5, <1>6

\* What is exported can be imported, whatever the order of the maps.
LEMMA Imports ==
    ASSUME GenesisSetting, GenesisInv
    PROVE  LET n == E!ApplyGenesis(E!ExportGenesis)
           IN /\ n.accounts = [a \in E!Exported |-> ImportedAccount(a)]
              /\ CodesHashed(n.code) /\ n.ok \in BOOLEAN
              /\ \A a \in E!Exported : CodeOf(a) # << >> => E!HashOf(CodeOf(a)) \in DOMAIN n.code
              /\ ~n.ok => replaced
              /\ n.ok => n.staked = [v \in E!Eligible |-> staked[v]]
<1> DEFINE es == E!SetToSeq(E!Exported)
           vs == E!SetToSeq(E!Eligible)
           c == E!ExportGenesis
<1>1. IsFiniteSet(E!Exported) /\ IsFiniteSet(E!Eligible)
  <2>1. E!Exported \subseteq GsAddress /\ E!Eligible \subseteq GsAddress
    BY DEF E!Exported, E!Eligible, GenesisInv, StakesKept
  <2> QED
    BY <2>1, FS_Subset DEF GenesisSetting
<1>2. PICK l \in Nat : es \in [1..l -> E!Exported] /\ \A x \in E!Exported : \E i \in 1..l : es[i] = x
  BY <1>1, ListsAll
<1>3. PICK r \in Nat : vs \in [1..r -> E!Eligible] /\ \A x \in E!Eligible : \E i \in 1..r : vs[i] = x
  BY <1>1, ListsAll
<1>4. /\ c.accounts = [i \in 1..l |-> E!AccountEntry(es[i])]
      /\ c.validators = [i \in 1..r |-> E!ValidatorEntry(vs[i])]
  <2>1. DOMAIN es = 1..l /\ DOMAIN vs = 1..r
    BY <1>2, <1>3
  <2>2. c = [accounts |-> [i \in DOMAIN es |-> E!AccountEntry(es[i])],
             validators |-> [i \in DOMAIN vs |-> E!ValidatorEntry(vs[i])]]
    BY DEF E!ExportGenesis
  <2> HIDE DEF es, vs, c
  <2> QED
    BY <2>1, <2>2
<1> HIDE DEF es, vs, c
<1>5. Len(c.accounts) = l /\ Len(c.validators) = r
  BY <1>4
<1>6. PICK f, g : /\ StoredTo(l, c.accounts, f) /\ RegisteredTo(r, f[l], c.validators, g)
                  /\ E!ApplyGenesis(c) = g[r]
  BY <1>5, ImportIs
<1>7. /\ \A k \in 0..l : f[k] = IF k = 0 THEN E!Fresh ELSE E!ApplyAccount(f[k - 1], c.accounts[k])
      /\ \A k \in 0..r : g[k] = IF k = 0 THEN f[l] ELSE E!ApplyValidator(g[k - 1], c.validators[k])
  BY <1>6 DEF StoredTo, RegisteredTo
<1>8. \A i \in Nat : i <= l => StoredAt(i, es, f[i])
  <2> DEFINE Good == {i \in Nat : i <= l => StoredAt(i, es, f[i])}
  <2>1. 0 \in Good
    <3>1. f[0] = E!Fresh
      BY <1>7
    <3> QED
      BY <3>1, StoreStarts
  <2>2. ASSUME NEW i \in Nat, i \in Good PROVE i + 1 \in Good
    <3> SUFFICES ASSUME i + 1 <= l PROVE StoredAt(i + 1, es, f[i + 1])
      OBVIOUS
    <3>1. i + 1 \in 0..l /\ i + 1 \in 1..l /\ i + 1 # 0 /\ (i + 1) - 1 = i
      OBVIOUS
    <3>2. f[i + 1] = E!ApplyAccount(f[i], c.accounts[i + 1])
      BY <1>7, <3>1
    <3>3. c.accounts[i + 1] = E!AccountEntry(es[i + 1])
      BY <1>4, <3>1
    <3>4. StoredAt(i, es, f[i])
      BY <2>2
    <3> QED
      BY <3>2, <3>3, <3>4, StoreGoes
  <2> HIDE DEF Good
  <2>3. \A i \in Nat : i \in Good
    BY <2>1, <2>2, NatSetInduction
  <2> QED
    BY <2>3 DEF Good
<1>9. StoredAt(l, es, f[l])
  BY <1>8
<1>10. \A i \in Nat : i <= r => RegisteredAt(i, vs, f[l], g[i])
  <2> DEFINE Good == {i \in Nat : i <= r => RegisteredAt(i, vs, f[l], g[i])}
  <2>1. 0 \in Good
    <3>1. g[0] = f[l]
      BY <1>7
    <3>2. FirstOf(vs, 0) = {}
      BY FirstGrows
    <3>3. ImportShape(f[l]) /\ f[l].ok = TRUE /\ f[l].staked = << >>
      BY <1>9 DEF StoredAt
    <3>4. << >> = [v \in {} |-> staked[v]]
      OBVIOUS
    <3>5. RegisteredAt(0, vs, f[l], f[l])
      BY <3>2, <3>3, <3>4 DEF RegisteredAt
    <3> QED
      BY <3>1, <3>5
  <2>2. ASSUME NEW i \in Nat, i \in Good PROVE i + 1 \in Good
    <3> SUFFICES ASSUME i + 1 <= r PROVE RegisteredAt(i + 1, vs, f[l], g[i + 1])
      OBVIOUS
    <3>1. i + 1 \in 0..r /\ i + 1 \in 1..r /\ i + 1 # 0 /\ (i + 1) - 1 = i
      OBVIOUS
    <3>2. g[i + 1] = E!ApplyValidator(g[i], c.validators[i + 1])
      BY <1>7, <3>1
    <3>3. c.validators[i + 1] = E!ValidatorEntry(vs[i + 1])
      BY <1>4, <3>1
    <3>4. RegisteredAt(i, vs, f[l], g[i])
      BY <2>2
    <3>5. vs[i + 1] \in DOMAIN staked
      BY <1>3, <3>1 DEF E!Eligible
    <3> QED
      BY <3>2, <3>3, <3>4, <3>5, RegisterGoes
  <2> HIDE DEF Good
  <2>3. \A i \in Nat : i \in Good
    BY <2>1, <2>2, NatSetInduction
  <2> QED
    BY <2>3 DEF Good
<1>11. RegisteredAt(r, vs, f[l], g[r])
  BY <1>10
<1>12. FirstOf(es, l) = E!Exported /\ FirstOf(vs, r) = E!Eligible
  BY <1>2, <1>3 DEF FirstOf
<1>13. \A a \in E!Exported : CodeOf(a) # << >> => E!HashOf(CodeOf(a)) \in DOMAIN f[l].code
  BY <1>2, <1>9 DEF StoredAt
<1> QED
  BY <1>6, <1>9, <1>11, <1>12, <1>13 DEF StoredAt, RegisteredAt, c

LEMMA GenesisHolds == GenesisSetting /\ GenesisInv => E!GenesisRoundTrips
<1> SUFFICES ASSUME GenesisSetting, GenesisInv PROVE E!GenesisRoundTrips
  OBVIOUS
<1> DEFINE n == E!ApplyGenesis(E!ExportGenesis)
<1>1. /\ n.accounts = [a \in E!Exported |-> ImportedAccount(a)]
      /\ CodesHashed(n.code) /\ n.ok \in BOOLEAN
      /\ \A a \in E!Exported : CodeOf(a) # << >> => E!HashOf(CodeOf(a)) \in DOMAIN n.code
      /\ ~n.ok => replaced
      /\ n.ok => n.staked = [v \in E!Eligible |-> staked[v]]
  BY Imports
<1> HIDE DEF n
<1>2. E!ZeroHash \notin DOMAIN n.code /\ E!ZeroHash \notin DOMAIN code
  BY <1>1, Hashes DEF CodesHashed, GenesisInv
<1>3. ASSUME NEW a \in GsAddress
      PROVE  /\ E!AccountAt(n.accounts, a).balance = E!AccountAt(accounts, a).balance
             /\ E!AccountAt(n.accounts, a).nonce = E!AccountAt(accounts, a).nonce
             /\ E!CodeAt(n.accounts, n.code, a) = CodeOf(a)
  <2>1. CASE a \in E!Exported
    <3>1. E!AccountAt(n.accounts, a) = ImportedAccount(a) /\ E!AccountAt(accounts, a) = accounts[a]
      BY <1>1, <2>1 DEF E!AccountAt, E!Exported
    <3>2. /\ ImportedAccount(a).balance = accounts[a].balance /\ ImportedAccount(a).nonce = accounts[a].nonce
          /\ ImportedAccount(a).hash = IF CodeOf(a) = << >> THEN E!ZeroHash ELSE E!HashOf(CodeOf(a))
      BY DEF ImportedAccount
    <3>3. E!CodeAt(n.accounts, n.code, a) = CodeOf(a)
      <4> DEFINE h == ImportedAccount(a).hash
      <4>1. E!CodeAt(n.accounts, n.code, a) = IF h \in DOMAIN n.code THEN n.code[h] ELSE << >>
        BY <3>1 DEF E!CodeAt
      <4> HIDE DEF h
      <4>2. CASE CodeOf(a) = << >>
        <5>1. h = E!ZeroHash
          BY <3>2, <4>2 DEF h
        <5> QED
          BY <1>2, <4>1, <4>2, <5>1
      <4>3. CASE CodeOf(a) # << >>
        <5>1. h = E!HashOf(CodeOf(a)) /\ h \in DOMAIN n.code
          BY <1>1, <2>1, <3>2, <4>3 DEF h
        <5>2. h = E!HashOf(n.code[h])
          BY <1>1, <5>1 DEF CodesHashed
        <5>3. n.code[h] = CodeOf(a)
          BY <5>1, <5>2, Hashes
        <5> QED
          BY <4>1, <5>1, <5>3
      <4> QED
        BY <4>2, <4>3
    <3> QED
      BY <3>1, <3>2, <3>3
  <2>2. CASE a \notin E!Exported
    <3>1. E!AccountAt(n.accounts, a) = E!EmptyAccount
      BY <1>1, <2>2 DEF E!AccountAt
    <3>2. E!AccountAt(accounts, a) = E!EmptyAccount
      BY <2>2 DEF E!AccountAt, E!Exported, E!IsEmpty
    <3>3. E!EmptyAccount.hash = E!ZeroHash
      BY DEF E!EmptyAccount
    <3>4. E!CodeAt(n.accounts, n.code, a) = << >> /\ CodeOf(a) = << >>
      BY <1>2, <3>1, <3>2, <3>3 DEF E!CodeAt, CodeOf
    <3> QED
      BY <3>1, <3>2, <3>4
  <2> QED
    BY <2>1, <2>2
<1>4. E!ExportRestores
  BY <1>3 DEF E!ExportRestores, n, CodeOf
<1>5. E!Restrict(staked, E!Eligible) = [v \in E!Eligible |-> staked[v]]
  BY DEF E!Restrict
<1>6. E!ExportIsImportable
  BY <1>1, <1>5 DEF E!ExportIsImportable, n
<1> QED
  BY <1>4, <1>6 DEF E!GenesisRoundTrips

\* For any accounts, codes and validators, a node that starts from what another
\* exported has every balance, nonce and code of it and every active validator
\* at its stake, and the import is refused only after a validator registered
\* again over its delegations (genesis.rs: export_genesis, apply_genesis).
THEOREM GenesisProvedToRoundTrip == ASSUME GenesisSetting PROVE GenesisSpec => []GenesisRoundTrips
<1>1. E!Init => GenesisInv
  BY GenesisStarts
<1>2. GenesisInv /\ [E!Next]_genesisVars => GenesisInv'
  BY GenesisStep
<1>3. GenesisInv => GenesisRoundTrips
  BY GenesisHolds DEF GenesisRoundTrips
<1> QED
  BY <1>1, <1>2, <1>3, PTL DEF GenesisSpec

-----------------------------------------------------------------------------
(***************************************************************************)
(* ISO 8583: a message and what its wire carries.                          *)
(***************************************************************************)

\* Fields are 2 to 128 and their values bytes.
IsoSetting == IsoField \subseteq 2..128 /\ IsoValue \subseteq Seq(Nat) /\ FixedLen \in Nat

MessageTypes == {"auth_request", "auth_response"}

\* What a wire is made of: a type, bitmaps and bytes.
Item == MessageTypes \cup (SUBSET Nat) \cup Nat

\* The fields that the secondary bitmap announces.
HighIds(m) == {id \in DOMAIN m.elements : id > 64}

\* The bitmaps announce exactly the fields that are set.
IsoMessage(m) ==
    /\ m = [mti |-> m.mti, primary |-> m.primary, secondary |-> m.secondary, elements |-> m.elements]
    /\ m.mti \in MessageTypes
    /\ DOMAIN m.elements \subseteq 2..128
    /\ \A id \in DOMAIN m.elements : m.elements[id] \in Seq(Nat)
    /\ m.primary \subseteq 1..64
    /\ m.primary \ {1} = {id \in DOMAIN m.elements : id <= 64}
    /\ HighIds(m) = {} => 1 \notin m.primary /\ m.secondary = << >>
    /\ HighIds(m) # {} => 1 \in m.primary /\ m.secondary = <<HighIds(m)>>

LEMMA IsoCards == \A X : I!Cardinality(X) = Cardinality(X)
BY DEF I!Cardinality, Cardinality

LEMMA IsoPut ==
    ASSUME NEW f, NEW id, NEW v
    PROVE  /\ DOMAIN I!Put(f, id, v) = DOMAIN f \cup {id} /\ I!Put(f, id, v)[id] = v
           /\ \A x \in DOMAIN f : x # id => I!Put(f, id, v)[x] = f[x]
BY DEF I!Put

LEMMA IsoNew == ASSUME NEW t \in MessageTypes PROVE IsoMessage(I!NewMessage(t))
<1> DEFINE m == I!NewMessage(t)
<1>1. m = [mti |-> t, primary |-> {}, secondary |-> << >>, elements |-> << >>]
  BY DEF I!NewMessage
<1>2. m.mti = t /\ m.primary = {} /\ m.secondary = << >> /\ m.elements = << >>
  BY <1>1
<1>3. DOMAIN m.elements = {} /\ HighIds(m) = {}
  BY <1>2 DEF HighIds
<1> HIDE DEF m
<1> QED
  BY <1>1, <1>2, <1>3 DEF IsoMessage, m

\* Inclusion is transitive.
LEMMA Within == ASSUME NEW X, NEW Y, NEW Zs, X \subseteq Y, Y \subseteq Zs PROVE X \subseteq Zs
  OBVIOUS

LEMMA IsoSet ==
    ASSUME NEW m, IsoMessage(m), NEW id \in 2..128, NEW v \in Seq(Nat)
    PROVE  IsoMessage(I!WithElement(m, id, v))
<1> DEFINE w == I!WithElement(m, id, v)
           es == I!Put(m.elements, id, v)
           bits == IF m.secondary = << >> THEN <<{id}>> ELSE <<m.secondary[1] \cup {id}>>
<1>1. /\ DOMAIN es = DOMAIN m.elements \cup {id} /\ es[id] = v
      /\ \A x \in DOMAIN m.elements : x # id => es[x] = m.elements[x]
  BY DEF I!Put
<1>2. /\ m = [mti |-> m.mti, primary |-> m.primary, secondary |-> m.secondary, elements |-> m.elements]
      /\ m.mti \in MessageTypes /\ DOMAIN m.elements \subseteq 2..128 /\ m.primary \subseteq 1..64
      /\ \A x \in DOMAIN m.elements : m.elements[x] \in Seq(Nat)
      /\ m.primary \ {1} = {x \in DOMAIN m.elements : x <= 64}
  BY DEF IsoMessage
<1>3. DOMAIN es \subseteq 2..128 /\ \A x \in DOMAIN es : es[x] \in Seq(Nat)
  <2> HIDE DEF es
  <2>1. DOMAIN es \subseteq 2..128
    <3> DEFINE Ids == 2..128
    <3>1. id \in Ids
      OBVIOUS
    <3>2. DOMAIN m.elements \subseteq Ids
      BY <1>2
    <3>3. DOMAIN es = DOMAIN m.elements \cup {id}
      BY <1>1
    <3> HIDE DEF Ids
    <3>4. DOMAIN es \subseteq Ids
      BY ONLY <3>1, <3>2, <3>3
    <3> QED
      BY <3>4 DEF Ids
  <2>2. ASSUME NEW x \in DOMAIN es PROVE es[x] \in Seq(Nat)
    <3>1. CASE x = id
      BY <1>1, <3>1
    <3>2. CASE x # id
      BY <1>1, <1>2, <3>2
    <3> QED
      BY <3>1, <3>2
  <2> QED
    BY <2>1, <2>2
<1>6. DOMAIN es \subseteq Int /\ DOMAIN m.elements \subseteq Int /\ id \in Int /\ m.primary \subseteq Int
  <2> HIDE DEF es
  <2>1. 2..128 \subseteq Int /\ 1..64 \subseteq Int /\ id \in Int
    OBVIOUS
  <2>2. DOMAIN es \subseteq 2..128 /\ DOMAIN m.elements \subseteq 2..128 /\ m.primary \subseteq 1..64
    BY <1>2, <1>3
  <2>3. DOMAIN es \subseteq Int
    BY <2>1, <2>2, Within
  <2>4. DOMAIN m.elements \subseteq Int
    BY <2>1, <2>2, Within
  <2>5. m.primary \subseteq Int
    BY <2>1, <2>2, Within
  <2> QED
    BY <2>1, <2>3, <2>4, <2>5
<1>4. CASE id <= 64
  <2>1. w = [m EXCEPT !.primary = m.primary \cup {id}, !.elements = es]
    BY <1>4 DEF I!WithElement
  <2> HIDE DEF es, w
  <2>2. w = [mti |-> m.mti, primary |-> m.primary \cup {id}, secondary |-> m.secondary, elements |-> es]
    BY <1>2, <2>1
  <2>3. w.mti = m.mti /\ w.primary = m.primary \cup {id} /\ w.secondary = m.secondary /\ w.elements = es
    BY <2>2
  <2>4. HighIds(w) = HighIds(m) /\ id # 1
    <3>1. \A x : x \in {y \in DOMAIN es : y > 64} <=> x \in {y \in DOMAIN m.elements : y > 64}
      BY <1>1, <1>4, <1>6
    <3> QED
      BY <2>3, <3>1 DEF HighIds
  <2>5. w.primary \ {1} = {x \in DOMAIN es : x <= 64} /\ w.primary \subseteq 1..64
    <3>1. id # 1 /\ id \in 1..64
      BY <1>4
    <3>2. \A x : x \in m.primary \ {1} <=> x \in DOMAIN m.elements /\ x <= 64
      BY <1>2
    <3>3. \A x : x \in (m.primary \cup {id}) \ {1} <=> x \in DOMAIN es /\ x <= 64
      BY <1>1, <1>4, <3>1, <3>2
    <3>4. (m.primary \cup {id}) \ {1} = {x \in DOMAIN es : x <= 64}
      BY <3>3
    <3>5. m.primary \cup {id} \subseteq 1..64
      <4>1. m.primary \subseteq 1..64
        BY <1>2
      <4> QED
        BY ONLY <3>1, <4>1
    <3> QED
      BY <2>3, <3>4, <3>5
  <2> QED
    BY <1>2, <1>3, <2>2, <2>3, <2>4, <2>5 DEF IsoMessage, w
<1>5. CASE ~(id <= 64)
  <2>1. w = [m EXCEPT !.primary = m.primary \cup {1}, !.secondary = bits, !.elements = es]
    BY <1>5 DEF I!WithElement
  <2> HIDE DEF es, w, bits
  <2>2. w = [mti |-> m.mti, primary |-> m.primary \cup {1}, secondary |-> bits, elements |-> es]
    BY <1>2, <2>1
  <2>3. w.mti = m.mti /\ w.primary = m.primary \cup {1} /\ w.secondary = bits /\ w.elements = es
    BY <2>2
  <2>4. HighIds(w) = HighIds(m) \cup {id}
    <3>1. \A x : x \in {y \in DOMAIN es : y > 64} <=> x \in {y \in DOMAIN m.elements : y > 64} \cup {id}
      BY <1>1, <1>5, <1>6
    <3> QED
      BY <2>3, <3>1 DEF HighIds
  <2>5. bits = <<HighIds(w)>>
    <3>1. CASE HighIds(m) = {}
      BY <2>4, <3>1 DEF bits, IsoMessage
    <3>2. CASE HighIds(m) # {}
      <4>1. m.secondary = <<HighIds(m)>>
        BY <3>2 DEF IsoMessage
      <4>2. <<HighIds(m)>> # << >> /\ <<HighIds(m)>>[1] = HighIds(m)
        OBVIOUS
      <4> QED
        BY <2>4, <4>1, <4>2 DEF bits
    <3> QED
      BY <3>1, <3>2
  <2>6. w.primary \ {1} = {x \in DOMAIN es : x <= 64} /\ w.primary \subseteq 1..64
    <3>1. 1 \in 1..64
      OBVIOUS
    <3>2. \A x : x \in m.primary \ {1} <=> x \in DOMAIN m.elements /\ x <= 64
      BY <1>2
    <3>3. \A x : x \in (m.primary \cup {1}) \ {1} <=> x \in DOMAIN es /\ x <= 64
      BY <1>1, <1>5, <3>2
    <3>4. (m.primary \cup {1}) \ {1} = {x \in DOMAIN es : x <= 64}
      BY <3>3
    <3>5. m.primary \cup {1} \subseteq 1..64
      <4>1. m.primary \subseteq 1..64
        BY <1>2
      <4> QED
        BY ONLY <3>1, <4>1
    <3> QED
      BY <2>3, <3>4, <3>5
  <2> QED
    BY <1>2, <1>3, <2>2, <2>3, <2>4, <2>5, <2>6 DEF IsoMessage, w
<1> QED
  BY <1>4, <1>5

\* The places of a finite set of numbers list it.
LEMMA NthLists ==
    ASSUME NEW X, IsFiniteSet(X), X \subseteq Nat
    PROVE  /\ \A k \in 1..Cardinality(X) : I!Nth(X, k) \in X
           /\ \A id \in X : \E k \in 1..Cardinality(X) : I!Nth(X, k) = id
<1> DEFINE n == Cardinality(X)
           Upto(id) == {x \in X : x <= id}
           r == [id \in X |-> Cardinality(Upto(id))]
<1>1. n \in Nat
  BY FS_CardinalityType
<1>2. ASSUME NEW id \in X PROVE r[id] \in 1..n /\ IsFiniteSet(Upto(id))
  <2>1. IsFiniteSet(Upto(id)) /\ Cardinality(Upto(id)) <= n
    BY FS_Subset
  <2>2. Cardinality(Upto(id)) \in Nat
    BY <2>1, FS_CardinalityType
  <2>3. id \in Upto(id)
    OBVIOUS
  <2>4. Cardinality(Upto(id)) # 0
    <3> HIDE DEF Upto
    <3> QED
      BY <2>1, <2>3, FS_EmptySet
  <2> HIDE DEF Upto, n
  <2> QED
    BY <1>1, <2>1, <2>2, <2>4
<1>3. ASSUME NEW x \in X, NEW y \in X, x < y PROVE r[x] # r[y]
  <2>1. Upto(x) \in SUBSET Upto(y) /\ y \in Upto(y) /\ y \notin Upto(x)
    <3>1. \A u \in Nat : x \in Nat /\ y \in Nat /\ (u <= x => u <= y) /\ y <= y /\ ~(y <= x)
      BY <1>3
    <3> QED
      BY <1>3, <3>1
  <2>2. IsFiniteSet(Upto(y)) /\ Upto(x) # Upto(y)
    BY <1>2, <2>1
  <2> HIDE DEF Upto
  <2>3. Cardinality(Upto(y)) # Cardinality(Upto(x))
    BY <2>1, <2>2, FS_Subset
  <2> QED
    BY <2>3
<1>4. \A x, y \in X : r[x] = r[y] => x = y
  <2> SUFFICES ASSUME NEW x \in X, NEW y \in X, r[x] = r[y], x # y PROVE FALSE
    OBVIOUS
  <2>1. x < y \/ y < x
    OBVIOUS
  <2> QED
    BY <1>3, <2>1
<1>5. Cardinality(1..n) = n /\ IsFiniteSet(1..n)
  <2>1. 1 \in Int /\ n \in Int
    BY <1>1
  <2> HIDE DEF n
  <2>2. /\ IsFiniteSet(1..n)
        /\ Cardinality(1..n) = IF 1 > n THEN 0 ELSE n - 1 + 1
    BY <2>1, FS_Interval
  <2> QED
    BY <1>1, <2>2
<1>6. r \in [X -> 1..n] /\ DOMAIN r = X
  <2>1. r = [id \in X |-> r[id]]
    OBVIOUS
  <2> HIDE DEF r, n
  <2> QED
    BY <1>2, <2>1
<1>7. \A id \in X : I!Cardinality({x \in X : x <= id}) = r[id]
  BY IsoCards
<1> HIDE DEF r
<1>8. r \in Injection(X, 1..n)
  BY <1>4, <1>6 DEF Injection, IsInjective
<1>9. r \in Surjection(X, 1..n)
  BY <1>5, <1>8, FS_Injection
<1>10. ASSUME NEW k \in 1..n PROVE I!Nth(X, k) \in X /\ r[I!Nth(X, k)] = k
  <2>1. PICK id \in X : r[id] = k
    BY <1>9 DEF Surjection
  <2> QED
    BY <1>7, <2>1 DEF I!Nth
<1> HIDE DEF n
<1>11. ASSUME NEW id \in X PROVE \E k \in 1..n : I!Nth(X, k) = id
  <2>1. r[id] \in 1..n
    BY <1>2
  <2>2. I!Nth(X, r[id]) \in X /\ r[I!Nth(X, r[id])] = r[id]
    BY <1>10, <2>1
  <2> QED
    BY <1>4, <2>1, <2>2
<1> QED
  BY <1>10, <1>11 DEF n

\* The bytes of one field and the value read from them.
NormValue(id, v) == IF I!Variable(id) THEN v ELSE I!Fitted(v)

LEMMA FittedIs ==
    ASSUME IsoSetting, NEW v \in Seq(Nat)
    PROVE  I!Fitted(v) \in Seq(Nat) /\ Len(I!Fitted(v)) = FixedLen
<1>1. FixedLen \in Nat
  BY DEF IsoSetting
<1>2. v \in [1..Len(v) -> Nat] /\ Len(v) \in Nat
  BY LenProperties
<1>3. ASSUME NEW i \in 1..FixedLen PROVE (IF i <= Len(v) THEN v[i] ELSE I!Space) \in Nat
  BY <1>1, <1>2 DEF I!Space
<1>4. I!Fitted(v) \in [1..FixedLen -> Nat]
  BY <1>3 DEF I!Fitted
<1> QED
  BY <1>1, <1>4

LEMMA EncodedIs ==
    ASSUME IsoSetting, NEW id, NEW v \in Seq(Nat)
    PROVE  LET e == I!EncodeField(id, v)
           IN /\ e \in Seq(Nat)
              /\ I!Variable(id) => /\ Len(e) = Len(v) + 1 /\ e[1] = Len(v)
                                   /\ \A i \in 1..Len(v) : e[i + 1] = v[i]
              /\ ~I!Variable(id) => e = I!Fitted(v) /\ Len(e) = FixedLen
<1> DEFINE e == I!EncodeField(id, v)
<1>1. Len(v) \in Nat
  OBVIOUS
<1>2. CASE I!Variable(id)
  <2>1. e = <<Len(v)>> \o v
    BY <1>2 DEF I!EncodeField
  <2>2. <<Len(v)>> \in Seq(Nat) /\ Len(<<Len(v)>>) = 1 /\ <<Len(v)>>[1] = Len(v)
    BY <1>1
  <2> HIDE DEF e
  <2>3. /\ e \in Seq(Nat) /\ Len(e) = 1 + Len(v)
        /\ \A i \in 1..(1 + Len(v)) : e[i] = IF i <= 1 THEN <<Len(v)>>[i] ELSE v[i - 1]
    BY <2>1, <2>2, ConcatProperties
  <2>4. e[1] = Len(v)
    BY <1>1, <2>2, <2>3
  <2>5. ASSUME NEW i \in 1..Len(v) PROVE e[i + 1] = v[i]
    <3>1. i + 1 \in 1..(1 + Len(v)) /\ ~(i + 1 <= 1) /\ (i + 1) - 1 = i
      BY <1>1
    <3> QED
      BY <2>3, <3>1
  <2> QED
    BY <1>2, <2>3, <2>4, <2>5 DEF e
<1>3. CASE ~I!Variable(id)
  <2>1. e = I!Fitted(v)
    BY <1>3 DEF I!EncodeField
  <2> HIDE DEF e
  <2> QED
    BY <1>3, <2>1, FittedIs DEF e
<1> QED
  BY <1>2, <1>3

\* A field is read back where its bytes end in time, and refused elsewhere.
LEMMA DecodesBack ==
    ASSUME IsoSetting, NEW id, NEW v \in Seq(Nat), NEW w \in Seq(Item), NEW p \in Nat, p <= Len(w),
           \A i \in 1..Len(I!EncodeField(id, v)) : p + i <= Len(w) => w[p + i] = I!EncodeField(id, v)[i]
    PROVE  LET q == p + Len(I!EncodeField(id, v))
               d == I!DecodeField(id, w, p)
           IN /\ q <= Len(w) => d = [ok |-> TRUE, value |-> NormValue(id, v), pos |-> q]
              /\ q > Len(w) => d.ok = FALSE
<1> DEFINE e == I!EncodeField(id, v)
           q == p + Len(e)
           head == IF I!Variable(id) THEN 1 ELSE 0
           len == IF head = 0 THEN FixedLen ELSE IF p < Len(w) THEN w[p + 1] ELSE 0
           end == p + head + len
           d == I!DecodeField(id, w, p)
<1> SUFFICES (q <= Len(w) => d = [ok |-> TRUE, value |-> NormValue(id, v), pos |-> q]) /\ (q > Len(w) => d.ok = FALSE)
  OBVIOUS
<1>1. d = IF end > Len(w) THEN [ok |-> FALSE, value |-> << >>, pos |-> p]
          ELSE [ok |-> TRUE, value |-> SubSeq(w, p + head + 1, end), pos |-> end]
  BY DEF I!DecodeField
<1> HIDE DEF d
<1>2. /\ e \in Seq(Nat)
      /\ I!Variable(id) => /\ Len(e) = Len(v) + 1 /\ e[1] = Len(v)
                           /\ \A i \in 1..Len(v) : e[i + 1] = v[i]
      /\ ~I!Variable(id) => e = I!Fitted(v) /\ Len(e) = FixedLen
  BY EncodedIs
<1>3. \A i \in 1..Len(e) : p + i <= Len(w) => w[p + i] = e[i]
  OBVIOUS
<1>4. FixedLen \in Nat /\ Len(v) \in Nat /\ Len(w) \in Nat /\ Len(e) \in Nat
  BY <1>2 DEF IsoSetting
<1> HIDE DEF e
<1>5. CASE I!Variable(id)
  <2>1. head = 1
    BY <1>5
  <2>2. CASE p = Len(w)
    <3>1. end = p + 1 /\ q > Len(w)
      BY <1>2, <1>4, <1>5, <2>1, <2>2
    <3>2. d = [ok |-> FALSE, value |-> << >>, pos |-> p]
      BY <1>1, <1>4, <2>2, <3>1
    <3> QED
      BY <3>1, <3>2, <1>4
  <2>3. CASE p < Len(w)
    <3>1. w[p + 1] = Len(v)
      <4>1. Len(e) = Len(v) + 1 /\ e[1] = Len(v)
        BY <1>2, <1>5
      <4>2. 1 \in 1..Len(e) /\ p + 1 <= Len(w)
        BY <1>4, <2>3, <4>1
      <4>3. w[p + 1] = e[1]
        BY <1>3, <4>2
      <4> QED
        BY <4>1, <4>3
    <3>2. end = q /\ len = Len(v) /\ q = p + 1 + Len(v)
      <4>1. head # 0
        BY <2>1
      <4> HIDE DEF head
      <4>2. len = w[p + 1]
        BY <2>3, <4>1
      <4>3. len = Len(v)
        BY <3>1, <4>2
      <4> HIDE DEF len
      <4>4. Len(e) = Len(v) + 1
        BY <1>2, <1>5
      <4>5. p + head + len = p + 1 + Len(v)
        BY <2>1, <4>3
      <4>6. p + Len(e) = p + 1 + Len(v)
        BY <1>4, <4>4
      <4> QED
        BY <4>3, <4>5, <4>6
    <3> HIDE DEF len, head
    <3>3. CASE q > Len(w)
      <4>1. d = [ok |-> FALSE, value |-> << >>, pos |-> p]
        BY <1>1, <3>2, <3>3
      <4> QED
        BY <3>3, <4>1, <1>4
    <3>4. CASE q <= Len(w)
      <4> DEFINE s == SubSeq(w, p + 2, q)
      <4>1. d = [ok |-> TRUE, value |-> s, pos |-> q]
        <5>1. p + head + 1 = p + 2 /\ ~(end > Len(w))
          BY <1>4, <2>1, <3>2, <3>4
        <5> QED
          BY <1>1, <3>2, <5>1
      <4>2. s = v
        <5>2. p + 2 \in 1..(Len(w) + 1) /\ q \in (p + 1)..Len(w) /\ q - (p + 2) + 1 = Len(v)
          BY <1>4, <3>2, <3>4
        <5>3. /\ s \in Seq(Item) /\ Len(s) = Len(v)
              /\ \A i \in 1..Len(v) : s[i] = w[p + 2 + i - 1]
          <6> HIDE DEF q
          <6>1. /\ s \in Seq(Item) /\ Len(s) = IF p + 2 <= q THEN q - (p + 2) + 1 ELSE 0
                /\ \A i \in 1..(q - (p + 2) + 1) : s[i] = w[p + 2 + i - 1]
            BY <5>2, SubSeqProperties
          <6> QED
            BY <1>4, <5>2, <6>1
        <5>4. ASSUME NEW i \in 1..Len(v) PROVE s[i] = v[i]
          <6>1. /\ i + 1 \in 1..Len(e) /\ p + (i + 1) <= Len(w) /\ p + 2 + i - 1 = p + (i + 1)
            BY <1>2, <1>4, <1>5, <3>2, <3>4
          <6> QED
            BY <1>2, <1>3, <1>5, <5>3, <6>1
        <5>5. v \in Seq(Item)
          <6>1. v \in [1..Len(v) -> Nat] /\ Nat \subseteq Item
            BY DEF Item
          <6> QED
            BY <1>4, <6>1
        <5> HIDE DEF s
        <5> QED
          BY <5>3, <5>4, <5>5, SeqEqual
      <4> HIDE DEF s
      <4> QED
        BY <1>4, <1>5, <3>4, <4>1, <4>2 DEF NormValue
    <3> QED
      BY <1>4, <3>2, <3>3, <3>4
  <2>4. p = Len(w) \/ p < Len(w)
    BY <1>4
  <2> QED
    BY <2>2, <2>3, <2>4
<1>6. CASE ~I!Variable(id)
  <2>1. head = 0 /\ len = FixedLen /\ end = q /\ q = p + FixedLen /\ e = I!Fitted(v)
    BY <1>2, <1>4, <1>6
  <2> HIDE DEF len
  <2>2. CASE q > Len(w)
    <3>1. d = [ok |-> FALSE, value |-> << >>, pos |-> p]
      BY <1>1, <2>1, <2>2
    <3> QED
      BY <2>2, <3>1, <1>4
  <2>3. CASE q <= Len(w)
    <3> DEFINE s == SubSeq(w, p + 1, q)
    <3>1. d = [ok |-> TRUE, value |-> s, pos |-> q]
      <4>1. p + head + 1 = p + 1 /\ ~(end > Len(w))
        BY <1>4, <2>1, <2>3
      <4> QED
        BY <1>1, <2>1, <4>1
    <3>2. s = e
      <4>1. q - (p + 1) + 1 = FixedLen /\ p + 1 \in 1..(Len(w) + 1) /\ q \in p..Len(w)
        BY <1>4, <2>1, <2>3
      <4>2. /\ s \in Seq(Item) /\ Len(s) = FixedLen
            /\ \A i \in 1..FixedLen : s[i] = w[p + 1 + i - 1]
        BY <1>4, <2>1, <2>3, <4>1
      <4>3. ASSUME NEW i \in 1..FixedLen PROVE s[i] = e[i]
        <5>1. i \in 1..Len(e) /\ p + i <= Len(w) /\ p + 1 + i - 1 = p + i
          BY <1>2, <1>4, <1>6, <2>1, <2>3
        <5> QED
          BY <1>3, <4>2, <5>1
      <4>4. e \in Seq(Item) /\ Len(e) = FixedLen
        <5>1. e \in [1..Len(e) -> Nat] /\ Nat \subseteq Item
          BY <1>2 DEF Item
        <5> QED
          BY <1>2, <1>4, <1>6, <5>1
      <4> HIDE DEF s
      <4> QED
        BY <4>2, <4>3, <4>4, SeqEqual
    <3> HIDE DEF s
    <3> QED
      BY <1>4, <1>6, <2>1, <2>3, <3>1, <3>2 DEF NormValue
  <2> QED
    BY <1>4, <2>1, <2>2, <2>3
<1> QED
  BY <1>5, <1>6

\* Whatever is read behind the bitmaps is bytes.
LEMMA DecodesBytes ==
    ASSUME IsoSetting, NEW id, NEW w \in Seq(Item), NEW b \in Nat,
           \A i \in 1..Len(w) : i > b => w[i] \in Nat, NEW p \in Nat, p >= b
    PROVE  LET d == I!DecodeField(id, w, p)
           IN d.value \in Seq(Nat) /\ d.pos \in Nat /\ d.pos >= b
<1> DEFINE head == IF I!Variable(id) THEN 1 ELSE 0
           len == IF head = 0 THEN FixedLen ELSE IF p < Len(w) THEN w[p + 1] ELSE 0
           end == p + head + len
           d == I!DecodeField(id, w, p)
<1>1. d = IF end > Len(w) THEN [ok |-> FALSE, value |-> << >>, pos |-> p]
          ELSE [ok |-> TRUE, value |-> SubSeq(w, p + head + 1, end), pos |-> end]
  BY DEF I!DecodeField
<1>2. head \in {0, 1} /\ Len(w) \in Nat /\ FixedLen \in Nat
  BY DEF IsoSetting
<1> HIDE DEF head
<1>3. len \in Nat
  BY <1>2
<1> HIDE DEF len
<1>4. end \in Nat /\ end >= b
  BY <1>2, <1>3
<1>5. CASE end > Len(w)
  BY <1>1, <1>5
<1>6. CASE ~(end > Len(w))
  <2> DEFINE s == SubSeq(w, p + head + 1, end)
  <2>1. d = [ok |-> TRUE, value |-> s, pos |-> end]
    BY <1>1, <1>6
  <2>2. Len(s) = len /\ \A i \in 1..len : s[i] = w[p + head + i]
    <3>1. end - (p + head + 1) + 1 = len /\ end <= Len(w) /\ p + head + 1 >= 1 /\ \A i \in 1..len : (p + head + 1) + i - 1 = p + head + i
      BY <1>2, <1>3, <1>6
    <3>2. \A i \in (p + head + 1)..end : w[i] \in Item
      <4> TAKE i \in (p + head + 1)..end
      <4>1. i \in 1..Len(w)
        BY <1>2, <1>3, <3>1
      <4> QED
        BY <4>1, ElementOfSeq
    <3>3. p + head + 1 \in 1..(Len(w) + 1) /\ end \in (p + head)..Len(w)
      BY <1>2, <1>3, <3>1
    <3>4. Len(s) = len /\ \A i \in 1..len : s[i] = w[(p + head + 1) + i - 1]
      BY <1>2, <1>3, <3>1, <3>3
    <3> QED
      BY <3>1, <3>4
  <2>3. s \in Seq(Item)
    <3>1. p + head + 1 \in 1..(Len(w) + 1) /\ end \in (p + head)..Len(w)
      BY <1>2, <1>3, <1>6
    <3> QED
      BY <3>1, <1>2, <1>4
  <2>4. ASSUME NEW i \in 1..len PROVE s[i] \in Nat
    <3>1. p + head + i \in 1..Len(w) /\ p + head + i > b
      BY <1>2, <1>3, <1>6
    <3> QED
      BY <2>2, <3>1
  <2> HIDE DEF s
  <2>5. s \in [1..len -> Nat]
    <3>1. s \in [1..len -> Item]
      BY <2>2, <2>3, LenProperties
    <3> QED
      BY <2>4, <3>1
  <2> QED
    BY <1>3, <1>4, <2>1, <2>5
<1> QED
  BY <1>5, <1>6

DataTo(N, m, b, f) ==
    f = [k \in 0..N |-> IF k = 0 THEN b ELSE f[k - 1] \o I!EncodeField(I!Nth(DOMAIN m.elements, k), m.elements[I!Nth(DOMAIN m.elements, k)])]

LEMMA DataExist == ASSUME NEW m, NEW b PROVE \A n \in Nat : \E f : DataTo(n, m, b, f)
<1> DEFINE Good == {n \in Nat : \E f : DataTo(n, m, b, f)}
<1>1. 0 \in Good
  <2> DEFINE f == [k \in 0..0 |-> b]
  <2>1. DataTo(0, m, b, f)
    BY DEF DataTo
  <2> QED
    BY <2>1
<1>2. ASSUME NEW n \in Nat, n \in Good PROVE n + 1 \in Good
  <2>1. PICK f : DataTo(n, m, b, f)
    BY <1>2
  <2> DEFINE x == f[n] \o I!EncodeField(I!Nth(DOMAIN m.elements, (n + 1)), m.elements[I!Nth(DOMAIN m.elements, (n + 1))])
             h == [k \in 0..(n + 1) |-> IF k = n + 1 THEN x ELSE f[k]]
  <2> HIDE DEF x
  <2>2. \A k \in 0..n : f[k] = IF k = 0 THEN b ELSE f[k - 1] \o I!EncodeField(I!Nth(DOMAIN m.elements, k), m.elements[I!Nth(DOMAIN m.elements, k)])
    BY <2>1 DEF DataTo
  <2>3. \A k \in 0..(n + 1) : h[k] = IF k = 0 THEN b ELSE h[k - 1] \o I!EncodeField(I!Nth(DOMAIN m.elements, k), m.elements[I!Nth(DOMAIN m.elements, k)])
    <3> TAKE k \in 0..(n + 1)
    <3>1. CASE k = n + 1
      <4>1. h[k] = x /\ h[k - 1] = f[n] /\ k # 0
        BY <3>1
      <4> QED
        BY <3>1, <4>1 DEF x
    <3>2. CASE k = 0
      <4>1. h[k] = f[0] /\ f[0] = b
        BY <3>2, <2>2
      <4> QED
        BY <3>2, <4>1
    <3>3. CASE k \in 1..n
      <4>1. h[k] = f[k] /\ h[k - 1] = f[k - 1] /\ k \in 0..n /\ k # 0
        BY <3>3
      <4> HIDE DEF h
      <4> QED
        BY <4>1, <2>2
    <3> QED
      BY <3>1, <3>2, <3>3
  <2>4. DataTo(n + 1, m, b, h)
    <3>1. h = [k \in 0..(n + 1) |-> h[k]]
      OBVIOUS
    <3> HIDE DEF h
    <3> QED
      BY <2>3, <3>1 DEF DataTo
  <2> QED
    BY <2>4
<1> HIDE DEF Good
<1>3. \A n \in Nat : n \in Good
  BY <1>1, <1>2, NatSetInduction
<1> QED
  BY <1>3 DEF Good

ReadsTo(N, w, s, ids, f) ==
    f = [k \in 0..N |-> IF k = 0 THEN s ELSE I!ReadBit(w, f[k - 1], I!Nth(ids, k))]

LEMMA ReadsExist == ASSUME NEW w, NEW s, NEW ids PROVE \A n \in Nat : \E f : ReadsTo(n, w, s, ids, f)
<1> DEFINE Good == {n \in Nat : \E f : ReadsTo(n, w, s, ids, f)}
<1>1. 0 \in Good
  <2> DEFINE f == [k \in 0..0 |-> s]
  <2>1. ReadsTo(0, w, s, ids, f)
    BY DEF ReadsTo
  <2> QED
    BY <2>1
<1>2. ASSUME NEW n \in Nat, n \in Good PROVE n + 1 \in Good
  <2>1. PICK f : ReadsTo(n, w, s, ids, f)
    BY <1>2
  <2> DEFINE x == I!ReadBit(w, f[n], I!Nth(ids, (n + 1)))
             h == [k \in 0..(n + 1) |-> IF k = n + 1 THEN x ELSE f[k]]
  <2> HIDE DEF x
  <2>2. \A k \in 0..n : f[k] = IF k = 0 THEN s ELSE I!ReadBit(w, f[k - 1], I!Nth(ids, k))
    BY <2>1 DEF ReadsTo
  <2>3. \A k \in 0..(n + 1) : h[k] = IF k = 0 THEN s ELSE I!ReadBit(w, h[k - 1], I!Nth(ids, k))
    <3> TAKE k \in 0..(n + 1)
    <3>1. CASE k = n + 1
      <4>1. h[k] = x /\ h[k - 1] = f[n] /\ k # 0
        BY <3>1
      <4> QED
        BY <3>1, <4>1 DEF x
    <3>2. CASE k = 0
      <4>1. h[k] = f[0] /\ f[0] = s
        BY <3>2, <2>2
      <4> QED
        BY <3>2, <4>1
    <3>3. CASE k \in 1..n
      <4>1. h[k] = f[k] /\ h[k - 1] = f[k - 1] /\ k \in 0..n /\ k # 0
        BY <3>3
      <4> HIDE DEF h
      <4> QED
        BY <4>1, <2>2
    <3> QED
      BY <3>1, <3>2, <3>3
  <2>4. ReadsTo(n + 1, w, s, ids, h)
    <3>1. h = [k \in 0..(n + 1) |-> h[k]]
      OBVIOUS
    <3> HIDE DEF h
    <3> QED
      BY <2>3, <3>1 DEF ReadsTo
  <2> QED
    BY <2>4
<1> HIDE DEF Good
<1>3. \A n \in Nat : n \in Good
  BY <1>1, <1>2, NatSetInduction
<1> QED
  BY <1>3 DEF Good

IsoHeader(m) == <<m.mti, m.primary>> \o m.secondary

\* A message of which only the bitmaps were read.
Bare(m) == [mti |-> m.mti, primary |-> m.primary, secondary |-> m.secondary, elements |-> << >>]

LEMMA SerializedIs ==
    ASSUME NEW m, NEW N \in Nat, N = Cardinality(DOMAIN m.elements)
    PROVE  \E f : DataTo(N, m, IsoHeader(m), f) /\ I!Serialize(m) = f[N]
<1> DEFINE f == CHOOSE h : DataTo(N, m, IsoHeader(m), h)
<1>1. DataTo(N, m, IsoHeader(m), f)
  BY DataExist
<1>2. N = I!Cardinality(DOMAIN m.elements)
  BY IsoCards
<1>3. I!Serialize(m) = (CHOOSE h : DataTo(I!Cardinality(DOMAIN m.elements), m, IsoHeader(m), h))[I!Cardinality(DOMAIN m.elements)]
  BY Zenon DEF I!Serialize, DataTo, IsoHeader
<1>4. I!Serialize(m) = f[N]
  BY <1>2, <1>3, Zenon
<1> HIDE DEF f
<1> QED
  BY <1>1, <1>4

LEMMA Joined ==
    ASSUME NEW s \in Seq(Item), NEW e \in Seq(Nat)
    PROVE  /\ s \o e \in Seq(Item) /\ Len(s \o e) = Len(s) + Len(e)
           /\ \A i \in 1..Len(s) : (s \o e)[i] = s[i]
           /\ \A i \in 1..Len(e) : (s \o e)[Len(s) + i] = e[i]
<1>1. e \in Seq(Item)
  <2>1. Nat \subseteq Item
    BY DEF Item
  <2> QED
    BY <2>1, SeqMonotonic
<1>2. Len(s) \in Nat /\ Len(e) \in Nat
  OBVIOUS
<1>3. /\ s \o e \in Seq(Item) /\ Len(s \o e) = Len(s) + Len(e)
      /\ \A i \in 1..(Len(s) + Len(e)) : (s \o e)[i] = IF i <= Len(s) THEN s[i] ELSE e[i - Len(s)]
  BY <1>1, ConcatProperties
<1>4. ASSUME NEW i \in 1..Len(s) PROVE (s \o e)[i] = s[i]
  BY <1>2, <1>3
<1>5. ASSUME NEW i \in 1..Len(e) PROVE (s \o e)[Len(s) + i] = e[i]
  <2>1. Len(s) + i \in 1..(Len(s) + Len(e)) /\ ~(Len(s) + i <= Len(s)) /\ (Len(s) + i) - Len(s) = i
    BY <1>2
  <2> QED
    BY <1>3, <2>1
<1> QED
  BY <1>3, <1>4, <1>5

LEMMA HeaderIs ==
    ASSUME NEW m, IsoMessage(m)
    PROVE  LET h == IsoHeader(m)
           IN /\ h \in Seq(Item) /\ Len(h) = (IF 1 \in m.primary THEN 3 ELSE 2)
              /\ h[1] = m.mti /\ h[2] = m.primary
              /\ 1 \in m.primary => m.secondary = <<h[3]>>
              /\ 1 \notin m.primary => m.secondary = << >>
<1> DEFINE h == IsoHeader(m)
           b == <<m.mti, m.primary>>
<1>1. m.mti \in Item /\ m.primary \in Item
  <2>1. m.mti \in MessageTypes /\ m.primary \subseteq 1..64
    BY DEF IsoMessage
  <2>2. 1..64 \subseteq Nat
    OBVIOUS
  <2> QED
    BY <2>1, <2>2 DEF Item
<1>2. b \in Seq(Item) /\ Len(b) = 2 /\ b[1] = m.mti /\ b[2] = m.primary
  BY <1>1
<1>3. h = b \o m.secondary
  BY DEF IsoHeader
<1> HIDE DEF b, h
<1>4. CASE HighIds(m) = {}
  <2>1. 1 \notin m.primary /\ m.secondary = << >>
    BY <1>4 DEF IsoMessage
  <2>2. h = b
    BY <1>2, <1>3, <2>1
  <2> QED
    BY <1>2, <2>1, <2>2 DEF h
<1>5. CASE HighIds(m) # {}
  <2>1. 1 \in m.primary /\ m.secondary = <<HighIds(m)>>
    BY <1>5 DEF IsoMessage
  <2>2. HighIds(m) \in Item
    <3>1. DOMAIN m.elements \subseteq 2..128
      BY DEF IsoMessage
    <3>2. HighIds(m) \subseteq Nat
      BY <3>1 DEF HighIds
    <3> QED
      BY <3>2 DEF Item
  <2> DEFINE c == <<HighIds(m)>>
  <2>3. c \in Seq(Item) /\ Len(c) = 1 /\ c[1] = HighIds(m)
    BY <2>2
  <2>4. h = b \o c
    BY <1>3, <2>1
  <2> HIDE DEF c
  <2>5. /\ h \in Seq(Item) /\ Len(h) = 2 + 1
        /\ \A i \in 1..(2 + 1) : h[i] = IF i <= 2 THEN b[i] ELSE c[i - 2]
    BY <1>2, <2>3, <2>4, ConcatProperties
  <2>6. h[1] = b[1] /\ h[2] = b[2] /\ h[3] = c[1] /\ Len(h) = 3
    BY <2>5
  <2> QED
    BY <1>2, <2>1, <2>3, <2>5, <2>6 DEF h
<1> QED
  BY <1>4, <1>5

LEMMA IsoIds ==
    ASSUME NEW m, IsoMessage(m)
    PROVE  LET ids == DOMAIN m.elements
           IN /\ IsFiniteSet(ids) /\ ids \subseteq Nat /\ Cardinality(ids) \in Nat
              /\ \A k \in 1..Cardinality(ids) : I!Nth(ids, k) \in ids
              /\ \A id \in ids : \E k \in 1..Cardinality(ids) : I!Nth(ids, k) = id
<1> DEFINE ids == DOMAIN m.elements
<1>1. ids \subseteq 2..128
  BY DEF IsoMessage
<1> HIDE DEF ids
<1>2. IsFiniteSet(2..128) /\ 2..128 \subseteq Nat
  <2>1. 2 \in Int /\ 128 \in Int
    OBVIOUS
  <2>2. IsFiniteSet(2..128)
    BY <2>1, FS_Interval
  <2> QED
    BY <2>2
<1>3. IsFiniteSet(ids) /\ ids \subseteq Nat
  BY <1>1, <1>2, FS_Subset
<1>4. Cardinality(ids) \in Nat
  BY <1>3, FS_CardinalityType
<1> QED
  BY <1>3, <1>4, NthLists DEF ids

\* The bytes of the k-th field.
FieldBytes(m, k) == I!EncodeField(I!Nth(DOMAIN m.elements, k), m.elements[I!Nth(DOMAIN m.elements, k)])

LEMMA FieldIsBytes ==
    ASSUME IsoSetting, NEW m, IsoMessage(m), NEW k \in 1..Cardinality(DOMAIN m.elements)
    PROVE  FieldBytes(m, k) \in Seq(Nat)
<1> DEFINE id == I!Nth(DOMAIN m.elements, k)
<1>1. id \in DOMAIN m.elements
  BY IsoIds
<1>2. m.elements[id] \in Seq(Nat)
  BY <1>1 DEF IsoMessage
<1> HIDE DEF id
<1>3. I!EncodeField(id, m.elements[id]) \in Seq(Nat)
  BY <1>2, EncodedIs
<1> QED
  BY <1>3 DEF FieldBytes, id

\* The data grows from field to field.
LEMMA DataGrows ==
    ASSUME IsoSetting, NEW m, IsoMessage(m), NEW N \in Nat, N = Cardinality(DOMAIN m.elements),
           NEW f, DataTo(N, m, IsoHeader(m), f)
    PROVE  /\ f[0] = IsoHeader(m)
           /\ \A k \in 1..N : f[k] = f[k - 1] \o FieldBytes(m, k)
           /\ \A k \in 0..N :
                 /\ f[k] \in Seq(Item)
                 /\ \A j \in 0..k : Len(f[j]) <= Len(f[k]) /\ \A i \in 1..Len(f[j]) : f[k][i] = f[j][i]
                 /\ \A i \in 1..Len(f[k]) : i > Len(IsoHeader(m)) => f[k][i] \in Nat
<1> DEFINE h == IsoHeader(m)
<1>1. f[0] = h /\ \A k \in 1..N : f[k] = f[k - 1] \o FieldBytes(m, k)
  <2>1. \A k \in 0..N : f[k] = IF k = 0 THEN h ELSE f[k - 1] \o FieldBytes(m, k)
    BY Zenon DEF DataTo, FieldBytes
  <2>2. 0 \in 0..N
    OBVIOUS
  <2>3. f[0] = h
    BY <2>1, <2>2, Zenon
  <2>4. ASSUME NEW k \in 1..N PROVE f[k] = f[k - 1] \o FieldBytes(m, k)
    <3>1. k \in 0..N /\ k # 0
      OBVIOUS
    <3> QED
      BY <2>1, <3>1, Zenon
  <2> QED
    BY <2>3, <2>4
<1>2. h \in Seq(Item)
  BY HeaderIs
<1> HIDE DEF h
<1> DEFINE Grown(k) == /\ f[k] \in Seq(Item)
                       /\ \A j \in 0..k : f[j] \in Seq(Item) /\ Len(f[j]) <= Len(f[k]) /\ \A i \in 1..Len(f[j]) : f[k][i] = f[j][i]
                       /\ \A i \in 1..Len(f[k]) : i > Len(h) => f[k][i] \in Nat
           Good == {k \in Nat : k <= N => Grown(k)}
<1>3. 0 \in Good
  <2>1. 0..0 = {0} /\ Len(f[0]) \in Nat /\ f[0] \in Seq(Item)
    BY <1>1, <1>2
  <2>2. \A i \in 1..Len(f[0]) : ~(i > Len(h))
    BY <1>1, <2>1
  <2> QED
    BY <2>1, <2>2
<1>4. ASSUME NEW k \in Nat, k \in Good PROVE k + 1 \in Good
  <2> SUFFICES ASSUME k + 1 <= N PROVE Grown(k + 1)
    OBVIOUS
  <2>1. Grown(k)
    BY <1>4
  <2> DEFINE e == FieldBytes(m, k + 1)
             s == f[k]
             t == f[k + 1]
  <2>2. t = s \o e /\ e \in Seq(Nat) /\ s \in Seq(Item)
    <3>1. k + 1 \in 1..N /\ (k + 1) - 1 = k
      OBVIOUS
    <3> QED
      BY <1>1, <2>1, <3>1, FieldIsBytes
  <2> HIDE DEF e
  <2>3. /\ t \in Seq(Item) /\ Len(t) = Len(s) + Len(e)
        /\ \A i \in 1..Len(s) : t[i] = s[i]
        /\ \A i \in 1..Len(e) : t[Len(s) + i] = e[i]
    <3> HIDE DEF t, s
    <3> QED
      BY <2>2, Joined
  <2>4. Len(s) \in Nat /\ Len(e) \in Nat /\ Len(h) \in Nat
    BY <1>2, <2>2
  <2>5. ASSUME NEW j \in 0..(k + 1) PROVE f[j] \in Seq(Item) /\ Len(f[j]) <= Len(t) /\ \A i \in 1..Len(f[j]) : t[i] = f[j][i]
    <3>1. CASE j = k + 1
      BY <2>3, <2>4, <3>1
    <3>2. CASE j \in 0..k
      <4>1. Len(f[j]) <= Len(s) /\ \A i \in 1..Len(f[j]) : s[i] = f[j][i]
        BY <2>1, <3>2
      <4>2. f[j] \in Seq(Item) /\ Len(f[j]) \in Nat
        <5>1. f[j] \in Seq(Item)
          BY <2>1, <3>2
        <5> QED
          BY <5>1
      <4> HIDE DEF s, t
      <4>3. Len(f[j]) <= Len(t)
        BY <2>3, <2>4, <4>1, <4>2
      <4>4. ASSUME NEW i \in 1..Len(f[j]) PROVE t[i] = f[j][i]
        <5>1. i \in 1..Len(s)
          BY <2>4, <4>1, <4>2
        <5> QED
          BY <2>3, <4>1, <5>1
      <4> QED
        BY <4>2, <4>3, <4>4
    <3> QED
      BY <3>1, <3>2
  <2>6. ASSUME NEW i \in 1..Len(t), i > Len(h) PROVE t[i] \in Nat
    <3> HIDE DEF s, t
    <3>1. CASE i <= Len(s)
      <4>1. i \in 1..Len(s)
        BY <2>3, <2>4, <3>1
      <4>2. s[i] \in Nat
        BY <2>1, <2>6, <4>1 DEF s
      <4> QED
        BY <2>3, <4>1, <4>2
    <3>2. CASE ~(i <= Len(s))
      <4>1. i - Len(s) \in 1..Len(e) /\ Len(s) + (i - Len(s)) = i
        BY <2>3, <2>4, <3>2
      <4>2. t[i] = e[i - Len(s)] /\ e[i - Len(s)] \in Nat
        BY <2>2, <2>3, <4>1, ElementOfSeq
      <4> QED
        BY <4>2
    <3> QED
      BY <3>1, <3>2
  <2> QED
    BY <2>3, <2>5, <2>6
<1> HIDE DEF Good
<1>5. \A k \in Nat : k \in Good
  BY <1>3, <1>4, NatSetInduction
<1>6. ASSUME NEW k \in 0..N PROVE Grown(k)
  <2>1. k \in Nat /\ k <= N
    OBVIOUS
  <2> HIDE DEF Grown
  <2> QED
    BY <1>5, <2>1 DEF Good
<1> QED
  BY <1>1, <1>6 DEF h

\* Where the parser starts, behind the bitmaps.
ReadStart(m) == [ok |-> TRUE, pos |-> Len(IsoHeader(m)), msg |-> Bare(m)]

LEMMA AnnouncedIs ==
    ASSUME NEW m, IsoMessage(m)
    PROVE  I!Announced(Bare(m)) = DOMAIN m.elements \ {65}
<1> DEFINE b == Bare(m)
           high == IF b.secondary = << >> THEN {} ELSE b.secondary[1] \ {65}
<1>1. b.primary = m.primary /\ b.secondary = m.secondary
  BY DEF Bare
<1>2. I!Announced(b) = (m.primary \ {1}) \cup high
  BY <1>1 DEF I!Announced
<1>3. high = HighIds(m) \ {65}
  <2> HIDE DEF b
  <2>1. CASE HighIds(m) = {}
    BY <1>1, <2>1 DEF IsoMessage
  <2>2. CASE HighIds(m) # {}
    <3>1. m.secondary = <<HighIds(m)>>
      BY <2>2 DEF IsoMessage
    <3>2. <<HighIds(m)>> # << >> /\ <<HighIds(m)>>[1] = HighIds(m)
      OBVIOUS
    <3> QED
      BY <1>1, <3>1, <3>2
  <2> QED
    BY <2>1, <2>2
<1> HIDE DEF high, b
<1>4. m.primary \ {1} = {id \in DOMAIN m.elements : id <= 64} /\ DOMAIN m.elements \subseteq Int
  <2>1. 2..128 \subseteq Int
    OBVIOUS
  <2> QED
    BY <2>1 DEF IsoMessage
<1>5. \A id \in Int : (id <= 64 /\ id # 65) <=> id <= 64
  OBVIOUS
<1>6. \A id \in Int : id > 64 <=> ~(id <= 64)
  OBVIOUS
<1> QED
  BY <1>2, <1>3, <1>4, <1>5, <1>6 DEF HighIds, b

\* A wire that holds the bitmaps is parsed field by field, a shorter one
\* is refused.
LEMMA ParseIs ==
    ASSUME NEW m, IsoMessage(m), NEW w \in Seq(Item), NEW N \in Nat,
           N = Cardinality(DOMAIN m.elements \ {65}),
           \A i \in 1..Len(w) : i <= Len(IsoHeader(m)) => w[i] = IsoHeader(m)[i]
    PROVE  /\ Len(w) < Len(IsoHeader(m)) => I!Parse(w).ok = FALSE
           /\ Len(w) >= Len(IsoHeader(m)) =>
                 \E g : /\ ReadsTo(N, w, ReadStart(m), DOMAIN m.elements \ {65}, g)
                        /\ I!Parse(w) = g[N]
<1> DEFINE h == IsoHeader(m)
           two == Len(w) >= 2 /\ 1 \in w[2]
           start == IF two THEN 3 ELSE 2
           top == [I!NewMessage(w[1]) EXCEPT !.primary = w[2], !.secondary = IF two THEN <<w[3]>> ELSE << >>]
           ids == I!Announced(top)
           s == [ok |-> TRUE, pos |-> start, msg |-> top]
           n == I!Cardinality(ids)
           g == CHOOSE f : ReadsTo(n, w, s, ids, f)
<1>1. I!Parse(w) = IF Len(w) < start THEN [ok |-> FALSE] ELSE g[n]
  BY Zenon DEF I!Parse, ReadsTo
<1>2. /\ h \in Seq(Item) /\ Len(h) = (IF 1 \in m.primary THEN 3 ELSE 2)
      /\ h[1] = m.mti /\ h[2] = m.primary
      /\ 1 \in m.primary => m.secondary = <<h[3]>>
      /\ 1 \notin m.primary => m.secondary = << >>
  BY HeaderIs
<1>3. Len(w) \in Nat /\ \A i \in 1..Len(w) : i <= Len(h) => w[i] = h[i]
  OBVIOUS
<1> HIDE DEF h
<1>4. ASSUME Len(w) >= 2 PROVE w[1] = m.mti /\ w[2] = m.primary
  <2>1. 1 \in 1..Len(w) /\ 2 \in 1..Len(w) /\ 1 <= Len(h) /\ 2 <= Len(h)
    BY <1>2, <1>3, <1>4
  <2> QED
    BY <1>2, <1>3, <2>1
<1>5. CASE Len(w) < 2
  <2>1. ~two /\ start = 2
    BY <1>3, <1>5
  <2>2. I!Parse(w) = [ok |-> FALSE] /\ ~(Len(w) >= Len(h))
    <3> HIDE DEF g, n, start
    <3> QED
      BY <1>1, <1>2, <1>3, <1>5, <2>1
  <2> HIDE DEF g
  <2> QED
    BY <2>2 DEF h
<1>6. CASE Len(w) >= 2
  <2>1. two = (1 \in m.primary) /\ start = Len(h)
    BY <1>2, <1>4, <1>6
  <2> HIDE DEF g, n, s, ids, top
  <2>2. CASE Len(w) < Len(h)
    <3>1. I!Parse(w) = [ok |-> FALSE]
      BY <1>1, <2>1, <2>2
    <3>2. ~(Len(w) >= Len(h))
      BY <1>2, <1>3, <2>2
    <3> QED
      BY <3>1, <3>2 DEF h
  <2>3. CASE ~(Len(w) < Len(h))
    <3>1. I!Parse(w) = g[n]
      BY <1>1, <2>1, <2>3
    <3>2. top = Bare(m)
      <4> DEFINE two2 == IF two THEN <<w[3]>> ELSE << >>
      <4>1. two2 = m.secondary
        <5>1. CASE 1 \in m.primary
          <6>1. 3 \in 1..Len(w) /\ 3 <= Len(h)
            BY <1>2, <1>3, <2>3, <5>1
          <6>2. w[3] = h[3]
            BY <1>3, <6>1
          <6> QED
            BY <1>2, <2>1, <5>1, <6>2
        <5>2. CASE 1 \notin m.primary
          BY <1>2, <2>1, <5>2
        <5> QED
          BY <5>1, <5>2
      <4>2. top = [I!NewMessage(w[1]) EXCEPT !.primary = w[2], !.secondary = two2]
        BY DEF top
      <4> HIDE DEF two2
      <4>3. top = [I!NewMessage(m.mti) EXCEPT !.primary = m.primary, !.secondary = m.secondary]
        BY <1>4, <1>6, <4>1, <4>2
      <4> QED
        BY <4>3 DEF I!NewMessage, Bare
    <3>3. s = ReadStart(m) /\ ids = DOMAIN m.elements \ {65}
      BY <2>1, <3>2, AnnouncedIs DEF s, ids, ReadStart, h
    <3>4. n = N
      BY <3>3, IsoCards DEF n
    <3>5. ReadsTo(N, w, s, ids, g)
      BY <3>4, ReadsExist DEF g
    <3>6. ~(Len(w) < Len(IsoHeader(m)))
      BY <2>3 DEF h
    <3> QED
      BY <3>1, <3>3, <3>4, <3>5, <3>6
  <2> QED
    BY <2>2, <2>3
<1>7. Len(w) < 2 \/ Len(w) >= 2
  BY <1>3
<1> HIDE DEF g
<1> QED
  BY <1>5, <1>6, <1>7

\* Every value that the parser takes is bytes.
LEMMA ReadsBytes ==
    ASSUME IsoSetting, NEW m, IsoMessage(m), NEW w \in Seq(Item), NEW N \in Nat, NEW ids,
           \A i \in 1..Len(w) : i > Len(IsoHeader(m)) => w[i] \in Nat,
           NEW g, ReadsTo(N, w, ReadStart(m), ids, g)
    PROVE  \A id \in DOMAIN g[N].msg.elements : g[N].msg.elements[id] \in Seq(Nat)
<1> DEFINE b == Len(IsoHeader(m))
           Bytes(s) == /\ s.pos \in Nat /\ s.pos >= b
                       /\ s.msg = [mti |-> s.msg.mti, primary |-> s.msg.primary,
                                   secondary |-> s.msg.secondary, elements |-> s.msg.elements]
                       /\ \A id \in DOMAIN s.msg.elements : s.msg.elements[id] \in Seq(Nat)
           Good == {k \in Nat : k <= N => Bytes(g[k])}
<1>1. b \in Nat
  <2>1. IsoHeader(m) \in Seq(Item)
    BY HeaderIs
  <2> QED
    BY <2>1
<1>2. \A k \in 0..N : g[k] = IF k = 0 THEN ReadStart(m) ELSE I!ReadBit(w, g[k - 1], I!Nth(ids, k))
  BY Zenon DEF ReadsTo
<1>3. \A i \in 1..Len(w) : i > b => w[i] \in Nat
  OBVIOUS
<1> HIDE DEF b
<1>4. 0 \in Good
  <2>1. g[0] = ReadStart(m)
    BY <1>2
  <2>2. g[0].pos = b /\ g[0].msg = Bare(m)
    BY <2>1 DEF ReadStart, b
  <2>3. g[0].msg.elements = << >> /\ DOMAIN << >> = {}
    BY <2>2 DEF Bare
  <2>4. Bytes(g[0])
    BY <1>1, <2>2, <2>3 DEF Bare
  <2> QED
    BY <2>4
<1>5. ASSUME NEW k \in Nat, k \in Good PROVE k + 1 \in Good
  <2> SUFFICES ASSUME k + 1 <= N PROVE Bytes(g[k + 1])
    OBVIOUS
  <2> DEFINE s == g[k]
             id == I!Nth(ids, k + 1)
             d == I!DecodeField(id, w, s.pos)
             es == I!Put(s.msg.elements, id, d.value)
  <2>1. Bytes(s)
    BY <1>5
  <2>2. g[k + 1] = I!ReadBit(w, s, id)
    <3>1. k + 1 \in 0..N /\ k + 1 # 0 /\ (k + 1) - 1 = k
      OBVIOUS
    <3> QED
      BY <1>2, <3>1, Zenon
  <2> HIDE DEF s, id
  <2>3. CASE ~s.ok
    <3>1. g[k + 1] = s
      BY <2>2, <2>3 DEF I!ReadBit
    <3> QED
      BY <2>1, <3>1
  <2>4. CASE s.ok
    <3>1. g[k + 1] = [ok |-> d.ok, pos |-> d.pos, msg |-> [s.msg EXCEPT !.elements = es]]
      BY <2>2, <2>4 DEF I!ReadBit
    <3>2. d.value \in Seq(Nat) /\ d.pos \in Nat /\ d.pos >= b
      BY <1>1, <1>3, <2>1, DecodesBytes
    <3> HIDE DEF d, es
    <3>3. /\ DOMAIN es = DOMAIN s.msg.elements \cup {id} /\ es[id] = d.value
          /\ \A x \in DOMAIN s.msg.elements : x # id => es[x] = s.msg.elements[x]
      BY DEF I!Put, es
    <3>4. \A x \in DOMAIN es : es[x] \in Seq(Nat)
      BY <2>1, <3>2, <3>3
    <3>5. [s.msg EXCEPT !.elements = es] = [mti |-> s.msg.mti, primary |-> s.msg.primary,
                                            secondary |-> s.msg.secondary, elements |-> es]
      BY <2>1
    <3> QED
      BY <3>1, <3>2, <3>4, <3>5
  <2> QED
    BY <2>3, <2>4
<1> HIDE DEF Good
<1>6. \A k \in Nat : k \in Good
  BY <1>4, <1>5, NatSetInduction
<1>7. Bytes(g[N])
  <2> HIDE DEF Bytes
  <2> QED
    BY <1>6 DEF Good
<1> QED
  BY <1>7

IsoFirst(m, k) == {I!Nth(DOMAIN m.elements, j) : j \in 1..k}

\* What the parser holds after the first k fields.
ReadFields(m, k) == [id \in IsoFirst(m, k) |-> NormValue(id, m.elements[id])]
ReadMessage(m, k) ==
    [mti |-> m.mti, primary |-> m.primary, secondary |-> m.secondary, elements |-> ReadFields(m, k)]

\* g reads the wire w, the data f of a message or a prefix of it.
ReadAlong(m, N, f, w, g) ==
    /\ IsoMessage(m) /\ N \in Nat /\ N = Cardinality(DOMAIN m.elements)
    /\ DataTo(N, m, IsoHeader(m), f)
    /\ w \in Seq(Item) /\ Len(w) <= Len(f[N]) /\ Len(w) >= Len(IsoHeader(m))
    /\ \A i \in 1..Len(w) : w[i] = f[N][i]
    /\ ReadsTo(N, w, ReadStart(m), DOMAIN m.elements, g)

\* The parser follows the serializer as far as the wire reaches.
LEMMA ReadsBack ==
    ASSUME IsoSetting, NEW m, NEW N, NEW f, NEW w, NEW g, ReadAlong(m, N, f, w, g)
    PROVE  /\ Len(f[N]) <= Len(w) => g[N].ok = TRUE /\ g[N].msg = ReadMessage(m, N)
           /\ Len(f[N]) > Len(w) => g[N].ok = FALSE
<1> DEFINE ids == DOMAIN m.elements
           Back(k) == /\ Len(f[k]) <= Len(w) => g[k] = [ok |-> TRUE, pos |-> Len(f[k]), msg |-> ReadMessage(m, k)]
                      /\ Len(f[k]) > Len(w) => g[k].ok = FALSE
           Good == {k \in Nat : k <= N => Back(k)}
<1> USE DEF ReadAlong
<1>1. /\ f[0] = IsoHeader(m)
      /\ \A k \in 1..N : f[k] = f[k - 1] \o FieldBytes(m, k)
      /\ \A k \in 0..N :
            /\ f[k] \in Seq(Item)
            /\ \A j \in 0..k : Len(f[j]) <= Len(f[k]) /\ \A i \in 1..Len(f[j]) : f[k][i] = f[j][i]
  BY DataGrows
<1>2. \A k \in 0..N : g[k] = IF k = 0 THEN ReadStart(m) ELSE I!ReadBit(w, g[k - 1], I!Nth(ids, k))
  BY Zenon DEF ReadsTo
<1>3. \A k \in 1..N : I!Nth(ids, k) \in ids
  BY IsoIds
<1>4. 0 \in Good
  <2>1. 0 \in 0..N
    OBVIOUS
  <2>2. g[0] = ReadStart(m)
    BY <1>2, <2>1
  <2>3. ReadFields(m, 0) = << >>
    <3>1. IsoFirst(m, 0) = {}
      BY DEF IsoFirst
    <3> QED
      BY <3>1 DEF ReadFields
  <2>4. Len(f[0]) \in Nat /\ Len(w) \in Nat /\ ~(Len(f[0]) > Len(w))
    <3>1. f[0] \in Seq(Item)
      BY <1>1, <2>1
    <3>2. Len(f[0]) \in Nat
      BY <3>1
    <3> QED
      BY <1>1, <3>2
  <2>5. ReadStart(m) = [ok |-> TRUE, pos |-> Len(f[0]), msg |-> ReadMessage(m, 0)]
    BY <1>1, <2>3 DEF ReadStart, ReadMessage, Bare
  <2>6. Back(0)
    BY <2>2, <2>4, <2>5
  <2> QED
    BY <2>6
<1>5. ASSUME NEW k \in Nat, k \in Good PROVE k + 1 \in Good
  <2> HIDE DEF Back
  <2> SUFFICES ASSUME k + 1 <= N PROVE Back(k + 1)
    OBVIOUS
  <2> USE DEF Back
  <2>1. k + 1 \in 1..N /\ k + 1 \in 0..N /\ k \in 0..N /\ (k + 1) - 1 = k /\ N \in 0..N /\ k + 1 # 0 /\ k <= N
    OBVIOUS
  <2>2. Back(k)
    BY <1>5, <2>1
  <2> DEFINE id == I!Nth(ids, k + 1)
             v == m.elements[id]
             e == I!EncodeField(id, v)
             p == Len(f[k])
             q == Len(f[k + 1])
             d == I!DecodeField(id, w, p)
  <2>3. g[k + 1] = I!ReadBit(w, g[k], id)
    BY <1>2, <2>1, Zenon
  <2>4. id \in ids /\ v \in Seq(Nat)
    BY <1>3, <2>1 DEF IsoMessage
  <2>5. f[k + 1] = f[k] \o e
    BY <1>1, <2>1 DEF FieldBytes
  <2> HIDE DEF id
  <2>6. e \in Seq(Nat)
    <3> HIDE DEF v
    <3> QED
      BY <2>4, EncodedIs
  <2> HIDE DEF v, e
  <2>7. f[k] \in Seq(Item) /\ f[k + 1] \in Seq(Item) /\ f[N] \in Seq(Item)
    BY <1>1, <2>1
  <2>8. /\ q = p + Len(e)
        /\ \A i \in 1..Len(e) : f[k + 1][p + i] = e[i]
    BY <2>5, <2>6, <2>7, Joined
  <2>9. p \in Nat /\ q \in Nat /\ Len(e) \in Nat /\ Len(w) \in Nat
    BY <2>6, <2>7
  <2>10. /\ k + 1 \in 0..N
         /\ \A i \in 1..q : f[N][i] = f[k + 1][i]
    BY <1>1, <2>1
  <2> HIDE DEF p, q
  <2>11. CASE p > Len(w)
    <3>1. g[k].ok = FALSE
      BY <2>2, <2>11 DEF p
    <3>2. g[k + 1] = g[k]
      BY <2>3, <3>1 DEF I!ReadBit
    <3>3. ~(q <= Len(w))
      BY <2>8, <2>9, <2>11
    <3> QED
      BY <3>1, <3>2, <3>3 DEF q
  <2>12. CASE p <= Len(w)
    <3>1. g[k] = [ok |-> TRUE, pos |-> p, msg |-> ReadMessage(m, k)]
      BY <2>2, <2>12 DEF p
    <3>2. g[k].ok = TRUE /\ g[k].pos = p /\ g[k].msg = ReadMessage(m, k)
      BY <3>1
    <3> DEFINE es == I!Put(ReadFields(m, k), id, d.value)
    <3>3. g[k + 1] = [ok |-> d.ok, pos |-> d.pos, msg |-> [ReadMessage(m, k) EXCEPT !.elements = es]]
      <4>1. ReadMessage(m, k).elements = ReadFields(m, k)
        BY DEF ReadMessage
      <4> QED
        BY <2>3, <3>2, <4>1 DEF I!ReadBit
    <3>4. ASSUME NEW i \in 1..Len(e), p + i <= Len(w) PROVE w[p + i] = e[i]
      <4>1. p + i \in 1..Len(w) /\ p + i \in 1..q
        BY <2>8, <2>9, <3>4
      <4>2. w[p + i] = f[N][p + i] /\ f[N][p + i] = f[k + 1][p + i]
        BY <2>10, <4>1
      <4> QED
        BY <2>8, <4>2
    <3>5. /\ q <= Len(w) => d = [ok |-> TRUE, value |-> NormValue(id, v), pos |-> q]
          /\ q > Len(w) => d.ok = FALSE
      BY <2>4, <2>8, <2>9, <2>12, <3>4, DecodesBack DEF e
    <3> HIDE DEF d
    <3>6. CASE q > Len(w)
      <4>1. g[k + 1].ok = FALSE
        <5> HIDE DEF es
        <5> QED
          BY <3>3, <3>5, <3>6
      <4>2. ~(q <= Len(w))
        BY <2>9, <3>6
      <4> QED
        BY <4>1, <4>2 DEF q
    <3>7. CASE q <= Len(w)
      <4>1. d.ok = TRUE /\ d.value = NormValue(id, v) /\ d.pos = q
        BY <3>5, <3>7
      <4>2. es = ReadFields(m, k + 1)
        <5>1. 1..(k + 1) = 1..k \cup {k + 1}
          OBVIOUS
        <5>2. IsoFirst(m, k + 1) = IsoFirst(m, k) \cup {id}
          BY <5>1 DEF IsoFirst, id
        <5>3. es = I!Put(ReadFields(m, k), id, NormValue(id, m.elements[id]))
          BY <4>1 DEF v
        <5> HIDE DEF es
        <5> QED
          BY <5>2, <5>3 DEF I!Put, ReadFields
      <4> HIDE DEF es
      <4>3. [ReadMessage(m, k) EXCEPT !.elements = es] = ReadMessage(m, k + 1)
        BY <4>2 DEF ReadMessage
      <4>4. g[k + 1] = [ok |-> TRUE, pos |-> q, msg |-> ReadMessage(m, k + 1)]
        BY <3>3, <4>1, <4>3
      <4>5. ~(q > Len(w))
        BY <2>9, <3>7
      <4> QED
        BY <4>4, <4>5 DEF q
    <3>8. q > Len(w) \/ q <= Len(w)
      BY <2>9
    <3> QED
      BY <3>6, <3>7, <3>8
  <2>13. p > Len(w) \/ p <= Len(w)
    BY <2>9
  <2> QED
    BY <2>11, <2>12, <2>13
<1> HIDE DEF Good
<1>6. \A k \in Nat : k \in Good
  BY <1>4, <1>5, NatSetInduction
<1>7. Back(N)
  <2> HIDE DEF Back
  <2> QED
    BY <1>6 DEF Good
<1> QED
  BY <1>7

\* Every prefix of the wire, the whole one included.
LEMMA PrefixParses ==
    ASSUME IsoSetting, NEW m, IsoMessage(m), 65 \notin DOMAIN m.elements,
           NEW w \in Seq(Item), Len(w) <= Len(I!Serialize(m)),
           \A i \in 1..Len(w) : w[i] = I!Serialize(m)[i]
    PROVE  LET N == Cardinality(DOMAIN m.elements)
           IN /\ I!Serialize(m) \in Seq(Item)
              /\ Len(w) = Len(I!Serialize(m)) => I!Parse(w).ok = TRUE /\ I!Parse(w).msg = ReadMessage(m, N)
              /\ Len(w) < Len(I!Serialize(m)) => I!Parse(w).ok = FALSE
<1> DEFINE N == Cardinality(DOMAIN m.elements)
           h == IsoHeader(m)
<1>1. N \in Nat
  BY IsoIds
<1>2. PICK f : DataTo(N, m, h, f) /\ I!Serialize(m) = f[N]
  BY <1>1, SerializedIs
<1>3. f[N] \in Seq(Item) /\ Len(h) <= Len(f[N]) /\ \A i \in 1..Len(h) : f[N][i] = h[i]
  <2>1. N \in 0..N /\ 0 \in 0..N
    BY <1>1
  <2>2. /\ f[0] = h
        /\ \A k \in 0..N :
              /\ f[k] \in Seq(Item)
              /\ \A j \in 0..k : Len(f[j]) <= Len(f[k]) /\ \A i \in 1..Len(f[j]) : f[k][i] = f[j][i]
    <3> HIDE DEF N
    <3> QED
      BY <1>1, <1>2, DataGrows DEF N
  <2> HIDE DEF N, h
  <2> QED
    BY <2>1, <2>2
<1>4. h \in Seq(Item)
  BY HeaderIs
<1>5. Len(w) \in Nat /\ Len(h) \in Nat /\ Len(f[N]) \in Nat
  BY <1>3, <1>4
<1>6. DOMAIN m.elements \ {65} = DOMAIN m.elements
  OBVIOUS
<1>12. N = Cardinality(DOMAIN m.elements) /\ N = Cardinality(DOMAIN m.elements \ {65})
  BY <1>6
<1> HIDE DEF N
<1>7. \A i \in 1..Len(w) : i <= Len(h) => w[i] = h[i]
  <2> SUFFICES ASSUME NEW i \in 1..Len(w), i <= Len(h) PROVE w[i] = h[i]
    OBVIOUS
  <2>1. i \in 1..Len(h)
    BY <1>5
  <2> QED
    BY <1>2, <1>3, <2>1
<1>8. /\ Len(w) < Len(h) => I!Parse(w).ok = FALSE
      /\ Len(w) >= Len(h) => \E g : ReadsTo(N, w, ReadStart(m), DOMAIN m.elements, g) /\ I!Parse(w) = g[N]
  <2>1. /\ Len(w) < Len(h) => I!Parse(w).ok = FALSE
        /\ Len(w) >= Len(h) => \E g : ReadsTo(N, w, ReadStart(m), DOMAIN m.elements \ {65}, g) /\ I!Parse(w) = g[N]
    BY <1>1, <1>7, <1>12, ParseIs
  <2> QED
    BY <1>6, <2>1
<1> HIDE DEF h
<1>9. CASE Len(w) < Len(h)
  BY <1>2, <1>3, <1>5, <1>8, <1>9
<1>10. CASE Len(w) >= Len(h)
  <2>1. PICK g : ReadsTo(N, w, ReadStart(m), DOMAIN m.elements, g) /\ I!Parse(w) = g[N]
    BY <1>8, <1>10
  <2>2. /\ Len(f[N]) <= Len(w) => g[N].ok = TRUE /\ g[N].msg = ReadMessage(m, N)
        /\ Len(f[N]) > Len(w) => g[N].ok = FALSE
    <3>1. Len(w) <= Len(f[N]) /\ \A i \in 1..Len(w) : w[i] = f[N][i]
      BY <1>2
    <3>2. Len(w) >= Len(IsoHeader(m)) /\ DataTo(N, m, IsoHeader(m), f)
      BY <1>2, <1>10 DEF h
    <3>3. N = Cardinality(DOMAIN m.elements) /\ ReadsTo(N, w, ReadStart(m), DOMAIN m.elements, g)
      BY <1>12, <2>1
    <3>4. ReadAlong(m, N, f, w, g)
      BY <1>1, <3>1, <3>2, <3>3 DEF ReadAlong
    <3> QED
      BY <3>4, ReadsBack
  <2> QED
    BY <1>2, <1>3, <1>5, <2>1, <2>2 DEF N
<1>11. Len(w) < Len(h) \/ Len(w) >= Len(h)
  BY <1>5
<1> QED
  BY <1>9, <1>10, <1>11

LEMMA ParsedIsBytes ==
    ASSUME IsoSetting, NEW m, IsoMessage(m)
    PROVE  LET es == I!Parse(I!Serialize(m)).msg.elements IN \A id \in DOMAIN es : es[id] \in Seq(Nat)
<1> DEFINE N == Cardinality(DOMAIN m.elements)
           ids == DOMAIN m.elements \ {65}
           n == Cardinality(ids)
           h == IsoHeader(m)
           w == I!Serialize(m)
<1>1. N \in Nat /\ IsFiniteSet(DOMAIN m.elements)
  BY IsoIds
<1>2. n \in Nat
  BY <1>1, FS_RemoveElement, FS_CardinalityType
<1>3. PICK f : DataTo(N, m, h, f) /\ w = f[N]
  BY <1>1, SerializedIs
<1>4. N \in 0..N /\ 0 \in 0..N
  BY <1>1
<1>5. /\ f[0] = h
      /\ \A k \in 0..N :
            /\ f[k] \in Seq(Item)
            /\ \A j \in 0..k : Len(f[j]) <= Len(f[k]) /\ \A i \in 1..Len(f[j]) : f[k][i] = f[j][i]
            /\ \A i \in 1..Len(f[k]) : i > Len(h) => f[k][i] \in Nat
  BY <1>1, <1>3, DataGrows
<1>6. h \in Seq(Item)
  BY HeaderIs
<1> HIDE DEF N, n, ids, h, w
<1>7. /\ w \in Seq(Item) /\ Len(h) <= Len(w)
      /\ \A i \in 1..Len(h) : w[i] = h[i]
      /\ \A i \in 1..Len(w) : i > Len(h) => w[i] \in Nat
  BY <1>3, <1>4, <1>5
<1>8. Len(w) \in Nat /\ Len(h) \in Nat
  BY <1>6, <1>7
<1>9. \A i \in 1..Len(w) : i <= Len(h) => w[i] = h[i]
  BY <1>7, <1>8
<1>10. Len(w) >= Len(h) => \E g : ReadsTo(n, w, ReadStart(m), ids, g) /\ I!Parse(w) = g[n]
  BY <1>2, <1>7, <1>9, ParseIs DEF h, n, ids
<1>11. PICK g : ReadsTo(n, w, ReadStart(m), ids, g) /\ I!Parse(w) = g[n]
  BY <1>7, <1>8, <1>10
<1>12. \A id \in DOMAIN g[n].msg.elements : g[n].msg.elements[id] \in Seq(Nat)
  BY <1>2, <1>7, <1>11, ReadsBytes DEF h
<1> QED
  BY <1>11, <1>12 DEF w

LEMMA IsoAnswer ==
    ASSUME IsoSetting, NEW r, \A id \in DOMAIN r.elements : r.elements[id] \in Seq(Nat), NEW c \in Seq(Nat)
    PROVE  IsoMessage(I!AuthResponse(r, c))
<1> DEFINE Copy(m, id) == IF id \in DOMAIN r.elements THEN I!WithElement(m, id, r.elements[id]) ELSE m
           m0 == I!NewMessage("auth_response")
           m1 == Copy(m0, 2)
           m2 == Copy(m1, 4)
           m3 == Copy(m2, 11)
           m4 == I!WithElement(m3, 38, c)
           m5 == I!WithElement(m4, 39, c)
<1>1. I!AuthResponse(r, c) = m5
  BY DEF I!AuthResponse
<1>2. ASSUME NEW m, IsoMessage(m), NEW id \in 2..128 PROVE IsoMessage(Copy(m, id))
  BY <1>2, IsoSet
<1>3. IsoMessage(m0)
  <2>1. "auth_response" \in MessageTypes
    BY DEF MessageTypes
  <2> QED
    BY <2>1, IsoNew
<1>4. 2 \in 2..128 /\ 4 \in 2..128 /\ 11 \in 2..128 /\ 38 \in 2..128 /\ 39 \in 2..128
  OBVIOUS
<1> HIDE DEF Copy, m0
<1>5. IsoMessage(m1)
  BY <1>2, <1>3, <1>4
<1> HIDE DEF m1
<1>6. IsoMessage(m2)
  BY <1>2, <1>4, <1>5
<1> HIDE DEF m2
<1>7. IsoMessage(m3)
  BY <1>2, <1>4, <1>6
<1> HIDE DEF m3
<1>8. IsoMessage(m4)
  BY <1>4, <1>7, IsoSet
<1> HIDE DEF m4
<1>9. IsoMessage(m5)
  BY <1>4, <1>8, IsoSet
<1> QED
  BY <1>1, <1>9

LEMMA IsoStep == ASSUME IsoSetting, IsoMessage(iso), [I!Next]_iso PROVE IsoMessage(iso)'
<1>1. CASE UNCHANGED iso
  BY <1>1 DEF IsoMessage, HighIds
<1>2. CASE I!SetElement
  <2>1. PICK id \in IsoField, v \in IsoValue : iso' = I!WithElement(iso, id, v)
    BY <1>2 DEF I!SetElement
  <2>2. id \in 2..128 /\ v \in Seq(Nat)
    BY DEF IsoSetting
  <2>3. IsoMessage(I!WithElement(iso, id, v))
    BY <2>2, IsoSet
  <2> QED
    BY <2>1, <2>3 DEF IsoMessage, HighIds
<1>3. CASE I!Answer
  <2> DEFINE r == I!Parse(I!Serialize(iso))
  <2>1. PICK c \in IsoValue : iso' = I!AuthResponse(r.msg, c)
    BY <1>3 DEF I!Answer
  <2>2. c \in Seq(Nat)
    BY DEF IsoSetting
  <2>3. \A id \in DOMAIN r.msg.elements : r.msg.elements[id] \in Seq(Nat)
    BY ParsedIsBytes
  <2> HIDE DEF r
  <2>4. IsoMessage(I!AuthResponse(r.msg, c))
    BY <2>2, <2>3, IsoAnswer
  <2> QED
    BY <2>1, <2>4 DEF IsoMessage, HighIds
<1> QED
  BY <1>1, <1>2, <1>3 DEF I!Next

LEMMA IsoHolds == ASSUME IsoSetting, IsoMessage(iso) PROVE I!WireIsFaithful
<1> DEFINE N == Cardinality(DOMAIN iso.elements)
           wire == I!Serialize(iso)
<1>1. wire \in Seq(Item)
  <2>1. N \in Nat
    BY IsoIds
  <2>2. PICK f : DataTo(N, iso, IsoHeader(iso), f) /\ wire = f[N]
    BY <2>1, SerializedIs
  <2>3. N \in 0..N
    BY <2>1
  <2>4. \A k \in 0..N : f[k] \in Seq(Item)
    BY <2>1, <2>2, DataGrows
  <2> HIDE DEF N, wire
  <2> QED
    BY <2>2, <2>3, <2>4
<1>2. Len(wire) \in Nat
  <2> HIDE DEF wire
  <2> QED
    BY <1>1
<1>3. ASSUME 65 \notin DOMAIN iso.elements
      PROVE  I!Parse(wire).ok = TRUE /\ I!Parse(wire).msg = ReadMessage(iso, N)
  <2>1. wire \in Seq(Item) /\ Len(wire) <= Len(wire) /\ \A i \in 1..Len(wire) : wire[i] = wire[i]
    BY <1>1, <1>2
  <2> QED
    BY <1>3, <2>1, PrefixParses
<1>4. ReadMessage(iso, N) = I!Normal(iso)
  <2>1. IsoFirst(iso, N) = DOMAIN iso.elements
    BY IsoIds DEF IsoFirst
  <2> DEFINE es == [id \in DOMAIN iso.elements |-> IF I!Variable(id) THEN iso.elements[id] ELSE I!Fitted(iso.elements[id])]
  <2>2. ReadFields(iso, N) = es
    <3> HIDE DEF N
    <3> QED
      BY <2>1 DEF ReadFields, NormValue
  <2>3. I!Normal(iso) = [iso EXCEPT !.elements = es]
    BY DEF I!Normal
  <2>4. iso = [mti |-> iso.mti, primary |-> iso.primary, secondary |-> iso.secondary, elements |-> iso.elements]
    BY DEF IsoMessage
  <2> HIDE DEF es, N
  <2> QED
    BY <2>2, <2>3, <2>4 DEF ReadMessage
<1>5. I!ParsesBack
  BY <1>3, <1>4 DEF I!ParsesBack
<1>6. ASSUME 65 \notin DOMAIN iso.elements, NEW n \in 0..(Len(wire) - 1)
      PROVE  ~I!Parse(SubSeq(wire, 1, n)).ok
  <2> DEFINE w == SubSeq(wire, 1, n)
  <2>1. w \in Seq(Item) /\ Len(w) = n /\ \A i \in 1..n : w[i] = wire[i]
    <3> HIDE DEF wire
    <3>1. n \in Nat /\ n < Len(wire)
      BY <1>2, <1>6
    <3>2. \A i \in 1..n : wire[i] \in Item
      BY <1>1, <1>2, <3>1, ElementOfSeq
    <3> QED
      BY <1>1, <1>2, <3>1, <3>2
  <2> HIDE DEF w
  <2>2. Len(w) <= Len(wire) /\ Len(w) < Len(wire)
    <3> HIDE DEF wire
    <3> QED
      BY <1>2, <1>6, <2>1
  <2>3. I!Parse(w).ok = FALSE
    BY <1>6, <2>1, <2>2, PrefixParses
  <2> QED
    BY <2>3 DEF w
<1>7. I!CutOffIsRefused
  BY <1>6 DEF I!CutOffIsRefused
<1> QED
  BY <1>5, <1>7 DEF I!WireIsFaithful

\* For any fields and values, fields set in any order and overwritten, and
\* for the answers to them, a serialized message parses back as it was and
\* every proper prefix of its wire is refused (iso8583.rs: serialize_iso8583,
\* parse_iso8583, decode_field).
THEOREM WireProvedFaithful == ASSUME IsoSetting PROVE IsoSpec => []WireIsFaithful
<1> DEFINE Inv == IsoMessage(iso)
<1>1. I!Init => Inv
  <2>1. "auth_request" \in MessageTypes
    BY DEF MessageTypes
  <2>2. IsoMessage(I!NewMessage("auth_request"))
    BY <2>1, IsoNew
  <2> QED
    BY <2>2 DEF I!Init
<1>2. Inv /\ [I!Next]_iso => Inv'
  BY IsoStep
<1>3. Inv => WireIsFaithful
  BY IsoHolds DEF WireIsFaithful
<1> HIDE DEF Inv
<1> QED
  BY <1>1, <1>2, <1>3, PTL DEF IsoSpec

-----------------------------------------------------------------------------
(* The routing of payments: the rules lie in the order of their priorities *)

RouteSetting == \A r \in Rule : r.priority \in Nat

RulesInv ==
    /\ rules \in Seq(Rule)
    /\ \A i, j \in DOMAIN rules : i < j => rules[i].priority <= rules[j].priority

\* Rules in order leave a place for a new one.
LEMMA PlaceExists ==
    ASSUME RouteSetting, RulesInv, NEW r \in Rule
    PROVE /\ R!Place(r) \in 0..Len(rules)
          /\ \A i \in DOMAIN rules : i <= R!Place(r) <=> rules[i].priority <= r.priority
<1> DEFINE later == {i \in DOMAIN rules : rules[i].priority > r.priority}
           fits(k) == \A i \in DOMAIN rules : i <= k <=> rules[i].priority <= r.priority
<1>1. /\ rules \in Seq(Rule) /\ Len(rules) \in Nat /\ DOMAIN rules = 1..Len(rules) /\ r.priority \in Nat
      /\ \A i \in DOMAIN rules : rules[i].priority \in Nat
  BY DEF RulesInv, RouteSetting
<1>2. \E k \in 0..Len(rules) : fits(k)
  <2>1. CASE later = {}
    <3>1. fits(Len(rules))
      BY <1>1, <2>1
    <3> QED
      BY <1>1, <3>1
  <2>2. CASE later # {}
    <3>1. later \subseteq Nat
      BY <1>1
    <3>2. PICK m \in later : \A j \in later : m <= j
      BY <2>2, <3>1, LeastIn
    <3>3. m - 1 \in 0..Len(rules)
      BY <1>1
    <3>4. ASSUME NEW i \in DOMAIN rules PROVE i <= m - 1 <=> rules[i].priority <= r.priority
      <4>1. CASE i < m
        BY <1>1, <3>2, <4>1
      <4>2. CASE i = m
        BY <1>1, <3>2, <4>2
      <4>3. CASE i > m
        BY <1>1, <3>2, <4>3 DEF RulesInv
      <4> QED
        BY <1>1, <3>2, <4>1, <4>2, <4>3
    <3> QED
      BY <3>3, <3>4
  <2> QED
    BY <2>1, <2>2
<1> QED
  BY <1>2 DEF R!Place

\* What a new rule changes: those behind its place move up.
LEMMA RuleAdded ==
    ASSUME RouteSetting, RulesInv, NEW r \in Rule, R!AddRule(r)
    PROVE /\ R!Place(r) \in 0..Len(rules) /\ Len(rules) \in Nat
          /\ DOMAIN rules = 1..Len(rules) /\ DOMAIN rules' = 1..(Len(rules) + 1)
          /\ rules' \in Seq(Rule)
          /\ \A i \in DOMAIN rules : i <= R!Place(r) => rules'[i] = rules[i]
          /\ rules'[R!Place(r) + 1] = r
          /\ \A i \in DOMAIN rules : i > R!Place(r) => rules'[i + 1] = rules[i]
<1> DEFINE k == R!Place(r)
           n == Len(rules)
           moved(i) == CASE i <= k -> rules[i] [] i = k + 1 -> r [] i > k + 1 -> rules[i - 1]
           new == [i \in 1..(n + 1) |-> moved(i)]
<1>1. k \in 0..n
  BY PlaceExists
<1>2. rules \in Seq(Rule) /\ n \in Nat /\ DOMAIN rules = 1..n /\ \A i \in 1..n : rules[i] \in Rule
  BY DEF RulesInv
<1>3. rules' = new
  BY DEF R!AddRule
<1> HIDE DEF k, n
<1>4. \A i \in 1..(n + 1) : moved(i) \in Rule
  <2> TAKE i \in 1..(n + 1)
  <2>1. CASE i <= k
    BY <1>1, <1>2, <2>1
  <2>2. CASE i = k + 1
    BY <1>1, <1>2, <2>2
  <2>3. CASE i > k + 1
    BY <1>1, <1>2, <2>3
  <2> QED
    BY <1>1, <1>2, <2>1, <2>2, <2>3
<1>5. new \in Seq(Rule)
  <2> HIDE DEF moved
  <2>1. new \in [1..(n + 1) -> Rule] /\ n + 1 \in Nat
    BY <1>2, <1>4
  <2> QED
    BY <2>1, SeqDef
<1>6. /\ \A i \in 1..n : i <= k => new[i] = rules[i]
      /\ new[k + 1] = r
      /\ \A i \in 1..n : i > k => new[i + 1] = rules[i]
      /\ DOMAIN new = 1..(n + 1)
  BY <1>1, <1>2
<1> HIDE DEF new
<1> QED
  BY <1>1, <1>2, <1>3, <1>5, <1>6 DEF k, n

\* The rule that decides, and with it the route, is unique.
LEMMA RouteOf ==
    ASSUME RulesInv, NEW ctx, NEW i \in DOMAIN rules, R!Decides(i, ctx)
    PROVE R!Route(ctx) = rules[i].active
<1>1. DOMAIN rules \subseteq Int
  BY DEF RulesInv
<1>2. \A j \in DOMAIN rules : R!Decides(j, ctx) => j = i
  BY <1>1 DEF R!Decides
<1> QED
  BY <1>2 DEF R!Route

\* The same of the next state
LEMMA RouteOfNext ==
    ASSUME RulesInv', NEW ctx, NEW i \in DOMAIN rules', R!Decides(i, ctx)'
    PROVE R!Route(ctx)' = rules'[i].active
<1>1. DOMAIN rules' \subseteq Int
  BY DEF RulesInv
<1>2. \A j \in DOMAIN rules' : R!Decides(j, ctx)' => j = i
  BY <1>1 DEF R!Decides
<1> QED
  BY <1>2 DEF R!Route

\* What a step may do to a route that a rule decides
RouteKept ==
    \A ctx \in R!Context : \A i \in DOMAIN rules :
        R!Decides(i, ctx) /\ R!Route(ctx)' # R!Route(ctx) =>
            \E j \in DOMAIN rules' : /\ R!Applies(rules'[j], ctx)
                                     /\ rules'[j].priority < rules[i].priority
                                     /\ \A k \in DOMAIN rules : rules[k] # rules'[j]

LEMMA RouteStep ==
    ASSUME RouteSetting, RulesInv, [R!Next]_routeVars PROVE RulesInv' /\ RouteKept
<1>1. CASE UNCHANGED rules
  <2>1. RulesInv'
    BY <1>1 DEF RulesInv
  <2>2. ASSUME NEW ctx \in R!Context, NEW i \in DOMAIN rules, R!Decides(i, ctx)
        PROVE R!Route(ctx)' = R!Route(ctx)
    <3>1. i \in DOMAIN rules' /\ R!Decides(i, ctx)'
      BY <1>1, <2>2 DEF R!Decides, R!Applies
    <3>2. R!Route(ctx)' = rules'[i].active
      BY <2>1, <3>1, RouteOfNext
    <3> QED
      BY <1>1, <2>2, <3>2, RouteOf
  <2> QED
    BY <2>1, <2>2 DEF RouteKept
<1>2. ASSUME NEW r \in Rule, R!AddRule(r) PROVE RulesInv' /\ RouteKept
  <2> DEFINE k == R!Place(r)
             n == Len(rules)
  <2>1. /\ k \in 0..n /\ n \in Nat /\ DOMAIN rules = 1..n /\ DOMAIN rules' = 1..(n + 1)
        /\ rules' \in Seq(Rule)
        /\ \A i \in 1..n : i <= k => rules'[i] = rules[i]
        /\ rules'[k + 1] = r
        /\ \A i \in 1..n : i > k => rules'[i + 1] = rules[i]
    BY <1>2, RuleAdded
  <2>2. \A i \in 1..n : i <= k <=> rules[i].priority <= r.priority
    BY <1>2, <2>1, PlaceExists
  <2>3. /\ r.priority \in Nat /\ \A i \in 1..n : rules[i] \in Rule /\ rules[i].priority \in Nat
        /\ \A i, j \in 1..n : i < j => rules[i].priority <= rules[j].priority
    <3>1. rules \in Seq(Rule) /\ \A i \in DOMAIN rules : rules[i] \in Rule
      BY DEF RulesInv
    <3> QED
      BY <1>2, <2>1, <3>1 DEF RouteSetting, RulesInv
  <2> HIDE DEF k, n
  <2>4. RulesInv'
    <3>1. ASSUME NEW i \in 1..(n + 1), NEW j \in 1..(n + 1), i < j
          PROVE rules'[i].priority <= rules'[j].priority
      <4>1. CASE j <= k
        <5>1. i \in 1..n /\ j \in 1..n /\ i <= k
          BY <2>1, <3>1, <4>1
        <5> QED
          BY <2>1, <2>3, <3>1, <4>1, <5>1
      <4>2. CASE j = k + 1
        <5>1. i \in 1..n /\ i <= k
          BY <2>1, <3>1, <4>2
        <5> QED
          BY <2>1, <2>2, <4>2, <5>1
      <4>3. CASE j > k + 1
        <5>1. j - 1 \in 1..n /\ j - 1 > k /\ rules'[j] = rules[j - 1]
          <6>1. j - 1 \in 1..n /\ j - 1 > k /\ (j - 1) + 1 = j
            BY <2>1, <4>3
          <6> QED
            BY <2>1, <6>1
        <5>2. CASE i <= k
          <6>1. i \in 1..n /\ i < j - 1
            BY <2>1, <5>1, <5>2
          <6> QED
            BY <2>1, <2>3, <5>1, <5>2, <6>1
        <5>3. CASE i = k + 1
          <6>1. ~(rules[j - 1].priority <= r.priority)
            BY <2>1, <2>2, <5>1
          <6> QED
            BY <2>1, <2>3, <5>1, <5>3, <6>1
        <5>4. CASE i > k + 1
          <6>1. i - 1 \in 1..n /\ i - 1 > k /\ (i - 1) + 1 = i /\ i - 1 < j - 1
            BY <2>1, <3>1, <5>4
          <6>2. rules'[i] = rules[i - 1]
            BY <2>1, <6>1
          <6> QED
            BY <2>3, <5>1, <6>1, <6>2
        <5> QED
          BY <2>1, <5>2, <5>3, <5>4
      <4> QED
        BY <2>1, <4>1, <4>2, <4>3
    <3> QED
      BY <2>1, <3>1 DEF RulesInv
  <2>5. ASSUME NEW ctx \in R!Context, NEW i \in 1..n, R!Decides(i, ctx), R!Route(ctx)' # R!Route(ctx)
        PROVE \E j \in DOMAIN rules' : /\ R!Applies(rules'[j], ctx)
                                       /\ rules'[j].priority < rules[i].priority
                                       /\ \A m \in DOMAIN rules : rules[m] # rules'[j]
    <3>1. R!Applies(rules[i], ctx) /\ \A j \in 1..n : j < i => ~R!Applies(rules[j], ctx)
      BY <2>1, <2>5 DEF R!Decides
    <3>2. R!Route(ctx) = rules[i].active
      BY <2>1, <2>5, RouteOf
    <3>3. i > k
      <4> SUFFICES ASSUME i <= k PROVE FALSE
        BY <2>1
      <4>1. i \in 1..(n + 1) /\ rules'[i] = rules[i] /\ \A j \in 1..(n + 1) : j < i => rules'[j] = rules[j] /\ j \in 1..n
        BY <2>1
      <4>2. R!Decides(i, ctx)'
        <5>1. R!Applies(rules'[i], ctx) /\ \A j \in DOMAIN rules' : j < i => ~R!Applies(rules'[j], ctx)
          BY <2>1, <3>1, <4>1
        <5> QED
          BY <5>1 DEF R!Decides, R!Applies
      <4>3. R!Route(ctx)' = rules'[i].active
        BY <2>1, <2>4, <4>1, <4>2, RouteOfNext
      <4> QED
        BY <2>5, <3>2, <4>1, <4>3
    <3>4. R!Applies(r, ctx)
      <4> SUFFICES ASSUME ~R!Applies(r, ctx) PROVE FALSE
        OBVIOUS
      <4>1. i + 1 \in 1..(n + 1) /\ rules'[i + 1] = rules[i]
        BY <2>1, <3>3
      <4>2. ASSUME NEW j \in 1..(n + 1), j < i + 1 PROVE ~R!Applies(rules'[j], ctx)
        <5>1. CASE j <= k
          <6>1. j \in 1..n /\ j < i
            BY <2>1, <3>3, <5>1
          <6> QED
            BY <2>1, <3>1, <5>1, <6>1
        <5>2. CASE j = k + 1
          BY <2>1, <5>2
        <5>3. CASE j > k + 1
          <6>1. j - 1 \in 1..n /\ j - 1 > k /\ (j - 1) + 1 = j /\ j - 1 < i
            BY <2>1, <4>2, <5>3
          <6>2. rules'[j] = rules[j - 1]
            BY <2>1, <6>1
          <6> QED
            BY <3>1, <6>1, <6>2
        <5> QED
          BY <2>1, <5>1, <5>2, <5>3
      <4>3. R!Decides(i + 1, ctx)'
        BY <2>1, <3>1, <4>1, <4>2 DEF R!Decides, R!Applies
      <4>4. R!Route(ctx)' = rules'[i + 1].active
        BY <2>1, <2>4, <4>1, <4>3, RouteOfNext
      <4> QED
        BY <2>5, <3>2, <4>1, <4>4
    <3>5. ASSUME NEW m \in 1..n PROVE rules[m] # r
      <4> SUFFICES ASSUME rules[m] = r PROVE FALSE
        OBVIOUS
      <4>1. m <= k
        BY <2>2, <2>3
      <4>2. m < i
        BY <2>1, <3>3, <4>1
      <4> QED
        BY <3>1, <3>4, <4>2
    <3>6. r.priority < rules[i].priority
      BY <2>1, <2>2, <2>3, <3>3
    <3>7. k + 1 \in DOMAIN rules'
      BY <2>1
    <3> QED
      BY <2>1, <3>4, <3>5, <3>6, <3>7
  <2>6. DOMAIN rules = 1..n
    BY <2>1
  <2> QED
    BY <2>4, <2>5, <2>6 DEF RouteKept
<1>3. (\E r \in Rule : R!AddRule(r)) \/ UNCHANGED rules
  BY DEF R!Next, R!SetDefaultRoute, routeVars
<1> QED
  BY <1>1, <1>2, <1>3

\* Whatever warnings a message draws, the ban decides.
LEMMA BanDecides == R!SanctionsDecide
<1> SUFFICES ASSUME NEW ctx \in R!Context
             PROVE R!Passed(ctx) <=> {ctx.creditor, ctx.debtor} \cap Sanctioned = {}
  BY DEF R!SanctionsDecide
<1>1. CASE {ctx.creditor, ctx.debtor} \cap Sanctioned = {}
  <2>1. R!Check(ctx) \in {0, 20, 30, 50}
    BY <1>1 DEF R!Check
  <2> QED
    BY <1>1, <2>1 DEF R!Passed
<1>2. CASE {ctx.creditor, ctx.debtor} \cap Sanctioned # {}
  <2>1. R!Check(ctx) \in {100, 120, 130, 150}
    BY <1>2 DEF R!Check
  <2> QED
    BY <1>2, <2>1 DEF R!Passed
<1> QED
  BY <1>1, <1>2

\* However rules are added and defaults set, a context keeps its route until a
\* strictly more urgent rule that applies to it is added (MessageRouter::add_rule,
\* route), and a message passes exactly when neither party is in a sanctioned
\* country (ComplianceChecker::check).
THEOREM DecisionsProvedToStand == ASSUME RouteSetting PROVE RouteSpec => DecisionsStand
<1>1. R!Init => RulesInv
  BY EmptySeq DEF R!Init, RulesInv
<1>2. RulesInv /\ [R!Next]_routeVars => RulesInv' /\ [RouteKept]_routeVars
  BY RouteStep
<1>3. RouteSpec => []R!SanctionsDecide /\ [][RouteKept]_routeVars
  BY <1>1, <1>2, BanDecides, PTL DEF RouteSpec
<1>4. [][RouteKept]_routeVars <=> R!RoutesAreStable
  BY DEF RouteKept, routeVars, R!RoutesAreStable
<1> QED
  BY <1>3, <1>4 DEF DecisionsStand, R!DecisionsStand
=============================================================================
