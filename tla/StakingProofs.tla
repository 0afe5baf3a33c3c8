---------------------------- MODULE StakingProofs ----------------------------
(***************************************************************************)
(* What holds of stake, delegations, unbonding and rewards for any number  *)
(* of concurrent callers, validators and delegators: the stake a validator *)
(* votes with covers the delegations to it, nobody gets back more than was *)
(* put in, and nothing is released before its time.                        *)
(***************************************************************************)
EXTENDS Staking, Sums, SequenceTheorems

\* The locals j a call has between two of its locks, at w, in epoch e
Fits(w, j, e) ==
    /\ w = "pool" => j \in [validator : Validator]
    /\ w = "record" => j \in [delegator : Delegator, validator : Validator, amount : Nat]
    /\ w \in {"unstake", "queue"} =>
          /\ j \in [delegator : Delegator, validator : Validator, amount : Nat, since : Nat]
          /\ j.since <= e
    /\ w \in {"distribute", "unbond", "stamp"} => j \in [epoch : Nat] /\ j.epoch <= e
JobsFit == \A t \in Thread : Fits(pc[t], job[t], epoch)

\* What the call of t has taken from d and not yet written down,
Carried(t, d) ==
    IF pc[t] \in {"record", "unstake", "queue"} /\ job[t].delegator = d THEN job[t].amount ELSE 0
\* ... what is part of the stake of v without being delegated,
Moving(t, v) ==
    IF pc[t] \in {"record", "unstake"} /\ job[t].validator = v THEN job[t].amount ELSE 0
\* ... and the rewards it is about to distribute.
Owed(t) == IF pc[t] = "distribute" THEN Rewards ELSE 0

\* Queued entries are told apart and wait for the unbonding period.
QueueFits ==
    /\ IsFiniteSet(unbonding)
    /\ \A e \in unbonding : e.number <= queued /\ e.since + UnbondingPeriod <= e.completion

\* Nobody has delegated to an address that never registered.
UnknownIsEmpty ==
    \A v \in Validator : registered[v] = 0 =>
        /\ stake[v] = 0
        /\ \A d \in Delegator : delegations[d][v] = << >>
        /\ \A t \in Thread : pc[t] \in {"record", "unstake"} => job[t].validator # v

\* The sums of a table of lists, such as the delegations
Table == [Delegator -> [Validator -> Seq(Nat)]]
RowSum(M, d) == SumFunction([v \in Validator |-> SumFunction(M[d][v])])
ColumnSum(M, v) == SumFunction([d \in Delegator |-> SumFunction(M[d][v])])

DelegatedFrom(d) == RowSum(delegations, d)
DelegatedTo(v) == ColumnSum(delegations, v)
MovingTo(v) == SumFunction([t \in Thread |-> Moving(t, v)])

\* The stake covers the delegations and what calls are moving.
StakeCovers ==
    \A v \in Validator : registered[v] = 1 =>
        stake[v] >= SelfStake[v] + DelegatedTo(v) + MovingTo(v)

\* What each delegator delegates, carries, waits for and got back was deposited.
DepositsCover ==
    \A d \in Delegator :
        DelegatedFrom(d) + InFlight(d) + Unbonding(d) + released[d] <= deposited[d]

\* The pools and the rewards still to be distributed were minted.
InPools == SumFunction([v \in Validator |-> IF pools[v] = NoPool THEN 0 ELSE pools[v]])
OwedByAll == SumFunction([t \in Thread |-> Owed(t)])
PoolsCovered == InPools + OwedByAll <= minted

StakeInv ==
    /\ TypeOK /\ JobsFit /\ QueueFits /\ UnknownIsEmpty
    /\ StakeCovers /\ TotalIsSum /\ DepositsCover /\ PoolsCovered

-----------------------------------------------------------------------------
(* Sums over the amounts of a list, a delegator, a validator *)

\* The list of a delegator's amounts: new, with one more, with less.
LEMMA ListFacts ==
    ASSUME NEW ds \in Seq(Nat)
    PROVE  /\ IsFiniteSet(DOMAIN ds) /\ ds \in [DOMAIN ds -> Nat]
           /\ SumFunction(ds) \in Nat
           /\ ds = << >> => SumFunction(ds) = 0
<1>1. DOMAIN ds = 1 .. Len(ds) /\ Len(ds) \in Nat /\ ds \in [1 .. Len(ds) -> Nat]
  OBVIOUS
<1>2. IsFiniteSet(1 .. Len(ds))
  BY <1>1, FS_Interval
<1>3. SumFunction(ds) \in Nat
  BY <1>1, <1>2, SumIsNat
<1>4. ASSUME ds = << >> PROVE SumFunction(ds) = 0
  <2>1. \A i \in DOMAIN ds : ds[i] = 0
    BY <1>4
  <2> QED
    BY <1>1, <1>2, <2>1, SumOfZeros
<1> QED
  BY <1>1, <1>2, <1>3, <1>4

LEMMA AppendAdds ==
    ASSUME NEW ds \in Seq(Nat), NEW a \in Nat
    PROVE  Append(ds, a) \in Seq(Nat) /\ SumFunction(Append(ds, a)) = SumFunction(ds) + a
<1> DEFINE n == Len(ds)
           h == Append(ds, a)
<1>1. /\ n \in Nat /\ DOMAIN ds = 1 .. n /\ ds \in [1 .. n -> Nat] /\ h \in Seq(Nat)
      /\ Len(h) = n + 1 /\ h[n + 1] = a /\ \A i \in 1 .. n : h[i] = ds[i]
  OBVIOUS
<1> DEFINE T == 1 .. n + 1
           x == n + 1
<1> HIDE DEF h
<1>2. h \in [T -> Int] /\ x \in T /\ h[x] = a /\ ds = [i \in T \ {x} |-> h[i]]
  <2>1. h \in [T -> Int] /\ x \in T /\ h[x] = a
    BY <1>1
  <2>2. T \ {x} = 1 .. n /\ ds = [i \in 1 .. n |-> ds[i]]
    BY <1>1
  <2> QED
    BY <1>1, <2>1, <2>2
<1>3. IsFiniteSet(T)
  BY <1>1, FS_Interval
<1> HIDE DEF T, x
<1>4. SumFunction(h) = SumFunction(ds) + a
  BY <1>2, <1>3, SumExtends
<1> QED
  BY <1>1, <1>4 DEF h

\* undelegate takes at least the amount off the list.
LEMMA WithdrawTakes ==
    ASSUME NEW ds \in Seq(Nat), ds # << >>, NEW a \in Nat, a <= Head(ds)
    PROVE  /\ Withdraw(ds, a) \in Seq(Nat) /\ SumFunction(Withdraw(ds, a)) \in Nat
           /\ SumFunction(Withdraw(ds, a)) + a <= SumFunction(ds)
<1> DEFINE S == DOMAIN ds
           h == [ds EXCEPT ![1] = @ - a]
<1>1. IsFiniteSet(S) /\ ds \in [S -> Nat] /\ SumFunction(ds) \in Nat
  BY ListFacts
<1>2. 1 \in S /\ Head(ds) = ds[1] /\ ds[1] \in Nat /\ S = 1 .. Len(ds) /\ Len(ds) \in Nat
  OBVIOUS
<1>3. CASE Head(ds) = a
  <2>1. Withdraw(ds, a) = << >> /\ << >> \in Seq(Nat)
    BY <1>3 DEF Withdraw
  <2>2. SumFunction(<< >>) = 0
    BY <2>1, ListFacts
  <2>3. ds[1] <= SumFunction(ds)
    BY <1>1, <1>2, SumIsNat
  <2> QED
    BY <1>2, <1>3, <2>1, <2>2, <2>3
<1>4. CASE Head(ds) # a
  <2>1. Withdraw(ds, a) = h
    BY <1>4 DEF Withdraw
  <2>2. /\ h \in [S -> Nat] /\ h[1] = ds[1] - a /\ \A i \in S \ {1} : h[i] = ds[i]
    BY <1>1, <1>2
  <2>3. h \in Seq(Nat)
    BY <1>2, <2>2
  <2> HIDE DEF h, S
  <2>4. SumFunction(h) = SumFunction(ds) + h[1] - ds[1]
    <3> DEFINE f == ds
               x == 1
    <3>1. /\ h \in [S -> Int] /\ f \in [S -> Int] /\ x \in S /\ IsFiniteSet(S)
          /\ \A i \in S \ {x} : h[i] = f[i]
      BY <1>1, <1>2, <2>2
    <3> HIDE DEF f, x
    <3>2. SumFunction(h) = SumFunction(f) + h[x] - f[x]
      BY <3>1, SumChanges
    <3> QED
      BY <3>2 DEF f, x
  <2>5. SumFunction(h) \in Nat
    BY <2>3, ListFacts
  <2> QED
    BY <1>1, <1>2, <2>1, <2>2, <2>3, <2>4, <2>5
<1> QED
  BY <1>3, <1>4

LEMMA TableSums ==
    ASSUME NEW M \in Table
    PROVE  /\ \A d \in Delegator : RowSum(M, d) \in Nat
           /\ \A v \in Validator : ColumnSum(M, v) \in Nat
           /\ \A d \in Delegator, v \in Validator : SumFunction(M[d][v]) \in Nat
<1>1. \A d \in Delegator, v \in Validator : SumFunction(M[d][v]) \in Nat
  BY ListFacts DEF Table
<1>2. ASSUME NEW d \in Delegator PROVE RowSum(M, d) \in Nat
  <2> DEFINE f == [v \in Validator |-> SumFunction(M[d][v])]
  <2>1. f \in [Validator -> Nat]
    BY <1>1
  <2> HIDE DEF f
  <2>2. SumFunction(f) \in Nat
    BY <2>1, StakingAssumption, SumIsNat
  <2> QED
    BY <2>2 DEF f, RowSum
<1>3. ASSUME NEW v \in Validator PROVE ColumnSum(M, v) \in Nat
  <2> DEFINE f == [d \in Delegator |-> SumFunction(M[d][v])]
  <2>1. f \in [Delegator -> Nat]
    BY <1>1
  <2> HIDE DEF f
  <2>2. SumFunction(f) \in Nat
    BY <2>1, StakingAssumption, SumIsNat
  <2> QED
    BY <2>2 DEF f, ColumnSum
<1> QED
  BY <1>1, <1>2, <1>3

\* One list of the table changes: the sums of its row and of its column change
\* by as much, and no other does.
LEMMA CellChanges ==
    ASSUME NEW M \in Table, NEW N \in Table, NEW d \in Delegator, NEW v \in Validator,
           \A e \in Delegator, w \in Validator : e # d \/ w # v => N[e][w] = M[e][w]
    PROVE  LET change == SumFunction(N[d][v]) - SumFunction(M[d][v])
           IN /\ RowSum(N, d) = RowSum(M, d) + change
              /\ \A e \in Delegator \ {d} : RowSum(N, e) = RowSum(M, e)
              /\ ColumnSum(N, v) = ColumnSum(M, v) + change
              /\ \A w \in Validator \ {v} : ColumnSum(N, w) = ColumnSum(M, w)
<1> DEFINE ds == N[d][v]
           row(K, e) == [w \in Validator |-> SumFunction(K[e][w])]
           column(K, w) == [e \in Delegator |-> SumFunction(K[e][w])]
<1>1. ds \in Seq(Nat) /\ \A e \in Delegator, w \in Validator : e # d \/ w # v => N[e][w] = M[e][w]
  BY DEF Table
<1>2. \A e \in Delegator, w \in Validator : SumFunction(M[e][w]) \in Nat /\ SumFunction(N[e][w]) \in Nat
  BY <1>1, TableSums
<1>3. RowSum(N, d) = RowSum(M, d) + (SumFunction(ds) - SumFunction(M[d][v]))
  <2>1. /\ row(N, d) \in [Validator -> Int] /\ row(M, d) \in [Validator -> Int]
        /\ \A w \in Validator \ {v} : row(N, d)[w] = row(M, d)[w]
        /\ row(N, d)[v] = SumFunction(ds) /\ row(M, d)[v] = SumFunction(M[d][v])
    BY <1>1, <1>2
  <2>2. RowSum(N, d) = SumFunction(row(N, d)) /\ RowSum(M, d) = SumFunction(row(M, d))
    BY DEF RowSum
  <2> HIDE DEF row
  <2>3. SumFunction(row(M, d)) \in Int
        /\ SumFunction(row(N, d)) = SumFunction(row(M, d)) + row(N, d)[v] - row(M, d)[v]
    <3> DEFINE f == row(M, d)
               h == row(N, d)
    <3>1. /\ IsFiniteSet(Validator) /\ f \in [Validator -> Int] /\ h \in [Validator -> Int]
          /\ \A x \in Validator \ {v} : h[x] = f[x]
      BY <2>1, StakingAssumption
    <3> HIDE DEF f, h
    <3>2. SumFunction(f) \in Int /\ SumFunction(h) = SumFunction(f) + h[v] - f[v]
      BY <3>1, SumChanges
    <3> QED
      BY <3>2 DEF f, h
  <2>4. SumFunction(ds) \in Nat /\ SumFunction(M[d][v]) \in Nat
    BY <1>1, <1>2
  <2> QED
    BY <2>1, <2>2, <2>3, <2>4
<1>4. ColumnSum(N, v) = ColumnSum(M, v) + (SumFunction(ds) - SumFunction(M[d][v]))
  <2>1. /\ column(N, v) \in [Delegator -> Int] /\ column(M, v) \in [Delegator -> Int]
        /\ \A e \in Delegator \ {d} : column(N, v)[e] = column(M, v)[e]
        /\ column(N, v)[d] = SumFunction(ds) /\ column(M, v)[d] = SumFunction(M[d][v])
    BY <1>1, <1>2
  <2>2. ColumnSum(N, v) = SumFunction(column(N, v)) /\ ColumnSum(M, v) = SumFunction(column(M, v))
    BY DEF ColumnSum
  <2> HIDE DEF column
  <2>3. SumFunction(column(M, v)) \in Int
        /\ SumFunction(column(N, v)) = SumFunction(column(M, v)) + column(N, v)[d] - column(M, v)[d]
    <3> DEFINE f == column(M, v)
               h == column(N, v)
    <3>1. /\ IsFiniteSet(Delegator) /\ f \in [Delegator -> Int] /\ h \in [Delegator -> Int]
          /\ \A x \in Delegator \ {d} : h[x] = f[x]
      BY <2>1, StakingAssumption
    <3> HIDE DEF f, h
    <3>2. SumFunction(f) \in Int /\ SumFunction(h) = SumFunction(f) + h[d] - f[d]
      BY <3>1, SumChanges
    <3> QED
      BY <3>2 DEF f, h
  <2>4. SumFunction(ds) \in Nat /\ SumFunction(M[d][v]) \in Nat
    BY <1>1, <1>2
  <2> QED
    BY <2>1, <2>2, <2>3, <2>4
<1>5. ASSUME NEW e \in Delegator \ {d} PROVE RowSum(N, e) = RowSum(M, e)
  <2>1. row(N, e) = row(M, e)
    BY <1>1
  <2> QED
    BY <2>1 DEF RowSum
<1>6. ASSUME NEW w \in Validator \ {v} PROVE ColumnSum(N, w) = ColumnSum(M, w)
  <2>1. column(N, w) = column(M, w)
    BY <1>1
  <2> QED
    BY <2>1 DEF ColumnSum
<1> QED
  BY <1>3, <1>4, <1>5, <1>6

\* The same for the delegations in a step that writes one list.
LEMMA DelegationsChange ==
    ASSUME delegations \in Table, delegations' \in Table,
           NEW d \in Delegator, NEW v \in Validator,
           \A e \in Delegator, w \in Validator : e # d \/ w # v => delegations'[e][w] = delegations[e][w],
           NEW c \in Int, c = SumFunction(delegations'[d][v]) - SumFunction(delegations[d][v])
    PROVE  /\ \A e \in Delegator : DelegatedFrom(e) \in Nat /\ DelegatedFrom(e)' \in Nat
           /\ \A e \in Delegator : DelegatedFrom(e)' = DelegatedFrom(e) + (IF e = d THEN c ELSE 0)
           /\ \A w \in Validator : DelegatedTo(w) \in Nat /\ DelegatedTo(w)' \in Nat
           /\ \A w \in Validator : DelegatedTo(w)' = DelegatedTo(w) + (IF w = v THEN c ELSE 0)
<1> DEFINE M == delegations
           N == delegations'
<1>1. /\ N \in Table /\ M \in Table
      /\ \A e \in Delegator, w \in Validator : e # d \/ w # v => N[e][w] = M[e][w]
  BY DEF Table
<1>2. /\ \A e \in Delegator : DelegatedFrom(e) = RowSum(M, e) /\ DelegatedFrom(e)' = RowSum(N, e)
      /\ \A w \in Validator : DelegatedTo(w) = ColumnSum(M, w) /\ DelegatedTo(w)' = ColumnSum(N, w)
  BY DEF DelegatedFrom, DelegatedTo, RowSum, ColumnSum
<1>3. c = SumFunction(N[d][v]) - SumFunction(M[d][v])
  BY <1>1
<1> HIDE DEF M, N
<1>4. /\ RowSum(N, d) = RowSum(M, d) + c
      /\ \A e \in Delegator \ {d} : RowSum(N, e) = RowSum(M, e)
      /\ ColumnSum(N, v) = ColumnSum(M, v) + c
      /\ \A w \in Validator \ {v} : ColumnSum(N, w) = ColumnSum(M, w)
  <2>1. /\ RowSum(N, d) = RowSum(M, d) + (SumFunction(N[d][v]) - SumFunction(M[d][v]))
        /\ \A e \in Delegator \ {d} : RowSum(N, e) = RowSum(M, e)
        /\ ColumnSum(N, v) = ColumnSum(M, v) + (SumFunction(N[d][v]) - SumFunction(M[d][v]))
        /\ \A w \in Validator \ {v} : ColumnSum(N, w) = ColumnSum(M, w)
    BY <1>1, CellChanges
  <2> QED
    BY <1>3, <2>1
<1>5. /\ \A e \in Delegator : RowSum(M, e) \in Nat /\ RowSum(N, e) \in Nat
      /\ \A w \in Validator : ColumnSum(M, w) \in Nat /\ ColumnSum(N, w) \in Nat
  BY <1>1, TableSums
<1>6. ASSUME NEW e \in Delegator PROVE RowSum(N, e) = RowSum(M, e) + (IF e = d THEN c ELSE 0)
  BY <1>4, <1>5
<1>7. ASSUME NEW w \in Validator PROVE ColumnSum(N, w) = ColumnSum(M, w) + (IF w = v THEN c ELSE 0)
  BY <1>4, <1>5
<1> QED
  BY <1>2, <1>5, <1>6, <1>7

-----------------------------------------------------------------------------
(* Sums over the calls under way *)

\* What calls carry, move and owe are natural numbers.
LEMMA CallsCarry ==
    ASSUME JobsFit, NEW t \in Thread
    PROVE  /\ \A d \in Delegator : Carried(t, d) \in Nat
           /\ \A v \in Validator : Moving(t, v) \in Nat
           /\ Owed(t) \in Nat
BY StakingAssumption DEF JobsFit, Fits, Carried, Moving, Owed

\* One call takes a step: each sum changes by what that call changes.
LEMMA CallSteps ==
    ASSUME JobsFit, JobsFit', NEW t \in Thread,
           \A u \in Thread \ {t} : pc'[u] = pc[u] /\ job'[u] = job[u]
    PROVE  /\ \A d \in Delegator :
                 InFlight(d) \in Nat /\ InFlight(d)' = InFlight(d) + Carried(t, d)' - Carried(t, d)
           /\ \A v \in Validator :
                 /\ MovingTo(v) \in Nat /\ Moving(t, v) <= MovingTo(v)
                 /\ MovingTo(v)' = MovingTo(v) + Moving(t, v)' - Moving(t, v)
           /\ OwedByAll \in Nat /\ OwedByAll' = OwedByAll + Owed(t)' - Owed(t)
<1>1. /\ \A u \in Thread, d \in Delegator : Carried(u, d) \in Nat /\ Carried(u, d)' \in Nat
      /\ \A u \in Thread, v \in Validator : Moving(u, v) \in Nat /\ Moving(u, v)' \in Nat
      /\ \A u \in Thread : Owed(u) \in Nat /\ Owed(u)' \in Nat
  BY StakingAssumption DEF JobsFit, Fits, Carried, Moving, Owed
<1>2. \A u \in Thread \ {t} :
         /\ \A d \in Delegator : Carried(u, d)' = Carried(u, d)
         /\ \A v \in Validator : Moving(u, v)' = Moving(u, v)
         /\ Owed(u)' = Owed(u)
  BY DEF Carried, Moving, Owed
<1>0. IsFiniteSet(Thread)
  BY StakingAssumption
<1>3. ASSUME NEW d \in Delegator
      PROVE  InFlight(d) \in Nat /\ InFlight(d)' = InFlight(d) + Carried(t, d)' - Carried(t, d)
  <2> DEFINE f == [u \in Thread |-> Carried(u, d)]
             h == [u \in Thread |-> Carried(u, d)']
  <2>1. /\ f \in [Thread -> Nat] /\ f \in [Thread -> Int] /\ h \in [Thread -> Int]
        /\ \A u \in Thread \ {t} : h[u] = f[u]
        /\ f[t] = Carried(t, d) /\ h[t] = Carried(t, d)'
    <3> HIDE DEF Carried
    <3> QED
      BY <1>1, <1>2
  <2>2. InFlight(d) = SumFunction(f) /\ InFlight(d)' = SumFunction(h)
    BY DEF InFlight, Carried
  <2> HIDE DEF f, h
  <2>3. SumFunction(f) \in Nat
    BY <1>0, <2>1, SumIsNat
  <2>4. SumFunction(h) = SumFunction(f) + h[t] - f[t]
    BY <1>0, <2>1, SumChanges
  <2> QED
    BY <2>1, <2>2, <2>3, <2>4
<1>4. ASSUME NEW v \in Validator
      PROVE  /\ MovingTo(v) \in Nat /\ Moving(t, v) <= MovingTo(v)
             /\ MovingTo(v)' = MovingTo(v) + Moving(t, v)' - Moving(t, v)
  <2> DEFINE f == [u \in Thread |-> Moving(u, v)]
             h == [u \in Thread |-> Moving(u, v)']
  <2>1. /\ f \in [Thread -> Nat] /\ f \in [Thread -> Int] /\ h \in [Thread -> Int]
        /\ \A u \in Thread \ {t} : h[u] = f[u]
        /\ f[t] = Moving(t, v) /\ h[t] = Moving(t, v)'
    <3> HIDE DEF Moving
    <3> QED
      BY <1>1, <1>2
  <2> HIDE DEF f, h
  <2>2. SumFunction(f) \in Nat /\ f[t] <= SumFunction(f)
    BY <1>0, <2>1, SumIsNat
  <2>3. SumFunction(h) = SumFunction(f) + h[t] - f[t]
    BY <1>0, <2>1, SumChanges
  <2>4. MovingTo(v) = SumFunction(f) /\ MovingTo(v)' = SumFunction(h)
    BY DEF MovingTo, f, h
  <2> QED
    BY <2>1, <2>2, <2>3, <2>4
<1>5. OwedByAll \in Nat /\ OwedByAll' = OwedByAll + Owed(t)' - Owed(t)
  <2> DEFINE f == [u \in Thread |-> Owed(u)]
             h == [u \in Thread |-> Owed(u)']
  <2>1. /\ f \in [Thread -> Nat] /\ f \in [Thread -> Int] /\ h \in [Thread -> Int]
        /\ \A u \in Thread \ {t} : h[u] = f[u]
        /\ f[t] = Owed(t) /\ h[t] = Owed(t)'
    <3> HIDE DEF Owed
    <3> QED
      BY <1>1, <1>2
  <2> HIDE DEF f, h
  <2>2. SumFunction(f) \in Nat
    BY <1>0, <2>1, SumIsNat
  <2>3. SumFunction(h) = SumFunction(f) + h[t] - f[t]
    BY <1>0, <2>1, SumChanges
  <2>4. OwedByAll = SumFunction(f) /\ OwedByAll' = SumFunction(h)
    BY DEF OwedByAll, f, h
  <2> QED
    BY <2>1, <2>2, <2>3, <2>4
<1> QED
  BY <1>3, <1>4, <1>5

-----------------------------------------------------------------------------
(* Types *)

\* A call moves on to w with locals j that fit.
LEMMA JobStep ==
    ASSUME TypeOK, JobsFit, NEW t \in Thread, NEW w \in PC, NEW j \in Job \cup {NoJob},
           Goto(t, w), job' = [job EXCEPT ![t] = j],
           epoch' \in Nat, epoch' >= epoch, Fits(w, j, epoch')
    PROVE  /\ pc' \in [Thread -> PC] /\ job' \in [Thread -> Job \cup {NoJob}] /\ JobsFit'
           /\ pc'[t] = w /\ job'[t] = j
           /\ \A u \in Thread \ {t} : pc'[u] = pc[u] /\ job'[u] = job[u]
<1>1. pc \in [Thread -> PC] /\ job \in [Thread -> Job \cup {NoJob}] /\ epoch \in Nat
  BY StakingAssumption DEF TypeOK
<1>2. /\ pc' \in [Thread -> PC] /\ job' \in [Thread -> Job \cup {NoJob}]
      /\ pc'[t] = w /\ job'[t] = j
      /\ \A u \in Thread \ {t} : pc'[u] = pc[u] /\ job'[u] = job[u]
  <2> HIDE DEF PC, Job
  <2> QED
    BY <1>1 DEF Goto
<1>3. ASSUME NEW u \in Thread \ {t} PROVE Fits(pc[u], job[u], epoch')
  <2>1. Fits(pc[u], job[u], epoch)
    BY DEF JobsFit
  <2> QED
    BY <1>1, <2>1 DEF Fits
<1>4. \A u \in Thread : Fits(pc'[u], job'[u], epoch')
  <2> HIDE DEF Fits
  <2> QED
    BY <1>2, <1>3
<1> QED
  BY <1>2, <1>4 DEF JobsFit

LEMMA NoJobFits == \A e : Fits("idle", NoJob, e) /\ "idle" \in PC /\ NoJob \in Job \cup {NoJob}
BY DEF Fits, PC

\* The share of a validator that has stake, of which it keeps the commission.
LEMMA RewardFacts ==
    ASSUME TypeOK
    PROVE  /\ ActiveStake \in Nat
           /\ \A v \in Validator : stake[v] # 0 =>
                 /\ ActiveStake > 0
                 /\ DelegatorReward(v) \in Nat
                 /\ ActiveStake * DelegatorReward(v) <= Rewards * stake[v]
<1>1. stake \in [Validator -> Nat] /\ IsFiniteSet(Validator) /\ Rewards \in Nat
  BY StakingAssumption DEF TypeOK
<1>2. ActiveStake \in Nat /\ \A v \in Validator : stake[v] <= ActiveStake
  BY <1>1, SumIsNat DEF ActiveStake
<1>3. ASSUME NEW v \in Validator, stake[v] # 0
      PROVE  /\ ActiveStake > 0 /\ DelegatorReward(v) \in Nat
             /\ ActiveStake * DelegatorReward(v) <= Rewards * stake[v]
  <2> DEFINE A == ActiveStake
             p == Rewards * stake[v]
             reward == p \div A
             c == Commission[v]
             q == (reward * c) \div 10000
  <2>1. A \in Nat /\ A > 0 /\ c \in 0 .. 10000 /\ stake[v] \in Nat
    BY <1>1, <1>2, <1>3, StakingAssumption
  <2>2. p \in Nat
    BY <1>1, <2>1, SMT
  <2>3. DelegatorReward(v) = reward - q
    BY DEF DelegatorReward
  <2> HIDE DEF A, p
  <2>4. reward \in Nat /\ A * reward <= p
    BY <2>1, <2>2, Divides
  <2> HIDE DEF reward, c
  <2>5. reward * c \in Nat /\ reward * c <= reward * 10000
    BY <2>1, <2>4, SMT
  <2>6. q \in Nat /\ 10000 * q <= reward * c
    <3> DEFINE m == reward * c
    <3>1. m \in Nat /\ 10000 \in Nat /\ 10000 > 0
      BY <2>5
    <3> HIDE DEF m
    <3>2. m \div 10000 \in Nat /\ 10000 * (m \div 10000) <= m
      BY <3>1, Divides
    <3> QED
      BY <3>2 DEF m
  <2> HIDE DEF q
  <2>7. q <= reward
    BY <2>4, <2>5, <2>6
  <2>8. A * (reward - q) <= A * reward
    BY <2>1, <2>4, <2>6, <2>7, SMT
  <2>9. reward - q \in Nat /\ A * (reward - q) \in Nat /\ A * reward \in Nat
    BY <2>1, <2>4, <2>6, <2>7, SMT
  <2>10. A * (reward - q) <= p
    BY <2>2, <2>4, <2>8, <2>9
  <2> QED
    BY <2>1, <2>3, <2>9, <2>10 DEF A, p
<1> QED
  BY <1>2, <1>3

-----------------------------------------------------------------------------
(* The sums of a state, and the ones a step leaves alone *)

LEMMA Numbers ==
    ASSUME StakeInv
    PROVE  /\ \A d \in Delegator : /\ DelegatedFrom(d) \in Nat /\ InFlight(d) \in Nat
                                   /\ Unbonding(d) \in Nat
                                   /\ released[d] \in Nat /\ deposited[d] \in Nat
           /\ \A v \in Validator : /\ DelegatedTo(v) \in Nat /\ MovingTo(v) \in Nat
                                   /\ stake[v] \in Nat /\ SelfStake[v] \in Nat
                                   /\ registered[v] \in Nat
           /\ InPools \in Nat /\ OwedByAll \in Nat /\ minted \in Nat /\ epoch \in Nat
           /\ ActiveStake \in Nat /\ total \in Nat /\ \A v \in Validator : stake[v] <= ActiveStake
<1>1. TypeOK /\ JobsFit /\ QueueFits
  BY DEF StakeInv
<1>2. /\ \A d \in Delegator : released[d] \in Nat /\ deposited[d] \in Nat
      /\ \A v \in Validator : stake[v] \in Nat /\ SelfStake[v] \in Nat /\ registered[v] \in Nat
      /\ minted \in Nat /\ epoch \in Nat /\ total \in Nat /\ delegations \in Table
  BY <1>1, StakingAssumption DEF TypeOK, Table
<1>3. /\ \A d \in Delegator : DelegatedFrom(d) \in Nat
      /\ \A v \in Validator : DelegatedTo(v) \in Nat
  BY <1>2, TableSums DEF DelegatedFrom, DelegatedTo
<1>4. ASSUME NEW d \in Delegator PROVE InFlight(d) \in Nat
  <2> DEFINE f == [u \in Thread |-> Carried(u, d)]
  <2>1. f \in [Thread -> Nat]
    <3> HIDE DEF Carried
    <3> QED
      BY <1>1, CallsCarry
  <2>2. InFlight(d) = SumFunction(f)
    BY DEF InFlight, Carried
  <2> HIDE DEF f
  <2> QED
    BY <2>1, <2>2, SumIsNat, StakingAssumption
<1>5. ASSUME NEW v \in Validator PROVE MovingTo(v) \in Nat
  <2> DEFINE f == [u \in Thread |-> Moving(u, v)]
  <2>1. f \in [Thread -> Nat]
    <3> HIDE DEF Moving
    <3> QED
      BY <1>1, CallsCarry
  <2>2. MovingTo(v) = SumFunction(f)
    BY DEF MovingTo
  <2> HIDE DEF f
  <2> QED
    BY <2>1, <2>2, SumIsNat, StakingAssumption
<1>6. OwedByAll \in Nat
  <2> DEFINE f == [u \in Thread |-> Owed(u)]
  <2>1. f \in [Thread -> Nat]
    <3> HIDE DEF Owed
    <3> QED
      BY <1>1, CallsCarry
  <2>2. OwedByAll = SumFunction(f)
    BY DEF OwedByAll
  <2> HIDE DEF f
  <2> QED
    BY <2>1, <2>2, SumIsNat, StakingAssumption
<1>7. ASSUME NEW d \in Delegator PROVE Unbonding(d) \in Nat
  <2> DEFINE f == [e \in unbonding |-> IF e.delegator = d THEN e.amount ELSE 0]
  <2>1. f \in [unbonding -> Nat]
    BY <1>1 DEF TypeOK, UnbondingEntry
  <2>2. Unbonding(d) = SumFunction(f)
    BY DEF Unbonding
  <2> HIDE DEF f
  <2> QED
    BY <1>1, <2>1, <2>2, SumIsNat DEF QueueFits
<1>8. InPools \in Nat
  <2> DEFINE f == [v \in Validator |-> IF pools[v] = NoPool THEN 0 ELSE pools[v]]
  <2>1. f \in [Validator -> Nat]
    BY <1>1 DEF TypeOK
  <2>2. InPools = SumFunction(f)
    BY DEF InPools
  <2> HIDE DEF f
  <2> QED
    BY <2>1, <2>2, SumIsNat, StakingAssumption
<1>9. ActiveStake \in Nat /\ \A v \in Validator : stake[v] <= ActiveStake
  <2>1. stake \in [Validator -> Nat] /\ IsFiniteSet(Validator)
    BY <1>1, StakingAssumption DEF TypeOK
  <2> QED
    BY <2>1, SumIsNat DEF ActiveStake
<1> QED
  BY <1>2, <1>3, <1>4, <1>5, <1>6, <1>7, <1>8, <1>9

LEMMA Kept ==
    /\ UNCHANGED delegations =>
         /\ \A d \in Delegator : DelegatedFrom(d)' = DelegatedFrom(d)
         /\ \A v \in Validator : DelegatedTo(v)' = DelegatedTo(v)
    /\ UNCHANGED unbonding => \A d \in Delegator : Unbonding(d)' = Unbonding(d)
    /\ UNCHANGED pools => InPools' = InPools
    /\ UNCHANGED stake => ActiveStake' = ActiveStake
BY DEF DelegatedFrom, DelegatedTo, RowSum, ColumnSum, Unbonding, InPools, ActiveStake

\* What calls of a thread hold at its places in the code.
LEMMA Places ==
    ASSUME NEW t \in Thread, NEW d \in Delegator, NEW v \in Validator
    PROVE  /\ pc[t] \notin {"record", "unstake", "queue"} => Carried(t, d) = 0
           /\ pc[t] \notin {"record", "unstake"} => Moving(t, v) = 0
           /\ pc[t] # "distribute" => Owed(t) = 0
           /\ pc'[t] \notin {"record", "unstake", "queue"} => Carried(t, d)' = 0
           /\ pc'[t] \notin {"record", "unstake"} => Moving(t, v)' = 0
           /\ pc'[t] # "distribute" => Owed(t)' = 0
BY DEF Carried, Moving, Owed

-----------------------------------------------------------------------------
(* The steps *)

\* register_validator: a new address has no delegations.
LEMMA RegisterStep ==
    ASSUME StakeInv, NEW t \in Thread, NEW v \in Validator, RegisterValidator(t, v)
    PROVE  StakeInv'
<1>1. /\ TypeOK /\ JobsFit /\ QueueFits /\ UnknownIsEmpty
      /\ StakeCovers /\ TotalIsSum /\ DepositsCover /\ PoolsCovered
  BY DEF StakeInv
<1>2. /\ pc[t] = "idle" /\ registered[v] < MaxRegistrations
      /\ registered' = [registered EXCEPT ![v] = @ + 1]
      /\ stake' = [stake EXCEPT ![v] = SelfStake[v]]
      /\ total' = total + SelfStake[v]
      /\ Goto(t, "pool") /\ job' = [job EXCEPT ![t] = [validator |-> v]]
      /\ UNCHANGED <<epoch, setEpoch, delegations, unbonding, pools, deposited, released, minted, queued>>
  BY DEF RegisterValidator, Idle, Begin, history
<1>3. /\ pc' \in [Thread -> PC] /\ job' \in [Thread -> Job \cup {NoJob}] /\ JobsFit'
      /\ pc'[t] = "pool"
      /\ \A u \in Thread \ {t} : pc'[u] = pc[u] /\ job'[u] = job[u]
  <2> DEFINE j == [validator |-> v]
  <2>1. "pool" \in PC /\ j \in Job \cup {NoJob} /\ Fits("pool", j, epoch')
    BY DEF PC, Job, Fits
  <2>2. epoch' \in Nat /\ epoch' >= epoch
    BY <1>1, <1>2 DEF TypeOK
  <2> HIDE DEF j
  <2>3. job' = [job EXCEPT ![t] = j]
    BY <1>2 DEF j
  <2> QED
    BY <1>1, <1>2, <2>1, <2>2, <2>3, JobStep
<1>4. /\ registered \in [Validator -> 0 .. MaxRegistrations] /\ stake \in [Validator -> Nat]
      /\ SelfStake \in [Validator -> Nat \ {0}]
  BY <1>1, StakingAssumption DEF TypeOK
<1>5. /\ registered' \in [Validator -> 0 .. MaxRegistrations] /\ stake' \in [Validator -> Nat]
      /\ registered'[v] = registered[v] + 1 /\ stake'[v] = SelfStake[v]
      /\ \A w \in Validator \ {v} : registered'[w] = registered[w] /\ stake'[w] = stake[w]
  BY <1>2, <1>4, StakingAssumption
<1>6. TypeOK'
  <2>1. total' \in Nat
    BY <1>1, <1>2, <1>4 DEF TypeOK
  <2> QED
    BY <1>1, <1>2, <1>3, <1>5, <2>1 DEF TypeOK
<1>7. /\ \A d \in Delegator : InFlight(d)' = InFlight(d)
      /\ \A w \in Validator : MovingTo(w)' = MovingTo(w)
      /\ OwedByAll' = OwedByAll
  <2>1. /\ \A d \in Delegator : Carried(t, d) = 0 /\ Carried(t, d)' = 0
        /\ \A w \in Validator : Moving(t, w) = 0 /\ Moving(t, w)' = 0
        /\ Owed(t) = 0 /\ Owed(t)' = 0
    BY <1>2, <1>3 DEF Carried, Moving, Owed
  <2> QED
    BY <1>1, <1>3, <2>1, CallSteps
<1>8. /\ \A d \in Delegator : DelegatedFrom(d)' = DelegatedFrom(d) /\ Unbonding(d)' = Unbonding(d)
      /\ \A w \in Validator : DelegatedTo(w)' = DelegatedTo(w)
      /\ InPools' = InPools
  BY <1>2, Kept
<1>9. UnknownIsEmpty'
  <2> SUFFICES ASSUME NEW w \in Validator, registered'[w] = 0
               PROVE  /\ stake'[w] = 0
                      /\ \A d \in Delegator : delegations'[d][w] = << >>
                      /\ \A u \in Thread : pc'[u] \in {"record", "unstake"} => job'[u].validator # w
    BY DEF UnknownIsEmpty
  <2>1. w # v /\ registered[w] = 0
    BY <1>4, <1>5
  <2> QED
    BY <1>1, <1>2, <1>3, <1>5, <2>1 DEF UnknownIsEmpty
<1>10. StakeCovers'
  <2> SUFFICES ASSUME NEW w \in Validator, registered'[w] = 1
               PROVE  stake'[w] >= SelfStake[w] + DelegatedTo(w)' + MovingTo(w)'
    BY DEF StakeCovers
  <2>1. CASE w # v
    BY <1>1, <1>5, <1>7, <1>8, <2>1 DEF StakeCovers
  <2>2. CASE w = v
    <3>1. registered[v] = 0
      BY <1>4, <1>5, <2>2
    <3>2. DelegatedTo(v) = 0
      <4> DEFINE f == [d \in Delegator |-> SumFunction(delegations[d][v])]
      <4>1. \A d \in Delegator : delegations[d][v] = << >>
        BY <1>1, <3>1 DEF UnknownIsEmpty
      <4>2. << >> \in Seq(Nat) /\ SumFunction(<< >>) = 0
        <5>1. << >> \in Seq(Nat)
          OBVIOUS
        <5> QED
          BY <5>1, ListFacts
      <4>3. DOMAIN f = Delegator /\ \A d \in Delegator : f[d] = 0
        BY <4>1, <4>2
      <4> HIDE DEF f
      <4>4. SumFunction(f) = 0
        BY <4>3, SumOfZeros, StakingAssumption
      <4> QED
        BY <4>4 DEF f, DelegatedTo, ColumnSum
    <3>3. MovingTo(v) = 0
      <4> DEFINE f == [u \in Thread |-> Moving(u, v)]
      <4>1. DOMAIN f = Thread /\ \A u \in Thread : f[u] = 0
        BY <1>1, <3>1 DEF UnknownIsEmpty, Moving
      <4> HIDE DEF f
      <4>2. SumFunction(f) = 0
        BY <4>1, SumOfZeros, StakingAssumption
      <4> QED
        BY <4>2 DEF f, MovingTo
    <3> QED
      BY <1>4, <1>5, <1>7, <1>8, <2>2, <3>2, <3>3
  <2> QED
    BY <2>1, <2>2
<1>11. TotalIsSum'
  <2> SUFFICES ASSUME \A w \in Validator : registered'[w] <= 1 PROVE total' = ActiveStake'
    BY DEF TotalIsSum
  <2>1. registered[v] = 0 /\ \A w \in Validator : registered[w] <= 1
    <3>1. registered'[v] <= 1 /\ registered[v] \in Nat
      BY <1>4
    <3>2. registered[v] = 0
      BY <1>5, <3>1
    <3> QED
      BY <1>5, <3>2
  <2>2. stake[v] = 0 /\ total = ActiveStake
    BY <1>1, <2>1 DEF UnknownIsEmpty, TotalIsSum
  <2>3. stake \in [Validator -> Int] /\ stake' \in [Validator -> Int] /\ IsFiniteSet(Validator)
    BY <1>4, <1>5, StakingAssumption
  <2>4. SumFunction(stake) \in Int /\ SumFunction(stake') = SumFunction(stake) + stake'[v] - stake[v]
    <3> DEFINE f == stake
               h == stake'
    <3>1. /\ f \in [Validator -> Int] /\ h \in [Validator -> Int]
          /\ \A w \in Validator \ {v} : h[w] = f[w]
      BY <1>5, <2>3
    <3> HIDE DEF f, h
    <3>2. SumFunction(f) \in Int /\ SumFunction(h) = SumFunction(f) + h[v] - f[v]
      BY <2>3, <3>1, SumChanges
    <3> QED
      BY <3>2 DEF f, h
  <2> QED
    BY <1>2, <1>4, <1>5, <2>2, <2>4 DEF ActiveStake
<1>12. QueueFits' /\ DepositsCover' /\ PoolsCovered'
  BY <1>1, <1>2, <1>7, <1>8 DEF QueueFits, DepositsCover, PoolsCovered
<1> QED
  BY <1>3, <1>6, <1>9, <1>10, <1>11, <1>12 DEF StakeInv

\* register_validator: a pool that starts again at zero loses what it held.
LEMMA InitPoolStep ==
    ASSUME StakeInv, NEW t \in Thread, InitPool(t)
    PROVE  StakeInv'
<1>1. /\ TypeOK /\ JobsFit /\ QueueFits /\ UnknownIsEmpty
      /\ StakeCovers /\ TotalIsSum /\ DepositsCover /\ PoolsCovered
  BY DEF StakeInv
<1> DEFINE v == job[t].validator
<1>2. /\ pc[t] = "pool" /\ pools' = [pools EXCEPT ![v] = 0]
      /\ Goto(t, "idle") /\ job' = [job EXCEPT ![t] = NoJob]
      /\ UNCHANGED <<epoch, setEpoch, registered, stake, total, delegations, unbonding,
                     deposited, released, minted, queued>>
  BY DEF InitPool, Return, history
<1>3. /\ pc' \in [Thread -> PC] /\ job' \in [Thread -> Job \cup {NoJob}] /\ JobsFit'
      /\ pc'[t] = "idle"
      /\ \A u \in Thread \ {t} : pc'[u] = pc[u] /\ job'[u] = job[u]
  <2>1. epoch' \in Nat /\ epoch' >= epoch
    BY <1>1, <1>2 DEF TypeOK
  <2> QED
    BY <1>1, <1>2, <2>1, NoJobFits, JobStep
<1>4. v \in Validator /\ pools \in [Validator -> Nat \cup {NoPool}]
  BY <1>1, <1>2 DEF JobsFit, Fits, TypeOK
<1> HIDE DEF v
<1>5. TypeOK'
  <2>1. pools' \in [Validator -> Nat \cup {NoPool}]
    BY <1>2, <1>4
  <2> QED
    BY <1>1, <1>2, <1>3, <2>1 DEF TypeOK
<1>6. /\ \A d \in Delegator : InFlight(d)' = InFlight(d)
      /\ \A w \in Validator : MovingTo(w)' = MovingTo(w)
      /\ OwedByAll' = OwedByAll
  <2>1. /\ \A d \in Delegator : Carried(t, d) = 0 /\ Carried(t, d)' = 0
        /\ \A w \in Validator : Moving(t, w) = 0 /\ Moving(t, w)' = 0
        /\ Owed(t) = 0 /\ Owed(t)' = 0
    BY <1>2, <1>3 DEF Carried, Moving, Owed
  <2> QED
    BY <1>1, <1>3, <2>1, CallSteps
<1>7. /\ \A d \in Delegator : DelegatedFrom(d)' = DelegatedFrom(d) /\ Unbonding(d)' = Unbonding(d)
      /\ \A w \in Validator : DelegatedTo(w)' = DelegatedTo(w)
      /\ ActiveStake' = ActiveStake
  BY <1>2, Kept
<1>8. InPools' <= InPools
  <2> DEFINE f == [w \in Validator |-> IF pools[w] = NoPool THEN 0 ELSE pools[w]]
             h == [w \in Validator |-> IF pools'[w] = NoPool THEN 0 ELSE pools'[w]]
  <2>1. /\ f \in [Validator -> Int] /\ h \in [Validator -> Int]
        /\ \A w \in Validator \ {v} : h[w] = f[w]
        /\ h[v] = 0 /\ f[v] \in Nat
    BY <1>2, <1>4 DEF NoPool
  <2>2. InPools = SumFunction(f) /\ InPools' = SumFunction(h)
    BY DEF InPools
  <2> HIDE DEF f, h
  <2>3. SumFunction(f) \in Int /\ SumFunction(h) = SumFunction(f) + h[v] - f[v]
    BY <1>4, <2>1, SumChanges, StakingAssumption
  <2> QED
    BY <2>1, <2>2, <2>3
<1>9. PoolsCovered'
  <2>1. InPools \in Nat /\ InPools' \in Int /\ OwedByAll \in Nat /\ minted \in Nat
    <3>1. StakeInv
      OBVIOUS
    <3>2. InPools' \in Nat
      <4> DEFINE h == [w \in Validator |-> IF pools'[w] = NoPool THEN 0 ELSE pools'[w]]
      <4>1. h \in [Validator -> Nat]
        BY <1>2, <1>4 DEF NoPool
      <4>2. InPools' = SumFunction(h)
        BY DEF InPools
      <4> HIDE DEF h
      <4> QED
        BY <4>1, <4>2, SumIsNat, StakingAssumption
    <3> QED
      BY <3>2, Numbers
  <2>2. minted' = minted /\ OwedByAll' = OwedByAll /\ InPools + OwedByAll <= minted
    BY <1>1, <1>2, <1>6 DEF PoolsCovered
  <2>3. InPools' + OwedByAll <= minted
    <3> DEFINE a == InPools'
               b == InPools
               c == OwedByAll
    <3>1. a \in Int /\ b \in Int /\ c \in Int /\ minted \in Int /\ a <= b /\ b + c <= minted
      BY <1>8, <2>1, <2>2
    <3> HIDE DEF a, b, c
    <3>2. a + c <= minted
      BY <3>1
    <3> QED
      BY <3>2 DEF a, c
  <2> QED
    BY <2>2, <2>3 DEF PoolsCovered
<1>10. UnknownIsEmpty'
  BY <1>1, <1>2, <1>3 DEF UnknownIsEmpty
<1>11. QueueFits' /\ DepositsCover' /\ StakeCovers' /\ TotalIsSum'
  BY <1>1, <1>2, <1>6, <1>7 DEF QueueFits, DepositsCover, StakeCovers, TotalIsSum
<1> QED
  BY <1>3, <1>5, <1>9, <1>10, <1>11 DEF StakeInv

\* The sum of the stakes when one of them is set to s.
LEMMA StakeChanges ==
    ASSUME StakeInv, NEW v \in Validator, NEW s \in Nat, stake' = [stake EXCEPT ![v] = s]
    PROVE  /\ stake' \in [Validator -> Nat] /\ stake'[v] = s
           /\ \A w \in Validator \ {v} : stake'[w] = stake[w]
           /\ ActiveStake \in Int /\ ActiveStake' = ActiveStake + s - stake[v]
<1>1. stake \in [Validator -> Nat] /\ IsFiniteSet(Validator)
  BY StakingAssumption DEF StakeInv, TypeOK
<1>2. /\ stake' \in [Validator -> Nat] /\ stake'[v] = s
      /\ \A w \in Validator \ {v} : stake'[w] = stake[w]
  BY <1>1
<1> DEFINE f == stake
           h == stake'
<1>3. /\ f \in [Validator -> Int] /\ h \in [Validator -> Int] /\ h[v] = s /\ f[v] = stake[v]
      /\ \A w \in Validator \ {v} : h[w] = f[w]
  BY <1>1, <1>2
<1>4. ActiveStake = SumFunction(f) /\ ActiveStake' = SumFunction(h)
  BY DEF ActiveStake
<1> HIDE DEF f, h
<1>5. SumFunction(f) \in Int /\ SumFunction(h) = SumFunction(f) + h[v] - f[v]
  BY <1>1, <1>3, SumChanges
<1> QED
  BY <1>2, <1>3, <1>4, <1>5

\* delegate: the stake grows before the delegation is recorded.
LEMMA DelegateStep ==
    ASSUME StakeInv, NEW t \in Thread, NEW d \in Delegator, NEW v \in Validator, NEW a \in Amount,
           Delegate(t, d, v, a)
    PROVE  StakeInv'
<1>1. /\ TypeOK /\ JobsFit /\ QueueFits /\ UnknownIsEmpty
      /\ StakeCovers /\ TotalIsSum /\ DepositsCover /\ PoolsCovered
  BY DEF StakeInv
<1> DEFINE j == [delegator |-> d, validator |-> v, amount |-> a]
<1>2. /\ pc[t] = "idle" /\ registered[v] > 0 /\ deposited[d] + a <= MaxDeposit
      /\ stake' = [stake EXCEPT ![v] = @ + a]
      /\ total' = total + a
      /\ deposited' = [deposited EXCEPT ![d] = @ + a]
      /\ Goto(t, "record") /\ job' = [job EXCEPT ![t] = j]
      /\ UNCHANGED <<epoch, setEpoch, registered, delegations, unbonding, pools, released, minted, queued>>
  BY DEF Delegate, Idle, Begin
<1>3. a \in Nat
  BY StakingAssumption
<1>4. "record" \in PC /\ j \in Job \cup {NoJob} /\ Fits("record", j, epoch')
      /\ j.delegator = d /\ j.validator = v /\ j.amount = a
  BY <1>3 DEF PC, Job, Fits
<1> HIDE DEF j
<1>5. /\ pc' \in [Thread -> PC] /\ job' \in [Thread -> Job \cup {NoJob}] /\ JobsFit'
      /\ pc'[t] = "record" /\ job'[t] = j
      /\ \A u \in Thread \ {t} : pc'[u] = pc[u] /\ job'[u] = job[u]
  <2>1. epoch' \in Nat /\ epoch' >= epoch
    BY <1>1, <1>2 DEF TypeOK
  <2> QED
    BY <1>1, <1>2, <1>4, <2>1, JobStep
<1>6. /\ stake' \in [Validator -> Nat] /\ stake'[v] = stake[v] + a /\ stake[v] \in Nat
      /\ \A w \in Validator \ {v} : stake'[w] = stake[w]
      /\ ActiveStake \in Int /\ ActiveStake' = ActiveStake + a
  <2> DEFINE s == stake[v] + a
  <2>1. stake[v] \in Nat /\ s \in Nat /\ stake' = [stake EXCEPT ![v] = s]
    BY <1>1, <1>2, <1>3 DEF TypeOK
  <2> HIDE DEF s
  <2>2. /\ stake' \in [Validator -> Nat] /\ stake'[v] = s
        /\ \A w \in Validator \ {v} : stake'[w] = stake[w]
        /\ ActiveStake \in Int /\ ActiveStake' = ActiveStake + s - stake[v]
    BY <2>1, StakeChanges
  <2> QED
    BY <1>3, <2>1, <2>2 DEF s
<1>7. /\ deposited' \in [Delegator -> 0 .. MaxDeposit] /\ deposited'[d] = deposited[d] + a
      /\ \A e \in Delegator \ {d} : deposited'[e] = deposited[e]
  <2>1. deposited \in [Delegator -> 0 .. MaxDeposit]
    BY <1>1 DEF TypeOK
  <2>2. deposited[d] + a \in 0 .. MaxDeposit
    BY <1>2, <1>3, <2>1
  <2> QED
    BY <1>2, <2>1, <2>2
<1>8. TypeOK'
  <2>1. total' \in Nat
    BY <1>1, <1>2, <1>3 DEF TypeOK
  <2> QED
    BY <1>1, <1>2, <1>5, <1>6, <1>7, <2>1 DEF TypeOK
<1>9. /\ InFlight(d)' = InFlight(d) + a
      /\ \A e \in Delegator \ {d} : InFlight(e)' = InFlight(e)
      /\ MovingTo(v)' = MovingTo(v) + a
      /\ \A w \in Validator \ {v} : MovingTo(w)' = MovingTo(w)
      /\ OwedByAll' = OwedByAll
  <2>1. /\ \A e \in Delegator : Carried(t, e) = 0 /\ Carried(t, e)' = IF e = d THEN a ELSE 0
        /\ \A w \in Validator : Moving(t, w) = 0 /\ Moving(t, w)' = IF w = v THEN a ELSE 0
        /\ Owed(t) = 0 /\ Owed(t)' = 0
    BY <1>2, <1>4, <1>5 DEF Carried, Moving, Owed
  <2>2. /\ \A e \in Delegator :
             InFlight(e) \in Nat /\ InFlight(e)' = InFlight(e) + Carried(t, e)' - Carried(t, e)
        /\ \A w \in Validator :
             MovingTo(w) \in Nat /\ MovingTo(w)' = MovingTo(w) + Moving(t, w)' - Moving(t, w)
        /\ OwedByAll \in Nat /\ OwedByAll' = OwedByAll + Owed(t)' - Owed(t)
    BY <1>1, <1>5, CallSteps
  <2> QED
    BY <1>3, <2>1, <2>2
<1>10. /\ \A e \in Delegator : DelegatedFrom(e)' = DelegatedFrom(e) /\ Unbonding(e)' = Unbonding(e)
       /\ \A w \in Validator : DelegatedTo(w)' = DelegatedTo(w)
       /\ InPools' = InPools
  BY <1>2, Kept
<1>11. UnknownIsEmpty'
  <2> SUFFICES ASSUME NEW w \in Validator, registered'[w] = 0
               PROVE  /\ stake'[w] = 0
                      /\ \A e \in Delegator : delegations'[e][w] = << >>
                      /\ \A u \in Thread : pc'[u] \in {"record", "unstake"} => job'[u].validator # w
    BY DEF UnknownIsEmpty
  <2>1. w # v /\ registered[w] = 0
    BY <1>1, <1>2 DEF TypeOK
  <2> QED
    BY <1>1, <1>2, <1>4, <1>5, <1>6, <2>1 DEF UnknownIsEmpty
<1>12. StakeCovers'
  <2> SUFFICES ASSUME NEW w \in Validator, registered'[w] = 1
               PROVE  stake'[w] >= SelfStake[w] + DelegatedTo(w)' + MovingTo(w)'
    BY DEF StakeCovers
  <2>1. stake[w] >= SelfStake[w] + DelegatedTo(w) + MovingTo(w)
    BY <1>1, <1>2 DEF StakeCovers
  <2>2. SelfStake[w] \in Nat /\ DelegatedTo(w) \in Nat /\ MovingTo(w) \in Nat /\ stake[w] \in Nat
    BY Numbers
  <2> QED
    BY <1>3, <1>6, <1>9, <1>10, <2>1, <2>2
<1>13. TotalIsSum'
  <2> SUFFICES ASSUME \A w \in Validator : registered'[w] <= 1 PROVE total' = ActiveStake'
    BY DEF TotalIsSum
  <2>1. total = ActiveStake
    BY <1>1, <1>2 DEF TotalIsSum
  <2> QED
    BY <1>2, <1>6, <2>1
<1>14. DepositsCover'
  <2> SUFFICES ASSUME NEW e \in Delegator
               PROVE  DelegatedFrom(e)' + InFlight(e)' + Unbonding(e)' + released'[e] <= deposited'[e]
    BY DEF DepositsCover
  <2>1. DelegatedFrom(e) + InFlight(e) + Unbonding(e) + released[e] <= deposited[e]
    BY <1>1 DEF DepositsCover
  <2>2. /\ DelegatedFrom(e) \in Nat /\ InFlight(e) \in Nat /\ Unbonding(e) \in Nat
        /\ released[e] \in Nat /\ deposited[e] \in Nat
    BY Numbers
  <2> QED
    BY <1>2, <1>3, <1>7, <1>9, <1>10, <2>1, <2>2
<1>15. QueueFits' /\ PoolsCovered'
  BY <1>1, <1>2, <1>9, <1>10 DEF QueueFits, PoolsCovered
<1> QED
  BY <1>5, <1>8, <1>11, <1>12, <1>13, <1>14, <1>15 DEF StakeInv

\* delegate: the amount becomes a delegation.
LEMMA RecordStep ==
    ASSUME StakeInv, NEW t \in Thread, RecordDelegation(t)
    PROVE  StakeInv'
<1>1. /\ TypeOK /\ JobsFit /\ QueueFits /\ UnknownIsEmpty
      /\ StakeCovers /\ TotalIsSum /\ DepositsCover /\ PoolsCovered
  BY DEF StakeInv
<1> DEFINE d == job[t].delegator
           v == job[t].validator
           a == job[t].amount
           ds == Append(delegations[d][v], a)
<1>2. /\ pc[t] = "record"
      /\ delegations' = [delegations EXCEPT ![d][v] = ds]
      /\ Goto(t, "idle") /\ job' = [job EXCEPT ![t] = NoJob]
      /\ UNCHANGED <<epoch, setEpoch, registered, stake, total, unbonding, pools,
                     deposited, released, minted, queued>>
  BY DEF RecordDelegation, Return, history
<1>3. d \in Delegator /\ v \in Validator /\ a \in Nat
  BY <1>1, <1>2 DEF JobsFit, Fits
<1>4. delegations \in Table /\ delegations[d][v] \in Seq(Nat)
  BY <1>1, <1>3 DEF TypeOK, Table
<1>5. registered[v] # 0
  BY <1>1, <1>2, <1>3 DEF UnknownIsEmpty
<1>6. /\ \A e \in Delegator : Carried(t, e) = IF e = d THEN a ELSE 0
      /\ \A w \in Validator : Moving(t, w) = IF w = v THEN a ELSE 0
      /\ Owed(t) = 0
  BY <1>2 DEF Carried, Moving, Owed
<1> HIDE DEF d, v, a
<1>7. ds \in Seq(Nat) /\ SumFunction(ds) = SumFunction(delegations[d][v]) + a
  BY <1>3, <1>4, AppendAdds
<1>8. SumFunction(delegations[d][v]) \in Nat
  BY <1>3, <1>4, TableSums
<1> HIDE DEF ds
<1>9. /\ delegations' \in Table
      /\ \A e \in Delegator, w \in Validator : e # d \/ w # v => delegations'[e][w] = delegations[e][w]
      /\ \A e \in Delegator : DelegatedFrom(e)' = DelegatedFrom(e) + (IF e = d THEN a ELSE 0)
      /\ \A w \in Validator : DelegatedTo(w)' = DelegatedTo(w) + (IF w = v THEN a ELSE 0)
  <2>1. a \in Int /\ a = SumFunction(ds) - SumFunction(delegations[d][v])
    BY <1>3, <1>7, <1>8
  <2>2. /\ delegations' \in Table /\ delegations'[d][v] = ds
        /\ \A e \in Delegator, w \in Validator : e # d \/ w # v => delegations'[e][w] = delegations[e][w]
    BY <1>2, <1>3, <1>4, <1>7 DEF Table
  <2>3. a = SumFunction(delegations'[d][v]) - SumFunction(delegations[d][v])
    BY <2>1, <2>2
  <2>4. /\ \A e \in Delegator : DelegatedFrom(e)' = DelegatedFrom(e) + (IF e = d THEN a ELSE 0)
        /\ \A w \in Validator : DelegatedTo(w)' = DelegatedTo(w) + (IF w = v THEN a ELSE 0)
    BY <1>3, <1>4, <2>1, <2>2, <2>3, DelegationsChange
  <2> QED
    BY <2>2, <2>4
<1>10. /\ pc' \in [Thread -> PC] /\ job' \in [Thread -> Job \cup {NoJob}] /\ JobsFit'
       /\ pc'[t] = "idle"
       /\ \A u \in Thread \ {t} : pc'[u] = pc[u] /\ job'[u] = job[u]
  <2>1. epoch' \in Nat /\ epoch' >= epoch
    BY <1>1, <1>2 DEF TypeOK
  <2> QED
    BY <1>1, <1>2, <2>1, NoJobFits, JobStep
<1>11. TypeOK'
  BY <1>1, <1>2, <1>9, <1>10 DEF TypeOK, Table
<1>12. /\ \A e \in Delegator : InFlight(e)' = InFlight(e) - (IF e = d THEN a ELSE 0)
       /\ \A w \in Validator : MovingTo(w)' = MovingTo(w) - (IF w = v THEN a ELSE 0)
       /\ OwedByAll' = OwedByAll
  <2>1. /\ \A e \in Delegator : Carried(t, e)' = 0
        /\ \A w \in Validator : Moving(t, w)' = 0
        /\ Owed(t)' = 0
    BY <1>10 DEF Carried, Moving, Owed
  <2>2. /\ \A e \in Delegator :
             InFlight(e) \in Nat /\ InFlight(e)' = InFlight(e) + Carried(t, e)' - Carried(t, e)
        /\ \A w \in Validator :
             MovingTo(w) \in Nat /\ MovingTo(w)' = MovingTo(w) + Moving(t, w)' - Moving(t, w)
        /\ OwedByAll \in Nat /\ OwedByAll' = OwedByAll + Owed(t)' - Owed(t)
    BY <1>1, <1>10, CallSteps
  <2> QED
    BY <1>3, <1>6, <2>1, <2>2
<1>13. /\ \A e \in Delegator : Unbonding(e)' = Unbonding(e)
       /\ InPools' = InPools /\ ActiveStake' = ActiveStake
  BY <1>2, Kept
<1>14. UnknownIsEmpty'
  <2> SUFFICES ASSUME NEW w \in Validator, registered'[w] = 0
               PROVE  /\ stake'[w] = 0
                      /\ \A e \in Delegator : delegations'[e][w] = << >>
                      /\ \A u \in Thread : pc'[u] \in {"record", "unstake"} => job'[u].validator # w
    BY DEF UnknownIsEmpty
  <2>1. w # v /\ registered[w] = 0
    BY <1>2, <1>5
  <2>2. \A e \in Delegator : delegations'[e][w] = delegations[e][w]
    BY <1>9, <2>1
  <2> QED
    BY <1>1, <1>2, <1>10, <2>1, <2>2 DEF UnknownIsEmpty
<1>15. StakeCovers'
  <2> SUFFICES ASSUME NEW w \in Validator, registered'[w] = 1
               PROVE  stake'[w] >= SelfStake[w] + DelegatedTo(w)' + MovingTo(w)'
    BY DEF StakeCovers
  <2>1. stake[w] >= SelfStake[w] + DelegatedTo(w) + MovingTo(w)
    BY <1>1, <1>2 DEF StakeCovers
  <2>2. SelfStake[w] \in Nat /\ DelegatedTo(w) \in Nat /\ MovingTo(w) \in Nat /\ stake[w] \in Nat
    BY Numbers
  <2> QED
    BY <1>2, <1>3, <1>9, <1>12, <2>1, <2>2
<1>16. DepositsCover'
  <2> SUFFICES ASSUME NEW e \in Delegator
               PROVE  DelegatedFrom(e)' + InFlight(e)' + Unbonding(e)' + released'[e] <= deposited'[e]
    BY DEF DepositsCover
  <2>1. DelegatedFrom(e) + InFlight(e) + Unbonding(e) + released[e] <= deposited[e]
    BY <1>1 DEF DepositsCover
  <2>2. /\ DelegatedFrom(e) \in Nat /\ InFlight(e) \in Nat /\ Unbonding(e) \in Nat
        /\ released[e] \in Nat /\ deposited[e] \in Nat
    BY Numbers
  <2> QED
    BY <1>2, <1>3, <1>9, <1>12, <1>13, <2>1, <2>2
<1>17. QueueFits' /\ PoolsCovered' /\ TotalIsSum'
  BY <1>1, <1>2, <1>12, <1>13 DEF QueueFits, PoolsCovered, TotalIsSum
<1> QED
  BY <1>10, <1>11, <1>14, <1>15, <1>16, <1>17 DEF StakeInv

\* undelegate: the delegation shrinks before the stake does.
LEMMA UndelegateStep ==
    ASSUME StakeInv, NEW t \in Thread, NEW d \in Delegator, NEW v \in Validator, NEW a \in Amount,
           Undelegate(t, d, v, a)
    PROVE  StakeInv'
<1>1. /\ TypeOK /\ JobsFit /\ QueueFits /\ UnknownIsEmpty
      /\ StakeCovers /\ TotalIsSum /\ DepositsCover /\ PoolsCovered
  BY DEF StakeInv
<1> DEFINE j == [delegator |-> d, validator |-> v, amount |-> a, since |-> epoch]
           o == delegations[d][v]
           ds == Withdraw(o, a)
<1>2. /\ pc[t] = "idle" /\ o # << >> /\ a <= Head(o)
      /\ delegations' = [delegations EXCEPT ![d][v] = ds]
      /\ Goto(t, "unstake") /\ job' = [job EXCEPT ![t] = j]
      /\ UNCHANGED <<epoch, setEpoch, registered, stake, total, unbonding, pools,
                     deposited, released, minted, queued>>
  BY DEF Undelegate, Idle, Begin, history
<1>3. a \in Nat /\ epoch \in Nat
  BY <1>1, StakingAssumption DEF TypeOK
<1>4. "unstake" \in PC /\ j \in Job \cup {NoJob} /\ Fits("unstake", j, epoch')
      /\ j.delegator = d /\ j.validator = v /\ j.amount = a
  BY <1>2, <1>3 DEF PC, Job, Fits
<1> HIDE DEF j
<1>5. delegations \in Table /\ o \in Seq(Nat)
  BY <1>1 DEF TypeOK, Table
<1>6. registered[v] # 0
  BY <1>1, <1>2 DEF UnknownIsEmpty
<1> HIDE DEF o
<1>7. ds \in Seq(Nat) /\ SumFunction(ds) \in Nat /\ SumFunction(ds) + a <= SumFunction(o)
  BY <1>2, <1>3, <1>5, WithdrawTakes
<1>8. SumFunction(o) \in Nat
  BY <1>5, ListFacts
<1> HIDE DEF ds
<1> DEFINE c == SumFunction(ds) - SumFunction(o)
<1>0. c \in Int /\ c + a <= 0
  BY <1>3, <1>7, <1>8
<1>9. /\ delegations' \in Table
      /\ \A e \in Delegator, w \in Validator : e # d \/ w # v => delegations'[e][w] = delegations[e][w]
      /\ \A e \in Delegator : DelegatedFrom(e)' = DelegatedFrom(e) + (IF e = d THEN c ELSE 0)
      /\ \A w \in Validator : DelegatedTo(w)' = DelegatedTo(w) + (IF w = v THEN c ELSE 0)
  <2>1. c = SumFunction(ds) - SumFunction(delegations[d][v])
    BY DEF o
  <2> HIDE DEF c
  <2>2. /\ delegations' \in Table /\ delegations'[d][v] = ds
        /\ \A e \in Delegator, w \in Validator : e # d \/ w # v => delegations'[e][w] = delegations[e][w]
    BY <1>2, <1>5, <1>7 DEF Table
  <2>3. c = SumFunction(delegations'[d][v]) - SumFunction(delegations[d][v])
    BY <2>1, <2>2
  <2>4. /\ \A e \in Delegator : DelegatedFrom(e)' = DelegatedFrom(e) + (IF e = d THEN c ELSE 0)
        /\ \A w \in Validator : DelegatedTo(w)' = DelegatedTo(w) + (IF w = v THEN c ELSE 0)
    BY <1>0, <1>5, <2>2, <2>3, DelegationsChange
  <2> QED
    BY <2>2, <2>4
<1> HIDE DEF c
<1>10. /\ pc' \in [Thread -> PC] /\ job' \in [Thread -> Job \cup {NoJob}] /\ JobsFit'
       /\ pc'[t] = "unstake" /\ job'[t] = j
       /\ \A u \in Thread \ {t} : pc'[u] = pc[u] /\ job'[u] = job[u]
  <2>1. epoch' \in Nat /\ epoch' >= epoch
    BY <1>2, <1>3
  <2> QED
    BY <1>1, <1>2, <1>4, <2>1, JobStep
<1>11. TypeOK'
  BY <1>1, <1>2, <1>9, <1>10 DEF TypeOK, Table
<1>12. /\ InFlight(d)' = InFlight(d) + a
       /\ \A e \in Delegator \ {d} : InFlight(e)' = InFlight(e)
       /\ MovingTo(v)' = MovingTo(v) + a
       /\ \A w \in Validator \ {v} : MovingTo(w)' = MovingTo(w)
       /\ OwedByAll' = OwedByAll
  <2>1. /\ \A e \in Delegator : Carried(t, e) = 0 /\ Carried(t, e)' = IF e = d THEN a ELSE 0
        /\ \A w \in Validator : Moving(t, w) = 0 /\ Moving(t, w)' = IF w = v THEN a ELSE 0
        /\ Owed(t) = 0 /\ Owed(t)' = 0
    BY <1>2, <1>4, <1>10 DEF Carried, Moving, Owed
  <2>2. /\ \A e \in Delegator :
             InFlight(e) \in Nat /\ InFlight(e)' = InFlight(e) + Carried(t, e)' - Carried(t, e)
        /\ \A w \in Validator :
             MovingTo(w) \in Nat /\ MovingTo(w)' = MovingTo(w) + Moving(t, w)' - Moving(t, w)
        /\ OwedByAll \in Nat /\ OwedByAll' = OwedByAll + Owed(t)' - Owed(t)
    BY <1>1, <1>10, CallSteps
  <2> QED
    BY <1>3, <2>1, <2>2
<1>13. /\ \A e \in Delegator : Unbonding(e)' = Unbonding(e)
       /\ InPools' = InPools /\ ActiveStake' = ActiveStake
  BY <1>2, Kept
<1>14. UnknownIsEmpty'
  <2> SUFFICES ASSUME NEW w \in Validator, registered'[w] = 0
               PROVE  /\ stake'[w] = 0
                      /\ \A e \in Delegator : delegations'[e][w] = << >>
                      /\ \A u \in Thread : pc'[u] \in {"record", "unstake"} => job'[u].validator # w
    BY DEF UnknownIsEmpty
  <2>1. w # v /\ registered[w] = 0
    BY <1>2, <1>6
  <2>2. \A e \in Delegator : delegations'[e][w] = delegations[e][w]
    BY <1>9, <2>1
  <2> QED
    BY <1>1, <1>2, <1>4, <1>10, <2>1, <2>2 DEF UnknownIsEmpty
<1>15. StakeCovers'
  <2> SUFFICES ASSUME NEW w \in Validator, registered'[w] = 1
               PROVE  stake'[w] >= SelfStake[w] + DelegatedTo(w)' + MovingTo(w)'
    BY DEF StakeCovers
  <2>1. stake[w] >= SelfStake[w] + DelegatedTo(w) + MovingTo(w)
    BY <1>1, <1>2 DEF StakeCovers
  <2>2. SelfStake[w] \in Nat /\ DelegatedTo(w) \in Nat /\ MovingTo(w) \in Nat /\ stake[w] \in Nat
    BY Numbers
  <2> QED
    BY <1>0, <1>2, <1>3, <1>9, <1>12, <2>1, <2>2
<1>16. DepositsCover'
  <2> SUFFICES ASSUME NEW e \in Delegator
               PROVE  DelegatedFrom(e)' + InFlight(e)' + Unbonding(e)' + released'[e] <= deposited'[e]
    BY DEF DepositsCover
  <2>1. DelegatedFrom(e) + InFlight(e) + Unbonding(e) + released[e] <= deposited[e]
    BY <1>1 DEF DepositsCover
  <2>2. /\ DelegatedFrom(e) \in Nat /\ InFlight(e) \in Nat /\ Unbonding(e) \in Nat
        /\ released[e] \in Nat /\ deposited[e] \in Nat
    BY Numbers
  <2> QED
    BY <1>0, <1>2, <1>3, <1>9, <1>12, <1>13, <2>1, <2>2
<1>17. QueueFits' /\ PoolsCovered' /\ TotalIsSum'
  BY <1>1, <1>2, <1>12, <1>13 DEF QueueFits, PoolsCovered, TotalIsSum
<1> QED
  BY <1>10, <1>11, <1>14, <1>15, <1>16, <1>17 DEF StakeInv

\* The locals of undelegate's call
LEMMA UndelegateLocals ==
    ASSUME StakeInv, NEW t \in Thread, pc[t] \in {"unstake", "queue"}
    PROVE  /\ job[t].delegator \in Delegator /\ job[t].validator \in Validator
           /\ job[t].amount \in Nat /\ job[t].since \in Nat /\ job[t].since <= epoch
BY DEF StakeInv, JobsFit, Fits

\* A call that moves on to w without new locals
LEMMA JobKept ==
    ASSUME StakeInv, NEW t \in Thread, NEW w \in PC, Goto(t, w), UNCHANGED <<epoch, job>>,
           Fits(w, job[t], epoch)
    PROVE  /\ pc' \in [Thread -> PC] /\ job' \in [Thread -> Job \cup {NoJob}] /\ JobsFit'
           /\ pc'[t] = w /\ job'[t] = job[t]
           /\ \A u \in Thread \ {t} : pc'[u] = pc[u] /\ job'[u] = job[u]
<1>1. TypeOK /\ JobsFit
  BY DEF StakeInv
<1> DEFINE j == job[t]
<1>2. j \in Job \cup {NoJob} /\ job' = [job EXCEPT ![t] = j]
  <2> HIDE DEF Job
  <2> QED
    BY <1>1 DEF TypeOK
<1>3. epoch' \in Nat /\ epoch' >= epoch
  BY <1>1 DEF TypeOK
<1>4. Fits(w, j, epoch')
  OBVIOUS
<1> HIDE DEF j
<1>5. /\ pc' \in [Thread -> PC] /\ job' \in [Thread -> Job \cup {NoJob}] /\ JobsFit'
      /\ pc'[t] = w /\ job'[t] = j
      /\ \A u \in Thread \ {t} : pc'[u] = pc[u] /\ job'[u] = job[u]
  BY <1>1, <1>2, <1>3, <1>4, JobStep
<1> QED
  BY <1>5 DEF j

\* undelegate: saturating_sub takes the whole amount off, because the stake
\* covers what calls are moving.
LEMMA UnstakeStep ==
    ASSUME StakeInv, NEW t \in Thread, Unstake(t)
    PROVE  StakeInv'
<1>1. /\ TypeOK /\ JobsFit /\ QueueFits /\ UnknownIsEmpty
      /\ StakeCovers /\ TotalIsSum /\ DepositsCover /\ PoolsCovered
  BY DEF StakeInv
<1> DEFINE d == job[t].delegator
           v == job[t].validator
           a == job[t].amount
           s == Less(stake[v], a)
<1>2. /\ pc[t] = "unstake" /\ stake' = [stake EXCEPT ![v] = s] /\ total' = Less(total, a)
      /\ Goto(t, "queue")
      /\ UNCHANGED <<epoch, setEpoch, registered, delegations, unbonding, pools, job,
                     deposited, released, minted, queued>>
  BY DEF Unstake, history
<1>3. d \in Delegator /\ v \in Validator /\ a \in Nat
  BY <1>2, UndelegateLocals
<1>4. /\ pc' \in [Thread -> PC] /\ job' \in [Thread -> Job \cup {NoJob}] /\ JobsFit'
      /\ pc'[t] = "queue" /\ job'[t] = job[t]
      /\ \A u \in Thread \ {t} : pc'[u] = pc[u] /\ job'[u] = job[u]
  <2>1. Fits("queue", job[t], epoch) /\ "queue" \in PC
    BY <1>1, <1>2 DEF JobsFit, Fits, PC
  <2> QED
    BY <1>2, <2>1, JobKept
<1>5. registered[v] # 0
  BY <1>1, <1>2, <1>3 DEF UnknownIsEmpty
<1>6. /\ \A e \in Delegator : Carried(t, e)' = Carried(t, e)
      /\ \A w \in Validator : Moving(t, w) = (IF w = v THEN a ELSE 0) /\ Moving(t, w)' = 0
      /\ Owed(t) = 0 /\ Owed(t)' = 0
  BY <1>2, <1>4 DEF Carried, Moving, Owed
<1> HIDE DEF d, v, a
<1>7. /\ \A e \in Delegator : InFlight(e)' = InFlight(e)
      /\ \A w \in Validator : MovingTo(w)' = MovingTo(w) - (IF w = v THEN a ELSE 0)
      /\ a <= MovingTo(v)
      /\ OwedByAll' = OwedByAll
  <2>1. /\ \A e \in Delegator :
             /\ InFlight(e) \in Nat /\ Carried(t, e) \in Nat
             /\ InFlight(e)' = InFlight(e) + Carried(t, e)' - Carried(t, e)
        /\ \A w \in Validator :
             /\ MovingTo(w) \in Nat /\ Moving(t, w) <= MovingTo(w)
             /\ MovingTo(w)' = MovingTo(w) + Moving(t, w)' - Moving(t, w)
        /\ OwedByAll \in Nat /\ OwedByAll' = OwedByAll + Owed(t)' - Owed(t)
    BY <1>1, <1>4, CallSteps, CallsCarry
  <2>2. \A e \in Delegator : InFlight(e)' = InFlight(e)
    BY <1>6, <2>1
  <2>3. \A w \in Validator : MovingTo(w)' = MovingTo(w) - (IF w = v THEN a ELSE 0)
    BY <1>3, <1>6, <2>1
  <2> QED
    BY <1>3, <1>6, <2>1, <2>2, <2>3
<1>8. stake[v] \in Nat /\ total \in Nat /\ s \in Nat /\ total' \in Nat
  BY <1>1, <1>2, <1>3 DEF TypeOK, Less
<1>9. ASSUME registered[v] = 1 PROVE stake[v] >= a /\ s = stake[v] - a
  <2>1. stake[v] >= SelfStake[v] + DelegatedTo(v) + MovingTo(v)
    BY <1>1, <1>3, <1>9 DEF StakeCovers
  <2>2. SelfStake[v] \in Nat /\ DelegatedTo(v) \in Nat /\ MovingTo(v) \in Nat
    BY <1>3, Numbers
  <2>3. stake[v] >= a
    BY <1>3, <1>7, <1>8, <2>1, <2>2
  <2> QED
    BY <1>3, <1>8, <2>3 DEF Less
<1> HIDE DEF s
<1>10. /\ stake' \in [Validator -> Nat] /\ stake'[v] = s
       /\ \A w \in Validator \ {v} : stake'[w] = stake[w]
       /\ ActiveStake \in Int /\ ActiveStake' = ActiveStake + s - stake[v]
  BY <1>2, <1>3, <1>8, StakeChanges
<1>11. TypeOK'
  BY <1>1, <1>2, <1>4, <1>8, <1>10 DEF TypeOK
<1>12. /\ \A e \in Delegator : DelegatedFrom(e)' = DelegatedFrom(e) /\ Unbonding(e)' = Unbonding(e)
       /\ \A w \in Validator : DelegatedTo(w)' = DelegatedTo(w)
       /\ InPools' = InPools
  BY <1>2, Kept
<1>13. UnknownIsEmpty'
  <2> SUFFICES ASSUME NEW w \in Validator, registered'[w] = 0
               PROVE  /\ stake'[w] = 0
                      /\ \A e \in Delegator : delegations'[e][w] = << >>
                      /\ \A u \in Thread : pc'[u] \in {"record", "unstake"} => job'[u].validator # w
    BY DEF UnknownIsEmpty
  <2>1. w # v /\ registered[w] = 0
    BY <1>2, <1>5
  <2> QED
    BY <1>1, <1>2, <1>4, <1>10, <2>1 DEF UnknownIsEmpty
<1>14. StakeCovers'
  <2> SUFFICES ASSUME NEW w \in Validator, registered'[w] = 1
               PROVE  stake'[w] >= SelfStake[w] + DelegatedTo(w)' + MovingTo(w)'
    BY DEF StakeCovers
  <2>1. stake[w] >= SelfStake[w] + DelegatedTo(w) + MovingTo(w) /\ registered[w] = 1
    BY <1>1, <1>2 DEF StakeCovers
  <2>2. SelfStake[w] \in Nat /\ DelegatedTo(w) \in Nat /\ MovingTo(w) \in Nat /\ stake[w] \in Nat
    BY Numbers
  <2>3. stake'[w] = stake[w] - (IF w = v THEN a ELSE 0)
    BY <1>9, <1>10, <2>1, <2>2
  <2> QED
    BY <1>3, <1>7, <1>12, <2>1, <2>2, <2>3
<1>15. TotalIsSum'
  <2> SUFFICES ASSUME \A w \in Validator : registered'[w] <= 1 PROVE total' = ActiveStake'
    BY DEF TotalIsSum
  <2>1. total = ActiveStake
    BY <1>1, <1>2 DEF TotalIsSum
  <2>2. registered[v] = 1
    BY <1>1, <1>2, <1>3, <1>5 DEF TypeOK
  <2>3. stake[v] <= ActiveStake
    BY <1>3, Numbers
  <2>4. total' = total - a
    BY <1>2, <1>3, <1>8, <1>9, <2>1, <2>2, <2>3 DEF Less
  <2> QED
    BY <1>3, <1>8, <1>9, <1>10, <2>1, <2>2, <2>4
<1>16. QueueFits' /\ PoolsCovered' /\ DepositsCover'
  BY <1>1, <1>2, <1>7, <1>12 DEF QueueFits, PoolsCovered, DepositsCover
<1> QED
  BY <1>4, <1>11, <1>13, <1>14, <1>15, <1>16 DEF StakeInv

\* undelegate: the amount waits in the queue from the epoch of this moment on.
LEMMA QueueStep ==
    ASSUME StakeInv, NEW t \in Thread, QueueUnbonding(t)
    PROVE  StakeInv'
<1>1. /\ TypeOK /\ JobsFit /\ QueueFits /\ UnknownIsEmpty
      /\ StakeCovers /\ TotalIsSum /\ DepositsCover /\ PoolsCovered
  BY DEF StakeInv
<1> DEFINE d == job[t].delegator
           a == job[t].amount
           x == [number |-> queued + 1, delegator |-> d, validator |-> job[t].validator,
                 amount |-> a, since |-> job[t].since, completion |-> epoch + UnbondingPeriod]
<1>2. /\ pc[t] = "queue" /\ unbonding' = unbonding \cup {x} /\ queued' = queued + 1
      /\ Goto(t, "idle") /\ job' = [job EXCEPT ![t] = NoJob]
      /\ UNCHANGED <<epoch, setEpoch, registered, stake, total, delegations, pools,
                     deposited, released, minted>>
  BY DEF QueueUnbonding, Return
<1>3. /\ d \in Delegator /\ job[t].validator \in Validator /\ a \in Nat
      /\ job[t].since \in Nat /\ job[t].since <= epoch
  BY <1>2, UndelegateLocals
<1>4. epoch \in Nat /\ queued \in Nat /\ UnbondingPeriod \in Nat
  BY <1>1, StakingAssumption DEF TypeOK
<1>5. /\ x \in UnbondingEntry /\ x.number = queued + 1 /\ x.delegator = d /\ x.amount = a
      /\ x.since + UnbondingPeriod <= x.completion
  BY <1>3, <1>4 DEF UnbondingEntry
<1>6. /\ \A e \in Delegator : Carried(t, e) = IF e = d THEN a ELSE 0
      /\ \A w \in Validator : Moving(t, w) = 0
      /\ Owed(t) = 0
  BY <1>2 DEF Carried, Moving, Owed
<1> HIDE DEF d, a, x
<1>7. /\ pc' \in [Thread -> PC] /\ job' \in [Thread -> Job \cup {NoJob}] /\ JobsFit'
      /\ pc'[t] = "idle"
      /\ \A u \in Thread \ {t} : pc'[u] = pc[u] /\ job'[u] = job[u]
  <2>1. epoch' \in Nat /\ epoch' >= epoch
    BY <1>2, <1>4
  <2> QED
    BY <1>1, <1>2, <2>1, NoJobFits, JobStep
<1>8. /\ \A e \in Delegator : InFlight(e)' = InFlight(e) - (IF e = d THEN a ELSE 0)
      /\ \A w \in Validator : MovingTo(w)' = MovingTo(w)
      /\ OwedByAll' = OwedByAll
  <2>1. /\ \A e \in Delegator : Carried(t, e)' = 0
        /\ \A w \in Validator : Moving(t, w)' = 0
        /\ Owed(t)' = 0
    BY <1>7 DEF Carried, Moving, Owed
  <2>2. /\ \A e \in Delegator :
             InFlight(e) \in Nat /\ InFlight(e)' = InFlight(e) + Carried(t, e)' - Carried(t, e)
        /\ \A w \in Validator :
             MovingTo(w) \in Nat /\ MovingTo(w)' = MovingTo(w) + Moving(t, w)' - Moving(t, w)
        /\ OwedByAll \in Nat /\ OwedByAll' = OwedByAll + Owed(t)' - Owed(t)
    BY <1>1, <1>7, CallSteps
  <2> QED
    BY <1>3, <1>6, <2>1, <2>2
<1>9. /\ \A e \in unbonding : e \in UnbondingEntry /\ e.number \in Nat /\ e.number <= queued
      /\ IsFiniteSet(unbonding) /\ x \notin unbonding
  <2>1. \A e \in unbonding : e \in UnbondingEntry /\ e.number <= queued
    BY <1>1 DEF TypeOK, QueueFits
  <2>2. \A e \in unbonding : e.number \in Nat
    BY <2>1 DEF UnbondingEntry
  <2>3. IsFiniteSet(unbonding)
    BY <1>1 DEF QueueFits
  <2> QED
    BY <1>4, <1>5, <2>1, <2>2, <2>3
<1>10. IsFiniteSet(unbonding') /\ unbonding' \subseteq UnbondingEntry
  <2>1. IsFiniteSet(unbonding \cup {x})
    BY <1>9, FS_AddElement
  <2> QED
    BY <1>2, <1>5, <1>9, <2>1
<1>11. QueueFits'
  BY <1>1, <1>2, <1>4, <1>5, <1>9, <1>10 DEF QueueFits
<1>12. \A e \in Delegator : Unbonding(e)' = Unbonding(e) + (IF e = d THEN a ELSE 0)
  <2> SUFFICES ASSUME NEW e \in Delegator
               PROVE  Unbonding(e)' = Unbonding(e) + (IF e = d THEN a ELSE 0)
    OBVIOUS
  <2> DEFINE T == unbonding'
             f == [y \in unbonding |-> IF y.delegator = e THEN y.amount ELSE 0]
             h == [y \in T |-> IF y.delegator = e THEN y.amount ELSE 0]
  <2>1. \A y \in T : y.amount \in Nat
    BY <1>10 DEF UnbondingEntry
  <2>2. /\ h \in [T -> Int] /\ x \in T /\ h[x] = IF e = d THEN a ELSE 0
    BY <1>2, <1>5, <2>1
  <2>3. f = [y \in T \ {x} |-> h[y]]
    <3>1. T \ {x} = unbonding
      BY <1>2, <1>9
    <3> QED
      BY <3>1
  <2>4. Unbonding(e) = SumFunction(f) /\ Unbonding(e)' = SumFunction(h)
    BY DEF Unbonding
  <2>5. IsFiniteSet(T)
    BY <1>10
  <2> HIDE DEF f, h, T
  <2>6. SumFunction(f) \in Int /\ SumFunction(h) = SumFunction(f) + h[x]
    BY <2>2, <2>3, <2>5, SumExtends
  <2> QED
    BY <2>2, <2>4, <2>6
<1>13. TypeOK'
  <2>1. queued' \in Nat
    BY <1>2, <1>4
  <2> QED
    BY <1>1, <1>2, <1>7, <1>10, <2>1 DEF TypeOK
<1>14. /\ \A e \in Delegator : DelegatedFrom(e)' = DelegatedFrom(e)
       /\ \A w \in Validator : DelegatedTo(w)' = DelegatedTo(w)
       /\ InPools' = InPools /\ ActiveStake' = ActiveStake
  BY <1>2, Kept
<1>15. DepositsCover'
  <2> SUFFICES ASSUME NEW e \in Delegator
               PROVE  DelegatedFrom(e)' + InFlight(e)' + Unbonding(e)' + released'[e] <= deposited'[e]
    BY DEF DepositsCover
  <2>1. DelegatedFrom(e) + InFlight(e) + Unbonding(e) + released[e] <= deposited[e]
    BY <1>1 DEF DepositsCover
  <2>2. /\ DelegatedFrom(e) \in Nat /\ InFlight(e) \in Nat /\ Unbonding(e) \in Nat
        /\ released[e] \in Nat /\ deposited[e] \in Nat
    BY Numbers
  <2> QED
    BY <1>2, <1>3, <1>8, <1>12, <1>14, <2>1, <2>2
<1>16. UnknownIsEmpty'
  BY <1>1, <1>2, <1>7 DEF UnknownIsEmpty
<1>17. StakeCovers' /\ PoolsCovered' /\ TotalIsSum'
  BY <1>1, <1>2, <1>8, <1>14 DEF StakeCovers, PoolsCovered, TotalIsSum
<1> QED
  BY <1>7, <1>11, <1>13, <1>15, <1>16, <1>17 DEF StakeInv

\* end_epoch: the rewards of the new epoch are owed to the pools.
LEMMA EndEpochStep ==
    ASSUME StakeInv, NEW t \in Thread, EndEpoch(t)
    PROVE  StakeInv'
<1>1. /\ TypeOK /\ JobsFit /\ QueueFits /\ UnknownIsEmpty
      /\ StakeCovers /\ TotalIsSum /\ DepositsCover /\ PoolsCovered
  BY DEF StakeInv
<1> DEFINE j == [epoch |-> epoch + 1]
<1>2. /\ pc[t] = "idle" /\ epoch < MaxEpoch /\ epoch' = epoch + 1 /\ minted' = minted + Rewards
      /\ Goto(t, "distribute") /\ job' = [job EXCEPT ![t] = j]
      /\ UNCHANGED <<setEpoch, registered, stake, total, delegations, unbonding, pools,
                     deposited, released, queued>>
  BY DEF EndEpoch, Idle, Begin, ledger
<1>3. epoch \in Nat /\ MaxEpoch \in Nat /\ Rewards \in Nat /\ epoch' \in 0 .. MaxEpoch /\ epoch' \in Nat
  BY <1>1, <1>2, StakingAssumption DEF TypeOK
<1>4. "distribute" \in PC /\ j \in Job \cup {NoJob} /\ Fits("distribute", j, epoch')
  BY <1>2, <1>3 DEF PC, Job, Fits
<1> HIDE DEF j
<1>5. /\ pc' \in [Thread -> PC] /\ job' \in [Thread -> Job \cup {NoJob}] /\ JobsFit'
      /\ pc'[t] = "distribute" /\ job'[t] = j
      /\ \A u \in Thread \ {t} : pc'[u] = pc[u] /\ job'[u] = job[u]
  <2>1. epoch' >= epoch
    BY <1>2, <1>3
  <2> QED
    BY <1>1, <1>2, <1>3, <1>4, <2>1, JobStep
<1>6. minted \in Nat /\ minted' \in Nat
  BY <1>1, <1>2, <1>3 DEF TypeOK
<1>7. TypeOK'
  BY <1>1, <1>2, <1>3, <1>5, <1>6 DEF TypeOK
<1>8. /\ \A d \in Delegator : InFlight(d)' = InFlight(d)
      /\ \A w \in Validator : MovingTo(w)' = MovingTo(w)
      /\ OwedByAll' = OwedByAll + Rewards
  <2>1. /\ \A d \in Delegator : Carried(t, d) = 0 /\ Carried(t, d)' = 0
        /\ \A w \in Validator : Moving(t, w) = 0 /\ Moving(t, w)' = 0
        /\ Owed(t) = 0 /\ Owed(t)' = Rewards
    BY <1>2, <1>5 DEF Carried, Moving, Owed
  <2>2. /\ \A d \in Delegator :
             InFlight(d) \in Nat /\ InFlight(d)' = InFlight(d) + Carried(t, d)' - Carried(t, d)
        /\ \A w \in Validator :
             MovingTo(w) \in Nat /\ MovingTo(w)' = MovingTo(w) + Moving(t, w)' - Moving(t, w)
        /\ OwedByAll \in Nat /\ OwedByAll' = OwedByAll + Owed(t)' - Owed(t)
    BY <1>1, <1>5, CallSteps
  <2> QED
    BY <1>3, <2>1, <2>2
<1>9. /\ \A d \in Delegator : DelegatedFrom(d)' = DelegatedFrom(d) /\ Unbonding(d)' = Unbonding(d)
      /\ \A w \in Validator : DelegatedTo(w)' = DelegatedTo(w)
      /\ InPools' = InPools /\ ActiveStake' = ActiveStake
  BY <1>2, Kept
<1>10. PoolsCovered'
  <2> DEFINE a == InPools
             b == OwedByAll
             c == OwedByAll'
  <2>1. a \in Nat /\ b \in Nat /\ c = b + Rewards /\ a + b <= minted
    BY <1>1, <1>8, Numbers DEF PoolsCovered
  <2>2. InPools' = a
    BY <1>9
  <2> HIDE DEF a, b, c
  <2>3. a + c <= minted'
    BY <1>2, <1>3, <1>6, <2>1
  <2> QED
    BY <2>2, <2>3 DEF c, PoolsCovered
<1>11. UnknownIsEmpty'
  BY <1>1, <1>2, <1>5 DEF UnknownIsEmpty
<1>12. QueueFits' /\ StakeCovers' /\ TotalIsSum' /\ DepositsCover'
  BY <1>1, <1>2, <1>8, <1>9 DEF QueueFits, StakeCovers, TotalIsSum, DepositsCover
<1> QED
  BY <1>5, <1>7, <1>10, <1>11, <1>12 DEF StakeInv

\* The shares of one distribution are at most the rewards.
LEMMA SharesBounded ==
    ASSUME TypeOK, NEW g \in [Validator -> Nat],
           \A v \in Validator : g[v] = 0 \/ (stake[v] # 0 /\ g[v] = DelegatorReward(v))
    PROVE  SumFunction(g) \in Nat /\ SumFunction(g) <= Rewards
<1>1. stake \in [Validator -> Nat] /\ IsFiniteSet(Validator) /\ Rewards \in Nat
  BY StakingAssumption DEF TypeOK
<1> DEFINE A == ActiveStake
           s == stake
<1>2. A \in Nat /\ A = SumFunction(s)
  BY RewardFacts DEF ActiveStake
<1>3. \A v \in Validator : /\ s[v] \in Nat /\ A * g[v] <= Rewards * s[v]
                           /\ A = 0 => g[v] = 0
  <2> SUFFICES ASSUME NEW v \in Validator
               PROVE  s[v] \in Nat /\ A * g[v] <= Rewards * s[v] /\ (A = 0 => g[v] = 0)
    OBVIOUS
  <2>1. CASE g[v] = 0
    <3>1. stake[v] \in Nat
      BY <1>1
    <3>2. ASSUME NEW k \in Nat PROVE A * 0 <= Rewards * k
      BY <1>1, <1>2, SMT
    <3> QED
      BY <2>1, <3>1, <3>2
  <2>2. CASE g[v] # 0
    <3>1. stake[v] # 0 /\ g[v] = DelegatorReward(v) /\ stake[v] \in Nat
      BY <1>1, <2>2
    <3> QED
      BY <3>1, RewardFacts
  <2> QED
    BY <2>1, <2>2
<1>4. s \in [Validator -> Nat]
  BY <1>1
<1> HIDE DEF A, s
<1>5. SumFunction(g) \in Nat
  BY <1>1, SumIsNat
<1>6. CASE A = 0
  <2>1. SumFunction(g) = 0
    BY <1>1, <1>3, <1>6, SumOfZeros
  <2> QED
    BY <1>1, <2>1
<1>7. CASE A # 0
  <2>1. A * SumFunction(g) <= Rewards * SumFunction(s)
    BY <1>1, <1>2, <1>3, <1>4, SumCompares
  <2>2. ASSUME NEW q \in Nat, A * q <= Rewards * A PROVE q <= Rewards
    <3>1. CASE q >= Rewards + 1
      <4>1. A * q >= A * (Rewards + 1)
        BY <1>1, <1>2, <3>1, SMT
      <4>2. A * (Rewards + 1) = Rewards * A + A
        BY <1>1, <1>2, SMT
      <4>3. Rewards * A \in Nat /\ A * q \in Nat
        BY <1>1, <1>2, SMT
      <4> QED
        BY <1>2, <1>7, <2>2, <4>1, <4>2, <4>3
    <3> QED
      BY <1>1, <3>1
  <2> QED
    BY <1>2, <1>5, <2>1, <2>2
<1> QED
  BY <1>5, <1>6, <1>7

\* distribute_rewards: the pools get at most what this call owes.
LEMMA DistributeStep ==
    ASSUME StakeInv, NEW t \in Thread, DistributeRewards(t)
    PROVE  StakeInv'
<1>1. /\ TypeOK /\ JobsFit /\ QueueFits /\ UnknownIsEmpty
      /\ StakeCovers /\ TotalIsSum /\ DepositsCover /\ PoolsCovered
  BY DEF StakeInv
<1>2. /\ pc[t] = "distribute"
      /\ pools' = [v \in Validator |->
            IF pools[v] = NoPool \/ stake[v] = 0 THEN pools[v] ELSE pools[v] + DelegatorReward(v)]
      /\ Goto(t, "unbond")
      /\ UNCHANGED <<epoch, setEpoch, registered, stake, total, delegations, unbonding, job,
                     deposited, released, minted, queued>>
  BY DEF DistributeRewards, history
<1>3. /\ pc' \in [Thread -> PC] /\ job' \in [Thread -> Job \cup {NoJob}] /\ JobsFit'
      /\ pc'[t] = "unbond" /\ job'[t] = job[t]
      /\ \A u \in Thread \ {t} : pc'[u] = pc[u] /\ job'[u] = job[u]
  <2>1. Fits("unbond", job[t], epoch) /\ "unbond" \in PC
    BY <1>1, <1>2 DEF JobsFit, Fits, PC
  <2> QED
    BY <1>2, <2>1, JobKept
<1> DEFINE f == [v \in Validator |-> IF pools[v] = NoPool THEN 0 ELSE pools[v]]
           g == [v \in Validator |->
                    IF pools[v] = NoPool \/ stake[v] = 0 THEN 0 ELSE DelegatorReward(v)]
           h == [v \in Validator |-> IF pools'[v] = NoPool THEN 0 ELSE pools'[v]]
<1>4. \A v \in Validator : pools[v] \in Nat \cup {NoPool} /\ (stake[v] # 0 => DelegatorReward(v) \in Nat)
  BY <1>1, RewardFacts DEF TypeOK
<1>5. /\ f \in [Validator -> Int] /\ g \in [Validator -> Nat] /\ h \in [Validator -> Int]
      /\ pools' \in [Validator -> Nat \cup {NoPool}]
      /\ \A v \in Validator : h[v] = f[v] + g[v]
      /\ \A v \in Validator : g[v] = 0 \/ (stake[v] # 0 /\ g[v] = DelegatorReward(v))
  <2> HIDE DEF DelegatorReward
  <2>1. /\ f \in [Validator -> Int] /\ g \in [Validator -> Nat]
        /\ \A v \in Validator : g[v] = 0 \/ (stake[v] # 0 /\ g[v] = DelegatorReward(v))
    BY <1>4 DEF NoPool
  <2>2. pools' \in [Validator -> Nat \cup {NoPool}]
    BY <1>2, <1>4 DEF NoPool
  <2>3. \A v \in Validator : h[v] = f[v] + g[v]
    BY <1>2, <1>4 DEF NoPool
  <2>4. h \in [Validator -> Int]
    BY <2>2 DEF NoPool
  <2> QED
    BY <2>1, <2>2, <2>3, <2>4
<1>6. InPools = SumFunction(f) /\ InPools' = SumFunction(h)
  BY DEF InPools
<1> HIDE DEF f, g, h
<1>7. SumFunction(f) \in Int /\ SumFunction(h) = SumFunction(f) + SumFunction(g)
  <2>1. g \in [Validator -> Int]
    BY <1>5
  <2> QED
    BY <1>5, <2>1, StakingAssumption, SumAdds
<1>8. SumFunction(g) \in Nat /\ SumFunction(g) <= Rewards
  BY <1>1, <1>5, SharesBounded
<1>9. TypeOK'
  BY <1>1, <1>2, <1>3, <1>5 DEF TypeOK
<1>10. /\ \A d \in Delegator : InFlight(d)' = InFlight(d)
       /\ \A w \in Validator : MovingTo(w)' = MovingTo(w)
       /\ OwedByAll \in Nat /\ OwedByAll' = OwedByAll - Rewards
  <2>1. /\ \A d \in Delegator : Carried(t, d) = 0 /\ Carried(t, d)' = 0
        /\ \A w \in Validator : Moving(t, w) = 0 /\ Moving(t, w)' = 0
        /\ Owed(t) = Rewards /\ Owed(t)' = 0
    BY <1>2, <1>3 DEF Carried, Moving, Owed
  <2>2. /\ \A d \in Delegator :
             InFlight(d) \in Nat /\ InFlight(d)' = InFlight(d) + Carried(t, d)' - Carried(t, d)
        /\ \A w \in Validator :
             MovingTo(w) \in Nat /\ MovingTo(w)' = MovingTo(w) + Moving(t, w)' - Moving(t, w)
        /\ OwedByAll \in Nat /\ OwedByAll' = OwedByAll + Owed(t)' - Owed(t)
    BY <1>1, <1>3, CallSteps
  <2> QED
    BY StakingAssumption, <2>1, <2>2
<1>11. /\ \A d \in Delegator : DelegatedFrom(d)' = DelegatedFrom(d) /\ Unbonding(d)' = Unbonding(d)
       /\ \A w \in Validator : DelegatedTo(w)' = DelegatedTo(w)
       /\ ActiveStake' = ActiveStake
  BY <1>2, Kept
<1>12. PoolsCovered'
  <2> DEFINE p == InPools
             q == InPools'
             b == OwedByAll
             c == OwedByAll'
  <2>1. /\ p = SumFunction(f) /\ q = SumFunction(h)
        /\ b \in Nat /\ c = b - Rewards /\ p + b <= minted
    BY <1>1, <1>6, <1>10 DEF PoolsCovered
  <2>2. Rewards \in Nat /\ minted \in Nat /\ minted' = minted
    BY <1>1, <1>2, StakingAssumption DEF TypeOK
  <2> HIDE DEF p, q, b, c
  <2>3. q + c <= minted'
    BY <1>7, <1>8, <2>1, <2>2
  <2> QED
    BY <2>3 DEF q, c, PoolsCovered
<1>13. UnknownIsEmpty'
  BY <1>1, <1>2, <1>3 DEF UnknownIsEmpty
<1>14. QueueFits' /\ StakeCovers' /\ TotalIsSum' /\ DepositsCover'
  BY <1>1, <1>2, <1>10, <1>11 DEF QueueFits, StakeCovers, TotalIsSum, DepositsCover
<1> QED
  BY <1>3, <1>9, <1>12, <1>13, <1>14 DEF StakeInv

\* process_unbonding: what leaves the queue is released.
LEMMA ProcessUnbondingStep ==
    ASSUME StakeInv, NEW t \in Thread, ProcessUnbonding(t)
    PROVE  StakeInv'
<1>1. /\ TypeOK /\ JobsFit /\ QueueFits /\ UnknownIsEmpty
      /\ StakeCovers /\ TotalIsSum /\ DepositsCover /\ PoolsCovered
  BY DEF StakeInv
<1> DEFINE done(e) == Completed(e, job[t].epoch)
           k(d) == [e \in unbonding |-> IF e.delegator = d /\ done(e) THEN e.amount ELSE 0]
<1>2. /\ pc[t] = "unbond"
      /\ unbonding' = {e \in unbonding : ~done(e)}
      /\ released' = [d \in Delegator |-> released[d] + SumFunction(k(d))]
      /\ Goto(t, "stamp")
      /\ UNCHANGED <<epoch, setEpoch, registered, stake, total, delegations, pools, job,
                     deposited, minted, queued>>
  BY DEF ProcessUnbonding
<1>3. /\ pc' \in [Thread -> PC] /\ job' \in [Thread -> Job \cup {NoJob}] /\ JobsFit'
      /\ pc'[t] = "stamp" /\ job'[t] = job[t]
      /\ \A u \in Thread \ {t} : pc'[u] = pc[u] /\ job'[u] = job[u]
  <2>1. Fits("stamp", job[t], epoch) /\ "stamp" \in PC
    BY <1>1, <1>2 DEF JobsFit, Fits, PC
  <2> QED
    BY <1>2, <2>1, JobKept
<1>4. /\ IsFiniteSet(unbonding) /\ unbonding' \in SUBSET unbonding
      /\ \A e \in unbonding : e \in UnbondingEntry /\ e.amount \in Nat
  <2>1. unbonding \subseteq UnbondingEntry /\ IsFiniteSet(unbonding)
    BY <1>1 DEF TypeOK, QueueFits
  <2>2. \A e \in UnbondingEntry : e.amount \in Nat
    BY DEF UnbondingEntry
  <2> QED
    BY <1>2, <2>1, <2>2
<1> HIDE DEF done
<1>5. ASSUME NEW d \in Delegator
      PROVE  /\ SumFunction(k(d)) \in Nat /\ Unbonding(d)' \in Int
             /\ Unbonding(d) = SumFunction(k(d)) + Unbonding(d)'
  <2> DEFINE S == unbonding
             T == unbonding'
             f == [e \in S |-> IF e.delegator = d THEN e.amount ELSE 0]
             g == [e \in S |-> IF e.delegator = d /\ done(e) THEN e.amount ELSE 0]
             r == [e \in S |-> IF e.delegator = d /\ ~done(e) THEN e.amount ELSE 0]
             h == [e \in T |-> IF e.delegator = d THEN e.amount ELSE 0]
  <2>1. /\ f \in [S -> Int] /\ g \in [S -> Nat] /\ g \in [S -> Int] /\ r \in [S -> Int]
        /\ \A e \in S : f[e] = g[e] + r[e]
    BY <1>4
  <2>2. h = [e \in T |-> r[e]] /\ T \in SUBSET S /\ \A e \in S \ T : r[e] = 0
    BY <1>2, <1>4
  <2>3. Unbonding(d) = SumFunction(f) /\ Unbonding(d)' = SumFunction(h) /\ k(d) = g
    BY DEF Unbonding
  <2>4. IsFiniteSet(S)
    BY <1>4
  <2> HIDE DEF S, T, f, g, h, r
  <2>5. SumFunction(g) \in Nat
    BY <2>1, <2>4, SumIsNat
  <2>6. SumFunction(f) = SumFunction(g) + SumFunction(r)
    BY <2>1, <2>4, SumAdds
  <2>7. SumFunction(r) \in Int /\ SumFunction(h) = SumFunction(r)
    BY <2>1, <2>2, <2>4, SumRestricts
  <2> HIDE DEF k
  <2> QED
    BY <2>3, <2>5, <2>6, <2>7
<1> HIDE DEF k
<1>6. \A d \in Delegator : released[d] \in Nat /\ released'[d] = released[d] + SumFunction(k(d))
  BY <1>1, <1>2 DEF TypeOK
<1>7. released' \in [Delegator -> Nat]
  <2>1. \A d \in Delegator : released[d] + SumFunction(k(d)) \in Nat
    BY <1>5, <1>6
  <2> QED
    BY <1>2, <2>1
<1>8. TypeOK'
  <2>1. unbonding' \subseteq UnbondingEntry
    BY <1>4
  <2> QED
    BY <1>1, <1>2, <1>3, <1>7, <2>1 DEF TypeOK
<1>9. QueueFits'
  <2>1. IsFiniteSet(unbonding')
    BY <1>4, FS_Subset
  <2> QED
    BY <1>1, <1>2, <1>4, <2>1 DEF QueueFits
<1>10. /\ \A d \in Delegator : InFlight(d)' = InFlight(d)
       /\ \A w \in Validator : MovingTo(w)' = MovingTo(w)
       /\ OwedByAll' = OwedByAll
  <2>1. /\ \A d \in Delegator : Carried(t, d) = 0 /\ Carried(t, d)' = 0
        /\ \A w \in Validator : Moving(t, w) = 0 /\ Moving(t, w)' = 0
        /\ Owed(t) = 0 /\ Owed(t)' = 0
    BY <1>2, <1>3 DEF Carried, Moving, Owed
  <2> QED
    BY <1>1, <1>3, <2>1, CallSteps
<1>11. /\ \A d \in Delegator : DelegatedFrom(d)' = DelegatedFrom(d)
       /\ \A w \in Validator : DelegatedTo(w)' = DelegatedTo(w)
       /\ InPools' = InPools /\ ActiveStake' = ActiveStake
  BY <1>2, Kept
<1>12. DepositsCover'
  <2> SUFFICES ASSUME NEW d \in Delegator
               PROVE  DelegatedFrom(d)' + InFlight(d)' + Unbonding(d)' + released'[d] <= deposited'[d]
    BY DEF DepositsCover
  <2>1. DelegatedFrom(d) + InFlight(d) + Unbonding(d) + released[d] <= deposited[d]
    BY <1>1 DEF DepositsCover
  <2>2. /\ DelegatedFrom(d) \in Nat /\ InFlight(d) \in Nat /\ Unbonding(d) \in Nat
        /\ released[d] \in Nat /\ deposited[d] \in Nat
    BY Numbers
  <2> QED
    BY <1>2, <1>5, <1>6, <1>10, <1>11, <2>1, <2>2
<1>13. UnknownIsEmpty'
  BY <1>1, <1>2, <1>3 DEF UnknownIsEmpty
<1>14. StakeCovers' /\ PoolsCovered' /\ TotalIsSum'
  BY <1>1, <1>2, <1>10, <1>11 DEF StakeCovers, PoolsCovered, TotalIsSum
<1> QED
  BY <1>3, <1>8, <1>9, <1>12, <1>13, <1>14 DEF StakeInv

\* end_epoch: the validator set gets the epoch of this call.
LEMMA StampStep ==
    ASSUME StakeInv, NEW t \in Thread, StampEpoch(t)
    PROVE  StakeInv'
<1>1. /\ TypeOK /\ JobsFit /\ QueueFits /\ UnknownIsEmpty
      /\ StakeCovers /\ TotalIsSum /\ DepositsCover /\ PoolsCovered
  BY DEF StakeInv
<1>2. /\ pc[t] = "stamp" /\ setEpoch' = job[t].epoch
      /\ Goto(t, "idle") /\ job' = [job EXCEPT ![t] = NoJob]
      /\ UNCHANGED <<epoch, registered, stake, total, delegations, unbonding, pools,
                     deposited, released, minted, queued>>
  BY DEF StampEpoch, Return, ledger, history
<1>3. setEpoch' \in 0 .. MaxEpoch
  BY <1>1, <1>2, StakingAssumption DEF JobsFit, Fits, TypeOK
<1>4. /\ pc' \in [Thread -> PC] /\ job' \in [Thread -> Job \cup {NoJob}] /\ JobsFit'
      /\ pc'[t] = "idle"
      /\ \A u \in Thread \ {t} : pc'[u] = pc[u] /\ job'[u] = job[u]
  <2>1. epoch' \in Nat /\ epoch' >= epoch
    BY <1>1, <1>2 DEF TypeOK
  <2> QED
    BY <1>1, <1>2, <2>1, NoJobFits, JobStep
<1>5. TypeOK'
  BY <1>1, <1>2, <1>3, <1>4 DEF TypeOK
<1>6. /\ \A d \in Delegator : InFlight(d)' = InFlight(d)
      /\ \A w \in Validator : MovingTo(w)' = MovingTo(w)
      /\ OwedByAll' = OwedByAll
  <2>1. /\ \A d \in Delegator : Carried(t, d) = 0 /\ Carried(t, d)' = 0
        /\ \A w \in Validator : Moving(t, w) = 0 /\ Moving(t, w)' = 0
        /\ Owed(t) = 0 /\ Owed(t)' = 0
    BY <1>2, <1>4 DEF Carried, Moving, Owed
  <2> QED
    BY <1>1, <1>4, <2>1, CallSteps
<1>7. /\ \A d \in Delegator : DelegatedFrom(d)' = DelegatedFrom(d) /\ Unbonding(d)' = Unbonding(d)
      /\ \A w \in Validator : DelegatedTo(w)' = DelegatedTo(w)
      /\ InPools' = InPools /\ ActiveStake' = ActiveStake
  BY <1>2, Kept
<1>8. UnknownIsEmpty'
  BY <1>1, <1>2, <1>4 DEF UnknownIsEmpty
<1>9. QueueFits' /\ StakeCovers' /\ TotalIsSum' /\ DepositsCover' /\ PoolsCovered'
  BY <1>1, <1>2, <1>6, <1>7 DEF QueueFits, StakeCovers, TotalIsSum, DepositsCover, PoolsCovered
<1> QED
  BY <1>4, <1>5, <1>8, <1>9 DEF StakeInv

LEMMA StakeStutter == StakeInv /\ UNCHANGED vars => StakeInv'
<1> SUFFICES ASSUME StakeInv, UNCHANGED vars PROVE StakeInv'
  OBVIOUS
<1>1. /\ TypeOK /\ JobsFit /\ QueueFits /\ UnknownIsEmpty
      /\ StakeCovers /\ TotalIsSum /\ DepositsCover /\ PoolsCovered
  BY DEF StakeInv
<1>2. UNCHANGED <<epoch, setEpoch, registered, stake, total, delegations, unbonding, pools, pc, job,
                  deposited, released, minted, queued>>
  BY DEF vars, ledger, history
<1>3. /\ \A d \in Delegator : InFlight(d)' = InFlight(d)
      /\ \A w \in Validator : MovingTo(w)' = MovingTo(w)
      /\ OwedByAll' = OwedByAll
  BY <1>2 DEF InFlight, MovingTo, Moving, OwedByAll, Owed
<1>4. /\ \A d \in Delegator : DelegatedFrom(d)' = DelegatedFrom(d) /\ Unbonding(d)' = Unbonding(d)
      /\ \A w \in Validator : DelegatedTo(w)' = DelegatedTo(w)
      /\ InPools' = InPools /\ ActiveStake' = ActiveStake
  BY <1>2, Kept
<1>5. TypeOK' /\ QueueFits' /\ UnknownIsEmpty'
  BY <1>1, <1>2 DEF TypeOK, QueueFits, UnknownIsEmpty
<1>6. JobsFit'
  BY <1>1, <1>2 DEF JobsFit
<1>7. StakeCovers' /\ TotalIsSum' /\ DepositsCover' /\ PoolsCovered'
  BY <1>1, <1>2, <1>3, <1>4 DEF StakeCovers, TotalIsSum, DepositsCover, PoolsCovered
<1> QED
  BY <1>5, <1>6, <1>7 DEF StakeInv

\* Nothing is staked, delegated, waiting or owed.
LEMMA StakeInit == Init => StakeInv
<1> SUFFICES ASSUME Init PROVE StakeInv
  OBVIOUS
<1>1. TypeOK
  BY StakingAssumption DEF Init, TypeOK, PC
<1>2. JobsFit /\ QueueFits /\ UnknownIsEmpty
  BY FS_EmptySet DEF Init, JobsFit, Fits, QueueFits, UnknownIsEmpty
<1>3. \A d \in Delegator, v \in Validator : SumFunction(delegations[d][v]) = 0
  <2>1. << >> \in Seq(Nat)
    OBVIOUS
  <2>2. SumFunction(<< >>) = 0
    BY <2>1, ListFacts
  <2> QED
    BY <2>2 DEF Init
<1>4. ASSUME NEW v \in Validator PROVE DelegatedTo(v) = 0 /\ MovingTo(v) = 0
  <2> DEFINE f == [d \in Delegator |-> SumFunction(delegations[d][v])]
             h == [t \in Thread |-> Moving(t, v)]
  <2>1. DOMAIN f = Delegator /\ \A d \in Delegator : f[d] = 0
    BY <1>3
  <2>2. DOMAIN h = Thread /\ \A t \in Thread : h[t] = 0
    BY DEF Init, Moving
  <2>3. DelegatedTo(v) = SumFunction(f) /\ MovingTo(v) = SumFunction(h)
    BY DEF DelegatedTo, ColumnSum, MovingTo
  <2> HIDE DEF f, h
  <2> QED
    BY <2>1, <2>2, <2>3, SumOfZeros, StakingAssumption
<1>5. ASSUME NEW d \in Delegator PROVE DelegatedFrom(d) = 0 /\ InFlight(d) = 0 /\ Unbonding(d) = 0
  <2> DEFINE f == [v \in Validator |-> SumFunction(delegations[d][v])]
             h == [t \in Thread |-> Carried(t, d)]
             g == [e \in unbonding |-> IF e.delegator = d THEN e.amount ELSE 0]
  <2>1. DOMAIN f = Validator /\ \A v \in Validator : f[v] = 0
    BY <1>3
  <2>2. DOMAIN h = Thread /\ \A t \in Thread : h[t] = 0
    BY DEF Init, Carried
  <2>3. DOMAIN g = {} /\ IsFiniteSet({}) /\ \A e \in {} : g[e] = 0
    BY FS_EmptySet DEF Init
  <2>4. /\ DelegatedFrom(d) = SumFunction(f) /\ InFlight(d) = SumFunction(h)
        /\ Unbonding(d) = SumFunction(g)
    BY DEF DelegatedFrom, RowSum, InFlight, Carried, Unbonding
  <2> HIDE DEF f, g, h
  <2> QED
    BY <2>1, <2>2, <2>3, <2>4, SumOfZeros, StakingAssumption
<1>6. InPools = 0 /\ OwedByAll = 0 /\ ActiveStake = 0
  <2> DEFINE f == [v \in Validator |-> IF pools[v] = NoPool THEN 0 ELSE pools[v]]
             h == [t \in Thread |-> Owed(t)]
             g == stake
  <2>1. DOMAIN f = Validator /\ \A v \in Validator : f[v] = 0
    BY DEF Init
  <2>2. DOMAIN h = Thread /\ \A t \in Thread : h[t] = 0
    BY DEF Init, Owed
  <2>3. DOMAIN g = Validator /\ \A v \in Validator : g[v] = 0
    BY DEF Init
  <2>4. InPools = SumFunction(f) /\ OwedByAll = SumFunction(h) /\ ActiveStake = SumFunction(g)
    BY DEF InPools, OwedByAll, ActiveStake
  <2> HIDE DEF f, g, h
  <2> QED
    BY <2>1, <2>2, <2>3, <2>4, SumOfZeros, StakingAssumption
<1>7. StakeCovers
  BY DEF Init, StakeCovers
<1>8. TotalIsSum /\ DepositsCover /\ PoolsCovered
  BY <1>5, <1>6 DEF Init, TotalIsSum, DepositsCover, PoolsCovered
<1> QED
  BY <1>1, <1>2, <1>7, <1>8 DEF StakeInv

LEMMA StakeStep == StakeInv /\ [Next]_vars => StakeInv'
<1> SUFFICES ASSUME StakeInv, [Next]_vars PROVE StakeInv'
  OBVIOUS
<1>1. CASE UNCHANGED vars
  BY <1>1, StakeStutter
<1>2. CASE Next
  <2>1. PICK t \in Thread :
           \/ \E v \in Validator : RegisterValidator(t, v)
           \/ InitPool(t)
           \/ \E d \in Delegator, v \in Validator, a \in Amount :
                 Delegate(t, d, v, a) \/ Undelegate(t, d, v, a)
           \/ RecordDelegation(t) \/ Unstake(t) \/ QueueUnbonding(t) \/ EndEpoch(t)
           \/ DistributeRewards(t) \/ ProcessUnbonding(t) \/ StampEpoch(t) \/ Refused(t)
    BY <1>2, Zenon DEF Next
  <2>2. CASE \E v \in Validator : RegisterValidator(t, v)
    BY <2>2, RegisterStep
  <2>3. CASE InitPool(t)
    BY <2>3, InitPoolStep
  <2>4. ASSUME NEW d \in Delegator, NEW v \in Validator, NEW a \in Amount,
               Delegate(t, d, v, a) \/ Undelegate(t, d, v, a)
        PROVE  StakeInv'
    BY <2>4, DelegateStep, UndelegateStep
  <2>5. CASE RecordDelegation(t)
    BY <2>5, RecordStep
  <2>6. CASE Unstake(t)
    BY <2>6, UnstakeStep
  <2>7. CASE QueueUnbonding(t)
    BY <2>7, QueueStep
  <2>8. CASE EndEpoch(t)
    BY <2>8, EndEpochStep
  <2>9. CASE DistributeRewards(t)
    BY <2>9, DistributeStep
  <2>10. CASE ProcessUnbonding(t)
    BY <2>10, ProcessUnbondingStep
  <2>11. CASE StampEpoch(t)
    BY <2>11, StampStep
  <2>12. CASE Refused(t)
    BY <2>12, StakeStutter DEF Refused
  <2> QED
    BY <2>1, <2>2, <2>3, <2>4, <2>5, <2>6, <2>7, <2>8, <2>9, <2>10, <2>11, <2>12
<1> QED
  BY <1>1, <1>2

LEMMA StakeInvariant == Spec => []StakeInv
BY StakeInit, StakeStep, PTL DEF Spec

-----------------------------------------------------------------------------
(* The theorems *)

\* Whatever calls run at the same time, the stake of an address that registered
\* once covers its own stake and the delegations to it, and the total is the sum
\* of the stakes (delegate, undelegate, register_validator of pos.rs).
THEOREM StakeAccountedProved == Spec => []StakeIsAccounted
<1>1. StakeInv => StakeIsAccounted
  <2> SUFFICES ASSUME StakeInv PROVE StakeIsAccounted
    OBVIOUS
  <2>1. ASSUME NEW v \in Validator, registered[v] = 1
        PROVE  stake[v] >= SelfStake[v] + SumFunction([d \in Delegator |-> DelegatedBy(d, v)])
    <3>1. stake[v] >= SelfStake[v] + DelegatedTo(v) + MovingTo(v)
      BY <2>1 DEF StakeInv, StakeCovers
    <3>2. SelfStake[v] \in Nat /\ DelegatedTo(v) \in Nat /\ MovingTo(v) \in Nat /\ stake[v] \in Nat
      BY Numbers
    <3>3. DelegatedTo(v) = SumFunction([d \in Delegator |-> DelegatedBy(d, v)])
      BY DEF DelegatedTo, ColumnSum, DelegatedBy
    <3>4. stake[v] >= SelfStake[v] + DelegatedTo(v)
      BY <3>1, <3>2
    <3> QED
      BY <3>3, <3>4
  <2> QED
    BY <2>1 DEF StakeInv, StakeIsAccounted, DelegationsAreBacked
<1> QED
  BY <1>1, StakeInvariant, PTL

\* No delegator gets more than it deposited, also while undelegate is between
\* its locks, and the pools no more than the epochs' rewards (undelegate,
\* distribute_rewards and process_unbonding of pos.rs).
THEOREM NoGainProved == Spec => []NoGain
<1>1. StakeInv => NoGain
  <2> SUFFICES ASSUME StakeInv PROVE NoGain
    OBVIOUS
  <2>1. NothingCreated
    BY DEF StakeInv, DepositsCover, NothingCreated, DelegatedFrom, RowSum, DelegatedBy
  <2>2. InPools <= minted
    <3> DEFINE p == InPools
               b == OwedByAll
    <3>1. p \in Nat /\ b \in Nat /\ minted \in Nat /\ p + b <= minted
      BY Numbers DEF StakeInv, PoolsCovered
    <3> HIDE DEF p, b
    <3>2. p <= minted
      BY <3>1
    <3> QED
      BY <3>2 DEF p
  <2> QED
    BY <2>1, <2>2 DEF NoGain, RewardsAreBounded, InPools
<1> QED
  BY <1>1, StakeInvariant, PTL

\* An amount leaves the queue only UnbondingPeriod epochs after undelegate was
\* called, whatever end_epoch does between the steps of that call.
THEOREM UnbondingProved == Spec => UnbondingTakesItsTime
<1>1. ASSUME StakeInv, [Next]_vars
      PROVE  [\A e \in unbonding \ unbonding' : e.since + UnbondingPeriod <= epoch]_vars
  <2> SUFFICES ASSUME NEW e \in unbonding, e \notin unbonding'
               PROVE  e.since + UnbondingPeriod <= epoch
    OBVIOUS
  <2>1. PICK t \in Thread : ProcessUnbonding(t)
    <3>1. Next
      BY <1>1 DEF vars, ledger
    <3>2. PICK t \in Thread :
             \/ \E v \in Validator : RegisterValidator(t, v)
             \/ InitPool(t)
             \/ \E d \in Delegator, v \in Validator, a \in Amount :
                   Delegate(t, d, v, a) \/ Undelegate(t, d, v, a)
             \/ RecordDelegation(t) \/ Unstake(t) \/ QueueUnbonding(t) \/ EndEpoch(t)
             \/ DistributeRewards(t) \/ ProcessUnbonding(t) \/ StampEpoch(t) \/ Refused(t)
      BY <3>1, Zenon DEF Next
    <3>3. ~(\E v \in Validator : RegisterValidator(t, v)) /\ ~InitPool(t)
      BY DEF RegisterValidator, InitPool
    <3>4. \A d \in Delegator, v \in Validator, a \in Amount :
             ~Delegate(t, d, v, a) /\ ~Undelegate(t, d, v, a)
      BY DEF Delegate, Undelegate
    <3>5. ~RecordDelegation(t) /\ ~Unstake(t) /\ ~DistributeRewards(t)
      BY DEF RecordDelegation, Unstake, DistributeRewards
    <3>6. ~QueueUnbonding(t) /\ ~EndEpoch(t) /\ ~StampEpoch(t) /\ ~Refused(t)
      BY DEF QueueUnbonding, EndEpoch, StampEpoch, Refused, vars, ledger
    <3> QED
      BY <3>2, <3>3, <3>4, <3>5, <3>6
  <2>2. e.completion <= job[t].epoch /\ pc[t] = "unbond"
    BY <2>1 DEF ProcessUnbonding, Completed
  <2>3. job[t].epoch \in Nat /\ job[t].epoch <= epoch
    BY <1>1, <2>2 DEF StakeInv, JobsFit, Fits
  <2>4. e.since + UnbondingPeriod <= e.completion
    BY <1>1 DEF StakeInv, QueueFits
  <2>5. e.since \in Nat /\ e.completion \in Nat /\ epoch \in Nat /\ UnbondingPeriod \in Nat
    BY <1>1, StakingAssumption DEF StakeInv, TypeOK, UnbondingEntry
  <2> QED
    BY <2>2, <2>3, <2>4, <2>5
<1> QED
  BY <1>1, StakeInvariant, PTL DEF Spec, UnbondingTakesItsTime
=============================================================================
