--------------------------- MODULE ExecutorProofs ---------------------------
(***************************************************************************)
(* What holds of transaction execution for every set of accounts, every    *)
(* genesis state, every set of transactions and every gas schedule: no     *)
(* token is created, no transaction is executed twice, and a message call  *)
(* stays within its limit and costs what its receipt says; refunds are     *)
(* covered and the base fee is bounded; reverting the journal or a         *)
(* checkpoint restores the state; precompiles are paid for and exact.      *)
(***************************************************************************)
EXTENDS Executor, Gas, Journal, Checkpoints, Precompiles, SequenceTheorems, Sums

\* No sender has code, so no execution runs at its address or deletes it.
Clean(A) == \A s \in Senders : A[s].code = NoCode

\* T has the tokens of S, if these are a U256, and no sender's nonce went back.
Keeps(S, T) ==
    /\ T \in StateRecord
    /\ Sum(S.acct) < U256 => Sum(T.acct) = Sum(S.acct)
    /\ Clean(T.acct)
    /\ \A s \in Senders : T.acct[s].nonce >= S.acct[s].nonce

LEMMA SendersAreAddresses == Senders \subseteq Address
BY ExecutorAssumption DEF Senders, TxRecord

\* One account replaced by another: the sum changes by the difference.
LEMMA ReplaceAccount ==
    ASSUME NEW A \in [Address -> Account], NEW x \in Address, NEW a \in Account
    PROVE  LET B == [A EXCEPT ![x] = a]
           IN B \in [Address -> Account] /\ Sum(A) \in Int
              /\ Sum(B) = Sum(A) + a.balance - A[x].balance
<1> DEFINE B == [A EXCEPT ![x] = a]
           f == [y \in Address |-> A[y].balance]
           h == [y \in Address |-> B[y].balance]
<1>1. B \in [Address -> Account] /\ B[x] = a /\ \A y \in Address \ {x} : B[y] = A[y]
  OBVIOUS
<1> HIDE DEF B
<1>2. f \in [Address -> Int] /\ h \in [Address -> Int]
  BY <1>1 DEF Account
<1>3. \A y \in Address \ {x} : h[y] = f[y]
  BY <1>1
<1>4. f[x] = A[x].balance /\ h[x] = a.balance
  BY <1>1
<1>5. Sum(A) = SumFunction(f) /\ Sum(B) = SumFunction(h)
  BY DEF Sum
<1> HIDE DEF f, h
<1>6. SumFunction(f) \in Int /\ SumFunction(h) = SumFunction(f) + h[x] - f[x]
  BY <1>2, <1>3, SumChanges, ExecutorAssumption
<1> QED
  BY <1>1, <1>4, <1>5, <1>6 DEF B

\* add_balance and sub_balance touch one balance.
LEMMA AddToFacts ==
    ASSUME NEW A \in [Address -> Account], NEW x \in Address, NEW v \in Int,
           A[x].balance + v >= 0
    PROVE  LET B == AddTo(A, x, v)
           IN /\ B \in [Address -> Account] /\ Sum(A) \in Int
              /\ Sum(B) = Sum(A) + v
              /\ B[x].balance = A[x].balance + v
              /\ \A y \in Address \ {x} : B[y] = A[y]
              /\ \A y \in Address : B[y].nonce = A[y].nonce /\ B[y].code = A[y].code
<1> DEFINE a == [nonce |-> A[x].nonce, balance |-> A[x].balance + v, code |-> A[x].code]
<1>1. a \in Account
  BY DEF Account
<1>2. AddTo(A, x, v) = [A EXCEPT ![x] = a]
  <2>1. A[x] = [nonce |-> A[x].nonce, balance |-> A[x].balance, code |-> A[x].code]
    BY DEF Account
  <2>2. [A[x] EXCEPT !.balance = @ + v] = a
    BY <2>1
  <2>3. AddTo(A, x, v) = [A EXCEPT ![x] = [A[x] EXCEPT !.balance = @ + v]]
    BY DEF AddTo
  <2> QED
    BY <2>2, <2>3
<1>3. /\ [A EXCEPT ![x] = a] \in [Address -> Account] /\ Sum(A) \in Int
      /\ Sum([A EXCEPT ![x] = a]) = Sum(A) + a.balance - A[x].balance
  BY <1>1, ReplaceAccount
<1>4. A[x].balance \in Int
  BY DEF Account
<1> QED
  BY <1>2, <1>3, <1>4

\* A transfer the sender can afford moves tokens and nothing else.
LEMMA TransferFacts ==
    ASSUME NEW S \in StateRecord, NEW from \in Address, NEW to \in Address, NEW v \in Nat,
           S.acct[from].balance >= v
    PROVE  LET T == Transfer(S, from, to, v)
           IN /\ T \in StateRecord /\ T.store = S.store
              /\ Sum(T.acct) = Sum(S.acct)
              /\ \A x \in Address : T.acct[x].nonce = S.acct[x].nonce /\ T.acct[x].code = S.acct[x].code
              /\ \A x \in Address \ {from, to} : T.acct[x] = S.acct[x]
              /\ from # to => T.acct[to].balance = S.acct[to].balance + v
<1> DEFINE A == S.acct
           B == AddTo(A, from, -v)
           C == AddTo(B, to, v)
<1>1. A \in [Address -> Account] /\ A[from].balance \in Nat /\ -v \in Int /\ A[from].balance + (-v) >= 0
  BY DEF StateRecord, Account
<1> HIDE DEF A
<1>2. /\ B \in [Address -> Account] /\ Sum(A) \in Int /\ Sum(B) = Sum(A) + (-v)
      /\ \A y \in Address \ {from} : B[y] = A[y]
      /\ \A y \in Address : B[y].nonce = A[y].nonce /\ B[y].code = A[y].code
  BY <1>1, AddToFacts
<1>3. B[to].balance \in Nat /\ B[to].balance + v >= 0
  BY <1>2 DEF Account
<1> HIDE DEF B
<1>4. /\ C \in [Address -> Account] /\ Sum(B) \in Int /\ Sum(C) = Sum(B) + v
      /\ C[to].balance = B[to].balance + v /\ \A y \in Address \ {to} : C[y] = B[y]
      /\ \A y \in Address : C[y].nonce = B[y].nonce /\ C[y].code = B[y].code
  BY <1>2, <1>3, AddToFacts
<1>5. Sum(C) = Sum(A)
  BY <1>2, <1>4
<1> HIDE DEF C
<1>6. Transfer(S, from, to, v) = [S EXCEPT !.acct = C]
  BY DEF Transfer, A, B, C
<1>7. S = [acct |-> A, store |-> S.store] /\ S.store \in [Address -> 0 .. 1]
  BY DEF StateRecord, A
<1>8. Transfer(S, from, to, v) = [acct |-> C, store |-> S.store]
  BY <1>6, <1>7
<1> QED
  BY <1>2, <1>4, <1>5, <1>7, <1>8 DEF StateRecord, A

\* Keeping tokens and nonces is transitive.
LEMMA KeepsOn ==
    ASSUME NEW R \in StateRecord, NEW S \in StateRecord, NEW T, Keeps(R, S), Keeps(S, T)
    PROVE  Keeps(R, T)
<1>1. \A s \in Senders : R.acct[s].nonce \in Int /\ S.acct[s].nonce \in Int /\ T.acct[s].nonce \in Int
  BY SendersAreAddresses DEF Keeps, StateRecord, Account
<1> QED
  BY <1>1 DEF Keeps

\* Setting one account of a sender's map to an account of the same balance.
LEMMA SetAccount ==
    ASSUME NEW S \in StateRecord, Clean(S.acct), NEW x \in Address, NEW a \in Account,
           a.balance = S.acct[x].balance, x \in Senders => a.code = NoCode /\ a.nonce >= S.acct[x].nonce
    PROVE  Keeps(S, [S EXCEPT !.acct[x] = a]) /\ [S EXCEPT !.acct[x] = a].acct = [S.acct EXCEPT ![x] = a]
<1> DEFINE A == S.acct
           B == [A EXCEPT ![x] = a]
<1>1. A \in [Address -> Account] /\ A[x].balance \in Nat /\ S = [acct |-> A, store |-> S.store]
      /\ S.store \in [Address -> 0 .. 1]
  BY DEF StateRecord, Account
<1>2. [S EXCEPT !.acct[x] = a] = [acct |-> B, store |-> S.store]
  BY <1>1
<1>3. B \in [Address -> Account] /\ Sum(A) \in Int /\ Sum(B) = Sum(A) + a.balance - A[x].balance
  BY <1>1, ReplaceAccount
<1>4. Sum(B) = Sum(A)
  BY <1>1, <1>3
<1>5. \A s \in Senders : B[s].code = NoCode /\ B[s].nonce >= A[s].nonce
  BY <1>1, SendersAreAddresses DEF Clean, Account
<1> HIDE DEF B
<1>6. Keeps(S, [acct |-> B, store |-> S.store])
  BY <1>1, <1>3, <1>4, <1>5 DEF Keeps, StateRecord, Clean
<1> QED
  BY <1>2, <1>6 DEF B

\* A transfer within a supply that is a U256 fits.
LEMMA TransferFits ==
    ASSUME NEW S \in StateRecord, NEW from \in Address, NEW to \in Address, NEW v \in Nat,
           S.acct[from].balance >= v, from # to, Sum(S.acct) < U256
    PROVE  Fits(S.acct, to, v)
<1> DEFINE T == Transfer(S, from, to, v)
           f == [x \in Address |-> T.acct[x].balance]
<1>1. T \in StateRecord /\ Sum(T.acct) = Sum(S.acct) /\ T.acct[to].balance = S.acct[to].balance + v
  BY TransferFacts
<1> HIDE DEF T
<1>2. f \in [Address -> Nat] /\ f[to] = T.acct[to].balance /\ Sum(T.acct) = SumFunction(f)
  BY <1>1 DEF StateRecord, Account, Sum
<1> HIDE DEF f
<1>3. SumFunction(f) \in Nat /\ f[to] <= SumFunction(f)
  BY <1>2, SumIsNat, ExecutorAssumption
<1>4. f[to] \in Nat /\ U256 \in Nat
  BY <1>2, ExecutorAssumption
<1> QED
  BY <1>1, <1>2, <1>3, <1>4 DEF Fits

\* A successful execution at an address that is no sender's: whatever storage
\* it writes and whether or not it deletes the contract, the tokens are kept.
LEMMA TouchedKeeps ==
    ASSUME NEW S \in StateRecord, Clean(S.acct), NEW from \in Address, NEW to \in Address \ Senders,
           NEW v \in Nat, S.acct[from].balance >= v, NEW U \in Touched(S, from, to, v)
    PROVE  Keeps(S, U) /\ \A x \in Address \ {from, to} : U.acct[x] = S.acct[x]
<1> DEFINE T == Transfer(S, from, to, v)
<1>1. /\ T \in StateRecord /\ T.store = S.store /\ Sum(T.acct) = Sum(S.acct)
      /\ \A x \in Address : T.acct[x].nonce = S.acct[x].nonce /\ T.acct[x].code = S.acct[x].code
      /\ \A x \in Address \ {from, to} : T.acct[x] = S.acct[x]
  BY TransferFacts
<1>2. U \in {T, [T EXCEPT !.store[to] = 1]}
      \/ (/\ from # to
          /\ U = [acct |-> [Transfer(T, to, from, T.acct[to].balance).acct EXCEPT ![to] = Empty],
                  store |-> [T.store EXCEPT ![to] = 0]])
  BY DEF Touched
<1> HIDE DEF T
<1>3. /\ T = [acct |-> T.acct, store |-> T.store]
      /\ T.acct \in [Address -> Account] /\ T.store \in [Address -> 0 .. 1]
      /\ \A s \in Senders : S.acct[s].nonce \in Int
  BY <1>1, SendersAreAddresses DEF StateRecord, Account
<1>4. Keeps(S, T)
  BY <1>1, <1>3, SendersAreAddresses DEF Keeps, Clean
<1>5. CASE U = [T EXCEPT !.store[to] = 1]
  <2>1. U = [acct |-> T.acct, store |-> [T.store EXCEPT ![to] = 1]]
    BY <1>3, <1>5
  <2>2. [T.store EXCEPT ![to] = 1] \in [Address -> 0 .. 1]
    BY <1>3
  <2> QED
    BY <1>1, <1>3, <1>4, <2>1, <2>2 DEF Keeps, StateRecord
<1>6. CASE /\ from # to
           /\ U = [acct |-> [Transfer(T, to, from, T.acct[to].balance).acct EXCEPT ![to] = Empty],
                   store |-> [T.store EXCEPT ![to] = 0]]
  <2> DEFINE b == T.acct[to].balance
             V == Transfer(T, to, from, b)
             W == [V.acct EXCEPT ![to] = Empty]
  <2>1. b \in Nat /\ b >= b
    BY <1>3 DEF Account
  <2>2. /\ V \in StateRecord /\ Sum(V.acct) = Sum(T.acct)
        /\ \A x \in Address : V.acct[x].nonce = T.acct[x].nonce /\ V.acct[x].code = T.acct[x].code
        /\ \A x \in Address \ {from, to} : V.acct[x] = T.acct[x]
    BY <1>1, <2>1, TransferFacts
  <2>3. V.acct[to].balance = 0
    <3>1. V.acct = AddTo(AddTo(T.acct, to, -b), from, b)
      BY <1>3 DEF Transfer
    <3>2. -b \in Int /\ T.acct[to].balance + (-b) >= 0 /\ T.acct[to].balance + (-b) = 0
      BY <2>1
    <3> DEFINE X == AddTo(T.acct, to, -b)
    <3>3. X \in [Address -> Account] /\ X[to].balance = 0
      BY <1>3, <3>2, AddToFacts
    <3> HIDE DEF X
    <3>4. X[from].balance + b >= 0
      BY <2>1, <3>3 DEF Account
    <3>5. AddTo(X, from, b)[to] = X[to]
      BY <1>6, <2>1, <3>3, <3>4, AddToFacts
    <3> QED
      BY <3>1, <3>3, <3>5 DEF X
  <2>4. Empty \in Account /\ Empty.balance = 0
    BY DEF Empty, Account
  <2>5. V.acct \in [Address -> Account]
    BY <2>2 DEF StateRecord
  <2> HIDE DEF V, b
  <2>6. W \in [Address -> Account] /\ Sum(V.acct) \in Int
        /\ Sum(W) = Sum(V.acct) + Empty.balance - V.acct[to].balance
    BY <2>4, <2>5, ReplaceAccount
  <2>7. Sum(W) = Sum(S.acct)
    BY <1>1, <2>2, <2>3, <2>4, <2>6
  <2>8. /\ \A s \in Senders : W[s] = V.acct[s]
        /\ \A x \in Address \ {from, to} : W[x] = S.acct[x]
    BY <1>1, <2>2, <2>5, SendersAreAddresses
  <2>9. \A s \in Senders : W[s].code = NoCode /\ W[s].nonce >= S.acct[s].nonce
    BY <1>1, <1>3, <2>2, <2>8, SendersAreAddresses DEF Clean
  <2>10. [T.store EXCEPT ![to] = 0] \in [Address -> 0 .. 1]
    BY <1>3
  <2>11. U = [acct |-> W, store |-> [T.store EXCEPT ![to] = 0]]
    BY <1>6 DEF V, b
  <2> HIDE DEF W
  <2> QED
    BY <2>6, <2>7, <2>8, <2>9, <2>10, <2>11 DEF Keeps, StateRecord, Clean
<1> QED
  BY <1>1, <1>2, <1>4, <1>5, <1>6

\* What is known of a result r of an execution in state S with a limit.
Outcome(S, from, limit, pays, r) ==
    /\ r.kind \in {"ok", "revert", "err"}
    /\ Keeps(S, r.s)
    /\ \A x \in Address \ r.wrote : r.s.acct[x] = S.acct[x]
    /\ r.kind # "err" => r.gas \in 0 .. limit /\ r.refund \in 0 .. r.gas
    /\ r.kind = "revert" =>
         /\ r.refund = 0 /\ r.wrote = {from} \cup pays
         /\ r.s = [S EXCEPT !.acct[from].nonce = @ + 1]

\* The bumped nonce of the caller.
LEMMA NonceBump ==
    ASSUME NEW S \in StateRecord, Clean(S.acct), NEW from \in Address
    PROVE  LET B == [S EXCEPT !.acct[from].nonce = @ + 1]
           IN /\ Keeps(S, B) /\ B.store = S.store
              /\ \A x \in Address : B.acct[x].balance = S.acct[x].balance /\ B.acct[x].code = S.acct[x].code
              /\ \A x \in Address \ {from} : B.acct[x] = S.acct[x]
<1> DEFINE o == S.acct[from]
           a == [nonce |-> o.nonce + 1, balance |-> o.balance, code |-> o.code]
           B == [S EXCEPT !.acct[from].nonce = @ + 1]
<1>1. /\ S = [acct |-> S.acct, store |-> S.store] /\ S.acct \in [Address -> Account]
      /\ o = [nonce |-> o.nonce, balance |-> o.balance, code |-> o.code] /\ a \in Account
      /\ o.nonce \in Nat
  BY DEF StateRecord, Account
<1>2. [o EXCEPT !.nonce = @ + 1] = a
  BY <1>1
<1>3. B = [S EXCEPT !.acct[from] = a]
  BY <1>2
<1>4. from \in Senders => a.code = NoCode /\ a.nonce >= S.acct[from].nonce
  BY <1>1 DEF Clean
<1>5. Keeps(S, B) /\ B.acct = [S.acct EXCEPT ![from] = a]
  <2> HIDE DEF a, B
  <2>1. a.balance = S.acct[from].balance
    BY DEF a
  <2> QED
    BY <1>1, <1>3, <1>4, <2>1, SetAccount
<1>6. B.store = S.store
  BY <1>1, <1>3
<1> HIDE DEF B
<1> QED
  BY <1>1, <1>5, <1>6 DEF B

\* The interpreter at an address that is no sender's.
LEMMA RunCodeFacts ==
    ASSUME NEW S \in StateRecord, Clean(S.acct), NEW from \in Address, NEW to \in Address \ Senders,
           NEW v \in Nat, NEW gas \in Int, NEW pays, NEW r \in RunCode(S, from, to, v, gas, pays)
    PROVE  Outcome(S, from, gas, pays, r) /\ (r.kind = "ok" => to \in r.wrote)
<1> USE ExecutorAssumption
<1> DEFINE B == [S EXCEPT !.acct[from].nonce = @ + 1]
<1>0. Keeps(S, S)
  BY SendersAreAddresses DEF Keeps, StateRecord, Account
<1>1. CASE gas < CallBase \/ S.acct[from].balance < v
  BY <1>0, <1>1 DEF RunCode, Result, Outcome
<1>2. CASE ~(gas < CallBase \/ S.acct[from].balance < v)
  <2>1. /\ Keeps(S, B) /\ B.store = S.store
        /\ \A x \in Address : B.acct[x].balance = S.acct[x].balance /\ B.acct[x].code = S.acct[x].code
        /\ \A x \in Address \ {from} : B.acct[x] = S.acct[x]
    BY NonceBump
  <2>2. \/ \E g \in {CallBase, gas} : r = Result("revert", g, 0, B, {from} \cup pays)
        \/ \E g \in {CallBase, gas}, f \in Refunds, T \in Touched(B, from, to, v) :
              r = Result("ok", g, f, T, {from, to} \cup pays)
    <3> DEFINE W == {from} \cup pays
               X == {from, to} \cup pays
               F(g) == Result("revert", g, 0, B, W)
               G(g, f, T) == Result("ok", g, f, T, X)
    <3>1. RunCode(S, from, to, v, gas, pays) =
            {F(g) : g \in {CallBase, gas}}
               \cup {G(g, f, T) : g \in {CallBase, gas}, f \in Refunds, T \in Touched(B, from, to, v)}
      BY <1>2 DEF RunCode
    <3> HIDE DEF F, G, B
    <3>2. \/ \E g \in {CallBase, gas} : r = F(g)
          \/ \E g \in {CallBase, gas}, f \in Refunds, T \in Touched(B, from, to, v) : r = G(g, f, T)
      BY <3>1
    <3> QED
      BY <3>2 DEF F, G
  <2> HIDE DEF B
  <2>3. ASSUME NEW g \in {CallBase, gas}, r = Result("revert", g, 0, B, {from} \cup pays)
        PROVE  Outcome(S, from, gas, pays, r) /\ r.kind = "revert"
    <3>1. /\ r.kind = "revert" /\ r.gas = g /\ r.refund = 0 /\ r.s = B /\ r.wrote = {from} \cup pays
      BY <2>3 DEF Result
    <3>2. g \in 0 .. gas /\ 0 \in 0 .. g
      BY <1>2
    <3>3. from \in r.wrote
      BY <3>1
    <3> QED
      BY <2>1, <3>1, <3>2, <3>3 DEF Outcome, B
  <2>4. ASSUME NEW g \in {CallBase, gas}, NEW f \in Refunds, NEW T \in Touched(B, from, to, v),
               r = Result("ok", g, f, T, {from, to} \cup pays)
        PROVE  Outcome(S, from, gas, pays, r) /\ to \in r.wrote
    <3>1. B \in StateRecord /\ Clean(B.acct)
      BY <2>1 DEF Keeps
    <3>2. B.acct[from].balance >= v
      BY <1>2, <2>1 DEF StateRecord, Account
    <3>3. Keeps(B, T) /\ \A x \in Address \ {from, to} : T.acct[x] = B.acct[x]
      BY <3>1, <3>2, TouchedKeeps
    <3>4. Keeps(S, T)
      BY <2>1, <3>1, <3>3, KeepsOn
    <3>5. g \in 0 .. gas /\ f \in 0 .. g
      <4>1. CallBase \in Nat /\ f \in 0 .. CallBase /\ gas >= CallBase
        BY <1>2
      <4> QED
        BY <4>1
    <3>6. \A x \in Address \ {from, to} : T.acct[x] = S.acct[x]
      BY <2>1, <3>3
    <3> QED
      BY <2>4, <3>4, <3>5, <3>6 DEF Result, Outcome
  <2> QED
    BY <2>2, <2>3, <2>4 DEF Result
<1> QED
  BY <1>1, <1>2

\* sub_balance and add_balance: what the supply holds fits, so nothing is lost.
LEMMA PayFacts ==
    ASSUME NEW S \in StateRecord, Clean(S.acct), NEW from \in Address, NEW to \in Address,
           NEW v \in Nat, NEW gas \in Nat, NEW pays
    PROVE  LET r == Pay(S, from, to, v, gas)
           IN /\ Outcome(S, from, gas, pays, r)
              /\ Outcome(S, from, gas, pays, [r EXCEPT !.kind = "err"])
<1> DEFINE T == Transfer(S, from, to, v)
           D == Debit(S, from, v)
           r == Pay(S, from, to, v, gas)
<1>0. Keeps(S, S) /\ S.acct[from].balance \in Nat
      /\ \A s \in Senders : S.acct[s].nonce \in Int /\ s \in Address
  BY SendersAreAddresses DEF Keeps, StateRecord, Account
<1>1. CASE S.acct[from].balance < v
  <2>1. r = Result("err", 0, 0, S, {})
    BY <1>1 DEF Pay
  <2> HIDE DEF r
  <2>2. Outcome(S, from, gas, pays, r)
    BY <1>0, <2>1 DEF Result, Outcome
  <2>3. [r EXCEPT !.kind = "err"] = r
    BY <2>1 DEF Result
  <2> QED
    BY <2>2, <2>3 DEF r
<1>2. CASE ~(S.acct[from].balance < v) /\ from # to /\ ~Fits(S.acct, to, v)
  <2>1. r = Result("err", 0, 0, D, {from})
    BY <1>2 DEF Pay
  <2>2. ~(Sum(S.acct) < U256)
    BY <1>0, <1>2, TransferFits
  <2>3. S = [acct |-> S.acct, store |-> S.store] /\ S.acct \in [Address -> Account]
        /\ S.store \in [Address -> 0 .. 1] /\ -v \in Int /\ S.acct[from].balance + (-v) >= 0
    BY <1>0, <1>2 DEF StateRecord
  <2>4. D = [acct |-> AddTo(S.acct, from, -v), store |-> S.store]
    BY <2>3 DEF Debit
  <2> DEFINE B == AddTo(S.acct, from, -v)
  <2>5. /\ B \in [Address -> Account]
        /\ \A y \in Address \ {from} : B[y] = S.acct[y]
        /\ \A y \in Address : B[y].nonce = S.acct[y].nonce /\ B[y].code = S.acct[y].code
    BY <2>3, AddToFacts
  <2> HIDE DEF B, D, r
  <2>6. Keeps(S, D) /\ \A y \in Address \ {from} : D.acct[y] = S.acct[y]
    BY <1>0, <2>2, <2>3, <2>4, <2>5 DEF Keeps, StateRecord, Clean, B
  <2>7. Outcome(S, from, gas, pays, r)
    BY <2>1, <2>6 DEF Result, Outcome
  <2>8. [r EXCEPT !.kind = "err"] = r
    BY <2>1 DEF Result
  <2> QED
    BY <2>7, <2>8 DEF r
<1>3. CASE ~(S.acct[from].balance < v) /\ ~(from # to /\ ~Fits(S.acct, to, v))
  <2> DEFINE W == IF v = 0 THEN {} ELSE {from, to}
  <2>1. r = Result("ok", gas, 0, T, W)
    BY <1>3 DEF Pay
  <2>2. S.acct[from].balance >= v
    BY <1>0, <1>3
  <2>3. /\ T \in StateRecord /\ Sum(T.acct) = Sum(S.acct)
        /\ \A x \in Address : T.acct[x].nonce = S.acct[x].nonce /\ T.acct[x].code = S.acct[x].code
        /\ \A x \in Address \ {from, to} : T.acct[x] = S.acct[x]
    BY <2>2, TransferFacts
  <2>4. v = 0 => \A x \in Address : T.acct[x] = S.acct[x]
    <3> SUFFICES ASSUME v = 0, NEW x \in Address PROVE T.acct[x] = S.acct[x]
      OBVIOUS
    <3>1. S.acct \in [Address -> Account] /\ T.acct = AddTo(AddTo(S.acct, from, -v), to, v)
      BY DEF StateRecord, Transfer
    <3>2. \A y \in Address : [S.acct[y] EXCEPT !.balance = @ + 0] = S.acct[y]
      BY <3>1 DEF Account
    <3>3. \A y \in Address : [S.acct[y] EXCEPT !.balance = @ + (-0)] = S.acct[y]
      BY <3>1 DEF Account
    <3>4. AddTo(S.acct, from, -v) = S.acct
      BY <3>1, <3>3 DEF AddTo
    <3>5. AddTo(S.acct, to, v) = S.acct
      BY <3>1, <3>2 DEF AddTo
    <3> QED
      BY <3>1, <3>4, <3>5
  <2> HIDE DEF T
  <2>5. Keeps(S, T) /\ \A x \in Address \ W : T.acct[x] = S.acct[x]
    BY <1>0, <2>3, <2>4 DEF Keeps, Clean
  <2> HIDE DEF W, r
  <2>6. Outcome(S, from, gas, pays, r)
    BY <2>1, <2>5 DEF Result, Outcome
  <2>7. [r EXCEPT !.kind = "err"] = Result("err", gas, 0, T, W)
    BY <2>1 DEF Result
  <2>8. Outcome(S, from, gas, pays, Result("err", gas, 0, T, W))
    BY <2>5 DEF Result, Outcome
  <2> QED
    BY <2>6, <2>7, <2>8 DEF r
<1> QED
  BY <1>1, <1>2, <1>3

\* execute_call: precompile, plain account, or contract.
LEMMA ExecuteCallFacts ==
    ASSUME NEW S \in StateRecord, Clean(S.acct), NEW from \in Address, NEW to \in Address,
           NEW v \in Nat, NEW gas \in Nat, NEW pays, NEW r \in ExecuteCall(S, from, to, v, gas, pays)
    PROVE  Outcome(S, from, gas, pays, r)
<1>1. CASE to \in Precompile
  <2>1. r \in {Pay(S, from, to, v, gas), [Pay(S, from, to, v, gas) EXCEPT !.kind = "err"]}
    BY <1>1 DEF ExecuteCall
  <2>2. /\ Outcome(S, from, gas, pays, Pay(S, from, to, v, gas))
        /\ Outcome(S, from, gas, pays, [Pay(S, from, to, v, gas) EXCEPT !.kind = "err"])
    BY PayFacts
  <2> QED
    BY <2>1, <2>2
<1>2. CASE to \notin Precompile /\ S.acct[to].code = NoCode
  <2>1. r = Pay(S, from, to, v, 0)
    BY <1>2 DEF ExecuteCall
  <2>2. Outcome(S, from, 0, pays, r)
    BY <2>1, PayFacts
  <2>3. \A n : n \in 0 .. 0 => n \in 0 .. gas
    OBVIOUS
  <2> QED
    BY <2>2, <2>3 DEF Outcome
<1>3. CASE to \notin Precompile /\ S.acct[to].code # NoCode
  <2>1. to \in Address \ Senders /\ r \in RunCode(S, from, to, v, gas, pays)
    BY <1>3 DEF ExecuteCall, Clean
  <2> QED
    BY <2>1, RunCodeFacts
<1> QED
  BY <1>1, <1>2, <1>3

\* execute_create: the new account is empty before and no sender's.
LEMMA ExecuteCreateFacts ==
    ASSUME NEW S \in StateRecord, Clean(S.acct), NEW t \in Tx,
           NEW r \in ExecuteCreate(S, t)
    PROVE  /\ r.kind \in {"ok", "revert", "err"}
           /\ Keeps(S, r.s)
           /\ \A x \in Address \ r.wrote : r.s.acct[x] = S.acct[x]
           /\ r.kind # "err" => r.gas \in Nat /\ r.refund \in 0 .. r.gas
<1> USE ExecutorAssumption
<1> DEFINE to == CreateAddress(t.sender, S.acct[t.sender].nonce - 1)
           i == [nonce |-> 1, balance |-> 0, code |-> InitCode]
           P == [S EXCEPT !.acct[to] = i]
           gas == t.gas - TxCreate
<1>1. /\ t.sender \in Address /\ t.sender \in Senders /\ t.nonce \in Nat /\ t.value \in Nat
      /\ gas \in Int
  BY DEF TxRecord, Senders
<1>2. to \in Address \ Senders
  BY <1>1 DEF CreateAddress
<1>3. Keeps(S, S)
  BY SendersAreAddresses DEF Keeps, StateRecord, Account
<1>4. i \in Account
  BY DEF Account
<1> HIDE DEF to, gas
<1>5. CASE S.acct[to] # Empty
  BY <1>3, <1>5 DEF ExecuteCreate, Result, to
<1>6. CASE S.acct[to] = Empty
  <2>1. Keeps(S, P)
    <3>1. i.balance = S.acct[to].balance
      BY <1>6 DEF Empty
    <3> HIDE DEF i
    <3> QED
      BY <1>2, <1>4, <3>1, SetAccount
  <2>2. PICK q \in RunCode(P, t.sender, to, t.value, gas, {Coinbase}) :
          \/ q.kind # "ok" /\ r = [q EXCEPT !.wrote = @ \cup {to}]
          \/ q.kind = "ok" /\ r = Result("err", 0, 0, q.s, q.wrote)
          \/ q.kind = "ok" /\ \E d \in Deposit :
                r = Result("ok", q.gas + d, q.refund, [q.s EXCEPT !.acct[to].code = Deployed], q.wrote)
    <3> DEFINE F(q) == IF q.kind # "ok" THEN {[q EXCEPT !.wrote = @ \cup {to}]}
                       ELSE {Result("err", 0, 0, q.s, q.wrote)}
                            \cup {Result("ok", q.gas + d, q.refund,
                                         [q.s EXCEPT !.acct[to].code = Deployed], q.wrote) : d \in Deposit}
    <3>1. r \in UNION {F(q) : q \in RunCode(P, t.sender, to, t.value, gas, {Coinbase})}
      BY <1>6 DEF ExecuteCreate, to, gas
    <3>2. PICK q \in RunCode(P, t.sender, to, t.value, gas, {Coinbase}) : r \in F(q)
      <4> HIDE DEF F
      <4> QED
        BY <3>1
    <3> QED
      BY <3>2
  <2>3. /\ P \in StateRecord /\ Clean(P.acct)
        /\ \A x \in Address \ {to} : P.acct[x] = S.acct[x]
    BY <2>1 DEF Keeps, StateRecord
  <2>9. q = [kind |-> q.kind, gas |-> q.gas, refund |-> q.refund, s |-> q.s, wrote |-> q.wrote]
    BY DEF RunCode, Result
  <2> HIDE DEF P
  <2>4. Outcome(P, t.sender, gas, {Coinbase}, q) /\ (q.kind = "ok" => to \in q.wrote)
    BY <1>1, <1>2, <2>3, RunCodeFacts
  <2>10. \A x \in Address \ (q.wrote \cup {to}) : q.s.acct[x] = S.acct[x]
    BY <2>3, <2>4 DEF Outcome
  <2>5. Keeps(S, q.s) /\ q.s \in StateRecord /\ Clean(q.s.acct)
    BY <2>1, <2>3, <2>4, KeepsOn DEF Outcome, Keeps
  <2>6. CASE q.kind # "ok" /\ r = [q EXCEPT !.wrote = @ \cup {to}]
    <3>1. r = [kind |-> q.kind, gas |-> q.gas, refund |-> q.refund, s |-> q.s, wrote |-> q.wrote \cup {to}]
      BY <2>6, <2>9
    <3> QED
      BY <1>1, <2>4, <2>5, <2>10, <3>1 DEF Outcome
  <2>7. CASE q.kind = "ok" /\ r = Result("err", 0, 0, q.s, q.wrote)
    BY <2>4, <2>5, <2>7, <2>10 DEF Result
  <2>8. ASSUME NEW d \in Deposit, q.kind = "ok",
               r = Result("ok", q.gas + d, q.refund, [q.s EXCEPT !.acct[to].code = Deployed], q.wrote)
        PROVE  /\ r.kind = "ok" /\ Keeps(S, r.s) /\ r.gas \in Nat /\ r.refund \in 0 .. r.gas
               /\ \A x \in Address \ r.wrote : r.s.acct[x] = S.acct[x]
    <3> DEFINE Q == q.s
               o == Q.acct[to]
               a == [nonce |-> o.nonce, balance |-> o.balance, code |-> Deployed]
    <3>1. o \in Account /\ o = [nonce |-> o.nonce, balance |-> o.balance, code |-> o.code] /\ a \in Account
      BY <1>2, <2>5 DEF StateRecord, Account
    <3>2. [o EXCEPT !.code = Deployed] = a
      BY <3>1
    <3>3. [Q EXCEPT !.acct[to].code = Deployed] = [Q EXCEPT !.acct[to] = a]
      BY <3>2
    <3>4. Keeps(Q, [Q EXCEPT !.acct[to] = a])
      <4>1. a.balance = Q.acct[to].balance
        OBVIOUS
      <4> HIDE DEF a, Q
      <4> QED
        BY <1>2, <2>5, <3>1, <4>1, SetAccount DEF Q
    <3>5. Keeps(S, r.s)
      BY <2>5, <2>8, <3>3, <3>4, KeepsOn DEF Result
    <3>6. q.gas \in Nat /\ q.refund \in 0 .. q.gas /\ d \in Nat
      BY <1>1, <2>4, <2>8 DEF Outcome
    <3>7. \A x \in Address \ {to} : r.s.acct[x] = Q.acct[x]
      BY <2>5, <2>8, <3>3 DEF Result, StateRecord
    <3> QED
      BY <2>4, <2>8, <2>10, <3>5, <3>6, <3>7 DEF Result
  <2> QED
    BY <2>2, <2>6, <2>7, <2>8
<1> QED
  BY <1>5, <1>6

-----------------------------------------------------------------------------
(* execute_tx *)

\* Unused gas modulo the width of a u64.
LEMMA Modulo ==
    ASSUME NEW a \in Int, NEW m \in Nat, m > 0
    PROVE  a % m \in Nat /\ (0 <= a /\ a < m => a % m = a)
<1>1. a % m \in 0 .. m - 1
  BY SMT
<1>2. a = m * (a \div m) + (a % m) /\ a \div m \in Int
  BY SMT
<1>3. ASSUME NEW q \in Int, NEW c \in 0 .. m - 1, a = m * q + c, 0 <= a, a < m PROVE c = a
  <2>1. CASE q >= 1
    BY <1>3, <2>1, SMT
  <2>2. CASE q <= -1
    BY <1>3, <2>2, SMT
  <2>3. CASE q = 0
    BY <1>3, <2>3
  <2> QED
    BY <2>1, <2>2, <2>3
<1> QED
  BY <1>1, <1>2, <1>3

\* Products of natural numbers.
LEMMA Products ==
    ASSUME NEW p \in Nat, NEW g \in Nat, NEW u \in Nat, NEW b \in Nat
    PROVE  /\ p * g \in Nat /\ p * u \in Nat /\ b * u \in Nat
           /\ p * (g - u) = p * g - p * u
           /\ (p - b) * u = p * u - b * u
           /\ p >= b => (p - b) * u \in Nat
<1>1. p * g \in Nat /\ p * u \in Nat /\ b * u \in Nat
  BY SMT
<1>2. p * (g - u) = p * g - p * u /\ (p - b) * u = p * u - b * u
  BY SMT
<1>3. p >= b => (p - b) * u \in Nat
  BY SMT
<1> QED
  BY <1>1, <1>2, <1>3

\* Balances add up to a natural number, and the genesis supply is a U256.
LEMMA SumNat == \A A \in [Address -> Account] : Sum(A) \in Nat
<1> TAKE A \in [Address -> Account]
<1> DEFINE f == [x \in Address |-> A[x].balance]
<1>1. f \in [Address -> Nat]
  BY DEF Account
<1> HIDE DEF f
<1>2. SumFunction(f) \in Nat
  BY <1>1, SumIsNat, ExecutorAssumption
<1> QED
  BY <1>2 DEF Sum, f

LEMMA Widths == U256 \in Nat /\ U256 > 0 /\ U64 \in Nat /\ U64 > 0 /\ Sum(Initial) \in Nat /\ Sum(Initial) < U256
BY SumNat, ExecutorAssumption

\* A fee is a U256, and exact where the product is one.
LEMMA FeeFacts ==
    ASSUME NEW p \in Nat, NEW g \in Nat
    PROVE  p * g \in Nat /\ Fee(p, g) \in Nat /\ (p * g < U256 => Fee(p, g) = p * g)
<1>1. p * g \in Nat
  BY Products
<1> DEFINE m == p * g
<1>2. m \in Nat /\ Fee(p, g) = m % U256
  BY <1>1 DEF Fee
<1> HIDE DEF m
<1>3. m \in Int /\ m % U256 \in Nat /\ (0 <= m /\ m < U256 => m % U256 = m)
  BY <1>2, Widths, Modulo
<1>4. Fee(p, g) \in Nat /\ (m < U256 => Fee(p, g) = m)
  BY <1>2, <1>3
<1> QED
  BY <1>1, <1>4 DEF m

\* A transaction that passed the first tests has a price, and enough gas for its
\* intrinsic costs.
LEMMA PriceFacts ==
    ASSUME NEW t \in Tx, Priced(t)
    PROVE  /\ EffectiveGasPrice(t) \in Nat
           /\ IntrinsicGas(t) \in Nat /\ t.gas \in Nat /\ IntrinsicGas(t) <= t.gas /\ t.gas <= EnvGas
           /\ t.gas < U64 /\ MaxFee(t) \in Nat
           /\ t.sender \in Address /\ t.sender \in Senders /\ t.value \in Nat /\ t.nonce \in Nat
<1> USE ExecutorAssumption
<1>1. /\ t.price \in Nat /\ t.tip \in Nat /\ t.gas \in Nat /\ t.data \in Nat /\ t.dynamic \in BOOLEAN
      /\ t.sender \in Address /\ t.sender \in Senders /\ t.value \in Nat /\ t.nonce \in Nat
  BY DEF TxRecord, Senders
<1>2. t.dynamic => t.price >= BaseFee
  BY DEF Priced
<1>3. EffectiveGasPrice(t) \in Nat
  BY <1>1, <1>2 DEF EffectiveGasPrice
<1>4. IntrinsicGas(t) \in Nat /\ IntrinsicGas(t) <= t.gas /\ t.gas <= EnvGas /\ t.gas < U64
  BY <1>1 DEF IntrinsicGas, Priced, ValidateTx
<1> HIDE DEF EffectiveGasPrice
<1> QED
  BY <1>1, <1>3, <1>4, FeeFacts DEF MaxFee

\* What the execution task and the requests have read: the transaction under way
\* was affordable and next in its sender's order when it was checked, the fee
\* was taken from the balance read then, and no sender had code.
JobInv ==
    job # Idle =>
      /\ Priced(job.tx)
      /\ job.before.balance >= MaxFee(job.tx) + job.tx.value
      /\ job.before.nonce = job.tx.nonce
      /\ job.step = "charged" =>
           /\ Clean(job.seen.acct)
           /\ job.seen.acct[job.tx.sender].balance = job.before.balance - MaxFee(job.tx)

SimInv == \A c \in Request : sim[c] # Idle => Clean(sim[c].seen.acct)

\* What was read of a ledger without wrapped fees and lost writes is within the
\* supply, so no transfer overflows.
SupplyInv ==
    ~wrapped /\ ~raced =>
      /\ job.step = "charged" => Sum(job.seen.acct) < U256
      /\ \A c \in Request : sim[c] # Idle => Sum(sim[c].seen.acct) < U256

\* A transaction that has a receipt or was charged has a nonce that is used up.
NonceInv ==
    ~raced =>
      /\ \A t \in Tx : done[t] > 0 => acct[t.sender].nonce > t.nonce
      /\ job.step = "charged" => acct[job.tx.sender].nonce > job.tx.nonce /\ done[job.tx] = 0

LedgerInv ==
    /\ TypeOK
    /\ Clean(acct)
    /\ JobInv
    /\ SimInv
    /\ SupplyConserved
    /\ SupplyInv
    /\ NoReplay
    /\ NonceInv

\* The steps of the execution task.
LEMMA JobCases ==
    ASSUME TypeOK
    PROVE  /\ job = Idle => job.step = "idle"
           /\ job # Idle => job.tx \in Tx /\ job.before \in Account /\ job.step \in {"checked", "charged"}
           /\ job.step = "checked" => job # Idle
           /\ job.step = "charged" => job # Idle /\ job.seen \in StateRecord
BY DEF TypeOK, Idle

LEMMA SimCases ==
    ASSUME TypeOK, NEW c \in Request, sim[c] # Idle
    PROVE  sim[c].step = "running" /\ sim[c].call \in Calls /\ sim[c].seen \in StateRecord
BY DEF TypeOK, Idle

\* The fee is taken from the balance that was read and the nonce counted up
\* before anything runs.
LEMMA ChargedFacts ==
    ASSUME LedgerInv, job.step = "checked"
    PROVE  LET t == job.tx
               C == Charged(t)
               b == job.before.balance - MaxFee(t)
           IN /\ C \in StateRecord /\ Clean(C.acct) /\ C.store = store
              /\ b \in Nat /\ C.acct[t.sender].balance = b
              /\ Sum(acct) \in Nat /\ Sum(C.acct) = Sum(acct) + b - acct[t.sender].balance
              /\ C.acct[t.sender].nonce = acct[t.sender].nonce + 1
              /\ \A x \in Address \ {t.sender} : C.acct[x] = acct[x]
<1> DEFINE t == job.tx
           b == job.before.balance - MaxFee(t)
           o == acct[t.sender]
           a == [nonce |-> o.nonce + 1, code |-> o.code, balance |-> b]
           A == [acct EXCEPT ![t.sender] = a]
<1>1. /\ t \in Tx /\ Priced(t) /\ job.before \in Account /\ job.before.balance >= MaxFee(t) + t.value
  BY JobCases DEF LedgerInv, JobInv
<1>2. MaxFee(t) \in Nat /\ t.sender \in Address /\ t.sender \in Senders /\ t.value \in Nat
  BY <1>1, PriceFacts
<1>3. acct \in [Address -> Account] /\ store \in [Address -> 0 .. 1] /\ Clean(acct)
  BY DEF LedgerInv, TypeOK
<1>4. b \in Nat
  BY <1>1, <1>2 DEF Account
<1>5. Charged(t) = [acct |-> A, store |-> store]
  BY DEF Charged, State
<1> HIDE DEF t, b
<1>6. a \in Account /\ a.balance = b
  BY <1>2, <1>3, <1>4 DEF Account
<1>7. A \in [Address -> Account] /\ Sum(A) = Sum(acct) + a.balance - o.balance
  <2> HIDE DEF a
  <2> QED
    BY <1>2, <1>3, <1>6, ReplaceAccount
<1>8. A[t.sender] = a /\ \A x \in Address \ {t.sender} : A[x] = acct[x]
  BY <1>2, <1>3
<1>9. Clean(A)
  BY <1>2, <1>3, <1>8, SendersAreAddresses DEF Clean
<1>10. Sum(acct) \in Nat
  BY <1>3, SumNat
<1> HIDE DEF A
<1> QED
  BY <1>3, <1>4, <1>5, <1>6, <1>7, <1>8, <1>9, <1>10 DEF StateRecord, t, b

\* The result of an execution and the gas it uses.
LEMMA ExecuteFacts ==
    ASSUME NEW S \in StateRecord, Clean(S.acct), NEW t \in Tx, Priced(t), NEW r \in Execute(S, t)
    PROVE  /\ r.kind \in {"ok", "revert", "err"}
           /\ Keeps(S, r.s)
           /\ \A x \in Address \ r.wrote : r.s.acct[x] = S.acct[x]
           /\ GasUsed(t, r) \in Nat
           /\ ~IsCreate(t) => GasUsed(t, r) <= t.gas
           /\ ~IsCreate(t) /\ r.kind = "revert" =>
                r.wrote = {t.sender, Coinbase} /\ r.s = [S EXCEPT !.acct[t.sender].nonce = @ + 1]
<1>1. /\ IntrinsicGas(t) \in Nat /\ t.gas \in Nat /\ IntrinsicGas(t) <= t.gas
      /\ t.sender \in Address /\ t.value \in Nat
  BY PriceFacts
<1>3. CASE IsCreate(t)
  <2>1. r \in ExecuteCreate(S, t)
    BY <1>3 DEF Execute
  <2>2. /\ r.kind \in {"ok", "revert", "err"} /\ Keeps(S, r.s)
        /\ \A x \in Address \ r.wrote : r.s.acct[x] = S.acct[x]
        /\ r.kind # "err" => r.gas \in Nat /\ r.refund \in 0 .. r.gas
    BY <2>1, ExecuteCreateFacts
  <2> QED
    BY <1>1, <1>3, <2>2 DEF GasUsed
<1>4. CASE ~IsCreate(t)
  <2>1. r \in ExecuteCall(S, t.sender, t.to, t.value, t.gas - IntrinsicGas(t), {Coinbase})
    BY <1>4 DEF Execute
  <2>2. t.to \in Address /\ t.gas - IntrinsicGas(t) \in Nat
    BY <1>1, <1>4, ExecutorAssumption DEF TxRecord, IsCreate
  <2>3. Outcome(S, t.sender, t.gas - IntrinsicGas(t), {Coinbase}, r)
    BY SMTT(30), <1>1, <2>1, <2>2, ExecuteCallFacts
  <2> QED
    BY <1>1, <1>4, <2>2, <2>3 DEF Outcome, GasUsed
<1> QED
  BY <1>3, <1>4

\* Storing a result that was computed from S: where nothing it wrote had changed
\* since, the ledger gains exactly what the execution gained.
LEMMA StoreFacts ==
    ASSUME acct \in [Address -> Account], Clean(acct), store \in [Address -> 0 .. 1],
           NEW S \in StateRecord, Clean(S.acct), NEW r, Keeps(S, r.s),
           \A x \in Address \ r.wrote : r.s.acct[x] = S.acct[x]
    PROVE  LET A == StoreAccounts(S, r)
           IN /\ A \in [Address -> Account] /\ Clean(A)
              /\ StoreSlots(S, r) \in [Address -> 0 .. 1]
              /\ \A x \in Address \ r.wrote : A[x] = acct[x]
              /\ \A x \in r.wrote \cap Address : A[x].balance = r.s.acct[x].balance
              /\ ~Stale(S, r.wrote) =>
                   /\ Sum(S.acct) < U256 => Sum(A) = Sum(acct)
                   /\ \A s \in Senders : A[s].nonce >= acct[s].nonce
<1> DEFINE A == StoreAccounts(S, r)
           R == r.s.acct
           Q == S.acct
<1>1. /\ R \in [Address -> Account] /\ Q \in [Address -> Account] /\ Clean(R) /\ Clean(Q)
      /\ r.s.store \in [Address -> 0 .. 1] /\ S.store \in [Address -> 0 .. 1]
      /\ \A s \in Senders : R[s].nonce >= Q[s].nonce
      /\ Sum(Q) < U256 => Sum(R) = Sum(Q)
      /\ \A x \in Address \ r.wrote : R[x] = Q[x]
  BY DEF Keeps, StateRecord
<1>2. A = [x \in Address |-> IF x \notin r.wrote THEN acct[x]
                             ELSE [R[x] EXCEPT !.code = IF @ = Q[x].code THEN acct[x].code ELSE @]]
  BY DEF StoreAccounts
<1>3. StoreSlots(S, r) \in [Address -> 0 .. 1]
  BY <1>1 DEF StoreSlots
<1> HIDE DEF A, R, Q
<1>4. \A x \in Address : /\ A[x] \in Account
                         /\ x \notin r.wrote => A[x] = acct[x]
                         /\ x \in r.wrote => A[x].balance = R[x].balance /\ A[x].nonce = R[x].nonce
                         /\ x \in Senders => A[x].code = NoCode
  <2> SUFFICES ASSUME NEW x \in Address
               PROVE  /\ A[x] \in Account
                      /\ x \notin r.wrote => A[x] = acct[x]
                      /\ x \in r.wrote => A[x].balance = R[x].balance /\ A[x].nonce = R[x].nonce
                      /\ x \in Senders => A[x].code = NoCode
    OBVIOUS
  <2>1. CASE x \notin r.wrote
    BY <1>2, <2>1 DEF Clean
  <2>2. CASE x \in r.wrote
    <3> DEFINE c == IF R[x].code = Q[x].code THEN acct[x].code ELSE R[x].code
    <3>1. R[x] = [nonce |-> R[x].nonce, balance |-> R[x].balance, code |-> R[x].code]
          /\ R[x].nonce \in Nat /\ R[x].balance \in Nat /\ c \in {NoCode, InitCode, Deployed}
      BY <1>1 DEF Account
    <3>2. A[x] = [R[x] EXCEPT !.code = c]
      BY <1>2, <2>2
    <3>3. x \in Senders => c = NoCode
      BY <1>1 DEF Clean
    <3> HIDE DEF c
    <3>4. A[x] = [nonce |-> R[x].nonce, balance |-> R[x].balance, code |-> c]
      BY <3>1, <3>2
    <3> QED
      BY <2>2, <3>1, <3>3, <3>4 DEF Account
  <2> QED
    BY <2>1, <2>2
<1>5. A \in [Address -> Account] /\ Clean(A)
  BY <1>2, <1>4, SendersAreAddresses DEF Clean
<1>6. ASSUME ~Stale(S, r.wrote)
      PROVE  /\ Sum(Q) < U256 => Sum(A) = Sum(acct)
             /\ \A s \in Senders : A[s].nonce >= acct[s].nonce
  <2>1. \A x \in r.wrote : acct[x] = Q[x]
    BY <1>6 DEF Stale, Q
  <2>2. \A s \in Senders : A[s].nonce >= acct[s].nonce
    BY <1>1, <1>4, <2>1, SendersAreAddresses DEF Account
  <2>3. Sum(A) = Sum(acct) + Sum(R) - Sum(Q)
    <3> DEFINE fa == [x \in Address |-> acct[x].balance]
               fA == [x \in Address |-> A[x].balance]
               fq == [x \in Address |-> Q[x].balance]
               fr == [x \in Address |-> R[x].balance]
               d == [x \in Address |-> R[x].balance - Q[x].balance]
    <3>1. /\ fa \in [Address -> Int] /\ fA \in [Address -> Int] /\ fq \in [Address -> Int]
          /\ fr \in [Address -> Int] /\ d \in [Address -> Int]
      BY <1>1, <1>5 DEF Account
    <3>2. \A x \in Address : fr[x] = fq[x] + d[x]
      BY <1>1 DEF Account
    <3>3. \A x \in Address : fA[x] = fa[x] + d[x]
      <4> TAKE x \in Address
      <4>1. R[x].balance \in Int /\ Q[x].balance \in Int /\ acct[x].balance \in Int
        BY <1>1 DEF Account
      <4>2. CASE x \in r.wrote
        BY <1>4, <2>1, <4>1, <4>2
      <4>3. CASE x \notin r.wrote
        BY <1>1, <1>4, <4>1, <4>3
      <4> QED
        BY <4>2, <4>3
    <3>4. /\ Sum(A) = SumFunction(fA) /\ Sum(acct) = SumFunction(fa)
          /\ Sum(R) = SumFunction(fr) /\ Sum(Q) = SumFunction(fq)
      BY DEF Sum
    <3> HIDE DEF fa, fA, fq, fr, d
    <3>5. SumFunction(fq) \in Int /\ SumFunction(d) \in Int
          /\ SumFunction(fr) = SumFunction(fq) + SumFunction(d)
      BY <3>1, <3>2, SumAdds, ExecutorAssumption
    <3>6. SumFunction(fa) \in Int /\ SumFunction(fA) = SumFunction(fa) + SumFunction(d)
      BY <3>1, <3>3, SumAdds, ExecutorAssumption
    <3> QED
      BY <3>4, <3>5, <3>6
  <2>4. Sum(acct) \in Nat /\ Sum(Q) \in Nat
    BY <1>1, SumNat
  <2> QED
    BY <1>1, <2>2, <2>3, <2>4
<1> QED
  BY <1>3, <1>4, <1>5, <1>6 DEF A, R, Q

\* Refund and priority fee: what they do not pay out is counted as burned, and
\* where no product wraps they add up to the fee that was charged.
LEMMA SettleFacts ==
    ASSUME NEW t \in Tx, Priced(t), NEW A \in [Address -> Account], Clean(A),
           NEW kind, NEW gasUsed \in Nat, burned \in Nat, done \in [Tx -> Nat], Settle(t, A, kind, gasUsed)
    PROVE  LET price == EffectiveGasPrice(t)
           IN /\ acct' \in [Address -> Account] /\ Clean(acct')
              /\ \A x \in Address : acct'[x].nonce = A[x].nonce
              /\ \A x \in Address \ {t.sender, Coinbase} : acct'[x] = A[x]
              /\ burned' \in Nat /\ alive' \in BOOLEAN
              /\ gasUsed <= t.gas /\ price * t.gas < U256 => Sum(acct') + burned' = Sum(A) + burned + MaxFee(t)
              /\ \/ receipt' = receipt /\ done' = done
                 \/ /\ receipt' = Receipt(t.id, kind, gasUsed) /\ done' = [done EXCEPT ![t] = @ + 1]
                    /\ t.sender # Coinbase =>
                         acct'[t.sender].balance = A[t.sender].balance + Fee(price, (t.gas - gasUsed) % U64)
<1> DEFINE price == EffectiveGasPrice(t)
           g == (t.gas - gasUsed) % U64
           back == Fee(price, g)
           B == AddTo(A, t.sender, back)
           tip == PriorityFee(t, gasUsed)
           C == AddTo(B, Coinbase, tip)
           room == Fits(A, t.sender, back)
           paid == room /\ tip >= 0 /\ Fits(B, Coinbase, tip)
           fee == Fee(price, gasUsed)
           base == Fee(BaseFee, gasUsed)
<1>1. /\ acct' = (IF ~room THEN A ELSE IF paid THEN C ELSE B)
      /\ burned' = burned + (IF ~room THEN MaxFee(t) ELSE Fee(IF paid THEN BaseFee ELSE price, gasUsed))
      /\ alive' = (~room \/ tip >= 0)
      /\ receipt' = (IF paid THEN Receipt(t.id, kind, gasUsed) ELSE receipt)
      /\ done' = (IF paid THEN [done EXCEPT ![t] = @ + 1] ELSE done)
  BY DEF Settle
<1>2. /\ price \in Nat /\ t.gas \in Nat /\ t.gas <= EnvGas /\ t.gas < U64 /\ MaxFee(t) \in Nat
      /\ t.sender \in Address /\ t.sender \in Senders
  BY PriceFacts
<1>3. BaseFee \in Nat /\ EnvGas \in Nat /\ Coinbase \in Address /\ BaseFee * EnvGas < U256
  BY ExecutorAssumption
<1>4. tip = fee - base
  BY DEF PriorityFee
<1>5. MaxFee(t) = Fee(price, t.gas)
  BY DEF MaxFee
<1> HIDE DEF price
<1>6. g \in Nat /\ (gasUsed <= t.gas => g = t.gas - gasUsed)
  <2>1. t.gas - gasUsed \in Int /\ (gasUsed <= t.gas => 0 <= t.gas - gasUsed /\ t.gas - gasUsed < U64)
    BY <1>2, Widths
  <2> QED
    BY <2>1, Widths, Modulo
<1> HIDE DEF g
<1>7. back \in Nat /\ fee \in Nat /\ base \in Nat
  BY <1>2, <1>3, <1>6, FeeFacts
<1>8. ASSUME gasUsed <= t.gas, price * t.gas < U256 PROVE back + fee = MaxFee(t)
  <2>1. /\ price * t.gas \in Nat /\ price * gasUsed \in Nat /\ price * g \in Nat
        /\ price * (t.gas - gasUsed) = price * t.gas - price * gasUsed
    BY <1>2, <1>6, Products
  <2>2. price * g = price * t.gas - price * gasUsed
    BY <1>6, <1>8, <2>1
  <2>3. price * g < U256 /\ price * gasUsed < U256
    <3> DEFINE m == price * t.gas
               u == price * gasUsed
               h == price * g
    <3>1. m \in Nat /\ u \in Nat /\ h \in Nat /\ h = m - u /\ m < U256
      BY <1>8, <2>1, <2>2
    <3> HIDE DEF m, u, h
    <3>2. h < U256 /\ u < U256
      BY <3>1, Widths
    <3> QED
      BY <3>2 DEF h, u
  <2>4. back = price * g /\ fee = price * gasUsed /\ MaxFee(t) = price * t.gas
    BY <1>2, <1>5, <1>6, <1>8, <2>3, FeeFacts
  <2> QED
    BY <2>1, <2>2, <2>4
<1>9. /\ B \in [Address -> Account] /\ Sum(A) \in Int /\ Sum(B) = Sum(A) + back
      /\ B[t.sender].balance = A[t.sender].balance + back
      /\ \A y \in Address \ {t.sender} : B[y] = A[y]
      /\ \A y \in Address : B[y].nonce = A[y].nonce /\ B[y].code = A[y].code
  <2> HIDE DEF back
  <2>1. back \in Int /\ A[t.sender].balance + back >= 0
    BY <1>2, <1>7 DEF Account
  <2> QED
    BY <1>2, <2>1, AddToFacts
<1> HIDE DEF B, back, fee, base
<1>10. tip >= 0 =>
        /\ C \in [Address -> Account] /\ Sum(C) = Sum(B) + tip
        /\ \A y \in Address \ {Coinbase} : C[y] = B[y]
        /\ \A y \in Address : C[y].nonce = B[y].nonce /\ C[y].code = B[y].code
  <2> SUFFICES ASSUME tip >= 0
               PROVE  /\ C \in [Address -> Account] /\ Sum(C) = Sum(B) + tip
                      /\ \A y \in Address \ {Coinbase} : C[y] = B[y]
                      /\ \A y \in Address : C[y].nonce = B[y].nonce /\ C[y].code = B[y].code
    OBVIOUS
  <2>1. tip \in Int
    BY <1>4, <1>7
  <2> HIDE DEF tip
  <2>2. B[Coinbase].balance + tip >= 0
    BY <1>3, <1>9, <2>1 DEF Account
  <2> QED
    BY <1>3, <1>9, <2>1, <2>2, AddToFacts
<1> HIDE DEF C, tip
<1>11. \A y \in Address : A[y].nonce \in Nat /\ A[y].balance \in Nat
  BY DEF Account
<1>12. room \in BOOLEAN /\ paid \in BOOLEAN /\ (paid => room /\ tip >= 0)
  BY DEF Fits
<1> HIDE DEF room, paid
<1>13. CASE ~room
  <2>1. /\ acct' = A /\ burned' = burned + MaxFee(t) /\ alive' = TRUE
        /\ receipt' = receipt /\ done' = done
    BY <1>1, <1>12, <1>13
  <2> QED
    BY <1>2, <1>9, <2>1
<1>14. CASE room /\ ~paid
  <2>1. /\ acct' = B /\ burned' = burned + fee /\ alive' \in BOOLEAN
        /\ receipt' = receipt /\ done' = done
    BY <1>1, <1>14 DEF fee
  <2>2. gasUsed <= t.gas /\ price * t.gas < U256 => Sum(B) + (burned + fee) = Sum(A) + burned + MaxFee(t)
    <3> SUFFICES ASSUME back + fee = MaxFee(t) PROVE Sum(B) + (burned + fee) = Sum(A) + burned + MaxFee(t)
      BY <1>8
    <3> QED
      BY <1>2, <1>7, <1>9
  <2>3. Clean(B)
    BY <1>9, SendersAreAddresses DEF Clean
  <2> QED
    BY <1>7, <1>9, <2>1, <2>2, <2>3 DEF price
<1>15. CASE paid
  <2>1. /\ acct' = C /\ burned' = burned + base /\ alive' \in BOOLEAN
        /\ receipt' = Receipt(t.id, kind, gasUsed) /\ done' = [done EXCEPT ![t] = @ + 1]
    BY <1>1, <1>12, <1>15 DEF base
  <2>2. /\ C \in [Address -> Account] /\ Sum(C) = Sum(B) + tip
        /\ \A y \in Address \ {Coinbase} : C[y] = B[y]
        /\ \A y \in Address : C[y].nonce = B[y].nonce /\ C[y].code = B[y].code
    BY <1>10, <1>12, <1>15
  <2>3. gasUsed <= t.gas /\ price * t.gas < U256 => Sum(C) + (burned + base) = Sum(A) + burned + MaxFee(t)
    <3> SUFFICES ASSUME back + fee = MaxFee(t) PROVE Sum(C) + (burned + base) = Sum(A) + burned + MaxFee(t)
      BY <1>8
    <3> QED
      BY <1>2, <1>4, <1>7, <1>9, <2>2
  <2>4. Clean(C)
    BY <1>9, <2>2, SendersAreAddresses DEF Clean
  <2>5. t.sender # Coinbase => C[t.sender].balance = A[t.sender].balance + back
    BY <1>2, <1>9, <2>2
  <2> QED
    BY <1>2, <1>7, <1>9, <2>1, <2>2, <2>3, <2>4, <2>5 DEF back, g, price
<1> QED
  BY <1>12, <1>13, <1>14, <1>15

-----------------------------------------------------------------------------
(* The invariant *)

LEMMA LedgerInit == Init => LedgerInv
<1> SUFFICES ASSUME Init PROVE LedgerInv
  OBVIOUS
<1> USE ExecutorAssumption
<1>0. job = Idle /\ job.step = "idle" /\ \A c \in Request : sim[c] = Idle
  BY DEF Init, Idle
<1>1. TypeOK
  <2>1. receipt.status = "none"
    BY DEF Init, Receipt
  <2>2. 0 \in 0 .. MaxCalls /\ 0 \in 0 .. MaxRuns /\ 0 \in 0 .. 1 /\ 0 \in Nat
    OBVIOUS
  <2>3. acct \in [Address -> Account] /\ store \in [Address -> 0 .. 1] /\ done \in [Tx -> Nat]
    BY <2>2 DEF Init
  <2>4. /\ alive \in BOOLEAN /\ wrapped \in BOOLEAN /\ raced \in BOOLEAN /\ burned \in Nat
        /\ calls \in 0 .. MaxCalls /\ runs \in 0 .. MaxRuns
    BY <2>2, Zenon DEF Init
  <2>5. sim \in [Request -> {Idle} \cup [step : {"running"}, call : Calls, seen : StateRecord]]
    BY DEF Init
  <2> QED
    BY <1>0, <2>1, <2>3, <2>4, <2>5 DEF TypeOK
<1>2. Clean(acct)
  BY DEF Init, Clean
<1>3. SupplyConserved
  BY <1>0, Widths DEF Init, SupplyConserved, Held
<1>4. NoReplay /\ NonceInv
  BY <1>0 DEF Init, NoReplay, NonceInv
<1>5. JobInv /\ SimInv /\ SupplyInv
  BY <1>0 DEF JobInv, SimInv, SupplyInv
<1> QED
  BY <1>1, <1>2, <1>3, <1>4, <1>5 DEF LedgerInv

\* execute_tx tests balance and nonce.
LEMMA CheckTxStep ==
    ASSUME LedgerInv, NEW t \in Tx, CheckTx(t)
    PROVE  LedgerInv'
<1>1. /\ job = Idle /\ Admissible(t) /\ runs < MaxRuns /\ runs' = runs + 1
      /\ job' = [step |-> "checked", tx |-> t, before |-> acct[t.sender]]
      /\ UNCHANGED <<acct, store, alive, sim, receipt, done, burned, wrapped, raced, calls>>
  BY DEF CheckTx
<1>2. /\ TypeOK /\ Clean(acct) /\ JobInv /\ SimInv /\ SupplyConserved /\ SupplyInv /\ NoReplay /\ NonceInv
  BY DEF LedgerInv
<1>3. Priced(t) /\ acct[t.sender].balance >= MaxFee(t) + t.value /\ acct[t.sender].nonce = t.nonce
  BY <1>1 DEF Admissible
<1>4. acct[t.sender] \in Account
  BY <1>2, <1>3, PriceFacts DEF TypeOK
<1>5. job'.step = "checked" /\ job'.tx = t /\ job'.before = acct[t.sender] /\ job.step = "idle"
  BY <1>1 DEF Idle
<1>6. job' \in [step : {"checked"}, tx : Tx, before : Account]
  BY <1>1, <1>4
<1>7. TypeOK'
  <2>1. runs' \in 0 .. MaxRuns
    BY <1>1, <1>2, ExecutorAssumption DEF TypeOK
  <2> QED
    BY <1>1, <1>2, <1>6, <2>1 DEF TypeOK
<1>8. JobInv'
  <2>1. Priced(t)' /\ MaxFee(t)' = MaxFee(t)
    BY <1>3 DEF Priced, ValidateTx, MaxFee
  <2> QED
    BY <1>3, <1>5, <2>1 DEF JobInv, Priced, ValidateTx, MaxFee
<1>9. (Clean(acct) /\ SimInv /\ SupplyConserved /\ SupplyInv /\ NoReplay /\ NonceInv)'
  <2>1. Held' = 0 /\ Held = 0
    BY <1>5 DEF Held
  <2>2. SupplyConserved'
    BY <1>1, <1>2, <2>1 DEF SupplyConserved, Sum
  <2> QED
    BY <1>1, <1>2, <1>5, <2>2 DEF Clean, SimInv, SupplyInv, NoReplay, NonceInv, Sum
<1> QED
  BY <1>7, <1>8, <1>9 DEF LedgerInv

\* A transaction that is refused; the task may have panicked.
LEMMA RefuseTxStep ==
    ASSUME LedgerInv, NEW t \in Tx, RefuseTx(t)
    PROVE  LedgerInv'
<1>1. /\ alive' \in BOOLEAN
      /\ UNCHANGED <<acct, store, job, sim, receipt, done, burned, wrapped, raced, calls, runs>>
  BY DEF RefuseTx
<1> QED
  BY <1>1 DEF LedgerInv, TypeOK, Clean, JobInv, Priced, ValidateTx, MaxFee, SimInv, SupplyConserved,
              Held, SupplyInv, NoReplay, NonceInv, Sum

\* The fee is charged: on a balance that has not changed, it is held, and the
\* nonce, which has not changed either, moves past that of the transaction.
LEMMA ChargeTxStep ==
    ASSUME LedgerInv, ChargeTx
    PROVE  LedgerInv'
<1>0. PICK t : t = job.tx
  OBVIOUS
<1>1. /\ job.step = "checked" /\ acct' = Charged(t).acct
      /\ raced' = (raced \/ acct[t.sender] # job.before)
      /\ job' = [step |-> "charged", tx |-> t, before |-> job.before, seen |-> Charged(t)]
      /\ UNCHANGED <<store, alive, sim, receipt, done, burned, wrapped, calls, runs>>
  BY <1>0 DEF ChargeTx
<1>2. /\ TypeOK /\ Clean(acct) /\ JobInv /\ SimInv /\ SupplyConserved /\ SupplyInv /\ NoReplay /\ NonceInv
  BY DEF LedgerInv
<1>3. /\ t \in Tx /\ job.before \in Account /\ job # Idle
      /\ Priced(t) /\ job.before.balance >= MaxFee(t) + t.value /\ job.before.nonce = t.nonce
  BY <1>0, <1>1, <1>2, JobCases DEF JobInv
<1>4. MaxFee(t) \in Nat /\ t.sender \in Address /\ t.sender \in Senders /\ t.nonce \in Nat
  BY <1>3, PriceFacts
<1> DEFINE C == Charged(t)
<1>5. /\ C \in StateRecord /\ Clean(C.acct)
      /\ C.acct[t.sender].balance = job.before.balance - MaxFee(t)
      /\ Sum(acct) \in Nat /\ job.before.balance - MaxFee(t) \in Nat
      /\ Sum(C.acct) = Sum(acct) + (job.before.balance - MaxFee(t)) - acct[t.sender].balance
      /\ C.acct[t.sender].nonce = acct[t.sender].nonce + 1
      /\ \A x \in Address \ {t.sender} : C.acct[x] = acct[x]
  BY <1>0, <1>1, ChargedFacts
<1> HIDE DEF C
<1>6. /\ job'.step = "charged" /\ job'.tx = t /\ job'.before = job.before /\ job'.seen = C
      /\ acct' = C.acct /\ acct' \in [Address -> Account]
  BY <1>1, <1>5 DEF C, StateRecord
<1>7. TypeOK'
  <2>1. job' \in [step : {"charged"}, tx : Tx, before : Account, seen : StateRecord]
    BY <1>1, <1>3, <1>5 DEF C
  <2>2. raced' \in BOOLEAN
    BY <1>1, <1>2 DEF TypeOK
  <2> QED
    BY <1>1, <1>2, <1>6, <2>1, <2>2 DEF TypeOK
<1>8. JobInv'
  BY <1>3, <1>5, <1>6 DEF JobInv, Priced, ValidateTx, MaxFee, Clean
<1>9. (Clean(acct) /\ SimInv)'
  BY <1>1, <1>2, <1>5, <1>6 DEF Clean, SimInv
<1>10. ~raced' => ~raced /\ acct[t.sender] = job.before
  BY <1>1, <1>2 DEF TypeOK
<1>11. ~raced' => Sum(C.acct) = Sum(acct) - MaxFee(t)
  <2>1. job.before.balance \in Nat
    BY <1>3 DEF Account
  <2> QED
    BY <1>4, <1>5, <1>10, <2>1
<1>12. SupplyConserved'
  <2> SUFFICES ASSUME ~wrapped', ~raced' PROVE Sum(acct') + burned' + Held' = Sum(Initial)
    BY DEF SupplyConserved, Sum
  <2>1. Held' = MaxFee(t) /\ Held = 0
    BY <1>1, <1>6 DEF Held, MaxFee
  <2>2. Sum(acct) + burned + Held = Sum(Initial) /\ burned \in Nat
    BY <1>1, <1>2, <1>10 DEF SupplyConserved, TypeOK
  <2> QED
    BY <1>1, <1>4, <1>5, <1>6, <1>11, <2>1, <2>2
<1>13. SupplyInv'
  <2> SUFFICES ASSUME ~wrapped', ~raced'
               PROVE  /\ Sum(job'.seen.acct) < U256
                      /\ \A c \in Request : sim'[c] # Idle => Sum(sim'[c].seen.acct) < U256
    BY DEF SupplyInv, Sum
  <2>1. /\ Sum(acct) + burned + Held = Sum(Initial) /\ burned \in Nat /\ Held = 0
        /\ \A c \in Request : sim[c] # Idle => Sum(sim[c].seen.acct) < U256
    BY <1>1, <1>2, <1>10 DEF SupplyConserved, SupplyInv, TypeOK, Held
  <2>2. Sum(C.acct) < U256
    BY <1>4, <1>5, <1>11, <2>1, Widths
  <2> QED
    BY <1>1, <1>6, <2>1, <2>2
<1>14. NoReplay'
  BY <1>1, <1>2, <1>10 DEF NoReplay
<1>15. NonceInv'
  <2> SUFFICES ASSUME ~raced'
               PROVE  /\ \A u \in Tx : done'[u] > 0 => acct'[u.sender].nonce > u.nonce
                      /\ acct'[t.sender].nonce > t.nonce /\ done'[t] = 0
    BY <1>6 DEF NonceInv
  <2>1. /\ \A u \in Tx : done[u] > 0 => acct[u.sender].nonce > u.nonce
        /\ acct[t.sender].nonce = t.nonce /\ done' = done /\ done \in [Tx -> Nat]
        /\ acct \in [Address -> Account]
    BY <1>1, <1>2, <1>3, <1>10 DEF NonceInv, TypeOK
  <2>2. done[t] = 0
    BY <1>3, <1>4, <2>1
  <2>3. ASSUME NEW u \in Tx, done[u] > 0 PROVE acct'[u.sender].nonce > u.nonce
    <3>1. u.sender \in Address /\ u.nonce \in Nat
      BY ExecutorAssumption DEF TxRecord
    <3>2. acct'[u.sender].nonce >= acct[u.sender].nonce /\ acct[u.sender].nonce \in Nat
          /\ acct'[u.sender].nonce \in Nat
      BY <1>5, <1>6, <2>1, <3>1 DEF Account
    <3> QED
      BY <2>1, <2>3, <3>1, <3>2
  <2>4. acct'[t.sender].nonce > t.nonce
    BY <1>4, <1>5, <1>6, <2>1
  <2> QED
    BY <2>1, <2>2, <2>3, <2>4
<1> QED
  BY <1>7, <1>8, <1>9, <1>12, <1>13, <1>14, <1>15 DEF LedgerInv

\* What the last step of execute_tx is known to do.
LEMMA FinishFacts ==
    ASSUME LedgerInv, FinishTx
    PROVE  LET t == job.tx
               S == job.seen
           IN \E r \in Execute(S, t) :
                LET A == StoreAccounts(S, r)
                    gasUsed == GasUsed(t, r)
                IN /\ Settle(t, A, r.kind, gasUsed)
                   /\ store' = StoreSlots(S, r)
                   /\ wrapped' = (wrapped \/ gasUsed > t.gas \/ EffectiveGasPrice(t) * t.gas >= U256)
                   /\ raced' = (raced \/ Stale(S, r.wrote))
                   /\ job' = Idle /\ UNCHANGED <<sim, calls, runs>>
                   /\ t \in Tx /\ Priced(t) /\ S \in StateRecord /\ Clean(S.acct)
                   /\ r.kind \in {"ok", "revert", "err"} /\ gasUsed \in Nat /\ t.gas \in Nat
                   /\ ~IsCreate(t) => gasUsed <= t.gas
                   /\ ~IsCreate(t) /\ r.kind = "revert" =>
                        r.wrote = {t.sender, Coinbase} /\ r.s = [S EXCEPT !.acct[t.sender].nonce = @ + 1]
                   /\ A \in [Address -> Account] /\ Clean(A)
                   /\ store' \in [Address -> 0 .. 1]
                   /\ \A x \in Address \ r.wrote : A[x] = acct[x]
                   /\ \A x \in r.wrote \cap Address : A[x].balance = r.s.acct[x].balance
                   /\ ~Stale(S, r.wrote) =>
                        /\ Sum(S.acct) < U256 => Sum(A) = Sum(acct)
                        /\ \A s \in Senders : A[s].nonce >= acct[s].nonce
<1>0. PICK t, S : t = job.tx /\ S = job.seen
  OBVIOUS
<1>1. /\ job.step = "charged" /\ job' = Idle /\ UNCHANGED <<sim, calls, runs>>
  BY DEF FinishTx
<1>2. PICK r \in Execute(S, t) :
         /\ Settle(t, StoreAccounts(S, r), r.kind, GasUsed(t, r))
         /\ store' = StoreSlots(S, r)
         /\ wrapped' = (wrapped \/ GasUsed(t, r) > t.gas \/ EffectiveGasPrice(t) * t.gas >= U256)
         /\ raced' = (raced \/ Stale(S, r.wrote))
  BY <1>0 DEF FinishTx
<1>3. t \in Tx /\ Priced(t) /\ S \in StateRecord /\ Clean(S.acct)
  BY <1>0, <1>1, JobCases DEF LedgerInv, JobInv
<1>4. acct \in [Address -> Account] /\ Clean(acct) /\ store \in [Address -> 0 .. 1]
  BY DEF LedgerInv, TypeOK
<1>5. /\ r.kind \in {"ok", "revert", "err"} /\ Keeps(S, r.s)
      /\ \A x \in Address \ r.wrote : r.s.acct[x] = S.acct[x]
      /\ GasUsed(t, r) \in Nat
      /\ ~IsCreate(t) => GasUsed(t, r) <= t.gas
      /\ ~IsCreate(t) /\ r.kind = "revert" =>
           r.wrote = {t.sender, Coinbase} /\ r.s = [S EXCEPT !.acct[t.sender].nonce = @ + 1]
  BY <1>3, ExecuteFacts
<1>6. t.gas \in Nat
  BY <1>3, PriceFacts
<1>7. LET A == StoreAccounts(S, r)
      IN /\ A \in [Address -> Account] /\ Clean(A)
         /\ StoreSlots(S, r) \in [Address -> 0 .. 1]
         /\ \A x \in Address \ r.wrote : A[x] = acct[x]
         /\ \A x \in r.wrote \cap Address : A[x].balance = r.s.acct[x].balance
         /\ ~Stale(S, r.wrote) =>
              /\ Sum(S.acct) < U256 => Sum(A) = Sum(acct)
              /\ \A s \in Senders : A[s].nonce >= acct[s].nonce
  BY <1>3, <1>4, <1>5, StoreFacts
<1> QED
  BY <1>0, <1>1, <1>2, <1>3, <1>5, <1>6, <1>7, Zenon

LEMMA FinishTxStep ==
    ASSUME LedgerInv, FinishTx
    PROVE  LedgerInv'
<1>0. PICK t, S : t = job.tx /\ S = job.seen
  OBVIOUS
<1>1. PICK r \in Execute(S, t) :
         LET A == StoreAccounts(S, r)
             gasUsed == GasUsed(t, r)
         IN /\ Settle(t, A, r.kind, gasUsed)
            /\ wrapped' = (wrapped \/ gasUsed > t.gas \/ EffectiveGasPrice(t) * t.gas >= U256)
            /\ raced' = (raced \/ Stale(S, r.wrote))
            /\ job' = Idle /\ UNCHANGED <<sim, calls, runs>>
            /\ t \in Tx /\ Priced(t)
            /\ r.kind \in {"ok", "revert", "err"} /\ gasUsed \in Nat /\ t.gas \in Nat
            /\ A \in [Address -> Account] /\ Clean(A)
            /\ store' \in [Address -> 0 .. 1]
            /\ ~Stale(S, r.wrote) =>
                 /\ Sum(S.acct) < U256 => Sum(A) = Sum(acct)
                 /\ \A s \in Senders : A[s].nonce >= acct[s].nonce
  BY <1>0, FinishFacts, Zenon
<1> DEFINE A == StoreAccounts(S, r)
           gasUsed == GasUsed(t, r)
           price == EffectiveGasPrice(t)
<1>2. /\ TypeOK /\ Clean(acct) /\ JobInv /\ SimInv /\ SupplyConserved /\ SupplyInv /\ NoReplay /\ NonceInv
      /\ burned \in Nat /\ done \in [Tx -> Nat] /\ wrapped \in BOOLEAN /\ raced \in BOOLEAN
      /\ acct \in [Address -> Account] /\ job.step = "charged"
  BY DEF LedgerInv, TypeOK, FinishTx
<1>3. /\ acct' \in [Address -> Account] /\ Clean(acct')
      /\ \A x \in Address : acct'[x].nonce = A[x].nonce
      /\ burned' \in Nat /\ alive' \in BOOLEAN
      /\ gasUsed <= t.gas /\ price * t.gas < U256 => Sum(acct') + burned' = Sum(A) + burned + MaxFee(t)
      /\ \/ receipt' = receipt /\ done' = done
         \/ receipt' = Receipt(t.id, r.kind, gasUsed) /\ done' = [done EXCEPT ![t] = @ + 1]
  BY <1>1, <1>2, SettleFacts
<1>4. /\ wrapped' = (wrapped \/ gasUsed > t.gas \/ price * t.gas >= U256)
      /\ raced' = (raced \/ Stale(S, r.wrote)) /\ job' = Idle /\ job'.step = "idle"
      /\ UNCHANGED <<sim, calls, runs>> /\ t \in Tx /\ Priced(t)
      /\ gasUsed \in Nat /\ t.gas \in Nat /\ store' \in [Address -> 0 .. 1]
      /\ A \in [Address -> Account]
      /\ ~Stale(S, r.wrote) =>
           /\ Sum(S.acct) < U256 => Sum(A) = Sum(acct)
           /\ \A s \in Senders : A[s].nonce >= acct[s].nonce
  BY <1>1 DEF Idle
<1>5. price * t.gas \in Nat /\ MaxFee(t) \in Nat
  BY <1>4, PriceFacts, FeeFacts
<1> HIDE DEF A, gasUsed, price
<1>6. ~raced' => ~raced /\ ~Stale(S, r.wrote)
  BY <1>2, <1>4 DEF Stale
<1>7. ~wrapped' => ~wrapped /\ gasUsed <= t.gas /\ price * t.gas < U256
  <2> DEFINE m == price * t.gas
  <2>1. m \in Nat /\ wrapped' = (wrapped \/ gasUsed > t.gas \/ m >= U256)
    BY <1>4, <1>5
  <2> HIDE DEF m
  <2>2. ~wrapped' => ~wrapped /\ ~(gasUsed > t.gas) /\ ~(m >= U256)
    BY <1>2, <2>1
  <2>3. ~wrapped' => ~wrapped /\ gasUsed <= t.gas /\ m < U256
    BY <1>4, <2>1, <2>2, Widths
  <2> QED
    BY <2>3 DEF m
<1>8. TypeOK'
  <2>1. wrapped' \in BOOLEAN /\ raced' \in BOOLEAN
    BY <1>2, <1>4 DEF Stale
  <2>2. done' \in [Tx -> Nat] /\ receipt'.status \in {"none", "ok", "revert", "err"}
    BY <1>1, <1>2, <1>3 DEF Receipt, TypeOK
  <2> QED
    BY <1>2, <1>3, <1>4, <2>1, <2>2 DEF TypeOK
<1>9. (Clean(acct) /\ JobInv /\ SimInv)'
  BY <1>2, <1>3, <1>4 DEF Clean, JobInv, SimInv
<1>10. SupplyConserved'
  <2> SUFFICES ASSUME ~wrapped', ~raced' PROVE Sum(acct') + burned' + Held' = Sum(Initial)
    BY DEF SupplyConserved, Sum
  <2>1. Held' = 0 /\ Held = MaxFee(t)
    BY <1>0, <1>2, <1>4 DEF Held
  <2>2. Sum(acct) + burned + Held = Sum(Initial) /\ Sum(S.acct) < U256
    BY <1>0, <1>2, <1>6, <1>7 DEF SupplyConserved, SupplyInv
  <2>3. Sum(A) = Sum(acct)
    BY <1>4, <1>6, <2>2
  <2>4. Sum(acct') \in Nat /\ Sum(acct) \in Nat
    BY <1>2, <1>3, SumNat
  <2>5. Sum(acct') + burned' = Sum(A) + burned + MaxFee(t)
    BY <1>3, <1>7
  <2> QED
    BY <1>2, <1>3, <1>5, <2>1, <2>2, <2>3, <2>4, <2>5
<1>11. SupplyInv'
  BY <1>2, <1>4, <1>6, <1>7 DEF SupplyInv, Sum
<1>12. ~raced' => done[t] = 0 /\ acct'[t.sender].nonce > t.nonce
                  /\ \A s \in Senders : acct'[s].nonce >= acct[s].nonce
  <2> SUFFICES ASSUME ~raced'
               PROVE  done[t] = 0 /\ acct'[t.sender].nonce > t.nonce
                      /\ \A s \in Senders : acct'[s].nonce >= acct[s].nonce
    OBVIOUS
  <2>1. acct[t.sender].nonce > t.nonce /\ done[t] = 0
    BY <1>0, <1>2, <1>6 DEF NonceInv
  <2>2. \A s \in Senders : acct'[s].nonce >= acct[s].nonce
    BY <1>3, <1>4, <1>6, SendersAreAddresses
  <2>3. t.sender \in Senders /\ t.sender \in Address /\ t.nonce \in Nat
    BY <1>4, PriceFacts
  <2>4. acct[t.sender].nonce \in Nat /\ acct'[t.sender].nonce \in Nat
    BY <1>2, <1>3, <2>3 DEF Account
  <2> QED
    BY <2>1, <2>2, <2>3, <2>4
<1>13. NoReplay'
  BY <1>2, <1>3, <1>4, <1>6, <1>12 DEF NoReplay
<1>14. NonceInv'
  <2> SUFFICES ASSUME ~raced', NEW u \in Tx, done'[u] > 0 PROVE acct'[u.sender].nonce > u.nonce
    BY <1>4 DEF NonceInv
  <2>1. CASE u = t
    BY <1>12, <2>1
  <2>2. CASE u # t
    <3>1. done'[u] = done[u]
      BY <1>2, <1>3, <2>2
    <3>2. u.sender \in Senders /\ u.sender \in Address /\ u.nonce \in Nat
      BY SendersAreAddresses, ExecutorAssumption DEF Senders, TxRecord
    <3>3. acct[u.sender].nonce > u.nonce /\ acct'[u.sender].nonce >= acct[u.sender].nonce
      BY <1>2, <1>6, <1>12, <3>1, <3>2 DEF NonceInv
    <3>4. acct[u.sender].nonce \in Int /\ acct'[u.sender].nonce \in Int
      BY <1>2, <1>3, <3>2 DEF Account
    <3> QED
      BY <3>2, <3>3, <3>4
  <2> QED
    BY <2>1, <2>2
<1> QED
  BY <1>8, <1>9, <1>10, <1>11, <1>13, <1>14 DEF LedgerInv

\* A request reads the state.
LEMMA BeginCallStep ==
    ASSUME LedgerInv, NEW c \in Request, NEW q \in Calls, BeginCall(c, q)
    PROVE  LedgerInv'
<1> DEFINE n == [step |-> "running", call |-> q, seen |-> State]
<1>1. /\ calls < MaxCalls /\ calls' = calls + 1 /\ sim' = [sim EXCEPT ![c] = n]
      /\ UNCHANGED <<acct, store, alive, job, receipt, done, burned, wrapped, raced, runs>>
  BY DEF BeginCall
<1>2. /\ TypeOK /\ Clean(acct) /\ JobInv /\ SimInv /\ SupplyConserved /\ SupplyInv /\ NoReplay /\ NonceInv
  BY DEF LedgerInv
<1>3. /\ State \in StateRecord /\ State.acct = acct
      /\ n \in [step : {"running"}, call : Calls, seen : StateRecord] /\ n.seen = State
  BY <1>2 DEF TypeOK, State, StateRecord
<1>4. sim'[c] = n /\ \A d \in Request \ {c} : sim'[d] = sim[d]
  BY <1>1, <1>2 DEF TypeOK
<1> HIDE DEF n
<1>5. TypeOK'
  <2>1. sim' \in [Request -> {Idle} \cup [step : {"running"}, call : Calls, seen : StateRecord]]
    BY <1>1, <1>2, <1>3 DEF TypeOK
  <2>2. calls' \in 0 .. MaxCalls
    BY <1>1, <1>2, ExecutorAssumption DEF TypeOK
  <2> QED
    BY <1>1, <1>2, <2>1, <2>2 DEF TypeOK
<1>6. SimInv'
  BY <1>2, <1>3, <1>4 DEF SimInv, Clean
<1>7. SupplyInv'
  <2> SUFFICES ASSUME ~wrapped, ~raced
               PROVE  /\ job.step = "charged" => Sum(job.seen.acct) < U256
                      /\ \A d \in Request : sim'[d] # Idle => Sum(sim'[d].seen.acct) < U256
    BY <1>1 DEF SupplyInv, Sum
  <2>1. /\ Sum(acct) + burned + Held = Sum(Initial)
        /\ job.step = "charged" => Sum(job.seen.acct) < U256
        /\ \A d \in Request : sim[d] # Idle => Sum(sim[d].seen.acct) < U256
    BY <1>2 DEF SupplyConserved, SupplyInv
  <2>2. Held \in Nat /\ burned \in Nat /\ Sum(acct) \in Nat
    BY <1>2, JobCases, PriceFacts, SumNat DEF Held, JobInv, TypeOK
  <2>3. Sum(acct) < U256
    BY <2>1, <2>2, Widths
  <2> QED
    BY <1>3, <1>4, <2>1, <2>3
<1>8. (Clean(acct) /\ JobInv /\ SupplyConserved /\ NoReplay /\ NonceInv)'
  BY <1>1, <1>2 DEF Clean, JobInv, Priced, ValidateTx, MaxFee, SupplyConserved, Held, Sum, NoReplay, NonceInv
<1> QED
  BY <1>5, <1>6, <1>7, <1>8 DEF LedgerInv

\* eth_call stores what it did: on accounts that have not changed since it read
\* them, the state has the same tokens and no smaller nonce.
LEMMA DryRunStep ==
    ASSUME LedgerInv, NEW c \in Request, CallDryRun(c)
    PROVE  LedgerInv'
<1>0. PICK S, q : S = sim[c].seen /\ q = sim[c].call
  OBVIOUS
<1>1. PICK r \in ExecuteCall(S, q.from, q.to, q.value, EnvGas, {}) :
        acct' = StoreAccounts(S, r) /\ store' = StoreSlots(S, r) /\ raced' = (raced \/ Stale(S, r.wrote))
  BY <1>0 DEF CallDryRun
<1>2. /\ sim[c].step = "running" /\ sim' = [sim EXCEPT ![c] = Idle]
      /\ UNCHANGED <<alive, job, receipt, done, burned, wrapped, calls, runs>>
  BY DEF CallDryRun
<1>3. /\ TypeOK /\ Clean(acct) /\ JobInv /\ SimInv /\ SupplyConserved /\ SupplyInv /\ NoReplay /\ NonceInv
      /\ acct \in [Address -> Account] /\ store \in [Address -> 0 .. 1] /\ raced \in BOOLEAN
  BY DEF LedgerInv, TypeOK
<1>4. sim[c] # Idle
  BY <1>2 DEF Idle
<1>5. S \in StateRecord /\ q \in Calls /\ Clean(S.acct)
  BY <1>0, <1>3, <1>4, SimCases DEF SimInv
<1>6. q.from \in Address /\ q.to \in Address /\ q.value \in Nat /\ EnvGas \in Nat
  BY <1>5, ExecutorAssumption
<1>7. Keeps(S, r.s) /\ \A x \in Address \ r.wrote : r.s.acct[x] = S.acct[x]
  <2>1. r \in ExecuteCall(S, q.from, q.to, q.value, EnvGas, {})
    BY <1>1
  <2>2. Outcome(S, q.from, EnvGas, {}, r)
    BY SMTT(30), <1>5, <1>6, <2>1, ExecuteCallFacts
  <2> QED
    BY <2>2 DEF Outcome
<1>8. /\ acct' \in [Address -> Account] /\ Clean(acct') /\ store' \in [Address -> 0 .. 1]
      /\ ~Stale(S, r.wrote) =>
           /\ Sum(S.acct) < U256 => Sum(acct') = Sum(acct)
           /\ \A s \in Senders : acct'[s].nonce >= acct[s].nonce
  BY <1>1, <1>3, <1>5, <1>7, StoreFacts
<1>9. ~raced' => ~raced /\ ~Stale(S, r.wrote)
  BY <1>1, <1>3 DEF Stale
<1>10. sim' \in [Request -> {Idle} \cup [step : {"running"}, call : Calls, seen : StateRecord]]
       /\ sim'[c] = Idle /\ \A d \in Request \ {c} : sim'[d] = sim[d]
  BY <1>2, <1>3 DEF TypeOK
<1>11. TypeOK'
  <2>1. raced' \in BOOLEAN
    BY <1>1, <1>3 DEF Stale
  <2> QED
    BY <1>2, <1>3, <1>8, <1>10, <2>1 DEF TypeOK
<1>12. SupplyConserved'
  <2> SUFFICES ASSUME ~wrapped', ~raced' PROVE Sum(acct') + burned' + Held' = Sum(Initial)
    BY DEF SupplyConserved, Sum
  <2>1. Sum(acct) + burned + Held = Sum(Initial) /\ Sum(S.acct) < U256
    BY <1>0, <1>2, <1>3, <1>4, <1>9 DEF SupplyConserved, SupplyInv
  <2>2. Held' = Held
    BY <1>2 DEF Held, MaxFee
  <2> QED
    BY <1>2, <1>8, <1>9, <2>1, <2>2
<1>13. SupplyInv'
  BY <1>2, <1>3, <1>9, <1>10 DEF SupplyInv, Sum
<1>14. NoReplay'
  BY <1>2, <1>3, <1>9 DEF NoReplay
<1>15. NonceInv'
  <2> SUFFICES ASSUME ~raced', NEW t \in Tx, acct[t.sender].nonce > t.nonce
               PROVE  acct'[t.sender].nonce > t.nonce
    BY <1>2, <1>3, <1>9, JobCases DEF NonceInv
  <2>1. t.sender \in Senders /\ t.sender \in Address /\ t.nonce \in Nat
    BY SendersAreAddresses, ExecutorAssumption DEF Senders, TxRecord
  <2>2. acct'[t.sender].nonce >= acct[t.sender].nonce
    BY <1>8, <1>9, <2>1
  <2>3. acct[t.sender].nonce \in Int /\ acct'[t.sender].nonce \in Int
    BY <1>3, <1>8, <2>1 DEF Account
  <2> QED
    BY <2>1, <2>2, <2>3
<1>16. (Clean(acct) /\ JobInv /\ SimInv)'
  BY <1>2, <1>3, <1>8, <1>10 DEF Clean, JobInv, Priced, ValidateTx, MaxFee, SimInv
<1> QED
  BY <1>11, <1>12, <1>13, <1>14, <1>15, <1>16 DEF LedgerInv

LEMMA LedgerStutter ==
    ASSUME LedgerInv, UNCHANGED vars
    PROVE  LedgerInv'
BY DEF LedgerInv, vars, TypeOK, Clean, JobInv, Priced, ValidateTx, MaxFee, SimInv, SupplyConserved, Held,
       SupplyInv, Sum, NoReplay, NonceInv

LEMMA LedgerStep == LedgerInv /\ [Next]_vars => LedgerInv'
<1> SUFFICES ASSUME LedgerInv, [Next]_vars PROVE LedgerInv'
  OBVIOUS
<1>1. ASSUME NEW t \in Tx, CheckTx(t) \/ RefuseTx(t) PROVE LedgerInv'
  BY <1>1, CheckTxStep, RefuseTxStep
<1>2. CASE ChargeTx
  BY <1>2, ChargeTxStep
<1>3. CASE FinishTx
  BY <1>3, FinishTxStep
<1>4. ASSUME NEW c \in Request, NEW q \in Calls, BeginCall(c, q) PROVE LedgerInv'
  BY <1>4, BeginCallStep
<1>5. ASSUME NEW c \in Request, CallDryRun(c) PROVE LedgerInv'
  BY <1>5, DryRunStep
<1>6. CASE UNCHANGED vars
  BY <1>6, LedgerStutter
<1> QED
  BY <1>1, <1>2, <1>3, <1>4, <1>5, <1>6 DEF Next, DryRuns, Dead

LEMMA LedgerInvariant == Spec => []LedgerInv
BY LedgerInit, LedgerStep, PTL DEF Spec

-----------------------------------------------------------------------------
(* The theorems *)

\* execute_tx and eth_call create no tokens: whatever transfers, failures that
\* are not rolled back, refunds, fees, panics and deleted contracts do, and
\* however the steps of transactions and simulated calls interleave, the
\* balances, the fee that is held and the burned fees add up to the genesis
\* supply, until an account is written back over a change or a fee wraps.
THEOREM SupplyProved == Spec => []SupplyConserved
<1>1. LedgerInv => SupplyConserved
  BY DEF LedgerInv
<1> QED
  BY <1>1, LedgerInvariant, PTL

\* execute_tx issues at most one receipt for a transaction, with simulated calls
\* between its steps and with fees that wrap, until an account is written back
\* over a change.
THEOREM NoReplayProved == Spec => []NoReplay
<1>1. LedgerInv => NoReplay
  BY DEF LedgerInv
<1> QED
  BY <1>1, LedgerInvariant, PTL

\* Only a contract creation makes execute_tx use more gas than its limit, and
\* only a price beyond a U256 makes its fee wrap.
LEMMA CallWithinLimit ==
    ASSUME LedgerInv, FinishTx, ~IsCreate(job.tx), EffectiveGasPrice(job.tx) * job.tx.gas < U256
    PROVE  wrapped' = wrapped
<1>0. PICK t : t = job.tx
  OBVIOUS
<1>1. PICK r \in Execute(job.seen, t) :
         /\ wrapped' = (wrapped \/ GasUsed(t, r) > t.gas \/ EffectiveGasPrice(t) * t.gas >= U256)
         /\ t \in Tx /\ Priced(t) /\ GasUsed(t, r) \in Nat /\ t.gas \in Nat
         /\ ~IsCreate(t) => GasUsed(t, r) <= t.gas
  BY <1>0, FinishFacts, Zenon
<1> DEFINE m == EffectiveGasPrice(t) * t.gas
           g == GasUsed(t, r)
<1>2. m \in Nat /\ m < U256 /\ g \in Nat /\ g <= t.gas /\ wrapped' = (wrapped \/ g > t.gas \/ m >= U256)
      /\ t.gas \in Nat
  BY <1>0, <1>1, PriceFacts, FeeFacts
<1>3. wrapped \in BOOLEAN
  BY DEF LedgerInv, TypeOK
<1> HIDE DEF m, g
<1>4. ~(g > t.gas) /\ ~(m >= U256)
  BY <1>2, Widths
<1> QED
  BY <1>2, <1>3, <1>4

\* What a message call that reverts leaves behind.
LEMMA RevertCosts ==
    ASSUME LedgerInv, FinishTx, NEW t, t = job.tx, done' # done,
           receipt'.status = "revert", ~IsCreate(t)
    PROVE  /\ store' = store
           /\ \A x \in Address \ {t.sender, Coinbase} : acct'[x] = acct[x]
           /\ ~raced' /\ ~wrapped' /\ t.sender # Coinbase =>
                 acct'[t.sender].balance =
                     job.before.balance - EffectiveGasPrice(t) * receipt'.gas
<1>0. PICK S : S = job.seen
  OBVIOUS
<1>1. PICK r \in Execute(S, t) :
         LET A == StoreAccounts(S, r)
             gasUsed == GasUsed(t, r)
         IN /\ Settle(t, A, r.kind, gasUsed)
            /\ store' = StoreSlots(S, r)
            /\ wrapped' = (wrapped \/ gasUsed > t.gas \/ EffectiveGasPrice(t) * t.gas >= U256)
            /\ t \in Tx /\ Priced(t) /\ S \in StateRecord /\ Clean(S.acct)
            /\ gasUsed \in Nat /\ t.gas \in Nat /\ gasUsed <= t.gas
            /\ r.kind = "revert" =>
                 r.wrote = {t.sender, Coinbase} /\ r.s = [S EXCEPT !.acct[t.sender].nonce = @ + 1]
            /\ A \in [Address -> Account] /\ Clean(A)
            /\ \A x \in Address \ r.wrote : A[x] = acct[x]
            /\ \A x \in r.wrote \cap Address : A[x].balance = r.s.acct[x].balance
  BY <1>0, FinishFacts, Zenon
<1> DEFINE A == StoreAccounts(S, r)
           gasUsed == GasUsed(t, r)
           price == EffectiveGasPrice(t)
           g == (t.gas - gasUsed) % U64
<1>2. /\ burned \in Nat /\ done \in [Tx -> Nat] /\ wrapped \in BOOLEAN /\ store \in [Address -> 0 .. 1]
      /\ job.step = "charged" /\ job.before \in Account
      /\ S.acct[t.sender].balance = job.before.balance - MaxFee(t)
  BY <1>0, JobCases DEF LedgerInv, TypeOK, FinishTx, JobInv
<1>3. /\ \A x \in Address \ {t.sender, Coinbase} : acct'[x] = A[x]
      /\ receipt' = Receipt(t.id, r.kind, gasUsed)
      /\ t.sender # Coinbase => acct'[t.sender].balance = A[t.sender].balance + Fee(price, g)
  <2>1. /\ \A x \in Address \ {t.sender, Coinbase} : acct'[x] = A[x]
        /\ \/ receipt' = receipt /\ done' = done
           \/ /\ receipt' = Receipt(t.id, r.kind, gasUsed) /\ done' = [done EXCEPT ![t] = @ + 1]
              /\ t.sender # Coinbase => acct'[t.sender].balance = A[t.sender].balance + Fee(price, g)
    BY <1>1, <1>2, SettleFacts
  <2> HIDE DEF A, gasUsed, price, g
  <2> QED
    BY <2>1
<1>4. r.kind = "revert" /\ receipt'.gas = gasUsed
  BY <1>3 DEF Receipt
<1>5. r.wrote = {t.sender, Coinbase} /\ r.s = [S EXCEPT !.acct[t.sender].nonce = @ + 1]
  BY <1>1, <1>4
<1>6. /\ price \in Nat /\ t.gas \in Nat /\ t.gas < U64 /\ MaxFee(t) \in Nat /\ t.sender \in Address
      /\ MaxFee(t) = Fee(price, t.gas)
  BY <1>1, PriceFacts DEF MaxFee
<1>7. r.s.store = S.store /\ r.s.acct[t.sender].balance = S.acct[t.sender].balance
  BY <1>1, <1>5, <1>6, NonceBump
<1>8. store' = store
  BY <1>1, <1>2, <1>7 DEF StoreSlots
<1>9. \A x \in Address \ {t.sender, Coinbase} : acct'[x] = acct[x]
  BY <1>1, <1>3, <1>5
<1>10. A[t.sender].balance = job.before.balance - MaxFee(t)
  BY <1>1, <1>2, <1>5, <1>6, <1>7
<1>11. gasUsed \in Nat /\ gasUsed <= t.gas /\ job.before.balance \in Nat
  BY <1>1, <1>2 DEF Account
<1>12. ~wrapped' => price * t.gas < U256
  <2> DEFINE m == price * t.gas
  <2>1. m \in Nat /\ wrapped' = (wrapped \/ gasUsed > t.gas \/ m >= U256)
    BY <1>1, <1>6, FeeFacts
  <2> HIDE DEF m
  <2>2. ~wrapped' => ~(m >= U256)
    BY <1>2, <2>1
  <2>3. ~wrapped' => m < U256
    BY <2>1, <2>2, Widths
  <2> QED
    BY <2>3 DEF m
<1> HIDE DEF A, gasUsed, price, g
<1>13. g = t.gas - gasUsed /\ g \in Nat
  <2>1. t.gas - gasUsed \in Int /\ 0 <= t.gas - gasUsed /\ t.gas - gasUsed < U64
    BY <1>6, <1>11, Widths
  <2> QED
    BY <1>11, <2>1, Widths, Modulo DEF g
<1>14. ASSUME ~wrapped', t.sender # Coinbase
       PROVE  acct'[t.sender].balance = job.before.balance - price * gasUsed
  <2>1. /\ price * t.gas \in Nat /\ price * gasUsed \in Nat /\ price * g \in Nat
        /\ price * (t.gas - gasUsed) = price * t.gas - price * gasUsed
    BY <1>6, <1>11, <1>13, Products
  <2> DEFINE m == price * t.gas
             u == price * gasUsed
             h == price * g
  <2>2. h = m - u /\ m \in Nat /\ u \in Nat /\ h \in Nat /\ m < U256
    BY <1>12, <1>13, <1>14, <2>1
  <2>3. (m < U256 => Fee(price, t.gas) = m) /\ (h < U256 => Fee(price, g) = h)
    BY <1>6, <1>13, FeeFacts
  <2>4. acct'[t.sender].balance = (job.before.balance - MaxFee(t)) + Fee(price, g)
    BY <1>3, <1>10, <1>14
  <2> HIDE DEF m, u, h
  <2>5. h < U256
    BY <2>2, Widths
  <2>6. acct'[t.sender].balance = job.before.balance - u
    BY <1>6, <1>11, <2>2, <2>3, <2>4, <2>5
  <2> QED
    BY <2>6 DEF u
<1> QED
  BY <1>4, <1>8, <1>9, <1>14 DEF price

\* A message call uses no more than its gas limit, and one that reverts costs
\* its sender the fee for the gas of the receipt, counted from the balance
\* execute_tx read first, and touches nobody else but the coinbase, although
\* nothing of it is journaled and simulated calls run between its steps.
THEOREM CallsSettledProved == Spec => CallsAreSettled
<1>1. LedgerInv => TypeOK
  BY DEF LedgerInv
<1>2. ASSUME LedgerInv, [Next]_vars
      PROVE  [wrapped' # wrapped =>
                IsCreate(job.tx) \/ EffectiveGasPrice(job.tx) * job.tx.gas >= U256]_vars
  <2> SUFFICES ASSUME wrapped' # wrapped, ~IsCreate(job.tx)
               PROVE  EffectiveGasPrice(job.tx) * job.tx.gas >= U256
    OBVIOUS
  <2>1. FinishTx
    BY <1>2 DEF Next, CheckTx, RefuseTx, ChargeTx, BeginCall, DryRuns, CallDryRun, Dead, vars
  <2>2. job.tx \in Tx /\ Priced(job.tx)
    BY <1>2, <2>1, JobCases DEF LedgerInv, JobInv, FinishTx
  <2>3. EffectiveGasPrice(job.tx) \in Nat /\ job.tx.gas \in Nat
    BY <2>2, PriceFacts
  <2> DEFINE m == EffectiveGasPrice(job.tx) * job.tx.gas
  <2>4. m \in Nat
    BY <2>3, FeeFacts
  <2>5. ~(m < U256)
    BY <1>2, <2>1, CallWithinLimit
  <2> HIDE DEF m
  <2>6. m >= U256
    BY <2>4, <2>5, Widths
  <2> QED
    BY <2>6 DEF m
<1>3. ASSUME LedgerInv, [Next]_vars
      PROVE  [\A t \in Tx : done'[t] > done[t] /\ receipt'.status = "revert" /\ ~IsCreate(t) =>
                /\ store' = store
                /\ \A x \in Address \ {t.sender, Coinbase} : acct'[x] = acct[x]
                /\ ~raced' /\ ~wrapped' /\ t.sender # Coinbase =>
                      acct'[t.sender].balance =
                          job.before.balance - EffectiveGasPrice(t) * receipt'.gas]_vars
  <2> SUFFICES ASSUME NEW t \in Tx, done'[t] > done[t], receipt'.status = "revert", ~IsCreate(t)
               PROVE  /\ store' = store
                      /\ \A x \in Address \ {t.sender, Coinbase} : acct'[x] = acct[x]
                      /\ ~raced' /\ ~wrapped' /\ t.sender # Coinbase =>
                            acct'[t.sender].balance =
                                job.before.balance - EffectiveGasPrice(t) * receipt'.gas
    OBVIOUS
  <2>1. done \in [Tx -> Nat]
    BY <1>3 DEF LedgerInv, TypeOK
  <2>2. done' # done
    BY <2>1
  <2>3. FinishTx
    BY <1>3, <2>2 DEF Next, CheckTx, RefuseTx, ChargeTx, BeginCall, DryRuns, CallDryRun, Dead, vars
  <2>4. t = job.tx
    <3>1. done' = [done EXCEPT ![job.tx] = @ + 1] \/ done' = done
      BY <2>3, Zenon DEF FinishTx, Settle
    <3> QED
      BY <2>1, <2>2, <3>1
  <2> QED
    BY <1>3, <2>2, <2>3, <2>4, RevertCosts
<1> QED
  BY <1>1, <1>2, <1>3, LedgerInvariant, PTL
     DEF Spec, CallsAreSettled, CallsStayWithinLimit, RevertOnlyCosts

-----------------------------------------------------------------------------
(* The gas meter and the fee market *)

\* The defaults of GasSchedule satisfy this, and those of FeeMarket with any cap
\* from their first fee on.
GasSetting ==
    /\ Target \in Nat \ {0} /\ Denominator \in Nat \ {0}
    /\ MinBaseFee \in Nat /\ MaxBaseFee \in Nat /\ StartFee \in MinBaseFee .. MaxBaseFee
    /\ ColdSload \in Nat /\ SloadWarm \in Nat /\ ClearRefund \in Nat
    /\ SstoreSet \in Nat /\ SstoreReset \in Nat
    /\ SloadWarm <= SstoreSet /\ SloadWarm <= SstoreReset
    /\ Slot \subseteq Nat

\* What a slot has cost beside its accesses, and gives back when it is restored
Outstanding ==
    IF current = original THEN 0
    ELSE IF original = 0 THEN SstoreSet - SloadWarm
    ELSE SstoreReset - SloadWarm - (IF current = 0 THEN ClearRefund ELSE 0)

Accesses == (IF writes > 0 THEN ColdSload ELSE 0) + writes * SloadWarm

GasTypeOK ==
    /\ baseFee \in MinBaseFee .. MaxBaseFee
    /\ original \in Nat /\ current \in Nat
    /\ used \in Nat /\ refund \in Int /\ writes \in Nat

\* The refund for clearing a slot is there as long as the slot is cleared.
RefundIsThere == refund >= (IF original # 0 /\ current = 0 THEN ClearRefund ELSE 0)

CostIsKnown == used - refund = Accesses + Outstanding

GasInv == GasTypeOK /\ RefundIsThere /\ CostIsKnown

LEMMA MaxMin ==
    ASSUME NEW x \in Int, NEW y \in Int
    PROVE  /\ Max({x, y}) = IF x >= y THEN x ELSE y
           /\ Min({x, y}) = IF x <= y THEN x ELSE y
<1>1. ASSUME NEW v \in {x, y}, \A w \in {x, y} : v >= w
      PROVE  Max({x, y}) = v
  BY <1>1 DEF Max
<1>2. ASSUME NEW v \in {x, y}, \A w \in {x, y} : v <= w
      PROVE  Min({x, y}) = v
  BY <1>2 DEF Min
<1>3. Max({x, y}) = IF x >= y THEN x ELSE y
  <2>1. CASE x >= y
    BY <1>1, <2>1
  <2>2. CASE ~(x >= y)
    BY <1>1, <2>2
  <2> QED
    BY <2>1, <2>2
<1>4. Min({x, y}) = IF x <= y THEN x ELSE y
  <2>1. CASE x <= y
    BY <1>2, <2>1
  <2>2. CASE ~(x <= y)
    BY <1>2, <2>2
  <2> QED
    BY <2>1, <2>2
<1> QED
  BY <1>3, <1>4

LEMMA DeltaIsBounded ==
    ASSUME GasSetting, baseFee \in Nat, NEW g \in 0 .. Target
    PROVE  FeeDelta(g) \in Nat /\ Denominator * FeeDelta(g) <= baseFee
<1>1. Target \in Nat /\ Target > 0 /\ Denominator \in Nat /\ Denominator > 0 /\ g \in Nat /\ g <= Target
  BY DEF GasSetting
<1> DEFINE q == (baseFee * g) \div Target
<1>2. q \in Nat /\ q <= baseFee
  BY <1>1, DividesPart
<1>3. FeeDelta(g) = q \div Denominator
  BY DEF FeeDelta
<1> HIDE DEF q
<1>4. q \div Denominator \in Nat /\ Denominator * (q \div Denominator) <= q
  BY <1>1, <1>2, Divides
<1> DEFINE m == Denominator * (q \div Denominator)
<1>5. m \in Nat
  BY <1>1, <1>4
<1> QED
  BY <1>1, <1>2, <1>3, <1>4, <1>5

\* next_base_fee keeps the fee within its limits and its step within its bound.
LEMMA FeeMoves ==
    ASSUME GasSetting, GasTypeOK, NEW gas \in 0 .. 2 * Target,
           NEW next, next = NextBaseFee(gas)
    PROVE  /\ next \in MinBaseFee .. MaxBaseFee
           /\ Denominator * (next - baseFee) <= Max({baseFee, Denominator})
           /\ Denominator * (baseFee - next) <= baseFee
           /\ gas > Target /\ baseFee < MaxBaseFee => next > baseFee
           /\ gas < Target => next <= baseFee
<1>1. /\ Target \in Nat /\ Target > 0 /\ Denominator \in Nat /\ Denominator > 0
      /\ MinBaseFee \in Nat /\ MaxBaseFee \in Nat /\ MinBaseFee <= MaxBaseFee
      /\ baseFee \in Nat /\ MinBaseFee <= baseFee /\ baseFee <= MaxBaseFee /\ gas \in Nat /\ gas <= 2 * Target
  BY DEF GasSetting, GasTypeOK
<1>2. Max({baseFee, Denominator}) = IF baseFee >= Denominator THEN baseFee ELSE Denominator
  BY <1>1, MaxMin
<1>3. CASE gas = Target
  <2>1. next = baseFee
    BY <1>3 DEF NextBaseFee
  <2> QED
    BY <1>1, <1>2, <1>3, <2>1
<1>4. CASE gas > Target
  <2> DEFINE d == FeeDelta(gas - Target)
             e == IF d >= 1 THEN d ELSE 1
  <2>1. gas - Target \in 0 .. Target
    BY <1>1, <1>4
  <2>2. d \in Nat /\ Denominator * d <= baseFee
    BY <1>1, <2>1, DeltaIsBounded
  <2>3. next = Min({Max({baseFee + Max({d, 1}), MinBaseFee}), MaxBaseFee})
    BY <1>1, <1>4 DEF NextBaseFee
  <2> HIDE DEF d
  <2>4. Max({d, 1}) = e /\ e \in Nat /\ e >= 1
    BY <2>2, MaxMin
  <2>5. Denominator * e <= Max({baseFee, Denominator})
    BY <1>1, <1>2, <2>2
  <2> HIDE DEF e
  <2>6. Max({baseFee + e, MinBaseFee}) = baseFee + e
    BY <1>1, <2>4, MaxMin
  <2>7. next = IF baseFee + e <= MaxBaseFee THEN baseFee + e ELSE MaxBaseFee
    <3>1. next = Min({baseFee + e, MaxBaseFee})
      BY ONLY <2>3, <2>4, <2>6
    <3>2. baseFee + e \in Int /\ MaxBaseFee \in Int
      BY <1>1, <2>4
    <3>3. Min({baseFee + e, MaxBaseFee}) = IF baseFee + e <= MaxBaseFee THEN baseFee + e ELSE MaxBaseFee
      BY ONLY <3>2, MaxMin
    <3> QED
      BY ONLY <3>1, <3>3
  <2>8. /\ next \in Nat /\ next >= baseFee /\ next - baseFee <= e /\ next <= MaxBaseFee
        /\ baseFee < MaxBaseFee => next > baseFee
    BY <1>1, <2>4, <2>7
  <2>9. Denominator * (next - baseFee) <= Denominator * e /\ Denominator * (baseFee - next) <= 0
    BY <1>1, <2>4, <2>8
  <2> QED
    BY <1>1, <1>2, <1>4, <2>4, <2>5, <2>8, <2>9
<1>5. CASE gas < Target
  <2> DEFINE d == FeeDelta(Target - gas)
             e == IF baseFee - d >= 0 THEN baseFee - d ELSE 0
             l == IF e >= MinBaseFee THEN e ELSE MinBaseFee
  <2>1. Target - gas \in 0 .. Target
    BY <1>1, <1>5
  <2>2. d \in Nat /\ Denominator * d <= baseFee
    BY <1>1, <2>1, DeltaIsBounded
  <2>3. next = Min({Max({Max({baseFee - d, 0}), MinBaseFee}), MaxBaseFee})
    <3>1. gas # Target /\ ~(gas > Target)
      BY <1>1, <1>5
    <3> QED
      BY <3>1 DEF NextBaseFee
  <2> HIDE DEF d
  <2>4. Max({baseFee - d, 0}) = e /\ e \in Nat /\ e <= baseFee /\ baseFee - e <= d
    BY <1>1, <2>2, MaxMin
  <2> HIDE DEF e
  <2>5. Max({e, MinBaseFee}) = l /\ l \in Nat /\ l >= MinBaseFee /\ l <= baseFee /\ baseFee - l <= d
    BY <1>1, <2>2, <2>4, MaxMin
  <2> HIDE DEF l
  <2>6. next = l
    <3>1. next = Min({l, MaxBaseFee})
      BY ONLY <2>3, <2>4, <2>5
    <3>2. l \in Int /\ MaxBaseFee \in Int /\ l <= MaxBaseFee
      BY <1>1, <2>5
    <3>3. Min({l, MaxBaseFee}) = l
      BY ONLY <3>2, MaxMin
    <3> QED
      BY ONLY <3>1, <3>3
  <2>7. Denominator * (baseFee - next) <= Denominator * d /\ Denominator * (next - baseFee) <= 0
    BY <1>1, <2>2, <2>5, <2>6
  <2> QED
    BY <1>1, <1>2, <1>5, <2>2, <2>5, <2>6, <2>7
<1> QED
  BY <1>1, <1>3, <1>4, <1>5

LEMMA SstoreStep ==
    ASSUME GasSetting, GasInv, NEW new \in Nat, Sstore(new)
    PROVE  GasInv'
<1>1. /\ ColdSload \in Nat /\ SloadWarm \in Nat /\ ClearRefund \in Nat
      /\ SstoreSet \in Nat /\ SstoreReset \in Nat
      /\ SloadWarm <= SstoreSet /\ SloadWarm <= SstoreReset
      /\ original \in Nat /\ current \in Nat
      /\ used \in Nat /\ refund \in Int /\ writes \in Nat
  BY DEF GasSetting, GasInv, GasTypeOK
<1>2. /\ used' = used + SstoreCost(new) /\ refund' = refund + SstoreRefund(new)
      /\ current' = new /\ writes' = writes + 1 /\ UNCHANGED <<baseFee, original>>
  BY DEF Sstore
<1>3. SstoreCost(new) \in Nat /\ SstoreRefund(new) \in Int
  BY <1>1 DEF SstoreCost, SstoreRefund
<1>4. Accesses' = Accesses + SloadWarm + (IF writes > 0 THEN 0 ELSE ColdSload)
  <2>1. (writes + 1) * SloadWarm = writes * SloadWarm + SloadWarm /\ writes * SloadWarm \in Nat
    BY <1>1, SMT
  <2> QED
    BY <1>1, <1>2, <2>1 DEF Accesses
<1>5. Outstanding' = Outstanding + SstoreCost(new) - SstoreRefund(new)
                     - SloadWarm - (IF writes > 0 THEN 0 ELSE ColdSload)
  BY <1>1, <1>2 DEF Outstanding, SstoreCost, SstoreRefund
<1>6. Accesses \in Int /\ Outstanding \in Int
  <2>1. writes * SloadWarm \in Nat
    BY <1>1, SMT
  <2> QED
    BY <1>1, <2>1 DEF Accesses, Outstanding
<1>7. CostIsKnown'
  <2>1. used - refund = Accesses + Outstanding
    BY DEF GasInv, CostIsKnown
  <2>2. used' - refund' = Accesses' + Outstanding'
    BY <1>1, <1>2, <1>3, <1>4, <1>5, <1>6, <2>1
  <2> QED
    BY <2>2 DEF CostIsKnown
<1>8. RefundIsThere'
  BY <1>1, <1>2 DEF GasInv, RefundIsThere, SstoreRefund
<1> QED
  BY <1>1, <1>2, <1>3, <1>7, <1>8 DEF GasInv, GasTypeOK

LEMMA GasStep ==
    ASSUME GasSetting, GasInv, [GasNext]_gasVars
    PROVE  GasInv'
<1>1. CASE UNCHANGED gasVars
  BY <1>1 DEF gasVars, GasInv, GasTypeOK, RefundIsThere, CostIsKnown, Accesses, Outstanding
<1>2. ASSUME NEW new \in Slot, Sstore(new) PROVE GasInv'
  <2>1. new \in Nat
    BY DEF GasSetting
  <2> QED
    BY <1>2, <2>1, SstoreStep
<1>3. CASE EndTransaction
  <2>1. /\ original' = current /\ UNCHANGED <<baseFee, current>>
        /\ used' = 0 /\ refund' = 0 /\ writes' = 0
    BY <1>3 DEF EndTransaction
  <2>2. SloadWarm \in Nat
    BY DEF GasSetting
  <2>3. Accesses' = 0 /\ Outstanding' = 0
    BY <2>1, <2>2 DEF Accesses, Outstanding, GasInv, GasTypeOK
  <2> QED
    BY <2>1, <2>3 DEF GasInv, GasTypeOK, RefundIsThere, CostIsKnown
<1>4. ASSUME NEW gas \in 0 .. 2 * Target, EndBlock(gas) PROVE GasInv'
  <2>1. baseFee' = NextBaseFee(gas) /\ UNCHANGED <<original, current, used, refund, writes>>
    BY <1>4 DEF EndBlock
  <2>2. baseFee' \in MinBaseFee .. MaxBaseFee
    BY <2>1, FeeMoves DEF GasInv
  <2> QED
    BY <2>1, <2>2 DEF GasInv, GasTypeOK, RefundIsThere, CostIsKnown, Accesses, Outstanding
<1> QED
  BY <1>1, <1>2, <1>3, <1>4 DEF GasNext

\* Gas.GasIsFair: the refunds of a slot are never negative, a restored slot has
\* cost its accesses, and the base fee moves within its limits and its bound
\* (sstore_gas, final_gas_used, next_base_fee of gas.rs).
THEOREM GasProvedFair ==
    ASSUME GasSetting
    PROVE  GasSpec => GasIsFair
<1>1. GasInit => GasInv
  <2> SUFFICES ASSUME GasInit PROVE GasInv
    OBVIOUS
  <2>1. /\ baseFee = StartFee /\ original = 0 /\ current = 0
        /\ used = 0 /\ refund = 0 /\ writes = 0
    BY DEF GasInit
  <2>2. SloadWarm \in Nat /\ StartFee \in MinBaseFee .. MaxBaseFee
    BY DEF GasSetting
  <2>3. Accesses = 0 /\ Outstanding = 0
    BY <2>1, <2>2 DEF Accesses, Outstanding
  <2> QED
    BY <2>1, <2>2, <2>3 DEF GasInv, GasTypeOK, RefundIsThere, CostIsKnown
<1>2. GasInv /\ [GasNext]_gasVars => GasInv'
  BY GasStep
<1>3. GasInv => RefundIsCovered /\ RestoringIsCheap
  <2> SUFFICES ASSUME GasInv PROVE RefundIsCovered /\ RestoringIsCheap
    OBVIOUS
  <2>1. /\ used \in Nat /\ refund \in Int /\ writes \in Nat
        /\ ColdSload \in Nat /\ SloadWarm \in Nat /\ ClearRefund \in Nat
    BY DEF GasInv, GasTypeOK, GasSetting
  <2>2. refund >= 0
    BY <2>1 DEF GasInv, RefundIsThere
  <2>3. used \div 5 \in Nat /\ used \div 5 <= used
    BY <2>1
  <2>4. Refunded = IF refund <= used \div 5 THEN refund ELSE used \div 5
    BY <2>1, <2>3, MaxMin DEF Refunded
  <2>5. FinalUsed \in 0 .. used
    BY <2>1, <2>2, <2>3, <2>4 DEF FinalUsed
  <2>6. RestoringIsCheap
    <3> SUFFICES ASSUME current = original, writes > 0
                 PROVE  used - refund = ColdSload + writes * SloadWarm
      BY DEF RestoringIsCheap
    <3>1. Outstanding = 0 /\ Accesses = ColdSload + writes * SloadWarm
      BY DEF Outstanding, Accesses
    <3>2. writes * SloadWarm \in Nat
      BY <2>1, SMT
    <3> QED
      BY <2>1, <3>1, <3>2 DEF GasInv, CostIsKnown
  <2> QED
    BY <2>2, <2>5, <2>6 DEF RefundIsCovered
<1>4. ASSUME GasInv, NEW gas \in 0 .. 2 * Target, EndBlock(gas)
      PROVE  /\ baseFee' \in MinBaseFee .. MaxBaseFee
             /\ Denominator * (baseFee' - baseFee) <= Max({baseFee, Denominator})
             /\ Denominator * (baseFee - baseFee') <= baseFee
             /\ gas > Target /\ baseFee < MaxBaseFee => baseFee' > baseFee
             /\ gas < Target => baseFee' <= baseFee
  <2>1. baseFee' = NextBaseFee(gas)
    BY <1>4 DEF EndBlock
  <2> QED
    BY <1>4, <2>1, FeeMoves DEF GasInv
<1>5. GasInv =>
         [\A gas \in 0 .. 2 * Target : EndBlock(gas) =>
             /\ baseFee' \in MinBaseFee .. MaxBaseFee
             /\ Denominator * (baseFee' - baseFee) <= Max({baseFee, Denominator})
             /\ Denominator * (baseFee - baseFee') <= baseFee
             /\ gas > Target /\ baseFee < MaxBaseFee => baseFee' > baseFee
             /\ gas < Target => baseFee' <= baseFee]_gasVars
  BY <1>4
<1>6. GasSpec => []GasInv /\ [](RefundIsCovered /\ RestoringIsCheap)
  BY <1>1, <1>2, <1>3, PTL DEF GasSpec
<1>7. []GasInv => FeeIsBounded
  BY <1>5, PTL DEF FeeIsBounded
<1> QED
  BY <1>6, <1>7, PTL DEF GasIsFair

-----------------------------------------------------------------------------
(* The journal *)

\* v is what cell c of D has once the entries of J beyond n are undone: the
\* value before the first of them that names c, or the present one.
GivesIn(D, J, n, c, v) ==
    \/ v = D[c] /\ \A i \in n + 1 .. Len(J) : J[i].cell # c
    \/ \E i \in n + 1 .. Len(J) :
          /\ J[i].cell = c /\ J[i].prev = v
          /\ \A j \in n + 1 .. i - 1 : J[j].cell # c

Gives(n, c, v) == GivesIn(cell, journal, n, c, v)

JournalType ==
    /\ cell \in [Cell -> CellValue]
    /\ journal \in Seq([cell : Journaled, prev : CellValue])
    /\ marks \in Seq(Nat)
    /\ atMark \in Seq([cell : [Journaled -> CellValue], past : SUBSET Journaled])

\* Outer checkpoints are not longer than inner ones, nor than the journal.
MarksNest ==
    /\ Len(atMark) = Len(marks)
    /\ \A i \in 1 .. Len(marks) : marks[i] <= Len(journal)
    /\ \A i, j \in 1 .. Len(marks) : i <= j => marks[i] <= marks[j]

MarksGive ==
    \A i \in 1 .. Len(marks) : \A c \in Journaled \ atMark[i].past :
        Gives(marks[i], c, atMark[i].cell[c])

JournalInv == JournalType /\ MarksNest /\ MarksGive

\* Undo, step by step from the end of the journal.
Backs(N, f) ==
    f = [k \in 0..N |-> IF k = 0 THEN cell ELSE RevertEntry(journal[Len(journal) - k + 1], f[k - 1])]

LEMMA BacksExist == \A n \in Nat : \E f : Backs(n, f)
<1> DEFINE Good == {n \in Nat : \E f : Backs(n, f)}
<1>1. 0 \in Good
  <2> DEFINE f == [k \in 0..0 |-> cell]
  <2>1. Backs(0, f)
    BY DEF Backs
  <2> QED
    BY <2>1
<1>2. ASSUME NEW n \in Nat, n \in Good PROVE n + 1 \in Good
  <2>1. PICK f : Backs(n, f)
    BY <1>2
  <2> DEFINE x == RevertEntry(journal[Len(journal) - (n + 1) + 1], f[n])
             h == [k \in 0..(n + 1) |-> IF k = n + 1 THEN x ELSE f[k]]
  <2>2. \A k \in 0..n : f[k] = IF k = 0 THEN cell ELSE RevertEntry(journal[Len(journal) - k + 1], f[k - 1])
    BY <2>1 DEF Backs
  <2>3. \A k \in 0..(n + 1) : h[k] = IF k = 0 THEN cell ELSE RevertEntry(journal[Len(journal) - k + 1], h[k - 1])
    <3> TAKE k \in 0..(n + 1)
    <3>1. CASE k = n + 1
      <4>1. h[k] = x /\ h[k - 1] = f[n] /\ k # 0
        BY <3>1
      <4> QED
        BY <3>1, <4>1
    <3>2. CASE k = 0
      <4>1. h[k] = f[0] /\ f[0] = cell
        BY <3>2, <2>2
      <4> QED
        BY <3>2, <4>1
    <3>3. CASE k \in 1..n
      <4>1. h[k] = f[k] /\ h[k - 1] = f[k - 1] /\ k \in 0..n /\ k # 0
        BY <3>3
      <4> HIDE DEF h
      <4> QED
        BY <4>1, <2>2
    <3> QED
      BY <3>1, <3>2, <3>3
  <2>4. Backs(n + 1, h)
    <3>1. h = [k \in 0..(n + 1) |-> h[k]]
      OBVIOUS
    <3> HIDE DEF h
    <3> QED
      BY <2>3, <3>1 DEF Backs
  <2> QED
    BY <2>4
<1> HIDE DEF Good
<1>3. \A n \in Nat : n \in Good
  BY <1>1, <1>2, NatSetInduction
<1> QED
  BY <1>3 DEF Good

LEMMA UndoUnfolds ==
    ASSUME Len(journal) \in Nat
    PROVE  \E f : Backs(Len(journal), f) /\ \A n \in Nat : Undo(n) = f[Len(journal) - n]
<1>1. \E f : Backs(Len(journal), f)
  BY BacksExist
<1>2. \A n : Undo(n) = (CHOOSE f : Backs(Len(journal), f))[Len(journal) - n]
  BY Zenon DEF Undo, Backs
<1>3. Backs(Len(journal), CHOOSE f : Backs(Len(journal), f))
  BY <1>1
<1> QED
  BY <1>2, <1>3

\* The entry before those undone so far decides its cell.
LEMMA GivesBack ==
    ASSUME JournalType, NEW n \in Nat, n + 1 <= Len(journal), NEW c \in Cell, NEW v, Gives(n + 1, c, v)
    PROVE  Gives(n, c, IF journal[n + 1].cell = c THEN journal[n + 1].prev ELSE v)
<1> DEFINE e == journal[n + 1]
<1>0. Len(journal) \in Nat /\ n + 1 \in n + 1 .. Len(journal)
  BY DEF JournalType
<1>1. CASE e.cell = c
  <2>1. \A j \in n + 1 .. (n + 1) - 1 : journal[j].cell # c
    BY <1>0
  <2> QED
    BY <1>1, <1>0, <2>1 DEF Gives, GivesIn
<1>2. CASE e.cell # c
  <2>1. CASE v = cell[c] /\ \A i \in (n + 1) + 1 .. Len(journal) : journal[i].cell # c
    <3>1. \A i \in n + 1 .. Len(journal) : i = n + 1 \/ i \in (n + 1) + 1 .. Len(journal)
      BY <1>0
    <3> QED
      BY <1>2, <2>1, <3>1 DEF Gives, GivesIn
  <2>2. CASE \E i \in (n + 1) + 1 .. Len(journal) :
                /\ journal[i].cell = c /\ journal[i].prev = v
                /\ \A j \in (n + 1) + 1 .. i - 1 : journal[j].cell # c
    <3>1. PICK i \in (n + 1) + 1 .. Len(journal) :
                /\ journal[i].cell = c /\ journal[i].prev = v
                /\ \A j \in (n + 1) + 1 .. i - 1 : journal[j].cell # c
      BY <2>2
    <3>2. i \in n + 1 .. Len(journal)
      BY <1>0
    <3>3. \A j \in n + 1 .. i - 1 : j = n + 1 \/ j \in (n + 1) + 1 .. i - 1
      BY <1>0
    <3> QED
      BY <1>2, <3>1, <3>2, <3>3 DEF Gives, GivesIn
  <2> QED
    BY <2>1, <2>2 DEF Gives, GivesIn
<1> QED
  BY <1>1, <1>2

\* Undoing to a mark gives every cell the value that the journal says.
LEMMA UndoGives ==
    ASSUME JournalType, NEW n \in Nat, n <= Len(journal)
    PROVE  /\ Undo(n) \in [Cell -> CellValue]
           /\ \A c \in Cell : Gives(n, c, Undo(n)[c])
<1>0. Len(journal) \in Nat
  BY DEF JournalType
<1>1. PICK f : Backs(Len(journal), f) /\ \A m \in Nat : Undo(m) = f[Len(journal) - m]
  BY <1>0, UndoUnfolds
<1>2. \A k \in 0 .. Len(journal) :
         f[k] = IF k = 0 THEN cell ELSE RevertEntry(journal[Len(journal) - k + 1], f[k - 1])
  BY <1>1 DEF Backs
<1> DEFINE Good == {k \in Nat : k <= Len(journal) =>
                       /\ f[k] \in [Cell -> CellValue]
                       /\ \A c \in Cell : Gives(Len(journal) - k, c, f[k][c])}
<1>3. 0 \in Good
  <2>1. f[0] = cell
    BY <1>0, <1>2
  <2>2. \A c \in Cell : Gives(Len(journal) - 0, c, cell[c])
    BY <1>0 DEF Gives, GivesIn
  <2> QED
    BY <2>1, <2>2 DEF JournalType
<1>4. ASSUME NEW k \in Nat, k \in Good PROVE k + 1 \in Good
  <2> SUFFICES ASSUME k + 1 <= Len(journal)
               PROVE  /\ f[k + 1] \in [Cell -> CellValue]
                      /\ \A c \in Cell : Gives(Len(journal) - (k + 1), c, f[k + 1][c])
    OBVIOUS
  <2> DEFINE m == Len(journal) - (k + 1)
  <2>1. m \in Nat /\ m + 1 = Len(journal) - k /\ m + 1 <= Len(journal) /\ k + 1 \in 0 .. Len(journal)
        /\ k + 1 # 0 /\ (k + 1) - 1 = k /\ Len(journal) - (k + 1) + 1 = m + 1 /\ m + 1 \in 1 .. Len(journal)
    BY <1>0
  <2> HIDE DEF m
  <2>2. f[k] \in [Cell -> CellValue] /\ \A c \in Cell : Gives(m + 1, c, f[k][c])
    BY <1>4, <2>1, <1>0
  <2>3. f[k + 1] = RevertEntry(journal[m + 1], f[k])
    BY <1>2, <2>1
  <2>4. journal[m + 1].cell \in Cell /\ journal[m + 1].prev \in CellValue
    <3> DEFINE E == [cell : Journaled, prev : CellValue]
    <3>0. journal \in Seq(E)
      BY DEF JournalType
    <3> HIDE DEF E
    <3>1. journal[m + 1] \in E
      BY <3>0, <2>1
    <3> QED
      BY <3>1 DEF E, Cell
  <2>5. f[k + 1] \in [Cell -> CellValue]
        /\ \A c \in Cell : f[k + 1][c] = IF journal[m + 1].cell = c THEN journal[m + 1].prev ELSE f[k][c]
    BY <2>2, <2>3, <2>4 DEF RevertEntry
  <2>6. ASSUME NEW c \in Cell PROVE Gives(m, c, f[k + 1][c])
    <3>1. Gives(m, c, IF journal[m + 1].cell = c THEN journal[m + 1].prev ELSE f[k][c])
      BY <2>1, <2>2, GivesBack
    <3> QED
      BY <3>1, <2>5
  <2> QED
    BY <2>5, <2>6 DEF m
<1> HIDE DEF Good
<1>5. \A k \in Nat : k \in Good
  BY <1>3, <1>4, NatSetInduction
<1>6. Len(journal) - n \in Nat /\ Len(journal) - n <= Len(journal) /\ Len(journal) - (Len(journal) - n) = n
  BY <1>0
<1> QED
  BY <1>1, <1>5, <1>6 DEF Good

\* What a revert, the only step that takes values back, does to the cells.
LEMMA RevertGives ==
    ASSUME JournalInv, NEW id \in 1 .. MaxDepth, RevertCheckpoint(id)
    PROVE  /\ id \in 1 .. Len(marks) /\ marks[id] \in Nat /\ marks[id] <= Len(journal)
           /\ cell' \in [Cell -> CellValue]
           /\ \A c \in Cell : Gives(marks[id], c, cell'[c])
           /\ journal' = SubSeq(journal, 1, marks[id])
           /\ marks' = SubSeq(marks, 1, id - 1) /\ atMark' = SubSeq(atMark, 1, id - 1)
<1>1. id \in 1 .. Len(marks) /\ marks[id] \in Nat
  BY JournalAssumption DEF RevertCheckpoint, JournalInv, JournalType
<1>2. marks[id] <= Len(journal)
  BY <1>1 DEF JournalInv, MarksNest
<1> QED
  BY <1>1, <1>2, UndoGives DEF RevertCheckpoint, JournalInv

\* A value is the only one the journal gives.
LEMMA GivesOne ==
    ASSUME Len(journal) \in Nat, NEW n \in Nat, NEW c, NEW v, NEW w, Gives(n, c, v), Gives(n, c, w)
    PROVE  v = w
<1>1. CASE \A i \in n + 1 .. Len(journal) : journal[i].cell # c
  BY <1>1 DEF Gives, GivesIn
<1>2. CASE ~ \A i \in n + 1 .. Len(journal) : journal[i].cell # c
  <2>1. PICK i \in n + 1 .. Len(journal) :
           journal[i].cell = c /\ journal[i].prev = v /\ \A k \in n + 1 .. i - 1 : journal[k].cell # c
    BY <1>2 DEF Gives, GivesIn
  <2>2. PICK j \in n + 1 .. Len(journal) :
           journal[j].cell = c /\ journal[j].prev = w /\ \A k \in n + 1 .. j - 1 : journal[k].cell # c
    BY <1>2 DEF Gives, GivesIn
  <2>3. ~(i < j) /\ ~(j < i)
    BY <2>1, <2>2
  <2>4. i = j
    BY <2>3
  <2> QED
    BY <2>1, <2>2, <2>4
<1> QED
  BY <1>1, <1>2

\* The entries up to an inner mark, with the cells as a revert to it leaves
\* them, give what they gave with the entries beyond it.
LEMMA GivesThrough ==
    ASSUME JournalInv, NEW id \in 1 .. MaxDepth, RevertCheckpoint(id),
           NEW n \in Nat, n <= marks[id], NEW c \in Cell, NEW v, Gives(n, c, v)
    PROVE  GivesIn(cell', journal', n, c, v)
<1> DEFINE m == marks[id]
<1>1. /\ m \in Nat /\ m <= Len(journal) /\ Gives(m, c, cell'[c]) /\ journal' = SubSeq(journal, 1, m)
  BY RevertGives
<1>2. journal \in Seq([cell : Journaled, prev : CellValue]) /\ Len(journal) \in Nat
  BY DEF JournalInv, JournalType
<1>3. Len(journal') = m /\ \A i \in 1 .. m : journal'[i] = journal[i]
  BY <1>1, <1>2
<1>4. \A i \in n + 1 .. m : i \in 1 .. m /\ i \in n + 1 .. Len(journal)
  BY <1>1, <1>2
<1>5. CASE \E i \in n + 1 .. m : journal[i].cell = c
  <2>1. PICK i \in n + 1 .. Len(journal) :
           journal[i].cell = c /\ journal[i].prev = v /\ \A k \in n + 1 .. i - 1 : journal[k].cell # c
    BY <1>4, <1>5 DEF Gives, GivesIn
  <2>2. i <= m
    BY <1>1, <1>2, <1>5, <2>1
  <2>3. i \in n + 1 .. m /\ \A k \in n + 1 .. i - 1 : k \in 1 .. m
    BY <2>2, <1>1, <1>2
  <2> QED
    BY <2>1, <2>3, <1>3, <1>4 DEF Gives, GivesIn
<1>6. CASE \A i \in n + 1 .. m : journal[i].cell # c
  <2>1. \A i \in n + 1 .. m : journal'[i].cell # c
    BY <1>3, <1>4, <1>6
  <2>2. \A i \in n + 1 .. Len(journal) : i \in n + 1 .. m \/ i \in m + 1 .. Len(journal)
    BY <1>1, <1>2
  <2>3. \A i \in m + 1 .. Len(journal) : i \in n + 1 .. Len(journal)
    BY <1>1, <1>2
  <2>4. Gives(m, c, v)
    <3>1. CASE v = cell[c] /\ \A i \in n + 1 .. Len(journal) : journal[i].cell # c
      BY <2>3, <3>1 DEF Gives, GivesIn
    <3>2. CASE \E i \in n + 1 .. Len(journal) :
                  journal[i].cell = c /\ journal[i].prev = v /\ \A k \in n + 1 .. i - 1 : journal[k].cell # c
      <4>1. PICK i \in n + 1 .. Len(journal) :
               journal[i].cell = c /\ journal[i].prev = v /\ \A k \in n + 1 .. i - 1 : journal[k].cell # c
        BY <3>2
      <4>2. i \in m + 1 .. Len(journal)
        BY <1>6, <2>2, <4>1
      <4>3. \A k \in m + 1 .. i - 1 : k \in n + 1 .. i - 1
        BY <1>1, <1>2
      <4> QED
        BY <4>1, <4>2, <4>3 DEF Gives, GivesIn
    <3> QED
      BY <3>1, <3>2 DEF Gives, GivesIn
  <2>5. v = cell'[c]
    BY <2>4, <1>1, <1>2, GivesOne
  <2> QED
    BY <2>1, <2>5, <1>3 DEF Gives, GivesIn
<1> QED
  BY <1>5, <1>6

LEMMA EntryType ==
    ASSUME JournalType, NEW i \in 1 .. Len(journal)
    PROVE  journal[i].cell \in Journaled /\ journal[i].prev \in CellValue
<1> DEFINE E == [cell : Journaled, prev : CellValue]
<1>1. journal \in Seq(E)
  BY DEF JournalType
<1> HIDE DEF E
<1>2. journal[i] \in E
  BY <1>1
<1> QED
  BY <1>2 DEF E

LEMMA JournalStarts == JournalInit => JournalInv
<1> SUFFICES ASSUME JournalInit PROVE JournalInv
  OBVIOUS
<1>1. cell \in [Cell -> CellValue]
  BY JournalAssumption DEF JournalInit
<1>2. journal = << >> /\ marks = << >> /\ atMark = << >>
  BY DEF JournalInit
<1> QED
  BY <1>1, <1>2 DEF JournalInv, JournalType, MarksNest, MarksGive

\* A write through the journal names the value it replaces.
LEMMA SetCellKeeps ==
    ASSUME JournalInv, NEW d \in Journaled, NEW w \in CellValue, SetCell(d, w)
    PROVE  JournalInv'
<1> DEFINE E == [cell : Journaled, prev : CellValue]
           e == [cell |-> d, prev |-> cell[d]]
<1>1. journal \in Seq(E) /\ cell \in [Cell -> CellValue] /\ marks \in Seq(Nat) /\ d \in Cell
      /\ marks' = marks /\ atMark' = atMark
  BY DEF JournalInv, JournalType, SetCell, Cell
<1>2. e \in E /\ e.cell = d /\ e.prev = cell[d]
  BY <1>1
<1>3. journal' = Append(journal, e) /\ cell' = [cell EXCEPT ![d] = w]
  BY DEF SetCell
<1> HIDE DEF E, e
<1>4. /\ journal' \in Seq(E) /\ Len(journal) \in Nat /\ Len(journal') = Len(journal) + 1
      /\ journal'[Len(journal) + 1] = e /\ \A i \in 1 .. Len(journal) : journal'[i] = journal[i]
  BY <1>1, <1>2, <1>3
<1>5. cell' \in [Cell -> CellValue] /\ \A c \in Cell \ {d} : cell'[c] = cell[c]
  BY <1>1, <1>3
<1>6. JournalType'
  BY <1>1, <1>4, <1>5 DEF JournalInv, JournalType, E
<1>7. MarksNest'
  <2>1. \A i \in 1 .. Len(marks) : marks[i] \in Nat
    BY <1>1
  <2> QED
    BY <1>1, <1>4, <2>1 DEF JournalInv, MarksNest
<1>8. ASSUME NEW i \in 1 .. Len(marks), NEW c \in Journaled \ atMark[i].past
      PROVE  Gives(marks[i], c, atMark[i].cell[c])'
  <2> DEFINE n == marks[i]
             v == atMark[i].cell[c]
  <2>1. n \in Nat /\ n <= Len(journal) /\ Gives(n, c, v) /\ c \in Cell
    BY <1>1 DEF JournalInv, MarksNest, MarksGive, Cell
  <2>2. n' = n /\ v' = v
    BY <1>1
  <2> HIDE DEF n, v
  <2>3. \A k \in n + 1 .. Len(journal) : k \in 1 .. Len(journal) /\ k \in n + 1 .. Len(journal')
    BY <1>4, <2>1
  <2>4. CASE \E k \in n + 1 .. Len(journal) :
                /\ journal[k].cell = c /\ journal[k].prev = v
                /\ \A j \in n + 1 .. k - 1 : journal[j].cell # c
    <3>1. PICK k \in n + 1 .. Len(journal) :
                /\ journal[k].cell = c /\ journal[k].prev = v
                /\ \A j \in n + 1 .. k - 1 : journal[j].cell # c
      BY <2>4
    <3>2. \A j \in n + 1 .. k - 1 : j \in n + 1 .. Len(journal)
      BY <1>4, <2>1
    <3>3. \E h \in n + 1 .. Len(journal') :
                /\ journal'[h].cell = c /\ journal'[h].prev = v
                /\ \A j \in n + 1 .. h - 1 : journal'[j].cell # c
      BY <3>1, <3>2, <2>3, <1>4
    <3> QED
      BY <2>2, <3>3 DEF Gives, GivesIn, n, v
  <2>5. CASE v = cell[c] /\ \A k \in n + 1 .. Len(journal) : journal[k].cell # c
    <3>1. \A k \in n + 1 .. Len(journal) : journal'[k].cell # c
      BY <2>3, <2>5, <1>4
    <3>2. CASE c = d
      <4>1. Len(journal) + 1 \in n + 1 .. Len(journal') /\ (Len(journal) + 1) - 1 = Len(journal)
        BY <1>4, <2>1
      <4>2. journal'[Len(journal) + 1].cell = c /\ journal'[Len(journal) + 1].prev = v
        BY <1>2, <1>4, <2>5, <3>2
      <4>3. \E h \in n + 1 .. Len(journal') :
                /\ journal'[h].cell = c /\ journal'[h].prev = v
                /\ \A j \in n + 1 .. h - 1 : journal'[j].cell # c
        BY <3>1, <4>1, <4>2
      <4> QED
        BY <2>2, <4>3 DEF Gives, GivesIn, n, v
    <3>3. CASE c # d
      <4>1. \A k \in n + 1 .. Len(journal') : k \in n + 1 .. Len(journal) \/ k = Len(journal) + 1
        BY <1>4, <2>1
      <4>2. v = cell'[c] /\ \A k \in n + 1 .. Len(journal') : journal'[k].cell # c
        BY <4>1, <3>1, <3>3, <2>5, <2>1, <1>2, <1>4, <1>5
      <4> QED
        BY <2>2, <4>2 DEF Gives, GivesIn, n, v
    <3> QED
      BY <3>2, <3>3
  <2> QED
    BY <2>1, <2>4, <2>5 DEF Gives, GivesIn
<1>9. MarksGive'
  BY <1>1, <1>8 DEF MarksGive
<1> QED
  BY <1>6, <1>7, <1>9 DEF JournalInv

\* A write past the journal takes its cell off every open checkpoint.
LEMMA WriteThroughKeeps ==
    ASSUME JournalInv, NEW d \in Cell, NEW w \in CellValue, WriteThrough(d, w)
    PROVE  JournalInv'
<1> DEFINE R == [cell : [Journaled -> CellValue], past : SUBSET Journaled]
           r(i) == [atMark[i] EXCEPT !.past = @ \cup ({d} \cap Journaled)]
<1>1. /\ cell \in [Cell -> CellValue] /\ cell' = [cell EXCEPT ![d] = w]
      /\ atMark \in Seq(R) /\ atMark' = [i \in DOMAIN atMark |-> r(i)]
      /\ journal' = journal /\ marks' = marks /\ Len(atMark) = Len(marks)
  BY DEF WriteThrough, Bypass, JournalInv, JournalType, MarksNest
<1>2. ASSUME NEW i \in 1 .. Len(atMark)
      PROVE  r(i) \in R /\ r(i).cell = atMark[i].cell /\ r(i).past = atMark[i].past \cup ({d} \cap Journaled)
  <2>1. ASSUME NEW x \in R
        PROVE  LET y == [x EXCEPT !.past = @ \cup ({d} \cap Journaled)]
               IN y \in R /\ y.cell = x.cell /\ y.past = x.past \cup ({d} \cap Journaled)
    OBVIOUS
  <2> HIDE DEF R
  <2>2. atMark[i] \in R
    BY <1>1
  <2> QED
    BY <2>1, <2>2
<1> HIDE DEF R, r
<1>3. atMark' \in Seq(R) /\ Len(atMark') = Len(atMark) /\ \A i \in 1 .. Len(atMark) : atMark'[i] = r(i)
  <2>1. DOMAIN atMark = 1 .. Len(atMark) /\ Len(atMark) \in Nat
    BY <1>1
  <2>2. atMark' \in [1 .. Len(atMark) -> R] /\ \A i \in 1 .. Len(atMark) : atMark'[i] = r(i)
    BY <1>1, <1>2, <2>1
  <2> QED
    BY <2>1, <2>2
<1>4. cell' \in [Cell -> CellValue] /\ \A c \in Cell \ {d} : cell'[c] = cell[c]
  BY <1>1
<1>5. JournalType'
  BY <1>1, <1>3, <1>4 DEF JournalInv, JournalType, R
<1>6. MarksNest'
  BY <1>1, <1>3 DEF JournalInv, MarksNest
<1>7. ASSUME NEW i \in 1 .. Len(marks'), NEW c \in Journaled \ atMark'[i].past
      PROVE  Gives(marks[i], c, atMark[i].cell[c])'
  <2>1. i \in 1 .. Len(marks) /\ c \in Journaled \ atMark[i].past /\ c # d /\ c \in Cell
        /\ atMark'[i].cell = atMark[i].cell
    BY <1>1, <1>2, <1>3 DEF Cell
  <2>2. Gives(marks[i], c, atMark[i].cell[c])
    BY <2>1 DEF JournalInv, MarksGive
  <2>3. cell'[c] = cell[c]
    BY <1>4, <2>1
  <2> QED
    BY <1>1, <2>1, <2>2, <2>3 DEF Gives, GivesIn
<1>8. MarksGive'
  BY <1>7 DEF MarksGive
<1> QED
  BY <1>5, <1>6, <1>8 DEF JournalInv

LEMMA CheckpointKeeps ==
    ASSUME JournalInv, Checkpoint PROVE JournalInv'
<1> DEFINE R == [cell : [Journaled -> CellValue], past : SUBSET Journaled]
           r == [cell |-> [c \in Journaled |-> cell[c]], past |-> {}]
<1>1. /\ cell \in [Cell -> CellValue] /\ atMark \in Seq(R) /\ marks \in Seq(Nat)
      /\ journal \in Seq([cell : Journaled, prev : CellValue])
      /\ marks' = Append(marks, Len(journal)) /\ atMark' = Append(atMark, r)
      /\ journal' = journal /\ cell' = cell /\ Len(atMark) = Len(marks)
  BY DEF Checkpoint, JournalInv, JournalType, MarksNest
<1>2. r \in R /\ r.past = {} /\ \A c \in Journaled : r.cell[c] = cell[c]
  BY <1>1 DEF Cell
<1> HIDE DEF R, r
<1>3. Len(journal) \in Nat
  BY <1>1
<1>4. /\ atMark' \in Seq(R) /\ Len(atMark') = Len(marks) + 1 /\ atMark'[Len(marks) + 1] = r
      /\ \A i \in 1 .. Len(marks) : atMark'[i] = atMark[i]
  BY <1>1, <1>2
<1>5. /\ marks' \in Seq(Nat) /\ Len(marks') = Len(marks) + 1 /\ marks'[Len(marks) + 1] = Len(journal)
      /\ \A i \in 1 .. Len(marks) : marks'[i] = marks[i] /\ marks[i] \in Nat
  BY <1>1, <1>3
<1>6. \A i \in 1 .. Len(marks') : i \in 1 .. Len(marks) \/ i = Len(marks) + 1
  BY <1>1, <1>5
<1>7. JournalType'
  BY <1>1, <1>4, <1>5 DEF JournalInv, JournalType, R
<1>8. MarksNest'
  <2>1. \A i \in 1 .. Len(marks') : marks'[i] <= Len(journal)
    BY <1>3, <1>5, <1>6 DEF JournalInv, MarksNest
  <2>2. ASSUME NEW i \in 1 .. Len(marks'), NEW j \in 1 .. Len(marks'), i <= j PROVE marks'[i] <= marks'[j]
    <3>1. CASE j = Len(marks) + 1
      BY <2>1, <3>1, <1>5
    <3>2. CASE j \in 1 .. Len(marks)
      <4>1. i \in 1 .. Len(marks)
        BY <2>2, <3>2
      <4> QED
        BY <2>2, <3>2, <4>1, <1>5 DEF JournalInv, MarksNest
    <3> QED
      BY <3>1, <3>2, <1>6
  <2> QED
    BY <2>1, <2>2, <1>1, <1>4, <1>5 DEF MarksNest
<1>9. ASSUME NEW i \in 1 .. Len(marks'), NEW c \in Journaled \ atMark'[i].past
      PROVE  Gives(marks[i], c, atMark[i].cell[c])'
  <2>1. CASE i \in 1 .. Len(marks)
    <3>1. Gives(marks[i], c, atMark[i].cell[c])
      BY <1>4, <2>1 DEF JournalInv, MarksGive
    <3> QED
      BY <3>1, <2>1, <1>1, <1>4, <1>5 DEF Gives, GivesIn
  <2>2. CASE i = Len(marks) + 1
    <3>1. atMark'[i].cell[c] = cell'[c] /\ \A k \in marks'[i] + 1 .. Len(journal') : FALSE
      BY <2>2, <1>1, <1>2, <1>3, <1>4, <1>5
    <3> QED
      BY <3>1 DEF Gives, GivesIn
  <2> QED
    BY <2>1, <2>2, <1>6
<1>10. MarksGive'
  BY <1>9 DEF MarksGive
<1> QED
  BY <1>7, <1>8, <1>10 DEF JournalInv

\* The marks that are left after a commit or a revert
LEMMA MarksCut ==
    ASSUME JournalInv, NEW id \in 1 .. MaxDepth, id <= Len(marks),
           marks' = SubSeq(marks, 1, id - 1), atMark' = SubSeq(atMark, 1, id - 1)
    PROVE  /\ id \in 1 .. Len(marks) /\ marks' \in Seq(Nat)
           /\ atMark' \in Seq([cell : [Journaled -> CellValue], past : SUBSET Journaled])
           /\ Len(marks') = id - 1 /\ Len(atMark') = id - 1
           /\ \A i \in 1 .. Len(marks') :
                 /\ i \in 1 .. Len(marks) /\ i < id
                 /\ marks'[i] = marks[i] /\ atMark'[i] = atMark[i] /\ marks[i] \in Nat
<1> DEFINE R == [cell : [Journaled -> CellValue], past : SUBSET Journaled]
<1>1. marks \in Seq(Nat) /\ atMark \in Seq(R) /\ Len(atMark) = Len(marks) /\ Len(marks) \in Nat
  BY DEF JournalInv, JournalType, MarksNest
<1> HIDE DEF R
<1>2. id - 1 \in Nat /\ id - 1 <= Len(marks) /\ id \in 1 .. Len(marks)
  BY <1>1, JournalAssumption
<1>3. marks' \in Seq(Nat) /\ Len(marks') = id - 1 /\ \A i \in 1 .. id - 1 : marks'[i] = marks[i]
  BY <1>1, <1>2
<1>4. atMark' \in Seq(R) /\ Len(atMark') = id - 1 /\ \A i \in 1 .. id - 1 : atMark'[i] = atMark[i]
  BY <1>1, <1>2
<1>5. \A i \in 1 .. id - 1 : i \in 1 .. Len(marks) /\ i < id
  BY <1>2, <1>1
<1>6. \A i \in 1 .. Len(marks) : marks[i] \in Nat
  BY <1>1
<1> QED
  BY <1>2, <1>3, <1>4, <1>5, <1>6 DEF R

LEMMA CommitKeeps ==
    ASSUME JournalInv, NEW id \in 1 .. MaxDepth, CommitCheckpoint(id) PROVE JournalInv'
<1>1. /\ id \in 1 .. Len(marks) /\ marks' \in Seq(Nat)
      /\ atMark' \in Seq([cell : [Journaled -> CellValue], past : SUBSET Journaled])
      /\ Len(marks') = id - 1 /\ Len(atMark') = id - 1
      /\ \A i \in 1 .. Len(marks') :
            /\ i \in 1 .. Len(marks) /\ i < id
            /\ marks'[i] = marks[i] /\ atMark'[i] = atMark[i] /\ marks[i] \in Nat
  BY MarksCut DEF CommitCheckpoint
<1>2. journal' = journal /\ cell' = cell
  BY DEF CommitCheckpoint
<1>3. JournalType'
  BY <1>1, <1>2 DEF JournalInv, JournalType
<1>4. MarksNest'
  BY <1>1, <1>2 DEF JournalInv, MarksNest
<1>5. MarksGive'
  <2> SUFFICES ASSUME NEW i \in 1 .. Len(marks'), NEW c \in Journaled \ atMark'[i].past
               PROVE  GivesIn(cell', journal', marks'[i], c, atMark'[i].cell[c])
    BY DEF MarksGive, Gives
  <2>1. GivesIn(cell, journal, marks[i], c, atMark[i].cell[c])
    BY <1>1 DEF JournalInv, MarksGive, Gives
  <2> QED
    BY <2>1, <1>1, <1>2
<1> QED
  BY <1>3, <1>4, <1>5 DEF JournalInv

LEMMA RevertKeeps ==
    ASSUME JournalInv, NEW id \in 1 .. MaxDepth, RevertCheckpoint(id) PROVE JournalInv'
<1> DEFINE E == [cell : Journaled, prev : CellValue]
<1>1. /\ id \in 1 .. Len(marks) /\ marks' \in Seq(Nat)
      /\ atMark' \in Seq([cell : [Journaled -> CellValue], past : SUBSET Journaled])
      /\ Len(marks') = id - 1 /\ Len(atMark') = id - 1
      /\ \A i \in 1 .. Len(marks') :
            /\ i \in 1 .. Len(marks) /\ i < id
            /\ marks'[i] = marks[i] /\ atMark'[i] = atMark[i] /\ marks[i] \in Nat
  BY MarksCut DEF RevertCheckpoint
<1>2. /\ marks[id] \in Nat /\ marks[id] <= Len(journal) /\ cell' \in [Cell -> CellValue]
      /\ journal' = SubSeq(journal, 1, marks[id])
  BY RevertGives
<1>3. journal' \in Seq(E) /\ Len(journal') = marks[id]
  <2>1. journal \in Seq(E)
    BY DEF JournalInv, JournalType
  <2> HIDE DEF E
  <2> QED
    BY <2>1, <1>2
<1>4. \A i \in 1 .. Len(marks') : marks[i] <= marks[id]
  <2> SUFFICES ASSUME NEW i \in 1 .. Len(marks') PROVE marks[i] <= marks[id]
    OBVIOUS
  <2>1. i \in 1 .. Len(marks) /\ id \in 1 .. Len(marks) /\ i <= id
    BY <1>1
  <2>2. \A j, k \in 1 .. Len(marks) : j <= k => marks[j] <= marks[k]
    BY DEF JournalInv, MarksNest
  <2> QED
    BY <2>1, <2>2
<1>5. JournalType'
  BY <1>1, <1>2, <1>3 DEF JournalType
<1>6. MarksNest'
  BY <1>1, <1>3, <1>4 DEF JournalInv, MarksNest
<1>7. ASSUME NEW i \in 1 .. Len(marks'), NEW c \in Journaled \ atMark'[i].past
      PROVE  Gives(marks[i], c, atMark[i].cell[c])'
  <2>1. marks[i] \in Nat /\ marks[i] <= marks[id] /\ c \in Cell /\ marks'[i] = marks[i] /\ atMark'[i] = atMark[i]
    BY <1>1, <1>4 DEF Cell
  <2>2. Gives(marks[i], c, atMark[i].cell[c])
    BY <1>1, <2>1 DEF JournalInv, MarksGive
  <2>3. GivesIn(cell', journal', marks[i], c, atMark[i].cell[c])
    BY <2>1, <2>2, GivesThrough
  <2> QED
    BY <2>1, <2>3 DEF Gives
<1>8. MarksGive'
  BY <1>7 DEF MarksGive
<1> QED
  BY <1>5, <1>6, <1>8 DEF JournalInv

LEMMA JournalStep == JournalInv /\ [JournalNext]_journalVars => JournalInv'
<1> SUFFICES ASSUME JournalInv, [JournalNext]_journalVars PROVE JournalInv'
  OBVIOUS
<1>1. CASE \E c \in Journaled, v \in CellValue : SetCell(c, v)
  BY <1>1, SetCellKeeps
<1>2. CASE \E c \in Cell, v \in CellValue : WriteThrough(c, v)
  BY <1>2, WriteThroughKeeps
<1>3. CASE Checkpoint
  BY <1>3, CheckpointKeeps
<1>4. CASE \E id \in 1 .. MaxDepth : CommitCheckpoint(id) \/ RevertCheckpoint(id)
  BY <1>4, CommitKeeps, RevertKeeps
<1>5. CASE UNCHANGED journalVars
  BY <1>5 DEF journalVars, JournalInv, JournalType, MarksNest, MarksGive, Gives
<1> QED
  BY <1>1, <1>2, <1>3, <1>4, <1>5 DEF JournalNext

\* For every set of cells and any depth of nested checkpoints: reverting to a
\* checkpoint gives every cell that was written only through the journal the
\* value it had there, whatever inner checkpoints were committed or reverted in
\* between, and leaves nonces and code alone (revert_checkpoint).
THEOREM RevertProvedToRestore == JournalSpec => RevertRestores
<1> DEFINE A == \A id \in DOMAIN marks \ DOMAIN marks' : RevertCheckpoint(id) =>
                   /\ \A c \in Journaled \ atMark[id].past : cell'[c] = atMark[id].cell[c]
                   /\ \A c \in Unjournaled : cell'[c] = cell[c]
<1>1. JournalInv /\ [JournalNext]_journalVars => [A]_journalVars
  <2> SUFFICES ASSUME JournalInv, [JournalNext]_journalVars,
                      NEW id \in DOMAIN marks \ DOMAIN marks', RevertCheckpoint(id)
               PROVE  /\ \A c \in Journaled \ atMark[id].past : cell'[c] = atMark[id].cell[c]
                      /\ \A c \in Unjournaled : cell'[c] = cell[c]
    OBVIOUS
  <2>1. marks \in Seq(Nat) /\ Len(journal) \in Nat /\ id \in 1 .. Len(marks)
        /\ marks[id] \in Nat /\ marks[id] <= Len(journal)
    BY DEF JournalInv, JournalType, MarksNest
  <2>2. \A c \in Cell : Gives(marks[id], c, cell'[c])
    BY <2>1, UndoGives DEF RevertCheckpoint, JournalInv
  <2>3. ASSUME NEW c \in Journaled \ atMark[id].past PROVE cell'[c] = atMark[id].cell[c]
    <3>1. Gives(marks[id], c, atMark[id].cell[c]) /\ c \in Cell
      BY <2>1 DEF JournalInv, MarksGive, Cell
    <3> QED
      BY <3>1, <2>1, <2>2, GivesOne
  <2>4. ASSUME NEW c \in Unjournaled PROVE cell'[c] = cell[c]
    <3>1. Gives(marks[id], c, cell'[c]) /\ c \notin Journaled
      BY <2>2, JournalAssumption DEF Cell
    <3>2. \A i \in marks[id] + 1 .. Len(journal) : i \in 1 .. Len(journal)
      BY <2>1
    <3>3. \A i \in marks[id] + 1 .. Len(journal) : journal[i].cell # c
      BY <3>1, <3>2, EntryType DEF JournalInv
    <3> QED
      BY <3>1, <3>3 DEF Gives, GivesIn
  <2> QED
    BY <2>3, <2>4
<1> QED
  BY <1>1, JournalStarts, JournalStep, PTL DEF JournalSpec, RevertRestores

-----------------------------------------------------------------------------
(* The checkpoints of nexus-state: what a reverted checkpoint restores, and   *)
(* the vertex map and the parent links.                                       *)

\* The recursions of ApplyAll, RevertAll, States and ParentIds have a solution.
AppliesTo(N, d, c, f) ==
    f = [k \in 0..N |-> IF k = 0 THEN d ELSE ApplyChange(f[k - 1], c[k])]

LEMMA AppliesExist == ASSUME NEW d, NEW c PROVE \A n \in Nat : \E f : AppliesTo(n, d, c, f)
<1> DEFINE Good == {n \in Nat : \E f : AppliesTo(n, d, c, f)}
<1>1. 0 \in Good
  <2> DEFINE f == [k \in 0..0 |-> d]
  <2>1. AppliesTo(0, d, c, f)
    BY DEF AppliesTo
  <2> QED
    BY <2>1
<1>2. ASSUME NEW n \in Nat, n \in Good PROVE n + 1 \in Good
  <2>1. PICK f : AppliesTo(n, d, c, f)
    BY <1>2
  <2> DEFINE x == ApplyChange(f[n], c[(n + 1)])
             h == [k \in 0..(n + 1) |-> IF k = n + 1 THEN x ELSE f[k]]
  <2>2. \A k \in 0..n : f[k] = IF k = 0 THEN d ELSE ApplyChange(f[k - 1], c[k])
    BY <2>1 DEF AppliesTo
  <2>3. \A k \in 0..(n + 1) : h[k] = IF k = 0 THEN d ELSE ApplyChange(h[k - 1], c[k])
    <3> TAKE k \in 0..(n + 1)
    <3>1. CASE k = n + 1
      <4>1. h[k] = x /\ h[k - 1] = f[n] /\ k # 0
        BY <3>1
      <4> QED
        BY <3>1, <4>1
    <3>2. CASE k = 0
      <4>1. h[k] = f[0] /\ f[0] = d
        BY <3>2, <2>2
      <4> QED
        BY <3>2, <4>1
    <3>3. CASE k \in 1..n
      <4>1. h[k] = f[k] /\ h[k - 1] = f[k - 1] /\ k \in 0..n /\ k # 0
        BY <3>3
      <4> HIDE DEF h
      <4> QED
        BY <4>1, <2>2
    <3> QED
      BY <3>1, <3>2, <3>3
  <2>4. AppliesTo(n + 1, d, c, h)
    <3>1. h = [k \in 0..(n + 1) |-> h[k]]
      OBVIOUS
    <3> HIDE DEF h
    <3> QED
      BY <2>3, <3>1 DEF AppliesTo
  <2> QED
    BY <2>4
<1> HIDE DEF Good
<1>3. \A n \in Nat : n \in Good
  BY <1>1, <1>2, NatSetInduction
<1> QED
  BY <1>3 DEF Good


RevertsTo(N, d, c, f) ==
    f = [k \in 0..N |-> IF k = 0 THEN d ELSE RevertChange(c[Len(c) - k + 1], f[k - 1])]

LEMMA RevertsExist == ASSUME NEW d, NEW c PROVE \A n \in Nat : \E f : RevertsTo(n, d, c, f)
<1> DEFINE Good == {n \in Nat : \E f : RevertsTo(n, d, c, f)}
<1>1. 0 \in Good
  <2> DEFINE f == [k \in 0..0 |-> d]
  <2>1. RevertsTo(0, d, c, f)
    BY DEF RevertsTo
  <2> QED
    BY <2>1
<1>2. ASSUME NEW n \in Nat, n \in Good PROVE n + 1 \in Good
  <2>1. PICK f : RevertsTo(n, d, c, f)
    BY <1>2
  <2> DEFINE x == RevertChange(c[Len(c) - (n + 1) + 1], f[n])
             h == [k \in 0..(n + 1) |-> IF k = n + 1 THEN x ELSE f[k]]
  <2>2. \A k \in 0..n : f[k] = IF k = 0 THEN d ELSE RevertChange(c[Len(c) - k + 1], f[k - 1])
    BY <2>1 DEF RevertsTo
  <2>3. \A k \in 0..(n + 1) : h[k] = IF k = 0 THEN d ELSE RevertChange(c[Len(c) - k + 1], h[k - 1])
    <3> TAKE k \in 0..(n + 1)
    <3>1. CASE k = n + 1
      <4>1. h[k] = x /\ h[k - 1] = f[n] /\ k # 0
        BY <3>1
      <4> QED
        BY <3>1, <4>1
    <3>2. CASE k = 0
      <4>1. h[k] = f[0] /\ f[0] = d
        BY <3>2, <2>2
      <4> QED
        BY <3>2, <4>1
    <3>3. CASE k \in 1..n
      <4>1. h[k] = f[k] /\ h[k - 1] = f[k - 1] /\ k \in 0..n /\ k # 0
        BY <3>3
      <4> HIDE DEF h
      <4> QED
        BY <4>1, <2>2
    <3> QED
      BY <3>1, <3>2, <3>3
  <2>4. RevertsTo(n + 1, d, c, h)
    <3>1. h = [k \in 0..(n + 1) |-> h[k]]
      OBVIOUS
    <3> HIDE DEF h
    <3> QED
      BY <2>3, <3>1 DEF RevertsTo
  <2> QED
    BY <2>4
<1> HIDE DEF Good
<1>3. \A n \in Nat : n \in Good
  BY <1>1, <1>2, NatSetInduction
<1> QED
  BY <1>3 DEF Good


RunsTo(N, d, plan, f) ==
    f = [k \in 0..N |-> IF k = 0 THEN d ELSE ApplyChange(f[k - 1], Record(f[k - 1], plan[k]))]

LEMMA RunsExist == ASSUME NEW d, NEW plan PROVE \A n \in Nat : \E f : RunsTo(n, d, plan, f)
<1> DEFINE Good == {n \in Nat : \E f : RunsTo(n, d, plan, f)}
<1>1. 0 \in Good
  <2> DEFINE f == [k \in 0..0 |-> d]
  <2>1. RunsTo(0, d, plan, f)
    BY DEF RunsTo
  <2> QED
    BY <2>1
<1>2. ASSUME NEW n \in Nat, n \in Good PROVE n + 1 \in Good
  <2>1. PICK f : RunsTo(n, d, plan, f)
    BY <1>2
  <2> DEFINE x == ApplyChange(f[n], Record(f[n], plan[(n + 1)]))
             h == [k \in 0..(n + 1) |-> IF k = n + 1 THEN x ELSE f[k]]
  <2>2. \A k \in 0..n : f[k] = IF k = 0 THEN d ELSE ApplyChange(f[k - 1], Record(f[k - 1], plan[k]))
    BY <2>1 DEF RunsTo
  <2>3. \A k \in 0..(n + 1) : h[k] = IF k = 0 THEN d ELSE ApplyChange(h[k - 1], Record(h[k - 1], plan[k]))
    <3> TAKE k \in 0..(n + 1)
    <3>1. CASE k = n + 1
      <4>1. h[k] = x /\ h[k - 1] = f[n] /\ k # 0
        BY <3>1
      <4> QED
        BY <3>1, <4>1
    <3>2. CASE k = 0
      <4>1. h[k] = f[0] /\ f[0] = d
        BY <3>2, <2>2
      <4> QED
        BY <3>2, <4>1
    <3>3. CASE k \in 1..n
      <4>1. h[k] = f[k] /\ h[k - 1] = f[k - 1] /\ k \in 0..n /\ k # 0
        BY <3>3
      <4> HIDE DEF h
      <4> QED
        BY <4>1, <2>2
    <3> QED
      BY <3>1, <3>2, <3>3
  <2>4. RunsTo(n + 1, d, plan, h)
    <3>1. h = [k \in 0..(n + 1) |-> h[k]]
      OBVIOUS
    <3> HIDE DEF h
    <3> QED
      BY <2>3, <3>1 DEF RunsTo
  <2> QED
    BY <2>4
<1> HIDE DEF Good
<1>3. \A n \in Nat : n \in Good
  BY <1>1, <1>2, NatSetInduction
<1> QED
  BY <1>3 DEF Good


LEMMA ApplyAllIs ==
    ASSUME NEW d, NEW c, Len(c) \in Nat
    PROVE  \E f : AppliesTo(Len(c), d, c, f) /\ ApplyAll(d, c) = f[Len(c)]
<1>1. \E f : AppliesTo(Len(c), d, c, f)
  BY AppliesExist
<1>2. ApplyAll(d, c) = (CHOOSE f : AppliesTo(Len(c), d, c, f))[Len(c)]
  BY Zenon DEF ApplyAll, AppliesTo
<1> QED
  BY <1>1, <1>2

LEMMA RevertAllIs ==
    ASSUME NEW d, NEW c, Len(c) \in Nat
    PROVE  \E f : RevertsTo(Len(c), d, c, f) /\ RevertAll(d, c) = f[Len(c)]
<1>1. \E f : RevertsTo(Len(c), d, c, f)
  BY RevertsExist
<1>2. RevertAll(d, c) = (CHOOSE f : RevertsTo(Len(c), d, c, f))[Len(c)]
  BY Zenon DEF RevertAll, RevertsTo
<1> QED
  BY <1>1, <1>2

LEMMA StatesIs ==
    ASSUME NEW d, NEW plan, Len(plan) \in Nat
    PROVE  RunsTo(Len(plan), d, plan, States(d, plan))
<1>1. \E f : RunsTo(Len(plan), d, plan, f)
  BY RunsExist
<1>2. States(d, plan) = (CHOOSE f : RunsTo(Len(plan), d, plan, f))
  BY Zenon DEF States, RunsTo
<1> QED
  BY <1>1, <1>2

IsDb(d) == d = [f \in Field |-> d[f]]
Alike(F, d, e) == \A f \in F : Read(d, f) = Read(e, f)
IsStep(p) == p.kind \in {"created", "deleted"} \/ (p.kind = "set" /\ p.field \in Field)
BalanceNonce == {"balance", "nonce"}

\* Reading back what was written, in the same and in another field
LEMMA WriteReads ==
    ASSUME NEW d, IsDb(d), NEW f \in Field, NEW v
    PROVE  /\ IsDb(Write(d, f, v))
           /\ Read(Write(d, f, v), f) = IF f = "code" /\ (v = 0 \/ v = EmptyCode) THEN 0 ELSE v
           /\ \A g \in Field : g # f => Read(Write(d, f, v), g) = Read(d, g)
<1> DEFINE e == Write(d, f, v)
           w == IF f = "code" /\ v = 0 THEN EmptyCode ELSE v
<1>1. DOMAIN d = Field
  BY DEF IsDb
<1>2. e = [d EXCEPT ![f] = w]
  BY DEF Write
<1> HIDE DEF w, e
<1>3. DOMAIN e = Field /\ e[f] = w /\ \A g \in Field : g # f => e[g] = d[g]
  BY <1>1, <1>2
<1>4. IsDb(e)
  <2>1. e = [g \in Field |-> IF g = f THEN w ELSE d[g]]
    BY <1>1, <1>2 DEF IsDb
  <2> QED
    BY <2>1 DEF IsDb
<1>5. Read(e, f) = IF f = "code" /\ (v = 0 \/ v = EmptyCode) THEN 0 ELSE v
  BY <1>3 DEF Read, w
<1>6. \A g \in Field : g # f => Read(e, g) = Read(d, g)
  BY <1>3 DEF Read
<1> QED
  BY <1>4, <1>5, <1>6 DEF e

LEMMA AbsentIsDb == IsDb(Absent)
BY DEF IsDb, Absent

\* What one recorded step does, by kind
LEMMA RecordedSteps ==
    ASSUME NEW s, NEW p, IsStep(p)
    PROVE  /\ p.kind = "set" => /\ \A d : ApplyChange(d, Record(s, p)) = Write(d, p.field, p.new)
                                /\ \A d : RevertChange(Record(s, p), d) = Write(d, p.field, Read(s, p.field))
           /\ p.kind = "created" => /\ \A d : ApplyChange(d, Record(s, p)) = d
                                    /\ \A d : RevertChange(Record(s, p), d) = Absent
           /\ p.kind = "deleted" => /\ \A d : ApplyChange(d, Record(s, p)) = Absent
                                    /\ \A d : RevertChange(Record(s, p), d) =
                                          Write(Write(d, "balance", s["balance"]), "nonce", s["nonce"])
           /\ Record(s, p).kind = p.kind
<1>1. CASE p.kind = "set"
  <2>1. Record(s, p) = [kind |-> "set", field |-> p.field, old |-> Read(s, p.field), new |-> p.new]
    BY <1>1 DEF Record
  <2>2. /\ Record(s, p).kind = "set" /\ Record(s, p).field = p.field
        /\ Record(s, p).old = Read(s, p.field) /\ Record(s, p).new = p.new
    BY <2>1
  <2> QED
    BY <1>1, <2>2 DEF ApplyChange, RevertChange
<1>2. CASE p.kind = "created"
  <2>1. Record(s, p) = p
    BY <1>2 DEF Record
  <2> QED
    BY <1>2, <2>1 DEF ApplyChange, RevertChange
<1>3. CASE p.kind = "deleted"
  <2>1. Record(s, p) = [kind |-> "deleted", balance |-> s["balance"], nonce |-> s["nonce"]]
    BY <1>3 DEF Record
  <2>2. /\ Record(s, p).kind = "deleted" /\ Record(s, p).balance = s["balance"]
        /\ Record(s, p).nonce = s["nonce"]
    BY <2>1
  <2> QED
    BY <1>3, <2>2 DEF ApplyChange, RevertChange
<1> QED
  BY <1>1, <1>2, <1>3 DEF IsStep

\* A recorded step keeps states alike that are alike.
LEMMA StepAlike ==
    ASSUME NEW s, NEW p, IsStep(p), NEW d, IsDb(d), NEW e, IsDb(e), NEW F, F \subseteq Field, Alike(F, d, e)
    PROVE  /\ IsDb(ApplyChange(d, Record(s, p))) /\ IsDb(ApplyChange(e, Record(s, p)))
           /\ Alike(F, ApplyChange(d, Record(s, p)), ApplyChange(e, Record(s, p)))
<1>1. CASE p.kind = "set"
  <2>1. /\ ApplyChange(d, Record(s, p)) = Write(d, p.field, p.new)
        /\ ApplyChange(e, Record(s, p)) = Write(e, p.field, p.new)
    BY <1>1, RecordedSteps
  <2>2. p.field \in Field
    BY <1>1 DEF IsStep
  <2>3. IsDb(Write(d, p.field, p.new)) /\ IsDb(Write(e, p.field, p.new))
    BY <2>2, WriteReads
  <2>4. ASSUME NEW f \in F PROVE Read(Write(d, p.field, p.new), f) = Read(Write(e, p.field, p.new), f)
    <3>1. CASE f = p.field
      BY <3>1, <2>2, WriteReads
    <3>2. CASE f # p.field
      <4>1. f \in Field /\ Read(d, f) = Read(e, f)
        BY DEF Alike
      <4> QED
        BY <3>2, <4>1, <2>2, WriteReads
    <3> QED
      BY <3>1, <3>2
  <2> QED
    BY <2>1, <2>3, <2>4 DEF Alike
<1>2. CASE p.kind = "created"
  BY <1>2, RecordedSteps
<1>3. CASE p.kind = "deleted"
  <2>1. ApplyChange(d, Record(s, p)) = Absent /\ ApplyChange(e, Record(s, p)) = Absent
    BY <1>3, RecordedSteps
  <2> QED
    BY <2>1, AbsentIsDb DEF Alike
<1> QED
  BY <1>1, <1>2, <1>3 DEF IsStep

\* Reverting a recorded step leads back to the state it was recorded on; a
\* deletion brings back the balance and the nonce only.
LEMMA StepBack ==
    ASSUME NEW s, IsDb(s), NEW p, IsStep(p), NEW e, IsDb(e), NEW F, F \subseteq Field,
           p.kind = "deleted" => F = BalanceNonce, p.kind = "created" => s = Absent,
           Alike(F, e, ApplyChange(s, Record(s, p)))
    PROVE  IsDb(RevertChange(Record(s, p), e)) /\ Alike(F, RevertChange(Record(s, p), e), s)
<1>1. CASE p.kind = "set"
  <2>1. /\ ApplyChange(s, Record(s, p)) = Write(s, p.field, p.new)
        /\ RevertChange(Record(s, p), e) = Write(e, p.field, Read(s, p.field))
    BY <1>1, RecordedSteps
  <2>2. p.field \in Field
    BY <1>1 DEF IsStep
  <2> DEFINE v == Read(s, p.field)
  <2>3. /\ IsDb(Write(e, p.field, v))
        /\ Read(Write(e, p.field, v), p.field)
              = IF p.field = "code" /\ (v = 0 \/ v = EmptyCode) THEN 0 ELSE v
        /\ \A g \in Field : g # p.field => Read(Write(e, p.field, v), g) = Read(e, g)
    <3> HIDE DEF v
    <3> QED
      BY <2>2, WriteReads
  <2>4. p.field = "code" => v # EmptyCode
    BY DEF Read, EmptyCode
  <2>5. \A g \in Field : g # p.field => Read(Write(s, p.field, p.new), g) = Read(s, g)
    BY <2>2, WriteReads
  <2> HIDE DEF v
  <2>6. ASSUME NEW f \in F PROVE Read(Write(e, p.field, v), f) = Read(s, f)
    <3>1. CASE f = p.field
      BY <3>1, <2>3, <2>4 DEF v
    <3>2. CASE f # p.field
      <4>1. f \in Field /\ Read(e, f) = Read(Write(s, p.field, p.new), f)
        BY <2>1 DEF Alike
      <4> QED
        BY <3>2, <4>1, <2>3, <2>5
    <3> QED
      BY <3>1, <3>2
  <2>7. Alike(F, Write(e, p.field, v), s)
    BY <2>6 DEF Alike
  <2> QED
    BY <2>1, <2>3, <2>7 DEF v
<1>2. CASE p.kind = "created"
  <2>1. RevertChange(Record(s, p), e) = Absent /\ s = Absent
    BY <1>2, RecordedSteps
  <2> QED
    BY <2>1, AbsentIsDb DEF Alike
<1>3. CASE p.kind = "deleted"
  <2> DEFINE m == Write(e, "balance", s["balance"])
             r == Write(m, "nonce", s["nonce"])
  <2>1. RevertChange(Record(s, p), e) = r
    BY <1>3, RecordedSteps
  <2>2. "balance" \in Field /\ "nonce" \in Field /\ "balance" # "nonce"
    BY DEF Field
  <2>3. IsDb(m) /\ Read(m, "balance") = s["balance"]
    BY <2>2, WriteReads
  <2> HIDE DEF m
  <2>4. IsDb(r) /\ Read(r, "nonce") = s["nonce"] /\ Read(r, "balance") = Read(m, "balance")
    BY <2>2, <2>3, WriteReads
  <2> HIDE DEF r
  <2>5. Read(s, "balance") = s["balance"] /\ Read(s, "nonce") = s["nonce"]
    BY DEF Read
  <2> QED
    BY <1>3, <2>1, <2>3, <2>4, <2>5 DEF Alike, BalanceNonce
<1> QED
  BY <1>1, <1>2, <1>3 DEF IsStep


GoodPlan(plan) == Len(plan) \in Nat /\ \A k \in 1..Len(plan) : IsStep(plan[k])

LEMMA StatesStep ==
    ASSUME NEW d, IsDb(d), NEW plan, GoodPlan(plan)
    PROVE  /\ States(d, plan)[0] = d
           /\ \A k \in Nat : k + 1 <= Len(plan) =>
                 States(d, plan)[k + 1] = ApplyChange(States(d, plan)[k], Record(States(d, plan)[k], plan[k + 1]))
           /\ \A k \in 0..Len(plan) : IsDb(States(d, plan)[k])
<1> DEFINE S == States(d, plan)
           n == Len(plan)
<1>0. n \in Nat /\ \A k \in 1..n : IsStep(plan[k])
  BY DEF GoodPlan
<1>1. \A k \in 0..n : S[k] = IF k = 0 THEN d ELSE ApplyChange(S[k - 1], Record(S[k - 1], plan[k]))
  <2>1. RunsTo(n, d, plan, S)
    BY <1>0, StatesIs
  <2> HIDE DEF S
  <2> QED
    BY <2>1 DEF RunsTo
<1> HIDE DEF S, n
<1>2. S[0] = d
  <2>1. 0 \in 0..n
    BY <1>0
  <2> QED
    BY <1>1, <2>1
<1>3. ASSUME NEW k \in Nat, k + 1 <= n PROVE S[k + 1] = ApplyChange(S[k], Record(S[k], plan[k + 1]))
  <2>1. k + 1 \in 0..n /\ k + 1 # 0 /\ (k + 1) - 1 = k
    BY <1>0, <1>3
  <2> QED
    BY <1>1, <2>1
<1> DEFINE Good == {k \in Nat : k <= n => IsDb(S[k])}
<1>4. 0 \in Good
  BY <1>2
<1>5. ASSUME NEW k \in Nat, k \in Good PROVE k + 1 \in Good
  <2> SUFFICES ASSUME k + 1 <= n PROVE IsDb(S[k + 1])
    OBVIOUS
  <2>1. IsDb(S[k]) /\ k + 1 \in 1..n
    BY <1>0, <1>5
  <2>2. IsStep(plan[k + 1])
    BY <1>0, <2>1
  <2>3. IsDb(ApplyChange(S[k], Record(S[k], plan[k + 1])))
    <3>1. {} \subseteq Field /\ Alike({}, S[k], S[k])
      BY DEF Alike
    <3> QED
      BY <2>1, <2>2, <3>1, StepAlike
  <2> QED
    BY <1>3, <2>3
<1> HIDE DEF Good
<1>6. \A k \in Nat : k \in Good
  BY <1>4, <1>5, NatSetInduction
<1>7. \A k \in 0..n : IsDb(S[k])
  BY <1>0, <1>6 DEF Good
<1> QED
  BY <1>2, <1>3, <1>7 DEF S, n

LEMMA RecordedIs ==
    ASSUME NEW d, NEW plan, Len(plan) \in Nat
    PROVE  /\ Len(Recorded(d, plan)) = Len(plan)
           /\ \A k \in Nat : k + 1 <= Len(plan) => Recorded(d, plan)[k + 1] = Record(States(d, plan)[k], plan[k + 1])
<1> DEFINE c == Recorded(d, plan)
           S == States(d, plan)
<1>1. c = [k \in 1..Len(plan) |-> Record(S[k - 1], plan[k])]
  BY DEF Recorded
<1> HIDE DEF c, S
<1>2. c \in Seq({Record(S[k - 1], plan[k]) : k \in 1..Len(plan)}) /\ DOMAIN c = 1..Len(plan)
  BY <1>1
<1>3. Len(c) = Len(plan)
  BY <1>2
<1>4. ASSUME NEW k \in Nat, k + 1 <= Len(plan) PROVE c[k + 1] = Record(S[k], plan[k + 1])
  <2>1. k + 1 \in 1..Len(plan) /\ (k + 1) - 1 = k
    BY <1>4
  <2> QED
    BY <1>1, <2>1
<1> QED
  BY <1>3, <1>4 DEF c, S

\* Applying recorded changes to a state like the one they were recorded on
\* leads to a state like the one the execution reached.
LEMMA ApplyFollows ==
    ASSUME NEW d, IsDb(d), NEW e, IsDb(e), NEW plan, GoodPlan(plan), NEW F, F \subseteq Field, Alike(F, e, d)
    PROVE  /\ IsDb(ApplyAll(e, Recorded(d, plan)))
           /\ Alike(F, ApplyAll(e, Recorded(d, plan)), States(d, plan)[Len(plan)])
<1> DEFINE S == States(d, plan)
           n == Len(plan)
           c == Recorded(d, plan)
<1>0. n \in Nat /\ \A k \in 1..n : IsStep(plan[k])
  BY DEF GoodPlan
<1>1. /\ S[0] = d /\ \A k \in 0..n : IsDb(S[k])
      /\ \A k \in Nat : k + 1 <= n => S[k + 1] = ApplyChange(S[k], Record(S[k], plan[k + 1]))
  BY StatesStep
<1>2. Len(c) = n /\ \A k \in Nat : k + 1 <= n => c[k + 1] = Record(S[k], plan[k + 1])
  BY <1>0, RecordedIs
<1> HIDE DEF S, n, c
<1>3. PICK f : AppliesTo(Len(c), e, c, f) /\ ApplyAll(e, c) = f[Len(c)]
  BY <1>0, <1>2, ApplyAllIs
<1>4. \A k \in 0..n : f[k] = IF k = 0 THEN e ELSE ApplyChange(f[k - 1], c[k])
  BY <1>2, <1>3 DEF AppliesTo
<1> DEFINE Good == {k \in Nat : k <= n => IsDb(f[k]) /\ Alike(F, f[k], S[k])}
<1>5. 0 \in Good
  <2>1. 0 \in 0..n
    BY <1>0
  <2> QED
    BY <1>1, <1>4, <2>1
<1>6. ASSUME NEW k \in Nat, k \in Good PROVE k + 1 \in Good
  <2> SUFFICES ASSUME k + 1 <= n PROVE IsDb(f[k + 1]) /\ Alike(F, f[k + 1], S[k + 1])
    OBVIOUS
  <2>1. IsDb(f[k]) /\ Alike(F, f[k], S[k]) /\ k + 1 \in 1..n /\ k \in 0..n
        /\ k + 1 \in 0..n /\ k + 1 # 0 /\ (k + 1) - 1 = k
    BY <1>0, <1>6
  <2>2. IsStep(plan[k + 1]) /\ IsDb(S[k])
    BY <1>0, <1>1, <2>1
  <2>3. f[k + 1] = ApplyChange(f[k], Record(S[k], plan[k + 1]))
    BY <1>2, <1>4, <2>1
  <2>4. S[k + 1] = ApplyChange(S[k], Record(S[k], plan[k + 1]))
    BY <1>1
  <2> QED
    BY <2>1, <2>2, <2>3, <2>4, StepAlike
<1> HIDE DEF Good
<1>7. \A k \in Nat : k \in Good
  BY <1>5, <1>6, NatSetInduction
<1>8. IsDb(f[n]) /\ Alike(F, f[n], S[n])
  BY <1>0, <1>7 DEF Good
<1> QED
  BY <1>2, <1>3, <1>8 DEF S, n, c

\* Reverting recorded changes from a state like the one the execution reached
\* leads back to a state like the one it started from.
LEMMA RevertLeadsBack ==
    ASSUME NEW d, IsDb(d), NEW e, IsDb(e), NEW plan, GoodPlan(plan), CanRun(d, plan), NEW F, F \subseteq Field,
           \A k \in 1..Len(plan) : plan[k].kind = "deleted" => F = BalanceNonce,
           Alike(F, e, States(d, plan)[Len(plan)])
    PROVE  IsDb(RevertAll(e, Recorded(d, plan))) /\ Alike(F, RevertAll(e, Recorded(d, plan)), d)
<1> DEFINE S == States(d, plan)
           n == Len(plan)
           c == Recorded(d, plan)
<1>0. /\ n \in Nat /\ \A k \in 1..n : IsStep(plan[k])
      /\ \A k \in 1..n : plan[k].kind = "created" => S[k - 1] = Absent
  BY DEF GoodPlan, CanRun
<1>1. /\ S[0] = d /\ \A k \in 0..n : IsDb(S[k])
      /\ \A k \in Nat : k + 1 <= n => S[k + 1] = ApplyChange(S[k], Record(S[k], plan[k + 1]))
  BY StatesStep
<1>2. Len(c) = n /\ \A k \in Nat : k + 1 <= n => c[k + 1] = Record(S[k], plan[k + 1])
  BY <1>0, RecordedIs
<1>a. Alike(F, e, S[n]) /\ \A k \in 1..n : plan[k].kind = "deleted" => F = BalanceNonce
  OBVIOUS
<1> HIDE DEF S, n, c
<1>3. PICK f : RevertsTo(Len(c), e, c, f) /\ RevertAll(e, c) = f[Len(c)]
  BY <1>0, <1>2, RevertAllIs
<1>4. \A k \in 0..n : f[k] = IF k = 0 THEN e ELSE RevertChange(c[n - k + 1], f[k - 1])
  BY <1>2, <1>3 DEF RevertsTo
<1> DEFINE Good == {k \in Nat : k <= n => IsDb(f[k]) /\ Alike(F, f[k], S[n - k])}
<1>5. 0 \in Good
  <2>1. 0 \in 0..n /\ n - 0 = n
    BY <1>0
  <2> QED
    BY <1>a, <1>4, <2>1
<1>6. ASSUME NEW k \in Nat, k \in Good PROVE k + 1 \in Good
  <2> SUFFICES ASSUME k + 1 <= n PROVE IsDb(f[k + 1]) /\ Alike(F, f[k + 1], S[n - (k + 1)])
    OBVIOUS
  <2> DEFINE j == n - (k + 1)
  <2>1. IsDb(f[k]) /\ Alike(F, f[k], S[n - k])
    BY <1>0, <1>6
  <2>2. /\ j \in Nat /\ j \in 0..n /\ j + 1 <= n /\ j + 1 \in 1..n /\ (j + 1) - 1 = j
        /\ n - k = j + 1 /\ n - (k + 1) + 1 = j + 1
        /\ k + 1 \in 0..n /\ k + 1 # 0 /\ (k + 1) - 1 = k
    BY <1>0
  <2> HIDE DEF j
  <2>3. f[k + 1] = RevertChange(c[n - (k + 1) + 1], f[k])
    BY <1>4, <2>2
  <2>4. f[k + 1] = RevertChange(Record(S[j], plan[j + 1]), f[k])
    BY <1>2, <2>2, <2>3
  <2>5. IsStep(plan[j + 1]) /\ IsDb(S[j])
    BY <1>0, <1>1, <2>2
  <2>6. /\ plan[j + 1].kind = "deleted" => F = BalanceNonce
        /\ plan[j + 1].kind = "created" => S[j] = Absent
    BY <1>0, <1>a, <2>2
  <2>7. Alike(F, f[k], ApplyChange(S[j], Record(S[j], plan[j + 1])))
    BY <1>1, <2>1, <2>2
  <2>8. IsDb(f[k + 1]) /\ Alike(F, f[k + 1], S[j])
    BY <2>1, <2>4, <2>5, <2>6, <2>7, StepBack
  <2> QED
    BY <2>8 DEF j
<1> HIDE DEF Good
<1>7. \A k \in Nat : k \in Good
  BY <1>5, <1>6, NatSetInduction
<1>8. IsDb(f[n]) /\ Alike(F, f[n], S[n - n]) /\ n - n = 0
  BY <1>0, <1>7 DEF Good
<1> QED
  BY <1>1, <1>2, <1>3, <1>8 DEF S, n, c

\* The fields that reverting restores, and the state above the j-th checkpoint
\* in effect: the one the next was recorded on.
Kept == IF lossy THEN BalanceNonce ELSE Field
Above(j) == IF j = Len(applied) THEN db ELSE saved[applied[j + 1]]

CpType ==
    /\ nextId \in Nat /\ nextId >= 1
    /\ IsDb(db)
    /\ DOMAIN saved = 1..(nextId - 1) /\ \A i \in 1..(nextId - 1) : IsDb(saved[i])
    /\ applied \in Seq(Nat) /\ \A j \in 1..Len(applied) : applied[j] \in 1..(nextId - 1)
    /\ DOMAIN cps \subseteq 1..(nextId - 1)

\* A checkpoint holds the changes of an execution on the state saved for it.
CpRecorded ==
    \A id \in DOMAIN cps :
        \E plan \in Plans : cps[id].changes = Recorded(saved[id], plan) /\ CanRun(saved[id], plan)

\* The state above a checkpoint in effect is what its changes make of the state
\* it was recorded on.
CpStacked ==
    \A j \in 1..Len(applied) : applied[j] \in DOMAIN cps =>
        Alike(Kept, Above(j), ApplyAll(saved[applied[j]], cps[applied[j]].changes))

CpInv == CpType /\ CpRecorded /\ CpStacked

LEMMA PlanIsGood == ASSUME NEW plan \in Plans PROVE GoodPlan(plan)
<1>1. plan \in Seq(Range(plan)) /\ \A p \in Range(plan) : IsStep(p)
  BY CheckpointAssumption DEF IsStep
<1>2. Len(plan) \in Nat /\ \A k \in 1..Len(plan) : plan[k] \in Range(plan)
  BY <1>1
<1> QED
  BY <1>1, <1>2 DEF GoodPlan

LEMMA KeptIsField == Kept \subseteq Field
BY DEF Kept, BalanceNonce, Field

LEMMA CpStarts == CheckpointInit => CpInv
<1> SUFFICES ASSUME CheckpointInit PROVE CpInv
  OBVIOUS
<1>1. /\ db = Absent /\ cps = << >> /\ nextId = 1 /\ applied = << >> /\ saved = << >> /\ lossy = FALSE
  BY DEF CheckpointInit
<1>2. Len(applied) = 0 /\ applied \in Seq(Nat) /\ DOMAIN cps = {} /\ DOMAIN saved = {} /\ 1..(nextId - 1) = {}
  BY <1>1
<1>3. CpType
  BY <1>1, <1>2, AbsentIsDb DEF CpType
<1>4. CpRecorded
  BY <1>2 DEF CpRecorded
<1>5. CpStacked
  BY <1>2 DEF CpStacked
<1> QED
  BY <1>3, <1>4, <1>5 DEF CpInv

\* What a checkpoint adds to the three tables
LEMMA CreateAdds ==
    ASSUME CpType, NEW v, NEW plan, CreateCheckpoint(v, plan)
    PROVE  /\ DOMAIN cps' = DOMAIN cps \cup {nextId} /\ nextId \notin DOMAIN cps
           /\ \A id \in DOMAIN cps : cps'[id] = cps[id]
           /\ cps'[nextId] = [vertex |-> v, changes |-> Recorded(db, plan), parents |-> ParentIds(CpParents[v])]
           /\ DOMAIN saved' = DOMAIN saved \cup {nextId}
           /\ \A id \in DOMAIN saved : saved'[id] = saved[id]
           /\ saved'[nextId] = db
           /\ DOMAIN byVertex' = DOMAIN byVertex \cup {v} /\ byVertex'[v] = nextId
           /\ \A w \in DOMAIN byVertex : w # v => byVertex'[w] = byVertex[w]
<1> DEFINE r == [vertex |-> v, changes |-> Recorded(db, plan), parents |-> ParentIds(CpParents[v])]
<1>1. /\ cps' = Insert(cps, nextId, r) /\ byVertex' = Insert(byVertex, v, nextId)
      /\ saved' = Insert(saved, nextId, db)
  BY DEF CreateCheckpoint
<1>2. nextId \notin DOMAIN cps /\ nextId \notin DOMAIN saved
  BY DEF CpType
<1> HIDE DEF r
<1>3. /\ DOMAIN cps' = DOMAIN cps \cup {nextId} /\ cps'[nextId] = r
      /\ \A id \in DOMAIN cps : cps'[id] = cps[id]
  BY <1>1, <1>2 DEF Insert
<1>4. /\ DOMAIN saved' = DOMAIN saved \cup {nextId} /\ saved'[nextId] = db
      /\ \A id \in DOMAIN saved : saved'[id] = saved[id]
  BY <1>1, <1>2 DEF Insert
<1>5. /\ DOMAIN byVertex' = DOMAIN byVertex \cup {v} /\ byVertex'[v] = nextId
      /\ \A w \in DOMAIN byVertex : w # v => byVertex'[w] = byVertex[w]
  BY <1>1 DEF Insert
<1> QED
  BY <1>2, <1>3, <1>4, <1>5 DEF r

\* One more checkpoint in effect, recorded on a state like the one before
LEMMA OneMore ==
    ASSUME CpType, CpStacked, NEW id, NEW e,
           applied' = Append(applied, id), lossy' = lossy,
           id \in DOMAIN saved', Alike(Field, db, saved'[id]),
           \A i \in DOMAIN saved : saved'[i] = saved[i], \A i \in DOMAIN cps : cps'[i] = cps[i],
           \A j \in 1..Len(applied) : applied[j] \in DOMAIN cps' => applied[j] \in DOMAIN cps,
           id \in DOMAIN cps' => Alike(Kept, db', ApplyAll(saved'[id], cps'[id].changes))
    PROVE  CpStacked'
<1> DEFINE n == Len(applied)
<1>1. /\ applied \in Seq(Nat) /\ n \in Nat /\ \A j \in 1..n : applied[j] \in DOMAIN saved
  BY DEF CpType
<1>2. Len(applied') = n + 1 /\ applied'[n + 1] = id /\ \A j \in 1..n : applied'[j] = applied[j]
  BY <1>1
<1>3. Kept' = Kept
  BY DEF Kept
<1> SUFFICES ASSUME NEW j \in 1..Len(applied'), applied'[j] \in DOMAIN cps'
             PROVE  Alike(Kept, Above(j)', ApplyAll(saved'[applied'[j]], cps'[applied'[j]].changes))
  BY <1>3 DEF CpStacked
<1>4. CASE j = n + 1
  <2>1. Above(j)' = db' /\ applied'[j] = id
    BY <1>2, <1>4 DEF Above
  <2> QED
    BY <2>1
<1>5. CASE j \in 1..n
  <2>1. applied'[j] = applied[j] /\ applied[j] \in DOMAIN cps /\ applied[j] \in DOMAIN saved
    BY <1>1, <1>2, <1>5
  <2>2. Alike(Kept, Above(j), ApplyAll(saved[applied[j]], cps[applied[j]].changes))
    BY <1>5, <2>1 DEF CpStacked
  <2>3. saved'[applied[j]] = saved[applied[j]] /\ cps'[applied[j]] = cps[applied[j]]
    BY <2>1
  <2>4. Alike(Field, Above(j), Above(j)')
    <3>1. CASE j = n
      <4>1. Above(j) = db /\ Above(j)' = saved'[id]
        BY <1>1, <1>2, <3>1 DEF Above
      <4> QED
        BY <4>1
    <3>2. CASE j # n
      <4>1. j + 1 \in 1..n /\ j # n + 1
        BY <1>1, <1>5, <3>2
      <4>2. Above(j) = saved[applied[j + 1]] /\ Above(j)' = saved'[applied'[j + 1]]
        BY <1>2, <3>2, <4>1 DEF Above
      <4>3. saved'[applied'[j + 1]] = saved[applied[j + 1]]
        BY <1>1, <1>2, <4>1
      <4> QED
        BY <4>2, <4>3 DEF Alike
    <3> QED
      BY <3>1, <3>2
  <2>5. Alike(Kept, Above(j)', ApplyAll(saved[applied[j]], cps[applied[j]].changes))
    BY <2>2, <2>4, KeptIsField DEF Alike
  <2> QED
    BY <2>1, <2>3, <2>5
<1> QED
  BY <1>1, <1>2, <1>4, <1>5

LEMMA CreateKeeps ==
    ASSUME CpInv, NEW v \in CpVertex, NEW plan \in Plans, CreateCheckpoint(v, plan) PROVE CpInv'
<1> DEFINE n == nextId
           c == Recorded(db, plan)
<1>0. CpType /\ CpRecorded /\ CpStacked /\ GoodPlan(plan)
  BY PlanIsGood DEF CpInv
<1>1. /\ n \in Nat /\ n >= 1 /\ IsDb(db) /\ DOMAIN saved = 1..(n - 1) /\ DOMAIN cps \subseteq 1..(n - 1)
      /\ applied \in Seq(Nat) /\ Len(applied) \in Nat /\ \A j \in 1..Len(applied) : applied[j] \in 1..(n - 1)
      /\ \A i \in 1..(n - 1) : IsDb(saved[i])
  BY <1>0 DEF CpType
<1>2. /\ nextId' = n + 1 /\ applied' = Append(applied, n) /\ lossy' = lossy
      /\ db' = ApplyAll(db, c) /\ CanRun(db, plan)
  BY DEF CreateCheckpoint
<1>3. /\ DOMAIN cps' = DOMAIN cps \cup {n} /\ n \notin DOMAIN cps
      /\ \A id \in DOMAIN cps : cps'[id] = cps[id]
      /\ cps'[n] = [vertex |-> v, changes |-> c, parents |-> ParentIds(CpParents[v])]
      /\ DOMAIN saved' = DOMAIN saved \cup {n}
      /\ \A id \in DOMAIN saved : saved'[id] = saved[id]
      /\ saved'[n] = db
  BY <1>0, CreateAdds
<1>4. cps'[n].changes = c
  BY <1>3
<1>5. IsDb(db')
  <2>1. Alike({}, db, db) /\ {} \subseteq Field
    BY DEF Alike
  <2> QED
    BY <1>0, <1>1, <1>2, <2>1, ApplyFollows
<1> HIDE DEF c
<1>6. CpType'
  <2>1. 1..(nextId' - 1) = 1..(n - 1) \cup {n}
    BY <1>1, <1>2
  <2>2. applied' \in Seq(Nat) /\ \A j \in 1..Len(applied') : applied'[j] \in 1..(n - 1) \cup {n}
    BY <1>1, <1>2
  <2>3. \A i \in 1..(n - 1) \cup {n} : IsDb(saved'[i])
    BY <1>1, <1>3
  <2>4. nextId' \in Nat /\ nextId' >= 1
    BY <1>1, <1>2
  <2>5. DOMAIN saved' = 1..(nextId' - 1) /\ DOMAIN cps' \subseteq 1..(nextId' - 1)
    BY <1>1, <1>3, <2>1
  <2>6. /\ \A i \in 1..(nextId' - 1) : IsDb(saved'[i])
        /\ \A j \in 1..Len(applied') : applied'[j] \in 1..(nextId' - 1)
    BY <2>1, <2>2, <2>3
  <2> QED
    BY <1>5, <2>2, <2>4, <2>5, <2>6 DEF CpType, IsDb
<1>7. CpRecorded'
  <2> SUFFICES ASSUME NEW id \in DOMAIN cps'
               PROVE  \E q \in Plans : cps'[id].changes = Recorded(saved'[id], q) /\ CanRun(saved'[id], q)
    BY DEF CpRecorded
  <2>1. CASE id = n
    BY <2>1, <1>2, <1>3, <1>4 DEF c
  <2>2. CASE id \in DOMAIN cps
    <3>1. id \in DOMAIN saved /\ cps'[id] = cps[id] /\ saved'[id] = saved[id]
      BY <1>1, <1>3, <2>2
    <3> QED
      BY <1>0, <2>2, <3>1 DEF CpRecorded
  <2> QED
    BY <1>3, <2>1, <2>2
<1>8. CpStacked'
  <2>1. Alike(Field, db, saved'[n]) /\ Alike(Kept, db', ApplyAll(saved'[n], cps'[n].changes))
    BY <1>2, <1>3, <1>4 DEF Alike
  <2>2. \A j \in 1..Len(applied) : applied[j] \in DOMAIN cps' => applied[j] \in DOMAIN cps
    BY <1>1, <1>3
  <2> QED
    BY <1>0, <1>2, <1>3, <2>1, <2>2, OneMore
<1> QED
  BY <1>6, <1>7, <1>8 DEF CpInv

LEMMA ApplyKeeps ==
    ASSUME CpInv, NEW id, ApplyCheckpoint(id) PROVE CpInv'
<1>0. CpType /\ CpRecorded /\ CpStacked
  BY DEF CpInv
<1>1. /\ id \in DOMAIN cps /\ Alike(Field, db, saved[id]) /\ db' = ApplyAll(db, cps[id].changes)
      /\ applied' = Append(applied, id)
      /\ cps' = cps /\ nextId' = nextId /\ saved' = saved /\ lossy' = lossy
  BY DEF ApplyCheckpoint, Alike
<1>2. /\ nextId \in Nat /\ IsDb(db) /\ DOMAIN saved = 1..(nextId - 1) /\ id \in 1..(nextId - 1) /\ IsDb(saved[id])
      /\ applied \in Seq(Nat) /\ Len(applied) \in Nat /\ id \in Nat
      /\ \A j \in 1..Len(applied) : applied[j] \in 1..(nextId - 1)
  BY <1>0, <1>1 DEF CpType
<1>3. PICK plan \in Plans : cps[id].changes = Recorded(saved[id], plan) /\ CanRun(saved[id], plan)
  BY <1>0, <1>1 DEF CpRecorded
<1> DEFINE last == States(saved[id], plan)[Len(plan)]
<1>4. GoodPlan(plan)
  BY PlanIsGood
<1>5. IsDb(db') /\ Alike(Field, db', last)
  BY <1>1, <1>2, <1>3, <1>4, ApplyFollows
<1>6. Alike(Field, ApplyAll(saved[id], cps[id].changes), last)
  <2>1. Alike(Field, saved[id], saved[id])
    BY DEF Alike
  <2> QED
    BY <1>2, <1>3, <1>4, <2>1, ApplyFollows
<1> HIDE DEF last
<1>7. Alike(Kept, db', ApplyAll(saved[id], cps[id].changes))
  BY <1>5, <1>6, KeptIsField DEF Alike
<1>8. CpType'
  <2>1. applied' \in Seq(Nat) /\ \A j \in 1..Len(applied') : applied'[j] \in 1..(nextId - 1)
    BY <1>1, <1>2
  <2> QED
    BY <1>0, <1>1, <1>5, <2>1 DEF CpType
<1>9. CpRecorded'
  BY <1>0, <1>1 DEF CpRecorded
<1>10. CpStacked'
  BY <1>0, <1>1, <1>2, <1>7, OneMore
<1> QED
  BY <1>8, <1>9, <1>10 DEF CpInv

\* Reverting the last checkpoint in effect
LEMMA RevertLastRestores ==
    ASSUME CpInv, RevertLast PROVE IsDb(db') /\ Alike(Kept', db', saved[Last(applied)])
<1> DEFINE id == Last(applied)
<1>0. CpType /\ CpRecorded /\ CpStacked
  BY DEF CpInv
<1>1. /\ applied # << >> /\ id \in DOMAIN cps /\ db' = RevertAll(db, cps[id].changes)
      /\ lossy' = (lossy \/ Deletes(id))
  BY DEF RevertLast
<1>2. Len(applied) \in 1..Len(applied) /\ id = applied[Len(applied)] /\ id \in 1..(nextId - 1) /\ IsDb(saved[id]) /\ IsDb(db)
  BY <1>0, <1>1 DEF CpType, Last
<1> HIDE DEF id
<1>3. PICK plan \in Plans : cps[id].changes = Recorded(saved[id], plan) /\ CanRun(saved[id], plan)
  BY <1>0, <1>1 DEF CpRecorded
<1>4. GoodPlan(plan) /\ Len(plan) \in Nat
  BY PlanIsGood DEF GoodPlan
<1> DEFINE last == States(saved[id], plan)[Len(plan)]
<1>5. Alike(Kept, db, ApplyAll(saved[id], cps[id].changes))
  <2>1. Above(Len(applied)) = db
    BY DEF Above
  <2> QED
    BY <1>0, <1>1, <1>2, <2>1 DEF CpStacked
<1>6. Alike(Field, ApplyAll(saved[id], cps[id].changes), last)
  <2>1. Alike(Field, saved[id], saved[id])
    BY DEF Alike
  <2> QED
    BY <1>2, <1>3, <1>4, <2>1, ApplyFollows
<1>7. Kept' \subseteq Kept /\ Kept' \subseteq Field
  BY <1>1 DEF Kept, BalanceNonce, Field
<1>8. Alike(Kept', db, last)
  <2> HIDE DEF last
  <2> QED
    BY <1>5, <1>6, <1>7, KeptIsField DEF Alike
<1>9. ASSUME NEW k \in 1..Len(plan), plan[k].kind = "deleted" PROVE Kept' = BalanceNonce
  <2> DEFINE c == cps[id].changes
             j == k - 1
  <2>1. j \in Nat /\ j + 1 <= Len(plan) /\ j + 1 = k
    BY <1>4
  <2>2. Len(c) = Len(plan) /\ c[j + 1] = Record(States(saved[id], plan)[j], plan[j + 1])
    BY <1>3, <1>4, <2>1, RecordedIs
  <2>3. c = [i \in 1..Len(plan) |-> c[i]]
    BY <1>3 DEF Recorded
  <2>4. k \in DOMAIN c /\ c[k].kind = "deleted"
    <3>1. IsStep(plan[k])
      BY <1>4 DEF GoodPlan
    <3>2. Record(States(saved[id], plan)[j], plan[k]).kind = plan[k].kind
      BY <3>1, RecordedSteps
    <3> HIDE DEF j, c
    <3> QED
      BY <1>9, <2>1, <2>2, <2>3, <3>2
  <2>5. lossy'
    BY <1>1, <2>4 DEF Deletes
  <2> QED
    BY <2>5 DEF Kept
<1>10. IsDb(RevertAll(db, Recorded(saved[id], plan))) /\ Alike(Kept', RevertAll(db, Recorded(saved[id], plan)), saved[id])
  BY <1>2, <1>3, <1>4, <1>7, <1>8, <1>9, RevertLeadsBack
<1> QED
  BY <1>1, <1>3, <1>10 DEF id

LEMMA Prefix ==
    ASSUME NEW s \in Seq(Nat), NEW m \in Nat, m <= Len(s)
    PROVE  SubSeq(s, 1, m) \in Seq(Nat) /\ Len(SubSeq(s, 1, m)) = m /\ \A j \in 1..m : SubSeq(s, 1, m)[j] = s[j]
OBVIOUS

LEMMA RevertLastKeeps ==
    ASSUME CpInv, RevertLast PROVE CpInv'
<1> DEFINE n == Len(applied)
<1>0. CpType /\ CpRecorded /\ CpStacked
  BY DEF CpInv
<1>1. /\ applied # << >> /\ applied' = SubSeq(applied, 1, n - 1) /\ lossy' = (lossy \/ Deletes(Last(applied)))
      /\ cps' = cps /\ nextId' = nextId /\ saved' = saved
  BY DEF RevertLast, Front
<1>2. IsDb(db') /\ Alike(Kept', db', saved[applied[n]])
  BY RevertLastRestores DEF Last
<1>3. /\ applied \in Seq(Nat) /\ n \in Nat /\ n - 1 \in Nat /\ \A j \in 1..n : applied[j] \in 1..(nextId - 1)
  BY <1>0, <1>1 DEF CpType
<1>4. applied' \in Seq(Nat) /\ Len(applied') = n - 1 /\ \A j \in 1..(n - 1) : applied'[j] = applied[j] /\ j \in 1..n
  <2>1. n - 1 <= n /\ \A j \in 1..(n - 1) : j \in 1..n
    BY <1>3
  <2>2. applied' \in Seq(Nat) /\ Len(applied') = n - 1 /\ \A j \in 1..(n - 1) : applied'[j] = applied[j]
    BY <1>1, <1>3, <2>1, Prefix
  <2> QED
    BY <2>1, <2>2
<1>5. Kept' \subseteq Kept
  BY <1>1 DEF Kept, BalanceNonce, Field
<1>6. CpType'
  BY <1>0, <1>1, <1>2, <1>3, <1>4 DEF CpType
<1>7. CpRecorded'
  BY <1>0, <1>1 DEF CpRecorded
<1>8. CpStacked'
  <2> SUFFICES ASSUME NEW j \in 1..(n - 1), applied'[j] \in DOMAIN cps'
               PROVE  Alike(Kept', Above(j)', ApplyAll(saved'[applied'[j]], cps'[applied'[j]].changes))
    BY <1>4 DEF CpStacked
  <2>1. applied'[j] = applied[j] /\ j \in 1..n /\ j # n
    BY <1>3, <1>4
  <2>2. Alike(Kept, saved[applied[j + 1]], ApplyAll(saved[applied[j]], cps[applied[j]].changes))
    <3>1. Above(j) = saved[applied[j + 1]]
      BY <2>1 DEF Above
    <3> QED
      BY <1>0, <1>1, <2>1, <3>1 DEF CpStacked
  <2>3. Alike(Kept', Above(j)', saved[applied[j + 1]])
    <3>1. CASE j = n - 1
      <4>1. Above(j)' = db' /\ j + 1 = n
        BY <1>3, <1>4, <3>1 DEF Above
      <4> QED
        BY <1>2, <4>1
    <3>2. CASE j # n - 1
      <4>1. j + 1 \in 1..(n - 1)
        BY <1>3, <3>2
      <4>2. Above(j)' = saved[applied[j + 1]]
        BY <1>1, <1>4, <3>2, <4>1 DEF Above
      <4> QED
        BY <4>2 DEF Alike
    <3> QED
      BY <3>1, <3>2
  <2>4. Alike(Kept', Above(j)', ApplyAll(saved[applied[j]], cps[applied[j]].changes))
    BY <1>5, <2>2, <2>3 DEF Alike
  <2> QED
    BY <1>1, <2>1, <2>4
<1> QED
  BY <1>6, <1>7, <1>8 DEF CpInv

LEMMA FinalizeKeeps ==
    ASSUME CpInv, UNCHANGED <<db, cps, nextId, applied, saved, lossy>> PROVE CpInv'
BY DEF CpInv, CpType, CpRecorded, CpStacked, Kept, Above

LEMMA PruneKeeps ==
    ASSUME CpInv, PruneBefore PROVE CpInv'
<1>0. CpType /\ CpRecorded /\ CpStacked
  BY DEF CpInv
<1>1. /\ DOMAIN cps' \subseteq DOMAIN cps /\ \A id \in DOMAIN cps' : cps'[id] = cps[id]
      /\ db' = db /\ nextId' = nextId /\ applied' = applied /\ saved' = saved /\ lossy' = lossy
  BY DEF PruneBefore
<1>2. CpType'
  BY <1>0, <1>1 DEF CpType
<1>3. CpRecorded'
  BY <1>0, <1>1 DEF CpRecorded
<1>4. CpStacked'
  <2> SUFFICES ASSUME NEW j \in 1..Len(applied), applied[j] \in DOMAIN cps'
               PROVE  Alike(Kept, Above(j), ApplyAll(saved[applied[j]], cps'[applied[j]].changes))
    BY <1>1 DEF CpStacked, Kept, Above
  <2>1. applied[j] \in DOMAIN cps /\ cps'[applied[j]] = cps[applied[j]]
    BY <1>1
  <2> QED
    BY <1>0, <2>1 DEF CpStacked
<1> QED
  BY <1>2, <1>3, <1>4 DEF CpInv

LEMMA CpStep == CpInv /\ [CheckpointNext]_cpVars => CpInv'
<1> SUFFICES ASSUME CpInv, [CheckpointNext]_cpVars PROVE CpInv'
  OBVIOUS
<1>1. ASSUME NEW v \in CpVertex, NEW plan \in Plans, CreateCheckpoint(v, plan) PROVE CpInv'
  BY <1>1, CreateKeeps
<1>2. CASE RevertLast
  BY <1>2, RevertLastKeeps
<1>3. ASSUME NEW id, ApplyCheckpoint(id) PROVE CpInv'
  BY <1>3, ApplyKeeps
<1>4. ASSUME NEW id, Finalize(id) PROVE CpInv'
  <2>1. UNCHANGED <<db, cps, nextId, applied, saved, lossy>>
    BY <1>4 DEF Finalize
  <2> QED
    BY <2>1, FinalizeKeeps
<1>5. CASE PruneBefore
  BY <1>5, PruneKeeps
<1>6. CASE UNCHANGED cpVars
  <2>1. UNCHANGED <<db, cps, nextId, applied, saved, lossy>>
    BY <1>6 DEF cpVars
  <2> QED
    BY <2>1, FinalizeKeeps
<1> QED
  BY <1>1, <1>2, <1>3, <1>4, <1>5, <1>6 DEF CheckpointNext

\* For any executions, vertices and number of checkpoints: however checkpoints
\* were recorded, reverted, applied again, finalized and pruned before,
\* reverting the last one in effect restores the state it was recorded on; code
\* and storage only until a deletion is reverted, whose record lacks them.
THEOREM RevertProvedToUndo == CheckpointSpec => RevertUndoesApply
<1> DEFINE Restores == RevertLast => \A f \in IF lossy' THEN {"balance", "nonce"} ELSE Field :
                                        Read(db', f) = Read(saved[Last(applied)], f)
<1>1. CpInv /\ RevertLast => Restores
  BY RevertLastRestores DEF Alike, Kept, BalanceNonce
<1>2. CpInv /\ [CheckpointNext]_cpVars => [Restores]_cpVars
  BY <1>1
<1> HIDE DEF Restores
<1>3. CpInv /\ [CheckpointNext]_cpVars => CpInv' /\ [Restores]_cpVars
  BY <1>2, CpStep
<1>4. CheckpointSpec => [][Restores]_cpVars
  BY <1>3, CpStarts, PTL DEF CheckpointSpec
<1> QED
  BY <1>4 DEF RevertUndoesApply, Restores

IdsTo(N, vs, f) ==
    f = [k \in 0..N |-> IF k = 0 THEN << >> ELSE IF vs[k] \in DOMAIN byVertex THEN Append(f[k - 1], byVertex[vs[k]]) ELSE f[k - 1]]

LEMMA IdsExist == ASSUME NEW vs PROVE \A n \in Nat : \E f : IdsTo(n, vs, f)
<1> DEFINE Good == {n \in Nat : \E f : IdsTo(n, vs, f)}
<1>1. 0 \in Good
  <2> DEFINE f == [k \in 0..0 |-> << >>]
  <2>1. IdsTo(0, vs, f)
    BY DEF IdsTo
  <2> QED
    BY <2>1
<1>2. ASSUME NEW n \in Nat, n \in Good PROVE n + 1 \in Good
  <2>1. PICK f : IdsTo(n, vs, f)
    BY <1>2
  <2> DEFINE x == IF vs[(n + 1)] \in DOMAIN byVertex THEN Append(f[n], byVertex[vs[(n + 1)]]) ELSE f[n]
             h == [k \in 0..(n + 1) |-> IF k = n + 1 THEN x ELSE f[k]]
  <2>2. \A k \in 0..n : f[k] = IF k = 0 THEN << >> ELSE IF vs[k] \in DOMAIN byVertex THEN Append(f[k - 1], byVertex[vs[k]]) ELSE f[k - 1]
    BY <2>1 DEF IdsTo
  <2>3. \A k \in 0..(n + 1) : h[k] = IF k = 0 THEN << >> ELSE IF vs[k] \in DOMAIN byVertex THEN Append(h[k - 1], byVertex[vs[k]]) ELSE h[k - 1]
    <3> TAKE k \in 0..(n + 1)
    <3>1. CASE k = n + 1
      <4>1. h[k] = x /\ h[k - 1] = f[n] /\ k # 0
        BY <3>1
      <4> QED
        BY <3>1, <4>1
    <3>2. CASE k = 0
      <4>1. h[k] = f[0] /\ f[0] = << >>
        BY <3>2, <2>2
      <4> QED
        BY <3>2, <4>1
    <3>3. CASE k \in 1..n
      <4>1. h[k] = f[k] /\ h[k - 1] = f[k - 1] /\ k \in 0..n /\ k # 0
        BY <3>3
      <4> HIDE DEF h
      <4> QED
        BY <4>1, <2>2
    <3> QED
      BY <3>1, <3>2, <3>3
  <2>4. IdsTo(n + 1, vs, h)
    <3>1. h = [k \in 0..(n + 1) |-> h[k]]
      OBVIOUS
    <3> HIDE DEF h
    <3> QED
      BY <2>3, <3>1 DEF IdsTo
  <2> QED
    BY <2>4
<1> HIDE DEF Good
<1>3. \A n \in Nat : n \in Good
  BY <1>1, <1>2, NatSetInduction
<1> QED
  BY <1>3 DEF Good


\* The parents of a checkpoint: older ones that are there or were pruned
ParentsAreOlder ==
    \A id \in DOMAIN cps :
        /\ cps[id].parents \in Seq(Nat)
        /\ \A k \in 1..Len(cps[id].parents) :
              cps[id].parents[k] < id /\ (cps[id].parents[k] \in DOMAIN cps \/ cps[id].parents[k] < finalized)

\* Between the write and the pruning of finalize older checkpoints are left;
\* they are what the pruning removes.
LinkType ==
    /\ nextId \in 1..(MaxCheckpoints + 1) /\ finalized \in 0..(nextId - 1) /\ prune \in {0, finalized}
    /\ DOMAIN cps \subseteq 1..(nextId - 1)
    /\ prune = 0 => \A id \in DOMAIN cps : finalized <= id

\* The history knows the vertex of every checkpoint.
MadeFits ==
    DOMAIN made = 1..(nextId - 1) /\ \A id \in DOMAIN cps : id \in DOMAIN made /\ made[id] = cps[id].vertex

LinkInv ==
    CpInv /\ LinkType /\ VertexMapIsCurrent /\ MadeFits /\ MissingWasPruned /\ ParentsAreOlder

LEMMA ParentIdsThere ==
    ASSUME VertexMapIsCurrent, NEW vs, Len(vs) \in Nat PROVE ParentIds(vs) \in Seq(DOMAIN cps)
<1> DEFINE n == Len(vs)
<1>1. PICK f : IdsTo(n, vs, f) /\ ParentIds(vs) = f[n]
  <2>1. \E f : IdsTo(n, vs, f)
    BY IdsExist
  <2>2. ParentIds(vs) = (CHOOSE f : IdsTo(n, vs, f))[n]
    BY Zenon DEF ParentIds, IdsTo
  <2> QED
    BY <2>1, <2>2
<1>2. \A k \in 0..n : f[k] = IF k = 0 THEN << >>
                              ELSE IF vs[k] \in DOMAIN byVertex THEN Append(f[k - 1], byVertex[vs[k]]) ELSE f[k - 1]
  BY <1>1 DEF IdsTo
<1>3. \A w \in DOMAIN byVertex : byVertex[w] \in DOMAIN cps
  BY DEF VertexMapIsCurrent
<1> HIDE DEF n
<1> DEFINE Good == {k \in Nat : k <= n => f[k] \in Seq(DOMAIN cps)}
<1>4. 0 \in Good
  <2>1. n \in Nat => 0 \in 0..n
    OBVIOUS
  <2>2. f[0] = << >>
    BY <1>2, <2>1 DEF n
  <2>3. << >> \in Seq(DOMAIN cps)
    OBVIOUS
  <2> QED
    BY <2>2, <2>3
<1>5. ASSUME NEW k \in Nat, k \in Good PROVE k + 1 \in Good
  <2> SUFFICES ASSUME k + 1 <= n PROVE f[k + 1] \in Seq(DOMAIN cps)
    OBVIOUS
  <2>1. k + 1 \in 0..n /\ k + 1 # 0 /\ (k + 1) - 1 = k /\ f[k] \in Seq(DOMAIN cps)
    BY <1>5 DEF n
  <2>2. f[k + 1] = IF vs[k + 1] \in DOMAIN byVertex THEN Append(f[k], byVertex[vs[k + 1]]) ELSE f[k]
    BY <1>2, <2>1
  <2>3. CASE vs[k + 1] \in DOMAIN byVertex
    <3>1. f[k + 1] = Append(f[k], byVertex[vs[k + 1]]) /\ byVertex[vs[k + 1]] \in DOMAIN cps
      BY <1>3, <2>2, <2>3
    <3> QED
      BY <2>1, <3>1
  <2> QED
    BY <2>1, <2>2, <2>3
<1> HIDE DEF Good
<1>6. \A k \in Nat : k \in Good
  BY <1>4, <1>5, NatSetInduction
<1> QED
  BY <1>1, <1>6 DEF Good, n

LEMMA LinkStarts == CheckpointInit => LinkInv
<1> SUFFICES ASSUME CheckpointInit PROVE LinkInv
  OBVIOUS
<1>1. /\ cps = << >> /\ byVertex = << >> /\ made = << >> /\ nextId = 1 /\ finalized = 0 /\ prune = 0
      /\ MaxCheckpoints \in Nat
  BY CheckpointAssumption DEF CheckpointInit
<1>2. DOMAIN cps = {} /\ DOMAIN byVertex = {} /\ DOMAIN made = {} /\ 1..(nextId - 1) = {}
  BY <1>1
<1> QED
  BY <1>1, <1>2, CpStarts DEF LinkInv, LinkType, VertexMapIsCurrent, ParentsAreOlder, MadeFits, MissingWasPruned

LEMMA CreateLinks ==
    ASSUME LinkInv, NEW v \in CpVertex, NEW plan \in Plans, CreateCheckpoint(v, plan)
    PROVE  LinkType' /\ VertexMapIsCurrent' /\ ParentsAreOlder'
<1> DEFINE n == nextId
           ps == ParentIds(CpParents[v])
<1>0. CpType /\ LinkType /\ VertexMapIsCurrent /\ ParentsAreOlder
  BY DEF LinkInv, CpInv
<1>1. /\ MaxCheckpoints \in Nat /\ n \in Nat /\ n >= 1 /\ finalized \in Nat /\ finalized < n
      /\ DOMAIN cps \subseteq 1..(n - 1) /\ prune \in {0, finalized}
      /\ prune = 0 => \A id \in DOMAIN cps : finalized <= id
  BY <1>0, CheckpointAssumption DEF LinkType
<1>2. n <= MaxCheckpoints /\ nextId' = n + 1 /\ finalized' = finalized /\ prune' = prune
  BY DEF CreateCheckpoint
<1>3. /\ DOMAIN cps' = DOMAIN cps \cup {n} /\ n \notin DOMAIN cps
      /\ \A id \in DOMAIN cps : cps'[id] = cps[id]
      /\ cps'[n] = [vertex |-> v, changes |-> Recorded(db, plan), parents |-> ps]
      /\ DOMAIN byVertex' = DOMAIN byVertex \cup {v} /\ byVertex'[v] = n
      /\ \A w \in DOMAIN byVertex : w # v => byVertex'[w] = byVertex[w]
  BY <1>0, CreateAdds
<1>4. cps'[n].vertex = v /\ cps'[n].parents = ps
  BY <1>3
<1>5. ps \in Seq(DOMAIN cps)
  <2>1. CpParents[v] \in Seq(CpVertex)
    BY CheckpointAssumption
  <2> QED
    BY <1>0, <2>1, ParentIdsThere
<1> HIDE DEF n, ps
<1>6. LinkType'
  <2>1. nextId' \in 1..(MaxCheckpoints + 1) /\ finalized' \in 0..(nextId' - 1)
    BY <1>1, <1>2
  <2>2. DOMAIN cps' \subseteq 1..(nextId' - 1)
    BY <1>1, <1>2, <1>3
  <2>3. prune' = 0 => \A id \in DOMAIN cps' : finalized' <= id
    BY <1>1, <1>2, <1>3
  <2> QED
    BY <1>1, <1>2, <2>1, <2>2, <2>3 DEF LinkType
<1>7. VertexMapIsCurrent'
  <2> SUFFICES ASSUME NEW w \in DOMAIN byVertex'
               PROVE  /\ byVertex'[w] \in DOMAIN cps' /\ cps'[byVertex'[w]].vertex = w
                      /\ \A id \in DOMAIN cps' : cps'[id].vertex = w => id <= byVertex'[w]
    BY DEF VertexMapIsCurrent
  <2>1. CASE w = v
    <3>1. \A id \in DOMAIN cps' : id <= n
      BY <1>1, <1>3
    <3> QED
      BY <1>3, <1>4, <2>1, <3>1
  <2>2. CASE w # v
    <3>1. w \in DOMAIN byVertex /\ byVertex'[w] = byVertex[w]
      BY <1>3, <2>2
    <3>2. /\ byVertex[w] \in DOMAIN cps /\ cps[byVertex[w]].vertex = w
          /\ \A id \in DOMAIN cps : cps[id].vertex = w => id <= byVertex[w]
      BY <1>0, <3>1 DEF VertexMapIsCurrent
    <3>3. ASSUME NEW id \in DOMAIN cps', cps'[id].vertex = w PROVE id <= byVertex[w]
      <4>1. id # n
        BY <1>4, <2>2, <3>3
      <4> QED
        BY <1>3, <3>2, <3>3, <4>1
    <3> QED
      BY <1>3, <3>1, <3>2, <3>3
  <2> QED
    BY <2>1, <2>2
<1>8. ParentsAreOlder'
  <2> SUFFICES ASSUME NEW id \in DOMAIN cps'
               PROVE  /\ cps'[id].parents \in Seq(Nat)
                      /\ \A k \in 1..Len(cps'[id].parents) :
                            /\ cps'[id].parents[k] < id
                            /\ cps'[id].parents[k] \in DOMAIN cps' \/ cps'[id].parents[k] < finalized
    BY <1>2 DEF ParentsAreOlder
  <2>1. CASE id = n
    <3>1. \A i \in DOMAIN cps : i \in Nat /\ i < n /\ i \in DOMAIN cps'
      BY <1>1, <1>3
    <3>2. ps \in Seq(Nat) /\ \A k \in 1..Len(ps) : ps[k] \in DOMAIN cps
      <4>1. DOMAIN cps \subseteq Nat
        BY <3>1
      <4> QED
        BY <1>5, <4>1
    <3> QED
      BY <1>4, <2>1, <3>1, <3>2
  <2>2. CASE id \in DOMAIN cps
    <3>1. cps'[id] = cps[id] /\ DOMAIN cps \subseteq DOMAIN cps'
      BY <1>3, <2>2
    <3> QED
      BY <1>0, <2>2, <3>1 DEF ParentsAreOlder
  <2> QED
    BY <1>3, <2>1, <2>2
<1> QED
  BY <1>6, <1>7, <1>8

LEMMA FinalizeLinks ==
    ASSUME LinkInv, NEW id, Finalize(id) PROVE LinkType' /\ VertexMapIsCurrent' /\ ParentsAreOlder'
<1>0. LinkType /\ VertexMapIsCurrent /\ ParentsAreOlder
  BY DEF LinkInv
<1>1. /\ prune = 0 /\ id \in DOMAIN cps /\ finalized' = id /\ prune' = id
      /\ cps' = cps /\ byVertex' = byVertex /\ nextId' = nextId
  BY DEF Finalize
<1>2. /\ MaxCheckpoints \in Nat /\ nextId \in Nat /\ finalized \in Nat /\ id \in 1..(nextId - 1) /\ finalized <= id
      /\ DOMAIN cps \subseteq 1..(nextId - 1)
  BY <1>0, <1>1, CheckpointAssumption DEF LinkType
<1>3. LinkType'
  BY <1>0, <1>1, <1>2 DEF LinkType
<1>4. VertexMapIsCurrent'
  BY <1>0, <1>1 DEF VertexMapIsCurrent
<1>5. ParentsAreOlder'
  <2> SUFFICES ASSUME NEW i \in DOMAIN cps
               PROVE  /\ cps[i].parents \in Seq(Nat)
                      /\ \A k \in 1..Len(cps[i].parents) :
                            /\ cps[i].parents[k] < i
                            /\ cps[i].parents[k] \in DOMAIN cps \/ cps[i].parents[k] < id
    BY <1>1 DEF ParentsAreOlder
  <2>1. /\ cps[i].parents \in Seq(Nat)
        /\ \A k \in 1..Len(cps[i].parents) :
              /\ cps[i].parents[k] < i
              /\ cps[i].parents[k] \in DOMAIN cps \/ cps[i].parents[k] < finalized
    BY <1>0 DEF ParentsAreOlder
  <2>2. \A k \in 1..Len(cps[i].parents) : cps[i].parents[k] \in Nat
    BY <2>1
  <2>3. \A p \in Nat : p < finalized => p < id
    BY <1>2
  <2> QED
    BY <2>1, <2>2, <2>3
<1> QED
  BY <1>3, <1>4, <1>5

LEMMA PruneLinks ==
    ASSUME LinkInv, PruneBefore PROVE LinkType' /\ VertexMapIsCurrent' /\ ParentsAreOlder'
<1> DEFINE old == {i \in DOMAIN cps : i < prune}
<1>0. LinkType /\ VertexMapIsCurrent /\ ParentsAreOlder
  BY DEF LinkInv
<1>1. /\ prune # 0 /\ cps' = [id \in DOMAIN cps \ old |-> cps[id]]
      /\ byVertex' = [v \in DOMAIN byVertex \ {cps[i].vertex : i \in old} |-> byVertex[v]]
      /\ prune' = 0 /\ nextId' = nextId /\ finalized' = finalized
  BY DEF PruneBefore
<1>2. /\ prune = finalized /\ finalized \in Nat /\ nextId \in Nat /\ DOMAIN cps \subseteq 1..(nextId - 1)
  BY <1>0, <1>1, CheckpointAssumption DEF LinkType
<1>3. /\ DOMAIN cps' \subseteq DOMAIN cps /\ \A id \in DOMAIN cps' : cps'[id] = cps[id] /\ finalized <= id
      /\ \A id \in DOMAIN cps : id \in DOMAIN cps' \/ id < finalized
  <2>1. \A id \in DOMAIN cps : id \in Nat /\ (id \in old <=> id < finalized)
    BY <1>2
  <2> HIDE DEF old
  <2> QED
    BY <1>1, <1>2, <2>1
<1>4. LinkType'
  BY <1>0, <1>1, <1>3 DEF LinkType
<1>5. VertexMapIsCurrent'
  <2> SUFFICES ASSUME NEW w \in DOMAIN byVertex'
               PROVE  /\ byVertex'[w] \in DOMAIN cps' /\ cps'[byVertex'[w]].vertex = w
                      /\ \A id \in DOMAIN cps' : cps'[id].vertex = w => id <= byVertex'[w]
    BY DEF VertexMapIsCurrent
  <2>1. w \in DOMAIN byVertex /\ byVertex'[w] = byVertex[w] /\ \A i \in old : cps[i].vertex # w
    BY <1>1
  <2>2. /\ byVertex[w] \in DOMAIN cps /\ cps[byVertex[w]].vertex = w
        /\ \A id \in DOMAIN cps : cps[id].vertex = w => id <= byVertex[w]
    BY <1>0, <2>1 DEF VertexMapIsCurrent
  <2>3. byVertex[w] \in DOMAIN cps'
    BY <1>1, <2>1, <2>2
  <2> QED
    BY <1>3, <2>1, <2>2, <2>3
<1>6. ParentsAreOlder'
  <2> SUFFICES ASSUME NEW i \in DOMAIN cps'
               PROVE  /\ cps'[i].parents \in Seq(Nat)
                      /\ \A k \in 1..Len(cps'[i].parents) :
                            /\ cps'[i].parents[k] < i
                            /\ cps'[i].parents[k] \in DOMAIN cps' \/ cps'[i].parents[k] < finalized
    BY <1>1 DEF ParentsAreOlder
  <2>1. i \in DOMAIN cps /\ cps'[i] = cps[i]
    BY <1>3
  <2> QED
    BY <1>0, <1>3, <2>1 DEF ParentsAreOlder
<1> QED
  BY <1>4, <1>5, <1>6

\* A created checkpoint is in the map; its vertex may be the one another misses.
LEMMA CreateKeepsEntries ==
    ASSUME LinkInv, NEW v \in CpVertex, NEW plan \in Plans, CreateCheckpoint(v, plan)
    PROVE  MadeFits' /\ MissingWasPruned'
<1>0. CpType /\ LinkType /\ MadeFits /\ MissingWasPruned
  BY DEF LinkInv, CpInv
<1>1. /\ nextId \in Nat /\ nextId >= 1 /\ DOMAIN cps \subseteq 1..(nextId - 1) /\ nextId' = nextId + 1
  BY <1>0, CheckpointAssumption DEF LinkType, CreateCheckpoint
<1>2. /\ DOMAIN cps' = DOMAIN cps \cup {nextId} /\ nextId \notin DOMAIN cps
      /\ \A id \in DOMAIN cps : cps'[id] = cps[id]
      /\ cps'[nextId] = [vertex |-> v, changes |-> Recorded(db, plan), parents |-> ParentIds(CpParents[v])]
      /\ DOMAIN byVertex' = DOMAIN byVertex \cup {v}
  BY <1>0, CreateAdds
<1>3. cps'[nextId].vertex = v
  BY <1>2
<1>4. made' = Insert(made, nextId, v)
  BY DEF CreateCheckpoint
<1>5. /\ DOMAIN made' = DOMAIN made \cup {nextId} /\ made'[nextId] = v
      /\ \A j \in DOMAIN made : j # nextId => made'[j] = made[j]
  BY <1>4 DEF Insert
<1>6. DOMAIN made = 1..(nextId - 1) /\ nextId \notin DOMAIN made
  BY <1>0, <1>1 DEF MadeFits
<1>7. MadeFits'
  <2>1. DOMAIN made' = 1..(nextId' - 1)
    BY <1>1, <1>5, <1>6
  <2>2. \A id \in DOMAIN cps' : id \in DOMAIN made' /\ made'[id] = cps'[id].vertex
    BY <1>0, <1>2, <1>3, <1>5, <1>6 DEF MadeFits
  <2> QED
    BY <2>1, <2>2 DEF MadeFits
<1>8. MissingWasPruned'
  <2> SUFFICES ASSUME NEW id \in DOMAIN cps', cps'[id].vertex \notin DOMAIN byVertex'
               PROVE  \E j \in DOMAIN made' \ DOMAIN cps' : j < id /\ made'[j] = cps'[id].vertex
    BY DEF MissingWasPruned
  <2>1. id \in DOMAIN cps /\ cps'[id] = cps[id] /\ cps[id].vertex \notin DOMAIN byVertex
    BY <1>2, <1>3
  <2>2. PICK j \in DOMAIN made \ DOMAIN cps : j < id /\ made[j] = cps[id].vertex
    BY <1>0, <2>1 DEF MissingWasPruned
  <2>3. j # nextId /\ j \in DOMAIN made' \ DOMAIN cps' /\ made'[j] = made[j]
    BY <1>2, <1>5, <1>6, <2>2
  <2> QED
    BY <2>1, <2>2, <2>3
<1> QED
  BY <1>7, <1>8

\* What leaves the map with an older checkpoint of the same vertex
LEMMA PruneKeepsEntries ==
    ASSUME LinkInv, PruneBefore PROVE MadeFits' /\ MissingWasPruned'
<1> DEFINE old == {i \in DOMAIN cps : i < prune}
<1>0. LinkType /\ MadeFits /\ MissingWasPruned
  BY DEF LinkInv
<1>1. /\ cps' = [id \in DOMAIN cps \ old |-> cps[id]]
      /\ byVertex' = [v \in DOMAIN byVertex \ {cps[i].vertex : i \in old} |-> byVertex[v]]
      /\ nextId' = nextId /\ made' = made
  BY DEF PruneBefore
<1>2. prune \in Nat /\ \A id \in DOMAIN cps : id \in Nat
  BY <1>0, CheckpointAssumption DEF LinkType
<1>3. \A i \in old, id \in DOMAIN cps \ old : i < id
  BY <1>2
<1>4. DOMAIN cps' = DOMAIN cps \ old /\ \A id \in DOMAIN cps' : cps'[id] = cps[id]
  BY <1>1
<1>5. \A w \in DOMAIN byVertex : w \in DOMAIN byVertex' \/ \E i \in old : cps[i].vertex = w
  BY <1>1
<1>6. old \subseteq DOMAIN cps
  OBVIOUS
<1> HIDE DEF old
<1>7. MadeFits'
  BY <1>0, <1>1, <1>4 DEF MadeFits
<1>8. MissingWasPruned'
  <2> SUFFICES ASSUME NEW id \in DOMAIN cps', cps'[id].vertex \notin DOMAIN byVertex'
               PROVE  \E j \in DOMAIN made' \ DOMAIN cps' : j < id /\ made'[j] = cps'[id].vertex
    BY DEF MissingWasPruned
  <2>1. id \in DOMAIN cps \ old /\ cps'[id] = cps[id]
    BY <1>4
  <2>2. CASE cps[id].vertex \in DOMAIN byVertex
    <3>1. PICK i \in old : cps[i].vertex = cps[id].vertex
      BY <1>5, <2>1, <2>2
    <3>2. i \in DOMAIN made /\ made[i] = cps[i].vertex /\ i \notin DOMAIN cps' /\ i < id
      BY <1>0, <1>3, <1>4, <1>6, <2>1 DEF MadeFits
    <3> QED
      BY <1>1, <2>1, <3>1, <3>2
  <2>3. CASE cps[id].vertex \notin DOMAIN byVertex
    <3>1. PICK j \in DOMAIN made \ DOMAIN cps : j < id /\ made[j] = cps[id].vertex
      BY <1>0, <2>1, <2>3 DEF MissingWasPruned
    <3> QED
      BY <1>1, <1>4, <2>1, <3>1
  <2> QED
    BY <2>2, <2>3
<1> QED
  BY <1>7, <1>8

LEMMA LinkStep == LinkInv /\ [CheckpointNext]_cpVars => LinkInv'
<1> SUFFICES ASSUME LinkInv, [CheckpointNext]_cpVars PROVE LinkInv'
  OBVIOUS
<1> DEFINE Linked == LinkType /\ VertexMapIsCurrent /\ MadeFits /\ MissingWasPruned /\ ParentsAreOlder
<1>0. CpInv' /\ Linked
  BY CpStep DEF LinkInv
<1>1. ASSUME NEW v \in CpVertex, NEW plan \in Plans, CreateCheckpoint(v, plan) PROVE Linked'
  BY <1>1, CreateLinks, CreateKeepsEntries
<1>2. ASSUME NEW id, Finalize(id) PROVE Linked'
  <2>1. MadeFits' /\ MissingWasPruned'
    BY <1>0, <1>2 DEF Finalize, MadeFits, MissingWasPruned
  <2> QED
    BY <1>2, <2>1, FinalizeLinks
<1>3. ASSUME PruneBefore PROVE Linked'
  BY <1>3, PruneLinks, PruneKeepsEntries
<1>4. ASSUME UNCHANGED <<cps, byVertex, nextId, finalized, prune, made>> PROVE Linked'
  BY <1>0, <1>4 DEF LinkType, VertexMapIsCurrent, MadeFits, MissingWasPruned, ParentsAreOlder
<1> HIDE DEF Linked
<1>5. ASSUME RevertLast PROVE Linked'
  BY <1>4, <1>5 DEF RevertLast
<1>6. ASSUME NEW id, ApplyCheckpoint(id) PROVE Linked'
  BY <1>4, <1>6 DEF ApplyCheckpoint
<1>7. ASSUME UNCHANGED cpVars PROVE Linked'
  BY <1>4, <1>7 DEF cpVars
<1>8. Linked'
  BY <1>1, <1>2, <1>3, <1>5, <1>6, <1>7 DEF CheckpointNext
<1> QED
  BY <1>0, <1>8 DEF LinkInv, Linked

\* One entry of the recursion of get_chain_to_finalized
ChainAt(id, f) ==
    IF id <= finalized THEN << >>
    ELSE IF id \notin DOMAIN cps \/ cps[id].parents = << >> THEN << id >>
    ELSE Append(f[cps[id].parents[1]], id)

ChainsTo(N, f) ==
    f = [id \in 0..N |-> IF id <= finalized THEN << >>
                         ELSE IF id \notin DOMAIN cps \/ cps[id].parents = << >> THEN << id >>
                         ELSE Append(f[cps[id].parents[1]], id)]

LEMMA FirstParent ==
    ASSUME ParentsAreOlder, NEW id \in DOMAIN cps, cps[id].parents # << >>
    PROVE  /\ cps[id].parents[1] \in Nat /\ cps[id].parents[1] < id
           /\ cps[id].parents[1] \in DOMAIN cps \/ cps[id].parents[1] < finalized
<1>1. cps[id].parents \in Seq(Nat)
  BY DEF ParentsAreOlder
<1>2. 1 \in 1..Len(cps[id].parents) /\ cps[id].parents[1] \in Nat
  BY <1>1
<1> QED
  BY <1>2 DEF ParentsAreOlder

\* The recursion has a solution because parents are older.
LEMMA ChainsExist ==
    ASSUME ParentsAreOlder, DOMAIN cps \subseteq Nat PROVE \A n \in Nat : \E f : ChainsTo(n, f)
<1> DEFINE Good == {n \in Nat : \E f : ChainsTo(n, f)}
<1>1. ASSUME NEW n \in Nat, NEW f, NEW h, \A i \in Nat : i < n => f[i] = h[i]
      PROVE  ChainAt(n, f) = ChainAt(n, h)
  BY <1>1, FirstParent DEF ChainAt
<1>2. 0 \in Good
  <2> DEFINE f == [k \in 0..0 |-> ChainAt(k, << >>)]
  <2>1. \A k \in 0..0 : ChainAt(k, << >>) = ChainAt(k, f)
    <3> SUFFICES ChainAt(0, << >>) = ChainAt(0, f)
      OBVIOUS
    <3> HIDE DEF f
    <3>1. \A i \in Nat : i < 0 => << >>[i] = f[i]
      OBVIOUS
    <3> QED
      BY <1>1, <3>1
  <2>2. f = [k \in 0..0 |-> ChainAt(k, f)]
    BY <2>1
  <2> HIDE DEF f
  <2>3. ChainsTo(0, f)
    BY <2>2 DEF ChainsTo, ChainAt
  <2> QED
    BY <2>3
<1>3. ASSUME NEW n \in Nat, n \in Good PROVE n + 1 \in Good
  <2>1. PICK f : ChainsTo(n, f)
    BY <1>3
  <2>2. \A k \in 0..n : f[k] = ChainAt(k, f)
    BY <2>1 DEF ChainsTo, ChainAt
  <2> DEFINE h == [k \in 0..(n + 1) |-> IF k = n + 1 THEN ChainAt(n + 1, f) ELSE f[k]]
  <2>3. h[n + 1] = ChainAt(n + 1, f) /\ \A k \in 0..n : h[k] = f[k]
    OBVIOUS
  <2>4. h = [k \in 0..(n + 1) |-> h[k]]
    OBVIOUS
  <2> HIDE DEF h
  <2>5. ASSUME NEW k \in 0..(n + 1) PROVE h[k] = ChainAt(k, h)
    <3>1. \A i \in Nat : i < k => f[i] = h[i]
      BY <2>3
    <3>2. ChainAt(k, f) = ChainAt(k, h)
      BY <1>1, <3>1
    <3>3. h[k] = ChainAt(k, f)
      BY <2>2, <2>3
    <3> QED
      BY <3>2, <3>3
  <2>6. h = [k \in 0..(n + 1) |-> ChainAt(k, h)]
    BY <2>4, <2>5
  <2>7. ChainsTo(n + 1, h)
    BY <2>6 DEF ChainsTo, ChainAt
  <2> QED
    BY <2>7
<1> HIDE DEF Good
<1>4. \A n \in Nat : n \in Good
  BY <1>2, <1>3, NatSetInduction
<1> QED
  BY <1>4 DEF Good

LEMMA ChainsThere ==
    ASSUME LinkInv, NEW from \in DOMAIN cps PROVE ToSet(ChainToFinalized(from)) \subseteq DOMAIN cps
<1> DEFINE N == MaxCheckpoints
<1>0. /\ ParentsAreOlder /\ N \in Nat /\ finalized \in Nat /\ DOMAIN cps \subseteq 1..N /\ from \in 0..N /\ DOMAIN cps \subseteq Nat
  BY CheckpointAssumption DEF LinkInv, LinkType
<1>1. PICK f : ChainsTo(N, f) /\ ChainToFinalized(from) = f[from]
  <2>1. \E f : ChainsTo(N, f)
    BY <1>0, ChainsExist
  <2>2. ChainToFinalized(from) = (CHOOSE f : ChainsTo(N, f))[from]
    BY Zenon DEF ChainToFinalized, ChainsTo
  <2> QED
    BY <2>1, <2>2
<1>2. \A id \in 0..N : f[id] = ChainAt(id, f)
  BY <1>1 DEF ChainsTo, ChainAt
<1> HIDE DEF N
<1> DEFINE Good == {n \in Nat : \A id \in Nat : id <= n /\ id <= N /\ (id \in DOMAIN cps \/ id <= finalized)
                                   => f[id] \in Seq(DOMAIN cps)}
<1>3. ASSUME NEW id \in Nat, id <= N, id <= finalized PROVE f[id] \in Seq(DOMAIN cps)
  <2>1. id \in 0..N
    BY <1>0, <1>3
  <2>2. f[id] = << >>
    BY <1>2, <1>3, <2>1 DEF ChainAt
  <2> QED
    BY <2>2
<1>4. 0 \in Good
  BY <1>0, <1>3
<1>5. ASSUME NEW n \in Nat, n \in Good PROVE n + 1 \in Good
  <2> SUFFICES ASSUME NEW id \in Nat, id <= n + 1, id <= N, id \in DOMAIN cps, ~(id <= finalized)
               PROVE  f[id] \in Seq(DOMAIN cps)
    BY <1>3
  <2>1. f[id] = ChainAt(id, f)
    BY <1>0, <1>2
  <2>2. CASE cps[id].parents = << >>
    BY <2>1, <2>2 DEF ChainAt
  <2>3. CASE cps[id].parents # << >>
    <3> DEFINE p == cps[id].parents[1]
    <3>1. p \in Nat /\ p < id /\ (p \in DOMAIN cps \/ p < finalized)
      BY <1>0, <2>3, FirstParent
    <3>2. f[id] = Append(f[p], id)
      BY <2>1, <2>3 DEF ChainAt
    <3> HIDE DEF p
    <3>3. f[p] \in Seq(DOMAIN cps)
      BY <1>0, <1>5, <3>1
    <3> QED
      BY <3>2, <3>3
  <2> QED
    BY <2>2, <2>3
<1> HIDE DEF Good
<1>6. \A n \in Nat : n \in Good
  BY <1>4, <1>5, NatSetInduction
<1>7. f[from] \in Seq(DOMAIN cps)
  BY <1>0, <1>6 DEF Good
<1> QED
  BY <1>1, <1>7 DEF ToSet

\* For any vertices, parents and executions: an entry of the vertex map leads to
\* the latest checkpoint of its vertex, an entry is missing only after prune
\* removed an older checkpoint of the same vertex, and the chain of first parents of every checkpoint
\* runs through checkpoints down to finality, also while finalize is between
\* its write and its pruning.
THEOREM CheckpointsProvedLinked == CheckpointSpec => []CheckpointsAreLinked
<1>1. LinkInv => CheckpointsAreLinked
  <2> SUFFICES ASSUME LinkInv PROVE VertexMapIsCurrent /\ MissingWasPruned /\ ChainsReachFinality
    BY DEF CheckpointsAreLinked
  <2>1. ParentsAreOlder /\ VertexMapIsCurrent /\ MissingWasPruned
    BY DEF LinkInv
  <2>2. \A id \in DOMAIN cps : \A p \in Range(cps[id].parents) : p < id /\ (p \in DOMAIN cps \/ p < finalized)
    BY <2>1 DEF ParentsAreOlder, Range
  <2> QED
    BY <2>1, <2>2, ChainsThere DEF ChainsReachFinality
<1> QED
  BY <1>1, LinkStarts, LinkStep, PTL DEF CheckpointSpec


-----------------------------------------------------------------------------
(* The precompiles: what they cost, and the arithmetic of MODEXP *)

PrecompileSetting ==
    /\ InputLen \subseteq Nat /\ Count \subseteq Nat /\ GasLimit \subseteq Nat
    /\ OperandLen \subseteq Nat \X Nat \X Nat
    /\ Operands \subseteq Seq(0..255)

\* Quotient and remainder are unique.
LEMMA Quotient ==
    ASSUME NEW a \in Int, NEW m \in Nat, m > 0, NEW q \in Int, NEW r \in 0..(m - 1), a = m * q + r
    PROVE a \div m = q /\ a % m = r
<1>1. a \div m \in Int /\ a % m \in 0..(m - 1) /\ a = m * (a \div m) + (a % m)
  BY SMT
<1>2. ASSUME NEW p \in Int, NEW s \in 0..(m - 1), a = m * p + s PROVE p = q /\ s = r
  <2>1. CASE p < q
    <3>1. q - p - 1 \in Nat /\ m * (q - p - 1) \in Nat
      BY <2>1, SMT
    <3>2. m * (q - p - 1) = m * q - m * p - m
      BY SMT
    <3>3. m * q \in Int /\ m * p \in Int
      BY SMT
    <3> QED
      BY <1>2, <3>1, <3>2, <3>3, SMT
  <2>2. CASE p > q
    <3>1. p - q - 1 \in Nat /\ m * (p - q - 1) \in Nat
      BY <2>2, SMT
    <3>2. m * (p - q - 1) = m * p - m * q - m
      BY SMT
    <3>3. m * q \in Int /\ m * p \in Int
      BY SMT
    <3> QED
      BY <1>2, <3>1, <3>2, <3>3, SMT
  <2>3. CASE p = q
    <3>1. m * q \in Int
      BY SMT
    <3> QED
      BY <1>2, <2>3, <3>1, SMT
  <2> QED
    BY <2>1, <2>2, <2>3, SMT
<1> QED
  BY <1>1, <1>2

\* A product may be reduced factor by factor.
LEMMA ModTimes ==
    ASSUME NEW a \in Nat, NEW b \in Nat, NEW m \in Nat, m > 0
    PROVE ((a % m) * (b % m)) % m = (a * b) % m
<1> DEFINE p == a \div m
           r == a % m
           q == b \div m
           s == b % m
<1>1. p \in Int /\ r \in 0..(m - 1) /\ a = m * p + r /\ q \in Int /\ s \in 0..(m - 1) /\ b = m * q + s
  BY SMT
<1> HIDE DEF p, q, r, s
<1>2. r * s \in Nat
  BY <1>1, SMT
<1> DEFINE x == (r * s) \div m
           y == (r * s) % m
<1>3. x \in Int /\ y \in 0..(m - 1) /\ r * s = m * x + y
  BY <1>2, SMT
<1> HIDE DEF x, y
<1> DEFINE z == m * p * q + p * s + r * q + x
<1>4. z \in Int
  BY <1>1, <1>3, SMT
<1>5. a * b = m * (m * p * q + p * s + r * q) + r * s
  BY <1>1, SMT
<1>6. a * b = m * z + y
  <2> DEFINE w == m * p * q + p * s + r * q
  <2>1. w \in Int /\ z = w + x
    BY <1>1
  <2> HIDE DEF w, z
  <2>2. m * z = m * w + m * x
    BY <1>3, <2>1, SMT
  <2>3. a * b = m * w + (m * x + y)
    BY <1>3, <1>5 DEF w
  <2>4. m * w \in Int /\ m * x \in Int
    BY <1>3, <2>1, SMT
  <2> QED
    BY <1>3, <2>2, <2>3, <2>4, SMT
<1> HIDE DEF z
<1>7. a * b \in Int
  BY SMT
<1>8. (a * b) % m = y
  BY <1>3, <1>4, <1>6, <1>7, Quotient
<1> QED
  BY <1>8 DEF r, s, y

\* Dividing by a and then by b
LEMMA DivDiv ==
    ASSUME NEW n \in Nat, NEW a \in Nat, a > 0, NEW b \in Nat, b > 0
    PROVE (n \div a) \div b = n \div (b * a)
<1> DEFINE p == n \div a
           r == n % a
<1>1. p \in Int /\ r \in 0..(a - 1) /\ n = a * p + r
  BY SMT
<1> HIDE DEF p, r
<1> DEFINE q == p \div b
           s == p % b
<1>2. q \in Int /\ s \in 0..(b - 1) /\ p = b * q + s
  BY <1>1, SMT
<1> HIDE DEF q, s
<1> DEFINE c == b * a
           d == a * s + r
<1>3. c \in Nat /\ c > 0
  BY SMT
<1>4. d \in 0..(c - 1)
  <2>1. b - 1 - s \in Nat
    BY <1>2
  <2>2. a * (b - 1 - s) \in Nat /\ a * (b - 1 - s) = b * a - a - a * s
    BY <1>2, <2>1, SMT
  <2>3. a * s \in Nat
    BY <1>2, SMT
  <2> QED
    BY <1>1, <1>3, <2>2, <2>3, SMT
<1>5. n = c * q + d
  <2>1. a * p = b * a * q + a * s
    BY <1>2, SMT
  <2>2. b * a * q \in Int /\ a * s \in Int
    BY <1>2, SMT
  <2> QED
    BY <1>1, <2>1, <2>2, SMT
<1> HIDE DEF c, d
<1>6. n \div c = q
  BY <1>2, <1>3, <1>4, <1>5, Quotient
<1> QED
  BY <1>6 DEF c, p, q

\* The recursions of Pow, BigUint and ModPow
PowersTo(N, b, f) ==
    f = [k \in 0..N |-> IF k = 0 THEN 1 ELSE b * f[k - 1]]

LEMMA PowersExist == ASSUME NEW b PROVE \A n \in Nat : \E f : PowersTo(n, b, f)
<1> DEFINE Good == {n \in Nat : \E f : PowersTo(n, b, f)}
<1>1. 0 \in Good
  <2> DEFINE f == [k \in 0..0 |-> 1]
  <2>1. PowersTo(0, b, f)
    BY DEF PowersTo
  <2> QED
    BY <2>1
<1>2. ASSUME NEW n \in Nat, n \in Good PROVE n + 1 \in Good
  <2>1. PICK f : PowersTo(n, b, f)
    BY <1>2
  <2> DEFINE x == b * f[n]
             h == [k \in 0..(n + 1) |-> IF k = n + 1 THEN x ELSE f[k]]
  <2> HIDE DEF x
  <2>2. \A k \in 0..n : f[k] = IF k = 0 THEN 1 ELSE b * f[k - 1]
    BY <2>1 DEF PowersTo
  <2>3. \A k \in 0..(n + 1) : h[k] = IF k = 0 THEN 1 ELSE b * h[k - 1]
    <3> TAKE k \in 0..(n + 1)
    <3>1. CASE k = n + 1
      <4>1. h[k] = x /\ h[k - 1] = f[n] /\ k # 0
        BY <3>1
      <4> QED
        BY <3>1, <4>1 DEF x
    <3>2. CASE k = 0
      <4>1. h[k] = f[0] /\ f[0] = 1
        BY <3>2, <2>2
      <4> QED
        BY <3>2, <4>1
    <3>3. CASE k \in 1..n
      <4>1. h[k] = f[k] /\ h[k - 1] = f[k - 1] /\ k \in 0..n /\ k # 0
        BY <3>3
      <4> HIDE DEF h
      <4> QED
        BY <4>1, <2>2
    <3> QED
      BY <3>1, <3>2, <3>3
  <2>4. PowersTo(n + 1, b, h)
    <3>1. h = [k \in 0..(n + 1) |-> h[k]]
      OBVIOUS
    <3> HIDE DEF h
    <3> QED
      BY <2>3, <3>1 DEF PowersTo
  <2> QED
    BY <2>4
<1> HIDE DEF Good
<1>3. \A n \in Nat : n \in Good
  BY <1>1, <1>2, NatSetInduction
<1> QED
  BY <1>3 DEF Good

DigitsTo(N, s, f) ==
    f = [k \in 0..N |-> IF k = 0 THEN 0 ELSE 256 * f[k - 1] + s[k]]

LEMMA DigitsExist == ASSUME NEW s PROVE \A n \in Nat : \E f : DigitsTo(n, s, f)
<1> DEFINE Good == {n \in Nat : \E f : DigitsTo(n, s, f)}
<1>1. 0 \in Good
  <2> DEFINE f == [k \in 0..0 |-> 0]
  <2>1. DigitsTo(0, s, f)
    BY DEF DigitsTo
  <2> QED
    BY <2>1
<1>2. ASSUME NEW n \in Nat, n \in Good PROVE n + 1 \in Good
  <2>1. PICK f : DigitsTo(n, s, f)
    BY <1>2
  <2> DEFINE x == 256 * f[n] + s[(n + 1)]
             h == [k \in 0..(n + 1) |-> IF k = n + 1 THEN x ELSE f[k]]
  <2> HIDE DEF x
  <2>2. \A k \in 0..n : f[k] = IF k = 0 THEN 0 ELSE 256 * f[k - 1] + s[k]
    BY <2>1 DEF DigitsTo
  <2>3. \A k \in 0..(n + 1) : h[k] = IF k = 0 THEN 0 ELSE 256 * h[k - 1] + s[k]
    <3> TAKE k \in 0..(n + 1)
    <3>1. CASE k = n + 1
      <4>1. h[k] = x /\ h[k - 1] = f[n] /\ k # 0
        BY <3>1
      <4> QED
        BY <3>1, <4>1 DEF x
    <3>2. CASE k = 0
      <4>1. h[k] = f[0] /\ f[0] = 0
        BY <3>2, <2>2
      <4> QED
        BY <3>2, <4>1
    <3>3. CASE k \in 1..n
      <4>1. h[k] = f[k] /\ h[k - 1] = f[k - 1] /\ k \in 0..n /\ k # 0
        BY <3>3
      <4> HIDE DEF h
      <4> QED
        BY <4>1, <2>2
    <3> QED
      BY <3>1, <3>2, <3>3
  <2>4. DigitsTo(n + 1, s, h)
    <3>1. h = [k \in 0..(n + 1) |-> h[k]]
      OBVIOUS
    <3> HIDE DEF h
    <3> QED
      BY <2>3, <3>1 DEF DigitsTo
  <2> QED
    BY <2>4
<1> HIDE DEF Good
<1>3. \A n \in Nat : n \in Good
  BY <1>1, <1>2, NatSetInduction
<1> QED
  BY <1>3 DEF Good

ResiduesTo(N, b, m, f) ==
    f = [k \in 0..N |-> IF k = 0 THEN 1 % m ELSE (f[k - 1] * (b % m)) % m]

LEMMA ResiduesExist == ASSUME NEW b, NEW m PROVE \A n \in Nat : \E f : ResiduesTo(n, b, m, f)
<1> DEFINE Good == {n \in Nat : \E f : ResiduesTo(n, b, m, f)}
<1>1. 0 \in Good
  <2> DEFINE f == [k \in 0..0 |-> 1 % m]
  <2>1. ResiduesTo(0, b, m, f)
    BY DEF ResiduesTo
  <2> QED
    BY <2>1
<1>2. ASSUME NEW n \in Nat, n \in Good PROVE n + 1 \in Good
  <2>1. PICK f : ResiduesTo(n, b, m, f)
    BY <1>2
  <2> DEFINE x == (f[n] * (b % m)) % m
             h == [k \in 0..(n + 1) |-> IF k = n + 1 THEN x ELSE f[k]]
  <2> HIDE DEF x
  <2>2. \A k \in 0..n : f[k] = IF k = 0 THEN 1 % m ELSE (f[k - 1] * (b % m)) % m
    BY <2>1 DEF ResiduesTo
  <2>3. \A k \in 0..(n + 1) : h[k] = IF k = 0 THEN 1 % m ELSE (h[k - 1] * (b % m)) % m
    <3> TAKE k \in 0..(n + 1)
    <3>1. CASE k = n + 1
      <4>1. h[k] = x /\ h[k - 1] = f[n] /\ k # 0
        BY <3>1
      <4> QED
        BY <3>1, <4>1 DEF x
    <3>2. CASE k = 0
      <4>1. h[k] = f[0] /\ f[0] = 1 % m
        BY <3>2, <2>2
      <4> QED
        BY <3>2, <4>1
    <3>3. CASE k \in 1..n
      <4>1. h[k] = f[k] /\ h[k - 1] = f[k - 1] /\ k \in 0..n /\ k # 0
        BY <3>3
      <4> HIDE DEF h
      <4> QED
        BY <4>1, <2>2
    <3> QED
      BY <3>1, <3>2, <3>3
  <2>4. ResiduesTo(n + 1, b, m, h)
    <3>1. h = [k \in 0..(n + 1) |-> h[k]]
      OBVIOUS
    <3> HIDE DEF h
    <3> QED
      BY <2>3, <3>1 DEF ResiduesTo
  <2> QED
    BY <2>4
<1> HIDE DEF Good
<1>3. \A n \in Nat : n \in Good
  BY <1>1, <1>2, NatSetInduction
<1> QED
  BY <1>3 DEF Good

\* A function on an initial segment is a sequence of that length.
LEMMA SegmentIsSeq ==
    ASSUME NEW X, NEW n \in Nat, NEW s \in [1..n -> X] PROVE s \in Seq(X) /\ Len(s) = n
<1>1. s \in Seq(X)
  BY SeqDef
<1>2. DOMAIN s = 1..Len(s) /\ Len(s) \in Nat /\ DOMAIN s = 1..n
  BY <1>1, LenProperties
<1>3. Len(s) = n
  <2>1. CASE Len(s) < n
    <3>1. n \in 1..n /\ n \notin 1..Len(s)
      BY <1>2, <2>1
    <3> QED
      BY <1>2, <3>1
  <2>2. CASE Len(s) > n
    <3>1. Len(s) \in 1..Len(s) /\ Len(s) \notin 1..n
      BY <1>2, <2>2
    <3> QED
      BY <1>2, <3>1
  <2> QED
    BY <1>2, <2>1, <2>2
<1> QED
  BY <1>1, <1>3

LEMMA PowersAgree ==
    ASSUME NEW b, NEW n \in Nat, NEW m \in Nat, n <= m, NEW f, PowersTo(n, b, f), NEW g, PowersTo(m, b, g)
    PROVE \A i \in 0..n : f[i] = g[i]
<1> DEFINE Good == {i \in Nat : i <= n => f[i] = g[i]}
<1>1. /\ \A i \in 0..n : f[i] = IF i = 0 THEN 1 ELSE b * f[i - 1]
      /\ \A i \in 0..m : g[i] = IF i = 0 THEN 1 ELSE b * g[i - 1]
  BY DEF PowersTo
<1>2. 0 \in Good
  BY <1>1
<1>3. ASSUME NEW i \in Nat, i \in Good PROVE i + 1 \in Good
  <2> SUFFICES ASSUME i + 1 <= n PROVE f[i + 1] = g[i + 1]
    OBVIOUS
  <2>1. i + 1 \in 0..n /\ i + 1 \in 0..m /\ (i + 1) - 1 = i /\ i + 1 # 0 /\ f[i] = g[i]
    BY <1>3
  <2> QED
    BY <1>1, <2>1
<1> HIDE DEF Good
<1>4. \A i \in Nat : i \in Good
  BY <1>2, <1>3, NatSetInduction
<1> QED
  BY <1>4 DEF Good

\* The laws of powers
LEMMA PowStarts == ASSUME NEW b PROVE Pow(b, 0) = 1
<1> DEFINE f == CHOOSE f : PowersTo(0, b, f)
<1>1. PowersTo(0, b, f)
  BY PowersExist
<1>2. Pow(b, 0) = f[0]
  BY DEF Pow, PowersTo
<1> HIDE DEF f
<1> QED
  BY <1>1, <1>2 DEF PowersTo

LEMMA PowGrows == ASSUME NEW b, NEW e \in Nat PROVE Pow(b, e + 1) = b * Pow(b, e)
<1> DEFINE f == CHOOSE f : PowersTo(e, b, f)
           g == CHOOSE g : PowersTo(e + 1, b, g)
<1>1. PowersTo(e, b, f)
  BY PowersExist
<1>2. PowersTo(e + 1, b, g)
  <2>1. e + 1 \in Nat
    OBVIOUS
  <2> QED
    BY <2>1, PowersExist
<1>3. Pow(b, e) = f[e] /\ Pow(b, e + 1) = g[e + 1]
  BY DEF Pow, PowersTo
<1> HIDE DEF f, g
<1>4. f[e] = g[e]
  <2>1. e + 1 \in Nat /\ e <= e + 1 /\ e \in 0..e
    OBVIOUS
  <2> QED
    BY <1>1, <1>2, <2>1, PowersAgree
<1>5. g[e + 1] = b * g[e]
  <2>1. e + 1 \in 0..(e + 1) /\ e + 1 # 0 /\ (e + 1) - 1 = e
    OBVIOUS
  <2>2. \A i \in 0..(e + 1) : g[i] = IF i = 0 THEN 1 ELSE b * g[i - 1]
    BY <1>2 DEF PowersTo
  <2> QED
    BY <2>1, <2>2
<1> QED
  BY <1>3, <1>4, <1>5

LEMMA PowIsNat == ASSUME NEW b \in Nat, NEW e \in Nat PROVE Pow(b, e) \in Nat /\ (b > 0 => Pow(b, e) > 0)
<1> DEFINE Good == {i \in Nat : Pow(b, i) \in Nat /\ (b > 0 => Pow(b, i) > 0)}
<1>1. 0 \in Good
  BY PowStarts
<1>2. ASSUME NEW i \in Nat, i \in Good PROVE i + 1 \in Good
  <2> DEFINE x == Pow(b, i)
  <2>1. x \in Nat /\ (b > 0 => x > 0) /\ Pow(b, i + 1) = b * x
    BY <1>2, PowGrows
  <2> HIDE DEF x
  <2>2. b * x \in Nat /\ (b > 0 => b * x > 0)
    BY <2>1, SMT
  <2> QED
    BY <2>1, <2>2
<1> HIDE DEF Good
<1>3. \A i \in Nat : i \in Good
  BY <1>1, <1>2, NatSetInduction
<1> QED
  BY <1>3 DEF Good

LEMMA PowersOfByte ==
    \A e \in Nat : Pow(256, e) \in Nat /\ Pow(256, e) > 0 /\ Pow(256, e + 1) = 256 * Pow(256, e)
<1> TAKE e \in Nat
<1>1. 256 \in Nat /\ 256 > 0
  OBVIOUS
<1> QED
  BY <1>1, PowIsNat, PowGrows

\* Modular powers are powers.
LEMMA ModPowIs ==
    ASSUME NEW b \in Nat, NEW e \in Nat, NEW m \in Nat, m > 0 PROVE ModPow(b, e, m) = Pow(b, e) % m
<1> DEFINE f == CHOOSE f : ResiduesTo(e, b, m, f)
<1>1. ResiduesTo(e, b, m, f)
  BY ResiduesExist
<1>2. ModPow(b, e, m) = f[e]
  BY DEF ModPow, ResiduesTo
<1> HIDE DEF f
<1>3. \A i \in 0..e : f[i] = IF i = 0 THEN 1 % m ELSE (f[i - 1] * (b % m)) % m
  BY <1>1 DEF ResiduesTo
<1> DEFINE Good == {i \in Nat : i <= e => f[i] = Pow(b, i) % m}
<1>4. 0 \in Good
  BY <1>3, PowStarts
<1>5. ASSUME NEW i \in Nat, i \in Good PROVE i + 1 \in Good
  <2> SUFFICES ASSUME i + 1 <= e PROVE f[i + 1] = Pow(b, i + 1) % m
    OBVIOUS
  <2>1. i + 1 \in 0..e /\ (i + 1) - 1 = i /\ i + 1 # 0 /\ f[i] = Pow(b, i) % m
    BY <1>5
  <2>2. f[i + 1] = ((Pow(b, i) % m) * (b % m)) % m
    BY <1>3, <2>1
  <2>3. Pow(b, i) \in Nat
    BY PowIsNat
  <2>4. ((Pow(b, i) % m) * (b % m)) % m = (Pow(b, i) * b) % m
    BY <2>3, ModTimes
  <2>5. Pow(b, i) * b = b * Pow(b, i)
    BY <2>3, SMT
  <2> QED
    BY <2>2, <2>4, <2>5, PowGrows
<1> HIDE DEF Good
<1>6. \A i \in Nat : i \in Good
  BY <1>4, <1>5, NatSetInduction
<1> QED
  BY <1>2, <1>6 DEF Good

\* The digits of s, the first of which weighs most.
Bytes(n) == [1..n -> 0..255]
Weights(s, n, j) == [i \in 1..j |-> s[i] * Pow(256, n - i)]

LEMMA DigitsOf ==
    ASSUME NEW n \in Nat, NEW s \in Bytes(n)
    PROVE \E f : DigitsTo(n, s, f) /\ BigUint(s) = f[n]
<1> DEFINE f == CHOOSE f : DigitsTo(n, s, f)
<1>1. DigitsTo(n, s, f)
  BY DigitsExist
<1>2. Len(s) = n
  BY SegmentIsSeq DEF Bytes
<1>3. BigUint(s) = f[n]
  BY <1>2 DEF BigUint, DigitsTo
<1> QED
  BY <1>1, <1>3

LEMMA DigitsSum ==
    ASSUME NEW n \in Nat, NEW s \in Bytes(n)
    PROVE /\ BigUint(s) \in Nat /\ BigUint(s) < Pow(256, n)
          /\ BigUint(s) = SumFunction(Weights(s, n, n))
<1>1. PICK f : DigitsTo(n, s, f) /\ BigUint(s) = f[n]
  BY DigitsOf
<1>2. \A i \in 0..n : f[i] = IF i = 0 THEN 0 ELSE 256 * f[i - 1] + s[i]
  BY <1>1 DEF DigitsTo
<1> DEFINE Good == {j \in Nat : j <= n => /\ f[j] \in Nat /\ f[j] < Pow(256, j)
                                          /\ SumFunction(Weights(s, n, j)) = f[j] * Pow(256, n - j)}
<1>3. 0 \in Good
  <2>1. f[0] = 0
    BY <1>2
  <2>2. SumFunction(Weights(s, n, 0)) = 0
    <3>1. 1..0 = {} /\ IsFiniteSet({}) /\ DOMAIN Weights(s, n, 0) = {}
      BY FS_EmptySet DEF Weights
    <3> HIDE DEF Weights
    <3> QED
      BY <3>1, SumOfZeros
  <2>3. Pow(256, n - 0) \in Nat /\ Pow(256, 0) = 1
    BY PowersOfByte, PowStarts
  <2>4. 0 * Pow(256, n - 0) = 0
    BY <2>3, SMT
  <2> QED
    BY <2>1, <2>2, <2>3, <2>4
<1>4. ASSUME NEW j \in Nat, j \in Good PROVE j + 1 \in Good
  <2> SUFFICES ASSUME j + 1 <= n
               PROVE /\ f[j + 1] \in Nat /\ f[j + 1] < Pow(256, j + 1)
                     /\ SumFunction(Weights(s, n, j + 1)) = f[j + 1] * Pow(256, n - (j + 1))
    OBVIOUS
  <2> DEFINE x == f[j]
             d == s[j + 1]
             k == n - (j + 1)
             p == Pow(256, k)
             t == Pow(256, j)
  <2>1. j + 1 \in 0..n /\ (j + 1) - 1 = j /\ j + 1 # 0 /\ k \in Nat /\ k + 1 = n - j /\ j + 1 \in 1..n
    BY <1>4
  <2>2. x \in Nat /\ x < t /\ SumFunction(Weights(s, n, j)) = x * Pow(256, n - j)
    BY <1>4
  <2>3. f[j + 1] = 256 * x + d
    BY <1>2, <2>1
  <2>4. d \in 0..255
    BY <2>1 DEF Bytes
  <2>5. p \in Nat /\ t \in Nat /\ Pow(256, n - j) = 256 * p /\ Pow(256, j + 1) = 256 * t
    BY <2>1, PowersOfByte
  <2>6. SumFunction(Weights(s, n, j + 1)) = SumFunction(Weights(s, n, j)) + d * p
    <3> DEFINE h == Weights(s, n, j + 1)
               J == 1..(j + 1)
               rest == [y \in J \ {j + 1} |-> h[y]]
    <3>1. IsFiniteSet(J) /\ j + 1 \in J /\ J \ {j + 1} = 1..j
      <4>1. j + 1 \in Int /\ 1 \in Int
        OBVIOUS
      <4>2. IsFiniteSet(J)
        BY <4>1, FS_Interval
      <4> QED
        BY <4>2
    <3>2. ASSUME NEW i \in J PROVE s[i] * Pow(256, n - i) \in Int
      <4>1. i \in 1..n /\ n - i \in Nat
        BY <2>1
      <4>2. s[i] \in Nat /\ Pow(256, n - i) \in Nat
        <5>1. s[i] \in 0..255
          BY <4>1 DEF Bytes
        <5>2. s[i] \in Nat
          BY <5>1
        <5>3. Pow(256, n - i) \in Nat
          BY Zenon, <4>1, PowersOfByte
        <5> QED
          BY <5>2, <5>3
      <4> QED
        BY <4>2, SMT
    <3>3. h \in [J -> Int] /\ h[j + 1] = d * p
      BY <3>1, <3>2 DEF Weights
    <3>4. rest = Weights(s, n, j)
      BY <3>1 DEF Weights
    <3> HIDE DEF J, h
    <3>5. SumFunction(h) = SumFunction(rest) + h[j + 1]
      BY ZenonT(40), <3>1, <3>3, SumExtends
    <3> QED
      BY <3>3, <3>4, <3>5 DEF h
  <2> HIDE DEF x, d, p, t, k
  <2>7. x * (256 * p) + d * p = (256 * x + d) * p
    BY <2>2, <2>4, <2>5, SMT
  <2>8. 256 * x + d \in Nat /\ 256 * x + d < 256 * t
    BY <2>2, <2>4, <2>5
  <2> QED
    BY <2>2, <2>3, <2>5, <2>6, <2>7, <2>8 DEF p, k
<1> HIDE DEF Good
<1>5. n \in Good
  BY <1>3, <1>4, NatSetInduction
<1>6. n - n = 0 /\ Pow(256, n - n) = 1 /\ f[n] \in Nat /\ f[n] < Pow(256, n)
      /\ SumFunction(Weights(s, n, n)) = f[n] * Pow(256, n - n)
  BY <1>5, PowStarts DEF Good
<1> QED
  BY <1>1, <1>6

\* A number that fits is the number its bytes make.
LEMMA BytesBack ==
    ASSUME NEW n \in Nat, NEW x \in Nat, x < Pow(256, n)
    PROVE BytesBe(x, n) \in Seq(0..255) /\ Len(BytesBe(x, n)) = n /\ BigUint(BytesBe(x, n)) = x
<1> DEFINE s == BytesBe(x, n)
<1>1. ASSUME NEW i \in 1..n
      PROVE s[i] = (x \div Pow(256, n - i)) % 256 /\ s[i] \in 0..255
  <2>1. n - i \in Nat
    OBVIOUS
  <2>2. Pow(256, n - i) \in Nat /\ Pow(256, n - i) > 0
    BY <2>1, PowersOfByte
  <2>3. x \div Pow(256, n - i) \in Int
    BY <2>2, SMT
  <2>4. s[i] = (x \div Pow(256, n - i)) % 256
    BY DEF BytesBe
  <2> HIDE DEF s
  <2> QED
    BY <2>3, <2>4, SMT
<1>2. s \in Bytes(n)
  <2>1. s = [i \in 1..n |-> s[i]]
    BY DEF BytesBe
  <2> HIDE DEF s
  <2> QED
    BY <1>1, <2>1 DEF Bytes
<1> HIDE DEF s
<1>3. PICK f : DigitsTo(n, s, f) /\ BigUint(s) = f[n]
  BY <1>2, DigitsOf
<1>4. \A i \in 0..n : f[i] = IF i = 0 THEN 0 ELSE 256 * f[i - 1] + s[i]
  BY <1>3 DEF DigitsTo
<1> DEFINE Good == {j \in Nat : j <= n => f[j] = x \div Pow(256, n - j)}
<1>5. 0 \in Good
  <2> DEFINE p == Pow(256, n)
  <2>1. p \in Nat /\ p > 0
    BY PowIsNat
  <2>2. x < p /\ n - 0 = n
    OBVIOUS
  <2> HIDE DEF p
  <2>3. x = p * 0 + x /\ x \in 0..(p - 1)
    BY <2>1, <2>2
  <2>4. x \div p = 0
    BY <2>1, <2>3, Quotient
  <2> QED
    BY <1>4, <2>2, <2>4 DEF p
<1>6. ASSUME NEW j \in Nat, j \in Good PROVE j + 1 \in Good
  <2> SUFFICES ASSUME j + 1 <= n PROVE f[j + 1] = x \div Pow(256, n - (j + 1))
    OBVIOUS
  <2> DEFINE k == n - (j + 1)
             p == Pow(256, k)
             y == x \div p
  <2>1. j + 1 \in 0..n /\ (j + 1) - 1 = j /\ j + 1 # 0 /\ k \in Nat /\ k + 1 = n - j /\ j + 1 \in 1..n
    BY <1>6
  <2>2. f[j] = x \div Pow(256, n - j)
    BY <1>6
  <2>3. p \in Nat /\ p > 0 /\ Pow(256, n - j) = 256 * p
    BY <2>1, PowersOfByte
  <2>4. s[j + 1] = y % 256
    BY <1>1, <2>1
  <2>5. f[j + 1] = 256 * f[j] + s[j + 1]
    BY <1>4, <2>1
  <2> HIDE DEF p
  <2>6. y \div 256 = x \div (256 * p)
    BY <2>3, DivDiv
  <2>7. y \in Int
    BY <2>3, SMT
  <2> HIDE DEF y
  <2>8. y = 256 * (y \div 256) + (y % 256)
    BY <2>7, SMT
  <2>9. f[j + 1] = y
    BY <2>2, <2>3, <2>4, <2>5, <2>6, <2>8
  <2> QED
    BY <2>9 DEF y, p, k
<1> HIDE DEF Good
<1>7. n \in Good
  BY <1>5, <1>6, NatSetInduction
<1>8. f[n] = x
  <2>1. n - n = 0 /\ f[n] = x \div Pow(256, n - n) /\ Pow(256, 0) = 1
    BY <1>7, PowStarts DEF Good
  <2>2. x \div 1 = x
    BY SMT
  <2> QED
    BY <2>1, <2>2
<1>9. s \in Seq(0..255) /\ Len(s) = n
  BY <1>2, SegmentIsSeq DEF Bytes
<1> QED
  BY <1>3, <1>8, <1>9 DEF s

\* A slice reads the input continued with zeros.
Padded(data, k) == IF k \in DOMAIN data THEN data[k] ELSE 0

LEMMA SliceIsPadded ==
    ASSUME NEW data \in Seq(0..255), NEW offset \in Nat, NEW n \in Nat
    PROVE /\ ReadSlice(data, offset, n) \in Bytes(n)
          /\ \A i \in 1..n : ReadSlice(data, offset, n)[i] = Padded(data, offset + i)
<1> DEFINE left == Len(data) - offset
           copy == Min({Max({left, 0}), n})
           s == ReadSlice(data, offset, n)
<1>1. Len(data) \in Nat /\ DOMAIN data = 1..Len(data) /\ left \in Int /\ \A i \in DOMAIN data : data[i] \in 0..255
  <2>1. Len(data) \in Nat /\ DOMAIN data = 1..Len(data) /\ data \in [1..Len(data) -> 0..255]
    BY LenProperties
  <2> QED
    BY <2>1
<1>2. Max({left, 0}) = IF left >= 0 THEN left ELSE 0
  BY <1>1, MaxMin
<1>3. Max({left, 0}) \in Int
  BY <1>1, <1>2
<1>4. copy = IF Max({left, 0}) <= n THEN Max({left, 0}) ELSE n
  <2> DEFINE more == Max({left, 0})
  <2>1. more \in Int /\ n \in Int
    BY <1>3
  <2> HIDE DEF more
  <2>2. Min({more, n}) = IF more <= n THEN more ELSE n
    BY <2>1, MaxMin
  <2> QED
    BY <2>2 DEF more
<1>5. s = [i \in 1..n |-> IF i <= copy THEN data[offset + i] ELSE 0]
  BY DEF ReadSlice
<1> HIDE DEF copy, s
<1>6. ASSUME NEW i \in 1..n PROVE s[i] = Padded(data, offset + i) /\ s[i] \in 0..255
  <2>1. CASE i <= copy
    <3>1. offset + i \in DOMAIN data
      BY <1>1, <1>2, <1>4, <2>1
    <3> QED
      BY <1>1, <1>5, <2>1, <3>1 DEF Padded
  <2>2. CASE ~(i <= copy)
    <3>1. offset + i \notin DOMAIN data
      BY <1>1, <1>2, <1>4, <2>2
    <3> QED
      BY <1>5, <2>2, <3>1 DEF Padded
  <2> QED
    BY <2>1, <2>2
<1>7. s \in Bytes(n)
  <2>1. s = [i \in 1..n |-> s[i]]
    BY <1>5
  <2> QED
    BY <1>6, <2>1 DEF Bytes
<1> QED
  BY <1>6, <1>7 DEF s

-----------------------------------------------------------------------------
(* The prices of the precompiles *)

LEMMA LeastNumber == ASSUME NEW K, K \subseteq Nat, K # {} PROVE Min(K) \in K
<1>1. PICK m \in K : \A k \in K : ~(<<k, m>> \in OpToRel(<, Nat))
  BY NatLessThanWellFounded, WFMin
<1>2. ASSUME NEW k \in K PROVE m <= k
  <2>1. k \in Nat /\ m \in Nat
    OBVIOUS
  <2>2. ~(k < m)
    BY <1>1, <2>1 DEF OpToRel
  <2> QED
    BY <2>1, <2>2
<1> QED
  BY <1>2 DEF Min

LEMMA BitIndexIsNat == ASSUME NEW x \in 1..255 PROVE BitIndex(x) \in Nat
<1> DEFINE K == {i \in 0..7 : Pow(2, i) <= x}
<1>1. 0 \in K
  BY PowStarts
<1>2. K \subseteq 0..7
  OBVIOUS
<1> HIDE DEF K
<1>3. \E m \in K : \A k \in K : m >= k
  <2>1. \A k \in K : k \in {0, 1, 2, 3, 4, 5, 6, 7}
    BY <1>2
  <2>2. CASE 7 \in K
    BY <2>1, <2>2
  <2>3. CASE 7 \notin K /\ 6 \in K
    BY <2>1, <2>3
  <2>4. CASE 7 \notin K /\ 6 \notin K /\ 5 \in K
    BY <2>1, <2>4
  <2>5. CASE 7 \notin K /\ 6 \notin K /\ 5 \notin K /\ 4 \in K
    BY <2>1, <2>5
  <2>6. CASE 7 \notin K /\ 6 \notin K /\ 5 \notin K /\ 4 \notin K /\ 3 \in K
    BY <2>1, <2>6
  <2>7. CASE 7 \notin K /\ 6 \notin K /\ 5 \notin K /\ 4 \notin K /\ 3 \notin K /\ 2 \in K
    BY <2>1, <2>7
  <2>8. CASE 7 \notin K /\ 6 \notin K /\ 5 \notin K /\ 4 \notin K /\ 3 \notin K /\ 2 \notin K
    BY <1>1, <2>1, <2>8
  <2> QED
    BY <2>2, <2>3, <2>4, <2>5, <2>6, <2>7, <2>8
<1>4. Max(K) \in K
  BY <1>3 DEF Max
<1> QED
  BY <1>2, <1>4 DEF BitIndex, K

LEMMA HighestBitIsNat == ASSUME NEW s \in Seq(0..255) PROVE HighestBitIndex(s) \in Nat
<1> DEFINE set == {i \in DOMAIN s : s[i] # 0}
           top == Min(set)
<1>1. Len(s) \in Nat /\ DOMAIN s = 1..Len(s) /\ s \in [1..Len(s) -> 0..255]
  BY LenProperties
<1>2. CASE set = {}
  BY <1>2 DEF HighestBitIndex
<1>3. CASE set # {}
  <2>1. set \subseteq Nat
    BY <1>1
  <2>2. HighestBitIndex(s) = (Len(s) - top) * 8 + BitIndex(s[top])
    BY <1>3 DEF HighestBitIndex
  <2>3. top \in set
    <3> HIDE DEF set
    <3> QED
      BY <1>3, <2>1, LeastNumber
  <2>4. s[top] \in 1..255 /\ top \in 1..Len(s)
    BY <1>1, <2>3
  <2> HIDE DEF top
  <2>5. BitIndex(s[top]) \in Nat
    BY <2>4, BitIndexIsNat
  <2> QED
    BY <1>1, <2>2, <2>4, <2>5
<1> QED
  BY <1>2, <1>3

\* The complexity of a multiplication grows across the borders of its regimes.
LEMMA ComplexityGrows ==
    ASSUME NEW n \in Nat
    PROVE MultComplexity(n) \in Nat /\ MultComplexity(n) <= MultComplexity(n + 1)
<1> DEFINE q == n * n
           r == (n + 1) * (n + 1)
           mid(x, y) == x \div 4 + 96 * y - 3072
           long(x, y) == x \div 16 + 480 * y - 199680
<1>1. q \in Nat /\ r = q + 2 * n + 1
  BY SMT
<1>2. /\ n <= 64 => MultComplexity(n) = q
      /\ n > 64 /\ n <= 1024 => MultComplexity(n) = Max({mid(q, n), 0})
      /\ n > 1024 => MultComplexity(n) = Max({long(q, n), 0})
  BY DEF MultComplexity
<1>3. /\ n + 1 <= 64 => MultComplexity(n + 1) = r
      /\ n + 1 > 64 /\ n + 1 <= 1024 => MultComplexity(n + 1) = Max({mid(r, n + 1), 0})
      /\ n + 1 > 1024 => MultComplexity(n + 1) = Max({long(r, n + 1), 0})
  BY DEF MultComplexity
<1>4. n = 64 => q = 4096
  BY SMT
<1>5. n = 1024 => q = 1048576
  BY SMT
<1> HIDE DEF q, r
<1>6. mid(q, n) \in Int /\ long(q, n) \in Int /\ mid(r, n + 1) \in Int /\ long(r, n + 1) \in Int
  BY <1>1, SMT
<1>7. \A x \in Int : Max({x, 0}) = IF x >= 0 THEN x ELSE 0
  BY MaxMin
<1>8. /\ Max({mid(q, n), 0}) = IF mid(q, n) >= 0 THEN mid(q, n) ELSE 0
      /\ Max({long(q, n), 0}) = IF long(q, n) >= 0 THEN long(q, n) ELSE 0
      /\ Max({mid(r, n + 1), 0}) = IF mid(r, n + 1) >= 0 THEN mid(r, n + 1) ELSE 0
      /\ Max({long(r, n + 1), 0}) = IF long(r, n + 1) >= 0 THEN long(r, n + 1) ELSE 0
  <2> HIDE DEF mid, long
  <2> QED
    BY <1>6, <1>7
<1>9. CASE n < 64
  BY <1>1, <1>2, <1>3, <1>9, SMT
<1>10. CASE n = 64
  <2>1. r = 4225 /\ mid(r, n + 1) = 4224
    BY <1>1, <1>4, <1>10, SMT
  <2> QED
    BY <1>2, <1>3, <1>4, <1>8, <1>10, <2>1, SMT
<1>11. CASE n > 64 /\ n < 1024
  <2>1. mid(q, n) <= mid(r, n + 1)
    BY <1>1, SMT
  <2> HIDE DEF mid
  <2> QED
    BY <1>2, <1>3, <1>6, <1>8, <1>11, <2>1, SMT
<1>12. CASE n = 1024
  <2>1. r = 1050625 /\ mid(q, n) = 357376 /\ long(r, n + 1) = 357984
    BY <1>1, <1>5, <1>12, SMT
  <2> QED
    BY <1>2, <1>3, <1>8, <1>12, <2>1, SMT
<1>13. CASE n > 1024
  <2>1. long(q, n) <= long(r, n + 1)
    BY <1>1, SMT
  <2> HIDE DEF long
  <2> QED
    BY <1>2, <1>3, <1>6, <1>8, <1>13, <2>1, SMT
<1> QED
  BY <1>9, <1>10, <1>11, <1>12, <1>13, SMT

\* What the exponent adds to the price: its own bits, or those of its head and
\* eight for each further byte.
Iterations(expLen, head) == Max({IF expLen <= 32 THEN head ELSE 8 * (expLen - 32) + head, 1})

LEMMA IterationsIsNat == ASSUME NEW e \in Nat, NEW h \in Nat PROVE Iterations(e, h) \in Nat
<1> DEFINE a == IF e <= 32 THEN h ELSE 8 * (e - 32) + h
<1>1. a \in Int
  OBVIOUS
<1> HIDE DEF a
<1>2. Max({a, 1}) = IF a >= 1 THEN a ELSE 1
  BY <1>1, MaxMin
<1> QED
  BY <1>1, <1>2 DEF Iterations, a

\* The larger of two lengths
LEMMA LongerIs ==
    ASSUME NEW x \in Nat, NEW y \in Nat PROVE Max({x, y}) = IF x >= y THEN x ELSE y
<1>1. x \in Int /\ y \in Int
  OBVIOUS
<1> QED
  BY <1>1, MaxMin

LEMMA AtLeast200 == \A x \in Int : Max({x, 200}) = IF x >= 200 THEN x ELSE 200
<1> TAKE x \in Int
<1>1. 200 \in Int
  OBVIOUS
<1> QED
  BY <1>1, MaxMin

\* The price in terms of the longer operand and the head of the exponent
Scaled(l, h) == (MultComplexity(Max({l[1], l[3]})) * Iterations(l[2], h)) \div 3

LEMMA ModexpGasIs ==
    ASSUME NEW l \in Nat \X Nat \X Nat, NEW data, NEW h \in Nat,
           HighestBitIndex(ExpView(l[1], l[2], data)) = h
    PROVE  /\ Scaled(l, h) \in Int /\ ModexpGas(l, data) \in Int
           /\ ModexpGas(l, data) = IF Scaled(l, h) >= 200 THEN Scaled(l, h) ELSE 200
<1> DEFINE k == Max({l[1], l[3]})
           m == MultComplexity(k)
           y == Iterations(l[2], h)
           x == Scaled(l, h)
<1>1. l[1] \in Nat /\ l[2] \in Nat /\ l[3] \in Nat
  OBVIOUS
<1>2. k \in Nat
  BY <1>1, LongerIs
<1>3. y \in Nat
  BY <1>1, IterationsIsNat
<1>4. ModexpGas(l, data) = Max({x, 200})
  BY DEF ModexpGas, Iterations, Scaled
<1> HIDE DEF k, y
<1>5. m \in Nat
  BY <1>2, ComplexityGrows
<1> HIDE DEF m
<1>6. m * y \in Nat
  BY <1>3, <1>5, SMT
<1>7. x \in Int
  <2>1. (m * y) \div 3 \in Int
    BY <1>6, SMT
  <2> QED
    BY <2>1 DEF k, m, y, Scaled
<1> HIDE DEF x
<1>8. Max({x, 200}) = IF x >= 200 THEN x ELSE 200
  BY <1>7, AtLeast200
<1> QED
  BY <1>4, <1>7, <1>8 DEF x

\* The head of an exponent is cut out of the data.
LEMMA HeadIsNat ==
    ASSUME NEW b \in Nat, NEW e \in Nat, NEW data \in Seq(0..255)
    PROVE HighestBitIndex(ExpView(b, e, data)) \in Nat
<1> DEFINE w == Min({e, 32})
           to == Min({b + w, Len(data)})
<1>1. Len(data) \in Nat /\ data \in [1..Len(data) -> 0..255]
  BY LenProperties
<1>2. w = IF e <= 32 THEN e ELSE 32
  <2>1. e \in Int /\ 32 \in Int
    OBVIOUS
  <2> QED
    BY <2>1, MaxMin
<1>3. w \in Nat
  BY <1>2
<1> HIDE DEF w
<1>4. to = IF b + w <= Len(data) THEN b + w ELSE Len(data)
  <2>1. b + w \in Int /\ Len(data) \in Int
    BY <1>1, <1>3
  <2> QED
    BY <2>1, MaxMin
<1>5. to \in Int /\ to <= Len(data) /\ b + 1 \in Int
  BY <1>1, <1>3, <1>4
<1>6. ExpView(b, e, data) = SubSeq(data, b + 1, to)
  BY DEF ExpView, w
<1> HIDE DEF to
<1>7. \A i \in (b + 1)..to : data[i] \in 0..255
  <2> TAKE i \in (b + 1)..to
  <2>1. i \in 1..Len(data)
    BY <1>1, <1>5
  <2> QED
    BY <1>1, <2>1
<1>8. SubSeq(data, b + 1, to) \in Seq(0..255)
  BY <1>5, <1>7, SubSeqProperties
<1> QED
  BY <1>6, <1>8, HighestBitIsNat

\* Without data the exponent has no head.
LEMMA NoHead ==
    ASSUME NEW b \in Nat, NEW e \in Nat PROVE HighestBitIndex(ExpView(b, e, << >>)) = 0
<1> DEFINE w == Min({e, 32})
           to == Min({b + w, Len(<< >>)})
<1>1. w = IF e <= 32 THEN e ELSE 32
  <2>1. e \in Int /\ 32 \in Int
    OBVIOUS
  <2> QED
    BY <2>1, MaxMin
<1>2. w \in Nat /\ Len(<< >>) = 0
  BY <1>1
<1> HIDE DEF w
<1>3. to = IF b + w <= 0 THEN b + w ELSE 0
  <2>1. b + w \in Int /\ 0 \in Int
    BY <1>2
  <2> QED
    BY <1>2, <2>1, MaxMin
<1>4. to = 0 /\ b + 1 \in Int /\ 0 < b + 1
  BY <1>2, <1>3
<1>5. ExpView(b, e, << >>) = SubSeq(<< >>, b + 1, to)
  BY DEF ExpView, w
<1>6. SubSeq(<< >>, b + 1, 0) = << >>
  BY <1>4, SubSeqEmpty
<1>7. {i \in DOMAIN << >> : << >>[i] # 0} = {}
  OBVIOUS
<1> QED
  BY <1>4, <1>5, <1>6, <1>7 DEF HighestBitIndex

\* A longer base or modulus is never cheaper.
LEMMA PriceGrowsBy ==
    ASSUME NEW l \in Nat \X Nat \X Nat, NEW g \in Nat \X Nat \X Nat, g[2] = l[2],
           \/ g[1] = l[1] + 1 /\ g[3] = l[3]
           \/ g[1] = l[1] /\ g[3] = l[3] + 1
    PROVE ModexpGas(l, << >>) <= ModexpGas(g, << >>)
<1> DEFINE k == Max({l[1], l[3]})
           k2 == Max({g[1], g[3]})
           y == Iterations(l[2], 0)
           m == MultComplexity(k)
           m2 == MultComplexity(k2)
           x == Scaled(l, 0)
           x2 == Scaled(g, 0)
<1>1. l[1] \in Nat /\ l[2] \in Nat /\ l[3] \in Nat /\ g[1] \in Nat /\ g[3] \in Nat /\ 0 \in Nat
  OBVIOUS
<1>2. k = (IF l[1] >= l[3] THEN l[1] ELSE l[3]) /\ k2 = IF g[1] >= g[3] THEN g[1] ELSE g[3]
  BY <1>1, LongerIs
<1>3. k \in Nat /\ (k2 = k \/ k2 = k + 1)
  BY <1>1, <1>2
<1>4. HighestBitIndex(ExpView(l[1], l[2], << >>)) = 0 /\ HighestBitIndex(ExpView(g[1], g[2], << >>)) = 0
  BY <1>1, NoHead
<1>5. x \in Int /\ ModexpGas(l, << >>) = IF x >= 200 THEN x ELSE 200
  BY <1>1, <1>4, ModexpGasIs
<1>6. x2 \in Int /\ ModexpGas(g, << >>) = IF x2 >= 200 THEN x2 ELSE 200
  BY <1>1, <1>4, ModexpGasIs
<1>7. y \in Nat
  BY <1>1, IterationsIsNat
<1>8. m \in Nat /\ m2 \in Nat /\ m <= m2
  <2> HIDE DEF k, k2
  <2>1. k + 1 \in Nat /\ m \in Nat /\ m <= MultComplexity(k + 1)
    BY <1>3, ComplexityGrows
  <2>2. MultComplexity(k + 1) \in Nat
    BY <2>1, ComplexityGrows
  <2> QED
    BY <1>3, <2>1, <2>2
<1>9. x <= x2
  <2>1. x = (m * y) \div 3 /\ x2 = (m2 * y) \div 3
    BY DEF Scaled
  <2> HIDE DEF m, m2, y, x, x2
  <2>2. m * y \in Nat /\ m2 * y \in Nat /\ m * y <= m2 * y
    BY <1>7, <1>8, SMT
  <2>3. (m * y) \div 3 <= (m2 * y) \div 3
    BY <2>2, SMT
  <2> QED
    BY <2>1, <2>3
<1> HIDE DEF x, x2
<1> QED
  BY <1>5, <1>6, <1>9

\* Every price is a number.
LEMMA PriceIsInt ==
    ASSUME NEW at \in Named, NEW n \in Nat, NEW c \in Nat PROVE PriceOf(at, n, c) \in Int
<1>1. Words(n) \in Int
  BY DEF Words
<1>2. CASE at \in {"sha256", "ripemd160", "identity"}
  BY <1>1, <1>2 DEF PriceOf, HashGas, Schedule
<1>3. CASE at \in {"ecrecover", "bn_add", "bn_mul", "bn_pairing"}
  BY <1>3 DEF PriceOf, CurveGas, Schedule
<1>4. CASE at = "blake2f"
  <2>1. c * Schedule.blake2f_round = c /\ c \in Int /\ 1 \in Int
    BY DEF Schedule
  <2>2. Max({c, 1}) = IF c >= 1 THEN c ELSE 1
    BY <2>1, MaxMin
  <2> QED
    BY <1>4, <2>1, <2>2 DEF PriceOf, Blake2fGas
<1>5. CASE at \in {"zkp_verify", "zkp_batch_verify"}
  BY <1>5 DEF PriceOf, ZkpGas, Schedule
<1>6. CASE at \in {"iso20022_parse", "iso20022_validate"}
  BY <1>6 DEF PriceOf, IsoGas, Schedule
<1>7. CASE at \in {"dag_get_vertex", "poseidon_hash"}
  BY <1>1, <1>7 DEF PriceOf, NexusGas
<1> QED
  BY <1>2, <1>3, <1>4, <1>5, <1>6, <1>7 DEF Named

-----------------------------------------------------------------------------
(* The answers of the precompiles *)

\* Before a call, or behind it
PrecompileInv ==
    \/ pcCall = [at |-> "none"] /\ pcResult = Failure("error")
    \/ pcCall \in Call /\ pcResult = Run(pcCall)
    \/ pcCall \in ModexpCall /\ pcResult = Modexp(pcCall)

WithLens == [at : {"modexp"}, lens : OperandLen, data : Operands, limit : GasLimit]

LEMMA CallFields ==
    ASSUME PrecompileSetting, NEW c \in Call
    PROVE c.at \in Named /\ c.len \in Nat /\ c.count \in Nat /\ c.limit \in Nat /\ "lens" \notin DOMAIN c
BY DEF Call, PrecompileSetting

LEMMA LensFields ==
    ASSUME PrecompileSetting, NEW c \in WithLens
    PROVE /\ c.lens \in Nat \X Nat \X Nat /\ c.data \in Seq(0..255) /\ c.limit \in Nat
          /\ "short" \notin DOMAIN c
BY DEF WithLens, PrecompileSetting

LEMMA ShortFields ==
    ASSUME NEW c \in ModexpCall
    PROVE c \in WithLens \/ ("short" \in DOMAIN c /\ "lens" \notin DOMAIN c)
<1>1. CASE c \in WithLens
  BY <1>1
<1>2. CASE c \in [at : {"modexp"}, short : {TRUE}, limit : GasLimit]
  <2>1. DOMAIN c = {"at", "short", "limit"}
    BY <1>2
  <2> QED
    BY <2>1
<1> QED
  BY <1>1, <1>2 DEF ModexpCall, WithLens

LEMMA PaidProved == ASSUME PrecompileSetting, PrecompileInv PROVE PaidInFull
<1> SUFFICES ASSUME pcResult.kind = "ok", "short" \notin DOMAIN pcCall PROVE pcResult.gas <= pcCall.limit
  BY DEF PaidInFull
<1>1. CASE pcCall = [at |-> "none"] /\ pcResult = Failure("error")
  BY <1>1 DEF Failure
<1>2. CASE pcCall \in Call /\ pcResult = Run(pcCall)
  <2> DEFINE gas == PriceOf(pcCall.at, pcCall.len, pcCall.count)
  <2>1. gas \in Int /\ pcCall.limit \in Nat
    BY <1>2, CallFields, PriceIsInt
  <2>2. ~(pcCall.limit < gas) /\ pcResult = Answer(gas, << >>)
    BY <1>2 DEF Run, Failure
  <2> HIDE DEF gas
  <2> QED
    BY <2>1, <2>2 DEF Answer
<1>3. CASE pcCall \in ModexpCall /\ pcResult = Modexp(pcCall)
  <2>1. pcCall \in WithLens
    BY <1>3, ShortFields
  <2> DEFINE l == pcCall.lens
             gas == ModexpGas(l, pcCall.data)
  <2>2. l \in Nat \X Nat \X Nat /\ pcCall.data \in Seq(0..255) /\ pcCall.limit \in Nat
    BY <2>1, LensFields
  <2>3. HighestBitIndex(ExpView(l[1], l[2], pcCall.data)) \in Nat
    BY <2>2, HeadIsNat
  <2>4. gas \in Int
    <3> DEFINE data == pcCall.data
               h == HighestBitIndex(ExpView(l[1], l[2], data))
    <3>1. h \in Nat
      BY <2>3
    <3> HIDE DEF l, data
    <3>2. ModexpGas(l, data) \in Int
      BY <2>2, <3>1, ModexpGasIs
    <3> QED
      BY <3>2 DEF data
  <2>5. ~(pcCall.limit < gas) /\ pcResult.gas = gas
    BY <1>3 DEF Modexp, Failure, Answer
  <2> HIDE DEF gas
  <2> QED
    BY <2>2, <2>4, <2>5
<1> QED
  BY <1>1, <1>2, <1>3 DEF PrecompileInv

LEMMA LensOnly ==
    ASSUME PrecompileSetting, PrecompileInv, "lens" \in DOMAIN pcCall
    PROVE pcCall \in WithLens /\ pcResult = Modexp(pcCall)
<1>1. pcCall # [at |-> "none"]
  OBVIOUS
<1> QED
  BY <1>1, CallFields, ShortFields DEF PrecompileInv

LEMMA PriceProved == ASSUME PrecompileSetting, PrecompileInv PROVE PriceGrows
<1> SUFFICES ASSUME "lens" \in DOMAIN pcCall,
                    NEW g \in {<<pcCall.lens[1] + 1, pcCall.lens[2], pcCall.lens[3]>>,
                               <<pcCall.lens[1], pcCall.lens[2], pcCall.lens[3] + 1>>}
             PROVE ModexpGas(pcCall.lens, << >>) <= ModexpGas(g, << >>)
  BY DEF PriceGrows
<1> DEFINE l == pcCall.lens
<1>1. l \in Nat \X Nat \X Nat
  BY LensOnly, LensFields
<1>2. l[1] \in Nat /\ l[2] \in Nat /\ l[3] \in Nat
  BY <1>1
<1> HIDE DEF l
<1>3. g \in Nat \X Nat \X Nat /\ g[2] = l[2]
      /\ ((g[1] = l[1] + 1 /\ g[3] = l[3]) \/ (g[1] = l[1] /\ g[3] = l[3] + 1))
  <2>1. CASE g = <<l[1] + 1, l[2], l[3]>>
    BY <1>2, <2>1
  <2>2. CASE g = <<l[1], l[2], l[3] + 1>>
    BY <1>2, <2>2
  <2> QED
    BY <2>1, <2>2 DEF l
<1> QED
  BY <1>1, <1>3, PriceGrowsBy DEF l

Spelled(data, from, n) == SumFunction([i \in 1..n |-> Padded(data, from + i) * Pow(256, n - i)])

\* A slice, read as a number, is the operand that the input spells.
LEMMA OperandIs ==
    ASSUME NEW data \in Seq(0..255), NEW offset \in Nat, NEW n \in Nat
    PROVE /\ BigUint(ReadSlice(data, offset, n)) = Spelled(data, offset, n)
          /\ Spelled(data, offset, n) \in Nat /\ Spelled(data, offset, n) < Pow(256, n)
<1> DEFINE s == ReadSlice(data, offset, n)
<1>1. s \in Bytes(n) /\ \A i \in 1..n : s[i] = Padded(data, offset + i)
  BY SliceIsPadded
<1> HIDE DEF s
<1>2. Weights(s, n, n) = [i \in 1..n |-> Padded(data, offset + i) * Pow(256, n - i)]
  BY <1>1 DEF Weights
<1>3. BigUint(s) \in Nat /\ BigUint(s) < Pow(256, n) /\ BigUint(s) = SumFunction(Weights(s, n, n))
  BY <1>1, DigitsSum
<1> QED
  BY <1>2, <1>3 DEF s, Spelled

LEMMA ModexpProved == ASSUME PrecompileSetting, PrecompileInv PROVE ModexpIsExact
<1> SUFFICES ASSUME "lens" \in DOMAIN pcCall, pcResult.kind = "ok" PROVE ModexpIsExact
  BY DEF ModexpIsExact
<1> DEFINE l == pcCall.lens
           data == pcCall.data
           base == Spelled(data, 0, l[1])
           exp == Spelled(data, l[1], l[2])
           mod == Spelled(data, l[1] + l[2], l[3])
<1>1. pcCall \in WithLens /\ pcResult = Modexp(pcCall)
  BY LensOnly
<1>2. l \in Nat \X Nat \X Nat /\ data \in Seq(0..255) /\ "short" \notin DOMAIN pcCall
  BY <1>1, LensFields
<1>3. l[1] \in Nat /\ l[2] \in Nat /\ l[3] \in Nat /\ l[1] + l[2] \in Nat /\ 0 \in Nat
  BY <1>2
<1> HIDE DEF l, data
<1>4. BigUint(ReadSlice(data, 0, l[1])) = base /\ base \in Nat
  BY <1>2, <1>3, OperandIs
<1>5. BigUint(ReadSlice(data, l[1], l[2])) = exp /\ exp \in Nat
  BY <1>2, <1>3, OperandIs
<1>6. BigUint(ReadSlice(data, l[1] + l[2], l[3])) = mod /\ mod \in Nat /\ mod < Pow(256, l[3])
  BY <1>2, <1>3, OperandIs
<1> SUFFICES /\ Len(pcResult.value) = l[3]
             /\ BigUint(pcResult.value) = IF mod = 0 THEN 0 ELSE Pow(base, exp) % mod
  BY DEF ModexpIsExact, Padded, Spelled, l, data
<1> HIDE DEF base, exp, mod
<1>7. CASE l[3] = 0
  <2>1. pcResult.value = << >>
    BY <1>1, <1>2, <1>7 DEF Modexp, Failure, Answer, l, data
  <2>2. mod = 0
    BY <1>6, <1>7, PowStarts
  <2>3. << >> \in Bytes(0) /\ Len(<< >>) = 0
    BY DEF Bytes
  <2>4. BigUint(<< >>) \in Nat /\ BigUint(<< >>) < Pow(256, 0)
    BY <2>3, DigitsSum
  <2>5. BigUint(<< >>) = 0
    BY <2>4, PowStarts
  <2> QED
    BY <1>7, <2>1, <2>2, <2>3, <2>5
<1>8. CASE l[3] # 0
  <2> DEFINE x == IF mod = 0 THEN 0 ELSE ModPow(base, exp, mod)
  <2>1. pcResult.value = BytesBe(x, l[3])
    BY <1>1, <1>2, <1>4, <1>5, <1>6, <1>8 DEF Modexp, Failure, Answer, l, data
  <2>2. x = IF mod = 0 THEN 0 ELSE Pow(base, exp) % mod
    BY <1>4, <1>5, <1>6, ModPowIs
  <2>3. x \in Nat /\ x < Pow(256, l[3])
    <3>1. Pow(256, l[3]) \in Nat /\ Pow(256, l[3]) > 0
      BY <1>3, PowersOfByte
    <3>2. CASE mod = 0
      BY <2>2, <3>1, <3>2
    <3>3. CASE mod # 0
      <4> DEFINE p == Pow(base, exp)
      <4>1. p \in Nat
        BY <1>4, <1>5, PowIsNat
      <4> HIDE DEF p
      <4>2. p % mod \in Nat /\ p % mod < mod
        BY <1>6, <3>3, <4>1, SMT
      <4> QED
        BY <1>6, <2>2, <3>1, <3>3, <4>2 DEF p
    <3> QED
      BY <3>2, <3>3
  <2> HIDE DEF x
  <2>4. Len(BytesBe(x, l[3])) = l[3] /\ BigUint(BytesBe(x, l[3])) = x
    BY <1>3, <2>3, BytesBack
  <2> QED
    BY <2>1, <2>2, <2>4
<1> QED
  BY <1>7, <1>8

\* For every input and gas limit no precompile answers for more gas than it was
\* given, a longer base or modulus never lowers the price of
\* MODEXP across the borders of its formula, and an answered MODEXP is the power
\* of its operands, continued with zeros, in the bytes of the modulus (modexp,
\* modexp_gas, read_slice).
THEOREM PrecompilesProvedExact == ASSUME PrecompileSetting PROVE PrecompileSpec => []PrecompilesAreExact
<1>1. PrecompileInit => PrecompileInv
  BY DEF PrecompileInit, PrecompileInv
<1>2. PrecompileInv /\ [PrecompileNext]_precompileVars => PrecompileInv'
  BY DEF PrecompileInv, PrecompileNext, CallPrecompile, CallModexp, precompileVars
<1>3. PrecompileInv => PrecompilesAreExact
  BY PaidProved, PriceProved, ModexpProved DEF PrecompilesAreExact
<1> QED
  BY <1>1, <1>2, <1>3, PTL DEF PrecompileSpec
=============================================================================
