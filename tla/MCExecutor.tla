----------------------------- MODULE MCExecutor -----------------------------
(***************************************************************************)
(* Instances of Executor: two senders, a deployed contract, a precompile,  *)
(* and the addresses of the contracts the first sender may create.         *)
(***************************************************************************)
EXTENDS Executor

Users == {"alice", "bob", "val", "dapp", "pre", "new0", "new1", "other"}
Created == [s \in {"alice", "bob"} |->
    IF s = "alice" THEN [n \in 0 .. 1 |-> IF n = 0 THEN "new0" ELSE "new1"] ELSE << >>]

\* A plain transfer and a call of the contract
Simulated == {
    [from |-> "alice", to |-> "bob", value |-> 1],
    [from |-> "alice", to |-> "dapp", value |-> 1]}

Funded == [x \in Users |->
    CASE x = "alice" -> [nonce |-> 0, balance |-> 40, code |-> NoCode]
      [] x = "bob" -> [nonce |-> 0, balance |-> 7, code |-> NoCode]
      [] x = "dapp" -> [nonce |-> 1, balance |-> 1, code |-> Deployed]
      [] OTHER -> Empty]

Transaction(i, s, to, v, n, gas, price, dyn) ==
    [id |-> i, sender |-> s, to |-> to, value |-> v, nonce |-> n, gas |-> gas, data |-> 0,
     price |-> price, tip |-> 1, dynamic |-> dyn, chain |-> 1, signed |-> TRUE]

\* A transfer, two calls of the contract, a call of the precompile, a creation
\* that may stay within its gas or not, transactions below the base fee, over
\* the gas limit, for another chain and without a valid signature; two whose
\* fee wraps around to nothing, and one whose cost overflows.
Transactions == {
    Transaction(1, "alice", "bob", 2, 0, 3, 2, TRUE),
    Transaction(2, "alice", "dapp", 1, 1, 4, 3, TRUE),
    Transaction(3, "bob", "dapp", 1, 0, 4, 2, FALSE),
    Transaction(4, "alice", "pre", 1, 1, 3, 2, FALSE),
    Transaction(5, "alice", NoAddress, 1, 0, 4, 2, FALSE),
    Transaction(7, "bob", "alice", 0, 1, 2, 0, FALSE),
    Transaction(8, "bob", "alice", 0, 0, 9, 1, FALSE),
    [Transaction(9, "bob", "alice", 0, 0, 2, 1, FALSE) EXCEPT !.chain = 2],
    [Transaction(10, "bob", "alice", 0, 0, 2, 1, FALSE) EXCEPT !.signed = FALSE],
    Transaction(11, "bob", "dapp", 0, 0, 4, 250, FALSE),
    Transaction(12, "bob", "dapp", 0, 1, 4, 250, FALSE),
    Transaction(13, "bob", "alice", 4, 0, 2, 499, FALSE)}
=============================================================================
