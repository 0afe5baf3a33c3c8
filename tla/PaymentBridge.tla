--------------------------- MODULE PaymentBridge ---------------------------
(***************************************************************************)
(* contracts/Iso20022Bridge.sol: payments are submitted with their funds,  *)
(* then executed or rejected; status reports overwrite the status.  The    *)
(* parser precompile is external: a message is what it parses to.          *)
(***************************************************************************)
EXTENDS Integers, Functions

CONSTANTS
    Participant,      \* addresses
    MessageId, Amount, MaxMessages

VARIABLES
    payments,       \* per message id; amount 0 where there is none
    authorized,     \* authorizedParticipants
    escrow,         \* the balance of the contract
    oracle,         \* complianceOracle, which nothing reads
    reopened,       \* a report has made a payment pending again (history)
    messages        \* messages submitted and plain transfers so far

NoOracle == "none"
PaymentStatus == {"Pending", "Processing", "Completed", "Rejected", "Returned"}

Init ==
    /\ payments = [m \in MessageId |-> [amount |-> 0, status |-> "Pending"]]
    /\ authorized = {} /\ escrow = 0 /\ oracle = NoOracle
    /\ reopened = FALSE /\ messages = 0

IsPending(m) == payments[m].amount > 0 /\ payments[m].status = "Pending"
Submission == authorized # {} /\ messages < MaxMessages /\ messages' = messages + 1

\* A message with the id of an earlier one replaces its payment.
SubmitCreditTransfer ==
    \E m \in MessageId, x \in Amount, value \in Amount :
        /\ Submission /\ value >= x
        /\ payments' = [payments EXCEPT ![m] = [amount |-> x, status |-> "Pending"]]
        /\ escrow' = escrow + value
        /\ UNCHANGED <<authorized, oracle, reopened>>

\* Mutant: the status is left for the report to come.
SettleUnmarked(m, outcome) ==
    /\ authorized # {} /\ IsPending(m) /\ payments[m].amount <= escrow
    /\ escrow' = escrow - payments[m].amount
    /\ UNCHANGED <<payments, authorized, oracle, reopened, messages>>

\* executePayment and rejectPayment: the status changes with the transfer.
Settle(m, outcome) ==
    /\ authorized # {} /\ IsPending(m) /\ payments[m].amount <= escrow
    /\ payments' = [payments EXCEPT ![m] = [amount |-> @.amount, status |-> outcome]]
    /\ escrow' = escrow - payments[m].amount
    /\ UNCHANGED <<authorized, oracle, reopened, messages>>

ExecutePayment == \E m \in MessageId : Settle(m, "Completed")
RejectPayment == \E m \in MessageId : Settle(m, "Rejected")

\* Any status may follow any other.
SubmitStatusReport ==
    \E m \in MessageId, s \in PaymentStatus :
        /\ Submission /\ payments[m].amount > 0
        /\ payments' = [payments EXCEPT ![m] = [amount |-> @.amount, status |-> s]]
        /\ reopened' = (reopened \/ (s = "Pending" /\ ~IsPending(m)))
        /\ UNCHANGED <<authorized, escrow, oracle>>

AuthorizeParticipant ==
    \E p \in Participant : authorized' = authorized \cup {p}
                           /\ UNCHANGED <<payments, escrow, oracle, reopened, messages>>
RevokeParticipant ==
    \E p \in authorized : authorized' = authorized \ {p}
                          /\ UNCHANGED <<payments, escrow, oracle, reopened, messages>>

SetComplianceOracle ==
    \E p \in Participant : oracle' = p
                           /\ UNCHANGED <<payments, authorized, escrow, reopened, messages>>

\* receive: anybody may send funds that belong to no payment.
Receive ==
    /\ messages < MaxMessages /\ messages' = messages + 1
    /\ \E value \in Amount : escrow' = escrow + value
    /\ UNCHANGED <<payments, authorized, oracle, reopened>>

Next == SubmitCreditTransfer \/ ExecutePayment \/ RejectPayment \/ SubmitStatusReport
        \/ AuthorizeParticipant \/ RevokeParticipant \/ SetComplianceOracle \/ Receive

-----------------------------------------------------------------------------
(* Properties *)

\* The contract holds the funds of every payment that is still to be executed
\* or rejected, through replaced messages and revoked participants, unless a
\* status report made a settled payment pending again.
PendingIsFunded ==
    ~reopened => SumFunction([m \in MessageId |-> IF IsPending(m) THEN payments[m].amount ELSE 0]) <= escrow
=============================================================================
