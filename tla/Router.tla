------------------------------- MODULE Router -------------------------------
(***************************************************************************)
(* MessageRouter and ComplianceChecker of nexus-iso.  Names, currencies    *)
(* and countries are small values, "none" an absent one.  A condition is a *)
(* tuple: <<"always">>, <<"currency", c>>, <<"and", x, y>> and so on.      *)
(***************************************************************************)
EXTENDS Integers, Sequences

CONSTANTS
    Condition,       \* the conditions, with the parts they are made of
    Rule,            \* type, condition, active (the active destinations), priority
    Default,         \* the destination sets a default route may be given
    Transfer,        \* credit transfers: sequences of transactions
    Card,            \* ISO 8583 messages
    Sanctioned, HighRisk, EddThreshold,
    MaxRules

VARIABLES rules, defaults

None == "none"
NoAmount == -1

\* RoutingCondition::matches
Matches(condition, ctx) ==
    LET holds[c \in Condition] ==
            CASE c[1] = "always" -> TRUE
              [] c[1] = "currency" -> ctx.currency = c[2]
              [] c[1] = "above" -> ctx.amount # NoAmount /\ ctx.amount > c[2]
              [] c[1] = "creditor" -> ctx.creditor = c[2]
              [] c[1] = "debtor" -> ctx.debtor = c[2]
              [] c[1] = "bic" -> ctx.bic = c[2]
              [] c[1] = "and" -> holds[c[2]] /\ holds[c[3]]
              [] c[1] = "or" -> holds[c[2]] \/ holds[c[3]]
              [] c[1] = "not" -> ~holds[c[2]]
    IN holds[condition]

\* Only a plain integer parses; an amount with decimals is no amount.
ParseAmount(a) == IF a.decimals THEN NoAmount ELSE a.value

\* The first transaction speaks for all; a country is read off an IBAN.
FromTransfer(txs) ==
    IF txs = << >>
    THEN [type |-> "transfer", currency |-> None, amount |-> NoAmount,
          creditor |-> None, debtor |-> None, bic |-> None]
    ELSE LET t == Head(txs)
         IN [type |-> "transfer", currency |-> t.currency, amount |-> ParseAmount(t.amount),
             creditor |-> t.creditor, debtor |-> t.debtor, bic |-> t.bic]

\* Network management goes with the authorizations.
FromCard(m) ==
    [type |-> CASE m.mti \in {"authorization", "network"} -> "card_authorization"
                [] m.mti = "financial" -> "card_financial"
                [] m.mti = "reversal" -> "card_reversal",
     currency |-> m.currency, amount |-> ParseAmount(m.amount),
     creditor |-> None, debtor |-> None, bic |-> None]

Context == {FromTransfer(t) : t \in Transfer} \cup {FromCard(m) : m \in Card}

Init == rules = << >> /\ defaults = << >>

\* Mutant: a rule goes in front of those of the same priority.
PlaceFirst(r) ==
    CHOOSE k \in 0..Len(rules) : \A i \in DOMAIN rules : i <= k <=> rules[i].priority < r.priority

\* A stable sort puts a new rule behind those that are as urgent as it is.
Place(r) ==
    CHOOSE k \in 0..Len(rules) : \A i \in DOMAIN rules : i <= k <=> rules[i].priority <= r.priority

AddRule(r) ==
    /\ rules' = [i \in 1..(Len(rules) + 1) |-> CASE i <= Place(r) -> rules[i]
                                               [] i = Place(r) + 1 -> r
                                               [] i > Place(r) + 1 -> rules[i - 1]]
    /\ UNCHANGED defaults

SetDefaultRoute(type, ds) ==
    /\ defaults' = [t \in DOMAIN defaults \cup {type} |-> IF t = type THEN ds ELSE defaults[t]]
    /\ UNCHANGED rules

Applies(r, ctx) == r.type = ctx.type /\ Matches(r.condition, ctx) /\ r.active # {}

\* The first rule that applies decides; no active default is no route.
Decides(i, ctx) == Applies(rules[i], ctx) /\ \A j \in DOMAIN rules : j < i => ~Applies(rules[j], ctx)

Route(ctx) ==
    IF \E i \in DOMAIN rules : Decides(i, ctx)
    THEN rules[CHOOSE i \in DOMAIN rules : Decides(i, ctx)].active
    ELSE IF ctx.type \in DOMAIN defaults THEN defaults[ctx.type] ELSE {}

\* The risk score; u8 additions saturate.
Check(ctx) ==
    LET parties == {ctx.creditor, ctx.debtor}
        Sat(x) == IF x > 255 THEN 255 ELSE x
        s1 == IF parties \cap Sanctioned # {} THEN 100 ELSE 0
        s2 == IF parties \cap HighRisk # {} THEN Sat(s1 + 30) ELSE s1
    IN IF ctx.amount # NoAmount /\ ctx.amount >= EddThreshold THEN Sat(s2 + 20) ELSE s2

Passed(ctx) == Check(ctx) < 100

Next ==
    \/ Len(rules) < MaxRules /\ \E r \in Rule : AddRule(r)
    \/ \E t \in {c.type : c \in Context}, ds \in Default : SetDefaultRoute(t, ds)

-----------------------------------------------------------------------------
(* Properties *)

\* A context keeps its route through every configuration step, unless the step
\* added a strictly more urgent rule that applies to it, or no rule applied
\* before (add_rule, set_default_route, route).
RoutesAreStable ==
    [][\A ctx \in Context : \A i \in DOMAIN rules :
          Decides(i, ctx) /\ Route(ctx)' # Route(ctx) =>
              \E j \in DOMAIN rules' : /\ Applies(rules'[j], ctx)
                                       /\ rules'[j].priority < rules[i].priority
                                       /\ \A k \in DOMAIN rules : rules[k] # rules'[j]
      ]_<<rules, defaults>>

\* A message passes exactly when neither party is in a sanctioned country: the
\* warnings neither fail a message nor lift the ban (ComplianceChecker::check).
SanctionsDecide ==
    \A ctx \in Context : Passed(ctx) <=> {ctx.creditor, ctx.debtor} \cap Sanctioned = {}

\* Neither a later rule nor a later check overturns what was decided.
DecisionsStand == []SanctionsDecide /\ RoutesAreStable
=============================================================================
