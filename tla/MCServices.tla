----------------------------- MODULE MCServices -----------------------------
(***************************************************************************)
(* The parts of the node that stand beside consensus and the ledger.  They *)
(* share nothing, so a behaviour runs one of them.                         *)
(***************************************************************************)
EXTENDS Integers, Sequences, FiniteSets, Services

VARIABLE part

-----------------------------------------------------------------------------
(* Instances *)

\* g <- a, b; c merges a and b
TipGraph == [v \in TsVertex |-> CASE v = "g" -> {} [] v \in {"a", "b"} -> {"g"}
                                  [] v = "c" -> {"a", "b"}]
SelectorLimits == {<<1, 8>>, <<2, 2>>, <<1, 1>>}

\* Two spenders of one note, one that pays out more than it spends, one that
\* hides a value of nearly the field's size, and a balance proof.
Payment(in, out, fee, blind, secret) ==
    [kind |-> "private", in |-> in, inBlind |-> blind, inCommit |-> (in + blind) % 31,
     out |-> out, outBlind |-> 1, outCommit |-> (out + 1) % 31, fee |-> fee,
     secret |-> secret, nullifier |-> (in + blind + secret) % 31]
Requests ==
    {Payment(5, 4, 1, 2, 3), Payment(5, 3, 2, 2, 3), Payment(5, 5, 1, 2, 4), Payment(2, 30, 3, 1, 1),
     [kind |-> "balance", in |-> 4, inBlind |-> 1, inCommit |-> 5, fee |-> 9]}

Always(p, ds) == [type |-> "transfer", condition |-> <<"always">>, active |-> ds, priority |-> p]
RuleSet ==
    {Always(2, {"swift"}), Always(2, {}),
     [type |-> "transfer", active |-> {"sepa"}, priority |-> 1,
      condition |-> <<"and", <<"currency", "eur">>, <<"not", <<"above", 5>>>>>>],
     [type |-> "transfer", active |-> {"desk"}, priority |-> 2,
      condition |-> <<"or", <<"creditor", "RU">>, <<"or", <<"debtor", "RU">>, <<"bic", "X">>>>>>],
     [type |-> "card_authorization", active |-> {"cards"}, priority |-> 1, condition |-> <<"always">>]}
\* What the rules ask, and the parts it is made of.
ConditionSet ==
    {<<"always">>, <<"currency", "eur">>, <<"above", 5>>, <<"not", <<"above", 5>>>>,
     <<"and", <<"currency", "eur">>, <<"not", <<"above", 5>>>>>>,
     <<"creditor", "RU">>, <<"debtor", "RU">>, <<"bic", "X">>,
     <<"or", <<"debtor", "RU">>, <<"bic", "X">>>>,
     <<"or", <<"creditor", "RU">>, <<"or", <<"debtor", "RU">>, <<"bic", "X">>>>>>}
Tx(cur, value, decimals, cr, de) ==
    [currency |-> cur, amount |-> [value |-> value, decimals |-> decimals],
     creditor |-> cr, debtor |-> de, bic |-> "none"]
TransferSet ==
    {<< >>} \cup {<<Tx(c, v, d, cr, de)>> : c \in {"eur"}, v \in {3, 9}, d \in BOOLEAN,
                                            cr \in {"DE", "RU", "KP", "none"}, de \in {"DE", "KP"}}
CardSet == [mti : {"authorization", "reversal", "network"}, currency : {"usd"},
         amount : {[value |-> 9, decimals |-> FALSE]}]
Texts == {<< >>, <<1>>, <<1, 2>>, <<2, 1, 1>>}

Codes == {<< >>, <<1>>}

-----------------------------------------------------------------------------
(* One part per behaviour *)

contractVars == <<stakingVars, poolVars, bridgeVars>>
serviceVars == <<tipVars, metricVars, registryVars, zkVars, treeVars, routeVars, iso,
                 genesisVars, logVars>>
vars == <<part, serviceVars, contractVars>>

Init ==
    /\ part \in {"tips", "metrics", "analyzer", "registry", "zk", "tree", "route", "iso", "genesis", "log",
                "staking", "pool", "bridge"}
    /\ V!Init /\ (part # "tips" => limits = <<1, 8>>)
    /\ Z!Init /\ (part # "zk" => zkKeys = {"private"})
    /\ M!Init /\ G!Init /\ A!Init /\ R!Init /\ I!Init /\ E!Init /\ L!Init
    /\ S!Init /\ P!Init /\ B!Init

Next ==
    /\ UNCHANGED part
    /\ \/ /\ part = "tips" /\ V!Next
          /\ UNCHANGED <<metricVars, registryVars, zkVars, treeVars, routeVars, iso, genesisVars, logVars, contractVars>>
       \/ /\ \/ part = "metrics" /\ M!CollectorNext
             \/ part = "analyzer" /\ M!AnalyzerNext
          /\ UNCHANGED <<tipVars, registryVars, zkVars, treeVars, routeVars, iso, genesisVars, logVars, contractVars>>
       \/ /\ part = "registry" /\ G!Next
          /\ UNCHANGED <<tipVars, metricVars, zkVars, treeVars, routeVars, iso, genesisVars, logVars, contractVars>>
       \/ /\ part = "zk" /\ Z!Next
          /\ UNCHANGED <<tipVars, metricVars, registryVars, treeVars, routeVars, iso, genesisVars, logVars, contractVars>>
       \/ /\ part = "tree" /\ A!Next
          /\ UNCHANGED <<tipVars, metricVars, registryVars, zkVars, routeVars, iso, genesisVars, logVars, contractVars>>
       \/ /\ part = "route" /\ R!Next
          /\ UNCHANGED <<tipVars, metricVars, registryVars, zkVars, treeVars, iso, genesisVars, logVars, contractVars>>
       \/ /\ part = "iso" /\ I!Next
          /\ UNCHANGED <<tipVars, metricVars, registryVars, zkVars, treeVars, routeVars, genesisVars, logVars, contractVars>>
       \/ /\ part = "genesis" /\ E!Next
          /\ UNCHANGED <<tipVars, metricVars, registryVars, zkVars, treeVars, routeVars, iso, logVars, contractVars>>
       \/ /\ part = "log" /\ L!Next
          /\ UNCHANGED <<tipVars, metricVars, registryVars, zkVars, treeVars, routeVars, iso, genesisVars, contractVars>>
       \/ /\ part = "staking" /\ S!Next
          /\ UNCHANGED <<serviceVars, poolVars, bridgeVars>>
       \/ /\ part = "pool" /\ P!Next
          /\ UNCHANGED <<serviceVars, stakingVars, bridgeVars>>
       \/ /\ part = "bridge" /\ B!Next
          /\ UNCHANGED <<serviceVars, stakingVars, poolVars>>

Spec == Init /\ [][Next]_vars
=============================================================================
