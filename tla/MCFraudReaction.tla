-------------------------- MODULE MCFraudReaction --------------------------
(* Two vtxos settled in one batch, and one vtxo of each kind with faults.  *)
EXTENDS FraudReaction

CONSTANTS v1, v2

Two(kind) == [v \in {v1, v2} |-> kind]
One(kind) == [v \in {v1, v2} |-> IF v = v1 THEN kind ELSE "kept"]

MCScenario ==
    {[faults |-> {}, how |-> Two("settled")],
     [faults |-> {"crash", "wallet"}, how |-> One("offchain")]} \cup
    [faults : {{}, {"crash", "outage"}, {"race"}, {"race", "outage"}, {"race", "wallet", "db"}},
     how : {One("settled"), One("offchain")}]
=============================================================================
