---------------------------- MODULE MCSpendGuard ----------------------------
(* Instances of SpendGuard for TLC.                                        *)
EXTENDS SpendGuard

CONSTANTS v1, u1, t1, t2, i1, i2, x1

\* Offchain txs want a vtxo; the intents and the cosign request want it together
\* with a boarding utxo.
Contended == [r \in Request |-> IF r \in OffchainTx THEN {v1} ELSE {v1, u1}]
=============================================================================
