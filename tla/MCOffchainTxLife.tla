-------------------------- MODULE MCOffchainTxLife --------------------------
(* Instances of OffchainTxLife for TLC.                                    *)
EXTENDS OffchainTxLife

CONSTANTS s1, s2, f1, f2
=============================================================================
