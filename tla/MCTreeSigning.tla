--------------------------- MODULE MCTreeSigning ---------------------------
(* Two cosigners, one of them in both intents, that draw one of two nonces. *)
EXTENDS TreeSigning

CONSTANTS alice, bob, i1, i2

MCCosigner == {alice, bob}
MCIntent == {i1, i2}
MCKeysOf == [i \in {i1, i2} |-> IF i = i1 THEN {alice} ELSE {alice, bob}]
=============================================================================
