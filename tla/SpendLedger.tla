---------------------------- MODULE SpendLedger ----------------------------
(***************************************************************************)
(* What the server promises about the coins it signs for: a payer takes    *)
(* all the coins of a payment at once, a coin that was never taken or that *)
(* it took itself, and keeps them for good.                                *)
(***************************************************************************)
CONSTANTS Coin, Payer

VARIABLE owner   \* the payers of each coin

Init == owner = [c \in Coin |-> {}]

Free(p) == {c \in Coin : owner[c] \subseteq {p}}

Spend(p, S) ==
    /\ S \subseteq Free(p)
    /\ owner' = [c \in Coin |-> IF c \in S THEN {p} ELSE owner[c]]

Next == \E p \in Payer : \E S \in SUBSET Coin : Spend(p, S)

Spec == Init /\ [][Next]_owner
=============================================================================
