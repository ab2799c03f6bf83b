---------------------------- MODULE MCBatchSweep ----------------------------
(* A tree of three txs: the root and two leaves. *)
EXTENDS BatchSweep

CONSTANTS root, left, right

MCNode == {root, left, right}
MCParent == [n \in {root, left, right} |-> IF n = root THEN Commitment ELSE root]
MCPath == [n \in {root, left, right} |-> {root, n}]
MCFirst == [n \in {root, left, right} |-> IF n = right THEN right ELSE left]
=============================================================================
