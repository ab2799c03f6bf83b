--------------------------- MODULE MCBatchSession ---------------------------
(* Instances of BatchSession for TLC.                                      *)
EXTENDS BatchSession, TLC

CONSTANTS f1, f2, b1

\* The two forfeiters are interchangeable.
Forfeiters == Permutations({f1, f2})
=============================================================================
