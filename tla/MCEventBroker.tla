--------------------------- MODULE MCEventBroker ---------------------------
(* Constants for EventBroker. *)
EXTENDS EventBroker

CONSTANTS e1, e2, e3

MCBatch == 1 .. 2
MCEvents == <<<<e1, e2>>, <<e3>>>>
============================================================================
