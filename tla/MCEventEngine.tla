--------------------------- MODULE MCEventEngine ---------------------------
(* Small instances of EventEngine for TLC. *)
EXTENDS EventEngine, TLC

CONSTANTS w1, w2, g1, g2
=============================================================================
