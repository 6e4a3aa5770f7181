--------------------------- MODULE MCDatabaseCircuit ---------------------------
(* Two operations of ordinary traffic beside the recovery probes.             *)
EXTENDS DatabaseCircuit, TLC

CONSTANTS q1, q2, b1, b2
==============================================================================
