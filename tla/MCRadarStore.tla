----------------------------- MODULE MCRadarStore -----------------------------
(* The instance of RadarStore for TLC: the two timers and one other process. *)
EXTENDS RadarStore

CONSTANTS ingestion, monitor, old

MCNames == {ingestion, monitor}
===============================================================================
