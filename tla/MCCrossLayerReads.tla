--------------------------- MODULE MCCrossLayerReads --------------------------
(* The instance of CrossLayerReads for TLC: one contract under review by two  *)
(* reviewers who can claim two layers of it, a curated one beside it, and two *)
(* requests.                                                                  *)
EXTENDS CrossLayerReads, TLC

CONSTANTS c0, c1, l1, l2, r1, r2, q1, q2

MCContracts == {c1}
MCLayers == {l1, l2}
MCReviewers == {r1, r2}
MCRequests == {q1, q2}
MCSymmetry == Permutations(MCLayers) \cup Permutations(MCReviewers) \cup Permutations(MCRequests)
===============================================================================
