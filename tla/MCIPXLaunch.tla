---------------------------- MODULE MCIPXLaunch ----------------------------
(* A cohort of two among three wallets, over two windows, and two revenues *)
(* of two units; an accountant who names only one to the vault makes it a  *)
(* loss against the costs.                                                 *)
EXTENDS IPXLaunch, TLC

CONSTANTS w1, w2, w3, a1, a2, v1, v2

MCGross == [r \in Revenues |-> 2]

MCAlike == Permutations(Wallets) \cup Permutations(Admissions) \cup Permutations(Revenues)
============================================================================
