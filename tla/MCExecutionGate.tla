---------------------------- MODULE MCExecutionGate ----------------------------
(* One principal, one rail and one policy: one request with the whole host   *)
(* around it, or three requests of which the budget takes the two cheap ones *)
(* together or the dear one alone, and which may name the same settlement.   *)
EXTENDS ExecutionGate, TLC

CONSTANTS r1, r2, r3, agent, rail, strict, c1, g1, g2, s1, s2, d1, d2

MCOne == {r1}
MCThree == {r1, r2, r3}
MCPayer == [r \in Requests |-> agent]
MCProfileOf == [r \in Requests |-> rail]
MCPolicyOf == [r \in Requests |-> strict]
MCCost == [r \in Requests |-> 2]
MCMixedCost == [r \in Requests |-> IF r = r3 THEN 2 ELSE 1]
MCFreshUntil == [r \in Requests |-> IF r = r1 THEN 2 ELSE 3]
MCFreshAll == [r \in Requests |-> 2]
MCPair == [v \in Policies |-> 2]
MCTight == [v \in Policies |-> 3]
MCMaxCalls == [v \in Policies |-> 2]
MCManyCalls == [v \in Policies |-> 3]
MCWindow == [v \in Policies |-> 1]
MCLifetime == [v \in Policies |-> 2]
MCShortLived == [v \in Policies |-> 1]

GateSymmetry == Permutations(Gates)
RefSymmetry == Permutations(Gates) \cup Permutations(Refs) \cup Permutations(Details)
PairSymmetry == Permutations(Gates) \cup Permutations({r1, r2})
================================================================================
