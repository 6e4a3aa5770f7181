--------------------------- MODULE MCEconomicEngine ---------------------------
(* One principal and one execution profile.  In the "one policy" instance    *)
(* requests compete for one budget; in the "two policies" instance the host  *)
(* moves between two revisions of different budgets and velocity limits.     *)
EXTENDS EconomicEngine, TLC

CONSTANTS r1, r2, r3, agent, rail, strict, loose, c1, c2

MCTwo == {r1, r2}
MCThree == {r1, r2, r3}
MCPayer == [r \in Requests |-> agent]
MCProfileOf == [r \in Requests |-> rail]
MCOnePolicy == [r \in Requests |-> strict]
MCTwoPolicies == [r \in Requests |-> IF r = r2 THEN loose ELSE strict]
MCCost == [r \in Requests |-> IF r = r3 THEN 2 ELSE 1]
MCFreshUntil == [r \in Requests |-> IF r = r3 THEN 2 ELSE 3]
MCStaleSoon == [r \in Requests |-> IF r = r1 THEN 1 ELSE 3]
MCBudget == [v \in Policies |-> IF v = loose THEN 2 ELSE 3]
MCTight == [v \in Policies |-> 2]
MCMaxCalls == [v \in Policies |-> IF v = loose THEN 1 ELSE 2]
MCOneCall == [v \in Policies |-> 1]
MCWindow == [v \in Policies |-> 1]
MCLifetime == [v \in Policies |-> 2]

\* r1 and r2 are interchangeable in the one-policy instance, callers in both.
CallerSymmetry == Permutations(Callers)
OnePolicySymmetry == Permutations(Callers) \cup Permutations({r1, r2})
===============================================================================
