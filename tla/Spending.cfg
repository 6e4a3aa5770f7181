SPECIFICATION Spec
CONSTANTS
  r1 = r1
  r2 = r2
  r3 = r3
  agent = agent
  rail = rail
  strict = strict
  c1 = c1
  g1 = g1
  g2 = g2
  s1 = s1
  s2 = s2
  d1 = d1
  d2 = d2
  Requests <- MCThree
  Principals = {agent}
  Profiles = {rail}
  Policies = {strict}
  Callers = {c1}
  Payer <- MCPayer
  ProfileOf <- MCProfileOf
  PolicyOf <- MCPolicyOf
  Cost <- MCMixedCost
  FreshUntil <- MCFreshAll
  Budget <- MCPair
  MaxCalls <- MCManyCalls
  Window <- MCWindow
  Lifetime <- MCShortLived
  NoRequest = NoRequest
  NoPolicy = NoPolicy
  NoOutcome = NoOutcome
  Gates = {g1, g2}
  Refs = {s1}
  Charges = {1, 2}
  Details = {d1}
  HostEvents = {}
  MaxTime = 1
SYMMETRY PairSymmetry
INVARIANTS
  RealSpendWithinBudget
  SettlementUnique
PROPERTIES
  ImplementsLedger
CHECK_DEADLOCK FALSE
