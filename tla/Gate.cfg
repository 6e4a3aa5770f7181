SPECIFICATION FairSpec
CONSTANTS
  r1 = r1
  r2 = r2
  r3 = r3
  agent = agent
  rail = rail
  strict = strict
  c1 = c1
  g1 = g1
  g2 = g2
  s1 = s1
  s2 = s2
  d1 = d1
  d2 = d2
  Requests <- MCOne
  Principals = {agent}
  Profiles = {rail}
  Policies = {strict}
  Callers = {c1}
  Payer <- MCPayer
  ProfileOf <- MCProfileOf
  PolicyOf <- MCPolicyOf
  Cost <- MCCost
  FreshUntil <- MCFreshUntil
  Budget <- MCTight
  MaxCalls <- MCMaxCalls
  Window <- MCWindow
  Lifetime <- MCLifetime
  NoRequest = NoRequest
  NoPolicy = NoPolicy
  NoOutcome = NoOutcome
  Gates = {g1, g2}
  Refs = {s1}
  Charges = {1, 2}
  Details = {d1, d2}
  HostEvents = {"revoke", "evidence"}
  MaxTime = 2
INVARIANTS
  DispatchedOnce
  EffectCovered
  ReceiptMatchesRecord
PROPERTIES
  NegativeEvidenceWins
  SettlementAccounted
CHECK_DEADLOCK FALSE
