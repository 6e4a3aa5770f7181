SPECIFICATION EngineSpec
CONSTANTS
  r1 = r1
  r2 = r2
  r3 = r3
  agent = agent
  rail = rail
  strict = strict
  loose = loose
  c1 = c1
  c2 = c2
  Requests <- MCThree
  Principals = {agent}
  Profiles = {rail}
  Policies = {strict}
  Callers = {c1, c2}
  Payer <- MCPayer
  ProfileOf <- MCProfileOf
  PolicyOf <- MCOnePolicy
  Cost <- MCCost
  FreshUntil <- MCFreshUntil
  Budget <- MCTight
  MaxCalls <- MCOneCall
  Window <- MCWindow
  Lifetime <- MCLifetime
  NoRequest = NoRequest
  NoPolicy = NoPolicy
  HostEvents = {"config"}
  MaxTime = 2
SYMMETRY OnePolicySymmetry
INVARIANTS
  LimitsRespected
  SingleAssessment
CHECK_DEADLOCK FALSE
