SPECIFICATION EngineFairSpec
CONSTANTS
  r1 = r1
  r2 = r2
  r3 = r3
  agent = agent
  rail = rail
  strict = strict
  loose = loose
  c1 = c1
  c2 = c2
  Requests <- MCTwo
  Principals = {agent}
  Profiles = {rail}
  Policies = {strict, loose}
  Callers = {c1}
  Payer <- MCPayer
  ProfileOf <- MCProfileOf
  PolicyOf <- MCTwoPolicies
  Cost <- MCCost
  FreshUntil <- MCStaleSoon
  Budget <- MCBudget
  MaxCalls <- MCMaxCalls
  Window <- MCWindow
  Lifetime <- MCLifetime
  NoRequest = NoRequest
  NoPolicy = NoPolicy
  HostEvents = {"revoke", "profile", "policy", "evidence"}
  MaxTime = 1
INVARIANTS
  AuthorizationGrounded
  CapacityFollowsAuthority
PROPERTIES
  AssessedSettles
CHECK_DEADLOCK FALSE
