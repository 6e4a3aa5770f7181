SPECIFICATION Spec
CONSTANTS
  w1 = w1
  w2 = w2
  w3 = w3
  a1 = a1
  a2 = a2
  v1 = v1
  v2 = v2
  Wallets = {w1, w2, w3}
  Distributor = distributor
  Pool = pool
  Vault = vault
  Allocation = 5
  Liquidity = 2
  Limit = 2
  Admissions = {a1, a2}
  ClosesAt = 2
  MaxTime = 2
  Unset = Unset
  Revenues = {v1, v2}
  Gross <- MCGross
  Named = {1, 2}
  Costs = {1}
  BurnBps = 2
  Scale = 2
  Bought = {1}
  MaxUsdg = 2
  NoReceipt = NoReceipt
SYMMETRY MCAlike
INVARIANTS
  CohortSound
  EntitlementsFunded
  ReservesBacked
  BurnsAreReal
CHECK_DEADLOCK FALSE
