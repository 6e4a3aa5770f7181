SPECIFICATION CrossSpec
CONSTANTS
  c0 = c0
  c1 = c1
  l1 = l1
  l2 = l2
  r1 = r1
  r2 = r2
  q1 = q1
  q2 = q2
  Contracts <- MCContracts
  Layers <- MCLayers
  Reviewers <- MCReviewers
  Requests <- MCRequests
  Curated = {c0}
  MaxVersion = 4
  Ttl = 2
  MaxTime = 4
SYMMETRY MCSymmetry
INVARIANTS
  AuditTellsAll
  ApprovedAsSeen
  StalenessBounded
CHECK_DEADLOCK FALSE
