SPECIFICATION FairSpec
CONSTANTS
  q1 = q1
  q2 = q2
  b1 = b1
  b2 = b2
  Queries = {q1, q2}
  Probes = {b1, b2}
  OpenFailures = 3
  MaxFailures = 3
  MaxAsked = 1
INVARIANTS
  LossCountedOnce
  RecoverySupervised
PROPERTIES
  FailsFast
  RecoversByTimer
CHECK_DEADLOCK FALSE
