SPECIFICATION FairSpec
CONSTANTS
  q1 = q1
  q2 = q2
  b1 = b1
  b2 = b2
  Queries = {q1}
  Probes = {b1, b2}
  OpenFailures = 3
  MaxFailures = 3
  MaxAsked = 1
PROPERTIES
  RecoversUnattended
CHECK_DEADLOCK FALSE
