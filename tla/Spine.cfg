SPECIFICATION Spec
CONSTANTS
  s1 = s1
  s2 = s2
  s3 = s3
  e1 = e1
  e2 = e2
  e3 = e3
  k1 = k1
  k2 = k2
  j1 = j1
  j2 = j2
  x1 = x1
  x2 = x2
  t1 = t1
  t2 = t2
  Submissions = {s1, s2, s3}
  Key <- MCKey
  Judgment <- MCJudgment
  Settlement <- MCSettlement
  Requests = {e1, e2, e3}
  Token <- MCToken
  Subject <- MCSubject
  Callers = {c1, c2}
  MaxTime = 1
  None = None
SYMMETRY MCCallersAlike
INVARIANTS
  ProvedOnce
  EvaluatedOnce
PROPERTIES
  ImplementsRegistry
