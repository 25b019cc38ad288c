SPECIFICATION Spec
CONSTANTS
  m1 = m1
  m2 = m2
  e1 = e1
  e2 = e2
  worker = worker
  reviewer = reviewer
  Calls = {c1, c2}
  Children = {k1}
  Identities <- Four
  Requests <- Two
  None = None
INVARIANTS TypeOK AuditIsSound BlockedOnce VerifiedRan
SYMMETRY Interchangeable
