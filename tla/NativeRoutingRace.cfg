SPECIFICATION Spec
CONSTANTS
  t1 = t1
  t2 = t2
  worker = worker
  reviewer = reviewer
  Hooks = {h1}
  Roles = {worker, reviewer}
  Tuples = {t1, t2}
  Contents <- Two
  Missing = Missing
  Broken = Broken
  Omitted = Omitted
  MaxStarts = 1
  MaxChanges = 2
INVARIANTS AdmissionUsesAttestedRouting
