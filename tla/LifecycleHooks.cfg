SPECIFICATION Spec
CONSTANTS
  p1 = p1
  p2 = p2
  v1 = v1
  v2 = v2
  Procs = {p1}
  Versions = {v1, v2}
  Skills <- OneSkill
  Ships <- Stable
  Collisions <- Colliding
  Checkout = Checkout
  Absent = Absent
  Untracked = Untracked
  Free = Free
  Stale = Stale
  MaxRows = 3
  MaxEdits = 0
  MaxFaults = 0
INVARIANTS OneHookSource
SYMMETRY Interchangeable
