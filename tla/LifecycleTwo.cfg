SPECIFICATION FairSpec
CONSTANTS
  p1 = p1
  p2 = p2
  v1 = v1
  v2 = v2
  Procs = {p1, p2}
  Versions = {v1, v2}
  Skills <- OneSkill
  Ships <- Stable
  Collisions <- Colliding
  Checkout = Checkout
  Absent = Absent
  Untracked = Untracked
  Free = Free
  Stale = Stale
  MaxRows = 1
  MaxEdits = 0
  MaxFaults = 1
INVARIANTS JournalIsOwned
PROPERTIES LockIsReleased
