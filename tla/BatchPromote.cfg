SPECIFICATION FairBatchSpec
CONSTANTS
  s1 = s1
  s2 = s2
  u1 = u1
  u2 = u2
  u3 = u3
  u4 = u4
  Sessions = {s1, s2}
  Units = {u1, u2, u3, u4}
  MaxDelta = 4
  MaxEdits = 2
  MaxCrashes = 2
  Start <- Layouts
  Order <- TheOrder
  Manifest <- TheManifest
  None = None
INVARIANTS BatchTypeOK SavedStateLoads LandedIsTrue
PROPERTIES WitnessIsEarned VerdictHolds BatchCompletes
CHECK_DEADLOCK FALSE
