SPECIFICATION FairSpec
CONSTANTS
  Sessions = {s1}
  Units = {u1, u2}
  MaxDelta = 3
  MaxEdits = 1
  MaxCrashes = 1
  Start <- Nothing
  None = None
INVARIANTS TypeOK NothingIsLost ConsolidatedIsPublished
PROPERTIES DraftGoesLast DispositionStands IdsAreNotReused ResumeIsAccepted RunsConverge
CHECK_DEADLOCK FALSE
