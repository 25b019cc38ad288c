SPECIFICATION PagesSpec
CONSTANTS
  Starts <- Texts
  Lines <- Vocabulary
  Ids = {"1", "2"}
  MaxEdits = 2
  Origins <- Sources
  SourceLines = {"def", "one more", "--", "++"}
  MaxLength = 4
  MaxChanges = 2
INVARIANTS LintIsHonest
PROPERTIES FlipsLand ArchiveKeepsDeltas SingleFaultIsSeen MergeIsSeen
CHECK_DEADLOCK FALSE
