SPECIFICATION Spec
CONSTANTS
  Entries = {1, 2}
  Versions = {1, 2, 3}
  Latest = 2
  None = None
  World = {"fail", "others", "newer"}
INVARIANTS
  LastDecisionCounts
PROPERTIES
  WritesAreDecided
  ReportIsTrue
  DoReplacesOnlyUnseen
