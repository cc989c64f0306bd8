\* None of these invariants holds of the code: leave one to see how.
SPECIFICATION Spec
CONSTANTS
  Defaults = {d1, d2}
  Restrictions = {r1, r2}
  AllVersions <- Majors
  Deprecations <- Removal
  Arguments = {0, 1, 2}
  Client = {"duplicate", "untyped", "deprecate"}
  MaxOpen = 2
  MaxOverrides = 0
CHECK_DEADLOCK FALSE
INVARIANTS
  QueueHoldsLive
  VersionCoversDeprecation
  MinimumIsLatest
  MaximumDefaultsToOne
  NeverAborts
