SPECIFICATION TextSpec
CONSTANTS
  Defaults = {d1, d2, d3}
  Restrictions = {r1, r2}
  AllVersions <- Majors
  Deprecations <- Removal
  Arguments = {1, 2}
  Client = {}
  MaxOpen = 1
  MaxOverrides = 2
SYMMETRY Symmetry
INVARIANTS
  QueuesHoldFinalized
  ActiveIsLatest
  VersionCovers
  ValidKeyvalIsSound
  MinimumIsLatestInMajor
PROPERTIES
  OldVersionsKeepDefault
  TextKeepsMold
