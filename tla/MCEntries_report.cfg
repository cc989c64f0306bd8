SPECIFICATION Spec
CONSTANTS
  Elements = {1, 2}
  Molds <- AllMolds
  Latest <- Late
  AllVersions <- Versions3
  Values = {1, 2}
  None = None
  MaxEntries = 3
INVARIANT
  ReportIsTrue
