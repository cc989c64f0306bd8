SPECIFICATION ChangesSpec
CONSTANTS
  a = a
  b = b
  c = c
  s = s
  w = w
  x = x
  y = y
  z = z
  n = n
  o = o
  p = p
  Root = Root
  None = None
  Values = {w, x, y, z}
  Close <- LessThanOneApart
  Printed <- SixDecimals
  Keyvals = {a, b}
  Order <- Flat
  Section <- AtRoot
  Name <- Distinct
  Generated = {a}
  Versions = {1, 2, 3}
  Molds <- FloatOrEnum
INVARIANTS
  UntouchedIsCurrent
  ResolutionsAreStored
  RetriesAgree
PROPERTIES
  ChosenValuesStay
  ConflictsAreSettled
  CallsReturn
CHECK_DEADLOCK FALSE
