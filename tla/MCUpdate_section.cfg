SPECIFICATION Spec
CONSTANTS
  a = a
  b = b
  c = c
  s = s
  w = w
  x = x
  y = y
  z = z
  n = n
  o = o
  p = p
  Root = Root
  None = None
  Values = {x, y, z}
  Close <- AllDiffer
  Printed <- Exactly
  Keyvals = {a, b, c}
  Order <- Across
  Section <- InSection
  Name <- Distinct
  Generated = {a, b, c}
  Versions = {1, 2}
  Molds <- AllMolds
INVARIANT UntouchedIsCurrent
