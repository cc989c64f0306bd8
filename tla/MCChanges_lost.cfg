SPECIFICATION ChangesSpec
CONSTANTS
  a = a
  b = b
  c = c
  s = s
  w = w
  x = x
  y = y
  z = z
  n = n
  o = o
  p = p
  Root = Root
  None = None
  Values = {x, y, z}
  Close <- AllDiffer
  Printed <- Exactly
  Keyvals = {a, b}
  Order <- Flat
  Section <- AtRoot
  Name <- Distinct
  Generated = {a, b}
  Versions = {1, 2}
  Molds <- AllMolds
PROPERTY OkKeepsChanges
