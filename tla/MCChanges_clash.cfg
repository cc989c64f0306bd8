SPECIFICATION ChangesSpec
CONSTANTS
  a = a
  b = b
  c = c
  s = s
  w = w
  x = x
  y = y
  z = z
  n = n
  o = o
  p = p
  Root = Root
  None = None
  Values = {x, y, z}
  Close <- AllDiffer
  Printed <- Exactly
  Keyvals = {a, b}
  Order <- Flat
  Section <- InSection
  Name <- Repeated
  Generated = {a, b}
  Versions = {1, 2}
  Molds <- ClashMolds
PROPERTY CallsReturn
