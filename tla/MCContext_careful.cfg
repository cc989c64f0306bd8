SPECIFICATION Spec
CONSTANTS
  s = s
  t = t
  k = k
  Root = Root
  None = None
  Ctx = {s, t, k}
  Sections = {s, t}
  Names = {"good", "bad"}
  MoldNames = {"good"}
  MaxHandles = 1
  MaxPinned = 1
  Client = {}
SYMMETRY Interchangeable
CHECK_DEADLOCK FALSE
INVARIANTS
  DestroyedCountsPointers
