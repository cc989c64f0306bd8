SPECIFICATION Spec
CONSTANTS
  s = s
  t = t
  k = k
  Root = Root
  None = None
  Ctx = {s, k}
  Sections = {s}
  Names = {"good", "bad"}
  MoldNames = {"good"}
  MaxHandles = 2
  MaxPinned = 2
  Client = {"rename", "orphan", "destroyStored", "keepFails"}
CHECK_DEADLOCK FALSE
INVARIANTS
  RefBalance
  NoDanglingPointer
  StoredIsLive
  StoredIsFound
  MoldlessIsMarked
PROPERTIES
  DestroyTakesOneTree
