\* None of these invariants holds of the code: leave one to see how.
SPECIFICATION Spec
CONSTANTS
  s = s
  t = t
  k = k
  Root = Root
  None = None
  Ctx = {s, t, k}
  Sections = {s, t}
  Names = {"good", "bad"}
  MoldNames = {"good"}
  MaxHandles = 2
  MaxPinned = 1
  Client = {"rename", "orphan", "destroyStored"}
SYMMETRY Interchangeable
CHECK_DEADLOCK FALSE
INVARIANTS
  NoFault
  ValidNamesAreInMold
  FoundCollectionNotEmpty
