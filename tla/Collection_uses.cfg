SPECIFICATION CollectionSpec
CONSTANTS
  Contexts = {a, b, c, d}
  Null = Null
  Exhausted = Exhausted
  Chunk = 2
  MaxEntries = 4
  Uses = {"free", "query", "teardown"}
CHECK_DEADLOCK FALSE
INVARIANTS
  EntriesReferenced
PROPERTIES
  IteratesInOrder
  StableCompaction
