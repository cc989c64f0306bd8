SPECIFICATION CollectionSpec
CONSTANTS
  Contexts = {a, b, c, d}
  Null = Null
  Exhausted = Exhausted
  Chunk = 2
  MaxEntries = 4
  Uses = {"free"}
CHECK_DEADLOCK FALSE
PROPERTY IteratesInOrderAlways
