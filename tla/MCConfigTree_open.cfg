\* None of these invariants holds of the code: leave one to see how.
SPECIFICATION TreeSpec
CONSTANTS
  Names = {"k", "r", "s", "t", "unknown"}
  Unknown = "unknown"
  Unreadable = Unreadable
  Molds <- TwoMolds
  Values = {"low", "high", "wrong"}
  Indexes <- LargeIndexes
  Queries <- ThreeNames
  MaxIndex = 1
  MaxEdited = 2
  IntSize = 4
  Strings = {"wrong"}
  Close <- LowAndHigh
  AsRead <- Exactly
INVARIANTS
  AncestorsAccountedFor
  SetIsWhereWritten
  WhatIsReadIsWritable
