SPECIFICATION TreeSpec
CONSTANTS
  Names = {"k", "r", "s", "t", "unknown"}
  Unknown = "unknown"
  Unreadable = Unreadable
  Molds <- TwoMolds
  Values = {"low", "high", "wrong"}
  Indexes <- PlainIndexes
  Queries <- ThreeNames
  MaxIndex = 1
  MaxEdited = 2
  IntSize = 4
  Strings = {"wrong"}
  Close <- LowAndHigh
  AsRead <- BigIsUnsigned
INVARIANT RoundTrip
