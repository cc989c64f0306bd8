CONSTANTS
  Names = {"a", "b", "c"}
  Null = Null
  Answers <- MCAnswers
SPECIFICATION FairSpec
PROPERTY ListingReturns
CHECK_DEADLOCK FALSE
