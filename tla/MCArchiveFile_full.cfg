SPECIFICATION ExportSpec
CONSTANTS
  A = A
  B = B
  a = a
  alias = alias
  b = b
  NoPath = NoPath
  Paths = {a, alias, b}
  Files = {A, B}
  FileOf <- TwoFiles
  ConfigEntries = {1, 2, 3}
  Groups = {"big", "small"}
  GroupOf <- TwoGroups
  Faults = {"full"}
  User = {}
INVARIANT EntriesSurvive
