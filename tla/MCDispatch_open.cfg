\* None of these invariants holds of the code: leave one to see how.
CONSTANTS
  Dirs = {"d"}
  Names = {"a", "b"}
  Illegal = {}
  Slash = ""
  NamespaceName = "__namespace"
  Values = {"c"}
  Broken = "broken"
  None = "none"
  Groups = {"g", "h"}
  ConfigIds <- MCConfigIds
  MoldIds <- MCMoldIds
  MoldFiles <- MCMoldFiles
  Libconfs <- MCLibconfs
  Kinds <- MCKinds
  Implements <- MCImplements
  BuiltIn <- MCBuiltIn
SPECIFICATION Spec
INVARIANTS
  NoNullCall
  NoneLeftLoaded
  QueryTellsRead
