SPECIFICATION Spec
CONSTANTS
  Entries = {1}
  Versions = {1, 2, 3}
  Latest = 2
  None = None
  World = {"newer"}
PROPERTY DoReplacesNothing
