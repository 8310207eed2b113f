SPECIFICATION Spec
CONSTANTS
  Docs = {d1}
  Requests = {r1, r2, r3}
  Ops = {"index", "update", "delete", "create", "drop", "mappings", "settings", "detect", "get", "list"}
SYMMETRY RequestSymmetry
INVARIANTS ConfiguredBeforeStored
PROPERTY ImplementsRegister
CHECK_DEADLOCK FALSE
