\* Every combination of nine class hierarchies, five lists of primitives arrays,
\* up to two instances and three lists of objects arrays.
SPECIFICATION Spec
CONSTANTS
  Dumps <- MCDumps
  IdSize = 4
  StringName = "java.lang.String"
  ValueName = "value"
INVARIANTS
  LayoutTiles
  IndexKeepsFirst
  StringsDecoded
  ProgressAccounts
PROPERTY
  PreparesUnlessCyclic
