\* The same objects, with what a test states of an id whose top bit is set.
CONSTANTS
  Base = 2
  IdSizes = {2, 3}
  IdWidth = 3
  Sizes <- MCSizes
  Signed = {"byte", "short"}
  MaxItems = 3
  MaxFields = 2
SPECIFICATION ValuesSpec
INVARIANT EveryReferenceFound
