\* Every array of up to three items and every instance of up to two fields.
CONSTANTS
  Base = 2
  IdSizes = {2, 3}
  IdWidth = 3
  Sizes <- MCSizes
  Signed = {"byte", "short"}
  MaxItems = 3
  MaxFields = 2
SPECIFICATION ValuesSpec
INVARIANTS ItemsAsWritten PastEndOnlyIfShort ReferencesFound
