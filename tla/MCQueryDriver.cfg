\* Two texts of up to eleven tokens.
SPECIFICATION Spec
CONSTANTS
  MaxTexts = 2
  MaxTokens = 11
INVARIANTS
  GroupsOrFirst
  CrashesAtFirst
PROPERTY
  FilterKept
\* the texts end, or the process does
CHECK_DEADLOCK FALSE
