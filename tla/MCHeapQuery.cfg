\* Every question of MCQuestions, over objects and over classes.
SPECIFICATION QuerySpec
CONSTANTS
  Questions <- MCQuestions
  Chars = {".", "a", "A"}
  Dot = "."
  Upper <- MCUpper
  StringName <- MCStringName
INVARIANTS
  QueryExact
  ClasslessNeverSelected
  TokensExact
  BeginningsFind
  ComparisonsRelate
\* a query ends
CHECK_DEADLOCK FALSE
