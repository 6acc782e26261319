\* Four places, three files, three requests.
SPECIFICATION Spec
CONSTANTS
  Paths = {1, 2, 3, 4}
  Objects <- MCObjects
  Null = "null"
  Fields <- MCFields
  Contents <- MCContents
  MaxOpens = 3
  MaxRequests = 3
INVARIANTS
  AnswerToAsker
  SameProfile
  LostOnlyIfMoved
\* the bounds end a session
CHECK_DEADLOCK FALSE
