\* Refuted: a cut class dump is refused.
SPECIFICATION Spec
CONSTANTS
  Files <- ClassFiles
  NoName <- MCNoName
INVARIANT
  CutClassDumpRefused
