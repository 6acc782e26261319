\* Pairs of items and whole files, cut at every byte; and declared sizes that are
\* too large or too small by a few bytes.
SPECIFICATION Spec
CONSTANTS
  Files <- AllFiles
  NoName <- MCNoName
INVARIANTS
  CompleteFileLoads
  NothingWholeIsLost
  HeapTypePerSegment
  AcceptedTruncations
  SegmentSizeChecked
