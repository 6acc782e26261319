\* A magic of two characters, a hundred of 8, and 32 bits of 64: a hundred times the
\* elements passes it at eight.  A load ends, nothing follows it.
CONSTANTS
  Chars = {0, 1, 2}
  NoFile = NoFile
  Files <- MCFiles
  Known <- MCKnown
  MaxMagicLen = 2
  Hundred = 8
  Limit = 64
  MaxObjects = 9
  MaxReads = 6
SPECIFICATION Spec
INVARIANTS KnownFilesOnly ReportsRise
CHECK_DEADLOCK FALSE
