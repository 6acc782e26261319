\* Two files, three queries, a pipe that fills.
SPECIFICATION Spec
CONSTANTS
  MaxOpens = 2
  MaxQueries = 3
  Rows = 1
  LoadReports = 1
  PipeRoom = 3
INVARIANTS
  AcceptsLatest
  ShownRowsCurrent
  QuietShowsLatest
PROPERTIES
  HandOverReturns
  BarEnds
  ImplementsActionQueue
\* the user may stop, and a full pipe stops everybody
CHECK_DEADLOCK FALSE
