\* Two storages that may subscribe at any time, five emits, three starts (one
\* restart and one forbidden second start).
SPECIFICATION Spec
CONSTANTS
  s1 = s1
  s2 = s2
  Storages <- MCStorages
  MaxEmits = 5
  MaxStarts = 3
INVARIANTS
  NoLostWakeup
  ExactlyOnceInOrder
  StopHangsOnlyIfRaced
PROPERTIES
  StopLeavesTheRest
  StopReturns
  ImplementsActionQueue
\* std::terminate ends the process
CHECK_DEADLOCK FALSE
