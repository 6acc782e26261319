\* Every heap of three objects, each printed; the printing ends in some way.
CONSTANTS
  Ids = {1, 2, 3}
  Heaps <- MCHeaps
  MaxLevel = 2
  StackRoom = 6
SPECIFICATION PrinterSpec
INVARIANT ShownExactly
PROPERTY PrintsUnlessCyclic
CHECK_DEADLOCK FALSE
