\* When all pods have been created and deleted there is nothing left to do, and
\* a scheduler that has crashed does nothing.
SPECIFICATION SCSpec
CONSTANTS
  Uid = {1, 2}
  Node = {n1, n2}
  NoNode = none
  MaxChanges = 1
  MaxFaults = 1
INVARIANTS
  PodsCountedOnce
  AddedIsWhatWasTold
  NoCrash
PROPERTIES
  PodsSettle
CHECK_DEADLOCK FALSE
