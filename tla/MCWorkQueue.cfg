SPECIFICATION WQSpec
CONSTANTS
  Item = {a, b, c}
  NoItem = nil
  Worker = {w1, w2}
INVARIANTS
  WQTypeOK
  QueueIsDirtyWork
  ExclusiveProcessing
  NoLostWakeup
  DrainedOnExit
PROPERTIES
  RefinesWorkSet
  WorkersExit
