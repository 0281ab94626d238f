SPECIFICATION RLSpec
CONSTANTS
  Item = {a, b}
  NoItem = nil
  Worker = {w1}
  Adder = {g1}
  ChanCap = 1
  BaseDelay = 1
  MaxDelay = 1
  MaxFailures = 0
INVARIANTS
  RLTypeOK
  NoRetryLost
PROPERTIES
  NeverPostponed
  NeverEarly
  RetryHappens
  ShutdownCompletes
