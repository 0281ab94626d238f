SPECIFICATION Spec
CONSTANTS
  Key = {a}
  Listener = {h1}
  Resyncing = {h1}
  MaxRV = 1
  MaxDeltas = 3
  MaxBack = 0
PROPERTY PopReturns
CHECK_DEADLOCK FALSE
