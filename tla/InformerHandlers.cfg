SPECIFICATION Spec
CONSTANTS
  Key = {a}
  Listener = {h1, h2}
  Resyncing = {h1}
  MaxRV = 2
  MaxDeltas = 3
  MaxBack = 0
INVARIANT HandlersInformed
CHECK_DEADLOCK FALSE
