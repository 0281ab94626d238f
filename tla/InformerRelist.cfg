SPECIFICATION Spec
CONSTANTS
  Key = {a, b}
  Listener = {}
  Resyncing = {}
  MaxRV = 3
  MaxDeltas = 3
  MaxBack = 0
INVARIANT StoreMatchesServer
CHECK_DEADLOCK FALSE
