SPECIFICATION Spec
CONSTANTS
  Key = {a, b}
  Listener = {h1}
  Resyncing = {h1}
  MaxRV = 2
  MaxDeltas = 3
  MaxBack = 1
INVARIANTS
  TypeOK
  QueueListsItems
  SyncedMeansPopped
  DeltasInOrder
  StoreMatchesUnlessBlind
  NoGhostObjects
PROPERTIES
  Converges
CHECK_DEADLOCK FALSE
