SPECIFICATION PWSpec
CONSTANTS
  Pod = {p1}
  NoPod = noPod
  Worker = {w1, w2}
  NoWorker = noWorker
  Call = {c1, c2}
  NoCall = noCall
  NoUpdate = noUpdate
  MaxVersion = 2
INVARIANTS
  SendsFindRoom
  OneSyncAtATime
PROPERTIES
  LatestIsSynced
  KillsAreDelivered
