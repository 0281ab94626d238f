SPECIFICATION LESpec
CONSTANTS
  Candidate = {c1, c2}
  Nobody = nobody
  LeaseDuration = 5
  RenewDeadline = 2
  RetryPeriod = 1
  MaxLatency = 1
  MaxTime = 5
SYMMETRY Symmetry
INVARIANTS
  LETypeOK
  AtMostOneLeader
  LeaderHoldsLock
  LeaderIsHealthy
PROPERTIES
  TakeoverAfterLease
CHECK_DEADLOCK FALSE
