SPECIFICATION LESpec
CONSTANTS
  Candidate = {c1, c2}
  Nobody = nobody
  LeaseDuration = 4
  RenewDeadline = 3
  RetryPeriod = 2
  MaxLatency = 0
  MaxTime = 6
INVARIANT AtMostOneLeader
CHECK_DEADLOCK FALSE
