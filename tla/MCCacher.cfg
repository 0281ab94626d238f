\* When etcd has reached its last revision there may be nothing left to do.
SPECIFICATION CacherSpec
CONSTANTS
  Val = {v1, v2}
  None = none
  Updater = {g1}
  MaxRev = 4
  Watcher = {g1}
  Indexed = {v1}
  Capacity = 2
  InCap = 1
  ChanSize = 1
  MaxBreaks = 1
INVARIANTS
  AnswersAreTrue
  WatchIsConsecutive
PROPERTIES
  WatchersHear
CHECK_DEADLOCK FALSE
