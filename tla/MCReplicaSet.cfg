\* A ReplicaSet that is gone leaves nothing to do.
SPECIFICATION RSSpec
CONSTANTS
  Pod = {1, 2, 3}
  Replicas = {1, 2, 3}
  Burst = 2
  Inherited = {1}
  MaxChanges = 1
  MaxFaults = 1
INVARIANTS
  NoOverCreation
  KeepsNoDoomedPod
  NoVainWait
PROPERTIES
  ReplicasConverge
CHECK_DEADLOCK FALSE
