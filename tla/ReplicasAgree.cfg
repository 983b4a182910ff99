\* Two proposers, nobody crashes: do the replicas agree?
SPECIFICATION Spec
CONSTANTS
  Server = {1, 2, 3}
  Proposer = {1, 2}
  MaxOrders = 1
  GarbageSlots = {0}
  Late = {}
  Crashable = {}
  MaxNumber = 1
INVARIANT ReplicasAgree
