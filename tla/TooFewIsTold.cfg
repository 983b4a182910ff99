\* One proposer: too few acceptors in the accept phase.
SPECIFICATION FairSpec
CONSTANTS
  Server = {1, 2, 3}
  Proposer = {1}
  MaxOrders = 1
  GarbageSlots = {0}
  Late = {}
  Crashable = {2, 3}
  MaxNumber = 20
PROPERTY TooFewIsTold
