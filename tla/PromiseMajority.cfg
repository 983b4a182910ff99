\* One proposer; the prepare phase against its comment.
SPECIFICATION Spec
CONSTANTS
  Server = {1, 2, 3}
  Proposer = {1}
  MaxOrders = 1
  GarbageSlots = {0}
  Late = {}
  Crashable = {2, 3}
  MaxNumber = 20
INVARIANT PromiseMajority
