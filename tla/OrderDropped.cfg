\* One proposer, nobody crashes: an order that is answered was put to the acceptors.
SPECIFICATION Spec
CONSTANTS
  Server = {1, 2, 3}
  Proposer = {1}
  MaxOrders = 2
  GarbageSlots = {0}
  Late = {}
  Crashable = {}
  MaxNumber = 20
INVARIANT AnsweredWasProposed
