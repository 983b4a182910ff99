\* Two proposers: what a promise carries.
SPECIFICATION Spec
CONSTANTS
  Server = {1, 2}
  Proposer = {1, 2}
  MaxOrders = 1
  GarbageSlots = {0}
  Late = {}
  Crashable = {}
  MaxNumber = 2
INVARIANT PromiseCarriesAccepted
