\* Two proposers compete, one of which may crash.
SPECIFICATION Spec
CONSTANTS
  Server = {1, 2}
  Proposer = {1, 2}
  MaxOrders = 1
  GarbageSlots = {0}
  Late = {}
  Crashable = {2}
  MaxNumber = 2
INVARIANT LearnedIsChosen
INVARIANT SlotInBehind
