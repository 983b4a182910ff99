\* Two proposers, nobody crashes: a part reject.
SPECIFICATION FairSpec
CONSTANTS
  Server = {1, 2}
  Proposer = {1, 2}
  MaxOrders = 1
  GarbageSlots = {0}
  Late = {}
  Crashable = {}
  MaxNumber = 3
PROPERTY PeersPropose
