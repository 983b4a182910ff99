\* One proposer, the two other servers may crash: two orders, under fair threads.
SPECIFICATION FairSpec
CONSTANTS
  Server = {1, 2, 3}
  Proposer = {1}
  MaxOrders = 2
  GarbageSlots = {0}
  Late = {3}
  Crashable = {2, 3}
  MaxNumber = 20
INVARIANT TypeOK
INVARIANT NoFalseAlarm
INVARIANT SurvivesPeers
INVARIANT LogMatchesDecisions
PROPERTY ImplementsReplicatedLog
PROPERTY OrderAnswered
PROPERTY Replicated
