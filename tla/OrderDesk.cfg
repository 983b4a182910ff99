\* Two customers and a reader, started with server 1; both servers may crash.
SPECIFICATION FairSpec
CONSTANTS
  Server = {1, 2}
  Customer = {0, 1}
  NumOrders = 2
  ReadList <- MCReadList
  Home = 1
  NoServer = 0
  Crashable = {1, 2}
INVARIANT TypeOK
INVARIANT OnePromiseEach
INVARIANT RecordShowsAnswers
INVARIANT ReadsAreFresh
INVARIANT OneLossPerCrash
PROPERTY CustomersEnd
