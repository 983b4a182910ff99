------------------------------ MODULE OrderDesk ------------------------------
(***************************************************************************)
(* How customers and servers of a LaptopFactory system pass orders: the    *)
(* customer threads of one client process (ClientThreadClass), a server's  *)
(* engineer for each customer that has connected (identity 0), the queue   *)
(* erq with its lock and condition variable, and the scout thread that     *)
(* takes orders from it.  What the scout does with an order is the matter  *)
(* of LaptopPaxos: here ScoutBrocasting returns what it likes.  A thread   *)
(* of another client process reads the customers' records meanwhile.       *)
(*                                                                         *)
(* A server may crash, and then does nothing more.  What it has sent still *)
(* arrives.  Its customers find out when a receive fails, and look for     *)
(* another server; the order they had placed is not placed again.          *)
(***************************************************************************)
EXTENDS Integers, Sequences, FiniteSets

CONSTANTS
  Server,      \* the ids of the servers, the keys of serverConfig
  Customer,    \* the customers of the client process
  NumOrders,   \* how many orders each of them places
  ReadList,    \* the customers whose records the reader asks for, in order
  Home,        \* the server that the clients were started with
  NoServer,    \* stands for no server
  Crashable    \* the servers that may crash

ASSUME ServerAssumption == Server \subseteq Nat /\ IsFiniteSet(Server)
ASSUME HomeAssumption == Home \in Server /\ NoServer \notin Server
ASSUME NumOrdersAssumption == NumOrders \in Nat
ASSUME ReadListAssumption == ReadList \in Seq(Customer)

VARIABLES
  alive,     \* alive[s]: the process of s has not crashed
  pc,        \* pc[c]: what customer c does
  conn,      \* conn[c]: the server its stub is connected to
  known,     \* known[c]: the servers of its serverConfig
  scan,      \* scan[c]: those it has still to try
  next,      \* next[c]: the number of its next order, the i of Orders()
  told,      \* history: told[c][i] is what c was told of its order i,
  by,        \* history: and by[c][i] by whom, or who lost it
  engineer,  \* engineer[s][c]: what s's engineer for c does
  result,    \* result[s][c]: the result the promise of c's request is set to
  erq,       \* erq[s]: the queue
  scout,     \* scout[s]: what s's scout does
  working,   \* working[s]: the requests it has in hand, one or none
  customer_record,
  reader,    \* what the reader and its engineer do
  reads,     \* how many records it has got, or lost
  record,    \* the order number the engineer has looked up
  floor      \* history: what Home had told the customer when the reader asked

customerVars == <<pc, conn, known, scan, next, told, by>>
deskVars == <<engineer, result, erq, scout, working, customer_record>>
readerVars == <<reader, reads, record, floor>>
vars == <<alive, customerVars, deskVars, readerVars>>
-----------------------------------------------------------------------------
OrderNumber == 0 .. NumOrders - 1
Request == [customer : Customer, order : OrderNumber]

\* "end" is the end of the thread, "aborted" that of the whole client process.
CustomerLabel == {"connect", "config", "order", "wait", "scan", "end", "aborted"}

\* "greet" is about to send serverConfig, "ready" waits in ReceiveRequest, "queue"
\* is in CreateRegularLaptop before the queue's lock, "wait" in fut.get(), and
\* "answered" is past it.  "greeted" and "replied": what it sent is still unread.
EngineerLabel == {"none", "greet", "greeted", "ready", "queue", "wait", "answered",
                  "replied", "gone"}

\* "asleep" is in erq_cv.wait, "done" has returned from ScoutBrocasting.
ScoutLabel == {"awake", "asleep", "busy", "done", "gone"}

\* "ready" is connected to Home and between two requests; the request has been
\* "asked" and its record "replied".
ReaderLabel == {"ready", "asked", "replied"}

Init ==
  /\ alive = [s \in Server |-> TRUE]
  /\ pc = [c \in Customer |-> "connect"]
  /\ conn = [c \in Customer |-> NoServer]
  /\ known = [c \in Customer |-> {}]
  /\ scan = [c \in Customer |-> {}]
  /\ next = [c \in Customer |-> 0]
  /\ told = [c \in Customer |-> [i \in OrderNumber |-> "none"]]
  /\ by = [c \in Customer |-> [i \in OrderNumber |-> NoServer]]
  /\ engineer = [s \in Server |-> [c \in Customer |-> "none"]]
  /\ result = [s \in Server |-> [c \in Customer |-> "none"]]
  /\ erq = [s \in Server |-> <<>>]
  /\ scout = [s \in Server |-> "awake"]
  /\ working = [s \in Server |-> {}]
  /\ customer_record = [s \in Server |-> [c \in Customer |-> -1]]
  /\ reader = "ready"
  /\ reads = 0
  /\ record = -1
  /\ floor = -1
-----------------------------------------------------------------------------
(***************************************************************************)
(* The customer.                                                           *)
(***************************************************************************)
Goto(c, label) == pc' = [pc EXCEPT ![c] = label]

EngineerMoves(s, c, from, to) ==
  /\ engineer[s][c] = from
  /\ engineer' = [engineer EXCEPT ![s][c] = to]

\* Faulty variant: a connection that could not be made is taken for one that was.
MayConnectBlindly(s) == TRUE

MayConnect(s) == alive[s]

\* ClientStub::Init and Identify(0); the server starts an engineer.
Connect(c, s) ==
  /\ MayConnect(s)
  /\ conn' = [conn EXCEPT ![c] = s]
  /\ engineer' = [engineer EXCEPT ![s][c] = IF alive[s] THEN "greet" ELSE "gone"]
  /\ Goto(c, "config")

ConnectHome(c) ==
  /\ pc[c] = "connect"
  /\ \/ Connect(c, Home)
     \/ /\ ~MayConnect(Home)
        /\ Goto(c, "end")
        /\ UNCHANGED <<conn, engineer>>
  /\ UNCHANGED <<alive, known, scan, next, told, by, result, erq, scout, working,
                 customer_record, readerVars>>

ReadConfig(c) ==
  /\ pc[c] = "config"
  /\ EngineerMoves(conn[c], c, "greeted", "ready")
  /\ known' = [known EXCEPT ![c] = Server]
  /\ Goto(c, "order")
  /\ UNCHANGED <<alive, conn, scan, next, told, by, result, erq, scout, working,
                 customer_record, readerVars>>

\* The server is dead before its serverConfig has arrived.  receiveServerConfig
\* goes on with a size it has not read: an empty serverConfig, or the end of the
\* client (no memory of that size, or nothing to unmarshal at size 0).
ConfigLost(c) ==
  /\ pc[c] = "config"
  /\ ~alive[conn[c]]
  /\ engineer[conn[c]][c] # "greeted"
  /\ \/ known' = [known EXCEPT ![c] = {}] /\ Goto(c, "order")
     \/ pc' = [d \in Customer |-> "aborted"] /\ UNCHANGED known
  /\ UNCHANGED <<alive, conn, scan, next, told, by, deskVars, readerVars>>

\* Faulty variant: `i <= num_orders`.
HasAnotherOrder(c) == next[c] <= NumOrders

HasOrder(c) == next[c] < NumOrders

PlaceOrder(c) ==
  /\ pc[c] = "order"
  /\ HasOrder(c)
  /\ alive[conn[c]]
  /\ EngineerMoves(conn[c], c, "ready", "queue")
  /\ Goto(c, "wait")
  /\ UNCHANGED <<alive, conn, known, scan, next, told, by, result, erq, scout, working,
                 customer_record, readerVars>>

\* The customer is told `what` of the order it has sent to its server.
Tell(c, what) ==
  /\ told' = [told EXCEPT ![c][next[c]] = what]
  /\ by' = [by EXCEPT ![c][next[c]] = conn[c]]
  /\ next' = [next EXCEPT ![c] = @ + 1]

\* A laptop arrives; its adminId says whether the customer stops.
ReadLaptop(c) ==
  LET s == conn[c]
  IN  /\ pc[c] = "wait"
      /\ EngineerMoves(s, c, "replied", "ready")
      /\ Tell(c, result[s][c])
      /\ Goto(c, IF result[s][c] = "unavailable" THEN "end" ELSE "order")
      /\ result' = [result EXCEPT ![s][c] = "none"]
      /\ UNCHANGED <<alive, conn, known, scan, erq, scout, working,
                     customer_record, readerVars>>

\* Order() gives a laptop that is not valid.  The i++ of the reconnected customer
\* is counted here.
LoseOrder(c) ==
  /\ pc[c] \in {"order", "wait"}
  /\ HasOrder(c)
  /\ ~alive[conn[c]]
  /\ engineer[conn[c]][c] # "replied"
  /\ Tell(c, "lost")
  /\ scan' = [scan EXCEPT ![c] = known[c]]
  /\ Goto(c, "scan")
  /\ UNCHANGED <<alive, conn, known, deskVars, readerVars>>

\* The servers of serverConfig are tried in the order of their ids.
TryServer(c, s) ==
  /\ pc[c] = "scan"
  /\ s \in scan[c]
  /\ \A t \in scan[c] : s <= t
  /\ scan' = [scan EXCEPT ![c] = @ \ {s}]
  /\ \/ Connect(c, s)
     \/ ~MayConnect(s) /\ UNCHANGED <<pc, conn, engineer>>
  /\ UNCHANGED <<alive, known, next, told, by, result, erq, scout, working,
                 customer_record, readerVars>>

\* No server is left to try, or no order to place.
Leave(c) ==
  /\ \/ pc[c] = "scan" /\ scan[c] = {}
     \/ pc[c] = "order" /\ ~HasOrder(c)
  /\ Goto(c, "end")
  /\ UNCHANGED <<alive, conn, known, scan, next, told, by, deskVars, readerVars>>
-----------------------------------------------------------------------------
(***************************************************************************)
(* The engineer.                                                           *)
(***************************************************************************)
Greet(s, c) ==
  /\ EngineerMoves(s, c, "greet", "greeted")
  /\ UNCHANGED <<alive, customerVars, result, erq, scout, working, customer_record, readerVars>>

\* Faulty variant: the scout is not notified.
Unnoticed(label) == label

\* erq_cv.notify_one() and the scout.
Notified(label) == IF label = "asleep" THEN "awake" ELSE label

\* The queue's lock is held from the push to the notify.
Enqueue(s, c) ==
  /\ EngineerMoves(s, c, "queue", "wait")
  /\ erq' = [erq EXCEPT ![s] = Append(@, [customer |-> c, order |-> next[c]])]
  /\ scout' = [scout EXCEPT ![s] = Notified(@)]
  /\ UNCHANGED <<alive, customerVars, result, working, customer_record, readerVars>>

SendLaptop(s, c) ==
  /\ EngineerMoves(s, c, "answered", "replied")
  /\ UNCHANGED <<alive, customerVars, result, erq, scout, working, customer_record, readerVars>>

\* The customer has closed the connection, whatever was in it.
HangUp(s, c) ==
  /\ conn[c] = s
  /\ pc[c] \in {"end", "aborted"}
  /\ engineer[s][c] \in {"ready", "greeted", "replied"}
  /\ engineer' = [engineer EXCEPT ![s][c] = "gone"]
  /\ result' = [result EXCEPT ![s][c] = "none"]
  /\ UNCHANGED <<alive, customerVars, erq, scout, working, customer_record, readerVars>>
-----------------------------------------------------------------------------
(***************************************************************************)
(* The scout.                                                              *)
(***************************************************************************)
\* The queue is empty: erq_cv.wait gives up the lock and sleeps.  If it wakes up
\* without a notify it tests the queue again, under the lock, and nothing has changed.
Sleep(s) ==
  /\ scout[s] = "awake"
  /\ erq[s] = <<>>
  /\ scout' = [scout EXCEPT ![s] = "asleep"]
  /\ UNCHANGED <<alive, customerVars, engineer, result, erq, working, customer_record, readerVars>>

\* Faulty variant: front() without pop().
Peeked(queue) == queue

Popped(queue) == Tail(queue)

Take(s) ==
  /\ scout[s] = "awake"
  /\ erq[s] # <<>>
  /\ working' = [working EXCEPT ![s] = {Head(erq[s])}]
  /\ erq' = [erq EXCEPT ![s] = Popped(@)]
  /\ scout' = [scout EXCEPT ![s] = "busy"]
  /\ UNCHANGED <<alive, customerVars, engineer, result, customer_record, readerVars>>

\* Faulty variant: map::insert, which keeps the entry that is there.
Inserted(old, order) == IF old = -1 THEN order ELSE old

Recorded(old, order) == order

\* ScoutBrocasting returns 1, after it has written the customer's record, or 0.
Decide(s, what) ==
  \E r \in working[s] :
    /\ scout[s] = "busy"
    /\ scout' = [scout EXCEPT ![s] = "done"]
    /\ result' = [result EXCEPT ![s][r.customer] = what]
    /\ customer_record' =
         IF what = "ok"
         THEN [customer_record EXCEPT ![s][r.customer] = Recorded(@, r.order)]
         ELSE customer_record
    /\ UNCHANGED <<alive, customerVars, engineer, erq, working, readerVars>>

\* req->prom.set_value: the engineer of the request goes on.
SetPromise(s) ==
  \E r \in working[s] :
    /\ scout[s] = "done"
    /\ scout' = [scout EXCEPT ![s] = "awake"]
    /\ working' = [working EXCEPT ![s] = {}]
    /\ EngineerMoves(s, r.customer, "wait", "answered")
    /\ UNCHANGED <<alive, customerVars, result, erq, customer_record, readerVars>>
-----------------------------------------------------------------------------
(***************************************************************************)
(* The reader: Records() for its own id, or ScanRecords(); and its         *)
(* engineer at Home, which looks the record up in CreateCustomerRecord.    *)
(***************************************************************************)
ReaderMoves(from, to) == reader = from /\ reader' = to

ToldBy(s, c) == {i \in OrderNumber : told[c][i] = "ok" /\ by[c][i] = s}

AskRecord ==
  /\ alive[Home]
  /\ reads < Len(ReadList)
  /\ ReaderMoves("ready", "asked")
  /\ \E n \in {-1} \cup ToldBy(Home, ReadList[reads + 1]) :
       /\ \A i \in ToldBy(Home, ReadList[reads + 1]) : i <= n
       /\ floor' = n
  /\ UNCHANGED <<alive, customerVars, deskVars, reads, record>>

\* CreateCustomerRecord, which looks the record up under cr_lock, and ReturnRecord.
LookUp ==
  /\ alive[Home]
  /\ ReaderMoves("asked", "replied")
  /\ record' = customer_record[Home][ReadList[reads + 1]]
  /\ UNCHANGED <<alive, customerVars, deskVars, reads, floor>>

\* On to the next record.
NextRead ==
  /\ reads' = reads + 1
  /\ record' = -1
  /\ floor' = -1
  /\ UNCHANGED <<alive, customerVars, deskVars>>

ReadRecord == ReaderMoves("replied", "ready") /\ NextRead

\* The send or the receive fails: a record that is not valid.
LoseRecord ==
  /\ ~alive[Home]
  /\ reads < Len(ReadList)
  /\ ReaderMoves("ready", "ready") \/ ReaderMoves("asked", "ready")
  /\ NextRead

ReaderStep == AskRecord \/ LookUp \/ ReadRecord \/ LoseRecord

ReaderDone == reads = Len(ReadList)
-----------------------------------------------------------------------------
\* The memory of the process is gone; what it has sent has yet to be read.
Crash(s) ==
  /\ s \in Crashable
  /\ alive[s]
  /\ alive' = [alive EXCEPT ![s] = FALSE]
  /\ engineer' = [engineer EXCEPT ![s] =
       [c \in Customer |-> IF @[c] \in {"greeted", "replied"} THEN @[c] ELSE "gone"]]
  /\ result' = [result EXCEPT ![s] =
       [c \in Customer |-> IF engineer[s][c] = "replied" THEN @[c] ELSE "none"]]
  /\ erq' = [erq EXCEPT ![s] = <<>>]
  /\ scout' = [scout EXCEPT ![s] = "gone"]
  /\ working' = [working EXCEPT ![s] = {}]
  /\ UNCHANGED <<customerVars, customer_record, readerVars>>

CustomerStep(c) ==
  \/ ConnectHome(c) \/ ReadConfig(c) \/ ConfigLost(c)
  \/ PlaceOrder(c) \/ ReadLaptop(c) \/ LoseOrder(c) \/ Leave(c)
  \/ \E s \in Server : TryServer(c, s)

EngineerStep(s, c) ==
  /\ alive[s]
  /\ Greet(s, c) \/ Enqueue(s, c) \/ SendLaptop(s, c) \/ HangUp(s, c)

ScoutStep(s) ==
  /\ alive[s]
  /\ Sleep(s) \/ Take(s) \/ SetPromise(s) \/ \E what \in {"ok", "unavailable"} : Decide(s, what)

\* Every customer thread has ended.
Terminating ==
  /\ \A c \in Customer : pc[c] \in {"end", "aborted"}
  /\ ReaderDone
  /\ UNCHANGED vars

Next ==
  \/ \E c \in Customer : CustomerStep(c)
  \/ \E s \in Server, c \in Customer : EngineerStep(s, c)
  \/ \E s \in Server : ScoutStep(s) \/ Crash(s)
  \/ ReaderStep
  \/ Terminating

\* Every thread runs.  ScoutBrocasting returns: OrderAnswered of LaptopPaxos.
Fairness ==
  /\ \A c \in Customer : WF_vars(CustomerStep(c))
  /\ \A s \in Server, c \in Customer : WF_vars(EngineerStep(s, c))
  /\ \A s \in Server : WF_vars(ScoutStep(s))
  /\ WF_vars(ReaderStep)

Spec == Init /\ [][Next]_vars
FairSpec == Spec /\ Fairness
-----------------------------------------------------------------------------
(* Type correctness. *)
TypeOK ==
  /\ alive \in [Server -> BOOLEAN]
  /\ pc \in [Customer -> CustomerLabel]
  /\ conn \in [Customer -> Server \cup {NoServer}]
  /\ known \in [Customer -> SUBSET Server]
  /\ scan \in [Customer -> SUBSET Server]
  /\ next \in [Customer -> 0 .. NumOrders]
  /\ told \in [Customer -> [OrderNumber -> {"none", "ok", "unavailable", "lost"}]]
  /\ by \in [Customer -> [OrderNumber -> Server \cup {NoServer}]]
  /\ engineer \in [Server -> [Customer -> EngineerLabel]]
  /\ result \in [Server -> [Customer -> {"none", "ok", "unavailable"}]]
  /\ erq \in [Server -> Seq(Request)]
  /\ scout \in [Server -> ScoutLabel]
  /\ working \in [Server -> SUBSET Request]
  /\ customer_record \in [Server -> [Customer -> {-1} \cup OrderNumber]]
  /\ reader \in ReaderLabel
  /\ reads \in 0 .. Len(ReadList)
  /\ record \in {-1} \cup OrderNumber
  /\ floor \in {-1} \cup OrderNumber

(***************************************************************************)
(* An engineer that waits for a promise has exactly one request that will  *)
(* set it, in the queue or in the scout's hands, and every request has an  *)
(* engineer that waits: no promise is forgotten, none is set twice.        *)
(***************************************************************************)
OnePromiseEach ==
  \A s \in Server :
    LET queued == DOMAIN erq[s]
    IN  /\ \A i, j \in queued : erq[s][i].customer = erq[s][j].customer => i = j
        /\ \A r \in working[s] : r.customer \notin {erq[s][i].customer : i \in queued}
        /\ \A q, r \in working[s] : q = r
        /\ \A c \in Customer :
             engineer[s][c] = "wait" <=> c \in {erq[s][i].customer : i \in queued} \cup
                                              {r.customer : r \in working[s]}

(***************************************************************************)
(* A customer that was told by a living server that an order is done finds *)
(* that order or a later one when it reads its record there.               *)
(***************************************************************************)
RecordShowsAnswers ==
  \A c \in Customer, i \in OrderNumber :
    told[c][i] = "ok" => customer_record[by[c][i]][c] >= i

\* The number of the first order that c has not placed, nor could have placed before
\* its process ended.
Unplaced(c) == IF pc[c] \in {"wait", "aborted"} THEN next[c] + 1 ELSE next[c]

(***************************************************************************)
(* A record that is read shows every order that the customer had been told *)
(* was done when the reader asked, and none that it has yet to place.      *)
(***************************************************************************)
ReadsAreFresh ==
  reader = "replied" =>
    /\ floor <= record
    /\ record < Unplaced(ReadList[reads + 1])

(***************************************************************************)
(* A crash costs a customer at most one order: it then finds a server that *)
(* lives, or places no more orders.                                        *)
(***************************************************************************)
Crashed == {s \in Server : ~alive[s]}

OneLossPerCrash ==
  \A c \in Customer :
    Cardinality({i \in OrderNumber : told[c][i] = "lost"}) <= Cardinality(Crashed)

(***************************************************************************)
(* Every customer thread ends, whoever crashes: no wake-up of the scout is *)
(* lost, and neither a customer nor the reader waits for a server that is  *)
(* gone.                                                                   *)
(***************************************************************************)
CustomersEnd ==
  /\ \A c \in Customer : <>(pc[c] \in {"end", "aborted"})
  /\ <>ReaderDone
=============================================================================
