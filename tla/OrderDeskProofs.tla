---------------------------- MODULE OrderDeskProofs ----------------------------
(***************************************************************************)
(* The safety properties of OrderDesk, for any servers, customers, orders, *)
(* reads and crashes.                                                      *)
(***************************************************************************)
EXTENDS OrderDesk, FiniteSetTheorems, TLAPS

USE ServerAssumption, HomeAssumption, NumOrdersAssumption, ReadListAssumption

(***************************************************************************)
(* A customer with a connection has it to a server, and one that waits for *)
(* a laptop has an order that it waits for.                                *)
(***************************************************************************)
Connected ==
  \A c \in Customer :
    /\ pc[c] \in {"config", "order", "wait"} => conn[c] \in Server
    /\ pc[c] = "wait" => next[c] < NumOrders

(***************************************************************************)
(* From the request to the end of its answer an engineer works for a       *)
(* customer that is connected to it and waits, or was ended while it did.  *)
(***************************************************************************)
AtWork == {"queue", "wait", "answered", "replied"}

EngineerServes ==
  \A s \in Server, c \in Customer :
    engineer[s][c] \in AtWork =>
      conn[c] = s /\ pc[c] \in {"wait", "aborted"} /\ next[c] < NumOrders

(***************************************************************************)
(* Nothing moves in a server that has crashed.                             *)
(***************************************************************************)
DeadIsStill ==
  \A s \in Server : ~alive[s] =>
    /\ erq[s] = <<>> /\ working[s] = {}
    /\ \A c \in Customer : engineer[s][c] \in {"ready", "greeted", "replied", "gone"}

(***************************************************************************)
(* The types, of all but the reader, and of the reader.                    *)
(***************************************************************************)
DeskType ==
  /\ alive \in [Server -> BOOLEAN]
  /\ pc \in [Customer -> CustomerLabel]
  /\ conn \in [Customer -> Server \cup {NoServer}]
  /\ known \in [Customer -> SUBSET Server]
  /\ scan \in [Customer -> SUBSET Server]
  /\ next \in [Customer -> 0 .. NumOrders]
  /\ told \in [Customer -> [OrderNumber -> {"none", "ok", "unavailable", "lost"}]]
  /\ by \in [Customer -> [OrderNumber -> Server \cup {NoServer}]]
  /\ engineer \in [Server -> [Customer -> EngineerLabel]]
  /\ result \in [Server -> [Customer -> {"none", "ok", "unavailable"}]]
  /\ erq \in [Server -> Seq(Request)]
  /\ scout \in [Server -> ScoutLabel]
  /\ working \in [Server -> SUBSET Request]
  /\ customer_record \in [Server -> [Customer -> {-1} \cup OrderNumber]]

ReaderType ==
  /\ reader \in ReaderLabel
  /\ reads \in 0 .. Len(ReadList)
  /\ record \in {-1} \cup OrderNumber
  /\ floor \in {-1} \cup OrderNumber
  /\ reader \in {"asked", "replied"} => reads < Len(ReadList)

DeskInv == DeskType /\ Connected /\ EngineerServes /\ DeadIsStill
-----------------------------------------------------------------------------
(***************************************************************************)
(* A request stands for the order that its customer waits for, and the     *)
(* scout has one in hand exactly when it works on one.                     *)
(***************************************************************************)
Requests(s) == {erq[s][i] : i \in DOMAIN erq[s]} \cup working[s]

RequestsCurrent ==
  \A s \in Server : \A r \in Requests(s) : r.order = next[r.customer]

ScoutHolds ==
  \A s \in Server : scout[s] \in {"awake", "asleep"} => working[s] = {}

PromiseInv == OnePromiseEach /\ RequestsCurrent /\ ScoutHolds
-----------------------------------------------------------------------------
(***************************************************************************)
(* A customer has been told of the orders before its next, and no record   *)
(* is ahead of it.                                                         *)
(***************************************************************************)
ToldBefore ==
  \A c \in Customer, i \in OrderNumber : told[c][i] # "none" => i < next[c]

RecordBehind ==
  \A s \in Server, c \in Customer : customer_record[s][c] <= next[c]

(***************************************************************************)
(* The record is written before the answer is on its way.                  *)
(***************************************************************************)
ResultRecorded ==
  \A s \in Server, c \in Customer :
    result[s][c] = "ok" =>
      \/ engineer[s][c] = "wait" /\ scout[s] = "done" /\ customer_record[s][c] = next[c]
         /\ \E r \in working[s] : r.customer = c
      \/ engineer[s][c] \in {"answered", "replied"} /\ customer_record[s][c] = next[c]

ToldByServer ==
  \A c \in Customer, i \in OrderNumber : told[c][i] = "ok" => by[c][i] \in Server

(***************************************************************************)
(* What the reader asked for is in the record, when it is looked up and    *)
(* after that.                                                             *)
(***************************************************************************)
ReaderServed ==
  reader \in {"asked", "replied"} =>
    reads < Len(ReadList) /\ floor <= customer_record[Home][ReadList[reads + 1]]

AnswerInv ==
  ToldBefore /\ RecordBehind /\ ResultRecorded /\ ToldByServer /\ RecordShowsAnswers
-----------------------------------------------------------------------------
(***************************************************************************)
(* A customer loses at most one order to a server, which has crashed, and  *)
(* is never connected to that server again.                                *)
(***************************************************************************)
LostTo(c) == {by[c][i] : i \in {j \in OrderNumber : told[c][j] = "lost"}}

LossInv ==
  \A c \in Customer :
    /\ LostTo(c) \subseteq Crashed
    /\ \A i, j \in OrderNumber :
         told[c][i] = "lost" /\ told[c][j] = "lost" /\ by[c][i] = by[c][j] => i = j
    /\ pc[c] \in {"config", "order", "wait"} => conn[c] \notin LostTo(c)
-----------------------------------------------------------------------------
(***************************************************************************)
(* Every step is one of these.                                             *)
(***************************************************************************)
LEMMA StepCases ==
  ASSUME [Next]_vars
  PROVE  \/ \E c \in Customer :
              \/ ConnectHome(c) \/ ReadConfig(c) \/ ConfigLost(c) \/ PlaceOrder(c)
              \/ ReadLaptop(c) \/ LoseOrder(c) \/ Leave(c)
              \/ \E s \in Server : TryServer(c, s)
         \/ \E s \in Server, c \in Customer :
              /\ alive[s]
              /\ Greet(s, c) \/ Enqueue(s, c) \/ SendLaptop(s, c) \/ HangUp(s, c)
         \/ \E s \in Server :
              /\ alive[s]
              /\ \/ Sleep(s) \/ Take(s) \/ SetPromise(s)
                 \/ \E what \in {"ok", "unavailable"} : Decide(s, what)
         \/ \E s \in Server : Crash(s)
         \/ AskRecord \/ LookUp \/ ReadRecord \/ LoseRecord
         \/ UNCHANGED vars
BY Zenon DEF Next, CustomerStep, EngineerStep, ScoutStep, ReaderStep, Terminating

(***************************************************************************)
(* Steps of the reader move nothing else.                                  *)
(***************************************************************************)
LEMMA ReaderFrame ==
  ASSUME AskRecord \/ LookUp \/ ReadRecord \/ LoseRecord \/ UNCHANGED vars
  PROVE  UNCHANGED <<alive, customerVars, deskVars>>
BY Zenon DEF AskRecord, LookUp, ReadRecord, LoseRecord, NextRead, vars
-----------------------------------------------------------------------------
LEMMA DeskStep ==
  ASSUME DeskInv, [Next]_vars
  PROVE  DeskInv'
<1> USE DEF DeskInv, customerVars, deskVars, readerVars
<1>1. ASSUME NEW c \in Customer, ConnectHome(c) PROVE DeskInv'
  <2> USE <1>1 DEF ConnectHome, Connect, MayConnect, Goto
  <2>1. DeskType'
    <3>1. CASE Connect(c, Home)
      BY <3>1 DEF DeskType, CustomerLabel, EngineerLabel
    <3>2. CASE ~Connect(c, Home)
      BY <3>2 DEF DeskType, CustomerLabel
    <3> QED
      BY <3>1, <3>2
  <2>2. Connected'
    BY DEF DeskType, Connected
  <2>3. EngineerServes'
    <3>1. \A t \in Server : engineer[t][c] \notin AtWork
      BY DEF EngineerServes
    <3>2. \A t \in Server, d \in Customer :
            d # c => engineer'[t][d] = engineer[t][d] /\ conn'[d] = conn[d] /\ pc'[d] = pc[d]
      BY DEF DeskType
    <3>3. \A t \in Server : engineer'[t][c] \notin AtWork
      BY <3>1 DEF DeskType, AtWork
    <3> QED
      BY <3>2, <3>3 DEF EngineerServes
  <2>4. DeadIsStill'
    BY DEF DeskType, DeadIsStill
  <2> QED
    BY <2>1, <2>2, <2>3, <2>4
<1>2. ASSUME NEW c \in Customer, ReadConfig(c) PROVE DeskInv'
  <2> USE <1>2 DEF ReadConfig, EngineerMoves, Goto
  <2>1. DeskType'
    BY DEF DeskType, CustomerLabel, EngineerLabel
  <2>2. Connected'
    BY DEF DeskType, Connected
  <2>3. EngineerServes'
    BY DEF DeskType, EngineerServes, AtWork, DeadIsStill
  <2>4. DeadIsStill'
    BY DEF DeskType, DeadIsStill
  <2> QED
    BY <2>1, <2>2, <2>3, <2>4
<1>3. ASSUME NEW c \in Customer, ConfigLost(c) PROVE DeskInv'
  <2> USE <1>3 DEF ConfigLost, Goto
  <2>1. DeskType'
    BY DEF DeskType, CustomerLabel
  <2>2. Connected'
    BY DEF DeskType, Connected
  <2>3. EngineerServes'
    <3>1. \A t \in Server : engineer[t][c] \notin AtWork
      BY DEF EngineerServes
    <3>2. \A d \in Customer : d # c => pc'[d] \in {pc[d], "aborted"}
      BY DEF DeskType
    <3> QED
      BY <3>1, <3>2 DEF EngineerServes
  <2>4. DeadIsStill'
    BY DEF DeskType, DeadIsStill
  <2> QED
    BY <2>1, <2>2, <2>3, <2>4
<1>4. ASSUME NEW c \in Customer, PlaceOrder(c) PROVE DeskInv'
  <2> USE <1>4 DEF PlaceOrder, HasOrder, EngineerMoves, Goto
  <2>1. DeskType'
    BY DEF DeskType, CustomerLabel, EngineerLabel
  <2>2. Connected'
    BY DEF DeskType, Connected
  <2>3. EngineerServes'
    BY DEF DeskType, EngineerServes, AtWork, DeadIsStill
  <2>4. DeadIsStill'
    BY DEF DeskType, DeadIsStill
  <2> QED
    BY <2>1, <2>2, <2>3, <2>4
<1>5. ASSUME NEW c \in Customer, ReadLaptop(c) PROVE DeskInv'
  <2> USE <1>5 DEF ReadLaptop, EngineerMoves, Tell, Goto
  <2>1. DeskType'
    <3>1. conn[c] \in Server /\ next[c] \in OrderNumber /\ next[c] + 1 \in 0 .. NumOrders
      BY DEF Connected, DeskType, OrderNumber
    <3>2. told' \in [Customer -> [OrderNumber -> {"none", "ok", "unavailable", "lost"}]]
      <4>1. result[conn[c]][c] \in {"none", "ok", "unavailable"}
        <5>1. result \in [Server -> [Customer -> {"none", "ok", "unavailable"}]]
          BY DEF DeskType
        <5>2. c \in Customer
          BY <1>5
        <5> QED
          BY ONLY <5>1, <5>2, <3>1
      <4>2. told' = [told EXCEPT ![c][next[c]] = result[conn[c]][c]]
        BY Zenon
      <4> QED
        BY <3>1, <4>1, <4>2 DEF DeskType
    <3>3. by' \in [Customer -> [OrderNumber -> Server \cup {NoServer}]]
      BY <3>1 DEF DeskType
    <3>4. next' \in [Customer -> 0 .. NumOrders]
      BY <3>1 DEF DeskType
    <3>5. pc' \in [Customer -> CustomerLabel]
      BY DEF DeskType, CustomerLabel
    <3>6. engineer' \in [Server -> [Customer -> EngineerLabel]]
      BY DEF DeskType, EngineerLabel
    <3>7. result' \in [Server -> [Customer -> {"none", "ok", "unavailable"}]]
      BY DEF DeskType
    <3> QED
      BY <3>2, <3>3, <3>4, <3>5, <3>6, <3>7 DEF DeskType
  <2>2. Connected'
    BY DEF DeskType, Connected
  <2>3. EngineerServes'
    BY DEF DeskType, EngineerServes, AtWork, DeadIsStill
  <2>4. DeadIsStill'
    BY DEF DeskType, DeadIsStill
  <2> QED
    BY <2>1, <2>2, <2>3, <2>4
<1>6. ASSUME NEW c \in Customer, LoseOrder(c) PROVE DeskInv'
  <2> USE <1>6 DEF LoseOrder, HasOrder, Tell, Goto
  <2>1. DeskType'
    <3>1. conn[c] \in Server /\ next[c] \in OrderNumber /\ next[c] + 1 \in 0 .. NumOrders
      BY DEF Connected, DeskType, OrderNumber
    <3>2. told' \in [Customer -> [OrderNumber -> {"none", "ok", "unavailable", "lost"}]]
      BY <3>1 DEF DeskType
    <3>3. by' \in [Customer -> [OrderNumber -> Server \cup {NoServer}]]
      BY <3>1 DEF DeskType
    <3>4. next' \in [Customer -> 0 .. NumOrders]
      BY <3>1 DEF DeskType
    <3>5. pc' \in [Customer -> CustomerLabel] /\ scan' \in [Customer -> SUBSET Server]
      BY DEF DeskType, CustomerLabel
    <3> QED
      BY <3>2, <3>3, <3>4, <3>5 DEF DeskType
  <2>2. Connected'
    BY DEF DeskType, Connected
  <2>3. EngineerServes'
    <3>1. \A t \in Server : engineer[t][c] \notin AtWork
      BY DEF EngineerServes, DeadIsStill, AtWork
    <3>2. \A d \in Customer : d # c => pc'[d] = pc[d] /\ next'[d] = next[d]
      BY DEF DeskType
    <3> QED
      BY <3>1, <3>2 DEF EngineerServes
  <2>4. DeadIsStill'
    BY DEF DeskType, DeadIsStill
  <2> QED
    BY <2>1, <2>2, <2>3, <2>4
<1>7. ASSUME NEW c \in Customer, Leave(c) PROVE DeskInv'
  <2> USE <1>7 DEF Leave, HasOrder, Goto
  <2>1. DeskType'
    BY DEF DeskType, CustomerLabel
  <2>2. Connected'
    BY DEF DeskType, Connected
  <2>3. EngineerServes'
    BY DEF DeskType, EngineerServes, AtWork, DeadIsStill
  <2>4. DeadIsStill'
    BY DEF DeskType, DeadIsStill
  <2> QED
    BY <2>1, <2>2, <2>3, <2>4
<1>8. ASSUME NEW c \in Customer, NEW s \in Server, TryServer(c, s) PROVE DeskInv'
  <2> USE <1>8 DEF TryServer, Connect, MayConnect, Goto
  <2>1. DeskType'
    <3>1. scan' \in [Customer -> SUBSET Server]
      BY DEF DeskType
    <3>2. pc' \in [Customer -> CustomerLabel]
      BY ZenonT(60) DEF DeskType, CustomerLabel
    <3>3. conn' \in [Customer -> Server \cup {NoServer}]
      BY ZenonT(60) DEF DeskType
    <3>4. engineer' \in [Server -> [Customer -> EngineerLabel]]
      <4>1. engineer' \in {engineer, [engineer EXCEPT ![s][c] = "greet"]}
        OBVIOUS
      <4>2. engineer \in [Server -> [Customer -> EngineerLabel]]
        BY DEF DeskType
      <4> QED
        BY ONLY <4>1, <4>2 DEF EngineerLabel
    <3> QED
      BY <3>1, <3>2, <3>3, <3>4 DEF DeskType
  <2>2. Connected'
    BY DEF DeskType, Connected
  <2>3. EngineerServes'
    BY DEF DeskType, EngineerServes, AtWork, DeadIsStill
  <2>4. DeadIsStill'
    BY DEF DeskType, DeadIsStill
  <2> QED
    BY <2>1, <2>2, <2>3, <2>4
<1>9. ASSUME NEW s \in Server, NEW c \in Customer, alive[s], Greet(s, c) PROVE DeskInv'
  <2> USE <1>9 DEF Greet, EngineerMoves
  <2>1. DeskType'
    BY DEF DeskType, EngineerLabel
  <2>2. Connected'
    BY DEF DeskType, Connected
  <2>3. EngineerServes'
    BY DEF DeskType, EngineerServes, AtWork, DeadIsStill
  <2>4. DeadIsStill'
    BY DEF DeskType, DeadIsStill
  <2> QED
    BY <2>1, <2>2, <2>3, <2>4
<1>10. ASSUME NEW s \in Server, NEW c \in Customer, alive[s], Enqueue(s, c) PROVE DeskInv'
  <2> USE <1>10 DEF Enqueue, EngineerMoves, Notified
  <2>1. DeskType'
    <3>1. next[c] \in OrderNumber
      BY DEF EngineerServes, AtWork, DeskType, OrderNumber
    <3>2. [customer |-> c, order |-> next[c]] \in Request
      BY <3>1 DEF Request
    <3>3. erq' \in [Server -> Seq(Request)]
      BY <3>2 DEF DeskType
    <3>4. engineer' \in [Server -> [Customer -> EngineerLabel]]
      BY DEF DeskType, EngineerLabel
    <3>5. scout' \in [Server -> ScoutLabel]
      BY DEF DeskType, ScoutLabel
    <3> QED
      BY <3>3, <3>4, <3>5 DEF DeskType
  <2>2. Connected'
    BY DEF DeskType, Connected
  <2>3. EngineerServes'
    BY DEF DeskType, EngineerServes, AtWork, DeadIsStill
  <2>4. DeadIsStill'
    BY DEF DeskType, DeadIsStill
  <2> QED
    BY <2>1, <2>2, <2>3, <2>4
<1>11. ASSUME NEW s \in Server, NEW c \in Customer, alive[s], SendLaptop(s, c) PROVE DeskInv'
  <2> USE <1>11 DEF SendLaptop, EngineerMoves
  <2>1. DeskType'
    BY DEF DeskType, EngineerLabel
  <2>2. Connected'
    BY DEF DeskType, Connected
  <2>3. EngineerServes'
    BY DEF DeskType, EngineerServes, AtWork, DeadIsStill
  <2>4. DeadIsStill'
    BY DEF DeskType, DeadIsStill
  <2> QED
    BY <2>1, <2>2, <2>3, <2>4
<1>12. ASSUME NEW s \in Server, NEW c \in Customer, alive[s], HangUp(s, c) PROVE DeskInv'
  <2> USE <1>12 DEF HangUp
  <2>1. DeskType'
    BY DEF DeskType, EngineerLabel
  <2>2. Connected'
    BY DEF DeskType, Connected
  <2>3. EngineerServes'
    BY DEF DeskType, EngineerServes, AtWork, DeadIsStill
  <2>4. DeadIsStill'
    BY DEF DeskType, DeadIsStill
  <2> QED
    BY <2>1, <2>2, <2>3, <2>4
<1>13. ASSUME NEW s \in Server, alive[s], Sleep(s) PROVE DeskInv'
  <2> USE <1>13 DEF Sleep
  <2>1. DeskType'
    BY DEF DeskType, ScoutLabel
  <2>2. Connected'
    BY DEF DeskType, Connected
  <2>3. EngineerServes'
    BY DEF DeskType, EngineerServes, AtWork, DeadIsStill
  <2>4. DeadIsStill'
    BY DEF DeskType, DeadIsStill
  <2> QED
    BY <2>1, <2>2, <2>3, <2>4
<1>14. ASSUME NEW s \in Server, alive[s], Take(s) PROVE DeskInv'
  <2> USE <1>14 DEF Take, Popped
  <2>1. DeskType'
    BY SMTT(30) DEF DeskType, ScoutLabel
  <2>2. Connected'
    BY DEF DeskType, Connected
  <2>3. EngineerServes'
    BY DEF DeskType, EngineerServes, AtWork, DeadIsStill
  <2>4. DeadIsStill'
    BY DEF DeskType, DeadIsStill
  <2> QED
    BY <2>1, <2>2, <2>3, <2>4
<1>15. ASSUME NEW s \in Server, alive[s], SetPromise(s) PROVE DeskInv'
  <2> USE <1>15 DEF SetPromise, EngineerMoves
  <2>1. DeskType'
    <3>1. PICK r \in working[s] :
            /\ engineer' = [engineer EXCEPT ![s][r.customer] = "answered"]
            /\ scout' = [scout EXCEPT ![s] = "awake"]
            /\ working' = [working EXCEPT ![s] = {}]
            /\ UNCHANGED <<alive, customerVars, result, erq, customer_record, readerVars>>
      OBVIOUS
    <3>2. engineer' \in [Server -> [Customer -> EngineerLabel]]
      BY <3>1 DEF DeskType, EngineerLabel
    <3>3. scout' \in [Server -> ScoutLabel]
      BY <3>1 DEF DeskType, ScoutLabel
    <3> QED
      BY <3>1, <3>2, <3>3 DEF DeskType
  <2>2. Connected'
    BY DEF DeskType, Connected
  <2>3. EngineerServes'
    BY DEF DeskType, EngineerServes, AtWork, DeadIsStill
  <2>4. DeadIsStill'
    BY DEF DeskType, DeadIsStill
  <2> QED
    BY <2>1, <2>2, <2>3, <2>4
<1>16. ASSUME NEW s \in Server, NEW what \in {"ok", "unavailable"}, alive[s], Decide(s, what) PROVE DeskInv'
  <2> USE <1>16 DEF Decide, Recorded
  <2>1. DeskType'
    <3>1. PICK r \in working[s] :
            /\ scout' = [scout EXCEPT ![s] = "done"]
            /\ result' = [result EXCEPT ![s][r.customer] = what]
            /\ customer_record' = IF what = "ok"
                                 THEN [customer_record EXCEPT ![s][r.customer] = r.order]
                                 ELSE customer_record
      OBVIOUS
    <3>2. r.customer \in Customer /\ r.order \in OrderNumber
      BY <3>1 DEF DeskType, Request
    <3>3. customer_record' \in [Server -> [Customer -> {-1} \cup OrderNumber]]
      BY <3>1, <3>2 DEF DeskType
    <3>4. result' \in [Server -> [Customer -> {"none", "ok", "unavailable"}]]
      BY <3>1, <3>2 DEF DeskType
    <3>5. scout' \in [Server -> ScoutLabel]
      BY <3>1 DEF DeskType, ScoutLabel
    <3> QED
      BY <3>3, <3>4, <3>5 DEF DeskType
  <2>2. Connected'
    BY DEF DeskType, Connected
  <2>3. EngineerServes'
    BY DEF DeskType, EngineerServes, AtWork, DeadIsStill
  <2>4. DeadIsStill'
    BY DEF DeskType, DeadIsStill
  <2> QED
    BY <2>1, <2>2, <2>3, <2>4
<1>17. ASSUME NEW s \in Server, Crash(s) PROVE DeskInv'
  <2> USE <1>17 DEF Crash
  <2>1. DeskType'
    BY DEF DeskType, EngineerLabel, ScoutLabel
  <2>2. Connected'
    BY DEF DeskType, Connected
  <2>3. EngineerServes'
    BY DEF DeskType, EngineerServes, AtWork, DeadIsStill
  <2>4. DeadIsStill'
    BY DEF DeskType, DeadIsStill
  <2> QED
    BY <2>1, <2>2, <2>3, <2>4
<1>18. ASSUME UNCHANGED <<alive, customerVars, deskVars>> PROVE DeskInv'
  BY <1>18 DEF DeskType, Connected, EngineerServes, DeadIsStill
<1> QED
  BY StepCases, ReaderFrame, <1>1, <1>2, <1>3, <1>4, <1>5, <1>6, <1>7, <1>8, <1>9, <1>10, <1>11, <1>12, <1>13, <1>14, <1>15, <1>16, <1>17, <1>18

(***************************************************************************)
(* Steps of the others leave the reader alone.                             *)
(***************************************************************************)
LEMMA DeskFrame ==
  ASSUME [Next]_vars
  PROVE  UNCHANGED readerVars \/ AskRecord \/ LookUp \/ ReadRecord \/ LoseRecord
<1>1. ASSUME NEW c \in Customer,
             \/ ConnectHome(c) \/ ReadConfig(c) \/ ConfigLost(c) \/ PlaceOrder(c)
             \/ ReadLaptop(c) \/ LoseOrder(c) \/ Leave(c)
             \/ \E s \in Server : TryServer(c, s)
      PROVE  UNCHANGED readerVars
  BY <1>1, Zenon DEF ConnectHome, ReadConfig, ConfigLost, PlaceOrder, ReadLaptop, LoseOrder,
                     Leave, TryServer
<1>2. ASSUME NEW s \in Server, NEW c \in Customer,
             Greet(s, c) \/ Enqueue(s, c) \/ SendLaptop(s, c) \/ HangUp(s, c)
      PROVE  UNCHANGED readerVars
  BY <1>2, Zenon DEF Greet, Enqueue, SendLaptop, HangUp
<1>3. ASSUME NEW s \in Server,
             \/ Sleep(s) \/ Take(s) \/ SetPromise(s) \/ Crash(s)
             \/ \E what \in {"ok", "unavailable"} : Decide(s, what)
      PROVE  UNCHANGED readerVars
  BY <1>3, Zenon DEF Sleep, Take, SetPromise, Decide, Crash
<1>4. UNCHANGED vars => UNCHANGED readerVars
  BY Zenon DEF vars
<1> QED
  BY <1>1, <1>2, <1>3, <1>4, StepCases

LEMMA ReaderTypeStep ==
  ASSUME DeskInv, ReaderType, [Next]_vars
  PROVE  ReaderType'
<1>1. CASE UNCHANGED readerVars
  BY <1>1 DEF ReaderType, readerVars
<1>2. CASE AskRecord
  <2>1. floor' \in {-1} \cup OrderNumber
    BY <1>2 DEF AskRecord, ToldBy
  <2>2. reader' = "asked" /\ reads < Len(ReadList) /\ UNCHANGED <<reads, record>>
    BY <1>2 DEF AskRecord, ReaderMoves
  <2> QED
    BY <2>1, <2>2 DEF ReaderType, ReaderLabel
<1>3. CASE LookUp
  <2>1. reads \in 0 .. Len(ReadList) - 1 /\ Len(ReadList) \in Nat
    BY <1>3 DEF LookUp, ReaderMoves, ReaderType
  <2>2. ReadList[reads + 1] \in Customer
    BY <2>1
  <2>3. record' \in {-1} \cup OrderNumber
    BY <1>3, <2>2 DEF LookUp, DeskInv, DeskType
  <2> QED
    BY <1>3, <2>1, <2>3 DEF LookUp, ReaderMoves, ReaderType, ReaderLabel
<1>4. CASE ReadRecord \/ LoseRecord
  BY <1>4 DEF ReadRecord, LoseRecord, NextRead, ReaderMoves, ReaderType, ReaderLabel
<1> QED
  BY <1>1, <1>2, <1>3, <1>4, DeskFrame

TypeInv == DeskInv /\ ReaderType

LEMMA TypeStep == TypeInv /\ [Next]_vars => TypeInv'
BY DeskStep, ReaderTypeStep DEF TypeInv

LEMMA TypeInit == Init => TypeInv
<1> SUFFICES ASSUME Init PROVE TypeInv
  OBVIOUS
<1>1. DeskType
  BY DEF Init, DeskType, CustomerLabel, EngineerLabel, ScoutLabel, OrderNumber
<1>2. Connected /\ EngineerServes /\ DeadIsStill
  BY DEF Init, Connected, EngineerServes, AtWork, DeadIsStill
<1>3. ReaderType
  BY DEF Init, ReaderType, ReaderLabel
<1> QED
  BY <1>1, <1>2, <1>3 DEF TypeInv, DeskInv

LEMMA TypeInvariant == Spec => []TypeInv
BY TypeInit, TypeStep, PTL DEF Spec

(***************************************************************************)
(* The variables keep their types.                                         *)
(***************************************************************************)
THEOREM TypeCorrect == Spec => []TypeOK
<1>1. TypeInv => TypeOK
  BY DEF TypeInv, DeskInv, DeskType, ReaderType, TypeOK
<1> QED
  BY <1>1, TypeInvariant, PTL
-----------------------------------------------------------------------------
(***************************************************************************)
(* One promise for each engineer that waits.                               *)
(***************************************************************************)
LEMMA RequestWaits ==
  ASSUME DeskInv, PromiseInv, NEW s \in Server, NEW r \in Requests(s)
  PROVE  r \in Request /\ r.customer \in Customer /\ engineer[s][r.customer] = "wait"
<1>1. r \in Request
  BY DEF Requests, DeskInv, DeskType
<1>2. r.customer \in Customer
  BY <1>1 DEF Request
<1>3. r.customer \in {erq[s][i].customer : i \in DOMAIN erq[s]} \cup
                     {q.customer : q \in working[s]}
  BY DEF Requests
<1> QED
  BY <1>1, <1>2, <1>3 DEF PromiseInv, OnePromiseEach

LEMMA PromiseFrame ==
  ASSUME PromiseInv, UNCHANGED <<erq, working>>,
         \A s \in Server, c \in Customer : engineer'[s][c] = "wait" <=> engineer[s][c] = "wait",
         \A s \in Server, c \in Customer : engineer[s][c] = "wait" => next'[c] = next[c],
         \A s \in Server : scout'[s] \in {"awake", "asleep"} => scout[s] \in {"awake", "asleep"},
         DeskInv
  PROVE  PromiseInv'
<1>1. OnePromiseEach'
  BY DEF PromiseInv, OnePromiseEach
<1>2. \A s \in Server : \A r \in Requests(s) :
        r.customer \in Customer /\ engineer[s][r.customer] = "wait"
  BY RequestWaits
<1>3. RequestsCurrent'
  BY <1>2 DEF PromiseInv, RequestsCurrent, Requests
<1>4. ScoutHolds'
  BY DEF PromiseInv, ScoutHolds
<1> QED
  BY <1>1, <1>3, <1>4 DEF PromiseInv

(***************************************************************************)
(* OnePromiseEach, for one server.                                         *)
(***************************************************************************)
PromisesAt(queue, hand, waits) ==
  /\ \A i, j \in DOMAIN queue : queue[i].customer = queue[j].customer => i = j
  /\ \A i \in DOMAIN queue : \A r \in hand : queue[i].customer # r.customer
  /\ \A q, r \in hand : q = r
  /\ \A c \in Customer : c \in waits <=> \/ \E i \in DOMAIN queue : queue[i].customer = c
                                       \/ \E r \in hand : r.customer = c

WaitsAt(s) == {c \in Customer : engineer[s][c] = "wait"}

LEMMA PromisesSplit ==
  OnePromiseEach <=> \A s \in Server : PromisesAt(erq[s], working[s], WaitsAt(s))
<1>1. ASSUME NEW s \in Server
      PROVE  (\A r \in working[s] : r.customer \notin {erq[s][i].customer : i \in DOMAIN erq[s]})
             <=> (\A i \in DOMAIN erq[s] : \A r \in working[s] : erq[s][i].customer # r.customer)
  BY Zenon
<1>2. ASSUME NEW s \in Server, NEW c \in Customer
      PROVE  /\ c \in WaitsAt(s) <=> engineer[s][c] = "wait"
             /\ c \in {erq[s][i].customer : i \in DOMAIN erq[s]} \cup
                       {r.customer : r \in working[s]}
                <=> \/ \E i \in DOMAIN erq[s] : erq[s][i].customer = c
                    \/ \E r \in working[s] : r.customer = c
  BY Zenon DEF WaitsAt
<1>3. ASSUME OnePromiseEach, NEW s \in Server
      PROVE  PromisesAt(erq[s], working[s], WaitsAt(s))
  BY <1>1, <1>2, <1>3, Zenon DEF OnePromiseEach, PromisesAt
<1>4. ASSUME \A s \in Server : PromisesAt(erq[s], working[s], WaitsAt(s))
      PROVE  OnePromiseEach
  BY <1>1, <1>2, <1>4, Zenon DEF OnePromiseEach, PromisesAt
<1> QED
  BY <1>3, <1>4

LEMMA PromisesSplitNext ==
  OnePromiseEach' <=> \A s \in Server : PromisesAt(erq[s]', working[s]', WaitsAt(s)')
<1>1. ASSUME NEW s \in Server
      PROVE  (\A r \in working[s]' : r.customer \notin {erq[s]'[i].customer : i \in DOMAIN erq[s]'})
             <=> (\A i \in DOMAIN erq[s]' : \A r \in working[s]' : erq[s]'[i].customer # r.customer)
  BY Zenon
<1>2. ASSUME NEW s \in Server, NEW c \in Customer
      PROVE  /\ c \in WaitsAt(s)' <=> engineer[s]'[c] = "wait"
             /\ c \in {erq[s]'[i].customer : i \in DOMAIN erq[s]'} \cup
                       {r.customer : r \in working[s]'}
                <=> \/ \E i \in DOMAIN erq[s]' : erq[s]'[i].customer = c
                    \/ \E r \in working[s]' : r.customer = c
  BY Zenon DEF WaitsAt
<1>3. ASSUME OnePromiseEach', NEW s \in Server
      PROVE  PromisesAt(erq[s]', working[s]', WaitsAt(s)')
  BY <1>1, <1>2, <1>3, Zenon DEF OnePromiseEach, PromisesAt
<1>4. ASSUME \A s \in Server : PromisesAt(erq[s]', working[s]', WaitsAt(s)')
      PROVE  OnePromiseEach'
  BY <1>1, <1>2, <1>4, Zenon DEF OnePromiseEach, PromisesAt
<1> QED
  BY <1>3, <1>4

(***************************************************************************)
(* The queue: a request comes in, goes into the scout's hands, and is      *)
(* done.                                                                   *)
(***************************************************************************)
LEMMA PromisesPush ==
  ASSUME NEW queue \in Seq(Request), NEW hand \in SUBSET Request, NEW waits,
         NEW r \in Request, PromisesAt(queue, hand, waits), r.customer \notin waits
  PROVE  PromisesAt(Append(queue, r), hand, waits \cup {r.customer})
<1>1. r.customer \in Customer
  BY DEF Request
<1>2. \A i \in DOMAIN queue : queue[i].customer # r.customer
  BY <1>1 DEF PromisesAt
<1>3. \A q \in hand : q.customer # r.customer
  BY <1>1 DEF PromisesAt
<1>4. /\ DOMAIN Append(queue, r) = DOMAIN queue \cup {Len(queue) + 1}
      /\ \A i \in DOMAIN queue : Append(queue, r)[i] = queue[i]
      /\ Append(queue, r)[Len(queue) + 1] = r
      /\ Len(queue) + 1 \notin DOMAIN queue
  OBVIOUS
<1> QED
  BY <1>1, <1>2, <1>3, <1>4 DEF PromisesAt

LEMMA AppendRange ==
  ASSUME NEW queue \in Seq(Request), NEW r
  PROVE  {Append(queue, r)[i] : i \in DOMAIN Append(queue, r)} =
           {queue[i] : i \in DOMAIN queue} \cup {r}
<1>1. /\ DOMAIN Append(queue, r) = DOMAIN queue \cup {Len(queue) + 1}
      /\ \A i \in DOMAIN queue : Append(queue, r)[i] = queue[i]
      /\ Append(queue, r)[Len(queue) + 1] = r
  OBVIOUS
<1> QED
  BY <1>1

LEMMA PromisesPop ==
  ASSUME NEW queue \in Seq(Request), queue # <<>>, NEW waits, PromisesAt(queue, {}, waits)
  PROVE  PromisesAt(Tail(queue), {Head(queue)}, waits)
<1>1. /\ \A i \in DOMAIN Tail(queue) : i + 1 \in DOMAIN queue /\ Tail(queue)[i] = queue[i + 1]
      /\ \A i \in DOMAIN queue : i = 1 \/ i - 1 \in DOMAIN Tail(queue)
      /\ \A i \in DOMAIN Tail(queue) : i \in Nat \ {0}
      /\ \A i \in DOMAIN queue : i \in Nat \ {0}
      /\ 1 \in DOMAIN queue /\ Head(queue) = queue[1]
  OBVIOUS
<1>2. \A i, j \in DOMAIN Tail(queue) :
        Tail(queue)[i].customer = Tail(queue)[j].customer => i = j
  BY <1>1 DEF PromisesAt
<1>3. \A i \in DOMAIN Tail(queue) : Tail(queue)[i].customer # Head(queue).customer
  BY <1>1 DEF PromisesAt
<1>4. ASSUME NEW c
      PROVE  (\E i \in DOMAIN queue : queue[i].customer = c) <=>
               \/ \E i \in DOMAIN Tail(queue) : Tail(queue)[i].customer = c
               \/ Head(queue).customer = c
  <2>1. ASSUME NEW i \in DOMAIN queue, queue[i].customer = c, i # 1
        PROVE  i - 1 \in DOMAIN Tail(queue) /\ Tail(queue)[i - 1].customer = c
    <3>1. i - 1 \in DOMAIN Tail(queue) /\ (i - 1) + 1 = i
      BY <1>1, <2>1
    <3>2. Tail(queue)[i - 1] = queue[(i - 1) + 1]
      BY <1>1, <3>1
    <3> QED
      BY <2>1, <3>1, <3>2
  <2> QED
    BY <1>1, <2>1
<1> QED
  BY <1>2, <1>3, <1>4 DEF PromisesAt

LEMMA PromisesDone ==
  ASSUME NEW queue, NEW waits, NEW r, PromisesAt(queue, {r}, waits)
  PROVE  PromisesAt(queue, {}, waits \ {r.customer})
BY DEF PromisesAt

LEMMA PromiseStep ==
  ASSUME DeskInv, PromiseInv, [Next]_vars
  PROVE  PromiseInv'
<1> DEFINE Waits(s, c) == engineer[s][c] = "wait"
<1>0. \A s \in Server, c \in Customer :
        Waits(s, c) => alive[s] /\ conn[c] = s /\ pc[c] \in {"wait", "aborted"}
  BY DEF DeskInv, EngineerServes, AtWork, DeadIsStill, DeskType
<1>1. ASSUME NEW c \in Customer, ConnectHome(c) PROVE PromiseInv'
  <2> USE <1>1 DEF ConnectHome, Connect, MayConnect, Goto
  <2>1. UNCHANGED <<erq, working>>
    BY DEF deskVars
  <2>2. \A t \in Server, d \in Customer : (engineer'[t][d] = "wait") <=> Waits(t, d)
    <3>1. \A t \in Server : ~Waits(t, c)
      BY <1>0
    <3>2. engineer' \in {engineer, [engineer EXCEPT ![Home][c] = "greet"]}
      OBVIOUS
    <3>3. engineer \in [Server -> [Customer -> EngineerLabel]]
      BY DEF DeskInv, DeskType
    <3> QED
      BY ONLY <3>1, <3>2, <3>3
  <2>3. \A t \in Server, d \in Customer : Waits(t, d) => next'[d] = next[d]
    BY <1>0 DEF DeskInv, DeskType, customerVars
  <2>4. \A t \in Server : scout'[t] \in {"awake", "asleep"} => scout[t] \in {"awake", "asleep"}
    BY DEF DeskInv, DeskType, deskVars
  <2> HIDE <1>1 DEF ConnectHome, Connect, MayConnect, Goto
  <2> QED
    BY <2>1, <2>2, <2>3, <2>4, PromiseFrame
<1>2. ASSUME NEW c \in Customer, ReadConfig(c) PROVE PromiseInv'
  <2> USE <1>2 DEF ReadConfig, EngineerMoves, Goto
  <2>1. UNCHANGED <<erq, working>>
    BY DEF deskVars
  <2>2. \A t \in Server, d \in Customer : (engineer'[t][d] = "wait") <=> Waits(t, d)
    BY <1>0 DEF DeskInv, DeskType, deskVars
  <2>3. \A t \in Server, d \in Customer : Waits(t, d) => next'[d] = next[d]
    BY <1>0 DEF DeskInv, DeskType, customerVars
  <2>4. \A t \in Server : scout'[t] \in {"awake", "asleep"} => scout[t] \in {"awake", "asleep"}
    BY DEF DeskInv, DeskType, deskVars
  <2> HIDE <1>2 DEF ReadConfig, EngineerMoves, Goto
  <2> QED
    BY <2>1, <2>2, <2>3, <2>4, PromiseFrame
<1>3. ASSUME NEW c \in Customer, ConfigLost(c) PROVE PromiseInv'
  <2> USE <1>3 DEF ConfigLost, Goto
  <2>1. UNCHANGED <<erq, working>>
    BY DEF deskVars
  <2>2. \A t \in Server, d \in Customer : (engineer'[t][d] = "wait") <=> Waits(t, d)
    BY <1>0 DEF DeskInv, DeskType, deskVars
  <2>3. \A t \in Server, d \in Customer : Waits(t, d) => next'[d] = next[d]
    BY <1>0 DEF DeskInv, DeskType, customerVars
  <2>4. \A t \in Server : scout'[t] \in {"awake", "asleep"} => scout[t] \in {"awake", "asleep"}
    BY DEF DeskInv, DeskType, deskVars
  <2> HIDE <1>3 DEF ConfigLost, Goto
  <2> QED
    BY <2>1, <2>2, <2>3, <2>4, PromiseFrame
<1>4. ASSUME NEW c \in Customer, PlaceOrder(c) PROVE PromiseInv'
  <2> USE <1>4 DEF PlaceOrder, HasOrder, EngineerMoves, Goto
  <2>1. UNCHANGED <<erq, working>>
    BY DEF deskVars
  <2>2. \A t \in Server, d \in Customer : (engineer'[t][d] = "wait") <=> Waits(t, d)
    BY <1>0 DEF DeskInv, DeskType, deskVars
  <2>3. \A t \in Server, d \in Customer : Waits(t, d) => next'[d] = next[d]
    BY <1>0 DEF DeskInv, DeskType, customerVars
  <2>4. \A t \in Server : scout'[t] \in {"awake", "asleep"} => scout[t] \in {"awake", "asleep"}
    BY DEF DeskInv, DeskType, deskVars
  <2> HIDE <1>4 DEF PlaceOrder, HasOrder, EngineerMoves, Goto
  <2> QED
    BY <2>1, <2>2, <2>3, <2>4, PromiseFrame
<1>5. ASSUME NEW c \in Customer, ReadLaptop(c) PROVE PromiseInv'
  <2> USE <1>5 DEF ReadLaptop, EngineerMoves, Tell, Goto
  <2>1. UNCHANGED <<erq, working>>
    BY DEF deskVars
  <2>2. \A t \in Server, d \in Customer : (engineer'[t][d] = "wait") <=> Waits(t, d)
    BY <1>0 DEF DeskInv, DeskType, deskVars
  <2>3. \A t \in Server, d \in Customer : Waits(t, d) => next'[d] = next[d]
    BY <1>0 DEF DeskInv, DeskType, customerVars
  <2>4. \A t \in Server : scout'[t] \in {"awake", "asleep"} => scout[t] \in {"awake", "asleep"}
    BY DEF DeskInv, DeskType, deskVars
  <2> HIDE <1>5 DEF ReadLaptop, EngineerMoves, Tell, Goto
  <2> QED
    BY <2>1, <2>2, <2>3, <2>4, PromiseFrame
<1>6. ASSUME NEW c \in Customer, LoseOrder(c) PROVE PromiseInv'
  <2> USE <1>6 DEF LoseOrder, HasOrder, Tell, Goto
  <2>1. UNCHANGED <<erq, working>>
    BY DEF deskVars
  <2>2. \A t \in Server, d \in Customer : (engineer'[t][d] = "wait") <=> Waits(t, d)
    BY <1>0 DEF DeskInv, DeskType, deskVars
  <2>3. \A t \in Server, d \in Customer : Waits(t, d) => next'[d] = next[d]
    BY <1>0 DEF DeskInv, DeskType, customerVars
  <2>4. \A t \in Server : scout'[t] \in {"awake", "asleep"} => scout[t] \in {"awake", "asleep"}
    BY DEF DeskInv, DeskType, deskVars
  <2> HIDE <1>6 DEF LoseOrder, HasOrder, Tell, Goto
  <2> QED
    BY <2>1, <2>2, <2>3, <2>4, PromiseFrame
<1>7. ASSUME NEW c \in Customer, Leave(c) PROVE PromiseInv'
  <2> USE <1>7 DEF Leave, HasOrder, Goto
  <2>1. UNCHANGED <<erq, working>>
    BY DEF deskVars
  <2>2. \A t \in Server, d \in Customer : (engineer'[t][d] = "wait") <=> Waits(t, d)
    BY <1>0 DEF DeskInv, DeskType, deskVars
  <2>3. \A t \in Server, d \in Customer : Waits(t, d) => next'[d] = next[d]
    BY <1>0 DEF DeskInv, DeskType, customerVars
  <2>4. \A t \in Server : scout'[t] \in {"awake", "asleep"} => scout[t] \in {"awake", "asleep"}
    BY DEF DeskInv, DeskType, deskVars
  <2> HIDE <1>7 DEF Leave, HasOrder, Goto
  <2> QED
    BY <2>1, <2>2, <2>3, <2>4, PromiseFrame
<1>8. ASSUME NEW c \in Customer, NEW s \in Server, TryServer(c, s) PROVE PromiseInv'
  <2> USE <1>8 DEF TryServer, Connect, MayConnect, Goto
  <2>1. UNCHANGED <<erq, working>>
    BY DEF deskVars
  <2>2. \A t \in Server, d \in Customer : (engineer'[t][d] = "wait") <=> Waits(t, d)
    <3>1. \A t \in Server : ~Waits(t, c)
      BY <1>0
    <3>2. engineer' \in {engineer, [engineer EXCEPT ![s][c] = "greet"]}
      OBVIOUS
    <3>3. engineer \in [Server -> [Customer -> EngineerLabel]]
      BY DEF DeskInv, DeskType
    <3> QED
      BY ONLY <3>1, <3>2, <3>3
  <2>3. \A t \in Server, d \in Customer : Waits(t, d) => next'[d] = next[d]
    BY <1>0 DEF DeskInv, DeskType, customerVars
  <2>4. \A t \in Server : scout'[t] \in {"awake", "asleep"} => scout[t] \in {"awake", "asleep"}
    BY DEF DeskInv, DeskType, deskVars
  <2> HIDE <1>8 DEF TryServer, Connect, MayConnect, Goto
  <2> QED
    BY <2>1, <2>2, <2>3, <2>4, PromiseFrame
<1>9. ASSUME NEW s \in Server, NEW c \in Customer, alive[s], Greet(s, c) PROVE PromiseInv'
  <2> USE <1>9 DEF Greet, EngineerMoves
  <2>1. UNCHANGED <<erq, working>>
    BY DEF deskVars
  <2>2. \A t \in Server, d \in Customer : (engineer'[t][d] = "wait") <=> Waits(t, d)
    BY <1>0 DEF DeskInv, DeskType, deskVars
  <2>3. \A t \in Server, d \in Customer : Waits(t, d) => next'[d] = next[d]
    BY <1>0 DEF DeskInv, DeskType, customerVars
  <2>4. \A t \in Server : scout'[t] \in {"awake", "asleep"} => scout[t] \in {"awake", "asleep"}
    BY DEF DeskInv, DeskType, deskVars
  <2> HIDE <1>9 DEF Greet, EngineerMoves
  <2> QED
    BY <2>1, <2>2, <2>3, <2>4, PromiseFrame
<1>10. ASSUME NEW s \in Server, NEW c \in Customer, alive[s], SendLaptop(s, c) PROVE PromiseInv'
  <2> USE <1>10 DEF SendLaptop, EngineerMoves
  <2>1. UNCHANGED <<erq, working>>
    BY DEF deskVars
  <2>2. \A t \in Server, d \in Customer : (engineer'[t][d] = "wait") <=> Waits(t, d)
    BY <1>0 DEF DeskInv, DeskType, deskVars
  <2>3. \A t \in Server, d \in Customer : Waits(t, d) => next'[d] = next[d]
    BY <1>0 DEF DeskInv, DeskType, customerVars
  <2>4. \A t \in Server : scout'[t] \in {"awake", "asleep"} => scout[t] \in {"awake", "asleep"}
    BY DEF DeskInv, DeskType, deskVars
  <2> HIDE <1>10 DEF SendLaptop, EngineerMoves
  <2> QED
    BY <2>1, <2>2, <2>3, <2>4, PromiseFrame
<1>11. ASSUME NEW s \in Server, NEW c \in Customer, alive[s], HangUp(s, c) PROVE PromiseInv'
  <2> USE <1>11 DEF HangUp
  <2>1. UNCHANGED <<erq, working>>
    BY DEF deskVars
  <2>2. \A t \in Server, d \in Customer : (engineer'[t][d] = "wait") <=> Waits(t, d)
    BY <1>0 DEF DeskInv, DeskType, deskVars
  <2>3. \A t \in Server, d \in Customer : Waits(t, d) => next'[d] = next[d]
    BY <1>0 DEF DeskInv, DeskType, customerVars
  <2>4. \A t \in Server : scout'[t] \in {"awake", "asleep"} => scout[t] \in {"awake", "asleep"}
    BY DEF DeskInv, DeskType, deskVars
  <2> HIDE <1>11 DEF HangUp
  <2> QED
    BY <2>1, <2>2, <2>3, <2>4, PromiseFrame
<1>12. ASSUME NEW s \in Server, alive[s], Sleep(s) PROVE PromiseInv'
  <2> USE <1>12 DEF Sleep
  <2>1. UNCHANGED <<erq, working>>
    BY DEF deskVars
  <2>2. \A t \in Server, d \in Customer : (engineer'[t][d] = "wait") <=> Waits(t, d)
    BY <1>0 DEF DeskInv, DeskType, deskVars
  <2>3. \A t \in Server, d \in Customer : Waits(t, d) => next'[d] = next[d]
    BY <1>0 DEF DeskInv, DeskType, customerVars
  <2>4. \A t \in Server : scout'[t] \in {"awake", "asleep"} => scout[t] \in {"awake", "asleep"}
    BY DEF DeskInv, DeskType, deskVars
  <2> HIDE <1>12 DEF Sleep
  <2> QED
    BY <2>1, <2>2, <2>3, <2>4, PromiseFrame
<1>13. ASSUME NEW s \in Server, NEW what \in {"ok", "unavailable"}, alive[s], Decide(s, what) PROVE PromiseInv'
  <2> USE <1>13 DEF Decide, Recorded
  <2>1. UNCHANGED <<erq, working>>
    BY DEF deskVars
  <2>2. \A t \in Server, d \in Customer : (engineer'[t][d] = "wait") <=> Waits(t, d)
    BY <1>0 DEF DeskInv, DeskType, deskVars
  <2>3. \A t \in Server, d \in Customer : Waits(t, d) => next'[d] = next[d]
    BY <1>0 DEF DeskInv, DeskType, customerVars
  <2>4. \A t \in Server : scout'[t] \in {"awake", "asleep"} => scout[t] \in {"awake", "asleep"}
    BY DEF DeskInv, DeskType, deskVars
  <2> HIDE <1>13 DEF Decide, Recorded
  <2> QED
    BY <2>1, <2>2, <2>3, <2>4, PromiseFrame
<1>14. ASSUME NEW s \in Server, NEW c \in Customer, Enqueue(s, c) PROVE PromiseInv'
  <2> DEFINE r == [customer |-> c, order |-> next[c]]
  <2>1. /\ engineer[s][c] = "queue"
        /\ engineer' = [engineer EXCEPT ![s][c] = "wait"]
        /\ erq' = [erq EXCEPT ![s] = Append(@, r)]
        /\ UNCHANGED <<working, next>>
    BY <1>14 DEF Enqueue, EngineerMoves, customerVars
  <2>2. r \in Request
    BY <2>1 DEF DeskInv, EngineerServes, AtWork, DeskType, Request, OrderNumber
  <2>3. /\ erq[s]' = Append(erq[s], r)
        /\ WaitsAt(s)' = WaitsAt(s) \cup {c}
        /\ c \notin WaitsAt(s)
        /\ \A t \in Server \ {s} : UNCHANGED <<erq[t], WaitsAt(t)>>
    BY <2>1 DEF WaitsAt, DeskInv, DeskType
  <2>4. erq[s] \in Seq(Request) /\ working[s] \in SUBSET Request
    BY DEF DeskInv, DeskType
  <2>5. PromisesAt(erq[s]', working[s]', WaitsAt(s)')
    <3>1. r.customer = c
      OBVIOUS
    <3>2. PromisesAt(erq[s], working[s], WaitsAt(s))
      BY PromisesSplit DEF PromiseInv
    <3> HIDE DEF r
    <3>3. PromisesAt(Append(erq[s], r), working[s], WaitsAt(s) \cup {c})
      BY <2>2, <2>3, <2>4, <3>1, <3>2, PromisesPush
    <3> QED
      BY <2>1, <2>3, <3>3
  <2>6. OnePromiseEach'
    BY <2>1, <2>3, <2>5, PromisesSplit, PromisesSplitNext DEF PromiseInv
  <2>7. Requests(s)' = Requests(s) \cup {r}
    <3> HIDE DEF r
    <3>1. {erq[s]'[i] : i \in DOMAIN erq[s]'} = {erq[s][i] : i \in DOMAIN erq[s]} \cup {r}
      <4>1. {Append(erq[s], r)[i] : i \in DOMAIN Append(erq[s], r)} =
              {erq[s][i] : i \in DOMAIN erq[s]} \cup {r}
        BY <2>4, AppendRange
      <4> QED
        BY <2>3, <4>1
    <3>2. Requests(s)' = {erq[s]'[i] : i \in DOMAIN erq[s]'} \cup working[s]
      BY <2>1 DEF Requests
    <3>3. Requests(s) = {erq[s][i] : i \in DOMAIN erq[s]} \cup working[s]
      BY DEF Requests
    <3> QED
      BY <3>1, <3>2, <3>3
  <2>8. \A t \in Server \ {s} : Requests(t)' = Requests(t)
    BY <2>1, <2>3 DEF Requests
  <2>9. RequestsCurrent'
    BY <2>1, <2>7, <2>8 DEF PromiseInv, RequestsCurrent
  <2>10. ScoutHolds'
    BY <1>14 DEF Enqueue, Notified, PromiseInv, ScoutHolds, DeskInv, DeskType
  <2> QED
    BY <2>6, <2>9, <2>10 DEF PromiseInv
<1>15. ASSUME NEW s \in Server, Take(s) PROVE PromiseInv'
  <2>1. /\ scout[s] = "awake" /\ erq[s] # <<>>
        /\ erq' = [erq EXCEPT ![s] = Tail(@)]
        /\ working' = [working EXCEPT ![s] = {Head(erq[s])}]
        /\ scout' = [scout EXCEPT ![s] = "busy"]
        /\ UNCHANGED <<engineer, next>>
    BY <1>15 DEF Take, Popped, customerVars
  <2>2. working[s] = {} /\ erq[s] \in Seq(Request)
    BY <2>1 DEF PromiseInv, ScoutHolds, DeskInv, DeskType
  <2>3. /\ erq[s]' = Tail(erq[s]) /\ working[s]' = {Head(erq[s])}
        /\ \A t \in Server \ {s} : UNCHANGED <<erq[t], working[t]>>
        /\ \A t \in Server : UNCHANGED WaitsAt(t)
    BY <2>1 DEF WaitsAt, DeskInv, DeskType
  <2>4. PromisesAt(erq[s]', working[s]', WaitsAt(s)')
    BY <2>1, <2>2, <2>3, PromisesSplit, PromisesPop DEF PromiseInv
  <2>5. OnePromiseEach'
    BY <2>3, <2>4, PromisesSplit, PromisesSplitNext DEF PromiseInv
  <2>6. \A t \in Server : Requests(t)' \subseteq Requests(t)
    <3>1. Requests(s)' \subseteq Requests(s)
      BY <2>1, <2>2, <2>3 DEF Requests
    <3> QED
      BY <2>3, <3>1 DEF Requests
  <2>7. RequestsCurrent'
    BY <2>1, <2>6 DEF PromiseInv, RequestsCurrent
  <2>8. ScoutHolds'
    BY <2>1, <2>3 DEF PromiseInv, ScoutHolds, DeskInv, DeskType
  <2> QED
    BY <2>5, <2>7, <2>8 DEF PromiseInv
<1>16. ASSUME NEW s \in Server, SetPromise(s) PROVE PromiseInv'
  <2>1. PICK r \in working[s] :
          /\ engineer' = [engineer EXCEPT ![s][r.customer] = "answered"]
          /\ scout' = [scout EXCEPT ![s] = "awake"]
          /\ working' = [working EXCEPT ![s] = {}]
          /\ UNCHANGED <<erq, next>>
    BY <1>16 DEF SetPromise, EngineerMoves, customerVars
  <2>2. working[s] = {r} /\ r.customer \in Customer
    BY <2>1 DEF PromiseInv, OnePromiseEach, DeskInv, DeskType, Request
  <2>3. /\ erq[s]' = erq[s] /\ working[s]' = {}
        /\ WaitsAt(s)' = WaitsAt(s) \ {r.customer}
        /\ \A t \in Server \ {s} : UNCHANGED <<erq[t], working[t], WaitsAt(t)>>
    BY <2>1, <2>2 DEF WaitsAt, DeskInv, DeskType
  <2>4. PromisesAt(erq[s]', working[s]', WaitsAt(s)')
    BY <2>2, <2>3, PromisesSplit, PromisesDone DEF PromiseInv
  <2>5. OnePromiseEach'
    BY <2>3, <2>4, PromisesSplit, PromisesSplitNext DEF PromiseInv
  <2>6. \A t \in Server : Requests(t)' \subseteq Requests(t)
    BY <2>1, <2>3 DEF Requests
  <2>7. RequestsCurrent'
    BY <2>1, <2>6 DEF PromiseInv, RequestsCurrent
  <2>8. ScoutHolds'
    BY <2>1, <2>3 DEF PromiseInv, ScoutHolds, DeskInv, DeskType
  <2> QED
    BY <2>5, <2>7, <2>8 DEF PromiseInv
<1>17. ASSUME NEW s \in Server, Crash(s) PROVE PromiseInv'
  <2>1. /\ erq' = [erq EXCEPT ![s] = <<>>]
        /\ working' = [working EXCEPT ![s] = {}]
        /\ scout' = [scout EXCEPT ![s] = "gone"]
        /\ engineer' = [engineer EXCEPT ![s] =
             [c \in Customer |-> IF @[c] \in {"greeted", "replied"} THEN @[c] ELSE "gone"]]
        /\ UNCHANGED next
    BY <1>17 DEF Crash, customerVars
  <2>2. /\ erq[s]' = <<>> /\ working[s]' = {} /\ WaitsAt(s)' = {}
        /\ \A t \in Server \ {s} : UNCHANGED <<erq[t], working[t], WaitsAt(t)>>
    BY <2>1 DEF WaitsAt, DeskInv, DeskType
  <2>3. PromisesAt(erq[s]', working[s]', WaitsAt(s)')
    BY <2>2 DEF PromisesAt
  <2>4. OnePromiseEach'
    BY <2>2, <2>3, PromisesSplit, PromisesSplitNext DEF PromiseInv
  <2>5. \A t \in Server : Requests(t)' \subseteq Requests(t)
    <3>1. Requests(s)' = {}
      BY <2>2 DEF Requests
    <3>2. \A t \in Server \ {s} : Requests(t)' = Requests(t)
      BY <2>2, Zenon DEF Requests
    <3> QED
      BY <3>1, <3>2
  <2>6. RequestsCurrent'
    BY <2>1, <2>5 DEF PromiseInv, RequestsCurrent
  <2>7. ScoutHolds'
    BY <2>1, <2>2 DEF PromiseInv, ScoutHolds, DeskInv, DeskType
  <2> QED
    BY <2>4, <2>6, <2>7 DEF PromiseInv
<1>18. ASSUME UNCHANGED <<alive, customerVars, deskVars>> PROVE PromiseInv'
  BY <1>18, PromiseFrame DEF customerVars, deskVars
<1> QED
  BY StepCases, ReaderFrame, <1>1, <1>2, <1>3, <1>4, <1>5, <1>6, <1>7, <1>8, <1>9, <1>10, <1>11, <1>12, <1>13, <1>14, <1>15, <1>16, <1>17, <1>18

LEMMA PromiseInvariant == Spec => [](DeskInv /\ PromiseInv)
<1>1. Init => PromiseInv
  BY DEF Init, PromiseInv, OnePromiseEach, RequestsCurrent, Requests, ScoutHolds
<1>2. TypeInv /\ PromiseInv /\ [Next]_vars => PromiseInv'
  BY PromiseStep DEF TypeInv
<1>3. TypeInv => DeskInv
  BY DEF TypeInv
<1> QED
  BY <1>1, <1>2, <1>3, TypeInvariant, PTL DEF Spec

(***************************************************************************)
(* No promise is forgotten and none is set twice, whoever crashes.         *)
(***************************************************************************)
THEOREM OnePromiseTheorem == Spec => []OnePromiseEach
BY PromiseInvariant, PTL DEF PromiseInv
-----------------------------------------------------------------------------
(***************************************************************************)
(* Records and answers.                                                    *)
(***************************************************************************)
Decided(s, c) ==
  engineer[s][c] = "wait" /\ scout[s] = "done" /\ \E r \in working[s] : r.customer = c

LEMMA AnswerFrame ==
  ASSUME AnswerInv, UNCHANGED <<told, by, next, customer_record, result>>,
         \A s \in Server, c \in Customer : Decided(s, c) => Decided(s, c)',
         \A s \in Server, c \in Customer :
           engineer[s][c] \in {"answered", "replied"} => engineer'[s][c] \in {"answered", "replied"}
  PROVE  AnswerInv'
<1>1. ToldBefore' /\ RecordBehind' /\ ToldByServer' /\ RecordShowsAnswers'
  BY DEF AnswerInv, ToldBefore, RecordBehind, ToldByServer, RecordShowsAnswers
<1>2. ResultRecorded'
  BY DEF AnswerInv, ResultRecorded, Decided
<1> QED
  BY <1>1, <1>2 DEF AnswerInv

(***************************************************************************)
(* A customer is told of its next order: with success only when its record *)
(* shows the order.                                                        *)
(***************************************************************************)
LEMMA ToldNext ==
  ASSUME DeskInv, AnswerInv, NEW c \in Customer, NEW what, Tell(c, what),
         conn[c] \in Server, next[c] \in OrderNumber, UNCHANGED customer_record,
         what = "ok" => customer_record[conn[c]][c] >= next[c]
  PROVE  ToldBefore' /\ RecordBehind' /\ ToldByServer' /\ RecordShowsAnswers'
<1> USE DEF AnswerInv
<1> DEFINE n == next[c]
<1>1. /\ told'[c][n] = what /\ by'[c][n] = conn[c]
      /\ \A d \in Customer, i \in OrderNumber :
           d # c \/ i # n => told'[d][i] = told[d][i] /\ by'[d][i] = by[d][i]
  BY DEF Tell, DeskInv, DeskType
<1>2. next'[c] = n + 1 /\ \A d \in Customer : d # c => next'[d] = next[d]
  BY DEF Tell, DeskInv, DeskType
<1>3. \A d \in Customer : next[d] \in Nat
  BY DEF DeskInv, DeskType
<1>4. \A t \in Server, d \in Customer : customer_record[t][d] \in Int
  BY DEF DeskInv, DeskType, OrderNumber
<1>5. OrderNumber \subseteq Int
  BY DEF OrderNumber
<1>6. ToldBefore'
  <2> SUFFICES ASSUME NEW d \in Customer, NEW i \in OrderNumber, told'[d][i] # "none"
               PROVE  i < next'[d]
    BY DEF ToldBefore
  <2>1. CASE d = c /\ i = n
    BY <2>1, <1>2, <1>3
  <2>2. CASE ~(d = c /\ i = n)
    BY <2>2, <1>1, <1>2, <1>3, <1>5 DEF ToldBefore
  <2> QED
    BY <2>1, <2>2
<1>7. RecordBehind'
  BY <1>2, <1>3, <1>4 DEF RecordBehind
<1>8. ToldByServer'
  BY <1>1 DEF ToldByServer
<1>9. RecordShowsAnswers'
  BY <1>1 DEF RecordShowsAnswers
<1> QED
  BY <1>6, <1>7, <1>8, <1>9

LEMMA AnswerStep ==
  ASSUME DeskInv, PromiseInv, AnswerInv, [Next]_vars
  PROVE  AnswerInv'
<1>0. \A s \in Server, c \in Customer :
        engineer[s][c] \in AtWork => conn[c] = s /\ pc[c] \in {"wait", "aborted"}
  BY DEF DeskInv, EngineerServes
<1>a. engineer \in [Server -> [Customer -> EngineerLabel]] /\ scout \in [Server -> ScoutLabel]
  BY DEF DeskInv, DeskType
<1>1. ASSUME NEW c \in Customer, ConnectHome(c) PROVE AnswerInv'
  <2> USE <1>1 DEF ConnectHome, Connect, MayConnect, Goto
  <2>1. UNCHANGED <<told, by, next, customer_record, result>>
    BY DEF customerVars, deskVars
  <2>2. \A t \in Server, d \in Customer :
          /\ Decided(t, d) => Decided(t, d)'
          /\ engineer[t][d] \in {"answered", "replied"} =>
               engineer'[t][d] \in {"answered", "replied"}
    <3>1. \A t \in Server : engineer[t][c] \notin AtWork
      BY <1>0
    <3>2. engineer' \in {engineer, [engineer EXCEPT ![Home][c] = "greet"]}
      OBVIOUS
    <3>3. \A t \in Server, d \in Customer :
            engineer[t][d] \in {"wait", "answered", "replied"} => engineer'[t][d] = engineer[t][d]
      BY ONLY <1>a, <3>1, <3>2 DEF AtWork
    <3>4. UNCHANGED <<scout, working>>
      BY DEF deskVars
    <3> QED
      BY <3>3, <3>4 DEF Decided
  <2> HIDE <1>1 DEF ConnectHome, Connect, MayConnect, Goto
  <2> QED
    BY <2>1, <2>2, AnswerFrame
<1>2. ASSUME NEW c \in Customer, ReadConfig(c) PROVE AnswerInv'
  <2> USE <1>2 DEF ReadConfig, EngineerMoves, Goto
  <2>1. UNCHANGED <<told, by, next, customer_record, result>>
    BY DEF customerVars, deskVars
  <2>2. \A t \in Server, d \in Customer :
          /\ Decided(t, d) => Decided(t, d)'
          /\ engineer[t][d] \in {"answered", "replied"} =>
               engineer'[t][d] \in {"answered", "replied"}
    BY <1>a DEF Decided, customerVars, deskVars, PromiseInv, ScoutHolds
  <2> HIDE <1>2 DEF ReadConfig, EngineerMoves, Goto
  <2> QED
    BY <2>1, <2>2, AnswerFrame
<1>3. ASSUME NEW c \in Customer, ConfigLost(c) PROVE AnswerInv'
  <2> USE <1>3 DEF ConfigLost, Goto
  <2>1. UNCHANGED <<told, by, next, customer_record, result>>
    BY DEF customerVars, deskVars
  <2>2. \A t \in Server, d \in Customer :
          /\ Decided(t, d) => Decided(t, d)'
          /\ engineer[t][d] \in {"answered", "replied"} =>
               engineer'[t][d] \in {"answered", "replied"}
    BY <1>a DEF Decided, customerVars, deskVars, PromiseInv, ScoutHolds
  <2> HIDE <1>3 DEF ConfigLost, Goto
  <2> QED
    BY <2>1, <2>2, AnswerFrame
<1>4. ASSUME NEW c \in Customer, PlaceOrder(c) PROVE AnswerInv'
  <2> USE <1>4 DEF PlaceOrder, HasOrder, EngineerMoves, Goto
  <2>1. UNCHANGED <<told, by, next, customer_record, result>>
    BY DEF customerVars, deskVars
  <2>2. \A t \in Server, d \in Customer :
          /\ Decided(t, d) => Decided(t, d)'
          /\ engineer[t][d] \in {"answered", "replied"} =>
               engineer'[t][d] \in {"answered", "replied"}
    BY <1>a DEF Decided, customerVars, deskVars, PromiseInv, ScoutHolds
  <2> HIDE <1>4 DEF PlaceOrder, HasOrder, EngineerMoves, Goto
  <2> QED
    BY <2>1, <2>2, AnswerFrame
<1>5. ASSUME NEW c \in Customer, Leave(c) PROVE AnswerInv'
  <2> USE <1>5 DEF Leave, HasOrder, Goto
  <2>1. UNCHANGED <<told, by, next, customer_record, result>>
    BY DEF customerVars, deskVars
  <2>2. \A t \in Server, d \in Customer :
          /\ Decided(t, d) => Decided(t, d)'
          /\ engineer[t][d] \in {"answered", "replied"} =>
               engineer'[t][d] \in {"answered", "replied"}
    BY <1>a DEF Decided, customerVars, deskVars, PromiseInv, ScoutHolds
  <2> HIDE <1>5 DEF Leave, HasOrder, Goto
  <2> QED
    BY <2>1, <2>2, AnswerFrame
<1>6. ASSUME NEW c \in Customer, NEW s \in Server, TryServer(c, s) PROVE AnswerInv'
  <2> USE <1>6 DEF TryServer, Connect, MayConnect, Goto
  <2>1. UNCHANGED <<told, by, next, customer_record, result>>
    BY DEF customerVars, deskVars
  <2>2. \A t \in Server, d \in Customer :
          /\ Decided(t, d) => Decided(t, d)'
          /\ engineer[t][d] \in {"answered", "replied"} =>
               engineer'[t][d] \in {"answered", "replied"}
    <3>1. \A t \in Server : engineer[t][c] \notin AtWork
      BY <1>0
    <3>2. engineer' \in {engineer, [engineer EXCEPT ![s][c] = "greet"]}
      OBVIOUS
    <3>3. \A t \in Server, d \in Customer :
            engineer[t][d] \in {"wait", "answered", "replied"} => engineer'[t][d] = engineer[t][d]
      BY ONLY <1>a, <3>1, <3>2 DEF AtWork
    <3>4. UNCHANGED <<scout, working>>
      BY DEF deskVars
    <3> QED
      BY <3>3, <3>4 DEF Decided
  <2> HIDE <1>6 DEF TryServer, Connect, MayConnect, Goto
  <2> QED
    BY <2>1, <2>2, AnswerFrame
<1>7. ASSUME NEW s \in Server, NEW c \in Customer, alive[s], Greet(s, c) PROVE AnswerInv'
  <2> USE <1>7 DEF Greet, EngineerMoves
  <2>1. UNCHANGED <<told, by, next, customer_record, result>>
    BY DEF customerVars, deskVars
  <2>2. \A t \in Server, d \in Customer :
          /\ Decided(t, d) => Decided(t, d)'
          /\ engineer[t][d] \in {"answered", "replied"} =>
               engineer'[t][d] \in {"answered", "replied"}
    BY <1>a DEF Decided, customerVars, deskVars, PromiseInv, ScoutHolds
  <2> HIDE <1>7 DEF Greet, EngineerMoves
  <2> QED
    BY <2>1, <2>2, AnswerFrame
<1>8. ASSUME NEW s \in Server, NEW c \in Customer, alive[s], Enqueue(s, c) PROVE AnswerInv'
  <2> USE <1>8 DEF Enqueue, EngineerMoves, Notified
  <2>1. UNCHANGED <<told, by, next, customer_record, result>>
    BY DEF customerVars, deskVars
  <2>2. \A t \in Server, d \in Customer :
          /\ Decided(t, d) => Decided(t, d)'
          /\ engineer[t][d] \in {"answered", "replied"} =>
               engineer'[t][d] \in {"answered", "replied"}
    BY <1>a DEF Decided, customerVars, deskVars, PromiseInv, ScoutHolds
  <2> HIDE <1>8 DEF Enqueue, EngineerMoves, Notified
  <2> QED
    BY <2>1, <2>2, AnswerFrame
<1>9. ASSUME NEW s \in Server, NEW c \in Customer, alive[s], SendLaptop(s, c) PROVE AnswerInv'
  <2> USE <1>9 DEF SendLaptop, EngineerMoves
  <2>1. UNCHANGED <<told, by, next, customer_record, result>>
    BY DEF customerVars, deskVars
  <2>2. \A t \in Server, d \in Customer :
          /\ Decided(t, d) => Decided(t, d)'
          /\ engineer[t][d] \in {"answered", "replied"} =>
               engineer'[t][d] \in {"answered", "replied"}
    BY <1>a DEF Decided, customerVars, deskVars, PromiseInv, ScoutHolds
  <2> HIDE <1>9 DEF SendLaptop, EngineerMoves
  <2> QED
    BY <2>1, <2>2, AnswerFrame
<1>10. ASSUME NEW s \in Server, alive[s], Sleep(s) PROVE AnswerInv'
  <2> USE <1>10 DEF Sleep
  <2>1. UNCHANGED <<told, by, next, customer_record, result>>
    BY DEF customerVars, deskVars
  <2>2. \A t \in Server, d \in Customer :
          /\ Decided(t, d) => Decided(t, d)'
          /\ engineer[t][d] \in {"answered", "replied"} =>
               engineer'[t][d] \in {"answered", "replied"}
    BY <1>a DEF Decided, customerVars, deskVars, PromiseInv, ScoutHolds
  <2> HIDE <1>10 DEF Sleep
  <2> QED
    BY <2>1, <2>2, AnswerFrame
<1>11. ASSUME NEW s \in Server, alive[s], Take(s) PROVE AnswerInv'
  <2> USE <1>11 DEF Take
  <2>1. UNCHANGED <<told, by, next, customer_record, result>>
    BY DEF customerVars, deskVars
  <2>2. \A t \in Server, d \in Customer :
          /\ Decided(t, d) => Decided(t, d)'
          /\ engineer[t][d] \in {"answered", "replied"} =>
               engineer'[t][d] \in {"answered", "replied"}
    BY <1>a DEF Decided, customerVars, deskVars, PromiseInv, ScoutHolds
  <2> HIDE <1>11 DEF Take
  <2> QED
    BY <2>1, <2>2, AnswerFrame
<1>b. \A s \in Server, c \in Customer : result[s][c] = "ok" => engineer[s][c] \in AtWork
  BY DEF AnswerInv, ResultRecorded, AtWork
<1>12. ASSUME NEW c \in Customer, ReadLaptop(c) PROVE AnswerInv'
  <2> DEFINE s == conn[c]
  <2>1. /\ engineer[s][c] = "replied"
        /\ engineer' = [engineer EXCEPT ![s][c] = "ready"]
        /\ result' = [result EXCEPT ![s][c] = "none"]
        /\ Tell(c, result[s][c])
        /\ UNCHANGED <<scout, working, customer_record>>
    BY <1>12 DEF ReadLaptop, EngineerMoves
  <2>2. s \in Server /\ next[c] \in OrderNumber
    BY <1>12 DEF ReadLaptop, DeskInv, DeskType, Connected, OrderNumber
  <2>3. result[s][c] = "ok" => customer_record[s][c] >= next[c]
    BY <2>1, <2>2 DEF AnswerInv, ResultRecorded, OrderNumber
  <2>4. ToldBefore' /\ RecordBehind' /\ ToldByServer' /\ RecordShowsAnswers'
    BY <2>1, <2>2, <2>3, ToldNext
  <2>5. ResultRecorded'
    <3>1. /\ result'[s][c] = "none"
          /\ \A t \in Server, d \in Customer :
               t # s \/ d # c => result'[t][d] = result[t][d] /\ engineer'[t][d] = engineer[t][d]
      BY <2>1, <2>2, <1>a DEF DeskInv, DeskType
    <3>2. \A t \in Server : t # s => result[t][c] # "ok"
      BY <1>0, <1>b
    <3>3. \A d \in Customer : d # c => next'[d] = next[d]
      BY <2>1 DEF Tell, DeskInv, DeskType
    <3> HIDE DEF s
    <3> QED
      BY <2>1, <3>1, <3>2, <3>3 DEF AnswerInv, ResultRecorded
  <2> QED
    BY <2>4, <2>5 DEF AnswerInv
<1>13. ASSUME NEW c \in Customer, LoseOrder(c) PROVE AnswerInv'
  <2>1. /\ Tell(c, "lost") /\ UNCHANGED <<engineer, result, scout, working, customer_record>>
        /\ ~alive[conn[c]] /\ engineer[conn[c]][c] # "replied"
    BY <1>13 DEF LoseOrder, deskVars
  <2>2. conn[c] \in Server /\ next[c] \in OrderNumber
    BY <1>13 DEF LoseOrder, HasOrder, DeskInv, DeskType, Connected, OrderNumber
  <2>3. ToldBefore' /\ RecordBehind' /\ ToldByServer' /\ RecordShowsAnswers'
    BY <2>1, <2>2, ToldNext
  <2>4. \A t \in Server : result[t][c] # "ok"
    BY <1>0, <1>b, <2>1, <2>2 DEF DeskInv, DeadIsStill, AtWork
  <2>5. \A d \in Customer : d # c => next'[d] = next[d]
    BY <2>1 DEF Tell, DeskInv, DeskType
  <2>6. ResultRecorded'
    BY <2>1, <2>4, <2>5 DEF AnswerInv, ResultRecorded
  <2> QED
    BY <2>3, <2>6 DEF AnswerInv
<1>14. ASSUME NEW s \in Server, NEW c \in Customer, HangUp(s, c) PROVE AnswerInv'
  <2>1. /\ engineer' = [engineer EXCEPT ![s][c] = "gone"]
        /\ result' = [result EXCEPT ![s][c] = "none"]
        /\ UNCHANGED <<told, by, next, scout, working, customer_record>>
    BY <1>14 DEF HangUp, customerVars
  <2>2. /\ result'[s][c] = "none"
        /\ \A t \in Server, d \in Customer :
             t # s \/ d # c => result'[t][d] = result[t][d] /\ engineer'[t][d] = engineer[t][d]
    BY <2>1, <1>a DEF DeskInv, DeskType
  <2>3. ResultRecorded'
    BY <2>1, <2>2 DEF AnswerInv, ResultRecorded
  <2> QED
    BY <2>1, <2>3 DEF AnswerInv, ToldBefore, RecordBehind, ToldByServer, RecordShowsAnswers
<1>15. ASSUME NEW s \in Server, NEW what \in {"ok", "unavailable"}, Decide(s, what)
       PROVE  AnswerInv'
  <2>1. PICK r \in working[s] :
          /\ scout[s] = "busy"
          /\ scout' = [scout EXCEPT ![s] = "done"]
          /\ result' = [result EXCEPT ![s][r.customer] = what]
          /\ customer_record' = IF what = "ok"
                               THEN [customer_record EXCEPT ![s][r.customer] = r.order]
                               ELSE customer_record
          /\ UNCHANGED <<told, by, next, engineer, working>>
    BY <1>15 DEF Decide, Recorded, customerVars
  <2> DEFINE c == r.customer
  <2>2. c \in Customer /\ engineer[s][c] = "wait" /\ r.order = next[c]
    BY RequestWaits DEF Requests, PromiseInv, RequestsCurrent
  <2> HIDE DEF c
  <2>3. /\ result'[s][c] = what /\ (what = "ok" => customer_record'[s][c] = next[c])
        /\ \A t \in Server, d \in Customer :
             t # s \/ d # c => /\ result'[t][d] = result[t][d]
                              /\ customer_record'[t][d] = customer_record[t][d]
    BY <2>1, <2>2 DEF DeskInv, DeskType, c
  <2>4. \A t \in Server, d \in Customer :
          customer_record[t][d] \in Int /\ customer_record'[t][d] \in Int
    <3>1. DeskInv'
      BY DeskStep
    <3> QED
      BY <3>1, SMTT(30) DEF DeskInv, DeskType, OrderNumber
  <2>5. \A d \in Customer : next[d] \in Nat /\ next'[d] = next[d]
    BY <2>1 DEF DeskInv, DeskType
  <2>6. customer_record'[s][c] \in {next[c], customer_record[s][c]}
    BY <2>1, <2>2 DEF DeskInv, DeskType, c
  <2>7. \A t \in Server, d \in Customer :
          customer_record[t][d] <= customer_record'[t][d] /\ customer_record'[t][d] <= next[d]
    BY <2>2, <2>3, <2>4, <2>5, <2>6 DEF AnswerInv, RecordBehind
  <2>8. RecordBehind'
    BY <2>5, <2>7 DEF RecordBehind
  <2>9. ToldBefore' /\ ToldByServer'
    BY <2>1 DEF AnswerInv, ToldBefore, ToldByServer
  <2>10. RecordShowsAnswers'
    <3> SUFFICES ASSUME NEW d \in Customer, NEW i \in OrderNumber, told[d][i] = "ok"
                 PROVE  customer_record'[by[d][i]][d] >= i
      BY <2>1 DEF RecordShowsAnswers
    <3>1. by[d][i] \in Server /\ customer_record[by[d][i]][d] >= i
      BY DEF AnswerInv, ToldByServer, RecordShowsAnswers
    <3>2. i \in Int
      BY DEF OrderNumber
    <3>3. /\ customer_record[by[d][i]][d] <= customer_record'[by[d][i]][d]
          /\ customer_record[by[d][i]][d] \in Int /\ customer_record'[by[d][i]][d] \in Int
      BY <3>1, <2>4, <2>7
    <3> QED
      BY <3>1, <3>2, <3>3
  <2>11. ResultRecorded'
    <3> SUFFICES ASSUME NEW t \in Server, NEW d \in Customer, result'[t][d] = "ok"
                 PROVE  \/ /\ engineer'[t][d] = "wait" /\ scout'[t] = "done"
                           /\ customer_record'[t][d] = next'[d]
                           /\ \E q \in working'[t] : q.customer = d
                        \/ /\ engineer'[t][d] \in {"answered", "replied"}
                           /\ customer_record'[t][d] = next'[d]
      BY DEF ResultRecorded
    <3>1. CASE t = s /\ d = c
      BY <3>1, <2>1, <2>2, <2>3, <2>5, <1>a DEF c
    <3>2. CASE t = s /\ d # c
      BY <3>2, <2>1, <2>3, <2>5 DEF AnswerInv, ResultRecorded
    <3>3. CASE t # s
      BY <3>3, <2>1, <2>3, <2>5, <1>a DEF AnswerInv, ResultRecorded
    <3> QED
      BY <3>1, <3>2, <3>3
  <2> QED
    BY <2>8, <2>9, <2>10, <2>11 DEF AnswerInv
<1>16. ASSUME NEW s \in Server, SetPromise(s) PROVE AnswerInv'
  <2>1. PICK r \in working[s] :
          /\ engineer' = [engineer EXCEPT ![s][r.customer] = "answered"]
          /\ scout' = [scout EXCEPT ![s] = "awake"]
          /\ working' = [working EXCEPT ![s] = {}]
          /\ UNCHANGED <<told, by, next, result, customer_record>>
    BY <1>16 DEF SetPromise, EngineerMoves, customerVars
  <2>2. /\ r.customer \in Customer /\ engineer[s][r.customer] = "wait"
        /\ \A q \in working[s] : q = r
    BY RequestWaits DEF Requests, PromiseInv, OnePromiseEach
  <2>3. ResultRecorded'
    BY <2>1, <2>2, <1>a DEF AnswerInv, ResultRecorded, DeskInv, DeskType
  <2> QED
    BY <2>1, <2>3 DEF AnswerInv, ToldBefore, RecordBehind, ToldByServer, RecordShowsAnswers
<1>17. ASSUME NEW s \in Server, Crash(s) PROVE AnswerInv'
  <2>1. /\ engineer' = [engineer EXCEPT ![s] =
             [c \in Customer |-> IF @[c] \in {"greeted", "replied"} THEN @[c] ELSE "gone"]]
        /\ result' = [result EXCEPT ![s] =
             [c \in Customer |-> IF engineer[s][c] = "replied" THEN @[c] ELSE "none"]]
        /\ scout' = [scout EXCEPT ![s] = "gone"]
        /\ working' = [working EXCEPT ![s] = {}]
        /\ UNCHANGED <<told, by, next, customer_record>>
    BY <1>17 DEF Crash, customerVars
  <2>2. \A d \in Customer :
          /\ result'[s][d] = "ok" => engineer[s][d] = "replied" /\ result[s][d] = "ok"
          /\ engineer[s][d] = "replied" => engineer'[s][d] = "replied"
    BY <2>1, <1>a DEF DeskInv, DeskType
  <2>3. \A t \in Server : t # s =>
          UNCHANGED <<result[t], engineer[t], scout[t], working[t]>>
    BY <2>1, <1>a DEF DeskInv, DeskType
  <2>4. ResultRecorded'
    BY <2>1, <2>2, <2>3 DEF AnswerInv, ResultRecorded
  <2> QED
    BY <2>1, <2>4 DEF AnswerInv, ToldBefore, RecordBehind, ToldByServer, RecordShowsAnswers
<1>18. ASSUME UNCHANGED <<alive, customerVars, deskVars>> PROVE AnswerInv'
  BY <1>18, AnswerFrame DEF customerVars, deskVars, Decided
<1> QED
  BY StepCases, ReaderFrame, <1>1, <1>2, <1>3, <1>4, <1>5, <1>6, <1>7, <1>8, <1>9, <1>10, <1>11, <1>12, <1>13, <1>14, <1>15, <1>16, <1>17, <1>18

LEMMA AnswerInvariant == Spec => [](DeskInv /\ PromiseInv /\ AnswerInv)
<1>1. Init => AnswerInv
  BY DEF Init, AnswerInv, ToldBefore, RecordBehind, ResultRecorded, ToldByServer,
         RecordShowsAnswers, OrderNumber
<1>2. DeskInv /\ PromiseInv /\ AnswerInv /\ [Next]_vars => AnswerInv'
  BY AnswerStep
<1> QED
  BY <1>1, <1>2, PromiseInvariant, PTL DEF Spec

(***************************************************************************)
(* A record shows every order that its customer was told is done.          *)
(***************************************************************************)
THEOREM RecordTheorem == Spec => []RecordShowsAnswers
BY AnswerInvariant, PTL DEF AnswerInv
-----------------------------------------------------------------------------
(***************************************************************************)
(* The reader.  Records grow, and so does the number of the next order.    *)
(***************************************************************************)
LEMMA RecordGrows ==
  ASSUME DeskInv, PromiseInv, AnswerInv, [Next]_vars
  PROVE  \A s \in Server, c \in Customer :
           customer_record[s][c] <= customer_record'[s][c] /\ next[c] <= next'[c]
<1>1. \A c \in Customer, s \in Server :
        next[c] \in Int /\ next'[c] \in Int
        /\ customer_record[s][c] \in Int /\ customer_record'[s][c] \in Int
  <2>1. DeskInv'
    BY DeskStep
  <2> QED
    BY <2>1 DEF DeskInv, DeskType, OrderNumber
<1>2. CASE UNCHANGED <<customer_record, next>>
  BY <1>1, <1>2
<1>3. ASSUME NEW c \in Customer, NEW what, Tell(c, what), UNCHANGED customer_record
      PROVE  \A s \in Server, d \in Customer :
               customer_record[s][d] <= customer_record'[s][d] /\ next[d] <= next'[d]
  <2>1. next' = [next EXCEPT ![c] = @ + 1]
    BY <1>3 DEF Tell
  <2> QED
    BY <1>1, <1>3, <2>1 DEF DeskInv, DeskType
<1>4. ASSUME NEW s \in Server, NEW what \in {"ok", "unavailable"}, Decide(s, what)
      PROVE  \A t \in Server, d \in Customer :
               customer_record[t][d] <= customer_record'[t][d] /\ next[d] <= next'[d]
  <2>1. PICK r \in working[s] :
          /\ customer_record' \in {customer_record,
                                  [customer_record EXCEPT ![s][r.customer] = r.order]}
          /\ UNCHANGED next
    BY <1>4 DEF Decide, Recorded, customerVars
  <2>2. r.customer \in Customer /\ r.order = next[r.customer]
    BY RequestWaits DEF Requests, PromiseInv, RequestsCurrent
  <2>3. customer_record[s][r.customer] <= r.order
    BY <2>2 DEF AnswerInv, RecordBehind
  <2>4. \A t \in Server, d \in Customer :
          \/ customer_record'[t][d] = customer_record[t][d]
          \/ t = s /\ d = r.customer /\ customer_record'[t][d] = r.order
    BY <2>1, <2>2 DEF DeskInv, DeskType
  <2> QED
    BY <1>1, <2>1, <2>2, <2>3, <2>4
<1>5. ASSUME NEW c \in Customer,
             \/ ConnectHome(c) \/ ReadConfig(c) \/ ConfigLost(c) \/ PlaceOrder(c) \/ Leave(c)
             \/ \E s \in Server : TryServer(c, s)
      PROVE  UNCHANGED <<customer_record, next>>
  BY <1>5, Zenon DEF ConnectHome, ReadConfig, ConfigLost, PlaceOrder, Leave, TryServer, deskVars
<1>6. ASSUME NEW s \in Server, NEW c \in Customer,
             Greet(s, c) \/ Enqueue(s, c) \/ SendLaptop(s, c) \/ HangUp(s, c)
      PROVE  UNCHANGED <<customer_record, next>>
  BY <1>6, Zenon DEF Greet, Enqueue, SendLaptop, HangUp, customerVars
<1>7. ASSUME NEW s \in Server, Sleep(s) \/ Take(s) \/ SetPromise(s) \/ Crash(s)
      PROVE  UNCHANGED <<customer_record, next>>
  BY <1>7, Zenon DEF Sleep, Take, SetPromise, Crash, customerVars
<1>8. ASSUME NEW c \in Customer, ReadLaptop(c) \/ LoseOrder(c)
      PROVE  (\E what : Tell(c, what)) /\ UNCHANGED customer_record
  BY <1>8, Zenon DEF ReadLaptop, LoseOrder, deskVars
<1>9. UNCHANGED <<alive, customerVars, deskVars>> => UNCHANGED <<customer_record, next>>
  BY Zenon DEF customerVars, deskVars
<1> QED
  BY <1>2, <1>3, <1>4, <1>5, <1>6, <1>7, <1>8, <1>9, StepCases, ReaderFrame

(***************************************************************************)
(* A record is of an order that has been placed: the scout writes it while *)
(* the customer of the request waits, or was ended while it did.           *)
(***************************************************************************)
RecordPlaced == \A s \in Server, c \in Customer : customer_record[s][c] < Unplaced(c)

LEMMA UnplacedGrows ==
  ASSUME DeskInv, [Next]_vars
  PROVE  \A c \in Customer :
           /\ Unplaced(c) \in Int /\ Unplaced(c)' \in Int
           /\ Unplaced(c) <= Unplaced(c)'
<1>1. /\ next \in [Customer -> Int] /\ next' \in [Customer -> Int]
      /\ pc \in [Customer -> CustomerLabel]
  <2>1. DeskInv'
    BY DeskStep
  <2> QED
    BY <2>1 DEF DeskInv, DeskType
<1>2. ASSUME UNCHANGED <<pc, next>>
      PROVE  \A d \in Customer : Unplaced(d) <= Unplaced(d)'
  BY <1>1, <1>2 DEF Unplaced
<1>3. ASSUME NEW c \in Customer, NEW label, pc[c] # "aborted", pc[c] # "wait",
             Goto(c, label), UNCHANGED next
      PROVE  \A d \in Customer : Unplaced(d) <= Unplaced(d)'
  BY <1>1, <1>3 DEF Unplaced, Goto
<1>4. ASSUME NEW c \in Customer, ConnectHome(c) \/ \E s \in Server : TryServer(c, s)
      PROVE  \A d \in Customer : Unplaced(d) <= Unplaced(d)'
  <2>1. /\ pc[c] \in {"connect", "scan"} /\ UNCHANGED next
        /\ UNCHANGED pc \/ \E label : Goto(c, label)
    BY <1>4, Zenon DEF ConnectHome, TryServer, Connect
  <2> QED
    BY <1>2, <1>3, <2>1
<1>5. ASSUME NEW c \in Customer, ConfigLost(c)
      PROVE  \A d \in Customer : Unplaced(d) <= Unplaced(d)'
  <2>1. CASE pc' = [d \in Customer |-> "aborted"]
    BY <1>1, <1>5, <2>1 DEF ConfigLost, Unplaced
  <2>2. CASE Goto(c, "order")
    BY <1>3, <1>5, <2>2 DEF ConfigLost
  <2> QED
    BY <1>5, <2>1, <2>2 DEF ConfigLost
<1>6. ASSUME NEW c \in Customer, ReadConfig(c) \/ PlaceOrder(c) \/ Leave(c)
      PROVE  \A d \in Customer : Unplaced(d) <= Unplaced(d)'
  <2>1. /\ pc[c] \in {"config", "order", "scan"} /\ UNCHANGED next
        /\ \E label : Goto(c, label)
    BY <1>6, Zenon DEF ReadConfig, PlaceOrder, Leave
  <2> QED
    BY <1>3, <2>1
<1>7. ASSUME NEW c \in Customer, ReadLaptop(c) \/ LoseOrder(c)
      PROVE  \A d \in Customer : Unplaced(d) <= Unplaced(d)'
  <2>1. /\ next' = [next EXCEPT ![c] = @ + 1]
        /\ pc[c] \in {"order", "wait"} /\ \E label : Goto(c, label)
    BY <1>7 DEF ReadLaptop, LoseOrder, Tell
  <2>2. \A d \in Customer : d # c => pc'[d] = pc[d] /\ next'[d] = next[d]
    BY <1>1, <2>1 DEF Goto
  <2>3. next'[c] = next[c] + 1
    BY <1>1, <2>1
  <2> QED
    BY <1>1, <2>2, <2>3 DEF Unplaced
<1>8. ASSUME NEW s \in Server, NEW c \in Customer,
             Greet(s, c) \/ Enqueue(s, c) \/ SendLaptop(s, c) \/ HangUp(s, c)
      PROVE  UNCHANGED <<pc, next>>
  BY <1>8, Zenon DEF Greet, Enqueue, SendLaptop, HangUp, customerVars
<1>9. ASSUME NEW s \in Server,
             \/ Sleep(s) \/ Take(s) \/ SetPromise(s) \/ Crash(s)
             \/ \E what \in {"ok", "unavailable"} : Decide(s, what)
      PROVE  UNCHANGED <<pc, next>>
  BY <1>9, Zenon DEF Sleep, Take, SetPromise, Crash, Decide, customerVars
<1>10. UNCHANGED <<alive, customerVars, deskVars>> => UNCHANGED <<pc, next>>
  BY Zenon DEF customerVars
<1>11. \A d \in Customer : Unplaced(d) <= Unplaced(d)'
  BY <1>2, <1>4, <1>5, <1>6, <1>7, <1>8, <1>9, <1>10, StepCases, ReaderFrame
<1> QED
  BY <1>1, <1>11 DEF Unplaced

LEMMA PlacedStep ==
  ASSUME DeskInv, PromiseInv, RecordPlaced, [Next]_vars
  PROVE  RecordPlaced'
<1>1. \A c \in Customer :
        /\ Unplaced(c) \in Int /\ Unplaced(c)' \in Int
        /\ Unplaced(c) <= Unplaced(c)'
        /\ next[c] \in Int
        /\ \A s \in Server : customer_record[s][c] \in Int
  <2>1. \A c \in Customer :
          next[c] \in Int /\ \A s \in Server : customer_record[s][c] \in Int
    BY DEF DeskInv, DeskType, OrderNumber
  <2> QED
    BY <2>1, UnplacedGrows
<1>2. CASE UNCHANGED customer_record
  BY <1>1, <1>2 DEF RecordPlaced
<1>3. ASSUME NEW s \in Server, NEW what \in {"ok", "unavailable"}, Decide(s, what)
      PROVE  RecordPlaced'
  <2>1. PICK r \in working[s] :
          /\ customer_record' \in {customer_record,
                                  [customer_record EXCEPT ![s][r.customer] = r.order]}
          /\ UNCHANGED <<pc, next>>
    BY <1>3 DEF Decide, Recorded, customerVars
  <2>2. r.customer \in Customer /\ r.order = next[r.customer]
    BY RequestWaits DEF Requests, PromiseInv, RequestsCurrent
  <2>3. r.order < Unplaced(r.customer)'
    <3>1. engineer[s][r.customer] = "wait"
      BY RequestWaits DEF Requests
    <3>2. pc[r.customer] \in {"wait", "aborted"}
      BY <2>2, <3>1 DEF DeskInv, EngineerServes, AtWork
    <3> QED
      BY <1>1, <2>1, <2>2, <3>2 DEF Unplaced
  <2>4. \A t \in Server, d \in Customer :
          \/ customer_record'[t][d] = customer_record[t][d]
          \/ d = r.customer /\ customer_record'[t][d] = r.order
    BY <2>1, <2>2 DEF DeskInv, DeskType
  <2> QED
    BY <1>1, <2>2, <2>3, <2>4 DEF RecordPlaced, Unplaced
<1>4. ASSUME NEW c \in Customer,
             \/ ConnectHome(c) \/ ReadConfig(c) \/ ConfigLost(c) \/ PlaceOrder(c)
             \/ ReadLaptop(c) \/ LoseOrder(c) \/ Leave(c)
             \/ \E s \in Server : TryServer(c, s)
      PROVE  UNCHANGED customer_record
  BY <1>4, Zenon DEF ConnectHome, ReadConfig, ConfigLost, PlaceOrder, ReadLaptop, LoseOrder,
                     Leave, TryServer, deskVars
<1>5. ASSUME NEW s \in Server, NEW c \in Customer,
             Greet(s, c) \/ Enqueue(s, c) \/ SendLaptop(s, c) \/ HangUp(s, c)
      PROVE  UNCHANGED customer_record
  BY <1>5, Zenon DEF Greet, Enqueue, SendLaptop, HangUp
<1>6. ASSUME NEW s \in Server, Sleep(s) \/ Take(s) \/ SetPromise(s) \/ Crash(s)
      PROVE  UNCHANGED customer_record
  BY <1>6, Zenon DEF Sleep, Take, SetPromise, Crash
<1>7. UNCHANGED <<alive, customerVars, deskVars>> => UNCHANGED customer_record
  BY Zenon DEF deskVars
<1> QED
  BY <1>2, <1>3, <1>4, <1>5, <1>6, <1>7, StepCases, ReaderFrame

ReaderInv == RecordPlaced /\ ReaderServed /\ ReadsAreFresh

LEMMA ReaderInvStep ==
  ASSUME TypeInv, TypeInv', PromiseInv, AnswerInv, AnswerInv', ReaderInv, [Next]_vars
  PROVE  ReaderInv'
<1> DEFINE c == ReadList[reads + 1]
<1>1. reads < Len(ReadList) => c \in Customer
  BY DEF TypeInv, ReaderType
<1>2. \A s \in Server, d \in Customer :
        /\ customer_record[s][d] <= customer_record'[s][d]
        /\ customer_record[s][d] \in Int /\ customer_record'[s][d] \in Int
        /\ Unplaced(d) \in Int /\ Unplaced(d)' \in Int /\ Unplaced(d) <= Unplaced(d)'
  <2>1. \A s \in Server, d \in Customer :
          customer_record[s][d] <= customer_record'[s][d]
    BY RecordGrows DEF TypeInv
  <2>2. \A d \in Customer :
          Unplaced(d) \in Int /\ Unplaced(d)' \in Int /\ Unplaced(d) <= Unplaced(d)'
    BY UnplacedGrows DEF TypeInv
  <2> QED
    BY <2>1, <2>2 DEF TypeInv, DeskInv, DeskType, OrderNumber
<1>p. RecordPlaced'
  BY PlacedStep DEF TypeInv, ReaderInv
<1>3. record \in Int /\ floor \in Int /\ floor' \in Int /\ record' \in Int
  BY DEF TypeInv, ReaderType, OrderNumber
<1>4. CASE UNCHANGED readerVars
  <2>1. UNCHANGED <<reader, reads, record, floor>>
    BY <1>4 DEF readerVars
  <2> HIDE DEF c
  <2>2. reader \in {"asked", "replied"} =>
          reads < Len(ReadList) /\ floor <= customer_record[Home][c]
    BY DEF ReaderInv, ReaderServed, c
  <2>3. reader = "replied" => floor <= record /\ record < Unplaced(c)
    BY DEF ReaderInv, ReadsAreFresh, c
  <2>4. reader \in {"asked", "replied"} =>
          reads < Len(ReadList) /\ floor <= customer_record'[Home][c]
    <3> SUFFICES ASSUME reader \in {"asked", "replied"}
                 PROVE  floor <= customer_record'[Home][c]
      BY <2>2
    <3>1. c \in Customer /\ floor <= customer_record[Home][c]
      BY <1>1, <2>2 DEF c
    <3>2. /\ customer_record[Home][c] <= customer_record'[Home][c]
          /\ customer_record[Home][c] \in Int /\ customer_record'[Home][c] \in Int
      BY <1>2, <3>1
    <3> QED
      BY <1>3, <3>1, <3>2
  <2>5. reader = "replied" => floor <= record /\ record < Unplaced(c)'
    <3> SUFFICES ASSUME reader = "replied" PROVE record < Unplaced(c)'
      BY <2>3
    <3>1. c \in Customer
      BY <1>1, <2>2 DEF c
    <3>2. Unplaced(c) \in Int /\ Unplaced(c)' \in Int /\ Unplaced(c) <= Unplaced(c)'
      <4>1. ReadList[reads + 1] \in Customer
        BY <3>1 DEF c
      <4> QED
        BY <1>2, <2>1, <4>1 DEF c
    <3> QED
      BY <1>3, <2>3, <3>2
  <2> QED
    BY <1>p, <2>1, <2>4, <2>5 DEF ReaderInv, ReaderServed, ReadsAreFresh, c
<1>5. CASE AskRecord
  <2>1. /\ reads < Len(ReadList) /\ reader' = "asked"
        /\ UNCHANGED <<reads, customer_record>>
        /\ floor' \in {-1} \cup ToldBy(Home, c)
    BY <1>5 DEF AskRecord, ReaderMoves, deskVars
  <2>2. customer_record[Home][c] >= -1
    <3>1. customer_record[Home][c] \in {-1} \cup OrderNumber
      BY <1>1, <2>1 DEF TypeInv, DeskInv, DeskType
    <3> QED
      BY <3>1 DEF OrderNumber
  <2>3. ASSUME NEW i \in ToldBy(Home, c) PROVE i <= customer_record[Home][c]
    <3>1. i \in OrderNumber /\ told[c][i] = "ok" /\ by[c][i] = Home
      BY <2>3 DEF ToldBy
    <3>2. customer_record[Home][c] >= i
      BY <1>1, <2>1, <3>1 DEF AnswerInv, RecordShowsAnswers
    <3> QED
      BY <1>1, <1>2, <2>1, <3>1, <3>2 DEF OrderNumber
  <2>4. floor' <= customer_record[Home][c]
    BY <2>1, <2>2, <2>3
  <2> QED
    BY <1>p, <2>1, <2>4 DEF ReaderInv, ReaderServed, ReadsAreFresh
<1>6. CASE LookUp
  <2>1. /\ reader = "asked" /\ reader' = "replied" /\ record' = customer_record[Home][c]
        /\ UNCHANGED <<reads, floor, customer_record, next>>
    BY <1>6 DEF LookUp, ReaderMoves, deskVars, customerVars
  <2>2. reads < Len(ReadList) /\ floor <= customer_record[Home][c]
    BY <2>1 DEF ReaderInv, ReaderServed
  <2>3. record' < Unplaced(ReadList[reads + 1])'
    <3>1. ReadList[reads + 1] \in Customer /\ UNCHANGED <<reads, customer_record>>
      BY <1>1, <2>1, <2>2
    <3> QED
      BY <1>p, <2>1, <3>1, HomeAssumption DEF RecordPlaced, Unplaced
  <2> QED
    BY <1>p, <2>1, <2>2, <2>3 DEF ReaderInv, ReaderServed, ReadsAreFresh
<1>7. CASE ReadRecord \/ LoseRecord
  <2>1. reader' = "ready"
    BY <1>7 DEF ReadRecord, LoseRecord, ReaderMoves
  <2> QED
    BY <1>p, <2>1 DEF ReaderInv, ReaderServed, ReadsAreFresh
<1> QED
  BY <1>4, <1>5, <1>6, <1>7, DeskFrame

(***************************************************************************)
(* A record that is read shows all that its customer had been told of when *)
(* the reader asked, and nothing that the customer has yet to order.       *)
(***************************************************************************)
THEOREM ReadTheorem == Spec => []ReadsAreFresh
<1>1. Init => ReaderInv
  BY DEF Init, ReaderInv, ReaderServed, ReadsAreFresh, RecordPlaced, Unplaced
<1>2. TypeInv /\ TypeInv' /\ PromiseInv /\ AnswerInv /\ AnswerInv' /\ ReaderInv /\ [Next]_vars
        => ReaderInv'
  BY ReaderInvStep
<1>3. ReaderInv => ReadsAreFresh
  BY DEF ReaderInv
<1> QED
  BY <1>1, <1>2, <1>3, TypeInvariant, AnswerInvariant, PTL DEF Spec
-----------------------------------------------------------------------------
(***************************************************************************)
(* Crashes and lost orders.                                                *)
(***************************************************************************)
LEMMA LossFrame ==
  ASSUME LossInv, UNCHANGED <<told, by>>, Crashed \subseteq Crashed',
         \A c \in Customer : pc'[c] \in {"config", "order", "wait"} =>
           \/ pc[c] \in {"config", "order", "wait"} /\ conn'[c] = conn[c]
           \/ conn'[c] \notin Crashed
  PROVE  LossInv'
<1>1. \A c \in Customer : LostTo(c)' = LostTo(c)
  BY DEF LostTo
<1> QED
  BY <1>1 DEF LossInv

LEMMA LossStep ==
  ASSUME DeskInv, LossInv, AnswerInv, [Next]_vars
  PROVE  LossInv'
<1>a. conn \in [Customer -> Server \cup {NoServer}] /\ pc \in [Customer -> CustomerLabel]
  BY DEF DeskInv, DeskType
<1>1. ASSUME NEW c \in Customer,
             ReadConfig(c) \/ ConfigLost(c) \/ PlaceOrder(c) \/ Leave(c)
      PROVE  LossInv'
  <2>1. UNCHANGED <<told, by, conn, alive>>
    BY <1>1, Zenon DEF ReadConfig, ConfigLost, PlaceOrder, Leave
  <2>2. \A d \in Customer : pc'[d] \in {"config", "order", "wait"} =>
          pc[d] \in {"config", "order", "wait"}
    BY <1>1, <1>a DEF ReadConfig, ConfigLost, PlaceOrder, Leave, Goto
  <2>3. Crashed' = Crashed
    BY <2>1 DEF Crashed
  <2> QED
    BY <2>1, <2>2, <2>3, LossFrame
<1>2. ASSUME NEW c \in Customer,
             ConnectHome(c) \/ \E s \in Server : TryServer(c, s)
      PROVE  LossInv'
  <2>1. UNCHANGED <<told, by, alive>>
    BY <1>2, Zenon DEF ConnectHome, TryServer
  <2>2. Crashed' = Crashed
    BY <2>1 DEF Crashed
  <2>3. \A d \in Customer : d # c => pc'[d] = pc[d] /\ conn'[d] = conn[d]
    BY <1>2, <1>a DEF ConnectHome, TryServer, Connect, Goto
  <2>4. pc'[c] \in {"config", "order", "wait"} => conn'[c] \notin Crashed
    <3>1. ASSUME NEW s \in Server, Connect(c, s) PROVE conn'[c] \notin Crashed
      BY <3>1, <1>a DEF Connect, MayConnect, Crashed
    <3>2. \/ \E s \in Server : Connect(c, s)
          \/ pc'[c] \notin {"config", "order", "wait"}
      BY <1>2, <1>a DEF ConnectHome, TryServer, Goto
    <3> QED
      BY <3>1, <3>2
  <2> QED
    BY <2>1, <2>2, <2>3, <2>4, LossFrame
<1>3. ASSUME NEW c \in Customer, ReadLaptop(c) PROVE LossInv'
  <2> DEFINE what == result[conn[c]][c]
             n == next[c]
  <2>1. what # "lost" /\ n \in OrderNumber
    <3>1. conn[c] \in Server /\ n \in OrderNumber
      BY <1>3 DEF ReadLaptop, DeskInv, DeskType, Connected, OrderNumber
    <3>2. result[conn[c]] \in [Customer -> {"none", "ok", "unavailable"}]
      BY <3>1 DEF DeskInv, DeskType
    <3> QED
      BY <3>1, <3>2
  <2>2. /\ told' = [told EXCEPT ![c][n] = what]
        /\ by' = [by EXCEPT ![c][n] = conn[c]]
        /\ pc' = [pc EXCEPT ![c] = IF what = "unavailable" THEN "end" ELSE "order"]
        /\ pc[c] = "wait"
        /\ UNCHANGED <<conn, alive>>
    BY <1>3 DEF ReadLaptop, Tell, Goto
  <2> HIDE DEF what, n
  <2>3. \A d \in Customer, i \in OrderNumber :
          told'[d][i] = "lost" => told[d][i] = "lost" /\ by'[d][i] = by[d][i]
    BY <2>1, <2>2 DEF DeskInv, DeskType
  <2>4. \A d \in Customer : LostTo(d)' \subseteq LostTo(d)
    BY <2>3 DEF LostTo
  <2>5. \A d \in Customer : pc'[d] \in {"config", "order", "wait"} =>
          pc[d] \in {"config", "order", "wait"}
    BY <2>2, <1>a
  <2>6. Crashed' = Crashed
    BY <2>2 DEF Crashed
  <2> QED
    BY <2>2, <2>3, <2>4, <2>5, <2>6 DEF LossInv
<1>4. ASSUME NEW c \in Customer, LoseOrder(c) PROVE LossInv'
  <2> DEFINE n == next[c]
  <2>1. /\ told' = [told EXCEPT ![c][n] = "lost"]
        /\ by' = [by EXCEPT ![c][n] = conn[c]]
        /\ pc' = [pc EXCEPT ![c] = "scan"]
        /\ pc[c] \in {"order", "wait"} /\ n < NumOrders /\ ~alive[conn[c]]
        /\ UNCHANGED <<conn, alive>>
    BY <1>4 DEF LoseOrder, HasOrder, Tell, Goto
  <2>2. n \in OrderNumber /\ conn[c] \in Crashed /\ conn[c] \notin LostTo(c)
    BY <2>1 DEF DeskInv, DeskType, Connected, OrderNumber, Crashed, LossInv
  <2>3. told[c][n] = "none"
    BY <2>2 DEF AnswerInv, ToldBefore, DeskInv, DeskType
  <2> HIDE DEF n
  <2>4. /\ told'[c][n] = "lost" /\ by'[c][n] = conn[c]
        /\ \A d \in Customer, i \in OrderNumber :
             d # c \/ i # n => told'[d][i] = told[d][i] /\ by'[d][i] = by[d][i]
    BY <2>1, <2>2 DEF DeskInv, DeskType
  <2>5. Crashed' = Crashed
    BY <2>1 DEF Crashed
  <2>6. LostTo(c)' \subseteq LostTo(c) \cup {conn[c]}
    BY <2>4 DEF LostTo
  <2>7. \A d \in Customer : d # c => LostTo(d)' = LostTo(d)
    BY <2>4 DEF LostTo
  <2>8. \A i \in OrderNumber : i # n /\ told[c][i] = "lost" => by[c][i] # conn[c]
    BY <2>2 DEF LostTo
  <2>9. \A d \in Customer : LostTo(d)' \subseteq Crashed'
    BY <2>2, <2>5, <2>6, <2>7 DEF LossInv
  <2>10. \A d \in Customer : \A i, j \in OrderNumber :
           told'[d][i] = "lost" /\ told'[d][j] = "lost" /\ by'[d][i] = by'[d][j] => i = j
    <3> SUFFICES ASSUME NEW d \in Customer, NEW i \in OrderNumber, NEW j \in OrderNumber,
                        told'[d][i] = "lost", told'[d][j] = "lost", by'[d][i] = by'[d][j]
                 PROVE  i = j
      OBVIOUS
    <3>1. CASE d = c /\ (i = n \/ j = n)
      BY <3>1, <2>4, <2>8
    <3>2. CASE ~(d = c /\ (i = n \/ j = n))
      BY <3>2, <2>4 DEF LossInv
    <3> QED
      BY <3>1, <3>2
  <2>11. \A d \in Customer : pc'[d] \in {"config", "order", "wait"} =>
           d # c /\ pc[d] \in {"config", "order", "wait"} /\ conn'[d] = conn[d]
    BY <2>1, <1>a
  <2> QED
    BY <2>7, <2>9, <2>10, <2>11 DEF LossInv
<1>5. ASSUME NEW s \in Server, NEW c \in Customer,
             Greet(s, c) \/ Enqueue(s, c) \/ SendLaptop(s, c) \/ HangUp(s, c)
      PROVE  UNCHANGED <<alive, customerVars>>
  BY <1>5, Zenon DEF Greet, Enqueue, SendLaptop, HangUp
<1>6. ASSUME NEW s \in Server,
             \/ Sleep(s) \/ Take(s) \/ SetPromise(s)
             \/ \E what \in {"ok", "unavailable"} : Decide(s, what)
      PROVE  UNCHANGED <<alive, customerVars>>
  BY <1>6, Zenon DEF Sleep, Take, SetPromise, Decide
<1>7. ASSUME UNCHANGED <<alive, customerVars>> PROVE LossInv'
  <2>1. Crashed' = Crashed
    BY <1>7 DEF Crashed
  <2> QED
    BY <1>7, <2>1, LossFrame DEF customerVars
<1>8. ASSUME NEW s \in Server, Crash(s) PROVE LossInv'
  <2>1. Crashed \subseteq Crashed'
    BY <1>8 DEF Crash, Crashed, DeskInv, DeskType
  <2> QED
    BY <1>8, <2>1, LossFrame DEF Crash, customerVars
<1> QED
  BY <1>1, <1>2, <1>3, <1>4, <1>5, <1>6, <1>7, <1>8, StepCases, ReaderFrame

LEMMA LossCounts == LossInv => OneLossPerCrash
<1> SUFFICES ASSUME LossInv, NEW c \in Customer
             PROVE  Cardinality({i \in OrderNumber : told[c][i] = "lost"})
                      <= Cardinality(Crashed)
  BY DEF OneLossPerCrash
<1> DEFINE lost == {i \in OrderNumber : told[c][i] = "lost"}
           f == [i \in lost |-> by[c][i]]
<1>1. IsFiniteSet(Crashed)
  BY FS_Subset DEF Crashed
<1>2. \A i \in lost : by[c][i] \in Crashed
  BY DEF LossInv, LostTo
<1>3. f \in Injection(lost, Crashed)
  <2>1. f \in [lost -> Crashed]
    BY <1>2
  <2>2. \A i, j \in lost : f[i] = f[j] => i = j
    BY DEF LossInv
  <2> QED
    BY <2>1, <2>2 DEF Injection, IsInjective
<1> QED
  BY <1>1, <1>3, FS_Injection

(***************************************************************************)
(* A crash costs a customer at most one order.                             *)
(***************************************************************************)
THEOREM LossTheorem == Spec => []OneLossPerCrash
<1>1. Init => LossInv
  BY DEF Init, LossInv, LostTo
<1>2. DeskInv /\ AnswerInv /\ LossInv /\ [Next]_vars => LossInv'
  BY LossStep
<1> QED
  BY <1>1, <1>2, AnswerInvariant, LossCounts, PTL DEF Spec
=============================================================================
