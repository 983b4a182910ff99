-------------------------- MODULE LaptopPaxosProofs --------------------------
(***************************************************************************)
(* Safety of LaptopPaxos for any servers, proposers, orders, crashes and   *)
(* numbers.  LP gives the theorems about Learner to the learners of the    *)
(* composition.                                                            *)
(***************************************************************************)
EXTENDS LaptopPaxos, FiniteSetTheorems, TLAPS

LP == INSTANCE LearnerProofs WITH
        Incoming <- Command, MaxLines <- 0, logStart <- [l \in Server |-> 0]

LEMMA LearnerAssumptions == LP!IncomingAssumption /\ LP!MaxLinesAssumption
BY DEF LP!IncomingAssumption, LP!MaxLinesAssumption, Command
-----------------------------------------------------------------------------
(***************************************************************************)
(* Types.  Those of the learners' other variables come from LP, so the     *)
(* first invariant leaves them out.                                        *)
(***************************************************************************)
ScoutTypeOK ==
  /\ alive \in [Server -> BOOLEAN]
  /\ pc \in [Proposer -> Label]
  /\ todo \in [Proposer -> SUBSET Server]
  /\ proposalNumber \in [Proposer -> Nat]
  /\ slot_in \in [Proposer -> Int]
  /\ tally \in [Proposer -> Tally]
  /\ ballot \in [Proposer -> Ballot]
  /\ scoutStub \in [Proposer -> [Server -> ScoutStub]]
  /\ learnerStub \in [Proposer -> [Server -> LearnerStub]]
  /\ scoutInit \in [Proposer -> BOOLEAN]
  /\ learnerInit \in [Proposer -> BOOLEAN]
  /\ served \in [Proposer -> 0 .. MaxOrders]
  /\ answer \in [Order -> {"none", "ok", "unavailable"}]
  /\ customer_record \in [Proposer -> 0 .. MaxOrders]
  /\ learnq \in [Proposer -> [Server -> Seq(Command)]]
  /\ decisionMap \in [Server -> SUBSET Command]

CoreTypeOK == AcceptorTypeOK /\ ScoutTypeOK

LEMMA MessageTypes ==
  /\ NoCommand \in Command
  /\ NoMsg \in PaxosMsg
  /\ \A n \in Nat : P1a(n) \in PaxosMsg
  /\ \A n \in Nat, c \in Command : P2a(n, c) \in PaxosMsg
  /\ \A msg \in PaxosMsg : msg.phase \in {1, 3} =>
       [NoMsg EXCEPT !.phase = msg.phase + 1] \in PaxosMsg
  /\ NoTally \in Tally
  /\ NoBallot \in Ballot
  /\ \A c \in Command, own \in BOOLEAN : BallotFor(c, own) \in Ballot
<1>1. NoCommand \in Command
  BY DEF NoCommand, Command
<1>2. NoMsg \in PaxosMsg
  BY <1>1 DEF NoMsg, PaxosMsg, Number
<1>3. \A n \in Nat : P1a(n) \in PaxosMsg
  BY <1>1 DEF P1a, NoMsg, PaxosMsg, Number
<1>4. \A n \in Nat, c \in Command : P2a(n, c) \in PaxosMsg
  BY DEF P2a, NoMsg, PaxosMsg, Number
<1>5. \A msg \in PaxosMsg : msg.phase \in {1, 3} =>
        [NoMsg EXCEPT !.phase = msg.phase + 1] \in PaxosMsg
  BY <1>1 DEF NoMsg, PaxosMsg, Number
<1>6. NoTally \in Tally
  BY <1>1 DEF NoTally, Tally, Number
<1>7. NoBallot \in Ballot
  BY <1>1 DEF NoBallot, Ballot
<1>8. \A c \in Command, own \in BOOLEAN : BallotFor(c, own) \in Ballot
  BY DEF BallotFor, NoBallot, Ballot
<1> QED
  BY <1>1, <1>2, <1>3, <1>4, <1>5, <1>6, <1>7, <1>8

LEMMA CountType ==
  ASSUME NEW t \in Tally, NEW msg \in PaxosMsg PROVE Count(t, msg) \in Tally
<1> DEFINE highest == IF msg.number > t.highest THEN msg.number ELSE t.highest
<1>1. highest \in Number
  BY DEF Tally, PaxosMsg
<1> HIDE DEF highest
<1>2. /\ t.promised \in Nat /\ t.promised + 1 \in Nat /\ t.promised + msg.agree \in Nat
      /\ msg.accepted \in Number /\ msg.cmd \in Command
  BY DEF Tally, PaxosMsg
<1>3. /\ [t EXCEPT !.highest = highest, !.promised = @ + 1,
                   !.accepted = msg.accepted, !.cmd = msg.cmd] \in Tally
      /\ [t EXCEPT !.highest = highest, !.promised = @ + msg.agree] \in Tally
  BY <1>1, <1>2 DEF Tally
<1> QED
  BY <1>3 DEF Count, highest

(***************************************************************************)
(* An engineer's step keeps the types of its server's variables.           *)
(***************************************************************************)
LEMMA EngineerType ==
  ASSUME AcceptorTypeOK, NEW a \in Server, NEW p \in Proposer, EngineerStep(a, p)
  PROVE  AcceptorTypeOK'
<1> USE DEF AcceptorTypeOK, Move, Stage
<1> DEFINE m == request[a][p]
           r == reply[a][p]
<1>1. /\ m \in PaxosMsg /\ r \in PaxosMsg
      /\ acceptedValue[a] \in Command
      /\ promisedProposalNumber[a] \in Number
      /\ acceptedProposalNumber[a] \in Number
  OBVIOUS
<1>2. /\ [r EXCEPT !.agree = 1] \in PaxosMsg
      /\ [r EXCEPT !.accepted = acceptedProposalNumber[a]] \in PaxosMsg
      /\ [r EXCEPT !.number = promisedProposalNumber[a]] \in PaxosMsg
      /\ [r EXCEPT !.cmd = [r.cmd EXCEPT !.slot = acceptedValue[a].slot]] \in PaxosMsg
      /\ [r EXCEPT !.cmd = [r.cmd EXCEPT !.order = acceptedValue[a].order]] \in PaxosMsg
  BY <1>1 DEF PaxosMsg, Command
<1>3. /\ m.number \in Number /\ m.cmd \in Command
      /\ [acceptedValue[a] EXCEPT !.slot = m.cmd.slot] \in Command
      /\ [acceptedValue[a] EXCEPT !.order = m.cmd.order] \in Command
      /\ [acceptor |-> a, proposer |-> p, number |-> m.number] \in PromiseMade
      /\ [acceptor |-> a, number |-> m.number, cmd |-> m.cmd] \in Vote
  BY <1>1 DEF PaxosMsg, Command, PromiseMade, Vote
<1>4. CASE TestPrepare(a, p)
  BY <1>4 DEF TestPrepare
<1>5. CASE Promise(a, p)
  BY <1>5, <1>2, <1>3 DEF Promise
<1>6. CASE Reject(a, p)
  BY <1>6, <1>2 DEF Reject
<1>7. CASE SeeAccepted(a, p)
  BY <1>7, <1>2 DEF SeeAccepted
<1>8. CASE CopySlot(a, p)
  BY <1>8, <1>2 DEF CopySlot
<1>9. CASE CopyOrder(a, p)
  BY <1>9, <1>2 DEF CopyOrder
<1>10. CASE TestAccept(a, p)
  BY <1>10 DEF TestAccept
<1>11. CASE AcceptNumber(a, p)
  BY <1>11, <1>3 DEF AcceptNumber
<1>12. CASE AcceptSlot(a, p)
  BY <1>12, <1>3 DEF AcceptSlot
<1>13. CASE AcceptOrder(a, p)
  BY <1>13, <1>2, <1>3 DEF AcceptOrder
<1> QED
  BY <1>4, <1>5, <1>6, <1>7, <1>8, <1>9, <1>10, <1>11, <1>12, <1>13 DEF EngineerStep

(***************************************************************************)
(* Messages between scout and acceptor.                                    *)
(***************************************************************************)
LEMMA SendToType ==
  ASSUME AcceptorTypeOK, NEW p \in Proposer, NEW a \in Server,
         NEW msg \in PaxosMsg, msg.phase \in {1, 3}, SendTo(p, a, msg)
  PROVE  AcceptorTypeOK'
<1>1. CASE Receive(a, p, msg)
  BY <1>1, MessageTypes DEF Receive, Move, AcceptorTypeOK, Stage
<1>2. CASE UNCHANGED acceptorVars
  BY <1>2 DEF acceptorVars, AcceptorTypeOK
<1> QED
  BY <1>1, <1>2 DEF SendTo

LEMMA ReceiveFromType ==
  ASSUME CoreTypeOK, NEW p \in Proposer, NEW a \in Server,
         NEW msg \in PossibleReplies(p, a), ReceiveFrom(p, a, msg)
  PROVE  /\ AcceptorTypeOK'
         /\ msg \in PaxosMsg
         /\ scoutStub' \in [Proposer -> [Server -> ScoutStub]]
         /\ UNCHANGED <<learnerStub, scoutInit, learnerInit>>
<1> USE DEF CoreTypeOK, ScoutTypeOK
<1>1. msg \in PaxosMsg
  BY MessageTypes DEF PossibleReplies, AcceptorTypeOK
<1>2. CASE Release(a, p) /\ UNCHANGED stubVars
  BY <1>1, <1>2, MessageTypes DEF Release, Move, AcceptorTypeOK, Stage, stubVars
<1>3. CASE /\ scoutStub' = [scoutStub EXCEPT ![p][a] = "closed"]
           /\ UNCHANGED <<acceptorVars, learnerStub, scoutInit, learnerInit>>
  BY <1>1, <1>3 DEF acceptorVars, AcceptorTypeOK, ScoutStub
<1> QED
  BY <1>2, <1>3 DEF ReceiveFrom

(***************************************************************************)
(* A scout that is at work has taken an order.                             *)
(***************************************************************************)
HoldsOrder ==
  /\ pc \in [Proposer -> Label]
  /\ served \in [Proposer -> 0 .. MaxOrders]
  /\ \A p \in Proposer : pc[p] # "idle" => served[p] # 0

\* A step of a scout, an engineer or a learner, or a process that ends or starts.
LEMMA EveryStep ==
  ASSUME [Next]_vars
  PROVE  \/ \E p \in Proposer : ScoutStep(p)
         \/ \E a \in Server, p \in Proposer : Engineer(a, p) \/ Learn(a, p)
         \/ \E s \in Server : Die(s) \/ Start(s)
         \/ UNCHANGED vars
BY ProposerAssumption, Zenon DEF Next, Crash, BrokenPipe, Terminating

LEMMA HoldingStep ==
  ASSUME HoldsOrder, [Next]_vars PROVE HoldsOrder'
<1>1. ASSUME NEW p \in Proposer, ScoutStep(p) PROVE HoldsOrder'
  <2>1. ASSUME NEW label \in Label, NEW entries, Goto(p, label, entries), pc[p] # "idle",
               UNCHANGED served
        PROVE  HoldsOrder'
    BY <2>1 DEF HoldsOrder, Goto
  <2>2. ASSUME NEW told, Answer(p, told) PROVE HoldsOrder'
    BY <2>2 DEF HoldsOrder, Answer, Goto, Label
  <2>3. CASE TakeOrder(p)
    <3>1. PICK label \in {"prepare", "connect"} : pc' = [pc EXCEPT ![p] = label]
      BY <2>3, Zenon DEF TakeOrder, Begin, Goto
    <3>2. served[p] + 1 \in 0 .. MaxOrders /\ served[p] + 1 # 0
      BY <2>3, MaxOrdersAssumption DEF TakeOrder, HoldsOrder
    <3>3. served' = [served EXCEPT ![p] = served[p] + 1]
      BY <2>3 DEF TakeOrder
    <3> QED
      BY <3>1, <3>2, <3>3 DEF HoldsOrder, Label
  <2>4. CASE AcceptorsConnected(p)
    BY <2>1, <2>4 DEF AcceptorsConnected, Done, Label, orderVars
  <2>5. CASE PrepareUnavailable(p) \/ GiveUpOwn(p) \/ AcceptUnavailable(p) \/ AnswerOk(p)
    BY <2>2, <2>5, Zenon DEF PrepareUnavailable, GiveUpOwn, AcceptUnavailable, AnswerOk
  <2>6. CASE NextRound(p)
    BY <2>1, <2>6 DEF NextRound, Rejected, Done, Label, orderVars
  <2>7. ASSUME NEW c, NEW own, Prepared(p), EnterAccept(p, c, own) PROVE HoldsOrder'
    BY <2>1, <2>7 DEF Prepared, EnterAccept, Done, Label, orderVars
  <2>8. CASE ProposeOwn(p) \/ ProposeSystem(p)
    BY <2>7, <2>8, Zenon DEF ProposeOwn, ProposeSystem
  <2>9. CASE StartCommander(p)
    <3>1. Goto(p, "learn", Learners(p)) \/ Goto(p, "connectLearners", Server)
      BY <2>9, Zenon DEF StartCommander
    <3>2. pc[p] # "idle" /\ UNCHANGED served
      BY <2>9 DEF StartCommander, Done, orderVars
    <3> QED
      BY <2>1, <3>1, <3>2 DEF Label
  <2>10. CASE Restart(p)
    BY <2>1, <2>10 DEF Restart, Done, Label, orderVars
  <2>11. CASE LearnersConnected(p)
    BY <2>1, <2>11 DEF LearnersConnected, Done, Label, orderVars
  <2>12. ASSUME NEW s \in Server,
                \/ ConnectAcceptor(p, s) \/ IdentifyAcceptor(p, s)
                \/ ConnectLearner(p, s) \/ IdentifyLearner(p, s)
         PROVE  HoldsOrder'
    <3>1. pc[p] # "idle" /\ UNCHANGED served
      BY <2>12 DEF ConnectAcceptor, IdentifyAcceptor, ConnectLearner, IdentifyLearner, At,
                   orderVars
    <3>2. \/ UNCHANGED pc
          \/ Goto(p, "connect", todo[p] \ {s}) \/ Goto(p, "connectLearners", todo[p] \ {s})
      BY <2>12, Zenon DEF ConnectAcceptor, IdentifyAcceptor, ConnectLearner, IdentifyLearner
    <3> QED
      BY <2>1, <3>1, <3>2 DEF Label, HoldsOrder
  <2>13. ASSUME NEW s \in Server, SendP1a(p, s) \/ P1aFails(p, s) \/ RecvP1b(p, s)
         PROVE  HoldsOrder'
    BY <2>1, <2>13 DEF SendP1a, P1aFails, RecvP1b, At, Label, orderVars
  <2>14. ASSUME NEW s \in Server, SendP2a(p, s) \/ P2aFails(p, s) \/ RecvP2b(p, s)
         PROVE  HoldsOrder'
    BY <2>1, <2>14 DEF SendP2a, P2aFails, RecvP2b, At, Label, orderVars
  <2>15. ASSUME NEW s \in Server, SendLearn(p, s) \/ SendLearnFails(p, s)
         PROVE  HoldsOrder'
    BY <2>1, <2>15 DEF SendLearn, SendLearnFails, At, Label, orderVars
  <2> QED
    BY <1>1, <2>3, <2>4, <2>5, <2>6, <2>8, <2>9, <2>10, <2>11, <2>12, <2>13, <2>14, <2>15
       DEF ScoutStep
<1>2. ASSUME UNCHANGED <<scoutVars, orderVars>> PROVE HoldsOrder'
  BY <1>2 DEF HoldsOrder, scoutVars, orderVars
<1>3. ASSUME NEW a \in Server, NEW p \in Proposer, Engineer(a, p) \/ Learn(a, p)
      PROVE  HoldsOrder'
  BY <1>2, <1>3 DEF Engineer, Learn
<1>4. ASSUME NEW s \in Server, Die(s) \/ Start(s) PROVE HoldsOrder'
  BY <1>2, <1>4 DEF Die, Start
<1>5. CASE UNCHANGED vars
  BY <1>2, <1>5 DEF vars
<1> QED
  BY <1>1, <1>3, <1>4, <1>5, EveryStep

LEMMA HoldingInvariant == Spec => []HoldsOrder
<1>1. Init => HoldsOrder
  BY MaxOrdersAssumption DEF Init, LaptopInit, HoldsOrder, Label
<1> QED
  BY <1>1, HoldingStep, PTL DEF Spec

(***************************************************************************)
(* Every step of a scout keeps the types.                                  *)
(***************************************************************************)
LEMMA ScoutType ==
  ASSUME CoreTypeOK, HoldsOrder, NEW p \in Proposer, ScoutStep(p)
  PROVE  CoreTypeOK'
<1> USE DEF CoreTypeOK, ScoutTypeOK, Label, ScoutStub, LearnerStub, learnVars
<1>1. p \in Server /\ MaxOrders \in Nat
  BY ProposerAssumption, MaxOrdersAssumption
<1>2. ASSUME UNCHANGED acceptorVars PROVE AcceptorTypeOK'
  BY <1>2 DEF acceptorVars, AcceptorTypeOK
<1>3. Acceptors(p) \in SUBSET Server /\ Learners(p) \in SUBSET Server
  BY DEF Acceptors, Learners
<1>4. CASE TakeOrder(p)
  <2>1. served[p] + 1 \in 0 .. MaxOrders
    BY <1>1, <1>4 DEF TakeOrder
  <2>2. /\ pc' \in [Proposer -> Label]
        /\ todo' \in [Proposer -> SUBSET Server]
    <3>1. Goto(p, "prepare", Acceptors(p)) \/ Goto(p, "connect", Server)
      BY <1>4, Zenon DEF TakeOrder, Begin
    <3>2. CASE Goto(p, "prepare", Acceptors(p))
      BY <1>3, <3>2 DEF Goto
    <3>3. CASE Goto(p, "connect", Server)
      BY <3>3 DEF Goto
    <3> QED
      BY <3>1, <3>2, <3>3
  <2> QED
    BY <1>2, <1>4, <2>1, <2>2 DEF TakeOrder, stubVars
<1>5. CASE AcceptorsConnected(p)
  BY <1>2, <1>3, <1>5 DEF AcceptorsConnected, Goto, orderVars
<1>6. ASSUME NEW told \in {"ok", "unavailable"}, Answer(p, told), pc[p] # "idle",
             UNCHANGED <<acceptorVars, alive, stubVars, learnq, learnVars>>
      PROVE  CoreTypeOK'
  BY <1>2, <1>6, MessageTypes DEF Answer, Goto, stubVars
<1>7. CASE PrepareUnavailable(p)
  BY <1>6, <1>7 DEF PrepareUnavailable, Done
<1>8. CASE NextRound(p)
  <2>1. NextNumber(tally[p]) \in Nat
    <3>1. tally[p].highest \in Number
      BY DEF Tally
    <3> QED
      BY <3>1 DEF NextNumber, Number
  <2> QED
    BY <1>2, <1>3, <1>8, <2>1 DEF NextRound, Goto, stubVars, orderVars
<1>9. ASSUME NEW c \in Command, NEW own \in BOOLEAN, EnterAccept(p, c, own),
             slot_in' \in [Proposer -> Int]
      PROVE  CoreTypeOK'
  BY <1>2, <1>3, <1>9, MessageTypes DEF EnterAccept, Goto, stubVars, orderVars
<1>10. CASE ProposeOwn(p)
  <2>1. PICK g \in L!LoopRange(decisionMap[p], slot_in[p]) :
          /\ slot_in' = [slot_in EXCEPT ![p] = g]
          /\ EnterAccept(p, [slot |-> g, order |-> OrderOf(p)], TRUE)
    BY <1>10 DEF ProposeOwn, FreeSlots
  <2>2. g \in Int
    <3>1. decisionMap[p] \in SUBSET Command /\ slot_in[p] \in Int
      BY <1>1
    <3>2. g \in LP!LoopRange(decisionMap[p], slot_in[p])
      BY DEF L!LoopRange, LP!LoopRange, L!Slots, LP!Slots
    <3> QED
      BY <3>1, <3>2, LearnerAssumptions, LP!LoopRangeInt
  <2>3. OrderOf(p) \in Order
    <3>1. served[p] \in 1 .. MaxOrders
      BY <1>1, <1>10 DEF HoldsOrder, ProposeOwn, Prepared, Done
    <3> QED
      BY <3>1 DEF OrderOf, Order
  <2> QED
    BY <1>9, <2>1, <2>2, <2>3 DEF Command
<1>11. CASE ProposeSystem(p)
  <2>1. tally[p].cmd \in Command
    BY DEF Tally
  <2> QED
    BY <1>9, <1>11, <2>1 DEF ProposeSystem
<1>12. CASE StartCommander(p)
  <2>1. /\ pc' \in [Proposer -> Label]
        /\ todo' \in [Proposer -> SUBSET Server]
    <3>1. Goto(p, "learn", Learners(p)) \/ Goto(p, "connectLearners", Server)
      BY <1>12, Zenon DEF StartCommander
    <3>2. CASE Goto(p, "learn", Learners(p))
      BY <1>3, <3>2 DEF Goto
    <3>3. CASE Goto(p, "connectLearners", Server)
      BY <3>3 DEF Goto
    <3> QED
      BY <3>1, <3>2, <3>3
  <2> QED
    BY <1>2, <1>12, <2>1 DEF StartCommander, stubVars, orderVars
<1>13. CASE Restart(p)
  BY <1>2, <1>3, <1>13, MessageTypes DEF Restart, Goto, stubVars, orderVars
<1>14. CASE GiveUpOwn(p)
  BY <1>6, <1>14 DEF GiveUpOwn, Done
<1>15. CASE AcceptUnavailable(p)
  BY <1>6, <1>15 DEF AcceptUnavailable, Done
<1>16. CASE LearnersConnected(p)
  BY <1>2, <1>3, <1>16 DEF LearnersConnected, Goto, orderVars
<1>17. CASE AnswerOk(p)
  BY <1>6, <1>17 DEF AnswerOk, Done
<1>18. ASSUME NEW s \in Server, ConnectAcceptor(p, s) \/ IdentifyAcceptor(p, s)
       PROVE  CoreTypeOK'
  <2>1. CASE ConnectAcceptor(p, s)
    <3>1. \/ scoutStub' = [scoutStub EXCEPT ![p][s] = "connected"] /\ UNCHANGED <<pc, todo>>
          \/ Goto(p, "connect", todo[p] \ {s}) /\ UNCHANGED scoutStub
      BY <2>1, Zenon DEF ConnectAcceptor
    <3>2. CASE scoutStub' = [scoutStub EXCEPT ![p][s] = "connected"] /\ UNCHANGED <<pc, todo>>
      BY <1>2, <2>1, <3>2 DEF ConnectAcceptor, orderVars
    <3>3. CASE Goto(p, "connect", todo[p] \ {s}) /\ UNCHANGED scoutStub
      BY <1>2, <2>1, <3>3 DEF ConnectAcceptor, Goto, orderVars
    <3> QED
      BY <3>1, <3>2, <3>3
  <2>2. CASE IdentifyAcceptor(p, s)
    <3>1. PICK stub \in Identified(s) : scoutStub' = [scoutStub EXCEPT ![p][s] = stub]
      BY <2>2, Zenon DEF IdentifyAcceptor
    <3>2. stub \in ScoutStub
      BY DEF Identified
    <3> QED
      BY <1>2, <2>2, <3>1, <3>2 DEF IdentifyAcceptor, Goto, orderVars
  <2> QED
    BY <1>18, <2>1, <2>2
<1>19. ASSUME NEW s \in Server, SendP1a(p, s) PROVE CoreTypeOK'
  <2>1. P1a(proposalNumber[p]) \in PaxosMsg /\ P1a(proposalNumber[p]).phase \in {1, 3}
    BY MessageTypes DEF P1a, NoMsg
  <2>2. AcceptorTypeOK'
    BY <1>19, <2>1, SendToType DEF SendP1a
  <2>3. [tally[p] EXCEPT !.active = @ + 1] \in Tally
    <3>1. tally[p] \in Tally /\ tally[p].active + 1 \in Nat
      BY DEF Tally
    <3> QED
      BY <3>1 DEF Tally
  <2> QED
    BY <1>19, <2>2, <2>3 DEF SendP1a, Goto, stubVars, orderVars
<1>20. ASSUME NEW s \in Server, P1aFails(p, s) PROVE CoreTypeOK'
  BY <1>2, <1>20 DEF P1aFails, Goto, Erase, AfterErase, orderVars
<1>21. ASSUME NEW s \in Server, RecvP1b(p, s) PROVE CoreTypeOK'
  <2>1. PICK msg \in PossibleReplies(p, s) :
          /\ ReceiveFrom(p, s, msg)
          /\ tally' = [tally EXCEPT ![p] = Count(@, msg)]
    BY <1>21 DEF RecvP1b
  <2>2. Count(tally[p], msg) \in Tally
    BY <2>1, ReceiveFromType, CountType
  <2> QED
    BY <1>21, <2>1, <2>2, ReceiveFromType DEF RecvP1b, Goto, orderVars
<1>22. ASSUME NEW s \in Server, SendP2a(p, s) PROVE CoreTypeOK'
  <2>1. /\ P2a(proposalNumber[p], ballot[p].cmd) \in PaxosMsg
        /\ P2a(proposalNumber[p], ballot[p].cmd).phase \in {1, 3}
    BY MessageTypes DEF P2a, NoMsg, Ballot
  <2>2. AcceptorTypeOK'
    BY <1>22, <2>1, SendToType DEF SendP2a
  <2>3. [ballot[p] EXCEPT !.active = @ + 1] \in Ballot
    <3>1. ballot[p] \in Ballot /\ ballot[p].active + 1 \in Nat
      BY DEF Ballot
    <3> QED
      BY <3>1 DEF Ballot
  <2> QED
    BY <1>22, <2>2, <2>3 DEF SendP2a, Goto, stubVars, orderVars
<1>23. ASSUME NEW s \in Server, P2aFails(p, s) PROVE CoreTypeOK'
  BY <1>2, <1>23 DEF P2aFails, Goto, Erase, AfterErase, orderVars
<1>24. ASSUME NEW s \in Server, RecvP2b(p, s) PROVE CoreTypeOK'
  <2>1. PICK msg \in PossibleReplies(p, s) :
          /\ ReceiveFrom(p, s, msg)
          /\ ballot' = [ballot EXCEPT ![p].agreed = @ + msg.agree]
    BY <1>24 DEF RecvP2b
  <2>2. [ballot[p] EXCEPT !.agreed = @ + msg.agree] \in Ballot
    <3>1. msg.agree \in {0, 1}
      BY <2>1, ReceiveFromType DEF PaxosMsg
    <3>2. ballot[p] \in Ballot /\ ballot[p].agreed + msg.agree \in Nat
      BY <3>1 DEF Ballot
    <3> QED
      BY <3>2 DEF Ballot
  <2> QED
    BY <1>24, <2>1, <2>2, ReceiveFromType DEF RecvP2b, Goto, orderVars
<1>25. ASSUME NEW s \in Server, ConnectLearner(p, s) \/ IdentifyLearner(p, s)
       PROVE  CoreTypeOK'
  <2>1. CASE ConnectLearner(p, s)
    <3>1. \/ learnerStub' = [learnerStub EXCEPT ![p][s] = "connected"] /\ UNCHANGED <<pc, todo>>
          \/ Goto(p, "connectLearners", todo[p] \ {s}) /\ UNCHANGED learnerStub
      BY <2>1, Zenon DEF ConnectLearner
    <3>2. CASE learnerStub' = [learnerStub EXCEPT ![p][s] = "connected"] /\ UNCHANGED <<pc, todo>>
      BY <1>2, <2>1, <3>2 DEF ConnectLearner, orderVars
    <3>3. CASE Goto(p, "connectLearners", todo[p] \ {s}) /\ UNCHANGED learnerStub
      BY <1>2, <2>1, <3>3 DEF ConnectLearner, Goto, orderVars
    <3> QED
      BY <3>1, <3>2, <3>3
  <2>2. CASE IdentifyLearner(p, s)
    <3>1. PICK stub \in Identified(s) : learnerStub' = [learnerStub EXCEPT ![p][s] = stub]
      BY <2>2, Zenon DEF IdentifyLearner
    <3>2. stub \in LearnerStub
      BY DEF Identified
    <3> QED
      BY <1>2, <2>2, <3>1, <3>2 DEF IdentifyLearner, Goto, orderVars
  <2> QED
    BY <1>25, <2>1, <2>2
<1>26. ASSUME NEW s \in Server, SendLearn(p, s) PROVE CoreTypeOK'
  <2>1. Append(learnq[p][s], ballot[p].cmd) \in Seq(Command)
    BY DEF Ballot
  <2> QED
    <3>1. /\ learnq' \in [Proposer -> [Server -> Seq(Command)]]
          /\ learnerStub' \in [Proposer -> [Server -> LearnerStub]]
      <4>1. \/ /\ learnq' = [learnq EXCEPT ![p][s] = Append(@, ballot[p].cmd)]
               /\ UNCHANGED learnerStub
            \/ /\ learnerStub' = [learnerStub EXCEPT ![p][s] = "reset"]
               /\ UNCHANGED learnq
        BY <1>26, Zenon DEF SendLearn
      <4>2. CASE /\ learnq' = [learnq EXCEPT ![p][s] = Append(@, ballot[p].cmd)]
                 /\ UNCHANGED learnerStub
        BY <2>1, <4>2
      <4>3. CASE /\ learnerStub' = [learnerStub EXCEPT ![p][s] = "reset"]
                 /\ UNCHANGED learnq
        BY <4>3
      <4> QED
        BY <4>1, <4>2, <4>3
    <3> QED
      BY <1>2, <1>26, <3>1 DEF SendLearn, Goto, orderVars
<1>27. ASSUME NEW s \in Server, SendLearnFails(p, s) PROVE CoreTypeOK'
  BY <1>2, <1>27 DEF SendLearnFails, Goto, Erase, AfterErase, orderVars
<1> QED
  BY <1>4, <1>5, <1>7, <1>8, <1>10, <1>11, <1>12, <1>13, <1>14, <1>15, <1>16, <1>17,
     <1>18, <1>19, <1>20, <1>21, <1>22, <1>23, <1>24, <1>25, <1>26, <1>27 DEF ScoutStep

(***************************************************************************)
(* Every step keeps the types.                                             *)
(***************************************************************************)
THEOREM CoreType == Spec => []CoreTypeOK
<1>1. Init => CoreTypeOK
  <2> SUFFICES ASSUME Init PROVE CoreTypeOK
    OBVIOUS
  <2>1. AcceptorTypeOK
    <3>1. [slot : GarbageSlots, order : {NoOrder}] \subseteq Command
      BY GarbageAssumption DEF Command
    <3> QED
      BY <3>1, MessageTypes DEF Init, AcceptorInit, AcceptorTypeOK, Number, Stage
  <2>2. ScoutTypeOK
    BY MessageTypes, MaxOrdersAssumption
       DEF Init, LaptopInit, ScoutTypeOK, Label, ScoutStub, LearnerStub
  <2> QED
    BY <2>1, <2>2 DEF CoreTypeOK
<1>2. CoreTypeOK /\ HoldsOrder /\ [Next]_vars => CoreTypeOK'
  <2> SUFFICES ASSUME CoreTypeOK, HoldsOrder, [Next]_vars PROVE CoreTypeOK'
    OBVIOUS
  <2>1. ASSUME NEW p \in Proposer, ScoutStep(p) PROVE CoreTypeOK'
    BY <2>1, ScoutType
  <2>2. ASSUME NEW a \in Server, NEW p \in Proposer, Engineer(a, p) PROVE CoreTypeOK'
    <3>1. AcceptorTypeOK'
      BY <2>2, EngineerType DEF Engineer, CoreTypeOK
    <3> QED
      BY <2>2, <3>1
         DEF Engineer, CoreTypeOK, ScoutTypeOK, scoutVars, stubVars, orderVars, learnVars
  <2>3. ASSUME NEW l \in Server, NEW p \in Proposer, Learn(l, p) PROVE CoreTypeOK'
    <3>1. AcceptorTypeOK'
      BY <2>3 DEF Learn, CoreTypeOK, AcceptorTypeOK, acceptorVars
    <3>2. learnq[p][l] \in Seq(Command) /\ learnq[p][l] # <<>>
      BY <2>3 DEF Learn, CoreTypeOK, ScoutTypeOK
    <3>3. Tail(learnq[p][l]) \in Seq(Command)
      BY <3>2
    <3>4. decisionMap' \in [Server -> SUBSET Command]
      <4>1. PICK g \in L!LoopRange(L!Store(decisionMap[l], Head(learnq[p][l])), slot_out[l]) :
              decisionMap' = [decisionMap EXCEPT ![l] =
                                L!Store(decisionMap[l], Head(learnq[p][l]))]
        BY <2>3 DEF Learn, L!Learn
      <4>2. L!Store(decisionMap[l], Head(learnq[p][l])) \in SUBSET Command
        BY <3>2 DEF CoreTypeOK, ScoutTypeOK, L!Store
      <4> QED
        BY <4>1, <4>2 DEF CoreTypeOK, ScoutTypeOK
    <3> QED
      BY <2>3, <3>1, <3>3, <3>4
         DEF Learn, CoreTypeOK, ScoutTypeOK, scoutVars, stubVars, orderVars
  <2>4. ASSUME NEW s \in Server, Die(s) PROVE CoreTypeOK'
    <3> USE DEF CoreTypeOK
    <3>1. AcceptorTypeOK'
      <4>1. /\ stage' \in [Server -> [Proposer -> Stage]]
            /\ request' \in [Server -> [Proposer -> PaxosMsg]]
            /\ reply' \in [Server -> [Proposer -> PaxosMsg]]
        BY <2>4, MessageTypes DEF Die, AcceptorTypeOK, Stage
      <4> QED
        BY <2>4, <4>1 DEF Die, AcceptorTypeOK
    <3>2. learnq' \in [Proposer -> [Server -> Seq(Command)]]
      BY <2>4 DEF Die, ScoutTypeOK
    <3> QED
      BY <2>4, <3>1, <3>2 DEF Die, ScoutTypeOK, scoutVars, stubVars, orderVars,
                                  learnVars
  <2>5. CASE UNCHANGED vars
    BY <2>5 DEF vars, CoreTypeOK, AcceptorTypeOK, ScoutTypeOK, acceptorVars, scoutVars,
                stubVars, orderVars, learnVars
  <2>6. ASSUME NEW s \in Server, Start(s) PROVE CoreTypeOK'
    BY <2>6 DEF Start, CoreTypeOK, AcceptorTypeOK, ScoutTypeOK, acceptorVars, scoutVars,
                stubVars, orderVars, learnVars
  <2> QED
    BY <2>1, <2>2, <2>3, <2>4, <2>5, <2>6, EveryStep
<1> QED
  BY <1>1, <1>2, HoldingInvariant, PTL DEF Spec
-----------------------------------------------------------------------------
(***************************************************************************)
(* A scout does not touch what the learners hold.                          *)
(***************************************************************************)
LEMMA ScoutLearns ==
  ASSUME NEW p \in Proposer, ScoutStep(p) PROVE UNCHANGED <<decisionMap, slot_out, factoryLog>>
BY Zenon
   DEF ScoutStep, TakeOrder, AcceptorsConnected, PrepareUnavailable, NextRound, ProposeOwn,
       ProposeSystem, EnterAccept, StartCommander, Restart, GiveUpOwn, AcceptUnavailable,
       LearnersConnected, AnswerOk, ConnectAcceptor, IdentifyAcceptor, SendP1a, P1aFails,
       RecvP1b, SendP2a, P2aFails, RecvP2b, ConnectLearner, IdentifyLearner, SendLearn,
       SendLearnFails, learnVars

(***************************************************************************)
(* The composition implements Learner: the learners see nothing but the    *)
(* commands that the commanders send, one at a time.                       *)
(***************************************************************************)
LEMMA LearnerStep ==
  ASSUME CoreTypeOK, [Next]_vars PROVE [LP!Next]_LP!learnerVars
<1>1. ASSUME NEW p \in Proposer, ScoutStep(p) PROVE UNCHANGED learnVars
  BY <1>1, ScoutLearns DEF learnVars
<1>2. ASSUME NEW l \in Server, NEW p \in Proposer, Learn(l, p) PROVE LP!Next
  <2>1. learnq[p][l] \in Seq(Command) /\ learnq[p][l] # <<>>
    BY <1>2 DEF Learn, CoreTypeOK, ScoutTypeOK
  <2>2. Head(learnq[p][l]) \in Command
    BY <2>1
  <2>3. LP!Learn(l, Head(learnq[p][l]))
    BY <1>2 DEF Learn, L!Learn, LP!Learn, L!Store, LP!Store, L!LoopRange, LP!LoopRange,
                L!IsFirstGap, LP!IsFirstGap, L!Slots, LP!Slots, L!Lines, LP!Lines
  <2> QED
    BY <2>2, <2>3 DEF LP!Next
<1>3. UNCHANGED learnVars => UNCHANGED LP!learnerVars
  BY DEF learnVars, LP!learnerVars
<1>4. [Next]_vars => \/ \E p \in Proposer : ScoutStep(p)
                     \/ \E l \in Server, p \in Proposer : Learn(l, p)
                     \/ UNCHANGED learnVars
  BY EveryStep, Zenon DEF Engineer, Die, Start, vars, learnVars
<1> QED
  BY <1>1, <1>2, <1>3, <1>4

(***************************************************************************)
(* Every behaviour of the composition is one of Learner.                   *)
(***************************************************************************)
THEOREM ImplementsLearner == Spec => L!Spec
<1>1. Init => L!Init
  BY DEF Init, LaptopInit, L!Init
<1>2. CoreTypeOK /\ [Next]_vars => [L!Next]_L!learnerVars
  BY LearnerStep
     DEF LP!Next, L!Next, LP!learnerVars, L!learnerVars, L!Learn, LP!Learn,
         L!CrashAndRestart, LP!CrashAndRestart, L!Restarted, LP!Restarted, L!Store,
         LP!Store, L!LoopRange, LP!LoopRange, L!IsFirstGap, LP!IsFirstGap, L!Slots,
         LP!Slots, L!Lines, LP!Lines
<1> QED
  BY <1>1, <1>2, CoreType, PTL DEF Spec, L!Spec

(***************************************************************************)
(* The types of the composition, the learners included.                    *)
(***************************************************************************)
LEMMA LearnerInvariants == Spec => [](LP!TypeOK /\ LP!PrefixDecided)
<1>1. Init => LP!Init
  BY DEF Init, LaptopInit, LP!Init
<1>2. CoreTypeOK /\ [Next]_vars => [LP!Next]_LP!learnerVars
  BY LearnerStep
<1>3. Spec => LP!Spec
  BY <1>1, <1>2, CoreType, PTL DEF Spec, LP!Spec
<1> QED
  BY <1>3, LearnerAssumptions, LP!TypeCorrect, LP!PrefixTheorem, PTL

THEOREM TypeCorrect == Spec => []TypeOK
<1>1. Init => starting \subseteq Server
  BY LateAssumption DEF Init, LaptopInit
<1>2. starting \subseteq Server /\ [Next]_vars => (starting \subseteq Server)'
  <2>1. [Next]_vars => UNCHANGED starting \/ \E s \in Server : Start(s)
    BY Zenon DEF Next, ScoutStep, BrokenPipe, Engineer, Learn, Crash, Terminating, vars
  <2> QED
    BY <2>1 DEF Start
<1>3. CoreTypeOK /\ LP!TypeOK /\ starting \subseteq Server => TypeOK
  BY DEF CoreTypeOK, ScoutTypeOK, TypeOK, L!TypeOK, LP!TypeOK, L!LogLine, LP!LogLine
<1> QED
  BY <1>1, <1>2, <1>3, CoreType, LearnerInvariants, PTL DEF Spec

(***************************************************************************)
(* slot_in[p] is a slot up to which everything is in decisionMap[p], and   *)
(* slot_out[p] is the first slot that is not.                              *)
(***************************************************************************)
THEOREM SlotInTheorem == Spec => []SlotInBehind
<1>1. Init => SlotInBehind
  BY ProposerAssumption DEF Init, LaptopInit, SlotInBehind
<1>2. /\ CoreTypeOK /\ LP!TypeOK /\ LP!PrefixDecided
      /\ SlotInBehind /\ [Next]_vars
      => SlotInBehind'
  <2> SUFFICES ASSUME CoreTypeOK, LP!TypeOK, LP!PrefixDecided, SlotInBehind, [Next]_vars
               PROVE  SlotInBehind'
    OBVIOUS
  <2>1. /\ slot_in \in [Proposer -> Int]
        /\ slot_out \in [Server -> Int]
        /\ Proposer \subseteq Server
    BY ProposerAssumption DEF CoreTypeOK, ScoutTypeOK, LP!TypeOK
  <2>2. ASSUME NEW p \in Proposer, ProposeOwn(p) PROVE SlotInBehind'
    <3>1. PICK g \in L!LoopRange(decisionMap[p], slot_in[p]) :
            /\ L!IsFirstGap(decisionMap[p], slot_in[p], g)
            /\ slot_in' = [slot_in EXCEPT ![p] = g]
            /\ slot_out' = slot_out
      BY <2>2 DEF ProposeOwn, FreeSlots, EnterAccept, learnVars
    <3>2. g \in Int
      <4>1. decisionMap[p] \in SUBSET Command /\ slot_in[p] \in Int
        BY <2>1 DEF CoreTypeOK, ScoutTypeOK
      <4>2. g \in LP!LoopRange(decisionMap[p], slot_in[p])
        BY DEF L!LoopRange, LP!LoopRange, L!Slots, LP!Slots
      <4> QED
        BY <4>1, <4>2, LearnerAssumptions, LP!LoopRangeInt
    <3>3. slot_out[p] \notin L!Slots(decisionMap[p])
      BY <2>1 DEF LP!PrefixDecided, LP!Slots, L!Slots
    <3>4. slot_in[p] <= slot_out[p]
      BY DEF SlotInBehind
    <3>5. slot_in[p] .. (g - 1) \subseteq L!Slots(decisionMap[p])
      BY <3>1 DEF L!IsFirstGap
    <3>6. g <= slot_out[p]
      BY <3>2, <3>3, <3>4, <3>5, <2>1
    <3> QED
      BY <3>1, <3>2, <3>6, <2>1 DEF SlotInBehind
  <2>3. ASSUME NEW l \in Server, NEW p \in Proposer, Learn(l, p) PROVE SlotInBehind'
    <3>1. PICK g \in L!LoopRange(L!Store(decisionMap[l], Head(learnq[p][l])), slot_out[l]) :
            /\ slot_out[l] <= g
            /\ slot_out' = [slot_out EXCEPT ![l] = g]
            /\ slot_in' = slot_in
      BY <2>3 DEF Learn, L!Learn, L!IsFirstGap, scoutVars
    <3>2. slot_out' \in [Server -> Int]
      <4>1. learnq[p][l] \in Seq(Command) /\ learnq[p][l] # <<>>
        BY <2>3 DEF Learn, CoreTypeOK, ScoutTypeOK
      <4>2. Head(learnq[p][l]) \in Command
        BY <4>1
      <4>3. LP!Store(decisionMap[l], Head(learnq[p][l])) \in SUBSET Command
        BY <4>2 DEF CoreTypeOK, ScoutTypeOK, LP!Store
      <4>4. g \in LP!LoopRange(LP!Store(decisionMap[l], Head(learnq[p][l])), slot_out[l])
        BY DEF L!LoopRange, LP!LoopRange, L!Slots, LP!Slots, L!Store, LP!Store
      <4>5. g \in Int
        BY <2>1, <4>3, <4>4, LearnerAssumptions, LP!LoopRangeInt
      <4> QED
        BY <2>1, <3>1, <4>5
    <3>3. \A k \in Server : slot_out[k] <= slot_out'[k]
      BY <2>1, <3>1
    <3> QED
      BY <2>1, <3>1, <3>2, <3>3 DEF SlotInBehind
  <2>4. CASE UNCHANGED <<slot_in, slot_out>>
    BY <2>4 DEF SlotInBehind
  <2>5. \/ \E p \in Proposer : ProposeOwn(p)
        \/ \E l \in Server, p \in Proposer : Learn(l, p)
        \/ UNCHANGED <<slot_in, slot_out>>
    <3>1. ASSUME NEW p \in Proposer, ScoutStep(p)
          PROVE  ProposeOwn(p) \/ UNCHANGED <<slot_in, slot_out>>
      <4> USE DEF learnVars
      <4>1. CASE \E s \in Server :
                   \/ ConnectAcceptor(p, s) \/ IdentifyAcceptor(p, s)
                   \/ SendP1a(p, s) \/ P1aFails(p, s) \/ RecvP1b(p, s)
                   \/ SendP2a(p, s) \/ P2aFails(p, s) \/ RecvP2b(p, s)
                   \/ ConnectLearner(p, s) \/ IdentifyLearner(p, s)
                   \/ SendLearn(p, s) \/ SendLearnFails(p, s)
        BY <4>1, Zenon
           DEF ConnectAcceptor, IdentifyAcceptor, SendP1a, P1aFails, RecvP1b, SendP2a,
               P2aFails, RecvP2b, ConnectLearner, IdentifyLearner, SendLearn, SendLearnFails
      <4>2. CASE PrepareUnavailable(p) \/ GiveUpOwn(p) \/ AcceptUnavailable(p) \/ AnswerOk(p)
        BY <4>2, Zenon
           DEF PrepareUnavailable, GiveUpOwn, AcceptUnavailable, AnswerOk, Answer
      <4>3. CASE \/ TakeOrder(p) \/ AcceptorsConnected(p) \/ NextRound(p)
                 \/ ProposeSystem(p) \/ StartCommander(p) \/ Restart(p)
                 \/ LearnersConnected(p)
        BY <4>3, Zenon
           DEF TakeOrder, AcceptorsConnected, NextRound, ProposeSystem, EnterAccept,
               StartCommander, Restart, LearnersConnected
      <4> QED
        BY <3>1, <4>1, <4>2, <4>3, Zenon DEF ScoutStep
    <3>2. [Next]_vars => \/ \E p \in Proposer : ScoutStep(p)
                         \/ \E l \in Server, p \in Proposer : Learn(l, p)
                         \/ UNCHANGED <<slot_in, slot_out>>
      BY EveryStep, Zenon DEF Engineer, Die, Start, vars, learnVars, scoutVars
    <3> QED
      BY <3>1, <3>2, Zenon
  <2> QED
    BY <2>2, <2>3, <2>4, <2>5
<1> QED
  BY <1>1, <1>2, CoreType, LearnerInvariants, PTL DEF Spec
-----------------------------------------------------------------------------
(***************************************************************************)
(* The inductive invariant behind the two theorems about votes.            *)
(***************************************************************************)
PromisedAt(a, n) == \E m \in promises : m.acceptor = a /\ m.number = n

VotedFor(a, n, c) == [acceptor |-> a, number |-> n, cmd |-> c] \in votes

\* An engineer that is not idle has the message its proposer waits to be answered.
MessageOf(p) ==
  IF pc[p] = "p1b" THEN P1a(proposalNumber[p]) ELSE P2a(proposalNumber[p], ballot[p].cmd)

WaitsFor(p, a) ==
  /\ pc[p] \in {"p1b", "p2b"}
  /\ a \in todo[p]
  /\ \A b \in todo[p] : a <= b
  /\ request[a][p] = MessageOf(p)

\* What an engineer knows at each of its stages.
StageOK(a, p) ==
  /\ stage[a][p] \in {"promise", "seeAccepted", "copySlot", "copyOrder", "reject"} =>
       request[a][p].phase = 1
  /\ stage[a][p] \in {"accept", "acceptSlot", "acceptOrder"} =>
       request[a][p].phase = 3 /\ PromisedAt(a, request[a][p].number)
  /\ stage[a][p] \in {"received", "accept", "acceptSlot", "acceptOrder"} =>
       reply[a][p].agree = 0
  /\ stage[a][p] = "replied" /\ request[a][p].phase = 3 /\ reply[a][p].agree = 1 =>
       VotedFor(a, request[a][p].number, request[a][p].cmd)

EngineerOK ==
  \A a \in Server, p \in Proposer :
    /\ stage[a][p] # "idle" => WaitsFor(p, a)
    /\ ~alive[a] => stage[a][p] \in {"idle", "replied"}
    /\ StageOK(a, p)

NumberPromised ==
  \A a \in Server : promisedProposalNumber[a] # -1 => PromisedAt(a, promisedProposalNumber[a])

\* accept_number counts acceptors that have been visited and have agreed.
AgreedVotedBy(p) ==
  pc[p] \in {"accept", "p2b"} =>
    ballot[p].agreed <= Cardinality(Voters(proposalNumber[p], ballot[p].cmd) \ todo[p])

AgreedVoted == \A p \in Proposer : AgreedVotedBy(p)

\* A commander's command has a majority in its scout's number.
CommanderChosenBy(p) ==
  pc[p] \in {"connectLearners", "learn"} => ChosenIn(proposalNumber[p], ballot[p].cmd)

CommanderChosen == \A p \in Proposer : CommanderChosenBy(p)

PromiseInv == EngineerOK /\ NumberPromised /\ PromiseBeforeVote

(***************************************************************************)
(* What a scout's step leaves alone: the other scouts, and but for the     *)
(* four steps that exchange messages, the acceptors.                       *)
(***************************************************************************)
OthersSame(p) ==
  \A q \in Proposer \ {p} : /\ pc'[q] = pc[q]
                           /\ todo'[q] = todo[q]
                           /\ proposalNumber'[q] = proposalNumber[q]
                           /\ ballot'[q] = ballot[q]

Exchange(p, a) == SendP1a(p, a) \/ SendP2a(p, a) \/ RecvP1b(p, a) \/ RecvP2b(p, a)

LEMMA ScoutFrame ==
  ASSUME CoreTypeOK, NEW p \in Proposer, ScoutStep(p)
  PROVE  /\ OthersSame(p)
         /\ UNCHANGED alive
         /\ \/ pc[p] \notin {"p1b", "p2b"} /\ UNCHANGED acceptorVars
            \/ \E a \in Server : Exchange(p, a)
<1> USE DEF CoreTypeOK, ScoutTypeOK, OthersSame, Goto
<1>1. ASSUME NEW told, Answer(p, told) PROVE OthersSame(p)
  BY <1>1 DEF Answer
<1>2. CASE TakeOrder(p)
  <2>1. Goto(p, "prepare", Acceptors(p)) \/ Goto(p, "connect", Server)
    BY <1>2, Zenon DEF TakeOrder, Begin
  <2>2. OthersSame(p)
    <3>1. CASE Goto(p, "prepare", Acceptors(p))
      BY <1>2, <3>1 DEF TakeOrder
    <3>2. CASE Goto(p, "connect", Server)
      BY <1>2, <3>2 DEF TakeOrder
    <3> QED
      BY <2>1, <3>1, <3>2
  <2> QED
    BY <1>2, <2>2 DEF TakeOrder
<1>3. CASE AcceptorsConnected(p)
  BY <1>3 DEF AcceptorsConnected, Done
<1>4. CASE PrepareUnavailable(p)
  BY <1>1, <1>4 DEF PrepareUnavailable, Done
<1>5. CASE NextRound(p)
  BY <1>5 DEF NextRound, Rejected, Done
<1>6. CASE ProposeOwn(p)
  BY <1>6 DEF ProposeOwn, EnterAccept, Prepared, Done
<1>7. CASE ProposeSystem(p)
  BY <1>7 DEF ProposeSystem, EnterAccept, Prepared, Done
<1>8. CASE StartCommander(p)
  <2>1. Goto(p, "learn", Learners(p)) \/ Goto(p, "connectLearners", Server)
    BY <1>8, Zenon DEF StartCommander
  <2>2. OthersSame(p)
    <3>1. CASE Goto(p, "learn", Learners(p))
      BY <1>8, <3>1 DEF StartCommander
    <3>2. CASE Goto(p, "connectLearners", Server)
      BY <1>8, <3>2 DEF StartCommander
    <3> QED
      BY <2>1, <3>1, <3>2
  <2> QED
    BY <1>8, <2>2 DEF StartCommander, Done
<1>9. CASE Restart(p)
  BY <1>9 DEF Restart, Done
<1>10. CASE GiveUpOwn(p)
  BY <1>1, <1>10 DEF GiveUpOwn, Done
<1>11. CASE AcceptUnavailable(p)
  BY <1>1, <1>11 DEF AcceptUnavailable, Done
<1>12. CASE LearnersConnected(p)
  BY <1>12 DEF LearnersConnected, Done
<1>13. CASE AnswerOk(p)
  BY <1>1, <1>13 DEF AnswerOk, Done
<1>14. ASSUME NEW s \in Server,
              ConnectAcceptor(p, s) \/ IdentifyAcceptor(p, s) \/ P1aFails(p, s) \/ P2aFails(p, s)
                \/ ConnectLearner(p, s) \/ IdentifyLearner(p, s)
                \/ SendLearn(p, s) \/ SendLearnFails(p, s)
       PROVE  /\ OthersSame(p)
              /\ UNCHANGED alive
              /\ pc[p] \notin {"p1b", "p2b"}
              /\ UNCHANGED acceptorVars
  BY <1>14 DEF ConnectAcceptor, IdentifyAcceptor, P1aFails, P2aFails, ConnectLearner,
               IdentifyLearner, SendLearn, SendLearnFails, At
<1>15. ASSUME NEW a \in Server, Exchange(p, a) PROVE OthersSame(p) /\ UNCHANGED alive
  BY <1>15 DEF Exchange, SendP1a, SendP2a, RecvP1b, RecvP2b
<1> QED
  BY <1>2, <1>3, <1>4, <1>5, <1>6, <1>7, <1>8, <1>9, <1>10, <1>11, <1>12, <1>13, <1>14, <1>15
     DEF ScoutStep, Exchange

(***************************************************************************)
(* A scout that does not wait for a reply has no engineer at work, so a    *)
(* step of it that leaves the acceptors alone keeps the invariant.         *)
(***************************************************************************)
LEMMA QuietScout ==
  ASSUME CoreTypeOK, PromiseInv, NEW p \in Proposer, pc[p] \notin {"p1b", "p2b"}
  PROVE  \A a \in Server : stage[a][p] = "idle"
BY DEF PromiseInv, EngineerOK, WaitsFor

LEMMA ScoutAlone ==
  ASSUME CoreTypeOK, PromiseInv, NEW p \in Proposer, OthersSame(p), UNCHANGED alive,
         pc[p] \notin {"p1b", "p2b"}, UNCHANGED acceptorVars
  PROVE  PromiseInv'
<1> USE DEF acceptorVars
<1>1. EngineerOK'
  <2> SUFFICES ASSUME NEW a \in Server, NEW q \in Proposer
               PROVE  /\ stage'[a][q] # "idle" => WaitsFor(q, a)'
                      /\ ~alive'[a] => stage'[a][q] \in {"idle", "replied"}
                      /\ StageOK(a, q)'
    BY DEF EngineerOK
  <2>1. StageOK(a, q)'
    BY DEF PromiseInv, EngineerOK, StageOK, PromisedAt, VotedFor
  <2>2. stage'[a][q] # "idle" => WaitsFor(q, a)'
    <3>1. CASE q = p
      BY <3>1, QuietScout
    <3>2. CASE q # p
      BY <3>2 DEF PromiseInv, EngineerOK, WaitsFor, MessageOf, OthersSame
    <3> QED
      BY <3>1, <3>2
  <2> QED
    BY <2>1, <2>2 DEF PromiseInv, EngineerOK
<1>2. NumberPromised' /\ PromiseBeforeVote'
  BY DEF PromiseInv, NumberPromised, PromiseBeforeVote, PromisedAt
<1> QED
  BY <1>1, <1>2 DEF PromiseInv

(***************************************************************************)
(* A message is sent, and the engineer takes it or the acceptor is dead.   *)
(***************************************************************************)
LEMMA SendKeeps ==
  ASSUME CoreTypeOK, PromiseInv, NEW p \in Proposer, NEW a \in Server,
         OthersSame(p), UNCHANGED alive,
         SendP1a(p, a) \/ SendP2a(p, a)
  PROVE  PromiseInv'
<1> DEFINE msg == IF pc'[p] = "p1b" THEN P1a(proposalNumber[p])
                                    ELSE P2a(proposalNumber[p], ballot[p].cmd)
<1>1. /\ pc[p] \notin {"p1b", "p2b"}
      /\ pc'[p] \in {"p1b", "p2b"}
      /\ todo' = todo
      /\ a \in todo[p]
      /\ \A b \in todo[p] : a <= b
      /\ proposalNumber' = proposalNumber
      /\ ballot'[p].cmd = ballot[p].cmd
  BY DEF SendP1a, SendP2a, At, Goto, CoreTypeOK, ScoutTypeOK, Ballot
<1>2. SendTo(p, a, msg)
  BY DEF SendP1a, SendP2a, Goto, CoreTypeOK, ScoutTypeOK
<1>3. msg.phase \in {1, 3} /\ MessageOf(p)' = msg
  BY <1>1 DEF MessageOf, P1a, P2a, NoMsg
<1> HIDE DEF msg
<1>4. CASE UNCHANGED acceptorVars
  BY <1>1, <1>4, ScoutAlone
<1>5. CASE alive[a] /\ Receive(a, p, msg)
  <2>1. \A b \in Server : stage[b][p] = "idle"
    BY <1>1, QuietScout
  <2>2. /\ stage' = [stage EXCEPT ![a][p] = "received"]
        /\ request' = [request EXCEPT ![a][p] = msg]
        /\ reply' = [reply EXCEPT ![a][p] = [NoMsg EXCEPT !.phase = msg.phase + 1]]
        /\ UNCHANGED <<promisedProposalNumber, votes, promises>>
    BY <1>5 DEF Receive, Move
  <2>3. EngineerOK'
    <3> SUFFICES ASSUME NEW b \in Server, NEW q \in Proposer
                 PROVE  /\ stage'[b][q] # "idle" => WaitsFor(q, b)'
                        /\ ~alive'[b] => stage'[b][q] \in {"idle", "replied"}
                        /\ StageOK(b, q)'
      BY DEF EngineerOK
    <3>1. CASE b = a /\ q = p
      <4>1. /\ stage'[a][p] = "received"
            /\ request'[a][p] = msg
            /\ reply'[a][p].agree = 0
        BY <2>2 DEF CoreTypeOK, AcceptorTypeOK, NoMsg
      <4>2. WaitsFor(p, a)'
        BY <4>1, <1>1, <1>3 DEF WaitsFor
      <4> QED
        BY <3>1, <4>1, <4>2, <1>5 DEF StageOK
    <3>2. CASE ~(b = a /\ q = p)
      <4>1. /\ stage'[b][q] = stage[b][q]
            /\ request'[b][q] = request[b][q]
            /\ reply'[b][q] = reply[b][q]
        BY <3>2, <2>2 DEF CoreTypeOK, AcceptorTypeOK
      <4>2. StageOK(b, q)'
        BY <4>1, <2>2 DEF PromiseInv, EngineerOK, StageOK, PromisedAt, VotedFor
      <4>3. stage'[b][q] # "idle" => WaitsFor(q, b)'
        <5>1. CASE q = p
          BY <5>1, <4>1, <2>1
        <5>2. CASE q # p
          BY <5>2, <4>1 DEF PromiseInv, EngineerOK, WaitsFor, MessageOf, OthersSame
        <5> QED
          BY <5>1, <5>2
      <4> QED
        BY <4>1, <4>2, <4>3 DEF PromiseInv, EngineerOK
    <3> QED
      BY <3>1, <3>2
  <2>4. NumberPromised' /\ PromiseBeforeVote'
    BY <2>2 DEF PromiseInv, NumberPromised, PromiseBeforeVote, PromisedAt
  <2> QED
    BY <2>3, <2>4 DEF PromiseInv
<1> QED
  BY <1>2, <1>4, <1>5 DEF SendTo

(***************************************************************************)
(* A reply is read, or the receive fails: all of p's engineers are idle.   *)
(***************************************************************************)
LEMMA ReceiveKeeps ==
  ASSUME CoreTypeOK, PromiseInv, NEW p \in Proposer, NEW a \in Server,
         OthersSame(p), UNCHANGED alive,
         RecvP1b(p, a) \/ RecvP2b(p, a)
  PROVE  PromiseInv'
<1>1. /\ a \in todo[p]
      /\ \A b \in todo[p] : a <= b
      /\ \E msg \in PossibleReplies(p, a) : ReceiveFrom(p, a, msg)
  BY DEF RecvP1b, RecvP2b, At
<1>2. \A b \in Server : b # a => stage[b][p] = "idle"
  <2> SUFFICES ASSUME NEW b \in Server, stage[b][p] # "idle" PROVE b = a
    OBVIOUS
  <2>1. b \in todo[p] /\ (\A c \in todo[p] : b <= c)
    BY DEF PromiseInv, EngineerOK, WaitsFor
  <2>2. a <= b /\ b <= a /\ a \in Nat /\ b \in Nat
    BY <1>1, <2>1, ServerAssumption
  <2> QED
    BY <2>2
<1>3. /\ UNCHANGED <<promisedProposalNumber, votes, promises>>
      /\ \/ /\ stage' = [stage EXCEPT ![a][p] = "idle"]
            /\ request' = [request EXCEPT ![a][p] = NoMsg]
            /\ reply' = [reply EXCEPT ![a][p] = NoMsg]
         \/ /\ ~alive[a] /\ stage[a][p] # "replied"
            /\ UNCHANGED <<stage, request, reply>>
  BY <1>1 DEF ReceiveFrom, Release, Move, acceptorVars
<1>4. /\ stage'[a][p] = "idle"
      /\ \A b \in Server, q \in Proposer : ~(b = a /\ q = p) =>
           /\ stage'[b][q] = stage[b][q]
           /\ request'[b][q] = request[b][q]
           /\ reply'[b][q] = reply[b][q]
  <2>1. CASE /\ stage' = [stage EXCEPT ![a][p] = "idle"]
             /\ request' = [request EXCEPT ![a][p] = NoMsg]
             /\ reply' = [reply EXCEPT ![a][p] = NoMsg]
    BY <2>1 DEF CoreTypeOK, AcceptorTypeOK
  <2>2. CASE /\ ~alive[a] /\ stage[a][p] # "replied"
             /\ UNCHANGED <<stage, request, reply>>
    BY <2>2 DEF PromiseInv, EngineerOK
  <2> QED
    BY <1>3, <2>1, <2>2
<1>5. EngineerOK'
  <2> SUFFICES ASSUME NEW b \in Server, NEW q \in Proposer
               PROVE  /\ stage'[b][q] # "idle" => WaitsFor(q, b)'
                      /\ ~alive'[b] => stage'[b][q] \in {"idle", "replied"}
                      /\ StageOK(b, q)'
    BY DEF EngineerOK
  <2>1. CASE b = a /\ q = p
    BY <2>1, <1>4 DEF StageOK
  <2>2. CASE ~(b = a /\ q = p)
    <3>1. /\ stage'[b][q] = stage[b][q]
          /\ request'[b][q] = request[b][q]
          /\ reply'[b][q] = reply[b][q]
      BY <2>2, <1>4
    <3>2. StageOK(b, q)'
      BY <3>1, <1>3 DEF PromiseInv, EngineerOK, StageOK, PromisedAt, VotedFor
    <3>3. stage'[b][q] # "idle" => WaitsFor(q, b)'
      <4>1. CASE q = p
        BY <2>2, <4>1, <3>1, <1>2
      <4>2. CASE q # p
        BY <4>2, <3>1 DEF PromiseInv, EngineerOK, WaitsFor, MessageOf, OthersSame
      <4> QED
        BY <4>1, <4>2
    <3> QED
      BY <3>1, <3>2, <3>3 DEF PromiseInv, EngineerOK
  <2> QED
    BY <2>1, <2>2
<1>6. NumberPromised' /\ PromiseBeforeVote'
  BY <1>3 DEF PromiseInv, NumberPromised, PromiseBeforeVote, PromisedAt
<1> QED
  BY <1>5, <1>6 DEF PromiseInv

(***************************************************************************)
(* An engineer executes a statement.  TestAccept finds the number of the   *)
(* request promised; that it is still what promisedProposalNumber holds    *)
(* when the vote is cast does not matter.                                  *)
(***************************************************************************)
LEMMA EngineerKeeps ==
  ASSUME CoreTypeOK, PromiseInv, NEW a \in Server, NEW p \in Proposer, Engineer(a, p)
  PROVE  PromiseInv'
<1> DEFINE m == request[a][p]
<1>1. /\ UNCHANGED <<alive, pc, todo, proposalNumber, ballot, request>>
      /\ alive[a]
      /\ EngineerStep(a, p)
  BY DEF Engineer, scoutVars, EngineerStep, TestPrepare, Promise, Reject, SeeAccepted,
         CopySlot, CopyOrder, TestAccept, AcceptNumber, AcceptSlot, AcceptOrder
<1>2. /\ stage[a][p] # "idle"
      /\ \A b \in Server, q \in Proposer : ~(b = a /\ q = p) =>
           stage'[b][q] = stage[b][q] /\ reply'[b][q] = reply[b][q]
  BY <1>1 DEF EngineerStep, TestPrepare, Promise, Reject, SeeAccepted, CopySlot, CopyOrder,
              TestAccept, AcceptNumber, AcceptSlot, AcceptOrder, Move, CoreTypeOK,
              AcceptorTypeOK
<1>3. votes \subseteq votes' /\ promises \subseteq promises'
  BY <1>1 DEF EngineerStep, TestPrepare, Promise, Reject, SeeAccepted, CopySlot, CopyOrder,
              TestAccept, AcceptNumber, AcceptSlot, AcceptOrder
<1>4. StageOK(a, p)
  BY DEF PromiseInv, EngineerOK
<1>5. WaitsFor(p, a) /\ m.number # -1
  <2>1. WaitsFor(p, a)
    BY <1>2 DEF PromiseInv, EngineerOK
  <2>2. proposalNumber[p] \in Nat
    BY DEF CoreTypeOK, ScoutTypeOK
  <2> QED
    BY <2>1, <2>2 DEF WaitsFor, MessageOf, P1a, P2a, NoMsg
<1>6. /\ UNCHANGED promisedProposalNumber => NumberPromised'
      /\ UNCHANGED votes => PromiseBeforeVote'
  <2>1. \A b \in Server : \A n : PromisedAt(b, n) => PromisedAt(b, n)'
    BY <1>3 DEF PromisedAt
  <2>2. UNCHANGED promisedProposalNumber => NumberPromised'
    BY <2>1 DEF PromiseInv, NumberPromised
  <2>3. UNCHANGED votes => PromiseBeforeVote'
    BY <1>3 DEF PromiseInv, PromiseBeforeVote
  <2> QED
    BY <2>2, <2>3
<1>7. /\ StageOK(a, p)'
      /\ NumberPromised'
      /\ PromiseBeforeVote'
  <2> USE <1>1, <1>4 DEF StageOK, PromisedAt, VotedFor, CoreTypeOK, AcceptorTypeOK, Move
  <2>2. CASE TestPrepare(a, p)
    BY <1>6, <2>2 DEF TestPrepare
  <2>3. CASE Promise(a, p)
    <3>1. [acceptor |-> a, proposer |-> p, number |-> m.number] \in promises'
      BY <2>3 DEF Promise
    <3>2. NumberPromised'
      BY <1>3, <2>3, <3>1 DEF Promise, PromiseInv, NumberPromised
    <3>3. StageOK(a, p)'
      BY <2>3 DEF Promise
    <3> QED
      BY <1>6, <2>3, <3>2, <3>3 DEF Promise
  <2>4. CASE Reject(a, p) \/ SeeAccepted(a, p) \/ CopySlot(a, p) \/ CopyOrder(a, p)
    BY <1>6, <2>4 DEF Reject, SeeAccepted, CopySlot, CopyOrder
  <2>5. CASE TestAccept(a, p)
    <3>1. MayAccept(a, m.number) => PromisedAt(a, m.number)
      BY <1>5 DEF MayAccept, PromiseInv, NumberPromised
    <3>2. stage'[a][p] = IF MayAccept(a, m.number) THEN "accept" ELSE "replied"
      BY <2>5 DEF TestAccept
    <3>3. stage[a][p] = "received" /\ m.phase = 3 /\ UNCHANGED <<reply, votes, promises>>
      BY <2>5 DEF TestAccept
    <3>4. StageOK(a, p)'
      BY <3>1, <3>2, <3>3
    <3> QED
      BY <1>6, <2>5, <3>4 DEF TestAccept
  <2>6. CASE AcceptNumber(a, p) \/ AcceptSlot(a, p)
    BY <1>6, <2>6 DEF AcceptNumber, AcceptSlot
  <2>7. CASE AcceptOrder(a, p)
    <3>1. PromisedAt(a, m.number)
      BY <2>7 DEF AcceptOrder
    <3>2. PromiseBeforeVote'
      BY <2>7, <3>1 DEF AcceptOrder, PromiseInv, PromiseBeforeVote
    <3>3. StageOK(a, p)'
      BY <2>7 DEF AcceptOrder
    <3> QED
      BY <1>6, <2>7, <3>2, <3>3 DEF AcceptOrder
  <2> QED
    BY <2>2, <2>3, <2>4, <2>5, <2>6, <2>7 DEF EngineerStep
<1>8. EngineerOK'
  <2> SUFFICES ASSUME NEW b \in Server, NEW q \in Proposer
               PROVE  /\ stage'[b][q] # "idle" => WaitsFor(q, b)'
                      /\ ~alive'[b] => stage'[b][q] \in {"idle", "replied"}
                      /\ StageOK(b, q)'
    BY DEF EngineerOK
  <2>1. WaitsFor(q, b) => WaitsFor(q, b)'
    BY <1>1 DEF WaitsFor, MessageOf
  <2>2. CASE b = a /\ q = p
    BY <2>1, <2>2, <1>1, <1>5, <1>7
  <2>3. CASE ~(b = a /\ q = p)
    <3>1. StageOK(b, q)'
      BY <2>3, <1>1, <1>2, <1>3 DEF PromiseInv, EngineerOK, StageOK, PromisedAt, VotedFor
    <3> QED
      BY <2>1, <2>3, <3>1, <1>1, <1>2 DEF PromiseInv, EngineerOK
  <2> QED
    BY <2>2, <2>3
<1> QED
  BY <1>7, <1>8, SMTT(30) DEF PromiseInv

(***************************************************************************)
(* A crash takes an engineer back to "idle", or leaves its reply to arrive. *)
(***************************************************************************)
LEMMA CrashKeeps ==
  ASSUME CoreTypeOK, PromiseInv, NEW s \in Server, Die(s)
  PROVE  PromiseInv'
<1>1. /\ UNCHANGED <<pc, todo, proposalNumber, ballot, promisedProposalNumber, votes,
                     promises>>
      /\ alive' = [alive EXCEPT ![s] = FALSE]
  BY DEF Die, scoutVars
<1>2. \A b \in Server, q \in Proposer :
        \/ /\ stage'[b][q] = stage[b][q]
           /\ request'[b][q] = request[b][q]
           /\ reply'[b][q] = reply[b][q]
           /\ b = s => stage[b][q] = "replied"
        \/ /\ stage'[b][q] = "idle"
           /\ b = s
  BY DEF Die, CoreTypeOK, AcceptorTypeOK
<1>3. EngineerOK'
  <2> SUFFICES ASSUME NEW b \in Server, NEW q \in Proposer
               PROVE  /\ stage'[b][q] # "idle" => WaitsFor(q, b)'
                      /\ ~alive'[b] => stage'[b][q] \in {"idle", "replied"}
                      /\ StageOK(b, q)'
    BY DEF EngineerOK
  <2>1. CASE /\ stage'[b][q] = stage[b][q]
             /\ request'[b][q] = request[b][q]
             /\ reply'[b][q] = reply[b][q]
             /\ b = s => stage[b][q] = "replied"
    <3>1. StageOK(b, q)'
      BY <2>1, <1>1 DEF PromiseInv, EngineerOK, StageOK, PromisedAt, VotedFor
    <3>2. stage'[b][q] # "idle" => WaitsFor(q, b)'
      BY <2>1, <1>1 DEF PromiseInv, EngineerOK, WaitsFor, MessageOf
    <3>3. ~alive'[b] => stage'[b][q] \in {"idle", "replied"}
      BY <2>1, <1>1 DEF PromiseInv, EngineerOK, CoreTypeOK, ScoutTypeOK
    <3> QED
      BY <3>1, <3>2, <3>3
  <2>2. CASE stage'[b][q] = "idle" /\ b = s
    BY <2>2 DEF StageOK
  <2> QED
    BY <1>2, <2>1, <2>2
<1>4. NumberPromised' /\ PromiseBeforeVote'
  BY <1>1 DEF PromiseInv, NumberPromised, PromiseBeforeVote, PromisedAt
<1> QED
  BY <1>3, <1>4 DEF PromiseInv

LEMMA PromiseStep ==
  ASSUME CoreTypeOK, PromiseInv, [Next]_vars PROVE PromiseInv'
<1>1. ASSUME NEW p \in Proposer, ScoutStep(p) PROVE PromiseInv'
  <2>1. /\ OthersSame(p)
        /\ UNCHANGED alive
        /\ \/ pc[p] \notin {"p1b", "p2b"} /\ UNCHANGED acceptorVars
           \/ \E a \in Server : Exchange(p, a)
    BY <1>1, ScoutFrame
  <2>2. CASE pc[p] \notin {"p1b", "p2b"} /\ UNCHANGED acceptorVars
    BY <2>1, <2>2, ScoutAlone
  <2>3. ASSUME NEW a \in Server, Exchange(p, a) PROVE PromiseInv'
    BY <2>1, <2>3, SendKeeps, ReceiveKeeps DEF Exchange
  <2> QED
    BY <2>1, <2>2, <2>3
<1>2. ASSUME UNCHANGED <<acceptorVars, scoutVars>>, \A a \in Server : alive[a] => alive'[a]
      PROVE  PromiseInv'
  <2> USE <1>2 DEF acceptorVars, scoutVars
  <2>1. EngineerOK'
    BY DEF PromiseInv, EngineerOK, WaitsFor, MessageOf, StageOK, PromisedAt, VotedFor
  <2> QED
    BY <2>1 DEF PromiseInv, NumberPromised, PromiseBeforeVote, PromisedAt
<1>3. ASSUME NEW s \in Server, Start(s) PROVE PromiseInv'
  BY <1>2, <1>3 DEF Start, CoreTypeOK, ScoutTypeOK
<1>4. \/ \E p \in Proposer : ScoutStep(p)
      \/ \E a \in Server, p \in Proposer : Engineer(a, p)
      \/ \E s \in Server : Die(s) \/ Start(s)
      \/ UNCHANGED <<acceptorVars, alive, scoutVars>>
  BY EveryStep, Zenon DEF Learn, vars
<1> QED
  BY <1>1, <1>2, <1>3, <1>4, EngineerKeeps, CrashKeeps

THEOREM PromiseInvariant == Spec => []PromiseInv
<1>1. Init => PromiseInv
  BY DEF Init, AcceptorInit, LaptopInit, PromiseInv, EngineerOK, StageOK, NumberPromised,
         PromiseBeforeVote
<1>2. CoreTypeOK /\ PromiseInv /\ [Next]_vars => PromiseInv'
  BY PromiseStep
<1> QED
  BY <1>1, <1>2, CoreType, PTL DEF Spec

(***************************************************************************)
(* An acceptor votes in a number only after it has promised that number,   *)
(* although its engineers test and write the number without a lock.        *)
(***************************************************************************)
THEOREM PromiseBeforeVoteTheorem == Spec => []PromiseBeforeVote
BY PromiseInvariant, PTL DEF PromiseInv
-----------------------------------------------------------------------------
(***************************************************************************)
(* What is learned was chosen.  Votes are never withdrawn, so it is enough *)
(* that accept_number counts votes.                                        *)
(***************************************************************************)
ChosenInv == AgreedVoted /\ CommanderChosen /\ LearnedIsChosen

LEMMA VotersFinite ==
  /\ Half \in Nat
  /\ \A n, c, T : /\ IsFiniteSet(Voters(n, c) \ T)
                  /\ Cardinality(Voters(n, c) \ T) \in Nat
<1>1. Cardinality(Server) \in Nat
  BY ServerAssumption, FS_CardinalityType
<1>2. \A n, c, T : IsFiniteSet(Voters(n, c) \ T)
  <2> TAKE n, c, T
  <2>1. Voters(n, c) \ T \subseteq Server
    BY DEF Voters
  <2> QED
    BY <2>1, ServerAssumption, FS_Subset
<1>3. \A n, c, T : Cardinality(Voters(n, c) \ T) \in Nat
  BY <1>2, FS_CardinalityType
<1>4. Half \in Nat
  BY <1>1 DEF Half
<1> QED
  BY <1>2, <1>3, <1>4

LEMMA ChosenInChosen ==
  ASSUME NEW n, NEW c, ChosenIn(n, c) PROVE Chosen(c)
<1>1. /\ IsFiniteSet(Voters(n, c) \ {})
      /\ Cardinality(Voters(n, c) \ {}) \in Nat
      /\ Half \in Nat
  BY VotersFinite
<1>2. Voters(n, c) \ {} = Voters(n, c)
  OBVIOUS
<1>3. Cardinality(Voters(n, c)) # 0
  BY <1>1, <1>2 DEF ChosenIn
<1>4. PICK a \in Server : [acceptor |-> a, number |-> n, cmd |-> c] \in votes
  BY <1>1, <1>2, <1>3, FS_EmptySet DEF Voters
<1> QED
  BY <1>4 DEF Chosen

LEMMA VotersGrow ==
  ASSUME votes \subseteq votes'
  PROVE  /\ \A n, c, T : Cardinality(Voters(n, c) \ T) <= Cardinality(Voters(n, c)' \ T)
         /\ \A n, c : ChosenIn(n, c) => ChosenIn(n, c)'
         /\ \A c : Chosen(c) => Chosen(c)'
<1>1. \A n, c, T : /\ IsFiniteSet(Voters(n, c)' \ T)
                   /\ Cardinality(Voters(n, c)' \ T) \in Nat
  <2> TAKE n, c, T
  <2>1. Voters(n, c)' \ T \subseteq Server
    BY DEF Voters
  <2> QED
    BY <2>1, ServerAssumption, FS_Subset, FS_CardinalityType
<1>2. \A n, c, T : Cardinality(Voters(n, c) \ T) <= Cardinality(Voters(n, c)' \ T)
  <2> TAKE n, c, T
  <2>1. Voters(n, c) \ T \subseteq Voters(n, c)' \ T
    BY DEF Voters
  <2> QED
    BY <1>1, <2>1, FS_Subset
<1>3. \A n, c : ChosenIn(n, c) => ChosenIn(n, c)'
  <2> TAKE n, c
  <2>1. Voters(n, c) \ {} = Voters(n, c) /\ Voters(n, c)' \ {} = Voters(n, c)'
    OBVIOUS
  <2>2. /\ Cardinality(Voters(n, c)) \in Nat
        /\ Cardinality(Voters(n, c)') \in Nat
        /\ Cardinality(Voters(n, c)) <= Cardinality(Voters(n, c)')
    BY <1>1, <1>2, <2>1, VotersFinite
  <2>3. Half \in Nat /\ Half' = Half
    BY VotersFinite DEF Half
  <2> QED
    BY <2>2, <2>3 DEF ChosenIn
<1>4. \A c : Chosen(c) => Chosen(c)'
  BY <1>3 DEF Chosen
<1> QED
  BY <1>2, <1>3, <1>4

(***************************************************************************)
(* The scouts that a step does not concern.                                *)
(***************************************************************************)
LEMMA ScoutUnmoved ==
  ASSUME ChosenInv, CoreTypeOK, votes \subseteq votes', NEW q \in Proposer,
         pc'[q] = pc[q], todo'[q] = todo[q], proposalNumber'[q] = proposalNumber[q],
         ballot'[q] = ballot[q]
  PROVE  AgreedVotedBy(q)' /\ CommanderChosenBy(q)'
<1> DEFINE n == proposalNumber[q]
           c == ballot[q].cmd
           T == todo[q]
<1>1. /\ ballot[q].agreed \in Nat
      /\ Cardinality(Voters(n, c) \ T) \in Nat
      /\ Cardinality(Voters(n, c)' \ T) \in Nat
  <2>1. Voters(n, c)' \ T \subseteq Server
    BY DEF Voters
  <2> QED
    BY <2>1, VotersFinite, ServerAssumption, FS_Subset, FS_CardinalityType
       DEF CoreTypeOK, ScoutTypeOK, Ballot
<1>2. Cardinality(Voters(n, c) \ T) <= Cardinality(Voters(n, c)' \ T)
  BY VotersGrow
<1>3. pc[q] \in {"accept", "p2b"} =>
        ballot[q].agreed <= Cardinality(Voters(n, c)' \ T)
  BY <1>1, <1>2 DEF ChosenInv, AgreedVoted, AgreedVotedBy
<1>4. AgreedVotedBy(q)'
  BY <1>3 DEF AgreedVotedBy, Voters
<1>5. CommanderChosenBy(q)'
  BY VotersGrow DEF ChosenInv, CommanderChosen, CommanderChosenBy, ChosenIn, Voters
<1> QED
  BY <1>4, <1>5

(***************************************************************************)
(* The scout that moves.                                                   *)
(***************************************************************************)
LEMMA ReplyCounted ==
  ASSUME CoreTypeOK, PromiseInv, ChosenInv, NEW p \in Proposer, NEW s \in Server,
         RecvP2b(p, s)
  PROVE  AgreedVotedBy(p)'
<1> DEFINE n == proposalNumber[p]
           c == ballot[p].cmd
           T == todo[p] \ {s}
<1>1. PICK msg \in PossibleReplies(p, s) :
        /\ ReceiveFrom(p, s, msg)
        /\ ballot' = [ballot EXCEPT ![p].agreed = @ + msg.agree]
  BY DEF RecvP2b
<1>2. /\ pc[p] = "p2b" /\ s \in todo[p]
      /\ todo'[p] = T
      /\ proposalNumber' = proposalNumber
      /\ ballot'[p].cmd = c
      /\ ballot'[p].agreed = ballot[p].agreed + msg.agree
      /\ ballot[p].agreed \in Nat
      /\ votes' = votes
  BY <1>1 DEF RecvP2b, At, Goto, ReceiveFrom, Release, acceptorVars, CoreTypeOK, ScoutTypeOK,
              Ballot
<1>3. msg.agree \in {0, 1}
  BY <1>1, ReceiveFromType DEF PaxosMsg
<1>4. msg.agree = 1 => s \in Voters(n, c)
  <2> SUFFICES ASSUME msg.agree = 1 PROVE s \in Voters(n, c)
    OBVIOUS
  <2>1. stage[s][p] = "replied" /\ msg = reply[s][p]
    BY <1>1 DEF ReceiveFrom, NoMsg
  <2>2. request[s][p] = P2a(n, c) /\ StageOK(s, p)
    BY <1>2, <2>1 DEF PromiseInv, EngineerOK, WaitsFor, MessageOf
  <2>3. VotedFor(s, n, c)
    BY <2>1, <2>2 DEF StageOK, P2a, NoMsg
  <2> QED
    BY <2>3 DEF VotedFor, Voters
<1>5. ballot[p].agreed <= Cardinality(Voters(n, c) \ todo[p])
  BY <1>2 DEF ChosenInv, AgreedVoted, AgreedVotedBy
<1>6. /\ IsFiniteSet(Voters(n, c) \ todo[p])
      /\ Cardinality(Voters(n, c) \ todo[p]) \in Nat
      /\ Cardinality(Voters(n, c) \ T) \in Nat
      /\ IsFiniteSet(Voters(n, c) \ T)
  BY VotersFinite
<1>7. ballot'[p].agreed <= Cardinality(Voters(n, c) \ T)
  <2>1. CASE msg.agree = 0
    <3>1. Voters(n, c) \ todo[p] \subseteq Voters(n, c) \ T
      OBVIOUS
    <3>2. Cardinality(Voters(n, c) \ todo[p]) <= Cardinality(Voters(n, c) \ T)
      BY <1>6, <3>1, FS_Subset
    <3> QED
      BY <1>2, <1>5, <1>6, <2>1, <3>2
  <2>2. CASE msg.agree = 1
    <3>1. Voters(n, c) \ T = (Voters(n, c) \ todo[p]) \cup {s} /\ s \notin Voters(n, c) \ todo[p]
      BY <1>2, <1>4, <2>2
    <3>2. Cardinality(Voters(n, c) \ T) = Cardinality(Voters(n, c) \ todo[p]) + 1
      BY <1>6, <3>1, FS_AddElement
    <3> QED
      BY <1>2, <1>5, <1>6, <2>2, <3>2
  <2> QED
    BY <1>3, <2>1, <2>2
<1>8. Voters(n, c)' = Voters(n, c)
  BY <1>2 DEF Voters
<1> QED
  BY <1>2, <1>7 DEF AgreedVotedBy, Voters

LEMMA ScoutMoves ==
  ASSUME CoreTypeOK, PromiseInv, ChosenInv, NEW p \in Proposer, ScoutStep(p),
         votes' = votes
  PROVE  AgreedVotedBy(p)' /\ CommanderChosenBy(p)'
<1> USE DEF CoreTypeOK, ScoutTypeOK, Goto
<1> DEFINE Elsewhere == pc'[p] \notin {"accept", "p2b", "connectLearners", "learn"}
           Same == /\ proposalNumber'[p] = proposalNumber[p]
                   /\ ballot'[p].cmd = ballot[p].cmd
<1>1. Elsewhere => AgreedVotedBy(p)' /\ CommanderChosenBy(p)'
  BY DEF AgreedVotedBy, CommanderChosenBy
<1>2. CASE TakeOrder(p)
  <2>1. Goto(p, "prepare", Acceptors(p)) \/ Goto(p, "connect", Server)
    BY <1>2, Zenon DEF TakeOrder, Begin
  <2> QED
    BY <1>1, <2>1
<1>3. CASE AcceptorsConnected(p) \/ NextRound(p) \/ Restart(p)
  BY <1>1, <1>3 DEF AcceptorsConnected, NextRound, Restart
<1>4. CASE PrepareUnavailable(p) \/ GiveUpOwn(p) \/ AcceptUnavailable(p) \/ AnswerOk(p)
  BY <1>1, <1>4 DEF PrepareUnavailable, GiveUpOwn, AcceptUnavailable, AnswerOk, Answer
<1>5. CASE \E s \in Server : \/ ConnectAcceptor(p, s) \/ IdentifyAcceptor(p, s)
                             \/ SendP1a(p, s) \/ P1aFails(p, s) \/ RecvP1b(p, s)
  BY <1>1, <1>5 DEF ConnectAcceptor, IdentifyAcceptor, SendP1a, P1aFails, RecvP1b, At
<1>6. CASE ProposeOwn(p) \/ ProposeSystem(p)
  <2>1. pc'[p] = "accept" /\ ballot'[p].agreed = 0
    <3>1. \E c, own : EnterAccept(p, c, own)
      BY <1>6, Zenon DEF ProposeOwn, ProposeSystem
    <3> QED
      BY <3>1 DEF EnterAccept, BallotFor, NoBallot
  <2>2. Cardinality(Voters(proposalNumber'[p], ballot'[p].cmd) \ todo'[p]) \in Nat
    BY VotersFinite
  <2>3. AgreedVotedBy(p)'
    BY <2>1, <2>2 DEF AgreedVotedBy, Voters
  <2> QED
    BY <2>1, <2>3 DEF CommanderChosenBy
<1>7. ASSUME NEW s \in Server, SendP2a(p, s) \/ P2aFails(p, s)
      PROVE  AgreedVotedBy(p)' /\ CommanderChosenBy(p)'
  <2> DEFINE n == proposalNumber[p]
             c == ballot[p].cmd
  <2>1. /\ pc[p] = "accept" /\ pc'[p] \in {"accept", "p2b"}
        /\ Same
        /\ ballot'[p].agreed = ballot[p].agreed
        /\ ballot[p].agreed \in Nat
        /\ todo'[p] \subseteq todo[p]
    BY <1>7 DEF SendP2a, P2aFails, At, AfterErase, Ballot
  <2>2. Voters(n, c) \ todo[p] \subseteq Voters(n, c) \ todo'[p]
    BY <2>1
  <2>3. /\ IsFiniteSet(Voters(n, c) \ todo'[p])
        /\ Cardinality(Voters(n, c) \ todo[p]) \in Nat
        /\ Cardinality(Voters(n, c) \ todo'[p]) \in Nat
    BY VotersFinite
  <2>4. Cardinality(Voters(n, c) \ todo[p]) <= Cardinality(Voters(n, c) \ todo'[p])
    BY <2>2, <2>3, FS_Subset
  <2>5. ballot[p].agreed <= Cardinality(Voters(n, c) \ todo[p])
    BY <2>1 DEF ChosenInv, AgreedVoted, AgreedVotedBy
  <2>6. ballot'[p].agreed <= Cardinality(Voters(n, c) \ todo'[p])
    BY <2>1, <2>3, <2>4, <2>5
  <2>7. AgreedVotedBy(p)'
    BY <2>1, <2>6 DEF AgreedVotedBy, Voters
  <2> QED
    BY <2>1, <2>7 DEF CommanderChosenBy
<1>8. ASSUME NEW s \in Server, RecvP2b(p, s)
      PROVE  AgreedVotedBy(p)' /\ CommanderChosenBy(p)'
  BY <1>8, ReplyCounted DEF RecvP2b, CommanderChosenBy
<1>9. CASE StartCommander(p)
  <2> DEFINE n == proposalNumber[p]
             c == ballot[p].cmd
  <2>1. /\ pc[p] = "accept" /\ todo[p] = {} /\ Same
        /\ ballot[p].agreed \in Nat
        /\ ballot[p].agreed > Half
    BY <1>9 DEF StartCommander, Done, Wins, Ballot
  <2>2. pc'[p] \in {"connectLearners", "learn"}
    <3>1. Goto(p, "learn", Learners(p)) \/ Goto(p, "connectLearners", Server)
      BY <1>9, Zenon DEF StartCommander
    <3> QED
      BY <3>1
  <2>3. ballot[p].agreed <= Cardinality(Voters(n, c) \ {})
    BY <2>1 DEF ChosenInv, AgreedVoted, AgreedVotedBy
  <2>4. Voters(n, c) \ {} = Voters(n, c)
    OBVIOUS
  <2>5. Cardinality(Voters(n, c) \ {}) \in Nat /\ Half \in Nat
    BY VotersFinite
  <2>6. ChosenIn(n, c)
    BY <2>1, <2>3, <2>4, <2>5 DEF ChosenIn
  <2> QED
    BY <2>1, <2>2, <2>6 DEF AgreedVotedBy, CommanderChosenBy, ChosenIn, Voters, Half
<1>10. CASE \/ LearnersConnected(p)
            \/ \E s \in Server : \/ ConnectLearner(p, s) \/ IdentifyLearner(p, s)
                                 \/ SendLearn(p, s) \/ SendLearnFails(p, s)
  <2>1. /\ pc[p] \in {"connectLearners", "learn"} /\ pc'[p] \in {"connectLearners", "learn"}
        /\ proposalNumber' = proposalNumber /\ ballot' = ballot
    BY <1>10 DEF LearnersConnected, ConnectLearner, IdentifyLearner, SendLearn,
                     SendLearnFails, Done, At
  <2> QED
    BY <2>1 DEF ChosenInv, CommanderChosen, AgreedVotedBy, CommanderChosenBy, ChosenIn, Voters,
                Half
<1> QED
  BY <1>2, <1>3, <1>4, <1>5, <1>6, <1>7, <1>8, <1>9, <1>10 DEF ScoutStep

(***************************************************************************)
(* What the learners hold and what is on its way to them.                  *)
(***************************************************************************)
LEMMA LearnedKept ==
  ASSUME CoreTypeOK, ChosenInv, votes \subseteq votes', UNCHANGED decisionMap,
         UNCHANGED learnq
  PROVE  LearnedIsChosen'
BY VotersGrow DEF ChosenInv, LearnedIsChosen

LEMMA AnnouncedChosen ==
  ASSUME CoreTypeOK, ChosenInv, NEW p \in Proposer, NEW l \in Server, SendLearn(p, l)
  PROVE  LearnedIsChosen'
<1>1. votes' = votes /\ decisionMap' = decisionMap
  BY DEF SendLearn, acceptorVars, learnVars
<1>2. \/ UNCHANGED learnq
      \/ learnq' = [learnq EXCEPT ![p][l] = Append(@, ballot[p].cmd)]
  BY Zenon DEF SendLearn
<1>3. CASE UNCHANGED learnq
  BY <1>1, <1>3, LearnedKept
<1>4. CASE learnq' = [learnq EXCEPT ![p][l] = Append(@, ballot[p].cmd)]
  <2>1. Chosen(ballot[p].cmd)
    BY ChosenInChosen DEF SendLearn, At, ChosenInv, CommanderChosen, CommanderChosenBy
  <2>2. \A c : Chosen(c) => Chosen(c)'
    BY <1>1, VotersGrow
  <2>3. ASSUME NEW k \in Server, NEW q \in Proposer, NEW i \in 1 .. Len(learnq'[q][k])
        PROVE  Chosen(learnq'[q][k][i])
    <3>1. learnq[q][k] \in Seq(Command)
      BY DEF CoreTypeOK, ScoutTypeOK
    <3>2. CASE q = p /\ k = l
      <4>1. learnq'[p][l] = Append(learnq[p][l], ballot[p].cmd)
        BY <1>4 DEF CoreTypeOK, ScoutTypeOK
      <4>2. CASE i = Len(learnq[p][l]) + 1
        BY <2>1, <3>1, <3>2, <4>1, <4>2
      <4>3. CASE i \in 1 .. Len(learnq[p][l])
        <5>1. learnq'[q][k][i] = learnq[p][l][i]
          BY <3>1, <3>2, <4>1, <4>3
        <5> QED
          BY <4>3, <5>1 DEF ChosenInv, LearnedIsChosen
      <4> QED
        BY <2>3, <3>1, <3>2, <4>1, <4>2, <4>3
    <3>3. CASE ~(q = p /\ k = l)
      <4>1. learnq'[q][k] = learnq[q][k]
        BY <1>4, <3>3 DEF CoreTypeOK, ScoutTypeOK
      <4> QED
        BY <2>3, <4>1 DEF ChosenInv, LearnedIsChosen
    <3> QED
      BY <3>2, <3>3
  <2> QED
    BY <1>1, <2>2, <2>3 DEF ChosenInv, LearnedIsChosen
<1> QED
  BY <1>2, <1>3, <1>4

LEMMA LearnKeeps ==
  ASSUME CoreTypeOK, ChosenInv, NEW p \in Proposer, NEW l \in Server, Learn(l, p)
  PROVE  LearnedIsChosen'
<1> DEFINE q == learnq[p][l]
<1>1. /\ q \in Seq(Command) /\ q # <<>> /\ q[1] = Head(q)
      /\ learnq' = [learnq EXCEPT ![p][l] = Tail(q)]
      /\ votes' = votes
  BY DEF Learn, CoreTypeOK, ScoutTypeOK, acceptorVars
<1>2. decisionMap' = [decisionMap EXCEPT ![l] = L!Store(decisionMap[l], Head(q))]
  BY DEF Learn, L!Learn
<1>3. Chosen(Head(q))
  <2>1. 1 \in 1 .. Len(q)
    BY <1>1
  <2> QED
    BY <1>1, <2>1 DEF ChosenInv, LearnedIsChosen
<1>4. \A c : Chosen(c) => Chosen(c)'
  BY <1>1, VotersGrow
<1>5. ASSUME NEW k \in Server, NEW c \in decisionMap'[k] PROVE Chosen(c)
  BY <1>2, <1>3, <1>5 DEF CoreTypeOK, ScoutTypeOK, L!Store, ChosenInv, LearnedIsChosen
<1>6. ASSUME NEW k \in Server, NEW r \in Proposer, NEW i \in 1 .. Len(learnq'[r][k])
      PROVE  Chosen(learnq'[r][k][i])
  <2>1. CASE r = p /\ k = l
    <3>1. learnq'[p][l] = Tail(q)
      BY <1>1 DEF CoreTypeOK, ScoutTypeOK
    <3>2. /\ i + 1 \in 1 .. Len(q)
          /\ Tail(q)[i] = q[i + 1]
      <4>1. i \in 1 .. Len(Tail(q))
        BY <1>6, <2>1, <3>1
      <4> HIDE DEF q
      <4> QED
        BY <1>1, <4>1
    <3> QED
      BY <2>1, <3>1, <3>2 DEF ChosenInv, LearnedIsChosen
  <2>2. CASE ~(r = p /\ k = l)
    <3>1. learnq'[r][k] = learnq[r][k]
      BY <1>1, <2>2 DEF CoreTypeOK, ScoutTypeOK
    <3> QED
      BY <1>6, <3>1 DEF ChosenInv, LearnedIsChosen
  <2> QED
    BY <2>1, <2>2
<1> QED
  BY <1>4, <1>5, <1>6 DEF LearnedIsChosen

LEMMA ChosenStep ==
  ASSUME CoreTypeOK, PromiseInv, ChosenInv, [Next]_vars PROVE ChosenInv'
<1> SUFFICES /\ \A q \in Proposer : AgreedVotedBy(q)' /\ CommanderChosenBy(q)'
             /\ LearnedIsChosen'
  BY DEF ChosenInv, AgreedVoted, CommanderChosen
<1>1. ASSUME NEW p \in Proposer, ScoutStep(p)
      PROVE  /\ \A q \in Proposer : AgreedVotedBy(q)' /\ CommanderChosenBy(q)'
             /\ LearnedIsChosen'
  <2>1. OthersSame(p)
    BY <1>1, ScoutFrame
  <2>2. votes' = votes
    <3>1. CASE \E a \in Server : Exchange(p, a)
      BY <3>1 DEF Exchange, SendP1a, SendP2a, RecvP1b, RecvP2b, SendTo, ReceiveFrom,
                  Receive, Release, acceptorVars
    <3>2. CASE UNCHANGED acceptorVars
      BY <3>2 DEF acceptorVars
    <3> QED
      BY <1>1, <3>1, <3>2, ScoutFrame
  <2>3. \A q \in Proposer : AgreedVotedBy(q)' /\ CommanderChosenBy(q)'
    <3> TAKE q \in Proposer
    <3>1. CASE q = p
      BY <1>1, <2>2, <3>1, ScoutMoves
    <3>2. CASE q # p
      BY <2>1, <2>2, <3>2, ScoutUnmoved DEF OthersSame
    <3> QED
      BY <3>1, <3>2
  <2>4. LearnedIsChosen'
    <3>1. ASSUME NEW l \in Server, SendLearn(p, l) PROVE LearnedIsChosen'
      BY <3>1, AnnouncedChosen
    <3>2. \/ \E l \in Server : SendLearn(p, l)
          \/ UNCHANGED <<learnq, decisionMap>>
      BY <1>1, Zenon
         DEF ScoutStep, TakeOrder, AcceptorsConnected, PrepareUnavailable, NextRound,
             ProposeOwn, ProposeSystem, EnterAccept, StartCommander, Restart, GiveUpOwn,
             AcceptUnavailable, LearnersConnected, AnswerOk, ConnectAcceptor,
             IdentifyAcceptor, SendP1a, P1aFails, RecvP1b, SendP2a, P2aFails, RecvP2b,
             ConnectLearner, IdentifyLearner, SendLearnFails, learnVars
    <3> QED
      BY <2>2, <3>1, <3>2, LearnedKept
  <2> QED
    BY <2>3, <2>4
<1>2. ASSUME UNCHANGED scoutVars, votes \subseteq votes'
      PROVE  \A q \in Proposer : AgreedVotedBy(q)' /\ CommanderChosenBy(q)'
  BY <1>2, ScoutUnmoved DEF scoutVars
<1>3. ASSUME NEW a \in Server, NEW p \in Proposer, Engineer(a, p)
      PROVE  UNCHANGED <<scoutVars, learnq, decisionMap>> /\ votes \subseteq votes'
  BY <1>3 DEF Engineer, learnVars, EngineerStep, TestPrepare, Promise, Reject, SeeAccepted,
              CopySlot, CopyOrder, TestAccept, AcceptNumber, AcceptSlot, AcceptOrder
<1>4. ASSUME NEW l \in Server, NEW p \in Proposer, Learn(l, p)
      PROVE  LearnedIsChosen' /\ UNCHANGED <<scoutVars, votes>>
  BY <1>4, LearnKeeps DEF Learn, acceptorVars
<1>5. ASSUME NEW s \in Server, Die(s) PROVE LearnedIsChosen' /\ UNCHANGED <<scoutVars, votes>>
  <2>1. /\ UNCHANGED <<scoutVars, votes, decisionMap>>
        /\ learnq' = [p \in Proposer |-> [learnq[p] EXCEPT ![s] = <<>>]]
    BY <1>5 DEF Die, learnVars
  <2>2. \A c : Chosen(c) => Chosen(c)'
    BY <2>1, VotersGrow
  <2>3. \A k \in Server, q \in Proposer : learnq'[q][k] = learnq[q][k] \/ learnq'[q][k] = <<>>
    BY <2>1 DEF CoreTypeOK, ScoutTypeOK
  <2>4. ASSUME NEW k \in Server, NEW q \in Proposer, NEW i \in 1 .. Len(learnq'[q][k])
        PROVE  Chosen(learnq'[q][k][i])
    <3>1. CASE learnq'[q][k] = learnq[q][k]
      BY <2>4, <3>1 DEF ChosenInv, LearnedIsChosen
    <3>2. CASE learnq'[q][k] = <<>>
      BY <2>4, <3>2
    <3> QED
      BY <2>3, <3>1, <3>2
  <2> QED
    BY <2>1, <2>2, <2>4 DEF ChosenInv, LearnedIsChosen
<1>6. CASE UNCHANGED vars
  BY <1>2, <1>6, LearnedKept DEF vars, acceptorVars, learnVars
<1>7. ASSUME NEW s \in Server, Start(s)
      PROVE  LearnedIsChosen' /\ UNCHANGED <<scoutVars, votes>>
  BY <1>7, LearnedKept DEF Start, acceptorVars, learnVars
<1> QED
  BY <1>1, <1>2, <1>3, <1>4, <1>5, <1>6, <1>7, LearnedKept, EveryStep

LEMMA ChosenInvariant == Spec => []ChosenInv
<1>1. Init => ChosenInv
  BY DEF Init, LaptopInit, ChosenInv, AgreedVoted, AgreedVotedBy, CommanderChosen,
         CommanderChosenBy, LearnedIsChosen
<1>2. CoreTypeOK /\ PromiseInv /\ ChosenInv /\ [Next]_vars => ChosenInv'
  BY ChosenStep
<1> QED
  BY <1>1, <1>2, CoreType, PromiseInvariant, PTL DEF Spec

(***************************************************************************)
(* Whatever a learner holds or is about to hold was agreed to by a         *)
(* majority in one number: a commander announces nothing else.             *)
(***************************************************************************)
THEOREM LearnedIsChosenTheorem == Spec => []LearnedIsChosen
BY ChosenInvariant, PTL DEF ChosenInv
=============================================================================
