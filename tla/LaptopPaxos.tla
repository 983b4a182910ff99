----------------------------- MODULE LaptopPaxos -----------------------------
(***************************************************************************)
(* The servers of a LaptopFactory system: the acceptors of Acceptor, the   *)
(* learners of Learner, and in each proposer the scout thread              *)
(* (ScoutThread, ScoutBrocasting, AcceptPhaseBrocasting and                *)
(* CommanderBrocasting of ServerThread.cpp).                               *)
(*                                                                         *)
(* A scout talks to one acceptor at a time, in the order of a std::map:    *)
(* it sends, blocks for the reply, and goes on.  Learn messages are not    *)
(* answered; they queue in the connection (TCP: no loss, no reordering)    *)
(* until the learner's engineer reads them.                                *)
(*                                                                         *)
(* A server may crash, and then does nothing more.  A peer finds out when  *)
(* it uses a connection: the receive fails, or the send does.  A server    *)
(* may also start after its peers, which try to connect to it only once.   *)
(***************************************************************************)
EXTENDS Acceptor, Sequences

CONSTANTS
  Late,        \* the servers that are not running at first
  Crashable,   \* the servers that may crash
  MaxNumber    \* bound: a scout stops before it would use a larger number

ASSUME ProposerAssumption == Proposer \subseteq Server
ASSUME LateAssumption == Late \subseteq Server
ASSUME CrashableAssumption == Crashable \subseteq Server
ASSUME MaxNumberAssumption == MaxNumber \in Int

VARIABLES
  starting,        \* the servers that have not been started yet
  alive,           \* alive[s]: the process of s is running
  pc,              \* pc[p]: the loop the scout of p is in
  todo,            \* todo[p]: the entries that loop has still to visit
  proposalNumber,
  slot_in,
  tally,           \* tally[p]: the counters of the prepare phase
  ballot,          \* ballot[p]: the command and counters of the accept phase
  scoutStub,       \* scoutStub[p][a]: the entry of scout_acceptor_stub
  learnerStub,     \* learnerStub[p][l]: the entry of commander_learner_stub
  scoutInit,       \* scout_acceptor_stub_init, commander_learner_stub_init
  learnerInit,
  served,          \* served[p]: how many orders p has taken from erq
  answer,          \* answer[o]: what the customer of o has been told
  customer_record, \* customer_record[p]: the last order number of p's customer
  learnq,          \* learnq[p][l]: the learn messages l has not yet read
  decisionMap, slot_out, factoryLog   \* the learners

scoutVars == <<pc, todo, proposalNumber, slot_in, tally, ballot>>
stubVars == <<scoutStub, learnerStub, scoutInit, learnerInit>>
orderVars == <<served, answer, customer_record>>
learnVars == <<decisionMap, slot_out, factoryLog>>
vars == <<starting, acceptorVars, alive, scoutVars, stubVars, orderVars, learnq, learnVars>>

L == INSTANCE Learner WITH
       Incoming <- Command, MaxLines <- 0, logStart <- [l \in Server |-> 0]
-----------------------------------------------------------------------------
\* The states of an entry of a stub map.  "none": erased, or never connected.
\* "connected": Init has returned, Identify is next.  "closed": a send or a receive
\* has failed and closed the socket.  "unheard": the peer was dead by the time of
\* Identify, which has drawn a reset.  "reset": a learn message has.
ScoutStub == {"none", "connected", "open", "closed", "unheard"}
LearnerStub == ScoutStub \cup {"reset"}

Label == {"idle", "connect", "prepare", "p1b", "accept", "p2b", "connectLearners", "learn"}

\* highestProposlNum, promisedNum, active_acceptor, acceptor_acceptedProposal
\* and cmd, as ScoutBrocasting declares them.
Tally == [promised : Nat, active : Nat, highest : Number, accepted : Number,
          cmd : Command]
NoTally == [promised |-> 0, active |-> 0, highest |-> -1, accepted |-> -1,
            cmd |-> NoCommand]

\* The cmd of AcceptPhaseBrocasting, whether it is selfCommand, accept_number and
\* active_acceptors.
Ballot == [cmd : Command, own : BOOLEAN, agreed : Nat, active : Nat]
NoBallot == [cmd |-> NoCommand, own |-> FALSE, agreed |-> 0, active |-> 0]
BallotFor(c, own) == [NoBallot EXCEPT !.cmd = c, !.own = own]

LaptopInit ==
  /\ starting = Late
  /\ alive = [s \in Server |-> s \notin Late]
  /\ pc = [p \in Proposer |-> "idle"]
  /\ todo = [p \in Proposer |-> {}]
  /\ proposalNumber = [p \in Proposer |-> 0]
  /\ slot_in = [p \in Proposer |-> 1]
  /\ tally = [p \in Proposer |-> NoTally]
  /\ ballot = [p \in Proposer |-> NoBallot]
  /\ scoutStub = [p \in Proposer |-> [a \in Server |-> "none"]]
  /\ learnerStub = [p \in Proposer |-> [l \in Server |-> "none"]]
  /\ scoutInit = [p \in Proposer |-> FALSE]
  /\ learnerInit = [p \in Proposer |-> FALSE]
  /\ served = [p \in Proposer |-> 0]
  /\ answer = [o \in Order |-> "none"]
  /\ customer_record = [p \in Proposer |-> 0]
  /\ learnq = [p \in Proposer |-> [l \in Server |-> <<>>]]
  /\ decisionMap = [l \in Server |-> {}]
  /\ slot_out = [l \in Server |-> 1]
  /\ factoryLog = [l \in Server |-> <<>>]

Init == AcceptorInit /\ LaptopInit
-----------------------------------------------------------------------------
(***************************************************************************)
(* Loops over a stub map.                                                  *)
(***************************************************************************)
Acceptors(p) == {a \in Server : scoutStub[p][a] # "none"}
Learners(p) == {l \in Server : learnerStub[p][l] # "none"}

\* The scout of p is at label and its iterator at server s.
At(p, label, s) ==
  /\ alive[p]
  /\ pc[p] = label
  /\ s \in todo[p]
  /\ \A b \in todo[p] : s <= b

\* The loop at label has come to its end.
Done(p, label) == alive[p] /\ pc[p] = label /\ todo[p] = {}

Goto(p, label, entries) ==
  /\ pc' = [pc EXCEPT ![p] = label]
  /\ todo' = [todo EXCEPT ![p] = entries]

\* Faulty variant: the iterator erase() returns is not assigned.
KeepEntry(entries, s) == entries

\* Faulty variant: the loop advances its iterator past the one erase() returns.
SkipNext(entries, s) ==
  {b \in entries \ {s} : b > s => \E c \in entries : s < c /\ c < b}

\* What is left to visit after s was erased.
AfterErase(entries, s) == entries \ {s}

\* Faulty variant: only the map that the loop iterates over is cleaned up.
EraseAcceptor(p, s) ==
  /\ scoutStub' = [scoutStub EXCEPT ![p][s] = "none"]
  /\ UNCHANGED <<learnerStub, scoutInit, learnerInit>>

\* A send to s has failed: its entries in both maps are erased.
Erase(p, s) ==
  /\ scoutStub' = [scoutStub EXCEPT ![p][s] = "none"]
  /\ learnerStub' = [learnerStub EXCEPT ![p][s] = "none"]
  /\ UNCHANGED <<scoutInit, learnerInit>>

\* What Identify makes of a connection to s, its result being ignored.  To a dead
\* peer it fails, or draws a reset, which has come back by the next send or has not.
Identified(s) == IF alive[s] THEN {"open"} ELSE {"open", "unheard", "closed"}

\* A message goes out to acceptor a: it reaches the engineer, or a is dead and
\* the scout does not know it yet.
SendTo(p, a, msg) ==
  /\ scoutStub[p][a] = "open"
  /\ IF alive[a] THEN Receive(a, p, msg) ELSE UNCHANGED acceptorVars

\* The send to s fails: always on a closed socket, and sometimes the first time
\* that a dead peer's is used.
SendFails(stub, s) == stub = "closed" \/ (stub = "open" /\ ~alive[s])

\* The reply of a is read, or the receive fails, which closes the socket and
\* gives the default message.
ReceiveFrom(p, a, msg) ==
  \/ /\ stage[a][p] = "replied"
     /\ msg = reply[a][p]
     /\ Release(a, p)
     /\ UNCHANGED stubVars
  \/ /\ ~alive[a]
     /\ stage[a][p] # "replied"
     /\ msg = NoMsg
     /\ scoutStub' = [scoutStub EXCEPT ![p][a] = "closed"]
     /\ UNCHANGED <<acceptorVars, learnerStub, scoutInit, learnerInit>>

PossibleReplies(p, a) == {reply[a][p], NoMsg}
-----------------------------------------------------------------------------
(***************************************************************************)
(* An order is taken from the queue and, on the first, the acceptors are   *)
(* connected.                                                              *)
(***************************************************************************)
OrderOf(p) == <<p, served[p]>>

\* The labels at which ScoutBrocasting begins, and the entries of its first loop.
Begin(p) ==
  IF scoutInit[p] THEN Goto(p, "prepare", Acceptors(p)) ELSE Goto(p, "connect", Server)

TakeOrder(p) ==
  /\ alive[p]
  /\ pc[p] = "idle"
  /\ served[p] < MaxOrders
  /\ served' = [served EXCEPT ![p] = @ + 1]
  /\ Begin(p)
  /\ UNCHANGED <<acceptorVars, alive, proposalNumber, slot_in, tally, ballot, stubVars,
                 answer, customer_record, learnq, learnVars>>

\* Init, which a peer that is not running refuses: the entry is erased.
ConnectAcceptor(p, a) ==
  /\ At(p, "connect", a)
  /\ scoutStub[p][a] = "none"
  /\ \/ /\ alive[a]
        /\ scoutStub' = [scoutStub EXCEPT ![p][a] = "connected"]
        /\ UNCHANGED <<pc, todo>>
     \/ /\ ~alive[a]
        /\ Goto(p, "connect", todo[p] \ {a})
        /\ UNCHANGED scoutStub
  /\ UNCHANGED <<acceptorVars, alive, proposalNumber, slot_in, tally, ballot,
                 learnerStub, scoutInit, learnerInit, orderVars, learnq, learnVars>>

IdentifyAcceptor(p, a) ==
  /\ At(p, "connect", a)
  /\ scoutStub[p][a] = "connected"
  /\ \E stub \in Identified(a) : scoutStub' = [scoutStub EXCEPT ![p][a] = stub]
  /\ Goto(p, "connect", todo[p] \ {a})
  /\ UNCHANGED <<acceptorVars, alive, proposalNumber, slot_in, tally, ballot,
                 learnerStub, scoutInit, learnerInit, orderVars, learnq, learnVars>>

AcceptorsConnected(p) ==
  /\ Done(p, "connect")
  /\ scoutInit' = [scoutInit EXCEPT ![p] = TRUE]
  /\ Goto(p, "prepare", Acceptors(p))
  /\ UNCHANGED <<acceptorVars, alive, proposalNumber, slot_in, tally, ballot,
                 scoutStub, learnerStub, learnerInit, orderVars, learnq, learnVars>>

\* ScoutBrocasting returns and the promise of the order is set.
Answer(p, told) ==
  /\ answer' = [answer EXCEPT ![OrderOf(p)] = told]
  /\ customer_record' = IF told = "ok" THEN [customer_record EXCEPT ![p] = served[p]]
                                       ELSE customer_record
  /\ Goto(p, "idle", {})
  /\ tally' = [tally EXCEPT ![p] = NoTally]
  /\ ballot' = [ballot EXCEPT ![p] = NoBallot]
  /\ UNCHANGED <<served, proposalNumber, slot_in>>
-----------------------------------------------------------------------------
(***************************************************************************)
(* The prepare phase.  The counters are declared outside of the loop over  *)
(* the rounds: a new round adds to what the last one counted.              *)
(***************************************************************************)
SendP1a(p, a) ==
  /\ At(p, "prepare", a)
  /\ SendTo(p, a, P1a(proposalNumber[p]))
  /\ Goto(p, "p1b", todo[p])
  /\ tally' = [tally EXCEPT ![p].active = @ + 1]
  /\ UNCHANGED <<alive, proposalNumber, slot_in, ballot, stubVars, orderVars, learnq,
                 learnVars>>

P1aFails(p, a) ==
  /\ At(p, "prepare", a)
  /\ SendFails(scoutStub[p][a], a)
  /\ Erase(p, a)
  /\ Goto(p, "prepare", AfterErase(todo[p], a))
  /\ UNCHANGED <<acceptorVars, alive, proposalNumber, slot_in, tally, ballot, orderVars,
                 learnq, learnVars>>

\* The counters after a p1b message.
Count(t, msg) ==
  LET highest == IF msg.number > t.highest THEN msg.number ELSE t.highest
  IN  IF msg.agree = 1 /\ msg.accepted > t.accepted
      THEN [t EXCEPT !.highest = highest, !.promised = @ + 1,
                     !.accepted = msg.accepted, !.cmd = msg.cmd]
      ELSE [t EXCEPT !.highest = highest, !.promised = @ + msg.agree]

RecvP1b(p, a) ==
  /\ At(p, "p1b", a)
  /\ \E msg \in PossibleReplies(p, a) :
       /\ ReceiveFrom(p, a, msg)
       /\ tally' = [tally EXCEPT ![p] = Count(@, msg)]
  /\ Goto(p, "prepare", todo[p] \ {a})
  /\ UNCHANGED <<alive, proposalNumber, slot_in, ballot, orderVars, learnq, learnVars>>

\* Faulty variant: acceptors that reject count as lost.
FewPromised(t) == t.promised <= Half

\* active_acceptor <= numOfAcceptors / 2.
FewActive(t) == t.active <= Half

\* Too few acceptors could be sent to: the customer is told.
PrepareUnavailable(p) ==
  /\ Done(p, "prepare")
  /\ FewActive(tally[p])
  /\ Answer(p, "unavailable")
  /\ UNCHANGED <<acceptorVars, alive, stubVars, learnq, learnVars>>

\* Faulty variant: the highest number reported, instead of the one above.
HighestNumber(t) == t.highest

NextNumber(t) == t.highest + 1

\* Too few promises: another round, with a number above the highest one reported.
Rejected(p) ==
  /\ Done(p, "prepare")
  /\ ~FewActive(tally[p])
  /\ tally[p].promised <= Half

NextRound(p) ==
  /\ Rejected(p)
  /\ NextNumber(tally[p]) <= MaxNumber
  /\ proposalNumber' = [proposalNumber EXCEPT ![p] = NextNumber(tally[p])]
  /\ Goto(p, "prepare", Acceptors(p))
  /\ UNCHANGED <<acceptorVars, alive, slot_in, tally, ballot, stubVars, orderVars, learnq,
                 learnVars>>

\* A majority has promised.
Prepared(p) ==
  /\ Done(p, "prepare")
  /\ ~FewActive(tally[p])
  /\ tally[p].promised > Half

\* Faulty variant: whatever was accepted.
AlwaysOwn(p) == TRUE

\* Nothing was accepted, or the accepted command's slot is in decisionMap.
MayProposeOwn(p) ==
  tally[p].accepted = -1 \/ tally[p].cmd.slot \in L!Slots(decisionMap[p])

EnterAccept(p, c, own) ==
  /\ ballot' = [ballot EXCEPT ![p] = BallotFor(c, own)]
  /\ tally' = [tally EXCEPT ![p] = NoTally]
  /\ Goto(p, "accept", Acceptors(p))
  /\ UNCHANGED <<acceptorVars, alive, proposalNumber, stubVars, orderVars, learnq,
                 learnVars>>

\* Faulty variant: slot_in counts the proposals of this server.
NextSlots(p) == {slot_in[p] + 1}

\* Where the loop that advances slot_in past the slots of decisionMap ends.
FreeSlots(p) ==
  {g \in L!LoopRange(decisionMap[p], slot_in[p]) : L!IsFirstGap(decisionMap[p], slot_in[p], g)}

ProposeOwn(p) ==
  /\ Prepared(p)
  /\ MayProposeOwn(p)
  /\ \E g \in FreeSlots(p) :
       /\ slot_in' = [slot_in EXCEPT ![p] = g]
       /\ EnterAccept(p, [slot |-> g, order |-> OrderOf(p)], TRUE)

ProposeSystem(p) ==
  /\ Prepared(p)
  /\ ~MayProposeOwn(p)
  /\ EnterAccept(p, tally[p].cmd, FALSE)
  /\ UNCHANGED slot_in
-----------------------------------------------------------------------------
(***************************************************************************)
(* The accept phase: AcceptPhaseBrocasting, and what ScoutBrocasting does  *)
(* with each of its results.                                               *)
(***************************************************************************)
SendP2a(p, a) ==
  /\ At(p, "accept", a)
  /\ SendTo(p, a, P2a(proposalNumber[p], ballot[p].cmd))
  /\ Goto(p, "p2b", todo[p])
  /\ ballot' = [ballot EXCEPT ![p].active = @ + 1]
  /\ UNCHANGED <<alive, proposalNumber, slot_in, tally, stubVars, orderVars, learnq,
                 learnVars>>

P2aFails(p, a) ==
  /\ At(p, "accept", a)
  /\ SendFails(scoutStub[p][a], a)
  /\ Erase(p, a)
  /\ Goto(p, "accept", AfterErase(todo[p], a))
  /\ UNCHANGED <<acceptorVars, alive, proposalNumber, slot_in, tally, ballot, orderVars,
                 learnq, learnVars>>

RecvP2b(p, a) ==
  /\ At(p, "p2b", a)
  /\ \E msg \in PossibleReplies(p, a) :
       /\ ReceiveFrom(p, a, msg)
       /\ ballot' = [ballot EXCEPT ![p].agreed = @ + msg.agree]
  /\ Goto(p, "accept", todo[p] \ {a})
  /\ UNCHANGED <<alive, proposalNumber, slot_in, tally, orderVars, learnq, learnVars>>

\* Faulty variant: any acceptor that agrees is enough.
WinsWithOne(b) == b.active > Half /\ b.agreed > 0

\* The results of AcceptPhaseBrocasting: 1, 0, -1 and -2.
Wins(b) == b.active > Half /\ b.agreed > Half
FullReject(b) == b.active > Half /\ b.agreed = 0
PartReject(b) == b.active > Half /\ b.agreed \in 1 .. Half
TooFew(b) == b.active <= Half

\* 1: on to CommanderBrocasting, which connects the learners the first time.
StartCommander(p) ==
  /\ Done(p, "accept")
  /\ Wins(ballot[p])
  /\ IF learnerInit[p] THEN Goto(p, "learn", Learners(p))
                       ELSE Goto(p, "connectLearners", Server)
  /\ UNCHANGED <<acceptorVars, alive, proposalNumber, slot_in, tally, ballot, stubVars,
                 orderVars, learnq, learnVars>>

\* 0, or -1 for a command of the system: back to start_proposalNum_compete, with
\* new counters and the same number.
Restart(p) ==
  /\ Done(p, "accept")
  /\ FullReject(ballot[p]) \/ (PartReject(ballot[p]) /\ ~ballot[p].own)
  /\ Goto(p, "prepare", Acceptors(p))
  /\ ballot' = [ballot EXCEPT ![p] = NoBallot]
  /\ UNCHANGED <<acceptorVars, alive, proposalNumber, slot_in, tally, stubVars, orderVars,
                 learnq, learnVars>>

\* -1 or -2 for selfCommand: ScoutBrocasting goes on to its end.
GiveUpOwn(p) ==
  /\ Done(p, "accept")
  /\ ballot[p].own
  /\ PartReject(ballot[p]) \/ TooFew(ballot[p])
  /\ Answer(p, "ok")
  /\ UNCHANGED <<acceptorVars, alive, stubVars, learnq, learnVars>>

\* -2 for a command of the system.
AcceptUnavailable(p) ==
  /\ Done(p, "accept")
  /\ ~ballot[p].own
  /\ TooFew(ballot[p])
  /\ Answer(p, "unavailable")
  /\ UNCHANGED <<acceptorVars, alive, stubVars, learnq, learnVars>>
-----------------------------------------------------------------------------
(***************************************************************************)
(* The commander.                                                          *)
(***************************************************************************)
ConnectLearner(p, l) ==
  /\ At(p, "connectLearners", l)
  /\ learnerStub[p][l] = "none"
  /\ \/ /\ alive[l]
        /\ learnerStub' = [learnerStub EXCEPT ![p][l] = "connected"]
        /\ UNCHANGED <<pc, todo>>
     \/ /\ ~alive[l]
        /\ Goto(p, "connectLearners", todo[p] \ {l})
        /\ UNCHANGED learnerStub
  /\ UNCHANGED <<acceptorVars, alive, proposalNumber, slot_in, tally, ballot,
                 scoutStub, scoutInit, learnerInit, orderVars, learnq, learnVars>>

IdentifyLearner(p, l) ==
  /\ At(p, "connectLearners", l)
  /\ learnerStub[p][l] = "connected"
  /\ \E stub \in Identified(l) : learnerStub' = [learnerStub EXCEPT ![p][l] = stub]
  /\ Goto(p, "connectLearners", todo[p] \ {l})
  /\ UNCHANGED <<acceptorVars, alive, proposalNumber, slot_in, tally, ballot,
                 scoutStub, scoutInit, learnerInit, orderVars, learnq, learnVars>>

LearnersConnected(p) ==
  /\ Done(p, "connectLearners")
  /\ learnerInit' = [learnerInit EXCEPT ![p] = TRUE]
  /\ Goto(p, "learn", Learners(p))
  /\ UNCHANGED <<acceptorVars, alive, proposalNumber, slot_in, tally, ballot,
                 scoutStub, learnerStub, scoutInit, orderVars, learnq, learnVars>>

\* The learn message is queued, or lost with a dead peer, whose answer is a
\* reset.  Nobody reads from this connection, so the scout does not notice.
SendLearn(p, l) ==
  /\ At(p, "learn", l)
  /\ learnerStub[p][l] = "open"
  /\ IF alive[l]
     THEN /\ learnq' = [learnq EXCEPT ![p][l] = Append(@, ballot[p].cmd)]
          /\ UNCHANGED learnerStub
     ELSE /\ learnerStub' = [learnerStub EXCEPT ![p][l] = "reset"]
          /\ UNCHANGED learnq
  /\ Goto(p, "learn", todo[p] \ {l})
  /\ UNCHANGED <<acceptorVars, alive, proposalNumber, slot_in, tally, ballot,
                 scoutStub, scoutInit, learnerInit, orderVars, learnVars>>

SendLearnFails(p, l) ==
  /\ At(p, "learn", l)
  /\ SendFails(learnerStub[p][l], l)
  /\ Erase(p, l)
  /\ Goto(p, "learn", AfterErase(todo[p], l))
  /\ UNCHANGED <<acceptorVars, alive, proposalNumber, slot_in, tally, ballot, orderVars,
                 learnq, learnVars>>

\* The end of ScoutBrocasting after CommanderBrocasting, of selfCommand or of a
\* command of the system alike.
AnswerOk(p) ==
  /\ Done(p, "learn")
  /\ Answer(p, "ok")
  /\ UNCHANGED <<acceptorVars, alive, stubVars, learnq, learnVars>>
-----------------------------------------------------------------------------
(***************************************************************************)
(* The engineers, the learners, and crashes.                               *)
(***************************************************************************)
Engineer(a, p) ==
  /\ alive[a]
  /\ EngineerStep(a, p)
  /\ UNCHANGED <<starting, alive, scoutVars, stubVars, orderVars, learnq, learnVars>>

\* The engineer of l for commander p reads a message and learns it.
Learn(l, p) ==
  /\ alive[l]
  /\ learnq[p][l] # <<>>
  /\ L!Learn(l, Head(learnq[p][l]))
  /\ learnq' = [learnq EXCEPT ![p][l] = Tail(@)]
  /\ UNCHANGED <<starting, acceptorVars, alive, scoutVars, stubVars, orderVars>>

\* main() of s has run, with the initial values of its members.
Start(s) ==
  /\ s \in starting
  /\ starting' = starting \ {s}
  /\ alive' = [alive EXCEPT ![s] = TRUE]
  /\ UNCHANGED <<acceptorVars, scoutVars, stubVars, orderVars, learnq, learnVars>>

\* The process of s ends.  A reply it has sent, and the learn messages, still
\* arrive; what was sent to it is gone, and so is what an engineer of its was
\* doing.  (The engineers at which a dead proposer's message is, finish with it.)
Die(s) ==
  /\ alive[s]
  /\ alive' = [alive EXCEPT ![s] = FALSE]
  /\ LET kept(p) == stage[s][p] = "replied"
     IN  /\ stage' = [stage EXCEPT ![s] =
                        [p \in Proposer |-> IF kept(p) THEN "replied" ELSE "idle"]]
         /\ request' = [request EXCEPT ![s] =
                          [p \in Proposer |-> IF kept(p) THEN @[p] ELSE NoMsg]]
         /\ reply' = [reply EXCEPT ![s] =
                        [p \in Proposer |-> IF kept(p) THEN @[p] ELSE NoMsg]]
  /\ learnq' = [p \in Proposer |-> [learnq[p] EXCEPT ![s] = <<>>]]
  /\ UNCHANGED <<promisedProposalNumber, acceptedProposalNumber, acceptedValue, votes,
                 promises, scoutVars, stubVars, orderVars, learnVars>>

Crash(s) == s \in Crashable /\ Die(s) /\ UNCHANGED starting

\* A send on a connection that was reset does not return: SIGPIPE ends the process.
BrokenPipe(p) ==
  /\ \E s \in Server :
       \/ At(p, "prepare", s) /\ scoutStub[p][s] = "unheard"
       \/ At(p, "learn", s) /\ learnerStub[p][s] \in {"unheard", "reset"}
  /\ Die(p)
  /\ UNCHANGED starting

\* Nothing is left to do: every living scout waits for an order that does not come,
\* or is at the bound of its numbers, and every living learner has read its messages.
AtBound(p) ==
  /\ Rejected(p)
  /\ NextNumber(tally[p]) > MaxNumber

Terminating ==
  /\ \A p \in Proposer :
       alive[p] => AtBound(p) \/ (pc[p] = "idle" /\ served[p] = MaxOrders)
  /\ \A p \in Proposer, l \in Server : alive[l] => learnq[p][l] = <<>>
  /\ UNCHANGED vars
-----------------------------------------------------------------------------
ScoutStep(p) ==
  /\ UNCHANGED starting
  /\ \/ TakeOrder(p) \/ AcceptorsConnected(p)
     \/ PrepareUnavailable(p) \/ NextRound(p) \/ ProposeOwn(p) \/ ProposeSystem(p)
     \/ StartCommander(p) \/ Restart(p) \/ GiveUpOwn(p) \/ AcceptUnavailable(p)
     \/ LearnersConnected(p) \/ AnswerOk(p)
     \/ \E s \in Server :
          \/ ConnectAcceptor(p, s) \/ IdentifyAcceptor(p, s)
          \/ SendP1a(p, s) \/ P1aFails(p, s) \/ RecvP1b(p, s)
          \/ SendP2a(p, s) \/ P2aFails(p, s) \/ RecvP2b(p, s)
          \/ ConnectLearner(p, s) \/ IdentifyLearner(p, s)
          \/ SendLearn(p, s) \/ SendLearnFails(p, s)

Next ==
  \/ \E p \in Proposer : ScoutStep(p) \/ BrokenPipe(p)
  \/ \E a \in Server, p \in Proposer : Engineer(a, p) \/ Learn(a, p)
  \/ \E s \in Server : Start(s) \/ Crash(s)
  \/ Terminating

\* Every thread of a living process runs: the scout, and each engineer.
Fairness ==
  /\ \A p \in Proposer : WF_vars(ScoutStep(p) \/ BrokenPipe(p))
  /\ \A a \in Server, p \in Proposer : WF_vars(Engineer(a, p)) /\ WF_vars(Learn(a, p))

Spec == Init /\ [][Next]_vars
FairSpec == Spec /\ Fairness
-----------------------------------------------------------------------------
(* Type correctness of the composition. *)
TypeOK ==
  /\ AcceptorTypeOK
  /\ starting \subseteq Server
  /\ alive \in [Server -> BOOLEAN]
  /\ pc \in [Proposer -> Label]
  /\ todo \in [Proposer -> SUBSET Server]
  /\ proposalNumber \in [Proposer -> Nat]
  /\ slot_in \in [Proposer -> Int]
  /\ tally \in [Proposer -> Tally]
  /\ ballot \in [Proposer -> Ballot]
  /\ scoutStub \in [Proposer -> [Server -> ScoutStub]]
  /\ learnerStub \in [Proposer -> [Server -> LearnerStub]]
  /\ scoutInit \in [Proposer -> BOOLEAN]
  /\ learnerInit \in [Proposer -> BOOLEAN]
  /\ served \in [Proposer -> 0 .. MaxOrders]
  /\ answer \in [Order -> {"none", "ok", "unavailable"}]
  /\ customer_record \in [Proposer -> 0 .. MaxOrders]
  /\ learnq \in [Proposer -> [Server -> Seq(Command)]]
  /\ L!TypeOK

(***************************************************************************)
(* A command that a learner holds, or that is on its way to one, was       *)
(* agreed to by a majority of the acceptors in one number: lost replies,   *)
(* closed sockets and racing engineers never make a commander announce a   *)
(* command that was not.                                                   *)
(***************************************************************************)
LearnedIsChosen ==
  \A l \in Server :
    /\ \A c \in decisionMap[l] : Chosen(c)
    /\ \A p \in Proposer : \A i \in 1 .. Len(learnq[p][l]) : Chosen(learnq[p][l][i])

(***************************************************************************)
(* slot_in, which the scout advances, stays behind slot_out, which the     *)
(* learner of the same server advances: the scout never picks a slot for a *)
(* new command beyond the first one its server does not know.              *)
(***************************************************************************)
SlotInBehind == \A p \in Proposer : slot_in[p] <= slot_out[p]

(***************************************************************************)
(* The end of a peer does not end the process of a scout by SIGPIPE (the   *)
(* branches "send failed" of ServerThread.cpp erase the peer and go on),   *)
(* but in two cases.  The peer died between Init and Identify, and the     *)
(* message at hand is the first one after it.  Or it is a learner that     *)
(* started after the scout had connected the acceptors, so that no prepare *)
(* or accept phase could find it dead.  Any other connection that a learn  *)
(* message has reset is erased before it is used again.                    *)
(***************************************************************************)
SurvivesPeers ==
  \A p \in Proposer \ (Crashable \cup starting) :
    \/ alive[p]
    \/ \E s \in todo[p] :
         /\ \A b \in todo[p] : s <= b
         /\ \/ "unheard" \in {scoutStub[p][s], learnerStub[p][s]}
            \/ s \in Late /\ learnerStub[p][s] = "reset"

(***************************************************************************)
(* A customer is told that there are not enough active acceptors only when *)
(* so many servers have crashed, or started after its own server connected *)
(* the acceptors, that no majority is left.                                *)
(***************************************************************************)
Unreachable(p) == {s \in Server : ~alive[s] \/ (s \in Late /\ scoutStub[p][s] = "none")}

NoFalseAlarm ==
  \A o \in Order : answer[o] = "unavailable" =>
    2 * Cardinality(Unreachable(o[1])) >= Cardinality(Server)

(***************************************************************************)
(* A line of a factory log carries the command of its slot, which the      *)
(* server still holds.                                                     *)
(***************************************************************************)
LogMatchesDecisions ==
  \A l \in Server : \A i \in 1 .. Len(factoryLog[l]) :
    LET line == factoryLog[l][i]
    IN  line.cmd.slot = line.slot /\ line.cmd \in decisionMap[l]

(***************************************************************************)
(* Two servers that know a slot know the same command for it.              *)
(***************************************************************************)
ReplicasAgree ==
  \A l, m \in Server : \A c \in decisionMap[l], d \in decisionMap[m] :
    c.slot = d.slot => c = d

(***************************************************************************)
(* "majority of acceptors primised" (ServerThread.cpp): a scout in its     *)
(* accept phase has the promise of its number from a majority.             *)
(***************************************************************************)
PromiseMajority ==
  \A p \in Proposer : alive[p] /\ pc[p] \in {"accept", "p2b"} =>
    Cardinality(Promisers(p, proposalNumber[p])) > Half

(***************************************************************************)
(* "if there is already a accepted value, put it in the p1bMsg"            *)
(* (ServerThread.cpp): the command of a promise is one that the acceptor   *)
(* agreed to, in the number that the promise names.                        *)
(***************************************************************************)
PromiseCarriesAccepted ==
  \A a \in Server, p \in Proposer :
    LET msg == reply[a][p]
    IN  stage[a][p] = "replied" /\ msg.phase = 2 /\ msg.accepted # -1 =>
          [acceptor |-> a, number |-> msg.accepted, cmd |-> msg.cmd] \in votes

(***************************************************************************)
(* "-2 - active acceptors too less", "use adminId = -5 as an signal        *)
(* telling the customer there is not enough active acceptors"              *)
(* (ServerThread.cpp): no order is answered with success when the accept   *)
(* phase could send to too few acceptors.                                  *)
(***************************************************************************)
TooFewIsTold ==
  [][\A p \in Proposer : Done(p, "accept") /\ TooFew(ballot[p]) =>
       answer'[OrderOf(p)] # "ok"]_vars

(***************************************************************************)
(* "If majority of acceptors give promise, put a p2 request to commander"  *)
(* (ServerThread.cpp, of the laptop that is ordered): when no server has   *)
(* crashed, an order that was answered with success was agreed to by some  *)
(* acceptor at least.                                                      *)
(***************************************************************************)
AnsweredWasProposed ==
  (\A s \in Server : alive[s]) =>
    \A o \in Order : answer[o] = "ok" => \E v \in votes : v.cmd.order = o

(***************************************************************************)
(* "our command will be proposed by peers" (ServerThread.cpp, of a part    *)
(* reject): in the end some server learns the order.                       *)
(***************************************************************************)
PeersPropose ==
  \A o \in Order :
    (\E p \in Proposer : /\ Done(p, "accept")
                         /\ ballot[p].own
                         /\ ballot[p].cmd.order = o
                         /\ PartReject(ballot[p]))
      ~> (\E l \in Server : \E c \in decisionMap[l] : c.order = o)

(***************************************************************************)
(* With one proposer the servers implement the one replicated log.         *)
(***************************************************************************)
ChosenCommands == {v.cmd : v \in {w \in votes : ChosenIn(w.number, w.cmd)}}

\* Slots are not skipped: there are no more than orders.
Entry == [slot : GarbageSlots \cup (1 .. Cardinality(Order)), order : Order \cup {NoOrder}]

RLog == INSTANCE ReplicatedLog WITH
          Replica <- Server, log <- ChosenCommands, learned <- decisionMap

ImplementsReplicatedLog == RLog!Spec

(***************************************************************************)
(* An order that a scout has taken is answered, whoever else crashes,      *)
(* unless a broken pipe ends the scout's process.                          *)
(***************************************************************************)
OrderAnswered ==
  \A p \in Proposer : \A i \in 1 .. MaxOrders :
    (served[p] = i) ~> (answer[<<p, i>>] # "none" \/ ~alive[p])

(***************************************************************************)
(* A command that its proposer's own server has learned reaches every      *)
(* server that was running when the commander connected the learners, if   *)
(* neither crashes.                                                        *)
(***************************************************************************)
CameLate(l, m) == l \in Late /\ learnerInit[m] /\ learnerStub[m][l] = "none"

Replicated ==
  \A l \in Server, m \in Proposer :
    (Cardinality(decisionMap[l]) < Cardinality(decisionMap[m]))
      ~> (\/ ~alive[l] \/ ~alive[m] \/ CameLate(l, m)
          \/ decisionMap[m] \subseteq decisionMap[l])
=============================================================================
