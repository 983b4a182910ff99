------------------------------- MODULE Acceptor -------------------------------
(***************************************************************************)
(* The acceptor of a LaptopFactory server: the engineer threads of         *)
(* identity 2 (LaptopFactory::EngineerThread), one for each proposer that  *)
(* has connected.                                                          *)
(*                                                                         *)
(* The engineers of one server share promisedProposalNumber,               *)
(* acceptedProposalNumber and acceptedValue, and take no lock for them     *)
(* (av_lock is taken by the one that copies the value into a reply, never  *)
(* by the one that writes it).  Every access to them is a step of its own, *)
(* in the order of the statements; a Command is copied member by member,   *)
(* in the order of its declaration, so its slot moves before its order.    *)
(*                                                                         *)
(* votes and promises are history variables: what the engineers have done. *)
(***************************************************************************)
EXTENDS Integers, FiniteSets

CONSTANTS
  Server,        \* the ids of the servers, each of which is an acceptor
  Proposer,      \* the servers whose scouts are connected
  MaxOrders,     \* bound: how many orders each proposer is given
  GarbageSlots   \* what the slot of a default Command may hold: it has no
                 \* initialiser

ASSUME ServerAssumption == Server \subseteq Nat /\ IsFiniteSet(Server)
ASSUME MaxOrdersAssumption == MaxOrders \in Nat
ASSUME GarbageAssumption == GarbageSlots \subseteq Int

VARIABLES
  promisedProposalNumber,  \* [Server -> Int], as in LaptopFactory
  acceptedProposalNumber,
  acceptedValue,
  stage,     \* stage[a][p]: where a's engineer for proposer p is
  request,   \* request[a][p]: the message it is handling
  reply,     \* reply[a][p]: the reply it is filling in, or has sent
  votes,     \* history: the p2a messages agreed to
  promises   \* history: the p1a messages agreed to

acceptorVars == <<promisedProposalNumber, acceptedProposalNumber, acceptedValue,
                  stage, request, reply, votes, promises>>
-----------------------------------------------------------------------------
\* The i-th order given to proposer p is <<p, i>>.
NoOrder == <<0, 0>>
Order == Proposer \X (1 .. MaxOrders)

\* Command: its slot, and the order that commandId, customerId and orderId name.
Command == [slot : Int, order : Order \cup {NoOrder}]
NoCommand == [slot |-> -1, order |-> NoOrder]

\* PaxosMsg, with the phases of the comment above it; the one the default
\* constructor makes is also what a receiver returns when its socket fails.
\* number is proposeNumber, accepted is acceptedProposal.
Number == {-1} \cup Nat
PaxosMsg == [phase : {-1, 1, 2, 3, 4}, agree : {0, 1}, number : Number,
             accepted : Number, cmd : Command]
NoMsg == [phase |-> -1, agree |-> 0, number |-> -1, accepted |-> -1, cmd |-> NoCommand]
P1a(n) == [NoMsg EXCEPT !.phase = 1, !.number = n]
P2a(n, c) == [NoMsg EXCEPT !.phase = 3, !.number = n, !.cmd = c]

\* "idle" waits in ReceivePaxosMsg and "replied" has sent its reply; each other
\* stage is the statement the engineer executes next.
Stage == {"idle", "received", "promise", "seeAccepted", "copySlot", "copyOrder",
          "reject", "accept", "acceptSlot", "acceptOrder", "replied"}

AcceptorInit ==
  /\ promisedProposalNumber = [a \in Server |-> -1]
  /\ acceptedProposalNumber = [a \in Server |-> -1]
  /\ acceptedValue \in [Server -> [slot : GarbageSlots, order : {NoOrder}]]
  /\ stage = [a \in Server |-> [p \in Proposer |-> "idle"]]
  /\ request = [a \in Server |-> [p \in Proposer |-> NoMsg]]
  /\ reply = [a \in Server |-> [p \in Proposer |-> NoMsg]]
  /\ votes = {}
  /\ promises = {}
-----------------------------------------------------------------------------
\* The engineer goes from one statement to another, or takes a message.
Move(a, p, from, to) ==
  /\ stage[a][p] = from
  /\ stage' = [stage EXCEPT ![a][p] = to]

\* A message of proposer p arrives at the engineer, which makes the reply of the
\* next phase: PaxosMsg(2) or PaxosMsg(4).
Receive(a, p, msg) ==
  /\ Move(a, p, "idle", "received")
  /\ request' = [request EXCEPT ![a][p] = msg]
  /\ reply' = [reply EXCEPT ![a][p] = [NoMsg EXCEPT !.phase = msg.phase + 1]]
  /\ UNCHANGED <<promisedProposalNumber, acceptedProposalNumber, acceptedValue,
                 votes, promises>>

\* The reply has been read: the connection is as it was before the message.
Release(a, p) ==
  /\ Move(a, p, "replied", "idle")
  /\ request' = [request EXCEPT ![a][p] = NoMsg]
  /\ reply' = [reply EXCEPT ![a][p] = NoMsg]
  /\ UNCHANGED <<promisedProposalNumber, acceptedProposalNumber, acceptedValue,
                 votes, promises>>

\* The test of a p1a message, and that of a p2a message.
MayPromise(a, n) == n > promisedProposalNumber[a]

MayAccept(a, n) == n = promisedProposalNumber[a]

TestPrepare(a, p) ==
  /\ request[a][p].phase = 1
  /\ Move(a, p, "received",
          IF MayPromise(a, request[a][p].number) THEN "promise" ELSE "reject")
  /\ UNCHANGED <<promisedProposalNumber, acceptedProposalNumber, acceptedValue,
                 request, reply, votes, promises>>

Promise(a, p) ==
  /\ Move(a, p, "promise", "seeAccepted")
  /\ promisedProposalNumber' = [promisedProposalNumber EXCEPT ![a] = request[a][p].number]
  /\ reply' = [reply EXCEPT ![a][p].agree = 1]
  /\ promises' = promises \cup
                   {[acceptor |-> a, proposer |-> p, number |-> request[a][p].number]}
  /\ UNCHANGED <<acceptedProposalNumber, acceptedValue, request, votes>>

\* acceptedProposalNumber is tested and read again for the reply; once it is not
\* -1 it never is -1 again, so the two reads are one step.
SeeAccepted(a, p) ==
  LET n == acceptedProposalNumber[a]
  IN  /\ Move(a, p, "seeAccepted", IF n # -1 THEN "copySlot" ELSE "replied")
      /\ reply' = [reply EXCEPT ![a][p].accepted = n]
      /\ UNCHANGED <<promisedProposalNumber, acceptedProposalNumber, acceptedValue,
                     request, votes, promises>>

CopySlot(a, p) ==
  /\ Move(a, p, "copySlot", "copyOrder")
  /\ reply' = [reply EXCEPT ![a][p].cmd.slot = acceptedValue[a].slot]
  /\ UNCHANGED <<promisedProposalNumber, acceptedProposalNumber, acceptedValue,
                 request, votes, promises>>

CopyOrder(a, p) ==
  /\ Move(a, p, "copyOrder", "replied")
  /\ reply' = [reply EXCEPT ![a][p].cmd.order = acceptedValue[a].order]
  /\ UNCHANGED <<promisedProposalNumber, acceptedProposalNumber, acceptedValue,
                 request, votes, promises>>

\* The number is read once more, and may have changed since the test.
Reject(a, p) ==
  /\ Move(a, p, "reject", "replied")
  /\ reply' = [reply EXCEPT ![a][p].number = promisedProposalNumber[a]]
  /\ UNCHANGED <<promisedProposalNumber, acceptedProposalNumber, acceptedValue,
                 request, votes, promises>>

TestAccept(a, p) ==
  /\ request[a][p].phase = 3
  /\ Move(a, p, "received",
          IF MayAccept(a, request[a][p].number) THEN "accept" ELSE "replied")
  /\ UNCHANGED <<promisedProposalNumber, acceptedProposalNumber, acceptedValue,
                 request, reply, votes, promises>>

AcceptNumber(a, p) ==
  /\ Move(a, p, "accept", "acceptSlot")
  /\ acceptedProposalNumber' = [acceptedProposalNumber EXCEPT ![a] = request[a][p].number]
  /\ UNCHANGED <<promisedProposalNumber, acceptedValue, request, reply, votes, promises>>

AcceptSlot(a, p) ==
  /\ Move(a, p, "acceptSlot", "acceptOrder")
  /\ acceptedValue' = [acceptedValue EXCEPT ![a].slot = request[a][p].cmd.slot]
  /\ UNCHANGED <<promisedProposalNumber, acceptedProposalNumber, request, reply,
                 votes, promises>>

\* The last member is written, and the reply agrees.
AcceptOrder(a, p) ==
  /\ Move(a, p, "acceptOrder", "replied")
  /\ acceptedValue' = [acceptedValue EXCEPT ![a].order = request[a][p].cmd.order]
  /\ reply' = [reply EXCEPT ![a][p].agree = 1]
  /\ votes' = votes \cup {[acceptor |-> a, number |-> request[a][p].number,
                           cmd |-> request[a][p].cmd]}
  /\ UNCHANGED <<promisedProposalNumber, acceptedProposalNumber, request, promises>>

EngineerStep(a, p) ==
  \/ TestPrepare(a, p) \/ Promise(a, p) \/ Reject(a, p)
  \/ SeeAccepted(a, p) \/ CopySlot(a, p) \/ CopyOrder(a, p)
  \/ TestAccept(a, p) \/ AcceptNumber(a, p) \/ AcceptSlot(a, p) \/ AcceptOrder(a, p)
-----------------------------------------------------------------------------
Vote == [acceptor : Server, number : Number, cmd : Command]
PromiseMade == [acceptor : Server, proposer : Proposer, number : Number]

(* Type correctness of the acceptors. *)
AcceptorTypeOK ==
  /\ promisedProposalNumber \in [Server -> Number]
  /\ acceptedProposalNumber \in [Server -> Number]
  /\ acceptedValue \in [Server -> Command]
  /\ stage \in [Server -> [Proposer -> Stage]]
  /\ request \in [Server -> [Proposer -> PaxosMsg]]
  /\ reply \in [Server -> [Proposer -> PaxosMsg]]
  /\ votes \subseteq Vote
  /\ promises \subseteq PromiseMade

(***************************************************************************)
(* A majority of the acceptors agreed to the same number and command:      *)
(* more than numOfAcceptors / 2, a division of integers.                   *)
(***************************************************************************)
Half == Cardinality(Server) \div 2
Voters(n, c) == {a \in Server : [acceptor |-> a, number |-> n, cmd |-> c] \in votes}
Promisers(p, n) ==
  {a \in Server : [acceptor |-> a, proposer |-> p, number |-> n] \in promises}
ChosenIn(n, c) == Cardinality(Voters(n, c)) > Half
Chosen(c) == \E v \in votes : v.cmd = c /\ ChosenIn(v.number, c)

(***************************************************************************)
(* An acceptor agrees to a p2a message only after it has promised its      *)
(* number, also when other engineers promise between test and write.       *)
(***************************************************************************)
PromiseBeforeVote ==
  \A v \in votes : \E m \in promises : m.acceptor = v.acceptor /\ m.number = v.number
=============================================================================
