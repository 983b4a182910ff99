--------------------------- MODULE OneProposerProofs ---------------------------
(***************************************************************************)
(* LaptopPaxos with one proposer, for any servers, orders, crashes and     *)
(* late starts: what its numbers, its acceptor and its commands are at     *)
(* every step.  ReplicatedLogProofs draws the conclusions.                 *)
(***************************************************************************)
EXTENDS ConnectionProofs

OneProposer == \A p, q \in Proposer : p = q

\* The acceptors that a scout's messages still reach.
Led(p) == {a \in Server : alive[a] /\ scoutStub[p][a] = "open"}

\* A scout's own acceptor is never lost to it.
SelfLed(p) == alive[p] /\ Tried(p, p) => scoutStub[p][p] = "open"

Preparing(p) == pc[p] \in {"prepare", "p1b"}
Accepting(p) == pc[p] \in {"accept", "p2b"}
-----------------------------------------------------------------------------
(***************************************************************************)
(* Numbers.  A round of the prepare phase either asks for a number that no *)
(* acceptor has seen, and all of them promise it, or for one that all of   *)
(* them have promised, and all of them reject it.                          *)
(***************************************************************************)
\* The number has not been used in an accept phase.
Unused(p) == \A a \in Server : acceptedProposalNumber[a] < proposalNumber[p]

\* The engineer of a has handled the p1a message of this round.
HasPromised(p, a) ==
  a \notin todo[p] \/ stage[a][p] \in {"seeAccepted", "copySlot", "copyOrder", "replied"}

NewRound(p) ==
  /\ Unused(p)
  /\ tally[p].highest >= proposalNumber[p] - 1
  /\ \A a \in Led(p) : IF HasPromised(p, a)
                       THEN promisedProposalNumber[a] = proposalNumber[p]
                       ELSE promisedProposalNumber[a] < proposalNumber[p]
  /\ \A a \in Server :
       /\ stage[a][p] # "reject"
       /\ stage[a][p] \in {"seeAccepted", "copySlot", "copyOrder", "replied"} =>
            reply[a][p].agree = 1
  /\ p \notin todo[p] => tally[p].accepted = acceptedProposalNumber[p]

OldRound(p) ==
  /\ \A a \in Led(p) : promisedProposalNumber[a] = proposalNumber[p]
  /\ \A a \in Server :
       /\ stage[a][p] \in {"idle", "received", "reject", "replied"}
       /\ stage[a][p] = "reject" => reply[a][p].agree = 0
       /\ stage[a][p] = "replied" =>
            reply[a][p].agree = 0 /\ reply[a][p].number = proposalNumber[p]
  /\ p \notin todo[p] => tally[p].highest >= proposalNumber[p]
  /\ tally[p].promised > 0 =>
       Unused(p) /\ tally[p].accepted = acceptedProposalNumber[p]

NumbersOK(p) ==
  /\ \A a \in Server : acceptedProposalNumber[a] <= proposalNumber[p]
  /\ ~scoutInit[p] => /\ proposalNumber[p] = 0
                      /\ \A a \in Server : /\ promisedProposalNumber[a] = -1
                                           /\ acceptedProposalNumber[a] = -1
  /\ scoutInit[p] /\ ~Preparing(p) =>
       \A a \in Led(p) : promisedProposalNumber[a] = proposalNumber[p]
  /\ Preparing(p) => NewRound(p) \/ OldRound(p)
  /\ ~Preparing(p) => tally[p] = NoTally
-----------------------------------------------------------------------------
(***************************************************************************)
(* Values.  Outside of an accept phase no acceptor has accepted in a       *)
(* larger number than the scout's own one, nor another value in the same.  *)
(* An acceptor that dies while it copies a value is not asked again.       *)
(***************************************************************************)
Sound(p, a) == alive[a] \/ stage[a][p] = "replied"

Leads(p) ==
  \A a \in Server :
    /\ acceptedProposalNumber[a] <= acceptedProposalNumber[p]
    /\ Sound(p, a) /\ acceptedProposalNumber[a] = acceptedProposalNumber[p]
         /\ acceptedProposalNumber[a] # -1 => acceptedValue[a] = acceptedValue[p]

\* What a promise carries, and what the scout has made of those it has read.
CarriedOK(p) ==
  /\ \A a \in Server : reply[a][p].agree = 1 =>
       /\ stage[a][p] \in {"copySlot", "copyOrder", "replied"} =>
            reply[a][p].accepted = acceptedProposalNumber[a]
       /\ stage[a][p] = "copyOrder" => reply[a][p].cmd.slot = acceptedValue[a].slot
       /\ stage[a][p] = "replied" /\ reply[a][p].accepted # -1 =>
            reply[a][p].cmd = acceptedValue[a]
  /\ tally[p].accepted <= acceptedProposalNumber[p]
  /\ tally[p].accepted = acceptedProposalNumber[p] /\ tally[p].accepted # -1 =>
       tally[p].cmd = acceptedValue[p]

Copied(p, a) ==
  \/ stage[a][p] = "acceptSlot"
  \/ stage[a][p] = "acceptOrder" /\ acceptedValue[a].slot = ballot[p].cmd.slot
  \/ acceptedValue[a] = ballot[p].cmd

BallotOK(p) ==
  /\ \A a \in Server :
       /\ stage[a][p] \in {"idle", "received", "accept", "acceptSlot", "acceptOrder", "replied"}
       /\ stage[a][p] \in {"acceptSlot", "acceptOrder"} =>
            acceptedProposalNumber[a] = proposalNumber[p]
       /\ stage[a][p] = "acceptOrder" => acceptedValue[a].slot = ballot[p].cmd.slot
       /\ Sound(p, a) /\ acceptedProposalNumber[a] = proposalNumber[p] => Copied(p, a)
  /\ stage[p][p] = "replied" =>
       reply[p][p].agree = 1 /\ acceptedProposalNumber[p] = proposalNumber[p]
  /\ p \notin todo[p] => /\ acceptedProposalNumber[p] = proposalNumber[p]
                         /\ ballot[p].agreed >= 1
                         /\ VotedFor(p, proposalNumber[p], ballot[p].cmd)

ValuesOK(p) ==
  /\ ~Accepting(p) => Leads(p)
  /\ Preparing(p) => CarriedOK(p)
  /\ Accepting(p) => BallotOK(p)
-----------------------------------------------------------------------------
(***************************************************************************)
(* Commands.  Those that have a vote, and the one of an accept phase, have *)
(* slots and orders of their own, and no slot is skipped.  One that the    *)
(* scout's server has not learned yet is what its acceptor holds, so the   *)
(* next prepare phase finds it.                                            *)
(***************************************************************************)
Known(p) == {v.cmd : v \in votes} \cup (IF Accepting(p) THEN {ballot[p].cmd} ELSE {})

Holds(p, c) ==
  IF Accepting(p) THEN c = ballot[p].cmd
                  ELSE acceptedProposalNumber[p] # -1 /\ acceptedValue[p] = c

CommandOK(p, c) ==
  /\ c.slot \in 1 .. Cardinality(Order)
  /\ c.order \in {<<p, i>> : i \in 1 .. served[p]}
  /\ 1 .. (c.slot - 1) \subseteq LP!Slots(decisionMap[p])
  /\ c.slot \in LP!Slots(decisionMap[p]) \/ Holds(p, c)

CommandsOK(p) ==
  /\ slot_in[p] >= 1
  /\ \A c \in Known(p) : CommandOK(p, c)
  /\ \A c, d \in Known(p) : c.slot = d.slot \/ c.order = d.order => c = d
  /\ ~Accepting(p) /\ acceptedProposalNumber[p] # -1 => acceptedValue[p] \in Known(p)
  /\ pc[p] = "connect" \/ Preparing(p) \/ (Accepting(p) /\ ~ballot[p].own) =>
       \A c \in Known(p) : c.order # OrderOf(p)

LeaderOK(p) == SelfLed(p) /\ NumbersOK(p) /\ ValuesOK(p) /\ CommandsOK(p)

\* A server that has not been started has done nothing.
Unstarted ==
  \A s \in starting : /\ acceptedProposalNumber[s] = -1
                      /\ s \in Proposer => pc[s] = "idle" /\ ~scoutInit[s]

LeaderInv == Unstarted /\ \A p \in Proposer : LeaderOK(p)
-----------------------------------------------------------------------------
(***************************************************************************)
(* A scout never erases or closes the connection to its own acceptor.      *)
(***************************************************************************)
LEMMA SelfMoves ==
  ASSUME CoreTypeOK, StubInv, NEW p \in Proposer, ScoutMove(p), UNCHANGED alive, SelfLed(p)
  PROVE  SelfLed(p)'
<1> USE ProposerAssumption DEF Goes, SameStubs, SetStubs, Tried, SelfLed
<1>1. CASE Begins(p)
  BY <1>1 DEF Begins
<1>2. CASE HasConnected(p) \/ Loops(p) \/ Commands(p) \/ Answers(p)
  BY <1>2 DEF HasConnected, Loops, Commands, Answers
<1>3. ASSUME NEW s \in Server, Connects(p, s) PROVE SelfLed(p)'
  <2>1. /\ s \in todo[p] /\ pc[p] = "connect" /\ ~scoutInit[p]
        /\ pc'[p] = "connect" /\ ~scoutInit'[p]
    BY <1>3 DEF Connects, StubInv, StubOK
  <2>2. CASE s = p
    BY <1>3, <2>1, <2>2 DEF Connects
  <2>3. CASE s # p
    BY <1>3, <2>1, <2>3 DEF Connects
  <2> QED
    BY <2>2, <2>3
<1>4. ASSUME NEW s \in Server, Sends(p, s) \/ Receives(p, s) PROVE SelfLed(p)'
  BY <1>4 DEF Sends, Receives
<1>5. ASSUME NEW s \in Server, Fails(p, s) PROVE SelfLed(p)'
  BY <1>5 DEF Fails, StubInv, StubOK
<1>6. ASSUME NEW s \in Server, ConnectsLearner(p, s) \/ Announces(p, s) PROVE SelfLed(p)'
  BY <1>6 DEF ConnectsLearner, Announces
<1> QED
  BY <1>1, <1>2, <1>3, <1>4, <1>5, <1>6 DEF ScoutMove

(***************************************************************************)
(* A step that is in neither phase, before or after.                       *)
(***************************************************************************)
LEMMA AsideKeeps ==
  ASSUME CoreTypeOK, NEW p \in Proposer, NumbersOK(p), ValuesOK(p), CommandsOK(p),
         ~Preparing(p), ~Accepting(p), ~Preparing(p)', ~Accepting(p)',
         UNCHANGED <<acceptorVars, alive, proposalNumber, slot_in, decisionMap>>,
         tally'[p] = NoTally,
         scoutInit'[p] = scoutInit[p],
         scoutInit[p] => Led(p)' \subseteq Led(p),
         \/ served'[p] = served[p] /\ pc'[p] # "connect"
         \/ served'[p] = served[p] /\ pc[p] = "connect"
         \/ served'[p] = served[p] + 1
  PROVE  NumbersOK(p)' /\ ValuesOK(p)' /\ CommandsOK(p)'
<1> USE DEF acceptorVars
<1>1. NumbersOK(p)'
  BY DEF NumbersOK
<1>2. ValuesOK(p)'
  BY DEF ValuesOK, Leads, Sound
<1>3. Known(p)' = Known(p)
  BY DEF Known
<1>4. \A c : LP!Slots(decisionMap[p])' = LP!Slots(decisionMap[p]) /\ (Holds(p, c) <=> Holds(p, c)')
  BY DEF LP!Slots, Holds
<1>5. served[p] \in Nat /\ served'[p] \in Nat /\ served[p] <= served'[p]
  BY MaxOrdersAssumption DEF CoreTypeOK, ScoutTypeOK
<1>6. \A c \in Known(p) : CommandOK(p, c) => CommandOK(p, c)'
  <2>1. {<<p, i>> : i \in 1 .. served[p]} \subseteq {<<p, i>> : i \in 1 .. served'[p]}
    BY <1>5
  <2> QED
    BY <1>4, <2>1 DEF CommandOK
<1>7. pc'[p] = "connect" => \A c \in Known(p) : c.order # OrderOf(p)'
  <2>1. CASE served'[p] = served[p]
    BY <1>5, <2>1 DEF CommandsOK, OrderOf
  <2>2. CASE served'[p] = served[p] + 1
    BY <1>5, <2>2 DEF CommandsOK, CommandOK, OrderOf
  <2> QED
    BY <2>1, <2>2
<1> QED
  BY <1>1, <1>2, <1>3, <1>6, <1>7 DEF CommandsOK

(***************************************************************************)
(* A step that changes nothing the commands depend on.                     *)
(***************************************************************************)
LEMMA CommandsKept ==
  ASSUME NEW p \in Proposer, CommandsOK(p),
         UNCHANGED <<votes, acceptedProposalNumber, acceptedValue, slot_in, served, decisionMap>>,
         Accepting(p)' <=> Accepting(p),
         Accepting(p) => /\ ballot'[p].cmd = ballot[p].cmd
                         /\ ballot'[p].own = ballot[p].own,
         pc'[p] = "connect" \/ Preparing(p)' => pc[p] = "connect" \/ Preparing(p)
  PROVE  CommandsOK(p)'
<1>1. Known(p)' = Known(p)
  BY DEF Known
<1>2. \A c : Holds(p, c)' <=> Holds(p, c)
  BY DEF Holds
<1>3. \A c : CommandOK(p, c)' <=> CommandOK(p, c)
  BY <1>2 DEF CommandOK, LP!Slots
<1> QED
  BY <1>1, <1>3 DEF CommandsOK, OrderOf

LEMMA CountFacts ==
  ASSUME NEW t \in Tally, NEW msg \in PaxosMsg
  PROVE  LET u == Count(t, msg)
         IN  /\ u.highest \in Int /\ u.highest >= t.highest /\ u.highest >= msg.number
             /\ u.promised = t.promised + msg.agree
             /\ IF msg.agree = 1 /\ msg.accepted > t.accepted
                THEN u.accepted = msg.accepted /\ u.cmd = msg.cmd
                ELSE u.accepted = t.accepted /\ u.cmd = t.cmd
BY DEF Count, Tally, PaxosMsg, Number

(***************************************************************************)
(* What is exchanged with an acceptor: of the scout's engineers only that  *)
(* of the acceptor it talks to is at work.                                 *)
(***************************************************************************)
LEMMA SendFacts ==
  ASSUME CoreTypeOK, PromiseInv, NEW p \in Proposer, NEW a \in Server,
         SendP1a(p, a) \/ SendP2a(p, a)
  PROVE  /\ alive[p] /\ a \in todo[p]
         /\ todo'[p] = todo[p]
         /\ \A b \in Server :
              /\ stage[b][p] = "idle"
              /\ stage'[b][p] = "idle" \/ (stage'[b][p] = "received" /\ reply'[b][p].agree = 0)
         /\ UNCHANGED <<promisedProposalNumber, acceptedProposalNumber, acceptedValue, votes,
                        alive, proposalNumber, slot_in, served, stubVars, decisionMap>>
<1> USE DEF CoreTypeOK, ScoutTypeOK
<1>1. /\ pc[p] \notin {"p1b", "p2b"} /\ alive[p] /\ a \in todo[p]
      /\ todo' = todo
      /\ UNCHANGED <<alive, proposalNumber, slot_in, served, stubVars, decisionMap>>
  BY DEF SendP1a, SendP2a, At, Goto, orderVars, learnVars
<1>2. \A b \in Server : stage[b][p] = "idle"
  BY <1>1, QuietScout
<1>3. PICK msg : SendTo(p, a, msg)
  BY DEF SendP1a, SendP2a
<1>4. CASE Receive(a, p, msg)
  <2>1. /\ stage' = [stage EXCEPT ![a][p] = "received"]
        /\ reply' = [reply EXCEPT ![a][p] = [NoMsg EXCEPT !.phase = msg.phase + 1]]
        /\ UNCHANGED <<promisedProposalNumber, acceptedProposalNumber, acceptedValue, votes>>
    BY <1>4 DEF Receive, Move
  <2> QED
    BY <1>1, <1>2, <2>1 DEF AcceptorTypeOK, NoMsg
<1>5. CASE UNCHANGED acceptorVars
  BY <1>1, <1>2, <1>5 DEF acceptorVars
<1> QED
  BY <1>3, <1>4, <1>5 DEF SendTo

LEMMA ReceiveFacts ==
  ASSUME CoreTypeOK, PromiseInv, NEW p \in Proposer, NEW a \in Server,
         NEW msg \in PossibleReplies(p, a), ReceiveFrom(p, a, msg),
         pc[p] \in {"p1b", "p2b"}, At(p, pc[p], a)
  PROVE  /\ msg \in PaxosMsg
         /\ \A b \in Server : stage'[b][p] = "idle" /\ (b # a => stage[b][p] = "idle")
         /\ \/ stage[a][p] = "replied" /\ msg = reply[a][p] /\ UNCHANGED scoutStub
            \/ ~alive[a] /\ msg = NoMsg /\ \A b \in Server \ {a} : scoutStub'[p][b] = scoutStub[p][b]
         /\ UNCHANGED <<promisedProposalNumber, acceptedProposalNumber, acceptedValue, votes,
                        scoutInit>>
<1> USE DEF CoreTypeOK, ScoutTypeOK
<1>1. msg \in PaxosMsg
  BY ReceiveFromType
<1>2. \A b \in Server : b # a => stage[b][p] = "idle"
  <2> SUFFICES ASSUME NEW b \in Server, stage[b][p] # "idle" PROVE b = a
    OBVIOUS
  <2>1. Current(p, b) /\ Current(p, a)
    BY DEF PromiseInv, EngineerOK, WaitsFor, Current, At
  <2> QED
    BY <2>1, CurrentUnique
<1>3. CASE stage[a][p] = "replied" /\ msg = reply[a][p] /\ Release(a, p) /\ UNCHANGED stubVars
  BY <1>1, <1>2, <1>3 DEF Release, Move, AcceptorTypeOK, stubVars
<1>4. CASE /\ ~alive[a] /\ stage[a][p] # "replied" /\ msg = NoMsg
           /\ scoutStub' = [scoutStub EXCEPT ![p][a] = "closed"]
           /\ UNCHANGED <<acceptorVars, learnerStub, scoutInit, learnerInit>>
  BY <1>1, <1>2, <1>4 DEF acceptorVars, PromiseInv, EngineerOK
<1> QED
  BY <1>3, <1>4 DEF ReceiveFrom

(***************************************************************************)
(* The prepare phase.                                                      *)
(***************************************************************************)
LEMMA SendP1aKeeps ==
  ASSUME CoreTypeOK, PromiseInv, NEW p \in Proposer, NEW a \in Server,
         NumbersOK(p), ValuesOK(p), CommandsOK(p), SendP1a(p, a)
  PROVE  NumbersOK(p)' /\ ValuesOK(p)' /\ CommandsOK(p)'
<1> USE DEF CoreTypeOK, ScoutTypeOK
<1>1. /\ todo'[p] = todo[p]
      /\ \A b \in Server :
           /\ stage[b][p] = "idle"
           /\ stage'[b][p] = "idle" \/ (stage'[b][p] = "received" /\ reply'[b][p].agree = 0)
      /\ UNCHANGED <<promisedProposalNumber, acceptedProposalNumber, acceptedValue, votes,
                     alive, proposalNumber, slot_in, served, stubVars, decisionMap>>
  BY SendFacts
<1>2. pc[p] = "prepare" /\ pc'[p] = "p1b"
  BY DEF SendP1a, At, Goto
<1>3. /\ tally'[p].highest = tally[p].highest /\ tally'[p].promised = tally[p].promised
      /\ tally'[p].accepted = tally[p].accepted /\ tally'[p].cmd = tally[p].cmd
  <2>1. tally' = [tally EXCEPT ![p].active = tally[p].active + 1]
    BY DEF SendP1a
  <2> QED
    BY <2>1 DEF Tally
<1>4. NumbersOK(p)'
  <2>1. scoutInit'[p] = scoutInit[p] /\ Led(p)' = Led(p)
    BY <1>1 DEF Led, stubVars
  <2>2. NewRound(p) => NewRound(p)'
    BY <1>1, <1>3, <2>1 DEF NewRound, HasPromised, Unused
  <2>3. OldRound(p) => OldRound(p)'
    BY <1>1, <1>3, <2>1 DEF OldRound, Unused
  <2> QED
    BY <1>1, <1>2, <2>1, <2>2, <2>3 DEF NumbersOK, Preparing
<1>5. ValuesOK(p)'
  BY <1>1, <1>2, <1>3 DEF ValuesOK, Leads, CarriedOK, Preparing, Accepting, Sound
<1>6. CommandsOK(p)'
  BY <1>1, <1>2, CommandsKept DEF Preparing, Accepting
<1> QED
  BY <1>4, <1>5, <1>6

LEMMA P1aFailsKeeps ==
  ASSUME CoreTypeOK, PromiseInv, StubInv, NEW p \in Proposer, NEW a \in Server,
         NumbersOK(p), ValuesOK(p), CommandsOK(p), P1aFails(p, a)
  PROVE  NumbersOK(p)' /\ ValuesOK(p)' /\ CommandsOK(p)'
<1> USE DEF CoreTypeOK, ScoutTypeOK
<1>1. /\ pc[p] = "prepare" /\ pc'[p] = "prepare" /\ todo'[p] = todo[p] \ {a}
      /\ alive[p] /\ a \in Server /\ SendFails(scoutStub[p][a], a)
      /\ UNCHANGED <<acceptorVars, alive, proposalNumber, slot_in, tally, served, scoutInit,
                     decisionMap>>
      /\ scoutStub' = [scoutStub EXCEPT ![p][a] = "none"]
  BY DEF P1aFails, At, Goto, Erase, AfterErase, orderVars, learnVars
<1>2. a # p /\ ~alive[a]
  BY <1>1 DEF SendFails, StubInv, StubOK
<1>3. \A b \in Server : stage[b][p] = "idle"
  BY <1>1, QuietScout
<1>4. NumbersOK(p)'
  <2>1. Led(p)' \subseteq Led(p) \ {a}
    BY <1>1 DEF Led
  <2>2. NewRound(p) => NewRound(p)'
    BY <1>1, <1>2, <1>3, <2>1 DEF NewRound, HasPromised, Unused, acceptorVars
  <2>3. OldRound(p) => OldRound(p)'
    BY <1>1, <1>2, <2>1 DEF OldRound, Unused, acceptorVars
  <2> QED
    BY <1>1, <2>1, <2>2, <2>3 DEF NumbersOK, Preparing, acceptorVars
<1>5. ValuesOK(p)'
  BY <1>1, <1>3 DEF ValuesOK, Leads, CarriedOK, Preparing, Accepting, Sound, acceptorVars
<1>6. CommandsOK(p)'
  BY <1>1, CommandsKept DEF Preparing, Accepting, acceptorVars
<1> QED
  BY <1>4, <1>5, <1>6

(***************************************************************************)
(* A promise is counted.  In a new round the scout's own acceptor gives it *)
(* what it leads with; whatever else is carried is not above that.         *)
(***************************************************************************)
LEMMA RecvP1bKeeps ==
  ASSUME CoreTypeOK, PromiseInv, StubInv, NEW p \in Proposer, NEW a \in Server,
         SelfLed(p), NumbersOK(p), ValuesOK(p), CommandsOK(p), RecvP1b(p, a)
  PROVE  NumbersOK(p)' /\ ValuesOK(p)' /\ CommandsOK(p)'
<1> USE DEF CoreTypeOK, ScoutTypeOK
<1> DEFINE n == proposalNumber[p]
           t == tally[p]
           u == tally'[p]
<1>1. PICK msg \in PossibleReplies(p, a) :
        /\ ReceiveFrom(p, a, msg)
        /\ tally' = [tally EXCEPT ![p] = Count(tally[p], msg)]
  BY DEF RecvP1b
<1>2. /\ pc[p] = "p1b" /\ pc'[p] = "prepare" /\ todo'[p] = todo[p] \ {a}
      /\ alive[p] /\ a \in todo[p] /\ At(p, pc[p], a)
      /\ UNCHANGED <<alive, proposalNumber, slot_in, ballot, served, decisionMap>>
  BY DEF RecvP1b, At, Goto, orderVars, learnVars
<1>3. /\ msg \in PaxosMsg
      /\ \A b \in Server : stage'[b][p] = "idle" /\ (b # a => stage[b][p] = "idle")
      /\ \/ stage[a][p] = "replied" /\ msg = reply[a][p] /\ UNCHANGED scoutStub
         \/ ~alive[a] /\ msg = NoMsg /\ \A b \in Server \ {a} : scoutStub'[p][b] = scoutStub[p][b]
      /\ UNCHANGED <<promisedProposalNumber, acceptedProposalNumber, acceptedValue, votes,
                     scoutInit>>
  BY <1>1, <1>2, ReceiveFacts
<1>4. /\ u.highest \in Int /\ u.highest >= t.highest /\ u.highest >= msg.number
      /\ u.promised = t.promised + msg.agree
      /\ IF msg.agree = 1 /\ msg.accepted > t.accepted
         THEN u.accepted = msg.accepted /\ u.cmd = msg.cmd
         ELSE u.accepted = t.accepted /\ u.cmd = t.cmd
  <2>1. u = Count(t, msg)
    BY <1>1
  <2> QED
    BY <1>3, <2>1, CountFacts
<1>5. /\ p \in Server /\ n \in Nat /\ t.highest \in Int /\ t.promised \in Nat /\ t.accepted \in Int
      /\ msg.number \in Int /\ msg.accepted \in Int /\ msg.agree \in {0, 1}
      /\ \A b \in Server : promisedProposalNumber[b] \in Int /\ acceptedProposalNumber[b] \in Int
  BY <1>3, ProposerAssumption, SMTT(30) DEF Tally, Number, PaxosMsg, AcceptorTypeOK
<1>6. a = p => stage[a][p] = "replied" /\ msg = reply[a][p]
  BY <1>2, <1>3
<1>7. /\ Led(p)' \subseteq Led(p)
      /\ a \in Led(p)' => stage[a][p] = "replied" /\ msg = reply[a][p]
  BY <1>2, <1>3 DEF Led
<1>8. /\ msg.agree = 1 => stage[a][p] = "replied" /\ msg = reply[a][p]
      /\ msg = NoMsg => msg.agree = 0
  BY <1>3 DEF NoMsg
<1>9. Leads(p) /\ CarriedOK(p)
  BY <1>2 DEF ValuesOK, Accepting, Preparing
<1>10. /\ msg.agree = 1 => /\ msg.accepted = acceptedProposalNumber[a]
                           /\ msg.accepted # -1 => msg.cmd = acceptedValue[a]
                           /\ msg.accepted <= acceptedProposalNumber[p]
                           /\ msg.accepted = acceptedProposalNumber[p] /\ msg.accepted # -1 =>
                                acceptedValue[a] = acceptedValue[p]
  BY <1>8, <1>9 DEF CarriedOK, Leads, Sound
<1>11. /\ u.accepted <= acceptedProposalNumber[p]
       /\ u.accepted = acceptedProposalNumber[p] /\ u.accepted # -1 => u.cmd = acceptedValue[p]
       /\ t.accepted = acceptedProposalNumber[p] => u.accepted = acceptedProposalNumber[p]
  BY <1>4, <1>5, <1>9, <1>10, SMTT(30) DEF CarriedOK
<1>12. NewRound(p) => NewRound(p)'
  <2> SUFFICES ASSUME NewRound(p) PROVE NewRound(p)'
    OBVIOUS
  <2>1. Unused(p)' /\ u.highest >= proposalNumber'[p] - 1
    BY <1>2, <1>3, <1>4, <1>5, SMTT(30) DEF NewRound, Unused
  <2>2. \A b \in Led(p)' : IF HasPromised(p, b)'
                           THEN promisedProposalNumber'[b] = proposalNumber'[p]
                           ELSE promisedProposalNumber'[b] < proposalNumber'[p]
    BY <1>2, <1>3, <1>7, ZenonT(60) DEF NewRound, HasPromised
  <2>3. p \notin todo'[p] => u.accepted = acceptedProposalNumber'[p]
    <3>1. CASE a = p
      <4>1. msg.agree = 1 /\ msg.accepted = acceptedProposalNumber[p]
        BY <1>5, <1>6, <1>10, <3>1 DEF NewRound
      <4> QED
        BY <1>3, <1>4, <1>5, <1>11, <4>1 DEF CarriedOK
    <3>2. CASE a # p
      BY <1>2, <1>3, <1>11, <3>2 DEF NewRound
    <3> QED
      BY <3>1, <3>2
  <2> QED
    BY <1>3, <2>1, <2>2, <2>3 DEF NewRound
<1>13. OldRound(p) => OldRound(p)'
  <2> SUFFICES ASSUME OldRound(p) PROVE OldRound(p)'
    OBVIOUS
  <2>1. msg.agree = 0
    BY <1>5, <1>8 DEF OldRound
  <2>2. p \notin todo'[p] => u.highest >= proposalNumber'[p]
    <3>1. CASE a = p
      BY <1>2, <1>4, <1>5, <1>6, <3>1, SMTT(30) DEF OldRound
    <3>2. CASE a # p
      BY <1>2, <1>4, <1>5, <3>2, SMTT(30) DEF OldRound
    <3> QED
      BY <3>1, <3>2
  <2>3. u.promised > 0 => Unused(p)' /\ u.accepted = acceptedProposalNumber'[p]
    BY <1>2, <1>3, <1>4, <1>5, <2>1 DEF OldRound, Unused
  <2> QED
    BY <1>2, <1>3, <1>7, <2>2, <2>3 DEF OldRound
<1>14. NumbersOK(p)'
  BY <1>2, <1>3, <1>7, <1>12, <1>13 DEF NumbersOK, Preparing
<1>15. ValuesOK(p)'
  <2>1. Leads(p)'
    BY <1>2, <1>3, <1>9 DEF Leads, Sound
  <2>2. CarriedOK(p)'
    BY <1>3, <1>11 DEF CarriedOK
  <2> QED
    BY <1>2, <2>1, <2>2 DEF ValuesOK, Accepting
<1>16. CommandsOK(p)'
  BY <1>2, <1>3, CommandsKept DEF Preparing, Accepting
<1> QED
  BY <1>14, <1>15, <1>16

(***************************************************************************)
(* A round begins.                                                         *)
(***************************************************************************)
LEMMA FirstRound ==
  ASSUME CoreTypeOK, PromiseInv, StubInv, NEW p \in Proposer,
         NumbersOK(p), ValuesOK(p), CommandsOK(p), AcceptorsConnected(p), SelfLed(p)'
  PROVE  NumbersOK(p)' /\ ValuesOK(p)' /\ CommandsOK(p)'
<1> USE DEF CoreTypeOK, ScoutTypeOK
<1>1. /\ pc[p] = "connect" /\ pc'[p] = "prepare" /\ todo'[p] = Acceptors(p)
      /\ alive[p] /\ scoutInit'[p]
      /\ UNCHANGED <<acceptorVars, alive, proposalNumber, slot_in, tally, ballot, served,
                     scoutStub, decisionMap>>
  BY DEF AcceptorsConnected, Done, Goto, orderVars, learnVars
<1>2. \A b \in Server : stage[b][p] = "idle"
  BY <1>1, QuietScout
<1>3. Led(p)' \subseteq todo'[p] /\ p \in todo'[p]
  BY <1>1, ProposerAssumption DEF Led, Acceptors, SelfLed, Tried
<1>4. /\ proposalNumber[p] = 0 /\ tally[p] = NoTally
      /\ \A a \in Server : promisedProposalNumber[a] = -1 /\ acceptedProposalNumber[a] = -1
  BY <1>1 DEF NumbersOK, StubInv, StubOK, Preparing
<1>5. NewRound(p)'
  BY <1>1, <1>2, <1>3, <1>4 DEF NewRound, HasPromised, Unused, NoTally, Led, acceptorVars
<1>6. NumbersOK(p)'
  BY <1>1, <1>4, <1>5 DEF NumbersOK, Preparing, acceptorVars
<1>7. ValuesOK(p)'
  BY <1>1, <1>2, <1>4, ProposerAssumption
     DEF ValuesOK, Leads, CarriedOK, Preparing, Accepting, Sound, acceptorVars, NoTally
<1>8. CommandsOK(p)'
  BY <1>1, CommandsKept DEF Preparing, Accepting, acceptorVars
<1> QED
  BY <1>6, <1>7, <1>8

LEMMA OrderTaken ==
  ASSUME CoreTypeOK, PromiseInv, NEW p \in Proposer,
         NumbersOK(p), ValuesOK(p), CommandsOK(p), TakeOrder(p), SelfLed(p)'
  PROVE  NumbersOK(p)' /\ ValuesOK(p)' /\ CommandsOK(p)'
<1> USE DEF CoreTypeOK, ScoutTypeOK
<1>1. /\ pc[p] = "idle" /\ alive[p] /\ served'[p] = served[p] + 1
      /\ UNCHANGED <<acceptorVars, alive, proposalNumber, slot_in, tally, ballot, scoutStub,
                     scoutInit, decisionMap>>
  BY DEF TakeOrder, stubVars, learnVars
<1>2. tally'[p] = NoTally /\ tally[p] = NoTally /\ ~Preparing(p) /\ ~Accepting(p)
  BY <1>1 DEF NumbersOK, Preparing, Accepting
<1>3. CASE ~scoutInit[p]
  <2>1. pc'[p] = "connect"
    BY <1>3 DEF TakeOrder, Begin, Goto
  <2>2. ~Preparing(p)' /\ ~Accepting(p)'
    BY <2>1 DEF Preparing, Accepting
  <2> QED
    BY <1>1, <1>2, <1>3, <2>2, AsideKeeps
<1>4. CASE scoutInit[p]
  <2>1. pc'[p] = "prepare" /\ todo'[p] = Acceptors(p)
    BY <1>4 DEF TakeOrder, Begin, Goto
  <2>2. Led(p)' = Led(p) /\ p \in todo'[p]
    BY <1>1, <1>4, <2>1, ProposerAssumption DEF Led, Acceptors, SelfLed, Tried
  <2>3. \A b \in Server : stage[b][p] = "idle"
    BY <1>1, QuietScout
  <2>4. OldRound(p)'
    BY <1>1, <1>2, <1>4, <2>2, <2>3 DEF OldRound, NumbersOK, NoTally, acceptorVars
  <2>5. NumbersOK(p)'
    BY <1>1, <1>4, <2>1, <2>4 DEF NumbersOK, Preparing, acceptorVars
  <2>6. ValuesOK(p)'
    <3>1. -1 <= acceptedProposalNumber[p]
      <4>1. acceptedProposalNumber[p] \in Number
        BY ProposerAssumption DEF AcceptorTypeOK
      <4> QED
        BY <4>1 DEF Number
    <3> QED
      BY <1>1, <1>2, <2>1, <2>3, <3>1
         DEF ValuesOK, Leads, CarriedOK, Preparing, Accepting, Sound, acceptorVars, NoTally
  <2>7. CommandsOK(p)'
    <3>1. Known(p)' = Known(p) /\ \A c : Holds(p, c)' <=> Holds(p, c)
      BY <1>1, <1>2, <2>1 DEF Known, Holds, Accepting, acceptorVars
    <3>2. {<<p, i>> : i \in 1 .. served[p]} \subseteq {<<p, i>> : i \in 1 .. served'[p]}
      BY <1>1, MaxOrdersAssumption
    <3>3. \A c : CommandOK(p, c) => CommandOK(p, c)'
      BY <1>1, <3>1, <3>2 DEF CommandOK, LP!Slots
    <3>4. \A c \in Known(p) : c.order # OrderOf(p)'
      BY <1>1, MaxOrdersAssumption DEF CommandsOK, CommandOK, OrderOf
    <3> QED
      BY <1>1, <1>2, <2>1, <3>1, <3>3, <3>4 DEF CommandsOK, Accepting, acceptorVars
  <2> QED
    BY <2>5, <2>6, <2>7
<1> QED
  BY <1>3, <1>4

LEMMA AnotherRound ==
  ASSUME CoreTypeOK, PromiseInv, NEW p \in Proposer,
         NumbersOK(p), ValuesOK(p), CommandsOK(p), NextRound(p), SelfLed(p), scoutInit[p]
  PROVE  NumbersOK(p)' /\ ValuesOK(p)' /\ CommandsOK(p)'
<1> USE DEF CoreTypeOK, ScoutTypeOK
<1> DEFINE n == proposalNumber[p]
           m == proposalNumber'[p]
<1>1. /\ pc[p] = "prepare" /\ pc'[p] = "prepare" /\ todo[p] = {} /\ todo'[p] = Acceptors(p)
      /\ alive[p] /\ m = tally[p].highest + 1
      /\ UNCHANGED <<acceptorVars, alive, slot_in, tally, ballot, served, scoutStub, scoutInit,
                     decisionMap>>
  BY DEF NextRound, Rejected, Done, Goto, NextNumber, stubVars, orderVars, learnVars
<1>2. \A b \in Server : stage[b][p] = "idle"
  BY <1>1, QuietScout
<1>3. /\ Led(p)' = Led(p) /\ p \in todo'[p]
      /\ \A a \in Led(p)' : a \in todo'[p]
  BY <1>1, ProposerAssumption DEF Led, Acceptors, SelfLed, Tried
<1>4. /\ n \in Nat /\ tally[p].highest \in Int /\ tally[p].promised \in Nat
      /\ \A b \in Server : promisedProposalNumber[b] \in Int /\ acceptedProposalNumber[b] \in Int
      /\ \A b \in Server : acceptedProposalNumber[b] <= n
  BY DEF Tally, Number, AcceptorTypeOK, NumbersOK
<1>5. \A a \in Led(p) : promisedProposalNumber[a] = n
  BY <1>1 DEF NumbersOK, Preparing, NewRound, OldRound, HasPromised
<1>6. NewRound(p) \/ OldRound(p)
  BY <1>1 DEF NumbersOK, Preparing
<1>7. ASSUME m = n PROVE OldRound(p)'
  <2>1. NewRound(p)
    BY <1>1, <1>4, <1>6, <1>7 DEF OldRound
  <2>2. OldRound(p)'
    BY <1>1, <1>2, <1>3, <1>5, <1>7, <2>1 DEF NewRound, OldRound, Unused, acceptorVars
  <2> QED
    BY <2>2
<1>8. ASSUME m > n PROVE NewRound(p)'
  <2>1. Unused(p)'
    BY <1>1, <1>4, <1>8 DEF Unused, acceptorVars
  <2>2. tally'[p].highest >= m - 1
    BY <1>1, <1>4
  <2>3. \A a \in Led(p)' : ~HasPromised(p, a)' /\ promisedProposalNumber'[a] < m
    <3> TAKE a \in Led(p)'
    <3>1. a \in Led(p) /\ a \in Server /\ a \in todo'[p]
      BY <1>3 DEF Led
    <3>2. promisedProposalNumber'[a] = n /\ stage'[a][p] = "idle"
      BY <1>1, <1>2, <1>5, <3>1 DEF acceptorVars
    <3> QED
      BY <1>1, <1>4, <1>8, <3>1, <3>2 DEF HasPromised
  <2> QED
    BY <1>1, <1>2, <1>3, <2>1, <2>2, <2>3 DEF NewRound, acceptorVars
<1>9. m >= n /\ (NewRound(p)' \/ OldRound(p)')
  <2>1. m >= n
    BY <1>1, <1>4, <1>6 DEF NewRound, OldRound
  <2> QED
    BY <1>1, <1>4, <1>7, <1>8, <2>1
<1>10. NumbersOK(p)'
  BY <1>1, <1>4, <1>9 DEF NumbersOK, Preparing, acceptorVars
<1>11. ValuesOK(p)'
  BY <1>1, <1>2 DEF ValuesOK, Leads, CarriedOK, Preparing, Accepting, Sound, acceptorVars
<1>12. CommandsOK(p)'
  BY <1>1, CommandsKept DEF Preparing, Accepting, acceptorVars
<1> QED
  BY <1>10, <1>11, <1>12

(***************************************************************************)
(* What a majority of promises tells the scout: its number has not been    *)
(* voted in, and the command it has counted is the one it leads with.      *)
(***************************************************************************)
LEMMA PreparedFacts ==
  ASSUME CoreTypeOK, PromiseInv, NEW p \in Proposer,
         NumbersOK(p), ValuesOK(p), Prepared(p)
  PROVE  /\ alive[p] /\ pc[p] = "prepare" /\ todo[p] = {}
         /\ \A b \in Server : stage[b][p] = "idle"
         /\ Unused(p) /\ Leads(p)
         /\ tally[p].accepted = acceptedProposalNumber[p]
         /\ acceptedProposalNumber[p] # -1 => tally[p].cmd = acceptedValue[p]
         /\ \A a \in Led(p) : promisedProposalNumber[a] = proposalNumber[p]
<1> USE DEF CoreTypeOK, ScoutTypeOK
<1>1. alive[p] /\ pc[p] = "prepare" /\ todo[p] = {} /\ tally[p].promised > Half
  BY DEF Prepared, Done
<1>2. \A b \in Server : stage[b][p] = "idle"
  BY <1>1, QuietScout
<1>3. Half \in Nat /\ tally[p].promised \in Nat
  BY VotersFinite DEF Tally
<1>4. NewRound(p) \/ OldRound(p)
  BY <1>1 DEF NumbersOK, Preparing
<1>5. Unused(p) /\ tally[p].accepted = acceptedProposalNumber[p]
  BY <1>1, <1>3, <1>4 DEF NewRound, OldRound
<1>6. \A a \in Led(p) : promisedProposalNumber[a] = proposalNumber[p]
  BY <1>1, <1>4 DEF NewRound, OldRound, HasPromised
<1>7. Leads(p) /\ CarriedOK(p)
  BY <1>1 DEF ValuesOK, Preparing, Accepting
<1> QED
  BY <1>1, <1>2, <1>5, <1>6, <1>7 DEF CarriedOK

LEMMA EntersAccept ==
  ASSUME CoreTypeOK, PromiseInv, NEW p \in Proposer, NumbersOK(p), ValuesOK(p), Prepared(p),
         SelfLed(p), scoutInit[p], NEW c, NEW own, EnterAccept(p, c, own)
  PROVE  NumbersOK(p)' /\ ValuesOK(p)'
<1> USE DEF CoreTypeOK, ScoutTypeOK
<1>1. /\ pc'[p] = "accept" /\ todo'[p] = Acceptors(p) /\ tally'[p] = NoTally
      /\ ballot'[p] = BallotFor(c, own)
      /\ UNCHANGED <<acceptorVars, alive, proposalNumber, scoutStub, scoutInit>>
  BY DEF EnterAccept, Goto, stubVars
<1>2. /\ alive[p]
      /\ \A b \in Server : stage[b][p] = "idle"
      /\ \A a \in Led(p) : promisedProposalNumber[a] = proposalNumber[p]
      /\ Unused(p)
  BY PreparedFacts
<1>3. p \in todo'[p]
  BY <1>1, <1>2, ProposerAssumption DEF Acceptors, SelfLed, Tried
<1>4. \A a \in Server : acceptedProposalNumber[a] \in Int /\ proposalNumber[p] \in Int
  BY DEF AcceptorTypeOK, Number
<1>5. NumbersOK(p)'
  BY <1>1, <1>2 DEF NumbersOK, Preparing, Led, acceptorVars
<1>6. BallotOK(p)'
  BY <1>1, <1>2, <1>3, <1>4, ProposerAssumption DEF BallotOK, Unused, acceptorVars
<1> QED
  BY <1>1, <1>5, <1>6 DEF ValuesOK, Preparing, Accepting

(***************************************************************************)
(* The slot of a new command: there are no more slots than orders, because *)
(* a learner knows the command of every slot before it, and each of those  *)
(* is of an order of its own.                                              *)
(***************************************************************************)
LEMMA OrdersFinite == IsFiniteSet(Order) /\ Cardinality(Order) \in Nat
<1>1. IsFiniteSet(Proposer)
  BY ServerAssumption, ProposerAssumption, FS_Subset
<1>2. IsFiniteSet(1 .. MaxOrders)
  BY MaxOrdersAssumption, FS_Interval
<1>3. IsFiniteSet(Order)
  BY <1>1, <1>2, FS_Product DEF Order
<1> QED
  BY <1>3, FS_CardinalityType

LEMMA SlotBound ==
  ASSUME NEW p \in Proposer, NEW g \in Int, g >= 1, NEW o \in Order, NEW M,
         \A d \in M : d.order \in Order /\ d.order # o,
         \A c, d \in M : c.order = d.order => c = d,
         1 .. (g - 1) \subseteq LP!Slots(M)
  PROVE  g <= Cardinality(Order)
<1> DEFINE f == [i \in 1 .. g |-> IF i = g THEN o ELSE (CHOOSE d \in M : d.slot = i).order]
<1>1. \A i \in 1 .. (g - 1) : \E d \in M : d.slot = i
  BY DEF LP!Slots
<1>2. \A i \in 1 .. (g - 1) : /\ (CHOOSE d \in M : d.slot = i) \in M
                              /\ (CHOOSE d \in M : d.slot = i).slot = i
  BY <1>1
<1>3. f \in [1 .. g -> Order]
  <2> SUFFICES ASSUME NEW i \in 1 .. g PROVE f[i] \in Order
    OBVIOUS
  <2>1. i = g \/ i \in 1 .. (g - 1)
    OBVIOUS
  <2> QED
    BY <1>2, <2>1
<1>4. ASSUME NEW i \in 1 .. g, NEW j \in 1 .. g, f[i] = f[j] PROVE i = j
  <2>1. (i = g \/ i \in 1 .. (g - 1)) /\ (j = g \/ j \in 1 .. (g - 1))
    OBVIOUS
  <2> QED
    BY <1>2, <1>4, <2>1
<1>5. Cardinality(1 .. g) <= Cardinality(Order)
  BY <1>3, <1>4, OrdersFinite, FS_Injection DEF Injection, IsInjective
<1>6. Cardinality(1 .. g) = g
  BY FS_Interval
<1> QED
  BY <1>5, <1>6

LEMMA ProposeOwnKeeps ==
  ASSUME CoreTypeOK, PromiseInv, LP!TypeOK, LP!PrefixDecided, LearnedIsChosen, SlotInBehind,
         HoldsOrder, NEW p \in Proposer,
         NumbersOK(p), ValuesOK(p), CommandsOK(p), SelfLed(p), scoutInit[p], ProposeOwn(p)
  PROVE  NumbersOK(p)' /\ ValuesOK(p)' /\ CommandsOK(p)'
<1> USE DEF CoreTypeOK, ScoutTypeOK
<1> DEFINE M == decisionMap[p]
           o == OrderOf(p)
<1>1. PICK g \in FreeSlots(p) :
        /\ Prepared(p) /\ MayProposeOwn(p)
        /\ slot_in' = [slot_in EXCEPT ![p] = g]
        /\ EnterAccept(p, [slot |-> g, order |-> o], TRUE)
  BY DEF ProposeOwn
<1> DEFINE b == [slot |-> g, order |-> o]
<1>2. NumbersOK(p)' /\ ValuesOK(p)'
  BY <1>1, EntersAccept
<1>3. /\ pc[p] = "prepare"
      /\ tally[p].accepted = acceptedProposalNumber[p]
      /\ acceptedProposalNumber[p] # -1 => tally[p].cmd = acceptedValue[p]
  BY <1>1, PreparedFacts
<1>4. /\ pc'[p] = "accept" /\ ballot'[p].cmd = b /\ ballot'[p].own
      /\ UNCHANGED <<acceptorVars, served, decisionMap>>
  BY <1>1 DEF EnterAccept, Goto, BallotFor, NoBallot, orderVars, learnVars
<1>5. p \in Server /\ slot_in[p] \in Int /\ slot_in[p] >= 1 /\ slot_out[p] \in Int
      /\ M \in SUBSET Command /\ slot_in[p] <= slot_out[p]
  BY ProposerAssumption DEF LP!TypeOK, SlotInBehind, CommandsOK
<1>6. /\ g \in Int /\ slot_in[p] <= g
      /\ slot_in[p] .. (g - 1) \subseteq LP!Slots(M)
      /\ g \notin LP!Slots(M)
  <2>1. g \in LP!LoopRange(M, slot_in[p])
    BY DEF FreeSlots, L!LoopRange, LP!LoopRange, L!Slots, LP!Slots
  <2>2. g \in Int
    BY <1>5, <2>1, LearnerAssumptions, LP!LoopRangeInt
  <2> QED
    BY <2>2 DEF FreeSlots, L!IsFirstGap, L!Slots, LP!Slots
<1>7. 1 .. (g - 1) \subseteq LP!Slots(M)
  <2>1. 1 .. (slot_out[p] - 1) \subseteq LP!Slots(M)
    BY <1>5 DEF LP!PrefixDecided
  <2> SUFFICES ASSUME NEW i \in 1 .. (g - 1) PROVE i \in LP!Slots(M)
    OBVIOUS
  <2>2. i \in 1 .. (slot_out[p] - 1) \/ i \in slot_in[p] .. (g - 1)
    BY <1>5, <1>6
  <2> QED
    BY <1>6, <2>1, <2>2
<1>8. ASSUME NEW d \in Known(p) PROVE d.slot \in LP!Slots(M) /\ d.order # o
  <2>1. d.order # o
    BY <1>3, <1>8 DEF CommandsOK, Preparing
  <2>2. d.slot \in LP!Slots(M) \/ Holds(p, d)
    BY <1>8 DEF CommandsOK, CommandOK
  <2>3. Holds(p, d) => tally[p].accepted # -1 /\ tally[p].cmd = d
    BY <1>3 DEF Holds, Accepting
  <2> QED
    BY <1>1, <2>1, <2>2, <2>3 DEF MayProposeOwn, L!Slots, LP!Slots
<1>9. o \in Order /\ served[p] \in 1 .. MaxOrders
  BY <1>3, MaxOrdersAssumption DEF HoldsOrder, OrderOf, Order
<1>10. g \in 1 .. Cardinality(Order)
  <2>1. \A d \in M : d \in Known(p)
    <3> TAKE d \in M
    <3>1. PICK v \in votes : v.cmd = d
      BY <1>5 DEF LearnedIsChosen, Chosen
    <3> QED
      BY <3>1 DEF Known
  <2>2. \A d \in M : d.order # o /\ d.order \in Order
    <3> TAKE d \in M
    <3>1. d \in Known(p) /\ d.order \in {<<p, i>> : i \in 1 .. served[p]}
      BY <2>1 DEF CommandsOK, CommandOK
    <3>2. d.order \in Order
      BY <1>9, <3>1, MaxOrdersAssumption DEF Order
    <3> QED
      BY <1>8, <3>1, <3>2
  <2>3. \A c, d \in M : c.order = d.order => c = d
    BY <2>1 DEF CommandsOK
  <2>4. g >= 1
    BY <1>5, <1>6
  <2>5. g <= Cardinality(Order)
    <3> HIDE DEF M, o
    <3> QED
      BY <1>6, <1>7, <1>9, <2>2, <2>3, <2>4, SlotBound
  <2> QED
    BY <1>6, <2>4, <2>5, OrdersFinite
<1>11. Known(p)' = Known(p) \cup {b}
  BY <1>3, <1>4 DEF Known, Accepting, acceptorVars
<1>12. ASSUME NEW c \in Known(p)' PROVE CommandOK(p, c)'
  <2>1. CASE c = b
    BY <1>4, <1>7, <1>9, <1>10, <2>1 DEF CommandOK, Holds, Accepting, OrderOf, LP!Slots
  <2>2. CASE c \in Known(p)
    BY <1>4, <1>8, <2>2 DEF CommandsOK, CommandOK, LP!Slots
  <2> QED
    BY <1>11, <1>12, <2>1, <2>2
<1>13. ASSUME NEW c \in Known(p)', NEW d \in Known(p)', c.slot = d.slot \/ c.order = d.order
       PROVE  c = d
  BY <1>6, <1>8, <1>11, <1>13 DEF CommandsOK
<1>14. slot_in'[p] >= 1
  BY <1>1, <1>5, <1>6
<1> QED
  BY <1>2, <1>4, <1>12, <1>13, <1>14 DEF CommandsOK, Preparing, Accepting

LEMMA ProposeSystemKeeps ==
  ASSUME CoreTypeOK, PromiseInv, NEW p \in Proposer,
         NumbersOK(p), ValuesOK(p), CommandsOK(p), SelfLed(p), scoutInit[p], ProposeSystem(p)
  PROVE  NumbersOK(p)' /\ ValuesOK(p)' /\ CommandsOK(p)'
<1> USE DEF CoreTypeOK, ScoutTypeOK
<1>1. Prepared(p) /\ ~MayProposeOwn(p) /\ EnterAccept(p, tally[p].cmd, FALSE)
      /\ UNCHANGED slot_in
  BY DEF ProposeSystem
<1>2. NumbersOK(p)' /\ ValuesOK(p)'
  BY <1>1, EntersAccept
<1>3. /\ pc[p] = "prepare"
      /\ tally[p].accepted = acceptedProposalNumber[p]
      /\ acceptedProposalNumber[p] # -1 => tally[p].cmd = acceptedValue[p]
  BY <1>1, PreparedFacts
<1>4. /\ pc'[p] = "accept" /\ ballot'[p].cmd = tally[p].cmd
      /\ UNCHANGED <<acceptorVars, served, decisionMap>>
  BY <1>1 DEF EnterAccept, Goto, BallotFor, NoBallot, orderVars, learnVars
<1>5. acceptedProposalNumber[p] # -1 /\ tally[p].cmd = acceptedValue[p]
  BY <1>1, <1>3 DEF MayProposeOwn
<1>6. tally[p].cmd \in Known(p)
  BY <1>3, <1>5 DEF CommandsOK, Accepting
<1>7. Known(p)' = Known(p)
  BY <1>3, <1>4, <1>6 DEF Known, Accepting, acceptorVars
<1>8. \A c : Holds(p, c) => Holds(p, c)'
  BY <1>3, <1>4, <1>5 DEF Holds, Accepting
<1>9. \A c : CommandOK(p, c) => CommandOK(p, c)'
  BY <1>4, <1>8 DEF CommandOK, LP!Slots
<1>10. \A c \in Known(p) : c.order # OrderOf(p)'
  BY <1>3, <1>4 DEF CommandsOK, Preparing, OrderOf
<1> QED
  BY <1>1, <1>2, <1>4, <1>7, <1>9, <1>10 DEF CommandsOK, Preparing, Accepting

(***************************************************************************)
(* The accept phase.                                                       *)
(***************************************************************************)
LEMMA SendP2aKeeps ==
  ASSUME CoreTypeOK, PromiseInv, NEW p \in Proposer, NEW a \in Server,
         NumbersOK(p), ValuesOK(p), CommandsOK(p), SendP2a(p, a)
  PROVE  NumbersOK(p)' /\ ValuesOK(p)' /\ CommandsOK(p)'
<1> USE DEF CoreTypeOK, ScoutTypeOK
<1>1. /\ todo'[p] = todo[p]
      /\ \A b \in Server :
           /\ stage[b][p] = "idle"
           /\ stage'[b][p] = "idle" \/ (stage'[b][p] = "received" /\ reply'[b][p].agree = 0)
      /\ UNCHANGED <<promisedProposalNumber, acceptedProposalNumber, acceptedValue, votes,
                     alive, proposalNumber, slot_in, served, stubVars, decisionMap>>
  BY SendFacts
<1>2. pc[p] = "accept" /\ pc'[p] = "p2b" /\ tally'[p] = tally[p]
  BY DEF SendP2a, At, Goto
<1>3. /\ ballot'[p].cmd = ballot[p].cmd /\ ballot'[p].own = ballot[p].own
      /\ ballot'[p].agreed = ballot[p].agreed
  <2>1. ballot' = [ballot EXCEPT ![p].active = ballot[p].active + 1]
    BY DEF SendP2a
  <2> QED
    BY <2>1 DEF Ballot
<1>4. NumbersOK(p)'
  BY <1>1, <1>2 DEF NumbersOK, Preparing, Led, stubVars
<1>5. BallotOK(p)'
  BY <1>1, <1>2, <1>3, ProposerAssumption
     DEF ValuesOK, Accepting, BallotOK, Copied, Sound, VotedFor
<1>6. CommandsOK(p)'
  BY <1>1, <1>2, <1>3, CommandsKept DEF Preparing, Accepting
<1> QED
  BY <1>2, <1>4, <1>5, <1>6 DEF ValuesOK, Preparing, Accepting

LEMMA P2aFailsKeeps ==
  ASSUME CoreTypeOK, PromiseInv, StubInv, NEW p \in Proposer, NEW a \in Server,
         NumbersOK(p), ValuesOK(p), CommandsOK(p), P2aFails(p, a)
  PROVE  NumbersOK(p)' /\ ValuesOK(p)' /\ CommandsOK(p)'
<1> USE DEF CoreTypeOK, ScoutTypeOK
<1>1. /\ pc[p] = "accept" /\ pc'[p] = "accept" /\ todo'[p] = todo[p] \ {a}
      /\ alive[p] /\ SendFails(scoutStub[p][a], a)
      /\ UNCHANGED <<acceptorVars, alive, proposalNumber, slot_in, tally, ballot, served,
                     scoutInit, decisionMap>>
      /\ scoutStub' = [scoutStub EXCEPT ![p][a] = "none"]
  BY DEF P2aFails, At, Goto, Erase, AfterErase, orderVars, learnVars
<1>2. a # p /\ ~alive[a]
  BY <1>1 DEF SendFails, StubInv, StubOK
<1>3. Led(p)' \subseteq Led(p)
  BY <1>1 DEF Led
<1>4. NumbersOK(p)'
  BY <1>1, <1>3 DEF NumbersOK, Preparing, acceptorVars
<1>5. BallotOK(p)'
  BY <1>1, <1>2 DEF ValuesOK, Accepting, BallotOK, Copied, Sound, VotedFor, acceptorVars
<1>6. CommandsOK(p)'
  BY <1>1, CommandsKept DEF Preparing, Accepting, acceptorVars
<1> QED
  BY <1>1, <1>4, <1>5, <1>6 DEF ValuesOK, Preparing, Accepting

LEMMA RecvP2bKeeps ==
  ASSUME CoreTypeOK, PromiseInv, StubInv, NEW p \in Proposer, NEW a \in Server,
         NumbersOK(p), ValuesOK(p), CommandsOK(p), RecvP2b(p, a)
  PROVE  NumbersOK(p)' /\ ValuesOK(p)' /\ CommandsOK(p)'
<1> USE DEF CoreTypeOK, ScoutTypeOK
<1> DEFINE n == proposalNumber[p]
           c == ballot[p].cmd
<1>1. PICK msg \in PossibleReplies(p, a) :
        /\ ReceiveFrom(p, a, msg)
        /\ ballot' = [ballot EXCEPT ![p].agreed = ballot[p].agreed + msg.agree]
  BY DEF RecvP2b
<1>2. /\ pc[p] = "p2b" /\ pc'[p] = "accept" /\ todo'[p] = todo[p] \ {a}
      /\ alive[p] /\ a \in todo[p] /\ At(p, pc[p], a)
      /\ UNCHANGED <<alive, proposalNumber, slot_in, tally, served, decisionMap>>
  BY DEF RecvP2b, At, Goto, orderVars, learnVars
<1>3. /\ msg \in PaxosMsg
      /\ \A b \in Server : stage'[b][p] = "idle" /\ (b # a => stage[b][p] = "idle")
      /\ \/ stage[a][p] = "replied" /\ msg = reply[a][p] /\ UNCHANGED scoutStub
         \/ ~alive[a] /\ msg = NoMsg /\ \A b \in Server \ {a} : scoutStub'[p][b] = scoutStub[p][b]
      /\ UNCHANGED <<promisedProposalNumber, acceptedProposalNumber, acceptedValue, votes,
                     scoutInit>>
  BY <1>1, <1>2, ReceiveFacts
<1>4. /\ ballot'[p].cmd = c /\ ballot'[p].own = ballot[p].own
      /\ ballot'[p].agreed = ballot[p].agreed + msg.agree
      /\ ballot[p].agreed \in Nat /\ msg.agree \in {0, 1}
  BY <1>1, <1>3 DEF Ballot, PaxosMsg
<1>5. BallotOK(p)
  BY <1>2 DEF ValuesOK, Accepting
<1>6. Led(p)' \subseteq Led(p)
  BY <1>2, <1>3 DEF Led
<1>7. NumbersOK(p)'
  BY <1>2, <1>3, <1>6 DEF NumbersOK, Preparing
<1>8. ASSUME NEW b \in Server, Sound(p, b)', acceptedProposalNumber'[b] = n
      PROVE  Copied(p, b)'
  <2>1. Sound(p, b) /\ stage[b][p] \in {"idle", "replied"}
    BY <1>2, <1>3, <1>8 DEF Sound
  <2> QED
    BY <1>3, <1>4, <1>5, <1>8, <2>1 DEF BallotOK, Copied
<1>9. ASSUME p \notin todo'[p]
      PROVE  /\ acceptedProposalNumber[p] = n
             /\ ballot'[p].agreed >= 1
             /\ VotedFor(p, n, c)
  <2>1. CASE a = p
    <3>1. stage[p][p] = "replied" /\ msg = reply[p][p]
      BY <1>2, <1>3, <2>1
    <3>2. reply[p][p].agree = 1 /\ acceptedProposalNumber[p] = n
      BY <1>5, <3>1 DEF BallotOK
    <3>3. request[p][p] = P2a(n, c) /\ StageOK(p, p)
      BY <1>2, <2>1, <3>1 DEF PromiseInv, EngineerOK, WaitsFor, MessageOf
    <3>4. VotedFor(p, n, c)
      BY <3>1, <3>2, <3>3 DEF StageOK, P2a, NoMsg
    <3> QED
      BY <1>4, <3>1, <3>2, <3>4
  <2>2. CASE a # p
    BY <1>2, <1>4, <1>5, <1>9, <2>2 DEF BallotOK
  <2> QED
    BY <2>1, <2>2
<1>10. BallotOK(p)'
  BY <1>2, <1>3, <1>4, <1>8, <1>9, ProposerAssumption DEF BallotOK, VotedFor
<1>11. CommandsOK(p)'
  BY <1>2, <1>3, <1>4, CommandsKept DEF Preparing, Accepting
<1> QED
  BY <1>2, <1>7, <1>10, <1>11 DEF ValuesOK, Preparing, Accepting

(***************************************************************************)
(* When the phase ends the scout leads with its command, which has the     *)
(* vote of its own acceptor: a full reject is not possible.                *)
(***************************************************************************)
LEMMA LeavesAccept ==
  ASSUME CoreTypeOK, PromiseInv, NEW p \in Proposer,
         NumbersOK(p), ValuesOK(p), CommandsOK(p), SelfLed(p), scoutInit[p],
         Done(p, "accept"),
         UNCHANGED <<acceptorVars, alive, proposalNumber, slot_in, served, scoutStub,
                     scoutInit, decisionMap>>,
         tally'[p] = NoTally,
         \/ pc'[p] \in {"idle", "connectLearners", "learn"}
         \/ pc'[p] = "prepare" /\ todo'[p] = Acceptors(p) /\ ~ballot[p].own
  PROVE  NumbersOK(p)' /\ ValuesOK(p)' /\ CommandsOK(p)'
<1> USE DEF CoreTypeOK, ScoutTypeOK
<1> DEFINE n == proposalNumber[p]
           c == ballot[p].cmd
<1>1. alive[p] /\ pc[p] = "accept" /\ todo[p] = {} /\ p \in Server
  BY ProposerAssumption DEF Done
<1>2. \A b \in Server : stage[b][p] = "idle"
  BY <1>1, QuietScout
<1>3. BallotOK(p)
  BY <1>1 DEF ValuesOK, Accepting
<1>4. acceptedProposalNumber[p] = n /\ VotedFor(p, n, c) /\ acceptedValue[p] = c /\ n # -1
  <2>1. acceptedProposalNumber[p] = n /\ VotedFor(p, n, c)
    BY <1>1, <1>3 DEF BallotOK
  <2>2. acceptedValue[p] = c
    BY <1>1, <1>2, <1>3, <2>1 DEF BallotOK, Sound, Copied
  <2> QED
    BY <2>1, <2>2
<1>5. Leads(p)
  BY <1>2, <1>3, <1>4, ZenonT(60) DEF Leads, NumbersOK, BallotOK, Sound, Copied
<1>6. \A a \in Led(p) : promisedProposalNumber[a] = n
  BY <1>1 DEF NumbersOK, Preparing
<1>7. NumbersOK(p)'
  <2>1. Led(p)' = Led(p)
    BY DEF Led
  <2>2. CASE ~Preparing(p)'
    BY <1>6, <2>1, <2>2 DEF NumbersOK, acceptorVars
  <2>3. CASE Preparing(p)'
    <3>1. p \in todo'[p]
      BY <1>1, <2>3 DEF Preparing, Acceptors, SelfLed, Tried
    <3>2. OldRound(p)'
      BY <1>2, <1>6, <2>1, <3>1 DEF OldRound, NoTally, acceptorVars
    <3> QED
      BY <2>1, <2>3, <3>2 DEF NumbersOK, acceptorVars
  <2> QED
    BY <2>2, <2>3
<1>8. ~Accepting(p)' /\ pc'[p] # "connect"
  BY DEF Accepting
<1>9. ValuesOK(p)'
  <2>1. Leads(p)'
    BY <1>5 DEF Leads, Sound, acceptorVars
  <2>2. acceptedProposalNumber[p] >= -1
    BY <1>4
  <2>3. CarriedOK(p)'
    BY <1>2, <2>2 DEF CarriedOK, NoTally, acceptorVars
  <2> QED
    BY <1>8, <2>1, <2>3 DEF ValuesOK
<1>10. CommandsOK(p)'
  <2>1. c \in {v.cmd : v \in votes}
    BY <1>4 DEF VotedFor
  <2>2. Known(p)' = Known(p)
    BY <1>1, <1>8, <2>1 DEF Known, Accepting, acceptorVars
  <2>3. \A d : Holds(p, d) => Holds(p, d)'
    BY <1>1, <1>4, <1>8 DEF Holds, Accepting, acceptorVars
  <2>4. \A d : CommandOK(p, d) => CommandOK(p, d)'
    BY <2>3 DEF CommandOK, LP!Slots
  <2>5. acceptedValue'[p] \in Known(p)'
    BY <1>4, <2>1, <2>2 DEF Known, acceptorVars
  <2>6. Preparing(p)' => \A d \in Known(p) : d.order # OrderOf(p)'
    BY <1>1 DEF Preparing, Accepting, CommandsOK, OrderOf
  <2> QED
    BY <1>8, <2>2, <2>4, <2>5, <2>6 DEF CommandsOK
<1> QED
  BY <1>7, <1>9, <1>10

LEMMA AcceptEnds ==
  ASSUME CoreTypeOK, PromiseInv, NEW p \in Proposer,
         NumbersOK(p), ValuesOK(p), CommandsOK(p), SelfLed(p), scoutInit[p],
         StartCommander(p) \/ Restart(p) \/ GiveUpOwn(p) \/ AcceptUnavailable(p)
  PROVE  NumbersOK(p)' /\ ValuesOK(p)' /\ CommandsOK(p)'
<1> USE DEF CoreTypeOK, ScoutTypeOK
<1>1. Done(p, "accept")
  BY DEF StartCommander, Restart, GiveUpOwn, AcceptUnavailable
<1>2. UNCHANGED <<acceptorVars, alive, proposalNumber, slot_in, served, scoutStub, scoutInit,
                  decisionMap>>
  BY Zenon DEF StartCommander, Restart, GiveUpOwn, AcceptUnavailable, Answer, stubVars,
               orderVars, learnVars
<1>3. tally[p] = NoTally /\ ballot[p].agreed >= 1
  BY <1>1 DEF Done, NumbersOK, Preparing, ValuesOK, Accepting, BallotOK
<1>4. tally'[p] = NoTally
  BY <1>3 DEF StartCommander, Restart, GiveUpOwn, AcceptUnavailable, Answer
<1>5. StartCommander(p) => pc'[p] \in {"connectLearners", "learn"}
  BY DEF StartCommander, Goto
<1>6. GiveUpOwn(p) \/ AcceptUnavailable(p) => pc'[p] = "idle"
  BY DEF GiveUpOwn, AcceptUnavailable, Answer, Goto
<1>7. Restart(p) => pc'[p] = "prepare" /\ todo'[p] = Acceptors(p) /\ ~ballot[p].own
  BY <1>3 DEF Restart, FullReject, Goto
<1> QED
  BY <1>1, <1>2, <1>4, <1>5, <1>6, <1>7, LeavesAccept

(***************************************************************************)
(* The steps outside of the two phases.                                    *)
(***************************************************************************)
LEMMA PrepareGivenUp ==
  ASSUME CoreTypeOK, PromiseInv, NEW p \in Proposer,
         NumbersOK(p), ValuesOK(p), CommandsOK(p), PrepareUnavailable(p)
  PROVE  NumbersOK(p)' /\ ValuesOK(p)' /\ CommandsOK(p)'
<1> USE DEF CoreTypeOK, ScoutTypeOK
<1>1. /\ pc[p] = "prepare" /\ todo[p] = {} /\ pc'[p] = "idle" /\ tally'[p] = NoTally
      /\ UNCHANGED <<acceptorVars, alive, proposalNumber, slot_in, served, scoutStub,
                     scoutInit, decisionMap>>
  BY DEF PrepareUnavailable, Done, Answer, Goto, stubVars, learnVars
<1>2. \A a \in Led(p) : promisedProposalNumber[a] = proposalNumber[p]
  BY <1>1 DEF NumbersOK, Preparing, NewRound, OldRound, HasPromised
<1>3. NumbersOK(p)'
  BY <1>1, <1>2 DEF NumbersOK, Preparing, Led, acceptorVars
<1>4. ValuesOK(p)'
  BY <1>1 DEF ValuesOK, Preparing, Accepting, Leads, Sound, acceptorVars
<1>5. CommandsOK(p)'
  BY <1>1 DEF CommandsOK, CommandOK, Known, Holds, Preparing, Accepting, LP!Slots,
              acceptorVars
<1> QED
  BY <1>3, <1>4, <1>5

LEMMA AsideSteps ==
  ASSUME CoreTypeOK, StubInv, NEW p \in Proposer,
         NumbersOK(p), ValuesOK(p), CommandsOK(p),
         \/ LearnersConnected(p) \/ AnswerOk(p)
         \/ \E s \in Server : \/ ConnectAcceptor(p, s) \/ IdentifyAcceptor(p, s)
                              \/ ConnectLearner(p, s) \/ IdentifyLearner(p, s)
                              \/ SendLearn(p, s) \/ SendLearnFails(p, s)
  PROVE  NumbersOK(p)' /\ ValuesOK(p)' /\ CommandsOK(p)'
<1> USE DEF CoreTypeOK, ScoutTypeOK
<1>1. /\ UNCHANGED <<acceptorVars, alive, proposalNumber, slot_in, served, decisionMap>>
      /\ scoutInit'[p] = scoutInit[p]
  BY Zenon DEF LearnersConnected, AnswerOk, ConnectAcceptor, IdentifyAcceptor,
               ConnectLearner, IdentifyLearner, SendLearn, SendLearnFails, Answer, Erase,
               stubVars, orderVars, learnVars
<1>2. /\ pc[p] \in {"connect", "connectLearners", "learn"}
      /\ pc'[p] \in {"connect", "connectLearners", "learn", "idle"}
      /\ pc'[p] = "connect" => pc[p] = "connect"
      /\ tally'[p] = tally[p] \/ tally'[p] = NoTally
  BY DEF LearnersConnected, AnswerOk, ConnectAcceptor, IdentifyAcceptor, ConnectLearner,
         IdentifyLearner, SendLearn, SendLearnFails, Answer, Goto, Done, At
<1>3. scoutInit[p] => Led(p)' \subseteq Led(p)
  <2>1. CASE \E s \in Server : ConnectAcceptor(p, s) \/ IdentifyAcceptor(p, s)
    BY <2>1 DEF ConnectAcceptor, IdentifyAcceptor, At, StubInv, StubOK
  <2>2. CASE \E s \in Server : SendLearnFails(p, s)
    <3>1. PICK s \in Server : scoutStub' = [scoutStub EXCEPT ![p][s] = "none"]
      BY <2>2 DEF SendLearnFails, Erase
    <3> QED
      BY <1>1, <3>1 DEF Led
  <2>3. CASE scoutStub' = scoutStub
    BY <1>1, <2>3 DEF Led
  <2> QED
    BY <2>1, <2>2, <2>3, Zenon
       DEF LearnersConnected, AnswerOk, ConnectLearner, IdentifyLearner, SendLearn, stubVars
<1>4. ~Preparing(p) /\ ~Accepting(p) /\ ~Preparing(p)' /\ ~Accepting(p)'
  BY <1>2 DEF Preparing, Accepting
<1>5. tally'[p] = NoTally
  BY <1>2, <1>4 DEF NumbersOK
<1> QED
  BY <1>1, <1>2, <1>3, <1>4, <1>5, AsideKeeps

(***************************************************************************)
(* Every step of the scout.                                                *)
(***************************************************************************)
LEMMA ScoutKeeps ==
  ASSUME CoreTypeOK, PromiseInv, StubInv, LP!TypeOK, LP!PrefixDecided, LearnedIsChosen,
         SlotInBehind, HoldsOrder, NEW p \in Proposer, LeaderOK(p), ScoutStep(p)
  PROVE  LeaderOK(p)'
<1>1. SelfLed(p) /\ NumbersOK(p) /\ ValuesOK(p) /\ CommandsOK(p)
  BY DEF LeaderOK
<1>2. SelfLed(p)'
  BY <1>1, Moves, SelfMoves
<1>3. pc[p] \notin {"idle", "connect"} => scoutInit[p]
  BY DEF StubInv, StubOK
<1>4. CASE TakeOrder(p) \/ AcceptorsConnected(p)
  BY <1>1, <1>2, <1>4, OrderTaken, FirstRound DEF LeaderOK
<1>5. CASE NextRound(p) \/ ProposeOwn(p) \/ ProposeSystem(p) \/ PrepareUnavailable(p)
  <2>1. scoutInit[p]
    BY <1>3, <1>5 DEF NextRound, Rejected, ProposeOwn, ProposeSystem, Prepared,
                      PrepareUnavailable, Done
  <2> QED
    BY <1>1, <1>2, <1>5, <2>1, AnotherRound, ProposeOwnKeeps, ProposeSystemKeeps,
       PrepareGivenUp DEF LeaderOK
<1>6. CASE StartCommander(p) \/ Restart(p) \/ GiveUpOwn(p) \/ AcceptUnavailable(p)
  <2>1. scoutInit[p]
    BY <1>3, <1>6 DEF StartCommander, Restart, GiveUpOwn, AcceptUnavailable, Done
  <2> QED
    BY <1>1, <1>2, <1>6, <2>1, AcceptEnds DEF LeaderOK
<1>7. CASE \/ LearnersConnected(p) \/ AnswerOk(p)
           \/ \E s \in Server : \/ ConnectAcceptor(p, s) \/ IdentifyAcceptor(p, s)
                                \/ ConnectLearner(p, s) \/ IdentifyLearner(p, s)
                                \/ SendLearn(p, s) \/ SendLearnFails(p, s)
  BY <1>1, <1>2, <1>7, AsideSteps DEF LeaderOK
<1>8. ASSUME NEW a \in Server, SendP1a(p, a) \/ P1aFails(p, a) \/ RecvP1b(p, a)
      PROVE  LeaderOK(p)'
  BY <1>1, <1>2, <1>8, SendP1aKeeps, P1aFailsKeeps, RecvP1bKeeps DEF LeaderOK
<1>9. ASSUME NEW a \in Server, SendP2a(p, a) \/ P2aFails(p, a) \/ RecvP2b(p, a)
      PROVE  LeaderOK(p)'
  BY <1>1, <1>2, <1>9, SendP2aKeeps, P2aFailsKeeps, RecvP2bKeeps DEF LeaderOK
<1> QED
  BY <1>4, <1>5, <1>6, <1>7, <1>8, <1>9 DEF ScoutStep
-----------------------------------------------------------------------------
(***************************************************************************)
(* The engineers: the one at work is alive and connected to the scout.     *)
(***************************************************************************)
LEMMA SameCommand ==
  ASSUME NEW c \in Command, NEW d \in Command, c.slot = d.slot, c.order = d.order PROVE c = d
BY DEF Command

LEMMA EngineerFacts ==
  ASSUME CoreTypeOK, PromiseInv, StubInv, NEW a \in Server, NEW p \in Proposer, Engineer(a, p)
  PROVE  /\ alive[a] /\ a \in Led(p) /\ a \in todo[p]
         /\ \A b \in Server \ {a} : /\ stage[b][p] = "idle" /\ stage'[b][p] = "idle"
                                    /\ reply'[b][p] = reply[b][p]
         /\ request[a][p] = MessageOf(p)
         /\ pc[p] = IF request[a][p].phase = 1 THEN "p1b" ELSE "p2b"
         /\ StageOK(a, p)
         /\ UNCHANGED <<alive, scoutVars, stubVars, served, decisionMap>>
<1> USE DEF CoreTypeOK, ScoutTypeOK
<1>1. /\ alive[a] /\ EngineerStep(a, p)
      /\ UNCHANGED <<alive, scoutVars, stubVars, served, decisionMap>>
  BY Zenon DEF Engineer, orderVars, learnVars
<1>2. /\ stage[a][p] # "idle"
      /\ \A b \in Server \ {a} : stage'[b][p] = stage[b][p] /\ reply'[b][p] = reply[b][p]
  BY <1>1 DEF EngineerStep, TestPrepare, Promise, Reject, SeeAccepted, CopySlot, CopyOrder,
              TestAccept, AcceptNumber, AcceptSlot, AcceptOrder, Move, AcceptorTypeOK
<1>3. WaitsFor(p, a) /\ StageOK(a, p)
  BY <1>2 DEF PromiseInv, EngineerOK
<1>4. Current(p, a) /\ a \in todo[p] /\ pc[p] \in {"p1b", "p2b"} /\ request[a][p] = MessageOf(p)
  BY <1>3 DEF WaitsFor, Current
<1>5. a \in Led(p)
  BY <1>1, <1>4 DEF StubInv, StubOK, Led
<1>6. ASSUME NEW b \in Server \ {a} PROVE stage[b][p] = "idle"
  <2> SUFFICES ASSUME stage[b][p] # "idle" PROVE b = a
    OBVIOUS
  <2>1. Current(p, b)
    BY DEF PromiseInv, EngineerOK, WaitsFor, Current
  <2> QED
    BY <1>4, <2>1, CurrentUnique
<1>7. pc[p] = IF request[a][p].phase = 1 THEN "p1b" ELSE "p2b"
  BY <1>4 DEF MessageOf, P1a, P2a, NoMsg
<1> QED
  BY <1>1, <1>2, <1>3, <1>4, <1>5, <1>6, <1>7

LEMMA PromisingKeeps ==
  ASSUME CoreTypeOK, PromiseInv, StubInv, NEW a \in Server, NEW p \in Proposer,
         Engineer(a, p), request[a][p].phase = 1, EngineerStep(a, p),
         NumbersOK(p), ValuesOK(p), CommandsOK(p)
  PROVE  NumbersOK(p)' /\ ValuesOK(p)' /\ CommandsOK(p)'
<1> USE DEF CoreTypeOK, ScoutTypeOK
<1> DEFINE n == proposalNumber[p]
           s == stage[a][p]
<1>1. /\ alive[a] /\ a \in Led(p) /\ a \in todo[p]
      /\ \A b \in Server \ {a} : /\ stage[b][p] = "idle" /\ stage'[b][p] = "idle"
                                 /\ reply'[b][p] = reply[b][p]
      /\ request[a][p].number = n /\ pc[p] = "p1b" /\ StageOK(a, p)
      /\ UNCHANGED <<alive, pc, todo, proposalNumber, tally, ballot, slot_in, scoutStub,
                     scoutInit, served, decisionMap>>
  <2>1. request[a][p] = MessageOf(p) /\ pc[p] = "p1b"
    BY EngineerFacts
  <2>2. request[a][p].number = n
    BY <2>1 DEF MessageOf, P1a, NoMsg
  <2> QED
    BY <2>1, <2>2, EngineerFacts, ZenonT(60) DEF scoutVars, stubVars
<1>2. CarriedOK(p) /\ Leads(p) /\ (NewRound(p) \/ OldRound(p))
  BY <1>1 DEF NumbersOK, ValuesOK, Preparing, Accepting
<1>3. s \in {"received", "promise", "seeAccepted", "copySlot", "copyOrder", "reject"}
  BY <1>1 DEF EngineerStep, TestPrepare, Promise, Reject, SeeAccepted, CopySlot, CopyOrder,
              TestAccept, AcceptNumber, AcceptSlot, AcceptOrder, Move, StageOK
<1>4. UNCHANGED <<acceptedProposalNumber, acceptedValue, votes>>
  BY <1>3 DEF EngineerStep, TestPrepare, Promise, Reject, SeeAccepted, CopySlot, CopyOrder,
              TestAccept, AcceptNumber, AcceptSlot, AcceptOrder, Move
<1>5. /\ \A b \in Server \ {a} : promisedProposalNumber'[b] = promisedProposalNumber[b]
      /\ Led(p)' = Led(p)
  <2>1. Led(p)' = Led(p)
    BY <1>1 DEF Led
  <2> QED
    BY <2>1 DEF EngineerStep, TestPrepare, Promise, Reject, SeeAccepted, CopySlot, CopyOrder,
                TestAccept, AcceptNumber, AcceptSlot, AcceptOrder, AcceptorTypeOK
<1>6. n \in Nat /\ promisedProposalNumber[a] \in Int /\ acceptedProposalNumber[a] \in Int
      /\ reply[a][p] \in PaxosMsg
  BY DEF AcceptorTypeOK, Number
<1>7. Unused(p)' <=> Unused(p)
  BY <1>1, <1>4 DEF Unused
\* What is left to show is of the engineer of a.
<1>8. ASSUME NewRound(p), promisedProposalNumber'[a] = IF HasPromised(p, a)' THEN n ELSE promisedProposalNumber[a],
             HasPromised(p, a)' \/ promisedProposalNumber[a] < n,
             stage'[a][p] # "reject", HasPromised(p, a)' => reply'[a][p].agree = 1
      PROVE  NewRound(p)'
  <2>1. \A b \in Led(p)' : IF HasPromised(p, b)' THEN promisedProposalNumber'[b] = n
                                                 ELSE promisedProposalNumber'[b] < n
    <3> TAKE b \in Led(p)'
    <3>1. b \in Led(p) /\ b \in Server
      BY <1>5 DEF Led
    <3>2. CASE b = a
      BY <1>8, <3>2
    <3>3. CASE b # a
      <4>1. promisedProposalNumber'[b] = promisedProposalNumber[b]
        BY <1>5, <3>1, <3>3
      <4>2. HasPromised(p, b)' <=> HasPromised(p, b)
        BY <1>1, <3>1, <3>3 DEF HasPromised
      <4> QED
        BY <1>8, <3>1, <4>1, <4>2 DEF NewRound
    <3> QED
      BY <3>2, <3>3
  <2>2. \A b \in Server :
          /\ stage'[b][p] # "reject"
          /\ stage'[b][p] \in {"seeAccepted", "copySlot", "copyOrder", "replied"} =>
               reply'[b][p].agree = 1
    BY <1>1, <1>8 DEF NewRound, HasPromised
  <2> QED
    BY <1>1, <1>4, <1>7, <1>8, <2>1, <2>2 DEF NewRound
<1>9. ASSUME OldRound(p), promisedProposalNumber'[a] = promisedProposalNumber[a],
             stage'[a][p] \in {"reject", "replied"}, reply'[a][p].agree = 0,
             stage'[a][p] = "replied" => reply'[a][p].number = n
      PROVE  OldRound(p)'
  <2>1. \A b \in Led(p)' : promisedProposalNumber'[b] = n
    <3> TAKE b \in Led(p)'
    <3>1. b \in Led(p) /\ b \in Server
      BY <1>5 DEF Led
    <3>2. promisedProposalNumber'[b] = promisedProposalNumber[b]
      BY <1>5, <1>9, <3>1
    <3> QED
      BY <1>9, <3>1, <3>2 DEF OldRound
  <2>2. \A b \in Server :
          /\ stage'[b][p] \in {"idle", "received", "reject", "replied"}
          /\ stage'[b][p] = "reject" => reply'[b][p].agree = 0
          /\ stage'[b][p] = "replied" => reply'[b][p].agree = 0 /\ reply'[b][p].number = n
    BY <1>1, <1>9
  <2> QED
    BY <1>1, <1>4, <1>7, <1>9, <2>1, <2>2 DEF OldRound
<1>10. ASSUME reply'[a][p].agree = 1 =>
                /\ stage'[a][p] \in {"copySlot", "copyOrder", "replied"} =>
                     reply'[a][p].accepted = acceptedProposalNumber[a]
                /\ stage'[a][p] = "copyOrder" => reply'[a][p].cmd.slot = acceptedValue[a].slot
                /\ stage'[a][p] = "replied" /\ reply'[a][p].accepted # -1 =>
                     reply'[a][p].cmd = acceptedValue[a]
       PROVE  CarriedOK(p)'
  BY <1>1, <1>2, <1>4, <1>10 DEF CarriedOK
<1>11. (NewRound(p)' \/ OldRound(p)') /\ CarriedOK(p)'
  <2> USE DEF AcceptorTypeOK, Move, PaxosMsg, Command
  <2>1. CASE TestPrepare(a, p)
    <3>1. /\ s = "received" /\ reply' = reply
          /\ promisedProposalNumber' = promisedProposalNumber
          /\ stage'[a][p] = IF n > promisedProposalNumber[a] THEN "promise" ELSE "reject"
      BY <1>1, <2>1 DEF TestPrepare, MayPromise
    <3>2. reply[a][p].agree = 0
      BY <1>1, <3>1 DEF StageOK
    <3>3. CASE NewRound(p)
      <4>1. promisedProposalNumber[a] < n
        BY <1>1, <3>1, <3>3 DEF NewRound, HasPromised
      <4>2. stage'[a][p] = "promise" /\ ~HasPromised(p, a)'
        BY <1>1, <1>6, <3>1, <4>1 DEF HasPromised
      <4> QED
        BY <1>8, <1>10, <3>1, <3>2, <3>3, <4>1, <4>2
    <3>4. CASE OldRound(p)
      <4>1. stage'[a][p] = "reject"
        BY <1>1, <1>6, <3>1, <3>4 DEF OldRound
      <4> QED
        BY <1>9, <1>10, <3>1, <3>2, <3>4, <4>1
    <3> QED
      BY <1>2, <3>3, <3>4
  <2>2. CASE Promise(a, p)
    <3>1. /\ s = "promise" /\ stage'[a][p] = "seeAccepted" /\ reply'[a][p].agree = 1
          /\ promisedProposalNumber'[a] = n
      BY <1>1, <2>2 DEF Promise
    <3>2. NewRound(p)
      BY <1>2, <3>1 DEF OldRound
    <3>3. HasPromised(p, a)'
      BY <3>1 DEF HasPromised
    <3> QED
      BY <1>8, <1>10, <3>1, <3>2, <3>3
  <2>3. CASE Reject(a, p)
    <3>1. /\ s = "reject" /\ stage'[a][p] = "replied"
          /\ reply'[a][p].number = promisedProposalNumber[a]
          /\ reply'[a][p].agree = reply[a][p].agree
          /\ promisedProposalNumber' = promisedProposalNumber
      BY <2>3 DEF Reject
    <3>2. OldRound(p)
      BY <1>2, <3>1 DEF NewRound
    <3>3. promisedProposalNumber[a] = n /\ reply'[a][p].agree = 0
      BY <1>1, <3>1, <3>2 DEF OldRound
    <3> QED
      BY <1>9, <1>10, <3>1, <3>2, <3>3
  <2>4. ASSUME s \in {"seeAccepted", "copySlot", "copyOrder"},
               stage'[a][p] \in {"copySlot", "copyOrder", "replied"},
               promisedProposalNumber' = promisedProposalNumber,
               reply'[a][p].agree = reply[a][p].agree
        PROVE  NewRound(p)' /\ reply[a][p].agree = 1
    <3>1. NewRound(p)
      BY <1>2, <2>4 DEF OldRound
    <3>2. HasPromised(p, a) /\ HasPromised(p, a)'
      BY <2>4 DEF HasPromised
    <3>3. promisedProposalNumber[a] = n /\ reply[a][p].agree = 1
      BY <1>1, <2>4, <3>1, <3>2 DEF NewRound
    <3> QED
      BY <1>8, <2>4, <3>1, <3>2, <3>3
  <2>5. CASE SeeAccepted(a, p)
    <3>1. /\ s = "seeAccepted"
          /\ stage'[a][p] = IF acceptedProposalNumber[a] # -1 THEN "copySlot" ELSE "replied"
          /\ promisedProposalNumber' = promisedProposalNumber
          /\ reply'[a][p].accepted = acceptedProposalNumber[a]
          /\ reply'[a][p].agree = reply[a][p].agree
      BY <2>5 DEF SeeAccepted
    <3> QED
      BY <1>10, <2>4, <3>1
  <2>6. CASE CopySlot(a, p)
    <3>1. /\ s = "copySlot" /\ stage'[a][p] = "copyOrder"
          /\ promisedProposalNumber' = promisedProposalNumber
          /\ reply'[a][p].cmd.slot = acceptedValue[a].slot
          /\ reply'[a][p].accepted = reply[a][p].accepted
          /\ reply'[a][p].agree = reply[a][p].agree
      BY <2>6 DEF CopySlot
    <3> QED
      BY <1>2, <1>10, <2>4, <3>1 DEF CarriedOK
  <2>7. CASE CopyOrder(a, p)
    <3>1. /\ s = "copyOrder" /\ stage'[a][p] = "replied"
          /\ promisedProposalNumber' = promisedProposalNumber
          /\ reply'[a][p].cmd.slot = reply[a][p].cmd.slot
          /\ reply'[a][p].cmd.order = acceptedValue[a].order
          /\ reply'[a][p].accepted = reply[a][p].accepted
          /\ reply'[a][p].agree = reply[a][p].agree
      BY <2>7 DEF CopyOrder
    <3>2. NewRound(p)' /\ reply[a][p].agree = 1
      BY <2>4, <3>1
    <3>3. reply[a][p].cmd.slot = acceptedValue[a].slot
      BY <1>2, <3>1, <3>2 DEF CarriedOK
    <3>4. reply'[a][p].cmd = acceptedValue[a]
      <4>1. reply'[a][p].cmd \in Command /\ acceptedValue[a] \in Command
        BY EngineerType
      <4> HIDE DEF Command, PaxosMsg, AcceptorTypeOK, CoreTypeOK, ScoutTypeOK
      <4> QED
        BY <3>1, <3>3, <4>1, SameCommand
    <3>5. reply'[a][p].accepted = acceptedProposalNumber[a]
      BY <1>2, <3>1, <3>2 DEF CarriedOK
    <3> QED
      BY <1>10, <3>1, <3>2, <3>4, <3>5
  <2>8. ~TestAccept(a, p) /\ ~AcceptNumber(a, p) /\ ~AcceptSlot(a, p) /\ ~AcceptOrder(a, p)
    BY <1>3 DEF TestAccept, AcceptNumber, AcceptSlot, AcceptOrder
  <2> QED
    BY <2>1, <2>2, <2>3, <2>5, <2>6, <2>7, <2>8 DEF EngineerStep
<1>12. NumbersOK(p)'
  <2>1. scoutInit'[p]
    BY <1>1 DEF StubInv, StubOK
  <2> QED
    BY <1>1, <1>4, <1>11, <2>1 DEF NumbersOK, Preparing
<1>13. ValuesOK(p)'
  <2>1. Leads(p)'
    BY <1>1, <1>2, <1>4 DEF Leads, Sound
  <2> QED
    BY <1>1, <1>11, <2>1 DEF ValuesOK, Accepting
<1>14. CommandsOK(p)'
  BY <1>1, <1>4, CommandsKept DEF Preparing, Accepting
<1> QED
  BY <1>12, <1>13, <1>14

LEMMA AcceptingKeeps ==
  ASSUME CoreTypeOK, PromiseInv, StubInv, NEW a \in Server, NEW p \in Proposer,
         Engineer(a, p), request[a][p].phase # 1, EngineerStep(a, p),
         NumbersOK(p), ValuesOK(p), CommandsOK(p)
  PROVE  NumbersOK(p)' /\ ValuesOK(p)' /\ CommandsOK(p)'
<1> USE DEF CoreTypeOK, ScoutTypeOK
<1> DEFINE n == proposalNumber[p]
           c == ballot[p].cmd
           s == stage[a][p]
<1>1. /\ alive[a] /\ a \in Led(p) /\ a \in todo[p]
      /\ \A b \in Server \ {a} : /\ stage[b][p] = "idle" /\ stage'[b][p] = "idle"
                                 /\ reply'[b][p] = reply[b][p]
      /\ request[a][p].number = n /\ request[a][p].cmd = c
      /\ pc[p] = "p2b" /\ StageOK(a, p)
      /\ UNCHANGED <<alive, pc, todo, proposalNumber, tally, ballot, slot_in, scoutStub,
                     scoutInit, served, decisionMap>>
  <2>1. request[a][p] = MessageOf(p) /\ pc[p] = "p2b"
    BY EngineerFacts
  <2>2. request[a][p].number = n /\ request[a][p].cmd = c
    BY <2>1 DEF MessageOf, P2a, NoMsg
  <2> QED
    BY <2>1, <2>2, EngineerFacts, Zenon DEF scoutVars, stubVars
<1>2. BallotOK(p) /\ scoutInit[p] /\ promisedProposalNumber[a] = n
  BY <1>1 DEF NumbersOK, ValuesOK, Preparing, Accepting, StubInv, StubOK
<1>3. s \in {"received", "accept", "acceptSlot", "acceptOrder"}
  BY <1>2 DEF EngineerStep, TestPrepare, Promise, Reject, SeeAccepted, CopySlot, CopyOrder,
              TestAccept, AcceptNumber, AcceptSlot, AcceptOrder, Move, BallotOK
<1>4. TestAccept(a, p) \/ AcceptNumber(a, p) \/ AcceptSlot(a, p) \/ AcceptOrder(a, p)
  BY <1>3 DEF EngineerStep, TestPrepare, Promise, Reject, SeeAccepted, CopySlot, CopyOrder, Move
<1>5. /\ promisedProposalNumber' = promisedProposalNumber
      /\ \A b \in Server \ {a} : /\ acceptedProposalNumber'[b] = acceptedProposalNumber[b]
                                 /\ acceptedValue'[b] = acceptedValue[b]
      /\ acceptedProposalNumber'[a] \in {acceptedProposalNumber[a], n}
      /\ Led(p)' = Led(p)
  <2>1. Led(p)' = Led(p)
    BY <1>1 DEF Led
  <2> QED
    BY <1>1, <1>4, <2>1 DEF TestAccept, AcceptNumber, AcceptSlot, AcceptOrder, AcceptorTypeOK
<1>6. n \in Nat /\ \A b \in Server : acceptedProposalNumber[b] \in Int
  BY DEF AcceptorTypeOK, Number
<1>7. votes \subseteq votes' /\ {v.cmd : v \in votes'} \subseteq {v.cmd : v \in votes} \cup {c}
  BY <1>1, <1>4 DEF TestAccept, AcceptNumber, AcceptSlot, AcceptOrder
\* What is left to show is of the engineer of a.
<1>8. ASSUME stage'[a][p] \in {"accept", "acceptSlot", "acceptOrder", "replied"},
             stage'[a][p] \in {"acceptSlot", "acceptOrder"} => acceptedProposalNumber'[a] = n,
             stage'[a][p] = "acceptOrder" => acceptedValue'[a].slot = c.slot,
             acceptedProposalNumber'[a] = n => Copied(p, a)',
             stage'[a][p] = "replied" => reply'[a][p].agree = 1 /\ acceptedProposalNumber'[a] = n
      PROVE  BallotOK(p)'
  <2>1. ASSUME NEW b \in Server, b # a, Sound(p, b)', acceptedProposalNumber'[b] = n
        PROVE  Copied(p, b)'
    <3>1. /\ stage[b][p] = "idle" /\ stage'[b][p] = "idle"
          /\ acceptedProposalNumber[b] = n /\ acceptedValue'[b] = acceptedValue[b]
      BY <1>1, <1>5, <2>1
    <3>2. Copied(p, b)
      BY <1>1, <1>2, <2>1, <3>1 DEF BallotOK, Sound
    <3> QED
      BY <1>1, <3>1, <3>2 DEF Copied
  <2>2. \A b \in Server :
          /\ stage'[b][p] \in {"idle", "received", "accept", "acceptSlot", "acceptOrder",
                               "replied"}
          /\ stage'[b][p] \in {"acceptSlot", "acceptOrder"} => acceptedProposalNumber'[b] = n
          /\ stage'[b][p] = "acceptOrder" => acceptedValue'[b].slot = c.slot
          /\ Sound(p, b)' /\ acceptedProposalNumber'[b] = n => Copied(p, b)'
    BY <1>1, <1>8, <2>1
  <2>3. stage'[p][p] = "replied" => reply'[p][p].agree = 1 /\ acceptedProposalNumber'[p] = n
    BY <1>1, <1>8, ProposerAssumption
  <2>4. p \notin todo[p] => /\ acceptedProposalNumber'[p] = n
                            /\ ballot[p].agreed >= 1
                            /\ VotedFor(p, n, c)'
    BY <1>1, <1>2, <1>5, <1>7, ProposerAssumption DEF BallotOK, VotedFor
  <2> QED
    BY <1>1, <2>2, <2>3, <2>4 DEF BallotOK
<1>9. BallotOK(p)'
  <2> USE DEF AcceptorTypeOK, Move, PaxosMsg, Command
  <2>1. CASE TestAccept(a, p)
    <3>1. s = "received" /\ stage'[a][p] = "accept" /\ UNCHANGED <<acceptedProposalNumber, acceptedValue>>
      BY <1>1, <1>2, <2>1 DEF TestAccept, MayAccept
    <3>2. acceptedProposalNumber[a] = n => Copied(p, a)
      BY <1>1, <1>2 DEF BallotOK, Sound
    <3> QED
      BY <1>1, <1>8, <3>1, <3>2 DEF Copied
  <2>2. CASE AcceptNumber(a, p)
    <3>1. stage'[a][p] = "acceptSlot" /\ acceptedProposalNumber'[a] = n
      BY <1>1, <2>2 DEF AcceptNumber
    <3> QED
      BY <1>8, <3>1 DEF Copied
  <2>3. CASE AcceptSlot(a, p)
    <3>1. /\ stage'[a][p] = "acceptOrder" /\ acceptedProposalNumber'[a] = n
          /\ acceptedValue'[a].slot = c.slot
      BY <1>1, <1>2, <2>3 DEF AcceptSlot, BallotOK
    <3> QED
      BY <1>1, <1>8, <3>1 DEF Copied
  <2>4. CASE AcceptOrder(a, p)
    <3>1. /\ stage'[a][p] = "replied" /\ acceptedProposalNumber'[a] = n
          /\ acceptedValue'[a].slot = c.slot /\ acceptedValue'[a].order = c.order
          /\ reply'[a][p].agree = 1
      BY <1>1, <1>2, <2>4 DEF AcceptOrder, BallotOK
    <3>2. acceptedValue'[a] = c
      <4>1. acceptedValue'[a] \in Command /\ c \in Command
        BY EngineerType DEF Ballot
      <4> HIDE DEF Command, PaxosMsg, AcceptorTypeOK, CoreTypeOK, ScoutTypeOK
      <4> QED
        BY <3>1, <4>1, SameCommand
    <3> QED
      BY <1>1, <1>8, <3>1, <3>2 DEF Copied
  <2> QED
    BY <1>4, <2>1, <2>2, <2>3, <2>4
<1>10. NumbersOK(p)'
  <2>1. \A b \in Server : acceptedProposalNumber'[b] <= n
    <3> TAKE b \in Server
    <3>1. acceptedProposalNumber[b] <= n /\ acceptedProposalNumber[a] <= n /\ n <= n
      BY <1>6 DEF NumbersOK
    <3>2. CASE b = a
      BY <1>5, <3>1, <3>2
    <3>3. CASE b # a
      BY <1>5, <3>1, <3>3
    <3> QED
      BY <3>2, <3>3
  <2> QED
    BY <1>1, <1>2, <1>5, <2>1 DEF NumbersOK, Preparing
<1>11. CommandsOK(p)'
  <2>1. Known(p)' = Known(p)
    BY <1>1, <1>7 DEF Known, Accepting
  <2>2. \A d : CommandOK(p, d)' <=> CommandOK(p, d)
    BY <1>1 DEF CommandOK, Holds, Accepting, LP!Slots
  <2> QED
    BY <1>1, <2>1, <2>2 DEF CommandsOK, Accepting, Preparing, OrderOf
<1> QED
  BY <1>1, <1>9, <1>10, <1>11 DEF ValuesOK, Preparing, Accepting

LEMMA EngineerLeads ==
  ASSUME CoreTypeOK, PromiseInv, StubInv, NEW a \in Server, NEW p \in Proposer,
         Engineer(a, p), LeaderOK(p)
  PROVE  LeaderOK(p)'
<1>1. EngineerStep(a, p) /\ UNCHANGED <<alive, scoutVars, stubVars>>
  BY DEF Engineer
<1>2. SelfLed(p)'
  BY <1>1 DEF LeaderOK, SelfLed, Tried, scoutVars, stubVars
<1>3. NumbersOK(p)' /\ ValuesOK(p)' /\ CommandsOK(p)'
  BY <1>1, PromisingKeeps, AcceptingKeeps DEF LeaderOK
<1> QED
  BY <1>2, <1>3 DEF LeaderOK
-----------------------------------------------------------------------------
(***************************************************************************)
(* The learners, crashes and starts.                                       *)
(***************************************************************************)
LEMMA LearnStores ==
  ASSUME CoreTypeOK, LP!TypeOK, NEW l \in Server, NEW p \in Proposer, Learn(l, p)
  PROVE  /\ learnq[p][l] \in Seq(Command) /\ learnq[p][l] # <<>>
         /\ Head(learnq[p][l]) \in Command
         /\ decisionMap' =
              [decisionMap EXCEPT ![l] = LP!Store(decisionMap[l], Head(learnq[p][l]))]
         /\ \A k \in Server : LP!Slots(decisionMap[k]) \subseteq LP!Slots(decisionMap'[k])
<1> DEFINE c == Head(learnq[p][l])
<1>1. learnq[p][l] \in Seq(Command) /\ learnq[p][l] # <<>>
  BY DEF Learn, CoreTypeOK, ScoutTypeOK
<1>2. c \in Command
  BY <1>1
<1>3. decisionMap' = [decisionMap EXCEPT ![l] = LP!Store(decisionMap[l], c)]
  BY DEF Learn, L!Learn, L!Store, LP!Store
<1>4. \A k \in Server : LP!Slots(decisionMap[k]) \subseteq LP!Slots(decisionMap'[k])
  <2>1. decisionMap \in [Server -> SUBSET Command]
    BY DEF CoreTypeOK, ScoutTypeOK
  <2>2. LP!Slots(decisionMap[l]) \subseteq LP!Slots(LP!Store(decisionMap[l], c))
    BY DEF LP!Slots, LP!Store
  <2> QED
    BY <1>3, <2>1, <2>2
<1> QED
  BY <1>1, <1>2, <1>3, <1>4

LEMMA LearnLeads ==
  ASSUME CoreTypeOK, LP!TypeOK, NEW l \in Server, NEW q \in Proposer, Learn(l, q),
         NEW p \in Proposer, LeaderOK(p)
  PROVE  LeaderOK(p)'
<1>1. UNCHANGED <<acceptorVars, alive, scoutVars, stubVars, orderVars>>
  BY DEF Learn
<1>2. LP!Slots(decisionMap[p]) \subseteq LP!Slots(decisionMap'[p])
  BY LearnStores, ProposerAssumption
<1> USE <1>1 DEF acceptorVars, scoutVars, stubVars, orderVars
<1>3. SelfLed(p)'
  BY DEF LeaderOK, SelfLed, Tried
<1>4. NumbersOK(p)'
  BY DEF LeaderOK, NumbersOK, NewRound, OldRound, HasPromised, Unused, Led, Preparing
<1>5. ValuesOK(p)'
  BY DEF LeaderOK, ValuesOK, Leads, CarriedOK, BallotOK, Copied, Sound, VotedFor,
         Preparing, Accepting
<1>6. CommandsOK(p)'
  <2>1. Known(p)' = Known(p)
    BY DEF Known, Accepting
  <2>2. \A c : Holds(p, c)' <=> Holds(p, c)
    BY DEF Holds, Accepting
  <2>3. \A c : CommandOK(p, c) => CommandOK(p, c)'
    BY <1>2, <2>2 DEF CommandOK, LP!Slots
  <2> QED
    BY <2>1, <2>3 DEF LeaderOK, CommandsOK, Accepting, Preparing, OrderOf
<1> QED
  BY <1>3, <1>4, <1>5, <1>6 DEF LeaderOK

LEMMA DieLeads ==
  ASSUME CoreTypeOK, NEW s \in Server, Die(s), NEW p \in Proposer, LeaderOK(p)
  PROVE  LeaderOK(p)'
<1>1. /\ UNCHANGED <<promisedProposalNumber, acceptedProposalNumber, acceptedValue, votes, pc,
                     todo, proposalNumber, slot_in, tally, ballot, scoutStub, scoutInit,
                     served, decisionMap>>
      /\ alive' = [alive EXCEPT ![s] = FALSE]
  BY DEF Die, scoutVars, stubVars, orderVars, learnVars
<1>2. \A b \in Server :
        \/ /\ stage'[b][p] = stage[b][p]
           /\ reply'[b][p] = reply[b][p]
           /\ b = s => stage[b][p] = "replied"
        \/ /\ stage'[b][p] = "idle" /\ reply'[b][p].agree = 0
           /\ b = s
  BY DEF Die, CoreTypeOK, AcceptorTypeOK, NoMsg
<1>3. /\ \A b \in Server : alive'[b] => alive[b]
      /\ ~alive'[s]
      /\ \A b \in Server : b # s => alive'[b] = alive[b]
  BY <1>1 DEF CoreTypeOK, ScoutTypeOK
<1>4. SelfLed(p)'
  BY <1>1, <1>3, ProposerAssumption DEF LeaderOK, SelfLed, Tried
<1>5. NumbersOK(p)'
  <2>1. Led(p)' = Led(p) \ {s}
    BY <1>1, <1>3 DEF Led
  <2>2. \A b \in Led(p)' : HasPromised(p, b)' <=> HasPromised(p, b)
    BY <1>1, <1>2, <1>3 DEF Led, HasPromised
  <2>3. NewRound(p) => NewRound(p)'
    BY <1>1, <1>2, <2>1, <2>2 DEF NewRound, Unused
  <2>4. OldRound(p) => OldRound(p)'
    BY <1>1, <1>2, <2>1 DEF OldRound, Unused
  <2> QED
    BY <1>1, <2>1, <2>3, <2>4 DEF LeaderOK, NumbersOK, Preparing
<1>6. \A b \in Server : /\ Sound(p, b)' => Sound(p, b) /\ stage'[b][p] = stage[b][p]
                        /\ Copied(p, b) /\ stage'[b][p] = stage[b][p] => Copied(p, b)'
  BY <1>1, <1>2, <1>3 DEF Sound, Copied
<1>7. ValuesOK(p)'
  <2>1. Leads(p) => Leads(p)'
    BY <1>1, <1>6 DEF Leads
  <2>2. CarriedOK(p) => CarriedOK(p)'
    BY <1>1, <1>2 DEF CarriedOK
  <2>3. BallotOK(p) => BallotOK(p)'
    BY <1>1, <1>2, <1>6, ProposerAssumption DEF BallotOK, VotedFor
  <2> QED
    BY <1>1, <2>1, <2>2, <2>3 DEF LeaderOK, ValuesOK, Preparing, Accepting
<1>8. CommandsOK(p)'
  BY <1>1, CommandsKept DEF LeaderOK, Preparing, Accepting
<1> QED
  BY <1>4, <1>5, <1>7, <1>8 DEF LeaderOK

LEMMA StartLeads ==
  ASSUME CoreTypeOK, StubInv, Unstarted, NEW s \in Server, Start(s),
         NEW p \in Proposer, LeaderOK(p)
  PROVE  LeaderOK(p)'
<1>1. /\ s \in starting /\ alive' = [alive EXCEPT ![s] = TRUE]
      /\ UNCHANGED <<acceptorVars, scoutVars, stubVars, orderVars, decisionMap>>
  BY DEF Start, learnVars
<1>2. \A b \in Server : b # s => alive'[b] = alive[b]
  BY <1>1 DEF CoreTypeOK, ScoutTypeOK
<1>3. scoutStub[p][s] = "none" /\ acceptedProposalNumber[s] = -1
  BY <1>1 DEF StubInv, StubOK, Unstarted
<1> USE <1>1 DEF acceptorVars, scoutVars, stubVars, orderVars
<1>4. SelfLed(p)'
  BY <1>2, <1>3, ProposerAssumption DEF LeaderOK, SelfLed, Tried, Unstarted
<1>5. Led(p)' = Led(p)
  BY <1>2, <1>3 DEF Led
<1>6. NumbersOK(p)'
  BY <1>5 DEF LeaderOK, NumbersOK, NewRound, OldRound, HasPromised, Unused, Preparing
<1>7. ValuesOK(p)'
  <2>1. \A b \in Server : acceptedProposalNumber[b] # -1 => (Sound(p, b)' <=> Sound(p, b))
    BY <1>2, <1>3 DEF Sound
  <2>2. Leads(p) => Leads(p)'
    <3>1. \A b \in Server : Sound(p, b)' /\ acceptedProposalNumber[b] # -1 => Sound(p, b)
      BY <2>1
    <3> QED
      BY <3>1 DEF Leads
  <2>3. BallotOK(p) => BallotOK(p)'
    <3>1. proposalNumber[p] # -1
      BY DEF CoreTypeOK, ScoutTypeOK
    <3>2. \A b \in Server : Copied(p, b)' <=> Copied(p, b)
      BY DEF Copied
    <3> QED
      BY <2>1, <3>1, <3>2 DEF BallotOK, VotedFor
  <2>4. CarriedOK(p) => CarriedOK(p)'
    BY DEF CarriedOK
  <2> QED
    BY <2>2, <2>3, <2>4 DEF LeaderOK, ValuesOK, Preparing, Accepting
<1>8. CommandsOK(p)'
  BY CommandsKept DEF LeaderOK, Preparing, Accepting
<1> QED
  BY <1>4, <1>6, <1>7, <1>8 DEF LeaderOK

(***************************************************************************)
(* Only a running server acts.                                             *)
(***************************************************************************)
LEMMA RunningScout ==
  ASSUME NEW p \in Proposer, ScoutStep(p) PROVE alive[p] /\ UNCHANGED starting
BY Zenon
   DEF ScoutStep, TakeOrder, AcceptorsConnected, PrepareUnavailable, NextRound, Rejected,
       ProposeOwn, ProposeSystem, Prepared, StartCommander, Restart, GiveUpOwn,
       AcceptUnavailable, LearnersConnected, AnswerOk, ConnectAcceptor, IdentifyAcceptor,
       SendP1a, P1aFails, RecvP1b, SendP2a, P2aFails, RecvP2b, ConnectLearner,
       IdentifyLearner, SendLearn, SendLearnFails, Done, At

LEMMA ScoutAccepts ==
  ASSUME CoreTypeOK, NEW p \in Proposer, ScoutStep(p)
  PROVE  UNCHANGED <<promisedProposalNumber, acceptedProposalNumber, acceptedValue, votes,
                     promises>>
<1>1. CASE UNCHANGED acceptorVars
  BY <1>1 DEF acceptorVars
<1>2. ASSUME NEW a \in Server, Exchange(p, a)
      PROVE  UNCHANGED <<promisedProposalNumber, acceptedProposalNumber, acceptedValue, votes,
                         promises>>
  BY <1>2, Zenon DEF Exchange, SendP1a, SendP2a, RecvP1b, RecvP2b, SendTo, ReceiveFrom,
                     Receive, Release, acceptorVars
<1> QED
  BY <1>1, <1>2, ScoutFrame

LEMMA UnstartedStep ==
  ASSUME CoreTypeOK, Started, Unstarted, [Next]_vars PROVE Unstarted'
<1>1. ASSUME NEW p \in Proposer, ScoutStep(p) PROVE Unstarted'
  <2>1. alive[p] /\ UNCHANGED starting /\ p \notin starting
    BY <1>1, RunningScout DEF Started
  <2>2. UNCHANGED acceptedProposalNumber
    BY <1>1, ScoutAccepts
  <2>3. Apart(p)
    BY <1>1, Moves
  <2> QED
    BY <2>1, <2>2, <2>3 DEF Unstarted, Apart, SameStubs
<1>2. ASSUME NEW a \in Server, NEW p \in Proposer, Engineer(a, p) PROVE Unstarted'
  <2>1. alive[a] /\ a \notin starting /\ UNCHANGED <<starting, pc, scoutInit>>
    BY <1>2 DEF Engineer, Started, scoutVars, stubVars
  <2>2. \A b \in Server \ {a} : acceptedProposalNumber'[b] = acceptedProposalNumber[b]
    BY <1>2 DEF Engineer, EngineerStep, TestPrepare, Promise, Reject, SeeAccepted, CopySlot,
                CopyOrder, TestAccept, AcceptNumber, AcceptSlot, AcceptOrder, CoreTypeOK,
                AcceptorTypeOK
  <2>3. starting \subseteq Server
    BY LateAssumption DEF Started
  <2> QED
    BY <2>1, <2>2, <2>3 DEF Unstarted
<1>3. ASSUME starting' \subseteq starting, UNCHANGED <<acceptedProposalNumber, pc, scoutInit>>
      PROVE  Unstarted'
  BY <1>3 DEF Unstarted
<1>4. ASSUME NEW l \in Server, NEW p \in Proposer, Learn(l, p) PROVE Unstarted'
  BY <1>3, <1>4 DEF Learn, acceptorVars, scoutVars, stubVars
<1>5. ASSUME NEW s \in Server, Die(s) \/ Start(s), starting' \subseteq starting PROVE Unstarted'
  BY <1>3, <1>5 DEF Die, Start, acceptorVars, scoutVars, stubVars
<1>6. CASE UNCHANGED vars
  BY <1>3, <1>6 DEF vars, acceptorVars, scoutVars, stubVars
<1>7. starting' \subseteq starting
  BY OtherSteps, RunningScout DEF Lives
<1> QED
  BY <1>1, <1>2, <1>4, <1>5, <1>6, <1>7, EveryStep

LEMMA LeaderStep ==
  ASSUME OneProposer, CoreTypeOK, PromiseInv, StubInv, LP!TypeOK, LP!PrefixDecided,
         LearnedIsChosen, SlotInBehind, HoldsOrder, LeaderInv, [Next]_vars
  PROVE  LeaderInv'
<1>1. Unstarted'
  BY UnstartedStep DEF LeaderInv, StubInv
<1>2. ASSUME NEW p \in Proposer PROVE LeaderOK(p)'
  <2>1. LeaderOK(p) /\ Unstarted
    BY DEF LeaderInv
  <2>2. ASSUME NEW q \in Proposer, ScoutStep(q) PROVE LeaderOK(p)'
    <3>1. q = p
      BY DEF OneProposer
    <3> QED
      BY <2>1, <2>2, <3>1, ScoutKeeps
  <2>3. ASSUME NEW a \in Server, NEW q \in Proposer, Engineer(a, q) PROVE LeaderOK(p)'
    <3>1. q = p
      BY DEF OneProposer
    <3> QED
      BY <2>1, <2>3, <3>1, EngineerLeads
  <2>4. ASSUME NEW l \in Server, NEW q \in Proposer, Learn(l, q) PROVE LeaderOK(p)'
    BY <2>1, <2>4, LearnLeads
  <2>5. ASSUME NEW s \in Server, Die(s) \/ Start(s) PROVE LeaderOK(p)'
    BY <2>1, <2>5, DieLeads, StartLeads
  <2>6. CASE UNCHANGED vars
    <3> USE <2>6 DEF vars, acceptorVars, scoutVars, stubVars, orderVars, learnVars
    <3>1. SelfLed(p)'
      BY <2>1 DEF LeaderOK, SelfLed, Tried
    <3>2. NumbersOK(p)'
      BY <2>1 DEF LeaderOK, NumbersOK, NewRound, OldRound, HasPromised, Unused, Led, Preparing
    <3>3. ValuesOK(p)'
      BY <2>1 DEF LeaderOK, ValuesOK, Leads, CarriedOK, BallotOK, Copied, Sound, VotedFor,
                  Preparing, Accepting
    <3>4. CommandsOK(p)'
      BY <2>1, CommandsKept DEF LeaderOK, Preparing, Accepting
    <3> QED
      BY <3>1, <3>2, <3>3, <3>4 DEF LeaderOK
  <2> QED
    BY <2>2, <2>3, <2>4, <2>5, <2>6, EveryStep
<1> QED
  BY <1>1, <1>2 DEF LeaderInv

(***************************************************************************)
(* With one proposer, whatever crashes and whoever starts late: its        *)
(* numbers are promised by all that it can reach, its own acceptor holds   *)
(* the last command that was voted for, and every command that has a vote  *)
(* has a slot and an order of its own.                                     *)
(***************************************************************************)
THEOREM LeaderInvariant == ASSUME OneProposer PROVE Spec => []LeaderInv
<1>1. Init => LeaderInv
  <2> SUFFICES ASSUME Init PROVE LeaderInv
    OBVIOUS
  <2> USE DEF Init, LaptopInit, AcceptorInit
  <2>1. Unstarted
    BY LateAssumption DEF Unstarted
  <2>2. ASSUME NEW p \in Proposer PROVE LeaderOK(p)
    <3>1. SelfLed(p)
      BY DEF SelfLed, Tried
    <3>2. NumbersOK(p)
      BY DEF NumbersOK, Preparing
    <3>3. ValuesOK(p)
      BY ProposerAssumption DEF ValuesOK, Preparing, Accepting, Leads
    <3>4. CommandsOK(p)
      BY ProposerAssumption DEF CommandsOK, Known, Preparing, Accepting
    <3> QED
      BY <3>1, <3>2, <3>3, <3>4 DEF LeaderOK
  <2> QED
    BY <2>1, <2>2 DEF LeaderInv
<1>2. /\ CoreTypeOK /\ PromiseInv /\ StubInv /\ LP!TypeOK /\ LP!PrefixDecided
      /\ LearnedIsChosen /\ SlotInBehind /\ HoldsOrder /\ LeaderInv /\ [Next]_vars
      => LeaderInv'
  BY LeaderStep
<1> QED
  BY <1>1, <1>2, CoreType, PromiseInvariant, StubInvariant, LearnerInvariants,
     LearnedIsChosenTheorem, SlotInTheorem, HoldingInvariant, PTL DEF Spec
=============================================================================
