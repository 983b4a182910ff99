--------------------------- MODULE ConnectionProofs ---------------------------
(***************************************************************************)
(* The connections of LaptopPaxos, for any servers, proposers, orders,     *)
(* crashes and late starts: no false alarm, and no send that would end the *)
(* process with SIGPIPE.                                                   *)
(***************************************************************************)
EXTENDS LaptopPaxosProofs

\* A server that has not been started is not running.
Started == starting \subseteq Late /\ \A s \in starting : ~alive[s]

\* The scout of p has tried to connect to s.
Tried(p, s) == scoutInit[p] \/ (pc[p] = "connect" /\ s \notin todo[p])

\* The server whose reply the scout waits for.
Current(p, a) == a \in todo[p] /\ \A b \in todo[p] : a <= b

(***************************************************************************)
(* What an entry of scout_acceptor_stub says of its server: one that is    *)
(* closed, or unheard, is of a server that has died, and one that is       *)
(* missing of a server that has died or came late.                         *)
(***************************************************************************)
StubOK(p) ==
  /\ pc[p] = "connect" => ~scoutInit[p]
  /\ pc[p] \notin {"idle", "connect"} => scoutInit[p]
  /\ \A s \in Server :
       /\ scoutStub[p][s] # "none" => s \notin starting
       /\ learnerStub[p][s] # "none" => s \notin starting
       /\ scoutStub[p][s] \in {"closed", "unheard"} => ~alive[s]
       /\ learnerStub[p][s] \in {"closed", "unheard"} => ~alive[s]
       /\ scoutStub[p][s] = "none" /\ Tried(p, s) => ~alive[s] \/ s \in Late
       /\ pc[p] \in {"p1b", "p2b"} /\ Current(p, s) => scoutStub[p][s] = "open"

StubInv == Started /\ \A p \in Proposer : StubOK(p)

(***************************************************************************)
(* A connection to a learner is reset only while the scout's own one to    *)
(* that server is still in its map.  A prepare phase closes it, the accept *)
(* phase erases both, and only then does the commander send again.         *)
(***************************************************************************)
PipeOK(p, l) ==
  LET reset == learnerStub[p][l] = "reset"
  IN  /\ ~scoutInit[p] => learnerStub[p][l] = "none"
      /\ learnerStub[p][l] # "none" => scoutStub[p][l] # "none"
      /\ reset => ~alive[l]
      /\ reset /\ pc[p] \in {"prepare", "p1b"} /\ l \notin todo[p] => scoutStub[p][l] = "closed"
      /\ reset /\ pc[p] = "p1b" => stage[l][p] # "replied"
      /\ reset /\ pc[p] \in {"accept", "p2b"} => l \in todo[p] /\ scoutStub[p][l] = "closed"
      /\ pc[p] = "connectLearners" => ~reset
      /\ pc[p] = "learn" /\ l \in todo[p] => ~reset

PipeInv == \A p \in Proposer, l \in Server \ Late : PipeOK(p, l)

(***************************************************************************)
(* The counters of active acceptors count at least the entries that a loop *)
(* has visited and not erased.                                             *)
(***************************************************************************)
Kept(p) == {s \in Server \ todo[p] : scoutStub[p][s] # "none"}

CountOK(p) ==
  /\ pc[p] = "prepare" => Cardinality(Kept(p)) <= tally[p].active
  /\ pc[p] = "p1b" => Cardinality(Kept(p)) + 1 <= tally[p].active
  /\ pc[p] = "accept" => Cardinality(Kept(p)) <= ballot[p].active
  /\ pc[p] = "p2b" => Cardinality(Kept(p)) + 1 <= ballot[p].active

AlarmOK(p) ==
  \A i \in 1 .. MaxOrders : answer[<<p, i>>] = "unavailable" =>
    scoutInit[p] /\ 2 * Cardinality(Unreachable(p)) >= Cardinality(Server)

AlarmInv == \A p \in Proposer : CountOK(p) /\ AlarmOK(p)
-----------------------------------------------------------------------------
(***************************************************************************)
(* What the steps of a scout do to its connections, its iterator and its   *)
(* counters.                                                               *)
(***************************************************************************)
Goes(p, from, to, entries) == pc[p] = from /\ pc'[p] = to /\ todo'[p] = entries

SameStubs(p) ==
  /\ scoutStub'[p] = scoutStub[p]
  /\ learnerStub'[p] = learnerStub[p]
  /\ scoutInit'[p] = scoutInit[p]

\* The entries of s, and of no other server.
SetStubs(p, s, toScout, toLearner) ==
  /\ \A b \in Server : scoutStub'[p][b] = IF b = s THEN toScout ELSE scoutStub[p][b]
  /\ \A b \in Server : learnerStub'[p][b] = IF b = s THEN toLearner ELSE learnerStub[p][b]
  /\ scoutInit'[p] = scoutInit[p]

Begins(p) ==
  /\ SameStubs(p)
  /\ IF scoutInit[p] THEN Goes(p, "idle", "prepare", Acceptors(p))
                     ELSE Goes(p, "idle", "connect", Server)

\* What Init or Identify makes of an entry of s.
Connected(s, from, to) ==
  /\ to # "reset"
  /\ to \in {"none", "closed", "unheard"} => ~alive[s]
  /\ to # "none" => alive[s] \/ from # "none"

Connects(p, s) ==
  /\ s \in todo[p]
  /\ \E to :
       /\ Connected(s, scoutStub[p][s], to)
       /\ SetStubs(p, s, to, learnerStub[p][s])
       /\ \/ Goes(p, "connect", "connect", todo[p])
          \/ Goes(p, "connect", "connect", todo[p] \ {s}) /\ (alive[s] => to = "open")

HasConnected(p) ==
  /\ todo[p] = {}
  /\ Goes(p, "connect", "prepare", Acceptors(p))
  /\ scoutStub'[p] = scoutStub[p] /\ learnerStub'[p] = learnerStub[p]
  /\ scoutInit'[p] = TRUE

\* A loop ends and one over the acceptors begins.
Loops(p) ==
  /\ todo[p] = {}
  /\ SameStubs(p)
  /\ \/ Goes(p, "prepare", "prepare", Acceptors(p))
     \/ Goes(p, "prepare", "accept", Acceptors(p))
     \/ Goes(p, "accept", "prepare", Acceptors(p))

Sends(p, a) ==
  /\ Current(p, a)
  /\ scoutStub[p][a] = "open"
  /\ SameStubs(p)
  /\ \/ Goes(p, "prepare", "p1b", todo[p]) /\ tally'[p].active = tally[p].active + 1
     \/ Goes(p, "accept", "p2b", todo[p]) /\ ballot'[p].active = ballot[p].active + 1
  /\ \A b \in Server : stage'[b][p] = stage[b][p] \/ stage'[b][p] = "received"

Fails(p, a) ==
  /\ a \in todo[p]
  /\ pc[p] \in {"prepare", "accept", "learn"}
  /\ Goes(p, pc[p], pc[p], todo[p] \ {a})
  /\ scoutStub[p][a] = "closed" \/ learnerStub[p][a] = "closed" \/ ~alive[a]
  /\ SetStubs(p, a, "none", "none")
  /\ tally'[p].active = tally[p].active /\ ballot'[p].active = ballot[p].active

Receives(p, a) ==
  /\ Current(p, a)
  /\ \/ Goes(p, "p1b", "prepare", todo[p] \ {a})
     \/ Goes(p, "p2b", "accept", todo[p] \ {a})
  /\ \/ stage[a][p] = "replied" /\ SameStubs(p)
     \/ ~alive[a] /\ SetStubs(p, a, "closed", learnerStub[p][a])
  /\ tally'[p].active = tally[p].active /\ ballot'[p].active = ballot[p].active

Commands(p) ==
  /\ todo[p] = {}
  /\ SameStubs(p)
  /\ \/ Goes(p, "accept", "learn", Learners(p))
     \/ Goes(p, "accept", "connectLearners", Server)
     \/ Goes(p, "connectLearners", "learn", Learners(p))

ConnectsLearner(p, l) ==
  /\ l \in todo[p]
  /\ \/ Goes(p, "connectLearners", "connectLearners", todo[p])
     \/ Goes(p, "connectLearners", "connectLearners", todo[p] \ {l})
  /\ \E to : /\ Connected(l, learnerStub[p][l], to)
             /\ SetStubs(p, l, scoutStub[p][l], to)

Announces(p, l) ==
  /\ l \in todo[p]
  /\ learnerStub[p][l] = "open"
  /\ Goes(p, "learn", "learn", todo[p] \ {l})
  /\ SetStubs(p, l, scoutStub[p][l], IF alive[l] THEN "open" ELSE "reset")

Answers(p) ==
  /\ todo[p] = {}
  /\ pc[p] \notin {"idle", "connect"}
  /\ Goes(p, pc[p], "idle", {})
  /\ SameStubs(p)

ScoutMove(p) ==
  \/ Begins(p) \/ HasConnected(p) \/ Loops(p) \/ Commands(p) \/ Answers(p)
  \/ \E s \in Server : Connects(p, s) \/ Sends(p, s) \/ Fails(p, s) \/ Receives(p, s)
                        \/ ConnectsLearner(p, s) \/ Announces(p, s)

\* The other scouts, and the engineers that work for them.
Apart(p) ==
  \A q \in Proposer \ {p} :
    /\ pc'[q] = pc[q] /\ todo'[q] = todo[q]
    /\ tally'[q] = tally[q] /\ ballot'[q] = ballot[q]
    /\ SameStubs(q)
    /\ \A a \in Server : stage'[a][q] = stage[a][q]

\* An order is answered at the end of a scout's loop.
AnswersSame(p) ==
  /\ \A o \in Order : o[1] # p => answer'[o] = answer[o]
  /\ \/ UNCHANGED answer
     \/ /\ pc[p] \in {"prepare", "accept", "learn"} /\ todo[p] = {}
        /\ answer' \in {[answer EXCEPT ![OrderOf(p)] = "ok"],
                         [answer EXCEPT ![OrderOf(p)] = "unavailable"]}
        /\ answer' = [answer EXCEPT ![OrderOf(p)] = "unavailable"] =>
             \/ pc[p] = "prepare" /\ tally[p].active <= Half
             \/ pc[p] = "accept" /\ ballot[p].active <= Half

LEMMA Moves ==
  ASSUME CoreTypeOK, NEW p \in Proposer, ScoutStep(p)
  PROVE  ScoutMove(p) /\ Apart(p) /\ AnswersSame(p) /\ UNCHANGED <<starting, alive>>
<1> USE DEF CoreTypeOK, ScoutTypeOK, Goto, Goes, SameStubs, Apart, AnswersSame, stubVars,
            acceptorVars, orderVars
<1>0. UNCHANGED <<starting, alive>>
  BY ScoutFrame, Zenon DEF ScoutStep
<1>1. CASE TakeOrder(p)
  <2>1. CASE scoutInit[p]
    BY <1>0, <1>1, <2>1 DEF TakeOrder, Begin, ScoutMove, Begins
  <2>2. CASE ~scoutInit[p]
    BY <1>0, <1>1, <2>2 DEF TakeOrder, Begin, ScoutMove, Begins
  <2> QED  BY <2>1, <2>2
<1>2. CASE AcceptorsConnected(p)
  BY <1>0, <1>2 DEF AcceptorsConnected, Done, ScoutMove, HasConnected
<1>3. CASE NextRound(p)
  BY <1>0, <1>3 DEF NextRound, Rejected, Done, ScoutMove, Loops
<1>4. CASE ProposeOwn(p) \/ ProposeSystem(p)
  BY <1>0, <1>4 DEF ProposeOwn, ProposeSystem, EnterAccept, Prepared, Done, ScoutMove, Loops
<1>5. CASE Restart(p)
  BY <1>0, <1>5 DEF Restart, Done, ScoutMove, Loops
<1>6. CASE StartCommander(p)
  <2>1. CASE learnerInit[p]
    BY <1>0, <1>6, <2>1 DEF StartCommander, Done, ScoutMove, Commands
  <2>2. CASE ~learnerInit[p]
    BY <1>0, <1>6, <2>2 DEF StartCommander, Done, ScoutMove, Commands
  <2> QED  BY <2>1, <2>2
<1>7. CASE LearnersConnected(p)
  BY <1>0, <1>7 DEF LearnersConnected, Done, ScoutMove, Commands
<1>8. CASE PrepareUnavailable(p)
  BY <1>0, <1>8 DEF PrepareUnavailable, FewActive, Answer, Done, ScoutMove, Answers, OrderOf, Order
<1>9. CASE GiveUpOwn(p) \/ AnswerOk(p)
  <2>1. CASE GiveUpOwn(p)
    BY <1>0, <2>1, SMTT(30) DEF GiveUpOwn, Answer, Done, ScoutMove, Answers, OrderOf, Order
  <2>2. CASE AnswerOk(p)
    BY <1>0, <2>2, SMTT(30) DEF AnswerOk, Answer, Done, ScoutMove, Answers, OrderOf, Order
  <2> QED  BY <1>9, <2>1, <2>2
<1>10. CASE AcceptUnavailable(p)
  BY <1>0, <1>10 DEF AcceptUnavailable, TooFew, Answer, Done, ScoutMove, Answers, OrderOf, Order
<1>11. ASSUME NEW s \in Server, ConnectAcceptor(p, s) \/ IdentifyAcceptor(p, s)
       PROVE  ScoutMove(p) /\ Apart(p) /\ AnswersSame(p)
  <2>1. /\ s \in todo[p] /\ pc[p] = "connect"
        /\ UNCHANGED <<acceptorVars, tally, ballot, learnerStub, scoutInit, learnerInit, orderVars>>
        /\ UNCHANGED <<pc, todo>> \/ Goto(p, "connect", todo[p] \ {s})
    BY <1>11, Zenon DEF ConnectAcceptor, IdentifyAcceptor, At
  <2>2. PICK to :
          /\ Connected(s, scoutStub[p][s], to)
          /\ scoutStub' = [scoutStub EXCEPT ![p][s] = to]
          /\ UNCHANGED <<pc, todo>> \/ (alive[s] => to = "open")
    <3>1. CASE ConnectAcceptor(p, s) /\ alive[s]
      BY <3>1 DEF ConnectAcceptor, Connected
    <3>2. CASE ConnectAcceptor(p, s) /\ ~alive[s]
      <4>1. scoutStub' = [scoutStub EXCEPT ![p][s] = "none"]
        BY <3>2 DEF ConnectAcceptor
      <4> QED
        BY <3>2, <4>1 DEF Connected
    <3>3. CASE IdentifyAcceptor(p, s)
      <4>1. PICK to \in Identified(s) : scoutStub' = [scoutStub EXCEPT ![p][s] = to]
        BY <3>3, Zenon DEF IdentifyAcceptor
      <4>2. Connected(s, scoutStub[p][s], to) /\ (alive[s] => to = "open")
        BY <3>3 DEF IdentifyAcceptor, Identified, Connected
      <4> QED
        BY <4>1, <4>2
    <3> QED
      BY <1>11, <3>1, <3>2, <3>3
  <2>3. Connects(p, s)
    BY <2>1, <2>2 DEF Connects, SetStubs
  <2>4. Apart(p) /\ AnswersSame(p)
    BY <2>1, <2>2
  <2> QED  BY <2>3, <2>4 DEF ScoutMove
<1>12. ASSUME NEW s \in Server, P1aFails(p, s) \/ P2aFails(p, s) \/ SendLearnFails(p, s)
       PROVE  ScoutMove(p) /\ Apart(p) /\ AnswersSame(p)
  <2>1. /\ Erase(p, s)
        /\ UNCHANGED <<acceptorVars, tally, ballot, orderVars>>
        /\ s \in todo[p]
        /\ SendFails(scoutStub[p][s], s) \/ SendFails(learnerStub[p][s], s)
        /\ pc[p] \in {"prepare", "accept", "learn"}
        /\ Goto(p, pc[p], todo[p] \ {s})
    <3>1. CASE P1aFails(p, s)
      BY <3>1, Zenon DEF P1aFails, At, AfterErase
    <3>2. CASE P2aFails(p, s)
      BY <3>2, Zenon DEF P2aFails, At, AfterErase
    <3>3. CASE SendLearnFails(p, s)
      BY <3>3, Zenon DEF SendLearnFails, SendFails, At, AfterErase
    <3> QED  BY <1>12, <3>1, <3>2, <3>3
  <2>2. Fails(p, s)
    BY <2>1 DEF Fails, Erase, SetStubs, SendFails
  <2>3. Apart(p) /\ AnswersSame(p)
    BY <2>1 DEF Erase
  <2> QED  BY <2>2, <2>3 DEF ScoutMove
<1>13. ASSUME NEW s \in Server, SendP1a(p, s) \/ SendP2a(p, s)
       PROVE  ScoutMove(p) /\ Apart(p) /\ AnswersSame(p)
  <2>1. /\ Current(p, s)
        /\ UNCHANGED <<stubVars, orderVars>>
    BY <1>13 DEF SendP1a, SendP2a, At, Current
  <2>2. PICK msg : SendTo(p, s, msg)
    BY <1>13 DEF SendP1a, SendP2a
  <2>3. /\ \A b \in Server : stage'[b][p] = stage[b][p] \/ stage'[b][p] = "received"
        /\ \A b \in Server, q \in Proposer \ {p} : stage'[b][q] = stage[b][q]
    <3>1. CASE alive[s]
      <4>1. stage' = [stage EXCEPT ![s][p] = "received"]
        BY <2>2, <3>1, Zenon DEF SendTo, Receive, Move
      <4> QED  BY <4>1 DEF AcceptorTypeOK
    <3>2. CASE ~alive[s]
      BY <2>2, <3>2 DEF SendTo
    <3> QED  BY <3>1, <3>2
  <2>4. CASE SendP1a(p, s)
    <3>1. /\ Goes(p, "prepare", "p1b", todo[p])
          /\ tally' = [tally EXCEPT ![p].active = tally[p].active + 1]
          /\ UNCHANGED ballot
      BY <2>4 DEF SendP1a, At
    <3>2. tally'[p].active = tally[p].active + 1
      BY <3>1 DEF Tally
    <3>3. Sends(p, s)
      BY <2>1, <2>2, <2>3, <3>1, <3>2 DEF Sends, SendTo
    <3>4. Apart(p) /\ AnswersSame(p)
      BY <2>1, <2>3, <2>4, <3>1 DEF SendP1a
    <3> QED  BY <3>3, <3>4 DEF ScoutMove
  <2>5. CASE SendP2a(p, s)
    <3>1. /\ Goes(p, "accept", "p2b", todo[p])
          /\ ballot' = [ballot EXCEPT ![p].active = ballot[p].active + 1]
          /\ UNCHANGED tally
      BY <2>5 DEF SendP2a, At
    <3>2. ballot'[p].active = ballot[p].active + 1
      BY <3>1 DEF Ballot
    <3>3. Sends(p, s)
      BY <2>1, <2>2, <2>3, <3>1, <3>2 DEF Sends, SendTo
    <3>4. Apart(p) /\ AnswersSame(p)
      BY <2>1, <2>3, <2>5, <3>1 DEF SendP2a
    <3> QED  BY <3>3, <3>4 DEF ScoutMove
  <2> QED  BY <1>13, <2>4, <2>5
<1>15. ASSUME NEW s \in Server, RecvP1b(p, s) \/ RecvP2b(p, s)
       PROVE  ScoutMove(p) /\ Apart(p) /\ AnswersSame(p)
  <2>1. PICK msg : ReceiveFrom(p, s, msg)
    BY <1>15 DEF RecvP1b, RecvP2b
  <2>2. /\ Current(p, s)
        /\ UNCHANGED orderVars
        /\ \/ Goes(p, "p1b", "prepare", todo[p] \ {s})
           \/ Goes(p, "p2b", "accept", todo[p] \ {s})
        /\ \A q \in Proposer \ {p} : pc'[q] = pc[q] /\ todo'[q] = todo[q]
    BY <1>15 DEF RecvP1b, RecvP2b, At, Current
  <2>3. /\ \/ stage[s][p] = "replied" /\ SameStubs(p)
           \/ ~alive[s] /\ SetStubs(p, s, "closed", learnerStub[p][s])
        /\ \A q \in Proposer \ {p} : SameStubs(q)
        /\ \A b \in Server, q \in Proposer \ {p} : stage'[b][q] = stage[b][q]
    <3>1. CASE stage[s][p] = "replied" /\ Release(s, p) /\ UNCHANGED stubVars
      BY <3>1 DEF Release, Move, AcceptorTypeOK
    <3>2. CASE /\ ~alive[s]
               /\ scoutStub' = [scoutStub EXCEPT ![p][s] = "closed"]
               /\ UNCHANGED <<acceptorVars, learnerStub, scoutInit, learnerInit>>
      BY <3>2 DEF SetStubs
    <3> QED  BY <2>1, <3>1, <3>2, Zenon DEF ReceiveFrom
  <2>4. /\ tally'[p].active = tally[p].active /\ ballot'[p].active = ballot[p].active
        /\ \A q \in Proposer \ {p} : tally'[q] = tally[q] /\ ballot'[q] = ballot[q]
    <3>1. CASE RecvP1b(p, s)
      <4>1. PICK m : tally' = [tally EXCEPT ![p] = Count(tally[p], m)]
        BY <3>1, Zenon DEF RecvP1b
      <4>2. Count(tally[p], m).active = tally[p].active
        BY DEF Count, Tally
      <4> QED  BY <3>1, <4>1, <4>2 DEF RecvP1b
    <3>2. CASE RecvP2b(p, s)
      <4>1. PICK m : ballot' = [ballot EXCEPT ![p].agreed = ballot[p].agreed + m.agree]
        BY <3>2 DEF RecvP2b
      <4> QED  BY <3>2, <4>1 DEF RecvP2b, Ballot
    <3> QED  BY <1>15, <3>1, <3>2
  <2>5. Receives(p, s)
    BY <2>2, <2>3, <2>4 DEF Receives
  <2>6. Apart(p) /\ AnswersSame(p)
    BY <2>2, <2>3, <2>4
  <2> QED  BY <2>5, <2>6 DEF ScoutMove
<1>16. ASSUME NEW s \in Server, ConnectLearner(p, s) \/ IdentifyLearner(p, s)
       PROVE  ScoutMove(p) /\ Apart(p) /\ AnswersSame(p)
  <2>1. /\ s \in todo[p] /\ pc[p] = "connectLearners"
        /\ UNCHANGED <<acceptorVars, tally, ballot, scoutStub, scoutInit, learnerInit, orderVars>>
        /\ UNCHANGED <<pc, todo>> \/ Goto(p, "connectLearners", todo[p] \ {s})
    BY <1>16, Zenon DEF ConnectLearner, IdentifyLearner, At
  <2>2. PICK to : Connected(s, learnerStub[p][s], to) /\ learnerStub' = [learnerStub EXCEPT ![p][s] = to]
    <3>1. CASE ConnectLearner(p, s) /\ alive[s]
      BY <3>1 DEF ConnectLearner, Connected
    <3>2. CASE ConnectLearner(p, s) /\ ~alive[s]
      <4>1. learnerStub' = [learnerStub EXCEPT ![p][s] = "none"]
        BY <3>2 DEF ConnectLearner
      <4> QED
        BY <3>2, <4>1 DEF Connected
    <3>3. CASE IdentifyLearner(p, s)
      <4>1. PICK to \in Identified(s) : learnerStub' = [learnerStub EXCEPT ![p][s] = to]
        BY <3>3, Zenon DEF IdentifyLearner
      <4>2. Connected(s, learnerStub[p][s], to)
        BY <3>3 DEF IdentifyLearner, Identified, Connected
      <4> QED
        BY <4>1, <4>2
    <3> QED
      BY <1>16, <3>1, <3>2, <3>3
  <2>3. ConnectsLearner(p, s)
    BY <2>1, <2>2 DEF ConnectsLearner, SetStubs
  <2>4. Apart(p) /\ AnswersSame(p)
    BY <2>1, <2>2
  <2> QED  BY <2>3, <2>4 DEF ScoutMove
<1>17. ASSUME NEW s \in Server, SendLearn(p, s) PROVE ScoutMove(p) /\ Apart(p) /\ AnswersSame(p)
  <2>1. learnerStub' = [learnerStub EXCEPT ![p][s] = IF alive[s] THEN "open" ELSE "reset"]
    BY <1>17 DEF SendLearn
  <2>2. /\ learnerStub[p][s] = "open" /\ s \in todo[p]
        /\ Goes(p, "learn", "learn", todo[p] \ {s})
        /\ UNCHANGED <<acceptorVars, tally, ballot, scoutStub, scoutInit, learnerInit, orderVars>>
        /\ \A q \in Proposer \ {p} : pc'[q] = pc[q] /\ todo'[q] = todo[q]
    BY <1>17 DEF SendLearn, At
  <2>3. Announces(p, s)
    BY <2>1, <2>2 DEF Announces, SetStubs
  <2>4. Apart(p) /\ AnswersSame(p)
    BY <2>1, <2>2
  <2> QED  BY <2>3, <2>4 DEF ScoutMove
<1> QED
  BY <1>0, <1>1, <1>2, <1>3, <1>4, <1>5, <1>6, <1>7, <1>8, <1>9, <1>10, <1>11, <1>12, <1>13,
     <1>15, <1>16, <1>17 DEF ScoutStep
-----------------------------------------------------------------------------
LEMMA CurrentUnique ==
  ASSUME CoreTypeOK, NEW p \in Proposer, NEW a, NEW b, Current(p, a), Current(p, b)
  PROVE  a = b
<1>1. a \in Nat /\ b \in Nat
  BY ServerAssumption DEF CoreTypeOK, ScoutTypeOK, Current
<1> QED
  BY <1>1 DEF Current

(***************************************************************************)
(* The entries of scout_acceptor_stub.                                     *)
(***************************************************************************)
LEMMA StubMoves ==
  ASSUME CoreTypeOK, StubInv, NEW p \in Proposer, ScoutMove(p), Apart(p),
         UNCHANGED <<starting, alive>>
  PROVE  StubInv'
<1> USE DEF CoreTypeOK, ScoutTypeOK
<1>1. Started'
  BY DEF StubInv, Started
<1>2. ASSUME NEW q \in Proposer \ {p} PROVE StubOK(q)'
  BY <1>2 DEF StubInv, StubOK, Tried, Current, Apart, SameStubs
<1>3. StubOK(p)'
  <2>0. Started /\ StubOK(p)
    BY DEF StubInv
  <2> USE <2>0 DEF StubOK, Tried, Goes, SameStubs, SetStubs
  <2>1. CASE Begins(p)
    BY <2>1 DEF Begins, Current
  <2>2. CASE HasConnected(p)
    BY <2>2 DEF HasConnected, Current
  <2>3. CASE Loops(p) \/ Commands(p) \/ Answers(p)
    BY <2>3 DEF Loops, Commands, Answers, Current
  <2>4. ASSUME NEW s \in Server, Connects(p, s) PROVE StubOK(p)'
    <3>1. /\ pc[p] = "connect" /\ pc'[p] = "connect" /\ ~scoutInit'[p]
          /\ \A b \in Server : b \notin todo'[p] => b \notin todo[p] \/ b = s
      BY <2>4 DEF Connects
    <3>2. \A b \in Server : scoutStub'[p][b] # "none" => b \notin starting
      BY <2>4 DEF Connects, Connected, Started
    <3>3. \A b \in Server : scoutStub'[p][b] \in {"closed", "unheard"} => ~alive[b]
      BY <2>4 DEF Connects, Connected
    <3>4. ASSUME NEW b \in Server, scoutStub'[p][b] = "none", b \notin todo'[p]
          PROVE  ~alive[b] \/ b \in Late
      <4>1. CASE b = s
        BY <2>4, <3>4, <4>1 DEF Connects, Connected
      <4>2. CASE b # s
        BY <2>4, <3>1, <3>4, <4>2 DEF Connects
      <4> QED
        BY <4>1, <4>2
    <3> QED
      BY <2>4, <3>1, <3>2, <3>3, <3>4 DEF Connects
  <2>5. ASSUME NEW s \in Server, Sends(p, s) PROVE StubOK(p)'
    <3>1. Current(p, s) /\ todo'[p] = todo[p]
      BY <2>5 DEF Sends
    <3>2. \A b \in Server : b \in todo[p] /\ (\A c \in todo[p] : b <= c) => b = s
      BY <3>1, CurrentUnique DEF Current
    <3> QED
      BY <2>5, <3>1, <3>2 DEF Sends, Current
  <2>6. ASSUME NEW s \in Server, Fails(p, s) PROVE StubOK(p)'
    BY <2>6 DEF Fails, Current
  <2>7. ASSUME NEW s \in Server, Receives(p, s) PROVE StubOK(p)'
    BY <2>7 DEF Receives
  <2>8. ASSUME NEW s \in Server, ConnectsLearner(p, s) \/ Announces(p, s) PROVE StubOK(p)'
    <3>1. CASE ConnectsLearner(p, s)
      BY <3>1 DEF ConnectsLearner, Connected, Current, Started
    <3>2. CASE Announces(p, s)
      BY <3>2 DEF Announces, Current
    <3> QED  BY <2>8, <3>1, <3>2
  <2> QED
    BY <2>1, <2>2, <2>3, <2>4, <2>5, <2>6, <2>7, <2>8 DEF ScoutMove
<1> QED
  BY <1>1, <1>2, <1>3 DEF StubInv

(***************************************************************************)
(* The entries of commander_learner_stub.                                  *)
(***************************************************************************)
LEMMA PipeMoves ==
  ASSUME CoreTypeOK, PromiseInv, StubInv, PipeInv, NEW p \in Proposer, ScoutMove(p),
         Apart(p), UNCHANGED <<starting, alive>>
  PROVE  PipeInv'
<1> USE DEF CoreTypeOK, ScoutTypeOK
<1>1. ASSUME NEW q \in Proposer \ {p}, NEW l \in Server \ Late PROVE PipeOK(q, l)'
  <2>1. PipeOK(q, l)
    BY DEF PipeInv
  <2> QED
    BY <2>1 DEF PipeOK, Apart, SameStubs
<1>2. ASSUME NEW l \in Server \ Late PROVE PipeOK(p, l)'
  <2>1. PipeOK(p, l) /\ StubOK(p)
    BY DEF PipeInv, StubInv
  <2> USE <2>1 DEF PipeOK, Goes, SameStubs, SetStubs
  <2>2. CASE Begins(p)
    BY <2>2 DEF Begins, Acceptors
  <2>3. CASE HasConnected(p)
    BY <2>3 DEF HasConnected, StubOK
  <2>4. CASE Loops(p)
    BY <2>4 DEF Loops, Acceptors
  <2>5. CASE Commands(p) \/ Answers(p)
    BY <2>5 DEF Commands, Answers
  <2>6. ASSUME NEW s \in Server, Connects(p, s) PROVE PipeOK(p, l)'
    BY <2>6 DEF Connects, Connected, StubOK
  <2>7. ASSUME NEW s \in Server, Sends(p, s) PROVE PipeOK(p, l)'
    <3>1. pc[p] = "prepare" => stage[l][p] = "idle"
      BY DEF PromiseInv, EngineerOK, WaitsFor
    <3> QED
      BY <2>7, <3>1 DEF Sends
  <2>8. ASSUME NEW s \in Server, Fails(p, s) PROVE PipeOK(p, l)'
    BY <2>8 DEF Fails
  <2>9. ASSUME NEW s \in Server, Receives(p, s) PROVE PipeOK(p, l)'
    <3>1. scoutStub[p][s] = "open"
      BY <2>9 DEF Receives, StubOK
    <3> QED
      BY <2>9, <3>1 DEF Receives
  <2>10. ASSUME NEW s \in Server, ConnectsLearner(p, s) PROVE PipeOK(p, l)'
    BY <2>10 DEF ConnectsLearner, Connected, StubOK, Tried
  <2>11. ASSUME NEW s \in Server, Announces(p, s) PROVE PipeOK(p, l)'
    BY <2>11 DEF Announces, StubOK, Tried
  <2> QED
    BY <2>2, <2>3, <2>4, <2>5, <2>6, <2>7, <2>8, <2>9, <2>10, <2>11 DEF ScoutMove
<1> QED
  BY <1>1, <1>2 DEF PipeInv

(***************************************************************************)
(* Cardinalities.                                                          *)
(***************************************************************************)
LEMMA Finite ==
  ASSUME NEW S \in SUBSET Server
  PROVE  IsFiniteSet(S) /\ Cardinality(S) \in Nat
<1>1. IsFiniteSet(S)
  BY ServerAssumption, FS_Subset
<1> QED
  BY <1>1, FS_CardinalityType

LEMMA Grows ==
  ASSUME NEW S \in SUBSET Server, NEW T \in SUBSET S
  PROVE  Cardinality(T) <= Cardinality(S)
BY Finite, FS_Subset

LEMMA GrowsByOne ==
  ASSUME NEW S \in SUBSET Server, NEW a \in Server, NEW T \in SUBSET (S \cup {a})
  PROVE  Cardinality(T) <= Cardinality(S) + 1
<1>1. S \cup {a} \in SUBSET Server
  OBVIOUS
<1>2. Cardinality(S \cup {a}) <= Cardinality(S) + 1
  BY Finite, FS_AddElement
<1>3. Cardinality(T) <= Cardinality(S \cup {a})
  BY <1>1, Grows
<1>4. T \in SUBSET Server
  OBVIOUS
<1> QED
  BY <1>1, <1>2, <1>3, <1>4, Finite

\* If at most half of the servers are in S, the others are half of them at least.
LEMMA OtherHalf ==
  ASSUME NEW S \in SUBSET Server, Cardinality(S) <= Half
  PROVE  2 * Cardinality(Server \ S) >= Cardinality(Server)
<1>1. Cardinality(Server) = Cardinality(S) + Cardinality(Server \ S)
  <2>1. S \cap (Server \ S) = {} /\ S \cup (Server \ S) = Server
    OBVIOUS
  <2>2. /\ IsFiniteSet(S) /\ Cardinality(S) \in Nat
        /\ IsFiniteSet(Server \ S) /\ Cardinality(Server \ S) \in Nat
    BY Finite
  <2>3. Cardinality(S \cup (Server \ S)) =
          Cardinality(S) + Cardinality(Server \ S) - Cardinality(S \cap (Server \ S))
    BY <2>2, FS_Union
  <2>4. Cardinality(S \cap (Server \ S)) = 0
    BY <2>1, FS_EmptySet, Zenon
  <2>5. Cardinality(S \cup (Server \ S)) = Cardinality(Server)
    BY <2>1, Zenon
  <2> QED
    BY <2>2, <2>3, <2>4, <2>5
<1>2. /\ Cardinality(Server) \in Nat /\ Cardinality(S) \in Nat
      /\ Cardinality(Server \ S) \in Nat
  BY Finite
<1> QED
  BY <1>1, <1>2 DEF Half

(***************************************************************************)
(* The counters of active acceptors.                                       *)
(***************************************************************************)
LEMMA CountMoves ==
  ASSUME CoreTypeOK, CoreTypeOK', StubInv, NEW p \in Proposer, CountOK(p), ScoutMove(p)
  PROVE  CountOK(p)'
<1> USE DEF Goes, SameStubs, SetStubs
<1>0. /\ tally[p].active \in Nat /\ tally'[p].active \in Nat
      /\ ballot[p].active \in Nat /\ ballot'[p].active \in Nat
      /\ Kept(p) \in SUBSET Server /\ Kept(p)' \in SUBSET Server
      /\ scoutStub[p] \in [Server -> ScoutStub] /\ todo[p] \in SUBSET Server
  BY DEF CoreTypeOK, ScoutTypeOK, Tally, Ballot, Kept
<1>1. Cardinality(Kept(p)) \in Nat /\ Cardinality(Kept(p)') \in Nat
  BY <1>0, Finite
<1>2. CASE todo'[p] = Acceptors(p) /\ scoutStub'[p] = scoutStub[p]
           /\ pc'[p] \in {"prepare", "accept"}
  <2>1. Kept(p)' = {}
    BY <1>2 DEF Kept, Acceptors
  <2> QED
    BY <1>0, <1>2, <2>1, FS_EmptySet DEF CountOK
<1>3. CASE pc'[p] \notin {"prepare", "p1b", "accept", "p2b"}
  BY <1>3 DEF CountOK
<1>4. ASSUME NEW s \in Server, Sends(p, s) PROVE CountOK(p)'
  <2>1. Kept(p)' = Kept(p)
    BY <1>4 DEF Sends, Kept
  <2> QED
    BY <1>0, <1>1, <1>4, <2>1 DEF Sends, CountOK
<1>5. ASSUME NEW s \in Server, Fails(p, s) PROVE CountOK(p)'
  <2>1. Kept(p)' = Kept(p)
    BY <1>0, <1>5 DEF Fails, Kept
  <2> QED
    BY <1>0, <1>1, <1>5, <2>1 DEF Fails, CountOK
<1>6. ASSUME NEW s \in Server, Receives(p, s) PROVE CountOK(p)'
  <2>1. Kept(p)' \in SUBSET (Kept(p) \cup {s})
    BY <1>6 DEF Receives, Kept
  <2>2. Cardinality(Kept(p)') <= Cardinality(Kept(p)) + 1
    BY <1>0, <2>1, GrowsByOne
  <2> QED
    BY <1>0, <1>1, <1>6, <2>2 DEF Receives, CountOK
<1>7. CASE Begins(p) \/ HasConnected(p) \/ Loops(p) \/ Commands(p) \/ Answers(p)
  BY <1>2, <1>3, <1>7 DEF Begins, HasConnected, Loops, Commands, Answers
<1>8. ASSUME NEW s \in Server, Connects(p, s) \/ ConnectsLearner(p, s) \/ Announces(p, s)
      PROVE  CountOK(p)'
  BY <1>3, <1>8 DEF Connects, ConnectsLearner, Announces
<1> QED
  BY <1>4, <1>5, <1>6, <1>7, <1>8 DEF ScoutMove

(***************************************************************************)
(* What the customers are told.                                            *)
(***************************************************************************)
LEMMA AlarmMoves ==
  ASSUME CoreTypeOK, StubInv, AlarmInv, NEW p \in Proposer, ScoutMove(p), Apart(p),
         AnswersSame(p), UNCHANGED <<starting, alive>>
  PROVE  \A q \in Proposer : AlarmOK(q)'
<1>1. ASSUME NEW q \in Proposer \ {p} PROVE AlarmOK(q)'
  <2>1. AlarmOK(q)
    BY DEF AlarmInv
  <2>2. \A i \in 1 .. MaxOrders : answer'[<<q, i>>] = answer[<<q, i>>]
    BY DEF AnswersSame, Order
  <2>3. Unreachable(q)' = Unreachable(q) /\ scoutInit'[q] = scoutInit[q]
    BY DEF Unreachable, Apart, SameStubs
  <2> QED
    BY <2>1, <2>2, <2>3 DEF AlarmOK
<1>2. StubOK(p) /\ AlarmOK(p) /\ CountOK(p)
  BY DEF StubInv, AlarmInv
<1>3. /\ Unreachable(p) \in SUBSET Server /\ Unreachable(p)' \in SUBSET Server
      /\ Cardinality(Unreachable(p)) \in Nat /\ Cardinality(Unreachable(p)') \in Nat
      /\ Cardinality(Server) \in Nat
  <2>1. Unreachable(p) \in SUBSET Server /\ Unreachable(p)' \in SUBSET Server
    BY DEF Unreachable
  <2> QED
    BY <2>1, Finite
<1>4. scoutInit[p] => scoutInit'[p]
  BY DEF CoreTypeOK, ScoutTypeOK, ScoutMove, Begins, HasConnected, Loops, Commands, Answers,
         Connects, Sends, Fails, Receives, ConnectsLearner, Announces, SameStubs, SetStubs
<1>5. scoutInit[p] => Unreachable(p) \subseteq Unreachable(p)'
  <2> SUFFICES ASSUME scoutInit[p], NEW s \in Server, scoutStub[p][s] = "none"
               PROVE  scoutStub'[p][s] = "none"
    BY DEF Unreachable
  <2>1. pc[p] # "connect"
    BY <1>2 DEF StubOK
  <2>2. ASSUME NEW a \in Server, Receives(p, a) PROVE scoutStub'[p][s] = "none"
    <3>1. scoutStub[p][a] = "open"
      BY <1>2, <2>2 DEF Receives, Goes, StubOK
    <3> QED
      BY <2>2, <3>1 DEF Receives, SameStubs, SetStubs
  <2>3. ASSUME NEW a \in Server, Fails(p, a) \/ ConnectsLearner(p, a) \/ Announces(p, a)
        PROVE  scoutStub'[p][s] = "none"
    BY <2>3 DEF Fails, ConnectsLearner, Announces, SetStubs
  <2>4. ASSUME NEW a \in Server, Sends(p, a) PROVE scoutStub'[p][s] = "none"
    BY <2>4 DEF Sends, SameStubs
  <2>5. CASE Begins(p) \/ HasConnected(p) \/ Loops(p) \/ Commands(p) \/ Answers(p)
    BY <2>5 DEF Begins, HasConnected, Loops, Commands, Answers, SameStubs
  <2>6. \A a \in Server : ~Connects(p, a)
    BY <2>1 DEF Connects, Goes
  <2> QED
    BY <2>2, <2>3, <2>4, <2>5, <2>6 DEF ScoutMove
<1>6. ASSUME NEW i \in 1 .. MaxOrders, answer[<<p, i>>] = "unavailable"
      PROVE  scoutInit'[p] /\ 2 * Cardinality(Unreachable(p)') >= Cardinality(Server)
  <2>1. scoutInit[p] /\ 2 * Cardinality(Unreachable(p)) >= Cardinality(Server)
    BY <1>2, <1>6 DEF AlarmOK
  <2>2. Cardinality(Unreachable(p)) <= Cardinality(Unreachable(p)')
    BY <1>3, <1>5, <2>1, Grows
  <2> QED
    BY <1>3, <1>4, <2>1, <2>2
<1>7. ASSUME \/ pc[p] = "prepare" /\ todo[p] = {} /\ tally[p].active <= Half
             \/ pc[p] = "accept" /\ todo[p] = {} /\ ballot[p].active <= Half
      PROVE  scoutInit'[p] /\ 2 * Cardinality(Unreachable(p)') >= Cardinality(Server)
  <2>1. scoutInit[p]
    BY <1>2, <1>7 DEF StubOK
  <2>2. Kept(p) \in SUBSET Server /\ Cardinality(Kept(p)) <= Half
    <3>1. Kept(p) \in SUBSET Server
      BY DEF Kept
    <3>2. Cardinality(Kept(p)) \in Nat /\ Half \in Nat
      BY <1>3, <3>1, Finite DEF Half
    <3>3. tally[p].active \in Nat /\ ballot[p].active \in Nat
      BY DEF CoreTypeOK, ScoutTypeOK, Tally, Ballot
    <3> QED
      BY <1>2, <1>7, <3>1, <3>2, <3>3 DEF CountOK
  <2>3. Server \ Kept(p) \subseteq Unreachable(p)
    BY <1>2, <1>7, <2>1 DEF Kept, Unreachable, StubOK, Tried
  <2>4. Cardinality(Server \ Kept(p)) <= Cardinality(Unreachable(p)')
    BY <1>3, <1>5, <2>1, <2>3, Grows
  <2>5. 2 * Cardinality(Server \ Kept(p)) >= Cardinality(Server)
    BY <2>2, OtherHalf
  <2>6. Cardinality(Server \ Kept(p)) \in Nat
    BY Finite
  <2> QED
    BY <1>3, <1>4, <2>1, <2>4, <2>5, <2>6
<1>8. AlarmOK(p)'
  <2> SUFFICES ASSUME NEW i \in 1 .. MaxOrders, answer'[<<p, i>>] = "unavailable"
               PROVE  scoutInit'[p] /\ 2 * Cardinality(Unreachable(p)') >= Cardinality(Server)
    BY DEF AlarmOK
  <2>1. CASE answer[<<p, i>>] = "unavailable"
    BY <1>6, <2>1
  <2>2. CASE answer[<<p, i>>] # "unavailable"
    <3>1. /\ pc[p] \in {"prepare", "accept", "learn"} /\ todo[p] = {}
          /\ answer' \in {[answer EXCEPT ![OrderOf(p)] = "ok"],
                           [answer EXCEPT ![OrderOf(p)] = "unavailable"]}
      BY <2>2, Zenon DEF AnswersSame
    <3>2. answer' # [answer EXCEPT ![OrderOf(p)] = "ok"]
      <4>1. <<p, i>> \in Order
        BY DEF Order
      <4> QED
        BY <2>2, <4>1 DEF CoreTypeOK, ScoutTypeOK
    <3>3. \/ pc[p] = "prepare" /\ tally[p].active <= Half
          \/ pc[p] = "accept" /\ ballot[p].active <= Half
      BY <2>2, <3>1, <3>2, Zenon DEF AnswersSame
    <3> QED
      BY <1>7, <3>1, <3>3
  <2> QED
    BY <2>1, <2>2
<1> QED
  BY <1>1, <1>8
-----------------------------------------------------------------------------
(***************************************************************************)
(* Engineers, learners, crashes and starts: a server comes alive only by   *)
(* its start, and a dead one sends no reply.                               *)
(***************************************************************************)
Lives ==
  /\ starting' \subseteq starting
  /\ \A s \in starting' : ~alive'[s]
  /\ \A s \in Server : alive'[s] => alive[s] \/ s \in starting
  /\ \A s \in Server, p \in Proposer :
       ~alive[s] /\ stage'[s][p] = "replied" => stage[s][p] = "replied"

LEMMA OtherSteps ==
  ASSUME CoreTypeOK, Started, [Next]_vars
  PROVE  \/ \E p \in Proposer : ScoutStep(p)
         \/ UNCHANGED <<scoutVars, stubVars, orderVars>> /\ Lives
<1> USE DEF CoreTypeOK, ScoutTypeOK, Lives
<1>1. ASSUME NEW a \in Server, NEW p \in Proposer, Engineer(a, p)
      PROVE  UNCHANGED <<scoutVars, stubVars, orderVars>> /\ Lives
  <2>1. /\ alive[a] /\ EngineerStep(a, p)
        /\ UNCHANGED <<starting, alive, scoutVars, stubVars, orderVars>>
    BY <1>1, Zenon DEF Engineer
  <2>2. PICK to : stage' = [stage EXCEPT ![a][p] = to]
    BY <2>1, Zenon DEF EngineerStep, TestPrepare, Promise, Reject, SeeAccepted, CopySlot,
                       CopyOrder, TestAccept, AcceptNumber, AcceptSlot, AcceptOrder, Move
  <2>3. \A s \in Server : s # a => stage'[s] = stage[s]
    BY <2>2 DEF AcceptorTypeOK
  <2> QED
    BY <2>1, <2>3 DEF Started
<1>2. ASSUME NEW a \in Server, NEW p \in Proposer, Learn(a, p)
      PROVE  UNCHANGED <<scoutVars, stubVars, orderVars>> /\ Lives
  BY <1>2 DEF Learn, acceptorVars, Started
<1>3. ASSUME NEW s \in Server, Start(s)
      PROVE  UNCHANGED <<scoutVars, stubVars, orderVars>> /\ Lives
  BY <1>3 DEF Start, acceptorVars, Started
<1>4. ASSUME NEW s \in Server, Die(s), UNCHANGED starting
      PROVE  UNCHANGED <<scoutVars, stubVars, orderVars>> /\ Lives
  <2>1. stage' = [stage EXCEPT ![s] =
                    [p \in Proposer |-> IF stage[s][p] = "replied" THEN "replied" ELSE "idle"]]
    BY <1>4 DEF Die
  <2>2. \A b \in Server, p \in Proposer : stage'[b][p] = "replied" => stage[b][p] = "replied"
    BY <2>1 DEF AcceptorTypeOK
  <2>3. alive' = [alive EXCEPT ![s] = FALSE] /\ UNCHANGED <<scoutVars, stubVars, orderVars>>
    BY <1>4 DEF Die
  <2>4. \A b \in Server : alive'[b] => alive[b]
    BY <2>3
  <2> QED
    BY <1>4, <2>2, <2>3, <2>4, LateAssumption DEF Started
<1>5. CASE UNCHANGED vars
  BY <1>5 DEF vars, acceptorVars, Started
<1>6. \/ \E p \in Proposer : ScoutStep(p)
      \/ \E a \in Server, p \in Proposer : Engineer(a, p) \/ Learn(a, p)
      \/ \E s \in Server : Start(s) \/ (Die(s) /\ UNCHANGED starting)
      \/ UNCHANGED vars
  BY ProposerAssumption, Zenon DEF Next, Crash, BrokenPipe, Terminating
<1> QED
  BY <1>1, <1>2, <1>3, <1>4, <1>5, <1>6

LEMMA LivesKeep ==
  ASSUME CoreTypeOK, StubInv, PipeInv, AlarmInv,
         UNCHANGED <<scoutVars, stubVars, orderVars>>, Lives
  PROVE  StubInv' /\ PipeInv' /\ AlarmInv'
<1> USE DEF scoutVars, stubVars, orderVars, Lives
<1>1. StubInv'
  BY DEF StubInv, Started, StubOK, Tried, Current
<1>2. ASSUME NEW p \in Proposer, NEW l \in Server \ Late PROVE PipeOK(p, l)'
  <2>1. PipeOK(p, l) /\ l \notin starting
    BY DEF PipeInv, StubInv, Started
  <2> QED
    BY <2>1 DEF PipeOK
<1>3. ASSUME NEW p \in Proposer PROVE CountOK(p)' /\ AlarmOK(p)'
  <2>1. CountOK(p) /\ AlarmOK(p) /\ StubOK(p) /\ Started
    BY DEF AlarmInv, StubInv
  <2>2. CountOK(p)'
    BY <2>1 DEF CountOK, Kept
  <2>3. Unreachable(p) \subseteq Unreachable(p)'
    BY <2>1 DEF Unreachable, StubOK, Started
  <2>4. /\ Unreachable(p) \in SUBSET Server /\ Unreachable(p)' \in SUBSET Server
        /\ Server \in SUBSET Server
    BY DEF Unreachable
  <2>5. Cardinality(Unreachable(p)) <= Cardinality(Unreachable(p)')
    BY <2>3, <2>4, Grows
  <2>6. /\ Cardinality(Unreachable(p)) \in Nat /\ Cardinality(Unreachable(p)') \in Nat
        /\ Cardinality(Server) \in Nat
    BY <2>4, Finite
  <2>7. ASSUME NEW i \in 1 .. MaxOrders, answer'[<<p, i>>] = "unavailable"
        PROVE  scoutInit'[p] /\ 2 * Cardinality(Unreachable(p)') >= Cardinality(Server)
    <3>1. scoutInit[p] /\ 2 * Cardinality(Unreachable(p)) >= Cardinality(Server)
      BY <2>1, <2>7 DEF AlarmOK
    <3> QED
      BY <2>5, <2>6, <3>1
  <2> QED
    BY <2>2, <2>7 DEF AlarmOK
<1> QED
  BY <1>1, <1>2, <1>3 DEF PipeInv, AlarmInv

LEMMA ConnectionStep ==
  ASSUME CoreTypeOK, CoreTypeOK', PromiseInv, StubInv, PipeInv, AlarmInv, [Next]_vars
  PROVE  StubInv' /\ PipeInv' /\ AlarmInv'
<1>1. ASSUME NEW p \in Proposer, ScoutStep(p) PROVE StubInv' /\ PipeInv' /\ AlarmInv'
  <2>1. ScoutMove(p) /\ Apart(p) /\ AnswersSame(p) /\ UNCHANGED <<starting, alive>>
    BY <1>1, Moves
  <2>2. StubInv'
    BY <2>1, StubMoves
  <2>3. PipeInv'
    BY <2>1, PipeMoves
  <2>4. \A q \in Proposer : AlarmOK(q)'
    BY <2>1, AlarmMoves
  <2>5. CountOK(p)'
    BY <2>1, CountMoves DEF AlarmInv
  <2>6. ASSUME NEW q \in Proposer \ {p} PROVE CountOK(q)'
    BY <2>1, <2>6 DEF AlarmInv, CountOK, Kept, Apart, SameStubs
  <2> QED
    BY <2>2, <2>3, <2>4, <2>5, <2>6 DEF AlarmInv
<1>2. CASE UNCHANGED <<scoutVars, stubVars, orderVars>> /\ Lives
  BY <1>2, LivesKeep
<1> QED
  BY <1>1, <1>2, OtherSteps DEF StubInv

LEMMA ConnectionInvariant == Spec => [](StubInv /\ PipeInv /\ AlarmInv)
<1>1. Init => StubInv /\ PipeInv /\ AlarmInv
  <2> SUFFICES ASSUME Init PROVE StubInv /\ PipeInv /\ AlarmInv
    OBVIOUS
  <2> USE LateAssumption DEF Init, LaptopInit
  <2>1. StubInv
    BY DEF StubInv, Started, StubOK, Tried, Current
  <2>2. PipeInv
    BY DEF PipeInv, PipeOK
  <2>3. AlarmInv
    BY DEF AlarmInv, CountOK, AlarmOK, Order
  <2> QED
    BY <2>1, <2>2, <2>3
<1>2. CoreTypeOK /\ CoreTypeOK' /\ PromiseInv /\ (StubInv /\ PipeInv /\ AlarmInv) /\ [Next]_vars
        => (StubInv /\ PipeInv /\ AlarmInv)'
  BY ConnectionStep
<1> QED
  BY <1>1, <1>2, CoreType, PromiseInvariant, PTL DEF Spec

(***************************************************************************)
(* What the scouts believe about their connections to the acceptors: a     *)
(* closed one was to a server that has died, an entry that is missing was  *)
(* of a server that has died or that came late, and the acceptor whose     *)
(* reply is awaited is still connected.                                    *)
(***************************************************************************)
THEOREM StubInvariant == Spec => []StubInv
BY ConnectionInvariant, PTL

(***************************************************************************)
(* A scout whose process ends by SIGPIPE was about to use a connection of  *)
(* the kinds that SurvivesPeers excepts: by PipeInv the loop of the        *)
(* commander finds no other that is reset.  It stays there.                *)
(***************************************************************************)
Ended(p) ==
  \E s \in todo[p] :
    /\ \A b \in todo[p] : s <= b
    /\ \/ "unheard" \in {scoutStub[p][s], learnerStub[p][s]}
       \/ s \in Late /\ learnerStub[p][s] = "reset"

LEMMA ScoutAlive ==
  ASSUME NEW p \in Proposer, ScoutStep(p)
  PROVE  alive[p]
<1>1. CASE \/ TakeOrder(p) \/ AcceptorsConnected(p) \/ PrepareUnavailable(p) \/ NextRound(p)
           \/ ProposeOwn(p) \/ ProposeSystem(p)
  BY <1>1, Zenon DEF TakeOrder, AcceptorsConnected, PrepareUnavailable, NextRound, Rejected,
                     ProposeOwn, ProposeSystem, Prepared, Done
<1>2. CASE \/ StartCommander(p) \/ Restart(p) \/ GiveUpOwn(p) \/ AcceptUnavailable(p)
           \/ LearnersConnected(p) \/ AnswerOk(p)
  BY <1>2, Zenon DEF StartCommander, Restart, GiveUpOwn, AcceptUnavailable,
                     LearnersConnected, AnswerOk, Done
<1>3. ASSUME NEW s \in Server,
             \/ ConnectAcceptor(p, s) \/ IdentifyAcceptor(p, s)
             \/ SendP1a(p, s) \/ P1aFails(p, s) \/ RecvP1b(p, s)
             \/ SendP2a(p, s) \/ P2aFails(p, s) \/ RecvP2b(p, s)
             \/ ConnectLearner(p, s) \/ IdentifyLearner(p, s)
             \/ SendLearn(p, s) \/ SendLearnFails(p, s)
      PROVE  alive[p]
  BY <1>3, Zenon DEF ConnectAcceptor, IdentifyAcceptor, SendP1a, P1aFails, RecvP1b, SendP2a,
                     P2aFails, RecvP2b, ConnectLearner, IdentifyLearner, SendLearn,
                     SendLearnFails, At
<1> QED
  BY <1>1, <1>2, <1>3, Zenon DEF ScoutStep

LEMMA SurvivesStep ==
  ASSUME CoreTypeOK, StubInv, PipeInv, SurvivesPeers, [Next]_vars
  PROVE  SurvivesPeers'
<1> SUFFICES ASSUME NEW p \in Proposer, p \notin Crashable, p \notin starting'
             PROVE  alive'[p] \/ Ended(p)'
  BY DEF SurvivesPeers, Ended
<1> USE DEF CoreTypeOK, ScoutTypeOK
<1>1. p \in Server /\ (p \in starting \/ alive[p] \/ Ended(p))
  BY ProposerAssumption DEF SurvivesPeers, Ended
<1>2. CASE UNCHANGED <<starting, alive, todo, stubVars>>
  BY <1>1, <1>2 DEF Ended, stubVars
<1>3. ASSUME NEW q \in Proposer, ScoutStep(q) PROVE alive'[p] \/ Ended(p)'
  <2>1. Apart(q) /\ UNCHANGED <<starting, alive>> /\ alive[q]
    BY <1>3, Moves, ScoutAlive
  <2>2. CASE p = q
    BY <2>1, <2>2
  <2>3. CASE p # q
    <3>1. todo'[p] = todo[p] /\ SameStubs(p)
      BY <2>1, <2>3 DEF Apart
    <3> QED
      BY <1>1, <2>1, <3>1 DEF Ended, SameStubs
  <2> QED
    BY <2>2, <2>3
<1>4. ASSUME NEW s \in Server, Die(s), UNCHANGED starting, s = p => Ended(p)
      PROVE  alive'[p] \/ Ended(p)'
  <2>1. alive' = [alive EXCEPT ![s] = FALSE] /\ UNCHANGED <<todo, stubVars>>
    BY <1>4 DEF Die, scoutVars
  <2> QED
    BY <1>1, <1>4, <2>1 DEF Ended, stubVars
<1>5. ASSUME BrokenPipe(p) PROVE Ended(p)
  <2>1. PICK s \in Server :
          \/ At(p, "prepare", s) /\ scoutStub[p][s] = "unheard"
          \/ At(p, "learn", s) /\ learnerStub[p][s] \in {"unheard", "reset"}
    BY <1>5 DEF BrokenPipe
  <2>2. ASSUME At(p, "learn", s), learnerStub[p][s] = "reset" PROVE s \in Late
    BY <2>2 DEF At, PipeInv, PipeOK
  <2> QED
    BY <2>1, <2>2 DEF At, Ended
<1>6. ASSUME NEW q \in Proposer, BrokenPipe(q) PROVE alive'[p] \/ Ended(p)'
  <2>1. q \in Server /\ Die(q) /\ UNCHANGED starting
    BY <1>6, ProposerAssumption DEF BrokenPipe
  <2> QED
    BY <1>4, <1>5, <1>6, <2>1
<1>7. ASSUME NEW s \in Server, Crash(s) PROVE alive'[p] \/ Ended(p)'
  BY <1>4, <1>7 DEF Crash
<1>8. ASSUME NEW s \in Server, Start(s) PROVE alive'[p] \/ Ended(p)'
  <2>1. /\ starting' = starting \ {s} /\ alive' = [alive EXCEPT ![s] = TRUE]
        /\ UNCHANGED <<todo, stubVars>>
    BY <1>8 DEF Start, scoutVars
  <2> QED
    BY <1>1, <2>1 DEF Ended, stubVars
<1>9. ASSUME NEW a \in Server, NEW q \in Proposer, Engineer(a, q) \/ Learn(a, q)
      PROVE  UNCHANGED <<starting, alive, todo, stubVars>>
  BY <1>9, Zenon DEF Engineer, Learn, scoutVars
<1>10. CASE UNCHANGED vars
  BY <1>2, <1>10 DEF vars, scoutVars
<1>11. \/ \E q \in Proposer : ScoutStep(q) \/ BrokenPipe(q)
       \/ \E a \in Server, q \in Proposer : Engineer(a, q) \/ Learn(a, q)
       \/ \E s \in Server : Start(s) \/ Crash(s)
       \/ UNCHANGED vars
  BY Zenon DEF Next, Terminating
<1> QED
  BY <1>2, <1>3, <1>6, <1>7, <1>8, <1>9, <1>10, <1>11, Zenon

(***************************************************************************)
(* The end of a peer ends a scout's process only between Init and          *)
(* Identify, or if the peer started late.                                  *)
(***************************************************************************)
THEOREM SurvivesPeersTheorem == Spec => []SurvivesPeers
<1>1. Init => SurvivesPeers
  BY ProposerAssumption DEF Init, LaptopInit, SurvivesPeers
<1>2. CoreTypeOK /\ (StubInv /\ PipeInv /\ AlarmInv) /\ SurvivesPeers /\ [Next]_vars
        => SurvivesPeers'
  BY SurvivesStep
<1> QED
  BY <1>1, <1>2, ConnectionInvariant, CoreType, PTL DEF Spec

(***************************************************************************)
(* A customer is told that too few acceptors are active only when no       *)
(* majority can be reached.                                                *)
(***************************************************************************)
THEOREM NoFalseAlarmTheorem == Spec => []NoFalseAlarm
<1>1. AlarmInv => NoFalseAlarm
  BY DEF AlarmInv, AlarmOK, NoFalseAlarm, Order
<1> QED
  BY <1>1, ConnectionInvariant, PTL
=============================================================================
