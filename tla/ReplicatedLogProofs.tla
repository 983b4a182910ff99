-------------------------- MODULE ReplicatedLogProofs --------------------------
(***************************************************************************)
(* LaptopPaxos with one proposer, for any servers, orders, crashes and     *)
(* late starts: the servers implement the one log of ReplicatedLog, and    *)
(* every line of a factory log is the command of its slot.                 *)
(***************************************************************************)
EXTENDS OneProposerProofs

LEMMA ChosenKnown ==
  ASSUME NEW c, Chosen(c), NEW p \in Proposer
  PROVE  c \in ChosenCommands /\ c \in Known(p)
<1>1. PICK v \in votes : v.cmd = c /\ ChosenIn(v.number, c)
  BY DEF Chosen
<1>2. c \in ChosenCommands
  BY <1>1 DEF ChosenCommands
<1>3. c \in Known(p)
  BY <1>1 DEF Known
<1> QED
  BY <1>2, <1>3

\* Two commands that were chosen have two slots.
LEMMA ChosenUnique ==
  ASSUME LeaderInv, NEW p \in Proposer, NEW c, NEW d, Chosen(c), Chosen(d), c.slot = d.slot
  PROVE  c = d
BY ChosenKnown DEF LeaderInv, LeaderOK, CommandsOK
-----------------------------------------------------------------------------
(***************************************************************************)
(* The refinement: the vote that makes a majority gives a command its      *)
(* slot, and a learner backs up a command that has one.                    *)
(***************************************************************************)
LEMMA SameLog ==
  ASSUME UNCHANGED <<votes, decisionMap>>
  PROVE  UNCHANGED <<ChosenCommands, decisionMap>>
BY DEF ChosenCommands, ChosenIn, Voters, Half

LEMMA VoteChooses ==
  ASSUME CoreTypeOK, PromiseInv, StubInv, LeaderInv, NEW a \in Server, NEW p \in Proposer,
         Engineer(a, p), AcceptOrder(a, p)
  PROVE  [RLog!Next]_<<ChosenCommands, decisionMap>>
<1> DEFINE n == proposalNumber[p]
           c == ballot[p].cmd
           v == [acceptor |-> a, number |-> n, cmd |-> c]
<1>1. /\ votes' = votes \cup {v}
      /\ decisionMap' = decisionMap
      /\ pc[p] = "p2b"
  <2>1. stage[a][p] = "acceptOrder" /\ StageOK(a, p)
    BY EngineerFacts DEF AcceptOrder, Move
  <2>2. request[a][p] = MessageOf(p) /\ pc[p] = "p2b" /\ decisionMap' = decisionMap
    BY <2>1, EngineerFacts DEF StageOK
  <2>3. request[a][p].number = n /\ request[a][p].cmd = c
    BY <2>2 DEF MessageOf, P2a, NoMsg
  <2> QED
    BY <2>2, <2>3 DEF AcceptOrder
<1>2. c \in Known(p)
  BY <1>1 DEF Known, Accepting
<1>3. c \in Entry
  <2>1. c \in Command
    BY DEF CoreTypeOK, ScoutTypeOK, Ballot
  <2>2. c.slot \in 1 .. Cardinality(Order)
    BY <1>2 DEF LeaderInv, LeaderOK, CommandsOK, CommandOK
  <2> QED
    BY <2>1, <2>2 DEF Entry, Command
<1>4. ChosenCommands \subseteq ChosenCommands'
  <2>1. \A m, d : ChosenIn(m, d) => ChosenIn(m, d)'
    BY <1>1, VotersGrow
  <2> QED
    BY <1>1, <2>1 DEF ChosenCommands
<1>5. ASSUME NEW d \in ChosenCommands' PROVE d \in ChosenCommands \cup {c}
  <2>1. PICK w \in votes' : w.cmd = d /\ ChosenIn(w.number, w.cmd)'
    BY <1>5 DEF ChosenCommands
  <2>2. CASE w.number = n /\ w.cmd = c
    BY <2>1, <2>2
  <2>3. CASE ~(w.number = n /\ w.cmd = c)
    <3>1. w \in votes
      BY <1>1, <2>1, <2>3
    <3>2. Voters(w.number, w.cmd)' = Voters(w.number, w.cmd)
      <4>1. \A b \in Server : [acceptor |-> b, number |-> w.number, cmd |-> w.cmd] # v
        BY <2>3
      <4> QED
        BY <1>1, <4>1 DEF Voters
    <3>3. ChosenIn(w.number, w.cmd)
      BY <2>1, <3>2 DEF ChosenIn, Half
    <3> QED
      BY <2>1, <3>1, <3>3 DEF ChosenCommands
  <2> QED
    BY <2>2, <2>3
<1>6. CASE c \in ChosenCommands \/ c \notin ChosenCommands'
  <2>1. ChosenCommands' = ChosenCommands
    BY <1>4, <1>5, <1>6
  <2> QED
    BY <1>1, <2>1
<1>7. CASE c \notin ChosenCommands /\ c \in ChosenCommands'
  <2>1. ChosenCommands' = ChosenCommands \cup {c}
    BY <1>4, <1>5, <1>7
  <2>2. ASSUME NEW d \in ChosenCommands PROVE d.slot # c.slot
    <3>1. d \in Known(p)
      BY DEF ChosenCommands, Known
    <3> QED
      BY <1>2, <1>7, <3>1 DEF LeaderInv, LeaderOK, CommandsOK
  <2>3. RLog!Choose(c)
    BY <1>1, <2>1, <2>2 DEF RLog!Choose
  <2> QED
    BY <1>3, <2>3 DEF RLog!Next
<1> QED
  BY <1>6, <1>7

LEMMA LearnBacks ==
  ASSUME CoreTypeOK, LP!TypeOK, LearnedIsChosen, LeaderInv, NEW l \in Server,
         NEW p \in Proposer, Learn(l, p)
  PROVE  [RLog!Next]_<<ChosenCommands, decisionMap>>
<1> DEFINE c == Head(learnq[p][l])
           M == decisionMap[l]
<1>1. /\ learnq[p][l] \in Seq(Command) /\ learnq[p][l] # <<>>
      /\ decisionMap' = [decisionMap EXCEPT ![l] = LP!Store(M, c)]
  BY LearnStores
<1>2. votes' = votes
  BY DEF Learn, acceptorVars
<1>3. Chosen(c)
  <2>1. c = learnq[p][l][1] /\ 1 \in 1 .. Len(learnq[p][l])
    BY <1>1
  <2> QED
    BY <2>1 DEF LearnedIsChosen
<1>4. ASSUME NEW d \in M, d.slot = c.slot PROVE d = c
  BY <1>3, <1>4, ChosenUnique DEF LearnedIsChosen
<1>5. LP!Store(M, c) = M \cup {c}
  BY <1>4 DEF LP!Store
<1>6. UNCHANGED ChosenCommands
  BY <1>2 DEF ChosenCommands, ChosenIn, Voters, Half
<1>7. c \in ChosenCommands
  BY <1>3, ChosenKnown
<1>8. RLog!Back(l, c)
  BY <1>1, <1>5, <1>6, <1>7 DEF RLog!Back
<1> QED
  BY <1>7, <1>8 DEF RLog!Next

LEMMA LogStep ==
  ASSUME CoreTypeOK, PromiseInv, StubInv, LP!TypeOK, LearnedIsChosen, LeaderInv, [Next]_vars
  PROVE  [RLog!Next]_<<ChosenCommands, decisionMap>>
<1>1. ASSUME NEW p \in Proposer, ScoutStep(p) PROVE UNCHANGED <<votes, decisionMap>>
  BY <1>1, ScoutAccepts, ScoutLearns
<1>2. ASSUME NEW a \in Server, NEW p \in Proposer, Engineer(a, p)
      PROVE  AcceptOrder(a, p) \/ UNCHANGED <<votes, decisionMap>>
  BY <1>2 DEF Engineer, learnVars, EngineerStep, TestPrepare, Promise, Reject, SeeAccepted,
              CopySlot, CopyOrder, TestAccept, AcceptNumber, AcceptSlot
<1>3. ASSUME NEW s \in Server, Die(s) \/ Start(s) PROVE UNCHANGED <<votes, decisionMap>>
  BY <1>3 DEF Die, Start, acceptorVars, learnVars
<1>4. CASE UNCHANGED vars
  BY <1>4, SameLog DEF vars, acceptorVars, learnVars
<1> QED
  BY <1>1, <1>2, <1>3, <1>4, VoteChooses, LearnBacks, SameLog, EveryStep

(***************************************************************************)
(* With one proposer the servers implement the one replicated log: a slot  *)
(* is given to one command, for good, and a server learns only commands    *)
(* that have their slot (the paragraph above class Command, Messages.h).   *)
(***************************************************************************)
THEOREM LogTheorem == ASSUME OneProposer PROVE Spec => ImplementsReplicatedLog
<1>1. Init => RLog!Init
  BY DEF Init, AcceptorInit, LaptopInit, RLog!Init, ChosenCommands
<1>2. /\ CoreTypeOK /\ PromiseInv /\ StubInv /\ LP!TypeOK /\ LearnedIsChosen /\ LeaderInv
      /\ [Next]_vars
      => [RLog!Next]_<<ChosenCommands, decisionMap>>
  BY LogStep
<1> QED
  BY <1>1, <1>2, CoreType, PromiseInvariant, StubInvariant, LearnerInvariants,
     LearnedIsChosenTheorem, LeaderInvariant, PTL
     DEF Spec, ImplementsReplicatedLog, RLog!Spec

(***************************************************************************)
(* With one proposer, two servers that know a slot know the same command   *)
(* for it: the disagreement that two proposers can bring about takes two.  *)
(***************************************************************************)
THEOREM AgreeTheorem == ASSUME OneProposer PROVE Spec => []ReplicasAgree
<1>1. CoreTypeOK /\ PromiseInv /\ LearnedIsChosen /\ LeaderInv => ReplicasAgree
  <2> SUFFICES ASSUME CoreTypeOK, PromiseInv, LearnedIsChosen, LeaderInv,
                      NEW l \in Server, NEW m \in Server, NEW c \in decisionMap[l],
                      NEW d \in decisionMap[m], c.slot = d.slot
               PROVE  c = d
    BY DEF ReplicasAgree
  <2>1. Chosen(c) /\ Chosen(d)
    BY DEF LearnedIsChosen
  <2>2. PICK p \in Proposer : TRUE
    <3>1. PICK v \in votes : v.cmd = c
      BY <2>1 DEF Chosen
    <3>2. PICK q \in promises : q.acceptor = v.acceptor
      BY DEF PromiseInv, PromiseBeforeVote
    <3>3. q \in PromiseMade
      BY DEF CoreTypeOK, AcceptorTypeOK
    <3>4. q.proposer \in Proposer
      BY <3>3, SMTT(30) DEF PromiseMade
    <3> QED
      BY <3>4
  <2> QED
    BY <2>1, <2>2, ChosenUnique
<1> QED
  BY <1>1, CoreType, PromiseInvariant, LearnedIsChosenTheorem, LeaderInvariant, PTL
-----------------------------------------------------------------------------
(***************************************************************************)
(* The learners.  Each server's queue fills its slots without a gap, and   *)
(* what the scout's own server knows has been sent to all that are         *)
(* connected.  So a learn message adds at most the line of its own slot.   *)
(***************************************************************************)
Queued(p, l) == {learnq[p][l][i].slot : i \in 1 .. Len(learnq[p][l])}

\* The slots that l knows or is going to know.
Reached(p, l) == LP!Slots(decisionMap[l]) \cup Queued(p, l)

InOrder(p, l) ==
  \A i \in 1 .. Len(learnq[p][l]) : \A s \in 1 .. (learnq[p][l][i].slot - 1) :
    s < slot_out[l] \/ \E j \in 1 .. (i - 1) : learnq[p][l][j].slot = s

QueueOK(p, l) ==
  /\ slot_out[l] >= 1
  /\ \A s \in LP!Slots(decisionMap[l]) : s < slot_out[l]
  /\ InOrder(p, l)

SentOK(p, l) ==
  /\ ~learnerInit[p] => decisionMap[l] = {} /\ learnq[p][l] = <<>>
  /\ learnerStub[p][l] # "none" => l \notin starting
  /\ alive[l] /\ learnerStub[p][l] = "open" =>
       IF pc[p] = "learn"
       THEN /\ Reached(p, p) \subseteq Reached(p, l) \cup {ballot[p].cmd.slot}
            /\ l \notin todo[p] => ballot[p].cmd.slot \in Reached(p, l)
       ELSE Reached(p, p) \subseteq Reached(p, l)

CommanderOK(p) ==
  /\ pc[p] = "connectLearners" => ~learnerInit[p]
  /\ pc[p] = "learn" => learnerInit[p]

LinesOK(l) ==
  \A i \in 1 .. Len(factoryLog[l]) :
    LET line == factoryLog[l][i]
    IN  line.cmd.slot = line.slot /\ line.cmd \in decisionMap[l]

DeliveryInv ==
  /\ \A p \in Proposer : CommanderOK(p) /\ \A l \in Server : QueueOK(p, l) /\ SentOK(p, l)
  /\ \A l \in Server : LinesOK(l)

(***************************************************************************)
(* A learn message is the one for the next slot, which adds its line, or   *)
(* one that has been learned before, which adds none.                      *)
(***************************************************************************)
LEMMA LearnsNext ==
  ASSUME CoreTypeOK, LP!TypeOK, LP!PrefixDecided, LearnedIsChosen, LeaderInv,
         NEW l \in Server, NEW p \in Proposer, QueueOK(p, l), Learn(l, p)
  PROVE  LET c == Head(learnq[p][l])
         IN  /\ learnq[p][l] \in Seq(Command) /\ learnq[p][l] # <<>>
             /\ c \in Command /\ c.slot \in Int
             /\ learnq' = [learnq EXCEPT ![p][l] = Tail(learnq[p][l])]
             /\ decisionMap' = [decisionMap EXCEPT ![l] = decisionMap[l] \cup {c}]
             /\ c.slot <= slot_out[l]
             /\ slot_out' = [slot_out EXCEPT ![l] = IF c.slot = slot_out[l] THEN slot_out[l] + 1
                                                                            ELSE slot_out[l]]
             /\ factoryLog' = [factoryLog EXCEPT ![l] =
                  factoryLog[l] \o LP!Lines(c, slot_out[l], slot_out'[l] - slot_out[l])]
<1> DEFINE q == learnq[p][l]
           c == Head(q)
           M == decisionMap[l]
           n == slot_out[l]
<1>1. /\ q \in Seq(Command) /\ q # <<>> /\ c \in Command /\ c = q[1]
      /\ decisionMap' = [decisionMap EXCEPT ![l] = LP!Store(M, c)]
  BY LearnStores
<1>2. learnq' = [learnq EXCEPT ![p][l] = Tail(q)]
  BY DEF Learn
<1>3. /\ M \in SUBSET Command /\ n \in Int
      /\ decisionMap \in [Server -> SUBSET Command] /\ slot_out \in [Server -> Int]
  BY DEF LP!TypeOK
<1>4. 1 \in 1 .. Len(q)
  BY <1>1
<1>5. Chosen(c) /\ \A d \in M : Chosen(d)
  BY <1>1, <1>4 DEF LearnedIsChosen
<1>6. c.slot \in 1 .. Cardinality(Order) /\ c.slot \in Int
  BY <1>5, ChosenKnown, OrdersFinite DEF LeaderInv, LeaderOK, CommandsOK, CommandOK
<1>7. LP!Store(M, c) = M \cup {c}
  BY <1>5, ChosenUnique DEF LP!Store
<1>8. c.slot <= n
  <2> SUFFICES ASSUME c.slot > n PROVE FALSE
    BY <1>3, <1>6
  <2>1. n \in 1 .. (q[1].slot - 1) /\ n \in 1 .. (c.slot - 1)
    BY <1>1, <1>3, <1>6 DEF QueueOK
  <2>2. ~(\E j \in 1 .. (1 - 1) : q[j].slot = n)
    OBVIOUS
  <2> QED
    BY <1>3, <1>4, <2>1, <2>2 DEF QueueOK, InOrder
<1>9. PICK g \in LP!LoopRange(LP!Store(M, c), n) :
        /\ LP!IsFirstGap(LP!Store(M, c), n, g)
        /\ slot_out' = [slot_out EXCEPT ![l] = g]
        /\ factoryLog' = [factoryLog EXCEPT ![l] = factoryLog[l] \o LP!Lines(c, n, g - n)]
  BY DEF Learn, L!Learn, L!Store, LP!Store, L!LoopRange, LP!LoopRange, L!IsFirstGap,
         LP!IsFirstGap, L!Slots, LP!Slots, L!Lines, LP!Lines
<1>10. LP!Slots(LP!Store(M, c)) = LP!Slots(M) \cup {c.slot}
  BY <1>7 DEF LP!Slots
<1>11. \A s \in LP!Slots(M) : s \in Int /\ s < n
  BY <1>3 DEF QueueOK, LP!Slots, Command
<1>12. g = IF c.slot = n THEN n + 1 ELSE n
  <2>1. g \in Int /\ n <= g /\ g <= n + 1
    <3>1. \A s \in LP!Slots(LP!Store(M, c)) : s \in Int /\ s <= n
      BY <1>3, <1>6, <1>8, <1>10, <1>11
    <3>2. g = n \/ \E s \in LP!Slots(LP!Store(M, c)) : g = s + 1
      BY <1>9 DEF LP!LoopRange
    <3>3. n <= g
      BY <1>9 DEF LP!IsFirstGap
    <3> QED
      BY <1>3, <3>1, <3>2, <3>3
  <2>2. CASE c.slot = n
    <3>1. n \in LP!Slots(LP!Store(M, c)) /\ g \notin LP!Slots(LP!Store(M, c))
      BY <1>9, <1>10, <2>2 DEF LP!IsFirstGap
    <3> QED
      BY <1>3, <2>1, <2>2, <3>1
  <2>3. CASE c.slot # n
    <3>1. n \notin LP!Slots(M) \cup {c.slot}
      BY <1>11, <2>3
    <3>2. n \notin n .. (g - 1)
      BY <1>9, <1>10, <3>1 DEF LP!IsFirstGap
    <3> QED
      BY <1>3, <2>1, <2>3, <3>2
  <2> QED
    BY <2>2, <2>3
<1>13. slot_out'[l] = g
  BY <1>3, <1>9
<1> QED
  BY <1>1, <1>2, <1>6, <1>7, <1>8, <1>9, <1>12, <1>13, Zenon

LEMMA LearnDelivers ==
  ASSUME OneProposer, CoreTypeOK, LP!TypeOK, LP!PrefixDecided, LearnedIsChosen, LeaderInv,
         DeliveryInv, NEW l \in Server, NEW p \in Proposer, Learn(l, p)
  PROVE  DeliveryInv'
<1> DEFINE q == learnq[p][l]
           c == Head(q)
<1>1. /\ q \in Seq(Command) /\ q # <<>>
      /\ c \in Command /\ c.slot \in Int
      /\ learnq' = [learnq EXCEPT ![p][l] = Tail(q)]
      /\ decisionMap' = [decisionMap EXCEPT ![l] = decisionMap[l] \cup {c}]
      /\ c.slot <= slot_out[l]
      /\ slot_out' = [slot_out EXCEPT ![l] = IF c.slot = slot_out[l] THEN slot_out[l] + 1
                                                                     ELSE slot_out[l]]
      /\ factoryLog' = [factoryLog EXCEPT ![l] =
           factoryLog[l] \o LP!Lines(c, slot_out[l], slot_out'[l] - slot_out[l])]
  BY LearnsNext DEF DeliveryInv
<1>2. /\ UNCHANGED <<starting, alive, scoutVars, stubVars>>
      /\ \A r \in Proposer : r = p
  BY DEF Learn, OneProposer
<1>3. /\ decisionMap \in [Server -> SUBSET Command]
      /\ slot_out \in [Server -> Int]
      /\ learnq \in [Proposer -> [Server -> Seq(Command)]]
      /\ factoryLog \in [Server -> Seq(LP!LogLine)]
  BY DEF LP!TypeOK, CoreTypeOK, ScoutTypeOK
<1>4. learnq'[p][l] = Tail(q) /\ \A k \in Server \ {l} : learnq'[p][k] = learnq[p][k]
  BY <1>1, <1>3
<1>5. /\ decisionMap'[l] = decisionMap[l] \cup {c}
      /\ \A k \in Server \ {l} : decisionMap'[k] = decisionMap[k]
  BY <1>1, <1>3
<1>6. /\ slot_out'[l] = IF c.slot = slot_out[l] THEN slot_out[l] + 1 ELSE slot_out[l]
      /\ slot_out[l] \in Int /\ slot_out[l] <= slot_out'[l] /\ c.slot < slot_out'[l]
      /\ \A k \in Server \ {l} : slot_out'[k] = slot_out[k]
  BY <1>1, <1>3
<1>7. /\ Len(q) \in Nat /\ Len(Tail(q)) = Len(q) - 1 /\ q[1] = c
      /\ \A i \in 1 .. Len(Tail(q)) : i + 1 \in 2 .. Len(q) /\ Tail(q)[i] = q[i + 1]
      /\ \A j \in 2 .. Len(q) : j - 1 \in 1 .. Len(Tail(q)) /\ Tail(q)[j - 1] = q[j]
  <2> HIDE DEF q
  <2> QED
    BY <1>1, SMTT(30) DEF q
<1>8. \A k \in Server : QueueOK(p, k)'
  <2> SUFFICES ASSUME NEW k \in Server PROVE QueueOK(p, k)'
    OBVIOUS
  <2>1. QueueOK(p, k)
    BY DEF DeliveryInv
  <2>2. CASE k # l
    BY <2>1, <2>2, <1>4, <1>5, <1>6, SMTT(30) DEF QueueOK, InOrder, LP!Slots
  <2>3. CASE k = l
    <3>1. slot_out'[l] >= 1
      BY <1>6, <2>1, <2>3 DEF QueueOK
    <3>2. \A s \in LP!Slots(decisionMap'[l]) : s < slot_out'[l]
      <4>1. \A d \in decisionMap[l] : d.slot \in Int /\ d.slot < slot_out[l]
        BY <1>3, <2>1, <2>3 DEF QueueOK, LP!Slots, Command
      <4> QED
        BY <1>5, <1>6, <4>1 DEF LP!Slots
    <3>3. ASSUME NEW i \in 1 .. Len(Tail(q)), NEW s \in 1 .. (Tail(q)[i].slot - 1)
          PROVE  s < slot_out'[l] \/ \E j \in 1 .. (i - 1) : Tail(q)[j].slot = s
      <4>1. s < slot_out[l] \/ \E j \in 1 .. i : q[j].slot = s
        <5>1. i + 1 \in 1 .. Len(q) /\ s \in 1 .. (q[i + 1].slot - 1) /\ (i + 1) - 1 = i
          BY <1>7, <3>3
        <5> QED
          BY <2>1, <2>3, <5>1 DEF QueueOK, InOrder
      <4>2. CASE s < slot_out[l]
        BY <1>6, <3>3, <4>2
      <4>3. ASSUME NEW j \in 1 .. i, q[j].slot = s
            PROVE  s < slot_out'[l] \/ \E m \in 1 .. (i - 1) : Tail(q)[m].slot = s
        <5>1. CASE j = 1
          BY <1>6, <1>7, <4>3, <5>1
        <5>2. CASE j # 1
          <6>1. j \in 2 .. Len(q) /\ j - 1 \in 1 .. (i - 1)
            BY <1>7, <5>2
          <6> QED
            BY <1>7, <4>3, <6>1
        <5> QED
          BY <5>1, <5>2
      <4> QED
        BY <4>1, <4>2, <4>3
    <3>4. InOrder(p, l)'
      BY <1>4, <3>3 DEF InOrder
    <3> QED
      BY <2>3, <3>1, <3>2, <3>4 DEF QueueOK
  <2> QED
    BY <2>2, <2>3
<1>9. \A k \in Server : Reached(p, k)' = Reached(p, k)
  <2> SUFFICES ASSUME NEW k \in Server PROVE Reached(p, k)' = Reached(p, k)
    OBVIOUS
  <2>1. CASE k # l
    BY <2>1, <1>4, <1>5 DEF Reached, Queued, LP!Slots
  <2>2. CASE k = l
    <3>1. LP!Slots(decisionMap[l])' = LP!Slots(decisionMap[l]) \cup {c.slot}
      BY <1>5 DEF LP!Slots
    <3>2. Queued(p, l) = {c.slot} \cup {Tail(q)[i].slot : i \in 1 .. Len(Tail(q))}
      <4>1. ASSUME NEW s \in Queued(p, l)
            PROVE  s \in {c.slot} \cup {Tail(q)[i].slot : i \in 1 .. Len(Tail(q))}
        <5>1. PICK j \in 1 .. Len(q) : s = q[j].slot
          BY <4>1 DEF Queued
        <5>2. j = 1 \/ j \in 2 .. Len(q)
          BY <1>7
        <5> QED
          BY <1>7, <5>1, <5>2
      <4>2. c.slot \in Queued(p, l)
        <5>1. 1 \in 1 .. Len(q)
          BY <1>1
        <5> QED
          BY <1>7, <5>1 DEF Queued
      <4>3. ASSUME NEW i \in 1 .. Len(Tail(q)) PROVE Tail(q)[i].slot \in Queued(p, l)
        <5>1. i + 1 \in 1 .. Len(q) /\ Tail(q)[i] = q[i + 1]
          BY <1>7
        <5> QED
          BY <5>1 DEF Queued
      <4> QED
        BY <4>1, <4>2, <4>3
    <3>3. Queued(p, l)' = {Tail(q)[i].slot : i \in 1 .. Len(Tail(q))}
      BY <1>4 DEF Queued
    <3> QED
      BY <2>2, <3>1, <3>2, <3>3 DEF Reached
  <2> QED
    BY <2>1, <2>2
<1>10. learnerInit[p]
  BY <1>1 DEF DeliveryInv, SentOK
<1>11. \A k \in Server : SentOK(p, k)'
  <2> SUFFICES ASSUME NEW k \in Server PROVE SentOK(p, k)'
    OBVIOUS
  <2>1. SentOK(p, k)
    BY DEF DeliveryInv
  <2>2. p \in Server
    BY ProposerAssumption
  <2> QED
    BY <1>2, <1>9, <1>10, <2>1, <2>2 DEF SentOK, scoutVars, stubVars
<1>12. CommanderOK(p)'
  BY <1>2 DEF DeliveryInv, CommanderOK, scoutVars, stubVars
<1>13. ASSUME NEW k \in Server PROVE LinesOK(k)'
  <2>1. LinesOK(k)
    BY DEF DeliveryInv
  <2>2. CASE k # l
    <3>1. factoryLog'[k] = factoryLog[k] /\ decisionMap'[k] = decisionMap[k]
      BY <1>1, <1>3, <2>2
    <3> QED
      BY <2>1, <3>1 DEF LinesOK
  <2>3. CASE k = l
    <3> DEFINE n == slot_out'[l] - slot_out[l]
               t == LP!Lines(c, slot_out[l], n)
    <3>1. /\ n \in {0, 1}
          /\ n = 1 => c.slot = slot_out[l]
      BY <1>3, <1>6
    <3>2. factoryLog'[l] = factoryLog[l] \o t
      BY <1>1, <1>3
    <3> HIDE DEF n
    <3>3. /\ t \in Seq(LP!LogLine)
          /\ Len(t) = n
          /\ \A i \in 1 .. n : t[i] = [slot |-> slot_out[l] + i - 1, cmd |-> c]
      <4>1. n \in Nat /\ slot_out[l] \in Int
        BY <1>3, <3>1
      <4> HIDE DEF c
      <4> QED
        BY <1>1, <4>1, LP!LinesType, LearnerAssumptions
    <3> HIDE DEF t
    <3>4. ASSUME NEW i \in 1 .. Len(factoryLog'[l])
          PROVE  /\ factoryLog'[l][i].cmd.slot = factoryLog'[l][i].slot
                 /\ factoryLog'[l][i].cmd \in decisionMap'[l]
      <4>1. /\ Len(factoryLog[l]) \in Nat
            /\ i \in 1 .. Len(factoryLog[l]) => factoryLog'[l][i] = factoryLog[l][i]
            /\ Len(factoryLog'[l]) = Len(factoryLog[l]) + n
            /\ \A j \in 1 .. n : factoryLog'[l][Len(factoryLog[l]) + j] = t[j]
        <5> DEFINE u == factoryLog[l]
        <5>1. u \in Seq(LP!LogLine)
          BY <1>3
        <5> HIDE DEF u
        <5>2. /\ Len(u) \in Nat
              /\ Len(u \o t) = Len(u) + n
              /\ \A j \in 1 .. Len(u) : (u \o t)[j] = u[j]
              /\ \A j \in 1 .. n : (u \o t)[Len(u) + j] = t[j]
          <6>1. t \in Seq(LP!LogLine) /\ Len(t) = n
            BY <3>3
          <6>2. /\ Len(u) \in Nat
                /\ Len(u \o t) = Len(u) + Len(t)
                /\ \A j \in 1 .. Len(u) : (u \o t)[j] = u[j]
                /\ \A j \in 1 .. Len(t) : (u \o t)[Len(u) + j] = t[j]
            BY <5>1, <6>1
          <6> QED
            BY <6>1, <6>2
        <5> QED
          BY <3>2, <5>2 DEF u
      <4>2. CASE i \in 1 .. Len(factoryLog[l])
        BY <1>5, <2>1, <2>3, <4>1, <4>2 DEF LinesOK
      <4>3. CASE i \notin 1 .. Len(factoryLog[l])
        <5>1. n = 1 /\ i = Len(factoryLog[l]) + 1
          BY <3>1, <3>4, <4>1, <4>3
        <5>2. factoryLog'[l][i] = [slot |-> slot_out[l] + 1 - 1, cmd |-> c]
          BY <3>3, <4>1, <5>1
        <5>3. slot_out[l] + 1 - 1 = c.slot
          BY <1>6, <3>1, <5>1
        <5>4. c \in decisionMap'[l]
          BY <1>5
        <5> QED
          BY <5>2, <5>3, <5>4
      <4> QED
        BY <4>2, <4>3
    <3> QED
      BY <2>3, <3>4 DEF LinesOK
  <2> QED
    BY <2>2, <2>3
<1> QED
  BY <1>2, <1>8, <1>11, <1>12, <1>13 DEF DeliveryInv

(***************************************************************************)
(* The commander sends a command whose predecessors its server has         *)
(* learned, and has sent to every server before.                           *)
(***************************************************************************)
LEMMA SendDelivers ==
  ASSUME OneProposer, CoreTypeOK, LP!TypeOK, ChosenInv, LeaderInv, DeliveryInv,
         NEW p \in Proposer, NEW l \in Server, SendLearn(p, l), UNCHANGED starting
  PROVE  DeliveryInv'
<1> DEFINE c == ballot[p].cmd
           q == learnq[p][l]
<1>1. /\ pc[p] = "learn" /\ pc'[p] = "learn"
      /\ l \in todo[p] /\ todo'[p] = todo[p] \ {l}
      /\ learnerStub[p][l] = "open"
      /\ UNCHANGED <<starting, alive, ballot, learnerInit, decisionMap, slot_out, factoryLog>>
  BY DEF SendLearn, At, Goto, CoreTypeOK, ScoutTypeOK, learnVars
<1>2. \A r \in Proposer : r = p
  BY DEF OneProposer
<1>3. \A k \in Server : QueueOK(p, k) /\ SentOK(p, k) /\ LinesOK(k)
  BY DEF DeliveryInv
<1>4. CommanderOK(p)' /\ learnerInit'[p] /\ \A k \in Server : LinesOK(k)'
  BY <1>1, <1>3 DEF DeliveryInv, CommanderOK, LinesOK
<1>5. c.slot \in Int /\ 1 .. (c.slot - 1) \subseteq LP!Slots(decisionMap[p])
  <2>1. Chosen(c)
    BY <1>1, ChosenInChosen DEF ChosenInv, CommanderChosen, CommanderChosenBy
  <2>2. CommandOK(p, c)
    BY <2>1, ChosenKnown DEF LeaderInv, LeaderOK, CommandsOK
  <2> QED
    BY <2>2, OrdersFinite DEF CommandOK
<1>6. p \in Server
  BY ProposerAssumption
<1>7. CASE ~alive[l]
  <2>1. learnq' = learnq /\ learnerStub' = [learnerStub EXCEPT ![p][l] = "reset"]
    BY <1>7 DEF SendLearn
  <2>2. \A k \in Server : Reached(p, k)' = Reached(p, k) /\ QueueOK(p, k)'
    BY <1>1, <1>3, <2>1 DEF Reached, Queued, LP!Slots, QueueOK, InOrder
  <2>3. \A k \in Server : learnerStub'[p][k] = IF k = l THEN "reset" ELSE learnerStub[p][k]
    BY <2>1 DEF CoreTypeOK, ScoutTypeOK
  <2>4. ASSUME NEW k \in Server PROVE SentOK(p, k)'
    BY <1>1, <1>3, <1>4, <1>6, <1>7, <2>2, <2>3 DEF SentOK
  <2> QED
    BY <1>2, <1>4, <2>2, <2>4 DEF DeliveryInv
<1>8. CASE alive[l]
  <2>1. /\ learnerStub' = learnerStub
        /\ learnq' = [learnq EXCEPT ![p][l] = Append(q, c)]
    BY <1>8 DEF SendLearn
  <2>2. learnq'[p][l] = Append(q, c) /\ \A k \in Server \ {l} : learnq'[p][k] = learnq[p][k]
    BY <2>1 DEF CoreTypeOK, ScoutTypeOK
  <2>3. q \in Seq(Command) /\ c \in Command
    BY DEF CoreTypeOK, ScoutTypeOK, Ballot
  <2>4. /\ Len(q) \in Nat /\ Len(Append(q, c)) = Len(q) + 1
        /\ \A i \in 1 .. Len(q) : Append(q, c)[i] = q[i]
        /\ Append(q, c)[Len(q) + 1] = c
    <3> HIDE DEF q, c
    <3> QED
      BY <2>3
  <2>5. Queued(p, l)' = Queued(p, l) \cup {c.slot}
    <3>1. Queued(p, l)' = {Append(q, c)[i].slot : i \in 1 .. (Len(q) + 1)}
      BY <2>2, <2>4 DEF Queued
    <3>2. 1 .. (Len(q) + 1) = (1 .. Len(q)) \cup {Len(q) + 1}
      BY <2>4
    <3>3. Queued(p, l)' = {Append(q, c)[i].slot : i \in 1 .. Len(q)}
                            \cup {Append(q, c)[Len(q) + 1].slot}
      BY <3>1, <3>2
    <3>4. {Append(q, c)[i].slot : i \in 1 .. Len(q)} = {q[i].slot : i \in 1 .. Len(q)}
      BY <2>4
    <3> QED
      BY <2>4, <3>3, <3>4 DEF Queued
  <2>6. /\ Reached(p, l)' = Reached(p, l) \cup {c.slot}
        /\ \A k \in Server \ {l} : Reached(p, k)' = Reached(p, k)
    <3>1. \A k \in Server : LP!Slots(decisionMap[k])' = LP!Slots(decisionMap[k])
      BY <1>1 DEF LP!Slots
    <3>2. \A k \in Server \ {l} : Queued(p, k)' = Queued(p, k)
      BY <2>2 DEF Queued
    <3> QED
      BY <2>5, <3>1, <3>2 DEF Reached
  <2>7. ASSUME NEW k \in Server PROVE SentOK(p, k)'
    BY <1>1, <1>3, <1>4, <1>6, <2>1, <2>6 DEF SentOK
  <2>8. ASSUME NEW k \in Server PROVE QueueOK(p, k)'
    <3>1. CASE k # l
      <4>1. learnq'[p][k] = learnq[p][k] /\ slot_out'[k] = slot_out[k]
            /\ decisionMap'[k] = decisionMap[k] /\ QueueOK(p, k)
        BY <1>1, <1>3, <2>2, <3>1
      <4> QED
        BY <4>1 DEF QueueOK, InOrder, LP!Slots
    <3>2. CASE k = l
      <4>1. ASSUME NEW s \in 1 .. (c.slot - 1)
            PROVE  s < slot_out[l] \/ \E j \in 1 .. Len(q) : q[j].slot = s
        <5>1. s \in Reached(p, p)
          BY <1>5, <4>1 DEF Reached
        <5>2. s # c.slot
          BY <1>5, <4>1
        <5>3. s \in Reached(p, l)
          BY <1>1, <1>3, <1>8, <5>1, <5>2 DEF SentOK
        <5>4. CASE s \in LP!Slots(decisionMap[l])
          BY <1>3, <5>4 DEF QueueOK
        <5>5. CASE s \in Queued(p, l)
          BY <5>5 DEF Queued
        <5> QED
          BY <5>3, <5>4, <5>5 DEF Reached
      <4>2. ASSUME NEW i \in 1 .. (Len(q) + 1), NEW s \in 1 .. (Append(q, c)[i].slot - 1)
            PROVE  s < slot_out[l] \/ \E j \in 1 .. (i - 1) : Append(q, c)[j].slot = s
        <5>1. CASE i = Len(q) + 1
          <6>1. s \in 1 .. (c.slot - 1) /\ i - 1 = Len(q)
            BY <2>4, <4>2, <5>1
          <6> QED
            BY <2>4, <4>1, <6>1
        <5>2. CASE i # Len(q) + 1
          <6>1. /\ i \in 1 .. Len(q) /\ s \in 1 .. (q[i].slot - 1)
                /\ \A j \in 1 .. (i - 1) : Append(q, c)[j] = q[j]
            BY <2>4, <4>2, <5>2
          <6>2. InOrder(p, l)
            BY <1>3 DEF QueueOK
          <6> QED
            BY <6>1, <6>2 DEF InOrder
        <5> QED
          BY <5>1, <5>2
      <4>3. InOrder(p, l)'
        BY <1>1, <2>2, <2>4, <4>2 DEF InOrder
      <4> QED
        BY <1>1, <1>3, <3>2, <4>3 DEF QueueOK, LP!Slots
    <3> QED
      BY <3>1, <3>2
  <2> QED
    BY <1>2, <1>4, <2>7, <2>8 DEF DeliveryInv
<1> QED
  BY <1>7, <1>8

(***************************************************************************)
(* A step that leaves the queues and the learners alone.                   *)
(***************************************************************************)
LEMMA QueuesKept ==
  ASSUME OneProposer, DeliveryInv, NEW p \in Proposer,
         UNCHANGED <<learnq, decisionMap, slot_out, factoryLog>>,
         CommanderOK(p)', \A l \in Server : SentOK(p, l) => SentOK(p, l)'
  PROVE  DeliveryInv'
<1>1. \A r \in Proposer : r = p
  BY DEF OneProposer
<1>2. \A l \in Server : SentOK(p, l)' /\ QueueOK(p, l)' /\ LinesOK(l)'
  BY DEF DeliveryInv, QueueOK, InOrder, LinesOK, LP!Slots
<1> QED
  BY <1>1, <1>2 DEF DeliveryInv

(***************************************************************************)
(* The steps of a scout that is not in the commander, before or after.     *)
(***************************************************************************)
Away(p) ==
  /\ pc[p] \notin {"connectLearners", "learn"} /\ pc'[p] \notin {"connectLearners", "learn"}
  /\ UNCHANGED <<learnq, learnerInit>>
  /\ \A l \in Server : learnerStub'[p][l] \in {learnerStub[p][l], "none"}

LEMMA AwayFromCommander ==
  ASSUME CoreTypeOK, NEW p \in Proposer, ScoutStep(p)
  PROVE  \/ Away(p)
         \/ StartCommander(p) \/ LearnersConnected(p) \/ AnswerOk(p)
         \/ \E l \in Server : \/ ConnectLearner(p, l) \/ IdentifyLearner(p, l)
                              \/ SendLearn(p, l) \/ SendLearnFails(p, l)
<1> USE DEF CoreTypeOK, ScoutTypeOK, Goto, Done, At, stubVars, Away
<1>1. CASE TakeOrder(p)
  BY <1>1 DEF TakeOrder, Begin
<1>2. CASE AcceptorsConnected(p) \/ NextRound(p) \/ ProposeSystem(p) \/ Restart(p)
  BY <1>2 DEF AcceptorsConnected, NextRound, Rejected, ProposeSystem, Prepared, EnterAccept,
              Restart
<1>3. CASE ProposeOwn(p)
  BY <1>3 DEF ProposeOwn, Prepared, EnterAccept
<1>4. CASE PrepareUnavailable(p) \/ GiveUpOwn(p) \/ AcceptUnavailable(p)
  BY <1>4 DEF PrepareUnavailable, GiveUpOwn, AcceptUnavailable, Answer
<1>5. ASSUME NEW a \in Server,
             \/ ConnectAcceptor(p, a) \/ IdentifyAcceptor(p, a)
             \/ SendP1a(p, a) \/ SendP2a(p, a)
      PROVE  Away(p)
  BY <1>5 DEF ConnectAcceptor, IdentifyAcceptor, SendP1a, SendP2a
<1>6. ASSUME NEW a \in Server, P1aFails(p, a) \/ P2aFails(p, a) PROVE Away(p)
  BY <1>6 DEF P1aFails, P2aFails, Erase
<1>7. ASSUME NEW a \in Server, RecvP1b(p, a) \/ RecvP2b(p, a) PROVE Away(p)
  <2>1. learnerStub' = learnerStub /\ learnerInit' = learnerInit
    BY <1>7 DEF RecvP1b, RecvP2b, ReceiveFrom
  <2> QED
    BY <1>7, <2>1 DEF RecvP1b, RecvP2b
<1> QED
  BY <1>1, <1>2, <1>3, <1>4, <1>5, <1>6, <1>7 DEF ScoutStep

LEMMA ScoutDelivers ==
  ASSUME OneProposer, CoreTypeOK, StubInv, LP!TypeOK, ChosenInv, LeaderInv, DeliveryInv,
         NEW p \in Proposer, ScoutStep(p)
  PROVE  DeliveryInv'
<1>1. UNCHANGED <<starting, alive, decisionMap, slot_out, factoryLog>>
  BY Moves, ScoutLearns
<1>2. CommanderOK(p) /\ \A k \in Server : SentOK(p, k)
  BY DEF DeliveryInv
<1>3. ASSUME UNCHANGED learnq PROVE \A k \in Server : Reached(p, k)' = Reached(p, k)
  BY <1>1, <1>3 DEF Reached, Queued, LP!Slots
<1>4. p \in Server
  BY ProposerAssumption
<1> USE DEF Goto, CoreTypeOK, ScoutTypeOK
<1>5. CASE Away(p)
  <2>1. CommanderOK(p)'
    BY <1>5 DEF Away, CommanderOK
  <2>2. UNCHANGED learnq
    BY <1>5 DEF Away
  <2>3. \A l \in Server : SentOK(p, l)'
    BY <1>1, <1>2, <1>3, <1>4, <1>5, <2>2 DEF Away, SentOK
  <2> QED
    BY <1>1, <2>1, <2>2, <2>3, QueuesKept
<1>6. CASE StartCommander(p)
  <2>1. /\ UNCHANGED <<learnq, learnerInit, learnerStub>>
        /\ pc[p] = "accept"
        /\ IF learnerInit[p] THEN pc'[p] = "learn" /\ todo'[p] = Learners(p)
                             ELSE pc'[p] = "connectLearners"
    BY <1>6 DEF StartCommander, Done, stubVars
  <2>2. CommanderOK(p)'
    BY <2>1 DEF CommanderOK
  <2>3. \A l \in Server : SentOK(p, l)'
    BY <1>1, <1>2, <1>3, <1>4, <2>1 DEF SentOK, Learners
  <2> QED
    BY <1>1, <2>1, <2>2, <2>3, QueuesKept
<1>7. ASSUME NEW l \in Server, ConnectLearner(p, l) \/ IdentifyLearner(p, l)
      PROVE  DeliveryInv'
  <2>1. /\ UNCHANGED <<learnq, learnerInit>>
        /\ pc[p] = "connectLearners" /\ pc'[p] = "connectLearners"
        /\ \A k \in Server : k # l => learnerStub'[p][k] = learnerStub[p][k]
        /\ learnerStub'[p][l] # "none" => alive[l] \/ learnerStub[p][l] # "none"
    <3>1. CASE ConnectLearner(p, l)
      BY <3>1 DEF ConnectLearner, At
    <3>2. CASE IdentifyLearner(p, l)
      BY <3>2 DEF IdentifyLearner, At
    <3> QED
      BY <1>7, <3>1, <3>2
  <2>2. CommanderOK(p)'
    BY <1>2, <2>1 DEF CommanderOK
  <2>3. Reached(p, p) = {}
    <3>1. decisionMap[p] = {} /\ learnq[p][p] = <<>>
      BY <1>2, <1>4, <2>1 DEF CommanderOK, SentOK
    <3> QED
      BY <3>1 DEF Reached, Queued, LP!Slots
  <2>4. \A k \in Server : SentOK(p, k)'
    BY <1>1, <1>2, <1>3, <1>4, <2>1, <2>3, ZenonT(60) DEF SentOK, StubInv, Started
  <2> QED
    BY <1>1, <2>1, <2>2, <2>4, QueuesKept
<1>8. CASE LearnersConnected(p)
  <2>1. /\ UNCHANGED <<learnq, learnerStub>>
        /\ pc[p] = "connectLearners" /\ pc'[p] = "learn"
        /\ learnerInit'[p] = TRUE
        /\ todo'[p] = Learners(p)
    BY <1>8 DEF LearnersConnected, Done
  <2>2. CommanderOK(p)'
    BY <2>1 DEF CommanderOK
  <2>3. \A k \in Server : SentOK(p, k)'
    BY <1>1, <1>2, <1>3, <1>4, <2>1 DEF SentOK, Learners
  <2> QED
    BY <1>1, <2>1, <2>2, <2>3, QueuesKept
<1>9. ASSUME NEW l \in Server, SendLearnFails(p, l) PROVE DeliveryInv'
  <2>1. /\ UNCHANGED <<learnq, learnerInit, ballot>>
        /\ pc[p] = "learn" /\ pc'[p] = "learn"
        /\ todo'[p] = todo[p] \ {l}
        /\ \A k \in Server : learnerStub'[p][k] = IF k = l THEN "none" ELSE learnerStub[p][k]
    BY <1>9 DEF SendLearnFails, At, Erase, AfterErase
  <2>2. CommanderOK(p)'
    BY <1>2, <2>1 DEF CommanderOK
  <2>3. \A k \in Server : SentOK(p, k)'
    BY <1>1, <1>2, <1>3, <1>4, <2>1 DEF SentOK
  <2> QED
    BY <1>1, <2>1, <2>2, <2>3, QueuesKept
<1>10. CASE AnswerOk(p)
  <2>1. /\ UNCHANGED <<learnq, learnerInit, learnerStub>>
        /\ pc[p] = "learn" /\ pc'[p] = "idle" /\ todo[p] = {}
    BY <1>10 DEF AnswerOk, Done, Answer, stubVars
  <2>2. CommanderOK(p)'
    BY <2>1 DEF CommanderOK
  <2>3. ASSUME NEW k \in Server PROVE SentOK(p, k)'
    <3>1. alive[k] /\ learnerStub[p][k] = "open" => Reached(p, p) \subseteq Reached(p, k)
      BY <1>2, <2>1 DEF SentOK
    <3> QED
      BY <1>1, <1>2, <1>3, <1>4, <2>1, <3>1 DEF SentOK
  <2> QED
    BY <1>1, <2>1, <2>2, <2>3, QueuesKept
<1> QED
  BY <1>1, <1>5, <1>6, <1>7, <1>8, <1>9, <1>10, SendDelivers, AwayFromCommander

(***************************************************************************)
(* A server that dies has nothing more to learn, and one that starts has   *)
(* no connection from the scout.                                           *)
(***************************************************************************)
LEMMA DieDelivers ==
  ASSUME OneProposer, CoreTypeOK, LP!TypeOK, DeliveryInv, NEW s \in Server, Die(s),
         UNCHANGED starting
  PROVE  DeliveryInv'
<1>1. /\ UNCHANGED <<scoutVars, stubVars, decisionMap, slot_out, factoryLog>>
      /\ learnq' = [p \in Proposer |-> [learnq[p] EXCEPT ![s] = <<>>]]
      /\ alive' = [alive EXCEPT ![s] = FALSE]
  BY DEF Die, learnVars
<1>2. ASSUME NEW p \in Proposer
      PROVE  CommanderOK(p)' /\ \A l \in Server : QueueOK(p, l)' /\ SentOK(p, l)'
  <2>1. p \in Server
    BY ProposerAssumption
  <2>2. /\ \A l \in Server : learnq'[p][l] = IF l = s THEN <<>> ELSE learnq[p][l]
        /\ \A l \in Server : alive'[l] = IF l = s THEN FALSE ELSE alive[l]
    BY <1>1 DEF CoreTypeOK, ScoutTypeOK
  <2>3. CommanderOK(p)'
    BY <1>1 DEF DeliveryInv, CommanderOK, scoutVars, stubVars
  <2>4. /\ \A l \in Server \ {s} : Reached(p, l)' = Reached(p, l)
        /\ Reached(p, s)' \subseteq Reached(p, s)
    <3>1. \A l \in Server \ {s} : Reached(p, l)' = Reached(p, l)
      BY <1>1, <2>2 DEF Reached, Queued, LP!Slots
    <3>2. Queued(p, s)' = {}
      BY <2>2 DEF Queued
    <3> QED
      BY <1>1, <3>1, <3>2 DEF Reached, LP!Slots
  <2>5. ASSUME NEW l \in Server PROVE SentOK(p, l)'
    <3>1. SentOK(p, l)
      BY DEF DeliveryInv
    <3>2. Reached(p, p)' \subseteq Reached(p, p)
      BY <2>1, <2>4
    <3>3. CASE l = s
      BY <1>1, <2>2, <3>1, <3>3 DEF SentOK, scoutVars, stubVars
    <3>4. CASE l # s
      BY <1>1, <2>2, <2>4, <3>1, <3>2, <3>4 DEF SentOK, scoutVars, stubVars
    <3> QED
      BY <3>3, <3>4
  <2>6. ASSUME NEW l \in Server PROVE QueueOK(p, l)'
    <3>1. QueueOK(p, l)
      BY DEF DeliveryInv
    <3>2. CASE l = s
      BY <1>1, <2>2, <3>1, <3>2 DEF QueueOK, InOrder, LP!Slots
    <3>3. CASE l # s
      BY <1>1, <2>2, <3>1, <3>3 DEF QueueOK, InOrder, LP!Slots
    <3> QED
      BY <3>2, <3>3
  <2> QED
    BY <2>3, <2>5, <2>6
<1>3. \A l \in Server : LinesOK(l)'
  BY <1>1 DEF DeliveryInv, LinesOK
<1> QED
  BY <1>2, <1>3 DEF DeliveryInv

LEMMA DeliveryStep ==
  ASSUME OneProposer, CoreTypeOK, StubInv, LP!TypeOK, LP!PrefixDecided, ChosenInv, LeaderInv,
         DeliveryInv, [Next]_vars
  PROVE  DeliveryInv'
<1>1. ASSUME UNCHANGED <<scoutVars, stubVars, learnq, learnVars>>,
             starting' \subseteq starting,
             \A l \in Server : alive'[l] => alive[l] \/ l \in starting
      PROVE  DeliveryInv'
  <2>1. ASSUME NEW p \in Proposer
        PROVE  CommanderOK(p)' /\ \A l \in Server : QueueOK(p, l)' /\ SentOK(p, l)'
    <3> USE <1>1 DEF scoutVars, stubVars, learnVars
    <3>1. \A l \in Server : Reached(p, l)' = Reached(p, l)
      BY DEF Reached, Queued, LP!Slots
    <3>2. p \in Server
      BY ProposerAssumption
    <3>3. \A l \in Server : SentOK(p, l)'
      BY <3>1, <3>2 DEF DeliveryInv, SentOK
    <3>4. \A l \in Server : QueueOK(p, l)'
      BY DEF DeliveryInv, QueueOK, InOrder, LP!Slots
    <3>5. CommanderOK(p)'
      BY DEF DeliveryInv, CommanderOK
    <3> QED
      BY <3>3, <3>4, <3>5
  <2>2. \A l \in Server : LinesOK(l)'
    BY <1>1 DEF DeliveryInv, LinesOK, learnVars
  <2> QED
    BY <2>1, <2>2 DEF DeliveryInv
<1>2. ASSUME NEW a \in Server, NEW p \in Proposer, Engineer(a, p) PROVE DeliveryInv'
  BY <1>1, <1>2 DEF Engineer
<1>3. CASE UNCHANGED vars
  BY <1>1, <1>3 DEF vars
<1>4. ASSUME NEW s \in Server, Start(s) PROVE DeliveryInv'
  <2>1. \A l \in Server : alive'[l] => alive[l] \/ l \in starting
    BY <1>4 DEF Start, CoreTypeOK, ScoutTypeOK
  <2> QED
    BY <1>1, <1>4, <2>1 DEF Start
<1>5. LearnedIsChosen
  BY DEF ChosenInv
<1>6. ASSUME NEW s \in Server, Die(s), UNCHANGED starting PROVE DeliveryInv'
  BY <1>6, DieDelivers
<1>7. \A s \in Server : Crash(s) => Die(s) /\ UNCHANGED starting
  BY DEF Crash
<1>8. \A p \in Proposer : BrokenPipe(p) => p \in Server /\ Die(p) /\ UNCHANGED starting
  BY ProposerAssumption DEF BrokenPipe
<1>9. \/ UNCHANGED vars
      \/ \E p \in Proposer : ScoutStep(p)
      \/ \E a \in Server, p \in Proposer : Engineer(a, p) \/ Learn(a, p)
      \/ \E s \in Server : Start(s) \/ (Die(s) /\ UNCHANGED starting)
  BY <1>7, <1>8, Zenon DEF Next, Terminating
<1> QED
  BY <1>2, <1>3, <1>4, <1>5, <1>6, <1>9, ScoutDelivers, LearnDelivers

LEMMA DeliveryInvariant == ASSUME OneProposer PROVE Spec => []DeliveryInv
<1>1. Init => DeliveryInv
  BY DEF Init, LaptopInit, DeliveryInv, CommanderOK, QueueOK, InOrder, SentOK, LinesOK,
         LP!Slots
<1>2. /\ CoreTypeOK /\ StubInv /\ LP!TypeOK /\ LP!PrefixDecided /\ ChosenInv /\ LeaderInv
      /\ DeliveryInv /\ [Next]_vars
      => DeliveryInv'
  BY DeliveryStep
<1> QED
  BY <1>1, <1>2, CoreType, StubInvariant, LearnerInvariants, ChosenInvariant, LeaderInvariant,
     PTL DEF Spec

(***************************************************************************)
(* With one proposer, every line of a factory log is the command of its    *)
(* slot, and the server still holds it: the misfiled line that learning    *)
(* out of order brings about (saveCommandToFile is given cmd, not          *)
(* decisionMap[slot_out]) takes two commanders.                            *)
(***************************************************************************)
THEOREM LogMatchesTheorem == ASSUME OneProposer PROVE Spec => []LogMatchesDecisions
<1>1. DeliveryInv => LogMatchesDecisions
  BY DEF DeliveryInv, LinesOK, LogMatchesDecisions
<1> QED
  BY <1>1, DeliveryInvariant, PTL
=============================================================================
