---------------------------- MODULE LearnerProofs ----------------------------
(***************************************************************************)
(* The invariants of Learner, for any servers, commands and restarts.      *)
(***************************************************************************)
EXTENDS Learner, TLAPS

USE IncomingAssumption, MaxLinesAssumption

(***************************************************************************)
(* Lines adds n lines, numbered from `from`, that carry the command.       *)
(***************************************************************************)
LEMMA LinesType ==
  ASSUME NEW c \in Incoming, NEW from \in Int, NEW n \in Nat
  PROVE  /\ Lines(c, from, n) \in Seq(LogLine)
         /\ Len(Lines(c, from, n)) = n
         /\ \A i \in 1 .. n : Lines(c, from, n)[i] = [slot |-> from + i - 1, cmd |-> c]
<1>1. \A i \in 1 .. n : [slot |-> from + i - 1, cmd |-> c] \in LogLine
  BY DEF LogLine
<1>2. Lines(c, from, n) \in [1 .. n -> LogLine]
  BY <1>1 DEF Lines
<1> QED
  BY <1>2 DEF Lines

(***************************************************************************)
(* The entries of a concatenation.                                         *)
(***************************************************************************)
LEMMA ConcatEntries ==
  ASSUME NEW S, NEW s \in Seq(S), NEW t \in Seq(S)
  PROVE  /\ s \o t \in Seq(S)
         /\ Len(s) \in Nat /\ Len(t) \in Nat
         /\ Len(s \o t) = Len(s) + Len(t)
         /\ \A i \in 1 .. Len(s) : (s \o t)[i] = s[i]
         /\ \A i \in 1 .. Len(t) : (s \o t)[Len(s) + i] = t[i]
OBVIOUS

(***************************************************************************)
(* A map stays a map when a command is stored, and holds the command.      *)
(***************************************************************************)
IsMap(M) == \A c, d \in M : c.slot = d.slot => c = d

LEMMA StoreMap ==
  ASSUME NEW M \in SUBSET Incoming, IsMap(M), NEW c \in Incoming
  PROVE  /\ Store(M, c) \in SUBSET Incoming
         /\ IsMap(Store(M, c))
         /\ c \in Store(M, c)
         /\ Slots(M) \subseteq Slots(Store(M, c))
         /\ \A s \in Slots(Store(M, c)) : s \in Slots(M) \/ s = c.slot
BY DEF Store, IsMap, Slots

(***************************************************************************)
(* The loop ends at a slot number.                                         *)
(***************************************************************************)
LEMMA LoopRangeInt ==
  ASSUME NEW M \in SUBSET Incoming, NEW from \in Int, NEW g \in LoopRange(M, from)
  PROVE  g \in Int
<1>1. Slots(M) \subseteq Int
  BY IncomingAssumption DEF Slots
<1>2. CASE g = from
  BY <1>2
<1>3. ASSUME NEW s \in Slots(M), g = s + 1 PROVE g \in Int
  BY <1>1, <1>3
<1> QED
  BY <1>2, <1>3 DEF LoopRange

(***************************************************************************)
(* The variables keep their types and decisionMap stays a map.             *)
(***************************************************************************)
THEOREM TypeCorrect == Spec => []TypeOK
<1>1. Init => TypeOK
  BY DEF Init, TypeOK
<1>2. TypeOK /\ [Next]_learnerVars => TypeOK'
  <2> SUFFICES ASSUME TypeOK, [Next]_learnerVars PROVE TypeOK'
    OBVIOUS
  <2> USE DEF TypeOK
  <2>1. ASSUME NEW l \in Server, NEW cmd \in Incoming, Learn(l, cmd)
        PROVE  TypeOK'
    <3> DEFINE learned == Store(decisionMap[l], cmd)
    <3>1. PICK g \in LoopRange(learned, slot_out[l]) :
            /\ IsFirstGap(learned, slot_out[l], g)
            /\ decisionMap' = [decisionMap EXCEPT ![l] = learned]
            /\ slot_out' = [slot_out EXCEPT ![l] = g]
            /\ factoryLog' = [factoryLog EXCEPT
                                ![l] = @ \o Lines(cmd, slot_out[l], g - slot_out[l])]
            /\ UNCHANGED logStart
      BY <2>1 DEF Learn
    <3>2. g \in Int /\ g - slot_out[l] \in Nat
      <4>1. learned \in SUBSET Incoming
        BY StoreMap DEF IsMap
      <4>2. g \in Int
        BY <3>1, <4>1, LoopRangeInt
      <4> QED
        BY <3>1, <4>2 DEF IsFirstGap
    <3>3. Lines(cmd, slot_out[l], g - slot_out[l]) \in Seq(LogLine)
      BY <3>2, LinesType
    <3>4. learned \in SUBSET Incoming /\ IsMap(learned)
      BY StoreMap DEF IsMap
    <3> QED
      BY <3>1, <3>2, <3>3, <3>4 DEF IsMap
  <2>2. ASSUME NEW l \in Server, NEW cmd \in Incoming, CrashAndRestart(l, cmd)
        PROVE  TypeOK'
    <3> DEFINE learned == Store(decisionMap[l], cmd)
    <3>1. PICK g \in LoopRange(learned, slot_out[l]) :
            /\ IsFirstGap(learned, slot_out[l], g)
            /\ \E n \in 0 .. (g - slot_out[l]) :
                 Restarted(l, factoryLog[l] \o Lines(cmd, slot_out[l], n))
      BY <2>2 DEF CrashAndRestart
    <3>2. PICK n \in 0 .. (g - slot_out[l]) :
            Restarted(l, factoryLog[l] \o Lines(cmd, slot_out[l], n))
      BY <3>1
    <3>3. Lines(cmd, slot_out[l], n) \in Seq(LogLine)
      BY LinesType
    <3> DEFINE lines == factoryLog[l] \o Lines(cmd, slot_out[l], n)
    <3>4. lines \in Seq(LogLine) /\ Len(lines) \in Nat
      BY <3>3
    <3> HIDE DEF lines
    <3> QED
      BY <3>2, <3>4 DEF Restarted, lines
  <2>3. CASE UNCHANGED learnerVars
    BY <2>3 DEF learnerVars
  <2> QED
    BY <2>1, <2>2, <2>3 DEF Next
<1> QED
  BY <1>1, <1>2, PTL DEF Spec

(***************************************************************************)
(* One inductive step for the three other invariants: Learn adds the lines *)
(* from slot_out to the first gap, the first of which is its command's.    *)
(***************************************************************************)
LogInv == PrefixDecided /\ LogNumbered /\ MisfiledRepeatsAbove

LEMMA LinesFiled ==
  ASSUME TypeOK, LogInv, NEW l \in Server, NEW cmd \in Incoming,
         NEW g \in Int, IsFirstGap(Store(decisionMap[l], cmd), slot_out[l], g),
         NEW n \in 0 .. (g - slot_out[l])
  PROVE  LET lines == factoryLog[l] \o Lines(cmd, slot_out[l], n)
         IN  /\ lines \in Seq(LogLine)
             /\ Len(lines) = Len(factoryLog[l]) + n
             /\ \A i \in (logStart[l] + 1) .. Len(lines) : lines[i].slot = i - logStart[l]
             /\ \A i \in 1 .. Len(lines) : lines[i].cmd.slot # lines[i].slot =>
                  /\ lines[i].cmd.slot < lines[i].slot
                  /\ i > 1
                  /\ lines[i - 1].cmd = lines[i].cmd
<1> DEFINE old == factoryLog[l]
           new == Lines(cmd, slot_out[l], n)
           lines == old \o new
           m == Len(old)
<1>1. /\ old \in Seq(LogLine)
      /\ m \in Nat
      /\ slot_out[l] \in Int
      /\ logStart[l] \in Nat
      /\ cmd.slot \in Int
      /\ n \in Nat
  BY DEF TypeOK
<1>2. /\ new \in Seq(LogLine)
      /\ Len(new) = n
      /\ \A i \in 1 .. n : new[i] = [slot |-> slot_out[l] + i - 1, cmd |-> cmd]
  BY <1>1, LinesType
<1>3. m - logStart[l] = slot_out[l] - 1
  BY DEF LogInv, LogNumbered
<1>4. /\ \A i \in 1 .. m : lines[i] = old[i]
      /\ \A i \in 1 .. n : lines[m + i] = new[i]
      /\ Len(lines) = m + n
      /\ lines \in Seq(LogLine)
  <2> HIDE DEF old, new
  <2>1. /\ old \o new \in Seq(LogLine)
        /\ Len(old \o new) = Len(old) + Len(new)
        /\ \A i \in 1 .. Len(old) : (old \o new)[i] = old[i]
        /\ \A i \in 1 .. Len(new) : (old \o new)[Len(old) + i] = new[i]
    <3>1. old \in Seq(LogLine)
      BY <1>1
    <3>2. new \in Seq(LogLine)
      BY <1>2
    <3> QED
      BY <3>1, <3>2, ConcatEntries
  <2>2. Len(new) = n
    BY <1>2
  <2> QED
    BY <2>1, <2>2
<1>5. n > 0 => slot_out[l] = cmd.slot
  <2> SUFFICES ASSUME n > 0 PROVE slot_out[l] = cmd.slot
    OBVIOUS
  <2>1. slot_out[l] \in Slots(Store(decisionMap[l], cmd))
    BY <1>1 DEF IsFirstGap
  <2>2. slot_out[l] \notin Slots(decisionMap[l])
    BY DEF LogInv, PrefixDecided
  <2> QED
    BY <2>1, <2>2, StoreMap DEF TypeOK, IsMap
<1>6. \A i \in 1 .. n : /\ lines[m + i].slot = cmd.slot + i - 1
                        /\ lines[m + i].cmd = cmd
  <2> SUFFICES ASSUME NEW i \in 1 .. n
               PROVE  lines[m + i].slot = cmd.slot + i - 1 /\ lines[m + i].cmd = cmd
    OBVIOUS
  <2> HIDE DEF lines, m, new
  <2>1. lines[m + i] = [slot |-> slot_out[l] + i - 1, cmd |-> cmd]
    BY <1>2, <1>4
  <2>2. slot_out[l] = cmd.slot
    BY <1>1, <1>5
  <2> QED
    BY <2>1, <2>2
<1>7. \A i \in (logStart[l] + 1) .. m : old[i].slot = i - logStart[l]
  BY DEF LogInv, LogNumbered
<1>8. \A i \in 1 .. m : old[i].cmd.slot # old[i].slot =>
        old[i].cmd.slot < old[i].slot /\ i > 1 /\ old[i - 1].cmd = old[i].cmd
  BY DEF LogInv, MisfiledRepeatsAbove
<1>9. ASSUME NEW i \in 1 .. (m + n)
      PROVE  i \in 1 .. m \/ i - m \in 1 .. n
  BY <1>1
<1>10. \A i \in (logStart[l] + 1) .. (m + n) : lines[i].slot = i - logStart[l]
  <2> SUFFICES ASSUME NEW i \in (logStart[l] + 1) .. (m + n)
               PROVE  lines[i].slot = i - logStart[l]
    OBVIOUS
  <2> HIDE DEF lines, m, old
  <2>1. CASE i <= m
    BY <2>1, <1>1, <1>4, <1>7
  <2>2. CASE i > m
    <3>1. i - m \in 1 .. n /\ i = m + (i - m)
      BY <2>2, <1>1
    <3>2. lines[m + (i - m)].slot = cmd.slot + (i - m) - 1
      BY <3>1, <1>6
    <3>3. cmd.slot = slot_out[l]
      BY <3>1, <1>1, <1>5
    <3>4. i \in Int /\ m \in Int /\ logStart[l] \in Int /\ slot_out[l] \in Int
      BY <1>1
    <3>5. ASSUME NEW s \in Int, NEW j \in Int, NEW b \in Int, NEW k \in Int, b - k = s - 1
          PROVE  s + (j - b) - 1 = j - k
      BY <3>5
    <3>6. slot_out[l] + (i - m) - 1 = i - logStart[l]
      BY <3>4, <3>5, <1>3
    <3> QED
      BY <3>1, <3>2, <3>3, <3>6
  <2> QED
    BY <2>1, <2>2, <1>1
<1>11. ASSUME NEW i \in 1 .. (m + n), lines[i].cmd.slot # lines[i].slot
       PROVE  /\ lines[i].cmd.slot < lines[i].slot
              /\ i > 1
              /\ lines[i - 1].cmd = lines[i].cmd
  <2> HIDE DEF lines, m, old
  <2>1. CASE i <= m
    <3>1. i \in 1 .. m /\ lines[i] = old[i]
      BY <2>1, <1>1, <1>4
    <3>2. old[i].cmd.slot < old[i].slot /\ i > 1 /\ old[i - 1].cmd = old[i].cmd
      BY <3>1, <1>8, <1>11
    <3>3. lines[i - 1] = old[i - 1]
      BY <3>1, <3>2, <1>1, <1>4
    <3> QED
      BY <3>1, <3>2, <3>3
  <2>2. CASE i > m
    <3>1. i - m \in 1 .. n /\ i = m + (i - m)
      BY <2>2, <1>1
    <3>2. lines[i].slot = cmd.slot + (i - m) - 1 /\ lines[i].cmd = cmd
      BY <3>1, <1>6
    <3>3. i - m > 1
      BY <3>1, <3>2, <1>1, <1>11
    <3>4. (i - m) - 1 \in 1 .. n /\ i - 1 = m + ((i - m) - 1)
      BY <3>1, <3>3, <1>1
    <3>5. lines[i - 1].cmd = cmd
      BY <3>4, <1>6
    <3>6. cmd.slot \in Int /\ i \in Int /\ m \in Int
      BY <1>1
    <3>7. cmd.slot < cmd.slot + (i - m) - 1
      BY <3>3, <3>6
    <3>8. i > 1
      BY <3>3, <3>6, <1>1
    <3> QED
      BY <3>2, <3>5, <3>7, <3>8
  <2> QED
    BY <2>1, <2>2, <1>1
<1> QED
  BY <1>4, <1>10, <1>11

(***************************************************************************)
(* The three log invariants are inductive together.                        *)
(***************************************************************************)
THEOREM LogInvariant == Spec => []LogInv
<1>1. Init => LogInv
  BY DEF Init, LogInv, PrefixDecided, LogNumbered, MisfiledRepeatsAbove, Slots
<1>2. TypeOK /\ LogInv /\ [Next]_learnerVars => LogInv'
  <2> SUFFICES ASSUME TypeOK, LogInv, [Next]_learnerVars PROVE LogInv'
    OBVIOUS
  <2>1. ASSUME NEW l \in Server, NEW cmd \in Incoming, Learn(l, cmd)
        PROVE  LogInv'
    <3> DEFINE learned == Store(decisionMap[l], cmd)
    <3>1. PICK g \in LoopRange(learned, slot_out[l]) :
            /\ IsFirstGap(learned, slot_out[l], g)
            /\ decisionMap' = [decisionMap EXCEPT ![l] = learned]
            /\ slot_out' = [slot_out EXCEPT ![l] = g]
            /\ factoryLog' = [factoryLog EXCEPT
                                ![l] = @ \o Lines(cmd, slot_out[l], g - slot_out[l])]
            /\ UNCHANGED logStart
      BY <2>1 DEF Learn
    <3>2. /\ slot_out \in [Server -> Int]
          /\ g \in Int
          /\ g - slot_out[l] \in Nat
          /\ g - slot_out[l] \in 0 .. (g - slot_out[l])
      <4>1. slot_out \in [Server -> Int] /\ learned \in SUBSET Incoming
        BY StoreMap DEF TypeOK, IsMap
      <4>2. g \in Int
        BY <3>1, <4>1, LoopRangeInt
      <4> QED
        BY <3>1, <4>1, <4>2 DEF IsFirstGap
    <3> DEFINE lines == factoryLog[l] \o Lines(cmd, slot_out[l], g - slot_out[l])
    <3>3. /\ Len(lines) = Len(factoryLog[l]) + (g - slot_out[l])
          /\ \A i \in (logStart[l] + 1) .. Len(lines) : lines[i].slot = i - logStart[l]
          /\ \A i \in 1 .. Len(lines) : lines[i].cmd.slot # lines[i].slot =>
               /\ lines[i].cmd.slot < lines[i].slot
               /\ i > 1
               /\ lines[i - 1].cmd = lines[i].cmd
      BY <3>1, <3>2, LinesFiled
    <3>4. factoryLog' = [factoryLog EXCEPT ![l] = lines]
      BY <3>1
    <3> HIDE DEF lines
    <3>5. ASSUME NEW k \in Server
          PROVE  /\ 1 .. (slot_out'[k] - 1) \subseteq Slots(decisionMap'[k])
                 /\ slot_out'[k] \notin Slots(decisionMap'[k])
      <4>1. CASE k = l
        <5>1. slot_out'[k] = g /\ decisionMap'[k] = learned
          BY <4>1, <3>1 DEF TypeOK
        <5>2. Slots(decisionMap[l]) \subseteq Slots(learned)
          BY StoreMap DEF TypeOK, IsMap
        <5>3. 1 .. (slot_out[l] - 1) \subseteq Slots(learned)
          BY <5>2 DEF LogInv, PrefixDecided
        <5>4. 1 .. (g - 1) \subseteq Slots(learned)
          <6> HIDE DEF learned
          <6> QED
            BY <5>3, <3>1, <3>2, SMTT(30) DEF IsFirstGap
        <5> QED
          BY <5>1, <5>4, <3>1 DEF IsFirstGap
      <4>2. CASE k # l
        <5>1. slot_out'[k] = slot_out[k] /\ decisionMap'[k] = decisionMap[k]
          BY <4>2, <3>1 DEF TypeOK
        <5> QED
          BY <5>1 DEF LogInv, PrefixDecided
      <4> QED
        BY <4>1, <4>2
    <3>6. ASSUME NEW k \in Server, k # l
          PROVE  /\ factoryLog'[k] = factoryLog[k]
                 /\ logStart'[k] = logStart[k]
                 /\ slot_out'[k] = slot_out[k]
      BY <3>1, <3>4, <3>6 DEF TypeOK
    <3>7. /\ factoryLog'[l] = lines
          /\ logStart'[l] = logStart[l]
          /\ slot_out'[l] = g
      BY <3>1, <3>4 DEF TypeOK
    <3>8. /\ Len(factoryLog[l]) \in Nat /\ logStart[l] \in Nat /\ slot_out[l] \in Int
          /\ Len(factoryLog[l]) - logStart[l] = slot_out[l] - 1
      BY DEF TypeOK, LogInv, LogNumbered
    <3>9. PrefixDecided'
      BY <3>5 DEF PrefixDecided
    <3>10. LogNumbered'
      <4>1. Len(lines) - logStart[l] = g - 1
        BY <3>2, <3>3, <3>8, SMTT(30)
      <4> QED
        BY <4>1, <3>3, <3>6, <3>7 DEF LogInv, LogNumbered
    <3>11. MisfiledRepeatsAbove'
      <4> SUFFICES ASSUME NEW k \in Server, NEW i \in 1 .. Len(factoryLog'[k]),
                          factoryLog'[k][i].cmd.slot # factoryLog'[k][i].slot
                   PROVE  /\ factoryLog'[k][i].cmd.slot < factoryLog'[k][i].slot
                          /\ i > 1
                          /\ factoryLog'[k][i - 1].cmd = factoryLog'[k][i].cmd
        BY DEF MisfiledRepeatsAbove
      <4>1. CASE k = l
        BY <4>1, <3>3, <3>7
      <4>2. CASE k # l
        BY <4>2, <3>6 DEF LogInv, MisfiledRepeatsAbove
      <4> QED
        BY <4>1, <4>2
    <3> QED
      BY <3>9, <3>10, <3>11 DEF LogInv
  <2>2. ASSUME NEW l \in Server, NEW cmd \in Incoming, CrashAndRestart(l, cmd)
        PROVE  LogInv'
    <3>1. PICK g \in LoopRange(Store(decisionMap[l], cmd), slot_out[l]) :
            /\ IsFirstGap(Store(decisionMap[l], cmd), slot_out[l], g)
            /\ \E n \in 0 .. (g - slot_out[l]) :
                 Restarted(l, factoryLog[l] \o Lines(cmd, slot_out[l], n))
      BY <2>2 DEF CrashAndRestart
    <3>2. PICK n \in 0 .. (g - slot_out[l]) :
            Restarted(l, factoryLog[l] \o Lines(cmd, slot_out[l], n))
      BY <3>1
    <3>3. g \in Int
      BY StoreMap, LoopRangeInt DEF TypeOK, IsMap
    <3> DEFINE lines == factoryLog[l] \o Lines(cmd, slot_out[l], n)
    <3>4. /\ Len(lines) \in Nat
          /\ \A i \in 1 .. Len(lines) : lines[i].cmd.slot # lines[i].slot =>
               /\ lines[i].cmd.slot < lines[i].slot
               /\ i > 1
               /\ lines[i - 1].cmd = lines[i].cmd
      <4>1. /\ lines \in Seq(LogLine)
            /\ \A i \in 1 .. Len(lines) : lines[i].cmd.slot # lines[i].slot =>
                 /\ lines[i].cmd.slot < lines[i].slot
                 /\ i > 1
                 /\ lines[i - 1].cmd = lines[i].cmd
        BY <3>1, <3>3, LinesFiled
      <4> HIDE DEF lines
      <4> QED
        BY <4>1
    <3>5. Restarted(l, lines)
      BY <3>2
    <3> HIDE DEF lines
    <3>6. /\ factoryLog'[l] = lines
          /\ logStart'[l] = Len(lines)
          /\ slot_out'[l] = 1
          /\ decisionMap'[l] = {}
      BY <3>5 DEF Restarted, TypeOK
    <3>7. ASSUME NEW k \in Server, k # l
          PROVE  /\ factoryLog'[k] = factoryLog[k]
                 /\ logStart'[k] = logStart[k]
                 /\ slot_out'[k] = slot_out[k]
                 /\ decisionMap'[k] = decisionMap[k]
      BY <3>5, <3>7 DEF Restarted, TypeOK
    <3>8. PrefixDecided'
      BY <3>6, <3>7 DEF LogInv, PrefixDecided, Slots
    <3>9. LogNumbered'
      BY <3>4, <3>6, <3>7 DEF LogInv, LogNumbered
    <3>10. MisfiledRepeatsAbove'
      <4> SUFFICES ASSUME NEW k \in Server, NEW i \in 1 .. Len(factoryLog'[k]),
                          factoryLog'[k][i].cmd.slot # factoryLog'[k][i].slot
                   PROVE  /\ factoryLog'[k][i].cmd.slot < factoryLog'[k][i].slot
                          /\ i > 1
                          /\ factoryLog'[k][i - 1].cmd = factoryLog'[k][i].cmd
        BY DEF MisfiledRepeatsAbove
      <4>1. CASE k = l
        BY <4>1, <3>4, <3>6
      <4>2. CASE k # l
        BY <4>2, <3>7 DEF LogInv, MisfiledRepeatsAbove
      <4> QED
        BY <4>1, <4>2
    <3> QED
      BY <3>8, <3>9, <3>10 DEF LogInv
  <2>3. CASE UNCHANGED learnerVars
    BY <2>3 DEF learnerVars, LogInv, PrefixDecided, LogNumbered, MisfiledRepeatsAbove
  <2> QED
    BY <2>1, <2>2, <2>3 DEF Next
<1> QED
  BY <1>1, <1>2, TypeCorrect, PTL DEF Spec

(***************************************************************************)
(* slot_out is the first slot a server does not know.                      *)
(***************************************************************************)
THEOREM PrefixTheorem == Spec => []PrefixDecided
BY LogInvariant, PTL DEF LogInv

(***************************************************************************)
(* The file has one line per slot, in slot order, since the last start.    *)
(***************************************************************************)
THEOREM NumberedTheorem == Spec => []LogNumbered
BY LogInvariant, PTL DEF LogInv

(***************************************************************************)
(* A misfiled line repeats the command of the line above it.               *)
(***************************************************************************)
THEOREM MisfiledTheorem == Spec => []MisfiledRepeatsAbove
BY LogInvariant, PTL DEF LogInv
=============================================================================
