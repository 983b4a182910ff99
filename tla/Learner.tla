------------------------------- MODULE Learner -------------------------------
(***************************************************************************)
(* The learner of a LaptopFactory server: LaptopFactory::Learn, called by  *)
(* the engineer threads of identity 3, one thread per commander that has   *)
(* connected.  Learn holds decisionMap_lock from its first line to its     *)
(* last, so a call is one step here.                                       *)
(*                                                                         *)
(* decisionMap is keyed by the slot of the command it holds, so it is the  *)
(* set of its commands, at most one per slot.  factoryLog is the text file *)
(* "<id> FactoryLog.txt": it is opened in append mode and outlives the     *)
(* process, while everything else is memory.                               *)
(***************************************************************************)
EXTENDS Integers, Sequences

CONSTANTS
  Server,     \* the servers of the system, each of which is a learner
  Incoming,   \* the commands a commander may send
  MaxLines    \* bound: a server whose log is longer is not restarted again

ASSUME IncomingAssumption == \A c \in Incoming : c.slot \in Int
ASSUME MaxLinesAssumption == MaxLines \in Nat

VARIABLES
  decisionMap,  \* decisionMap[l]: the commands server l has learned
  slot_out,     \* slot_out[l]: the next slot that l will log
  factoryLog,   \* factoryLog[l]: the lines of l's log file
  logStart      \* logStart[l]: length of the file when l's process started

learnerVars == <<decisionMap, slot_out, factoryLog, logStart>>
-----------------------------------------------------------------------------
(***************************************************************************)
(* The steps of Learn as operators on the map, with faulty variants of     *)
(* three of them that the properties must be able to tell from the code.   *)
(***************************************************************************)
Slots(M) == {c.slot : c \in M}

\* Faulty variant: the old command of the slot stays beside the new one.
StoreBeside(M, c) == M \cup {c}

\* decisionMap[cmd.getSlot()] = cmd
Store(M, c) == {d \in M : d.slot # c.slot} \cup {c}

\* Faulty variant: `if` for `while`, one line per call.
IsNextOnly(M, from, g) == g = IF from \in Slots(M) THEN from + 1 ELSE from

\* Faulty variant: `do ... while`, a line is written before the map is consulted.
IsGapAfterOne(M, from, g) ==
  /\ from < g
  /\ (from + 1) .. (g - 1) \subseteq Slots(M)
  /\ g \notin Slots(M)

\* The loop `while (decisionMap.find(i) != decisionMap.end()) i++`, begun at
\* i = from, ends with i = g.
IsFirstGap(M, from, g) ==
  /\ from <= g
  /\ from .. (g - 1) \subseteq Slots(M)
  /\ g \notin Slots(M)

\* Where such a loop can end: where it begins, or one past a slot of the map.
LoopRange(M, from) == {from} \cup {s + 1 : s \in Slots(M)}

\* Faulty variant: slot_out is incremented before the line is written.
LinesFromNext(c, from, n) == [i \in 1 .. n |-> [slot |-> from + i, cmd |-> c]]

\* The lines of n iterations.  Each carries the command of this call:
\* saveCommandToFile is given cmd, not decisionMap[slot_out].
Lines(c, from, n) == [i \in 1 .. n |-> [slot |-> from + i - 1, cmd |-> c]]
-----------------------------------------------------------------------------
Init ==
  /\ decisionMap = [l \in Server |-> {}]
  /\ slot_out = [l \in Server |-> 1]
  /\ factoryLog = [l \in Server |-> <<>>]
  /\ logStart = [l \in Server |-> 0]

\* LaptopFactory::Learn(cmd) at server l.
Learn(l, cmd) ==
  LET learned == Store(decisionMap[l], cmd)
  IN  \E g \in LoopRange(learned, slot_out[l]) :
        /\ IsFirstGap(learned, slot_out[l], g)
        /\ decisionMap' = [decisionMap EXCEPT ![l] = learned]
        /\ slot_out' = [slot_out EXCEPT ![l] = g]
        /\ factoryLog' = [factoryLog EXCEPT
                            ![l] = @ \o Lines(cmd, slot_out[l], g - slot_out[l])]
        /\ UNCHANGED logStart

\* The process of l is started again: the members of LaptopFactory get their
\* initial values, main() reads nothing back, and the file now holds `lines`.
Restarted(l, lines) ==
  /\ Len(factoryLog[l]) <= MaxLines
  /\ factoryLog' = [factoryLog EXCEPT ![l] = lines]
  /\ logStart' = [logStart EXCEPT ![l] = Len(lines)]
  /\ decisionMap' = [decisionMap EXCEPT ![l] = {}]
  /\ slot_out' = [slot_out EXCEPT ![l] = 1]

\* The process of l dies in the loop of Learn(cmd), n lines into it (also before
\* the first one, or outside of Learn), and is started again.
CrashAndRestart(l, cmd) ==
  LET learned == Store(decisionMap[l], cmd)
  IN  \E g \in LoopRange(learned, slot_out[l]) :
        /\ IsFirstGap(learned, slot_out[l], g)
        /\ \E n \in 0 .. (g - slot_out[l]) :
             Restarted(l, factoryLog[l] \o Lines(cmd, slot_out[l], n))

Next == \E l \in Server, cmd \in Incoming : Learn(l, cmd) \/ CrashAndRestart(l, cmd)

Spec == Init /\ [][Next]_learnerVars
-----------------------------------------------------------------------------
LogLine == [slot : Int, cmd : Incoming]

(***************************************************************************)
(* Type correctness, and that decisionMap is a map: two commands of it     *)
(* have two slots (std::map, ServerThread.h).                              *)
(***************************************************************************)
TypeOK ==
  /\ decisionMap \in [Server -> SUBSET Incoming]
  /\ slot_out \in [Server -> Int]
  /\ factoryLog \in [Server -> Seq(LogLine)]
  /\ logStart \in [Server -> Nat]
  /\ \A l \in Server : \A c, d \in decisionMap[l] : c.slot = d.slot => c = d

(***************************************************************************)
(* slot_out is the first slot the server does not know: every slot from 1  *)
(* up to it has been learned, whatever order the commands arrived in, and  *)
(* a command that fills a gap passes all the slots waiting behind it.      *)
(***************************************************************************)
PrefixDecided ==
  \A l \in Server :
    /\ 1 .. (slot_out[l] - 1) \subseteq Slots(decisionMap[l])
    /\ slot_out[l] \notin Slots(decisionMap[l])

(***************************************************************************)
(* Since the process started, the file has gained exactly one line for     *)
(* each slot below slot_out, in slot order: no slot is skipped or written  *)
(* twice, however many commanders call Learn and however often a slot is   *)
(* learned again.                                                          *)
(***************************************************************************)
LogNumbered ==
  \A l \in Server :
    /\ Len(factoryLog[l]) - logStart[l] = slot_out[l] - 1
    /\ \A i \in (logStart[l] + 1) .. Len(factoryLog[l]) :
         factoryLog[l][i].slot = i - logStart[l]

(***************************************************************************)
(* A line that carries the command of another slot repeats the command of  *)
(* the line above it, and that command belongs to a lower slot: only the   *)
(* second and later lines of one call of Learn can be misfiled.  Also      *)
(* across restarts, and for lines written by a process that died.          *)
(***************************************************************************)
MisfiledRepeatsAbove ==
  \A l \in Server : \A i \in 1 .. Len(factoryLog[l]) :
    LET line == factoryLog[l][i]
    IN  line.cmd.slot # line.slot =>
          /\ line.cmd.slot < line.slot
          /\ i > 1
          /\ factoryLog[l][i - 1].cmd = line.cmd

(***************************************************************************)
(* What the comments promise: "after receiving the PaxosMsg (learn) from   *)
(* Commander, the learner back up the command in local storage", one line  *)
(* per slot with the command of that slot.  The code breaks it when slots  *)
(* are learned out of order.                                               *)
(***************************************************************************)
LogHoldsDecisions ==
  \A l \in Server : \A i \in 1 .. Len(factoryLog[l]) :
    factoryLog[l][i].cmd.slot = factoryLog[l][i].slot
=============================================================================
