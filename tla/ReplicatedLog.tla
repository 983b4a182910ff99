---------------------------- MODULE ReplicatedLog ----------------------------
(***************************************************************************)
(* What the servers together promise: one log of commands, of which each   *)
(* server learns more and more.  A slot is given to one command, for good, *)
(* and a server learns only commands that have their slot.                 *)
(*                                                                         *)
(* The paragraph above class Command (Messages.h): "A command is the       *)
(* conents that every replica is going to backup".                         *)
(***************************************************************************)
CONSTANTS
  Replica,   \* the servers
  Entry      \* the commands, records with a slot

VARIABLES
  log,       \* the commands that have their slot
  learned    \* learned[r]: the commands replica r has backed up

Init ==
  /\ log = {}
  /\ learned = [r \in Replica |-> {}]

\* A command gets a slot no other command has.
Choose(c) ==
  /\ \A d \in log : d.slot # c.slot
  /\ log' = log \cup {c}
  /\ UNCHANGED learned

Back(r, c) ==
  /\ c \in log
  /\ learned' = [learned EXCEPT ![r] = @ \cup {c}]
  /\ UNCHANGED log

Next ==
  \/ \E c \in Entry : Choose(c)
  \/ \E r \in Replica, c \in log : Back(r, c)

Spec == Init /\ [][Next]_<<log, learned>>
=============================================================================
