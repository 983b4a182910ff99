------------------------------ MODULE MCLearner ------------------------------
(* Learner for TLC: commands of two customers for each of three slots, and   *)
(* one for a slot no proposer picks.                                         *)
EXTENDS Learner

MCIncoming == [slot : 1 .. 3, order : {"a", "b"}] \cup {[slot |-> 0, order |-> "a"]}
=============================================================================
