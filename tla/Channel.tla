------------------------------- MODULE Channel -------------------------------
(***************************************************************************)
(* What one direction of a connection promises to those who use a stub:    *)
(* messages arrive whole and in the order in which they were sent, until   *)
(* the connection fails; from then on a receive gives a default message.   *)
(***************************************************************************)
EXTENDS Naturals, Sequences

CONSTANT Default   \* what a receive that failed gives

VARIABLES
  sent,     \* the messages that were sent
  got,      \* the messages that were received
  failed    \* the receiver has given up the connection

vars == <<sent, got, failed>>

Init == sent = <<>> /\ got = <<>> /\ ~failed

\* A message, whatever it is.
Send ==
  /\ Len(sent') = Len(sent) + 1
  /\ sent' = Append(sent, sent'[Len(sent) + 1])
  /\ UNCHANGED <<got, failed>>

Deliver ==
  /\ ~failed
  /\ Len(got) < Len(sent)
  /\ got' = Append(got, sent[Len(got) + 1])
  /\ UNCHANGED <<sent, failed>>

Fail ==
  /\ failed' = TRUE
  /\ \/ UNCHANGED got
     \/ \E d \in Default : got' = Append(got, d)
  /\ UNCHANGED sent

Next == Send \/ Deliver \/ Fail

Spec == Init /\ [][Next]_vars
=============================================================================
