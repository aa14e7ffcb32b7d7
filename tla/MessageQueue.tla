---------------------------- MODULE MessageQueue ----------------------------
(***************************************************************************)
(* What the tool takes the pipe of a GStreamer child for: messages sent by *)
(* any of its threads arrive one by one, whole, and in the order sent.     *)
(***************************************************************************)
EXTENDS Integers, Sequences

CONSTANT Messages

VARIABLES
  sent,       \* all messages, in the order they entered the pipe
  received    \* all messages the runner has got

Init == sent = <<>> /\ received = <<>>

Send ==
  /\ \E m \in Messages : sent' = Append(sent, m)
  /\ UNCHANGED received

Receive ==
  /\ Len(received) < Len(sent)
  /\ received' = Append(received, sent[Len(received) + 1])
  /\ UNCHANGED sent

Spec == Init /\ [][Send \/ Receive]_<<sent, received>>
=============================================================================
