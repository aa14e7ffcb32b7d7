-------------------------------- MODULE Barrier --------------------------------
(***************************************************************************)
(* What Synchronizer promises to its callers: a barrier that is used round *)
(* after round.  Nobody leaves its k-th WaitForProcess before every thread *)
(* has arrived in its own k-th one.  No mutex, counter or condition        *)
(* variable appears here; the module Synchronizer implements this one.     *)
(***************************************************************************)
EXTENDS Integers

CONSTANTS
  Threads,   \* one runner thread per configured process, and the monitor
  Rounds     \* how often each of them waits (three times in the program)

VARIABLES
  entered,   \* entered[t]: the calls of WaitForProcess that t was counted in
  left       \* left[t]: the calls of WaitForProcess that t returned from

vars == <<entered, left>>

Waiting(t) == entered[t] = left[t] + 1

\* Every other thread already arrived in the round that t has yet to join.
AllCompleted(t) == \A u \in Threads \ {t} : entered[u] > entered[t]

Init ==
  /\ entered = [t \in Threads |-> 0]
  /\ left = [t \in Threads |-> 0]

Enter(t) ==
  /\ ~Waiting(t)
  /\ entered[t] < Rounds
  /\ entered' = [entered EXCEPT ![t] = @ + 1]
  /\ UNCHANGED left

Leave(t) ==
  /\ Waiting(t)
  /\ \A u \in Threads : entered[u] >= entered[t]
  /\ left' = [left EXCEPT ![t] = @ + 1]
  /\ UNCHANGED entered

Next == \E t \in Threads : Enter(t) \/ Leave(t)

Spec == Init /\ [][Next]_vars

\* A thread whose round is complete is released; nobody has to join a round.
FairSpec == Spec /\ \A t \in Threads : WF_vars(Leave(t))
================================================================================
