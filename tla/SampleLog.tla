------------------------------ MODULE SampleLog ------------------------------
(***************************************************************************)
(* What the measurement loop promises to those who analyse its samples: a  *)
(* list that only grows, of programs of which none returns once it is      *)
(* missing, and of spans of CPU time each of which begins where the one    *)
(* before ended, whether that sample has kept its span or not.             *)
(***************************************************************************)
EXTENDS Naturals, Sequences

CONSTANTS
  Programs,   \* the programs of the test
  NotYet      \* CPU time is not counted yet

VARIABLES
  log,        \* of each sample: its programs, and the spans its CPU values are about
  upTo        \* the time up to which CPU time is counted

Init == log = <<>> /\ upTo = NotYet

\* The first read of the counters.
Begin ==
  /\ upTo = NotYet
  /\ upTo' \in Nat
  /\ UNCHANGED log

\* A sample has programs of the one before, and all the time since then or none of it.
Take ==
  /\ upTo # NotYet
  /\ upTo' \in Nat /\ upTo' >= upTo
  /\ \E programs \in SUBSET (IF log = <<>> THEN Programs ELSE log[Len(log)].programs),
        cpu \in {{}, {<<upTo, upTo'>>}} :
       log' = Append(log, [programs |-> programs, cpu |-> cpu])

Spec == Init /\ [][Begin \/ Take]_<<log, upTo>>
=============================================================================
