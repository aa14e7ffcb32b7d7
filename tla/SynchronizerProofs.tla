---------------------------- MODULE SynchronizerProofs ----------------------------
(***************************************************************************)
(* Theorems about Synchronizer for any finite set of threads and any       *)
(* number of rounds: the safety invariants of its runs, and that its steps *)
(* are steps of Barrier.                                                   *)
(***************************************************************************)
EXTENDS Synchronizer, FiniteSetTheorems, TLAPS

\* In a call, counted, and not yet returned.
Inside(t) == pc[t] \in {"counted", "reset", "asleep", "awake", "notify"}

\* The threads that threadReadyCount_ counts.
Counted ==
  {t \in Threads : /\ pc[t] \in {"counted", "asleep", "awake"}
                   /\ waitProcessId[t] = waitForProcessId_}

Resetting == \E t \in Threads : pc[t] = "reset"

\* The mutex is held exactly inside the critical section that spans steps.
MutexInv ==
  \A t \in Threads : pc[t] \in {"counted", "reset"} <=> processReadyMtx_ = t

\* Each thread's local state, in terms of the rounds completed so far.
LocalInv ==
  \A t \in Threads :
    /\ pc[t] \in {"out", "lock"} => arrived[t] = waitForProcessId_
    /\ Inside(t) => arrived[t] = waitProcessId[t] + 1
    /\ pc[t] \in {"counted", "reset"} => waitProcessId[t] = waitForProcessId_
    /\ pc[t] \in {"asleep", "awake"} =>
         waitProcessId[t] \in {waitForProcessId_ - 1, waitForProcessId_}
    /\ pc[t] = "notify" => waitProcessId[t] = waitForProcessId_ - 1

\* The counter is the number of threads of this round, except while the last of
\* them has reset it: then every other thread waits for this very round.
CountInv ==
  /\ ~Resetting => threadReadyCount_ = Cardinality(Counted)
  /\ Resetting => /\ threadReadyCount_ = 0
                  /\ \A t \in Threads :
                       /\ pc[t] \in {"reset", "asleep", "awake"}
                       /\ waitProcessId[t] = waitForProcessId_

\* What the monitor's last answer says about the other threads.
PollInv ==
  allCompleted => \A t \in Threads \ {Monitor} : arrived[t] = Rounds

\* Calls end with the last round.
BoundInv ==
  \A t \in Threads : /\ arrived[t] <= Rounds
                     /\ pc[t] = "lock" => arrived[t] < Rounds

IInv ==
  TypeOK /\ MutexInv /\ LocalInv /\ CountInv /\ NoLostWakeup /\ PollInv /\ BoundInv

\* There are finitely many threads.
LEMMA ThreadNr == threadNr_ \in Nat
  BY SynchronizerAssumption, FS_CardinalityType DEF threadNr_

\* The threads counted are finitely many.
LEMMA CountedFinite ==
  ASSUME TypeOK
  PROVE  /\ IsFiniteSet(Counted)
         /\ Cardinality(Counted) \in 0..threadNr_
  BY SynchronizerAssumption, ThreadNr, FS_Subset, FS_CardinalityType
     DEF Counted, threadNr_

\* A count of all threads means that every thread is in this round.
LEMMA FullCount ==
  ASSUME TypeOK, Cardinality(Counted) = threadNr_
  PROVE  Counted = Threads
<1>1. Counted \subseteq Threads
  BY DEF Counted
<1> QED
  BY <1>1, SynchronizerAssumption, FS_Subset DEF threadNr_

\* A count of all threads but one, with the monitor outside, means that every
\* runner is in this round.
LEMMA AllButMonitor ==
  ASSUME TypeOK, Monitor \notin Counted, Cardinality(Counted) = threadNr_ - 1
  PROVE  Counted = Threads \ {Monitor}
<1>1. Counted \subseteq Threads \ {Monitor}
  BY DEF Counted
<1>2. IsFiniteSet(Threads \ {Monitor})
  BY SynchronizerAssumption, FS_Subset
<1>3. Cardinality(Threads \ {Monitor}) = threadNr_ - 1
  BY SynchronizerAssumption, FS_RemoveElement DEF threadNr_
<1> QED
  BY <1>1, <1>2, <1>3, FS_Subset

\* The inductive invariant holds initially.
LEMMA InitIInv == Init => IInv
<1> SUFFICES ASSUME Init PROVE IInv
  OBVIOUS
<1>1. TypeOK
  <2>1. 0 \in 0..threadNr_
    BY ThreadNr
  <2> QED
    BY <2>1, SynchronizerAssumption DEF Init, TypeOK, Locations
<1>2. Counted = {}
  BY DEF Init, Counted
<1>3. CountInv
  BY <1>2, FS_EmptySet DEF Init, CountInv, Resetting
<1>4. MutexInv /\ LocalInv /\ NoLostWakeup /\ PollInv /\ BoundInv
  BY SynchronizerAssumption
     DEF Init, MutexInv, LocalInv, Inside, NoLostWakeup, PollInv, BoundInv
<1> QED
  BY <1>1, <1>3, <1>4 DEF IInv

\* Call keeps the inductive invariant.
LEMMA CallStep ==
  ASSUME IInv, NEW t \in Threads, Call(t)
  PROVE  IInv'
<1> USE DEF IInv
<1>1. TypeOK'
  BY DEF Call, TypeOK, Locations
<1>2. MutexInv' /\ LocalInv' /\ PollInv' /\ BoundInv'
  BY SynchronizerAssumption
     DEF Call, MayCall, TypeOK, MutexInv, LocalInv, Inside, PollInv, BoundInv
<1>3. CountInv'
  <2>1. ~Resetting /\ ~Resetting'
    BY DEF Call, TypeOK, Resetting, CountInv
  <2>2. Counted' = Counted
    BY DEF Call, TypeOK, Counted
  <2> QED
    BY <2>1, <2>2 DEF Call, CountInv
<1>4. NoLostWakeup'
  BY DEF Call, TypeOK, NoLostWakeup, RoundIsOver
<1> QED
  BY <1>1, <1>2, <1>3, <1>4

\* Arrive keeps the inductive invariant.
LEMMA ArriveStep ==
  ASSUME IInv, NEW t \in Threads, Arrive(t)
  PROVE  IInv'
<1> USE DEF IInv
<1>1. ~Resetting /\ ~Resetting'
  BY DEF Arrive, TypeOK, Resetting, CountInv
<1>2. Counted' = Counted \cup {t} /\ t \notin Counted
  BY DEF Arrive, TypeOK, Counted
<1>3. Cardinality(Counted') = Cardinality(Counted) + 1
  BY <1>2, CountedFinite, FS_AddElement
<1>4. Cardinality(Counted') <= threadNr_
  BY SynchronizerAssumption, FS_Subset DEF Counted, threadNr_
<1>5. TypeOK'
  <2>1. threadReadyCount_' \in 0..threadNr_
    BY <1>1, <1>3, <1>4, CountedFinite, ThreadNr DEF Arrive, CountInv
  <2> QED
    BY <2>1 DEF Arrive, TypeOK, Locations
<1>6. MutexInv'
  BY SynchronizerAssumption DEF Arrive, TypeOK, MutexInv
<1>7. LocalInv' /\ BoundInv'
  BY SynchronizerAssumption DEF Arrive, TypeOK, LocalInv, Inside, BoundInv
<1>8. CountInv'
  BY <1>1, <1>3 DEF Arrive, CountInv
<1>9. NoLostWakeup'
  BY DEF Arrive, TypeOK, NoLostWakeup, RoundIsOver
<1>10. PollInv'
  BY SynchronizerAssumption DEF Arrive, TypeOK, PollInv, BoundInv
<1> QED
  BY <1>5, <1>6, <1>7, <1>8, <1>9, <1>10

\* ResetCount keeps the inductive invariant.
LEMMA ResetCountStep ==
  ASSUME IInv, NEW t \in Threads, ResetCount(t)
  PROVE  IInv'
<1> USE DEF IInv
<1>1. TypeOK'
  BY ThreadNr DEF ResetCount, TypeOK, Locations
<1>2. MutexInv' /\ LocalInv' /\ PollInv' /\ BoundInv'
  BY SynchronizerAssumption
     DEF ResetCount, TypeOK, MutexInv, LocalInv, Inside, PollInv, BoundInv
<1>3. CountInv'
  <2>1. ~Resetting
    BY DEF ResetCount, CountInv
  <2>2. Counted = Threads
    BY <2>1, FullCount DEF ResetCount, CountInv
  <2>3. \A u \in Threads \ {t} : pc[u] # "counted"
    BY SynchronizerAssumption DEF ResetCount, MutexInv
  <2>4. \A u \in Threads : /\ pc'[u] \in {"reset", "asleep", "awake"}
                           /\ waitProcessId'[u] = waitForProcessId_'
    BY <2>2, <2>3 DEF ResetCount, TypeOK, Counted
  <2>5. Resetting'
    BY DEF ResetCount, TypeOK, Resetting
  <2> QED
    BY <2>4, <2>5 DEF ResetCount, CountInv
<1>4. NoLostWakeup'
  BY DEF ResetCount, TypeOK, NoLostWakeup, RoundIsOver
<1> QED
  BY <1>1, <1>2, <1>3, <1>4

\* CompleteRound keeps the inductive invariant.
LEMMA CompleteRoundStep ==
  ASSUME IInv, NEW t \in Threads, CompleteRound(t)
  PROVE  IInv'
<1> USE DEF IInv
<1>1. TypeOK'
  BY DEF CompleteRound, TypeOK, Locations
<1>2. Resetting
  BY DEF CompleteRound, Resetting
<1>3. MutexInv'
  BY SynchronizerAssumption DEF CompleteRound, TypeOK, MutexInv
<1>4. \A u \in Threads \ {t} : pc[u] \in {"asleep", "awake"}
  BY <1>2, SynchronizerAssumption DEF CompleteRound, MutexInv, CountInv
<1>5. LocalInv' /\ PollInv' /\ BoundInv'
  BY <1>2, <1>4
     DEF CompleteRound, TypeOK, LocalInv, CountInv, Inside, PollInv, BoundInv
<1>6. CountInv'
  <2>1. ~Resetting'
    BY <1>4 DEF CompleteRound, TypeOK, Resetting
  <2>2. Counted' = {}
    BY <1>2, <1>4 DEF CompleteRound, TypeOK, Counted, CountInv
  <2> QED
    BY <1>2, <2>1, <2>2, FS_EmptySet DEF CompleteRound, CountInv
<1>7. NoLostWakeup'
  BY DEF CompleteRound, TypeOK, NoLostWakeup, RoundIsOver
<1> QED
  BY <1>1, <1>3, <1>5, <1>6, <1>7

\* NotifyAll keeps the inductive invariant.
LEMMA NotifyAllStep ==
  ASSUME IInv, NEW t \in Threads, NotifyAll(t)
  PROVE  IInv'
<1> USE DEF IInv
<1>1. TypeOK'
  BY DEF NotifyAll, TypeOK, Locations
<1>2. MutexInv' /\ LocalInv' /\ PollInv' /\ BoundInv'
  BY SynchronizerAssumption
     DEF NotifyAll, TypeOK, MutexInv, LocalInv, Inside, PollInv, BoundInv
<1>3. CountInv'
  <2>1. ~Resetting /\ ~Resetting'
    BY DEF NotifyAll, TypeOK, Resetting, CountInv
  <2>2. Counted' = Counted
    BY DEF NotifyAll, TypeOK, Counted
  <2> QED
    BY <2>1, <2>2 DEF NotifyAll, CountInv
<1>4. NoLostWakeup'
  BY DEF NotifyAll, TypeOK, NoLostWakeup
<1> QED
  BY <1>1, <1>2, <1>3, <1>4

\* Wait keeps the inductive invariant.
LEMMA WaitStep ==
  ASSUME IInv, NEW t \in Threads, Wait(t)
  PROVE  IInv'
<1> USE DEF IInv
<1>1. TypeOK'
  BY DEF Wait, TypeOK, Locations
<1>2. ~RoundIsOver(t)
  BY DEF Wait, RoundIsOver, LocalInv, TypeOK
<1>3. MutexInv' /\ LocalInv' /\ PollInv' /\ BoundInv'
  BY <1>2, SynchronizerAssumption
     DEF Wait, TypeOK, MutexInv, LocalInv, Inside, PollInv, BoundInv
<1>4. CountInv'
  <2>1. ~Resetting /\ ~Resetting'
    BY <1>2 DEF Wait, TypeOK, Resetting, CountInv
  <2>2. Counted' = Counted
    BY <1>2 DEF Wait, TypeOK, Counted
  <2> QED
    BY <2>1, <2>2 DEF Wait, CountInv
<1>5. NoLostWakeup'
  BY <1>2 DEF Wait, TypeOK, NoLostWakeup, RoundIsOver
<1> QED
  BY <1>1, <1>3, <1>4, <1>5

\* LookAgain keeps the inductive invariant.
LEMMA LookAgainStep ==
  ASSUME IInv, NEW t \in Threads, LookAgain(t)
  PROVE  IInv'
<1> USE DEF IInv
<1>1. TypeOK'
  BY DEF LookAgain, TypeOK, Locations
<1>2. MutexInv' /\ LocalInv' /\ PollInv' /\ BoundInv'
  BY SynchronizerAssumption
     DEF LookAgain, RoundIsOver, TypeOK, MutexInv, LocalInv, Inside, PollInv, BoundInv
<1>3. CountInv'
  <2>1. ~Resetting /\ ~Resetting'
    BY SynchronizerAssumption DEF LookAgain, TypeOK, Resetting, MutexInv
  <2>2. Counted' = Counted
    BY DEF LookAgain, RoundIsOver, TypeOK, Counted
  <2> QED
    BY <2>1, <2>2 DEF LookAgain, CountInv
<1>4. NoLostWakeup'
  BY DEF LookAgain, TypeOK, NoLostWakeup, RoundIsOver
<1> QED
  BY <1>1, <1>2, <1>3, <1>4

\* SpuriousWakeup keeps the inductive invariant.
LEMMA SpuriousWakeupStep ==
  ASSUME IInv, NEW t \in Threads, SpuriousWakeup(t)
  PROVE  IInv'
<1> USE DEF IInv
<1>1. TypeOK'
  BY DEF SpuriousWakeup, TypeOK, Locations
<1>2. MutexInv' /\ LocalInv' /\ PollInv' /\ BoundInv'
  BY DEF SpuriousWakeup, TypeOK, MutexInv, LocalInv, Inside, PollInv, BoundInv
<1>3. CountInv'
  <2>1. Counted' = Counted /\ Resetting' = Resetting
    BY DEF SpuriousWakeup, TypeOK, Counted, Resetting
  <2> QED
    BY <2>1 DEF SpuriousWakeup, TypeOK, CountInv
<1>4. NoLostWakeup'
  BY DEF SpuriousWakeup, TypeOK, NoLostWakeup, RoundIsOver
<1> QED
  BY <1>1, <1>2, <1>3, <1>4

\* AllCompleted keeps the inductive invariant.
LEMMA AllCompletedStep ==
  ASSUME IInv, AllCompleted
  PROVE  IInv'
<1> USE DEF IInv
<1>1. TypeOK' /\ MutexInv' /\ LocalInv' /\ NoLostWakeup' /\ BoundInv'
  BY DEF AllCompleted, TypeOK, MutexInv, LocalInv, Inside, NoLostWakeup,
         RoundIsOver, BoundInv
<1>2. CountInv'
  <2>1. Counted' = Counted /\ Resetting' = Resetting
    BY DEF AllCompleted, Counted, Resetting
  <2> QED
    BY <2>1 DEF AllCompleted, CountInv
<1>3. PollInv'
  <2> SUFFICES ASSUME threadReadyCount_ = threadNr_ - 1
               PROVE  \A t \in Threads \ {Monitor} : arrived[t] = Rounds
    BY DEF AllCompleted, PollInv
  <2>1. ~Resetting /\ Monitor \notin Counted
    BY SynchronizerAssumption DEF AllCompleted, CountInv, Counted
  <2>2. Counted = Threads \ {Monitor}
    BY <2>1, AllButMonitor DEF CountInv
  <2>3. waitForProcessId_ = Rounds - 1
    BY SynchronizerAssumption DEF AllCompleted, LocalInv
  <2> QED
    BY <2>2, <2>3, SynchronizerAssumption DEF Counted, LocalInv, Inside
<1> QED
  BY <1>1, <1>2, <1>3

\* Every step keeps the inductive invariant.
LEMMA NextIInv == IInv /\ [Next]_vars => IInv'
<1> SUFFICES ASSUME IInv, [Next]_vars PROVE IInv'
  OBVIOUS
<1>1. ASSUME NEW t \in Threads, Call(t) \/ InsideStep(t) \/ SpuriousWakeup(t)
      PROVE  IInv'
  BY <1>1, CallStep, ArriveStep, ResetCountStep, CompleteRoundStep, NotifyAllStep,
     WaitStep, LookAgainStep, SpuriousWakeupStep DEF InsideStep
<1>2. CASE AllCompleted
  BY <1>2, AllCompletedStep
<1>3. CASE UNCHANGED vars
  BY <1>3 DEF vars, IInv, TypeOK, MutexInv, LocalInv, Inside, CountInv, Counted,
              Resetting, NoLostWakeup, RoundIsOver, PollInv, BoundInv
<1> QED
  BY <1>1, <1>2, <1>3 DEF Next

\* The invariant that all the others follow from.
THEOREM Invariance == Spec => []IInv
  BY InitIInv, NextIInv, PTL DEF Spec

\* The variables of the synchronizer keep their types.
THEOREM TypeCorrect == Spec => []TypeOK
  BY Invariance, PTL DEF IInv

\* The inductive invariant contains what makes a barrier.
LEMMA IInvImpliesBarrier == IInv => NobodyLeavesEarly /\ NoRoundIsSkipped
  BY DEF IInv, TypeOK, LocalInv, Inside, NobodyLeavesEarly, NoRoundIsSkipped, left,
         Locations

\* No thread returns from WaitForProcess before all of them came, for any number
\* of threads and rounds, spurious wakeups included.
THEOREM BarrierSafety == Spec => []NobodyLeavesEarly
  BY Invariance, IInvImpliesBarrier, PTL

\* The exact comparison of ids in the wait predicate never misses a round.
THEOREM NoSkippedRound == Spec => []NoRoundIsSkipped
  BY Invariance, IInvImpliesBarrier, PTL

\* A thread asleep after its round is complete has a notify_all still to come.
THEOREM WakeupsNotLost == Spec => []NoLostWakeup
  BY Invariance, PTL DEF IInv

\* The inductive invariant says when the loop may end.
LEMMA IInvImpliesLoopEnd == IInv => LoopEndsWhenAllDone
<1> SUFFICES ASSUME IInv, allCompleted, NEW t \in Threads \ {Monitor}
             PROVE  /\ arrived[t] = Rounds
                    /\ arrived[Monitor] < Rounds => left[t] = Rounds - 1
  BY DEF LoopEndsWhenAllDone
<1>1. arrived[t] = Rounds
  BY DEF IInv, PollInv
<1>2. ASSUME arrived[Monitor] < Rounds PROVE pc[t] \notin {"out", "lock"}
  BY <1>1, <1>2, SynchronizerAssumption
     DEF IInv, TypeOK, LocalInv, Inside, Locations, BoundInv
<1> QED
  BY <1>1, <1>2 DEF left

\* The unlocked read in AllCompleted never ends the measurement loop early.
THEOREM MeasuredToTheEnd == Spec => []LoopEndsWhenAllDone
  BY Invariance, IInvImpliesLoopEnd, PTL
--------------------------------------------------------------------------------
\* Every step of the synchronizer is a step of the abstract barrier or none.
LEMMA BarrierInit == Init => B!Init
  BY DEF Init, B!Init, left

\* Every step is a step of the barrier or none.
LEMMA BarrierStep == IInv /\ [Next]_vars => [B!Next]_B!vars
<1> SUFFICES ASSUME IInv, [Next]_vars PROVE [B!Next]_B!vars
  OBVIOUS
<1> USE DEF IInv, TypeOK, Locations
<1>1. ASSUME NEW t \in Threads, Arrive(t) PROVE B!Enter(t)
  BY <1>1 DEF Arrive, B!Enter, B!Waiting, left, BoundInv
<1>2. ASSUME NEW t \in Threads, Inside(t), RoundIsOver(t)
      PROVE  /\ B!Waiting(t)
             /\ \A u \in Threads : arrived[u] >= arrived[t]
  <2>1. arrived[t] = waitForProcessId_
    BY <1>2 DEF LocalInv, RoundIsOver
  <2>2. \A u \in Threads : arrived[u] \in {waitForProcessId_, waitForProcessId_ + 1}
    BY DEF LocalInv, Inside
  <2>3. left[t] = arrived[t] - 1
    BY <1>2 DEF left, Inside
  <2> QED
    BY <2>1, <2>2, <2>3 DEF B!Waiting
<1>3. ASSUME NEW t \in Threads, NotifyAll(t) PROVE B!Leave(t)
  <2>1. Inside(t) /\ RoundIsOver(t)
    BY <1>3 DEF NotifyAll, Inside, LocalInv, RoundIsOver
  <2>2. left' = [left EXCEPT ![t] = @ + 1]
    <3>1. left'[t] = left[t] + 1
      BY <1>3 DEF NotifyAll, left
    <3>2. \A u \in Threads \ {t} : left'[u] = left[u]
      BY <1>3 DEF NotifyAll, left
    <3> QED
      BY <3>1, <3>2 DEF left
  <2> QED
    BY <1>2, <1>3, <2>1, <2>2 DEF NotifyAll, B!Leave
<1>4. ASSUME NEW t \in Threads, Wait(t) \/ LookAgain(t), RoundIsOver(t)
      PROVE  B!Leave(t)
  <2>1. Inside(t)
    BY <1>4 DEF Wait, LookAgain, Inside
  <2>2. left' = [left EXCEPT ![t] = @ + 1]
    <3>1. left'[t] = left[t] + 1
      BY <1>4 DEF Wait, LookAgain, left
    <3>2. \A u \in Threads \ {t} : left'[u] = left[u]
      BY <1>4 DEF Wait, LookAgain, left
    <3> QED
      BY <3>1, <3>2 DEF left
  <2> QED
    BY <1>2, <1>4, <2>1, <2>2 DEF Wait, LookAgain, B!Leave
<1>5. ASSUME NEW t \in Threads, Wait(t) \/ LookAgain(t), ~RoundIsOver(t)
      PROVE  UNCHANGED B!vars
  BY <1>5 DEF Wait, LookAgain, B!vars, left
<1>6. ASSUME NEW t \in Threads,
             Call(t) \/ ResetCount(t) \/ CompleteRound(t) \/ SpuriousWakeup(t)
      PROVE  UNCHANGED B!vars
  BY <1>6 DEF Call, ResetCount, CompleteRound, SpuriousWakeup, B!vars, left
<1>7. CASE AllCompleted \/ UNCHANGED vars
  BY <1>7 DEF AllCompleted, vars, B!vars, left
<1> QED
  BY <1>1, <1>3, <1>4, <1>5, <1>6, <1>7 DEF Next, InsideStep, B!Next

\* The synchronizer implements the barrier (its safety part; that complete rounds
\* are released is checked by TLC).
THEOREM ImplementsBarrierSafety == Spec => B!Spec
  BY Invariance, BarrierInit, BarrierStep, PTL DEF Spec, B!Spec
================================================================================
