------------------------------ MODULE Synchronizer ------------------------------
(***************************************************************************)
(* src/helpers/synchronizer.cpp at the level of its mutex, its condition   *)
(* variable and its two counters.  The callers are the runner thread of    *)
(* each configured process and the monitoring thread, the only one that    *)
(* reads AllCompleted (without the mutex) in its measurement loop.         *)
(***************************************************************************)
EXTENDS Integers, FiniteSets

CONSTANTS
  Threads,    \* the callers of WaitForProcess
  Monitor,    \* the thread of CPerfMeasurements::Start
  NoThread,   \* the mutex is free
  Rounds      \* WaitForProcess calls of each thread (3 in the program)

ASSUME SynchronizerAssumption ==
  /\ IsFiniteSet(Threads)
  /\ Monitor \in Threads
  /\ NoThread \notin Threads
  /\ Rounds \in Nat

VARIABLES
  processReadyMtx_,    \* the thread that holds the mutex, or NoThread
  threadReadyCount_,   \* threads counted in the round that is filling up
  waitForProcessId_,   \* the rounds completed
  waitProcessId,       \* each thread's copy of waitForProcessId_
  pc,                  \* where each thread is in WaitForProcess
  arrived,             \* history: the calls each thread was counted in
  allCompleted         \* the monitor's last answer of AllCompleted

vars == <<processReadyMtx_, threadReadyCount_, waitForProcessId_,
          waitProcessId, pc, arrived, allCompleted>>

\* (faulty variant) the constructor forgets the "+ 1" of spa.cpp:13.
threadNrWithoutMonitor == Cardinality(Threads) - 1

threadNr_ == Cardinality(Threads)

\* "out": not in a call; "lock": before the lock; "counted": holds the lock,
\* counted; "reset": holds the lock, count reset; "notify": round completed and
\* unlocked, notify_all pending; "asleep": in cv.wait; "awake": woken, needs the
\* mutex to look at the predicate.
Locations == {"out", "lock", "counted", "reset", "notify", "asleep", "awake"}

Init ==
  /\ processReadyMtx_ = NoThread
  /\ threadReadyCount_ = 0
  /\ waitForProcessId_ = 0
  /\ waitProcessId = [t \in Threads |-> 0]
  /\ pc = [t \in Threads |-> "out"]
  /\ arrived = [t \in Threads |-> 0]
  /\ allCompleted = FALSE

--------------------------------------------------------------------------------
\* The monitor leaves its loop for the last call once AllCompleted said so.
MayCall(t) ==
  /\ arrived[t] < Rounds
  /\ t = Monitor /\ arrived[t] = Rounds - 1 => allCompleted

Call(t) ==
  /\ pc[t] = "out"
  /\ MayCall(t)
  /\ pc' = [pc EXCEPT ![t] = "lock"]
  /\ UNCHANGED <<processReadyMtx_, threadReadyCount_, waitForProcessId_,
                 waitProcessId, arrived, allCompleted>>

\* Lock, count this thread and copy the id of the round it waits for.
Arrive(t) ==
  /\ pc[t] = "lock"
  /\ processReadyMtx_ = NoThread
  /\ processReadyMtx_' = t
  /\ threadReadyCount_' = threadReadyCount_ + 1
  /\ waitProcessId' = [waitProcessId EXCEPT ![t] = waitForProcessId_]
  /\ pc' = [pc EXCEPT ![t] = "counted"]
  /\ arrived' = [arrived EXCEPT ![t] = @ + 1]
  /\ UNCHANGED <<waitForProcessId_, allCompleted>>

\* (faulty variant) the count is not reset.
KeepCount(t) ==
  /\ pc[t] = "counted"
  /\ threadReadyCount_ = threadNr_
  /\ pc' = [pc EXCEPT ![t] = "reset"]
  /\ UNCHANGED <<processReadyMtx_, threadReadyCount_, waitForProcessId_,
                 waitProcessId, arrived, allCompleted>>

\* The last one resets the count (a write AllCompleted can see on its own) ...
ResetCount(t) ==
  /\ pc[t] = "counted"
  /\ threadReadyCount_ = threadNr_
  /\ threadReadyCount_' = 0
  /\ pc' = [pc EXCEPT ![t] = "reset"]
  /\ UNCHANGED <<processReadyMtx_, waitForProcessId_, waitProcessId, arrived,
                 allCompleted>>

\* (faulty variant) the id advances by two.
SkipRound(t) ==
  /\ pc[t] = "reset"
  /\ waitForProcessId_' = waitForProcessId_ + 2
  /\ processReadyMtx_' = NoThread
  /\ pc' = [pc EXCEPT ![t] = "notify"]
  /\ UNCHANGED <<threadReadyCount_, waitProcessId, arrived, allCompleted>>

\* ... completes the round and unlocks ...
CompleteRound(t) ==
  /\ pc[t] = "reset"
  /\ waitForProcessId_' = waitForProcessId_ + 1
  /\ processReadyMtx_' = NoThread
  /\ pc' = [pc EXCEPT ![t] = "notify"]
  /\ UNCHANGED <<threadReadyCount_, waitProcessId, arrived, allCompleted>>

\* (faulty variant) notify_one.
NotifyOne(t) ==
  /\ pc[t] = "notify"
  /\ LET sleepers == {u \in Threads : pc[u] = "asleep"}
     IN \E u \in IF sleepers = {} THEN {t} ELSE sleepers :
          pc' = [pc EXCEPT ![u] = "awake", ![t] = "out"]
  /\ UNCHANGED <<processReadyMtx_, threadReadyCount_, waitForProcessId_,
                 waitProcessId, arrived, allCompleted>>

\* ... and wakes whoever sleeps at that moment, then returns.
NotifyAll(t) ==
  /\ pc[t] = "notify"
  /\ pc' = [u \in Threads |-> IF u = t THEN "out"
                              ELSE IF pc[u] = "asleep" THEN "awake" ELSE pc[u]]
  /\ UNCHANGED <<processReadyMtx_, threadReadyCount_, waitForProcessId_,
                 waitProcessId, arrived, allCompleted>>

\* (faulty variant) the predicate accepts the round that is still filling up.
RoundIsOverOrOpen(t) == waitProcessId[t] >= waitForProcessId_ - 1

RoundIsOver(t) == waitProcessId[t] = waitForProcessId_ - 1

\* cv.wait with a predicate: the first look at it happens with the lock held,
\* and going to sleep releases the lock in the same step.
Wait(t) ==
  /\ pc[t] = "counted"
  /\ threadReadyCount_ # threadNr_
  /\ processReadyMtx_' = NoThread
  /\ pc' = [pc EXCEPT ![t] = IF RoundIsOver(t) THEN "out" ELSE "asleep"]
  /\ UNCHANGED <<threadReadyCount_, waitForProcessId_, waitProcessId, arrived,
                 allCompleted>>

\* A woken thread takes the lock, looks at the predicate and releases the lock
\* again, to return or to sleep on.
LookAgain(t) ==
  /\ pc[t] = "awake"
  /\ processReadyMtx_ = NoThread
  /\ pc' = [pc EXCEPT ![t] = IF RoundIsOver(t) THEN "out" ELSE "asleep"]
  /\ UNCHANGED <<processReadyMtx_, threadReadyCount_, waitForProcessId_,
                 waitProcessId, arrived, allCompleted>>

SpuriousWakeup(t) ==
  /\ pc[t] = "asleep"
  /\ pc' = [pc EXCEPT ![t] = "awake"]
  /\ UNCHANGED <<processReadyMtx_, threadReadyCount_, waitForProcessId_,
                 waitProcessId, arrived, allCompleted>>

\* (faulty variants) one thread too few, and the monitor expected as well.
AllCompletedButOne ==
  /\ pc[Monitor] = "out"
  /\ arrived[Monitor] = Rounds - 1
  /\ ~allCompleted
  /\ allCompleted' = (threadReadyCount_ = threadNr_ - 2)
  /\ UNCHANGED <<processReadyMtx_, threadReadyCount_, waitForProcessId_,
                 waitProcessId, pc, arrived>>

AllCompletedWithMonitor ==
  /\ pc[Monitor] = "out"
  /\ arrived[Monitor] = Rounds - 1
  /\ ~allCompleted
  /\ allCompleted' = (threadReadyCount_ = threadNr_)
  /\ UNCHANGED <<processReadyMtx_, threadReadyCount_, waitForProcessId_,
                 waitProcessId, pc, arrived>>

\* The loop condition of the measurement loop, between the last two calls.
AllCompleted ==
  /\ pc[Monitor] = "out"
  /\ arrived[Monitor] = Rounds - 1
  /\ ~allCompleted
  /\ allCompleted' = (threadReadyCount_ = threadNr_ - 1)
  /\ UNCHANGED <<processReadyMtx_, threadReadyCount_, waitForProcessId_,
                 waitProcessId, pc, arrived>>

InsideStep(t) ==
  Arrive(t) \/ ResetCount(t) \/ CompleteRound(t) \/ NotifyAll(t)
  \/ Wait(t) \/ LookAgain(t)

Next ==
  \/ \E t \in Threads : Call(t) \/ InsideStep(t) \/ SpuriousWakeup(t)
  \/ AllCompleted

Spec == Init /\ [][Next]_vars

\* A thread inside WaitForProcess keeps running and the monitor keeps polling.
\* No thread has to make a call, and wakeups without a notify may never come.
Fairness ==
  /\ \A t \in Threads : WF_vars(InsideStep(t))
  /\ WF_vars(AllCompleted)

FairSpec == Spec /\ Fairness
--------------------------------------------------------------------------------
TypeOK ==
  /\ processReadyMtx_ \in Threads \cup {NoThread}
  /\ threadReadyCount_ \in 0..threadNr_
  /\ waitForProcessId_ \in Nat
  /\ waitProcessId \in [Threads -> Nat]
  /\ pc \in [Threads -> Locations]
  /\ arrived \in [Threads -> Nat]
  /\ allCompleted \in BOOLEAN

\* The calls a thread has returned from.
left == [t \in Threads |->
           IF pc[t] \in {"out", "lock"} THEN arrived[t] ELSE arrived[t] - 1]

\* Nobody returns from its k-th WaitForProcess while another thread has not yet
\* been counted in its own k-th one, whatever the wakeups and the order of locks.
NobodyLeavesEarly ==
  \A t, u \in Threads : left[t] <= arrived[u]

\* The predicate compares ids for equality, so a sleeper that missed two rounds
\* would sleep forever: the id it waits for is always this round's or the last.
NoRoundIsSkipped ==
  \A t \in Threads : pc[t] \in {"asleep", "awake"} =>
    waitProcessId[t] \in {waitForProcessId_ - 1, waitForProcessId_}

\* notify_all comes after the unlock: whoever sleeps through a completed round
\* still has that round's notify_all ahead of it.
NoLostWakeup ==
  \A t \in Threads : pc[t] = "asleep" /\ RoundIsOver(t) =>
    \E u \in Threads : pc[u] = "notify"

\* The count is read without the mutex: when AllCompleted said TRUE, every runner
\* is in its last call (its process has ended) and stays in it until the monitor
\* arrives, so the measurement loop never stops while a process still runs.
LoopEndsWhenAllDone ==
  allCompleted =>
    \A t \in Threads \ {Monitor} :
      /\ arrived[t] = Rounds
      /\ arrived[Monitor] < Rounds => left[t] = Rounds - 1

\* What the callers see is the barrier, the release of everybody by a complete round
\* included.
B == INSTANCE Barrier WITH entered <- arrived, left <- left
ImplementsBarrier == B!FairSpec

\* Once every runner is in its last call the monitor gets to know.
MonitorLearnsOfTheEnd ==
  (arrived[Monitor] = Rounds - 1 /\ \A t \in Threads \ {Monitor} : arrived[t] = Rounds)
    ~> allCompleted
================================================================================
