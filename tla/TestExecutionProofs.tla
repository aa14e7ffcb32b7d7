-------------------------- MODULE TestExecutionProofs --------------------------
(***************************************************************************)
(* Theorems about TestExecution for any number of processes, any choice of *)
(* pipelines among them, and any number of Ctrl-C and of crashed children: *)
(* the safety invariants of its runs.                                      *)
(***************************************************************************)
EXTENDS TestExecution, TLAPS

\* Where the runner of p goes on after its k-th answer.
At(p, k) ==
  IF p \in LinuxProcs /\ k = 2 THEN "waitpid" ELSE IF k = 3 THEN "done" ELSE "reading"

(* What the pipes and the runner of p look like around the k-th handshake of *)
(* its child: idle after it, and the four stages of being under way.  Before *)
(* StartRunner there is no runner yet, but the child may have asked already.  *)

RunnerAt(p, k) == runner[p] = At(p, k) \/ (k = 0 /\ runner[p] = "none")

Idle(p, k) ==
  toParent[p] = 0 /\ toChild[p] = 0 /\ waitCount[p] = k /\ RunnerAt(p, k)

Asked(p, k) ==
  toParent[p] = 1 /\ toChild[p] = 0 /\ waitCount[p] = k - 1 /\ RunnerAt(p, k - 1)
Synchronizing(p, k) ==
  toParent[p] = 0 /\ toChild[p] = 0 /\ waitCount[p] = k - 1 /\ runner[p] = "syncing"
Answering(p, k) ==
  toParent[p] = 0 /\ toChild[p] = 0 /\ waitCount[p] = k /\ runner[p] = "answering"
Answered(p, k) ==
  toParent[p] = 0 /\ toChild[p] = 1 /\ waitCount[p] = k /\ RunnerAt(p, k)

UnderWay(p, k) ==
  Asked(p, k) \/ Synchronizing(p, k) \/ Answering(p, k) \/ Answered(p, k)

\* A dead child has left its handshake where it was, or its runner answers it still;
\* Linux programs shake hands twice, pipelines three times.
Abandoned(p) ==
  \/ \E k \in 0..2 : Idle(p, k)
  \/ \E k \in 1..2 : UnderWay(p, k)
  \/ p \in GstProcs /\ (Idle(p, 3) \/ UnderWay(p, 3))

HandshakeInv ==
  \A p \in Procs :
    /\ child[p] \in {"none", "forked"} => Idle(p, 0)
    /\ child[p] = "await1" => UnderWay(p, 1)
    /\ child[p] = "init" => Idle(p, 1)
    /\ child[p] = "await2" => UnderWay(p, 2)
    /\ child[p] \in {"delay", "running"} => Idle(p, 2)
    /\ child[p] = "closing" => p \in GstProcs /\ Idle(p, 2)
    /\ child[p] = "await3" => p \in GstProcs /\ UnderWay(p, 3)
    /\ child[p] = "ending" => p \in GstProcs /\ Idle(p, 3)
    /\ child[p] = "zombie" => Abandoned(p)
    /\ child[p] = "reaped" =>
         /\ p \in LinuxProcs
         /\ toParent[p] = 0 /\ waitCount[p] = 2
         /\ runner[p] \in {"clearing", "lastsync", "done"}

\* The calls of WaitForProcess of each runner.
RunnerInv ==
  \A p \in Procs :
    /\ runner[p] \in {"none", "reading", "answering", "waitpid", "clearing"} =>
         entered[p] = waitCount[p] /\ left[p] = waitCount[p]
    /\ runner[p] = "syncing" => entered[p] = waitCount[p] + 1 /\ left[p] = waitCount[p]
    /\ runner[p] = "lastsync" => entered[p] = 3 /\ left[p] = 2
    /\ runner[p] = "done" => entered[p] = 3 /\ left[p] = 3
    /\ runner[p] \in {"clearing", "lastsync"} => child[p] = "reaped"

\* Those of the main thread.
MonitorInv ==
  /\ spa \in {"create", "fork", "store"} => entered[0] = 0 /\ left[0] = 0
  /\ spa = "sync1" => entered[0] = 1 /\ left[0] = 0
  /\ spa = "init"  => entered[0] = 1 /\ left[0] = 1
  /\ spa = "sync2" => entered[0] = 2 /\ left[0] = 1
  /\ spa = "loop"  => entered[0] = 2 /\ left[0] = 2
  /\ spa = "sync3" => entered[0] = 3 /\ left[0] = 2
  /\ spa \in {"analyze", "exit"} => entered[0] = 3 /\ left[0] = 3

BarrierInv == \A t, u \in Threads : left[t] <= entered[u]

\* Processes are started one after the other, all of them before the first wait.
StartInv ==
  /\ \A p \in Procs : /\ runner[p] = "none" <=> p >= next
                      /\ child[p] = "none" <=> p > next \/ (p = next /\ spa # "store")
  /\ spa = "create" => next = 1
  /\ spa = "store" => next <= N
  /\ spa \notin {"create", "fork", "store"} => next = N + 1

PidInv ==
  \A p \in Procs : pid[p] = IF runner[p] = "none" THEN "unset"
                            ELSE IF p \in LinuxProcs /\ runner[p] \in {"lastsync", "done"}
                            THEN "zero" ELSE "set"

\* The measurement loop has seen every runner in its last call.
LoopInv ==
  spa \in {"sync3", "analyze", "exit"} => \A t \in Threads : entered[t] = 3

IInv ==
  /\ TypeOK /\ HandshakeInv /\ RunnerInv /\ MonitorInv /\ BarrierInv /\ StartInv
  /\ PidInv /\ LoopInv /\ MeasuredPidsAreReal

USE TestExecutionAssumption
    DEF IInv, Procs, Threads, Monitor, LinuxProcs, tool, barrier, runners, pipes, signals,
        ToolRuns, MainAt, ChildStates, Alive, Handshake, RunnerStates, MainStates, Pids,
        Idle, UnderWay, Asked, Synchronizing, Answering, Answered, RunnerAt, At, Abandoned

--------------------------------------------------------------------------------
(* Lemmas *)

\* A thread that enters the barrier keeps BarrierInv.
LEMMA EnterKeepsBarrier ==
  ASSUME TypeOK, BarrierInv, NEW t \in Threads, Sync!Enter(t)
  PROVE  BarrierInv'
<1> SUFFICES ASSUME NEW u \in Threads, NEW v \in Threads PROVE left'[u] <= entered'[v]
  BY DEF BarrierInv
<1>1. left[u] \in 0..3 /\ entered[v] \in 0..3 /\ left[u] <= entered[v]
  BY DEF BarrierInv, TypeOK
<1>2. left'[u] = left[u] /\ entered'[v] \in {entered[v], entered[v] + 1}
  BY DEF Sync!Enter, TypeOK
<1> QED
  BY <1>1, <1>2

\* A thread that leaves the barrier keeps BarrierInv.
LEMMA LeaveKeepsBarrier ==
  ASSUME TypeOK, BarrierInv, NEW t \in Threads, Sync!Leave(t)
  PROVE  BarrierInv'
  BY DEF BarrierInv, Sync!Leave, Sync!Waiting, TypeOK

\* A runner that is to answer has not yet done so, and nobody has asked it again.
LEMMA AnsweringHasNoAnswer ==
  ASSUME TypeOK, HandshakeInv, NEW p \in Procs, runner[p] = "answering"
  PROVE  toChild[p] = 0 /\ toParent[p] = 0 /\ waitCount[p] \in 1..3
<1>1. \A k \in 0..3 : ~RunnerAt(p, k)
  OBVIOUS
<1>2. \A k \in 0..3 : UnderWay(p, k) => Answering(p, k)
  BY <1>1
<1>3. child[p] \in {"await1", "await2", "await3", "zombie"}
  BY <1>1 DEF TypeOK, HandshakeInv
<1>4. \E k \in 1..3 : UnderWay(p, k)
  BY <1>1, <1>3 DEF HandshakeInv
<1> QED
  BY <1>2, <1>4

--------------------------------------------------------------------------------
(* The steps *)

\* The inductive invariant holds initially.
LEMMA InitIInv == ASSUME Init PROVE IInv
<1> USE DEF Init
<1>1. TypeOK
  <2>1. entered \in [Threads -> 0..3] /\ left \in [Threads -> 0..3]
    OBVIOUS
  <2>2. /\ next \in 1..(N + 1) /\ handling \in 0..N
        /\ sigInts \in 0..MaxSigInts /\ crashes \in 0..MaxCrashes
    OBVIOUS
  <2>3. /\ waitCount \in [Procs -> 0..3]
        /\ toParent \in [Procs -> 0..1] /\ toChild \in [Procs -> 0..1]
    OBVIOUS
  <2> QED
    BY <2>1, <2>2, <2>3 DEF TypeOK
<1>2. HandshakeInv /\ RunnerInv /\ MonitorInv
  BY DEF HandshakeInv, RunnerInv, MonitorInv
<1>3. BarrierInv /\ StartInv /\ PidInv /\ LoopInv /\ MeasuredPidsAreReal
  BY DEF BarrierInv, StartInv, PidInv, LoopInv, MeasuredPidsAreReal
<1> QED
  BY <1>1, <1>2, <1>3

\* CreateProcesses keeps the inductive invariant.
LEMMA CreateProcessesStep == ASSUME IInv, CreateProcesses PROVE IInv'
<1> USE DEF CreateProcesses
<1>1. TypeOK'
  BY DEF TypeOK
<1>2. MonitorInv'
  BY DEF TypeOK, MonitorInv
<1>3. StartInv'
  BY DEF TypeOK, StartInv
<1>4. LoopInv'
  BY DEF TypeOK, LoopInv
<1>5. HandshakeInv' /\ RunnerInv' /\ BarrierInv' /\ PidInv' /\ MeasuredPidsAreReal'
  BY DEF HandshakeInv, RunnerInv, BarrierInv, PidInv, MeasuredPidsAreReal
<1> QED
  BY <1>1, <1>2, <1>3, <1>4, <1>5

\* Fork keeps the inductive invariant.
LEMMA ForkStep == ASSUME IInv, Fork PROVE IInv'
<1> USE DEF Fork
<1>1. TypeOK'
  BY DEF TypeOK
<1>2. HandshakeInv'
  BY DEF TypeOK, HandshakeInv, StartInv
<1>3. RunnerInv'
  BY DEF TypeOK, RunnerInv, StartInv
<1>4. MonitorInv'
  BY DEF TypeOK, MonitorInv
<1>5. StartInv'
  BY DEF TypeOK, StartInv
<1>6. LoopInv'
  BY DEF TypeOK, LoopInv
<1>7. BarrierInv' /\ PidInv' /\ MeasuredPidsAreReal'
  BY DEF BarrierInv, PidInv, MeasuredPidsAreReal
<1> QED
  BY <1>1, <1>2, <1>3, <1>4, <1>5, <1>6, <1>7

\* StartRunner keeps the inductive invariant.
LEMMA StartRunnerStep == ASSUME IInv, StartRunner PROVE IInv'
<1> USE DEF StartRunner
<1>1. TypeOK'
  BY DEF TypeOK, StartInv
<1>2. HandshakeInv'
  BY DEF TypeOK, HandshakeInv, StartInv
<1>3. RunnerInv'
  BY DEF TypeOK, RunnerInv, StartInv
<1>4. MonitorInv'
  BY DEF TypeOK, MonitorInv
<1>5. StartInv'
  BY DEF TypeOK, StartInv
<1>6. PidInv'
  BY DEF TypeOK, PidInv
<1>7. LoopInv'
  BY DEF TypeOK, LoopInv
<1>8. BarrierInv' /\ MeasuredPidsAreReal'
  BY DEF BarrierInv, MeasuredPidsAreReal
<1> QED
  BY <1>1, <1>2, <1>3, <1>4, <1>5, <1>6, <1>7, <1>8

\* StartMeasurements keeps the inductive invariant.
LEMMA StartMeasurementsStep == ASSUME IInv, StartMeasurements PROVE IInv'
<1> USE DEF StartMeasurements
<1>1. TypeOK'
  BY DEF Sync!Enter, Sync!Waiting, TypeOK, MonitorInv
<1>2. RunnerInv'
  BY DEF Sync!Enter, Sync!Waiting, TypeOK, RunnerInv
<1>3. MonitorInv'
  BY DEF Sync!Enter, Sync!Waiting, TypeOK, MonitorInv
<1>4. BarrierInv'
  BY EnterKeepsBarrier
<1>5. StartInv'
  BY DEF Sync!Enter, Sync!Waiting, TypeOK, StartInv
<1>6. LoopInv'
  BY DEF Sync!Enter, Sync!Waiting, TypeOK, LoopInv
<1>7. MeasuredPidsAreReal'
  BY DEF Sync!Enter, Sync!Waiting, TypeOK, MeasuredPidsAreReal, MonitorInv
<1>8. HandshakeInv' /\ PidInv'
  BY DEF HandshakeInv, PidInv
<1> QED
  BY <1>1, <1>2, <1>3, <1>4, <1>5, <1>6, <1>7, <1>8

\* Initialize keeps the inductive invariant.
LEMMA InitializeStep == ASSUME IInv, Initialize PROVE IInv'
<1> USE DEF Initialize
<1>1. TypeOK'
  BY DEF Sync!Enter, Sync!Waiting, TypeOK, HandshakeInv
<1>2. RunnerInv'
  BY DEF Sync!Enter, Sync!Waiting, TypeOK, RunnerInv
<1>3. MonitorInv'
  BY DEF Sync!Enter, Sync!Waiting, TypeOK, MonitorInv
<1>4. BarrierInv'
  BY EnterKeepsBarrier
<1>5. StartInv'
  BY DEF Sync!Enter, Sync!Waiting, TypeOK, StartInv
<1>6. LoopInv'
  BY DEF Sync!Enter, Sync!Waiting, TypeOK, LoopInv
<1>7. MeasuredPidsAreReal'
  <2>1. ASSUME NEW q \in LinuxProcs PROVE pid[q] = "set"
    <3>1. runner[q] # "none"
      BY DEF StartInv, TypeOK
    <3>2. left[q] <= 1
      BY DEF MonitorInv, BarrierInv
    <3>3. runner[q] \notin {"lastsync", "done"}
      BY <3>2 DEF RunnerInv
    <3> QED
      BY <3>1, <3>3 DEF PidInv
  <2> QED
    BY <2>1 DEF MeasuredPidsAreReal
<1>8. HandshakeInv' /\ PidInv'
  BY DEF HandshakeInv, PidInv
<1> QED
  BY <1>1, <1>2, <1>3, <1>4, <1>5, <1>6, <1>7, <1>8

\* EndMeasurementsLoop keeps the inductive invariant.
LEMMA EndMeasurementsLoopStep == ASSUME IInv, EndMeasurementsLoop PROVE IInv'
<1> USE DEF EndMeasurementsLoop
<1>1. TypeOK'
  BY DEF Sync!Enter, Sync!Waiting, Sync!AllCompleted, TypeOK
<1>2. RunnerInv'
  BY DEF Sync!Enter, Sync!Waiting, Sync!AllCompleted, TypeOK, RunnerInv
<1>3. MonitorInv'
  BY DEF Sync!Enter, Sync!Waiting, Sync!AllCompleted, TypeOK, MonitorInv
<1>4. BarrierInv'
  BY EnterKeepsBarrier
<1>5. StartInv'
  BY DEF Sync!Enter, Sync!Waiting, Sync!AllCompleted, TypeOK, StartInv
<1>6. LoopInv'
  BY DEF Sync!Enter, Sync!Waiting, Sync!AllCompleted, TypeOK, LoopInv, MonitorInv,
       BarrierInv
<1>7. MeasuredPidsAreReal'
  BY DEF Sync!Enter, Sync!Waiting, Sync!AllCompleted, TypeOK, MeasuredPidsAreReal,
       MonitorInv
<1>8. HandshakeInv' /\ PidInv'
  BY DEF HandshakeInv, PidInv
<1> QED
  BY <1>1, <1>2, <1>3, <1>4, <1>5, <1>6, <1>7, <1>8

\* MainReleased keeps the inductive invariant.
LEMMA MainReleasedStep == ASSUME IInv, MainReleased PROVE IInv'
<1> USE DEF MainReleased
<1>1. TypeOK'
  BY DEF Sync!Leave, Sync!Waiting, TypeOK
<1>2. RunnerInv'
  BY DEF Sync!Leave, Sync!Waiting, TypeOK, RunnerInv
<1>3. MonitorInv'
  BY DEF Sync!Leave, Sync!Waiting, TypeOK, MonitorInv
<1>4. BarrierInv'
  BY LeaveKeepsBarrier
<1>5. StartInv'
  BY DEF Sync!Leave, Sync!Waiting, TypeOK, StartInv
<1>6. LoopInv'
  BY DEF Sync!Leave, Sync!Waiting, TypeOK, LoopInv
<1>7. HandshakeInv' /\ PidInv' /\ MeasuredPidsAreReal'
  BY DEF Sync!Leave, Sync!Waiting, HandshakeInv, PidInv, MeasuredPidsAreReal
<1> QED
  BY <1>1, <1>2, <1>3, <1>4, <1>5, <1>6, <1>7

\* AnalyzeData keeps the inductive invariant.
LEMMA AnalyzeDataStep == ASSUME IInv, AnalyzeData PROVE IInv'
<1> USE DEF AnalyzeData
<1>1. TypeOK'
  BY DEF TypeOK
<1>2. MonitorInv'
  BY DEF TypeOK, MonitorInv
<1>3. StartInv'
  BY DEF TypeOK, StartInv
<1>4. LoopInv'
  BY DEF TypeOK, LoopInv
<1>5. HandshakeInv' /\ RunnerInv' /\ BarrierInv' /\ PidInv' /\ MeasuredPidsAreReal'
  BY DEF HandshakeInv, RunnerInv, BarrierInv, PidInv, MeasuredPidsAreReal
<1> QED
  BY <1>1, <1>2, <1>3, <1>4, <1>5

\* ReadWait keeps the inductive invariant.
LEMMA ReadWaitStep ==
  ASSUME IInv, NEW p \in Procs, ReadWait(p)
  PROVE  IInv'
<1> USE DEF ReadWait
<1>1. TypeOK'
  BY DEF Sync!Enter, Sync!Waiting, TypeOK, HandshakeInv, RunnerInv
<1>2. HandshakeInv'
  BY DEF Sync!Enter, Sync!Waiting, TypeOK, HandshakeInv
<1>3. RunnerInv'
  BY DEF Sync!Enter, Sync!Waiting, TypeOK, RunnerInv
<1>4. MonitorInv'
  BY DEF Sync!Enter, Sync!Waiting, TypeOK, MonitorInv
<1>5. BarrierInv'
  BY EnterKeepsBarrier
<1>6. StartInv'
  BY DEF Sync!Enter, Sync!Waiting, TypeOK, StartInv
<1>7. PidInv'
  BY DEF Sync!Enter, Sync!Waiting, TypeOK, PidInv
<1>8. LoopInv'
  BY DEF Sync!Enter, Sync!Waiting, TypeOK, LoopInv
<1>9. MeasuredPidsAreReal'
  BY DEF Sync!Enter, Sync!Waiting, TypeOK, MeasuredPidsAreReal
<1> QED
  BY <1>1, <1>2, <1>3, <1>4, <1>5, <1>6, <1>7, <1>8, <1>9

\* PollChild keeps the inductive invariant.
LEMMA PollChildStep ==
  ASSUME IInv, NEW p \in Procs, PollChild(p)
  PROVE  IInv'
<1> USE DEF PollChild
<1>1. TypeOK'
  BY DEF Sync!Enter, Sync!Waiting, Exists, TypeOK, HandshakeInv
<1>2. HandshakeInv'
  BY DEF Sync!Enter, Sync!Waiting, Exists, TypeOK, HandshakeInv
<1>3. RunnerInv'
  BY DEF Sync!Enter, Sync!Waiting, Exists, TypeOK, RunnerInv, HandshakeInv
<1>4. MonitorInv'
  BY DEF Sync!Enter, Sync!Waiting, Exists, TypeOK, MonitorInv
<1>5. BarrierInv'
  BY DEF Sync!Enter, Sync!Waiting, Exists, TypeOK, BarrierInv, HandshakeInv
<1>6. StartInv'
  BY DEF Sync!Enter, Sync!Waiting, Exists, TypeOK, StartInv
<1>7. PidInv'
  BY DEF Sync!Enter, Sync!Waiting, Exists, TypeOK, PidInv
<1>8. LoopInv'
  BY DEF Sync!Enter, Sync!Waiting, Exists, TypeOK, LoopInv
<1>9. MeasuredPidsAreReal'
  BY DEF Sync!Enter, Sync!Waiting, Exists, TypeOK, MeasuredPidsAreReal
<1> QED
  BY <1>1, <1>2, <1>3, <1>4, <1>5, <1>6, <1>7, <1>8, <1>9

\* Released keeps the inductive invariant.
LEMMA ReleasedStep ==
  ASSUME IInv, NEW p \in Procs, Released(p)
  PROVE  IInv'
<1> USE DEF Released
<1>1. TypeOK'
  BY DEF Sync!Leave, Sync!Waiting, TypeOK, RunnerInv
<1>2. HandshakeInv'
  BY DEF Sync!Leave, Sync!Waiting, TypeOK, HandshakeInv
<1>3. RunnerInv'
  BY DEF Sync!Leave, Sync!Waiting, TypeOK, RunnerInv
<1>4. MonitorInv'
  BY DEF Sync!Leave, Sync!Waiting, TypeOK, MonitorInv
<1>5. BarrierInv'
  BY LeaveKeepsBarrier
<1>6. StartInv'
  BY DEF Sync!Leave, Sync!Waiting, TypeOK, StartInv
<1>7. PidInv'
  BY DEF Sync!Leave, Sync!Waiting, TypeOK, PidInv
<1>8. LoopInv' /\ MeasuredPidsAreReal'
  BY DEF Sync!Leave, Sync!Waiting, LoopInv, MeasuredPidsAreReal
<1> QED
  BY <1>1, <1>2, <1>3, <1>4, <1>5, <1>6, <1>7, <1>8

\* WriteDone keeps the inductive invariant.
LEMMA WriteDoneStep ==
  ASSUME IInv, NEW p \in Procs, WriteDone(p)
  PROVE  IInv'
<1> USE DEF WriteDone
<1>1. TypeOK'
  <2>1. toChild[p] = 0
    BY AnsweringHasNoAnswer
  <2>2. CASE HasReader(p)
    <3>1. toChild' \in [Procs -> 0..1]
      BY <2>1, <2>2 DEF TypeOK
    <3>2. runner' \in [Procs -> RunnerStates] /\ spa' = spa
      BY <2>2 DEF AfterAnswer, TypeOK
    <3> QED
      BY <3>1, <3>2 DEF TypeOK
  <2>3. CASE ~HasReader(p)
    BY <2>3 DEF TypeOK
  <2> QED
    BY <2>2, <2>3
<1>2. HandshakeInv'
  BY DEF AfterAnswer, TypeOK, HandshakeInv
<1>3. RunnerInv'
  BY DEF AfterAnswer, TypeOK, RunnerInv
<1>4. MonitorInv'
  BY DEF AfterAnswer, TypeOK, MonitorInv
<1>5. StartInv'
  <2>1. waitCount[p] \in 1..3
    BY AnsweringHasNoAnswer
  <2>2. left[p] = waitCount[p] /\ left[p] <= entered[Monitor]
    BY DEF RunnerInv, BarrierInv
  <2>3. spa \notin {"create", "fork", "store"}
    BY <2>1, <2>2 DEF MonitorInv
  <2> QED
    BY <2>3 DEF AfterAnswer, TypeOK, StartInv
<1>6. PidInv'
  BY DEF AfterAnswer, TypeOK, PidInv
<1>7. LoopInv'
  BY DEF AfterAnswer, TypeOK, LoopInv
<1>8. BarrierInv' /\ MeasuredPidsAreReal'
  BY DEF BarrierInv, MeasuredPidsAreReal
<1> QED
  BY <1>1, <1>2, <1>3, <1>4, <1>5, <1>6, <1>7, <1>8

\* WaitPid keeps the inductive invariant.
LEMMA WaitPidStep ==
  ASSUME IInv, NEW p \in Procs, WaitPid(p)
  PROVE  IInv'
<1> USE DEF WaitPid
<1>1. TypeOK'
  BY DEF TypeOK
<1>2. HandshakeInv'
  BY DEF TypeOK, HandshakeInv
<1>3. RunnerInv'
  BY DEF TypeOK, RunnerInv
<1>4. StartInv'
  BY DEF TypeOK, StartInv
<1>5. PidInv'
  BY DEF TypeOK, PidInv
<1>6. MonitorInv' /\ BarrierInv' /\ LoopInv' /\ MeasuredPidsAreReal'
  BY DEF MonitorInv, BarrierInv, LoopInv, MeasuredPidsAreReal
<1> QED
  BY <1>1, <1>2, <1>3, <1>4, <1>5, <1>6

\* ClearPid keeps the inductive invariant.
LEMMA ClearPidStep ==
  ASSUME IInv, NEW p \in Procs, ClearPid(p)
  PROVE  IInv'
<1> USE DEF ClearPid
<1>1. TypeOK'
  BY DEF Sync!Enter, Sync!Waiting, TypeOK, BarrierInv
<1>2. HandshakeInv'
  BY DEF Sync!Enter, Sync!Waiting, TypeOK, HandshakeInv
<1>3. RunnerInv'
  BY DEF Sync!Enter, Sync!Waiting, TypeOK, RunnerInv, HandshakeInv
<1>4. MonitorInv'
  BY DEF Sync!Enter, Sync!Waiting, TypeOK, MonitorInv
<1>5. BarrierInv'
  BY EnterKeepsBarrier
<1>6. StartInv'
  BY DEF Sync!Enter, Sync!Waiting, TypeOK, StartInv
<1>7. PidInv'
  BY DEF Sync!Enter, Sync!Waiting, TypeOK, PidInv, HandshakeInv
<1>8. LoopInv'
  BY DEF Sync!Enter, Sync!Waiting, TypeOK, LoopInv
<1>9. MeasuredPidsAreReal'
  BY DEF Sync!Enter, Sync!Waiting, TypeOK, MeasuredPidsAreReal
<1> QED
  BY <1>1, <1>2, <1>3, <1>4, <1>5, <1>6, <1>7, <1>8, <1>9

\* RunnerEnds keeps the inductive invariant.
LEMMA RunnerEndsStep ==
  ASSUME IInv, NEW p \in Procs, RunnerEnds(p)
  PROVE  IInv'
<1> USE DEF RunnerEnds
<1>1. TypeOK'
  BY DEF Sync!Leave, Sync!Waiting, TypeOK
<1>2. HandshakeInv'
  BY DEF Sync!Leave, Sync!Waiting, TypeOK, HandshakeInv
<1>3. RunnerInv'
  BY DEF Sync!Leave, Sync!Waiting, TypeOK, RunnerInv
<1>4. MonitorInv'
  BY DEF Sync!Leave, Sync!Waiting, TypeOK, MonitorInv
<1>5. BarrierInv'
  BY LeaveKeepsBarrier
<1>6. StartInv'
  BY DEF Sync!Leave, Sync!Waiting, TypeOK, StartInv
<1>7. PidInv'
  BY DEF Sync!Leave, Sync!Waiting, TypeOK, PidInv
<1>8. LoopInv' /\ MeasuredPidsAreReal'
  BY DEF Sync!Leave, Sync!Waiting, LoopInv, MeasuredPidsAreReal
<1> QED
  BY <1>1, <1>2, <1>3, <1>4, <1>5, <1>6, <1>7, <1>8

\* Ask keeps the inductive invariant.
LEMMA AskStep ==
  ASSUME IInv, NEW p \in Procs, Ask(p)
  PROVE  IInv'
<1> USE DEF Ask
<1>1. TypeOK'
  BY DEF TypeOK, HandshakeInv
<1>2. HandshakeInv'
  BY DEF TypeOK, HandshakeInv
<1>3. RunnerInv'
  BY DEF TypeOK, RunnerInv
<1>4. StartInv'
  BY DEF TypeOK, StartInv
<1>5. MonitorInv' /\ BarrierInv' /\ PidInv' /\ LoopInv' /\ MeasuredPidsAreReal'
  BY DEF MonitorInv, BarrierInv, PidInv, LoopInv, MeasuredPidsAreReal
<1> QED
  BY <1>1, <1>2, <1>3, <1>4, <1>5

\* GoOn keeps the inductive invariant.
LEMMA GoOnStep ==
  ASSUME IInv, NEW p \in Procs, GoOn(p)
  PROVE  IInv'
<1> USE DEF GoOn
<1>1. TypeOK'
  BY DEF TypeOK
<1>2. HandshakeInv'
  BY DEF TypeOK, HandshakeInv
<1>3. RunnerInv'
  BY DEF TypeOK, RunnerInv
<1>4. StartInv'
  BY DEF TypeOK, StartInv
<1>5. MonitorInv' /\ BarrierInv' /\ PidInv' /\ LoopInv' /\ MeasuredPidsAreReal'
  BY DEF MonitorInv, BarrierInv, PidInv, LoopInv, MeasuredPidsAreReal
<1> QED
  BY <1>1, <1>2, <1>3, <1>4, <1>5

\* StartProgram keeps the inductive invariant.
LEMMA StartProgramStep ==
  ASSUME IInv, NEW p \in Procs, StartProgram(p)
  PROVE  IInv'
<1> USE DEF StartProgram
<1>1. TypeOK'
  BY DEF TypeOK
<1>2. HandshakeInv'
  BY DEF TypeOK, HandshakeInv
<1>3. RunnerInv'
  BY DEF TypeOK, RunnerInv
<1>4. StartInv'
  BY DEF TypeOK, StartInv
<1>5. MonitorInv' /\ BarrierInv' /\ PidInv' /\ LoopInv' /\ MeasuredPidsAreReal'
  BY DEF MonitorInv, BarrierInv, PidInv, LoopInv, MeasuredPidsAreReal
<1> QED
  BY <1>1, <1>2, <1>3, <1>4, <1>5

\* ExecFails keeps the inductive invariant.
LEMMA ExecFailsStep ==
  ASSUME IInv, NEW p \in Procs, ExecFails(p)
  PROVE  IInv'
<1> USE DEF ExecFails
<1>1. TypeOK'
  BY DEF TypeOK
<1>2. HandshakeInv'
  BY DEF TypeOK, HandshakeInv
<1>3. RunnerInv'
  BY DEF TypeOK, RunnerInv
<1>4. StartInv'
  BY DEF TypeOK, StartInv
<1>5. MonitorInv' /\ BarrierInv' /\ PidInv' /\ LoopInv' /\ MeasuredPidsAreReal'
  BY DEF MonitorInv, BarrierInv, PidInv, LoopInv, MeasuredPidsAreReal
<1> QED
  BY <1>1, <1>2, <1>3, <1>4, <1>5

\* ProgramEnds keeps the inductive invariant.
LEMMA ProgramEndsStep ==
  ASSUME IInv, NEW p \in Procs, ProgramEnds(p)
  PROVE  IInv'
<1> USE DEF ProgramEnds
<1>1. TypeOK'
  BY DEF TypeOK
<1>2. HandshakeInv'
  BY DEF TypeOK, HandshakeInv
<1>3. RunnerInv'
  BY DEF TypeOK, RunnerInv
<1>4. StartInv'
  BY DEF TypeOK, StartInv
<1>5. MonitorInv' /\ BarrierInv' /\ PidInv' /\ LoopInv' /\ MeasuredPidsAreReal'
  BY DEF MonitorInv, BarrierInv, PidInv, LoopInv, MeasuredPidsAreReal
<1> QED
  BY <1>1, <1>2, <1>3, <1>4, <1>5

\* ChildExits keeps the inductive invariant.
LEMMA ChildExitsStep ==
  ASSUME IInv, NEW p \in Procs, ChildExits(p)
  PROVE  IInv'
<1> USE DEF ChildExits
<1>1. TypeOK'
  BY DEF TypeOK
<1>2. HandshakeInv'
  BY DEF TypeOK, HandshakeInv
<1>3. RunnerInv'
  BY DEF TypeOK, RunnerInv
<1>4. StartInv'
  BY DEF TypeOK, StartInv
<1>5. MonitorInv' /\ BarrierInv' /\ PidInv' /\ LoopInv' /\ MeasuredPidsAreReal'
  BY DEF MonitorInv, BarrierInv, PidInv, LoopInv, MeasuredPidsAreReal
<1> QED
  BY <1>1, <1>2, <1>3, <1>4, <1>5

\* Crash keeps the inductive invariant.
LEMMA CrashStep ==
  ASSUME IInv, NEW p \in Procs, Crash(p)
  PROVE  IInv'
<1> USE DEF Crash
<1>1. TypeOK'
  BY DEF TypeOK
<1>2. HandshakeInv'
  BY DEF TypeOK, HandshakeInv
<1>3. RunnerInv'
  BY DEF TypeOK, RunnerInv
<1>4. StartInv'
  BY DEF TypeOK, StartInv
<1>5. MonitorInv' /\ BarrierInv' /\ PidInv' /\ LoopInv' /\ MeasuredPidsAreReal'
  BY DEF MonitorInv, BarrierInv, PidInv, LoopInv, MeasuredPidsAreReal
<1> QED
  BY <1>1, <1>2, <1>3, <1>4, <1>5

\* CtrlC keeps the inductive invariant.
LEMMA CtrlCStep == ASSUME IInv, CtrlC PROVE IInv'
<1> USE DEF CtrlC
<1>1. TypeOK'
  BY DEF TypeOK
<1>2. HandshakeInv' /\ RunnerInv' /\ MonitorInv' /\ BarrierInv' /\ StartInv' /\
          PidInv' /\ LoopInv' /\ MeasuredPidsAreReal'
  BY DEF HandshakeInv, RunnerInv, MonitorInv, BarrierInv, StartInv, PidInv, LoopInv,
       MeasuredPidsAreReal
<1> QED
  BY <1>1, <1>2

\* HandleInterrupt keeps the inductive invariant.
LEMMA HandleInterruptStep == ASSUME IInv, HandleInterrupt PROVE IInv'
<1> USE DEF HandleInterrupt
<1>1. TypeOK'
  BY DEF TypeOK
<1>2. HandshakeInv' /\ RunnerInv' /\ MonitorInv' /\ BarrierInv' /\ StartInv' /\
          PidInv' /\ LoopInv' /\ MeasuredPidsAreReal'
  BY DEF HandshakeInv, RunnerInv, MonitorInv, BarrierInv, StartInv, PidInv, LoopInv,
       MeasuredPidsAreReal
<1> QED
  BY <1>1, <1>2

\* HandleProcess keeps the inductive invariant.
LEMMA HandleProcessStep == ASSUME IInv, HandleProcess PROVE IInv'
<1> USE DEF HandleProcess
<1>1. TypeOK'
  BY DEF Terminated, NextProcess, TypeOK
<1>2. HandshakeInv'
  BY DEF Terminated, NextProcess, TypeOK, HandshakeInv
<1>3. RunnerInv'
  BY DEF Terminated, NextProcess, TypeOK, RunnerInv
<1>4. StartInv'
  BY DEF Terminated, NextProcess, TypeOK, StartInv
<1>5. MonitorInv' /\ BarrierInv' /\ PidInv' /\ LoopInv' /\ MeasuredPidsAreReal'
  BY DEF MonitorInv, BarrierInv, PidInv, LoopInv, MeasuredPidsAreReal
<1> QED
  BY <1>1, <1>2, <1>3, <1>4, <1>5

\* InheritedInterrupt keeps the inductive invariant.
LEMMA InheritedInterruptStep ==
  ASSUME IInv, NEW p \in Procs, InheritedInterrupt(p)
  PROVE  IInv'
<1> USE DEF InheritedInterrupt
<1>1. TypeOK'
  <2>1. child' \in [Procs -> ChildStates]
    BY DEF Terminated, TypeOK
  <2> QED
    BY <2>1 DEF TypeOK
<1>2. HandshakeInv'
  BY DEF Terminated, TypeOK, HandshakeInv
<1>3. RunnerInv'
  BY DEF Terminated, TypeOK, RunnerInv, HandshakeInv
<1>4. StartInv'
  BY DEF Terminated, TypeOK, StartInv, HandshakeInv
<1>5. MonitorInv' /\ BarrierInv' /\ PidInv' /\ LoopInv' /\ MeasuredPidsAreReal'
  BY DEF MonitorInv, BarrierInv, PidInv, LoopInv, MeasuredPidsAreReal
<1> QED
  BY <1>1, <1>2, <1>3, <1>4, <1>5

\* StopInterrupt keeps the inductive invariant.
LEMMA StopInterruptStep ==
  ASSUME IInv, NEW p \in Procs, StopInterrupt(p)
  PROVE  IInv'
<1> USE DEF StopInterrupt
<1>1. TypeOK'
  BY DEF TypeOK
<1>2. HandshakeInv'
  BY DEF TypeOK, HandshakeInv
<1>3. RunnerInv'
  BY DEF TypeOK, RunnerInv
<1>4. StartInv'
  BY DEF TypeOK, StartInv
<1>5. MonitorInv' /\ BarrierInv' /\ PidInv' /\ LoopInv' /\ MeasuredPidsAreReal'
  BY DEF MonitorInv, BarrierInv, PidInv, LoopInv, MeasuredPidsAreReal
<1> QED
  BY <1>1, <1>2, <1>3, <1>4, <1>5

\* ProgramInterrupt keeps the inductive invariant.
LEMMA ProgramInterruptStep ==
  ASSUME IInv, NEW p \in Procs, ProgramInterrupt(p)
  PROVE  IInv'
<1> USE DEF ProgramInterrupt
<1>1. TypeOK'
  BY DEF TypeOK
<1>2. HandshakeInv'
  BY DEF TypeOK, HandshakeInv
<1>3. RunnerInv'
  BY DEF TypeOK, RunnerInv
<1>4. StartInv'
  BY DEF TypeOK, StartInv
<1>5. MonitorInv' /\ BarrierInv' /\ PidInv' /\ LoopInv' /\ MeasuredPidsAreReal'
  BY DEF MonitorInv, BarrierInv, PidInv, LoopInv, MeasuredPidsAreReal
<1> QED
  BY <1>1, <1>2, <1>3, <1>4, <1>5

\* DeadInterrupt keeps the inductive invariant.
LEMMA DeadInterruptStep ==
  ASSUME IInv, NEW p \in Procs, DeadInterrupt(p)
  PROVE  IInv'
<1> USE DEF DeadInterrupt
<1>1. TypeOK'
  BY DEF TypeOK
<1>2. HandshakeInv' /\ RunnerInv' /\ MonitorInv' /\ BarrierInv' /\ StartInv' /\
          PidInv' /\ LoopInv' /\ MeasuredPidsAreReal'
  BY DEF HandshakeInv, RunnerInv, MonitorInv, BarrierInv, StartInv, PidInv, LoopInv,
       MeasuredPidsAreReal
<1> QED
  BY <1>1, <1>2

\* Nothing changes, nothing breaks.
LEMMA Stuttering == ASSUME IInv, UNCHANGED vars PROVE IInv'
  BY DEF vars, TypeOK, HandshakeInv, RunnerInv, MonitorInv, BarrierInv, StartInv, PidInv,
         LoopInv, MeasuredPidsAreReal

\* Every step keeps the inductive invariant.
LEMMA NextIInv == ASSUME IInv, [Next]_vars PROVE IInv'
<1>1. CASE MainStep
  BY <1>1, CreateProcessesStep, ForkStep, StartRunnerStep, StartMeasurementsStep,
     InitializeStep, EndMeasurementsLoopStep, MainReleasedStep, AnalyzeDataStep DEF MainStep
<1>2. ASSUME NEW p \in Procs, RunnerStep(p) PROVE IInv'
  BY <1>2, ReadWaitStep, PollChildStep, ReleasedStep, WriteDoneStep, WaitPidStep,
     ClearPidStep, RunnerEndsStep DEF RunnerStep
<1>3. ASSUME NEW p \in Procs, ChildStep(p) \/ ExecFails(p) \/ ProgramEnds(p) \/ Crash(p)
      PROVE  IInv'
  BY <1>3, AskStep, GoOnStep, StartProgramStep, ChildExitsStep, ExecFailsStep,
     ProgramEndsStep, CrashStep DEF ChildStep
<1>4. CASE CtrlC \/ SignalStep
  BY <1>4, CtrlCStep, HandleInterruptStep, HandleProcessStep, InheritedInterruptStep,
     StopInterruptStep, ProgramInterruptStep, DeadInterruptStep DEF SignalStep
<1> QED
  BY <1>1, <1>2, <1>3, <1>4, Stuttering DEF Next

--------------------------------------------------------------------------------
(* Theorems *)

\* The inductive invariant holds in every state.
THEOREM Invariance == Spec => []IInv
<1>1. Init => IInv
  BY InitIInv
<1>2. IInv /\ [Next]_vars => IInv'
  BY NextIInv
<1> QED
  BY <1>1, <1>2, PTL DEF Spec

\* The variables have the values of the code; no pipe ever holds two messages of one kind.
THEOREM TypeCorrect == Spec => []TypeOK
<1>1. IInv => TypeOK
  OBVIOUS
<1> QED
  BY <1>1, Invariance, PTL

\* The pids copied for the measurements are those of forked children.
THEOREM PidsAreReal == Spec => []MeasuredPidsAreReal
<1>1. IInv => MeasuredPidsAreReal
  OBVIOUS
<1> QED
  BY <1>1, Invariance, PTL

\* A child whose second question was answered has had its runner through two waits.
LEMMA PastTheSecondWait ==
  ASSUME IInv, NEW p \in Procs,
         child[p] \in {"delay", "running", "closing", "await3", "ending"}
  PROVE  left[p] >= 2
  BY DEF TypeOK, HandshakeInv, RunnerInv

\* The inductive invariant excludes an early start.
LEMMA StartedTogether == ASSUME IInv PROVE NobodyStartsEarly
<1> SUFFICES ASSUME NEW p \in Procs,
                    child[p] \in {"delay", "running", "closing", "await3", "ending"}
             PROVE  /\ \A t \in Threads : entered[t] >= 2
                    /\ \A q \in LinuxProcs : captured[q] = "set"
  BY DEF NobodyStartsEarly
<1>1. ASSUME NEW t \in Threads PROVE entered[t] >= 2
  <2>1. left[p] >= 2
    BY PastTheSecondWait
  <2>2. left[p] <= entered[t] /\ left[p] \in 0..3 /\ entered[t] \in 0..3
    BY DEF BarrierInv, TypeOK
  <2> QED
    BY <2>1, <2>2
<1> QED
  BY <1>1 DEF MeasuredPidsAreReal

\* No program starts, and no pipeline plays, before the monitor is initialised with the
\* pids of all Linux programs and every other child is ready.
THEOREM TogetherStarted == Spec => []NobodyStartsEarly
<1>1. IInv => NobodyStartsEarly
  BY StartedTogether
<1> QED
  BY <1>1, Invariance, PTL

\* The inductive invariant excludes a loop that ends before a program.
LEMMA MeasuredToTheEnd == ASSUME IInv PROVE MeasuredUntilAllEnded
<1> SUFFICES ASSUME spa \in {"sync3", "analyze", "exit"}, NEW p \in Procs
             PROVE  IF p \in LinuxProcs THEN child[p] = "reaped"
                    ELSE child[p] \in {"await3", "ending", "zombie"}
  BY DEF MeasuredUntilAllEnded
<1>1. entered[p] = 3
  BY DEF LoopInv
<1>2. CASE p \in LinuxProcs
  BY <1>1, <1>2, SMTT(30) DEF TypeOK, HandshakeInv, RunnerInv
<1>3. CASE p \in GstProcs
  BY <1>1, <1>3, SMTT(30) DEF TypeOK, HandshakeInv, RunnerInv
<1> QED
  BY <1>2, <1>3

\* The measurement loop ends only after every Linux program was waited for and every
\* pipeline has left its main loop.
THEOREM LoopMeasuresAll == Spec => []MeasuredUntilAllEnded
<1>1. IInv => MeasuredUntilAllEnded
  BY MeasuredToTheEnd
<1> QED
  BY <1>1, Invariance, PTL

\* The inductive invariant excludes a pipeline freed while it is measured.
LEMMA PipelinesKept == ASSUME IInv PROVE PipelinesKeptUntilTheEnd
<1> SUFFICES ASSUME NEW p \in GstProcs, child[p] = "ending" PROVE entered[Monitor] = 3
  BY DEF PipelinesKeptUntilTheEnd
<1>1. p \in Procs /\ waitCount[p] = 3 /\ runner[p] = "done"
  BY DEF HandshakeInv
<1>2. left[p] = 3 /\ left[p] <= entered[Monitor]
  BY <1>1, TestExecutionAssumption DEF RunnerInv, BarrierInv
<1>3. entered[Monitor] \in 0..3
  BY DEF TypeOK
<1> QED
  BY <1>2, <1>3

\* A pipeline is torn down only after the monitor has stopped measuring.
THEOREM TeardownAfterMeasuring == Spec => []PipelinesKeptUntilTheEnd
<1>1. IInv => PipelinesKeptUntilTheEnd
  BY PipelinesKept
<1> QED
  BY <1>1, Invariance, PTL
================================================================================
