----------------------------- MODULE TestExecution -----------------------------
(***************************************************************************)
(* One test: CSystemPerformanceAnalyzer forks the configured processes,    *)
(* their runner threads and the monitoring thread synchronise three times, *)
(* and every child is told over its pipe pair when it may go on.  SIGINT   *)
(* reaches the tool and the children as a terminal sends it, to all of     *)
(* them; a child may also crash.  Waiting uses Barrier, which Synchronizer *)
(* is shown to implement.                                                  *)
(*                                                                         *)
(* Process p is the p-th of the configuration; p is also the name of its   *)
(* runner thread.  Thread 0 is the main thread, the monitor.               *)
(***************************************************************************)
EXTENDS Integers

CONSTANTS
  N,            \* configured processes
  GstProcs,     \* those that are GStreamer pipelines
  MaxSigInts,   \* bound: presses of Ctrl-C
  MaxCrashes    \* bound: children that crash on their own

ASSUME TestExecutionAssumption ==
  /\ N \in Nat
  /\ GstProcs \subseteq 1..N
  /\ MaxSigInts \in Nat
  /\ MaxCrashes \in Nat

Monitor == 0
Procs == 1..N
Threads == 0..N
LinuxProcs == Procs \ GstProcs

VARIABLES
  spa,          \* where the main thread is
  next,         \* the process that ExecuteTest starts next
  entered,      \* the synchronizer, as a barrier
  left,
  runner,       \* where each runner thread (ParentWaitProcess) is
  waitCount,    \* its waitCount
  pid,          \* applicationPid_ of each process object in the tool
  captured,     \* the pids that CProcessMeasurements::SetProcesses copied
  child,        \* where each child process is
  toParent,     \* $WAIT$ messages in the pipe to the runner
  toChild,      \* $DONE$ messages in the pipe to the child
  pending,      \* who still has to handle a SIGINT
  interrupted,  \* executionInterrupted_, in the tool and in each forked copy
  handling,     \* the process SigIntHandler looks at in the tool; 0: not running
  strayKill,    \* history: a SIGTERM went to a pid that is no process of the test
  sigInts,      \* SIGINTs sent so far
  crashes       \* crashes so far

tool == <<spa, next, captured>>
barrier == <<entered, left>>
runners == <<runner, waitCount, pid>>
pipes == <<toParent, toChild>>
signals == <<pending, interrupted, handling, strayKill, sigInts>>
vars == <<tool, barrier, runners, child, pipes, signals, crashes>>

Sync == INSTANCE Barrier WITH Rounds <- 3

\* "unset" is the uninitialised applicationPid_ of a process object.
Pids == {"unset", "set", "zero"}
Handshake == {"forked", "await1", "init", "await2", "delay"}
Alive == Handshake \cup {"running", "closing", "await3", "ending"}
ChildStates == Alive \cup {"none", "zombie", "reaped"}
RunnerStates == {"none", "reading", "syncing", "answering", "waitpid", "clearing",
                 "lastsync", "done"}
MainStates == {"create", "fork", "store", "sync1", "init", "sync2", "loop", "sync3",
               "analyze", "exit", "killed"}

Init ==
  /\ spa = "create"
  /\ next = 1
  /\ entered = [t \in Threads |-> 0]
  /\ left = [t \in Threads |-> 0]
  /\ runner = [p \in Procs |-> "none"]
  /\ waitCount = [p \in Procs |-> 0]
  /\ pid = [p \in Procs |-> "unset"]
  /\ captured = [p \in Procs |-> "unset"]
  /\ child = [p \in Procs |-> "none"]
  /\ toParent = [p \in Procs |-> 0]
  /\ toChild = [p \in Procs |-> 0]
  /\ pending = {}
  /\ interrupted = [t \in Threads |-> FALSE]
  /\ handling = 0
  /\ strayKill = FALSE
  /\ sigInts = 0
  /\ crashes = 0

--------------------------------------------------------------------------------
(* The main thread.  A signal handler runs on it and suspends it. *)

MainAt(loc) == spa = loc /\ handling = 0

\* All process objects, and with them all pipes, exist before the first fork.
CreateProcesses ==
  /\ MainAt("create")
  /\ spa' = "fork"
  /\ UNCHANGED <<next, captured, barrier, runners, child, pipes, signals, crashes>>

\* fork() in StartThread: the child has its own copy of executionInterrupted_.
Fork ==
  /\ MainAt("fork")
  /\ next <= N
  /\ child' = [child EXCEPT ![next] = "forked"]
  /\ interrupted' = [interrupted EXCEPT ![next] = interrupted[0]]
  /\ spa' = "store"
  /\ UNCHANGED <<next, captured, barrier, runners, pipes, pending, handling,
                 strayKill, sigInts, crashes>>

\* (faulty variant) StartThread runs on a copy of the process object, as the
\* unused copies of CreateProcesses would allow: the pid is lost.
StartRunnerOfCopy ==
  /\ MainAt("store")
  /\ runner' = [runner EXCEPT ![next] = "reading"]
  /\ next' = next + 1
  /\ spa' = "fork"
  /\ UNCHANGED <<captured, barrier, waitCount, pid, child, pipes, signals, crashes>>

\* fork() has returned: applicationPid_ is stored and the runner thread started.
StartRunner ==
  /\ MainAt("store")
  /\ pid' = [pid EXCEPT ![next] = "set"]
  /\ runner' = [runner EXCEPT ![next] = "reading"]
  /\ next' = next + 1
  /\ spa' = "fork"
  /\ UNCHANGED <<captured, barrier, waitCount, child, pipes, signals, crashes>>

\* CPerfMeasurements::Start, first WaitForProcess.
StartMeasurements ==
  /\ MainAt("fork")
  /\ next > N
  /\ Sync!Enter(Monitor)
  /\ spa' = "sync1"
  /\ UNCHANGED <<next, captured, runners, child, pipes, signals, crashes>>

\* Initialize copies the pids of the Linux processes; then the second wait.
Initialize ==
  /\ MainAt("init")
  /\ captured' = [p \in Procs |-> IF p \in LinuxProcs THEN pid[p] ELSE "unset"]
  /\ Sync!Enter(Monitor)
  /\ spa' = "sync2"
  /\ UNCHANGED <<next, runners, child, pipes, signals, crashes>>

\* The measurement loop ends when AllCompleted says so; then the third wait.
EndMeasurementsLoop ==
  /\ MainAt("loop")
  /\ Sync!AllCompleted(Monitor)
  /\ Sync!Enter(Monitor)
  /\ spa' = "sync3"
  /\ UNCHANGED <<next, captured, runners, child, pipes, signals, crashes>>

MainReleased ==
  /\ handling = 0
  /\ spa \in {"sync1", "sync2", "sync3"}
  /\ Sync!Leave(Monitor)
  /\ spa' = CASE spa = "sync1" -> "init"
              [] spa = "sync2" -> "loop"
              [] spa = "sync3" -> "analyze"
  /\ UNCHANGED <<next, captured, runners, child, pipes, signals, crashes>>

AnalyzeData ==
  /\ MainAt("analyze")
  /\ spa' = "exit"
  /\ UNCHANGED <<next, captured, barrier, runners, child, pipes, signals, crashes>>

MainStep ==
  CreateProcesses \/ Fork \/ StartRunner \/ StartMeasurements \/ Initialize
  \/ EndMeasurementsLoop \/ MainReleased \/ AnalyzeData

--------------------------------------------------------------------------------
(* The runner thread of process p. *)

ToolRuns == spa # "killed"

\* A GStreamer child is never waited for: once forked, kill(pid, 0) finds it.
Exists(p) == child[p] # "reaped"

\* A message is there: it is a $WAIT$, so wait for the others.
ReadWait(p) ==
  /\ ToolRuns
  /\ runner[p] = "reading"
  /\ toParent[p] > 0
  /\ toParent' = [toParent EXCEPT ![p] = @ - 1]
  /\ Sync!Enter(p)
  /\ runner' = [runner EXCEPT ![p] = "syncing"]
  /\ UNCHANGED <<tool, waitCount, pid, child, toChild, signals, crashes>>

\* No message: a Linux runner blocks in read; a GStreamer runner asks whether the
\* process still exists, and gives up with one last wait if it does not.
PollChild(p) ==
  /\ ToolRuns
  /\ runner[p] = "reading"
  /\ toParent[p] = 0
  /\ p \in GstProcs
  /\ IF Exists(p)
       THEN UNCHANGED <<runner, barrier>>
       ELSE /\ Sync!Enter(p)
            /\ runner' = [runner EXCEPT ![p] = "lastsync"]
  /\ UNCHANGED <<tool, waitCount, pid, child, pipes, signals, crashes>>

\* (faulty variant) the runner answers without waiting for the others.
DoNotWait(p) ==
  /\ ToolRuns
  /\ runner[p] = "syncing"
  /\ left' = [left EXCEPT ![p] = @ + 1]
  /\ waitCount' = [waitCount EXCEPT ![p] = @ + 1]
  /\ runner' = [runner EXCEPT ![p] = "answering"]
  /\ UNCHANGED <<tool, entered, pid, child, pipes, signals, crashes>>

Released(p) ==
  /\ ToolRuns
  /\ runner[p] = "syncing"
  /\ Sync!Leave(p)
  /\ waitCount' = [waitCount EXCEPT ![p] = @ + 1]
  /\ runner' = [runner EXCEPT ![p] = "answering"]
  /\ UNCHANGED <<tool, pid, child, pipes, signals, crashes>>

\* The read end of p's pipe is open in p's child and in the children forked
\* before it, which inherited it, whatever they execute.
HasReader(p) == \E q \in 1..p : child[q] \in Alive

AfterAnswer(p) ==
  IF p \in LinuxProcs
    THEN IF waitCount[p] = 2 THEN "waitpid" ELSE "reading"
    ELSE IF waitCount[p] = 3 THEN "done" ELSE "reading"

\* Write $DONE$; with no reader left, SIGPIPE ends the tool.
WriteDone(p) ==
  /\ ToolRuns
  /\ runner[p] = "answering"
  /\ IF HasReader(p)
       THEN /\ toChild' = [toChild EXCEPT ![p] = @ + 1]
            /\ runner' = [runner EXCEPT ![p] = AfterAnswer(p)]
            /\ UNCHANGED spa
       ELSE /\ spa' = "killed"
            /\ UNCHANGED <<toChild, runner>>
  /\ UNCHANGED <<next, captured, barrier, waitCount, pid, child, toParent, signals,
                 crashes>>

\* (faulty variant) waitpid with WNOHANG.
DoNotWaitPid(p) ==
  /\ ToolRuns
  /\ runner[p] = "waitpid"
  /\ runner' = [runner EXCEPT ![p] = "clearing"]
  /\ UNCHANGED <<tool, barrier, waitCount, pid, child, pipes, signals, crashes>>

\* waitpid returns: from here on the pid is free for other processes ...
WaitPid(p) ==
  /\ ToolRuns
  /\ runner[p] = "waitpid"
  /\ child[p] = "zombie"
  /\ child' = [child EXCEPT ![p] = "reaped"]
  /\ runner' = [runner EXCEPT ![p] = "clearing"]
  /\ UNCHANGED <<tool, barrier, waitCount, pid, pipes, signals, crashes>>

\* (faulty variant) the third wait is forgotten.
ClearPidOnly(p) ==
  /\ ToolRuns
  /\ runner[p] = "clearing"
  /\ pid' = [pid EXCEPT ![p] = "zero"]
  /\ runner' = [runner EXCEPT ![p] = "done"]
  /\ UNCHANGED <<tool, barrier, waitCount, child, pipes, signals, crashes>>

\* ... and only then applicationPid_ is cleared; the third wait follows.
ClearPid(p) ==
  /\ ToolRuns
  /\ runner[p] = "clearing"
  /\ pid' = [pid EXCEPT ![p] = "zero"]
  /\ Sync!Enter(p)
  /\ runner' = [runner EXCEPT ![p] = "lastsync"]
  /\ UNCHANGED <<tool, waitCount, child, pipes, signals, crashes>>

RunnerEnds(p) ==
  /\ ToolRuns
  /\ runner[p] = "lastsync"
  /\ Sync!Leave(p)
  /\ runner' = [runner EXCEPT ![p] = "done"]
  /\ UNCHANGED <<tool, waitCount, pid, child, pipes, signals, crashes>>

RunnerStep(p) ==
  ReadWait(p) \/ PollChild(p) \/ Released(p) \/ WriteDone(p) \/ WaitPid(p)
  \/ ClearPid(p) \/ RunnerEnds(p)
--------------------------------------------------------------------------------
(* The child process p. *)

\* ChildWaitProcess, first half: write $WAIT$.
Ask(p) ==
  /\ child[p] \in {"forked", "init", "closing"}
  /\ toParent' = [toParent EXCEPT ![p] = @ + 1]
  /\ child' = [child EXCEPT ![p] =
                 CASE @ = "forked" -> "await1"
                   [] @ = "init" -> "await2"
                   [] @ = "closing" -> "await3"]
  /\ UNCHANGED <<tool, barrier, runners, toChild, signals, crashes>>

\* Second half: read until $DONE$.
GoOn(p) ==
  /\ child[p] \in {"await1", "await2", "await3"}
  /\ toChild[p] > 0
  /\ toChild' = [toChild EXCEPT ![p] = @ - 1]
  /\ child' = [child EXCEPT ![p] =
                 CASE @ = "await1" -> "init"
                   [] @ = "await2" -> "delay"
                   [] @ = "await3" -> "ending"]
  /\ UNCHANGED <<tool, barrier, runners, toParent, signals, crashes>>

\* After start_delay: execv, or the GStreamer main loop.
StartProgram(p) ==
  /\ child[p] = "delay"
  /\ child' = [child EXCEPT ![p] = "running"]
  /\ UNCHANGED <<tool, barrier, runners, pipes, signals, crashes>>

\* execv failed: the child exits, as after a program that ends at once.
ExecFails(p) ==
  /\ child[p] = "delay"
  /\ p \in LinuxProcs
  /\ child' = [child EXCEPT ![p] = "zombie"]
  /\ UNCHANGED <<tool, barrier, runners, pipes, signals, crashes>>

\* (faulty variant) the third ChildWaitProcess is missing.
ProgramEndsAtOnce(p) ==
  /\ child[p] = "running"
  /\ child' = [child EXCEPT ![p] = IF p \in GstProcs THEN "ending" ELSE "zombie"]
  /\ UNCHANGED <<tool, barrier, runners, pipes, signals, crashes>>

\* The program ends, or the pipeline's main loop quits (end of stream, error).
ProgramEnds(p) ==
  /\ child[p] = "running"
  /\ child' = [child EXCEPT ![p] = IF p \in GstProcs THEN "closing" ELSE "zombie"]
  /\ UNCHANGED <<tool, barrier, runners, pipes, signals, crashes>>

\* A GStreamer child cleans up and exits.
ChildExits(p) ==
  /\ child[p] = "ending"
  /\ child' = [child EXCEPT ![p] = "zombie"]
  /\ UNCHANGED <<tool, barrier, runners, pipes, signals, crashes>>

\* External: a child dies by itself (a fault, the OOM killer, a kill).
Crash(p) ==
  /\ crashes < MaxCrashes
  /\ child[p] \in Alive
  /\ child' = [child EXCEPT ![p] = "zombie"]
  /\ crashes' = crashes + 1
  /\ UNCHANGED <<tool, barrier, runners, pipes, signals>>

ChildStep(p) == Ask(p) \/ GoOn(p) \/ StartProgram(p) \/ ChildExits(p)

--------------------------------------------------------------------------------
(* SIGINT. *)

\* External: Ctrl-C goes to the tool and to every child.
CtrlC ==
  /\ spa \notin {"exit", "killed"}
  /\ pending = {}
  /\ sigInts < MaxSigInts
  /\ sigInts' = sigInts + 1
  /\ pending' = {0} \cup {p \in Procs : child[p] \in Alive}
  /\ UNCHANGED <<tool, barrier, runners, child, pipes, interrupted, handling,
                 strayKill, crashes>>

\* (faulty variants) the walk starts one too late, or ends one too late.
HandleInterruptFromSecond ==
  /\ ToolRuns
  /\ 0 \in pending
  /\ handling = 0
  /\ pending' = pending \ {0}
  /\ interrupted' = [interrupted EXCEPT ![0] = TRUE]
  /\ handling' = IF interrupted[0] \/ spa = "create" \/ N < 2 THEN 0 ELSE 2
  /\ UNCHANGED <<tool, barrier, runners, child, pipes, strayKill, sigInts, crashes>>

WalkOn == IF handling > N THEN 0 ELSE handling + 1

\* SigIntHandler in the tool: the first signal walks over processes_ (still empty
\* during CreateProcesses), later ones return at once.
HandleInterrupt ==
  /\ ToolRuns
  /\ 0 \in pending
  /\ handling = 0
  /\ pending' = pending \ {0}
  /\ interrupted' = [interrupted EXCEPT ![0] = TRUE]
  /\ handling' = IF interrupted[0] \/ spa = "create" \/ N = 0 THEN 0 ELSE 1
  /\ UNCHANGED <<tool, barrier, runners, child, pipes, strayKill, sigInts, crashes>>

NextProcess == IF handling = N THEN 0 ELSE handling + 1

\* The effect of kill(pid, SIGTERM) on a set of children.
Terminated(S) ==
  [p \in Procs |-> IF p \in S /\ child[p] \in Alive THEN "zombie" ELSE child[p]]

\* One process of the walk: GStreamer processes are skipped, a zero pid is only
\* reported, any other value is killed, whatever it names by now.
HandleProcess ==
  /\ ToolRuns
  /\ handling # 0
  /\ LET kill == handling \in LinuxProcs /\ pid[handling] # "zero"
         own == pid[handling] = "set" /\ child[handling] # "reaped"
     IN /\ child' = IF kill /\ own THEN Terminated({handling}) ELSE child
        /\ strayKill' = (strayKill \/ (kill /\ ~own))
  /\ handling' = NextProcess
  /\ UNCHANGED <<tool, barrier, runners, pipes, pending, interrupted, sigInts, crashes>>

\* Before execv a Linux child still has the inherited SigIntHandler (a GStreamer
\* child only until it registers its own): it runs on the copies made by fork,
\* where the pids of the earlier processes are set, its own is zero and those of
\* the later ones are uninitialised.
HasInheritedHandler(p) ==
  child[p] = "forked" \/ (p \in LinuxProcs /\ child[p] \in Handshake)

InheritedInterrupt(p) ==
  /\ p \in pending
  /\ HasInheritedHandler(p)
  /\ pending' = pending \ {p}
  /\ interrupted' = [interrupted EXCEPT ![p] = TRUE]
  /\ IF interrupted[p]
       THEN UNCHANGED <<child, strayKill>>
       ELSE LET earlier == {q \in LinuxProcs : q < p}
                stray == {q \in LinuxProcs : q > p \/ (q < p /\ child[q] = "reaped")}
            IN /\ child' = Terminated(earlier)
               /\ strayKill' = (strayKill \/ stray # {})
  /\ UNCHANGED <<tool, barrier, runners, pipes, handling, sigInts, crashes>>

\* StopInterruptHandler quits the main loop if it runs: before, loop_ is null or
\* g_main_loop_run resets the request, and the signal is lost.
StopInterrupt(p) ==
  /\ p \in pending
  /\ p \in GstProcs
  /\ child[p] \in Alive \ {"forked"}
  /\ pending' = pending \ {p}
  /\ child' = [child EXCEPT ![p] = IF @ = "running" THEN "closing" ELSE @]
  /\ UNCHANGED <<tool, barrier, runners, pipes, interrupted, handling, strayKill,
                 sigInts, crashes>>

\* External: an executed program ends on SIGINT, or ignores it.
ProgramInterrupt(p) ==
  /\ p \in pending
  /\ p \in LinuxProcs
  /\ child[p] = "running"
  /\ pending' = pending \ {p}
  /\ \E end \in {"running", "zombie"} : child' = [child EXCEPT ![p] = end]
  /\ UNCHANGED <<tool, barrier, runners, pipes, interrupted, handling, strayKill,
                 sigInts, crashes>>

\* A process that died before the signal was delivered.
DeadInterrupt(p) ==
  /\ p \in pending
  /\ child[p] \in {"zombie", "reaped"}
  /\ pending' = pending \ {p}
  /\ UNCHANGED <<tool, barrier, runners, child, pipes, interrupted, handling,
                 strayKill, sigInts, crashes>>

SignalStep ==
  \/ HandleInterrupt \/ HandleProcess
  \/ \E p \in Procs : InheritedInterrupt(p) \/ StopInterrupt(p)
                       \/ ProgramInterrupt(p) \/ DeadInterrupt(p)

Next ==
  \/ MainStep
  \/ \E p \in Procs : RunnerStep(p) \/ ChildStep(p) \/ ExecFails(p)
                       \/ ProgramEnds(p) \/ Crash(p)
  \/ CtrlC
  \/ SignalStep

Spec == Init /\ [][Next]_vars

\* Threads and children that can go on do so, and signals are delivered.  The
\* tested programs may run forever: nothing makes ProgramEnds happen, nor a
\* crash or a Ctrl-C.
Fairness ==
  /\ WF_vars(MainStep)
  /\ \A p \in Procs : WF_vars(RunnerStep(p)) /\ WF_vars(ChildStep(p))
  /\ WF_vars(SignalStep)

FairSpec == Spec /\ Fairness
--------------------------------------------------------------------------------
TypeOK ==
  /\ spa \in MainStates
  /\ next \in 1..(N + 1)
  /\ entered \in [Threads -> 0..3]
  /\ left \in [Threads -> 0..3]
  /\ runner \in [Procs -> RunnerStates]
  /\ waitCount \in [Procs -> 0..3]
  /\ pid \in [Procs -> Pids]
  /\ captured \in [Procs -> Pids]
  /\ child \in [Procs -> ChildStates]
  /\ toParent \in [Procs -> 0..1]
  /\ toChild \in [Procs -> 0..1]
  /\ pending \subseteq Threads
  /\ interrupted \in [Threads -> BOOLEAN]
  /\ handling \in 0..N
  /\ strayKill \in BOOLEAN
  /\ sigInts \in 0..MaxSigInts
  /\ crashes \in 0..MaxCrashes

\* No program starts before the monitor is initialised and every other child has
\* finished its own preparation: all of them joined the second wait.
NobodyStartsEarly ==
  \A p \in Procs : child[p] \in {"delay", "running", "closing", "await3", "ending"} =>
    /\ \A t \in Threads : entered[t] >= 2
    /\ \A q \in LinuxProcs : captured[q] = "set"

\* The pids the process measurements are keyed by are those of forked children:
\* copied between the first two waits, when each is stored and none is cleared.
MeasuredPidsAreReal ==
  entered[Monitor] >= 2 => \A p \in LinuxProcs : captured[p] = "set"

\* The measurement loop goes on until every program has ended: a Linux child has
\* been waited for, a GStreamer child has quit its main loop and asked to end.
MeasuredUntilAllEnded ==
  spa \in {"sync3", "analyze", "exit"} =>
    \A p \in Procs : IF p \in LinuxProcs THEN child[p] = "reaped"
                      ELSE child[p] \in {"await3", "ending", "zombie"}

\* A pipeline that ended is not torn down before the measurements have stopped.
PipelinesKeptUntilTheEnd ==
  \A p \in GstProcs : child[p] = "ending" => entered[Monitor] = 3

\* The runner of p has sent the second $DONE$ and waits for the program to end.
WaitsForEnd(p) ==
  runner[p] = "waitpid" \/ (waitCount[p] = 2 /\ runner[p] = "reading")

\* Once every runner has let its program go and every program has ended by itself
\* or by a signal, the tool gets to its results.
TestsEndTheTool ==
  (\A p \in Procs : /\ WaitsForEnd(p)
                     /\ IF p \in LinuxProcs THEN child[p] = "zombie"
                        ELSE child[p] = "closing")
    ~> spa = "exit"

\* A first Ctrl-C while all the programs run stops all of them and leads to the
\* results, also when the programs ignore SIGINT.
InterruptStopsRunningPrograms ==
  (/\ spa = "loop" /\ 0 \in pending /\ ~interrupted[0]
   /\ \A p \in Procs : p \in pending /\ child[p] = "running")
    ~> spa = "exit"

\* spa.cpp:77 says that the handler "stops the test and starts the analysis".
InterruptStopsTheTest ==
  interrupted[0] ~> spa = "exit"

\* handler.cpp:190 says "If the process is not running anymore (terminated for any
\* reason), just stop the test".
DeadPipelineStopsTheTest ==
  (/\ spa = "loop"
   /\ \A p \in LinuxProcs : child[p] = "reaped"
   /\ \A p \in GstProcs : WaitsForEnd(p) /\ child[p] = "zombie")
    ~> spa = "exit"

\* spa.cpp:89 says that the tests "need to be killed": nothing else is to be.
OnlyTestsAreKilled == ~strayKill
================================================================================
