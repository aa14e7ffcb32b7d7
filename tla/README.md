# Verification of the system performance analyzer

The system performance analyzer (`spa`) runs Linux programs and GStreamer
pipelines, measures the system, the programs and the pipelines while they run, and
afterwards computes correlations, summaries and threshold results and exports
them. This directory holds TLA+ models of that program, their TLC runs and proofs.
`PROJECT.json` maps each definition to the source lines it stands for.
All paths below are relative to the repository; `src/...` is its source directory.

## 1. Inventory

| Part (source) | State it keeps | Operations | What makes it correct |
|---|---|---|---|
| Synchronizer (`src/helpers/synchronizer.*`) | mutex, condition variable, count of waiting threads, id of the current round | `WaitForProcess`, `AllCompleted` | it is a reusable barrier: nobody leaves a round early, nobody sleeps through one; `AllCompleted` is TRUE only when every runner is in its last call, although it reads the count without the mutex |
| Test execution (`src/spa.*`, `main.cpp`) | `processes_`, `executionInterrupted_` | `CreateProcesses`, `ExecuteTest`, `SigIntHandler` | no program starts before everybody is ready; a Ctrl-C ends the test and kills nothing else |
| Process runners (`src/linux/run_process.*`, `src/gstreamer/handler.*`, `src/process_runner`) | `applicationPid_`, runner thread, pipe pair; in the child its own copies | `StartThread` (fork), `ParentWaitProcess`, `ChildWaitProcess`, `ChildExecProcess`, `RunPipeline`, `StopInterruptHandler` | each `$WAIT$` is answered by one `$DONE$`; pids are those of the children; the last wait is joined exactly when the program has ended |
| Measurement loop and kernel sensors (`perf_measurements.*`, `process_measurements.*`, `system_measurements.*`, `data_handler.*`, `datahandlers/`, `filesystem*`, `proc_handler.*`) | field definitions, ids, per-type parser caches, active processes, samples | `Initialize`, `StartMeasurementsLoop`, `ParseMeasurements`, `GetMeasurements`, `GetSensors` | an id names one sensor, a sample holds whole groups, CPU time is neither counted twice nor lost, a missing file ends a process' measurement and not the tool |
| Pipe between child and runner (`pipe_comm.*`, `run_process_base.*`) | the pipe pair, the message under construction | `Write`, `ReadBetweenChars`, `ChildWaitProcess` | messages of all threads arrive whole and in order, `$WAIT$` is answered, a full pipe keeps no child alive after the tool |
| Pipeline measurements and traces (`trace_parser.*`, `atomic_queue.h`, `pipeline_measurements.*`) | queue per pipeline, ids per pipeline and element | `TraceCallbackFunction`, `ParseTraceStructure`, `ProcessGstreamer`, `SortData` | no trace is lost or repeated on its way, values are attributed to the right element and round |
| Analysis (`correlation.*`, `summarize_data.h`, `performance_helpers.cpp`, `struct_sensors.*`) | summaries, correlation results, `thresholdExceeded` | `GetCorrelation`, `GetSummarizedData`, `HandleThreshold`, `SetThresholdResults` | simultaneous values are paired, results are in their range, a mark is set iff a threshold is exceeded |
| Exports (`src/exports`) | what the live view remembers; after the test none | live view, CSV, graphs, JSON, summary, in the order of the configuration | every value under its own label, what is drawn and printed is of this test and agrees with the tables, one file that cannot be written does not hold up the others, the live view shows of every sensor what it measured last |
| Configuration and arguments (`main.cpp`, `input_handler.*`, `src/json_config`) | the arguments, the configuration; constant during a test | option parsing, `VerifyArguments`, the `from_json` functions | the test that was asked for is executed, and nothing is touched when it cannot be read |
| Helpers (`helper_functions`, `logger`, `timer`, `stopwatch`) | none | string functions, logging, clocks | - |

How they interact: `ExecuteTest` forks one child per configured process and starts
one runner thread for each; the main thread becomes the monitor. Each child talks
to its runner over a pair of pipes: it writes `$WAIT$`, the runner calls
`Synchronizer::WaitForProcess` for it, and writes `$DONE$`. All threads wait three
times: when every child exists, when everybody is prepared, and when every program has
ended. Between the second and the third wait the monitor runs the measurement loop,
which reads `/proc`, `/sys` and the queues that the runners of GStreamer pipelines
fill from the traces in their pipes. After the third wait the main thread analyses
the samples and exports the results.

Hard behaviours: the interleavings of main thread, runners, children and streaming
threads; the unlocked reads in `AllCompleted`, `AtomicQueue::size` and `AtomicQueue::front`; a SIGINT
that reaches all processes at once, at any moment, also children that still have
the handler of the tool; children that die; `/proc` entries that disappear between
two reads; pids that are cleared late. `PROJECT.json` lists each hazard at its
line.

## 2. Modules

| Module | Models | Form |
|---|---|---|
| `Barrier` | what `Synchronizer` promises | abstract specification: calls that were counted and calls that returned |
| `Synchronizer` | `WaitForProcess` and `AllCompleted` | one action per atomic section; implements `Barrier` (refinement mapping `entered <- arrived, left <- left`, `left` defined from the state) |
| `TestExecution` | the tool, its runners, the children, the pipes and SIGINT | waits through an instance of `Barrier` |
| `MessageQueue` | what the pipe between a child and its runner promises | abstract specification: messages sent and messages received |
| `PipeFraming`, `PipeFramingMC` | that pipe byte by byte | one action per `write(2)` and per byte read; implements `MessageQueue` |
| `KernelFiles` | the parsers of `/proc` and `/sys` files | operators: a file goes in, values or an exception come out |
| `SampleLog` | what the measurement loop promises to those who analyse its samples | abstract specification: a list that only grows, of programs and spans of CPU time |
| `Measurements`, `MeasurementsMC` | initialisation and loop, data handler and parsers against programs that end and files that change | sequential thread, world that moves between any two reads; reads through an instance of `KernelFiles`; implements `SampleLog` (`log <- Taken`, `upTo <- CountedUpTo`, defined from the state) |
| `Traces`, `TracesMC` | traces from the callback to the sample | children, runners and the measurement loop, starting after the second wait |
| `Analysis` | correlation, summaries, thresholds | operators over the samples of a test and the actions of `AnalyzeData` |
| `Configuration` | command line and both JSON files | operators: options or an object go in, arguments or a configuration come out |
| `Exports` | live view and exports | extends `Analysis` and `Configuration` with `MeasureAndShow` and `ExecuteExport` |
| `Tool`, `ToolMC` | `main` from its command line to its exit, the processes of the test left out | extends `Exports`; the composition of the last three, with the properties that relate them |
| `SynchronizerProofs`, `TestExecutionProofs`, `PipeFramingProofs`, `MeasurementsProofs`, `TracesProofs`, `ToolProofs` | | theorems about the module each is named after |
| `AnalysisProofs` | | lemmas about the operators of `Analysis`, cited by `ToolProofs`, which extends it |
| `SetInduction` | | induction over the natural numbers, stated for sets of numbers; used by `MeasurementsProofs`, `TracesProofs` and `AnalysisProofs` |

How they fit together: `TestExecution` takes the barrier (`Barrier`) and whole messages
(`MessageQueue`) for granted, and `Synchronizer` and `PipeFraming` show that the code
provides them. `Measurements` and `Traces` are what happens between the second and the third wait
of `TestExecution`; the samples they store are the inputs that `Tool` enumerates.

Definitions marked "(faulty variant)" are not part of any specification. Each one is
a plausible mistake in the definition that follows or that it is named after;
`PROJECT.json` pairs it with a property that finds it.

### How state and actions correspond to the code

*Synchronizer.* `threadReadyCount_`, `waitForProcessId_`, `processReadyMtx_` are the
members; `waitProcessId` is the local of each call, `pc` where a thread is, `arrived`
a history of the calls that were counted. `Arrive` is the locked part up to the
comparison, `ResetCount` and `CompleteRound` the two writes of the last thread
(between which `AllCompleted` can read), `NotifyAll` the notification after the unlock,
`Wait`, `LookAgain`, `SpuriousWakeup` the predicate wait. `AllCompleted` reads the
count at any moment.

*TestExecution.* `spa` is where the main thread is, `runner[p]` where each
`ParentWaitProcess` is, `child[p]` where each child is, `toParent`/`toChild` the
messages in its pipes, `pid[p]` its `applicationPid_` (uninitialised, set, zero),
`captured` the pids the process measurements copied, `interrupted[0]` the flag of the
tool and `interrupted[p]` that of the copy in child p. A signal handler in the tool runs
on the main thread and suspends it (`handling`), one process of its walk per step,
so runners and children move in between. A Linux child keeps the inherited handler
until `execv`; its walk over the copied processes is one step. `strayKill` records a
SIGTERM to a pid that is no process of the test.

*Measurements.* `InitializeRuntime` of one parser and `ParseMeasurement` of one field
are steps of their own; between them time passes (`Tick`), programs end, runners
wait for them and their `/proc` directories disappear, and the pids may come back as
other processes with names of their own. `statOwner` is history: whose `/proc/<pid>/stat` the entry of
a pid was read from, the program's or the other's. The parser reads the file in every round, and what
it finds there may end the tool, but an entry that is there already stays (`Insert`). A value is represented by the interval of kernel time it is about,
which is what tells a stale value from a current one and a counted interval from a
lost one. `Terminated` is an exception nobody catches.

*Traces.* A trace is a number, `traces[p]` says what it is about. `pipe`, `message` and
`fifo` hold the numbers on their way; `toTake` is what is left of `queueSize`. `push` and `pop`
hold the mutex of the queue, `size` and `front` do not. A size
that is read while the runner is inside `push` is a data race: the model returns any
small number, and a 0 in `GetMeasurement` ends the tool (`terminated`). So `front` may look at
a queue that is still empty. It then copies the slot the push is writing to (`Slot`: any element,
with the value of the new trace, of an older one, or none), or crashes; `pop` waits for the mutex and
removes the trace that was pushed meanwhile. `CopyFront` and `Pop` are therefore two steps, and
`measurement` is the local that `front` filled. `taken`, and `removed` and `element` of an item, are history:
the trace last removed, the one removed for a value, and what the value is said to be of.

*KernelFiles.* A file is rows or tokens. A token of `/proc/<pid>/stat` is represented by
the field the kernel wrote it for and by whether it is a number, which is all that a shifted
line changes. Values are fractions `<<value, compared to>>`. `Machines` in `Measurements`
gives the files of a machine over time. There are four: one on which only a sensor's file is
unreadable at times; one with a CPU that goes and comes back while the sensor's file holds a text;
one with a text in the file that says whether a sensor is enabled; and one where the sensor is
disabled, a program has blanks in its name, and another process with a blank in its name takes the
pid of a program that has ended.

*PipeFraming.* `buffer` is the pipe, `writing[t]` what thread t still has to write. A
message of at most `PipeBuf` bytes enters at once or waits for room; `result` is the
message `ReadBetweenChars` has read so far. `tool` and `heir` are those who hold the read
end: without any of them a write ends the child by SIGPIPE. All pipes are made before the first
fork (`src/spa.cpp:32` to 49), so the heirs are all other children, those forked earlier included.

*Analysis.* `data` holds what each sample has of each sensor. Results are fractions,
so nothing depends on how doubles are rounded. The coefficient is kept as numerator
and squared denominators. A collective sensor (the cores of an array, the
elements of a pipeline) is a sensor whose `Members` are others.

*Exports.* A CSV file is its labels and rows of cells, a graph the two curves gnuplot
draws of them, the JSON file the labels of the sensors and the correlations, the summary a function from
sensors to what is printed. The files
of an earlier test may lie there. `readOnly` are the files that do not open for writing (`Opens`): the code says nothing
of it, writes no row and goes on. `live` is the state of `CTerminalUI` and the bars of its screen. Which sensor
of a pipeline is shown for each kind of measurement follows from the order of a hash map: a
nondeterministic choice, made anew whenever an element of the pipeline has been measured for
the first time. `live.viewed` is history: the samples for which a sensor stood in the view. Sensors of processes have no id yet when the live view asks for them and are
never shown.

*Tool.* `pc` is where `main` is: "arguments", "parse", "initialize", "measure",
"thresholds", "export", and at last "returned", "refused" (exit code -1) or "terminated"
(an exception nobody catches). A JSON object is a function from the fields it has to their
values; `Thrown` is what a `from_json` returns for one that lacks a required field or has a word
none of the enumerations knows.

## 3. Runs

| Run | Instance | Shows |
|---|---|---|
| `synchronizer` | 3 runners and the monitor, 3 rounds | safety, refinement of `Barrier`, liveness |
| `execution_safety` | Linux, GStreamer, Linux; 2 Ctrl-C, 1 crash | start-up handshake, pids, end of the loop |
| `execution_live` | Linux, GStreamer; 1 Ctrl-C | ended programs and a Ctrl-C while everything runs lead to the results |
| `execution_interrupt` | Linux, GStreamer; 1 Ctrl-C | disagreement: a Ctrl-C during start-up does not stop the test |
| `execution_deadpipeline` | Linux, GStreamer; 1 crash | disagreement: a dead pipeline does not stop the test |
| `execution_straykill` | Linux, GStreamer; 1 Ctrl-C | disagreement: SIGTERM to an uninitialised or freed pid |
| `measurements_samples` | 2 programs, 2 samples, 2 ticks, four machines, sensors of the system and of the processes, an array of both | what is stored is whole, rightly attributed and covers CPU time without gap; refinement of `SampleLog`; parsers read the right field or the tool ends |
| `measurements_stale` | 1 program | disagreement: values of `/proc/<pid>/stat` are those of the first sample |
| `traces` | 2 pipelines, 2 elements, 3 traces, 2 samples | no trace lost, doubled or overtaken until `pop` removes it, later samples are of later traces, ids, order of the values |
| `framing` | 2 streaming threads, 4 traces of 1 or 2 bytes, room for 7 bytes | refinement of `MessageQueue`, answers, end of a child stuck in a full pipe |
| `tool_results` | 8 sensors, 19 command lines, 9 configurations, up to 3 samples, files that do not open | pairing, range of the coefficient, summary, marks, graphs against measurements, summary against CSV, live view, exit |
| `tool_threshold` | the same, 2 samples | disagreement: thresholds are compared the other way round |

The findings in `PROJECT.json` quote the line each disagreement contradicts.

### Bounds and why they are enough

* *Synchronizer.* Three runners are the least with which one thread can notify, one
  sleep and one overtake into the next round. The program has three rounds, and the
  monitor polls before the third. The theorems remove both bounds.
* *TestExecution.* The pipeline is between two Linux programs so that a Linux child
  inherits the pids of an earlier and finds a later one uninitialised, and inherits
  pipes of a pipeline. `MaxSigInts = 2` covers the handler's second, ignored call;
  `MaxCrashes = 1` one failure at every point. The liveness runs use two processes, one
  of each kind.
* *Measurements.* Two samples relate a value to the one before it; two programs give
  an order to skip in; two ticks separate the reads of two rounds from those of
  `Initialize`. The configuration holds the types `PROC_MEM`, `PROC_STAT`,
  `DIRECT`, `PID_STAT`, `DIRECT_PID` and an array with fields of both classes;
  `PID_STATM` is read as a parser without a field of its own. Arrays in arrays are left
  out. The two CPUs of the machines are one that idles half the time and one that only
  waits, so that a group of counters that leaves one out shows.
* *Traces.* Three traces are the least that leave a group unsorted (one element alone,
  then two elements read in the other order). `PipeSize = 1` makes a full pipe common. A value
  copied from the slot of a push needs one trace, an older one in the slot two. Two pipelines share the counter of the ids.
  Pipelines and elements are interchangeable in the code, hence the symmetry; the run
  has only safety properties. There is no action for a child that dies: it is one that takes no
  further step, and without fairness any child may be that.
* *PipeFraming.* A trace of two bytes in its frame is as long as an atomic write, one of one byte
  shorter, and the pipe has room for two messages of different length with a byte to spare, so
  that a message waits for room with some of it there. Four traces fill the
  pipe once more after the third `$WAIT$`.
* *Tool.* The code's constants are parameters: at least 10 samples for a
  correlation is scaled to 2, trimming 2 of more than 10 to 1 of more than 2, so that
  three samples lie on both sides of both limits, with even and odd sizes. The six
  samples correlate the sensors either way and leave gaps on either side.
  The sensors: a pipeline that starts late, of two elements that are not always measured
  in the same sample, with their collective sensor; two cores and their collective sensor, with a multiplier of 2; two programs
  whose sensors have the same name, for one of which a live view is asked. All files can be written, or the CSV file of the
  system and the JSON file cannot, or there is no folder for the graphs. The configurations of tests: all exports but in an order
  that has a disabled and a repeated one, steady state with a verbose summary, graphs without a new CSV file,
  no exports, and five that cannot be read, each for another reason.

The runs of `Tool` and `Measurements` check for deadlock: only their `Terminating`
states may be last. The others set `CHECK_DEADLOCK FALSE`: a tool can be killed or wait
forever for a child that died or for a wait that is never complete, and the bounds stop the
environment.

### Fairness

Weak fairness of the steps of each thread and child that is able to go on, and of the
delivery of signals: the operating system schedules them. In `Synchronizer` each
thread's steps inside a call and the polling of the monitor are fair; making a call is
not, because a runner calls only when its child asks, nor are spurious wakeups.
No fairness for the end of a
tested program, for Ctrl-C, for a crash or for kernel time: a tested program may
run forever. So the liveness properties have the end of the programs (or the Ctrl-C)
as their premise. In `PipeFraming` the threads of the child and the runner are fair, and so is
the answer to `$WAIT$` (`execution_live` checks that the others arrive); tracing, quitting the main loop
and the end of another child are not. The violated liveness properties are checked under the same fairness:
the counterexamples are real waits, not missing steps.

## 4. Proofs

TLAPS proves 34 of the 40 properties of the passing runs for every value of the constants:
all 32 invariants and the refinements of `MessageQueue` and `SampleLog`; of the refinement of `Barrier` it
proves the safety part. Each module has one inductive invariant `IInv`, which TLC has checked
on the instance of the run, a lemma for each of its parts and each action that can disturb
it, the theorem `Invariance`, and one theorem for each property. `Measurements` has a second
one, `ValuesInvariance`, for the two properties about values.

| Module | From which assumptions | Theorem: property of the run |
|---|---|---|
| `SynchronizerProofs` | `SynchronizerAssumption`: the threads are a finite set, the monitor one of them | `TypeCorrect`: `TypeOK`; `BarrierSafety`: `NobodyLeavesEarly`; `NoSkippedRound`: `NoRoundIsSkipped`; `WakeupsNotLost`: `NoLostWakeup`; `MeasuredToTheEnd`: `LoopEndsWhenAllDone`; `ImplementsBarrierSafety`: the safety part of `Barrier` |
| `TestExecutionProofs` | `TestExecutionAssumption`: the pipelines are among the processes | `TypeCorrect`: `TypeOK`; `TogetherStarted`: `NobodyStartsEarly`; `PidsAreReal`: `MeasuredPidsAreReal`; `LoopMeasuresAll`: `MeasuredUntilAllEnded`; `TeardownAfterMeasuring`: `PipelinesKeptUntilTheEnd` |
| `PipeFramingProofs` | `PipeFramingAssumption`; the hypothesis `PlainTraces`: no trace holds a `$` or is `WAIT`, and each fits into an atomic write | `TypeCorrect`: `TypeOK`; `QueueImplemented`: `ImplementsQueue` |
| `MeasurementsProofs` | `MeasurementsAssumption`; `ConfigAssumption`: each class reads fields of its own types; for `RightOrExcused` and `SharesOfLoad` also `MachinesAssumption`, `ThrownAssumption` and the hypotheses `DistinctNames`, `FieldsAreThere` | `TypeCorrect`: `TypeOK`; `IdsNameSensors`: `EveryIdNamesOneSensor` (under `DistinctNames`); `WholeGroups`: `GroupsAreWhole`; `NeverMeasuredAgain`: `GivenUpForever`; `SensorsReported`: `MeasuredSensorsAreReported`; `RightOrExcused`: `ReadRightOrEnd`; `SharesOfLoad`: `LoadIsAShare`; `LogImplemented`: `ImplementsSampleLog` |
| `TracesProofs` | `TracesAssumption`: the pipe has room for a message | `TypeCorrect`: `TypeOK`; `Conservation`: `TracesAreConserved`; `Advance`: `SamplesAdvance`; `IdsNameElements`: `EveryIdNamesOneElement`; `InOrderOfLabels`: `GroupsFollowTheLabels` |
| `ToolProofs` | `AnalysisAssumption`: `GetSensors` lists each sensor once, and no number stands for "not measured"; `ToolAssumption`: only what is measured raw has values in a sample, the live view is asked for sensors of the system and of processes, the options are those `getopt_long` returns, arrays of a JSON file are sequences, there is a color | `TypeCorrect`: `TypeOK`; `CorrelatedInStep`: `PairsAreSimultaneous`; `CoefficientIsBounded`: `CoefficientInRange`; `SummaryInOrder`: `SummaryIsOrdered`; `MarksAreRight`: `MarkedIfAnyThresholdExceeded`; `LatestIsLive`: `LiveShowsLastSeen`; `GraphsAreOfThisTest`: `GraphsShowThisTest`; `SummaryIsOfTheFiles`: `SummaryMatchesCsv`; `DoneAsAsked`: `EndsAsAsked` |

TLC evaluates the assumptions on every instance; the three hypotheses are assumptions of
`PipeFramingMC` and `MeasurementsMC`, so the instances fulfil them. `PlainTraces` is what
the tracers write and nothing in the code checks; `DistinctNames` is what GetSensors
relies on when it looks for a sensor by its name; `FieldsAreThere` says that no sensor asks
for a field or a CPU its file does not have, which nothing in the code checks either: a sensor
that does ends the tool at its first value. `MachinesAssumption` is about the kernel: the
counters of a CPU never decrease (proc(5) warns that `iowait` may; a share of a negative
difference is then outside its range), and a program's name has at most 16 parts, because
the kernel keeps 15 characters of it. Were it longer, a name could push a number under every
index the parser looks at, and be read wrongly instead of not at all. Both hold of the other processes that take
a pid, too.

Multipliers are any integers. Nothing in the code keeps them above 0, and with a negative one the lowest value is
printed above the highest: `SummaryIsOrdered` claims the order of a sensor whose multiplier is not negative. Four
more premises leave out what section 5 lists as a disagreement: `SummaryMatchesCsv` compares numbers of sensors without a
multiplier, `GraphsShowThisTest` is about names that are unique, `CoefficientInRange` about sensors that both vary, and
the average in `SummaryIsOrdered` about tests without steady state. `LiveShowsLastSeen` is about what the view has seen.

None of the properties is inductive by itself. What has to be added, and why:

*Synchronizer.* `MutexInv` (the mutex is held exactly in the critical section), `LocalInv`
(the id each call waits for is the current round or the last one), `CountInv` (the counter
is the number of threads in the current round, except while the last of them has reset
it), `PollInv` (what a TRUE of `AllCompleted` says) and `BoundInv`. The argument is a
counting one: that a thread may open the next round when the count reaches the number of
threads is only right because the count is the cardinality of the set of threads that wait
in this round (`CountInv`); lemmas `FullCount` and `AllButMonitor` turn that number into a
statement about every thread. The case in which the count is zero because it was reset,
and not because nobody has arrived, has a conjunct of its own; it is the one in which
`AllCompleted` reads without the mutex.

*TestExecution.* That no program starts early is a chain of causes: the child runs because
it was answered, the runner answered because it left the barrier, and nobody leaves a
round that somebody has not entered (`BarrierInv`). So `HandshakeInv` says for each place
of a child in which stage its handshake is, a dead child included, whose runner may still
be answering; `RunnerInv` and `MonitorInv` count the calls of the barrier for each place
of a thread; `StartInv` that processes are started in order before the first wait,
`PidInv` where the tool's pids come from, `LoopInv` what the loop has seen when it ends.

*PipeFraming.* `StreamInv` says that what was sent and not received is a sequence of
messages whose bytes are those the runner has read followed by those in the pipe. The
runner finds the end of a message at the second `$`; that this is the end of the first of
those messages is lemma after lemma about frames, and the place `PlainTraces` is needed.
`WritingInv` (only the main thread writes `$WAIT$`) and `HandshakeInv` (questions and
answers counted by cardinality) bound the answers. The refinement mapping is `sent`,
`received`: a write that enters the pipe is `Send`, handling a message is `Receive`, every
other step a stutter.

*Measurements.* The field definitions are a fold over the configuration, so their
properties are proved by induction over its length (`SetInduction`, with `FieldsAfter` as
a recursive function). `IdsInv` says that ids of fields are below those of the processes
and all are different, `ItemsInv` that the items measured so far are those of the first
fields, in order, with their ids, `ActiveInv` that a sample under way has exactly the
active processes that come before the target: without it, that a group is whole or missing
would not survive the exception that drops a process in the middle of its fields. `CpuInv`
follows one read of `/proc/stat` from the parser's cache over the items under way into the
sample, because the next interval starts where the cache ends; it distinguishes whether
this round has read the file already.

The values need two more parts. `ReadInv` says of each parser that has run for the target of
this round what it has left behind: a time of `/proc/stat` whose CPUs it had seen before, an entry of
the pid's stat; `KeptInv` that what is kept of a stat could be parsed, whoever's it was when it was read. `ParseMeasurement` may be asked for any field in any order
of the map of parsers only because all of them have run before the first field is looked at; the
theorem is that whatever then ends the tool has a reason in the machine (`Excused`). `ValueInv` says
that an item, stored or under way, holds what its parser makes of its field in the files it read.
The two properties follow from lemmas about the parsers (`StatIs`: the line of a program whose
name is one word has every field at its index, the line of any other has a word where a number must be;
`GroupIs`: a group of counters is never more than all of them).

That `Measurements` implements `SampleLog` says in one formula that programs do not return and
what `CpuIntervalsAbut` says of stored samples (it is no property of a run, the refinement
is stronger; theorem `CpuTimeOnce` proves it as an invariant), and more: the time at which the next span begins
moves only when a sample is stored, also past a sample that has lost its CPU values. While
the loop is between the read of `/proc/stat` and the store, that time is where the read
*began*, because the parser's cache is ahead of the list (`CountedUpTo`, by `HasReadCpu`).
The first read is `Begin`, `Store` is `Take` (lemma `StoreTakes`), every other step a
stutter (`CountStays`, `TakenStays`).

*Traces.* `PathInv` says of each pipeline that what lies in the queue, with the runner and
in the pipe, one after the other, are the traces after the last one taken (`Kept`). Each
step of the way moves an element over a border of these three sequences and keeps their
concatenation, or shortens it by something without a value (lemmas `MovedToMiddle`,
`MovedToFirst`, `WithoutMiddle`, `WithoutFirst`, `KeptShortened`). `QueueInv` says that
after the second, unlocked look at the size the queue holds a trace or is being pushed to, also between
`front` and `pop`: so `pop` is never called on an empty queue, however the size was torn. What `front` has
copied is another matter: `CopyInv` only says that it is not newer than the trace `pop` removes. `MapInv` says
that the traces removed for a group are newer than those of every stored sample; with `DataInv` (the trace of a stored
value was removed, the value is not newer, and it has the id of its element) that gives the order of the samples
(`AdvanceInv`): a value that is that of its trace is newer than all earlier values. A value copied from a slot may
repeat an old one or be none at all, and is the exception `SamplesAdvance` makes.
Sorting is `std::sort` by its result, an order without inversions; that
there is one, and that it has the same values, is proved by counting the smaller ids
(`CanBeSorted`, `SortingPermutes`).

*Analysis and Tool.* What runs over data of any length is a recursive function whose values are
followed by induction over the number of elements done (`AnalysisProofs`, and the parts on
options and the live view in `ToolProofs`).

* The options: `ParsedSoFar` says that without an error the two file names are the arguments of
  the last options of their kinds among the first n.
* The removal of what was not measured (`Removal`): after the last k entries the vector holds, in
  their order, exactly the samples that are not among those to remove, and the entries before
  have not moved; that is why erasing the largest index first is right.
* The thresholds (`ThresholdsGive`): after n of them a sensor is marked if it was before or
  exceeds one of the first n.
* The coefficient: Cauchy's inequality (`Cauchy`), because the spread of the combination `B*u - C*v`,
  where `B` is the spread of v and `C` that of both, is a sum of squares and so not negative
  (`SumCombined`, `SumOfSquares`, by induction over the partial sums). It holds in integers: the
  coefficient is compared squared and without a division.
* The summary: a sum of n values lies between n times the least and n times the greatest, and the
  median of an odd or even number of values between both. `Sorted` is `std::sort` by its result:
  at place i the value than which fewer than i are smaller and at least i are not greater; that
  there is one (`IthExists`) is a counting argument.
* The live view (`LiveInv`): `ViewKeeps` says of each sensor for which samples it stood in the view and what was
  measured of it last among these. It is needed because a sensor that is missing from a sample is drawn with
  what the view has kept of it: that this is the latest value is no matter of one step.
* The files (`FilesInv`, `ExportInv`, `GraphInv`): a CSV file is one of an earlier test or shows
  this one, of every enabled export come to what can be opened is written, which no later one undoes
  (`WritingKeeps`), and graphs drawn after the CSV files of this test show it. That the correlations drawn are
  of the samples in the files is `CorrelationInv`; a graph is kept under the names of its two
  sensors, which is why the property is about sensors whose names are unique (`GraphsAreRight`).

`ArgsInv` and `ConfigInv` say what the arguments and the configuration were taken from and that they were
there, `FreshInv` that before the results there is nothing to take back, `ThresholdInv` that the
sensors marked are those that exceed a threshold of a process looked at.

Only model-checked: liveness and fairness, that is `MonitorLearnsOfTheEnd`, `TestsEndTheTool`,
`InterruptStopsRunningPrograms`, `WaitIsAnswered`, `EndsAfterTheTool` and the fairness part of
`ImplementsBarrier`; and the disagreements, which are counterexamples.

## 5. Not modelled

* Failures of `fork`, `pipe` and `ioctl`; what GStreamer does inside its calls; the
  destructors after `main` returns. A runner released by the last wait can still be
  inside `WaitForProcess` then.
* A trace that holds a `$` or is longer than `PIPE_BUF`, and a child that dies within a
  `write(2)`: `PipeFraming` assumes neither happens.
* A failure between the open and the read of one `/proc` file. Arrays in arrays.
* `processes_` in the middle of `push_back` when a signal arrives.
* Rounding of doubles. A fraction with a zero denominator stands for a NaN; what the summary and the graphs
  make of the coefficient of a constant sensor is that every comparison with it fails.
* The conversion of times in traces (`TimeToInt`): a trace is what it is about.
* gnuplot (`Curve` is what the code counts on), its absence and the SIGPIPE that follows; a disk that is full
  while a file is written, which a file that does not open is not; the layout of the outputs, and of the
  configuration tree in the JSON file all but the labels of the sensors.
* Values of a wrong JSON type. That names are unique within a process and ids of
  processes unique is taken from the configuration: nothing in the code checks it.
* `Helpers`: string functions, logging and clocks have no state a property is about.

Where documents and code differ without a run of their own (the models follow the code, and no property
claims the opposite):

* `src/gstreamer/trace_parser.h:41` says of `GetMeasurement` that it "gets the measurement object and directly removes it":
  during the first push into an empty queue it copies what the slot holds and removes the trace that was pushed
  after the copy, so a value can be missing from the samples and one that was never traced can be in them (`CopyFront`, `Pop`).
* README.md:147 has one multiplication give the wanted unit; the summary multiplies an average a second time
  (`src/exports/export_types/summary_generator.cpp:172`, `PrintValue`).
* README.md:54 promises summarized data of all metrics in the JSON file; it has the configuration and the correlations
  (`src/exports/export_types/export_json.cpp:18`, `Json`).
* `src/exports/export_types/terminal_ui.cpp:21` says "Shows the most recent measurements"; a sensor that was measured while it
  did not stand in the view is shown with an older value or its minimum (line 69, `GetElement`).
* README.md:57 promises graphs of all strongly correlated metrics; those of two processes measured alike have one file name,
  and the later overwrites the earlier (`src/exports/export_types/export_graphs.cpp:30`, `CreateGraph`).
* main.cpp:17 and 25 document `--help` and `--log`, which have no effect (`src/input_handler.cpp:43`, `HandleOption`).
* README.md:81 has `use_steady_state` give more accurate averages; only lowest and highest value leave anything out
  (`src/benchmarks/linux/summarize_data.h:57`).
* `src/benchmarks/analysis/correlation.cpp:157` promises a value between -1 and 1; of a sensor that never changes it is 0/0.
* README.md:114 and 124 call `filename`, `foldername`, `type` and `sign` optional, the parsers
  throw without them; `foldername` (README.md:115) is read and ignored, graphs always go to `graphs/`.
* `show_in_live` is read for sensors of processes as well (`src/json_config/sensor_config/config_parser.h:48`), which
  the live view never shows.
* README.md:152 names a group `all_exept_idle`, the parser knows `all_excl_idle` and ends the tool for
  the other; the shipped `linux_cpu_test.json` asks for graphs without the CSV files they are drawn from.

## 6. Plan

Done: all the modules of section 2, and a proof of every invariant the runs check.

Next, in this order:

1. *Abstract specifications*: the list of samples implemented by `Traces` too, with the traces
   each sample takes.
2. *Measurements, extended*: arrays in arrays, a field of type `PID_STATM`.
3. *Traces, extended*: the conversion of times (`TimeToInt`), with the units it mixes.
