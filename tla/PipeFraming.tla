---------------------------- MODULE PipeFraming ----------------------------
(***************************************************************************)
(* The pipe from a GStreamer child to its runner, byte by byte.  The       *)
(* streaming threads write traces and the main thread writes $WAIT$, all   *)
(* into the same pipe and without a lock; the runner reads one byte at a   *)
(* time and takes two $ for the ends of a message.  TestExecution and      *)
(* Traces count on whole messages: ImplementsQueue is what they assume.    *)
(*                                                                         *)
(* write(2) of at most PipeBuf bytes waits for room and is atomic; a       *)
(* longer one enters piece by piece, between those of other threads.       *)
(***************************************************************************)
EXTENDS Integers, Sequences, FiniteSets

CONSTANTS
  Main, Streaming,   \* the threads of the child
  Traces,            \* what a tracer may print: sequences of bytes
  PipeSize, PipeBuf, \* capacity of the pipe, and of an atomic write
  MaxTraces          \* bound: traces of all threads

ASSUME PipeFramingAssumption ==
  /\ Main \notin Streaming
  /\ PipeSize \in Nat /\ PipeBuf \in 1..PipeSize /\ MaxTraces \in Nat

Threads == Streaming \cup {Main}
Frame(body) == <<"$">> \o body \o <<"$">>
waitMessage_ == Frame(<<"W">>)
maxWaitCount == 3

VARIABLES
  main,        \* the main thread: "works", "asks", "teardown", "ended"; or "killed"
  asked,       \* ChildWaitProcess calls it has completed
  writing,     \* of each thread the bytes it still has to write
  traces,      \* traces begun so far
  buffer,      \* parentReadPipe_
  runner,      \* the runner thread: "polls", "reads", "syncs", "done"
  result,      \* what ReadBetweenChars has read
  waitCount,
  done,        \* $DONE$ in parentWritePipe_
  tool,        \* the tool has not exited
  heir,        \* some other child, which inherited the read end, lives
  sent, received   \* history: messages that entered the pipe, messages read

child == <<main, asked, traces>>
parent == <<runner, result, waitCount, tool, received>>
vars == <<child, parent, writing, buffer, done, heir, sent>>

Init ==
  /\ main = "works" /\ asked = 0 /\ traces = 0
  /\ writing = [t \in Threads |-> <<>>]
  /\ buffer = <<>> /\ done = 0
  /\ runner = "polls" /\ result = <<>> /\ waitCount = 0
  /\ tool = TRUE /\ heir \in BOOLEAN
  /\ sent = <<>> /\ received = <<>>

-----------------------------------------------------------------------------
(* The child *)

ChildRuns == main \notin {"ended", "killed"}

\* ChildWaitProcess, before pipeline creation, before it plays and when it has ended.
Ask ==
  /\ main = "works"
  /\ main' = "asks"
  /\ writing' = [writing EXCEPT ![Main] = waitMessage_]
  /\ UNCHANGED <<asked, traces, parent, buffer, done, heir, sent>>

GoOn ==
  /\ main = "asks" /\ writing[Main] = <<>> /\ done > 0
  /\ done' = done - 1
  /\ asked' = asked + 1
  /\ main' = IF asked' = maxWaitCount THEN "teardown" ELSE "works"
  /\ UNCHANGED <<traces, parent, writing, buffer, heir, sent>>

\* From the initialization of GStreamer to the end of the teardown, at any time.
TraceCallbackFunction(t) ==
  /\ ChildRuns /\ asked > 0
  /\ writing[t] = <<>>
  /\ traces < MaxTraces
  /\ traces' = traces + 1
  /\ \E body \in Traces : writing' = [writing EXCEPT ![t] = Frame(body)]
  /\ UNCHANGED <<main, asked, parent, buffer, done, heir, sent>>

\* Who can still read: the tool and every other child, earlier or later, for all pipes are
\* there before the first fork; the child itself has closed its read end.
HasReaderItself ==   \* (faulty variant)
  tool \/ heir \/ ChildRuns
HasReader == tool \/ heir

Begins(t) == Len(writing[t]) > 1 /\ writing[t][1] = "$"

\* write(2) accepts n of the bytes; a new message is sent with its first byte.
WriteUnbuffered(t) ==   \* (faulty variant)
  \E n \in 1..Len(writing[t]) :
    /\ ChildRuns /\ HasReader
    /\ n = 1 /\ Len(buffer) + n <= PipeSize
    /\ buffer' = buffer \o SubSeq(writing[t], 1, n)
    /\ writing' = [writing EXCEPT ![t] = SubSeq(@, n + 1, Len(@))]
    /\ sent' = IF Begins(t) THEN Append(sent, writing[t]) ELSE sent
    /\ UNCHANGED <<child, parent, done, heir>>
Write(t) ==
  \E n \in 1..Len(writing[t]) :
    /\ ChildRuns /\ HasReader
    /\ Len(buffer) + n <= PipeSize
    /\ Begins(t) /\ Len(writing[t]) <= PipeBuf => n = Len(writing[t])
    /\ buffer' = buffer \o SubSeq(writing[t], 1, n)
    /\ writing' = [writing EXCEPT ![t] = SubSeq(@, n + 1, Len(@))]
    /\ sent' = IF Begins(t) THEN Append(sent, writing[t]) ELSE sent
    /\ UNCHANGED <<child, parent, done, heir>>

\* Without a reader SIGPIPE ends the child, also when it was waiting for room.
BrokenPipe(t) ==
  /\ ChildRuns /\ ~HasReader
  /\ writing[t] # <<>>
  /\ main' = "killed"
  /\ UNCHANGED <<asked, traces, parent, writing, buffer, done, heir, sent>>

\* FreeMemory joins the streaming threads, which first finish what they write.
FreeMemory ==
  /\ main = "teardown"
  /\ \A t \in Threads : writing[t] = <<>>
  /\ main' = "ended"
  /\ UNCHANGED <<asked, traces, parent, writing, buffer, done, heir, sent>>

-----------------------------------------------------------------------------
(* The runner *)

\* GetBytesAvailable; without bytes it asks for the child and sleeps.
BytesAvailable ==
  /\ runner = "polls" /\ buffer # <<>>
  /\ runner' = "reads"
  /\ UNCHANGED <<child, result, waitCount, tool, received, writing, buffer, done, heir, sent>>

receivedCharacter == Cardinality({i \in DOMAIN result : result[i] = "$"})

ReadBetweenChars ==
  /\ runner = "reads" /\ receivedCharacter < 2
  /\ buffer # <<>>
  /\ result' = Append(result, Head(buffer))
  /\ buffer' = Tail(buffer)
  /\ UNCHANGED <<child, runner, waitCount, tool, received, writing, done, heir, sent>>

\* A message is complete: $WAIT$, or else a trace to be parsed.
HandleStripped ==   \* (faulty variant)
  /\ runner = "reads" /\ receivedCharacter = 2
  /\ runner' = IF SubSeq(result, 2, Len(result) - 1) = waitMessage_ THEN "syncs" ELSE "polls"
  /\ received' = Append(received, result)
  /\ result' = <<>>
  /\ UNCHANGED <<child, waitCount, tool, writing, buffer, done, heir, sent>>
HandleMessage ==
  /\ runner = "reads" /\ receivedCharacter = 2
  /\ runner' = IF result = waitMessage_ THEN "syncs" ELSE "polls"
  /\ received' = Append(received, result)
  /\ result' = <<>>
  /\ UNCHANGED <<child, waitCount, tool, writing, buffer, done, heir, sent>>

\* WaitForProcess has returned: $DONE$.  After the third nobody reads the pipe.
AnswerForgetful ==   \* (faulty variant)
  /\ runner = "syncs"
  /\ waitCount' = waitCount
  /\ done' = done + 1
  /\ runner' = IF waitCount' = maxWaitCount THEN "done" ELSE "polls"
  /\ UNCHANGED <<child, result, tool, received, writing, buffer, heir, sent>>
Answer ==
  /\ runner = "syncs"
  /\ waitCount' = waitCount + 1
  /\ done' = done + 1
  /\ runner' = IF waitCount' = maxWaitCount THEN "done" ELSE "polls"
  /\ UNCHANGED <<child, result, tool, received, writing, buffer, heir, sent>>

\* The tool writes its results and exits, whatever the child does.
ToolExits ==
  /\ runner = "done" /\ tool
  /\ tool' = FALSE
  /\ UNCHANGED <<child, runner, result, waitCount, received, writing, buffer, done, heir, sent>>

HeirEnds ==
  /\ heir
  /\ heir' = FALSE
  /\ UNCHANGED <<child, parent, writing, buffer, done, sent>>

Runner == BytesAvailable \/ ReadBetweenChars \/ HandleMessage \/ Answer \/ ToolExits

Next ==
  \/ Ask \/ GoOn \/ FreeMemory \/ HeirEnds
  \/ \E t \in Streaming : TraceCallbackFunction(t)
  \/ \E t \in Threads : Write(t) \/ BrokenPipe(t)
  \/ Runner

\* Threads are scheduled and the other participants of a wait arrive (TestExecution
\* checks that they do); nobody has to trace, to quit the main loop or to end.
Fairness ==
  /\ WF_vars(GoOn) /\ WF_vars(FreeMemory) /\ WF_vars(Runner)
  /\ \A t \in Threads : WF_vars(Write(t)) /\ WF_vars(BrokenPipe(t))

Spec == Init /\ [][Next]_vars /\ Fairness

-----------------------------------------------------------------------------
(* Properties *)

Messages == {waitMessage_} \cup {Frame(b) : b \in Traces}

\* What the theorems assume of the traces: none holds a $ or is WAIT, and each fits into
\* an atomic write.
Bytes == {"$", "W"} \cup UNION {{body[i] : i \in DOMAIN body} : body \in Traces}
PlainTraces ==
  /\ 3 <= PipeBuf
  /\ \A body \in Traces : /\ body \in Seq(Bytes \ {"$"}) /\ body # <<"W">>
                          /\ Len(body) + 2 <= PipeBuf

\* The variables have the values the code can give them; the runner has never read
\* past the end of a message, and no more answers are given than were asked for.
TypeOK ==
  /\ main \in {"works", "asks", "teardown", "ended", "killed"}
  /\ asked \in 0..maxWaitCount /\ traces \in 0..MaxTraces
  /\ Len(buffer) <= PipeSize
  /\ runner \in {"polls", "reads", "syncs", "done"}
  /\ receivedCharacter <= 2
  /\ waitCount \in 0..maxWaitCount
  /\ done = waitCount - asked /\ done \in {0, 1}
  /\ tool \in BOOLEAN /\ heir \in BOOLEAN

Q == INSTANCE MessageQueue

\* Whatever thread writes and whenever the pipe is full, the runner gets the messages
\* of all threads whole and in one order: those after a torn one would be shifted by
\* a $ for the rest of the test.
ImplementsQueue == Q!Spec

\* run_process_base.cpp:28: a child that has written $WAIT$ gets its $DONE$, however
\* many traces are in the pipe before it or compete with it for room.
WaitIsAnswered == main = "asks" ~> main # "asks"

\* A pipeline does not outlive the tool: its streaming threads may be stuck in a full
\* pipe that nobody has read since the third $WAIT$ (handler.cpp:161), but once the
\* tool and whoever inherited the read end are gone, they and the child end.
EndsAfterTheTool == ~tool /\ ~heir ~> ~ChildRuns
=============================================================================
