------------------------------- MODULE Traces -------------------------------
(***************************************************************************)
(* The values a GStreamer pipeline measures itself.  Its tracers write one *)
(* message per trace into the pipe of the child; the runner thread of the  *)
(* tool parses them into an AtomicQueue; the measurement loop empties the  *)
(* queue once per round (ProcessGstreamer).  Only push and pop of the      *)
(* queue lock its mutex: size and front do not, and what front copies need *)
(* not be what pop then removes.                                           *)
(*                                                                         *)
(* The module starts when the first two waits are over and the pipelines   *)
(* play.  A trace is its number; traces gives what it is about.            *)
(***************************************************************************)
EXTENDS Integers, Sequences, FiniteSets, SequencesExt

CONSTANTS
  Pipelines,
  Elements,     \* SIdentifier: the pairs of a measurement type and an element
  Ignored,      \* a trace without a value, as of proc-rusage
  PipeSize,     \* how many messages the pipe holds
  None,         \* no pipeline, no measurement
  MaxTraces,    \* bound: traces of all pipelines together
  MaxSamples    \* bound: rounds of the measurement loop

ASSUME TracesAssumption ==
  /\ Ignored \notin Elements /\ None \notin Pipelines
  /\ PipeSize \in Nat \ {0} /\ MaxTraces \in Nat /\ MaxSamples \in Nat

WAIT == 0   \* the message $WAIT$; traces are numbered from 1

VARIABLES
  child,        \* where each pipeline is
  traces,       \* what each of its traces was about
  pipe,         \* messages on their way to the runner
  runner,       \* where each runner thread is
  message,      \* what it has read
  fifo,         \* fifoMeasurements_ of each trace handler
  taken,        \* history: the last trace removed from it
  pc,           \* where the measurement loop is
  rest,         \* the pipelines that ProcessGstreamer still has to look at
  stream,       \* the one it looks at
  toTake,       \* queueSize - qI
  measurement,  \* what front has copied
  summarizeMap, \* what it keeps of this pipeline, each with the trace removed for it (history)
  uniqueIds_, uniqueId,
  result,       \* the groups of the sample under way
  measurementsData_

children == <<child, traces>>
runners == <<runner, message>>
sampling == <<rest, stream, toTake, measurement, summarizeMap, uniqueIds_, uniqueId,
              result, measurementsData_>>
vars == <<children, pipe, runners, fifo, taken, pc, sampling>>

Init ==
  /\ child = [p \in Pipelines |-> "plays"]
  /\ traces = [p \in Pipelines |-> <<>>]
  /\ pipe = [p \in Pipelines |-> <<>>]
  /\ runner = [p \in Pipelines |-> "polls"]
  /\ message = [p \in Pipelines |-> WAIT]
  /\ fifo = [p \in Pipelines |-> <<>>]
  /\ taken = [p \in Pipelines |-> 0]
  /\ pc = "loop" /\ rest = {} /\ stream = None /\ toTake = 0
  /\ measurement = None /\ summarizeMap = {}
  /\ uniqueIds_ = [p \in Pipelines |-> <<>>] /\ uniqueId = 0
  /\ result = <<>> /\ measurementsData_ = <<>>

-----------------------------------------------------------------------------
(* The child.  Its streaming threads trace until the pipeline is torn down.  It may *)
(* die at any moment: what it wrote stays in the pipe, and nothing more comes.  Such *)
(* a child is one that takes no further step, which no fairness makes any child do.  *)

Write(p, m) ==
  /\ Len(pipe[p]) < PipeSize
  /\ pipe' = [pipe EXCEPT ![p] = Append(@, m)]

\* For the bound.
TracesOfAll == FoldFunction(LAMBDA t, n : n + Len(t), 0, traces)

TraceCallbackFunction(p) ==
  /\ child[p] \in {"plays", "closing", "await3"}
  /\ TracesOfAll < MaxTraces
  /\ \E e \in Elements \cup {Ignored} : traces' = [traces EXCEPT ![p] = Append(@, e)]
  /\ Write(p, Len(traces[p]) + 1)
  /\ UNCHANGED <<child, runners, fifo, taken, pc, sampling>>

MainLoopQuits(p) ==
  /\ child[p] = "plays"
  /\ child' = [child EXCEPT ![p] = "closing"]
  /\ UNCHANGED <<traces, pipe, runners, fifo, taken, pc, sampling>>

AskToEnd(p) ==
  /\ child[p] = "closing"
  /\ Write(p, WAIT)
  /\ child' = [child EXCEPT ![p] = "await3"]
  /\ UNCHANGED <<traces, runners, fifo, taken, pc, sampling>>

\* $DONE$ arrives: the pipeline is torn down.
TearDown(p) ==
  /\ child[p] = "await3"
  /\ runner[p] = "ended"
  /\ child' = [child EXCEPT ![p] = "ended"]
  /\ UNCHANGED <<traces, pipe, runners, fifo, taken, pc, sampling>>

-----------------------------------------------------------------------------
(* The runner thread.  Without a message it goes on polling: kill(pid, 0) finds *)
(* a child that nobody waits for, dead or alive.                                *)

Running == pc # "terminated"

ReadBetweenChars(p) ==
  /\ Running /\ runner[p] = "polls" /\ pipe[p] # <<>>
  /\ message' = [message EXCEPT ![p] = Head(pipe[p])]
  /\ pipe' = [pipe EXCEPT ![p] = Tail(@)]
  /\ runner' = [runner EXCEPT ![p] = IF Head(pipe[p]) = WAIT THEN "syncing" ELSE "parsing"]
  /\ UNCHANGED <<children, fifo, taken, pc, sampling>>

HasValue(p, n) == traces[p][n] # Ignored

\* From here to Push the runner holds the mutex of the queue and changes it.
ParseTraceStructureOfAny(p) ==   \* (faulty variant) values or not
  /\ Running /\ runner[p] = "parsing"
  /\ runner' = [runner EXCEPT ![p] = "pushing"]
  /\ UNCHANGED <<children, pipe, message, fifo, taken, pc, sampling>>
ParseTraceStructure(p) ==
  /\ Running /\ runner[p] = "parsing"
  /\ IF HasValue(p, message[p])
       THEN runner' = [runner EXCEPT ![p] = "pushing"] /\ UNCHANGED message
       ELSE runner' = [runner EXCEPT ![p] = "polls"] /\ message' = [message EXCEPT ![p] = WAIT]
  /\ UNCHANGED <<children, pipe, fifo, taken, pc, sampling>>

PushUnlessSampled(p) ==   \* (faulty variant) a queue that is being read is skipped
  /\ Running /\ runner[p] = "pushing"
  /\ fifo' = [fifo EXCEPT ![p] = IF stream = p /\ toTake > 0 THEN @ ELSE Append(@, message[p])]
  /\ runner' = [runner EXCEPT ![p] = "polls"] /\ message' = [message EXCEPT ![p] = WAIT]
  /\ UNCHANGED <<children, pipe, taken, pc, sampling>>
Push(p) ==
  /\ Running /\ runner[p] = "pushing"
  /\ fifo' = [fifo EXCEPT ![p] = Append(@, message[p])]
  /\ runner' = [runner EXCEPT ![p] = "polls"] /\ message' = [message EXCEPT ![p] = WAIT]
  /\ UNCHANGED <<children, pipe, taken, pc, sampling>>

\* The third wait is over when the measurement loop has joined it.
Released(p) ==
  /\ Running /\ runner[p] = "syncing" /\ pc = "ended"
  /\ runner' = [runner EXCEPT ![p] = "ended"]
  /\ UNCHANGED <<children, pipe, message, fifo, taken, pc, sampling>>

RunnerStep(p) == ReadBetweenChars(p) \/ ParseTraceStructure(p) \/ Push(p) \/ Released(p)

-----------------------------------------------------------------------------
(* The measurement loop. *)

\* Every runner waits in the third wait.
AllCompleted == \A p \in Pipelines : runner[p] = "syncing"

StartSample ==
  /\ pc = "loop" /\ ~AllCompleted
  /\ Len(measurementsData_) < MaxSamples
  /\ pc' = "next" /\ rest' = Pipelines
  /\ UNCHANGED <<children, pipe, runners, fifo, taken, stream, toTake, measurement,
                 summarizeMap, uniqueIds_, uniqueId, result, measurementsData_>>

\* The size of a deque is computed from pointers that a push changes one by one:
\* during a push the unlocked read can give any small number.
Sizes(p) == IF runner[p] = "pushing" THEN 0..(Len(fifo[p]) + 2) ELSE {Len(fifo[p])}

\* The pipelines in the unspecified order of streams_.
GetMeasurementsSize(p) ==
  /\ pc = "next" /\ p \in rest
  /\ rest' = rest \ {p} /\ stream' = p /\ summarizeMap' = {}
  /\ toTake' \in Sizes(p)
  /\ pc' = "GetMeasurement"
  /\ UNCHANGED <<children, pipe, runners, fifo, taken, measurement, uniqueIds_, uniqueId,
                 result, measurementsData_>>

\* GetMeasurement looks at the size again; on 0 it throws, and nobody catches that.
CheckSize ==
  /\ pc = "GetMeasurement" /\ toTake > 0
  /\ \E size \in Sizes(stream) : pc' = IF size # 0 THEN "front" ELSE "terminated"
  /\ UNCHANGED <<children, pipe, runners, fifo, taken, sampling>>

\* The slot that a push into an empty queue is about to write: what of its trace is there
\* already, and for the rest what an earlier trace, or none, has left.
Slot(p) == [element : Elements, value : {0} \cup {n \in 1..message[p] : HasValue(p, n)}]

\* front copies without the mutex.  A push leaves the head of the queue where it is; of an
\* empty queue front copies the slot, unless that crashes.
CopyFront ==
  /\ pc = "front"
  /\ \/ /\ fifo[stream] # <<>>
        /\ LET n == Head(fifo[stream])
           IN  measurement' = [element |-> traces[stream][n], value |-> n]
        /\ pc' = "pop"
     \/ /\ fifo[stream] = <<>>
        /\ \/ measurement' \in Slot(stream) /\ pc' = "pop"
           \/ UNCHANGED measurement /\ pc' = "terminated"
  /\ UNCHANGED <<children, pipe, runners, fifo, taken, rest, stream, toTake, summarizeMap,
                 uniqueIds_, uniqueId, result, measurementsData_>>

\* The first measurement of each element goes into the map.
Keep(removed) ==
  IF \E m \in summarizeMap : m.element = measurement.element THEN summarizeMap
  ELSE summarizeMap \cup
         {[element |-> measurement.element, value |-> measurement.value, removed |-> removed]}

\* pop waits for the mutex and removes what is first then.
PopForgotten ==   \* (faulty variant)
  /\ pc = "pop" /\ runner[stream] # "pushing"
  /\ summarizeMap' = Keep(Head(fifo[stream]))
  /\ toTake' = toTake - 1 /\ measurement' = None
  /\ pc' = "GetMeasurement"
  /\ UNCHANGED <<children, pipe, runners, fifo, taken, rest, stream, uniqueIds_, uniqueId,
                 result, measurementsData_>>
Pop ==
  /\ pc = "pop" /\ runner[stream] # "pushing"
  /\ LET n == Head(fifo[stream])
     IN  taken' = [taken EXCEPT ![stream] = n] /\ summarizeMap' = Keep(n)
  /\ fifo' = [fifo EXCEPT ![stream] = Tail(@)]
  /\ toTake' = toTake - 1 /\ measurement' = None
  /\ pc' = "GetMeasurement"
  /\ UNCHANGED <<children, pipe, runners, rest, stream, uniqueIds_, uniqueId, result,
                 measurementsData_>>

\* The id of an element of a pipeline, handed out when it is first sampled.
GetUniqueIdOfPipeline(p, ids, e) ==   \* (faulty variant)
  IF e \in DOMAIN ids.map THEN ids
  ELSE [map  |-> [x \in DOMAIN ids.map \cup {e} |->
                    IF x = e THEN Cardinality(DOMAIN ids.map) + 1 ELSE ids.map[x]],
        last |-> ids.last + 1]
GetUniqueId(p, ids, e) ==
  IF e \in DOMAIN ids.map THEN ids
  ELSE [map  |-> [x \in DOMAIN ids.map \cup {e} |-> IF x = e THEN ids.last + 1 ELSE ids.map[x]],
        last |-> ids.last + 1]

\* After each of the measurements of p in this order: the ids of its elements.
IdsAfter(p, order) ==
  LET ids[i \in 0..Len(order)] ==
        IF i = 0 THEN [map |-> uniqueIds_[p], last |-> uniqueId]
        ELSE GetUniqueId(p, ids[i - 1], order[i].element)
  IN  ids

\* The group of a pipeline is complete; the map is read in an unspecified order.  An item
\* is an id and a value; element and removed are history.
EndGroup ==
  /\ pc = "GetMeasurement" /\ toTake = 0
  /\ \E order \in SetToSeqs(summarizeMap) :
       LET ids == IdsAfter(stream, order)[Len(order)]
           items == [i \in DOMAIN order |->
                       [id |-> ids.map[order[i].element], value |-> order[i].value,
                        element |-> order[i].element, removed |-> order[i].removed]]
       IN  /\ uniqueIds_' = [uniqueIds_ EXCEPT ![stream] = ids.map]
           /\ uniqueId' = ids.last
           /\ result' = Append(result, [pipelineId |-> stream, measuredItems |-> items])
  /\ stream' = None /\ summarizeMap' = {}
  /\ pc' = IF rest = {} THEN "store" ELSE "next"
  /\ UNCHANGED <<children, pipe, runners, fifo, taken, rest, toTake, measurement,
                 measurementsData_>>

Store ==
  /\ pc = "store"
  /\ measurementsData_' = Append(measurementsData_, result)
  /\ pc' = "loop" /\ result' = <<>>
  /\ UNCHANGED <<children, pipe, runners, fifo, taken, rest, stream, toTake, measurement,
                 summarizeMap, uniqueIds_, uniqueId>>

\* std::sort of the values of each group: the order they have when none is before a smaller.
Orders(items) == {[i \in DOMAIN items |-> items[order[i]]] : order \in SetToSeqs(DOMAIN items)}
SortDataByValue(groups) ==   \* (faulty variant)
  [g \in DOMAIN groups |->
     [groups[g] EXCEPT !.measuredItems =
        CHOOSE s \in Orders(@) : \A i, j \in DOMAIN s : i < j => s[i].value <= s[j].value]]
SortData(groups) ==
  [g \in DOMAIN groups |->
     [groups[g] EXCEPT !.measuredItems =
        CHOOSE s \in Orders(@) : \A i, j \in DOMAIN s : i < j => s[i].id <= s[j].id]]

\* The loop ends and with it the third wait; all samples are sorted.
EndLoop ==
  /\ pc = "loop" /\ AllCompleted
  /\ pc' = "ended"
  /\ measurementsData_' = [k \in DOMAIN measurementsData_ |-> SortData(measurementsData_[k])]
  /\ UNCHANGED <<children, pipe, runners, fifo, taken, rest, stream, toTake, measurement,
                 summarizeMap, uniqueIds_, uniqueId, result>>

MainStep ==
  \/ StartSample \/ CheckSize \/ CopyFront \/ Pop \/ EndGroup \/ Store \/ EndLoop
  \/ \E p \in Pipelines : GetMeasurementsSize(p)

Next ==
  \/ MainStep
  \/ \E p \in Pipelines : \/ TraceCallbackFunction(p) \/ MainLoopQuits(p) \/ AskToEnd(p)
                          \/ TearDown(p) \/ RunnerStep(p)

Spec == Init /\ [][Next]_vars

-----------------------------------------------------------------------------
(* Properties *)

\* The variables have the values the code can give them.
TypeOK ==
  /\ child \in [Pipelines -> {"plays", "closing", "await3", "ended"}]
  /\ runner \in [Pipelines -> {"polls", "parsing", "pushing", "syncing", "ended"}]
  /\ \A p \in Pipelines :
       /\ traces[p] \in Seq(Elements \cup {Ignored})
       /\ Range(pipe[p]) \cup {message[p]} \subseteq {WAIT} \cup DOMAIN traces[p]
       /\ Len(pipe[p]) <= PipeSize
       /\ \A n \in Range(fifo[p]) : n \in DOMAIN traces[p] /\ HasValue(p, n)
       /\ taken[p] \in 0..Len(traces[p])
       /\ \A e \in DOMAIN uniqueIds_[p] : e \in Elements /\ uniqueIds_[p][e] \in 1..uniqueId
  /\ pc \in {"loop", "next", "GetMeasurement", "front", "pop", "store", "ended", "terminated"}
  /\ rest \subseteq Pipelines /\ stream \in Pipelines \cup {None} /\ toTake \in Nat
  /\ pc = "pop" => /\ measurement.element \in Elements
                   /\ measurement.value \in 0..Len(traces[stream])

Groups == UNION {Range(measurementsData_[k]) : k \in DOMAIN measurementsData_}

\* What is on its way from pipeline p: in the queue, with the runner, in the pipe.
Path(p) ==
  fifo[p] \o (IF runner[p] \in {"parsing", "pushing"} THEN <<message[p]>> ELSE <<>>) \o pipe[p]

\* On its way from the pipeline to the measurement loop no trace is lost, doubled or
\* overtaken: those with a value that pop has not removed are on their way, once and in
\* order, even when the pipeline has died or the third wait has begun.
TracesAreConserved ==
  \A p \in Pipelines :
    LET onTheWay == {i \in DOMAIN Path(p) : Path(p)[i] # WAIT /\ HasValue(p, Path(p)[i])}
    IN  /\ {Path(p)[i] : i \in onTheWay} = {n \in DOMAIN traces[p] : n > taken[p] /\ HasValue(p, n)}
        /\ \A i, j \in onTheWay : i < j => Path(p)[i] < Path(p)[j]

\* A sample never repeats or precedes what an earlier sample of the same pipeline holds: a
\* value shown for one round was traced after all values of the last one.  The exception
\* is a value that front copied from the slot of a push: it need not be that of the trace
\* removed for it.
SamplesAdvance ==
  \A k, l \in DOMAIN measurementsData_ : k < l =>
    \A g \in Range(measurementsData_[k]), h \in Range(measurementsData_[l]) :
      g.pipelineId = h.pipelineId =>
        \A a \in Range(g.measuredItems), b \in Range(h.measuredItems) :
          b.value = b.removed => a.value < b.value

\* GetSensors and the exports know a value only by its id: it stands for one element
\* of one pipeline, whatever order the maps are read in.
EveryIdNamesOneElement ==
  \A g, h \in Groups : \A a \in Range(g.measuredItems), b \in Range(h.measuredItems) :
    a.id = b.id <=> g.pipelineId = h.pipelineId /\ a.element = b.element

\* When the data is analysed, the values of a group are in the order of the ids, in
\* which GetMeasurementLabels lists the labels.
GroupsFollowTheLabels ==
  pc = "ended" => \A g \in Groups : \A i, j \in DOMAIN g.measuredItems :
    i < j => g.measuredItems[i].id < g.measuredItems[j].id
=============================================================================
