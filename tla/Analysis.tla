------------------------------ MODULE Analysis ------------------------------
(***************************************************************************)
(* What CPerfMeasurements::AnalyzeData computes from the samples of a test: *)
(* the correlation of each resource sensor with each performance sensor,   *)
(* the minimum, maximum, average and median of each sensor, and which       *)
(* sensors exceeded their thresholds.                                       *)
(*                                                                         *)
(* Measured values are integers and results are fractions <<n, d>>, d > 0, *)
(* so that no property depends on how doubles are rounded.                 *)
(***************************************************************************)
EXTENDS Integers, Sequences, FiniteSets, SequencesExt, FiniteSetsExt, Functions

CONSTANTS
  PipelineSensors, SystemSensors, ProcessSensors,  \* of each class, in the order of GetSensors
  Performance,             \* the sensors with performanceIndicator
  UserId,                  \* of each sensor, its name: sensors of two processes may share one
  ProcessId,               \* of each sensor, the process of its group, -1 the system
  Members,                 \* of each sensor, whose values it sums up: its own, or those of
                           \* the elements of an array, of the elements of a pipeline
  Multiplier,              \* of each sensor
  Samples, NotMeasured,    \* what a sample may hold of the sensors
  MaxSamples,              \* bound: the samples of a test
  MinimumCorrelationSize,  \* minimumCorrelationSize_, 10 in the code
  SteadyStateSize,         \* the size a vector must exceed to be trimmed, 10 in the code
  Trim                     \* what is cut off at each end then, 2 in the code

\* The classes in the order AnalyzeData adds them.
AllClasses == <<"PIPELINE", "SYSTEM", "PROCESSES">>
GetSensors(c) ==
  CASE c = "PIPELINE" -> PipelineSensors
    [] c = "SYSTEM" -> SystemSensors
    [] c = "PROCESSES" -> ProcessSensors
AllSensors == PipelineSensors \o SystemSensors \o ProcessSensors
Sensors == Range(AllSensors)
GetProcesses == {ProcessId[s] : s \in Sensors}

\* GetMap(processId)[name], if there is one: of sensors with the same name the first is kept.
FindSensor(processId, name) ==
  LET named == {i \in DOMAIN AllSensors :
                  ProcessId[AllSensors[i]] = processId /\ UserId[AllSensors[i]] = name}
  IN  {AllSensors[i] : i \in {j \in named : \A k \in named : j <= k}}

ASSUME AnalysisAssumption ==
  /\ \A c \in Range(AllClasses) : GetSensors(c) \in Seq(Range(GetSensors(c)))
  /\ \A i, j \in DOMAIN AllSensors : AllSensors[i] = AllSensors[j] => i = j
  /\ NotMeasured \notin Int
  /\ \A s \in Sensors : /\ Members[s] \subseteq Sensors
                        /\ Multiplier[s] \in Int
                        /\ \A sample \in Samples : sample[s] \in Int \cup {NotMeasured}
  /\ Trim \in Nat /\ SteadyStateSize \in Nat /\ SteadyStateSize >= 2 * Trim
  /\ MinimumCorrelationSize \in Nat /\ MaxSamples \in Nat

VARIABLES
  pc,                  \* what the main thread is at
  config_,             \* the configuration of the test, a Core::SConfig
  data,                \* measurementsData_: of each sample what it has of each sensor
  correlations,        \* result of GetCorrelation
  unchecked,           \* processes SetThresholdResults has still to look at
  thresholdExceeded    \* of each sensor

vars == <<pc, config_, data, correlations, unchecked, thresholdExceeded>>

\* The first process of the configuration with this id.
GetProcess(id) ==
  config_.processes[Min({k \in DOMAIN config_.processes : config_.processes[k].processId = id})]
Delay(s) == IF ProcessId[s] = -1 THEN -1 ELSE GetProcess(ProcessId[s]).startDelay

\* The elements of a sequence that are in a set, in their order.
Selected(seq, set) ==
  LET kept[n \in 0..Len(seq)] ==
        IF n = 0 THEN <<>>
        ELSE IF seq[n] \in set THEN Append(kept[n - 1], seq[n]) ELSE kept[n - 1]
  IN  kept[Len(seq)]

Sum(v) ==
  LET sum[n \in 0..Len(v)] == IF n = 0 THEN 0 ELSE sum[n - 1] + v[n]
  IN  sum[Len(v)]

-----------------------------------------------------------------------------
(* CCorrelation *)

Unmeasured == [isMeasured |-> FALSE, value |-> 0, sample |-> 0]

\* One entry for each sample: what was measured, or a zero before the process has
\* started.  The sample itself is kept for the properties; it is also its time.
CreateEqualSizedVector(s) ==
  [k \in 1..Len(data) |->
     CASE data[k][s] # NotMeasured -> [isMeasured |-> TRUE, value |-> data[k][s], sample |-> k]
       [] data[k][s] = NotMeasured /\ config_.settings.enablePretestZeroes /\ k < Delay(s) ->
            [isMeasured |-> TRUE, value |-> 0, sample |-> k]
       [] OTHER -> [Unmeasured EXCEPT !.sample = k]]

GetRemoveIndexes(vec) == {k \in DOMAIN vec : ~vec[k].isMeasured}

\* The largest index is erased first, so that the smaller ones stay right.
RemoveIndexesUpwards(vec, indexes) ==   \* (faulty variant)
  FoldLeft(LAMBDA v, k : IF k <= Len(v) THEN RemoveAt(v, k) ELSE v, vec,
           SetToSortSeq(indexes, <))
RemoveIndexes(vec, indexes) ==
  LET erased[k \in 0..Len(vec)] ==   \* those of the k last entries
        IF k = 0 THEN vec
        ELSE IF Len(vec) - k + 1 \in indexes THEN RemoveAt(erased[k - 1], Len(vec) - k + 1)
        ELSE erased[k - 1]
  IN  erased[Len(vec)]

RemoveNotMeasured(vec1, vec2) ==
  LET indexes == GetRemoveIndexes(vec1) \cup GetRemoveIndexes(vec2)
  IN  <<RemoveIndexes(vec1, indexes), RemoveIndexes(vec2, indexes)>>

ConvertToRaw(vec) == [k \in DOMAIN vec |-> vec[k].value]

Products(u, v) == [k \in DOMAIN u |-> u[k] * v[k]]

\* n times the sum of products less the product of sums: the numerator of the
\* coefficient of u and v, and under its root those of u and u, of v and v.
SpreadUnscaled(u, v) ==   \* (faulty variant)
  Sum(Products(u, v)) - Sum(u) * Sum(v)
Spread(u, v) ==
  Len(u) * Sum(Products(u, v)) - Sum(u) * Sum(v)

\* The coefficient is numerator / sqrt(spreadU * spreadV).
GetCorrelationCoefficient(u, v) ==
  [numerator |-> Spread(u, v), spreadU |-> Spread(u, u), spreadV |-> Spread(v, v)]

Pair(p, r) == RemoveNotMeasured(CreateEqualSizedVector(r), CreateEqualSizedVector(p))

CorrelationResultSwapped(p, r) ==   \* (faulty variant)
  [sensor1 |-> r, sensor2 |-> p, of |-> Pair(p, r),
   correlation |-> GetCorrelationCoefficient(ConvertToRaw(Pair(p, r)[1]), ConvertToRaw(Pair(p, r)[2]))]
CorrelationResult(p, r) ==
  [sensor1 |-> p, sensor2 |-> r, of |-> Pair(p, r),
   correlation |-> GetCorrelationCoefficient(ConvertToRaw(Pair(p, r)[1]), ConvertToRaw(Pair(p, r)[2]))]

GetCorrelation ==
  LET perf == Selected(AllSensors, Performance)
      rsc == Selected(AllSensors, Sensors \ Performance)
      all == FlattenSeq([i \in DOMAIN rsc |->
               [j \in DOMAIN perf |-> CorrelationResult(perf[j], rsc[i])]])
  IN  Selected(all, {c \in Range(all) : Len(c.of[1]) >= MinimumCorrelationSize})

-----------------------------------------------------------------------------
(* CSummarizeData *)

\* The datapoints of a sensor, in the order of the samples.
GetDatapoints(s) ==
  LET items(sample) == Selected(AllSensors, {m \in Members[s] : sample[m] # NotMeasured})
  IN  FlattenSeq([k \in DOMAIN data |->
        [i \in DOMAIN items(data[k]) |-> data[k][items(data[k])[i]]]])

\* Only the values of pipelines may be trimmed.
UseSteadyState(s) == s \in Range(PipelineSensors) /\ GetProcess(ProcessId[s]).useSteadyState
SteadyState(s, v) ==
  IF UseSteadyState(s) /\ Len(v) > SteadyStateSize THEN SubSeq(v, Trim + 1, Len(v) - Trim) ELSE v

GetMin(s, v) == <<Min(Range(SteadyState(s, v))), 1>>
GetMax(s, v) == <<Max(Range(SteadyState(s, v))), 1>>
GetAverage(v) == <<Sum(v), Len(v)>>

\* std::sort by its result: less than i values are below the i-th, and at least i not above.
Sorted(v) ==
  [i \in DOMAIN v |->
     CHOOSE x \in Range(v) : /\ Cardinality({k \in DOMAIN v : v[k] < x}) < i
                             /\ Cardinality({k \in DOMAIN v : v[k] <= x}) >= i]

\* The middle of the sorted values, or the mean of the two in the middle.
GetMedianBelow(v) ==   \* (faulty variant)
  LET sorted == Sorted(v)
      loc == Len(v) \div 2
  IN  IF Len(v) % 2 = 0 THEN <<2 * sorted[loc], 2>> ELSE <<sorted[loc + 1], 1>>
GetMedian(v) ==
  LET sorted == Sorted(v)
      loc == Len(v) \div 2
  IN  IF Len(v) % 2 = 0 THEN <<sorted[loc + 1] + sorted[loc], 2>> ELSE <<sorted[loc + 1], 1>>

Times(m, q) == <<m * q[1], q[2]>>

\* GetSummarizedData and GetSensorData; nothing if there is no datapoint.
GetSensorData(s) ==
  LET v == GetDatapoints(s)
  IN  IF v = <<>> THEN <<>>
      ELSE [min |-> Times(Multiplier[s], GetMin(s, v)), max |-> Times(Multiplier[s], GetMax(s, v)),
            average |-> Times(Multiplier[s], GetAverage(v)),
            median |-> Times(Multiplier[s], GetMedian(v))]

-----------------------------------------------------------------------------
(* Thresholds *)

Compare(a, sign, b) ==
  CASE sign = "<=" -> a[1] * b[2] <= b[1] * a[2]
    [] sign = "<"  -> a[1] * b[2] <  b[1] * a[2]
    [] sign = ">=" -> a[1] * b[2] >= b[1] * a[2]
    [] sign = ">"  -> a[1] * b[2] >  b[1] * a[2]

HandleThreshold(s, t) ==
  GetSensorData(s) # <<>> /\ Compare(<<t.value, 1>>, t.sign, GetSensorData(s)[t.type])

\* A sensor that has exceeded a threshold is not compared again.
ApplyThresholdAnew(exceeded, t) ==   \* (faulty variant)
  [s \in Sensors |-> IF s \in FindSensor(t.processId, t.name) THEN HandleThreshold(s, t)
                     ELSE exceeded[s]]
ApplyThreshold(exceeded, t) ==
  [s \in Sensors |-> exceeded[s] \/ (s \in FindSensor(t.processId, t.name) /\ HandleThreshold(s, t))]

\* The thresholds of a process, in the order of the configuration.
ThresholdsApplied(processId) ==
  LET thresholds == config_.thresholds
      exceeded[n \in 0..Len(thresholds)] ==
        IF n = 0 THEN thresholdExceeded
        ELSE IF thresholds[n].processId = processId THEN ApplyThreshold(exceeded[n - 1], thresholds[n])
        ELSE exceeded[n - 1]
  IN  exceeded[Len(thresholds)]

-----------------------------------------------------------------------------
InitResults ==
  /\ data = <<>> /\ correlations = <<>> /\ unchecked = {}
  /\ thresholdExceeded = [s \in Sensors |-> FALSE]

\* A round of the measurement loop.
Measure ==
  /\ pc = "measure" /\ Len(data) < MaxSamples
  /\ \E sample \in Samples : data' = Append(data, sample)
  /\ UNCHANGED <<pc, config_, correlations, unchecked, thresholdExceeded>>

\* AnalyzeData begins: sensors are collected and correlated.
AnalyzeData ==
  /\ pc = "measure"
  /\ correlations' = GetCorrelation
  /\ unchecked' = GetProcesses
  /\ pc' = "thresholds"
  /\ UNCHANGED <<config_, data, thresholdExceeded>>

\* One process of SetThresholdResults, in an order of the unordered set's own.
SetThresholdResults(processId) ==
  /\ pc = "thresholds" /\ processId \in unchecked
  /\ unchecked' = unchecked \ {processId}
  /\ thresholdExceeded' = ThresholdsApplied(processId)
  /\ UNCHANGED <<pc, config_, data, correlations>>

ExportData ==
  /\ pc = "thresholds" /\ unchecked = {}
  /\ pc' = "export"
  /\ UNCHANGED <<config_, data, correlations, unchecked, thresholdExceeded>>

-----------------------------------------------------------------------------
(* Properties *)

\* The variables of the analysis have the values the code can give them.
ResultsTypeOK ==
  /\ data \in Seq(Samples)
  /\ unchecked \subseteq GetProcesses
  /\ thresholdExceeded \in [Sensors -> BOOLEAN]
  /\ \A c \in Range(correlations) : c.sensor1 \in Performance /\ c.sensor2 \in Sensors \ Performance

\* What has a value in sample k for the correlation: a measurement, or, with
\* pretest zeroes, any sample taken before the process was due to start.
Counts(s, k) ==
  data[k][s] # NotMeasured \/ (config_.settings.enablePretestZeroes /\ k < Delay(s))

\* Two sensors are correlated over exactly the samples both have a value in, and
\* each value with the one of the same sample: after the removal of what was not
\* measured both vectors are as long as there are such samples, and in step.
PairsAreSimultaneous ==
  \A c \in Range(correlations) :
    LET common == {k \in DOMAIN data : Counts(c.sensor1, k) /\ Counts(c.sensor2, k)}
    IN  \A v \in {c.of[1], c.of[2]} :
          /\ {v[i].sample : i \in DOMAIN v} = common
          /\ \A i, j \in DOMAIN v : i < j => v[i].sample < v[j].sample

\* correlation.cpp:157, of two sensors that both vary: the coefficient is defined
\* and between -1 and 1.
CoefficientInRange ==
  \A c \in Range(correlations) :
    LET r == c.correlation
        Varies(v) == \E i, j \in DOMAIN v : v[i].value # v[j].value
    IN  Varies(c.of[1]) /\ Varies(c.of[2]) =>
          /\ r.spreadU > 0 /\ r.spreadV > 0
          /\ r.numerator * r.numerator <= r.spreadU * r.spreadV

\* Of all datapoints of a sensor at most half are below the median and at most half
\* above it, and it favours neither side: turning all values around turns it around.
\* The lowest and the highest value were measured, and unless the multiplier is negative
\* they are in order, with the average and the median between them if there is no steady
\* state.
SummaryIsOrdered ==
  \A s \in Sensors :
    LET v == GetDatapoints(s)
        m == GetMedian(v)
        turned == Times(-1, GetMedian([k \in DOMAIN v |-> -v[k]]))
        d == GetSensorData(s)
    IN  v # <<>> =>
          /\ 2 * Cardinality({k \in DOMAIN v : v[k] * m[2] < m[1]}) <= Len(v)
          /\ 2 * Cardinality({k \in DOMAIN v : v[k] * m[2] > m[1]}) <= Len(v)
          /\ Compare(m, "<=", turned) /\ Compare(turned, "<=", m)
          /\ {d.min[1], d.max[1]} \subseteq {Multiplier[s] * x : x \in Range(v)}
          /\ Multiplier[s] >= 0 =>
               /\ Compare(d.min, "<=", d.max)
               /\ ~UseSteadyState(s) => \A x \in {d.average, d.median} :
                                          Compare(d.min, "<=", x) /\ Compare(x, "<=", d.max)

\* When the results are exported, a sensor is marked exactly if one of the thresholds
\* of its process and name was exceeded, wherever it stands among the others.
MarkedIfAnyThresholdExceeded ==
  pc = "export" =>
    \A s \in Sensors :
      thresholdExceeded[s] <=>
        \E t \in Range(config_.thresholds) :
          s \in FindSensor(t.processId, t.name) /\ HandleThreshold(s, t)

\* README.md:125: "the formula <measured value> <sign> <threshold> is used".
ThresholdFormula ==
  pc = "export" =>
    \A s \in Sensors :
      thresholdExceeded[s] <=>
        \E t \in Range(config_.thresholds) :
          /\ s \in FindSensor(t.processId, t.name) /\ GetSensorData(s) # <<>>
          /\ Compare(GetSensorData(s)[t.type], t.sign, <<t.value, 1>>)
=============================================================================
