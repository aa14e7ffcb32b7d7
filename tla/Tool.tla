-------------------------------- MODULE Tool --------------------------------
(***************************************************************************)
(* The program from main() to its exit, with the processes of the test left *)
(* out (TestExecution has them): the command line is checked, the            *)
(* configurations are read, the loop measures and feeds the live view, the   *)
(* samples are analysed and the exports are written.                         *)
(***************************************************************************)
EXTENDS Exports

CONSTANTS
  CommandLines,  \* the sequences of options the tool may be started with
  Files,         \* the content of the files there are
  NoConfig       \* instead of a configuration, before there is one

\* Options are those getopt_long returns, arrays of a JSON file are sequences.  A sensor
\* that is not measured itself gets its id when the measurement is over.
ASSUME ToolAssumption ==
  /\ \A s \in Sensors \ MeasuredRaw : \A sample \in Samples : sample[s] = NotMeasured
  /\ ShowInLive \subseteq Range(SystemSensors) \cup Range(ProcessSensors)
  /\ \A given \in CommandLines :
       /\ given \in Seq(Range(given))
       /\ \A o \in Range(given) :
            \/ o.code \in {"c", "s", "l", "h", "?"}
            \/ o.code = "long" /\ o.name \in {"config", "sensors", "log", "help"}
  /\ \A j \in Range(Files) \ {Malformed} :
       /\ "thresholds" \in DOMAIN j => j.thresholds \in Seq(Range(j.thresholds))
       /\ "settings" \in DOMAIN j /\ "exports" \in DOMAIN j.settings =>
            j.settings.exports \in Seq(Range(j.settings.exports))
  /\ MaxColor \in Nat \ {0}

VARIABLES
  options,         \* the options of the command line
  userArguments_   \* what Parse has taken from them

toolVars == <<vars, exportVars, options, userArguments_>>

Init ==
  /\ pc = "arguments" /\ config_ = NoConfig
  /\ InitResults /\ InitExports
  /\ options \in CommandLines
  /\ userArguments_ = SUserArgs

\* An exception nobody catches terminates the tool; -1 is its exit code if it refuses.
VerifyInput ==
  /\ pc = "arguments"
  /\ LET parsed == Parse(options)
     IN  /\ userArguments_' = parsed.args
         /\ pc' = CASE parsed.outcome = "thrown" -> "terminated"
                    [] parsed.outcome # "thrown" /\ VerifyArguments(parsed, Files) = -1 -> "refused"
                    [] OTHER -> "parse"
  /\ UNCHANGED <<config_, data, correlations, unchecked, thresholdExceeded, exportVars, options>>

\* ConfigParser::Parse, in main and once more in the constructor of the analyzer.
ParseConfig ==
  /\ pc = "parse"
  /\ LET config == SConfig(ContentOf(Files, userArguments_.configFile))
     IN  IF config = Thrown THEN pc' = "terminated" /\ UNCHANGED config_
         ELSE pc' = "initialize" /\ config_' = config
  /\ UNCHANGED <<data, correlations, unchecked, thresholdExceeded, exportVars, options, userArguments_>>

\* Initialize of the sensor classes reads the file of the sensors.
InitializeSensors ==
  /\ pc = "initialize"
  /\ pc' = IF SensorConfig(ContentOf(Files, userArguments_.sensorInfoFile)) = Thrown
           THEN "terminated" ELSE "measure"
  /\ UNCHANGED <<config_, data, correlations, unchecked, thresholdExceeded, exportVars, options,
                 userArguments_>>

Return ==
  /\ pc = "export" /\ nextExport > Len(config_.settings.exports)
  /\ pc' = "returned"
  /\ UNCHANGED <<config_, data, correlations, unchecked, thresholdExceeded, exportVars, options,
                 userArguments_>>

Analyze ==
  \/ AnalyzeData
  \/ \E p \in GetProcesses : SetThresholdResults(p)
  \/ ExportData

\* The tool has ended.
Terminating == pc \in {"returned", "refused", "terminated"} /\ UNCHANGED toolVars

Next ==
  \/ VerifyInput \/ ParseConfig \/ InitializeSensors \/ Return \/ Terminating
  \/ Analyze /\ UNCHANGED <<exportVars, options, userArguments_>>
  \/ (MeasureAndShow \/ ExecuteExport) /\ UNCHANGED <<options, userArguments_>>

Spec == Init /\ [][Next]_toolVars

-----------------------------------------------------------------------------
(* Properties *)

\* The variables have the values the code can give them.
TypeOK ==
  /\ ResultsTypeOK
  /\ pc \in {"arguments", "parse", "initialize", "measure", "thresholds", "export",
             "returned", "refused", "terminated"}
  /\ DOMAIN csvFiles = Classes
  /\ live.currentColor_ \in 1..MaxColor
  /\ DOMAIN live.lastMeasurement_ \subseteq DOMAIN live.colorMap_

Exported == config_.settings.exports
EnabledBefore(type, i) ==
  \E j \in 1..(i - 1) : Exported[j].exportType = type /\ Exported[j].exportEnabled

\* What the test has measured of a sensor, sample by sample.
MeasuredCurve(s) ==
  LET samples == Selected([k \in DOMAIN data |-> k], {k \in DOMAIN data : data[k][s] # NotMeasured})
  IN  [i \in DOMAIN samples |-> <<samples[i], data[samples[i]][s] * Multiplier[s]>>]

NameIsUnique(s) == UserId[s] # "time" /\ \A t \in Sensors : UserId[t] = UserId[s] => t = s

\* README.md:57, export_graphs.cpp:56: for every pair of strongly correlated sensors, with
\* either sign, there is a graph with the values of this test and not those of files that
\* lay there before, provided CSV files come before the graphs among the exports, the files
\* and the folder of the graphs can be written, and the columns of both sensors, and the
\* file of the graph, can be told by their names.
GraphsShowThisTest ==
  pc = "returned" =>
    \A i \in DOMAIN Exported :
      (Exported[i].exportType = "graphs" /\ Exported[i].exportEnabled /\ EnabledBefore("csv", i)) =>
        \A c \in Range(correlations) :
          LET r == c.correlation
          IN  (/\ \A s \in {c.sensor1, c.sensor2} :
                    NameIsUnique(s) /\ Opens("csv", GetClassification(s))
               /\ Opens("graphs", "graphs")
               /\ r.spreadU > 0 /\ r.spreadV > 0
               /\ 25 * r.numerator * r.numerator >= 16 * r.spreadU * r.spreadV) =>
              /\ <<UserId[c.sensor1], UserId[c.sensor2]>> \in DOMAIN graphs
              /\ graphs[<<UserId[c.sensor1], UserId[c.sensor2]>>] =
                   <<MeasuredCurve(c.sensor1), MeasuredCurve(c.sensor2)>>

\* The summary and the CSV files of a test agree: the average printed of a sensor without a
\* multiplier is that of the cells of its column; every row has a cell for every label, no
\* value is printed exactly if the column is empty, and the sensors named for their
\* thresholds are those that exceeded one.
SummaryMatchesCsv ==
  (pc = "returned" /\ summary # <<>>) =>
    /\ \A c \in Classes \ {x \in Classes : csvFiles[x] = NoFile} :
         \A k \in DOMAIN csvFiles[c].rows : Len(csvFiles[c].rows[k]) = Len(csvFiles[c].labels)
    /\ \A c \in Classes : \A i \in DOMAIN RawSensors(c) :
         LET s == RawSensors(c)[i]
             file == csvFiles[c]
             column == [k \in DOMAIN file.rows |-> file.rows[k][i + 1]]
             cells == Selected(column, Range(column) \ {NotMeasured})
             printed == summary.averages[s]
         IN  (Members[s] = {s} /\ s \in DOMAIN summary.averages
                /\ EnabledBefore("csv", Len(Exported) + 1) /\ Opens("csv", c)) =>
               /\ printed = <<>> <=> cells = <<>>
               /\ printed # <<>> /\ Multiplier[s] = 1 =>
                    printed[1] * Len(cells) = Sum(cells) * printed[2]
    /\ summary.thresholds = {s \in Sensors : thresholdExceeded[s]}

\* What was measured of a sensor while it stood in the view.
SeenOf(ui, samples, s) == {k \in ui.viewed[s] : samples[k][s] # NotMeasured}

\* Every system sensor that is to be shown, and for each pipeline one of each kind it has
\* delivered, stands in the view once, with the value last measured while it stood there or
\* else its minimum, and in a color of its own as long as there are enough.
ShowsLastSeen(ui, samples) ==
  LET Shown == {e.sensor : e \in Range(ui.shown)}
  IN  /\ ShowInLive \cap Range(SystemSensors) \subseteq Shown
      /\ Cardinality(Shown) = Len(ui.shown)
      /\ \A s \in Known(samples) : \E t \in Shown \cap Known(samples) :
           ProcessId[t] = ProcessId[s] /\ MeasureType[t] = MeasureType[s]
      /\ \A e \in Range(ui.shown) :
           LET seen == SeenOf(ui, samples, e.sensor)
               last == IF seen = {} THEN UserData(e.sensor).minimumValue
                       ELSE samples[Max(seen)][e.sensor]
           IN  e.value = last * Multiplier[e.sensor]
      /\ \A e, f \in Range(ui.shown) :
           e.color = f.color => e.sensor = f.sensor \/ Cardinality(DOMAIN ui.colorMap_) > MaxColor

\* In live mode the view of a sensor is never older than what the view has had of it, though
\* the sensors of pipelines come and go in it.
LiveShowsLastSeen == (data # <<>> /\ config_.settings.enableLiveMode) => ShowsLastSeen(live, data)

\* The argument of the last option of this kind.
LastArgument(letter, name, default) ==
  LET given == {i \in DOMAIN options :
                  options[i].code = letter \/ (options[i].code = "long" /\ options[i].name = name)}
  IN  IF given = {} THEN default ELSE options[Max(given)].arg

\* What can be opened for this export is written.
Written(e) ==
  CASE e.exportType = "csv" -> \A c \in Classes : Opens("csv", c) => csvFiles[c] = CsvFile(c)
    [] e.exportType = "json" ->
         Opens("json", e.filename) => e.filename \in DOMAIN jsonFiles /\ jsonFiles[e.filename] = Json
    [] e.exportType = "terminal" -> summary # <<>>
    [] OTHER -> TRUE

\* The tool ends well only if it did what it was asked: with the files named last on the
\* command line, no option among them that is unknown, and of every enabled export what can
\* be opened is written, even if an earlier one could not be.  When it refuses, or an
\* exception ends it, it has not touched a file.
EndsAsAsked ==
  /\ pc \in {"measure", "thresholds", "export", "returned"} =>
       /\ \A i \in DOMAIN options : options[i].code \notin {"?", "h"}
       /\ config_ = SConfig(Files[LastArgument("c", "config", "")])
       /\ SensorConfig(Files[LastArgument("s", "sensors", "sensor_config.json")]) # Thrown
  /\ pc = "returned" => \A e \in Range(Exported) : e.exportEnabled => Written(e)
  /\ pc \in {"refused", "terminated"} =>
       /\ jsonFiles = <<>> /\ graphs = <<>> /\ summary = <<>> /\ data = <<>>
       /\ \A c \in Classes : csvFiles[c] # NoFile => csvFiles[c].rows = <<>>
=============================================================================
