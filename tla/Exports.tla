------------------------------ MODULE Exports ------------------------------
(***************************************************************************)
(* What is made of a test for its reader: the live view during the          *)
(* measurement (CTerminalUI) and, when the results are there, the exports of *)
(* the configuration one after the other: CSV files, graphs drawn from these *)
(* files by gnuplot, a JSON file and a summary in the terminal.             *)
(*                                                                         *)
(* A CSV file is its labels and its rows of cells; NotMeasured is an empty  *)
(* cell.  The time of a sample is its number.  A file that cannot be opened  *)
(* stays as it is, and nothing is said about it.                            *)
(***************************************************************************)
EXTENDS Analysis, Configuration

CONSTANTS
  MeasuredRaw,       \* the sensors with measuredRaw
  ResourceUsage,     \* the sensors of class SYS_RESOURCE_USAGE
  MeasureType,       \* of each sensor of a pipeline, what it measures
  ShowInLive,        \* sensors of the system and of processes with show_in_live
  MinimumValue, MaximumValue,  \* of each system sensor, the bounds of the live view
  MaxColor,          \* colorRange_.max, 15 in the code
  ReadOnly           \* sets of files that may not open for writing, each with its type

VARIABLES
  readOnly,     \* the files that do not open for writing
  nextExport,   \* the export ExportData has come to
  csvFiles,     \* of each class, its file
  jsonFiles,    \* the JSON files written, by name
  graphs,       \* the graphs drawn, by the names of both sensors
  summary,      \* what has been printed, if anything
  live          \* CTerminalUI: lastMeasurement_, colorMap_, currentColor_ and what is shown

exportVars == <<readOnly, nextExport, csvFiles, jsonFiles, graphs, summary, live>>

Classes == Range(AllClasses)

\* FileWriter: a file that does not open gets no row.
Opens(type, name) == <<type, name>> \notin readOnly

\* A map in which the value of a key is set.
With(map, key, value) == [x \in DOMAIN map \cup {key} |-> IF x = key THEN value ELSE map[x]]

-----------------------------------------------------------------------------
(* CCsv *)

NoFile == [labels |-> <<>>, rows |-> <<>>]

RawSensors(c) == Selected(GetSensors(c), MeasuredRaw)
ParseLabel(c) == <<"time">> \o [i \in DOMAIN RawSensors(c) |-> UserId[RawSensors(c)[i]]]

Cell(sample, s) == IF sample[s] = NotMeasured THEN NotMeasured ELSE sample[s] * Multiplier[s]
ParseDataWithoutGaps(c, k) ==   \* (faulty variant)
  <<k>> \o SelectSeq([i \in DOMAIN RawSensors(c) |-> Cell(data[k], RawSensors(c)[i])],
                     LAMBDA x : x # NotMeasured)
ParseData(c, k) ==
  <<k>> \o [i \in DOMAIN RawSensors(c) |-> Cell(data[k], RawSensors(c)[i])]

CsvFile(c) == [labels |-> ParseLabel(c), rows |-> [k \in DOMAIN data |-> ParseData(c, k)]]

-----------------------------------------------------------------------------
(* CGraphs *)

\* Globals::strongCorrelation is 0.8; not-a-number compares false.
StronglyPositive(c) ==   \* (faulty variant)
  LET r == c.correlation
  IN  /\ r.spreadU * r.spreadV > 0 /\ r.numerator > 0
      /\ 25 * r.numerator * r.numerator >= 16 * r.spreadU * r.spreadV
IsStrong(c) ==
  LET r == c.correlation
  IN  /\ r.spreadU * r.spreadV > 0
      /\ 25 * r.numerator * r.numerator >= 16 * r.spreadU * r.spreadV

GetClassification(s) == CHOOSE c \in Classes : s \in Range(GetSensors(c))

\* What gnuplot plots of a file: the first column with this label, where it has a value.
Curve(file, label) ==
  LET column == Min({i \in DOMAIN file.labels : file.labels[i] = label})
      rows == Selected(file.rows, {r \in Range(file.rows) : column <= Len(r) /\ r[column] # NotMeasured})
  IN  [k \in DOMAIN rows |-> <<rows[k][1], rows[k][column]>>]

\* Without one of the files, or of the columns, or the folder graphs, gnuplot draws nothing.
CreateGraph(drawn, c) ==
  LET file(s) == csvFiles[GetClassification(s)]
      Plotted(s) == Curve(file(s), UserId[s])
  IN  IF \/ \E s \in {c.sensor1, c.sensor2} : UserId[s] \notin Range(file(s).labels)
         \/ ~Opens("graphs", "graphs")
      THEN drawn
      ELSE With(drawn, <<UserId[c.sensor1], UserId[c.sensor2]>>,
                <<Plotted(c.sensor1), Plotted(c.sensor2)>>)

Graphs ==
  LET drawn[n \in 0..Len(correlations)] ==
        IF n = 0 THEN graphs
        ELSE IF IsStrong(correlations[n]) THEN CreateGraph(drawn[n - 1], correlations[n]) ELSE drawn[n - 1]
  IN  drawn[Len(correlations)]

-----------------------------------------------------------------------------
(* CJson and CSummaryGenerator *)

Named(c) == [sensor1 |-> UserId[c.sensor1], sensor2 |-> UserId[c.sensor2], value |-> c.correlation]

\* What there is of a sensor in the tree of the configuration.
Item(s) == [Label |-> UserId[s]]
Json == [items |-> [s \in Sensors |-> Item(s)],
         correlations |-> [k \in DOMAIN correlations |-> Named(correlations[k])]]

PrintCorrelations ==
  LET strong == Selected(correlations, {c \in Range(correlations) : IsStrong(c)})
  IN  [k \in DOMAIN strong |-> Named(strong[k])]

\* The sensors of each process by name: the first of each.
PrintThresholds ==
  {s \in Sensors : thresholdExceeded[s] /\ s \in FindSensor(ProcessId[s], UserId[s])}

\* The average was multiplied before: here it is a second time.
PrintValue(s) ==
  IF GetSensorData(s) = <<>> THEN <<>> ELSE Times(Multiplier[s], GetSensorData(s).average)

PrintSystemSummary ==
  LET listed == {s \in Sensors :
        \/ config_.settings.verboseSummary
        \/ GetClassification(s) = "PIPELINE" /\ s \notin MeasuredRaw
        \/ GetClassification(s) # "PIPELINE" /\ s \in ResourceUsage}
  IN  [s \in listed |-> PrintValue(s)]

Summary == [averages |-> PrintSystemSummary, thresholds |-> PrintThresholds,
            correlations |-> PrintCorrelations]

-----------------------------------------------------------------------------
(* CExport::ExecuteExport *)

FullExport(e) ==
  /\ csvFiles' = IF e.exportType = "csv"
                 THEN [c \in Classes |-> IF Opens("csv", c) THEN CsvFile(c) ELSE csvFiles[c]]
                 ELSE csvFiles
  /\ jsonFiles' = IF e.exportType = "json" /\ Opens("json", e.filename)
                  THEN With(jsonFiles, e.filename, Json) ELSE jsonFiles
  /\ graphs' = IF e.exportType = "graphs" THEN Graphs ELSE graphs
  /\ summary' = IF e.exportType = "terminal" THEN Summary ELSE summary

AtExport == pc = "export" /\ nextExport <= Len(config_.settings.exports)

ExecuteExportOrEnd ==   \* (faulty variant)
  /\ AtExport
  /\ LET e == config_.settings.exports[nextExport]
     IN  IF e.exportEnabled
         THEN nextExport' = nextExport + 1 /\ FullExport(e)
         ELSE /\ nextExport' = Len(config_.settings.exports) + 1
              /\ UNCHANGED <<csvFiles, jsonFiles, graphs, summary>>
  /\ UNCHANGED <<vars, readOnly, live>>
ExecuteExport ==
  /\ AtExport
  /\ nextExport' = nextExport + 1
  /\ LET e == config_.settings.exports[nextExport]
     IN  IF e.exportEnabled THEN FullExport(e)
         ELSE UNCHANGED <<csvFiles, jsonFiles, graphs, summary>>
  /\ UNCHANGED <<vars, readOnly, live>>

-----------------------------------------------------------------------------
(* CTerminalUI *)

\* GetSensors of the pipelines knows the elements that have been measured so far.
Known(samples) ==
  {s \in Range(PipelineSensors) : \E k \in DOMAIN samples : samples[k][s] # NotMeasured}

InView == {e.sensor : e \in Range(live.shown)}

OfPipeline(sensors, p) == {s \in sensors : ProcessId[s] = p}

\* One sensor of each kind of each pipeline is shown, the first in the order of a hash
\* map, which may change when an element is added to it.
LivePipelineSensors(samples) ==
  {chosen \in SUBSET Known(samples) :
     /\ \A s \in Known(samples) :
          Cardinality({t \in chosen : /\ ProcessId[t] = ProcessId[s]
                                      /\ MeasureType[t] = MeasureType[s]}) = 1
     /\ \A p \in {ProcessId[s] : s \in Known(samples)} :
          OfPipeline(Known(samples), p) = OfPipeline(Known(Front(samples)), p) =>
            OfPipeline(chosen, p) = OfPipeline(InView, p)}

\* The sensors of processes are collected before any of them has an id: none is shown.
LiveSensors(chosen) ==
  Selected(SystemSensors \o PipelineSensors, ShowInLive \cup chosen)

\* The color of a sensor, and the one the next new sensor will get.
GetColor(ui, s) ==
  IF s \in DOMAIN ui.colorMap_ THEN <<ui.colorMap_[s], ui.currentColor_>>
  ELSE <<ui.currentColor_, IF ui.currentColor_ + 1 > MaxColor THEN 1 ELSE ui.currentColor_ + 1>>

\* The bounds of a sensor of a pipeline are those of its kind.
UserData(s) ==
  IF s \in Range(PipelineSensors) THEN GetSensorConfig(config_.settings, MeasureType[s])
  ELSE [minimumValue |-> MinimumValue[s], maximumValue |-> MaximumValue[s]]

GetPercentage(s, value) ==
  <<value * Multiplier[s] - UserData(s).minimumValue,
    UserData(s).maximumValue - UserData(s).minimumValue>>

\* A sensor that was not measured this time is shown as it was last.
RememberFirst(last, s, value) == IF s \in DOMAIN last THEN last ELSE With(last, s, value)   \* (faulty variant)
Remember(last, s, value) == With(last, s, value)

GetElement(ui, s, sample) ==
  LET measured == sample[s] # NotMeasured
      value == CASE measured -> sample[s]
                 [] ~measured /\ s \in DOMAIN ui.lastMeasurement_ -> ui.lastMeasurement_[s]
                 [] OTHER -> UserData(s).minimumValue
      color == GetColor(ui, s)
  IN  [viewed |-> ui.viewed,
       lastMeasurement_ |-> IF measured THEN Remember(ui.lastMeasurement_, s, value)
                            ELSE ui.lastMeasurement_,
       colorMap_ |-> With(ui.colorMap_, s, color[1]),
       currentColor_ |-> color[2],
       shown |-> Append(ui.shown, [sensor |-> s, value |-> value * Multiplier[s],
                                   gauge |-> GetPercentage(s, value), color |-> color[1]])]

\* One element after the other is added to the view.
ViewOf(empty, sensors, sample) ==
  LET ui[n \in 0..Len(sensors)] ==
        IF n = 0 THEN empty ELSE GetElement(ui[n - 1], sensors[n], sample)
  IN  ui[Len(sensors)]

\* The view is drawn anew; viewed is history: the samples for which a sensor stood there.
AddMeasurements(samples) ==
  \E chosen \in LivePipelineSensors(samples) :
    LET viewed == [s \in Sensors |-> IF s \in Range(LiveSensors(chosen))
                                     THEN live.viewed[s] \cup {Len(samples)} ELSE live.viewed[s]]
    IN  live' = ViewOf([live EXCEPT !.shown = <<>>, !.viewed = viewed], LiveSensors(chosen), Last(samples))

MeasureAndShow ==
  /\ Measure
  /\ IF config_.settings.enableLiveMode THEN AddMeasurements(data') ELSE UNCHANGED live
  /\ UNCHANGED <<readOnly, nextExport, csvFiles, jsonFiles, graphs, summary>>

-----------------------------------------------------------------------------
\* The CSV files are those of an earlier test, if there was one.
InitExports ==
  /\ nextExport = 1 /\ readOnly \in ReadOnly
  /\ csvFiles \in {[c \in Classes |-> NoFile],
                   [c \in Classes |-> [labels |-> ParseLabel(c), rows |-> <<>>]]}
  /\ jsonFiles = <<>> /\ graphs = <<>> /\ summary = <<>>
  /\ live = [lastMeasurement_ |-> <<>>, colorMap_ |-> <<>>, currentColor_ |-> 1, shown |-> <<>>,
             viewed |-> [s \in Sensors |-> {}]]
=============================================================================
