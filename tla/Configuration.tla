--------------------------- MODULE Configuration ---------------------------
(***************************************************************************)
(* What the tool makes of its command line (CInputHandler, VerifyArguments) *)
(* and of its two JSON files (the from_json functions of both directories   *)
(* of configurations).  A JSON object is a function from the fields it has  *)
(* to their values, which have the right type; what ends in an exception    *)
(* nobody catches is Thrown.                                                *)
(***************************************************************************)
EXTENDS Integers, Sequences, SequencesExt, Functions

CONSTANTS
  Thrown,     \* instead of a result: an exception
  Absent,     \* instead of the content of a file: there is none
  Malformed,  \* instead of an object: text that is no JSON
  Numerals    \* the arguments std::stoi accepts

-----------------------------------------------------------------------------
(* The command line, as the options getopt_long finds in it: a code, which is *)
(* "long" for a long option, the name of that, and the argument, "" if none. *)

SUserArgs == [configFile |-> "", sensorInfoFile |-> "sensor_config.json",
              enableInfoLog |-> FALSE, enableDebugLog |-> FALSE]

Correct(args) == [outcome |-> "correct", args |-> args]
Incorrect(args) == [outcome |-> "incorrect", args |-> args]

ParseLog(args, arg) ==
  CASE arg \notin Numerals -> [outcome |-> "thrown", args |-> args]
    [] arg = "1" -> Correct([args EXCEPT !.enableInfoLog = TRUE])
    [] arg = "2" -> Correct([args EXCEPT !.enableDebugLog = TRUE])
    [] arg = "3" -> Correct([args EXCEPT !.enableInfoLog = TRUE, !.enableDebugLog = TRUE])
    [] OTHER     -> Correct(args)

ParseArguments(letter, args, arg) ==
  CASE letter = "s" -> Correct([args EXCEPT !.sensorInfoFile = arg])
    [] letter = "c" -> Correct([args EXCEPT !.configFile = arg])
    [] letter = "l" -> ParseLog(args, arg)

\* Of the long options only those two have an effect; "help" is looked for in the
\* argument of any of them.
HandleOption(args, o) ==
  CASE o.code = "long" /\ o.arg = "help" -> Incorrect(args)
    [] o.code = "long" /\ o.arg # "help" /\ o.name = "config"  -> ParseArguments("c", args, o.arg)
    [] o.code = "long" /\ o.arg # "help" /\ o.name = "sensors" -> ParseArguments("s", args, o.arg)
    [] o.code = "long" /\ o.arg # "help" /\ o.name \in {"log", "help"} -> Correct(args)
    [] o.code \in {"c", "s", "l"} -> ParseArguments(o.code, args, o.arg)
    [] o.code \in {"h", "?"}      -> Incorrect(args)

\* The options in their order, up to the first that is incorrect.
Parse(options) ==
  LET parsed[n \in 0..Len(options)] ==
        IF n = 0 THEN Correct(SUserArgs)
        ELSE IF parsed[n - 1].outcome = "correct" THEN HandleOption(parsed[n - 1].args, options[n])
        ELSE parsed[n - 1]
  IN  parsed[Len(options)]

ContentOf(files, name) == IF name \in DOMAIN files THEN files[name] ELSE Absent
FileExists(files, name) == ContentOf(files, name) # Absent

VerifyArguments(parsed, files) ==
  IF \/ parsed.outcome = "incorrect"
     \/ parsed.args.configFile = ""
     \/ ~FileExists(files, parsed.args.sensorInfoFile)
     \/ ~FileExists(files, parsed.args.configFile)
  THEN -1 ELSE 0

-----------------------------------------------------------------------------
(* The configuration of the test *)

ValueOr(j, field, default) == IF field \in DOMAIN j THEN j[field] ELSE default

\* Each element of an array, unless one of them throws.
ParseEach(F(_), array) ==
  LET parsed == [k \in DOMAIN array |-> F(array[k])]
  IN  IF Thrown \in Range(parsed) THEN Thrown ELSE parsed

GetThresholdType == [minimum |-> "min", maximum |-> "max", average |-> "average", median |-> "median"]
GetSign == {">", "<", ">=", "<="}
SThreshold(j) ==
  IF \/ ~{"name", "type", "sign", "threshold"} \subseteq DOMAIN j
     \/ j.type \notin DOMAIN GetThresholdType
     \/ j.sign \notin GetSign
  THEN Thrown
  ELSE [name |-> j.name, type |-> GetThresholdType[j.type], sign |-> j.sign,
        processId |-> ValueOr(j, "process_id", -1), value |-> j.threshold]

GetProcessType == {"gstreamer", "linux_command"}
SProcess(j) ==
  IF \/ ~{"type", "command", "id"} \subseteq DOMAIN j
     \/ j.type \notin GetProcessType
     \/ j.id < 0 \/ ValueOr(j, "start_delay", 0) < 0
  THEN Thrown
  ELSE [processId |-> j.id, type |-> j.type, startDelay |-> ValueOr(j, "start_delay", 0),
        useSteadyState |-> ValueOr(j, "use_steady_state", FALSE)]

GetExportType == {"json", "graphs", "csv", "terminal"}
SExports(j) ==
  LET nameField == IF j.export_type = "graphs" THEN "foldername" ELSE "filename"
  IN  IF \/ ~{"export_type", "enabled"} \subseteq DOMAIN j
         \/ j.export_type \notin GetExportType
         \/ nameField \notin DOMAIN j
      THEN Thrown
      ELSE [exportType |-> j.export_type, exportEnabled |-> j.enabled, filename |-> j[nameField]]

GetMeasureType == {"fps", "latency", "processing time"}
SPipelineSensorConfig(j) ==
  IF \/ ~{"minimum", "maximum", "sensortype"} \subseteq DOMAIN j
     \/ j.sensortype \notin GetMeasureType
  THEN Thrown
  ELSE [minimumValue |-> j.minimum, maximumValue |-> j.maximum, sensorType |-> j.sensortype]

SSettings(j) ==
  LET exports == ParseEach(SExports, ValueOr(j, "exports", <<>>))
      pipelineConfig == ParseEach(SPipelineSensorConfig, ValueOr(j, "pipeline_config", <<>>))
  IN  IF \/ ~{"measure_loop_ms", "verbose", "enable_logs"} \subseteq DOMAIN j
         \/ exports = Thrown \/ pipelineConfig = Thrown
      THEN Thrown
      ELSE [exports |-> exports, pipelineConfig |-> pipelineConfig,
            verboseSummary |-> ValueOr(j, "enable_verbose_summary", FALSE),
            enableLiveMode |-> ValueOr(j, "enable_livemode", FALSE),
            enablePretestZeroes |-> ValueOr(j, "enable_pretest_zeroes", FALSE)]

\* GetJsonObj throws for what is no JSON.
SConfig(j) ==
  IF j = Malformed THEN Thrown
  ELSE IF ~{"name", "description", "id", "version", "thresholds", "processes", "settings"}
             \subseteq DOMAIN j THEN Thrown
  ELSE LET thresholds == ParseEach(SThreshold, j.thresholds)
           processes == ParseEach(SProcess, j.processes)
           settings == SSettings(j.settings)
       IN  IF thresholds = Thrown \/ processes = Thrown \/ settings = Thrown THEN Thrown
           ELSE [thresholds |-> thresholds, processes |-> processes, settings |-> settings]

\* The bounds of the live view of a kind of pipeline values: the first entry for it.
GetSensorConfig(settings, sensorType) ==
  LET found == SelectSeq(settings.pipelineConfig, LAMBDA e : e.sensorType = sensorType)
  IN  IF found # <<>> THEN found[1]
      ELSE [minimumValue |-> 0, maximumValue |-> 250, sensorType |-> sensorType]

-----------------------------------------------------------------------------
(* The configuration of the sensors *)

GetType == {"PROC", "DIRECT", "ARRAY", "PROCMEM", "PIDSTAT", "PIDSTATM", "DIRECT_PID"}
GetClass(classNr) == IF classNr = 1 THEN "SYS_RESOURCE_USAGE" ELSE "NONE"

\* A field without the fields of an array.  Without a maximum there is no live view.
Datafield(j) ==
  IF ~{"name", "type"} \subseteq DOMAIN j \/ j.type \notin GetType
  THEN Thrown
  ELSE [name |-> j.name, type |-> j.type, size |-> ValueOr(j, "size", 0),
        classType |-> GetClass(ValueOr(j, "class", 0)),
        multiplier |-> ValueOr(j, "multiplier", 1),
        minimumValue |-> ValueOr(j, "minimum", 0), maximumValue |-> ValueOr(j, "maximum", -1),
        showInLive |-> "maximum" \in DOMAIN j /\ ValueOr(j, "show_in_live", FALSE)]

SDatafields(j) ==
  LET datafields == ParseEach(Datafield, ValueOr(j, "data", <<>>))
  IN  IF Datafield(j) = Thrown \/ datafields = Thrown THEN Thrown
      ELSE [datafields |-> datafields] @@ Datafield(j)

SensorConfig(j) ==
  IF j = Malformed THEN Thrown
  ELSE IF ~{"name", "sensors"} \subseteq DOMAIN j THEN Thrown
  ELSE ParseEach(SDatafields, j.sensors)
=============================================================================
