------------------------------- MODULE ToolMC -------------------------------
(* A pipeline 1 that starts late, of two elements; two cores that are never        *)
(* measured apart, from the JSON file of the sensors; and two programs, 3 and 4,   *)
(* whose sensors have the same names.  Configurations of tests that can and cannot *)
(* be read.                                                                       *)
EXTENDS Tool

MCPipelineSensors == <<"fps1", "fps2", "allfps1">>
MCSystemSensors == <<"core0", "core1", "cores">>
MCProcessSensors == <<"memory3", "memory4">>
MCPerformance == {"fps1", "fps2"}
MCUserId == [fps1 |-> "source.fps", allfps1 |-> "fps", fps2 |-> "sink.fps",
             core0 |-> "core0", core1 |-> "core1", cores |-> "core",
             memory3 |-> "memory", memory4 |-> "memory"]
MCProcessId == [fps1 |-> 1, fps2 |-> 1, allfps1 |-> 1,
                core0 |-> -1, core1 |-> -1, cores |-> -1,
                memory3 |-> 3, memory4 |-> 4]
MCMembers == [fps1 |-> {"fps1"}, allfps1 |-> {"fps1", "fps2"}, fps2 |-> {"fps2"},
              core0 |-> {"core0"}, core1 |-> {"core1"}, cores |-> {"core0", "core1"},
              memory3 |-> {"memory3"}, memory4 |-> {"memory4"}]
\* The second core is idle when the first is not.
Sample(fps, core) ==
  [fps1 |-> fps, allfps1 |-> NotMeasured, fps2 |-> core, core0 |-> core,
   core1 |-> IF core = NotMeasured THEN NotMeasured ELSE 4 - core,
   cores |-> NotMeasured, memory3 |-> fps, memory4 |-> core]
MCSamples == {Sample(1, 1), Sample(3, 3), Sample(1, 3), Sample(3, 1),
              Sample(NotMeasured, 3), Sample(1, NotMeasured)}

CoreJson == [name |-> "core", type |-> "DIRECT", class |-> 1, multiplier |-> 2,
             minimum |-> 0, maximum |-> 8, show_in_live |-> TRUE]
ArrayJson == [name |-> "cores", type |-> "ARRAY", size |-> 2, data |-> <<CoreJson>>]
SensorsJson == [name |-> "board", sensors |-> <<ArrayJson>>]
Core == SensorConfig(SensorsJson)[1].datafields[1]

MCMultiplier ==
  [s \in Sensors |-> IF s \in {"core0", "core1", "cores"} THEN Core.multiplier ELSE 1]
MCMinimumValue == [s \in Range(SystemSensors) |-> Core.minimumValue]
MCMaximumValue == [s \in Range(SystemSensors) |-> Core.maximumValue]
\* A live view of the memory of a process is asked for, and of the cores if they have it.
MCShowInLive == {"memory3"} \cup IF Core.showInLive THEN {"core0", "core1"} ELSE {}
MCResourceUsage ==
  IF Core.classType = "SYS_RESOURCE_USAGE" THEN {"core0", "core1", "cores"} ELSE {}
MCMeasuredRaw == Sensors \ {"allfps1"}
\* The SYSTEM file is another user's, or there is no folder for the graphs.
MCReadOnly == {{}, {<<"csv", "SYSTEM">>, <<"json", "results">>}, {<<"graphs", "graphs">>}}
MCMeasureType == [s \in Range(PipelineSensors) |-> "fps"]

-----------------------------------------------------------------------------
LowJson == [process_id |-> 1, name |-> "source.fps", type |-> "minimum", sign |-> ">", threshold |-> 2]
HighJson == [process_id |-> 1, name |-> "source.fps", type |-> "average", sign |-> "<=", threshold |-> 3]
CoresJson == [name |-> "core", type |-> "median", sign |-> "<", threshold |-> 3]
UnknownJson == [process_id |-> 1, name |-> "unknown", type |-> "maximum", sign |-> ">=", threshold |-> 1]
SignJson == [CoresJson EXCEPT !.sign = "="]

Late == [type |-> "gstreamer", command |-> "pipeline", id |-> 1, start_delay |-> 3]
Steady == [use_steady_state |-> TRUE] @@ Late
Program(id) == [type |-> "linux_command", command |-> "program", id |-> id]

Csv(on) == [export_type |-> "csv", enabled |-> on, filename |-> "table"]
ToJson(on) == [export_type |-> "json", enabled |-> on, filename |-> "results"]
Terminal == [export_type |-> "terminal", enabled |-> TRUE, filename |-> ""]
Draw == [export_type |-> "graphs", enabled |-> TRUE, foldername |-> "graphs"]
NoFolder == [export_type |-> "graphs", enabled |-> TRUE, filename |-> "graphs"]

Settings(exports) ==
  [measure_loop_ms |-> 1000, verbose |-> FALSE, enable_logs |-> FALSE, exports |-> exports]
Live == [enable_livemode |-> TRUE, enable_pretest_zeroes |-> TRUE,
         pipeline_config |-> <<[minimum |-> 5, maximum |-> 60, sensortype |-> "fps"]>>]
Verbose == [enable_verbose_summary |-> TRUE]

Test(thresholds, processes, settings) ==
  [name |-> "test", description |-> "", id |-> 1, version |-> "1", thresholds |-> thresholds,
   processes |-> processes, settings |-> settings]

MCFiles ==
  [name \in {"sensor_config.json", "all", "steady", "old", "none", "text", "sign", "folder",
             "negative", "nosettings"} |->
     CASE name = "sensor_config.json" -> SensorsJson
       [] name = "all" -> Test(<<LowJson, CoresJson, HighJson>>, <<Late, Program(3), Program(4)>>,
                               Settings(<<ToJson(FALSE), Csv(TRUE), Draw, Terminal, ToJson(TRUE)>>) @@ Live)
       [] name = "steady" -> Test(<<HighJson, UnknownJson, LowJson>>, <<Steady, Program(3), Program(4)>>,
                                  Settings(<<Terminal, Csv(TRUE)>>) @@ Verbose)
       [] name = "old" -> Test(<<>>, <<Late, Program(3), Program(4)>>, Settings(<<Csv(FALSE), Draw>>))
       [] name = "none" -> Test(<<>>, <<Late, Program(3), Program(4)>>,
                                [measure_loop_ms |-> 1, verbose |-> FALSE, enable_logs |-> FALSE])
       [] name = "text" -> Malformed
       [] name = "sign" -> Test(<<SignJson>>, <<Program(3)>>, Settings(<<>>))
       [] name = "folder" -> Test(<<>>, <<Program(3)>>, Settings(<<NoFolder>>))
       [] name = "negative" -> Test(<<>>, <<Program(-1)>>, Settings(<<>>))
       [] name = "nosettings" -> [name |-> "test", description |-> "", id |-> 1]]

Short(letter, arg) == [code |-> letter, name |-> "", arg |-> arg]
Long(name, arg) == [code |-> "long", name |-> name, arg |-> arg]
MCCommandLines ==
  {<<Short("c", name)>> : name \in (DOMAIN MCFiles \ {"none"}) \cup {"missing"}} \cup
  {<<>>, <<Short("h", ""), Short("c", "all")>>, <<Short("c", "all"), Short("?", "")>>,
   <<Short("c", "text"), Long("config", "none"), Short("l", "3")>>,
   <<Long("help", ""), Short("c", "none"), Long("sensors", "sensor_config.json"),
     Long("log", "text")>>,
   <<Long("config", "help")>>,
   <<Short("l", "2"), Short("c", "none"), Short("s", "text")>>,
   <<Short("c", "none"), Short("l", "9"), Long("sensors", "missing")>>,
   <<Short("c", "none"), Short("l", "text")>>}
=============================================================================
