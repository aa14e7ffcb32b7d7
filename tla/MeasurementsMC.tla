--------------------------- MODULE MeasurementsMC ---------------------------
(* A sensor configuration for Measurements: single sensors of the system and *)
(* of the processes, and an array that holds one of each kind; and machines  *)
(* on which nothing happens, CPUs go or come, a program and a process that   *)
(* takes a pid have odd names, or a sensor's file holds a text.              *)
EXTENDS Measurements

Field(name, type, path, value, comparedTo) ==
  [name |-> name, type |-> type, path |-> path,
   what |-> [value |-> value, comparedTo |-> comparedTo]]

MCConfig ==
  << Field(<<"memory">>, "PROC_MEM", <<>>, "MemFree", "MemTotal"),
     [name |-> "cores", type |-> "ARRAY", size |-> 2,
      data |-> << Field(<<"load">>, "PROC_STAT", <<"cpu">>, "all_excl_idle", "all"),
                  Field(<<"io">>, "DIRECT_PID", <<"io">>, "", "") >>],
     Field(<<"temperature">>, "DIRECT", <<"temp">>, "", ""),
     Field(<<"faults">>, "PID_STAT", <<>>, "minflt", "flags") >>

Times == 0..MaxTicks

\* The first CPU idles half of its time, the second only waits, and nothing is
\* counted at all in the first tick.
Core(i, t) ==
  [name |-> <<"cpu", i>>, isCpu |-> TRUE,
   counters |-> IF i = 0 THEN <<t \div 2, 0, t \div 2, 2 * (t \div 2), 0, 0, 0, 0>>
                ELSE <<0, 0, 0, 0, t \div 2, 0, 0, 0>>]
ProcStat(cores, t) ==
  [i \in 1..Len(cores) |-> Core(cores[i], t)] \o <<[name |-> <<"intr">>, isCpu |-> FALSE]>>

Steady ==
  [stat    |-> [t \in Times |-> ProcStat(<<0, 1>>, t)],
   meminfo |-> <<[name |-> "MemTotal", amount |-> 8], [name |-> "MemFree", amount |-> 2],
                 [name |-> "Buffers", amount |-> 1]>>,
   sensor  |-> [t \in Times |-> IF t = 1 THEN Unreadable ELSE 40],
   enabled |-> 1,
   comm    |-> [p \in Processes |-> [program |-> <<FALSE>>, foreign |-> <<TRUE>>]]]

MCMachines ==
  << Steady,
    [Steady EXCEPT !.stat[1] = ProcStat(<<0>>, 1), !.sensor[1] = Text],
    [Steady EXCEPT !.enabled = Text],
    [Steady EXCEPT !.enabled = 0,
                   !.comm[N].program = <<FALSE, TRUE, TRUE>>,
                   !.comm[1].foreign = <<FALSE, TRUE>>] >>

ASSUME MCDistinctNames == DistinctNames
ASSUME MCFieldsAreThere == FieldsAreThere
=============================================================================
