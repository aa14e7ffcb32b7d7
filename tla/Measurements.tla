---------------------------- MODULE Measurements ----------------------------
(***************************************************************************)
(* The measurement loop of CPerfMeasurements and the data it collects from *)
(* the kernel: the system sensors and the sensors of the Linux programs,   *)
(* each read by a CDataHandler through one parser per sensor type.  Between *)
(* any two reads time passes, programs end and their runners wait for them *)
(* (waitpid), after which /proc/<pid> is gone.                             *)
(*                                                                         *)
(* A measured value is represented by the interval of kernel time it is    *)
(* about: <<t, t>> for a value read at t, <<t, u>> for CPU time spent      *)
(* between the reads of /proc/stat at t and at u; what the parsers make of *)
(* the files as they were then is in KernelFiles.                          *)
(***************************************************************************)
EXTENDS Integers, Sequences, SequencesExt

CONSTANTS
  N,            \* the number of Linux programs, in the order of processIds_
  Config,       \* the sensor configuration: a sequence of entries, see Elements
  System,       \* what the system sensors measure
  None,         \* not read yet
  Machines,     \* a sequence of machines, each with the contents of its files: stat at each
                \* time and meminfo, sensor and enabled, and comm, the names of each program
                \* and of the process that takes its pid, split at blanks
  Thrown, Unreadable, Text,   \* see KernelFiles
  MaxTicks,     \* bound: how far kernel time goes
  MaxSamples    \* bound: how often the loop goes round

K == INSTANCE KernelFiles

Processes == 1..N
Owners == {"program", "foreign"}
SystemTypes == {"DIRECT", "PROC_MEM", "PROC_STAT"}
ProcessTypes == {"DIRECT_PID", "PID_STAT", "PID_STATM"}

ASSUME MeasurementsAssumption ==
  /\ N \in Nat /\ MaxTicks \in Nat /\ MaxSamples \in Nat
  /\ System \notin Int
  /\ None \notin Int \cup (Int \X Int)

VARIABLES
  machine,            \* which of Machines the test runs on
  now,                \* kernel time
  life,               \* of each program: "runs", "zombie", "gone" (waited for), or
                      \* "foreign": its pid now names some other process
  pc,                 \* where the measuring thread is
  target,             \* what ParseMeasurements measures: System or a process
  pending,            \* parsers whose InitializeRuntime is still to come
  field,              \* the next of datafields_
  uniqueId,           \* the static counter of GetUniqueId
  definition,         \* measureFieldsDefinition_ of both classes
  uniqueIds_,         \* the ids of the fields of each process
  active,             \* processIds_[..].active
  pidStatData_, pidStatmData_,        \* what the PID parsers keep of each process
  statOwner,          \* whose stat pidStatData_ has: that of the program, or a foreign one
  meminfo_, procStat_, procStatCorrected_,
  lastMeasurements_,  \* of the data handler of each class
  measurementData,    \* the sample under way
  measurementsData_   \* all samples

world == <<machine, now, life>>
handlers == <<uniqueIds_, uniqueId, pidStatData_, pidStatmData_, statOwner, meminfo_,
              procStat_, procStatCorrected_>>
vars == <<world, pc, target, pending, field, definition, active, handlers,
          lastMeasurements_, measurementData, measurementsData_>>

ClassOf(x) == IF x = System THEN "SYSTEM" ELSE "PROCESSES"
FieldTypes(x) == IF x = System THEN SystemTypes ELSE ProcessTypes

-----------------------------------------------------------------------------
(* The configuration.  An entry is a data field [name, type, path, what],     *)
(* where what is [value, comparedTo], or an array [type |-> "ARRAY", size,   *)
(* data] whose fields are repeated size times.                               *)

\* ParseArray: the fields of these types, each with its index in name and path.
ParseArray(types, e) ==
  LET own == SelectSeq(e.data, LAMBDA d : d.type \in types)
  IN  FlattenSeq([i \in 1..e.size |->
        [k \in 1..Len(own) |->
           [own[k] EXCEPT !.name = Append(@, i - 1), !.path = Append(@, i - 1)]]])

Elements(types, e) ==
  IF e.type = "ARRAY" THEN ParseArray(types, e) ELSE IF e.type \in types THEN <<e>> ELSE <<>>

\* The class of system sensors parses an array once to see whether it is empty
\* and once more for its fields; the ids of the first time are never used.
UnusedIds(types, e) ==
  IF e.type = "ARRAY" /\ types = SystemTypes THEN Len(ParseArray(types, e)) ELSE 0

GetMeasureFields(types, acc, e) ==
  LET new == Elements(types, e)
      last == acc.uniqueId + UnusedIds(types, e)
  IN  [uniqueId   |-> last + Len(new),
       definition |-> acc.definition \o
         [k \in 1..Len(new) |-> [id |-> last + k, name |-> new[k].name, type |-> new[k].type,
                                path |-> new[k].path, what |-> new[k].what]]]

\* After each number of entries: the counter and the fields so far.
FieldsAfter(types, id) ==
  LET fields[i \in 0..Len(Config)] ==
        IF i = 0 THEN [uniqueId |-> id, definition |-> <<>>]
        ELSE GetMeasureFields(types, fields[i - 1], Config[i])
  IN  fields

GetFields(types, id) == FieldsAfter(types, id)[Len(Config)]

\* Each class parses fields of its own types only.
ASSUME ConfigAssumption ==
  /\ Len(Config) \in Nat
  /\ \A types \in {SystemTypes, ProcessTypes}, i \in 1..Len(Config) :
       LET new == Elements(types, Config[i])
       IN  Len(new) \in Nat /\ \A k \in 1..Len(new) : new[k].type \in types

\* No two sensors of one class have one name.
DistinctNames ==
  LET sys == GetFields(SystemTypes, 0)
      proc == GetFields(ProcessTypes, sys.uniqueId)
  IN  \A d \in {sys.definition, proc.definition} :
        \A j, k \in DOMAIN d : d[j].name = d[k].name => j = k

\* What the files are that the parsers read: numbers, of which the counters of a CPU never
\* go back; a process's name has at most 16 parts, being of at most 15 characters.
ProcStatFiles ==
  [m \in DOMAIN Machines |-> [t \in 0..MaxTicks |-> K!GetProcStat(Machines[m].stat[t])]]
StatFiles ==
  [m \in DOMAIN Machines |->
     [p \in Processes |-> [o \in Owners |-> K!Stat(K!StatTokens(Machines[m].comm[p][o]))]]]
MemInfoFiles == [m \in DOMAIN Machines |-> K!GetMemInfo(Machines[m].meminfo)]

Counters == [Range(K!CpuFields) -> Int]

ASSUME MachinesAssumption ==
  \A m \in DOMAIN Machines :
    /\ MemInfoFiles[m] \in [K!fieldMap -> Int]
    /\ Machines[m].enabled \in Int \cup {Unreadable, Text}
    /\ \A p \in Processes, o \in Owners : Len(Machines[m].comm[p][o]) \in 1..16
    /\ \A t \in 0..MaxTicks :
         LET now_ == ProcStatFiles[m][t]
         IN  /\ Machines[m].sensor[t] \in Int \cup {Unreadable, Text}
             /\ now_ \in [DOMAIN now_ -> Counters]
             /\ \A u \in t..MaxTicks : \A c \in DOMAIN now_ \cap DOMAIN ProcStatFiles[m][u] :
                  \A f \in Range(K!CpuFields) : now_[c][f] <= ProcStatFiles[m][u][c][f]

\* An exception is none of the values a parser returns.
ASSUME ThrownAssumption ==
  /\ Unreadable \notin Int /\ Text \notin Int
  /\ Thrown \notin Int \cup {Unreadable, Text} \cup (Int \X Int)
  /\ \A S \in {K!nameToValue, Range(K!orderedNames_)} : Thrown \notin [S -> S] \cup Seq(S)
  /\ \A m \in DOMAIN Machines, t \in 0..MaxTicks :
       Thrown \notin [DOMAIN ProcStatFiles[m][t] -> Counters]

\* Every sensor is about something its file has.
FieldsAreThere ==
  LET sys == GetFields(SystemTypes, 0)
      proc == GetFields(ProcessTypes, sys.uniqueId)
      Groups == {"all", "all_excl_idle"} \cup Range(K!CpuFields)
  IN  /\ \A f \in Range(sys.definition) :
           /\ f.type = "PROC_MEM" => f.what.value \in K!fieldMap
           /\ f.type = "PROC_STAT" =>
                /\ {f.what.value, f.what.comparedTo} \subseteq Groups
                /\ \A m \in DOMAIN Machines : f.path \in DOMAIN ProcStatFiles[m][0]
      /\ \A f \in Range(proc.definition) :
           LET there == IF f.type = "PID_STAT" THEN K!nameToValue ELSE Range(K!orderedNames_)
           IN  f.type \in {"PID_STAT", "PID_STATM"} =>
                 f.what.value \in there /\ f.what.comparedTo \in there \cup {""}

-----------------------------------------------------------------------------
Init ==
  /\ machine \in DOMAIN Machines
  /\ now = 0
  /\ life = [p \in Processes |-> "runs"]
  /\ pc = "Initialize" /\ target = System /\ pending = {} /\ field = 1
  /\ uniqueId = 0 /\ uniqueIds_ = <<>>
  /\ definition = [c \in {"SYSTEM", "PROCESSES"} |-> <<>>]
  /\ active = [p \in Processes |-> TRUE]
  /\ pidStatData_ = [p \in Processes |-> None]
  /\ pidStatmData_ = [p \in Processes |-> None]
  /\ statOwner = [p \in Processes |-> "program"]
  /\ meminfo_ = None /\ procStat_ = None /\ procStatCorrected_ = None
  /\ lastMeasurements_ = [c \in {"SYSTEM", "PROCESSES"} |-> <<>>]
  /\ measurementData = [SYSTEM |-> <<>>, PROCESSES |-> <<>>]
  /\ measurementsData_ = <<>>

(* The world. *)

Tick ==
  /\ now < MaxTicks
  /\ now' = now + 1
  /\ UNCHANGED <<machine, life, pc, target, pending, field, definition, active, handlers,
                 lastMeasurements_, measurementData, measurementsData_>>

ProgramEnds(p) ==
  /\ life[p] = "runs"
  /\ life' = [life EXCEPT ![p] = "zombie"]
  /\ UNCHANGED <<machine, now, pc, target, pending, field, definition, active, handlers,
                 lastMeasurements_, measurementData, measurementsData_>>

\* waitpid of the runner returns: /proc/<pid> disappears.
WaitPid(p) ==
  /\ life[p] = "zombie"
  /\ life' = [life EXCEPT ![p] = "gone"]
  /\ UNCHANGED <<machine, now, pc, target, pending, field, definition, active, handlers,
                 lastMeasurements_, measurementData, measurementsData_>>

\* The kernel gives the pid to a new process, which is none of the test's.
PidReused(p) ==
  /\ life[p] = "gone"
  /\ life' = [life EXCEPT ![p] = "foreign"]
  /\ UNCHANGED <<machine, now, pc, target, pending, field, definition, active, handlers,
                 lastMeasurements_, measurementData, measurementsData_>>

-----------------------------------------------------------------------------
(* Initialization, between the first and the second wait. *)

\* The uniqueIds_ entries give a process sensor its id.
IdsOf(ids, p) == {ids[k] : k \in {x \in DOMAIN ids : x[1] = p}}

\* GetSensors: a sensor that has no unique id yet is left out.
GetSensors(ids) == UNION {IdsOf(ids, p) : p \in Processes}

\* The kernel's files are kept as the time of their contents, and those of a process
\* as None when there is no such directory.
GetProcStat == now
GetMemInfo == now
GetStats(p) == IF life[p] = "gone" THEN None ELSE now

ProcStatAt(t) == ProcStatFiles[machine][t]
StatOf(p, owner) == StatFiles[machine][p][owner]
Owner(p) == IF life[p] = "foreign" THEN "foreign" ELSE "program"

\* The parsers' Initialize reads /proc/stat and /proc/meminfo a first time.
Initialize ==
  /\ pc = "Initialize"
  /\ LET sys == GetFields(SystemTypes, uniqueId)
         proc == GetFields(ProcessTypes, sys.uniqueId)
     IN  /\ definition' = [SYSTEM |-> sys.definition, PROCESSES |-> proc.definition]
         /\ uniqueId' = proc.uniqueId
  /\ meminfo_' = GetMemInfo
  /\ procStat_' = GetProcStat
  /\ pc' = "Loop"
  /\ UNCHANGED <<world, target, pending, field, active, uniqueIds_, pidStatData_, pidStatmData_,
                 statOwner, procStatCorrected_, lastMeasurements_, measurementData,
                 measurementsData_>>

-----------------------------------------------------------------------------
(* One round of the loop. *)

\* ParseMeasurements begins: what was measured last is forgotten.
BeginParsingKeep(x) ==   \* (faulty variant)
  /\ pc' = "Parsers" /\ target' = x /\ pending' = FieldTypes(x) /\ field' = 1
  /\ UNCHANGED lastMeasurements_
BeginParsing(x) ==
  /\ pc' = "Parsers" /\ target' = x /\ pending' = FieldTypes(x) /\ field' = 1
  /\ lastMeasurements_' = [lastMeasurements_ EXCEPT ![ClassOf(x)] = <<>>]

StartSample ==
  /\ pc = "Loop"
  /\ Len(measurementsData_) < MaxSamples
  /\ measurementData' = [SYSTEM |-> <<>>, PROCESSES |-> <<>>]
  /\ BeginParsing(System)
  /\ UNCHANGED <<world, definition, active, handlers, measurementsData_>>

\* The processes are measured in the order of processIds_, inactive ones skipped.
NextActiveTooFar(x) ==   \* (faulty variant)
  {p \in (IF x = System THEN 1 ELSE x + 1)..(N + 1) :
     /\ p = N + 1 \/ active'[p]
     /\ \A q \in (IF x = System THEN 1 ELSE x + 1)..(p - 1) : ~active'[q]}
NextActive(x) ==
  {p \in (IF x = System THEN 1 ELSE x + 1)..N :
     /\ active'[p]
     /\ \A q \in (IF x = System THEN 1 ELSE x + 1)..(p - 1) : ~active'[q]}

GoOnAfter(x) ==
  IF NextActive(x) = {}
  THEN /\ pc' = "Store" /\ target' = System /\ pending' = {} /\ field' = 1
       /\ UNCHANGED lastMeasurements_
  ELSE \E p \in NextActive(x) : BeginParsing(p)

\* ParseMeasurements returns false: no system values in this sample, or a process
\* that is never measured again.
GiveUpOnce ==   \* (faulty variant)
  /\ UNCHANGED <<active, measurementData>>
  /\ GoOnAfter(target)
GiveUp ==
  /\ active' = IF target = System THEN active ELSE [active EXCEPT ![target] = FALSE]
  /\ UNCHANGED measurementData
  /\ GoOnAfter(target)

\* What ParseProcStat keeps of a read: the difference with the one before.
Minus(current, previous) == <<previous, current>>
ParseProcStatOnce ==   \* (faulty variant)
  /\ procStatCorrected_' =
       IF procStat_ = None THEN procStatCorrected_ ELSE Minus(GetProcStat, procStat_)
  /\ procStat_' = IF procStat_ = None THEN GetProcStat ELSE procStat_
ParseProcStat ==
  /\ procStatCorrected_' =
       IF procStat_ = None THEN procStatCorrected_ ELSE Minus(GetProcStat, procStat_)
  /\ procStat_' = GetProcStat

\* std::unordered_map::insert leaves an entry that is there alone.
Insert(map, p) == [map EXCEPT ![p] = IF @ = None THEN GetStats(p) ELSE @]

\* CPUs that came since the last read, and a stat that cannot be parsed.
InitializeThrows(type) ==
  CASE type = "PROC_STAT" -> /\ procStat_ # None
                             /\ K!Minus(ProcStatAt(GetProcStat), ProcStatAt(procStat_)) = Thrown
    [] type = "PID_STAT"  -> StatOf(target, Owner(target)) = Thrown
    [] OTHER -> FALSE

\* InitializeRuntime of one parser; the map of parsers gives no order.
InitializeRuntime(type) ==
  /\ pc = "Parsers" /\ type \in pending
  /\ type \in {"PID_STAT", "PID_STATM"} => GetStats(target) # None
  /\ pending' = pending \ {type}
  /\ pc' = IF InitializeThrows(type) THEN "Terminated"
           ELSE IF pending' = {} THEN "Fields" ELSE "Parsers"
  /\ IF type = "PROC_STAT" THEN ParseProcStat ELSE UNCHANGED <<procStat_, procStatCorrected_>>
  /\ meminfo_' = IF type = "PROC_MEM" THEN GetMemInfo ELSE meminfo_
  /\ pidStatData_' = IF type = "PID_STAT" THEN Insert(pidStatData_, target) ELSE pidStatData_
  /\ statOwner' = IF type = "PID_STAT" /\ pidStatData_[target] = None
                  THEN [statOwner EXCEPT ![target] = Owner(target)] ELSE statOwner
  /\ pidStatmData_' = IF type = "PID_STATM" THEN Insert(pidStatmData_, target) ELSE pidStatmData_
  /\ UNCHANGED <<world, target, field, definition, active, uniqueIds_, uniqueId,
                 lastMeasurements_, measurementData, measurementsData_>>

InitializeRuntimeFails(type) ==
  /\ pc = "Parsers" /\ type \in pending \cap {"PID_STAT", "PID_STATM"}
  /\ GetStats(target) = None
  /\ GiveUp
  /\ UNCHANGED <<world, definition, handlers, measurementsData_>>

\* CreateUniqueId: the id of a field of a process, handed out the first time.
CreateUniqueIdOfProcess(p, datafieldId) ==   \* (faulty variant)
  LET known == {k \in DOMAIN uniqueIds_ : k[1] = p}
      id == IF known = {} THEN uniqueId + 1 ELSE uniqueIds_[CHOOSE k \in known : TRUE]
  IN  /\ uniqueId' = IF known = {} THEN id ELSE uniqueId
      /\ uniqueIds_' = [k \in DOMAIN uniqueIds_ \cup {<<p, datafieldId>>} |->
                          IF k = <<p, datafieldId>> THEN id ELSE uniqueIds_[k]]
CreateUniqueIdAgain(p, datafieldId) ==   \* (faulty variant)
  /\ uniqueId' = uniqueId + 1
  /\ uniqueIds_' = [k \in DOMAIN uniqueIds_ \cup {<<p, datafieldId>>} |->
                      IF k = <<p, datafieldId>> THEN uniqueId + 1 ELSE uniqueIds_[k]]
CreateUniqueId(p, datafieldId) ==
  IF <<p, datafieldId>> \in DOMAIN uniqueIds_
  THEN UNCHANGED <<uniqueId, uniqueIds_>>
  ELSE /\ uniqueId' = uniqueId + 1
       /\ uniqueIds_' = [k \in DOMAIN uniqueIds_ \cup {<<p, datafieldId>>} |->
                           IF k = <<p, datafieldId>> THEN uniqueId + 1 ELSE uniqueIds_[k]]

\* The id an item of this field gets: its own, or that of the field of the process.
SetId(f) ==
  IF target = System THEN UNCHANGED <<uniqueId, uniqueIds_>> ELSE CreateUniqueId(target, f.id)
ItemId(f) == IF target = System THEN f.id ELSE uniqueIds_'[<<target, f.id>>]

\* What the parser of the field's type answers.
Read(type) ==
  CASE type \in {"DIRECT", "DIRECT_PID"} -> <<now, now>>
    [] type = "PROC_MEM"  -> <<meminfo_, meminfo_>>
    [] type = "PROC_STAT" -> procStatCorrected_
    [] type = "PID_STAT"  -> <<pidStatData_[target], pidStatData_[target]>>
    [] type = "PID_STATM" -> <<pidStatmData_[target], pidStatmData_[target]>>

CurrentField == definition[ClassOf(target)][field]
AtField == pc = "Fields" /\ field <= Len(definition[ClassOf(target)])

\* The value of the field in what was read: of CPU time the share, of a process the
\* names of the fields it was taken from.  A parser that has not read its file, or
\* does not find the field in it, throws.
ValueOf(f, read) ==
  IF read \in {None, <<None, None>>} THEN Thrown ELSE
  CASE f.type = "DIRECT" -> K!ParseMeasurement(Machines[machine].enabled, Machines[machine].sensor[now])
    [] f.type = "DIRECT_PID" -> K!ParseDirect(now)
    [] f.type = "PROC_MEM"  -> K!ParseMemField(MemInfoFiles[machine], f.what)
    [] f.type = "PROC_STAT" ->
         K!ParseProcField(K!Minus(ProcStatAt(read[2]), ProcStatAt(read[1])), f.path, f.what)
    [] f.type = "PID_STAT"  -> K!GetValue(StatOf(target, statOwner[target]), f.what)
    [] f.type = "PID_STATM" -> K!GetValue(K!ParseStatm(K!orderedNames_), f.what)

CurrentValue == ValueOf(CurrentField, Read(CurrentField.type))

ParseMeasurement ==
  /\ AtField
  /\ CurrentField.type = "DIRECT_PID" => life[target] # "gone"
  /\ CurrentValue # Unreadable
  /\ SetId(CurrentField)
  /\ LET item == [id |-> ItemId(CurrentField), of |-> <<target, CurrentField.name>>,
                  type |-> CurrentField.type, read |-> Read(CurrentField.type),
                  measuredValue |-> CurrentValue]
     IN  lastMeasurements_' = [lastMeasurements_ EXCEPT ![ClassOf(target)] = Append(@, item)]
  /\ field' = field + 1
  /\ pc' = IF CurrentValue = Thrown THEN "Terminated" ELSE "Fields"
  /\ UNCHANGED <<world, target, pending, definition, active, pidStatData_, pidStatmData_,
                 statOwner, meminfo_, procStat_, procStatCorrected_, measurementData,
                 measurementsData_>>

\* Only files read directly can fail now: that of a sensor, and one of a process
\* once the program has ended.
ParseMeasurementFails ==
  /\ AtField
  /\ \/ CurrentField.type = "DIRECT" /\ CurrentValue = Unreadable
     \/ CurrentField.type = "DIRECT_PID" /\ life[target] # "runs"
  /\ SetId(CurrentField)
  /\ GiveUp
  /\ UNCHANGED <<world, definition, pidStatData_, pidStatmData_, statOwner, meminfo_, procStat_,
                 procStatCorrected_, measurementsData_>>

\* ParseMeasurements returns true: the values go into the sample.
Collect ==
  /\ pc = "Fields" /\ field > Len(definition[ClassOf(target)])
  /\ LET items == lastMeasurements_[ClassOf(target)]
     IN  measurementData' =
           IF target = System
           THEN [measurementData EXCEPT !.SYSTEM = items]
           ELSE [measurementData EXCEPT !.PROCESSES =
                   Append(@, [pipelineId |-> target, measuredItems |-> items])]
  /\ UNCHANGED <<world, definition, active, handlers, measurementsData_>>
  /\ GoOnAfter(target)

Store ==
  /\ pc = "Store"
  /\ measurementsData_' = Append(measurementsData_, measurementData)
  /\ pc' = "Loop"
  /\ UNCHANGED <<world, target, pending, field, definition, active, handlers,
                 lastMeasurements_, measurementData>>

\* AllCompleted: every runner has waited for its program.
EndLoop ==
  /\ pc = "Loop"
  /\ \A p \in Processes : life[p] \in {"gone", "foreign"}
  /\ pc' = "Analyze"
  /\ UNCHANGED <<world, target, pending, field, definition, active, handlers,
                 lastMeasurements_, measurementData, measurementsData_>>

\* The loop has ended.
Terminating == pc \in {"Analyze", "Terminated"} /\ UNCHANGED vars

Next ==
  \/ Tick \/ Terminating
  \/ \E p \in Processes : ProgramEnds(p) \/ WaitPid(p) \/ PidReused(p)
  \/ Initialize \/ StartSample \/ Collect \/ Store \/ EndLoop
  \/ \E t \in SystemTypes \cup ProcessTypes : InitializeRuntime(t) \/ InitializeRuntimeFails(t)
  \/ ParseMeasurement \/ ParseMeasurementFails

Spec == Init /\ [][Next]_vars

-----------------------------------------------------------------------------
(* Properties *)

ItemsOf(sample) ==
  Range(sample.SYSTEM) \cup UNION {Range(g.measuredItems) : g \in Range(sample.PROCESSES)}
FieldOf(i) == CHOOSE f \in Range(definition[ClassOf(i.of[1])]) : f.name = i.of[2]
AllItems == UNION {ItemsOf(measurementsData_[k]) : k \in DOMAIN measurementsData_}

\* The variables have the values the code can give them; in particular the
\* measuring thread only measures the system and processes there are.
TypeOK ==
  /\ now \in 0..MaxTicks
  /\ life \in [Processes -> {"runs", "zombie", "gone", "foreign"}]
  /\ pc \in {"Initialize", "Loop", "Parsers", "Fields", "Store", "Analyze", "Terminated"}
  /\ target \in {System} \cup Processes
  /\ pending \subseteq FieldTypes(target)
  /\ field \in Nat /\ uniqueId \in Nat
  /\ active \in [Processes -> BOOLEAN] /\ statOwner \in [Processes -> Owners]
  /\ {pidStatData_[p] : p \in Processes} \cup {pidStatmData_[p] : p \in Processes}
       \cup {meminfo_, procStat_} \subseteq Nat \cup {None}
  /\ \A i \in AllItems : /\ i.id \in 1..uniqueId /\ i.of[1] \in {System} \cup Processes
                         /\ i.read[1] \in 0..now /\ i.read[2] \in 0..now

\* GetSummarizedData and the exports find the values of a sensor by nothing but the
\* id: over the whole test an id stands for one sensor, and a sensor keeps its id.
EveryIdNamesOneSensor ==
  \A a, b \in AllItems : a.id = b.id <=> a.of = b.of

\* A sample holds of the system, and of each process, one value for each of its
\* sensors in the order of the configuration, or nothing at all; a measurement
\* that breaks off half way leaves no part of it behind.
GroupsAreWhole ==
  \A k \in DOMAIN measurementsData_ :
    LET Whole(x, items) ==
          /\ Len(items) = Len(definition[ClassOf(x)])
          /\ \A i \in DOMAIN items : items[i].of = <<x, definition[ClassOf(x)][i].name>>
        s == measurementsData_[k]
    IN  /\ s.SYSTEM = <<>> \/ Whole(System, s.SYSTEM)
        /\ \A i \in DOMAIN s.PROCESSES :
             Whole(s.PROCESSES[i].pipelineId, s.PROCESSES[i].measuredItems)

Measured(k) == {g.pipelineId : g \in Range(measurementsData_[k].PROCESSES)}

\* A process that could not be measured once is not measured again, not even when
\* its pid can be read again, and in every sample the processes keep their order.
GivenUpForever ==
  /\ \A k \in DOMAIN measurementsData_, l \in DOMAIN measurementsData_ :
       k < l => Measured(l) \subseteq Measured(k)
  /\ \A k \in DOMAIN measurementsData_ :
       LET g == measurementsData_[k].PROCESSES
       IN  \A i, j \in DOMAIN g : i < j => g[i].pipelineId < g[j].pipelineId

CpuReads(k) == {i.read : i \in {x \in Range(measurementsData_[k].SYSTEM) : x.type = "PROC_STAT"}}

\* The CPU values of all samples are about disjoint spans of time, and those of two
\* samples in a row leave no time out: no CPU time is counted twice or lost.
CpuIntervalsAbut ==
  \A k, l \in DOMAIN measurementsData_ :
    k < l => \A r \in CpuReads(k), s \in CpuReads(l) :
      /\ r[1] <= r[2] /\ r[2] <= s[1]
      /\ l = k + 1 => r[2] = s[1]

\* Whatever has been measured of a process belongs to a sensor that GetSensors will
\* report when the data is analysed; it leaves out sensors without an id.
MeasuredSensorsAreReported ==
  \A i \in AllItems : i.of[1] # System => i.id \in GetSensors(uniqueIds_)

\* What may end the tool: a CPU came or went, a program, or a process that has taken the
\* pid of one, has blanks in its name, or a sensor's file holds a text.
Excused ==
  \/ \E t, u \in 0..now : DOMAIN ProcStatAt(t) # DOMAIN ProcStatAt(u)
  \/ \E p \in Processes : \E o \in {"program", Owner(p)} : Len(Machines[machine].comm[p][o]) > 1
  \/ \E t \in 0..now : Text \in {Machines[machine].enabled, Machines[machine].sensor[t]}

\* filesystem.h:97: a value of /proc/<pid>/stat is of the field the sensor names and of
\* no other, whatever the process with this pid is called.  The tool ends by no exception
\* but these: no parser is ever asked for what it has not read.
ReadRightOrEnd ==
  /\ \A i \in AllItems :
       i.type \in {"PID_STAT", "PID_STATM"} => i.measuredValue[1] = FieldOf(i).what.value
  /\ pc = "Terminated" => Excused

\* proc_handler.cpp:39: what was measured of a CPU as a share of all its time is between
\* nothing and all; only if no time of it was counted at all is it the 0/0 it must not be.
LoadIsAShare ==
  \A i \in AllItems :
    (i.type = "PROC_STAT" /\ FieldOf(i).what.comparedTo = "all") =>
      LET v == i.measuredValue
          cpu == FieldOf(i).path
      IN  /\ 0 <= v[1] /\ v[1] <= v[2]
          /\ v[2] = 0 => ProcStatAt(i.read[1])[cpu] = ProcStatAt(i.read[2])[cpu]

\* data_handler.cpp:47: what a parser reads is "loaded once during every
\* measurement", so a value in a sample is not older than those of the sample before.
ValuesAreCurrent ==
  \A k, l \in DOMAIN measurementsData_ : k < l =>
    \A i \in ItemsOf(measurementsData_[k]), j \in ItemsOf(measurementsData_[l]) :
      i.read[2] <= j.read[2]

-----------------------------------------------------------------------------
(* The samples as those who analyse them know them *)

\* Whether the current round of the loop has read /proc/stat already.
HasReadCpu ==
  \/ pc \in {"Fields", "Store"}
  \/ pc = "Parsers" /\ (target = System => "PROC_STAT" \notin pending)

\* Of each sample its programs and the spans its CPU values are about, and the time up to
\* which the samples stored have counted.
Taken ==
  [k \in DOMAIN measurementsData_ |-> [programs |-> Measured(k), cpu |-> CpuReads(k)]]
CountedUpTo == IF HasReadCpu \/ pc = "Terminated" THEN procStatCorrected_[1] ELSE procStat_

Log == INSTANCE SampleLog
         WITH Programs <- Processes, NotYet <- None, log <- Taken, upTo <- CountedUpTo

\* perf_measurements.cpp:96: whatever ends, fails or is read again in between, the samples are
\* a list that only grows, whose programs do not return and whose spans of CPU time abut.
ImplementsSampleLog == Log!Spec
=============================================================================
