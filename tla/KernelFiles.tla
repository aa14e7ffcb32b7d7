----------------------------- MODULE KernelFiles -----------------------------
(***************************************************************************)
(* What the parsers under linux/ and benchmarks/linux/ make of the files   *)
(* of /proc and /sys.  A file is a sequence of rows or of tokens; a parser *)
(* returns what it read, or Thrown for an exception, which nobody catches. *)
(* Counters are as small as the model needs; those of the kernel are 64    *)
(* bits wide and grow by less than that in any test.                       *)
(***************************************************************************)
EXTENDS Integers, Sequences, SequencesExt, Functions

CONSTANTS
  Thrown,             \* the exception
  Unreadable, Text    \* what a file may hold instead of a number

-----------------------------------------------------------------------------
(* /proc/stat: rows [name, counters]; those of CPUs come first. *)

CpuFields == <<"user", "nice", "system", "idle", "iowait", "irq", "softirq">>

StartsWithCpu(row) == row.isCpu

\* Cpu::Add: the first seven counters of a row with at least eight.
Cpu(row) ==
  IF StartsWithCpu(row) /\ Len(row.counters) >= 8
  THEN [f \in Range(CpuFields) |-> row.counters[CHOOSE k \in DOMAIN CpuFields : CpuFields[k] = f]]
  ELSE Thrown

\* Reading stops, without an error, at the first row that is none of a CPU.
GetProcStat(rows) ==
  LET read == {k \in DOMAIN rows : \A i \in 1..k : Cpu(rows[i]) # Thrown}
  IN  [name \in {rows[k].name : k \in read} |->
         Cpu(rows[CHOOSE k \in read : rows[k].name = name])]

\* The CPUs of the current read; one that is new has nothing to be compared with.
Minus(current, previous) ==
  IF DOMAIN current \subseteq DOMAIN previous
  THEN [c \in DOMAIN current |-> [f \in Range(CpuFields) |-> current[c][f] - previous[c][f]]]
  ELSE Thrown

AllExclIdle(cpu) ==
  cpu["iowait"] + cpu["irq"] + cpu["nice"] + cpu["softirq"] + cpu["system"] + cpu["user"]

GetProcStatGroupNoWait(cpu, group) ==   \* (faulty variant)
  CASE group = "all"           -> cpu["idle"] + AllExclIdle(cpu) - cpu["iowait"]
    [] group = "all_excl_idle" -> AllExclIdle(cpu)
    [] group \in Range(CpuFields) -> cpu[group]
    [] OTHER -> Thrown
GetProcStatGroup(cpu, group) ==
  CASE group = "all"           -> cpu["idle"] + AllExclIdle(cpu)
    [] group = "all_excl_idle" -> AllExclIdle(cpu)
    [] group \in Range(CpuFields) -> cpu[group]
    [] OTHER -> Thrown

\* The measured value is the fraction of the two; nothing looks for a zero below.
Fraction(value, comparedTo) ==
  IF Thrown \in {value, comparedTo} THEN Thrown ELSE <<value, comparedTo>>

ParseProcField(corrected, fieldName, field) ==
  IF fieldName \notin DOMAIN corrected THEN Thrown
  ELSE Fraction(GetProcStatGroup(corrected[fieldName], field.value),
                GetProcStatGroup(corrected[fieldName], field.comparedTo))

-----------------------------------------------------------------------------
(* /proc/meminfo: rows [name, amount]. *)

fieldMap == {"MemTotal", "MemFree", "MemAvailable"}

GetMemInfo(rows) ==
  FoldLeft(LAMBDA info, row : IF row.name \in fieldMap THEN [info EXCEPT ![row.name] = row.amount]
                              ELSE info,
           [f \in fieldMap |-> 0], rows)

GetField(info, field, optional) ==
  IF field \in fieldMap THEN info[field] ELSE IF optional THEN 1 ELSE Thrown

ParseMemField(info, field) ==
  Fraction(GetField(info, field.value, FALSE), GetField(info, field.comparedTo, TRUE))

-----------------------------------------------------------------------------
(* /proc/<pid>/stat: one row of tokens between blanks.  A token is a number  *)
(* or a word, and "of" says what the kernel wrote it for.                    *)

StatFields == <<"pid", "exeName", "state", "ppid", "pgrp", "session", "tty_nr", "tpgid", "flags",
  "minflt", "cminflt", "majflt", "cmajflt", "utime", "stime", "cutime", "cstime", "priority",
  "nice", "num_threads", "itrealvalue", "starttime", "vsize", "rss", "rsslim", "startcode",
  "endcode", "startstack", "kstkesp", "kstkeip", "signal", "blocked", "sigignore", "sigcatch",
  "wchan", "nswap", "cnswap", "exit_signal", "processor", "rt_priority", "policy",
  "delayacct_blkio_ticks", "guest_time", "cguest_time", "start_data", "end_data", "start_brk",
  "arg_start", "arg_end", "env_start", "env_end", "exit_code">>

\* What the kernel writes of a program: its name as it is, blanks included.
\* Each part of the name is a number or not.
KernelStat(name) ==
  [k \in 1..Len(name) |-> [of |-> "exeName", isNumber |-> name[k]]]
StatTokens(name) ==
  <<[of |-> "pid", isNumber |-> TRUE]>> \o KernelStat(name)
    \o <<[of |-> "state", isNumber |-> FALSE]>>
    \o [k \in 1..Len(StatFields) - 3 |-> [of |-> StatFields[k + 3], isNumber |-> TRUE]]

nameToValue == Range(StatFields) \ {"exeName"}

\* The constructor of Stat: each field from the token of its index, where all but
\* the name and the state have to be numbers.
StatWithoutState(tokens) ==   \* (faulty variant)
  LET At(f) == CHOOSE k \in DOMAIN StatFields : StatFields[k] = f
  IN  [f \in nameToValue |-> tokens[At(f)].of]
Stat(tokens) ==
  LET At(f) == CHOOSE k \in DOMAIN StatFields : StatFields[k] = f
  IN  IF \E f \in nameToValue \ {"state"} : ~tokens[At(f)].isNumber THEN Thrown
      ELSE [f \in nameToValue |-> tokens[At(f)].of]

\* Of a stat a value is compared with another one unless that is zero.
GetValue(values, field) ==
  IF field.value \notin DOMAIN values THEN Thrown
  ELSE IF field.comparedTo = "" THEN <<values[field.value]>>
  ELSE IF field.comparedTo \notin DOMAIN values THEN Thrown
  ELSE <<values[field.value], values[field.comparedTo]>>

-----------------------------------------------------------------------------
(* /proc/<pid>/statm: seven numbers. *)

orderedNames_ == <<"size", "resident", "shared", "text", "lib", "data", "dt">>

ParseStatm(tokens) ==
  IF Len(tokens) > Len(orderedNames_) THEN Thrown
  ELSE [name \in {orderedNames_[i] : i \in DOMAIN tokens} |->
          tokens[CHOOSE i \in DOMAIN tokens : orderedNames_[i] = name]]

-----------------------------------------------------------------------------
(* A file with a single number, or, if something went wrong, none or a text. *)

ParseDirect(content) ==
  CASE content = Unreadable -> Unreadable
    [] content = Text -> Thrown
    [] OTHER -> content

\* A sensor that its enabled_path says is off counts as zero; whether the file is
\* missing then does not matter.
ParseMeasurement(enabled, content) ==
  IF ParseDirect(enabled) = Thrown THEN Thrown
  ELSE IF ParseDirect(enabled) = 0 THEN 0 ELSE ParseDirect(content)
=============================================================================
