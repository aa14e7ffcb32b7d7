------------------------------ MODULE ToolProofs ------------------------------
(***************************************************************************)
(* Theorems about Tool, for every command line, every configuration and    *)
(* every series of samples.                                                *)
(***************************************************************************)
EXTENDS Tool, AnalysisProofs

-----------------------------------------------------------------------------
(* The recursive functions *)

\* Parse is the result of its recursion.
LEMMA ParseIsDefined ==
  ASSUME NEW opts, Len(opts) \in Nat
  PROVE  \E f : /\ f = [i \in 0..Len(opts) |-> IF i = 0 THEN Correct(SUserArgs) ELSE (IF f[i - 1].outcome = "correct" THEN HandleOption(f[i - 1].args, opts[i]) ELSE f[i - 1])]
               /\ Parse(opts) = f[Len(opts)]
<1>. DEFINE after(x, i) == (IF x.outcome = "correct" THEN HandleOption(x.args, opts[i]) ELSE x)
            step(f, i) == IF i = 0 THEN Correct(SUserArgs) ELSE after(f[i - 1], i)
            S == {n \in Nat : \E f : f = [i \in 0..n |-> step(f, i)]}
<1>. HIDE DEF after
<1>1. 0 \in S
  <2>1. [i \in 0..0 |-> Correct(SUserArgs)] = [i \in 0..0 |-> step([j \in 0..0 |-> Correct(SUserArgs)], i)]
    OBVIOUS
  <2>. QED
    BY <2>1
<1>2. ASSUME NEW n \in Nat, n \in S PROVE n + 1 \in S
  <2>1. PICK f : f = [i \in 0..n |-> step(f, i)]
    BY <1>2
  <2>. DEFINE g == [i \in 0..(n + 1) |-> IF i = n + 1 THEN after(f[n], n + 1) ELSE f[i]]
  <2>2. ASSUME NEW i \in 0..(n + 1) PROVE g[i] = step(g, i)
    <3>1. CASE i = 0
      BY <2>1, <3>1
    <3>2. CASE i = n + 1
      <4>1. n \in 0..(n + 1) /\ n # n + 1 /\ (n + 1) - 1 = n /\ n + 1 # 0
        OBVIOUS
      <4>2. g[n] = f[n]
        BY <4>1
      <4>. QED
        BY <3>2, <4>1, <4>2
    <3>3. CASE i # 0 /\ i # n + 1
      <4>1. i \in 0..n /\ i - 1 \in 0..(n + 1) /\ i - 1 # n + 1
        BY <3>3
      <4>2. g[i - 1] = f[i - 1] /\ g[i] = f[i]
        BY <4>1
      <4>. QED
        BY <2>1, <3>3, <4>1, <4>2
    <3>. QED
      BY <3>1, <3>2, <3>3
  <2>3. g = [i \in 0..(n + 1) |-> g[i]]
    OBVIOUS
  <2>. HIDE DEF g
  <2>4. g = [i \in 0..(n + 1) |-> step(g, i)]
    BY <2>2, <2>3
  <2>. QED
    BY <2>4
<1>. HIDE DEF S
<1>3. Len(opts) \in S
  BY <1>1, <1>2, SetInduction
<1>. USE DEF S
<1>4. \E f : f = [i \in 0..Len(opts) |-> step(f, i)]
  BY <1>3
<1>. DEFINE c == CHOOSE f : f = [i \in 0..Len(opts) |-> step(f, i)]
<1>5. c = [i \in 0..Len(opts) |-> step(c, i)]
  BY <1>4, Zenon
<1>6. Parse(opts) = c[Len(opts)]
  BY Zenon DEF Parse, after
<1>. HIDE DEF c
<1>. QED
  BY <1>5, <1>6, Zenon DEF after

\* So is a view.
LEMMA ViewIsDefined ==
  ASSUME NEW empty, NEW sensors, NEW sample, Len(sensors) \in Nat
  PROVE  \E f : /\ f = [i \in 0..Len(sensors) |-> IF i = 0 THEN empty ELSE GetElement(f[i - 1], sensors[i], sample)]
               /\ ViewOf(empty, sensors, sample) = f[Len(sensors)]
<1>. DEFINE after(x, i) == GetElement(x, sensors[i], sample)
            step(f, i) == IF i = 0 THEN empty ELSE after(f[i - 1], i)
            S == {n \in Nat : \E f : f = [i \in 0..n |-> step(f, i)]}
<1>. HIDE DEF after
<1>1. 0 \in S
  <2>1. [i \in 0..0 |-> empty] = [i \in 0..0 |-> step([j \in 0..0 |-> empty], i)]
    OBVIOUS
  <2>. QED
    BY <2>1
<1>2. ASSUME NEW n \in Nat, n \in S PROVE n + 1 \in S
  <2>1. PICK f : f = [i \in 0..n |-> step(f, i)]
    BY <1>2
  <2>. DEFINE g == [i \in 0..(n + 1) |-> IF i = n + 1 THEN after(f[n], n + 1) ELSE f[i]]
  <2>2. ASSUME NEW i \in 0..(n + 1) PROVE g[i] = step(g, i)
    <3>1. CASE i = 0
      BY <2>1, <3>1
    <3>2. CASE i = n + 1
      <4>1. n \in 0..(n + 1) /\ n # n + 1 /\ (n + 1) - 1 = n /\ n + 1 # 0
        OBVIOUS
      <4>2. g[n] = f[n]
        BY <4>1
      <4>. QED
        BY <3>2, <4>1, <4>2
    <3>3. CASE i # 0 /\ i # n + 1
      <4>1. i \in 0..n /\ i - 1 \in 0..(n + 1) /\ i - 1 # n + 1
        BY <3>3
      <4>2. g[i - 1] = f[i - 1] /\ g[i] = f[i]
        BY <4>1
      <4>. QED
        BY <2>1, <3>3, <4>1, <4>2
    <3>. QED
      BY <3>1, <3>2, <3>3
  <2>3. g = [i \in 0..(n + 1) |-> g[i]]
    OBVIOUS
  <2>. HIDE DEF g
  <2>4. g = [i \in 0..(n + 1) |-> step(g, i)]
    BY <2>2, <2>3
  <2>. QED
    BY <2>4
<1>. HIDE DEF S
<1>3. Len(sensors) \in S
  BY <1>1, <1>2, SetInduction
<1>. USE DEF S
<1>4. \E f : f = [i \in 0..Len(sensors) |-> step(f, i)]
  BY <1>3
<1>. DEFINE c == CHOOSE f : f = [i \in 0..Len(sensors) |-> step(f, i)]
<1>5. c = [i \in 0..Len(sensors) |-> step(c, i)]
  BY <1>4, Zenon
<1>6. ViewOf(empty, sensors, sample) = c[Len(sensors)]
  BY Zenon DEF ViewOf, after
<1>. HIDE DEF c
<1>. QED
  BY <1>5, <1>6, Zenon DEF after

\* So are the graphs that were drawn.
LEMMA GraphsAreDefined ==
  ASSUME Len(correlations) \in Nat
  PROVE  \E f : /\ f = [i \in 0..Len(correlations) |-> IF i = 0 THEN graphs ELSE (IF IsStrong(correlations[i]) THEN CreateGraph(f[i - 1], correlations[i]) ELSE f[i - 1])]
               /\ Graphs = f[Len(correlations)]
<1>. DEFINE after(x, i) == (IF IsStrong(correlations[i]) THEN CreateGraph(x, correlations[i]) ELSE x)
            step(f, i) == IF i = 0 THEN graphs ELSE after(f[i - 1], i)
            S == {n \in Nat : \E f : f = [i \in 0..n |-> step(f, i)]}
<1>. HIDE DEF after
<1>1. 0 \in S
  <2>1. [i \in 0..0 |-> graphs] = [i \in 0..0 |-> step([j \in 0..0 |-> graphs], i)]
    OBVIOUS
  <2>. QED
    BY <2>1
<1>2. ASSUME NEW n \in Nat, n \in S PROVE n + 1 \in S
  <2>1. PICK f : f = [i \in 0..n |-> step(f, i)]
    BY <1>2
  <2>. DEFINE g == [i \in 0..(n + 1) |-> IF i = n + 1 THEN after(f[n], n + 1) ELSE f[i]]
  <2>2. ASSUME NEW i \in 0..(n + 1) PROVE g[i] = step(g, i)
    <3>1. CASE i = 0
      BY <2>1, <3>1
    <3>2. CASE i = n + 1
      <4>1. n \in 0..(n + 1) /\ n # n + 1 /\ (n + 1) - 1 = n /\ n + 1 # 0
        OBVIOUS
      <4>2. g[n] = f[n]
        BY <4>1
      <4>. QED
        BY <3>2, <4>1, <4>2
    <3>3. CASE i # 0 /\ i # n + 1
      <4>1. i \in 0..n /\ i - 1 \in 0..(n + 1) /\ i - 1 # n + 1
        BY <3>3
      <4>2. g[i - 1] = f[i - 1] /\ g[i] = f[i]
        BY <4>1
      <4>. QED
        BY <2>1, <3>3, <4>1, <4>2
    <3>. QED
      BY <3>1, <3>2, <3>3
  <2>3. g = [i \in 0..(n + 1) |-> g[i]]
    OBVIOUS
  <2>. HIDE DEF g
  <2>4. g = [i \in 0..(n + 1) |-> step(g, i)]
    BY <2>2, <2>3
  <2>. QED
    BY <2>4
<1>. HIDE DEF S
<1>3. Len(correlations) \in S
  BY <1>1, <1>2, SetInduction
<1>. USE DEF S
<1>4. \E f : f = [i \in 0..Len(correlations) |-> step(f, i)]
  BY <1>3
<1>. DEFINE c == CHOOSE f : f = [i \in 0..Len(correlations) |-> step(f, i)]
<1>5. c = [i \in 0..Len(correlations) |-> step(c, i)]
  BY <1>4, Zenon
<1>6. Graphs = c[Len(correlations)]
  BY Zenon DEF Graphs, after
<1>. HIDE DEF c
<1>. QED
  BY <1>5, <1>6, Zenon DEF after

-----------------------------------------------------------------------------
(* The command line *)

IsOption(o) ==
  \/ o.code \in {"c", "s", "l", "h", "?"}
  \/ o.code = "long" /\ o.name \in {"config", "sensors", "log", "help"}

Names(o, letter, name) == o.code = letter \/ (o.code = "long" /\ o.name = name)

\* value is the argument of the last of the first n options of this kind.
IsLast(opts, n, letter, name, default, value) ==
  \/ /\ \A i \in 1..n : ~Names(opts[i], letter, name)
     /\ value = default
  \/ \E k \in 1..n : /\ Names(opts[k], letter, name) /\ value = opts[k].arg
                     /\ \A i \in 1..n : i > k => ~Names(opts[i], letter, name)

IsArgs(args) ==
  args = [f \in {"configFile", "sensorInfoFile", "enableInfoLog", "enableDebugLog"} |-> args[f]]

\* What is known after n options none of which was wrong.
ParsedSoFar(opts, n, r) ==
  /\ r.outcome \in {"correct", "incorrect", "thrown"}
  /\ r.outcome = "correct" =>
       /\ IsArgs(r.args)
       /\ \A i \in 1..n : opts[i].code \notin {"?", "h"}
       /\ IsLast(opts, n, "c", "config", "", r.args.configFile)
       /\ IsLast(opts, n, "s", "sensors", "sensor_config.json", r.args.sensorInfoFile)

\* One option sets the file it names or none.
LEMMA OneOption ==
  ASSUME NEW o, IsOption(o), NEW args, IsArgs(args)
  PROVE  LET r == HandleOption(args, o)
         IN  /\ r.outcome \in {"correct", "incorrect", "thrown"}
             /\ r.outcome = "correct" =>
                  /\ IsArgs(r.args) /\ o.code \notin {"?", "h"}
                  /\ r.args.configFile = IF Names(o, "c", "config") THEN o.arg ELSE args.configFile
                  /\ r.args.sensorInfoFile = IF Names(o, "s", "sensors") THEN o.arg ELSE args.sensorInfoFile
<1>. DEFINE r == HandleOption(args, o)
            Good(x) == /\ x.outcome \in {"correct", "incorrect", "thrown"}
                       /\ x.outcome = "correct" =>
                            /\ IsArgs(x.args) /\ o.code \notin {"?", "h"}
                            /\ x.args.configFile = IF Names(o, "c", "config") THEN o.arg ELSE args.configFile
                            /\ x.args.sensorInfoFile = IF Names(o, "s", "sensors") THEN o.arg ELSE args.sensorInfoFile
<1>. SUFFICES Good(r)
  OBVIOUS
<1>. HIDE DEF r
<1>a. IsArgs([args EXCEPT !.configFile = o.arg]) /\ IsArgs([args EXCEPT !.sensorInfoFile = o.arg])
  BY DEF IsArgs
<1>b. /\ [args EXCEPT !.configFile = o.arg].configFile = o.arg
      /\ [args EXCEPT !.configFile = o.arg].sensorInfoFile = args.sensorInfoFile
      /\ [args EXCEPT !.sensorInfoFile = o.arg].sensorInfoFile = o.arg
      /\ [args EXCEPT !.sensorInfoFile = o.arg].configFile = args.configFile
  BY DEF IsArgs
<1>c. ASSUME NEW new, r.outcome = "correct", r.args = new, IsArgs(new), o.code \notin {"?", "h"},
             new.configFile = IF Names(o, "c", "config") THEN o.arg ELSE args.configFile,
             new.sensorInfoFile = IF Names(o, "s", "sensors") THEN o.arg ELSE args.sensorInfoFile
      PROVE  Good(r)
  BY <1>c
<1>1. CASE o.code \in {"h", "?"} \/ (o.code = "long" /\ o.arg = "help")
  <2>1. r = Incorrect(args)
    BY <1>1 DEF HandleOption, r
  <2>. QED
    BY <2>1 DEF Incorrect
<1>3. CASE o.code = "c" \/ (o.code = "long" /\ o.arg # "help" /\ o.name = "config")
  <2>1. r = Correct([args EXCEPT !.configFile = o.arg])
    BY <1>3 DEF HandleOption, ParseArguments, r
  <2>2. r.outcome = "correct" /\ r.args = [args EXCEPT !.configFile = o.arg]
    BY <2>1 DEF Correct
  <2>3. Names(o, "c", "config") /\ ~Names(o, "s", "sensors") /\ o.code \notin {"?", "h"}
    BY <1>3 DEF Names
  <2>. QED
    BY <1>a, <1>b, <1>c, <2>2, <2>3
<1>4. CASE o.code = "s" \/ (o.code = "long" /\ o.arg # "help" /\ o.name = "sensors")
  <2>1. r = Correct([args EXCEPT !.sensorInfoFile = o.arg])
    BY <1>4 DEF HandleOption, ParseArguments, r
  <2>2. r.outcome = "correct" /\ r.args = [args EXCEPT !.sensorInfoFile = o.arg]
    BY <2>1 DEF Correct
  <2>3. ~Names(o, "c", "config") /\ Names(o, "s", "sensors") /\ o.code \notin {"?", "h"}
    BY <1>4 DEF Names
  <2>. QED
    BY <1>a, <1>b, <1>c, <2>2, <2>3
<1>5. CASE o.code = "long" /\ o.arg # "help" /\ o.name \in {"log", "help"}
  <2>1. r = Correct(args)
    BY <1>5 DEF HandleOption, r
  <2>2. r.outcome = "correct" /\ r.args = args
    BY <2>1 DEF Correct
  <2>3. ~Names(o, "c", "config") /\ ~Names(o, "s", "sensors") /\ o.code \notin {"?", "h"}
    BY <1>5 DEF Names
  <2>. QED
    BY <1>c, <2>2, <2>3
<1>6. CASE o.code = "l"
  <2>. DEFINE info == [args EXCEPT !.enableInfoLog = TRUE]
              debug == [args EXCEPT !.enableDebugLog = TRUE]
              both == [args EXCEPT !.enableInfoLog = TRUE, !.enableDebugLog = TRUE]
  <2>1. r = ParseLog(args, o.arg)
    BY <1>6 DEF HandleOption, ParseArguments, r
  <2>2. \/ r = [outcome |-> "thrown", args |-> args]
        \/ r = Correct(info) \/ r = Correct(debug) \/ r = Correct(both) \/ r = Correct(args)
    <3>1. CASE o.arg \notin Numerals \/ o.arg \in {"1", "2", "3"}
      BY <2>1, <3>1, SMTT(20) DEF ParseLog
    <3>2. CASE o.arg \in Numerals /\ o.arg \notin {"1", "2", "3"}
      BY <2>1, <3>2, Zenon DEF ParseLog
    <3>. QED
      BY <3>1, <3>2
  <2>3. \/ r.outcome = "thrown"
        \/ r.outcome = "correct" /\ r.args \in {info, debug, both, args}
    BY <2>2 DEF Correct
  <2>4. /\ IsArgs(info) /\ info.configFile = args.configFile /\ info.sensorInfoFile = args.sensorInfoFile
        /\ IsArgs(debug) /\ debug.configFile = args.configFile /\ debug.sensorInfoFile = args.sensorInfoFile
    BY DEF IsArgs
  <2>5. IsArgs(both) /\ both.configFile = args.configFile /\ both.sensorInfoFile = args.sensorInfoFile
    <3>1. both = [info EXCEPT !.enableDebugLog = TRUE]
      BY DEF IsArgs
    <3>. QED
      BY <2>4, <3>1 DEF IsArgs
  <2>6. ~Names(o, "c", "config") /\ ~Names(o, "s", "sensors") /\ o.code \notin {"?", "h"}
    BY <1>6 DEF Names
  <2>. HIDE DEF info, debug, both
  <2>. QED
    BY <1>c, <2>3, <2>4, <2>5, <2>6
<1>7. o.code \in {"h", "?", "c", "s", "l"} \/ (o.code = "long" /\ o.name \in {"config", "sensors", "log", "help"})
  BY DEF IsOption
<1>. QED
  BY <1>1, <1>3, <1>4, <1>5, <1>6, <1>7

\* One more option is the last of its kind.
LEMMA OneMoreOption ==
  ASSUME NEW opts, NEW n \in Nat, NEW letter, NEW name, NEW default, NEW value,
         IsLast(opts, n, letter, name, default, value)
  PROVE  IsLast(opts, n + 1, letter, name, default,
                IF Names(opts[n + 1], letter, name) THEN opts[n + 1].arg ELSE value)
<1>. DEFINE T(i) == Names(opts[i], letter, name)
<1>0. 1..(n + 1) = (1..n) \cup {n + 1} /\ n + 1 \in 1..(n + 1) /\ \A i \in 1..n : i < n + 1 /\ i \in 1..(n + 1)
  OBVIOUS
<1>1. CASE T(n + 1)
  BY <1>0, <1>1 DEF IsLast
<1>2. CASE ~T(n + 1)
  BY <1>0, <1>2 DEF IsLast
<1>. QED
  BY <1>1, <1>2

\* Parse takes the last file of each kind.
LEMMA ParseTakesLast ==
  ASSUME NEW opts, Len(opts) \in Nat, \A i \in 1..Len(opts) : IsOption(opts[i])
  PROVE  ParsedSoFar(opts, Len(opts), Parse(opts))
<1>. DEFINE N == Len(opts)
<1>1. PICK f : /\ f = [i \in 0..N |-> IF i = 0 THEN Correct(SUserArgs)
                                      ELSE (IF f[i - 1].outcome = "correct"
                                            THEN HandleOption(f[i - 1].args, opts[i]) ELSE f[i - 1])]
               /\ Parse(opts) = f[N]
  BY ParseIsDefined, Zenon
<1>. DEFINE S == {n \in Nat : n <= N => ParsedSoFar(opts, n, f[n])}
<1>2. 0 \in S
  <2>1. f[0] = Correct(SUserArgs)
    BY <1>1
  <2>2. f[0].outcome = "correct" /\ f[0].args = SUserArgs
    BY <2>1 DEF Correct
  <2>3. IsArgs(SUserArgs)
    BY DEF SUserArgs, IsArgs
  <2>4. SUserArgs.configFile = "" /\ SUserArgs.sensorInfoFile = "sensor_config.json"
    BY DEF SUserArgs
  <2>5. ParsedSoFar(opts, 0, f[0])
    <3>1. \A i \in 1..0 : FALSE
      OBVIOUS
    <3>2. IsLast(opts, 0, "c", "config", "", SUserArgs.configFile)
      BY <2>4, <3>1, Zenon DEF IsLast
    <3>3. IsLast(opts, 0, "s", "sensors", "sensor_config.json", SUserArgs.sensorInfoFile)
      BY <2>4, <3>1, Zenon DEF IsLast
    <3>4. \A i \in 1..0 : opts[i].code \notin {"?", "h"}
      BY <3>1
    <3>5. f[0].outcome \in {"correct", "incorrect", "thrown"}
      BY <2>2
    <3>. QED
      BY <2>2, <2>3, <3>2, <3>3, <3>4, <3>5, Zenon DEF ParsedSoFar
  <2>. QED
    BY <2>5
<1>3. ASSUME NEW n \in Nat, n \in S PROVE n + 1 \in S
  <2>. SUFFICES ASSUME n + 1 <= N PROVE ParsedSoFar(opts, n + 1, f[n + 1])
    OBVIOUS
  <2>1. n + 1 \in 0..N /\ n + 1 # 0 /\ (n + 1) - 1 = n /\ n + 1 \in 1..N /\ ParsedSoFar(opts, n, f[n])
    BY <1>3
  <2>2. f[n + 1] = IF f[n].outcome = "correct" THEN HandleOption(f[n].args, opts[n + 1]) ELSE f[n]
    BY <1>1, <2>1
  <2>3. CASE f[n].outcome # "correct"
    BY <2>1, <2>2, <2>3 DEF ParsedSoFar
  <2>4. CASE f[n].outcome = "correct"
    <3>. DEFINE a == f[n].args
                r == HandleOption(a, opts[n + 1])
    <3>1. f[n + 1] = r /\ IsArgs(a) /\ IsOption(opts[n + 1])
      BY <2>1, <2>2, <2>4 DEF ParsedSoFar
    <3>2. /\ r.outcome \in {"correct", "incorrect", "thrown"}
          /\ r.outcome = "correct" =>
               /\ IsArgs(r.args) /\ opts[n + 1].code \notin {"?", "h"}
               /\ r.args.configFile = IF Names(opts[n + 1], "c", "config") THEN opts[n + 1].arg ELSE a.configFile
               /\ r.args.sensorInfoFile =
                    IF Names(opts[n + 1], "s", "sensors") THEN opts[n + 1].arg ELSE a.sensorInfoFile
      BY <3>1, OneOption, Zenon
    <3>. HIDE DEF r
    <3>3. \A i \in 1..(n + 1) : i \in 1..n \/ i = n + 1
      OBVIOUS
    <3>4. \A i \in 1..n : opts[i].code \notin {"?", "h"}
      BY <2>1, <2>4 DEF ParsedSoFar
    <3>5. IsLast(opts, n + 1, "c", "config", "",
                 IF Names(opts[n + 1], "c", "config") THEN opts[n + 1].arg ELSE a.configFile)
      BY <2>1, <2>4, OneMoreOption DEF ParsedSoFar
    <3>6. IsLast(opts, n + 1, "s", "sensors", "sensor_config.json",
                 IF Names(opts[n + 1], "s", "sensors") THEN opts[n + 1].arg ELSE a.sensorInfoFile)
      BY <2>1, <2>4, OneMoreOption DEF ParsedSoFar
    <3>. QED
      BY <3>1, <3>2, <3>3, <3>4, <3>5, <3>6 DEF ParsedSoFar
  <2>. QED
    BY <2>3, <2>4
<1>4. N \in S
  <2>. HIDE DEF S
  <2>. QED
    BY <1>2, <1>3, SetInduction
<1>. QED
  BY <1>1, <1>4

\* The options the tool has are a sequence of options.
LEMMA OptionsAreOptions ==
  ASSUME options \in CommandLines
  PROVE  Len(options) \in Nat /\ DOMAIN options = 1..Len(options) /\ \A i \in 1..Len(options) : IsOption(options[i])
<1>1. options \in Seq(Range(options)) /\ \A o \in Range(options) : IsOption(o)
  BY ToolAssumption DEF IsOption
<1>2. Len(options) \in Nat /\ DOMAIN options = 1..Len(options)
  BY <1>1
<1>. QED
  BY <1>1, <1>2 DEF Range

\* LastArgument is that argument.
LEMMA LastArgumentIs ==
  ASSUME options \in CommandLines, NEW letter, NEW name, NEW default, NEW value,
         IsLast(options, Len(options), letter, name, default, value)
  PROVE  LastArgument(letter, name, default) = value
<1>. DEFINE given == {i \in DOMAIN options : Names(options[i], letter, name)}
<1>0. Len(options) \in Nat /\ DOMAIN options = 1..Len(options)
  BY OptionsAreOptions
<1>1. LastArgument(letter, name, default) = IF given = {} THEN default ELSE options[Max(given)].arg
  BY DEF LastArgument, Names
<1>2. CASE given = {}
  BY <1>0, <1>1, <1>2 DEF IsLast
<1>3. CASE given # {}
  <2>1. PICK k \in 1..Len(options) :
          /\ Names(options[k], letter, name) /\ value = options[k].arg
          /\ \A i \in 1..Len(options) : i > k => ~Names(options[i], letter, name)
    BY <1>0, <1>3 DEF IsLast
  <2>2. k \in given /\ \A i \in given : k >= i
    BY <1>0, <2>1
  <2>3. given \subseteq Int
    BY <1>0
  <2>. HIDE DEF given
  <2>4. Max(given) = k
    <3>1. \A x \in given : (\A y \in given : x >= y) => x = k
      BY <2>2, <2>3
    <3>2. \E x \in given : \A y \in given : x >= y
      BY <2>2
    <3>3. Max(given) \in given /\ \A y \in given : Max(given) >= y
      BY <3>2, Zenon DEF Max
    <3>. QED
      BY <3>1, <3>3
  <2>. QED
    BY <1>1, <1>3, <2>1, <2>4
<1>. QED
  BY <1>2, <1>3

-----------------------------------------------------------------------------
(* The configuration *)

\* A configuration that was read lists its thresholds and exports.
LEMMA ConfigLists ==
  ASSUME NEW j \in Range(Files), SConfig(j) # Thrown
  PROVE  LET config == SConfig(j)
         IN  /\ config.thresholds \in Seq(Range(config.thresholds))
             /\ config.settings.exports \in Seq(Range(config.settings.exports))
<1>. DEFINE thresholds == ParseEach(SThreshold, j.thresholds)
            processes == ParseEach(SProcess, j.processes)
            settings == SSettings(j.settings)
            exports == ParseEach(SExports, ValueOr(j.settings, "exports", <<>>))
            pipelines == ParseEach(SPipelineSensorConfig, ValueOr(j.settings, "pipeline_config", <<>>))
<1>1. /\ j # Malformed /\ {"thresholds", "settings"} \subseteq DOMAIN j
      /\ SConfig(j) = [thresholds |-> thresholds, processes |-> processes, settings |-> settings]
      /\ thresholds # Thrown /\ settings # Thrown
  <2>. HIDE DEF thresholds, processes, settings
  <2>. QED
    BY DEF SConfig, thresholds, processes, settings
<1>2. /\ "thresholds" \in DOMAIN j => j.thresholds \in Seq(Range(j.thresholds))
      /\ "settings" \in DOMAIN j /\ "exports" \in DOMAIN j.settings =>
           j.settings.exports \in Seq(Range(j.settings.exports))
  BY <1>1, ToolAssumption
<1>3. thresholds \in Seq(Range(thresholds))
  <2>1. thresholds = [k \in DOMAIN j.thresholds |-> SThreshold(j.thresholds[k])]
    BY <1>1 DEF ParseEach
  <2>2. DOMAIN j.thresholds = 1..Len(j.thresholds) /\ Len(j.thresholds) \in Nat
    BY <1>1, <1>2
  <2>. HIDE DEF thresholds
  <2>. QED
    BY <2>1, <2>2 DEF Range
<1>4. exports # Thrown /\ settings.exports = exports
  <2>. HIDE DEF exports, pipelines, settings
  <2>1. settings = SSettings(j.settings)
    BY DEF settings
  <2>. QED
    BY <1>1, <2>1 DEF SSettings, exports, pipelines
<1>5. exports \in Seq(Range(exports))
  <2>. DEFINE array == ValueOr(j.settings, "exports", <<>>)
  <2>1. array \in Seq(Range(array))
    <3>1. CASE "exports" \in DOMAIN j.settings
      BY <1>1, <1>2, <3>1 DEF ValueOr
    <3>2. CASE "exports" \notin DOMAIN j.settings
      BY <3>2 DEF ValueOr
    <3>. QED
      BY <3>1, <3>2
  <2>2. exports = [k \in DOMAIN array |-> SExports(array[k])]
    BY <1>4 DEF ParseEach
  <2>. HIDE DEF array, exports
  <2>3. DOMAIN array = 1..Len(array) /\ Len(array) \in Nat
    BY <2>1
  <2>. QED
    BY <2>2, <2>3 DEF Range
<1>. HIDE DEF thresholds, settings, exports, processes
<1>. QED
  BY <1>1, <1>3, <1>4, <1>5

-----------------------------------------------------------------------------
(* The live view *)

\* The view counts its colors, and remembers values of sensors with a color only.
ViewOK(ui) ==
  /\ ui = [f \in {"lastMeasurement_", "colorMap_", "currentColor_", "shown", "viewed"} |-> ui[f]]
  /\ ui.currentColor_ \in 1..MaxColor
  /\ DOMAIN ui.lastMeasurement_ \subseteq DOMAIN ui.colorMap_

\* As long as there are enough, colors are given out one after the other.
ColorsOK(ui) ==
  LET n == Cardinality(DOMAIN ui.colorMap_)
  IN  /\ IsFiniteSet(DOMAIN ui.colorMap_)
      /\ n <= MaxColor =>
           /\ \A s \in DOMAIN ui.colorMap_ : ui.colorMap_[s] \in 1..n
           /\ \A s, t \in DOMAIN ui.colorMap_ : ui.colorMap_[s] = ui.colorMap_[t] => s = t
      /\ n < MaxColor => ui.currentColor_ = n + 1

\* One more element.
LEMMA OneElement ==
  ASSUME NEW ui, ViewOK(ui), NEW s, NEW sample
  PROVE  ViewOK(GetElement(ui, s, sample))
<1>. DEFINE r == GetElement(ui, s, sample)
            value == CASE sample[s] # NotMeasured -> sample[s]
                       [] ~(sample[s] # NotMeasured) /\ s \in DOMAIN ui.lastMeasurement_ -> ui.lastMeasurement_[s]
                       [] OTHER -> UserData(s).minimumValue
            color == GetColor(ui, s)
            last == IF sample[s] # NotMeasured THEN Remember(ui.lastMeasurement_, s, value)
                    ELSE ui.lastMeasurement_
            shown == Append(ui.shown, [sensor |-> s, value |-> value * Multiplier[s],
                                       gauge |-> GetPercentage(s, value), color |-> color[1]])
<1>1. r = [viewed |-> ui.viewed, lastMeasurement_ |-> last, colorMap_ |-> With(ui.colorMap_, s, color[1]),
           currentColor_ |-> color[2], shown |-> shown]
  BY DEF GetElement
<1>2. color[2] \in 1..MaxColor
  <2>1. MaxColor \in Nat \ {0} /\ ui.currentColor_ \in 1..MaxColor
    BY ToolAssumption DEF ViewOK
  <2>2. color[2] = ui.currentColor_
          \/ color[2] = IF ui.currentColor_ + 1 > MaxColor THEN 1 ELSE ui.currentColor_ + 1
    BY DEF GetColor
  <2>. HIDE DEF color
  <2>. QED
    BY <2>1, <2>2
<1>3. DOMAIN last \subseteq DOMAIN ui.lastMeasurement_ \cup {s}
  <2>. HIDE DEF value
  <2>. QED
    BY DEF Remember, With
<1>4. DOMAIN With(ui.colorMap_, s, color[1]) = DOMAIN ui.colorMap_ \cup {s}
  BY DEF With
<1>5. DOMAIN ui.lastMeasurement_ \subseteq DOMAIN ui.colorMap_
  BY DEF ViewOK
<1>. HIDE DEF last, shown, color, r
<1>6. r = [f \in {"lastMeasurement_", "colorMap_", "currentColor_", "shown", "viewed"} |-> r[f]]
  BY <1>1
<1>7. /\ r.currentColor_ = color[2] /\ r.lastMeasurement_ = last
      /\ r.colorMap_ = With(ui.colorMap_, s, color[1])
  BY <1>1
<1>8. ViewOK(r)
  BY <1>2, <1>3, <1>4, <1>5, <1>6, <1>7, Zenon DEF ViewOK
<1>. QED
  BY <1>8 DEF r

\* All elements of a view.
LEMMA AllElements ==
  ASSUME NEW empty, ViewOK(empty), NEW sensors, Len(sensors) \in Nat, NEW sample
  PROVE  ViewOK(ViewOf(empty, sensors, sample))
<1>. DEFINE N == Len(sensors)
<1>1. PICK f : /\ f = [i \in 0..N |-> IF i = 0 THEN empty ELSE GetElement(f[i - 1], sensors[i], sample)]
               /\ ViewOf(empty, sensors, sample) = f[N]
  BY ViewIsDefined
<1>. DEFINE S == {n \in Nat : n <= N => ViewOK(f[n])}
<1>2. 0 \in S
  BY <1>1
<1>3. ASSUME NEW n \in Nat, n \in S PROVE n + 1 \in S
  <2>. SUFFICES ASSUME n + 1 <= N PROVE ViewOK(f[n + 1])
    OBVIOUS
  <2>1. n + 1 \in 0..N /\ n + 1 # 0 /\ (n + 1) - 1 = n /\ ViewOK(f[n])
    BY <1>3
  <2>2. f[n + 1] = GetElement(f[n], sensors[n + 1], sample)
    BY <1>1, <2>1
  <2>. QED
    BY <2>1, <2>2, OneElement
<1>4. N \in S
  <2>. HIDE DEF S
  <2>. QED
    BY <1>2, <1>3, SetInduction
<1>. QED
  BY <1>1, <1>4

\* The sensors of the program are lists.
LEMMA SensorLists ==
  /\ AllSensors \in Seq(Sensors)
  /\ PipelineSensors \in Seq(Sensors) /\ SystemSensors \in Seq(Sensors)
  /\ SystemSensors \o PipelineSensors \in Seq(Sensors)
<1>1. PipelineSensors \in Seq(Sensors) /\ SystemSensors \in Seq(Sensors)
  BY AllSensorsAreListed DEF Range
<1>. QED
  BY <1>1, AllSensorsAreListed

\* The value a sensor is shown with.
ValueShown(ui, s, sample) ==
  CASE sample[s] # NotMeasured -> sample[s]
    [] ~(sample[s] # NotMeasured) /\ s \in DOMAIN ui.lastMeasurement_ -> ui.lastMeasurement_[s]
    [] OTHER -> UserData(s).minimumValue

\* What one element changes.
LEMMA ElementIs ==
  ASSUME NEW ui, NEW s, NEW sample, NEW r, r = GetElement(ui, s, sample), NEW c, c = GetColor(ui, s)
  PROVE  /\ r.viewed = ui.viewed /\ r.colorMap_ = With(ui.colorMap_, s, c[1]) /\ r.currentColor_ = c[2]
         /\ r.lastMeasurement_ = IF sample[s] # NotMeasured THEN With(ui.lastMeasurement_, s, sample[s])
                                 ELSE ui.lastMeasurement_
         /\ \E e : /\ r.shown = Append(ui.shown, e)
                   /\ e.sensor = s /\ e.value = ValueShown(ui, s, sample) * Multiplier[s] /\ e.color = c[1]
<1>. DEFINE v == ValueShown(ui, s, sample)
            last == IF sample[s] # NotMeasured THEN Remember(ui.lastMeasurement_, s, v) ELSE ui.lastMeasurement_
            e == [sensor |-> s, value |-> v * Multiplier[s], gauge |-> GetPercentage(s, v), color |-> c[1]]
<1>1. r = [viewed |-> ui.viewed, lastMeasurement_ |-> last, colorMap_ |-> With(ui.colorMap_, s, c[1]),
           currentColor_ |-> c[2], shown |-> Append(ui.shown, e)]
  BY DEF GetElement, ValueShown
<1>2. sample[s] # NotMeasured => v = sample[s]
  BY DEF ValueShown
<1>3. last = IF sample[s] # NotMeasured THEN With(ui.lastMeasurement_, s, sample[s]) ELSE ui.lastMeasurement_
  <2>. HIDE DEF v
  <2>. QED
    BY <1>2 DEF Remember
<1>4. e.sensor = s /\ e.value = v * Multiplier[s] /\ e.color = c[1]
  OBVIOUS
<1>. HIDE DEF v, last, e
<1>5. /\ r.viewed = ui.viewed /\ r.colorMap_ = With(ui.colorMap_, s, c[1]) /\ r.currentColor_ = c[2]
      /\ r.lastMeasurement_ = last /\ r.shown = Append(ui.shown, e)
  BY <1>1
<1>. QED
  BY <1>3, <1>4, <1>5 DEF v

\* The view with one color more, of n.
Colored(ui, s, c, map, n) ==
  /\ IsFiniteSet(DOMAIN map)
  /\ n <= MaxColor =>
       /\ \A t \in DOMAIN map : map[t] \in 1..n
       /\ \A t, u \in DOMAIN map : map[t] = map[u] => t = u
  /\ n < MaxColor => c[2] = n + 1
  /\ \A t \in DOMAIN ui.colorMap_ : t \in DOMAIN map /\ map[t] = ui.colorMap_[t]
  /\ s \in DOMAIN map /\ map[s] = c[1] /\ DOMAIN map = DOMAIN ui.colorMap_ \cup {s}

\* A color more is another one as long as there are enough.
LEMMA OneColor ==
  ASSUME NEW ui, ViewOK(ui), ColorsOK(ui), NEW s, NEW c, c = GetColor(ui, s),
         NEW map, map = With(ui.colorMap_, s, c[1]), NEW n, n = Cardinality(DOMAIN map)
  PROVE  Colored(ui, s, c, map, n)
<1>. DEFINE old == ui.colorMap_
            k == Cardinality(DOMAIN old)
            cur == ui.currentColor_
<1>1. /\ IsFiniteSet(DOMAIN old)
      /\ k <= MaxColor => /\ \A t \in DOMAIN old : old[t] \in 1..k
                          /\ \A t, u \in DOMAIN old : old[t] = old[u] => t = u
      /\ k < MaxColor => cur = k + 1
  BY DEF ColorsOK
<1>2. cur \in 1..MaxColor /\ MaxColor \in Nat \ {0}
  BY ToolAssumption DEF ViewOK
<1>3. k \in Nat
  BY <1>1, FS_CardinalityType
<1>4. c = IF s \in DOMAIN old THEN <<old[s], cur>>
          ELSE <<cur, IF cur + 1 > MaxColor THEN 1 ELSE cur + 1>>
  BY DEF GetColor
<1>5. /\ DOMAIN map = DOMAIN old \cup {s} /\ map[s] = c[1]
      /\ \A t \in DOMAIN old : t # s => map[t] = old[t]
  BY DEF With
<1>6. IsFiniteSet(DOMAIN old \cup {s})
      /\ Cardinality(DOMAIN old \cup {s}) = IF s \in DOMAIN old THEN k ELSE k + 1
  <2>. HIDE DEF old
  <2>. QED
    BY <1>1, FS_AddElement DEF k
<1>7. IsFiniteSet(DOMAIN map) /\ n = IF s \in DOMAIN old THEN k ELSE k + 1
  BY <1>5, <1>6
<1>. HIDE DEF old, k, cur
<1>8. CASE s \in DOMAIN old
  <2>1. c[1] = old[s] /\ c[2] = cur /\ n = k
    BY <1>4, <1>7, <1>8
  <2>2. DOMAIN map = DOMAIN old /\ \A t \in DOMAIN old : map[t] = old[t]
    BY <1>5, <1>8, <2>1
  <2>3. \A t \in DOMAIN map : map[t] = old[t]
    BY <2>2
  <2>4. n <= MaxColor => /\ \A t \in DOMAIN map : map[t] \in 1..n
                         /\ \A t, u \in DOMAIN map : map[t] = map[u] => t = u
    BY <1>1, <2>1, <2>2
  <2>5. n < MaxColor => c[2] = n + 1
    BY <1>1, <2>1
  <2>. QED
    BY <1>5, <1>7, <2>1, <2>2, <2>4, <2>5 DEF old, Colored
<1>9. CASE s \notin DOMAIN old
  <2>1. c[1] = cur /\ c[2] = (IF cur + 1 > MaxColor THEN 1 ELSE cur + 1) /\ n = k + 1
    BY <1>4, <1>7, <1>9
  <2>2. \A t \in DOMAIN old : t # s /\ map[t] = old[t]
    BY <1>5, <1>9
  <2>3. ASSUME n <= MaxColor
        PROVE  /\ \A t \in DOMAIN map : map[t] \in 1..n
               /\ \A t, u \in DOMAIN map : map[t] = map[u] => t = u
    <3>1. cur = k + 1 /\ \A t \in DOMAIN old : old[t] \in 1..k
      BY <1>1, <1>2, <1>3, <2>1, <2>3
    <3>2. map[s] = k + 1 /\ \A t \in DOMAIN old : map[t] \in 1..k
      BY <1>5, <2>1, <2>2, <3>1
    <3>3. \A t, u \in DOMAIN old : map[t] = map[u] => t = u
      BY <1>1, <1>2, <1>3, <2>1, <2>2, <2>3
    <3>4. \A i \in 1..k : i \in 1..(k + 1) /\ i # k + 1
      BY <1>3
    <3>. QED
      BY <1>3, <1>5, <2>1, <3>2, <3>3, <3>4
  <2>4. n < MaxColor => c[2] = n + 1
    BY <1>1, <1>2, <1>3, <2>1
  <2>. QED
    BY <1>5, <1>7, <2>2, <2>3, <2>4 DEF old, Colored
<1>. QED
  BY <1>8, <1>9

\* The first n sensors are in the view: with their values and colors, and what was
\* measured of them is remembered.
Viewed(n, old, ui, sensors, sample) ==
  /\ ViewOK(ui) /\ ColorsOK(ui) /\ ui.viewed = old.viewed
  /\ ui.shown \in Seq(Range(ui.shown)) /\ Len(ui.shown) = n
  /\ \A i \in 1..n :
       /\ ui.shown[i].sensor = sensors[i]
       /\ ui.shown[i].value = ValueShown(old, sensors[i], sample) * Multiplier[sensors[i]]
       /\ sensors[i] \in DOMAIN ui.colorMap_ /\ ui.shown[i].color = ui.colorMap_[sensors[i]]
       /\ sample[sensors[i]] # NotMeasured =>
            sensors[i] \in DOMAIN ui.lastMeasurement_ /\ ui.lastMeasurement_[sensors[i]] = sample[sensors[i]]
  /\ \A s : (sample[s] = NotMeasured \/ \A i \in 1..n : sensors[i] # s) =>
              /\ s \in DOMAIN ui.lastMeasurement_ <=> s \in DOMAIN old.lastMeasurement_
              /\ s \in DOMAIN old.lastMeasurement_ => ui.lastMeasurement_[s] = old.lastMeasurement_[s]

\* One more sensor.
LEMMA OneViewed ==
  ASSUME NEW n \in Nat, NEW old, NEW ui, NEW sensors, NEW sample, Viewed(n, old, ui, sensors, sample)
  PROVE  Viewed(n + 1, old, GetElement(ui, sensors[n + 1], sample), sensors, sample)
<1>. DEFINE x == sensors[n + 1]
            r == GetElement(ui, x, sample)
            c == GetColor(ui, x)
            q == sample[x]
            map == With(ui.colorMap_, x, c[1])
            k == Cardinality(DOMAIN map)
<1>0. /\ r = GetElement(ui, x, sample) /\ c = GetColor(ui, x)
      /\ map = With(ui.colorMap_, x, c[1]) /\ k = Cardinality(DOMAIN map)
  OBVIOUS
<1>. HIDE DEF x, r, c, map, k
<1>1. /\ ViewOK(ui) /\ ColorsOK(ui) /\ ui.viewed = old.viewed
      /\ ui.shown \in Seq(Range(ui.shown)) /\ Len(ui.shown) = n
  BY DEF Viewed
<1>2. /\ r.viewed = ui.viewed /\ r.colorMap_ = With(ui.colorMap_, x, c[1]) /\ r.currentColor_ = c[2]
      /\ r.lastMeasurement_ = IF q # NotMeasured THEN With(ui.lastMeasurement_, x, q) ELSE ui.lastMeasurement_
  BY <1>0, ElementIs
<1>3. PICK e : /\ r.shown = Append(ui.shown, e)
               /\ e.sensor = x /\ e.value = ValueShown(ui, x, sample) * Multiplier[x] /\ e.color = c[1]
  BY <1>0, ElementIs
<1>4. ViewOK(r)
  BY <1>0, <1>1, OneElement
<1>5. /\ IsFiniteSet(DOMAIN map)
      /\ k <= MaxColor => /\ \A t \in DOMAIN map : map[t] \in 1..k
                          /\ \A t, u \in DOMAIN map : map[t] = map[u] => t = u
      /\ k < MaxColor => c[2] = k + 1
      /\ \A t \in DOMAIN ui.colorMap_ : t \in DOMAIN map /\ map[t] = ui.colorMap_[t]
      /\ x \in DOMAIN map /\ map[x] = c[1]
  <2>1. Colored(ui, x, c, map, k)
    BY <1>0, <1>1, OneColor
  <2>. QED
    BY <2>1 DEF Colored
<1>6. r.colorMap_ = map /\ r.currentColor_ = c[2]
  BY <1>0, <1>2
<1>7. ColorsOK(r)
  BY <1>0, <1>5, <1>6 DEF ColorsOK
<1>8. /\ r.shown \in Seq(Range(r.shown)) /\ Len(r.shown) = n + 1 /\ r.shown[n + 1] = e
      /\ \A i \in 1..n : r.shown[i] = ui.shown[i]
  <2>. DEFINE w == Append(ui.shown, e)
  <2>1. w \in Seq(Range(ui.shown) \cup {e}) /\ Len(w) = n + 1 /\ w[n + 1] = e
        /\ \A i \in 1..n : w[i] = ui.shown[i]
    BY <1>1
  <2>. HIDE DEF w
  <2>2. w \in Seq(Range(w))
    BY <2>1 DEF Range
  <2>. QED
    BY <1>3, <2>1, <2>2 DEF w
<1>9. \A s : (sample[s] = NotMeasured \/ \A i \in 1..n : sensors[i] # s) =>
               /\ s \in DOMAIN ui.lastMeasurement_ <=> s \in DOMAIN old.lastMeasurement_
               /\ s \in DOMAIN old.lastMeasurement_ => ui.lastMeasurement_[s] = old.lastMeasurement_[s]
  BY DEF Viewed
<1>10. ValueShown(ui, x, sample) = ValueShown(old, x, sample)
  <2>1. CASE q # NotMeasured
    BY <2>1 DEF ValueShown
  <2>2. CASE q = NotMeasured
    <3>1. /\ x \in DOMAIN ui.lastMeasurement_ <=> x \in DOMAIN old.lastMeasurement_
          /\ x \in DOMAIN old.lastMeasurement_ => ui.lastMeasurement_[x] = old.lastMeasurement_[x]
      BY <1>9, <2>2
    <3>. QED
      BY <2>2, <3>1 DEF ValueShown
  <2>. QED
    BY <2>1, <2>2
<1>11. /\ q # NotMeasured => x \in DOMAIN r.lastMeasurement_ /\ r.lastMeasurement_[x] = q
       /\ DOMAIN r.lastMeasurement_ \subseteq DOMAIN ui.lastMeasurement_ \cup {x}
       /\ DOMAIN ui.lastMeasurement_ \subseteq DOMAIN r.lastMeasurement_
       /\ q = NotMeasured => r.lastMeasurement_ = ui.lastMeasurement_
       /\ \A s \in DOMAIN ui.lastMeasurement_ : s # x => r.lastMeasurement_[s] = ui.lastMeasurement_[s]
  BY <1>2 DEF With
<1>12. ASSUME NEW i \in 1..(n + 1)
       PROVE  /\ r.shown[i].sensor = sensors[i]
              /\ r.shown[i].value = ValueShown(old, sensors[i], sample) * Multiplier[sensors[i]]
              /\ sensors[i] \in DOMAIN r.colorMap_ /\ r.shown[i].color = r.colorMap_[sensors[i]]
              /\ sample[sensors[i]] # NotMeasured =>
                   sensors[i] \in DOMAIN r.lastMeasurement_ /\ r.lastMeasurement_[sensors[i]] = sample[sensors[i]]
  <2>1. CASE i = n + 1
    <3>1. /\ r.shown[n + 1].sensor = x /\ r.shown[n + 1].value = ValueShown(old, x, sample) * Multiplier[x]
          /\ r.shown[n + 1].color = c[1]
      BY <1>3, <1>8, <1>10
    <3>2. x \in DOMAIN r.colorMap_ /\ r.colorMap_[x] = c[1]
      BY <1>5, <1>6
    <3>. QED
      BY <1>11, <2>1, <3>1, <3>2 DEF x
  <2>2. CASE i \in 1..n
    <3>. DEFINE y == sensors[i]
    <3>1. /\ ui.shown[i].sensor = y
          /\ ui.shown[i].value = ValueShown(old, y, sample) * Multiplier[y]
          /\ y \in DOMAIN ui.colorMap_ /\ ui.shown[i].color = ui.colorMap_[y]
          /\ sample[y] # NotMeasured => y \in DOMAIN ui.lastMeasurement_ /\ ui.lastMeasurement_[y] = sample[y]
      BY <2>2 DEF Viewed
    <3>2. r.shown[i] = ui.shown[i]
      BY <1>8, <2>2
    <3>. HIDE DEF y
    <3>3. y \in DOMAIN r.colorMap_ /\ r.colorMap_[y] = ui.colorMap_[y]
      BY <1>5, <1>6, <3>1
    <3>4. sample[y] # NotMeasured => y \in DOMAIN r.lastMeasurement_ /\ r.lastMeasurement_[y] = sample[y]
      BY <1>11, <3>1
    <3>5. /\ r.shown[i].sensor = y /\ r.shown[i].value = ValueShown(old, y, sample) * Multiplier[y]
          /\ r.shown[i].color = r.colorMap_[y]
      BY <3>1, <3>2, <3>3
    <3>. QED
      BY <3>3, <3>4, <3>5 DEF y
  <2>. QED
    BY <2>1, <2>2
<1>13. ASSUME NEW s, sample[s] = NotMeasured \/ \A i \in 1..(n + 1) : sensors[i] # s
       PROVE  /\ s \in DOMAIN r.lastMeasurement_ <=> s \in DOMAIN old.lastMeasurement_
              /\ s \in DOMAIN old.lastMeasurement_ => r.lastMeasurement_[s] = old.lastMeasurement_[s]
  <2>1. /\ s \in DOMAIN ui.lastMeasurement_ <=> s \in DOMAIN old.lastMeasurement_
        /\ s \in DOMAIN old.lastMeasurement_ => ui.lastMeasurement_[s] = old.lastMeasurement_[s]
    <3>1. \A i \in 1..n : i \in 1..(n + 1)
      OBVIOUS
    <3>. QED
      BY <1>9, <1>13, <3>1
  <2>2. s = x => q = NotMeasured
    <3>1. n + 1 \in 1..(n + 1)
      OBVIOUS
    <3>. QED
      BY <1>13, <3>1 DEF x
  <2>. HIDE DEF x, q
  <2>. QED
    BY <1>11, <2>1, <2>2
<1>15. r.viewed = old.viewed
  BY <1>1, <1>2
<1>16. Viewed(n + 1, old, r, sensors, sample)
  BY <1>4, <1>7, <1>8, <1>12, <1>13, <1>15 DEF Viewed
<1>. QED
  BY <1>16 DEF r, x

\* All sensors of the list are in the view.
LEMMA AllViewed ==
  ASSUME NEW empty, ViewOK(empty), ColorsOK(empty), empty.shown = <<>>,
         NEW sensors, Len(sensors) \in Nat, NEW sample
  PROVE  Viewed(Len(sensors), empty, ViewOf(empty, sensors, sample), sensors, sample)
<1>. DEFINE N == Len(sensors)
<1>1. PICK f : /\ f = [i \in 0..N |-> IF i = 0 THEN empty ELSE GetElement(f[i - 1], sensors[i], sample)]
               /\ ViewOf(empty, sensors, sample) = f[N]
  BY ViewIsDefined
<1>. DEFINE S == {n \in Nat : n <= N => Viewed(n, empty, f[n], sensors, sample)}
<1>2. 0 \in S
  <2>1. f[0] = empty
    BY <1>1
  <2>2. empty.shown \in Seq(Range(empty.shown)) /\ Len(empty.shown) = 0
    OBVIOUS
  <2>3. Viewed(0, empty, empty, sensors, sample)
    BY <2>2 DEF Viewed
  <2>. QED
    BY <2>1, <2>3
<1>3. ASSUME NEW n \in Nat, n \in S PROVE n + 1 \in S
  <2>. SUFFICES ASSUME n + 1 <= N PROVE Viewed(n + 1, empty, f[n + 1], sensors, sample)
    OBVIOUS
  <2>1. n + 1 \in 0..N /\ n + 1 # 0 /\ (n + 1) - 1 = n /\ Viewed(n, empty, f[n], sensors, sample)
    BY <1>3
  <2>2. f[n + 1] = GetElement(f[n], sensors[n + 1], sample)
    BY <1>1, <2>1
  <2>3. Viewed(n + 1, empty, GetElement(f[n], sensors[n + 1], sample), sensors, sample)
    BY <2>1, OneViewed
  <2>. QED
    BY <2>2, <2>3
<1>4. N \in S
  <2>. HIDE DEF S
  <2>. QED
    BY <1>2, <1>3, SetInduction
<1>. QED
  BY <1>1, <1>4

-----------------------------------------------------------------------------
(* The curves of a graph *)

\* A row of a file has its number, and a cell for each of its sensors.
LEMMA RowIs ==
  ASSUME NEW c \in Classes, NEW k
  PROVE  /\ RawSensors(c) \in Seq(Sensors \cap MeasuredRaw) /\ Len(RawSensors(c)) \in Nat
         /\ Range(RawSensors(c)) = Range(GetSensors(c)) \cap MeasuredRaw
         /\ Len(ParseLabel(c)) = 1 + Len(RawSensors(c)) /\ DOMAIN ParseLabel(c) = 1..(1 + Len(RawSensors(c)))
         /\ ParseLabel(c)[1] = "time"
         /\ \A i \in 1..Len(RawSensors(c)) : ParseLabel(c)[i + 1] = UserId[RawSensors(c)[i]]
         /\ Len(ParseData(c, k)) = 1 + Len(RawSensors(c))
         /\ ParseData(c, k)[1] = k
         /\ \A i \in 1..Len(RawSensors(c)) : ParseData(c, k)[i + 1] = Cell(data[k], RawSensors(c)[i])
<1>. DEFINE raw == RawSensors(c)
            m == Len(raw)
<1>1. GetSensors(c) \in Seq(Sensors)
  <2>. DEFINE sensors == GetSensors(c)
  <2>1. sensors \in Seq(Range(sensors)) /\ Range(sensors) \subseteq Sensors
    BY SensorsOfClasses DEF Classes
  <2>. HIDE DEF sensors
  <2>2. sensors \in Seq(Sensors)
    BY <2>1
  <2>. QED
    BY <2>2 DEF sensors
<1>2. raw \in Seq(Sensors \cap MeasuredRaw) /\ Range(raw) = Range(GetSensors(c)) \cap MeasuredRaw
  BY <1>1, SelectedType, SelectedRange DEF RawSensors
<1>3. m \in Nat /\ DOMAIN raw = 1..m
  BY <1>2
<1>. DEFINE ids == [i \in 1..m |-> UserId[raw[i]]]
            cells == [i \in 1..m |-> Cell(data[k], raw[i])]
<1>4. ParseLabel(c) = <<"time">> \o ids /\ ParseData(c, k) = <<k>> \o cells
  BY <1>3 DEF ParseLabel, ParseData
<1>. HIDE DEF raw, m
<1>5. ids \in Seq(Range(ids)) /\ Len(ids) = m /\ cells \in Seq(Range(cells)) /\ Len(cells) = m
  BY <1>3 DEF Range
<1>6. \A i \in 1..m : ids[i] = UserId[raw[i]] /\ cells[i] = Cell(data[k], raw[i])
  OBVIOUS
<1>. HIDE DEF ids, cells
<1>7. ASSUME NEW x, NEW t, NEW Y, t \in Seq(Y), Len(t) = m
      PROVE  /\ Len(<<x>> \o t) = 1 + m /\ DOMAIN (<<x>> \o t) = 1..(1 + m) /\ (<<x>> \o t)[1] = x
             /\ \A i \in 1..m : (<<x>> \o t)[i + 1] = t[i]
  <2>1. t \in Seq(Y \cup {x}) /\ <<x>> \in Seq(Y \cup {x}) /\ Len(<<x>>) = 1 /\ <<x>>[1] = x
    BY <1>7
  <2>. DEFINE w == <<x>> \o t
  <2>2. w \in Seq(Y \cup {x}) /\ Len(w) = 1 + m /\ w[1] = x
    BY <1>3, <1>7, <2>1
  <2>3. \A i \in 1..m : w[i + 1] = t[i]
    BY <1>3, <1>7, <2>1
  <2>. HIDE DEF w
  <2>4. DOMAIN w = 1..(1 + m)
    BY <2>2
  <2>. QED
    BY <2>2, <2>3, <2>4 DEF w
<1>8. /\ Len(ParseLabel(c)) = 1 + m /\ DOMAIN ParseLabel(c) = 1..(1 + m) /\ ParseLabel(c)[1] = "time"
      /\ \A i \in 1..m : ParseLabel(c)[i + 1] = UserId[raw[i]]
  BY <1>4, <1>5, <1>6, <1>7
<1>9. /\ Len(ParseData(c, k)) = 1 + m /\ ParseData(c, k)[1] = k
      /\ \A i \in 1..m : ParseData(c, k)[i + 1] = Cell(data[k], raw[i])
  BY <1>4, <1>5, <1>6, <1>7
<1>. QED
  BY <1>2, <1>3, <1>8, <1>9 DEF raw, m

\* An empty cell is one of a sample in which the sensor was not measured.
LEMMA CellIs ==
  ASSUME NEW sample \in Samples, NEW s \in Sensors
  PROVE  /\ Cell(sample, s) = NotMeasured <=> sample[s] = NotMeasured
         /\ sample[s] # NotMeasured => sample[s] \in Int /\ Cell(sample, s) = sample[s] * Multiplier[s]
<1>1. sample[s] \in Int \cup {NotMeasured} /\ Multiplier[s] \in Int /\ NotMeasured \notin Int
  BY AnalysisAssumption
<1>2. sample[s] # NotMeasured => sample[s] * Multiplier[s] \in Int
  BY <1>1
<1>. QED
  BY <1>1, <1>2 DEF Cell

\* The curve of a column is what was measured of the sensor with this name.
LEMMA CurveIs ==
  ASSUME data \in Seq(Samples), NEW c \in Classes, NEW s \in Range(GetSensors(c)), s \in MeasuredRaw,
         NameIsUnique(s)
  PROVE  UserId[s] \in Range(CsvFile(c).labels) /\ Curve(CsvFile(c), UserId[s]) = MeasuredCurve(s)
<1>. DEFINE raw == RawSensors(c)
            m == Len(raw)
            N == Len(data)
            labels == ParseLabel(c)
            rows == [k \in 1..N |-> ParseData(c, k)]
            matching == {i \in DOMAIN labels : labels[i] = UserId[s]}
            column == Min(matching)
            A == {r \in Range(rows) : column <= Len(r) /\ r[column] # NotMeasured}
            samples == Selected([k \in 1..N |-> k], {k \in 1..N : data[k][s] # NotMeasured})
<1>0. N \in Nat /\ DOMAIN data = 1..N /\ \A k \in 1..N : data[k] \in Samples
  OBVIOUS
<1>1. /\ raw \in Seq(Sensors \cap MeasuredRaw) /\ m \in Nat
      /\ Range(raw) = Range(GetSensors(c)) \cap MeasuredRaw
      /\ DOMAIN labels = 1..(1 + m) /\ labels[1] = "time"
      /\ \A i \in 1..m : labels[i + 1] = UserId[raw[i]]
  BY RowIs
<1>2. \A k : /\ Len(ParseData(c, k)) = 1 + m /\ ParseData(c, k)[1] = k
             /\ \A i \in 1..m : ParseData(c, k)[i + 1] = Cell(data[k], raw[i])
  BY RowIs
<1>3. CsvFile(c).labels = labels /\ CsvFile(c).rows = rows
  BY <1>0 DEF CsvFile
<1>4. s \in Sensors
  BY SensorsOfClasses DEF Classes
<1>. HIDE DEF raw, m, labels
<1>5. PICK i0 \in 1..m : raw[i0] = s
  <2>1. DOMAIN raw = 1..m
    BY <1>1 DEF m
  <2>. QED
    BY <1>1, <2>1 DEF Range
<1>6. i0 + 1 \in matching /\ matching \subseteq Nat /\ UserId[s] \in Range(labels)
  <2>1. i0 + 1 \in 1..(1 + m) /\ 1..(1 + m) \subseteq Nat
    BY <1>1
  <2>2. labels[i0 + 1] = UserId[s]
    BY <1>1, <1>5
  <2>. QED
    BY <1>1, <2>1, <2>2 DEF Range
<1>7. column \in matching
  <2>. HIDE DEF matching
  <2>. QED
    BY <1>6, MinIs
<1>. HIDE DEF column
<1>8. column - 1 \in 1..m /\ (column - 1) + 1 = column /\ column <= 1 + m /\ raw[column - 1] = s
  <2>1. column \in 1..(1 + m) /\ column # 1
    BY <1>1, <1>7 DEF NameIsUnique
  <2>2. column - 1 \in 1..m /\ (column - 1) + 1 = column
    BY <1>1, <2>1
  <2>3. raw[column - 1] \in Sensors
    BY <1>1, <2>2 DEF m
  <2>4. UserId[raw[column - 1]] = UserId[s]
    BY <1>1, <1>7, <2>2
  <2>. QED
    BY <2>1, <2>2, <2>3, <2>4 DEF NameIsUnique
<1>9. \A k \in 1..N : /\ rows[k] = ParseData(c, k) /\ Len(rows[k]) = 1 + m /\ rows[k][1] = k
                      /\ rows[k][column] = Cell(data[k], s)
  BY <1>2, <1>8
<1>10. rows \in Seq(Range(rows)) /\ Len(rows) = N
  BY <1>0 DEF Range
<1>. HIDE DEF rows, N
<1>11. {k \in 1..Len(rows) : rows[k] \in A} = {k \in 1..N : data[k][s] # NotMeasured}
  <2>1. ASSUME NEW k \in 1..N PROVE rows[k] \in A <=> data[k][s] # NotMeasured
    <3>1. rows[k] \in Range(rows)
      BY <1>10, <2>1 DEF Range
    <3>2. Cell(data[k], s) = NotMeasured <=> data[k][s] = NotMeasured
      BY <1>0, <1>4, CellIs
    <3>. QED
      BY <1>8, <1>9, <3>1, <3>2
  <2>. QED
    BY <1>10, <2>1
<1>. HIDE DEF A
<1>12. Places(rows, A) = samples
  BY <1>10, <1>11 DEF Places
<1>. DEFINE kept == Selected(rows, A)
<1>13. PlacedUpTo(Len(rows), rows, A, samples, kept)
  BY <1>10, <1>12, SelectedPlaces
<1>. HIDE DEF samples, kept
<1>14. /\ samples \in Seq(1..N) /\ kept \in Seq(Range(rows)) /\ Len(kept) = Len(samples)
       /\ \A j \in 1..Len(samples) : kept[j] = rows[samples[j]] /\ samples[j] \in 1..N
  <2>1. /\ samples \in Seq(1..Len(rows)) /\ kept \in Seq(Range(rows)) /\ Len(kept) = Len(samples)
        /\ \A j \in 1..Len(samples) : kept[j] = rows[samples[j]]
    BY <1>13 DEF PlacedUpTo
  <2>2. samples \in Seq(1..N)
    BY <1>10, <2>1
  <2>3. ASSUME NEW Y, samples \in Seq(Y) PROVE \A j \in 1..Len(samples) : samples[j] \in Y
    BY <2>3
  <2>4. \A j \in 1..Len(samples) : samples[j] \in 1..N
    BY <2>2, <2>3
  <2>. QED
    BY <2>1, <2>2, <2>4
<1>15. DOMAIN kept = 1..Len(samples) /\ DOMAIN samples = 1..Len(samples)
  BY <1>14
<1>16. \A j \in 1..Len(samples) : data[samples[j]][s] # NotMeasured
  <2>1. Range(samples) = Range([k \in 1..N |-> k]) \cap {k \in 1..N : data[k][s] # NotMeasured}
    <3>1. [k \in 1..N |-> k] \in Seq(Nat)
      BY <1>0
    <3>. QED
      BY <3>1, SelectedRange DEF samples
  <2>. QED
    BY <1>15, <2>1 DEF Range
<1>17. ASSUME NEW j \in 1..Len(samples)
       PROVE  kept[j][1] = samples[j] /\ kept[j][column] = data[samples[j]][s] * Multiplier[s]
  <2>1. samples[j] \in 1..N /\ data[samples[j]] \in Samples
    BY <1>0, <1>14
  <2>2. Cell(data[samples[j]], s) = data[samples[j]][s] * Multiplier[s]
    BY <1>4, <1>16, <2>1, CellIs
  <2>. QED
    BY <1>9, <1>14, <2>1, <2>2
<1>18. Curve(CsvFile(c), UserId[s]) = [j \in DOMAIN kept |-> <<kept[j][1], kept[j][column]>>]
  BY <1>3 DEF Curve, kept, A, column
<1>19. MeasuredCurve(s) = [j \in DOMAIN samples |-> <<samples[j], data[samples[j]][s] * Multiplier[s]>>]
  BY <1>0 DEF MeasuredCurve, samples
<1>. QED
  BY <1>3, <1>6, <1>15, <1>17, <1>18, <1>19

-----------------------------------------------------------------------------
(* The inductive invariant *)

\* The test has begun; it is measured; its results are there.
Begun == {"measure", "thresholds", "export", "returned"}
Measured == {"thresholds", "export", "returned"}
Analyzed == {"export", "returned"}

NothingWritten ==
  /\ nextExport = 1 /\ jsonFiles = <<>> /\ graphs = <<>> /\ summary = <<>>
  /\ \A c \in Classes : csvFiles[c] # NoFile => csvFiles[c].rows = <<>>

TypeInv ==
  /\ TypeOK /\ ViewOK(live)
  /\ data \in Seq(Samples)
  /\ thresholdExceeded \in [Sensors -> BOOLEAN]

\* What was understood of the command line.
ArgsInv ==
  /\ options \in CommandLines
  /\ pc \in {"parse", "initialize"} \cup Begun =>
       /\ Parse(options).outcome = "correct" /\ userArguments_ = Parse(options).args
       /\ userArguments_.configFile \in DOMAIN Files /\ userArguments_.sensorInfoFile \in DOMAIN Files

\* What was read.
ConfigInv ==
  /\ pc \in {"initialize"} \cup Begun =>
       config_ = SConfig(Files[userArguments_.configFile]) /\ config_ # Thrown
  /\ pc \in Begun => SensorConfig(Files[userArguments_.sensorInfoFile]) # Thrown

\* What has not begun has left no trace.
FreshInv ==
  /\ pc \notin Analyzed => NothingWritten
  /\ pc \notin Begun => data = <<>>
  /\ pc \notin Measured => correlations = <<>> /\ \A s \in Sensors : ~thresholdExceeded[s]

\* The correlations are those of the samples that were taken.
CorrelationInv == pc \in Measured => correlations = GetCorrelation

\* The processes that were looked at have their sensors marked.
ThresholdInv ==
  /\ pc \in Measured =>
       \A s \in Sensors :
         thresholdExceeded[s] <=>
           \E t \in Range(config_.thresholds) : t.processId \notin unchecked /\ Exceeds(s, t)
  /\ pc \in Analyzed => unchecked = {}

\* What the view keeps of the samples: what was measured of a sensor last while it stood
\* there, and a color of its own as long as there are enough.
ViewKeeps(ui, samples) ==
  /\ ColorsOK(ui)
  /\ DOMAIN ui.viewed = Sensors
  /\ \A s \in Sensors :
       LET seen == SeenOf(ui, samples, s)
       IN  /\ ui.viewed[s] \subseteq 1..Len(samples)
           /\ s \in DOMAIN ui.lastMeasurement_ <=> seen # {}
           /\ seen # {} => ui.lastMeasurement_[s] = samples[Max(seen)][s]

LiveInv ==
  /\ data = <<>> \/ config_.settings.enableLiveMode => ViewKeeps(live, data)
  /\ LiveShowsLastSeen

\* Every file is one of an earlier test or shows this one, and so does the summary.
FilesInv ==
  /\ \A c \in Classes :
       \/ csvFiles[c] \in {NoFile, [labels |-> ParseLabel(c), rows |-> <<>>]}
       \/ pc \in Analyzed /\ csvFiles[c] = CsvFile(c)
  /\ summary = <<>> \/ (pc \in Analyzed /\ summary = Summary)

\* The exports that were come to are written.
ExportInv ==
  pc \in Analyzed =>
    /\ nextExport \in Nat \ {0}
    /\ \A i \in 1..Len(Exported) : i < nextExport /\ Exported[i].exportEnabled => Written(Exported[i])
    /\ pc = "returned" => nextExport > Len(Exported)

\* Two sensors are strongly correlated, their names tell them from all others, and what
\* is needed for their graph can be written.
MustBeDrawn(c) ==
  LET r == c.correlation
  IN  /\ \A s \in {c.sensor1, c.sensor2} : NameIsUnique(s) /\ Opens("csv", GetClassification(s))
      /\ Opens("graphs", "graphs")
      /\ r.spreadU > 0 /\ r.spreadV > 0
      /\ 25 * r.numerator * r.numerator >= 16 * r.spreadU * r.spreadV

\* The files that could be written are of this test.
FilesAreNew == \A c \in Classes : Opens("csv", c) => csvFiles[c] = CsvFile(c)

Key(c) == <<UserId[c.sensor1], UserId[c.sensor2]>>

\* The graph of two such sensors shows what was measured of them.
GraphShows(drawn, c) ==
  MustBeDrawn(c) =>
    Key(c) \in DOMAIN drawn /\ drawn[Key(c)] = <<MeasuredCurve(c.sensor1), MeasuredCurve(c.sensor2)>>

\* Once graphs were drawn of files of this test, they show it.
GraphInv ==
  pc \in Analyzed =>
    \A i \in 1..Len(Exported) :
      (/\ i < nextExport /\ Exported[i].exportType = "graphs" /\ Exported[i].exportEnabled
       /\ EnabledBefore("csv", i)) =>
         \A k \in 1..Len(correlations) : GraphShows(graphs, correlations[k])

IInv ==
  /\ TypeInv /\ ArgsInv /\ ConfigInv /\ FreshInv /\ CorrelationInv /\ ThresholdInv
  /\ LiveInv /\ FilesInv /\ ExportInv /\ GraphInv

-----------------------------------------------------------------------------
(* The parts of the invariant *)

\* What cannot be written can never be.
LEMMA ReadOnlyStays ==
  ASSUME [Next]_toolVars
  PROVE  readOnly' = readOnly
<1>1. CASE UNCHANGED toolVars \/ Terminating
  BY <1>1 DEF Terminating, toolVars, exportVars
<1>2. CASE VerifyInput \/ ParseConfig \/ InitializeSensors \/ Return \/ (Analyze /\ UNCHANGED exportVars)
  BY <1>2 DEF VerifyInput, ParseConfig, InitializeSensors, Return, exportVars
<1>3. CASE MeasureAndShow \/ ExecuteExport
  BY <1>3 DEF MeasureAndShow, ExecuteExport
<1>. QED
  BY <1>1, <1>2, <1>3 DEF Next

\* What is correlated is a performance sensor with one that is none.
LEMMA CorrelationsOfPairs ==
  /\ GetCorrelation \in Seq(Range(GetCorrelation))
  /\ \A c \in Range(GetCorrelation) :
       \E p \in Sensors \cap Performance, r \in Sensors \ Performance : c = CorrelationResult(p, r)
<1>. DEFINE perf == Selected(AllSensors, Performance)
            rsc == Selected(AllSensors, Sensors \ Performance)
            all == FlattenSeq([i \in DOMAIN rsc |-> [j \in DOMAIN perf |-> CorrelationResult(perf[j], rsc[i])]])
            kept == {c \in Range(all) : Len(c.of[1]) >= MinimumCorrelationSize}
            Y == {c \in {CorrelationResult(p, r) : p \in Sensors \cap Performance, r \in Sensors \ Performance} : TRUE}
<1>1. perf \in Seq(Sensors \cap Performance) /\ rsc \in Seq(Sensors \cap (Sensors \ Performance))
  BY SensorLists, SelectedType
<1>2. GetCorrelation = Selected(all, kept)
  BY DEF GetCorrelation
<1>. HIDE DEF perf, rsc
<1>3. all \in Seq(Y)
  <2>. DEFINE rows == [i \in DOMAIN rsc |-> [j \in DOMAIN perf |-> CorrelationResult(perf[j], rsc[i])]]
  <2>1. DOMAIN rsc = 1..Len(rsc) /\ Len(rsc) \in Nat /\ DOMAIN perf = 1..Len(perf) /\ Len(perf) \in Nat
    BY <1>1
  <2>2. Len(rows) = Len(rsc)
    BY <2>1
  <2>3. ASSUME NEW i \in 1..Len(rsc) PROVE rows[i] \in Seq(Y)
    <3>1. \A j \in 1..Len(perf) : CorrelationResult(perf[j], rsc[i]) \in Y
      BY <1>1, <2>3
    <3>. HIDE DEF Y
    <3>. QED
      BY <2>1, <3>1
  <2>4. Len(rows) = 0 => rows = <<>>
    BY <2>1, <2>2
  <2>. HIDE DEF rows, Y
  <2>5. FlattenSeq(rows) \in Seq(Y)
    BY <2>1, <2>2, <2>3, <2>4, FlattenType
  <2>. QED
    BY <2>5 DEF rows
<1>4. Selected(all, kept) \in Seq(Y \cap kept)
  <2>. HIDE DEF all, kept, Y
  <2>. QED
    BY <1>3, SelectedType
<1>5. \A c \in Range(GetCorrelation) : c \in Y
  <2>. HIDE DEF all, kept, Y
  <2>. QED
    BY <1>2, <1>4 DEF Range
<1>6. GetCorrelation \in Seq(Range(GetCorrelation))
  <2>. HIDE DEF all, kept, Y
  <2>. QED
    BY <1>2, <1>4 DEF Range
<1>. QED
  BY <1>5, <1>6

\* The samples of a test are a sequence.
LEMMA SamplesAreListed ==
  ASSUME TypeInv
  PROVE  Len(data) \in Nat /\ DOMAIN data = 1..Len(data)
BY DEF TypeInv

\* The correlations of the same samples are the same.
LEMMA SameCorrelation ==
  ASSUME data' = data, config_' = config_
  PROVE  GetCorrelation' = GetCorrelation
<1>1. \A s : CreateEqualSizedVector(s)' = CreateEqualSizedVector(s)
  BY DEF CreateEqualSizedVector, Delay, GetProcess
<1>2. \A p, r : Pair(p, r)' = Pair(p, r)
  BY <1>1 DEF Pair
<1>3. \A p, r : CorrelationResult(p, r)' = CorrelationResult(p, r)
  BY <1>2 DEF CorrelationResult
<1>. QED
  BY <1>3 DEF GetCorrelation

\* The correlations remain those of the samples.
LEMMA CorrelationStep ==
  ASSUME IInv, [Next]_toolVars
  PROVE  CorrelationInv'
<1>0. CorrelationInv
  BY DEF IInv
<1>1. CASE pc' \notin Measured
  BY <1>1 DEF CorrelationInv
<1>2. CASE correlations' = correlations /\ data' = data /\ config_' = config_ /\ (pc' \in Measured => pc \in Measured)
  BY <1>0, <1>2, SameCorrelation DEF CorrelationInv
<1>3. CASE AnalyzeData
  <2>1. correlations' = GetCorrelation /\ data' = data /\ config_' = config_
    BY <1>3 DEF AnalyzeData
  <2>. QED
    BY <2>1, SameCorrelation DEF CorrelationInv
<1>4. CASE VerifyInput
  <2>1. pc' \in {"terminated", "refused", "parse"}
    BY <1>4, Zenon DEF VerifyInput
  <2>. QED
    BY <1>1, <2>1 DEF Measured
<1>5. CASE ParseConfig \/ InitializeSensors \/ MeasureAndShow
  <2>1. pc' \in {"terminated", "initialize", "measure"}
    BY <1>5 DEF ParseConfig, InitializeSensors, MeasureAndShow, Measure
  <2>. QED
    BY <1>1, <2>1 DEF Measured
<1>6. CASE Return \/ ExportData \/ UNCHANGED toolVars \/ Terminating
  BY <1>2, <1>6 DEF Return, ExportData, toolVars, vars, Terminating, Measured
<1>7. ASSUME NEW id, SetThresholdResults(id) PROVE CorrelationInv'
  BY <1>2, <1>7 DEF SetThresholdResults, Measured
<1>8. CASE ExecuteExport
  BY <1>2, <1>8 DEF ExecuteExport, vars
<1>. QED
  BY <1>3, <1>4, <1>5, <1>6, <1>7, <1>8 DEF Next, Analyze

\* What is correlated is of the sensors, as the samples have it.
LEMMA CorrelationsAre ==
  ASSUME IInv
  PROVE  /\ Len(correlations) \in Nat /\ DOMAIN correlations = 1..Len(correlations)
         /\ \A c \in Range(correlations) :
              \E p \in Sensors \cap Performance, r \in Sensors \ Performance : c = CorrelationResult(p, r)
<1>1. CASE pc \in Measured
  BY <1>1, CorrelationsOfPairs DEF IInv, CorrelationInv
<1>2. CASE pc \notin Measured
  <2>1. correlations = <<>>
    BY <1>2 DEF IInv, FreshInv
  <2>. QED
    BY <2>1 DEF Range
<1>. QED
  BY <1>1, <1>2

\* While the test is on, its configuration is one that was read.
LEMMA ConfigIsRead ==
  ASSUME IInv, pc \in Begun
  PROVE  /\ config_.thresholds \in Seq(Range(config_.thresholds))
         /\ config_.settings.exports \in Seq(Range(config_.settings.exports))
<1>1. config_ = SConfig(Files[userArguments_.configFile]) /\ config_ # Thrown
  BY DEF IInv, ConfigInv
<1>2. Files[userArguments_.configFile] \in Range(Files)
  BY DEF IInv, ArgsInv, Range
<1>. QED
  BY <1>1, <1>2, ConfigLists, Zenon

\* The variables keep their types.
LEMMA TypeStep ==
  ASSUME IInv, [Next]_toolVars
  PROVE  TypeInv'
<1>. USE DEF IInv
<1>0. /\ data \in Seq(Samples) /\ unchecked \subseteq GetProcesses
      /\ thresholdExceeded \in [Sensors -> BOOLEAN]
      /\ \A c \in Range(correlations) : c.sensor1 \in Performance /\ c.sensor2 \in Sensors \ Performance
      /\ DOMAIN csvFiles = Classes /\ ViewOK(live)
      /\ pc \in {"arguments", "parse", "initialize", "refused", "terminated", "thresholds"} \cup Begun
  BY DEF TypeInv, TypeOK, ResultsTypeOK, Begun
<1>. SUFFICES /\ data' \in Seq(Samples) /\ unchecked' \subseteq GetProcesses
              /\ thresholdExceeded' \in [Sensors -> BOOLEAN]
              /\ \A c \in Range(correlations') :
                   c.sensor1 \in Performance /\ c.sensor2 \in Sensors \ Performance
              /\ DOMAIN csvFiles' = Classes /\ ViewOK(live')
              /\ pc' \in {"arguments", "parse", "initialize", "refused", "terminated"} \cup Begun
  BY DEF TypeInv, TypeOK, ResultsTypeOK, ViewOK, Begun
<1>1. CASE VerifyInput
  BY <1>0, <1>1 DEF VerifyInput, exportVars, Begun
<1>2. CASE ParseConfig
  BY <1>0, <1>2 DEF ParseConfig, exportVars, Begun
<1>3. CASE InitializeSensors
  BY <1>0, <1>3 DEF InitializeSensors, exportVars, Begun
<1>4. CASE Return \/ Terminating \/ UNCHANGED toolVars
  BY <1>0, <1>4 DEF Return, Terminating, toolVars, vars, exportVars, Begun
<1>5. CASE AnalyzeData /\ UNCHANGED exportVars
  <2>1. \A c \in Range(GetCorrelation) : c.sensor1 \in Performance /\ c.sensor2 \in Sensors \ Performance
    BY CorrelationsOfPairs DEF CorrelationResult
  <2>. QED
    BY <1>0, <1>5, <2>1 DEF AnalyzeData, exportVars, Begun
<1>6. ASSUME NEW id, SetThresholdResults(id), UNCHANGED exportVars
      PROVE  /\ data' \in Seq(Samples) /\ unchecked' \subseteq GetProcesses
             /\ thresholdExceeded' \in [Sensors -> BOOLEAN]
             /\ \A c \in Range(correlations') :
                  c.sensor1 \in Performance /\ c.sensor2 \in Sensors \ Performance
             /\ DOMAIN csvFiles' = Classes /\ ViewOK(live')
             /\ pc' \in {"arguments", "parse", "initialize", "refused", "terminated"} \cup Begun
  <2>1. config_.thresholds \in Seq(Range(config_.thresholds))
    BY <1>6, ConfigIsRead DEF SetThresholdResults, Begun
  <2>2. ThresholdsApplied(id) \in [Sensors -> BOOLEAN]
    BY <1>0, <2>1, ThresholdsGive
  <2>. QED
    BY <1>0, <1>6, <2>2 DEF SetThresholdResults, exportVars, Begun
<1>7. CASE ExportData /\ UNCHANGED exportVars
  BY <1>0, <1>7 DEF ExportData, exportVars, Begun
<1>8. CASE MeasureAndShow
  <2>1. data' \in Seq(Samples)
    BY <1>0, <1>8 DEF MeasureAndShow, Measure
  <2>2. ViewOK(live')
    <3>1. CASE UNCHANGED live
      BY <1>0, <3>1
    <3>2. CASE AddMeasurements(data')
      <4>1. PICK chosen, viewed :
              live' = ViewOf([live EXCEPT !.shown = <<>>, !.viewed = viewed], LiveSensors(chosen), Last(data'))
        BY <3>2 DEF AddMeasurements
      <4>2. LiveSensors(chosen) \in Seq(Sensors \cap (ShowInLive \cup chosen))
        BY SensorLists, SelectedType DEF LiveSensors
      <4>3. ViewOK([live EXCEPT !.shown = <<>>, !.viewed = viewed])
        <5>. DEFINE cleared == [live EXCEPT !.shown = <<>>]
        <5>1. ViewOK(cleared)
          BY <1>0 DEF ViewOK
        <5>2. [live EXCEPT !.shown = <<>>, !.viewed = viewed] = [cleared EXCEPT !.viewed = viewed]
          OBVIOUS
        <5>. HIDE DEF cleared
        <5>. QED
          BY <5>1, <5>2 DEF ViewOK
      <4>4. Len(LiveSensors(chosen)) \in Nat
        BY <4>2
      <4>. QED
        BY <4>1, <4>3, <4>4, AllElements
    <3>. QED
      BY <1>8, <3>1, <3>2 DEF MeasureAndShow
  <2>. QED
    BY <1>0, <1>8, <2>1, <2>2 DEF MeasureAndShow, Measure
<1>9. CASE ExecuteExport
  <2>1. csvFiles' = csvFiles \/ csvFiles' = [c \in Classes |-> IF Opens("csv", c) THEN CsvFile(c) ELSE csvFiles[c]]
    BY <1>9, Zenon DEF ExecuteExport, FullExport
  <2>2. DOMAIN csvFiles' = Classes
    BY <1>0, <2>1
  <2>3. UNCHANGED <<pc, data, correlations, unchecked, thresholdExceeded, live>>
    BY <1>9 DEF ExecuteExport, vars
  <2>. QED
    BY <1>0, <2>2, <2>3 DEF Begun
<1>. QED
  BY <1>1, <1>2, <1>3, <1>4, <1>5, <1>6, <1>7, <1>8, <1>9 DEF Next, Analyze

\* What the options say is not forgotten.
LEMMA ArgsStep ==
  ASSUME IInv, [Next]_toolVars
  PROVE  ArgsInv'
<1>0. options \in CommandLines /\ ArgsInv
  BY DEF IInv, ArgsInv
<1>1. CASE VerifyInput
  <2>1. options' = options
    BY <1>1 DEF VerifyInput
  <2>2. ASSUME pc' \in {"parse", "initialize"} \cup Begun
        PROVE  /\ Parse(options).outcome = "correct" /\ userArguments_' = Parse(options).args
               /\ Parse(options).args.configFile \in DOMAIN Files
               /\ Parse(options).args.sensorInfoFile \in DOMAIN Files
    <3>. DEFINE parsed == Parse(options)
    <3>1. /\ userArguments_' = parsed.args
          /\ parsed.outcome # "thrown" /\ VerifyArguments(parsed, Files) # -1
      <4>. HIDE DEF parsed
      <4>1. /\ userArguments_' = parsed.args
            /\ pc' = CASE parsed.outcome = "thrown" -> "terminated"
                       [] parsed.outcome # "thrown" /\ VerifyArguments(parsed, Files) = -1 -> "refused"
                       [] OTHER -> "parse"
        BY <1>1, Zenon DEF VerifyInput, parsed
      <4>. QED
        BY <2>2, <4>1 DEF Begun
    <3>2. parsed.outcome \in {"correct", "incorrect", "thrown"}
      <4>1. ParsedSoFar(options, Len(options), parsed)
        BY <1>0, OptionsAreOptions, ParseTakesLast
      <4>. QED
        BY <4>1 DEF ParsedSoFar
    <3>. HIDE DEF parsed
    <3>3. /\ parsed.outcome # "incorrect"
          /\ FileExists(Files, parsed.args.sensorInfoFile) /\ FileExists(Files, parsed.args.configFile)
      BY <3>1 DEF VerifyArguments
    <3>4. parsed.args.sensorInfoFile \in DOMAIN Files /\ parsed.args.configFile \in DOMAIN Files
      BY <3>3 DEF FileExists, ContentOf
    <3>. QED
      BY <3>1, <3>2, <3>3, <3>4 DEF parsed
  <2>. QED
    BY <1>0, <2>1, <2>2 DEF ArgsInv
<1>2. CASE UNCHANGED <<options, userArguments_>> /\ (pc' \in {"parse", "initialize"} \cup Begun =>
                                                       pc \in {"parse", "initialize"} \cup Begun)
  BY <1>0, <1>2 DEF ArgsInv
<1>3. CASE ParseConfig \/ InitializeSensors \/ Return
  BY <1>2, <1>3 DEF ParseConfig, InitializeSensors, Return, Begun
<1>4. CASE Terminating \/ UNCHANGED toolVars
  BY <1>2, <1>4 DEF Terminating, toolVars, vars
<1>5. CASE Analyze /\ UNCHANGED <<options, userArguments_>>
  BY <1>2, <1>5 DEF Analyze, AnalyzeData, SetThresholdResults, ExportData, Begun
<1>6. CASE MeasureAndShow /\ UNCHANGED <<options, userArguments_>>
  BY <1>2, <1>6 DEF MeasureAndShow, Measure
<1>7. CASE ExecuteExport /\ UNCHANGED <<options, userArguments_>>
  <2>1. pc' = pc
    BY <1>7 DEF ExecuteExport, vars
  <2>. QED
    BY <1>2, <1>7, <2>1
<1>. QED
  BY <1>1, <1>3, <1>4, <1>5, <1>6, <1>7 DEF Next

\* What was read is what is used.
LEMMA ConfigStep ==
  ASSUME IInv, [Next]_toolVars
  PROVE  ConfigInv'
<1>0. ArgsInv /\ ConfigInv
  BY DEF IInv
<1>1. CASE VerifyInput
  <2>1. pc' \in {"terminated", "refused", "parse"}
    BY <1>1, Zenon DEF VerifyInput
  <2>. QED
    BY <2>1 DEF ConfigInv, Begun
<1>2. CASE ParseConfig
  <2>1. pc = "parse" /\ userArguments_' = userArguments_
    BY <1>2 DEF ParseConfig
  <2>2. ContentOf(Files, userArguments_.configFile) = Files[userArguments_.configFile]
    BY <1>0, <2>1 DEF ArgsInv, ContentOf
  <2>. DEFINE config == SConfig(Files[userArguments_.configFile])
  <2>3. IF config = Thrown THEN pc' = "terminated" /\ UNCHANGED config_
        ELSE pc' = "initialize" /\ config_' = config
    BY <1>2, <2>2 DEF ParseConfig
  <2>. HIDE DEF config
  <2>4. pc' \notin Begun /\ (pc' = "initialize" => config_' = config /\ config # Thrown)
    BY <2>3 DEF Begun
  <2>. QED
    BY <1>0, <2>1, <2>4 DEF ConfigInv, config
<1>3. CASE InitializeSensors
  <2>1. pc = "initialize" /\ UNCHANGED <<userArguments_, config_>>
    BY <1>3 DEF InitializeSensors
  <2>2. ContentOf(Files, userArguments_.sensorInfoFile) = Files[userArguments_.sensorInfoFile]
    BY <1>0, <2>1 DEF ArgsInv, ContentOf
  <2>3. pc' # "initialize" /\ (pc' \in Begun => SensorConfig(Files[userArguments_.sensorInfoFile]) # Thrown)
    BY <1>3, <2>2 DEF InitializeSensors, Begun
  <2>. QED
    BY <1>0, <2>1, <2>3 DEF ConfigInv
<1>4. CASE UNCHANGED <<config_, userArguments_>> /\ (pc' = pc \/ (pc \in Begun /\ pc' \in Begun))
  BY <1>0, <1>4 DEF ConfigInv
<1>5. CASE Return \/ Terminating \/ UNCHANGED toolVars
  BY <1>4, <1>5 DEF Return, Terminating, toolVars, vars, Begun
<1>6. CASE Analyze /\ UNCHANGED <<options, userArguments_>>
  BY <1>4, <1>6 DEF Analyze, AnalyzeData, SetThresholdResults, ExportData, Begun
<1>7. CASE MeasureAndShow /\ UNCHANGED <<options, userArguments_>>
  BY <1>4, <1>7 DEF MeasureAndShow, Measure
<1>8. CASE ExecuteExport /\ UNCHANGED <<options, userArguments_>>
  <2>1. pc' = pc /\ config_' = config_
    BY <1>8 DEF ExecuteExport, vars
  <2>. QED
    BY <1>4, <1>8, <2>1
<1>. QED
  BY <1>1, <1>2, <1>3, <1>5, <1>6, <1>7, <1>8 DEF Next

\* What has not begun leaves no trace.
LEMMA FreshStep ==
  ASSUME IInv, [Next]_toolVars
  PROVE  FreshInv'
<1>. USE DEF IInv
<1>1. CASE VerifyInput
  <2>1. pc' \in {"terminated", "refused", "parse"}
    BY <1>1, Zenon DEF VerifyInput
  <2>2. pc = "arguments" /\ UNCHANGED <<data, correlations, thresholdExceeded, exportVars>>
    BY <1>1 DEF VerifyInput
  <2>. QED
    BY <2>1, <2>2 DEF FreshInv, NothingWritten, exportVars, Analyzed, Measured, Begun
<1>2. CASE ParseConfig
  <2>1. pc = "parse" /\ UNCHANGED <<data, correlations, thresholdExceeded, exportVars>>
    BY <1>2 DEF ParseConfig
  <2>2. pc' \in {"terminated", "initialize"}
    BY <1>2 DEF ParseConfig
  <2>. QED
    BY <2>1, <2>2 DEF FreshInv, NothingWritten, exportVars, Analyzed, Measured, Begun
<1>3. CASE InitializeSensors
  BY <1>3 DEF InitializeSensors, FreshInv, NothingWritten, exportVars, Analyzed, Measured, Begun
<1>4. CASE Return
  BY <1>4 DEF Return, FreshInv, NothingWritten, exportVars, Analyzed, Measured, Begun
<1>5. CASE Terminating \/ UNCHANGED toolVars
  BY <1>5 DEF Terminating, toolVars, vars, FreshInv, NothingWritten, exportVars, Analyzed, Measured, Begun
<1>6. CASE Analyze /\ UNCHANGED exportVars
  BY <1>6 DEF Analyze, AnalyzeData, SetThresholdResults, ExportData, FreshInv, NothingWritten, exportVars,
              Analyzed, Measured, Begun
<1>7. CASE MeasureAndShow
  <2>1. pc = "measure" /\ UNCHANGED <<pc, correlations, thresholdExceeded, nextExport, csvFiles, jsonFiles,
                                      graphs, summary>>
    BY <1>7 DEF MeasureAndShow, Measure
  <2>. QED
    BY <2>1 DEF FreshInv, NothingWritten, Analyzed, Measured, Begun
<1>8. CASE ExecuteExport
  <2>1. pc = "export" /\ pc' = pc
    BY <1>8 DEF ExecuteExport, AtExport, vars
  <2>. QED
    BY <2>1 DEF FreshInv, Analyzed, Measured, Begun
<1>. QED
  BY <1>1, <1>2, <1>3, <1>4, <1>5, <1>6, <1>7, <1>8 DEF Next

\* The sensors of the processes looked at are marked.
LEMMA ThresholdStep ==
  ASSUME IInv, [Next]_toolVars
  PROVE  ThresholdInv'
<1>. DEFINE Over(s, u) == \E t \in Range(config_.thresholds) : t.processId \notin u /\ Exceeds(s, t)
<1>0. ThresholdInv /\ FreshInv /\ thresholdExceeded \in [Sensors -> BOOLEAN]
  BY DEF IInv, TypeInv
<1>1. CASE pc' \notin Measured
  BY <1>1 DEF ThresholdInv, Measured, Analyzed
<1>2. ASSUME UNCHANGED <<data, config_>>,
             \A s \in Sensors : thresholdExceeded'[s] <=> Over(s, unchecked'),
             pc' \in Analyzed => unchecked' = {}
      PROVE  ThresholdInv'
  <2>1. \A s \in Sensors :
          thresholdExceeded'[s] <=>
            \E t \in Range(config_'.thresholds) : t.processId \notin unchecked' /\ Exceeds(s, t)'
    BY <1>2, SameResults
  <2>. QED
    BY <1>2, <2>1 DEF ThresholdInv
<1>3. CASE VerifyInput \/ ParseConfig \/ InitializeSensors \/ MeasureAndShow
  <2>1. pc' \in {"terminated", "refused", "parse", "initialize", "measure"}
    BY <1>3 DEF VerifyInput, ParseConfig, InitializeSensors, MeasureAndShow, Measure
  <2>. QED
    BY <1>1, <2>1 DEF Measured
<1>4. CASE /\ UNCHANGED <<data, config_, unchecked, thresholdExceeded>>
           /\ pc' = pc \/ (pc \in Analyzed /\ pc' \in Analyzed)
  <2>1. CASE pc \in Measured
    BY <1>0, <1>2, <1>4, <2>1 DEF ThresholdInv
  <2>. QED
    BY <1>1, <1>4, <2>1 DEF Measured, Analyzed
<1>5. CASE Terminating \/ UNCHANGED toolVars \/ ExecuteExport \/ Return
  BY <1>4, <1>5 DEF Terminating, toolVars, vars, ExecuteExport, Return, Analyzed
<1>6. CASE AnalyzeData
  <2>1. /\ pc = "measure" /\ pc' = "thresholds" /\ unchecked' = GetProcesses
        /\ UNCHANGED <<config_, data, thresholdExceeded>>
    BY <1>6 DEF AnalyzeData
  <2>2. \A s \in Sensors : ~thresholdExceeded[s]
    BY <1>0, <2>1 DEF FreshInv, Measured
  <2>3. \A s, t : Exceeds(s, t) => t.processId \in GetProcesses
    BY FoundInProcess DEF Exceeds
  <2>. QED
    BY <1>2, <2>1, <2>2, <2>3 DEF Analyzed
<1>7. ASSUME NEW id, SetThresholdResults(id) PROVE ThresholdInv'
  <2>1. /\ pc = "thresholds" /\ pc' = "thresholds" /\ unchecked' = unchecked \ {id}
        /\ thresholdExceeded' = ThresholdsApplied(id) /\ UNCHANGED <<config_, data>>
    BY <1>7 DEF SetThresholdResults
  <2>2. config_.thresholds \in Seq(Range(config_.thresholds))
    BY <2>1, ConfigIsRead DEF Begun
  <2>3. \A s \in Sensors :
          ThresholdsApplied(id)[s] <=>
            thresholdExceeded[s] \/ \E t \in Range(config_.thresholds) : t.processId = id /\ Exceeds(s, t)
    BY <1>0, <2>2, ThresholdsGive
  <2>4. \A s \in Sensors : thresholdExceeded[s] <=> Over(s, unchecked)
    BY <1>0, <2>1 DEF ThresholdInv, Measured
  <2>5. \A s \in Sensors : thresholdExceeded'[s] <=> Over(s, unchecked')
    BY <1>7, <2>1, <2>3, <2>4 DEF SetThresholdResults
  <2>. QED
    BY <1>2, <2>1, <2>5 DEF Analyzed
<1>8. CASE ExportData
  <2>1. /\ pc = "thresholds" /\ unchecked = {}
        /\ UNCHANGED <<config_, data, unchecked, thresholdExceeded>>
    BY <1>8 DEF ExportData
  <2>2. \A s \in Sensors : thresholdExceeded[s] <=> Over(s, unchecked)
    BY <1>0, <2>1 DEF ThresholdInv, Measured
  <2>. QED
    BY <1>2, <2>1, <2>2
<1>. QED
  BY <1>3, <1>5, <1>6, <1>7, <1>8 DEF Next, Analyze

\* An export that is executed writes what can be opened for it.
LEMMA ExportWrites ==
  ASSUME NEW e, FullExport(e), UNCHANGED vars, readOnly' = readOnly, DOMAIN csvFiles = Classes
  PROVE  Written(e)'
<1>1. CASE e.exportType = "csv"
  <2>1. csvFiles' = [c \in Classes |-> IF Opens("csv", c) THEN CsvFile(c) ELSE csvFiles[c]]
    BY <1>1 DEF FullExport
  <2>2. \A c : CsvFile(c)' = CsvFile(c) /\ Opens("csv", c)' = Opens("csv", c)
    BY DEF CsvFile, ParseData, vars, Opens
  <2>. QED
    BY <1>1, <2>1, <2>2 DEF Written
<1>2. CASE e.exportType = "json"
  <2>1. jsonFiles' = IF Opens("json", e.filename) THEN With(jsonFiles, e.filename, Json) ELSE jsonFiles
    BY <1>2 DEF FullExport
  <2>2. Opens("json", e.filename) => e.filename \in DOMAIN jsonFiles' /\ jsonFiles'[e.filename] = Json
    BY <2>1 DEF With
  <2>3. Json' = Json /\ Opens("json", e.filename)' = Opens("json", e.filename)
    BY DEF Json, Named, Item, vars, Opens
  <2>. QED
    BY <1>2, <2>2, <2>3 DEF Written
<1>3. CASE e.exportType = "terminal"
  <2>1. summary' = Summary
    BY <1>3 DEF FullExport
  <2>2. "averages" \in DOMAIN Summary
    BY DEF Summary
  <2>3. summary' # <<>>
    BY <2>1, <2>2
  <2>. QED
    BY <1>3, <2>3 DEF Written
<1>4. CASE e.exportType \notin {"csv", "json", "terminal"}
  BY <1>4 DEF Written
<1>. QED
  BY <1>1, <1>2, <1>3, <1>4

\* What an export has written no later one takes back.
LEMMA WritingKeeps ==
  ASSUME NEW e, NEW f, Written(e), UNCHANGED vars, readOnly' = readOnly,
         FullExport(f) \/ UNCHANGED <<csvFiles, jsonFiles, graphs, summary>>
  PROVE  Written(e)'
<1>0. \A c : CsvFile(c)' = CsvFile(c) /\ Opens("csv", c)' = Opens("csv", c)
  BY DEF CsvFile, ParseData, vars, Opens
<1>1. CASE e.exportType = "csv"
  <2>1. \A c \in Classes : Opens("csv", c) => csvFiles[c] = CsvFile(c)
    BY <1>1 DEF Written
  <2>2. csvFiles' = csvFiles \/ csvFiles' = [c \in Classes |-> IF Opens("csv", c) THEN CsvFile(c) ELSE csvFiles[c]]
    BY DEF FullExport
  <2>3. \A c \in Classes : Opens("csv", c) => csvFiles'[c] = CsvFile(c)
    BY <2>1, <2>2
  <2>. QED
    BY <1>0, <1>1, <2>3 DEF Written
<1>2. CASE e.exportType = "json"
  <2>. DEFINE name == e.filename
  <2>0. Json' = Json /\ Opens("json", name)' = Opens("json", name)
    BY DEF Json, Named, Item, vars, Opens
  <2>1. Opens("json", name) => name \in DOMAIN jsonFiles /\ jsonFiles[name] = Json
    BY <1>2 DEF Written
  <2>2. jsonFiles' = jsonFiles \/ jsonFiles' = With(jsonFiles, f.filename, Json)
    BY DEF FullExport
  <2>3. Opens("json", name) => name \in DOMAIN jsonFiles' /\ jsonFiles'[name] = Json
    <3>. HIDE DEF name
    <3>. QED
      BY <2>1, <2>2 DEF With
  <2>. QED
    BY <1>2, <2>0, <2>3 DEF Written
<1>3. CASE e.exportType = "terminal"
  <2>1. summary # <<>>
    BY <1>3 DEF Written
  <2>2. summary' = summary \/ summary' = Summary
    BY DEF FullExport
  <2>3. "averages" \in DOMAIN Summary
    BY DEF Summary
  <2>4. summary' # <<>>
    BY <2>1, <2>2, <2>3
  <2>. QED
    BY <1>3, <2>4 DEF Written
<1>4. CASE e.exportType \notin {"csv", "json", "terminal"}
  BY <1>4 DEF Written
<1>. QED
  BY <1>1, <1>2, <1>3, <1>4

\* The exports come to are written.
LEMMA ExportStep ==
  ASSUME IInv, [Next]_toolVars
  PROVE  ExportInv'
<1>0. ExportInv /\ FreshInv /\ readOnly' = readOnly /\ DOMAIN csvFiles = Classes
  BY ReadOnlyStays DEF IInv, TypeInv, TypeOK
<1>1. CASE pc' \notin Analyzed
  BY <1>1 DEF ExportInv
<1>2. CASE VerifyInput \/ ParseConfig \/ InitializeSensors \/ MeasureAndShow
  <2>1. pc' \in {"terminated", "refused", "parse", "initialize", "measure"}
    BY <1>2 DEF VerifyInput, ParseConfig, InitializeSensors, MeasureAndShow, Measure
  <2>. QED
    BY <1>1, <2>1 DEF Analyzed
<1>3. CASE AnalyzeData \/ \E p \in GetProcesses : SetThresholdResults(p)
  <2>1. pc' = "thresholds"
    BY <1>3 DEF AnalyzeData, SetThresholdResults
  <2>. QED
    BY <1>1, <2>1 DEF Analyzed
<1>4. CASE ExportData /\ UNCHANGED exportVars
  <2>1. pc' = "export" /\ nextExport' = 1
    BY <1>0, <1>4 DEF ExportData, exportVars, FreshInv, NothingWritten, Analyzed
  <2>2. \A i \in 1..Len(Exported') : ~(i < 1)
    OBVIOUS
  <2>. QED
    BY <2>1, <2>2 DEF ExportInv
<1>5. ASSUME UNCHANGED <<config_, data, correlations, exportVars>>, pc \in Analyzed,
             pc' = "returned" => nextExport > Len(Exported)
      PROVE  ExportInv'
  <2>1. \A e : Written(e)' <=> Written(e)
    <3>1. \A c : CsvFile(c)' = CsvFile(c)
      BY <1>5 DEF CsvFile, ParseData
    <3>2. Json' = Json
      BY <1>5 DEF Json, Named, Item
    <3>3. \A type, name : Opens(type, name)' <=> Opens(type, name)
      BY <1>5 DEF Opens, exportVars
    <3>. QED
      BY <1>5, <3>1, <3>2, <3>3 DEF Written, exportVars
  <2>2. nextExport' = nextExport /\ Exported' = Exported
    BY <1>5 DEF exportVars, Exported
  <2>. QED
    BY <1>0, <1>5, <2>1, <2>2 DEF ExportInv
<1>6. CASE Return
  BY <1>5, <1>6 DEF Return, Exported, Analyzed
<1>7. CASE Terminating \/ UNCHANGED toolVars
  <2>1. UNCHANGED <<pc, config_, data, correlations, exportVars>>
    BY <1>7 DEF Terminating, toolVars, vars
  <2>. QED
    BY <1>0, <1>1, <1>5, <2>1 DEF ExportInv
<1>8. CASE ExecuteExport
  <2>. DEFINE e == Exported[nextExport]
  <2>1. /\ pc = "export" /\ pc' = "export" /\ nextExport' = nextExport + 1
        /\ UNCHANGED vars
    BY <1>8 DEF ExecuteExport, AtExport, vars
  <2>2. IF e.exportEnabled THEN FullExport(e) ELSE UNCHANGED <<csvFiles, jsonFiles, graphs, summary>>
    BY <1>8 DEF ExecuteExport, Exported
  <2>3. Exported' = Exported
    BY <2>1 DEF vars, Exported
  <2>4. /\ nextExport \in Nat \ {0}
        /\ \A i \in 1..Len(Exported) : i < nextExport /\ Exported[i].exportEnabled => Written(Exported[i])
    BY <1>0, <2>1 DEF ExportInv, Analyzed
  <2>. HIDE DEF e
  <2>5. ASSUME NEW i \in 1..Len(Exported), i < nextExport + 1, Exported[i].exportEnabled
        PROVE  Written(Exported[i])'
    <3>. DEFINE x == Exported[i]
    <3>1. CASE i = nextExport
      <4>1. x = e /\ FullExport(x)
        BY <2>2, <2>5, <3>1 DEF e
      <4>2. FullExport(Exported[i])
        BY <4>1
      <4>. QED
        BY <1>0, <2>1, <2>3, <4>2, ExportWrites
    <3>2. CASE i < nextExport
      <4>1. Written(Exported[i])
        BY <2>4, <2>5, <3>2
      <4>2. FullExport(e) \/ UNCHANGED <<csvFiles, jsonFiles, graphs, summary>>
        BY <2>2
      <4>. QED
        BY <1>0, <2>1, <2>3, <4>1, <4>2, WritingKeeps
    <3>. QED
      BY <2>4, <2>5, <3>1, <3>2
  <2>. QED
    BY <2>1, <2>3, <2>4, <2>5 DEF ExportInv
<1>. QED
  BY <1>2, <1>3, <1>4, <1>6, <1>7, <1>8 DEF Next, Analyze

\* The files of the same results are the same.
LEMMA SameFiles ==
  ASSUME UNCHANGED <<config_, data, correlations, thresholdExceeded>>
  PROVE  (\A c : CsvFile(c)' = CsvFile(c)) /\ Summary' = Summary
<1>1. \A c : CsvFile(c)' = CsvFile(c)
  BY DEF CsvFile, ParseData
<1>2. \A s : PrintValue(s)' = PrintValue(s)
  BY SameSensorData DEF PrintValue
<1>3. PrintSystemSummary' = PrintSystemSummary
  BY <1>2 DEF PrintSystemSummary
<1>4. PrintThresholds' = PrintThresholds
  BY DEF PrintThresholds
<1>5. PrintCorrelations' = PrintCorrelations
  BY DEF PrintCorrelations, IsStrong
<1>. QED
  BY <1>1, <1>3, <1>4, <1>5 DEF Summary

\* The results of a test are not touched once they are exported.
LEMMA ResultsStay ==
  ASSUME IInv, Next, pc \in Analyzed
  PROVE  UNCHANGED <<config_, data, correlations, thresholdExceeded>> /\ pc' \in Analyzed
<1>. USE DEF Analyzed
<1>1. ~VerifyInput /\ ~ParseConfig /\ ~InitializeSensors /\ ~AnalyzeData /\ ~MeasureAndShow
  BY DEF VerifyInput, ParseConfig, InitializeSensors, AnalyzeData, MeasureAndShow, Measure
<1>2. ~ExportData /\ \A id : ~SetThresholdResults(id)
  BY DEF ExportData, SetThresholdResults
<1>3. CASE Return \/ Terminating \/ ExecuteExport
  BY <1>3 DEF Return, Terminating, toolVars, vars, ExecuteExport
<1>. QED
  BY <1>1, <1>2, <1>3 DEF Next, Analyze

\* Until then no file is touched.
LEMMA FilesStay ==
  ASSUME IInv, Next, ~ExecuteExport
  PROVE  UNCHANGED <<nextExport, csvFiles, jsonFiles, graphs, summary>>
<1>1. CASE VerifyInput \/ ParseConfig \/ InitializeSensors
  BY <1>1 DEF VerifyInput, ParseConfig, InitializeSensors, exportVars
<1>2. CASE Return \/ Terminating \/ (Analyze /\ UNCHANGED exportVars)
  BY <1>2 DEF Return, Terminating, toolVars, exportVars
<1>3. CASE MeasureAndShow
  BY <1>3 DEF MeasureAndShow
<1>. QED
  BY <1>1, <1>2, <1>3 DEF Next

\* Every file stays one of an earlier test or shows this one.
LEMMA FilesStep ==
  ASSUME IInv, [Next]_toolVars
  PROVE  FilesInv'
<1>0. FilesInv
  BY DEF IInv
<1>. DEFINE Earlier(c) == {NoFile, [labels |-> ParseLabel(c), rows |-> <<>>]}
<1>1. CASE UNCHANGED toolVars
  <2>1. UNCHANGED <<pc, config_, data, correlations, thresholdExceeded, csvFiles, summary>>
    BY <1>1 DEF toolVars, vars, exportVars
  <2>. QED
    BY <1>0, <2>1, SameFiles DEF FilesInv
<1>2. CASE Next /\ pc \in Analyzed
  <2>1. UNCHANGED <<config_, data, correlations, thresholdExceeded>> /\ pc' \in Analyzed
    BY <1>2, ResultsStay
  <2>2. (\A c : CsvFile(c)' = CsvFile(c)) /\ Summary' = Summary
    BY <2>1, SameFiles
  <2>3. /\ csvFiles' = csvFiles
             \/ csvFiles' = [c \in Classes |-> IF Opens("csv", c) THEN CsvFile(c) ELSE csvFiles[c]]
        /\ summary' = summary \/ summary' = Summary
    <3>1. CASE ExecuteExport
      BY <3>1, Zenon DEF ExecuteExport, FullExport
    <3>. QED
      BY <1>2, <3>1, FilesStay
  <2>4. ASSUME NEW c \in Classes PROVE csvFiles'[c] \in Earlier(c) \cup {CsvFile(c)}
    BY <1>0, <2>3 DEF FilesInv
  <2>5. summary' \in {<<>>, Summary}
    BY <1>0, <2>3 DEF FilesInv
  <2>. QED
    BY <2>1, <2>2, <2>4, <2>5 DEF FilesInv
<1>3. CASE Next /\ pc \notin Analyzed
  <2>1. ~ExecuteExport
    BY <1>3 DEF ExecuteExport, AtExport, Analyzed
  <2>2. csvFiles' = csvFiles /\ summary' = summary
    BY <1>3, <2>1, FilesStay
  <2>3. (\A c \in Classes : csvFiles[c] \in Earlier(c)) /\ summary = <<>>
    BY <1>0, <1>3 DEF FilesInv
  <2>. QED
    BY <2>2, <2>3 DEF FilesInv
<1>. QED
  BY <1>1, <1>2, <1>3

\* The sensors of the live view are those chosen, each once.
LEMMA LiveSensorsAre ==
  ASSUME NEW samples, NEW chosen \in LivePipelineSensors(samples)
  PROVE  /\ LiveSensors(chosen) \in Seq(Sensors)
         /\ (ShowInLive \cap Range(SystemSensors)) \cup chosen \subseteq Range(LiveSensors(chosen))
         /\ Cardinality(Range(LiveSensors(chosen))) = Len(LiveSensors(chosen))
<1>. DEFINE all == SystemSensors \o PipelineSensors
            set == ShowInLive \cup chosen
            sensors == Selected(all, set)
            R == Range(SystemSensors) \cup Range(PipelineSensors)
<1>1. /\ all \in Seq(Sensors) /\ Range(all) = R
      /\ \A i, j \in 1..Len(all) : all[i] = all[j] => i = j
  BY SensorsOnce
<1>2. (ShowInLive \cap Range(SystemSensors)) \cup chosen \subseteq R \cap set
  BY DEF LivePipelineSensors, Known
<1>. HIDE DEF all, set, R
<1>3. sensors \in Seq(Sensors \cap set) /\ Range(sensors) = Range(all) \cap set
  BY <1>1, SelectedType, SelectedRange
<1>4. \A i, j \in 1..Len(sensors) : sensors[i] = sensors[j] => i = j
  BY <1>1, SelectedOnce
<1>. HIDE DEF sensors
<1>5. Cardinality(Range(sensors)) = Len(sensors)
  BY <1>3, <1>4, OnceCounted
<1>6. sensors \in Seq(Sensors)
  BY <1>3
<1>7. Range(sensors) = R \cap set
  BY <1>1, <1>3
<1>8. LiveSensors(chosen) = sensors
  BY DEF LiveSensors, sensors, all, set
<1>. QED
  BY <1>2, <1>5, <1>6, <1>7, <1>8

\* The view is drawn anew, with these sensors, for this sample.
Redrawn(old, empty, ui, sensors, samples, sample) ==
  /\ empty.lastMeasurement_ = old.lastMeasurement_
  /\ empty.viewed = [s \in Sensors |-> IF s \in Range(sensors) THEN old.viewed[s] \cup {Len(samples) + 1}
                                       ELSE old.viewed[s]]
  /\ Viewed(Len(sensors), empty, ui, sensors, sample)

\* The view keeps what it has to.
LEMMA ViewIsKept ==
  ASSUME NEW samples \in Seq(Samples), NEW sample \in Samples, NEW old, ViewKeeps(old, samples),
         NEW empty, NEW sensors, sensors \in Seq(Sensors), NEW ui,
         Redrawn(old, empty, ui, sensors, samples, sample)
  PROVE  ViewKeeps(ui, Append(samples, sample))
<1>. DEFINE all == Append(samples, sample)
            N == Len(samples)
            Was(s) == SeenOf(old, samples, s)
            Is(s) == SeenOf(ui, all, s)
<1>1. /\ N \in Nat /\ Len(all) = N + 1 /\ all[N + 1] = sample
      /\ \A k \in 1..N : all[k] = samples[k]
  OBVIOUS
<1>2. \A s \in Sensors :
        /\ old.viewed[s] \subseteq 1..N
        /\ s \in DOMAIN old.lastMeasurement_ <=> Was(s) # {}
        /\ Was(s) # {} => old.lastMeasurement_[s] = samples[Max(Was(s))][s]
  BY DEF ViewKeeps
<1>3. /\ empty.lastMeasurement_ = old.lastMeasurement_
      /\ ui.viewed = [s \in Sensors |-> IF s \in Range(sensors) THEN old.viewed[s] \cup {N + 1}
                                        ELSE old.viewed[s]]
      /\ ColorsOK(ui)
  BY DEF Redrawn, Viewed
<1>4. /\ \A i \in 1..Len(sensors) :
           sample[sensors[i]] # NotMeasured =>
             sensors[i] \in DOMAIN ui.lastMeasurement_ /\ ui.lastMeasurement_[sensors[i]] = sample[sensors[i]]
      /\ \A s : (sample[s] = NotMeasured \/ \A i \in 1..Len(sensors) : sensors[i] # s) =>
                  /\ s \in DOMAIN ui.lastMeasurement_ <=> s \in DOMAIN empty.lastMeasurement_
                  /\ s \in DOMAIN empty.lastMeasurement_ => ui.lastMeasurement_[s] = empty.lastMeasurement_[s]
  BY DEF Redrawn, Viewed
<1>. HIDE DEF all, N
<1>5. \A s \in Sensors : Was(s) = {k \in old.viewed[s] : samples[k][s] # NotMeasured}
                          /\ Is(s) = {k \in ui.viewed[s] : all[k][s] # NotMeasured}
  BY DEF SeenOf
<1>. HIDE DEF Was, Is
<1>6. ASSUME NEW s \in Sensors
      PROVE  /\ ui.viewed[s] \subseteq 1..Len(all)
             /\ s \in DOMAIN ui.lastMeasurement_ <=> Is(s) # {}
             /\ Is(s) # {} => ui.lastMeasurement_[s] = all[Max(Is(s))][s]
  <2>1. /\ ui.viewed[s] = IF s \in Range(sensors) THEN old.viewed[s] \cup {N + 1} ELSE old.viewed[s]
        /\ old.viewed[s] \subseteq 1..N
    BY <1>2, <1>3
  <2>2. ui.viewed[s] \subseteq 1..Len(all)
    BY <1>1, <2>1
  <2>3. CASE s \in Range(sensors) /\ sample[s] # NotMeasured
    <3>1. PICK i \in 1..Len(sensors) : s = sensors[i]
      BY <2>3 DEF Range
    <3>2. s \in DOMAIN ui.lastMeasurement_ /\ ui.lastMeasurement_[s] = sample[s]
      BY <1>4, <2>3, <3>1
    <3>3. N + 1 \in Is(s) /\ Is(s) \subseteq 1..(N + 1)
      BY <1>1, <1>5, <2>1, <2>2, <2>3
    <3>4. Max(Is(s)) = N + 1
      <4>. DEFINE S == Is(s)
      <4>. HIDE DEF S
      <4>1. N + 1 \in S /\ S \subseteq 1..(N + 1) /\ 1 \in Int /\ N + 1 \in Int /\ S # {}
        BY <1>1, <3>3 DEF S
      <4>2. Max(S) \in S /\ \A y \in S : Max(S) >= y
        BY <4>1, MaxIs
      <4>3. Max(S) \in 1..(N + 1) /\ Max(S) >= N + 1
        BY <4>1, <4>2
      <4>4. Max(S) = N + 1
        BY <1>1, <4>3
      <4>. QED
        BY <4>4 DEF S
    <3>. QED
      BY <1>1, <2>2, <3>2, <3>3, <3>4
  <2>4. CASE s \notin Range(sensors) \/ sample[s] = NotMeasured
    <3>1. sample[s] = NotMeasured \/ \A i \in 1..Len(sensors) : sensors[i] # s
      BY <2>4 DEF Range
    <3>2. /\ s \in DOMAIN ui.lastMeasurement_ <=> s \in DOMAIN old.lastMeasurement_
          /\ s \in DOMAIN old.lastMeasurement_ => ui.lastMeasurement_[s] = old.lastMeasurement_[s]
      BY <1>3, <1>4, <3>1
    <3>3. Is(s) = Was(s)
      <4>1. \A k \in old.viewed[s] : all[k] = samples[k]
        BY <1>1, <2>1
      <4>2. N + 1 \in Is(s) => s \in Range(sensors) /\ sample[s] # NotMeasured
        <5>1. N + 1 \notin old.viewed[s]
          BY <1>1, <2>1
        <5>. QED
          BY <1>1, <1>5, <2>1, <5>1
      <4>. QED
        BY <1>5, <2>1, <2>4, <4>1, <4>2
    <3>4. Was(s) # {} => all[Max(Was(s))] = samples[Max(Was(s))]
      <4>. DEFINE S == Was(s)
      <4>1. S \subseteq 1..N
        BY <1>5, <2>1
      <4>. HIDE DEF S
      <4>2. 1 \in Int /\ N \in Int
        BY <1>1
      <4>3. S # {} => Max(S) \in 1..N
        BY <4>1, <4>2, MaxIs
      <4>4. S # {} => all[Max(S)] = samples[Max(S)]
        BY <1>1, <4>3
      <4>. QED
        BY <4>4 DEF S
    <3>. QED
      BY <1>2, <2>2, <3>2, <3>3, <3>4
  <2>. QED
    BY <2>3, <2>4
<1>7. DOMAIN ui.viewed = Sensors
  BY <1>3
<1>. QED
  BY <1>3, <1>6, <1>7 DEF ViewKeeps, all, Is

\* What is shown of a sensor is what is remembered of it.
LEMMA ShownIsRemembered ==
  ASSUME NEW old, NEW empty, NEW ui, NEW sensors, NEW samples, NEW sample,
         Redrawn(old, empty, ui, sensors, samples, sample), NEW i \in 1..Len(sensors)
  PROVE  LET s == sensors[i]
         IN  /\ ui.shown[i].sensor = s /\ ui.shown[i].color = ui.colorMap_[s] /\ s \in DOMAIN ui.colorMap_
             /\ ui.shown[i].value = (IF s \in DOMAIN ui.lastMeasurement_ THEN ui.lastMeasurement_[s]
                                     ELSE UserData(s).minimumValue) * Multiplier[s]
<1>. DEFINE s == sensors[i]
            v == ValueShown(empty, s, sample)
<1>1. /\ ui.shown[i].sensor = s /\ ui.shown[i].value = v * Multiplier[s]
      /\ s \in DOMAIN ui.colorMap_ /\ ui.shown[i].color = ui.colorMap_[s]
      /\ sample[s] # NotMeasured => s \in DOMAIN ui.lastMeasurement_ /\ ui.lastMeasurement_[s] = sample[s]
      /\ sample[s] = NotMeasured =>
           /\ s \in DOMAIN ui.lastMeasurement_ <=> s \in DOMAIN empty.lastMeasurement_
           /\ s \in DOMAIN empty.lastMeasurement_ => ui.lastMeasurement_[s] = empty.lastMeasurement_[s]
  BY DEF Redrawn, Viewed
<1>2. v = IF s \in DOMAIN ui.lastMeasurement_ THEN ui.lastMeasurement_[s] ELSE UserData(s).minimumValue
  BY <1>1 DEF ValueShown
<1>. HIDE DEF v, s
<1>. QED
  BY <1>1, <1>2 DEF s

\* Such a view shows the last that was seen.
LEMMA LatestIsShown ==
  ASSUME NEW samples, NEW sample, NEW old, NEW empty, NEW ui, NEW sensors,
         Redrawn(old, empty, ui, sensors, samples, sample), sensors \in Seq(Sensors),
         NEW all, ViewKeeps(ui, all),
         NEW chosen \in LivePipelineSensors(all),
         (ShowInLive \cap Range(SystemSensors)) \cup chosen \subseteq Range(sensors),
         Cardinality(Range(sensors)) = Len(sensors)
  PROVE  ShowsLastSeen(ui, all)
<1>. DEFINE Shown == {e.sensor : e \in Range(ui.shown)}
            colors == DOMAIN ui.colorMap_
<1>1. ui.shown \in Seq(Range(ui.shown)) /\ Len(ui.shown) = Len(sensors)
  BY DEF Redrawn, Viewed
<1>2. /\ \A s \in Sensors :
           /\ s \in DOMAIN ui.lastMeasurement_ <=> SeenOf(ui, all, s) # {}
           /\ SeenOf(ui, all, s) # {} => ui.lastMeasurement_[s] = all[Max(SeenOf(ui, all, s))][s]
      /\ ColorsOK(ui)
  BY DEF ViewKeeps
<1>3. \A e \in Range(ui.shown) : \E i \in 1..Len(sensors) : e = ui.shown[i]
  BY <1>1 DEF Range
<1>4. \A i \in 1..Len(sensors) :
        /\ sensors[i] \in Range(sensors) /\ sensors[i] \in Sensors
        /\ ui.shown[i].sensor = sensors[i] /\ ui.shown[i].color = ui.colorMap_[sensors[i]]
        /\ sensors[i] \in colors
        /\ ui.shown[i].value = (IF sensors[i] \in DOMAIN ui.lastMeasurement_ THEN ui.lastMeasurement_[sensors[i]]
                                ELSE UserData(sensors[i]).minimumValue) * Multiplier[sensors[i]]
  BY ShownIsRemembered DEF Range
<1>5. \A e \in Range(ui.shown) :
        /\ e.sensor \in Range(sensors) /\ e.sensor \in Sensors
        /\ e.sensor \in colors /\ e.color = ui.colorMap_[e.sensor]
        /\ e.value = (IF e.sensor \in DOMAIN ui.lastMeasurement_ THEN ui.lastMeasurement_[e.sensor]
                      ELSE UserData(e.sensor).minimumValue) * Multiplier[e.sensor]
  BY <1>3, <1>4
<1>6. Shown = Range(sensors)
  <2>1. ASSUME NEW s \in Range(sensors) PROVE s \in Shown
    <3>1. PICK i \in 1..Len(sensors) : s = sensors[i]
      BY DEF Range
    <3>2. ui.shown[i] \in Range(ui.shown)
      BY <1>1 DEF Range
    <3>. QED
      BY <1>4, <3>1, <3>2
  <2>. QED
    BY <1>5, <2>1
<1>7. ASSUME NEW s \in Known(all)
      PROVE  \E t \in Shown \cap Known(all) :
               ProcessId[t] = ProcessId[s] /\ MeasureType[t] = MeasureType[s]
  <2>. DEFINE same == {t \in chosen : ProcessId[t] = ProcessId[s] /\ MeasureType[t] = MeasureType[s]}
  <2>1. chosen \subseteq Known(all) /\ Cardinality(same) = 1
    BY DEF LivePipelineSensors
  <2>2. same # {}
    <3>. HIDE DEF same
    <3>1. same = {} => Cardinality(same) = 0
      BY FS_EmptySet, Zenon
    <3>. QED
      BY <2>1, <3>1
  <2>. QED
    BY <1>6, <2>1, <2>2
<1>8. ASSUME NEW e \in Range(ui.shown)
      PROVE  LET seen == SeenOf(ui, all, e.sensor)
                 last == IF seen = {} THEN UserData(e.sensor).minimumValue ELSE all[Max(seen)][e.sensor]
             IN  e.value = last * Multiplier[e.sensor]
  <2>. DEFINE s == e.sensor
              seen == SeenOf(ui, all, s)
              least == UserData(s).minimumValue
  <2>1. /\ s \in DOMAIN ui.lastMeasurement_ <=> seen # {}
        /\ seen # {} => ui.lastMeasurement_[s] = all[Max(seen)][s]
        /\ e.value = (IF s \in DOMAIN ui.lastMeasurement_ THEN ui.lastMeasurement_[s] ELSE least) * Multiplier[s]
    BY <1>2, <1>5
  <2>. HIDE DEF seen, least, s
  <2>2. e.value = (IF seen = {} THEN least ELSE all[Max(seen)][s]) * Multiplier[s]
    BY <2>1
  <2>. QED
    BY <2>2 DEF seen, least, s
<1>9. ASSUME NEW e \in Range(ui.shown), NEW f \in Range(ui.shown), e.color = f.color
      PROVE  e.sensor = f.sensor \/ Cardinality(colors) > MaxColor
  <2>1. Cardinality(colors) \in Nat /\ MaxColor \in Nat
    BY <1>2, FS_CardinalityType, ToolAssumption DEF ColorsOK
  <2>2. Cardinality(colors) <= MaxColor =>
          \A s, t \in colors : ui.colorMap_[s] = ui.colorMap_[t] => s = t
    BY <1>2 DEF ColorsOK
  <2>. QED
    BY <1>5, <1>9, <2>1, <2>2
<1>10. Cardinality(Shown) = Len(ui.shown) /\ ShowInLive \cap Range(SystemSensors) \subseteq Shown
  BY <1>1, <1>6
<1>. QED
  BY <1>7, <1>8, <1>9, <1>10 DEF ShowsLastSeen

\* The view keeps showing the last it has seen.
LEMMA LiveStep ==
  ASSUME IInv, [Next]_toolVars
  PROVE  LiveInv'
<1>0. LiveInv /\ FreshInv /\ data \in Seq(Samples) /\ ViewOK(live)
  BY DEF IInv, TypeInv
<1>1. ASSUME UNCHANGED <<data, config_, live>> PROVE LiveInv'
  <2>1. ShowsLastSeen(live, data)' <=> ShowsLastSeen(live, data)
    BY <1>1 DEF ShowsLastSeen, SeenOf, UserData
  <2>. QED
    BY <1>0, <1>1, <2>1 DEF LiveInv, LiveShowsLastSeen
<1>2. CASE UNCHANGED toolVars \/ VerifyInput \/ InitializeSensors \/ Return \/ Terminating
  BY <1>1, <1>2 DEF toolVars, vars, exportVars, VerifyInput, InitializeSensors, Return, Terminating
<1>3. CASE ExecuteExport \/ (Analyze /\ UNCHANGED exportVars)
  BY <1>1, <1>3 DEF ExecuteExport, vars, exportVars, Analyze, AnalyzeData, SetThresholdResults, ExportData
<1>4. CASE ParseConfig
  <2>1. data = <<>> /\ UNCHANGED <<data, live>>
    BY <1>0, <1>4 DEF ParseConfig, exportVars, FreshInv, Begun
  <2>. QED
    BY <1>0, <2>1 DEF LiveInv, LiveShowsLastSeen
<1>5. CASE MeasureAndShow
  <2>1. UNCHANGED config_ /\ \E sample \in Samples : data' = Append(data, sample)
    BY <1>5 DEF MeasureAndShow, Measure
  <2>2. PICK sample \in Samples : data' = Append(data, sample)
    BY <2>1
  <2>3. data' # <<>> /\ Last(data') = sample /\ Len(data') = Len(data) + 1
    BY <1>0, <2>2 DEF Last
  <2>4. CASE ~config_.settings.enableLiveMode
    BY <2>1, <2>3, <2>4 DEF LiveInv, LiveShowsLastSeen
  <2>5. CASE config_.settings.enableLiveMode
    <3>. DEFINE Counted(sensors) == [s \in Sensors |-> IF s \in Range(sensors) THEN live.viewed[s] \cup {Len(data')}
                                                     ELSE live.viewed[s]]
    <3>1. PICK chosen \in LivePipelineSensors(data') :
            live' = ViewOf([live EXCEPT !.shown = <<>>, !.viewed = Counted(LiveSensors(chosen))],
                           LiveSensors(chosen), Last(data'))
      BY <1>5, <2>5, Zenon DEF MeasureAndShow, AddMeasurements
    <3>. DEFINE sensors == LiveSensors(chosen)
                counted == Counted(sensors)
                empty == [live EXCEPT !.shown = <<>>, !.viewed = counted]
    <3>2. live' = ViewOf(empty, sensors, sample)
      BY <2>3, <3>1
    <3>3. /\ sensors \in Seq(Sensors)
          /\ (ShowInLive \cap Range(SystemSensors)) \cup chosen \subseteq Range(sensors)
          /\ Cardinality(Range(sensors)) = Len(sensors)
      BY LiveSensorsAre
    <3>4. ViewKeeps(live, data)
      BY <1>0, <2>5 DEF LiveInv
    <3>5. counted = [s \in Sensors |-> IF s \in Range(sensors) THEN live.viewed[s] \cup {Len(data) + 1}
                                     ELSE live.viewed[s]]
      BY <2>3
    <3>. HIDE DEF sensors, counted
    <3>6. /\ empty.lastMeasurement_ = live.lastMeasurement_ /\ empty.colorMap_ = live.colorMap_
          /\ empty.currentColor_ = live.currentColor_ /\ empty.viewed = counted /\ empty.shown = <<>>
          /\ empty = [f \in {"lastMeasurement_", "colorMap_", "currentColor_", "shown", "viewed"} |-> empty[f]]
      <4>1. live = [f \in {"lastMeasurement_", "colorMap_", "currentColor_", "shown", "viewed"} |-> live[f]]
        BY <1>0 DEF ViewOK
      <4>. QED
        BY <4>1
    <3>. HIDE DEF empty
    <3>7. ViewOK(empty)
      BY <1>0, <3>6 DEF ViewOK
    <3>8. ColorsOK(empty)
      BY <3>4, <3>6 DEF ViewKeeps, ColorsOK
    <3>9. Len(sensors) \in Nat
      BY <3>3
    <3>10. Viewed(Len(sensors), empty, live', sensors, sample)
      BY <3>2, <3>6, <3>7, <3>8, <3>9, AllViewed
    <3>11. Redrawn(live, empty, live', sensors, data, sample)
      BY <3>5, <3>6, <3>10 DEF Redrawn
    <3>12. ViewKeeps(live', data')
      BY <1>0, <2>2, <3>3, <3>4, <3>11, ViewIsKept
    <3>13. ShowsLastSeen(live', data')
      BY <3>3, <3>11, <3>12, LatestIsShown
    <3>14. ShowsLastSeen(live, data)' <=> ShowsLastSeen(live', data')
      BY <2>1 DEF ShowsLastSeen, SeenOf, UserData
    <3>. QED
      BY <2>1, <2>5, <3>12, <3>13, <3>14 DEF LiveInv, LiveShowsLastSeen
  <2>. QED
    BY <2>4, <2>5
<1>. QED
  BY <1>2, <1>3, <1>4, <1>5 DEF Next

-----------------------------------------------------------------------------
(* Graphs *)

\* A sensor is of the class it is said to be of.
LEMMA ClassOf ==
  ASSUME NEW s \in Sensors
  PROVE  GetClassification(s) \in Classes /\ s \in Range(GetSensors(GetClassification(s)))
<1>1. \E c \in Classes : s \in Range(GetSensors(c))
  BY SensorsOfClasses DEF Classes
<1>. QED
  BY <1>1, Zenon DEF GetClassification

\* What is strongly correlated varies, and what varies is measured itself.
LEMMA StrongOnes ==
  ASSUME IInv, NEW c \in Range(correlations), MustBeDrawn(c)
  PROVE  /\ IsStrong(c)
         /\ c.sensor1 \in Sensors \cap MeasuredRaw /\ c.sensor2 \in Sensors \cap MeasuredRaw
<1>1. PICK p \in Sensors, r \in Sensors : c = CorrelationResult(p, r)
  BY CorrelationsAre
<1>2. data \in Seq(Samples)
  BY DEF IInv, TypeInv
<1>3. c.sensor1 = p /\ c.sensor2 = r
  BY <1>1 DEF CorrelationResult
<1>. DEFINE a == c.correlation.spreadU
            b == c.correlation.spreadV
<1>4. a \in Int /\ b \in Int
  <2>. DEFINE u == ConvertToRaw(Pair(p, r)[1])
              v == ConvertToRaw(Pair(p, r)[2])
  <2>1. u \in Seq(Int) /\ v \in Seq(Int)
    BY <1>2, PairOfInts
  <2>2. a = Spread(u, u) /\ b = Spread(v, v)
    BY <1>1 DEF CorrelationResult, GetCorrelationCoefficient
  <2>. HIDE DEF a, b, u, v
  <2>. QED
    BY <2>1, <2>2, SpreadOfOne
<1>5. a > 0 /\ b > 0
  BY DEF MustBeDrawn
<1>6. IsStrong(c)
  <2>1. 25 * c.correlation.numerator * c.correlation.numerator >= 16 * a * b
    BY DEF MustBeDrawn
  <2>2. a * b > 0
    <3>. HIDE DEF a, b
    <3>. QED
      BY <1>4, <1>5
  <2>. QED
    BY <2>1, <2>2 DEF IsStrong
<1>7. ASSUME NEW s \in Sensors, s \notin MeasuredRaw PROVE \A k \in 1..Len(data) : data[k][s] = NotMeasured
  BY <1>2, <1>7, ToolAssumption
<1>8. /\ (\A k \in 1..Len(data) : data[k][r] = NotMeasured) => a = 0
      /\ (\A k \in 1..Len(data) : data[k][p] = NotMeasured) => b = 0
  BY <1>1, <1>2, UnmeasuredIsFlat
<1>. HIDE DEF a, b
<1>9. p \in MeasuredRaw /\ r \in MeasuredRaw
  BY <1>4, <1>5, <1>7, <1>8
<1>. QED
  BY <1>3, <1>6, <1>9

\* The file of a class has a column for a sensor that is measured, which shows it.
LEMMA PlottedIs ==
  ASSUME IInv, NEW s \in Sensors \cap MeasuredRaw, NameIsUnique(s),
         FilesAreNew, Opens("csv", GetClassification(s))
  PROVE  /\ UserId[s] \in Range(csvFiles[GetClassification(s)].labels)
         /\ Curve(csvFiles[GetClassification(s)], UserId[s]) = MeasuredCurve(s)
<1>. DEFINE c == GetClassification(s)
<1>1. c \in Classes /\ s \in Range(GetSensors(c))
  BY ClassOf
<1>2. data \in Seq(Samples)
  BY DEF IInv, TypeInv
<1>. HIDE DEF c
<1>3. csvFiles[c] = CsvFile(c)
  BY <1>1 DEF FilesAreNew, c
<1>4. UserId[s] \in Range(CsvFile(c).labels) /\ Curve(CsvFile(c), UserId[s]) = MeasuredCurve(s)
  BY <1>1, <1>2, CurveIs
<1>. QED
  BY <1>3, <1>4 DEF c

\* One more graph leaves the others right.
LEMMA GraphOfOne ==
  ASSUME IInv, FilesAreNew,
         NEW c \in Range(correlations), NEW d \in Range(correlations), NEW drawn,
         c = d \/ GraphShows(drawn, d)
  PROVE  GraphShows(CreateGraph(drawn, c), d)
<1>. SUFFICES ASSUME MustBeDrawn(d)
              PROVE  LET after == CreateGraph(drawn, c)
                     IN  /\ Key(d) \in DOMAIN after
                         /\ after[Key(d)] = <<MeasuredCurve(d.sensor1), MeasuredCurve(d.sensor2)>>
  BY DEF GraphShows
<1>. DEFINE after == CreateGraph(drawn, c)
            Plotted(s) == Curve(csvFiles[GetClassification(s)], UserId[s])
            none == \/ \E s \in {c.sensor1, c.sensor2} :
                         UserId[s] \notin Range(csvFiles[GetClassification(s)].labels)
                    \/ ~Opens("graphs", "graphs")
            shown == <<Plotted(c.sensor1), Plotted(c.sensor2)>>
<1>1. IF none THEN after = drawn ELSE after = With(drawn, Key(c), shown)
  BY DEF CreateGraph, Key
<1>2. /\ NameIsUnique(d.sensor1) /\ NameIsUnique(d.sensor2)
      /\ d.sensor1 \in Sensors \cap MeasuredRaw /\ d.sensor2 \in Sensors \cap MeasuredRaw
      /\ Opens("csv", GetClassification(d.sensor1)) /\ Opens("csv", GetClassification(d.sensor2))
      /\ Opens("graphs", "graphs")
  BY StrongOnes DEF MustBeDrawn
<1>3. c.sensor1 \in Sensors /\ c.sensor2 \in Sensors
  BY CorrelationsAre DEF CorrelationResult
<1>4. /\ UserId[d.sensor1] \in Range(csvFiles[GetClassification(d.sensor1)].labels)
      /\ UserId[d.sensor2] \in Range(csvFiles[GetClassification(d.sensor2)].labels)
      /\ Plotted(d.sensor1) = MeasuredCurve(d.sensor1) /\ Plotted(d.sensor2) = MeasuredCurve(d.sensor2)
  BY <1>2, PlottedIs
<1>. HIDE DEF Plotted, after
<1>5. CASE Key(c) = Key(d)
  <2>1. c.sensor1 = d.sensor1 /\ c.sensor2 = d.sensor2
    BY <1>2, <1>3, <1>5 DEF Key, NameIsUnique
  <2>2. ~none
    BY <1>2, <1>4, <2>1
  <2>3. shown = <<MeasuredCurve(d.sensor1), MeasuredCurve(d.sensor2)>>
    BY <1>4, <2>1
  <2>. HIDE DEF none, shown
  <2>4. after = With(drawn, Key(d), shown)
    BY <1>1, <1>5, <2>2
  <2>5. Key(d) \in DOMAIN after /\ after[Key(d)] = shown
    BY <2>4 DEF With
  <2>. QED
    BY <2>3, <2>5 DEF after
<1>6. CASE Key(c) # Key(d)
  <2>1. GraphShows(drawn, d)
    BY <1>6
  <2>2. /\ Key(d) \in DOMAIN drawn
        /\ drawn[Key(d)] = <<MeasuredCurve(d.sensor1), MeasuredCurve(d.sensor2)>>
    BY <2>1 DEF GraphShows
  <2>. HIDE DEF none, shown
  <2>3. Key(d) \in DOMAIN after /\ after[Key(d)] = drawn[Key(d)]
    BY <1>1, <1>6, <2>2 DEF With
  <2>. QED
    BY <2>2, <2>3 DEF after
<1>. QED
  BY <1>5, <1>6

\* All graphs drawn of the files of this test show it.
LEMMA GraphsAreRight ==
  ASSUME IInv, FilesAreNew
  PROVE  \A k \in 1..Len(correlations) : GraphShows(Graphs, correlations[k])
<1>. DEFINE N == Len(correlations)
<1>0. N \in Nat /\ \A k \in 1..N : correlations[k] \in Range(correlations)
  BY CorrelationsAre DEF Range
<1>1. PICK f : /\ f = [i \in 0..N |-> IF i = 0 THEN graphs
                                      ELSE (IF IsStrong(correlations[i]) THEN CreateGraph(f[i - 1], correlations[i])
                                            ELSE f[i - 1])]
               /\ Graphs = f[N]
  BY <1>0, GraphsAreDefined, Zenon
<1>. HIDE DEF N
<1>. DEFINE S == {n \in Nat : n <= N => \A k \in 1..n : GraphShows(f[n], correlations[k])}
<1>2. 0 \in S
  OBVIOUS
<1>3. ASSUME NEW n \in Nat, n \in S PROVE n + 1 \in S
  <2>. SUFFICES ASSUME n + 1 <= N, NEW k \in 1..(n + 1) PROVE GraphShows(f[n + 1], correlations[k])
    OBVIOUS
  <2>. DEFINE c == correlations[n + 1]
              d == correlations[k]
  <2>1. n + 1 \in 0..N /\ n + 1 # 0 /\ (n + 1) - 1 = n /\ n <= N /\ k \in 1..N /\ n + 1 \in 1..N
    BY <1>0
  <2>2. f[n + 1] = IF IsStrong(c) THEN CreateGraph(f[n], c) ELSE f[n]
    BY <1>1, <2>1
  <2>3. k = n + 1 \/ GraphShows(f[n], d)
    <3>1. k = n + 1 \/ k \in 1..n
      OBVIOUS
    <3>. QED
      BY <1>3, <2>1, <3>1
  <2>4. c \in Range(correlations) /\ d \in Range(correlations)
    BY <1>0, <2>1
  <2>5. c = d \/ GraphShows(f[n], d)
    BY <2>3
  <2>. HIDE DEF c, d
  <2>6. CASE IsStrong(c)
    <3>1. GraphShows(CreateGraph(f[n], c), d)
      BY <2>4, <2>5, GraphOfOne
    <3>. QED
      BY <2>2, <2>6, <3>1 DEF d
  <2>7. CASE ~IsStrong(c)
    <3>1. c = d => GraphShows(f[n], d)
      BY <2>4, <2>7, StrongOnes DEF GraphShows
    <3>. QED
      BY <2>2, <2>5, <2>7, <3>1 DEF d
  <2>. QED
    BY <2>6, <2>7
<1>4. N \in S
  <2>. HIDE DEF S
  <2>. QED
    BY <1>0, <1>2, <1>3, SetInduction
<1>. QED
  BY <1>0, <1>1, <1>4 DEF N

\* Once drawn of files of this test, graphs keep showing it.
LEMMA GraphStep ==
  ASSUME IInv, [Next]_toolVars
  PROVE  GraphInv'
<1>. DEFINE Shown(drawn) == \A k \in 1..Len(correlations) : GraphShows(drawn, correlations[k])
            Drawn(i) == Exported[i].exportType = "graphs" /\ Exported[i].exportEnabled /\ EnabledBefore("csv", i)
<1>0. GraphInv /\ FreshInv /\ readOnly' = readOnly
  BY ReadOnlyStays DEF IInv
<1>1. ASSUME UNCHANGED <<config_, data, correlations>>,
             \A i \in 1..Len(Exported) : i < nextExport' /\ Drawn(i) => Shown(graphs')
      PROVE  GraphInv'
  <2>1. Exported' = Exported /\ \A i : EnabledBefore("csv", i)' <=> EnabledBefore("csv", i)
    BY <1>1 DEF Exported, EnabledBefore
  <2>2. Shown(graphs') => (\A k \in 1..Len(correlations) : GraphShows(graphs, correlations[k]))'
    <3>1. \A d : MustBeDrawn(d)' <=> MustBeDrawn(d)
      BY <1>0 DEF MustBeDrawn, Opens
    <3>2. \A s : MeasuredCurve(s)' = MeasuredCurve(s)
      BY <1>1 DEF MeasuredCurve
    <3>. QED
      BY <1>1, <3>1, <3>2 DEF GraphShows, Key
  <2>. HIDE DEF Shown
  <2>. QED
    BY <1>1, <2>1, <2>2 DEF GraphInv
<1>2. CASE UNCHANGED <<config_, data, correlations, nextExport, graphs>> /\ pc \in Analyzed
  BY <1>0, <1>1, <1>2 DEF GraphInv
<1>3. CASE UNCHANGED toolVars
  <2>1. UNCHANGED <<pc, config_, data, correlations, nextExport, graphs>>
    BY <1>3 DEF toolVars, vars, exportVars
  <2>. QED
    BY <1>2, <2>1 DEF GraphInv
<1>4. CASE Next /\ pc \notin Analyzed
  <2>1. CASE pc' \notin Analyzed
    BY <2>1 DEF GraphInv
  <2>2. CASE pc' \in Analyzed
    <3>1. nextExport' = 1
      <4>1. ~ExecuteExport
        BY <1>4 DEF ExecuteExport, AtExport, Analyzed
      <4>2. nextExport = 1
        BY <1>0, <1>4 DEF FreshInv, NothingWritten
      <4>. QED
        BY <1>4, <4>1, <4>2, FilesStay
    <3>2. \A i \in 1..Len(Exported') : ~(i < 1)
      OBVIOUS
    <3>. QED
      BY <3>1, <3>2 DEF GraphInv
  <2>. QED
    BY <2>1, <2>2
<1>5. CASE ExecuteExport
  <2>. DEFINE e == Exported[nextExport]
  <2>1. /\ pc = "export" /\ pc \in Analyzed /\ nextExport' = nextExport + 1
        /\ UNCHANGED <<config_, data, correlations>>
    BY <1>5 DEF ExecuteExport, AtExport, vars, Analyzed
  <2>2. IF e.exportEnabled THEN FullExport(e) ELSE UNCHANGED <<csvFiles, jsonFiles, graphs, summary>>
    BY <1>5 DEF ExecuteExport, Exported
  <2>3. /\ nextExport \in Nat \ {0}
        /\ \A j \in 1..Len(Exported) : j < nextExport /\ Exported[j].exportEnabled => Written(Exported[j])
    BY <2>1 DEF IInv, ExportInv
  <2>4. ASSUME NEW i \in 1..Len(Exported), i < nextExport + 1, Drawn(i) PROVE Shown(graphs')
    <3>1. CASE graphs' = graphs /\ i < nextExport
      BY <1>0, <2>1, <2>4, <3>1 DEF GraphInv
    <3>2. CASE graphs' = Graphs
      <4>1. PICK j \in 1..(i - 1) : Exported[j].exportType = "csv" /\ Exported[j].exportEnabled
        BY <2>4 DEF EnabledBefore
      <4>2. j \in 1..Len(Exported) /\ j < nextExport
        BY <2>3, <2>4
      <4>3. Written(Exported[j])
        BY <2>3, <4>1, <4>2
      <4>4. FilesAreNew
        BY <4>1, <4>3 DEF Written, FilesAreNew
      <4>. QED
        BY <3>2, <4>4, GraphsAreRight
    <3>3. graphs' = Graphs \/ (graphs' = graphs /\ i # nextExport)
      BY <2>2, <2>4 DEF FullExport
    <3>4. i # nextExport => i < nextExport
      BY <2>3, <2>4
    <3>. QED
      BY <3>1, <3>2, <3>3, <3>4
  <2>. HIDE DEF Shown, Drawn
  <2>. QED
    BY <1>1, <2>1, <2>4
<1>6. CASE Next /\ pc \in Analyzed /\ ~ExecuteExport
  <2>1. UNCHANGED <<config_, data, correlations, nextExport, graphs>>
    BY <1>6, ResultsStay, FilesStay
  <2>. QED
    BY <1>2, <1>6, <2>1
<1>. QED
  BY <1>3, <1>4, <1>5, <1>6

-----------------------------------------------------------------------------
(* The summary *)

\* What is named for its thresholds is what exceeded one.
LEMMA NamedAreMarked ==
  ASSUME IInv, pc \in Measured
  PROVE  PrintThresholds = {s \in Sensors : thresholdExceeded[s]}
<1>. SUFFICES ASSUME NEW s \in Sensors, thresholdExceeded[s] PROVE s \in FindSensor(ProcessId[s], UserId[s])
  BY DEF PrintThresholds
<1>1. PICK t : Exceeds(s, t)
  BY DEF IInv, ThresholdInv
<1>2. s \in FindSensor(t.processId, t.name)
  BY <1>1 DEF Exceeds
<1>3. ProcessId[s] = t.processId /\ UserId[s] = t.name
  BY <1>2 DEF FindSensor
<1>. QED
  BY <1>2, <1>3

\* The rows of a file are as long as its labels.
LEMMA RowsAreFull ==
  ASSUME IInv, NEW c \in Classes, NEW k \in DOMAIN csvFiles[c].rows
  PROVE  Len(csvFiles[c].rows[k]) = Len(csvFiles[c].labels)
<1>1. csvFiles[c] \in {NoFile, [labels |-> ParseLabel(c), rows |-> <<>>], CsvFile(c)}
  BY DEF IInv, FilesInv
<1>2. csvFiles[c].rows # <<>>
  OBVIOUS
<1>3. NoFile.rows = <<>> /\ [labels |-> ParseLabel(c), rows |-> <<>>].rows = <<>>
  BY DEF NoFile
<1>4. csvFiles[c] = CsvFile(c)
  BY <1>1, <1>2, <1>3, Zenon
<1>5. /\ csvFiles[c].labels = ParseLabel(c)
      /\ csvFiles[c].rows[k] = ParseData(c, k)
  BY <1>4 DEF CsvFile
<1>6. Len(ParseLabel(c)) = Len(ParseData(c, k))
  BY RowIs
<1>. QED
  BY <1>5, <1>6

\* The cells of a column are the datapoints of its sensor, multiplied.
LEMMA CellsAre ==
  ASSUME data \in Seq(Samples), NEW c \in Classes, NEW i \in DOMAIN RawSensors(c),
         Members[RawSensors(c)[i]] = {RawSensors(c)[i]}
  PROVE  LET s == RawSensors(c)[i]
             rows == CsvFile(c).rows
             column == [k \in DOMAIN rows |-> rows[k][i + 1]]
             cells == Selected(column, Range(column) \ {NotMeasured})
             v == GetDatapoints(s)
         IN  /\ v \in Seq(Int) /\ cells \in Seq(Int) /\ Len(cells) = Len(v)
             /\ Sum(cells) = Multiplier[s] * Sum(v)
<1>. DEFINE s == RawSensors(c)[i]
            rows == CsvFile(c).rows
            column == [k \in DOMAIN rows |-> rows[k][i + 1]]
            set == Range(column) \ {NotMeasured}
            N == Len(data)
<1>1. N \in Nat /\ DOMAIN data = 1..N /\ \A k \in 1..N : data[k] \in Samples
  OBVIOUS
<1>2. DOMAIN rows = 1..N /\ \A k \in 1..N : rows[k] = ParseData(c, k)
  BY <1>1 DEF CsvFile
<1>3. i \in 1..Len(RawSensors(c)) /\ s \in Sensors
  <2>1. RawSensors(c) \in Seq(Sensors \cap MeasuredRaw)
    BY RowIs
  <2>. DEFINE raw == RawSensors(c)
  <2>. HIDE DEF raw
  <2>2. i \in 1..Len(raw) /\ raw[i] \in Sensors
    BY <2>1 DEF raw
  <2>. QED
    BY <2>2 DEF raw
<1>4. \A k \in 1..N : rows[k][i + 1] = Cell(data[k], s)
  BY <1>2, <1>3, RowIs
<1>. HIDE DEF rows, s, N
<1>5. Len(column) = N /\ DOMAIN column = 1..N /\ \A k \in 1..N : column[k] = Cell(data[k], s)
  BY <1>1, <1>2, <1>4
<1>. HIDE DEF column
<1>6. ASSUME NEW k \in 1..N
      PROVE  /\ column[k] \in set <=> data[k][s] # NotMeasured
             /\ data[k][s] # NotMeasured => column[k] = data[k][s] * Multiplier[s]
  <2>1. column[k] \in Range(column)
    BY <1>5 DEF Range
  <2>2. /\ Cell(data[k], s) = NotMeasured <=> data[k][s] = NotMeasured
        /\ data[k][s] # NotMeasured => Cell(data[k], s) = data[k][s] * Multiplier[s]
    BY <1>1, <1>3, CellIs
  <2>. QED
    BY <1>5, <2>1, <2>2
<1>. HIDE DEF set
<1>7. LET cells == Selected(column, set)
          v == GetDatapoints(s)
      IN  /\ v \in Seq(Int) /\ cells \in Seq(Int) /\ Len(cells) = Len(v)
          /\ Sum(cells) = Multiplier[s] * Sum(v)
  <2>1. Members[s] = {s}
    BY DEF s
  <2>. QED
    BY <1>3, <1>5, <1>6, <2>1, ColumnIs DEF N
<1>. QED
  BY <1>7 DEF set, column, rows, s

\* What is printed of a sensor is its average, multiplied twice.
LEMMA PrintedIs ==
  ASSUME NEW s
  PROVE  LET v == GetDatapoints(s)
             q == Multiplier[s]
         IN  PrintValue(s) = IF v = <<>> THEN <<>> ELSE <<q * (q * Sum(v)), Len(v)>>
<1>. DEFINE v == GetDatapoints(s)
<1>1. CASE v = <<>>
  BY <1>1 DEF PrintValue, GetSensorData
<1>2. CASE v # <<>>
  <2>. DEFINE d == [min |-> Times(Multiplier[s], GetMin(s, v)), max |-> Times(Multiplier[s], GetMax(s, v)),
                    average |-> Times(Multiplier[s], GetAverage(v)),
                    median |-> Times(Multiplier[s], GetMedian(v))]
  <2>1. GetSensorData(s) = d
    BY <1>2 DEF GetSensorData
  <2>2. "average" \in DOMAIN d /\ d.average = Times(Multiplier[s], GetAverage(v))
    OBVIOUS
  <2>. HIDE DEF d, v
  <2>3. d # <<>>
    BY <2>2
  <2>4. PrintValue(s) = Times(Multiplier[s], Times(Multiplier[s], GetAverage(v)))
    BY <2>1, <2>2, <2>3 DEF PrintValue
  <2>. QED
    BY <1>2, <2>4 DEF Times, GetAverage, v
<1>. QED
  BY <1>1, <1>2

\* The average that is printed without a multiplier is that of the cells.
LEMMA AveragesAgree ==
  ASSUME NEW q \in Int, NEW v \in Seq(Int), NEW cells \in Seq(Int), Len(cells) = Len(v), Sum(cells) = q * Sum(v)
  PROVE  /\ v = <<>> <=> cells = <<>>
         /\ q = 1 => (q * (q * Sum(v))) * Len(cells) = Sum(cells) * Len(v)
<1>1. v = <<>> <=> cells = <<>>
  OBVIOUS
<1>. DEFINE n == Len(v) t == Sum(v) r == Sum(cells)
<1>2. n \in Int /\ t \in Int /\ r = q * t /\ Len(cells) = n
  BY PartialSums
<1>. HIDE DEF n, t, r
<1>3. q = 1 => (q * (q * t)) * n = r * n
  BY <1>2
<1>. QED
  BY <1>1, <1>2, <1>3 DEF n, t, r

\* The summary and the files of a test agree.
LEMMA SummaryAgrees ==
  ASSUME IInv, pc = "returned", summary # <<>>
  PROVE  /\ \A c \in Classes \ {x \in Classes : csvFiles[x] = NoFile} :
              \A k \in DOMAIN csvFiles[c].rows : Len(csvFiles[c].rows[k]) = Len(csvFiles[c].labels)
         /\ \A c \in Classes : \A i \in DOMAIN RawSensors(c) :
              LET s == RawSensors(c)[i]
                  file == csvFiles[c]
                  column == [k \in DOMAIN file.rows |-> file.rows[k][i + 1]]
                  cells == Selected(column, Range(column) \ {NotMeasured})
                  printed == summary.averages[s]
              IN  (Members[s] = {s} /\ s \in DOMAIN summary.averages
                     /\ EnabledBefore("csv", Len(Exported) + 1) /\ Opens("csv", c)) =>
                    /\ printed = <<>> <=> cells = <<>>
                    /\ printed # <<>> /\ Multiplier[s] = 1 =>
                         printed[1] * Len(cells) = Sum(cells) * printed[2]
         /\ summary.thresholds = {s \in Sensors : thresholdExceeded[s]}
<1>1. pc \in Measured /\ pc \in Analyzed /\ pc \in Begun
  BY DEF Measured, Analyzed, Begun
<1>2. summary = Summary
  BY DEF IInv, FilesInv
<1>3. summary.thresholds = PrintThresholds /\ summary.averages = PrintSystemSummary
  BY <1>2 DEF Summary
<1>4. ASSUME NEW c \in Classes, NEW i \in DOMAIN RawSensors(c),
             Members[RawSensors(c)[i]] = {RawSensors(c)[i]}, RawSensors(c)[i] \in DOMAIN summary.averages,
             EnabledBefore("csv", Len(Exported) + 1), Opens("csv", c)
      PROVE  LET s == RawSensors(c)[i]
                 file == csvFiles[c]
                 column == [k \in DOMAIN file.rows |-> file.rows[k][i + 1]]
                 cells == Selected(column, Range(column) \ {NotMeasured})
                 printed == summary.averages[s]
             IN  /\ printed = <<>> <=> cells = <<>>
                 /\ printed # <<>> /\ Multiplier[s] = 1 =>
                      printed[1] * Len(cells) = Sum(cells) * printed[2]
  <2>1. Exported \in Seq(Range(Exported))
    BY <1>1, ConfigIsRead DEF Exported
  <2>2. PICK j \in 1..Len(Exported) : Exported[j].exportType = "csv" /\ Exported[j].exportEnabled
    <3>1. Len(Exported) \in Nat
      BY <2>1
    <3>. QED
      BY <1>4, <3>1 DEF EnabledBefore
  <2>3. nextExport \in Nat /\ Len(Exported) \in Nat /\ nextExport > Len(Exported)
    BY <1>1, <2>1 DEF IInv, ExportInv
  <2>4. Written(Exported[j])
    <3>1. j < nextExport
      BY <2>3
    <3>. QED
      BY <1>1, <2>2, <3>1 DEF IInv, ExportInv
  <2>5. csvFiles[c] = CsvFile(c)
    BY <1>4, <2>2, <2>4 DEF Written
  <2>. DEFINE s == RawSensors(c)[i]
              rows == CsvFile(c).rows
              column == [k \in DOMAIN rows |-> rows[k][i + 1]]
              cells == Selected(column, Range(column) \ {NotMeasured})
              v == GetDatapoints(s)
              q == Multiplier[s]
              printed == summary.averages[s]
  <2>6. data \in Seq(Samples)
    BY DEF IInv, TypeInv
  <2>7. v \in Seq(Int) /\ cells \in Seq(Int) /\ Len(cells) = Len(v) /\ Sum(cells) = q * Sum(v)
    BY <1>4, <2>6, CellsAre
  <2>8. q \in Int
    <3>1. RawSensors(c) \in Seq(Sensors \cap MeasuredRaw)
      BY RowIs
    <3>. DEFINE raw == RawSensors(c)
    <3>2. raw[i] \in Sensors
      <4>. HIDE DEF raw
      <4>. QED
        BY <1>4, <3>1 DEF raw
    <3>. QED
      BY <3>2, AnalysisAssumption
  <2>9. printed = IF v = <<>> THEN <<>> ELSE <<q * (q * Sum(v)), Len(v)>>
    <3>1. printed = PrintValue(s)
      BY <1>3, <1>4 DEF PrintSystemSummary
    <3>. QED
      BY <3>1, PrintedIs
  <2>. HIDE DEF v, q, cells
  <2>10. /\ v = <<>> <=> cells = <<>>
         /\ q = 1 => (q * (q * Sum(v))) * Len(cells) = Sum(cells) * Len(v)
    BY <2>7, <2>8, AveragesAgree
  <2>. HIDE DEF printed
  <2>11. /\ printed = <<>> <=> cells = <<>>
         /\ printed # <<>> /\ q = 1 => printed[1] * Len(cells) = Sum(cells) * printed[2]
    <3>1. CASE v = <<>>
      BY <2>9, <2>10, <3>1
    <3>2. CASE v # <<>>
      <4>. DEFINE a == q * (q * Sum(v)) b == Len(v)
      <4>1. printed = <<a, b>>
        BY <2>9, <3>2
      <4>. HIDE DEF a, b
      <4>2. printed[1] = a /\ printed[2] = b /\ printed # <<>>
        BY <4>1
      <4>. QED
        BY <2>10, <3>2, <4>2 DEF a, b
    <3>. QED
      BY <3>1, <3>2
  <2>. QED
    BY <2>5, <2>11 DEF printed, cells, q
<1>5. summary.thresholds = {s \in Sensors : thresholdExceeded[s]}
  BY <1>1, <1>3, NamedAreMarked
<1>6. \A c \in Classes \ {x \in Classes : csvFiles[x] = NoFile} :
        \A k \in DOMAIN csvFiles[c].rows : Len(csvFiles[c].rows[k]) = Len(csvFiles[c].labels)
  BY RowsAreFull
<1>. QED
  BY <1>4, <1>5, <1>6

-----------------------------------------------------------------------------
(* The theorems *)

\* The invariant holds in the beginning.
LEMMA InitIInv == Init => IInv
<1>. SUFFICES ASSUME Init PROVE IInv
  OBVIOUS
<1>0. /\ pc = "arguments" /\ options \in CommandLines
      /\ data = <<>> /\ correlations = <<>> /\ unchecked = {}
      /\ thresholdExceeded = [s \in Sensors |-> FALSE]
      /\ nextExport = 1 /\ jsonFiles = <<>> /\ graphs = <<>> /\ summary = <<>>
      /\ csvFiles \in {[c \in Classes |-> NoFile],
                       [c \in Classes |-> [labels |-> ParseLabel(c), rows |-> <<>>]]}
      /\ live = [lastMeasurement_ |-> <<>>, colorMap_ |-> <<>>, currentColor_ |-> 1, shown |-> <<>>,
                 viewed |-> [s \in Sensors |-> {}]]
  BY DEF Init, InitResults, InitExports
<1>1. ViewOK(live)
  <2>1. 1 \in 1..MaxColor
    BY ToolAssumption
  <2>2. /\ live.currentColor_ = 1 /\ live.lastMeasurement_ = <<>> /\ live.colorMap_ = <<>>
        /\ live = [f \in {"lastMeasurement_", "colorMap_", "currentColor_", "shown", "viewed"} |-> live[f]]
    BY <1>0
  <2>. QED
    BY <2>1, <2>2 DEF ViewOK
<1>2. \A c \in Range(correlations) : FALSE
  BY <1>0 DEF Range
<1>3. DOMAIN csvFiles = Classes /\ \A c \in Classes : csvFiles[c] # NoFile => csvFiles[c].rows = <<>>
  BY <1>0
<1>4. TypeInv
  <2>1. data \in Seq(Samples) /\ thresholdExceeded \in [Sensors -> BOOLEAN]
    BY <1>0
  <2>. QED
    BY <1>0, <1>1, <1>2, <1>3, <2>1 DEF TypeInv, TypeOK, ResultsTypeOK, ViewOK
<1>5. ArgsInv /\ ConfigInv
  BY <1>0 DEF ArgsInv, ConfigInv, Begun
<1>6. FreshInv
  BY <1>0, <1>3 DEF FreshInv, NothingWritten, Analyzed
<1>7. ThresholdInv /\ ExportInv /\ CorrelationInv /\ FilesInv /\ GraphInv
  BY <1>0 DEF ThresholdInv, ExportInv, CorrelationInv, FilesInv, GraphInv, Measured, Analyzed
<1>8. ColorsOK(live)
  <2>. DEFINE none == DOMAIN live.colorMap_
  <2>1. live.currentColor_ = 1 /\ none = {}
    BY <1>0
  <2>. HIDE DEF none
  <2>2. IsFiniteSet(none) /\ Cardinality(none) = 0
    BY <2>1, FS_EmptySet, Zenon
  <2>. QED
    BY <2>1, <2>2 DEF ColorsOK, none
<1>9. LiveInv
  <2>1. live.lastMeasurement_ = <<>> /\ live.viewed = [s \in Sensors |-> {}]
    BY <1>0
  <2>2. \A s \in Sensors : SeenOf(live, data, s) = {} /\ live.viewed[s] = {}
    BY <2>1 DEF SeenOf
  <2>3. ViewKeeps(live, data)
    <3>1. \A s : s \notin DOMAIN live.lastMeasurement_
      BY <2>1
    <3>2. DOMAIN live.viewed = Sensors
      BY <2>1
    <3>. QED
      BY <1>8, <2>2, <3>1, <3>2 DEF ViewKeeps
  <2>. QED
    BY <1>0, <2>3 DEF LiveInv, LiveShowsLastSeen
<1>. QED
  BY <1>4, <1>5, <1>6, <1>7, <1>9 DEF IInv

\* IInv is an invariant of the tool.
THEOREM Invariance == Spec => []IInv
<1>1. IInv /\ [Next]_toolVars => IInv'
  BY TypeStep, ArgsStep, ConfigStep, FreshStep, ThresholdStep, ExportStep, CorrelationStep, LiveStep,
     FilesStep, GraphStep DEF IInv
<1>. QED
  BY InitIInv, <1>1, PTL DEF Spec

\* The variables have the values the code can give them.
THEOREM TypeCorrect == Spec => []TypeOK
<1>1. IInv => TypeOK
  BY DEF IInv, TypeInv
<1>. QED
  BY Invariance, <1>1, PTL

\* Two sensors are correlated over the samples both have a value in (correlation.cpp,
\* RemoveNotMeasured), whatever was measured of either.
THEOREM CorrelatedInStep == Spec => []PairsAreSimultaneous
<1>1. IInv => PairsAreSimultaneous
  <2>. SUFFICES ASSUME IInv, NEW c \in Range(correlations), NEW v \in {c.of[1], c.of[2]}
                PROVE  /\ {v[i].sample : i \in DOMAIN v} =
                            {k \in DOMAIN data : Counts(c.sensor1, k) /\ Counts(c.sensor2, k)}
                       /\ \A i, j \in DOMAIN v : i < j => v[i].sample < v[j].sample
    BY DEF PairsAreSimultaneous
  <2>1. PICK p \in Sensors, r \in Sensors : c = CorrelationResult(p, r)
    BY CorrelationsAre
  <2>2. c.sensor1 = p /\ c.sensor2 = r /\ c.of = Pair(p, r)
    BY <2>1 DEF CorrelationResult
  <2>3. Len(data) \in Nat /\ DOMAIN data = 1..Len(data)
    BY SamplesAreListed DEF IInv
  <2>4. PICK X : v \in Seq(X) /\ InStep(v, {k \in 1..Len(data) : Counts(p, k) /\ Counts(r, k)})
    <3>1. \A w \in {Pair(p, r)[1], Pair(p, r)[2]} :
            \E X : w \in Seq(X) /\ InStep(w, {k \in 1..Len(data) : Counts(p, k) /\ Counts(r, k)})
      BY <2>3, PairInStep
    <3>. QED
      BY <2>2, <3>1
  <2>5. DOMAIN v = 1..Len(v)
    BY <2>4
  <2>. QED
    BY <2>2, <2>3, <2>4, <2>5 DEF InStep
<1>. QED
  BY Invariance, <1>1, PTL

\* The coefficient of two sensors that both vary is defined and between -1 and 1
\* (correlation.cpp, GetCorrelationCoefficient), whatever was measured and removed.
THEOREM CoefficientIsBounded == Spec => []CoefficientInRange
<1>1. IInv => CoefficientInRange
  <2>. SUFFICES ASSUME IInv, NEW c \in Range(correlations),
                       \E i, j \in DOMAIN c.of[1] : c.of[1][i].value # c.of[1][j].value,
                       \E i, j \in DOMAIN c.of[2] : c.of[2][i].value # c.of[2][j].value
                PROVE  /\ c.correlation.spreadU > 0 /\ c.correlation.spreadV > 0
                       /\ c.correlation.numerator * c.correlation.numerator
                            <= c.correlation.spreadU * c.correlation.spreadV
    BY DEF CoefficientInRange
  <2>1. PICK p \in Sensors, r \in Sensors : c = CorrelationResult(p, r)
    BY CorrelationsAre
  <2>2. data \in Seq(Samples)
    BY DEF IInv, TypeInv
  <2>. QED
    BY <2>1, <2>2, CoefficientIs
<1>. QED
  BY Invariance, <1>1, PTL

\* A sensor is marked if and only if it exceeded one of its thresholds, in whatever order
\* these are and the processes are looked at (perf_measurements.cpp, SetThresholdResults).
THEOREM MarksAreRight == Spec => []MarkedIfAnyThresholdExceeded
<1>1. IInv => MarkedIfAnyThresholdExceeded
  <2>. SUFFICES ASSUME IInv, pc = "export", NEW s \in Sensors
                PROVE  thresholdExceeded[s] <=>
                         \E t \in Range(config_.thresholds) :
                           s \in FindSensor(t.processId, t.name) /\ HandleThreshold(s, t)
    BY DEF MarkedIfAnyThresholdExceeded
  <2>1. thresholdExceeded[s] <=>
          \E t \in Range(config_.thresholds) : t.processId \notin unchecked /\ Exceeds(s, t)
    BY DEF IInv, ThresholdInv, Measured
  <2>2. unchecked = {}
    BY DEF IInv, ThresholdInv, Analyzed
  <2>. QED
    BY <2>1, <2>2 DEF Exceeds
<1>. QED
  BY Invariance, <1>1, PTL

\* A test that ends well was of the files named last, and of every enabled export what can
\* be opened is written, whatever others could not be; one that is refused or breaks off
\* leaves no result (main.cpp, input_handler.cpp, export.cpp, file_writer.cpp).
THEOREM DoneAsAsked == Spec => []EndsAsAsked
<1>1. IInv => EndsAsAsked
  <2>. SUFFICES ASSUME IInv PROVE EndsAsAsked
    OBVIOUS
  <2>1. ASSUME pc \in Begun
        PROVE  /\ \A i \in DOMAIN options : options[i].code \notin {"?", "h"}
               /\ config_ = SConfig(Files[LastArgument("c", "config", "")])
               /\ SensorConfig(Files[LastArgument("s", "sensors", "sensor_config.json")]) # Thrown
    <3>1. /\ options \in CommandLines
          /\ Parse(options).outcome = "correct" /\ userArguments_ = Parse(options).args
      BY <2>1 DEF IInv, ArgsInv
    <3>2. Len(options) \in Nat /\ DOMAIN options = 1..Len(options)
          /\ \A i \in 1..Len(options) : IsOption(options[i])
      BY <3>1, OptionsAreOptions
    <3>3. ParsedSoFar(options, Len(options), Parse(options))
      BY <3>2, ParseTakesLast
    <3>4. /\ \A i \in 1..Len(options) : options[i].code \notin {"?", "h"}
          /\ IsLast(options, Len(options), "c", "config", "", userArguments_.configFile)
          /\ IsLast(options, Len(options), "s", "sensors", "sensor_config.json", userArguments_.sensorInfoFile)
      BY <3>1, <3>3 DEF ParsedSoFar
    <3>5. /\ LastArgument("c", "config", "") = userArguments_.configFile
          /\ LastArgument("s", "sensors", "sensor_config.json") = userArguments_.sensorInfoFile
      BY <3>1, <3>4, LastArgumentIs
    <3>6. /\ config_ = SConfig(Files[userArguments_.configFile])
          /\ SensorConfig(Files[userArguments_.sensorInfoFile]) # Thrown
      BY <2>1 DEF IInv, ConfigInv
    <3>. QED
      BY <3>2, <3>4, <3>5, <3>6
  <2>2. ASSUME pc = "returned", NEW e \in Range(Exported), e.exportEnabled
        PROVE  Written(e)
    <3>1. Exported \in Seq(Range(Exported))
      BY <2>2, ConfigIsRead DEF Begun, Exported
    <3>2. PICK i \in 1..Len(Exported) : e = Exported[i]
      BY <3>1 DEF Range
    <3>3. /\ nextExport \in Nat \ {0} /\ nextExport > Len(Exported)
          /\ i < nextExport /\ Exported[i].exportEnabled => Written(Exported[i])
      BY <2>2 DEF IInv, ExportInv, Analyzed
    <3>4. Len(Exported) \in Nat
      BY <3>1
    <3>5. Written(Exported[i])
      BY <2>2, <3>2, <3>3, <3>4
    <3>. QED
      BY <3>2, <3>5
  <2>3. ASSUME pc \in {"refused", "terminated"}
        PROVE  /\ jsonFiles = <<>> /\ graphs = <<>> /\ summary = <<>> /\ data = <<>>
               /\ \A c \in Classes : csvFiles[c] # NoFile => csvFiles[c].rows = <<>>
    BY <2>3 DEF IInv, FreshInv, NothingWritten, Analyzed, Begun
  <2>. QED
    BY <2>1, <2>2, <2>3 DEF EndsAsAsked, Begun
<1>. QED
  BY Invariance, <1>1, PTL

\* In live mode the view shows of every sensor what was measured of it last while it stood
\* there, or else its minimum, in whatever order elements come into it and leave it
\* (terminal_ui.cpp, AddMeasurements).
THEOREM LatestIsLive == Spec => []LiveShowsLastSeen
<1>1. IInv => LiveShowsLastSeen
  BY DEF IInv, LiveInv
<1>. QED
  BY Invariance, <1>1, PTL

\* For every pair of strongly correlated sensors with unique names there is a graph with what
\* this test has measured of either, if CSV files come before and can be written, as can the
\* graph, whatever files lay there before (export_graphs.cpp, export_csv.cpp).
THEOREM GraphsAreOfThisTest == Spec => []GraphsShowThisTest
<1>1. IInv => GraphsShowThisTest
  <2>. SUFFICES ASSUME IInv, pc = "returned", NEW i \in DOMAIN Exported,
                       Exported[i].exportType = "graphs", Exported[i].exportEnabled,
                       EnabledBefore("csv", i), NEW c \in Range(correlations), MustBeDrawn(c)
                PROVE  /\ Key(c) \in DOMAIN graphs
                       /\ graphs[Key(c)] = <<MeasuredCurve(c.sensor1), MeasuredCurve(c.sensor2)>>
    BY DEF GraphsShowThisTest, MustBeDrawn, Key
  <2>1. Exported \in Seq(Range(Exported))
    BY ConfigIsRead DEF Begun, Exported
  <2>2. i \in 1..Len(Exported) /\ nextExport \in Nat /\ nextExport > Len(Exported)
    BY <2>1 DEF IInv, ExportInv, Analyzed
  <2>3. i < nextExport
    BY <2>1, <2>2
  <2>4. \A k \in 1..Len(correlations) : GraphShows(graphs, correlations[k])
    BY <2>2, <2>3 DEF IInv, GraphInv, Analyzed
  <2>5. PICK k \in 1..Len(correlations) : c = correlations[k]
    BY CorrelationsAre DEF Range
  <2>6. GraphShows(graphs, c)
    BY <2>4, <2>5
  <2>. QED
    BY <2>6 DEF GraphShows
<1>. QED
  BY Invariance, <1>1, PTL

\* The summary names of every sensor without a multiplier the average of its cells, and the
\* sensors that exceeded a threshold, and every row has a cell for every label
\* (summary_generator.cpp, export_csv.cpp).
THEOREM SummaryIsOfTheFiles == Spec => []SummaryMatchesCsv
<1>1. IInv => SummaryMatchesCsv
  BY SummaryAgrees DEF SummaryMatchesCsv
<1>. QED
  BY Invariance, <1>1, PTL

\* Of all datapoints at most half are below the median and half above it, whichever way
\* around they are, and lowest and highest were measured, with the average and the median
\* between them if the multiplier is not negative and there is no steady state, for every
\* series of samples (summarize_data.h).
THEOREM SummaryInOrder == Spec => []SummaryIsOrdered
<1>1. IInv => SummaryIsOrdered
  BY Ordered DEF IInv, TypeInv
<1>. QED
  BY Invariance, <1>1, PTL
=============================================================================
