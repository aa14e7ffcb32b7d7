--------------------------- MODULE MeasurementsProofs ---------------------------
(***************************************************************************)
(* Theorems about Measurements for any number of programs, any sensor      *)
(* configuration and any contents of the kernel's files: what the samples  *)
(* hold, by which ids, of which processes, about which spans of time, and  *)
(* that every value is what its parser makes of the sensor it is for.      *)
(***************************************************************************)
EXTENDS Measurements, SetInduction, SequenceTheorems, TLAPS

IsSeq(s) == Len(s) \in Nat /\ s = [i \in 1..Len(s) |-> s[i]]

Classes == {"SYSTEM", "PROCESSES"}
TypesOf(c) == IF c = "SYSTEM" THEN SystemTypes ELSE ProcessTypes

\* The fields d of a class: of its types, with increasing ids up to the counter.
FieldsOK(d, types, low, high) ==
  /\ IsSeq(d)
  /\ \A k \in 1..Len(d) : d[k].type \in types /\ d[k].id \in (low + 1)..high
  /\ \A j, k \in 1..Len(d) : j < k => d[j].id < d[k].id

\* An item that was measured of x for its field f, at time t or before.
ItemOK(item, x, f, t, ids) ==
  /\ item.of = <<x, f.name>> /\ item.type = f.type
  /\ item.read[1] \in 0..t /\ item.read[2] \in 0..t
  /\ IF x = System THEN item.id = f.id
     ELSE <<x, f.id>> \in DOMAIN ids /\ item.id = ids[<<x, f.id>>]

\* The items of the first n fields of x.
ItemsOK(items, x, n, d, t, ids) ==
  /\ IsSeq(items) /\ Len(items) = n
  /\ \A k \in 1..n : ItemOK(items[k], x, d[ClassOf(x)][k], t, ids)

GroupOK(g, d, t, ids) ==
  /\ g.pipelineId \in Processes
  /\ ItemsOK(g.measuredItems, g.pipelineId, Len(d["PROCESSES"]), d, t, ids)

SampleOK(s, d, t, ids) ==
  /\ s.SYSTEM = <<>> \/ ItemsOK(s.SYSTEM, System, Len(d["SYSTEM"]), d, t, ids)
  /\ IsSeq(s.PROCESSES)
  /\ \A j \in 1..Len(s.PROCESSES) : GroupOK(s.PROCESSES[j], d, t, ids)

Samples == 1..Len(measurementsData_)

TypeInv ==
  /\ now \in 0..MaxTicks
  /\ life \in [Processes -> {"runs", "zombie", "gone", "foreign"}]
  /\ pc \in {"Initialize", "Loop", "Parsers", "Fields", "Store", "Analyze", "Terminated"}
  /\ target \in {System} \cup Processes
  /\ pending \subseteq FieldTypes(target)
  /\ field \in Nat \ {0} /\ uniqueId \in Nat
  /\ active \in [Processes -> BOOLEAN]
  /\ pidStatData_ \in [Processes -> 0..now \cup {None}]
  /\ pidStatmData_ \in [Processes -> 0..now \cup {None}]
  /\ statOwner \in [Processes -> Owners]
  /\ meminfo_ \in 0..now \cup {None} /\ procStat_ \in 0..now \cup {None}
  /\ procStatCorrected_ = None \/ procStatCorrected_ \in (0..now) \X (0..now)

\* The sequences the data is kept in; nothing is there before Initialize.
ShapeInv ==
  /\ IsSeq(measurementsData_)
  /\ measurementData = [SYSTEM |-> measurementData.SYSTEM, PROCESSES |-> measurementData.PROCESSES]
  /\ lastMeasurements_ = [c \in Classes |-> lastMeasurements_[c]]
  /\ pc = "Initialize" =>
       /\ definition = [c \in Classes |-> <<>>] /\ uniqueId = 0 /\ uniqueIds_ = <<>>
       /\ measurementsData_ = <<>>
       /\ measurementData.SYSTEM = <<>> /\ measurementData.PROCESSES = <<>>

\* The fields measured are those of the configuration.
ConfiguredInv ==
  pc # "Initialize" =>
    LET sys == GetFields(SystemTypes, 0)
        proc == GetFields(ProcessTypes, sys.uniqueId)
    IN  definition = [SYSTEM |-> sys.definition, PROCESSES |-> proc.definition]

\* Ids are handed out once: those of the fields first, in order, then one for each
\* field of each process.
IdsInv ==
  /\ \A c \in Classes : FieldsOK(definition[c], TypesOf(c), 0, uniqueId)
  /\ \A k \in DOMAIN uniqueIds_ :
       /\ uniqueIds_[k] \in 1..uniqueId
       /\ \A c \in Classes : \A j \in 1..Len(definition[c]) : definition[c][j].id < uniqueIds_[k]
  /\ \A k, l \in DOMAIN uniqueIds_ : uniqueIds_[k] = uniqueIds_[l] => k = l

\* What has been measured, stored or not, is of the fields in their order.
ItemsInv ==
  /\ \A k \in Samples : SampleOK(measurementsData_[k], definition, now, uniqueIds_)
  /\ SampleOK(measurementData, definition, now, uniqueIds_)
  /\ pc = "Parsers" => field = 1 /\ lastMeasurements_[ClassOf(target)] = <<>>
  /\ pc = "Fields" =>
       /\ field - 1 <= Len(definition[ClassOf(target)])
       /\ ItemsOK(lastMeasurements_[ClassOf(target)], target, field - 1, definition, now, uniqueIds_)

MeasuredIn(s) == {s.PROCESSES[j].pipelineId : j \in 1..Len(s.PROCESSES)}
InOrder(s) ==
  \A i, j \in 1..Len(s.PROCESSES) :
    i < j => s.PROCESSES[i].pipelineId < s.PROCESSES[j].pipelineId

\* Every sample has all processes that are still active, and a sample under way has
\* those before the target.
ActiveInv ==
  /\ \A k \in Samples :
       /\ InOrder(measurementsData_[k])
       /\ \A p \in Processes : active[p] => p \in MeasuredIn(measurementsData_[k])
       /\ MeasuredIn(measurementData) \subseteq MeasuredIn(measurementsData_[k])
  /\ \A k, l \in Samples :
       k < l => MeasuredIn(measurementsData_[l]) \subseteq MeasuredIn(measurementsData_[k])
  /\ InOrder(measurementData)
  /\ pc \in {"Parsers", "Fields"} =>
       IF target = System THEN measurementData.PROCESSES = <<>>
       ELSE /\ active[target]
            /\ \A p \in MeasuredIn(measurementData) : p < target
            /\ \A p \in Processes : p < target /\ active[p] => p \in MeasuredIn(measurementData)
  /\ pc = "Store" => \A p \in Processes : active[p] => p \in MeasuredIn(measurementData)

CpuReadsOf(items) == {items[j].read : j \in {k \in 1..Len(items) : items[k].type = "PROC_STAT"}}

\* Each sample's CPU values end where those of the next one begin.
CpuStored ==
  /\ \A k \in Samples : \A r \in CpuReadsOf(measurementsData_[k].SYSTEM) : r[1] <= r[2]
  /\ \A k, l \in Samples :
       k < l => \A r \in CpuReadsOf(measurementsData_[k].SYSTEM),
                   s \in CpuReadsOf(measurementsData_[l].SYSTEM) :
                  r[2] <= s[1] /\ (l = k + 1 => r[2] = s[1])

\* The CPU values stored are about the time up to t, those of the last sample up to t itself.
CpuEndsAt(t) ==
  \A k \in Samples : \A r \in CpuReadsOf(measurementsData_[k].SYSTEM) :
    r[2] <= t /\ (k = Len(measurementsData_) => r[2] = t)

CpuInv ==
  /\ CpuStored
  /\ pc = "Initialize" => procStat_ = None
  /\ pc # "Initialize" => procStat_ \in 0..now
  /\ pc \in {"Loop", "Analyze"} \/ (pc = "Parsers" /\ ~HasReadCpu) => CpuEndsAt(procStat_)
  /\ pc = "Parsers" /\ ~HasReadCpu => measurementData.SYSTEM = <<>>
  /\ HasReadCpu =>
       /\ procStatCorrected_ \in Int \X Int /\ procStatCorrected_[1] <= procStatCorrected_[2]
       /\ procStatCorrected_[2] = procStat_
       /\ \A r \in CpuReadsOf(measurementData.SYSTEM) : r = procStatCorrected_
       /\ CpuEndsAt(procStatCorrected_[1])
  /\ pc = "Fields" /\ target = System =>
       \A r \in CpuReadsOf(lastMeasurements_["SYSTEM"]) : r = procStatCorrected_

IInv == TypeInv /\ ShapeInv /\ ConfiguredInv /\ IdsInv /\ ItemsInv /\ ActiveInv /\ CpuInv

-----------------------------------------------------------------------------
(* Sequences *)

\* The empty sequence is one of length 0.
LEMMA NoElements == IsSeq(<<>>) /\ Len(<<>>) = 0
BY EmptySeq DEF IsSeq

\* Sequences in the sense of the theorems about them.
LEMMA SeqOfItself ==
  ASSUME NEW s, IsSeq(s)
  PROVE  s \in Seq({s[i] : i \in 1..Len(s)})
<1>1. s \in [1..Len(s) -> {s[i] : i \in 1..Len(s)}] /\ Len(s) \in Nat
  BY DEF IsSeq
<1>2. QED
  BY <1>1, SeqDef

\* Every member of Seq(S) is a sequence in the sense of IsSeq.
LEMMA IsSeqOfSeq ==
  ASSUME NEW S, NEW s \in Seq(S)
  PROVE  IsSeq(s)
BY LenProperties DEF IsSeq

\* Append adds one element behind those there are.
LEMMA AppendOne ==
  ASSUME NEW s, NEW e, IsSeq(s)
  PROVE  /\ IsSeq(Append(s, e)) /\ Len(Append(s, e)) = Len(s) + 1
         /\ \A i \in 1..Len(s) : Append(s, e)[i] = s[i]
         /\ Append(s, e)[Len(s) + 1] = e
<1>1. PICK S : S = {s[i] : i \in 1..Len(s)} \cup {e}
  OBVIOUS
<1>2. s \in Seq(S) /\ e \in S
  <2>1. {s[i] : i \in 1..Len(s)} \subseteq S /\ e \in S
    BY <1>1
  <2>. QED
    BY <2>1, SeqOfItself, SeqMonotonic
<1>3. Append(s, e) \in Seq(S)
  BY <1>2, AppendProperties
<1>4. /\ Len(Append(s, e)) = Len(s) + 1
      /\ \A i \in 1..Len(s) : Append(s, e)[i] = s[i]
      /\ Append(s, e)[Len(s) + 1] = e
  BY <1>2, AppendProperties
<1>5. QED
  BY <1>3, <1>4, IsSeqOfSeq

\* Concatenation keeps the elements of both sequences, in order.
LEMMA ConcatTwo ==
  ASSUME NEW s, NEW t, IsSeq(s), IsSeq(t)
  PROVE  /\ IsSeq(s \o t) /\ Len(s \o t) = Len(s) + Len(t)
         /\ \A i \in 1..Len(s) : (s \o t)[i] = s[i]
         /\ \A i \in (Len(s) + 1)..(Len(s) + Len(t)) : (s \o t)[i] = t[i - Len(s)]
<1>1. PICK S : S = {s[i] : i \in 1..Len(s)} \cup {t[i] : i \in 1..Len(t)}
  OBVIOUS
<1>2. s \in Seq(S) /\ t \in Seq(S)
  <2>1. {s[i] : i \in 1..Len(s)} \subseteq S /\ {t[i] : i \in 1..Len(t)} \subseteq S
    BY <1>1
  <2>2. s \in Seq({s[i] : i \in 1..Len(s)}) /\ t \in Seq({t[i] : i \in 1..Len(t)})
    BY SeqOfItself
  <2>3. s \in Seq(S)
    BY <2>1, <2>2, SeqMonotonic
  <2>4. t \in Seq(S)
    BY <2>1, <2>2, SeqMonotonic
  <2>. QED
    BY <2>3, <2>4
<1>3. s \o t \in Seq(S)
  BY <1>2, ConcatProperties
<1>4. Len(s \o t) = Len(s) + Len(t)
  BY <1>2, ConcatProperties
<1>5. Len(s) \in Nat /\ Len(t) \in Nat
  BY DEF IsSeq
<1>6. \A i \in 1..(Len(s) + Len(t)) : (s \o t)[i] = IF i <= Len(s) THEN s[i] ELSE t[i - Len(s)]
  BY <1>2, ConcatProperties
<1>7. \A i \in 1..Len(s) : (s \o t)[i] = s[i]
  BY <1>5, <1>6
<1>8. \A i \in (Len(s) + 1)..(Len(s) + Len(t)) : (s \o t)[i] = t[i - Len(s)]
  BY <1>5, <1>6
<1>9. IsSeq(s \o t)
  BY <1>3, IsSeqOfSeq
<1>10. QED
  BY <1>4, <1>7, <1>8, <1>9

\* The least element of a set of numbers there are.
LEMMA FirstOf ==
  ASSUME NEW a, \E p \in Processes : p \in a
  PROVE  \E p \in Processes : p \in a /\ \A q \in 1..(p - 1) : q \notin a
<1>1. N \in Nat
  BY MeasurementsAssumption
<1>2. PICK p \in {q \in Processes : q \in a} : \A q \in {r \in Processes : r \in a} : p <= q
  <2>1. {q \in Processes : q \in a} \subseteq Nat /\ {q \in Processes : q \in a} # {}
    BY <1>1 DEF Processes
  <2>. QED
    BY <2>1, Least, Zenon
<1>3. QED
  BY <1>1, <1>2 DEF Processes

-----------------------------------------------------------------------------
(* The fields of the configuration *)

\* FieldsAfter is the function its recursion describes.
LEMMA FieldsAreDefined ==
  ASSUME NEW types, NEW id
  PROVE  FieldsAfter(types, id) =
           [i \in 0..Len(Config) |->
              IF i = 0 THEN [uniqueId |-> id, definition |-> <<>>]
              ELSE GetMeasureFields(types, FieldsAfter(types, id)[i - 1], Config[i])]
<1>. DEFINE first == [uniqueId |-> id, definition |-> <<>>]
            step(f, i) == IF i = 0 THEN first ELSE GetMeasureFields(types, f[i - 1], Config[i])
            S == {n \in Nat : \E f : f = [i \in 0..n |-> step(f, i)]}
<1>1. 0 \in S
  <2>1. [i \in 0..0 |-> first] = [i \in 0..0 |-> step([j \in 0..0 |-> first], i)]
    OBVIOUS
  <2>. QED
    BY <2>1
<1>2. ASSUME NEW n \in Nat, n \in S PROVE n + 1 \in S
  <2>1. PICK f : f = [i \in 0..n |-> step(f, i)]
    BY <1>2
  <2>. DEFINE g == [i \in 0..(n + 1) |-> IF i = n + 1 THEN GetMeasureFields(types, f[n], Config[n + 1]) ELSE f[i]]
  <2>2. ASSUME NEW i \in 0..(n + 1) PROVE g[i] = step(g, i)
    <3>1. CASE i = 0
      BY <2>1, <3>1
    <3>2. CASE i = n + 1
      <4>1. n \in 0..(n + 1) /\ n # n + 1 /\ (n + 1) - 1 = n /\ n + 1 # 0
        OBVIOUS
      <4>2. g[n] = f[n]
        BY <4>1
      <4>. QED
        BY <3>2, <4>1, <4>2
    <3>3. CASE i # 0 /\ i # n + 1
      <4>1. i \in 0..n /\ i - 1 \in 0..(n + 1) /\ i - 1 # n + 1
        BY <3>3
      <4>2. g[i - 1] = f[i - 1] /\ g[i] = f[i]
        BY <4>1
      <4>. QED
        BY <2>1, <3>3, <4>1, <4>2
    <3>. QED
      BY <3>1, <3>2, <3>3
  <2>3. g = [i \in 0..(n + 1) |-> g[i]]
    OBVIOUS
  <2>. HIDE DEF g
  <2>4. g = [i \in 0..(n + 1) |-> step(g, i)]
    BY <2>2, <2>3
  <2>. QED
    BY <2>4
<1>. HIDE DEF S
<1>3. Len(Config) \in S
  BY <1>1, <1>2, SetInduction, ConfigAssumption
<1>. USE DEF S
<1>4. \E f : f = [i \in 0..Len(Config) |-> step(f, i)]
  BY <1>3
<1>. QED
  BY <1>4, Zenon DEF FieldsAfter

\* One entry adds fields with the ids that follow.
LEMMA MoreFields ==
  ASSUME NEW types \in {SystemTypes, ProcessTypes}, NEW i \in 1..Len(Config), NEW acc,
         NEW id \in Nat, acc.uniqueId \in Nat, id <= acc.uniqueId,
         FieldsOK(acc.definition, types, id, acc.uniqueId)
  PROVE  LET r == GetMeasureFields(types, acc, Config[i])
         IN  /\ r.uniqueId \in Nat /\ id <= r.uniqueId
             /\ FieldsOK(r.definition, types, id, r.uniqueId)
<1>1. PICK new : new = Elements(types, Config[i])
  OBVIOUS
<1>2. Len(new) \in Nat /\ \A k \in 1..Len(new) : new[k].type \in types
  BY <1>1, ConfigAssumption
<1>3. UnusedIds(types, Config[i]) \in Nat
  BY <1>1, <1>2 DEF UnusedIds, Elements
<1>4. PICK last : last = acc.uniqueId + UnusedIds(types, Config[i])
  OBVIOUS
<1>5. PICK add : add = [k \in 1..Len(new) |->
           [id |-> last + k, name |-> new[k].name, type |-> new[k].type,
            path |-> new[k].path, what |-> new[k].what]]
  OBVIOUS
<1>6. /\ GetMeasureFields(types, acc, Config[i]).uniqueId = last + Len(new)
      /\ GetMeasureFields(types, acc, Config[i]).definition = acc.definition \o add
  BY <1>1, <1>4, <1>5 DEF GetMeasureFields
<1>7. last \in Nat /\ acc.uniqueId <= last
  BY <1>3, <1>4
<1>8. IsSeq(add) /\ Len(add) = Len(new)
  <2>1. add \in Seq({add[k] : k \in 1..Len(new)})
    BY <1>2, <1>5, IsASeq
  <2>2. Len(add) = Len(new)
    BY <1>2, <1>5, <2>1, LenProperties
  <2>. QED
    BY <2>1, <2>2, IsSeqOfSeq
<1>9. \A k \in 1..Len(new) : add[k].type \in types /\ add[k].id = last + k
  BY <1>2, <1>5
<1>10. PICK d : d = acc.definition
  OBVIOUS
<1>11. /\ IsSeq(d)
       /\ \A k \in 1..Len(d) : d[k].type \in types /\ d[k].id \in (id + 1)..acc.uniqueId
       /\ \A j, k \in 1..Len(d) : j < k => d[j].id < d[k].id
  BY <1>10 DEF FieldsOK
<1>12. PICK m : m = d \o add
  OBVIOUS
<1>13. /\ IsSeq(m) /\ Len(m) = Len(d) + Len(add)
       /\ \A k \in 1..Len(d) : m[k] = d[k]
       /\ \A k \in (Len(d) + 1)..(Len(d) + Len(add)) : m[k] = add[k - Len(d)]
  BY <1>8, <1>11, <1>12, ConcatTwo
<1>14. Len(d) \in Nat /\ Len(add) \in Nat
  BY <1>8, <1>11 DEF IsSeq
<1>15. ASSUME NEW k \in 1..Len(m)
       PROVE  /\ m[k].type \in types
              /\ k <= Len(d) => m[k].id = d[k].id /\ m[k].id \in (id + 1)..acc.uniqueId
              /\ k > Len(d) => m[k].id = last + (k - Len(d)) /\ k - Len(d) \in 1..Len(new)
  <2>1. CASE k <= Len(d)
    <3>1. k \in 1..Len(d)
      BY <2>1, <1>13, <1>14
    <3>. QED
      BY <3>1, <2>1, <1>11, <1>13, <1>14
  <2>2. CASE k > Len(d)
    <3>1. k \in (Len(d) + 1)..(Len(d) + Len(add)) /\ k - Len(d) \in 1..Len(new)
      BY <2>2, <1>13, <1>14, <1>8
    <3>2. m[k] = add[k - Len(d)]
      BY <3>1, <1>13
    <3>. QED
      BY <3>1, <3>2, <2>2, <1>9, <1>14
  <2>. QED
    BY <2>1, <2>2, <1>13, <1>14
<1>16. ASSUME NEW k \in 1..Len(m) PROVE m[k].id \in (id + 1)..(last + Len(new))
  <2>1. CASE k <= Len(d)
    BY <2>1, <1>15, <1>2, <1>7
  <2>2. CASE k > Len(d)
    <3>1. PICK i1 \in 1..Len(new) : i1 = k - Len(d)
      BY <2>2, <1>15
    <3>2. m[k].id = last + i1
      BY <2>2, <3>1, <1>15
    <3>. QED
      BY <3>2, <1>2, <1>7
  <2>. QED
    BY <2>1, <2>2, <1>13, <1>14
<1>17. ASSUME NEW j \in 1..Len(m), NEW k \in 1..Len(m), j < k PROVE m[j].id < m[k].id
  <2>1. CASE k <= Len(d)
    <3>1. j \in 1..Len(d) /\ k \in 1..Len(d)
      BY <2>1, <1>17, <1>13, <1>14
    <3>. QED
      BY <3>1, <1>11, <1>13, <1>17
  <2>2. CASE k > Len(d)
    <3>1. m[k].id = last + (k - Len(d)) /\ k - Len(d) \in 1..Len(new)
      BY <2>2, <1>15
    <3>2. CASE j <= Len(d)
      <4>1. m[j].id \in (id + 1)..acc.uniqueId
        BY <3>2, <1>15
      <4>. QED
        BY <3>1, <4>1, <1>7, <1>2
    <3>3. CASE j > Len(d)
      <4>1. m[j].id = last + (j - Len(d)) /\ j - Len(d) \in 1..Len(new)
        BY <3>3, <1>15
      <4>. QED
        BY <3>1, <4>1, <1>17, <1>7, <1>13, <1>14
    <3>. QED
      BY <3>2, <3>3, <1>13, <1>14
  <2>. QED
    BY <2>1, <2>2, <1>13, <1>14
<1>18. FieldsOK(m, types, id, last + Len(new))
  BY <1>13, <1>15, <1>16, <1>17 DEF FieldsOK
<1>19. last + Len(new) \in Nat /\ id <= last + Len(new)
  BY <1>2, <1>7
<1>20. QED
  BY <1>6, <1>10, <1>12, <1>18, <1>19

\* The fields of a class have its types, and increasing ids from those taken already.
LEMMA FieldsOfConfig ==
  ASSUME NEW types \in {SystemTypes, ProcessTypes}, NEW id \in Nat
  PROVE  LET r == GetFields(types, id)
         IN  /\ r.uniqueId \in Nat /\ id <= r.uniqueId
             /\ FieldsOK(r.definition, types, id, r.uniqueId)
<1>. DEFINE f == FieldsAfter(types, id)
<1>2. f = [i \in 0..Len(Config) |->
              IF i = 0 THEN [uniqueId |-> id, definition |-> <<>>]
              ELSE GetMeasureFields(types, f[i - 1], Config[i])]
  BY FieldsAreDefined
<1>. HIDE DEF f
<1>. DEFINE Good(r) == /\ r.uniqueId \in Nat /\ id <= r.uniqueId
                       /\ FieldsOK(r.definition, types, id, r.uniqueId)
            S == {n \in Nat : n <= Len(Config) => Good(f[n])}
<1>3. 0 \in S
  <2>1. 0 \in 0..Len(Config) /\ 0 \in Nat
    BY ConfigAssumption
  <2>2. f[0] = [uniqueId |-> id, definition |-> <<>>]
    BY <1>2, <2>1
  <2>3. FieldsOK(<<>>, types, id, id)
    BY NoElements DEF FieldsOK
  <2>. QED
    BY <2>1, <2>2, <2>3
<1>4. ASSUME NEW n \in Nat, n \in S PROVE n + 1 \in S
  <2>. SUFFICES ASSUME n + 1 <= Len(Config) PROVE Good(f[n + 1])
    OBVIOUS
  <2>1. n + 1 \in 0..Len(Config) /\ n + 1 # 0 /\ (n + 1) - 1 = n /\ n + 1 \in 1..Len(Config) /\ n <= Len(Config)
    BY ConfigAssumption
  <2>2. f[n + 1] = GetMeasureFields(types, f[n], Config[n + 1])
    BY <1>2, <2>1
  <2>3. Good(f[n])
    BY <1>4, <2>1
  <2>. HIDE DEF Good
  <2>4. Good(GetMeasureFields(types, f[n], Config[n + 1]))
    <3>. USE DEF Good
    <3>. QED
      BY <2>1, <2>3, MoreFields
  <2>. QED
    BY <2>2, <2>4
<1>. HIDE DEF S
<1>5. Len(Config) \in S
  BY <1>3, <1>4, SetInduction, ConfigAssumption
<1>6. Good(f[Len(Config)])
  BY <1>5, ConfigAssumption DEF S
<1>7. GetFields(types, id) = f[Len(Config)]
  BY DEF GetFields, f
<1>8. QED
  BY <1>6, <1>7

-----------------------------------------------------------------------------
(* The helpers of the actions *)

\* What was measured stays good while time goes on and ids are added.
LEMMA ItemsLater ==
  ASSUME NEW items, NEW x, NEW n \in Nat, NEW d, NEW t \in Nat, NEW u \in Nat, t <= u,
         NEW ids, NEW jds, \A k \in DOMAIN ids : k \in DOMAIN jds /\ jds[k] = ids[k],
         ItemsOK(items, x, n, d, t, ids)
  PROVE  ItemsOK(items, x, n, d, u, jds)
<1>. SUFFICES ASSUME NEW k \in 1..n PROVE ItemOK(items[k], x, d[ClassOf(x)][k], u, jds)
  BY DEF ItemsOK
<1>1. ItemOK(items[k], x, d[ClassOf(x)][k], t, ids)
  BY DEF ItemsOK
<1>2. \A r \in 0..t : r \in 0..u
  OBVIOUS
<1>3. QED
  BY <1>1, <1>2 DEF ItemOK

\* A good sample stays good while time goes on and ids are added.
LEMMA SampleLater ==
  ASSUME NEW s, NEW d, NEW t \in Nat, NEW u \in Nat, t <= u,
         NEW ids, NEW jds, \A k \in DOMAIN ids : k \in DOMAIN jds /\ jds[k] = ids[k],
         \A c \in Classes : Len(d[c]) \in Nat,
         SampleOK(s, d, t, ids)
  PROVE  SampleOK(s, d, u, jds)
<1>1. Len(d["SYSTEM"]) \in Nat /\ Len(d["PROCESSES"]) \in Nat
  BY DEF Classes
<1>2. s.SYSTEM = <<>> \/ ItemsOK(s.SYSTEM, System, Len(d["SYSTEM"]), d, u, jds)
  BY <1>1, ItemsLater DEF SampleOK
<1>3. ASSUME NEW j \in 1..Len(s.PROCESSES) PROVE GroupOK(s.PROCESSES[j], d, u, jds)
  BY <1>1, ItemsLater DEF SampleOK, GroupOK
<1>4. QED
  BY <1>2, <1>3 DEF SampleOK

\* A new id is none of the old ones; the old ones stay.
LEMMA IdsGrow ==
  ASSUME TypeInv, IdsInv, AtField, SetId(CurrentField), definition' = definition
  PROVE  /\ IdsInv' /\ uniqueId' \in Nat /\ uniqueId <= uniqueId'
         /\ \A k \in DOMAIN uniqueIds_ : k \in DOMAIN uniqueIds_' /\ uniqueIds_'[k] = uniqueIds_[k]
         /\ target # System => <<target, CurrentField.id>> \in DOMAIN uniqueIds_'
<1>1. uniqueId \in Nat
  BY DEF TypeInv
<1>2. CASE UNCHANGED <<uniqueId, uniqueIds_>>
  <2>1. IdsInv'
    BY <1>2 DEF IdsInv
  <2>2. target # System => <<target, CurrentField.id>> \in DOMAIN uniqueIds_
    <3>. SUFFICES ASSUME target # System, <<target, CurrentField.id>> \notin DOMAIN uniqueIds_
                  PROVE  FALSE
      OBVIOUS
    <3>1. uniqueId' = uniqueId + 1
      BY DEF SetId, CreateUniqueId
    <3>. QED
      BY <1>1, <1>2, <3>1
  <2>3. QED
    BY <1>1, <1>2, <2>1, <2>2
<1>3. CASE ~UNCHANGED <<uniqueId, uniqueIds_>>
  <2>. DEFINE new == <<target, CurrentField.id>>
  <2>1. /\ target # System /\ new \notin DOMAIN uniqueIds_
        /\ uniqueId' = uniqueId + 1
        /\ uniqueIds_' = [k \in DOMAIN uniqueIds_ \cup {new} |->
                            IF k = new THEN uniqueId + 1 ELSE uniqueIds_[k]]
    BY <1>3 DEF SetId, CreateUniqueId
  <2>. HIDE DEF new
  <2>2. /\ DOMAIN uniqueIds_' = DOMAIN uniqueIds_ \cup {new}
        /\ uniqueIds_'[new] = uniqueId + 1
        /\ \A k \in DOMAIN uniqueIds_ : uniqueIds_'[k] = uniqueIds_[k]
    BY <2>1
  <2>3. \A c \in Classes : FieldsOK(definition[c], TypesOf(c), 0, uniqueId + 1)
    BY <1>1 DEF IdsInv, FieldsOK
  <2>4. ASSUME NEW k \in DOMAIN uniqueIds_ \cup {new}
        PROVE  /\ uniqueIds_'[k] \in 1..(uniqueId + 1)
               /\ \A c \in Classes : \A j \in 1..Len(definition[c]) :
                    definition[c][j].id < uniqueIds_'[k]
    <3>1. CASE k \in DOMAIN uniqueIds_
      BY <1>1, <2>2, <3>1 DEF IdsInv
    <3>2. CASE k = new
      <4>1. \A c \in Classes : \A j \in 1..Len(definition[c]) : definition[c][j].id \in 1..uniqueId
        BY DEF IdsInv, FieldsOK
      <4>. QED
        BY <1>1, <2>2, <3>2, <4>1
    <3>. QED
      BY <3>1, <3>2
  <2>5. ASSUME NEW k \in DOMAIN uniqueIds_ \cup {new}, NEW l \in DOMAIN uniqueIds_ \cup {new},
               uniqueIds_'[k] = uniqueIds_'[l]
        PROVE  k = l
    <3>1. \A m \in DOMAIN uniqueIds_ : uniqueIds_[m] \in 1..uniqueId
      BY DEF IdsInv
    <3>2. \A m \in DOMAIN uniqueIds_ : uniqueIds_'[m] # uniqueIds_'[new]
      BY <1>1, <2>2, <3>1
    <3>3. \A m, n \in DOMAIN uniqueIds_ : uniqueIds_[m] = uniqueIds_[n] => m = n
      BY DEF IdsInv
    <3>. QED
      BY <2>2, <2>5, <3>2, <3>3
  <2>6. IdsInv'
    BY <2>1, <2>2, <2>3, <2>4, <2>5 DEF IdsInv
  <2>7. QED
    BY <1>1, <2>1, <2>2, <2>6 DEF new
<1>4. QED
  BY <1>2, <1>3

\* After x comes the next active process, or the sample is complete.
WentOn(x) ==
  \/ /\ pc' = "Store" /\ target' = System /\ pending' = {} /\ field' = 1
     /\ lastMeasurements_' = lastMeasurements_
     /\ \A p \in Processes : (x = System \/ p > x) => ~active'[p]
  \/ \E p \in Processes :
       /\ x # System => p > x
       /\ active'[p]
       /\ \A q \in Processes : q < p /\ (x = System \/ q > x) => ~active'[q]
       /\ pc' = "Parsers" /\ target' = p /\ pending' = ProcessTypes /\ field' = 1
       /\ lastMeasurements_' = [lastMeasurements_ EXCEPT !["PROCESSES"] = <<>>]

\* After x is done with, the next active process is the target, or the sample is stored.
LEMMA GoOn ==
  ASSUME NEW x \in {System} \cup Processes, GoOnAfter(x)
  PROVE  WentOn(x)
<1>1. N \in Nat /\ System \notin Processes
  BY MeasurementsAssumption DEF Processes
<1>2. PICK first : first = IF x = System THEN 1 ELSE x + 1
  OBVIOUS
<1>3. first \in 1..(N + 1) /\ \A p \in Processes : p >= first <=> (x = System \/ p > x)
  BY <1>1, <1>2 DEF Processes
<1>4. NextActive(x) = {p \in first..N : active'[p] /\ \A q \in first..(p - 1) : ~active'[q]}
  BY <1>2 DEF NextActive
<1>5. CASE NextActive(x) = {}
  <2>1. \A p \in Processes : p >= first => ~active'[p]
    <3>. DEFINE a == {p \in first..N : active'[p]}
    <3>. SUFFICES ASSUME NEW p \in Processes, p >= first, active'[p] PROVE FALSE
      OBVIOUS
    <3>1. p \in a
      BY <1>1, <1>3 DEF Processes
    <3>2. PICK q \in Processes : q \in a /\ \A r \in 1..(q - 1) : r \notin a
      <4>. HIDE DEF a
      <4>. QED
        BY <3>1, FirstOf
    <3>3. \A r \in first..(q - 1) : ~active'[r]
      BY <1>1, <1>3, <3>2 DEF Processes
    <3>4. q \in NextActive(x)
      BY <1>4, <3>2, <3>3
    <3>. QED
      BY <1>5, <3>4
  <2>2. /\ pc' = "Store" /\ target' = System /\ pending' = {} /\ field' = 1
        /\ lastMeasurements_' = lastMeasurements_
    BY <1>5 DEF GoOnAfter
  <2>. QED
    BY <1>3, <2>1, <2>2 DEF WentOn
<1>6. CASE NextActive(x) # {}
  <2>1. PICK p \in NextActive(x) : BeginParsing(p)
    BY <1>6 DEF GoOnAfter
  <2>2. p \in first..N /\ active'[p] /\ \A q \in first..(p - 1) : ~active'[q]
    BY <1>4, <2>1
  <2>3. p \in Processes /\ p # System
    BY <1>1, <1>3, <2>2 DEF Processes
  <2>4. \A q \in Processes : q < p /\ q >= first => ~active'[q]
    BY <1>1, <1>3, <2>2 DEF Processes
  <2>5. /\ pc' = "Parsers" /\ target' = p /\ pending' = ProcessTypes /\ field' = 1
        /\ lastMeasurements_' = [lastMeasurements_ EXCEPT !["PROCESSES"] = <<>>]
    BY <2>1, <2>3 DEF BeginParsing, FieldTypes, ClassOf
  <2>6. p >= first
    BY <2>2, <1>1, <1>3
  <2>. QED
    BY <1>3, <2>2, <2>3, <2>4, <2>5, <2>6 DEF WentOn
<1>7. QED
  BY <1>5, <1>6

-----------------------------------------------------------------------------
(* Types and shapes *)

\* Going on to the next target keeps the types of what it changes.
LEMMA WentOnTypes ==
  ASSUME NEW x, WentOn(x)
  PROVE  /\ pc' \in {"Store", "Parsers"} /\ target' \in {System} \cup Processes
         /\ pending' \subseteq FieldTypes(target)' /\ field' = 1
         /\ lastMeasurements_' \in {lastMeasurements_,
                                    [lastMeasurements_ EXCEPT !["PROCESSES"] = <<>>]}
<1>1. System \notin Processes
  BY MeasurementsAssumption DEF Processes
<1>2. QED
  BY <1>1 DEF WentOn, FieldTypes

\* Only a process is ever given up.
LEMMA GivenUp ==
  ASSUME TypeInv, GiveUp
  PROVE  /\ active' \in [Processes -> BOOLEAN]
         /\ target = System => active' = active
         /\ target # System => ~active'[target]
         /\ \A p \in Processes : active'[p] => active[p]
         /\ \A p \in Processes : p # target => active'[p] = active[p]
         /\ measurementData' = measurementData
         /\ WentOn(target)
<1>1. target \in {System} \cup Processes /\ active \in [Processes -> BOOLEAN]
  BY DEF TypeInv
<1>2. WentOn(target)
  BY <1>1, GoOn DEF GiveUp
<1>3. active' = IF target = System THEN active ELSE [active EXCEPT ![target] = FALSE]
  BY DEF GiveUp
<1>4. QED
  BY <1>1, <1>2, <1>3 DEF GiveUp

\* Initially the types are right.
LEMMA TypeInit == Init => TypeInv
BY MeasurementsAssumption DEF Init, TypeInv, FieldTypes, Owners

\* Every step keeps the types.
LEMMA TypeStep ==
  ASSUME TypeInv, IdsInv, [Next]_vars
  PROVE  TypeInv'
<1>1. N \in Nat /\ MaxTicks \in Nat /\ System \notin Processes
  BY MeasurementsAssumption DEF Processes
<1>2. now \in Nat /\ now <= MaxTicks /\ uniqueId \in Nat
  BY <1>1 DEF TypeInv
<1>3. target = System => FieldTypes(target) = SystemTypes
  BY DEF FieldTypes
<1>4. target # System => FieldTypes(target) = ProcessTypes /\ target \in Processes
  BY DEF FieldTypes, TypeInv
<1>5. CASE UNCHANGED vars
  BY <1>5 DEF TypeInv, vars, world, handlers, FieldTypes
<1>6. CASE Tick
  <2>1. now' \in 0..MaxTicks /\ 0..now \subseteq 0..now'
    <3>1. now' = now + 1 /\ now < MaxTicks
      BY <1>6 DEF Tick
    <3>2. now + 1 \in 0..MaxTicks /\ 0..now \subseteq 0..(now + 1)
      BY <1>1, <1>2, <3>1
    <3>. QED
      BY <3>1, <3>2
  <2>2. UNCHANGED <<machine, life, pc, target, pending, field, definition, active, handlers,
                    lastMeasurements_, measurementData, measurementsData_>>
    BY <1>6 DEF Tick
  <2>3. /\ pidStatData_ \in [Processes -> 0..now' \cup {None}]
        /\ pidStatmData_ \in [Processes -> 0..now' \cup {None}]
        /\ meminfo_ \in 0..now' \cup {None} /\ procStat_ \in 0..now' \cup {None}
    BY <2>1 DEF TypeInv
  <2>4. procStatCorrected_ = None \/ procStatCorrected_ \in (0..now') \X (0..now')
    BY <2>1 DEF TypeInv
  <2>. QED
    BY <2>1, <2>2, <2>3, <2>4 DEF TypeInv, handlers, FieldTypes
<1>7. ASSUME NEW p \in Processes, ProgramEnds(p) \/ WaitPid(p) \/ PidReused(p) PROVE TypeInv'
  <2>1. UNCHANGED <<now, pc, target, pending, field, active, handlers>>
    BY <1>7 DEF ProgramEnds, WaitPid, PidReused
  <2>2. life' \in [Processes -> {"runs", "zombie", "gone", "foreign"}]
    BY <1>7 DEF ProgramEnds, WaitPid, PidReused, TypeInv
  <2>. QED
    BY <2>1, <2>2 DEF TypeInv, handlers, FieldTypes
<1>8. CASE Initialize
  <2>1. uniqueId' \in Nat
    <3>1. GetFields(SystemTypes, uniqueId).uniqueId \in Nat
      BY <1>2, FieldsOfConfig
    <3>2. GetFields(ProcessTypes, GetFields(SystemTypes, uniqueId).uniqueId).uniqueId \in Nat
      BY <3>1, FieldsOfConfig
    <3>. QED
      BY <3>2, <1>8 DEF Initialize
  <2>2. /\ meminfo_' = now /\ procStat_' = now /\ pc' = "Loop"
        /\ UNCHANGED <<now, life, target, pending, field, active, pidStatData_, pidStatmData_,
                       statOwner, procStatCorrected_>>
    BY <1>8 DEF Initialize, world, GetMemInfo, GetProcStat
  <2>. QED
    BY <1>2, <2>1, <2>2 DEF TypeInv, FieldTypes
<1>9. CASE StartSample
  BY <1>2, <1>9 DEF StartSample, BeginParsing, TypeInv, FieldTypes, world, handlers
<1>10. CASE Collect
  <2>1. WentOn(target)
    BY <1>10, GoOn DEF Collect, TypeInv
  <2>2. UNCHANGED <<now, life, active, handlers>>
    BY <1>10 DEF Collect, world
  <2>. QED
    BY <2>1, <2>2, WentOnTypes DEF TypeInv, handlers
<1>11. CASE Store \/ EndLoop
  BY <1>11 DEF Store, EndLoop, TypeInv, FieldTypes, world, handlers
<1>12. ASSUME NEW t \in SystemTypes \cup ProcessTypes, InitializeRuntime(t) PROVE TypeInv'
  <2>1. /\ t \in FieldTypes(target)
        /\ pending' \subseteq FieldTypes(target)
        /\ pc' \in {"Terminated", "Fields", "Parsers"}
        /\ UNCHANGED <<now, life, target, field, active, uniqueId>>
    BY <1>12 DEF InitializeRuntime, TypeInv, world
  <2>2. t \in {"PID_STAT", "PID_STATM"} => target \in Processes
    BY <1>3, <1>4, <2>1 DEF SystemTypes
  <2>3. /\ meminfo_' \in 0..now \cup {None} /\ procStat_' \in 0..now \cup {None}
        /\ procStatCorrected_' = None \/ procStatCorrected_' \in (0..now) \X (0..now)
    <3>1. meminfo_' = meminfo_ \/ meminfo_' = now
      BY <1>12 DEF InitializeRuntime, GetMemInfo
    <3>2. /\ procStat_' \in {procStat_, now}
          /\ \/ procStatCorrected_' = procStatCorrected_
             \/ procStat_ # None /\ procStatCorrected_' = <<procStat_, now>>
      BY <1>12 DEF InitializeRuntime, ParseProcStat, GetProcStat, Minus
    <3>. QED
      BY <1>2, <3>1, <3>2 DEF TypeInv
  <2>4. ASSUME NEW map \in [Processes -> 0..now \cup {None}], target \in Processes
        PROVE  Insert(map, target) \in [Processes -> 0..now \cup {None}]
    <3>1. GetStats(target) \in 0..now \cup {None}
      BY <1>2 DEF GetStats
    <3>. QED
      BY <2>4, <3>1 DEF Insert
  <2>5. /\ pidStatData_' \in [Processes -> 0..now \cup {None}]
        /\ pidStatmData_' \in [Processes -> 0..now \cup {None}]
    <3>1. /\ pidStatData_ \in [Processes -> 0..now \cup {None}]
          /\ pidStatmData_ \in [Processes -> 0..now \cup {None}]
      BY DEF TypeInv
    <3>2. /\ pidStatData_' = IF t = "PID_STAT" THEN Insert(pidStatData_, target) ELSE pidStatData_
          /\ pidStatmData_' = IF t = "PID_STATM" THEN Insert(pidStatmData_, target) ELSE pidStatmData_
      BY <1>12 DEF InitializeRuntime
    <3>. QED
      BY <2>2, <2>4, <3>1, <3>2
  <2>6. statOwner' \in [Processes -> Owners]
    BY <1>12 DEF InitializeRuntime, TypeInv, Owner, Owners
  <2>. QED
    BY <2>1, <2>3, <2>5, <2>6 DEF TypeInv, FieldTypes
<1>13. ASSUME NEW t \in SystemTypes \cup ProcessTypes, InitializeRuntimeFails(t) PROVE TypeInv'
  <2>1. GiveUp /\ UNCHANGED <<now, life, handlers>>
    BY <1>13 DEF InitializeRuntimeFails, world
  <2>2. active' \in [Processes -> BOOLEAN] /\ WentOn(target)
    BY <2>1, GivenUp
  <2>. QED
    BY <2>1, <2>2, WentOnTypes DEF TypeInv, handlers
<1>14. CASE ParseMeasurement
  <2>1. uniqueId' \in Nat
    BY <1>14, IdsGrow DEF ParseMeasurement
  <2>2. /\ field' = field + 1 /\ pc' \in {"Terminated", "Fields"}
        /\ UNCHANGED <<now, life, target, pending, active, pidStatData_, pidStatmData_, statOwner,
                       meminfo_, procStat_, procStatCorrected_>>
    BY <1>14 DEF ParseMeasurement, world
  <2>. QED
    BY <2>1, <2>2 DEF TypeInv, FieldTypes
<1>15. CASE ParseMeasurementFails
  <2>1. /\ GiveUp
        /\ UNCHANGED <<now, life, pidStatData_, pidStatmData_, statOwner, meminfo_, procStat_,
                       procStatCorrected_>>
    BY <1>15 DEF ParseMeasurementFails, world
  <2>2. uniqueId' \in Nat
    BY <1>15, IdsGrow DEF ParseMeasurementFails
  <2>3. active' \in [Processes -> BOOLEAN] /\ WentOn(target)
    BY <2>1, GivenUp
  <2>. QED
    BY <2>1, <2>2, <2>3, WentOnTypes DEF TypeInv
<1>16. CASE Terminating
  BY <1>5, <1>16 DEF Terminating
<1>17. QED
  BY <1>5, <1>6, <1>7, <1>8, <1>9, <1>10, <1>11, <1>12, <1>13, <1>14, <1>15, <1>16 DEF Next

\* Initially the data is kept in sequences.
LEMMA ShapeInit == Init => ShapeInv
BY NoElements DEF Init, ShapeInv, Classes

\* Every step keeps the data in sequences.
LEMMA ShapeStep ==
  ASSUME TypeInv, ShapeInv, [Next]_vars
  PROVE  ShapeInv'
<1>1. CASE UNCHANGED vars
  BY <1>1 DEF ShapeInv, vars, handlers
<1>2. CASE Tick \/ Initialize \/ EndLoop
  BY <1>2 DEF Tick, Initialize, EndLoop, ShapeInv, handlers
<1>3. ASSUME NEW p \in Processes, ProgramEnds(p) \/ WaitPid(p) \/ PidReused(p) PROVE ShapeInv'
  BY <1>3 DEF ProgramEnds, WaitPid, PidReused, ShapeInv, handlers
<1>4. CASE StartSample
  BY <1>4 DEF StartSample, BeginParsing, ClassOf, ShapeInv, Classes
<1>5. ASSUME WentOn(target), UNCHANGED measurementsData_,
             measurementData' \in
               {measurementData,
                [measurementData EXCEPT !.SYSTEM = lastMeasurements_[ClassOf(target)]],
                [measurementData EXCEPT !.PROCESSES =
                   Append(@, [pipelineId |-> target,
                              measuredItems |-> lastMeasurements_[ClassOf(target)]])]}
      PROVE  ShapeInv'
  <2>1. lastMeasurements_' = [c \in Classes |-> lastMeasurements_'[c]]
    BY <1>5, WentOnTypes DEF ShapeInv
  <2>2. pc' # "Initialize"
    BY <1>5, WentOnTypes
  <2>. QED
    BY <1>5, <2>1, <2>2 DEF ShapeInv
<1>6. CASE Collect
  <2>1. WentOn(target) /\ UNCHANGED measurementsData_
    BY <1>6, GoOn DEF Collect, TypeInv
  <2>. QED
    BY <1>5, <1>6, <2>1 DEF Collect
<1>7. CASE Store
  <2>1. IsSeq(measurementsData_')
    BY <1>7, AppendOne DEF Store, ShapeInv
  <2>. QED
    BY <1>7, <2>1 DEF Store, ShapeInv
<1>8. ASSUME NEW t \in SystemTypes \cup ProcessTypes, InitializeRuntime(t) PROVE ShapeInv'
  <2>1. /\ pc' # "Initialize"
        /\ UNCHANGED <<measurementsData_, measurementData, lastMeasurements_>>
    BY <1>8 DEF InitializeRuntime
  <2>. QED
    BY <2>1 DEF ShapeInv
<1>9. CASE (\E t \in SystemTypes \cup ProcessTypes : InitializeRuntimeFails(t)) \/ ParseMeasurementFails
  <2>1. GiveUp /\ UNCHANGED measurementsData_
    BY <1>9 DEF InitializeRuntimeFails, ParseMeasurementFails
  <2>2. WentOn(target) /\ measurementData' = measurementData
    BY <2>1, GivenUp
  <2>. QED
    BY <1>5, <2>1, <2>2
<1>10. CASE ParseMeasurement
  <2>1. pc' # "Initialize" /\ UNCHANGED <<measurementsData_, measurementData>>
    BY <1>10 DEF ParseMeasurement
  <2>2. \E e : lastMeasurements_' = [lastMeasurements_ EXCEPT ![ClassOf(target)] = e]
    BY <1>10, Zenon DEF ParseMeasurement
  <2>. QED
    BY <2>1, <2>2 DEF ShapeInv
<1>11. CASE Terminating
  BY <1>1, <1>11 DEF Terminating
<1>12. QED
  BY <1>1, <1>2, <1>3, <1>4, <1>6, <1>7, <1>8, <1>9, <1>10, <1>11 DEF Next

\* Initialize sets the fields of the configuration, and no later step changes them.
LEMMA ConfiguredStep ==
  ASSUME ShapeInv, ConfiguredInv, [Next]_vars
  PROVE  ConfiguredInv'
<1>1. CASE Initialize
  BY <1>1 DEF Initialize, ShapeInv, ConfiguredInv
<1>2. CASE UNCHANGED <<definition, pc>> \/ (UNCHANGED definition /\ pc # "Initialize")
  BY <1>2 DEF ConfiguredInv
<1>3. CASE UNCHANGED vars \/ Terminating \/ Tick \/ StartSample \/ Collect \/ Store \/ EndLoop
  BY <1>2, <1>3 DEF Terminating, Tick, StartSample, Collect, Store, EndLoop, vars
<1>4. ASSUME NEW p \in Processes, ProgramEnds(p) \/ WaitPid(p) \/ PidReused(p)
      PROVE  ConfiguredInv'
  BY <1>2, <1>4 DEF ProgramEnds, WaitPid, PidReused
<1>5. ASSUME NEW t \in SystemTypes \cup ProcessTypes,
             InitializeRuntime(t) \/ InitializeRuntimeFails(t)
      PROVE  ConfiguredInv'
  BY <1>2, <1>5 DEF InitializeRuntime, InitializeRuntimeFails
<1>6. CASE ParseMeasurement \/ ParseMeasurementFails
  BY <1>2, <1>6 DEF ParseMeasurement, ParseMeasurementFails, AtField
<1>7. QED
  BY <1>1, <1>3, <1>4, <1>5, <1>6 DEF Next

\* Initially there are no ids.
LEMMA IdsInit == Init => IdsInv
BY NoElements DEF Init, IdsInv, FieldsOK, Classes

\* Every step hands out fresh ids only.
LEMMA IdsStep ==
  ASSUME TypeInv, ShapeInv, IdsInv, [Next]_vars
  PROVE  IdsInv'
<1>1. CASE UNCHANGED <<uniqueId, uniqueIds_, definition>>
  BY <1>1 DEF IdsInv
<1>2. CASE Initialize
  <2>1. PICK sys : sys = GetFields(SystemTypes, 0)
    OBVIOUS
  <2>2. PICK proc : proc = GetFields(ProcessTypes, sys.uniqueId)
    OBVIOUS
  <2>3. /\ definition' = [SYSTEM |-> sys.definition, PROCESSES |-> proc.definition]
        /\ uniqueId' = proc.uniqueId /\ uniqueIds_' = uniqueIds_ /\ uniqueIds_ = <<>>
    BY <1>2, <2>1, <2>2 DEF Initialize, ShapeInv
  <2>4. /\ sys.uniqueId \in Nat
        /\ FieldsOK(sys.definition, SystemTypes, 0, sys.uniqueId)
    BY <2>1, FieldsOfConfig
  <2>5. /\ proc.uniqueId \in Nat /\ sys.uniqueId <= proc.uniqueId
        /\ FieldsOK(proc.definition, ProcessTypes, sys.uniqueId, proc.uniqueId)
    BY <2>2, <2>4, FieldsOfConfig
  <2>6. FieldsOK(sys.definition, SystemTypes, 0, proc.uniqueId)
    BY <2>4, <2>5 DEF FieldsOK
  <2>7. FieldsOK(proc.definition, ProcessTypes, 0, proc.uniqueId)
    BY <2>4, <2>5 DEF FieldsOK
  <2>8. \A c \in Classes : FieldsOK(definition'[c], TypesOf(c), 0, uniqueId')
    BY <2>3, <2>6, <2>7 DEF Classes, TypesOf
  <2>. QED
    BY <2>3, <2>8 DEF IdsInv
<1>3. CASE ParseMeasurement
  BY <1>3, IdsGrow DEF ParseMeasurement
<1>4. CASE ParseMeasurementFails
  BY <1>4, IdsGrow DEF ParseMeasurementFails
<1>5. CASE Tick \/ StartSample \/ Collect \/ Store \/ EndLoop
  BY <1>1, <1>5 DEF Tick, StartSample, Collect, Store, EndLoop, handlers
<1>6. ASSUME NEW p \in Processes, ProgramEnds(p) \/ WaitPid(p) \/ PidReused(p) PROVE IdsInv'
  BY <1>1, <1>6 DEF ProgramEnds, WaitPid, PidReused, handlers
<1>7. ASSUME NEW t \in SystemTypes \cup ProcessTypes,
             InitializeRuntime(t) \/ InitializeRuntimeFails(t)
      PROVE  IdsInv'
  BY <1>1, <1>7 DEF InitializeRuntime, InitializeRuntimeFails, handlers
<1>8. CASE UNCHANGED vars \/ Terminating
  BY <1>1, <1>8 DEF Terminating, vars, handlers
<1>9. QED
  BY <1>2, <1>3, <1>4, <1>5, <1>6, <1>7, <1>8 DEF Next

-----------------------------------------------------------------------------
(* What is measured *)

\* A value is only taken from what was read, and it was read by now.
LEMMA WhatWasRead ==
  ASSUME TypeInv, IdsInv, AtField, CurrentValue # Thrown
  PROVE  /\ CurrentField.type \in FieldTypes(target)
         /\ Read(CurrentField.type)[1] \in 0..now /\ Read(CurrentField.type)[2] \in 0..now
         /\ CurrentField.type = "PROC_STAT" => Read(CurrentField.type) = procStatCorrected_
<1>1. PICK type : type = CurrentField.type
  OBVIOUS
<1>2. now \in Nat /\ target \in {System} \cup Processes /\ field \in Nat \ {0}
  BY DEF TypeInv
<1>3. type \in FieldTypes(target)
  <2>1. ClassOf(target) \in Classes /\ TypesOf(ClassOf(target)) = FieldTypes(target)
    BY DEF ClassOf, Classes, TypesOf, FieldTypes
  <2>2. field \in 1..Len(definition[ClassOf(target)])
    <3>1. Len(definition[ClassOf(target)]) \in Nat /\ field <= Len(definition[ClassOf(target)])
      BY <2>1 DEF IdsInv, FieldsOK, IsSeq, AtField
    <3>. QED
      BY <3>1, <1>2
  <2>. QED
    BY <1>1, <2>1, <2>2 DEF IdsInv, FieldsOK, CurrentField
<1>4. Read(type) # None /\ Read(type) # <<None, None>>
  <2>1. Read(type) \in {None, <<None, None>>} => ValueOf(CurrentField, Read(type)) = Thrown
    BY Zenon DEF ValueOf
  <2>. QED
    BY <1>1, <2>1 DEF CurrentValue
<1>5. CASE type \in {"DIRECT", "DIRECT_PID"}
  <2>1. Read(type) = <<now, now>>
    BY <1>5 DEF Read
  <2>. QED
    BY <1>1, <1>2, <1>3, <1>5, <2>1
<1>6. CASE type = "PROC_MEM"
  <2>1. Read(type) = <<meminfo_, meminfo_>>
    BY <1>6 DEF Read
  <2>2. meminfo_ \in 0..now
    BY <1>4, <2>1 DEF TypeInv
  <2>. QED
    BY <1>1, <1>3, <1>6, <2>1, <2>2
<1>7. CASE type = "PROC_STAT"
  <2>1. Read(type) = procStatCorrected_
    BY <1>7 DEF Read
  <2>2. procStatCorrected_ \in (0..now) \X (0..now)
    BY <1>4, <2>1 DEF TypeInv
  <2>. QED
    BY <1>1, <1>3, <1>7, <2>1, <2>2
<1>8. CASE type \in {"PID_STAT", "PID_STATM"}
  <2>1. target \in Processes
    BY <1>2, <1>3, <1>8 DEF FieldTypes, SystemTypes
  <2>2. PICK v \in 0..now \cup {None} : Read(type) = <<v, v>>
    BY <1>8, <2>1 DEF Read, TypeInv
  <2>3. v \in 0..now
    BY <1>4, <2>2
  <2>. QED
    BY <1>1, <1>3, <1>8, <2>2, <2>3
<1>9. QED
  BY <1>1, <1>3, <1>5, <1>6, <1>7, <1>8 DEF FieldTypes, SystemTypes, ProcessTypes

\* Initially nothing has been measured.
LEMMA ItemsInit == Init => ItemsInv
BY NoElements DEF Init, ItemsInv, SampleOK, Samples

\* The next target starts with nothing measured.
LEMMA WentOnEmpty ==
  ASSUME ShapeInv, NEW x, WentOn(x)
  PROVE  /\ pc' \in {"Store", "Parsers"}
         /\ pc' = "Parsers" => field' = 1 /\ lastMeasurements_'[ClassOf(target)'] = <<>>
<1>1. System \notin Processes
  BY MeasurementsAssumption DEF Processes
<1>2. CASE pc' = "Store"
  BY <1>2
<1>3. CASE pc' # "Store"
  <2>1. /\ pc' = "Parsers" /\ target' \in Processes /\ field' = 1
        /\ lastMeasurements_' = [lastMeasurements_ EXCEPT !["PROCESSES"] = <<>>]
    BY <1>3 DEF WentOn
  <2>2. ClassOf(target)' = "PROCESSES"
    BY <1>1, <2>1 DEF ClassOf
  <2>3. lastMeasurements_'["PROCESSES"] = <<>>
    BY <2>1 DEF ShapeInv, Classes
  <2>. QED
    BY <2>1, <2>2, <2>3
<1>4. QED
  BY <1>2, <1>3

\* A step that measures nothing.
LEMMA ItemsKept ==
  ASSUME TypeInv, TypeInv', ShapeInv, IdsInv, ItemsInv, now <= now',
         UNCHANGED <<definition, uniqueIds_, measurementData, measurementsData_>>,
         \/ UNCHANGED <<pc, target, field, lastMeasurements_>>
         \/ pc' \notin {"Parsers", "Fields"}
         \/ WentOn(target)
  PROVE  ItemsInv'
<1>1. now \in Nat /\ now' \in Nat /\ target \in {System} \cup Processes /\ field \in Nat \ {0}
  BY DEF TypeInv
<1>2. \A c \in Classes : Len(definition[c]) \in Nat
  BY DEF IdsInv, FieldsOK, IsSeq
<1>3. \A k \in Samples : SampleOK(measurementsData_[k], definition, now', uniqueIds_)
  BY <1>1, <1>2, SampleLater DEF ItemsInv
<1>4. SampleOK(measurementData, definition, now', uniqueIds_)
  BY <1>1, <1>2, SampleLater DEF ItemsInv
<1>5. CASE UNCHANGED <<pc, target, field, lastMeasurements_>>
  <2>1. pc = "Fields" =>
          ItemsOK(lastMeasurements_[ClassOf(target)], target, field - 1, definition, now', uniqueIds_)
    <3>1. field - 1 \in Nat
      BY <1>1
    <3>. QED
      BY <1>1, <3>1, ItemsLater DEF ItemsInv
  <2>. QED
    BY <1>3, <1>4, <1>5, <2>1 DEF ItemsInv, Samples, ClassOf
<1>6. CASE pc' \notin {"Parsers", "Fields"}
  BY <1>3, <1>4, <1>6 DEF ItemsInv, Samples
<1>7. CASE WentOn(target) /\ pc' \in {"Parsers", "Fields"}
  BY <1>3, <1>4, <1>7, WentOnEmpty DEF ItemsInv, Samples
<1>8. QED
  BY <1>5, <1>6, <1>7

\* An item is appended for the current field.
LEMMA ItemsMeasured ==
  ASSUME TypeInv, ShapeInv, IdsInv, ItemsInv, ParseMeasurement
  PROVE  ItemsInv'
<1>. DEFINE c == ClassOf(target)
            f == CurrentField
<1>1. /\ AtField /\ SetId(f) /\ pc = "Fields"
      /\ UNCHANGED <<now, target, definition, measurementData, measurementsData_>>
      /\ field' = field + 1
      /\ pc' = IF CurrentValue = Thrown THEN "Terminated" ELSE "Fields"
  BY DEF ParseMeasurement, AtField, world
<1>2. /\ now \in Nat /\ field \in Nat \ {0} /\ target \in {System} \cup Processes /\ c \in Classes
  BY DEF TypeInv, ClassOf, Classes
<1>3. \A d \in Classes : Len(definition[d]) \in Nat
  BY DEF IdsInv, FieldsOK, IsSeq
<1>4. /\ \A k \in DOMAIN uniqueIds_ : k \in DOMAIN uniqueIds_' /\ uniqueIds_'[k] = uniqueIds_[k]
      /\ target # System => <<target, f.id>> \in DOMAIN uniqueIds_'
  BY <1>1, IdsGrow
<1>5. \A k \in Samples : SampleOK(measurementsData_[k], definition, now, uniqueIds_')
  BY <1>2, <1>3, <1>4, SampleLater DEF ItemsInv
<1>6. SampleOK(measurementData, definition, now, uniqueIds_')
  BY <1>2, <1>3, <1>4, SampleLater DEF ItemsInv
<1>7. CASE CurrentValue = Thrown
  <2>1. pc' = "Terminated"
    BY <1>1, <1>7
  <2>. QED
    BY <1>1, <1>5, <1>6, <2>1 DEF ItemsInv, Samples
<1>8. CASE CurrentValue # Thrown
  <2>. DEFINE items == lastMeasurements_[c]
              item == [id |-> ItemId(f), of |-> <<target, f.name>>, type |-> f.type,
                       read |-> Read(f.type), measuredValue |-> CurrentValue]
  <2>1. ItemsOK(items, target, field - 1, definition, now, uniqueIds_')
    <3>1. ItemsOK(items, target, field - 1, definition, now, uniqueIds_) /\ field - 1 \in Nat
      BY <1>1, <1>2 DEF ItemsInv
    <3>. QED
      BY <1>2, <1>4, <3>1, ItemsLater
  <2>2. ItemOK(item, target, definition[c][field], now, uniqueIds_')
    <3>1. f = definition[c][field]
      BY DEF CurrentField
    <3>2. Read(f.type)[1] \in 0..now /\ Read(f.type)[2] \in 0..now
      BY <1>1, <1>8, WhatWasRead
    <3>3. target = System => ItemId(f) = f.id
      BY DEF ItemId
    <3>4. target # System => ItemId(f) = uniqueIds_'[<<target, f.id>>]
      BY DEF ItemId
    <3>. HIDE DEF f, c
    <3>. QED
      BY <1>4, <3>1, <3>2, <3>3, <3>4 DEF ItemOK
  <2>3. lastMeasurements_' = [lastMeasurements_ EXCEPT ![c] = Append(items, item)]
    BY DEF ParseMeasurement
  <2>4. lastMeasurements_'[c] = Append(items, item)
    BY <1>2, <2>3 DEF ShapeInv
  <2>. HIDE DEF item, items
  <2>5. IsSeq(items) /\ Len(items) = field - 1
    BY <2>1 DEF ItemsOK
  <2>6. /\ IsSeq(Append(items, item)) /\ Len(Append(items, item)) = field
        /\ \A k \in 1..(field - 1) : Append(items, item)[k] = items[k]
        /\ Append(items, item)[field] = item
    <3>1. Len(items) + 1 = field
      BY <1>2, <2>5
    <3>. QED
      BY <2>5, <3>1, AppendOne
  <2>7. ASSUME NEW k \in 1..field
        PROVE  ItemOK(Append(items, item)[k], target, definition[c][k], now, uniqueIds_')
    <3>1. CASE k = field
      BY <2>2, <2>6, <3>1
    <3>2. CASE k # field
      <4>1. k \in 1..(field - 1)
        BY <1>2, <3>2
      <4>. QED
        BY <2>1, <2>6, <4>1 DEF ItemsOK
    <3>. QED
      BY <3>1, <3>2
  <2>8. ItemsOK(Append(items, item), target, field, definition, now, uniqueIds_')
    BY <2>6, <2>7 DEF ItemsOK
  <2>9. pc' = "Fields" /\ (field + 1) - 1 = field /\ field <= Len(definition[c])
    BY <1>1, <1>2, <1>8 DEF AtField
  <2>10. ClassOf(target)' = c
    BY <1>1 DEF ClassOf
  <2>. HIDE DEF c
  <2>. QED
    BY <1>1, <1>5, <1>6, <2>4, <2>8, <2>9, <2>10 DEF ItemsInv, Samples
<1>9. QED
  BY <1>7, <1>8

\* Every step keeps what has been measured whole and in order.
LEMMA ItemsStep ==
  ASSUME TypeInv, TypeInv', ShapeInv, IdsInv, ItemsInv, [Next]_vars
  PROVE  ItemsInv'
<1>1. /\ now \in Nat /\ field \in Nat \ {0} /\ target \in {System} \cup Processes
      /\ ClassOf(target) \in Classes
  BY DEF TypeInv, ClassOf, Classes
<1>2. \A d \in Classes : Len(definition[d]) \in Nat
  BY DEF IdsInv, FieldsOK, IsSeq
<1>3. CASE UNCHANGED vars \/ Terminating
  BY <1>1, <1>3, ItemsKept DEF Terminating, vars, world, handlers
<1>4. CASE Tick
  BY <1>1, <1>4, ItemsKept DEF Tick, handlers
<1>5. ASSUME NEW p \in Processes, ProgramEnds(p) \/ WaitPid(p) \/ PidReused(p) PROVE ItemsInv'
  BY <1>1, <1>5, ItemsKept DEF ProgramEnds, WaitPid, PidReused, handlers
<1>6. CASE EndLoop
  <2>1. pc' \notin {"Parsers", "Fields"} /\ now <= now'
    BY <1>1, <1>6 DEF EndLoop, world
  <2>. QED
    BY <1>6, <2>1, ItemsKept DEF EndLoop, handlers
<1>7. CASE Initialize
  <2>1. /\ pc' = "Loop" /\ measurementsData_' = <<>>
        /\ measurementData'.SYSTEM = <<>> /\ measurementData'.PROCESSES = <<>>
    BY <1>7 DEF Initialize, ShapeInv
  <2>. QED
    BY <2>1, NoElements DEF ItemsInv, SampleOK, Samples
<1>8. CASE StartSample
  <2>1. /\ pc' = "Parsers" /\ field' = 1 /\ target' = System
        /\ measurementData'.SYSTEM = <<>> /\ measurementData'.PROCESSES = <<>>
        /\ lastMeasurements_' = [lastMeasurements_ EXCEPT !["SYSTEM"] = <<>>]
        /\ UNCHANGED <<now, definition, uniqueIds_, measurementsData_>>
    BY <1>8 DEF StartSample, BeginParsing, ClassOf, world, handlers
  <2>2. lastMeasurements_'["SYSTEM"] = <<>> /\ ClassOf(target)' = "SYSTEM"
    BY <2>1 DEF ShapeInv, ClassOf, Classes
  <2>3. SampleOK(measurementData', definition, now, uniqueIds_)
    BY <2>1, NoElements DEF SampleOK
  <2>. QED
    BY <2>1, <2>2, <2>3 DEF ItemsInv, Samples
<1>9. CASE Collect
  <2>1. /\ WentOn(target) /\ pc = "Fields" /\ field > Len(definition[ClassOf(target)])
        /\ UNCHANGED <<now, definition, uniqueIds_, measurementsData_>>
    BY <1>9, GoOn DEF Collect, TypeInv, world, handlers
  <2>. DEFINE items == lastMeasurements_[ClassOf(target)]
  <2>2. ItemsOK(items, target, Len(definition[ClassOf(target)]), definition, now, uniqueIds_)
    <3>1. field - 1 = Len(definition[ClassOf(target)])
      BY <1>1, <1>2, <2>1 DEF ItemsInv
    <3>. QED
      BY <2>1, <3>1 DEF ItemsInv
  <2>3. SampleOK(measurementData, definition, now, uniqueIds_)
    BY DEF ItemsInv
  <2>. HIDE DEF items
  <2>4. SampleOK(measurementData', definition, now, uniqueIds_)
    <3>1. CASE target = System
      <4>1. /\ measurementData'.SYSTEM = items
            /\ measurementData'.PROCESSES = measurementData.PROCESSES
        BY <1>9, <3>1 DEF Collect, ShapeInv, items
      <4>2. ItemsOK(items, System, Len(definition["SYSTEM"]), definition, now, uniqueIds_)
        BY <2>2, <3>1 DEF ClassOf
      <4>. QED
        BY <2>3, <4>1, <4>2 DEF SampleOK
    <3>2. CASE target # System
      <4>. DEFINE g == [pipelineId |-> target, measuredItems |-> items]
                  groups == measurementData.PROCESSES
      <4>1. /\ measurementData'.SYSTEM = measurementData.SYSTEM
            /\ measurementData'.PROCESSES = Append(groups, g)
        BY <1>9, <3>2 DEF Collect, ShapeInv, items
      <4>2. GroupOK(g, definition, now, uniqueIds_)
        BY <1>1, <2>2, <3>2 DEF GroupOK, ClassOf
      <4>3. IsSeq(groups)
        BY <2>3 DEF SampleOK
      <4>. HIDE DEF g
      <4>4. /\ IsSeq(Append(groups, g)) /\ Len(Append(groups, g)) = Len(groups) + 1
            /\ \A i \in 1..Len(groups) : Append(groups, g)[i] = groups[i]
            /\ Append(groups, g)[Len(groups) + 1] = g
        BY <4>3, AppendOne
      <4>5. ASSUME NEW i \in 1..(Len(groups) + 1)
            PROVE  GroupOK(Append(groups, g)[i], definition, now, uniqueIds_)
        <5>1. CASE i = Len(groups) + 1
          BY <4>2, <4>4, <5>1
        <5>2. CASE i # Len(groups) + 1
          <6>1. i \in 1..Len(groups)
            BY <4>3, <5>2 DEF IsSeq
          <6>. QED
            BY <2>3, <4>4, <6>1 DEF SampleOK
        <5>. QED
          BY <5>1, <5>2
      <4>. QED
        BY <2>3, <4>1, <4>4, <4>5 DEF SampleOK
    <3>. QED
      BY <3>1, <3>2
  <2>. QED
    BY <2>1, <2>4, WentOnEmpty DEF ItemsInv, Samples
<1>10. CASE Store
  <2>1. /\ pc' = "Loop" /\ measurementsData_' = Append(measurementsData_, measurementData)
        /\ UNCHANGED <<now, definition, uniqueIds_, measurementData>>
    BY <1>10 DEF Store, world, handlers
  <2>2. /\ Len(measurementsData_') = Len(measurementsData_) + 1 /\ Len(measurementsData_) \in Nat
        /\ \A k \in Samples : measurementsData_'[k] = measurementsData_[k]
        /\ measurementsData_'[Len(measurementsData_) + 1] = measurementData
    BY <2>1, AppendOne DEF ShapeInv, Samples, IsSeq
  <2>3. ASSUME NEW k \in 1..(Len(measurementsData_) + 1)
        PROVE  SampleOK(measurementsData_'[k], definition, now, uniqueIds_)
    <3>1. CASE k \in Samples
      BY <2>2, <3>1 DEF ItemsInv
    <3>2. CASE k = Len(measurementsData_) + 1
      BY <2>2, <3>2 DEF ItemsInv
    <3>. QED
      BY <2>2, <3>1, <3>2 DEF Samples
  <2>. QED
    BY <2>1, <2>2, <2>3 DEF ItemsInv, Samples
<1>11. ASSUME NEW t \in SystemTypes \cup ProcessTypes, InitializeRuntime(t) PROVE ItemsInv'
  <2>1. /\ pc = "Parsers" /\ pc' \in {"Terminated", "Fields", "Parsers"}
        /\ UNCHANGED <<now, target, field, definition, uniqueIds_, lastMeasurements_,
                       measurementData, measurementsData_>>
    BY <1>11 DEF InitializeRuntime, world
  <2>2. field = 1 /\ lastMeasurements_[ClassOf(target)] = <<>>
    BY <2>1 DEF ItemsInv
  <2>3. ItemsOK(<<>>, target, 0, definition, now, uniqueIds_)
    BY NoElements DEF ItemsOK
  <2>4. field - 1 = 0 /\ 0 <= Len(definition[ClassOf(target)])
    BY <1>1, <1>2, <2>2
  <2>5. ClassOf(target)' = ClassOf(target)
    BY <2>1 DEF ClassOf
  <2>. QED
    BY <2>1, <2>2, <2>3, <2>4, <2>5 DEF ItemsInv, Samples
<1>12. ASSUME NEW t \in SystemTypes \cup ProcessTypes, InitializeRuntimeFails(t) PROVE ItemsInv'
  <2>1. GiveUp /\ UNCHANGED <<now, definition, uniqueIds_, measurementsData_>>
    BY <1>12 DEF InitializeRuntimeFails, world, handlers
  <2>2. WentOn(target) /\ measurementData' = measurementData /\ now <= now'
    BY <1>1, <2>1, GivenUp
  <2>. QED
    BY <2>1, <2>2, ItemsKept
<1>13. CASE ParseMeasurement
  BY <1>13, ItemsMeasured
<1>14. CASE ParseMeasurementFails
  <2>1. /\ GiveUp /\ AtField /\ SetId(CurrentField)
        /\ UNCHANGED <<now, definition, measurementsData_>>
    BY <1>14 DEF ParseMeasurementFails, world
  <2>2. WentOn(target) /\ measurementData' = measurementData
    BY <2>1, GivenUp
  <2>3. \A k \in DOMAIN uniqueIds_ : k \in DOMAIN uniqueIds_' /\ uniqueIds_'[k] = uniqueIds_[k]
    BY <2>1, IdsGrow
  <2>4. \A k \in Samples : SampleOK(measurementsData_[k], definition, now, uniqueIds_')
    BY <1>1, <1>2, <2>3, SampleLater DEF ItemsInv
  <2>5. SampleOK(measurementData, definition, now, uniqueIds_')
    BY <1>1, <1>2, <2>3, SampleLater DEF ItemsInv
  <2>6. pc' # "Fields" /\ (pc' = "Parsers" => field' = 1 /\ lastMeasurements_'[ClassOf(target)'] = <<>>)
    BY <2>2, WentOnEmpty
  <2>. QED
    BY <2>1, <2>2, <2>4, <2>5, <2>6 DEF ItemsInv, Samples
<1>15. QED
  BY <1>3, <1>4, <1>5, <1>6, <1>7, <1>8, <1>9, <1>10, <1>11, <1>12, <1>13, <1>14 DEF Next

-----------------------------------------------------------------------------
(* Who is measured *)

\* A sample without process groups has measured nobody.
LEMMA NobodyIn ==
  ASSUME NEW s, s.PROCESSES = <<>>
  PROVE  MeasuredIn(s) = {} /\ InOrder(s)
BY NoElements DEF MeasuredIn, InOrder

\* Initially nobody has been measured or given up.
LEMMA ActiveInit == Init => ActiveInv
BY NobodyIn, NoElements DEF Init, ActiveInv, Samples

\* The samples stored do not change.
LEMMA ActiveKept ==
  ASSUME TypeInv, ActiveInv, UNCHANGED measurementsData_,
         \A p \in Processes : active'[p] => active[p],
         InOrder(measurementData'),
         \A k \in Samples : MeasuredIn(measurementData') \subseteq MeasuredIn(measurementsData_[k]),
         pc' \in {"Parsers", "Fields"} =>
           IF target' = System THEN measurementData'.PROCESSES = <<>>
           ELSE /\ active'[target']
                /\ \A p \in MeasuredIn(measurementData') : p < target'
                /\ \A p \in Processes :
                     p < target' /\ active'[p] => p \in MeasuredIn(measurementData'),
         pc' = "Store" => \A p \in Processes : active'[p] => p \in MeasuredIn(measurementData')
  PROVE  ActiveInv'
<1>1. ASSUME NEW k \in Samples
      PROVE  /\ InOrder(measurementsData_[k])
             /\ \A p \in Processes : active'[p] => p \in MeasuredIn(measurementsData_[k])
  BY DEF ActiveInv
<1>2. \A k, l \in Samples :
        k < l => MeasuredIn(measurementsData_[l]) \subseteq MeasuredIn(measurementsData_[k])
  BY DEF ActiveInv
<1>3. QED
  BY <1>1, <1>2 DEF ActiveInv, Samples

\* Everybody up to the target is done.
LEMMA ActiveWentOn ==
  ASSUME TypeInv, WentOn(target), \A p \in MeasuredIn(measurementData') : p \in Processes,
         target = System => measurementData'.PROCESSES = <<>>,
         target # System =>
           /\ \A p \in MeasuredIn(measurementData') : p <= target
           /\ \A p \in Processes : p <= target /\ active'[p] => p \in MeasuredIn(measurementData')
  PROVE  /\ pc' \in {"Parsers", "Fields"} =>
              IF target' = System THEN measurementData'.PROCESSES = <<>>
              ELSE /\ active'[target']
                   /\ \A p \in MeasuredIn(measurementData') : p < target'
                   /\ \A p \in Processes :
                        p < target' /\ active'[p] => p \in MeasuredIn(measurementData')
         /\ pc' = "Store" => \A p \in Processes : active'[p] => p \in MeasuredIn(measurementData')
<1>1. N \in Nat /\ System \notin Processes /\ Processes \subseteq Int
  BY MeasurementsAssumption DEF Processes
<1>2. target \in {System} \cup Processes
  BY DEF TypeInv
<1>0. target # System => target \in Int
  BY <1>1, <1>2
<1>3. CASE pc' = "Store"
  <2>1. \A p \in Processes : (target = System \/ p > target) => ~active'[p]
    BY <1>3 DEF WentOn
  <2>2. \A p \in Processes : active'[p] => target # System /\ p <= target
    <3>. SUFFICES ASSUME NEW p \in Processes, active'[p] PROVE target # System /\ p <= target
      OBVIOUS
    <3>1. target # System /\ ~(p > target)
      BY <2>1
    <3>2. p \in Int /\ target \in Int
      BY <1>0, <1>1, <3>1
    <3>. QED
      BY <3>1, <3>2
  <2>. QED
    BY <1>3, <2>2
<1>4. CASE pc' # "Store"
  <2>1. PICK p \in Processes :
          /\ target # System => p > target
          /\ active'[p]
          /\ \A q \in Processes : q < p /\ (target = System \/ q > target) => ~active'[q]
          /\ pc' = "Parsers" /\ target' = p
    BY <1>4 DEF WentOn
  <2>2. ASSUME NEW q \in MeasuredIn(measurementData') PROVE q < p
    <3>1. CASE target = System
      BY <3>1, NobodyIn
    <3>2. CASE target # System
      <4>1. q \in Processes /\ q <= target /\ p > target
        BY <2>1, <3>2
      <4>2. q \in Int /\ target \in Int /\ p \in Int
        BY <1>0, <1>1, <3>2, <4>1
      <4>. QED
        BY <4>1, <4>2
    <3>. QED
      BY <3>1, <3>2
  <2>3. ASSUME NEW q \in Processes, q < p, active'[q] PROVE q \in MeasuredIn(measurementData')
    <3>1. target # System /\ ~(q > target)
      BY <2>1, <2>3
    <3>2. q <= target
      <4>1. q \in Int /\ target \in Int
        BY <1>0, <1>1, <3>1
      <4>. QED
        BY <3>1, <4>1
    <3>. QED
      BY <2>3, <3>1, <3>2
  <2>. QED
    BY <1>1, <1>4, <2>1, <2>2, <2>3
<1>5. QED
  BY <1>3, <1>4

\* Every step keeps the active processes in every sample.
LEMMA ActiveStep ==
  ASSUME TypeInv, ShapeInv, ItemsInv, ItemsInv', ActiveInv, [Next]_vars
  PROVE  ActiveInv'
<1>1. N \in Nat /\ System \notin Processes /\ Processes \subseteq Int
  BY MeasurementsAssumption DEF Processes
<1>2. target \in {System} \cup Processes /\ active \in [Processes -> BOOLEAN]
  BY DEF TypeInv
<1>3. \A p \in MeasuredIn(measurementData) : p \in Processes
  BY DEF ItemsInv, SampleOK, GroupOK, MeasuredIn
<1>4. \A p \in MeasuredIn(measurementData') : p \in Processes
  BY DEF ItemsInv, SampleOK, GroupOK, MeasuredIn
<1>5. ASSUME UNCHANGED <<measurementData, measurementsData_, active>>,
             \/ UNCHANGED <<pc, target>>
             \/ pc' \notin {"Parsers", "Fields", "Store"}
             \/ pc = "Parsers" /\ pc' \in {"Parsers", "Fields"} /\ UNCHANGED target
             \/ pc = "Fields" /\ pc' = "Fields" /\ UNCHANGED target
      PROVE  ActiveInv'
  BY <1>5 DEF ActiveInv, Samples
<1>6. CASE UNCHANGED vars \/ Terminating
  BY <1>5, <1>6 DEF Terminating, vars
<1>7. CASE Tick
  BY <1>5, <1>7 DEF Tick
<1>8. ASSUME NEW p \in Processes, ProgramEnds(p) \/ WaitPid(p) \/ PidReused(p) PROVE ActiveInv'
  BY <1>5, <1>8 DEF ProgramEnds, WaitPid, PidReused
<1>9. CASE EndLoop \/ Initialize
  BY <1>5, <1>9 DEF EndLoop, Initialize
<1>10. ASSUME NEW t \in SystemTypes \cup ProcessTypes, InitializeRuntime(t) PROVE ActiveInv'
  <2>1. /\ UNCHANGED <<target, measurementData, measurementsData_, active>>
        /\ pc = "Parsers" /\ pc' \in {"Terminated", "Parsers", "Fields"}
    BY <1>10 DEF InitializeRuntime
  <2>. QED
    BY <1>5, <2>1
<1>11. CASE ParseMeasurement
  <2>1. /\ UNCHANGED <<target, measurementData, measurementsData_, active>>
        /\ pc = "Fields" /\ pc' \in {"Terminated", "Fields"}
    BY <1>11 DEF ParseMeasurement, AtField
  <2>. QED
    BY <1>5, <2>1
<1>12. CASE StartSample
  <2>1. /\ UNCHANGED <<measurementsData_, active>> /\ pc' = "Parsers" /\ target' = System
        /\ measurementData'.PROCESSES = <<>>
    BY <1>12 DEF StartSample, BeginParsing
  <2>2. MeasuredIn(measurementData') = {} /\ InOrder(measurementData')
    BY <2>1, NobodyIn
  <2>. QED
    BY <2>1, <2>2, ActiveKept
<1>13. ASSUME GiveUp, UNCHANGED measurementsData_, pc \in {"Parsers", "Fields"} PROVE ActiveInv'
  <2>1. /\ target # System => ~active'[target]
        /\ \A p \in Processes : active'[p] => active[p]
        /\ measurementData' = measurementData
        /\ WentOn(target)
    BY <1>13, GivenUp
  <2>2. /\ target = System => measurementData.PROCESSES = <<>>
        /\ target # System => /\ \A p \in MeasuredIn(measurementData) : p < target
                              /\ \A p \in Processes : p < target /\ active[p] => p \in MeasuredIn(measurementData)
    BY <1>13 DEF ActiveInv
  <2>3. target # System =>
           /\ \A p \in MeasuredIn(measurementData') : p <= target
           /\ \A p \in Processes : p <= target /\ active'[p] => p \in MeasuredIn(measurementData')
    BY <1>1, <1>2, <1>3, <2>1, <2>2
  <2>4. InOrder(measurementData')
    BY <2>1 DEF ActiveInv
  <2>5. \A k \in Samples : MeasuredIn(measurementData') \subseteq MeasuredIn(measurementsData_[k])
    BY <2>1 DEF ActiveInv
  <2>6. target = System => measurementData'.PROCESSES = <<>>
    BY <2>1, <2>2
  <2>7. /\ pc' \in {"Parsers", "Fields"} =>
             IF target' = System THEN measurementData'.PROCESSES = <<>>
             ELSE /\ active'[target']
                  /\ \A p \in MeasuredIn(measurementData') : p < target'
                  /\ \A p \in Processes :
                       p < target' /\ active'[p] => p \in MeasuredIn(measurementData')
        /\ pc' = "Store" => \A p \in Processes : active'[p] => p \in MeasuredIn(measurementData')
    BY <1>4, <2>1, <2>3, <2>6, ActiveWentOn
  <2>. QED
    BY <1>13, <2>1, <2>4, <2>5, <2>7, ActiveKept
<1>14. CASE ParseMeasurementFails
  BY <1>13, <1>14 DEF ParseMeasurementFails, AtField
<1>15. ASSUME NEW t \in SystemTypes \cup ProcessTypes, InitializeRuntimeFails(t) PROVE ActiveInv'
  BY <1>13, <1>15 DEF InitializeRuntimeFails
<1>16. CASE Collect
  <2>1. /\ WentOn(target) /\ pc = "Fields" /\ UNCHANGED <<active, measurementsData_>>
    BY <1>16, GoOn DEF Collect, TypeInv
  <2>2. CASE target = System
    <3>1. measurementData'.PROCESSES = measurementData.PROCESSES /\ measurementData.PROCESSES = <<>>
      BY <1>16, <2>1, <2>2 DEF Collect, ShapeInv, ActiveInv
    <3>2. MeasuredIn(measurementData') = {} /\ InOrder(measurementData')
      BY <3>1, NobodyIn
    <3>3. /\ pc' \in {"Parsers", "Fields"} =>
               IF target' = System THEN measurementData'.PROCESSES = <<>>
               ELSE /\ active'[target']
                    /\ \A p \in MeasuredIn(measurementData') : p < target'
                    /\ \A p \in Processes :
                         p < target' /\ active'[p] => p \in MeasuredIn(measurementData')
          /\ pc' = "Store" => \A p \in Processes : active'[p] => p \in MeasuredIn(measurementData')
      BY <1>4, <2>1, <2>2, <3>1, ActiveWentOn
    <3>. QED
      BY <2>1, <3>2, <3>3, ActiveKept
  <2>3. CASE target # System
    <3>. DEFINE groups == measurementData.PROCESSES
                g == [pipelineId |-> target, measuredItems |-> lastMeasurements_[ClassOf(target)]]
    <3>1. measurementData'.PROCESSES = Append(groups, g)
      BY <1>16, <2>3 DEF Collect, ShapeInv
    <3>2. IsSeq(groups)
      BY DEF ItemsInv, SampleOK
    <3>3. g.pipelineId = target
      OBVIOUS
    <3>. HIDE DEF groups, g
    <3>4. /\ Len(Append(groups, g)) = Len(groups) + 1 /\ Len(groups) \in Nat
          /\ \A i \in 1..Len(groups) : Append(groups, g)[i] = groups[i]
          /\ Append(groups, g)[Len(groups) + 1] = g
      BY <3>2, AppendOne DEF IsSeq
    <3>5. MeasuredIn(measurementData') = MeasuredIn(measurementData) \cup {target}
      <4>1. MeasuredIn(measurementData') = {Append(groups, g)[i].pipelineId : i \in 1..(Len(groups) + 1)}
        BY <3>1, <3>4 DEF MeasuredIn
      <4>2. MeasuredIn(measurementData) = {groups[i].pipelineId : i \in 1..Len(groups)}
        BY DEF MeasuredIn, groups
      <4>3. ASSUME NEW p \in MeasuredIn(measurementData') PROVE p \in MeasuredIn(measurementData) \cup {target}
        BY <3>3, <3>4, <4>1, <4>2
      <4>4. ASSUME NEW p \in MeasuredIn(measurementData) PROVE p \in MeasuredIn(measurementData')
        BY <3>4, <4>1, <4>2
      <4>5. target \in MeasuredIn(measurementData')
        BY <3>3, <3>4, <4>1
      <4>. QED
        BY <4>3, <4>4, <4>5
    <3>6. /\ active[target]
          /\ \A p \in MeasuredIn(measurementData) : p < target
          /\ \A p \in Processes : p < target /\ active[p] => p \in MeasuredIn(measurementData)
      BY <2>1, <2>3 DEF ActiveInv
    <3>7. /\ \A p \in MeasuredIn(measurementData') : p <= target
          /\ \A p \in Processes : p <= target /\ active'[p] => p \in MeasuredIn(measurementData')
      <4>1. target \in Int /\ target \in Processes
        BY <1>1, <1>2, <2>3
      <4>2. ASSUME NEW p \in MeasuredIn(measurementData') PROVE p <= target
          <5>1. p = target \/ (p \in Processes /\ p < target)
            BY <1>3, <3>5, <3>6, <4>2
          <5>2. p \in Int
            BY <1>1, <4>1, <5>1
          <5>. QED
            BY <4>1, <5>1, <5>2
      <4>3. ASSUME NEW p \in Processes, p <= target, active'[p]
            PROVE  p \in MeasuredIn(measurementData')
        <5>1. p = target \/ p < target
          BY <1>1, <4>1, <4>3
        <5>. QED
          BY <2>1, <3>5, <3>6, <4>3, <5>1
      <4>. QED
        BY <4>2, <4>3
    <3>8. InOrder(measurementData')
      <4>. SUFFICES ASSUME NEW i \in 1..(Len(groups) + 1), NEW j \in 1..(Len(groups) + 1), i < j
                    PROVE  Append(groups, g)[i].pipelineId < Append(groups, g)[j].pipelineId
        BY <3>1, <3>4 DEF InOrder
      <4>1. i \in 1..Len(groups)
        BY <3>4
      <4>2. CASE j = Len(groups) + 1
        <5>1. groups[i].pipelineId \in MeasuredIn(measurementData)
          BY <4>1 DEF MeasuredIn, groups
        <5>. QED
          BY <3>3, <3>4, <3>6, <4>1, <4>2, <5>1
      <4>3. CASE j # Len(groups) + 1
        <5>1. j \in 1..Len(groups)
          BY <3>4, <4>3
        <5>2. InOrder(measurementData)
          BY DEF ActiveInv
        <5>. QED
          BY <3>4, <4>1, <5>1, <5>2 DEF InOrder, groups
      <4>. QED
        BY <4>2, <4>3
    <3>9. \A k \in Samples : MeasuredIn(measurementData') \subseteq MeasuredIn(measurementsData_[k])
      <4>. SUFFICES ASSUME NEW k \in Samples PROVE MeasuredIn(measurementData') \subseteq MeasuredIn(measurementsData_[k])
        OBVIOUS
      <4>1. target \in MeasuredIn(measurementsData_[k])
        BY <1>2, <2>3, <3>6 DEF ActiveInv
      <4>2. MeasuredIn(measurementData) \subseteq MeasuredIn(measurementsData_[k])
        BY DEF ActiveInv
      <4>. QED
        BY <3>5, <4>1, <4>2
    <3>10. /\ pc' \in {"Parsers", "Fields"} =>
               IF target' = System THEN measurementData'.PROCESSES = <<>>
               ELSE /\ active'[target']
                    /\ \A p \in MeasuredIn(measurementData') : p < target'
                    /\ \A p \in Processes :
                         p < target' /\ active'[p] => p \in MeasuredIn(measurementData')
           /\ pc' = "Store" => \A p \in Processes : active'[p] => p \in MeasuredIn(measurementData')
      BY <1>4, <2>1, <2>3, <3>7, ActiveWentOn
    <3>. QED
      BY <2>1, <3>8, <3>9, <3>10, ActiveKept
  <2>. QED
    BY <2>2, <2>3
<1>17. CASE Store
  <2>1. /\ pc = "Store" /\ pc' = "Loop"
        /\ measurementsData_' = Append(measurementsData_, measurementData)
        /\ UNCHANGED <<active, measurementData>>
    BY <1>17 DEF Store
  <2>2. /\ Len(measurementsData_') = Len(measurementsData_) + 1 /\ Len(measurementsData_) \in Nat
        /\ \A k \in Samples : measurementsData_'[k] = measurementsData_[k]
        /\ measurementsData_'[Len(measurementsData_) + 1] = measurementData
    BY <2>1, AppendOne DEF ShapeInv, Samples, IsSeq
  <2>3. \A p \in Processes : active[p] => p \in MeasuredIn(measurementData)
    BY <2>1 DEF ActiveInv
  <2>. DEFINE last == Len(measurementsData_) + 1
  <2>4. Samples' = 1..last /\ \A k \in 1..last : k \in Samples \/ k = last
    BY <2>2 DEF Samples
  <2>5. ASSUME NEW k \in 1..last
        PROVE  /\ InOrder(measurementsData_'[k])
               /\ \A p \in Processes : active[p] => p \in MeasuredIn(measurementsData_'[k])
               /\ MeasuredIn(measurementData) \subseteq MeasuredIn(measurementsData_'[k])
    <3>1. CASE k \in Samples
      BY <2>2, <3>1 DEF ActiveInv
    <3>2. CASE k = last
      BY <2>2, <2>3, <3>2 DEF ActiveInv
    <3>. QED
      BY <2>4, <3>1, <3>2
  <2>6. ASSUME NEW k \in 1..last, NEW l \in 1..last, k < l
        PROVE  MeasuredIn(measurementsData_'[l]) \subseteq MeasuredIn(measurementsData_'[k])
    <3>1. k \in Samples
      BY <2>2, <2>4, <2>6
    <3>2. CASE l \in Samples
      BY <2>2, <2>6, <3>1, <3>2 DEF ActiveInv
    <3>3. CASE l = last
      BY <2>2, <3>1, <3>3 DEF ActiveInv
    <3>. QED
      BY <2>4, <3>2, <3>3
  <2>7. InOrder(measurementData)
    BY DEF ActiveInv
  <2>. HIDE DEF last
  <2>. QED
    BY <2>1, <2>4, <2>5, <2>6, <2>7 DEF ActiveInv
<1>18. QED
  BY <1>6, <1>7, <1>8, <1>9, <1>10, <1>11, <1>12, <1>14, <1>15, <1>16, <1>17 DEF Next

-----------------------------------------------------------------------------
(* CPU time *)

\* Nothing measured holds no CPU values.
LEMMA NoCpuReads == CpuReadsOf(<<>>) = {}
BY NoElements DEF CpuReadsOf

\* An appended item adds at most its own CPU value.
LEMMA CpuReadsAppended ==
  ASSUME NEW items, IsSeq(items), NEW item, NEW r \in CpuReadsOf(Append(items, item))
  PROVE  r \in CpuReadsOf(items) \/ (item.type = "PROC_STAT" /\ r = item.read)
<1>1. /\ Len(Append(items, item)) = Len(items) + 1 /\ Len(items) \in Nat
      /\ \A i \in 1..Len(items) : Append(items, item)[i] = items[i]
      /\ Append(items, item)[Len(items) + 1] = item
  BY AppendOne DEF IsSeq
<1>2. PICK j \in 1..(Len(items) + 1) :
        Append(items, item)[j].type = "PROC_STAT" /\ r = Append(items, item)[j].read
  BY <1>1 DEF CpuReadsOf
<1>3. CASE j = Len(items) + 1
  BY <1>1, <1>2, <1>3
<1>4. CASE j # Len(items) + 1
  <2>1. j \in 1..Len(items)
    BY <1>1, <1>4
  <2>. QED
    BY <1>1, <1>2, <2>1 DEF CpuReadsOf
<1>5. QED
  BY <1>3, <1>4

\* CPU values are about times that have been.
LEMMA CpuReadsAreNumbers ==
  ASSUME NEW s, NEW d, NEW t \in Nat, NEW ids, SampleOK(s, d, t, ids),
         NEW r \in CpuReadsOf(s.SYSTEM)
  PROVE  r[1] \in 0..t /\ r[2] \in 0..t
<1>1. s.SYSTEM # <<>>
  BY NoCpuReads
<1>2. ItemsOK(s.SYSTEM, System, Len(d["SYSTEM"]), d, t, ids)
  BY <1>1 DEF SampleOK
<1>3. QED
  BY <1>2 DEF CpuReadsOf, ItemsOK, ItemOK

\* Initially no CPU time has been read.
LEMMA CpuInit == Init => CpuInv
BY NoElements DEF Init, CpuInv, CpuStored, CpuEndsAt, Samples, HasReadCpu

\* A step after the reading of /proc/stat.
LEMMA CpuGoesOn ==
  ASSUME CpuInv, HasReadCpu, pc' \in {"Parsers", "Fields", "Store"} => HasReadCpu',
         pc' \notin {"Initialize", "Loop", "Analyze"},
         UNCHANGED <<now, procStat_, procStatCorrected_, measurementsData_>>,
         \A r \in CpuReadsOf(measurementData'.SYSTEM) : r = procStatCorrected_,
         pc' = "Fields" /\ target' = System =>
           \A r \in CpuReadsOf(lastMeasurements_'["SYSTEM"]) : r = procStatCorrected_
  PROVE  CpuInv'
<1>1. CpuStored' /\ CpuEndsAt(procStatCorrected_[1])'
  BY DEF CpuInv, CpuStored, CpuEndsAt, Samples
<1>2. pc # "Initialize"
  BY DEF HasReadCpu
<1>3. QED
  BY <1>1, <1>2 DEF CpuInv

\* Every step lets the CPU values of the samples follow each other.
LEMMA CpuStep ==
  ASSUME TypeInv, ShapeInv, IdsInv, ItemsInv, CpuInv, [Next]_vars
  PROVE  CpuInv'
<1>1. /\ now \in Nat /\ target \in {System} \cup Processes /\ pending \subseteq FieldTypes(target)
      /\ System \notin Processes
  BY MeasurementsAssumption DEF TypeInv, Processes
<1>2. ASSUME UNCHANGED <<pc, target, pending, procStat_, procStatCorrected_, lastMeasurements_,
                         measurementData, measurementsData_>>,
             now' \in Nat, now <= now'
      PROVE  CpuInv'
  <2>1. CpuStored' /\ HasReadCpu' = HasReadCpu
    BY <1>2 DEF CpuInv, CpuStored, Samples, HasReadCpu
  <2>2. \A t : CpuEndsAt(t) => CpuEndsAt(t)'
    BY <1>2 DEF CpuEndsAt, Samples
  <2>3. pc # "Initialize" => procStat_ \in 0..now'
    BY <1>1, <1>2 DEF CpuInv
  <2>. QED
    BY <1>2, <2>1, <2>2, <2>3 DEF CpuInv
<1>3. CASE UNCHANGED vars \/ Terminating
  <2>1. now' = now
    BY <1>3 DEF Terminating, vars, world
  <2>. QED
    BY <1>1, <1>2, <1>3, <2>1 DEF Terminating, vars, handlers
<1>4. CASE Tick
  <2>1. now' = now + 1
    BY <1>4 DEF Tick
  <2>. QED
    BY <1>1, <1>2, <1>4, <2>1 DEF Tick, handlers
<1>5. ASSUME NEW p \in Processes, ProgramEnds(p) \/ WaitPid(p) \/ PidReused(p) PROVE CpuInv'
  <2>1. now' = now
    BY <1>5 DEF ProgramEnds, WaitPid, PidReused
  <2>. QED
    BY <1>1, <1>2, <1>5, <2>1 DEF ProgramEnds, WaitPid, PidReused, handlers
<1>6. CASE EndLoop
  <2>1. /\ pc = "Loop" /\ pc' = "Analyze"
        /\ UNCHANGED <<now, procStat_, measurementsData_>>
    BY <1>6 DEF EndLoop, world, handlers
  <2>2. CpuStored' /\ CpuEndsAt(procStat_)' /\ ~HasReadCpu'
    BY <2>1 DEF CpuInv, CpuStored, CpuEndsAt, Samples, HasReadCpu
  <2>. QED
    BY <2>1, <2>2 DEF CpuInv
<1>7. CASE Initialize
  <2>1. /\ pc' = "Loop" /\ procStat_' = now /\ now' = now /\ measurementsData_' = <<>>
    BY <1>7 DEF Initialize, ShapeInv, GetProcStat, world
  <2>2. CpuStored' /\ CpuEndsAt(procStat_)' /\ ~HasReadCpu'
    BY <2>1, NoElements DEF CpuStored, CpuEndsAt, Samples, HasReadCpu
  <2>. QED
    BY <1>1, <2>1, <2>2 DEF CpuInv
<1>8. CASE StartSample
  <2>1. /\ pc = "Loop" /\ pc' = "Parsers" /\ target' = System /\ pending' = SystemTypes
        /\ measurementData'.SYSTEM = <<>>
        /\ UNCHANGED <<now, procStat_, measurementsData_>>
    BY <1>8 DEF StartSample, BeginParsing, FieldTypes, world, handlers
  <2>2. CpuStored' /\ CpuEndsAt(procStat_)' /\ ~HasReadCpu'
    BY <2>1 DEF CpuInv, CpuStored, CpuEndsAt, Samples, HasReadCpu, SystemTypes
  <2>. QED
    BY <2>1, <2>2 DEF CpuInv
<1>9. ASSUME NEW t \in SystemTypes \cup ProcessTypes, InitializeRuntime(t) PROVE CpuInv'
  <2>1. /\ pc = "Parsers" /\ t \in pending /\ pending' = pending \ {t}
        /\ pc' \in {"Terminated", "Fields", "Parsers"} /\ (pc' = "Fields" => pending' = {})
        /\ UNCHANGED <<now, target, lastMeasurements_, measurementData, measurementsData_>>
    BY <1>9 DEF InitializeRuntime, world
  <2>2. target = System => lastMeasurements_["SYSTEM"] = <<>>
    BY <2>1 DEF ItemsInv, ClassOf
  <2>3. CpuStored' /\ \A u : CpuEndsAt(u) => CpuEndsAt(u)'
    BY <2>1 DEF CpuInv, CpuStored, CpuEndsAt, Samples
  <2>4. CASE t = "PROC_STAT"
    <3>1. target = System
      BY <1>1, <2>1, <2>4 DEF FieldTypes, ProcessTypes
    <3>2. ~HasReadCpu
      BY <2>1, <2>4, <3>1 DEF HasReadCpu
    <3>3. /\ procStat_ \in 0..now /\ CpuEndsAt(procStat_) /\ measurementData.SYSTEM = <<>>
      BY <2>1, <3>2 DEF CpuInv
    <3>4. procStat_' = now /\ procStatCorrected_' = <<procStat_, now>>
      <4>1. procStat_ # None
        BY <3>3, MeasurementsAssumption
      <4>. QED
        BY <1>9, <2>4, <4>1 DEF InitializeRuntime, ParseProcStat, GetProcStat, Minus
    <3>5. pc' = "Parsers" => HasReadCpu'
      BY <2>1, <2>4 DEF HasReadCpu
    <3>6. /\ procStatCorrected_'[1] = procStat_ /\ procStatCorrected_'[2] = procStat_'
          /\ procStat_ \in Int /\ procStat_ <= now /\ now \in 0..now
      BY <1>1, <3>3, <3>4
    <3>7. CpuEndsAt(procStatCorrected_[1])'
      <4>1. PICK u : u = procStat_
        OBVIOUS
      <4>2. CpuEndsAt(u)'
        BY <2>3, <3>3, <4>1
      <4>3. u = procStatCorrected_'[1]
        BY <3>6, <4>1
      <4>. QED
        BY <4>2, <4>3 DEF CpuEndsAt
    <3>. QED
      BY <2>1, <2>2, <2>3, <3>1, <3>3, <3>4, <3>5, <3>6, <3>7, NoCpuReads DEF CpuInv
  <2>5. CASE t # "PROC_STAT"
    <3>1. UNCHANGED <<procStat_, procStatCorrected_>>
      BY <1>9, <2>5 DEF InitializeRuntime
    <3>2. CASE HasReadCpu
      <4>1. pc' \in {"Parsers", "Fields", "Store"} => HasReadCpu'
        BY <2>1, <3>2 DEF HasReadCpu
      <4>2. \A r \in CpuReadsOf(measurementData'.SYSTEM) : r = procStatCorrected_
        BY <2>1, <3>2 DEF CpuInv
      <4>3. pc' = "Fields" /\ target' = System => CpuReadsOf(lastMeasurements_'["SYSTEM"]) = {}
        BY <2>1, <2>2, NoCpuReads
      <4>. QED
        BY <2>1, <3>1, <3>2, <4>1, <4>2, <4>3, CpuGoesOn
    <3>3. CASE ~HasReadCpu
      <4>1. target = System /\ "PROC_STAT" \in pending'
        BY <2>1, <2>5, <3>3 DEF HasReadCpu
      <4>2. pc' # "Fields" /\ ~HasReadCpu'
        BY <2>1, <4>1 DEF HasReadCpu
      <4>3. CpuEndsAt(procStat_)'
        <5>1. CpuEndsAt(procStat_)
          BY <2>1, <3>3 DEF CpuInv
        <5>. QED
          BY <2>1, <3>1, <5>1 DEF CpuEndsAt, Samples
      <4>. QED
        BY <2>1, <2>3, <3>1, <3>3, <4>2, <4>3 DEF CpuInv
    <3>. QED
      BY <3>2, <3>3
  <2>. QED
    BY <2>4, <2>5
<1>10. ASSUME WentOn(target), HasReadCpu,
              UNCHANGED <<now, procStat_, procStatCorrected_, measurementsData_>>,
              \A r \in CpuReadsOf(measurementData'.SYSTEM) : r = procStatCorrected_
       PROVE  CpuInv'
  <2>1. pc' \in {"Store", "Parsers"} /\ HasReadCpu'
    BY <1>1, <1>10 DEF WentOn, HasReadCpu
  <2>. QED
    BY <1>10, <2>1, CpuGoesOn
<1>11. ASSUME NEW t \in SystemTypes \cup ProcessTypes, InitializeRuntimeFails(t) PROVE CpuInv'
  <2>1. /\ GiveUp /\ pc = "Parsers" /\ t \in pending \cap {"PID_STAT", "PID_STATM"}
        /\ UNCHANGED <<now, procStat_, procStatCorrected_, measurementsData_>>
    BY <1>11 DEF InitializeRuntimeFails, world, handlers
  <2>2. target # System
    BY <1>1, <2>1 DEF FieldTypes, SystemTypes
  <2>3. HasReadCpu
    BY <2>1, <2>2 DEF HasReadCpu
  <2>4. WentOn(target) /\ measurementData' = measurementData
    BY <2>1, GivenUp
  <2>5. \A r \in CpuReadsOf(measurementData'.SYSTEM) : r = procStatCorrected_
    BY <2>3, <2>4 DEF CpuInv
  <2>. QED
    BY <1>10, <2>1, <2>3, <2>4, <2>5
<1>12. CASE ParseMeasurementFails
  <2>1. /\ GiveUp /\ pc = "Fields"
        /\ UNCHANGED <<now, procStat_, procStatCorrected_, measurementsData_>>
    BY <1>12 DEF ParseMeasurementFails, AtField, world
  <2>2. HasReadCpu
    BY <2>1 DEF HasReadCpu
  <2>3. WentOn(target) /\ measurementData' = measurementData
    BY <2>1, GivenUp
  <2>4. \A r \in CpuReadsOf(measurementData'.SYSTEM) : r = procStatCorrected_
    BY <2>2, <2>3 DEF CpuInv
  <2>. QED
    BY <1>10, <2>1, <2>2, <2>3, <2>4
<1>13. CASE Collect
  <2>1. /\ WentOn(target) /\ pc = "Fields"
        /\ UNCHANGED <<now, procStat_, procStatCorrected_, measurementsData_>>
    BY <1>13, GoOn DEF Collect, TypeInv, world, handlers
  <2>2. HasReadCpu
    BY <2>1 DEF HasReadCpu
  <2>3. \A r \in CpuReadsOf(measurementData'.SYSTEM) : r = procStatCorrected_
    <3>1. CASE target = System
      <4>1. measurementData'.SYSTEM = lastMeasurements_["SYSTEM"]
        BY <1>13, <3>1 DEF Collect, ShapeInv, ClassOf
      <4>. QED
        BY <2>1, <3>1, <4>1 DEF CpuInv
    <3>2. CASE target # System
      <4>1. measurementData'.SYSTEM = measurementData.SYSTEM
        BY <1>13, <3>2 DEF Collect, ShapeInv
      <4>. QED
        BY <2>2, <4>1 DEF CpuInv
    <3>. QED
      BY <3>1, <3>2
  <2>. QED
    BY <1>10, <2>1, <2>2, <2>3
<1>14. CASE ParseMeasurement
  <2>1. /\ AtField /\ pc = "Fields"
        /\ pc' = IF CurrentValue = Thrown THEN "Terminated" ELSE "Fields"
        /\ UNCHANGED <<now, target, procStat_, procStatCorrected_, measurementData,
                       measurementsData_>>
    BY <1>14 DEF ParseMeasurement, AtField, world
  <2>2. HasReadCpu /\ (pc' = "Fields" => HasReadCpu')
    BY <2>1 DEF HasReadCpu
  <2>3. \A r \in CpuReadsOf(measurementData'.SYSTEM) : r = procStatCorrected_
    BY <2>1, <2>2 DEF CpuInv
  <2>4. ASSUME pc' = "Fields", target = System, NEW r \in CpuReadsOf(lastMeasurements_'["SYSTEM"])
        PROVE  r = procStatCorrected_
    <3>. DEFINE items == lastMeasurements_["SYSTEM"]
    <3>1. CurrentValue # Thrown
      BY <2>1, <2>4
    <3>2. CurrentField.type = "PROC_STAT" => Read(CurrentField.type) = procStatCorrected_
      BY <2>1, <3>1, WhatWasRead
    <3>. DEFINE item == [id |-> ItemId(CurrentField), of |-> <<target, CurrentField.name>>,
                         type |-> CurrentField.type, read |-> Read(CurrentField.type),
                         measuredValue |-> CurrentValue]
    <3>3. /\ lastMeasurements_' = [lastMeasurements_ EXCEPT !["SYSTEM"] = Append(@, item)]
          /\ item.type = CurrentField.type /\ item.read = Read(CurrentField.type)
      <4>1. ClassOf(target) = "SYSTEM"
        BY <2>4 DEF ClassOf
      <4>. QED
        BY <1>14, <4>1 DEF ParseMeasurement
    <3>4. lastMeasurements_'["SYSTEM"] = Append(items, item)
      BY <3>3 DEF ShapeInv, Classes
    <3>5. IsSeq(items)
      BY <2>1, <2>4 DEF ItemsInv, ItemsOK, ClassOf
    <3>6. \A s \in CpuReadsOf(items) : s = procStatCorrected_
      BY <2>1, <2>4 DEF CpuInv
    <3>. HIDE DEF items, item
    <3>. QED
      BY <2>4, <3>2, <3>3, <3>4, <3>5, <3>6, CpuReadsAppended
  <2>. QED
    BY <2>1, <2>2, <2>3, <2>4, CpuGoesOn
<1>15. CASE Store
  <2>. DEFINE last == Len(measurementsData_) + 1
              Reads(k) == CpuReadsOf(measurementsData_'[k].SYSTEM)
  <2>1. /\ pc = "Store" /\ pc' = "Loop"
        /\ measurementsData_' = Append(measurementsData_, measurementData)
        /\ UNCHANGED <<now, procStat_>>
    BY <1>15 DEF Store, world, handlers
  <2>2. /\ Len(measurementsData_') = last /\ Len(measurementsData_) \in Nat
        /\ \A k \in Samples : measurementsData_'[k] = measurementsData_[k]
        /\ measurementsData_'[last] = measurementData
    BY <2>1, AppendOne DEF ShapeInv, Samples, IsSeq
  <2>3. Samples' = 1..last /\ \A k \in 1..last : k \in Samples \/ k = last
    BY <2>2 DEF Samples
  <2>4. /\ procStatCorrected_[1] \in Int /\ procStatCorrected_[1] <= procStatCorrected_[2]
        /\ procStatCorrected_[2] = procStat_ /\ procStat_ \in 0..now
        /\ \A r \in CpuReadsOf(measurementData.SYSTEM) : r = procStatCorrected_
        /\ CpuEndsAt(procStatCorrected_[1])
    BY <2>1 DEF CpuInv, HasReadCpu
  <2>5. \A k \in Samples : Reads(k) = CpuReadsOf(measurementsData_[k].SYSTEM)
    BY <2>2
  <2>6. \A r \in Reads(last) : r = procStatCorrected_
    BY <2>2, <2>4
  <2>7. \A k \in Samples : \A r \in Reads(k) : r[1] \in Int /\ r[2] \in Int
    <3>1. \A k \in Samples : \A r \in CpuReadsOf(measurementsData_[k].SYSTEM) :
            r[1] \in 0..now /\ r[2] \in 0..now
      BY <1>1, CpuReadsAreNumbers DEF ItemsInv
    <3>. QED
      BY <1>1, <2>5, <3>1
  <2>8. \A k \in Samples : \A r \in Reads(k) :
          /\ r[1] <= r[2] /\ r[2] <= procStatCorrected_[1]
          /\ k = Len(measurementsData_) => r[2] = procStatCorrected_[1]
    BY <2>4, <2>5 DEF CpuInv, CpuStored, CpuEndsAt
  <2>9. \A k, l \in Samples : k < l =>
          \A r \in Reads(k), s \in Reads(l) : r[2] <= s[1] /\ (l = k + 1 => r[2] = s[1])
    BY <2>5 DEF CpuInv, CpuStored
  <2>. HIDE DEF Reads
  <2>10. ASSUME NEW k \in 1..last, NEW r \in Reads(k)
         PROVE  r[1] <= r[2] /\ r[2] <= procStat_ /\ (k = last => r[2] = procStat_)
    <3>1. CASE k = last
      BY <2>4, <2>6, <2>10, <3>1
    <3>2. CASE k # last
      <4>1. k \in Samples
        BY <2>3, <3>2
      <4>2. r[1] <= r[2] /\ r[2] <= procStatCorrected_[1] /\ r[2] \in Int
        BY <2>7, <2>8, <4>1
      <4>3. r[2] <= procStat_
        BY <2>4, <4>2
      <4>. QED
        BY <3>2, <4>2, <4>3
    <3>. QED
      BY <3>1, <3>2
  <2>11. ASSUME NEW k \in 1..last, NEW l \in 1..last, k < l, NEW r \in Reads(k), NEW s \in Reads(l)
         PROVE  r[2] <= s[1] /\ (l = k + 1 => r[2] = s[1])
    <3>1. k \in Samples /\ (l \in Samples \/ l = last)
      BY <2>2, <2>3, <2>11
    <3>2. CASE l = last
      <4>1. l = k + 1 => k = Len(measurementsData_)
        BY <2>2, <3>2
      <4>2. s[1] = procStatCorrected_[1]
        BY <2>6, <3>2
      <4>. QED
        BY <2>8, <3>1, <4>1, <4>2
    <3>3. CASE l \in Samples
      BY <2>9, <2>11, <3>1, <3>3
    <3>. QED
      BY <3>1, <3>2, <3>3
  <2>12. CpuStored'
    BY <2>3, <2>10, <2>11 DEF CpuStored, Reads
  <2>13. CpuEndsAt(procStat_)'
    BY <2>1, <2>2, <2>3, <2>10 DEF CpuEndsAt, Reads
  <2>14. ~HasReadCpu'
    BY <2>1 DEF HasReadCpu
  <2>. QED
    BY <2>1, <2>4, <2>12, <2>13, <2>14 DEF CpuInv
<1>16. QED
  BY <1>3, <1>4, <1>5, <1>6, <1>7, <1>8, <1>9, <1>11, <1>12, <1>13, <1>14, <1>15 DEF Next

-----------------------------------------------------------------------------
(* Theorems *)

\* The inductive invariant holds in every state.
THEOREM Invariance == Spec => []IInv
<1>1. Init => IInv
  <2>1. Init => ConfiguredInv
    BY DEF Init, ConfiguredInv
  <2>. QED
    BY <2>1, TypeInit, ShapeInit, IdsInit, ItemsInit, ActiveInit, CpuInit DEF IInv
<1>2. IInv /\ [Next]_vars => IInv'
  <2>. SUFFICES ASSUME IInv, [Next]_vars PROVE IInv'
    OBVIOUS
  <2>1. TypeInv /\ ShapeInv /\ ConfiguredInv /\ IdsInv /\ ItemsInv /\ ActiveInv /\ CpuInv
    BY DEF IInv
  <2>2. TypeInv' /\ ShapeInv' /\ ConfiguredInv' /\ IdsInv'
    BY <2>1, TypeStep, ShapeStep, ConfiguredStep, IdsStep
  <2>3. ItemsInv'
    BY <2>1, <2>2, ItemsStep
  <2>4. ActiveInv'
    BY <2>1, <2>3, ActiveStep
  <2>5. CpuInv'
    BY <2>1, CpuStep
  <2>. QED
    BY <2>2, <2>3, <2>4, <2>5 DEF IInv
<1>3. QED
  BY <1>1, <1>2, PTL DEF Spec

\* Every item stored was measured of some field of something.
LEMMA WhereFrom ==
  ASSUME ItemsInv, NEW a \in AllItems
  PROVE  \E x \in {System} \cup Processes : \E k \in 1..Len(definition[ClassOf(x)]) :
           ItemOK(a, x, definition[ClassOf(x)][k], now, uniqueIds_)
<1>1. PICK n \in DOMAIN measurementsData_ : a \in ItemsOf(measurementsData_[n])
  BY DEF AllItems
<1>. DEFINE s == measurementsData_[n]
<1>2. PICK m \in Samples : m = n
  BY <1>1 DEF Samples
<1>3. SampleOK(s, definition, now, uniqueIds_)
  BY <1>2 DEF ItemsInv
<1>. HIDE DEF s
<1>4. CASE a \in Range(s.SYSTEM)
  <2>1. PICK k \in DOMAIN s.SYSTEM : a = s.SYSTEM[k]
    BY <1>4 DEF Range
  <2>2. s.SYSTEM # <<>>
    BY <2>1
  <2>3. ItemsOK(s.SYSTEM, System, Len(definition["SYSTEM"]), definition, now, uniqueIds_)
    BY <1>3, <2>2 DEF SampleOK
  <2>4. k \in 1..Len(definition["SYSTEM"])
    BY <2>1, <2>3 DEF ItemsOK, IsSeq
  <2>. QED
    BY <2>1, <2>3, <2>4 DEF ItemsOK, ClassOf
<1>5. CASE \E g \in Range(s.PROCESSES) : a \in Range(g.measuredItems)
  <2>1. PICK j \in DOMAIN s.PROCESSES : a \in Range(s.PROCESSES[j].measuredItems)
    BY <1>5 DEF Range
  <2>2. j \in 1..Len(s.PROCESSES)
    BY <1>3, <2>1 DEF SampleOK, IsSeq
  <2>3. GroupOK(s.PROCESSES[j], definition, now, uniqueIds_)
    BY <1>3, <2>2 DEF SampleOK
  <2>. DEFINE who == s.PROCESSES[j].pipelineId
              items == s.PROCESSES[j].measuredItems
  <2>4. /\ who \in Processes
        /\ ItemsOK(items, who, Len(definition["PROCESSES"]), definition, now, uniqueIds_)
    BY <2>3 DEF GroupOK
  <2>5. PICK k \in DOMAIN items : a = items[k]
    BY <2>1 DEF Range
  <2>6. ClassOf(who) = "PROCESSES"
    BY <2>4, MeasurementsAssumption DEF ClassOf, Processes
  <2>. HIDE DEF who, items
  <2>7. k \in 1..Len(definition["PROCESSES"])
    BY <2>4, <2>5 DEF ItemsOK, IsSeq
  <2>. QED
    BY <2>4, <2>5, <2>6, <2>7 DEF ItemsOK
<1>6. QED
  BY <1>1, <1>4, <1>5 DEF ItemsOf, s

\* The types are right, and every stored item has an id that was handed out and is about a
\* time that has been.
THEOREM TypeCorrect == Spec => []TypeOK
<1>1. IInv => TypeOK
  <2>. SUFFICES ASSUME IInv PROVE TypeOK
    OBVIOUS
  <2>. USE DEF IInv
  <2>1. /\ now \in 0..MaxTicks
        /\ life \in [Processes -> {"runs", "zombie", "gone", "foreign"}]
        /\ pc \in {"Initialize", "Loop", "Parsers", "Fields", "Store", "Analyze", "Terminated"}
        /\ target \in {System} \cup Processes
        /\ pending \subseteq FieldTypes(target)
        /\ field \in Nat /\ uniqueId \in Nat
        /\ active \in [Processes -> BOOLEAN] /\ statOwner \in [Processes -> Owners]
    BY DEF TypeInv
  <2>2. {pidStatData_[p] : p \in Processes} \cup {pidStatmData_[p] : p \in Processes}
          \cup {meminfo_, procStat_} \subseteq Nat \cup {None}
    <3>1. 0..now \subseteq Nat
      BY <2>1
    <3>2. \A p \in Processes : pidStatData_[p] \in 0..now \cup {None} /\ pidStatmData_[p] \in 0..now \cup {None}
      BY DEF TypeInv
    <3>3. meminfo_ \in 0..now \cup {None} /\ procStat_ \in 0..now \cup {None}
      BY DEF TypeInv
    <3>. QED
      BY <3>1, <3>2, <3>3
  <2>3. ASSUME NEW i \in AllItems
        PROVE  /\ i.id \in 1..uniqueId /\ i.of[1] \in {System} \cup Processes
               /\ i.read[1] \in 0..now /\ i.read[2] \in 0..now
    <3>0. PICK x \in {System} \cup Processes : \E k \in 1..Len(definition[ClassOf(x)]) :
            ItemOK(i, x, definition[ClassOf(x)][k], now, uniqueIds_)
      BY WhereFrom
    <3>1. PICK k \in 1..Len(definition[ClassOf(x)]) :
            ItemOK(i, x, definition[ClassOf(x)][k], now, uniqueIds_)
      BY <3>0
    <3>2. definition[ClassOf(x)][k].id \in 1..uniqueId
      <4>1. ClassOf(x) \in Classes
        BY DEF ClassOf, Classes
      <4>. QED
        BY <2>1, <4>1 DEF IdsInv, FieldsOK
    <3>3. \A l \in DOMAIN uniqueIds_ : uniqueIds_[l] \in 1..uniqueId
      BY DEF IdsInv
    <3>. QED
      BY <3>1, <3>2, <3>3 DEF ItemOK
  <2>. QED
    BY <2>1, <2>2, <2>3 DEF TypeOK
<1> QED
  BY <1>1, Invariance, PTL

\* Over the whole test an id stands for one sensor, and a sensor keeps its id, if the
\* configuration gives the sensors of a class different names.
THEOREM IdsNameSensors == DistinctNames => (Spec => []EveryIdNamesOneSensor)
<1> SUFFICES ASSUME DistinctNames PROVE Spec => []EveryIdNamesOneSensor
  OBVIOUS
<1>1. IInv => EveryIdNamesOneSensor
  <2>. SUFFICES ASSUME IInv PROVE EveryIdNamesOneSensor
    OBVIOUS
  <2>. SUFFICES ASSUME NEW a \in AllItems, NEW b \in AllItems
                PROVE  a.id = b.id <=> a.of = b.of
    BY DEF EveryIdNamesOneSensor
  <2>. DEFINE d(x) == definition[ClassOf(x)]
  <2>0. ItemsInv /\ IdsInv /\ ShapeInv /\ ConfiguredInv
    BY DEF IInv
  <2>x. PICK x \in {System} \cup Processes : \E k \in 1..Len(d(x)) :
          ItemOK(a, x, d(x)[k], now, uniqueIds_)
    BY <2>0, WhereFrom
  <2>1. PICK k \in 1..Len(d(x)) : ItemOK(a, x, d(x)[k], now, uniqueIds_)
    BY <2>x
  <2>y. PICK y \in {System} \cup Processes : \E j \in 1..Len(d(y)) :
          ItemOK(b, y, d(y)[j], now, uniqueIds_)
    BY <2>0, WhereFrom
  <2>2. PICK j \in 1..Len(d(y)) : ItemOK(b, y, d(y)[j], now, uniqueIds_)
    BY <2>y
  <2>3. ASSUME NEW z PROVE ClassOf(z) \in Classes
    BY DEF ClassOf, Classes
  <2>4. ASSUME NEW c \in Classes, NEW m \in 1..Len(definition[c]), NEW n \in 1..Len(definition[c]),
               definition[c][m].id = definition[c][n].id
        PROVE  m = n
    <3>1. FieldsOK(definition[c], TypesOf(c), 0, uniqueId)
      BY <2>0 DEF IdsInv
    <3>2. definition[c][m].id \in Int /\ definition[c][n].id \in Int /\ m \in Int /\ n \in Int
      BY <3>1 DEF FieldsOK
    <3>3. ~(m < n) /\ ~(n < m)
      BY <2>4, <3>1, <3>2 DEF FieldsOK
    <3>. QED
      BY <3>2, <3>3
  <2>5. ASSUME NEW c \in Classes, NEW m \in 1..Len(definition[c]), NEW n \in 1..Len(definition[c]),
               definition[c][m].name = definition[c][n].name
        PROVE  m = n
    <3>1. DOMAIN definition[c] = 1..Len(definition[c])
      BY <2>0 DEF IdsInv, FieldsOK, IsSeq
    <3>2. pc # "Initialize"
      <4>1. CASE pc = "Initialize"
        <5>1. definition[c] = <<>>
          BY <2>0, <4>1 DEF ShapeInv
        <5>. QED
          BY <5>1, NoElements
      <4>. QED
        BY <4>1
    <3>3. PICK sys : sys = GetFields(SystemTypes, 0)
      OBVIOUS
    <3>4. PICK proc : proc = GetFields(ProcessTypes, sys.uniqueId)
      OBVIOUS
    <3>5. definition = [SYSTEM |-> sys.definition, PROCESSES |-> proc.definition]
      BY <2>0, <3>2, <3>3, <3>4 DEF ConfiguredInv
    <3>6. definition[c] \in {sys.definition, proc.definition}
      BY <3>5 DEF Classes
    <3>7. \A e \in {sys.definition, proc.definition} :
            \A l, n2 \in DOMAIN e : e[l].name = e[n2].name => l = n2
      BY <3>3, <3>4 DEF DistinctNames
    <3>. QED
      BY <2>5, <3>1, <3>6, <3>7
  <2>6. ASSUME NEW l \in DOMAIN uniqueIds_, NEW c \in Classes, NEW m \in 1..Len(definition[c])
        PROVE  definition[c][m].id # uniqueIds_[l]
    <3>1. definition[c][m].id < uniqueIds_[l] /\ definition[c][m].id \in 1..uniqueId
      BY <2>0 DEF IdsInv, FieldsOK
    <3>. QED
      BY <3>1
  <2>7. /\ a.of = <<x, d(x)[k].name>> /\ b.of = <<y, d(y)[j].name>>
        /\ x = System => a.id = d(x)[k].id
        /\ x # System => <<x, d(x)[k].id>> \in DOMAIN uniqueIds_ /\ a.id = uniqueIds_[<<x, d(x)[k].id>>]
        /\ y = System => b.id = d(y)[j].id
        /\ y # System => <<y, d(y)[j].id>> \in DOMAIN uniqueIds_ /\ b.id = uniqueIds_[<<y, d(y)[j].id>>]
    BY <2>1, <2>2 DEF ItemOK
  <2>8. ASSUME a.of = b.of PROVE a.id = b.id
    <3>1. x = y /\ d(x)[k].name = d(x)[j].name /\ j \in 1..Len(d(x))
      BY <2>7, <2>8
    <3>2. k = j
      BY <2>3, <2>5, <3>1
    <3>. QED
      BY <2>7, <3>1, <3>2
  <2>9. ASSUME a.id = b.id PROVE a.of = b.of
    <3>1. CASE x = System /\ y = System
      <4>1. k = j
        BY <2>3, <2>4, <2>7, <2>9, <3>1
      <4>. QED
        BY <2>7, <3>1, <4>1
    <3>2. CASE x = System /\ y # System
      BY <2>3, <2>6, <2>7, <2>9, <3>2
    <3>3. CASE x # System /\ y = System
      BY <2>3, <2>6, <2>7, <2>9, <3>3
    <3>4. CASE x # System /\ y # System
      <4>1. <<x, d(x)[k].id>> = <<y, d(y)[j].id>>
        BY <2>0, <2>7, <2>9, <3>4 DEF IdsInv
      <4>2. x = y /\ d(x)[k].id = d(x)[j].id /\ j \in 1..Len(d(x))
        BY <4>1
      <4>3. k = j
        BY <2>3, <2>4, <4>2
      <4>. QED
        BY <2>7, <4>2, <4>3
    <3>. QED
      BY <3>1, <3>2, <3>3, <3>4
  <2>. QED
    BY <2>8, <2>9
<1> QED
  BY <1>1, Invariance, PTL

\* A sample holds all values of the system or of a process, in order, or none.
THEOREM WholeGroups == Spec => []GroupsAreWhole
<1>1. IInv => GroupsAreWhole
  <2>. SUFFICES ASSUME IInv, NEW k \in DOMAIN measurementsData_
                PROVE  LET Whole(x, items) ==
                             /\ Len(items) = Len(definition[ClassOf(x)])
                             /\ \A i \in DOMAIN items :
                                  items[i].of = <<x, definition[ClassOf(x)][i].name>>
                           s == measurementsData_[k]
                       IN  /\ s.SYSTEM = <<>> \/ Whole(System, s.SYSTEM)
                           /\ \A i \in DOMAIN s.PROCESSES :
                                Whole(s.PROCESSES[i].pipelineId, s.PROCESSES[i].measuredItems)
    BY DEF GroupsAreWhole
  <2>1. SampleOK(measurementsData_[k], definition, now, uniqueIds_)
    <3>1. DOMAIN measurementsData_ = Samples
      BY DEF IInv, ShapeInv, IsSeq, Samples
    <3>. QED
      BY <3>1 DEF IInv, ItemsInv
  <2>2. \A p \in Processes : ClassOf(p) = "PROCESSES"
    BY MeasurementsAssumption DEF ClassOf, Processes
  <2>3. ASSUME NEW x, NEW items,
               ItemsOK(items, x, Len(definition[ClassOf(x)]), definition, now, uniqueIds_)
        PROVE  /\ Len(items) = Len(definition[ClassOf(x)])
               /\ \A i \in DOMAIN items : items[i].of = <<x, definition[ClassOf(x)][i].name>>
    <3>1. DOMAIN items = 1..Len(definition[ClassOf(x)])
      BY <2>3 DEF ItemsOK, IsSeq
    <3>. QED
      BY <2>3, <3>1 DEF ItemsOK, ItemOK
  <2>4. ASSUME NEW s, SampleOK(s, definition, now, uniqueIds_)
        PROVE  /\ s.SYSTEM = <<>> \/ ItemsOK(s.SYSTEM, System, Len(definition[ClassOf(System)]),
                                             definition, now, uniqueIds_)
               /\ \A i \in DOMAIN s.PROCESSES :
                    LET g == s.PROCESSES[i]
                    IN  ItemsOK(g.measuredItems, g.pipelineId,
                                Len(definition[ClassOf(g.pipelineId)]), definition, now, uniqueIds_)
    <3>1. ClassOf(System) = "SYSTEM"
      BY DEF ClassOf
    <3>2. DOMAIN s.PROCESSES = 1..Len(s.PROCESSES)
      BY <2>4 DEF SampleOK, IsSeq
    <3>. QED
      BY <2>2, <2>4, <3>1, <3>2 DEF SampleOK, GroupOK
  <2>. QED
    BY <2>1, <2>3, <2>4
<1> QED
  BY <1>1, Invariance, PTL

\* A process that could not be measured once is in no later sample, and in every sample
\* the processes keep their order.
THEOREM NeverMeasuredAgain == Spec => []GivenUpForever
<1>1. IInv => GivenUpForever
  <2>. SUFFICES ASSUME IInv PROVE GivenUpForever
    OBVIOUS
  <2>1. DOMAIN measurementsData_ = Samples
    BY DEF IInv, ShapeInv, IsSeq, Samples
  <2>2. ASSUME NEW k \in Samples
        PROVE  /\ Measured(k) = MeasuredIn(measurementsData_[k])
               /\ DOMAIN measurementsData_[k].PROCESSES = 1..Len(measurementsData_[k].PROCESSES)
    <3>1. IsSeq(measurementsData_[k].PROCESSES)
      BY DEF IInv, ItemsInv, SampleOK
    <3>2. DOMAIN measurementsData_[k].PROCESSES = 1..Len(measurementsData_[k].PROCESSES)
      BY <3>1 DEF IsSeq
    <3>3. Measured(k) = {measurementsData_[k].PROCESSES[i].pipelineId :
                           i \in DOMAIN measurementsData_[k].PROCESSES}
      BY DEF Measured, Range
    <3>. QED
      BY <3>2, <3>3 DEF MeasuredIn
  <2>3. ActiveInv
    BY DEF IInv
  <2>4. \A k, l \in Samples : k < l => Measured(l) \subseteq Measured(k)
    BY <2>2, <2>3 DEF ActiveInv
  <2>5. ASSUME NEW k \in Samples
        PROVE  LET g == measurementsData_[k].PROCESSES
               IN  \A i, j \in DOMAIN g : i < j => g[i].pipelineId < g[j].pipelineId
    BY <2>2, <2>3 DEF ActiveInv, InOrder
  <2>. QED
    BY <2>1, <2>4, <2>5 DEF GivenUpForever
<1> QED
  BY <1>1, Invariance, PTL

\* No CPU time is counted twice, and between two samples in a row none is lost.
THEOREM CpuTimeOnce == Spec => []CpuIntervalsAbut
<1>1. IInv => CpuIntervalsAbut
  <2>. SUFFICES ASSUME IInv PROVE CpuIntervalsAbut
    OBVIOUS
  <2>1. DOMAIN measurementsData_ = Samples
    BY DEF IInv, ShapeInv, IsSeq, Samples
  <2>2. ASSUME NEW k \in Samples, NEW r \in CpuReads(k)
        PROVE  r \in CpuReadsOf(measurementsData_[k].SYSTEM)
    <3>. DEFINE items == measurementsData_[k].SYSTEM
    <3>1. PICK j \in DOMAIN items : items[j].type = "PROC_STAT" /\ r = items[j].read
      BY <2>2 DEF CpuReads, Range
    <3>2. SampleOK(measurementsData_[k], definition, now, uniqueIds_)
      BY DEF IInv, ItemsInv
    <3>3. items # <<>>
      BY <3>1
    <3>4. IsSeq(items)
      BY <3>2, <3>3 DEF SampleOK, ItemsOK
    <3>. HIDE DEF items
    <3>5. j \in 1..Len(items)
      BY <3>1, <3>4 DEF IsSeq
    <3>. QED
      BY <3>1, <3>5 DEF CpuReadsOf, items
  <2>3. CpuStored
    BY DEF IInv, CpuInv
  <2>4. ASSUME NEW k \in Samples, NEW l \in Samples, k < l, NEW r \in CpuReads(k), NEW s \in CpuReads(l)
        PROVE  r[1] <= r[2] /\ r[2] <= s[1] /\ (l = k + 1 => r[2] = s[1])
    BY <2>2, <2>3, <2>4 DEF CpuStored
  <2>. QED
    BY <2>1, <2>4 DEF CpuIntervalsAbut
<1> QED
  BY <1>1, Invariance, PTL

\* Whatever was measured of a process has the id of a sensor that is reported.
THEOREM SensorsReported == Spec => []MeasuredSensorsAreReported
<1>1. IInv => MeasuredSensorsAreReported
  <2>. SUFFICES ASSUME IInv, NEW i \in AllItems, i.of[1] # System
                PROVE  i.id \in GetSensors(uniqueIds_)
    BY DEF MeasuredSensorsAreReported
  <2>0. PICK x \in {System} \cup Processes : \E k \in 1..Len(definition[ClassOf(x)]) :
          ItemOK(i, x, definition[ClassOf(x)][k], now, uniqueIds_)
    BY WhereFrom DEF IInv
  <2>1. PICK k \in 1..Len(definition[ClassOf(x)]) :
          ItemOK(i, x, definition[ClassOf(x)][k], now, uniqueIds_)
    BY <2>0
  <2>2. PICK key : key = <<x, definition[ClassOf(x)][k].id>>
    OBVIOUS
  <2>3. /\ x \in Processes /\ key[1] = x
        /\ key \in DOMAIN uniqueIds_ /\ i.id = uniqueIds_[key]
    BY <2>1, <2>2 DEF ItemOK
  <2>4. i.id \in IdsOf(uniqueIds_, x)
    BY <2>3 DEF IdsOf
  <2>. QED
    BY <2>3, <2>4 DEF GetSensors
<1> QED
  BY <1>1, Invariance, PTL

-----------------------------------------------------------------------------
(* The parsers *)

\* The parser of this type has read its file for the target.
HasRead(type) ==
  /\ type = "PROC_STAT" =>
       /\ procStatCorrected_ \in (0..now) \X (0..now)
       /\ DOMAIN ProcStatAt(procStatCorrected_[2]) \subseteq DOMAIN ProcStatAt(procStatCorrected_[1])
  /\ type = "PID_STAT" => pidStatData_[target] \in 0..now
  /\ type = "PID_STATM" => pidStatmData_[target] \in 0..now

\* What is kept of a stat has been parsed.
KeptInv ==
  \A p \in Processes : pidStatData_[p] # None => StatOf(p, statOwner[p]) # Thrown

ReadInv ==
  /\ machine \in DOMAIN Machines
  /\ pc # "Terminated" => KeptInv
  /\ pc # "Initialize" => meminfo_ \in 0..now
  /\ pc = "Parsers" => \A type \in FieldTypes(target) \ pending : HasRead(type)
  /\ pc = "Fields" => \A type \in FieldTypes(target) : HasRead(type)
  /\ pc = "Terminated" => Excused

\* The value of an item is what its parser makes of the field f of x.
ValueOK(item, x, f) ==
  /\ item.measuredValue # Thrown
  /\ f.type = "PROC_STAT" =>
       /\ item.read[1] <= item.read[2]
       /\ DOMAIN ProcStatAt(item.read[2]) \subseteq DOMAIN ProcStatAt(item.read[1])
       /\ item.measuredValue =
            K!ParseProcField(K!Minus(ProcStatAt(item.read[2]), ProcStatAt(item.read[1])), f.path, f.what)
  /\ f.type = "PID_STAT" =>
       \E o \in Owners :
         StatOf(x, o) # Thrown /\ item.measuredValue = K!GetValue(StatOf(x, o), f.what)
  /\ f.type = "PID_STATM" =>
       item.measuredValue = K!GetValue(K!ParseStatm(K!orderedNames_), f.what)

ValuesOK(items, x) ==
  \A k \in 1..Len(items) : ValueOK(items[k], x, definition[ClassOf(x)][k])

SampleValued(s) ==
  /\ ValuesOK(s.SYSTEM, System)
  /\ \A j \in 1..Len(s.PROCESSES) :
       ValuesOK(s.PROCESSES[j].measuredItems, s.PROCESSES[j].pipelineId)

\* What has been measured, stored or not, are the values of the fields.
ValueInv ==
  /\ \A k \in Samples : SampleValued(measurementsData_[k])
  /\ SampleValued(measurementData)
  /\ pc = "Fields" => ValuesOK(lastMeasurements_[ClassOf(target)], target)

-----------------------------------------------------------------------------
(* What the parsers return *)

\* The counters of the CPUs at a time.
LEMMA ProcStatOf ==
  ASSUME machine \in DOMAIN Machines, NEW t \in 0..MaxTicks
  PROVE  /\ ProcStatAt(t) \in [DOMAIN ProcStatAt(t) -> Counters]
         /\ Thrown \notin [DOMAIN ProcStatAt(t) -> Counters]
         /\ \A u \in t..MaxTicks : \A c \in DOMAIN ProcStatAt(t) \cap DOMAIN ProcStatAt(u) :
              \A f \in Range(K!CpuFields) : ProcStatAt(t)[c][f] <= ProcStatAt(u)[c][f]
BY MachinesAssumption, ThrownAssumption DEF ProcStatAt

\* KernelFiles has the operator of the library in its own name.
LEMMA RangeIsRange == \A f : K!Range(f) = Range(f)
BY DEF K!Range, Range

\* Two reads differ in what was counted between them.
LEMMA MinusIs ==
  ASSUME machine \in DOMAIN Machines, NEW t \in 0..MaxTicks, NEW u \in 0..MaxTicks
  PROVE  LET d == K!Minus(ProcStatAt(u), ProcStatAt(t))
         IN  IF DOMAIN ProcStatAt(u) \subseteq DOMAIN ProcStatAt(t)
             THEN /\ d \in [DOMAIN ProcStatAt(u) -> Counters] /\ d # Thrown
                  /\ \A c \in DOMAIN ProcStatAt(u), f \in Range(K!CpuFields) :
                       d[c][f] = ProcStatAt(u)[c][f] - ProcStatAt(t)[c][f]
             ELSE d = Thrown
<1>1. /\ ProcStatAt(t) \in [DOMAIN ProcStatAt(t) -> Counters]
      /\ ProcStatAt(u) \in [DOMAIN ProcStatAt(u) -> Counters]
      /\ Thrown \notin [DOMAIN ProcStatAt(u) -> Counters]
  BY ProcStatOf
<1>2. PICK a, b : a = ProcStatAt(t) /\ b = ProcStatAt(u)
  OBVIOUS
<1>3. CASE DOMAIN b \subseteq DOMAIN a
  <2>1. K!Minus(b, a) = [c \in DOMAIN b |-> [f \in Range(K!CpuFields) |-> b[c][f] - a[c][f]]]
    BY <1>3, RangeIsRange DEF K!Minus
  <2>2. \A c \in DOMAIN b : a[c] \in Counters /\ b[c] \in Counters
    BY <1>1, <1>2, <1>3
  <2>3. K!Minus(b, a) \in [DOMAIN b -> Counters]
    BY <2>1, <2>2 DEF Counters
  <2>. QED
    BY <1>1, <1>2, <1>3, <2>1, <2>3
<1>4. CASE ~(DOMAIN b \subseteq DOMAIN a)
  BY <1>2, <1>4 DEF K!Minus
<1>. QED
  BY <1>2, <1>3, <1>4

\* The seven counters of a CPU.
LEMMA CpuFieldsAre ==
  Range(K!CpuFields) = {"user", "nice", "system", "idle", "iowait", "irq", "softirq"}
BY DEF K!CpuFields, Range

\* The words for groups are none of theirs.
LEMMA GroupsAreNoFields == {"all", "all_excl_idle"} \cap K!Range(K!CpuFields) = {}
BY CpuFieldsAre, RangeIsRange

\* A group of counters is a number, and never more than all of them.
LEMMA GroupIs ==
  ASSUME NEW cpu \in Counters, NEW group
  PROVE  /\ K!GetProcStatGroup(cpu, "all") =
              cpu["idle"] + (cpu["iowait"] + cpu["irq"] + cpu["nice"] + cpu["softirq"]
                              + cpu["system"] + cpu["user"])
         /\ IF group \in {"all", "all_excl_idle"} \cup Range(K!CpuFields)
            THEN /\ K!GetProcStatGroup(cpu, group) \in Int
                 /\ (\A f \in Range(K!CpuFields) : cpu[f] >= 0) =>
                      /\ K!GetProcStatGroup(cpu, group) >= 0
                      /\ K!GetProcStatGroup(cpu, group) <= K!GetProcStatGroup(cpu, "all")
            ELSE K!GetProcStatGroup(cpu, group) = Thrown
<1>1. \A f \in Range(K!CpuFields) : cpu[f] \in Int
  BY DEF Counters
<1>2. K!GetProcStatGroup(cpu, "all") = cpu["idle"] + K!AllExclIdle(cpu)
  BY GroupsAreNoFields DEF K!GetProcStatGroup
<1>3. K!AllExclIdle(cpu) = cpu["iowait"] + cpu["irq"] + cpu["nice"] + cpu["softirq"]
                            + cpu["system"] + cpu["user"]
  BY DEF K!AllExclIdle
<1>4. K!GetProcStatGroup(cpu, "all_excl_idle") = K!AllExclIdle(cpu)
  BY GroupsAreNoFields DEF K!GetProcStatGroup
<1>5. "all" \notin Range(K!CpuFields) /\ "all_excl_idle" \notin Range(K!CpuFields)
  BY CpuFieldsAre
<1>6. ASSUME group \in Range(K!CpuFields) PROVE K!GetProcStatGroup(cpu, group) = cpu[group]
  BY <1>5, <1>6, RangeIsRange DEF K!GetProcStatGroup
<1>7. ASSUME group \notin {"all", "all_excl_idle"} \cup Range(K!CpuFields)
      PROVE  K!GetProcStatGroup(cpu, group) = Thrown
  BY <1>7, RangeIsRange DEF K!GetProcStatGroup
<1>8. \A f \in {"user", "nice", "system", "idle", "iowait", "irq", "softirq"} : cpu[f] \in Int
  BY <1>1, CpuFieldsAre
<1>9. CASE group = "all"
  BY <1>2, <1>3, <1>8, <1>9, CpuFieldsAre
<1>10. CASE group = "all_excl_idle"
  BY <1>2, <1>3, <1>4, <1>8, <1>10, CpuFieldsAre
<1>11. CASE group \in Range(K!CpuFields)
  BY <1>2, <1>3, <1>6, <1>8, <1>11, CpuFieldsAre
<1>. QED
  BY <1>2, <1>3, <1>7, <1>9, <1>10, <1>11

\* There are 52 fields in a stat file.
LEMMA StatFieldsAre ==
  /\ Len(K!StatFields) = 52 /\ DOMAIN K!StatFields = 1..52
  /\ K!StatFields[1] = "pid" /\ K!StatFields[2] = "exeName" /\ K!StatFields[3] = "state"
BY DEF K!StatFields

\* No other field has the name of one of the fourth to the eighteenth.
LEMMA StatFieldsDiffer ==
  \A j \in 4..18 : \A k \in 1..52 : K!StatFields[k] = K!StatFields[j] => k = j
BY DEF K!StatFields

\* The tokens of a line whose program's name has n parts.
LEMMA TokensAre ==
  ASSUME NEW name, Len(name) \in Nat
  PROVE  LET n == Len(name)
             t == K!StatTokens(name)
         IN  /\ t[1].of = "pid" /\ t[1].isNumber
             /\ t[n + 2].of = "state" /\ ~t[n + 2].isNumber
             /\ \A k \in 1..49 : t[n + 2 + k].of = K!StatFields[k + 3] /\ t[n + 2 + k].isNumber
<1>0. PICK n \in Nat : n = Len(name)
  OBVIOUS
<1>. DEFINE rest == [k \in 1..49 |-> [of |-> K!StatFields[k + 3], isNumber |-> TRUE]]
            pid == [of |-> "pid", isNumber |-> TRUE]
            state == [of |-> "state", isNumber |-> FALSE]
            parts == K!KernelStat(name)
<1>1. K!StatTokens(name) = <<pid>> \o parts \o <<state>> \o rest
  BY StatFieldsAre DEF K!StatTokens
<1>2. IsSeq(<<pid>>) /\ Len(<<pid>>) = 1 /\ <<pid>>[1] = pid
  BY DEF IsSeq
<1>3. IsSeq(<<state>>) /\ Len(<<state>>) = 1 /\ <<state>>[1] = state
  BY DEF IsSeq
<1>4. IsSeq(rest) /\ Len(rest) = 49 /\ \A k \in 1..49 : rest[k] = [of |-> K!StatFields[k + 3], isNumber |-> TRUE]
  <2>1. rest \in Seq({rest[k] : k \in 1..49})
    BY IsASeq
  <2>2. Len(rest) = 49
    BY <2>1, LenProperties
  <2>. QED
    BY <2>1, <2>2, IsSeqOfSeq
<1>5. /\ IsSeq(parts) /\ Len(parts) = n
  <2>0. parts = [k \in 1..n |-> [of |-> "exeName", isNumber |-> name[k]]]
    BY <1>0 DEF K!KernelStat
  <2>1. parts \in Seq({parts[k] : k \in 1..n})
    BY <2>0, IsASeq
  <2>2. Len(parts) = n
    BY <2>0, <2>1, LenProperties
  <2>. QED
    BY <2>0, <2>1, <2>2, IsSeqOfSeq
<1>. HIDE DEF rest, pid, state, parts
<1>6. PICK a : a = <<pid>> \o parts
  OBVIOUS
<1>7. /\ IsSeq(a) /\ Len(a) = n + 1 /\ a[1] = pid
  <2>1. IsSeq(a) /\ Len(a) = Len(<<pid>>) + Len(parts) /\ \A k \in 1..Len(<<pid>>) : a[k] = <<pid>>[k]
    BY <1>2, <1>5, <1>6, ConcatTwo
  <2>. QED
    BY <1>2, <1>5, <2>1
<1>8. PICK b : b = a \o <<state>>
  OBVIOUS
<1>9. /\ IsSeq(b) /\ Len(b) = n + 2 /\ b[n + 2] = state
      /\ \A k \in 1..(n + 1) : b[k] = a[k]
  <2>0. PICK last : last = <<state>>
    OBVIOUS
  <2>1. /\ IsSeq(b) /\ Len(b) = Len(a) + Len(last)
        /\ \A k \in 1..Len(a) : b[k] = a[k]
        /\ \A k \in (Len(a) + 1)..(Len(a) + Len(last)) : b[k] = last[k - Len(a)]
    <3>1. IsSeq(a) /\ IsSeq(last) /\ b = a \o last
      BY <1>3, <1>7, <1>8, <2>0
    <3>. QED
      BY <3>1, ConcatTwo
  <2>2. b[n + 2] = state
    <3>1. Len(a) = n + 1 /\ Len(last) = 1 /\ last[1] = state
      BY <1>3, <1>7, <2>0
    <3>2. n + 2 \in (Len(a) + 1)..(Len(a) + Len(last)) /\ (n + 2) - Len(a) = 1
      BY <3>1
    <3>. QED
      BY <2>1, <3>1, <3>2
  <2>. QED
    BY <1>3, <1>7, <2>0, <2>1, <2>2
<1>10. PICK t : t = b \o rest
  OBVIOUS
<1>11. /\ \A k \in 1..(n + 2) : t[k] = b[k]
       /\ \A k \in 1..49 : t[n + 2 + k] = rest[k]
  <2>1. /\ IsSeq(t) /\ Len(t) = Len(b) + Len(rest)
        /\ \A k \in 1..Len(b) : t[k] = b[k]
        /\ \A k \in (Len(b) + 1)..(Len(b) + Len(rest)) : t[k] = rest[k - Len(b)]
    <3>1. IsSeq(b) /\ IsSeq(rest)
      BY <1>4, <1>9
    <3>. QED
      BY <1>10, <3>1, ConcatTwo
  <2>2. ASSUME NEW k \in 1..49 PROVE t[n + 2 + k] = rest[k]
    <3>1. Len(b) = n + 2 /\ Len(rest) = 49
      BY <1>4, <1>9
    <3>2. n + 2 + k \in (Len(b) + 1)..(Len(b) + Len(rest)) /\ (n + 2 + k) - Len(b) = k
      BY <3>1
    <3>. QED
      BY <2>1, <3>2
  <2>. QED
    BY <1>4, <1>9, <2>1, <2>2
<1>12. K!StatTokens(name) = t
  BY <1>1, <1>6, <1>8, <1>10
<1>13. t[1] = pid /\ t[n + 2] = state
  <2>1. 1 \in 1..(n + 2) /\ 1 \in 1..(n + 1) /\ n + 2 \in 1..(n + 2)
    OBVIOUS
  <2>2. t[1] = b[1] /\ b[1] = a[1]
    BY <1>9, <1>11, <2>1
  <2>3. t[n + 2] = b[n + 2]
    BY <1>11, <2>1
  <2>. QED
    BY <1>7, <1>9, <2>2, <2>3
<1>. QED
  <2>1. t[1].of = "pid" /\ t[1].isNumber /\ t[n + 2].of = "state" /\ ~t[n + 2].isNumber
    BY <1>13 DEF pid, state
  <2>2. ASSUME NEW k \in 1..49
        PROVE  t[n + 2 + k].of = K!StatFields[k + 3] /\ t[n + 2 + k].isNumber
    <3>1. t[n + 2 + k] = [of |-> K!StatFields[k + 3], isNumber |-> TRUE]
      BY <1>4, <1>11
    <3>. QED
      BY <3>1
  <2>. QED
    BY <1>0, <1>12, <2>1, <2>2

\* The fields of a stat that has been read are those the kernel wrote, and it has been unless
\* the program's name has blanks.
LEMMA StatIs ==
  ASSUME NEW name, Len(name) \in 1..16
  PROVE  LET s == K!Stat(K!StatTokens(name))
         IN  /\ Len(name) = 1 => s = [f \in K!nameToValue |-> f]
             /\ Len(name) > 1 => s = Thrown
<1>0. PICK n \in 1..16 : n = Len(name)
  OBVIOUS
<1>. DEFINE At(f) == CHOOSE k \in DOMAIN K!StatFields : K!StatFields[k] = f
<1>1. PICK t : t = K!StatTokens(name)
  OBVIOUS
<1>2. /\ t[1].of = "pid" /\ t[1].isNumber
      /\ t[n + 2].of = "state" /\ ~t[n + 2].isNumber
      /\ \A k \in 1..49 : t[n + 2 + k].of = K!StatFields[k + 3] /\ t[n + 2 + k].isNumber
  <2>1. Len(name) \in Nat
    OBVIOUS
  <2>2. LET m == Len(name)
            u == K!StatTokens(name)
        IN  /\ u[1].of = "pid" /\ u[1].isNumber
            /\ u[m + 2].of = "state" /\ ~u[m + 2].isNumber
            /\ \A k \in 1..49 : u[m + 2 + k].of = K!StatFields[k + 3] /\ u[m + 2 + k].isNumber
    BY <2>1, TokensAre, Zenon
  <2>. QED
    BY <1>0, <1>1, <2>2
<1>3. ASSUME NEW f \in K!nameToValue
      PROVE  At(f) \in 1..52 /\ K!StatFields[At(f)] = f /\ f # "exeName"
  <2>1. f \in Range(K!StatFields) /\ f # "exeName"
    BY RangeIsRange DEF K!nameToValue
  <2>2. \E k \in DOMAIN K!StatFields : K!StatFields[k] = f
    BY <2>1 DEF Range
  <2>. QED
    BY <2>1, <2>2, StatFieldsAre
<1>4. CASE n = 1
  <2>. HIDE DEF At
  <2>1. ASSUME NEW f \in K!nameToValue
        PROVE  /\ t[At(f)].of = f
               /\ f # "state" => t[At(f)].isNumber
    <3>1. PICK k \in 1..52 : k = At(f) /\ K!StatFields[k] = f /\ k # 2
      BY <1>3, StatFieldsAre
    <3>2. CASE k = 1
      BY <1>2, <3>1, <3>2, StatFieldsAre
    <3>3. CASE k = 3
      <4>1. n + 2 = 3
        BY <1>4
      <4>. QED
        BY <1>2, <3>1, <3>3, <4>1, StatFieldsAre
    <3>4. CASE k \in 4..52
      <4>1. k - 3 \in 1..49 /\ n + 2 + (k - 3) = k /\ (k - 3) + 3 = k
        BY <1>4, <3>4
      <4>2. t[k].of = K!StatFields[k] /\ t[k].isNumber
        BY <1>2, <4>1
      <4>. QED
        BY <3>1, <4>2
    <3>. QED
      BY <3>1, <3>2, <3>3, <3>4
  <2>2. K!Stat(t) = [f \in K!nameToValue |-> t[At(f)].of]
    BY <2>1 DEF K!Stat, At
  <2>3. [f \in K!nameToValue |-> t[At(f)].of] = [f \in K!nameToValue |-> f]
    BY <2>1
  <2>. QED
    BY <1>0, <1>1, <1>4, <2>2, <2>3
<1>5. CASE n > 1
  <2>1. PICK g : g = K!StatFields[n + 2]
    OBVIOUS
  <2>2. n + 2 \in 4..18
    BY <1>5
  <2>3. g \in K!nameToValue /\ g # "state"
    <3>1. n + 2 \in DOMAIN K!StatFields
      BY <2>2, StatFieldsAre
    <3>2. g \in Range(K!StatFields)
      BY <2>1, <3>1 DEF Range
    <3>3. g # "exeName" /\ g # "state"
      <4>1. n + 2 # 2 /\ n + 2 # 3 /\ 2 \in 1..52 /\ 3 \in 1..52
        BY <2>2
      <4>. QED
        BY <2>1, <2>2, <4>1, StatFieldsAre, StatFieldsDiffer
    <3>. QED
      BY <3>2, <3>3, RangeIsRange DEF K!nameToValue
  <2>4. At(g) = n + 2
    BY <1>3, <2>1, <2>2, <2>3, StatFieldsDiffer
  <2>5. ~t[At(g)].isNumber
    BY <1>2, <2>4
  <2>6. \E f \in K!nameToValue \ {"state"} : ~t[At(f)].isNumber
    BY <2>3, <2>5
  <2>7. K!Stat(t) = Thrown
    BY <2>6 DEF K!Stat
  <2>. QED
    BY <1>0, <1>1, <1>5, <2>7
<1>. QED
  BY <1>0, <1>4, <1>5

\* A statm whose tokens are the names of its fields.
LEMMA StatmIs == K!ParseStatm(K!orderedNames_) = [f \in Range(K!orderedNames_) |-> f]
<1>1. {K!orderedNames_[i] : i \in DOMAIN K!orderedNames_} = Range(K!orderedNames_)
  BY DEF Range
<1>2. Len(K!orderedNames_) \in Nat
  BY DEF K!orderedNames_
<1>. DEFINE At(f) == CHOOSE i \in DOMAIN K!orderedNames_ : K!orderedNames_[i] = f
<1>3. ASSUME NEW f \in Range(K!orderedNames_) PROVE K!orderedNames_[At(f)] = f
  <2>1. \E i \in DOMAIN K!orderedNames_ : K!orderedNames_[i] = f
    BY DEF Range
  <2>. QED
    BY <2>1
<1>4. K!ParseStatm(K!orderedNames_) = [f \in Range(K!orderedNames_) |-> K!orderedNames_[At(f)]]
  BY <1>1, <1>2 DEF K!ParseStatm
<1>. HIDE DEF At
<1>. QED
  BY <1>3, <1>4

\* A value taken from fields that hold what they should is of the field asked for.
LEMMA GetValueIs ==
  ASSUME NEW S \in {K!nameToValue, Range(K!orderedNames_)}, NEW what
  PROVE  LET v == K!GetValue([f \in S |-> f], what)
         IN  /\ v # Thrown => v[1] = what.value
             /\ (what.value \in S /\ what.comparedTo \in S \cup {""}) => v # Thrown
<1>. DEFINE values == [f \in S |-> f]
<1>1. Thrown \notin Seq(S)
  BY ThrownAssumption
<1>2. CASE what.value \notin S
  BY <1>2 DEF K!GetValue
<1>3. CASE what.value \in S /\ what.comparedTo = ""
  <2>1. PICK x \in S : x = what.value
    BY <1>3
  <2>2. K!GetValue(values, what) = <<x>>
    BY <1>3, <2>1 DEF K!GetValue
  <2>3. <<x>> \in Seq(S) /\ <<x>>[1] = x
    OBVIOUS
  <2>. QED
    BY <1>1, <2>1, <2>2, <2>3
<1>4. CASE what.value \in S /\ what.comparedTo \notin S \cup {""}
  BY <1>4 DEF K!GetValue
<1>5. CASE what.value \in S /\ what.comparedTo \in S /\ what.comparedTo # ""
  <2>1. PICK x \in S, y \in S : x = what.value /\ y = what.comparedTo
    BY <1>5
  <2>2. K!GetValue(values, what) = <<x, y>>
    BY <1>5, <2>1 DEF K!GetValue
  <2>3. <<x, y>> \in Seq(S) /\ <<x, y>>[1] = x
    OBVIOUS
  <2>. QED
    BY <1>1, <2>1, <2>2, <2>3
<1>. QED
  BY <1>2, <1>3, <1>4, <1>5

\* The stat of a program, or of what took its pid: read right, or not at all.
LEMMA StatOfIs ==
  ASSUME machine \in DOMAIN Machines, NEW p \in Processes, NEW o \in Owners
  PROVE  /\ StatOf(p, o) # Thrown => StatOf(p, o) = [f \in K!nameToValue |-> f]
         /\ StatOf(p, o) = Thrown => Len(Machines[machine].comm[p][o]) > 1
<1>1. PICK name : name = Machines[machine].comm[p][o]
  OBVIOUS
<1>2. Len(name) \in 1..16
  BY <1>1, MachinesAssumption
<1>3. StatOf(p, o) = K!Stat(K!StatTokens(name))
  BY <1>1 DEF StatOf, StatFiles
<1>4. /\ Len(name) = 1 => StatOf(p, o) = [f \in K!nameToValue |-> f]
      /\ Len(name) > 1 => StatOf(p, o) = Thrown
  BY <1>2, <1>3, StatIs
<1>5. [f \in K!nameToValue |-> f] # Thrown
  <2>1. [f \in K!nameToValue |-> f] \in [K!nameToValue -> K!nameToValue]
    OBVIOUS
  <2>. QED
    BY <2>1, ThrownAssumption
<1>6. PICK n \in 1..16 : n = Len(name)
  BY <1>2
<1>7. CASE StatOf(p, o) = Thrown
  <2>1. n # 1
    BY <1>4, <1>5, <1>6, <1>7
  <2>2. n > 1
    BY <2>1
  <2>. QED
    BY <1>1, <1>6, <1>7, <2>2
<1>8. CASE StatOf(p, o) # Thrown
  <2>1. ~(n > 1)
    BY <1>4, <1>6, <1>8
  <2>2. n = 1
    BY <2>1
  <2>. QED
    BY <1>4, <1>6, <1>8, <2>2
<1>. QED
  BY <1>7, <1>8

\* A field of meminfo is a number, compared with a number.
LEMMA ParseMemFieldIs ==
  ASSUME NEW info \in [K!fieldMap -> Int], NEW what, what.value \in K!fieldMap
  PROVE  K!ParseMemField(info, what) # Thrown
<1>1. K!GetField(info, what.value, FALSE) \in Int
  BY DEF K!GetField
<1>2. K!GetField(info, what.comparedTo, TRUE) \in Int
  BY DEF K!GetField
<1>3. PICK v \in Int, w \in Int : K!ParseMemField(info, what) = K!Fraction(v, w)
  BY <1>1, <1>2 DEF K!ParseMemField
<1>4. v # Thrown /\ w # Thrown /\ <<v, w>> # Thrown
  BY ThrownAssumption
<1>. QED
  BY <1>3, <1>4 DEF K!Fraction

\* A file of a single number throws only if it is a text.
LEMMA ParseMeasurementIs ==
  ASSUME NEW enabled \in Int \cup {Unreadable, Text}, NEW content \in Int \cup {Unreadable, Text},
         K!ParseMeasurement(enabled, content) = Thrown
  PROVE  Text \in {enabled, content}
<1>1. \A c \in Int \cup {Unreadable, Text} : c # Text => K!ParseDirect(c) # Thrown
  BY ThrownAssumption DEF K!ParseDirect
<1>2. 0 # Thrown
  BY ThrownAssumption
<1>. QED
  BY <1>1, <1>2 DEF K!ParseMeasurement

\* A share of a CPU's time is a fraction of what was counted of it.
LEMMA ParseProcFieldIs ==
  ASSUME machine \in DOMAIN Machines, NEW t \in 0..MaxTicks, NEW u \in 0..MaxTicks,
         DOMAIN ProcStatAt(u) \subseteq DOMAIN ProcStatAt(t),
         NEW path, NEW what
  PROVE  LET d == K!Minus(ProcStatAt(u), ProcStatAt(t))
             v == K!ParseProcField(d, path, what)
             Groups == {"all", "all_excl_idle"} \cup Range(K!CpuFields)
         IN  IF path \in DOMAIN ProcStatAt(u) /\ {what.value, what.comparedTo} \subseteq Groups
             THEN /\ v = <<K!GetProcStatGroup(d[path], what.value),
                           K!GetProcStatGroup(d[path], what.comparedTo)>>
                  /\ v # Thrown /\ d[path] \in Counters
             ELSE v = Thrown
<1>1. PICK d : d = K!Minus(ProcStatAt(u), ProcStatAt(t))
  OBVIOUS
<1>2. d \in [DOMAIN ProcStatAt(u) -> Counters]
  BY <1>1, MinusIs
<1>3. CASE path \notin DOMAIN ProcStatAt(u)
  BY <1>1, <1>2, <1>3 DEF K!ParseProcField
<1>4. CASE path \in DOMAIN ProcStatAt(u)
  <2>1. PICK a, b : /\ a = K!GetProcStatGroup(d[path], what.value)
                    /\ b = K!GetProcStatGroup(d[path], what.comparedTo)
    OBVIOUS
  <2>2. d[path] \in Counters
    BY <1>2, <1>4
  <2>. DEFINE Groups == {"all", "all_excl_idle"} \cup Range(K!CpuFields)
  <2>3. /\ IF what.value \in Groups THEN a \in Int ELSE a = Thrown
        /\ IF what.comparedTo \in Groups THEN b \in Int ELSE b = Thrown
    BY <2>1, <2>2, GroupIs
  <2>4. K!ParseProcField(d, path, what) = K!Fraction(a, b)
    BY <1>2, <1>4, <2>1 DEF K!ParseProcField
  <2>5. a \in Int /\ b \in Int => a # Thrown /\ b # Thrown /\ <<a, b>> # Thrown
    BY ThrownAssumption
  <2>6. K!Fraction(a, b) = IF Thrown \in {a, b} THEN Thrown ELSE <<a, b>>
    BY DEF K!Fraction
  <2>. QED
    BY <1>1, <1>4, <2>1, <2>2, <2>3, <2>4, <2>5, <2>6
<1>. QED
  BY <1>3, <1>4

\* The current field is one of the configuration, of a type its target has.
LEMMA CurrentFieldIs ==
  ASSUME TypeInv, IdsInv, AtField
  PROVE  /\ ClassOf(target) \in Classes /\ field \in 1..Len(definition[ClassOf(target)])
         /\ DOMAIN definition[ClassOf(target)] = 1..Len(definition[ClassOf(target)])
         /\ CurrentField \in Range(definition[ClassOf(target)])
         /\ CurrentField.type \in FieldTypes(target)
<1>1. ClassOf(target) \in Classes /\ TypesOf(ClassOf(target)) = FieldTypes(target)
  BY DEF ClassOf, Classes, TypesOf, FieldTypes
<1>2. FieldsOK(definition[ClassOf(target)], FieldTypes(target), 0, uniqueId)
  BY <1>1 DEF IdsInv
<1>3. PICK d : d = definition[ClassOf(target)]
  OBVIOUS
<1>4. Len(d) \in Nat /\ DOMAIN d = 1..Len(d)
  BY <1>2, <1>3 DEF FieldsOK, IsSeq
<1>5. field \in 1..Len(d)
  BY <1>3, <1>4 DEF AtField, TypeInv
<1>6. CurrentField = d[field] /\ d[field].type \in FieldTypes(target)
  BY <1>2, <1>3, <1>5 DEF CurrentField, FieldsOK
<1>7. CurrentField \in Range(d)
  BY <1>4, <1>5, <1>6 DEF Range
<1>. QED
  BY <1>1, <1>3, <1>4, <1>5, <1>6, <1>7

\* If every sensor is about something its file has, so is the current field.
LEMMA CurrentFieldFits ==
  ASSUME FieldsAreThere, TypeInv, ConfiguredInv, IdsInv, AtField
  PROVE  LET f == CurrentField
         IN  /\ f.type = "PROC_MEM" => f.what.value \in K!fieldMap
             /\ f.type = "PROC_STAT" =>
                  /\ {f.what.value, f.what.comparedTo} \subseteq
                       {"all", "all_excl_idle"} \cup Range(K!CpuFields)
                  /\ \A m \in DOMAIN Machines : f.path \in DOMAIN ProcStatFiles[m][0]
             /\ f.type = "PID_STAT" =>
                  f.what.value \in K!nameToValue /\ f.what.comparedTo \in K!nameToValue \cup {""}
             /\ f.type = "PID_STATM" =>
                  /\ f.what.value \in Range(K!orderedNames_)
                  /\ f.what.comparedTo \in Range(K!orderedNames_) \cup {""}
<1>1. PICK f : f = CurrentField
  OBVIOUS
<1>2. /\ f \in Range(definition[ClassOf(target)]) /\ f.type \in FieldTypes(target)
      /\ ClassOf(target) = IF target = System THEN "SYSTEM" ELSE "PROCESSES"
      /\ FieldTypes(target) = IF target = System THEN SystemTypes ELSE ProcessTypes
  BY <1>1, CurrentFieldIs DEF ClassOf, FieldTypes
<1>3. PICK sys : sys = GetFields(SystemTypes, 0)
  OBVIOUS
<1>4. PICK proc : proc = GetFields(ProcessTypes, sys.uniqueId)
  OBVIOUS
<1>5. definition["SYSTEM"] = sys.definition /\ definition["PROCESSES"] = proc.definition
  <2>1. definition = [SYSTEM |-> sys.definition, PROCESSES |-> proc.definition]
    BY <1>3, <1>4 DEF ConfiguredInv, AtField
  <2>. QED
    BY <2>1
<1>6. /\ \A g \in Range(sys.definition) :
           /\ g.type = "PROC_MEM" => g.what.value \in K!fieldMap
           /\ g.type = "PROC_STAT" =>
                /\ {g.what.value, g.what.comparedTo} \subseteq
                     {"all", "all_excl_idle"} \cup Range(K!CpuFields)
                /\ \A m \in DOMAIN Machines : g.path \in DOMAIN ProcStatFiles[m][0]
      /\ \A g \in Range(proc.definition) :
           g.type \in {"PID_STAT", "PID_STATM"} =>
             LET there == IF g.type = "PID_STAT" THEN K!nameToValue ELSE Range(K!orderedNames_)
             IN  g.what.value \in there /\ g.what.comparedTo \in there \cup {""}
  BY <1>3, <1>4 DEF FieldsAreThere
<1>7. CASE target = System
  <2>1. f \in Range(sys.definition) /\ f.type \in {"DIRECT", "PROC_MEM", "PROC_STAT"}
    BY <1>2, <1>5, <1>7 DEF SystemTypes
  <2>. QED
    BY <1>1, <1>6, <2>1
<1>8. CASE target # System
  <2>1. f \in Range(proc.definition) /\ f.type \in {"DIRECT_PID", "PID_STAT", "PID_STATM"}
    BY <1>2, <1>5, <1>8 DEF ProcessTypes
  <2>. QED
    BY <1>1, <1>6, <2>1
<1>. QED
  BY <1>7, <1>8

\* An exception of a parser is one of those expected.
LEMMA ThrownIsExcused ==
  ASSUME FieldsAreThere, TypeInv, ConfiguredInv, IdsInv, ReadInv, AtField, CurrentValue = Thrown
  PROVE  Excused
<1>1. PICK f : f = CurrentField
  OBVIOUS
<1>2. PICK read : read = Read(f.type)
  OBVIOUS
<1>3. ValueOf(f, read) = Thrown
  BY <1>1, <1>2 DEF CurrentValue
<1>4. /\ f.type \in FieldTypes(target) /\ target \in {System} \cup Processes
      /\ machine \in DOMAIN Machines /\ HasRead(f.type)
      /\ now \in 0..MaxTicks /\ MaxTicks \in Nat /\ 0..now \subseteq 0..MaxTicks
  BY <1>1, CurrentFieldIs, MeasurementsAssumption DEF TypeInv, ReadInv, AtField
<1>5. None \notin Int \cup (Int \X Int)
  BY MeasurementsAssumption
<1>6. ASSUME NEW t \in 0..now, NEW u \in 0..now PROVE <<t, u>> \notin {None, <<None, None>>}
  BY <1>4, <1>5
<1>7. CASE f.type = "DIRECT"
  <2>1. read = <<now, now>>
    BY <1>2, <1>7 DEF Read
  <2>2. K!ParseMeasurement(Machines[machine].enabled, Machines[machine].sensor[now]) = Thrown
    BY <1>3, <1>4, <1>6, <1>7, <2>1 DEF ValueOf
  <2>3. /\ Machines[machine].enabled \in Int \cup {Unreadable, Text}
        /\ Machines[machine].sensor[now] \in Int \cup {Unreadable, Text}
    BY <1>4, MachinesAssumption
  <2>4. Text \in {Machines[machine].enabled, Machines[machine].sensor[now]}
    BY <2>2, <2>3, ParseMeasurementIs
  <2>. QED
    BY <1>4, <2>4 DEF Excused
<1>8. CASE f.type = "DIRECT_PID"
  <2>1. read = <<now, now>>
    BY <1>2, <1>8 DEF Read
  <2>2. K!ParseDirect(now) = Thrown
    BY <1>3, <1>4, <1>6, <1>8, <2>1 DEF ValueOf
  <2>3. now \in Int
    BY <1>4
  <2>4. K!ParseDirect(now) = now
    BY <2>3, ThrownAssumption DEF K!ParseDirect
  <2>. QED
    BY <2>2, <2>3, <2>4, ThrownAssumption
<1>9. CASE f.type = "PROC_MEM"
  <2>1. read = <<meminfo_, meminfo_>> /\ meminfo_ \in 0..now
    BY <1>2, <1>9 DEF Read, ReadInv, AtField
  <2>2. K!ParseMemField(MemInfoFiles[machine], f.what) = Thrown
    BY <1>3, <1>6, <1>9, <2>1 DEF ValueOf
  <2>3. f.what.value \in K!fieldMap
    BY <1>1, <1>9, CurrentFieldFits
  <2>4. MemInfoFiles[machine] \in [K!fieldMap -> Int]
    BY <1>4, MachinesAssumption
  <2>. QED
    BY <2>2, <2>3, <2>4, ParseMemFieldIs
<1>10. CASE f.type = "PROC_STAT"
  <2>1. PICK t \in 0..now, u \in 0..now :
          /\ procStatCorrected_ = <<t, u>>
          /\ DOMAIN ProcStatAt(u) \subseteq DOMAIN ProcStatAt(t)
    BY <1>4, <1>10 DEF HasRead
  <2>2. read = <<t, u>>
    BY <1>2, <1>10, <2>1 DEF Read
  <2>3. K!ParseProcField(K!Minus(ProcStatAt(u), ProcStatAt(t)), f.path, f.what) = Thrown
    BY <1>3, <1>6, <1>10, <2>2 DEF ValueOf
  <2>4. {f.what.value, f.what.comparedTo} \subseteq {"all", "all_excl_idle"} \cup Range(K!CpuFields)
    BY <1>1, <1>10, CurrentFieldFits
  <2>5. f.path \notin DOMAIN ProcStatAt(u)
    BY <1>4, <2>1, <2>3, <2>4, ParseProcFieldIs
  <2>6. f.path \in DOMAIN ProcStatAt(0)
    BY <1>1, <1>4, <1>10, CurrentFieldFits DEF ProcStatAt
  <2>7. DOMAIN ProcStatAt(0) # DOMAIN ProcStatAt(u) /\ 0 \in 0..now
    BY <1>4, <2>5, <2>6
  <2>. QED
    BY <2>7 DEF Excused
<1>11. CASE f.type = "PID_STAT"
  <2>1. target \in Processes
    BY <1>4, <1>11 DEF FieldTypes, SystemTypes
  <2>2. PICK t \in 0..now : pidStatData_[target] = t
    BY <1>4, <1>11 DEF HasRead
  <2>8. PICK o \in Owners : o = statOwner[target] /\ StatOf(target, o) # Thrown
    <3>1. t # None /\ pc # "Terminated"
      BY <1>4, MeasurementsAssumption DEF AtField
    <3>2. StatOf(target, statOwner[target]) # Thrown
      BY <2>1, <2>2, <3>1 DEF ReadInv, KeptInv
    <3>. QED
      BY <2>1, <3>2 DEF TypeInv
  <2>3. read = <<t, t>>
    BY <1>2, <1>11, <2>2 DEF Read
  <2>4. K!GetValue(StatOf(target, o), f.what) = Thrown
    BY <1>3, <1>6, <1>11, <2>3, <2>8 DEF ValueOf
  <2>5. StatOf(target, o) = [g \in K!nameToValue |-> g]
    BY <1>4, <2>1, <2>8, StatOfIs
  <2>6. f.what.value \in K!nameToValue /\ f.what.comparedTo \in K!nameToValue \cup {""}
    BY <1>1, <1>11, CurrentFieldFits
  <2>. QED
    BY <2>4, <2>5, <2>6, GetValueIs
<1>12. CASE f.type = "PID_STATM"
  <2>1. PICK t \in 0..now : pidStatmData_[target] = t
    BY <1>4, <1>12 DEF HasRead
  <2>2. read = <<t, t>>
    BY <1>2, <1>12, <2>1 DEF Read
  <2>3. K!GetValue(K!ParseStatm(K!orderedNames_), f.what) = Thrown
    BY <1>3, <1>6, <1>12, <2>2 DEF ValueOf
  <2>4. /\ f.what.value \in Range(K!orderedNames_)
        /\ f.what.comparedTo \in Range(K!orderedNames_) \cup {""}
    BY <1>1, <1>12, CurrentFieldFits
  <2>. QED
    BY <2>3, <2>4, GetValueIs, StatmIs
<1>. QED
  BY <1>4, <1>7, <1>8, <1>9, <1>10, <1>11, <1>12 DEF FieldTypes, SystemTypes, ProcessTypes

\* Initially no parser has been asked.
LEMMA ReadInit == Init => ReadInv
BY DEF Init, ReadInv, KeptInv

\* What was expected stays so.
LEMMA ExcusedLater ==
  ASSUME machine' = machine, now \in Nat, now' \in Nat, now <= now', Excused,
         \A p \in Processes : life[p] = "foreign" => life'[p] = "foreign"
  PROVE  Excused'
<1>1. \A t \in 0..now : t \in 0..now' /\ ProcStatAt(t)' = ProcStatAt(t)
  BY DEF ProcStatAt
<1>2. \A p \in Processes : {"program", Owner(p)} \subseteq {"program", Owner(p)'}
  BY DEF Owner
<1>. QED
  BY <1>1, <1>2 DEF Excused

\* A step at which no parser is run.
LEMMA ReadKept ==
  ASSUME TypeInv, TypeInv', ReadInv, now <= now', machine' = machine, pc # "Initialize",
         meminfo_' = meminfo_, pc # "Terminated" \/ pc' = "Terminated",
         UNCHANGED <<pidStatData_, statOwner>>,
         \A p \in Processes : life[p] = "foreign" => life'[p] = "foreign",
         \/ UNCHANGED <<pc, target, pending, pidStatData_, pidStatmData_, procStatCorrected_>>
         \/ pc' \notin {"Parsers", "Fields", "Terminated"}
         \/ pc' = "Parsers" /\ pending' = FieldTypes(target)'
  PROVE  ReadInv'
<1>1. now \in Nat /\ now' \in Nat /\ 0..now \subseteq 0..now'
  BY DEF TypeInv
<1>2. /\ machine' \in DOMAIN Machines /\ meminfo_' \in 0..now'
      /\ pc' # "Terminated" => KeptInv'
  <2>1. \A p, o : StatOf(p, o)' = StatOf(p, o)
    BY DEF StatOf
  <2>. QED
    BY <1>1, <2>1 DEF ReadInv, KeptInv
<1>3. CASE pc' \notin {"Parsers", "Fields", "Terminated"}
  BY <1>2, <1>3 DEF ReadInv
<1>4. CASE pc' = "Parsers" /\ pending' = FieldTypes(target)'
  <2>1. FieldTypes(target)' \ pending' = {}
    BY <1>4
  <2>. QED
    BY <1>2, <1>4, <2>1 DEF ReadInv
<1>5. CASE UNCHANGED <<pc, target, pending, pidStatData_, pidStatmData_, procStatCorrected_>>
  <2>1. \A t : ProcStatAt(t)' = ProcStatAt(t)
    BY DEF ProcStatAt
  <2>3. ASSUME NEW type, HasRead(type) PROVE HasRead(type)'
    <3>1. ASSUME type = "PROC_STAT"
          PROVE  /\ procStatCorrected_' \in (0..now') \X (0..now')
                 /\ DOMAIN ProcStatAt(procStatCorrected_[2])' \subseteq
                      DOMAIN ProcStatAt(procStatCorrected_[1])'
      BY <1>1, <1>5, <2>1, <2>3, <3>1 DEF HasRead
    <3>. QED
      BY <1>1, <1>5, <2>3, <3>1 DEF HasRead
  <2>4. FieldTypes(target)' = FieldTypes(target)
    BY <1>5 DEF FieldTypes
  <2>5. pc = "Terminated" => Excused'
    BY <1>1, ExcusedLater DEF ReadInv
  <2>. QED
    BY <1>2, <1>5, <2>3, <2>4, <2>5 DEF ReadInv
<1>. QED
  BY <1>3, <1>4, <1>5

\* A parser has read its file, or ends the tool for one of the reasons there are.
LEMMA ReadByParser ==
  ASSUME TypeInv, TypeInv', CpuInv, ReadInv, NEW type \in SystemTypes \cup ProcessTypes,
         InitializeRuntime(type)
  PROVE  ReadInv'
<1>1. /\ pc = "Parsers" /\ type \in pending /\ pending' = pending \ {type}
      /\ pc' = IF InitializeThrows(type) THEN "Terminated"
               ELSE IF pending' = {} THEN "Fields" ELSE "Parsers"
      /\ UNCHANGED <<machine, now, life, target>>
  BY DEF InitializeRuntime, world
<1>2. /\ now \in 0..MaxTicks /\ MaxTicks \in Nat /\ 0..now \subseteq 0..MaxTicks /\ now \in 0..now
      /\ machine \in DOMAIN Machines /\ procStat_ \in 0..now
      /\ type \in FieldTypes(target) /\ target \in {System} \cup Processes
      /\ pending \subseteq FieldTypes(target)
  BY <1>1, MeasurementsAssumption DEF TypeInv, CpuInv, ReadInv
<1>3. procStat_ # None
  BY <1>2, MeasurementsAssumption
<1>4. machine' \in DOMAIN Machines /\ meminfo_' \in 0..now
  BY <1>1, <1>2 DEF InitializeRuntime, GetMemInfo, ReadInv
<1>5. type = "PID_STAT" => target \in Processes
  BY <1>2 DEF FieldTypes, SystemTypes
<1>6. \A t : ProcStatAt(t)' = ProcStatAt(t)
  BY <1>1 DEF ProcStatAt
<1>7. CASE InitializeThrows(type)
  <2>1. Excused
    <3>1. CASE type = "PROC_STAT"
      <4>1. K!Minus(ProcStatAt(now), ProcStatAt(procStat_)) = Thrown
        BY <1>7, <3>1 DEF InitializeThrows, GetProcStat
      <4>2. ~(DOMAIN ProcStatAt(now) \subseteq DOMAIN ProcStatAt(procStat_))
        BY <1>2, <4>1, MinusIs
      <4>. QED
        BY <1>2, <4>2 DEF Excused
    <3>2. CASE type = "PID_STAT"
      <4>1. PICK o \in Owners : o = Owner(target) /\ StatOf(target, o) = Thrown
        BY <1>7, <3>2 DEF InitializeThrows, Owner, Owners
      <4>2. Len(Machines[machine].comm[target][o]) > 1
        BY <1>2, <1>5, <3>2, <4>1, StatOfIs
      <4>. QED
        BY <1>5, <3>2, <4>1, <4>2 DEF Excused
    <3>3. CASE type \notin {"PROC_STAT", "PID_STAT"}
      BY <1>7, <3>3 DEF InitializeThrows
    <3>. QED
      BY <3>1, <3>2, <3>3
  <2>2. Excused'
    <3>1. now \in Nat
      BY <1>2
    <3>. QED
      BY <1>1, <2>1, <3>1, ExcusedLater
  <2>3. pc' = "Terminated"
    BY <1>1, <1>7
  <2>. QED
    BY <1>1, <1>4, <2>2, <2>3 DEF ReadInv
<1>8. CASE ~InitializeThrows(type)
  <2>1. HasRead(type)'
    <3>1. CASE type = "PROC_STAT"
      <4>1. procStatCorrected_' = <<procStat_, now>>
        BY <1>3, <3>1 DEF InitializeRuntime, ParseProcStat, Minus, GetProcStat
      <4>2. K!Minus(ProcStatAt(now), ProcStatAt(procStat_)) # Thrown
        BY <1>3, <1>8, <3>1 DEF InitializeThrows, GetProcStat
      <4>3. DOMAIN ProcStatAt(now) \subseteq DOMAIN ProcStatAt(procStat_)
        BY <1>2, <4>2, MinusIs
      <4>4. /\ procStatCorrected_' \in (0..now') \X (0..now')
            /\ procStatCorrected_'[1] = procStat_ /\ procStatCorrected_'[2] = now
        BY <1>1, <1>2, <4>1
      <4>5. /\ ProcStatAt(procStatCorrected_[2])' = ProcStatAt(now)
            /\ ProcStatAt(procStatCorrected_[1])' = ProcStatAt(procStat_)
        BY <1>1, <4>4 DEF ProcStatAt
      <4>. QED
        BY <3>1, <4>3, <4>4, <4>5 DEF HasRead
    <3>2. CASE type \in {"PID_STAT", "PID_STATM"}
      <4>1. GetStats(target) = now
        BY <3>2 DEF InitializeRuntime, GetStats
      <4>2. target \in Processes
        BY <1>2, <3>2 DEF FieldTypes, SystemTypes
      <4>3. ASSUME NEW map \in [Processes -> 0..now \cup {None}]
            PROVE  Insert(map, target)[target] \in 0..now
        BY <1>2, <4>1, <4>2 DEF Insert
      <4>4. /\ pidStatData_ \in [Processes -> 0..now \cup {None}]
            /\ pidStatmData_ \in [Processes -> 0..now \cup {None}]
        BY DEF TypeInv
      <4>5. CASE type = "PID_STAT"
        <5>1. pidStatData_' = Insert(pidStatData_, target)
          BY <4>5 DEF InitializeRuntime
        <5>. QED
          BY <1>1, <4>3, <4>4, <4>5, <5>1 DEF HasRead
      <4>6. CASE type = "PID_STATM"
        <5>1. pidStatmData_' = Insert(pidStatmData_, target)
          BY <4>6 DEF InitializeRuntime
        <5>. QED
          BY <1>1, <4>3, <4>4, <4>6, <5>1 DEF HasRead
      <4>. QED
        BY <3>2, <4>5, <4>6
    <3>3. CASE type \notin {"PROC_STAT", "PID_STAT", "PID_STATM"}
      BY <3>3 DEF HasRead
    <3>. QED
      BY <3>1, <3>2, <3>3
  <2>2. ASSUME NEW other \in FieldTypes(target) \ pending PROVE HasRead(other)'
    <3>0. HasRead(other) /\ other # type
      BY <1>1, <2>2 DEF ReadInv
    <3>1. CASE other = "PROC_STAT"
      <4>1. procStatCorrected_' = procStatCorrected_
        BY <3>0, <3>1 DEF InitializeRuntime
      <4>2. /\ ProcStatAt(procStatCorrected_[2])' = ProcStatAt(procStatCorrected_[2])
            /\ ProcStatAt(procStatCorrected_[1])' = ProcStatAt(procStatCorrected_[1])
        BY <1>1, <4>1 DEF ProcStatAt
      <4>. QED
        BY <1>1, <3>0, <3>1, <4>1, <4>2 DEF HasRead
    <3>2. CASE other = "PID_STAT"
      <4>1. pidStatData_' = pidStatData_
        BY <3>0, <3>2 DEF InitializeRuntime
      <4>. QED
        BY <1>1, <3>0, <3>2, <4>1 DEF HasRead
    <3>3. CASE other = "PID_STATM"
      <4>1. pidStatmData_' = pidStatmData_
        BY <3>0, <3>3 DEF InitializeRuntime
      <4>. QED
        BY <1>1, <3>0, <3>3, <4>1 DEF HasRead
    <3>4. CASE other \notin {"PROC_STAT", "PID_STAT", "PID_STATM"}
      BY <3>4 DEF HasRead
    <3>. QED
      BY <3>1, <3>2, <3>3, <3>4
  <2>3. \A other \in FieldTypes(target) \ pending' : HasRead(other)'
    BY <1>1, <2>1, <2>2
  <2>4. FieldTypes(target)' = FieldTypes(target)
    BY <1>1 DEF FieldTypes
  <2>5. pc' = IF pending' = {} THEN "Fields" ELSE "Parsers"
    BY <1>1, <1>8
  <2>6. KeptInv'
    <3>1. \A p, o : StatOf(p, o)' = StatOf(p, o)
      BY <1>1 DEF StatOf
    <3>2. KeptInv
      BY <1>1 DEF ReadInv
    <3>3. CASE type = "PID_STAT" /\ pidStatData_[target] = None
      <4>1. /\ statOwner' = [statOwner EXCEPT ![target] = Owner(target)]
            /\ pidStatData_' = [pidStatData_ EXCEPT ![target] = GetStats(target)]
        BY <3>3 DEF InitializeRuntime, Insert
      <4>2. /\ statOwner \in [Processes -> Owners]
            /\ pidStatData_ \in [Processes -> 0..now \cup {None}]
        BY DEF TypeInv
      <4>3. StatOf(target, Owner(target)) # Thrown
        BY <1>8, <3>3 DEF InitializeThrows
      <4>4. \A p \in Processes :
              IF p = target THEN statOwner'[p] = Owner(target)
              ELSE statOwner'[p] = statOwner[p] /\ pidStatData_'[p] = pidStatData_[p]
        BY <4>1, <4>2
      <4>5. ASSUME NEW p \in Processes, pidStatData_'[p] # None
            PROVE  StatOf(p, statOwner'[p]) # Thrown
        <5>1. CASE p = target
          BY <4>3, <4>4, <5>1
        <5>2. CASE p # target
          BY <3>2, <4>4, <4>5, <5>2 DEF KeptInv
        <5>. QED
          BY <5>1, <5>2
      <4>. QED
        BY <3>1, <4>5 DEF KeptInv
    <3>4. CASE ~(type = "PID_STAT" /\ pidStatData_[target] = None)
      <4>1. statOwner' = statOwner
        BY <3>4 DEF InitializeRuntime
      <4>2. \A p \in Processes : pidStatData_'[p] = pidStatData_[p]
        <5>1. pidStatData_ \in [Processes -> 0..now \cup {None}]
          BY DEF TypeInv
        <5>2. CASE type = "PID_STAT"
          BY <3>4, <5>1, <5>2 DEF InitializeRuntime, Insert
        <5>3. CASE type # "PID_STAT"
          BY <5>3 DEF InitializeRuntime
        <5>. QED
          BY <5>2, <5>3
      <4>. QED
        BY <3>1, <3>2, <4>1, <4>2 DEF KeptInv
    <3>. QED
      BY <3>3, <3>4
  <2>. QED
    BY <1>1, <1>4, <2>3, <2>4, <2>5, <2>6 DEF ReadInv
<1>. QED
  BY <1>7, <1>8

\* Every step leaves the parsers with what they are asked for.
LEMMA ReadStep ==
  ASSUME FieldsAreThere, TypeInv, TypeInv', ConfiguredInv, IdsInv, CpuInv, ReadInv, [Next]_vars
  PROVE  ReadInv'
<1>1. now \in Nat /\ now' \in Nat
  BY DEF TypeInv
<1>15. \A p \in Processes : life[p] = "foreign" => life'[p] = "foreign"
  BY DEF Next, vars, world, Terminating, Tick, ProgramEnds, WaitPid, PidReused, Initialize,
         StartSample, Collect, Store, EndLoop, InitializeRuntime, InitializeRuntimeFails,
         ParseMeasurement, ParseMeasurementFails, TypeInv
<1>2. CASE pc = "Initialize" /\ pc' = "Initialize"
  <2>1. machine' = machine /\ UNCHANGED <<pidStatData_, statOwner>>
    BY <1>2 DEF Next, handlers, vars, world, Terminating, Tick, ProgramEnds, WaitPid, PidReused, Initialize,
             StartSample, Collect, Store, EndLoop, InitializeRuntime, InitializeRuntimeFails,
             ParseMeasurement, ParseMeasurementFails, AtField
  <2>. QED
    BY <1>2, <2>1 DEF ReadInv, KeptInv, StatOf
<1>3. CASE UNCHANGED vars \/ Terminating
  <2>1. UNCHANGED <<machine, now, pc, target, pending, pidStatData_, pidStatmData_,
                    statOwner, procStatCorrected_, meminfo_>>
    BY <1>3 DEF Terminating, vars, world, handlers
  <2>2. CASE pc # "Initialize"
    BY <1>1, <1>15, <2>1, <2>2, ReadKept
  <2>. QED
    BY <1>2, <2>1, <2>2
<1>4. CASE Tick
  <2>1. UNCHANGED <<machine, pc, target, pending, pidStatData_, pidStatmData_,
                    statOwner, procStatCorrected_, meminfo_>> /\ now <= now'
    BY <1>1, <1>4 DEF Tick, handlers
  <2>2. CASE pc # "Initialize"
    BY <1>15, <2>1, <2>2, ReadKept
  <2>. QED
    BY <1>2, <2>1, <2>2
<1>5. ASSUME NEW p \in Processes, ProgramEnds(p) \/ WaitPid(p) \/ PidReused(p) PROVE ReadInv'
  <2>1. UNCHANGED <<machine, now, pc, target, pending, pidStatData_, pidStatmData_,
                    statOwner, procStatCorrected_, meminfo_>>
    BY <1>5 DEF ProgramEnds, WaitPid, PidReused, handlers
  <2>2. CASE pc # "Initialize"
    BY <1>1, <1>15, <2>1, <2>2, ReadKept
  <2>. QED
    BY <1>2, <2>1, <2>2
<1>6. CASE Initialize
  <2>1. /\ pc = "Initialize" /\ pc' = "Loop" /\ meminfo_' = now
        /\ UNCHANGED <<machine, now, pidStatData_, statOwner>>
    BY <1>6 DEF Initialize, GetMemInfo, world
  <2>2. now \in 0..now'
    BY <1>1, <2>1
  <2>. QED
    BY <2>1, <2>2 DEF ReadInv, KeptInv, StatOf
<1>7. CASE StartSample
  <2>1. /\ pc = "Loop" /\ pc' = "Parsers" /\ UNCHANGED <<machine, now, meminfo_, pidStatData_, statOwner>>
        /\ pending' = FieldTypes(target)'
    BY <1>7 DEF StartSample, BeginParsing, FieldTypes, world, handlers
  <2>. QED
    BY <1>1, <1>15, <2>1, ReadKept
<1>8. ASSUME WentOn(target), UNCHANGED <<machine, now, meminfo_, pidStatData_, statOwner>>,
             pc \notin {"Initialize", "Terminated"}
      PROVE  ReadInv'
  <2>1. CASE pc' = "Store"
    BY <1>1, <1>8, <1>15, <2>1, ReadKept
  <2>2. CASE pc' # "Store"
    <3>1. pc' = "Parsers" /\ target' \in Processes /\ pending' = ProcessTypes
      BY <1>8, <2>2 DEF WentOn
    <3>2. FieldTypes(target)' = ProcessTypes
      BY <3>1, MeasurementsAssumption DEF FieldTypes, Processes
    <3>. QED
      BY <1>1, <1>8, <1>15, <3>1, <3>2, ReadKept
  <2>. QED
    BY <2>1, <2>2
<1>9. CASE Collect
  <2>1. WentOn(target)
    BY <1>9, GoOn DEF Collect, TypeInv
  <2>. QED
    BY <1>8, <1>9, <2>1 DEF Collect, world, handlers
<1>10. CASE Store \/ EndLoop
  <2>1. /\ pc' \in {"Loop", "Analyze"} /\ pc \notin {"Initialize", "Terminated"}
        /\ UNCHANGED <<machine, now, meminfo_, pidStatData_, statOwner>>
    BY <1>10 DEF Store, EndLoop, world, handlers
  <2>. QED
    BY <1>1, <1>15, <2>1, ReadKept
<1>11. ASSUME NEW t \in SystemTypes \cup ProcessTypes, InitializeRuntime(t) PROVE ReadInv'
  BY <1>11, ReadByParser
<1>12. ASSUME NEW t \in SystemTypes \cup ProcessTypes, InitializeRuntimeFails(t) PROVE ReadInv'
  <2>1. WentOn(target)
    BY <1>12, GivenUp DEF InitializeRuntimeFails
  <2>. QED
    BY <1>8, <1>12, <2>1 DEF InitializeRuntimeFails, world, handlers
<1>13. CASE ParseMeasurement
  <2>1. /\ AtField /\ pc = "Fields" /\ pc' = IF CurrentValue = Thrown THEN "Terminated" ELSE "Fields"
        /\ UNCHANGED <<machine, now, target, pending, pidStatData_, pidStatmData_, statOwner,
                       meminfo_, procStatCorrected_>>
    BY <1>13 DEF ParseMeasurement, AtField, world
  <2>2. CASE CurrentValue = Thrown
    <3>1. Excused'
      BY <1>1, <1>15, <2>1, <2>2, ThrownIsExcused, ExcusedLater
    <3>2. machine' \in DOMAIN Machines /\ meminfo_' \in 0..now'
      BY <2>1 DEF ReadInv
    <3>. QED
      BY <2>1, <2>2, <3>1, <3>2 DEF ReadInv
  <2>3. CASE CurrentValue # Thrown
    BY <1>1, <1>15, <2>1, <2>3, ReadKept
  <2>. QED
    BY <2>2, <2>3
<1>14. CASE ParseMeasurementFails
  <2>1. WentOn(target) /\ pc \notin {"Initialize", "Terminated"}
    BY <1>14, GivenUp DEF ParseMeasurementFails, AtField
  <2>. QED
    BY <1>8, <1>14, <2>1 DEF ParseMeasurementFails, world
<1>. QED
  BY <1>3, <1>4, <1>5, <1>6, <1>7, <1>9, <1>10, <1>11, <1>12, <1>13, <1>14 DEF Next

\* What a parser makes of a field depends on the machine only.
LEMMA ValuesLater ==
  ASSUME UNCHANGED <<machine, definition>>
  PROVE  /\ \A items, x : ValuesOK(items, x) => ValuesOK(items, x)'
         /\ \A s : SampleValued(s) => SampleValued(s)'
<1>1. (\A t : ProcStatAt(t)' = ProcStatAt(t)) /\ \A x, o : StatOf(x, o)' = StatOf(x, o)
  BY DEF ProcStatAt, StatOf
<1>2. \A item, x, f : ValueOK(item, x, f) => ValueOK(item, x, f)'
  BY <1>1 DEF ValueOK
<1>3. ASSUME NEW items, NEW x, ValuesOK(items, x) PROVE ValuesOK(items, x)'
  BY <1>2, <1>3 DEF ValuesOK
<1>4. \A s : SampleValued(s) => SampleValued(s)'
  BY <1>3 DEF SampleValued
<1>. QED
  BY <1>3, <1>4

\* Initially there are no values.
LEMMA ValueInit == Init => ValueInv
BY NoElements DEF Init, ValueInv, SampleValued, ValuesOK, Samples

\* A step that measures nothing.
LEMMA ValuesKept ==
  ASSUME ValueInv, UNCHANGED <<machine, definition, measurementData, measurementsData_>>,
         UNCHANGED <<pc, target, lastMeasurements_>> \/ pc' # "Fields"
  PROVE  ValueInv'
<1>1. \A k \in Samples : SampleValued(measurementsData_[k])'
  BY ValuesLater DEF ValueInv
<1>2. SampleValued(measurementData)'
  BY ValuesLater DEF ValueInv
<1>3. pc' = "Fields" => ValuesOK(lastMeasurements_[ClassOf(target)], target)'
  <2>1. ASSUME pc' = "Fields" PROVE ValuesOK(lastMeasurements_[ClassOf(target)], target)'
    <3>1. UNCHANGED <<pc, target, lastMeasurements_>>
      BY <2>1
    <3>2. ValuesOK(lastMeasurements_[ClassOf(target)], target)
      BY <2>1, <3>1 DEF ValueInv
    <3>. QED
      BY <3>1, <3>2, ValuesLater DEF ClassOf
  <2>. QED
    BY <2>1
<1>. QED
  BY <1>1, <1>2, <1>3 DEF ValueInv, Samples

\* A value that is no exception is what the parser made of the current field.
LEMMA MeasuredValueOK ==
  ASSUME TypeInv, IdsInv, CpuInv, ReadInv, AtField, CurrentValue # Thrown,
         NEW item, item.read = Read(CurrentField.type), item.measuredValue = CurrentValue
  PROVE  ValueOK(item, target, CurrentField)
<1>1. PICK f : f = CurrentField
  OBVIOUS
<1>2. PICK read : read = Read(f.type)
  OBVIOUS
<1>3. /\ f.type \in FieldTypes(target) /\ HasRead(f.type) /\ pc = "Fields" /\ now \in Nat
      /\ target \in {System} \cup Processes
  BY <1>1, CurrentFieldIs DEF ReadInv, AtField, TypeInv
<1>4. item.measuredValue = ValueOf(f, read) /\ item.read = read /\ item.measuredValue # Thrown
  BY <1>1, <1>2 DEF CurrentValue
<1>5. ASSUME NEW t \in 0..now, NEW u \in 0..now PROVE <<t, u>> \notin {None, <<None, None>>}
  BY <1>3, MeasurementsAssumption
<1>6. CASE f.type = "PROC_STAT"
  <2>1. PICK t \in 0..now, u \in 0..now :
          /\ procStatCorrected_ = <<t, u>>
          /\ DOMAIN ProcStatAt(u) \subseteq DOMAIN ProcStatAt(t)
    BY <1>3, <1>6 DEF HasRead
  <2>2. read = <<t, u>> /\ read[1] = t /\ read[2] = u
    BY <1>2, <1>6, <2>1 DEF Read
  <2>3. t <= u
    BY <1>3, <2>1 DEF CpuInv, HasReadCpu
  <2>4. ValueOf(f, read) = K!ParseProcField(K!Minus(ProcStatAt(u), ProcStatAt(t)), f.path, f.what)
    BY <1>5, <1>6, <2>2 DEF ValueOf
  <2>. QED
    BY <1>1, <1>4, <1>6, <2>1, <2>2, <2>3, <2>4 DEF ValueOK
<1>7. CASE f.type = "PID_STAT"
  <2>1. PICK t \in 0..now : pidStatData_[target] = t
    BY <1>3, <1>7 DEF HasRead
  <2>4. PICK o \in Owners : o = statOwner[target] /\ StatOf(target, o) # Thrown
    <3>1. t # None /\ pc # "Terminated" /\ target \in Processes
      BY <1>3, <1>7, MeasurementsAssumption DEF FieldTypes, SystemTypes
    <3>2. StatOf(target, statOwner[target]) # Thrown
      BY <2>1, <3>1 DEF ReadInv, KeptInv
    <3>. QED
      BY <3>1, <3>2 DEF TypeInv
  <2>2. read = <<t, t>>
    BY <1>2, <1>7, <2>1 DEF Read
  <2>3. ValueOf(f, read) = K!GetValue(StatOf(target, o), f.what)
    BY <1>5, <1>7, <2>2, <2>4 DEF ValueOf
  <2>. QED
    BY <1>1, <1>4, <1>7, <2>3, <2>4 DEF ValueOK
<1>8. CASE f.type = "PID_STATM"
  <2>1. PICK t \in 0..now : pidStatmData_[target] = t
    BY <1>3, <1>8 DEF HasRead
  <2>2. read = <<t, t>>
    BY <1>2, <1>8, <2>1 DEF Read
  <2>3. ValueOf(f, read) = K!GetValue(K!ParseStatm(K!orderedNames_), f.what)
    BY <1>5, <1>8, <2>2 DEF ValueOf
  <2>. QED
    BY <1>1, <1>4, <1>8, <2>3 DEF ValueOK
<1>9. CASE f.type \notin {"PROC_STAT", "PID_STAT", "PID_STATM"}
  BY <1>1, <1>4, <1>9 DEF ValueOK
<1>. QED
  BY <1>6, <1>7, <1>8, <1>9

\* Every step keeps the values those of their fields.
LEMMA ValueStep ==
  ASSUME TypeInv, ShapeInv, IdsInv, ItemsInv, CpuInv, ReadInv, ValueInv, [Next]_vars
  PROVE  ValueInv'
<1>1. target \in {System} \cup Processes /\ ClassOf(target) \in Classes
  BY DEF TypeInv, ClassOf, Classes
<1>2. CASE UNCHANGED vars \/ Terminating
  BY <1>2, ValuesKept DEF Terminating, vars, world
<1>3. CASE Tick
  BY <1>3, ValuesKept DEF Tick
<1>4. ASSUME NEW p \in Processes, ProgramEnds(p) \/ WaitPid(p) \/ PidReused(p) PROVE ValueInv'
  BY <1>4, ValuesKept DEF ProgramEnds, WaitPid, PidReused
<1>5. CASE EndLoop
  <2>1. pc' # "Fields"
    BY <1>5 DEF EndLoop
  <2>. QED
    BY <1>5, <2>1, ValuesKept DEF EndLoop, world
<1>6. CASE Initialize
  <2>1. /\ pc' = "Loop" /\ measurementsData_' = <<>>
        /\ measurementData'.SYSTEM = <<>> /\ measurementData'.PROCESSES = <<>>
    BY <1>6 DEF Initialize, ShapeInv
  <2>. QED
    BY <2>1, NoElements DEF ValueInv, SampleValued, ValuesOK, Samples
<1>7. CASE StartSample
  <2>1. /\ pc' = "Parsers"
        /\ measurementData'.SYSTEM = <<>> /\ measurementData'.PROCESSES = <<>>
        /\ UNCHANGED <<machine, definition, measurementsData_>>
    BY <1>7 DEF StartSample, BeginParsing, world
  <2>2. SampleValued(measurementData)'
    BY <2>1, NoElements DEF SampleValued, ValuesOK
  <2>3. \A k \in Samples : SampleValued(measurementsData_[k])'
    BY <2>1, ValuesLater DEF ValueInv
  <2>. QED
    BY <2>1, <2>2, <2>3 DEF ValueInv, Samples
<1>8. CASE Collect
  <2>1. /\ WentOn(target) /\ pc = "Fields"
        /\ UNCHANGED <<machine, definition, measurementsData_>>
    BY <1>8, GoOn DEF Collect, TypeInv, world
  <2>2. PICK items : items = lastMeasurements_[ClassOf(target)] /\ ValuesOK(items, target)
    BY <2>1 DEF ValueInv
  <2>3. SampleOK(measurementData, definition, now, uniqueIds_) /\ SampleValued(measurementData)
    BY DEF ItemsInv, ValueInv
  <2>4. SampleValued(measurementData')
    <3>1. CASE target = System
      <4>1. /\ measurementData'.SYSTEM = items
            /\ measurementData'.PROCESSES = measurementData.PROCESSES
        BY <1>8, <2>2, <3>1 DEF Collect, ShapeInv
      <4>. QED
        BY <2>2, <2>3, <3>1, <4>1 DEF SampleValued
    <3>2. CASE target # System
      <4>. DEFINE g == [pipelineId |-> target, measuredItems |-> items]
                  groups == measurementData.PROCESSES
      <4>1. /\ measurementData'.SYSTEM = measurementData.SYSTEM
            /\ measurementData'.PROCESSES = Append(groups, g)
        BY <1>8, <2>2, <3>2 DEF Collect, ShapeInv
      <4>2. ValuesOK(g.measuredItems, g.pipelineId)
        BY <2>2
      <4>3. IsSeq(groups)
        BY <2>3 DEF SampleOK
      <4>. HIDE DEF g
      <4>4. /\ Len(groups) \in Nat /\ Len(Append(groups, g)) = Len(groups) + 1
            /\ \A i \in 1..Len(groups) : Append(groups, g)[i] = groups[i]
            /\ Append(groups, g)[Len(groups) + 1] = g
        BY <4>3, AppendOne DEF IsSeq
      <4>5. ASSUME NEW i \in 1..(Len(groups) + 1)
            PROVE  ValuesOK(Append(groups, g)[i].measuredItems, Append(groups, g)[i].pipelineId)
        <5>1. CASE i = Len(groups) + 1
          BY <4>2, <4>4, <5>1
        <5>2. CASE i # Len(groups) + 1
          <6>1. i \in 1..Len(groups)
            BY <4>4, <5>2
          <6>. QED
            BY <2>3, <4>4, <6>1 DEF SampleValued
        <5>. QED
          BY <5>1, <5>2
      <4>. QED
        BY <2>3, <4>1, <4>4, <4>5 DEF SampleValued
    <3>. QED
      BY <3>1, <3>2
  <2>5. PICK sample : sample = measurementData'
    OBVIOUS
  <2>6. SampleValued(measurementData)'
    <3>1. SampleValued(sample)'
      BY <2>1, <2>4, <2>5, ValuesLater
    <3>. QED
      BY <2>5, <3>1 DEF SampleValued
  <2>7. \A k \in Samples : SampleValued(measurementsData_[k])'
    BY <2>1, ValuesLater DEF ValueInv
  <2>8. pc' # "Fields"
    BY <2>1, WentOnEmpty
  <2>. QED
    BY <2>1, <2>6, <2>7, <2>8 DEF ValueInv, Samples
<1>9. CASE Store
  <2>1. /\ pc' = "Loop" /\ measurementsData_' = Append(measurementsData_, measurementData)
        /\ UNCHANGED <<machine, definition, measurementData>>
    BY <1>9 DEF Store, world
  <2>2. /\ Len(measurementsData_') = Len(measurementsData_) + 1 /\ Len(measurementsData_) \in Nat
        /\ \A k \in Samples : measurementsData_'[k] = measurementsData_[k]
        /\ measurementsData_'[Len(measurementsData_) + 1] = measurementData
    BY <2>1, AppendOne DEF ShapeInv, Samples, IsSeq
  <2>3. /\ \A k \in Samples : SampleValued(measurementsData_[k])'
        /\ SampleValued(measurementData)'
    <3>1. /\ \A k \in Samples : SampleValued(measurementsData_[k])
          /\ SampleValued(measurementData)
      BY DEF ValueInv
    <3>2. SampleValued(measurementData)'
      BY <2>1, <3>1, ValuesLater
    <3>3. ASSUME NEW k \in Samples PROVE SampleValued(measurementsData_[k])'
      <4>1. PICK s : s = measurementsData_[k] /\ SampleValued(s)
        BY <3>1
      <4>2. SampleValued(s)' /\ measurementsData_'[k] = s
        BY <2>1, <2>2, <4>1, ValuesLater
      <4>. QED
        BY <4>2
    <3>. QED
      BY <3>2, <3>3
  <2>4. ASSUME NEW k \in 1..(Len(measurementsData_) + 1)
        PROVE  SampleValued(measurementsData_[k])'
    <3>1. CASE k \in Samples
      BY <2>3, <3>1
    <3>2. CASE k = Len(measurementsData_) + 1
      BY <2>1, <2>2, <2>3, <3>2 DEF SampleValued
    <3>. QED
      BY <2>2, <3>1, <3>2 DEF Samples
  <2>. QED
    BY <2>1, <2>2, <2>3, <2>4 DEF ValueInv, Samples
<1>10. ASSUME NEW t \in SystemTypes \cup ProcessTypes, InitializeRuntime(t) PROVE ValueInv'
  <2>1. /\ pc = "Parsers"
        /\ UNCHANGED <<machine, target, definition, lastMeasurements_, measurementData,
                       measurementsData_>>
    BY <1>10 DEF InitializeRuntime, world
  <2>2. lastMeasurements_[ClassOf(target)] = <<>>
    BY <2>1 DEF ItemsInv
  <2>3. lastMeasurements_'[ClassOf(target)'] = <<>>
    BY <2>1, <2>2 DEF ClassOf
  <2>4. ValuesOK(lastMeasurements_[ClassOf(target)], target)'
    BY <2>3, NoElements DEF ValuesOK
  <2>5. /\ \A k \in Samples : SampleValued(measurementsData_[k])'
        /\ SampleValued(measurementData)'
    BY <2>1, ValuesLater DEF ValueInv
  <2>. QED
    BY <2>1, <2>4, <2>5 DEF ValueInv, Samples
<1>11. ASSUME NEW t \in SystemTypes \cup ProcessTypes, InitializeRuntimeFails(t) PROVE ValueInv'
  <2>1. GiveUp /\ UNCHANGED <<machine, definition, measurementsData_>>
    BY <1>11 DEF InitializeRuntimeFails, world
  <2>2. WentOn(target) /\ measurementData' = measurementData
    BY <2>1, GivenUp
  <2>3. pc' # "Fields"
    BY <2>2, WentOnEmpty
  <2>. QED
    BY <2>1, <2>2, <2>3, ValuesKept
<1>12. CASE ParseMeasurement
  <2>. DEFINE c == ClassOf(target)
              items == lastMeasurements_[c]
              item == [id |-> ItemId(CurrentField), of |-> <<target, CurrentField.name>>,
                       type |-> CurrentField.type, read |-> Read(CurrentField.type),
                       measuredValue |-> CurrentValue]
  <2>1. /\ AtField /\ pc = "Fields" /\ pc' = IF CurrentValue = Thrown THEN "Terminated" ELSE "Fields"
        /\ UNCHANGED <<machine, target, definition, measurementData, measurementsData_>>
        /\ lastMeasurements_' = [lastMeasurements_ EXCEPT ![c] = Append(items, item)]
    BY <1>12 DEF ParseMeasurement, AtField, world
  <2>2. CASE CurrentValue = Thrown
    BY <2>1, <2>2, ValuesKept
  <2>3. CASE CurrentValue # Thrown
    <3>1. ValueOK(item, target, CurrentField)
      <4>1. item.read = Read(CurrentField.type) /\ item.measuredValue = CurrentValue
        OBVIOUS
      <4>. HIDE DEF item
      <4>. QED
        BY <2>1, <2>3, <4>1, MeasuredValueOK
    <3>2. ValuesOK(items, target) /\ IsSeq(items) /\ Len(items) = field - 1 /\ field \in Nat \ {0}
      BY <2>1 DEF ValueInv, ItemsInv, ItemsOK, TypeInv
    <3>3. lastMeasurements_'[c] = Append(items, item)
      BY <1>1, <2>1 DEF ShapeInv
    <3>. HIDE DEF item, items
    <3>4. /\ Len(Append(items, item)) = field
          /\ \A k \in 1..(field - 1) : Append(items, item)[k] = items[k]
          /\ Append(items, item)[field] = item
      <4>1. Len(items) + 1 = field
        BY <3>2
      <4>. QED
        BY <3>2, <4>1, AppendOne
    <3>5. ASSUME NEW k \in 1..field
          PROVE  ValueOK(Append(items, item)[k], target, definition[c][k])
      <4>1. CASE k = field
        BY <3>1, <3>4, <4>1 DEF CurrentField
      <4>2. CASE k # field
        <5>1. k \in 1..(field - 1)
          BY <3>2, <4>2
        <5>. QED
          BY <3>2, <3>4, <5>1 DEF ValuesOK
      <4>. QED
        BY <4>1, <4>2
    <3>6. PICK more : more = Append(items, item)
      OBVIOUS
    <3>7. ValuesOK(more, target)
      BY <3>4, <3>5, <3>6 DEF ValuesOK
    <3>8. ValuesOK(lastMeasurements_[ClassOf(target)], target)'
      <4>1. ValuesOK(more, target)'
        BY <2>1, <3>7, ValuesLater
      <4>2. lastMeasurements_'[ClassOf(target)'] = more
        BY <2>1, <3>3, <3>6 DEF ClassOf
      <4>. QED
        BY <4>1, <4>2
    <3>9. /\ \A k \in Samples : SampleValued(measurementsData_[k])'
          /\ SampleValued(measurementData)'
      BY <2>1, ValuesLater DEF ValueInv
    <3>. QED
      BY <2>1, <3>8, <3>9 DEF ValueInv, Samples
  <2>. QED
    BY <2>2, <2>3
<1>13. CASE ParseMeasurementFails
  <2>1. GiveUp /\ UNCHANGED <<machine, definition, measurementsData_>>
    BY <1>13 DEF ParseMeasurementFails, world
  <2>2. WentOn(target) /\ measurementData' = measurementData
    BY <2>1, GivenUp
  <2>3. pc' # "Fields"
    BY <2>2, WentOnEmpty
  <2>. QED
    BY <2>1, <2>2, <2>3, ValuesKept
<1>. QED
  BY <1>2, <1>3, <1>4, <1>5, <1>6, <1>7, <1>8, <1>9, <1>10, <1>11, <1>12, <1>13 DEF Next

-----------------------------------------------------------------------------
(* Theorems about the values *)

\* With every sensor about something its file has, the parsers have read what they are
\* asked for, and all values are those of their fields.
THEOREM ValuesInvariance == FieldsAreThere => (Spec => [](IInv /\ ReadInv /\ ValueInv))
<1> SUFFICES ASSUME FieldsAreThere PROVE Spec => [](IInv /\ ReadInv /\ ValueInv)
  OBVIOUS
<1>1. Init => ReadInv /\ ValueInv
  BY ReadInit, ValueInit
<1>2. IInv /\ IInv' /\ ReadInv /\ ValueInv /\ [Next]_vars => ReadInv' /\ ValueInv'
  <2>. SUFFICES ASSUME IInv, IInv', ReadInv, ValueInv, [Next]_vars PROVE ReadInv' /\ ValueInv'
    OBVIOUS
  <2>1. TypeInv /\ ShapeInv /\ ConfiguredInv /\ IdsInv /\ ItemsInv /\ CpuInv /\ TypeInv'
    BY DEF IInv
  <2>2. ReadInv'
    BY <2>1, ReadStep
  <2>3. ValueInv'
    BY <2>1, ValueStep
  <2>. QED
    BY <2>2, <2>3
<1>3. QED
  BY <1>1, <1>2, Invariance, PTL DEF Spec

\* The value of every item stored is that of the field it was measured of.
LEMMA ValueFrom ==
  ASSUME ItemsInv, ValueInv, NEW a \in AllItems
  PROVE  \E x \in {System} \cup Processes : \E k \in 1..Len(definition[ClassOf(x)]) :
           /\ ItemOK(a, x, definition[ClassOf(x)][k], now, uniqueIds_)
           /\ ValueOK(a, x, definition[ClassOf(x)][k])
<1>1. PICK n \in DOMAIN measurementsData_ : a \in ItemsOf(measurementsData_[n])
  BY DEF AllItems
<1>. DEFINE s == measurementsData_[n]
<1>2. PICK m \in Samples : m = n
  BY <1>1 DEF Samples
<1>3. SampleOK(s, definition, now, uniqueIds_) /\ SampleValued(s)
  BY <1>2 DEF ItemsInv, ValueInv
<1>. HIDE DEF s
<1>4. ASSUME NEW items, NEW x \in {System} \cup Processes, a \in Range(items), ValuesOK(items, x),
             ItemsOK(items, x, Len(definition[ClassOf(x)]), definition, now, uniqueIds_)
      PROVE  \E k \in 1..Len(definition[ClassOf(x)]) :
               /\ ItemOK(a, x, definition[ClassOf(x)][k], now, uniqueIds_)
               /\ ValueOK(a, x, definition[ClassOf(x)][k])
  <2>1. PICK k \in DOMAIN items : a = items[k]
    BY <1>4 DEF Range
  <2>2. k \in 1..Len(definition[ClassOf(x)]) /\ k \in 1..Len(items)
    BY <1>4, <2>1 DEF ItemsOK, IsSeq
  <2>3. ItemOK(a, x, definition[ClassOf(x)][k], now, uniqueIds_)
    BY <1>4, <2>1, <2>2 DEF ItemsOK
  <2>4. ValueOK(a, x, definition[ClassOf(x)][k])
    BY <1>4, <2>1, <2>2 DEF ValuesOK
  <2>. QED
    BY <2>2, <2>3, <2>4
<1>5. CASE a \in Range(s.SYSTEM)
  <2>1. s.SYSTEM # <<>>
    BY <1>5 DEF Range
  <2>2. ItemsOK(s.SYSTEM, System, Len(definition["SYSTEM"]), definition, now, uniqueIds_)
    BY <1>3, <2>1 DEF SampleOK
  <2>3. ClassOf(System) = "SYSTEM" /\ ValuesOK(s.SYSTEM, System)
    BY <1>3 DEF ClassOf, SampleValued
  <2>. QED
    BY <1>4, <1>5, <2>2, <2>3
<1>6. CASE \E g \in Range(s.PROCESSES) : a \in Range(g.measuredItems)
  <2>1. PICK j \in DOMAIN s.PROCESSES : a \in Range(s.PROCESSES[j].measuredItems)
    BY <1>6 DEF Range
  <2>2. j \in 1..Len(s.PROCESSES)
    BY <1>3, <2>1 DEF SampleOK, IsSeq
  <2>. DEFINE who == s.PROCESSES[j].pipelineId
              items == s.PROCESSES[j].measuredItems
  <2>3. /\ who \in Processes /\ ValuesOK(items, who)
        /\ ItemsOK(items, who, Len(definition["PROCESSES"]), definition, now, uniqueIds_)
    BY <1>3, <2>2 DEF SampleOK, GroupOK, SampleValued
  <2>4. ClassOf(who) = "PROCESSES"
    BY <2>3, MeasurementsAssumption DEF ClassOf, Processes
  <2>5. a \in Range(items)
    BY <2>1
  <2>. HIDE DEF who, items
  <2>. QED
    BY <1>4, <2>3, <2>4, <2>5
<1>. QED
  BY <1>1, <1>5, <1>6 DEF ItemsOf, s

\* The only field with the name of an item is the one it was measured of.
LEMMA FieldOfIs ==
  ASSUME DistinctNames, ShapeInv, ConfiguredInv, IdsInv, NEW a, NEW x \in {System} \cup Processes,
         NEW k \in 1..Len(definition[ClassOf(x)]), a.of = <<x, definition[ClassOf(x)][k].name>>
  PROVE  FieldOf(a) = definition[ClassOf(x)][k]
<1>1. PICK d : d = definition[ClassOf(x)]
  OBVIOUS
<1>2. ClassOf(x) \in Classes
  BY DEF ClassOf, Classes
<1>3. DOMAIN d = 1..Len(d)
  BY <1>1, <1>2 DEF IdsInv, FieldsOK, IsSeq
<1>4. pc # "Initialize"
  <2>1. ASSUME pc = "Initialize" PROVE d = <<>>
    BY <1>1, <1>2, <2>1 DEF ShapeInv
  <2>. QED
    BY <1>1, <2>1, NoElements
<1>5. \A l, m \in 1..Len(d) : d[l].name = d[m].name => l = m
  <2>1. PICK sys : sys = GetFields(SystemTypes, 0)
    OBVIOUS
  <2>2. PICK proc : proc = GetFields(ProcessTypes, sys.uniqueId)
    OBVIOUS
  <2>3. definition = [SYSTEM |-> sys.definition, PROCESSES |-> proc.definition]
    BY <1>4, <2>1, <2>2 DEF ConfiguredInv
  <2>4. d \in {sys.definition, proc.definition}
    BY <1>1, <1>2, <2>3 DEF Classes
  <2>5. \A e \in {sys.definition, proc.definition} :
          \A l, m \in DOMAIN e : e[l].name = e[m].name => l = m
    BY <2>1, <2>2 DEF DistinctNames
  <2>. QED
    BY <1>3, <2>4, <2>5
<1>6. d[k] \in Range(d) /\ \A f \in Range(d) : f.name = d[k].name => f = d[k]
  BY <1>1, <1>3, <1>5 DEF Range
<1>7. FieldOf(a) = CHOOSE f \in Range(d) : f.name = d[k].name
  <2>1. a.of[1] = x /\ a.of[2] = d[k].name
    BY <1>1
  <2>. QED
    BY <1>1, <2>1 DEF FieldOf
<1>8. \E f \in Range(d) : f.name = d[k].name
  BY <1>6
<1>. QED
  BY <1>1, <1>6, <1>7, <1>8

\* A value of a program's stat is of the field the sensor names, and the tool ends by no
\* exception but those the machine gives a reason for.
THEOREM RightOrExcused == DistinctNames /\ FieldsAreThere => (Spec => []ReadRightOrEnd)
<1> SUFFICES ASSUME DistinctNames, FieldsAreThere PROVE Spec => []ReadRightOrEnd
  OBVIOUS
<1>1. IInv /\ ReadInv /\ ValueInv => ReadRightOrEnd
  <2>. SUFFICES ASSUME IInv, ReadInv, ValueInv PROVE ReadRightOrEnd
    OBVIOUS
  <2>1. ItemsInv /\ IdsInv /\ ShapeInv /\ ConfiguredInv /\ machine \in DOMAIN Machines
    BY DEF IInv, ReadInv
  <2>2. pc = "Terminated" => Excused
    BY DEF ReadInv
  <2>3. ASSUME NEW i \in AllItems, i.type \in {"PID_STAT", "PID_STATM"}
        PROVE  i.measuredValue[1] = FieldOf(i).what.value
    <3>1. PICK x \in {System} \cup Processes : \E k \in 1..Len(definition[ClassOf(x)]) :
            /\ ItemOK(i, x, definition[ClassOf(x)][k], now, uniqueIds_)
            /\ ValueOK(i, x, definition[ClassOf(x)][k])
      BY <2>1, ValueFrom
    <3>2. PICK k \in 1..Len(definition[ClassOf(x)]) :
            /\ ItemOK(i, x, definition[ClassOf(x)][k], now, uniqueIds_)
            /\ ValueOK(i, x, definition[ClassOf(x)][k])
      BY <3>1
    <3>3. PICK f : f = definition[ClassOf(x)][k]
      OBVIOUS
    <3>4. f.type = i.type /\ i.of = <<x, f.name>> /\ ValueOK(i, x, f)
      BY <3>2, <3>3 DEF ItemOK
    <3>5. FieldOf(i) = f
      BY <2>1, <3>3, <3>4, FieldOfIs
    <3>6. PICK v, what : v = i.measuredValue /\ what = f.what
      OBVIOUS
    <3>7. v # Thrown
      BY <3>4, <3>6 DEF ValueOK
    <3>8. ASSUME f.type = "PID_STAT" PROVE v[1] = what.value
      <4>1. PICK o \in Owners : v = K!GetValue(StatOf(x, o), what) /\ StatOf(x, o) # Thrown
        BY <3>4, <3>6, <3>8 DEF ValueOK
      <4>2. x \in Processes
        <5>1. ClassOf(System) = "SYSTEM" /\ "SYSTEM" \in Classes
          BY DEF ClassOf, Classes
        <5>2. \A j \in 1..Len(definition["SYSTEM"]) : definition["SYSTEM"][j].type \in SystemTypes
          BY <2>1, <5>1 DEF IdsInv, FieldsOK, TypesOf
        <5>. QED
          BY <3>3, <3>8, <5>1, <5>2 DEF SystemTypes
      <4>3. StatOf(x, o) = [n \in K!nameToValue |-> n]
        BY <2>1, <4>1, <4>2, StatOfIs
      <4>4. v = K!GetValue([n \in K!nameToValue |-> n], what)
        BY <4>1, <4>3
      <4>. QED
        BY <3>7, <4>4, GetValueIs
    <3>9. ASSUME f.type = "PID_STATM" PROVE v[1] = what.value
      <4>1. v = K!GetValue(K!ParseStatm(K!orderedNames_), what)
        BY <3>4, <3>6, <3>9 DEF ValueOK
      <4>2. v = K!GetValue([n \in Range(K!orderedNames_) |-> n], what)
        BY <4>1, StatmIs
      <4>. QED
        BY <3>7, <4>2, GetValueIs
    <3>. QED
      BY <2>3, <3>4, <3>5, <3>6, <3>8, <3>9
  <2>. QED
    BY <2>2, <2>3 DEF ReadRightOrEnd
<1> QED
  BY <1>1, ValuesInvariance, PTL

\* What was measured of a CPU as a share of all its time is between nothing and all, and 0/0
\* only if no time of that CPU was counted.
THEOREM SharesOfLoad == DistinctNames /\ FieldsAreThere => (Spec => []LoadIsAShare)
<1> SUFFICES ASSUME DistinctNames, FieldsAreThere PROVE Spec => []LoadIsAShare
  OBVIOUS
<1>1. IInv /\ ReadInv /\ ValueInv => LoadIsAShare
  <2>. SUFFICES ASSUME IInv, ReadInv, ValueInv,
                       NEW i \in AllItems, i.type = "PROC_STAT", FieldOf(i).what.comparedTo = "all"
                PROVE  LET v == i.measuredValue
                           cpu == FieldOf(i).path
                       IN  /\ 0 <= v[1] /\ v[1] <= v[2]
                           /\ v[2] = 0 => ProcStatAt(i.read[1])[cpu] = ProcStatAt(i.read[2])[cpu]
    BY DEF LoadIsAShare
  <2>1. /\ ItemsInv /\ IdsInv /\ ShapeInv /\ ConfiguredInv /\ machine \in DOMAIN Machines
        /\ 0..now \subseteq 0..MaxTicks
    BY MeasurementsAssumption DEF IInv, ReadInv, TypeInv
  <2>2. PICK x \in {System} \cup Processes : \E k \in 1..Len(definition[ClassOf(x)]) :
          /\ ItemOK(i, x, definition[ClassOf(x)][k], now, uniqueIds_)
          /\ ValueOK(i, x, definition[ClassOf(x)][k])
    BY <2>1, ValueFrom
  <2>3. PICK k \in 1..Len(definition[ClassOf(x)]) :
          /\ ItemOK(i, x, definition[ClassOf(x)][k], now, uniqueIds_)
          /\ ValueOK(i, x, definition[ClassOf(x)][k])
    BY <2>2
  <2>4. PICK f : f = definition[ClassOf(x)][k]
    OBVIOUS
  <2>5. f.type = "PROC_STAT" /\ i.of = <<x, f.name>> /\ ItemOK(i, x, f, now, uniqueIds_) /\ ValueOK(i, x, f)
    BY <2>3, <2>4 DEF ItemOK
  <2>6. FieldOf(i) = f
    BY <2>1, <2>4, <2>5, FieldOfIs
  <2>7. PICK t \in 0..MaxTicks, u \in 0..MaxTicks : t = i.read[1] /\ u = i.read[2]
    BY <2>1, <2>5 DEF ItemOK
  <2>8. PICK v, cpu, group : v = i.measuredValue /\ cpu = f.path /\ group = f.what.value
    OBVIOUS
  <2>9. PICK a, b : a = ProcStatAt(t) /\ b = ProcStatAt(u)
    OBVIOUS
  <2>10. PICK d : d = K!Minus(b, a)
    OBVIOUS
  <2>11. /\ t <= u /\ DOMAIN b \subseteq DOMAIN a
         /\ v # Thrown /\ v = K!ParseProcField(d, cpu, f.what)
    BY <2>5, <2>7, <2>8, <2>9, <2>10 DEF ValueOK
  <2>12. /\ cpu \in DOMAIN b /\ group \in {"all", "all_excl_idle"} \cup Range(K!CpuFields)
         /\ v = <<K!GetProcStatGroup(d[cpu], group), K!GetProcStatGroup(d[cpu], "all")>>
         /\ d[cpu] \in Counters
    BY <2>1, <2>6, <2>8, <2>9, <2>10, <2>11, ParseProcFieldIs
  <2>13. /\ a[cpu] \in Counters /\ b[cpu] \in Counters
         /\ \A c \in Range(K!CpuFields) : d[cpu][c] = b[cpu][c] - a[cpu][c] /\ a[cpu][c] <= b[cpu][c]
    <3>1. a \in [DOMAIN a -> Counters] /\ b \in [DOMAIN b -> Counters]
      BY <2>1, <2>9, ProcStatOf
    <3>2. \A c \in Range(K!CpuFields) : d[cpu][c] = b[cpu][c] - a[cpu][c]
      BY <2>1, <2>9, <2>10, <2>11, <2>12, MinusIs
    <3>3. u \in t..MaxTicks /\ cpu \in DOMAIN a \cap DOMAIN b
      BY <2>11, <2>12, MeasurementsAssumption
    <3>4. \A c \in Range(K!CpuFields) : a[cpu][c] <= b[cpu][c]
      BY <2>1, <2>9, <3>3, ProcStatOf
    <3>. QED
      BY <2>12, <3>1, <3>2, <3>3, <3>4
  <2>14. \A c \in Range(K!CpuFields) : a[cpu][c] \in Int /\ b[cpu][c] \in Int /\ d[cpu][c] \in Int
    BY <2>12, <2>13 DEF Counters
  <2>15. \A c \in Range(K!CpuFields) : d[cpu][c] >= 0
    BY <2>13, <2>14
  <2>16. 0 <= v[1] /\ v[1] <= v[2]
    BY <2>12, <2>15, GroupIs
  <2>17. ASSUME v[2] = 0 PROVE a[cpu] = b[cpu]
    <3>1. v[2] = d[cpu]["idle"] + (d[cpu]["iowait"] + d[cpu]["irq"] + d[cpu]["nice"]
                   + d[cpu]["softirq"] + d[cpu]["system"] + d[cpu]["user"])
      BY <2>12, GroupIs
    <3>2. \A c \in Range(K!CpuFields) : d[cpu][c] = 0
      <4>1. \A c \in {"user", "nice", "system", "idle", "iowait", "irq", "softirq"} :
              d[cpu][c] \in Int /\ d[cpu][c] >= 0
        BY <2>14, <2>15, CpuFieldsAre
      <4>2. PICK e : e = d[cpu]
        OBVIOUS
      <4>3. \A c \in {"user", "nice", "system", "idle", "iowait", "irq", "softirq"} : e[c] = 0
        <5>1. PICK n1 \in Int, n2 \in Int, n3 \in Int, n4 \in Int, n5 \in Int, n6 \in Int, n7 \in Int :
                /\ n1 = e["user"] /\ n2 = e["nice"] /\ n3 = e["system"] /\ n4 = e["idle"]
                /\ n5 = e["iowait"] /\ n6 = e["irq"] /\ n7 = e["softirq"]
          BY <4>1, <4>2
        <5>2. n1 >= 0 /\ n2 >= 0 /\ n3 >= 0 /\ n4 >= 0 /\ n5 >= 0 /\ n6 >= 0 /\ n7 >= 0
          BY <4>1, <4>2, <5>1
        <5>3. n4 + (n5 + n6 + n2 + n7 + n3 + n1) = 0
          BY <2>17, <3>1, <4>2, <5>1
        <5>4. n1 = 0 /\ n2 = 0 /\ n3 = 0 /\ n4 = 0 /\ n5 = 0 /\ n6 = 0 /\ n7 = 0
          BY <5>2, <5>3
        <5>. QED
          BY <5>1, <5>4
      <4>. QED
        BY <4>2, <4>3, CpuFieldsAre
    <3>3. \A c \in Range(K!CpuFields) : a[cpu][c] = b[cpu][c]
      BY <2>13, <2>14, <3>2
    <3>. QED
      BY <2>13, <3>3 DEF Counters
  <2>. QED
    BY <2>6, <2>7, <2>8, <2>9, <2>16, <2>17
<1> QED
  BY <1>1, ValuesInvariance, PTL

-----------------------------------------------------------------------------
(* The list of samples *)

\* What a sample is to those who analyse it.
Entry(s) == [programs |-> MeasuredIn(s), cpu |-> CpuReadsOf(s.SYSTEM)]

TakenOK ==
  /\ IsSeq(Taken) /\ Len(Taken) = Len(measurementsData_)
  /\ \A k \in Samples : Taken[k] = Entry(measurementsData_[k])

\* The list has an entry for every sample stored.
LEMMA TakenIs == ShapeInv /\ ItemsInv => TakenOK
<1>. SUFFICES ASSUME ShapeInv, ItemsInv PROVE TakenOK
  OBVIOUS
<1>1. DOMAIN measurementsData_ = Samples /\ Len(measurementsData_) \in Nat
  BY DEF ShapeInv, IsSeq, Samples
<1>2. ASSUME NEW k \in Samples
      PROVE  [programs |-> Measured(k), cpu |-> CpuReads(k)] = Entry(measurementsData_[k])
  <2>1. PICK s : s = measurementsData_[k]
    OBVIOUS
  <2>2. SampleOK(s, definition, now, uniqueIds_)
    BY <2>1 DEF ItemsInv
  <2>3. DOMAIN s.PROCESSES = 1..Len(s.PROCESSES)
    BY <2>2 DEF SampleOK, IsSeq
  <2>4. Measured(k) = MeasuredIn(s)
    <3>1. Measured(k) = {s.PROCESSES[i].pipelineId : i \in DOMAIN s.PROCESSES}
      BY <2>1 DEF Measured, Range
    <3>. QED
      BY <2>3, <3>1 DEF MeasuredIn
  <2>5. DOMAIN s.SYSTEM = 1..Len(s.SYSTEM)
    BY <2>2, NoElements DEF SampleOK, ItemsOK, IsSeq
  <2>6. CpuReads(k) = CpuReadsOf(s.SYSTEM)
    <3>1. CpuReads(k) = {s.SYSTEM[j].read : j \in {i \in DOMAIN s.SYSTEM : s.SYSTEM[i].type = "PROC_STAT"}}
      BY <2>1 DEF CpuReads, Range
    <3>. QED
      BY <2>5, <3>1 DEF CpuReadsOf
  <2>. QED
    BY <2>1, <2>4, <2>6 DEF Entry
<1>3. Taken = [k \in Samples |-> Entry(measurementsData_[k])]
  BY <1>1, <1>2 DEF Taken
<1>4. Taken \in Seq({Entry(measurementsData_[k]) : k \in Samples}) /\ Len(Taken) = Len(measurementsData_)
  <2>1. Taken \in [1..Len(measurementsData_) -> {Entry(measurementsData_[k]) : k \in Samples}]
    BY <1>3 DEF Samples
  <2>. QED
    BY <1>1, <2>1, SeqDef, LenProperties
<1>. QED
  BY <1>3, <1>4, IsSeqOfSeq DEF TakenOK

\* A step at which no sample is stored leaves the list as it is.
LEMMA TakenStays == UNCHANGED measurementsData_ => UNCHANGED Taken
BY DEF Taken, Measured, CpuReads

\* Storing a sample appends its entry.
LEMMA TakenGrows ==
  ASSUME ShapeInv, TakenOK, TakenOK', measurementsData_' = Append(measurementsData_, measurementData)
  PROVE  Taken' = Append(Taken, Entry(measurementData))
<1>1. PICK n \in Nat : n = Len(measurementsData_)
  BY DEF ShapeInv, IsSeq
<1>2. /\ Len(measurementsData_') = n + 1 /\ measurementsData_'[n + 1] = measurementData
      /\ \A k \in 1..n : measurementsData_'[k] = measurementsData_[k]
  BY <1>1, AppendOne DEF ShapeInv
<1>3. PICK s, t, e : s = Taken /\ t = Taken' /\ e = Entry(measurementData)
  OBVIOUS
<1>4. /\ IsSeq(s) /\ Len(s) = n /\ IsSeq(t) /\ Len(t) = n + 1
      /\ \A k \in 1..n : s[k] = Entry(measurementsData_[k])
      /\ \A k \in 1..(n + 1) : t[k] = Entry(measurementsData_'[k])
  BY <1>1, <1>2, <1>3 DEF TakenOK, Samples, IsSeq, Entry, MeasuredIn, CpuReadsOf
<1>5. PICK u : u = Append(s, e)
  OBVIOUS
<1>6. IsSeq(u) /\ Len(u) = n + 1 /\ u[n + 1] = e /\ \A k \in 1..n : u[k] = s[k]
  BY <1>4, <1>5, AppendOne
<1>7. \A k \in 1..(n + 1) : t[k] = u[k]
  <2>1. t[n + 1] = u[n + 1]
    BY <1>2, <1>3, <1>4, <1>6
  <2>2. \A k \in 1..n : t[k] = u[k]
    BY <1>2, <1>4, <1>6
  <2>. QED
    BY <2>1, <2>2
<1>8. t = [k \in 1..(n + 1) |-> t[k]] /\ u = [k \in 1..(n + 1) |-> u[k]]
  BY <1>4, <1>6 DEF IsSeq
<1>9. t = u
  BY <1>7, <1>8
<1>. QED
  BY <1>3, <1>5, <1>9

\* Where the loop has got with a round does not change up to when samples count.
LEMMA CountStays ==
  ASSUME TypeInv, ConfiguredInv, CpuInv, [Next]_vars, ~Initialize, ~Store
  PROVE  UNCHANGED CountedUpTo
<1>1. target \in {System} \cup Processes /\ System \notin Processes /\ pending \subseteq FieldTypes(target)
  BY MeasurementsAssumption DEF TypeInv, Processes
<1>2. ASSUME UNCHANGED <<pc, target, pending, procStat_, procStatCorrected_>> PROVE UNCHANGED CountedUpTo
  BY <1>2 DEF CountedUpTo, HasReadCpu
<1>3. CASE UNCHANGED vars \/ Terminating \/ Tick \/ \E p \in Processes : ProgramEnds(p) \/ WaitPid(p) \/ PidReused(p)
  BY <1>2, <1>3 DEF vars, handlers, Terminating, Tick, ProgramEnds, WaitPid, PidReused
<1>4. CASE EndLoop
  BY <1>4 DEF EndLoop, handlers, CountedUpTo, HasReadCpu
<1>5. CASE StartSample
  BY <1>5 DEF StartSample, BeginParsing, handlers, CountedUpTo, HasReadCpu, FieldTypes, SystemTypes
<1>6. ASSUME HasReadCpu, HasReadCpu' \/ pc' = "Terminated", UNCHANGED procStatCorrected_
      PROVE  UNCHANGED CountedUpTo
  BY <1>6 DEF CountedUpTo
<1>7. ASSUME pc \in {"Parsers", "Fields"}, HasReadCpu, UNCHANGED procStatCorrected_, GoOnAfter(target)
      PROVE  UNCHANGED CountedUpTo
  <2>1. HasReadCpu'
    <3>1. CASE NextActive(target) = {}
      BY <1>7, <3>1 DEF GoOnAfter, HasReadCpu
    <3>2. CASE NextActive(target) # {}
      <4>1. PICK p \in NextActive(target) : BeginParsing(p)
        BY <1>7, <3>2 DEF GoOnAfter
      <4>2. p # System
        BY <1>1, <4>1, MeasurementsAssumption DEF NextActive, Processes
      <4>. QED
        BY <4>1, <4>2 DEF BeginParsing, HasReadCpu
    <3>. QED
      BY <3>1, <3>2
  <2>. QED
    BY <1>6, <1>7, <2>1
<1>8. CASE Collect
  BY <1>7, <1>8 DEF Collect, handlers, HasReadCpu
<1>9. CASE ParseMeasurement
  BY <1>6, <1>9 DEF ParseMeasurement, AtField, HasReadCpu
<1>10. CASE ParseMeasurementFails
  BY <1>7, <1>10 DEF ParseMeasurementFails, AtField, GiveUp, HasReadCpu
<1>11. ASSUME NEW type \in SystemTypes \cup ProcessTypes, InitializeRuntimeFails(type)
       PROVE  UNCHANGED CountedUpTo
  <2>1. pc = "Parsers" /\ target # System /\ UNCHANGED procStatCorrected_ /\ GoOnAfter(target)
    BY <1>1, <1>11 DEF InitializeRuntimeFails, GiveUp, handlers, FieldTypes, SystemTypes
  <2>. QED
    BY <1>7, <2>1 DEF HasReadCpu
<1>12. ASSUME NEW type \in SystemTypes \cup ProcessTypes, InitializeRuntime(type)
       PROVE  UNCHANGED CountedUpTo
  <2>1. /\ pc = "Parsers" /\ type \in pending /\ pending' = pending \ {type}
        /\ pc' \in {"Terminated", "Fields", "Parsers"} /\ UNCHANGED target
        /\ type # "PROC_STAT" => UNCHANGED <<procStat_, procStatCorrected_>>
        /\ (pc' = "Fields" => pending' = {})
    BY <1>12 DEF InitializeRuntime
  <2>2. CASE type = "PROC_STAT"
    <3>1. ~HasReadCpu /\ target = System
      BY <1>1, <2>1, <2>2 DEF HasReadCpu, FieldTypes, ProcessTypes
    <3>2. HasReadCpu' \/ pc' = "Terminated"
      BY <2>1, <2>2 DEF HasReadCpu
    <3>3. procStat_ # None
      <4>1. procStat_ \in 0..now
        BY <2>1 DEF CpuInv
      <4>. QED
        BY <4>1, MeasurementsAssumption
    <3>4. procStatCorrected_' = <<procStat_, now>>
      BY <1>12, <2>2, <3>3 DEF InitializeRuntime, ParseProcStat, GetProcStat, Minus
    <3>. QED
      BY <2>1, <3>1, <3>2, <3>4 DEF CountedUpTo
  <2>3. CASE type # "PROC_STAT" /\ HasReadCpu
    <3>1. HasReadCpu' \/ pc' = "Terminated"
      BY <2>1, <2>3 DEF HasReadCpu
    <3>. QED
      BY <1>6, <2>1, <2>3, <3>1
  <2>4. CASE type # "PROC_STAT" /\ ~HasReadCpu
    <3>1. target = System /\ "PROC_STAT" \in pending'
      BY <2>1, <2>4 DEF HasReadCpu
    <3>2. pc' = "Parsers"
      <4>1. type \in SystemTypes
        BY <1>1, <2>1, <3>1 DEF FieldTypes
      <4>2. ~InitializeThrows(type)
        BY <2>4, <4>1 DEF InitializeThrows, SystemTypes
      <4>. QED
        BY <1>12, <3>1, <4>2 DEF InitializeRuntime
    <3>. QED
      BY <2>1, <2>4, <3>1, <3>2 DEF CountedUpTo, HasReadCpu
  <2>. QED
    BY <2>2, <2>3, <2>4
<1>. QED
  BY <1>3, <1>4, <1>5, <1>8, <1>9, <1>10, <1>11, <1>12 DEF Next

\* Storing a sample adds programs of the one before it, and the time counted since.
LEMMA StoreTakes ==
  ASSUME TypeInv, TypeInv', ShapeInv, ItemsInv, ActiveInv, CpuInv, TakenOK, TakenOK', Store
  PROVE  Log!Take
<1>1. /\ pc = "Store" /\ pc' = "Loop" /\ UNCHANGED <<now, procStat_, procStatCorrected_>>
      /\ measurementsData_' = Append(measurementsData_, measurementData)
  BY DEF Store, world, handlers
<1>2. PICK r : r = procStatCorrected_
  OBVIOUS
<1>3. r \in Int \X Int /\ r[1] <= r[2] /\ r[2] = procStat_
  BY <1>1, <1>2 DEF CpuInv, HasReadCpu
<1>4. r = <<r[1], r[2]>>
  BY <1>3
<1>5. r[1] \in 0..now /\ r[2] \in 0..now /\ now \in Nat
  <2>1. r # None
    BY <1>3, MeasurementsAssumption
  <2>. QED
    BY <1>2, <2>1 DEF TypeInv
<1>6. CountedUpTo = r[1] /\ CountedUpTo' = r[2]
  BY <1>1, <1>2, <1>3 DEF CountedUpTo, HasReadCpu
<1>7. /\ CountedUpTo # None /\ CountedUpTo' \in Nat /\ CountedUpTo' >= CountedUpTo
  BY <1>3, <1>5, <1>6, MeasurementsAssumption
<1>8. CpuReadsOf(measurementData.SYSTEM) \in {{}, {<<CountedUpTo, CountedUpTo'>>}}
  <2>1. \A q \in CpuReadsOf(measurementData.SYSTEM) : q = r
    BY <1>1, <1>2 DEF CpuInv, HasReadCpu
  <2>. QED
    BY <1>4, <1>6, <2>1
<1>9. MeasuredIn(measurementData) \in
        SUBSET (IF Taken = <<>> THEN Processes ELSE Taken[Len(Taken)].programs)
  <2>1. MeasuredIn(measurementData) \subseteq Processes
    BY DEF ItemsInv, SampleOK, GroupOK, MeasuredIn
  <2>2. ASSUME Taken # <<>>
        PROVE  MeasuredIn(measurementData) \subseteq Taken[Len(Taken)].programs
    <3>1. PICK n \in Nat : n = Len(measurementsData_)
      BY DEF ShapeInv, IsSeq
    <3>2. n # 0
      <4>1. n = 0 => Taken = [i \in {} |-> Taken[i]] /\ <<>> = [i \in {} |-> <<>>[i]]
        BY <3>1, NoElements DEF TakenOK, IsSeq
      <4>. QED
        BY <2>2, <4>1
    <3>3. n \in Samples
      BY <3>1, <3>2 DEF Samples
    <3>4. PICK s, t : s = measurementsData_[n] /\ t = Taken
      OBVIOUS
    <3>5. Len(t) = n /\ t[n] = Entry(s)
      BY <3>1, <3>3, <3>4 DEF TakenOK
    <3>6. Entry(s).programs = MeasuredIn(s)
      BY DEF Entry
    <3>7. Taken[Len(Taken)].programs = MeasuredIn(measurementsData_[n])
      BY <3>4, <3>5, <3>6
    <3>. QED
      BY <3>3, <3>7 DEF ActiveInv
  <2>. QED
    BY <2>1, <2>2
<1>10. Taken' = Append(Taken, [programs |-> MeasuredIn(measurementData),
                               cpu |-> CpuReadsOf(measurementData.SYSTEM)])
  BY <1>1, TakenGrows DEF Entry
<1>. QED
  BY <1>7, <1>8, <1>9, <1>10 DEF Log!Take

\* The loop implements the list of samples: every step appends a sample as promised or leaves
\* the list and the time counted alone.
THEOREM LogImplemented == Spec => ImplementsSampleLog
<1>1. Init => Log!Init
  <2>. SUFFICES ASSUME Init PROVE Log!Init
    OBVIOUS
  <2>1. measurementsData_ = <<>> /\ procStat_ = None /\ pc = "Initialize"
    BY DEF Init
  <2>2. Taken = <<>>
    BY <2>1 DEF Taken
  <2>3. CountedUpTo = None
    BY <2>1 DEF CountedUpTo, HasReadCpu
  <2>. QED
    BY <2>2, <2>3 DEF Log!Init
<1>2. IInv /\ IInv' /\ TakenOK /\ TakenOK' /\ [Next]_vars =>
        [Log!Begin \/ Log!Take]_<<Taken, CountedUpTo>>
  <2>. SUFFICES ASSUME IInv, IInv', TakenOK, TakenOK', [Next]_vars
                PROVE  [Log!Begin \/ Log!Take]_<<Taken, CountedUpTo>>
    OBVIOUS
  <2>1. TypeInv /\ TypeInv' /\ ShapeInv /\ ConfiguredInv /\ ItemsInv /\ ActiveInv /\ CpuInv
    BY DEF IInv
  <2>2. CASE Initialize
    <3>1. /\ pc = "Initialize" /\ pc' = "Loop" /\ procStat_' = now
          /\ UNCHANGED measurementsData_
      BY <2>2 DEF Initialize, GetProcStat
    <3>2. CountedUpTo = None /\ CountedUpTo' = now
      BY <2>1, <3>1 DEF CountedUpTo, HasReadCpu, CpuInv
    <3>3. CountedUpTo' \in Nat
      BY <2>1, <3>2 DEF TypeInv
    <3>. QED
      BY <3>1, <3>2, <3>3, TakenStays DEF Log!Begin
  <2>3. CASE Store
    BY <2>1, <2>3, StoreTakes
  <2>4. CASE ~Initialize /\ ~Store
    <3>1. UNCHANGED CountedUpTo
      BY <2>1, <2>4, CountStays
    <3>2. UNCHANGED measurementsData_
      BY <2>4 DEF Next, vars, Terminating, Tick, ProgramEnds, WaitPid, PidReused, StartSample, Collect,
           EndLoop, InitializeRuntime, InitializeRuntimeFails, ParseMeasurement, ParseMeasurementFails
    <3>. QED
      BY <3>1, <3>2, TakenStays
  <2>. QED
    BY <2>2, <2>3, <2>4
<1>3. IInv => TakenOK
  BY TakenIs DEF IInv
<1> QED
  BY <1>1, <1>2, <1>3, Invariance, PTL DEF Spec, ImplementsSampleLog, Log!Spec
=============================================================================
