---------------------------- MODULE TracesProofs ----------------------------
(***************************************************************************)
(* Proofs about module Traces.  IInv, the inductive invariant, says of the *)
(* way of a trace that everything on it is in order (PathInv), that the    *)
(* loop only takes what is in the queue or on its way into it (QueueInv),  *)
(* that what front copies is never newer than what pop removes (CopyInv),  *)
(* and that the traces removed for a group are newer than every sample     *)
(* (MapInv); of the data that ids are handed out once (IdsInv), that each  *)
(* value in a sample is not newer than the trace removed for it and has    *)
(* the id of its element (DataInv), and that samples follow each other     *)
(* (AdvanceInv, SortedInv).                                                *)
(***************************************************************************)
EXTENDS Traces, SetInduction, FiniteSetTheorems, TLAPS

-----------------------------------------------------------------------------
(* Sequences of traces, and of items *)

\* Of the traces t, of which last was taken last, those with a value that follow it are on
\* the path, once and in order.
Kept(path, t, last) ==
  LET on == {i \in 1..Len(path) : path[i] # WAIT /\ t[path[i]] # Ignored}
  IN  /\ {path[i] : i \in on} = {n \in 1..Len(t) : n > last /\ t[n] # Ignored}
      /\ \A i, j \in on : i < j => path[i] < path[j]

\* A trace more, written to the end of the path.
LEMMA KeptAppended ==
  ASSUME NEW S, NEW t \in Seq(S), NEW path \in Seq(Nat), NEW last \in Nat, NEW e \in S,
         \A i \in 1..Len(path) : path[i] <= Len(t), last <= Len(t), Kept(path, t, last)
  PROVE  Kept(Append(path, Len(t) + 1), Append(t, e), last)
<1>. DEFINE n == Len(t)
            longer == Append(path, n + 1)
            more == Append(t, e)
<1>1. /\ Len(path) \in Nat /\ n \in Nat /\ Len(longer) = Len(path) + 1 /\ Len(more) = n + 1
      /\ \A i \in 1..Len(path) : longer[i] = path[i] /\ path[i] \in Nat
      /\ longer[Len(path) + 1] = n + 1
      /\ \A i \in 1..n : more[i] = t[i]
      /\ more[n + 1] = e
  OBVIOUS
<1>. HIDE DEF longer, more, n
<1>. DEFINE on == {i \in 1..Len(path) : path[i] # WAIT /\ t[path[i]] # Ignored}
            onmore == {i \in 1..Len(longer) : longer[i] # WAIT /\ more[longer[i]] # Ignored}
<1>2. n = Len(t)
  BY DEF n
<1>3. \A i \in 1..Len(path) : i \in on <=> i \in onmore
  BY <1>1, <1>2 DEF WAIT
<1>4. Len(path) + 1 \in onmore <=> e # Ignored
  BY <1>1 DEF WAIT
<1>5. {path[i] : i \in on} = {k \in 1..n : k > last /\ t[k] # Ignored}
      /\ \A i, j \in on : i < j => path[i] < path[j]
  BY <1>2, Zenon DEF Kept
<1>. HIDE DEF on, onmore
<1>6. on \subseteq 1..Len(path) /\ onmore \subseteq 1..(Len(path) + 1)
  BY <1>1 DEF on, onmore
<1>7. {longer[i] : i \in onmore} = {k \in 1..Len(more) : k > last /\ more[k] # Ignored}
  <2>1. ASSUME NEW i \in onmore
        PROVE  longer[i] \in 1..Len(more) /\ longer[i] > last /\ more[longer[i]] # Ignored
    <3>1. CASE i \in 1..Len(path)
      <4>1. i \in on
        BY <1>3, <2>1, <3>1
      <4>2. path[i] \in {k \in 1..n : k > last /\ t[k] # Ignored}
        BY <1>5, <4>1
      <4>. QED
        BY <1>1, <3>1, <4>2
    <3>2. CASE i = Len(path) + 1
      BY <1>1, <1>2, <1>4, <2>1, <3>2
    <3>. QED
      BY <1>1, <1>6, <3>1, <3>2
  <2>2. ASSUME NEW k \in 1..Len(more), k > last, more[k] # Ignored
        PROVE  \E i \in onmore : longer[i] = k
    <3>1. CASE k \in 1..n
      <4>1. k \in {path[i] : i \in on}
        BY <1>1, <1>5, <2>2, <3>1
      <4>2. PICK i \in on : path[i] = k
        BY <4>1
      <4>. QED
        BY <1>1, <1>3, <1>6, <4>2
    <3>2. CASE k = n + 1
      BY <1>1, <1>4, <2>2, <3>2
    <3>. QED
      BY <1>1, <3>1, <3>2
  <2>. QED
    BY <2>1, <2>2
<1>8. ASSUME NEW i \in onmore, NEW j \in onmore, i < j PROVE longer[i] < longer[j]
  <2>1. i \in 1..Len(path) /\ j \in 1..(Len(path) + 1) /\ longer[i] = path[i] /\ path[i] \in Nat
    BY <1>1, <1>6, <1>8
  <2>2. CASE j = Len(path) + 1
    BY <1>1, <1>2, <2>1, <2>2
  <2>3. CASE j \in 1..Len(path)
    BY <1>1, <1>3, <1>5, <1>8, <2>1, <2>3
  <2>. QED
    BY <1>1, <2>1, <2>2, <2>3
<1>9. Kept(longer, more, last)
  BY <1>7, <1>8, Zenon DEF Kept, onmore
<1>. QED
  BY <1>9 DEF longer, more, n

\* $WAIT$ written to the end of the path.
LEMMA KeptWaiting ==
  ASSUME NEW S, NEW t \in Seq(S), NEW path \in Seq(Nat), NEW last, Kept(path, t, last)
  PROVE  Kept(Append(path, WAIT), t, last)
<1>. DEFINE longer == Append(path, WAIT)
<1>1. /\ Len(path) \in Nat /\ Len(longer) = Len(path) + 1
      /\ \A i \in 1..Len(path) : longer[i] = path[i] /\ path[i] \in Nat
      /\ longer[Len(path) + 1] = WAIT
  BY DEF WAIT
<1>. HIDE DEF longer
<1>2. {i \in 1..Len(longer) : longer[i] # WAIT /\ t[longer[i]] # Ignored}
       = {i \in 1..Len(path) : path[i] # WAIT /\ t[path[i]] # Ignored}
  BY <1>1
<1>3. \A i \in {j \in 1..Len(path) : path[j] # WAIT /\ t[path[j]] # Ignored} : longer[i] = path[i]
  BY <1>1
<1>. DEFINE on == {i \in 1..Len(path) : path[i] # WAIT /\ t[path[i]] # Ignored}
<1>4. {path[i] : i \in on} = {longer[i] : i \in on}
  BY <1>3
<1>5. \A i, j \in on : i < j => path[i] < path[j]
  BY DEF Kept
<1>6. {path[i] : i \in on} = {n \in 1..Len(t) : n > last /\ t[n] # Ignored}
  BY DEF Kept
<1>7. \A i, j \in on : i < j => longer[i] < longer[j]
  BY <1>3, <1>5
<1>. HIDE DEF on
<1>. QED
  BY <1>2, <1>4, <1>6, <1>7, Zenon DEF Kept, longer, on

\* path[k] is removed.
Without(path, k, shorter) ==
  /\ Len(path) \in Nat /\ Len(shorter) = Len(path) - 1
  /\ \A i \in 1..(k - 1) : shorter[i] = path[i]
  /\ \A i \in k..(Len(path) - 1) : shorter[i] = path[i + 1]

\* Something leaves the path: what has no value, wherever it is, or the first trace, which
\* is then the last one taken.
LEMMA KeptShortened ==
  ASSUME NEW t, NEW path, NEW k \in 1..Len(path), NEW shorter, Without(path, k, shorter),
         NEW last \in Int, Kept(path, t, last),
         Len(t) \in Nat, NEW now \in Int,
         \/ now = last /\ (path[k] = WAIT \/ t[path[k]] = Ignored)
         \/ now = path[k] /\ k = 1 /\ path[k] # WAIT /\ t[path[k]] # Ignored
  PROVE  Kept(shorter, t, now)
<1>. DEFINE on == {i \in 1..Len(path) : path[i] # WAIT /\ t[path[i]] # Ignored}
            still == {i \in 1..Len(shorter) : shorter[i] # WAIT /\ t[shorter[i]] # Ignored}
            old(i) == IF i < k THEN i ELSE i + 1
<1>1. /\ Len(path) \in Nat /\ Len(shorter) = Len(path) - 1 /\ k \in Nat
  BY DEF Without
<1>2. \A i \in 1..Len(shorter) : old(i) \in 1..Len(path) /\ old(i) # k /\ shorter[i] = path[old(i)]
  BY <1>1 DEF Without
<1>3. \A i \in 1..Len(path) : i # k => \E j \in 1..Len(shorter) : old(j) = i
  <2>. SUFFICES ASSUME NEW i \in 1..Len(path), i # k PROVE \E j \in 1..Len(shorter) : old(j) = i
    OBVIOUS
  <2>1. CASE i < k
    BY <1>1, <2>1
  <2>2. CASE i > k
    <3>1. i - 1 \in 1..Len(shorter) /\ old(i - 1) = i
      BY <1>1, <2>2
    <3>. QED
      BY <3>1
  <2>. QED
    BY <1>1, <2>1, <2>2
<1>4. \A i, j \in 1..Len(shorter) : i < j => old(i) < old(j)
  BY <1>1
<1>5. \A i \in still : old(i) \in on
  BY <1>2
<1>6. \A i \in on : i # k => \E j \in still : old(j) = i
  BY <1>2, <1>3
<1>7. /\ {path[i] : i \in on} = {n \in 1..Len(t) : n > last /\ t[n] # Ignored}
      /\ \A i, j \in on : i < j => path[i] < path[j]
  BY Zenon DEF Kept
<1>8. \A i \in still : i \in 1..Len(shorter)
  OBVIOUS
<1>9. \A i \in on : i \in 1..Len(path)
  OBVIOUS
<1>10. k \in on <=> path[k] # WAIT /\ t[path[k]] # Ignored
  OBVIOUS
<1>. HIDE DEF on, still, old
<1>11. ASSUME NEW i \in still, NEW j \in still, i < j PROVE shorter[i] < shorter[j]
  BY <1>2, <1>4, <1>5, <1>7, <1>8, <1>11
<1>12. ASSUME NEW i \in on PROVE path[i] \in 1..Len(t) /\ path[i] > last /\ t[path[i]] # Ignored
  BY <1>7
<1>13. ASSUME NEW i \in on, NEW j \in on, path[i] = path[j] PROVE i = j
  <2>1. i \in Int /\ j \in Int /\ path[i] \in Int
    BY <1>9, <1>12
  <2>. QED
    BY <1>7, <1>13, <2>1
<1>14. ASSUME NEW i \in still
       PROVE  shorter[i] \in 1..Len(t) /\ shorter[i] > now /\ t[shorter[i]] # Ignored
  <2>1. old(i) \in on /\ shorter[i] = path[old(i)] /\ old(i) \in 1..Len(path) /\ old(i) # k
    BY <1>2, <1>5, <1>8
  <2>2. shorter[i] \in 1..Len(t) /\ shorter[i] > last /\ t[shorter[i]] # Ignored
    BY <1>12, <2>1
  <2>3. CASE now = last
    BY <2>2, <2>3
  <2>4. CASE now = path[k] /\ k = 1 /\ k \in on
    <3>1. 1 < old(i) /\ k < old(i)
      BY <2>1, <2>4
    <3>2. path[k] < path[old(i)]
      BY <1>7, <2>1, <2>4, <3>1
    <3>. QED
      BY <2>1, <2>2, <2>4, <3>2
  <2>. QED
    BY <1>10, <2>3, <2>4
<1>15. ASSUME NEW n \in 1..Len(t), n > now, t[n] # Ignored
       PROVE  \E i \in still : shorter[i] = n
  <2>1. last <= now
    BY <1>10, <1>12
  <2>2. n > last
    BY <1>15, <2>1
  <2>3. n \in {path[i] : i \in on}
    BY <1>7, <1>15, <2>2
  <2>4. PICK i \in on : path[i] = n
    BY <2>3
  <2>5. i # k
    BY <1>10, <1>15, <2>4
  <2>. QED
    BY <1>2, <1>6, <1>8, <2>4, <2>5
<1>16. {shorter[i] : i \in still} = {n \in 1..Len(t) : n > now /\ t[n] # Ignored}
  BY <1>14, <1>15
<1>. QED
  BY <1>11, <1>16, Zenon DEF Kept, still

Item == [id : Nat, value : Nat, element : Elements, removed : Nat]
Group == [pipelineId : Pipelines, measuredItems : Seq(Item)]

DistinctIds(items) ==
  \A i, j \in 1..Len(items) : items[i].id = items[j].id => i = j

InOrder(items) == \A i, j \in 1..Len(items) : i < j => items[i].id < items[j].id

\* The numbers up to n are n.
LEMMA IntervalCardinality == \A n \in Nat : IsFiniteSet(1..n) /\ Cardinality(1..n) = n
<1>. SUFFICES ASSUME NEW n \in Nat PROVE IsFiniteSet(1..n) /\ Cardinality(1..n) = n
  OBVIOUS
<1>1. IsFiniteSet(1..n) /\ Cardinality(1..n) = IF 1 > n THEN 0 ELSE n - 1 + 1
  BY FS_Interval, 1 \in Int, n \in Int
<1>. QED
  BY <1>1

\* The order of a sequence of items by their ids, if they are different.
LEMMA CanBeSorted ==
  ASSUME NEW items \in Seq(Item), DistinctIds(items)
  PROVE  \E p \in SetToSeqs(1..Len(items)) :
           \A k, l \in 1..Len(items) : k < l => items[p[k]].id <= items[p[l]].id
<1>. DEFINE n == Len(items)
            D == 1..n
            upTo(j) == {i \in D : items[i].id <= items[j].id}
            rank == [j \in D |-> Cardinality(upTo(j))]
<1>1. n \in Nat /\ \A i \in D : items[i].id \in Nat
  <2>1. n \in Nat /\ \A i \in D : items[i] \in Item
    OBVIOUS
  <2>. QED
    BY <2>1 DEF Item
<1>2. IsFiniteSet(D) /\ Cardinality(D) = n
  BY <1>1, IntervalCardinality
<1>3. \A j \in D : upTo(j) \subseteq D /\ j \in upTo(j)
  BY <1>1
<1>4. \A i, j \in D : items[i].id < items[j].id => upTo(i) \subseteq upTo(j) /\ j \notin upTo(i)
  BY <1>1
<1>5. \A i, j \in D : i # j => items[i].id < items[j].id \/ items[j].id < items[i].id
  BY <1>1 DEF DistinctIds
<1>. HIDE DEF upTo, D, n
<1>6. ASSUME NEW j \in D
      PROVE  IsFiniteSet(upTo(j)) /\ Cardinality(upTo(j)) \in 1..n
  <2>1. IsFiniteSet(upTo(j)) /\ Cardinality(upTo(j)) <= n
    BY <1>2, <1>3, FS_Subset
  <2>2. Cardinality(upTo(j)) \in Nat /\ Cardinality(upTo(j)) # 0
    BY <1>3, <2>1, FS_CardinalityType, FS_EmptySet
  <2>. QED
    BY <1>1, <2>1, <2>2
<1>7. ASSUME NEW i \in D, NEW j \in D, items[i].id < items[j].id
      PROVE  rank[i] < rank[j]
  <2>1. upTo(i) \subseteq upTo(j) /\ upTo(i) # upTo(j)
    BY <1>3, <1>4, <1>7
  <2>2. Cardinality(upTo(i)) <= Cardinality(upTo(j)) /\ Cardinality(upTo(i)) # Cardinality(upTo(j))
    BY <1>6, <2>1, FS_Subset
  <2>. QED
    BY <1>6, <2>2
<1>8. rank \in Injection(D, D)
  <2>1. rank \in [D -> D]
    BY <1>6 DEF D
  <2>2. \A i, j \in D : rank[i] = rank[j] => i = j
    <3>. SUFFICES ASSUME NEW i \in D, NEW j \in D, i # j PROVE rank[i] # rank[j]
      OBVIOUS
    <3>1. rank[i] \in Int /\ rank[j] \in Int
      BY <2>1, <1>1 DEF D
    <3>2. rank[i] < rank[j] \/ rank[j] < rank[i]
      BY <1>5, <1>7
    <3>. QED
      BY <3>1, <3>2
  <2>. QED
    BY <2>1, <2>2 DEF Injection, IsInjective
<1>9. rank \in Surjection(D, D)
  BY <1>2, <1>8, FS_Injection
<1>10. rank \in [D -> D] /\ \A k \in D : \E j \in D : rank[j] = k
  BY <1>9 DEF Surjection
<1>. DEFINE p == [k \in D |-> CHOOSE j \in D : rank[j] = k]
<1>11. \A k \in D : p[k] \in D /\ rank[p[k]] = k
  BY <1>10
<1>12. \A i, j \in D : rank[i] = rank[j] => i = j
  BY <1>8 DEF Injection, IsInjective
<1>. HIDE DEF rank
<1>13. p \in [D -> D]
  BY <1>11
<1>14. \A j \in D : p[rank[j]] = j /\ rank[j] \in D
  BY <1>10, <1>11, <1>12
<1>15. p \in SetToSeqs(D)
  <2>1. \A i, j \in D : i # j => p[i] # p[j]
    BY <1>11
  <2>. QED
    BY <1>2, <1>13, <2>1 DEF SetToSeqs, D
<1>16. ASSUME NEW k \in D, NEW l \in D, k < l PROVE items[p[k]].id <= items[p[l]].id
  <2>1. ~(items[p[l]].id < items[p[k]].id)
    <3>1. SUFFICES ASSUME items[p[l]].id < items[p[k]].id PROVE FALSE
      OBVIOUS
    <3>2. rank[p[l]] < rank[p[k]]
      BY <1>7, <1>11, <3>1
    <3>3. k \in Int /\ l \in Int
      BY <1>1 DEF D
    <3>. QED
      BY <1>11, <1>16, <3>2, <3>3
  <2>2. items[p[l]].id \in Nat /\ items[p[k]].id \in Nat
    BY <1>1, <1>11
  <2>. QED
    BY <2>1, <2>2
<1>. HIDE DEF p
<1>. QED
  BY <1>15, <1>16 DEF D, n

\* What SortData makes of the values of a group.
SortedOf(items) == CHOOSE s \in Orders(items) : \A i, j \in DOMAIN s : i < j => s[i].id <= s[j].id

\* The sorted values are the values, in the order of their ids.
LEMMA SortingPermutes ==
  ASSUME NEW items \in Seq(Item), DistinctIds(items)
  PROVE  LET s == SortedOf(items)
         IN  /\ s \in Seq(Item) /\ Len(s) = Len(items)
             /\ \A i \in 1..Len(s) : \E j \in 1..Len(items) : s[i] = items[j]
             /\ DistinctIds(s) /\ InOrder(s)
<1>. DEFINE D == 1..Len(items)
            s == SortedOf(items)
<1>1. Len(items) \in Nat /\ DOMAIN items = D /\ \A i \in D : items[i] \in Item
  OBVIOUS
<1>2. \E t \in Orders(items) : \A i, j \in DOMAIN t : i < j => t[i].id <= t[j].id
  <2>1. PICK p \in SetToSeqs(D) : \A k, l \in D : k < l => items[p[k]].id <= items[p[l]].id
    BY CanBeSorted
  <2>2. [i \in D |-> items[p[i]]] \in Orders(items)
    BY <1>1 DEF Orders
  <2>3. \A i, j \in D : i < j => [k \in D |-> items[p[k]]][i].id <= [k \in D |-> items[p[k]]][j].id
    BY <2>1
  <2>. QED
    BY <2>2, <2>3
<1>3. s \in Orders(items) /\ \A i, j \in DOMAIN s : i < j => s[i].id <= s[j].id
  BY <1>2, Zenon DEF SortedOf
<1>4. PICK p \in SetToSeqs(D) : s = [i \in D |-> items[p[i]]]
  BY <1>1, <1>3 DEF Orders
<1>5. Cardinality(D) = Len(items)
  BY <1>1, IntervalCardinality
<1>6. p \in [D -> D] /\ \A i, j \in D : p[i] = p[j] => i = j
  BY <1>4, <1>5 DEF SetToSeqs
<1>7. \A i \in D : s[i] = items[p[i]] /\ p[i] \in D
  BY <1>4, <1>6
<1>8. s \in [1..Len(items) -> Item]
  BY <1>1, <1>4, <1>6
<1>9. s \in Seq(Item) /\ Len(s) = Len(items) /\ DOMAIN s = D
  BY <1>1, <1>8
<1>10. \A i, j \in D : s[i].id = s[j].id => i = j
  BY <1>6, <1>7 DEF DistinctIds
<1>11. \A i \in D : s[i].id \in Nat
  BY <1>8 DEF Item
<1>. HIDE DEF s
<1>12. ASSUME NEW i \in D, NEW j \in D, i < j PROVE s[i].id < s[j].id
  <2>1. s[i].id <= s[j].id
    BY <1>3, <1>9, <1>12
  <2>2. s[i].id # s[j].id
    BY <1>1, <1>10, <1>12
  <2>. QED
    BY <1>11, <2>1, <2>2
<1>13. \A i \in 1..Len(s) : \E j \in 1..Len(items) : s[i] = items[j]
  BY <1>7, <1>9
<1>14. DistinctIds(s) /\ InOrder(s)
  BY <1>9, <1>10, <1>12 DEF DistinctIds, InOrder
<1>. QED
  BY <1>9, <1>13, <1>14 DEF s

\* The groups of a sample after the sorting are those before, each in the order of its ids.
LEMMA SortingGroups ==
  ASSUME NEW groups \in Seq(Group), \A g \in 1..Len(groups) : DistinctIds(groups[g].measuredItems)
  PROVE  /\ SortData(groups) \in Seq(Group) /\ Len(SortData(groups)) = Len(groups)
         /\ \A g \in 1..Len(groups) :
              /\ SortData(groups)[g].pipelineId = groups[g].pipelineId
              /\ SortData(groups)[g].measuredItems = SortedOf(groups[g].measuredItems)
<1>1. /\ Len(groups) \in Nat /\ DOMAIN groups = 1..Len(groups)
      /\ \A g \in 1..Len(groups) : groups[g] \in Group
  OBVIOUS
<1>2. SortData(groups) = [g \in DOMAIN groups |->
                            [groups[g] EXCEPT !.measuredItems = SortedOf(groups[g].measuredItems)]]
  BY Zenon DEF SortData, SortedOf
<1>3. ASSUME NEW g \in 1..Len(groups)
      PROVE  LET h == [groups[g] EXCEPT !.measuredItems = SortedOf(groups[g].measuredItems)]
             IN  h \in Group /\ h.pipelineId = groups[g].pipelineId
                 /\ h.measuredItems = SortedOf(groups[g].measuredItems)
  <2>1. groups[g] \in Group /\ groups[g].measuredItems \in Seq(Item)
    BY <1>1 DEF Group
  <2>2. SortedOf(groups[g].measuredItems) \in Seq(Item)
    BY <2>1, SortingPermutes
  <2>. QED
    BY <2>1, <2>2 DEF Group
<1>. DEFINE all == SortData(groups)
<1>4. all \in [1..Len(groups) -> Group]
  BY <1>1, <1>2, <1>3
<1>5. all \in Seq(Group) /\ Len(all) = Len(groups)
  BY <1>1, <1>4
<1>. QED
  BY <1>1, <1>2, <1>3, <1>5

\* r extends the ids of pipeline p by new ones, none used twice.
IdsExtended(r, p) ==
  /\ r.last \in Nat /\ uniqueId <= r.last
  /\ DOMAIN uniqueIds_[p] \subseteq DOMAIN r.map /\ DOMAIN r.map \subseteq Elements
  /\ \A e \in DOMAIN r.map :
       IF e \in DOMAIN uniqueIds_[p] THEN r.map[e] = uniqueIds_[p][e]
       ELSE r.map[e] \in (uniqueId + 1)..r.last
  /\ \A e, f \in DOMAIN r.map : r.map[e] = r.map[f] => e = f

OwnIds(p) ==
  /\ DOMAIN uniqueIds_[p] \subseteq Elements
  /\ \A e \in DOMAIN uniqueIds_[p] : uniqueIds_[p][e] \in 1..uniqueId
  /\ \A e, f \in DOMAIN uniqueIds_[p] : uniqueIds_[p][e] = uniqueIds_[p][f] => e = f

\* IdsAfter is the function its recursion describes.
LEMMA IdsAreDefined ==
  ASSUME NEW p, NEW order, Len(order) \in Nat
  PROVE  IdsAfter(p, order) =
           [i \in 0..Len(order) |->
              IF i = 0 THEN [map |-> uniqueIds_[p], last |-> uniqueId]
              ELSE GetUniqueId(p, IdsAfter(p, order)[i - 1], order[i].element)]
<1>. DEFINE first == [map |-> uniqueIds_[p], last |-> uniqueId]
            after(ids, i) == GetUniqueId(p, ids, order[i].element)
            step(f, i) == IF i = 0 THEN first ELSE after(f[i - 1], i)
            S == {n \in Nat : \E f : f = [i \in 0..n |-> step(f, i)]}
<1>. HIDE DEF after
<1>1. 0 \in S
  <2>1. [i \in 0..0 |-> first] = [i \in 0..0 |-> step([j \in 0..0 |-> first], i)]
    OBVIOUS
  <2>. QED
    BY <2>1
<1>2. ASSUME NEW n \in Nat, n \in S PROVE n + 1 \in S
  <2>1. PICK f : f = [i \in 0..n |-> step(f, i)]
    BY <1>2
  <2>. DEFINE g == [i \in 0..(n + 1) |-> IF i = n + 1 THEN after(f[n], n + 1) ELSE f[i]]
  <2>2. ASSUME NEW i \in 0..(n + 1) PROVE g[i] = step(g, i)
    <3>1. CASE i = 0
      BY <2>1, <3>1
    <3>2. CASE i = n + 1
      <4>1. n \in 0..(n + 1) /\ n # n + 1 /\ (n + 1) - 1 = n /\ n + 1 # 0
        OBVIOUS
      <4>2. g[n] = f[n]
        BY <4>1
      <4>. QED
        BY <3>2, <4>1, <4>2
    <3>3. CASE i # 0 /\ i # n + 1
      <4>1. i \in 0..n /\ i - 1 \in 0..(n + 1) /\ i - 1 # n + 1
        BY <3>3
      <4>2. g[i - 1] = f[i - 1] /\ g[i] = f[i]
        BY <4>1
      <4>. QED
        BY <2>1, <3>3, <4>1, <4>2
    <3>. QED
      BY <3>1, <3>2, <3>3
  <2>3. g = [i \in 0..(n + 1) |-> g[i]]
    OBVIOUS
  <2>. HIDE DEF g
  <2>4. g = [i \in 0..(n + 1) |-> step(g, i)]
    BY <2>2, <2>3
  <2>. QED
    BY <2>4
<1>. HIDE DEF S
<1>3. Len(order) \in S
  BY <1>1, <1>2, SetInduction
<1>. USE DEF S
<1>4. \E f : f = [i \in 0..Len(order) |-> step(f, i)]
  BY <1>3
<1>. QED
  BY <1>4, Zenon DEF IdsAfter, after

\* Asking for the id of one more element keeps what there is.
LEMMA OneMoreId ==
  ASSUME NEW p, NEW r, NEW e \in Elements, uniqueId \in Nat, OwnIds(p), IdsExtended(r, p)
  PROVE  /\ IdsExtended(GetUniqueId(p, r, e), p)
         /\ DOMAIN GetUniqueId(p, r, e).map = DOMAIN r.map \cup {e}
<1>1. CASE e \in DOMAIN r.map
  BY <1>1 DEF GetUniqueId
<1>2. CASE e \notin DOMAIN r.map
  <2>. DEFINE m == [x \in DOMAIN r.map \cup {e} |-> IF x = e THEN r.last + 1 ELSE r.map[x]]
  <2>1. GetUniqueId(p, r, e) = [map |-> m, last |-> r.last + 1]
    BY <1>2 DEF GetUniqueId
  <2>2. /\ DOMAIN m = DOMAIN r.map \cup {e} /\ m[e] = r.last + 1
        /\ \A x \in DOMAIN r.map : x # e /\ m[x] = r.map[x]
    BY <1>2
  <2>. HIDE DEF m
  <2>3. r.last \in Nat /\ uniqueId <= r.last /\ r.last + 1 \in (uniqueId + 1)..(r.last + 1)
    BY DEF IdsExtended
  <2>4. \A x \in DOMAIN r.map : r.map[x] \in 1..r.last
    BY <2>3 DEF IdsExtended, OwnIds
  <2>5. \A x \in DOMAIN m :
          IF x \in DOMAIN uniqueIds_[p] THEN m[x] = uniqueIds_[p][x]
          ELSE m[x] \in (uniqueId + 1)..(r.last + 1)
    BY <1>2, <2>2, <2>3 DEF IdsExtended
  <2>6. \A x, y \in DOMAIN m : m[x] = m[y] => x = y
    <3>. SUFFICES ASSUME NEW x \in DOMAIN m, NEW y \in DOMAIN m, m[x] = m[y] PROVE x = y
      OBVIOUS
    <3>1. CASE x = e
      BY <2>2, <2>3, <2>4, <3>1
    <3>2. CASE y = e
      BY <2>2, <2>3, <2>4, <3>2
    <3>3. CASE x # e /\ y # e
      BY <2>2, <3>3 DEF IdsExtended
    <3>. QED
      BY <3>1, <3>2, <3>3
  <2>7. DOMAIN uniqueIds_[p] \subseteq DOMAIN m /\ DOMAIN m \subseteq Elements
    BY <2>2 DEF IdsExtended
  <2>. QED
    BY <2>1, <2>2, <2>3, <2>5, <2>6, <2>7 DEF IdsExtended
<1>. QED
  BY <1>1, <1>2

\* After all traces of a group every one of their elements has an id.
LEMMA IdsOfGroup ==
  ASSUME NEW p, NEW order, Len(order) \in Nat, uniqueId \in Nat, OwnIds(p),
         \A i \in 1..Len(order) : order[i].element \in Elements
  PROVE  LET r == IdsAfter(p, order)[Len(order)]
         IN  /\ IdsExtended(r, p)
             /\ \A i \in 1..Len(order) : order[i].element \in DOMAIN r.map
<1>. DEFINE after(n) == IdsAfter(p, order)[n]
            S == {n \in Nat : n <= Len(order) =>
                    /\ IdsExtended(after(n), p)
                    /\ \A i \in 1..n : order[i].element \in DOMAIN after(n).map}
<1>1. after(0) = [map |-> uniqueIds_[p], last |-> uniqueId]
  BY IdsAreDefined
<1>2. ASSUME NEW n \in Nat, n + 1 <= Len(order)
      PROVE  after(n + 1) = GetUniqueId(p, after(n), order[n + 1].element)
  <2>1. n + 1 \in 0..Len(order) /\ n + 1 # 0 /\ (n + 1) - 1 = n
    BY <1>2
  <2>. QED
    BY <2>1, IdsAreDefined
<1>. HIDE DEF after
<1>3. 0 \in S
  <2>1. after(0).map = uniqueIds_[p] /\ after(0).last = uniqueId
    BY <1>1
  <2>2. uniqueId <= uniqueId
    OBVIOUS
  <2>. DEFINE r == after(0)
  <2>. HIDE DEF r
  <2>3. r.map = uniqueIds_[p] /\ r.last = uniqueId
    BY <2>1 DEF r
  <2>4. IdsExtended(r, p)
    BY <2>2, <2>3 DEF IdsExtended, OwnIds
  <2>. QED
    BY <2>4 DEF r
<1>4. ASSUME NEW n \in Nat, n \in S PROVE n + 1 \in S
  <2>. SUFFICES ASSUME n + 1 <= Len(order)
                PROVE  /\ IdsExtended(after(n + 1), p)
                       /\ \A i \in 1..(n + 1) : order[i].element \in DOMAIN after(n + 1).map
    OBVIOUS
  <2>1. n <= Len(order) /\ n + 1 \in 1..Len(order)
    OBVIOUS
  <2>2. IdsExtended(after(n), p) /\ \A i \in 1..n : order[i].element \in DOMAIN after(n).map
    BY <1>4, <2>1
  <2>3. order[n + 1].element \in Elements
    BY <2>1
  <2>4. /\ IdsExtended(after(n + 1), p)
        /\ DOMAIN after(n + 1).map = DOMAIN after(n).map \cup {order[n + 1].element}
    <3>. DEFINE r == after(n)
                e == order[n + 1].element
    <3>1. IdsExtended(r, p) /\ e \in Elements
      BY <2>2, <2>3
    <3>2. after(n + 1) = GetUniqueId(p, r, e)
      BY <1>2
    <3>. HIDE DEF r, e
    <3>3. /\ IdsExtended(GetUniqueId(p, r, e), p)
          /\ DOMAIN GetUniqueId(p, r, e).map = DOMAIN r.map \cup {e}
      BY <3>1, OneMoreId
    <3>4. IdsExtended(after(n + 1), p) /\ DOMAIN after(n + 1).map = DOMAIN r.map \cup {e}
      BY <3>2, <3>3
    <3>. QED
      BY <3>4 DEF r, e
  <2>5. \A i \in 1..(n + 1) : i \in 1..n \/ i = n + 1
    OBVIOUS
  <2>. QED
    BY <2>2, <2>4, <2>5
<1>. HIDE DEF S
<1>5. Len(order) \in S
  BY <1>3, <1>4, SetInduction
<1>. QED
  BY <1>5 DEF S, after

-----------------------------------------------------------------------------
(* The invariant *)

\* The variables have their types, and the loop looks at a pipeline when it is to read one.
TypeInv ==
  /\ child \in [Pipelines -> {"plays", "closing", "await3", "ended"}]
  /\ runner \in [Pipelines -> {"polls", "parsing", "pushing", "syncing", "ended"}]
  /\ traces \in [Pipelines -> Seq(Elements \cup {Ignored})]
  /\ pipe \in [Pipelines -> Seq(Nat)] /\ \A p \in Pipelines : Len(pipe[p]) <= PipeSize
  /\ message \in [Pipelines -> Nat] /\ fifo \in [Pipelines -> Seq(Nat)]
  /\ taken \in [Pipelines -> Nat]
  /\ pc \in {"loop", "next", "GetMeasurement", "front", "pop", "store", "ended", "terminated"}
  /\ rest \subseteq Pipelines /\ stream \in Pipelines \cup {None} /\ toTake \in Nat
  /\ pc \in {"GetMeasurement", "front", "pop"} => stream \in Pipelines
  /\ pc \in {"front", "pop"} => toTake > 0
  /\ pc = "pop" => measurement \in [element : Elements, value : Nat]
  /\ uniqueId \in Nat /\ uniqueIds_ = [p \in Pipelines |-> uniqueIds_[p]]
  /\ result \in Seq(Group) /\ measurementsData_ \in Seq(Seq(Group))

\* n is a trace of p with a value.
Traced(p, n) == n \in 1..Len(traces[p]) /\ HasValue(p, n)

\* What is on its way are traces of the pipeline, and those in the queue have values.
PathOf(p) ==
  /\ \A i \in 1..Len(pipe[p]) : pipe[p][i] \in 0..Len(traces[p])
  /\ message[p] \in 0..Len(traces[p])
  /\ runner[p] \in {"parsing", "pushing"} => message[p] # WAIT
  /\ runner[p] = "pushing" => HasValue(p, message[p])
  /\ \A i \in 1..Len(fifo[p]) : Traced(p, fifo[p][i])
  /\ taken[p] \in 0..Len(traces[p])
  /\ Kept(Path(p), traces[p], taken[p])

PathInv == \A p \in Pipelines : PathOf(p)

\* What is about to be taken out of the queue is there, or being pushed.
QueueInv == pc \in {"front", "pop"} => fifo[stream] # <<>> \/ runner[stream] = "pushing"

\* What front has copied is not newer than what pop is to remove.
CopyInv ==
  pc = "pop" =>
    measurement.value <= IF fifo[stream] # <<>> THEN Head(fifo[stream]) ELSE message[stream]

\* Elements of pipelines have ids of their own.
IdsInv ==
  /\ \A p \in Pipelines : OwnIds(p)
  /\ \A p, q \in Pipelines : p # q =>
       \A e \in DOMAIN uniqueIds_[p], f \in DOMAIN uniqueIds_[q] : uniqueIds_[p][e] # uniqueIds_[q][f]

\* With n the last trace removed and m the ids of its pipeline: the trace of a value is
\* removed, the value is not newer, and the id is that of its element.
ItemOK(a, n, m) ==
  /\ a.removed \in 1..n /\ a.value <= a.removed
  /\ a.element \in DOMAIN m /\ a.id = m[a.element]

\* The same of a group and of a sample, with those of all pipelines.
GroupOK(g, ns, ms) ==
  /\ DistinctIds(g.measuredItems)
  /\ \A i \in 1..Len(g.measuredItems) :
       ItemOK(g.measuredItems[i], ns[g.pipelineId], ms[g.pipelineId])

SampleOK(s, ns, ms) == \A g \in 1..Len(s) : GroupOK(s[g], ns, ms)

\* Each value in a sample, stored or under way, is not newer than the trace removed for it,
\* and has the id of its element.
DataInv ==
  /\ \A k \in 1..Len(measurementsData_) : SampleOK(measurementsData_[k], taken, uniqueIds_)
  /\ SampleOK(result, taken, uniqueIds_)

\* Trace n of p is later than all of p removed for a sample.
Below(s, p, n) ==
  \A g \in 1..Len(s) : s[g].pipelineId = p =>
    \A i \in 1..Len(s[g].measuredItems) : s[g].measuredItems[i].removed < n

Later(p, n) == \A k \in 1..Len(measurementsData_) : Below(measurementsData_[k], p, n)

\* What was removed for a sample precedes what was removed for another.
Precedes(s, t) ==
  \A g \in 1..Len(s), h \in 1..Len(t) : s[g].pipelineId = t[h].pipelineId =>
    \A i \in 1..Len(s[g].measuredItems), j \in 1..Len(t[h].measuredItems) :
      s[g].measuredItems[i].removed < t[h].measuredItems[j].removed

\* Samples precede those stored after them, and the one under way.
AdvanceInv ==
  /\ \A k, l \in 1..Len(measurementsData_) :
       k < l => Precedes(measurementsData_[k], measurementsData_[l])
  /\ \A k \in 1..Len(measurementsData_) : Precedes(measurementsData_[k], result)
  /\ pc = "loop" => result = <<>>

\* The measurements kept of the pipeline that is looked at: one of each element, none newer
\* than the trace removed for it, and those traces new.
Measured(m) ==
  /\ m \in [element : Elements, value : Nat, removed : Nat]
  /\ m.removed \in 1..taken[stream] /\ m.value <= m.removed /\ Later(stream, m.removed)

MapInv ==
  pc \in {"GetMeasurement", "front", "pop"} =>
    /\ IsFiniteSet(summarizeMap)
    /\ \A m \in summarizeMap : Measured(m)
    /\ \A m, n \in summarizeMap : m.element = n.element => m = n

\* After the loop the values of each group are in order.
SortedInv ==
  pc = "ended" =>
    \A k \in 1..Len(measurementsData_) : \A g \in 1..Len(measurementsData_[k]) :
      InOrder(measurementsData_[k][g].measuredItems)

IInv == /\ TypeInv /\ PathInv /\ QueueInv /\ CopyInv /\ IdsInv /\ DataInv /\ AdvanceInv /\ MapInv
        /\ SortedInv

\* The ids of the stream looked at are now those in ids, and group is its group.
GroupEnded(group, ids) ==
  /\ group \in Group /\ group.pipelineId = stream
  /\ result' = Append(result, group)
  /\ uniqueIds_' = [uniqueIds_ EXCEPT ![stream] = ids]
  /\ IdsExtended([map |-> ids, last |-> uniqueId'], stream)
  /\ DistinctIds(group.measuredItems)
  /\ \A i \in 1..Len(group.measuredItems) :
       LET a == group.measuredItems[i]
       IN  /\ \E m \in summarizeMap : a.value = m.value /\ a.removed = m.removed
           /\ a.element \in DOMAIN ids /\ a.id = ids[a.element]

\* EndGroup makes such a group.
LEMMA EndOfGroup ==
  ASSUME TypeInv, PathInv, IdsInv, MapInv, EndGroup
  PROVE  \E group, ids : GroupEnded(group, ids)
<1>1. /\ stream \in Pipelines /\ IsFiniteSet(summarizeMap)
      /\ \A m \in summarizeMap : m.element \in Elements /\ m.value \in Nat /\ m.removed \in Nat
      /\ \A m, n \in summarizeMap : m.element = n.element => m = n
      /\ uniqueId \in Nat /\ OwnIds(stream) /\ pc = "GetMeasurement"
  <2>1. pc = "GetMeasurement" /\ stream \in Pipelines
    BY DEF EndGroup, TypeInv
  <2>2. \A m \in summarizeMap : m.element \in Elements /\ m.value \in Nat /\ m.removed \in Nat
    BY <2>1 DEF MapInv, Measured
  <2>. QED
    BY <2>1, <2>2 DEF MapInv, IdsInv, TypeInv
<1>2. PICK order \in SetToSeqs(summarizeMap) :
        LET ids == IdsAfter(stream, order)[Len(order)]
            items == [i \in DOMAIN order |->
                        [id |-> ids.map[order[i].element], value |-> order[i].value,
                         element |-> order[i].element, removed |-> order[i].removed]]
        IN  /\ uniqueIds_' = [uniqueIds_ EXCEPT ![stream] = ids.map]
            /\ uniqueId' = ids.last
            /\ result' = Append(result, [pipelineId |-> stream, measuredItems |-> items])
  BY Zenon DEF EndGroup
<1>. DEFINE n == Cardinality(summarizeMap)
            r == IdsAfter(stream, order)[Len(order)]
            items == [i \in DOMAIN order |->
                        [id |-> r.map[order[i].element], value |-> order[i].value,
                         element |-> order[i].element, removed |-> order[i].removed]]
            group == [pipelineId |-> stream, measuredItems |-> items]
<1>3. n \in Nat
  BY <1>1, FS_CardinalityType
<1>4. order \in [1..n -> summarizeMap] /\ \A i, j \in 1..n : i # j => order[i] # order[j]
  BY <1>2 DEF SetToSeqs
<1>. HIDE DEF n
<1>5. Len(order) = n /\ DOMAIN order = 1..n
  BY <1>3, <1>4
<1>6. \A i \in 1..n : /\ order[i] \in summarizeMap /\ order[i].element \in Elements
                      /\ order[i].value \in Nat /\ order[i].removed \in Nat
  BY <1>1, <1>4
<1>7. /\ IdsExtended(r, stream)
      /\ \A i \in 1..Len(order) : order[i].element \in DOMAIN r.map
  BY <1>1, <1>3, <1>5, <1>6, IdsOfGroup
<1>8. /\ uniqueIds_' = [uniqueIds_ EXCEPT ![stream] = r.map] /\ uniqueId' = r.last
      /\ result' = Append(result, group)
  BY <1>2
<1>. HIDE DEF r
<1>9. \A e \in DOMAIN r.map : r.map[e] \in Nat
  BY <1>1, <1>7 DEF IdsExtended, OwnIds
<1>10. \A i \in 1..n : /\ items[i].id = r.map[order[i].element] /\ items[i].value = order[i].value
                       /\ items[i].element = order[i].element /\ items[i].removed = order[i].removed
                       /\ items[i] \in Item
  BY <1>5, <1>6, <1>7, <1>9 DEF Item
<1>11. items \in [1..n -> Item]
  BY <1>5, <1>10
<1>12. items \in Seq(Item) /\ Len(items) = n
  BY <1>3, <1>11
<1>. HIDE DEF items
<1>13. DistinctIds(items)
  <2>. SUFFICES ASSUME NEW i \in 1..n, NEW j \in 1..n, items[i].id = items[j].id PROVE i = j
    BY <1>12 DEF DistinctIds
  <2>1. order[i].element = order[j].element
    BY <1>5, <1>7, <1>10 DEF IdsExtended
  <2>2. order[i] = order[j]
    BY <1>1, <1>6, <2>1
  <2>. QED
    BY <1>4, <2>2
<1>14. group \in Group /\ group.pipelineId = stream /\ group.measuredItems = items
  BY <1>1, <1>12 DEF Group
<1>15. IdsExtended([map |-> r.map, last |-> uniqueId'], stream)
  BY <1>7, <1>8 DEF IdsExtended
<1>16. \A i \in 1..n : /\ \E m \in summarizeMap : items[i].value = m.value /\ items[i].removed = m.removed
                       /\ items[i].element \in DOMAIN r.map
                       /\ items[i].id = r.map[items[i].element]
  BY <1>5, <1>6, <1>7, <1>10
<1>. HIDE DEF group
<1>17. GroupEnded(group, r.map)
  BY <1>8, <1>12, <1>13, <1>14, <1>15, <1>16 DEF GroupEnded
<1>. QED
  BY <1>17

-----------------------------------------------------------------------------
(* Types *)

\* The types hold at the start.
LEMMA TypeInit == Init => TypeInv
<1>. SUFFICES ASSUME Init PROVE TypeInv
  OBVIOUS
<1>1. \A S : <<>> \in Seq(S) /\ Len(<<>>) = 0
  OBVIOUS
<1>. QED
  BY <1>1, TracesAssumption DEF Init, TypeInv, WAIT

\* Every step keeps the types.  What is taken is there by QueueInv, and EndLoop sorts
\* values that can be sorted by DataInv.
LEMMA TypeStep ==
  ASSUME TypeInv, PathInv, QueueInv, IdsInv, DataInv, MapInv, [Next]_vars
  PROVE  TypeInv'
<1>1. CASE UNCHANGED vars
  BY <1>1 DEF vars, children, runners, sampling, TypeInv
<1>2. ASSUME NEW p \in Pipelines, TraceCallbackFunction(p) PROVE TypeInv'
  <2>1. PICK e \in Elements \cup {Ignored} : traces' = [traces EXCEPT ![p] = Append(@, e)]
    BY <1>2 DEF TraceCallbackFunction
  <2>2. traces' \in [Pipelines -> Seq(Elements \cup {Ignored})]
    BY <2>1 DEF TypeInv
  <2>3. pipe' = [pipe EXCEPT ![p] = Append(@, Len(traces[p]) + 1)] /\ Len(pipe[p]) < PipeSize
    BY <1>2 DEF TraceCallbackFunction, Write
  <2>4. pipe' \in [Pipelines -> Seq(Nat)] /\ \A q \in Pipelines : Len(pipe'[q]) <= PipeSize
    BY <2>3, TracesAssumption DEF TypeInv
  <2>5. UNCHANGED <<child, runners, fifo, taken, pc, sampling>>
    BY <1>2 DEF TraceCallbackFunction
  <2>. QED
    BY <2>2, <2>4, <2>5 DEF TypeInv, runners, sampling
<1>3. ASSUME NEW p \in Pipelines, MainLoopQuits(p) \/ TearDown(p) PROVE TypeInv'
  <2>1. child' \in [Pipelines -> {"plays", "closing", "await3", "ended"}]
    BY <1>3 DEF MainLoopQuits, TearDown, TypeInv
  <2>. QED
    BY <1>3, <2>1 DEF MainLoopQuits, TearDown, TypeInv, runners, sampling
<1>4. ASSUME NEW p \in Pipelines, AskToEnd(p) PROVE TypeInv'
  <2>1. child' \in [Pipelines -> {"plays", "closing", "await3", "ended"}]
    BY <1>4 DEF AskToEnd, TypeInv
  <2>2. pipe' = [pipe EXCEPT ![p] = Append(@, 0)] /\ Len(pipe[p]) < PipeSize
    BY <1>4 DEF AskToEnd, Write, WAIT
  <2>3. pipe' \in [Pipelines -> Seq(Nat)] /\ \A q \in Pipelines : Len(pipe'[q]) <= PipeSize
    BY <2>2, TracesAssumption DEF TypeInv
  <2>. QED
    BY <1>4, <2>1, <2>3 DEF AskToEnd, TypeInv, runners, sampling
<1>5. ASSUME NEW p \in Pipelines, ReadBetweenChars(p) PROVE TypeInv'
  <2>1. pipe[p] \in Seq(Nat) /\ pipe[p] # <<>>
    BY <1>5 DEF ReadBetweenChars, TypeInv
  <2>2. Head(pipe[p]) \in Nat /\ Tail(pipe[p]) \in Seq(Nat) /\ Len(Tail(pipe[p])) = Len(pipe[p]) - 1
        /\ Len(pipe[p]) \in Nat
    BY <2>1
  <2>3. pipe' = [pipe EXCEPT ![p] = Tail(pipe[p])]
        /\ message' = [message EXCEPT ![p] = Head(pipe[p])]
    BY <1>5 DEF ReadBetweenChars
  <2>4. pipe' \in [Pipelines -> Seq(Nat)] /\ message' \in [Pipelines -> Nat]
        /\ \A q \in Pipelines : Len(pipe'[q]) <= PipeSize
    <3>1. /\ pipe \in [Pipelines -> Seq(Nat)] /\ message \in [Pipelines -> Nat] /\ PipeSize \in Nat
          /\ \A q \in Pipelines : Len(pipe[q]) <= PipeSize
      BY TracesAssumption DEF TypeInv
    <3>2. Len(Tail(pipe[p])) <= PipeSize
      BY <2>2, <3>1
    <3>. QED
      BY <2>2, <2>3, <3>1, <3>2
  <2>5. runner' \in [Pipelines -> {"polls", "parsing", "pushing", "syncing", "ended"}]
    BY <1>5 DEF ReadBetweenChars, TypeInv
  <2>. QED
    BY <1>5, <2>4, <2>5 DEF ReadBetweenChars, TypeInv, children, sampling
<1>6. ASSUME NEW p \in Pipelines, ParseTraceStructure(p) \/ Released(p) PROVE TypeInv'
  <2>1. runner' \in [Pipelines -> {"polls", "parsing", "pushing", "syncing", "ended"}]
    <3>1. runner \in [Pipelines -> {"polls", "parsing", "pushing", "syncing", "ended"}]
      BY DEF TypeInv
    <3>2. \E r \in {"polls", "pushing", "ended"} : runner' = [runner EXCEPT ![p] = r]
      BY <1>6, Zenon DEF ParseTraceStructure, Released
    <3>. QED
      BY <3>1, <3>2
  <2>2. message' = message \/ message' = [message EXCEPT ![p] = 0]
    <3>1. CASE ParseTraceStructure(p)
      BY <3>1, Zenon DEF ParseTraceStructure, WAIT
    <3>2. CASE Released(p)
      BY <3>2 DEF Released
    <3>. QED
      BY <1>6, <3>1, <3>2
  <2>3. message' \in [Pipelines -> Nat]
    <3>1. message \in [Pipelines -> Nat]
      BY DEF TypeInv
    <3>. QED
      BY <2>2, <3>1
  <2>4. UNCHANGED <<children, pipe, fifo, taken, pc, sampling>>
    BY <1>6 DEF ParseTraceStructure, Released
  <2>. QED
    BY <2>1, <2>3, <2>4 DEF TypeInv, children, sampling
<1>7. ASSUME NEW p \in Pipelines, Push(p) PROVE TypeInv'
  <2>1. /\ runner' \in [Pipelines -> {"polls", "parsing", "pushing", "syncing", "ended"}]
        /\ message' \in [Pipelines -> Nat]
    BY <1>7 DEF Push, TypeInv, WAIT
  <2>2. fifo' = [fifo EXCEPT ![p] = Append(fifo[p], message[p])]
    BY <1>7 DEF Push
  <2>3. fifo' \in [Pipelines -> Seq(Nat)]
    BY <2>2 DEF TypeInv
  <2>. QED
    BY <1>7, <2>1, <2>3 DEF Push, TypeInv, children, sampling
<1>8. CASE StartSample
  BY <1>8 DEF StartSample, TypeInv, children, runners
<1>9. ASSUME NEW p \in Pipelines, GetMeasurementsSize(p) PROVE TypeInv'
  <2>1. Sizes(p) \subseteq Nat
    BY DEF Sizes, TypeInv
  <2>. QED
    BY <1>9, <2>1 DEF GetMeasurementsSize, TypeInv, children, runners
<1>10. CASE CheckSize
  BY <1>10 DEF CheckSize, TypeInv, children, runners, sampling
<1>11. CASE CopyFront
  <2>1. pc' = "pop" => measurement' \in [element : Elements, value : Nat]
    <3>1. CASE fifo[stream] # <<>>
      <4>. DEFINE n == Head(fifo[stream])
      <4>1. stream \in Pipelines /\ fifo[stream] \in Seq(Nat) /\ traces[stream] \in Seq(Elements \cup {Ignored})
        BY <1>11 DEF CopyFront, TypeInv
      <4>2. n = fifo[stream][1] /\ 1 \in 1..Len(fifo[stream]) /\ n \in Nat
        BY <3>1, <4>1
      <4>3. n \in 1..Len(traces[stream]) /\ traces[stream][n] # Ignored
        BY <4>1, <4>2 DEF PathInv, PathOf, Traced, HasValue
      <4>4. traces[stream][n] \in Elements
        BY <4>1, <4>3
      <4>. HIDE DEF n
      <4>5. measurement' = [element |-> traces[stream][n], value |-> n]
        BY <1>11, <3>1 DEF CopyFront, n
      <4>. QED
        BY <4>2, <4>4, <4>5
    <3>2. CASE fifo[stream] = <<>>
      BY <1>11, <3>2 DEF CopyFront, Slot, TypeInv
    <3>. QED
      BY <3>1, <3>2
  <2>2. /\ pc = "front" /\ pc' \in {"pop", "terminated"}
        /\ UNCHANGED <<children, pipe, runners, fifo, taken, rest, stream, toTake, summarizeMap,
                       uniqueIds_, uniqueId, result, measurementsData_>>
    BY <1>11 DEF CopyFront
  <2>. QED
    BY <2>1, <2>2 DEF TypeInv, children, runners
<1>12. CASE Pop
  <2>1. /\ stream \in Pipelines /\ fifo[stream] \in Seq(Nat) /\ fifo[stream] # <<>>
        /\ fifo' = [fifo EXCEPT ![stream] = Tail(fifo[stream])]
        /\ taken' = [taken EXCEPT ![stream] = Head(fifo[stream])]
    BY <1>12 DEF Pop, TypeInv, QueueInv
  <2>2. Head(fifo[stream]) \in Nat /\ Tail(fifo[stream]) \in Seq(Nat)
    BY <2>1
  <2>3. fifo' \in [Pipelines -> Seq(Nat)] /\ taken' \in [Pipelines -> Nat]
    BY <2>1, <2>2 DEF TypeInv
  <2>4. toTake' \in Nat
    BY <1>12 DEF Pop, TypeInv
  <2>. QED
    BY <1>12, <2>3, <2>4 DEF Pop, TypeInv, children, runners
<1>13. CASE EndGroup
  <2>1. PICK group, m : GroupEnded(group, m)
    BY <1>13, EndOfGroup
  <2>2. group \in Group /\ result' = Append(result, group)
    BY <2>1 DEF GroupEnded
  <2>3. result' \in Seq(Group)
    BY <2>2 DEF TypeInv
  <2>4. uniqueId' \in Nat
    BY <2>1 DEF GroupEnded, IdsExtended
  <2>5. uniqueIds_' = [uniqueIds_ EXCEPT ![stream] = m]
    BY <2>1 DEF GroupEnded
  <2>6. uniqueIds_' = [p \in Pipelines |-> uniqueIds_'[p]]
    BY <2>5 DEF TypeInv
  <2>7. /\ stream' = None /\ pc' \in {"store", "next"}
        /\ UNCHANGED <<children, pipe, runners, fifo, taken, rest, toTake, measurementsData_>>
    BY <1>13 DEF EndGroup
  <2>. QED
    BY <2>3, <2>4, <2>6, <2>7 DEF TypeInv, children, runners
<1>14. CASE Store
  <2>1. /\ measurementsData_' = Append(measurementsData_, result) /\ result' = <<>>
        /\ pc' = "loop"
        /\ UNCHANGED <<children, pipe, runners, fifo, taken, rest, stream, toTake, uniqueIds_, uniqueId>>
    BY <1>14 DEF Store
  <2>2. measurementsData_' \in Seq(Seq(Group)) /\ result' \in Seq(Group)
    BY <2>1 DEF TypeInv
  <2>. QED
    BY <2>1, <2>2 DEF TypeInv, children, runners
<1>15. CASE EndLoop
  <2>1. /\ measurementsData_' = [k \in DOMAIN measurementsData_ |-> SortData(measurementsData_[k])]
        /\ pc' = "ended"
        /\ UNCHANGED <<children, pipe, runners, fifo, taken, rest, stream, toTake, uniqueIds_, uniqueId, result>>
    BY <1>15 DEF EndLoop
  <2>2. \A k \in DOMAIN measurementsData_ : SortData(measurementsData_[k]) \in Seq(Group)
    <3>. SUFFICES ASSUME NEW k \in DOMAIN measurementsData_
                  PROVE  SortData(measurementsData_[k]) \in Seq(Group)
      OBVIOUS
    <3>1. k \in 1..Len(measurementsData_) /\ measurementsData_[k] \in Seq(Group)
      BY DEF TypeInv
    <3>2. \A g \in 1..Len(measurementsData_[k]) : DistinctIds(measurementsData_[k][g].measuredItems)
      BY <3>1 DEF DataInv, SampleOK, GroupOK
    <3>. QED
      BY <3>1, <3>2, SortingGroups
  <2>3. measurementsData_' \in [1..Len(measurementsData_) -> Seq(Group)]
        /\ Len(measurementsData_) \in Nat
    BY <2>1, <2>2 DEF TypeInv
  <2>4. measurementsData_' \in Seq(Seq(Group))
    BY <2>3
  <2>. QED
    BY <2>1, <2>4 DEF TypeInv, children, runners
<1>. QED
  BY <1>1, <1>2, <1>3, <1>4, <1>5, <1>6, <1>7, <1>8, <1>9, <1>10, <1>11, <1>12, <1>13, <1>14, <1>15
     DEF Next, MainStep, RunnerStep

\* A step leaves the traces there are, the ids handed out and what has been taken.
Grown ==
  \A p \in Pipelines :
    /\ Len(traces[p]) <= Len(traces'[p])
    /\ \A n \in 1..Len(traces[p]) : traces'[p][n] = traces[p][n]
    /\ taken[p] <= taken'[p]
    /\ DOMAIN uniqueIds_[p] \subseteq DOMAIN uniqueIds_'[p]
    /\ \A e \in DOMAIN uniqueIds_[p] : uniqueIds_'[p][e] = uniqueIds_[p][e]

\* The elements of three sequences one after the other.
LEMMA ThreeParts ==
  ASSUME NEW S, NEW a \in Seq(S), NEW b \in Seq(S), NEW c \in Seq(S)
  PROVE  /\ a \o b \o c \in Seq(S) /\ Len(a \o b \o c) = Len(a) + Len(b) + Len(c)
         /\ \A i \in 1..Len(a) : (a \o b \o c)[i] = a[i]
         /\ \A i \in 1..Len(b) : (a \o b \o c)[Len(a) + i] = b[i]
         /\ \A i \in 1..Len(c) : (a \o b \o c)[Len(a) + Len(b) + i] = c[i]
<1>1. a \o b \in Seq(S) /\ Len(a \o b) = Len(a) + Len(b) /\ Len(a) \in Nat /\ Len(b) \in Nat
      /\ Len(c) \in Nat
  OBVIOUS
<1>2. /\ \A i \in 1..Len(a) : (a \o b)[i] = a[i]
      /\ \A i \in 1..Len(b) : (a \o b)[Len(a) + i] = b[i]
  BY <1>1
<1>. DEFINE ab == a \o b
<1>. HIDE DEF ab
<1>3. /\ ab \o c \in Seq(S) /\ Len(ab \o c) = Len(ab) + Len(c)
      /\ \A i \in 1..Len(ab) : (ab \o c)[i] = ab[i]
      /\ \A i \in 1..Len(c) : (ab \o c)[Len(ab) + i] = c[i]
  BY <1>1 DEF ab
<1>4. \A i \in 1..Len(a) : i \in 1..Len(ab)
  BY <1>1 DEF ab
<1>5. \A i \in 1..Len(b) : Len(a) + i \in 1..Len(ab)
  BY <1>1 DEF ab
<1>. QED
  BY <1>1, <1>2, <1>3, <1>4, <1>5 DEF ab

\* What the runner holds of pipeline p.
Held(p) == IF runner[p] \in {"parsing", "pushing"} THEN <<message[p]>> ELSE <<>>

\* The path of a pipeline is of three sequences of numbers.
LEMMA PathParts ==
  ASSUME TypeInv, NEW p \in Pipelines
  PROVE  /\ Path(p) = fifo[p] \o Held(p) \o pipe[p] /\ Path(p) \in Seq(Nat)
         /\ fifo[p] \in Seq(Nat) /\ Held(p) \in Seq(Nat) /\ pipe[p] \in Seq(Nat)
<1>1. message[p] \in Nat /\ fifo[p] \in Seq(Nat) /\ pipe[p] \in Seq(Nat)
  BY DEF TypeInv
<1>2. Held(p) \in Seq(Nat)
  BY <1>1 DEF Held
<1>3. Path(p) = fifo[p] \o Held(p) \o pipe[p]
  BY Zenon DEF Path, Held
<1>. QED
  BY <1>1, <1>2, <1>3, ThreeParts

\* The first trace in a queue is the next one with a value.
LEMMA FirstIsNext ==
  ASSUME TypeInv, PathInv, NEW p \in Pipelines, fifo[p] # <<>>
  PROVE  /\ fifo[p][1] \in taken[p]+1..Len(traces[p]) /\ HasValue(p, fifo[p][1])
         /\ Head(fifo[p]) = fifo[p][1]
<1>. DEFINE path == Path(p)
<1>1. fifo[p] \in Seq(Nat) /\ Len(fifo[p]) \in Nat /\ 1 \in 1..Len(fifo[p])
      /\ Head(fifo[p]) = fifo[p][1]
  BY DEF TypeInv
<1>2. Traced(p, fifo[p][1]) /\ Kept(path, traces[p], taken[p])
  BY <1>1 DEF PathInv, PathOf
<1>3. /\ traces[p] \in Seq(Elements \cup {Ignored}) /\ taken[p] \in Nat /\ pipe[p] \in Seq(Nat)
      /\ message[p] \in Nat
  BY DEF TypeInv
<1>4. 1 \in 1..Len(path) /\ path[1] = fifo[p][1]
  <2>. DEFINE a == fifo[p]
              b == Held(p)
              c == pipe[p]
  <2>1. a \in Seq(Nat) /\ b \in Seq(Nat) /\ c \in Seq(Nat) /\ path = a \o b \o c
    BY PathParts
  <2>. HIDE DEF a, b, c, path
  <2>2. Len(a \o b \o c) = Len(a) + Len(b) + Len(c) /\ \A i \in 1..Len(a) : (a \o b \o c)[i] = a[i]
    BY <2>1, ThreeParts
  <2>3. Len(b) \in Nat /\ Len(c) \in Nat
    BY <2>1
  <2>4. Len(a) \in Nat /\ 1 \in 1..Len(a) /\ a[1] = fifo[p][1]
    BY <1>1 DEF a
  <2>. QED
    BY <2>1, <2>2, <2>3, <2>4
<1>5. path[1] # WAIT /\ traces[p][path[1]] # Ignored
  BY <1>2, <1>4 DEF Traced, HasValue, WAIT
<1>. HIDE DEF path
<1>6. path[1] \in {n \in 1..Len(traces[p]) : n > taken[p] /\ traces[p][n] # Ignored}
  BY <1>2, <1>4, <1>5 DEF Kept
<1>. QED
  BY <1>1, <1>2, <1>3, <1>4, <1>6 DEF Traced

\* Every step is such a step: tracers append, the loop takes in order, ids are kept.
LEMMA Growth ==
  ASSUME TypeInv, PathInv, QueueInv, IdsInv, MapInv, [Next]_vars
  PROVE  Grown
<1>1. ASSUME UNCHANGED <<traces, taken, uniqueIds_>> PROVE Grown
  <2>1. \A p \in Pipelines : Len(traces[p]) \in Nat /\ taken[p] \in Nat
    BY DEF TypeInv
  <2>. QED
    BY <1>1, <2>1 DEF Grown
<1>2. ASSUME NEW q \in Pipelines, TraceCallbackFunction(q) PROVE Grown
  <2>1. PICK e \in Elements \cup {Ignored} : traces' = [traces EXCEPT ![q] = Append(traces[q], e)]
    BY <1>2 DEF TraceCallbackFunction
  <2>2. UNCHANGED <<taken, uniqueIds_>>
    BY <1>2 DEF TraceCallbackFunction, sampling
  <2>3. ASSUME NEW p \in Pipelines
        PROVE  /\ Len(traces[p]) <= Len(traces'[p]) /\ taken[p] <= taken[p]
               /\ \A n \in 1..Len(traces[p]) : traces'[p][n] = traces[p][n]
    <3>1. /\ traces[p] \in Seq(Elements \cup {Ignored}) /\ taken[p] \in Nat
          /\ traces'[p] = IF p = q THEN Append(traces[p], e) ELSE traces[p]
      BY <2>1 DEF TypeInv
    <3>. QED
      BY <3>1
  <2>. QED
    BY <2>2, <2>3 DEF Grown
<1>3. CASE Pop
  <2>1. stream \in Pipelines /\ fifo[stream] # <<>>
        /\ taken' = [taken EXCEPT ![stream] = Head(fifo[stream])]
        /\ UNCHANGED <<traces, uniqueIds_>>
    BY <1>3 DEF Pop, TypeInv, QueueInv, children
  <2>2. Head(fifo[stream]) \in taken[stream]+1..Len(traces[stream])
    BY <2>1, FirstIsNext
  <2>3. \A p \in Pipelines : Len(traces[p]) \in Nat /\ taken[p] \in Nat
    BY DEF TypeInv
  <2>4. \A p \in Pipelines : taken[p] <= taken'[p]
    BY <2>1, <2>2, <2>3 DEF TypeInv
  <2>. QED
    BY <2>1, <2>3, <2>4 DEF Grown
<1>4. CASE EndGroup
  <2>1. PICK group, m : GroupEnded(group, m)
    BY <1>4, EndOfGroup
  <2>2. UNCHANGED <<traces, taken>>
    BY <1>4 DEF EndGroup, children
  <2>3. \A p \in Pipelines : Len(traces[p]) \in Nat /\ taken[p] \in Nat
    BY DEF TypeInv
  <2>4. stream \in Pipelines /\ uniqueIds_' = [uniqueIds_ EXCEPT ![stream] = m]
    BY <1>4, <2>1 DEF EndGroup, TypeInv, GroupEnded
  <2>5. \A p \in Pipelines : uniqueIds_'[p] = IF p = stream THEN m ELSE uniqueIds_[p]
    BY <2>4 DEF TypeInv
  <2>6. /\ DOMAIN uniqueIds_[stream] \subseteq DOMAIN m
        /\ \A e \in DOMAIN uniqueIds_[stream] : m[e] = uniqueIds_[stream][e]
    BY <2>1 DEF GroupEnded, IdsExtended
  <2>. QED
    BY <2>2, <2>3, <2>5, <2>6 DEF Grown
<1>. QED
  BY <1>1, <1>2, <1>3, <1>4
     DEF Next, MainStep, RunnerStep, vars, children, runners, sampling, MainLoopQuits, AskToEnd,
         TearDown, ReadBetweenChars, ParseTraceStructure, Push, Released, StartSample,
         GetMeasurementsSize, CheckSize, CopyFront, Store, EndLoop

-----------------------------------------------------------------------------
(* What is on its way *)

\* Nothing is on its way at the start.
LEMMA PathInit == Init => PathInv
<1>. SUFFICES ASSUME Init, NEW p \in Pipelines PROVE Kept(Path(p), traces[p], taken[p])
  BY DEF Init, PathInv, PathOf, WAIT
<1>1. Path(p) = <<>> \o <<>> \o <<>> /\ traces[p] = <<>> /\ taken[p] = 0
  BY DEF Init, Path
<1>2. Len(<<>>) = 0 /\ <<>> \o <<>> \o <<>> = <<>>
  OBVIOUS
<1>. QED
  BY <1>1, <1>2 DEF Kept

\* The path of p only depends on what p has.
LEMMA PathKept ==
  ASSUME PathInv, NEW p \in Pipelines, traces'[p] = traces[p], pipe'[p] = pipe[p],
         message'[p] = message[p], runner'[p] \in {"parsing", "pushing"} <=> runner[p] \in {"parsing", "pushing"},
         runner'[p] = "pushing" => runner[p] = "pushing" \/ HasValue(p, message[p]),
         fifo'[p] = fifo[p], taken'[p] = taken[p]
  PROVE  PathOf(p)'
<1>1. Path(p)' = Path(p)
  BY DEF Path
<1>. QED
  BY <1>1 DEF PathInv, PathOf, Traced, HasValue

\* Concatenation is associative.
LEMMA ConcatAssociates ==
  ASSUME NEW a \in Seq(Nat), NEW b \in Seq(Nat), NEW c \in Seq(Nat)
  PROVE  a \o (b \o c) = a \o b \o c
  OBVIOUS

\* The elements of two sequences one after the other.
LEMMA TwoParts ==
  ASSUME NEW S, NEW a \in Seq(S), NEW b \in Seq(S)
  PROVE  /\ Len(a \o b) = Len(a) + Len(b)
         /\ \A i \in 1..Len(a) : (a \o b)[i] = a[i]
         /\ \A i \in 1..Len(b) : (a \o b)[Len(a) + i] = b[i]
  OBVIOUS

\* Appending to the last of three sequences.
LEMMA LastAppended ==
  ASSUME NEW S, NEW a \in Seq(S), NEW b \in Seq(S), NEW c \in Seq(S), NEW x \in S
  PROVE  a \o b \o Append(c, x) = Append(a \o b \o c, x)
<1>. DEFINE ab == a \o b
<1>1. ab \in Seq(S)
  OBVIOUS
<1>. HIDE DEF ab
<1>2. ab \o Append(c, x) = Append(ab \o c, x)
  BY <1>1
<1>. QED
  BY <1>2 DEF ab

\* An element moves from the middle to the first.
LEMMA MovedToFirst ==
  ASSUME NEW a \in Seq(Nat), NEW c \in Seq(Nat), NEW x \in Nat
  PROVE  Append(a, x) \o <<>> \o c = a \o <<x>> \o c
<1>1. Append(a, x) \o <<>> = a \o <<x>>
  OBVIOUS
<1>. QED
  BY <1>1

\* An element moves from the last to the middle.
LEMMA MovedToMiddle ==
  ASSUME NEW a \in Seq(Nat), NEW c \in Seq(Nat), c # <<>>
  PROVE  a \o <<Head(c)>> \o Tail(c) = a \o <<>> \o c
<1>1. Head(c) \in Nat /\ Tail(c) \in Seq(Nat) /\ <<Head(c)>> \o Tail(c) = c /\ a \o <<>> = a
  OBVIOUS
<1>. DEFINE h == <<Head(c)>>
            t == Tail(c)
<1>2. h \in Seq(Nat) /\ t \in Seq(Nat)
  BY <1>1
<1>3. h \o t = c
  BY <1>1
<1>. HIDE DEF h, t
<1>4. a \o (h \o t) = a \o h \o t
  BY <1>2, ConcatAssociates
<1>. QED
  BY <1>1, <1>3, <1>4 DEF h, t

\* Without the one in the middle.
LEMMA WithoutMiddle ==
  ASSUME NEW a \in Seq(Nat), NEW c \in Seq(Nat), NEW x \in Nat
  PROVE  LET k == Len(a) + 1
             p == a \o <<x>> \o c
         IN  Without(p, k, a \o <<>> \o c) /\ k \in 1..Len(p) /\ p[k] = x
<1>1. Len(a) \in Nat /\ Len(c) \in Nat
  OBVIOUS
<1>2. /\ <<x>> \in Seq(Nat) /\ Len(<<x>>) = 1 /\ <<x>>[1] = x /\ a \o <<>> = a
      /\ a \o c \in Seq(Nat) /\ Len(a \o c) = Len(a) + Len(c)
      /\ \A i \in 1..Len(a) : (a \o c)[i] = a[i]
      /\ \A i \in 1..Len(c) : (a \o c)[Len(a) + i] = c[i]
  OBVIOUS
<1>. DEFINE p == a \o <<x>> \o c
<1>3. /\ Len(p) = Len(a) + 1 + Len(c)
      /\ \A i \in 1..Len(a) : p[i] = a[i]
      /\ p[Len(a) + 1] = x
      /\ \A i \in 1..Len(c) : p[Len(a) + 1 + i] = c[i]
  BY <1>1, <1>2, ThreeParts
<1>. DEFINE q == a \o c
<1>. HIDE DEF p, q
<1>4. Without(p, Len(a) + 1, q)
  <2>1. ASSUME NEW i \in (Len(a) + 1)..(Len(p) - 1) PROVE q[i] = p[i + 1]
    <3>1. i - Len(a) \in 1..Len(c) /\ Len(a) + (i - Len(a)) = i /\ Len(a) + 1 + (i - Len(a)) = i + 1
      BY <1>1, <1>3
    <3>2. (a \o c)[Len(a) + (i - Len(a))] = c[i - Len(a)]
          /\ p[Len(a) + 1 + (i - Len(a))] = c[i - Len(a)]
      BY <1>2, <1>3, <3>1
    <3>. QED
      BY <3>1, <3>2 DEF q
  <2>2. \A i \in 1..((Len(a) + 1) - 1) : q[i] = p[i]
    BY <1>1, <1>2, <1>3 DEF q
  <2>3. Len(q) = Len(p) - 1 /\ Len(p) \in Nat
    BY <1>1, <1>2, <1>3 DEF q
  <2>. QED
    BY <2>1, <2>2, <2>3 DEF Without
<1>6. Len(a) + 1 \in 1..Len(p)
  BY <1>1, <1>3
<1>. QED
  BY <1>2, <1>3, <1>4, <1>6 DEF p, q

\* Without the first.
LEMMA WithoutFirst ==
  ASSUME NEW a \in Seq(Nat), NEW b \in Seq(Nat), NEW c \in Seq(Nat), a # <<>>
  PROVE  Without(a \o b \o c, 1, Tail(a) \o b \o c) /\ 1 \in 1..Len(a \o b \o c)
<1>0. Len(a) \in Nat /\ Len(b) \in Nat /\ Len(c) \in Nat
  OBVIOUS
<1>1. /\ Tail(a) \in Seq(Nat) /\ Len(Tail(a)) = Len(a) - 1 /\ Len(a) # 0
      /\ \A i \in 1..(Len(a) - 1) : Tail(a)[i] = a[i + 1]
  OBVIOUS
<1>. DEFINE d == b \o c
            t == Tail(a)
<1>2. d \in Seq(Nat) /\ Len(d) = Len(b) + Len(c) /\ a \o b \o c = a \o d
  BY ConcatAssociates
<1>3. t \in Seq(Nat) /\ Len(t) = Len(a) - 1 /\ \A i \in 1..(Len(a) - 1) : t[i] = a[i + 1]
  BY <1>1
<1>. HIDE DEF t
<1>4. t \o b \o c = t \o d
  BY <1>3, ConcatAssociates
<1>. HIDE DEF d
<1>5. /\ Len(a \o d) = Len(a) + Len(d) /\ Len(d) \in Nat
      /\ \A i \in 1..Len(a) : (a \o d)[i] = a[i]
      /\ \A i \in 1..Len(d) : (a \o d)[Len(a) + i] = d[i]
  BY <1>2, TwoParts
<1>6. /\ Len(t \o d) = Len(t) + Len(d)
      /\ \A i \in 1..Len(t) : (t \o d)[i] = t[i]
      /\ \A i \in 1..Len(d) : (t \o d)[Len(t) + i] = d[i]
  <2>1. t \in Seq(Nat) /\ d \in Seq(Nat)
    BY <1>2, <1>3
  <2>. QED
    BY <2>1, TwoParts
<1>. DEFINE u == a \o d
            v == t \o d
<1>. HIDE DEF u, v
<1>7. ASSUME NEW i \in 1..(Len(u) - 1) PROVE v[i] = u[i + 1]
  <2>1. CASE i \in 1..(Len(a) - 1)
    <3>1. i + 1 \in 1..Len(a) /\ i \in 1..Len(t)
      BY <1>0, <1>3, <2>1
    <3>. QED
      BY <1>3, <1>5, <1>6, <2>1, <3>1 DEF u, v
  <2>2. CASE i \notin 1..(Len(a) - 1)
    <3>1. i - Len(t) \in 1..Len(d) /\ Len(t) + (i - Len(t)) = i /\ Len(a) + (i - Len(t)) = i + 1
      BY <1>0, <1>1, <1>3, <1>5, <2>2 DEF u
    <3>2. v[Len(t) + (i - Len(t))] = d[i - Len(t)] /\ u[Len(a) + (i - Len(t))] = d[i - Len(t)]
      BY <1>5, <1>6, <3>1 DEF u, v
    <3>. QED
      BY <3>1, <3>2
  <2>. QED
    BY <2>1, <2>2
<1>8. Len(v) = Len(u) - 1 /\ Len(u) \in Nat /\ 1 \in 1..Len(u)
  BY <1>0, <1>1, <1>3, <1>5, <1>6 DEF u, v
<1>9. Without(u, 1, v)
  BY <1>7, <1>8 DEF Without
<1>10. u = a \o b \o c /\ v = Tail(a) \o b \o c
  BY <1>2, <1>4 DEF u, v, t
<1>. QED
  BY <1>8, <1>9, <1>10

\* What is on the way has been traced.
LEMMA PathBelow ==
  ASSUME TypeInv, PathInv, NEW p \in Pipelines
  PROVE  \A i \in 1..Len(Path(p)) : Path(p)[i] <= Len(traces[p])
<1>. DEFINE a == fifo[p]
            b == Held(p)
            c == pipe[p]
            n == Len(traces[p])
<1>1. a \in Seq(Nat) /\ b \in Seq(Nat) /\ c \in Seq(Nat) /\ Path(p) = a \o b \o c
  BY PathParts
<1>2. n \in Nat
  BY DEF TypeInv
<1>3. \A i \in 1..Len(a) : a[i] <= n
  BY <1>1, <1>2 DEF PathInv, PathOf, Traced
<1>4. \A i \in 1..Len(b) : b[i] <= n
  BY <1>2 DEF PathInv, PathOf, Held
<1>5. \A i \in 1..Len(c) : c[i] <= n
  BY <1>2 DEF PathInv, PathOf
<1>. HIDE DEF a, b, c, n
<1>6. Len(a) \in Nat /\ Len(b) \in Nat /\ Len(c) \in Nat
  BY <1>1
<1>7. /\ Len(a \o b \o c) = Len(a) + Len(b) + Len(c)
      /\ \A i \in 1..Len(a) : (a \o b \o c)[i] = a[i]
      /\ \A i \in 1..Len(b) : (a \o b \o c)[Len(a) + i] = b[i]
      /\ \A i \in 1..Len(c) : (a \o b \o c)[Len(a) + Len(b) + i] = c[i]
  BY <1>1, ThreeParts
<1>. DEFINE path == a \o b \o c
<1>. HIDE DEF path
<1>8. ASSUME NEW i \in 1..Len(path) PROVE path[i] <= n
  <2>1. CASE i \in 1..Len(a)
    BY <1>3, <1>7, <2>1 DEF path
  <2>2. CASE i \in (Len(a) + 1)..(Len(a) + Len(b))
    <3>1. i - Len(a) \in 1..Len(b) /\ Len(a) + (i - Len(a)) = i
      BY <1>6, <2>2
    <3>2. path[Len(a) + (i - Len(a))] = b[i - Len(a)]
      BY <1>7, <3>1 DEF path
    <3>. QED
      BY <1>4, <3>1, <3>2
  <2>3. CASE i \in (Len(a) + Len(b) + 1)..(Len(a) + Len(b) + Len(c))
    <3>1. i - (Len(a) + Len(b)) \in 1..Len(c) /\ Len(a) + Len(b) + (i - (Len(a) + Len(b))) = i
      BY <1>6, <2>3
    <3>2. path[Len(a) + Len(b) + (i - (Len(a) + Len(b)))] = c[i - (Len(a) + Len(b))]
      BY <1>7, <3>1 DEF path
    <3>. QED
      BY <1>5, <3>1, <3>2
  <2>. QED
    BY <1>6, <1>7, <2>1, <2>2, <2>3 DEF path
<1>. QED
  BY <1>1, <1>8 DEF path, n

\* A trace is written to the end of the path.
LEMMA PathTraced ==
  ASSUME TypeInv, PathInv, NEW p \in Pipelines, TraceCallbackFunction(p)
  PROVE  PathOf(p)'
<1>1. PICK e \in Elements \cup {Ignored} : traces' = [traces EXCEPT ![p] = Append(traces[p], e)]
  BY DEF TraceCallbackFunction
<1>. DEFINE t == traces[p]
            n == Len(traces[p])
<1>2. traces'[p] = Append(t, e) /\ t \in Seq(Elements \cup {Ignored}) /\ n \in Nat
  BY <1>1 DEF TypeInv
<1>3. /\ pipe'[p] = Append(pipe[p], n + 1) /\ pipe[p] \in Seq(Nat)
      /\ UNCHANGED <<fifo, runner, message, taken>>
  BY DEF TraceCallbackFunction, Write, runners, TypeInv
<1>4. Len(traces'[p]) = n + 1 /\ (\A i \in 1..n : traces'[p][i] = t[i]) /\ traces'[p][n + 1] = e
  BY <1>2
<1>5. Path(p)' = Append(Path(p), n + 1) /\ Path(p) \in Seq(Nat)
  <2>. DEFINE a == fifo[p]
              b == Held(p)
              c == pipe[p]
              x == n + 1
  <2>1. Path(p)' = a \o b \o Append(c, x)
    BY <1>3, Zenon DEF Path, Held
  <2>2. a \in Seq(Nat) /\ b \in Seq(Nat) /\ c \in Seq(Nat)
    BY PathParts
  <2>5. x \in Nat
    BY <1>2
  <2>3. Path(p) = a \o b \o c /\ Path(p) \in Seq(Nat)
    BY PathParts
  <2>. HIDE DEF a, b, c, x
  <2>4. a \o b \o Append(c, x) = Append(a \o b \o c, x)
    BY <2>2, <2>5, LastAppended
  <2>. QED
    BY <2>1, <2>3, <2>4 DEF x
<1>6. Kept(Append(Path(p), n + 1), Append(t, e), taken[p])
  BY <1>2, <1>5, PathBelow, KeptAppended, taken[p] \in Nat, taken[p] <= n DEF PathInv, PathOf
<1>7. Kept(Path(p)', traces'[p], taken'[p])
  BY <1>2, <1>3, <1>5, <1>6
<1>8. \A i \in 1..Len(pipe'[p]) : pipe'[p][i] \in 0..(n + 1)
  BY <1>2, <1>3 DEF PathInv, PathOf
<1>9. message[p] \in 0..(n + 1) /\ taken[p] \in 0..(n + 1)
  BY <1>2 DEF PathInv, PathOf
<1>10. runner[p] = "pushing" => traces'[p][message[p]] # Ignored
  BY <1>2, <1>4 DEF PathInv, PathOf, HasValue, WAIT
<1>11. \A i \in 1..Len(fifo[p]) : fifo[p][i] \in 1..(n + 1) /\ traces'[p][fifo[p][i]] # Ignored
  BY <1>2, <1>4 DEF PathInv, PathOf, Traced, HasValue
<1>. QED
  BY <1>3, <1>4, <1>7, <1>8, <1>9, <1>10, <1>11 DEF PathOf, Traced, HasValue, PathInv

\* $WAIT$ is written to the end of the path.
LEMMA PathAsked ==
  ASSUME TypeInv, PathInv, NEW p \in Pipelines, AskToEnd(p)
  PROVE  PathOf(p)'
<1>1. /\ pipe'[p] = Append(pipe[p], WAIT) /\ pipe[p] \in Seq(Nat)
      /\ UNCHANGED <<traces, fifo, runner, message, taken>>
  BY DEF AskToEnd, Write, runners, TypeInv
<1>2. Path(p)' = Append(Path(p), WAIT) /\ Path(p) \in Seq(Nat)
  <2>. DEFINE a == fifo[p]
              b == Held(p)
              c == pipe[p]
  <2>1. Path(p)' = a \o b \o Append(c, WAIT)
    BY <1>1, Zenon DEF Path, Held
  <2>2. a \in Seq(Nat) /\ b \in Seq(Nat) /\ c \in Seq(Nat) /\ WAIT \in Nat
    BY PathParts DEF WAIT
  <2>3. Path(p) = a \o b \o c /\ Path(p) \in Seq(Nat)
    BY PathParts
  <2>. HIDE DEF a, b, c
  <2>4. a \o b \o Append(c, WAIT) = Append(a \o b \o c, WAIT)
    BY <2>2, LastAppended
  <2>. QED
    BY <2>1, <2>3, <2>4
<1>3. traces[p] \in Seq(Elements \cup {Ignored}) /\ Len(traces[p]) \in Nat
  BY DEF TypeInv
<1>4. Kept(Append(Path(p), WAIT), traces[p], taken[p])
  BY <1>2, <1>3, KeptWaiting DEF PathInv, PathOf
<1>5. \A i \in 1..Len(pipe'[p]) : pipe'[p][i] \in 0..Len(traces[p])
  BY <1>1, <1>3 DEF PathInv, PathOf, WAIT
<1>. QED
  BY <1>1, <1>2, <1>4, <1>5 DEF PathOf, Traced, HasValue, PathInv

\* The runner reads a trace, or $WAIT$, which is dropped.
LEMMA PathRead ==
  ASSUME TypeInv, PathInv, NEW p \in Pipelines, ReadBetweenChars(p)
  PROVE  PathOf(p)'
<1>. DEFINE a == fifo[p]
            c == pipe[p]
            h == Head(pipe[p])
<1>1. /\ a \in Seq(Nat) /\ c \in Seq(Nat) /\ c # <<>> /\ Held(p) = <<>>
      /\ Path(p) = a \o <<>> \o c
  <2>1. Held(p) = <<>> /\ c # <<>>
    BY DEF ReadBetweenChars, Held
  <2>. QED
    BY <2>1, PathParts
<1>2. h \in Nat /\ Tail(c) \in Seq(Nat) /\ h = c[1] /\ Len(Tail(c)) = Len(c) - 1
      /\ Len(c) \in Nat \ {0} /\ \A i \in 1..(Len(c) - 1) : Tail(c)[i] = c[i + 1]
  BY <1>1
<1>3. /\ pipe'[p] = Tail(c) /\ message'[p] = h /\ UNCHANGED <<traces, fifo, taken>>
      /\ runner'[p] = IF h = WAIT THEN "syncing" ELSE "parsing"
  BY DEF ReadBetweenChars, children, TypeInv
<1>4. Len(traces[p]) \in Nat /\ \A i \in 1..Len(c) : c[i] \in 0..Len(traces[p])
  <2>1. Len(traces[p]) \in Nat
    BY DEF TypeInv
  <2>. QED
    BY <2>1, Zenon DEF PathInv, PathOf
<1>5. h \in 0..Len(traces[p]) /\ \A i \in 1..Len(pipe'[p]) : pipe'[p][i] \in 0..Len(traces[p])
  <2>. DEFINE d == Tail(pipe[p])
  <2>. HIDE DEF c, d, h
  <2>1. Len(d) = Len(c) - 1 /\ Len(c) \in Nat \ {0}
        /\ (\A i \in 1..(Len(c) - 1) : d[i] = c[i + 1]) /\ h = c[1]
    BY <1>2 DEF c, d
  <2>2. \A i \in 1..Len(d) : i + 1 \in 1..Len(c) /\ d[i] = c[i + 1]
    BY <2>1
  <2>3. \A i \in 1..Len(d) : d[i] \in 0..Len(traces[p])
    BY <1>4, <2>2 DEF c
  <2>4. h \in 0..Len(traces[p])
    BY <1>4, <2>1 DEF c
  <2>. QED
    BY <1>3, <2>3, <2>4 DEF c, d
<1>6. Path(p) = a \o <<h>> \o Tail(c)
  <2>1. a \in Seq(Nat) /\ c \in Seq(Nat) /\ c # <<>>
    BY <1>1
  <2>. HIDE DEF a, c
  <2>2. a \o <<Head(c)>> \o Tail(c) = a \o <<>> \o c
    BY <2>1, MovedToMiddle
  <2>. QED
    BY <1>1, <2>2 DEF c
<1>7. Kept(Path(p)', traces[p], taken[p])
  <2>1. CASE h # WAIT
    <3>1. Path(p)' = a \o <<h>> \o Tail(c)
      BY <1>3, <2>1 DEF Path
    <3>. QED
      BY <1>6, <3>1 DEF PathInv, PathOf
  <2>2. CASE h = WAIT
    <3>1. Path(p)' = a \o <<>> \o Tail(c)
      BY <1>3, <2>2 DEF Path
    <3>. DEFINE d == Tail(pipe[p])
    <3>2. a \in Seq(Nat) /\ d \in Seq(Nat) /\ h \in Nat
      BY <1>1, <1>2
    <3>. HIDE DEF a, d, h
    <3>3. /\ Without(a \o <<h>> \o d, Len(a) + 1, a \o <<>> \o d)
          /\ Len(a) + 1 \in 1..Len(a \o <<h>> \o d) /\ (a \o <<h>> \o d)[Len(a) + 1] = h
      BY <3>2, WithoutMiddle
    <3>4. /\ Without(Path(p), Len(a) + 1, Path(p)') /\ Len(a) + 1 \in 1..Len(Path(p))
          /\ Path(p)[Len(a) + 1] = h
      BY <1>6, <3>1, <3>3 DEF a, d, h
    <3>5. taken[p] \in Int /\ Kept(Path(p), traces[p], taken[p])
      BY DEF PathInv, PathOf, TypeInv
    <3>6. Path(p)[Len(a) + 1] = WAIT /\ Len(traces[p]) \in Nat
      BY <1>4, <2>2, <3>4
    <3>. QED
      BY <3>4, <3>5, <3>6, KeptShortened
  <2>. QED
    BY <2>1, <2>2
<1>. QED
  BY <1>3, <1>5, <1>7 DEF PathOf, Traced, HasValue, PathInv

\* A trace without a value is dropped.
LEMMA PathParsed ==
  ASSUME TypeInv, PathInv, NEW p \in Pipelines, ParseTraceStructure(p)
  PROVE  PathOf(p)'
<1>1. runner[p] = "parsing" /\ UNCHANGED <<traces, pipe, fifo, taken>>
  BY DEF ParseTraceStructure, children
<1>2. CASE HasValue(p, message[p])
  <2>1. runner'[p] = "pushing" /\ message'[p] = message[p]
    BY <1>2 DEF ParseTraceStructure, TypeInv
  <2>. QED
    BY <1>1, <1>2, <2>1, PathKept
<1>3. CASE ~HasValue(p, message[p])
  <2>. DEFINE a == fifo[p]
              c == pipe[p]
              m == message[p]
  <2>1. runner'[p] = "polls" /\ message'[p] = WAIT
    BY <1>3 DEF ParseTraceStructure, TypeInv
  <2>2. a \in Seq(Nat) /\ c \in Seq(Nat) /\ m \in Nat /\ Path(p) = a \o <<m>> \o c
    BY <1>1, PathParts DEF TypeInv, Held
  <2>3. Path(p)' = a \o <<>> \o c
    BY <1>1, <2>1 DEF Path
  <2>4. /\ Without(Path(p), Len(a) + 1, Path(p)') /\ Len(a) + 1 \in 1..Len(Path(p))
        /\ Path(p)[Len(a) + 1] = m
    <3>1. a \in Seq(Nat) /\ c \in Seq(Nat) /\ m \in Nat
      BY <2>2
    <3>. HIDE DEF a, c, m
    <3>2. /\ Without(a \o <<m>> \o c, Len(a) + 1, a \o <<>> \o c)
          /\ Len(a) + 1 \in 1..Len(a \o <<m>> \o c) /\ (a \o <<m>> \o c)[Len(a) + 1] = m
      BY <3>1, WithoutMiddle
    <3>. QED
      BY <2>2, <2>3, <3>2
  <2>5. taken[p] \in Int /\ Kept(Path(p), traces[p], taken[p]) /\ Len(traces[p]) \in Nat
    BY DEF PathInv, PathOf, TypeInv
  <2>6. traces[p][m] = Ignored
    BY <1>3 DEF HasValue
  <2>7. Kept(Path(p)', traces[p], taken[p])
    BY <2>4, <2>5, <2>6, KeptShortened
  <2>8. WAIT \in 0..Len(traces[p])
    BY <2>5 DEF WAIT
  <2>. QED
    BY <1>1, <2>1, <2>7, <2>8 DEF PathOf, Traced, HasValue, PathInv
<1>. QED
  BY <1>2, <1>3

\* What is pushed is the last one in the queue.
LEMMA PathPushed ==
  ASSUME TypeInv, PathInv, NEW p \in Pipelines, Push(p)
  PROVE  PathOf(p)'
<1>. DEFINE a == fifo[p]
            c == pipe[p]
            m == message[p]
<1>1. /\ runner[p] = "pushing" /\ runner'[p] = "polls" /\ message'[p] = WAIT
      /\ fifo'[p] = Append(a, m) /\ UNCHANGED <<traces, pipe, taken>>
  BY DEF Push, children, TypeInv
<1>2. a \in Seq(Nat) /\ c \in Seq(Nat) /\ m \in Nat /\ Path(p) = a \o <<m>> \o c
  BY <1>1, PathParts DEF TypeInv, Held
<1>3. Path(p)' = Append(a, m) \o <<>> \o c
  BY <1>1 DEF Path
<1>4. Path(p)' = Path(p)
  <2>1. a \in Seq(Nat) /\ c \in Seq(Nat) /\ m \in Nat
    BY <1>2
  <2>. HIDE DEF a, c, m
  <2>2. Append(a, m) \o <<>> \o c = a \o <<m>> \o c
    BY <2>1, MovedToFirst
  <2>. QED
    BY <1>2, <1>3, <2>2
<1>5. m \in 0..Len(traces[p]) /\ m # WAIT /\ HasValue(p, m) /\ Len(traces[p]) \in Nat
  BY <1>1 DEF PathInv, PathOf, TypeInv
<1>6. Traced(p, m) /\ \A i \in 1..Len(a) : Traced(p, a[i])
  BY <1>5 DEF Traced, WAIT, PathInv, PathOf
<1>7. \A i \in 1..Len(fifo'[p]) : Traced(p, fifo'[p][i])
  BY <1>1, <1>2, <1>6
<1>8. WAIT \in 0..Len(traces[p])
  BY <1>5 DEF WAIT
<1>. QED
  BY <1>1, <1>4, <1>7, <1>8 DEF PathOf, Traced, HasValue, PathInv

\* What is taken is the first one on the way.
LEMMA PathTaken ==
  ASSUME TypeInv, PathInv, QueueInv, NEW p \in Pipelines, p = stream, Pop
  PROVE  PathOf(p)'
<1>. DEFINE a == fifo[p]
            b == Held(p)
            c == pipe[p]
<1>1. a # <<>>
  BY DEF Pop, TypeInv, QueueInv
<1>2. /\ fifo'[p] = Tail(a) /\ taken'[p] = a[1] /\ Head(a) = a[1]
      /\ UNCHANGED <<traces, pipe, runner, message>>
  BY <1>1, FirstIsNext DEF Pop, children, runners, TypeInv
<1>3. a \in Seq(Nat) /\ b \in Seq(Nat) /\ c \in Seq(Nat) /\ Path(p) = a \o b \o c
  BY <1>1, PathParts
<1>4. Path(p)' = Tail(a) \o b \o c
  <2>1. Path(p)' = fifo'[p] \o (IF runner'[p] \in {"parsing", "pushing"} THEN <<message'[p]>> ELSE <<>>) \o pipe'[p]
    BY <1>2, Zenon DEF Path
  <2>2. Held(p) = IF runner'[p] \in {"parsing", "pushing"} THEN <<message'[p]>> ELSE <<>>
    BY <1>2, Zenon DEF Held
  <2>. QED
    BY <1>2, <2>1, <2>2
<1>5. /\ Without(Path(p), 1, Path(p)') /\ 1 \in 1..Len(Path(p)) /\ Path(p)[1] = a[1]
  <2>1. a \in Seq(Nat) /\ b \in Seq(Nat) /\ c \in Seq(Nat) /\ a # <<>> /\ 0 \in Nat
    BY <1>1, <1>3
  <2>. HIDE DEF a, b, c
  <2>2. Without(a \o b \o c, 1, Tail(a) \o b \o c) /\ 1 \in 1..Len(a \o b \o c)
    BY <2>1, WithoutFirst
  <2>3. 1 \in 1..Len(a)
    BY <2>1
  <2>4. (a \o b \o c)[1] = a[1]
    BY <2>1, <2>3, ThreeParts
  <2>. QED
    BY <1>3, <1>4, <2>2, <2>4
<1>7. a[1] \in (taken[p] + 1)..Len(traces[p]) /\ HasValue(p, a[1])
  BY <1>1, FirstIsNext
<1>8. taken[p] \in Nat /\ Len(traces[p]) \in Nat /\ Kept(Path(p), traces[p], taken[p])
  BY <1>1 DEF TypeInv, PathInv, PathOf
<1>9. a[1] \in Int /\ a[1] # WAIT /\ traces[p][a[1]] # Ignored /\ a[1] \in 0..Len(traces[p])
  BY <1>7, <1>8 DEF HasValue, WAIT
<1>10. Kept(Path(p)', traces[p], a[1])
  <2>. DEFINE n == a[1]
              t == traces[p]
              old == Path(p)
              new == Path(p)'
              last == taken[p]
  <2>1. n = old[1] /\ old[1] # WAIT /\ t[old[1]] # Ignored /\ n \in Int
    BY <1>5, <1>9
  <2>2. Without(old, 1, new) /\ 1 \in 1..Len(old) /\ last \in Int /\ Kept(old, t, last)
        /\ Len(t) \in Nat
    BY <1>5, <1>8
  <2>. HIDE DEF n, t, old, new, last
  <2>3. Kept(new, t, n)
    BY <2>1, <2>2, KeptShortened
  <2>. QED
    BY <2>3 DEF n, t, old, new, last
<1>11. \A i \in 1..Len(Tail(a)) : Traced(p, Tail(a)[i])
  <2>1. Len(Tail(a)) = Len(a) - 1 /\ Len(a) \in Nat
        /\ \A i \in 1..(Len(a) - 1) : Tail(a)[i] = a[i + 1]
    BY <1>1, <1>3
  <2>2. \A i \in 1..Len(a) : Traced(p, a[i])
    BY <1>1 DEF PathInv, PathOf
  <2>. QED
    BY <2>1, <2>2
<1>. QED
  BY <1>1, <1>2, <1>9, <1>10, <1>11 DEF PathOf, Traced, HasValue, PathInv

\* Every step keeps what is on its way: what a step does to one pipeline it does to no
\* other.
LEMMA PathStep ==
  ASSUME TypeInv, PathInv, QueueInv, [Next]_vars
  PROVE  PathInv'
<1>. SUFFICES ASSUME NEW q \in Pipelines PROVE PathOf(q)'
  BY Zenon DEF PathInv, PathOf
<1>1. ASSUME UNCHANGED <<traces, pipe, message, runner, fifo, taken>> PROVE PathOf(q)'
  BY <1>1, PathKept
<1>2. ASSUME NEW p \in Pipelines, TraceCallbackFunction(p) PROVE PathOf(q)'
  <2>1. CASE q = p
    BY <1>2, <2>1, PathTraced
  <2>2. CASE q # p
    <3>1. traces'[q] = traces[q] /\ pipe'[q] = pipe[q] /\ UNCHANGED <<message, runner, fifo, taken>>
      BY <1>2, <2>2 DEF TraceCallbackFunction, Write, runners, TypeInv
    <3>. QED
      BY <3>1, PathKept
  <2>. QED
    BY <2>1, <2>2
<1>3. ASSUME NEW p \in Pipelines, AskToEnd(p) PROVE PathOf(q)'
  <2>1. CASE q = p
    BY <1>3, <2>1, PathAsked
  <2>2. CASE q # p
    <3>1. pipe'[q] = pipe[q] /\ UNCHANGED <<traces, message, runner, fifo, taken>>
      BY <1>3, <2>2 DEF AskToEnd, Write, runners, TypeInv
    <3>. QED
      BY <3>1, PathKept
  <2>. QED
    BY <2>1, <2>2
<1>4. ASSUME NEW p \in Pipelines, ReadBetweenChars(p) PROVE PathOf(q)'
  <2>1. CASE q = p
    BY <1>4, <2>1, PathRead
  <2>2. CASE q # p
    <3>1. /\ pipe'[q] = pipe[q] /\ message'[q] = message[q] /\ runner'[q] = runner[q]
          /\ UNCHANGED <<traces, fifo, taken>>
      BY <1>4, <2>2 DEF ReadBetweenChars, children, TypeInv
    <3>. QED
      BY <3>1, PathKept
  <2>. QED
    BY <2>1, <2>2
<1>5. ASSUME NEW p \in Pipelines, ParseTraceStructure(p) PROVE PathOf(q)'
  <2>1. CASE q = p
    BY <1>5, <2>1, PathParsed
  <2>2. CASE q # p
    <3>1. message'[q] = message[q] /\ runner'[q] = runner[q]
      <4>1. \/ runner' = [runner EXCEPT ![p] = "pushing"] /\ message' = message
            \/ runner' = [runner EXCEPT ![p] = "polls"] /\ message' = [message EXCEPT ![p] = WAIT]
        BY <1>5, Zenon DEF ParseTraceStructure
      <4>. QED
        BY <2>2, <4>1 DEF TypeInv
    <3>2. UNCHANGED <<traces, pipe, fifo, taken>>
      BY <1>5 DEF ParseTraceStructure, children
    <3>. QED
      BY <3>1, <3>2, PathKept
  <2>. QED
    BY <2>1, <2>2
<1>6. ASSUME NEW p \in Pipelines, Push(p) PROVE PathOf(q)'
  <2>1. CASE q = p
    BY <1>6, <2>1, PathPushed
  <2>2. CASE q # p
    <3>1. /\ fifo'[q] = fifo[q] /\ message'[q] = message[q] /\ runner'[q] = runner[q]
          /\ UNCHANGED <<traces, pipe, taken>>
      BY <1>6, <2>2 DEF Push, children, TypeInv
    <3>. QED
      BY <3>1, PathKept
  <2>. QED
    BY <2>1, <2>2
<1>7. ASSUME NEW p \in Pipelines, Released(p) PROVE PathOf(q)'
  <2>1. /\ runner'[q] = runner[q] \/ (runner[q] = "syncing" /\ runner'[q] = "ended")
        /\ UNCHANGED <<traces, pipe, message, fifo, taken>>
    BY <1>7 DEF Released, children, TypeInv
  <2>. QED
    BY <2>1, PathKept
<1>8. CASE Pop
  <2>1. CASE q = stream
    BY <1>8, <2>1, PathTaken
  <2>2. CASE q # stream
    <3>1. /\ fifo'[q] = fifo[q] /\ taken'[q] = taken[q]
          /\ UNCHANGED <<traces, pipe, message, runner>>
      BY <1>8, <2>2 DEF Pop, children, runners, TypeInv
    <3>. QED
      BY <3>1, PathKept
  <2>. QED
    BY <2>1, <2>2
<1>. QED
  BY <1>1, <1>2, <1>3, <1>4, <1>5, <1>6, <1>7, <1>8
     DEF Next, MainStep, RunnerStep, vars, children, runners, sampling, MainLoopQuits, TearDown,
         StartSample, GetMeasurementsSize, CheckSize, CopyFront, EndGroup, Store, EndLoop

\* What the loop is about to take stays in the queue or comes into it: only the loop
\* takes out.
LEMMA QueueStep ==
  ASSUME TypeInv, QueueInv, [Next]_vars
  PROVE  QueueInv'
<1>. SUFFICES ASSUME pc' \in {"front", "pop"}
              PROVE  fifo'[stream'] # <<>> \/ runner'[stream'] = "pushing"
  BY DEF QueueInv
<1>1. CASE UNCHANGED <<pc, stream, fifo, runner>>
  BY <1>1 DEF QueueInv
<1>5. CASE CopyFront
  BY <1>5 DEF CopyFront, QueueInv, runners
<1>2. CASE CheckSize
  <2>1. stream \in Pipelines /\ fifo[stream] \in Seq(Nat) /\ UNCHANGED <<fifo, runner, stream>>
    BY <1>2 DEF CheckSize, TypeInv, runners, sampling
  <2>2. PICK size \in Sizes(stream) : size # 0
    BY <1>2 DEF CheckSize
  <2>. QED
    BY <2>1, <2>2 DEF Sizes
<1>3. ASSUME NEW p \in Pipelines,
             ReadBetweenChars(p) \/ ParseTraceStructure(p) \/ Push(p) \/ Released(p)
      PROVE  fifo'[stream] # <<>> \/ runner'[stream] = "pushing"
  <2>1. pc \in {"front", "pop"} /\ stream \in Pipelines
    BY <1>3 DEF ReadBetweenChars, ParseTraceStructure, Push, Released, TypeInv
  <2>2. fifo[stream] # <<>> \/ runner[stream] = "pushing"
    BY <2>1 DEF QueueInv
  <2>3. CASE Push(p)
    <3>1. fifo' = [fifo EXCEPT ![p] = Append(fifo[p], message[p])]
          /\ runner' = [runner EXCEPT ![p] = "polls"]
      BY <2>3 DEF Push
    <3>2. Append(fifo[p], message[p]) # <<>>
      <4>1. fifo[p] \in Seq(Nat) /\ message[p] \in Nat
        BY DEF TypeInv
      <4>. QED
        BY <4>1
    <3>. QED
      BY <2>1, <2>2, <3>1, <3>2 DEF TypeInv
  <2>4. CASE ReadBetweenChars(p) \/ ParseTraceStructure(p) \/ Released(p)
    <3>1. /\ runner[p] # "pushing" /\ fifo' = fifo
          /\ \A q \in Pipelines : q # p => runner'[q] = runner[q]
      BY <2>4 DEF ReadBetweenChars, ParseTraceStructure, Released, TypeInv
    <3>. QED
      BY <2>1, <2>2, <3>1
  <2>. QED
    BY <1>3, <2>3, <2>4
<1>4. ASSUME NEW p \in Pipelines, RunnerStep(p) PROVE UNCHANGED stream
  BY <1>4 DEF RunnerStep, ReadBetweenChars, ParseTraceStructure, Push, Released, sampling
<1>. QED
  BY <1>1, <1>2, <1>3, <1>4, <1>5
     DEF Next, MainStep, RunnerStep, vars, runners, sampling, TraceCallbackFunction, MainLoopQuits,
         AskToEnd, TearDown, StartSample, GetMeasurementsSize, Pop, EndGroup, Store, EndLoop

\* What front copies is the head of the queue, which stays, or from the slot of the trace
\* that is pushed, which becomes the head.
LEMMA CopyStep ==
  ASSUME TypeInv, PathInv, QueueInv, CopyInv, [Next]_vars
  PROVE  CopyInv'
<1>. DEFINE next == IF fifo[stream] # <<>> THEN Head(fifo[stream]) ELSE message[stream]
<1>1. CASE UNCHANGED <<pc, stream, fifo, message, measurement>>
  BY <1>1 DEF CopyInv
<1>2. CASE CopyFront
  <2>. SUFFICES ASSUME pc' = "pop" PROVE measurement'.value <= next
    BY <1>2 DEF CopyInv, CopyFront, runners
  <2>1. stream \in Pipelines /\ message[stream] \in Nat /\ fifo[stream] \in Seq(Nat)
    BY <1>2 DEF CopyFront, TypeInv
  <2>2. CASE fifo[stream] # <<>>
    <3>1. measurement'.value = Head(fifo[stream]) /\ Head(fifo[stream]) \in Nat
      BY <1>2, <2>1, <2>2 DEF CopyFront
    <3>. QED
      BY <2>2, <3>1
  <2>3. CASE fifo[stream] = <<>>
    <3>1. measurement' \in Slot(stream)
      BY <1>2, <2>3 DEF CopyFront
    <3>2. measurement'.value \in {0} \cup 1..message[stream]
      BY <3>1 DEF Slot
    <3>. QED
      BY <2>1, <2>3, <3>2
  <2>. QED
    BY <2>2, <2>3
<1>3. ASSUME NEW p \in Pipelines,
             ReadBetweenChars(p) \/ ParseTraceStructure(p) \/ Push(p) \/ Released(p)
      PROVE  CopyInv'
  <2>1. UNCHANGED <<pc, stream, measurement>>
    BY <1>3 DEF ReadBetweenChars, ParseTraceStructure, Push, Released, sampling
  <2>. SUFFICES ASSUME pc = "pop"
                PROVE  measurement.value <=
                         IF fifo'[stream] # <<>> THEN Head(fifo'[stream]) ELSE message'[stream]
    BY <2>1 DEF CopyInv
  <2>2. /\ stream \in Pipelines /\ fifo[stream] \in Seq(Nat)
        /\ fifo[stream] # <<>> \/ runner[stream] = "pushing"
        /\ measurement.value <= next
    BY DEF TypeInv, QueueInv, CopyInv
  <2>3. CASE Push(p) /\ p = stream
    <3>1. fifo'[stream] = Append(fifo[stream], message[stream]) /\ message[stream] \in Nat
      BY <2>2, <2>3 DEF Push, TypeInv
    <3>2. fifo'[stream] # <<>> /\ Head(fifo'[stream]) = next
      BY <2>2, <3>1
    <3>. QED
      BY <2>2, <3>2
  <2>4. CASE p # stream \/ ~Push(p)
    <3>1. fifo'[stream] = fifo[stream]
      BY <1>3, <2>2, <2>4 DEF ReadBetweenChars, ParseTraceStructure, Push, Released, TypeInv
    <3>2. runner[stream] = "pushing" => message'[stream] = message[stream]
      <4>1. message' = message \/ \E m : message' = [message EXCEPT ![p] = m]
        BY <1>3, Zenon DEF ReadBetweenChars, ParseTraceStructure, Push, Released
      <4>2. p = stream /\ runner[stream] = "pushing" => FALSE
        BY <1>3, <2>4 DEF ReadBetweenChars, ParseTraceStructure, Released
      <4>. QED
        BY <2>2, <4>1, <4>2 DEF TypeInv
    <3>. QED
      BY <2>2, <3>1, <3>2
  <2>. QED
    BY <2>3, <2>4
<1>4. CASE pc' # "pop"
  BY <1>4 DEF CopyInv
<1>5. ASSUME NEW p \in Pipelines, GetMeasurementsSize(p) PROVE pc' # "pop"
  BY <1>5 DEF GetMeasurementsSize
<1>6. CheckSize \/ Pop \/ EndGroup \/ Store \/ EndLoop \/ StartSample => pc' # "pop"
  BY DEF CheckSize, Pop, EndGroup, Store, EndLoop, StartSample
<1>. QED
  BY <1>1, <1>2, <1>3, <1>4, <1>5, <1>6
     DEF Next, MainStep, RunnerStep, vars, runners, sampling, TraceCallbackFunction, MainLoopQuits,
         AskToEnd, TearDown

-----------------------------------------------------------------------------
(* The ids *)

\* No ids are handed out at the start.
LEMMA IdsInit == Init => IdsInv
<1>. SUFFICES ASSUME Init PROVE IdsInv
  OBVIOUS
<1>1. \A p \in Pipelines : DOMAIN uniqueIds_[p] = {}
  BY DEF Init
<1>. QED
  BY <1>1 DEF IdsInv, OwnIds

\* The new ids of one pipeline are larger than all of the others.
LEMMA IdsStep ==
  ASSUME TypeInv, PathInv, IdsInv, MapInv, [Next]_vars
  PROVE  IdsInv'
<1>1. CASE UNCHANGED <<uniqueIds_, uniqueId>>
  BY <1>1 DEF IdsInv, OwnIds
<1>2. CASE EndGroup
  <2>1. PICK group, m : GroupEnded(group, m)
    BY <1>2, EndOfGroup
  <2>2. stream \in Pipelines /\ uniqueIds_' = [uniqueIds_ EXCEPT ![stream] = m]
    BY <1>2, <2>1 DEF EndGroup, TypeInv, GroupEnded
  <2>3. \A p \in Pipelines : uniqueIds_'[p] = IF p = stream THEN m ELSE uniqueIds_[p]
    BY <2>2 DEF TypeInv
  <2>4. /\ uniqueId' \in Nat /\ uniqueId \in Nat /\ uniqueId <= uniqueId' /\ DOMAIN m \subseteq Elements
        /\ \A e \in DOMAIN m : IF e \in DOMAIN uniqueIds_[stream] THEN m[e] = uniqueIds_[stream][e]
                               ELSE m[e] \in (uniqueId + 1)..uniqueId'
        /\ \A e, f \in DOMAIN m : m[e] = m[f] => e = f
    BY <2>1 DEF GroupEnded, IdsExtended, TypeInv
  <2>5. \A p \in Pipelines :
          /\ DOMAIN uniqueIds_[p] \subseteq Elements
          /\ \A e \in DOMAIN uniqueIds_[p] : uniqueIds_[p][e] \in 1..uniqueId
          /\ \A e, f \in DOMAIN uniqueIds_[p] : uniqueIds_[p][e] = uniqueIds_[p][f] => e = f
    BY DEF IdsInv, OwnIds
  <2>6. \A e \in DOMAIN m : m[e] \in 1..uniqueId'
    BY <2>2, <2>4, <2>5
  <2>7. ASSUME NEW p \in Pipelines PROVE OwnIds(p)'
    <3>1. CASE p = stream
      BY <2>3, <2>4, <2>6, <3>1 DEF OwnIds
    <3>2. CASE p # stream
      <4>1. uniqueIds_'[p] = uniqueIds_[p]
        BY <2>3, <3>2
      <4>2. \A e \in DOMAIN uniqueIds_[p] : uniqueIds_[p][e] \in 1..uniqueId'
        BY <2>4, <2>5
      <4>. QED
        BY <2>5, <4>1, <4>2 DEF OwnIds
    <3>. QED
      BY <3>1, <3>2
  <2>8. ASSUME NEW p \in Pipelines, p # stream, NEW e \in DOMAIN uniqueIds_[p], NEW f \in DOMAIN m
        PROVE  uniqueIds_[p][e] # m[f]
    <3>1. CASE f \in DOMAIN uniqueIds_[stream]
      BY <2>2, <2>4, <2>8, <3>1 DEF IdsInv
    <3>2. CASE f \notin DOMAIN uniqueIds_[stream]
      <4>1. m[f] \in (uniqueId + 1)..uniqueId' /\ uniqueIds_[p][e] \in 1..uniqueId
        BY <2>4, <2>5, <3>2
      <4>. QED
        BY <2>4, <4>1
    <3>. QED
      BY <3>1, <3>2
  <2>9. ASSUME NEW p \in Pipelines, NEW q \in Pipelines, p # q,
               NEW e \in DOMAIN uniqueIds_'[p], NEW f \in DOMAIN uniqueIds_'[q]
        PROVE  uniqueIds_'[p][e] # uniqueIds_'[q][f]
    <3>1. CASE p # stream /\ q # stream
      BY <2>3, <2>9, <3>1 DEF IdsInv
    <3>2. CASE p = stream
      BY <2>3, <2>8, <2>9, <3>2
    <3>3. CASE q = stream
      BY <2>3, <2>8, <2>9, <3>3
    <3>. QED
      BY <3>1, <3>2, <3>3
  <2>. QED
    BY <2>7, <2>9 DEF IdsInv
<1>. QED
  BY <1>1, <1>2
     DEF Next, MainStep, RunnerStep, vars, sampling, TraceCallbackFunction, MainLoopQuits, AskToEnd,
         TearDown, ReadBetweenChars, ParseTraceStructure, Push, Released, StartSample,
         GetMeasurementsSize, CheckSize, CopyFront, Pop, Store, EndLoop

-----------------------------------------------------------------------------
(* The samples *)

\* A value in a sample stays what it is while the traces removed and the ids grow.
LEMMA SampleKept ==
  ASSUME TypeInv, TypeInv', PathInv, Grown, NEW s \in Seq(Group),
         SampleOK(s, taken, uniqueIds_)
  PROVE  SampleOK(s, taken', uniqueIds_')
<1>. SUFFICES ASSUME NEW g \in 1..Len(s), NEW i \in 1..Len(s[g].measuredItems)
              PROVE  LET p == s[g].pipelineId
                     IN  ItemOK(s[g].measuredItems[i], taken'[p], uniqueIds_'[p])
  BY DEF SampleOK, GroupOK
<1>. DEFINE p == s[g].pipelineId
            a == s[g].measuredItems[i]
<1>1. p \in Pipelines
  <2>1. s[g] \in Group
    OBVIOUS
  <2>. QED
    BY <2>1 DEF Group
<1>. HIDE DEF p
<1>2. /\ taken[p] \in Nat /\ taken[p] <= taken'[p] /\ taken'[p] \in Nat
      /\ DOMAIN uniqueIds_[p] \subseteq DOMAIN uniqueIds_'[p]
      /\ \A e \in DOMAIN uniqueIds_[p] : uniqueIds_'[p][e] = uniqueIds_[p][e]
  <2>1. /\ taken[p] <= taken'[p]
        /\ DOMAIN uniqueIds_[p] \subseteq DOMAIN uniqueIds_'[p]
        /\ \A e \in DOMAIN uniqueIds_[p] : uniqueIds_'[p][e] = uniqueIds_[p][e]
    BY <1>1, Zenon DEF Grown
  <2>2. taken'[p] \in Nat /\ taken[p] \in Nat
    BY <1>1 DEF TypeInv
  <2>. QED
    BY <2>1, <2>2
<1>3. ItemOK(a, taken[p], uniqueIds_[p])
  BY DEF p, SampleOK, GroupOK
<1>. HIDE DEF a
<1>4. a.removed \in 1..taken'[p]
  BY <1>2, <1>3 DEF ItemOK
<1>5. ItemOK(a, taken'[p], uniqueIds_'[p])
  BY <1>2, <1>3, <1>4 DEF ItemOK
<1>. QED
  BY <1>5 DEF p, a

\* There are no samples at the start.
LEMMA DataInit == Init => DataInv
BY DEF Init, DataInv, SampleOK

\* A step that changes no sample, or stores the one under way.
LEMMA DataKept ==
  ASSUME TypeInv, TypeInv', PathInv, Grown, DataInv
  PROVE  /\ \A k \in 1..Len(measurementsData_) :
              SampleOK(measurementsData_[k], taken', uniqueIds_')
         /\ SampleOK(result, taken', uniqueIds_')
<1>1. result \in Seq(Group)
      /\ \A k \in 1..Len(measurementsData_) : measurementsData_[k] \in Seq(Group)
  BY DEF TypeInv
<1>. QED
  BY <1>1, SampleKept DEF DataInv

\* The elements of a sequence with one more.
LEMMA Appended ==
  ASSUME NEW S, NEW s \in Seq(S), NEW e \in S
  PROVE  /\ Append(s, e) \in Seq(S) /\ Len(Append(s, e)) = Len(s) + 1 /\ Len(s) \in Nat
         /\ \A i \in 1..Len(s) : Append(s, e)[i] = s[i]
         /\ Append(s, e)[Len(s) + 1] = e
  OBVIOUS

\* A sample after the sorting has the values it had.
LEMMA SampleSorted ==
  ASSUME NEW s \in Seq(Group), NEW ns, NEW ms, SampleOK(s, ns, ms)
  PROVE  /\ SortData(s) \in Seq(Group) /\ Len(SortData(s)) = Len(s)
         /\ SampleOK(SortData(s), ns, ms)
         /\ \A g \in 1..Len(s) :
              /\ SortData(s)[g].pipelineId = s[g].pipelineId
              /\ InOrder(SortData(s)[g].measuredItems)
              /\ \A i \in 1..Len(SortData(s)[g].measuredItems) : \E j \in 1..Len(s[g].measuredItems) :
                   SortData(s)[g].measuredItems[i] = s[g].measuredItems[j]
<1>1. \A g \in 1..Len(s) : DistinctIds(s[g].measuredItems) /\ s[g] \in Group
  BY DEF SampleOK, GroupOK
<1>. DEFINE t == SortData(s)
<1>2. /\ t \in Seq(Group) /\ Len(t) = Len(s)
      /\ \A g \in 1..Len(s) : /\ t[g].pipelineId = s[g].pipelineId
                              /\ t[g].measuredItems = SortedOf(s[g].measuredItems)
  BY <1>1, SortingGroups
<1>. HIDE DEF t
<1>3. ASSUME NEW g \in 1..Len(s)
      PROVE  /\ DistinctIds(t[g].measuredItems) /\ InOrder(t[g].measuredItems)
             /\ \A i \in 1..Len(t[g].measuredItems) : \E j \in 1..Len(s[g].measuredItems) :
                  t[g].measuredItems[i] = s[g].measuredItems[j]
  <2>. DEFINE items == s[g].measuredItems
  <2>1. items \in Seq(Item) /\ DistinctIds(items)
    BY <1>1 DEF Group
  <2>. HIDE DEF items
  <2>2. /\ DistinctIds(SortedOf(items)) /\ InOrder(SortedOf(items))
        /\ \A i \in 1..Len(SortedOf(items)) : \E j \in 1..Len(items) : SortedOf(items)[i] = items[j]
    BY <2>1, SortingPermutes
  <2>3. t[g].measuredItems = SortedOf(items)
    BY <1>2 DEF items
  <2>. QED
    BY <2>2, <2>3 DEF items
<1>4. SampleOK(t, ns, ms)
  <2>. SUFFICES ASSUME NEW g \in 1..Len(s) PROVE GroupOK(t[g], ns, ms)
    BY <1>2 DEF SampleOK
  <2>1. GroupOK(s[g], ns, ms)
    BY DEF SampleOK
  <2>. QED
    BY <1>2, <1>3, <2>1 DEF GroupOK
<1>. QED
  BY <1>2, <1>3, <1>4 DEF t

\* Each sample after EndLoop.
LEMMA SamplesSorted ==
  ASSUME TypeInv, DataInv, EndLoop
  PROVE  /\ Len(measurementsData_') = Len(measurementsData_) /\ Len(measurementsData_) \in Nat
         /\ \A k \in 1..Len(measurementsData_) :
              measurementsData_[k] \in Seq(Group) /\ measurementsData_'[k] = SortData(measurementsData_[k])
         /\ UNCHANGED <<traces, taken, uniqueIds_, result>>
<1>1. measurementsData_' = [k \in 1..Len(measurementsData_) |-> SortData(measurementsData_[k])]
      /\ Len(measurementsData_) \in Nat
      /\ \A k \in 1..Len(measurementsData_) : measurementsData_[k] \in Seq(Group)
  BY DEF EndLoop, TypeInv
<1>2. UNCHANGED <<traces, taken, uniqueIds_, result>>
  BY DEF EndLoop, children
<1>3. Len(measurementsData_') = Len(measurementsData_)
  BY <1>1
<1>. QED
  BY <1>1, <1>2, <1>3

\* Every step keeps the samples right: EndGroup adds a group of traces that were taken,
\* Store moves the sample under way, EndLoop sorts.
LEMMA DataStep ==
  ASSUME TypeInv, TypeInv', PathInv, QueueInv, IdsInv, DataInv, MapInv, [Next]_vars
  PROVE  DataInv'
<1>. DEFINE n == Len(measurementsData_)
<1>1. Grown
  BY Growth
<1>2. /\ \A k \in 1..n : SampleOK(measurementsData_[k], taken', uniqueIds_')
      /\ SampleOK(result, taken', uniqueIds_')
      /\ n \in Nat /\ result \in Seq(Group) /\ measurementsData_ \in Seq(Seq(Group))
  <2>1. /\ \A k \in 1..n : SampleOK(measurementsData_[k], taken', uniqueIds_')
        /\ SampleOK(result, taken', uniqueIds_')
    BY <1>1, DataKept
  <2>2. n \in Nat /\ result \in Seq(Group) /\ measurementsData_ \in Seq(Seq(Group))
    BY DEF TypeInv
  <2>. QED
    BY <2>1, <2>2
<1>. HIDE DEF n
<1>3. CASE UNCHANGED <<measurementsData_, result>>
  BY <1>2, <1>3 DEF DataInv, n
<1>4. CASE EndGroup
  <2>1. PICK group, m : GroupEnded(group, m)
    BY <1>4, EndOfGroup
  <2>2. /\ stream \in Pipelines /\ pc = "GetMeasurement"
        /\ UNCHANGED <<traces, taken, measurementsData_>>
    BY <1>4 DEF EndGroup, children, TypeInv
  <2>3. group \in Group /\ group.pipelineId = stream /\ result' = Append(result, group)
        /\ DistinctIds(group.measuredItems)
    BY <2>1 DEF GroupEnded
  <2>4. uniqueIds_'[stream] = m
    BY <2>1, <2>2 DEF GroupEnded, TypeInv
  <2>5. ASSUME NEW i \in 1..Len(group.measuredItems)
        PROVE  ItemOK(group.measuredItems[i], taken'[stream], uniqueIds_'[stream])
    <3>. DEFINE a == group.measuredItems[i]
    <3>1. /\ \E k \in summarizeMap : a.value = k.value /\ a.removed = k.removed
          /\ a.element \in DOMAIN m /\ a.id = m[a.element]
      BY <2>1, <2>5 DEF GroupEnded
    <3>. HIDE DEF a
    <3>2. a.removed \in 1..taken[stream] /\ a.value <= a.removed
      BY <2>2, <3>1 DEF MapInv, Measured
    <3>3. ItemOK(a, taken'[stream], uniqueIds_'[stream])
      BY <2>2, <2>4, <3>1, <3>2 DEF ItemOK
    <3>. QED
      BY <3>3 DEF a
  <2>6. GroupOK(group, taken', uniqueIds_')
    BY <2>3, <2>5 DEF GroupOK
  <2>7. SampleOK(Append(result, group), taken', uniqueIds_')
    <3>1. /\ Len(Append(result, group)) = Len(result) + 1 /\ Len(result) \in Nat
          /\ \A i \in 1..Len(result) : Append(result, group)[i] = result[i]
          /\ Append(result, group)[Len(result) + 1] = group
      BY <1>2, <2>3, Appended
    <3>. DEFINE r == Append(result, group)
    <3>. HIDE DEF r
    <3>2. ASSUME NEW g \in 1..Len(r) PROVE GroupOK(r[g], taken', uniqueIds_')
      <4>1. CASE g \in 1..Len(result)
        BY <1>2, <3>1, <4>1 DEF r, SampleOK
      <4>2. CASE g = Len(result) + 1
        BY <2>6, <3>1, <4>2 DEF r
      <4>. QED
        BY <3>1, <4>1, <4>2 DEF r
    <3>. QED
      BY <3>2 DEF r, SampleOK
  <2>. QED
    BY <1>2, <2>2, <2>3, <2>7 DEF DataInv, n
<1>5. CASE Store
  <2>1. measurementsData_' = Append(measurementsData_, result) /\ result' = <<>>
    BY <1>5 DEF Store
  <2>2. /\ Len(measurementsData_') = n + 1
        /\ \A i \in 1..n : measurementsData_'[i] = measurementsData_[i]
        /\ measurementsData_'[n + 1] = result
    BY <1>2, <2>1, Appended DEF n
  <2>3. \A k \in 1..Len(measurementsData_') : k \in 1..n \/ k = n + 1
    BY <1>2, <2>2
  <2>4. \A k \in 1..Len(measurementsData_') : SampleOK(measurementsData_'[k], taken', uniqueIds_')
    BY <1>2, <2>2, <2>3
  <2>5. SampleOK(<<>>, taken', uniqueIds_')
    BY DEF SampleOK
  <2>. QED
    BY <2>1, <2>4, <2>5 DEF DataInv
<1>6. CASE EndLoop
  <2>1. /\ Len(measurementsData_') = n
        /\ \A k \in 1..n : measurementsData_[k] \in Seq(Group) /\ measurementsData_'[k] = SortData(measurementsData_[k])
        /\ result' = result
    BY <1>6, SamplesSorted DEF n
  <2>2. \A k \in 1..n : SampleOK(measurementsData_'[k], taken', uniqueIds_')
    BY <1>2, <2>1, SampleSorted
  <2>. QED
    BY <1>2, <2>1, <2>2 DEF DataInv
<1>. QED
  BY <1>3, <1>4, <1>5, <1>6
     DEF Next, MainStep, RunnerStep, vars, sampling, TraceCallbackFunction, MainLoopQuits, AskToEnd,
         TearDown, ReadBetweenChars, ParseTraceStructure, Push, Released, StartSample,
         GetMeasurementsSize, CheckSize, CopyFront, Pop

\* The traces removed so far are below the one that is removed next.
LEMMA NextIsLater ==
  ASSUME TypeInv, DataInv, NEW p \in Pipelines, NEW n \in Nat, n > taken[p]
  PROVE  Later(p, n)
<1>. SUFFICES ASSUME NEW k \in 1..Len(measurementsData_), NEW g \in 1..Len(measurementsData_[k]),
                     measurementsData_[k][g].pipelineId = p,
                     NEW i \in 1..Len(measurementsData_[k][g].measuredItems)
              PROVE  measurementsData_[k][g].measuredItems[i].removed < n
  BY DEF Later, Below
<1>1. ItemOK(measurementsData_[k][g].measuredItems[i], taken[p], uniqueIds_[p])
  BY DEF DataInv, SampleOK, GroupOK
<1>2. measurementsData_[k][g].measuredItems[i].removed \in 1..taken[p] /\ taken[p] \in Nat
  BY <1>1 DEF ItemOK, TypeInv
<1>. QED
  BY <1>2

\* The measurements kept of the pipeline that is looked at stay new.
LEMMA MapStep ==
  ASSUME TypeInv, TypeInv', PathInv, QueueInv, CopyInv, IdsInv, DataInv, MapInv, [Next]_vars
  PROVE  MapInv'
<1>1. Grown
  BY Growth
<1>2. ASSUME UNCHANGED <<stream, summarizeMap, measurementsData_>>,
             pc' \in {"front", "pop", "GetMeasurement"} => pc \in {"front", "pop", "GetMeasurement"}
      PROVE  MapInv'
  <2>. SUFFICES ASSUME pc \in {"GetMeasurement", "front", "pop"}, NEW m \in summarizeMap
                PROVE  m.removed \in 1..taken'[stream]
    BY <1>2 DEF MapInv, Measured, Later
  <2>1. stream \in Pipelines /\ m.removed \in 1..taken[stream]
    BY DEF TypeInv, MapInv, Measured
  <2>2. taken[stream] <= taken'[stream] /\ taken[stream] \in Nat /\ taken'[stream] \in Nat
    BY <1>1, <2>1 DEF Grown, TypeInv
  <2>. QED
    BY <2>1, <2>2
<1>3. ASSUME NEW p \in Pipelines, GetMeasurementsSize(p) PROVE MapInv'
  <2>1. summarizeMap' = {}
    BY <1>3 DEF GetMeasurementsSize
  <2>. QED
    BY <2>1, FS_EmptySet DEF MapInv
<1>4. CASE CheckSize \/ CopyFront
  BY <1>2, <1>4 DEF CheckSize, CopyFront, sampling
<1>5. CASE Pop
  <2>. DEFINE n == Head(fifo[stream])
              new == [element |-> measurement.element, value |-> measurement.value, removed |-> n]
  <2>1. /\ pc = "pop" /\ stream \in Pipelines /\ fifo[stream] # <<>>
        /\ UNCHANGED <<stream, measurementsData_>>
        /\ summarizeMap' = Keep(n) /\ taken'[stream] = n
    BY <1>5 DEF Pop, TypeInv, QueueInv
  <2>2. n \in (taken[stream] + 1)..Len(traces[stream])
    BY <2>1, FirstIsNext
  <2>3. taken[stream] \in Nat /\ Len(traces[stream]) \in Nat
    BY <2>1 DEF TypeInv
  <2>4. n \in Nat /\ n > taken[stream] /\ n \in 1..n
    BY <2>2, <2>3
  <2>5. measurement \in [element : Elements, value : Nat] /\ measurement.value <= n
    BY <2>1 DEF TypeInv, CopyInv
  <2>6. Keep(n) = IF \E m \in summarizeMap : m.element = measurement.element THEN summarizeMap
                  ELSE summarizeMap \cup {new}
    BY DEF Keep
  <2>7. /\ new \in [element : Elements, value : Nat, removed : Nat]
        /\ new.removed = n /\ new.value <= n /\ new.element = measurement.element
    BY <2>4, <2>5
  <2>. HIDE DEF n, new
  <2>8. Later(stream, n)
    BY <2>1, <2>4, NextIsLater
  <2>9. /\ IsFiniteSet(summarizeMap)
        /\ \A m \in summarizeMap : Measured(m)
        /\ \A l, m \in summarizeMap : l.element = m.element => l = m
    BY <2>1, Zenon DEF MapInv
  <2>10. IsFiniteSet(summarizeMap')
    BY <2>1, <2>6, <2>9, FS_AddElement
  <2>11. ASSUME NEW m \in summarizeMap'
         PROVE  /\ m \in [element : Elements, value : Nat, removed : Nat]
                /\ m.removed \in 1..n /\ m.value <= m.removed /\ Later(stream, m.removed)
    <3>1. CASE m \in summarizeMap
      BY <2>3, <2>4, <2>9, <3>1 DEF Measured
    <3>2. CASE m = new
      BY <2>4, <2>7, <2>8, <3>2
    <3>. QED
      BY <2>1, <2>6, <3>1, <3>2
  <2>12. \A l, m \in summarizeMap' : l.element = m.element => l = m
    BY <2>1, <2>6, <2>7, <2>9
  <2>. QED
    BY <2>1, <2>10, <2>11, <2>12 DEF MapInv, Measured, Later
<1>6. CASE pc' \notin {"GetMeasurement", "front", "pop"}
  BY <1>6 DEF MapInv
<1>7. EndGroup \/ Store \/ EndLoop \/ StartSample => pc' \notin {"GetMeasurement", "front", "pop"}
  BY DEF EndGroup, Store, EndLoop, StartSample
<1>. QED
  BY <1>2, <1>3, <1>4, <1>5, <1>6, <1>7
     DEF Next, MainStep, RunnerStep, vars, sampling, TraceCallbackFunction, MainLoopQuits, AskToEnd,
         TearDown, ReadBetweenChars, ParseTraceStructure, Push, Released

-----------------------------------------------------------------------------
(* The order of the samples *)

\* There are no samples to be ordered at the start.
LEMMA AdvanceInit == Init => AdvanceInv
BY DEF Init, AdvanceInv, Precedes

\* A sample precedes the one that a group of newer traces is added to.
LEMMA PrecedesMore ==
  ASSUME NEW s \in Seq(Group), NEW t \in Seq(Group), NEW group \in Group, Precedes(s, t),
         \A i \in 1..Len(group.measuredItems) : Below(s, group.pipelineId, group.measuredItems[i].removed)
  PROVE  Precedes(s, Append(t, group))
<1>. DEFINE r == Append(t, group)
<1>1. /\ Len(r) = Len(t) + 1 /\ Len(t) \in Nat /\ r[Len(t) + 1] = group
      /\ \A i \in 1..Len(t) : r[i] = t[i]
  BY Appended
<1>. HIDE DEF r
<1>2. ASSUME NEW g \in 1..Len(s), NEW h \in 1..Len(r), s[g].pipelineId = r[h].pipelineId,
             NEW i \in 1..Len(s[g].measuredItems), NEW j \in 1..Len(r[h].measuredItems)
      PROVE  s[g].measuredItems[i].removed < r[h].measuredItems[j].removed
  <2>1. CASE h \in 1..Len(t)
    BY <1>1, <1>2, <2>1 DEF Precedes
  <2>2. CASE h = Len(t) + 1
    BY <1>1, <1>2, <2>2 DEF Below
  <2>. QED
    BY <1>1, <2>1, <2>2
<1>3. Precedes(s, r)
  BY <1>2 DEF Precedes
<1>. QED
  BY <1>3 DEF r

\* Every step keeps the order of the samples: a new group is newer than all of them, and
\* sorting moves no value to another sample.
LEMMA AdvanceStep ==
  ASSUME TypeInv, PathInv, IdsInv, DataInv, AdvanceInv, MapInv, [Next]_vars
  PROVE  AdvanceInv'
<1>. DEFINE n == Len(measurementsData_)
<1>1. /\ \A k, l \in 1..n : k < l => Precedes(measurementsData_[k], measurementsData_[l])
      /\ \A k \in 1..n : Precedes(measurementsData_[k], result)
      /\ pc = "loop" => result = <<>>
  BY Zenon DEF AdvanceInv
<1>2. /\ n \in Nat /\ result \in Seq(Group) /\ measurementsData_ \in Seq(Seq(Group))
      /\ \A k \in 1..n : measurementsData_[k] \in Seq(Group)
  BY DEF TypeInv
<1>. HIDE DEF n
<1>3. CASE UNCHANGED <<measurementsData_, result>> /\ (pc' = "loop" => pc = "loop")
  BY <1>1, <1>3 DEF AdvanceInv, n
<1>4. CASE EndGroup
  <2>1. PICK group, m : GroupEnded(group, m)
    BY <1>4, EndOfGroup
  <2>2. pc = "GetMeasurement" /\ pc' # "loop" /\ measurementsData_' = measurementsData_
    BY <1>4 DEF EndGroup
  <2>3. group \in Group /\ group.pipelineId = stream /\ result' = Append(result, group)
        /\ \A i \in 1..Len(group.measuredItems) :
             \E k \in summarizeMap : group.measuredItems[i].removed = k.removed
    BY <2>1 DEF GroupEnded
  <2>4. \A k \in summarizeMap : Later(stream, k.removed)
    BY <2>2 DEF MapInv, Measured
  <2>5. \A k \in 1..n : \A i \in 1..Len(group.measuredItems) :
          Below(measurementsData_[k], group.pipelineId, group.measuredItems[i].removed)
    BY <2>3, <2>4 DEF Later, n
  <2>6. \A k \in 1..n : Precedes(measurementsData_[k], Append(result, group))
    BY <1>1, <1>2, <2>3, <2>5, PrecedesMore
  <2>. QED
    BY <1>1, <2>2, <2>3, <2>6 DEF AdvanceInv, n
<1>5. CASE Store
  <2>1. measurementsData_' = Append(measurementsData_, result) /\ result' = <<>>
    BY <1>5 DEF Store
  <2>2. /\ Len(measurementsData_') = n + 1
        /\ \A i \in 1..n : measurementsData_'[i] = measurementsData_[i]
        /\ measurementsData_'[n + 1] = result
    BY <1>2, <2>1, Appended DEF n
  <2>3. \A k, l \in 1..(n + 1) : k < l => k \in 1..n /\ (l \in 1..n \/ l = n + 1)
    BY <1>2
  <2>4. \A k, l \in 1..(n + 1) : k < l => Precedes(measurementsData_'[k], measurementsData_'[l])
    BY <1>1, <2>2, <2>3
  <2>5. \A k \in 1..(n + 1) : Precedes(measurementsData_'[k], <<>>)
    BY DEF Precedes
  <2>. QED
    BY <2>1, <2>2, <2>4, <2>5 DEF AdvanceInv
<1>6. CASE EndLoop
  <2>1. /\ Len(measurementsData_') = n /\ result' = result
        /\ \A k \in 1..n : measurementsData_'[k] = SortData(measurementsData_[k])
    BY <1>6, SamplesSorted DEF n
  <2>2. result = <<>> /\ pc' # "loop"
    BY <1>1, <1>6 DEF EndLoop
  <2>3. \A k \in 1..n :
          /\ Len(SortData(measurementsData_[k])) = Len(measurementsData_[k])
          /\ \A g \in 1..Len(measurementsData_[k]) :
               /\ SortData(measurementsData_[k])[g].pipelineId = measurementsData_[k][g].pipelineId
               /\ \A i \in 1..Len(SortData(measurementsData_[k])[g].measuredItems) :
                    \E j \in 1..Len(measurementsData_[k][g].measuredItems) :
                      SortData(measurementsData_[k])[g].measuredItems[i] = measurementsData_[k][g].measuredItems[j]
    <3>1. \A k \in 1..n : SampleOK(measurementsData_[k], taken, uniqueIds_)
      BY DEF DataInv, n
    <3>. QED
      BY <1>2, <3>1, SampleSorted
  <2>4. ASSUME NEW k \in 1..n, NEW l \in 1..n, k < l
        PROVE  Precedes(SortData(measurementsData_[k]), SortData(measurementsData_[l]))
    <3>. DEFINE s == measurementsData_[k]
                t == measurementsData_[l]
                u == SortData(s)
                v == SortData(t)
    <3>1. Precedes(s, t)
      BY <1>1, <2>4
    <3>2. /\ Len(u) = Len(s)
          /\ \A g \in 1..Len(s) : /\ u[g].pipelineId = s[g].pipelineId
                                  /\ \A i \in 1..Len(u[g].measuredItems) : \E j \in 1..Len(s[g].measuredItems) :
                                       u[g].measuredItems[i] = s[g].measuredItems[j]
      BY <2>3
    <3>3. /\ Len(v) = Len(t)
          /\ \A g \in 1..Len(t) : /\ v[g].pipelineId = t[g].pipelineId
                                  /\ \A i \in 1..Len(v[g].measuredItems) : \E j \in 1..Len(t[g].measuredItems) :
                                       v[g].measuredItems[i] = t[g].measuredItems[j]
      BY <2>3
    <3>. HIDE DEF s, t, u, v
    <3>4. Precedes(u, v)
      <4>. SUFFICES ASSUME NEW g \in 1..Len(s), NEW h \in 1..Len(t), u[g].pipelineId = v[h].pipelineId,
                           NEW i \in 1..Len(u[g].measuredItems), NEW j \in 1..Len(v[h].measuredItems)
                    PROVE  u[g].measuredItems[i].removed < v[h].measuredItems[j].removed
        BY <3>2, <3>3 DEF Precedes
      <4>1. PICK a \in 1..Len(s[g].measuredItems) : u[g].measuredItems[i] = s[g].measuredItems[a]
        BY <3>2
      <4>2. PICK b \in 1..Len(t[h].measuredItems) : v[h].measuredItems[j] = t[h].measuredItems[b]
        BY <3>3
      <4>3. s[g].pipelineId = t[h].pipelineId
        BY <3>2, <3>3
      <4>. QED
        BY <3>1, <4>1, <4>2, <4>3 DEF Precedes
    <3>. QED
      BY <3>4 DEF u, v, s, t
  <2>5. \A k \in 1..n : Precedes(measurementsData_'[k], <<>>)
    BY DEF Precedes
  <2>. QED
    BY <2>1, <2>2, <2>4, <2>5 DEF AdvanceInv
<1>7. CASE StartSample
  BY <1>1, <1>3, <1>7 DEF StartSample
<1>8. ASSUME NEW p \in Pipelines, GetMeasurementsSize(p) \/ CheckSize \/ CopyFront \/ Pop
      PROVE  UNCHANGED <<measurementsData_, result>> /\ pc' # "loop"
  BY <1>8 DEF GetMeasurementsSize, CheckSize, CopyFront, Pop, sampling
<1>9. CASE CheckSize \/ CopyFront \/ Pop
  BY <1>3, <1>9 DEF CheckSize, CopyFront, Pop, sampling
<1>. QED
  BY <1>3, <1>4, <1>5, <1>6, <1>7, <1>8, <1>9
     DEF Next, MainStep, RunnerStep, vars, sampling, TraceCallbackFunction, MainLoopQuits, AskToEnd,
         TearDown, ReadBetweenChars, ParseTraceStructure, Push, Released

-----------------------------------------------------------------------------
(* The order of the values *)

\* The samples are sorted when the loop ends, and nothing is stored after.
LEMMA SortedStep ==
  ASSUME TypeInv, DataInv, SortedInv, [Next]_vars
  PROVE  SortedInv'
<1>1. CASE UNCHANGED measurementsData_ /\ (pc' = "ended" => pc = "ended")
  BY <1>1 DEF SortedInv
<1>2. CASE Store
  BY <1>2 DEF Store, SortedInv
<1>3. CASE EndLoop
  <2>1. /\ Len(measurementsData_') = Len(measurementsData_)
        /\ \A k \in 1..Len(measurementsData_) : measurementsData_'[k] = SortData(measurementsData_[k])
    BY <1>3, SamplesSorted
  <2>2. \A k \in 1..Len(measurementsData_) :
          /\ measurementsData_[k] \in Seq(Group)
          /\ SampleOK(measurementsData_[k], taken, uniqueIds_)
    BY DEF TypeInv, DataInv
  <2>3. \A k \in 1..Len(measurementsData_) :
          /\ Len(SortData(measurementsData_[k])) = Len(measurementsData_[k])
          /\ \A g \in 1..Len(measurementsData_[k]) : InOrder(SortData(measurementsData_[k])[g].measuredItems)
    BY <2>2, SampleSorted
  <2>. QED
    BY <2>1, <2>3 DEF SortedInv
<1>4. ASSUME NEW p \in Pipelines,
             StartSample \/ GetMeasurementsSize(p) \/ CheckSize \/ CopyFront \/ Pop \/ EndGroup
      PROVE  UNCHANGED measurementsData_ /\ pc' # "ended"
  BY <1>4 DEF StartSample, GetMeasurementsSize, CheckSize, CopyFront, Pop, EndGroup, sampling
<1>5. CASE StartSample \/ CheckSize \/ CopyFront \/ Pop \/ EndGroup
  BY <1>1, <1>5 DEF StartSample, CheckSize, CopyFront, Pop, EndGroup, sampling
<1>. QED
  BY <1>1, <1>2, <1>3, <1>4, <1>5
     DEF Next, MainStep, RunnerStep, vars, sampling, TraceCallbackFunction, MainLoopQuits, AskToEnd,
         TearDown, ReadBetweenChars, ParseTraceStructure, Push, Released

-----------------------------------------------------------------------------
(* The theorems *)

\* The inductive invariant holds always.
THEOREM Invariance == Spec => []IInv
<1>1. Init => IInv
  <2>1. Init => QueueInv /\ CopyInv /\ MapInv /\ SortedInv
    BY DEF Init, QueueInv, CopyInv, MapInv, SortedInv
  <2>. QED
    BY <2>1, TypeInit, PathInit, IdsInit, DataInit, AdvanceInit DEF IInv
<1>2. IInv /\ [Next]_vars => IInv'
  <2>. SUFFICES ASSUME TypeInv, PathInv, QueueInv, CopyInv, IdsInv, DataInv, AdvanceInv, MapInv, SortedInv,
                       [Next]_vars
                PROVE  IInv'
    BY DEF IInv
  <2>1. TypeInv'
    BY TypeStep
  <2>2. PathInv' /\ QueueInv' /\ CopyInv'
    BY PathStep, QueueStep, CopyStep
  <2>3. IdsInv'
    BY IdsStep
  <2>4. DataInv'
    BY <2>1, DataStep
  <2>5. AdvanceInv'
    BY AdvanceStep
  <2>6. MapInv'
    BY <2>1, MapStep
  <2>7. SortedInv'
    BY SortedStep
  <2>. QED
    BY <2>1, <2>2, <2>3, <2>4, <2>5, <2>6, <2>7 DEF IInv
<1>. QED
  BY <1>1, <1>2, PTL DEF Spec

\* The variables have the values the code can give them.
THEOREM TypeCorrect == Spec => []TypeOK
<1>1. IInv => TypeOK
  <2>. SUFFICES ASSUME TypeInv, PathInv, CopyInv, IdsInv PROVE TypeOK
    BY DEF IInv
  <2>3. pc = "pop" => measurement.element \in Elements /\ measurement.value \in 0..Len(traces[stream])
    <3>. SUFFICES ASSUME pc = "pop"
                  PROVE  measurement.element \in Elements /\ measurement.value \in 0..Len(traces[stream])
      OBVIOUS
    <3>1. /\ stream \in Pipelines /\ measurement \in [element : Elements, value : Nat]
          /\ fifo[stream] \in Seq(Nat) /\ traces[stream] \in Seq(Elements \cup {Ignored})
      BY DEF TypeInv
    <3>2. /\ message[stream] \in 0..Len(traces[stream])
          /\ \A i \in 1..Len(fifo[stream]) : fifo[stream][i] \in 1..Len(traces[stream])
      BY <3>1 DEF PathInv, PathOf, Traced
    <3>3. fifo[stream] # <<>> => Head(fifo[stream]) \in 1..Len(traces[stream])
      <4>1. fifo[stream] # <<>> => 1 \in 1..Len(fifo[stream]) /\ Head(fifo[stream]) = fifo[stream][1]
        BY <3>1
      <4>. QED
        BY <3>2, <4>1
    <3>4. Len(traces[stream]) \in Nat
      BY <3>1
    <3>. QED
      BY <3>1, <3>2, <3>3, <3>4 DEF CopyInv
  <2>1. ASSUME NEW p \in Pipelines
        PROVE  /\ traces[p] \in Seq(Elements \cup {Ignored})
               /\ Range(pipe[p]) \cup {message[p]} \subseteq {WAIT} \cup DOMAIN traces[p]
               /\ Len(pipe[p]) <= PipeSize
               /\ \A n \in Range(fifo[p]) : n \in DOMAIN traces[p] /\ HasValue(p, n)
               /\ taken[p] \in 0..Len(traces[p])
               /\ \A e \in DOMAIN uniqueIds_[p] : e \in Elements /\ uniqueIds_[p][e] \in 1..uniqueId
    <3>1. /\ traces[p] \in Seq(Elements \cup {Ignored}) /\ pipe[p] \in Seq(Nat) /\ fifo[p] \in Seq(Nat)
          /\ Len(pipe[p]) <= PipeSize
      BY DEF TypeInv
    <3>2. /\ \A i \in 1..Len(pipe[p]) : pipe[p][i] \in 0..Len(traces[p])
          /\ message[p] \in 0..Len(traces[p])
          /\ \A i \in 1..Len(fifo[p]) : fifo[p][i] \in 1..Len(traces[p]) /\ HasValue(p, fifo[p][i])
          /\ taken[p] \in 0..Len(traces[p])
      BY DEF PathInv, PathOf, Traced
    <3>3. /\ DOMAIN traces[p] = 1..Len(traces[p]) /\ Len(traces[p]) \in Nat
          /\ DOMAIN pipe[p] = 1..Len(pipe[p]) /\ DOMAIN fifo[p] = 1..Len(fifo[p])
      BY <3>1
    <3>4. Range(pipe[p]) \cup {message[p]} \subseteq {WAIT} \cup DOMAIN traces[p]
      BY <3>2, <3>3 DEF Range, WAIT
    <3>5. \A n \in Range(fifo[p]) : n \in DOMAIN traces[p] /\ HasValue(p, n)
      BY <3>2, <3>3 DEF Range
    <3>6. \A e \in DOMAIN uniqueIds_[p] : e \in Elements /\ uniqueIds_[p][e] \in 1..uniqueId
      BY DEF IdsInv, OwnIds
    <3>. QED
      BY <3>1, <3>2, <3>4, <3>5, <3>6
  <2>. QED
    BY <2>1, <2>3 DEF TypeInv, TypeOK
<1>. QED
  BY <1>1, Invariance, PTL

\* No trace is lost, doubled or overtaken on its way from a tracer through the pipe, the
\* runner and the AtomicQueue to ProcessGstreamer.
THEOREM Conservation == Spec => []TracesAreConserved
<1>1. IInv => TracesAreConserved
  <2>. SUFFICES ASSUME TypeInv, PathInv, NEW p \in Pipelines
                PROVE  LET onTheWay == {i \in DOMAIN Path(p) : Path(p)[i] # WAIT /\ HasValue(p, Path(p)[i])}
                       IN  /\ {Path(p)[i] : i \in onTheWay}
                                = {n \in DOMAIN traces[p] : n > taken[p] /\ HasValue(p, n)}
                           /\ \A i, j \in onTheWay : i < j => Path(p)[i] < Path(p)[j]
    BY Zenon DEF IInv, TracesAreConserved
  <2>. DEFINE path == Path(p)
  <2>1. path \in Seq(Nat) /\ Kept(path, traces[p], taken[p])
    BY PathParts DEF PathInv, PathOf
  <2>2. DOMAIN traces[p] = 1..Len(traces[p])
    BY DEF TypeInv
  <2>. HIDE DEF path
  <2>3. DOMAIN path = 1..Len(path)
    BY <2>1
  <2>4. LET on == {i \in DOMAIN path : path[i] # WAIT /\ traces[p][path[i]] # Ignored}
        IN  /\ {path[i] : i \in on} = {n \in DOMAIN traces[p] : n > taken[p] /\ traces[p][n] # Ignored}
            /\ \A i, j \in on : i < j => path[i] < path[j]
    BY <2>1, <2>2, <2>3, Zenon DEF Kept
  <2>. QED
    BY <2>4, Zenon DEF path, HasValue
<1>. QED
  BY <1>1, Invariance, PTL

\* The samples and groups stored are sequences.
LEMMA Stored ==
  ASSUME TypeInv
  PROVE  /\ DOMAIN measurementsData_ = 1..Len(measurementsData_)
         /\ \A k \in 1..Len(measurementsData_) :
              /\ measurementsData_[k] \in Seq(Group)
              /\ Range(measurementsData_[k]) = {measurementsData_[k][g] : g \in 1..Len(measurementsData_[k])}
<1>1. /\ DOMAIN measurementsData_ = 1..Len(measurementsData_)
      /\ \A k \in 1..Len(measurementsData_) : measurementsData_[k] \in Seq(Group)
  BY DEF TypeInv
<1>. QED
  BY <1>1 DEF Range

\* The values of a group are a sequence.
LEMMA ItemsOf ==
  ASSUME NEW g \in Group
  PROVE  /\ g.pipelineId \in Pipelines /\ DOMAIN g.measuredItems = 1..Len(g.measuredItems)
         /\ Range(g.measuredItems) = {g.measuredItems[i] : i \in 1..Len(g.measuredItems)}
<1>1. g.pipelineId \in Pipelines /\ g.measuredItems \in Seq(Item)
  BY DEF Group
<1>2. DOMAIN g.measuredItems = 1..Len(g.measuredItems)
  BY <1>1
<1>. QED
  BY <1>1, <1>2 DEF Range

\* A value of a sample stored, as GetSensors sees it.
LEMMA ValueOf ==
  ASSUME TypeInv, DataInv, NEW g \in Groups, NEW a \in Range(g.measuredItems)
  PROVE  /\ g \in Group
         /\ ItemOK(a, taken[g.pipelineId], uniqueIds_[g.pipelineId])
<1>1. PICK k \in 1..Len(measurementsData_) : g \in Range(measurementsData_[k])
  BY Stored DEF Groups
<1>2. PICK x \in 1..Len(measurementsData_[k]) : g = measurementsData_[k][x]
  BY <1>1, Stored
<1>3. g \in Group
  BY <1>1, <1>2, Stored
<1>4. PICK i \in 1..Len(g.measuredItems) : a = g.measuredItems[i]
  BY <1>3, ItemsOf
<1>. QED
  BY <1>1, <1>2, <1>3, <1>4 DEF DataInv, SampleOK, GroupOK

\* A sample of ProcessGstreamer never repeats or precedes an earlier one: what front copies
\* is not newer than the trace that pop removes for it, and removed are only newer ones.
THEOREM Advance == Spec => []SamplesAdvance
<1>1. IInv => SamplesAdvance
  <2>. SUFFICES ASSUME TypeInv, DataInv, AdvanceInv,
                       NEW k \in DOMAIN measurementsData_, NEW l \in DOMAIN measurementsData_, k < l,
                       NEW g \in Range(measurementsData_[k]), NEW h \in Range(measurementsData_[l]),
                       g.pipelineId = h.pipelineId,
                       NEW a \in Range(g.measuredItems), NEW b \in Range(h.measuredItems),
                       b.value = b.removed
                PROVE  a.value < b.value
    BY DEF IInv, SamplesAdvance
  <2>1. /\ k \in 1..Len(measurementsData_) /\ l \in 1..Len(measurementsData_)
        /\ measurementsData_[k] \in Seq(Group) /\ measurementsData_[l] \in Seq(Group)
    BY Stored
  <2>2. PICK x \in 1..Len(measurementsData_[k]) : g = measurementsData_[k][x]
    BY <2>1, Stored
  <2>3. PICK y \in 1..Len(measurementsData_[l]) : h = measurementsData_[l][y]
    BY <2>1, Stored
  <2>4. g \in Group /\ h \in Group
    BY <2>1, <2>2, <2>3
  <2>5. PICK i \in 1..Len(g.measuredItems) : a = g.measuredItems[i]
    BY <2>4, ItemsOf
  <2>6. PICK j \in 1..Len(h.measuredItems) : b = h.measuredItems[j]
    BY <2>4, ItemsOf
  <2>7. Precedes(measurementsData_[k], measurementsData_[l])
    BY <2>1 DEF AdvanceInv
  <2>8. a.removed < b.removed
    BY <2>2, <2>3, <2>5, <2>6, <2>7 DEF Precedes
  <2>9. g \in Groups
    BY DEF Groups
  <2>10. a.removed \in 1..taken[g.pipelineId] /\ a.value <= a.removed /\ a.value \in Nat
    <3>1. ItemOK(a, taken[g.pipelineId], uniqueIds_[g.pipelineId])
      BY <2>9, ValueOf
    <3>2. g.measuredItems \in Seq(Item)
      BY <2>4 DEF Group
    <3>3. a \in Item
      BY <2>5, <3>2
    <3>. QED
      BY <3>1, <3>3 DEF ItemOK, Item
  <2>11. b.removed \in Nat
    <3>1. h.measuredItems \in Seq(Item)
      BY <2>4 DEF Group
    <3>2. b \in Item
      BY <2>6, <3>1
    <3>. QED
      BY <3>2 DEF Item
  <2>. QED
    BY <2>8, <2>10, <2>11
<1>. QED
  BY <1>1, Invariance, PTL

\* The ids of GetUniqueId stand for one element of one pipeline each.
THEOREM IdsNameElements == Spec => []EveryIdNamesOneElement
<1>1. IInv => EveryIdNamesOneElement
  <2>. SUFFICES ASSUME TypeInv, DataInv, IdsInv, NEW g \in Groups, NEW h \in Groups,
                       NEW a \in Range(g.measuredItems), NEW b \in Range(h.measuredItems)
                PROVE  a.id = b.id <=>
                         /\ g.pipelineId = h.pipelineId
                         /\ a.element = b.element
    BY DEF IInv, EveryIdNamesOneElement
  <2>. DEFINE p == g.pipelineId
              q == h.pipelineId
  <2>1. g \in Group /\ h \in Group
    BY ValueOf
  <2>2. ItemOK(a, taken[p], uniqueIds_[p])
        /\ ItemOK(b, taken[q], uniqueIds_[q])
    BY ValueOf
  <2>3. p \in Pipelines /\ q \in Pipelines
    BY <2>1, ItemsOf
  <2>. HIDE DEF p, q
  <2>4. /\ a.element \in DOMAIN uniqueIds_[p] /\ a.id = uniqueIds_[p][a.element]
        /\ b.element \in DOMAIN uniqueIds_[q] /\ b.id = uniqueIds_[q][b.element]
    BY <2>2 DEF ItemOK
  <2>5. CASE p = q
    BY <2>3, <2>4, <2>5 DEF IdsInv, OwnIds, p, q
  <2>6. CASE p # q
    BY <2>3, <2>4, <2>6 DEF IdsInv, p, q
  <2>. QED
    BY <2>5, <2>6
<1>. QED
  BY <1>1, Invariance, PTL

\* After EndLoop, which sorts what the loop has gathered, each group is in the order of ids
\* in which GetMeasurementLabels lists the labels.
THEOREM InOrderOfLabels == Spec => []GroupsFollowTheLabels
<1>1. IInv => GroupsFollowTheLabels
  <2>. SUFFICES ASSUME TypeInv, SortedInv, pc = "ended", NEW g \in Groups,
                       NEW i \in DOMAIN g.measuredItems, NEW j \in DOMAIN g.measuredItems, i < j
                PROVE  g.measuredItems[i].id < g.measuredItems[j].id
    BY DEF IInv, GroupsFollowTheLabels
  <2>1. PICK k \in 1..Len(measurementsData_) : g \in Range(measurementsData_[k])
    BY Stored DEF Groups
  <2>2. PICK x \in 1..Len(measurementsData_[k]) : g = measurementsData_[k][x]
    BY <2>1, Stored
  <2>3. InOrder(g.measuredItems)
    BY <2>1, <2>2 DEF SortedInv
  <2>4. g \in Group
    BY <2>1, <2>2, Stored
  <2>. QED
    BY <2>3, <2>4, ItemsOf DEF InOrder
<1>. QED
  BY <1>1, Invariance, PTL
=============================================================================
