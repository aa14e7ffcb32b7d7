---------------------------- MODULE AnalysisProofs ----------------------------
(***************************************************************************)
(* Lemmas about what Analysis computes, for every list of sensors and      *)
(* every series of samples: selecting and joining, removal, thresholds,     *)
(* sums, the coefficient of a correlation and the median.                  *)
(***************************************************************************)
EXTENDS Analysis, SetInduction, FiniteSetTheorems, TLAPS

-----------------------------------------------------------------------------
(* The recursive functions *)

\* Selected is the result of its recursion.
LEMMA SelectedIsDefined ==
  ASSUME NEW seq, NEW set, Len(seq) \in Nat
  PROVE  \E f : /\ f = [i \in 0..Len(seq) |-> IF i = 0 THEN <<>> ELSE (IF seq[i] \in set THEN Append(f[i - 1], seq[i]) ELSE f[i - 1])]
               /\ Selected(seq, set) = f[Len(seq)]
<1>. DEFINE after(x, i) == (IF seq[i] \in set THEN Append(x, seq[i]) ELSE x)
            step(f, i) == IF i = 0 THEN <<>> ELSE after(f[i - 1], i)
            S == {n \in Nat : \E f : f = [i \in 0..n |-> step(f, i)]}
<1>. HIDE DEF after
<1>1. 0 \in S
  <2>1. [i \in 0..0 |-> <<>>] = [i \in 0..0 |-> step([j \in 0..0 |-> <<>>], i)]
    OBVIOUS
  <2>. QED
    BY <2>1
<1>2. ASSUME NEW n \in Nat, n \in S PROVE n + 1 \in S
  <2>1. PICK f : f = [i \in 0..n |-> step(f, i)]
    BY <1>2
  <2>. DEFINE g == [i \in 0..(n + 1) |-> IF i = n + 1 THEN after(f[n], n + 1) ELSE f[i]]
  <2>2. ASSUME NEW i \in 0..(n + 1) PROVE g[i] = step(g, i)
    <3>1. CASE i = 0
      BY <2>1, <3>1
    <3>2. CASE i = n + 1
      <4>1. n \in 0..(n + 1) /\ n # n + 1 /\ (n + 1) - 1 = n /\ n + 1 # 0
        OBVIOUS
      <4>2. g[n] = f[n]
        BY <4>1
      <4>. QED
        BY <3>2, <4>1, <4>2
    <3>3. CASE i # 0 /\ i # n + 1
      <4>1. i \in 0..n /\ i - 1 \in 0..(n + 1) /\ i - 1 # n + 1
        BY <3>3
      <4>2. g[i - 1] = f[i - 1] /\ g[i] = f[i]
        BY <4>1
      <4>. QED
        BY <2>1, <3>3, <4>1, <4>2
    <3>. QED
      BY <3>1, <3>2, <3>3
  <2>3. g = [i \in 0..(n + 1) |-> g[i]]
    OBVIOUS
  <2>. HIDE DEF g
  <2>4. g = [i \in 0..(n + 1) |-> step(g, i)]
    BY <2>2, <2>3
  <2>. QED
    BY <2>4
<1>. HIDE DEF S
<1>3. Len(seq) \in S
  BY <1>1, <1>2, SetInduction
<1>. USE DEF S
<1>4. \E f : f = [i \in 0..Len(seq) |-> step(f, i)]
  BY <1>3
<1>. DEFINE c == CHOOSE f : f = [i \in 0..Len(seq) |-> step(f, i)]
<1>5. c = [i \in 0..Len(seq) |-> step(c, i)]
  BY <1>4, Zenon
<1>6. Selected(seq, set) = c[Len(seq)]
  BY Zenon DEF Selected, after
<1>. HIDE DEF c
<1>. QED
  BY <1>5, <1>6, Zenon DEF after

\* RemoveIndexes is the result of its recursion.
LEMMA RemovalIsDefined ==
  ASSUME NEW vec, NEW indexes, Len(vec) \in Nat
  PROVE  \E f : /\ f = [i \in 0..Len(vec) |-> IF i = 0 THEN vec ELSE (IF Len(vec) - i + 1 \in indexes THEN RemoveAt(f[i - 1], Len(vec) - i + 1) ELSE f[i - 1])]
               /\ RemoveIndexes(vec, indexes) = f[Len(vec)]
<1>. DEFINE after(x, i) == (IF Len(vec) - i + 1 \in indexes THEN RemoveAt(x, Len(vec) - i + 1) ELSE x)
            step(f, i) == IF i = 0 THEN vec ELSE after(f[i - 1], i)
            S == {n \in Nat : \E f : f = [i \in 0..n |-> step(f, i)]}
<1>. HIDE DEF after
<1>1. 0 \in S
  <2>1. [i \in 0..0 |-> vec] = [i \in 0..0 |-> step([j \in 0..0 |-> vec], i)]
    OBVIOUS
  <2>. QED
    BY <2>1
<1>2. ASSUME NEW n \in Nat, n \in S PROVE n + 1 \in S
  <2>1. PICK f : f = [i \in 0..n |-> step(f, i)]
    BY <1>2
  <2>. DEFINE g == [i \in 0..(n + 1) |-> IF i = n + 1 THEN after(f[n], n + 1) ELSE f[i]]
  <2>2. ASSUME NEW i \in 0..(n + 1) PROVE g[i] = step(g, i)
    <3>1. CASE i = 0
      BY <2>1, <3>1
    <3>2. CASE i = n + 1
      <4>1. n \in 0..(n + 1) /\ n # n + 1 /\ (n + 1) - 1 = n /\ n + 1 # 0
        OBVIOUS
      <4>2. g[n] = f[n]
        BY <4>1
      <4>. QED
        BY <3>2, <4>1, <4>2
    <3>3. CASE i # 0 /\ i # n + 1
      <4>1. i \in 0..n /\ i - 1 \in 0..(n + 1) /\ i - 1 # n + 1
        BY <3>3
      <4>2. g[i - 1] = f[i - 1] /\ g[i] = f[i]
        BY <4>1
      <4>. QED
        BY <2>1, <3>3, <4>1, <4>2
    <3>. QED
      BY <3>1, <3>2, <3>3
  <2>3. g = [i \in 0..(n + 1) |-> g[i]]
    OBVIOUS
  <2>. HIDE DEF g
  <2>4. g = [i \in 0..(n + 1) |-> step(g, i)]
    BY <2>2, <2>3
  <2>. QED
    BY <2>4
<1>. HIDE DEF S
<1>3. Len(vec) \in S
  BY <1>1, <1>2, SetInduction
<1>. USE DEF S
<1>4. \E f : f = [i \in 0..Len(vec) |-> step(f, i)]
  BY <1>3
<1>. DEFINE c == CHOOSE f : f = [i \in 0..Len(vec) |-> step(f, i)]
<1>5. c = [i \in 0..Len(vec) |-> step(c, i)]
  BY <1>4, Zenon
<1>6. RemoveIndexes(vec, indexes) = c[Len(vec)]
  BY Zenon DEF RemoveIndexes, after
<1>. HIDE DEF c
<1>. QED
  BY <1>5, <1>6, Zenon DEF after

\* So is what the thresholds of a process give.
LEMMA ThresholdsAreDefined ==
  ASSUME NEW id, Len(config_.thresholds) \in Nat
  PROVE  \E f : /\ f = [i \in 0..Len(config_.thresholds) |-> IF i = 0 THEN thresholdExceeded ELSE (IF config_.thresholds[i].processId = id THEN ApplyThreshold(f[i - 1], config_.thresholds[i]) ELSE f[i - 1])]
               /\ ThresholdsApplied(id) = f[Len(config_.thresholds)]
<1>. DEFINE after(x, i) == (IF config_.thresholds[i].processId = id THEN ApplyThreshold(x, config_.thresholds[i]) ELSE x)
            step(f, i) == IF i = 0 THEN thresholdExceeded ELSE after(f[i - 1], i)
            S == {n \in Nat : \E f : f = [i \in 0..n |-> step(f, i)]}
<1>. HIDE DEF after
<1>1. 0 \in S
  <2>1. [i \in 0..0 |-> thresholdExceeded] = [i \in 0..0 |-> step([j \in 0..0 |-> thresholdExceeded], i)]
    OBVIOUS
  <2>. QED
    BY <2>1
<1>2. ASSUME NEW n \in Nat, n \in S PROVE n + 1 \in S
  <2>1. PICK f : f = [i \in 0..n |-> step(f, i)]
    BY <1>2
  <2>. DEFINE g == [i \in 0..(n + 1) |-> IF i = n + 1 THEN after(f[n], n + 1) ELSE f[i]]
  <2>2. ASSUME NEW i \in 0..(n + 1) PROVE g[i] = step(g, i)
    <3>1. CASE i = 0
      BY <2>1, <3>1
    <3>2. CASE i = n + 1
      <4>1. n \in 0..(n + 1) /\ n # n + 1 /\ (n + 1) - 1 = n /\ n + 1 # 0
        OBVIOUS
      <4>2. g[n] = f[n]
        BY <4>1
      <4>. QED
        BY <3>2, <4>1, <4>2
    <3>3. CASE i # 0 /\ i # n + 1
      <4>1. i \in 0..n /\ i - 1 \in 0..(n + 1) /\ i - 1 # n + 1
        BY <3>3
      <4>2. g[i - 1] = f[i - 1] /\ g[i] = f[i]
        BY <4>1
      <4>. QED
        BY <2>1, <3>3, <4>1, <4>2
    <3>. QED
      BY <3>1, <3>2, <3>3
  <2>3. g = [i \in 0..(n + 1) |-> g[i]]
    OBVIOUS
  <2>. HIDE DEF g
  <2>4. g = [i \in 0..(n + 1) |-> step(g, i)]
    BY <2>2, <2>3
  <2>. QED
    BY <2>4
<1>. HIDE DEF S
<1>3. Len(config_.thresholds) \in S
  BY <1>1, <1>2, SetInduction
<1>. USE DEF S
<1>4. \E f : f = [i \in 0..Len(config_.thresholds) |-> step(f, i)]
  BY <1>3
<1>. DEFINE c == CHOOSE f : f = [i \in 0..Len(config_.thresholds) |-> step(f, i)]
<1>5. c = [i \in 0..Len(config_.thresholds) |-> step(c, i)]
  BY <1>4, Zenon
<1>6. ThresholdsApplied(id) = c[Len(config_.thresholds)]
  BY Zenon DEF ThresholdsApplied, after
<1>. HIDE DEF c
<1>. QED
  BY <1>5, <1>6, Zenon DEF after

\* So is a sum.
LEMMA SumIsDefined ==
  ASSUME NEW v, Len(v) \in Nat
  PROVE  \E f : /\ f = [i \in 0..Len(v) |-> IF i = 0 THEN 0 ELSE f[i - 1] + v[i]]
               /\ Sum(v) = f[Len(v)]
<1>. DEFINE after(x, i) == x + v[i]
            step(f, i) == IF i = 0 THEN 0 ELSE after(f[i - 1], i)
            S == {n \in Nat : \E f : f = [i \in 0..n |-> step(f, i)]}
<1>. HIDE DEF after
<1>1. 0 \in S
  <2>1. [i \in 0..0 |-> 0] = [i \in 0..0 |-> step([j \in 0..0 |-> 0], i)]
    OBVIOUS
  <2>. QED
    BY <2>1
<1>2. ASSUME NEW n \in Nat, n \in S PROVE n + 1 \in S
  <2>1. PICK f : f = [i \in 0..n |-> step(f, i)]
    BY <1>2
  <2>. DEFINE g == [i \in 0..(n + 1) |-> IF i = n + 1 THEN after(f[n], n + 1) ELSE f[i]]
  <2>2. ASSUME NEW i \in 0..(n + 1) PROVE g[i] = step(g, i)
    <3>1. CASE i = 0
      BY <2>1, <3>1
    <3>2. CASE i = n + 1
      <4>1. n \in 0..(n + 1) /\ n # n + 1 /\ (n + 1) - 1 = n /\ n + 1 # 0
        OBVIOUS
      <4>2. g[n] = f[n]
        BY <4>1
      <4>. QED
        BY <3>2, <4>1, <4>2
    <3>3. CASE i # 0 /\ i # n + 1
      <4>1. i \in 0..n /\ i - 1 \in 0..(n + 1) /\ i - 1 # n + 1
        BY <3>3
      <4>2. g[i - 1] = f[i - 1] /\ g[i] = f[i]
        BY <4>1
      <4>. QED
        BY <2>1, <3>3, <4>1, <4>2
    <3>. QED
      BY <3>1, <3>2, <3>3
  <2>3. g = [i \in 0..(n + 1) |-> g[i]]
    OBVIOUS
  <2>. HIDE DEF g
  <2>4. g = [i \in 0..(n + 1) |-> step(g, i)]
    BY <2>2, <2>3
  <2>. QED
    BY <2>4
<1>. HIDE DEF S
<1>3. Len(v) \in S
  BY <1>1, <1>2, SetInduction
<1>. USE DEF S
<1>4. \E f : f = [i \in 0..Len(v) |-> step(f, i)]
  BY <1>3
<1>. DEFINE c == CHOOSE f : f = [i \in 0..Len(v) |-> step(f, i)]
<1>5. c = [i \in 0..Len(v) |-> step(c, i)]
  BY <1>4, Zenon
<1>6. Sum(v) = c[Len(v)]
  BY Zenon DEF Sum, after
<1>. HIDE DEF c
<1>. QED
  BY <1>5, <1>6, Zenon DEF after

-----------------------------------------------------------------------------
(* Sequences *)

\* Selected keeps elements of the sequence that are in the set, and no others.
LEMMA SelectedType ==
  ASSUME NEW X, NEW set, NEW seq \in Seq(X)
  PROVE  Selected(seq, set) \in Seq(X \cap set)
<1>. DEFINE N == Len(seq)
<1>1. PICK f : /\ f = [i \in 0..N |-> IF i = 0 THEN <<>>
                                      ELSE (IF seq[i] \in set THEN Append(f[i - 1], seq[i]) ELSE f[i - 1])]
               /\ Selected(seq, set) = f[N]
  <2>1. Len(seq) \in Nat
    OBVIOUS
  <2>. QED
    BY <2>1, SelectedIsDefined, Zenon
<1>. DEFINE S == {n \in Nat : n <= N => f[n] \in Seq(X \cap set)}
<1>2. 0 \in S
  BY <1>1
<1>3. ASSUME NEW n \in Nat, n \in S PROVE n + 1 \in S
  <2>. SUFFICES ASSUME n + 1 <= N PROVE f[n + 1] \in Seq(X \cap set)
    OBVIOUS
  <2>1. /\ n + 1 \in 0..N /\ n + 1 # 0 /\ (n + 1) - 1 = n /\ n + 1 \in 1..N
        /\ f[n] \in Seq(X \cap set)
    BY <1>3
  <2>2. f[n + 1] = IF seq[n + 1] \in set THEN Append(f[n], seq[n + 1]) ELSE f[n]
    BY <1>1, <2>1
  <2>3. seq[n + 1] \in X
    BY <2>1
  <2>. HIDE DEF N
  <2>. QED
    BY <2>1, <2>2, <2>3
<1>4. N \in S
  <2>. HIDE DEF S
  <2>. QED
    BY <1>2, <1>3, SetInduction
<1>. QED
  BY <1>1, <1>4

\* What the first n sequences are joined to, one after the other.
Joins(f, ss, X) ==
  /\ f[0] = <<>>
  /\ \A n \in 0..Len(ss) : f[n] \in Seq(X)
  /\ \A n \in Nat : n + 1 <= Len(ss) => f[n + 1] = f[n] \o ss[n + 1]

\* That is how all are joined.
LEMMA FlattenIs ==
  ASSUME NEW X, NEW ss, Len(ss) \in Nat, \A i \in 1..Len(ss) : ss[i] \in Seq(X), Len(ss) = 0 => ss = <<>>
  PROVE  \E f : Joins(f, ss, X) /\ FlattenSeq(ss) = f[Len(ss)]
<1>. DEFINE N == Len(ss)
            step(f, i) == IF i = 1 THEN ss[i] ELSE f[i - 1] \o ss[i]
            S == {n \in Nat : \E f : f = [i \in 1..(n + 1) |-> step(f, i)]}
            c == CHOOSE f : f = [i \in 1..N |-> step(f, i)]
<1>1. CASE N = 0
  <2>. DEFINE f == [n \in {0} |-> <<>>]
  <2>1. f[0] = <<>> /\ FlattenSeq(ss) = f[0]
    BY <1>1 DEF FlattenSeq
  <2>. HIDE DEF f
  <2>2. \A n \in 0..Len(ss) : n = 0
    BY <1>1
  <2>3. \A n \in Nat : ~(n + 1 <= Len(ss))
    BY <1>1
  <2>4. f[0] \in Seq(X)
    BY <2>1
  <2>5. f[0] = <<>> /\ FlattenSeq(ss) = f[Len(ss)]
    BY <1>1, <2>1
  <2>6. Joins(f, ss, X)
    BY <2>2, <2>3, <2>4, <2>5 DEF Joins
  <2>. QED
    BY <2>5, <2>6
<1>2. CASE N # 0
  <2>1. 0 \in S
    <3>1. [i \in 1..(0 + 1) |-> ss[i]] = [i \in 1..(0 + 1) |-> step([j \in 1..(0 + 1) |-> ss[j]], i)]
      OBVIOUS
    <3>. QED
      BY <3>1
  <2>2. ASSUME NEW n \in Nat, n \in S PROVE n + 1 \in S
    <3>1. PICK f : f = [i \in 1..(n + 1) |-> step(f, i)]
      BY <2>2
    <3>. DEFINE g == [i \in 1..(n + 2) |-> IF i = n + 2 THEN f[n + 1] \o ss[n + 2] ELSE f[i]]
    <3>2. ASSUME NEW i \in 1..(n + 2) PROVE g[i] = step(g, i)
      <4>1. CASE i = 1
        BY <3>1, <4>1
      <4>2. CASE i = n + 2
        <5>1. n + 1 \in 1..(n + 2) /\ n + 1 # n + 2 /\ (n + 2) - 1 = n + 1 /\ n + 2 # 1
          OBVIOUS
        <5>2. g[n + 1] = f[n + 1]
          BY <5>1
        <5>. QED
          BY <4>2, <5>1, <5>2
      <4>3. CASE i # 1 /\ i # n + 2
        <5>1. i \in 1..(n + 1) /\ i - 1 \in 1..(n + 2) /\ i - 1 # n + 2
          BY <4>3
        <5>2. g[i - 1] = f[i - 1] /\ g[i] = f[i]
          BY <5>1
        <5>. QED
          BY <3>1, <4>3, <5>1, <5>2
      <4>. QED
        BY <4>1, <4>2, <4>3
    <3>3. g = [i \in 1..(n + 2) |-> g[i]]
      OBVIOUS
    <3>. HIDE DEF g
    <3>4. g = [i \in 1..(n + 2) |-> step(g, i)]
      BY <3>2, <3>3
    <3>5. (n + 1) + 1 = n + 2 /\ n + 1 \in Nat
      OBVIOUS
    <3>6. \E h : h = [i \in 1..((n + 1) + 1) |-> step(h, i)]
      BY <3>4, <3>5, Zenon
    <3>. QED
      BY <3>5, <3>6
  <2>3. N - 1 \in S
    <3>. HIDE DEF S
    <3>. QED
      BY <1>2, <2>1, <2>2, SetInduction
  <2>4. \E f : f = [i \in 1..N |-> step(f, i)]
    <3>1. (N - 1) + 1 = N
      BY <1>2
    <3>2. \E f : f = [i \in 1..((N - 1) + 1) |-> step(f, i)]
      BY <2>3
    <3>. QED
      BY <3>1, <3>2, Zenon
  <2>5. c = [i \in 1..N |-> step(c, i)]
    BY <2>4, Zenon
  <2>6. FlattenSeq(ss) = c[N]
    BY <1>2, Zenon DEF FlattenSeq
  <2>. HIDE DEF c
  <2>. DEFINE T == {n \in Nat : n + 1 <= N => c[n + 1] \in Seq(X)}
  <2>7. 0 \in T
    BY <2>5
  <2>8. ASSUME NEW n \in Nat, n \in T PROVE n + 1 \in T
    <3>. SUFFICES ASSUME (n + 1) + 1 <= N PROVE c[(n + 1) + 1] \in Seq(X)
      OBVIOUS
    <3>1. (n + 1) + 1 \in 1..N /\ (n + 1) + 1 # 1 /\ ((n + 1) + 1) - 1 = n + 1 /\ c[n + 1] \in Seq(X)
      BY <2>8
    <3>2. c[(n + 1) + 1] = c[n + 1] \o ss[(n + 1) + 1]
      BY <2>5, <3>1
    <3>. QED
      BY <3>1, <3>2
  <2>9. \A n \in Nat : n \in T
    <3>. HIDE DEF T
    <3>. QED
      BY <2>7, <2>8, SetInduction
  <2>. DEFINE h == [n \in 0..N |-> IF n = 0 THEN <<>> ELSE c[n]]
  <2>10. h[0] = <<>> /\ \A n \in 1..N : h[n] = c[n]
    BY <1>2
  <2>. HIDE DEF h
  <2>11. ASSUME NEW n \in 1..N PROVE c[n] \in Seq(X)
    <3>1. n - 1 \in Nat /\ (n - 1) + 1 = n
      OBVIOUS
    <3>2. n - 1 \in T
      <4>. HIDE DEF T
      <4>. QED
        BY <2>9, <3>1
    <3>. QED
      BY <3>1, <3>2
  <2>12. ASSUME NEW n \in Nat, n + 1 <= N PROVE h[n + 1] = h[n] \o ss[n + 1]
    <3>1. n + 1 \in 1..N /\ ss[n + 1] \in Seq(X)
      BY <2>12
    <3>2. CASE n = 0
      <4>1. c[1] = ss[1]
        BY <1>2, <2>5
      <4>2. <<>> \o ss[1] = ss[1] /\ 1 \in 1..N
        BY <3>1, <3>2
      <4>3. h[1] = ss[1] /\ h[0] \o ss[1] = ss[1]
        BY <2>10, <4>1, <4>2
      <4>4. n + 1 = 1
        BY <3>2
      <4>. QED
        BY <3>2, <4>3, <4>4
    <3>3. CASE n # 0
      <4>1. n \in 1..N /\ n + 1 # 1 /\ (n + 1) - 1 = n
        BY <2>12, <3>3
      <4>2. c[n + 1] = c[n] \o ss[n + 1]
        BY <2>5, <3>1, <4>1
      <4>. QED
        BY <2>10, <3>1, <4>1, <4>2
    <3>. QED
      BY <3>2, <3>3
  <2>13. \A n \in 0..N : h[n] \in Seq(X)
    <3>1. \A n \in 0..N : n = 0 \/ n \in 1..N
      OBVIOUS
    <3>2. <<>> \in Seq(X)
      OBVIOUS
    <3>. QED
      BY <2>10, <2>11, <3>1, <3>2
  <2>14. FlattenSeq(ss) = h[N]
    BY <1>2, <2>6, <2>10
  <2>15. Joins(h, ss, X)
    BY <2>10, <2>12, <2>13 DEF Joins
  <2>. QED
    BY <2>14, <2>15
<1>. QED
  BY <1>1, <1>2

\* What sequences are joined to holds the elements they hold.
LEMMA FlattenType ==
  ASSUME NEW X, NEW ss, Len(ss) \in Nat, \A i \in 1..Len(ss) : ss[i] \in Seq(X), Len(ss) = 0 => ss = <<>>
  PROVE  FlattenSeq(ss) \in Seq(X)
<1>1. PICK f : Joins(f, ss, X) /\ FlattenSeq(ss) = f[Len(ss)]
  BY FlattenIs
<1>. QED
  BY <1>1 DEF Joins

\* Where the elements of a sequence are that are in a set.
Places(seq, set) == Selected([k \in 1..Len(seq) |-> k], {k \in 1..Len(seq) : seq[k] \in set})

\* These places, of the first n, and the elements there.
PlacedUpTo(n, seq, set, places, kept) ==
  /\ places \in Seq(1..Len(seq)) /\ kept \in Seq(Range(seq)) /\ Len(kept) = Len(places)
  /\ \A j \in 1..Len(places) : places[j] <= n /\ seq[places[j]] \in set /\ kept[j] = seq[places[j]]
  /\ \A k \in 1..n : seq[k] \in set => \E j \in 1..Len(places) : places[j] = k
  /\ \A i, j \in 1..Len(places) : i < j => places[i] < places[j]

\* One more place.
LEMMA OnePlace ==
  ASSUME NEW X, NEW seq \in Seq(X), NEW set, NEW n \in Nat, n + 1 <= Len(seq), NEW places, NEW kept,
         PlacedUpTo(n, seq, set, places, kept), seq[n + 1] \in set
  PROVE  PlacedUpTo(n + 1, seq, set, Append(places, n + 1), Append(kept, seq[n + 1]))
<1>. DEFINE L == Len(places)
            N == Len(seq)
            x == seq[n + 1]
            p == Append(places, n + 1)
            q == Append(kept, x)
<1>1. /\ places \in Seq(1..N) /\ kept \in Seq(Range(seq)) /\ Len(kept) = L /\ L \in Nat
      /\ \A j \in 1..L : places[j] <= n /\ seq[places[j]] \in set /\ kept[j] = seq[places[j]]
      /\ \A k \in 1..n : seq[k] \in set => \E j \in 1..L : places[j] = k
      /\ \A i, j \in 1..L : i < j => places[i] < places[j]
  BY DEF PlacedUpTo
<1>2. n + 1 \in 1..N /\ x \in Range(seq) /\ x \in set
  BY DEF Range
<1>. HIDE DEF L, N, x
<1>3. /\ p \in Seq(1..N) /\ Len(p) = L + 1 /\ p[L + 1] = n + 1 /\ \A j \in 1..L : p[j] = places[j]
  BY <1>1, <1>2 DEF L
<1>4. /\ q \in Seq(Range(seq)) /\ Len(q) = L + 1 /\ q[L + 1] = x /\ \A j \in 1..L : q[j] = kept[j]
  BY <1>1, <1>2
<1>. HIDE DEF p, q
<1>5. \A j \in 1..L : places[j] \in Int
  BY <1>1 DEF L, N
<1>6. ASSUME NEW j \in 1..(L + 1)
      PROVE  p[j] <= n + 1 /\ seq[p[j]] \in set /\ q[j] = seq[p[j]]
  <2>1. CASE j = L + 1
    BY <1>2, <1>3, <1>4, <2>1 DEF x
  <2>2. CASE j \in 1..L
    <3>1. p[j] = places[j] /\ q[j] = kept[j]
      BY <1>3, <1>4, <2>2
    <3>2. places[j] <= n /\ places[j] \in Int /\ seq[places[j]] \in set /\ kept[j] = seq[places[j]]
      BY <1>1, <1>5, <2>2
    <3>3. places[j] <= n + 1
      BY <3>2
    <3>. QED
      BY <3>1, <3>2, <3>3
  <2>. QED
    BY <1>1, <2>1, <2>2
<1>7. ASSUME NEW k \in 1..(n + 1), seq[k] \in set PROVE \E j \in 1..(L + 1) : p[j] = k
  <2>1. CASE k = n + 1
    BY <1>1, <1>3, <2>1
  <2>2. CASE k \in 1..n
    BY <1>1, <1>3, <1>7, <2>2
  <2>. QED
    BY <2>1, <2>2
<1>8. ASSUME NEW i \in 1..(L + 1), NEW j \in 1..(L + 1), i < j PROVE p[i] < p[j]
  <2>1. CASE j = L + 1
    BY <1>1, <1>3, <1>5, <1>8, <2>1
  <2>2. CASE j \in 1..L
    <3>1. i \in 1..L
      BY <1>1, <1>8, <2>2
    <3>. QED
      BY <1>1, <1>3, <1>8, <2>2, <3>1
  <2>3. j = L + 1 \/ j \in 1..L
    BY <1>1
  <2>. QED
    BY <2>1, <2>2, <2>3
<1>9. PlacedUpTo(n + 1, seq, set, p, q)
  BY <1>3, <1>4, <1>6, <1>7, <1>8 DEF PlacedUpTo, N
<1>. QED
  BY <1>9 DEF p, q, x

\* What is selected are the elements at these places, one after the other.
LEMMA SelectedPlaces ==
  ASSUME NEW X, NEW seq \in Seq(X), NEW set
  PROVE  PlacedUpTo(Len(seq), seq, set, Places(seq, set), Selected(seq, set))
<1>. DEFINE N == Len(seq)
            ids == [k \in 1..N |-> k]
            B == {k \in 1..N : seq[k] \in set}
<1>0. N \in Nat /\ Len(ids) = N /\ \A k \in 1..N : ids[k] = k
  OBVIOUS
<1>1. PICK f : /\ f = [i \in 0..N |-> IF i = 0 THEN <<>>
                                      ELSE (IF seq[i] \in set THEN Append(f[i - 1], seq[i]) ELSE f[i - 1])]
               /\ Selected(seq, set) = f[N]
  BY <1>0, SelectedIsDefined, Zenon
<1>2. PICK g : /\ g = [i \in 0..N |-> IF i = 0 THEN <<>>
                                      ELSE (IF ids[i] \in B THEN Append(g[i - 1], ids[i]) ELSE g[i - 1])]
               /\ Selected(ids, B) = g[N]
  <2>. HIDE DEF ids, B
  <2>1. PICK g : /\ g = [i \in 0..Len(ids) |-> IF i = 0 THEN <<>>
                                      ELSE (IF ids[i] \in B THEN Append(g[i - 1], ids[i]) ELSE g[i - 1])]
               /\ Selected(ids, B) = g[Len(ids)]
    BY <1>0, SelectedIsDefined
  <2>. QED
    BY <1>0, <2>1
<1>. DEFINE S == {n \in Nat : n <= N => PlacedUpTo(n, seq, set, g[n], f[n])}
<1>3. 0 \in S
  <2>1. f[0] = <<>> /\ g[0] = <<>>
    BY <1>0, <1>1, <1>2
  <2>2. PlacedUpTo(0, seq, set, <<>>, <<>>)
    BY DEF PlacedUpTo
  <2>. QED
    BY <2>1, <2>2
<1>4. ASSUME NEW n \in Nat, n \in S PROVE n + 1 \in S
  <2>. SUFFICES ASSUME n + 1 <= N PROVE PlacedUpTo(n + 1, seq, set, g[n + 1], f[n + 1])
    OBVIOUS
  <2>1. n + 1 \in 0..N /\ n + 1 \in 1..N /\ n + 1 # 0 /\ (n + 1) - 1 = n /\ n <= N
    BY <1>0
  <2>2. PlacedUpTo(n, seq, set, g[n], f[n])
    BY <1>4, <2>1
  <2>3. f[n + 1] = IF seq[n + 1] \in set THEN Append(f[n], seq[n + 1]) ELSE f[n]
    BY <1>1, <2>1
  <2>4. g[n + 1] = IF seq[n + 1] \in set THEN Append(g[n], n + 1) ELSE g[n]
    <3>1. n + 1 \in B <=> seq[n + 1] \in set
      BY <2>1
    <3>2. g[n + 1] = IF ids[n + 1] \in B THEN Append(g[n], ids[n + 1]) ELSE g[n]
      <4>. HIDE DEF ids, B
      <4>. QED
        BY <1>2, <2>1
    <3>. QED
      BY <1>0, <2>1, <3>1, <3>2
  <2>5. CASE seq[n + 1] \in set
    <3>1. PlacedUpTo(n + 1, seq, set, Append(g[n], n + 1), Append(f[n], seq[n + 1]))
      BY <2>1, <2>2, <2>5, OnePlace
    <3>. QED
      BY <2>3, <2>4, <2>5, <3>1
  <2>6. CASE seq[n + 1] \notin set
    <3>1. g[n + 1] = g[n] /\ f[n + 1] = f[n]
      BY <2>3, <2>4, <2>6
    <3>2. \A k \in 1..(n + 1) : k \in 1..n \/ k = n + 1
      OBVIOUS
    <3>3. \A j \in 1..Len(g[n]) : g[n][j] \in Int
      BY <2>2 DEF PlacedUpTo
    <3>. QED
      BY <2>2, <2>6, <3>1, <3>2, <3>3 DEF PlacedUpTo
  <2>. QED
    BY <2>5, <2>6
<1>5. N \in S
  <2>. HIDE DEF S, N
  <2>. QED
    BY <1>0, <1>3, <1>4, SetInduction
<1>6. Places(seq, set) = g[N]
  BY <1>2 DEF Places
<1>. QED
  BY <1>0, <1>1, <1>5, <1>6

\* Selected keeps all elements that are in the set.
LEMMA SelectedRange ==
  ASSUME NEW X, NEW seq \in Seq(X), NEW set
  PROVE  Range(Selected(seq, set)) = Range(seq) \cap set
<1>. DEFINE kept == Selected(seq, set)
            places == Places(seq, set)
<1>1. PlacedUpTo(Len(seq), seq, set, places, kept)
  BY SelectedPlaces
<1>. HIDE DEF kept, places
<1>2. /\ places \in Seq(1..Len(seq)) /\ kept \in Seq(Range(seq)) /\ Len(kept) = Len(places)
      /\ \A j \in 1..Len(places) : seq[places[j]] \in set /\ kept[j] = seq[places[j]]
      /\ \A k \in 1..Len(seq) : seq[k] \in set => \E j \in 1..Len(places) : places[j] = k
  BY <1>1 DEF PlacedUpTo
<1>3. Range(kept) = {kept[j] : j \in 1..Len(places)} /\ Range(seq) = {seq[k] : k \in 1..Len(seq)}
  BY <1>2 DEF Range
<1>4. ASSUME NEW x \in Range(kept) PROVE x \in Range(seq) \cap set
  <2>1. PICK j \in 1..Len(places) : x = kept[j]
    BY <1>3
  <2>2. places[j] \in 1..Len(seq)
    BY <1>2
  <2>. QED
    BY <1>2, <1>3, <2>1, <2>2
<1>5. ASSUME NEW x \in Range(seq), x \in set PROVE x \in Range(kept)
  <2>1. PICK k \in 1..Len(seq) : x = seq[k]
    BY <1>3
  <2>2. PICK j \in 1..Len(places) : places[j] = k
    BY <1>2, <1>5, <2>1
  <2>3. kept[j] = x
    BY <1>2, <2>1, <2>2
  <2>. QED
    BY <1>3, <2>3
<1>. QED
  BY <1>4, <1>5 DEF kept

\* What stands once in a sequence is selected once.
LEMMA SelectedOnce ==
  ASSUME NEW X, NEW seq \in Seq(X), NEW set, \A i, j \in 1..Len(seq) : seq[i] = seq[j] => i = j
  PROVE  LET kept == Selected(seq, set)
         IN  \A i, j \in 1..Len(kept) : kept[i] = kept[j] => i = j
<1>. DEFINE kept == Selected(seq, set)
            places == Places(seq, set)
<1>1. PlacedUpTo(Len(seq), seq, set, places, kept)
  BY SelectedPlaces
<1>. HIDE DEF kept, places
<1>2. /\ places \in Seq(1..Len(seq)) /\ Len(kept) = Len(places)
      /\ \A j \in 1..Len(places) : kept[j] = seq[places[j]]
      /\ \A i, j \in 1..Len(places) : i < j => places[i] < places[j]
  BY <1>1 DEF PlacedUpTo
<1>3. ASSUME NEW i \in 1..Len(places), NEW j \in 1..Len(places), kept[i] = kept[j] PROVE i = j
  <2>1. places[i] \in 1..Len(seq) /\ places[j] \in 1..Len(seq)
    BY <1>2
  <2>2. places[i] = places[j]
    BY <1>2, <1>3, <2>1
  <2>3. ~(i < j) /\ ~(j < i)
    BY <1>2, <2>1, <2>2
  <2>. QED
    BY <2>3
<1>. QED
  BY <1>2, <1>3 DEF kept

-----------------------------------------------------------------------------
(* The sensors *)

\* What is in two sequences is what is in the one they are joined to.
LEMMA RangeOfJoined ==
  ASSUME NEW X, NEW s \in Seq(X), NEW t \in Seq(X)
  PROVE  Range(s \o t) = Range(s) \cup Range(t)
<1>. DEFINE w == s \o t
            m == Len(s)
            n == Len(t)
<1>1. /\ m \in Nat /\ n \in Nat /\ w \in Seq(X) /\ Len(w) = m + n
      /\ \A i \in 1..m : w[i] = s[i]
      /\ \A i \in 1..n : w[m + i] = t[i]
  OBVIOUS
<1>2. Range(w) = {w[i] : i \in 1..(m + n)} /\ Range(s) = {s[i] : i \in 1..m} /\ Range(t) = {t[i] : i \in 1..n}
  BY <1>1 DEF Range
<1>. HIDE DEF w, m, n
<1>3. ASSUME NEW x \in Range(s) \cup Range(t) PROVE x \in Range(w)
  <2>1. ASSUME NEW i \in 1..m PROVE w[i] = s[i] /\ i \in 1..(m + n)
    BY <1>1
  <2>2. ASSUME NEW i \in 1..n PROVE w[m + i] = t[i] /\ m + i \in 1..(m + n)
    BY <1>1
  <2>. QED
    BY <1>2, <2>1, <2>2
<1>4. ASSUME NEW i \in 1..(m + n) PROVE w[i] \in Range(s) \cup Range(t)
  <2>1. CASE i \in 1..m
    BY <1>1, <1>2, <2>1
  <2>2. CASE i \notin 1..m
    <3>1. i - m \in 1..n /\ m + (i - m) = i
      BY <1>1, <2>2
    <3>2. w[i] = t[i - m]
      BY <1>1, <3>1
    <3>. QED
      BY <1>2, <3>1, <3>2
  <2>. QED
    BY <2>1, <2>2
<1>5. Range(w) = Range(s) \cup Range(t)
  BY <1>2, <1>3, <1>4
<1>. QED
  BY <1>5 DEF w

\* The sensors of each class are a list, and so are all.
LEMMA AllSensorsAreListed ==
  /\ PipelineSensors \in Seq(Range(PipelineSensors)) /\ SystemSensors \in Seq(Range(SystemSensors))
  /\ ProcessSensors \in Seq(Range(ProcessSensors))
  /\ AllSensors \in Seq(Sensors)
  /\ Sensors = Range(PipelineSensors) \cup Range(SystemSensors) \cup Range(ProcessSensors)
<1>1. \A c \in {"PIPELINE", "SYSTEM", "PROCESSES"} : GetSensors(c) \in Seq(Range(GetSensors(c)))
  <2>1. Range(AllClasses) = {"PIPELINE", "SYSTEM", "PROCESSES"}
    BY DEF Range, AllClasses
  <2>. QED
    BY <2>1, AnalysisAssumption
<1>2. /\ PipelineSensors \in Seq(Range(PipelineSensors)) /\ SystemSensors \in Seq(Range(SystemSensors))
      /\ ProcessSensors \in Seq(Range(ProcessSensors))
  BY <1>1 DEF GetSensors
<1>. DEFINE X == Range(PipelineSensors) \cup Range(SystemSensors) \cup Range(ProcessSensors)
            front == PipelineSensors \o SystemSensors
<1>3. PipelineSensors \in Seq(X) /\ SystemSensors \in Seq(X) /\ ProcessSensors \in Seq(X)
  BY <1>2 DEF Range
<1>. HIDE DEF X
<1>4. front \in Seq(X) /\ AllSensors = front \o ProcessSensors
  BY <1>3 DEF AllSensors
<1>5. Range(front) = Range(PipelineSensors) \cup Range(SystemSensors)
  BY <1>3, RangeOfJoined
<1>. HIDE DEF front
<1>6. Range(AllSensors) = X /\ AllSensors \in Seq(X)
  <2>1. Range(AllSensors) = Range(front) \cup Range(ProcessSensors)
    BY <1>3, <1>4, RangeOfJoined
  <2>. QED
    BY <1>3, <1>4, <1>5, <2>1 DEF X
<1>. QED
  BY <1>2, <1>6 DEF Sensors, X

\* Every sensor is of a class, and of the classes are sensors only.
LEMMA SensorsOfClasses ==
  /\ \A c \in Range(AllClasses) :
       GetSensors(c) \in Seq(Range(GetSensors(c))) /\ Range(GetSensors(c)) \subseteq Sensors
  /\ \A s \in Sensors : \E c \in Range(AllClasses) : s \in Range(GetSensors(c))
<1>1. Range(AllClasses) = {"PIPELINE", "SYSTEM", "PROCESSES"}
  BY DEF Range, AllClasses
<1>2. /\ GetSensors("PIPELINE") = PipelineSensors /\ GetSensors("SYSTEM") = SystemSensors
      /\ GetSensors("PROCESSES") = ProcessSensors
  BY DEF GetSensors
<1>. QED
  BY <1>1, <1>2, AllSensorsAreListed

\* A set of numbers that is not empty has a least one.
LEMMA MinIs ==
  ASSUME NEW S, S \subseteq Nat, S # {}
  PROVE  Min(S) \in S /\ \A y \in S : Min(S) <= y
<1>1. \E x \in S : \A y \in S : x <= y
  BY Least
<1>. QED
  BY <1>1, Zenon DEF Min

\* A set of numbers with a bound that is not empty has a greatest one.
LEMMA MaxIs ==
  ASSUME NEW S, S # {}, NEW a \in Int, NEW b \in Int, S \subseteq a..b
  PROVE  Max(S) \in S /\ \A y \in S : Max(S) >= y
<1>. DEFINE T == {b - x : x \in S}
<1>1. T \subseteq Nat /\ T # {}
  <2>1. ASSUME NEW x \in S PROVE b - x \in Nat
    <3>1. x \in a..b
      BY <2>1
    <3>. QED
      BY <3>1
  <2>. QED
    BY <2>1
<1>2. PICK m \in T : \A y \in T : m <= y
  BY <1>1, Least
<1>3. PICK x \in S : m = b - x
  BY <1>2
<1>4. ASSUME NEW y \in S PROVE x >= y
  <2>1. x \in a..b /\ y \in a..b
    BY <1>4
  <2>2. m <= b - y
    BY <1>2
  <2>. QED
    BY <1>3, <2>1, <2>2
<1>5. \E z \in S : \A y \in S : z >= y
  BY <1>4
<1>. QED
  BY <1>5, Zenon DEF Max

\* A sequence in which nothing stands twice has as many places as elements.
LEMMA OnceCounted ==
  ASSUME NEW X, NEW seq \in Seq(X), \A i, j \in 1..Len(seq) : seq[i] = seq[j] => i = j
  PROVE  IsFiniteSet(Range(seq)) /\ Cardinality(Range(seq)) = Len(seq)
<1>. DEFINE n == Len(seq)
<1>1. n \in Nat /\ DOMAIN seq = 1..n /\ seq = [i \in 1..n |-> seq[i]]
  OBVIOUS
<1>. HIDE DEF n
<1>2. seq \in Surjection(1..n, Range(seq))
  BY <1>1 DEF Surjection, Range
<1>3. seq \in Injection(1..n, Range(seq))
  BY <1>1, <1>2 DEF Injection, IsInjective, Surjection, n
<1>4. IsFiniteSet(1..n) /\ Cardinality(1..n) = n
  <2>1. 1 \in Int /\ n \in Int /\ (IF 1 > n THEN 0 ELSE n - 1 + 1) = n
    BY <1>1
  <2>. QED
    BY <2>1, FS_Interval
<1>. QED
  BY <1>2, <1>3, <1>4, FS_Surjection DEF n

\* The sensors of a class are in the order of all, and each is one sensor.
LEMMA SensorsOnce ==
  LET live == SystemSensors \o PipelineSensors
  IN  /\ live \in Seq(Sensors)
      /\ Range(live) = Range(SystemSensors) \cup Range(PipelineSensors)
      /\ \A i, j \in 1..Len(live) : live[i] = live[j] => i = j
<1>. DEFINE p == PipelineSensors
            s == SystemSensors
            q == ProcessSensors
            m == Len(p)
            n == Len(s)
            front == p \o s
            live == s \o p
<1>1. p \in Seq(Sensors) /\ s \in Seq(Sensors) /\ q \in Seq(Sensors)
  BY AllSensorsAreListed DEF Range
<1>2. /\ m \in Nat /\ n \in Nat /\ front \in Seq(Sensors) /\ Len(front) = m + n
      /\ \A i \in 1..m : front[i] = p[i]
      /\ \A i \in 1..n : front[m + i] = s[i]
  BY <1>1
<1>3. /\ live \in Seq(Sensors) /\ Len(live) = n + m
      /\ \A i \in 1..n : live[i] = s[i]
      /\ \A i \in 1..m : live[n + i] = p[i]
  BY <1>1
<1>4. Range(live) = Range(s) \cup Range(p)
  BY <1>1, RangeOfJoined
<1>5. AllSensors = front \o q
  BY DEF AllSensors
<1>. HIDE DEF p, s, q, m, n, front, live
<1>6. /\ \A i \in 1..(m + n) : i \in DOMAIN AllSensors /\ AllSensors[i] = front[i]
  BY <1>1, <1>2, <1>5
<1>7. \A i, j \in 1..(m + n) : front[i] = front[j] => i = j
  BY <1>6, AnalysisAssumption
<1>. DEFINE place(i) == IF i <= n THEN m + i ELSE i - n
<1>8. ASSUME NEW i \in 1..(n + m) PROVE place(i) \in 1..(m + n) /\ live[i] = front[place(i)]
  <2>1. CASE i <= n
    <3>1. i \in 1..n /\ place(i) = m + i /\ m + i \in 1..(m + n)
      BY <1>2, <2>1
    <3>. QED
      BY <1>2, <1>3, <3>1
  <2>2. CASE ~(i <= n)
    <3>1. i - n \in 1..m /\ place(i) = i - n /\ n + (i - n) = i /\ i - n \in 1..(m + n)
      BY <1>2, <2>2
    <3>. QED
      BY <1>2, <1>3, <3>1
  <2>. QED
    BY <2>1, <2>2
<1>9. ASSUME NEW i \in 1..(n + m), NEW j \in 1..(n + m), live[i] = live[j] PROVE i = j
  <2>1. place(i) = place(j)
    BY <1>7, <1>8, <1>9
  <2>. QED
    BY <1>2, <2>1
<1>10. \A i, j \in 1..Len(live) : live[i] = live[j] => i = j
  BY <1>3, <1>9
<1>. QED
  BY <1>3, <1>4, <1>10 DEF live, s, p

-----------------------------------------------------------------------------
(* Correlation *)

\* The entries of v are of these samples, in their order.
InStep(v, samples) ==
  /\ {v[i].sample : i \in 1..Len(v)} = samples
  /\ \A i, j \in 1..Len(v) : i < j => v[i].sample < v[j].sample

\* The first m entries are of the first m samples, and the others of later ones.
Untouched(v, m) ==
  /\ m <= Len(v)
  /\ \A i \in 1..m : v[i].sample = i

\* One entry is erased.
LEMMA OneErased ==
  ASSUME NEW X, NEW v \in Seq(X), NEW samples \in SUBSET Int, NEW m \in Nat, m >= 1,
         InStep(v, samples), Untouched(v, m)
  PROVE  /\ RemoveAt(v, m) \in Seq(X)
         /\ InStep(RemoveAt(v, m), samples \ {m})
         /\ Untouched(RemoveAt(v, m), m - 1)
<1>. DEFINE L == Len(v)
            w == RemoveAt(v, m)
<1>1. L \in Nat /\ m <= L /\ m \in 1..L
  BY DEF Untouched
<1>2. /\ w \in Seq(X) /\ Len(w) = L - 1
      /\ \A i \in 1..(L - 1) : w[i] = IF i < m THEN v[i] ELSE v[i + 1]
  <2>. DEFINE a == SubSeq(v, 1, m - 1)
              b == SubSeq(v, m + 1, L)
  <2>1. a \in Seq(X) /\ Len(a) = m - 1 /\ \A i \in 1..(m - 1) : a[i] = v[i]
    BY <1>1
  <2>2. b \in Seq(X) /\ Len(b) = L - m /\ \A i \in 1..(L - m) : b[i] = v[m + i]
    BY <1>1
  <2>3. w = a \o b
    BY DEF RemoveAt
  <2>. HIDE DEF a, b, w, L
  <2>4. w \in Seq(X) /\ Len(w) = L - 1
    BY <1>1, <2>1, <2>2, <2>3
  <2>5. ASSUME NEW i \in 1..(L - 1) PROVE w[i] = IF i < m THEN v[i] ELSE v[i + 1]
    <3>1. CASE i < m
      BY <1>1, <2>1, <2>2, <2>3, <3>1
    <3>2. CASE ~(i < m)
      <4>1. i - (m - 1) \in 1..(L - m) /\ m + (i - (m - 1)) = i + 1 /\ i > m - 1
        BY <1>1, <3>2
      <4>2. w[i] = b[i - (m - 1)]
        BY <1>1, <2>1, <2>2, <2>3, <4>1
      <4>. QED
        BY <2>2, <3>2, <4>1, <4>2
    <3>. QED
      BY <3>1, <3>2
  <2>. QED
    BY <2>4, <2>5
<1>. HIDE DEF w
<1>3. \A i \in 1..L : v[i].sample \in samples /\ v[i].sample \in Int
  BY <1>1 DEF InStep
<1>4. v[m].sample = m /\ \A i \in 1..L : i # m => v[i].sample # m
  <2>1. v[m].sample = m
    BY <1>1 DEF Untouched
  <2>2. ASSUME NEW i \in 1..L, i # m PROVE v[i].sample # m
    <3>1. i < m \/ m < i
      BY <1>1, <2>2
    <3>2. v[i].sample < v[m].sample \/ v[m].sample < v[i].sample
      BY <1>1, <3>1 DEF InStep
    <3>. QED
      BY <1>1, <1>3, <2>1, <3>2
  <2>. QED
    BY <2>1, <2>2
<1>. DEFINE place(i) == IF i < m THEN i ELSE i + 1
<1>5. \A i \in 1..(L - 1) : place(i) \in 1..L /\ place(i) # m /\ w[i].sample = v[place(i)].sample
  BY <1>1, <1>2
<1>6. {w[i].sample : i \in 1..(L - 1)} = samples \ {m}
  <2>1. ASSUME NEW i \in 1..(L - 1) PROVE w[i].sample \in samples \ {m}
    BY <1>3, <1>4, <1>5
  <2>2. ASSUME NEW s \in samples, s # m PROVE \E i \in 1..(L - 1) : w[i].sample = s
    <3>1. PICK j \in 1..L : v[j].sample = s
      BY DEF InStep
    <3>2. j # m
      BY <1>4, <2>2, <3>1
    <3>3. CASE j < m
      <4>1. j \in 1..(L - 1)
        BY <1>1, <3>3
      <4>. QED
        BY <1>2, <3>1, <3>3, <4>1
    <3>4. CASE j > m
      <4>1. j - 1 \in 1..(L - 1) /\ ~(j - 1 < m) /\ (j - 1) + 1 = j
        BY <1>1, <3>4
      <4>. QED
        BY <1>2, <3>1, <4>1
    <3>. QED
      BY <1>1, <3>2, <3>3, <3>4
  <2>. QED
    BY <2>1, <2>2
<1>7. ASSUME NEW i \in 1..(L - 1), NEW j \in 1..(L - 1), i < j PROVE w[i].sample < w[j].sample
  <2>1. place(i) < place(j)
    BY <1>1, <1>7
  <2>. QED
    BY <1>5, <2>1 DEF InStep
<1>8. Untouched(w, m - 1)
  <2>1. \A i \in 1..(m - 1) : i \in 1..(L - 1) /\ i < m /\ i \in 1..m
    BY <1>1
  <2>. QED
    BY <1>1, <1>2, <2>1 DEF Untouched
<1>. QED
  BY <1>2, <1>6, <1>7, <1>8 DEF InStep, w

\* Of a vector with an entry for each sample all are kept but those erased.
LEMMA Removal ==
  ASSUME NEW X, NEW vec \in Seq(X), NEW indexes,
         \A i \in 1..Len(vec) : vec[i].sample = i
  PROVE  LET v == RemoveIndexes(vec, indexes)
         IN  v \in Seq(X) /\ InStep(v, (1..Len(vec)) \ indexes)
<1>. DEFINE N == Len(vec)
<1>0. N \in Nat
  OBVIOUS
<1>1. PICK f : /\ f = [i \in 0..N |-> IF i = 0 THEN vec
                                      ELSE (IF N - i + 1 \in indexes
                                            THEN RemoveAt(f[i - 1], N - i + 1) ELSE f[i - 1])]
               /\ RemoveIndexes(vec, indexes) = f[N]
  BY <1>0, RemovalIsDefined, Zenon
<1>. DEFINE Left(n) == {i \in 1..N : i <= N - n \/ i \notin indexes}
            P(n) == f[n] \in Seq(X) /\ InStep(f[n], Left(n)) /\ Untouched(f[n], N - n)
            S == {n \in Nat : n <= N => P(n)}
<1>2. 0 \in S
  <2>1. f[0] = vec
    BY <1>0, <1>1
  <2>2. Left(0) = 1..N /\ N - 0 = N
    BY <1>0
  <2>3. InStep(vec, 1..N) /\ Untouched(vec, N)
    BY <1>0 DEF InStep, Untouched
  <2>. HIDE DEF N, Left
  <2>. QED
    BY <2>1, <2>2, <2>3
<1>3. ASSUME NEW n \in Nat, n \in S PROVE n + 1 \in S
  <2>. HIDE DEF P, N
  <2>. SUFFICES ASSUME n + 1 <= N PROVE P(n + 1)
    OBVIOUS
  <2>0. P(n)
    BY <1>0, <1>3
  <2>. USE DEF P, N
  <2>. DEFINE m == N - n
  <2>1. /\ n + 1 \in 0..N /\ n + 1 # 0 /\ (n + 1) - 1 = n /\ m \in Nat /\ m >= 1
        /\ N - (n + 1) + 1 = m /\ N - (n + 1) = m - 1
    BY <1>0
  <2>2. f[n + 1] = IF m \in indexes THEN RemoveAt(f[n], m) ELSE f[n]
    BY <1>1, <2>1
  <2>3. P(n)
    BY <2>0
  <2>4. Left(n) \in SUBSET Int
    OBVIOUS
  <2>5. CASE m \in indexes
    <3>1. Left(n + 1) = Left(n) \ {m}
      BY <1>0, <2>1, <2>5
    <3>2. /\ RemoveAt(f[n], m) \in Seq(X)
          /\ InStep(RemoveAt(f[n], m), Left(n) \ {m})
          /\ Untouched(RemoveAt(f[n], m), m - 1)
      <4>. HIDE DEF Left, m
      <4>. QED
        BY <2>1, <2>3, <2>4, OneErased DEF m
    <3>. HIDE DEF Left, m
    <3>. QED
      BY <2>1, <2>2, <2>5, <3>1, <3>2
  <2>6. CASE m \notin indexes
    <3>1. Left(n + 1) = Left(n)
      BY <1>0, <2>1, <2>6
    <3>2. Untouched(f[n], m - 1)
      BY <2>1, <2>3 DEF Untouched
    <3>. HIDE DEF Left, m
    <3>. QED
      BY <2>1, <2>2, <2>3, <2>6, <3>1, <3>2
  <2>. QED
    BY <2>5, <2>6
<1>4. N \in S
  <2>. HIDE DEF S, N
  <2>. QED
    BY <1>0, <1>2, <1>3, SetInduction
<1>5. Left(N) = (1..N) \ indexes
  BY <1>0
<1>6. P(N)
  <2>. HIDE DEF P, N
  <2>. QED
    BY <1>0, <1>4
<1>. HIDE DEF Left
<1>. QED
  BY <1>1, <1>5, <1>6

\* An entry for each sample, measured if the sample counts.
LEMMA EqualSized ==
  ASSUME NEW s, Len(data) \in Nat, DOMAIN data = 1..Len(data)
  PROVE  LET v == CreateEqualSizedVector(s)
         IN  /\ v \in Seq(Range(v)) /\ Len(v) = Len(data)
             /\ \A k \in 1..Len(data) : v[k].sample = k /\ (v[k].isMeasured <=> Counts(s, k))
<1>. DEFINE v == CreateEqualSizedVector(s)
            pretest(k) == config_.settings.enablePretestZeroes /\ k < Delay(s)
<1>1. /\ v = [k \in 1..Len(data) |-> v[k]]
      /\ \A k \in 1..Len(data) :
           \/ data[k][s] # NotMeasured /\ v[k] = [isMeasured |-> TRUE, value |-> data[k][s], sample |-> k]
           \/ data[k][s] = NotMeasured /\ pretest(k) /\ v[k] = [isMeasured |-> TRUE, value |-> 0, sample |-> k]
           \/ data[k][s] = NotMeasured /\ ~pretest(k) /\ v[k] = [Unmeasured EXCEPT !.sample = k]
  BY DEF CreateEqualSizedVector
<1>2. Len(v) = Len(data) /\ v \in Seq(Range(v))
  <2>. HIDE DEF v
  <2>. QED
    BY <1>1 DEF Range
<1>3. \A k \in 1..Len(data) : v[k].sample = k /\ (v[k].isMeasured <=> data[k][s] # NotMeasured \/ pretest(k))
  <2>. HIDE DEF v, pretest
  <2>. QED
    BY <1>1 DEF Unmeasured
<1>. QED
  BY <1>2, <1>3 DEF Counts

\* Both vectors of a pair of sensors are in step.
LEMMA PairInStep ==
  ASSUME NEW p, NEW r, Len(data) \in Nat, DOMAIN data = 1..Len(data)
  PROVE  LET common == {k \in 1..Len(data) : Counts(p, k) /\ Counts(r, k)}
         IN  \A v \in {Pair(p, r)[1], Pair(p, r)[2]} :
               \E X : v \in Seq(X) /\ InStep(v, common)
<1>. DEFINE u == CreateEqualSizedVector(r)
            v == CreateEqualSizedVector(p)
            indexes == GetRemoveIndexes(u) \cup GetRemoveIndexes(v)
            common == {k \in 1..Len(data) : Counts(p, k) /\ Counts(r, k)}
<1>1. /\ u \in Seq(Range(u)) /\ Len(u) = Len(data)
      /\ \A k \in 1..Len(data) : u[k].sample = k /\ (u[k].isMeasured <=> Counts(r, k))
  BY EqualSized
<1>2. /\ v \in Seq(Range(v)) /\ Len(v) = Len(data)
      /\ \A k \in 1..Len(data) : v[k].sample = k /\ (v[k].isMeasured <=> Counts(p, k))
  BY EqualSized
<1>3. Pair(p, r)[1] = RemoveIndexes(u, indexes) /\ Pair(p, r)[2] = RemoveIndexes(v, indexes)
  BY DEF Pair, RemoveNotMeasured
<1>. HIDE DEF u, v
<1>4. (1..Len(data)) \ indexes = common
  <2>1. DOMAIN u = 1..Len(data) /\ DOMAIN v = 1..Len(data)
    BY <1>1, <1>2
  <2>. QED
    BY <1>1, <1>2, <2>1 DEF GetRemoveIndexes
<1>. HIDE DEF indexes
<1>5. RemoveIndexes(u, indexes) \in Seq(Range(u)) /\ InStep(RemoveIndexes(u, indexes), (1..Len(u)) \ indexes)
  BY <1>1, Removal
<1>6. RemoveIndexes(v, indexes) \in Seq(Range(v)) /\ InStep(RemoveIndexes(v, indexes), (1..Len(v)) \ indexes)
  BY <1>2, Removal
<1>. QED
  BY <1>1, <1>2, <1>3, <1>4, <1>5, <1>6

-----------------------------------------------------------------------------
(* Thresholds *)

Exceeds(s, t) == s \in FindSensor(t.processId, t.name) /\ HandleThreshold(s, t)

\* The sensor found belongs to a process.
LEMMA FoundInProcess ==
  ASSUME NEW processId, NEW name, NEW s \in FindSensor(processId, name)
  PROVE  s \in Sensors /\ processId \in GetProcesses
<1>1. PICK i \in DOMAIN AllSensors : s = AllSensors[i] /\ ProcessId[s] = processId
  BY DEF FindSensor
<1>2. s \in Sensors
  BY <1>1 DEF Sensors, Range
<1>. QED
  BY <1>1, <1>2 DEF GetProcesses

\* What is computed of the samples stays the same as long as they do.
LEMMA SameSensorData ==
  ASSUME data' = data, config_' = config_, NEW s
  PROVE  GetSensorData(s)' = GetSensorData(s)
<1>1. GetDatapoints(s)' = GetDatapoints(s)
  BY DEF GetDatapoints
<1>2. \A v : SteadyState(s, v)' = SteadyState(s, v)
  BY DEF SteadyState, UseSteadyState, GetProcess
<1>3. \A v : GetMin(s, v)' = GetMin(s, v) /\ GetMax(s, v)' = GetMax(s, v)
  BY <1>2 DEF GetMin, GetMax
<1>. QED
  BY <1>1, <1>3 DEF GetSensorData

\* So does which thresholds are exceeded.
LEMMA SameResults ==
  ASSUME data' = data, config_' = config_, NEW s, NEW t
  PROVE  Exceeds(s, t)' <=> Exceeds(s, t)
<1>1. GetSensorData(s)' = GetSensorData(s)
  BY SameSensorData
<1>. QED
  BY <1>1 DEF Exceeds, HandleThreshold

\* After the thresholds of a process a sensor is marked if it was before or exceeds one.
LEMMA ThresholdsGive ==
  ASSUME thresholdExceeded \in [Sensors -> BOOLEAN], NEW id,
         config_.thresholds \in Seq(Range(config_.thresholds))
  PROVE  /\ ThresholdsApplied(id) \in [Sensors -> BOOLEAN]
         /\ \A s \in Sensors :
              ThresholdsApplied(id)[s] <=>
                thresholdExceeded[s] \/ \E t \in Range(config_.thresholds) : t.processId = id /\ Exceeds(s, t)
<1>. DEFINE ts == config_.thresholds
            N == Len(ts)
<1>0. N \in Nat /\ DOMAIN ts = 1..N
  OBVIOUS
<1>1. PICK f : /\ f = [i \in 0..N |-> IF i = 0 THEN thresholdExceeded
                                      ELSE (IF ts[i].processId = id THEN ApplyThreshold(f[i - 1], ts[i])
                                            ELSE f[i - 1])]
               /\ ThresholdsApplied(id) = f[N]
  BY <1>0, ThresholdsAreDefined, Zenon
<1>. DEFINE Hit(s, i) == ts[i].processId = id /\ Exceeds(s, ts[i])
            P(n) == /\ f[n] \in [Sensors -> BOOLEAN]
                    /\ \A s \in Sensors : f[n][s] <=> thresholdExceeded[s] \/ \E i \in 1..n : Hit(s, i)
            S == {n \in Nat : n <= N => P(n)}
<1>2. P(0)
  <2>1. f[0] = thresholdExceeded
    BY <1>0, <1>1
  <2>2. \A i \in 1..0 : FALSE
    OBVIOUS
  <2>. HIDE DEF Hit
  <2>. QED
    BY <2>1, <2>2
<1>3. ASSUME NEW n \in Nat, n + 1 <= N, P(n) PROVE P(n + 1)
  <2>1. n + 1 \in 0..N /\ n + 1 # 0 /\ (n + 1) - 1 = n
    BY <1>0, <1>3
  <2>2. f[n + 1] = IF ts[n + 1].processId = id THEN ApplyThreshold(f[n], ts[n + 1]) ELSE f[n]
    BY <1>1, <2>1
  <2>3. 1..(n + 1) = (1..n) \cup {n + 1}
    OBVIOUS
  <2>4. CASE ts[n + 1].processId = id
    <3>1. f[n + 1] = [s \in Sensors |-> f[n][s] \/ Exceeds(s, ts[n + 1])]
      BY <2>2, <2>4 DEF ApplyThreshold, Exceeds
    <3>2. \A s \in Sensors : Hit(s, n + 1) <=> Exceeds(s, ts[n + 1])
      BY <2>4
    <3>. HIDE DEF Hit
    <3>3. f[n + 1] \in [Sensors -> BOOLEAN]
      BY <1>3, <3>1
    <3>4. ASSUME NEW s \in Sensors
          PROVE  f[n + 1][s] <=> thresholdExceeded[s] \/ \E i \in 1..(n + 1) : Hit(s, i)
      BY <1>3, <2>3, <3>1, <3>2
    <3>. QED
      BY <3>3, <3>4
  <2>5. CASE ts[n + 1].processId # id
    <3>1. \A s \in Sensors : ~Hit(s, n + 1)
      BY <2>5
    <3>. HIDE DEF Hit
    <3>. QED
      BY <1>3, <2>2, <2>3, <2>5, <3>1
  <2>. QED
    BY <2>4, <2>5
<1>. HIDE DEF P
<1>4. N \in S
  <2>1. \A n \in Nat : n \in S => n + 1 \in S
    BY <1>0, <1>3
  <2>2. 0 \in S
    BY <1>2
  <2>. HIDE DEF S, N
  <2>. QED
    BY <1>0, <2>1, <2>2, SetInduction
<1>5. P(N)
  BY <1>0, <1>4
<1>6. ASSUME NEW s \in Sensors
      PROVE  (\E i \in 1..N : Hit(s, i)) <=> \E t \in Range(ts) : t.processId = id /\ Exceeds(s, t)
  BY <1>0 DEF Range
<1>7. /\ f[N] \in [Sensors -> BOOLEAN]
      /\ \A s \in Sensors : f[N][s] <=> thresholdExceeded[s] \/ \E i \in 1..N : Hit(s, i)
  <2>. HIDE DEF Hit, N
  <2>. QED
    BY <1>5 DEF P
<1>8. ThresholdsApplied(id) = f[N]
  BY <1>1
<1>. HIDE DEF Hit, N
<1>. QED
  BY <1>6, <1>7, <1>8

-----------------------------------------------------------------------------
(* Sums *)

\* The sums of the first entries of v, one after the other.
Partial(v) == CHOOSE f : /\ f = [i \in 0..Len(v) |-> IF i = 0 THEN 0 ELSE f[i - 1] + v[i]]
                         /\ Sum(v) = f[Len(v)]

\* Each is the one before and one entry more, and the last is the sum.
LEMMA PartialSums ==
  ASSUME NEW v \in Seq(Int)
  PROVE  /\ Partial(v)[0] = 0
         /\ \A n \in 0..Len(v) : Partial(v)[n] \in Int
         /\ \A n \in Nat : n + 1 <= Len(v) => Partial(v)[n + 1] = Partial(v)[n] + v[n + 1]
         /\ Sum(v) = Partial(v)[Len(v)] /\ Sum(v) \in Int
<1>. DEFINE N == Len(v)
            f == Partial(v)
<1>0. N \in Nat /\ \A i \in 1..N : v[i] \in Int
  OBVIOUS
<1>1. /\ f = [i \in 0..N |-> IF i = 0 THEN 0 ELSE f[i - 1] + v[i]]
      /\ Sum(v) = f[N]
  <2>1. \E g : /\ g = [i \in 0..Len(v) |-> IF i = 0 THEN 0 ELSE g[i - 1] + v[i]]
               /\ Sum(v) = g[Len(v)]
    BY <1>0, SumIsDefined
  <2>. QED
    BY <2>1, Zenon DEF Partial
<1>. HIDE DEF f, N
<1>2. f[0] = 0
  BY <1>0, <1>1
<1>3. ASSUME NEW n \in Nat, n + 1 <= N PROVE f[n + 1] = f[n] + v[n + 1]
  <2>1. n + 1 \in 0..N /\ n + 1 # 0 /\ (n + 1) - 1 = n
    BY <1>0, <1>3
  <2>. QED
    BY <1>1, <2>1
<1>. DEFINE S == {n \in Nat : n <= N => f[n] \in Int}
<1>4. 0 \in S
  BY <1>2
<1>5. ASSUME NEW n \in Nat, n \in S PROVE n + 1 \in S
  <2>. SUFFICES ASSUME n + 1 <= N PROVE f[n + 1] \in Int
    OBVIOUS
  <2>1. f[n] \in Int /\ v[n + 1] \in Int
    BY <1>0, <1>5
  <2>. QED
    BY <1>3, <2>1
<1>6. \A n \in Nat : n \in S
  <2>. HIDE DEF S
  <2>. QED
    BY <1>4, <1>5, SetInduction
<1>7. \A n \in 0..N : f[n] \in Int
  BY <1>0, <1>6
<1>. QED
  BY <1>0, <1>1, <1>2, <1>3, <1>7 DEF N, f

Linear(a, p, b, q, c, r) == a * p + b * q + c * r

\* w is a times x, b times y and c times z together.
Combines(w, a, x, b, y, c, z) ==
  /\ x \in Seq(Int) /\ y \in Seq(Int) /\ z \in Seq(Int) /\ w \in Seq(Int)
  /\ a \in Int /\ b \in Int /\ c \in Int
  /\ Len(x) = Len(w) /\ Len(y) = Len(w) /\ Len(z) = Len(w)
  /\ \A i \in 1..Len(w) : w[i] = a * x[i] + b * y[i] + c * z[i]

\* Sums are linear.
LEMMA SumCombined ==
  ASSUME NEW w, NEW a, NEW x, NEW b, NEW y, NEW c, NEW z, Combines(w, a, x, b, y, c, z)
  PROVE  Sum(w) = Linear(a, Sum(x), b, Sum(y), c, Sum(z))
<1>. USE DEF Combines, Linear
<1>. DEFINE N == Len(w)
            X == Partial(x)
            Y == Partial(y)
            Z == Partial(z)
            W == Partial(w)
            S == {n \in Nat : n <= N => W[n] = a * X[n] + b * Y[n] + c * Z[n]}
<1>0. N \in Nat /\ \A i \in 1..N : x[i] \in Int /\ y[i] \in Int /\ z[i] \in Int /\ w[i] \in Int
  OBVIOUS
<1>1. /\ X[0] = 0 /\ \A n \in 0..N : X[n] \in Int
      /\ \A n \in Nat : n + 1 <= N => X[n + 1] = X[n] + x[n + 1]
      /\ Sum(x) = X[N]
  BY PartialSums
<1>2. /\ Y[0] = 0 /\ \A n \in 0..N : Y[n] \in Int
      /\ \A n \in Nat : n + 1 <= N => Y[n + 1] = Y[n] + y[n + 1]
      /\ Sum(y) = Y[N]
  BY PartialSums
<1>3. /\ Z[0] = 0 /\ \A n \in 0..N : Z[n] \in Int
      /\ \A n \in Nat : n + 1 <= N => Z[n + 1] = Z[n] + z[n + 1]
      /\ Sum(z) = Z[N]
  BY PartialSums
<1>4. /\ W[0] = 0 /\ \A n \in 0..N : W[n] \in Int
      /\ \A n \in Nat : n + 1 <= N => W[n + 1] = W[n] + w[n + 1]
      /\ Sum(w) = W[N]
  BY PartialSums
<1>. HIDE DEF X, Y, Z, W
<1>5. 0 \in S
  BY <1>0, <1>1, <1>2, <1>3, <1>4
<1>6. ASSUME NEW n \in Nat, n \in S PROVE n + 1 \in S
  <2>. SUFFICES ASSUME n + 1 <= N PROVE W[n + 1] = a * X[n + 1] + b * Y[n + 1] + c * Z[n + 1]
    OBVIOUS
  <2>1. n \in 0..N /\ n + 1 \in 1..N /\ W[n] = a * X[n] + b * Y[n] + c * Z[n]
    BY <1>0, <1>6
  <2>2. w[n + 1] = a * x[n + 1] + b * y[n + 1] + c * z[n + 1]
    BY <2>1
  <2>3. /\ X[n] \in Int /\ Y[n] \in Int /\ Z[n] \in Int
        /\ x[n + 1] \in Int /\ y[n + 1] \in Int /\ z[n + 1] \in Int
        /\ X[n + 1] = X[n] + x[n + 1] /\ Y[n + 1] = Y[n] + y[n + 1] /\ Z[n + 1] = Z[n] + z[n + 1]
        /\ W[n + 1] = W[n] + w[n + 1]
    BY <1>0, <1>1, <1>2, <1>3, <1>4, <2>1
  <2>. DEFINE p == X[n] q == Y[n] r == Z[n] p1 == x[n + 1] q1 == y[n + 1] r1 == z[n + 1]
  <2>4. /\ p \in Int /\ q \in Int /\ r \in Int /\ p1 \in Int /\ q1 \in Int /\ r1 \in Int
        /\ W[n + 1] = (a * p + b * q + c * r) + (a * p1 + b * q1 + c * r1)
        /\ X[n + 1] = p + p1 /\ Y[n + 1] = q + q1 /\ Z[n + 1] = r + r1
    BY <2>1, <2>2, <2>3
  <2>. HIDE DEF p, q, r, p1, q1, r1
  <2>5. (a * p + b * q + c * r) + (a * p1 + b * q1 + c * r1) = a * (p + p1) + b * (q + q1) + c * (r + r1)
    BY <2>4
  <2>. QED
    BY <2>4, <2>5, Zenon
<1>7. N \in S
  <2>. HIDE DEF S, N
  <2>. QED
    BY <1>0, <1>5, <1>6, SetInduction
<1>. QED
  BY <1>1, <1>2, <1>3, <1>4, <1>7

\* A sum of squares is not negative, and positive unless all are zero.
LEMMA SumOfSquares ==
  ASSUME NEW z \in Seq(Int), NEW w \in Seq(Int), Len(w) = Len(z), \A i \in 1..Len(z) : w[i] = z[i] * z[i]
  PROVE  /\ Sum(w) >= 0
         /\ (\E i \in 1..Len(z) : z[i] # 0) => Sum(w) > 0
<1>. DEFINE N == Len(z)
            W == Partial(w)
            P(n) == W[n] >= 0 /\ ((\E i \in 1..n : z[i] # 0) => W[n] > 0)
            S == {n \in Nat : n <= N => P(n)}
<1>1. /\ N \in Nat /\ \A i \in 1..N : z[i] \in Int /\ w[i] \in Int
      /\ W[0] = 0 /\ \A n \in 0..N : W[n] \in Int
      /\ \A n \in Nat : n + 1 <= N => W[n + 1] = W[n] + w[n + 1]
      /\ Sum(w) = W[N]
  BY PartialSums
<1>. HIDE DEF W
<1>2. 0 \in S
  BY <1>1
<1>3. ASSUME NEW n \in Nat, n \in S PROVE n + 1 \in S
  <2>. SUFFICES ASSUME n + 1 <= N PROVE P(n + 1)
    OBVIOUS
  <2>1. n \in 0..N /\ n + 1 \in 1..N /\ P(n)
    BY <1>1, <1>3
  <2>2. w[n + 1] >= 0 /\ (z[n + 1] # 0 => w[n + 1] > 0)
    <3>1. \A k \in Int : k * k >= 0 /\ (k # 0 => k * k > 0)
      OBVIOUS
    <3>2. w[n + 1] = z[n + 1] * z[n + 1]
      BY <2>1
    <3>. QED
      BY <1>1, <2>1, <3>1, <3>2
  <2>3. 1..(n + 1) = (1..n) \cup {n + 1}
    OBVIOUS
  <2>. QED
    BY <1>1, <2>1, <2>2, <2>3
<1>4. N \in S
  <2>. HIDE DEF S, N
  <2>. QED
    BY <1>1, <1>2, <1>3, SetInduction
<1>. QED
  BY <1>1, <1>4

\* As many ones as they are.
LEMMA SumOfOnes ==
  ASSUME NEW n \in Nat
  PROVE  [i \in 1..n |-> 1] \in Seq(Int) /\ Len([i \in 1..n |-> 1]) = n /\ Sum([i \in 1..n |-> 1]) = n
<1>. DEFINE v == [i \in 1..n |-> 1]
            W == Partial(v)
            S == {k \in Nat : k <= n => W[k] = k}
<1>0. v \in Seq(Int) /\ Len(v) = n /\ \A i \in 1..n : v[i] = 1
  OBVIOUS
<1>. HIDE DEF v
<1>1. /\ W[0] = 0 /\ \A k \in Nat : k + 1 <= n => W[k + 1] = W[k] + v[k + 1]
      /\ Sum(v) = W[n]
  BY <1>0, PartialSums
<1>. HIDE DEF W
<1>2. 0 \in S
  BY <1>1
<1>3. ASSUME NEW k \in Nat, k \in S PROVE k + 1 \in S
  BY <1>0, <1>1, <1>3
<1>4. n \in S
  <2>. HIDE DEF S
  <2>. QED
    BY <1>2, <1>3, SetInduction
<1>5. Sum(v) = n
  BY <1>1, <1>4
<1>. QED
  BY <1>0, <1>5 DEF v

-----------------------------------------------------------------------------
(* The coefficient of a correlation *)

\* The products of two vectors.
LEMMA ProductsType ==
  ASSUME NEW u \in Seq(Int), NEW v \in Seq(Int), Len(u) = Len(v)
  PROVE  /\ Products(u, v) \in Seq(Int) /\ Len(Products(u, v)) = Len(u)
         /\ \A i \in 1..Len(u) : Products(u, v)[i] = u[i] * v[i]
<1>. DEFINE N == Len(u)
            w == [i \in 1..N |-> u[i] * v[i]]
<1>1. Products(u, v) = w
  BY DEF Products
<1>2. \A i \in 1..N : u[i] \in Int /\ v[i] \in Int
  OBVIOUS
<1>3. \A i \in 1..N : u[i] * v[i] \in Int
  <2>1. \A p, q \in Int : p * q \in Int
    OBVIOUS
  <2>. QED
    BY <1>2, <2>1
<1>4. N \in Nat
  OBVIOUS
<1>5. w \in Seq(Int) /\ Len(w) = N /\ \A i \in 1..N : w[i] = u[i] * v[i]
  <2>. HIDE DEF N
  <2>. QED
    BY <1>3, <1>4
<1>. QED
  BY <1>1, <1>5

\* The spread of a vector is not negative, and positive if it varies.
LEMMA SpreadOfOne ==
  ASSUME NEW w \in Seq(Int)
  PROVE  /\ Spread(w, w) \in Int /\ Spread(w, w) >= 0
         /\ (\E i, j \in 1..Len(w) : w[i] # w[j]) => Spread(w, w) > 0
<1>. DEFINE N == Len(w)
            s == Sum(w)
            p == Products(w, w)
            q == Sum(p)
            ones == [i \in 1..N |-> 1]
            z == [i \in 1..N |-> N * w[i] - s]
            zz == [i \in 1..N |-> z[i] * z[i]]
<1>1. N \in Nat /\ \A i \in 1..N : w[i] \in Int
  OBVIOUS
<1>2. p \in Seq(Int) /\ Len(p) = N /\ \A i \in 1..N : p[i] = w[i] * w[i]
  BY ProductsType
<1>3. s \in Int /\ q \in Int
  BY <1>2, PartialSums
<1>4. ones \in Seq(Int) /\ Len(ones) = N /\ Sum(ones) = N /\ \A i \in 1..N : ones[i] = 1
  BY <1>1, SumOfOnes
<1>5. Spread(w, w) = N * q - s * s
  BY DEF Spread
<1>. HIDE DEF s, q, p, ones, N
<1>6. \A i \in 1..N : z[i] \in Int /\ z[i] = N * w[i] - s
  <2>1. \A i \in 1..N : N * w[i] \in Int
    <3>1. \A a, b \in Int : a * b \in Int
      OBVIOUS
    <3>. QED
      BY <1>1, <3>1
  <2>. QED
    BY <1>1, <1>3, <2>1
<1>7. z \in Seq(Int) /\ Len(z) = N
  BY <1>1, <1>6
<1>. HIDE DEF z
<1>8. \A i \in 1..N : zz[i] = z[i] * z[i] /\ zz[i] \in Int
  <2>1. \A a \in Int : a * a \in Int
    OBVIOUS
  <2>. QED
    BY <1>6, <2>1
<1>9. zz \in Seq(Int) /\ Len(zz) = N
  BY <1>1, <1>8
<1>. HIDE DEF zz
<1>10. Sum(zz) >= 0 /\ ((\E i \in 1..N : z[i] # 0) => Sum(zz) > 0)
  BY <1>7, <1>8, <1>9, SumOfSquares
<1>11. Sum(zz) = (N * N) * q + (-2 * N * s) * s + (s * s) * N
  <2>1. (N * N) \in Int /\ (-2 * N * s) \in Int /\ (s * s) \in Int
    BY <1>1, <1>3
  <2>2. ASSUME NEW i \in 1..N
        PROVE  zz[i] = (N * N) * p[i] + (-2 * N * s) * w[i] + (s * s) * ones[i]
    <3>. DEFINE x == w[i]
    <3>1. x \in Int /\ zz[i] = (N * x - s) * (N * x - s) /\ p[i] = x * x /\ ones[i] = 1
      BY <1>1, <1>2, <1>4, <1>6, <1>8
    <3>. HIDE DEF x
    <3>2. (N * x - s) * (N * x - s) = (N * N) * (x * x) + (-2 * N * s) * x + (s * s) * 1
      BY <1>1, <1>3, <3>1
    <3>. QED
      BY <3>1, <3>2 DEF x
  <2>3. Sum(zz) = (N * N) * Sum(p) + (-2 * N * s) * Sum(w) + (s * s) * Sum(ones)
    <3>. DEFINE a == N * N b == -2 * N * s c == s * s
    <3>1. a \in Int /\ b \in Int /\ c \in Int /\ \A i \in 1..N : zz[i] = a * p[i] + b * w[i] + c * ones[i]
      BY <2>1, <2>2
    <3>. HIDE DEF a, b, c
    <3>2. /\ w \in Seq(Int) /\ Len(p) = Len(zz) /\ Len(w) = Len(zz) /\ Len(ones) = Len(zz)
          /\ \A i \in 1..Len(zz) : zz[i] = a * p[i] + b * w[i] + c * ones[i]
      BY <1>2, <1>4, <1>9, <3>1 DEF N
    <3>3. Combines(zz, a, p, b, w, c, ones)
      BY <1>2, <1>4, <1>9, <3>1, <3>2, Zenon DEF Combines
    <3>4. Sum(zz) = Linear(a, Sum(p), b, Sum(w), c, Sum(ones))
      BY <3>3, SumCombined
    <3>. QED
      BY <3>4 DEF Linear, a, b, c
  <2>. QED
    BY <1>4, <2>3 DEF q, s
<1>12. Sum(zz) = N * (N * q - s * s)
  BY <1>1, <1>3, <1>11
<1>. DEFINE r == N * q - s * s
<1>13. r \in Int
  BY <1>1, <1>3
<1>. HIDE DEF r
<1>14. CASE N = 0
  <2>1. s = 0
    <3>1. Len(w) = 0
      BY <1>14 DEF N
    <3>. QED
      BY <3>1, PartialSums DEF s
  <2>2. r = 0
    BY <1>3, <1>14, <2>1 DEF r
  <2>3. ~\E i, j \in 1..Len(w) : w[i] # w[j]
    BY <1>14 DEF N
  <2>. QED
    BY <1>5, <2>2, <2>3 DEF r
<1>15. CASE N > 0
  <2>1. Sum(zz) = N * r
    BY <1>12 DEF r
  <2>2. r >= 0
    BY <1>1, <1>10, <1>13, <1>15, <2>1
  <2>3. ASSUME \E i, j \in 1..N : w[i] # w[j] PROVE r > 0
    <3>1. PICK i \in 1..N : z[i] # 0
      <4>1. PICK i \in 1..N, j \in 1..N : w[i] # w[j]
        BY <2>3
      <4>. DEFINE x == w[i] y == w[j]
      <4>2. x \in Int /\ y \in Int /\ x # y /\ z[i] = N * x - s /\ z[j] = N * y - s
        BY <1>1, <1>6, <4>1
      <4>. HIDE DEF x, y
      <4>3. N * x # N * y
        <5>1. N * (x - y) # 0
          BY <1>1, <1>15, <4>2
        <5>. QED
          BY <1>1, <4>2, <5>1
      <4>4. N * x \in Int /\ N * y \in Int
        BY <1>1, <4>2
      <4>5. z[i] # 0 \/ z[j] # 0
        BY <1>3, <4>2, <4>3, <4>4
      <4>. QED
        BY <4>5
    <3>2. Sum(zz) > 0
      BY <1>10, <3>1
    <3>. QED
      BY <1>1, <1>13, <1>15, <2>1, <3>2
  <2>. QED
    BY <1>5, <1>13, <2>2, <2>3 DEF r, N
<1>. QED
  BY <1>1, <1>14, <1>15

\* Two sensors share no more spread than they have.
LEMMA Cauchy ==
  ASSUME NEW u \in Seq(Int), NEW v \in Seq(Int), Len(u) = Len(v), Spread(v, v) > 0
  PROVE  Spread(u, v) * Spread(u, v) <= Spread(u, u) * Spread(v, v)
<1>. DEFINE N == Len(u)
            x == Sum(u)
            y == Sum(v)
            uu == Products(u, u)
            uv == Products(u, v)
            vv == Products(v, v)
            k == Sum(uu)
            l == Sum(uv)
            m == Sum(vv)
            A == N * k - x * x
            B == N * m - y * y
            C == N * l - x * y
            w == [i \in 1..N |-> B * u[i] + (-C) * v[i]]
            ww == Products(w, w)
<1>1. N \in Nat /\ \A i \in 1..N : u[i] \in Int /\ v[i] \in Int
  OBVIOUS
<1>2. /\ uu \in Seq(Int) /\ Len(uu) = N /\ \A i \in 1..N : uu[i] = u[i] * u[i]
  BY ProductsType
<1>3. /\ uv \in Seq(Int) /\ Len(uv) = N /\ \A i \in 1..N : uv[i] = u[i] * v[i]
  BY ProductsType
<1>4. /\ vv \in Seq(Int) /\ Len(vv) = N /\ \A i \in 1..N : vv[i] = v[i] * v[i]
  BY ProductsType
<1>5. x \in Int /\ y \in Int /\ k \in Int /\ l \in Int /\ m \in Int
  BY <1>2, <1>3, <1>4, PartialSums
<1>6. Spread(u, u) = A /\ Spread(v, v) = B /\ Spread(u, v) = C
  BY DEF Spread
<1>7. Len(v) = N
  OBVIOUS
<1>. HIDE DEF N, x, y, uu, uv, vv, k, l, m
<1>8. A \in Int /\ B \in Int /\ C \in Int /\ -C \in Int
  BY <1>1, <1>5
<1>. HIDE DEF A, B, C
<1>9. \A i \in 1..N : w[i] = B * u[i] + (-C) * v[i] /\ w[i] \in Int
  <2>1. \A p, q, r, t \in Int : p * q + r * t \in Int
    OBVIOUS
  <2>. QED
    BY <1>1, <1>8, <2>1
<1>10. w \in Seq(Int) /\ Len(w) = N
  BY <1>1, <1>9
<1>. HIDE DEF w, ww
<1>11. ww \in Seq(Int) /\ Len(ww) = N /\ \A i \in 1..N : ww[i] = w[i] * w[i]
  BY <1>10, ProductsType DEF ww
<1>12. Sum(w) = B * x - C * y
  <2>. DEFINE c == -C
  <2>1. c \in Int /\ 0 \in Int /\ \A i \in 1..N : w[i] = B * u[i] + c * v[i] + 0 * u[i]
    <3>1. \A p, q, r, t \in Int : p * q + r * t = p * q + r * t + 0 * q
      OBVIOUS
    <3>. QED
      BY <1>1, <1>8, <1>9, <3>1
  <2>. HIDE DEF c
  <2>2. Sum(w) = B * Sum(u) + c * Sum(v) + 0 * Sum(u)
    <3>1. /\ u \in Seq(Int) /\ v \in Seq(Int) /\ Len(u) = Len(w) /\ Len(v) = Len(w)
          /\ \A i \in 1..Len(w) : w[i] = B * u[i] + c * v[i] + 0 * u[i]
      BY <1>7, <1>10, <2>1 DEF N
    <3>2. Combines(w, B, u, c, v, 0, u)
      BY <1>8, <1>10, <2>1, <3>1, Zenon DEF Combines
    <3>3. Sum(w) = Linear(B, Sum(u), c, Sum(v), 0, Sum(u))
      BY <3>2, SumCombined
    <3>. QED
      BY <3>3 DEF Linear
  <2>3. Sum(w) = B * x + c * y + 0 * x
    BY <2>2 DEF x, y
  <2>. QED
    BY <1>5, <1>8, <2>3 DEF c
<1>13. Sum(ww) = B * B * k + (-2 * B * C) * l + C * C * m
  <2>. DEFINE a == B * B b == -2 * B * C c == C * C
  <2>1. a \in Int /\ b \in Int /\ c \in Int
    BY <1>8
  <2>2. ASSUME NEW i \in 1..N PROVE ww[i] = a * uu[i] + b * uv[i] + c * vv[i]
    <3>. DEFINE p == u[i] q == v[i]
    <3>1. /\ p \in Int /\ q \in Int /\ uu[i] = p * p /\ uv[i] = p * q /\ vv[i] = q * q
          /\ ww[i] = (B * p + (-C) * q) * (B * p + (-C) * q)
      BY <1>1, <1>2, <1>3, <1>4, <1>9, <1>11
    <3>. HIDE DEF p, q
    <3>2. (B * p + (-C) * q) * (B * p + (-C) * q) = (B * B) * (p * p) + (-2 * B * C) * (p * q) + (C * C) * (q * q)
      BY <1>8, <3>1
    <3>. QED
      BY <3>1, <3>2
  <2>. HIDE DEF a, b, c
  <2>3. /\ Len(uu) = Len(ww) /\ Len(uv) = Len(ww) /\ Len(vv) = Len(ww)
        /\ \A i \in 1..Len(ww) : ww[i] = a * uu[i] + b * uv[i] + c * vv[i]
    BY <1>2, <1>3, <1>4, <1>11, <2>2
  <2>4. Combines(ww, a, uu, b, uv, c, vv)
    BY <1>2, <1>3, <1>4, <1>11, <2>1, <2>3, Zenon DEF Combines
  <2>5. Sum(ww) = Linear(a, Sum(uu), b, Sum(uv), c, Sum(vv))
    BY <2>4, SumCombined
  <2>. QED
    BY <2>5 DEF Linear, a, b, c, k, l, m
<1>14. Spread(w, w) = N * (B * B * k + (-2 * B * C) * l + C * C * m) - (B * x - C * y) * (B * x - C * y)
  <2>1. Spread(w, w) = Len(w) * Sum(ww) - Sum(w) * Sum(w)
    BY DEF Spread, ww
  <2>. QED
    BY <1>10, <1>12, <1>13, <2>1
<1>15. Spread(w, w) = B * B * A + (-2 * B * C) * C + C * C * B
  <2>1. N * (B * B * k + (-2 * B * C) * l + C * C * m) - (B * x - C * y) * (B * x - C * y)
          = B * B * (N * k - x * x) + (-2 * B * C) * (N * l - x * y) + C * C * (N * m - y * y)
    BY <1>1, <1>5, <1>8
  <2>. QED
    BY <1>14, <2>1 DEF A, B, C
<1>16. Spread(w, w) = B * (A * B - C * C)
  BY <1>8, <1>15
<1>. DEFINE D == A * B - C * C
<1>17. B > 0 /\ B * D >= 0 /\ D \in Int
  BY <1>6, <1>8, <1>10, <1>16, SpreadOfOne
<1>18. D >= 0
  <2>. HIDE DEF D
  <2>. QED
    BY <1>8, <1>17
<1>19. A * B \in Int /\ C * C \in Int
  BY <1>8
<1>20. C * C <= A * B
  BY <1>18, <1>19
<1>. QED
  BY <1>6, <1>20

\* What is left of two vectors is of the same length.
LEMMA RemovedAlike ==
  ASSUME NEW X, NEW u \in Seq(X), NEW v \in Seq(X), Len(u) = Len(v), NEW indexes
  PROVE  Len(RemoveIndexes(u, indexes)) = Len(RemoveIndexes(v, indexes))
<1>. DEFINE N == Len(u)
<1>0. N \in Nat /\ Len(v) = N
  OBVIOUS
<1>1. PICK f : /\ f = [i \in 0..N |-> IF i = 0 THEN u
                                      ELSE (IF N - i + 1 \in indexes
                                            THEN RemoveAt(f[i - 1], N - i + 1) ELSE f[i - 1])]
               /\ RemoveIndexes(u, indexes) = f[N]
  BY <1>0, RemovalIsDefined, Zenon
<1>2. PICK g : /\ g = [i \in 0..N |-> IF i = 0 THEN v
                                      ELSE (IF N - i + 1 \in indexes
                                            THEN RemoveAt(g[i - 1], N - i + 1) ELSE g[i - 1])]
               /\ RemoveIndexes(v, indexes) = g[N]
  <2>1. PICK g : /\ g = [i \in 0..Len(v) |-> IF i = 0 THEN v
                                      ELSE (IF Len(v) - i + 1 \in indexes
                                            THEN RemoveAt(g[i - 1], Len(v) - i + 1) ELSE g[i - 1])]
                 /\ RemoveIndexes(v, indexes) = g[Len(v)]
    BY <1>0, RemovalIsDefined
  <2>. QED
    BY <1>0, <2>1
<1>. HIDE DEF N
<1>. DEFINE P(n) == f[n] \in Seq(X) /\ g[n] \in Seq(X) /\ Len(f[n]) = Len(g[n]) /\ Len(f[n]) >= N - n
            S == {n \in Nat : n <= N => P(n)}
<1>3. 0 \in S
  <2>1. f[0] = u /\ g[0] = v
    BY <1>0, <1>1, <1>2
  <2>. QED
    BY <1>0, <2>1 DEF N
<1>4. ASSUME NEW x \in Seq(X), NEW m \in Nat, m >= 1, m <= Len(x)
      PROVE  RemoveAt(x, m) \in Seq(X) /\ Len(RemoveAt(x, m)) = Len(x) - 1
  <2>. DEFINE L == Len(x)
              a == SubSeq(x, 1, m - 1)
              b == SubSeq(x, m + 1, L)
  <2>1. a \in Seq(X) /\ Len(a) = m - 1
    BY <1>4
  <2>2. b \in Seq(X) /\ Len(b) = L - m
    BY <1>4
  <2>. DEFINE w == RemoveAt(x, m)
  <2>3. w = a \o b
    BY DEF RemoveAt
  <2>4. L \in Nat /\ m <= L
    BY <1>4
  <2>. HIDE DEF a, b, w, L
  <2>5. w \in Seq(X) /\ Len(w) = L - 1
    BY <2>1, <2>2, <2>3, <2>4
  <2>. QED
    BY <2>5 DEF w, L
<1>5. ASSUME NEW n \in Nat, n \in S PROVE n + 1 \in S
  <2>. SUFFICES ASSUME n + 1 <= N PROVE P(n + 1)
    OBVIOUS
  <2>. DEFINE m == N - (n + 1) + 1
  <2>1. /\ n + 1 \in 0..N /\ n + 1 # 0 /\ (n + 1) - 1 = n /\ m \in Nat /\ m >= 1 /\ m = N - n
        /\ N - (n + 1) = m - 1
    BY <1>0
  <2>2. P(n)
    BY <1>0, <1>5
  <2>3. f[n + 1] = IF m \in indexes THEN RemoveAt(f[n], m) ELSE f[n]
    BY <1>1, <2>1
  <2>4. g[n + 1] = IF m \in indexes THEN RemoveAt(g[n], m) ELSE g[n]
    BY <1>2, <2>1
  <2>5. /\ RemoveAt(f[n], m) \in Seq(X) /\ Len(RemoveAt(f[n], m)) = Len(f[n]) - 1
        /\ RemoveAt(g[n], m) \in Seq(X) /\ Len(RemoveAt(g[n], m)) = Len(g[n]) - 1
    BY <1>4, <2>1, <2>2
  <2>. HIDE DEF m
  <2>. QED
    BY <1>0, <2>1, <2>2, <2>3, <2>4, <2>5
<1>6. N \in S
  <2>. HIDE DEF S
  <2>. QED
    BY <1>0, <1>3, <1>5, SetInduction
<1>. QED
  BY <1>0, <1>1, <1>2, <1>6

\* The entries of a vector hold integers.
LEMMA EntriesAreInts ==
  ASSUME NEW s \in Sensors, data \in Seq(Samples)
  PROVE  \A k \in 1..Len(data) : CreateEqualSizedVector(s)[k].value \in Int
<1>. SUFFICES ASSUME NEW k \in 1..Len(data) PROVE CreateEqualSizedVector(s)[k].value \in Int
  OBVIOUS
<1>. DEFINE v == CreateEqualSizedVector(s)
            pretest == config_.settings.enablePretestZeroes /\ k < Delay(s)
<1>1. \/ data[k][s] # NotMeasured /\ v[k] = [isMeasured |-> TRUE, value |-> data[k][s], sample |-> k]
      \/ data[k][s] = NotMeasured /\ pretest /\ v[k] = [isMeasured |-> TRUE, value |-> 0, sample |-> k]
      \/ data[k][s] = NotMeasured /\ ~pretest /\ v[k] = [Unmeasured EXCEPT !.sample = k]
  BY DEF CreateEqualSizedVector
<1>2. data[k][s] \in Int \cup {NotMeasured}
  BY AnalysisAssumption
<1>. HIDE DEF v, pretest
<1>3. v[k].value \in Int
  BY <1>1, <1>2 DEF Unmeasured
<1>. QED
  BY <1>3 DEF v

\* Both vectors of a pair are as long, and of integers.
LEMMA PairOfInts ==
  ASSUME NEW p \in Sensors, NEW r \in Sensors, data \in Seq(Samples)
  PROVE  LET u == ConvertToRaw(Pair(p, r)[1])
             v == ConvertToRaw(Pair(p, r)[2])
         IN  u \in Seq(Int) /\ v \in Seq(Int) /\ Len(u) = Len(v)
<1>. DEFINE u == CreateEqualSizedVector(r)
            v == CreateEqualSizedVector(p)
            indexes == GetRemoveIndexes(u) \cup GetRemoveIndexes(v)
            X == {e \in Range(u) \cup Range(v) : e.value \in Int}
<1>0. Len(data) \in Nat /\ DOMAIN data = 1..Len(data)
  OBVIOUS
<1>1. /\ u \in Seq(Range(u)) /\ Len(u) = Len(data)
      /\ \A k \in 1..Len(data) : u[k].sample = k
  BY <1>0, EqualSized
<1>2. /\ v \in Seq(Range(v)) /\ Len(v) = Len(data)
      /\ \A k \in 1..Len(data) : v[k].sample = k
  BY <1>0, EqualSized
<1>3. /\ \A k \in 1..Len(data) : u[k].value \in Int /\ v[k].value \in Int
  BY EntriesAreInts
<1>4. Pair(p, r)[1] = RemoveIndexes(u, indexes) /\ Pair(p, r)[2] = RemoveIndexes(v, indexes)
  BY DEF Pair, RemoveNotMeasured
<1>. HIDE DEF u, v
<1>5. u \in Seq(X) /\ v \in Seq(X)
  <2>1. ASSUME NEW k \in 1..Len(data) PROVE u[k] \in X /\ v[k] \in X
    <3>1. u[k] \in Range(u) /\ v[k] \in Range(v)
      BY <1>1, <1>2 DEF Range
    <3>. QED
      BY <1>3, <3>1
  <2>. HIDE DEF X
  <2>. QED
    BY <1>1, <1>2, <2>1
<1>. DEFINE x == RemoveIndexes(u, indexes)
            y == RemoveIndexes(v, indexes)
<1>6. x \in Seq(X) /\ y \in Seq(X) /\ Len(x) = Len(y)
  <2>. HIDE DEF X, indexes
  <2>1. Len(u) = Len(v) /\ (\A i \in 1..Len(u) : u[i].sample = i) /\ (\A i \in 1..Len(v) : v[i].sample = i)
    BY <1>1, <1>2
  <2>2. x \in Seq(X) /\ y \in Seq(X)
    BY <1>5, <2>1, Removal
  <2>3. Len(x) = Len(y)
    BY <1>5, <2>1, RemovedAlike
  <2>. QED
    BY <2>2, <2>3
<1>. HIDE DEF x, y
<1>7. ASSUME NEW z \in Seq(X) PROVE ConvertToRaw(z) \in Seq(Int) /\ Len(ConvertToRaw(z)) = Len(z)
  <2>1. \A k \in 1..Len(z) : z[k].value \in Int
    BY <1>7
  <2>. QED
    BY <2>1 DEF ConvertToRaw
<1>. HIDE DEF X
<1>. QED
  BY <1>4, <1>6, <1>7 DEF x, y

\* The coefficient of two sensors that vary is one.
LEMMA CoefficientIs ==
  ASSUME NEW p \in Sensors, NEW r \in Sensors, data \in Seq(Samples)
  PROVE  LET c == CorrelationResult(p, r)
             Varies(v) == \E i, j \in DOMAIN v : v[i].value # v[j].value
         IN  Varies(c.of[1]) /\ Varies(c.of[2]) =>
               /\ c.correlation.spreadU > 0 /\ c.correlation.spreadV > 0
               /\ c.correlation.numerator * c.correlation.numerator
                    <= c.correlation.spreadU * c.correlation.spreadV
<1>. DEFINE x == Pair(p, r)[1]
            y == Pair(p, r)[2]
            u == ConvertToRaw(x)
            v == ConvertToRaw(y)
            c == CorrelationResult(p, r)
<1>1. u \in Seq(Int) /\ v \in Seq(Int) /\ Len(u) = Len(v)
  BY PairOfInts
<1>2. /\ c.of[1] = x /\ c.of[2] = y
      /\ c.correlation.numerator = Spread(u, v)
      /\ c.correlation.spreadU = Spread(u, u) /\ c.correlation.spreadV = Spread(v, v)
  BY DEF CorrelationResult, GetCorrelationCoefficient, Pair, RemoveNotMeasured
<1>3. /\ DOMAIN x = 1..Len(u) /\ \A i \in 1..Len(u) : u[i] = x[i].value
      /\ DOMAIN y = 1..Len(v) /\ \A i \in 1..Len(v) : v[i] = y[i].value
  <2>1. DOMAIN u = 1..Len(u) /\ DOMAIN v = 1..Len(v)
    BY <1>1
  <2>2. u = [k \in DOMAIN x |-> x[k].value] /\ v = [k \in DOMAIN y |-> y[k].value]
    BY DEF ConvertToRaw
  <2>. HIDE DEF u, v, x, y
  <2>. QED
    BY <2>1, <2>2
<1>. HIDE DEF u, v, x, y, c
<1>4. ASSUME \E i, j \in DOMAIN x : x[i].value # x[j].value, \E i, j \in DOMAIN y : y[i].value # y[j].value
      PROVE  Spread(u, u) > 0 /\ Spread(v, v) > 0 /\ Spread(u, v) * Spread(u, v) <= Spread(u, u) * Spread(v, v)
  <2>1. /\ \E i, j \in 1..Len(u) : u[i] # u[j]
        /\ \E i, j \in 1..Len(v) : v[i] # v[j]
    BY <1>3, <1>4
  <2>2. Spread(u, u) > 0 /\ Spread(v, v) > 0
    BY <1>1, <2>1, SpreadOfOne
  <2>. QED
    BY <1>1, <2>2, Cauchy
<1>5. (\E i, j \in DOMAIN c.of[1] : c.of[1][i].value # c.of[1][j].value) /\
      (\E i, j \in DOMAIN c.of[2] : c.of[2][i].value # c.of[2][j].value) =>
               /\ c.correlation.spreadU > 0 /\ c.correlation.spreadV > 0
               /\ c.correlation.numerator * c.correlation.numerator
                    <= c.correlation.spreadU * c.correlation.spreadV
  BY <1>2, <1>4
<1>. QED
  BY <1>5 DEF c

\* Zeros have no spread.
LEMMA SpreadOfZeros ==
  ASSUME NEW w \in Seq(Int), \A i \in 1..Len(w) : w[i] = 0
  PROVE  Spread(w, w) = 0
<1>1. ASSUME NEW v \in Seq(Int), \A i \in 1..Len(v) : v[i] = 0 PROVE Sum(v) = 0
  <2>1. Combines(v, 0, v, 0, v, 0, v)
    BY <1>1, SMT DEF Combines
  <2>2. Sum(v) = Linear(0, Sum(v), 0, Sum(v), 0, Sum(v))
    BY <2>1, SumCombined, SMT
  <2>3. Sum(v) \in Int
    BY <1>1, PartialSums
  <2>. QED
    BY <2>2, <2>3 DEF Linear
<1>. DEFINE ww == Products(w, w)
<1>2. ww \in Seq(Int) /\ Len(ww) = Len(w) /\ \A i \in 1..Len(w) : ww[i] = w[i] * w[i]
  BY ProductsType
<1>. HIDE DEF ww
<1>3. Sum(w) = 0
  BY <1>1
<1>4. Sum(ww) = 0
  <2>0. ASSUME NEW i \in 1..Len(w) PROVE ww[i] = 0
    <3>1. w[i] = 0 /\ ww[i] = w[i] * w[i]
      BY <1>2
    <3>2. ww[i] = 0 * 0
      BY <3>1, Zenon
    <3>. QED
      BY <3>2
  <2>1. \A i \in 1..Len(ww) : ww[i] = 0
    BY <1>2, <2>0
  <2>. QED
    BY <1>1, <1>2, <2>1
<1>5. Len(w) \in Nat
  OBVIOUS
<1>. QED
  BY <1>3, <1>4, <1>5 DEF Spread, ww

\* A sensor nothing was measured of does not vary.
LEMMA UnmeasuredIsFlat ==
  ASSUME NEW p \in Sensors, NEW r \in Sensors, data \in Seq(Samples)
  PROVE  LET c == CorrelationResult(p, r)
             Nothing(s) == \A k \in 1..Len(data) : data[k][s] = NotMeasured
         IN  (Nothing(r) => c.correlation.spreadU = 0) /\ (Nothing(p) => c.correlation.spreadV = 0)
<1>. DEFINE u == CreateEqualSizedVector(r)
            v == CreateEqualSizedVector(p)
            indexes == GetRemoveIndexes(u) \cup GetRemoveIndexes(v)
            x == Pair(p, r)[1]
            y == Pair(p, r)[2]
            Nothing(s) == \A k \in 1..Len(data) : data[k][s] = NotMeasured
            c == CorrelationResult(p, r)
<1>0. Len(data) \in Nat /\ DOMAIN data = 1..Len(data)
  OBVIOUS
<1>1. x = RemoveIndexes(u, indexes) /\ y = RemoveIndexes(v, indexes)
  BY DEF Pair, RemoveNotMeasured
<1>2. /\ c.correlation.spreadU = Spread(ConvertToRaw(x), ConvertToRaw(x))
      /\ c.correlation.spreadV = Spread(ConvertToRaw(y), ConvertToRaw(y))
  BY DEF CorrelationResult, GetCorrelationCoefficient, Pair, RemoveNotMeasured
<1>3. ASSUME NEW s, Nothing(s), NEW removed
      PROVE  LET z == RemoveIndexes(CreateEqualSizedVector(s), removed)
             IN  Spread(ConvertToRaw(z), ConvertToRaw(z)) = 0
  <2>. DEFINE w == CreateEqualSizedVector(s)
              X == {e \in Range(w) : e.value = 0}
              z == RemoveIndexes(w, removed)
  <2>1. w \in Seq(Range(w)) /\ Len(w) = Len(data) /\ \A k \in 1..Len(data) : w[k].sample = k
    BY <1>0, EqualSized
  <2>2. ASSUME NEW k \in 1..Len(data) PROVE w[k].value = 0
    <3>. DEFINE pretest == config_.settings.enablePretestZeroes /\ k < Delay(s)
    <3>1. \/ data[k][s] # NotMeasured /\ w[k] = [isMeasured |-> TRUE, value |-> data[k][s], sample |-> k]
          \/ data[k][s] = NotMeasured /\ pretest /\ w[k] = [isMeasured |-> TRUE, value |-> 0, sample |-> k]
          \/ data[k][s] = NotMeasured /\ ~pretest /\ w[k] = [Unmeasured EXCEPT !.sample = k]
      BY DEF CreateEqualSizedVector
    <3>. HIDE DEF w, pretest
    <3>. QED
      BY <1>3, <3>1 DEF Unmeasured
  <2>. HIDE DEF w
  <2>3. w \in Seq(X)
    <3>1. \A k \in 1..Len(data) : w[k] \in X
      BY <2>1, <2>2 DEF Range
    <3>. HIDE DEF X
    <3>. QED
      BY <2>1, <3>1
  <2>4. z \in Seq(X)
    <3>. HIDE DEF X
    <3>1. \A i \in 1..Len(w) : w[i].sample = i
      BY <2>1
    <3>. QED
      BY <2>3, <3>1, Removal
  <2>. HIDE DEF z
  <2>5. \A k \in 1..Len(z) : z[k].value = 0
    BY <2>4
  <2>6. ConvertToRaw(z) \in Seq(Int) /\ \A k \in 1..Len(ConvertToRaw(z)) : ConvertToRaw(z)[k] = 0
    <3>1. DOMAIN z = 1..Len(z) /\ Len(z) \in Nat
      BY <2>4
    <3>. DEFINE q == ConvertToRaw(z)
    <3>2. q = [k \in 1..Len(z) |-> 0]
      BY <2>5, <3>1 DEF ConvertToRaw
    <3>. HIDE DEF q
    <3>. QED
      BY <3>1, <3>2 DEF q
  <2>. QED
    BY <2>6, SpreadOfZeros DEF z, w
<1>. HIDE DEF indexes
<1>4. Nothing(r) => Spread(ConvertToRaw(x), ConvertToRaw(x)) = 0
  BY <1>1, <1>3
<1>5. Nothing(p) => Spread(ConvertToRaw(y), ConvertToRaw(y)) = 0
  BY <1>1, <1>3
<1>. HIDE DEF c, x, y, Nothing
<1>6. (Nothing(r) => c.correlation.spreadU = 0) /\ (Nothing(p) => c.correlation.spreadV = 0)
  BY <1>2, <1>4, <1>5
<1>. QED
  BY <1>6 DEF c, Nothing

-----------------------------------------------------------------------------
(* Datapoints *)

\* The values of a sample that go into a sensor.
Values(s, sample) ==
  LET items == Selected(AllSensors, {m \in Members[s] : sample[m] # NotMeasured})
  IN  [i \in DOMAIN items |-> sample[items[i]]]

\* They are integers, and at most one if a sensor sums up itself only.
LEMMA ValuesAre ==
  ASSUME NEW s \in Sensors, NEW sample \in Samples
  PROVE  /\ Values(s, sample) \in Seq(Int)
         /\ Members[s] = {s} =>
              Values(s, sample) = IF sample[s] # NotMeasured THEN <<sample[s]>> ELSE <<>>
<1>. DEFINE set == {m \in Members[s] : sample[m] # NotMeasured}
            items == Selected(AllSensors, set)
<1>1. AllSensors \in Seq(Sensors)
  BY AllSensorsAreListed
<1>. HIDE DEF set
<1>2. items \in Seq(Sensors \cap set)
  BY <1>1, SelectedType
<1>3. Range(items) = Range(AllSensors) \cap set
  BY <1>1, SelectedRange
<1>4. \A i, j \in 1..Len(items) : items[i] = items[j] => i = j
  <2>1. \A i, j \in 1..Len(AllSensors) : AllSensors[i] = AllSensors[j] => i = j
    BY <1>1, AnalysisAssumption
  <2>. QED
    BY <1>1, <2>1, SelectedOnce
<1>. HIDE DEF items
<1>5. Values(s, sample) = [i \in 1..Len(items) |-> sample[items[i]]]
  BY <1>2 DEF Values, items, set
<1>6. \A i \in 1..Len(items) : sample[items[i]] \in Int
  BY <1>2, AnalysisAssumption DEF set
<1>7. Values(s, sample) \in Seq(Int)
  BY <1>2, <1>5, <1>6
<1>8. ASSUME Members[s] = {s}, sample[s] # NotMeasured PROVE Values(s, sample) = <<sample[s]>>
  <2>1. set = {s} /\ s \in Range(AllSensors)
    BY <1>8 DEF set, Sensors
  <2>2. Range(items) = {s}
    BY <1>3, <2>1
  <2>3. DOMAIN items = 1..Len(items) /\ Len(items) \in Nat
    BY <1>2
  <2>4. \A i \in 1..Len(items) : items[i] = s
    BY <2>2, <2>3 DEF Range
  <2>5. Len(items) # 0
    BY <2>2, <2>3 DEF Range
  <2>6. Len(items) <= 1
    <3>. SUFFICES ASSUME Len(items) > 1 PROVE FALSE
      BY <2>3
    <3>1. 1 \in 1..Len(items) /\ 2 \in 1..Len(items)
      BY <2>3
    <3>. QED
      BY <1>4, <2>4, <3>1
  <2>7. Len(items) = 1
    BY <2>3, <2>5, <2>6
  <2>. QED
    BY <1>5, <2>4, <2>7
<1>9. ASSUME Members[s] = {s}, sample[s] = NotMeasured PROVE Values(s, sample) = <<>>
  <2>1. set = {}
    BY <1>9 DEF set
  <2>2. Len(items) \in Nat /\ \A i \in 1..Len(items) : items[i] \in set
    BY <1>2
  <2>3. Len(items) = 0
    BY <2>1, <2>2
  <2>. QED
    BY <1>5, <2>3
<1>. QED
  BY <1>7, <1>8, <1>9

\* The datapoints are those of one sample after the other.
LEMMA DatapointsAre ==
  ASSUME NEW s \in Sensors, data \in Seq(Samples)
  PROVE  /\ GetDatapoints(s) \in Seq(Int)
         /\ \E f : /\ f[0] = <<>> /\ GetDatapoints(s) = f[Len(data)]
                   /\ \A n \in 0..Len(data) : f[n] \in Seq(Int)
                   /\ \A n \in Nat : n + 1 <= Len(data) => f[n + 1] = f[n] \o Values(s, data[n + 1])
<1>. DEFINE N == Len(data)
            ss == [k \in 1..N |-> Values(s, data[k])]
<1>1. N \in Nat /\ DOMAIN data = 1..N /\ \A k \in 1..N : data[k] \in Samples
  OBVIOUS
<1>2. GetDatapoints(s) = FlattenSeq(ss)
  BY <1>1 DEF GetDatapoints, Values
<1>5. Len(ss) = 0 => ss = <<>>
  BY <1>1
<1>. HIDE DEF N
<1>3. Len(ss) = N /\ \A k \in 1..N : ss[k] = Values(s, data[k])
  BY <1>1
<1>4. \A k \in 1..N : ss[k] \in Seq(Int)
  BY <1>1, <1>3, ValuesAre
<1>. HIDE DEF ss
<1>6. FlattenSeq(ss) \in Seq(Int)
  BY <1>1, <1>3, <1>4, <1>5, FlattenType
<1>7. PICK f : Joins(f, ss, Int) /\ FlattenSeq(ss) = f[Len(ss)]
  <2>1. \A k \in 1..Len(ss) : ss[k] \in Seq(Int)
    BY <1>3, <1>4
  <2>2. Len(ss) \in Nat
    BY <1>1, <1>3
  <2>. QED
    BY <1>5, <2>1, <2>2, FlattenIs
<1>8. ASSUME NEW n \in Nat, n + 1 <= N PROVE f[n + 1] = f[n] \o Values(s, data[n + 1])
  <2>1. n + 1 \in 1..N
    BY <1>1, <1>8
  <2>2. f[n + 1] = f[n] \o ss[n + 1]
    BY <1>3, <1>7, <1>8 DEF Joins
  <2>. QED
    BY <1>3, <2>1, <2>2
<1>9. f[0] = <<>> /\ FlattenSeq(ss) = f[N] /\ \A n \in 0..N : f[n] \in Seq(Int)
  BY <1>3, <1>7 DEF Joins
<1>. QED
  BY <1>2, <1>6, <1>8, <1>9 DEF N

\* A column of what was measured of a sensor, multiplied, is its datapoints multiplied.
LEMMA ColumnIs ==
  ASSUME NEW s \in Sensors, Members[s] = {s}, data \in Seq(Samples), NEW column, NEW set,
         Len(column) = Len(data),
         \A k \in 1..Len(data) :
           /\ column[k] \in set <=> data[k][s] # NotMeasured
           /\ data[k][s] # NotMeasured => column[k] = data[k][s] * Multiplier[s]
  PROVE  LET cells == Selected(column, set)
             v == GetDatapoints(s)
         IN  /\ v \in Seq(Int) /\ cells \in Seq(Int) /\ Len(cells) = Len(v)
             /\ Sum(cells) = Multiplier[s] * Sum(v)
<1>. DEFINE N == Len(data)
            q == Multiplier[s]
            cells == Selected(column, set)
            v == GetDatapoints(s)
<1>0. N \in Nat /\ q \in Int /\ \A k \in 1..N : data[k] \in Samples
  BY AnalysisAssumption
<1>1. PICK f : /\ f[0] = <<>> /\ v = f[N]
               /\ \A n \in 0..N : f[n] \in Seq(Int)
               /\ \A n \in Nat : n + 1 <= N => f[n + 1] = f[n] \o Values(s, data[n + 1])
  BY DatapointsAre
<1>2. PICK g : /\ g = [i \in 0..Len(column) |-> IF i = 0 THEN <<>>
                                      ELSE (IF column[i] \in set THEN Append(g[i - 1], column[i]) ELSE g[i - 1])]
               /\ cells = g[Len(column)]
  BY <1>0, SelectedIsDefined, Zenon
<1>. HIDE DEF N, q, cells, v
<1>3. Len(column) = N
  BY DEF N
<1>. DEFINE P(n) == /\ f[n] \in Seq(Int) /\ g[n] \in Seq(Int) /\ Len(f[n]) = Len(g[n])
                    /\ \A j \in 1..Len(f[n]) : g[n][j] = q * f[n][j]
            S == {n \in Nat : n <= N => P(n)}
<1>4. 0 \in S
  <2>1. g[0] = <<>>
    BY <1>0, <1>2, <1>3
  <2>. QED
    BY <1>1, <2>1
<1>5. ASSUME NEW n \in Nat, n \in S PROVE n + 1 \in S
  <2>. SUFFICES ASSUME n + 1 <= N PROVE P(n + 1)
    OBVIOUS
  <2>. DEFINE x == data[n + 1][s]
  <2>1. n + 1 \in 0..N /\ n + 1 # 0 /\ (n + 1) - 1 = n /\ n + 1 \in 1..N /\ P(n)
    BY <1>0, <1>5
  <2>2. g[n + 1] = IF column[n + 1] \in set THEN Append(g[n], column[n + 1]) ELSE g[n]
    BY <1>2, <1>3, <2>1
  <2>3. f[n + 1] = f[n] \o (IF x # NotMeasured THEN <<x>> ELSE <<>>)
    BY <1>0, <1>1, <2>1, ValuesAre
  <2>4. /\ column[n + 1] \in set <=> x # NotMeasured
        /\ x # NotMeasured => column[n + 1] = x * q /\ x \in Int
    BY <1>0, <2>1, AnalysisAssumption DEF N, q
  <2>. HIDE DEF x
  <2>5. CASE x # NotMeasured
    <3>. DEFINE a == f[n] b == g[n] y == q * x
    <3>1. x \in Int /\ y \in Int /\ column[n + 1] = y
      <4>1. \A i, j \in Int : i * j \in Int /\ i * j = j * i
        OBVIOUS
      <4>. QED
        BY <1>0, <2>4, <2>5, <4>1
    <3>2. f[n + 1] = a \o <<x>> /\ g[n + 1] = Append(b, y)
      BY <2>2, <2>3, <2>4, <2>5, <3>1
    <3>3. /\ a \in Seq(Int) /\ b \in Seq(Int) /\ Len(a) = Len(b) /\ Len(a) \in Nat
          /\ \A j \in 1..Len(a) : b[j] = q * a[j]
      BY <2>1
    <3>. HIDE DEF a, b, P
    <3>. DEFINE a1 == a \o <<x>> b1 == Append(b, y)
    <3>4. /\ a1 \in Seq(Int) /\ Len(a1) = Len(a) + 1 /\ a1[Len(a) + 1] = x
          /\ \A j \in 1..Len(a) : a1[j] = a[j]
      BY <3>1, <3>3
    <3>5. /\ b1 \in Seq(Int) /\ Len(b1) = Len(a) + 1 /\ b1[Len(a) + 1] = y
          /\ \A j \in 1..Len(a) : b1[j] = b[j]
      BY <3>1, <3>3
    <3>. HIDE DEF a1, b1
    <3>6. \A j \in 1..(Len(a) + 1) : j = Len(a) + 1 \/ j \in 1..Len(a)
      BY <3>3
    <3>7. ASSUME NEW j \in 1..(Len(a) + 1) PROVE b1[j] = q * a1[j]
      <4>1. CASE j = Len(a) + 1
        BY <3>4, <3>5, <4>1
      <4>2. CASE j \in 1..Len(a)
        BY <3>3, <3>4, <3>5, <4>2
      <4>. QED
        BY <3>6, <4>1, <4>2
    <3>8. f[n + 1] = a1 /\ g[n + 1] = b1
      BY <3>2 DEF a1, b1
    <3>. QED
      BY <3>4, <3>5, <3>7, <3>8 DEF P
  <2>6. CASE x = NotMeasured
    <3>1. f[n + 1] = f[n] /\ g[n + 1] = g[n]
      BY <2>1, <2>2, <2>3, <2>4, <2>6
    <3>. QED
      BY <2>1, <3>1
  <2>. QED
    BY <2>5, <2>6
<1>6. P(N)
  <2>1. N \in S
    <3>. HIDE DEF S
    <3>. QED
      BY <1>0, <1>4, <1>5, SetInduction
  <2>. QED
    BY <1>0, <2>1
<1>7. /\ v \in Seq(Int) /\ cells \in Seq(Int) /\ Len(cells) = Len(v)
      /\ \A j \in 1..Len(v) : cells[j] = q * v[j]
  BY <1>1, <1>2, <1>3, <1>6
<1>8. Sum(cells) = q * Sum(v)
  <2>1. Combines(cells, q, v, 0, v, 0, v)
    <3>1. \A j \in 1..Len(v) : v[j] \in Int
      BY <1>7
    <3>2. \A a, b \in Int : a * b = a * b + 0 * b + 0 * b
      OBVIOUS
    <3>3. \A j \in 1..Len(cells) : cells[j] = q * v[j] + 0 * v[j] + 0 * v[j]
      BY <1>0, <1>7, <3>1, <3>2
    <3>4. 0 \in Int
      OBVIOUS
    <3>. QED
      BY <1>0, <1>7, <3>3, <3>4, Zenon DEF Combines
  <2>2. Sum(cells) = Linear(q, Sum(v), 0, Sum(v), 0, Sum(v))
    BY <2>1, SumCombined, SMT
  <2>3. Sum(v) \in Int
    BY <1>7, PartialSums
  <2>. DEFINE t == Sum(v)
  <2>. HIDE DEF t
  <2>4. q * t + 0 * t + 0 * t = q * t
    BY <1>0, <2>3 DEF t
  <2>. QED
    BY <2>2, <2>4 DEF Linear, t
<1>. QED
  BY <1>7, <1>8 DEF cells, v, q

-----------------------------------------------------------------------------
(* The median *)

\* A set of numbers with a bound that is not empty has a least one.
LEMMA LeastIs ==
  ASSUME NEW S, S # {}, NEW a \in Int, NEW b \in Int, S \subseteq a..b
  PROVE  Min(S) \in S /\ \A y \in S : Min(S) <= y
<1>. DEFINE T == {x - a : x \in S}
<1>1. T \subseteq Nat /\ T # {}
  <2>1. ASSUME NEW x \in S PROVE x - a \in Nat
    <3>1. x \in a..b
      BY <2>1
    <3>. QED
      BY <3>1
  <2>. QED
    BY <2>1
<1>2. PICK m \in T : \A y \in T : m <= y
  BY <1>1, Least
<1>3. PICK x \in S : m = x - a
  BY <1>2
<1>4. ASSUME NEW y \in S PROVE x <= y
  <2>1. x \in a..b /\ y \in a..b
    BY <1>4
  <2>2. m <= y - a
    BY <1>2
  <2>. QED
    BY <1>3, <2>1, <2>2
<1>5. \E z \in S : \A y \in S : z <= y
  BY <1>4
<1>. QED
  BY <1>5, Zenon DEF Min

\* The entries of a sequence of numbers have bounds.
LEMMA EntriesAreBounded ==
  ASSUME NEW v \in Seq(Int)
  PROVE  \E a, b \in Int : Range(v) \subseteq a..b
<1>. DEFINE N == Len(v)
            P(n) == \E a, b \in Int : \A k \in 1..n : v[k] \in a..b
            S == {n \in Nat : n <= N => P(n)}
<1>0. N \in Nat /\ DOMAIN v = 1..N /\ \A k \in 1..N : v[k] \in Int
  OBVIOUS
<1>. HIDE DEF N
<1>1. 0 \in S
  OBVIOUS
<1>2. ASSUME NEW n \in Nat, n \in S PROVE n + 1 \in S
  <2>. SUFFICES ASSUME n + 1 <= N PROVE P(n + 1)
    OBVIOUS
  <2>1. n + 1 \in 1..N /\ P(n) /\ v[n + 1] \in Int
    <3>1. n <= N /\ n + 1 \in 1..N
      BY <1>0
    <3>. HIDE DEF P
    <3>. QED
      BY <1>0, <1>2, <3>1
  <2>2. PICK a \in Int, b \in Int : \A k \in 1..n : v[k] \in a..b
    BY <2>1
  <2>. DEFINE x == v[n + 1]
              c == IF x < a THEN x ELSE a
              d == IF x > b THEN x ELSE b
  <2>3. c \in Int /\ d \in Int /\ x \in c..d /\ \A y \in a..b : y \in c..d
    <3>1. x \in Int
      BY <2>1
    <3>. HIDE DEF x
    <3>. QED
      BY <3>1
  <2>4. \A k \in 1..(n + 1) : k = n + 1 \/ k \in 1..n
    OBVIOUS
  <2>. HIDE DEF c, d
  <2>. QED
    BY <2>2, <2>3, <2>4
<1>3. P(N)
  <2>1. N \in S
    <3>. HIDE DEF S
    <3>. QED
      BY <1>0, <1>1, <1>2, SetInduction
  <2>. QED
    BY <1>0, <2>1
<1>. QED
  BY <1>0, <1>3 DEF Range

\* Some of them have a least and a greatest one.
LEMMA Extremes ==
  ASSUME NEW v \in Seq(Int), NEW S, S # {}, S \subseteq Range(v)
  PROVE  /\ Min(S) \in S /\ \A y \in S : Min(S) <= y
         /\ Max(S) \in S /\ \A y \in S : Max(S) >= y
<1>1. PICK a \in Int, b \in Int : Range(v) \subseteq a..b
  BY EntriesAreBounded
<1>2. S \subseteq a..b
  BY <1>1
<1>. QED
  BY <1>2, LeastIs, MaxIs

\* Places of a sequence can be counted.
LEMMA PlacesAreCounted ==
  ASSUME NEW n \in Nat, NEW S, S \subseteq 1..n
  PROVE  /\ IsFiniteSet(S) /\ Cardinality(S) \in Nat /\ Cardinality(S) <= n
         /\ Cardinality((1..n) \ S) = n - Cardinality(S)
         /\ \A T \in SUBSET S : Cardinality(T) <= Cardinality(S)
         /\ S = {} => Cardinality(S) = 0
         /\ S = 1..n => Cardinality(S) = n
<1>1. IsFiniteSet(1..n) /\ Cardinality(1..n) = n
  BY FS_Interval
<1>2. IsFiniteSet(S) /\ Cardinality(S) <= n
  BY <1>1, FS_Subset
<1>3. Cardinality(S) \in Nat
  BY <1>2, FS_CardinalityType
<1>4. \A T \in SUBSET S : Cardinality(T) <= Cardinality(S)
  BY <1>2, FS_Subset
<1>5. Cardinality((1..n) \ S) = n - Cardinality(S)
  <2>1. Cardinality((1..n) \ S) = Cardinality(1..n) - Cardinality((1..n) \cap S)
    BY <1>1, FS_Difference
  <2>2. (1..n) \cap S = S
    OBVIOUS
  <2>. QED
    BY <1>1, <2>1, <2>2
<1>. QED
  BY <1>1, <1>2, <1>3, <1>4, <1>5, FS_EmptySet

\* The places of entries below a value, and of those not above it.
Below(v, x) == {k \in DOMAIN v : v[k] < x}
NotAbove(v, x) == {k \in DOMAIN v : v[k] <= x}

\* x is where the i-th entry of the sorted sequence is.
IsIth(v, i, x) == x \in Range(v) /\ Cardinality(Below(v, x)) < i /\ Cardinality(NotAbove(v, x)) >= i

\* There is one such value.
LEMMA IthExists ==
  ASSUME NEW v \in Seq(Int), NEW i \in 1..Len(v)
  PROVE  \E x : IsIth(v, i, x)
<1>. DEFINE N == Len(v)
            S == {x \in Range(v) : Cardinality(NotAbove(v, x)) >= i}
<1>0. N \in Nat /\ i \in 1..N /\ DOMAIN v = 1..N /\ \A k \in 1..N : v[k] \in Int /\ v[k] \in Range(v)
  BY DEF Range
<1>1. \A x : Below(v, x) \subseteq 1..N /\ NotAbove(v, x) \subseteq 1..N
  BY <1>0 DEF Below, NotAbove
<1>. HIDE DEF N
<1>2. S # {}
  <2>. DEFINE m == Max(Range(v))
  <2>1. v[1] \in Range(v)
    BY <1>0
  <2>2. m \in Range(v) /\ \A y \in Range(v) : m >= y
    BY <2>1, Extremes
  <2>. HIDE DEF m
  <2>3. NotAbove(v, m) = 1..N
    BY <1>0, <2>2 DEF NotAbove, Range
  <2>4. Cardinality(NotAbove(v, m)) = N
    BY <1>0, <2>3, PlacesAreCounted
  <2>. QED
    BY <1>0, <2>2, <2>4
<1>. DEFINE x == Min(S)
<1>3. x \in S /\ \A y \in S : x <= y
  <2>1. S \subseteq Range(v)
    OBVIOUS
  <2>. HIDE DEF S
  <2>. QED
    BY <1>2, <2>1, Extremes
<1>. HIDE DEF x
<1>4. x \in Int
  BY <1>0, <1>3 DEF Range
<1>5. Cardinality(Below(v, x)) < i
  <2>1. CASE Below(v, x) = {}
    <3>1. Cardinality(Below(v, x)) = 0
      BY <2>1, FS_EmptySet, Zenon
    <3>. QED
      BY <1>0, <3>1
  <2>2. CASE Below(v, x) # {}
    <3>. DEFINE T == {v[k] : k \in Below(v, x)}
                y == Max(T)
    <3>1. T # {} /\ T \subseteq Range(v)
      BY <1>0, <1>1, <2>2
    <3>2. y \in T /\ \A z \in T : y >= z
      <4>. HIDE DEF T
      <4>. QED
        BY <3>1, Extremes
    <3>3. y \in Range(v) /\ y \in Int /\ y < x
      BY <1>0, <3>1, <3>2 DEF Below
    <3>. HIDE DEF y
    <3>4. NotAbove(v, y) = Below(v, x)
      BY <1>0, <1>4, <3>2, <3>3 DEF NotAbove, Below
    <3>5. ~(Cardinality(NotAbove(v, y)) >= i)
      BY <1>3, <1>4, <3>3
    <3>6. Cardinality(NotAbove(v, y)) \in Nat
      BY <1>0, <1>1, PlacesAreCounted
    <3>. QED
      BY <1>0, <3>4, <3>5, <3>6
  <2>. QED
    BY <2>1, <2>2
<1>. QED
  BY <1>3, <1>5 DEF IsIth

\* What is sorted stands in order: an entry of a higher place is not below one of a lower.
LEMMA IthsInOrder ==
  ASSUME NEW v \in Seq(Int), NEW i \in Int, NEW j \in Int, i <= j, NEW x, NEW y,
         IsIth(v, i, x), IsIth(v, j, y)
  PROVE  x \in Int /\ y \in Int /\ x <= y
<1>. DEFINE N == Len(v)
<1>0. N \in Nat /\ DOMAIN v = 1..N /\ \A k \in 1..N : v[k] \in Int
  OBVIOUS
<1>1. x \in Range(v) /\ y \in Range(v)
  BY DEF IsIth
<1>2. x \in Int /\ y \in Int
  BY <1>0, <1>1 DEF Range
<1>3. Below(v, x) \subseteq 1..N /\ NotAbove(v, y) \subseteq 1..N
  BY <1>0 DEF Below, NotAbove
<1>4. y < x => NotAbove(v, y) \subseteq Below(v, x)
  BY <1>0, <1>2 DEF Below, NotAbove
<1>. HIDE DEF N
<1>5. Cardinality(Below(v, x)) \in Nat /\ Cardinality(NotAbove(v, y)) \in Nat
  BY <1>0, <1>3, PlacesAreCounted
<1>6. y < x => Cardinality(NotAbove(v, y)) <= Cardinality(Below(v, x))
  BY <1>0, <1>3, <1>4, PlacesAreCounted
<1>7. Cardinality(Below(v, x)) < i /\ Cardinality(NotAbove(v, y)) >= j
  BY DEF IsIth
<1>. QED
  BY <1>2, <1>5, <1>6, <1>7

\* There is no other.
LEMMA SortedIs ==
  ASSUME NEW v \in Seq(Int)
  PROVE  /\ \A i \in 1..Len(v) : Sorted(v)[i] \in Int /\ IsIth(v, i, Sorted(v)[i])
         /\ \A i \in 1..Len(v) : \A x : IsIth(v, i, x) => x = Sorted(v)[i]
<1>1. ASSUME NEW i \in 1..Len(v) PROVE IsIth(v, i, Sorted(v)[i])
  <2>. DEFINE P(x) == /\ Cardinality({k \in DOMAIN v : v[k] < x}) < i
                      /\ Cardinality({k \in DOMAIN v : v[k] <= x}) >= i
              c == CHOOSE x \in Range(v) : P(x)
  <2>1. \E x \in Range(v) : P(x)
    BY IthExists DEF IsIth, Below, NotAbove
  <2>2. Sorted(v)[i] = c
    <3>1. i \in DOMAIN v
      OBVIOUS
    <3>. QED
      BY <3>1, Zenon DEF Sorted
  <2>3. c \in Range(v) /\ P(c)
    <3>. HIDE DEF P
    <3>. QED
      BY <2>1, Zenon
  <2>. HIDE DEF c
  <2>. QED
    BY <2>2, <2>3 DEF IsIth, Below, NotAbove
<1>2. ASSUME NEW i \in 1..Len(v), NEW x, NEW y, IsIth(v, i, x), IsIth(v, i, y) PROVE x = y /\ x \in Int
  <2>1. i \in Int /\ i <= i
    OBVIOUS
  <2>2. x \in Int /\ y \in Int /\ x <= y
    BY <1>2, <2>1, IthsInOrder
  <2>3. y <= x
    BY <1>2, <2>1, IthsInOrder
  <2>. QED
    BY <2>2, <2>3
<1>. QED
  BY <1>1, <1>2

\* Of all entries at most half are below the median, and at most half above it.
LEMMA MedianIsMiddle ==
  ASSUME NEW v \in Seq(Int), v # <<>>
  PROVE  LET m == GetMedian(v)
         IN  /\ m[1] \in Int /\ m[2] \in {1, 2}
             /\ 2 * Cardinality({k \in DOMAIN v : v[k] * m[2] < m[1]}) <= Len(v)
             /\ 2 * Cardinality({k \in DOMAIN v : v[k] * m[2] > m[1]}) <= Len(v)
             /\ \E x, y \in Range(v) : m[1] = (IF m[2] = 1 THEN x ELSE x + y)
<1>. DEFINE N == Len(v)
            h == N \div 2
            z == Sorted(v)
            m == GetMedian(v)
            less == {k \in DOMAIN v : v[k] * m[2] < m[1]}
            more == {k \in DOMAIN v : v[k] * m[2] > m[1]}
<1>0. N \in Nat \ {0} /\ DOMAIN v = 1..N /\ \A k \in 1..N : v[k] \in Int
  OBVIOUS
<1>1. /\ \A i \in 1..N : z[i] \in Int /\ IsIth(v, i, z[i])
  BY SortedIs
<1>2. m = IF N % 2 = 0 THEN <<z[h + 1] + z[h], 2>> ELSE <<z[h + 1], 1>>
  BY DEF GetMedian
<1>3. \A x : Below(v, x) \subseteq 1..N /\ NotAbove(v, x) \subseteq 1..N
  BY <1>0 DEF Below, NotAbove
<1>4. less \subseteq 1..N /\ more \subseteq 1..N
  BY <1>0
<1>5. h \in Nat /\ h + 1 \in 1..N /\ (N % 2 = 0 => N = 2 * h /\ h \in 1..N) /\ (N % 2 # 0 => N = 2 * h + 1)
  OBVIOUS
<1>. HIDE DEF N, h, z, m
<1>. DEFINE b == z[h + 1]
<1>6. /\ b \in Int /\ b \in Range(v)
      /\ Cardinality(Below(v, b)) < h + 1 /\ Cardinality(NotAbove(v, b)) >= h + 1
  BY <1>1, <1>5 DEF IsIth
<1>7. Cardinality(Below(v, b)) \in Nat /\ Cardinality(NotAbove(v, b)) \in Nat
  BY <1>0, <1>3, PlacesAreCounted
<1>. HIDE DEF b
<1>8. Cardinality(less) \in Nat /\ Cardinality(more) \in Nat
  <2>. HIDE DEF less, more
  <2>. QED
    BY <1>0, <1>4, PlacesAreCounted
<1>9. CASE N % 2 # 0
  <2>1. m[1] = b /\ m[2] = 1
    BY <1>2, <1>9 DEF b
  <2>2. less = Below(v, b) /\ more = (1..N) \ NotAbove(v, b)
    BY <1>0, <1>6, <2>1 DEF Below, NotAbove
  <2>3. Cardinality((1..N) \ NotAbove(v, b)) = N - Cardinality(NotAbove(v, b))
    BY <1>0, <1>3, PlacesAreCounted
  <2>. HIDE DEF less, more
  <2>4. 2 * Cardinality(less) <= N /\ 2 * Cardinality(more) <= N
    BY <1>0, <1>5, <1>6, <1>7, <1>9, <2>2, <2>3
  <2>. QED
    BY <1>6, <2>1, <2>4 DEF N, m, less, more
<1>10. CASE N % 2 = 0
  <2>. DEFINE a == z[h]
  <2>1. /\ a \in Int /\ a \in Range(v)
        /\ Cardinality(NotAbove(v, a)) >= h
    BY <1>1, <1>5, <1>10 DEF IsIth
  <2>2. a <= b
    BY <1>1, <1>5, <1>10, IthsInOrder DEF b
  <2>3. m[1] = b + a /\ m[2] = 2
    BY <1>2, <1>10 DEF b
  <2>. HIDE DEF a
  <2>4. less \subseteq Below(v, b) /\ more \subseteq (1..N) \ NotAbove(v, a)
    BY <1>0, <1>6, <2>1, <2>2, <2>3 DEF Below, NotAbove
  <2>5. /\ Cardinality((1..N) \ NotAbove(v, a)) = N - Cardinality(NotAbove(v, a))
        /\ Cardinality(NotAbove(v, a)) \in Nat
    BY <1>0, <1>3, PlacesAreCounted
  <2>6. Cardinality(less) <= Cardinality(Below(v, b))
    BY <1>0, <1>3, <2>4, PlacesAreCounted
  <2>7. Cardinality(more) <= Cardinality((1..N) \ NotAbove(v, a))
    <3>. DEFINE rest == (1..N) \ NotAbove(v, a)
    <3>1. rest \subseteq 1..N
      OBVIOUS
    <3>. HIDE DEF rest, more
    <3>. QED
      BY <1>0, <2>4, <3>1, PlacesAreCounted DEF rest
  <2>. HIDE DEF less, more
  <2>8. 2 * Cardinality(less) <= N /\ 2 * Cardinality(more) <= N
    BY <1>0, <1>5, <1>6, <1>7, <1>8, <1>10, <2>1, <2>5, <2>6, <2>7
  <2>9. \E x, y \in Range(v) : m[1] = (IF m[2] = 1 THEN x ELSE x + y)
    BY <1>6, <2>1, <2>3
  <2>. QED
    BY <1>6, <2>1, <2>3, <2>8, <2>9 DEF N, m, less, more
<1>. QED
  BY <1>9, <1>10

\* Turning all entries around turns the sorted ones around.
LEMMA SortedTurned ==
  ASSUME NEW v \in Seq(Int), NEW w, w = [k \in DOMAIN v |-> -v[k]]
  PROVE  /\ w \in Seq(Int) /\ Len(w) = Len(v)
         /\ \A i \in 1..Len(v) : Sorted(w)[i] = -Sorted(v)[Len(v) + 1 - i]
<1>. DEFINE N == Len(v)
<1>0. N \in Nat /\ DOMAIN v = 1..N /\ \A k \in 1..N : v[k] \in Int
  OBVIOUS
<1>1. w \in Seq(Int) /\ Len(w) = N /\ DOMAIN w = 1..N /\ \A k \in 1..N : w[k] = -v[k]
  BY <1>0
<1>2. \A x : Below(v, x) \subseteq 1..N /\ NotAbove(v, x) \subseteq 1..N
  BY <1>0 DEF Below, NotAbove
<1>. HIDE DEF N
<1>3. ASSUME NEW i \in 1..N PROVE Sorted(w)[i] = -Sorted(v)[N + 1 - i]
  <2>. DEFINE j == N + 1 - i
              x == Sorted(v)[j]
  <2>1. j \in 1..N
    BY <1>0
  <2>2. x \in Int /\ IsIth(v, j, x)
    BY <2>1, SortedIs DEF N
  <2>. HIDE DEF x
  <2>3. x \in Range(v) /\ Cardinality(Below(v, x)) < j /\ Cardinality(NotAbove(v, x)) >= j
    BY <2>2 DEF IsIth
  <2>4. -x \in Range(w)
    BY <1>0, <1>1, <2>3 DEF Range
  <2>5. Below(w, -x) = (1..N) \ NotAbove(v, x) /\ NotAbove(w, -x) = (1..N) \ Below(v, x)
    BY <1>0, <1>1, <2>2 DEF Below, NotAbove
  <2>6. /\ Cardinality((1..N) \ NotAbove(v, x)) = N - Cardinality(NotAbove(v, x))
        /\ Cardinality((1..N) \ Below(v, x)) = N - Cardinality(Below(v, x))
        /\ Cardinality(NotAbove(v, x)) \in Nat /\ Cardinality(Below(v, x)) \in Nat
    BY <1>0, <1>2, PlacesAreCounted
  <2>7. IsIth(w, i, -x)
    <3>. DEFINE b == Cardinality(Below(v, x))
                n == Cardinality(NotAbove(v, x))
    <3>1. Cardinality(Below(w, -x)) = N - n /\ Cardinality(NotAbove(w, -x)) = N - b
      BY <2>5, <2>6
    <3>2. b \in Nat /\ n \in Nat /\ b < N + 1 - i /\ n >= N + 1 - i
      BY <2>3, <2>6
    <3>. HIDE DEF b, n
    <3>3. N - n < i /\ N - b >= i
      BY <1>0, <3>2
    <3>. QED
      BY <2>4, <3>1, <3>3 DEF IsIth
  <2>8. i \in 1..Len(w)
    BY <1>1
  <2>. QED
    BY <1>1, <2>7, <2>8, SortedIs DEF x
<1>. QED
  BY <1>1, <1>3 DEF N

\* The median favours neither side.
LEMMA MedianTurned ==
  ASSUME NEW v \in Seq(Int), v # <<>>
  PROVE  Times(-1, GetMedian([k \in DOMAIN v |-> -v[k]])) = GetMedian(v)
<1>. DEFINE w == [k \in DOMAIN v |-> -v[k]]
            N == Len(v)
            h == N \div 2
            z == Sorted(v)
            t == Sorted(w)
<1>0. N \in Nat \ {0} /\ h \in Nat /\ h + 1 \in 1..N
      /\ (N % 2 = 0 => N = 2 * h /\ h \in 1..N) /\ (N % 2 # 0 => N = 2 * h + 1)
  OBVIOUS
<1>1. Len(w) = N /\ \A i \in 1..N : t[i] = -z[N + 1 - i]
  BY SortedTurned
<1>2. \A i \in 1..N : z[i] \in Int
  BY SortedIs
<1>3. GetMedian(v) = IF N % 2 = 0 THEN <<z[h + 1] + z[h], 2>> ELSE <<z[h + 1], 1>>
  BY DEF GetMedian
<1>4. GetMedian(w) = IF N % 2 = 0 THEN <<t[h + 1] + t[h], 2>> ELSE <<t[h + 1], 1>>
  <2>1. Len(w) = N
    BY <1>1
  <2>. HIDE DEF w
  <2>. QED
    BY <2>1 DEF GetMedian
<1>. HIDE DEF w, N, h, z, t
<1>5. CASE N % 2 # 0
  <2>1. N + 1 - (h + 1) = h + 1
    BY <1>0, <1>5
  <2>2. t[h + 1] = -z[h + 1] /\ z[h + 1] \in Int
    BY <1>0, <1>1, <1>2, <2>1
  <2>3. GetMedian(w) = <<t[h + 1], 1>> /\ GetMedian(v) = <<z[h + 1], 1>>
    BY <1>3, <1>4, <1>5
  <2>. DEFINE b == z[h + 1]
  <2>. HIDE DEF b
  <2>4. b \in Int /\ GetMedian(w) = <<-b, 1>> /\ GetMedian(v) = <<b, 1>>
    BY <2>2, <2>3 DEF b
  <2>5. -1 * (-b) = b
    BY <2>4
  <2>6. Times(-1, GetMedian(w)) = <<-1 * (-b), 1>>
    BY <2>4 DEF Times
  <2>. QED
    BY <2>4, <2>5, <2>6 DEF w
<1>6. CASE N % 2 = 0
  <2>1. N + 1 - (h + 1) = h /\ N + 1 - h = h + 1 /\ h \in 1..N
    BY <1>0, <1>6
  <2>2. t[h + 1] = -z[h] /\ t[h] = -z[h + 1] /\ z[h + 1] \in Int /\ z[h] \in Int
    BY <1>0, <1>1, <1>2, <2>1
  <2>3. GetMedian(w) = <<t[h + 1] + t[h], 2>> /\ GetMedian(v) = <<z[h + 1] + z[h], 2>>
    BY <1>3, <1>4, <1>6
  <2>. DEFINE b == z[h + 1] a == z[h]
  <2>. HIDE DEF b, a
  <2>4. b \in Int /\ a \in Int /\ GetMedian(w) = <<-a + -b, 2>> /\ GetMedian(v) = <<b + a, 2>>
    BY <2>2, <2>3 DEF a, b
  <2>5. -1 * (-a + -b) = b + a
    BY <2>4
  <2>6. Times(-1, GetMedian(w)) = <<-1 * (-a + -b), 2>>
    BY <2>4 DEF Times
  <2>. QED
    BY <2>4, <2>5, <2>6 DEF w
<1>. QED
  BY <1>5, <1>6

\* The average lies between the bounds of the entries.
LEMMA SumIsBounded ==
  ASSUME NEW v \in Seq(Int), NEW lo \in Int, NEW hi \in Int, \A k \in 1..Len(v) : lo <= v[k] /\ v[k] <= hi
  PROVE  Len(v) * lo <= Sum(v) /\ Sum(v) <= Len(v) * hi
<1>. DEFINE N == Len(v)
            W == Partial(v)
            P(n) == n * lo <= W[n] /\ W[n] <= n * hi
            S == {n \in Nat : n <= N => P(n)}
<1>1. /\ N \in Nat /\ \A i \in 1..N : v[i] \in Int /\ lo <= v[i] /\ v[i] <= hi
      /\ W[0] = 0 /\ \A n \in 0..N : W[n] \in Int
      /\ \A n \in Nat : n + 1 <= N => W[n + 1] = W[n] + v[n + 1]
      /\ Sum(v) = W[N]
  BY PartialSums
<1>. HIDE DEF W, N
<1>2. 0 \in S
  BY <1>1
<1>3. ASSUME NEW n \in Nat, n \in S PROVE n + 1 \in S
  <2>. SUFFICES ASSUME n + 1 <= N PROVE P(n + 1)
    OBVIOUS
  <2>1. n \in 0..N /\ n + 1 \in 1..N /\ P(n)
    BY <1>1, <1>3
  <2>. DEFINE x == v[n + 1] w == W[n] a == n * lo b == n * hi
  <2>2. W[n + 1] = w + x /\ x \in Int /\ w \in Int /\ lo <= x /\ x <= hi /\ a <= w /\ w <= b
    BY <1>1, <2>1
  <2>3. a \in Int /\ b \in Int /\ (n + 1) * lo = a + lo /\ (n + 1) * hi = b + hi
    OBVIOUS
  <2>. HIDE DEF x, w, a, b
  <2>. QED
    BY <2>2, <2>3
<1>4. P(N)
  <2>1. N \in S
    <3>. HIDE DEF S
    <3>. QED
      BY <1>1, <1>2, <1>3, SetInduction
  <2>. QED
    BY <1>1, <2>1
<1>. QED
  BY <1>1, <1>4 DEF N

\* What is left of the datapoints in the steady state are some of them.
LEMMA SteadyStateIs ==
  ASSUME NEW s, NEW v \in Seq(Int), v # <<>>
  PROVE  /\ SteadyState(s, v) \in Seq(Int) /\ Range(SteadyState(s, v)) \subseteq Range(v)
         /\ Range(SteadyState(s, v)) # {}
         /\ ~UseSteadyState(s) => SteadyState(s, v) = v
<1>. DEFINE N == Len(v)
            t == SubSeq(v, Trim + 1, N - Trim)
<1>0. N \in Nat \ {0} /\ DOMAIN v = 1..N /\ \A k \in 1..N : v[k] \in Int
  OBVIOUS
<1>1. Range(v) # {}
  <2>1. 1 \in DOMAIN v
    BY <1>0
  <2>. QED
    BY <2>1 DEF Range
<1>2. ASSUME N > SteadyStateSize
      PROVE  t \in Seq(Int) /\ Range(t) \subseteq Range(v) /\ Range(t) # {}
  <2>1. Trim \in Nat /\ SteadyStateSize \in Nat /\ SteadyStateSize >= 2 * Trim
    BY AnalysisAssumption
  <2>. DEFINE n == N - Trim - Trim
  <2>2. n \in Nat \ {0} /\ \A k \in 1..n : k + Trim \in 1..N
    <3>. HIDE DEF N
    <3>. QED
      BY <1>0, <1>2, <2>1
  <2>3. t = [k \in 1..n |-> v[k + Trim]]
    <3>1. t = [k \in 1..((N - Trim) - (Trim + 1) + 1) |-> v[k + (Trim + 1) - 1]]
      <4>. HIDE DEF N
      <4>. QED
        BY <1>0, <2>1, <2>2
    <3>2. (N - Trim) - (Trim + 1) + 1 = n
      BY <1>0, <2>1
    <3>3. \A k \in 1..n : k + (Trim + 1) - 1 = k + Trim
      BY <2>1, <2>2
    <3>. HIDE DEF n, t, N
    <3>. QED
      BY <3>1, <3>2, <3>3
  <2>. HIDE DEF t, n, N
  <2>4. t \in Seq(Int) /\ Len(t) = n /\ DOMAIN t = 1..n
    BY <1>0, <2>2, <2>3
  <2>. QED
    BY <1>0, <2>2, <2>3, <2>4 DEF Range
<1>3. SteadyState(s, v) = v \/ (N > SteadyStateSize /\ SteadyState(s, v) = t)
  BY DEF SteadyState
<1>4. ~UseSteadyState(s) => SteadyState(s, v) = v
  BY DEF SteadyState
<1>. HIDE DEF t
<1>. QED
  BY <1>1, <1>2, <1>3, <1>4

\* A summary is ordered.
LEMMA Ordered ==
  ASSUME data \in Seq(Samples)
  PROVE  SummaryIsOrdered
<1>. SUFFICES ASSUME NEW s \in Sensors, GetDatapoints(s) # <<>>
              PROVE  LET v == GetDatapoints(s)
                         m == GetMedian(v)
                         turned == Times(-1, GetMedian([k \in DOMAIN v |-> -v[k]]))
                         d == GetSensorData(s)
                     IN  /\ 2 * Cardinality({k \in DOMAIN v : v[k] * m[2] < m[1]}) <= Len(v)
                         /\ 2 * Cardinality({k \in DOMAIN v : v[k] * m[2] > m[1]}) <= Len(v)
                         /\ Compare(m, "<=", turned) /\ Compare(turned, "<=", m)
                         /\ {d.min[1], d.max[1]} \subseteq {Multiplier[s] * x : x \in Range(v)}
                         /\ Multiplier[s] >= 0 =>
                              /\ Compare(d.min, "<=", d.max)
                              /\ ~UseSteadyState(s) => \A x \in {d.average, d.median} :
                                   Compare(d.min, "<=", x) /\ Compare(x, "<=", d.max)
  BY Zenon DEF SummaryIsOrdered
<1>. DEFINE v == GetDatapoints(s)
            m == GetMedian(v)
            turned == Times(-1, GetMedian([k \in DOMAIN v |-> -v[k]]))
            d == GetSensorData(s)
            q == Multiplier[s]
            t == SteadyState(s, v)
            lo == Min(Range(t))
            hi == Max(Range(t))
            N == Len(v)
            sum == Sum(v)
<1>1. v \in Seq(Int) /\ v # <<>>
  BY DatapointsAre
<1>2. q \in Int
  BY AnalysisAssumption
<1>3. d = [min |-> Times(q, GetMin(s, v)), max |-> Times(q, GetMax(s, v)),
           average |-> Times(q, GetAverage(v)), median |-> Times(q, GetMedian(v))]
  BY Zenon DEF GetSensorData
<1>. HIDE DEF v, q, d
<1>4. /\ m[1] \in Int /\ m[2] \in {1, 2}
      /\ 2 * Cardinality({k \in DOMAIN v : v[k] * m[2] < m[1]}) <= Len(v)
      /\ 2 * Cardinality({k \in DOMAIN v : v[k] * m[2] > m[1]}) <= Len(v)
      /\ \E x, y \in Range(v) : m[1] = (IF m[2] = 1 THEN x ELSE x + y)
  BY <1>1, MedianIsMiddle
<1>5. turned = m
  BY <1>1, MedianTurned
<1>6. t \in Seq(Int) /\ Range(t) \subseteq Range(v) /\ Range(t) # {} /\ (~UseSteadyState(s) => t = v)
  BY <1>1, SteadyStateIs
<1>. HIDE DEF m, turned, t
<1>7. /\ lo \in Range(t) /\ \A y \in Range(t) : lo <= y
      /\ hi \in Range(t) /\ \A y \in Range(t) : hi >= y
  BY <1>6, Extremes
<1>8. N \in Nat \ {0} /\ sum \in Int /\ \A k \in 1..N : v[k] \in Range(v)
  <2>1. N \in Nat \ {0} /\ \A k \in 1..N : v[k] \in Range(v)
    BY <1>1 DEF Range
  <2>. QED
    BY <1>1, <2>1, PartialSums
<1>9. \A y \in Range(v) : y \in Int
  BY <1>1 DEF Range
<1>10. /\ d.min = <<q * lo, 1>> /\ d.max = <<q * hi, 1>>
       /\ d.average = <<q * sum, N>> /\ d.median = <<q * m[1], m[2]>>
  BY <1>3 DEF Times, GetMin, GetMax, GetAverage, m, t
<1>. HIDE DEF lo, hi, sum, N
<1>11. lo \in Int /\ hi \in Int /\ lo <= hi /\ lo \in Range(v) /\ hi \in Range(v)
  BY <1>6, <1>7, <1>9
<1>12. \A a, b \in Int : /\ q * a \in Int /\ a * q = q * a /\ (a * b) * q = q * (a * b)
                         /\ (q * a) * 1 = q * a /\ (q * a) * b = q * (a * b) /\ a * b = b * a
                         /\ q >= 0 /\ a <= b => q * a <= q * b
  BY <1>2
<1>13. Compare(m, "<=", turned) /\ Compare(turned, "<=", m)
  <2>. DEFINE x == m[1] * m[2]
  <2>1. x \in Int
    BY <1>4
  <2>. HIDE DEF x
  <2>2. x <= x
    BY <2>1
  <2>. QED
    BY <1>5, <2>2 DEF Compare, x
<1>14. ASSUME q >= 0 PROVE Compare(d.min, "<=", d.max)
  <2>1. (q * lo) * 1 <= (q * hi) * 1
    BY <1>11, <1>12, <1>14
  <2>. QED
    BY <1>10, <2>1 DEF Compare
<1>15. {d.min[1], d.max[1]} \subseteq {q * x : x \in Range(v)}
  BY <1>10, <1>11
<1>16. ASSUME q >= 0, ~UseSteadyState(s)
       PROVE  /\ Compare(d.min, "<=", d.average) /\ Compare(d.average, "<=", d.max)
              /\ Compare(d.min, "<=", d.median) /\ Compare(d.median, "<=", d.max)
  <2>1. \A y \in Range(v) : lo <= y /\ y <= hi
    BY <1>6, <1>7, <1>9, <1>11, <1>16
  <2>2. \A k \in 1..Len(v) : lo <= v[k] /\ v[k] <= hi
    BY <1>8, <2>1 DEF N
  <2>3. N * lo <= sum /\ sum <= N * hi
    BY <1>1, <1>11, <2>2, SumIsBounded DEF N, sum
  <2>4. m[2] * lo <= m[1] /\ m[1] <= m[2] * hi
    <3>1. PICK x \in Range(v), y \in Range(v) : m[1] = (IF m[2] = 1 THEN x ELSE x + y)
      BY <1>4
    <3>2. lo <= x /\ x <= hi /\ lo <= y /\ y <= hi /\ x \in Int /\ y \in Int
      BY <1>9, <2>1, <3>1
    <3>3. CASE m[2] = 1
      BY <1>11, <3>1, <3>2, <3>3
    <3>4. CASE m[2] = 2
      BY <1>11, <3>1, <3>2, <3>4
    <3>. QED
      BY <1>4, <3>3, <3>4
  <2>5. ASSUME NEW a \in Int, NEW b \in {1, 2} \cup {N}, b * lo <= a, a <= b * hi
        PROVE  Compare(<<q * lo, 1>>, "<=", <<q * a, b>>) /\ Compare(<<q * a, b>>, "<=", <<q * hi, 1>>)
    <3>1. b \in Int
      BY <1>8, <2>5
    <3>. DEFINE l == b * lo h == b * hi
    <3>2. l \in Int /\ h \in Int /\ lo * b = l /\ hi * b = h
      BY <1>11, <3>1
    <3>3. q * l <= q * a /\ q * a <= q * h
      BY <1>12, <1>16, <2>5, <3>2
    <3>4. (q * lo) * b = q * l /\ (q * hi) * b = q * h /\ (q * a) * 1 = q * a
      <4>. HIDE DEF l, h
      <4>1. (q * lo) * b = q * (lo * b) /\ (q * hi) * b = q * (hi * b) /\ (q * a) * 1 = q * a
        BY <1>11, <1>12, <3>1
      <4>. QED
        BY <3>2, <4>1
    <3>5. (q * lo) * b <= (q * a) * 1 /\ (q * a) * 1 <= (q * hi) * b
      BY <3>3, <3>4
    <3>. QED
      BY <3>5 DEF Compare
  <2>. QED
    BY <1>4, <1>8, <1>10, <2>3, <2>4, <2>5
<1>17. q >= 0 /\ ~UseSteadyState(s) => \A x \in {d.average, d.median} :
         Compare(d.min, "<=", x) /\ Compare(x, "<=", d.max)
  BY <1>16
<1>. QED
  BY <1>4, <1>13, <1>14, <1>15, <1>17 DEF v, m, turned, d, q
=============================================================================
