--------------------------- MODULE PipeFramingProofs ---------------------------
(***************************************************************************)
(* Theorems about PipeFraming for any number of streaming threads, any     *)
(* PlainTraces and any size of the pipe: the types, and that the pipe      *)
(* implements MessageQueue.                                                *)
(***************************************************************************)
EXTENDS PipeFraming, FiniteSetTheorems, SequenceTheorems, TLAPS

-----------------------------------------------------------------------------
(* The inductive invariant *)

TypeInv ==
  /\ main \in {"works", "asks", "teardown", "ended", "killed"}
  /\ asked \in 0..maxWaitCount /\ traces \in 0..MaxTraces
  /\ writing \in [Threads -> {<<>>} \cup Messages]
  /\ buffer \in Seq(Bytes) /\ Len(buffer) <= PipeSize
  /\ runner \in {"polls", "reads", "syncs", "done"}
  /\ result \in Seq(Bytes)
  /\ waitCount \in Nat /\ done \in Nat
  /\ tool \in BOOLEAN /\ heir \in BOOLEAN
  /\ sent \in Seq(Messages) /\ received \in Seq(Messages)

\* Only the main thread writes $WAIT$, and only when it asks.
WritingInv ==
  /\ \A t \in Streaming : writing[t] # waitMessage_
  /\ writing[Main] \in {<<>>, waitMessage_}
  /\ main \in {"works", "teardown", "ended"} => writing[Main] = <<>>

\* end[i] is how many bytes the first i messages have, and they are those given.
EndsOf(end, bytes, messages) ==
  /\ end[0] = 0 /\ end[Len(messages)] = Len(bytes)
  /\ \A i, j \in 0..Len(messages) : i <= j => end[i] <= end[j]
  /\ \A i \in 1..Len(messages) : end[i] = end[i - 1] + Len(messages[i])
  /\ \A i \in 1..Len(messages) : \A x \in 1..Len(messages[i]) :
       bytes[end[i - 1] + x] = messages[i][x]

\* The bytes are those of the messages, one after the other.
Concatenation(bytes, messages) ==
  \E end \in [0..Len(messages) -> Nat] : EndsOf(end, bytes, messages)

\* What was sent and not yet received is what the runner has read and not handled,
\* which is not more than a message, and what is in the pipe.
UnhandledAre(messages) ==
  /\ sent = received \o messages
  /\ Concatenation(result \o buffer, messages)
  /\ messages # <<>> => Len(result) <= Len(messages[1])

StreamInv == \E messages \in Seq(Messages) : UnhandledAre(messages)

Waits(messages) == {i \in DOMAIN messages : messages[i] = waitMessage_}
AsksSent == Cardinality(Waits(sent))
AsksReceived == Cardinality(Waits(received))

\* The handshake: a question that was sent has not been answered, or its answer waits.
HandshakeInv ==
  /\ AsksSent \in {asked, asked + 1} /\ AsksSent <= maxWaitCount
  /\ main \in {"works", "teardown", "ended"} => AsksSent = asked
  /\ main = "asks" => AsksSent = IF writing[Main] = <<>> THEN asked + 1 ELSE asked
  /\ main \in {"works", "asks"} => asked < maxWaitCount
  /\ AsksReceived = IF runner = "syncs" THEN waitCount + 1 ELSE waitCount
  /\ done = waitCount - asked

IInv == TypeInv /\ WritingInv /\ StreamInv /\ HandshakeInv

-----------------------------------------------------------------------------
(* Messages *)

\* Concatenation is associative.
LEMMA ConcatAssociates ==
  ASSUME NEW S, NEW a \in Seq(S), NEW b \in Seq(S), NEW c \in Seq(S)
  PROVE  a \o (b \o c) = (a \o b) \o c
  OBVIOUS

\* A concatenation begins with its first part.
LEMMA ConcatBegins ==
  ASSUME NEW S, NEW a \in Seq(S), NEW b \in Seq(S)
  PROVE  /\ Len(a \o b) = Len(a) + Len(b) /\ Len(a) \in Nat /\ Len(b) \in Nat
         /\ \A i \in 1..Len(a) : (a \o b)[i] = a[i]
  OBVIOUS

\* A frame is its body between two delimiters.
LEMMA FrameShape ==
  ASSUME NEW body \in Seq(Bytes)
  PROVE  /\ Frame(body) \in Seq(Bytes) /\ Len(Frame(body)) = Len(body) + 2
         /\ Frame(body)[1] = "$" /\ Frame(body)[Len(body) + 2] = "$"
         /\ \A i \in 2..(Len(body) + 1) : Frame(body)[i] = body[i - 1]
<1>1. <<"$">> \in Seq(Bytes) /\ Len(<<"$">>) = 1 /\ <<"$">>[1] = "$"
  BY DEF Bytes
<1>2. Frame(body) = (<<"$">> \o body) \o <<"$">>
  BY DEF Frame
<1>3. Frame(body) \in Seq(Bytes) /\ Len(Frame(body)) = Len(body) + 2
  BY <1>1, <1>2
<1>4. Frame(body)[1] = "$" /\ Frame(body)[Len(body) + 2] = "$"
  BY <1>1, <1>2
<1>5. \A i \in 2..(Len(body) + 1) : Frame(body)[i] = body[i - 1]
  BY <1>1, <1>2
<1> QED
  BY <1>3, <1>4, <1>5

\* Different bodies have different frames.
LEMMA FramesDiffer ==
  ASSUME NEW a \in Seq(Bytes), NEW b \in Seq(Bytes), Frame(a) = Frame(b)
  PROVE  a = b
<1>1. Len(a) = Len(b)
  BY FrameShape
<1>2. ASSUME NEW i \in 1..Len(a) PROVE a[i] = b[i]
  <2>1. PICK k \in 2..(Len(a) + 1) : i = k - 1
    <3>1. i + 1 \in 2..(Len(a) + 1) /\ i = (i + 1) - 1
      OBVIOUS
    <3> QED
      BY <3>1
  <2>2. Frame(a)[k] = a[k - 1] /\ Frame(b)[k] = b[k - 1]
    BY <1>1, FrameShape
  <2> QED
    BY <2>1, <2>2
<1> QED
  BY <1>1, <1>2, SeqEqual

\* The body of $WAIT$ holds no delimiter.
LEMMA WaitIsABody == <<"W">> \in Seq(Bytes \ {"$"}) /\ <<"W">> \in Seq(Bytes)
  BY DEF Bytes

\* A trace is never mistaken for $WAIT$.
LEMMA TracesAreNotWait ==
  ASSUME PlainTraces, NEW body \in Traces
  PROVE  Frame(body) # waitMessage_
<1>1. body \in Seq(Bytes) /\ body # <<"W">>
  BY DEF PlainTraces
<1> QED
  BY <1>1, WaitIsABody, FramesDiffer DEF waitMessage_

\* A message has a delimiter at each end and none in between.
LEMMA MessageShape ==
  ASSUME PlainTraces, NEW m \in Messages
  PROVE  /\ m \in Seq(Bytes) /\ Len(m) \in 2..PipeBuf
         /\ m[1] = "$" /\ m[Len(m)] = "$"
         /\ \A i \in 2..(Len(m) - 1) : m[i] # "$"
<1>1. PICK body \in Seq(Bytes \ {"$"}) : Len(body) + 2 <= PipeBuf /\ m = Frame(body)
  <2>1. CASE m = waitMessage_
    <3>1. m = Frame(<<"W">>)
      BY <2>1 DEF waitMessage_
    <3>2. Len(<<"W">>) + 2 <= PipeBuf
      BY PipeFramingAssumption DEF PlainTraces
    <3>3. <<"W">> \in Seq(Bytes \ {"$"})
      BY WaitIsABody
    <3> QED
      BY <3>1, <3>2, <3>3
  <2>2. CASE \E b \in Traces : m = Frame(b)
    BY <2>2 DEF PlainTraces
  <2> QED
    BY <2>1, <2>2 DEF Messages
<1>2. body \in Seq(Bytes) /\ \A i \in 1..Len(body) : body[i] # "$"
  OBVIOUS
<1>3. m \in Seq(Bytes) /\ Len(m) = Len(body) + 2 /\ m[1] = "$" /\ m[Len(m)] = "$"
  BY <1>1, <1>2, FrameShape
<1>4. ASSUME NEW i \in 2..(Len(m) - 1) PROVE m[i] # "$"
  <2>1. i - 1 \in 1..Len(body) /\ i \in 2..(Len(body) + 1)
    BY <1>3
  <2>2. m[i] = body[i - 1]
    BY <1>1, <1>2, <2>1, FrameShape
  <2> QED
    BY <1>2, <2>1, <2>2
<1> QED
  BY <1>1, <1>2, <1>3, <1>4, PipeFramingAssumption

-----------------------------------------------------------------------------
(* Concatenations of messages *)

\* No messages have no bytes.
LEMMA EmptyConcatenation ==
  /\ Concatenation(<<>>, <<>>)
  /\ \A bytes \in Seq(Bytes) : Concatenation(bytes, <<>>) => bytes = <<>>
<1>1. Concatenation(<<>>, <<>>)
  <2> DEFINE end == [i \in {0} |-> 0]
  <2>1. end \in [0..0 -> Nat] /\ end[0] = 0
    OBVIOUS
  <2> HIDE DEF end
  <2> QED
    BY <2>1 DEF Concatenation, EndsOf
<1>2. ASSUME NEW bytes \in Seq(Bytes), Concatenation(bytes, <<>>) PROVE bytes = <<>>
  <2>1. Len(bytes) = 0
    BY <1>2 DEF Concatenation, EndsOf
  <2> QED
    BY <2>1
<1> QED
  BY <1>1, <1>2

\* The bytes of messages begin with those of the first.
LEMMA ConcatenationBegins ==
  ASSUME NEW bytes \in Seq(Bytes), NEW messages \in Seq(Messages), PlainTraces,
         messages # <<>>, Concatenation(bytes, messages)
  PROVE  /\ messages[1] \in Messages /\ Len(messages[1]) <= Len(bytes)
         /\ \A x \in 1..Len(messages[1]) : bytes[x] = messages[1][x]
<1>1. PICK end \in [0..Len(messages) -> Nat] :
        /\ end[0] = 0 /\ end[Len(messages)] = Len(bytes)
        /\ \A i, j \in 0..Len(messages) : i <= j => end[i] <= end[j]
        /\ \A i \in 1..Len(messages) : end[i] = end[i - 1] + Len(messages[i])
        /\ \A i \in 1..Len(messages) : \A x \in 1..Len(messages[i]) :
             bytes[end[i - 1] + x] = messages[i][x]
  BY DEF Concatenation, EndsOf
<1>2. 1 \in 1..Len(messages) /\ messages[1] \in Messages
  OBVIOUS
<1>3. Len(messages[1]) \in Nat
  BY <1>2, MessageShape
<1>4. end[1] = Len(messages[1])
  BY <1>1, <1>2, <1>3
<1>5. end[1] <= end[Len(messages)]
  BY <1>1, <1>2
<1>6. \A x \in 1..Len(messages[1]) : bytes[end[0] + x] = messages[1][x]
  BY <1>1, <1>2
<1> QED
  BY <1>1, <1>2, <1>3, <1>4, <1>5, <1>6

\* One more message at the end adds its bytes at the end.
LEMMA ConcatenationGrows ==
  ASSUME NEW bytes \in Seq(Bytes), NEW messages \in Seq(Messages), PlainTraces,
         Concatenation(bytes, messages), NEW m \in Messages
  PROVE  Concatenation(bytes \o m, Append(messages, m))
<1> DEFINE n == Len(messages)
           longer == Append(messages, m)
<1>1. PICK end \in [0..n -> Nat] :
        /\ end[0] = 0 /\ end[n] = Len(bytes)
        /\ \A i, j \in 0..n : i <= j => end[i] <= end[j]
        /\ \A i \in 1..n : end[i] = end[i - 1] + Len(messages[i])
        /\ \A i \in 1..n : \A x \in 1..Len(messages[i]) :
             bytes[end[i - 1] + x] = messages[i][x]
  BY DEF Concatenation, EndsOf
<1>2. m \in Seq(Bytes) /\ Len(m) \in Nat
  BY MessageShape
<1>3. n \in Nat /\ Len(longer) = n + 1 /\ longer[n + 1] = m
  OBVIOUS
<1>4. \A i \in 1..n : longer[i] = messages[i] /\ Len(messages[i]) \in Nat
  BY MessageShape
<1> DEFINE new == [i \in 0..(n + 1) |-> IF i <= n THEN end[i] ELSE end[n] + Len(m)]
<1> HIDE DEF n, longer
<1>5. \A i \in 0..n : new[i] = end[i] /\ end[i] \in Nat
  BY <1>3
<1>6. new[n + 1] = end[n] + Len(m) /\ end[n] \in Nat
  BY <1>3
<1>7. new \in [0..(n + 1) -> Nat]
  BY <1>2, <1>3
<1> HIDE DEF new
<1>8. new[0] = 0 /\ new[n + 1] = Len(bytes \o m)
  BY <1>1, <1>2, <1>3, <1>5, <1>6
<1>9. ASSUME NEW i \in 0..(n + 1), NEW j \in 0..(n + 1), i <= j PROVE new[i] <= new[j]
  <2>1. CASE j <= n
    BY <1>1, <1>3, <1>5, <1>9, <2>1
  <2>2. CASE i = n + 1
    BY <1>3, <1>7, <1>9, <2>2
  <2>3. CASE i <= n /\ j = n + 1
    <3>1. end[i] <= end[n]
      BY <1>1, <1>3, <2>3
    <3> QED
      BY <1>2, <1>3, <1>5, <1>6, <2>3, <3>1
  <2> QED
    BY <1>3, <2>1, <2>2, <2>3
<1>10. ASSUME NEW i \in 1..(n + 1) PROVE new[i] = new[i - 1] + Len(longer[i])
  <2>1. CASE i <= n
    <3>1. i \in 1..n /\ i \in 0..n /\ i - 1 \in 0..n
      BY <1>3, <2>1
    <3> QED
      BY <1>1, <1>4, <1>5, <3>1
  <2>2. CASE i = n + 1
    <3>1. i - 1 = n /\ n \in 0..n
      BY <1>3, <2>2
    <3> QED
      BY <1>3, <1>5, <1>6, <2>2, <3>1
  <2> QED
    BY <1>3, <2>1, <2>2
<1>11. ASSUME NEW i \in 1..(n + 1), NEW x \in 1..Len(longer[i])
       PROVE  (bytes \o m)[new[i - 1] + x] = longer[i][x]
  <2>1. CASE i <= n
    <3>1. i - 1 \in 0..n /\ i \in 0..n /\ i \in 1..n /\ n \in 0..n
      BY <1>3, <2>1
    <3>2. longer[i] = messages[i] /\ Len(messages[i]) \in Nat
      BY <1>4, <3>1
    <3>3. /\ end[i] <= end[n] /\ end[i] = end[i - 1] + Len(messages[i])
          /\ bytes[end[i - 1] + x] = messages[i][x]
      BY <1>1, <3>1, <3>2
    <3>4. new[i - 1] = end[i - 1] /\ end[i - 1] \in Nat /\ end[n] = Len(bytes)
      BY <1>1, <1>5, <3>1
    <3>5. end[i - 1] + x \in 1..Len(bytes)
      BY <3>2, <3>3, <3>4
    <3> QED
      BY <1>2, <3>2, <3>3, <3>4, <3>5
  <2>2. CASE i = n + 1
    <3>1. i - 1 = n /\ n \in 0..n
      BY <1>3, <2>2
    <3>2. new[i - 1] = Len(bytes) /\ longer[i] = m
      BY <1>1, <1>3, <1>5, <2>2, <3>1
    <3> QED
      BY <1>2, <3>2
  <2>3. i <= n \/ i = n + 1
    BY <1>3
  <2> QED
    BY <2>1, <2>2, <2>3
<1>12. EndsOf(new, bytes \o m, longer)
  BY <1>3, <1>8, <1>9, <1>10, <1>11 DEF EndsOf
<1> QED
  BY <1>3, <1>7, <1>12 DEF Concatenation, longer

\* Without the bytes of the first message the others remain.
LEMMA ConcatenationShrinks ==
  ASSUME NEW first \in Messages, NEW bytes \in Seq(Bytes), NEW messages \in Seq(Messages),
         PlainTraces, messages # <<>>, messages[1] = first,
         Concatenation(first \o bytes, messages)
  PROVE  Concatenation(bytes, Tail(messages))
<1> DEFINE n == Len(messages)
           shorter == Tail(messages)
           all == first \o bytes
<1>1. PICK end \in [0..n -> Nat] :
        /\ end[0] = 0 /\ end[n] = Len(all)
        /\ \A i, j \in 0..n : i <= j => end[i] <= end[j]
        /\ \A i \in 1..n : end[i] = end[i - 1] + Len(messages[i])
        /\ \A i \in 1..n : \A x \in 1..Len(messages[i]) :
             all[end[i - 1] + x] = messages[i][x]
  BY DEF Concatenation, EndsOf
<1>2. first \in Seq(Bytes) /\ Len(first) \in Nat
  BY MessageShape
<1>3. n \in Nat /\ 1 <= n /\ Len(shorter) = n - 1
  OBVIOUS
<1>4. \A i \in 1..(n - 1) : shorter[i] = messages[i + 1]
  OBVIOUS
<1>5. \A i \in 1..n : Len(messages[i]) \in Nat
  BY MessageShape
<1> DEFINE new == [i \in 0..(n - 1) |-> end[i + 1] - Len(first)]
<1>6. Len(all) = Len(first) + Len(bytes)
  BY <1>2
<1> HIDE DEF n, shorter, all
<1>7. end[1] = Len(first)
  <2>1. 1 \in 1..n /\ 1 - 1 = 0
    BY <1>3
  <2> QED
    BY <1>1, <1>2, <2>1
<1>8. ASSUME NEW i \in 0..(n - 1)
      PROVE  /\ i + 1 \in 0..n /\ end[i + 1] \in Nat /\ Len(first) <= end[i + 1]
             /\ new[i] = end[i + 1] - Len(first)
  <2>1. i + 1 \in 0..n /\ 1 \in 0..n /\ 1 <= i + 1
    BY <1>3
  <2>2. end[1] <= end[i + 1] /\ end[i + 1] \in Nat
    BY <1>1, <2>1
  <2> QED
    BY <1>7, <2>1, <2>2
<1>9. new \in [0..(n - 1) -> Nat]
  BY <1>2, <1>8
<1> HIDE DEF new
<1>10. new[0] = 0 /\ new[n - 1] = Len(bytes)
  <2>1. 0 \in 0..(n - 1) /\ n - 1 \in 0..(n - 1) /\ (n - 1) + 1 = n
    BY <1>3
  <2>2. new[0] = end[1] - Len(first) /\ new[n - 1] = end[n] - Len(first)
    BY <1>8, <2>1
  <2> QED
    BY <1>1, <1>2, <1>6, <1>7, <2>2
<1>11. ASSUME NEW i \in 0..(n - 1), NEW j \in 0..(n - 1), i <= j PROVE new[i] <= new[j]
  <2>1. end[i + 1] <= end[j + 1]
    BY <1>1, <1>8, <1>11
  <2> QED
    BY <1>2, <1>8, <2>1
<1>12. ASSUME NEW i \in 1..(n - 1)
       PROVE  /\ i + 1 \in 1..n /\ (i + 1) - 1 = i /\ i \in 0..(n - 1)
              /\ i - 1 \in 0..(n - 1) /\ (i - 1) + 1 = i
  BY <1>3
<1>13. ASSUME NEW i \in 1..(n - 1) PROVE new[i] = new[i - 1] + Len(shorter[i])
  <2>1. end[i + 1] = end[i] + Len(messages[i + 1]) /\ Len(messages[i + 1]) \in Nat
    BY <1>1, <1>5, <1>12
  <2>2. /\ new[i] = end[i + 1] - Len(first) /\ end[i + 1] \in Nat
        /\ new[i - 1] = end[(i - 1) + 1] - Len(first) /\ end[(i - 1) + 1] \in Nat
    BY <1>8, <1>12
  <2>3. new[i - 1] = end[i] - Len(first) /\ end[i] \in Nat
    BY <1>12, <2>2
  <2>4. shorter[i] = messages[i + 1]
    BY <1>4
  <2> QED
    BY <1>2, <2>1, <2>2, <2>3, <2>4
<1>14. ASSUME NEW i \in 1..(n - 1), NEW x \in 1..Len(shorter[i])
       PROVE  bytes[new[i - 1] + x] = shorter[i][x]
  <2>1. shorter[i] = messages[i + 1] /\ Len(messages[i + 1]) \in Nat
    BY <1>4, <1>5, <1>12
  <2>2. all[end[i] + x] = messages[i + 1][x]
    <3>1. all[end[(i + 1) - 1] + x] = messages[i + 1][x]
      BY <1>1, <1>12, <2>1
    <3> QED
      BY <1>12, <3>1
  <2>3. end[i] = Len(first) + new[i - 1] /\ new[i - 1] \in Nat
    <3>1. new[i - 1] = end[(i - 1) + 1] - Len(first) /\ end[(i - 1) + 1] \in Nat
      BY <1>8, <1>12
    <3> QED
      BY <1>2, <1>9, <1>12, <3>1
  <2>4. new[i - 1] + x <= Len(bytes)
    <3>1. new[i] <= new[n - 1] /\ new[i] \in Nat
      BY <1>3, <1>9, <1>11, <1>12
    <3>2. new[i] = new[i - 1] + Len(shorter[i])
      BY <1>13
    <3> QED
      BY <1>10, <2>1, <2>3, <3>1, <3>2
  <2>5. all[Len(first) + (new[i - 1] + x)] = bytes[new[i - 1] + x]
    BY <1>2, <2>1, <2>3, <2>4 DEF all
  <2>6. Len(first) + (new[i - 1] + x) = end[i] + x
    BY <1>2, <2>1, <2>3
  <2> QED
    BY <2>1, <2>2, <2>5, <2>6
<1>15. EndsOf(new, bytes, shorter)
  BY <1>3, <1>10, <1>11, <1>13, <1>14 DEF EndsOf
<1> QED
  BY <1>3, <1>9, <1>15 DEF Concatenation, shorter

-----------------------------------------------------------------------------
(* The stream *)

\* A message of at most PipeBuf bytes enters the pipe in one piece.
LEMMA WriteIsWhole ==
  ASSUME PlainTraces, TypeInv, NEW t \in Threads, Write(t)
  PROVE  /\ writing[t] \in Messages
         /\ buffer' = buffer \o writing[t]
         /\ Len(buffer) + Len(writing[t]) <= PipeSize
         /\ writing' = [writing EXCEPT ![t] = <<>>]
         /\ sent' = Append(sent, writing[t])
<1> DEFINE m == writing[t]
<1>1. PICK n \in 1..Len(m) :
        /\ Len(buffer) + n <= PipeSize
        /\ Begins(t) /\ Len(m) <= PipeBuf => n = Len(m)
        /\ buffer' = buffer \o SubSeq(m, 1, n)
        /\ writing' = [writing EXCEPT ![t] = SubSeq(m, n + 1, Len(m))]
        /\ sent' = IF Begins(t) THEN Append(sent, m) ELSE sent
  BY DEF Write, TypeInv
<1>2. m \in Messages
  BY <1>1 DEF TypeInv
<1>3. m \in Seq(Bytes) /\ Len(m) \in 2..PipeBuf /\ m[1] = "$"
  BY <1>2, MessageShape
<1>4. Begins(t) /\ n = Len(m)
  BY <1>1, <1>3, PipeFramingAssumption DEF Begins
<1>5. SubSeq(m, 1, n) = m /\ SubSeq(m, n + 1, Len(m)) = <<>>
  BY <1>3, <1>4, PipeFramingAssumption
<1> QED
  BY <1>1, <1>2, <1>4, <1>5

\* Two $ were read exactly when a message was, and never more.
LEMMA SecondDollarEnds ==
  ASSUME PlainTraces, TypeInv, NEW messages \in Seq(Messages), UnhandledAre(messages)
  PROVE  /\ receivedCharacter \in 0..2
         /\ messages = <<>> => result = <<>> /\ buffer = <<>>
         /\ receivedCharacter = 2 <=> messages # <<>> /\ result = messages[1]
<1> DEFINE D == {i \in DOMAIN result : result[i] = "$"}
<1>1. receivedCharacter = Cardinality(D)
  BY DEF receivedCharacter
<1>2. result \in Seq(Bytes) /\ buffer \in Seq(Bytes) /\ result \o buffer \in Seq(Bytes)
  BY DEF TypeInv
<1>3. CASE messages = <<>>
  <2>1. result \o buffer = <<>>
    BY <1>2, <1>3, EmptyConcatenation DEF UnhandledAre
  <2>2. result = <<>> /\ buffer = <<>>
    BY <1>2, <2>1
  <2>3. D = {}
    BY <2>2
  <2> HIDE DEF D
  <2> QED
    BY <1>1, <1>3, <2>2, <2>3, FS_EmptySet
<1>4. CASE messages # <<>>
  <2>1. PICK m : m = messages[1]
    OBVIOUS
  <2>2. /\ m \in Messages /\ Len(result) <= Len(m)
        /\ \A x \in 1..Len(m) : (result \o buffer)[x] = m[x]
    BY <1>2, <1>4, <2>1, ConcatenationBegins DEF UnhandledAre
  <2>3. /\ m \in Seq(Bytes) /\ Len(m) \in Nat /\ 2 <= Len(m) /\ m[1] = "$" /\ m[Len(m)] = "$"
        /\ \A i \in 2..(Len(m) - 1) : m[i] # "$"
    BY <2>2, MessageShape, PipeFramingAssumption
  <2>4. \A x \in 1..Len(result) : result[x] = m[x]
    <3>1. \A x \in 1..Len(result) : (result \o buffer)[x] = result[x]
      BY <1>2, ConcatBegins
    <3>2. \A x \in 1..Len(result) : x \in 1..Len(m)
      BY <1>2, <2>2, <2>3
    <3> QED
      BY <2>2, <3>1, <3>2
  <2>5. CASE Len(result) = Len(m)
    <3>1. result = m
      BY <1>2, <2>3, <2>4, <2>5, SeqEqual
    <3>2. D = {1, Len(m)}
      BY <2>3, <3>1
    <3>3. IsFiniteSet({1}) /\ Cardinality({1}) = 1
      BY FS_Singleton
    <3>4. D = {1} \cup {Len(m)} /\ Len(m) \notin {1}
      BY <2>3, <3>2
    <3> HIDE DEF D
    <3>5. Cardinality({1} \cup {Len(m)}) = Cardinality({1}) + 1
      BY <3>3, <3>4, FS_AddElement
    <3>6. Cardinality(D) = Cardinality({1} \cup {Len(m)})
      BY <3>4, Zenon
    <3>7. receivedCharacter = 2
      BY <1>1, <3>3, <3>5, <3>6
    <3> QED
      BY <1>4, <2>1, <3>1, <3>7
  <2>6. CASE Len(result) < Len(m)
    <3>1. D \subseteq {1}
      <4> SUFFICES ASSUME NEW i \in 1..Len(result), i # 1 PROVE result[i] # "$"
        BY <1>2
      <4>1. i \in 2..(Len(m) - 1)
        BY <1>2, <2>3, <2>6
      <4> QED
        BY <2>3, <2>4, <4>1
    <3>2. Cardinality(D) \in {0, 1}
      <4>1. D = {} \/ D = {1}
        BY <3>1
      <4> HIDE DEF D
      <4> QED
        BY <4>1, FS_EmptySet, FS_Singleton
    <3>3. result # m
      BY <1>2, <2>3, <2>6
    <3> HIDE DEF D
    <3> QED
      BY <1>1, <1>4, <2>1, <3>2, <3>3
  <2> QED
    BY <1>2, <2>2, <2>3, <2>5, <2>6
<1> QED
  BY <1>3, <1>4

\* StreamInv only depends on the bytes and messages on their way.
LEMMA StreamUnchanged ==
  ASSUME StreamInv, UNCHANGED <<sent, received, result, buffer>>
  PROVE  StreamInv'
  BY DEF StreamInv, UnhandledAre

\* A write keeps the stream: its bytes and its message are added together.
LEMMA WriteStream ==
  ASSUME PlainTraces, TypeInv, StreamInv, NEW t \in Threads, Write(t)
  PROVE  StreamInv'
<1>1. PICK messages \in Seq(Messages) : UnhandledAre(messages)
  BY DEF StreamInv
<1>2. PICK m \in Messages : buffer' = buffer \o m /\ sent' = Append(sent, m)
  BY WriteIsWhole
<1>3. m \in Seq(Bytes)
  BY MessageShape
<1>4. result' = result /\ received' = received
  BY DEF Write, parent
<1>5. sent' = received' \o Append(messages, m)
  <2>1. sent' = Append(received \o messages, m) /\ received' = received
    BY <1>1, <1>2, <1>4 DEF UnhandledAre
  <2>2. received \in Seq(Messages)
    BY DEF TypeInv
  <2>3. Append(received \o messages, m) = received \o Append(messages, m)
    BY <2>2, SMT
  <2> QED
    BY <2>1, <2>3
<1>6. result' \o buffer' = (result \o buffer) \o m
  <2>1. result \in Seq(Bytes) /\ buffer \in Seq(Bytes)
    BY DEF TypeInv
  <2> QED
    BY <1>2, <1>3, <1>4, <2>1, ConcatAssociates
<1>7. Concatenation(result' \o buffer', Append(messages, m))
  <2>1. result \o buffer \in Seq(Bytes)
    BY DEF TypeInv
  <2>2. Concatenation(result \o buffer, messages)
    BY <1>1 DEF UnhandledAre
  <2>3. Concatenation((result \o buffer) \o m, Append(messages, m))
    BY <2>1, <2>2, ConcatenationGrows
  <2> QED
    BY <1>6, <2>3
<1>8. Len(result') <= Len(Append(messages, m)[1])
  <2>1. CASE messages = <<>>
    <3>1. Append(messages, m)[1] = m /\ Len(m) \in Nat
      BY <1>3, <2>1
    <3>2. result = <<>>
      BY <1>1, <2>1, SecondDollarEnds
    <3> QED
      BY <1>4, <3>1, <3>2
  <2>2. CASE messages # <<>>
    <3>1. Append(messages, m)[1] = messages[1]
      BY <2>2
    <3> QED
      BY <1>1, <1>4, <2>2, <3>1 DEF UnhandledAre
  <2> QED
    BY <2>1, <2>2
<1>9. UnhandledAre(Append(messages, m))'
  BY <1>5, <1>7, <1>8 DEF UnhandledAre
<1>10. Append(messages, m) \in Seq(Messages)
  OBVIOUS
<1> QED
  BY <1>9, <1>10 DEF StreamInv

\* A byte read keeps the stream: it only moves within it.
LEMMA ReadStream ==
  ASSUME PlainTraces, TypeInv, StreamInv, ReadBetweenChars
  PROVE  StreamInv'
<1>1. PICK messages \in Seq(Messages) : UnhandledAre(messages)
  BY DEF StreamInv
<1>2. result' \o buffer' = result \o buffer /\ Len(result') = Len(result) + 1
  BY DEF ReadBetweenChars, TypeInv
<1>3. sent' = sent /\ received' = received
  BY DEF ReadBetweenChars
<1>4. messages # <<>> /\ Len(result') <= Len(messages[1])
  <2>1. messages # <<>> /\ result # messages[1]
    BY <1>1, SecondDollarEnds DEF ReadBetweenChars
  <2>2. PICK m : m = messages[1]
    OBVIOUS
  <2>3. /\ m \in Messages /\ Len(result) <= Len(m)
        /\ \A x \in 1..Len(m) : (result \o buffer)[x] = m[x]
    <3>1. result \o buffer \in Seq(Bytes)
      BY DEF TypeInv
    <3>2. Concatenation(result \o buffer, messages) /\ Len(result) <= Len(messages[1])
      BY <1>1, <2>1 DEF UnhandledAre
    <3> QED
      BY <2>1, <2>2, <3>1, <3>2, ConcatenationBegins
  <2>4. m \in Seq(Bytes)
    BY <2>3, MessageShape
  <2>5. Len(result) # Len(m)
    <3> SUFFICES ASSUME Len(result) = Len(m) PROVE result = m
      BY <2>1, <2>2
    <3>1. result \in Seq(Bytes) /\ buffer \in Seq(Bytes)
      BY DEF TypeInv
    <3>2. \A x \in 1..Len(result) : result[x] = m[x]
      BY <2>3, <3>1, ConcatBegins
    <3> QED
      BY <2>4, <3>1, <3>2, SeqEqual
  <2> QED
    BY <1>2, <2>1, <2>2, <2>3, <2>4, <2>5 DEF TypeInv
<1>5. UnhandledAre(messages)'
  BY <1>1, <1>2, <1>3, <1>4 DEF UnhandledAre
<1> QED
  BY <1>5 DEF StreamInv

\* Handling a message receives the first of those sent and not received.
LEMMA HandleStream ==
  ASSUME PlainTraces, TypeInv, StreamInv, HandleMessage
  PROVE  /\ StreamInv'
         /\ result \in Messages
         /\ Len(received) < Len(sent) /\ result = sent[Len(received) + 1]
<1>1. PICK messages \in Seq(Messages) : UnhandledAre(messages)
  BY DEF StreamInv
<1>2. messages # <<>> /\ result = messages[1]
  BY <1>1, SecondDollarEnds DEF HandleMessage
<1>3. result \in Messages /\ result \in Seq(Bytes) /\ buffer \in Seq(Bytes)
  BY <1>2 DEF TypeInv
<1>4. received' = Append(received, result) /\ result' = <<>> /\ UNCHANGED <<sent, buffer>>
  BY DEF HandleMessage
<1>5. Len(received) < Len(sent) /\ result = sent[Len(received) + 1]
  BY <1>1, <1>2 DEF UnhandledAre, TypeInv
<1>6. sent' = received' \o Tail(messages)
  BY <1>1, <1>2, <1>3, <1>4 DEF UnhandledAre, TypeInv
<1>7. Concatenation(result' \o buffer', Tail(messages))
  <2>1. Concatenation(result \o buffer, messages)
    BY <1>1 DEF UnhandledAre
  <2>2. Concatenation(buffer, Tail(messages))
    BY <1>2, <1>3, <2>1, ConcatenationShrinks
  <2>3. result' \o buffer' = buffer
    BY <1>3, <1>4
  <2> QED
    BY <2>2, <2>3
<1>8. Tail(messages) \in Seq(Messages)
  BY <1>2
<1>9. Tail(messages) # <<>> => Len(result') <= Len(Tail(messages)[1])
  <2> SUFFICES ASSUME Tail(messages) # <<>> PROVE Len(Tail(messages)[1]) \in Nat
    BY <1>4
  <2>1. Tail(messages)[1] \in Messages
    BY <1>8
  <2> QED
    BY <2>1, MessageShape
<1>10. UnhandledAre(Tail(messages))'
  BY <1>6, <1>7, <1>9 DEF UnhandledAre
<1> QED
  BY <1>3, <1>5, <1>8, <1>10 DEF StreamInv

-----------------------------------------------------------------------------
(* The questions *)

\* The $WAIT$s among some messages are finitely many.
LEMMA CountWaits ==
  ASSUME NEW messages \in Seq(Messages)
  PROVE  IsFiniteSet(Waits(messages)) /\ Cardinality(Waits(messages)) \in Nat
<1>1. Waits(messages) \subseteq 1..Len(messages) /\ IsFiniteSet(1..Len(messages))
  BY FS_Interval DEF Waits
<1> QED
  BY <1>1, FS_Subset, FS_CardinalityType

\* An appended message is one more $WAIT$ if it is one.
LEMMA AppendCounts ==
  ASSUME NEW messages \in Seq(Messages), NEW m \in Messages
  PROVE  Cardinality(Waits(Append(messages, m))) =
           Cardinality(Waits(messages)) + (IF m = waitMessage_ THEN 1 ELSE 0)
<1> DEFINE n == Len(messages)
<1>1. n + 1 \notin Waits(messages)
  BY DEF Waits
<1>2. IsFiniteSet(Waits(messages)) /\ Cardinality(Waits(messages)) \in Nat
  BY CountWaits
<1>3. CASE m = waitMessage_
  <2>1. Waits(Append(messages, m)) = Waits(messages) \cup {n + 1}
    BY <1>3 DEF Waits
  <2>2. Cardinality(Waits(messages) \cup {n + 1}) = Cardinality(Waits(messages)) + 1
    BY <1>1, <1>2, FS_AddElement
  <2> QED
    BY <1>3, <2>1, <2>2
<1>4. CASE m # waitMessage_
  <2>1. Waits(Append(messages, m)) = Waits(messages)
    BY <1>4 DEF Waits
  <2> QED
    BY <1>2, <1>4, <2>1
<1> QED
  BY <1>3, <1>4

\* No more $WAIT$s are received than were sent.
LEMMA ReceivedBeforeSent ==
  ASSUME TypeInv, StreamInv
  PROVE  AsksSent \in Nat /\ AsksReceived \in Nat /\ AsksReceived <= AsksSent
<1>1. PICK messages \in Seq(Messages) : sent = received \o messages
  BY DEF StreamInv, UnhandledAre
<1>2. received \in Seq(Messages) /\ sent \in Seq(Messages)
  BY DEF TypeInv
<1>3. Waits(received) \subseteq Waits(sent)
  BY <1>1, <1>2 DEF Waits
<1> QED
  BY <1>2, <1>3, CountWaits, FS_Subset DEF AsksSent, AsksReceived

-----------------------------------------------------------------------------
(* The steps *)

\* $WAIT$ is a message.
LEMMA WaitMessage == waitMessage_ \in Messages /\ waitMessage_ # <<>>
<1>1. ASSUME NEW body \in Seq(Bytes) PROVE Frame(body) # <<>>
  <2>1. Frame(body) \in Seq(Bytes) /\ Len(Frame(body)) # 0
    BY FrameShape
  <2> QED
    BY <2>1
<1> QED
  BY <1>1, WaitIsABody DEF Messages, waitMessage_

\* The inductive invariant holds initially.
LEMMA InitIInv == ASSUME PlainTraces, Init PROVE IInv
<1> USE PipeFramingAssumption DEF Init
<1>1. TypeInv
  BY DEF TypeInv, maxWaitCount
<1>2. WritingInv
  BY WaitMessage DEF WritingInv, Threads
<1>3. StreamInv
  <2>1. <<>> \in Seq(Messages) /\ sent = received \o <<>> /\ result \o buffer = <<>>
    OBVIOUS
  <2>2. UnhandledAre(<<>>)
    BY <2>1, EmptyConcatenation DEF UnhandledAre
  <2> QED
    BY <2>1, <2>2 DEF StreamInv
<1>4. HandshakeInv
  <2>1. Waits(<<>>) = {}
    BY DEF Waits
  <2>2. AsksSent = 0 /\ AsksReceived = 0
    BY <2>1, FS_EmptySet DEF AsksSent, AsksReceived
  <2> QED
    BY <2>2 DEF HandshakeInv, maxWaitCount
<1> QED
  BY <1>1, <1>2, <1>3, <1>4 DEF IInv

\* Ask keeps the inductive invariant.
LEMMA AskStep == ASSUME PlainTraces, IInv, Ask PROVE IInv'
<1> USE DEF IInv, Ask, parent
<1>1. TypeInv'
  BY WaitMessage DEF TypeInv
<1>2. WritingInv'
  BY WaitMessage, PipeFramingAssumption DEF WritingInv, TypeInv, Threads
<1>3. StreamInv'
  BY StreamUnchanged
<1>4. HandshakeInv'
  BY WaitMessage DEF HandshakeInv, TypeInv, Threads, AsksSent, AsksReceived
<1> QED
  BY <1>1, <1>2, <1>3, <1>4

\* GoOn keeps the inductive invariant.
LEMMA GoOnStep == ASSUME PlainTraces, IInv, GoOn PROVE IInv'
<1> USE DEF IInv, GoOn, parent
<1>1. TypeInv'
  BY DEF TypeInv, HandshakeInv, maxWaitCount
<1>2. WritingInv'
  BY DEF WritingInv
<1>3. StreamInv'
  BY StreamUnchanged
<1>4. HandshakeInv'
  BY DEF HandshakeInv, TypeInv, AsksSent, AsksReceived, maxWaitCount
<1> QED
  BY <1>1, <1>2, <1>3, <1>4

\* Trace keeps the inductive invariant.
LEMMA TraceStep ==
  ASSUME PlainTraces, IInv, NEW t \in Streaming, TraceCallbackFunction(t)
  PROVE  IInv'
<1> USE DEF IInv, TraceCallbackFunction, parent
<1>1. PICK body \in Traces : writing' = [writing EXCEPT ![t] = Frame(body)]
  OBVIOUS
<1>2. Frame(body) \in Messages /\ Frame(body) # waitMessage_
  BY TracesAreNotWait DEF Messages
<1>3. t # Main /\ t \in Threads
  BY PipeFramingAssumption DEF Threads
<1>4. TypeInv'
  BY <1>1, <1>2, <1>3, PipeFramingAssumption DEF TypeInv
<1>5. WritingInv'
  BY <1>1, <1>2, <1>3 DEF WritingInv, TypeInv, Threads
<1>6. StreamInv'
  BY StreamUnchanged
<1>7. HandshakeInv'
  BY <1>1, <1>3 DEF HandshakeInv, TypeInv, Threads, AsksSent, AsksReceived
<1> QED
  BY <1>4, <1>5, <1>6, <1>7

\* Write keeps the inductive invariant.
LEMMA WriteStep ==
  ASSUME PlainTraces, IInv, NEW t \in Threads, Write(t)
  PROVE  IInv'
<1> USE DEF IInv
<1>1. PICK m \in Messages : /\ m = writing[t]
                           /\ buffer' = buffer \o m
                           /\ Len(buffer) + Len(m) <= PipeSize
                           /\ writing' = [writing EXCEPT ![t] = <<>>]
                           /\ sent' = Append(sent, m)
  BY WriteIsWhole
<1>2. ChildRuns /\ UNCHANGED <<child, parent, done, heir>>
  BY DEF Write
<1>3. m \in Seq(Bytes)
  BY <1>1, MessageShape
<1>4. TypeInv'
  <2>1. buffer' \in Seq(Bytes) /\ Len(buffer') = Len(buffer) + Len(m)
    BY <1>1, <1>3 DEF TypeInv
  <2> QED
    BY <1>1, <1>2, <2>1 DEF TypeInv, child, parent
<1>5. WritingInv'
  BY <1>1, <1>2, WaitMessage DEF WritingInv, TypeInv, child, Threads
<1>6. StreamInv'
  BY WriteStream
<1>7. HandshakeInv'
  <2>1. AsksReceived' = AsksReceived
    BY <1>2 DEF AsksReceived, parent
  <2>2. AsksSent' = AsksSent + (IF m = waitMessage_ THEN 1 ELSE 0) /\ AsksSent \in Nat
    BY <1>1, AppendCounts, CountWaits DEF AsksSent, TypeInv
  <2>3. CASE t = Main
    <3>1. m = waitMessage_ /\ main = "asks"
      BY <1>1, <1>2, <2>3, <1>3, MessageShape, PipeFramingAssumption DEF WritingInv, TypeInv, ChildRuns
    <3>2. writing[Main] # <<>> /\ writing'[Main] = <<>>
      BY <1>1, <2>3, <3>1, WaitMessage DEF TypeInv
    <3> QED
      BY <1>2, <2>1, <2>2, <3>1, <3>2 DEF HandshakeInv, TypeInv, child, parent, maxWaitCount
  <2>4. CASE t \in Streaming
    <3>1. m # waitMessage_ /\ t # Main
      BY <1>1, <2>4, PipeFramingAssumption DEF WritingInv
    <3>2. writing'[Main] = writing[Main]
      BY <1>1, <3>1 DEF TypeInv
    <3>3. AsksSent' = AsksSent
      BY <2>2, <3>1
    <3> QED
      BY <1>2, <2>1, <3>2, <3>3 DEF HandshakeInv, child, parent
  <2> QED
    BY <2>3, <2>4 DEF Threads
<1> QED
  BY <1>4, <1>5, <1>6, <1>7

\* BrokenPipe keeps the inductive invariant.
LEMMA BrokenPipeStep ==
  ASSUME PlainTraces, IInv, NEW t \in Threads, BrokenPipe(t)
  PROVE  IInv'
<1> USE DEF IInv, BrokenPipe, parent
<1>1. TypeInv' /\ WritingInv'
  BY DEF TypeInv, WritingInv
<1>2. StreamInv'
  BY StreamUnchanged
<1>3. HandshakeInv'
  BY DEF HandshakeInv, AsksSent, AsksReceived
<1> QED
  BY <1>1, <1>2, <1>3

\* FreeMemory keeps the inductive invariant.
LEMMA FreeMemoryStep == ASSUME PlainTraces, IInv, FreeMemory PROVE IInv'
<1> USE DEF IInv, FreeMemory, parent
<1>1. TypeInv' /\ WritingInv'
  BY DEF TypeInv, WritingInv, Threads
<1>2. StreamInv'
  BY StreamUnchanged
<1>3. HandshakeInv'
  BY DEF HandshakeInv, AsksSent, AsksReceived
<1> QED
  BY <1>1, <1>2, <1>3

\* BytesAvailable keeps the inductive invariant.
LEMMA BytesAvailableStep == ASSUME PlainTraces, IInv, BytesAvailable PROVE IInv'
<1> USE DEF IInv, BytesAvailable, child
<1>1. TypeInv' /\ WritingInv'
  BY DEF TypeInv, WritingInv
<1>2. StreamInv'
  BY StreamUnchanged
<1>3. HandshakeInv'
  BY DEF HandshakeInv, AsksSent, AsksReceived
<1> QED
  BY <1>1, <1>2, <1>3

\* Read keeps the inductive invariant.
LEMMA ReadStep == ASSUME PlainTraces, IInv, ReadBetweenChars PROVE IInv'
<1> USE DEF IInv, ReadBetweenChars, child
<1>1. TypeInv'
  BY PipeFramingAssumption DEF TypeInv
<1>2. WritingInv'
  BY DEF WritingInv
<1>3. StreamInv'
  BY ReadStream
<1>4. HandshakeInv'
  BY DEF HandshakeInv, AsksSent, AsksReceived
<1> QED
  BY <1>1, <1>2, <1>3, <1>4

\* Handle keeps the inductive invariant.
LEMMA HandleStep == ASSUME PlainTraces, IInv, HandleMessage PROVE IInv'
<1> USE DEF IInv, HandleMessage, child
<1>1. result \in Messages /\ StreamInv'
  BY HandleStream
<1>2. TypeInv'
  BY <1>1 DEF TypeInv
<1>3. WritingInv'
  BY DEF WritingInv
<1>4. HandshakeInv'
  <2>1. AsksReceived' = AsksReceived + (IF result = waitMessage_ THEN 1 ELSE 0)
    BY <1>1, AppendCounts DEF AsksReceived, TypeInv
  <2>2. AsksReceived \in Nat /\ AsksSent' = AsksSent
    BY CountWaits DEF AsksReceived, AsksSent, TypeInv
  <2> QED
    BY <2>1, <2>2 DEF HandshakeInv, TypeInv
<1> QED
  BY <1>1, <1>2, <1>3, <1>4

\* Answer keeps the inductive invariant.
LEMMA AnswerStep == ASSUME PlainTraces, IInv, Answer PROVE IInv'
<1> USE DEF IInv, Answer, child
<1>1. TypeInv' /\ WritingInv'
  BY DEF TypeInv, WritingInv
<1>2. StreamInv'
  BY StreamUnchanged
<1>3. HandshakeInv'
  BY DEF HandshakeInv, TypeInv, AsksSent, AsksReceived
<1> QED
  BY <1>1, <1>2, <1>3

\* Exit keeps the inductive invariant.
LEMMA ExitStep ==
  ASSUME PlainTraces, IInv, ToolExits \/ HeirEnds \/ UNCHANGED vars
  PROVE  IInv'
<1> USE DEF IInv, ToolExits, HeirEnds, vars, child, parent
<1>1. TypeInv' /\ WritingInv'
  BY DEF TypeInv, WritingInv
<1>2. StreamInv'
  BY StreamUnchanged
<1>3. HandshakeInv'
  BY DEF HandshakeInv, AsksSent, AsksReceived
<1> QED
  BY <1>1, <1>2, <1>3

\* Every step keeps the inductive invariant.
LEMMA NextIInv == ASSUME PlainTraces, IInv, [Next]_vars PROVE IInv'
  BY AskStep, GoOnStep, TraceStep, WriteStep, BrokenPipeStep, FreeMemoryStep,
     BytesAvailableStep, ReadStep, HandleStep, AnswerStep, ExitStep
     DEF Next, Runner

-----------------------------------------------------------------------------
(* Theorems *)

\* The inductive invariant holds in every state, if the traces are plain ones.
THEOREM Invariance == PlainTraces => (Spec => []IInv)
<1> SUFFICES ASSUME PlainTraces PROVE Spec => []IInv
  OBVIOUS
<1>1. Init => IInv
  BY InitIInv
<1>2. IInv /\ [Next]_vars => IInv'
  BY NextIInv
<1> QED
  BY <1>1, <1>2, PTL DEF Spec

\* The inductive invariant contains the types.
LEMMA Types == ASSUME PlainTraces, IInv PROVE TypeOK
<1> USE DEF IInv
<1>1. receivedCharacter \in 0..2
  BY SecondDollarEnds DEF StreamInv
<1>2. waitCount \in 0..maxWaitCount /\ done \in {0, 1}
  BY ReceivedBeforeSent DEF HandshakeInv, TypeInv, maxWaitCount
<1> QED
  BY <1>1, <1>2 DEF TypeInv, TypeOK, HandshakeInv

\* Whatever is traced, the runner never reads past the end of a message, and gives one
\* answer for each question.
THEOREM TypeCorrect == PlainTraces => (Spec => []TypeOK)
<1> SUFFICES ASSUME PlainTraces PROVE Spec => []TypeOK
  OBVIOUS
<1>1. IInv => TypeOK
  BY Types
<1> QED
  BY <1>1, Invariance, PTL

\* Initially the queue is empty.
LEMMA QueueInit == ASSUME Init PROVE Q!Init
  BY DEF Init, Q!Init

\* Every step sends one message, receives one, or does neither.
LEMMA QueueStep ==
  ASSUME PlainTraces, IInv, [Next]_vars
  PROVE  [Q!Send \/ Q!Receive]_<<sent, received>>
<1>1. ASSUME NEW t \in Threads, Write(t) PROVE Q!Send
  BY <1>1, WriteIsWhole DEF IInv, Write, parent, Q!Send
<1>2. ASSUME HandleMessage PROVE Q!Receive
  BY <1>2, HandleStream DEF IInv, HandleMessage, Q!Receive
<1>3. CASE UNCHANGED <<sent, received>>
  BY <1>3
<1> QED
  BY <1>1, <1>2, <1>3
     DEF Next, Runner, vars, child, parent, Ask, GoOn, FreeMemory, HeirEnds,
         TraceCallbackFunction, BrokenPipe, BytesAvailable, ReadBetweenChars, Answer,
         ToolExits

\* The pipe implements the queue of whole messages: a write to it is a Send, the handling
\* of a message a Receive, and every other step leaves the queue alone.
THEOREM QueueImplemented == PlainTraces => (Spec => ImplementsQueue)
<1> SUFFICES ASSUME PlainTraces PROVE Spec => ImplementsQueue
  OBVIOUS
<1>1. Init => Q!Init
  BY QueueInit
<1>2. IInv /\ [Next]_vars => [Q!Send \/ Q!Receive]_<<sent, received>>
  BY QueueStep
<1> QED
  BY <1>1, <1>2, Invariance, PTL DEF Spec, ImplementsQueue, Q!Spec
================================================================================
