---------------------------- MODULE ReplayProofs ----------------------------
(***************************************************************************)
(* What a log replays to, piece by piece, and two facts about every        *)
(* operation of the context: the memory stays what its log replays to      *)
(* (ContextStepSound), and the steers of the conversation keep their order *)
(* (ContextStepTells).                                                     *)
(***************************************************************************)
EXTENDS ContextProofs

-----------------------------------------------------------------------------
(***************************************************************************)
(* Ranks.                                                                  *)
(***************************************************************************)
\* The first lines alone decide the rank.
LEMMA RankSame ==
  ASSUME NEW a, NEW b, NEW i \in Nat, \A j \in 1 .. i : a[j] = b[j]
  PROVE  Rank(a, i) = Rank(b, i)
<1>1. {j \in 1 .. i : IsMessage(a[j])} = {j \in 1 .. i : IsMessage(b[j])}
  OBVIOUS
<1> QED BY <1>1 DEF Rank

\* Where the lines of two logs are in their concatenation.
LEMMA ConcatAt ==
  ASSUME NEW S, NEW a \in Seq(S), NEW b \in Seq(S)
  PROVE  /\ a \o b \in Seq(S)
         /\ Len(a) \in Nat /\ DOMAIN a = 1 .. Len(a)
         /\ Len(b) \in Nat /\ DOMAIN b = 1 .. Len(b)
         /\ Len(a \o b) = Len(a) + Len(b)
         /\ DOMAIN (a \o b) = 1 .. Len(a) + Len(b)
         /\ \A i \in 1 .. Len(a) : (a \o b)[i] = a[i]
         /\ \A i \in 1 .. Len(b) : (a \o b)[Len(a) + i] = b[i]
<1>1. /\ a \o b \in Seq(S) /\ Len(a \o b) = Len(a) + Len(b)
      /\ \A i \in 1 .. Len(a) + Len(b) :
           (a \o b)[i] = IF i <= Len(a) THEN a[i] ELSE b[i - Len(a)]
  BY ConcatProperties
<1>2. /\ Len(a) \in Nat /\ DOMAIN a = 1 .. Len(a)
      /\ Len(b) \in Nat /\ DOMAIN b = 1 .. Len(b)
      /\ DOMAIN (a \o b) = 1 .. Len(a \o b)
  BY <1>1, LenProperties
<1>3. \A i \in 1 .. Len(a) : (a \o b)[i] = a[i]
  BY <1>1, <1>2
<1>4. ASSUME NEW i \in 1 .. Len(b)
      PROVE  (a \o b)[Len(a) + i] = b[i]
  <2>1. /\ Len(a) + i \in 1 .. Len(a) + Len(b) /\ ~(Len(a) + i <= Len(a))
        /\ (Len(a) + i) - Len(a) = i
    BY <1>2
  <2> QED BY <1>1, <2>1
<1> QED BY <1>1, <1>2, <1>3, <1>4

\* Ranks add up along a concatenation.
LEMMA RankConcat ==
  ASSUME NEW a \in Seq(Line), NEW b \in Seq(Line), NEW j \in 0 .. Len(b)
  PROVE  Rank(a \o b, Len(a) + j) = Rank(a, Len(a)) + Rank(b, j)
<1> DEFINE c == a \o b
           n == Len(a)
           S == {i \in 0 .. Len(b) : Rank(c, n + i) # Rank(a, n) + Rank(b, i)}
<1>1. /\ n \in Nat /\ Len(b) \in Nat
      /\ \A i \in 1 .. n : c[i] = a[i]
      /\ \A i \in 1 .. Len(b) : c[n + i] = b[i]
  BY ConcatAt
<1> HIDE DEF c, n
<1>2. SUFFICES ASSUME S # {} PROVE FALSE
  BY <1>2 DEF c, n
<1>3. PICK m \in S : \A x \in S : m <= x
  <2>1. S \in SUBSET Nat
    BY <1>1
  <2> QED BY <1>2, <2>1, NatMin
<1>4. Rank(c, n) = Rank(a, n) /\ Rank(a, n) \in Nat
  BY <1>1, RankSame, RankType
<1>5. m # 0
  <2>1. n + 0 = n /\ Rank(b, 0) = 0 /\ Rank(a, n) + 0 = Rank(a, n)
    BY <1>1, <1>4, RankZero
  <2> QED BY <1>3, <1>4, <2>1
<1>6. PICK i \in 0 .. Len(b) : m = i + 1
  <2>1. m - 1 \in 0 .. Len(b) /\ m = (m - 1) + 1
    BY <1>1, <1>3, <1>5
  <2> QED BY <2>1
<1>7. /\ i \in Nat /\ n + i \in Nat /\ n + (i + 1) = (n + i) + 1
      /\ i + 1 \in 1 .. Len(b)
  BY <1>1, <1>3, <1>6
<1>8. Rank(c, n + i) = Rank(a, n) + Rank(b, i)
  <2>1. i \notin S
    BY <1>3, <1>6, <1>7
  <2> QED BY <2>1
<1>9. c[(n + i) + 1] = b[i + 1]
  BY <1>1, <1>7
<1>10. Rank(c, (n + i) + 1) = IF IsMessage(b[i + 1])
                             THEN Rank(c, n + i) + 1 ELSE Rank(c, n + i)
  BY <1>7, <1>9, RankStep
<1>11. Rank(b, i + 1) = IF IsMessage(b[i + 1]) THEN Rank(b, i) + 1 ELSE Rank(b, i)
  BY <1>7, RankStep
<1>12. Rank(b, i) \in Nat
  BY <1>7, RankType
<1>13. Rank(c, n + m) = Rank(a, n) + Rank(b, m)
  BY <1>4, <1>6, <1>7, <1>8, <1>10, <1>11, <1>12
<1> QED BY <1>3, <1>13

\* In a list of messages every line counts.
LEMMA RankOfMessages ==
  ASSUME NEW msgs \in Seq(Message), NEW j \in 0 .. Len(msgs)
  PROVE  Rank(msgs, j) = j
<1>1. Len(msgs) \in Nat /\ j \in Nat
  BY LenProperties
<1>2. \A i \in 1 .. j : IsMessage(msgs[i])
  <2> SUFFICES ASSUME NEW i \in 1 .. j PROVE IsMessage(msgs[i])
    OBVIOUS
  <2>1. i \in 1 .. Len(msgs)
    BY <1>1
  <2>2. msgs[i] \in Message
    BY <2>1, ElementOfSeq
  <2> QED BY <2>2 DEF Message, IsMessage
<1>3. {i \in 1 .. j : IsMessage(msgs[i])} = 1 .. j
  BY <1>2
<1>4. Cardinality(1 .. j) = j
  BY <1>1, FS_Interval
<1> QED BY <1>3, <1>4 DEF Rank

\* A message has a rank of its own.
LEMMA RankOfMessage ==
  ASSUME NEW log, NEW i \in Nat, NEW j \in Nat, i < j, IsMessage(log[j])
  PROVE  Rank(log, i) < Rank(log, j)
<1>1. j - 1 \in Nat /\ (j - 1) + 1 = j /\ i <= j - 1
  OBVIOUS
<1>2. Rank(log, j) = Rank(log, j - 1) + 1
  BY <1>1, RankStep
<1>3. /\ Rank(log, i) <= Rank(log, j - 1) /\ Rank(log, i) \in Nat
      /\ Rank(log, j - 1) \in Nat
  BY <1>1, RankMonotonic, RankType
<1> QED BY <1>2, <1>3

-----------------------------------------------------------------------------
(***************************************************************************)
(* The messages of a log.                                                  *)
(***************************************************************************)
\* The messages of a log are its lines with a message role, each at its rank.
LEMMA MessagesAt ==
  ASSUME NEW log \in Seq(Line)
  PROVE  /\ Messages(log) \in Seq(Message)
         /\ Len(Messages(log)) = Rank(log, Len(log))
         /\ \A i \in DOMAIN log : IsMessage(log[i]) =>
              /\ Rank(log, i) \in 1 .. Rank(log, Len(log))
              /\ Messages(log)[Rank(log, i)] = log[i]
<1> DEFINE n == Rank(log, Len(log))
           at(k) == CHOOSE i \in DOMAIN log : IsMessage(log[i]) /\ Rank(log, i) = k
<1>1. /\ Len(log) \in Nat /\ DOMAIN log = 1 .. Len(log) /\ n \in Nat
      /\ Messages(log) \in Seq(Message)
  BY LenProperties, RankType, MessagesType
<1>2. Messages(log) = [k \in 1 .. n |-> log[at(k)]]
  BY DEF Messages
<1>3. Len(Messages(log)) = n
  BY <1>1, <1>2, LenProperties
<1>4. ASSUME NEW i \in DOMAIN log, IsMessage(log[i])
      PROVE  Rank(log, i) \in 1 .. n /\ Messages(log)[Rank(log, i)] = log[i]
  <2> DEFINE k == Rank(log, i)
  <2>1. 0 \in Nat /\ i \in Nat /\ 0 < i /\ i <= Len(log)
    BY <1>1
  <2>2. Rank(log, 0) < k /\ k <= n /\ k \in Nat
    BY <1>1, <1>4, <2>1, RankOfMessage, RankMonotonic, RankType
  <2>3. k \in 1 .. n
    BY <1>1, <2>2, RankZero
  <2>4. at(k) \in DOMAIN log /\ IsMessage(log[at(k)]) /\ Rank(log, at(k)) = k
    BY <1>4
  <2>5. at(k) = i
    <3> DEFINE j == at(k)
    <3>1. j \in DOMAIN log /\ IsMessage(log[j]) /\ Rank(log, j) = k
      BY <2>4
    <3> HIDE DEF j
    <3>2. j \in Nat /\ i \in Nat
      BY <1>1, <3>1
    <3> HIDE DEF k
    <3>3. ~(j < i)
      <4>1. ASSUME j < i PROVE Rank(log, j) < k
        BY <1>4, <3>2, <4>1, RankOfMessage DEF k
      <4> QED BY <2>2, <3>1, <4>1
    <3>5. ~(i < j)
      <4>1. ASSUME i < j PROVE k < Rank(log, j)
        BY <3>1, <3>2, <4>1, RankOfMessage DEF k
      <4> QED BY <2>2, <3>1, <4>1
    <3>4. j = i
      BY <3>2, <3>3, <3>5
    <3> QED BY <3>4 DEF j
  <2>6. Messages(log)[k] = log[at(k)]
    BY <1>2, <2>3
  <2> QED BY <2>3, <2>5, <2>6
<1> QED BY <1>1, <1>3, <1>4

\* ... and nothing else has those messages at those ranks.
LEMMA MessagesUnique ==
  ASSUME NEW log \in Seq(Line), NEW m \in Seq(Message),
         Len(m) = Rank(log, Len(log)),
         \A i \in DOMAIN log : IsMessage(log[i]) => m[Rank(log, i)] = log[i]
  PROVE  m = Messages(log)
<1>1. /\ Messages(log) \in Seq(Message) /\ Len(Messages(log)) = Rank(log, Len(log))
      /\ \A i \in DOMAIN log : IsMessage(log[i]) =>
           Messages(log)[Rank(log, i)] = log[i]
  BY MessagesAt
<1>2. ASSUME NEW k \in 1 .. Len(m)
      PROVE  m[k] = Messages(log)[k]
  <2>1. PICK i \in DOMAIN log : IsMessage(log[i]) /\ Rank(log, i) = k
    BY RankOnto
  <2> QED BY <1>1, <2>1
<1> QED BY <1>1, <1>2, SeqEqual

\* The messages of two logs, one after the other.
LEMMA MessagesConcat ==
  ASSUME NEW a \in Seq(Line), NEW b \in Seq(Line)
  PROVE  Messages(a \o b) = Messages(a) \o Messages(b)
<1> DEFINE c == a \o b
           ma == Messages(a)
           mb == Messages(b)
           m == ma \o mb
<1>1. /\ c \in Seq(Line)
      /\ Len(a) \in Nat /\ DOMAIN a = 1 .. Len(a)
      /\ Len(b) \in Nat /\ DOMAIN b = 1 .. Len(b)
      /\ Len(c) = Len(a) + Len(b) /\ DOMAIN c = 1 .. Len(a) + Len(b)
      /\ \A i \in 1 .. Len(a) : c[i] = a[i]
      /\ \A i \in 1 .. Len(b) : c[Len(a) + i] = b[i]
  BY ConcatAt
<1>2. /\ ma \in Seq(Message) /\ Len(ma) = Rank(a, Len(a))
      /\ \A i \in DOMAIN a : IsMessage(a[i]) =>
           Rank(a, i) \in 1 .. Len(ma) /\ ma[Rank(a, i)] = a[i]
  BY MessagesAt
<1>3. /\ mb \in Seq(Message) /\ Len(mb) = Rank(b, Len(b))
      /\ \A i \in DOMAIN b : IsMessage(b[i]) =>
           Rank(b, i) \in 1 .. Len(mb) /\ mb[Rank(b, i)] = b[i]
  BY MessagesAt
<1> HIDE DEF c, ma, mb
<1>4. /\ m \in Seq(Message) /\ Len(m) = Len(ma) + Len(mb)
      /\ \A i \in 1 .. Len(ma) : m[i] = ma[i]
      /\ \A i \in 1 .. Len(mb) : m[Len(ma) + i] = mb[i]
  <2>1. ma \in Seq(Message) /\ mb \in Seq(Message)
    BY <1>2, <1>3
  <2> QED BY <2>1, ConcatAt
<1> HIDE DEF m
<1>5. \A j \in 0 .. Len(b) : Rank(c, Len(a) + j) = Len(ma) + Rank(b, j)
  BY <1>2, RankConcat DEF c
<1>6. Len(m) = Rank(c, Len(c))
  <2>1. Len(b) \in 0 .. Len(b)
    BY <1>1
  <2> QED BY <1>1, <1>3, <1>4, <1>5, <2>1
<1>7. ASSUME NEW i \in DOMAIN c, IsMessage(c[i])
      PROVE  m[Rank(c, i)] = c[i]
  <2>1. CASE i \in 1 .. Len(a)
    <3>1. c[i] = a[i] /\ i \in DOMAIN a /\ i \in Nat
      BY <1>1, <2>1
    <3>2. \A j \in 1 .. i : c[j] = a[j]
      BY <1>1, <2>1
    <3>3. Rank(c, i) = Rank(a, i)
      BY <3>1, <3>2, RankSame
    <3> QED BY <1>2, <1>4, <1>7, <3>1, <3>3
  <2>2. CASE i \notin 1 .. Len(a)
    <3>1. PICK j \in 1 .. Len(b) : i = Len(a) + j
      <4>1. i - Len(a) \in 1 .. Len(b) /\ i = Len(a) + (i - Len(a))
        BY <1>1, <2>2
      <4> QED BY <4>1
    <3>2. c[i] = b[j] /\ j \in DOMAIN b /\ j \in 0 .. Len(b)
      BY <1>1, <3>1
    <3>3. Rank(b, j) \in 1 .. Len(mb) /\ mb[Rank(b, j)] = b[j]
      BY <1>3, <1>7, <3>2
    <3>4. Rank(c, i) = Len(ma) + Rank(b, j)
      BY <1>5, <3>1, <3>2
    <3> QED BY <1>4, <3>2, <3>3, <3>4
  <2> QED BY <2>1, <2>2
<1>8. m = Messages(c)
  BY <1>1, <1>4, <1>6, <1>7, MessagesUnique
<1> QED BY <1>8 DEF m, c, ma, mb

\* A list of messages replays to itself.
LEMMA MessagesOfMessages ==
  ASSUME NEW msgs \in Seq(Message)
  PROVE  Messages(msgs) = msgs
<1>1. msgs \in Seq(Line)
  BY NoWriteNoCheckpoint
<1>2. Len(msgs) \in Nat /\ DOMAIN msgs = 1 .. Len(msgs)
  BY LenProperties
<1>3. \A j \in 0 .. Len(msgs) : Rank(msgs, j) = j
  BY RankOfMessages
<1>4. Len(msgs) = Rank(msgs, Len(msgs))
  BY <1>2, <1>3
<1>5. \A i \in DOMAIN msgs : msgs[Rank(msgs, i)] = msgs[i]
  BY <1>2, <1>3
<1> QED BY <1>1, <1>4, <1>5, MessagesUnique

\* A line that is no message replays to no message.
LEMMA MessagesOfOther ==
  ASSUME NEW x \in Line, ~IsMessage(x)
  PROVE  Messages(<<x>>) = <<>> /\ Rank(<<x>>, 1) = 0
<1>1. <<x>> \in Seq(Line) /\ Len(<<x>>) = 1 /\ <<x>>[1] = x
  OBVIOUS
<1>2. Rank(<<x>>, 0 + 1) = Rank(<<x>>, 0)
  BY <1>1, RankStep
<1>3. Rank(<<x>>, 1) = 0
  BY <1>2, RankZero
<1>4. Len(Messages(<<x>>)) = 0 /\ Messages(<<x>>) \in Seq(Message)
  BY <1>1, <1>3, MessagesAt
<1> QED BY <1>3, <1>4, EmptySeq

\* Nothing replays to nothing.
LEMMA MessagesOfNone == Messages(<<>>) = <<>>
<1>1. <<>> \in Seq(Message)
  OBVIOUS
<1> QED BY <1>1, MessagesOfMessages
-----------------------------------------------------------------------------
(***************************************************************************)
(* The last line of a kind, along a concatenation.                         *)
(***************************************************************************)
\* The last checkpoint line is unique.
LEMMA LastCheckpointIs ==
  ASSUME NEW log \in Seq(Line), NEW i \in DOMAIN log, IsCheckpoint(log[i]),
         \A j \in DOMAIN log : IsCheckpoint(log[j]) => j <= i
  PROVE  Holds(log, IsCheckpoint) /\ Last(log, IsCheckpoint) = i
<1> DEFINE l == Last(log, IsCheckpoint)
<1>1. Holds(log, IsCheckpoint)
  BY DEF Holds
<1>2. /\ l \in DOMAIN log /\ IsCheckpoint(log[l])
      /\ \A j \in DOMAIN log : IsCheckpoint(log[j]) => j <= l
  BY <1>1, LastCheckpointIsLast
<1>3. DOMAIN log = 1 .. Len(log) /\ Len(log) \in Nat
  BY LenProperties
<1> HIDE DEF l
<1>4. l <= i /\ i <= l /\ l \in Nat /\ i \in Nat
  BY <1>2, <1>3
<1>5. l = i
  BY <1>4
<1> QED BY <1>1, <1>5 DEF l

\* The last checkpoint line of two logs is that of the second, if it has one.
LEMMA LastCheckpointConcat ==
  ASSUME NEW a \in Seq(Line), NEW b \in Seq(Line)
  PROVE  /\ Holds(b, IsCheckpoint) =>
              /\ Holds(a \o b, IsCheckpoint)
              /\ Last(a \o b, IsCheckpoint) = Len(a) + Last(b, IsCheckpoint)
         /\ ~Holds(b, IsCheckpoint) /\ Holds(a, IsCheckpoint) =>
              /\ Holds(a \o b, IsCheckpoint)
              /\ Last(a \o b, IsCheckpoint) = Last(a, IsCheckpoint)
         /\ ~Holds(b, IsCheckpoint) /\ ~Holds(a, IsCheckpoint) => ~Holds(a \o b, IsCheckpoint)
<1> DEFINE c == a \o b
<1>1. /\ c \in Seq(Line)
      /\ Len(a) \in Nat /\ DOMAIN a = 1 .. Len(a)
      /\ Len(b) \in Nat /\ DOMAIN b = 1 .. Len(b)
      /\ DOMAIN c = 1 .. Len(a) + Len(b)
      /\ \A i \in 1 .. Len(a) : c[i] = a[i]
      /\ \A i \in 1 .. Len(b) : c[Len(a) + i] = b[i]
  BY ConcatAt
<1> HIDE DEF c
<1>2. ASSUME NEW j \in DOMAIN c
      PROVE  \/ j \in DOMAIN a /\ c[j] = a[j]
             \/ \E k \in DOMAIN b : j = Len(a) + k /\ c[j] = b[k]
  <2>1. CASE j <= Len(a)
    BY <1>1, <2>1
  <2>2. CASE ~(j <= Len(a))
    <3>1. j - Len(a) \in 1 .. Len(b) /\ j = Len(a) + (j - Len(a))
      BY <1>1, <2>2
    <3> QED BY <1>1, <3>1
  <2> QED BY <2>1, <2>2
<1>3. ASSUME Holds(b, IsCheckpoint)
      PROVE  Holds(c, IsCheckpoint) /\ Last(c, IsCheckpoint) = Len(a) + Last(b, IsCheckpoint)
  <2> DEFINE l == Last(b, IsCheckpoint)
  <2>1. /\ l \in DOMAIN b /\ IsCheckpoint(b[l])
        /\ \A j \in DOMAIN b : IsCheckpoint(b[j]) => j <= l
    BY <1>3, LastCheckpointIsLast
  <2> HIDE DEF l
  <2>2. Len(a) + l \in DOMAIN c /\ IsCheckpoint(c[Len(a) + l])
    BY <1>1, <2>1
  <2>3. ASSUME NEW j \in DOMAIN c, IsCheckpoint(c[j])
        PROVE  j <= Len(a) + l
    BY <1>1, <1>2, <2>1, <2>3
  <2>4. Holds(c, IsCheckpoint) /\ Last(c, IsCheckpoint) = Len(a) + l
    BY <1>1, <2>2, <2>3, LastCheckpointIs
  <2> QED BY <2>4 DEF l
<1>4. ASSUME ~Holds(b, IsCheckpoint), Holds(a, IsCheckpoint)
      PROVE  Holds(c, IsCheckpoint) /\ Last(c, IsCheckpoint) = Last(a, IsCheckpoint)
  <2> DEFINE l == Last(a, IsCheckpoint)
  <2>1. /\ l \in DOMAIN a /\ IsCheckpoint(a[l])
        /\ \A j \in DOMAIN a : IsCheckpoint(a[j]) => j <= l
    BY <1>4, LastCheckpointIsLast
  <2> HIDE DEF l
  <2>2. l \in DOMAIN c /\ IsCheckpoint(c[l])
    BY <1>1, <2>1
  <2>3. \A j \in DOMAIN b : ~IsCheckpoint(b[j])
    BY <1>4 DEF Holds
  <2>4. ASSUME NEW j \in DOMAIN c, IsCheckpoint(c[j])
        PROVE  j <= l
    BY <1>2, <2>1, <2>3, <2>4
  <2>5. Holds(c, IsCheckpoint) /\ Last(c, IsCheckpoint) = l
    BY <1>1, <2>2, <2>4, LastCheckpointIs
  <2> QED BY <2>5 DEF l
<1>5. ASSUME ~Holds(b, IsCheckpoint), ~Holds(a, IsCheckpoint)
      PROVE  ~Holds(c, IsCheckpoint)
  BY <1>2, <1>5 DEF Holds
<1> QED BY <1>3, <1>4, <1>5 DEF c

\* The last usage line is unique.
LEMMA LastUsageIs ==
  ASSUME NEW log \in Seq(Line), NEW i \in DOMAIN log, IsUsage(log[i]),
         \A j \in DOMAIN log : IsUsage(log[j]) => j <= i
  PROVE  Holds(log, IsUsage) /\ Last(log, IsUsage) = i
<1> DEFINE l == Last(log, IsUsage)
<1>1. Holds(log, IsUsage)
  BY DEF Holds
<1>2. /\ l \in DOMAIN log /\ IsUsage(log[l])
      /\ \A j \in DOMAIN log : IsUsage(log[j]) => j <= l
  BY <1>1, LastUsageIsLast
<1>3. DOMAIN log = 1 .. Len(log) /\ Len(log) \in Nat
  BY LenProperties
<1> HIDE DEF l
<1>4. l <= i /\ i <= l /\ l \in Nat /\ i \in Nat
  BY <1>2, <1>3
<1>5. l = i
  BY <1>4
<1> QED BY <1>1, <1>5 DEF l

\* The last usage line of two logs is that of the second, if it has one.
LEMMA LastUsageConcat ==
  ASSUME NEW a \in Seq(Line), NEW b \in Seq(Line)
  PROVE  /\ Holds(b, IsUsage) =>
              /\ Holds(a \o b, IsUsage)
              /\ Last(a \o b, IsUsage) = Len(a) + Last(b, IsUsage)
         /\ ~Holds(b, IsUsage) /\ Holds(a, IsUsage) =>
              /\ Holds(a \o b, IsUsage)
              /\ Last(a \o b, IsUsage) = Last(a, IsUsage)
         /\ ~Holds(b, IsUsage) /\ ~Holds(a, IsUsage) => ~Holds(a \o b, IsUsage)
<1> DEFINE c == a \o b
<1>1. /\ c \in Seq(Line)
      /\ Len(a) \in Nat /\ DOMAIN a = 1 .. Len(a)
      /\ Len(b) \in Nat /\ DOMAIN b = 1 .. Len(b)
      /\ DOMAIN c = 1 .. Len(a) + Len(b)
      /\ \A i \in 1 .. Len(a) : c[i] = a[i]
      /\ \A i \in 1 .. Len(b) : c[Len(a) + i] = b[i]
  BY ConcatAt
<1> HIDE DEF c
<1>2. ASSUME NEW j \in DOMAIN c
      PROVE  \/ j \in DOMAIN a /\ c[j] = a[j]
             \/ \E k \in DOMAIN b : j = Len(a) + k /\ c[j] = b[k]
  <2>1. CASE j <= Len(a)
    BY <1>1, <2>1
  <2>2. CASE ~(j <= Len(a))
    <3>1. j - Len(a) \in 1 .. Len(b) /\ j = Len(a) + (j - Len(a))
      BY <1>1, <2>2
    <3> QED BY <1>1, <3>1
  <2> QED BY <2>1, <2>2
<1>3. ASSUME Holds(b, IsUsage)
      PROVE  Holds(c, IsUsage) /\ Last(c, IsUsage) = Len(a) + Last(b, IsUsage)
  <2> DEFINE l == Last(b, IsUsage)
  <2>1. /\ l \in DOMAIN b /\ IsUsage(b[l])
        /\ \A j \in DOMAIN b : IsUsage(b[j]) => j <= l
    BY <1>3, LastUsageIsLast
  <2> HIDE DEF l
  <2>2. Len(a) + l \in DOMAIN c /\ IsUsage(c[Len(a) + l])
    BY <1>1, <2>1
  <2>3. ASSUME NEW j \in DOMAIN c, IsUsage(c[j])
        PROVE  j <= Len(a) + l
    BY <1>1, <1>2, <2>1, <2>3
  <2>4. Holds(c, IsUsage) /\ Last(c, IsUsage) = Len(a) + l
    BY <1>1, <2>2, <2>3, LastUsageIs
  <2> QED BY <2>4 DEF l
<1>4. ASSUME ~Holds(b, IsUsage), Holds(a, IsUsage)
      PROVE  Holds(c, IsUsage) /\ Last(c, IsUsage) = Last(a, IsUsage)
  <2> DEFINE l == Last(a, IsUsage)
  <2>1. /\ l \in DOMAIN a /\ IsUsage(a[l])
        /\ \A j \in DOMAIN a : IsUsage(a[j]) => j <= l
    BY <1>4, LastUsageIsLast
  <2> HIDE DEF l
  <2>2. l \in DOMAIN c /\ IsUsage(c[l])
    BY <1>1, <2>1
  <2>3. \A j \in DOMAIN b : ~IsUsage(b[j])
    BY <1>4 DEF Holds
  <2>4. ASSUME NEW j \in DOMAIN c, IsUsage(c[j])
        PROVE  j <= l
    BY <1>2, <2>1, <2>3, <2>4
  <2>5. Holds(c, IsUsage) /\ Last(c, IsUsage) = l
    BY <1>1, <2>2, <2>4, LastUsageIs
  <2> QED BY <2>5 DEF l
<1>5. ASSUME ~Holds(b, IsUsage), ~Holds(a, IsUsage)
      PROVE  ~Holds(c, IsUsage)
  BY <1>2, <1>5 DEF Holds
<1> QED BY <1>3, <1>4, <1>5 DEF c

-----------------------------------------------------------------------------
(***************************************************************************)
(* The accounting of a log, along a concatenation.                         *)
(***************************************************************************)
\* The next id and the token count are those of the second log, if it says so.
LEMMA CountsConcat ==
  ASSUME NEW a \in Seq(Line), NEW b \in Seq(Line)
  PROVE  /\ NextId(a \o b) = IF Holds(b, IsCheckpoint) THEN NextId(b) ELSE NextId(a)
         /\ TokenCount(a \o b) = IF Holds(b, IsUsage) THEN TokenCount(b)
                                 ELSE TokenCount(a)
<1> DEFINE c == a \o b
<1>1. /\ \A i \in DOMAIN a : c[i] = a[i]
      /\ \A i \in DOMAIN b : c[Len(a) + i] = b[i]
  BY ConcatAt
<1>2. NextId(c) = IF Holds(b, IsCheckpoint) THEN NextId(b) ELSE NextId(a)
  <2>1. CASE Holds(b, IsCheckpoint)
    BY <1>1, <2>1, LastCheckpointConcat, LastCheckpointIsLast DEF NextId
  <2>2. CASE ~Holds(b, IsCheckpoint) /\ Holds(a, IsCheckpoint)
    BY <1>1, <2>2, LastCheckpointConcat, LastCheckpointIsLast DEF NextId
  <2>3. CASE ~Holds(b, IsCheckpoint) /\ ~Holds(a, IsCheckpoint)
    BY <2>3, LastCheckpointConcat DEF NextId
  <2> QED BY <2>1, <2>2, <2>3
<1>3. TokenCount(c) = IF Holds(b, IsUsage) THEN TokenCount(b) ELSE TokenCount(a)
  <2>1. CASE Holds(b, IsUsage)
    BY <1>1, <2>1, LastUsageConcat, LastUsageIsLast DEF TokenCount
  <2>2. CASE ~Holds(b, IsUsage) /\ Holds(a, IsUsage)
    BY <1>1, <2>2, LastUsageConcat, LastUsageIsLast DEF TokenCount
  <2>3. CASE ~Holds(b, IsUsage) /\ ~Holds(a, IsUsage)
    BY <2>3, LastUsageConcat DEF TokenCount
  <2> QED BY <2>1, <2>2, <2>3
<1> QED BY <1>2, <1>3

\* The estimate starts again after a usage line, and counts on otherwise.
LEMMA EstimateConcat ==
  ASSUME NEW a \in Seq(Line), NEW b \in Seq(Line)
  PROVE  PendingEstimate(a \o b) =
           IF Holds(b, IsUsage) THEN PendingEstimate(b)
                                ELSE PendingEstimate(a) + Rank(b, Len(b))
<1> DEFINE c == a \o b
           last(log) == IF Holds(log, IsUsage) THEN Last(log, IsUsage) ELSE 0
<1>1. /\ c \in Seq(Line) /\ Len(c) = Len(a) + Len(b)
      /\ Len(a) \in Nat /\ Len(b) \in Nat
      /\ DOMAIN a = 1 .. Len(a) /\ DOMAIN b = 1 .. Len(b)
      /\ \A i \in 1 .. Len(a) : c[i] = a[i]
  BY ConcatAt
<1>2. \A log : PendingEstimate(log) = Rank(log, Len(log)) - Rank(log, last(log))
  BY DEF PendingEstimate
<1>3. \A j \in 0 .. Len(b) : Rank(c, Len(a) + j) = Rank(a, Len(a)) + Rank(b, j)
  BY RankConcat
<1>4. last(a) \in 0 .. Len(a) /\ last(b) \in 0 .. Len(b)
  BY <1>1, LastUsageInLog
<1>5. /\ Holds(b, IsUsage) => last(c) = Len(a) + last(b)
      /\ ~Holds(b, IsUsage) => last(c) = last(a)
  BY LastUsageConcat
<1> HIDE DEF last, c
<1>6. Len(b) \in 0 .. Len(b) /\ last(a) \in Nat /\ last(b) \in Nat
  BY <1>1, <1>4
<1>7. Rank(c, Len(c)) = Rank(a, Len(a)) + Rank(b, Len(b))
  BY <1>1, <1>3, <1>6
<1>8. /\ Rank(a, Len(a)) \in Nat /\ Rank(b, Len(b)) \in Nat
      /\ Rank(a, last(a)) \in Nat /\ Rank(b, last(b)) \in Nat
  BY <1>1, <1>6, RankType
<1>9. CASE Holds(b, IsUsage)
  <2>1. Rank(c, last(c)) = Rank(a, Len(a)) + Rank(b, last(b))
    BY <1>3, <1>4, <1>5, <1>9
  <2>2. PendingEstimate(c) = PendingEstimate(b)
    BY <1>2, <1>7, <1>8, <2>1
  <2> QED BY <1>9, <2>2 DEF c
<1>10. CASE ~Holds(b, IsUsage)
  <2>1. \A j \in 1 .. last(a) : c[j] = a[j]
    BY <1>1, <1>4
  <2>2. Rank(c, last(c)) = Rank(a, last(a))
    BY <1>5, <1>6, <1>10, <2>1, RankSame
  <2>3. PendingEstimate(c) = PendingEstimate(a) + Rank(b, Len(b))
    BY <1>2, <1>7, <1>8, <2>2
  <2> QED BY <1>10, <2>3 DEF c
<1> QED BY <1>9, <1>10

-----------------------------------------------------------------------------
(***************************************************************************)
(* What is true of every log a run without a cancellation writes.          *)
(*                                                                         *)
(* Dense: no checkpoint id is missing before a later one.  Covered: a      *)
(* usage line counts the messages before it, but for the message of the    *)
(* checkpoint a compaction takes (Slack).  AtCheckpoints: what a revert to *)
(* a checkpoint would leave is one of the histories in Good.               *)
(***************************************************************************)
Slack == IF WithDMail THEN 1 ELSE 0

Dense(log) ==
  \A i \in DOMAIN log : IsCheckpoint(log[i]) =>
    \A id \in 0 .. log[i].n - 1 : \E j \in 1 .. i - 1 : log[j] = CheckpointLine(id)

Covered(log) ==
  \A i \in DOMAIN log : IsUsage(log[i]) => Rank(log, i) <= log[i].n + Slack

AtCheckpoints(log, Good) ==
  \A i \in DOMAIN log : IsCheckpoint(log[i]) =>
    SubSeq(Messages(log), 1, Rank(log, i)) \in Good

Steady(log, Good) == Dense(log) /\ Covered(log) /\ AtCheckpoints(log, Good)

\* The slack is zero or one.
LEMMA SlackType == Slack \in Nat
BY WithDMailAssumption DEF Slack

\* A prefix of the messages ends where a line does.
LEMMA RankInMessages ==
  ASSUME NEW log \in Seq(Line), NEW i \in 0 .. Len(log)
  PROVE  /\ Rank(log, i) \in 0 .. Len(Messages(log))
         /\ SubSeq(Messages(log), 1, Rank(log, i)) \in Seq(Message)
         /\ Len(SubSeq(Messages(log), 1, Rank(log, i))) = Rank(log, i)
         /\ \A k \in 1 .. Rank(log, i) :
              SubSeq(Messages(log), 1, Rank(log, i))[k] = Messages(log)[k]
<1> DEFINE m == Messages(log)
           r == Rank(log, i)
<1>1. /\ Len(log) \in Nat /\ i \in Nat /\ i <= Len(log)
      /\ m \in Seq(Message) /\ Len(m) = Rank(log, Len(log))
  BY LenProperties, MessagesAt
<1>2. r \in Nat /\ r <= Len(m) /\ Len(m) \in Nat
  BY <1>1, RankType, RankMonotonic
<1> HIDE DEF m, r
<1>3. \A k \in 1 .. r : m[k] \in Message
  BY <1>1, <1>2, ElementOfSeq
<1>4. /\ SubSeq(m, 1, r) \in Seq(Message) /\ Len(SubSeq(m, 1, r)) = r
      /\ \A k \in 1 .. r : SubSeq(m, 1, r)[k] = m[k]
  BY <1>2, <1>3, SubSeqProperties
<1> QED BY <1>2, <1>4 DEF m, r

\* The first messages of a concatenation are those of the first list.
LEMMA PrefixOfConcat ==
  ASSUME NEW S, NEW a \in Seq(S), NEW b \in Seq(S), NEW r \in 0 .. Len(a)
  PROVE  SubSeq(a \o b, 1, r) = SubSeq(a, 1, r)
<1>1. /\ a \o b \in Seq(S) /\ Len(a) \in Nat /\ Len(b) \in Nat /\ r \in Nat
      /\ Len(a \o b) = Len(a) + Len(b)
      /\ \A i \in 1 .. Len(a) : (a \o b)[i] = a[i]
  BY ConcatAt
<1>2. \A i \in 1 .. r : (a \o b)[i] \in S /\ a[i] \in S /\ (a \o b)[i] = a[i]
  BY <1>1, ElementOfSeq
<1>3. /\ SubSeq(a, 1, r) \in Seq(S) /\ Len(SubSeq(a, 1, r)) = r
      /\ \A i \in 1 .. r : SubSeq(a, 1, r)[i] = a[i]
  BY <1>1, <1>2, SubSeqProperties
<1>4. /\ SubSeq(a \o b, 1, r) \in Seq(S) /\ Len(SubSeq(a \o b, 1, r)) = r
      /\ \A i \in 1 .. r : SubSeq(a \o b, 1, r)[i] = (a \o b)[i]
  BY <1>1, <1>2, SubSeqProperties
<1> QED BY <1>2, <1>3, <1>4, SeqEqual

\* In a dense log every id below the next one has its line.
LEMMA DenseNext ==
  ASSUME NEW log \in Seq(Line), Dense(log), NEW id \in 0 .. NextId(log) - 1
  PROVE  \E j \in DOMAIN log : log[j] = CheckpointLine(id)
<1> DEFINE l == Last(log, IsCheckpoint)
<1>1. Holds(log, IsCheckpoint)
  BY DEF NextId
<1>2. l \in DOMAIN log /\ IsCheckpoint(log[l])
  BY <1>1, LastCheckpointIsLast
<1>3. NextId(log) = log[l].n + 1
  BY <1>1, Zenon DEF NextId
<1> HIDE DEF l
<1>4. log[l] \in Line /\ log[l].n \in Nat
  BY <1>2, LineType
<1>5. DOMAIN log = 1 .. Len(log) /\ Len(log) \in Nat
  BY LenProperties
<1>6. CASE id = log[l].n
  <2>1. log[l] = CheckpointLine(id)
    BY <1>2, <1>4, <1>6 DEF Line, CheckpointLine, IsCheckpoint
  <2> QED BY <1>2, <2>1
<1>7. CASE id # log[l].n
  <2>1. id \in 0 .. log[l].n - 1
    BY <1>3, <1>4, <1>7
  <2>2. PICK j \in 1 .. l - 1 : log[j] = CheckpointLine(id)
    BY <1>2, <2>1 DEF Dense
  <2>3. j \in DOMAIN log
    BY <1>2, <1>5
  <2> QED BY <2>2, <2>3
<1> QED BY <1>6, <1>7

-----------------------------------------------------------------------------
\* Lines that a run may write behind a log.
Follows(log, lines, Good) ==
  \A i \in DOMAIN lines :
    /\ IsCheckpoint(lines[i]) =>
         Len(lines) = 1 /\ lines[i].n = NextId(log) /\ Messages(log) \in Good
    /\ IsUsage(lines[i]) =>
         Len(lines) = 1 /\ Rank(log, Len(log)) <= lines[i].n + Slack

\* Appending them keeps the log steady.
LEMMA SteadyAppend ==
  ASSUME NEW a \in Seq(Line), NEW b \in Seq(Line), NEW Good,
         Steady(a, Good), Follows(a, b, Good)
  PROVE  Steady(a \o b, Good)
<1> DEFINE c == a \o b
<1>1. /\ c \in Seq(Line)
      /\ Len(a) \in Nat /\ DOMAIN a = 1 .. Len(a)
      /\ Len(b) \in Nat /\ DOMAIN b = 1 .. Len(b)
      /\ Len(c) = Len(a) + Len(b) /\ DOMAIN c = 1 .. Len(a) + Len(b)
      /\ \A i \in 1 .. Len(a) : c[i] = a[i]
      /\ \A i \in 1 .. Len(b) : c[Len(a) + i] = b[i]
  BY ConcatAt
<1>2. /\ Messages(c) = Messages(a) \o Messages(b)
      /\ Messages(a) \in Seq(Message) /\ Messages(b) \in Seq(Message)
      /\ Len(Messages(a)) = Rank(a, Len(a))
  BY MessagesConcat, MessagesAt
<1>3. \A j \in 0 .. Len(b) : Rank(c, Len(a) + j) = Rank(a, Len(a)) + Rank(b, j)
  BY RankConcat
<1> HIDE DEF c
<1>4. ASSUME NEW i \in 1 .. Len(a)
      PROVE  Rank(c, i) = Rank(a, i) /\ c[i] = a[i] /\ i \in DOMAIN a
  <2>1. i \in Nat /\ \A j \in 1 .. i : c[j] = a[j]
    BY <1>1
  <2> QED BY <1>1, <2>1, RankSame
<1>5. ASSUME NEW i \in DOMAIN c, i \notin 1 .. Len(a),
             IsCheckpoint(c[i]) \/ IsUsage(c[i])
      PROVE  i = Len(a) + 1 /\ Len(b) = 1 /\ c[i] = b[1] /\ 1 \in DOMAIN b
  <2>1. i - Len(a) \in DOMAIN b /\ i = Len(a) + (i - Len(a))
    BY <1>1, <1>5
  <2>2. PICK j \in DOMAIN b : i = Len(a) + j /\ c[i] = b[j]
    BY <1>1, <2>1
  <2>3. Len(b) = 1
    BY <1>5, <2>2 DEF Follows
  <2> QED BY <1>1, <2>2, <2>3
<1>6. Dense(c)
  <2> SUFFICES ASSUME NEW i \in DOMAIN c, IsCheckpoint(c[i]),
                      NEW id \in 0 .. c[i].n - 1
               PROVE  \E j \in 1 .. i - 1 : c[j] = CheckpointLine(id)
    BY DEF Dense
  <2>1. CASE i \in 1 .. Len(a)
    <3>1. PICK j \in 1 .. i - 1 : a[j] = CheckpointLine(id)
      BY <1>4, <2>1 DEF Steady, Dense
    <3>2. j \in 1 .. Len(a)
      BY <1>1, <2>1
    <3> QED BY <1>1, <3>1, <3>2
  <2>2. CASE i \notin 1 .. Len(a)
    <3>1. i = Len(a) + 1 /\ Len(b) = 1 /\ c[i] = b[1] /\ 1 \in DOMAIN b
      BY <1>5, <2>2
    <3>2. id \in 0 .. NextId(a) - 1
      BY <3>1 DEF Follows
    <3>3. PICK j \in DOMAIN a : a[j] = CheckpointLine(id)
      BY <3>2, DenseNext DEF Steady
    <3>4. j \in 1 .. i - 1 /\ c[j] = a[j]
      BY <1>1, <3>1
    <3> QED BY <3>3, <3>4
  <2> QED BY <2>1, <2>2
<1>7. Covered(c)
  <2> SUFFICES ASSUME NEW i \in DOMAIN c, IsUsage(c[i])
               PROVE  Rank(c, i) <= c[i].n + Slack
    BY DEF Covered
  <2>1. CASE i \in 1 .. Len(a)
    BY <1>4, <2>1 DEF Steady, Covered
  <2>2. CASE i \notin 1 .. Len(a)
    <3>1. i = Len(a) + 1 /\ Len(b) = 1 /\ c[i] = b[1] /\ 1 \in DOMAIN b
      BY <1>5, <2>2
    <3>2. Rank(a, Len(a)) <= b[1].n + Slack
      BY <2>2, <3>1 DEF Follows
    <3>3. Rank(c, Len(a) + 0) = Rank(a, Len(a)) /\ Len(a) + 0 = Len(a)
      BY <1>1, RankSame
    <3>4. ~IsMessage(c[Len(a) + 1])
      BY <3>1 DEF IsUsage, IsMessage, MessageRole
    <3>5. Rank(c, Len(a) + 1) = Rank(c, Len(a))
      BY <1>1, <3>4, RankStep
    <3> QED BY <3>1, <3>2, <3>3, <3>5
  <2> QED BY <2>1, <2>2
<1>8. AtCheckpoints(c, Good)
  <2> SUFFICES ASSUME NEW i \in DOMAIN c, IsCheckpoint(c[i])
               PROVE  SubSeq(Messages(c), 1, Rank(c, i)) \in Good
    BY DEF AtCheckpoints
  <2>1. CASE i \in 1 .. Len(a)
    <3>1. Rank(c, i) = Rank(a, i) /\ IsCheckpoint(a[i]) /\ i \in DOMAIN a
      BY <1>4, <2>1
    <3>2. Rank(a, i) \in 0 .. Len(Messages(a))
      <4>1. i \in 0 .. Len(a)
        BY <2>1
      <4> QED BY <4>1, RankInMessages
    <3>3. SubSeq(Messages(c), 1, Rank(c, i)) = SubSeq(Messages(a), 1, Rank(a, i))
      BY <1>2, <3>1, <3>2, PrefixOfConcat
    <3> QED BY <3>1, <3>3 DEF Steady, AtCheckpoints
  <2>2. CASE i \notin 1 .. Len(a)
    <3>1. i = Len(a) + 1 /\ Len(b) = 1 /\ c[i] = b[1] /\ 1 \in DOMAIN b
      BY <1>5, <2>2
    <3>2. Messages(a) \in Good
      BY <2>2, <3>1 DEF Follows
    <3>3. ~IsMessage(c[Len(a) + 1])
      BY <3>1 DEF IsCheckpoint, IsMessage, MessageRole
    <3>4. Rank(c, Len(a) + 1) = Rank(c, Len(a)) /\ Rank(c, Len(a)) = Rank(a, Len(a))
      BY <1>1, <3>3, RankStep, RankSame
    <3>5. Len(Messages(a)) \in 0 .. Len(Messages(a))
      BY <1>2, LenProperties
    <3>6. SubSeq(Messages(c), 1, Len(Messages(a))) = SubSeq(Messages(a), 1, Len(Messages(a)))
      BY <1>2, <3>5, PrefixOfConcat
    <3>7. SubSeq(Messages(a), 1, Len(Messages(a))) = Messages(a)
      BY <1>2, SubSeqFull
    <3> QED BY <1>2, <3>1, <3>2, <3>4, <3>6, <3>7
  <2> QED BY <2>1, <2>2
<1> QED BY <1>6, <1>7, <1>8 DEF Steady, c

\* A log is one of its prefixes followed by the rest.
LEMMA SplitLog ==
  ASSUME NEW log \in Seq(Line), NEW k \in 0 .. Len(log)
  PROVE  \E rest \in Seq(Line) :
           /\ SubSeq(log, 1, k) \in Seq(Line) /\ Len(SubSeq(log, 1, k)) = k
           /\ log = SubSeq(log, 1, k) \o rest
<1> DEFINE rest == SubSeq(log, k + 1, Len(log))
<1>1. /\ Len(log) \in Nat /\ k \in Nat /\ 1 \in 1 .. Len(log) + 1
      /\ k \in 1 - 1 .. Len(log) /\ Len(log) \in k .. Len(log)
  BY LenProperties
<1>2. SubSeq(log, 1, k) \o rest = log
  BY <1>1, ConcatAdjacentSubSeq, SubSeqFull
<1>3. \A i \in k + 1 .. Len(log) : log[i] \in Line
  BY <1>1, ElementOfSeq
<1>4. rest \in Seq(Line)
  BY <1>1, <1>3, SubSeqProperties
<1> HIDE DEF rest
<1> QED BY <1>2, <1>4, PrefixKeeps

\* A prefix of a steady log is steady.
LEMMA SteadyPrefix ==
  ASSUME NEW log \in Seq(Line), NEW k \in 0 .. Len(log), NEW Good, Steady(log, Good)
  PROVE  Steady(SubSeq(log, 1, k), Good)
<1> DEFINE a == SubSeq(log, 1, k)
<1>1. PICK b \in Seq(Line) : a \in Seq(Line) /\ Len(a) = k /\ log = a \o b
  BY SplitLog
<1> HIDE DEF a
<1>2. /\ Len(a) \in Nat /\ DOMAIN a = 1 .. Len(a)
      /\ Len(b) \in Nat /\ DOMAIN log = 1 .. Len(a) + Len(b)
      /\ \A i \in 1 .. Len(a) : log[i] = a[i]
  <2>1. a \in Seq(Line)
    BY <1>1
  <2>2. /\ Len(a) \in Nat /\ DOMAIN a = 1 .. Len(a) /\ Len(b) \in Nat
        /\ DOMAIN (a \o b) = 1 .. Len(a) + Len(b)
        /\ \A i \in 1 .. Len(a) : (a \o b)[i] = a[i]
    BY <2>1, ConcatAt
  <2> QED BY <1>1, <2>2
<1>3. ASSUME NEW i \in DOMAIN a
      PROVE  i \in DOMAIN log /\ log[i] = a[i] /\ Rank(log, i) = Rank(a, i)
  <2>1. i \in Nat /\ \A j \in 1 .. i : log[j] = a[j]
    BY <1>2
  <2> QED BY <1>2, <2>1, RankSame
<1>4. Dense(a)
  <2> SUFFICES ASSUME NEW i \in DOMAIN a, IsCheckpoint(a[i]),
                      NEW id \in 0 .. a[i].n - 1
               PROVE  \E j \in 1 .. i - 1 : a[j] = CheckpointLine(id)
    BY DEF Dense
  <2>1. PICK j \in 1 .. i - 1 : log[j] = CheckpointLine(id)
    BY <1>3 DEF Steady, Dense
  <2>2. log[j] = a[j]
    BY <1>2
  <2> QED BY <2>1, <2>2
<1>5. Covered(a)
  BY <1>3 DEF Steady, Covered
<1>6. ASSUME NEW i \in DOMAIN a, IsCheckpoint(a[i])
      PROVE  SubSeq(Messages(a), 1, Rank(a, i)) \in Good
  <2>1. SubSeq(Messages(log), 1, Rank(log, i)) \in Good
    BY <1>3, <1>6 DEF Steady, AtCheckpoints
  <2>2. /\ Messages(log) = Messages(a) \o Messages(b)
        /\ Messages(a) \in Seq(Message) /\ Messages(b) \in Seq(Message)
    BY <1>1, MessagesConcat, MessagesAt
  <2>3. Rank(a, i) \in 0 .. Len(Messages(a))
    <3>1. i \in 0 .. Len(a)
      BY <1>2
    <3> QED BY <1>1, <3>1, RankInMessages
  <2>4. SubSeq(Messages(log), 1, Rank(a, i)) = SubSeq(Messages(a), 1, Rank(a, i))
    BY <2>2, <2>3, PrefixOfConcat
  <2> QED BY <1>3, <2>1, <2>4
<1> QED BY <1>4, <1>5, <1>6 DEF Steady, AtCheckpoints, a

\* What a revert to a checkpoint of the log keeps replays to a good history.
LEMMA BeforeIsGood ==
  ASSUME NEW log \in Seq(Line), NEW id, NEW Good, Steady(log, Good),
         \E i \in DOMAIN log : log[i] = CheckpointLine(id)
  PROVE  /\ Before(log, id) \in Seq(Line) /\ Steady(Before(log, id), Good)
         /\ Messages(Before(log, id)) \in Good
<1>1. PICK k \in 0 .. Len(log) : IsCut(log, id, k) /\ Before(log, id) = SubSeq(log, 1, k)
  BY CutExists DEF Before
<1> DEFINE a == SubSeq(log, 1, k)
<1>2. Steady(a, Good)
  BY SteadyPrefix
<1>3. PICK b \in Seq(Line) : a \in Seq(Line) /\ Len(a) = k /\ log = a \o b
  BY SplitLog
<1> HIDE DEF a
<1>4. /\ Len(log) \in Nat /\ DOMAIN log = 1 .. Len(log) /\ k \in Nat
      /\ \A i \in 1 .. k : log[i] = a[i]
  BY <1>3, ConcatAt, LenProperties
<1>5. k < Len(log) /\ log[k + 1] = CheckpointLine(id)
  BY <1>1, <1>4 DEF IsCut
<1>6. k + 1 \in DOMAIN log /\ IsCheckpoint(log[k + 1])
  BY <1>4, <1>5 DEF IsCheckpoint, CheckpointLine
<1>7. Rank(log, k + 1) = Rank(a, Len(a))
  <2>1. ~IsMessage(log[k + 1])
    BY <1>6 DEF IsCheckpoint, IsMessage, MessageRole
  <2>2. Rank(log, k + 1) = Rank(log, k)
    BY <1>4, <2>1, RankStep
  <2>3. Rank(log, k) = Rank(a, k)
    BY <1>4, RankSame
  <2> QED BY <1>3, <2>2, <2>3
<1>8. SubSeq(Messages(log), 1, Rank(a, Len(a))) \in Good
  BY <1>6, <1>7 DEF Steady, AtCheckpoints
<1>9. /\ Messages(log) = Messages(a) \o Messages(b)
      /\ Messages(a) \in Seq(Message) /\ Messages(b) \in Seq(Message)
      /\ Len(Messages(a)) = Rank(a, Len(a))
  BY <1>3, MessagesConcat, MessagesAt
<1>10. Len(Messages(a)) \in 0 .. Len(Messages(a))
  BY <1>9, LenProperties
<1>11. SubSeq(Messages(log), 1, Len(Messages(a)))
         = SubSeq(Messages(a), 1, Len(Messages(a)))
  BY <1>9, <1>10, PrefixOfConcat
<1>12. SubSeq(Messages(a), 1, Len(Messages(a))) = Messages(a)
  BY <1>9, SubSeqFull
<1>13. Messages(a) \in Good
  BY <1>8, <1>9, <1>11, <1>12
<1> QED BY <1>1, <1>2, <1>3, <1>13 DEF a

\* An empty log is steady.
LEMMA SteadyEmpty == \A Good : Steady(<<>>, Good)
BY DEF Steady, Dense, Covered, AtCheckpoints

\* A system prompt in front changes neither the steadiness of a log ...
LEMMA SteadySystem ==
  ASSUME NEW log \in Seq(Line), NEW Good, Steady(log, Good)
  PROVE  Steady(<<SystemLine>> \o log, Good)
<1> DEFINE c == <<SystemLine>> \o log
           s == <<SystemLine>>
<1>1. s \in Seq(Line) /\ Len(s) = 1 /\ ~IsMessage(SystemLine) /\ s[1] = SystemLine
  BY SystemLineType DEF SystemLine, IsMessage, MessageRole
<1>2. /\ c \in Seq(Line) /\ Len(log) \in Nat /\ DOMAIN log = 1 .. Len(log)
      /\ DOMAIN c = 1 .. 1 + Len(log)
      /\ c[1] = SystemLine
      /\ \A i \in 1 .. Len(log) : c[1 + i] = log[i]
  BY <1>1, ConcatAt
<1>3. \A j \in 0 .. Len(log) : Rank(c, 1 + j) = Rank(log, j)
  <2>1. Rank(s, Len(s)) = 0
    BY <1>1, SystemLineType, MessagesOfOther
  <2>2. \A j \in 0 .. Len(log) : Rank(c, Len(s) + j) = Rank(s, Len(s)) + Rank(log, j)
    BY <1>1, RankConcat
  <2>3. \A j \in 0 .. Len(log) : Rank(log, j) \in Nat
    <3> SUFFICES ASSUME NEW j \in 0 .. Len(log) PROVE Rank(log, j) \in Nat
      OBVIOUS
    <3>1. j \in Nat
      BY <1>2
    <3> QED BY <3>1, RankType
  <2> QED BY <1>1, <2>1, <2>2, <2>3
<1>4. Messages(c) = Messages(log)
  <2>1. Messages(s) = <<>> /\ Messages(log) \in Seq(Message)
    BY <1>1, SystemLineType, MessagesOfOther, MessagesAt
  <2>2. Messages(c) = Messages(s) \o Messages(log)
    BY <1>1, MessagesConcat
  <2> QED BY <2>1, <2>2, ConcatEmptySeq
<1> HIDE DEF c, s
<1>5. ASSUME NEW i \in DOMAIN c, IsCheckpoint(c[i]) \/ IsUsage(c[i])
      PROVE  \E j \in DOMAIN log : i = 1 + j /\ c[i] = log[j] /\ Rank(c, i) = Rank(log, j)
  <2>1. i # 1
    BY <1>2, <1>5 DEF SystemLine, IsCheckpoint, IsUsage
  <2>2. i - 1 \in DOMAIN log /\ i = 1 + (i - 1) /\ i - 1 \in 0 .. Len(log)
    BY <1>2, <2>1
  <2> QED BY <1>2, <1>3, <2>2
<1>6. Dense(c)
  <2> SUFFICES ASSUME NEW i \in DOMAIN c, IsCheckpoint(c[i]),
                      NEW id \in 0 .. c[i].n - 1
               PROVE  \E j \in 1 .. i - 1 : c[j] = CheckpointLine(id)
    BY DEF Dense
  <2>1. PICK l \in DOMAIN log : i = 1 + l /\ c[i] = log[l]
    BY <1>5
  <2>2. PICK j \in 1 .. l - 1 : log[j] = CheckpointLine(id)
    BY <2>1 DEF Steady, Dense
  <2>3. 1 + j \in 1 .. i - 1 /\ c[1 + j] = log[j]
    BY <1>2, <2>1
  <2> QED BY <2>2, <2>3
<1>7. Covered(c)
  BY <1>5 DEF Steady, Covered
<1>8. AtCheckpoints(c, Good)
  BY <1>4, <1>5 DEF Steady, AtCheckpoints
<1> QED BY <1>6, <1>7, <1>8 DEF Steady, c

\* A log that is steady for some histories is steady for all.
LEMMA SteadyForAll ==
  ASSUME NEW log \in Seq(Line), NEW Good, Steady(log, Good)
  PROVE  Steady(log, Seq(Message))
<1>1. ASSUME NEW i \in DOMAIN log
      PROVE  SubSeq(Messages(log), 1, Rank(log, i)) \in Seq(Message)
  <2>1. i \in 0 .. Len(log)
    BY LenProperties
  <2> QED BY <2>1, RankInMessages
<1> QED BY <1>1 DEF Steady, AtCheckpoints

-----------------------------------------------------------------------------
(***************************************************************************)
(* The memory is what a log replays to; how both grow together.            *)
(***************************************************************************)
IsReplay(log, h, tokens, pending, next) ==
  /\ h = Messages(log)
  /\ tokens = TokenCount(log)
  /\ pending = PendingEstimate(log)
  /\ next = NextId(log)

\* A log of one line: what it holds.
LEMMA OneLineHolds ==
  ASSUME NEW x \in Line
  PROVE  /\ Holds(<<x>>, IsCheckpoint) <=> IsCheckpoint(x)
         /\ Holds(<<x>>, IsUsage) <=> IsUsage(x)
         /\ IsCheckpoint(x) => NextId(<<x>>) = x.n + 1
         /\ IsUsage(x) => TokenCount(<<x>>) = x.n /\ PendingEstimate(<<x>>) = 0
<1>1. <<x>> \in Seq(Line) /\ DOMAIN <<x>> = {1} /\ <<x>>[1] = x /\ Len(<<x>>) = 1
  OBVIOUS
<1>2. Holds(<<x>>, IsCheckpoint) <=> IsCheckpoint(x)
  BY <1>1 DEF Holds
<1>3. Holds(<<x>>, IsUsage) <=> IsUsage(x)
  BY <1>1 DEF Holds
<1>4. ASSUME IsCheckpoint(x) PROVE NextId(<<x>>) = x.n + 1
  <2>1. Last(<<x>>, IsCheckpoint) = 1
    <3>1. 1 \in DOMAIN <<x>> /\ IsCheckpoint(<<x>>[1])
      BY <1>1, <1>4
    <3>2. \A j \in DOMAIN <<x>> : IsCheckpoint(<<x>>[j]) => j <= 1
      OBVIOUS
    <3> QED BY <1>1, <3>1, <3>2, LastCheckpointIs
  <2> QED BY <1>1, <1>2, <1>4, <2>1 DEF NextId
<1>5. ASSUME IsUsage(x) PROVE TokenCount(<<x>>) = x.n /\ PendingEstimate(<<x>>) = 0
  <2>1. Last(<<x>>, IsUsage) = 1
    <3>1. 1 \in DOMAIN <<x>> /\ IsUsage(<<x>>[1])
      BY <1>1, <1>5
    <3>2. \A j \in DOMAIN <<x>> : IsUsage(<<x>>[j]) => j <= 1
      OBVIOUS
    <3> QED BY <1>1, <3>1, <3>2, LastUsageIs
  <2>2. Rank(<<x>>, 1) \in Nat
    BY RankType
  <2>3. PendingEstimate(<<x>>) = Rank(<<x>>, 1) - Rank(<<x>>, 1)
    BY <1>1, <1>3, <1>5, <2>1 DEF PendingEstimate
  <2> QED BY <1>1, <1>3, <1>5, <2>1, <2>2, <2>3 DEF TokenCount
<1> QED BY <1>2, <1>3, <1>4, <1>5

\* Messages appended to both.
LEMMA ReplayMessages ==
  ASSUME NEW log \in Seq(Line), NEW msgs \in Seq(Message),
         NEW h, NEW v, NEW p, NEW id, IsReplay(log, h, v, p, id)
  PROVE  IsReplay(log \o msgs, h \o msgs, v, p + Len(msgs), id)
<1>1. msgs \in Seq(Line) /\ NoCheckpoint(msgs)
  BY NoWriteNoCheckpoint
<1>2. ~Holds(msgs, IsCheckpoint) /\ ~Holds(msgs, IsUsage)
  <2>1. ASSUME NEW i \in DOMAIN msgs PROVE ~IsCheckpoint(msgs[i]) /\ ~IsUsage(msgs[i])
    <3>1. msgs[i] \in Message
      BY LenProperties, ElementOfSeq
    <3> QED BY <3>1 DEF Message, MessageRole, IsCheckpoint, IsUsage
  <2> QED BY <2>1 DEF Holds
<1>3. Rank(msgs, Len(msgs)) = Len(msgs)
  <2>1. Len(msgs) \in 0 .. Len(msgs)
    BY LenProperties
  <2> QED BY <2>1, RankOfMessages
<1>4. Messages(log \o msgs) = h \o msgs
  BY <1>1, MessagesConcat, MessagesOfMessages DEF IsReplay
<1>5. NextId(log \o msgs) = id /\ TokenCount(log \o msgs) = v
  BY <1>1, <1>2, CountsConcat DEF IsReplay
<1>6. PendingEstimate(log \o msgs) = p + Len(msgs)
  BY <1>1, <1>2, <1>3, EstimateConcat DEF IsReplay
<1> QED BY <1>4, <1>5, <1>6 DEF IsReplay

\* A line that is no message leaves the messages alone.
LEMMA ReplayOther ==
  ASSUME NEW log \in Seq(Line), NEW x \in Line, ~IsMessage(x)
  PROVE  Messages(log \o <<x>>) = Messages(log) /\ Messages(<<x>> \o log) = Messages(log)
<1>1. <<x>> \in Seq(Line) /\ Messages(<<x>>) = <<>> /\ Messages(log) \in Seq(Message)
  BY MessagesOfOther, MessagesAt
<1>2. Messages(log \o <<x>>) = Messages(log) \o Messages(<<x>>)
  BY <1>1, MessagesConcat
<1>3. Messages(<<x>> \o log) = Messages(<<x>>) \o Messages(log)
  BY <1>1, MessagesConcat
<1> QED BY <1>1, <1>2, <1>3, ConcatEmptySeq

\* A checkpoint line takes the next id.
LEMMA ReplayCheckpoint ==
  ASSUME NEW log \in Seq(Line), NEW h, NEW v, NEW p, NEW id \in Nat,
         IsReplay(log, h, v, p, id)
  PROVE  IsReplay(log \o <<CheckpointLine(id)>>, h, v, p, id + 1)
<1> DEFINE x == CheckpointLine(id)
<1>1. x \in Line /\ IsCheckpoint(x) /\ ~IsMessage(x) /\ ~IsUsage(x) /\ x.n = id
  BY NewCheckpoint DEF CheckpointLine, IsCheckpoint, IsMessage, IsUsage, MessageRole
<1> HIDE DEF x
<1>2. <<x>> \in Seq(Line) /\ Len(<<x>>) = 1
  BY <1>1
<1>3. Messages(log \o <<x>>) = h
  BY <1>1, ReplayOther DEF IsReplay
<1>4. NextId(log \o <<x>>) = id + 1 /\ TokenCount(log \o <<x>>) = v
  BY <1>1, <1>2, CountsConcat, OneLineHolds DEF IsReplay
<1>5. PendingEstimate(log \o <<x>>) = p
  <2>1. PendingEstimate(log \o <<x>>) = PendingEstimate(log) + Rank(<<x>>, 1)
    BY <1>1, <1>2, EstimateConcat, OneLineHolds
  <2> QED BY <1>1, <2>1, MessagesOfOther, PendingEstimateType DEF IsReplay
<1> QED BY <1>3, <1>4, <1>5 DEF IsReplay, x

\* A usage line sets the count and ends the estimate.
LEMMA ReplayUsage ==
  ASSUME NEW log \in Seq(Line), NEW h, NEW v, NEW p, NEW id, NEW w \in Nat,
         IsReplay(log, h, v, p, id)
  PROVE  IsReplay(log \o <<UsageLine(w)>>, h, w, 0, id)
<1> DEFINE x == UsageLine(w)
<1>1. x \in Line /\ ~IsCheckpoint(x) /\ ~IsMessage(x) /\ IsUsage(x) /\ x.n = w
  BY CallTypes DEF UsageLine, IsCheckpoint, IsMessage, IsUsage, MessageRole
<1> HIDE DEF x
<1>2. <<x>> \in Seq(Line)
  BY <1>1
<1>3. Messages(log \o <<x>>) = h
  BY <1>1, ReplayOther DEF IsReplay
<1>4. NextId(log \o <<x>>) = id /\ TokenCount(log \o <<x>>) = w
  BY <1>1, <1>2, CountsConcat, OneLineHolds DEF IsReplay
<1>5. PendingEstimate(log \o <<x>>) = 0
  BY <1>1, <1>2, EstimateConcat, OneLineHolds
<1> QED BY <1>3, <1>4, <1>5 DEF IsReplay, x

\* A system prompt in front changes nothing in memory.
LEMMA ReplaySystem ==
  ASSUME NEW log \in Seq(Line), NEW h, NEW v, NEW p, NEW id,
         IsReplay(log, h, v, p, id)
  PROVE  IsReplay(<<SystemLine>> \o log, h, v, p, id)
<1> DEFINE x == SystemLine
<1>1. x \in Line /\ ~IsCheckpoint(x) /\ ~IsMessage(x) /\ ~IsUsage(x)
  BY SystemLineType DEF SystemLine, IsMessage, IsUsage, MessageRole
<1> HIDE DEF x
<1>2. <<x>> \in Seq(Line) /\ Len(<<x>>) = 1 /\ Rank(<<x>>, 1) = 0
  BY <1>1, MessagesOfOther
<1>3. ~Holds(<<x>>, IsCheckpoint) /\ ~Holds(<<x>>, IsUsage)
  BY <1>1, OneLineHolds
<1>4. Messages(<<x>> \o log) = h
  BY <1>1, ReplayOther DEF IsReplay
<1>5. NextId(<<x>> \o log) = NextId(log) /\ TokenCount(<<x>> \o log) = TokenCount(log)
  <2>1. NextId(<<x>>) = 0 /\ TokenCount(<<x>>) = 0
    BY <1>3 DEF NextId, TokenCount
  <2>2. /\ ~Holds(log, IsCheckpoint) => NextId(log) = 0
        /\ ~Holds(log, IsUsage) => TokenCount(log) = 0
    BY DEF NextId, TokenCount
  <2> QED BY <1>2, <2>1, <2>2, CountsConcat
<1>6. PendingEstimate(<<x>> \o log) = PendingEstimate(log)
  <2>1. PendingEstimate(<<x>>) = 0
    <3>1. Rank(<<x>>, 0) = 0
      BY RankZero
    <3>2. PendingEstimate(<<x>>) = Rank(<<x>>, 1) - Rank(<<x>>, 0)
      BY <1>2, <1>3 DEF PendingEstimate
    <3> QED BY <1>2, <3>1, <3>2
  <2>2. Len(log) \in Nat /\ Rank(log, Len(log)) \in Nat /\ Rank(log, 0) = 0
    BY LenProperties, RankType, RankZero
  <2>3. ~Holds(log, IsUsage) =>
          PendingEstimate(log) = Rank(log, Len(log)) - Rank(log, 0)
    BY DEF PendingEstimate
  <2>4. PendingEstimate(<<x>> \o log) =
          IF Holds(log, IsUsage) THEN PendingEstimate(log)
                                 ELSE PendingEstimate(<<x>>) + Rank(log, Len(log))
    BY <1>2, EstimateConcat
  <2> QED BY <2>1, <2>2, <2>3, <2>4
<1> QED BY <1>4, <1>5, <1>6 DEF IsReplay, x

\* An empty log replays to a fresh memory.
LEMMA ReplayEmpty == IsReplay(<<>>, <<>>, 0, 0, 0)
<1>1. ~Holds(<<>>, IsCheckpoint) /\ ~Holds(<<>>, IsUsage) /\ Len(<<>>) = 0
  BY DEF Holds
<1>2. NextId(<<>>) = 0 /\ TokenCount(<<>>) = 0
  BY <1>1 DEF NextId, TokenCount
<1>3. PendingEstimate(<<>>) = 0
  <2>1. PendingEstimate(<<>>) = Rank(<<>>, 0) - Rank(<<>>, 0)
    BY <1>1 DEF PendingEstimate
  <2> QED BY <2>1, RankZero
<1> QED BY <1>2, <1>3, MessagesOfNone DEF IsReplay

\* The size a covered log replays to covers its messages, but for the slack.
LEMMA CoveredSize ==
  ASSUME NEW log \in Seq(Line), Covered(log)
  PROVE  Len(Messages(log)) <= TokenCount(log) + PendingEstimate(log) + Slack
<1>1. /\ Len(log) \in Nat /\ Rank(log, Len(log)) \in Nat /\ Rank(log, 0) = 0
      /\ Len(Messages(log)) = Rank(log, Len(log)) /\ Slack \in Nat
  BY LenProperties, RankType, RankZero, MessagesAt, SlackType
<1>2. CASE Holds(log, IsUsage)
  <2> DEFINE l == Last(log, IsUsage)
  <2>1. l \in DOMAIN log /\ IsUsage(log[l])
    BY <1>2, LastUsageIsLast
  <2>2. TokenCount(log) = log[l].n
    BY <1>2, Zenon DEF TokenCount
  <2>3. PendingEstimate(log) = Rank(log, Len(log)) - Rank(log, l)
    BY <1>2 DEF PendingEstimate
  <2> HIDE DEF l
  <2>4. Rank(log, l) <= log[l].n + Slack /\ log[l].n \in Nat
    BY <2>1, LineType DEF Covered
  <2>5. Rank(log, l) \in Nat
    <3>1. l \in Nat
      BY <2>1, LenProperties
    <3> QED BY <3>1, RankType
  <2> QED BY <1>1, <2>2, <2>3, <2>4, <2>5
<1>3. CASE ~Holds(log, IsUsage)
  <2>1. TokenCount(log) = 0
    BY <1>3 DEF TokenCount
  <2>2. PendingEstimate(log) = Rank(log, Len(log)) - Rank(log, 0)
    BY <1>3 DEF PendingEstimate
  <2> QED BY <1>1, <2>1, <2>2
<1> QED BY <1>2, <1>3
-----------------------------------------------------------------------------
(***************************************************************************)
(* What a list of operations makes of a history.                           *)
(***************************************************************************)
Result(op, h) ==
  CASE op.name = "append"               -> h \o op.msgs
    [] op.name = "checkpoint"           -> h \o (IF WithDMail THEN <<UserMessage>> ELSE <<>>)
    [] op.name \in {"clear", "reset"}   -> <<>>
    [] OTHER                            -> h

\* From h the operations lead, through histories in Mid, to one in End; a usage
\* operation counts the messages that are there when its turn comes.
Leads(ops, h, Mid, End) ==
  \E f \in [1 .. Len(ops) + 1 -> Seq(Message)] :
    /\ f[1] = h /\ f[Len(ops) + 1] \in End
    /\ \A i \in 1 .. Len(ops) :
         /\ f[i] \in Mid
         /\ f[i + 1] = Result(ops[i], f[i])
         /\ ops[i].name = "usage" => Len(f[i]) <= ops[i].n + Slack

\* No operation leads nowhere.
LEMMA LeadsDone ==
  ASSUME NEW h \in Seq(Message), NEW Mid, NEW End
  PROVE  Leads(<<>>, h, Mid, End) <=> h \in End
<1>1. Len(<<>>) = 0 /\ 1 .. 0 = {} /\ 1 \in 1 .. 0 + 1
  OBVIOUS
<1>2. ASSUME Leads(<<>>, h, Mid, End) PROVE h \in End
  BY <1>1, <1>2 DEF Leads
<1>3. ASSUME h \in End PROVE Leads(<<>>, h, Mid, End)
  <2> DEFINE f == [i \in 1 .. 0 + 1 |-> h]
  <2>1. f \in [1 .. 0 + 1 -> Seq(Message)] /\ f[1] = h /\ f[0 + 1] = h
    BY <1>1
  <2> HIDE DEF f
  <2> QED BY <1>1, <1>3, <2>1 DEF Leads
<1> QED BY <1>2, <1>3

\* The first operation leads to where the others lead on.
LEMMA LeadsHead ==
  ASSUME NEW ops \in Seq(Op), ops # <<>>, NEW h, NEW Mid, NEW End,
         Leads(ops, h, Mid, End)
  PROVE  /\ h \in Mid /\ Result(Head(ops), h) \in Seq(Message)
         /\ Head(ops).name = "usage" => Len(h) <= Head(ops).n + Slack
         /\ Leads(Tail(ops), Result(Head(ops), h), Mid, End)
<1> DEFINE n == Len(ops)
           r == Tail(ops)
<1>1. /\ n \in Nat /\ n # 0 /\ Head(ops) = ops[1]
      /\ r \in Seq(Op) /\ Len(r) = n - 1
      /\ \A i \in 1 .. n - 1 : r[i] = ops[i + 1]
  BY HeadTailProperties, EmptySeq, LenProperties
<1>2. PICK f \in [1 .. n + 1 -> Seq(Message)] :
        /\ f[1] = h /\ f[n + 1] \in End
        /\ \A i \in 1 .. n :
             /\ f[i] \in Mid
             /\ f[i + 1] = Result(ops[i], f[i])
             /\ ops[i].name = "usage" => Len(f[i]) <= ops[i].n + Slack
  BY DEF Leads
<1> HIDE DEF n, r
<1> DEFINE g == [i \in 1 .. (n - 1) + 1 |-> f[i + 1]]
<1>3. 1 \in 1 .. n /\ (n - 1) + 1 = n /\ \A i \in 1 .. n : i + 1 \in 1 .. n + 1
  BY <1>1
<1>4. /\ h \in Mid /\ f[2] = Result(ops[1], h) /\ f[2] \in Seq(Message)
      /\ ops[1].name = "usage" => Len(h) <= ops[1].n + Slack
  <2>1. 1 + 1 = 2 /\ 2 \in 1 .. n + 1
    BY <1>1
  <2> QED BY <1>2, <1>3, <2>1
<1>5. g \in [1 .. (n - 1) + 1 -> Seq(Message)] /\ \A i \in 1 .. n : g[i] = f[i + 1]
  BY <1>2, <1>3
<1> HIDE DEF g
<1>6. g[1] = f[2] /\ g[(n - 1) + 1] \in End
  <2>1. 1 \in 1 .. n /\ n \in 1 .. n /\ (n - 1) + 1 = n /\ 1 + 1 = 2
    BY <1>1
  <2>2. g[1] = f[1 + 1] /\ g[n] = f[n + 1]
    BY <1>5, <2>1
  <2> QED BY <1>2, <2>1, <2>2
<1>7. ASSUME NEW i \in 1 .. n - 1
      PROVE  /\ g[i] \in Mid
             /\ g[i + 1] = Result(r[i], g[i])
             /\ r[i].name = "usage" => Len(g[i]) <= r[i].n + Slack
  <2>1. i \in 1 .. n /\ i + 1 \in 1 .. n
    BY <1>1
  <2>2. g[i] = f[i + 1] /\ g[i + 1] = f[(i + 1) + 1] /\ r[i] = ops[i + 1]
    BY <1>1, <1>5, <2>1
  <2> QED BY <1>2, <2>1, <2>2
<1>8. Leads(r, f[2], Mid, End)
  BY <1>1, <1>5, <1>6, <1>7 DEF Leads
<1> QED BY <1>1, <1>4, <1>8 DEF r

\* An operation in front of a list that leads somewhere.
LEMMA LeadsFirst ==
  ASSUME NEW op \in Op, NEW ops \in Seq(Op), NEW h \in Seq(Message), NEW Mid, NEW End,
         h \in Mid, op.name = "usage" => Len(h) <= op.n + Slack,
         Leads(ops, Result(op, h), Mid, End)
  PROVE  Leads(<<op>> \o ops, h, Mid, End)
<1> DEFINE n == Len(ops)
           s == <<op>> \o ops
<1>1. /\ n \in Nat /\ <<op>> \in Seq(Op) /\ Len(<<op>>) = 1 /\ <<op>>[1] = op
      /\ 1 \in 1 .. 1
  BY LenProperties
<1>2. /\ Len(s) = 1 + n /\ s[1] = op /\ \A i \in 1 .. n : s[1 + i] = ops[i]
  BY <1>1, ConcatAt
<1>3. PICK f \in [1 .. n + 1 -> Seq(Message)] :
        /\ f[1] = Result(op, h) /\ f[n + 1] \in End
        /\ \A i \in 1 .. n :
             /\ f[i] \in Mid
             /\ f[i + 1] = Result(ops[i], f[i])
             /\ ops[i].name = "usage" => Len(f[i]) <= ops[i].n + Slack
  BY DEF Leads
<1> HIDE DEF n, s
<1> DEFINE g == [i \in 1 .. (1 + n) + 1 |-> IF i = 1 THEN h ELSE f[i - 1]]
<1>4. /\ g \in [1 .. (1 + n) + 1 -> Seq(Message)] /\ g[1] = h
      /\ \A i \in 1 .. n + 1 : g[1 + i] = f[i]
  BY <1>1, <1>3
<1> HIDE DEF g
<1>5. g[(1 + n) + 1] \in End
  <2>1. n + 1 \in 1 .. n + 1 /\ (1 + n) + 1 = 1 + (n + 1)
    BY <1>1
  <2> QED BY <1>3, <1>4, <2>1
<1>6. ASSUME NEW i \in 1 .. 1 + n
      PROVE  /\ g[i] \in Mid
             /\ g[i + 1] = Result(s[i], g[i])
             /\ s[i].name = "usage" => Len(g[i]) <= s[i].n + Slack
  <2>1. CASE i = 1
    <3>1. g[1 + 1] = f[1] /\ 1 + 1 = i + 1
      BY <1>1, <1>4, <2>1
    <3> QED BY <1>2, <1>3, <1>4, <2>1, <3>1
  <2>2. CASE i # 1
    <3>1. PICK j \in 1 .. n : i = 1 + j
      <4>1. i - 1 \in 1 .. n /\ i = 1 + (i - 1)
        BY <1>1, <2>2
      <4> QED BY <4>1
    <3>2. j \in 1 .. n + 1 /\ j + 1 \in 1 .. n + 1 /\ i + 1 = 1 + (j + 1)
      BY <1>1, <3>1
    <3>3. g[i] = f[j] /\ g[i + 1] = f[j + 1] /\ s[i] = ops[j]
      BY <1>2, <1>4, <3>1, <3>2
    <3> QED BY <1>3, <3>3
  <2> QED BY <2>1, <2>2
<1>7. Leads(s, h, Mid, End)
  BY <1>2, <1>4, <1>5, <1>6 DEF Leads
<1> QED BY <1>7 DEF s

\* The result of an operation is a history.
LEMMA ResultType ==
  ASSUME NEW op \in Op, NEW h \in Seq(Message)
  PROVE  Result(op, h) \in Seq(Message)
<1>1. op.msgs \in Seq(Message) /\ <<UserMessage>> \in Seq(Message) /\ <<>> \in Seq(Message)
  BY CallTypes DEF Op
<1>2. /\ h \o op.msgs \in Seq(Message) /\ h \o <<UserMessage>> \in Seq(Message)
      /\ h \o <<>> \in Seq(Message)
  BY <1>1, ConcatProperties
<1> QED BY <1>1, <1>2 DEF Result

\* One operation leads to its result.
LEMMA LeadsOne ==
  ASSUME NEW op \in Op, NEW h \in Seq(Message), NEW Mid, NEW End, h \in Mid,
         op.name = "usage" => Len(h) <= op.n + Slack, Result(op, h) \in End
  PROVE  Leads(<<op>>, h, Mid, End)
<1>1. Result(op, h) \in Seq(Message) /\ <<>> \in Seq(Op)
  BY ResultType
<1>2. Leads(<<>>, Result(op, h), Mid, End)
  BY <1>1, LeadsDone
<1>3. Leads(<<op>> \o <<>>, h, Mid, End)
  BY <1>1, <1>2, LeadsFirst
<1>4. <<op>> \in Seq(Op) /\ <<op>> \o <<>> = <<op>>
  OBVIOUS
<1> QED BY <1>3, <1>4

\* Two lists, one after the other.
LEMMA LeadsThen ==
  ASSUME NEW a \in Seq(Op), NEW b \in Seq(Op), NEW h, NEW m, NEW Mid, NEW End,
         Leads(a, h, Mid, {m}), Leads(b, m, Mid, End)
  PROVE  Leads(a \o b, h, Mid, End)
<1> DEFINE n == Len(a)
           k == Len(b)
           s == a \o b
<1>1. /\ n \in Nat /\ k \in Nat /\ Len(s) = n + k
      /\ \A i \in 1 .. n : s[i] = a[i]
      /\ \A i \in 1 .. k : s[n + i] = b[i]
  BY ConcatAt
<1>2. PICK f \in [1 .. n + 1 -> Seq(Message)] :
        /\ f[1] = h /\ f[n + 1] \in {m}
        /\ \A i \in 1 .. n :
             /\ f[i] \in Mid
             /\ f[i + 1] = Result(a[i], f[i])
             /\ a[i].name = "usage" => Len(f[i]) <= a[i].n + Slack
  BY DEF Leads
<1>3. PICK g \in [1 .. k + 1 -> Seq(Message)] :
        /\ g[1] = m /\ g[k + 1] \in End
        /\ \A i \in 1 .. k :
             /\ g[i] \in Mid
             /\ g[i + 1] = Result(b[i], g[i])
             /\ b[i].name = "usage" => Len(g[i]) <= b[i].n + Slack
  BY DEF Leads
<1> HIDE DEF n, k, s
<1> DEFINE e == [i \in 1 .. (n + k) + 1 |-> IF i <= n THEN f[i] ELSE g[i - n]]
<1>4. ASSUME NEW i \in 1 .. (n + k) + 1
      PROVE  (IF i <= n THEN f[i] ELSE g[i - n]) \in Seq(Message)
  <2>1. CASE i <= n
    <3>1. i \in 1 .. n + 1
      BY <1>1, <2>1
    <3> QED BY <1>2, <2>1, <3>1
  <2>2. CASE ~(i <= n)
    <3>1. i - n \in 1 .. k + 1
      BY <1>1, <2>2
    <3> QED BY <1>3, <2>2, <3>1
  <2> QED BY <2>1, <2>2
<1>5. e \in [1 .. (n + k) + 1 -> Seq(Message)]
  BY <1>4
<1>6. \A i \in 1 .. n : e[i] = f[i]
  <2> SUFFICES ASSUME NEW i \in 1 .. n PROVE e[i] = f[i]
    OBVIOUS
  <2>1. i \in 1 .. (n + k) + 1 /\ i <= n
    BY <1>1
  <2> QED BY <2>1
<1>7. \A i \in 1 .. k + 1 : e[n + i] = g[i]
  <2> SUFFICES ASSUME NEW i \in 1 .. k + 1 PROVE e[n + i] = g[i]
    OBVIOUS
  <2>1. n + i \in 1 .. (n + k) + 1 /\ ~(n + i <= n) /\ (n + i) - n = i
    BY <1>1
  <2> QED BY <2>1
<1> HIDE DEF e
<1>8. f[n + 1] = g[1] /\ e[n + 1] = f[n + 1]
  <2>1. 1 \in 1 .. k + 1
    BY <1>1
  <2> QED BY <1>2, <1>3, <1>7, <2>1
<1>9. e[1] = h
  <2>1. CASE n = 0
    BY <1>2, <1>8, <2>1
  <2>2. CASE n # 0
    <3>1. 1 \in 1 .. n
      BY <1>1, <2>2
    <3> QED BY <1>2, <1>6, <3>1
  <2> QED BY <2>1, <2>2
<1>10. e[(n + k) + 1] \in End
  <2>1. k + 1 \in 1 .. k + 1 /\ (n + k) + 1 = n + (k + 1)
    BY <1>1
  <2> QED BY <1>3, <1>7, <2>1
<1>11. ASSUME NEW i \in 1 .. n + k
       PROVE  /\ e[i] \in Mid
              /\ e[i + 1] = Result(s[i], e[i])
              /\ s[i].name = "usage" => Len(e[i]) <= s[i].n + Slack
  <2>1. CASE i <= n
    <3>1. i \in 1 .. n /\ e[i] = f[i] /\ s[i] = a[i]
      BY <1>1, <1>6, <2>1
    <3>2. e[i + 1] = f[i + 1]
      <4>1. CASE i = n
        BY <1>8, <4>1
      <4>2. CASE i # n
        <5>1. i + 1 \in 1 .. n
          BY <1>1, <2>1, <4>2
        <5> QED BY <1>6, <5>1
      <4> QED BY <4>1, <4>2
    <3> QED BY <1>2, <3>1, <3>2
  <2>2. CASE ~(i <= n)
    <3>1. PICK j \in 1 .. k : i = n + j
      <4>1. i - n \in 1 .. k /\ i = n + (i - n)
        BY <1>1, <2>2
      <4> QED BY <4>1
    <3>2. j \in 1 .. k + 1 /\ j + 1 \in 1 .. k + 1 /\ i + 1 = n + (j + 1)
      BY <1>1, <3>1
    <3>3. e[i] = g[j] /\ e[i + 1] = g[j + 1] /\ s[i] = b[j]
      BY <1>1, <1>7, <3>1, <3>2
    <3> QED BY <1>3, <3>3
  <2> QED BY <2>1, <2>2
<1>12. Leads(s, h, Mid, End)
  BY <1>1, <1>5, <1>9, <1>10, <1>11 DEF Leads
<1> QED BY <1>12 DEF s

\* Lists of two, three and four, taken apart.
LEMMA PairOfOps ==
  ASSUME NEW a \in Op, NEW b \in Op
  PROVE  <<a, b>> \in Seq(Op) /\ <<a>> \o <<b>> = <<a, b>>
<1>1. /\ <<a>> \in Seq(Op) /\ <<b>> \in Seq(Op) /\ <<a, b>> \in Seq(Op)
      /\ Len(<<a>>) = 1 /\ Len(<<b>>) = 1 /\ Len(<<a, b>>) = 2
      /\ <<a>>[1] = a /\ <<b>>[1] = b /\ <<a, b>>[1] = a /\ <<a, b>>[2] = b
  OBVIOUS
<1>2. /\ <<a>> \o <<b>> \in Seq(Op) /\ Len(<<a>> \o <<b>>) = 2
      /\ (<<a>> \o <<b>>)[1] = a /\ (<<a>> \o <<b>>)[1 + 1] = b
  BY <1>1, ConcatAt
<1>3. \A i \in 1 .. 2 : (<<a>> \o <<b>>)[i] = <<a, b>>[i]
  BY <1>1, <1>2
<1> QED BY <1>1, <1>2, <1>3, SeqEqual

\* Likewise for three ...
LEMMA ThreeOps ==
  ASSUME NEW a \in Op, NEW b \in Op, NEW c \in Op
  PROVE  <<a, b, c>> \in Seq(Op) /\ <<a>> \o <<b, c>> = <<a, b, c>>
<1> DEFINE p == <<a>>
           s == <<b, c>>
           r == <<a, b, c>>
<1>1. p \in Seq(Op) /\ s \in Seq(Op) /\ r \in Seq(Op)
  OBVIOUS
<1>2. /\ Len(p) = 1 /\ Len(s) = 2 /\ Len(r) = 3
      /\ p[1] = a /\ s[1] = b /\ s[2] = c /\ r[1] = a /\ r[2] = b /\ r[3] = c
  OBVIOUS
<1> HIDE DEF p, s, r
<1>3. /\ p \o s \in Seq(Op) /\ Len(p \o s) = Len(p) + Len(s)
      /\ \A i \in 1 .. Len(p) : (p \o s)[i] = p[i]
      /\ \A i \in 1 .. Len(s) : (p \o s)[Len(p) + i] = s[i]
  BY <1>1, ConcatAt
<1>4. /\ Len(p \o s) = 3 /\ (p \o s)[1] = a
      /\ (p \o s)[1 + 1] = b /\ (p \o s)[1 + 2] = c
  BY <1>2, <1>3
<1>5. \A i \in 1 .. 3 : (p \o s)[i] = r[i]
  BY <1>2, <1>4
<1>6. p \o s = r
  BY <1>1, <1>2, <1>3, <1>4, <1>5, SeqEqual
<1> QED BY <1>1, <1>6 DEF p, s, r

\* ... and four.
LEMMA FourOps ==
  ASSUME NEW a \in Op, NEW b \in Op, NEW c \in Op, NEW d \in Op
  PROVE  <<a, b, c, d>> \in Seq(Op) /\ <<a>> \o <<b, c, d>> = <<a, b, c, d>>
<1> DEFINE p == <<a>>
           s == <<b, c, d>>
           r == <<a, b, c, d>>
<1>1. p \in Seq(Op) /\ s \in Seq(Op) /\ r \in Seq(Op)
  OBVIOUS
<1>2. /\ Len(p) = 1 /\ Len(s) = 3 /\ Len(r) = 4
      /\ p[1] = a /\ s[1] = b /\ s[2] = c /\ s[3] = d
      /\ r[1] = a /\ r[2] = b /\ r[3] = c /\ r[4] = d
  OBVIOUS
<1> HIDE DEF p, s, r
<1>3. /\ p \o s \in Seq(Op) /\ Len(p \o s) = Len(p) + Len(s)
      /\ \A i \in 1 .. Len(p) : (p \o s)[i] = p[i]
      /\ \A i \in 1 .. Len(s) : (p \o s)[Len(p) + i] = s[i]
  BY <1>1, ConcatAt
<1>4. Len(p \o s) = 4 /\ (p \o s)[1] = a
  BY <1>2, <1>3
<1>5. (p \o s)[2] = b
  <2>1. 1 \in 1 .. Len(s) /\ Len(p) + 1 = 2
    BY <1>2
  <2>2. (p \o s)[Len(p) + 1] = s[1]
    BY <1>3, <2>1
  <2> QED BY <1>2, <2>1, <2>2
<1>6. (p \o s)[3] = c
  <2>1. 2 \in 1 .. Len(s) /\ Len(p) + 2 = 3
    BY <1>2
  <2>2. (p \o s)[Len(p) + 2] = s[2]
    BY <1>3, <2>1
  <2> QED BY <1>2, <2>1, <2>2
<1>7. (p \o s)[4] = d
  <2>1. 3 \in 1 .. Len(s) /\ Len(p) + 3 = 4
    BY <1>2
  <2>2. (p \o s)[Len(p) + 3] = s[3]
    BY <1>3, <2>1
  <2> QED BY <1>2, <2>1, <2>2
<1>8. \A i \in 1 .. Len(p \o s) : (p \o s)[i] = r[i]
  <2> SUFFICES ASSUME NEW i \in 1 .. Len(p \o s) PROVE (p \o s)[i] = r[i]
    OBVIOUS
  <2>1. i = 1 \/ i = 2 \/ i = 3 \/ i = 4
    BY <1>4
  <2> QED BY <1>2, <1>4, <1>5, <1>6, <1>7, <2>1
<1>9. p \o s = r
  BY <1>1, <1>2, <1>3, <1>4, <1>8, SeqEqual
<1> QED BY <1>1, <1>9 DEF p, s, r

-----------------------------------------------------------------------------
(***************************************************************************)
(* The invariant of the context while one task at a time works on it and   *)
(* none is cancelled.  Good: the histories a revert or the run may see.    *)
(* End: the histories the operations under way lead to.                    *)
(***************************************************************************)
Log(t) == file \o writing[t]

Alone(t) == \A u \in Task \ {t} : Idle(u)

Kept(t, Good) ==
  /\ Alone(t)
  /\ ~Rotating =>
       IsReplay(Log(t), history, tokenCount, pendingEstimate, nextCheckpointId)
  /\ About("turn", "reset") => file = <<>>
  /\ Steady(Log(t), Good) /\ Steady(rotated, Good)
  /\ Len(history) <= tokenCount + pendingEstimate + Slack

RevertName == {"revert", "replay"}
Reverting(t) == todo[t] # <<>> /\ Head(todo[t]).name \in RevertName

\* What _turn() awaits, and what follows the revert of a D-Mail.
Renewal == <<Call("checkpoint"), CallAppend(<<UserMessage>>)>>

Plan(t, Good, End) ==
  /\ \A i \in DOMAIN todo[t] : todo[t][i].name \in RevertName => i = 1
  /\ Reverting(t) =>
       /\ t = "turn" /\ writing[t] = <<>> /\ Tail(todo[t]) = Renewal
       /\ Head(todo[t]).name = "revert" => Head(todo[t]).n < nextCheckpointId
       /\ Head(todo[t]).name = "replay" =>
            \E i \in DOMAIN rotated : rotated[i] = CheckpointLine(Head(todo[t]).n)
  /\ ~Reverting(t) =>
       Leads(todo[t], history, IF t = "turn" THEN Good ELSE Seq(Message), End)

Sound(t, Good, End) == Kept(t, Good) /\ Plan(t, Good, End)

\* One more user message takes a good history to the end.
Closed(Good, End) ==
  /\ Good \subseteq Seq(Message) /\ End \subseteq Good
  /\ \A h \in Good : h \o <<UserMessage>> \in End

\* The two tasks.
LEMMA TwoTasks ==
  ASSUME NEW t \in Task
  PROVE  /\ t = "turn" \/ t = "grow"
         /\ "turn" \in Task /\ "grow" \in Task
BY DEF Task

\* A task at work on something else than a clear or a revert: none is rotating.
LEMMA NotRotating ==
  ASSUME NEW t \in Task, Alone(t),
         \/ \E name \in OpName \ {"reset", "replay"} : About(t, name)
         \/ writing[t] # <<>>
  PROVE  ~Rotating
<1>1. CASE t = "turn"
  BY <1>1 DEF About, Rotating
<1>2. CASE t = "grow"
  BY <1>2 DEF Alone, Idle, Task, About, Rotating
<1> QED BY <1>1, <1>2, TwoTasks

\* A task that gives up the head of its list stays alone, and rotates nothing
\* unless it clears.
LEMMA StaysAlone ==
  ASSUME Shape, NEW t \in Task, Alone(t), todo[t] # <<>>, NEW ops \in Seq(Op),
         Continue(t, ops), t = "grow" => ops = <<>>,
         \A u \in Task \ {t} : writing'[u] = writing[u]
  PROVE  /\ Alone(t)' /\ todo'[t] = ops \o Tail(todo[t])
         /\ (\A i \in DOMAIN ops : ops[i].name # "reset") => ~About("turn", "reset")'
<1>1. ContextTypeOK
  BY DEF Shape
<1>2. \A u \in Task \ {t} : todo'[u] = todo[u]
  BY <1>1, ContinueKeeps
<1>3. Alone(t)'
  BY <1>2 DEF Alone, Idle
<1>4. todo'[t] = ops \o Tail(todo[t])
  <2>1. todo \in [Task -> Seq(Op)] /\ todo' = [todo EXCEPT ![t] = ops \o Tail(@)]
    BY <1>1 DEF ContextTypeOK, Continue
  <2> QED BY <2>1
<1>5. ASSUME \A i \in DOMAIN ops : ops[i].name # "reset", About("turn", "reset")'
      PROVE  FALSE
  <2>1. todo'["turn"] # <<>> /\ Head(todo'["turn"]).name = "reset"
    BY <1>5 DEF About
  <2>2. t = "turn"
    <3>1. ASSUME t = "grow" PROVE FALSE
      BY <1>3, <2>1, <3>1 DEF Alone, Idle, Task
    <3> QED BY <3>1, TwoTasks
  <2>3. \A i \in DOMAIN todo'["turn"] : todo'["turn"][i].name # "reset"
    BY <1>5, <2>2, ContinueOps
  <2>4. todo'["turn"] \in Seq(Op)
    <3>1. todo' \in [Task -> Seq(Op)]
      BY <1>1, ContinueKeeps
    <3> QED BY <3>1, TwoTasks
  <2>5. Head(todo'["turn"]) = todo'["turn"][1] /\ 1 \in DOMAIN todo'["turn"]
    BY <2>1, <2>4, HeadTailProperties, EmptySeq, LenProperties
  <2> QED BY <2>1, <2>3, <2>5
<1> QED BY <1>3, <1>4, <1>5

\* The plan goes on after an operation that reverts nothing.
LEMMA PlanGoesOn ==
  ASSUME Shape, NEW t \in Task, NEW Good, NEW End, Plan(t, Good, End),
         todo[t] # <<>>, NEW ops \in Seq(Op), Continue(t, ops),
         \A i \in DOMAIN ops : ops[i].name \notin RevertName,
         Leads(ops \o Tail(todo[t]), history',
               IF t = "turn" THEN Good ELSE Seq(Message), End)
  PROVE  Plan(t, Good, End)'
<1>1. /\ ContextTypeOK /\ todo \in [Task -> Seq(Op)]
      /\ todo' = [todo EXCEPT ![t] = ops \o Tail(@)]
  BY DEF Shape, ContextTypeOK, Continue
<1>2. /\ todo' \in [Task -> Seq(Op)]
      /\ \A i \in DOMAIN todo'[t] :
           \/ i \in DOMAIN ops /\ todo'[t][i] = ops[i]
           \/ \E j \in DOMAIN todo[t] : j # 1 /\ todo'[t][i] = todo[t][j]
  BY <1>1, ContinueKeeps
<1>3. todo'[t] = ops \o Tail(todo[t]) /\ todo'[t] \in Seq(Op)
  BY <1>1, <1>2
<1>4. \A i \in DOMAIN todo'[t] : todo'[t][i].name \notin RevertName
  BY <1>2 DEF Plan
<1>5. ~Reverting(t)'
  <2> SUFFICES ASSUME todo'[t] # <<>> PROVE Head(todo'[t]).name \notin RevertName
    BY DEF Reverting
  <2>1. Head(todo'[t]) = todo'[t][1] /\ 1 \in DOMAIN todo'[t]
    BY <1>3, HeadTailProperties, EmptySeq, LenProperties
  <2> QED BY <1>4, <2>1
<1>6. Leads(todo'[t], history', IF t = "turn" THEN Good ELSE Seq(Message), End)
  BY <1>3
<1> QED BY <1>4, <1>5, <1>6 DEF Plan

\* What the head of a plan is good for.
LEMMA PlanHead ==
  ASSUME Shape, NEW t \in Task, NEW Good, NEW End, Plan(t, Good, End),
         todo[t] # <<>>, Head(todo[t]).name \notin RevertName
  PROVE  /\ Head(todo[t]) \in Op
         /\ t = "turn" => history \in Good
         /\ Head(todo[t]).name = "usage" =>
              Len(history) <= Head(todo[t]).n + Slack
         /\ Tail(todo[t]) \in Seq(Op)
         /\ Result(Head(todo[t]), history) \in Seq(Message)
         /\ Leads(Tail(todo[t]), Result(Head(todo[t]), history),
                  IF t = "turn" THEN Good ELSE Seq(Message), End)
<1> DEFINE Mid == IF t = "turn" THEN Good ELSE Seq(Message)
<1>1. Leads(todo[t], history, Mid, End)
  BY DEF Plan, Reverting
<1>2. todo[t] \in Seq(Op) /\ ContextTypeOK
  BY DEF Shape, ContextTypeOK
<1> HIDE DEF Mid
<1>3. /\ history \in Mid
      /\ Result(Head(todo[t]), history) \in Seq(Message)
      /\ Head(todo[t]).name = "usage" => Len(history) <= Head(todo[t]).n + Slack
      /\ Leads(Tail(todo[t]), Result(Head(todo[t]), history), Mid, End)
  BY <1>1, <1>2, LeadsHead
<1>4. Head(todo[t]) \in Op /\ Tail(todo[t]) \in Seq(Op)
  BY <1>2, HeadOp, HeadTailProperties
<1> QED BY <1>3, <1>4 DEF Mid
-----------------------------------------------------------------------------
(***************************************************************************)
(* Every context operation keeps it.                                       *)
(***************************************************************************)
\* A task with nothing to write has the file as its log.
LEMMA LogAtRest ==
  ASSUME Shape, NEW t \in Task, writing[t] = <<>>
  PROVE  Log(t) = file /\ file \in Seq(Line)
BY ConcatEmptySeq DEF Shape, ContextTypeOK, Log

\* At the head of the list of the task that works, what the memory replays.
LEMMA KeptHead ==
  ASSUME Shape, NEW t \in Task, NEW Good, NEW name \in OpName \ {"reset", "replay"},
         Kept(t, Good), About(t, name)
  PROVE  /\ todo[t] # <<>> /\ writing[t] = <<>> /\ Head(todo[t]).name = name
         /\ file \in Seq(Line) /\ Steady(file, Good)
         /\ IsReplay(file, history, tokenCount, pendingEstimate, nextCheckpointId)
<1>1. todo[t] # <<>> /\ writing[t] = <<>> /\ Head(todo[t]).name = name
  BY DEF About
<1>2. ~Rotating
  BY NotRotating DEF Kept
<1>3. Log(t) = file /\ file \in Seq(Line)
  BY <1>1, LogAtRest
<1> QED BY <1>1, <1>2, <1>3 DEF Kept

\* No operation is empty.
LEMMA NoOps ==
  /\ <<>> \in Seq(Op) /\ \A i \in DOMAIN <<>> : <<>>[i].name \notin RevertName \cup {"reset"}
  /\ \A s \in Seq(Op) : <<>> \o s = s
BY ConcatEmptySeq

\* The lines a task writes change its log, not that of the other.
LEMMA LogNext ==
  ASSUME Shape, NEW t \in Task, NEW lines, writing[t] = <<>>, file' = file,
         writing' = [writing EXCEPT ![t] = lines]
  PROVE  /\ Log(t)' = file \o lines
         /\ \A u \in Task \ {t} : writing'[u] = writing[u]
BY DEF Shape, ContextTypeOK, Log

\* append_message()
LEMMA AppendSound ==
  ASSUME Shape, NEW t \in Task, NEW Good, NEW End,
         Sound(t, Good, End), AppendMessage(t)
  PROVE  Sound(t, Good, End)'
<1> DEFINE msgs == Head(todo[t]).msgs
           Mid == IF t = "turn" THEN Good ELSE Seq(Message)
<1>1. /\ todo[t] # <<>> /\ writing[t] = <<>> /\ Head(todo[t]).name = "append"
      /\ file \in Seq(Line) /\ Steady(file, Good)
      /\ IsReplay(file, history, tokenCount, pendingEstimate, nextCheckpointId)
  BY KeptHead DEF OpName, Sound, AppendMessage
<1>2. /\ Head(todo[t]) \in Op /\ Tail(todo[t]) \in Seq(Op)
      /\ Leads(Tail(todo[t]), Result(Head(todo[t]), history), Mid, End)
  BY <1>1, PlanHead DEF Sound, RevertName
<1>3. msgs \in Seq(Message) /\ Result(Head(todo[t]), history) = history \o msgs
  BY <1>1, <1>2 DEF Op, Result
<1> HIDE DEF msgs, Mid
<1>4. /\ history' = history \o msgs
      /\ pendingEstimate' = pendingEstimate + Len(msgs)
      /\ writing' = [writing EXCEPT ![t] = msgs]
      /\ Continue(t, <<>>)
      /\ UNCHANGED <<tokenCount, nextCheckpointId, file, rotated>>
  BY DEF AppendMessage, msgs
<1>5. /\ Log(t)' = file \o msgs
      /\ \A u \in Task \ {t} : writing'[u] = writing[u]
  BY <1>1, <1>4, LogNext
<1>6. Alone(t)' /\ ~About("turn", "reset")'
  BY <1>1, <1>4, <1>5, NoOps, StaysAlone DEF Sound, Kept
<1>7. IsReplay(file \o msgs, history', tokenCount', pendingEstimate', nextCheckpointId')
  BY <1>1, <1>3, <1>4, ReplayMessages
<1>8. Steady(file \o msgs, Good) /\ Steady(rotated', Good)
  <2>1. msgs \in Seq(Line)
    BY <1>3, NoWriteNoCheckpoint
  <2>2. Follows(file, msgs, Good)
    <3> SUFFICES ASSUME NEW i \in DOMAIN msgs
                 PROVE  ~IsCheckpoint(msgs[i]) /\ ~IsUsage(msgs[i])
      BY DEF Follows
    <3>1. msgs[i] \in Message
      BY <1>3, LenProperties, ElementOfSeq
    <3> QED BY <3>1 DEF Message, MessageRole, IsCheckpoint, IsUsage
  <2> QED BY <1>1, <1>4, <2>1, <2>2, SteadyAppend DEF Sound, Kept
<1>9. Len(history') <= tokenCount' + pendingEstimate' + Slack
  <2>1. /\ history \in Seq(Message) /\ tokenCount \in Nat /\ pendingEstimate \in Nat
        /\ Len(history) <= tokenCount + pendingEstimate + Slack
    BY DEF Shape, ContextTypeOK, Sound, Kept
  <2>2. Len(history \o msgs) = Len(history) + Len(msgs)
        /\ Len(history) \in Nat /\ Len(msgs) \in Nat
    BY <1>3, <2>1, ConcatAt
  <2> QED BY <1>4, <2>1, <2>2, SlackType
<1>10. Kept(t, Good)'
  BY <1>5, <1>6, <1>7, <1>8, <1>9 DEF Kept
<1>11. Plan(t, Good, End)'
  <2>1. Leads(<<>> \o Tail(todo[t]), history', Mid, End)
    BY <1>2, <1>3, <1>4, NoOps
  <2> QED BY <1>1, <1>4, <2>1, NoOps, PlanGoesOn DEF Sound, Mid
<1> QED BY <1>10, <1>11 DEF Sound

\* update_token_count()
LEMMA UsageSound ==
  ASSUME Shape, NEW t \in Task, NEW Good, NEW End,
         Sound(t, Good, End), UpdateTokenCount(t)
  PROVE  Sound(t, Good, End)'
<1> DEFINE v == Head(todo[t]).n
           Mid == IF t = "turn" THEN Good ELSE Seq(Message)
<1>1. /\ todo[t] # <<>> /\ writing[t] = <<>> /\ Head(todo[t]).name = "usage"
      /\ file \in Seq(Line) /\ Steady(file, Good)
      /\ IsReplay(file, history, tokenCount, pendingEstimate, nextCheckpointId)
  BY KeptHead DEF OpName, Sound, UpdateTokenCount
<1>2. /\ Head(todo[t]) \in Op /\ Tail(todo[t]) \in Seq(Op)
      /\ Len(history) <= Head(todo[t]).n + Slack
      /\ Leads(Tail(todo[t]), Result(Head(todo[t]), history), Mid, End)
  BY <1>1, PlanHead DEF Sound, RevertName
<1>3. v \in Nat /\ Result(Head(todo[t]), history) = history
  BY <1>1, <1>2 DEF Op, Result
<1>4. /\ tokenCount' = v
      /\ pendingEstimate' = 0
      /\ writing' = [writing EXCEPT ![t] = <<UsageLine(v)>>]
      /\ Continue(t, <<>>)
      /\ UNCHANGED <<history, nextCheckpointId, file, rotated>>
  BY DEF UpdateTokenCount
<1> HIDE DEF v, Mid
<1>5. /\ Log(t)' = file \o <<UsageLine(v)>>
      /\ \A u \in Task \ {t} : writing'[u] = writing[u]
  BY <1>1, <1>4, LogNext
<1>6. Alone(t)' /\ ~About("turn", "reset")'
  BY <1>1, <1>4, <1>5, NoOps, StaysAlone DEF Sound, Kept
<1>7. IsReplay(file \o <<UsageLine(v)>>, history', tokenCount', pendingEstimate',
               nextCheckpointId')
  BY <1>1, <1>3, <1>4, ReplayUsage
<1>8. Steady(file \o <<UsageLine(v)>>, Good) /\ Steady(rotated', Good)
  <2>1. /\ <<UsageLine(v)>> \in Seq(Line) /\ ~IsCheckpoint(UsageLine(v))
        /\ UsageLine(v).n = v
    BY <1>3, CallTypes DEF UsageLine, IsCheckpoint
  <2>2. Rank(file, Len(file)) <= v + Slack
    BY <1>1, <1>2, MessagesAt DEF IsReplay, v
  <2>3. Follows(file, <<UsageLine(v)>>, Good)
    BY <2>1, <2>2 DEF Follows
  <2> QED BY <1>1, <1>4, <2>1, <2>3, SteadyAppend DEF Sound, Kept
<1>9. Len(history') <= tokenCount' + pendingEstimate' + Slack
  <2>1. Len(history) <= v + Slack
    BY <1>2 DEF v
  <2>2. v + 0 = v
    BY <1>3
  <2> QED BY <1>4, <2>1, <2>2
<1>10. Kept(t, Good)'
  BY <1>5, <1>6, <1>7, <1>8, <1>9 DEF Kept
<1>11. Plan(t, Good, End)'
  <2>1. Leads(<<>> \o Tail(todo[t]), history', Mid, End)
    BY <1>2, <1>3, <1>4, NoOps
  <2> QED BY <1>1, <1>4, <2>1, NoOps, PlanGoesOn DEF Sound, Mid
<1> QED BY <1>10, <1>11 DEF Sound

\* checkpoint(), and the message that may follow it
LEMMA CheckpointSound ==
  ASSUME Shape, NEW t \in Task, NEW Good, NEW End,
         Sound(t, Good, End), Closed(Good, End), Checkpoint(t)
  PROVE  Sound(t, Good, End)'
<1> DEFINE id == nextCheckpointId
           ops == IF WithDMail THEN <<CallAppend(<<UserMessage>>)>> ELSE <<>>
           line == CheckpointLine(id)
<1>1. /\ todo[t] # <<>> /\ writing[t] = <<>> /\ Head(todo[t]).name = "checkpoint"
      /\ file \in Seq(Line) /\ Steady(file, Good)
      /\ IsReplay(file, history, tokenCount, pendingEstimate, nextCheckpointId)
  BY KeptHead DEF OpName, Sound, Checkpoint
<1>2. t = "turn" /\ history \in Seq(Message) /\ id \in Nat
  BY OnlyTurn DEF Checkpoint, Shape, ContextTypeOK
<1>3. /\ Head(todo[t]) \in Op /\ Tail(todo[t]) \in Seq(Op) /\ history \in Good
      /\ Leads(Tail(todo[t]), Result(Head(todo[t]), history), Good, End)
  BY <1>1, <1>2, PlanHead DEF Sound, RevertName
<1>4. /\ ops \in Seq(Op)
      /\ \A i \in DOMAIN ops : ops[i].name \notin RevertName \cup {"reset"}
  <2>1. <<UserMessage>> \in Seq(Message)
    BY CallTypes
  <2>2. CallAppend(<<UserMessage>>) \in Op /\ CallAppend(<<UserMessage>>).name = "append"
    BY <2>1, CallTypes DEF CallAppend
  <2> QED BY <2>2 DEF RevertName
<1>5. Leads(ops \o Tail(todo[t]), history, Good, End)
  <2>1. CASE WithDMail
    <3> DEFINE op == CallAppend(<<UserMessage>>)
    <3>1. op \in Op /\ op.name = "append" /\ op.msgs = <<UserMessage>>
      <4>1. <<UserMessage>> \in Seq(Message)
        BY CallTypes
      <4>2. op \in Op
        BY <4>1, CallTypes
      <4> QED BY <4>2 DEF CallAppend
    <3>2. Result(op, history) = Result(Head(todo[t]), history)
      BY <1>1, <2>1, <3>1 DEF Result
    <3> HIDE DEF op
    <3>3. Leads(<<op>> \o Tail(todo[t]), history, Good, End)
      BY <1>2, <1>3, <3>1, <3>2, LeadsFirst
    <3> QED BY <2>1, <3>3 DEF op
  <2>2. CASE ~WithDMail
    <3>1. Result(Head(todo[t]), history) = history \o <<>>
      BY <1>1, <2>2 DEF Result
    <3>2. history \o <<>> = history
      BY <1>2, ConcatEmptySeq
    <3> QED BY <1>3, <2>2, <3>1, <3>2, NoOps
  <2> QED BY <2>1, <2>2
<1>6. /\ id' = id + 1
      /\ writing' = [writing EXCEPT ![t] = <<line>>]
      /\ Continue(t, ops)
      /\ UNCHANGED <<history, tokenCount, pendingEstimate, file, rotated>>
  BY DEF Checkpoint
<1>7. line \in Line /\ IsCheckpoint(line) /\ ~IsUsage(line) /\ line.n = id
  BY <1>2, NewCheckpoint DEF CheckpointLine, IsCheckpoint, IsUsage
<1>8. IsReplay(file \o <<line>>, history', tokenCount', pendingEstimate', id + 1)
  BY <1>1, <1>2, <1>6, ReplayCheckpoint
<1> HIDE DEF ops, line
<1>9. /\ Log(t)' = file \o <<line>>
      /\ \A u \in Task \ {t} : writing'[u] = writing[u]
  BY <1>1, <1>6, LogNext
<1>10. Alone(t)' /\ ~About("turn", "reset")'
  BY <1>1, <1>2, <1>4, <1>6, <1>9, StaysAlone DEF Sound, Kept
<1>11. Steady(file \o <<line>>, Good) /\ Steady(rotated', Good)
  <2>1. <<line>> \in Seq(Line) /\ DOMAIN <<line>> = {1} /\ <<line>>[1] = line
        /\ Len(<<line>>) = 1
    BY <1>7
  <2>2. NextId(file) = id /\ Messages(file) \in Good
    BY <1>1, <1>3 DEF IsReplay
  <2>3. Follows(file, <<line>>, Good)
    BY <1>7, <2>1, <2>2 DEF Follows
  <2> QED BY <1>1, <1>6, <2>1, <2>3, SteadyAppend DEF Sound, Kept
<1>12. Kept(t, Good)'
  BY <1>6, <1>8, <1>9, <1>10, <1>11 DEF Sound, Kept
<1>13. Plan(t, Good, End)'
  BY <1>1, <1>2, <1>4, <1>5, <1>6, PlanGoesOn DEF Sound
<1> QED BY <1>12, <1>13 DEF Sound

\* The awaited write of the lines completes.
LEMMA WriteSound ==
  ASSUME Shape, NEW t \in Task, NEW Good, NEW End,
         Sound(t, Good, End), Write(t)
  PROVE  Sound(t, Good, End)'
<1>1. /\ writing[t] # <<>> /\ file' = file \o writing[t]
      /\ writing' = [writing EXCEPT ![t] = <<>>]
      /\ UNCHANGED <<memory, rotated, todo>>
  BY DEF Write
<1>2. /\ file \in Seq(Line) /\ writing[t] \in Seq(Line)
      /\ writing \in [Task -> Seq(Line)]
  BY DEF Shape, ContextTypeOK
<1>3. /\ writing'[t] = <<>> /\ \A u \in Task \ {t} : writing'[u] = writing[u]
  BY <1>1, <1>2
<1>4. Log(t)' = Log(t)
  <2>1. file \o writing[t] \in Seq(Line)
    BY <1>2, ConcatAt
  <2>2. (file \o writing[t]) \o <<>> = file \o writing[t]
    BY <2>1, ConcatEmptySeq
  <2> QED BY <1>1, <1>3, <2>2 DEF Log
<1>5. Alone(t)'
  BY <1>1, <1>3 DEF Sound, Kept, Alone, Idle
<1>6. ~Rotating
  BY <1>1, NotRotating DEF Sound, Kept
<1>7. ~About("turn", "reset")'
  <2>1. CASE t = "grow"
    <3>1. todo'["turn"] = <<>>
      BY <1>1, <2>1 DEF Sound, Kept, Alone, Idle, Task
    <3> QED BY <3>1 DEF About
  <2>2. CASE t = "turn"
    <3>1. \A i \in DOMAIN todo["turn"] : todo["turn"][i].name # "reset"
      BY <1>1, <2>2 DEF Shape, OpsKept
    <3>2. ASSUME todo["turn"] # <<>> PROVE Head(todo["turn"]).name # "reset"
      BY <3>1, <3>2, HeadOp, TwoTasks DEF Shape
    <3> QED BY <1>1, <3>2 DEF About
  <2> QED BY <2>1, <2>2, TwoTasks
<1>8. Kept(t, Good)'
  BY <1>1, <1>4, <1>5, <1>6, <1>7 DEF Sound, Kept, memory
<1>9. ~Reverting(t)
  BY <1>1 DEF Sound, Plan
<1>10. Plan(t, Good, End)'
  <2>1. ~Reverting(t)'
    BY <1>1, <1>9 DEF Reverting
  <2> QED BY <1>1, <1>9, <2>1 DEF Sound, Plan, memory
<1> QED BY <1>8, <1>10 DEF Sound

\* clear() moves the file away ...
LEMMA ClearRotateSound ==
  ASSUME Shape, NEW t \in Task, NEW Good, NEW End,
         Sound(t, Good, End), ClearRotate(t)
  PROVE  Sound(t, Good, End)'
<1> DEFINE op == Call("reset")
<1>1. /\ todo[t] # <<>> /\ writing[t] = <<>> /\ Head(todo[t]).name = "clear"
  BY DEF ClearRotate, About
<1>2. t = "turn" /\ history \in Seq(Message)
  BY OnlyTurn DEF ClearRotate, Shape, ContextTypeOK
<1>3. /\ Head(todo[t]) \in Op /\ Tail(todo[t]) \in Seq(Op) /\ history \in Good
      /\ Leads(Tail(todo[t]), Result(Head(todo[t]), history), Good, End)
  BY <1>1, <1>2, PlanHead DEF Sound, RevertName
<1>4. op \in Op /\ op.name = "reset"
  BY CallTypes DEF Call, OpName
<1>5. Result(Head(todo[t]), history) = Result(op, history)
  BY <1>1, <1>4 DEF Result
<1> HIDE DEF op
<1>6. Leads(<<op>> \o Tail(todo[t]), history, Good, End)
  BY <1>2, <1>3, <1>4, <1>5, LeadsFirst
<1>7. /\ file' = <<>> /\ Continue(t, <<op>>)
      /\ UNCHANGED <<memory, rotated, writing>>
  BY DEF ClearRotate, op
<1>8. /\ <<op>> \in Seq(Op) /\ \A i \in DOMAIN <<op>> : <<op>>[i].name \notin RevertName
  BY <1>4 DEF RevertName
<1>9. Alone(t)' /\ todo'[t] = <<op>> \o Tail(todo[t])
  BY <1>1, <1>2, <1>7, <1>8, StaysAlone DEF Sound, Kept
<1>10. Rotating'
  <2>1. todo'["turn"] # <<>> /\ Head(todo'["turn"]) = op
    <3>1. /\ Len(<<op>> \o Tail(todo[t])) # 0
          /\ (<<op>> \o Tail(todo[t]))[1] = op
      <4>1. <<op>> \in Seq(Op) /\ Len(<<op>>) = 1 /\ <<op>>[1] = op /\ 1 \in 1 .. 1
        BY <1>4
      <4> QED BY <1>3, <4>1, ConcatAt
    <3>2. <<op>> \o Tail(todo[t]) \in Seq(Op)
      BY <1>3, <1>8, ConcatProperties
    <3> QED BY <1>2, <1>9, <3>1, <3>2, HeadTailProperties, EmptySeq
  <2>2. writing'["turn"] = <<>>
    BY <1>1, <1>2, <1>7
  <2> QED BY <1>4, <2>1, <2>2 DEF Rotating, About
<1>11. Log(t)' = <<>>
  <2>1. file' \o writing'[t] = <<>>
    BY <1>1, <1>7, ConcatEmptySeq
  <2> QED BY <2>1 DEF Log
<1>12. Steady(Log(t)', Good) /\ Steady(rotated', Good)
  BY <1>7, <1>11, SteadyEmpty DEF Sound, Kept
<1>13. Kept(t, Good)'
  BY <1>7, <1>9, <1>10, <1>12 DEF Sound, Kept, memory
<1>14. Plan(t, Good, End)'
  BY <1>1, <1>2, <1>6, <1>7, <1>8, PlanGoesOn DEF Sound, memory
<1> QED BY <1>13, <1>14 DEF Sound

\* ... and resets the memory.
LEMMA ClearResetSound ==
  ASSUME Shape, NEW t \in Task, NEW Good, NEW End,
         Sound(t, Good, End), ClearReset(t)
  PROVE  Sound(t, Good, End)'
<1>1. /\ About("turn", "reset") /\ t = "turn"
      /\ todo[t] # <<>> /\ writing[t] = <<>> /\ Head(todo[t]).name = "reset"
  BY OnlyTurn DEF ClearReset, About
<1>2. /\ Tail(todo[t]) \in Seq(Op)
      /\ Leads(Tail(todo[t]), Result(Head(todo[t]), history), Good, End)
  BY <1>1, PlanHead DEF Sound, RevertName
<1>3. Result(Head(todo[t]), history) = <<>>
  BY <1>1 DEF Result
<1>4. /\ history' = <<>> /\ tokenCount' = 0 /\ pendingEstimate' = 0
      /\ nextCheckpointId' = 0 /\ Continue(t, <<>>)
      /\ UNCHANGED <<file, rotated, writing>>
  BY DEF ClearReset
<1>5. Alone(t)' /\ ~About("turn", "reset")'
  BY <1>1, <1>4, NoOps, StaysAlone DEF Sound, Kept
<1>6. Log(t)' = <<>>
  <2>1. file' \o writing'[t] = <<>>
    BY <1>1, <1>4, ConcatEmptySeq DEF Sound, Kept
  <2> QED BY <2>1 DEF Log
<1>7. Steady(Log(t)', Good) /\ Steady(rotated', Good)
  BY <1>4, <1>6, SteadyEmpty DEF Sound, Kept
<1>8. IsReplay(Log(t)', history', tokenCount', pendingEstimate', nextCheckpointId')
  BY <1>4, <1>6, ReplayEmpty
<1>9. Len(history') <= tokenCount' + pendingEstimate' + Slack
  <2>1. Len(<<>>) = 0
    OBVIOUS
  <2> QED BY <1>4, <2>1, SlackType
<1>10. Kept(t, Good)'
  BY <1>5, <1>7, <1>8, <1>9 DEF Kept
<1>11. Plan(t, Good, End)'
  <2>1. Leads(<<>> \o Tail(todo[t]), history', Good, End)
    BY <1>2, <1>3, <1>4, NoOps
  <2> QED BY <1>1, <1>4, <2>1, NoOps, PlanGoesOn DEF Sound
<1> QED BY <1>10, <1>11 DEF Sound

\* write_system_prompt()
LEMMA SystemSound ==
  ASSUME Shape, NEW t \in Task, NEW Good, NEW End,
         Sound(t, Good, End), WriteSystemPrompt(t)
  PROVE  Sound(t, Good, End)'
<1>1. /\ todo[t] # <<>> /\ writing[t] = <<>> /\ Head(todo[t]).name = "system"
      /\ file \in Seq(Line) /\ Steady(file, Good)
      /\ IsReplay(file, history, tokenCount, pendingEstimate, nextCheckpointId)
  BY KeptHead DEF OpName, Sound, WriteSystemPrompt
<1>2. t = "turn"
  BY OnlyTurn DEF WriteSystemPrompt
<1>3. /\ Tail(todo[t]) \in Seq(Op)
      /\ Leads(Tail(todo[t]), Result(Head(todo[t]), history), Good, End)
  BY <1>1, <1>2, PlanHead DEF Sound, RevertName
<1>4. Result(Head(todo[t]), history) = history
  BY <1>1 DEF Result
<1>5. /\ file' = <<SystemLine>> \o file /\ Continue(t, <<>>)
      /\ UNCHANGED <<memory, rotated, writing>>
  BY DEF WriteSystemPrompt
<1>6. Alone(t)' /\ ~About("turn", "reset")'
  BY <1>1, <1>2, <1>5, NoOps, StaysAlone DEF Sound, Kept
<1>7. Log(t)' = <<SystemLine>> \o file
  <2>1. <<SystemLine>> \o file \in Seq(Line)
    BY <1>1, SystemLineType, PrependKeeps
  <2>2. file' \o writing'[t] = <<SystemLine>> \o file
    BY <1>1, <1>5, <2>1, ConcatEmptySeq
  <2> QED BY <2>2 DEF Log
<1>8. Steady(Log(t)', Good) /\ Steady(rotated', Good)
  BY <1>1, <1>5, <1>7, SteadySystem DEF Sound, Kept
<1>9. IsReplay(Log(t)', history', tokenCount', pendingEstimate', nextCheckpointId')
  BY <1>1, <1>5, <1>7, ReplaySystem DEF memory
<1>10. Kept(t, Good)'
  BY <1>5, <1>6, <1>8, <1>9 DEF Sound, Kept, memory
<1>11. Plan(t, Good, End)'
  <2>1. Leads(<<>> \o Tail(todo[t]), history', Good, End)
    BY <1>3, <1>4, <1>5, NoOps DEF memory
  <2> QED BY <1>1, <1>2, <1>5, <2>1, NoOps, PlanGoesOn DEF Sound
<1> QED BY <1>10, <1>11 DEF Sound

\* revert_to() sets a copy aside that holds the checkpoint ...
LEMMA RevertRotateSound ==
  ASSUME Shape, NEW t \in Task, NEW Good, NEW End,
         Sound(t, Good, End), RevertRotate(t)
  PROVE  Sound(t, Good, End)'
<1> DEFINE id == Head(todo[t]).n
           op == [name |-> "replay", n |-> id, msgs |-> <<>>]
<1>1. /\ todo[t] # <<>> /\ writing[t] = <<>> /\ Head(todo[t]).name = "revert"
      /\ file \in Seq(Line) /\ Steady(file, Good)
      /\ IsReplay(file, history, tokenCount, pendingEstimate, nextCheckpointId)
  BY KeptHead DEF OpName, Sound, RevertRotate
<1>2. /\ t = "turn" /\ Tail(todo[t]) = Renewal /\ id < nextCheckpointId
      /\ nextCheckpointId \in Nat
  BY <1>1 DEF Sound, Plan, Reverting, RevertName, Shape, ContextTypeOK
<1>3. Head(todo[t]) \in Op /\ Tail(todo[t]) \in Seq(Op) /\ id \in Nat
  <2>1. todo[t] \in Seq(Op) /\ ContextTypeOK
    BY DEF Shape, ContextTypeOK
  <2>2. Head(todo[t]) \in Op /\ Tail(todo[t]) \in Seq(Op)
    BY <1>1, <2>1, HeadTailProperties, EmptySeq
  <2> QED BY <2>2 DEF Op
<1>4. op \in Op /\ op.name = "replay" /\ op.n = id
  BY <1>3 DEF Op, OpName
<1>5. /\ rotated' = file /\ file' = <<>> /\ Continue(t, <<op>>)
      /\ UNCHANGED <<memory, writing>>
  BY DEF RevertRotate
<1> HIDE DEF op, id
<1>6. /\ <<op>> \in Seq(Op) /\ \A i \in DOMAIN <<op>> : <<op>>[i].name # "reset"
      /\ DOMAIN <<op>> = {1} /\ <<op>>[1] = op /\ Len(<<op>>) = 1
  BY <1>4
<1>7. /\ Alone(t)' /\ todo'[t] = <<op>> \o Tail(todo[t]) /\ ~About("turn", "reset")'
  BY <1>1, <1>2, <1>5, <1>6, StaysAlone DEF Sound, Kept
<1>8. todo'[t] # <<>> /\ Head(todo'[t]) = op /\ Tail(todo'[t]) = Renewal
  <2>1. <<op>> \o Tail(todo[t]) # <<>>
    <3>1. Len(<<op>> \o Tail(todo[t])) = 1 + Len(Tail(todo[t]))
          /\ Len(Tail(todo[t])) \in Nat
      BY <1>3, <1>6, ConcatAt
    <3> QED BY <3>1
  <2>2. /\ Head(<<op>> \o Tail(todo[t])) = op
        /\ Tail(<<op>> \o Tail(todo[t])) = Tail(todo[t])
    BY <1>3, <1>4
  <2> QED BY <1>2, <1>7, <2>1, <2>2
<1>9. Rotating'
  BY <1>1, <1>2, <1>4, <1>5, <1>8 DEF Rotating, About
<1>10. Log(t)' = <<>>
  <2>1. file' \o writing'[t] = <<>>
    BY <1>1, <1>5, ConcatEmptySeq
  <2> QED BY <2>1 DEF Log
<1>11. Steady(Log(t)', Good) /\ Steady(rotated', Good)
  BY <1>1, <1>5, <1>10, SteadyEmpty
<1>12. Kept(t, Good)'
  BY <1>5, <1>7, <1>9, <1>11 DEF Sound, Kept, memory
<1>13. \E i \in DOMAIN rotated' : rotated'[i] = CheckpointLine(id)
  <2>1. id \in 0 .. NextId(file) - 1 /\ Dense(file)
    BY <1>1, <1>2, <1>3 DEF IsReplay, Steady
  <2> QED BY <1>1, <1>5, <2>1, DenseNext
<1>14. \A i \in DOMAIN todo'[t] : todo'[t][i].name \in RevertName => i = 1
  <2>1. \A i \in DOMAIN todo'[t] :
           \/ i \in DOMAIN <<op>> /\ todo'[t][i] = <<op>>[i]
           \/ \E j \in DOMAIN todo[t] : j # 1 /\ todo'[t][i] = todo[t][j]
    BY <1>1, <1>5, <1>6, ContinueKeeps DEF Shape
  <2> QED BY <1>6, <2>1 DEF Sound, Plan
<1>15. Reverting(t)'
  BY <1>4, <1>8 DEF Reverting, RevertName
<1>16. Plan(t, Good, End)'
  <2>1. writing'[t] = <<>>
    BY <1>1, <1>5
  <2>2. Head(todo'[t]).name = "replay" /\ Head(todo'[t]).n = id
    BY <1>4, <1>8
  <2> QED BY <1>2, <1>8, <1>13, <1>14, <1>15, <2>1, <2>2 DEF Plan
<1> QED BY <1>12, <1>16 DEF Sound

\* The list after a revert: a checkpoint and a user message.
LEMMA RenewalOps ==
  /\ Renewal \in Seq(Op)
  /\ \A i \in DOMAIN Renewal : Renewal[i].name \notin RevertName \cup {"reset"}
<1>1. <<UserMessage>> \in Seq(Message)
  BY CallTypes
<1>2. /\ Call("checkpoint") \in Op /\ Call("checkpoint").name = "checkpoint"
  BY CallTypes DEF Call, OpName
<1>3. /\ CallAppend(<<UserMessage>>) \in Op /\ CallAppend(<<UserMessage>>).name = "append"
  BY <1>1, CallTypes DEF CallAppend
<1> QED BY <1>2, <1>3 DEF Renewal, RevertName

\* It takes every good history to the end.
LEMMA RenewalLeads ==
  ASSUME NEW Good, NEW End, Closed(Good, End), NEW h \in Good
  PROVE  Leads(Renewal, h, Good, End)
<1> DEFINE c == Call("checkpoint")
           a == CallAppend(<<UserMessage>>)
           g == Result(c, h)
<1>1. <<UserMessage>> \in Seq(Message) /\ <<>> \in Seq(Op)
  BY CallTypes
<1>2. c \in Op /\ c.name = "checkpoint"
  BY CallTypes DEF Call, OpName
<1>3. a \in Op /\ a.name = "append" /\ a.msgs = <<UserMessage>>
  <2>1. a \in Op
    BY <1>1, CallTypes
  <2> QED BY <2>1 DEF CallAppend
<1> HIDE DEF c, a
<1>4. h \in Seq(Message) /\ h \o <<UserMessage>> \in Good /\ h \o <<>> = h
  BY ConcatEmptySeq DEF Closed
<1>5. g \in Good /\ g \in Seq(Message)
  BY <1>2, <1>4 DEF Result, Closed
<1> HIDE DEF g
<1>6. Result(a, g) = g \o <<UserMessage>> /\ g \o <<UserMessage>> \in End
      /\ g \o <<UserMessage>> \in Seq(Message)
  BY <1>3, <1>5 DEF Result, Closed
<1>7. Leads(<<>>, Result(a, g), Good, End)
  BY <1>6, LeadsDone
<1>8. Leads(<<a>> \o <<>>, g, Good, End)
  BY <1>1, <1>3, <1>5, <1>7, LeadsFirst
<1>9. <<a>> \in Seq(Op) /\ <<a>> \o <<>> = <<a>>
  BY <1>3
<1>10. Leads(<<c>> \o <<a>>, h, Good, End)
  BY <1>2, <1>4, <1>8, <1>9, LeadsFirst DEF g
<1>11. <<c>> \o <<a>> = Renewal
  <2>1. <<c>> \o <<a>> = <<c, a>>
    <3>1. /\ <<c>> \in Seq(Op) /\ <<a>> \in Seq(Op) /\ <<c, a>> \in Seq(Op)
          /\ Len(<<c>>) = 1 /\ Len(<<a>>) = 1 /\ Len(<<c, a>>) = 2
          /\ <<c>>[1] = c /\ <<a>>[1] = a /\ <<c, a>>[1] = c /\ <<c, a>>[2] = a
      BY <1>2, <1>3
    <3>2. /\ <<c>> \o <<a>> \in Seq(Op) /\ Len(<<c>> \o <<a>>) = 2
          /\ (<<c>> \o <<a>>)[1] = c /\ (<<c>> \o <<a>>)[1 + 1] = a
      BY <3>1, ConcatAt
    <3>3. \A i \in 1 .. 2 : (<<c>> \o <<a>>)[i] = <<c, a>>[i]
      BY <3>1, <3>2
    <3> QED BY <3>1, <3>2, <3>3, SeqEqual
  <2> QED BY <2>1, Zenon DEF Renewal, c, a
<1> QED BY <1>10, <1>11

\* ... and reads back what came before it.
LEMMA RevertReplaySound ==
  ASSUME Shape, NEW t \in Task, NEW Good, NEW End,
         Sound(t, Good, End), Closed(Good, End), RevertReplay(t)
  PROVE  Sound(t, Good, End)'
<1> DEFINE id == Head(todo[t]).n
<1>1. /\ todo[t] # <<>> /\ writing[t] = <<>> /\ Head(todo[t]).name = "replay"
      /\ file' = Before(rotated, id) /\ Load(file') /\ rotated' = <<>>
      /\ Continue(t, <<>>) /\ writing' = writing
  BY DEF RevertReplay, About
<1>2. /\ t = "turn" /\ Tail(todo[t]) = Renewal
      /\ \E i \in DOMAIN rotated : rotated[i] = CheckpointLine(id)
  BY <1>1 DEF Sound, Plan, Reverting, RevertName
<1> HIDE DEF id
<1>3. rotated \in Seq(Line) /\ Steady(rotated, Good)
  BY DEF Shape, ContextTypeOK, Sound, Kept
<1>4. /\ file' \in Seq(Line) /\ Steady(file', Good) /\ Messages(file') \in Good
  BY <1>1, <1>2, <1>3, BeforeIsGood
<1>5. Alone(t)' /\ ~About("turn", "reset")'
  BY <1>1, <1>2, NoOps, StaysAlone DEF Sound, Kept
<1>6. Log(t)' = file'
  <2>1. file' \o writing'[t] = file'
    BY <1>1, <1>4, ConcatEmptySeq
  <2> QED BY <2>1 DEF Log
<1>7. IsReplay(file', history', tokenCount', pendingEstimate', nextCheckpointId')
  BY <1>1 DEF Load, IsReplay
<1>8. Len(history') <= tokenCount' + pendingEstimate' + Slack
  BY <1>4, <1>7, CoveredSize DEF IsReplay, Steady
<1>9. Steady(rotated', Good)
  BY <1>1, SteadyEmpty
<1>10. Kept(t, Good)'
  BY <1>4, <1>5, <1>6, <1>7, <1>8, <1>9 DEF Kept
<1>11. todo'[t] = Renewal
  <2>1. todo \in [Task -> Seq(Op)] /\ todo' = [todo EXCEPT ![t] = <<>> \o Tail(@)]
    BY <1>1 DEF Shape, ContextTypeOK, Continue
  <2>2. todo'[t] = <<>> \o Tail(todo[t])
    BY <2>1
  <2> QED BY <1>2, <2>2, RenewalOps, NoOps
<1>12. Leads(Renewal, history', Good, End)
  BY <1>4, <1>7, RenewalLeads DEF IsReplay
<1>13. ~Reverting(t)'
  <2>1. Head(Renewal) = Renewal[1] /\ 1 \in DOMAIN Renewal
    BY DEF Renewal
  <2> QED BY <1>11, <2>1, RenewalOps DEF Reverting
<1>14. Plan(t, Good, End)'
  BY <1>2, <1>11, <1>12, <1>13, RenewalOps DEF Plan
<1> QED BY <1>10, <1>14 DEF Sound

\* The other task has nothing to do.
LEMMA OnlyTheActive ==
  ASSUME NEW t \in Task, NEW u \in Task, Alone(t), ContextStep(u)
  PROVE  u = t
BY DEF Alone, Idle, ContextStep, Checkpoint, AppendMessage, UpdateTokenCount, Write,
       ClearRotate, ClearReset, WriteSystemPrompt, RevertRotate, RevertReplay, About

\* Every operation keeps the memory equal to what the log replays to, the log
\* steady, the size covered and the plan on its way.
THEOREM ContextStepSound ==
  ASSUME Shape, NEW t \in Task, NEW u \in Task, NEW Good, NEW End,
         Sound(t, Good, End), Closed(Good, End), ContextStep(u)
  PROVE  Sound(t, Good, End)'
<1>1. u = t
  BY OnlyTheActive DEF Sound, Kept
<1>2. ContextStep(t)
  BY <1>1
<1> QED BY <1>2, AppendSound, UsageSound, CheckpointSound, WriteSound, ClearRotateSound,
           ClearResetSound, SystemSound, RevertRotateSound, RevertReplaySound
        DEF ContextStep
-----------------------------------------------------------------------------
(***************************************************************************)
(* Handlers, crash and restart.                                            *)
(***************************************************************************)
\* What a list awaited by a handler does not hold.
Plain(ops) ==
  /\ ops \in Seq(Op)
  /\ \A i \in DOMAIN ops : ops[i].name \notin RevertName \cup {"reset"}

\* A list without a revert does not start with one.
LEMMA PlainHead ==
  ASSUME NEW ops, Plain(ops), ops # <<>>
  PROVE  Head(ops).name \notin RevertName \cup {"reset"}
<1>1. Head(ops) = ops[1] /\ 1 \in DOMAIN ops
  BY HeadTailProperties, EmptySeq, LenProperties DEF Plain
<1> QED BY <1>1 DEF Plain

\* Both tasks idle: either may take over, with everything kept.
LEMMA TakeOver ==
  ASSUME Shape, Idle("turn"), Idle("grow"), NEW t \in Task, NEW u \in Task, NEW Good,
         Kept(t, Good)
  PROVE  /\ Kept(u, Good) /\ ~Rotating /\ Log(t) = file
         /\ IsReplay(file, history, tokenCount, pendingEstimate, nextCheckpointId)
         /\ Steady(file, Good)
<1>1. writing[t] = <<>> /\ writing[u] = <<>> /\ Alone(u)
  BY DEF Idle, Task, Alone
<1>2. Log(t) = file /\ Log(u) = file
  BY <1>1, LogAtRest
<1>3. ~Rotating
  BY DEF Rotating, About, Idle
<1> QED BY <1>1, <1>2, <1>3 DEF Kept

\* A task that rests has reached the end.
LEMMA RestsAtEnd ==
  ASSUME Shape, NEW t \in Task, NEW Good, NEW End, Plan(t, Good, End), Idle(t)
  PROVE  history \in End
<1>1. ~Reverting(t) /\ todo[t] = <<>>
  BY DEF Reverting, Idle
<1>2. Leads(<<>>, history, IF t = "turn" THEN Good ELSE Seq(Message), End)
  BY <1>1 DEF Plan
<1> DEFINE Mid == IF t = "turn" THEN Good ELSE Seq(Message)
<1>3. Leads(<<>>, history, Mid, End)
  BY <1>2
<1> HIDE DEF Mid
<1> QED BY <1>3, LeadsDone DEF Shape, ContextTypeOK

\* A handler that leaves the context alone, both tasks idle.
LEMMA RestSound ==
  ASSUME Shape, Idle("turn"), Idle("grow"), NEW t \in Task, NEW u \in Task,
         NEW Good, NEW End, Kept(t, Good), history \in End, UNCHANGED contextVars
  PROVE  Sound(u, Good, End)'
<1>1. Kept(u, Good) /\ history \in Seq(Message)
  BY TakeOver DEF Shape, ContextTypeOK
<1>2. Kept(u, Good)'
  BY <1>1 DEF Kept, Alone, Idle, Rotating, About, Log, contextVars
<1>3. todo'[u] = <<>> /\ history' = history
  BY DEF Idle, Task, contextVars
<1> DEFINE Mid == IF u = "turn" THEN Good ELSE Seq(Message)
<1> HIDE DEF Mid
<1>4. Leads(<<>>, history, Mid, End)
  BY <1>1, LeadsDone
<1>5. Plan(u, Good, End)'
  BY <1>3, <1>4 DEF Plan, Reverting, Mid
<1> QED BY <1>2, <1>5 DEF Sound

\* A handler that leaves the context alone, whoever works.
LEMMA SoundStays ==
  ASSUME NEW t, NEW Good, NEW End, Sound(t, Good, End), UNCHANGED contextVars
  PROVE  Sound(t, Good, End)'
BY DEF Sound, Kept, Plan, Alone, Idle, Rotating, About, Log, Reverting, contextVars

\* A handler hands a list to a task while both are idle.
LEMMA AwaitSound ==
  ASSUME Shape, Idle("turn"), Idle("grow"), NEW t \in Task, NEW u \in Task,
         NEW Good, NEW End, Kept(t, Good), NEW ops, Plain(ops),
         Leads(ops, history, IF u = "turn" THEN Good ELSE Seq(Message), End),
         todo' = [todo EXCEPT ![u] = ops], UNCHANGED <<memory, file, rotated, writing>>
  PROVE  Sound(u, Good, End)'
<1>1. /\ Kept(u, Good) /\ ~Rotating
      /\ IsReplay(file, history, tokenCount, pendingEstimate, nextCheckpointId)
  BY TakeOver
<1>2. /\ todo'[u] = ops /\ \A v \in Task \ {u} : todo'[v] = todo[v]
      /\ writing' = writing
  BY DEF Shape, ContextTypeOK
<1>3. Alone(u)'
  BY <1>1, <1>2 DEF Kept, Alone, Idle
<1>4. ~About("turn", "reset")'
  <2> SUFFICES ASSUME todo'["turn"] # <<>> PROVE Head(todo'["turn"]).name # "reset"
    BY DEF About
  <2>1. u = "turn"
    BY <1>2 DEF Idle, Task
  <2> QED BY <1>2, <2>1, PlainHead
<1>5. Log(u)' = Log(u) /\ Log(u) = file
  <2>1. writing[u] = <<>>
    BY DEF Idle, Task
  <2> QED BY <2>1, LogAtRest DEF Log
<1>6. Kept(u, Good)'
  BY <1>1, <1>3, <1>4, <1>5 DEF Kept, memory
<1>7. ~Reverting(u)'
  BY <1>2, PlainHead DEF Reverting
<1>8. Plan(u, Good, End)'
  BY <1>2, <1>7 DEF Plan, Plain, memory
<1> QED BY <1>6, <1>8 DEF Sound

\* A D-Mail hands the run a revert to a checkpoint that is there.
LEMMA RevertSound ==
  ASSUME Shape, Idle("turn"), Idle("grow"), NEW t \in Task,
         NEW Good, NEW End, Kept(t, Good), NEW id \in Nat, id < nextCheckpointId,
         todo' = [todo EXCEPT !["turn"] =
                    <<CallRevert(id), Call("checkpoint"), CallAppend(<<UserMessage>>)>>],
         UNCHANGED <<memory, file, rotated, writing>>
  PROVE  Sound("turn", Good, End)'
<1> DEFINE r == CallRevert(id)
           c == Call("checkpoint")
           a == CallAppend(<<UserMessage>>)
           ops == <<r, c, a>>
<1>1. /\ Kept("turn", Good) /\ ~Rotating
      /\ IsReplay(file, history, tokenCount, pendingEstimate, nextCheckpointId)
  BY TakeOver, TwoTasks
<1>2. <<UserMessage>> \in Seq(Message)
  BY CallTypes
<1>3. /\ r \in Op /\ r.name = "revert" /\ r.n = id
      /\ c \in Op /\ c.name = "checkpoint" /\ a \in Op /\ a.name = "append"
  <2>1. r \in Op /\ c \in Op /\ a \in Op
    BY <1>2, CallTypes DEF OpName
  <2> QED BY <2>1 DEF CallRevert, Call, CallAppend
<1>4. /\ todo'["turn"] = ops /\ todo'["grow"] = todo["grow"] /\ writing' = writing
  BY DEF Shape, ContextTypeOK, Task
<1>5. Renewal = <<c, a>>
  BY DEF Renewal
<1> HIDE DEF r, c, a
<1>6. ops # <<>> /\ Head(ops) = r /\ Tail(ops) = <<c, a>> /\ DOMAIN ops = 1 .. 3
      /\ ops[1] = r /\ ops[2] = c /\ ops[3] = a
  BY <1>3
<1> HIDE DEF ops
<1>7. Alone("turn")'
  BY <1>4 DEF Alone, Idle, Task
<1>8. ~About("turn", "reset")'
  BY <1>3, <1>4, <1>6 DEF About
<1>9. Log("turn")' = Log("turn") /\ writing'["turn"] = <<>>
  BY <1>4 DEF Log, Idle
<1>10. Kept("turn", Good)'
  <2>1. Log("turn") = file
    BY LogAtRest, TwoTasks DEF Idle
  <2> QED BY <1>1, <1>7, <1>8, <1>9, <2>1 DEF Kept, memory
<1>11. Reverting("turn")'
  BY <1>3, <1>4, <1>6 DEF Reverting, RevertName
<1>12. \A i \in DOMAIN todo'["turn"] : todo'["turn"][i].name \in RevertName => i = 1
  BY <1>3, <1>4, <1>6 DEF RevertName
<1>13. Plan("turn", Good, End)'
  BY <1>3, <1>4, <1>5, <1>6, <1>9, <1>11, <1>12 DEF Plan, memory
<1> QED BY <1>10, <1>13 DEF Sound

\* A prefix of the lines behind a log is a prefix of the longer log.
LEMMA PrefixBehind ==
  ASSUME NEW log \in Seq(Line), NEW w \in Seq(Line), NEW k \in 0 .. Len(w)
  PROVE  \E l \in 0 .. Len(log \o w) :
           log \o SubSeq(w, 1, k) = SubSeq(log \o w, 1, l)
<1> DEFINE c == log \o w
           p == SubSeq(w, 1, k)
           d == log \o p
<1>1. PICK rest \in Seq(Line) : p \in Seq(Line) /\ Len(p) = k /\ w = p \o rest
  BY SplitLog
<1> HIDE DEF p
<1>2. /\ d \in Seq(Line) /\ Len(log) \in Nat /\ Len(p) \in Nat /\ Len(rest) \in Nat
      /\ Len(d) = Len(log) + Len(p)
  <2>1. p \in Seq(Line)
    BY <1>1
  <2> QED BY <2>1, ConcatAt
<1> HIDE DEF d
<1>3. log \o w = d \o rest
  <2>1. p \in Seq(Line)
    BY <1>1
  <2>2. (log \o p) \o rest = log \o (p \o rest)
    BY <2>1, ConcatLines
  <2> QED BY <1>1, <2>2 DEF d
<1>4. SubSeq(d \o rest, 1, Len(d)) = SubSeq(d, 1, Len(d)) /\ SubSeq(d, 1, Len(d)) = d
  <2>1. Len(d) \in 0 .. Len(d)
    BY <1>2
  <2> QED BY <1>2, <2>1, PrefixOfConcat, SubSeqFull
<1>5. Len(d) \in 0 .. Len(d \o rest)
  <2>1. Len(d \o rest) = Len(d) + Len(rest)
    BY <1>2, ConcatAt
  <2> QED BY <1>2, <2>1
<1>6. d = SubSeq(log \o w, 1, Len(d)) /\ Len(d) \in 0 .. Len(log \o w)
  BY <1>3, <1>4, <1>5
<1> QED BY <1>6 DEF d, p

\* A prefix of a prefix.
LEMMA PrefixTwice ==
  ASSUME NEW log \in Seq(Line), NEW m \in 0 .. Len(log), NEW k \in 0 .. m
  PROVE  SubSeq(SubSeq(log, 1, m), 1, k) = SubSeq(log, 1, k)
<1> DEFINE a == SubSeq(log, 1, m)
<1>1. PICK rest \in Seq(Line) : a \in Seq(Line) /\ Len(a) = m /\ log = a \o rest
  BY SplitLog
<1> HIDE DEF a
<1>2. SubSeq(a \o rest, 1, k) = SubSeq(a, 1, k)
  BY <1>1, PrefixOfConcat
<1> QED BY <1>1, <1>2 DEF a

\* What a crash leaves on disk is the start of the log, or of the copy that a revert is
\* reading back.
LEMMA CrashCuts ==
  ASSUME Shape, NEW t \in Task, Alone(t), CrashContext
  PROVE  IF About("turn", "replay")
         THEN \E m \in 0 .. Len(rotated) : file' = SubSeq(rotated, 1, m)
         ELSE \E m \in 0 .. Len(Log(t)) : file' = SubSeq(Log(t), 1, m)
<1> DEFINE kept == Before(rotated, Head(todo["turn"]).n)
           w(k) == SubSeq(writing["turn"], 1, k)
           g(l) == SubSeq(writing["grow"], 1, l)
<1>1. PICK k \in 0 .. Len(writing["turn"]), l \in 0 .. Len(writing["grow"]) :
        IF About("turn", "replay")
        THEN \E m \in 0 .. Len(kept) : file' = SubSeq(kept, 1, m)
        ELSE file' = file \o (w(k) \o g(l))
  BY DEF CrashContext
<1>2. /\ file \in Seq(Line) /\ rotated \in Seq(Line)
      /\ writing["turn"] \in Seq(Line) /\ writing["grow"] \in Seq(Line)
  BY TwoTasks DEF Shape, ContextTypeOK
<1>3. CASE About("turn", "replay")
  <2>1. PICK r \in 0 .. Len(rotated) : kept = SubSeq(rotated, 1, r)
    BY <1>2, BeforeIsPrefix
  <2>2. Len(kept) = r
    BY <1>2, <2>1, PrefixKeeps
  <2> HIDE DEF kept
  <2>3. PICK m \in 0 .. r : file' = SubSeq(kept, 1, m)
    BY <1>1, <1>3, <2>2
  <2>4. file' = SubSeq(rotated, 1, m)
    BY <1>2, <2>1, <2>3, PrefixTwice
  <2>5. m \in 0 .. Len(rotated)
    BY <1>2, <2>1, <2>3, LenProperties
  <2> QED BY <1>3, <2>4, <2>5
<1>4. CASE ~About("turn", "replay")
  <2>1. file' = file \o (w(k) \o g(l))
    BY <1>1, <1>4
  <2>2. \E i \in 0 .. Len(writing[t]) : w(k) \o g(l) = SubSeq(writing[t], 1, i)
    <3>1. CASE t = "turn"
      <4>1. writing["grow"] = <<>>
        BY <3>1 DEF Alone, Idle, Task
      <4>2. g(l) = <<>>
        BY <4>1
      <4>3. w(k) \in Seq(Line)
        BY <1>2, PrefixKeeps
      <4> HIDE DEF w, g
      <4>4. w(k) \o g(l) = w(k)
        BY <4>2, <4>3, ConcatEmptySeq
      <4> QED BY <1>2, <3>1, <4>4 DEF w
    <3>2. CASE t = "grow"
      <4>1. writing["turn"] = <<>>
        BY <3>2 DEF Alone, Idle, Task
      <4>2. w(k) = <<>>
        BY <4>1
      <4>3. g(l) \in Seq(Line)
        BY <1>2, PrefixKeeps
      <4> HIDE DEF w, g
      <4>4. w(k) \o g(l) = g(l)
        BY <4>2, <4>3, ConcatEmptySeq
      <4> QED BY <1>2, <3>2, <4>4 DEF g
    <3> QED BY <3>1, <3>2, TwoTasks
  <2> HIDE DEF w, g
  <2> DEFINE v == writing[t]
  <2>3. PICK i \in 0 .. Len(v) : w(k) \o g(l) = SubSeq(v, 1, i)
    BY <2>2
  <2>4. v \in Seq(Line)
    BY <1>2, TwoTasks
  <2> HIDE DEF v
  <2>5. PICK m \in 0 .. Len(file \o v) : file \o SubSeq(v, 1, i) = SubSeq(file \o v, 1, m)
    BY <1>2, <2>4, PrefixBehind
  <2> QED BY <1>4, <2>1, <2>3, <2>5 DEF v, Log
<1> QED BY <1>3, <1>4

\* Whatever prefix a crash leaves on disk, it is steady.
LEMMA CrashSound ==
  ASSUME Shape, NEW t \in Task, NEW Good, NEW End, Sound(t, Good, End), CrashContext
  PROVE  Steady(file, Seq(Message))' /\ rotated' = <<>>
<1>1. /\ rotated \in Seq(Line) /\ Steady(rotated, Good) /\ Alone(t)
      /\ Log(t) \in Seq(Line) /\ Steady(Log(t), Good)
  BY ConcatProperties DEF Shape, ContextTypeOK, Sound, Kept, Log
<1>2. file' \in Seq(Line) /\ Steady(file', Good)
  <2>1. CASE About("turn", "replay")
    <3>1. PICK m \in 0 .. Len(rotated) : file' = SubSeq(rotated, 1, m)
      BY <1>1, <2>1, CrashCuts
    <3> QED BY <1>1, <3>1, PrefixKeeps, SteadyPrefix
  <2>2. CASE ~About("turn", "replay")
    <3>1. PICK log \in Seq(Line) : log = Log(t)
      BY <1>1
    <3>2. PICK m \in 0 .. Len(log) : file' = SubSeq(log, 1, m)
      BY <1>1, <2>2, <3>1, CrashCuts
    <3> QED BY <1>1, <3>1, <3>2, PrefixKeeps, SteadyPrefix
  <2> QED BY <2>1, <2>2
<1> QED BY <1>2, SteadyForAll DEF CrashContext

\* A restart rebuilds the memory from it.
LEMMA RestoreSound ==
  ASSUME Shape, Idle("turn"), Idle("grow"), Steady(file, Seq(Message)), rotated = <<>>,
         Restore
  PROVE  Sound("turn", Seq(Message), Seq(Message))'
<1>1. /\ Load(file) /\ UNCHANGED <<rotated, todo, writing>>
      /\ file' = file \/ file' = <<SystemLine>> \o file
  BY DEF Restore
<1>2. file \in Seq(Line)
  BY DEF Shape, ContextTypeOK
<1>3. IsReplay(file, history', tokenCount', pendingEstimate', nextCheckpointId')
  BY <1>1 DEF Load, IsReplay
<1>4. /\ file' \in Seq(Line) /\ Steady(file', Seq(Message))
      /\ IsReplay(file', history', tokenCount', pendingEstimate', nextCheckpointId')
  <2> DEFINE s == <<SystemLine>> \o file
  <2>1. s \in Seq(Line)
    BY <1>2, SystemLineType, PrependKeeps
  <2>2. Steady(s, Seq(Message))
    BY <1>2, SteadySystem
  <2>3. IsReplay(s, history', tokenCount', pendingEstimate', nextCheckpointId')
    BY <1>2, <1>3, ReplaySystem
  <2> HIDE DEF s
  <2>4. file' = file \/ file' = s
    BY <1>1 DEF s
  <2> QED BY <1>2, <1>3, <2>1, <2>2, <2>3, <2>4
<1>5. Len(history') <= tokenCount' + pendingEstimate' + Slack
  BY <1>2, <1>3, CoveredSize DEF IsReplay, Steady
<1>6. Log("turn")' = file'
  <2>1. file' \o writing'["turn"] = file'
    BY <1>1, <1>4, ConcatEmptySeq DEF Idle
  <2> QED BY <2>1 DEF Log
<1>7. Alone("turn")' /\ ~About("turn", "reset")'
  BY <1>1 DEF Alone, About, Idle, Task
<1>8. Kept("turn", Seq(Message))'
  BY <1>1, <1>4, <1>5, <1>6, <1>7, SteadyEmpty DEF Kept
<1>9. history' \in Seq(Message)
  BY <1>1, <1>2, MessagesType DEF Load
<1>10. Leads(<<>>, history', Seq(Message), Seq(Message))
  BY <1>9, LeadsDone
<1>11. Plan("turn", Seq(Message), Seq(Message))'
  BY <1>1, <1>10 DEF Plan, Reverting, Idle
<1> QED BY <1>8, <1>11 DEF Sound

\* A new session has nothing to replay.
LEMMA ContextInitSound ==
  ASSUME ContextInit, NEW Good, NEW End, <<>> \in End
  PROVE  Sound("turn", Good, End)
<1>1. /\ history = <<>> /\ tokenCount = 0 /\ pendingEstimate = 0 /\ nextCheckpointId = 0
      /\ file = <<SystemLine>> /\ rotated = <<>>
      /\ \A t \in Task : todo[t] = <<>> /\ writing[t] = <<>>
      /\ "turn" \in Task
  BY DEF ContextInit, Task
<1>2. /\ <<>> \in Seq(Line) /\ SystemLine \in Line
      /\ <<SystemLine>> \o <<>> = <<SystemLine>> /\ <<SystemLine>> \in Seq(Line)
  BY SystemLineType
<1>3. Steady(<<SystemLine>> \o <<>>, Good) /\ Steady(<<>>, Good)
  BY <1>2, SteadyEmpty, SteadySystem
<1>4. IsReplay(<<SystemLine>> \o <<>>, <<>>, 0, 0, 0)
  BY <1>2, ReplayEmpty, ReplaySystem
<1>5. Log("turn") = <<SystemLine>> \o <<>>
  BY <1>1 DEF Log
<1>6. Alone("turn") /\ ~About("turn", "reset")
  BY <1>1 DEF Alone, Idle, About
<1>7. Len(history) <= tokenCount + pendingEstimate + Slack
  <2>1. Len(<<>>) = 0
    OBVIOUS
  <2> QED BY <1>1, <2>1, SlackType
<1>8. Kept("turn", Good)
  BY <1>1, <1>3, <1>4, <1>5, <1>6, <1>7 DEF Kept
<1>9. Leads(<<>>, <<>>, Good, End)
  <2>1. <<>> \in Seq(Message)
    OBVIOUS
  <2> QED BY <2>1, LeadsDone
<1>10. Plan("turn", Good, End)
  BY <1>1, <1>9 DEF Plan, Reverting
<1> QED BY <1>8, <1>10 DEF Sound
-----------------------------------------------------------------------------
(***************************************************************************)
(* Steers.  Rising: the steers of a sequence of messages or lines appear   *)
(* in the order of their numbers.  Precedes: all the steers of a come      *)
(* before those of b.                                                      *)
(***************************************************************************)
Steerless(s) == \A i \in DOMAIN s : ~IsSteer(s[i])

Rising(s) ==
  \A i, j \in DOMAIN s : i < j /\ IsSteer(s[i]) /\ IsSteer(s[j]) => s[i].n < s[j].n

Precedes(a, b) ==
  \A i \in DOMAIN a, j \in DOMAIN b : IsSteer(a[i]) /\ IsSteer(b[j]) => a[i].n < b[j].n

\* What holds no steer is in any order with anything.
LEMMA SteerlessFits ==
  ASSUME NEW s, Steerless(s)
  PROVE  Rising(s) /\ \A x : Precedes(s, x) /\ Precedes(x, s)
BY DEF Steerless, Rising, Precedes

\* The order of a concatenation is the order of its parts.
LEMMA ConcatOrder ==
  ASSUME NEW a \in Seq(Line), NEW b \in Seq(Line)
  PROVE  /\ Steerless(a \o b) <=> Steerless(a) /\ Steerless(b)
         /\ Rising(a \o b) <=> Rising(a) /\ Rising(b) /\ Precedes(a, b)
         /\ \A x : Precedes(a \o b, x) <=> Precedes(a, x) /\ Precedes(b, x)
         /\ \A x : Precedes(x, a \o b) <=> Precedes(x, a) /\ Precedes(x, b)
<1> DEFINE c == a \o b
           n == Len(a)
           m == Len(b)
<1>1. /\ n \in Nat /\ m \in Nat /\ DOMAIN a = 1 .. n /\ DOMAIN b = 1 .. m
      /\ DOMAIN c = 1 .. n + m
      /\ \A i \in 1 .. n : c[i] = a[i]
      /\ \A i \in 1 .. m : c[n + i] = b[i]
  BY ConcatAt
<1> HIDE DEF c, n, m
<1>2. \A i \in 1 .. n : i \in 1 .. n + m
  BY <1>1
<1>3. \A i \in 1 .. m : n + i \in 1 .. n + m
  BY <1>1
<1>4. \A i \in 1 .. n + m : i \in 1 .. n \/ \E j \in 1 .. m : i = n + j
  <2> TAKE i \in 1 .. n + m
  <2>1. CASE i \in 1 .. n
    BY <2>1
  <2>2. CASE i \notin 1 .. n
    <3>1. i - n \in 1 .. m /\ i = n + (i - n)
      BY <1>1, <2>2
    <3> QED BY <3>1
  <2> QED BY <2>1, <2>2
<1>5. \A i \in DOMAIN c : \/ i \in DOMAIN a /\ c[i] = a[i]
                          \/ \E j \in DOMAIN b : i = n + j /\ c[i] = b[j]
  <2> SUFFICES ASSUME NEW i \in 1 .. n + m
               PROVE  \/ i \in 1 .. n /\ c[i] = a[i]
                      \/ \E j \in 1 .. m : i = n + j /\ c[i] = b[j]
    BY <1>1
  <2>1. CASE i \in 1 .. n
    BY <1>1, <2>1
  <2>2. CASE \E j \in 1 .. m : i = n + j
    BY <1>1, <2>2
  <2> QED BY <1>4, <2>1, <2>2
<1>6. /\ \A i \in DOMAIN a : i \in DOMAIN c /\ c[i] = a[i]
      /\ \A i \in DOMAIN b : n + i \in DOMAIN c /\ c[n + i] = b[i]
  BY <1>1, <1>2, <1>3
<1>7. Steerless(c) <=> Steerless(a) /\ Steerless(b)
  BY <1>5, <1>6 DEF Steerless
<1>8. \A x : Precedes(c, x) <=> Precedes(a, x) /\ Precedes(b, x)
  BY <1>5, <1>6 DEF Precedes
<1>9. \A x : Precedes(x, c) <=> Precedes(x, a) /\ Precedes(x, b)
  BY <1>5, <1>6 DEF Precedes
<1>10. ASSUME Rising(c)
       PROVE  Rising(a) /\ Rising(b) /\ Precedes(a, b)
  <2>1. Rising(a)
    BY <1>6, <1>10 DEF Rising
  <2>2. Rising(b)
    <3> SUFFICES ASSUME NEW i \in DOMAIN b, NEW j \in DOMAIN b, i < j,
                        IsSteer(b[i]), IsSteer(b[j])
                 PROVE  b[i].n < b[j].n
      BY DEF Rising
    <3>1. n + i < n + j
      BY <1>1
    <3> QED BY <1>6, <1>10, <3>1 DEF Rising
  <2>3. Precedes(a, b)
    <3> SUFFICES ASSUME NEW i \in DOMAIN a, NEW j \in DOMAIN b, IsSteer(a[i]), IsSteer(b[j])
                 PROVE  a[i].n < b[j].n
      BY DEF Precedes
    <3>1. i < n + j
      BY <1>1
    <3> QED BY <1>6, <1>10, <3>1 DEF Rising
  <2> QED BY <2>1, <2>2, <2>3
<1>11. ASSUME Rising(a), Rising(b), Precedes(a, b)
       PROVE  Rising(c)
  <2> SUFFICES ASSUME NEW i \in DOMAIN c, NEW j \in DOMAIN c, i < j,
                      IsSteer(c[i]), IsSteer(c[j])
               PROVE  c[i].n < c[j].n
    BY DEF Rising
  <2>1. CASE i \in DOMAIN a /\ j \in DOMAIN a
    BY <1>6, <1>11, <2>1 DEF Rising
  <2>2. CASE i \in DOMAIN a /\ j \notin DOMAIN a
    BY <1>5, <1>6, <1>11, <2>2 DEF Precedes
  <2>3. CASE i \notin DOMAIN a
    <3>1. PICK k \in DOMAIN b : i = n + k /\ c[i] = b[k]
      BY <1>5, <2>3
    <3>2. j \notin DOMAIN a
      BY <1>1, <3>1
    <3>3. PICK l \in DOMAIN b : j = n + l /\ c[j] = b[l]
      BY <1>5, <3>2
    <3>4. k < l
      BY <1>1, <3>1, <3>3
    <3> QED BY <1>11, <3>1, <3>3, <3>4 DEF Rising
  <2> QED BY <2>1, <2>2, <2>3
<1> QED BY <1>7, <1>8, <1>9, <1>10, <1>11 DEF c

\* A prefix has the order of the whole.
LEMMA PrefixOrder ==
  ASSUME NEW log \in Seq(Line), NEW k \in 0 .. Len(log)
  PROVE  /\ SubSeq(log, 1, k) \in Seq(Line)
         /\ Steerless(log) => Steerless(SubSeq(log, 1, k))
         /\ Rising(log) => Rising(SubSeq(log, 1, k))
         /\ \A x : Precedes(log, x) => Precedes(SubSeq(log, 1, k), x)
<1>1. PICK rest \in Seq(Line) :
        SubSeq(log, 1, k) \in Seq(Line) /\ log = SubSeq(log, 1, k) \o rest
  BY SplitLog
<1>2. PICK p \in Seq(Line) : p = SubSeq(log, 1, k) /\ log = p \o rest
  BY <1>1
<1>3. /\ Steerless(p \o rest) => Steerless(p)
      /\ Rising(p \o rest) => Rising(p)
      /\ \A x : Precedes(p \o rest, x) => Precedes(p, x)
  BY ConcatOrder
<1> QED BY <1>1, <1>2, <1>3

\* The messages of a log are in the order of its lines.
LEMMA MessagesOrder ==
  ASSUME NEW log \in Seq(Line)
  PROVE  /\ Rising(log) => Rising(Messages(log))
         /\ \A x : Precedes(log, x) => Precedes(Messages(log), x)
<1> DEFINE m == Messages(log)
<1>1. m \in Seq(Message) /\ Len(m) = Rank(log, Len(log)) /\ Len(m) \in Nat
  BY MessagesAt, LenProperties
<1>2. DOMAIN m = 1 .. Rank(log, Len(log)) /\ DOMAIN log = 1 .. Len(log) /\ Len(log) \in Nat
  BY <1>1, LenProperties
<1>3. \A k \in DOMAIN m : \E i \in DOMAIN log : m[k] = log[i] /\ Rank(log, i) = k
  BY <1>2, RankOnto, MessagesAt
<1> HIDE DEF m
<1>4. ASSUME Rising(log)
      PROVE  Rising(m)
  <2> SUFFICES ASSUME NEW k \in DOMAIN m, NEW l \in DOMAIN m, k < l,
                      IsSteer(m[k]), IsSteer(m[l])
               PROVE  m[k].n < m[l].n
    BY DEF Rising
  <2>1. PICK i \in DOMAIN log : m[k] = log[i] /\ Rank(log, i) = k
    BY <1>3
  <2>2. PICK j \in DOMAIN log : m[l] = log[j] /\ Rank(log, j) = l
    BY <1>3
  <2>3. i \in Nat /\ j \in Nat
    BY <1>2
  <2>4. i < j
    <3>1. j <= i => Rank(log, j) <= Rank(log, i)
      BY <2>3, RankMonotonic
    <3>2. k \in Nat /\ l \in Nat
      BY <1>1, <1>2
    <3> QED BY <2>1, <2>2, <2>3, <3>1, <3>2
  <2> QED BY <1>4, <2>1, <2>2, <2>4 DEF Rising
<1>5. ASSUME NEW x, Precedes(log, x)
      PROVE  Precedes(m, x)
  BY <1>3, <1>5 DEF Precedes
<1> QED BY <1>4, <1>5 DEF m
(***************************************************************************)
(* Told(q): the steers of the conversation rise, wherever it is kept, and  *)
(* come before those of q, which the user has still to see taken.  At most *)
(* one of the operations the turn awaits holds steers (Coming), which go   *)
(* behind those of memory and file unless a clear comes first; the growth  *)
(* holds none.                                                             *)
(***************************************************************************)
Spoken(s, q) == Rising(s) /\ Precedes(s, q)

Ready(m) == Precedes(history, m) /\ Precedes(Log("turn"), m)

Coming(ops, q) ==
  /\ \A i, j \in DOMAIN ops : i # j => Steerless(ops[i].msgs) \/ Steerless(ops[j].msgs)
  /\ \A i, j \in DOMAIN ops : ops[i].name \in RevertName => Steerless(ops[j].msgs)
  /\ \A i \in DOMAIN ops :
       /\ Spoken(ops[i].msgs, q)
       /\ Head(ops).name \notin {"clear", "reset"} => Ready(ops[i].msgs)

Told(q) ==
  /\ Spoken(history, q) /\ Spoken(Log("turn"), q) /\ Spoken(rotated, q)
  /\ Steerless(writing["grow"])
  /\ \A i \in DOMAIN todo["grow"] : Steerless(todo["grow"][i].msgs)
  /\ About("turn", "reset") => Steerless(file)
  /\ Coming(todo["turn"], q)

\* Messages are lines, and what Told speaks of is made of lines.
LEMMA ToldTypes ==
  ASSUME ContextTypeOK
  PROVE  /\ history \in Seq(Line) /\ file \in Seq(Line) /\ rotated \in Seq(Line)
         /\ \A t \in Task : writing[t] \in Seq(Line) /\ todo[t] \in Seq(Op)
         /\ \A t \in Task : \A i \in DOMAIN todo[t] : todo[t][i] \in Op
         /\ "turn" \in Task /\ "grow" \in Task
<1>1. /\ history \in Seq(Message) /\ file \in Seq(Line) /\ rotated \in Seq(Line)
      /\ todo \in [Task -> Seq(Op)] /\ writing \in [Task -> Seq(Line)]
  BY DEF ContextTypeOK
<1>2. history \in Seq(Line)
  BY <1>1, NoWriteNoCheckpoint
<1>3. \A t \in Task : \A i \in DOMAIN todo[t] : todo[t][i] \in Op
  BY <1>1, ElementOfSeq, LenProperties
<1> QED BY <1>1, <1>2, <1>3 DEF Task

\* The single lines and empty lists of the context hold no steer.
LEMMA NoSteers ==
  /\ Steerless(<<>>) /\ <<>> \in Seq(Line)
  /\ <<UserMessage>> \in Seq(Message) /\ Steerless(<<UserMessage>>)
  /\ <<SystemLine>> \in Seq(Line) /\ Steerless(<<SystemLine>>)
  /\ \A n \in Nat : <<CheckpointLine(n)>> \in Seq(Line) /\ Steerless(<<CheckpointLine(n)>>)
  /\ \A n \in Nat : <<UsageLine(n)>> \in Seq(Line) /\ Steerless(<<UsageLine(n)>>)
<1>1. /\ UserMessage \in Message /\ SystemLine \in Line
      /\ \A n \in Nat : CheckpointLine(n) \in Line /\ UsageLine(n) \in Line
  BY CallTypes
<1>2. \A x : (\A i \in DOMAIN <<x>> : <<x>>[i] = x)
  OBVIOUS
<1>3. /\ ~IsSteer(UserMessage) /\ ~IsSteer(SystemLine)
      /\ \A n \in Nat : ~IsSteer(CheckpointLine(n)) /\ ~IsSteer(UsageLine(n))
  BY DEF IsSteer, UserMessage, SystemLine, CheckpointLine, UsageLine
<1>4. \A x : ~IsSteer(x) => Steerless(<<x>>)
  BY <1>2 DEF Steerless
<1>5. Steerless(<<>>)
  BY DEF Steerless
<1> QED BY <1>1, <1>3, <1>4, <1>5, EmptyLog

\* Calls other than appends carry no messages.
LEMMA CallSteers ==
  /\ \A name : Call(name).name = name /\ Steerless(Call(name).msgs)
  /\ \A v : CallUsage(v).name = "usage" /\ Steerless(CallUsage(v).msgs)
  /\ \A v : CallRevert(v).name = "revert" /\ Steerless(CallRevert(v).msgs)
  /\ \A m : CallAppend(m).name = "append" /\ CallAppend(m).msgs = m
BY NoSteers DEF Call, CallUsage, CallRevert, CallAppend

\* The list of the turn after its head gave way to operations without steers.
LEMMA ComingOn ==
  ASSUME Shape, NEW q, todo["turn"] # <<>>, Coming(todo["turn"], q),
         NEW ops \in Seq(Op), Continue("turn", ops),
         \A i \in DOMAIN ops :
           /\ Steerless(ops[i].msgs)
           /\ ops[i].name \in RevertName => Head(todo["turn"]).name \in RevertName,
         todo'["turn"] # <<>> /\ Head(todo'["turn"]).name \notin {"clear", "reset"} =>
           \A j \in DOMAIN todo["turn"] : j # 1 =>
             Precedes(history', todo["turn"][j].msgs)
               /\ Precedes(Log("turn")', todo["turn"][j].msgs)
  PROVE  Coming(todo["turn"], q)'
<1> DEFINE s == todo["turn"]
           r == todo'["turn"]
           n == Len(ops)
<1>1. /\ s \in Seq(Op) /\ todo \in [Task -> Seq(Op)] /\ ContextTypeOK
      /\ "turn" \in Task
  BY DEF Shape, ContextTypeOK, Task
<1>2. /\ Tail(s) \in Seq(Op) /\ Len(Tail(s)) = Len(s) - 1
      /\ \A i \in 1 .. Len(Tail(s)) : Tail(s)[i] = s[i + 1]
      /\ Len(s) \in Nat /\ DOMAIN s = 1 .. Len(s) /\ 1 \in DOMAIN s /\ Head(s) = s[1]
  BY <1>1, HeadOp, HeadTailProperties, LenProperties
<1>3. r = ops \o Tail(s)
  BY <1>1 DEF Continue
<1>4. /\ n \in Nat /\ DOMAIN ops = 1 .. n /\ r \in Seq(Op)
      /\ DOMAIN r = 1 .. n + (Len(s) - 1)
      /\ \A i \in 1 .. n : r[i] = ops[i]
      /\ \A i \in 1 .. Len(s) - 1 : r[n + i] = Tail(s)[i]
  BY <1>2, <1>3, ConcatAt
<1> HIDE DEF s, r, n
<1>5. ASSUME NEW i \in DOMAIN r, i \notin DOMAIN ops
      PROVE  i - n + 1 \in DOMAIN s /\ i - n + 1 # 1 /\ r[i] = s[i - n + 1]
  <2>1. i - n \in 1 .. Len(s) - 1 /\ i = n + (i - n)
    BY <1>2, <1>4, <1>5
  <2>2. r[i] = Tail(s)[i - n]
    BY <1>4, <2>1
  <2>3. Tail(s)[i - n] = s[i - n + 1]
    BY <1>2, <2>1
  <2> QED BY <1>2, <2>1, <2>2, <2>3
<1>6. \A i \in DOMAIN r : \/ i \in DOMAIN ops /\ r[i] = ops[i] /\ Steerless(r[i].msgs)
                          \/ i \notin DOMAIN ops
  BY <1>4
<1>7. /\ \A i, j \in DOMAIN s : i # j => Steerless(s[i].msgs) \/ Steerless(s[j].msgs)
      /\ \A i, j \in DOMAIN s : s[i].name \in RevertName => Steerless(s[j].msgs)
      /\ \A i \in DOMAIN s : Spoken(s[i].msgs, q)
  BY DEF Coming, s
<1>8. ASSUME NEW i \in DOMAIN r, NEW j \in DOMAIN r, i # j, ~Steerless(r[i].msgs)
      PROVE  Steerless(r[j].msgs)
  <2>1. CASE j \in DOMAIN ops
    BY <1>6, <2>1
  <2>2. CASE j \notin DOMAIN ops
    <3>1. i \notin DOMAIN ops
      BY <1>6, <1>8
    <3>2. i \in Nat /\ j \in Nat /\ n \in Nat /\ i - n + 1 # j - n + 1
      BY <1>2, <1>4, <1>8
    <3> QED BY <1>5, <1>7, <1>8, <2>2, <3>1, <3>2
  <2> QED BY <2>1, <2>2
<1>9. ASSUME NEW i \in DOMAIN r, NEW j \in DOMAIN r, r[i].name \in RevertName
      PROVE  Steerless(r[j].msgs)
  <2>1. \E k \in DOMAIN s : s[k].name \in RevertName
    <3>1. CASE i \in DOMAIN ops
      <4>1. Head(s).name \in RevertName
        BY <1>6, <1>9, <3>1 DEF s
      <4> QED BY <1>2, <4>1
    <3>2. CASE i \notin DOMAIN ops
      BY <1>5, <1>9, <3>2
    <3> QED BY <3>1, <3>2
  <2> QED BY <1>5, <1>6, <1>7, <2>1
<1>10. ASSUME NEW i \in DOMAIN r
       PROVE  Spoken(r[i].msgs, q)
  <2>1. CASE Steerless(r[i].msgs)
    BY <2>1, SteerlessFits DEF Spoken
  <2>2. CASE ~Steerless(r[i].msgs)
    BY <1>5, <1>6, <1>7, <2>2
  <2> QED BY <2>1, <2>2
<1>11. ASSUME NEW i \in DOMAIN r, Head(r).name \notin {"clear", "reset"}
       PROVE  Precedes(history', r[i].msgs) /\ Precedes(Log("turn")', r[i].msgs)
  <2>1. CASE Steerless(r[i].msgs)
    BY <2>1, SteerlessFits
  <2>2. CASE ~Steerless(r[i].msgs)
    <3>1. r # <<>>
      BY <1>11
    <3>2. i \notin DOMAIN ops
      BY <1>6, <2>2
    <3> QED BY <1>5, <1>11, <3>1, <3>2 DEF s, r
  <2> QED BY <2>1, <2>2
<1> QED BY <1>8, <1>9, <1>10, <1>11 DEF Coming, Ready, r

\* What the head of the list says, and that no reset stands behind it.
LEMMA ToldHead ==
  ASSUME Shape, NEW q, Told(q), NEW name, About("turn", name)
  PROVE  /\ ContextTypeOK /\ todo["turn"] # <<>> /\ writing["turn"] = <<>>
         /\ Log("turn") = file /\ Spoken(file, q)
         /\ Head(todo["turn"]).name = name
         /\ Head(todo["turn"]) \in Op
         /\ Spoken(Head(todo["turn"]).msgs, q)
         /\ \A j \in DOMAIN todo["turn"] : j # 1 =>
              /\ Steerless(todo["turn"][j].msgs) \/ Steerless(Head(todo["turn"]).msgs)
              /\ name \in RevertName => Steerless(todo["turn"][j].msgs)
         /\ name \notin {"clear", "reset"} =>
              /\ Ready(Head(todo["turn"]).msgs)
              /\ \A j \in DOMAIN todo["turn"] : Ready(todo["turn"][j].msgs)
<1>1. /\ ContextTypeOK /\ todo["turn"] # <<>> /\ writing["turn"] = <<>>
      /\ Head(todo["turn"]).name = name /\ "turn" \in Task
  BY DEF Shape, About, Task
<1>2. /\ Head(todo["turn"]) = todo["turn"][1] /\ 1 \in DOMAIN todo["turn"]
      /\ Head(todo["turn"]) \in Op
  BY <1>1, HeadOp
<1>3. Log("turn") = file
  BY <1>1, LogAtRest
<1> QED BY <1>1, <1>2, <1>3 DEF Told, Coming

\* The list of the growth gives way to nothing.
LEMMA GrowOn ==
  ASSUME Shape, NEW q, Told(q), todo["grow"] # <<>>, Continue("grow", <<>>)
  PROVE  /\ todo'["turn"] = todo["turn"]
         /\ \A i \in DOMAIN todo'["grow"] : Steerless(todo'["grow"][i].msgs)
<1> DEFINE none == <<>>
<1>1. /\ ContextTypeOK /\ "grow" \in Task /\ "turn" \in Task \ {"grow"}
      /\ none \in Seq(Op) /\ DOMAIN none = {} /\ todo["grow"] # <<>>
      /\ Continue("grow", none)
  BY DEF Shape, Task
<1> HIDE DEF none
<1>2. /\ \A u \in Task \ {"grow"} : todo'[u] = todo[u]
      /\ \A i \in DOMAIN todo'["grow"] :
           \/ i \in DOMAIN none /\ todo'["grow"][i] = none[i]
           \/ \E j \in DOMAIN todo["grow"] : j # 1 /\ todo'["grow"][i] = todo["grow"][j]
  BY <1>1, ContinueKeeps
<1>3. todo'["turn"] = todo["turn"]
  BY <1>1, <1>2
<1>4. \A j \in DOMAIN todo["grow"] : Steerless(todo["grow"][j].msgs)
  BY DEF Told
<1>5. ASSUME NEW i \in DOMAIN todo'["grow"]
      PROVE  Steerless(todo'["grow"][i].msgs)
  <2>1. PICK j \in DOMAIN todo["grow"] : todo'["grow"][i] = todo["grow"][j]
    BY <1>1, <1>2
  <2> QED BY <1>4, <2>1
<1> QED BY <1>3, <1>5

\* The list of the turn gives way to operations that are no resets.
LEMMA TurnOn ==
  ASSUME Shape, todo["turn"] # <<>>, NEW ops \in Seq(Op), Continue("turn", ops),
         \A i \in DOMAIN ops : ops[i].name # "reset"
  PROVE  /\ todo'["grow"] = todo["grow"]
         /\ ~About("turn", "reset")'
<1>1. ContextTypeOK /\ "turn" \in Task /\ "grow" \in Task \ {"turn"} /\ OpsKept
  BY DEF Shape, Task
<1>2. /\ todo' \in [Task -> Seq(Op)]
      /\ \A u \in Task \ {"turn"} : todo'[u] = todo[u]
      /\ \A i \in DOMAIN todo'["turn"] :
           \/ i \in DOMAIN ops /\ todo'["turn"][i] = ops[i]
           \/ \E j \in DOMAIN todo["turn"] : j # 1 /\ todo'["turn"][i] = todo["turn"][j]
  BY <1>1, ContinueKeeps
<1>3. \A i \in DOMAIN todo'["turn"] : todo'["turn"][i].name # "reset"
  BY <1>1, <1>2 DEF OpsKept
<1>4. todo'["turn"] # <<>> =>
        Head(todo'["turn"]) = todo'["turn"][1] /\ 1 \in DOMAIN todo'["turn"]
  BY <1>1, <1>2, HeadTailProperties, EmptySeq, LenProperties
<1> QED BY <1>1, <1>2, <1>3, <1>4 DEF About

\* checkpoint(), append_message() and update_token_count() of the turn: m goes
\* to the memory, w to the file.
LEMMA TurnWrites ==
  ASSUME Shape, NEW q, Told(q), NEW name \in OpName \ (RevertName \cup {"clear", "reset"}),
         About("turn", name), NEW ops \in Seq(Op), Continue("turn", ops),
         \A i \in DOMAIN ops : /\ Steerless(ops[i].msgs)
                               /\ ops[i].name \notin RevertName \cup {"reset"},
         NEW m \in Seq(Line), NEW w \in Seq(Line),
         \/ Steerless(m) /\ Steerless(w)
         \/ m = Head(todo["turn"]).msgs /\ w = Head(todo["turn"]).msgs,
         history' = history \o m, writing' = [writing EXCEPT !["turn"] = w],
         UNCHANGED <<file, rotated>>
  PROVE  Told(q)'
<1> DEFINE s == todo["turn"]
           h == Head(s).msgs
<1>1. /\ ContextTypeOK /\ s # <<>> /\ Spoken(file, q) /\ Spoken(history, q)
      /\ Spoken(h, q) /\ Precedes(history, h) /\ Precedes(file, h)
      /\ Head(s).name = name
      /\ \A j \in DOMAIN s : j # 1 => /\ Steerless(s[j].msgs) \/ Steerless(h)
                                      /\ Precedes(history, s[j].msgs)
                                      /\ Precedes(file, s[j].msgs)
  BY ToldHead DEF Told, Ready
<1>2. /\ history \in Seq(Line) /\ file \in Seq(Line)
      /\ writing \in [Task -> Seq(Line)] /\ "turn" \in Task /\ "grow" \in Task
  BY <1>1, ToldTypes DEF ContextTypeOK
<1>3. writing'["turn"] = w /\ writing'["grow"] = writing["grow"]
  BY <1>2
<1>4. Log("turn")' = file \o w
  BY <1>3 DEF Log
<1>5. /\ Spoken(m, q) /\ Spoken(w, q) /\ Precedes(history, m) /\ Precedes(file, w)
  BY <1>1, SteerlessFits DEF Spoken
<1>6. Spoken(history \o m, q) /\ Spoken(file \o w, q)
  BY <1>1, <1>2, <1>5, ConcatOrder DEF Spoken
<1>7. ASSUME NEW j \in DOMAIN s, j # 1
      PROVE  Precedes(history \o m, s[j].msgs) /\ Precedes(file \o w, s[j].msgs)
  <2>1. Precedes(m, s[j].msgs) /\ Precedes(w, s[j].msgs)
    BY <1>1, <1>7, SteerlessFits
  <2> QED BY <1>1, <1>2, <1>7, <2>1, ConcatOrder
<1> HIDE DEF s, h
<1>8. Coming(todo["turn"], q)'
  <2>1. Coming(todo["turn"], q)
    BY DEF Told
  <2>2. \A i \in DOMAIN ops :
          /\ Steerless(ops[i].msgs)
          /\ ops[i].name \in RevertName => Head(todo["turn"]).name \in RevertName
    OBVIOUS
  <2>3. \A j \in DOMAIN todo["turn"] : j # 1 =>
             Precedes(history', todo["turn"][j].msgs)
               /\ Precedes(Log("turn")', todo["turn"][j].msgs)
    BY <1>4, <1>7 DEF s
  <2> QED BY <1>1, <2>1, <2>2, <2>3, ComingOn DEF s
<1>9. todo'["grow"] = todo["grow"] /\ ~About("turn", "reset")'
  BY <1>1, TurnOn DEF s
<1>10. Spoken(history, q)' /\ Spoken(Log("turn"), q)' /\ Spoken(rotated, q)'
  BY <1>4, <1>6 DEF Spoken, Told
<1>11. /\ Steerless(writing["grow"])'
       /\ (\A i \in DOMAIN todo["grow"] : Steerless(todo["grow"][i].msgs))'
  BY <1>3, <1>9 DEF Told
<1> QED BY <1>8, <1>9, <1>10, <1>11 DEF Told

\* The growth adds m to the memory and w to what it writes, no steers in them.
LEMMA GrowWrites ==
  ASSUME Shape, NEW q, Told(q), NEW name, About("grow", name), Continue("grow", <<>>),
         NEW m \in Seq(Line), NEW w \in Seq(Line), Steerless(m), Steerless(w),
         history' = history \o m, writing' = [writing EXCEPT !["grow"] = w],
         UNCHANGED <<file, rotated>>
  PROVE  Told(q)'
<1>1. /\ ContextTypeOK /\ todo["grow"] # <<>>
  BY DEF Shape, About
<1>2. /\ history \in Seq(Line) /\ writing \in [Task -> Seq(Line)]
      /\ "turn" \in Task /\ "grow" \in Task
  BY <1>1, ToldTypes DEF ContextTypeOK
<1>3. writing'["turn"] = writing["turn"] /\ writing'["grow"] = w
  BY <1>2
<1>4. /\ todo'["turn"] = todo["turn"]
      /\ \A i \in DOMAIN todo'["grow"] : Steerless(todo'["grow"][i].msgs)
  BY <1>1, GrowOn
<1>5. Log("turn")' = Log("turn")
  BY <1>3 DEF Log
<1>6. /\ Spoken(history \o m, q)
      /\ \A x : Precedes(history, x) => Precedes(history \o m, x)
  BY <1>2, SteerlessFits, ConcatOrder DEF Told, Spoken
<1>7. Coming(todo["turn"], q)'
  BY <1>4, <1>5, <1>6 DEF Told, Coming, Ready
<1>8. About("turn", "reset")' => Steerless(file)'
  BY <1>3, <1>4 DEF About, Told
<1>9. Spoken(history, q)' /\ Spoken(Log("turn"), q)' /\ Spoken(rotated, q)'
  BY <1>5, <1>6 DEF Spoken, Told
<1> QED BY <1>3, <1>4, <1>7, <1>8, <1>9 DEF Told

\* checkpoint() writes a line and may append a message of the system.
LEMMA CheckpointTells ==
  ASSUME Shape, NEW q, Told(q), Checkpoint("turn")
  PROVE  Told(q)'
<1> DEFINE ops == IF WithDMail THEN <<CallAppend(<<UserMessage>>)>> ELSE <<>>
           w == <<CheckpointLine(nextCheckpointId)>>
<1>1. /\ About("turn", "checkpoint") /\ Continue("turn", ops)
      /\ writing' = [writing EXCEPT !["turn"] = w]
      /\ history' = history /\ UNCHANGED <<file, rotated>>
  BY DEF Checkpoint
<1>2. w \in Seq(Line) /\ Steerless(w) /\ history \in Seq(Message)
  BY NoSteers DEF Shape, ContextTypeOK
<1>3. /\ ops \in Seq(Op)
      /\ \A i \in DOMAIN ops : /\ Steerless(ops[i].msgs)
                               /\ ops[i].name \notin RevertName \cup {"reset"}
  <2>1. CallAppend(<<UserMessage>>) \in Op
    BY NoSteers, CallTypes
  <2>2. /\ Steerless(CallAppend(<<UserMessage>>).msgs)
        /\ CallAppend(<<UserMessage>>).name \notin RevertName \cup {"reset"}
    BY NoSteers, CallSteers DEF RevertName
  <2>3. CASE WithDMail
    <3>1. ops = <<CallAppend(<<UserMessage>>)>>
      BY <2>3
    <3>2. DOMAIN ops = {1} /\ ops[1] = CallAppend(<<UserMessage>>)
      BY <3>1
    <3> QED BY <2>1, <2>2, <3>1, <3>2
  <2>4. CASE ~WithDMail
    BY <2>4
  <2> QED BY <2>3, <2>4
<1> HIDE DEF ops, w
<1>4. <<>> \in Seq(Line) /\ Steerless(<<>>) /\ history' = history \o <<>>
  BY <1>1, <1>2, NoSteers, ConcatEmptySeq
<1>5. "checkpoint" \in OpName \ (RevertName \cup {"clear", "reset"})
  BY DEF OpName, RevertName
<1> QED BY <1>1, <1>2, <1>3, <1>4, <1>5, TurnWrites

\* append_message() of the turn hands its messages to memory and file.
LEMMA AppendTells ==
  ASSUME Shape, NEW q, Told(q), AppendMessage("turn")
  PROVE  Told(q)'
<1> DEFINE msgs == Head(todo["turn"]).msgs
<1>1. /\ About("turn", "append") /\ Continue("turn", <<>>)
      /\ writing' = [writing EXCEPT !["turn"] = msgs]
      /\ history' = history \o msgs /\ UNCHANGED <<file, rotated>>
  BY DEF AppendMessage
<1>2. msgs \in Seq(Line)
  <2>1. Head(todo["turn"]) \in Op
    BY <1>1, ToldHead
  <2> QED BY <2>1, NoWriteNoCheckpoint DEF Op
<1>3. "append" \in OpName \ (RevertName \cup {"clear", "reset"})
  BY DEF OpName, RevertName
<1>4. <<>> \in Seq(Op) /\ \A i \in DOMAIN <<>> :
        Steerless(<<>>[i].msgs) /\ <<>>[i].name \notin RevertName \cup {"reset"}
  OBVIOUS
<1> HIDE DEF msgs
<1> QED BY <1>1, <1>2, <1>3, <1>4, TurnWrites DEF msgs

\* update_token_count() of the turn writes a usage line.
LEMMA UsageTells ==
  ASSUME Shape, NEW q, Told(q), UpdateTokenCount("turn")
  PROVE  Told(q)'
<1> DEFINE w == <<UsageLine(Head(todo["turn"]).n)>>
<1>1. /\ About("turn", "usage") /\ Continue("turn", <<>>)
      /\ writing' = [writing EXCEPT !["turn"] = w]
      /\ history' = history /\ UNCHANGED <<file, rotated>>
  BY DEF UpdateTokenCount
<1>2. w \in Seq(Line) /\ Steerless(w) /\ history \in Seq(Message)
  <2>1. Head(todo["turn"]) \in Op
    BY <1>1, ToldHead
  <2> QED BY <2>1, NoSteers DEF Op, Shape, ContextTypeOK
<1>3. "usage" \in OpName \ (RevertName \cup {"clear", "reset"})
  BY DEF OpName, RevertName
<1>4. <<>> \in Seq(Op) /\ \A i \in DOMAIN <<>> :
        Steerless(<<>>[i].msgs) /\ <<>>[i].name \notin RevertName \cup {"reset"}
  OBVIOUS
<1> HIDE DEF w
<1>5. <<>> \in Seq(Line) /\ Steerless(<<>>) /\ history' = history \o <<>>
  BY <1>1, <1>2, NoSteers, ConcatEmptySeq
<1> QED BY <1>1, <1>2, <1>3, <1>4, <1>5, TurnWrites

\* The growth appends its messages and writes its usage line.
LEMMA GrowthTells ==
  ASSUME Shape, NEW q, Told(q), AppendMessage("grow") \/ UpdateTokenCount("grow")
  PROVE  Told(q)'
<1>1. ContextTypeOK /\ "grow" \in Task /\ history \in Seq(Message)
  BY DEF Shape, ContextTypeOK, Task
<1>2. CASE AppendMessage("grow")
  <2> DEFINE msgs == Head(todo["grow"]).msgs
  <2>1. /\ About("grow", "append") /\ Continue("grow", <<>>)
        /\ writing' = [writing EXCEPT !["grow"] = msgs]
        /\ history' = history \o msgs /\ UNCHANGED <<file, rotated>>
    BY <1>2 DEF AppendMessage
  <2>2. /\ Head(todo["grow"]) \in Op /\ Head(todo["grow"]) = todo["grow"][1]
        /\ 1 \in DOMAIN todo["grow"]
    BY <1>1, <2>1, HeadOp DEF About
  <2>3. msgs \in Seq(Line) /\ Steerless(msgs)
    BY <2>2, NoWriteNoCheckpoint DEF Op, Told
  <2> HIDE DEF msgs
  <2> QED BY <2>1, <2>3, GrowWrites
<1>3. CASE UpdateTokenCount("grow")
  <2> DEFINE w == <<UsageLine(Head(todo["grow"]).n)>>
  <2>1. /\ About("grow", "usage") /\ Continue("grow", <<>>)
        /\ writing' = [writing EXCEPT !["grow"] = w]
        /\ history' = history /\ UNCHANGED <<file, rotated>>
    BY <1>3 DEF UpdateTokenCount
  <2>2. Head(todo["grow"]) \in Op
    BY <1>1, <2>1, HeadOp DEF About
  <2>3. w \in Seq(Line) /\ Steerless(w)
    BY <2>2, NoSteers DEF Op
  <2> HIDE DEF w
  <2>4. <<>> \in Seq(Line) /\ Steerless(<<>>) /\ history' = history \o <<>>
    BY <1>1, <2>1, NoSteers, ConcatEmptySeq
  <2> QED BY <2>1, <2>3, <2>4, GrowWrites
<1> QED BY <1>2, <1>3

\* A write that completes moves lines from a task to the file.
LEMMA WriteTells ==
  ASSUME Shape, NEW q, Told(q), NEW t \in Task, Write(t)
  PROVE  Told(q)'
<1>1. /\ file' = file \o writing[t] /\ writing' = [writing EXCEPT ![t] = <<>>]
      /\ history' = history /\ rotated' = rotated /\ todo' = todo /\ writing[t] # <<>>
  BY DEF Write, memory
<1>2. /\ ContextTypeOK /\ OpsKept /\ todo["turn"] \in Seq(Op)
      /\ file \in Seq(Line) /\ writing \in [Task -> Seq(Line)]
      /\ writing["turn"] \in Seq(Line) /\ writing["grow"] \in Seq(Line)
      /\ "turn" \in Task /\ "grow" \in Task
  BY ToldTypes DEF Shape, ContextTypeOK
<1>3. Spoken(history, q) /\ Spoken(Log("turn"), q) /\ Spoken(rotated, q)
  BY DEF Told
<1>4. CASE t = "turn"
  <2>1. writing'["turn"] = <<>> /\ writing'["grow"] = writing["grow"]
    BY <1>1, <1>2, <1>4 DEF Task
  <2>2. file' \in Seq(Line) /\ file' = Log("turn")
    BY <1>1, <1>2, <1>4, ConcatAt DEF Log
  <2>3. Log("turn")' = Log("turn")
    BY <2>1, <2>2, ConcatEmptySeq DEF Log
  <2>4. ~About("turn", "reset")'
    <3>1. ASSUME todo["turn"] # <<>>
          PROVE  Head(todo["turn"]) = todo["turn"][1] /\ 1 \in DOMAIN todo["turn"]
      BY <1>2, <3>1, HeadOp
    <3> QED BY <1>1, <1>2, <1>4, <3>1 DEF About, OpsKept
  <2>5. Coming(todo["turn"], q)'
    BY <1>1, <2>3 DEF Told, Coming, Ready
  <2> QED BY <1>1, <1>3, <2>1, <2>3, <2>4, <2>5 DEF Told
<1>5. CASE t = "grow"
  <2>1. writing'["grow"] = <<>> /\ writing'["turn"] = writing["turn"]
    BY <1>1, <1>2, <1>5 DEF Task
  <2>2. Steerless(writing["grow"]) /\ Steerless(<<>>)
    BY NoSteers DEF Told
  <2>3. Log("turn")' = (file \o writing["grow"]) \o writing["turn"]
    BY <1>1, <1>5, <2>1 DEF Log
  <2>4. file \o writing["grow"] \in Seq(Line)
    BY <1>2, ConcatAt
  <2>5. /\ Rising(file) /\ Rising(writing["turn"]) /\ Precedes(file, writing["turn"])
        /\ \A x : Precedes(Log("turn"), x) =>
             Precedes(file, x) /\ Precedes(writing["turn"], x)
    BY <1>2, <1>3, ConcatOrder DEF Spoken, Log
  <2>6. /\ Rising(file \o writing["grow"]) /\ Precedes(file \o writing["grow"], writing["turn"])
        /\ \A x : Precedes(file, x) => Precedes(file \o writing["grow"], x)
    BY <1>2, <2>2, <2>5, ConcatOrder, SteerlessFits
  <2>7. /\ Rising(Log("turn")')
        /\ \A x : Precedes(Log("turn"), x) => Precedes(Log("turn")', x)
    <3>1. PICK f \in Seq(Line) : f = file \o writing["grow"]
      BY <2>4
    <3>2. PICK w \in Seq(Line) : w = writing["turn"]
      BY <1>2
    <3>3. /\ Rising(f) /\ Rising(w) /\ Precedes(f, w)
          /\ \A x : Precedes(Log("turn"), x) => Precedes(f, x) /\ Precedes(w, x)
      BY <2>5, <2>6, <3>1, <3>2
    <3>4. Rising(f \o w) /\ \A x : Precedes(Log("turn"), x) => Precedes(f \o w, x)
      BY <3>3, ConcatOrder
    <3> QED BY <2>3, <3>1, <3>2, <3>4
  <2>8. About("turn", "reset")' => Steerless(file)'
    <3>1. Steerless(file) => Steerless(file \o writing["grow"])
      BY <1>2, <2>2, ConcatOrder
    <3> QED BY <1>1, <1>5, <2>1, <3>1 DEF About, Told
  <2>9. Coming(todo["turn"], q)'
    BY <1>1, <2>7 DEF Told, Coming, Ready
  <2>10. Spoken(Log("turn"), q)'
    BY <1>3, <2>7 DEF Spoken
  <2> QED BY <1>1, <1>3, <2>1, <2>2, <2>8, <2>9, <2>10 DEF Told
<1> QED BY <1>4, <1>5 DEF Task

\* clear() and revert_to() move the file away, and a clear resets the memory.
LEMMA RotationsTell ==
  ASSUME Shape, NEW q, Told(q),
         ClearRotate("turn") \/ ClearReset("turn") \/ RevertRotate("turn")
  PROVE  Told(q)'
<1>1. Steerless(<<>>) /\ <<>> \in Seq(Line) /\ Spoken(<<>>, q)
  BY NoSteers, SteerlessFits DEF Spoken
<1>2. <<>> \in Seq(Op) /\ \A i \in DOMAIN <<>> : /\ Steerless(<<>>[i].msgs)
                                                 /\ <<>>[i].name \notin RevertName \cup {"reset"}
  OBVIOUS
<1>3. /\ Coming(todo["turn"], q) /\ Steerless(writing["grow"])
      /\ \A i \in DOMAIN todo["grow"] : Steerless(todo["grow"][i].msgs)
      /\ Spoken(history, q) /\ Spoken(rotated, q) /\ ContextTypeOK
      /\ "turn" \in Task /\ "grow" \in Task \ {"turn"}
  BY DEF Told, Shape, Task
<1>4. CASE ClearRotate("turn")
  <2> DEFINE ops == <<Call("reset")>>
  <2>1. /\ About("turn", "clear") /\ file' = <<>> /\ Continue("turn", ops)
        /\ UNCHANGED <<history, rotated, writing>>
    BY <1>4 DEF ClearRotate, memory
  <2>2. /\ todo["turn"] # <<>> /\ writing["turn"] = <<>> /\ Head(todo["turn"]).name = "clear"
    BY <2>1 DEF About
  <2>3. ops \in Seq(Op) /\ DOMAIN ops = {1} /\ ops[1] = Call("reset") /\ ops # <<>>
    BY CallTypes DEF OpName
  <2>4. \A i \in DOMAIN ops : /\ Steerless(ops[i].msgs)
                              /\ ops[i].name \notin RevertName
    BY <2>3, CallSteers DEF RevertName
  <2> HIDE DEF ops
  <2>5. todo' \in [Task -> Seq(Op)] /\ todo'["grow"] = todo["grow"]
    BY <1>3, <2>1, <2>2, <2>3, ContinueKeeps
  <2>6. todo'["turn"] # <<>> => Head(todo'["turn"]).name = "reset"
    <3>1. Head(todo'["turn"]) = ops[1]
      <4>1. todo["turn"] \in Seq(Op) /\ Tail(todo["turn"]) \in Seq(Op)
        BY <1>3, <2>2, HeadTailProperties DEF ContextTypeOK
      <4>2. todo'["turn"] = ops \o Tail(todo["turn"])
        BY <1>3, <2>1 DEF Continue, ContextTypeOK
      <4>3. 1 \in 1 .. Len(ops)
        BY <2>3, LenProperties
      <4>4. todo'["turn"][1] = ops[1] /\ Len(todo'["turn"]) >= 1
        BY <2>3, <4>1, <4>2, <4>3, ConcatAt
      <4>5. todo'["turn"] \in Seq(Op) /\ todo'["turn"] # <<>>
        BY <1>3, <2>5, <4>4
      <4> QED BY <4>4, <4>5, HeadTailProperties
    <3> QED BY <2>3, <3>1, CallSteers
  <2>7. Coming(todo["turn"], q)'
    BY <1>3, <2>1, <2>2, <2>3, <2>4, <2>6, ComingOn
  <2>8. Log("turn")' = <<>>
    BY <2>1, <2>2, <1>1, ConcatEmptySeq DEF Log
  <2> QED BY <1>1, <1>3, <2>1, <2>5, <2>7, <2>8 DEF Told
<1>5. CASE ClearReset("turn")
  <2>1. /\ About("turn", "reset") /\ history' = <<>> /\ Continue("turn", <<>>)
        /\ UNCHANGED <<file, rotated, writing>>
    BY <1>5 DEF ClearReset
  <2>2. /\ todo["turn"] # <<>> /\ Log("turn") = file /\ Spoken(file, q)
        /\ Steerless(file)
    BY <2>1, ToldHead DEF Told
  <2>3. Log("turn")' = file
    BY <2>1, <2>2 DEF Log
  <2>4. \A x : Precedes(<<>>, x) /\ Precedes(file, x)
    BY <1>1, <2>2, SteerlessFits
  <2>5. Coming(todo["turn"], q)'
    BY <1>2, <1>3, <2>1, <2>2, <2>3, <2>4, ComingOn
  <2>6. todo'["grow"] = todo["grow"] /\ ~About("turn", "reset")'
    BY <1>2, <2>1, <2>2, TurnOn
  <2> QED BY <1>1, <1>3, <2>1, <2>2, <2>3, <2>5, <2>6 DEF Told
<1>6. CASE RevertRotate("turn")
  <2> DEFINE op == [name |-> "replay", n |-> Head(todo["turn"]).n, msgs |-> <<>>]
             ops == <<op>>
  <2>1. /\ About("turn", "revert") /\ rotated' = file /\ file' = <<>>
        /\ Continue("turn", ops) /\ UNCHANGED <<history, writing>>
    BY <1>6 DEF RevertRotate, memory
  <2>2. /\ todo["turn"] # <<>> /\ writing["turn"] = <<>> /\ Spoken(file, q)
        /\ Head(todo["turn"]).name \in RevertName /\ Head(todo["turn"]) \in Op
        /\ \A j \in DOMAIN todo["turn"] : j # 1 => Steerless(todo["turn"][j].msgs)
    BY <2>1, ToldHead DEF RevertName
  <2>3. op \in Op /\ Steerless(op.msgs) /\ op.name = "replay"
    BY <1>1, <2>2 DEF Op, OpName
  <2> HIDE DEF op
  <2>4. ops \in Seq(Op) /\ \A i \in DOMAIN ops : ops[i] = op
    BY <2>3
  <2> HIDE DEF ops
  <2>5. \A j \in DOMAIN todo["turn"] : j # 1 =>
          \A x : Precedes(x, todo["turn"][j].msgs)
    BY <2>2, SteerlessFits
  <2>6. Coming(todo["turn"], q)'
    BY <1>3, <2>1, <2>2, <2>3, <2>4, <2>5, ComingOn
  <2>7. todo'["grow"] = todo["grow"] /\ ~About("turn", "reset")'
    BY <2>1, <2>2, <2>3, <2>4, TurnOn
  <2>8. Log("turn")' = <<>>
    BY <2>1, <2>2, <1>1, ConcatEmptySeq DEF Log
  <2> QED BY <1>1, <1>3, <2>1, <2>2, <2>6, <2>7, <2>8 DEF Told
<1> QED BY <1>4, <1>5, <1>6

\* write_system_prompt() puts a line in front.
LEMMA SystemTells ==
  ASSUME Shape, NEW q, Told(q), WriteSystemPrompt("turn")
  PROVE  Told(q)'
<1>1. /\ About("turn", "system") /\ file' = <<SystemLine>> \o file
      /\ Continue("turn", <<>>) /\ UNCHANGED <<history, rotated, writing>>
  BY DEF WriteSystemPrompt, memory
<1>2. /\ todo["turn"] # <<>> /\ writing["turn"] = <<>> /\ Spoken(file, q)
      /\ Log("turn") = file
      /\ \A j \in DOMAIN todo["turn"] : Ready(todo["turn"][j].msgs)
  BY <1>1, ToldHead
<1>3. /\ file \in Seq(Line) /\ <<SystemLine>> \in Seq(Line) /\ Steerless(<<SystemLine>>)
  BY NoSteers DEF Shape, ContextTypeOK
<1>4. <<>> \in Seq(Op) /\ \A i \in DOMAIN <<>> : /\ Steerless(<<>>[i].msgs)
                                                 /\ <<>>[i].name \notin RevertName \cup {"reset"}
  OBVIOUS
<1>5. /\ Spoken(<<SystemLine>> \o file, q)
      /\ \A x : Precedes(file, x) => Precedes(<<SystemLine>> \o file, x)
  BY <1>2, <1>3, SteerlessFits, ConcatOrder DEF Spoken
<1>6. Log("turn")' = <<SystemLine>> \o file
  <2>1. <<SystemLine>> \o file \in Seq(Line)
    BY <1>3, ConcatAt
  <2> QED BY <1>1, <1>2, <2>1, ConcatEmptySeq DEF Log
<1>7. \A j \in DOMAIN todo["turn"] :
        Precedes(history', todo["turn"][j].msgs) /\ Precedes(Log("turn")', todo["turn"][j].msgs)
  BY <1>1, <1>2, <1>5, <1>6 DEF Ready
<1>8. Coming(todo["turn"], q)'
  BY <1>1, <1>2, <1>4, <1>7, ComingOn DEF Told
<1>9. todo'["grow"] = todo["grow"] /\ ~About("turn", "reset")'
  BY <1>1, <1>2, <1>4, TurnOn
<1> QED BY <1>1, <1>5, <1>6, <1>8, <1>9 DEF Told

\* What revert_to() reads back is a prefix of the rotated copy.
LEMMA BeforeOrder ==
  ASSUME NEW log \in Seq(Line), NEW q, Spoken(log, q), NEW id
  PROVE  /\ Before(log, id) \in Seq(Line) /\ Spoken(Before(log, id), q)
         /\ \A k \in 0 .. Len(Before(log, id)) :
              /\ SubSeq(Before(log, id), 1, k) \in Seq(Line)
              /\ Spoken(SubSeq(Before(log, id), 1, k), q)
<1>1. PICK n \in 0 .. Len(log) : Before(log, id) = SubSeq(log, 1, n)
  BY BeforeIsPrefix
<1>2. Before(log, id) \in Seq(Line) /\ Spoken(Before(log, id), q)
  BY <1>1, PrefixOrder DEF Spoken
<1> QED BY <1>2, PrefixOrder DEF Spoken

\* revert_to() takes back the beginning of the rotated copy.
LEMMA ReplayTells ==
  ASSUME Shape, NEW q, Told(q), RevertReplay("turn")
  PROVE  Told(q)'
<1> DEFINE kept == Before(rotated, Head(todo["turn"]).n)
<1>1. /\ About("turn", "replay") /\ file' = kept /\ history' = Messages(file')
      /\ rotated' = <<>> /\ Continue("turn", <<>>) /\ UNCHANGED writing
  BY DEF RevertReplay, Load
<1>2. /\ todo["turn"] # <<>> /\ writing["turn"] = <<>>
      /\ \A j \in DOMAIN todo["turn"] : j # 1 => Steerless(todo["turn"][j].msgs)
  BY <1>1, ToldHead DEF RevertName
<1>3. rotated \in Seq(Line) /\ Spoken(rotated, q)
  BY DEF Shape, ContextTypeOK, Told
<1>4. kept \in Seq(Line) /\ Spoken(kept, q)
  BY <1>3, BeforeOrder
<1> HIDE DEF kept
<1>5. Log("turn")' = kept
  BY <1>1, <1>2, <1>4, ConcatEmptySeq DEF Log
<1>6. Spoken(Messages(kept), q)
  BY <1>4, MessagesOrder DEF Spoken
<1>7. <<>> \in Seq(Op) /\ \A i \in DOMAIN <<>> : /\ Steerless(<<>>[i].msgs)
                                                 /\ <<>>[i].name \notin RevertName \cup {"reset"}
  OBVIOUS
<1>8. \A j \in DOMAIN todo["turn"] : j # 1 => \A x : Precedes(x, todo["turn"][j].msgs)
  BY <1>2, SteerlessFits
<1>9. Coming(todo["turn"], q)'
  BY <1>1, <1>2, <1>7, <1>8, ComingOn DEF Told
<1>10. todo'["grow"] = todo["grow"] /\ ~About("turn", "reset")'
  BY <1>1, <1>2, <1>7, TurnOn
<1>11. Spoken(<<>>, q)
  BY NoSteers, SteerlessFits DEF Spoken
<1> QED BY <1>1, <1>4, <1>5, <1>6, <1>9, <1>10, <1>11 DEF Told

\* Every operation of the context keeps the steers in their order.
THEOREM ContextStepTells ==
  ASSUME Shape, NEW q, Told(q), NEW t \in Task, ContextStep(t)
  PROVE  Told(q)'
<1>1. CASE Write(t)
  BY <1>1, WriteTells
<1>2. CASE ~Write(t) /\ t = "turn"
  BY <1>2, CheckpointTells, AppendTells, UsageTells, RotationsTell, SystemTells, ReplayTells
  DEF ContextStep
<1>3. CASE ~Write(t) /\ t = "grow"
  <2>1. AppendMessage("grow") \/ UpdateTokenCount("grow")
    <3>1. \A name : About("grow", name) => name \in {"append", "usage"}
      BY OnlyTurn DEF Task
    <3> QED BY <1>3, <3>1 DEF ContextStep, Checkpoint, ClearRotate, ClearReset,
               WriteSystemPrompt, RevertRotate, RevertReplay
  <2> QED BY <2>1, GrowthTells
<1> QED BY <1>1, <1>2, <1>3 DEF Task

\* A list without steers may be awaited at any time.
LEMMA PlainComes ==
  ASSUME NEW ops, NEW q, \A i \in DOMAIN ops : Steerless(ops[i].msgs)
  PROVE  Coming(ops, q)
BY SteerlessFits DEF Coming, Spoken, Ready

\* A handler hands the turn a list.
LEMMA AwaitTells ==
  ASSUME Shape, NEW q, Told(q), NEW ops, Coming(ops, q),
         \A i \in DOMAIN ops : ops[i].name # "reset", ops \in Seq(Op),
         todo' = [todo EXCEPT !["turn"] = ops], UNCHANGED <<history, file, rotated, writing>>
  PROVE  Told(q)'
<1>1. todo'["turn"] = ops /\ todo'["grow"] = todo["grow"]
  BY DEF Shape, ContextTypeOK, Task
<1>2. Log("turn")' = Log("turn")
  BY DEF Log
<1>3. Coming(todo["turn"], q)'
  BY <1>1, <1>2 DEF Coming, Ready
<1>4. ~About("turn", "reset")'
  <2>1. ops # <<>> => Head(ops) = ops[1] /\ 1 \in DOMAIN ops
    BY HeadTailProperties, EmptySeq, LenProperties
  <2> QED BY <1>1, <2>1 DEF About
<1> QED BY <1>1, <1>2, <1>3, <1>4 DEF Told, Spoken

\* The growth starts.
LEMMA GrowthAwaited ==
  ASSUME Shape, NEW q, Told(q), NEW ops, \A i \in DOMAIN ops : Steerless(ops[i].msgs),
         todo' = [todo EXCEPT !["grow"] = ops], UNCHANGED <<history, file, rotated, writing>>
  PROVE  Told(q)'
<1>1. todo'["grow"] = ops /\ todo'["turn"] = todo["turn"]
  BY DEF Shape, ContextTypeOK, Task
<1>2. Log("turn")' = Log("turn")
  BY DEF Log
<1>3. Coming(todo["turn"], q)'
  BY <1>1, <1>2 DEF Told, Coming, Ready
<1> QED BY <1>1, <1>2, <1>3 DEF Told, Spoken, About

\* A step that leaves the context alone.
LEMMA ToldStays ==
  ASSUME NEW q, Told(q), UNCHANGED contextVars
  PROVE  Told(q)'
<1>1. /\ history' = history /\ file' = file /\ rotated' = rotated /\ todo' = todo
      /\ writing' = writing
  BY DEF contextVars
<1>2. Log("turn")' = Log("turn")
  BY <1>1 DEF Log
<1>3. Coming(todo["turn"], q)'
  BY <1>1, <1>2 DEF Told, Coming, Ready
<1> QED BY <1>1, <1>2, <1>3 DEF Told, Spoken, About

\* A cancelled operation leaves prefixes, and the turn with nothing to do.
LEMMA InterruptTells ==
  ASSUME Shape, NEW q, Told(q), Interrupt("turn")
  PROVE  Told(q)'
<1>1. /\ ContextTypeOK /\ history \in Seq(Line) /\ file \in Seq(Line)
      /\ rotated \in Seq(Line) /\ writing["turn"] \in Seq(Line)
  BY ToldTypes DEF Shape
<1>2. Drop("turn") /\ (rotated' = rotated \/ rotated' = <<>>)
  BY DEF Interrupt, InterruptWrite, InterruptReplay
<1>3. /\ todo'["turn"] = <<>> /\ todo'["grow"] = todo["grow"]
      /\ writing'["turn"] = <<>> /\ writing'["grow"] = writing["grow"]
  BY <1>1, <1>2 DEF Drop, ContextTypeOK, Task
<1>4. Spoken(<<>>, q)
  BY NoSteers, SteerlessFits DEF Spoken
<1>5. file' \in Seq(Line) /\ Spoken(file', q) /\ Spoken(history', q)
  <2>1. CASE InterruptWrite("turn")
    <3>1. PICK k \in 0 .. Len(writing["turn"]) : file' = file \o SubSeq(writing["turn"], 1, k)
      BY <2>1 DEF InterruptWrite
    <3>2. /\ Rising(file) /\ Rising(writing["turn"]) /\ Precedes(file, writing["turn"])
          /\ Precedes(file, q) /\ Precedes(writing["turn"], q)
      BY <1>1, ConcatOrder DEF Told, Spoken, Log
    <3>3. PICK w \in Seq(Line) : w = SubSeq(writing["turn"], 1, k)
      BY <1>1, PrefixOrder
    <3>4. Rising(w) /\ Precedes(w, q)
      BY <1>1, <3>2, <3>3, PrefixOrder
    <3>5. Precedes(file, w)
      <4>1. PICK rest \in Seq(Line) : writing["turn"] = w \o rest
        BY <1>1, <3>3, SplitLog
      <4> QED BY <3>2, <4>1, ConcatOrder
    <3>6. file \o w \in Seq(Line) /\ Spoken(file \o w, q)
      BY <1>1, <3>2, <3>4, <3>5, ConcatAt, ConcatOrder DEF Spoken
    <3>7. history' = history
      BY <2>1 DEF InterruptWrite, memory
    <3> QED BY <3>1, <3>3, <3>6, <3>7 DEF Told
  <2>2. CASE InterruptReplay("turn")
    <3> DEFINE kept == Before(rotated, Head(todo["turn"]).n)
    <3>1. \/ file' = <<>> /\ history' = history
          \/ \E k \in 0 .. Len(kept) : file' = SubSeq(kept, 1, k) /\ history' = Messages(file')
      BY <2>2 DEF InterruptReplay, memory
    <3>2. \A k \in 0 .. Len(kept) : SubSeq(kept, 1, k) \in Seq(Line) /\ Spoken(SubSeq(kept, 1, k), q)
      BY <1>1, BeforeOrder DEF Told
    <3> HIDE DEF kept
    <3>3. CASE file' = <<>> /\ history' = history
      BY <1>4, <3>3, NoSteers DEF Told
    <3>4. CASE \E k \in 0 .. Len(kept) : file' = SubSeq(kept, 1, k) /\ history' = Messages(file')
      <4>1. PICK f \in Seq(Line) : f = file' /\ Spoken(f, q) /\ history' = Messages(f)
        BY <3>2, <3>4
      <4> QED BY <4>1, MessagesOrder DEF Spoken
    <3> QED BY <3>1, <3>3, <3>4
  <2> QED BY <2>1, <2>2 DEF Interrupt
<1>6. Log("turn")' = file'
  BY <1>3, <1>5, ConcatEmptySeq DEF Log
<1>7. Coming(todo["turn"], q)'
  BY <1>3 DEF Coming
<1>8. Spoken(rotated', q)
  BY <1>2, <1>4 DEF Told
<1>9. ~About("turn", "reset")'
  BY <1>3 DEF About
<1> QED BY <1>3, <1>5, <1>6, <1>7, <1>8, <1>9 DEF Told

\* With no operation under way only memory and file hold steers.
LEMMA IdleTold ==
  ASSUME NEW q, \A t \in Task : todo[t] = <<>> /\ writing[t] = <<>>, file \in Seq(Line)
  PROVE  Told(q) <=> Spoken(history, q) /\ Spoken(file, q) /\ Spoken(rotated, q)
<1>1. /\ todo["turn"] = <<>> /\ todo["grow"] = <<>> /\ writing["turn"] = <<>>
      /\ writing["grow"] = <<>>
  BY DEF Task
<1>2. Log("turn") = file
  BY <1>1, ConcatEmptySeq DEF Log
<1>3. Coming(todo["turn"], q) /\ ~About("turn", "reset")
  BY <1>1 DEF Coming, About
<1> QED BY <1>1, <1>2, <1>3, NoSteers DEF Told

\* A crash leaves prefixes in the file and nothing in memory.
LEMMA CrashLeaves ==
  ASSUME Shape, NEW q, Told(q), CrashContext
  PROVE  Spoken(file', q) /\ file' \in Seq(Line)
<1> DEFINE kept == Before(rotated, Head(todo["turn"]).n)
<1>1. PICK k \in 0 .. Len(writing["turn"]), l \in 0 .. Len(writing["grow"]) :
        IF About("turn", "replay")
        THEN \E m \in 0 .. Len(kept) : file' = SubSeq(kept, 1, m)
        ELSE file' = file \o (SubSeq(writing["turn"], 1, k) \o SubSeq(writing["grow"], 1, l))
  BY DEF CrashContext
<1>2. /\ file \in Seq(Line) /\ rotated \in Seq(Line)
      /\ writing["turn"] \in Seq(Line) /\ writing["grow"] \in Seq(Line)
  BY ToldTypes DEF Shape
<1>3. CASE About("turn", "replay")
  <2>1. \A k1 \in 0 .. Len(kept) : SubSeq(kept, 1, k1) \in Seq(Line) /\ Spoken(SubSeq(kept, 1, k1), q)
    BY <1>2, BeforeOrder DEF Told
  <2> HIDE DEF kept
  <2> QED BY <1>1, <1>3, <2>1
<1>4. CASE ~About("turn", "replay")
  <2>1. PICK w \in Seq(Line) : w = SubSeq(writing["turn"], 1, k)
    BY <1>2, PrefixOrder
  <2>2. PICK g \in Seq(Line) : g = SubSeq(writing["grow"], 1, l)
    BY <1>2, PrefixOrder
  <2>3. file' = file \o (w \o g)
    BY <1>1, <1>4, <2>1, <2>2
  <2>4. /\ Rising(file) /\ Rising(writing["turn"]) /\ Precedes(file, writing["turn"])
        /\ Precedes(file, q) /\ Precedes(writing["turn"], q)
    BY <1>2, ConcatOrder DEF Told, Spoken, Log
  <2>5. Rising(w) /\ Precedes(w, q)
    BY <1>2, <2>1, <2>4, PrefixOrder
  <2>6. Precedes(file, w)
    <3>1. PICK rest \in Seq(Line) : writing["turn"] = w \o rest
      BY <1>2, <2>1, SplitLog
    <3> QED BY <2>4, <3>1, ConcatOrder
  <2>7. Rising(g) /\ \A x : Precedes(g, x) /\ Precedes(x, g)
    <3>1. Steerless(g)
      BY <1>2, <2>2, PrefixOrder DEF Told
    <3> QED BY <3>1, SteerlessFits
  <2>8. PICK wg \in Seq(Line) : wg = w \o g
    BY ConcatAt
  <2>9. Rising(wg) /\ Precedes(wg, q) /\ Precedes(file, wg)
    BY <2>5, <2>6, <2>7, <2>8, ConcatOrder
  <2>10. file \o wg \in Seq(Line) /\ Spoken(file \o wg, q)
    BY <1>2, <2>4, <2>9, ConcatAt, ConcatOrder DEF Spoken
  <2> QED BY <2>3, <2>8, <2>10
<1> QED BY <1>3, <1>4

\* ... so that a crash keeps their order.
LEMMA CrashTells ==
  ASSUME Shape, NEW q, Told(q), CrashContext
  PROVE  Told(q)'
<1>1. Spoken(file', q) /\ file' \in Seq(Line)
  BY CrashLeaves
<1>2. /\ history' = <<>> /\ rotated' = <<>>
      /\ todo'["turn"] = <<>> /\ todo'["grow"] = <<>>
      /\ writing'["turn"] = <<>> /\ writing'["grow"] = <<>>
  BY DEF CrashContext, Task
<1>3. Log("turn")' = file'
  BY <1>1, <1>2, ConcatEmptySeq DEF Log
<1>4. Coming(todo["turn"], q)' /\ ~About("turn", "reset")'
  BY <1>2 DEF Coming, About
<1>5. Spoken(history', q) /\ Spoken(rotated', q) /\ Steerless(writing'["grow"])
  BY <1>2, NoSteers, SteerlessFits DEF Spoken
<1> QED BY <1>1, <1>2, <1>3, <1>4, <1>5 DEF Told

\* The restart reads the messages of the file.
LEMMA RestoreTells ==
  ASSUME Shape, \A t \in Task : todo[t] = <<>> /\ writing[t] = <<>>, NEW q, Told(q), Restore
  PROVE  Told(q)'
<1>1. /\ history' = Messages(file) /\ UNCHANGED <<rotated, todo, writing>>
      /\ file' = file \/ file' = <<SystemLine>> \o file
  BY DEF Restore, Load
<1>2. file \in Seq(Line) /\ Spoken(file, q) /\ Spoken(rotated, q)
  BY IdleTold DEF Shape, ContextTypeOK
<1>3. Spoken(Messages(file), q)
  BY <1>2, MessagesOrder DEF Spoken
<1>4. /\ <<SystemLine>> \o file \in Seq(Line) /\ Spoken(<<SystemLine>> \o file, q)
  BY <1>2, NoSteers, SteerlessFits, ConcatAt, ConcatOrder DEF Spoken
<1>5. /\ writing["turn"] = <<>> /\ writing["grow"] = <<>>
      /\ todo["turn"] = <<>> /\ todo["grow"] = <<>>
  BY DEF Task
<1>6. Log("turn")' = file'
  BY <1>1, <1>2, <1>4, <1>5, ConcatEmptySeq DEF Log
<1>7. Coming(todo["turn"], q)' /\ ~About("turn", "reset")'
  BY <1>1, <1>5 DEF Coming, About
<1> QED BY <1>1, <1>2, <1>3, <1>4, <1>5, <1>6, <1>7, NoSteers DEF Told, Spoken
=============================================================================
