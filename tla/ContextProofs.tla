--------------------------- MODULE ContextProofs ---------------------------
(***************************************************************************)
(* Lemmas about the operators of Context: what replaying, cutting and      *)
(* extending a log preserves.                                              *)
(***************************************************************************)
EXTENDS Context, TLAPS, FiniteSetTheorems, WellFoundedInduction,
        SequenceTheorems

\* A non-empty set of naturals has a least element, a bounded one a greatest.
LEMMA NatMin ==
  ASSUME NEW S \in SUBSET Nat, S # {}
  PROVE  \E m \in S : \A x \in S : m <= x
<1>1. \E m \in S : \A x \in S : <<x, m>> \notin OpToRel(<, Nat)
  BY NatLessThanWellFounded, WFMin
<1>2. ASSUME NEW m \in S, NEW x \in S, <<x, m>> \notin OpToRel(<, Nat)
      PROVE  m <= x
  <2>1. m \in Nat /\ x \in Nat
    OBVIOUS
  <2>2. ~(x < m)
    BY <1>2, <2>1 DEF OpToRel
  <2> QED BY <2>1, <2>2
<1> QED BY <1>1, <1>2

\* A bounded set of numbers has a greatest element.
LEMMA NatMax ==
  ASSUME NEW n \in Nat, NEW S \in SUBSET (0 .. n), S # {}
  PROVE  \E m \in S : \A x \in S : x <= m
<1> DEFINE T == {k \in 0 .. n : n - k \in S}
<1>1. PICK s \in S : TRUE
  OBVIOUS
<1>2. n - s \in T
  <2>1. s \in 0 .. n
    OBVIOUS
  <2>2. n - s \in 0 .. n /\ n - (n - s) = s
    BY <2>1
  <2> QED BY <2>2, <1>1
<1>3. T \in SUBSET Nat /\ T # {}
  BY <1>2
<1>4. PICK k \in T : \A x \in T : k <= x
  BY <1>3, NatMin
<1>5. n - k \in S
  BY <1>4
<1>6. ASSUME NEW x \in S
      PROVE  x <= n - k
  <2>1. x \in 0 .. n
    OBVIOUS
  <2>2. n - x \in 0 .. n /\ n - (n - x) = x
    BY <2>1
  <2>3. n - x \in T
    BY <2>2
  <2>4. k <= n - x /\ k \in 0 .. n
    BY <2>3, <1>4
  <2> QED BY <2>1, <2>4
<1> QED BY <1>5, <1>6

-----------------------------------------------------------------------------
\* The last line of a kind is one of that kind, and none follows it.
LEMMA LastCheckpointIsLast ==
  ASSUME NEW log \in Seq(Line), Holds(log, IsCheckpoint)
  PROVE  /\ Last(log, IsCheckpoint) \in DOMAIN log
         /\ IsCheckpoint(log[Last(log, IsCheckpoint)])
         /\ \A j \in DOMAIN log :
              IsCheckpoint(log[j]) => j <= Last(log, IsCheckpoint)
<1> DEFINE S == {i \in DOMAIN log : IsCheckpoint(log[i])}
<1>1. Len(log) \in Nat /\ DOMAIN log = 1 .. Len(log)
  OBVIOUS
<1>2. S \in SUBSET (0 .. Len(log)) /\ S # {}
  BY <1>1 DEF Holds
<1>3. \E m \in S : \A x \in S : x <= m
  BY <1>1, <1>2, NatMax
<1>4. \E i \in DOMAIN log :
        IsCheckpoint(log[i]) /\ \A j \in DOMAIN log : IsCheckpoint(log[j]) => j <= i
  BY <1>3
<1> QED BY <1>4 DEF Last

\* Likewise for usage lines.
LEMMA LastUsageIsLast ==
  ASSUME NEW log \in Seq(Line), Holds(log, IsUsage)
  PROVE  /\ Last(log, IsUsage) \in DOMAIN log
         /\ IsUsage(log[Last(log, IsUsage)])
         /\ \A j \in DOMAIN log : IsUsage(log[j]) => j <= Last(log, IsUsage)
<1> DEFINE S == {i \in DOMAIN log : IsUsage(log[i])}
<1>1. Len(log) \in Nat /\ DOMAIN log = 1 .. Len(log)
  OBVIOUS
<1>2. S \in SUBSET (0 .. Len(log)) /\ S # {}
  BY <1>1 DEF Holds
<1>3. \E m \in S : \A x \in S : x <= m
  BY <1>1, <1>2, NatMax
<1>4. \E i \in DOMAIN log :
        IsUsage(log[i]) /\ \A j \in DOMAIN log : IsUsage(log[j]) => j <= i
  BY <1>3
<1> QED BY <1>4 DEF Last

\* In particular it is a line of the log.
LEMMA LastUsageInLog ==
  ASSUME NEW log \in Seq(Line), Holds(log, IsUsage)
  PROVE  Last(log, IsUsage) \in DOMAIN log
BY LastUsageIsLast

\* A line of a log is a record with a natural number.
LEMMA LineType == ASSUME NEW log \in Seq(Line), NEW i \in DOMAIN log
                  PROVE  log[i] \in Line /\ log[i].n \in Nat
<1>1. log[i] \in Line
  BY LenProperties, ElementOfSeq
<1> QED BY <1>1 DEF Line

\* What a log replays to is well typed: the next checkpoint id ...
LEMMA NextIdType == ASSUME NEW log \in Seq(Line) PROVE NextId(log) \in Nat
<1>1. CASE Holds(log, IsCheckpoint)
  <2>1. log[Last(log, IsCheckpoint)].n \in Nat
    BY <1>1, LastCheckpointIsLast, LineType
  <2>2. NextId(log) = log[Last(log, IsCheckpoint)].n + 1
    BY <1>1, Zenon DEF NextId
  <2> QED BY <2>1, <2>2
<1>2. CASE ~Holds(log, IsCheckpoint)
  BY <1>2 DEF NextId
<1> QED BY <1>1, <1>2

\* ... the token count ...
LEMMA TokenCountType == ASSUME NEW log \in Seq(Line) PROVE TokenCount(log) \in Nat
<1>1. CASE Holds(log, IsUsage)
  BY <1>1, LastUsageInLog, LineType DEF TokenCount
<1>2. CASE ~Holds(log, IsUsage)
  BY <1>2 DEF TokenCount
<1> QED BY <1>1, <1>2

-----------------------------------------------------------------------------
\* Ranks grow by at most one per line, and only at a message.
LEMMA RankType ==
  ASSUME NEW log, NEW i \in Nat
  PROVE  Rank(log, i) \in Nat /\ IsFiniteSet({j \in 1 .. i : IsMessage(log[j])})
<1> DEFINE P == {j \in 1 .. i : IsMessage(log[j])}
<1>1. IsFiniteSet(1 .. i)
  BY FS_Interval
<1>2. IsFiniteSet(P)
  BY <1>1, FS_Subset
<1> QED BY <1>2, FS_CardinalityType DEF Rank

\* No line, no message.
LEMMA RankZero == ASSUME NEW log PROVE Rank(log, 0) = 0
<1>1. {j \in 1 .. 0 : IsMessage(log[j])} = {}
  OBVIOUS
<1> QED BY <1>1, FS_EmptySet DEF Rank

\* A line adds one to the rank if it is a message, nothing otherwise.
LEMMA RankStep ==
  ASSUME NEW log, NEW i \in Nat
  PROVE  Rank(log, i + 1) = IF IsMessage(log[i + 1])
                            THEN Rank(log, i) + 1 ELSE Rank(log, i)
<1> DEFINE P == {j \in 1 .. i : IsMessage(log[j])}
           Q == {j \in 1 .. i + 1 : IsMessage(log[j])}
<1>1. IsFiniteSet(P) /\ i + 1 \notin P
  BY RankType
<1>2. CASE IsMessage(log[i + 1])
  <2>1. Q = P \cup {i + 1}
    BY <1>2
  <2> QED BY <1>1, <1>2, <2>1, FS_AddElement DEF Rank
<1>3. CASE ~IsMessage(log[i + 1])
  <2>1. Q = P
    BY <1>3
  <2> QED BY <1>3, <2>1 DEF Rank
<1> QED BY <1>2, <1>3

\* The rank grows along the log.
LEMMA RankMonotonic ==
  ASSUME NEW log, NEW i \in Nat, NEW j \in Nat, i <= j
  PROVE  Rank(log, i) <= Rank(log, j)
<1> DEFINE P == {k \in 1 .. i : IsMessage(log[k])}
           Q == {k \in 1 .. j : IsMessage(log[k])}
<1>1. P \in SUBSET Q /\ IsFiniteSet(Q)
  BY RankType
<1> QED BY <1>1, FS_Subset DEF Rank

\* Every rank up to the last is the rank of a message.
LEMMA RankOnto ==
  ASSUME NEW log \in Seq(Line), NEW k \in 1 .. Rank(log, Len(log))
  PROVE  \E i \in DOMAIN log : IsMessage(log[i]) /\ Rank(log, i) = k
<1> DEFINE S == {i \in 0 .. Len(log) : k <= Rank(log, i)}
<1>1. Len(log) \in Nat /\ DOMAIN log = 1 .. Len(log)
  OBVIOUS
<1>2. Rank(log, Len(log)) \in Nat /\ k \in Nat /\ k >= 1 /\ k <= Rank(log, Len(log))
  <2>1. Rank(log, Len(log)) \in Nat
    BY <1>1, RankType
  <2> QED BY <2>1
<1>3. S \in SUBSET Nat /\ S # {}
  BY <1>1, <1>2
<1>4. PICK m \in S : \A x \in S : m <= x
  BY <1>3, NatMin
<1>5. m # 0
  BY <1>2, <1>4, RankZero
<1>6. m - 1 \in Nat /\ m - 1 \in 0 .. Len(log) /\ (m - 1) + 1 = m /\ m \in DOMAIN log
  BY <1>1, <1>4, <1>5
<1>7. ~(k <= Rank(log, m - 1))
  BY <1>4, <1>6
<1>8. Rank(log, m) = IF IsMessage(log[m]) THEN Rank(log, m - 1) + 1 ELSE Rank(log, m - 1)
  BY <1>6, RankStep
<1>9. k <= Rank(log, m) /\ Rank(log, m - 1) \in Nat
  BY <1>4, <1>6, RankType
<1>10. IsMessage(log[m]) /\ Rank(log, m) = k
  BY <1>2, <1>7, <1>8, <1>9
<1> QED BY <1>6, <1>10

\* A function over 1 .. n with values in S is a sequence over S.
LEMMA FunctionIsSeq ==
  ASSUME NEW n \in Nat, NEW S, NEW f \in [1 .. n -> S]
  PROVE  f \in Seq(S)
OBVIOUS

\* A line with a message role is a message.
LEMMA MessageLines ==
  ASSUME NEW x \in Line, IsMessage(x)
  PROVE  x \in Message
BY DEF Line, Message, IsMessage

\* What a log replays to has the type of the memory.
LEMMA MessagesType == ASSUME NEW log \in Seq(Line) PROVE Messages(log) \in Seq(Message)
<1> DEFINE at(k) == CHOOSE i \in DOMAIN log : IsMessage(log[i]) /\ Rank(log, i) = k
           n == Rank(log, Len(log))
<1>1. n \in Nat
  BY LenProperties, RankType
<1>2. ASSUME NEW k \in 1 .. n
      PROVE  log[at(k)] \in Message
  <2>1. at(k) \in DOMAIN log /\ IsMessage(log[at(k)])
    BY RankOnto
  <2>2. log[at(k)] \in Line
    BY <2>1, LineType
  <2> QED BY <2>1, <2>2, MessageLines
<1>3. Messages(log) = [k \in 1 .. n |-> log[at(k)]]
  BY DEF Messages
<1>4. Messages(log) \in [1 .. n -> Message]
  BY <1>2, <1>3
<1> QED BY <1>1, <1>4, FunctionIsSeq

\* ... and the estimate of the pending tokens.
LEMMA PendingEstimateType ==
  ASSUME NEW log \in Seq(Line)
  PROVE  PendingEstimate(log) \in Nat
<1> DEFINE l == IF Holds(log, IsUsage) THEN Last(log, IsUsage) ELSE 0
<1>1. Len(log) \in Nat /\ DOMAIN log = 1 .. Len(log)
  OBVIOUS
<1>2. l \in Nat /\ l <= Len(log)
  BY <1>1, LastUsageInLog
<1>3. Rank(log, l) \in Nat /\ Rank(log, Len(log)) \in Nat
      /\ Rank(log, l) <= Rank(log, Len(log))
  BY <1>1, <1>2, RankType, RankMonotonic
<1>4. PendingEstimate(log) = Rank(log, Len(log)) - Rank(log, l)
  BY DEF PendingEstimate
<1> QED BY <1>3, <1>4

-----------------------------------------------------------------------------
\* revert_to() keeps a prefix of the log.
LEMMA CutExists ==
  ASSUME NEW log \in Seq(Line), NEW id
  PROVE  \E k \in 0 .. Len(log) : IsCut(log, id, k)
<1> DEFINE S == {i \in DOMAIN log : log[i] = CheckpointLine(id)}
<1>1. Len(log) \in Nat /\ DOMAIN log = 1 .. Len(log)
  OBVIOUS
<1>2. CASE S = {}
  <2>1. IsCut(log, id, Len(log))
    BY <1>1, <1>2 DEF IsCut
  <2> QED BY <1>1, <2>1
<1>3. CASE S # {}
  <2>1. S \in SUBSET Nat
    BY <1>1
  <2>2. PICK m \in S : \A x \in S : m <= x
    BY <1>3, <2>1, NatMin
  <2>3. m - 1 \in 0 .. Len(log) /\ (m - 1) + 1 = m
    BY <1>1, <2>2
  <2>4. \A i \in 1 .. m - 1 : log[i] # CheckpointLine(id)
    BY <1>1, <2>2, <2>3
  <2>5. IsCut(log, id, m - 1)
    BY <2>2, <2>3, <2>4 DEF IsCut
  <2> QED BY <2>3, <2>5
<1> QED BY <1>2, <1>3

\* What revert_to() keeps is a prefix of the log.
LEMMA BeforeIsPrefix ==
  ASSUME NEW log \in Seq(Line), NEW id
  PROVE  \E k \in 0 .. Len(log) : Before(log, id) = SubSeq(log, 1, k)
BY CutExists DEF Before

-----------------------------------------------------------------------------
(***************************************************************************)
(* Checkpoint ids of a log: increasing, and below the next id.  Fits says  *)
(* that lines under way may follow a log: a checkpoint line is written     *)
(* alone and carries an id above those of the log.                         *)
(***************************************************************************)
NoCheckpoint(log) == \A i \in DOMAIN log : ~IsCheckpoint(log[i])

Ordered(log) ==
  \A i \in DOMAIN log : IsCheckpoint(log[i]) =>
    \A j \in 1 .. i - 1 : IsCheckpoint(log[j]) => log[j].n < log[i].n

Below(log, n) == \A i \in DOMAIN log : IsCheckpoint(log[i]) => log[i].n < n

Fits(log, lines) ==
  \A i \in DOMAIN lines : IsCheckpoint(lines[i]) =>
    Len(lines) = 1 /\ Below(log, lines[i].n)

\* After a replay the next id is above every id of the log.
LEMMA NextIdIsAbove ==
  ASSUME NEW log \in Seq(Line), Ordered(log)
  PROVE  Below(log, NextId(log))
<1> SUFFICES ASSUME NEW i \in DOMAIN log, IsCheckpoint(log[i])
             PROVE  log[i].n < NextId(log)
  BY DEF Below
<1> DEFINE l == Last(log, IsCheckpoint)
<1>1. Holds(log, IsCheckpoint)
  BY DEF Holds
<1>2. l \in DOMAIN log /\ IsCheckpoint(log[l]) /\ i <= l
  BY <1>1, LastCheckpointIsLast
<1>3. NextId(log) = log[l].n + 1
  BY <1>1, Zenon DEF NextId
<1>4. log[i].n \in Nat /\ log[l].n \in Nat
  BY <1>2, LineType
<1> HIDE DEF l
<1>5. DOMAIN log = 1 .. Len(log) /\ Len(log) \in Nat
  BY LenProperties
<1>6. i = l \/ i \in 1 .. l - 1
  BY <1>2, <1>5
<1>7. log[i].n <= log[l].n
  <2>1. ASSUME i \in 1 .. l - 1
        PROVE  log[i].n < log[l].n
    BY <1>2, <2>1 DEF Ordered
  <2> QED BY <1>4, <1>6, <2>1
<1> QED BY <1>3, <1>4, <1>7

\* A prefix of an ordered log is ordered, below the same bound.
LEMMA PrefixKeeps ==
  ASSUME NEW log \in Seq(Line), NEW k \in 0 .. Len(log)
  PROVE  /\ SubSeq(log, 1, k) \in Seq(Line)
         /\ Len(SubSeq(log, 1, k)) = k
         /\ Ordered(log) => Ordered(SubSeq(log, 1, k))
         /\ \A n : Below(log, n) => Below(SubSeq(log, 1, k), n)
         /\ NoCheckpoint(log) => NoCheckpoint(SubSeq(log, 1, k))
<1> DEFINE p == SubSeq(log, 1, k)
<1>1. Len(log) \in Nat /\ DOMAIN log = 1 .. Len(log) /\ k \in Nat /\ k <= Len(log)
  BY LenProperties
<1>2. \A i \in 1 .. k : log[i] \in Line
  BY <1>1, ElementOfSeq
<1>3. p \in Seq(Line) /\ Len(p) = k /\ \A i \in 1 .. k : p[i] = log[i]
  BY <1>1, <1>2, SubSeqProperties
<1>4. DOMAIN p = 1 .. k
  BY <1>3, LenProperties
<1> HIDE DEF p
<1>5. Ordered(log) => Ordered(p)
  BY <1>1, <1>3, <1>4 DEF Ordered
<1>6. \A n : Below(log, n) => Below(p, n)
  BY <1>1, <1>3, <1>4 DEF Below
<1>7. NoCheckpoint(log) => NoCheckpoint(p)
  BY <1>1, <1>3, <1>4 DEF NoCheckpoint
<1> QED BY <1>3, <1>5, <1>6, <1>7 DEF p

\* Appending lines that fit keeps the log ordered.
LEMMA ConcatKeeps ==
  ASSUME NEW log \in Seq(Line), NEW lines \in Seq(Line)
  PROVE  /\ log \o lines \in Seq(Line)
         /\ Ordered(log) /\ Fits(log, lines) => Ordered(log \o lines)
         /\ \A n : Below(log, n) /\ Below(lines, n) => Below(log \o lines, n)
         /\ NoCheckpoint(log) /\ NoCheckpoint(lines) => NoCheckpoint(log \o lines)
<1> DEFINE c == log \o lines
           a == Len(log)
           b == Len(lines)
<1>1. a \in Nat /\ b \in Nat /\ DOMAIN log = 1 .. a /\ DOMAIN lines = 1 .. b
  BY LenProperties
<1>2. c \in Seq(Line) /\ Len(c) = a + b
  BY ConcatProperties
<1>3. \A i \in 1 .. a + b : c[i] = IF i <= a THEN log[i] ELSE lines[i - a]
  BY ConcatProperties
<1>4. DOMAIN c = 1 .. a + b
  BY <1>2, LenProperties
<1> HIDE DEF c, a, b
<1>5. ASSUME Ordered(log), Fits(log, lines)
      PROVE  Ordered(c)
  <2> SUFFICES ASSUME NEW i \in DOMAIN c, IsCheckpoint(c[i]),
                      NEW j \in 1 .. i - 1, IsCheckpoint(c[j])
               PROVE  c[j].n < c[i].n
    BY DEF Ordered
  <2>1. i \in 1 .. a + b /\ j \in 1 .. a + b /\ i \in Int /\ j \in Int /\ j < i
    BY <1>1, <1>4
  <2>2. CASE i <= a
    <3>1. c[i] = log[i] /\ c[j] = log[j] /\ i \in DOMAIN log
      BY <1>1, <1>3, <2>1, <2>2
    <3> QED BY <1>5, <3>1 DEF Ordered
  <2>3. CASE ~(i <= a)
    <3>1. c[i] = lines[i - a] /\ i - a \in DOMAIN lines
      BY <1>1, <1>3, <2>1, <2>3
    <3>2. b = 1 /\ Below(log, c[i].n)
      BY <1>5, <3>1 DEF Fits, b
    <3>3. j \in DOMAIN log /\ c[j] = log[j]
      BY <1>1, <1>3, <2>1, <2>3, <3>2
    <3> QED BY <3>2, <3>3 DEF Below
  <2> QED BY <2>2, <2>3
<1>6. ASSUME NEW n, Below(log, n), Below(lines, n)
      PROVE  Below(c, n)
  <2> SUFFICES ASSUME NEW i \in 1 .. a + b, IsCheckpoint(c[i])
               PROVE  c[i].n < n
    BY <1>4 DEF Below
  <2>1. CASE i <= a
    BY <1>1, <1>3, <1>6, <2>1 DEF Below
  <2>2. CASE ~(i <= a)
    <3>1. i - a \in DOMAIN lines /\ c[i] = lines[i - a]
      BY <1>1, <1>3, <2>2
    <3> QED BY <1>6, <3>1 DEF Below
  <2> QED BY <2>1, <2>2
<1>7. ASSUME NoCheckpoint(log), NoCheckpoint(lines)
      PROVE  NoCheckpoint(c)
  <2> SUFFICES ASSUME NEW i \in 1 .. a + b
               PROVE  ~IsCheckpoint(c[i])
    BY <1>4 DEF NoCheckpoint
  <2>1. CASE i <= a
    BY <1>1, <1>3, <1>7, <2>1 DEF NoCheckpoint
  <2>2. CASE ~(i <= a)
    <3>1. i - a \in DOMAIN lines /\ c[i] = lines[i - a]
      BY <1>1, <1>3, <2>2
    <3> QED BY <1>7, <3>1 DEF NoCheckpoint
  <2> QED BY <2>1, <2>2
<1> QED BY <1>2, <1>5, <1>6, <1>7 DEF c

\* Lines that fit still fit when only a prefix of them is written.
LEMMA FitsPrefix ==
  ASSUME NEW log, NEW lines \in Seq(Line), NEW k \in 0 .. Len(lines),
         Fits(log, lines)
  PROVE  Fits(log, SubSeq(lines, 1, k))
<1> DEFINE p == SubSeq(lines, 1, k)
<1>1. Len(lines) \in Nat /\ DOMAIN lines = 1 .. Len(lines) /\ k \in Nat
      /\ k <= Len(lines)
  BY LenProperties
<1>2. \A i \in 1 .. k : lines[i] \in Line
  BY <1>1, ElementOfSeq
<1>3. p \in Seq(Line) /\ Len(p) = k /\ \A i \in 1 .. k : p[i] = lines[i]
  BY <1>1, <1>2, SubSeqProperties
<1>4. DOMAIN p = 1 .. k
  BY <1>3, LenProperties
<1> HIDE DEF p
<1>5. Fits(log, p)
  BY <1>1, <1>3, <1>4 DEF Fits
<1> QED BY <1>5 DEF p

\* Lines without a checkpoint fit behind every log.
LEMMA NoCheckpointFits ==
  ASSUME NEW log, NEW lines, NoCheckpoint(lines)
  PROVE  Fits(log, lines) /\ \A n : Below(lines, n)
BY DEF NoCheckpoint, Fits, Below

\* The empty log has every property of this section.
LEMMA EmptyLog ==
  /\ <<>> \in Seq(Line)
  /\ NoCheckpoint(<<>>) /\ Ordered(<<>>)
  /\ \A n : Below(<<>>, n)
  /\ \A log : Fits(log, <<>>)
BY DEF NoCheckpoint, Ordered, Below, Fits
-----------------------------------------------------------------------------
(***************************************************************************)
(* The inductive invariant of the context.  Only the soul's own task       *)
(* checkpoints, clears or reverts, and no checkpoint line is in the file   *)
(* while clear() stands between the rotation and the reset of the memory.  *)
(***************************************************************************)
OpsKept ==
  /\ \A i \in DOMAIN todo["grow"] : todo["grow"][i].name \in {"append", "usage"}
  /\ \A i \in DOMAIN todo["turn"] : todo["turn"][i].name = "reset" =>
       i = 1 /\ NoCheckpoint(file) /\ writing["turn"] = <<>>

Shape ==
  /\ ContextTypeOK
  /\ Ordered(file) /\ Ordered(rotated)
  /\ NoCheckpoint(writing["grow"])
  /\ Fits(file, writing["turn"])
  /\ OpsKept

IdsBelow == Below(file, nextCheckpointId) /\ Below(writing["turn"], nextCheckpointId)

\* The operations a handler can await are well typed.
LEMMA CallTypes ==
  /\ \A name \in OpName : Call(name) \in Op
  /\ \A msgs \in Seq(Message) : CallAppend(msgs) \in Op
  /\ \A v \in Nat : CallUsage(v) \in Op /\ CallRevert(v) \in Op
  /\ UserMessage \in Message
  /\ SystemLine \in Line
  /\ \A v \in Nat : CheckpointLine(v) \in Line /\ UsageLine(v) \in Line
BY DEF Op, OpName, Call, CallAppend, CallUsage, CallRevert, UserMessage, Message,
       MessageRole, SystemLine, Line, CheckpointLine, UsageLine

\* Giving up the head of a list for ops: a later entry is one of ops or an
\* old entry that was not the head.
LEMMA ContinueKeeps ==
  ASSUME ContextTypeOK, NEW t \in Task, todo[t] # <<>>, NEW ops \in Seq(Op),
         Continue(t, ops)
  PROVE  /\ todo' \in [Task -> Seq(Op)]
         /\ \A u \in Task \ {t} : todo'[u] = todo[u]
         /\ \A i \in DOMAIN todo'[t] :
              \/ i \in DOMAIN ops /\ todo'[t][i] = ops[i]
              \/ \E j \in DOMAIN todo[t] : j # 1 /\ todo'[t][i] = todo[t][j]
<1> DEFINE s == todo[t]
           r == Tail(s)
           a == Len(ops)
<1>1. s \in Seq(Op) /\ todo \in [Task -> Seq(Op)]
  BY DEF ContextTypeOK
<1>2. r \in Seq(Op) /\ Len(r) = Len(s) - 1 /\ \A i \in 1 .. Len(r) : r[i] = s[i + 1]
  BY <1>1, HeadTailProperties
<1>3. ops \o r \in Seq(Op) /\ Len(ops \o r) = a + Len(r)
      /\ \A i \in 1 .. a + Len(r) :
           (ops \o r)[i] = IF i <= a THEN ops[i] ELSE r[i - a]
  BY <1>2, ConcatProperties
<1>4. todo' = [todo EXCEPT ![t] = ops \o r]
  BY DEF Continue
<1>5. todo'[t] = ops \o r
  BY <1>1, <1>4
<1>6. /\ Len(s) \in Nat /\ DOMAIN s = 1 .. Len(s)
      /\ a \in Nat /\ DOMAIN ops = 1 .. a
      /\ Len(r) \in Nat /\ DOMAIN (ops \o r) = 1 .. a + Len(r)
  BY <1>1, <1>2, <1>3, LenProperties
<1>7. ASSUME NEW i \in DOMAIN todo'[t]
      PROVE  \/ i \in DOMAIN ops /\ todo'[t][i] = ops[i]
             \/ \E j \in DOMAIN todo[t] : j # 1 /\ todo'[t][i] = todo[t][j]
  <2> HIDE DEF s, r, a
  <2>1. i \in 1 .. a + Len(r)
    BY <1>5, <1>6
  <2>2. CASE i <= a
    BY <1>3, <1>5, <1>6, <2>1, <2>2
  <2>3. CASE ~(i <= a)
    <3>1. i - a \in 1 .. Len(r) /\ (i - a) + 1 \in DOMAIN s /\ (i - a) + 1 # 1
      BY <1>2, <1>6, <2>1, <2>3
    <3>2. todo'[t][i] = s[(i - a) + 1]
      BY <1>2, <1>3, <1>5, <2>1, <2>3, <3>1
    <3> QED BY <3>1, <3>2 DEF s
  <2> QED BY <2>2, <2>3
<1> QED BY <1>1, <1>3, <1>4, <1>7

\* The operation a task is about to run is well typed.
LEMMA HeadOp ==
  ASSUME ContextTypeOK, NEW t \in Task, todo[t] # <<>>
  PROVE  /\ Head(todo[t]) \in Op /\ Head(todo[t]) = todo[t][1]
         /\ 1 \in DOMAIN todo[t]
<1>1. todo[t] \in Seq(Op)
  BY DEF ContextTypeOK
<1>2. Len(todo[t]) \in Nat \ {0} /\ DOMAIN todo[t] = 1 .. Len(todo[t])
  BY <1>1, EmptySeq, LenProperties
<1> QED BY <1>1, <1>2, HeadTailProperties

\* Only the soul's task runs an operation other than append and usage.
LEMMA OnlyTurn ==
  ASSUME Shape, NEW t \in Task, NEW name, About(t, name),
         name \notin {"append", "usage"}
  PROVE  t = "turn"
<1>1. t = "turn" \/ t = "grow"
  BY DEF Task
<1>2. ASSUME t = "grow" PROVE FALSE
  <2>1. todo["grow"] # <<>> /\ Head(todo["grow"]).name = name
    BY <1>2 DEF About
  <2>2. "grow" \in Task
    BY DEF Task
  <2>3. Head(todo["grow"]) = todo["grow"][1] /\ 1 \in DOMAIN todo["grow"]
    BY <2>1, <2>2, HeadOp DEF Shape
  <2> QED BY <2>1, <2>3 DEF Shape, OpsKept
<1> QED BY <1>1, <1>2

\* The part of OpsKept about the lists themselves.
LEMMA ContinueOps ==
  ASSUME Shape, NEW t \in Task, todo[t] # <<>>, NEW ops \in Seq(Op),
         Continue(t, ops),
         t = "grow" => ops = <<>>,
         \A i \in DOMAIN ops : ops[i].name # "reset"
  PROVE  /\ \A i \in DOMAIN todo'["grow"] :
              todo'["grow"][i].name \in {"append", "usage"}
         /\ t = "turn" => \A i \in DOMAIN todo'["turn"] :
                            todo'["turn"][i].name # "reset"
<1>1. ContextTypeOK
  BY DEF Shape
<1>2. /\ \A u \in Task \ {t} : todo'[u] = todo[u]
      /\ \A i \in DOMAIN todo'[t] :
           \/ i \in DOMAIN ops /\ todo'[t][i] = ops[i]
           \/ \E j \in DOMAIN todo[t] : j # 1 /\ todo'[t][i] = todo[t][j]
  BY <1>1, ContinueKeeps
<1>3. CASE t = "turn"
  <2>1. todo'["grow"] = todo["grow"]
    BY <1>2, <1>3 DEF Task
  <2>2. \A i \in DOMAIN todo'["turn"] : todo'["turn"][i].name # "reset"
    BY <1>2, <1>3 DEF Shape, OpsKept
  <2> QED BY <2>1, <2>2 DEF Shape, OpsKept
<1>4. CASE t = "grow"
  <2>1. DOMAIN ops = {}
    BY <1>4
  <2> QED BY <1>2, <1>4, <2>1 DEF Shape, OpsKept
<1> QED BY <1>3, <1>4 DEF Task

\* The rest of OpsKept: no reset is waiting unless the file was just rotated.
LEMMA KeepsOps ==
  ASSUME Shape, NEW t \in Task, todo[t] # <<>>, NEW ops \in Seq(Op),
         Continue(t, ops),
         t = "grow" => ops = <<>>,
         \A i \in DOMAIN ops : ops[i].name # "reset",
         t = "grow" => /\ NoCheckpoint(file) => NoCheckpoint(file')
                       /\ writing'["turn"] = writing["turn"]
  PROVE  OpsKept' /\ todo' \in [Task -> Seq(Op)]
<1>1. ContextTypeOK
  BY DEF Shape
<1>2. /\ todo' \in [Task -> Seq(Op)]
      /\ \A u \in Task \ {t} : todo'[u] = todo[u]
  BY <1>1, ContinueKeeps
<1>3. /\ \A i \in DOMAIN todo'["grow"] :
           todo'["grow"][i].name \in {"append", "usage"}
      /\ t = "turn" => \A i \in DOMAIN todo'["turn"] :
                         todo'["turn"][i].name # "reset"
  BY ContinueOps
<1>4. CASE t = "turn"
  BY <1>2, <1>3, <1>4 DEF OpsKept
<1>5. CASE t = "grow"
  <2>1. todo'["turn"] = todo["turn"]
    BY <1>2, <1>5 DEF Task
  <2> QED BY <1>2, <1>3, <1>5, <2>1 DEF Shape, OpsKept
<1> QED BY <1>4, <1>5 DEF Task

\* A log that is empty, or one line long.
LEMMA OneLine ==
  ASSUME NEW x \in Line
  PROVE  /\ <<x>> \in Seq(Line)
         /\ ~IsCheckpoint(x) => NoCheckpoint(<<x>>)
         /\ \A log : Below(log, x.n) => Fits(log, <<x>>)
         /\ \A n : x.n < n => Below(<<x>>, n)
         /\ Ordered(<<x>>)
BY DEF NoCheckpoint, Fits, Below, Ordered

\* A checkpoint line with the next id fits behind a log below that id.
LEMMA NewCheckpoint ==
  ASSUME NEW id \in Nat
  PROVE  /\ CheckpointLine(id) \in Line
         /\ CheckpointLine(id).n = id
         /\ \A log \in Seq(Line) : Below(log, id) => Below(log, id + 1)
<1>1. CheckpointLine(id) \in Line
  BY DEF CheckpointLine, Line
<1>2. CheckpointLine(id).n = id
  BY DEF CheckpointLine
<1>3. ASSUME NEW log \in Seq(Line), Below(log, id)
      PROVE  Below(log, id + 1)
  <2> SUFFICES ASSUME NEW i \in DOMAIN log, IsCheckpoint(log[i])
               PROVE  log[i].n < id + 1
    BY DEF Below
  <2>1. log[i].n < id /\ log[i].n \in Nat
    BY <1>3, LineType DEF Below
  <2> QED BY <2>1
<1> QED BY <1>1, <1>2, <1>3

\* Messages are lines, and none of them is a checkpoint.
LEMMA NoWriteNoCheckpoint ==
  ASSUME NEW msgs \in Seq(Message)
  PROVE  msgs \in Seq(Line) /\ NoCheckpoint(msgs)
<1>1. Message \subseteq Line
  BY DEF Message, Line
<1>2. /\ \A i \in DOMAIN msgs : msgs[i] \in Message
      /\ Len(msgs) \in Nat /\ DOMAIN msgs = 1 .. Len(msgs)
      /\ msgs \in [1 .. Len(msgs) -> Message]
  BY LenProperties, ElementOfSeq
<1>3. msgs \in [1 .. Len(msgs) -> Line]
  BY <1>1, <1>2
<1>4. msgs \in Seq(Line)
  BY <1>2, <1>3, FunctionIsSeq
<1>5. NoCheckpoint(msgs)
  BY <1>2 DEF NoCheckpoint, IsCheckpoint, Message, MessageRole
<1> QED BY <1>4, <1>5

-----------------------------------------------------------------------------
(***************************************************************************)
(* Every context operation preserves the invariant.                        *)
(***************************************************************************)
LEMMA CheckpointKeeps ==
  ASSUME Shape, IdsBelow, NEW t \in Task, Checkpoint(t)
  PROVE  Shape' /\ IdsBelow'
<1> DEFINE id == nextCheckpointId
           ops == IF WithDMail THEN <<CallAppend(<<UserMessage>>)>> ELSE <<>>
<1>1. ContextTypeOK /\ todo[t] # <<>> /\ Continue(t, ops)
  BY DEF Shape, Checkpoint, About
<1>2. t = "turn"
  BY OnlyTurn DEF Checkpoint
<1>3. ops \in Seq(Op) /\ \A i \in DOMAIN ops : ops[i].name # "reset"
  <2>1. <<UserMessage>> \in Seq(Message)
    BY CallTypes
  <2>2. CallAppend(<<UserMessage>>) \in Op
        /\ CallAppend(<<UserMessage>>).name = "append"
    BY <2>1, CallTypes DEF CallAppend
  <2> QED BY <2>2
<1> HIDE DEF ops
<1>4. OpsKept' /\ todo' \in [Task -> Seq(Op)]
  BY <1>1, <1>2, <1>3, KeepsOps
<1>5. /\ id \in Nat /\ id' = id + 1
      /\ UNCHANGED <<history, tokenCount, pendingEstimate, file, rotated>>
      /\ writing \in [Task -> Seq(Line)]
      /\ writing' = [writing EXCEPT !["turn"] = <<CheckpointLine(id)>>]
  BY <1>2 DEF Shape, ContextTypeOK, Checkpoint
<1>6. /\ CheckpointLine(id) \in Line /\ CheckpointLine(id).n = id
      /\ Below(file, id) /\ Below(file, id + 1)
  BY <1>5, NewCheckpoint DEF Shape, ContextTypeOK, IdsBelow
<1>7. /\ writing' \in [Task -> Seq(Line)]
      /\ writing'["turn"] = <<CheckpointLine(id)>>
      /\ writing'["grow"] = writing["grow"]
  BY <1>5, <1>6 DEF Task
<1>8. Fits(file', writing'["turn"]) /\ Below(writing'["turn"], id + 1)
  BY <1>5, <1>6, <1>7, OneLine
<1>9. ContextTypeOK'
  BY <1>1, <1>4, <1>5, <1>7 DEF ContextTypeOK
<1> QED BY <1>4, <1>5, <1>6, <1>7, <1>8, <1>9 DEF Shape, IdsBelow

\* append_message() adds no checkpoint line.
LEMMA AppendMessageKeeps ==
  ASSUME Shape, IdsBelow, NEW t \in Task, AppendMessage(t)
  PROVE  Shape' /\ IdsBelow'
<1> DEFINE msgs == Head(todo[t]).msgs
<1>1. ContextTypeOK /\ todo[t] # <<>> /\ Continue(t, <<>>)
  BY DEF Shape, AppendMessage, About
<1>2. msgs \in Seq(Message)
  BY <1>1, HeadOp DEF Op
<1>3. writing'["turn"] = writing["turn"] \/ t = "turn"
  BY DEF AppendMessage, Shape, ContextTypeOK, Task
<1>4. OpsKept' /\ todo' \in [Task -> Seq(Op)]
  <2>1. <<>> \in Seq(Op) /\ \A i \in DOMAIN <<>> : <<>>[i].name # "reset"
    OBVIOUS
  <2>2. file' = file
    BY DEF AppendMessage
  <2> QED BY <1>1, <1>3, <2>1, <2>2, KeepsOps
<1>5. /\ history' = history \o msgs
      /\ pendingEstimate' = pendingEstimate + Len(msgs)
      /\ writing' = [writing EXCEPT ![t] = msgs]
      /\ UNCHANGED <<tokenCount, nextCheckpointId, file, rotated>>
  BY DEF AppendMessage
<1> HIDE DEF msgs
<1>6. msgs \in Seq(Line) /\ NoCheckpoint(msgs)
  BY <1>2, NoWriteNoCheckpoint
<1>7. ContextTypeOK'
  <2>1. history' \in Seq(Message) /\ pendingEstimate' \in Nat
    BY <1>1, <1>2, <1>5, ConcatProperties, LenProperties DEF ContextTypeOK
  <2> QED BY <1>1, <1>4, <1>5, <1>6, <2>1 DEF ContextTypeOK
<1>8. /\ \A u \in Task \ {t} : writing'[u] = writing[u]
      /\ writing'[t] = msgs
  BY <1>1, <1>5 DEF ContextTypeOK
<1>9. NoCheckpoint(writing'["grow"])
  BY <1>6, <1>8 DEF Shape, Task
<1>10. Fits(file', writing'["turn"]) /\ Below(writing'["turn"], nextCheckpointId')
  <2>1. CASE t = "turn"
    BY <1>6, <1>8, <2>1, NoCheckpointFits
  <2>2. CASE t = "grow"
    BY <1>5, <1>8, <2>2 DEF Shape, IdsBelow, Task
  <2> QED BY <2>1, <2>2 DEF Task
<1> QED BY <1>4, <1>5, <1>7, <1>9, <1>10 DEF Shape, IdsBelow

\* update_token_count() adds no checkpoint line.
LEMMA UpdateTokenCountKeeps ==
  ASSUME Shape, IdsBelow, NEW t \in Task, UpdateTokenCount(t)
  PROVE  Shape' /\ IdsBelow'
<1> DEFINE v == Head(todo[t]).n
<1>1. ContextTypeOK /\ todo[t] # <<>> /\ Continue(t, <<>>)
  BY DEF Shape, UpdateTokenCount, About
<1>2. v \in Nat
  BY <1>1, HeadOp DEF Op
<1>3. writing'["turn"] = writing["turn"] \/ t = "turn"
  BY DEF UpdateTokenCount, Shape, ContextTypeOK, Task
<1>4. OpsKept' /\ todo' \in [Task -> Seq(Op)]
  <2>1. <<>> \in Seq(Op) /\ \A i \in DOMAIN <<>> : <<>>[i].name # "reset"
    OBVIOUS
  <2>2. file' = file
    BY DEF UpdateTokenCount
  <2> QED BY <1>1, <1>3, <2>1, <2>2, KeepsOps
<1>5. /\ tokenCount' = v
      /\ pendingEstimate' = 0
      /\ writing' = [writing EXCEPT ![t] = <<UsageLine(v)>>]
      /\ UNCHANGED <<history, nextCheckpointId, file, rotated>>
  BY DEF UpdateTokenCount
<1> HIDE DEF v
<1>6. <<UsageLine(v)>> \in Seq(Line) /\ NoCheckpoint(<<UsageLine(v)>>)
  <2>1. UsageLine(v) \in Line /\ ~IsCheckpoint(UsageLine(v))
    BY <1>2, CallTypes DEF UsageLine, IsCheckpoint
  <2> QED BY <2>1, OneLine
<1>7. ContextTypeOK'
  BY <1>1, <1>2, <1>4, <1>5, <1>6 DEF ContextTypeOK
<1>8. /\ \A u \in Task \ {t} : writing'[u] = writing[u]
      /\ writing'[t] = <<UsageLine(v)>>
  BY <1>1, <1>5 DEF ContextTypeOK
<1>9. NoCheckpoint(writing'["grow"])
  BY <1>6, <1>8 DEF Shape, Task
<1>10. Fits(file', writing'["turn"]) /\ Below(writing'["turn"], nextCheckpointId')
  <2>1. CASE t = "turn"
    BY <1>6, <1>8, <2>1, NoCheckpointFits
  <2>2. CASE t = "grow"
    BY <1>5, <1>8, <2>2 DEF Shape, IdsBelow, Task
  <2> QED BY <2>1, <2>2 DEF Task
<1> QED BY <1>4, <1>5, <1>7, <1>9, <1>10 DEF Shape, IdsBelow

\* The lines under way reach the file in an order that fits.
LEMMA WriteKeeps ==
  ASSUME Shape, IdsBelow, NEW t \in Task, Write(t)
  PROVE  Shape' /\ IdsBelow'
<1>1. /\ writing[t] # <<>>
      /\ file' = file \o writing[t]
      /\ writing' = [writing EXCEPT ![t] = <<>>]
      /\ UNCHANGED <<memory, rotated, todo>>
  BY DEF Write
<1>2. /\ file \in Seq(Line) /\ writing[t] \in Seq(Line)
      /\ writing \in [Task -> Seq(Line)]
  BY DEF Shape, ContextTypeOK
<1>3. Fits(file, writing[t]) /\ Below(writing[t], nextCheckpointId)
  <2>1. CASE t = "turn"
    BY <2>1 DEF Shape, IdsBelow
  <2>2. CASE t = "grow"
    BY <2>2, NoCheckpointFits DEF Shape
  <2> QED BY <2>1, <2>2 DEF Task
<1>4. file' \in Seq(Line) /\ Ordered(file') /\ Below(file', nextCheckpointId)
  BY <1>1, <1>2, <1>3, ConcatKeeps DEF Shape, IdsBelow
<1>5. /\ \A u \in Task \ {t} : writing'[u] = writing[u]
      /\ writing'[t] = <<>>
  BY <1>1, <1>2
<1>6. ContextTypeOK'
  BY <1>1, <1>4, EmptyLog DEF Shape, ContextTypeOK, memory
<1>7. NoCheckpoint(writing'["grow"])
  BY <1>5, EmptyLog DEF Shape, Task
<1>8. Fits(file', writing'["turn"]) /\ Below(writing'["turn"], nextCheckpointId)
  <2>1. CASE t = "turn"
    BY <1>5, <2>1, EmptyLog
  <2>2. CASE t = "grow"
    <3>1. writing'["turn"] = writing["turn"]
      BY <1>5, <2>2 DEF Task
    <3>2. NoCheckpoint(writing["grow"])
      BY DEF Shape
    <3>3. ASSUME NEW n, Below(file, n)
          PROVE  Below(file', n)
      BY <1>1, <1>2, <2>2, <3>2, <3>3, ConcatKeeps, NoCheckpointFits
    <3>4. Fits(file', writing["turn"])
      BY <3>3 DEF Shape, Fits
    <3> QED BY <3>1, <3>4 DEF IdsBelow
  <2> QED BY <2>1, <2>2 DEF Task
<1>9. OpsKept'
  <2>1. CASE t = "turn"
    \* a reset at the head means that nothing was being written
    BY <1>1, <2>1 DEF Shape, OpsKept
  <2>2. CASE t = "grow"
    <3>1. writing'["turn"] = writing["turn"]
      BY <1>5, <2>2 DEF Task
    <3>2. NoCheckpoint(file) => NoCheckpoint(file')
      BY <1>1, <1>2, <2>2, ConcatKeeps DEF Shape
    <3> QED BY <1>1, <3>1, <3>2 DEF Shape, OpsKept
  <2> QED BY <2>1, <2>2 DEF Task
<1> QED BY <1>1, <1>4, <1>6, <1>7, <1>8, <1>9 DEF Shape, IdsBelow, memory

\* clear() leaves an empty file ...
LEMMA ClearRotateKeeps ==
  ASSUME Shape, IdsBelow, NEW t \in Task, ClearRotate(t)
  PROVE  Shape' /\ IdsBelow'
<1> DEFINE ops == <<Call("reset")>>
<1>1. t = "turn"
  BY OnlyTurn DEF ClearRotate
<1>2. /\ ContextTypeOK /\ todo["turn"] # <<>> /\ writing["turn"] = <<>>
      /\ file' = <<>> /\ Continue("turn", ops)
      /\ UNCHANGED <<memory, rotated, writing>>
  BY <1>1 DEF Shape, ClearRotate, About
<1>3. ops \in Seq(Op)
  BY CallTypes DEF OpName
<1>4. /\ todo' \in [Task -> Seq(Op)]
      /\ todo'["grow"] = todo["grow"]
      /\ \A i \in DOMAIN todo'["turn"] :
           \/ i \in DOMAIN ops /\ todo'["turn"][i] = ops[i]
           \/ \E j \in DOMAIN todo["turn"] :
                j # 1 /\ todo'["turn"][i] = todo["turn"][j]
  BY <1>2, <1>3, ContinueKeeps DEF Task
<1>5. DOMAIN ops = {1}
  OBVIOUS
<1> HIDE DEF ops
<1>6. OpsKept'
  <2>1. NoCheckpoint(file') /\ writing'["turn"] = <<>>
    BY <1>2, EmptyLog
  <2>2. ASSUME NEW i \in DOMAIN todo'["turn"], todo'["turn"][i].name = "reset"
        PROVE  i = 1
    BY <1>4, <1>5, <2>2 DEF Shape, OpsKept
  <2> QED BY <1>4, <2>1, <2>2 DEF Shape, OpsKept
<1>7. ContextTypeOK'
  BY <1>2, <1>4, EmptyLog DEF ContextTypeOK, memory
<1> QED BY <1>2, <1>6, <1>7, EmptyLog DEF Shape, IdsBelow, memory

\* ... so the counter may start at zero again.
LEMMA ClearResetKeeps ==
  ASSUME Shape, IdsBelow, NEW t \in Task, ClearReset(t)
  PROVE  Shape' /\ IdsBelow'
<1>1. t = "turn"
  BY OnlyTurn DEF ClearReset
<1>2. /\ ContextTypeOK /\ todo["turn"] # <<>> /\ writing["turn"] = <<>>
      /\ Head(todo["turn"]).name = "reset" /\ Continue("turn", <<>>)
      /\ history' = <<>> /\ tokenCount' = 0 /\ pendingEstimate' = 0
      /\ nextCheckpointId' = 0
      /\ UNCHANGED <<file, rotated, writing>>
  BY <1>1 DEF Shape, ClearReset, About
<1>3. NoCheckpoint(file)
  <2>1. Head(todo["turn"]) = todo["turn"][1] /\ 1 \in DOMAIN todo["turn"]
    BY <1>1, <1>2, HeadOp
  <2> QED BY <1>2, <2>1 DEF Shape, OpsKept
<1>4. OpsKept' /\ todo' \in [Task -> Seq(Op)]
  <2>1. <<>> \in Seq(Op) /\ \A i \in DOMAIN <<>> : <<>>[i].name # "reset"
    OBVIOUS
  <2> QED BY <1>1, <1>2, <2>1, KeepsOps
<1>5. ContextTypeOK'
  BY <1>2, <1>4 DEF ContextTypeOK
<1>6. Below(file, 0) /\ Below(<<>>, 0)
  BY <1>3, NoCheckpointFits, EmptyLog
<1> QED BY <1>2, <1>4, <1>5, <1>6 DEF Shape, IdsBelow

\* Prepending a line that is no checkpoint changes no checkpoint's order.
LEMMA PrependKeeps ==
  ASSUME NEW x \in Line, ~IsCheckpoint(x), NEW log \in Seq(Line)
  PROVE  /\ <<x>> \o log \in Seq(Line)
         /\ Ordered(log) => Ordered(<<x>> \o log)
         /\ \A n : Below(log, n) => Below(<<x>> \o log, n)
         /\ NoCheckpoint(log) => NoCheckpoint(<<x>> \o log)
<1> DEFINE c == <<x>> \o log
           a == Len(log)
<1>1. <<x>> \in Seq(Line) /\ NoCheckpoint(<<x>>)
  BY OneLine
<1>2. /\ c \in Seq(Line)
      /\ \A n : Below(log, n) => Below(c, n)
      /\ NoCheckpoint(log) => NoCheckpoint(c)
  BY <1>1, ConcatKeeps, NoCheckpointFits
<1>3. /\ Len(c) = a + 1 /\ a \in Nat /\ DOMAIN log = 1 .. a
      /\ DOMAIN c = 1 .. a + 1
      /\ \A i \in 1 .. a + 1 : c[i] = IF i = 1 THEN x ELSE log[i - 1]
  <2>1. a \in Nat /\ DOMAIN log = 1 .. a /\ Len(<<x>>) = 1 /\ <<x>>[1] = x
    BY LenProperties
  <2>2. /\ Len(c) = 1 + a
        /\ \A i \in 1 .. 1 + a : c[i] = IF i <= 1 THEN <<x>>[i] ELSE log[i - 1]
    BY <1>1, <2>1, ConcatProperties
  <2>3. DOMAIN c = 1 .. Len(c)
    BY <1>2, LenProperties
  <2> HIDE DEF c, a
  <2> QED BY <2>1, <2>2, <2>3
<1> HIDE DEF c, a
<1>4. ASSUME Ordered(log)
      PROVE  Ordered(c)
  <2> SUFFICES ASSUME NEW i \in DOMAIN c, IsCheckpoint(c[i]),
                      NEW j \in 1 .. i - 1, IsCheckpoint(c[j])
               PROVE  c[j].n < c[i].n
    BY DEF Ordered
  <2>1. i \in 1 .. a + 1 /\ j \in 1 .. a + 1 /\ i # 1 /\ j # 1 /\ j < i
    BY <1>3
  <2>2. c[i] = log[i - 1] /\ c[j] = log[j - 1] /\ i - 1 \in 1 .. a
        /\ j - 1 \in 1 .. (i - 1) - 1
    BY <1>3, <2>1
  <2> QED BY <1>3, <1>4, <2>2 DEF Ordered
<1> QED BY <1>2, <1>4 DEF c

\* The line of the system prompt is not a checkpoint.
LEMMA SystemLineType == SystemLine \in Line /\ ~IsCheckpoint(SystemLine)
BY DEF SystemLine, Line, IsCheckpoint

\* write_system_prompt() puts one more line in front of the log.
LEMMA WriteSystemPromptKeeps ==
  ASSUME Shape, IdsBelow, NEW t \in Task, WriteSystemPrompt(t)
  PROVE  Shape' /\ IdsBelow'
<1>1. t = "turn"
  BY OnlyTurn DEF WriteSystemPrompt
<1>2. /\ ContextTypeOK /\ todo["turn"] # <<>> /\ writing["turn"] = <<>>
      /\ file' = <<SystemLine>> \o file /\ Continue("turn", <<>>)
      /\ UNCHANGED <<memory, rotated, writing>>
  BY <1>1 DEF Shape, WriteSystemPrompt, About
<1>3. OpsKept' /\ todo' \in [Task -> Seq(Op)]
  <2>1. <<>> \in Seq(Op) /\ \A i \in DOMAIN <<>> : <<>>[i].name # "reset"
    OBVIOUS
  <2> QED BY <1>1, <1>2, <2>1, KeepsOps
<1>4. /\ file' \in Seq(Line) /\ Ordered(file')
      /\ Below(file', nextCheckpointId)
  BY <1>2, SystemLineType, PrependKeeps DEF Shape, ContextTypeOK, IdsBelow
<1>5. ContextTypeOK'
  BY <1>2, <1>3, <1>4 DEF ContextTypeOK, memory
<1> QED BY <1>2, <1>3, <1>4, <1>5, EmptyLog DEF Shape, IdsBelow, memory

\* The memory a log loads to has its type, and an id above those of the log.
LEMMA LoadType ==
  ASSUME NEW log \in Seq(Line), Ordered(log), Load(log)
  PROVE  /\ history' \in Seq(Message) /\ tokenCount' \in Nat
         /\ pendingEstimate' \in Nat /\ nextCheckpointId' \in Nat
         /\ Below(log, nextCheckpointId')
BY MessagesType, TokenCountType, PendingEstimateType, NextIdType, NextIdIsAbove
   DEF Load

\* revert_to() sets an ordered copy aside ...
LEMMA RevertRotateKeeps ==
  ASSUME Shape, IdsBelow, NEW t \in Task, RevertRotate(t)
  PROVE  Shape' /\ IdsBelow'
<1> DEFINE ops == <<[name |-> "replay", n |-> Head(todo["turn"]).n, msgs |-> <<>>]>>
<1>1. t = "turn"
  BY OnlyTurn DEF RevertRotate
<1>2. /\ ContextTypeOK /\ todo["turn"] # <<>> /\ writing["turn"] = <<>>
      /\ rotated' = file /\ file' = <<>> /\ Continue("turn", ops)
      /\ UNCHANGED <<memory, writing>>
  BY <1>1 DEF Shape, RevertRotate, About
<1>3. ops \in Seq(Op) /\ \A i \in DOMAIN ops : ops[i].name # "reset"
  <2>1. Head(todo["turn"]).n \in Nat
    BY <1>1, <1>2, HeadOp DEF Op
  <2> QED BY <2>1 DEF Op, OpName
<1> HIDE DEF ops
<1>4. OpsKept' /\ todo' \in [Task -> Seq(Op)]
  BY <1>1, <1>2, <1>3, KeepsOps
<1>5. ContextTypeOK'
  BY <1>2, <1>4, EmptyLog DEF ContextTypeOK, memory
<1> QED BY <1>2, <1>4, <1>5, EmptyLog DEF Shape, IdsBelow, memory

\* ... and replays a prefix of it, which gives an id above what it kept.
LEMMA RevertReplayKeeps ==
  ASSUME Shape, IdsBelow, NEW t \in Task, RevertReplay(t)
  PROVE  Shape' /\ IdsBelow'
<1>1. t = "turn"
  BY OnlyTurn DEF RevertReplay
<1> DEFINE id == Head(todo["turn"]).n
<1>2. /\ ContextTypeOK /\ todo["turn"] # <<>> /\ writing["turn"] = <<>>
      /\ file' = Before(rotated, id) /\ Load(file') /\ rotated' = <<>>
      /\ Continue("turn", <<>>) /\ writing' = writing
  BY <1>1 DEF Shape, RevertReplay, About
<1> HIDE DEF id
<1>3. OpsKept' /\ todo' \in [Task -> Seq(Op)]
  <2>1. <<>> \in Seq(Op) /\ \A i \in DOMAIN <<>> : <<>>[i].name # "reset"
    OBVIOUS
  <2> QED BY <1>1, <1>2, <2>1, KeepsOps
<1>4. rotated \in Seq(Line) /\ Ordered(rotated)
  BY DEF Shape, ContextTypeOK
<1>5. file' \in Seq(Line) /\ Ordered(file')
  <2>1. PICK k \in 0 .. Len(rotated) : Before(rotated, id) = SubSeq(rotated, 1, k)
    BY <1>4, BeforeIsPrefix
  <2> QED BY <1>2, <1>4, <2>1, PrefixKeeps
<1>6. /\ history' \in Seq(Message) /\ tokenCount' \in Nat
      /\ pendingEstimate' \in Nat /\ nextCheckpointId' \in Nat
      /\ Below(file', nextCheckpointId')
  BY <1>2, <1>5, LoadType
<1>7. ContextTypeOK'
  BY <1>2, <1>3, <1>5, <1>6, EmptyLog DEF ContextTypeOK
<1> QED BY <1>2, <1>3, <1>5, <1>6, <1>7, EmptyLog DEF Shape, IdsBelow

\* Every context operation, of the soul's task or of the growth, keeps the ids on
\* file ordered and below the next one.
THEOREM ContextStepKeeps ==
  ASSUME Shape, IdsBelow, NEW t \in Task, ContextStep(t)
  PROVE  Shape' /\ IdsBelow'
BY CheckpointKeeps, AppendMessageKeeps, UpdateTokenCountKeeps, WriteKeeps,
   ClearRotateKeeps, ClearResetKeeps, WriteSystemPromptKeeps, RevertRotateKeeps,
   RevertReplayKeeps DEF ContextStep

-----------------------------------------------------------------------------
(***************************************************************************)
(* Cancellation, crash and restart.                                        *)
(***************************************************************************)
\* Dropping what a task was doing leaves the other task alone.
LEMMA DropKeeps ==
  ASSUME Shape, Drop("turn")
  PROVE  /\ todo' \in [Task -> Seq(Op)] /\ writing' \in [Task -> Seq(Line)]
         /\ writing'["turn"] = <<>> /\ writing'["grow"] = writing["grow"]
         /\ OpsKept'
<1>1. todo \in [Task -> Seq(Op)] /\ writing \in [Task -> Seq(Line)]
  BY DEF Shape, ContextTypeOK
<1>2. /\ todo' = [todo EXCEPT !["turn"] = <<>>]
      /\ writing' = [writing EXCEPT !["turn"] = <<>>]
  BY DEF Drop
<1>3. /\ todo' \in [Task -> Seq(Op)] /\ todo'["turn"] = <<>>
      /\ todo'["grow"] = todo["grow"]
  BY <1>1, <1>2 DEF Task
<1>4. /\ writing' \in [Task -> Seq(Line)] /\ writing'["turn"] = <<>>
      /\ writing'["grow"] = writing["grow"]
  BY <1>1, <1>2 DEF Task
<1>5. OpsKept'
  BY <1>3 DEF Shape, OpsKept
<1> QED BY <1>3, <1>4, <1>5

\* A cancelled write leaves a prefix of its lines in the file.
LEMMA InterruptWriteKeeps ==
  ASSUME Shape, IdsBelow, InterruptWrite("turn")
  PROVE  Shape' /\ IdsBelow'
<1> DEFINE w == writing["turn"]
<1>1. PICK k \in 0 .. Len(w) : file' = file \o SubSeq(w, 1, k)
  BY DEF InterruptWrite
<1>2. Drop("turn") /\ UNCHANGED <<memory, rotated>>
  BY DEF InterruptWrite
<1>3. /\ todo' \in [Task -> Seq(Op)] /\ writing' \in [Task -> Seq(Line)]
      /\ writing'["turn"] = <<>> /\ writing'["grow"] = writing["grow"]
      /\ OpsKept'
  BY <1>2, DropKeeps
<1>4. file \in Seq(Line) /\ w \in Seq(Line)
  BY DEF Shape, ContextTypeOK, Task
<1>5. Fits(file, w) /\ Below(w, nextCheckpointId)
  BY DEF Shape, IdsBelow
<1> HIDE DEF w
<1>6. /\ SubSeq(w, 1, k) \in Seq(Line) /\ Fits(file, SubSeq(w, 1, k))
      /\ Below(SubSeq(w, 1, k), nextCheckpointId)
  BY <1>4, <1>5, PrefixKeeps, FitsPrefix
<1>7. /\ file' \in Seq(Line) /\ Ordered(file')
      /\ Below(file', nextCheckpointId)
  BY <1>1, <1>4, <1>6, ConcatKeeps DEF Shape, IdsBelow
<1>8. ContextTypeOK'
  BY <1>2, <1>3, <1>7 DEF Shape, ContextTypeOK, memory
<1> QED BY <1>2, <1>3, <1>7, <1>8, EmptyLog DEF Shape, IdsBelow, memory

\* A cancelled revert leaves a prefix of what it kept, in file and memory alike.
LEMMA InterruptReplayKeeps ==
  ASSUME Shape, IdsBelow, InterruptReplay("turn")
  PROVE  Shape' /\ IdsBelow'
<1>1. Drop("turn") /\ rotated' = <<>>
  BY DEF InterruptReplay
<1>2. /\ todo' \in [Task -> Seq(Op)] /\ writing' \in [Task -> Seq(Line)]
      /\ writing'["turn"] = <<>> /\ writing'["grow"] = writing["grow"]
      /\ OpsKept'
  BY <1>1, DropKeeps
<1>3. rotated \in Seq(Line) /\ Ordered(rotated)
  BY DEF Shape, ContextTypeOK
<1>4. /\ file' \in Seq(Line) /\ Ordered(file')
      /\ history' \in Seq(Message) /\ tokenCount' \in Nat
      /\ pendingEstimate' \in Nat /\ nextCheckpointId' \in Nat
      /\ Below(file', nextCheckpointId')
  <2>1. CASE file' = <<>> /\ UNCHANGED memory
    BY <2>1, EmptyLog DEF Shape, ContextTypeOK, memory
  <2>2. CASE LET kept == Before(rotated, Head(todo["turn"]).n)
             IN  \E k \in 0 .. Len(kept) :
                   /\ file' = SubSeq(kept, 1, k)
                   /\ history' = Messages(file')
                   /\ tokenCount' = TokenCount(file')
                   /\ nextCheckpointId' = NextId(file')
                   /\ UNCHANGED pendingEstimate
    <3> DEFINE kept == Before(rotated, Head(todo["turn"]).n)
    <3>1. PICK k \in 0 .. Len(kept) :
            /\ file' = SubSeq(kept, 1, k)
            /\ history' = Messages(file')
            /\ tokenCount' = TokenCount(file')
            /\ nextCheckpointId' = NextId(file')
            /\ UNCHANGED pendingEstimate
      BY <2>2
    <3>2. kept \in Seq(Line) /\ Ordered(kept)
      <4>1. PICK l \in 0 .. Len(rotated) : kept = SubSeq(rotated, 1, l)
        BY <1>3, BeforeIsPrefix
      <4> QED BY <1>3, <4>1, PrefixKeeps
    <3> HIDE DEF kept
    <3>3. file' \in Seq(Line) /\ Ordered(file')
      BY <3>1, <3>2, PrefixKeeps
    <3>4. /\ history' \in Seq(Message) /\ tokenCount' \in Nat
          /\ nextCheckpointId' \in Nat /\ Below(file', nextCheckpointId')
      BY <3>1, <3>3, MessagesType, TokenCountType, NextIdType, NextIdIsAbove
    <3> QED BY <3>1, <3>3, <3>4 DEF Shape, ContextTypeOK
  <2> QED BY <2>1, <2>2 DEF InterruptReplay
<1>5. ContextTypeOK'
  BY <1>1, <1>2, <1>4, EmptyLog DEF ContextTypeOK
<1> QED BY <1>1, <1>2, <1>4, <1>5, EmptyLog DEF Shape, IdsBelow

\* Cancelling the soul's task at any await, growth under way or not.
THEOREM InterruptKeeps ==
  ASSUME Shape, IdsBelow, Interrupt("turn")
  PROVE  Shape' /\ IdsBelow'
BY InterruptWriteKeeps, InterruptReplayKeeps DEF Interrupt

\* Appending two lists of lines one by one or together is the same.
LEMMA ConcatLines ==
  ASSUME NEW a \in Seq(Line), NEW b \in Seq(Line), NEW c \in Seq(Line)
  PROVE  (a \o b) \o c = a \o (b \o c)
BY ConcatAssociative

\* A crash keeps the order of the ids in the file, whatever prefix was flushed.
THEOREM CrashKeeps ==
  ASSUME Shape, IdsBelow, CrashContext
  PROVE  Shape' /\ \A t \in Task : (todo[t] = <<>> /\ writing[t] = <<>>)'
<1>1. /\ history' = <<>> /\ tokenCount' = 0
      /\ pendingEstimate' = 0 /\ nextCheckpointId' = 0
      /\ rotated' = <<>>
      /\ todo' = [t \in Task |-> <<>>]
      /\ writing' = [t \in Task |-> <<>>]
  BY DEF CrashContext
<1> DEFINE kept == Before(rotated, Head(todo["turn"]).n)
           w(k) == SubSeq(writing["turn"], 1, k)
           g(l) == SubSeq(writing["grow"], 1, l)
<1>2. PICK k \in 0 .. Len(writing["turn"]), l \in 0 .. Len(writing["grow"]) :
        IF About("turn", "replay")
        THEN \E m \in 0 .. Len(kept) : file' = SubSeq(kept, 1, m)
        ELSE file' = file \o (w(k) \o g(l))
  BY DEF CrashContext
<1>3. file' \in Seq(Line) /\ Ordered(file')
  <2>1. CASE About("turn", "replay")
    <3>1. rotated \in Seq(Line) /\ Ordered(rotated)
      BY DEF Shape, ContextTypeOK
    <3>2. kept \in Seq(Line) /\ Ordered(kept)
      <4>1. PICK m \in 0 .. Len(rotated) : kept = SubSeq(rotated, 1, m)
        BY <3>1, BeforeIsPrefix
      <4> QED BY <3>1, <4>1, PrefixKeeps
    <3> HIDE DEF kept
    <3> QED BY <1>2, <2>1, <3>2, PrefixKeeps
  <2>2. CASE ~About("turn", "replay")
    <3>1. file \in Seq(Line) /\ writing["turn"] \in Seq(Line)
          /\ writing["grow"] \in Seq(Line)
      BY DEF Shape, ContextTypeOK, Task
    <3>2. w(k) \in Seq(Line) /\ Fits(file, w(k))
      BY <3>1, PrefixKeeps, FitsPrefix DEF Shape
    <3>3. g(l) \in Seq(Line) /\ NoCheckpoint(g(l))
      BY <3>1, PrefixKeeps DEF Shape
    <3>4. file' = file \o (w(k) \o g(l))
      BY <1>2, <2>2
    <3> HIDE DEF w, g
    <3>5. file' = (file \o w(k)) \o g(l)
      <4>1. PICK f \in Seq(Line), x \in Seq(Line), y \in Seq(Line) :
              f = file /\ x = w(k) /\ y = g(l)
        BY <3>1, <3>2, <3>3
      <4>2. (f \o x) \o y = f \o (x \o y)
        BY ConcatLines
      <4> QED BY <3>4, <4>1, <4>2, Zenon
    <3>6. file \o w(k) \in Seq(Line) /\ Ordered(file \o w(k))
      BY <3>1, <3>2, ConcatKeeps DEF Shape
    <3> QED BY <3>3, <3>5, <3>6, ConcatKeeps, NoCheckpointFits
  <2> QED BY <2>1, <2>2
<1>4. ContextTypeOK'
  BY <1>1, <1>3, EmptyLog DEF ContextTypeOK
<1>5. OpsKept' /\ NoCheckpoint(writing'["grow"]) /\ Fits(file', writing'["turn"])
  BY <1>1, EmptyLog DEF OpsKept, Task
<1> QED BY <1>1, <1>3, <1>4, <1>5, EmptyLog DEF Shape

\* After a restart the next id is again above every id of the file.
THEOREM RestoreKeeps ==
  ASSUME Shape, \A t \in Task : todo[t] = <<>> /\ writing[t] = <<>>, Restore
  PROVE  Shape' /\ IdsBelow'
<1>1. /\ Load(file) /\ UNCHANGED <<rotated, todo, writing>>
      /\ file' = file \/ file' = <<SystemLine>> \o file
  BY DEF Restore
<1>2. file \in Seq(Line) /\ Ordered(file)
  BY DEF Shape, ContextTypeOK
<1>3. /\ history' \in Seq(Message) /\ tokenCount' \in Nat
      /\ pendingEstimate' \in Nat /\ nextCheckpointId' \in Nat
      /\ Below(file, nextCheckpointId')
  BY <1>1, <1>2, LoadType
<1>4. file' \in Seq(Line) /\ Ordered(file') /\ Below(file', nextCheckpointId')
  BY <1>1, <1>2, <1>3, SystemLineType, PrependKeeps
<1>5. writing["turn"] = <<>> /\ todo["turn"] = <<>> /\ todo["grow"] = <<>>
  BY DEF Task
<1>6. ContextTypeOK'
  BY <1>1, <1>3, <1>4 DEF Shape, ContextTypeOK
<1>7. OpsKept' /\ Fits(file', writing'["turn"])
      /\ Below(writing'["turn"], nextCheckpointId')
  BY <1>1, <1>5, EmptyLog DEF OpsKept
<1> QED BY <1>1, <1>4, <1>6, <1>7 DEF Shape, IdsBelow

\* A new session starts with an ordered file.
LEMMA ContextInitKeeps == ContextInit => Shape /\ IdsBelow
<1> SUFFICES ASSUME ContextInit PROVE Shape /\ IdsBelow
  OBVIOUS
<1>1. file \in Seq(Line) /\ NoCheckpoint(file) /\ Ordered(file)
  BY SystemLineType, OneLine DEF ContextInit
<1>2. ContextTypeOK
  BY <1>1, EmptyLog DEF ContextInit, ContextTypeOK
<1>3. /\ writing["turn"] = <<>> /\ writing["grow"] = <<>>
      /\ todo["turn"] = <<>> /\ todo["grow"] = <<>> /\ rotated = <<>>
  BY DEF ContextInit, Task
<1>4. OpsKept
  BY <1>3 DEF OpsKept
<1>5. Below(file, nextCheckpointId)
  BY <1>1, NoCheckpointFits
<1> QED BY <1>1, <1>2, <1>3, <1>4, <1>5, EmptyLog DEF Shape, IdsBelow
=============================================================================
