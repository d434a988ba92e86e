------------------------- MODULE NotificationProofs -------------------------
(***************************************************************************)
(* Proofs about Notifications, for any notifications, limit and faults.    *)
(*                                                                         *)
(* That the agent is told once rests on one relation between two files:    *)
(* what the context file holds is acknowledged in the delivery file, or is *)
(* the notification whose append is under way (Filed); and what is in the  *)
(* batch is not acknowledged.  The restart re-establishes the relation; a  *)
(* rewrite of the conversation adds nothing that was not in it.            *)
(***************************************************************************)
EXTENDS Notifications, FiniteSetTheorems, SequenceTheorems, WellFoundedInduction, TLAPS

\* A sequence without repetitions.
Once(s) == \A i, j \in DOMAIN s : s[i] = s[j] => i = j

\* The conversation holds published notifications only; what was not published
\* has no delivery file, and a process that is down holds nothing in memory.
Known ==
  /\ Once(events)
  /\ Elements(file) \subseteq Elements(events)
  /\ Elements(history) \subseteq Elements(events)
  /\ \A n \in Notes \ Elements(events) : \A s \in Sink : delivery[n][s] = "none"
  /\ ~up => stage = "idle" /\ history = <<>>

\* What the conversation holds was heard.
Heard ==
  /\ Elements(file) \subseteq heard["llm"] /\ Elements(history) \subseteq heard["llm"]
  /\ stage \in {"memory", "written"} => First(batch) \in heard["llm"]

\* What is in the file, or in memory, will not be claimed again: it is acknowledged,
\* or it is the one that is being appended.
Filed ==
  /\ \A n \in Elements(file) \cup Elements(history) : delivery[n]["llm"] # "none"
  /\ \A n \in batch : delivery[n]["llm"] \notin {"none", "acked"}
  /\ up =>
       \A n \in Elements(file) \ lapsed :
         delivery[n]["llm"] = "acked" \/ (stage = "written" /\ n = First(batch))
  /\ \A n \in Elements(history) \ lapsed :
       \/ delivery[n]["llm"] = "acked"
       \/ stage \in {"memory", "written"} /\ n = First(batch)

IInv == NotifyTypeOK /\ Known /\ Heard /\ Filed /\ AckedWasHeard /\ ToldOnce

-----------------------------------------------------------------------------
\* A set of numbers that is not empty has a least one.
LEMMA LeastNumber ==
  ASSUME NEW T \in SUBSET Nat, T # {}
  PROVE  \E x \in T : \A y \in T : x <= y
<1>1. PICK x \in T : \A y \in T : <<y, x>> \notin OpToRel(<, Nat)
  BY WFMin, NatLessThanWellFounded
<1>2. \A y \in T : ~(y < x)
  BY <1>1 DEF OpToRel
<1> QED BY <1>2

\* What an append adds, and when it adds no repetition.
LEMMA AppendFacts ==
  ASSUME NEW s \in Seq(Notes), NEW n \in Notes
  PROVE  /\ Append(s, n) \in Seq(Notes)
         /\ Elements(Append(s, n)) = Elements(s) \cup {n}
         /\ Once(s) /\ n \notin Elements(s) => Once(Append(s, n))
         /\ \A m \in Notes : AtMostOnce(m, s) /\ ~(m = n /\ n \in Elements(s)) =>
              AtMostOnce(m, Append(s, n))
<1> DEFINE t == Append(s, n)
<1>1. /\ t \in Seq(Notes) /\ DOMAIN t = 1 .. Len(s) + 1 /\ DOMAIN s = 1 .. Len(s)
      /\ Len(s) \in Nat /\ t[Len(s) + 1] = n /\ \A i \in 1 .. Len(s) : t[i] = s[i]
  OBVIOUS
<1> HIDE DEF t
<1>2. Elements(t) = Elements(s) \cup {n}
  BY <1>1 DEF Elements
<1>3. Once(s) /\ n \notin Elements(s) => Once(t)
  BY <1>1 DEF Once, Elements
<1>4. ASSUME NEW m \in Notes, AtMostOnce(m, s), ~(m = n /\ n \in Elements(s))
      PROVE  AtMostOnce(m, t)
  BY <1>1, <1>4 DEF AtMostOnce, Elements
<1> QED BY <1>1, <1>2, <1>3, <1>4 DEF t

\* A part of a sequence has no element, and no repetition, that the whole has not.
LEMMA PartFacts ==
  ASSUME NEW s \in Seq(Notes), NEW a \in 1 .. Len(s) + 1, NEW b \in 0 .. Len(s),
         NEW q, q = SubSeq(s, a, b)
  PROVE  /\ q \in Seq(Notes) /\ Elements(q) \subseteq Elements(s)
         /\ \A n \in Notes : AtMostOnce(n, s) => AtMostOnce(n, q)
<1>1. /\ q \in Seq(Notes) /\ Len(q) = (IF a <= b THEN b - a + 1 ELSE 0)
      /\ \A i \in 1 .. Len(q) : q[i] = s[a + i - 1]
  BY SubSeqProperties
<1>2. DOMAIN q = 1 .. Len(q) /\ DOMAIN s = 1 .. Len(s) /\ Len(s) \in Nat
  BY <1>1
<1>3. \A i \in DOMAIN q : a + i - 1 \in DOMAIN s
  BY <1>1, <1>2
<1>4. Elements(q) \subseteq Elements(s)
  BY <1>1, <1>2, <1>3 DEF Elements
<1>5. ASSUME NEW n \in Notes, AtMostOnce(n, s)
      PROVE  AtMostOnce(n, q)
  <2> SUFFICES ASSUME NEW i \in DOMAIN q, NEW j \in DOMAIN q, q[i] = n, q[j] = n
               PROVE  i = j
    BY DEF AtMostOnce
  <2>1. s[a + i - 1] = n /\ s[a + j - 1] = n
    BY <1>1, <1>2
  <2>2. a + i - 1 = a + j - 1
    BY <1>3, <1>5, <2>1 DEF AtMostOnce
  <2> QED BY <1>2, <2>2
<1> QED BY <1>1, <1>4, <1>5

\* A sequence has finitely many elements.
LEMMA ElementsFinite ==
  ASSUME NEW s \in Seq(Notes)
  PROVE  IsFiniteSet(Elements(s))
<1>1. DOMAIN s = 1 .. Len(s) /\ IsFiniteSet(1 .. Len(s))
  BY FS_Interval
<1>2. s \in Surjection(DOMAIN s, Elements(s))
  BY DEF Surjection, Elements
<1> QED BY <1>1, <1>2, FS_Surjection

\* One of several published notifications is the oldest.
LEMMA OldestExists ==
  ASSUME events \in Seq(Notes), Once(events),
         NEW S \in SUBSET Elements(events), S # {}
  PROVE  \E n \in S : \A m \in S : ~Older(m, n)
<1> DEFINE T == {i \in DOMAIN events : events[i] \in S}
<1>1. T \in SUBSET Nat /\ T # {}
  BY DEF Elements
<1>2. PICK x \in T : \A y \in T : x <= y
  BY <1>1, LeastNumber
<1>3. \A m \in S : ~Older(m, events[x])
  BY <1>1, <1>2 DEF Older, Once
<1> QED BY <1>2, <1>3

\* ... and no other one is: First() is determined by the order of the events.
LEMMA FirstFacts ==
  ASSUME events \in Seq(Notes), Once(events),
         NEW S \in SUBSET Elements(events), S # {}
  PROVE  /\ First(S) \in S
         /\ \A m \in S : ~Older(m, First(S))
         /\ \A n \in S : (\A m \in S : ~Older(m, n)) => n = First(S)
<1>1. First(S) \in S /\ \A m \in S : ~Older(m, First(S))
  BY OldestExists DEF First
<1>2. ASSUME NEW m \in S, NEW n \in S, m # n
      PROVE  Older(m, n) \/ Older(n, m)
  <2>1. PICK i \in DOMAIN events, j \in DOMAIN events : events[i] = m /\ events[j] = n
    BY DEF Elements
  <2>2. DOMAIN events = 1 .. Len(events) /\ (i < j \/ j < i)
    BY <1>2, <2>1
  <2> QED BY <2>1, <2>2 DEF Older
<1> QED BY <1>1, <1>2

\* One of several published notifications is newer than all others.
LEMMA NewestExists ==
  ASSUME events \in Seq(Notes), Once(events),
         NEW S \in SUBSET Elements(events), S # {}
  PROVE  \E n \in S : \A m \in S \ {n} : Older(m, n)
<1> DEFINE T == {k \in Nat : \E i \in DOMAIN events :
                              events[i] \in S /\ k = Len(events) - i}
<1>0. Len(events) \in Nat /\ DOMAIN events = 1 .. Len(events)
  OBVIOUS
<1>1. T \in SUBSET Nat /\ T # {}
  <2>1. PICK i \in DOMAIN events : events[i] \in S
    BY DEF Elements
  <2>2. Len(events) - i \in T
    BY <1>0, <2>1
  <2> QED BY <2>2
<1>2. PICK x \in T : \A y \in T : x <= y
  BY <1>1, LeastNumber
<1>3. PICK i \in DOMAIN events : events[i] \in S /\ x = Len(events) - i
  BY <1>2, Zenon
<1>4. \A j \in DOMAIN events : events[j] \in S => j <= i
  BY <1>0, <1>2, <1>3
<1>5. ASSUME NEW m \in S \ {events[i]}
      PROVE  Older(m, events[i])
  <2>1. PICK j \in DOMAIN events : events[j] = m
    BY DEF Elements
  <2>2. j < i
    BY <1>0, <1>4, <2>1
  <2> QED BY <2>1, <2>2 DEF Older
<1> QED BY <1>3, <1>5

\* The k oldest of a set are at most k (the limit of claim_for_sink()).
LEMMA OldestFacts ==
  ASSUME events \in Seq(Notes), Once(events),
         NEW S \in SUBSET Elements(events), NEW k \in Nat
  PROVE  /\ Oldest(S, k) \subseteq S
         /\ IsFiniteSet(Oldest(S, k)) /\ Cardinality(Oldest(S, k)) <= k
<1> DEFINE O == Oldest(S, k)
<1>1. O \subseteq S
  BY DEF Oldest
<1>2. IsFiniteSet(S) /\ IsFiniteSet(O)
  BY <1>1, ElementsFinite, FS_Subset
<1>3. CASE O = {}
  BY <1>1, <1>2, <1>3, FS_EmptySet
<1>4. CASE O # {}
  <2>1. PICK n \in O : \A m \in O \ {n} : Older(m, n)
    BY <1>1, <1>4, NewestExists
  <2> DEFINE R == {m \in S : Older(m, n)}
  <2>2. IsFiniteSet(R) /\ Cardinality(R) < k
    BY <1>2, <2>1, FS_Subset DEF Oldest
  <2>3. O \ {n} \in SUBSET R
    BY <1>1, <2>1
  <2>4. Cardinality(O \ {n}) <= Cardinality(R) /\ Cardinality(O \ {n}) = Cardinality(O) - 1
    BY <1>2, <2>1, <2>2, <2>3, FS_Subset, FS_RemoveElement
  <2>5. Cardinality(O) \in Nat /\ Cardinality(R) \in Nat
    BY <1>2, <2>2, FS_CardinalityType
  <2> QED BY <1>1, <1>2, <2>2, <2>4, <2>5
<1> QED BY <1>3, <1>4

-----------------------------------------------------------------------------
\* Marking concerns one sink of the marked notifications.
LEMMA MarkFacts ==
  ASSUME NEW d \in [Notes -> [Sink -> Status]], NEW sink \in Sink, NEW S, NEW x \in Status,
         NEW q, q = Mark(d, sink, S, x)
  PROVE  /\ q \in [Notes -> [Sink -> Status]]
         /\ \A n \in Notes : \A s \in Sink :
              q[n][s] = IF n \in S /\ s = sink THEN x ELSE d[n][s]
<1>1. ASSUME NEW n \in Notes
      PROVE  /\ q[n] \in [Sink -> Status]
             /\ \A s \in Sink : q[n][s] = IF n \in S /\ s = sink THEN x ELSE d[n][s]
  <2>1. d[n] \in [Sink -> Status]
    OBVIOUS
  <2>2. q[n] = IF n \in S THEN [d[n] EXCEPT ![sink] = x] ELSE d[n]
    BY DEF Mark
  <2> QED BY <2>1, <2>2
<1>2. q = [n \in Notes |-> q[n]]
  BY DEF Mark
<1> QED BY <1>1, <1>2

\* Recovery makes stale claims pending and touches nothing else.
LEMMA RecoveredFacts ==
  ASSUME NEW d \in [Notes -> [Sink -> Status]], NEW q, q = Recovered(d)
  PROVE  /\ q \in [Notes -> [Sink -> Status]]
         /\ \A n \in Notes : \A s \in Sink :
              q[n][s] = IF d[n][s] = "stale" THEN "pending" ELSE d[n][s]
BY DEF Recovered, Status

\* A poll claims published notifications that wait for its sink, up to the limit.
LEMMA ClaimFacts ==
  ASSUME NotifyTypeOK, Known, NEW s \in Sink, NEW Q, Q = Claimable(s)
  PROVE  /\ Q \subseteq Elements(events) /\ Cardinality(Q) <= Limit
         /\ \A n \in Q : delivery[n][s] \in {"pending", "stale"}
<1>1. Pending(s) \in SUBSET Elements(events) /\ Elements(events) \subseteq Notes
  BY DEF Pending, NotifyTypeOK, Elements
<1>2. Q \subseteq Pending(s) /\ Cardinality(Q) <= Limit
  BY <1>1, OldestFacts, NotificationsAssumption DEF Claimable, NotifyTypeOK, Known
<1>3. \A n \in Pending(s) : delivery[n][s] \in {"pending", "stale"}
  BY <1>1, RecoveredFacts DEF Pending, NotifyTypeOK
<1> QED BY <1>1, <1>2, <1>3

\* Nothing published and nothing handled: the oldest of the batch is the same.
LEMMA SameFirst ==
  ASSUME UNCHANGED <<events, batch>>
  PROVE  First(batch)' = First(batch)
BY DEF First, Older

\* A batch that is being handled has an oldest notification.
LEMMA FirstOfBatch ==
  ASSUME NotifyTypeOK, Known, stage # "idle"
  PROVE  First(batch) \in batch /\ First(batch) \in Notes
<1>1. First(batch) \in batch
  BY FirstFacts DEF NotifyTypeOK, Known
<1> QED BY <1>1 DEF NotifyTypeOK, Elements

-----------------------------------------------------------------------------
\* publish(): the new notification is behind those of the batch, and nobody was given it.
LEMMA PublishKeeps ==
  ASSUME IInv, NEW n \in Notes, Publish(n)
  PROVE  IInv'
<1>1. /\ events' \in Seq(Notes) /\ Elements(events') = Elements(events) \cup {n}
      /\ Once(events')
  BY AppendFacts DEF IInv, NotifyTypeOK, Known, Publish
<1>2. /\ delivery' \in [Notes -> [Sink -> Status]]
      /\ \A s \in Sink : delivery'[n][s] = "pending"
      /\ \A m \in Notes \ {n} : delivery'[m] = delivery[m]
  BY DEF IInv, NotifyTypeOK, Publish, Status
<1>3. UNCHANGED <<batch, stage, history, file, heard, lapsed, up>>
  BY DEF Publish
<1>4. \A a, b \in Elements(events) : Older(a, b)' <=> Older(a, b)
  <2>1. /\ DOMAIN events = 1 .. Len(events) /\ DOMAIN events' = 1 .. Len(events) + 1
        /\ Len(events) \in Nat /\ events'[Len(events) + 1] = n
        /\ \A i \in 1 .. Len(events) : events'[i] = events[i]
    BY DEF IInv, NotifyTypeOK, Publish
  <2>2. n \notin Elements(events)
    BY DEF Publish
  <2> QED BY <2>1, <2>2 DEF Older, Elements
<1>5. First(batch)' = First(batch)
  <2>1. batch' = batch /\ batch \subseteq Elements(events)
    BY <1>3 DEF IInv, NotifyTypeOK
  <2>2. \A x : (x \in batch /\ \A m \in batch : ~Older(m, x)')
                 <=> (x \in batch /\ \A m \in batch : ~Older(m, x))
    BY <1>4, <2>1
  <2> HIDE DEF Older
  <2> QED BY <2>1, <2>2, Zenon DEF First
<1>6. n \notin Elements(events)
  BY DEF Publish
<1>7. Elements(batch)' = Elements(batch) /\ Elements(file)' = Elements(file)
      /\ Elements(history)' = Elements(history) /\ Elements(events)' = Elements(events')
  BY <1>3 DEF Elements
<1>8. NotifyTypeOK'
  BY <1>1, <1>2, <1>3, <1>7 DEF IInv, NotifyTypeOK
<1>9. Known'
  BY <1>1, <1>2, <1>3, <1>7 DEF IInv, Known, Once
<1>10. Heard'
  BY <1>3, <1>5, <1>7 DEF IInv, Heard
<1>11. Filed'
  <2>1. \A m \in Elements(events) : delivery'[m] = delivery[m]
    BY <1>2, <1>6 DEF IInv, NotifyTypeOK, Elements
  <2>2. /\ batch \subseteq Elements(events) /\ Elements(file) \subseteq Elements(events)
        /\ Elements(history) \subseteq Elements(events)
    BY DEF IInv, NotifyTypeOK, Known
  <2> QED BY <1>3, <1>5, <1>7, <2>1, <2>2 DEF IInv, Filed
<1>12. AckedWasHeard' /\ ToldOnce'
  BY <1>2, <1>3 DEF IInv, AckedWasHeard, ToldOnce, AtMostOnce
<1> QED BY <1>8, <1>9, <1>10, <1>11, <1>12 DEF IInv

\* What is not written keeps its elements.
LEMMA SameElements ==
  /\ events' = events => Elements(events)' = Elements(events)
  /\ file' = file =>
       /\ Elements(file)' = Elements(file)
       /\ \A n \in Notes : AtMostOnce(n, file)' <=> AtMostOnce(n, file)
  /\ history' = history =>
       /\ Elements(history)' = Elements(history)
       /\ \A n \in Notes : AtMostOnce(n, history)' <=> AtMostOnce(n, history)
BY DEF Elements, AtMostOnce

\* A step that changes delivery files only, and acknowledges for the wire alone.
LEMMA DeliveryKeeps ==
  ASSUME IInv, UNCHANGED <<events, batch, stage, history, file, lapsed, up>>,
         delivery' \in [Notes -> [Sink -> Status]],
         \A n \in Notes : \A s \in Sink : delivery'[n][s] = "none" <=> delivery[n][s] = "none",
         \A n \in Notes : delivery'[n]["llm"] = "acked" <=> delivery[n]["llm"] = "acked",
         heard' \in [Sink -> SUBSET Notes],
         \A s \in Sink : heard[s] \subseteq heard'[s],
         AckedWasHeard'
  PROVE  IInv'
<1>1. /\ Elements(events)' = Elements(events) /\ Elements(file)' = Elements(file)
      /\ Elements(history)' = Elements(history) /\ First(batch)' = First(batch)
      /\ Once(events)' = Once(events)
  BY SameElements, SameFirst DEF Once
<1>2. Elements(events) \subseteq Notes
  BY DEF IInv, NotifyTypeOK, Elements
<1>3. NotifyTypeOK'
  BY <1>1 DEF IInv, NotifyTypeOK
<1>4. Known'
  BY <1>1, <1>2 DEF IInv, Known
<1>5. Heard'
  BY <1>1 DEF IInv, Heard, Sink
<1>6. Filed'
  <2>1. batch \subseteq Notes /\ Elements(file) \subseteq Notes /\ Elements(history) \subseteq Notes
    BY <1>2 DEF IInv, NotifyTypeOK, Known
  <2> QED BY <1>1, <1>2, <2>1 DEF IInv, Filed, Sink
<1>7. ToldOnce'
  BY SameElements DEF IInv, ToldOnce
<1> QED BY <1>3, <1>4, <1>5, <1>6, <1>7 DEF IInv

\* Ageing of a claim, also of one whose append is under way.
LEMMA ExpireKeeps ==
  ASSUME IInv, NEW n \in Notes, NEW sink \in Sink, Expire(n, sink)
  PROVE  IInv'
<1>1. delivery \in [Notes -> [Sink -> Status]] /\ heard \in [Sink -> SUBSET Notes]
  BY DEF IInv, NotifyTypeOK
<1>2. /\ delivery' \in [Notes -> [Sink -> Status]]
      /\ \A m \in Notes : \A s \in Sink :
           delivery'[m][s] = IF m = n /\ s = sink THEN "stale" ELSE delivery[m][s]
  <2>1. delivery[n] \in [Sink -> Status] /\ "stale" \in Status
    BY <1>1 DEF Status
  <2> DEFINE r == [delivery[n] EXCEPT ![sink] = "stale"]
  <2>2. r \in [Sink -> Status] /\ \A s \in Sink : r[s] = IF s = sink THEN "stale" ELSE delivery[n][s]
    BY <2>1
  <2>3. delivery' = [delivery EXCEPT ![n] = r]
    BY DEF Expire
  <2> HIDE DEF r
  <2> QED BY <1>1, <2>2, <2>3
<1>3. delivery[n][sink] = "claimed"
      /\ UNCHANGED <<events, batch, stage, history, file, heard, lapsed, up>>
  BY DEF Expire
<1>4. AckedWasHeard'
  BY <1>2, <1>3 DEF IInv, AckedWasHeard
<1>5. \A m \in Notes : \A s \in Sink : delivery'[m][s] = "none" <=> delivery[m][s] = "none"
  BY <1>2, <1>3
<1>6. \A m \in Notes : delivery'[m]["llm"] = "acked" <=> delivery[m]["llm"] = "acked"
  BY <1>2, <1>3 DEF Sink
<1> QED BY <1>1, <1>2, <1>3, <1>4, <1>5, <1>6, DeliveryKeeps

\* What a poll of the wire pump makes of the delivery files, completed or cut off: the
\* first ones claimed, some of them acknowledged.
LEMMA WireFacts ==
  ASSUME NotifyTypeOK, Known, NEW A, NEW B \in SUBSET Claimable("wire"),
         A \subseteq Claimable("wire"), NEW q,
         q = Mark(Mark(Recovered(delivery), "wire", A, "claimed"), "wire", B, "acked")
  PROVE  /\ q \in [Notes -> [Sink -> Status]]
         /\ \A n \in Notes : \A s \in Sink : q[n][s] = "none" <=> delivery[n][s] = "none"
         /\ \A n \in Notes : \A s \in Sink :
              q[n][s] = "acked" <=> delivery[n][s] = "acked" \/ (s = "wire" /\ n \in B)
<1> DEFINE d0 == Recovered(delivery)
           d1 == Mark(d0, "wire", A, "claimed")
<1>0. "wire" \in Sink /\ "claimed" \in Status /\ "acked" \in Status
  BY DEF Sink, Status
<1>1. /\ d0 \in [Notes -> [Sink -> Status]]
      /\ \A n \in Notes : \A s \in Sink :
           d0[n][s] = IF delivery[n][s] = "stale" THEN "pending" ELSE delivery[n][s]
  BY RecoveredFacts DEF NotifyTypeOK
<1> HIDE DEF d0
<1>2. /\ d1 \in [Notes -> [Sink -> Status]]
      /\ \A n \in Notes : \A s \in Sink :
           d1[n][s] = IF n \in A /\ s = "wire" THEN "claimed" ELSE d0[n][s]
  BY <1>0, <1>1, MarkFacts
<1>3. q = Mark(d1, "wire", B, "acked")
  BY DEF d0
<1> HIDE DEF d1
<1>4. /\ q \in [Notes -> [Sink -> Status]]
      /\ \A n \in Notes : \A s \in Sink :
           q[n][s] = IF n \in B /\ s = "wire" THEN "acked" ELSE d1[n][s]
  BY <1>0, <1>2, <1>3, MarkFacts
<1>5. \A n \in Claimable("wire") : delivery[n]["wire"] \in {"pending", "stale"}
  BY <1>0, ClaimFacts
<1>6. ASSUME NEW n \in Notes, NEW s \in Sink
      PROVE  /\ q[n][s] = "none" <=> delivery[n][s] = "none"
             /\ q[n][s] = "acked" <=> delivery[n][s] = "acked" \/ (s = "wire" /\ n \in B)
  <2>1. d0[n][s] = IF delivery[n][s] = "stale" THEN "pending" ELSE delivery[n][s]
    BY <1>1
  <2>2. d1[n][s] = IF n \in A /\ s = "wire" THEN "claimed" ELSE d0[n][s]
    BY <1>2
  <2>3. q[n][s] = IF n \in B /\ s = "wire" THEN "acked" ELSE d1[n][s]
    BY <1>4
  <2>4. (n \in A \/ n \in B) /\ s = "wire" => delivery[n][s] \in {"pending", "stale"}
    BY <1>5
  <2> QED BY <2>1, <2>2, <2>3, <2>4
<1> QED BY <1>4, <1>6

\* A poll of the wire pump, whatever of it cannot be sent.
LEMMA WirePollKeeps ==
  ASSUME IInv, WirePoll
  PROVE  IInv'
<1>1. PICK failed \in SUBSET Claimable("wire") :
        /\ heard' = [heard EXCEPT !["wire"] = @ \cup (Claimable("wire") \ failed)]
        /\ delivery' = Mark(Mark(Recovered(delivery), "wire", failed, "claimed"),
                            "wire", Claimable("wire") \ failed, "acked")
  BY DEF WirePoll
<1> DEFINE B == Claimable("wire") \ failed
<1>2. UNCHANGED <<events, batch, stage, history, file, lapsed, up>>
  BY DEF WirePoll
<1>3. /\ delivery' \in [Notes -> [Sink -> Status]]
      /\ \A n \in Notes : \A s \in Sink : delivery'[n][s] = "none" <=> delivery[n][s] = "none"
      /\ \A n \in Notes : \A s \in Sink :
           delivery'[n][s] = "acked" <=> delivery[n][s] = "acked" \/ (s = "wire" /\ n \in B)
  <2>1. B \in SUBSET Claimable("wire")
    OBVIOUS
  <2> HIDE DEF B
  <2>2. delivery' = Mark(Mark(Recovered(delivery), "wire", failed, "claimed"), "wire", B, "acked")
    BY <1>1 DEF B
  <2> QED BY <1>1, <2>1, <2>2, WireFacts DEF IInv
<1>4. Claimable("wire") \subseteq Elements(events) /\ Elements(events) \subseteq Notes
  BY ClaimFacts DEF IInv, NotifyTypeOK, Elements, Sink
<1>5. /\ heard' \in [Sink -> SUBSET Notes]
      /\ \A s \in Sink : heard'[s] = IF s = "wire" THEN heard[s] \cup B ELSE heard[s]
  BY <1>1, <1>4 DEF IInv, NotifyTypeOK, Sink
<1> HIDE DEF B
<1>6. AckedWasHeard'
  BY <1>3, <1>5 DEF IInv, AckedWasHeard
<1>7. \A n \in Notes : delivery'[n]["llm"] = "acked" <=> delivery[n]["llm"] = "acked"
  BY <1>3 DEF Sink
<1>8. \A s \in Sink : heard[s] \subseteq heard'[s]
  BY <1>5
<1> QED BY <1>2, <1>3, <1>5, <1>6, <1>7, <1>8, DeliveryKeeps

-----------------------------------------------------------------------------
\* The claim of the llm sink takes nothing that is acknowledged, so nothing in the file.
LEMMA LlmClaimKeeps ==
  ASSUME IInv, LlmClaim
  PROVE  IInv'
<1>1. /\ UNCHANGED <<events, history, file, heard, lapsed, up>>
      /\ batch' = Claimable("llm") /\ batch' # {} /\ stage = "idle" /\ stage' = "claimed" /\ up
      /\ delivery' = Mark(Recovered(delivery), "llm", batch', "claimed")
  BY DEF LlmClaim
<1>2. /\ batch' \subseteq Elements(events) /\ Cardinality(batch') <= Limit
      /\ \A n \in batch' : delivery[n]["llm"] \in {"pending", "stale"}
  BY <1>1, ClaimFacts DEF IInv, Sink
<1>3. /\ delivery' \in [Notes -> [Sink -> Status]]
      /\ \A n \in Notes : \A s \in Sink :
           delivery'[n][s] = IF n \in batch' /\ s = "llm" THEN "claimed"
                             ELSE IF delivery[n][s] = "stale" THEN "pending" ELSE delivery[n][s]
  <2> DEFINE d == Recovered(delivery)
  <2>1. /\ d \in [Notes -> [Sink -> Status]]
        /\ \A n \in Notes : \A s \in Sink :
             d[n][s] = IF delivery[n][s] = "stale" THEN "pending" ELSE delivery[n][s]
    BY RecoveredFacts DEF IInv, NotifyTypeOK
  <2>2. delivery' = Mark(d, "llm", batch', "claimed") /\ "llm" \in Sink /\ "claimed" \in Status
    BY <1>1 DEF Sink, Status
  <2> HIDE DEF d
  <2>3. /\ delivery' \in [Notes -> [Sink -> Status]]
        /\ \A n \in Notes : \A s \in Sink :
             delivery'[n][s] = IF n \in batch' /\ s = "llm" THEN "claimed" ELSE d[n][s]
    BY <2>1, <2>2, MarkFacts
  <2> QED BY <2>1, <2>3
<1>4. /\ Elements(events)' = Elements(events) /\ Elements(file)' = Elements(file)
      /\ Elements(history)' = Elements(history) /\ Once(events)' = Once(events)
  BY <1>1, SameElements DEF Once
<1>5. Elements(events) \subseteq Notes
  BY DEF IInv, NotifyTypeOK, Elements
<1>6. NotifyTypeOK'
  BY <1>1, <1>2, <1>3, <1>4 DEF IInv, NotifyTypeOK
<1>7. Known'
  BY <1>1, <1>2, <1>3, <1>4 DEF IInv, Known
<1>8. Heard'
  BY <1>1, <1>4 DEF IInv, Heard
<1>9. \A n \in Notes : /\ delivery[n]["llm"] = "acked" => delivery'[n]["llm"] = "acked"
                       /\ delivery[n]["llm"] # "none" => delivery'[n]["llm"] # "none"
  BY <1>2, <1>3 DEF Sink
<1>10. \A n \in batch' : delivery'[n]["llm"] = "claimed"
  BY <1>2, <1>3, <1>5 DEF Sink
<1>11. Filed'
  BY <1>1, <1>4, <1>5, <1>9, <1>10 DEF IInv, Known, Filed
<1>12. AckedWasHeard' /\ ToldOnce'
  BY <1>1, <1>3, SameElements DEF IInv, AckedWasHeard, ToldOnce
<1> QED BY <1>6, <1>7, <1>8, <1>11, <1>12 DEF IInv

\* The append in memory: what is handled was not acknowledged, so it is not there yet.
LEMMA LlmAppendKeeps ==
  ASSUME IInv, LlmAppend
  PROVE  IInv'
<1> DEFINE F == First(batch)
<1>1. /\ UNCHANGED <<events, delivery, batch, file, lapsed, up>>
      /\ stage = "claimed" /\ stage' = "memory" /\ history' = Append(history, F)
      /\ heard' = [heard EXCEPT !["llm"] = @ \cup {F}]
  BY DEF LlmAppend
<1>2. F \in batch /\ F \in Notes
  BY <1>1, FirstOfBatch DEF IInv
<1>3. First(batch)' = F
  BY <1>1, SameFirst
<1> HIDE DEF F
<1>4. /\ history' \in Seq(Notes) /\ Elements(history') = Elements(history) \cup {F}
      /\ \A m \in Notes : AtMostOnce(m, history) /\ ~(m = F /\ F \in Elements(history)) =>
           AtMostOnce(m, history')
  BY <1>1, <1>2, AppendFacts DEF IInv, NotifyTypeOK
<1>5. /\ Elements(events)' = Elements(events) /\ Elements(file)' = Elements(file)
      /\ Elements(history)' = Elements(history') /\ Once(events)' = Once(events)
  BY <1>1, SameElements DEF Once, Elements
<1>6. /\ heard' \in [Sink -> SUBSET Notes]
      /\ \A s \in Sink : heard'[s] = IF s = "llm" THEN heard[s] \cup {F} ELSE heard[s]
  BY <1>1, <1>2 DEF IInv, NotifyTypeOK
<1>7. NotifyTypeOK'
  BY <1>1, <1>4, <1>5, <1>6 DEF IInv, NotifyTypeOK
<1>8. Known'
  BY <1>1, <1>2, <1>4, <1>5 DEF IInv, Known, NotifyTypeOK
<1>9. Heard'
  BY <1>1, <1>3, <1>4, <1>5, <1>6 DEF IInv, Heard, Sink
<1>10. Filed'
  BY <1>1, <1>2, <1>3, <1>4, <1>5 DEF IInv, Filed
<1>11. AckedWasHeard'
  BY <1>1, <1>6 DEF IInv, AckedWasHeard
<1>12. ToldOnce'
  <2>1. F \notin lapsed => F \notin Elements(history)
    BY <1>1, <1>2 DEF IInv, Filed
  <2>2. \A m \in Notes : AtMostOnce(m, history)' <=> AtMostOnce(m, history')
    BY DEF AtMostOnce
  <2> QED BY <1>1, <1>4, <2>1, <2>2, SameElements DEF IInv, ToldOnce
<1> QED BY <1>7, <1>8, <1>9, <1>10, <1>11, <1>12 DEF IInv

\* The append to the file, likewise.
LEMMA LlmWriteKeeps ==
  ASSUME IInv, LlmWrite
  PROVE  IInv'
<1> DEFINE F == First(batch)
<1>1. /\ UNCHANGED <<events, delivery, batch, history, heard, lapsed, up>>
      /\ stage = "memory" /\ stage' = "written" /\ file' = Append(file, F)
  BY DEF LlmWrite
<1>2. F \in batch /\ F \in Notes
  BY <1>1, FirstOfBatch DEF IInv
<1>3. First(batch)' = F /\ F \in heard["llm"]
  BY <1>1, SameFirst DEF IInv, Heard
<1>6. /\ F = First(batch) /\ delivery[F]["llm"] \notin {"none", "acked"}
  BY <1>2 DEF IInv, Filed
<1> HIDE DEF F
<1>4. /\ file' \in Seq(Notes) /\ Elements(file') = Elements(file) \cup {F}
      /\ \A m \in Notes : AtMostOnce(m, file) /\ ~(m = F /\ F \in Elements(file)) =>
           AtMostOnce(m, file')
  BY <1>1, <1>2, AppendFacts DEF IInv, NotifyTypeOK
<1>5. /\ Elements(events)' = Elements(events) /\ Elements(history)' = Elements(history)
      /\ Elements(file)' = Elements(file') /\ Once(events)' = Once(events)
  BY <1>1, SameElements DEF Once, Elements
<1>7. NotifyTypeOK'
  BY <1>1, <1>4, <1>5 DEF IInv, NotifyTypeOK
<1>8. Known'
  BY <1>1, <1>2, <1>4, <1>5 DEF IInv, Known, NotifyTypeOK
<1>9. Heard'
  BY <1>1, <1>3, <1>4, <1>5 DEF IInv, Heard
<1>10. Filed'
  BY <1>1, <1>6, <1>3, <1>4, <1>5 DEF IInv, Filed
<1>11. AckedWasHeard'
  BY <1>1 DEF IInv, AckedWasHeard
<1>12. ToldOnce'
  <2>1. F \notin lapsed => F \notin Elements(file)
    BY <1>1, <1>6 DEF IInv, Filed, Known
  <2>2. \A m \in Notes : AtMostOnce(m, file)' <=> AtMostOnce(m, file')
    BY DEF AtMostOnce
  <2> QED BY <1>1, <1>4, <2>1, <2>2, SameElements DEF IInv, ToldOnce
<1> QED BY <1>7, <1>8, <1>9, <1>10, <1>11, <1>12 DEF IInv

\* The batch without its oldest is a smaller batch.
LEMMA NextFacts ==
  ASSUME NotifyTypeOK, NextOfBatch, UNCHANGED events
  PROVE  /\ batch' \subseteq Elements(events)' /\ Cardinality(batch') <= Limit
         /\ batch' = batch \ {First(batch)}
         /\ stage' \in {"idle", "claimed"} /\ (stage' = "idle" <=> batch' = {})
<1>1. batch' = batch \ {First(batch)} /\ Elements(events)' = Elements(events)
  BY SameElements DEF NextOfBatch
<1>2. IsFiniteSet(batch)
  BY ElementsFinite, FS_Subset DEF NotifyTypeOK
<1>3. Cardinality(batch') <= Cardinality(batch) /\ Cardinality(batch) \in Nat
      /\ Cardinality(batch') \in Nat
  BY <1>1, <1>2, FS_Subset, FS_CardinalityType
<1> QED BY <1>1, <1>3, NotificationsAssumption DEF NotifyTypeOK, NextOfBatch

\* The acknowledgement covers what is in the file before the batch goes on.
LEMMA LlmAckKeeps ==
  ASSUME IInv, LlmAck
  PROVE  IInv'
<1> DEFINE F == First(batch)
<1>1. /\ UNCHANGED <<events, history, file, heard, lapsed, up>>
      /\ stage = "written" /\ delivery' = Mark(delivery, "llm", {F}, "acked") /\ NextOfBatch
  BY DEF LlmAck
<1>2. F \in batch /\ F \in Notes /\ F = First(batch)
  BY <1>1, FirstOfBatch DEF IInv
<1> HIDE DEF F
<1>3. /\ batch' \subseteq Elements(events)' /\ Cardinality(batch') <= Limit
      /\ batch' = batch \ {F}
      /\ stage' \in {"idle", "claimed"} /\ (stage' = "idle" <=> batch' = {})
  BY <1>1, <1>2, NextFacts DEF IInv
<1>4. /\ delivery' \in [Notes -> [Sink -> Status]]
      /\ \A n \in Notes : \A s \in Sink :
           delivery'[n][s] = IF n \in {F} /\ s = "llm" THEN "acked" ELSE delivery[n][s]
  <2>1. "llm" \in Sink /\ "acked" \in Status /\ delivery \in [Notes -> [Sink -> Status]]
    BY DEF IInv, NotifyTypeOK, Sink, Status
  <2> QED BY <1>1, <2>1, MarkFacts
<1>5. /\ Elements(events)' = Elements(events) /\ Elements(file)' = Elements(file)
      /\ Elements(history)' = Elements(history) /\ Once(events)' = Once(events)
  BY <1>1, SameElements DEF Once
<1>6. Elements(events) \subseteq Notes /\ batch \subseteq Elements(events) /\ F \in Elements(events)
  BY <1>2 DEF IInv, NotifyTypeOK, Elements
<1>7. NotifyTypeOK'
  BY <1>1, <1>3, <1>4, <1>5 DEF IInv, NotifyTypeOK
<1>8. Known'
  <2>1. \A n \in Notes \ Elements(events) : \A s \in Sink : delivery'[n][s] = delivery[n][s]
    BY <1>4, <1>6
  <2>2. \A n \in Notes \ Elements(events) : \A s \in Sink : delivery[n][s] = "none"
    BY DEF IInv, Known
  <2>3. (~up => stage = "idle" /\ history = <<>>)'
    BY <1>1 DEF IInv, Known
  <2>4. \A n \in Notes \ Elements(events) : \A s \in Sink : delivery'[n][s] = "none"
    BY <2>1, <2>2
  <2> QED BY <1>1, <1>5, <2>3, <2>4 DEF IInv, Known
<1>9. Heard'
  BY <1>1, <1>3, <1>5 DEF IInv, Heard
<1>10. \A n \in Notes : delivery'[n]["llm"] = IF n = F THEN "acked" ELSE delivery[n]["llm"]
  BY <1>4 DEF Sink
<1>11. Filed'
  BY <1>1, <1>2, <1>3, <1>5, <1>6, <1>10 DEF IInv, Filed, Known
<1>12. AckedWasHeard'
  BY <1>1, <1>2, <1>4 DEF IInv, Heard, AckedWasHeard
<1>13. ToldOnce'
  BY <1>1, SameElements DEF IInv, ToldOnce
<1> QED BY <1>7, <1>8, <1>9, <1>11, <1>12, <1>13 DEF IInv

\* A failed write leaves one notification in memory alone, and it may come again.
LEMMA LlmFailsKeeps ==
  ASSUME IInv, LlmFails
  PROVE  IInv'
<1> DEFINE F == First(batch)
<1>1. /\ UNCHANGED <<events, delivery, history, file, heard, up>>
      /\ stage = "memory" /\ lapsed' = lapsed \cup {F} /\ NextOfBatch
  BY DEF LlmFails
<1>2. F \in Notes /\ F = First(batch)
  BY <1>1, FirstOfBatch DEF IInv
<1> HIDE DEF F
<1>3. /\ batch' \subseteq Elements(events)' /\ Cardinality(batch') <= Limit
      /\ batch' \subseteq batch
      /\ stage' \in {"idle", "claimed"} /\ (stage' = "idle" <=> batch' = {})
  BY <1>1, NextFacts DEF IInv
<1>4. /\ Elements(events)' = Elements(events) /\ Elements(file)' = Elements(file)
      /\ Elements(history)' = Elements(history) /\ Once(events)' = Once(events)
  BY <1>1, SameElements DEF Once
<1>5. NotifyTypeOK'
  BY <1>1, <1>2, <1>3, <1>4 DEF IInv, NotifyTypeOK
<1>6. Known'
  BY <1>1, <1>4 DEF IInv, Known
<1>7. Heard'
  BY <1>1, <1>3, <1>4 DEF IInv, Heard
<1>8. Filed'
  BY <1>1, <1>2, <1>3, <1>4 DEF IInv, Filed
<1>9. AckedWasHeard' /\ ToldOnce'
  BY <1>1, SameElements DEF IInv, AckedWasHeard, ToldOnce
<1> QED BY <1>5, <1>6, <1>7, <1>8, <1>9 DEF IInv

\* A cancelled run may leave its last append unacknowledged.
LEMMA CancelKeeps ==
  ASSUME IInv, Cancel
  PROVE  IInv'
<1> DEFINE F == First(batch)
<1>1. /\ UNCHANGED <<events, delivery, history, heard, up>>
      /\ stage # "idle" /\ batch' = {} /\ stage' = "idle"
      /\ lapsed' = IF stage = "claimed" THEN lapsed ELSE lapsed \cup {F}
      /\ UNCHANGED file \/ (stage = "memory" /\ file' = Append(file, F))
  BY DEF Cancel
<1>2. F \in batch /\ F \in Notes /\ F = First(batch)
  BY <1>1, FirstOfBatch DEF IInv
<1> HIDE DEF F
<1>3. /\ file' \in Seq(Notes)
      /\ Elements(file)' \subseteq Elements(file) \cup {F}
      /\ F \in Elements(file)' => stage = "memory" \/ F \in Elements(file)
      /\ \A n \in Notes \ {F} : AtMostOnce(n, file) => AtMostOnce(n, file)'
      /\ stage = "claimed" => UNCHANGED file
  <2>1. CASE UNCHANGED file
    BY <1>2, <2>1, SameElements DEF IInv, NotifyTypeOK
  <2>2. CASE stage = "memory" /\ file' = Append(file, F)
    <3>1. /\ file' \in Seq(Notes) /\ Elements(file') = Elements(file) \cup {F}
          /\ \A n \in Notes \ {F} : AtMostOnce(n, file) => AtMostOnce(n, file')
      BY <1>2, <2>2, AppendFacts DEF IInv, NotifyTypeOK
    <3>2. Elements(file)' = Elements(file')
          /\ \A n \in Notes : AtMostOnce(n, file)' <=> AtMostOnce(n, file')
      BY DEF Elements, AtMostOnce
    <3> QED BY <2>2, <3>1, <3>2
  <2> QED BY <1>1, <2>1, <2>2
<1>4. /\ Elements(events)' = Elements(events) /\ Elements(history)' = Elements(history)
      /\ Once(events)' = Once(events)
  BY <1>1, SameElements DEF Once
<1>5. Cardinality({}) = 0 /\ Limit \in Nat
  BY FS_EmptySet, NotificationsAssumption
<1>6. NotifyTypeOK'
  BY <1>1, <1>2, <1>3, <1>4, <1>5 DEF IInv, NotifyTypeOK
<1>7. Known'
  BY <1>1, <1>2, <1>3, <1>4 DEF IInv, Known, NotifyTypeOK
<1>8. Heard'
  BY <1>1, <1>2, <1>3, <1>4 DEF IInv, Heard
<1>9. Filed'
  <2>1. stage \in {"claimed", "memory", "written"}
    BY <1>1 DEF IInv, NotifyTypeOK
  <2>2. /\ Elements(history) \ lapsed' \subseteq Elements(history) \ lapsed
        /\ Elements(file)' \ lapsed' \subseteq Elements(file) \ lapsed
        /\ stage # "claimed" => F \in lapsed'
    BY <1>1, <1>3, SameElements
  <2>3. \A n \in (Elements(file)' \cup Elements(history)') \ lapsed' : delivery[n]["llm"] = "acked"
    BY <1>1, <1>2, <1>4, <2>1, <2>2 DEF IInv, Filed, Known
  <2>4. \A n \in Elements(file)' \cup Elements(history)' : delivery[n]["llm"] # "none"
    BY <1>2, <1>3, <1>4 DEF IInv, Filed
  <2> QED BY <1>1, <2>3, <2>4 DEF Filed
<1>10. AckedWasHeard'
  BY <1>1 DEF IInv, AckedWasHeard
<1>11. ToldOnce'
  BY <1>1, <1>3, SameElements DEF IInv, ToldOnce
<1> QED BY <1>6, <1>7, <1>8, <1>9, <1>10, <1>11 DEF IInv

-----------------------------------------------------------------------------
\* A conversation rewritten from what it held, between two steps of the agent.
LEMMA RewriteKeeps ==
  ASSUME IInv, Rewrite,
         history' \in Seq(Notes), file' \in Seq(Notes),
         Elements(history)' \subseteq Elements(history) \cup Elements(file),
         Elements(file)' \subseteq Elements(history) \cup Elements(file),
         \A n \in Notes : AtMostOnce(n, history) /\ AtMostOnce(n, file) =>
                            AtMostOnce(n, history)' /\ AtMostOnce(n, file)'
  PROVE  IInv'
<1>1. UNCHANGED <<events, delivery, batch, stage, heard, lapsed, up>> /\ up /\ stage = "idle"
  BY DEF Rewrite
<1>2. Elements(events)' = Elements(events) /\ Once(events)' = Once(events)
  BY <1>1, SameElements DEF Once
<1>3. NotifyTypeOK' /\ Known' /\ Heard'
  BY <1>1, <1>2 DEF IInv, NotifyTypeOK, Known, Heard
<1>4. Filed'
  BY <1>1 DEF IInv, Filed
<1>5. AckedWasHeard' /\ ToldOnce'
  BY <1>1 DEF IInv, AckedWasHeard, ToldOnce
<1> QED BY <1>3, <1>4, <1>5 DEF IInv

\* /clear between two runs, or a compaction cut off behind its clear().
LEMMA ClearKeeps ==
  ASSUME IInv, Clear
  PROVE  IInv'
<1>1. Rewrite /\ history' = <<>> /\ file' = <<>>
  BY DEF Clear
<1>2. /\ Elements(history)' = {} /\ Elements(file)' = {}
      /\ \A n \in Notes : AtMostOnce(n, history)' /\ AtMostOnce(n, file)'
  BY <1>1 DEF Elements, AtMostOnce
<1> QED BY <1>1, <1>2, RewriteKeeps

\* A D-Mail keeps a beginning of the file.
LEMMA RevertKeeps ==
  ASSUME IInv, Revert
  PROVE  IInv'
<1>1. PICK k \in 0 .. Len(file) : file' = SubSeq(file, 1, k) /\ history' = file'
  BY DEF Revert
<1>2. file \in Seq(Notes) /\ Len(file) \in Nat
  BY DEF IInv, NotifyTypeOK
<1>3. 1 \in 1 .. Len(file) + 1
  BY <1>2
<1>4. /\ file' \in Seq(Notes) /\ Elements(file') \subseteq Elements(file)
      /\ \A n \in Notes : AtMostOnce(n, file) => AtMostOnce(n, file')
  BY <1>1, <1>2, <1>3, PartFacts
<1>5. /\ Elements(file)' = Elements(file') /\ Elements(history)' = Elements(file')
      /\ \A n \in Notes : /\ AtMostOnce(n, file)' <=> AtMostOnce(n, file')
                         /\ AtMostOnce(n, history)' <=> AtMostOnce(n, file')
  BY <1>1 DEF Elements, AtMostOnce
<1> QED BY <1>1, <1>4, <1>5, RewriteKeeps DEF Revert

\* Compaction keeps an end of the history, and of that a beginning in the file.
LEMMA CompactKeeps ==
  ASSUME IInv, Compact
  PROVE  IInv'
<1>1. PICK k \in 1 .. Len(history) + 1 : history' = SubSeq(history, k, Len(history))
  BY DEF Compact
<1>2. history \in Seq(Notes) /\ Len(history) \in Nat
  BY DEF IInv, NotifyTypeOK
<1>3. Len(history) \in 0 .. Len(history)
  BY <1>2
<1>4. /\ history' \in Seq(Notes) /\ Elements(history') \subseteq Elements(history)
      /\ \A n \in Notes : AtMostOnce(n, history) => AtMostOnce(n, history')
  BY <1>1, <1>2, <1>3, PartFacts
<1>5. /\ file' \in Seq(Notes) /\ Elements(file') \subseteq Elements(history')
      /\ \A n \in Notes : AtMostOnce(n, history') => AtMostOnce(n, file')
  <2>1. CASE file' = history'
    BY <1>4, <2>1
  <2>2. CASE \E j \in 0 .. Len(history') : file' = SubSeq(history', 1, j)
    <3>1. PICK j \in 0 .. Len(history') : file' = SubSeq(history', 1, j)
      BY <2>2
    <3>2. 1 \in 1 .. Len(history') + 1
      BY <1>4
    <3> QED BY <1>4, <3>1, <3>2, PartFacts
  <2> QED BY <2>1, <2>2 DEF Compact
<1>6. /\ Elements(file)' = Elements(file') /\ Elements(history)' = Elements(history')
      /\ \A n \in Notes : /\ AtMostOnce(n, file)' <=> AtMostOnce(n, file')
                         /\ AtMostOnce(n, history)' <=> AtMostOnce(n, history')
  BY DEF Elements, AtMostOnce
<1> QED BY <1>4, <1>5, <1>6, RewriteKeeps DEF Compact

\* A crash with whatever it leaves of the notification files.
LEMMA CrashLeaves ==
  ASSUME IInv, file' = file, lapsed' = lapsed,
         up' = FALSE, batch' = {}, stage' = "idle", history' = <<>>,
         events' \in Seq(Notes), Once(events)', Elements(events) \subseteq Elements(events)',
         delivery' \in [Notes -> [Sink -> Status]],
         \A n \in Notes : \A s \in Sink : delivery'[n][s] = "none" <=> delivery[n][s] = "none",
         heard' \in [Sink -> SUBSET Notes],
         \A s \in Sink : heard[s] \subseteq heard'[s],
         AckedWasHeard'
  PROVE  IInv'
<1>1. /\ Elements(history)' = {} /\ Elements(file)' = Elements(file)
      /\ \A n \in Notes : AtMostOnce(n, history)' /\ (AtMostOnce(n, file)' <=> AtMostOnce(n, file))
  BY SameElements DEF AtMostOnce, Elements
<1>2. Cardinality({}) = 0 /\ Limit \in Nat /\ Elements(events) \subseteq Notes
  BY FS_EmptySet, NotificationsAssumption DEF IInv, NotifyTypeOK, Elements
<1>3. NotifyTypeOK'
  <2>1. history' \in Seq(Notes) /\ file' \in Seq(Notes) /\ lapsed' \subseteq Notes
    BY DEF IInv, NotifyTypeOK
  <2>3. up' \in BOOLEAN
    BY Zenon
  <2>2. batch' \subseteq Elements(events)' /\ Cardinality(batch') <= Limit
    BY <1>2
  <2> QED BY <2>1, <2>2, <2>3 DEF NotifyTypeOK
<1>4. Known'
  BY <1>1, <1>2 DEF IInv, Known
<1>5. Heard'
  BY <1>1 DEF IInv, Heard, Sink
<1>6. Filed'
  BY <1>1, <1>2 DEF IInv, Filed, Known, Sink
<1>7. ToldOnce'
  BY <1>1 DEF IInv, ToldOnce
<1> QED BY <1>3, <1>4, <1>5, <1>6, <1>7 DEF IInv

\* A crash anywhere, publish() and the poll of the wire pump torn.
LEMMA CrashKeeps ==
  ASSUME IInv, Crash
  PROVE  IInv'
<1>1. /\ file' = file /\ lapsed' = lapsed
      /\ up' = FALSE /\ batch' = {} /\ stage' = "idle" /\ history' = <<>>
  BY DEF Crash
<1>2. /\ events \in Seq(Notes) /\ Once(events) /\ delivery \in [Notes -> [Sink -> Status]]
      /\ heard \in [Sink -> SUBSET Notes] /\ AckedWasHeard
  BY DEF IInv, NotifyTypeOK, Known
<1>3. CASE UNCHANGED <<events, delivery, heard>>
  <2>1. Elements(events)' = Elements(events) /\ Once(events)' /\ AckedWasHeard'
    BY <1>2, <1>3 DEF Elements, Once, AckedWasHeard
  <2> QED BY <1>1, <1>2, <1>3, <2>1, CrashLeaves
<1>4. CASE TornPublish
  <2>1. PICK n \in Notes \ Elements(events) : events' = Append(events, n)
    BY <1>4 DEF TornPublish
  <2>2. UNCHANGED <<delivery, heard>>
    BY <1>4 DEF TornPublish
  <2>3. /\ events' \in Seq(Notes) /\ Elements(events') = Elements(events) \cup {n}
        /\ Once(events')
    BY <1>2, <2>1, AppendFacts
  <2>4. Elements(events) \subseteq Elements(events)' /\ Once(events)' /\ AckedWasHeard'
    BY <1>2, <2>2, <2>3 DEF Elements, Once, AckedWasHeard
  <2> QED BY <1>1, <1>2, <2>2, <2>3, <2>4, CrashLeaves
<1>5. CASE TornWirePoll
  <2> DEFINE P == Claimable("wire")
  <2>1. PICK i, j :
          /\ delivery' = Mark(Mark(Recovered(delivery), "wire", Oldest(P, i), "claimed"),
                              "wire", Oldest(P, j), "acked")
          /\ heard' = [heard EXCEPT !["wire"] = @ \cup Oldest(P, j)]
          /\ UNCHANGED events
    BY <1>5 DEF TornWirePoll
  <2>2. P \subseteq Elements(events) /\ Elements(events) \subseteq Notes
    BY ClaimFacts DEF IInv, NotifyTypeOK, Elements, Sink
  <2> DEFINE A == Oldest(P, i)
             B == Oldest(P, j)
  <2>3. A \subseteq P /\ B \in SUBSET P
    BY DEF Oldest
  <2> HIDE DEF A, B
  <2>4. delivery' = Mark(Mark(Recovered(delivery), "wire", A, "claimed"), "wire", B, "acked")
        /\ heard' = [heard EXCEPT !["wire"] = @ \cup B]
    BY <2>1 DEF A, B
  <2>5. /\ delivery' \in [Notes -> [Sink -> Status]]
        /\ \A n \in Notes : \A s \in Sink : delivery'[n][s] = "none" <=> delivery[n][s] = "none"
        /\ \A n \in Notes : \A s \in Sink :
             delivery'[n][s] = "acked" <=> delivery[n][s] = "acked" \/ (s = "wire" /\ n \in B)
    BY <2>3, <2>4, WireFacts DEF IInv
  <2>6. /\ heard' \in [Sink -> SUBSET Notes]
        /\ \A s \in Sink : heard'[s] = IF s = "wire" THEN heard[s] \cup B ELSE heard[s]
    BY <1>2, <2>2, <2>3, <2>4 DEF Sink
  <2>7. AckedWasHeard' /\ \A s \in Sink : heard[s] \subseteq heard'[s]
    <3>1. ASSUME NEW n \in Notes, NEW s \in Sink, delivery'[n][s] = "acked"
          PROVE  n \in heard'[s]
      <4>1. CASE delivery[n][s] = "acked"
        BY <1>2, <2>6, <4>1 DEF AckedWasHeard
      <4>2. CASE s = "wire" /\ n \in B
        BY <2>6, <4>2
      <4> QED BY <2>5, <3>1, <4>1, <4>2
    <3>2. AckedWasHeard'
      BY <3>1 DEF AckedWasHeard
    <3> QED BY <2>6, <3>2
  <2>8. Elements(events)' = Elements(events) /\ Once(events)' /\ events' \in Seq(Notes)
    BY <1>2, <2>1 DEF Elements, Once
  <2> QED BY <1>1, <2>5, <2>6, <2>7, <2>8, CrashLeaves
<1> QED BY <1>3, <1>4, <1>5 DEF Crash

\* The restart acknowledges all the restored conversation holds (ack_ids()).
LEMMA RestartKeeps ==
  ASSUME IInv, Restart
  PROVE  IInv'
<1> DEFINE D == {n \in Elements(file) : delivery[n]["llm"] # "none"}
<1>1. /\ UNCHANGED <<events, batch, stage, file, heard, lapsed>>
      /\ ~up /\ up' = TRUE /\ history' = file /\ delivery' = Mark(delivery, "llm", D, "acked")
  BY DEF Restart
<1>2. D = Elements(file) /\ stage = "idle"
  BY <1>1 DEF IInv, Filed, Known
<1> HIDE DEF D
<1>3. /\ delivery' \in [Notes -> [Sink -> Status]]
      /\ \A n \in Notes : \A s \in Sink :
           delivery'[n][s] = IF n \in D /\ s = "llm" THEN "acked" ELSE delivery[n][s]
  <2>1. "llm" \in Sink /\ "acked" \in Status /\ delivery \in [Notes -> [Sink -> Status]]
    BY DEF IInv, NotifyTypeOK, Sink, Status
  <2> QED BY <1>1, <2>1, MarkFacts
<1>4. /\ Elements(events)' = Elements(events) /\ Elements(file)' = Elements(file)
      /\ Elements(history)' = Elements(file) /\ Once(events)' = Once(events)
      /\ \A n \in Notes : /\ AtMostOnce(n, file)' <=> AtMostOnce(n, file)
                         /\ AtMostOnce(n, history)' <=> AtMostOnce(n, file)
  BY <1>1 DEF Once, AtMostOnce, Elements
<1>5. Elements(events) \subseteq Notes /\ Elements(file) \subseteq Elements(events) /\ batch = {}
  <2>1. Elements(events) \subseteq Notes
    BY DEF IInv, NotifyTypeOK, Elements
  <2> QED BY <1>2, <2>1 DEF IInv, NotifyTypeOK, Known
<1>6. \A n \in Elements(file) : delivery'[n]["llm"] = "acked"
  BY <1>2, <1>3, <1>5 DEF Sink
<1>7. NotifyTypeOK'
  BY <1>1, <1>3, <1>4 DEF IInv, NotifyTypeOK
<1>8. Known'
  <2>1. \A n \in Notes \ Elements(events) : \A s \in Sink : delivery'[n][s] = "none"
    BY <1>2, <1>3, <1>5 DEF IInv, Known
  <2> QED BY <1>1, <1>4, <1>5, <2>1 DEF IInv, Known
<1>9. Heard'
  BY <1>1, <1>2, <1>4 DEF IInv, Heard
<1>10. Filed'
  BY <1>1, <1>4, <1>5, <1>6 DEF IInv, Filed
<1>11. AckedWasHeard' /\ ToldOnce'
  <2>1. AckedWasHeard'
    BY <1>1, <1>2, <1>3 DEF IInv, Heard, AckedWasHeard
  <2>2. ToldOnce'
    BY <1>1, <1>4 DEF IInv, ToldOnce
  <2> QED BY <2>1, <2>2
<1> QED BY <1>7, <1>8, <1>9, <1>10, <1>11 DEF IInv

-----------------------------------------------------------------------------
\* With nothing published the invariant holds.
LEMMA InitHolds ==
  ASSUME Init
  PROVE  IInv
<1>1. /\ Elements(<<>>) = {} /\ Once(<<>>) /\ \A n \in Notes : AtMostOnce(n, <<>>)
      /\ Cardinality({}) = 0 /\ Limit \in Nat
  BY FS_EmptySet, NotificationsAssumption DEF Elements, Once, AtMostOnce
<1>2. NotifyTypeOK
  BY <1>1 DEF Init, NotifyTypeOK, Status
<1>3. Known /\ Heard /\ Filed
  BY <1>1 DEF Init, Known, Heard, Filed
<1>4. AckedWasHeard /\ ToldOnce
  BY <1>1 DEF Init, AckedWasHeard, ToldOnce
<1> QED BY <1>2, <1>3, <1>4 DEF IInv

\* Every step keeps the invariant.
LEMMA StepKeeps ==
  ASSUME IInv, [Next]_vars
  PROVE  IInv'
<1>1. CASE Next
  BY <1>1, PublishKeeps, ExpireKeeps, LlmClaimKeeps, LlmAppendKeeps, LlmWriteKeeps,
     LlmAckKeeps, LlmFailsKeeps, CancelKeeps, WirePollKeeps, ClearKeeps, RevertKeeps,
     CompactKeeps, CrashKeeps, RestartKeeps DEF Next
<1>2. CASE UNCHANGED vars
  <2>1. UNCHANGED <<events, delivery, batch, stage, history, file, heard, lapsed, up>>
    BY <1>2 DEF vars
  <2>2. delivery \in [Notes -> [Sink -> Status]]
        /\ heard \in [Sink -> SUBSET Notes] /\ AckedWasHeard'
    BY <2>1 DEF IInv, NotifyTypeOK, AckedWasHeard
  <2> QED BY <2>1, <2>2, DeliveryKeeps
<1> QED BY <1>1, <1>2

\* The invariant holds in every reachable state.
THEOREM Invariance == Spec => []IInv
<1> QED BY InitHolds, StepKeeps, PTL DEF Spec

\* Event and delivery files, batch and conversation are well typed, and a batch is at
\* most the limit of a poll, for any notifications, limit, failures and crashes.
THEOREM NotifyTypeCorrect == Spec => []NotifyTypeOK
<1>1. IInv => NotifyTypeOK
  BY DEF IInv
<1> QED BY <1>1, Invariance, PTL

\* What is acknowledged for a sink was handed to it: no failed handler, lost claim, torn
\* poll or restart acknowledges a notification nobody saw (ack(), ack_ids()).
THEOREM AcknowledgedWasHeard == Spec => []AckedWasHeard
<1>1. IInv => AckedWasHeard
  BY DEF IInv
<1> QED BY <1>1, Invariance, PTL

\* The agent is told a thing once unless its append was cut short: across stale claims,
\* crashes, restarts, D-Mails and compaction (claim_for_sink(), deliver_pending(),
\* ack_ids(), revert_to(), compact_context()).
THEOREM ToldAtMostOnce == Spec => []ToldOnce
<1>1. IInv => ToldOnce
  BY DEF IInv
<1> QED BY <1>1, Invariance, PTL
=============================================================================
