-------------------------- MODULE AgentLoopProofs --------------------------
(***************************************************************************)
(* Proofs about AgentLoop, under every interleaving of the soul, the       *)
(* shielded growth, cancellations, crashes and restarts, for every value   *)
(* of the constants: types, and checkpoint ids that only increase (IInv);  *)
(* memory, size, revert and requests that are right as long as no run was  *)
(* cancelled (Orderly); steers that enter the conversation once and in     *)
(* order (Steered); the refinement of ConversationLog (Copied).            *)
(***************************************************************************)
EXTENDS AgentLoop, ReplayProofs

(***************************************************************************)
(* The inductive invariant.  CheckpointIdsIncrease alone is not inductive: *)
(* the line under way must fit behind the file (Shape), a clear must find  *)
(* no checkpoint line when it resets the counter (OpsKept), and a process  *)
(* that is down must have nothing under way when it restarts.              *)
(***************************************************************************)
IInv ==
  /\ LoopTypeOK
  /\ Shape
  /\ pc # "down" => IdsBelow
  /\ pc = "down" => \A t \in Task : todo[t] = <<>> /\ writing[t] = <<>>

\* The preserve depth is positive.
LEMMA PreserveDepthType == PreserveDepth \in Nat \ {0}
BY LoopAssumption

-----------------------------------------------------------------------------
\* What a handler leaves alone stays well-formed.
LEMMA ContextStays ==
  ASSUME Shape, IdsBelow, UNCHANGED contextVars
  PROVE  Shape' /\ IdsBelow'
BY DEF Shape, IdsBelow, OpsKept, ContextTypeOK, Ordered, Below, Fits,
       NoCheckpoint, contextVars

\* A handler hands the soul's task operations to await.
LEMMA AwaitKeeps ==
  ASSUME Shape, IdsBelow, NEW ops \in Seq(Op),
         \A i \in DOMAIN ops : ops[i].name # "reset",
         todo' = [todo EXCEPT !["turn"] = ops], UNCHANGED contextRest
  PROVE  Shape' /\ IdsBelow'
<1>1. /\ todo' \in [Task -> Seq(Op)] /\ todo'["turn"] = ops
      /\ todo'["grow"] = todo["grow"]
  BY DEF Shape, ContextTypeOK, Task
<1>2. OpsKept'
  BY <1>1 DEF Shape, OpsKept
<1>3. ContextTypeOK'
  BY <1>1 DEF Shape, ContextTypeOK, contextRest, memory
<1> QED BY <1>2, <1>3
        DEF Shape, IdsBelow, contextRest, memory

\* The growth task only appends messages and usage.
LEMMA GrowKeeps ==
  ASSUME Shape, IdsBelow, NEW ops \in Seq(Op),
         \A i \in DOMAIN ops : ops[i].name \in {"append", "usage"},
         todo' = [todo EXCEPT !["grow"] = ops], UNCHANGED contextRest
  PROVE  Shape' /\ IdsBelow'
<1>1. /\ todo' \in [Task -> Seq(Op)] /\ todo'["grow"] = ops
      /\ todo'["turn"] = todo["turn"]
  BY DEF Shape, ContextTypeOK, Task
<1>2. OpsKept'
  BY <1>1 DEF Shape, OpsKept, contextRest, memory
<1>3. ContextTypeOK'
  BY <1>1 DEF Shape, ContextTypeOK, contextRest, memory
<1> QED BY <1>2, <1>3
        DEF Shape, IdsBelow, contextRest, memory

-----------------------------------------------------------------------------
(***************************************************************************)
(* A compaction with enough messages to preserve finds where to start.     *)
(***************************************************************************)
Speaking(h, i) == {j \in i .. Len(h) : Speaks(h[j])}

\* The number of messages that speak in a tail grows by at most one per position.
LEMMA SpeakingStep ==
  ASSUME NEW h \in Seq(Message), NEW i \in DOMAIN h
  PROVE  /\ Cardinality(Speaking(h, i + 1)) \in Nat
         /\ Cardinality(Speaking(h, i)) =
              IF Speaks(h[i]) THEN Cardinality(Speaking(h, i + 1)) + 1
                              ELSE Cardinality(Speaking(h, i + 1))
<1>1. Len(h) \in Nat /\ DOMAIN h = 1 .. Len(h)
  BY LenProperties
<1>2. IsFiniteSet(Speaking(h, i + 1))
  <2>1. IsFiniteSet(i + 1 .. Len(h))
    BY <1>1, FS_Interval
  <2> QED BY <2>1, FS_Subset DEF Speaking
<1>3. i \notin Speaking(h, i + 1)
  BY <1>1 DEF Speaking
<1>4. CASE Speaks(h[i])
  <2>1. Speaking(h, i) = Speaking(h, i + 1) \cup {i}
    BY <1>1, <1>4 DEF Speaking
  <2> QED BY <1>2, <1>3, <1>4, <2>1, FS_AddElement, FS_CardinalityType
<1>5. CASE ~Speaks(h[i])
  <2>1. Speaking(h, i) = Speaking(h, i + 1)
    BY <1>1, <1>5 DEF Speaking
  <2> QED BY <1>2, <1>5, <2>1, FS_CardinalityType
<1> QED BY <1>4, <1>5

\* A history with enough of them has a first preserved message, which speaks.
LEMMA PreserveStartExists ==
  ASSUME NEW h \in Seq(Message),
         ~(Cardinality({j \in DOMAIN h : Speaks(h[j])}) < PreserveDepth)
  PROVE  PreserveStart(h) \in DOMAIN h /\ Speaks(h[PreserveStart(h)])
<1> DEFINE n(i) == Cardinality(Speaking(h, i))
           S == {i \in 0 .. Len(h) : i # 0 /\ n(i) >= PreserveDepth}
<1>1. Len(h) \in Nat /\ DOMAIN h = 1 .. Len(h)
  BY LenProperties
<1>2. {j \in DOMAIN h : Speaks(h[j])} = Speaking(h, 1)
  BY <1>1 DEF Speaking
<1>3. n(Len(h) + 1) = 0
  <2>1. Speaking(h, Len(h) + 1) = {}
    BY <1>1 DEF Speaking
  <2> QED BY <2>1, FS_EmptySet
<1>4. \A i \in DOMAIN h : /\ n(i + 1) \in Nat
                          /\ n(i) = IF Speaks(h[i]) THEN n(i + 1) + 1 ELSE n(i + 1)
  BY SpeakingStep
<1> HIDE DEF n
<1>5. PreserveDepth \in Nat \ {0}
  BY PreserveDepthType
<1>6. ~(n(1) < PreserveDepth)
  BY <1>2 DEF n
<1>7. Len(h) # 0
  BY <1>3, <1>5, <1>6
<1>8. 1 \in S
  BY <1>1, <1>4, <1>5, <1>6, <1>7
<1>9. PICK m \in S : \A x \in S : x <= m
  BY <1>1, <1>8, NatMax
<1>10. m \in DOMAIN h /\ n(m) >= PreserveDepth
  BY <1>1, <1>9
<1>11. ~(n(m + 1) >= PreserveDepth)
  <2>1. CASE m = Len(h)
    BY <1>3, <1>5, <2>1
  <2>2. CASE m # Len(h)
    <3>1. m + 1 \in 0 .. Len(h) /\ m + 1 # 0 /\ ~(m + 1 <= m)
      BY <1>1, <1>10, <2>2
    <3> QED BY <1>9, <3>1
  <2> QED BY <2>1, <2>2
<1>12. Speaks(h[m]) /\ n(m) = PreserveDepth
  BY <1>4, <1>5, <1>10, <1>11
<1>13. \E i \in DOMAIN h :
         /\ Speaks(h[i])
         /\ Cardinality({j \in i .. Len(h) : Speaks(h[j])}) = PreserveDepth
  BY <1>10, <1>12 DEF n, Speaking
<1> QED BY <1>13 DEF PreserveStart

\* A compaction yields messages.
LEMMA CompactedType ==
  ASSUME NEW h \in Seq(Message)
  PROVE  Compacted(h) \in Seq(Message)
<1>1. CASE Cardinality({j \in DOMAIN h : Speaks(h[j])}) < PreserveDepth
  BY <1>1 DEF Compacted
<1>2. CASE ~(Cardinality({j \in DOMAIN h : Speaks(h[j])}) < PreserveDepth)
  <2> DEFINE start == PreserveStart(h)
             kept == SubSeq(h, start, Len(h))
  <2>1. start \in DOMAIN h
    BY <1>2, PreserveStartExists
  <2>2. Len(h) \in Nat /\ DOMAIN h = 1 .. Len(h)
    BY LenProperties
  <2>3. \A i \in 1 .. Len(h) : h[i] \in Message
    BY <2>2, ElementOfSeq
  <2>4. kept \in Seq(Message)
    BY <2>1, <2>2, <2>3, SubSeqProperties
  <2>5. Compacted(h) = CASE start = 1 -> h
                         [] start = 2 -> <<h[1]>> \o kept
                         [] OTHER     -> <<UserMessage, h[1]>> \o kept
    BY <1>2 DEF Compacted
  <2> HIDE DEF start, kept
  <2>6. h[1] \in Message /\ UserMessage \in Message
    BY <2>1, <2>2, <2>3, CallTypes
  <2>7. <<h[1]>> \o kept \in Seq(Message)
    BY <2>4, <2>6, ConcatProperties
  <2>8. <<UserMessage, h[1]>> \o kept \in Seq(Message)
    BY <2>4, <2>6, ConcatProperties
  <2> QED BY <2>5, <2>7, <2>8
<1> QED BY <1>1, <1>2

-----------------------------------------------------------------------------
(***************************************************************************)
(* One step of the soul: what it awaits is well-formed.                    *)
(***************************************************************************)
Running == LoopTypeOK /\ Shape /\ IdsBelow /\ pc # "down"

\* The operations the handlers await are well typed.
LEMMA OpTypes ==
  /\ \A name \in OpName : Call(name) \in Op /\ Call(name).name = name
  /\ \A msgs \in Seq(Message) : CallAppend(msgs) \in Op /\ CallAppend(msgs).name = "append"
  /\ \A v \in Nat : /\ CallUsage(v) \in Op /\ CallUsage(v).name = "usage"
                    /\ CallRevert(v) \in Op /\ CallRevert(v).name = "revert"
  /\ {"checkpoint", "append", "usage", "clear", "system"} \subseteq OpName
  /\ UserMessage \in Message /\ <<UserMessage>> \in Seq(Message)
BY CallTypes DEF Call, CallAppend, CallUsage, CallRevert, OpName

\* The operations of the handlers, one lemma for each shape.
Calm(ops) == ops \in Seq(Op) /\ \A i \in DOMAIN ops : ops[i].name # "reset"

\* A single operation other than the reset inside clear() is calm.
LEMMA CalmOne ==
  ASSUME NEW a \in Op, a.name # "reset"
  PROVE  Calm(<<a>>)
BY DEF Calm

\* Lists of operations with these names only are closed under concatenation.
Only(ops, names) ==
  ops \in Seq(Op) /\ \A i \in DOMAIN ops : ops[i].name \in names

\* Concatenation adds no new operation.
LEMMA OnlyConcat ==
  ASSUME NEW p, NEW q, NEW names, Only(p, names), Only(q, names)
  PROVE  Only(p \o q, names)
<1>1. p \in Seq(Op) /\ q \in Seq(Op)
  BY DEF Only
<1>2. /\ p \o q \in Seq(Op) /\ Len(p \o q) = Len(p) + Len(q)
      /\ \A i \in 1 .. Len(p) + Len(q) :
           (p \o q)[i] = IF i <= Len(p) THEN p[i] ELSE q[i - Len(p)]
  BY <1>1, ConcatProperties
<1>3. /\ Len(p) \in Nat /\ DOMAIN p = 1 .. Len(p)
      /\ Len(q) \in Nat /\ DOMAIN q = 1 .. Len(q)
      /\ DOMAIN (p \o q) = 1 .. Len(p) + Len(q)
  BY <1>1, <1>2, LenProperties
<1>4. ASSUME NEW i \in 1 .. Len(p) + Len(q)
      PROVE  (p \o q)[i].name \in names
  <2>1. CASE i <= Len(p)
    BY <1>2, <1>3, <2>1 DEF Only
  <2>2. CASE ~(i <= Len(p))
    <3>1. i - Len(p) \in DOMAIN q /\ (p \o q)[i] = q[i - Len(p)]
      BY <1>2, <1>3, <2>2
    <3> QED BY <3>1 DEF Only
  <2> QED BY <2>1, <2>2
<1> QED BY <1>2, <1>3, <1>4 DEF Only

\* Concatenation keeps lists calm.
LEMMA CalmConcat ==
  ASSUME NEW p, NEW q, Calm(p), Calm(q)
  PROVE  Calm(p \o q)
<1>1. ASSUME NEW r
      PROVE  Calm(r) <=> Only(r, OpName \ {"reset"})
  <2>1. ASSUME r \in Seq(Op), NEW i \in DOMAIN r
        PROVE  r[i].name \in OpName
    <3>1. r[i] \in Op
      BY <2>1, LenProperties, ElementOfSeq
    <3> QED BY <3>1 DEF Op
  <2> QED BY <2>1 DEF Calm, Only
<1> QED BY <1>1, OnlyConcat

\* Awaiting a calm list keeps the context well-formed.
LEMMA CalmAwait ==
  ASSUME Shape, IdsBelow, NEW ops, Calm(ops), Await(ops), UNCHANGED contextRest
  PROVE  Shape' /\ IdsBelow'
BY AwaitKeeps DEF Calm, Await

\* A turn begins with a calm list ...
LEMMA CalmTurnOps == Calm(TurnOps)
<1>1. /\ Call("checkpoint") \in Op /\ Call("checkpoint").name = "checkpoint"
      /\ CallAppend(<<UserMessage>>) \in Op
      /\ CallAppend(<<UserMessage>>).name = "append"
  BY OpTypes
<1> QED BY <1>1 DEF Calm, TurnOps

\* The operations that rebuild the context after a compaction.
LEMMA CalmRebuild ==
  ASSUME NEW msgs \in Seq(Message), NEW snapshot \in {<<>>, <<UserMessage>>}
  PROVE  Calm(<<Call("clear"), Call("system"), Call("checkpoint"), CallAppend(msgs)>>
              \o (IF snapshot = <<>> THEN <<>> ELSE <<CallAppend(snapshot)>>)
              \o <<CallUsage(Len(msgs) + Len(snapshot))>>)
<1>1. snapshot \in Seq(Message) /\ Len(msgs) \in Nat /\ Len(snapshot) \in Nat
  <2>1. <<>> \in Seq(Message) /\ <<UserMessage>> \in Seq(Message)
    BY OpTypes
  <2>2. snapshot \in Seq(Message)
    BY <2>1
  <2> QED BY <2>2, LenProperties
<1>2. /\ Call("clear") \in Op /\ Call("clear").name = "clear"
      /\ Call("system") \in Op /\ Call("system").name = "system"
      /\ Call("checkpoint") \in Op /\ Call("checkpoint").name = "checkpoint"
      /\ CallAppend(msgs) \in Op /\ CallAppend(msgs).name = "append"
      /\ CallAppend(snapshot) \in Op /\ CallAppend(snapshot).name = "append"
  BY <1>1, OpTypes
<1>3. Calm(<<Call("clear"), Call("system"), Call("checkpoint"), CallAppend(msgs)>>)
  BY <1>2 DEF Calm
<1>4. Calm(IF snapshot = <<>> THEN <<>> ELSE <<CallAppend(snapshot)>>)
  BY <1>2 DEF Calm
<1>5. Calm(<<CallUsage(Len(msgs) + Len(snapshot))>>)
  <2>1. Len(msgs) + Len(snapshot) \in Nat
    BY <1>1
  <2>2. /\ CallUsage(Len(msgs) + Len(snapshot)) \in Op
        /\ CallUsage(Len(msgs) + Len(snapshot)).name = "usage"
    BY <2>1, OpTypes
  <2> QED BY <2>2, CalmOne
<1> QED BY <1>3, <1>4, <1>5, CalmConcat

\* Handlers that leave the context alone.
LEMMA ControlKeeps ==
  ASSUME Running,
         \/ Prompt \/ BlockPrompt \/ CompactCommand \/ CommandDone
         \/ EnterLoop \/ OutOfSteps \/ CompactFails \/ Checkpointed
         \/ CallModel \/ StreamToolCall \/ ModelRetry \/ ModelFails
         \/ UnsupportedResult \/ StepRejected \/ Reverted \/ StepAssertionFails
         \/ StepContinues \/ NextStep \/ StopTurn \/ EndRun
         \/ Steer
  PROVE  Running'
<1>1. /\ LoopTypeOK /\ Shape /\ IdsBelow /\ pc # "down"
      /\ history \in Seq(Message) /\ nextCheckpointId \in Nat
      /\ <<>> \in Seq(Message)
  BY DEF Running, Shape, ContextTypeOK
<1> USE DEF LoopTypeOK, PC, Goto, Finish, ForgetStep, stepVars, dmailVars, bounds
<1>2. CASE Prompt
  <2>1. UNCHANGED contextVars
    BY <1>2 DEF Prompt
  <2>2. LoopTypeOK' /\ pc' # "down"
    BY <1>1, <1>2 DEF Prompt
  <2> QED BY <1>1, <2>1, <2>2, ContextStays DEF Running
<1>3. CASE BlockPrompt
  <2>1. UNCHANGED contextVars
    BY <1>3 DEF BlockPrompt
  <2>2. LoopTypeOK' /\ pc' # "down"
    BY <1>1, <1>3 DEF BlockPrompt
  <2> QED BY <1>1, <2>1, <2>2, ContextStays DEF Running
<1>4. CASE CompactCommand
  <2>1. UNCHANGED contextVars
    BY <1>4 DEF CompactCommand
  <2>2. LoopTypeOK' /\ pc' # "down"
    BY <1>1, <1>4 DEF CompactCommand
  <2> QED BY <1>1, <2>1, <2>2, ContextStays DEF Running
<1>5. CASE CommandDone
  <2>1. UNCHANGED contextVars
    BY <1>5 DEF CommandDone
  <2>2. LoopTypeOK' /\ pc' # "down"
    BY <1>1, <1>5 DEF CommandDone
  <2> QED BY <1>1, <2>1, <2>2, ContextStays DEF Running
<1>6. CASE EnterLoop
  <2>1. UNCHANGED contextVars
    BY <1>6 DEF EnterLoop
  <2>2. LoopTypeOK' /\ pc' # "down"
    BY <1>1, <1>6 DEF EnterLoop
  <2> QED BY <1>1, <2>1, <2>2, ContextStays DEF Running
<1>7. CASE OutOfSteps
  <2>1. UNCHANGED contextVars
    BY <1>7 DEF OutOfSteps
  <2>2. LoopTypeOK' /\ pc' # "down"
    BY <1>1, <1>7 DEF OutOfSteps
  <2> QED BY <1>1, <2>1, <2>2, ContextStays DEF Running
<1>8. CASE CompactFails
  <2>1. UNCHANGED contextVars
    BY <1>8 DEF CompactFails
  <2>2. LoopTypeOK' /\ pc' # "down"
    BY <1>1, <1>8 DEF CompactFails
  <2> QED BY <1>1, <2>1, <2>2, ContextStays DEF Running
<1>9. CASE Checkpointed
  <2>1. UNCHANGED contextVars
    BY <1>9 DEF Checkpointed
  <2>2. LoopTypeOK' /\ pc' # "down"
    BY <1>1, <1>9 DEF Checkpointed
  <2> QED BY <1>1, <2>1, <2>2, ContextStays DEF Running
<1>10. CASE CallModel
  <2>1. UNCHANGED contextVars
    BY <1>10 DEF CallModel
  <2>2. LoopTypeOK' /\ pc' # "down"
    BY <1>1, <1>10 DEF CallModel
  <2> QED BY <1>1, <2>1, <2>2, ContextStays DEF Running
<1>11. CASE StreamToolCall
  <2>1. UNCHANGED contextVars
    BY <1>11 DEF StreamToolCall
  <2>2. LoopTypeOK' /\ pc' # "down"
    BY <1>1, <1>11 DEF StreamToolCall
  <2> QED BY <1>1, <2>1, <2>2, ContextStays DEF Running
<1>12. CASE ModelRetry
  <2>1. UNCHANGED contextVars
    BY <1>12 DEF ModelRetry
  <2>2. LoopTypeOK' /\ pc' # "down"
    BY <1>1, <1>12 DEF ModelRetry
  <2> QED BY <1>1, <2>1, <2>2, ContextStays DEF Running
<1>13. CASE ModelFails
  <2>1. UNCHANGED contextVars
    BY <1>13 DEF ModelFails
  <2>2. LoopTypeOK' /\ pc' # "down"
    BY <1>1, <1>13 DEF ModelFails
  <2> QED BY <1>1, <2>1, <2>2, ContextStays DEF Running
<1>14. CASE UnsupportedResult
  <2>1. UNCHANGED contextVars
    BY <1>14 DEF UnsupportedResult
  <2>2. LoopTypeOK' /\ pc' # "down"
    BY <1>1, <1>14 DEF UnsupportedResult
  <2> QED BY <1>1, <2>1, <2>2, ContextStays DEF Running
<1>15. CASE StepRejected
  <2>1. UNCHANGED contextVars
    BY <1>15 DEF StepRejected
  <2>2. LoopTypeOK' /\ pc' # "down"
    BY <1>1, <1>15 DEF StepRejected
  <2> QED BY <1>1, <2>1, <2>2, ContextStays DEF Running
<1>16. CASE Reverted
  <2>1. UNCHANGED contextVars
    BY <1>16 DEF Reverted
  <2>2. LoopTypeOK' /\ pc' # "down"
    BY <1>1, <1>16 DEF Reverted
  <2> QED BY <1>1, <2>1, <2>2, ContextStays DEF Running
<1>17. CASE StepAssertionFails
  <2>1. UNCHANGED contextVars
    BY <1>17 DEF StepAssertionFails
  <2>2. LoopTypeOK' /\ pc' # "down"
    BY <1>1, <1>17 DEF StepAssertionFails
  <2> QED BY <1>1, <2>1, <2>2, ContextStays DEF Running
<1>18. CASE StepContinues
  <2>1. UNCHANGED contextVars
    BY <1>18 DEF StepContinues
  <2>2. LoopTypeOK' /\ pc' # "down"
    BY <1>1, <1>18 DEF StepContinues
  <2> QED BY <1>1, <2>1, <2>2, ContextStays DEF Running
<1>19. CASE NextStep
  <2>1. UNCHANGED contextVars
    BY <1>19 DEF NextStep
  <2>2. LoopTypeOK' /\ pc' # "down"
    BY <1>1, <1>19 DEF NextStep
  <2> QED BY <1>1, <2>1, <2>2, ContextStays DEF Running
<1>20. CASE StopTurn
  <2>1. UNCHANGED contextVars
    BY <1>20 DEF StopTurn
  <2>2. LoopTypeOK' /\ pc' # "down"
    BY <1>1, <1>20 DEF StopTurn
  <2> QED BY <1>1, <2>1, <2>2, ContextStays DEF Running
<1>21. CASE EndRun
  <2>1. UNCHANGED contextVars
    BY <1>21 DEF EndRun
  <2>2. LoopTypeOK' /\ pc' # "down"
    BY <1>1, <1>21 DEF EndRun
  <2> QED BY <1>1, <2>1, <2>2, ContextStays DEF Running
<1>22. CASE Steer
  <2>1. UNCHANGED contextVars
    BY <1>22 DEF Steer
  <2>2. steerCount' \in Nat
    BY <1>1, <1>22 DEF Steer
  <2>3. [role |-> "user", n |-> steerCount'] \in Message
    BY <2>2 DEF Message, MessageRole
  <2>4. steers' \in Seq(Message)
    BY <1>1, <1>22, <2>3, AppendProperties DEF Steer
  <2>5. LoopTypeOK' /\ pc' # "down"
    BY <1>1, <1>22, <2>2, <2>4 DEF Steer
  <2> QED BY <1>1, <2>1, <2>5, ContextStays DEF Running
<1> QED BY <1>2, <1>3, <1>4, <1>5, <1>6, <1>7, <1>8, <1>9, <1>10, <1>11, <1>12,
           <1>13, <1>14, <1>15, <1>16, <1>17, <1>18, <1>19, <1>20, <1>21, <1>22

(***************************************************************************)
(* Handlers that await operations, and the growth.                         *)
(***************************************************************************)
LEMMA AwaitingKeeps ==
  ASSUME Running,
         \/ BeginTurn \/ ClearCommand \/ BeginStep \/ Compact
         \/ Note \/ ModelAnswers \/ StepReverts \/ ConsumeSteer
         \/ StopHookTurn
  PROVE  Running'
<1>1. /\ LoopTypeOK /\ Shape /\ IdsBelow /\ pc # "down"
      /\ history \in Seq(Message) /\ nextCheckpointId \in Nat
      /\ <<>> \in Seq(Message)
  BY DEF Running, Shape, ContextTypeOK
<1>2. /\ Call("checkpoint") \in Op /\ Call("checkpoint").name = "checkpoint"
      /\ Call("clear") \in Op /\ Call("clear").name = "clear"
      /\ Call("system") \in Op /\ Call("system").name = "system"
      /\ CallAppend(<<UserMessage>>) \in Op
      /\ CallAppend(<<UserMessage>>).name = "append"
  BY OpTypes
<1> USE DEF LoopTypeOK, PC, Goto, Finish, ForgetStep, stepVars, dmailVars, bounds
<1>3. CASE BeginTurn
  <2>1. Shape' /\ IdsBelow'
    BY <1>1, <1>3, CalmTurnOps, CalmAwait DEF BeginTurn
  <2>2. LoopTypeOK' /\ pc' # "down"
    BY <1>1, <1>3 DEF BeginTurn
  <2> QED BY <2>1, <2>2 DEF Running
<1>4. CASE ClearCommand
  <2>1. Calm(<<Call("clear"), Call("system")>>)
    BY <1>2 DEF Calm
  <2>2. Shape' /\ IdsBelow'
    BY <1>1, <1>4, <2>1, CalmAwait DEF ClearCommand
  <2>3. LoopTypeOK' /\ pc' # "down"
    BY <1>1, <1>4 DEF ClearCommand
  <2> QED BY <2>2, <2>3 DEF Running
<1>5. CASE BeginStep
  <2>1. Calm(<<Call("checkpoint")>>)
    BY <1>2, CalmOne
  <2>2. UNCHANGED contextRest
    BY <1>5 DEF BeginStep
  <2>3. Shape' /\ IdsBelow'
    <3>1. CASE Await(<<Call("checkpoint")>>)
      BY <1>1, <2>1, <2>2, <3>1, CalmAwait
    <3>2. CASE UNCHANGED todo
      BY <1>1, <2>2, <3>2, ContextStays DEF contextRest, contextVars, memory
    <3> QED BY <1>5, <3>1, <3>2 DEF BeginStep
  <2>4. LoopTypeOK' /\ pc' # "down"
    BY <1>1, <1>5 DEF BeginStep
  <2> QED BY <2>3, <2>4 DEF Running
<1>6. CASE Compact
  <2> DEFINE msgs == Compacted(history)
             rebuild(snapshot) ==
               <<Call("clear"), Call("system"), Call("checkpoint"),
                 CallAppend(msgs)>>
               \o (IF snapshot = <<>> THEN <<>> ELSE <<CallAppend(snapshot)>>)
               \o <<CallUsage(Len(msgs) + Len(snapshot))>>
  <2>1. PICK snapshot \in {<<>>, <<UserMessage>>} :
          IF stepNo = 0
          THEN Await(rebuild(snapshot)) /\ Goto("command")
          ELSE Await(rebuild(snapshot) \o <<Call("checkpoint")>>)
               /\ Goto("checkpoint")
    BY <1>6 DEF Compact
  <2>2. msgs \in Seq(Message)
    BY <1>1, CompactedType
  <2>3. Calm(rebuild(snapshot))
    BY <2>2, CalmRebuild
  <2> HIDE DEF rebuild
  <2>4. Calm(rebuild(snapshot) \o <<Call("checkpoint")>>)
    <3>1. Calm(<<Call("checkpoint")>>)
      BY <1>2, CalmOne
    <3> QED BY <2>3, <3>1, CalmConcat
  <2>5. UNCHANGED contextRest
    BY <1>6 DEF Compact
  <2>6. Shape' /\ IdsBelow'
    BY <1>1, <2>1, <2>3, <2>4, <2>5, CalmAwait
  <2>7. pc' \in {"command", "checkpoint"}
    BY <2>1
  <2>8. LoopTypeOK' /\ pc' # "down"
    BY <1>1, <1>6, <2>7 DEF Compact
  <2> QED BY <2>6, <2>8 DEF Running
<1>7. CASE Note
  <2>1. Calm(<<CallAppend(<<UserMessage>>)>>)
    BY <1>2, CalmOne
  <2>2. Shape' /\ IdsBelow'
    BY <1>1, <1>7, <2>1, CalmAwait DEF Note
  <2>3. LoopTypeOK' /\ pc' # "down"
    BY <1>1, <1>7 DEF Note
  <2> QED BY <2>2, <2>3 DEF Running
<1>8. CASE ModelAnswers
  <2>1. Calm(<<CallUsage(Len(sent))>>)
    <3>1. Len(sent) \in Nat
      BY <1>1, LenProperties
    <3>2. CallUsage(Len(sent)) \in Op /\ CallUsage(Len(sent)).name = "usage"
      BY <3>1, OpTypes
    <3> QED BY <3>2, CalmOne
  <2>2. UNCHANGED contextRest
    BY <1>8 DEF ModelAnswers
  <2>3. Shape' /\ IdsBelow'
    <3>1. CASE Await(<<CallUsage(Len(sent))>>)
      BY <1>1, <2>1, <2>2, <3>1, CalmAwait
    <3>2. CASE UNCHANGED todo
      BY <1>1, <2>2, <3>2, ContextStays DEF contextRest, contextVars, memory
    <3> QED BY <1>8, <3>1, <3>2 DEF ModelAnswers
  <2>4. LoopTypeOK' /\ pc' # "down"
    BY <1>1, <1>8 DEF ModelAnswers
  <2> QED BY <2>3, <2>4 DEF Running
<1>9. CASE StepReverts
  <2>1. PICK id \in pendingDMail :
          Await(<<CallRevert(id), Call("checkpoint"), CallAppend(<<UserMessage>>)>>)
    BY <1>9 DEF StepReverts
  <2>2. id \in Nat
    BY <1>1
  <2>3. CallRevert(id) \in Op /\ CallRevert(id).name = "revert"
    BY <2>2, OpTypes
  <2>4. Calm(<<CallRevert(id), Call("checkpoint"), CallAppend(<<UserMessage>>)>>)
    BY <1>2, <2>3 DEF Calm
  <2>5. UNCHANGED contextRest
    BY <1>9 DEF StepReverts
  <2>6. Shape' /\ IdsBelow'
    BY <1>1, <2>1, <2>4, <2>5, CalmAwait
  <2>7. LoopTypeOK' /\ pc' # "down"
    BY <1>1, <1>9 DEF StepReverts
  <2> QED BY <2>6, <2>7 DEF Running
<1>10. CASE ConsumeSteer
  <2>1. Head(steers) \in Message /\ Tail(steers) \in Seq(Message)
    BY <1>1, <1>10, HeadTailProperties DEF ConsumeSteer
  <2>2. <<Head(steers)>> \in Seq(Message)
    BY <2>1
  <2>3. /\ CallAppend(<<Head(steers)>>) \in Op
        /\ CallAppend(<<Head(steers)>>).name = "append"
    BY <2>2, OpTypes
  <2>4. Calm(<<CallAppend(<<Head(steers)>>)>>)
    BY <2>3, CalmOne
  <2>5. Shape' /\ IdsBelow'
    BY <1>1, <1>10, <2>4, CalmAwait DEF ConsumeSteer
  <2>6. LoopTypeOK' /\ pc' # "down"
    BY <1>1, <1>10, <2>1 DEF ConsumeSteer
  <2> QED BY <2>5, <2>6 DEF Running
<1>11. CASE StopHookTurn
  <2>1. Shape' /\ IdsBelow'
    BY <1>1, <1>11, CalmTurnOps, CalmAwait DEF StopHookTurn
  <2>2. LoopTypeOK' /\ pc' # "down"
    BY <1>1, <1>11 DEF StopHookTurn
  <2> QED BY <2>1, <2>2 DEF Running
<1> QED BY <1>3, <1>4, <1>5, <1>6, <1>7, <1>8, <1>9, <1>10, <1>11

\* A D-Mail touches neither the context nor its ids.
LEMMA SendDMailKeeps ==
  ASSUME Running, NEW id \in 0 .. nCheckpoints, SendDMail(id)
  PROVE  Running'
<1>1. /\ LoopTypeOK /\ Shape /\ IdsBelow /\ pc # "down"
      /\ nCheckpoints \in Nat /\ id \in Nat
  BY DEF Running, LoopTypeOK
<1>2. UNCHANGED contextVars
  BY DEF SendDMail
<1>3. dmailCalls' \in Nat /\ pendingDMail' \in SUBSET Nat
  BY <1>1 DEF SendDMail, LoopTypeOK
<1>4. LoopTypeOK' /\ pc' # "down"
  BY <1>1, <1>3 DEF SendDMail, LoopTypeOK, bounds
<1> QED BY <1>1, <1>2, <1>4, ContextStays DEF Running

\* The growth starts with appends and usage only.
LEMMA GrowStepKeeps ==
  ASSUME Running, Grow
  PROVE  Running'
<1>1. /\ LoopTypeOK /\ Shape /\ IdsBelow /\ pc # "down"
      /\ calls \in Nat /\ sent \in Seq(Message) /\ usage \in BOOLEAN
  BY DEF Running, LoopTypeOK
<1>2. <<AssistantMessage>> \in Seq(Message) /\ ToolMessages \in Seq(Message)
  <2>1. AssistantMessage \in Message
    BY <1>1 DEF AssistantMessage, Message, MessageRole
  <2>2. [role |-> "tool", n |-> 0] \in Message
    BY DEF Message, MessageRole
  <2>3. ToolMessages \in [1 .. calls -> Message]
    BY <2>2 DEF ToolMessages
  <2> QED BY <1>1, <2>1, <2>3, FunctionIsSeq
<1>3. /\ CallAppend(<<AssistantMessage>>) \in Op
      /\ CallAppend(<<AssistantMessage>>).name = "append"
      /\ CallAppend(ToolMessages) \in Op
      /\ CallAppend(ToolMessages).name = "append"
      /\ CallUsage(Len(sent) + 1) \in Op
      /\ CallUsage(Len(sent) + 1).name = "usage"
  <2>1. Len(sent) + 1 \in Nat
    BY <1>1, LenProperties
  <2> QED BY <1>2, <2>1, OpTypes
<1>4. GrowOps \in Seq(Op)
      /\ \A i \in DOMAIN GrowOps : GrowOps[i].name \in {"append", "usage"}
  <2> DEFINE names == {"append", "usage"}
  <2>1. Only(<<CallAppend(<<AssistantMessage>>)>>, names)
    BY <1>3 DEF Only
  <2>2. Only(IF usage THEN <<CallUsage(Len(sent) + 1)>> ELSE <<>>, names)
    BY <1>3 DEF Only
  <2>3. Only(<<CallAppend(ToolMessages)>>, names)
    BY <1>3 DEF Only
  <2>4. Only(GrowOps, names)
    BY <2>1, <2>2, <2>3, OnlyConcat DEF GrowOps
  <2> QED BY <2>4 DEF Only
<1>5. Shape' /\ IdsBelow'
  BY <1>1, <1>4, GrowKeeps DEF Grow
<1>6. LoopTypeOK' /\ pc' # "down"
  BY <1>1 DEF Grow, LoopTypeOK, PC, Goto, dmailVars, bounds
<1> QED BY <1>5, <1>6 DEF Running

\* Every handler of the run keeps the invariant.
LEMMA RunStepKeeps ==
  ASSUME Running, RunStep
  PROVE  Running'
BY ControlKeeps, AwaitingKeeps, SendDMailKeeps, GrowStepKeeps DEF RunStep

\* So does every context operation, wherever the run stands.
LEMMA ContextNextKeeps ==
  ASSUME LoopTypeOK, Shape, IdsBelow, NEW t \in Task, ContextNext(t)
  PROVE  LoopTypeOK' /\ Shape' /\ IdsBelow' /\ pc' = pc
<1>1. Shape' /\ IdsBelow'
  BY ContextStepKeeps DEF ContextNext
<1>2. LoopTypeOK' /\ pc' = pc
  BY DEF ContextNext, LoopTypeOK, stepVars, dmailVars, bounds
<1> QED BY <1>1, <1>2

\* A task that has nothing under way takes no context step.
LEMMA IdleRests ==
  ASSUME NEW t \in Task, todo[t] = <<>>, writing[t] = <<>>
  PROVE  ~ContextStep(t)
BY DEF ContextStep, Checkpoint, AppendMessage, UpdateTokenCount, Write, ClearRotate,
       ClearReset, WriteSystemPrompt, RevertRotate, RevertReplay, About

\* So does a cancelled run, whose growth goes on.
LEMMA CancelKeeps ==
  ASSUME Running, Cancel
  PROVE  Running'
<1>1. LoopTypeOK /\ Shape /\ IdsBelow /\ pc # "down"
  BY DEF Running
<1>2. Shape' /\ IdsBelow'
  BY <1>1, InterruptKeeps DEF Cancel
<1>3. <<>> \in Seq(Message)
  OBVIOUS
<1>4. /\ cancels' \in Nat /\ turns' \in Nat /\ steerCount' \in Nat
      /\ notes' \in Nat /\ crashes' \in Nat
  BY <1>1 DEF Cancel, LoopTypeOK
<1>5. /\ steers' \in Seq(Message) /\ pendingDMail' \in SUBSET Nat
      /\ nCheckpoints' \in Nat
  BY <1>1 DEF Cancel, LoopTypeOK, dmailVars
<1>6. /\ pc' = "idle" /\ attempts' = 0 /\ sent' = <<>> /\ calls' = 0
      /\ dmailCalls' = 0 /\ usage' = FALSE /\ rejected' = FALSE
      /\ stepNo' = 0 /\ steered' = FALSE /\ stopHook' = FALSE
  BY DEF Cancel, Finish, Goto, ForgetStep
<1>7. LoopTypeOK' /\ pc' # "down"
  BY <1>3, <1>4, <1>5, <1>6 DEF LoopTypeOK, PC
<1> QED BY <1>2, <1>7 DEF Running

-----------------------------------------------------------------------------
\* A process that is down runs nothing.
LEMMA DownRests ==
  ASSUME pc = "down"
  PROVE  ~(Prompt \/ RunStep \/ Steer \/ Cancel)
BY DEF Prompt, Steer, Cancel, RunStep, At, Grown, BeginTurn, BlockPrompt,
       ClearCommand, CompactCommand, CommandDone, EnterLoop, BeginStep,
       OutOfSteps, Compact, CompactFails, Checkpointed, Note, CallModel,
       StreamToolCall, SendDMail, ModelRetry, ModelFails, ModelAnswers, Grow,
       UnsupportedResult, StepRejected, StepReverts, Reverted,
       StepAssertionFails, StepContinues, ConsumeSteer, NextStep, StopTurn,
       StopHookTurn, EndRun

\* The invariant holds at first ...
LEMMA InitIInv == Init => IInv
<1> SUFFICES ASSUME Init PROVE IInv
  OBVIOUS
<1>1. ContextInit /\ pc = "idle"
  BY DEF Init
<1>2. Shape /\ IdsBelow
  BY <1>1, ContextInitKeeps
<1>3. <<>> \in Seq(Message)
  OBVIOUS
<1>4. LoopTypeOK
  BY <1>3 DEF Init, LoopTypeOK, PC
<1> QED BY <1>1, <1>2, <1>4 DEF IInv

\* ... and every step keeps it.
LEMMA NextIInv ==
  ASSUME IInv, [Next]_vars
  PROVE  IInv'
<1>1. LoopTypeOK /\ Shape
  BY DEF IInv
<1>2. CASE pc # "down" /\ (Prompt \/ RunStep \/ Steer \/ Cancel)
  <2>1. Running
    BY <1>1, <1>2 DEF IInv, Running
  <2>2. Running'
    BY <1>2, <2>1, ControlKeeps, RunStepKeeps, CancelKeeps
  <2> QED BY <2>2 DEF Running, IInv
<1>3. ASSUME pc = "down"
      PROVE  ~(Prompt \/ RunStep \/ Steer \/ Cancel)
  BY <1>3, DownRests
<1>4. ASSUME NEW t \in Task, ContextNext(t)
      PROVE  IInv'
  <2>1. pc # "down"
    BY <1>4, IdleRests DEF IInv, ContextNext
  <2>2. LoopTypeOK' /\ Shape' /\ IdsBelow' /\ pc' = pc
    BY <1>1, <1>4, <2>1, ContextNextKeeps DEF IInv
  <2> QED BY <2>1, <2>2 DEF IInv
<1>5. CASE Crash
  <2>1. pc # "down" /\ IdsBelow /\ CrashContext
    BY <1>5 DEF Crash, IInv
  <2>2. Shape' /\ \A t \in Task : (todo[t] = <<>> /\ writing[t] = <<>>)'
    BY <1>1, <2>1, CrashKeeps
  <2>3. <<>> \in Seq(Message)
    OBVIOUS
  <2>4. /\ cancels' \in Nat /\ turns' \in Nat /\ steerCount' \in Nat
        /\ notes' \in Nat /\ crashes' \in Nat
    BY <1>1, <1>5 DEF Crash, LoopTypeOK
  <2>5. /\ pc' = "down" /\ attempts' = 0 /\ sent' = <<>> /\ calls' = 0
        /\ dmailCalls' = 0 /\ usage' = FALSE /\ rejected' = FALSE
        /\ stepNo' = 0 /\ steered' = FALSE /\ stopHook' = FALSE
        /\ steers' = <<>> /\ pendingDMail' = {} /\ nCheckpoints' = 0
    BY <1>5 DEF Crash, Goto, ForgetStep
  <2>6. LoopTypeOK' /\ pc' = "down"
    BY <2>3, <2>4, <2>5 DEF LoopTypeOK, PC
  <2> QED BY <2>2, <2>6 DEF IInv
<1>6. CASE Restart
  <2>1. \A t \in Task : todo[t] = <<>> /\ writing[t] = <<>>
    BY <1>6 DEF Restart, IInv
  <2>2. Shape' /\ IdsBelow'
    BY <1>1, <1>6, <2>1, RestoreKeeps DEF Restart
  <2>3. LoopTypeOK' /\ pc' = "idle"
    BY <1>1, <1>6 DEF Restart, Goto, LoopTypeOK, PC, stepVars, dmailVars, bounds
  <2> QED BY <2>2, <2>3 DEF IInv
<1>7. CASE UNCHANGED vars
  <2>1. UNCHANGED contextVars
    BY <1>7 DEF vars
  <2>2. Shape'
    BY <1>1, <2>1 DEF Shape, OpsKept, ContextTypeOK, Ordered, Fits, Below,
                      NoCheckpoint, contextVars
  <2>3. IdsBelow => IdsBelow'
    BY <1>1, <2>1, ContextStays
  <2>4. LoopTypeOK' /\ pc' = pc
    BY <1>1, <1>7 DEF vars, LoopTypeOK, stepVars, dmailVars, bounds
  <2> QED BY <2>1, <2>2, <2>3, <2>4 DEF IInv, contextVars
<1> QED BY <1>2, <1>3, <1>4, <1>5, <1>6, <1>7 DEF Next

\* The type invariant, for every value of the constants.
THEOREM TypeCorrect == Spec => []AgentTypeOK
<1>1. IInv => AgentTypeOK
  BY DEF IInv, AgentTypeOK, Shape
<1> QED BY <1>1, InitIInv, NextIInv, PTL DEF Spec

\* Checkpoint ids increase along the file and stay below the next id, whatever
\* the soul, the growth, cancellations, crashes and restarts do.
THEOREM IdsIncrease == Spec => []CheckpointIdsIncrease
<1>1. IInv => CheckpointIdsIncrease
  <2> SUFFICES ASSUME IInv, pc # "down", NEW i \in DOMAIN file, IsCheckpoint(file[i])
               PROVE  /\ file[i].n < nextCheckpointId
                      /\ \A j \in 1 .. i - 1 :
                           IsCheckpoint(file[j]) => file[j].n < file[i].n
    BY DEF CheckpointIdsIncrease
  <2>1. Ordered(file) /\ Below(file, nextCheckpointId)
    BY DEF IInv, Shape, IdsBelow
  <2> QED BY <2>1 DEF Ordered, Below
<1> QED BY <1>1, InitIInv, NextIInv, PTL DEF Spec
-----------------------------------------------------------------------------
(***************************************************************************)
(* Well-formed conversations.  A request that is not empty begins with a   *)
(* message of the user, so that a compaction, which keeps the first        *)
(* message, never separates a tool call from its results.                  *)
(***************************************************************************)
Whole(h) == ToolCallsAnswered(h) /\ (h # <<>> => h[1].role = "user")

FromUser(h) == \A i \in DOMAIN h : h[i].role = "user"

\* The number a message carries.
LEMMA MessageNumbers ==
  ASSUME NEW h \in Seq(Message), NEW i \in 1 .. Len(h)
  PROVE  h[i].n \in Nat
<1>1. h[i] \in Message
  BY ElementOfSeq
<1> QED BY <1>1 DEF Message

\* A conversation of whole pieces is whole.
LEMMA AnsweredConcat ==
  ASSUME NEW a \in Seq(Message), NEW b \in Seq(Message),
         ToolCallsAnswered(a), ToolCallsAnswered(b)
  PROVE  ToolCallsAnswered(a \o b)
<1> DEFINE c == a \o b
           n == Len(a)
           l == Len(b)
<1>1. /\ n \in Nat /\ DOMAIN a = 1 .. n /\ l \in Nat /\ DOMAIN b = 1 .. l
      /\ Len(c) = n + l /\ DOMAIN c = 1 .. n + l
      /\ \A i \in 1 .. n : c[i] = a[i]
      /\ \A i \in 1 .. l : c[n + i] = b[i]
  BY ConcatAt
<1>2. \A i \in 1 .. n : a[i].n \in Nat
  BY MessageNumbers
<1>3. \A i \in 1 .. l : b[i].n \in Nat
  BY MessageNumbers
<1> HIDE DEF c, n, l
<1>4. /\ \A i \in 1 .. n : a[i].role = "assistant" =>
           i + a[i].n <= n /\ \A j \in i + 1 .. i + a[i].n : a[j].role = "tool"
      /\ \A j \in 1 .. n : a[j].role = "tool" =>
           \E i \in 1 .. j - 1 : a[i].role = "assistant" /\ j <= i + a[i].n
  BY <1>1 DEF ToolCallsAnswered, n
<1>5. /\ \A i \in 1 .. l : b[i].role = "assistant" =>
           i + b[i].n <= l /\ \A j \in i + 1 .. i + b[i].n : b[j].role = "tool"
      /\ \A j \in 1 .. l : b[j].role = "tool" =>
           \E i \in 1 .. j - 1 : b[i].role = "assistant" /\ j <= i + b[i].n
  BY <1>1 DEF ToolCallsAnswered, l
<1>6. ASSUME NEW i \in DOMAIN c, c[i].role = "assistant"
      PROVE  i + c[i].n <= Len(c) /\ \A j \in i + 1 .. i + c[i].n : c[j].role = "tool"
  <2>1. CASE i <= n
    <3>1. i \in 1 .. n /\ c[i] = a[i]
      BY <1>1, <2>1
    <3>2. i + a[i].n <= n /\ \A j \in i + 1 .. i + a[i].n : a[j].role = "tool"
      BY <1>4, <1>6, <3>1
    <3>3. \A j \in i + 1 .. i + a[i].n : c[j].role = "tool"
      BY <1>1, <1>2, <3>1, <3>2
    <3> QED BY <1>1, <1>2, <3>1, <3>2, <3>3
  <2>2. CASE ~(i <= n)
    <3>1. PICK k \in 1 .. l : i = n + k
      <4>1. i - n \in 1 .. l /\ i = n + (i - n)
        BY <1>1, <2>2
      <4> QED BY <4>1
    <3>2. c[i] = b[k]
      BY <1>1, <3>1
    <3>3. k + b[k].n <= l /\ \A j \in k + 1 .. k + b[k].n : b[j].role = "tool"
      BY <1>5, <1>6, <3>2
    <3>4. ASSUME NEW j \in i + 1 .. i + b[k].n
          PROVE  c[j].role = "tool"
      <4>1. j - n \in k + 1 .. k + b[k].n /\ j - n \in 1 .. l /\ j = n + (j - n)
        BY <1>1, <1>3, <3>1, <3>3
      <4> QED BY <1>1, <3>3, <4>1
    <3> QED BY <1>1, <1>3, <3>1, <3>2, <3>3, <3>4
  <2> QED BY <2>1, <2>2
<1>7. ASSUME NEW j \in DOMAIN c, c[j].role = "tool"
      PROVE  \E i \in 1 .. j - 1 : c[i].role = "assistant" /\ j <= i + c[i].n
  <2>1. CASE j <= n
    <3>1. j \in 1 .. n /\ c[j] = a[j]
      BY <1>1, <2>1
    <3>2. PICK i \in 1 .. j - 1 : a[i].role = "assistant" /\ j <= i + a[i].n
      BY <1>4, <1>7, <3>1
    <3>3. c[i] = a[i]
      BY <1>1, <3>1
    <3> QED BY <3>2, <3>3
  <2>2. CASE ~(j <= n)
    <3>1. PICK k \in 1 .. l : j = n + k
      <4>1. j - n \in 1 .. l /\ j = n + (j - n)
        BY <1>1, <2>2
      <4> QED BY <4>1
    <3>2. c[j] = b[k]
      BY <1>1, <3>1
    <3>3. PICK i \in 1 .. k - 1 : b[i].role = "assistant" /\ k <= i + b[i].n
      BY <1>5, <1>7, <3>2
    <3>4. i \in 1 .. l /\ c[n + i] = b[i]
      BY <1>1, <3>1
    <3>5. n + i \in 1 .. j - 1 /\ j <= (n + i) + b[i].n
      BY <1>1, <1>3, <3>1, <3>3, <3>4
    <3> QED BY <3>3, <3>4, <3>5
  <2> QED BY <2>1, <2>2
<1> QED BY <1>6, <1>7 DEF ToolCallsAnswered, c

\* Messages of the user ask for no answer.
LEMMA AnsweredUsers ==
  ASSUME NEW h, FromUser(h)
  PROVE  ToolCallsAnswered(h)
BY DEF FromUser, ToolCallsAnswered

\* What a growth adds: the answer of the model and the results of its tools.
LEMMA AnsweredGrowth ==
  ASSUME calls \in Nat
  PROVE  /\ <<AssistantMessage>> \in Seq(Message) /\ ToolMessages \in Seq(Message)
         /\ Len(<<AssistantMessage>>) = 1
         /\ ToolCallsAnswered(<<AssistantMessage>> \o ToolMessages)
<1> DEFINE a == <<AssistantMessage>>
           b == ToolMessages
           c == a \o b
<1>1. AssistantMessage \in Message /\ [role |-> "tool", n |-> 0] \in Message
  BY DEF AssistantMessage, Message, MessageRole
<1>2. b \in [1 .. calls -> Message]
  BY <1>1 DEF ToolMessages
<1>3. a \in Seq(Message) /\ b \in Seq(Message)
  BY <1>1, <1>2, FunctionIsSeq
<1>4. Len(a) = 1 /\ a[1].role = "assistant" /\ a[1].n = calls
  BY DEF AssistantMessage
<1>5. \A i \in 1 .. calls : b[i].role = "tool"
  BY DEF ToolMessages
<1>6. Len(b) = calls
  <2>1. DOMAIN b = 1 .. calls
    BY <1>2
  <2> QED BY <1>3, <2>1, LenProperties
<1> HIDE DEF a, b
<1>7. /\ Len(c) = Len(a) + Len(b) /\ DOMAIN c = 1 .. Len(a) + Len(b)
      /\ \A i \in 1 .. Len(a) : c[i] = a[i]
      /\ \A i \in 1 .. Len(b) : c[Len(a) + i] = b[i]
  BY <1>3, ConcatAt
<1>8. DOMAIN c = 1 .. 1 + calls /\ Len(c) = 1 + calls /\ c[1] = a[1]
  BY <1>4, <1>6, <1>7
<1>9. \A i \in 2 .. 1 + calls : c[i].role = "tool"
  <2> SUFFICES ASSUME NEW i \in 2 .. 1 + calls PROVE c[i].role = "tool"
    OBVIOUS
  <2>1. i - 1 \in 1 .. calls /\ i = 1 + (i - 1)
    OBVIOUS
  <2>2. c[Len(a) + (i - 1)] = b[i - 1]
    BY <1>6, <1>7, <2>1
  <2> QED BY <1>4, <1>5, <2>1, <2>2
<1> HIDE DEF c
<1>10. ToolCallsAnswered(c)
  <2>1. \A i \in DOMAIN c : c[i].role = "assistant" => i = 1
    <3> SUFFICES ASSUME NEW i \in DOMAIN c, c[i].role = "assistant", i # 1 PROVE FALSE
      OBVIOUS
    <3>1. i \in 2 .. 1 + calls
      BY <1>8
    <3> QED BY <1>9, <3>1
  <2>2. /\ 1 + c[1].n <= Len(c)
        /\ \A j \in 1 + 1 .. 1 + c[1].n : c[j].role = "tool"
    BY <1>4, <1>8, <1>9
  <2>3. ASSUME NEW j \in DOMAIN c, c[j].role = "tool"
        PROVE  \E i \in 1 .. j - 1 : c[i].role = "assistant" /\ j <= i + c[i].n
    <3>1. j # 1
      BY <1>4, <1>8, <2>3
    <3>2. 1 \in 1 .. j - 1 /\ j <= 1 + c[1].n
      BY <1>4, <1>8, <3>1
    <3> QED BY <1>4, <1>8, <3>2
  <2> QED BY <2>1, <2>2, <2>3 DEF ToolCallsAnswered
<1> QED BY <1>3, <1>4, <1>10 DEF a, b, c

\* What follows a message that is no tool result needs nothing before it.
LEMMA AnsweredTail ==
  ASSUME NEW h \in Seq(Message), NEW start \in DOMAIN h, h[start].role # "tool",
         ToolCallsAnswered(h)
  PROVE  /\ SubSeq(h, start, Len(h)) \in Seq(Message)
         /\ SubSeq(h, start, Len(h)) # <<>>
         /\ ToolCallsAnswered(SubSeq(h, start, Len(h)))
<1> DEFINE t == SubSeq(h, start, Len(h))
           n == Len(h)
           l == n - start + 1
<1>1. /\ n \in Nat /\ DOMAIN h = 1 .. n /\ start \in 1 .. n
      /\ \A i \in 1 .. n : h[i] \in Message
  BY LenProperties, ElementOfSeq
<1>2. \A i \in 1 .. n : h[i].n \in Nat
  BY <1>1 DEF Message
<1>3. /\ t \in Seq(Message) /\ Len(t) = l
      /\ \A i \in 1 .. l : t[i] = h[start + i - 1]
  BY <1>1, SubSeqProperties
<1>4. l \in Nat /\ DOMAIN t = 1 .. l /\ l # 0 /\ start \in Nat /\ l = n - start + 1
  BY <1>1, <1>3, LenProperties
<1>5. t # <<>>
  BY <1>3, <1>4
<1>6. /\ \A i \in 1 .. n : h[i].role = "assistant" =>
           i + h[i].n <= n /\ \A j \in i + 1 .. i + h[i].n : h[j].role = "tool"
      /\ \A j \in 1 .. n : h[j].role = "tool" =>
           \E i \in 1 .. j - 1 : h[i].role = "assistant" /\ j <= i + h[i].n
  BY <1>1 DEF ToolCallsAnswered
<1> HIDE DEF t, n, l
<1>7. \A i \in 1 .. l : \E q \in 1 .. n :
        q = start + i - 1 /\ start <= q /\ t[i] = h[q] /\ h[q].n \in Nat
  <2> SUFFICES ASSUME NEW i \in 1 .. l
               PROVE  \E q \in 1 .. n : /\ q = start + i - 1 /\ start <= q
                                       /\ t[i] = h[q] /\ h[q].n \in Nat
    OBVIOUS
  <2>1. start + i - 1 \in 1 .. n /\ start <= start + i - 1
    BY <1>1, <1>4
  <2> QED BY <1>2, <1>3, <2>1
<1>8. \A q \in 1 .. n : start <= q =>
        \E i \in 1 .. l : q = start + i - 1 /\ t[i] = h[q] /\ h[q].n \in Nat
  <2> SUFFICES ASSUME NEW q \in 1 .. n, start <= q
               PROVE  \E i \in 1 .. l : q = start + i - 1 /\ t[i] = h[q] /\ h[q].n \in Nat
    OBVIOUS
  <2>1. q - start + 1 \in 1 .. l /\ q = start + (q - start + 1) - 1
    BY <1>1, <1>4
  <2> QED BY <1>2, <1>3, <2>1
<1>9. ASSUME NEW i \in 1 .. l, t[i].role = "assistant"
      PROVE  i + t[i].n <= l /\ \A j \in i + 1 .. i + t[i].n : t[j].role = "tool"
  <2>1. PICK p \in 1 .. n :
          p = start + i - 1 /\ start <= p /\ t[i] = h[p] /\ h[p].n \in Nat
    BY <1>7
  <2>2. PICK m \in Nat : m = h[p].n
    BY <2>1
  <2>3. p + m <= n /\ \A j \in p + 1 .. p + m : h[j].role = "tool"
    BY <1>6, <1>9, <2>1, <2>2
  <2>4. i \in Nat /\ n \in Nat /\ start \in Nat /\ l \in Nat /\ p = start + i - 1
    BY <1>1, <1>4, <2>1
  <2>5. i + m <= l
    <3>1. start + i - 1 + m <= n
      BY <2>3, <2>4
    <3> QED BY <1>4, <2>4, <3>1
  <2>6. ASSUME NEW j \in i + 1 .. i + m
        PROVE  t[j].role = "tool"
    <3>1. j \in Nat /\ i + 1 <= j /\ j <= i + m
      BY <2>4, <2>6
    <3>2. j \in 1 .. l
      BY <2>4, <2>5, <3>1
    <3>3. PICK q \in 1 .. n : q = start + j - 1 /\ t[j] = h[q]
      BY <1>7, <3>2
    <3>4. p + 1 <= q /\ q <= p + m
      BY <2>4, <3>1, <3>3
    <3>5. q \in p + 1 .. p + m
      BY <3>3, <3>4
    <3> QED BY <2>3, <3>3, <3>5
  <2> QED BY <2>1, <2>2, <2>5, <2>6
<1>10. ASSUME NEW j \in 1 .. l, t[j].role = "tool"
      PROVE  \E i \in 1 .. j - 1 : t[i].role = "assistant" /\ j <= i + t[i].n
  <2>1. PICK q \in 1 .. n : q = start + j - 1 /\ start <= q /\ t[j] = h[q]
    BY <1>7
  <2>2. PICK p \in 1 .. q - 1 : h[p].role = "assistant" /\ q <= p + h[p].n
    BY <1>6, <1>10, <2>1
  <2>3. p \in 1 .. n /\ h[p].n \in Nat
    BY <1>1, <1>2, <2>1
  <2>4. PICK m \in Nat : m = h[p].n
    BY <2>3
  <2>5. q <= p + m /\ p \in Nat /\ p < q
    BY <2>2, <2>3, <2>4
  <2>6. start <= p
    <3> SUFFICES ASSUME ~(start <= p) PROVE FALSE
      OBVIOUS
    <3>1. start \in p + 1 .. p + m
      BY <1>4, <2>1, <2>5
    <3>2. h[start].role = "tool"
      BY <1>6, <2>2, <2>3, <2>4, <3>1
    <3> QED BY <3>2
  <2>7. PICK i \in 1 .. l : p = start + i - 1 /\ t[i] = h[p]
    BY <1>8, <2>3, <2>6
  <2>8. i \in Nat /\ j \in Nat /\ start \in Nat /\ q = start + j - 1
    BY <1>4, <2>1
  <2>9. i \in 1 .. j - 1
    BY <2>5, <2>7, <2>8
  <2>10. j <= i + m
    <3>1. start + j - 1 <= (start + i - 1) + m
      BY <2>5, <2>7, <2>8
    <3> QED BY <2>8, <3>1
  <2> QED BY <2>2, <2>4, <2>7, <2>9, <2>10
<1>11. ToolCallsAnswered(t)
  BY <1>3, <1>4, <1>9, <1>10 DEF ToolCallsAnswered
<1> QED BY <1>3, <1>5, <1>11 DEF t, n

\* The messages of both, and where they are.
LEMMA ConcatMessages ==
  ASSUME NEW a \in Seq(Message), NEW b \in Seq(Message)
  PROVE  /\ a \o b \in Seq(Message)
         /\ a # <<>> => a \o b # <<>> /\ (a \o b)[1] = a[1]
         /\ a = <<>> => a \o b = b
         /\ b # <<>> => a \o b # <<>>
         /\ b = <<>> => a \o b = a
         /\ \A c \in Seq(Message) : (a \o b) \o c = a \o (b \o c)
<1>1. /\ a \o b \in Seq(Message)
      /\ Len(a) \in Nat /\ Len(b) \in Nat
      /\ Len(a \o b) = Len(a) + Len(b)
      /\ \A i \in 1 .. Len(a) : (a \o b)[i] = a[i]
  BY ConcatAt
<1>2. /\ a # <<>> => Len(a) # 0
      /\ b # <<>> => Len(b) # 0
      /\ a \o b = <<>> => Len(a \o b) = 0
  BY EmptySeq
<1>3. /\ a = <<>> => a \o b = b
      /\ b = <<>> => a \o b = a
  BY ConcatEmptySeq
<1>4. \A c \in Seq(Message) : (a \o b) \o c = a \o (b \o c)
  <2> SUFFICES ASSUME NEW c \in Seq(Message) PROVE (a \o b) \o c = a \o (b \o c)
    OBVIOUS
  <2>1. a \in Seq(Line) /\ b \in Seq(Line) /\ c \in Seq(Line)
    BY NoWriteNoCheckpoint
  <2> QED BY <2>1, ConcatLines
<1> QED BY <1>1, <1>2, <1>3, <1>4

\* Messages of the user may come before and after a whole conversation.
LEMMA WholeUsers ==
  ASSUME NEW h \in Seq(Message), NEW u \in Seq(Message), Whole(h), FromUser(u)
  PROVE  Whole(h \o u) /\ Whole(u \o h)
<1>1. ToolCallsAnswered(h \o u) /\ ToolCallsAnswered(u \o h)
  BY AnsweredConcat, AnsweredUsers DEF Whole
<1>2. u # <<>> => u[1].role = "user"
  <2> SUFFICES ASSUME u # <<>> PROVE u[1].role = "user"
    OBVIOUS
  <2>1. 1 \in DOMAIN u
    BY EmptySeq, LenProperties
  <2> QED BY <2>1 DEF FromUser
<1>3. h # <<>> => h[1].role = "user"
  BY DEF Whole
<1>4. h \o u # <<>> => (h \o u)[1].role = "user"
  BY <1>2, <1>3, ConcatMessages
<1>5. u \o h # <<>> => (u \o h)[1].role = "user"
  BY <1>2, <1>3, ConcatMessages
<1> QED BY <1>1, <1>4, <1>5 DEF Whole

\* A compaction keeps a conversation whole.
LEMMA WholeCompacted ==
  ASSUME NEW h \in Seq(Message), Whole(h)
  PROVE  Whole(Compacted(h))
<1>1. CASE Cardinality({j \in DOMAIN h : Speaks(h[j])}) < PreserveDepth
  BY <1>1 DEF Compacted
<1>2. CASE ~(Cardinality({j \in DOMAIN h : Speaks(h[j])}) < PreserveDepth)
  <2> DEFINE start == PreserveStart(h)
             kept == SubSeq(h, start, Len(h))
  <2>1. start \in DOMAIN h /\ Speaks(h[start])
    BY <1>2, PreserveStartExists
  <2>2. h[start].role # "tool"
    BY <2>1 DEF Speaks
  <2>3. kept \in Seq(Message) /\ ToolCallsAnswered(kept)
    BY <2>1, <2>2, AnsweredTail DEF Whole
  <2>4. Compacted(h) = CASE start = 1 -> h
                         [] start = 2 -> <<h[1]>> \o kept
                         [] OTHER     -> <<UserMessage, h[1]>> \o kept
    BY <1>2 DEF Compacted
  <2> HIDE DEF start, kept
  <2>5. Len(h) \in Nat /\ DOMAIN h = 1 .. Len(h) /\ 1 \in DOMAIN h
    BY <2>1, LenProperties
  <2>6. h[1] \in Message /\ UserMessage \in Message /\ UserMessage.role = "user"
    BY <2>5, ElementOfSeq, CallTypes DEF UserMessage
  <2>7. h[1].role = "user"
    <3>1. h # <<>>
      BY <2>5
    <3> QED BY <3>1 DEF Whole
  <2>8. ASSUME NEW u \in Seq(Message), FromUser(u), u # <<>>, u[1].role = "user"
        PROVE  Whole(u \o kept)
    <3>1. ToolCallsAnswered(u \o kept)
      BY <2>3, <2>8, AnsweredConcat, AnsweredUsers
    <3>2. (u \o kept)[1] = u[1]
      BY <2>3, <2>8, ConcatMessages
    <3> QED BY <2>8, <3>1, <3>2 DEF Whole
  <2>9. Whole(<<h[1]>> \o kept)
    <3>1. /\ <<h[1]>> \in Seq(Message) /\ <<h[1]>> # <<>>
          /\ <<h[1]>>[1].role = "user" /\ FromUser(<<h[1]>>)
      BY <2>6, <2>7 DEF FromUser
    <3> QED BY <2>8, <3>1
  <2>10. Whole(<<UserMessage, h[1]>> \o kept)
    <3>1. /\ <<UserMessage, h[1]>> \in Seq(Message) /\ <<UserMessage, h[1]>> # <<>>
          /\ <<UserMessage, h[1]>>[1].role = "user" /\ FromUser(<<UserMessage, h[1]>>)
      BY <2>6, <2>7 DEF FromUser
    <3> QED BY <2>8, <3>1
  <2> QED BY <2>4, <2>9, <2>10
<1> QED BY <1>1, <1>2

\* A compaction loses no conversation altogether.
LEMMA CompactedRemains ==
  ASSUME NEW h \in Seq(Message), h # <<>>
  PROVE  Compacted(h) # <<>>
<1>1. CASE Cardinality({j \in DOMAIN h : Speaks(h[j])}) < PreserveDepth
  BY <1>1 DEF Compacted
<1>2. CASE ~(Cardinality({j \in DOMAIN h : Speaks(h[j])}) < PreserveDepth)
  <2> DEFINE start == PreserveStart(h)
             kept == SubSeq(h, start, Len(h))
  <2>1. start \in DOMAIN h
    BY <1>2, PreserveStartExists
  <2>2. Len(h) \in Nat /\ DOMAIN h = 1 .. Len(h)
    BY LenProperties
  <2>3. h[1] \in Message /\ UserMessage \in Message
    BY <2>1, <2>2, ElementOfSeq, CallTypes
  <2>4. kept \in Seq(Message)
    BY <2>1, <2>2, ElementOfSeq, SubSeqProperties
  <2>5. Compacted(h) = CASE start = 1 -> h
                         [] start = 2 -> <<h[1]>> \o kept
                         [] OTHER     -> <<UserMessage, h[1]>> \o kept
    BY <1>2 DEF Compacted
  <2> HIDE DEF start, kept
  <2>6. /\ <<h[1]>> \in Seq(Message) /\ <<h[1]>> # <<>>
        /\ <<UserMessage, h[1]>> \in Seq(Message) /\ <<UserMessage, h[1]>> # <<>>
    BY <2>3
  <2>7. <<h[1]>> \o kept # <<>> /\ <<UserMessage, h[1]>> \o kept # <<>>
    BY <2>4, <2>6, ConcatMessages
  <2> QED BY <2>5, <2>7
<1> QED BY <1>1, <1>2
-----------------------------------------------------------------------------
(***************************************************************************)
(* The histories a run may see: whole ones, until a crash has cut the      *)
(* file; and the ones the operations under way lead to, which are not      *)
(* empty inside a turn.                                                    *)
(***************************************************************************)
GoodHistories == IF crashes = 0 THEN {h \in Seq(Message) : Whole(h)} ELSE Seq(Message)

InLoop ==
  \/ pc \in {"turn", "loop", "checkpoint", "step", "llm", "tools", "grow", "future",
             "between", "stop"}
  \/ pc = "compact" /\ stepNo # 0

EndHistories == IF InLoop THEN GoodHistories \ {<<>>} ELSE GoodHistories

\* A new conversation is good.
LEMMA GoodTypes ==
  /\ GoodHistories \subseteq Seq(Message)
  /\ <<>> \in GoodHistories
  /\ EndHistories \subseteq GoodHistories
  /\ \A h \in GoodHistories : h # <<>> => h \in EndHistories
<1>1. <<>> \in Seq(Message) /\ Whole(<<>>)
  BY DEF Whole, ToolCallsAnswered
<1> QED BY <1>1 DEF GoodHistories, EndHistories

\* So it is with messages of the user around it ...
LEMMA GoodUsers ==
  ASSUME NEW h \in GoodHistories, NEW u \in Seq(Message), FromUser(u)
  PROVE  h \o u \in GoodHistories /\ u \o h \in GoodHistories
<1>1. h \in Seq(Message) /\ h \o u \in Seq(Message) /\ u \o h \in Seq(Message)
  BY GoodTypes, ConcatMessages
<1>2. CASE crashes = 0
  <2>1. Whole(h \o u) /\ Whole(u \o h)
    BY <1>1, <1>2, WholeUsers DEF GoodHistories
  <2> QED BY <1>1, <1>2, <2>1 DEF GoodHistories
<1>3. CASE crashes # 0
  BY <1>1, <1>3 DEF GoodHistories
<1> QED BY <1>2, <1>3

\* ... with the answer of the model and the results of its tools ...
LEMMA GoodGrowth ==
  ASSUME calls \in Nat, NEW h \in GoodHistories, h # <<>>
  PROVE  /\ h \o <<AssistantMessage>> \in Seq(Message)
         /\ Len(h \o <<AssistantMessage>>) = Len(h) + 1
         /\ (h \o <<AssistantMessage>>) \o ToolMessages \in GoodHistories
         /\ (h \o <<AssistantMessage>>) \o ToolMessages # <<>>
<1> DEFINE a == <<AssistantMessage>>
           b == ToolMessages
<1>1. /\ a \in Seq(Message) /\ b \in Seq(Message) /\ Len(a) = 1
      /\ ToolCallsAnswered(a \o b)
  BY AnsweredGrowth
<1>2. h \in Seq(Message)
  BY DEF GoodHistories
<1> HIDE DEF a, b
<1>3. h \o a \in Seq(Message) /\ Len(h \o a) = Len(h) + Len(a) /\ a \o b \in Seq(Message)
  BY <1>1, <1>2, ConcatAt
<1>4. (h \o a) \o b = h \o (a \o b)
  BY <1>1, <1>2, ConcatMessages
<1>5. /\ h \o (a \o b) \in Seq(Message) /\ h \o (a \o b) # <<>>
      /\ (h \o (a \o b))[1] = h[1]
  BY <1>2, <1>3, ConcatMessages
<1>6. h \o (a \o b) \in GoodHistories
  <2>1. CASE crashes = 0
    <3>1. Whole(h)
      BY <2>1 DEF GoodHistories
    <3>2. ToolCallsAnswered(h \o (a \o b))
      BY <1>1, <1>2, <1>3, <3>1, AnsweredConcat DEF Whole
    <3>3. Whole(h \o (a \o b))
      BY <1>5, <3>1, <3>2 DEF Whole
    <3> QED BY <1>5, <2>1, <3>3 DEF GoodHistories
  <2>2. CASE crashes # 0
    BY <1>5, <2>2 DEF GoodHistories
  <2> QED BY <2>1, <2>2
<1> QED BY <1>1, <1>3, <1>4, <1>5, <1>6 DEF a, b

\* ... and compacted.
LEMMA GoodCompacted ==
  ASSUME NEW h \in GoodHistories
  PROVE  /\ Compacted(h) \in GoodHistories
         /\ h # <<>> => Compacted(h) # <<>>
<1>1. h \in Seq(Message) /\ Compacted(h) \in Seq(Message)
  BY GoodTypes, CompactedType
<1>2. h # <<>> => Compacted(h) # <<>>
  BY <1>1, CompactedRemains
<1>3. CASE crashes = 0
  <2>1. Whole(Compacted(h))
    BY <1>1, <1>3, WholeCompacted DEF GoodHistories
  <2> QED BY <1>1, <1>2, <1>3, <2>1 DEF GoodHistories
<1>4. CASE crashes # 0
  BY <1>1, <1>2, <1>4 DEF GoodHistories
<1> QED BY <1>3, <1>4

\* One message of the user more is always a history to go on from.
LEMMA GoodNext ==
  ASSUME NEW h \in GoodHistories, NEW m \in Message, m.role = "user"
  PROVE  <<m>> \in Seq(Message) /\ h \o <<m>> \in GoodHistories \ {<<>>}
<1>1. <<m>> \in Seq(Message) /\ FromUser(<<m>>) /\ <<m>> # <<>>
  BY DEF FromUser
<1>2. h \in Seq(Message)
  BY GoodTypes
<1> HIDE DEF FromUser
<1>3. h \o <<m>> # <<>>
  BY <1>1, <1>2, ConcatMessages
<1> QED BY <1>1, <1>3, GoodUsers

\* What the context needs to know of the two sets.
LEMMA GoodClosed ==
  /\ Closed(GoodHistories, GoodHistories)
  /\ Closed(GoodHistories, GoodHistories \ {<<>>})
  /\ Closed(GoodHistories, EndHistories)
<1>1. UserMessage \in Message /\ UserMessage.role = "user"
  BY CallTypes DEF UserMessage
<1>2. \A h \in GoodHistories : h \o <<UserMessage>> \in GoodHistories \ {<<>>}
  BY <1>1, GoodNext
<1> QED BY <1>2, GoodTypes DEF Closed, EndHistories
-----------------------------------------------------------------------------
(***************************************************************************)
(* The run and its context while no run was cancelled.  A handler starts   *)
(* where the task at work has nothing left to do, and every operation it   *)
(* awaits leads to a history the next handler may use.                     *)
(***************************************************************************)
Active == IF pc = "grow" THEN "grow" ELSE "turn"

Going ==
  /\ Sound(Active, GoodHistories, EndHistories)
  /\ pc \in {"idle", "llm"} => Idle("turn")
  /\ pc \in {"llm", "tools"} => history = sent
  /\ pc \in {"llm", "tools"} =>
       \A i \in DOMAIN todo["turn"] : todo["turn"][i].name = "usage"
  /\ pc \in {"idle", "prepare"} => stepNo = 0

Orderly ==
  /\ FromUser(steers)
  /\ pc = "down" => crashes # 0 /\ stepNo = 0 /\ history = <<>>
  /\ cancels = 0 => sent \in GoodHistories
  /\ (cancels = 0 /\ pc # "down") => Going
  /\ (cancels = 0 /\ pc = "down") => Steady(file, Seq(Message)) /\ rotated = <<>>

\* The task at work is one of the two.
LEMMA ActiveType == Active \in Task
BY DEF Active, Task

\* What holds where a handler starts.
LEMMA AtRest ==
  ASSUME Running, Going, Idle("turn"), pc = "grow" => Idle("grow")
  PROVE  /\ Idle("grow") /\ Idle(Active) /\ Active \in Task
         /\ Kept(Active, GoodHistories)
         /\ history \in EndHistories /\ history \in GoodHistories
         /\ history \in Seq(Message)
         /\ InLoop => history # <<>>
<1>1. Active \in Task /\ Shape
  BY ActiveType DEF Running
<1>2. Kept(Active, GoodHistories) /\ Plan(Active, GoodHistories, EndHistories)
  BY DEF Going, Sound
<1>3. Idle("grow")
  <2>1. CASE pc = "grow"
    BY <2>1
  <2>2. CASE pc # "grow"
    BY <1>2, <2>2 DEF Kept, Alone, Active, Task
  <2> QED BY <2>1, <2>2
<1>4. Idle(Active)
  BY <1>3 DEF Active
<1>5. history \in EndHistories
  BY <1>1, <1>2, <1>4, RestsAtEnd
<1>6. history \in GoodHistories /\ history \in Seq(Message)
  BY <1>5, GoodTypes
<1>7. InLoop => history # <<>>
  BY <1>5 DEF EndHistories
<1> QED BY <1>1, <1>2, <1>3, <1>4, <1>5, <1>6, <1>7

\* A handler that leaves the context alone.
LEMMA QuietSound ==
  ASSUME Running, Going, Idle("turn"), pc = "grow" => Idle("grow"),
         UNCHANGED contextVars, crashes' = crashes, InLoop' => InLoop
  PROVE  Sound(Active, GoodHistories, EndHistories)'
<1>1. /\ Idle("grow") /\ Active \in Task /\ Shape
      /\ Kept(Active, GoodHistories)
      /\ history \in GoodHistories
      /\ InLoop => history # <<>>
  BY AtRest DEF Running
<1>2. PICK g : g = GoodHistories
  OBVIOUS
<1>3. g = GoodHistories'
  BY <1>2 DEF GoodHistories
<1>4. PICK e : e = EndHistories'
  OBVIOUS
<1>5. PICK t : t = Active'
  OBVIOUS
<1>6. t \in Task
  BY <1>5 DEF Active, Task
<1>7. history \in e
  BY <1>1, <1>2, <1>3, <1>4 DEF EndHistories
<1>8. Kept(Active, g)
  BY <1>1, <1>2
<1>9. Sound(t, g, e)'
  BY <1>1, <1>6, <1>7, <1>8, RestSound
<1> QED BY <1>3, <1>4, <1>5, <1>9

\* A handler that awaits operations of the soul's task.
LEMMA AwaitingSound ==
  ASSUME Running, Going, Idle("turn"), pc = "grow" => Idle("grow"),
         NEW ops, Plain(ops), Leads(ops, history, GoodHistories, EndHistories'),
         Await(ops), UNCHANGED contextRest, crashes' = crashes, pc' # "grow"
  PROVE  Sound(Active, GoodHistories, EndHistories)'
<1>1. /\ Idle("grow") /\ Active \in Task /\ Shape
      /\ Kept(Active, GoodHistories)
  BY AtRest DEF Running
<1>2. PICK g : g = GoodHistories
  OBVIOUS
<1>3. g = GoodHistories'
  BY <1>2 DEF GoodHistories
<1>4. PICK e : e = EndHistories'
  OBVIOUS
<1>5. Active' = "turn" /\ "turn" \in Task
  BY DEF Active, Task
<1>6. Kept(Active, g) /\ Leads(ops, history, g, e)
  BY <1>1, <1>2, <1>4
<1>7. todo' = [todo EXCEPT !["turn"] = ops] /\ UNCHANGED <<memory, file, rotated, writing>>
  BY DEF Await, contextRest
<1>8. Sound("turn", g, e)'
  BY <1>1, <1>5, <1>6, <1>7, AwaitSound
<1> QED BY <1>3, <1>4, <1>5, <1>8

\* What the handlers that leave the context alone have in common.
Quiet ==
  /\ UNCHANGED contextVars /\ crashes' = crashes /\ cancels' = cancels
  /\ steers' = steers \/ steers' = <<>>
  /\ pc' \in PC \ {"down", "tools"}
  /\ sent' = sent \/ sent' = <<>> \/ sent' = history
  /\ pc' = "llm" => sent' = history
  /\ cancels = 0 => (InLoop' => InLoop) /\ (pc' \in {"idle", "prepare"} => stepNo' = 0)
  /\ Idle("turn") \/ pc \in {"idle", "llm"}
  /\ pc = "grow" => Idle("grow")

\* They keep the conversation as it is.
LEMMA QuietKeeps ==
  ASSUME Running, Orderly, Quiet
  PROVE  Orderly'
<1>1. FromUser(steers)'
  BY DEF Orderly, Quiet, FromUser
<1>2. pc' # "down" /\ pc # "down"
  BY DEF Quiet, Running
<1>3. ASSUME cancels' = 0
      PROVE  (sent \in GoodHistories)' /\ Going'
  <2>1. cancels = 0 /\ Going /\ sent \in GoodHistories
    BY <1>2, <1>3 DEF Orderly, Quiet
  <2>2. /\ Idle("turn") /\ (pc = "grow" => Idle("grow"))
        /\ UNCHANGED contextVars /\ crashes' = crashes /\ (InLoop' => InLoop)
    BY <2>1 DEF Quiet, Going
  <2>3. Sound(Active, GoodHistories, EndHistories)'
    BY <2>1, <2>2, QuietSound
  <2>4. history \in GoodHistories
    BY <2>1, <2>2, AtRest
  <2>5. GoodHistories' = GoodHistories
    BY <2>2 DEF GoodHistories
  <2>6. sent' \in GoodHistories
    BY <2>1, <2>4, GoodTypes DEF Quiet
  <2>7. todo' = todo /\ writing' = writing /\ history' = history
    BY <2>2 DEF contextVars
  <2>8. Idle("turn")' /\ todo'["turn"] = <<>>
    BY <2>2, <2>7 DEF Idle
  <2>9. pc' \in {"llm", "tools"} => history' = sent'
    BY <2>7 DEF Quiet
  <2>10. \A i \in DOMAIN todo'["turn"] : todo'["turn"][i].name = "usage"
    BY <2>8
  <2>11. pc' \in {"idle", "prepare"} => stepNo' = 0
    BY <2>1 DEF Quiet
  <2> QED BY <2>3, <2>5, <2>6, <2>8, <2>9, <2>10, <2>11 DEF Going
<1> QED BY <1>1, <1>2, <1>3 DEF Orderly

\* Which they are.
LEMMA QuietSteps ==
  ASSUME Running, Orderly,
         \/ Prompt \/ BlockPrompt \/ CompactCommand \/ CommandDone
         \/ EnterLoop \/ OutOfSteps \/ CompactFails \/ Checkpointed
         \/ CallModel \/ ModelFails
         \/ UnsupportedResult \/ StepRejected \/ Reverted \/ StepAssertionFails
         \/ StepContinues \/ NextStep \/ StopTurn \/ EndRun
  PROVE  Quiet
<1>1. /\ cancels = 0 /\ pc \in {"idle", "prepare"} => stepNo = 0
      /\ pc \in PC /\ pc # "down"
  BY DEF Orderly, Going, Running, LoopTypeOK
<1> USE DEF Quiet, At, Goto, Finish, ForgetStep, stepVars, dmailVars, bounds, InLoop, PC
<1>2. CASE Prompt
  BY <1>1, <1>2 DEF Prompt
<1>3. CASE BlockPrompt
  BY <1>1, <1>3 DEF BlockPrompt
<1>4. CASE CompactCommand
  BY <1>1, <1>4 DEF CompactCommand
<1>5. CASE CommandDone
  BY <1>1, <1>5 DEF CommandDone
<1>6. CASE EnterLoop
  BY <1>1, <1>6 DEF EnterLoop
<1>7. CASE OutOfSteps
  BY <1>1, <1>7 DEF OutOfSteps
<1>8. CASE CompactFails
  BY <1>1, <1>8 DEF CompactFails
<1>9. CASE Checkpointed
  BY <1>1, <1>9 DEF Checkpointed
<1>10. CASE CallModel
  BY <1>1, <1>10 DEF CallModel
<1>11. CASE ModelFails
  BY <1>1, <1>11 DEF ModelFails
<1>12. CASE UnsupportedResult
  BY <1>1, <1>12 DEF UnsupportedResult
<1>13. CASE StepRejected
  BY <1>1, <1>13 DEF StepRejected, Grown
<1>14. CASE Reverted
  BY <1>1, <1>14 DEF Reverted
<1>15. CASE StepAssertionFails
  BY <1>1, <1>15 DEF StepAssertionFails, Grown
<1>16. CASE StepContinues
  BY <1>1, <1>16 DEF StepContinues, Grown
<1>17. CASE NextStep
  BY <1>1, <1>17 DEF NextStep
<1>18. CASE StopTurn
  BY <1>1, <1>18 DEF StopTurn
<1>19. CASE EndRun
  BY <1>1, <1>19 DEF EndRun
<1> QED BY <1>2, <1>3, <1>4, <1>5, <1>6, <1>7, <1>8, <1>9, <1>10, <1>11, <1>12, <1>13, <1>14, <1>15, <1>16, <1>17, <1>18, <1>19

\* Steps that change neither the context nor where the run stands.
LEMMA BusyKeeps ==
  ASSUME Running, Orderly,
         UNCHANGED <<contextVars, pc, stepNo, sent, cancels, crashes>>,
         FromUser(steers)'
  PROVE  Orderly'
<1>1. pc # "down" /\ pc' # "down"
  BY DEF Running
<1>2. ASSUME cancels' = 0
      PROVE  (sent \in GoodHistories)' /\ Going'
  <2>1. cancels = 0 /\ Going /\ sent \in GoodHistories
    BY <1>1, <1>2 DEF Orderly
  <2>2. UNCHANGED contextVars
    OBVIOUS
  <2>3. PICK g : g = GoodHistories
    OBVIOUS
  <2>4. PICK e : e = EndHistories
    OBVIOUS
  <2>5. PICK t : t = Active
    OBVIOUS
  <2>6. g = GoodHistories'
    BY <2>3 DEF GoodHistories
  <2>7. e = EndHistories'
    BY <2>3, <2>4, <2>6 DEF EndHistories, InLoop
  <2>8. t = Active'
    BY <2>5 DEF Active
  <2>9. Sound(t, g, e)
    BY <2>1, <2>3, <2>4, <2>5 DEF Going
  <2>10. Sound(t, g, e)'
    BY <2>2, <2>9, SoundStays
  <2>11. Sound(Active, GoodHistories, EndHistories)'
    BY <2>6, <2>7, <2>8, <2>10
  <2>12. /\ pc' \in {"idle", "llm"} => Idle("turn")'
         /\ pc' \in {"llm", "tools"} => history' = sent'
         /\ pc' \in {"llm", "tools"} =>
              \A i \in DOMAIN todo'["turn"] : todo'["turn"][i].name = "usage"
         /\ pc' \in {"idle", "prepare"} => stepNo' = 0
    BY <2>1 DEF Going, Idle, contextVars
  <2> QED BY <2>1, <2>3, <2>6, <2>11, <2>12 DEF Going
<1> QED BY <1>1, <1>2 DEF Orderly

\* A stream going on, a D-Mail and a steer are such steps.
LEMMA BusySteps ==
  ASSUME Running, Orderly,
         \/ StreamToolCall \/ ModelRetry \/ Steer
         \/ \E id \in 0 .. nCheckpoints : SendDMail(id)
  PROVE  Orderly'
<1>1. FromUser(steers)
  BY DEF Orderly
<1>2. CASE StreamToolCall
  <2>1. /\ UNCHANGED <<contextVars, pc, stepNo, sent, cancels, crashes>>
        /\ steers' = steers
    BY <1>2 DEF StreamToolCall, bounds
  <2> QED BY <1>1, <2>1, BusyKeeps DEF FromUser
<1>3. CASE ModelRetry
  <2>1. /\ UNCHANGED <<contextVars, pc, stepNo, sent, cancels, crashes>>
        /\ steers' = steers
    BY <1>3 DEF ModelRetry, bounds
  <2> QED BY <1>1, <2>1, BusyKeeps DEF FromUser
<1>4. CASE \E id \in 0 .. nCheckpoints : SendDMail(id)
  <2>1. /\ UNCHANGED <<contextVars, pc, stepNo, sent, cancels, crashes>>
        /\ steers' = steers
    BY <1>4 DEF SendDMail, bounds
  <2> QED BY <1>1, <2>1, BusyKeeps DEF FromUser
<1>5. CASE Steer
  <2>1. UNCHANGED <<contextVars, pc, stepNo, sent, cancels, crashes>>
    BY <1>5 DEF Steer, stepVars
  <2>2. PICK m : m = [role |-> "user", n |-> steerCount'] /\ steers' = Append(steers, m)
    BY <1>5 DEF Steer
  <2>3. steers \in Seq(Message) /\ steerCount' \in Nat
    BY <1>5 DEF Steer, Running, LoopTypeOK
  <2>4. m \in Message /\ m.role = "user"
    BY <2>2, <2>3 DEF Message, MessageRole
  <2>5. FromUser(steers)'
    <3>1. /\ Len(steers) \in Nat /\ DOMAIN steers = 1 .. Len(steers)
          /\ DOMAIN steers' = 1 .. Len(steers) + 1
          /\ \A i \in 1 .. Len(steers) : steers'[i] = steers[i]
          /\ steers'[Len(steers) + 1] = m
      BY <2>2, <2>3, <2>4, AppendProperties, LenProperties
    <3>2. ASSUME NEW i \in 1 .. Len(steers) + 1
          PROVE  steers'[i].role = "user"
      <4>1. CASE i \in 1 .. Len(steers)
        BY <1>1, <3>1, <4>1 DEF FromUser
      <4>2. CASE i \notin 1 .. Len(steers)
        <5>1. i = Len(steers) + 1
          BY <3>1, <4>2
        <5> QED BY <2>4, <3>1, <5>1
      <4> QED BY <4>1, <4>2
    <3> QED BY <3>1, <3>2 DEF FromUser
  <2> QED BY <2>1, <2>5, BusyKeeps
<1> QED BY <1>2, <1>3, <1>4, <1>5

(***************************************************************************)
(* Handlers that await operations: what they await, and where it leads.    *)
(***************************************************************************)
\* A list of one operation that needs no revert.
LEMMA PlainOne ==
  ASSUME NEW op \in Op, op.name \notin {"revert", "replay", "reset"}
  PROVE  Plain(<<op>>)
BY DEF Plain, RevertName

\* Concatenation keeps lists plain.
LEMMA PlainConcat ==
  ASSUME NEW p, NEW q, Plain(p), Plain(q)
  PROVE  Plain(p \o q)
<1> DEFINE names == OpName \ {"revert", "replay", "reset"}
<1>1. ASSUME NEW r
      PROVE  Plain(r) <=> Only(r, names)
  <2>1. ASSUME r \in Seq(Op), NEW i \in DOMAIN r
        PROVE  r[i].name \in OpName
    <3>1. r[i] \in Op
      BY <2>1, LenProperties, ElementOfSeq
    <3> QED BY <3>1 DEF Op
  <2> QED BY <2>1 DEF Plain, Only, RevertName
<1> HIDE DEF names
<1> QED BY <1>1, OnlyConcat

\* What such a handler has to leave in order.
LEMMA AwaitingKeepsOrder ==
  ASSUME Running, Orderly, Idle("turn"), pc = "grow" => Idle("grow"),
         pc \in PC \ {"idle", "llm", "tools"},
         pc' \in PC \ {"idle", "prepare", "llm", "tools", "grow", "down"},
         FromUser(steers)', sent' = sent \/ sent' = <<>>,
         crashes' = crashes, cancels' = cancels,
         UNCHANGED contextRest,
         cancels = 0 =>
           \E ops : /\ Plain(ops) /\ Await(ops)
                    /\ Leads(ops, history, GoodHistories, EndHistories')
  PROVE  Orderly'
<1>1. ASSUME cancels' = 0
      PROVE  (sent \in GoodHistories)' /\ Going'
  <2>1. cancels = 0 /\ Going /\ sent \in GoodHistories
    BY <1>1 DEF Orderly, Running
  <2>2. PICK ops : /\ Plain(ops) /\ Await(ops)
                   /\ Leads(ops, history, GoodHistories, EndHistories')
    BY <2>1
  <2>3. Sound(Active, GoodHistories, EndHistories)'
    BY <2>1, <2>2, AwaitingSound
  <2>4. GoodHistories' = GoodHistories
    BY DEF GoodHistories
  <2>5. sent' \in GoodHistories
    BY <2>1, GoodTypes
  <2> QED BY <2>3, <2>4, <2>5 DEF Going
<1> QED BY <1>1 DEF Orderly

\* A checkpoint leads from a good history to a good one, and to no empty one
\* unless it starts with one.
LEMMA CheckpointResult ==
  ASSUME NEW h \in GoodHistories
  PROVE  /\ Result(Call("checkpoint"), h) \in GoodHistories
         /\ h # <<>> => Result(Call("checkpoint"), h) # <<>>
<1>1. Result(Call("checkpoint"), h) = h \o (IF WithDMail THEN <<UserMessage>> ELSE <<>>)
  BY DEF Result, Call
<1>2. h \in Seq(Message)
  BY GoodTypes
<1>3. UserMessage \in Message /\ UserMessage.role = "user"
  BY CallTypes DEF UserMessage
<1>4. h \o <<UserMessage>> \in GoodHistories \ {<<>>}
  BY <1>3, GoodNext
<1>5. h \o <<>> = h
  BY <1>2, ConcatEmptySeq
<1> QED BY <1>1, <1>4, <1>5

\* An append of a message of the user leads to a history that is not empty.
LEMMA AppendLeads ==
  ASSUME NEW h \in GoodHistories, NEW m \in Message, m.role = "user"
  PROVE  /\ Plain(<<CallAppend(<<m>>)>>)
         /\ Leads(<<CallAppend(<<m>>)>>, h, GoodHistories, GoodHistories \ {<<>>})
<1>1. <<m>> \in Seq(Message) /\ h \o <<m>> \in GoodHistories \ {<<>>}
  BY GoodNext
<1>2. CallAppend(<<m>>) \in Op /\ CallAppend(<<m>>).name = "append"
  BY <1>1, OpTypes
<1>3. Plain(<<CallAppend(<<m>>)>>)
  BY <1>2, PlainOne
<1>4. Result(CallAppend(<<m>>), h) = h \o <<m>>
  BY DEF Result, CallAppend
<1>5. h \in Seq(Message)
  BY GoodTypes
<1>6. CallAppend(<<m>>).name # "usage"
  BY <1>2
<1> QED BY <1>1, <1>2, <1>3, <1>4, <1>5, <1>6, LeadsOne

\* So does the beginning of a turn.
LEMMA TurnLeads ==
  ASSUME NEW h \in GoodHistories
  PROVE  /\ Plain(TurnOps)
         /\ Leads(TurnOps, h, GoodHistories, GoodHistories \ {<<>>})
<1>1. TurnOps = Renewal
  BY DEF TurnOps, Renewal
<1>2. Plain(Renewal)
  BY RenewalOps DEF Plain
<1>3. Leads(Renewal, h, GoodHistories, GoodHistories \ {<<>>})
  BY GoodClosed, RenewalLeads
<1> QED BY <1>1, <1>2, <1>3

\* The checkpoint of a step.
LEMMA CheckpointLeads ==
  ASSUME NEW h \in GoodHistories, h # <<>>
  PROVE  /\ Plain(<<Call("checkpoint")>>)
         /\ Leads(<<Call("checkpoint")>>, h, GoodHistories, GoodHistories \ {<<>>})
<1>1. Call("checkpoint") \in Op /\ Call("checkpoint").name = "checkpoint"
  BY OpTypes
<1>2. Plain(<<Call("checkpoint")>>)
  BY <1>1, PlainOne
<1>3. Result(Call("checkpoint"), h) \in GoodHistories \ {<<>>}
  BY CheckpointResult
<1>4. h \in Seq(Message) /\ Call("checkpoint").name # "usage"
  BY <1>1, GoodTypes
<1> QED BY <1>1, <1>2, <1>3, <1>4, LeadsOne

\* A cleared conversation is empty.
LEMMA ClearLeads ==
  ASSUME NEW h \in GoodHistories
  PROVE  /\ Plain(<<Call("clear"), Call("system")>>)
         /\ Leads(<<Call("clear"), Call("system")>>, h, GoodHistories, GoodHistories)
<1>1. /\ Call("clear") \in Op /\ Call("clear").name = "clear"
      /\ Call("system") \in Op /\ Call("system").name = "system"
  BY OpTypes
<1>2. /\ Plain(<<Call("clear")>>) /\ Plain(<<Call("system")>>)
      /\ <<Call("clear")>> \o <<Call("system")>> = <<Call("clear"), Call("system")>>
  BY <1>1, PlainOne, PairOfOps
<1>3. Plain(<<Call("clear"), Call("system")>>)
  BY <1>2, PlainConcat
<1>4. Result(Call("clear"), h) = <<>> /\ Result(Call("system"), <<>>) = <<>>
  BY DEF Result, Call
<1>5. h \in Seq(Message) /\ <<>> \in Seq(Message) /\ <<>> \in GoodHistories
  BY GoodTypes
<1>6. Leads(<<Call("system")>>, <<>>, GoodHistories, GoodHistories)
  <2>1. Call("system").name # "usage"
    BY <1>1
  <2> QED BY <1>1, <1>4, <1>5, <2>1, LeadsOne
<1>7. Leads(<<Call("clear")>> \o <<Call("system")>>, h, GoodHistories, GoodHistories)
  <2>1. Call("clear").name # "usage" /\ <<Call("system")>> \in Seq(Op)
    BY <1>1
  <2> QED BY <1>1, <1>4, <1>5, <1>6, <2>1, LeadsFirst
<1> QED BY <1>2, <1>3, <1>7

\* The handlers that await these lists.
LEMMA AwaitSteps ==
  ASSUME Running, Orderly,
         \/ BeginTurn \/ ClearCommand \/ BeginStep \/ Note \/ ConsumeSteer
         \/ StopHookTurn
  PROVE  Orderly'
<1>1. /\ FromUser(steers) /\ pc \in PC /\ steers \in Seq(Message)
      /\ cancels = 0 => Going
  BY DEF Orderly, Running, LoopTypeOK
<1>2. ASSUME cancels = 0, Idle("turn"), pc = "grow" => Idle("grow")
      PROVE  history \in GoodHistories /\ (InLoop => history # <<>>)
  BY <1>1, <1>2, AtRest
<1>3. UserMessage \in Message /\ UserMessage.role = "user"
  BY CallTypes DEF UserMessage
<1> USE DEF At, Goto, stepVars, dmailVars, bounds, PC
<1>4. CASE BeginTurn \/ StopHookTurn
  <2>1. /\ Idle("turn") /\ pc \in {"prepare", "ended"} /\ pc' = "turn"
        /\ steers' = steers /\ sent' = sent /\ crashes' = crashes /\ cancels' = cancels
        /\ UNCHANGED contextRest /\ Await(TurnOps)
    BY <1>4 DEF BeginTurn, StopHookTurn
  <2>2. EndHistories' = GoodHistories \ {<<>>}
    BY <2>1 DEF EndHistories, InLoop, GoodHistories
  <2>3. cancels = 0 => Plain(TurnOps) /\ Leads(TurnOps, history, GoodHistories, EndHistories')
    BY <1>2, <2>1, <2>2, TurnLeads
  <2>4. FromUser(steers)'
    BY <1>1, <2>1 DEF FromUser
  <2> QED BY <2>1, <2>3, <2>4, AwaitingKeepsOrder
<1>5. CASE ClearCommand
  <2> DEFINE ops == <<Call("clear"), Call("system")>>
  <2>1. /\ Idle("turn") /\ pc = "prepare" /\ pc' = "command"
        /\ steers' = steers /\ sent' = sent /\ crashes' = crashes /\ cancels' = cancels
        /\ UNCHANGED contextRest /\ Await(ops)
    BY <1>5 DEF ClearCommand
  <2>2. EndHistories' = GoodHistories
    BY <2>1 DEF EndHistories, InLoop, GoodHistories
  <2>3. cancels = 0 => Plain(ops) /\ Leads(ops, history, GoodHistories, EndHistories')
    BY <1>2, <2>1, <2>2, ClearLeads
  <2>4. FromUser(steers)'
    BY <1>1, <2>1 DEF FromUser
  <2> QED BY <2>1, <2>3, <2>4, AwaitingKeepsOrder
<1>6. CASE BeginStep
  <2> DEFINE ops == <<Call("checkpoint")>>
  <2>1. /\ Idle("turn") /\ pc = "loop" /\ steers' = steers /\ sent' = sent
        /\ crashes' = crashes /\ cancels' = cancels /\ UNCHANGED contextRest
        /\ \/ pc' = "compact" /\ UNCHANGED todo
           \/ pc' = "checkpoint" /\ Await(ops)
    BY <1>6 DEF BeginStep
  <2>2. CASE pc' = "compact" /\ UNCHANGED todo
    <3>1. UNCHANGED contextVars
      BY <2>1, <2>2 DEF contextRest, contextVars, memory
    <3>2. Quiet
      BY <2>1, <2>2, <3>1 DEF Quiet, InLoop
    <3> QED BY <3>2, QuietKeeps
  <2>3. CASE pc' = "checkpoint" /\ Await(ops)
    <3>1. EndHistories' = GoodHistories \ {<<>>}
      BY <2>1, <2>3 DEF EndHistories, InLoop, GoodHistories
    <3>2. cancels = 0 => history \in GoodHistories /\ history # <<>>
      BY <1>2, <2>1 DEF InLoop
    <3>3. cancels = 0 => Plain(ops) /\ Leads(ops, history, GoodHistories, EndHistories')
      BY <3>1, <3>2, CheckpointLeads
    <3>4. FromUser(steers)'
      BY <1>1, <2>1 DEF FromUser
    <3> QED BY <2>1, <2>3, <3>3, <3>4, AwaitingKeepsOrder
  <2> QED BY <2>1, <2>2, <2>3
<1>7. CASE Note
  <2> DEFINE ops == <<CallAppend(<<UserMessage>>)>>
  <2>1. /\ Idle("turn") /\ pc = "step" /\ pc' = pc
        /\ steers' = steers /\ sent' = sent /\ crashes' = crashes /\ cancels' = cancels
        /\ UNCHANGED contextRest /\ Await(ops)
    BY <1>7 DEF Note
  <2>2. EndHistories' = GoodHistories \ {<<>>}
    BY <2>1 DEF EndHistories, InLoop, GoodHistories
  <2>3. cancels = 0 => Plain(ops) /\ Leads(ops, history, GoodHistories, EndHistories')
    BY <1>2, <1>3, <2>1, <2>2, AppendLeads
  <2>4. FromUser(steers)'
    BY <1>1, <2>1 DEF FromUser
  <2> QED BY <2>1, <2>3, <2>4, AwaitingKeepsOrder
<1>8. CASE ConsumeSteer
  <2> DEFINE ops == <<CallAppend(<<Head(steers)>>)>>
  <2>1. /\ Idle("turn") /\ pc \in {"between", "stop"} /\ pc' = pc /\ steers # <<>>
        /\ steers' = Tail(steers) /\ sent' = sent /\ crashes' = crashes
        /\ cancels' = cancels /\ UNCHANGED contextRest /\ Await(ops)
    BY <1>8 DEF ConsumeSteer
  <2>2. EndHistories' = GoodHistories \ {<<>>}
    BY <2>1 DEF EndHistories, InLoop, GoodHistories
  <2>3. /\ Head(steers) = steers[1] /\ Head(steers) \in Message /\ 1 \in DOMAIN steers
        /\ \A i \in DOMAIN Tail(steers) : i + 1 \in DOMAIN steers
                                          /\ Tail(steers)[i] = steers[i + 1]
    BY <1>1, <2>1, HeadTailProperties, LenProperties, EmptySeq
  <2>4. Head(steers).role = "user"
    BY <1>1, <2>3 DEF FromUser
  <2>5. FromUser(steers)'
    BY <1>1, <2>1, <2>3 DEF FromUser
  <2>6. cancels = 0 => Plain(ops) /\ Leads(ops, history, GoodHistories, EndHistories')
    BY <1>2, <2>1, <2>2, <2>3, <2>4, AppendLeads
  <2> QED BY <2>1, <2>5, <2>6, AwaitingKeepsOrder
<1> QED BY <1>4, <1>5, <1>6, <1>7, <1>8

\* The model answers: the reported usage covers what was sent.
LEMMA AnswerKeeps ==
  ASSUME Running, Orderly, ModelAnswers
  PROVE  Orderly'
<1>1. /\ pc = "llm" /\ pc' = "tools" /\ UNCHANGED contextRest
      /\ sent' = sent /\ steers' = steers /\ crashes' = crashes /\ cancels' = cancels
      /\ Await(<<CallUsage(Len(sent))>>) \/ UNCHANGED todo
  BY DEF ModelAnswers, Goto, bounds
<1>2. FromUser(steers)'
  BY <1>1 DEF Orderly, FromUser
<1>3. ASSUME cancels' = 0
      PROVE  (sent \in GoodHistories)' /\ Going'
  <2>1. cancels = 0 /\ Going /\ sent \in GoodHistories /\ Idle("turn") /\ history = sent
    BY <1>1, <1>3 DEF Orderly, Running, Going
  <2>2. GoodHistories' = GoodHistories
    BY <1>1 DEF GoodHistories
  <2>3. history' = sent'
    BY <1>1, <2>1 DEF contextRest, memory
  <2>4. CASE UNCHANGED todo
    <3>1. UNCHANGED contextVars
      BY <1>1, <2>4 DEF contextRest, contextVars, memory
    <3>2. InLoop' => InLoop
      BY <1>1 DEF InLoop
    <3>3. Sound(Active, GoodHistories, EndHistories)'
      BY <1>1, <2>1, <3>1, <3>2, QuietSound
    <3>4. todo'["turn"] = <<>>
      BY <2>1, <2>4 DEF Idle
    <3> QED BY <1>1, <2>1, <2>2, <2>3, <3>3, <3>4 DEF Going
  <2>5. CASE Await(<<CallUsage(Len(sent))>>)
    <3> DEFINE op == CallUsage(Len(sent))
    <3>1. sent \in Seq(Message) /\ Len(sent) \in Nat /\ Shape
      BY LenProperties DEF Running, LoopTypeOK
    <3>2. op \in Op /\ op.name = "usage" /\ op.n = Len(sent) /\ Result(op, sent) = sent
      BY <3>1, OpTypes DEF CallUsage, Result
    <3> HIDE DEF op
    <3>3. Plain(<<op>>)
      BY <3>2, PlainOne
    <3>4. EndHistories' = GoodHistories \ {<<>>}
      BY <1>1, <2>2 DEF EndHistories, InLoop
    <3>5. sent \in GoodHistories \ {<<>>}
      BY <1>1, <2>1, AtRest DEF InLoop
    <3>6. Len(sent) <= op.n + Slack
      BY <3>1, <3>2, SlackType
    <3>7. Leads(<<op>>, sent, GoodHistories, GoodHistories \ {<<>>})
      BY <3>1, <3>2, <3>5, <3>6, LeadsOne
    <3>8. Sound(Active, GoodHistories, EndHistories)'
      BY <1>1, <2>1, <2>5, <3>3, <3>4, <3>7, AwaitingSound DEF op
    <3>9. todo'["turn"] = <<op>>
      BY <2>5, <3>1 DEF Await, Shape, ContextTypeOK, Task, op
    <3>10. \A i \in DOMAIN todo'["turn"] : todo'["turn"][i].name = "usage"
      BY <3>2, <3>9
    <3> QED BY <1>1, <2>1, <2>2, <2>3, <3>8, <3>10 DEF Going
  <2> QED BY <1>1, <2>4, <2>5
<1> QED BY <1>1, <1>2, <1>3 DEF Orderly

\* A D-Mail sends the conversation back.
LEMMA RevertsKeep ==
  ASSUME Running, Orderly, StepReverts
  PROVE  Orderly'
<1>1. PICK id \in pendingDMail :
        /\ id < nextCheckpointId
        /\ Await(<<CallRevert(id), Call("checkpoint"), CallAppend(<<UserMessage>>)>>)
  BY DEF StepReverts
<1>2. /\ pc = "grow" /\ pc' = "future" /\ Idle("turn") /\ Idle("grow")
      /\ UNCHANGED contextRest
      /\ sent' = <<>> /\ steers' = steers /\ crashes' = crashes /\ cancels' = cancels
  BY DEF StepReverts, Grown, Goto, ForgetStep, bounds
<1>3. FromUser(steers)'
  BY <1>2 DEF Orderly, FromUser
<1>4. ASSUME cancels' = 0
      PROVE  (sent \in GoodHistories)' /\ Going'
  <2>1. cancels = 0 /\ Going
    BY <1>2, <1>4 DEF Orderly, Running
  <2>2. /\ id \in Nat /\ Shape /\ Active \in Task
        /\ Kept(Active, GoodHistories)
    BY <1>2, <2>1, AtRest DEF Running, LoopTypeOK
  <2>3. PICK g : g = GoodHistories
    OBVIOUS
  <2>4. g = GoodHistories'
    BY <1>2, <2>3 DEF GoodHistories
  <2>5. PICK e : e = EndHistories'
    OBVIOUS
  <2>6. /\ todo' = [todo EXCEPT !["turn"] =
                      <<CallRevert(id), Call("checkpoint"), CallAppend(<<UserMessage>>)>>]
        /\ UNCHANGED <<memory, file, rotated, writing>>
    BY <1>1, <1>2 DEF Await, contextRest
  <2>7. Kept(Active, g)
    BY <2>2, <2>3
  <2>8. Sound("turn", g, e)'
    BY <1>1, <1>2, <2>2, <2>6, <2>7, RevertSound
  <2>9. Active' = "turn"
    BY <1>2 DEF Active
  <2>10. Sound(Active, GoodHistories, EndHistories)'
    BY <2>4, <2>5, <2>8, <2>9
  <2>11. sent' \in GoodHistories'
    BY <1>2, <2>3, <2>4, GoodTypes
  <2> QED BY <1>2, <2>10, <2>11 DEF Going
<1> QED BY <1>2, <1>3, <1>4 DEF Orderly

\* The growth adds the answer, then the usage that covers it, then the results.
LEMMA GrowKeepsOrder ==
  ASSUME Running, Orderly, Grow
  PROVE  Orderly'
<1>1. /\ pc = "tools" /\ pc' = "grow" /\ Idle("turn") /\ Idle("grow")
      /\ todo' = [todo EXCEPT !["grow"] = GrowOps] /\ UNCHANGED contextRest
      /\ sent' = sent /\ steers' = steers /\ crashes' = crashes /\ cancels' = cancels
  BY DEF Grow, At, Goto, dmailVars, bounds
<1>2. FromUser(steers)'
  BY <1>1 DEF Orderly, FromUser
<1>3. /\ calls \in Nat /\ usage \in BOOLEAN /\ sent \in Seq(Message) /\ Shape
      /\ Len(sent) \in Nat
  BY LenProperties DEF Running, LoopTypeOK
<1>4. ASSUME cancels' = 0
      PROVE  (sent \in GoodHistories)' /\ Going'
  <2> DEFINE A == CallAppend(<<AssistantMessage>>)
             U == CallUsage(Len(sent) + 1)
             T == CallAppend(ToolMessages)
             h == sent \o <<AssistantMessage>>
             l == h \o ToolMessages
             M == Seq(Message)
             E == GoodHistories \ {<<>>}
  <2>1. cancels = 0 /\ Going /\ sent \in GoodHistories /\ history = sent
    BY <1>1, <1>4 DEF Orderly, Running, Going
  <2>2. /\ Active \in Task /\ Kept(Active, GoodHistories) /\ sent # <<>>
    BY <1>1, <2>1, AtRest DEF InLoop
  <2>3. /\ h \in Seq(Message) /\ Len(h) = Len(sent) + 1 /\ l \in E
        /\ <<AssistantMessage>> \in Seq(Message) /\ ToolMessages \in Seq(Message)
    BY <1>3, <2>1, <2>2, GoodGrowth, AnsweredGrowth
  <2>4. /\ A \in Op /\ A.name = "append" /\ T \in Op /\ T.name = "append"
        /\ U \in Op /\ U.name = "usage" /\ U.n = Len(sent) + 1
    <3>1. Len(sent) + 1 \in Nat
      BY <1>3
    <3>2. U.n = Len(sent) + 1
      BY DEF CallUsage
    <3> QED BY <2>3, <3>1, <3>2, OpTypes
  <2>5. Result(A, sent) = h /\ Result(U, h) = h /\ Result(T, h) = l
    BY DEF Result, CallAppend, CallUsage
  <2>6. GrowOps = (<<A>> \o (IF usage THEN <<U>> ELSE <<>>)) \o <<T>>
    BY DEF GrowOps
  <2> HIDE DEF A, U, T, h, l, M, E
  <2>7. <<A>> \in Seq(Op) /\ <<U>> \in Seq(Op) /\ <<T>> \in Seq(Op) /\ <<>> \in Seq(Op)
    BY <2>4
  <2>8. Plain(<<A>>) /\ Plain(<<U>>) /\ Plain(<<T>>) /\ Plain(<<>>)
    BY <2>4, PlainOne DEF Plain
  <2>9. Plain(GrowOps)
    BY <2>6, <2>8, PlainConcat
  <2>10. A.name # "usage" /\ T.name # "usage"
    BY <2>4
  <2>11. h \in {h} /\ h \in M /\ sent \in M
    BY <1>3, <2>3 DEF M
  <2>12. Leads(<<A>>, sent, M, {h})
    BY <1>3, <2>4, <2>5, <2>10, <2>11, LeadsOne
  <2>13. Leads(IF usage THEN <<U>> ELSE <<>>, h, M, {h})
    <3>1. Leads(<<>>, h, M, {h})
      BY <2>3, <2>11, LeadsDone
    <3>2. Len(h) <= U.n + Slack
      BY <1>3, <2>3, <2>4, SlackType
    <3>3. Leads(<<U>>, h, M, {h})
      BY <2>3, <2>4, <2>5, <2>11, <3>2, LeadsOne
    <3> QED BY <1>3, <3>1, <3>3
  <2>14. Leads(<<T>>, h, M, E)
    BY <2>3, <2>4, <2>5, <2>10, <2>11, LeadsOne
  <2>15. /\ (IF usage THEN <<U>> ELSE <<>>) \in Seq(Op)
         /\ <<A>> \o (IF usage THEN <<U>> ELSE <<>>) \in Seq(Op)
    BY <2>7, ConcatProperties
  <2>16. Leads(<<A>> \o (IF usage THEN <<U>> ELSE <<>>), sent, M, {h})
    BY <2>7, <2>12, <2>13, <2>15, LeadsThen
  <2>17. Leads(GrowOps, sent, M, E)
    BY <2>6, <2>7, <2>14, <2>15, <2>16, LeadsThen
  <2>18. GoodHistories' = GoodHistories /\ EndHistories' = E /\ Active' = "grow"
    BY <1>1 DEF GoodHistories, EndHistories, InLoop, Active, E
  <2>19. PICK g : g = GoodHistories
    OBVIOUS
  <2>20. PICK e : e = E
    OBVIOUS
  <2>21. /\ Kept(Active, g) /\ "grow" \in Task
         /\ Leads(GrowOps, history, IF "grow" = "turn" THEN g ELSE Seq(Message), e)
    BY <2>1, <2>2, <2>17, <2>19, <2>20 DEF M, Task
  <2>22. UNCHANGED <<memory, file, rotated, writing>>
    BY <1>1 DEF contextRest
  <2>23. Sound("grow", g, e)'
    BY <1>1, <1>3, <2>2, <2>9, <2>21, <2>22, AwaitSound
  <2>24. g = GoodHistories' /\ e = EndHistories'
    BY <2>18, <2>19, <2>20
  <2>25. Sound(Active, GoodHistories, EndHistories)'
    BY <2>18, <2>23, <2>24
  <2> QED BY <1>1, <2>1, <2>18, <2>25 DEF Going
<1> QED BY <1>1, <1>2, <1>4 DEF Orderly
(***************************************************************************)
(* The rebuild of the context after a compaction: cleared, checkpointed,   *)
(* the summary and what is preserved, the snapshot, and a usage line that  *)
(* counts all of it but the message of the checkpoint.                     *)
(***************************************************************************)
CheckpointMessage == IF WithDMail THEN <<UserMessage>> ELSE <<>>

\* The first four operations leave the summary behind the checkpoint.
LEMMA RebuildLeads ==
  ASSUME NEW h \in GoodHistories, NEW msgs \in GoodHistories
  PROVE  LET ops == <<Call("clear"), Call("system"), Call("checkpoint"), CallAppend(msgs)>>
         IN  /\ Plain(ops) /\ CheckpointMessage \o msgs \in GoodHistories
             /\ Leads(ops, h, GoodHistories, {CheckpointMessage \o msgs})
<1> DEFINE a == Call("clear")
           b == Call("system")
           c == Call("checkpoint")
           d == CallAppend(msgs)
           k == CheckpointMessage
           G == GoodHistories
           E == {k \o msgs}
<1>1. h \in Seq(Message) /\ msgs \in Seq(Message) /\ <<>> \in G /\ <<>> \in Seq(Message)
  BY GoodTypes
<1>2. /\ a \in Op /\ a.name = "clear" /\ b \in Op /\ b.name = "system"
      /\ c \in Op /\ c.name = "checkpoint" /\ d \in Op /\ d.name = "append"
  BY <1>1, OpTypes
<1>3. k \in Seq(Message) /\ FromUser(k)
  BY CallTypes DEF CheckpointMessage, FromUser, UserMessage
<1>4. <<>> \o k = k
  BY <1>3, ConcatEmptySeq
<1>5. /\ Result(a, h) = <<>> /\ Result(b, <<>>) = <<>> /\ Result(c, <<>>) = k
      /\ Result(d, k) = k \o msgs
  <2>1. Result(c, <<>>) = <<>> \o k
    BY DEF Result, Call, CheckpointMessage
  <2> QED BY <1>4, <2>1 DEF Result, Call, CallAppend
<1>6. k \in G /\ k \o msgs \in G /\ k \o msgs \in E
  <2>1. <<>> \o k \in G
    BY <1>1, <1>3, GoodUsers
  <2> QED BY <1>3, <1>4, <2>1, GoodUsers
<1> HIDE DEF a, b, c, d, k, G, E
<1>7. /\ a.name # "usage" /\ b.name # "usage" /\ c.name # "usage" /\ d.name # "usage"
      /\ h \in G
  BY <1>2 DEF G
<1>8. /\ <<d>> \in Seq(Op)
      /\ <<c, d>> \in Seq(Op) /\ <<c>> \o <<d>> = <<c, d>>
      /\ <<b, c, d>> \in Seq(Op) /\ <<b>> \o <<c, d>> = <<b, c, d>>
      /\ <<a, b, c, d>> \in Seq(Op) /\ <<a>> \o <<b, c, d>> = <<a, b, c, d>>
  <2>1. <<d>> \in Seq(Op)
    BY <1>2
  <2> QED BY <1>2, <2>1, PairOfOps, ThreeOps, FourOps
<1>9. Leads(<<d>>, k, G, E)
  BY <1>2, <1>3, <1>5, <1>6, <1>7, LeadsOne
<1>10. Leads(<<c>> \o <<d>>, <<>>, G, E)
  BY <1>1, <1>2, <1>5, <1>7, <1>8, <1>9, LeadsFirst
<1>11. Leads(<<b>> \o <<c, d>>, <<>>, G, E)
  BY <1>1, <1>2, <1>5, <1>7, <1>8, <1>10, LeadsFirst
<1>12. Leads(<<a>> \o <<b, c, d>>, h, G, E)
  BY <1>1, <1>2, <1>5, <1>7, <1>8, <1>11, LeadsFirst
<1>13. Plain(<<a>>) /\ Plain(<<b>>) /\ Plain(<<c>>) /\ Plain(<<d>>)
  BY <1>2, PlainOne
<1>14. Plain(<<c>> \o <<d>>)
  BY <1>13, PlainConcat
<1>15. Plain(<<b>> \o <<c, d>>)
  BY <1>8, <1>13, <1>14, PlainConcat
<1>16. Plain(<<a>> \o <<b, c, d>>)
  BY <1>8, <1>13, <1>15, PlainConcat
<1> QED BY <1>6, <1>8, <1>12, <1>16 DEF a, b, c, d, k, G, E

\* ... and the rest brings in the snapshot and the usage.
LEMMA CompactionLeads ==
  ASSUME NEW h \in GoodHistories, NEW msgs \in GoodHistories,
         h # <<>> => msgs # <<>>, NEW snapshot \in {<<>>, <<UserMessage>>}
  PROVE  LET ops == <<Call("clear"), Call("system"), Call("checkpoint"), CallAppend(msgs)>>
                      \o (IF snapshot = <<>> THEN <<>> ELSE <<CallAppend(snapshot)>>)
                      \o <<CallUsage(Len(msgs) + Len(snapshot))>>
         IN  \E m \in GoodHistories :
               /\ Plain(ops) /\ Leads(ops, h, GoodHistories, {m})
               /\ h # <<>> => m # <<>>
<1> DEFINE A == <<Call("clear"), Call("system"), Call("checkpoint"), CallAppend(msgs)>>
           s == CallAppend(snapshot)
           S == IF snapshot = <<>> THEN <<>> ELSE <<s>>
           u == CallUsage(Len(msgs) + Len(snapshot))
           k == CheckpointMessage
           l == k \o msgs
           m == l \o snapshot
           G == GoodHistories
<1>1. msgs \in Seq(Message) /\ h \in Seq(Message)
  BY GoodTypes
<1>2. snapshot \in Seq(Message) /\ FromUser(snapshot)
  <2>1. <<UserMessage>> \in Seq(Message) /\ <<>> \in Seq(Message)
    BY OpTypes
  <2>2. FromUser(<<UserMessage>>) /\ FromUser(<<>>)
    BY DEF FromUser, UserMessage
  <2> QED BY <2>1, <2>2
<1>3. k \in Seq(Message) /\ Len(k) \in Nat /\ Len(k) <= Slack
  BY CallTypes DEF CheckpointMessage, Slack
<1>4. Len(msgs) + Len(snapshot) \in Nat /\ Len(msgs) \in Nat /\ Len(snapshot) \in Nat
  BY <1>1, <1>2, LenProperties
<1>5. /\ s \in Op /\ s.name = "append" /\ u \in Op /\ u.name = "usage"
  BY <1>2, <1>4, OpTypes
<1>6. u.n = Len(msgs) + Len(snapshot)
  BY DEF CallUsage
<1>7. Plain(A) /\ l \in G /\ Leads(A, h, G, {l})
  BY RebuildLeads
<1>8. A \in Seq(Op)
  BY <1>7 DEF Plain
<1>9. Result(s, l) = m /\ Result(u, m) = m
  BY DEF Result, CallAppend, CallUsage
<1>10. snapshot = <<>> => m = l
  BY <1>2, <1>3, <1>1, ConcatMessages
<1>11. S = IF snapshot = <<>> THEN <<>> ELSE <<s>>
  OBVIOUS
<1> HIDE DEF A, s, S, u, k
<1>12. l \in Seq(Message) /\ Len(l) = Len(k) + Len(msgs)
  BY <1>1, <1>3, ConcatAt
<1>13. msgs # <<>> => l # <<>>
  BY <1>1, <1>3, ConcatMessages
<1> HIDE DEF l
<1>14. m \in Seq(Message) /\ Len(m) = Len(l) + Len(snapshot)
  BY <1>2, <1>12, ConcatAt
<1>15. l # <<>> => m # <<>>
  BY <1>2, <1>12, ConcatMessages
<1>16. m \in G
  BY <1>2, <1>7, GoodUsers DEF G
<1> HIDE DEF m, G
<1>17. Len(m) <= u.n + Slack
  BY <1>3, <1>4, <1>6, <1>12, <1>14, SlackType
<1>18. <<s>> \in Seq(Op) /\ <<u>> \in Seq(Op) /\ <<>> \in Seq(Op) /\ S \in Seq(Op)
  <2>1. <<s>> \in Seq(Op) /\ <<u>> \in Seq(Op) /\ <<>> \in Seq(Op)
    BY <1>5
  <2> QED BY <1>11, <2>1
<1>19. Plain(S) /\ Plain(<<u>>)
  <2>1. Plain(<<s>>) /\ Plain(<<u>>)
    BY <1>5, PlainOne
  <2>2. Plain(<<>>)
    BY <1>18 DEF Plain
  <2> QED BY <1>11, <2>1, <2>2
<1>20. Leads(S, l, G, {m})
  <2>1. CASE snapshot = <<>>
    <3>1. S = <<>> /\ l \in {m}
      BY <1>10, <1>11, <2>1
    <3> QED BY <1>12, <3>1, LeadsDone
  <2>2. CASE snapshot # <<>>
    <3>1. S = <<s>> /\ s.name # "usage" /\ Result(s, l) \in {m}
      BY <1>5, <1>9, <1>11, <2>2
    <3> QED BY <1>5, <1>7, <1>12, <3>1, LeadsOne
  <2> QED BY <2>1, <2>2
<1>21. Leads(<<u>>, m, G, {m})
  <2>1. Result(u, m) \in {m}
    BY <1>9
  <2> QED BY <1>5, <1>14, <1>16, <1>17, <2>1, LeadsOne
<1>22. A \o S \in Seq(Op) /\ Plain(A \o S) /\ Leads(A \o S, h, G, {m})
  BY <1>7, <1>8, <1>18, <1>19, <1>20, ConcatProperties, PlainConcat, LeadsThen
<1>23. Plain((A \o S) \o <<u>>) /\ Leads((A \o S) \o <<u>>, h, G, {m})
  BY <1>18, <1>19, <1>21, <1>22, PlainConcat, LeadsThen
<1>24. h # <<>> => m # <<>>
  BY <1>13, <1>15
<1> QED BY <1>16, <1>23, <1>24 DEF A, s, S, u, G

\* A compaction leaves a conversation to go on with.
LEMMA CompactKeeps ==
  ASSUME Running, Orderly, Compact
  PROVE  Orderly'
<1> DEFINE msgs == Compacted(history)
           rebuild(snapshot) ==
             <<Call("clear"), Call("system"), Call("checkpoint"), CallAppend(msgs)>>
             \o (IF snapshot = <<>> THEN <<>> ELSE <<CallAppend(snapshot)>>)
             \o <<CallUsage(Len(msgs) + Len(snapshot))>>
           c == <<Call("checkpoint")>>
<1>1. PICK snapshot \in {<<>>, <<UserMessage>>} :
        IF stepNo = 0
        THEN Await(rebuild(snapshot)) /\ Goto("command")
        ELSE Await(rebuild(snapshot) \o c) /\ Goto("checkpoint")
  BY DEF Compact
<1>2. /\ pc = "compact" /\ Idle("turn") /\ UNCHANGED contextRest /\ stepNo' = stepNo
      /\ sent' = sent /\ steers' = steers /\ crashes' = crashes /\ cancels' = cancels
  BY DEF Compact, At, stepVars, bounds
<1>3. FromUser(steers)'
  BY <1>2 DEF Orderly, FromUser
<1>4. pc' \in {"command", "checkpoint"}
  BY <1>1 DEF Goto
<1>5. ASSUME cancels = 0
      PROVE  \E ops : /\ Plain(ops) /\ Await(ops)
                      /\ Leads(ops, history, GoodHistories, EndHistories')
  <2>1. Going
    BY <1>5 DEF Orderly, Running
  <2>2. history \in GoodHistories /\ (InLoop => history # <<>>)
    BY <1>2, <2>1, AtRest
  <2>3. msgs \in GoodHistories /\ (history # <<>> => msgs # <<>>)
    BY <2>2, GoodCompacted
  <2>4. PICK m \in GoodHistories :
          /\ Plain(rebuild(snapshot))
          /\ Leads(rebuild(snapshot), history, GoodHistories, {m})
          /\ history # <<>> => m # <<>>
    BY <2>2, <2>3, CompactionLeads
  <2> HIDE DEF rebuild
  <2>5. CASE stepNo = 0
    <3>1. Await(rebuild(snapshot)) /\ pc' = "command"
      BY <1>1, <2>5 DEF Goto
    <3>2. EndHistories' = GoodHistories
      BY <1>2, <3>1 DEF EndHistories, InLoop, GoodHistories
    <3>3. <<>> \in Seq(Op) /\ Plain(<<>>) /\ rebuild(snapshot) \in Seq(Op)
      BY <2>4 DEF Plain
    <3>4. Leads(<<>>, m, GoodHistories, GoodHistories)
      BY GoodTypes, LeadsDone
    <3>5. Leads(rebuild(snapshot) \o <<>>, history, GoodHistories, GoodHistories)
      BY <2>4, <3>3, <3>4, LeadsThen
    <3>6. rebuild(snapshot) \o <<>> = rebuild(snapshot)
      BY <3>3, ConcatEmptySeq
    <3> QED BY <2>4, <3>1, <3>2, <3>5, <3>6
  <2>6. CASE stepNo # 0
    <3>1. Await(rebuild(snapshot) \o c) /\ pc' = "checkpoint"
      BY <1>1, <2>6 DEF Goto
    <3>2. EndHistories' = GoodHistories \ {<<>>}
      BY <1>2, <3>1 DEF EndHistories, InLoop, GoodHistories
    <3>3. m # <<>>
      BY <1>2, <2>2, <2>4, <2>6 DEF InLoop
    <3>4. Plain(c) /\ Leads(c, m, GoodHistories, GoodHistories \ {<<>>})
      BY <3>3, CheckpointLeads
    <3> HIDE DEF c
    <3>5. c \in Seq(Op) /\ rebuild(snapshot) \in Seq(Op)
      BY <2>4, <3>4 DEF Plain
    <3>6. /\ Plain(rebuild(snapshot) \o c)
          /\ Leads(rebuild(snapshot) \o c, history, GoodHistories, GoodHistories \ {<<>>})
      BY <2>4, <3>4, <3>5, PlainConcat, LeadsThen
    <3> QED BY <3>1, <3>2, <3>6
  <2> QED BY <2>5, <2>6
<1>6. pc' \in PC \ {"idle", "prepare", "llm", "tools", "grow", "down"}
  BY <1>4 DEF PC
<1> QED BY <1>2, <1>3, <1>5, <1>6, AwaitingKeepsOrder DEF PC
-----------------------------------------------------------------------------
(***************************************************************************)
(* The other steps of the soul and its process.                            *)
(***************************************************************************)
\* One context operation, wherever the run stands.
LEMMA ContextNextOrder ==
  ASSUME Running, Orderly, NEW u \in Task, ContextNext(u)
  PROVE  Orderly'
<1>1. /\ ContextStep(u) /\ Shape
      /\ UNCHANGED <<pc, stepNo, sent, steers, cancels, crashes>> /\ pc # "down"
  BY DEF ContextNext, Running, stepVars, bounds
<1>2. FromUser(steers)'
  BY <1>1 DEF Orderly, FromUser
<1>3. ASSUME cancels' = 0
      PROVE  (sent \in GoodHistories)' /\ Going'
  <2>1. cancels = 0 /\ Going /\ sent \in GoodHistories
    BY <1>1, <1>3 DEF Orderly
  <2>2. PICK g : g = GoodHistories
    OBVIOUS
  <2>3. PICK e : e = EndHistories
    OBVIOUS
  <2>4. PICK t : t = Active
    OBVIOUS
  <2>5. t \in Task /\ Sound(t, g, e) /\ Closed(g, e)
    BY <2>1, <2>2, <2>3, <2>4, ActiveType, GoodClosed DEF Going
  <2>6. Sound(t, g, e)'
    BY <1>1, <2>5, ContextStepSound
  <2>7. g = GoodHistories' /\ e = EndHistories' /\ t = Active'
    BY <1>1, <2>2, <2>3, <2>4 DEF GoodHistories, EndHistories, InLoop, Active
  <2>8. Sound(Active, GoodHistories, EndHistories)'
    BY <2>6, <2>7
  <2>9. u = t
    BY <1>1, <2>5, OnlyTheActive DEF Sound, Kept
  <2>10. pc \notin {"idle", "llm"}
    <3> SUFFICES ASSUME pc \in {"idle", "llm"} PROVE FALSE
      OBVIOUS
    <3>1. u = "turn" /\ Idle("turn")
      BY <2>1, <2>4, <2>9 DEF Going, Active
    <3> QED BY <1>1, <3>1, IdleRests DEF Idle
  <2>11. ASSUME pc = "tools"
         PROVE  /\ history' = sent'
                /\ \A i \in DOMAIN todo'["turn"] : todo'["turn"][i].name = "usage"
    <3>1. /\ u = "turn" /\ history = sent
          /\ \A i \in DOMAIN todo["turn"] : todo["turn"][i].name = "usage"
      BY <2>1, <2>4, <2>9, <2>11 DEF Going, Active
    <3>2. todo["turn"] # <<>> => Head(todo["turn"]).name = "usage"
      <4> SUFFICES ASSUME todo["turn"] # <<>> PROVE Head(todo["turn"]).name = "usage"
        OBVIOUS
      <4>1. Head(todo["turn"]) = todo["turn"][1] /\ 1 \in DOMAIN todo["turn"]
        BY <1>1, <3>1, HeadOp DEF Shape
      <4> QED BY <3>1, <4>1
    <3>3. UpdateTokenCount("turn") \/ Write("turn")
      BY <1>1, <3>1, <3>2
         DEF ContextStep, Checkpoint, AppendMessage, UpdateTokenCount, Write, ClearRotate,
             ClearReset, WriteSystemPrompt, RevertRotate, RevertReplay, About
    <3>4. CASE Write("turn")
      BY <1>1, <3>1, <3>4 DEF Write, memory
    <3>5. CASE UpdateTokenCount("turn")
      <4>1. history' = history /\ todo["turn"] # <<>> /\ Continue("turn", <<>>)
        BY <3>5 DEF UpdateTokenCount, About
      <4>2. \A i \in DOMAIN todo'["turn"] :
              \/ i \in DOMAIN <<>> /\ todo'["turn"][i] = <<>>[i]
              \/ \E j \in DOMAIN todo["turn"] : j # 1 /\ todo'["turn"][i] = todo["turn"][j]
        <5>1. <<>> \in Seq(Op) /\ ContextTypeOK /\ "turn" \in Task
          BY <1>1 DEF Shape, Task
        <5> QED BY <4>1, <5>1, ContinueKeeps
      <4> QED BY <1>1, <3>1, <4>1, <4>2
    <3> QED BY <3>3, <3>4, <3>5
  <2>12. pc \in {"idle", "prepare"} => stepNo = 0
    BY <2>1 DEF Going
  <2> QED BY <1>1, <2>1, <2>2, <2>7, <2>8, <2>10, <2>11, <2>12 DEF Going
<1> QED BY <1>1, <1>2, <1>3 DEF Orderly

\* A crash leaves a file that a restart reads back.
LEMMA CrashOrder ==
  ASSUME Running, Orderly, Crash
  PROVE  Orderly'
<1>1. /\ pc # "down" /\ Shape /\ crashes \in Nat /\ crashes' = crashes + 1
      /\ CrashContext /\ pc' = "down" /\ sent' = <<>> /\ steers' = <<>>
      /\ cancels' = cancels /\ stepNo' = 0
  BY DEF Running, LoopTypeOK, Crash, Goto, ForgetStep
<1>2. FromUser(steers)'
  BY <1>1 DEF FromUser
<1>3. history' = <<>> /\ crashes' # 0
  BY <1>1 DEF CrashContext
<1>4. ASSUME cancels' = 0
      PROVE  Steady(file, Seq(Message))' /\ rotated' = <<>>
  <2>1. Going
    BY <1>1, <1>4 DEF Orderly
  <2>2. PICK t \in Task : t = Active
    BY ActiveType
  <2>3. Sound(t, GoodHistories, EndHistories)
    BY <2>1, <2>2 DEF Going
  <2> QED BY <1>1, <2>3, CrashSound
<1>5. sent' \in GoodHistories'
  BY <1>1, <1>3 DEF GoodHistories
<1> QED BY <1>1, <1>2, <1>3, <1>4, <1>5 DEF Orderly

\* The restart reads it back: the histories in it may have lost their tails.
LEMMA RestartOrder ==
  ASSUME IInv, Orderly, Restart
  PROVE  Orderly'
<1>1. /\ pc = "down" /\ pc' = "idle" /\ Restore /\ Shape
      /\ \A t \in Task : todo[t] = <<>> /\ writing[t] = <<>>
      /\ UNCHANGED <<stepNo, sent, steers, cancels, crashes>>
  BY DEF Restart, Goto, IInv, stepVars, bounds
<1>2. FromUser(steers)'
  BY <1>1 DEF Orderly, FromUser
<1>3. crashes' # 0 /\ crashes # 0
  BY <1>1 DEF Orderly
<1>4. ASSUME cancels' = 0
      PROVE  (sent \in GoodHistories)' /\ Going'
  <2>1. sent \in GoodHistories /\ Steady(file, Seq(Message)) /\ rotated = <<>>
    BY <1>1, <1>4 DEF Orderly
  <2>2. Idle("turn") /\ Idle("grow")
    BY <1>1 DEF Idle, Task
  <2>3. PICK g : g = Seq(Message)
    OBVIOUS
  <2>4. Sound("turn", Seq(Message), Seq(Message))'
    BY <1>1, <2>1, <2>2, RestoreSound
  <2>5. GoodHistories' = Seq(Message) /\ EndHistories' = Seq(Message) /\ Active' = "turn"
    BY <1>1, <1>3 DEF GoodHistories, EndHistories, InLoop, Active
  <2>6. Sound(Active, GoodHistories, EndHistories)'
    BY <2>4, <2>5
  <2>7. Idle("turn")'
    BY <1>1, <2>2 DEF Restore, Idle
  <2>8. stepNo' = 0
    BY <1>1 DEF Orderly
  <2>9. sent' \in GoodHistories'
    BY <1>1, <1>3, <2>1 DEF GoodHistories
  <2> QED BY <1>1, <2>6, <2>7, <2>8, <2>9 DEF Going
<1> QED BY <1>1, <1>2, <1>3, <1>4 DEF Orderly

\* A cancelled run ends the case.
LEMMA CancelOrder ==
  ASSUME Running, Orderly, Cancel
  PROVE  Orderly'
<1>1. /\ cancels \in Nat /\ cancels' = cancels + 1 /\ steers' = steers /\ pc' = "idle"
  BY DEF Running, LoopTypeOK, Cancel, Finish, Goto
<1>2. FromUser(steers)'
  BY <1>1 DEF Orderly, FromUser
<1>3. cancels' # 0
  BY <1>1
<1> QED BY <1>1, <1>2, <1>3 DEF Orderly

\* A new session is in order ...
LEMMA InitOrderly == Init => Orderly
<1> SUFFICES ASSUME Init PROVE Orderly
  OBVIOUS
<1>1. /\ ContextInit /\ pc = "idle" /\ stepNo = 0 /\ sent = <<>> /\ steers = <<>>
  BY DEF Init
<1>2. Active = "turn" /\ EndHistories = GoodHistories /\ <<>> \in GoodHistories
  BY <1>1, GoodTypes DEF Active, EndHistories, InLoop
<1>3. Sound("turn", GoodHistories, EndHistories)
  <2>1. PICK g : g = GoodHistories
    OBVIOUS
  <2>2. Sound("turn", g, g)
    BY <1>1, <1>2, <2>1, ContextInitSound
  <2> QED BY <1>2, <2>1, <2>2
<1>4. Idle("turn")
  BY <1>1 DEF ContextInit, Idle, Task
<1>5. Going
  BY <1>1, <1>2, <1>3, <1>4 DEF Going
<1> QED BY <1>1, <1>2, <1>5 DEF Orderly, FromUser

\* ... and every step keeps the order.
LEMMA NextOrderly ==
  ASSUME IInv, Orderly, [Next]_vars
  PROVE  Orderly'
<1>1. CASE pc # "down"
  <2>1. Running
    BY <1>1 DEF IInv, Running
  <2>2. CASE Prompt \/ RunStep \/ Steer
    <3>1. \/ Prompt \/ BlockPrompt \/ CompactCommand \/ CommandDone
          \/ EnterLoop \/ OutOfSteps \/ CompactFails \/ Checkpointed
          \/ CallModel \/ ModelFails
          \/ UnsupportedResult \/ StepRejected \/ Reverted \/ StepAssertionFails
          \/ StepContinues \/ NextStep \/ StopTurn \/ EndRun
          => Orderly'
      BY <2>1, QuietSteps, QuietKeeps
    <3>2. \/ StreamToolCall \/ ModelRetry \/ Steer
          \/ \E id \in 0 .. nCheckpoints : SendDMail(id)
          => Orderly'
      BY <2>1, BusySteps
    <3>3. \/ BeginTurn \/ ClearCommand \/ BeginStep \/ Note \/ ConsumeSteer
          \/ StopHookTurn
          => Orderly'
      BY <2>1, AwaitSteps
    <3>4. ModelAnswers \/ StepReverts \/ Grow \/ Compact => Orderly'
      BY <2>1, AnswerKeeps, RevertsKeep, GrowKeepsOrder, CompactKeeps
    <3> QED BY <2>2, <3>1, <3>2, <3>3, <3>4 DEF RunStep
  <2>3. CASE \E t \in Task : ContextNext(t)
    BY <2>1, <2>3, ContextNextOrder
  <2>4. CASE Cancel
    BY <2>1, <2>4, CancelOrder
  <2>5. CASE Crash
    BY <2>1, <2>5, CrashOrder
  <2>6. CASE UNCHANGED vars
    <3>1. /\ UNCHANGED <<contextVars, pc, stepNo, sent, cancels, crashes>>
          /\ steers' = steers
      BY <2>6 DEF vars, stepVars, bounds
    <3>2. FromUser(steers)'
      BY <3>1 DEF Orderly, FromUser
    <3> QED BY <2>1, <3>1, <3>2, BusyKeeps
  <2>7. ~Restart
    BY <1>1 DEF Restart
  <2> QED BY <2>2, <2>3, <2>4, <2>5, <2>6, <2>7 DEF Next
<1>2. CASE pc = "down"
  <2>1. ~(Prompt \/ RunStep \/ Steer \/ Cancel)
    BY <1>2, DownRests
  <2>2. \A t \in Task : ~ContextNext(t)
    BY <1>2, IdleRests DEF IInv, ContextNext
  <2>3. ~Crash
    BY <1>2 DEF Crash
  <2>4. CASE Restart
    BY <2>4, RestartOrder
  <2>5. CASE UNCHANGED vars
    <3>1. /\ UNCHANGED <<history, file, rotated, pc, stepNo, sent, steers, cancels,
                         crashes>>
      BY <2>5 DEF vars, stepVars, bounds, contextVars
    <3>2. FromUser(steers)' /\ (GoodHistories' = GoodHistories)
      BY <3>1 DEF Orderly, FromUser, GoodHistories
    <3>3. (cancels' = 0) => Steady(file, Seq(Message))' /\ rotated' = <<>>
      BY <1>2, <3>1 DEF Orderly, Steady, Dense, Covered, AtCheckpoints
    <3> QED BY <1>2, <3>1, <3>2, <3>3 DEF Orderly
  <2> QED BY <2>1, <2>2, <2>3, <2>4, <2>5 DEF Next
<1> QED BY <1>1, <1>2

(***************************************************************************)
(* The theorems.                                                           *)
(***************************************************************************)
\* While a process runs and no run was cancelled, the task at work owns the
\* context and its log is the file and the lines it writes.
LEMMA GoingFacts ==
  ASSUME IInv, Orderly, cancels = 0, pc # "down"
  PROVE  /\ Shape /\ Active \in Task
         /\ Kept(Active, GoodHistories)
         /\ Plan(Active, GoodHistories, EndHistories)
         /\ Log(Active) = (file \o writing["turn"]) \o writing["grow"]
<1>1. Going /\ Shape /\ Active \in Task
  BY ActiveType DEF Orderly, IInv
<1>2. Kept(Active, GoodHistories) /\ Plan(Active, GoodHistories, EndHistories)
  BY <1>1 DEF Going, Sound
<1>3. /\ file \in Seq(Line) /\ writing["turn"] \in Seq(Line) /\ writing["grow"] \in Seq(Line)
  BY <1>1 DEF Shape, ContextTypeOK, Task
<1>4. file \o writing["turn"] \in Seq(Line) /\ file \o <<>> = file
  BY <1>3, ConcatProperties, ConcatEmptySeq
<1>5. CASE Active = "turn"
  <2>1. writing["grow"] = <<>>
    BY <1>2, <1>5 DEF Kept, Alone, Idle, Task
  <2>2. (file \o writing["turn"]) \o <<>> = file \o writing["turn"]
    BY <1>4, ConcatEmptySeq
  <2> QED BY <1>1, <1>2, <1>5, <2>1, <2>2 DEF Log
<1>6. CASE Active = "grow"
  <2>1. writing["turn"] = <<>>
    BY <1>2, <1>6 DEF Kept, Alone, Idle, Task
  <2> QED BY <1>1, <1>2, <1>4, <1>6, <2>1 DEF Log
<1> QED BY <1>1, <1>5, <1>6 DEF Task

\* As long as no run was cancelled, restarting now and restarting never are
\* the same: the file with the lines under way replays to exactly the memory,
\* through compactions, reverts, crashes and restarts.
THEOREM MemoryReplays == Spec => []MemoryIsReplay
<1>1. IInv /\ Orderly => MemoryIsReplay
  <2> SUFFICES ASSUME IInv, Orderly, cancels = 0, pc # "down", ~Rotating
               PROVE  LET log == (file \o writing["turn"]) \o writing["grow"]
                      IN  memory = <<Messages(log), TokenCount(log),
                                     PendingEstimate(log), NextId(log)>>
    BY DEF MemoryIsReplay
  <2>1. /\ Kept(Active, GoodHistories)
        /\ Log(Active) = (file \o writing["turn"]) \o writing["grow"]
    BY GoingFacts
  <2> DEFINE log == (file \o writing["turn"]) \o writing["grow"]
  <2>2. IsReplay(log, history, tokenCount, pendingEstimate, nextCheckpointId)
    BY <2>1 DEF Kept
  <2> QED BY <2>2 DEF IsReplay, memory
<1> QED BY <1>1, InitIInv, NextIInv, InitOrderly, NextOrderly, PTL DEF Spec

\* The size that decides on a compaction covers every message of the history
\* but the one of the checkpoint a compaction takes.
THEOREM SizeCovers == Spec => []SizeCoversHistory
<1>1. IInv /\ Orderly => SizeCoversHistory
  <2> SUFFICES ASSUME IInv, Orderly, cancels = 0
               PROVE  Len(history) <= tokenCount + pendingEstimate + Slack
    BY DEF SizeCoversHistory, Slack
  <2>1. CASE pc # "down"
    BY <2>1, GoingFacts DEF Kept
  <2>2. CASE pc = "down"
    <3>1. Len(history) = 0
      BY <2>2 DEF Orderly
    <3>2. tokenCount \in Nat /\ pendingEstimate \in Nat /\ Slack \in Nat
      BY SlackType DEF IInv, Shape, ContextTypeOK
    <3> QED BY <3>1, <3>2
  <2> QED BY <2>1, <2>2
<1> QED BY <1>1, InitIInv, NextIInv, InitOrderly, NextOrderly, PTL DEF Spec

\* A revert finds the checkpoint it is asked for: no id below the next one is
\* missing from the file, as long as no run was cancelled.
THEOREM RevertFinds == Spec => []RevertFindsCheckpoint
<1>1. IInv /\ Orderly => RevertFindsCheckpoint
  <2> SUFFICES ASSUME IInv, Orderly, cancels = 0, About("turn", "revert")
               PROVE  \E i \in DOMAIN file : file[i] = CheckpointLine(Head(todo["turn"]).n)
    BY DEF RevertFindsCheckpoint
  <2>1. writing["turn"] = <<>> /\ todo["turn"] # <<>> /\ Head(todo["turn"]).name = "revert"
    BY DEF About
  <2>2. pc # "down"
    BY <2>1 DEF IInv, Task
  <2>3. /\ Shape /\ Active \in Task /\ Kept(Active, GoodHistories)
        /\ Plan(Active, GoodHistories, EndHistories)
    BY <2>2, GoingFacts
  <2>4. Active = "turn"
    BY <2>1, <2>3 DEF Kept, Alone, Idle, Task
  <2>5. Head(todo["turn"]).n < nextCheckpointId
    BY <2>1, <2>3, <2>4 DEF Plan, Reverting, RevertName
  <2>6. Log("turn") = file /\ file \in Seq(Line)
    BY <2>1, <2>3, LogAtRest DEF Task
  <2>7. ~Rotating
    BY <2>1 DEF Rotating, About
  <2>8. nextCheckpointId = NextId(file) /\ Dense(file)
    BY <2>3, <2>4, <2>6, <2>7 DEF Kept, IsReplay, Steady
  <2>9. Head(todo["turn"]).n \in Nat
    <3>1. Head(todo["turn"]) \in Op
      BY <2>1, <2>3, HeadOp DEF Shape, Task
    <3> QED BY <3>1 DEF Op
  <2>10. Head(todo["turn"]).n \in 0 .. NextId(file) - 1
    BY <2>5, <2>6, <2>8, <2>9, NextIdType
  <2> QED BY <2>6, <2>8, <2>10, DenseNext
<1> QED BY <1>1, InitIInv, NextIInv, InitOrderly, NextOrderly, PTL DEF Spec

\* The model is never sent a tool call without its results, nor results
\* without their call, unless a run was cancelled or the process crashed.
THEOREM SentWellFormed == Spec => []SentIsWellFormed
<1>1. IInv /\ Orderly => SentIsWellFormed
  BY DEF SentIsWellFormed, Orderly, GoodHistories, Whole
<1> QED BY <1>1, InitIInv, NextIInv, InitOrderly, NextOrderly, PTL DEF Spec
-----------------------------------------------------------------------------
(***************************************************************************)
(* Steers.  What the user steered and will steer, in this order, is what   *)
(* the conversation has, what the turn is about to append, the queue and   *)
(* the next steer.                                                         *)
(***************************************************************************)
NextSteer == [role |-> "user", n |-> steerCount + 1]

Queue == steers \o <<NextSteer>>

Steered == Rising(Queue) /\ Told(Queue)

\* What may come before a may come before b.
Later(a, b) == \A x \in Seq(Line) : Precedes(x, a) => Precedes(x, b)

\* A conversation told before a is told before what comes later.
LEMMA ToldLater ==
  ASSUME Shape, NEW a, NEW b, Later(a, b), Told(a)
  PROVE  Told(b)
<1>1. ContextTypeOK
  BY DEF Shape
<1>2. /\ history \in Seq(Line) /\ file \in Seq(Line) /\ rotated \in Seq(Line)
      /\ writing["turn"] \in Seq(Line)
      /\ \A i \in DOMAIN todo["turn"] : todo["turn"][i] \in Op
  BY <1>1, ToldTypes
<1>3. Log("turn") \in Seq(Line)
  BY <1>2, ConcatAt DEF Log
<1>4. \A i \in DOMAIN todo["turn"] : todo["turn"][i].msgs \in Seq(Line)
  BY <1>2, NoWriteNoCheckpoint DEF Op
<1>5. \A s \in Seq(Line) : Spoken(s, a) => Spoken(s, b)
  BY DEF Spoken, Later
<1>6. Coming(todo["turn"], b)
  BY <1>4, <1>5 DEF Told, Coming
<1> QED BY <1>2, <1>3, <1>5, <1>6 DEF Told

\* The queue stays, is discarded, is taken from or gets one more steer.
QueueMove ==
  \/ steers' = steers /\ steerCount' = steerCount
  \/ steers' = <<>> /\ steerCount' = steerCount
  \/ steers # <<>> /\ steers' = Tail(steers) /\ steerCount' = steerCount
  \/ steers' = Append(steers, NextSteer) /\ steerCount' = steerCount + 1

\* The queue is a list of messages.
LEMMA QueueType ==
  ASSUME LoopTypeOK
  PROVE  /\ NextSteer \in Message /\ <<NextSteer>> \in Seq(Message)
         /\ <<NextSteer>> \in Seq(Line) /\ steers \in Seq(Message) /\ steers \in Seq(Line)
         /\ Queue \in Seq(Message) /\ Queue \in Seq(Line)
<1>1. steers \in Seq(Message) /\ steerCount \in Nat
  BY DEF LoopTypeOK
<1>2. NextSteer \in Message
  BY <1>1 DEF NextSteer, Message, MessageRole
<1>3. <<NextSteer>> \in Seq(Message)
  BY <1>2
<1>4. Queue \in Seq(Message)
  BY <1>1, <1>3, ConcatMessages DEF Queue
<1> QED BY <1>1, <1>2, <1>3, <1>4, NoWriteNoCheckpoint

\* The first steer of the queue and the rest.
LEMMA QueueHead ==
  ASSUME LoopTypeOK, steers # <<>>
  PROVE  /\ Head(steers) \in Message /\ <<Head(steers)>> \in Seq(Message)
         /\ <<Head(steers)>> \in Seq(Line)
         /\ Tail(steers) \o <<NextSteer>> \in Seq(Line)
         /\ Queue = <<Head(steers)>> \o (Tail(steers) \o <<NextSteer>>)
<1>1. steers \in Seq(Message) /\ <<NextSteer>> \in Seq(Message)
  BY QueueType
<1>2. Head(steers) \in Message /\ Tail(steers) \in Seq(Message)
      /\ steers = <<Head(steers)>> \o Tail(steers)
  BY <1>1, HeadTailProperties
<1>3. <<Head(steers)>> \in Seq(Message)
  BY <1>2
<1>4. Tail(steers) \o <<NextSteer>> \in Seq(Message)
  BY <1>1, <1>2, ConcatMessages
<1>5. (<<Head(steers)>> \o Tail(steers)) \o <<NextSteer>>
        = <<Head(steers)>> \o (Tail(steers) \o <<NextSteer>>)
  BY <1>1, <1>2, <1>3, ConcatMessages
<1> QED BY <1>2, <1>3, <1>4, <1>5, NoWriteNoCheckpoint DEF Queue

\* However the queue moves, it rises and comes later.
LEMMA QueueMoves ==
  ASSUME LoopTypeOK, Rising(Queue), QueueMove
  PROVE  Rising(Queue') /\ Later(Queue, Queue')
<1> DEFINE N == <<NextSteer>>
<1>1. /\ N \in Seq(Line) /\ steers \in Seq(Line) /\ steers \in Seq(Message)
      /\ Queue \in Seq(Line) /\ NextSteer \in Message
  BY QueueType
<1>2. Queue = steers \o N
  BY DEF Queue
<1>3. Rising(steers) /\ Rising(N) /\ Precedes(steers, N)
  BY <1>1, <1>2, ConcatOrder
<1> HIDE DEF N
<1>4. ASSUME steerCount' = steerCount
      PROVE  Queue' = steers' \o N
  BY <1>4 DEF Queue, NextSteer, N
<1>5. CASE steers' = steers /\ steerCount' = steerCount
  BY <1>2, <1>4, <1>5 DEF Later
<1>6. CASE steers' = <<>> /\ steerCount' = steerCount
  <2>1. Queue' = N
    BY <1>1, <1>4, <1>6, ConcatEmptySeq
  <2> QED BY <1>1, <1>2, <1>3, <2>1, ConcatOrder DEF Later
<1>7. CASE steers # <<>> /\ steers' = Tail(steers) /\ steerCount' = steerCount
  <2>1. PICK q \in Seq(Line) : q = Tail(steers) \o N
    BY <1>7, QueueHead DEF N
  <2>2. PICK m \in Seq(Line) : m = <<Head(steers)>>
    BY <1>7, QueueHead
  <2>3. Queue = m \o q /\ Queue' = q
    BY <1>4, <1>7, <2>1, <2>2, QueueHead DEF N
  <2> QED BY <2>3, ConcatOrder DEF Later
<1>8. CASE steers' = Append(steers, NextSteer) /\ steerCount' = steerCount + 1
  <2>1. steers' = Queue
    BY <1>1, <1>8, AppendIsConcat DEF Queue
  <2>2. PICK M : M = [role |-> "user", n |-> steerCount + 2]
    OBVIOUS
  <2>3. steerCount \in Nat /\ M \in Message /\ M.n = steerCount + 2
    BY <2>2 DEF LoopTypeOK, Message, MessageRole
  <2>4. NextSteer' = M
    <3>1. (steerCount + 1) + 1 = steerCount + 2
      BY <2>3
    <3> QED BY <1>8, <2>2, <3>1 DEF NextSteer
  <2>5. PICK K \in Seq(Line) : K = <<M>>
    <3>1. <<M>> \in Seq(Message)
      BY <2>3
    <3> QED BY <3>1, NoWriteNoCheckpoint
  <2>6. Queue' = Queue \o K
    BY <2>1, <2>4, <2>5 DEF Queue
  <2>7. /\ DOMAIN K = {1} /\ K[1] = M /\ DOMAIN N = {1} /\ N[1] = NextSteer
        /\ NextSteer.n = steerCount + 1 /\ IsSteer(NextSteer)
    BY <2>3, <2>5 DEF N, NextSteer, IsSteer
  <2>8. ASSUME NEW x \in Seq(Line), Precedes(x, N)
        PROVE  Precedes(x, K)
    <3> SUFFICES ASSUME NEW i \in DOMAIN x, IsSteer(x[i])
                 PROVE  x[i].n < M.n
      BY <2>7 DEF Precedes
    <3>1. x[i].n < steerCount + 1
      BY <2>7, <2>8 DEF Precedes
    <3>2. x[i].n \in Nat
      BY LineType
    <3> QED BY <2>3, <3>1, <3>2
  <2>9. Rising(K) /\ Precedes(N, K)
    <3>1. Rising(K)
      BY <2>7 DEF Rising
    <3>2. Precedes(N, K)
      BY <2>3, <2>7 DEF Precedes
    <3> QED BY <3>1, <3>2
  <2>10. Precedes(steers, K)
    BY <1>1, <1>3, <2>8
  <2>11. Precedes(Queue, K)
    BY <1>1, <1>2, <2>9, <2>10, ConcatOrder
  <2>12. Rising(Queue \o K)
    BY <1>1, <2>9, <2>11, ConcatOrder
  <2>13. ASSUME NEW x \in Seq(Line), Precedes(x, Queue)
         PROVE  Precedes(x, Queue \o K)
    <3>1. Precedes(x, N)
      BY <1>1, <1>2, <2>13, ConcatOrder
    <3>2. Precedes(x, K)
      BY <2>8, <3>1
    <3> QED BY <1>1, <2>13, <3>2, ConcatOrder
  <2> QED BY <2>6, <2>12, <2>13 DEF Later
<1> QED BY <1>5, <1>6, <1>7, <1>8 DEF QueueMove

\* A step that keeps what is told before the new queue.
LEMMA SteeredOn ==
  ASSUME LoopTypeOK, Shape, Steered, QueueMove,
         \A q : q = Queue' /\ Told(q) => Told(q)'
  PROVE  Steered'
<1>1. Rising(Queue') /\ Later(Queue, Queue')
  BY QueueMoves DEF Steered
<1>2. PICK q : q = Queue'
  OBVIOUS
<1>3. Told(q)
  BY <1>1, <1>2, ToldLater DEF Steered
<1>4. Told(q)'
  BY <1>2, <1>3
<1> QED BY <1>1, <1>2, <1>4 DEF Steered
-----------------------------------------------------------------------------
(***************************************************************************)
(* The handlers.  Most leave the context alone or hand the turn a list     *)
(* without steers.                                                         *)
(***************************************************************************)
Mild(ops) ==
  /\ ops \in Seq(Op)
  /\ \A i \in DOMAIN ops : /\ ops[i].name \notin RevertName \cup {"reset"}
                           /\ Steerless(ops[i].msgs)

\* The operations of the handlers that are no reverts.
LEMMA MildOnes ==
  /\ \A name \in {"checkpoint", "clear", "system"} : Mild(<<Call(name)>>)
  /\ \A n \in Nat : Mild(<<CallUsage(n)>>)
  /\ \A m \in Seq(Message) : Steerless(m) => Mild(<<CallAppend(m)>>)
<1>1. \A op \in Op : op.name \notin RevertName \cup {"reset"} /\ Steerless(op.msgs)
        => Mild(<<op>>)
  <2> SUFFICES ASSUME NEW op \in Op, op.name \notin RevertName \cup {"reset"},
                      Steerless(op.msgs)
               PROVE  Mild(<<op>>)
    OBVIOUS
  <2>1. <<op>> \in Seq(Op) /\ DOMAIN <<op>> = {1} /\ <<op>>[1] = op
    OBVIOUS
  <2> QED BY <2>1 DEF Mild
<1>2. \A name \in {"checkpoint", "clear", "system"} :
        Call(name) \in Op /\ Call(name).name \notin RevertName \cup {"reset"}
  BY OpTypes DEF RevertName
<1>3. \A n \in Nat : CallUsage(n) \in Op /\ CallUsage(n).name \notin RevertName \cup {"reset"}
  BY OpTypes DEF RevertName
<1>4. \A m \in Seq(Message) :
        CallAppend(m) \in Op /\ CallAppend(m).name \notin RevertName \cup {"reset"}
  BY OpTypes DEF RevertName
<1> QED BY <1>1, <1>2, <1>3, <1>4, CallSteers

\* Mild lists are closed under concatenation.
LEMMA MildConcat ==
  ASSUME NEW a, NEW b, Mild(a), Mild(b)
  PROVE  Mild(a \o b)
<1>1. a \in Seq(Op) /\ b \in Seq(Op)
  BY DEF Mild
<1>2. /\ a \o b \in Seq(Op) /\ Len(a) \in Nat /\ Len(b) \in Nat
      /\ DOMAIN a = 1 .. Len(a) /\ DOMAIN b = 1 .. Len(b)
      /\ DOMAIN (a \o b) = 1 .. Len(a) + Len(b)
      /\ \A i \in 1 .. Len(a) : (a \o b)[i] = a[i]
      /\ \A i \in 1 .. Len(b) : (a \o b)[Len(a) + i] = b[i]
  BY <1>1, ConcatAt
<1>3. ASSUME NEW i \in 1 .. Len(a) + Len(b)
      PROVE  /\ (a \o b)[i].name \notin RevertName \cup {"reset"}
             /\ Steerless((a \o b)[i].msgs)
  <2>1. CASE i \in 1 .. Len(a)
    BY <1>2, <2>1 DEF Mild
  <2>2. CASE i \notin 1 .. Len(a)
    <3>1. i - Len(a) \in 1 .. Len(b) /\ i = Len(a) + (i - Len(a))
      BY <1>2, <2>2
    <3>2. (a \o b)[i] = b[i - Len(a)]
      BY <1>2, <3>1
    <3> QED BY <1>2, <3>1, <3>2 DEF Mild
  <2> QED BY <2>1, <2>2
<1> QED BY <1>2, <1>3 DEF Mild

\* What a turn begins with is mild.
LEMMA MildTurn == Mild(TurnOps)
<1>1. Mild(<<Call("checkpoint")>>) /\ Mild(<<CallAppend(<<UserMessage>>)>>)
  BY MildOnes, NoSteers
<1>2. <<Call("checkpoint")>> \o <<CallAppend(<<UserMessage>>)>> = TurnOps
  BY OpTypes, PairOfOps DEF TurnOps
<1> QED BY <1>1, <1>2, MildConcat

\* A handler that awaits a mild list, or a revert and a mild list.
LEMMA AwaitMild ==
  ASSUME Shape, NEW ops \in Seq(Op), Await(ops), UNCHANGED contextRest, NEW q, Told(q),
         \A i \in DOMAIN ops : ops[i].name # "reset" /\ Steerless(ops[i].msgs)
  PROVE  Told(q)'
<1>1. Coming(ops, q)
  BY PlainComes
<1>2. UNCHANGED <<history, file, rotated, writing>>
  BY DEF contextRest, memory
<1> QED BY <1>1, <1>2, AwaitTells DEF Await

\* The handlers that leave the context alone.
LEMMA QuietSteer ==
  ASSUME LoopTypeOK, Shape, Steered,
         \/ Prompt \/ BlockPrompt \/ CompactCommand \/ CommandDone
         \/ EnterLoop \/ OutOfSteps \/ CompactFails \/ Checkpointed
         \/ CallModel \/ ModelFails \/ StreamToolCall \/ ModelRetry
         \/ UnsupportedResult \/ StepRejected \/ Reverted \/ StepAssertionFails
         \/ StepContinues \/ NextStep \/ StopTurn \/ EndRun \/ Steer
         \/ \E id \in 0 .. nCheckpoints : SendDMail(id)
         \/ UNCHANGED vars
  PROVE  Steered'
<1> DEFINE Still == UNCHANGED contextVars /\ QueueMove
<1>1. ASSUME Still PROVE Steered'
  BY <1>1, ToldStays, SteeredOn
<1>2. Prompt \/ BlockPrompt \/ CompactCommand \/ CommandDone => Still
  BY DEF Prompt, BlockPrompt, CompactCommand, CommandDone, QueueMove, bounds
<1>3. EnterLoop \/ OutOfSteps \/ CompactFails \/ Checkpointed => Still
  BY DEF EnterLoop, OutOfSteps, CompactFails, Checkpointed, QueueMove, bounds
<1>4. CallModel \/ ModelFails \/ StreamToolCall \/ ModelRetry => Still
  BY DEF CallModel, ModelFails, StreamToolCall, ModelRetry, QueueMove, bounds
<1>5. UnsupportedResult \/ StepRejected \/ Reverted \/ StepAssertionFails => Still
  BY DEF UnsupportedResult, StepRejected, Reverted, StepAssertionFails, QueueMove, bounds
<1>6. StepContinues \/ NextStep \/ StopTurn \/ EndRun => Still
  BY DEF StepContinues, NextStep, StopTurn, EndRun, QueueMove, bounds
<1>7. (\E id \in 0 .. nCheckpoints : SendDMail(id)) \/ UNCHANGED vars => Still
  BY DEF SendDMail, QueueMove, bounds, vars
<1>8. Steer => Still
  <2> SUFFICES ASSUME Steer PROVE Still
    OBVIOUS
  <2>1. /\ UNCHANGED contextVars /\ steerCount' = steerCount + 1
        /\ steers' = Append(steers, [role |-> "user", n |-> steerCount'])
    BY DEF Steer
  <2> QED BY <2>1 DEF QueueMove, NextSteer
<1> HIDE DEF Still
<1> QED BY <1>1, <1>2, <1>3, <1>4, <1>5, <1>6, <1>7, <1>8

\* The handlers that await operations without steers.
LEMMA AwaitSteer ==
  ASSUME LoopTypeOK, Shape, Steered,
         \/ BeginTurn \/ StopHookTurn \/ ClearCommand \/ BeginStep \/ Note
         \/ ModelAnswers \/ StepReverts
  PROVE  Steered'
<1> DEFINE Calling(ops) == Await(ops) /\ UNCHANGED contextRest /\ steers' = steers
                             /\ steerCount' = steerCount
<1>1. ASSUME NEW ops, Calling(ops), ops \in Seq(Op),
             \A i \in DOMAIN ops : ops[i].name # "reset" /\ Steerless(ops[i].msgs)
      PROVE  Steered'
  <2>1. QueueMove
    BY <1>1 DEF QueueMove
  <2> QED BY <1>1, <2>1, AwaitMild, SteeredOn
<1>2. ASSUME NEW ops, Calling(ops), Mild(ops)
      PROVE  Steered'
  BY <1>1, <1>2 DEF Mild
<1>3. ASSUME contextRest' = contextRest, todo' = todo, steers' = steers,
             steerCount' = steerCount
      PROVE  Steered'
  <2>1. UNCHANGED contextVars /\ QueueMove
    BY <1>3 DEF contextVars, contextRest, memory, QueueMove
  <2> QED BY <2>1, ToldStays, SteeredOn
<1>4. CASE BeginTurn \/ StopHookTurn
  <2>1. Calling(TurnOps)
    BY <1>4 DEF BeginTurn, StopHookTurn, bounds
  <2> QED BY <1>2, <2>1, MildTurn
<1>5. CASE ClearCommand
  <2>1. Mild(<<Call("clear")>> \o <<Call("system")>>)
    BY MildOnes, MildConcat
  <2>2. <<Call("clear")>> \o <<Call("system")>> = <<Call("clear"), Call("system")>>
    BY OpTypes, PairOfOps
  <2>3. Calling(<<Call("clear"), Call("system")>>)
    BY <1>5 DEF ClearCommand, bounds
  <2> QED BY <1>2, <2>1, <2>2, <2>3
<1>6. CASE BeginStep
  <2>1. /\ UNCHANGED contextRest /\ steers' = steers /\ steerCount' = steerCount
        /\ todo' = todo \/ Await(<<Call("checkpoint")>>)
    BY <1>6 DEF BeginStep, bounds
  <2>2. Mild(<<Call("checkpoint")>>)
    BY MildOnes
  <2> QED BY <1>2, <1>3, <2>1, <2>2
<1>7. CASE Note
  <2>1. Calling(<<CallAppend(<<UserMessage>>)>>)
    BY <1>7 DEF Note
  <2>2. Mild(<<CallAppend(<<UserMessage>>)>>)
    BY MildOnes, NoSteers
  <2> QED BY <1>2, <2>1, <2>2
<1>8. CASE ModelAnswers
  <2>1. /\ UNCHANGED contextRest /\ steers' = steers /\ steerCount' = steerCount
        /\ todo' = todo \/ Await(<<CallUsage(Len(sent))>>)
    BY <1>8 DEF ModelAnswers, bounds
  <2>2. Len(sent) \in Nat
    BY LenProperties DEF LoopTypeOK
  <2>3. Mild(<<CallUsage(Len(sent))>>)
    BY <2>2, MildOnes
  <2> QED BY <1>2, <1>3, <2>1, <2>3
<1>9. CASE StepReverts
  <2>1. PICK id \in Nat : Await(<<CallRevert(id), Call("checkpoint"),
                                  CallAppend(<<UserMessage>>)>>)
    BY <1>9 DEF StepReverts, LoopTypeOK
  <2> DEFINE ops == <<CallRevert(id), Call("checkpoint"), CallAppend(<<UserMessage>>)>>
  <2>2. /\ CallRevert(id) \in Op /\ Call("checkpoint") \in Op
        /\ CallAppend(<<UserMessage>>) \in Op
    BY OpTypes
  <2>3. /\ CallRevert(id).name # "reset" /\ Call("checkpoint").name # "reset"
        /\ CallAppend(<<UserMessage>>).name # "reset"
        /\ Steerless(CallRevert(id).msgs) /\ Steerless(Call("checkpoint").msgs)
        /\ Steerless(CallAppend(<<UserMessage>>).msgs)
    BY CallSteers, NoSteers
  <2>4. /\ ops \in Seq(Op) /\ DOMAIN ops = 1 .. 3
        /\ ops[1] = CallRevert(id) /\ ops[2] = Call("checkpoint")
        /\ ops[3] = CallAppend(<<UserMessage>>)
    BY <2>2
  <2>5. \A i \in DOMAIN ops : ops[i].name # "reset" /\ Steerless(ops[i].msgs)
    BY <2>3, <2>4
  <2>6. Calling(ops)
    BY <1>9, <2>1 DEF StepReverts, bounds
  <2> HIDE DEF ops, Calling
  <2> QED BY <1>1, <2>4, <2>5, <2>6
<1> QED BY <1>4, <1>5, <1>6, <1>7, <1>8, <1>9
-----------------------------------------------------------------------------
(***************************************************************************)
(* A steer is taken from the queue.                                        *)
(***************************************************************************)
LEMMA ConsumeSteers ==
  ASSUME LoopTypeOK, Shape, Steered, ConsumeSteer
  PROVE  Steered'
<1>1. /\ steers # <<>> /\ Await(<<CallAppend(<<Head(steers)>>)>>)
      /\ steers' = Tail(steers) /\ steerCount' = steerCount
      /\ UNCHANGED <<history, file, rotated, writing>>
  BY DEF ConsumeSteer, contextRest, memory, bounds
<1>2. PICK m \in Seq(Line) : m = <<Head(steers)>>
  BY <1>1, QueueHead
<1>3. m \in Seq(Message)
  BY <1>1, <1>2, QueueHead
<1>4. PICK r \in Seq(Line) : r = Tail(steers) \o <<NextSteer>>
  BY <1>1, QueueHead
<1>5. Queue = m \o r
  BY <1>1, <1>2, <1>4, QueueHead
<1>6. Queue' = r
  BY <1>1, <1>4 DEF Queue, NextSteer
<1>7. /\ history \in Seq(Line) /\ Log("turn") \in Seq(Line)
  BY ToldTypes, ConcatAt DEF Shape, Log
<1>8. Spoken(m, r) /\ Ready(m)
  <2>1. Rising(m \o r) /\ Precedes(history, m \o r) /\ Precedes(Log("turn"), m \o r)
    BY <1>5 DEF Steered, Told, Spoken
  <2> QED BY <1>7, <2>1, ConcatOrder DEF Spoken, Ready
<1>9. PICK op \in Op : op = CallAppend(m)
  BY <1>3, OpTypes
<1>10. op.name = "append" /\ op.msgs = m
  BY <1>9, CallSteers
<1>11. PICK ops \in Seq(Op) : ops = <<op>>
  <2>1. <<op>> \in Seq(Op)
    OBVIOUS
  <2> QED BY <2>1
<1>12. DOMAIN ops = {1} /\ ops[1] = op
  BY <1>11
<1>13. Coming(ops, r)
  BY <1>8, <1>10, <1>12 DEF Coming, RevertName
<1>14. todo' = [todo EXCEPT !["turn"] = ops]
  BY <1>1, <1>2, <1>9, <1>11 DEF Await
<1>15. \A i \in DOMAIN ops : ops[i].name # "reset"
  BY <1>10, <1>12
<1>16. ASSUME NEW q, q = Queue', Told(q)
       PROVE  Told(q)'
  <2>1. Coming(ops, q)
    BY <1>6, <1>13, <1>16
  <2> QED BY <1>1, <1>14, <1>15, <1>16, <2>1, AwaitTells
<1>17. QueueMove
  BY <1>1 DEF QueueMove
<1> QED BY <1>16, <1>17, SteeredOn

-----------------------------------------------------------------------------
(***************************************************************************)
(* Compaction: what is left of a conversation is in its order, and the     *)
(* rebuild clears it before it says it again.                              *)
(***************************************************************************)
\* A part of a sequence has the order of the whole.
LEMMA PartOrder ==
  ASSUME NEW s, NEW p, NEW f, Rising(s),
         \A i \in DOMAIN p : f[i] \in DOMAIN s /\ p[i] = s[f[i]],
         \A i, j \in DOMAIN p : i < j => f[i] < f[j]
  PROVE  Rising(p) /\ \A x : Precedes(s, x) => Precedes(p, x)
<1>1. Rising(p)
  <2> SUFFICES ASSUME NEW i \in DOMAIN p, NEW j \in DOMAIN p, i < j,
                      IsSteer(p[i]), IsSteer(p[j])
               PROVE  p[i].n < p[j].n
    BY DEF Rising
  <2>1. /\ f[i] \in DOMAIN s /\ p[i] = s[f[i]] /\ f[j] \in DOMAIN s /\ p[j] = s[f[j]]
        /\ f[i] < f[j]
    OBVIOUS
  <2> QED BY <2>1 DEF Rising
<1>2. ASSUME NEW x, Precedes(s, x)
      PROVE  Precedes(p, x)
  BY <1>2 DEF Precedes
<1> QED BY <1>1, <1>2

\* Two messages, taken apart.
LEMMA PairOfMessages ==
  ASSUME NEW a \in Message, NEW b \in Message
  PROVE  <<a>> \o <<b>> = <<a, b>>
<1>1. /\ <<a>> \in Seq(Message) /\ <<b>> \in Seq(Message) /\ <<a, b>> \in Seq(Message)
      /\ Len(<<a>>) = 1 /\ Len(<<b>>) = 1 /\ Len(<<a, b>>) = 2
      /\ <<a>>[1] = a /\ <<b>>[1] = b /\ <<a, b>>[1] = a /\ <<a, b>>[2] = b
  OBVIOUS
<1>2. /\ <<a>> \o <<b>> \in Seq(Message) /\ Len(<<a>> \o <<b>>) = 2
      /\ (<<a>> \o <<b>>)[1] = a /\ (<<a>> \o <<b>>)[1 + 1] = b
  BY <1>1, ConcatAt
<1>3. \A i \in 1 .. 2 : (<<a>> \o <<b>>)[i] = <<a, b>>[i]
  BY <1>1, <1>2
<1> QED BY <1>1, <1>2, <1>3, SeqEqual

\* The summary and what a compaction preserves.
LEMMA CompactedOrder ==
  ASSUME NEW h \in Seq(Message), Rising(h)
  PROVE  Rising(Compacted(h)) /\ \A x : Precedes(h, x) => Precedes(Compacted(h), x)
<1>1. CASE Cardinality({j \in DOMAIN h : Speaks(h[j])}) < PreserveDepth
  BY <1>1 DEF Compacted
<1>2. CASE ~(Cardinality({j \in DOMAIN h : Speaks(h[j])}) < PreserveDepth)
  <2> DEFINE start == PreserveStart(h)
             kept == SubSeq(h, start, Len(h))
             first == <<h[1]>>
  <2>1. start \in DOMAIN h
    BY <1>2, PreserveStartExists
  <2>2. Len(h) \in Nat /\ DOMAIN h = 1 .. Len(h) /\ 1 \in DOMAIN h
    BY <2>1, LenProperties
  <2>3. \A i \in 1 .. Len(h) : h[i] \in Message
    BY <2>2, ElementOfSeq
  <2>4. /\ kept \in Seq(Message) /\ Len(kept) = Len(h) - start + 1
        /\ \A i \in 1 .. Len(h) - start + 1 : kept[i] = h[start + i - 1]
    BY <2>1, <2>2, <2>3, SubSeqProperties
  <2>5. Compacted(h) = CASE start = 1 -> h
                         [] start = 2 -> <<h[1]>> \o kept
                         [] OTHER     -> <<UserMessage, h[1]>> \o kept
    BY <1>2 DEF Compacted
  <2> HIDE DEF start, kept
  <2>6. DOMAIN kept = 1 .. Len(h) - start + 1
    BY <2>4, LenProperties
  <2>7. first \in Seq(Message) /\ DOMAIN first = {1} /\ first[1] = h[1]
    BY <2>2, <2>3
  <2>8. Rising(kept) /\ Rising(first)
    <3>1. Rising(kept)
      <4> DEFINE f == [i \in DOMAIN kept |-> start + i - 1]
      <4>1. \A i \in DOMAIN kept : f[i] \in DOMAIN h /\ kept[i] = h[f[i]]
        BY <2>1, <2>2, <2>4, <2>6
      <4>2. \A i, j \in DOMAIN kept : i < j => f[i] < f[j]
        BY <2>1, <2>2, <2>6
      <4> HIDE DEF f
      <4> QED BY <4>1, <4>2, PartOrder
    <3> QED BY <2>7, <3>1 DEF Rising
  <2>9. ASSUME NEW x, Precedes(h, x)
        PROVE  Precedes(kept, x) /\ Precedes(first, x)
    <3>1. Precedes(kept, x)
      <4> SUFFICES ASSUME NEW i \in DOMAIN kept, NEW j \in DOMAIN x,
                          IsSteer(kept[i]), IsSteer(x[j])
                   PROVE  kept[i].n < x[j].n
        BY DEF Precedes
      <4>1. start + i - 1 \in DOMAIN h /\ kept[i] = h[start + i - 1]
        BY <2>1, <2>2, <2>4, <2>6
      <4> QED BY <2>9, <4>1 DEF Precedes
    <3>2. Precedes(first, x)
      BY <2>2, <2>7, <2>9 DEF Precedes
    <3> QED BY <3>1, <3>2
  <2>10. ASSUME start # 1
         PROVE  Precedes(first, kept)
    <3> SUFFICES ASSUME NEW j \in DOMAIN kept, IsSteer(h[1]), IsSteer(kept[j])
                 PROVE  h[1].n < kept[j].n
      BY <2>7 DEF Precedes
    <3>1. start + j - 1 \in DOMAIN h /\ kept[j] = h[start + j - 1] /\ 1 < start + j - 1
      BY <2>1, <2>2, <2>4, <2>6, <2>10
    <3> QED BY <2>2, <3>1 DEF Rising
  <2>11. first \in Seq(Line) /\ kept \in Seq(Line)
    BY <2>4, <2>7, NoWriteNoCheckpoint
  <2>12. first \o kept \in Seq(Message) /\ first \o kept \in Seq(Line)
    BY <2>4, <2>7, ConcatMessages, NoWriteNoCheckpoint
  <2>13. PICK u \in Seq(Line) : u = <<UserMessage>>
    BY NoSteers, NoWriteNoCheckpoint
  <2>14. u \in Seq(Message) /\ Steerless(u)
    BY <2>13, NoSteers
  <2>15. <<UserMessage, h[1]>> \o kept = u \o (first \o kept)
    <3>1. u \o first = <<UserMessage, h[1]>>
      <4>1. UserMessage \in Message /\ h[1] \in Message
        BY <2>2, <2>3, OpTypes
      <4> QED BY <2>13, <4>1, PairOfMessages
    <3>2. (u \o first) \o kept = u \o (first \o kept)
      BY <2>4, <2>7, <2>14, ConcatMessages
    <3> QED BY <3>1, <3>2
  <2> HIDE DEF first
  <2>16. ASSUME start # 1
         PROVE  /\ Rising(first \o kept)
                /\ \A x : Precedes(h, x) => Precedes(first \o kept, x)
    BY <2>8, <2>9, <2>10, <2>11, <2>16, ConcatOrder
  <2>17. ASSUME start # 1
         PROVE  /\ Rising(u \o (first \o kept))
                /\ \A x : Precedes(h, x) => Precedes(u \o (first \o kept), x)
    <3>1. Rising(u) /\ \A x : Precedes(u, x)
      BY <2>14, SteerlessFits
    <3> QED BY <2>12, <2>13, <2>16, <2>17, <3>1, ConcatOrder
  <2>18. CASE start = 1
    BY <2>5, <2>18
  <2>19. CASE start = 2
    <3>1. Compacted(h) = first \o kept
      BY <2>5, <2>19 DEF first
    <3> QED BY <2>16, <2>19, <3>1
  <2>20. CASE start \notin {1, 2}
    <3>1. Compacted(h) = u \o (first \o kept)
      BY <2>5, <2>15, <2>20
    <3> QED BY <2>17, <2>20, <3>1
  <2> QED BY <2>18, <2>19, <2>20
<1> QED BY <1>1, <1>2

\* A list that clears the conversation and then says msgs, and only that.
Rebuild(ops, msgs) ==
  /\ ops \in Seq(Op) /\ 4 \in DOMAIN ops
  /\ ops[1].name = "clear" /\ ops[4].msgs = msgs
  /\ \A i \in DOMAIN ops : /\ ops[i].name \notin RevertName \cup {"reset"}
                           /\ i # 4 => Steerless(ops[i].msgs)

\* It may be awaited when msgs comes before what the user has still to see.
LEMMA RebuildComes ==
  ASSUME NEW ops, NEW msgs, NEW q, Rebuild(ops, msgs), Spoken(msgs, q)
  PROVE  /\ ops \in Seq(Op) /\ Coming(ops, q)
         /\ \A i \in DOMAIN ops : ops[i].name # "reset"
<1>1. ops \in Seq(Op) /\ Head(ops) = ops[1] /\ ops[1].name = "clear"
  <2>1. ops \in Seq(Op) /\ 4 \in DOMAIN ops
    BY DEF Rebuild
  <2>2. ops # <<>>
    BY <2>1, LenProperties, EmptySeq
  <2> QED BY <2>1, <2>2, HeadTailProperties DEF Rebuild
<1>2. \A i \in DOMAIN ops : Spoken(ops[i].msgs, q)
  BY SteerlessFits DEF Rebuild, Spoken
<1>3. \A i, j \in DOMAIN ops : i # j => Steerless(ops[i].msgs) \/ Steerless(ops[j].msgs)
  BY DEF Rebuild
<1>4. \A i \in DOMAIN ops : ops[i].name \notin RevertName \cup {"reset"}
  BY DEF Rebuild
<1> QED BY <1>1, <1>2, <1>3, <1>4 DEF Coming

\* What is awaited behind a rebuild.
LEMMA RebuildOn ==
  ASSUME NEW a, NEW msgs, NEW b, Rebuild(a, msgs), Mild(b)
  PROVE  Rebuild(a \o b, msgs)
<1>1. a \in Seq(Op) /\ b \in Seq(Op) /\ 4 \in DOMAIN a
  BY DEF Mild, Rebuild
<1>2. /\ a \o b \in Seq(Op) /\ Len(a) \in Nat /\ Len(b) \in Nat
      /\ DOMAIN a = 1 .. Len(a) /\ DOMAIN b = 1 .. Len(b)
      /\ DOMAIN (a \o b) = 1 .. Len(a) + Len(b)
      /\ \A i \in 1 .. Len(a) : (a \o b)[i] = a[i]
      /\ \A i \in 1 .. Len(b) : (a \o b)[Len(a) + i] = b[i]
  BY <1>1, ConcatAt
<1>3. 4 \in DOMAIN (a \o b) /\ (a \o b)[1].name = "clear" /\ (a \o b)[4].msgs = msgs
  <2>1. 1 \in 1 .. Len(a) /\ 4 \in 1 .. Len(a) /\ 4 \in 1 .. Len(a) + Len(b)
    BY <1>1, <1>2
  <2> QED BY <1>2, <2>1 DEF Rebuild
<1>4. ASSUME NEW i \in 1 .. Len(a) + Len(b)
      PROVE  /\ (a \o b)[i].name \notin RevertName \cup {"reset"}
             /\ i # 4 => Steerless((a \o b)[i].msgs)
  <2>1. CASE i \in 1 .. Len(a)
    BY <1>2, <2>1 DEF Rebuild
  <2>2. CASE i \notin 1 .. Len(a)
    <3>1. i - Len(a) \in 1 .. Len(b) /\ i = Len(a) + (i - Len(a))
      BY <1>2, <2>2
    <3>2. (a \o b)[i] = b[i - Len(a)]
      BY <1>2, <3>1
    <3> QED BY <1>2, <3>1, <3>2 DEF Mild
  <2> QED BY <2>1, <2>2
<1> QED BY <1>2, <1>3, <1>4 DEF Rebuild

\* The first four operations of a compaction are one.
LEMMA RebuildFirst ==
  ASSUME NEW msgs \in Seq(Message)
  PROVE  Rebuild(<<Call("clear"), Call("system"), Call("checkpoint"), CallAppend(msgs)>>,
                 msgs)
<1> DEFINE a == Call("clear")
           b == Call("system")
           c == Call("checkpoint")
           d == CallAppend(msgs)
           ops == <<a, b, c, d>>
<1>1. /\ a \in Op /\ a.name = "clear" /\ b \in Op /\ b.name = "system"
      /\ c \in Op /\ c.name = "checkpoint" /\ d \in Op /\ d.name = "append"
  BY OpTypes
<1>2. Steerless(a.msgs) /\ Steerless(b.msgs) /\ Steerless(c.msgs) /\ d.msgs = msgs
  BY CallSteers
<1> HIDE DEF a, b, c, d
<1>3. /\ ops \in Seq(Op) /\ DOMAIN ops = 1 .. 4
      /\ ops[1] = a /\ ops[2] = b /\ ops[3] = c /\ ops[4] = d
  BY <1>1
<1> HIDE DEF ops
<1>4. \A i \in 1 .. 4 : i = 1 \/ i = 2 \/ i = 3 \/ i = 4
  OBVIOUS
<1>5. Rebuild(ops, msgs)
  BY <1>1, <1>2, <1>3, <1>4 DEF Rebuild, RevertName
<1> QED BY <1>5 DEF ops, a, b, c, d

\* A compaction says again what it preserves.
LEMMA CompactSteers ==
  ASSUME LoopTypeOK, Shape, Steered, Compact
  PROVE  Steered'
<1>1. history \in Seq(Message)
  BY DEF Shape, ContextTypeOK
<1>2. PICK msgs \in Seq(Message) : msgs = Compacted(history)
  BY <1>1, CompactedType
<1> DEFINE A == <<Call("clear"), Call("system"), Call("checkpoint"), CallAppend(msgs)>>
           S(snapshot) == IF snapshot = <<>> THEN <<>> ELSE <<CallAppend(snapshot)>>
           u(snapshot) == <<CallUsage(Len(msgs) + Len(snapshot))>>
           c == <<Call("checkpoint")>>
           R(snapshot) == A \o S(snapshot) \o u(snapshot)
<1>3. PICK snapshot \in {<<>>, <<UserMessage>>} :
        Await(R(snapshot)) \/ Await(R(snapshot) \o c)
  BY <1>2 DEF Compact
<1>4. /\ UNCHANGED <<history, file, rotated, writing>>
      /\ steers' = steers /\ steerCount' = steerCount
  BY DEF Compact, contextRest, memory, bounds
<1>5. Rebuild(A, msgs)
  BY RebuildFirst
<1>6. /\ snapshot \in Seq(Message) /\ Steerless(snapshot)
      /\ Len(msgs) \in Nat /\ Len(snapshot) \in Nat
  <2>1. snapshot \in Seq(Message) /\ Steerless(snapshot)
    <3>1. <<>> \in Seq(Message)
      OBVIOUS
    <3> QED BY <3>1, NoSteers
  <2> QED BY <2>1, LenProperties
<1>7. Mild(u(snapshot)) /\ Mild(c)
  <2>1. Len(msgs) + Len(snapshot) \in Nat
    BY <1>6
  <2> QED BY <2>1, MildOnes
<1>8. Mild(S(snapshot))
  <2>1. Mild(<<CallAppend(snapshot)>>)
    BY <1>6, MildOnes
  <2>2. Mild(<<>>)
    BY DEF Mild
  <2> QED BY <2>1, <2>2
<1> HIDE DEF A, S, u, c
<1>9. Rebuild(R(snapshot), msgs)
  <2>1. Rebuild(A \o S(snapshot), msgs)
    BY <1>5, <1>8, RebuildOn
  <2> QED BY <1>7, <2>1, RebuildOn
<1> HIDE DEF R
<1>10. PICK ops : Await(ops) /\ Rebuild(ops, msgs)
  BY <1>3, <1>7, <1>9, RebuildOn
<1>11. QueueMove
  BY <1>4 DEF QueueMove
<1>12. ASSUME NEW q, q = Queue', Told(q)
       PROVE  Told(q)'
  <2>1. Spoken(history, q)
    BY <1>12 DEF Told
  <2>2. Spoken(msgs, q)
    BY <1>1, <1>2, <2>1, CompactedOrder DEF Spoken
  <2>3. /\ ops \in Seq(Op) /\ Coming(ops, q)
        /\ \A i \in DOMAIN ops : ops[i].name # "reset"
    BY <1>10, <2>2, RebuildComes
  <2> QED BY <1>4, <1>10, <1>12, <2>3, AwaitTells DEF Await
<1> QED BY <1>11, <1>12, SteeredOn

\* The growth brings the answer and the results of its tools: no steers.
LEMMA GrowSteers ==
  ASSUME LoopTypeOK, Shape, Steered, Grow
  PROVE  Steered'
<1>1. /\ todo' = [todo EXCEPT !["grow"] = GrowOps]
      /\ UNCHANGED <<history, file, rotated, writing>>
      /\ steers' = steers /\ steerCount' = steerCount
  BY DEF Grow, contextRest, memory, bounds
<1>2. calls \in Nat /\ sent \in Seq(Message)
  BY DEF LoopTypeOK
<1>3. Mild(GrowOps)
  <2> DEFINE a == <<CallAppend(<<AssistantMessage>>)>>
             b == IF usage THEN <<CallUsage(Len(sent) + 1)>> ELSE <<>>
             c == <<CallAppend(ToolMessages)>>
  <2>1. <<AssistantMessage>> \in Seq(Message) /\ ToolMessages \in Seq(Message)
    BY <1>2, AnsweredGrowth
  <2>2. Steerless(<<AssistantMessage>>) /\ Steerless(ToolMessages)
    <3>1. \A i \in DOMAIN <<AssistantMessage>> : <<AssistantMessage>>[i] = AssistantMessage
      OBVIOUS
    <3>2. ~IsSteer(AssistantMessage)
      BY DEF AssistantMessage, IsSteer
    <3>3. \A i \in DOMAIN ToolMessages : ~IsSteer(ToolMessages[i])
      BY DEF ToolMessages, IsSteer
    <3> QED BY <3>1, <3>2, <3>3 DEF Steerless
  <2>3. Mild(a) /\ Mild(c)
    BY <2>1, <2>2, MildOnes
  <2>4. Mild(b)
    <3>1. Len(sent) + 1 \in Nat
      BY <1>2, LenProperties
    <3>2. Mild(<<CallUsage(Len(sent) + 1)>>)
      BY <3>1, MildOnes
    <3>3. Mild(<<>>)
      BY DEF Mild
    <3> QED BY <3>2, <3>3
  <2>5. GrowOps = a \o b \o c
    BY DEF GrowOps
  <2> HIDE DEF a, b, c
  <2>6. Mild(a \o b)
    BY <2>3, <2>4, MildConcat
  <2> QED BY <2>3, <2>5, <2>6, MildConcat
<1>4. QueueMove
  BY <1>1 DEF QueueMove
<1>5. ASSUME NEW q, q = Queue', Told(q)
      PROVE  Told(q)'
  <2>1. \A i \in DOMAIN GrowOps : Steerless(GrowOps[i].msgs)
    BY <1>3 DEF Mild
  <2> HIDE DEF GrowOps
  <2> QED BY <1>1, <1>5, <2>1, GrowthAwaited
<1> QED BY <1>4, <1>5, SteeredOn
-----------------------------------------------------------------------------
(***************************************************************************)
(* The other steps of the soul and its process, and the theorem.           *)
(***************************************************************************)
\* One operation of the context, or a run that is cancelled.
LEMMA ContextSteers ==
  ASSUME LoopTypeOK, Shape, Steered, (\E t \in Task : ContextNext(t)) \/ Cancel
  PROVE  Steered'
<1>1. steers' = steers /\ steerCount' = steerCount
  BY DEF ContextNext, Cancel, bounds
<1>2. QueueMove
  BY <1>1 DEF QueueMove
<1>3. ASSUME NEW q, q = Queue', Told(q)
      PROVE  Told(q)'
  <2>1. CASE \E t \in Task : ContextNext(t)
    <3>1. PICK t \in Task : ContextStep(t)
      BY <2>1 DEF ContextNext
    <3> QED BY <1>3, <3>1, ContextStepTells
  <2>2. CASE Cancel
    <3>1. Interrupt("turn")
      BY <2>2 DEF Cancel
    <3> QED BY <1>3, <3>1, InterruptTells
  <2> QED BY <2>1, <2>2
<1> QED BY <1>2, <1>3, SteeredOn

\* A crash loses the queue and keeps the order.
LEMMA CrashSteers ==
  ASSUME LoopTypeOK, Shape, Steered, Crash
  PROVE  Steered'
<1>1. CrashContext /\ steers' = <<>> /\ steerCount' = steerCount
  BY DEF Crash
<1>2. QueueMove
  BY <1>1 DEF QueueMove
<1>3. ASSUME NEW q, q = Queue', Told(q)
      PROVE  Told(q)'
  BY <1>1, <1>3, CrashTells
<1> QED BY <1>2, <1>3, SteeredOn

\* A new session has no steer.
LEMMA InitSteered == Init => Steered
<1> SUFFICES ASSUME Init PROVE Steered
  OBVIOUS
<1>1. /\ history = <<>> /\ file = <<SystemLine>> /\ rotated = <<>>
      /\ \A t \in Task : todo[t] = <<>> /\ writing[t] = <<>>
      /\ steers = <<>> /\ steerCount = 0
  BY DEF Init, ContextInit
<1>2. LoopTypeOK
  BY <1>1, InitIInv DEF IInv
<1>3. Queue = <<NextSteer>>
  BY <1>1, <1>2, QueueType, ConcatEmptySeq DEF Queue
<1>4. Rising(Queue)
  <2>1. \A i, j \in DOMAIN <<NextSteer>> : i = j
    OBVIOUS
  <2>2. \A i, j \in DOMAIN <<NextSteer>> : ~(i < j)
    OBVIOUS
  <2> QED BY <1>3, <2>2 DEF Rising
<1>5. \A s : Steerless(s) => Spoken(s, Queue)
  BY SteerlessFits DEF Spoken
<1>6. Spoken(history, Queue) /\ Spoken(file, Queue) /\ Spoken(rotated, Queue)
  BY <1>1, <1>5, NoSteers
<1>7. file \in Seq(Line)
  BY <1>1, NoSteers
<1> QED BY <1>1, <1>4, <1>6, <1>7, IdleTold DEF Steered

\* Every step keeps the steers in their order.
LEMMA NextSteered ==
  ASSUME IInv, Steered, [Next]_vars
  PROVE  Steered'
<1>1. LoopTypeOK /\ Shape
  BY DEF IInv
<1>2. CASE Prompt \/ Steer \/ UNCHANGED vars
  BY <1>1, <1>2, QuietSteer
<1>3. CASE RunStep
  <2>1. CASE \/ BeginTurn \/ StopHookTurn \/ ClearCommand \/ BeginStep \/ Note
             \/ ModelAnswers \/ StepReverts
    BY <1>1, <2>1, AwaitSteer
  <2>2. CASE Compact \/ ConsumeSteer \/ Grow
    BY <1>1, <2>2, CompactSteers, ConsumeSteers, GrowSteers
  <2>3. CASE \/ BlockPrompt \/ CompactCommand \/ CommandDone
             \/ EnterLoop \/ OutOfSteps \/ CompactFails \/ Checkpointed
             \/ CallModel \/ ModelFails \/ StreamToolCall \/ ModelRetry
             \/ UnsupportedResult \/ StepRejected \/ Reverted \/ StepAssertionFails
             \/ StepContinues \/ NextStep \/ StopTurn \/ EndRun
             \/ \E id \in 0 .. nCheckpoints : SendDMail(id)
    BY <1>1, <2>3, QuietSteer
  <2> QED BY <1>3, <2>1, <2>2, <2>3 DEF RunStep
<1>4. CASE (\E t \in Task : ContextNext(t)) \/ Cancel
  BY <1>1, <1>4, ContextSteers
<1>5. CASE Crash
  BY <1>1, <1>5, CrashSteers
<1>6. CASE Restart
  <2>1. Restore /\ steers' = steers /\ steerCount' = steerCount
    BY <1>6 DEF Restart, bounds
  <2>2. QueueMove
    BY <2>1 DEF QueueMove
  <2>3. \A t \in Task : todo[t] = <<>> /\ writing[t] = <<>>
    BY <1>6 DEF Restart, IInv, Idle
  <2>4. ASSUME NEW q, q = Queue', Told(q)
        PROVE  Told(q)'
    BY <1>1, <2>1, <2>3, <2>4, RestoreTells
  <2> QED BY <1>1, <2>2, <2>4, SteeredOn
<1> QED BY <1>2, <1>3, <1>4, <1>5, <1>6 DEF Next

\* A steer enters the conversation once, and steers keep the order in which the
\* user gave them, through injection, compaction, revert, cancelled runs and
\* restarts.
THEOREM SteersInOrder == Spec => []SteersOnceInOrder
<1>1. Steered => SteersOnceInOrder
  BY DEF Steered, Told, Spoken, Rising, SteersOnceInOrder
<1> QED BY <1>1, InitIInv, NextIInv, InitSteered, NextSteered, PTL DEF Spec

-----------------------------------------------------------------------------
(***************************************************************************)
(* ConversationLog is implemented.  What the steps of the theorems above   *)
(* do not say is what a crash in the middle of a revert leaves: the copy   *)
(* that is being read back is the conversation the memory still holds.     *)
(***************************************************************************)
\* As long as no run was cancelled, a copy exists only while it is read back.
Copied ==
  (cancels = 0 /\ pc # "down" /\ rotated # <<>>) =>
    About("turn", "replay") /\ history = Messages(rotated)

\* The handlers leave the conversation alone, and the operations under way too unless
\* the turn has none or is in a model call.
LEMMA HandlersLeave ==
  ASSUME Prompt \/ RunStep \/ Steer
  PROVE  /\ UNCHANGED <<history, file, rotated, writing, cancels>>
         /\ pc # "down" /\ pc' # "down"
         /\ Idle("turn") \/ pc = "llm" \/ UNCHANGED todo
<1> USE DEF At, Goto, Finish, contextVars, contextRest, memory, bounds
<1>1. CASE Prompt \/ Steer
  BY <1>1 DEF Prompt, Steer
<1>2. CASE BeginTurn \/ BlockPrompt \/ ClearCommand \/ CompactCommand \/ CommandDone
  BY <1>2 DEF BeginTurn, BlockPrompt, ClearCommand, CompactCommand, CommandDone
<1>3. CASE EnterLoop \/ BeginStep \/ OutOfSteps
  BY <1>3 DEF EnterLoop, BeginStep, OutOfSteps
<1>4. CASE Compact
  BY <1>4 DEF Compact
<1>5. CASE CompactFails \/ Checkpointed \/ Note \/ CallModel
  BY <1>5 DEF CompactFails, Checkpointed, Note, CallModel
<1>6. CASE \/ StreamToolCall \/ ModelRetry \/ ModelFails \/ ModelAnswers
           \/ \E id \in 0 .. nCheckpoints : SendDMail(id)
  BY <1>6 DEF StreamToolCall, SendDMail, ModelRetry, ModelFails, ModelAnswers
<1>7. CASE Grow \/ UnsupportedResult
  BY <1>7 DEF Grow, UnsupportedResult
<1>8. CASE StepRejected \/ StepReverts \/ Reverted \/ StepAssertionFails \/ StepContinues
  BY <1>8 DEF StepRejected, StepReverts, Reverted, StepAssertionFails, StepContinues, Grown
<1>9. CASE ConsumeSteer \/ NextStep \/ StopTurn \/ StopHookTurn \/ EndRun
  BY <1>9 DEF ConsumeSteer, NextStep, StopTurn, StopHookTurn, EndRun
<1> QED BY <1>1, <1>2, <1>3, <1>4, <1>5, <1>6, <1>7, <1>8, <1>9 DEF RunStep

\* What is added to begins the whole ...
LEMMA ConcatBegins ==
  ASSUME NEW a \in Seq(Message), NEW b \in Seq(Message)
  PROVE  L!IsPrefix(a, a \o b)
<1>1. /\ Len(a) \in Nat /\ Len(b) \in Nat /\ Len(a \o b) = Len(a) + Len(b)
  BY ConcatAt
<1>2. SubSeq(a \o b, 1, Len(a)) = SubSeq(a, 1, Len(a))
  BY <1>1, PrefixOfConcat
<1> QED BY <1>1, <1>2 DEF L!IsPrefix

\* ... so what a prefix of a log replays to is a prefix of what the log replays to.
LEMMA ReadsStart ==
  ASSUME NEW log \in Seq(Line), NEW k \in 0 .. Len(log)
  PROVE  /\ Messages(SubSeq(log, 1, k)) \in Seq(Message)
         /\ L!IsPrefix(Messages(SubSeq(log, 1, k)), Messages(log))
<1> DEFINE a == SubSeq(log, 1, k)
<1>1. PICK rest \in Seq(Line) : a \in Seq(Line) /\ log = a \o rest
  BY SplitLog
<1> HIDE DEF a
<1>2. PICK x \in Seq(Message), y \in Seq(Message) : x = Messages(a) /\ y = Messages(rest)
  BY <1>1, MessagesType
<1>3. Messages(a \o rest) = x \o y
  BY <1>1, <1>2, MessagesConcat
<1>4. L!IsPrefix(x, x \o y)
  BY ConcatBegins
<1>5. L!IsPrefix(Messages(a), Messages(log)) /\ Messages(a) \in Seq(Message)
  BY <1>1, <1>2, <1>3, <1>4
<1> QED BY <1>5 DEF a

\* Nothing, and itself, begin every conversation.
LEMMA Trivially ==
  ASSUME NEW s \in Seq(Message)
  PROVE  L!IsPrefix(<<>>, s) /\ L!IsPrefix(s, s)
<1>1. Len(s) \in Nat /\ Len(<<>>) = 0 /\ SubSeq(<<>>, 1, 0) = SubSeq(s, 1, 0)
  OBVIOUS
<1> QED BY <1>1 DEF L!IsPrefix

-----------------------------------------------------------------------------
\* A copy is made of a file that the memory is a reading of.
LEMMA CopiedByContext ==
  ASSUME Running, Orderly, Orderly', Copied, NEW u \in Task, ContextNext(u)
  PROVE  Copied'
<1>1. /\ ContextStep(u) /\ Shape /\ UNCHANGED <<pc, cancels>> /\ pc # "down"
  BY DEF ContextNext, Running, bounds
<1> SUFFICES ASSUME cancels' = 0, rotated' # <<>>
             PROVE  About("turn", "replay")' /\ (history = Messages(rotated))'
  BY DEF Copied
<1>2. /\ cancels = 0 /\ Going /\ Active \in Task /\ Kept(Active, GoodHistories)
      /\ Plan(Active, GoodHistories, EndHistories)
  BY <1>1, ActiveType DEF Orderly, Going, Sound
<1>3. u = Active
  BY <1>1, <1>2, OnlyTheActive DEF Kept
<1>4. CASE RevertRotate(u)
  <2>1. /\ About(u, "revert") /\ rotated' = file /\ history' = history
        /\ writing' = writing /\ writing[u] = <<>> /\ todo[u] # <<>>
    BY <1>4 DEF RevertRotate, About, memory
  <2>2. u = "turn"
    BY <1>2, <1>3, <2>1 DEF Plan, Reverting, RevertName, About
  <2>3. ~Rotating
    BY <2>1, <2>2 DEF Rotating, About
  <2>4. history = Messages(Log(u)) /\ Log(u) = file
    BY <1>1, <1>2, <1>3, <2>1, <2>3, LogAtRest DEF Kept, IsReplay
  <2>5. About("turn", "replay")'
    <3> DEFINE op == [name |-> "replay", n |-> Head(todo[u]).n, msgs |-> <<>>]
    <3>1. /\ todo \in [Task -> Seq(Op)] /\ Tail(todo[u]) \in Seq(Op)
      BY <1>1, <2>1 DEF Shape, ContextTypeOK
    <3>2. todo' = [todo EXCEPT ![u] = <<op>> \o Tail(todo[u])]
      BY <1>4 DEF RevertRotate, Continue
    <3>3. todo'["turn"] = <<op>> \o Tail(todo[u])
      BY <2>2, <3>1, <3>2 DEF Task
    <3>4. op \in Op /\ op.name = "replay"
      <4>1. Head(todo[u]) \in Op
        BY <1>1, <2>1, HeadOp DEF Shape
      <4> QED BY <4>1 DEF Op, OpName
    <3> HIDE DEF op
    <3>5. PICK r \in Seq(Op) : r = Tail(todo[u])
      BY <3>1
    <3>6. <<op>> \o r # <<>> /\ Head(<<op>> \o r) = op
      BY <3>4, <3>5
    <3> QED BY <2>1, <2>2, <3>3, <3>4, <3>5, <3>6 DEF About
  <2> QED BY <2>1, <2>4, <2>5
<1>5. CASE RevertReplay(u)
  BY <1>5 DEF RevertReplay
<1>6. CASE ~RevertRotate(u) /\ ~RevertReplay(u)
  <2>1. rotated' = rotated
    BY <1>1, <1>6 DEF ContextStep, Checkpoint, AppendMessage, UpdateTokenCount, Write,
       ClearRotate, ClearReset, WriteSystemPrompt
  <2>2. About("turn", "replay")
    BY <1>1, <1>2, <2>1 DEF Copied
  <2>3. u = "turn"
    BY <1>2, <1>3, <2>2 DEF Plan, Reverting, RevertName, About, Kept, Alone, Idle, Task
  <2> QED BY <1>1, <1>6, <2>2, <2>3 DEF ContextStep, Checkpoint, AppendMessage,
             UpdateTokenCount, Write, ClearRotate, ClearReset, WriteSystemPrompt, About
<1> QED BY <1>4, <1>5, <1>6

\* No other step makes one, or touches the operations under way while there is one ...
LEMMA NextCopied ==
  ASSUME IInv, Orderly, Copied, [Next]_vars
  PROVE  Copied'
<1>1. Orderly'
  BY NextOrderly
<1>2. CASE Prompt \/ RunStep \/ Steer
  <2>1. /\ UNCHANGED <<history, file, rotated, writing, cancels>>
        /\ pc # "down" /\ pc' # "down"
        /\ Idle("turn") \/ pc = "llm" \/ UNCHANGED todo
    BY <1>2, HandlersLeave
  <2>2. ASSUME cancels = 0, rotated # <<>>
        PROVE  UNCHANGED todo
    <3>1. About("turn", "replay") /\ ~Idle("turn")
      BY <2>1, <2>2 DEF Copied, About, Idle
    <3>2. pc # "llm"
      BY <2>1, <2>2, <3>1 DEF Orderly, Going
    <3> QED BY <2>1, <3>1, <3>2
  <2> QED BY <2>1, <2>2 DEF Copied, About
<1>3. CASE \E t \in Task : ContextNext(t)
  <2>1. PICK u \in Task : ContextNext(u)
    BY <1>3
  <2>2. pc # "down"
    BY <2>1, IdleRests DEF IInv, ContextNext
  <2> QED BY <1>1, <2>1, <2>2, CopiedByContext DEF IInv, Running
<1>4. CASE Cancel
  BY <1>4 DEF Cancel, Copied, IInv, LoopTypeOK
<1>5. CASE Crash
  BY <1>5 DEF Crash, Goto, Copied
<1>6. CASE Restart
  BY <1>6 DEF Restart, Restore, Orderly, Copied, bounds
<1>7. CASE UNCHANGED vars
  BY <1>7 DEF vars, contextVars, bounds, Copied, About
<1> QED BY <1>2, <1>3, <1>4, <1>5, <1>6, <1>7 DEF Next

\* ... and a new session has none.
LEMMA InitCopied == Init => Copied
BY DEF Init, ContextInit, Copied

-----------------------------------------------------------------------------
\* The conversation as the abstract specification sees it is one.
LEMMA ConversationType ==
  ASSUME IInv
  PROVE  Conversation \in Seq(Message)
<1>1. file \in Seq(Line) /\ history \in Seq(Message)
  BY DEF IInv, Shape, ContextTypeOK
<1> QED BY <1>1, MessagesType DEF Conversation

\* An operation of the context adds at the end, or cuts back.
LEMMA ContextExtends ==
  ASSUME Running, Orderly, Copied, NEW u \in Task, ContextNext(u), cancels = 0
  PROVE  L!IsPrefix(history, history') \/ L!IsPrefix(history', history)
<1>1. /\ ContextStep(u) /\ Shape /\ pc # "down" /\ history \in Seq(Message)
      /\ rotated \in Seq(Line)
  BY DEF ContextNext, Running, Shape, ContextTypeOK
<1>2. CASE AppendMessage(u)
  <2>1. About(u, "append") /\ todo[u] # <<>>
    BY <1>2 DEF AppendMessage, About
  <2>2. Head(todo[u]) \in Op
    BY <1>1, <2>1, HeadOp DEF Shape
  <2>3. PICK msgs \in Seq(Message) : history' = history \o msgs
    BY <1>2, <2>2 DEF AppendMessage, Op
  <2> QED BY <1>1, <2>3, ConcatBegins
<1>3. CASE ClearReset(u)
  BY <1>1, <1>3, Trivially DEF ClearReset
<1>4. CASE RevertReplay(u)
  <2>1. PICK id : file' = Before(rotated, id) /\ history' = Messages(file')
    BY <1>4 DEF RevertReplay, Load
  <2>2. PICK k \in 0 .. Len(rotated) : file' = SubSeq(rotated, 1, k)
    BY <1>1, <2>1, BeforeIsPrefix
  <2>3. L!IsPrefix(Messages(SubSeq(rotated, 1, k)), Messages(rotated))
    BY <1>1, ReadsStart
  <2>4. CASE rotated # <<>>
    BY <1>1, <2>1, <2>2, <2>3, <2>4 DEF Copied
  <2>5. CASE rotated = <<>>
    <3>1. SubSeq(rotated, 1, k) = <<>>
      BY <2>5
    <3>2. history' = <<>>
      BY <2>1, <2>2, <3>1, MessagesOfNone
    <3> QED BY <1>1, <3>2, Trivially
  <2> QED BY <2>4, <2>5
<1>5. CASE ~AppendMessage(u) /\ ~ClearReset(u) /\ ~RevertReplay(u)
  <2>1. history' = history
    BY <1>1, <1>5 DEF ContextStep, Checkpoint, UpdateTokenCount, Write, ClearRotate,
       WriteSystemPrompt, RevertRotate, memory
  <2> QED BY <1>1, <2>1, Trivially
<1> QED BY <1>2, <1>3, <1>4, <1>5

\* A crash leaves the start of what the memory held.
LEMMA CrashCutsBack ==
  ASSUME Running, Orderly, Copied, Crash, cancels = 0
  PROVE  L!IsPrefix(Messages(file'), history)
<1>1. CrashContext /\ Shape /\ pc # "down"
  BY DEF Crash, Running
<1>2. PICK t \in Task : t = Active /\ Kept(t, GoodHistories)
  BY <1>1, ActiveType DEF Orderly, Going, Sound
<1>3. /\ history \in Seq(Message) /\ rotated \in Seq(Line) /\ Alone(t)
      /\ Log(t) \in Seq(Line)
  BY <1>1, <1>2, ConcatProperties DEF Shape, ContextTypeOK, Kept, Log
<1>4. CASE About("turn", "replay")
  <2>1. PICK m \in 0 .. Len(rotated) : file' = SubSeq(rotated, 1, m)
    BY <1>1, <1>3, <1>4, CrashCuts
  <2>2. CASE rotated # <<>>
    BY <1>1, <1>3, <2>1, <2>2, ReadsStart DEF Copied
  <2>3. CASE rotated = <<>>
    <3>1. file' = <<>>
      BY <2>1, <2>3
    <3> QED BY <1>3, <3>1, MessagesOfNone, Trivially
  <2> QED BY <2>2, <2>3
<1>5. CASE ~About("turn", "replay")
  <2>1. PICK log \in Seq(Line) : log = Log(t)
    BY <1>3
  <2>2. PICK m \in 0 .. Len(log) : file' = SubSeq(log, 1, m)
    BY <1>1, <1>3, <1>5, <2>1, CrashCuts
  <2>3. L!IsPrefix(Messages(file'), Messages(log))
    BY <2>2, ReadsStart
  <2>4. CASE ~Rotating
    BY <1>2, <2>1, <2>3, <2>4 DEF Kept, IsReplay
  <2>5. CASE Rotating
    <3>1. About("turn", "reset") /\ file = <<>> /\ writing["turn"] = <<>>
          /\ todo["turn"] # <<>>
      BY <1>2, <1>5, <2>5 DEF Rotating, Kept, About
    <3>2. t = "turn"
      BY <1>3, <3>1 DEF Alone, Idle, Task
    <3>3. log = <<>>
      BY <2>1, <3>1, <3>2 DEF Log
    <3>4. file' = <<>>
      BY <2>2, <3>3
    <3> QED BY <1>3, <3>4, MessagesOfNone, Trivially
  <2> QED BY <2>4, <2>5
<1> QED BY <1>4, <1>5

\* Every step is a step of the conversation log, or none.
LEMMA StepOfLog ==
  ASSUME IInv, IInv', Orderly, Copied, [Next]_vars
  PROVE  [L!LogNext]_(Conversation)
<1>1. Conversation \in Seq(Message)
  BY ConversationType
<1>2. CASE cancels' # 0
  <2>1. Conversation' = <<>>
    BY <1>2 DEF Conversation
  <2> QED BY <1>1, <2>1, Trivially DEF L!LogNext, L!CutBack
<1>3. CASE cancels' = 0 /\ (Prompt \/ RunStep \/ Steer)
  <2>1. /\ UNCHANGED <<history, cancels>> /\ pc # "down" /\ pc' # "down"
    BY <1>3, HandlersLeave
  <2> QED BY <1>3, <2>1 DEF Conversation
<1>4. CASE cancels' = 0 /\ \E t \in Task : ContextNext(t)
  <2>1. PICK u \in Task : ContextNext(u)
    BY <1>4
  <2>2. pc # "down" /\ UNCHANGED <<pc, cancels>>
    BY <2>1, IdleRests DEF IInv, ContextNext, bounds
  <2>3. Running /\ cancels = 0
    BY <1>4, <2>2 DEF IInv, Running
  <2>4. L!IsPrefix(history, history') \/ L!IsPrefix(history', history)
    BY <2>1, <2>3, ContextExtends
  <2>5. Conversation = history /\ Conversation' = history'
    BY <1>4, <2>2, <2>3 DEF Conversation
  <2> QED BY <2>4, <2>5 DEF L!LogNext, L!Extend, L!CutBack
<1>5. CASE cancels' = 0 /\ Crash
  <2>1. pc # "down" /\ pc' = "down" /\ cancels' = cancels
    BY <1>5 DEF Crash, Goto
  <2>2. L!IsPrefix(Messages(file'), history)
    BY <1>5, <2>1, CrashCutsBack DEF IInv, Running
  <2>3. Conversation = history /\ Conversation' = Messages(file')
    BY <1>5, <2>1 DEF Conversation
  <2> QED BY <2>2, <2>3 DEF L!LogNext, L!CutBack
<1>6. CASE cancels' = 0 /\ Restart
  <2>1. pc = "down" /\ pc' = "idle" /\ cancels' = cancels /\ history' = Messages(file)
    BY <1>6 DEF Restart, Goto, Restore, Load, bounds
  <2> QED BY <1>6, <2>1 DEF Conversation
<1>7. CASE UNCHANGED vars
  BY <1>7 DEF vars, contextVars, bounds, Conversation
<1>8. Cancel => cancels' # 0
  BY DEF Cancel, IInv, LoopTypeOK
<1> QED BY <1>2, <1>3, <1>4, <1>5, <1>6, <1>7, <1>8 DEF Next

\* Until a run is cancelled, the conversation only grows at its end and is only cut at
\* its end: through appends, compactions, reverts, crashes in the middle of each, and
\* restarts.
THEOREM ImplementsLog == Spec => ConversationIsLog
<1>1. Init => L!LogInit
  BY DEF Init, ContextInit, L!LogInit, Conversation
<1>2. IInv /\ IInv' /\ Orderly /\ Copied /\ [Next]_vars => [L!LogNext]_(Conversation)
  BY StepOfLog
<1> QED BY <1>1, <1>2, InitIInv, NextIInv, InitOrderly, NextOrderly, InitCopied, NextCopied,
           PTL DEF Spec, ConversationIsLog, L!ConversationSpec
=============================================================================
