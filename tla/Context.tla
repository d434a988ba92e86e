------------------------------ MODULE Context ------------------------------
(***************************************************************************)
(* The conversation context of one agent: soul/context.py.                 *)
(*                                                                         *)
(* The context lives twice: in memory (message list, token accounting,     *)
(* next checkpoint id) and in an append-only JSONL file from which         *)
(* restore() rebuilds the memory.  Every operation is a coroutine that     *)
(* changes the memory first and then awaits the file, so a cancellation, a *)
(* crash or another task can come between the two halves.                  *)
(*                                                                         *)
(* Two asyncio tasks call the context: "turn", the soul's run, and "grow", *)
(* the shielded _grow_context() of a step.  todo[t] is what task t still   *)
(* has to await, in order; writing[t] is the lines it is writing now.      *)
(***************************************************************************)
EXTENDS Naturals, Sequences, FiniteSets

CONSTANT WithDMail  \* the toolset holds SendDMail: checkpoints add a message

ASSUME WithDMailAssumption == WithDMail \in BOOLEAN

Task == {"turn", "grow"}

(***************************************************************************)
(* Messages and file lines.  n is the number of tool calls of an assistant *)
(* message, the number of a steer, the id of a checkpoint, the value of a  *)
(* usage line, and 0 elsewhere.                                            *)
(***************************************************************************)
MessageRole == {"user", "assistant", "tool"}
Message == [role : MessageRole, n : Nat]
Line == [role : MessageRole \cup {"_checkpoint", "_usage", "_system_prompt"},
         n : Nat]

UserMessage == [role |-> "user", n |-> 0]
CheckpointLine(id) == [role |-> "_checkpoint", n |-> id]
UsageLine(v) == [role |-> "_usage", n |-> v]
SystemLine == [role |-> "_system_prompt", n |-> 0]

IsMessage(line) == line.role \in MessageRole
IsCheckpoint(line) == line.role = "_checkpoint"
IsUsage(line) == line.role = "_usage"
IsSteer(line) == line.role = "user" /\ line.n > 0

(***************************************************************************)
(* What a log replays to.  A later checkpoint or usage line overrides the  *)
(* earlier ones, and the pending estimate counts the messages after the    *)
(* last usage line (one unit per message).                                 *)
(***************************************************************************)
Last(log, Test(_)) ==
  CHOOSE i \in DOMAIN log :
    Test(log[i]) /\ \A j \in DOMAIN log : Test(log[j]) => j <= i

Holds(log, Test(_)) == \E i \in DOMAIN log : Test(log[i])

\* How many of the first i lines are messages, and the messages in order.
Rank(log, i) == Cardinality({j \in 1 .. i : IsMessage(log[j])})

Messages(log) ==
  [k \in 1 .. Rank(log, Len(log)) |->
     log[CHOOSE i \in DOMAIN log : IsMessage(log[i]) /\ Rank(log, i) = k]]

\* Faulty: an id is skipped or used again after a restore.
NextIdSkips(log) ==
  IF Holds(log, IsCheckpoint) THEN log[Last(log, IsCheckpoint)].n + 2 ELSE 0

NextIdAgain(log) ==
  IF Holds(log, IsCheckpoint) THEN log[Last(log, IsCheckpoint)].n ELSE 0

NextId(log) ==
  IF Holds(log, IsCheckpoint) THEN log[Last(log, IsCheckpoint)].n + 1 ELSE 0

TokenCount(log) ==
  IF Holds(log, IsUsage) THEN log[Last(log, IsUsage)].n ELSE 0

\* Faulty: the estimate counts the messages the usage line covers.
PendingOfAll(log) == Rank(log, Len(log))

PendingEstimate(log) ==
  Rank(log, Len(log))
    - Rank(log, IF Holds(log, IsUsage) THEN Last(log, IsUsage) ELSE 0)

(***************************************************************************)
(* The part of a log that revert_to(id) keeps: everything before the first *)
(* checkpoint line with that id, the whole log when there is none.         *)
(***************************************************************************)
IsCut(log, id, k) ==
  /\ k \in 0 .. Len(log)
  /\ \A i \in 1 .. k : log[i] # CheckpointLine(id)
  /\ k < Len(log) => log[k + 1] = CheckpointLine(id)

Before(log, id) == SubSeq(log, 1, CHOOSE k \in 0 .. Len(log) : IsCut(log, id, k))

-----------------------------------------------------------------------------
VARIABLES
  history,          \* _history
  tokenCount,       \* _token_count
  pendingEstimate,  \* _pending_token_estimate
  nextCheckpointId, \* _next_checkpoint_id
  file,             \* lines of the context file (empty when it is missing)
  rotated,          \* the copy revert_to is reading back
  todo,             \* context operations each task still awaits
  writing           \* lines each task is writing to the file

memory == <<history, tokenCount, pendingEstimate, nextCheckpointId>>
contextVars == <<history, tokenCount, pendingEstimate, nextCheckpointId,
                 file, rotated, todo, writing>>

OpName == {"checkpoint", "append", "usage", "clear", "reset", "system",
           "revert", "replay"}
Op == [name : OpName, n : Nat, msgs : Seq(Message)]

Call(name) == [name |-> name, n |-> 0, msgs |-> <<>>]
CallAppend(msgs) == [name |-> "append", n |-> 0, msgs |-> msgs]
CallUsage(v) == [name |-> "usage", n |-> v, msgs |-> <<>>]
CallRevert(id) == [name |-> "revert", n |-> id, msgs |-> <<>>]

ContextTypeOK ==
  /\ history \in Seq(Message)
  /\ tokenCount \in Nat
  /\ pendingEstimate \in Nat
  /\ nextCheckpointId \in Nat
  /\ file \in Seq(Line)
  /\ rotated \in Seq(Line)
  /\ todo \in [Task -> Seq(Op)]
  /\ writing \in [Task -> Seq(Line)]

ContextInit ==
  /\ history = <<>>
  /\ tokenCount = 0
  /\ pendingEstimate = 0
  /\ nextCheckpointId = 0
  /\ file = <<SystemLine>>      \* written by the startup of a new session
  /\ rotated = <<>>
  /\ todo = [t \in Task |-> <<>>]
  /\ writing = [t \in Task |-> <<>>]

Idle(t) == todo[t] = <<>> /\ writing[t] = <<>>
About(t, name) == /\ writing[t] = <<>>
                  /\ todo[t] # <<>>
                  /\ Head(todo[t]).name = name

\* A clear or a revert has moved the file away and not yet changed the memory.
Rotating == About("turn", "reset") \/ About("turn", "replay")

\* Task t gives up the head of its list for ops.
Continue(t, ops) == todo' = [todo EXCEPT ![t] = ops \o Tail(@)]

-----------------------------------------------------------------------------
\* checkpoint(): the id is taken in memory before its line is written.
Checkpoint(t) ==
  /\ About(t, "checkpoint")
  /\ nextCheckpointId' = nextCheckpointId + 1
  /\ writing' = [writing EXCEPT ![t] = <<CheckpointLine(nextCheckpointId)>>]
  /\ Continue(t, IF WithDMail THEN <<CallAppend(<<UserMessage>>)>> ELSE <<>>)
  /\ UNCHANGED <<history, tokenCount, pendingEstimate, file, rotated>>

AppendMessage(t) ==
  /\ About(t, "append")
  /\ LET msgs == Head(todo[t]).msgs
     IN  /\ history' = history \o msgs
         /\ pendingEstimate' = pendingEstimate + Len(msgs)
         /\ writing' = [writing EXCEPT ![t] = msgs]
  /\ Continue(t, <<>>)
  /\ UNCHANGED <<tokenCount, nextCheckpointId, file, rotated>>

UpdateTokenCount(t) ==
  /\ About(t, "usage")
  /\ tokenCount' = Head(todo[t]).n
  /\ pendingEstimate' = 0
  /\ writing' = [writing EXCEPT ![t] = <<UsageLine(tokenCount')>>]
  /\ Continue(t, <<>>)
  /\ UNCHANGED <<history, nextCheckpointId, file, rotated>>

\* The awaited file write of the three operations above completes.
Write(t) ==
  /\ writing[t] # <<>>
  /\ file' = file \o writing[t]
  /\ writing' = [writing EXCEPT ![t] = <<>>]
  /\ UNCHANGED <<memory, rotated, todo>>

\* Faulty: the memory is cleared, the old lines stay.
ClearKeepsFile(t) ==
  /\ About(t, "clear")
  /\ Continue(t, <<Call("reset")>>)
  /\ UNCHANGED <<memory, file, rotated, writing>>

\* clear(): the file is rotated away (awaited) before the memory is reset.
ClearRotate(t) ==
  /\ About(t, "clear")
  /\ file' = <<>>
  /\ Continue(t, <<Call("reset")>>)
  /\ UNCHANGED <<memory, rotated, writing>>

ClearReset(t) ==
  /\ About(t, "reset")
  /\ history' = <<>>
  /\ tokenCount' = 0
  /\ pendingEstimate' = 0
  /\ nextCheckpointId' = 0
  /\ Continue(t, <<>>)
  /\ UNCHANGED <<file, rotated, writing>>

\* write_system_prompt(): prepends, atomically (temporary file + replace).
WriteSystemPrompt(t) ==
  /\ About(t, "system")
  /\ file' = <<SystemLine>> \o file
  /\ Continue(t, <<>>)
  /\ UNCHANGED <<memory, rotated, writing>>

\* Faulty: the messages after the last usage line are forgotten.
LoadWithoutEstimate(log) ==
  /\ history' = Messages(log)
  /\ tokenCount' = TokenCount(log)
  /\ pendingEstimate' = 0
  /\ nextCheckpointId' = NextId(log)

\* The memory a fresh Context has after reading a log.
Load(log) ==
  /\ history' = Messages(log)
  /\ tokenCount' = TokenCount(log)
  /\ pendingEstimate' = PendingEstimate(log)
  /\ nextCheckpointId' = NextId(log)

RevertRotate(t) ==
  /\ About(t, "revert")
  /\ Head(todo[t]).n < nextCheckpointId
  /\ rotated' = file
  /\ file' = <<>>
  /\ Continue(t, <<[name |-> "replay", n |-> Head(todo[t]).n, msgs |-> <<>>]>>)
  /\ UNCHANGED <<memory, writing>>

RevertReplay(t) ==
  /\ About(t, "replay")
  /\ file' = Before(rotated, Head(todo[t]).n)
  /\ Load(file')
  /\ rotated' = <<>>
  /\ Continue(t, <<>>)
  /\ UNCHANGED writing

ContextStep(t) ==
  \/ Checkpoint(t) \/ AppendMessage(t) \/ UpdateTokenCount(t) \/ Write(t)
  \/ ClearRotate(t) \/ ClearReset(t) \/ WriteSystemPrompt(t)
  \/ RevertRotate(t) \/ RevertReplay(t)

-----------------------------------------------------------------------------
Drop(t) == /\ todo' = [todo EXCEPT ![t] = <<>>]
           /\ writing' = [writing EXCEPT ![t] = <<>>]

(***************************************************************************)
(* CancelledError reaches task t at its current await.  The executor       *)
(* thread of an append goes on or has not opened the file yet, so any      *)
(* prefix of the lines lands in the file.                                  *)
(***************************************************************************)
InterruptWrite(t) ==
  /\ ~About(t, "replay")
  /\ \E k \in 0 .. Len(writing[t]) : file' = file \o SubSeq(writing[t], 1, k)
  /\ Drop(t)
  /\ UNCHANGED <<memory, rotated>>

(***************************************************************************)
(* ... or at an await of revert_to() after the rotation: before the memory *)
(* was reset, or after k lines were replayed into the memory and the new   *)
(* file, without the estimate that follows the loop.                       *)
(***************************************************************************)
InterruptReplay(t) ==
  /\ About(t, "replay")
  /\ \/ file' = <<>> /\ UNCHANGED memory
     \/ LET kept == Before(rotated, Head(todo[t]).n)
        IN  \E k \in 0 .. Len(kept) :
              /\ file' = SubSeq(kept, 1, k)
              /\ history' = Messages(file')
              /\ tokenCount' = TokenCount(file')
              /\ nextCheckpointId' = NextId(file')
              /\ UNCHANGED pendingEstimate
  /\ rotated' = <<>>
  /\ Drop(t)

Interrupt(t) == InterruptWrite(t) \/ InterruptReplay(t)

(***************************************************************************)
(* The process dies: any prefix of the lines being written, or of the file *)
(* revert_to is writing, is on disk; the memory is gone.                   *)
(***************************************************************************)
CrashContext ==
  /\ \E k \in 0 .. Len(writing["turn"]), l \in 0 .. Len(writing["grow"]) :
       LET flushed == SubSeq(writing["turn"], 1, k)
                        \o SubSeq(writing["grow"], 1, l)
       IN  IF About("turn", "replay")
           THEN LET kept == Before(rotated, Head(todo["turn"]).n)
                IN  \E m \in 0 .. Len(kept) : file' = SubSeq(kept, 1, m)
           ELSE file' = file \o flushed
  /\ history' = <<>> /\ tokenCount' = 0
  /\ pendingEstimate' = 0 /\ nextCheckpointId' = 0
  /\ rotated' = <<>>
  /\ todo' = [t \in Task |-> <<>>]
  /\ writing' = [t \in Task |-> <<>>]

\* Startup: restore(), then write_system_prompt() if the file has none.
Restore ==
  /\ Load(file)
  /\ file' = IF SystemLine \in {file[i] : i \in DOMAIN file}
             THEN file ELSE <<SystemLine>> \o file
  /\ UNCHANGED <<rotated, todo, writing>>

=============================================================================
