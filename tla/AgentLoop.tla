----------------------------- MODULE AgentLoop -----------------------------
(***************************************************************************)
(* One soul running turns over its context: soul/kimisoul.py, run_soul()   *)
(* in soul/__init__.py, soul/denwarenji.py and the SendDMail tool.         *)
(*                                                                         *)
(* pc is where the run stands.  A handler puts the context operations it   *)
(* awaits on todo["turn"] and the next handler runs when they are done.    *)
(* The growth of the context after a step runs as a task of its own        *)
(* (asyncio.shield), which outlives a cancelled run.                       *)
(***************************************************************************)
EXTENDS Context

CONSTANTS
  MaxStepsPerTurn,  \* loop_control.max_steps_per_turn
  MaxAttempts,      \* model calls of one step: max_retries_per_step, and the
                    \* one more that a connection recovery may add to each
  CompactAt,        \* context size at which should_auto_compact() holds
  PreserveDepth,    \* messages a compaction preserves
  WithHooks,        \* UserPromptSubmit and Stop hooks are configured
  \* bounds of the model
  MaxTurns,         \* prompts and slash commands the user enters
  MaxCalls,         \* tool calls of one model answer
  MaxSteers,        \* steer messages the user queues
  MaxNotes,         \* notifications and injected reminders
  MaxCancels,       \* cancelled runs
  MaxCrashes        \* crashes of the process

ASSUME LoopAssumption ==
  /\ {MaxStepsPerTurn, MaxAttempts, PreserveDepth} \subseteq Nat \ {0}
  /\ {CompactAt, MaxTurns, MaxCalls, MaxSteers, MaxNotes, MaxCancels,
      MaxCrashes} \subseteq Nat
  /\ WithHooks \in BOOLEAN

VARIABLES
  pc,            \* where the run of the soul is
  stepNo,        \* step_no of the agent loop
  attempts,      \* attempts of the model call of this step
  sent,          \* effective_history of this step
  calls,         \* tool calls streamed by the current attempt
  dmailCalls,    \* how many of them are SendDMail calls not yet executed
  usage,         \* the provider reported token usage for this step
  rejected,      \* a tool of this step was rejected without feedback
  steered,       \* steers were injected after this step
  stopHook,      \* _stop_hook_active, or the re-triggered turn is over
  steers,        \* _steer_queue
  pendingDMail,  \* DenwaRenji._pending_dmail: the checkpoint ids (0 or 1)
  nCheckpoints,  \* DenwaRenji._n_checkpoints
  turns, steerCount, notes, cancels, crashes   \* what the bounds count

stepVars == <<attempts, sent, calls, dmailCalls, usage, rejected>>
dmailVars == <<pendingDMail, nCheckpoints>>
bounds == <<turns, steerCount, notes, cancels, crashes>>
vars == <<contextVars, pc, stepNo, stepVars, steered, stopHook, steers,
          dmailVars, bounds>>

PC == {"idle", "prepare", "turn", "loop", "compact", "checkpoint", "step",
       "llm", "tools", "grow", "future", "between", "stop", "ended",
       "command", "down"}

LoopTypeOK ==
  /\ pc \in PC
  /\ stepNo \in Nat
  /\ attempts \in Nat
  /\ sent \in Seq(Message)
  /\ calls \in Nat
  /\ dmailCalls \in Nat
  /\ usage \in BOOLEAN
  /\ rejected \in BOOLEAN
  /\ steered \in BOOLEAN
  /\ stopHook \in BOOLEAN
  /\ steers \in Seq(Message)
  /\ pendingDMail \in SUBSET Nat
  /\ nCheckpoints \in Nat
  /\ turns \in Nat /\ steerCount \in Nat /\ notes \in Nat
  /\ cancels \in Nat /\ crashes \in Nat

AgentTypeOK == ContextTypeOK /\ LoopTypeOK

Init ==
  /\ ContextInit
  /\ pc = "idle"
  /\ stepNo = 0
  /\ attempts = 0
  /\ sent = <<>>
  /\ calls = 0
  /\ dmailCalls = 0
  /\ usage = FALSE
  /\ rejected = FALSE
  /\ steered = FALSE
  /\ stopHook = FALSE
  /\ steers = <<>>
  /\ pendingDMail = {}
  /\ nCheckpoints = 0
  /\ turns = 0 /\ steerCount = 0 /\ notes = 0
  /\ cancels = 0 /\ crashes = 0

-----------------------------------------------------------------------------
At(p) == pc = p /\ Idle("turn")
Goto(p) == pc' = p
Await(ops) == todo' = [todo EXCEPT !["turn"] = ops]

contextRest == <<memory, file, rotated, writing>>

\* The data of a step is garbage once the step is over.
ForgetStep ==
  /\ attempts' = 0 /\ sent' = <<>> /\ calls' = 0 /\ dmailCalls' = 0
  /\ usage' = FALSE /\ rejected' = FALSE

\* run() returns or raises: the user may prompt again.
Finish ==
  /\ Goto("idle")
  /\ ForgetStep
  /\ stepNo' = 0
  /\ steered' = FALSE
  /\ stopHook' = FALSE

-----------------------------------------------------------------------------
\* run() starts: oauth refresh and the UserPromptSubmit hook are awaited.
Prompt ==
  /\ pc = "idle"
  /\ turns < MaxTurns
  /\ turns' = turns + 1
  /\ Goto("prepare")
  /\ UNCHANGED <<contextVars, stepNo, stepVars, steered, stopHook, steers,
                 dmailVars, steerCount, notes, cancels, crashes>>

\* _turn(): checkpoint, then the user message.
TurnOps == <<Call("checkpoint"), CallAppend(<<UserMessage>>)>>

BeginTurn ==
  /\ At("prepare")
  /\ Await(TurnOps)
  /\ Goto("turn")
  /\ UNCHANGED <<contextRest, stepNo, stepVars, steered, stopHook, steers,
                 dmailVars, bounds>>

\* A hook blocks the prompt.
BlockPrompt ==
  /\ WithHooks
  /\ At("prepare")
  /\ Finish
  /\ UNCHANGED <<contextVars, steers, dmailVars, bounds>>

\* /clear and (when there is a checkpoint) /compact.
ClearCommand ==
  /\ At("prepare")
  /\ Await(<<Call("clear"), Call("system")>>)
  /\ Goto("command")
  /\ UNCHANGED <<contextRest, stepNo, stepVars, steered, stopHook, steers,
                 dmailVars, bounds>>

CompactCommand ==
  /\ At("prepare")
  /\ nextCheckpointId # 0
  /\ Goto("compact")
  /\ UNCHANGED <<contextVars, stepNo, stepVars, steered, stopHook, steers,
                 dmailVars, bounds>>

CommandDone ==
  /\ At("command")
  /\ Goto("ended")
  /\ UNCHANGED <<contextVars, stepNo, stepVars, steered, stopHook, steers,
                 dmailVars, bounds>>

-----------------------------------------------------------------------------
\* _agent_loop() starts by discarding the queued steers.
EnterLoop ==
  /\ At("turn")
  /\ steers' = <<>>
  /\ stepNo' = 0
  /\ Goto("loop")
  /\ UNCHANGED <<contextVars, stepVars, steered, stopHook, dmailVars, bounds>>

ShouldCompact == tokenCount + pendingEstimate >= CompactAt

StepGuard == stepNo < MaxStepsPerTurn

BeginStep ==
  /\ At("loop")
  /\ StepGuard
  /\ stepNo' = stepNo + 1
  /\ IF ShouldCompact
     THEN Goto("compact") /\ UNCHANGED todo
     ELSE Goto("checkpoint") /\ Await(<<Call("checkpoint")>>)
  /\ UNCHANGED <<contextRest, stepVars, steered, stopHook, steers, dmailVars,
                 bounds>>

\* MaxStepsReached
OutOfSteps ==
  /\ At("loop")
  /\ ~StepGuard
  /\ Finish
  /\ UNCHANGED <<contextVars, steers, dmailVars, bounds>>

(***************************************************************************)
(* SimpleCompaction.prepare(): the last PreserveDepth user and assistant   *)
(* messages, with the tool messages after them, and the first message of   *)
(* the history stay; the rest becomes one summary.  A history with nothing *)
(* to summarise is kept as it is.                                          *)
(***************************************************************************)
Speaks(m) == m.role \in {"user", "assistant"}

\* Faulty: tool messages count as preserved messages.
PreserveAnyRole(h) == Len(h) - PreserveDepth + 1

PreserveStart(h) ==
  CHOOSE i \in DOMAIN h :
    /\ Speaks(h[i])
    /\ Cardinality({j \in i .. Len(h) : Speaks(h[j])}) = PreserveDepth

Compacted(h) ==
  IF Cardinality({j \in DOMAIN h : Speaks(h[j])}) < PreserveDepth
  THEN h
  ELSE LET start == PreserveStart(h)
           kept == SubSeq(h, start, Len(h))
       IN  CASE start = 1 -> h
             [] start = 2 -> <<h[1]>> \o kept
             [] OTHER     -> <<UserMessage, h[1]>> \o kept

\* compact_context(): the model answered, the context is rebuilt and a
\* snapshot of the active background tasks may follow the summary.
Compact ==
  /\ At("compact")
  /\ \E snapshot \in {<<>>, <<UserMessage>>} :
       LET msgs == Compacted(history)
           rebuild == <<Call("clear"), Call("system"), Call("checkpoint"),
                        CallAppend(msgs)>>
                      \o (IF snapshot = <<>> THEN <<>> ELSE <<CallAppend(snapshot)>>)
                      \o <<CallUsage(Len(msgs) + Len(snapshot))>>
       IN  IF stepNo = 0
           THEN Await(rebuild) /\ Goto("command")
           ELSE Await(rebuild \o <<Call("checkpoint")>>) /\ Goto("checkpoint")
  /\ UNCHANGED <<contextRest, stepNo, stepVars, steered, stopHook, steers,
                 dmailVars, bounds>>

\* The compaction's model call fails for good.
CompactFails ==
  /\ At("compact")
  /\ Finish
  /\ UNCHANGED <<contextVars, steers, dmailVars, bounds>>

-----------------------------------------------------------------------------
\* The step's checkpoint is taken: DenwaRenji learns how many there are.
Checkpointed ==
  /\ At("checkpoint")
  /\ nCheckpoints' = nextCheckpointId
  /\ Goto("step")
  /\ UNCHANGED <<contextVars, stepNo, stepVars, steered, stopHook, steers,
                 pendingDMail, bounds>>

\* A notification is delivered or a reminder injected.
Note ==
  /\ At("step")
  /\ notes < MaxNotes
  /\ notes' = notes + 1
  /\ Await(<<CallAppend(<<UserMessage>>)>>)
  /\ UNCHANGED <<contextRest, pc, stepNo, stepVars, steered, stopHook, steers,
                 dmailVars, turns, steerCount, cancels, crashes>>

\* The model is called with the history as it is now (normalize_history()
\* joins neighbouring user messages, which no property tells apart).
CallModel ==
  /\ At("step")
  /\ sent' = history
  /\ attempts' = 1
  /\ Goto("llm")
  /\ UNCHANGED <<contextVars, stepNo, calls, dmailCalls, usage, rejected,
                 steered, stopHook, steers, dmailVars, bounds>>

\* A tool call is streamed and its tool starts at once.
StreamToolCall ==
  /\ pc = "llm"
  /\ calls < MaxCalls
  /\ calls' = calls + 1
  /\ dmailCalls' \in {dmailCalls, dmailCalls + (IF WithDMail THEN 1 ELSE 0)}
  /\ UNCHANGED <<contextVars, pc, stepNo, attempts, sent, usage, rejected,
                 steered, stopHook, steers, dmailVars, bounds>>

\* send_dmail(): one pending D-Mail, to an existing checkpoint; a refused
\* call returns a tool error.
Accepts(id) == pendingDMail = {} /\ id < nCheckpoints

\* Faulty: the tool of a cancelled attempt still runs.
SendDMailLate(id) ==
  /\ pc \in {"llm", "tools"}
  /\ dmailCalls' = dmailCalls - 1
  /\ pendingDMail' = IF Accepts(id) THEN {id} ELSE pendingDMail
  /\ UNCHANGED <<contextVars, pc, stepNo, attempts, sent, calls, usage,
                 rejected, steered, stopHook, steers, nCheckpoints, bounds>>

SendDMail(id) ==
  /\ pc \in {"llm", "tools"}
  /\ dmailCalls > 0
  /\ dmailCalls' = dmailCalls - 1
  /\ pendingDMail' = IF Accepts(id) THEN {id} ELSE pendingDMail
  /\ UNCHANGED <<contextVars, pc, stepNo, attempts, sent, calls, usage,
                 rejected, steered, stopHook, steers, nCheckpoints, bounds>>

\* Faulty: the attempts are not counted.
ModelRetryForever ==
  /\ pc = "llm"
  /\ calls' = 0
  /\ dmailCalls' = 0
  /\ UNCHANGED <<contextVars, pc, stepNo, attempts, sent, usage, rejected,
                 steered, stopHook, steers, dmailVars, bounds>>

\* The stream breaks; its tool calls are cancelled and the call is retried.
ModelRetry ==
  /\ pc = "llm"
  /\ attempts < MaxAttempts
  /\ attempts' = attempts + 1
  /\ calls' = 0
  /\ dmailCalls' = 0
  /\ UNCHANGED <<contextVars, pc, stepNo, sent, usage, rejected, steered,
                 stopHook, steers, dmailVars, bounds>>

\* ... or fails for good: the exception ends the run.
ModelFails ==
  /\ pc = "llm"
  /\ Finish
  /\ UNCHANGED <<contextVars, steers, dmailVars, bounds>>

ModelAnswers ==
  /\ pc = "llm"
  /\ usage' \in BOOLEAN
  /\ IF usage' THEN Await(<<CallUsage(Len(sent))>>) ELSE UNCHANGED todo
  /\ Goto("tools")
  /\ UNCHANGED <<contextRest, stepNo, attempts, sent, calls, dmailCalls,
                 rejected, steered, stopHook, steers, dmailVars, bounds>>

(***************************************************************************)
(* All tool results are in: _grow_context() starts as a task of its own,   *)
(* unless a result has content the model does not support.  The model      *)
(* allows one growth at a time: a cancelled run's growth ends before the   *)
(* next one starts.                                                        *)
(***************************************************************************)
AssistantMessage == [role |-> "assistant", n |-> calls]
ToolMessages == [i \in 1 .. calls |-> [role |-> "tool", n |-> 0]]

GrowOps ==
  <<CallAppend(<<AssistantMessage>>)>>
    \o (IF usage THEN <<CallUsage(Len(sent) + 1)>> ELSE <<>>)
    \o <<CallAppend(ToolMessages)>>

Grow ==
  /\ At("tools")
  /\ dmailCalls = 0
  /\ Idle("grow")
  /\ todo' = [todo EXCEPT !["grow"] = GrowOps]
  /\ rejected' \in IF calls > 0 THEN BOOLEAN ELSE {FALSE}
  /\ Goto("grow")
  /\ UNCHANGED <<contextRest, stepNo, attempts, sent, calls, dmailCalls, usage,
                 steered, stopHook, steers, dmailVars, bounds>>

UnsupportedResult ==
  /\ At("tools")
  /\ dmailCalls = 0
  /\ calls > 0
  /\ Finish
  /\ UNCHANGED <<contextVars, steers, dmailVars, bounds>>

-----------------------------------------------------------------------------
\* The end of _step(): rejection, D-Mail, continue or stop, in this order.
Grown == pc = "grow" /\ Idle("turn") /\ Idle("grow")

StepRejected ==
  /\ Grown
  /\ rejected
  /\ pendingDMail' = {}
  /\ ForgetStep
  /\ Goto("stop")
  /\ UNCHANGED <<contextVars, stepNo, steered, stopHook, steers, nCheckpoints,
                 bounds>>

\* BackToTheFuture: revert, checkpoint, append the D-Mail.
StepReverts ==
  /\ Grown
  /\ ~rejected
  /\ \E id \in pendingDMail :
       /\ id < nextCheckpointId
       /\ Await(<<CallRevert(id), Call("checkpoint"),
                  CallAppend(<<UserMessage>>)>>)
  /\ pendingDMail' = {}
  /\ ForgetStep
  /\ Goto("future")
  /\ UNCHANGED <<contextRest, stepNo, steered, stopHook, steers, nCheckpoints,
                 bounds>>

Reverted ==
  /\ At("future")
  /\ Goto("between")
  /\ UNCHANGED <<contextVars, stepNo, stepVars, steered, stopHook, steers,
                 dmailVars, bounds>>

\* The assertion on the D-Mail's checkpoint fails; the error ends the run.
StepAssertionFails ==
  /\ Grown
  /\ ~rejected
  /\ \E id \in pendingDMail : id >= nextCheckpointId
  /\ pendingDMail' = {}
  /\ Finish
  /\ UNCHANGED <<contextVars, steers, nCheckpoints, bounds>>

StepContinues ==
  /\ Grown
  /\ ~rejected /\ pendingDMail = {}
  /\ Goto(IF calls > 0 THEN "between" ELSE "stop")
  /\ ForgetStep
  /\ UNCHANGED <<contextVars, stepNo, steered, stopHook, steers, dmailVars,
                 bounds>>

\* Faulty: an injected steer stays in the queue until the turn stops.
ConsumeSteerAgain ==
  /\ At("between") \/ (At("stop") /\ ~steered)
  /\ steers # <<>>
  /\ Await(<<CallAppend(<<Head(steers)>>)>>)
  /\ steers' = IF pc = "stop" THEN Tail(steers) ELSE steers
  /\ steered' = TRUE
  /\ UNCHANGED <<contextRest, pc, stepNo, stepVars, stopHook, dmailVars, bounds>>

\* _consume_pending_steers(): one by one, each append awaited.
ConsumeSteer ==
  /\ At("between") \/ At("stop")
  /\ steers # <<>>
  /\ Await(<<CallAppend(<<Head(steers)>>)>>)
  /\ steers' = Tail(steers)
  /\ steered' = TRUE
  /\ UNCHANGED <<contextRest, pc, stepNo, stepVars, stopHook, dmailVars, bounds>>

\* Steers force another step, even after a step that stops the turn.
NextStep ==
  /\ steers = <<>>
  /\ At("between") \/ (At("stop") /\ steered)
  /\ steered' = FALSE
  /\ Goto("loop")
  /\ UNCHANGED <<contextVars, stepNo, stepVars, stopHook, steers, dmailVars,
                 bounds>>

StopTurn ==
  /\ At("stop")
  /\ steers = <<>> /\ ~steered
  /\ Goto("ended")
  /\ UNCHANGED <<contextVars, stepNo, stepVars, steered, stopHook, steers,
                 dmailVars, bounds>>

\* The Stop hook blocks the stop: one more turn, once.
StopHookTurn ==
  /\ WithHooks
  /\ At("ended")
  /\ ~stopHook
  /\ stopHook' = TRUE
  /\ Await(TurnOps)
  /\ Goto("turn")
  /\ UNCHANGED <<contextRest, stepNo, stepVars, steered, steers, dmailVars,
                 bounds>>

EndRun ==
  /\ At("ended")
  /\ Finish
  /\ UNCHANGED <<contextVars, steers, dmailVars, bounds>>

-----------------------------------------------------------------------------
\* The user steers a running turn; the wire server refuses when none runs.
Steer ==
  /\ pc \notin {"idle", "down"}
  /\ steerCount < MaxSteers
  /\ steerCount' = steerCount + 1
  /\ steers' = Append(steers, [role |-> "user", n |-> steerCount'])
  /\ UNCHANGED <<contextVars, pc, stepNo, stepVars, steered, stopHook,
                 dmailVars, turns, notes, cancels, crashes>>

\* run_soul(): the cancel event cancels the soul's task; a growth under way
\* goes on, the steer queue and DenwaRenji stay as they are.
Cancel ==
  /\ pc \notin {"idle", "down"}
  /\ cancels < MaxCancels
  /\ cancels' = cancels + 1
  /\ Interrupt("turn")
  /\ Finish
  /\ UNCHANGED <<steers, dmailVars, turns, steerCount, notes, crashes>>

Crash ==
  /\ pc # "down"
  /\ crashes < MaxCrashes
  /\ crashes' = crashes + 1
  /\ CrashContext
  /\ Goto("down")
  /\ ForgetStep
  /\ stepNo' = 0 /\ steered' = FALSE /\ stopHook' = FALSE
  /\ steers' = <<>>
  /\ pendingDMail' = {} /\ nCheckpoints' = 0
  /\ UNCHANGED <<turns, steerCount, notes, cancels>>

Restart ==
  /\ pc = "down"
  /\ Restore
  /\ Goto("idle")
  /\ UNCHANGED <<stepNo, stepVars, steered, stopHook, steers, dmailVars, bounds>>

ContextNext(t) ==
  /\ ContextStep(t)
  /\ UNCHANGED <<pc, stepNo, stepVars, steered, stopHook, steers, dmailVars,
                 bounds>>

RunStep ==
  \/ BeginTurn \/ BlockPrompt \/ ClearCommand \/ CompactCommand \/ CommandDone
  \/ EnterLoop \/ BeginStep \/ OutOfSteps \/ Compact \/ CompactFails
  \/ Checkpointed \/ Note \/ CallModel
  \/ StreamToolCall \/ (\E id \in 0 .. nCheckpoints : SendDMail(id))
  \/ ModelRetry \/ ModelFails \/ ModelAnswers
  \/ Grow \/ UnsupportedResult
  \/ StepRejected \/ StepReverts \/ Reverted \/ StepAssertionFails
  \/ StepContinues \/ ConsumeSteer \/ NextStep \/ StopTurn \/ StopHookTurn
  \/ EndRun

Next ==
  \/ Prompt \/ RunStep \/ (\E t \in Task : ContextNext(t))
  \/ Steer \/ Cancel \/ Crash \/ Restart

Spec == Init /\ [][Next]_vars

(***************************************************************************)
(* Fairness: the event loop runs what is ready, file writes end, the model *)
(* and the tools answer or fail (every provider call has a timeout), and   *)
(* the hooks return.  The user need not prompt, steer or cancel.           *)
(***************************************************************************)
FairSpec ==
  /\ Spec
  /\ WF_vars(RunStep)
  /\ \A t \in Task : WF_vars(ContextNext(t))

-----------------------------------------------------------------------------
(***************************************************************************)
(* Properties.                                                             *)
(***************************************************************************)
\* Checkpoint ids in the file are strictly increasing and below the next id
\* to hand out, whatever was cancelled or lost: an id a D-Mail names can
\* never mean two places of the conversation.
CheckpointIdsIncrease ==
  pc # "down" =>
    \A i \in DOMAIN file : IsCheckpoint(file[i]) =>
      /\ file[i].n < nextCheckpointId
      /\ \A j \in 1 .. i - 1 : IsCheckpoint(file[j]) => file[j].n < file[i].n

\* As long as no run was cancelled, restarting now and restarting never are
\* the same: what is on disk, with the lines under way, replays to exactly the
\* memory (messages, token accounting and next id), across compactions,
\* reverts and crashes.  The rotation of a clear or revert is the exception.
MemoryIsReplay ==
  LET log == file \o writing["turn"] \o writing["grow"]
  IN  (cancels = 0 /\ pc # "down" /\ ~Rotating) =>
        memory = <<Messages(log), TokenCount(log), PendingEstimate(log),
                   NextId(log)>>

\* The agent implements ConversationLog until a run is cancelled (from then on the
\* conversation counts as given up): the memory carries it while the process runs, and
\* what restore() would read while it does not.  A process that dies anywhere in an
\* append, a compaction or a revert leaves the start of the conversation it had.
Conversation ==
  IF cancels # 0 THEN <<>> ELSE IF pc = "down" THEN Messages(file) ELSE history

L == INSTANCE ConversationLog WITH conversation <- Conversation

ConversationIsLog == L!ConversationSpec

\* The model is never sent a tool call without its results, or results
\* without their call (the provider would refuse the request): growth,
\* compaction and revert keep them together, unless a run was cancelled or
\* the process crashed between the two appends of a growth.
ToolCallsAnswered(h) ==
  /\ \A i \in DOMAIN h : h[i].role = "assistant" =>
       /\ i + h[i].n <= Len(h)
       /\ \A j \in i + 1 .. i + h[i].n : h[j].role = "tool"
  /\ \A j \in DOMAIN h : h[j].role = "tool" =>
       \E i \in 1 .. j - 1 : h[i].role = "assistant" /\ j <= i + h[i].n

SentIsWellFormed == (cancels = 0 /\ crashes = 0) => ToolCallsAnswered(sent)

\* The size that triggers compaction never misses a message the model will
\* be sent, except the message of the checkpoint a compaction takes.
SizeCoversHistory ==
  cancels = 0 =>
    Len(history) <= tokenCount + pendingEstimate + (IF WithDMail THEN 1 ELSE 0)

\* revert_to() finds the checkpoint it is asked for, so that "the specified
\* checkpoint and all subsequent content" really goes: as long as no run was
\* cancelled no id below the next one is missing from the file.
RevertFindsCheckpoint ==
  (cancels = 0 /\ About("turn", "revert")) =>
    \E i \in DOMAIN file : file[i] = CheckpointLine(Head(todo["turn"]).n)

\* A steer enters the conversation once, and steers keep their order, through
\* injection, compaction, revert, cancellation and restart.
SteersOnceInOrder ==
  \A i, j \in DOMAIN history :
    i < j /\ IsSteer(history[i]) /\ IsSteer(history[j])
      => history[i].n < history[j].n

\* Every run ends: the step guard, the attempt limit and the single Stop hook
\* turn bound it, whatever the model, the tools and the user do.
RunEnds == pc \notin {"idle", "down"} ~> pc \in {"idle", "down"}

\* kimisoul.py: "DenwaRenji guarantees checkpoint_id < n_checkpoints".
DenwaRenjiGuarantee ==
  (Grown /\ ~rejected) => \A id \in pendingDMail : id < nextCheckpointId

\* kimisoul.py: "shield the context manipulation from interruption".  Without a
\* crash, cancelling a run never makes a later request ill-formed.
GrowthIsShielded == crashes = 0 => ToolCallsAnswered(sent)
=============================================================================
