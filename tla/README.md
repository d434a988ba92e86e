# A verification project for the Kimi CLI agent core

This directory holds TLA+ models of the parts of the repository that carry its
state: the conversation of an agent, the loop that runs it, the background tasks
it starts, the notifications it is told, the approvals it asks for and the server
that shows them to a client, the login the processes share, and the executor that
runs a graph of tasks. The models are checked by TLC on small instances, and the
central facts about the conversation, the background tasks, the notifications, the
approvals, the login and the executor are proved with TLAPS for every value of the
constants. All paths below are relative to `src/`;
`kimi_cli/` stands for `src/kimi-cli/src/kimi_cli/` and `kimix/` for
`src/src/kimix/`.

`PROJECT.json` lists the components, the runs, the map from definitions to
source lines, the hazards and the theorems.

## 1. The system

### What runs where

One CLI process runs one asyncio event loop. A *soul* (`KimiSoul`) runs one turn
at a time over its *context*; tools run as coroutines of the same loop, sub-agents
are souls of their own inside it. Output goes over an in-process *wire* to a
front end (shell, ACP, or a JSON-RPC *wire server* that the web backend drives).
Bash background tasks run in worker processes that talk to the CLI through files.
The kimix packages around it add a DAG executor on a thread pool and a session
server.

### Components, their state and what makes them correct

| Component | State | Operations | Hard part | Correct when |
|---|---|---|---|---|
| Conversation context, `kimi_cli/soul/context.py` | message list, token count, pending estimate, next checkpoint id; the JSONL file they are rebuilt from | append, checkpoint, update usage, clear, revert, restore, write system prompt | memory changes before the file, every write is awaited, two tasks share one context | memory equals the replay of the file; checkpoint ids never repeat; a revert finds its checkpoint |
| Agent loop, `kimi_cli/soul/kimisoul.py`, `soul/__init__.py`, `denwarenji.py`, `compaction.py` | step number, steer queue, pending D-Mail, retries | turn, step, model call, growth, compaction, revert, steer, cancel | cancellation at every await while the growth goes on; retries; steers arriving in between | requests to the model are well formed; steers arrive once and in order; every run ends |
| Background tasks, `kimi_cli/background/` | spec, runtime, control and consumer files per task; live coroutines; worker processes | create, launch, heartbeat, kill, time out, record approvals, recover, publish | several processes and threads rewrite one file without a lock | a task that stopped ends in a terminal status, which is announced; a kill reaches the command |
| Notifications, `kimi_cli/notifications/` | event files, delivery files with one entry per sink | publish, claim, acknowledge, recover, `ack_ids` at restart | lost claims, failing handlers, crashes between two files | nothing is acknowledged unheard, nothing is told twice, everything is delivered |
| Approvals, `kimi_cli/approval_runtime/`, `soul/approval.py` | requests, futures of the callers, actions allowed for the session | create, wait, resolve, cancel by source, grant | turns, subagents and background agents ask at once; a cancelled caller, a late answer | a request gets one answer, a tool goes on only after a yes, a grant covers all that waits for it |
| Wire server, `kimi_cli/wire/server.py`, `root_hub.py` | `_pending_requests`, cancel event, initialized flag, queues | initialize, prompt, replay, cancel, answer, clean up, shut down | requests arrive by the hub, the wire and the hook callback, in any order with answers, ends of turns and the end of the connection | what waits is shown, a prompt leaves nothing open, prompts and shutdown end |
| Wire, `kimi_cli/wire/__init__.py`, `utils/aioqueue.py`, `utils/broadcast.py` | queues per subscriber, merge buffer | send, flush, join, shut down | shutdown while a consumer waits | every subscriber sees the same messages in order and the end |
| Authentication, `kimi_cli/auth/oauth.py` | credentials file, token caches, tombstones, two locks, the client's key | load, refresh, reject, adopt, log in, log out | processes share a token that the server takes once, and go on without the lock | the login survives, a dead token is not sent again, a good one is not given up |
| DAG executor, `kimix/dag/` | results, errors, submitted set, completion count | add edges, validate, execute, callbacks of pool threads | callbacks on several threads, failed dependencies, cancellation | only graphs without a cycle run; a node runs after its dependencies; `execute()` returns or raises |
| Sub-agents, `kimi_cli/subagents/` | instance records shared by foreground and background runs | create, run, resume, update | record rewritten by several runs | one run per instance |
| Sessions, `kimi_cli/session*.py` | state file per session | load, save, fork | rewritten whole by several processes | no update lost |
| kimix session server, `kimix/server/` | sessions, prompts, event bus | prompt, abort, delete, subscribe | concurrent prompts | one run per session |

Hooks, kosong (the model abstraction), kaos (the operating system), tools,
the ACP and web servers, command line, configuration, front ends
and kimix networking are listed in `PROJECT.json` with the reason for leaving
them out or for modelling only their effect.

### How they interact

- The loop calls the context; the growth of a step (`_grow_context`) is shielded,
  so it goes on in a task of its own after the run was cancelled.
- A step delivers pending notifications into the context and, at the restart, the
  notifications the restored context holds are acknowledged.
- Background tasks that end publish notifications; a running agent task creates
  approval requests, which mark the task `awaiting_approval` and `running`.
- A tool that needs an approval creates a request in the runtime and sleeps on it.
  The runtime publishes requests and responses on the root hub; the wire server
  forwards them to its client and resolves what the client answers. Questions and
  external tools go over the turn's wire, hooks through a callback of the server.
- A foreground subagent is a tool call of a turn, with a source of its own for its
  approvals; a background agent lives beside the turns.
- Every turn calls `ensure_fresh()` before its first model call, a task beside it once
  a minute, and a 401 of the model forces it.
- The `SendDMail` tool leaves a D-Mail in `DenwaRenji` that the loop picks up at the
  end of the step and turns into a revert of the context.

## 2. The modules

| Module | Models | Composed with |
|---|---|---|
| `Context` | `soul/context.py` | - |
| `AgentLoop` | `kimisoul.py`, `run_soul()`, `denwarenji.py`, `compaction.py`, the D-Mail tool | EXTENDS `Context`; its handlers drive the context |
| `ContextProofs`, `ReplayProofs` | theorems about it: checkpoint ids; what a log replays to | - |
| `AgentLoopProofs` | theorems about the loop with its context | - |
| `BackgroundTasks` | `background/manager.py`, `worker.py`, `agent_runner.py`, `store.py` | - |
| `BackgroundProofs` | theorems about it | - |
| `Notifications` | `notifications/manager.py`, `store.py`, both consumers | - |
| `NotificationProofs` | theorems about it | - |
| `DagExecutor` | `kimix/dag/executor.py`, `utils.py` | - |
| `DagProofs` | theorems about it: validation and order; the end of an execution | - |
| `Approvals` | `approval_runtime/runtime.py`, `Approval.request()`, the runs that ask | - |
| `WireServer` | `wire/server.py` over hub, wire and `run_soul()` | EXTENDS `Approvals`; its handlers end turns and settle requests |
| `ConversationLog` | nothing: it is what the conversation promises | `AgentLoop` implements it (INSTANCE with a refinement mapping) |
| `ApprovalContract` | nothing: it is what the approvals promise | `WireServer` implements it (INSTANCE with a refinement mapping) |
| `WireProofs` | theorems about the three | - |
| `OAuth` | `auth/oauth.py` | - |
| `OAuthProofs` | theorems about it | - |
| `MC...` | the instances TLC runs | EXTENDS the module |

Definitions that start with *Faulty:* in their comment are deliberately wrong
variants of the definition below them; no specification uses them. They document
which error each property would catch.

### Context

`history`, `tokenCount`, `pendingEstimate` and `nextCheckpointId` are the fields of
`Context`; `file` is the JSONL file as a sequence of lines. A coroutine of the code
is cut where it awaits: its memory half is one action, which puts the lines on
`writing[t]`; the file half is `Write(t)`. A caller that awaits several operations
in a row puts them on `todo[t]`, so between any two of them the other task, a
cancellation or a crash can come. `t` is `"turn"`, the soul's own task, or
`"grow"`, the shielded growth.

`revert_to()` and `clear()` rotate the file first and then rebuild or reset the
memory; both halves are actions. `InterruptWrite` and `InterruptReplay` give what
a `CancelledError` leaves behind at each await, `CrashContext` what a dead process
leaves on disk (any prefix of what was being written), `Restore` what the next
start reads.

Abstractions: a message is its role and a number (tool calls of an assistant
message, number of a steer); the token estimate is one per message; the numbering
of rotated files and lines that do not parse are left out.

### AgentLoop

`pc` is the place where the run stands. Each handler is the code between two awaits:
its guard is the code's condition, and the context operations it awaits go to
`todo["turn"]`. Step order is that of the code: compaction check, checkpoint,
`DenwaRenji` count, notes, model call with retries, growth, rejection, D-Mail,
continue or stop, steers. `ModelRetry` covers retries and connection recovery,
`ModelFails` everything that ends the run. A tool starts while the stream is still
running, so `SendDMail` may run in `llm` and its D-Mail survives a broken
attempt.

The model permits one growth at a time: a cancelled run's growth ends before the
next one starts. Plan mode, the Ralph and flow runners, and MCP loading are left out.

### ConversationLog

One sequence of messages, which grows at its end or is cut back from its end: no file, no
memory, no tasks. `AgentLoop` maps it to the place that carries the conversation at the moment:
the memory while the process runs, what `restore()` would read of the file while it is
down. A compaction is a cut to nothing and then a growth; a revert is a cut. The mapping gives the
conversation up once a run was cancelled, since a cancelled append is in the memory and may
or may not be in the file. What is at stake is the crash: one anywhere in an append, a compaction or
a revert, each of which takes several awaits and rewrites the file, must leave a start of the
conversation and never its end without its middle, and the restart must continue there.

### BackgroundTasks

`runtime[t]` is the runtime file, `saved` says whether it exists, `copy` and `beat`
are what the worker holds in memory, `loop` what the CLI's event loop has read and
not yet written. Reading and writing are two steps wherever another process or
thread can come between with an effect. `fresh` stands for the age of the last
progress. `timed_out` is status `failed` with its flag. A worker process and its
command are two things: a dead worker leaves its command running.

Marks on an agent task made by the event loop are one step, since the only other
writer is an approval thread, whose write in between has the effect it would have
had before. An agent task is two things as well: `runner[t]` is the coroutine
`BackgroundAgentRunner.run()`, `soul[t]` the asyncio task `run_soul()` starts for the agent. A kill or a
time-out cancels the first in its wait (`soul/__init__.py:215`) and leaves the second at work (finding 5): it may still
ask for approvals, and what it asks while the runner cleans up reaches the runtime file. Left out: reading output, wait, consumer files, the start-up check of the worker's spec
(worker.py:61-67; `create_bash_task` always fills the fields).

### Notifications

`events` are the event files in order of creation, `delivery[n][s]` the entry of
sink `s` in the delivery file. The `llm` sink awaits the append to the
conversation, so its claim, append, write and acknowledgement are four actions;
the `wire` sink does not await, so its poll is one. A crash can leave each
synchronous operation half written (`TornPublish`, `TornWirePoll`). What a poll of the
`llm` sink has claimed is a set, `batch`, handled from its oldest member on. The sink
`shell` of the code has no consumer in the repository.

Between two steps the conversation is rewritten: `Clear`, `Revert` keeps a beginning
of the file and reads it back into memory, `Compact` keeps the newest messages in memory
and writes them line by line, so that a cancellation leaves a part. (The first message, which
compaction always keeps, is a prompt or a D-Mail and never a notification.) `Revert` allows
any length, not only those of checkpoints. `lapsed` holds the notifications with an append that
failed or was cancelled: their claim is never acknowledged, and they are told again. A
compaction may even write to the file the one whose write had failed.

### DagExecutor

`Init` takes any dependencies between the nodes, self-references and cycles
included. The first half is `validate_dag()`: `path` and `black` are the GRAY
and BLACK tasks of `detect_cycle()`. Once the graph is valid, `jobs[n]` has one
entry per submission of task `n`: the pool thread that runs the task and then its
callback (record, count, scan). `jobs[Main]` is the first scan of `execute()`.

A scan is cut where another thread can matter: it finds a task to submit (the
unlocked check), adds it to `submitted`, and then aborts or submits it. `seen` is
`done_nodes`, computed once per scan. A callback that runs at once on the scanning
thread, because its future is already done, is one of these interleavings;
so is a pool with few workers. A task that raises what is no `Exception` passes through
`_on_done()` (`JobDies`): nobody records or counts it. (Where the scanning thread runs that callback
itself, because the future is already done, the exception ends its scan too; that is left out.) The results and errors that make up `done_nodes` are read in
one step: a task that finishes between the two reads scans again itself.
Retries are part of a task's outcome. `add_edge()` with its rollback, edges to unknown
nodes and `topological_sort()` are left out.

### Approvals and WireServer

All of it runs on one event loop, so an action is what a task does between two
awaits. `requests` is the runtime's table in order of creation; `caller` says
whether the tool that asked still sleeps, was woken, went ahead or is gone. A
source is a turn, a foreground subagent or a background agent, and `life` says what
became of it: an *orphan* is a soul whose runner was cancelled while `run_soul()`
waited for it (finding 5), and it may go on asking.

`hub` is the server's queue on the root hub, as the sets of requests and responses
in it: a response is always queued after its request, so the order within one pass of the
loop does not matter. `pending` and `pendingAsks` are `_pending_requests`. `asks` are the requests that are no
approvals: calls (external tools and questions) and hooks; their futures live in the
message. The loops over hub and wire never suspend while their queue holds a message,
since the write queue is unbounded, so each empties its queue in one action; the
handlers of the client's requests are tasks, each one action as far as it does not
await. `Cleanup` is the `finally` of `_handle_prompt()`, `Close`, `LeaveHub` and
`Closed` are `_shutdown()` cut at its two awaits.

Left out: the mode flags `/yolo` and afk (they only make a tool skip its question, which a
tool of the model may do anyway), the time-out of `wait_for_response()` (no caller
passes one), feedback texts, steer and plan mode, clients that cannot answer
questions (their questions fail at once), external tools of subagents.

### ApprovalContract

Requests with a verdict, a set of granted actions and the set of tools that went
ahead: no futures, queues or connections. `WireServer` maps a request that was
cancelled or refused to *no*, one that was allowed to *yes*, and its callers that went ahead
to `ran`. Every step of the composition is a step of the contract or a stutter, so an
answer given twice, a cancellation after an answer, a second caller or a grant that
does not reach another agent would each be a violation.

### OAuth

Tokens are numbered in the order the server issues them; `good` are those it would
take. `file` is the credentials file, replaced in one step. `pc` is where a call of
`ensure_fresh()` waits; each action reads the file anew where the code does.
`rejected` and `cooled` are the tombstone of a process and whether its cooldown has
passed, `cache` and `key` what the manager and its LLM client hold. Whether a
refresh is due or forced is left open: the action allows both.

An action is what a call does between two awaits, and stands where the file is read: what follows
concerns the memory of its own process, which other processes do not see. Where a call gives up the key this would hide
something, since the comment at `oauth.py:1041` speaks of a token another process writes between that reading and the drop.
There the call stops at `dropping`: the other processes go on, its own waits (`LoopFree`), and `Drop` takes the key.

The lock between processes is taken, found taken, or cannot be opened; after its retries the
call goes on without it. The answer of the server can be lost by a retry, a
cancellation, a failed write or the end of the process. The server (external) takes a
refresh token once; one that punishes reuse by revoking the whole chain is not modelled. A login
writes the file as another process would. Left out: the device login before its save,
the keyring, access-token expiry as a time.

## 3. What is checked

| Run | Question | Instance |
|---|---|---|
| `agent_loop` | conversation correct through D-Mail reverts, compaction, hooks, steers, crash and restart; it implements `ConversationLog` | 2 turns of 2 steps, 1 tool call, 1 steer, 1 crash; compaction at 8 |
| `agent_ends` | every run ends, and steers survive a cancellation anywhere | 1 turn of 2 steps, 2 attempts, 2 steers, Stop hook, 1 cancel |
| `agent_stale_dmail` | *violated*: the assertion on a D-Mail's checkpoint | 3 turns of 1 step |
| `agent_shield` | *violated*: the shield keeps requests well formed | 2 turns, 1 cancel |
| `background` | life of a bash task or of an agent task | 1 task of either kind, 2 late heartbeats, 1 dead worker, 2 crashes |
| `background_terminal` | *violated*: a terminal status is never overwritten | 1 task of each kind |
| `dag_executor` | validation and execution of a graph | every graph of 3 tasks, 1 failure, cancellation |
| `dag_raises` | *violated*: `execute()` raises if any task fails | every graph of 3 tasks, 1 failure |
| `notifications` | delivery to both sinks | 2 notifications, polls of 1; 1 cancel (of a run or a compaction), 1 failure, 1 crash; any revert or compaction |
| `wire_server` | what is asked is shown, answered once and cleaned up; prompts and shutdown end; the contract holds | 1 turn, 1 subagent or background agent, 2 requests, any client |
| `wire_subagents` | *violated*: after a prompt its subagents are done | 1 turn, 1 subagent, 1 request |
| `oauth` | the shared login | 2 processes, one with two callers; 3 tokens, any crashes and cancellations |

**Why the bounds are enough.** Every run reaches the situations its hazards name.
Two turns let the growth of a cancelled turn meet the next turn; two steps let a
D-Mail revert to the first step's checkpoint from the second; `CompactAt = 8` with
two preserved messages compacts after a revert and again after a growth, and the
small `CompactAt = 3` of the other runs compacts in the first step. Two crashes let
the CLI die while it recovers from the first crash; two late heartbeats let a task be
declared lost twice. A poll limit of one makes a second notification wait. One
task created (`MaxTasks`), of a command or of an agent, is enough because tasks share
nothing but the event loop and the running limit. In `wire_server` two requests
(`MaxRequests`, approvals and asks together) let a grant meet a request of another
agent, and let an answer, a cancellation and the cleanup meet two open requests; one
of `MaxStarted` lets a subagent or a background agent live beside the turn and after it; with
one turn the interleavings of a later turn with an orphan are those of an
orphan beside a closed prompt (the safety properties were also checked with two turns
and no background agent: 517,000 states). In `oauth` three tokens allow a refresh by
each process, or a refresh and a login; two calls share a manager so that one waits for
its lock, one of them without a client; the third call is another process. Three tasks give chains, forks, joins, cycles of
each length and two scans that submit the same third task; the theorems about
validation and order hold for every number. Deadlock checking is off in every configuration
but `oauth`: once the bounded prompts, tasks and crashes are used up, or the
connection is closed, an idle program stops.

**Properties.** `CheckpointIdsIncrease`, `MemoryIsReplay`, `SizeCoversHistory` and
`RevertFindsCheckpoint` relate memory and file; `SentIsWellFormed` and
`SteersOnceInOrder` speak about what the model is sent; `ConversationIsLog` says that, wherever
the conversation is kept, nothing in its middle changes; `RunEnds` about
termination. `EndedCommandIsDead` and `EndedRunnerIsDone` say that a reported end is true, as far as it is:
of an agent task, that no runner works on it, and behind *completed* and *failed* no soul either;
`TasksEnd`, `EndsAnnounced` and `KillReaches` that ends come, are told and that
kills work. `AckedWasHeard`, `ToldOnce` and `EachIsDelivered` are the delivery
promise. `ValidationIsRight` is both directions of the search; `DependenciesFirst`,
`NothingIsLost` and `ExecuteNeverHangs` say that overlapping scans neither start a task
early, nor drop one, nor leave `execute()` waiting. `EveryPendingIsShown` says that
nothing waits for an answer nobody can give, `PromptLeavesNothing` what the two
`finally` clauses achieve together, `GrantCoversAll` and `ContractHolds` what a user relies on
when answering; `PromptReturns` and `ShutdownEnds` that nobody waits for ever.
`TokenSurvives` names the only ways to lose a login. `RejectedIsDead` says that a good token is never taken
for a dead one, `KeyDroppedOnlyWhenDead` that a client loses its key only after the file was read and
held nothing good: the file, not the token in memory, and at that moment. A process that was faster may have rotated
and not saved yet, or save before the drop; that the key comes back is `KeyRecovers`.
`RejectedIsNotRetried` says that a dead token is not sent again while its tombstone is young. Each is stated with the cases it leaves out: a cancelled run may
leave tool calls unanswered (a finding), repeat a notification (`lapsed`), or lose a line; a
bash task whose `runtime.json` was never written (crash between the two files,
store.py:77) reads as new for ever and is not covered by `TasksEnd`; a notification
whose delivery file was never written has no entry to deliver; an execution in which
two scans took the same task submits it, or aborts it, twice and counts it twice, so that
`execute()` may return before the last task was submitted (`TakenOnce` in `NothingIsLost`;
three independent tasks are enough for a double submission, and `execute()` then returns two
results of three; the double abort needs four tasks); a cancelled context leaves
`execute()` waiting, as does the chain of finding 4 and a task that raises what is no `Exception`
(`executor.py:129`; asyncio's `CancelledError`, `SystemExit`), which `ExecuteNeverHangs` exempts by name.

What single runs do not reach: `agent_loop` has one steer, so it shows that it enters once, and `agent_ends`, with two, that
they enter in order; `agent_loop` has no cancellation, so what a cancelled run's growth does to the ids is
shown by the theorem `IdsIncrease` alone. A crash
cuts the context file between lines: half a line, which `restore()` would skip, is left out. The retry of a step,
of a lost connection and of an expired token (`kimisoul.py:1471-1554`) are nested in the code and one bound
(`MaxAttempts`) in the model, so `RunEnds` assumes that bound.

### Fairness

- `AgentLoop`: weak fairness of the run and of each task's context operations. The
  event loop runs what is ready, every provider call has a time-out, tools and hooks
  return. The user need not prompt, steer or cancel.
- `BackgroundTasks`: weak fairness of the event loop's started work, of worker steps, of each runner's
  cancellation and cleanup, of the approval threads, of recovery and publication (the CLI reconciles at each step and in its
  notification pump). Strong fairness of `ControlKills` and `WorkerSeesExit`, because the heartbeat coroutine
  interleaves with them and cannot starve them. Time passes (`Expire`) only for
  workers that are gone; a live worker may be late boundedly often. Commands and
  agent souls need not end.
- `DagExecutor`: weak fairness of the threads together: some thread that can move
  does. Tasks return or raise.
- `WireServer`: weak fairness of each loop and handler, of a soul whose tools have ended
  (its steps are limited), of a woken caller, and of the cancellation of a cancelled turn's tools. A client
  answers what it was sent: the protocol asks this of it, and without it a prompt
  ends only when it is cancelled. `PromptReturns` does not promise anything to a
  client that neither initialized nor cancels. Background agents and orphans need not end.
- `OAuth`: every call goes on where it waits (the network and the sleeps have time-outs) and
  turns keep coming. A lock of a manager wakes its waiters in order and an event loop runs what is ready in
  order: strong fairness of the calls that share a process, since the others take the lock or the loop in
  between, weak fairness of a call alone in its process. Neither logins nor the end of failures is assumed.
- `Notifications`: weak fairness of the agent's polls, the pump, the restart and the
  ageing of claims. Nobody need send a D-Mail or compact.

### Findings

1. **A stale D-Mail** (`agent_stale_dmail`). `kimisoul.py:1262` asserts that a pending
   D-Mail names an existing checkpoint, "DenwaRenji guarantees". The D-Mail
   is checked when it is sent but consumed at the end of a step; if that step fails it stays pending,
   `/clear` or a compaction starts the ids again (the run shows the compaction), and the next step that ends fails the
   assertion.
2. **The shield** (`agent_shield`). `kimisoul.py:1241` shields the growth "from
   interruption". The run ends while the growth goes on in a task of its own, and the
   next prompt's messages land between a tool call and its results.
3. **A terminal status overwritten** (`background_terminal`). Tests promise that a terminal state is
   not overwritten; the check and the write are two accesses to the
   file, so an approval thread can write `awaiting_approval` over a time-out.
4. **A chain behind a failure** (`dag_raises`). The docstring of `execute()`
   (`kimix/dag/executor.py:75`) says it raises if any task fails. `done_nodes` is
   computed once per scan: a task aborted in the scan is not in it, and has no callback
   of its own. The task behind it is never looked at again and `execute()` waits for ever.
5. **A subagent that is not done** (`wire_subagents`). `wire/server.py:714` says that after
   `run_soul()` returned "the soul and all subagents are done". Cancelling the tool call of a
   subagent cancels a `run_soul()` in its wait (`soul/__init__.py:215`), which does not cancel the task of the
   subagent's soul. It goes on after the prompt returned; its instance is marked
   killed, so it can be resumed while it runs. A background agent that is killed or timed out
   (`agent_runner.py:76-102`, `manager.py:388`) goes on in the same way behind its terminal status, which is why
   `EndedRunnerIsDone` promises no more about it than that its runner is done.

### Other disagreements met while modelling

These are recorded here because no single property states them, or no text of the
repository settles what is right.

- A prompt without `initialize` runs (`server.py:644`; the protocol documentation lets legacy clients skip it) but
  its approvals are never sent (`server.py:163`), and `initialize` is refused
  while it runs: it waits until it is cancelled.
- An answer *approve for session* that reaches a tool after it was cancelled grants nothing: the
  grant is recorded by the tool that wakes (`approval.py:219`).
- The cleanup after a prompt answers every unresolved question, call and hook (`server.py:726-739`),
  those of an orphan included. A call whose caller was cancelled counts as
  resolved and stays in `_pending_requests` until its answer comes or the connection ends.
- A background agent runs without the hook engine (`agent_runner.py` does not set it; `subagents/runner.py:247` does).
- `_save_to_file()` takes a lock file of the same name as the refresh that calls it holds: it finds
  it taken, blocks the event loop for a second (20 sleeps of 0.05 s) and writes without it.
- A refresh in flight while `/login` writes overwrites the new login with the older chain;
  one in flight while another process logs out writes the file again. Both tokens are good, so no
  property speaks of it.
- With two managers in a process, a call that waits for the file lock is not tested again against
  a tombstone the other manager sets meanwhile; `RejectedIsNotRetried` is about processes with one
  manager (`Alone`), the comment at `oauth.py:1049` about all.

## 4. What is proved

`ContextProofs` and `AgentLoopProofs` prove, for every value of the constants that
satisfies `WithDMailAssumption` and `LoopAssumption`:

- `TypeCorrect`: `Spec => []AgentTypeOK`;
- `IdsIncrease`: `Spec => []CheckpointIdsIncrease`, a safety property that is checked
  by TLC as well: the checkpoint ids in the file increase and stay below the next id,
  through compaction, revert, cancellation of either kind, crash and restart.

`CheckpointIdsIncrease` is not inductive: `clear()` resets the next id while another
task may still write, and a revert has the ids in the rotated copy only. The
invariant `IInv` adds

- types (`LoopTypeOK`, `ContextTypeOK`);
- `Shape`: the ids in the file and in the rotated copy increase; the growth writes no
  checkpoint line; the line the turn is writing fits behind the file;
  what the growth has still to do is appends and usage only; a pending reset
  comes first, finds no checkpoint in the file and nothing being written;
- `IdsBelow` while the process is up; nothing under way while it is down.

`ContextProofs` has the facts about replaying a log (a rank function instead of a
recursive definition, so that no induction over the log is needed: `RankStep`,
`NextIdIsAbove`, `BeforeIsPrefix`, `PrefixKeeps`, `ConcatKeeps`), then one lemma per
context operation, and four theorems that the loop's proof cites:
`ContextStepKeeps`, `InterruptKeeps`, `CrashKeeps`, `RestoreKeeps`.
`AgentLoopProofs` has one step per handler; most only put operations on the list,
which `AwaitKeeps` covers.

Four more theorems are about what the file says of the memory:

- `MemoryReplays`: `Spec => []MemoryIsReplay`;
- `SizeCovers`: `Spec => []SizeCoversHistory`;
- `RevertFinds`: `Spec => []RevertFindsCheckpoint`;
- `SentWellFormed`: `Spec => []SentIsWellFormed`.

They share one invariant, `Orderly` beside `IInv`, since none is inductive without the others: a
revert finds its checkpoint only if the memory, which knows the next id, is what the file replays to;
a revert leaves a history that may be sent only if the history was whole where the checkpoint was
taken. `ReplayProofs` states the context's half for a task `t` at work (`Sound`):

- `Kept`: the other task has nothing to do; the file followed by what `t` writes replays to the memory
  (but for the moment between the rotation of a clear or revert and its reload); the log
  and the rotated copy are `Steady`: no checkpoint id below one of theirs is missing (`Dense`), a usage line
  counts the messages before it (`Covered`), and what a revert to a checkpoint would leave is a good
  history (`AtCheckpoints`);
- `Plan`: the operations `t` has still to await lead from the history through good ones to one the
  handler that awaits them may go on with (`Leads`). A revert is an operation whose result is not a
  function of the history, so it may only come first, followed by what a D-Mail awaits after it.

`ContextStepSound` proves, one lemma per operation, that each keeps `Sound` for any set of good
histories that is closed under a message of the user. The loop chooses that set (`GoodHistories`):
the whole ones, whose tool calls are answered and whose kept part a compaction may cut at its
boundary, until a crash cut the file, and any after that. `Orderly` adds which task is at
work at which place of a run, that the steers still queued are messages of the user,
and that a process that is down left a steady file. Cancellation ends what it says: a run cancelled
at an `await` leaves operations undone, and the four properties say so in
their premise.

The fifth holds through cancelled runs too:

- `SteersInOrder`: `Spec => []SteersOnceInOrder`.

That the steers of the history have increasing numbers (`Rising`) is not inductive: the same steers are in
the memory, in the file, in the copy a revert reads back and in a line being written; one that left the queue is in
none of them until its append runs; a compaction awaits an append of what it preserves while the
history it preserves is still there. The invariant `Steered` lines all of it up. `Queue` is the steers
queued and the next one the user will give. `Told(q)` says that the steers of each of these places
rise and come before those of `q`, that the growth adds none, and (`Coming`) that at most one of
the operations the turn awaits holds steers, which either come behind those already told or follow a clear.
`ReplayProofs` proves for any `q` that every context operation (`ContextStepTells`), cancellation, crash
and restart keeps `Told(q)`; `AgentLoopProofs` that every handler does, with `q` the queue it
leaves: taking a steer moves it from the front of the queue to the list (`ConsumeSteers`), a compaction keeps
a part of the history in its order (`CompactedOrder`).

The last theorem about the loop is a refinement:

- `ImplementsLog`: `Spec => ConversationIsLog`, the agent implements `ConversationLog`.

It rests on `IInv` and `Orderly` and one more fact. A revert
reads the rotated copy back line by line, and a crash meanwhile leaves a prefix of that copy on disk: this is a
start of the conversation only because the copy exists just while it is read back, and the memory is
still what it replays to (`Copied`). At any other moment a crash leaves a prefix of the file with the
lines under way (`CrashCuts`), and what a prefix of a log replays to is a prefix of what the log
replays to (`ReadsStart`). That holds because a replay keeps the order of the messages and
skips the other lines, so again no induction over the log is needed.

`DagProofs` proves, under `DagAssumption`, for every number of tasks and every graph:

- `DagTypeCorrect`: `Spec => []DagTypeOK`;
- `ValidationCorrect`: `Spec => []ValidationIsRight`, the depth-first search refuses
  exactly the graphs with a cycle;
- `DependenciesCorrect`: `Spec => []DependenciesFirst`.

The invariant `DInv` adds `SearchInv`, the invariant of a depth-first search (black
tasks depend on black tasks only and hold no cycle; the path is a chain of
dependencies without repetition), and `PoolInv` (what a scan believes to be done has a result or
an error, and the task it is about to submit depends on such tasks only). A cycle is a
non-empty set in which each task depends on another of the set (`Acyclic`), so the argument
needs no induction over paths: a refusal shows such a set, the end of the path from
the dependency on; leaving a task adds it to a set that has none.

The second half of the module uses an invariant `RInv` beside `DInv`:

- `NothingLost`: `Spec => []NothingIsLost`;
- `NeverHangs`: `Spec => []ExecuteNeverHangs`.

Both are about a counter that several threads drive. `Counts` relates it to the set of tasks
that were counted: their number is at most the counter, and equal to it as long as no task
was taken twice. `Taken` and `Dealt` say who owns a task between the moment a scan takes it and
the moment it is submitted or aborted, so that nobody counts it a second time and none is
forgotten. `Promised` is the fact behind the absence of lost wake-ups: for every task that is ready,
some callback has not scanned yet, or some scan has not passed the task and knows its
dependencies to be done. `Fresh` and `Recorded` tie the records of a task to its jobs. At
rest nobody can keep a promise, so nothing is ready; since the graph has no cycle every task is
done, and the counter is full. The statement of `NothingIsLost` was corrected by this proof: with
a premise about double submissions alone it fails at four tasks, one more than the instance
TLC runs.

`BackgroundProofs` proves, under `TasksAssumption`, for any number of tasks:

- `BackgroundTypeCorrect`: `Spec => []TypeOK`;
- `EndedCommandsAreDead`: `Spec => []EndedCommandIsDead`;
- `EndedRunnersAreDone`: `Spec => []EndedRunnerIsDone`.

The runtime file is overwritten with copies read earlier, so what the file says needs facts
about the copies: those a worker has still to write are no reports (`Held`), a report is the last
thing a worker writes (`Reported`), and when it does, its command has ended (`Command`). The
event loop writes `failed` itself only before a worker exists (`Created`); `Known` says that
nothing is written about a task that was not created. Of an agent task, a terminal status is written by the
runner itself, by a kill, which ends it, or when it is gone; the soul is done where the runner has seen its end. The argument goes task by task: a
step about one task leaves the three facts of every other task as they were.

`NotificationProofs` proves, under `NotificationsAssumption`, for any notifications, limit and faults:

- `NotifyTypeCorrect`: `Spec => []NotifyTypeOK`;
- `AcknowledgedWasHeard`: `Spec => []AckedWasHeard`;
- `ToldAtMostOnce`: `Spec => []ToldOnce`.

`ToldOnce` rests on a relation between two files that no step writes together. `Filed`: a
notification in the context file that is not `lapsed` is acknowledged in the delivery file, or its append
is under way; what a poll holds is not acknowledged. The restart, which acknowledges what the restored
conversation holds, re-establishes it after a crash between the two writes; a revert or a compaction
adds nothing to file or memory that was in neither (`RewriteKeeps`). `Heard` says that the conversation
holds nothing that was not heard, `Known` that nothing is there before it is published.

`WireProofs` proves, under `SourcesAssumption`, for any turns, subagents, agents, actions and requests:

- `WireTypeCorrect`: `Spec => []WireTypeOK`;
- `PendingIsShown`: `Spec => []EveryPendingIsShown`;
- `GrantCovers`: `Spec => []GrantCoversAll`;
- `NothingIsLeft`: `Spec => []PromptLeavesNothing`;
- `ContractIsKept`: `Spec => ContractHolds`, the refinement.

Two lemmas, `RequestSteps` and `AskSteps`, reduce every step of the system to one of six
changes of the requests and one of five of the asks; what follows is proved about those. The refinement needs
the types only: each of the six is a step of `ApprovalContract` or a stutter. The
other properties need `Heard` (no request is settled while the hub's queue still holds it without its
response, and the queue is open while the connection is), `OneTurn` (one turn at a time,
inside a prompt), `RequestsEnd` and `AsksEnd` (a turn that ended left no request and waits for no ask; an
open ask is on the wire or known to the server).

`OAuthProofs` proves, under `CallsAssumption`, for any processes, managers and callers and any number of
tokens:

- `OAuthTypeCorrect`: `Spec => []OAuthTypeOK`;
- `RejectedAreDead`: `Spec => []RejectedIsDead`;
- `LoginSurvives`: `Spec => TokenSurvives`;
- `KeysDropOnlyWhenDead`: `Spec => KeyDroppedOnlyWhenDead`;
- `RejectedNotRetried`: `Spec => RejectedIsNotRetried`; the last three are about steps.

`Known` numbers the tokens as they are issued, so that a new one is held by nobody. `Dead`: a token
the server refused is dead and stays so. `Unshared`: the token of an answer is known to its call
alone until it is saved, so no other process can have spent it, with the file lock
or without. `OneInside`: the lock of a manager has one holder. `Passed`: a call that has passed the test of the
tombstone would still pass it, which is where one manager per process (`Alone`) is needed. `Doomed`: a call that drops the
key while it holds the file lock has just been refused and returns, so the lock has no holder that waits elsewhere.

Every invariant the passing runs check has its theorem, and so has every action property
and the refinements of `ConversationLog` and `ApprovalContract`; the runs show each on a small instance as well.
Nine properties are only model-checked, all of them liveness under fairness, which like
`ENABLED` is out of the prover's reach: `RunEnds`, `TasksEnd`, `EndsAnnounced`, `KillReaches`,
`EachIsDelivered`, `PromptReturns`, `ShutdownEnds`, `KeyRecovers` and `CallsReturn`. Nor is it proved
what the replay of an unbounded file computes beyond the facts above: that would be an
induction over data.

## 5. Not modelled

The map covers a small share of the repository's lines, and the share cannot become
large: a quarter of the implementation is one
table-driven translator of shell commands (`kimix/tools/shell/to_powershell_cmd.py`, 24,894 lines), and
most of the rest is parsing, formatting, search, HTTP endpoints and command-line code,
whose steps keep no state that a protocol property could be about. What carries the
program's own concurrency is modelled; the rest is listed in `PROJECT.json` with
its reason. The larger gaps:

- the merge buffer, recorder and event order of `Wire`, and the sentinel queue for Python before 3.13;
- instance records of sub-agents (who may resume which instance);
- plan mode, the Ralph and flow runners, MCP loading, side questions, tool deduplication;
- sessions and the web backend that change `state.json` beside the CLI;
- the kimix session server, which accepts a second prompt while one runs
  (`kimix/server/session_manager.py:357`), and its sockets.

## 6. The plan

Order of the work, most important behaviour first:

1. *done* `Context`, `AgentLoop` with their proofs; `BackgroundTasks`;
   `Notifications`.
2. *done* `DagExecutor` with its proofs. Left: the topological sort as a function
   against a reference definition.
3. *done* `Approvals` and `WireServer`, with `ApprovalContract` as the abstract specification.
4. *done* `OAuth` with its proofs.
5. `Wire`: queues with shutdown, merge buffer and recorder; promise: each subscriber's
   stream is a suffix of what was sent.
6. Abstract specifications: *done* `ConversationLog`, which `AgentLoop` implements. Left: a task
   life cycle that `BackgroundTasks` implements where it does.
7. Sub-agent records and the session server, as far as the runs allow.
8. Proofs: *done* for every invariant and every action property of the passing runs and for the
   refinements of `ConversationLog` and `ApprovalContract`. Left: what items 2, 5, 6 and 7 add.
