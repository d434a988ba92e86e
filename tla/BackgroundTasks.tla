--------------------------- MODULE BackgroundTasks ---------------------------
(***************************************************************************)
(* Background tasks: background/manager.py, background/worker.py,          *)
(* background/agent_runner.py over the files of background/store.py.       *)
(*                                                                         *)
(* A bash task is run by a worker process of its own, an agent task by a   *)
(* coroutine of the CLI (the runner), which runs the agent's soul as a     *)
(* further asyncio task.  The CLI, the workers and the threads that record *)
(* approvals share one runtime file per task and no lock: each reads it    *)
(* and later writes a whole copy back.  A read and its write are two steps *)
(* wherever another process or thread can write between them to effect.    *)
(***************************************************************************)
EXTENDS Naturals, FiniteSets

CONSTANTS
  BashTasks, AgentTasks,
  MaxRunning,        \* background.max_running_tasks
  MaxTasks,
  \* bounds of the model
  MaxLate,           \* heartbeats of a live worker that come too late
  MaxWorkerCrashes,  \* workers that die
  MaxCrashes         \* crashes of the CLI

ASSUME TasksAssumption ==
  /\ BashTasks \cap AgentTasks = {}
  /\ {MaxRunning, MaxTasks, MaxLate, MaxWorkerCrashes, MaxCrashes} \subseteq Nat

Tasks == BashTasks \cup AgentTasks

\* Terminal reasons: "timed_out" is status failed with timed_out set.
Terminal == {"completed", "failed", "timed_out", "killed", "lost"}
Status == {"created", "starting", "running", "awaiting_approval"} \cup Terminal
Update == {"awaiting_approval", "running"}

\* fresh: the last progress is younger than worker_stale_after_ms.
Runtime == [status : Status, fresh : BOOLEAN, finished : BOOLEAN]
NewRuntime == [status |-> "created", fresh |-> TRUE, finished |-> FALSE]

VARIABLES
  spec,      \* tasks whose spec.json exists
  saved,     \* tasks whose runtime.json exists
  runtime,   \* its content
  kill,      \* control.json asks for a kill
  loop,      \* the bash task the CLI's event loop is working on, and how far
  worker,    \* program counter of each bash task's worker
  copy,      \* the runtime the worker holds (last_known_runtime)
  beat,      \* the copy its heartbeat loop holds
  child,     \* the command of a bash task: none, alive, ok or bad (exited)
  timedOut,  \* the worker hit the timeout of the command
  runner,    \* the coroutine of each agent task
  soul,      \* the agent's soul_task works, with a runner or without
  approval,  \* the agent task waits for an approval
  thread,    \* approval-update threads of an agent task
  published, \* terminal reasons announced by a notification
  late, workerCrashes, crashes   \* what the bounds count

files == <<spec, saved, runtime, kill>>
workerVars == <<worker, copy, beat, child, timedOut>>
agentVars == <<runner, soul, approval, thread>>
bounds == <<late, workerCrashes, crashes>>
vars == <<files, loop, workerVars, agentVars, published, bounds>>

NoThread == [u \in Update |-> "none"]
Free == [op |-> "none", tasks |-> {}, view |-> NewRuntime]

TypeOK ==
  /\ spec \subseteq Tasks /\ saved \subseteq spec
  /\ runtime \in [Tasks -> Runtime]
  /\ kill \in [BashTasks -> BOOLEAN]
  /\ loop \in [op : {"none", "create", "launch", "launched", "start", "recover"},
               tasks : SUBSET Tasks, view : Runtime]
  /\ worker \in [BashTasks -> {"none", "launched", "starting", "control",
                               "spawn", "read", "record", "wait", "beat",
                               "ended", "final", "gone", "dead"}]
  /\ copy \in [BashTasks -> Runtime] /\ beat \in [BashTasks -> Runtime]
  /\ child \in [BashTasks -> {"none", "alive", "ok", "bad"}]
  /\ timedOut \in [BashTasks -> BOOLEAN]
  /\ runner \in [AgentTasks -> {"none", "starting", "running", "cancelled",
                                "ended", "gone"}]
  /\ soul \in [AgentTasks -> BOOLEAN] /\ approval \in [AgentTasks -> BOOLEAN]
  /\ thread \in [AgentTasks -> [Update -> {"none", "queued", "read"}]]
  /\ published \in [Tasks -> SUBSET Terminal]
  /\ late \in Nat /\ workerCrashes \in Nat /\ crashes \in Nat

Init ==
  /\ spec = {} /\ saved = {}
  /\ runtime = [t \in Tasks |-> NewRuntime]
  /\ kill = [t \in BashTasks |-> FALSE]
  /\ loop = Free
  /\ worker = [t \in BashTasks |-> "none"]
  /\ copy = [t \in BashTasks |-> NewRuntime]
  /\ beat = [t \in BashTasks |-> NewRuntime]
  /\ child = [t \in BashTasks |-> "none"]
  /\ timedOut = [t \in BashTasks |-> FALSE]
  /\ runner = [t \in AgentTasks |-> "none"]
  /\ soul = [t \in AgentTasks |-> FALSE] /\ approval = [t \in AgentTasks |-> FALSE]
  /\ thread = [t \in AgentTasks |-> NoThread]
  /\ published = [t \in Tasks |-> {}]
  /\ late = 0 /\ workerCrashes = 0 /\ crashes = 0

\* A task without runtime.json reads as TaskRuntime(), made this instant.
Read(t) == IF t \in saved THEN runtime[t] ELSE NewRuntime
Ended(t) == Read(t).status \in Terminal

\* The runtime file is replaced by a copy.
Save(t, r) ==
  /\ runtime' = [runtime EXCEPT ![t] = r]
  /\ saved' = saved \cup {t}
  /\ UNCHANGED <<spec, kill>>

\* r with a new status; a terminal one comes with finished_at.
Mark(r, status) ==
  [r EXCEPT !.status = status, !.fresh = TRUE,
            !.finished = @ \/ status \in Terminal]

\* The event loop holds the view r of t, between two of its steps.
Doing(op, t) == loop.op = op /\ loop.tasks = {t}
Do(op, t, r) == loop' = [op |-> op, tasks |-> {t}, view |-> r]
Done == loop' = Free

-----------------------------------------------------------------------------
(***************************************************************************)
(* Creating a task.                                                        *)
(***************************************************************************)
Active == {t \in spec : ~Ended(t)}

\* Faulty: runtime.json is written first.
CreateRuntimeFirst(t) ==
  /\ loop = Free
  /\ t \notin spec \cup saved
  /\ Cardinality(Active) < MaxRunning
  /\ Cardinality(spec) < MaxTasks
  /\ saved' = saved \cup {t}
  /\ Do("create", t, NewRuntime)
  /\ UNCHANGED <<spec, runtime, kill, workerVars, agentVars, published, bounds>>

Create(t) ==
  /\ loop = Free
  /\ t \notin spec
  /\ Cardinality(Active) < MaxRunning
  /\ Cardinality(spec) < MaxTasks
  /\ spec' = spec \cup {t}
  /\ Do("create", t, NewRuntime)
  /\ UNCHANGED <<saved, runtime, kill, workerVars, agentVars, published, bounds>>

\* runtime.json follows spec.json; an agent task is started at once.
CreateAgent(t) ==
  /\ Doing("create", t)
  /\ Save(t, Mark(NewRuntime, "starting"))
  /\ runner' = [runner EXCEPT ![t] = "starting"]
  /\ Done
  /\ UNCHANGED <<workerVars, soul, approval, thread, published, bounds>>

CreateBash(t) ==
  /\ Doing("create", t)
  /\ Save(t, NewRuntime)
  /\ Do("launch", t, NewRuntime)
  /\ UNCHANGED <<workerVars, agentVars, published, bounds>>

Launch(t) ==
  /\ Doing("launch", t)
  /\ worker' = [worker EXCEPT ![t] = "launched"]
  /\ Do("launched", t, loop.view)
  /\ UNCHANGED <<files, copy, beat, child, timedOut, agentVars, published, bounds>>

LaunchFails(t) ==
  /\ Doing("launch", t)
  /\ Save(t, Mark(loop.view, "failed"))
  /\ Done
  /\ UNCHANGED <<workerVars, agentVars, published, bounds>>

\* The file is read again; a task its worker has touched is left alone.
LaunchRead(t) ==
  /\ Doing("launched", t)
  /\ IF Read(t).status = "created" /\ ~Read(t).finished
     THEN Do("start", t, Read(t))
     ELSE Done
  /\ UNCHANGED <<files, workerVars, agentVars, published, bounds>>

LaunchWrite(t) ==
  /\ Doing("start", t)
  /\ Save(t, Mark(loop.view, "starting"))
  /\ Done
  /\ UNCHANGED <<workerVars, agentVars, published, bounds>>

-----------------------------------------------------------------------------
(***************************************************************************)
(* The worker of a bash task.                                              *)
(***************************************************************************)
workerRest == <<loop, agentVars, published, bounds>>

\* The worker goes to p, holding r.
WorkerGoes(t, p, r) ==
  /\ worker' = [worker EXCEPT ![t] = p]
  /\ copy' = [copy EXCEPT ![t] = r]

WorkerStarts(t) ==
  /\ worker[t] = "launched"
  /\ WorkerGoes(t, "starting", Mark(Read(t), "starting"))
  /\ UNCHANGED <<files, beat, child, timedOut, workerRest>>

WorkerRecordsStart(t) ==
  /\ worker[t] = "starting"
  /\ Save(t, copy[t])
  /\ WorkerGoes(t, "control", copy[t])
  /\ UNCHANGED <<beat, child, timedOut, workerRest>>

WorkerChecksControl(t) ==
  /\ worker[t] = "control"
  /\ IF kill[t] THEN WorkerGoes(t, "final", Mark(copy[t], "killed"))
                ELSE WorkerGoes(t, "spawn", copy[t])
  /\ UNCHANGED <<files, beat, child, timedOut, workerRest>>

Spawn(t) ==
  /\ worker[t] = "spawn"
  /\ child' = [child EXCEPT ![t] = "alive"]
  /\ WorkerGoes(t, "read", copy[t])
  /\ UNCHANGED <<files, beat, timedOut, workerRest>>

\* The command cannot be started: the file is read again and marked failed.
SpawnFails(t) ==
  /\ worker[t] = "spawn"
  /\ WorkerGoes(t, "final", Mark(Read(t), "failed"))
  /\ UNCHANGED <<files, beat, child, timedOut, workerRest>>

WorkerReads(t) ==
  /\ worker[t] = "read"
  /\ WorkerGoes(t, "record", Mark(Read(t), "running"))
  /\ UNCHANGED <<files, beat, child, timedOut, workerRest>>

WorkerRecordsRunning(t) ==
  /\ worker[t] = "record"
  /\ Save(t, copy[t])
  /\ WorkerGoes(t, "wait", copy[t])
  /\ UNCHANGED <<beat, child, timedOut, workerRest>>

\* A heartbeat that finds the task finished ends the loop.
HeartbeatReads(t) ==
  /\ worker[t] = "wait"
  /\ ~Read(t).finished
  /\ worker' = [worker EXCEPT ![t] = "beat"]
  /\ beat' = [beat EXCEPT ![t] = [Read(t) EXCEPT !.fresh = TRUE]]
  /\ UNCHANGED <<files, copy, child, timedOut, workerRest>>

HeartbeatWrites(t) ==
  /\ worker[t] = "beat"
  /\ Save(t, beat[t])
  /\ worker' = [worker EXCEPT ![t] = "wait"]
  /\ beat' = [beat EXCEPT ![t] = NewRuntime]
  /\ UNCHANGED <<copy, child, timedOut, workerRest>>

\* Faulty: the kill is seen only when the command has ended anyway.
ControlLate(t) ==
  /\ worker[t] = "ended"
  /\ kill[t] /\ child[t] = "alive"
  /\ child' = [child EXCEPT ![t] = "bad"]
  /\ UNCHANGED <<files, worker, copy, beat, timedOut, workerRest>>

\* The control loop sees the kill and terminates the process group, by force
\* after the grace period.
ControlKills(t) ==
  /\ worker[t] = "wait"
  /\ kill[t] /\ child[t] = "alive"
  /\ child' = [child EXCEPT ![t] = "bad"]
  /\ UNCHANGED <<files, worker, copy, beat, timedOut, workerRest>>

\* Faulty: the worker does not terminate the command it gives up.
TimeoutForgets(t) ==
  /\ worker[t] = "wait"
  /\ child[t] = "alive"
  /\ timedOut' = [timedOut EXCEPT ![t] = TRUE]
  /\ WorkerGoes(t, "ended", copy[t])
  /\ UNCHANGED <<files, beat, child, workerRest>>

Timeout(t) ==
  /\ worker[t] = "wait"
  /\ child[t] = "alive"
  /\ timedOut' = [timedOut EXCEPT ![t] = TRUE]
  /\ child' = [child EXCEPT ![t] = "bad"]
  /\ UNCHANGED <<files, worker, copy, beat, workerRest>>

\* The command has ended: heartbeat and control loop are stopped.
WorkerSeesExit(t) ==
  /\ worker[t] = "wait"
  /\ child[t] \in {"ok", "bad"}
  /\ WorkerGoes(t, "ended", copy[t])
  /\ UNCHANGED <<files, beat, child, timedOut, workerRest>>

\* The final status, in the code's order, on top of last_known_runtime.
FinalStatus(t) ==
  IF timedOut[t] THEN "timed_out"
  ELSE IF kill[t] THEN "killed"
  ELSE IF child[t] = "ok" THEN "completed" ELSE "failed"

WorkerDecides(t) ==
  /\ worker[t] = "ended"
  /\ WorkerGoes(t, "final", Mark(copy[t], FinalStatus(t)))
  /\ UNCHANGED <<files, beat, child, timedOut, workerRest>>

\* The last write does not look at the file.
WorkerFinishes(t) ==
  /\ worker[t] = "final"
  /\ Save(t, copy[t])
  /\ WorkerGoes(t, "gone", NewRuntime)
  /\ UNCHANGED <<beat, child, timedOut, workerRest>>

\* What the worker does by itself, waiting for the command excepted.
WorkerStep(t) ==
  \/ WorkerStarts(t) \/ WorkerRecordsStart(t) \/ WorkerChecksControl(t)
  \/ Spawn(t) \/ SpawnFails(t) \/ WorkerReads(t) \/ WorkerRecordsRunning(t)
  \/ HeartbeatWrites(t) \/ WorkerDecides(t) \/ WorkerFinishes(t)

CommandExits(t) ==
  /\ child[t] = "alive"
  /\ \E code \in {"ok", "bad"} : child' = [child EXCEPT ![t] = code]
  /\ UNCHANGED <<files, worker, copy, beat, timedOut, workerRest>>

WorkerCrash(t) ==
  /\ worker[t] \notin {"none", "gone", "dead"}
  /\ workerCrashes < MaxWorkerCrashes
  /\ workerCrashes' = workerCrashes + 1
  /\ WorkerGoes(t, "dead", NewRuntime)
  /\ beat' = [beat EXCEPT ![t] = NewRuntime]
  /\ UNCHANGED <<files, child, timedOut, loop, agentVars, published, late, crashes>>

-----------------------------------------------------------------------------
(***************************************************************************)
(* The coroutine of an agent task.  Its marks read, check and write in one *)
(* go: an approval thread's write in between has no more effect than the   *)
(* same write before.  Cancelling the coroutine, by a kill or the timeout, *)
(* ends the wait of run_soul() and not the soul it waits for.              *)
(***************************************************************************)
agentRest == <<loop, workerVars, soul, published, bounds>>

MarkUnlessEnded(t, status) ==
  IF Ended(t) THEN UNCHANGED files ELSE Save(t, Mark(Read(t), status))

Queue(t, update) == thread' = [thread EXCEPT ![t][update] = "queued"]

RunnerStarts(t) ==
  /\ loop = Free
  /\ runner[t] = "starting"
  /\ MarkUnlessEnded(t, "running")
  /\ runner' = [runner EXCEPT ![t] = "running"]
  /\ UNCHANGED <<approval, thread, agentRest>>

\* run_soul() starts the soul; a summary that is too short makes it run again.
SoulStarts(t) ==
  /\ loop = Free
  /\ runner[t] = "running" /\ ~soul[t]
  /\ soul' = [soul EXCEPT ![t] = TRUE]
  /\ UNCHANGED <<files, loop, workerVars, runner, approval, thread, published, bounds>>

SoulEnds(t) ==
  /\ soul[t] /\ ~approval[t]
  /\ soul' = [soul EXCEPT ![t] = FALSE]
  /\ UNCHANGED <<files, loop, workerVars, runner, approval, thread, published, bounds>>

\* One request at a time, and one thread of each kind.  The runner hears of
\* requests until it has cleaned up.
ApprovalCreated(t) ==
  /\ soul[t] /\ runner[t] # "gone"
  /\ ~approval[t]
  /\ thread[t]["awaiting_approval"] = "none"
  /\ approval' = [approval EXCEPT ![t] = TRUE]
  /\ Queue(t, "awaiting_approval")
  /\ UNCHANGED <<files, runner, agentRest>>

ApprovalResolved(t) ==
  /\ approval[t]
  /\ thread[t]["running"] = "none"
  /\ approval' = [approval EXCEPT ![t] = FALSE]
  /\ Queue(t, "running")
  /\ UNCHANGED <<files, runner, agentRest>>

\* asyncio.to_thread(_mark_task_...): the read and the check, then the write.
ThreadReads(t, u) ==
  /\ thread[t][u] = "queued"
  /\ thread' = [thread EXCEPT ![t][u] = IF Ended(t) THEN "none" ELSE "read"]
  /\ UNCHANGED <<files, runner, approval, agentRest>>

ThreadWrites(t, u) ==
  /\ thread[t][u] = "read"
  /\ Save(t, Mark(NewRuntime, u))
  /\ thread' = [thread EXCEPT ![t][u] = "none"]
  /\ UNCHANGED <<runner, approval, agentRest>>

\* The run ends, by itself or cancelled by an approval that was rejected.
RunnerEnds(t) ==
  /\ loop = Free
  /\ runner[t] = "running" /\ ~soul[t]
  /\ \E status \in {"completed", "failed", "killed"} : MarkUnlessEnded(t, status)
  /\ runner' = [runner EXCEPT ![t] = "ended"]
  /\ UNCHANGED <<approval, thread, agentRest>>

RunnerTimesOut(t) ==
  /\ loop = Free
  /\ runner[t] = "running"
  /\ MarkUnlessEnded(t, "timed_out")
  /\ runner' = [runner EXCEPT ![t] = "ended"]
  /\ UNCHANGED <<approval, thread, agentRest>>

RunnerCancelled(t) ==
  /\ loop = Free
  /\ runner[t] = "cancelled"
  /\ MarkUnlessEnded(t, "killed")
  /\ runner' = [runner EXCEPT ![t] = "ended"]
  /\ UNCHANGED <<approval, thread, agentRest>>

\* finally: the update tasks are cancelled (a thread that runs goes on, and one
\* of a request the soul makes while they are awaited), the task's approvals
\* too, and the task leaves _live_agent_tasks.
RunnerCleansUp(t) ==
  /\ loop = Free
  /\ runner[t] = "ended"
  /\ runner' = [runner EXCEPT ![t] = "gone"]
  /\ approval' = [approval EXCEPT ![t] = FALSE]
  /\ \E kept \in SUBSET Update :
       /\ kept # {} => soul[t] /\ \E u \in Update \ kept : thread[t][u] # "none"
       /\ thread' = [thread EXCEPT ![t] = [u \in Update |->
                       IF @[u] = "queued" /\ u \notin kept THEN "none" ELSE @[u]]]
  /\ UNCHANGED <<files, agentRest>>

RunnerStep(t) == RunnerStarts(t) \/ RunnerCancelled(t) \/ RunnerCleansUp(t)
ThreadStep(t) == \E u \in Update : ThreadReads(t, u) \/ ThreadWrites(t, u)

-----------------------------------------------------------------------------
(***************************************************************************)
(* TaskStop.  The signal to the process group the runtime file names may   *)
(* not be sent (no group recorded yet) or not end the command.             *)
(***************************************************************************)
KillBash(t) ==
  /\ loop = Free
  /\ t \in spec /\ ~Ended(t)
  /\ kill' = [kill EXCEPT ![t] = TRUE]
  /\ \/ UNCHANGED child
     \/ child[t] = "alive" /\ child' = [child EXCEPT ![t] = "bad"]
  /\ UNCHANGED <<spec, saved, runtime, loop, worker, copy, beat, timedOut,
                 agentVars, published, bounds>>

\* An agent task is marked at once, its approval is resolved and its coroutine
\* cancelled; one that has not run yet never runs.  A soul that works goes on.
KillAgent(t) ==
  /\ loop = Free
  /\ t \in spec /\ ~Ended(t)
  /\ Save(t, Mark(Read(t), "killed"))
  /\ IF approval[t] THEN Queue(t, "running") ELSE UNCHANGED thread
  /\ approval' = [approval EXCEPT ![t] = FALSE]
  /\ runner' = [runner EXCEPT ![t] = CASE @ = "starting" -> "gone"
                                       [] @ = "running"  -> "cancelled"
                                       [] OTHER          -> @]
  /\ UNCHANGED agentRest

(***************************************************************************)
(* reconcile(): recover(), then publish_terminal_notifications().          *)
(***************************************************************************)
\* Faulty: a task whose coroutine is alive is declared lost too.
RecoverLive(t) ==
  /\ loop = Free
  /\ t \in spec /\ ~Ended(t)
  /\ Save(t, Mark(Read(t), "lost"))
  /\ UNCHANGED <<agentVars, agentRest>>

RecoverAgent(t) ==
  /\ loop = Free
  /\ t \in spec /\ ~Ended(t)
  /\ runner[t] \in {"none", "gone"}
  /\ Save(t, Mark(Read(t), "lost"))
  /\ UNCHANGED <<agentVars, agentRest>>

\* Faulty: a task that has not reached "running" is not recovered.
RecoverReadRunning(t) ==
  /\ loop = Free
  /\ t \in spec /\ Read(t).status = "running"
  /\ ~Read(t).fresh
  /\ Do("recover", t, Read(t))
  /\ UNCHANGED <<files, workerVars, agentVars, published, bounds>>

\* A stale task is read a second time, so only the last read counts.
RecoverRead(t) ==
  /\ loop = Free
  /\ t \in spec /\ ~Ended(t)
  /\ ~Read(t).fresh
  /\ Do("recover", t, Read(t))
  /\ UNCHANGED <<files, workerVars, agentVars, published, bounds>>

RecoverWrite(t) ==
  /\ Doing("recover", t)
  /\ Save(t, Mark(loop.view, IF kill[t] THEN "killed" ELSE "lost"))
  /\ Done
  /\ UNCHANGED <<workerVars, agentVars, published, bounds>>

\* Faulty: a task is announced once, whatever became of it later.
PublishOnce(t) ==
  /\ loop = Free
  /\ t \in spec /\ Ended(t)
  /\ published[t] = {}
  /\ published' = [published EXCEPT ![t] = {Read(t).status}]
  /\ UNCHANGED <<files, loop, workerVars, agentVars, bounds>>

\* The notification is published once for each task and terminal reason.
Publish(t) ==
  /\ loop = Free
  /\ t \in spec /\ Ended(t)
  /\ Read(t).status \notin published[t]
  /\ published' = [published EXCEPT ![t] = @ \cup {Read(t).status}]
  /\ UNCHANGED <<files, loop, workerVars, agentVars, bounds>>

CreateStep(t) == Launch(t) \/ LaunchFails(t) \/ LaunchRead(t) \/ LaunchWrite(t)

-----------------------------------------------------------------------------
\* Time passes without a heartbeat.  A live worker can be late too: the
\* machine is suspended, or overloaded.
Expire(t) ==
  /\ t \in saved /\ runtime[t].fresh /\ ~Ended(t)
  /\ IF worker[t] \in {"none", "gone", "dead"}
     THEN UNCHANGED late
     ELSE late < MaxLate /\ late' = late + 1
  /\ runtime' = [runtime EXCEPT ![t].fresh = FALSE]
  /\ UNCHANGED <<spec, saved, kill, loop, workerVars, agentVars, published,
                 workerCrashes, crashes>>

\* The CLI dies, and with it its coroutines, souls and threads; workers live on.
Crash ==
  /\ crashes < MaxCrashes
  /\ crashes' = crashes + 1
  /\ loop' = Free
  /\ runner' = [t \in AgentTasks |-> IF runner[t] = "none" THEN "none" ELSE "gone"]
  /\ soul' = [t \in AgentTasks |-> FALSE]
  /\ approval' = [t \in AgentTasks |-> FALSE]
  /\ thread' = [t \in AgentTasks |-> NoThread]
  /\ UNCHANGED <<files, workerVars, published, late, workerCrashes>>

BashNext(t) ==
  \/ CreateBash(t) \/ CreateStep(t)
  \/ WorkerStep(t) \/ HeartbeatReads(t) \/ ControlKills(t) \/ Timeout(t)
  \/ WorkerSeesExit(t) \/ CommandExits(t) \/ WorkerCrash(t)
  \/ KillBash(t) \/ RecoverRead(t) \/ RecoverWrite(t) \/ Expire(t)

AgentNext(t) ==
  \/ CreateAgent(t) \/ RunnerStep(t) \/ ThreadStep(t) \/ SoulStarts(t) \/ SoulEnds(t)
  \/ ApprovalCreated(t) \/ ApprovalResolved(t)
  \/ RunnerEnds(t) \/ RunnerTimesOut(t)
  \/ KillAgent(t) \/ RecoverAgent(t)

Next ==
  \/ \E t \in Tasks : Create(t) \/ Publish(t)
  \/ \E t \in BashTasks : BashNext(t)
  \/ \E t \in AgentTasks : AgentNext(t)
  \/ Crash

Spec == Init /\ [][Next]_vars

(***************************************************************************)
(* Fairness.  The event loop finishes what it started and runs its ready   *)
(* coroutines; the CLI reconciles at every step, in its pump and when it   *)
(* starts; workers and threads run; heartbeats do not starve the worker's  *)
(* other coroutines (SF); a worker that is gone is noticed.  Commands and  *)
(* runs need not end.                                                      *)
(***************************************************************************)
BashFair(t) ==
  /\ WF_vars(CreateBash(t)) /\ WF_vars(CreateStep(t)) /\ WF_vars(WorkerStep(t))
  /\ SF_vars(ControlKills(t)) /\ SF_vars(WorkerSeesExit(t))
  /\ WF_vars(Expire(t) /\ UNCHANGED late)
  /\ WF_vars(RecoverRead(t)) /\ WF_vars(RecoverWrite(t))

AgentFair(t) ==
  /\ WF_vars(CreateAgent(t)) /\ WF_vars(RunnerStep(t)) /\ WF_vars(ThreadStep(t))
  /\ WF_vars(RecoverAgent(t))

FairSpec ==
  /\ Spec
  /\ \A t \in Tasks : WF_vars(Publish(t))
  /\ \A t \in BashTasks : BashFair(t)
  /\ \A t \in AgentTasks : AgentFair(t)

-----------------------------------------------------------------------------
(***************************************************************************)
(* Properties.                                                             *)
(***************************************************************************)
\* A task reported completed, failed or timed out has no command running: only
\* "lost" and "killed" may be said of a command nobody watches any more.
EndedCommandIsDead ==
  \A t \in BashTasks :
    Read(t).status \in {"completed", "failed", "timed_out"} => child[t] # "alive"

\* An agent task with a terminal status has no runner at work: the CLI never
\* declares one of its live tasks lost, and a late approval update or a kill that
\* races with the start leaves none behind.  Only "completed" and "failed" say
\* that the agent itself is done: run_soul() leaves the soul of a cancelled or
\* timed-out run at work (soul/__init__.py:215), so it can still be there behind
\* "killed", "timed_out" and "lost", but none of these turns into a report while it is.
EndedRunnerIsDone ==
  \A t \in AgentTasks :
    Ended(t) => /\ runner[t] \notin {"starting", "running"}
                /\ Read(t).status \in {"completed", "failed"} => ~soul[t]

\* No zombie: once nothing runs for a task any more, its status becomes and
\* stays terminal, whatever crashed and whoever overwrote the runtime file.
\* (A task whose runtime.json was never written is not covered: see the README.)
Runs(t) == IF t \in BashTasks THEN child[t] = "alive"
                              ELSE runner[t] \in {"starting", "running"}

TasksEnd ==
  \A t \in Tasks :
    <>[](t \in saved /\ ~Runs(t)) => <>[](runtime[t].status \in Terminal)

\* The status a task is left with is announced, also when an earlier one was.
EndsAnnounced ==
  \A t \in Tasks : \A s \in Terminal :
    <>[](runtime[t].status = s) => <>(s \in published[t])

\* A kill reaches the command, however the request races with its start and
\* with the heartbeats, unless the worker dies.
KillReaches ==
  \A t \in BashTasks :
    (kill[t] /\ worker[t] # "dead") ~> (child[t] # "alive" \/ worker[t] = "dead")

\* test_create_bash_task_does_not_overwrite_worker_terminal_state,
\* test_mark_task_running_does_not_overwrite_terminal_state: a terminal status
\* is never overwritten by one that is not.
TerminalIsKept ==
  [][\A t \in Tasks : Ended(t) => Ended(t)']_vars
=============================================================================
