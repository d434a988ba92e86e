-------------------------- MODULE BackgroundProofs --------------------------
(***************************************************************************)
(* Proofs about BackgroundTasks, for any number of tasks.                  *)
(*                                                                         *)
(* EndedCommandIsDead is a property of the runtime file, which several     *)
(* processes overwrite with copies read earlier.  The invariant says why   *)
(* it holds anyway: the copies that wait to be written are no reports      *)
(* (Held), a report is written last (Reported), and when it is, the worker *)
(* has seen its command end (Command).  The event loop's own "failed",     *)
(* before a worker exists, needs Created.                                  *)
(***************************************************************************)
EXTENDS BackgroundTasks, TLAPS

\* What is written about tasks is written about tasks that were created.
Known ==
  /\ loop.tasks \subseteq spec
  /\ \A t \in BashTasks : worker[t] # "none" => t \in spec
  /\ \A t \in AgentTasks : runner[t] # "none" \/ soul[t] \/ approval[t] => t \in spec
  /\ \A t \in AgentTasks : \A u \in Update : thread[t][u] # "none" => t \in spec

\* How far the worker is says whether its command can be alive.
Command(t) ==
  /\ worker[t] \in {"none", "launched", "starting", "control", "spawn"} =>
       child[t] = "none"
  /\ worker[t] = "ended" => child[t] \in {"ok", "bad"}
  /\ worker[t] \in {"final", "gone"} => child[t] # "alive"

Reports == {"completed", "failed", "timed_out"}

\* What the worker holds is not a report until its last write.
Held(t) ==
  /\ worker[t] \in {"starting", "record"} => copy[t].status \notin Reports
  /\ worker[t] = "beat" => beat[t].status \notin Reports

\* A report is the last thing a worker does, or made in its place.
Reported(t) == Read(t).status \in Reports => worker[t] \in {"none", "gone"}

Workers == \A t \in BashTasks : Command(t) /\ Held(t) /\ Reported(t)

\* A task that is being created has no worker and no report.
Created ==
  loop.op \in {"create", "launch"} =>
    \A t \in BashTasks \cap loop.tasks :
      worker[t] = "none" /\ Read(t).status = "created"

IInv == TypeOK /\ Known /\ Workers /\ Created /\ EndedRunnerIsDone

-----------------------------------------------------------------------------
\* A marked copy is a runtime with the status it was marked with.
LEMMA MarkFacts ==
  ASSUME NEW r \in Runtime, NEW s \in Status
  PROVE  /\ Mark(r, s) \in Runtime /\ Mark(r, s).status = s
BY DEF Mark, Runtime, Status, Terminal

\* Setting the freshness of a copy leaves its status.
LEMMA FreshFacts ==
  ASSUME NEW r \in Runtime, NEW b \in BOOLEAN
  PROVE  [r EXCEPT !.fresh = b] \in Runtime /\ [r EXCEPT !.fresh = b].status = r.status
BY DEF Runtime

\* An assignment to one thread of one task is about that thread alone.
LEMMA ThreadFacts ==
  ASSUME TypeOK, NEW t \in AgentTasks, NEW u \in Update,
         NEW x \in {"none", "queued", "read"}, thread' = [thread EXCEPT ![t][u] = x]
  PROVE  /\ thread' \in [AgentTasks -> [Update -> {"none", "queued", "read"}]]
         /\ \A s \in AgentTasks : \A v \in Update :
              thread'[s][v] = IF s = t /\ v = u THEN x ELSE thread[s][v]
<1>1. thread \in [AgentTasks -> [Update -> {"none", "queued", "read"}]]
  BY DEF TypeOK
<1> DEFINE f == [thread[t] EXCEPT ![u] = x]
<1>2. thread[t] \in [Update -> {"none", "queued", "read"}]
  BY <1>1
<1>3. /\ f \in [Update -> {"none", "queued", "read"}]
      /\ \A v \in Update : f[v] = IF v = u THEN x ELSE thread[t][v]
  BY <1>2
<1>4. thread' = [thread EXCEPT ![t] = f]
  OBVIOUS
<1> HIDE DEF f
<1> QED BY <1>1, <1>3, <1>4

\* What is read of a task is a runtime, whether its file exists or not.
LEMMA ReadFacts ==
  ASSUME TypeOK, NEW t \in Tasks
  PROVE  Read(t) \in Runtime /\ NewRuntime \in Runtime /\ runtime[t] \in Runtime
BY DEF TypeOK, Read, NewRuntime, Runtime, Status

\* A saved copy is what the next reader of the task gets; other tasks are not
\* concerned.
LEMMA SaveFacts ==
  ASSUME TypeOK, NEW t \in spec, NEW r \in Runtime, Save(t, r)
  PROVE  /\ runtime' \in [Tasks -> Runtime] /\ saved' \subseteq spec
         /\ UNCHANGED <<spec, kill>>
         /\ Read(t)' = r
         /\ \A u \in Tasks \ {t} : Read(u)' = Read(u)
BY DEF TypeOK, Save, Read

\* An agent task is marked, or has ended: the files keep their types.
LEMMA UnlessEndedFacts ==
  ASSUME TypeOK, NEW t \in Tasks, t \in spec, NEW s \in Status, MarkUnlessEnded(t, s)
  PROVE  /\ runtime' \in [Tasks -> Runtime] /\ saved' \subseteq spec
         /\ UNCHANGED <<spec, kill>>
<1>1. CASE Ended(t)
  BY <1>1 DEF MarkUnlessEnded, files, TypeOK
<1>2. CASE ~Ended(t)
  <2>1. Mark(Read(t), s) \in Runtime
    BY ReadFacts, MarkFacts
  <2>2. Save(t, Mark(Read(t), s))
    BY <1>2 DEF MarkUnlessEnded
  <2> QED BY <2>1, <2>2, SaveFacts
<1> QED BY <1>1, <1>2

\* Nothing written, nothing else read.
LEMMA SameFiles ==
  ASSUME UNCHANGED files
  PROVE  /\ UNCHANGED <<spec, saved, runtime, kill>>
         /\ \A u \in Tasks : Read(u)' = Read(u)
BY DEF files, Read

-----------------------------------------------------------------------------
\* A write to the file of a task concerns no other task, whatever is written.
LEMMA OtherFiles ==
  ASSUME TypeOK, NEW t \in Tasks, NEW r, Save(t, r)
  PROVE  UNCHANGED <<spec, kill>> /\ \A u \in Tasks \ {t} : Read(u)' = Read(u)
BY DEF TypeOK, Save, Read

\* A step of a bash task leaves the agent tasks alone, and of the other bash tasks
\* the file, the worker and the command.
LEMMA BashFrame ==
  ASSUME TypeOK, NEW t \in BashTasks, BashNext(t)
  PROVE  /\ UNCHANGED <<spec, agentVars>>
         /\ \A u \in Tasks \ {t} : Read(u)' = Read(u)
         /\ \A u \in BashTasks \ {t} :
              /\ worker'[u] = worker[u] /\ child'[u] = child[u]
              /\ copy'[u] = copy[u] /\ beat'[u] = beat[u]
<1>0. t \in Tasks
  BY DEF Tasks
<1>1. UNCHANGED agentVars
  BY Zenon DEF BashNext, CreateStep, WorkerStep, CreateBash, workerRest, Launch, LaunchFails,
     LaunchRead, LaunchWrite, WorkerStarts, WorkerRecordsStart, WorkerChecksControl, Spawn,
     SpawnFails, WorkerReads, WorkerRecordsRunning, HeartbeatReads, HeartbeatWrites,
     ControlKills, Timeout, WorkerSeesExit, WorkerDecides, WorkerFinishes, CommandExits,
     WorkerCrash, KillBash, RecoverRead, RecoverWrite, Expire
<1>2. UNCHANGED spec /\ \A u \in Tasks \ {t} : Read(u)' = Read(u)
  <2>1. CASE UNCHANGED files
    BY <2>1, SameFiles
  <2>2. CASE \E r : Save(t, r)
    BY <2>2, <1>0, OtherFiles
  <2>3. CASE Expire(t) \/ KillBash(t)
    BY <2>3 DEF Expire, KillBash, Read, TypeOK
  <2> QED
    BY <2>1, <2>2, <2>3, Zenon DEF
         BashNext, CreateStep, WorkerStep, CreateBash, Launch, LaunchFails, LaunchRead,
         LaunchWrite, WorkerStarts, WorkerRecordsStart, WorkerChecksControl, Spawn,
         SpawnFails, WorkerReads, WorkerRecordsRunning, HeartbeatReads, HeartbeatWrites,
         ControlKills, Timeout, WorkerSeesExit, WorkerDecides, WorkerFinishes, CommandExits,
         WorkerCrash, RecoverRead, RecoverWrite
<1>3. ASSUME NEW u \in BashTasks \ {t}
      PROVE  /\ worker'[u] = worker[u] /\ child'[u] = child[u]
             /\ copy'[u] = copy[u] /\ beat'[u] = beat[u]
  <2>1. \/ UNCHANGED worker \/ \E p : worker' = [worker EXCEPT ![t] = p]
    BY Zenon DEF BashNext, CreateStep, WorkerStep, workerVars, WorkerGoes, CreateBash, Launch,
       LaunchFails, LaunchRead, LaunchWrite, WorkerStarts, WorkerRecordsStart,
       WorkerChecksControl, Spawn, SpawnFails, WorkerReads, WorkerRecordsRunning,
       HeartbeatReads, HeartbeatWrites, ControlKills, Timeout, WorkerSeesExit, WorkerDecides,
       WorkerFinishes, CommandExits, WorkerCrash, KillBash, RecoverRead, RecoverWrite, Expire
  <2>2. \/ UNCHANGED child \/ \E p : child' = [child EXCEPT ![t] = p]
    BY Zenon DEF BashNext, CreateStep, WorkerStep, workerVars, CreateBash, Launch, LaunchFails,
       LaunchRead, LaunchWrite, WorkerStarts, WorkerRecordsStart, WorkerChecksControl, Spawn,
       SpawnFails, WorkerReads, WorkerRecordsRunning, HeartbeatReads, HeartbeatWrites,
       ControlKills, Timeout, WorkerSeesExit, WorkerDecides, WorkerFinishes, CommandExits,
       WorkerCrash, KillBash, RecoverRead, RecoverWrite, Expire
  <2>3. \/ UNCHANGED copy \/ \E p : copy' = [copy EXCEPT ![t] = p]
    BY Zenon DEF BashNext, CreateStep, WorkerStep, workerVars, WorkerGoes, CreateBash, Launch,
       LaunchFails, LaunchRead, LaunchWrite, WorkerStarts, WorkerRecordsStart,
       WorkerChecksControl, Spawn, SpawnFails, WorkerReads, WorkerRecordsRunning,
       HeartbeatReads, HeartbeatWrites, ControlKills, Timeout, WorkerSeesExit, WorkerDecides,
       WorkerFinishes, CommandExits, WorkerCrash, KillBash, RecoverRead, RecoverWrite, Expire
  <2>4. \/ UNCHANGED beat \/ \E p : beat' = [beat EXCEPT ![t] = p]
    BY Zenon DEF BashNext, CreateStep, WorkerStep, workerVars, CreateBash, Launch, LaunchFails,
       LaunchRead, LaunchWrite, WorkerStarts, WorkerRecordsStart, WorkerChecksControl, Spawn,
       SpawnFails, WorkerReads, WorkerRecordsRunning, HeartbeatReads, HeartbeatWrites,
       ControlKills, Timeout, WorkerSeesExit, WorkerDecides, WorkerFinishes, CommandExits,
       WorkerCrash, KillBash, RecoverRead, RecoverWrite, Expire
  <2> QED BY <2>1, <2>2, <2>3, <2>4 DEF TypeOK
<1> QED BY <1>1, <1>2, <1>3

\* A step of an agent task leaves the workers and their commands alone, and of the
\* other tasks the file; the event loop at most finishes a creation.
LEMMA AgentFrame ==
  ASSUME TypeOK, NEW t \in AgentTasks, AgentNext(t)
  PROVE  /\ UNCHANGED <<spec, kill, workerVars>> /\ (loop' = loop \/ loop' = Free)
         /\ \A u \in Tasks \ {t} : Read(u)' = Read(u)
         /\ \A u \in AgentTasks \ {t} :
              runner'[u] = runner[u] /\ soul'[u] = soul[u] /\ approval'[u] = approval[u]
<1>0. t \in Tasks
  BY DEF Tasks
<1>1. UNCHANGED workerVars /\ (loop' = loop \/ loop' = Free)
  BY Zenon DEF AgentNext, RunnerStep, ThreadStep, SoulStarts, SoulEnds, agentRest, Done,
       ThreadReads, ThreadWrites, CreateAgent, RunnerStarts, ApprovalCreated,
       ApprovalResolved, RunnerEnds, RunnerTimesOut, RunnerCancelled, RunnerCleansUp,
       KillAgent, RecoverAgent
<1>2. UNCHANGED <<spec, kill>> /\ \A u \in Tasks \ {t} : Read(u)' = Read(u)
  <2>1. CASE UNCHANGED files
    BY <2>1, SameFiles
  <2>2. CASE \E r : Save(t, r)
    BY <2>2, <1>0, OtherFiles
  <2> QED
    BY <2>1, <2>2, Zenon DEF
         AgentNext, RunnerStep, ThreadStep, SoulStarts, SoulEnds, MarkUnlessEnded,
         ThreadReads, ThreadWrites, CreateAgent, RunnerStarts, ApprovalCreated,
         ApprovalResolved, RunnerEnds, RunnerTimesOut, RunnerCancelled, RunnerCleansUp,
         KillAgent, RecoverAgent
<1>3. \/ UNCHANGED runner \/ \E p : runner' = [runner EXCEPT ![t] = p]
  BY Zenon DEF
       AgentNext, RunnerStep, ThreadStep, SoulStarts, SoulEnds, agentVars, ThreadReads,
       ThreadWrites, CreateAgent, RunnerStarts, ApprovalCreated, ApprovalResolved, RunnerEnds,
       RunnerTimesOut, RunnerCancelled, RunnerCleansUp, KillAgent, RecoverAgent
<1>4. \/ UNCHANGED approval \/ \E p : approval' = [approval EXCEPT ![t] = p]
  BY Zenon DEF
       AgentNext, RunnerStep, ThreadStep, SoulStarts, SoulEnds, agentVars, ThreadReads,
       ThreadWrites, CreateAgent, RunnerStarts, ApprovalCreated, ApprovalResolved, RunnerEnds,
       RunnerTimesOut, RunnerCancelled, RunnerCleansUp, KillAgent, RecoverAgent
<1>5. \/ UNCHANGED soul \/ \E p : soul' = [soul EXCEPT ![t] = p]
  BY Zenon DEF
       AgentNext, RunnerStep, ThreadStep, SoulStarts, SoulEnds, agentVars, agentRest,
       ThreadReads, ThreadWrites, CreateAgent, RunnerStarts, ApprovalCreated,
       ApprovalResolved, RunnerEnds, RunnerTimesOut, RunnerCancelled, RunnerCleansUp,
       KillAgent, RecoverAgent
<1> QED BY <1>1, <1>2, <1>3, <1>4, <1>5 DEF TypeOK

-----------------------------------------------------------------------------
\* Every step keeps the types.
LEMMA TypeKept ==
  ASSUME TypeOK, Known, Next
  PROVE  TypeOK'
<1> USE DEF TypeOK, workerRest, agentRest, agentVars, workerVars, bounds, Tasks, Status,
            Terminal, Update
<1>1. ASSUME NEW t \in Tasks, Create(t)
      PROVE  TypeOK'
  <2>1. NewRuntime \in Runtime
    BY ReadFacts
  <2> HIDE DEF Tasks
  <2>2. [op |-> "create", tasks |-> {t}, view |-> NewRuntime]
          \in [op : {"none", "create", "launch", "launched", "start", "recover"},
               tasks : SUBSET Tasks, view : Runtime]
    BY <2>1
  <2> HIDE DEF NewRuntime, Runtime
  <2> QED BY <1>1, <2>2 DEF Create, Do
<1>2. ASSUME NEW t \in Tasks, Publish(t)
      PROVE  TypeOK'
  <2>1. Read(t).status \in Terminal
    BY <1>2 DEF Publish, Ended
  <2>2. published' \in [Tasks -> SUBSET Terminal]
    BY <1>2, <2>1 DEF Publish
  <2>3. UNCHANGED <<files, loop, workerVars, agentVars, bounds>>
    BY <1>2 DEF Publish
  <2> QED BY <2>2, <2>3 DEF files
<1>3. ASSUME NEW t \in BashTasks, CreateBash(t)
      PROVE  TypeOK'
  BY <1>3, ReadFacts, MarkFacts, SaveFacts, SameFiles DEF Known, CreateBash, Doing, Do,
     Done, Free
<1>4. ASSUME NEW t \in BashTasks, Launch(t)
      PROVE  TypeOK'
  BY <1>4, ReadFacts, MarkFacts, SaveFacts, SameFiles DEF Known, Launch, Doing, Do,
     Done, Free
<1>5. ASSUME NEW t \in BashTasks, LaunchFails(t)
      PROVE  TypeOK'
  BY <1>5, ReadFacts, MarkFacts, SaveFacts, SameFiles DEF Known, LaunchFails, Doing, Do,
     Done, Free
<1>6. ASSUME NEW t \in BashTasks, LaunchRead(t)
      PROVE  TypeOK'
  BY <1>6, ReadFacts, MarkFacts, SaveFacts, SameFiles DEF Known, LaunchRead, Doing, Do,
     Done, Free
<1>7. ASSUME NEW t \in BashTasks, LaunchWrite(t)
      PROVE  TypeOK'
  BY <1>7, ReadFacts, MarkFacts, SaveFacts, SameFiles DEF Known, LaunchWrite, Doing, Do,
     Done, Free
<1>8. ASSUME NEW t \in BashTasks, WorkerStarts(t)
      PROVE  TypeOK'
  BY <1>8, ReadFacts, MarkFacts, SaveFacts, SameFiles DEF Known, WorkerStarts,
     WorkerGoes
<1>9. ASSUME NEW t \in BashTasks, WorkerRecordsStart(t)
      PROVE  TypeOK'
  BY <1>9, ReadFacts, MarkFacts, SaveFacts, SameFiles DEF Known, WorkerRecordsStart,
     WorkerGoes
<1>10. ASSUME NEW t \in BashTasks, WorkerChecksControl(t)
      PROVE  TypeOK'
  <2>1. Mark(copy[t], "killed") \in Runtime /\ copy[t] \in Runtime
    BY MarkFacts
  <2>2. PICK p \in {"final", "spawn"}, r \in Runtime : WorkerGoes(t, p, r)
    BY <1>10, <2>1 DEF WorkerChecksControl
  <2>3. UNCHANGED <<files, beat, child, timedOut, workerRest>>
    BY <1>10 DEF WorkerChecksControl
  <2> QED BY <2>2, <2>3, SameFiles DEF WorkerGoes
<1>11. ASSUME NEW t \in BashTasks, Spawn(t)
      PROVE  TypeOK'
  BY <1>11, ReadFacts, MarkFacts, SaveFacts, SameFiles DEF Known, Spawn, WorkerGoes
<1>12. ASSUME NEW t \in BashTasks, SpawnFails(t)
      PROVE  TypeOK'
  BY <1>12, ReadFacts, MarkFacts, SaveFacts, SameFiles DEF Known, SpawnFails, WorkerGoes
<1>13. ASSUME NEW t \in BashTasks, WorkerReads(t)
      PROVE  TypeOK'
  BY <1>13, ReadFacts, MarkFacts, SaveFacts, SameFiles DEF Known, WorkerReads,
     WorkerGoes
<1>14. ASSUME NEW t \in BashTasks, WorkerRecordsRunning(t)
      PROVE  TypeOK'
  BY <1>14, ReadFacts, MarkFacts, SaveFacts, SameFiles DEF Known, WorkerRecordsRunning,
     WorkerGoes
<1>15. ASSUME NEW t \in BashTasks, HeartbeatReads(t)
      PROVE  TypeOK'
  <2>1. [Read(t) EXCEPT !.fresh = TRUE] \in Runtime
    BY ReadFacts, FreshFacts
  <2> QED BY <1>15, <2>1, SameFiles DEF HeartbeatReads
<1>16. ASSUME NEW t \in BashTasks, HeartbeatWrites(t)
      PROVE  TypeOK'
  BY <1>16, ReadFacts, MarkFacts, SaveFacts, SameFiles DEF Known, HeartbeatWrites,
     WorkerGoes
<1>17. ASSUME NEW t \in BashTasks, ControlKills(t)
      PROVE  TypeOK'
  BY <1>17, ReadFacts, MarkFacts, SaveFacts, SameFiles DEF Known, ControlKills,
     WorkerGoes
<1>18. ASSUME NEW t \in BashTasks, Timeout(t)
      PROVE  TypeOK'
  BY <1>18, ReadFacts, MarkFacts, SaveFacts, SameFiles DEF Known, Timeout, WorkerGoes
<1>19. ASSUME NEW t \in BashTasks, WorkerSeesExit(t)
      PROVE  TypeOK'
  BY <1>19, ReadFacts, MarkFacts, SaveFacts, SameFiles DEF Known, WorkerSeesExit,
     WorkerGoes
<1>20. ASSUME NEW t \in BashTasks, WorkerDecides(t)
      PROVE  TypeOK'
  BY <1>20, ReadFacts, MarkFacts, SaveFacts, SameFiles DEF Known, WorkerDecides,
     WorkerGoes, FinalStatus
<1>21. ASSUME NEW t \in BashTasks, WorkerFinishes(t)
      PROVE  TypeOK'
  BY <1>21, ReadFacts, MarkFacts, SaveFacts, SameFiles DEF Known, WorkerFinishes,
     WorkerGoes
<1>22. ASSUME NEW t \in BashTasks, CommandExits(t)
      PROVE  TypeOK'
  BY <1>22, ReadFacts, MarkFacts, SaveFacts, SameFiles DEF Known, CommandExits,
     WorkerGoes
<1>23. ASSUME NEW t \in BashTasks, WorkerCrash(t)
      PROVE  TypeOK'
  BY <1>23, ReadFacts, MarkFacts, SaveFacts, SameFiles DEF Known, WorkerCrash,
     WorkerGoes
<1>24. ASSUME NEW t \in BashTasks, KillBash(t)
      PROVE  TypeOK'
  BY <1>24, ReadFacts, MarkFacts, SaveFacts, SameFiles DEF Known, KillBash, WorkerGoes
<1>25. ASSUME NEW t \in BashTasks, RecoverRead(t)
      PROVE  TypeOK'
  BY <1>25, ReadFacts, MarkFacts, SaveFacts, SameFiles DEF Known, RecoverRead, Doing,
     Do, Done, Free
<1>26. ASSUME NEW t \in BashTasks, RecoverWrite(t)
      PROVE  TypeOK'
  BY <1>26, ReadFacts, MarkFacts, SaveFacts, SameFiles DEF Known, RecoverWrite, Doing,
     Do, Done, Free
<1>27. ASSUME NEW t \in BashTasks, Expire(t)
      PROVE  TypeOK'
  <2>1. [runtime[t] EXCEPT !.fresh = FALSE] \in Runtime
    BY ReadFacts, FreshFacts
  <2>2. runtime' = [runtime EXCEPT ![t] = [runtime[t] EXCEPT !.fresh = FALSE]]
    BY <1>27 DEF Expire
  <2>3. runtime' \in [Tasks -> Runtime]
    BY <2>1, <2>2
  <2> QED BY <1>27, <2>3 DEF Expire
<1>28. ASSUME NEW t \in AgentTasks, CreateAgent(t)
      PROVE  TypeOK'
  BY <1>28, ReadFacts, MarkFacts, SaveFacts, SameFiles DEF Known, CreateAgent, Doing,
     Done, Free
<1>29. ASSUME NEW t \in AgentTasks, RunnerStarts(t)
      PROVE  TypeOK'
  <2>1. MarkUnlessEnded(t, "running")
    BY <1>29 DEF RunnerStarts
  <2>2. t \in Tasks /\ t \in spec /\ "running" \in Status
    BY <1>29 DEF Known, RunnerStarts, Tasks, Status
  <2>3. runtime' \in [Tasks -> Runtime] /\ saved' \subseteq spec /\ UNCHANGED <<spec, kill>>
    BY <2>1, <2>2, UnlessEndedFacts
  <2>4. /\ runner' \in [AgentTasks -> {"none", "starting", "running", "cancelled",
                                      "ended", "gone"}]
        /\ UNCHANGED <<approval, thread, agentRest>>
    BY <1>29 DEF RunnerStarts
  <2> QED BY <2>3, <2>4
<1>30. ASSUME NEW t \in AgentTasks, ApprovalCreated(t)
      PROVE  TypeOK'
  BY <1>30, ReadFacts, MarkFacts, SaveFacts, SameFiles DEF Known, ApprovalCreated,
     MarkUnlessEnded, Queue
<1>31. ASSUME NEW t \in AgentTasks, ApprovalResolved(t)
      PROVE  TypeOK'
  BY <1>31, ReadFacts, MarkFacts, SaveFacts, SameFiles DEF Known, ApprovalResolved,
     MarkUnlessEnded, Queue
<1>32. ASSUME NEW t \in AgentTasks, RunnerEnds(t)
      PROVE  TypeOK'
  <2>1. PICK s \in {"completed", "failed", "killed"} : MarkUnlessEnded(t, s)
    BY <1>32 DEF RunnerEnds
  <2>2. t \in Tasks /\ t \in spec /\ s \in Status
    BY <1>32 DEF Known, RunnerEnds, Tasks, Status
  <2>3. runtime' \in [Tasks -> Runtime] /\ saved' \subseteq spec /\ UNCHANGED <<spec, kill>>
    BY <2>1, <2>2, UnlessEndedFacts
  <2>4. /\ runner' \in [AgentTasks -> {"none", "starting", "running", "cancelled",
                                      "ended", "gone"}]
        /\ UNCHANGED <<approval, thread, agentRest>>
    BY <1>32 DEF RunnerEnds
  <2> QED BY <2>3, <2>4
<1>33. ASSUME NEW t \in AgentTasks, RunnerTimesOut(t)
      PROVE  TypeOK'
  <2>1. MarkUnlessEnded(t, "timed_out")
    BY <1>33 DEF RunnerTimesOut
  <2>2. t \in Tasks /\ t \in spec /\ "timed_out" \in Status
    BY <1>33 DEF Known, RunnerTimesOut, Tasks, Status
  <2>3. runtime' \in [Tasks -> Runtime] /\ saved' \subseteq spec /\ UNCHANGED <<spec, kill>>
    BY <2>1, <2>2, UnlessEndedFacts
  <2>4. /\ runner' \in [AgentTasks -> {"none", "starting", "running", "cancelled",
                                      "ended", "gone"}]
        /\ UNCHANGED <<approval, thread, agentRest>>
    BY <1>33 DEF RunnerTimesOut
  <2> QED BY <2>3, <2>4
<1>34. ASSUME NEW t \in AgentTasks, RunnerCancelled(t)
      PROVE  TypeOK'
  <2>1. MarkUnlessEnded(t, "killed")
    BY <1>34 DEF RunnerCancelled
  <2>2. t \in Tasks /\ t \in spec /\ "killed" \in Status
    BY <1>34 DEF Known, RunnerCancelled, Tasks, Status
  <2>3. runtime' \in [Tasks -> Runtime] /\ saved' \subseteq spec /\ UNCHANGED <<spec, kill>>
    BY <2>1, <2>2, UnlessEndedFacts
  <2>4. /\ runner' \in [AgentTasks -> {"none", "starting", "running", "cancelled",
                                      "ended", "gone"}]
        /\ UNCHANGED <<approval, thread, agentRest>>
    BY <1>34 DEF RunnerCancelled
  <2> QED BY <2>3, <2>4
<1>35. ASSUME NEW t \in AgentTasks, RunnerCleansUp(t)
      PROVE  TypeOK'
  <2>1. PICK kept \in SUBSET Update :
          thread' = [thread EXCEPT ![t] = [u \in Update |->
                       IF @[u] = "queued" /\ u \notin kept THEN "none" ELSE @[u]]]
    BY <1>35 DEF RunnerCleansUp
  <2>2. thread' \in [AgentTasks -> [Update -> {"none", "queued", "read"}]]
    BY <2>1
  <2>3. /\ runner' \in [AgentTasks -> {"none", "starting", "running", "cancelled",
                                      "ended", "gone"}]
        /\ approval' \in [AgentTasks -> BOOLEAN] /\ UNCHANGED <<files, agentRest>>
    BY <1>35 DEF RunnerCleansUp
  <2> QED BY <2>2, <2>3, SameFiles
<1>36. ASSUME NEW t \in AgentTasks, KillAgent(t)
      PROVE  TypeOK'
  <2>1. /\ t \in spec /\ Mark(Read(t), "killed") \in Runtime
        /\ Save(t, Mark(Read(t), "killed"))
    BY <1>36, ReadFacts, MarkFacts DEF KillAgent
  <2>2. runtime' \in [Tasks -> Runtime] /\ saved' \subseteq spec /\ UNCHANGED <<spec, kill>>
    BY <2>1, SaveFacts
  <2>3. thread' \in [AgentTasks -> [Update -> {"none", "queued", "read"}]]
    <3>1. UNCHANGED thread \/ thread' = [thread EXCEPT ![t]["running"] = "queued"]
      BY <1>36 DEF KillAgent, Queue
    <3> QED BY <3>1, ThreadFacts
  <2>4. runner' \in [AgentTasks -> {"none", "starting", "running", "cancelled",
                                   "ended", "gone"}]
    BY <1>36 DEF KillAgent
  <2>5. approval' \in [AgentTasks -> BOOLEAN] /\ UNCHANGED agentRest
    BY <1>36 DEF KillAgent
  <2> QED BY <2>2, <2>3, <2>4, <2>5
<1>37. ASSUME NEW t \in AgentTasks, RecoverAgent(t)
      PROVE  TypeOK'
  BY <1>37, ReadFacts, MarkFacts, SaveFacts, SameFiles DEF Known, RecoverAgent,
     MarkUnlessEnded, Queue
<1>38. ASSUME NEW t \in AgentTasks, NEW u \in Update,
             ThreadReads(t, u) \/ ThreadWrites(t, u)
      PROVE  TypeOK'
  <2>1. thread' \in [AgentTasks -> [Update -> {"none", "queued", "read"}]]
    <3>1. \/ thread' = [thread EXCEPT ![t][u] = "none"]
          \/ thread' = [thread EXCEPT ![t][u] = "read"]
      BY <1>38 DEF ThreadReads, ThreadWrites
    <3> HIDE DEF TypeOK, Update
    <3> QED BY <3>1, ThreadFacts
  <2>2. CASE ThreadReads(t, u)
    BY <2>1, <2>2, SameFiles DEF ThreadReads
  <2>3. CASE ThreadWrites(t, u)
    BY <2>1, <2>3, ReadFacts, MarkFacts, SaveFacts DEF Known, ThreadWrites
  <2> QED BY <1>38, <2>2, <2>3
<1>39. CASE Crash
  <2>1. runner' \in [AgentTasks -> {"none", "starting", "running", "cancelled",
                                   "ended", "gone"}]
    BY <1>39 DEF Crash
  <2>2. soul' \in [AgentTasks -> BOOLEAN] /\ approval' \in [AgentTasks -> BOOLEAN]
        /\ thread' \in [AgentTasks -> [Update -> {"none", "queued", "read"}]]
    BY <1>39 DEF Crash, NoThread
  <2>3. loop' = Free /\ crashes' \in Nat
        /\ UNCHANGED <<files, workerVars, published, late, workerCrashes>>
    BY <1>39 DEF Crash
  <2>4. UNCHANGED <<spec, saved, runtime, kill>>
    BY <2>3, SameFiles
  <2> QED BY <2>1, <2>2, <2>3, <2>4 DEF Free, NewRuntime, Runtime
<1>40. ASSUME NEW t \in AgentTasks, SoulStarts(t) \/ SoulEnds(t)
      PROVE  TypeOK'
  <2>1. soul' \in [AgentTasks -> BOOLEAN]
    BY <1>40 DEF SoulStarts, SoulEnds
  <2>2. UNCHANGED <<files, loop, workerVars, runner, approval, thread, published, bounds>>
    BY <1>40 DEF SoulStarts, SoulEnds
  <2> QED BY <2>1, <2>2, SameFiles
<1> HIDE DEF TypeOK, workerRest, agentRest, agentVars, workerVars, bounds, Tasks, Status,
             Terminal, Update
<1> QED BY <1>1, <1>2, <1>3, <1>4, <1>5, <1>6, <1>7, <1>8, <1>9, <1>10, <1>11, <1>12,
   <1>13, <1>14, <1>15, <1>16, <1>17, <1>18, <1>19, <1>20, <1>21, <1>22, <1>23, <1>24,
   <1>25, <1>26, <1>27, <1>28, <1>29, <1>30, <1>31, <1>32, <1>33, <1>34, <1>35, <1>36,
   <1>37, <1>38, <1>39, <1>40 DEF
   Next, BashNext, AgentNext, CreateStep, WorkerStep, RunnerStep, ThreadStep

-----------------------------------------------------------------------------
\* Every step writes about created tasks only: the worker and the coroutine of a
\* task are started by a creation that has written spec.json.
LEMMA KnownKept ==
  ASSUME TypeOK, Known, Next
  PROVE  Known'
<1> USE DEF Known
<1>1. ASSUME NEW t \in Tasks, Create(t)
      PROVE  Known'
  BY <1>1 DEF Create, Do, workerVars, agentVars
<1>2. ASSUME NEW t \in Tasks, Publish(t)
      PROVE  Known'
  BY <1>2, Zenon DEF Publish, files, workerVars, agentVars
<1>3. ASSUME NEW t \in BashTasks, BashNext(t)
      PROVE  Known'
  <2>1. UNCHANGED <<spec, agentVars>>
        /\ \A u \in BashTasks \ {t} : worker'[u] = worker[u]
    BY <1>3, BashFrame
  <2>2. loop'.tasks \subseteq loop.tasks \cup (spec \cap {t})
    <3>1. \/ UNCHANGED loop \/ loop' = Free
          \/ (Doing(loop.op, t) \/ t \in spec) /\ \E op, r : Do(op, t, r)
      BY <1>3, Zenon DEF
           BashNext, CreateStep, WorkerStep, Done, Doing, workerRest, CreateBash, Launch,
           LaunchFails, LaunchRead, LaunchWrite, WorkerStarts, WorkerRecordsStart,
           WorkerChecksControl, Spawn, SpawnFails, WorkerReads, WorkerRecordsRunning,
           HeartbeatReads, HeartbeatWrites, ControlKills, Timeout, WorkerSeesExit,
           WorkerDecides, WorkerFinishes, CommandExits, WorkerCrash, KillBash, RecoverRead,
           RecoverWrite, Expire
    <3> QED BY <3>1 DEF Do, Doing, Free
  <2>3. worker'[t] # "none" => t \in spec
    <3>1. UNCHANGED worker \/ worker[t] # "none" \/ Doing("launch", t)
      BY <1>3 DEF BashNext, CreateStep, WorkerStep, workerVars, CreateBash, Launch, LaunchFails,
         LaunchRead, LaunchWrite, WorkerStarts, WorkerRecordsStart, WorkerChecksControl, Spawn,
         SpawnFails, WorkerReads, WorkerRecordsRunning, HeartbeatReads, HeartbeatWrites,
         ControlKills, Timeout, WorkerSeesExit, WorkerDecides, WorkerFinishes, CommandExits,
         WorkerCrash, KillBash, RecoverRead, RecoverWrite, Expire
    <3> QED BY <3>1 DEF Doing
  <2> QED BY <2>1, <2>2, <2>3 DEF agentVars
<1>4. ASSUME NEW t \in AgentTasks, AgentNext(t)
      PROVE  Known'
  <2>1. /\ UNCHANGED <<spec, kill, workerVars>> /\ (loop' = loop \/ loop' = Free)
        /\ \A u \in AgentTasks \ {t} :
             runner'[u] = runner[u] /\ soul'[u] = soul[u] /\ approval'[u] = approval[u]
    BY <1>4, AgentFrame
  <2>2. loop'.tasks \subseteq spec /\ UNCHANGED worker
    BY <2>1 DEF Free, workerVars
  <2>3. t \in spec
    <3>1. \/ Doing("create", t) \/ runner[t] # "none" \/ soul[t] \/ approval[t] \/ t \in spec
          \/ \E u \in Update : thread[t][u] # "none"
      BY <1>4 DEF AgentNext, RunnerStep, ThreadStep, SoulStarts, SoulEnds, ThreadReads,
           ThreadWrites, CreateAgent, RunnerStarts, ApprovalCreated, ApprovalResolved,
           RunnerEnds, RunnerTimesOut, RunnerCancelled, RunnerCleansUp, KillAgent,
           RecoverAgent
    <3> QED BY <3>1 DEF Doing
  <2>4. ASSUME NEW s \in AgentTasks \ {t}
        PROVE  thread'[s] = thread[s]
    <3>1. \/ UNCHANGED thread \/ \E p : thread' = [thread EXCEPT ![t] = p]
      BY <1>4, Zenon DEF
           AgentNext, RunnerStep, ThreadStep, SoulStarts, SoulEnds, agentVars, Queue,
           ThreadReads, ThreadWrites, CreateAgent, RunnerStarts, ApprovalCreated,
           ApprovalResolved, RunnerEnds, RunnerTimesOut, RunnerCancelled, RunnerCleansUp,
           KillAgent, RecoverAgent
    <3> QED BY <3>1 DEF TypeOK
  <2> QED BY <2>1, <2>2, <2>3, <2>4
<1>5. CASE Crash
  BY <1>5 DEF Crash, Free, files, workerVars, NoThread
<1> QED BY <1>1, <1>2, <1>3, <1>4, <1>5 DEF Next

-----------------------------------------------------------------------------
\* Every step of a bash task keeps what is said of its worker.
LEMMA WorkerKept ==
  ASSUME TypeOK, Known, Created, NEW t \in BashTasks,
         Command(t), Held(t), Reported(t), BashNext(t)
  PROVE  Command(t)' /\ Held(t)' /\ Reported(t)'
<1>0. /\ t \in Tasks /\ Read(t) \in Runtime /\ loop.view \in Runtime
      /\ copy[t] \in Runtime /\ beat[t] \in Runtime
  BY ReadFacts DEF Tasks, TypeOK
<1> USE DEF Command, Held, Reported, Reports, workerVars, workerRest
<1>1. CASE CreateBash(t)
  <2>1. t \in spec /\ NewRuntime \in Runtime
    BY <1>1, <1>0, ReadFacts, MarkFacts DEF Known, CreateBash, Doing, Status, Terminal
  <2>2. Read(t)' = NewRuntime
    BY <1>1, <2>1, SaveFacts DEF CreateBash
  <2> QED BY <1>1, <1>0, <2>2, MarkFacts DEF
       CreateBash, WorkerGoes, Created, Doing, Status, Terminal, TypeOK, NewRuntime
<1>2. CASE Launch(t)
  <2>1. Read(t)' = Read(t)
    BY <1>2, <1>0, SameFiles DEF Launch
  <2> QED BY <1>2, <1>0, <2>1, MarkFacts DEF
       Launch, WorkerGoes, Created, Doing, Status, Terminal, TypeOK
<1>3. CASE LaunchFails(t)
  <2>1. t \in spec /\ Mark(loop.view, "failed") \in Runtime
    BY <1>3, <1>0, ReadFacts, MarkFacts DEF Known, LaunchFails, Doing, Status, Terminal
  <2>2. Read(t)' = Mark(loop.view, "failed")
    BY <1>3, <2>1, SaveFacts DEF LaunchFails
  <2> QED BY <1>3, <1>0, <2>2, MarkFacts DEF
       LaunchFails, WorkerGoes, Created, Doing, Status, Terminal, TypeOK, NewRuntime
<1>4. CASE LaunchRead(t)
  <2>1. Read(t)' = Read(t)
    BY <1>4, <1>0, SameFiles DEF LaunchRead
  <2> QED BY <1>4, <1>0, <2>1, MarkFacts DEF
       LaunchRead, WorkerGoes, Created, Doing, Status, Terminal, TypeOK
<1>5. CASE LaunchWrite(t)
  <2>1. t \in spec /\ Mark(loop.view, "starting") \in Runtime
    BY <1>5, <1>0, ReadFacts, MarkFacts DEF Known, LaunchWrite, Doing, Status, Terminal
  <2>2. Read(t)' = Mark(loop.view, "starting")
    BY <1>5, <2>1, SaveFacts DEF LaunchWrite
  <2> QED BY <1>5, <1>0, <2>2, MarkFacts DEF
       LaunchWrite, WorkerGoes, Created, Doing, Status, Terminal, TypeOK, NewRuntime
<1>6. CASE WorkerStarts(t)
  <2>1. Read(t)' = Read(t)
    BY <1>6, <1>0, SameFiles DEF WorkerStarts
  <2> QED BY <1>6, <1>0, <2>1, MarkFacts DEF
       WorkerStarts, WorkerGoes, Created, Doing, Status, Terminal, TypeOK
<1>7. CASE WorkerRecordsStart(t)
  <2>1. t \in spec /\ copy[t] \in Runtime
    BY <1>7, <1>0, ReadFacts, MarkFacts DEF Known, WorkerRecordsStart, Doing, Status, Terminal
  <2>2. Read(t)' = copy[t]
    BY <1>7, <2>1, SaveFacts DEF WorkerRecordsStart
  <2> QED BY <1>7, <1>0, <2>2, MarkFacts DEF
       WorkerRecordsStart, WorkerGoes, Created, Doing, Status, Terminal, TypeOK, NewRuntime
<1>8. CASE WorkerChecksControl(t)
  <2>1. Read(t)' = Read(t)
    BY <1>8, <1>0, SameFiles DEF WorkerChecksControl
  <2> QED BY <1>8, <1>0, <2>1, MarkFacts DEF
       WorkerChecksControl, WorkerGoes, Created, Doing, Status, Terminal, TypeOK
<1>9. CASE Spawn(t)
  <2>1. Read(t)' = Read(t)
    BY <1>9, <1>0, SameFiles DEF Spawn
  <2> QED BY <1>9, <1>0, <2>1, MarkFacts DEF
       Spawn, WorkerGoes, Created, Doing, Status, Terminal, TypeOK
<1>10. CASE SpawnFails(t)
  <2>1. Read(t)' = Read(t)
    BY <1>10, <1>0, SameFiles DEF SpawnFails
  <2> QED BY <1>10, <1>0, <2>1, MarkFacts DEF
       SpawnFails, WorkerGoes, Created, Doing, Status, Terminal, TypeOK
<1>11. CASE WorkerReads(t)
  <2>1. Read(t)' = Read(t)
    BY <1>11, <1>0, SameFiles DEF WorkerReads
  <2> QED BY <1>11, <1>0, <2>1, MarkFacts DEF
       WorkerReads, WorkerGoes, Created, Doing, Status, Terminal, TypeOK
<1>12. CASE WorkerRecordsRunning(t)
  <2>1. t \in spec /\ copy[t] \in Runtime
    BY <1>12, <1>0, ReadFacts, MarkFacts DEF
         Known, WorkerRecordsRunning, Doing, Status, Terminal
  <2>2. Read(t)' = copy[t]
    BY <1>12, <2>1, SaveFacts DEF WorkerRecordsRunning
  <2> QED BY <1>12, <1>0, <2>2, MarkFacts DEF
       WorkerRecordsRunning, WorkerGoes, Created, Doing, Status, Terminal, TypeOK, NewRuntime
<1>13. CASE HeartbeatReads(t)
  <2>1. Read(t)' = Read(t)
    BY <1>13, <1>0, SameFiles DEF HeartbeatReads
  <2> QED BY <1>13, <1>0, <2>1, MarkFacts DEF
       HeartbeatReads, WorkerGoes, Created, Doing, Status, Terminal, TypeOK
<1>14. CASE HeartbeatWrites(t)
  <2>1. t \in spec /\ beat[t] \in Runtime
    BY <1>14, <1>0, ReadFacts, MarkFacts DEF Known, HeartbeatWrites, Doing, Status, Terminal
  <2>2. Read(t)' = beat[t]
    BY <1>14, <2>1, SaveFacts DEF HeartbeatWrites
  <2> QED BY <1>14, <1>0, <2>2, MarkFacts DEF
       HeartbeatWrites, WorkerGoes, Created, Doing, Status, Terminal, TypeOK, NewRuntime
<1>15. CASE ControlKills(t)
  <2>1. Read(t)' = Read(t)
    BY <1>15, <1>0, SameFiles DEF ControlKills
  <2> QED BY <1>15, <1>0, <2>1, MarkFacts DEF
       ControlKills, WorkerGoes, Created, Doing, Status, Terminal, TypeOK
<1>16. CASE Timeout(t)
  <2>1. Read(t)' = Read(t)
    BY <1>16, <1>0, SameFiles DEF Timeout
  <2> QED BY <1>16, <1>0, <2>1, MarkFacts DEF
       Timeout, WorkerGoes, Created, Doing, Status, Terminal, TypeOK
<1>17. CASE WorkerSeesExit(t)
  <2>1. Read(t)' = Read(t)
    BY <1>17, <1>0, SameFiles DEF WorkerSeesExit
  <2> QED BY <1>17, <1>0, <2>1, MarkFacts DEF
       WorkerSeesExit, WorkerGoes, Created, Doing, Status, Terminal, TypeOK
<1>18. CASE WorkerDecides(t)
  <2>1. Read(t)' = Read(t)
    BY <1>18, <1>0, SameFiles DEF WorkerDecides
  <2> QED BY <1>18, <1>0, <2>1, MarkFacts DEF
       WorkerDecides, WorkerGoes, Created, Doing, Status, Terminal, TypeOK
<1>19. CASE WorkerFinishes(t)
  <2>1. t \in spec /\ copy[t] \in Runtime
    BY <1>19, <1>0, ReadFacts, MarkFacts DEF Known, WorkerFinishes, Doing, Status, Terminal
  <2>2. Read(t)' = copy[t]
    BY <1>19, <2>1, SaveFacts DEF WorkerFinishes
  <2> QED BY <1>19, <1>0, <2>2, MarkFacts DEF
       WorkerFinishes, WorkerGoes, Created, Doing, Status, Terminal, TypeOK, NewRuntime
<1>20. CASE CommandExits(t)
  <2>1. Read(t)' = Read(t)
    BY <1>20, <1>0, SameFiles DEF CommandExits
  <2> QED BY <1>20, <1>0, <2>1, MarkFacts DEF
       CommandExits, WorkerGoes, Created, Doing, Status, Terminal, TypeOK
<1>21. CASE WorkerCrash(t)
  <2>1. Read(t)' = Read(t)
    BY <1>21, <1>0, SameFiles DEF WorkerCrash
  <2> QED BY <1>21, <1>0, <2>1, MarkFacts DEF
       WorkerCrash, WorkerGoes, Created, Doing, Status, Terminal, TypeOK
<1>22. CASE KillBash(t)
  <2>1. Read(t)' = Read(t)
    BY <1>22 DEF KillBash, Read
  <2> QED BY <1>22, <2>1 DEF KillBash, TypeOK
<1>23. CASE RecoverRead(t)
  <2>1. Read(t)' = Read(t)
    BY <1>23, <1>0, SameFiles DEF RecoverRead
  <2> QED BY <1>23, <1>0, <2>1, MarkFacts DEF
       RecoverRead, WorkerGoes, Created, Doing, Status, Terminal, TypeOK
<1>24. CASE RecoverWrite(t)
  <2>1. t \in spec /\ Mark(loop.view, IF kill[t] THEN "killed" ELSE "lost") \in Runtime
    BY <1>24, <1>0, ReadFacts, MarkFacts DEF Known, RecoverWrite, Doing, Status, Terminal
  <2>2. Read(t)' = Mark(loop.view, IF kill[t] THEN "killed" ELSE "lost")
    BY <1>24, <2>1, SaveFacts DEF RecoverWrite
  <2> QED BY <1>24, <1>0, <2>2, MarkFacts DEF
       RecoverWrite, WorkerGoes, Created, Doing, Status, Terminal, TypeOK, NewRuntime
<1>25. CASE Expire(t)
  <2>1. Read(t)'.status = Read(t).status
    BY <1>25, <1>0 DEF Expire, Read, TypeOK, Runtime
  <2> QED BY <1>25, <2>1 DEF Expire
<1> QED BY <1>1, <1>2, <1>3, <1>4, <1>5, <1>6, <1>7, <1>8, <1>9, <1>10, <1>11, <1>12,
   <1>13, <1>14, <1>15, <1>16, <1>17, <1>18, <1>19, <1>20, <1>21, <1>22, <1>23, <1>24, <1>25
   DEF BashNext, CreateStep, WorkerStep

\* Every step keeps what is said of every worker: one that is not of the task leaves it alone.
LEMMA WorkersKept ==
  ASSUME TypeOK, Known, Created, Workers, Next
  PROVE  Workers'
<1> USE DEF Workers
<1>1. ASSUME NEW u \in BashTasks, Read(u)' = Read(u), worker'[u] = worker[u],
             child'[u] = child[u], copy'[u] = copy[u], beat'[u] = beat[u]
      PROVE  Command(u)' /\ Held(u)' /\ Reported(u)'
  BY <1>1 DEF Command, Held, Reported
<1>2. ASSUME UNCHANGED workerVars, \A u \in BashTasks : Read(u)' = Read(u)
      PROVE  Workers'
  BY <1>1, <1>2 DEF workerVars
<1>3. ASSUME NEW t \in Tasks, Create(t) \/ Publish(t)
      PROVE  Workers'
  BY <1>2, <1>3 DEF Create, Publish, files, Read
<1>4. ASSUME NEW t \in BashTasks, BashNext(t)
      PROVE  Workers'
  <2>1. ASSUME NEW u \in BashTasks \ {t}
        PROVE  Command(u)' /\ Held(u)' /\ Reported(u)'
    <3>1. /\ Read(u)' = Read(u) /\ worker'[u] = worker[u] /\ child'[u] = child[u]
          /\ copy'[u] = copy[u] /\ beat'[u] = beat[u]
      BY <1>4, BashFrame DEF Tasks
    <3> QED BY <1>1, <3>1
  <2>2. Command(t)' /\ Held(t)' /\ Reported(t)'
    BY <1>4, WorkerKept
  <2> QED BY <2>1, <2>2
<1>5. ASSUME NEW t \in AgentTasks, AgentNext(t)
      PROVE  Workers'
  <2>1. UNCHANGED workerVars /\ \A u \in BashTasks : Read(u)' = Read(u)
    BY <1>5, AgentFrame, TasksAssumption DEF Tasks
  <2> QED BY <1>2, <2>1
<1>6. CASE Crash
  BY <1>2, <1>6, SameFiles DEF Crash, Tasks
<1> QED BY <1>3, <1>4, <1>5, <1>6 DEF Next

-----------------------------------------------------------------------------
\* Every step keeps a task that is being created without worker and report: the
\* event loop does nothing else meanwhile, and a worker does not start by itself.
LEMMA CreatedKept ==
  ASSUME TypeOK, Known, Created, Next
  PROVE  Created'
<1>1. ASSUME loop'.op \in {"create", "launch"} => loop' = loop,
             \A u \in BashTasks \cap loop.tasks :
               worker[u] = "none" => /\ worker'[u] = "none"
                                     /\ Read(u)'.status = Read(u).status
      PROVE  Created'
  BY <1>1 DEF Created
<1>2. ASSUME NEW t \in Tasks, Create(t)
      PROVE  Created'
  <2>1. loop' = [op |-> "create", tasks |-> {t}, view |-> NewRuntime] /\ UNCHANGED worker
    BY <1>2 DEF Create, Do, workerVars
  <2>2. t \notin spec /\ t \notin saved /\ UNCHANGED saved
    BY <1>2 DEF Create, TypeOK
  <2>3. Read(t)'.status = "created"
    BY <2>2 DEF Read, NewRuntime
  <2> QED BY <2>1, <2>2, <2>3 DEF Created, Known
<1>3. ASSUME NEW t \in Tasks, Publish(t)
      PROVE  Created'
  BY <1>1, <1>3, SameFiles DEF Publish, workerVars, Tasks
<1>4. ASSUME NEW t \in BashTasks, CreateBash(t)
      PROVE  Created'
  <2>1. t \in spec
    BY <1>4 DEF CreateBash, Doing, Known
  <2>2. Read(t)' = NewRuntime
    BY <1>4, <2>1, SaveFacts, ReadFacts DEF CreateBash, Tasks
  <2> QED BY <1>4, <2>2 DEF CreateBash, Created, Doing, Do, NewRuntime, workerVars
<1>5. ASSUME NEW t \in BashTasks, BashNext(t), ~CreateBash(t)
      PROVE  Created'
  <2>1. loop'.op \in {"create", "launch"} => loop' = loop
    BY <1>5 DEF
         BashNext, CreateStep, WorkerStep, workerRest, Do, Done, Free, Launch, LaunchFails,
         LaunchRead, LaunchWrite, WorkerStarts, WorkerRecordsStart, WorkerChecksControl,
         Spawn, SpawnFails, WorkerReads, WorkerRecordsRunning, HeartbeatReads,
         HeartbeatWrites, ControlKills, Timeout, WorkerSeesExit, WorkerDecides,
         WorkerFinishes, CommandExits, WorkerCrash, KillBash, RecoverRead, RecoverWrite,
         Expire
  <2>2. ASSUME NEW u \in (BashTasks \cap loop.tasks) \ {t}
        PROVE  worker'[u] = worker[u] /\ Read(u)' = Read(u)
    BY <1>5, BashFrame DEF Tasks
  <2>3. ASSUME t \in loop.tasks, worker[t] = "none", loop'.op \in {"create", "launch"}
        PROVE  /\ worker'[t] = "none"
               /\ Read(t)'.status = Read(t).status
    <3>1. ~Launch(t) /\ ~LaunchFails(t) /\ ~LaunchRead(t) /\ ~LaunchWrite(t)
          /\ ~RecoverWrite(t) /\ ~RecoverRead(t)
      BY <2>3 DEF
           Launch, LaunchFails, LaunchRead, LaunchWrite, RecoverWrite, RecoverRead, Do, Done,
           Free
    <3>2. CommandExits(t) \/ KillBash(t) \/ Expire(t)
      BY <1>5, <2>3, <3>1 DEF
           BashNext, CreateStep, WorkerStep, WorkerStarts, WorkerRecordsStart,
           WorkerChecksControl, Spawn, SpawnFails, WorkerReads, WorkerRecordsRunning,
           HeartbeatReads, HeartbeatWrites, ControlKills, Timeout, WorkerSeesExit,
           WorkerDecides, WorkerFinishes, WorkerCrash
    <3>3. UNCHANGED worker
      BY <3>2 DEF CommandExits, KillBash, Expire, workerVars
    <3>4. CASE CommandExits(t) \/ KillBash(t)
      BY <2>3, <3>3, <3>4 DEF CommandExits, KillBash, files, Read
    <3>5. CASE Expire(t)
      BY <2>3, <3>3, <3>5 DEF Expire, Read, TypeOK, Runtime, Tasks
    <3> QED BY <3>2, <3>4, <3>5
  <2> QED BY <2>1, <2>2, <2>3 DEF Created
<1>6. ASSUME NEW t \in AgentTasks, AgentNext(t)
      PROVE  Created'
  <2>1. UNCHANGED workerVars /\ (loop' = loop \/ loop' = Free)
        /\ \A u \in BashTasks : Read(u)' = Read(u)
    BY <1>6, AgentFrame, TasksAssumption DEF Tasks
  <2> QED BY <1>1, <2>1 DEF Free, workerVars
<1>7. CASE Crash
  BY <1>7 DEF Crash, Created, Free
<1> QED BY <1>2, <1>3, <1>4, <1>5, <1>6, <1>7 DEF Next, BashNext

-----------------------------------------------------------------------------
\* What a terminal status says of one agent task.
AtRest(t) ==
  /\ runner[t] \notin {"starting", "running"}
  /\ Read(t).status \in {"completed", "failed"} => ~soul[t]

\* What the step of one agent task makes of it.
LEMMA RunnerKept ==
  ASSUME TypeOK, Known, EndedRunnerIsDone, NEW t \in AgentTasks, AgentNext(t), Ended(t)'
  PROVE  AtRest(t)'
<1>0. /\ t \in Tasks /\ Read(t) \in Runtime /\ NewRuntime \in Runtime
      /\ Ended(t) => AtRest(t)
  BY ReadFacts DEF Tasks, EndedRunnerIsDone, AtRest
\* A step that writes no other status, starts no soul and no runner keeps it.
<1>a. ASSUME Read(t)' = Read(t), UNCHANGED soul \/ ~soul'[t],
             UNCHANGED runner \/ runner'[t] \notin {"starting", "running"}
      PROVE  AtRest(t)'
  BY <1>a, <1>0 DEF Ended, AtRest
\* A mark that is made unless the task has ended.
<1>b. ASSUME NEW s \in Status, MarkUnlessEnded(t, s), t \in spec,
             UNCHANGED soul, runner'[t] \notin {"starting", "running"},
             s \in {"completed", "failed"} => ~soul[t]
      PROVE  AtRest(t)'
  <2>1. CASE Ended(t)
    <3>1. Read(t)' = Read(t)
      BY <1>b, <2>1, <1>0, SameFiles DEF MarkUnlessEnded
    <3> QED BY <3>1, <1>a, <1>b
  <2>2. CASE ~Ended(t)
    <3>1. Mark(Read(t), s) \in Runtime /\ Mark(Read(t), s).status = s
      BY <1>0, <1>b, MarkFacts
    <3>2. Read(t)'.status = s
      BY <1>b, <2>2, <3>1, SaveFacts DEF MarkUnlessEnded
    <3> QED BY <1>b, <3>2 DEF AtRest
  <2> QED BY <2>1, <2>2
<1>1. CASE CreateAgent(t)
  <2>1. t \in spec /\ Mark(NewRuntime, "starting") \in Runtime
        /\ Mark(NewRuntime, "starting").status = "starting"
    BY <1>1, <1>0, MarkFacts DEF CreateAgent, Doing, Known, Status
  <2>2. Read(t)'.status = "starting"
    BY <1>1, <2>1, SaveFacts DEF CreateAgent
  <2> QED BY <2>2 DEF Ended, Terminal
<1>2. CASE RunnerStarts(t)
  <2>1. ~Ended(t)
    BY <1>2, <1>0 DEF RunnerStarts, AtRest
  <2>2. Save(t, Mark(Read(t), "running"))
    BY <1>2, <2>1 DEF RunnerStarts, MarkUnlessEnded
  <2>3. t \in spec /\ Mark(Read(t), "running") \in Runtime
        /\ Mark(Read(t), "running").status = "running"
    BY <1>2, <1>0, MarkFacts DEF RunnerStarts, Known, Status
  <2>4. Read(t)'.status = "running"
    BY <2>2, <2>3, SaveFacts
  <2> QED BY <2>4 DEF Ended, Terminal
<1>3. CASE ApprovalCreated(t) \/ ApprovalResolved(t) \/ RunnerCleansUp(t) \/ SoulEnds(t)
  <2>1. Read(t)' = Read(t)
    BY <1>3, <1>0, SameFiles DEF ApprovalCreated, ApprovalResolved, RunnerCleansUp, SoulEnds
  <2> QED BY <1>3, <2>1, <1>a DEF
       ApprovalCreated, ApprovalResolved, RunnerCleansUp, SoulEnds, agentRest, TypeOK
<1>4. CASE SoulStarts(t)
  <2>1. Read(t)' = Read(t) /\ runner[t] = "running"
    BY <1>4, <1>0, SameFiles DEF SoulStarts
  <2> QED BY <2>1, <1>0 DEF Ended, AtRest
<1>5. CASE RunnerEnds(t)
  <2>1. PICK s \in {"completed", "failed", "killed"} : MarkUnlessEnded(t, s)
    BY <1>5 DEF RunnerEnds
  <2>2. t \in spec /\ s \in Status /\ UNCHANGED soul /\ runner'[t] = "ended" /\ ~soul[t]
    BY <1>5 DEF RunnerEnds, Known, Status, Terminal, agentRest, TypeOK
  <2> QED BY <2>1, <2>2, <1>b
<1>6. CASE RunnerTimesOut(t)
  <2>1. /\ MarkUnlessEnded(t, "timed_out") /\ t \in spec /\ "timed_out" \in Status
        /\ UNCHANGED soul /\ runner'[t] = "ended"
    BY <1>6 DEF RunnerTimesOut, Known, Status, Terminal, agentRest, TypeOK
  <2> QED BY <2>1, <1>b
<1>7. CASE RunnerCancelled(t)
  <2>1. /\ MarkUnlessEnded(t, "killed") /\ t \in spec /\ "killed" \in Status
        /\ UNCHANGED soul /\ runner'[t] = "ended"
    BY <1>7 DEF RunnerCancelled, Known, Status, Terminal, agentRest, TypeOK
  <2> QED BY <2>1, <1>b
<1>8. CASE KillAgent(t)
  <2>1. /\ t \in spec /\ Mark(Read(t), "killed") \in Runtime
        /\ Mark(Read(t), "killed").status = "killed" /\ Save(t, Mark(Read(t), "killed"))
    BY <1>8, <1>0, MarkFacts DEF KillAgent, Status, Terminal
  <2>2. Read(t)'.status = "killed"
    BY <2>1, SaveFacts
  <2>3. runner'[t] \notin {"starting", "running"}
    BY <1>8 DEF KillAgent, TypeOK
  <2> QED BY <2>2, <2>3 DEF AtRest
<1>9. CASE RecoverAgent(t)
  <2>1. /\ t \in spec /\ Mark(Read(t), "lost") \in Runtime
        /\ Mark(Read(t), "lost").status = "lost" /\ Save(t, Mark(Read(t), "lost"))
    BY <1>9, <1>0, MarkFacts DEF RecoverAgent, Status, Terminal
  <2>2. Read(t)'.status = "lost"
    BY <2>1, SaveFacts
  <2>3. runner'[t] \notin {"starting", "running"}
    BY <1>9 DEF RecoverAgent, agentVars
  <2> QED BY <2>2, <2>3 DEF AtRest
<1>10. ASSUME NEW u \in Update, ThreadReads(t, u)
      PROVE  AtRest(t)'
  <2>1. Read(t)' = Read(t) /\ UNCHANGED <<runner, soul>>
    BY <1>10, <1>0, SameFiles DEF ThreadReads, agentRest
  <2> QED BY <2>1, <1>a
<1>11. ASSUME NEW u \in Update, ThreadWrites(t, u)
      PROVE  FALSE
  <2>1. t \in spec /\ Mark(NewRuntime, u) \in Runtime /\ Mark(NewRuntime, u).status = u
    BY <1>11, <1>0, MarkFacts DEF ThreadWrites, Known, Status, Update
  <2>2. Read(t)'.status = u
    BY <1>11, <2>1, SaveFacts DEF ThreadWrites
  <2> QED BY <2>2 DEF Ended, Terminal, Update
<1> QED BY <1>1, <1>2, <1>3, <1>4, <1>5, <1>6, <1>7, <1>8, <1>9, <1>10, <1>11
   DEF AgentNext, RunnerStep, ThreadStep

\* Every step keeps it so for all agent tasks: a task whose status is terminal has no
\* coroutine that starts or runs, and one that is reported has no soul either.
LEMMA RunnersKept ==
  ASSUME TypeOK, Known, EndedRunnerIsDone, Next
  PROVE  EndedRunnerIsDone'
<1>1. ASSUME NEW u \in AgentTasks, Read(u)' = Read(u), runner'[u] = runner[u],
             soul'[u] = soul[u], Ended(u)'
      PROVE  AtRest(u)'
  BY <1>1 DEF EndedRunnerIsDone, Ended, AtRest
<1>2. ASSUME UNCHANGED <<runner, soul>>, \A u \in AgentTasks : Read(u)' = Read(u)
      PROVE  EndedRunnerIsDone'
  BY <1>1, <1>2 DEF EndedRunnerIsDone, AtRest
<1>3. ASSUME NEW t \in Tasks, Create(t) \/ Publish(t)
      PROVE  EndedRunnerIsDone'
  BY <1>2, <1>3 DEF Create, Publish, files, Read, agentVars
<1>4. ASSUME NEW t \in BashTasks, BashNext(t)
      PROVE  EndedRunnerIsDone'
  <2>1. UNCHANGED <<runner, soul>> /\ \A u \in AgentTasks : Read(u)' = Read(u)
    BY <1>4, BashFrame, TasksAssumption DEF Tasks, agentVars
  <2> QED BY <1>2, <2>1
<1>5. ASSUME NEW t \in AgentTasks, AgentNext(t)
      PROVE  EndedRunnerIsDone'
  <2>1. ASSUME NEW u \in AgentTasks \ {t}, Ended(u)'
        PROVE  AtRest(u)'
    <3>1. Read(u)' = Read(u) /\ runner'[u] = runner[u] /\ soul'[u] = soul[u]
      BY <1>5, AgentFrame DEF Tasks
    <3> QED BY <1>1, <2>1, <3>1
  <2>2. Ended(t)' => AtRest(t)'
    BY <1>5, RunnerKept
  <2> QED BY <2>1, <2>2 DEF EndedRunnerIsDone, AtRest
<1>6. CASE Crash
  BY <1>6 DEF Crash, EndedRunnerIsDone
<1> QED BY <1>3, <1>4, <1>5, <1>6 DEF Next

-----------------------------------------------------------------------------
\* With no task at all the invariant holds.
LEMMA InitHolds ==
  ASSUME Init
  PROVE  IInv
<1>1. NewRuntime \in Runtime /\ \A t \in Tasks : Read(t) = NewRuntime
  BY DEF Init, Read, NewRuntime, Runtime, Status
<1>2. TypeOK
  BY <1>1 DEF Init, TypeOK, Free, NoThread
<1>3. Known /\ Created
  BY DEF Init, Known, Created, Free, NoThread
<1>4. Workers
  BY <1>1 DEF Init, Workers, Command, Held, Reported, Reports, NewRuntime, Tasks
<1>5. EndedRunnerIsDone
  BY DEF Init, EndedRunnerIsDone
<1> QED BY <1>2, <1>3, <1>4, <1>5 DEF IInv

\* Every step keeps the invariant.
LEMMA StepKeeps ==
  ASSUME IInv, [Next]_vars
  PROVE  IInv'
<1>1. CASE Next
  BY <1>1, TypeKept, KnownKept, WorkersKept, CreatedKept, RunnersKept DEF IInv
<1>2. CASE UNCHANGED vars
  <2>1. UNCHANGED <<spec, saved, runtime, kill, loop, worker, copy, beat, child, timedOut,
                    runner, soul, approval, thread, published, late, workerCrashes, crashes>>
    BY <1>2 DEF vars, files, workerVars, agentVars, bounds
  <2>2. TypeOK' /\ Known' /\ Created'
    BY <2>1 DEF IInv, TypeOK, Known, Created, Read
  <2>3. Workers' /\ EndedRunnerIsDone'
    BY <2>1 DEF IInv, Workers, Command, Held, Reported, EndedRunnerIsDone, Ended, Read
  <2> QED BY <2>2, <2>3 DEF IInv
<1> QED BY <1>1, <1>2

\* The invariant holds in every reachable state.
THEOREM Invariance == Spec => []IInv
<1> QED BY InitHolds, StepKeeps, PTL DEF Spec

\* The runtime files, the copies the CLI and the workers hold of them and the program
\* counters of all parties are well typed, for any number of tasks, crashes and late
\* heartbeats.
THEOREM BackgroundTypeCorrect == Spec => []TypeOK
<1>1. IInv => TypeOK
  BY DEF IInv
<1> QED BY <1>1, Invariance, PTL

\* A task the runtime file reports completed, failed or timed out has no command that
\* is alive, whoever overwrote the file and whatever crashed: for any number of tasks.
THEOREM EndedCommandsAreDead == Spec => []EndedCommandIsDead
<1>1. IInv => EndedCommandIsDead
  BY DEF IInv, Workers, Command, Reported, Reports, EndedCommandIsDead
<1> QED BY <1>1, Invariance, PTL

\* An agent task with a terminal status has no runner that starts or runs: neither
\* recovery nor a late approval update nor a kill that races with the start leaves one.
\* One that is completed or failed has no soul at work; "killed", "timed_out" and
\* "lost" do not say so.
THEOREM EndedRunnersAreDone == Spec => []EndedRunnerIsDone
<1>1. IInv => EndedRunnerIsDone
  BY DEF IInv
<1> QED BY <1>1, Invariance, PTL
=============================================================================
