---------------------------- MODULE DagExecutor ----------------------------
(***************************************************************************)
(* The DAG executor of kimix: validation of a graph of tasks (dag/utils.py) *)
(* and its execution on a thread pool (dag/executor.py).                   *)
(*                                                                         *)
(* A finished task runs a callback on its pool thread, which records the   *)
(* result, counts it and scans for tasks that are ready.  Scans of several *)
(* threads overlap: only the records and the count are under the lock.     *)
(***************************************************************************)
EXTENDS Naturals, Sequences, FiniteSets

CONSTANTS
  NumNodes,     \* tasks, numbered in the order they were added
  \* bounds of the model
  MaxFailures,  \* tasks that raise
  WithCancel    \* the shared context may be cancelled

ASSUME DagAssumption ==
  /\ NumNodes \in Nat \ {0}
  /\ MaxFailures \in Nat
  /\ WithCancel \in BOOLEAN

Node == 1 .. NumNodes
Main == 0   \* stands for the thread in execute()

\* A job is a submitted task with its callback, or the first scan of execute().
\* seen is done_nodes of its scan, next the task the scan has reached.
JobState == {"queued", "running", "counting", "counted", "scan", "add", "submit",
             "gone", "dead"}
Job == [at : JobState, seen : SUBSET Node, next : Nat]

NewJob == [at |-> "queued", seen |-> {}, next |-> 0]
Gone == [at |-> "gone", seen |-> {}, next |-> 0]
NewScan(seen) == [at |-> "scan", seen |-> seen, next |-> 1]

VARIABLES
  deps,       \* the dependencies of each task
  path,       \* validation: the tasks detect_cycle() is visiting (GRAY)
  black,      \* ... and those it is done with
  main,       \* where execute() is
  results,    \* tasks with a result
  errors,     \* why a task has an error: it failed, or a dependency did
  submitted,
  taken,      \* (history variable) scans that found each task to be submitted
  finished,   \* finished_count
  allDone,    \* all_done is set
  cancelled,  \* ctx.cancelled
  failures,   \* what the bound counts
  jobs        \* the jobs of each task, in the order of submission

searchVars == <<path, black>>
poolVars == <<results, errors, submitted, taken, finished, allDone, jobs>>
vars == <<deps, searchVars, main, poolVars, cancelled, failures>>

DagTypeOK ==
  /\ deps \in [Node -> SUBSET Node]
  /\ path \in Seq(Node) /\ black \subseteq Node
  /\ main \in {"validate", "execute", "shutdown", "invalid", "raised", "returned"}
  /\ results \subseteq Node
  /\ errors \in [Node -> {"none", "failed", "aborted"}]
  /\ submitted \subseteq Node /\ taken \in [Node -> Nat]
  /\ finished \in Nat /\ failures \in Nat
  /\ allDone \in BOOLEAN /\ cancelled \in BOOLEAN
  /\ jobs \in [Node \cup {Main} -> Seq(Job)]

Init ==
  /\ deps \in [Node -> SUBSET Node]
  /\ path = <<>> /\ black = {}
  /\ main = "validate"
  /\ results = {} /\ errors = [n \in Node |-> "none"]
  /\ submitted = {} /\ taken = [n \in Node |-> 0]
  /\ finished = 0 /\ allDone = FALSE
  /\ cancelled = FALSE /\ failures = 0
  /\ jobs = [n \in Node \cup {Main} |-> <<>>]

Failed == {n \in Node : errors[n] # "none"}

-----------------------------------------------------------------------------
(***************************************************************************)
(* validate_dag(): no self-reference, then detect_cycle(), a depth-first   *)
(* search.  The next root is the first white task; dependencies are taken  *)
(* in any order (they are a set).                                          *)
(***************************************************************************)
Gray == {path[i] : i \in DOMAIN path}
White == Node \ (Gray \cup black)
Top == path[Len(path)]
InSearch == main = "validate" /\ \A n \in Node : n \notin deps[n]

Invalid ==
  /\ main' = "invalid"
  /\ UNCHANGED <<deps, searchVars, poolVars, cancelled, failures>>

SelfReference ==
  /\ main = "validate"
  /\ \E n \in Node : n \in deps[n]
  /\ Invalid

SearchFrom(n) ==
  /\ InSearch
  /\ path = <<>>
  /\ n \in White /\ \A m \in White : n <= m
  /\ path' = <<n>>
  /\ UNCHANGED <<deps, black, main, poolVars, cancelled, failures>>

Visit(n) ==
  /\ InSearch
  /\ path # <<>>
  /\ n \in deps[Top] \cap White
  /\ path' = Append(path, n)
  /\ UNCHANGED <<deps, black, main, poolVars, cancelled, failures>>

\* Faulty: a task that was visited before counts as a cycle.
FoundVisited ==
  /\ InSearch
  /\ path # <<>>
  /\ deps[Top] \cap (Gray \cup black) # {}
  /\ Invalid

FoundCycle ==
  /\ InSearch
  /\ path # <<>>
  /\ deps[Top] \cap Gray # {}
  /\ Invalid

Leave ==
  /\ InSearch
  /\ path # <<>>
  /\ deps[Top] \subseteq black
  /\ black' = black \cup {Top}
  /\ path' = SubSeq(path, 1, Len(path) - 1)
  /\ UNCHANGED <<deps, main, poolVars, cancelled, failures>>

\* The graph is valid: the pool is opened and the first scan starts.
Validated ==
  /\ InSearch
  /\ path = <<>> /\ White = {}
  /\ main' = "execute"
  /\ jobs' = [jobs EXCEPT ![Main] = <<NewScan({})>>]
  /\ UNCHANGED <<deps, searchVars, results, errors, submitted, taken, finished, allDone,
                 cancelled, failures>>

-----------------------------------------------------------------------------
(***************************************************************************)
(* _submit_ready(), on the thread of job i of task n.                      *)
(***************************************************************************)
At(n, i, state) == i \in DOMAIN jobs[n] /\ jobs[n][i].at = state
Goes(n, i, job) == jobs' = [jobs EXCEPT ![n][i] = job]

poolRest == <<deps, searchVars, main, cancelled, failures>>

\* Faulty: the scan goes one past the last task.
CandidatesPastEnd(job) ==
  {m \in 1 .. NumNodes + 1 :
     job.next <= m /\ m \notin submitted /\ (m \in Node => deps[m] \subseteq job.seen)}

\* Tasks the scan would not skip, from where it is.
Candidates(job) ==
  {m \in Node : job.next <= m /\ m \notin submitted /\ deps[m] \subseteq job.seen}

\* The scan goes on to the next task it does not skip.  (A task it skips stays
\* one to skip, so the tasks in between need no step of their own.)
ScanFinds(n, i) ==
  /\ At(n, i, "scan")
  /\ \E m \in Candidates(jobs[n][i]) :
       /\ \A k \in Candidates(jobs[n][i]) : m <= k
       /\ Goes(n, i, [jobs[n][i] EXCEPT !.at = "add", !.next = m])
  /\ UNCHANGED <<results, errors, submitted, taken, finished, allDone, poolRest>>

ScanEnds(n, i) ==
  /\ At(n, i, "scan")
  /\ Candidates(jobs[n][i]) = {}
  /\ Goes(n, i, Gone)
  /\ UNCHANGED <<results, errors, submitted, taken, finished, allDone, poolRest>>

ScanAdds(n, i) ==
  /\ At(n, i, "add")
  /\ submitted' = submitted \cup {jobs[n][i].next}
  /\ taken' = [taken EXCEPT ![jobs[n][i].next] = @ + 1]
  /\ Goes(n, i, [jobs[n][i] EXCEPT !.at = "submit"])
  /\ UNCHANGED <<results, errors, finished, allDone, poolRest>>

\* Faulty: off by one.
CountEarly == /\ finished' = finished + 1
              /\ allDone' = (allDone \/ finished' + 1 >= NumNodes)

\* finished_count, under the lock.
Count == /\ finished' = finished + 1
         /\ allDone' = (allDone \/ finished' >= NumNodes)

Past(job) == [job EXCEPT !.at = "scan", !.next = @ + 1]

\* A dependency failed: the task gets a DependencyError.
ScanAborts(n, i) ==
  /\ At(n, i, "submit")
  /\ deps[jobs[n][i].next] \cap Failed # {}
  /\ errors' = [errors EXCEPT ![jobs[n][i].next] = "aborted"]
  /\ Count
  /\ Goes(n, i, Past(jobs[n][i]))
  /\ UNCHANGED <<results, submitted, taken, poolRest>>

\* Faulty: a dependency that failed is as good as one that is done.
ScanSubmitsAnyway(n, i) ==
  /\ At(n, i, "submit")
  /\ main = "execute"
  /\ LET m == jobs[n][i].next
         scanned == [jobs EXCEPT ![n][i] = Past(@)]
     IN  jobs' = [scanned EXCEPT ![m] = Append(@, NewJob)]
  /\ UNCHANGED <<results, errors, submitted, taken, finished, allDone, poolRest>>

ScanSubmits(n, i) ==
  /\ At(n, i, "submit")
  /\ main = "execute"
  /\ LET m == jobs[n][i].next
         scanned == [jobs EXCEPT ![n][i] = Past(@)]
     IN  /\ deps[m] \cap Failed = {}
         /\ jobs' = [scanned EXCEPT ![m] = Append(@, NewJob)]
  /\ UNCHANGED <<results, errors, submitted, taken, finished, allDone, poolRest>>

\* The pool is shut down: submit() raises, which ends the callback.
SubmitRefused(n, i) ==
  /\ At(n, i, "submit")
  /\ main # "execute"
  /\ deps[jobs[n][i].next] \cap Failed = {}
  /\ Goes(n, i, Gone)
  /\ UNCHANGED <<results, errors, submitted, taken, finished, allDone, poolRest>>

ScanStep(n, i) ==
  \/ ScanFinds(n, i) \/ ScanEnds(n, i) \/ ScanAdds(n, i) \/ ScanAborts(n, i)
  \/ ScanSubmits(n, i) \/ SubmitRefused(n, i)

-----------------------------------------------------------------------------
(***************************************************************************)
(* _run_node() and _on_done() of job i of task n.                          *)
(***************************************************************************)
JobGoes(n, i, state) == Goes(n, i, [jobs[n][i] EXCEPT !.at = state])

\* check_cancelled() comes first.
JobStarts(n, i) ==
  /\ At(n, i, "queued")
  /\ ~cancelled
  /\ JobGoes(n, i, "running")
  /\ UNCHANGED <<results, errors, submitted, taken, finished, allDone, poolRest>>

JobSucceeds(n, i) ==
  /\ At(n, i, "running")
  /\ results' = results \cup {n}
  /\ JobGoes(n, i, "counting")
  /\ UNCHANGED <<errors, submitted, taken, finished, allDone, poolRest>>

\* The task raises, in its last attempt, or because the context is cancelled.
JobFails(n, i) ==
  /\ At(n, i, "running") \/ (At(n, i, "queued") /\ cancelled)
  /\ IF cancelled THEN UNCHANGED failures
                  ELSE failures < MaxFailures /\ failures' = failures + 1
  /\ errors' = [errors EXCEPT ![n] = "failed"]
  /\ JobGoes(n, i, "counting")
  /\ UNCHANGED <<results, submitted, taken, finished, allDone, deps, searchVars, main,
                 cancelled>>

\* The task raises what is no Exception (asyncio's CancelledError, SystemExit): future.result()
\* raises it again in the callback, which catches Exception only.  The task is neither recorded
\* nor counted.
JobDies(n, i) ==
  /\ At(n, i, "running")
  /\ failures < MaxFailures /\ failures' = failures + 1
  /\ JobGoes(n, i, "dead")
  /\ UNCHANGED <<results, errors, submitted, taken, finished, allDone, deps, searchVars, main,
                 cancelled>>

CountJob(n, i) ==
  /\ At(n, i, "counting")
  /\ Count
  /\ IF finished' >= NumNodes THEN Goes(n, i, Gone) ELSE JobGoes(n, i, "counted")
  /\ UNCHANGED <<results, errors, submitted, taken, poolRest>>

\* Faulty: only tasks with a result count as done.
ScanAgainResults(n, i) ==
  /\ At(n, i, "counted")
  /\ Goes(n, i, IF cancelled THEN Gone ELSE NewScan(results))
  /\ UNCHANGED <<results, errors, submitted, taken, finished, allDone, poolRest>>

\* The callback scans, unless the context is cancelled.
ScanAgain(n, i) ==
  /\ At(n, i, "counted")
  /\ Goes(n, i, IF cancelled THEN Gone ELSE NewScan(results \cup Failed))
  /\ UNCHANGED <<results, errors, submitted, taken, finished, allDone, poolRest>>

JobStep(n, i) ==
  \/ JobStarts(n, i) \/ JobSucceeds(n, i) \/ JobFails(n, i) \/ JobDies(n, i)
  \/ CountJob(n, i) \/ ScanAgain(n, i)

-----------------------------------------------------------------------------
\* execute(): after the first scan, wait for all_done, shut the pool down, return or raise.
MainWakes ==
  /\ main = "execute"
  /\ At(Main, 1, "gone")
  /\ allDone
  /\ main' = "shutdown"
  /\ UNCHANGED <<deps, searchVars, poolVars, cancelled, failures>>

AllGone == \A n \in Node : \A i \in DOMAIN jobs[n] : jobs[n][i].at \in {"gone", "dead"}

MainReturns ==
  /\ main = "shutdown"
  /\ AllGone
  /\ main' = IF Failed = {} THEN "returned" ELSE "raised"
  /\ UNCHANGED <<deps, searchVars, poolVars, cancelled, failures>>

\* Some thread cancels the context.  (Before the pool is open and after its jobs
\* are gone nothing looks at it.)
Cancel ==
  /\ WithCancel
  /\ main \in {"execute", "shutdown"}
  /\ ~cancelled
  /\ cancelled' = TRUE
  /\ UNCHANGED <<deps, searchVars, main, poolVars, failures>>

Search ==
  \/ SelfReference \/ FoundCycle \/ Leave \/ Validated
  \/ \E n \in Node : SearchFrom(n) \/ Visit(n)

MainStep == MainWakes \/ MainReturns

Next ==
  \/ Search
  \/ \E n \in Node \cup {Main} : \E i \in DOMAIN jobs[n] : ScanStep(n, i)
  \/ \E n \in Node : \E i \in DOMAIN jobs[n] : JobStep(n, i)
  \/ MainStep \/ Cancel

Spec == Init /\ [][Next]_vars

(***************************************************************************)
(* Fairness: threads run, and every task returns or raises.                *)
(***************************************************************************)
Threads ==
  \/ Search \/ MainStep
  \/ \E n \in Node \cup {Main} : \E i \in DOMAIN jobs[n] : ScanStep(n, i)
  \/ \E n \in Node : \E i \in DOMAIN jobs[n] : JobStep(n, i)

FairSpec == Spec /\ WF_vars(Threads)
-----------------------------------------------------------------------------
\* No set of tasks in which each depends on another one of the set.
Acyclic ==
  \A S \in (SUBSET Node) \ {{}} : \E n \in S : deps[n] \cap S = {}

\* detect_cycle() is right: a graph that is executed has no cycle, a graph
\* that is refused has one.
ValidationIsRight ==
  /\ main \notin {"validate", "invalid"} => Acyclic
  /\ main = "invalid" => ~Acyclic

\* A task is only ever submitted when each of its dependencies has returned a
\* result, however the scans of the threads overlap.
DependenciesFirst ==
  \A n \in Node : jobs[n] # <<>> => deps[n] \subseteq results

\* execute() is done with every task when it wakes, unless two scans took the same
\* task: it is then submitted twice, or aborted twice, and counted twice, and the
\* count ends the execution early.
TakenOnce == \A n \in Node : taken[n] <= 1

NothingIsLost ==
  (main \in {"shutdown", "returned", "raised"} /\ TakenOnce) =>
    results \cup Failed = Node

\* execute() is never left waiting for threads that have all come to rest, unless
\* the context was cancelled, a task depends on one that was itself aborted (see
\* RaisesIfAnyTaskFails) or a task raised what is no Exception and so was not
\* counted: no interleaving of the scans loses the last task that became ready.
AtRest == main = "execute" /\ At(Main, 1, "gone") /\ AllGone

ExecuteNeverHangs ==
  AtRest =>
    \/ allDone \/ cancelled
    \/ \E n \in Node : \E d \in deps[n] : errors[d] = "aborted"
    \/ \E n \in Node : \E i \in DOMAIN jobs[n] : jobs[n][i].at = "dead"

\* executor.py: "Raises: ExecutionError: If any task fails."
RaisesIfAnyTaskFails ==
  \A n \in Node : errors[n] = "failed" ~> main = "raised"
=============================================================================
