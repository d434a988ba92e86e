----------------------------- MODULE DagProofs -----------------------------
(***************************************************************************)
(* Theorems about DagExecutor, for every number of tasks and every graph:  *)
(* the validation accepts exactly the acyclic graphs, no task starts       *)
(* before its dependencies have returned, and execute() neither waits for  *)
(* ever nor loses a task.                                                  *)
(***************************************************************************)
EXTENDS DagExecutor, FiniteSetTheorems, TLAPS

Thread == Node \cup {Main}

(***************************************************************************)
(* The invariant of the search.  The black tasks depend on black tasks     *)
(* only and contain no cycle; the path is a chain of dependencies without  *)
(* repetition, none of them black.                                         *)
(***************************************************************************)
AcyclicOn(B) == \A S \in (SUBSET B) \ {{}} : \E n \in S : deps[n] \cap S = {}

SearchInv ==
  /\ \A b \in black : deps[b] \subseteq black
  /\ AcyclicOn(black)
  /\ \A i \in DOMAIN path : path[i] \notin black
  /\ \A i, j \in DOMAIN path : path[i] = path[j] => i = j
  /\ \A i \in 1 .. Len(path) - 1 : path[i + 1] \in deps[path[i]]

(***************************************************************************)
(* The invariant of the execution: what a scan believes to be done is      *)
(* done, and it only adds tasks whose dependencies are.                    *)
(***************************************************************************)
Fits(job, done, d) ==
  /\ job.seen \subseteq done
  /\ job.at \in {"add", "submit"} => job.next \in Node /\ d[job.next] \subseteq job.seen

PoolInv ==
  /\ \A t \in Thread : \A i \in DOMAIN jobs[t] :
       Fits(jobs[t][i], results \cup Failed, deps)
  /\ DependenciesFirst

\* Nothing is submitted to the pool before the graph is found valid.
NoJobsYet == main \in {"validate", "invalid"} => \A t \in Thread : jobs[t] = <<>>

DInv == DagTypeOK /\ SearchInv /\ ValidationIsRight /\ PoolInv /\ NoJobsYet

-----------------------------------------------------------------------------
\* The state of the pool is typed.
JobsType == jobs \in [Thread -> Seq(Job)]

\* Every job is one that was there, or one of new.
OldOr(new) ==
  \A u \in Thread : \A k \in DOMAIN jobs'[u] :
    \/ k \in DOMAIN jobs[u] /\ jobs'[u][k] = jobs[u][k]
    \/ jobs'[u][k] \in new

\* Only threads of who get their first job.
StartsOnly(who) == \A u \in Thread : jobs'[u] # <<>> => jobs[u] # <<>> \/ u \in who

\* One job of one thread changes, the others stay as they are.
LEMMA GoesKeeps ==
  ASSUME JobsType, NEW t \in Thread, NEW i \in DOMAIN jobs[t], NEW job \in Job,
         Goes(t, i, job)
  PROVE  JobsType' /\ OldOr({job}) /\ StartsOnly({})
<1> DEFINE s == [jobs[t] EXCEPT ![i] = job]
<1>1. jobs' = [jobs EXCEPT ![t] = s]
  BY DEF Goes
<1>2. jobs[t] \in Seq(Job) /\ s \in Seq(Job) /\ DOMAIN s = DOMAIN jobs[t]
      /\ s[i] = job /\ \A k \in DOMAIN s : k # i => s[k] = jobs[t][k]
  BY DEF JobsType
<1>3. jobs[t] # <<>>
  BY <1>2
<1> HIDE DEF s
<1>4. jobs'[t] = s /\ \A u \in Thread : u # t => jobs'[u] = jobs[u]
  BY <1>1 DEF JobsType
<1>5. JobsType'
  BY <1>1, <1>2 DEF JobsType
<1>6. \A u \in Thread : \A k \in DOMAIN jobs'[u] :
        (k \in DOMAIN jobs[u] /\ jobs'[u][k] = jobs[u][k]) \/ jobs'[u][k] = job
  BY <1>2, <1>4
<1>7. OldOr({job})
  BY <1>6, Zenon DEF OldOr
<1>8. StartsOnly({})
  BY <1>3, <1>4 DEF StartsOnly
<1> QED BY <1>5, <1>7, <1>8

\* An element of Append(s, e) is one of s, or e.
LEMMA AppendElements ==
  ASSUME NEW s \in Seq(Job), NEW e \in Job, NEW k \in DOMAIN Append(s, e)
  PROVE  (k \in DOMAIN s /\ Append(s, e)[k] = s[k]) \/ Append(s, e)[k] = e
OBVIOUS

\* A task is submitted: one job changes and a new one is queued.
Submits(t, i, job, m) ==
  LET scanned == [jobs EXCEPT ![t][i] = job]
  IN  jobs' = [scanned EXCEPT ![m] = Append(@, NewJob)]

\* The jobs after a submission are the jobs before it, the one that changed and a new one.
LEMMA SubmitKeeps ==
  ASSUME JobsType, NEW t \in Thread, NEW i \in DOMAIN jobs[t], NEW job \in Job,
         NEW m \in Node, Submits(t, i, job, m)
  PROVE  JobsType' /\ OldOr({job, NewJob}) /\ StartsOnly({m})
<1> DEFINE s == [jobs[t] EXCEPT ![i] = job]
           mid == [jobs EXCEPT ![t] = s]
<1>1. NewJob \in Job /\ m \in Thread
  BY DEF NewJob, Job, JobState, Thread
<1>2. jobs[t] \in Seq(Job) /\ s \in Seq(Job) /\ DOMAIN s = DOMAIN jobs[t]
      /\ s[i] = job /\ \A k \in DOMAIN s : k # i => s[k] = jobs[t][k]
  BY DEF JobsType
<1>3. jobs[t] # <<>>
  BY <1>2
<1>4. jobs' = [mid EXCEPT ![m] = Append(mid[m], NewJob)]
  BY DEF Submits
<1> HIDE DEF s
<1>5. mid \in [Thread -> Seq(Job)] /\ mid[t] = s
      /\ \A u \in Thread : u # t => mid[u] = jobs[u]
  BY <1>2 DEF JobsType
<1> HIDE DEF mid
<1>6. \A u \in Thread : \A k \in DOMAIN mid[u] :
        \/ k \in DOMAIN jobs[u] /\ mid[u][k] = jobs[u][k]
        \/ mid[u][k] = job
  BY <1>2, <1>5
<1>7. jobs'[m] = Append(mid[m], NewJob) /\ \A u \in Thread : u # m => jobs'[u] = mid[u]
  BY <1>1, <1>4, <1>5
<1>8. mid[m] \in Seq(Job)
  BY <1>1, <1>5
<1>9. ASSUME NEW k \in DOMAIN jobs'[m]
      PROVE  (k \in DOMAIN mid[m] /\ jobs'[m][k] = mid[m][k]) \/ jobs'[m][k] = NewJob
  <2>1. k \in DOMAIN Append(mid[m], NewJob)
    BY <1>7, <1>9, Zenon
  <2>2. \/ k \in DOMAIN mid[m] /\ Append(mid[m], NewJob)[k] = mid[m][k]
        \/ Append(mid[m], NewJob)[k] = NewJob
    BY <1>1, <1>8, <2>1, AppendElements, Zenon
  <2> QED BY <1>7, <2>2, Zenon
<1>10. JobsType'
  <2>1. Append(mid[m], NewJob) \in Seq(Job)
    BY <1>1, <1>8
  <2>2. [mid EXCEPT ![m] = Append(mid[m], NewJob)] \in [Thread -> Seq(Job)]
    BY <1>5, <2>1
  <2> QED BY <1>4, <2>2, Zenon DEF JobsType
<1>11. \A u \in Thread : jobs'[u] # <<>> => jobs[u] # <<>> \/ u = m
  BY <1>2, <1>3, <1>5, <1>7
<1>12. ASSUME NEW u \in Thread, NEW k \in DOMAIN jobs'[u]
      PROVE  \/ k \in DOMAIN jobs[u] /\ jobs'[u][k] = jobs[u][k]
             \/ jobs'[u][k] = job
             \/ jobs'[u][k] = NewJob
  <2>1. CASE u = m
    BY <1>6, <1>9, <2>1, <1>12
  <2>2. CASE u # m
    BY <1>6, <1>7, <2>2, <1>12, Zenon
  <2> QED BY <2>1, <2>2
<1>13. OldOr({job, NewJob})
  BY <1>12, Zenon DEF OldOr
<1>14. StartsOnly({m})
  BY <1>11 DEF StartsOnly
<1> QED BY <1>10, <1>13, <1>14

\* A job that fits still does when more tasks are done.
LEMMA FitsMore ==
  ASSUME NEW job, NEW done, NEW more, done \subseteq more, NEW d, Fits(job, done, d)
  PROVE  Fits(job, more, d)
BY DEF Fits

\* Results and errors are only ever added.
Grows == results \subseteq results' /\ Failed \subseteq Failed' /\ deps' = deps

\* What a step of one job has to show for the pool to stay as it should be.
LEMMA PoolKeeps ==
  ASSUME PoolInv, Grows, JobsType', NEW job, Fits(job, (results \cup Failed)', deps'),
         NEW new, new \subseteq {job, NewJob}, OldOr(new),
         \A n \in Node : jobs'[n] # <<>> => jobs[n] # <<>> \/ deps[n] \subseteq results
  PROVE  PoolInv'
<1>0. \A u \in Thread : \A k \in DOMAIN jobs'[u] :
        \/ k \in DOMAIN jobs[u] /\ jobs'[u][k] = jobs[u][k]
        \/ jobs'[u][k] = job
        \/ jobs'[u][k] = NewJob
  BY Zenon DEF OldOr
<1>1. Fits(NewJob, (results \cup Failed)', deps')
  BY DEF Fits, NewJob
<1>2. ASSUME NEW u \in Thread, NEW k \in DOMAIN jobs'[u]
      PROVE  Fits(jobs'[u][k], (results \cup Failed)', deps')
  <2>1. CASE k \in DOMAIN jobs[u] /\ jobs'[u][k] = jobs[u][k]
    <3>1. Fits(jobs[u][k], results \cup Failed, deps)
      BY <2>1 DEF PoolInv
    <3>2. Fits(jobs[u][k], (results \cup Failed)', deps)
      BY <3>1, FitsMore DEF Grows
    <3> QED BY <2>1, <3>2, Zenon DEF Grows
  <2>2. CASE jobs'[u][k] = job
    BY <2>2, Zenon
  <2>3. CASE jobs'[u][k] = NewJob
    BY <1>1, <2>3, Zenon
  <2> QED BY <1>0, <2>1, <2>2, <2>3, Zenon
<1>3. DependenciesFirst'
  BY DEF PoolInv, DependenciesFirst, Grows
<1> QED BY <1>2, <1>3 DEF PoolInv

\* A step of the scan or of a task that only moves the job on.
LEMMA MoveKeeps ==
  ASSUME DInv, NEW t \in Thread, NEW i \in DOMAIN jobs[t], NEW job \in Job,
         Goes(t, i, job), Grows, Fits(job, (results \cup Failed)', deps')
  PROVE  JobsType' /\ PoolInv'
<1>1. JobsType
  BY DEF DInv, DagTypeOK, JobsType, Thread
<1>2. JobsType' /\ OldOr({job}) /\ StartsOnly({})
  BY <1>1, GoesKeeps
<1>3. \A n \in Node : jobs'[n] # <<>> => jobs[n] # <<>> \/ deps[n] \subseteq results
  BY <1>2 DEF Thread, StartsOnly
<1>4. {job} \subseteq {job, NewJob} /\ PoolInv
  BY DEF DInv
<1> QED BY <1>2, <1>3, <1>4, PoolKeeps

\* What the execution leaves alone keeps the facts about the search.
LEMMA SearchStays ==
  ASSUME DInv, UNCHANGED <<deps, searchVars>>,
         main # "validate",
         main' \notin {"validate", "invalid"},
         main # "invalid"
  PROVE  SearchInv' /\ ValidationIsRight'
BY DEF DInv, SearchInv, AcyclicOn, ValidationIsRight, Acyclic, searchVars

\* A job is typed and fits, and it exists only once the graph is valid.
LEMMA JobType ==
  ASSUME DInv, NEW t \in Thread, NEW i \in DOMAIN jobs[t]
  PROVE  /\ jobs[t][i] \in Job
         /\ Fits(jobs[t][i], results \cup Failed, deps)
         /\ main \notin {"validate", "invalid"}
<1>1. jobs[t] \in Seq(Job)
  BY DEF DInv, DagTypeOK, Thread
<1>2. Fits(jobs[t][i], results \cup Failed, deps)
  BY DEF DInv, PoolInv
<1>3. jobs[t] # <<>>
  BY <1>1
<1> QED BY <1>1, <1>2, <1>3 DEF DInv, NoJobsYet

\* Any step of a job: the types and the pool are all that is left to show.
LEMMA StepKeeps ==
  ASSUME DInv, NEW t \in Thread, NEW i \in DOMAIN jobs[t],
         UNCHANGED <<deps, searchVars, main>>, DagTypeOK', PoolInv'
  PROVE  DInv'
<1>1. main \notin {"validate", "invalid"}
  BY JobType
<1> QED BY <1>1, SearchStays DEF DInv, NoJobsYet

\* A job moves to another state.
LEMMA JobTurns ==
  ASSUME NEW job \in Job, NEW state \in JobState
  PROVE  /\ [job EXCEPT !.at = state] \in Job
         /\ [job EXCEPT !.at = state].at = state
         /\ [job EXCEPT !.at = state].next = job.next
         /\ [job EXCEPT !.at = state].seen = job.seen
BY DEF Job

\* The scan of _submit_ready(), one lemma per kind of step.
LEMMA ScanFindsKeeps ==
  ASSUME DInv, NEW t \in Thread, NEW i \in DOMAIN jobs[t], ScanFinds(t, i)
  PROVE  DInv'
<1> DEFINE job(m) == [jobs[t][i] EXCEPT !.at = "add", !.next = m]
<1>1. PICK m \in Candidates(jobs[t][i]) : Goes(t, i, job(m))
  BY DEF ScanFinds
<1>2. jobs[t][i] \in Job /\ Fits(jobs[t][i], results \cup Failed, deps)
  BY JobType
<1>3. job(m) \in Job /\ Fits(job(m), results \cup Failed, deps)
  <2>1. "add" \in JobState /\ m \in Node /\ m \in Nat /\ deps[m] \subseteq jobs[t][i].seen
    BY DEF JobState, Candidates, Node
  <2>2. job(m) \in Job /\ job(m).next = m /\ job(m).seen = jobs[t][i].seen
    BY <1>2, <2>1 DEF Job
  <2> HIDE DEF job
  <2> QED BY <1>2, <2>1, <2>2 DEF Fits
<1>4. Grows /\ UNCHANGED <<deps, searchVars, main, cancelled, failures>>
      /\ UNCHANGED <<results, errors, submitted, taken, finished, allDone>>
  BY DEF ScanFinds, poolRest, Grows, Failed
<1>5. (results \cup Failed)' = results \cup Failed /\ deps' = deps
  BY <1>4 DEF Failed
<1> HIDE DEF job
<1>6. JobsType' /\ PoolInv'
  BY <1>1, <1>3, <1>4, <1>5, MoveKeeps
<1>7. DagTypeOK'
  BY <1>4, <1>6 DEF DInv, DagTypeOK, JobsType, Thread, searchVars
<1> QED BY <1>4, <1>6, <1>7, StepKeeps

\* A scan that ends, or whose submission is refused.
LEMMA ScanEndsKeeps ==
  ASSUME DInv, NEW t \in Thread, NEW i \in DOMAIN jobs[t],
         ScanEnds(t, i) \/ SubmitRefused(t, i)
  PROVE  DInv'
<1>1. Goes(t, i, Gone) /\ UNCHANGED <<deps, searchVars, main, cancelled, failures>>
      /\ UNCHANGED <<results, errors, submitted, taken, finished, allDone>>
  BY DEF ScanEnds, SubmitRefused, poolRest
<1>2. Gone \in Job /\ Fits(Gone, (results \cup Failed)', deps')
  BY DEF Gone, Job, JobState, Fits
<1>3. Grows
  BY <1>1 DEF Grows, Failed
<1>4. JobsType' /\ PoolInv'
  BY <1>1, <1>2, <1>3, MoveKeeps
<1>5. DagTypeOK'
  BY <1>1, <1>4 DEF DInv, DagTypeOK, JobsType, Thread, searchVars
<1> QED BY <1>1, <1>4, <1>5, StepKeeps

\* The scan marks a task as submitted.
LEMMA ScanAddsKeeps ==
  ASSUME DInv, NEW t \in Thread, NEW i \in DOMAIN jobs[t], ScanAdds(t, i)
  PROVE  DInv'
<1> DEFINE job == [jobs[t][i] EXCEPT !.at = "submit"]
<1>1. Goes(t, i, job) /\ UNCHANGED <<deps, searchVars, main, cancelled, failures>>
      /\ UNCHANGED <<results, errors, finished, allDone>>
      /\ jobs[t][i].at = "add"
      /\ submitted' = submitted \cup {jobs[t][i].next}
      /\ taken' = [taken EXCEPT ![jobs[t][i].next] = @ + 1]
  BY DEF ScanAdds, poolRest, At
<1>2. jobs[t][i] \in Job /\ Fits(jobs[t][i], results \cup Failed, deps)
  BY JobType
<1>3. job \in Job /\ job.next = jobs[t][i].next /\ job.seen = jobs[t][i].seen
  BY <1>2, JobTurns DEF JobState
<1> HIDE DEF job
<1>4. Fits(job, (results \cup Failed)', deps') /\ jobs[t][i].next \in Node
  BY <1>1, <1>2, <1>3 DEF Fits, Failed
<1>5. Grows
  BY <1>1 DEF Grows, Failed
<1>6. JobsType' /\ PoolInv'
  BY <1>1, <1>3, <1>4, <1>5, MoveKeeps
<1>7. taken' \in [Node -> Nat]
  BY <1>1, <1>4 DEF DInv, DagTypeOK
<1>8. DagTypeOK'
  BY <1>1, <1>7, <1>4, <1>6 DEF DInv, DagTypeOK, JobsType, Thread, searchVars
<1> QED BY <1>1, <1>6, <1>8, StepKeeps

\* A scan that has dealt with a task goes on behind it.
LEMMA PastKeeps ==
  ASSUME NEW job \in Job, NEW done, NEW d, Fits(job, done, d)
  PROVE  Past(job) \in Job /\ Fits(Past(job), done, d)
<1>1. "scan" \in JobState /\ job.next + 1 \in Nat
  BY DEF Job, JobState
<1>2. Past(job) \in Job /\ Past(job).at = "scan" /\ Past(job).seen = job.seen
  BY <1>1 DEF Past, Job
<1> QED BY <1>2 DEF Fits

\* The scan aborts a task whose dependency failed.
LEMMA ScanAbortsKeeps ==
  ASSUME DInv, NEW t \in Thread, NEW i \in DOMAIN jobs[t], ScanAborts(t, i)
  PROVE  DInv'
<1> DEFINE m == jobs[t][i].next
<1>1. /\ Goes(t, i, Past(jobs[t][i]))
      /\ jobs[t][i].at = "submit"
      /\ errors' = [errors EXCEPT ![m] = "aborted"]
      /\ Count
      /\ UNCHANGED <<deps, searchVars, main, cancelled, failures>>
      /\ UNCHANGED <<results, submitted, taken>>
  BY DEF ScanAborts, poolRest, At
<1>2. jobs[t][i] \in Job /\ Fits(jobs[t][i], results \cup Failed, deps)
  BY JobType
<1>3. m \in Node /\ errors \in [Node -> {"none", "failed", "aborted"}]
  BY <1>1, <1>2 DEF Fits, DInv, DagTypeOK
<1>4. errors' \in [Node -> {"none", "failed", "aborted"}] /\ Failed \subseteq Failed'
  BY <1>1, <1>3 DEF Failed
<1>5. Grows
  BY <1>1, <1>4 DEF Grows
<1>6. Fits(jobs[t][i], (results \cup Failed)', deps')
  <2>1. Fits(jobs[t][i], (results \cup Failed)', deps)
    BY <1>2, <1>5, FitsMore DEF Grows
  <2> QED BY <1>1, <2>1, Zenon
<1>7. Past(jobs[t][i]) \in Job /\ Fits(Past(jobs[t][i]), (results \cup Failed)', deps')
  BY <1>2, <1>6, PastKeeps
<1>8. JobsType' /\ PoolInv'
  BY <1>1, <1>5, <1>7, MoveKeeps
<1>9. DagTypeOK'
  BY <1>1, <1>4, <1>8, DagAssumption
     DEF DInv, DagTypeOK, JobsType, Thread, searchVars, Count
<1> QED BY <1>1, <1>8, <1>9, StepKeeps

\* The scan submits a task: each dependency was done and none failed, so each has a result.
LEMMA ScanSubmitsKeeps ==
  ASSUME DInv, NEW t \in Thread, NEW i \in DOMAIN jobs[t], ScanSubmits(t, i)
  PROVE  DInv'
<1> DEFINE m == jobs[t][i].next
           job == Past(jobs[t][i])
<1>1. /\ jobs[t][i].at = "submit"
      /\ deps[m] \cap Failed = {}
      /\ UNCHANGED <<deps, searchVars, main, cancelled, failures>>
      /\ UNCHANGED <<results, errors, submitted, taken, finished, allDone>>
  BY DEF ScanSubmits, poolRest, At
<1>2. Submits(t, i, job, m)
  BY DEF ScanSubmits, Submits
<1>3. jobs[t][i] \in Job /\ Fits(jobs[t][i], results \cup Failed, deps)
  BY JobType
<1>4. m \in Node /\ deps[m] \subseteq results
  BY <1>1, <1>3 DEF Fits
<1>5. job \in Job /\ Fits(job, results \cup Failed, deps)
  BY <1>3, PastKeeps
<1>6. Fits(job, (results \cup Failed)', deps')
  BY <1>1, <1>5 DEF Failed, Fits
<1>7. Grows
  BY <1>1 DEF Grows, Failed
<1>8. JobsType
  BY DEF DInv, DagTypeOK, JobsType, Thread
<1> HIDE DEF m, job
<1>9. JobsType' /\ OldOr({job, NewJob}) /\ StartsOnly({m})
  BY <1>2, <1>4, <1>5, <1>8, SubmitKeeps
<1>10. \A n \in Node : jobs'[n] # <<>> => jobs[n] # <<>> \/ deps[n] \subseteq results
  BY <1>4, <1>9 DEF Thread, StartsOnly
<1>11. PoolInv'
  BY <1>6, <1>7, <1>9, <1>10, PoolKeeps DEF DInv
<1>12. DagTypeOK'
  BY <1>1, <1>9 DEF DInv, DagTypeOK, JobsType, Thread, searchVars
<1> QED BY <1>1, <1>11, <1>12, StepKeeps

\* Every step of a scan keeps the invariant.
LEMMA ScanStepKeeps ==
  ASSUME DInv, NEW t \in Thread, NEW i \in DOMAIN jobs[t], ScanStep(t, i)
  PROVE  DInv'
BY ScanFindsKeeps, ScanEndsKeeps, ScanAddsKeeps, ScanAbortsKeeps, ScanSubmitsKeeps
   DEF ScanStep

-----------------------------------------------------------------------------
\* A job that turns to a state outside the scan fits as it did.
LEMMA TurnFits ==
  ASSUME DInv, NEW t \in Thread, NEW i \in DOMAIN jobs[t],
         NEW state \in JobState \ {"add", "submit"}, Grows
  PROVE  /\ [jobs[t][i] EXCEPT !.at = state] \in Job
         /\ Fits([jobs[t][i] EXCEPT !.at = state], (results \cup Failed)', deps')
<1>1. jobs[t][i] \in Job /\ Fits(jobs[t][i], results \cup Failed, deps)
  BY JobType
<1> DEFINE job == [jobs[t][i] EXCEPT !.at = state]
<1>2. job \in Job /\ job.at = state /\ job.seen = jobs[t][i].seen
  BY <1>1, JobTurns
<1> HIDE DEF job
<1>3. Fits(job, (results \cup Failed)', deps')
  BY <1>1, <1>2 DEF Fits, Grows
<1> QED BY <1>2, <1>3 DEF job

\* A pool thread picks a task up.
LEMMA JobStartsKeeps ==
  ASSUME DInv, NEW n \in Node, NEW i \in DOMAIN jobs[n], JobStarts(n, i)
  PROVE  DInv'
<1> DEFINE job == [jobs[n][i] EXCEPT !.at = "running"]
<1>1. Goes(n, i, job) /\ UNCHANGED <<deps, searchVars, main, cancelled, failures>>
      /\ UNCHANGED <<results, errors, submitted, taken, finished, allDone>>
  BY DEF JobStarts, JobGoes, poolRest
<1>2. Grows /\ n \in Thread
  BY <1>1 DEF Grows, Failed, Thread
<1>3. job \in Job /\ Fits(job, (results \cup Failed)', deps')
  BY <1>2, TurnFits DEF JobState
<1> HIDE DEF job
<1>4. JobsType' /\ PoolInv'
  BY <1>1, <1>2, <1>3, MoveKeeps
<1>5. DagTypeOK'
  BY <1>1, <1>4 DEF DInv, DagTypeOK, JobsType, Thread, searchVars
<1> QED BY <1>1, <1>2, <1>4, <1>5, StepKeeps

\* A task returns its result.
LEMMA JobSucceedsKeeps ==
  ASSUME DInv, NEW n \in Node, NEW i \in DOMAIN jobs[n], JobSucceeds(n, i)
  PROVE  DInv'
<1> DEFINE job == [jobs[n][i] EXCEPT !.at = "counting"]
<1>1. Goes(n, i, job) /\ UNCHANGED <<deps, searchVars, main, cancelled, failures>>
      /\ UNCHANGED <<errors, submitted, taken, finished, allDone>>
      /\ results' = results \cup {n}
  BY DEF JobSucceeds, JobGoes, poolRest
<1>2. Grows /\ n \in Thread
  BY <1>1 DEF Grows, Failed, Thread
<1>3. job \in Job /\ Fits(job, (results \cup Failed)', deps')
  BY <1>2, TurnFits DEF JobState
<1> HIDE DEF job
<1>4. JobsType' /\ PoolInv'
  BY <1>1, <1>2, <1>3, MoveKeeps
<1>5. DagTypeOK'
  BY <1>1, <1>4 DEF DInv, DagTypeOK, JobsType, Thread, searchVars
<1> QED BY <1>1, <1>2, <1>4, <1>5, StepKeeps

\* A task raises.
LEMMA JobFailsKeeps ==
  ASSUME DInv, NEW n \in Node, NEW i \in DOMAIN jobs[n], JobFails(n, i)
  PROVE  DInv'
<1> DEFINE job == [jobs[n][i] EXCEPT !.at = "counting"]
<1>1. Goes(n, i, job) /\ UNCHANGED <<deps, searchVars, main, cancelled>>
      /\ UNCHANGED <<results, submitted, taken, finished, allDone>>
      /\ errors' = [errors EXCEPT ![n] = "failed"]
      /\ failures' \in {failures, failures + 1}
  BY DEF JobFails, JobGoes
<1>2. errors \in [Node -> {"none", "failed", "aborted"}]
  BY DEF DInv, DagTypeOK
<1>3. errors' \in [Node -> {"none", "failed", "aborted"}] /\ Failed \subseteq Failed'
  BY <1>1, <1>2 DEF Failed
<1>4. Grows /\ n \in Thread
  BY <1>1, <1>3 DEF Grows, Thread
<1>5. job \in Job /\ Fits(job, (results \cup Failed)', deps')
  BY <1>4, TurnFits DEF JobState
<1> HIDE DEF job
<1>6. JobsType' /\ PoolInv'
  BY <1>1, <1>4, <1>5, MoveKeeps
<1>7. DagTypeOK'
  BY <1>1, <1>3, <1>6 DEF DInv, DagTypeOK, JobsType, Thread, searchVars
<1> QED BY <1>1, <1>4, <1>6, <1>7, StepKeeps

\* A task raises what the callback does not catch.
LEMMA JobDiesKeeps ==
  ASSUME DInv, NEW n \in Node, NEW i \in DOMAIN jobs[n], JobDies(n, i)
  PROVE  DInv'
<1> DEFINE job == [jobs[n][i] EXCEPT !.at = "dead"]
<1>1. Goes(n, i, job) /\ UNCHANGED <<deps, searchVars, main, cancelled>>
      /\ UNCHANGED <<results, errors, submitted, taken, finished, allDone>>
      /\ failures' = failures + 1
  BY DEF JobDies, JobGoes
<1>2. Grows /\ n \in Thread
  BY <1>1 DEF Grows, Failed, Thread
<1>3. job \in Job /\ Fits(job, (results \cup Failed)', deps')
  BY <1>2, TurnFits DEF JobState
<1> HIDE DEF job
<1>4. JobsType' /\ PoolInv'
  BY <1>1, <1>2, <1>3, MoveKeeps
<1>5. DagTypeOK'
  BY <1>1, <1>4 DEF DInv, DagTypeOK, JobsType, Thread, searchVars
<1> QED BY <1>1, <1>2, <1>4, <1>5, StepKeeps

\* The callback counts its task.
LEMMA CountJobKeeps ==
  ASSUME DInv, NEW n \in Node, NEW i \in DOMAIN jobs[n], CountJob(n, i)
  PROVE  DInv'
<1>1. /\ \/ Goes(n, i, Gone)
         \/ Goes(n, i, [jobs[n][i] EXCEPT !.at = "counted"])
      /\ UNCHANGED <<deps, searchVars, main, cancelled, failures>>
      /\ UNCHANGED <<results, errors, submitted, taken>>
      /\ Count
  BY DEF CountJob, JobGoes, poolRest
<1>2. Grows /\ n \in Thread
  BY <1>1 DEF Grows, Failed, Thread
<1>3. Gone \in Job /\ Fits(Gone, (results \cup Failed)', deps')
  BY DEF Gone, Job, JobState, Fits
<1>4. [jobs[n][i] EXCEPT !.at = "counted"] \in Job
      /\ Fits([jobs[n][i] EXCEPT !.at = "counted"], (results \cup Failed)', deps')
  BY <1>2, TurnFits DEF JobState
<1>5. JobsType' /\ PoolInv'
  BY <1>1, <1>2, <1>3, <1>4, MoveKeeps
<1>6. DagTypeOK'
  BY <1>1, <1>5, DagAssumption DEF DInv, DagTypeOK, JobsType, Thread, searchVars, Count
<1> QED BY <1>1, <1>2, <1>5, <1>6, StepKeeps

\* The callback starts a scan, with what is done now.
LEMMA ScanAgainKeeps ==
  ASSUME DInv, NEW n \in Node, NEW i \in DOMAIN jobs[n], ScanAgain(n, i)
  PROVE  DInv'
<1>1. /\ Goes(n, i, Gone) \/ Goes(n, i, NewScan(results \cup Failed))
      /\ UNCHANGED <<deps, searchVars, main, cancelled, failures>>
      /\ UNCHANGED <<results, errors, submitted, taken, finished, allDone>>
  BY DEF ScanAgain, poolRest
<1>2. Grows /\ n \in Thread
  BY <1>1 DEF Grows, Failed, Thread
<1>3. Gone \in Job /\ Fits(Gone, (results \cup Failed)', deps')
  BY DEF Gone, Job, JobState, Fits
<1>4. NewScan(results \cup Failed) \in Job
      /\ Fits(NewScan(results \cup Failed), (results \cup Failed)', deps')
  <2>1. results \cup Failed \subseteq Node /\ (results \cup Failed)' = results \cup Failed
    BY <1>1 DEF DInv, DagTypeOK, Failed
  <2> QED BY <2>1 DEF NewScan, Job, JobState, Fits
<1>5. JobsType' /\ PoolInv'
  BY <1>1, <1>2, <1>3, <1>4, MoveKeeps
<1>6. DagTypeOK'
  BY <1>1, <1>5 DEF DInv, DagTypeOK, JobsType, Thread, searchVars
<1> QED BY <1>1, <1>2, <1>5, <1>6, StepKeeps

\* Every step of a task and its callback keeps the invariant.
LEMMA JobStepKeeps ==
  ASSUME DInv, NEW n \in Node, NEW i \in DOMAIN jobs[n], JobStep(n, i)
  PROVE  DInv'
BY JobStartsKeeps, JobSucceedsKeeps, JobFailsKeeps, JobDiesKeeps, CountJobKeeps, ScanAgainKeeps
   DEF JobStep

-----------------------------------------------------------------------------
\* A step of the validation that leaves the pool alone.
LEMMA SearchLeavesPool ==
  ASSUME DInv, UNCHANGED <<deps, results, errors, jobs>>,
         main' \in {main, "invalid"}, main = "validate"
  PROVE  PoolInv' /\ NoJobsYet'
<1>1. Failed' = Failed
  BY DEF Failed
<1> QED BY <1>1 DEF DInv, PoolInv, DependenciesFirst, NoJobsYet

\* A place in the middle of a path has one behind it.
LEMMA Between ==
  ASSUME NEW n \in Nat, NEW k \in 1 .. n, NEW j \in k .. n, j # n
  PROVE  j \in 1 .. n - 1 /\ j + 1 \in k .. n
OBVIOUS

\* A task that depends on itself, or on a task of the path, closes a cycle.
LEMMA RefusalIsRight ==
  ASSUME DInv, SelfReference \/ FoundCycle
  PROVE  DInv' 
<1>1. main = "validate" /\ main' = "invalid"
      /\ UNCHANGED <<deps, path, black, results, errors, submitted, taken, finished,
                     allDone, jobs, cancelled, failures>>
  BY DEF SelfReference, FoundCycle, Invalid, InSearch, searchVars, poolVars
<1>2. deps \in [Node -> SUBSET Node] /\ path \in Seq(Node)
  BY DEF DInv, DagTypeOK
<1>3. PICK S \in (SUBSET Node) \ {{}} : \A n \in S : deps[n] \cap S # {}
  <2>1. CASE SelfReference
    <3>1. PICK n \in Node : n \in deps[n]
      BY <2>1 DEF SelfReference
    <3>2. {n} \in (SUBSET Node) \ {{}} /\ \A x \in {n} : deps[x] \cap {n} # {}
      BY <3>1
    <3> QED BY <3>2
  <2>2. CASE FoundCycle
    <3>1. PICK k \in DOMAIN path : path[k] \in deps[Top]
      BY <2>2 DEF FoundCycle, Gray
    <3> DEFINE C == {path[j] : j \in k .. Len(path)}
    <3>2. Len(path) \in Nat /\ DOMAIN path = 1 .. Len(path) /\ k \in 1 .. Len(path)
          /\ path # <<>>
      BY <1>2, <3>1
    <3>3. C \in (SUBSET Node) \ {{}}
      BY <1>2, <3>2
    <3>4. ASSUME NEW x \in C PROVE deps[x] \cap C # {}
      <4>1. PICK j \in k .. Len(path) : x = path[j]
        BY <3>4
      <4>2. CASE j = Len(path)
        BY <3>1, <3>2, <4>1, <4>2 DEF Top
      <4>3. CASE j # Len(path)
        <5>1. j \in 1 .. Len(path) - 1 /\ j + 1 \in k .. Len(path)
          BY <3>2, <4>3, Between
        <5>2. path[j + 1] \in deps[path[j]]
          BY <5>1 DEF DInv, SearchInv
        <5> QED BY <4>1, <5>1, <5>2
      <4> QED BY <4>2, <4>3
    <3> QED BY <3>3, <3>4
  <2> QED BY <2>1, <2>2
<1>4. ValidationIsRight'
  BY <1>1, <1>3 DEF ValidationIsRight, Acyclic
<1>5. PoolInv' /\ NoJobsYet'
  BY <1>1, SearchLeavesPool
<1>6. SearchInv'
  BY <1>1 DEF DInv, SearchInv, AcyclicOn
<1>7. DagTypeOK'
  BY <1>1 DEF DInv, DagTypeOK
<1> QED BY <1>4, <1>5, <1>6, <1>7 DEF DInv

\* What the steps of the search share: only path and black change.
LEMMA SearchMoves ==
  ASSUME DInv, main = "validate",
         UNCHANGED <<deps, main, poolVars, cancelled, failures>>,
         path' \in Seq(Node), black' \subseteq Node, SearchInv'
  PROVE  DInv'
<1>1. UNCHANGED <<deps, main, results, errors, submitted, taken, finished, allDone, jobs,
                  cancelled, failures>>
  BY DEF poolVars
<1>2. PoolInv' /\ NoJobsYet'
  BY <1>1, SearchLeavesPool
<1>3. DagTypeOK' /\ ValidationIsRight'
  BY <1>1 DEF DInv, DagTypeOK, ValidationIsRight
<1> QED BY <1>2, <1>3 DEF DInv

\* The search starts at a task.
LEMMA SearchFromKeeps ==
  ASSUME DInv, NEW n \in Node, SearchFrom(n)
  PROVE  DInv'
<1>1. main = "validate" /\ n \notin black /\ path' = <<n>> /\ black' = black
      /\ UNCHANGED <<deps, main, poolVars, cancelled, failures>>
  BY DEF SearchFrom, InSearch, White
<1>2. path' \in Seq(Node) /\ Len(path') = 1 /\ DOMAIN path' = {1} /\ path'[1] = n
  BY <1>1
<1>3. SearchInv'
  BY <1>1, <1>2 DEF DInv, SearchInv, AcyclicOn
<1> QED BY <1>1, <1>2, <1>3, SearchMoves DEF DInv, DagTypeOK

\* The search goes on to a white dependency.
LEMMA VisitKeeps ==
  ASSUME DInv, NEW n \in Node, Visit(n)
  PROVE  DInv'
<1>1. main = "validate" /\ n \notin black /\ n \notin Gray /\ n \in deps[Top]
      /\ path # <<>> /\ path' = Append(path, n) /\ black' = black
      /\ UNCHANGED <<deps, main, poolVars, cancelled, failures>>
  BY DEF Visit, InSearch, White
<1>2. path \in Seq(Node) /\ black \subseteq Node
  BY DEF DInv, DagTypeOK
<1>3. path' \in Seq(Node) /\ Len(path') = Len(path) + 1 /\ Len(path) \in Nat \ {0}
      /\ DOMAIN path' = 1 .. Len(path) + 1
      /\ path'[Len(path) + 1] = n /\ \A j \in 1 .. Len(path) : path'[j] = path[j]
  BY <1>1, <1>2
<1>4. \A j \in 1 .. Len(path) : path[j] # n
  BY <1>1, <1>2 DEF Gray
<1>5. \A j \in DOMAIN path' : path'[j] \notin black'
  BY <1>1, <1>2, <1>3 DEF DInv, SearchInv
<1>6. \A j, k \in DOMAIN path' : path'[j] = path'[k] => j = k
  BY <1>2, <1>3, <1>4 DEF DInv, SearchInv
<1>7. \A j \in 1 .. Len(path') - 1 : path'[j + 1] \in deps'[path'[j]]
  BY <1>1, <1>2, <1>3 DEF DInv, SearchInv, Top
<1>8. (\A b \in black' : deps'[b] \subseteq black') /\ AcyclicOn(black)'
  BY <1>1 DEF DInv, SearchInv, AcyclicOn
<1>9. SearchInv'
  BY <1>5, <1>6, <1>7, <1>8 DEF SearchInv, AcyclicOn
<1> QED BY <1>1, <1>2, <1>3, <1>9, SearchMoves

\* The search leaves a task: the black tasks stay closed and without a cycle.
LEMMA LeaveKeeps ==
  ASSUME DInv, Leave
  PROVE  DInv'
<1>1. main = "validate" /\ path # <<>> /\ deps[Top] \subseteq black
      /\ black' = black \cup {Top} /\ path' = SubSeq(path, 1, Len(path) - 1)
      /\ UNCHANGED <<deps, main, poolVars, cancelled, failures>>
  BY DEF Leave, InSearch
<1>2. path \in Seq(Node) /\ black \subseteq Node
  BY DEF DInv, DagTypeOK
<1>3. path' \in Seq(Node) /\ Len(path) \in Nat \ {0} /\ Len(path') = Len(path) - 1
      /\ DOMAIN path' = 1 .. Len(path) - 1 /\ \A j \in DOMAIN path' : path'[j] = path[j]
  <2>1. Len(path) \in Nat \ {0} /\ \A j \in 1 .. Len(path) - 1 : path[j] \in Node
    BY <1>1, <1>2
  <2> DEFINE n == Len(path) - 1
  <2>2. n \in Nat /\ path' = SubSeq(path, 1, n)
    BY <1>1, <2>1
  <2>3. SubSeq(path, 1, n) = [j \in 1 .. n |-> path[j]]
    BY <1>2, <2>1
  <2> HIDE DEF n
  <2>4. path' = [j \in 1 .. n |-> path[j]] /\ \A j \in 1 .. n : path[j] \in Node
    BY <2>1, <2>2, <2>3 DEF n
  <2>5. path' \in Seq(Node) /\ Len(path') = n /\ DOMAIN path' = 1 .. n
        /\ \A j \in 1 .. n : path'[j] = path[j]
    BY <2>2, <2>4
  <2> QED BY <2>1, <2>5 DEF n
<1>4. Top \in Node /\ Top \notin black
  BY <1>1, <1>2 DEF DInv, SearchInv, Top
<1>5. \A j \in DOMAIN path' : path'[j] \notin black'
  BY <1>1, <1>2, <1>3 DEF DInv, SearchInv, Top
<1>6. \A j, k \in DOMAIN path' : path'[j] = path'[k] => j = k
  BY <1>2, <1>3 DEF DInv, SearchInv
<1>7. \A j \in 1 .. Len(path') - 1 : path'[j + 1] \in deps'[path'[j]]
  BY <1>1, <1>2, <1>3 DEF DInv, SearchInv
<1>8. \A b \in black' : deps'[b] \subseteq black'
  BY <1>1 DEF DInv, SearchInv
<1>9. ASSUME NEW S \in (SUBSET black') \ {{}}
      PROVE  \E n \in S : deps'[n] \cap S = {}
  <2>1. (\A b \in black : deps[b] \subseteq black) /\ AcyclicOn(black)
    BY DEF DInv, SearchInv
  <2>2. CASE S \ {Top} = {}
    BY <1>1, <1>4, <2>2
  <2>3. CASE S \ {Top} # {}
    <3>1. PICK n \in S \ {Top} : deps[n] \cap (S \ {Top}) = {}
      BY <1>1, <2>1, <2>3 DEF AcyclicOn
    <3>2. Top \notin deps[n]
      BY <1>1, <1>4, <2>1, <3>1
    <3> QED BY <1>1, <3>1, <3>2
  <2> QED BY <2>2, <2>3
<1>10. SearchInv'
  BY <1>5, <1>6, <1>7, <1>8, <1>9 DEF SearchInv, AcyclicOn
<1>11. black' \subseteq Node
  BY <1>1, <1>2, <1>4
<1> QED BY <1>1, <1>3, <1>10, <1>11, SearchMoves

\* Every task is black: the graph has no cycle, and the first scan starts.
LEMMA ValidatedKeeps ==
  ASSUME DInv, Validated
  PROVE  DInv'
<1>1. main = "validate" /\ path = <<>> /\ White = {} /\ main' = "execute"
      /\ jobs' = [jobs EXCEPT ![Main] = <<NewScan({})>>]
      /\ UNCHANGED <<deps, path, black, results, errors, submitted, taken, finished, allDone,
                     cancelled, failures>>
  BY DEF Validated, InSearch, searchVars
<1>2. Gray = {} /\ Node \subseteq black
  BY <1>1 DEF Gray, White
<1>3. black = Node
  BY <1>2 DEF DInv, DagTypeOK
<1>4. SearchInv' /\ ValidationIsRight'
  BY <1>1, <1>3 DEF DInv, SearchInv, AcyclicOn, ValidationIsRight, Acyclic
<1>5. NewScan({}) \in Job /\ Fits(NewScan({}), results \cup Failed, deps)
  BY DEF NewScan, Job, JobState, Fits
<1>6. jobs \in [Thread -> Seq(Job)] /\ Main \in Thread /\ \A t \in Thread : jobs[t] = <<>>
  BY <1>1 DEF DInv, DagTypeOK, NoJobsYet, Thread
<1>7. jobs' \in [Thread -> Seq(Job)] /\ jobs'[Main] = <<NewScan({})>>
      /\ \A t \in Thread : t # Main => jobs'[t] = <<>>
  BY <1>1, <1>5, <1>6
<1>8. DagTypeOK'
  BY <1>1, <1>7 DEF DInv, DagTypeOK, Thread
<1>9. PoolInv'
  <2>1. Main \notin Node
    BY DEF Main, Node
  <2>2. DependenciesFirst'
    BY <1>7, <2>1 DEF DependenciesFirst, Thread
  <2>3. ASSUME NEW t \in Thread, NEW k \in DOMAIN jobs'[t]
        PROVE  Fits(jobs'[t][k], (results \cup Failed)', deps')
    <3>1. t = Main /\ k = 1
      BY <1>7, <2>3
    <3>2. jobs'[t][k] = NewScan({}) /\ (results \cup Failed)' = results \cup Failed
          /\ deps' = deps
      BY <1>1, <1>7, <3>1 DEF Failed
    <3> QED BY <1>5, <3>2
  <2> QED BY <2>2, <2>3 DEF PoolInv
<1>10. NoJobsYet'
  BY <1>1 DEF NoJobsYet
<1> QED BY <1>4, <1>8, <1>9, <1>10 DEF DInv

\* Every step of the validation keeps the invariant.
LEMMA SearchKeeps ==
  ASSUME DInv, Search
  PROVE  DInv'
BY RefusalIsRight, LeaveKeeps, ValidatedKeeps, SearchFromKeeps, VisitKeeps DEF Search

-----------------------------------------------------------------------------
\* execute() waits, shuts the pool down and returns; a cancellation is only a flag.
LEMMA MainKeeps ==
  ASSUME DInv, MainStep \/ Cancel
  PROVE  DInv'
<1>1. /\ main \in {"execute", "shutdown"}
      /\ main' \in {"execute", "shutdown", "returned", "raised"}
      /\ cancelled' \in BOOLEAN
      /\ UNCHANGED <<deps, path, black, results, errors, submitted, taken, finished, allDone,
                     jobs, failures>>
  BY DEF MainStep, MainWakes, MainReturns, Cancel, searchVars, poolVars, DInv, DagTypeOK
<1>2. DagTypeOK'
  BY <1>1 DEF DInv, DagTypeOK
<1>3. SearchInv' /\ ValidationIsRight'
  BY <1>1, SearchStays DEF searchVars
<1>4. PoolInv' /\ NoJobsYet'
  BY <1>1 DEF DInv, PoolInv, DependenciesFirst, NoJobsYet, Failed
<1> QED BY <1>2, <1>3, <1>4 DEF DInv

\* The invariant holds before the validation, ...
LEMMA InitDInv == Init => DInv
<1> SUFFICES ASSUME Init PROVE DInv
  OBVIOUS
<1>1. jobs \in [Thread -> Seq(Job)] /\ \A t \in Thread : jobs[t] = <<>>
  BY DEF Init, Thread
<1>2. DagTypeOK
  <2>1. errors \in [Node -> {"none", "failed", "aborted"}]
    BY DEF Init
  <2>2. jobs \in [Node \cup {Main} -> Seq(Job)]
    BY <1>1 DEF Thread
  <2>3. path \in Seq(Node) /\ deps \in [Node -> SUBSET Node]
    BY DEF Init
  <2>4. allDone \in BOOLEAN /\ cancelled \in BOOLEAN
    BY Zenon DEF Init
  <2>5. finished \in Nat /\ failures \in Nat
    BY DEF Init
  <2>6. /\ main \in {"validate", "execute", "shutdown", "invalid", "raised", "returned"}
        /\ black \subseteq Node /\ results \subseteq Node /\ submitted \subseteq Node
        /\ taken \in [Node -> Nat]
    BY DEF Init
  <2> QED BY <2>1, <2>2, <2>3, <2>4, <2>5, <2>6 DEF DagTypeOK
<1>3. SearchInv /\ ValidationIsRight
  BY DEF Init, SearchInv, AcyclicOn, ValidationIsRight
<1>4. PoolInv /\ NoJobsYet
  BY <1>1 DEF PoolInv, NoJobsYet, DependenciesFirst, Thread
<1> QED BY <1>2, <1>3, <1>4 DEF DInv

\* ... and every step keeps it.
LEMMA NextDInv == DInv /\ [Next]_vars => DInv'
<1> SUFFICES ASSUME DInv, [Next]_vars PROVE DInv'
  OBVIOUS
<1>1. CASE Search
  BY <1>1, SearchKeeps
<1>2. CASE \E n \in Node \cup {Main} : \E i \in DOMAIN jobs[n] : ScanStep(n, i)
  BY <1>2, ScanStepKeeps DEF Thread
<1>3. CASE \E n \in Node : \E i \in DOMAIN jobs[n] : JobStep(n, i)
  BY <1>3, JobStepKeeps
<1>4. CASE MainStep \/ Cancel
  BY <1>4, MainKeeps
<1>5. CASE UNCHANGED vars
  <2>1. UNCHANGED <<deps, path, black, main, results, errors, submitted, taken, finished,
                    allDone, cancelled, failures, jobs>>
    BY <1>5 DEF vars, searchVars, poolVars
  <2>2. DagTypeOK' /\ NoJobsYet'
    BY <2>1 DEF DInv, DagTypeOK, NoJobsYet
  <2>3. SearchInv' /\ ValidationIsRight'
    BY <2>1 DEF DInv, SearchInv, AcyclicOn, ValidationIsRight, Acyclic
  <2>4. PoolInv'
    BY <2>1 DEF DInv, PoolInv, DependenciesFirst, Failed
  <2> QED BY <2>2, <2>3, <2>4 DEF DInv
<1> QED BY <1>1, <1>2, <1>3, <1>4, <1>5 DEF Next

\* The invariant holds in every state of the executor.
THEOREM DagInvariant == Spec => []DInv
BY InitDInv, NextDInv, PTL DEF Spec

\* Every variable of the executor keeps its type.
THEOREM DagTypeCorrect == Spec => []DagTypeOK
<1>1. DInv => DagTypeOK
  BY DEF DInv
<1> QED BY <1>1, DagInvariant, PTL

\* validate_dag() accepts no graph with a cycle and refuses none without, for
\* every number of tasks, whatever the order in which it visits them.
THEOREM ValidationCorrect == Spec => []ValidationIsRight
<1>1. DInv => ValidationIsRight
  BY DEF DInv
<1> QED BY <1>1, DagInvariant, PTL

\* No task is submitted before each of its dependencies has a result, for every
\* graph, every interleaving of the scans and any number of failures.
THEOREM DependenciesCorrect == Spec => []DependenciesFirst
<1>1. DInv => DependenciesFirst
  BY DEF DInv, PoolInv
<1> QED BY <1>1, DagInvariant, PTL

-----------------------------------------------------------------------------
(***************************************************************************)
(* The end of the execution: execute() never waits for threads that have   *)
(* come to rest, and when it wakes it has lost no task, unless two scans   *)
(* took the same one.                                                      *)
(*                                                                         *)
(* RInv is inductive together with DInv.  Its two main parts are Counts    *)
(* (the counter against the tasks that were counted) and Promised (for     *)
(* every task that became ready some thread has yet to look at it); Taken  *)
(* and Dealt say who owns a task between the two, and Fresh and Recorded   *)
(* what the records of a task tell about its jobs.                         *)
(***************************************************************************)
DoneTasks == results \cup Failed

\* Before the graph is found valid nothing has happened; the pool's first scan is
\* the only job of Main.
Fresh ==
  /\ main \in {"validate", "invalid"} =>
       results = {} /\ submitted = {} /\ \A n \in Node : errors[n] = "none"
  /\ DOMAIN jobs[Main] \subseteq {1}

\* A callback that has come past the record has made it; what is recorded was submitted.
Recorded ==
  /\ \A n \in Node : \A i \in DOMAIN jobs[n] :
       jobs[n][i].at \notin {"queued", "running", "dead"} => n \in DoneTasks
  /\ \A n \in Node : n \in results \/ errors[n] = "failed" => jobs[n] # <<>>

\* Job i of thread t is about to abort or submit n.
Holds(t, i, n) == jobs[t][i].at = "submit" /\ jobs[t][i].next = n

\* A task is taken before it is dealt with, and dealt with once for each time.
Unhandled(n) == jobs[n] = <<>> /\ errors[n] = "none"

TakenFor(n) ==
  /\ n \in submitted <=> taken[n] # 0
  /\ taken[n] = 0 =>
       Unhandled(n) /\ \A t \in Thread : \A i \in DOMAIN jobs[t] : ~Holds(t, i, n)
  /\ taken[n] <= 1 =>
       /\ DOMAIN jobs[n] \subseteq {1}
       /\ jobs[n] # <<>> => errors[n] # "aborted"
       /\ \A t \in Thread : \A i \in DOMAIN jobs[t] : Holds(t, i, n) =>
            /\ Unhandled(n)
            /\ \A u \in Thread : \A k \in DOMAIN jobs[u] :
                 Holds(u, k, n) => u = t /\ k = i

Taken == \A n \in Node : TakenFor(n)

\* While the pool is open, a task that was taken is dealt with, or about to be.
Dealt ==
  \A n \in submitted :
    \/ main # "execute" \/ jobs[n] # <<>> \/ n \in Failed
    \/ \E t \in Thread : \E i \in DOMAIN jobs[t] : Holds(t, i, n)

\* The states of a job that its callback has not counted, yet or for ever.
Early == {"queued", "running", "dead", "counting"}

\* The tasks that were counted, by their callback or when they were aborted.
Counted ==
  {n \in Node : \/ errors[n] = "aborted"
                \/ \E i \in DOMAIN jobs[n] :
                     jobs[n][i].at \notin Early}

Counts ==
  /\ allDone <=> finished >= NumNodes
  /\ main \in {"shutdown", "returned", "raised"} => allDone
  /\ Cardinality(Counted) <= finished
  /\ TakenOnce => finished = Cardinality(Counted)

\* Somebody will look at n again: a callback that has not scanned yet, or a scan
\* that has not passed n and knows its dependencies to be done.
Hope(job, n) ==
  \/ job.at \in {"counting", "counted"}
  \/ job.at \in {"scan", "add", "submit"} /\ job.next <= n /\ deps[n] \subseteq job.seen

Ready(n) ==
  /\ n \notin submitted
  /\ deps[n] \subseteq DoneTasks /\ \A d \in deps[n] : errors[d] # "aborted"

Promised ==
  main = "execute" /\ ~cancelled /\ ~allDone =>
    \A n \in Node : Ready(n) =>
      \E t \in Thread : \E i \in DOMAIN jobs[t] : Hope(jobs[t][i], n)

RInv == Fresh /\ Recorded /\ Taken /\ Dealt /\ Counts /\ Promised

-----------------------------------------------------------------------------
\* Job i of thread t becomes job, every other job stays what it is.
Moved(t, i, job) ==
  /\ \A u \in Thread : DOMAIN jobs'[u] = DOMAIN jobs[u] /\ (jobs'[u] = <<>> <=> jobs[u] = <<>>)
  /\ jobs'[t][i] = job
  /\ \A u \in Thread : \A k \in DOMAIN jobs[u] :
       (u = t /\ k = i) \/ jobs'[u][k] = jobs[u][k]

\* What a move of one job does.
LEMMA MovedFacts ==
  ASSUME JobsType, NEW t \in Thread, NEW i \in DOMAIN jobs[t], NEW job \in Job,
         Goes(t, i, job)
  PROVE  Moved(t, i, job)
<1> DEFINE s == [jobs[t] EXCEPT ![i] = job]
<1>1. jobs' = [jobs EXCEPT ![t] = s]
  BY DEF Goes
<1>2. jobs[t] \in Seq(Job) /\ s \in Seq(Job) /\ DOMAIN s = DOMAIN jobs[t]
      /\ s[i] = job /\ \A k \in DOMAIN s : k # i => s[k] = jobs[t][k]
  BY DEF JobsType
<1>3. jobs[t] # <<>> /\ s # <<>>
  BY <1>2
<1> HIDE DEF s
<1>4. jobs'[t] = s /\ \A u \in Thread : u # t => jobs'[u] = jobs[u]
  BY <1>1 DEF JobsType
<1> QED BY <1>2, <1>3, <1>4 DEF Moved

\* Job i of thread t goes past m, which gets a new job.
Handed(t, i, job, m) ==
  LET new == Len(jobs[m]) + 1
  IN  /\ \A u \in Thread : u # m => DOMAIN jobs'[u] = DOMAIN jobs[u]
      /\ DOMAIN jobs'[m] = DOMAIN jobs[m] \cup {new} /\ new \notin DOMAIN jobs[m]
      /\ \A u \in Thread : jobs'[u] = <<>> <=> u # m /\ jobs[u] = <<>>
      /\ jobs'[t][i] = job
      /\ jobs'[m][new] = NewJob
      /\ jobs[m] = <<>> => new = 1
      /\ \A u \in Thread : \A k \in DOMAIN jobs[u] :
           (u = t /\ k = i) \/ jobs'[u][k] = jobs[u][k]

\* What appending a job does.
LEMMA AppendFacts ==
  ASSUME NEW s \in Seq(Job), NEW e \in Job
  PROVE  /\ DOMAIN Append(s, e) = 1 .. Len(s) + 1 /\ Append(s, e)[Len(s) + 1] = e
         /\ \A k \in DOMAIN s : Append(s, e)[k] = s[k]
         /\ Append(s, e) # <<>>
OBVIOUS

\* What a submission does.
LEMMA HandedFacts ==
  ASSUME JobsType, NEW t \in Thread, NEW i \in DOMAIN jobs[t], NEW job \in Job,
         NEW m \in Node, Submits(t, i, job, m)
  PROVE  Handed(t, i, job, m)
<1> DEFINE s == [jobs[t] EXCEPT ![i] = job]
           mid == [jobs EXCEPT ![t] = s]
<1>1. NewJob \in Job /\ m \in Thread
  BY DEF NewJob, Job, JobState, Thread
<1>2. jobs[t] \in Seq(Job) /\ s \in Seq(Job) /\ DOMAIN s = DOMAIN jobs[t]
      /\ s[i] = job /\ Len(s) = Len(jobs[t]) /\ \A k \in DOMAIN s : k # i => s[k] = jobs[t][k]
  BY DEF JobsType
<1>3. jobs[t] # <<>> /\ s # <<>>
  BY <1>2
<1>4. jobs' = [mid EXCEPT ![m] = Append(mid[m], NewJob)]
  BY DEF Submits
<1> HIDE DEF s
<1>5. mid \in [Thread -> Seq(Job)] /\ mid[t] = s
      /\ \A u \in Thread : u # t => mid[u] = jobs[u]
  BY <1>2 DEF JobsType
<1> HIDE DEF mid
<1>6. jobs'[m] = Append(mid[m], NewJob) /\ \A u \in Thread : u # m => jobs'[u] = mid[u]
  BY <1>1, <1>4, <1>5
<1>7. \A u \in Thread :
        /\ DOMAIN mid[u] = DOMAIN jobs[u] /\ Len(mid[u]) = Len(jobs[u])
        /\ mid[u] = <<>> <=> jobs[u] = <<>>
  BY <1>2, <1>3, <1>5
<1>8. mid[m] \in Seq(Job) /\ jobs[m] \in Seq(Job)
  BY <1>1, <1>5 DEF JobsType
<1> DEFINE new == Len(jobs[m]) + 1
<1>9. /\ DOMAIN Append(mid[m], NewJob) = 1 .. new
      /\ Append(mid[m], NewJob)[new] = NewJob
      /\ \A k \in DOMAIN mid[m] : Append(mid[m], NewJob)[k] = mid[m][k]
      /\ Append(mid[m], NewJob) # <<>>
  <2>1. Len(mid[m]) + 1 = new
    BY <1>1, <1>7
  <2> HIDE DEF new
  <2>2. /\ DOMAIN Append(mid[m], NewJob) = 1 .. Len(mid[m]) + 1
        /\ Append(mid[m], NewJob)[Len(mid[m]) + 1] = NewJob
        /\ \A k \in DOMAIN mid[m] : Append(mid[m], NewJob)[k] = mid[m][k]
        /\ Append(mid[m], NewJob) # <<>>
    BY <1>1, <1>8, AppendFacts, Zenon
  <2> QED BY <2>1, <2>2, Zenon
<1>10. DOMAIN jobs[m] = 1 .. Len(jobs[m]) /\ Len(jobs[m]) \in Nat
       /\ (jobs[m] = <<>> => Len(jobs[m]) = 0)
  BY <1>8
<1>11. 1 .. new = DOMAIN jobs[m] \cup {new} /\ new \notin DOMAIN jobs[m]
       /\ (jobs[m] = <<>> => new = 1)
  BY <1>10
<1> HIDE DEF new
<1>12. DOMAIN jobs'[m] = DOMAIN jobs[m] \cup {new} /\ jobs'[m][new] = NewJob
       /\ jobs'[m] # <<>> /\ \A k \in DOMAIN jobs[m] : jobs'[m][k] = mid[m][k]
  BY <1>1, <1>6, <1>7, <1>9, <1>11, Zenon
<1>13. \A u \in Thread : \A k \in DOMAIN jobs[u] : jobs'[u][k] = mid[u][k]
  BY <1>6, <1>12, Zenon
<1>14. \A u \in Thread : u # m => DOMAIN jobs'[u] = DOMAIN jobs[u]
  BY <1>6, <1>7, Zenon
<1>15. \A u \in Thread : jobs'[u] = <<>> <=> u # m /\ jobs[u] = <<>>
  BY <1>6, <1>7, <1>12, Zenon
<1>16. jobs'[t][i] = job
  BY <1>2, <1>5, <1>13, Zenon
<1>17. \A u \in Thread : \A k \in DOMAIN jobs[u] :
         (u = t /\ k = i) \/ jobs'[u][k] = jobs[u][k]
  <2>1. ASSUME NEW u \in Thread, NEW k \in DOMAIN jobs[u], u # t \/ k # i
        PROVE  mid[u][k] = jobs[u][k]
    BY <1>2, <1>5, <2>1
  <2> QED BY <1>13, <2>1
<1> QED BY <1>11, <1>12, <1>14, <1>15, <1>16, <1>17 DEF Handed, new

\* What is known of a job about to be stepped.
LEMMA JobFacts ==
  ASSUME DInv, NEW t \in Thread, NEW i \in DOMAIN jobs[t]
  PROVE  /\ JobsType /\ jobs[t][i] \in Job
         /\ jobs[t][i].at = "submit" => jobs[t][i].next \in Node
         /\ jobs[t] # <<>> /\ main \notin {"validate", "invalid"}
BY JobType DEF DInv, DagTypeOK, Thread, JobsType, Fits, NoJobsYet

-----------------------------------------------------------------------------
\* A job moves and nothing else changes: what must be known of the move.
LEMMA QuietKeeps ==
  ASSUME DInv, RInv, NEW t \in Thread, NEW i \in DOMAIN jobs[t], NEW job \in Job,
         Goes(t, i, job),
         UNCHANGED <<deps, main, results, errors, submitted, taken, finished, allDone, cancelled>>,
         job.at # "submit", Holds(t, i, jobs[t][i].next) => main # "execute",
         jobs[t][i].at \in {"queued", "running"} => job.at \in {"running", "dead"},
         jobs[t][i].at \notin {"queued", "running"} =>
           job.at \notin Early /\ jobs[t][i].at \notin Early,
         main = "execute" /\ ~cancelled =>
           \A n \in Node : Ready(n) /\ Hope(jobs[t][i], n) => Hope(job, n)
  PROVE  RInv'
<1>1. Moved(t, i, job)
  BY JobFacts, MovedFacts
<1>2. DoneTasks' = DoneTasks
  BY DEF DoneTasks, Failed
<1>3. Fresh'
  BY <1>1 DEF RInv, Fresh, Moved, Thread
<1>4. Recorded'
  BY <1>1, <1>2 DEF RInv, Recorded, Moved, Thread, Early
<1>5. \A u \in Thread : \A k \in DOMAIN jobs'[u] : \A n \in Node :
        Holds(u, k, n)' => k \in DOMAIN jobs[u] /\ Holds(u, k, n)
  BY <1>1 DEF Moved, Holds
<1>6. Taken'
  BY <1>1, <1>5 DEF RInv, Taken, TakenFor, Unhandled, Moved, Thread
<1>7. Dealt'
  <2>1. SUFFICES ASSUME NEW n \in submitted, main = "execute", jobs[n] = <<>>, n \notin Failed
                 PROVE  \E u \in Thread : \E k \in DOMAIN jobs'[u] : Holds(u, k, n)'
    BY <1>1 DEF Dealt, Failed, Moved, DInv, DagTypeOK, Thread
  <2>2. PICK u \in Thread : \E k \in DOMAIN jobs[u] : Holds(u, k, n)
    BY <2>1 DEF RInv, Dealt
  <2>3. PICK k \in DOMAIN jobs[u] : Holds(u, k, n)
    BY <2>2
  <2>4. ~(u = t /\ k = i)
    BY <2>1, <2>3 DEF Holds
  <2>5. k \in DOMAIN jobs'[u] /\ Holds(u, k, n)'
    BY <1>1, <2>3, <2>4 DEF Moved, Holds
  <2> QED BY <2>5
<1>8. Counts'
  <2>1. Counted' = Counted
    BY <1>1 DEF Counted, Moved, Early, Thread
  <2> QED BY <2>1 DEF RInv, Counts, TakenOnce
<1>9. Promised'
  <2>1. SUFFICES ASSUME main = "execute", ~cancelled, ~allDone, NEW n \in Node, Ready(n)
                 PROVE  \E u \in Thread : \E k \in DOMAIN jobs'[u] : Hope(jobs[u][k], n)'
    BY <1>2 DEF Promised, Ready
  <2>2. PICK u \in Thread : \E k \in DOMAIN jobs[u] : Hope(jobs[u][k], n)
    BY <2>1 DEF RInv, Promised
  <2>3. PICK k \in DOMAIN jobs[u] : Hope(jobs[u][k], n)
    BY <2>2
  <2>4. CASE u = t /\ k = i
    BY <1>1, <2>1, <2>3, <2>4 DEF Moved, Hope
  <2>5. CASE ~(u = t /\ k = i)
    BY <1>1, <2>3, <2>5 DEF Moved, Hope
  <2> QED BY <2>4, <2>5
<1> QED BY <1>3, <1>4, <1>6, <1>7, <1>8, <1>9 DEF RInv

\* The tasks are finitely many, so the counted ones are.
LEMMA CountedFinite ==
  /\ IsFiniteSet(Counted) /\ Cardinality(Counted) \in Nat
  /\ IsFiniteSet(Node) /\ Cardinality(Node) = NumNodes
<1>1. IsFiniteSet(Node) /\ Cardinality(Node) = NumNodes
  BY FS_Interval, DagAssumption DEF Node
<1>2. Counted \subseteq Node
  BY DEF Counted
<1> QED BY <1>1, <1>2, FS_Subset, FS_CardinalityType

\* One more task is counted.
LEMMA CountOneMore ==
  ASSUME DagTypeOK, Counts, Count, NEW n \in Node, Counted' = Counted \cup {n},
         main' = main, taken' = taken, TakenOnce => n \notin Counted
  PROVE  Counts'
<1>1. IsFiniteSet(Counted) /\ Cardinality(Counted) \in Nat
  BY CountedFinite
<1>2. /\ Cardinality(Counted') \in Nat
      /\ Cardinality(Counted') <= Cardinality(Counted) + 1
      /\ n \notin Counted => Cardinality(Counted') = Cardinality(Counted) + 1
  <2>1. Cardinality(Counted \cup {n}) =
          IF n \in Counted THEN Cardinality(Counted) ELSE Cardinality(Counted) + 1
    BY <1>1, FS_AddElement
  <2> QED BY <1>1, <2>1
<1>3. finished' = finished + 1 /\ (allDone' <=> (allDone \/ finished' >= NumNodes))
      /\ finished \in Nat /\ NumNodes \in Nat
  BY DagAssumption DEF Count, DagTypeOK
<1>4. allDone' <=> finished' >= NumNodes
  BY <1>3 DEF Counts
<1>5. main' \in {"shutdown", "returned", "raised"} => allDone'
  BY <1>3 DEF Counts
<1>6. Cardinality(Counted') <= finished'
  <2>1. Cardinality(Counted) <= finished
    BY DEF Counts
  <2> QED BY <1>1, <1>2, <1>3, <2>1
<1>7. TakenOnce' => finished' = Cardinality(Counted')
  BY <1>1, <1>2, <1>3 DEF Counts, TakenOnce
<1> QED BY <1>4, <1>5, <1>6, <1>7 DEF Counts

\* The scan takes a task.
LEMMA ScanAddsRest ==
  ASSUME DInv, RInv, NEW t \in Thread, NEW i \in DOMAIN jobs[t], ScanAdds(t, i)
  PROVE  RInv'
<1> DEFINE job == [jobs[t][i] EXCEPT !.at = "submit"]
<1>0. PICK m \in Node : m = jobs[t][i].next
  BY JobType DEF Fits, ScanAdds, At
<1>1. /\ Goes(t, i, job) /\ jobs[t][i].at = "add"
      /\ UNCHANGED <<deps, main, cancelled, results, errors, finished, allDone>>
      /\ submitted' = submitted \cup {m} /\ taken' = [taken EXCEPT ![m] = @ + 1]
  BY <1>0 DEF ScanAdds, At, poolRest
<1>2. JobsType /\ jobs[t][i] \in Job /\ main \notin {"validate", "invalid"}
  BY JobFacts
<1>3. job \in Job /\ job.at = "submit" /\ job.next = m /\ job.seen = jobs[t][i].seen
  BY <1>0, <1>2, JobTurns DEF JobState
<1> HIDE DEF job
<1>4. Moved(t, i, job)
  BY <1>1, <1>2, <1>3, MovedFacts
<1>5. DoneTasks' = DoneTasks /\ Failed' = Failed
  BY <1>1 DEF DoneTasks, Failed
<1>6. taken \in [Node -> Nat] /\ taken'[m] = taken[m] + 1 /\ taken[m] \in Nat
      /\ \A n \in Node : n # m => taken'[n] = taken[n]
  BY <1>1, <1>2 DEF DInv, DagTypeOK
<1>7. Fresh'
  BY <1>1, <1>2, <1>4 DEF RInv, Fresh, Moved, Thread
<1>8. Recorded'
  BY <1>1, <1>4, <1>5, <1>3 DEF RInv, Recorded, Moved, Thread
<1>9. \A u \in Thread : \A k \in DOMAIN jobs'[u] : \A n \in Node :
        Holds(u, k, n)' => \/ u = t /\ k = i /\ n = m
                           \/ k \in DOMAIN jobs[u] /\ Holds(u, k, n)
  BY <1>3, <1>4 DEF Moved, Holds
<1>10. \A n \in Node : Unhandled(n)' <=> Unhandled(n)
  BY <1>1, <1>4 DEF Unhandled, Moved, Thread
<1>11. Taken'
  <2>1. ASSUME NEW n \in Node, n # m
        PROVE  TakenFor(n)'
    <3>1. n \in submitted' <=> taken'[n] # 0
      BY <1>1, <1>6, <2>1 DEF RInv, Taken, TakenFor
    <3> QED BY <1>4, <1>6, <1>9, <1>10, <1>1, <2>1, <3>1 DEF RInv, Taken, TakenFor, Moved, Thread
  <2>2. TakenFor(m)'
    <3>1. taken'[m] # 0 /\ m \in submitted'
      BY <1>1, <1>6
    <3>2. ASSUME taken'[m] <= 1
          PROVE  /\ DOMAIN jobs'[m] \subseteq {1}
                 /\ jobs'[m] # <<>> => errors'[m] # "aborted"
                 /\ Unhandled(m)'
                 /\ \A u \in Thread : \A k \in DOMAIN jobs'[u] :
                      Holds(u, k, m)' => u = t /\ k = i
      <4>1. taken[m] = 0
        BY <1>6, <3>2
      <4>2. Unhandled(m) /\ \A u \in Thread : \A k \in DOMAIN jobs[u] : ~Holds(u, k, m)
        BY <1>2, <4>1 DEF RInv, Taken, TakenFor
      <4>3. DOMAIN jobs[m] = {} /\ jobs'[m] = <<>> /\ DOMAIN jobs'[m] = {}
        BY <1>2, <1>4, <4>2 DEF Unhandled, Moved, Thread
      <4>4. \A u \in Thread : \A k \in DOMAIN jobs'[u] :
              Holds(u, k, m)' => u = t /\ k = i
        BY <1>9, <4>2
      <4> QED BY <1>10, <4>2, <4>3, <4>4
    <3>3. taken'[m] # 0 /\ taken'[m] \in Nat
      BY <1>6
    <3> QED BY <3>1, <3>2, <3>3 DEF TakenFor
  <2> QED BY <2>1, <2>2 DEF Taken
<1>12. Dealt'
  <2>1. SUFFICES ASSUME NEW n \in submitted', main = "execute", jobs[n] = <<>>, n \notin Failed
                 PROVE  \E u \in Thread : \E k \in DOMAIN jobs'[u] : Holds(u, k, n)'
    BY <1>1, <1>2, <1>4, <1>5 DEF Dealt, Moved, DInv, DagTypeOK, Thread
  <2>2. CASE n = m
    BY <1>3, <1>4, <2>2 DEF Moved, Holds
  <2>3. CASE n # m
    <3>1. PICK u \in Thread : \E k \in DOMAIN jobs[u] : Holds(u, k, n)
      BY <1>1, <2>1, <2>3 DEF RInv, Dealt
    <3>2. PICK k \in DOMAIN jobs[u] : Holds(u, k, n)
      BY <3>1
    <3>3. k \in DOMAIN jobs'[u] /\ Holds(u, k, n)'
      BY <1>1, <1>4, <3>2 DEF Moved, Holds
    <3> QED BY <3>3
  <2> QED BY <2>2, <2>3
<1>13. Counts'
  <2>1. Counted' = Counted
    BY <1>1, <1>3, <1>4 DEF Counted, Early, Moved, Thread
  <2>2. TakenOnce' => TakenOnce
    BY <1>6 DEF TakenOnce
  <2> QED BY <1>1, <2>1, <2>2 DEF RInv, Counts
<1>14. Promised'
  <2>1. SUFFICES ASSUME main = "execute", ~cancelled, ~allDone, NEW n \in Node, Ready(n)
                 PROVE  \E u \in Thread : \E k \in DOMAIN jobs'[u] : Hope(jobs[u][k], n)'
    BY <1>1, <1>5 DEF Promised, Ready
  <2>2. PICK u \in Thread : \E k \in DOMAIN jobs[u] : Hope(jobs[u][k], n)
    BY <2>1 DEF RInv, Promised
  <2>3. PICK k \in DOMAIN jobs[u] : Hope(jobs[u][k], n)
    BY <2>2
  <2>4. CASE u = t /\ k = i
    BY <1>0, <1>1, <1>3, <1>4, <2>1, <2>3, <2>4 DEF Moved, Hope
  <2>5. CASE ~(u = t /\ k = i)
    BY <1>1, <1>4, <2>3, <2>5 DEF Moved, Hope
  <2> QED BY <2>4, <2>5
<1> QED BY <1>7, <1>8, <1>11, <1>12, <1>13, <1>14 DEF RInv

\* A scan that has dealt with a task goes on to the next one.
LEMMA PastFacts ==
  ASSUME NEW job \in Job
  PROVE  /\ Past(job) \in Job /\ Past(job).at = "scan"
         /\ Past(job).next = job.next + 1 /\ Past(job).seen = job.seen
<1>1. "scan" \in JobState /\ job.next + 1 \in Nat
  BY DEF Job, JobState
<1> QED BY <1>1 DEF Past, Job

\* The scan aborts a task.
LEMMA ScanAbortsRest ==
  ASSUME DInv, RInv, NEW t \in Thread, NEW i \in DOMAIN jobs[t], ScanAborts(t, i)
  PROVE  RInv'
<1> DEFINE job == Past(jobs[t][i])
<1>0. PICK m \in Node : m = jobs[t][i].next
  BY JobType DEF Fits, ScanAborts, At
<1>1. /\ Goes(t, i, job) /\ Holds(t, i, m)
      /\ UNCHANGED <<deps, main, cancelled, results, submitted, taken>>
      /\ errors' = [errors EXCEPT ![m] = "aborted"] /\ Count
  BY <1>0 DEF ScanAborts, At, poolRest, Holds
<1>2. JobsType /\ jobs[t][i] \in Job /\ main \notin {"validate", "invalid"}
  BY JobFacts
<1>3. job \in Job /\ job.at = "scan" /\ job.next = m + 1 /\ job.seen = jobs[t][i].seen
  BY <1>0, <1>2, PastFacts
<1> HIDE DEF job
<1>4. Moved(t, i, job)
  BY <1>1, <1>2, <1>3, MovedFacts
<1>5. errors'[m] = "aborted" /\ (\A n \in Node : n # m => errors'[n] = errors[n])
      /\ DoneTasks' = DoneTasks \cup {m} /\ Failed' = Failed \cup {m}
  BY <1>1 DEF DoneTasks, Failed, DInv, DagTypeOK
<1>6. TakenFor(m) /\ taken[m] \in Nat /\ taken[m] # 0 /\ m \in submitted
  BY <1>1 DEF RInv, Taken, TakenFor, DInv, DagTypeOK
<1>7. taken[m] <= 1 => Unhandled(m) /\ \A u \in Thread : \A k \in DOMAIN jobs[u] :
                                         Holds(u, k, m) => u = t /\ k = i
  BY <1>1, <1>6 DEF TakenFor
<1>8. Fresh'
  BY <1>1, <1>2, <1>4 DEF RInv, Fresh, Moved, Thread
<1>9. Recorded'
  BY <1>1, <1>3, <1>4, <1>5 DEF RInv, Recorded, Moved, Thread, Holds
<1>10. \A u \in Thread : \A k \in DOMAIN jobs'[u] : \A n \in Node :
         Holds(u, k, n)' => k \in DOMAIN jobs[u] /\ Holds(u, k, n) /\ ~(u = t /\ k = i)
  BY <1>3, <1>4 DEF Moved, Holds
<1>11. Taken'
  <2>1. ASSUME NEW n \in Node, n # m
        PROVE  TakenFor(n)'
    <3>1. Unhandled(n)' <=> Unhandled(n)
      BY <1>4, <1>5, <2>1 DEF Unhandled, Moved, Thread
    <3>2. DOMAIN jobs'[n] = DOMAIN jobs[n] /\ (jobs'[n] = <<>> <=> jobs[n] = <<>>)
          /\ errors'[n] = errors[n]
      BY <1>4, <1>5, <2>1 DEF Moved, Thread
    <3>3. TakenFor(n)
      BY DEF RInv, Taken
    <3> QED BY <1>1, <1>10, <3>1, <3>2, <3>3 DEF TakenFor
  <2>2. TakenFor(m)'
    <3>1. taken'[m] # 0 /\ m \in submitted'
      BY <1>1, <1>6
    <3>2. ASSUME taken'[m] <= 1
          PROVE  /\ DOMAIN jobs'[m] \subseteq {1} /\ jobs'[m] = <<>>
                 /\ \A u \in Thread : \A k \in DOMAIN jobs'[u] : ~Holds(u, k, m)'
      BY <1>1, <1>4, <1>6, <1>7, <1>10, <3>2 DEF Moved, Thread, Unhandled, TakenFor
    <3> QED BY <3>1, <3>2 DEF TakenFor
  <2> QED BY <2>1, <2>2 DEF Taken
<1>12. Dealt'
  <2>1. SUFFICES ASSUME NEW n \in submitted, n # m, main = "execute", jobs[n] = <<>>,
                        n \notin Failed
                 PROVE  \E u \in Thread : \E k \in DOMAIN jobs'[u] : Holds(u, k, n)'
    BY <1>1, <1>4, <1>5 DEF Dealt, Moved, DInv, DagTypeOK, Thread
  <2>2. PICK u \in Thread : \E k \in DOMAIN jobs[u] : Holds(u, k, n)
    BY <2>1 DEF RInv, Dealt
  <2>3. PICK k \in DOMAIN jobs[u] : Holds(u, k, n)
    BY <2>2
  <2>4. k \in DOMAIN jobs'[u] /\ Holds(u, k, n)'
    BY <1>1, <1>4, <2>1, <2>3 DEF Moved, Holds
  <2> QED BY <2>4
<1>13. Counts'
  <2>1. Counted' = Counted \cup {m}
    BY <1>1, <1>3, <1>4, <1>5 DEF Counted, Early, Moved, Thread, Holds
  <2>2. TakenOnce => m \notin Counted
    BY <1>7 DEF TakenOnce, Unhandled, Counted
  <2> QED BY <1>1, <2>1, <2>2, CountOneMore DEF RInv, DInv
<1>14. Promised'
  <2>1. SUFFICES ASSUME main = "execute", ~cancelled, ~allDone', NEW n \in Node, Ready(n)'
                 PROVE  \E u \in Thread : \E k \in DOMAIN jobs'[u] : Hope(jobs[u][k], n)'
    BY <1>1 DEF Promised
  <2>2. ~allDone /\ n # m /\ Ready(n)
    BY <1>1, <1>5, <1>6, <2>1 DEF Ready, Count, DInv, DagTypeOK
  <2>3. PICK u \in Thread : \E k \in DOMAIN jobs[u] : Hope(jobs[u][k], n)
    BY <2>1, <2>2 DEF RInv, Promised
  <2>4. PICK k \in DOMAIN jobs[u] : Hope(jobs[u][k], n)
    BY <2>3
  <2>5. CASE u = t /\ k = i
    <3>1. m <= n /\ deps[n] \subseteq jobs[t][i].seen
      BY <1>1, <2>4, <2>5 DEF Hope, Holds
    <3>2. m + 1 <= n
      BY <2>2, <3>1 DEF Node
    <3> QED BY <1>1, <1>3, <1>4, <2>5, <3>1, <3>2 DEF Moved, Hope
  <2>6. CASE ~(u = t /\ k = i)
    BY <1>1, <1>4, <2>4, <2>6 DEF Moved, Hope
  <2> QED BY <2>5, <2>6
<1> QED BY <1>8, <1>9, <1>11, <1>12, <1>13, <1>14 DEF RInv

\* The scan submits a task.
LEMMA ScanSubmitsRest ==
  ASSUME DInv, RInv, NEW t \in Thread, NEW i \in DOMAIN jobs[t], ScanSubmits(t, i)
  PROVE  RInv'
<1> DEFINE job == Past(jobs[t][i])
<1>0. PICK m \in Node : m = jobs[t][i].next
  BY JobType DEF Fits, ScanSubmits, At
<1>1. /\ Submits(t, i, job, m) /\ Holds(t, i, m) /\ main = "execute"
      /\ UNCHANGED <<deps, main, cancelled, results, errors, submitted, taken, finished, allDone>>
  <2>1. Submits(t, i, job, m)
    BY <1>0 DEF ScanSubmits, Submits
  <2> QED BY <1>0, <2>1 DEF ScanSubmits, At, poolRest, Holds
<1>2. JobsType /\ jobs[t][i] \in Job /\ main \notin {"validate", "invalid"}
  BY JobFacts
<1>3. job \in Job /\ job.at = "scan" /\ job.next = m + 1 /\ job.seen = jobs[t][i].seen
  BY <1>0, <1>2, PastFacts
<1> HIDE DEF job
<1>4. PICK new : /\ new = Len(jobs[m]) + 1
                 /\ Handed(t, i, job, m)
  BY <1>1, <1>2, <1>3, HandedFacts
<1>5. /\ \A u \in Thread : u # m => DOMAIN jobs'[u] = DOMAIN jobs[u]
      /\ DOMAIN jobs'[m] = DOMAIN jobs[m] \cup {new} /\ new \notin DOMAIN jobs[m]
      /\ \A u \in Thread : jobs'[u] = <<>> <=> u # m /\ jobs[u] = <<>>
      /\ jobs'[t][i] = job
      /\ jobs'[m][new] = NewJob
      /\ jobs[m] = <<>> => new = 1
      /\ \A u \in Thread : \A k \in DOMAIN jobs[u] :
           (u = t /\ k = i) \/ jobs'[u][k] = jobs[u][k]
  BY <1>4, Zenon DEF Handed
<1>6. NewJob.at = "queued" /\ m \in Thread /\ Main \notin Node
  BY DEF NewJob, Thread, Main, Node
<1>7. TakenFor(m) /\ taken[m] \in Nat /\ taken[m] # 0 /\ m \in submitted
  BY <1>1 DEF RInv, Taken, TakenFor, DInv, DagTypeOK
<1>8. taken[m] <= 1 => Unhandled(m) /\ \A u \in Thread : \A k \in DOMAIN jobs[u] :
                                         Holds(u, k, m) => u = t /\ k = i
  BY <1>1, <1>7 DEF TakenFor
<1>9. DoneTasks' = DoneTasks /\ Failed' = Failed
  BY <1>1 DEF DoneTasks, Failed
<1>10. \A u \in Thread : \A k \in DOMAIN jobs'[u] :
         \/ u = m /\ k = new
         \/ u = t /\ k = i
         \/ k \in DOMAIN jobs[u] /\ jobs'[u][k] = jobs[u][k]
  BY <1>5
<1>11. \A u \in Thread : DOMAIN jobs[u] \subseteq DOMAIN jobs'[u]
  BY <1>5
<1>12. Fresh'
  BY <1>1, <1>2, <1>5, <1>6 DEF RInv, Fresh, Thread
<1>13. Recorded'
  <2>1. ASSUME NEW n \in Node, NEW k \in DOMAIN jobs'[n],
               jobs'[n][k].at \notin {"queued", "running", "dead"}
        PROVE  n \in DoneTasks
    <3>1. k \in DOMAIN jobs[n] /\ jobs[n][k].at \notin {"queued", "running", "dead"}
      BY <1>1, <1>3, <1>5, <1>6, <1>10, <2>1 DEF Thread, Holds
    <3> QED BY <3>1 DEF RInv, Recorded
  <2>2. \A n \in Node : n \in results \/ errors[n] = "failed" => jobs'[n] # <<>>
    BY <1>5 DEF RInv, Recorded, Thread
  <2> QED BY <1>1, <1>9, <2>1, <2>2 DEF Recorded
<1>14. \A u \in Thread : \A k \in DOMAIN jobs'[u] : \A n \in Node :
         Holds(u, k, n)' => k \in DOMAIN jobs[u] /\ Holds(u, k, n) /\ ~(u = t /\ k = i)
  BY <1>3, <1>5, <1>6, <1>10 DEF Holds
<1>15. Taken'
  <2>1. ASSUME NEW n \in Node, n # m
        PROVE  TakenFor(n)'
    <3>1. DOMAIN jobs'[n] = DOMAIN jobs[n] /\ (jobs'[n] = <<>> <=> jobs[n] = <<>>)
      BY <1>5, <2>1 DEF Thread
    <3>2. Unhandled(n)' <=> Unhandled(n)
      BY <1>1, <3>1 DEF Unhandled
    <3>3. TakenFor(n)
      BY DEF RInv, Taken
    <3> QED BY <1>1, <1>14, <3>1, <3>2, <3>3 DEF TakenFor
  <2>2. TakenFor(m)'
    <3>1. taken'[m] # 0 /\ m \in submitted'
      BY <1>1, <1>7
    <3>2. ASSUME taken'[m] <= 1
          PROVE  /\ DOMAIN jobs'[m] \subseteq {1} /\ errors'[m] # "aborted"
                 /\ \A u \in Thread : \A k \in DOMAIN jobs'[u] : ~Holds(u, k, m)'
      <4>1. Unhandled(m)
        BY <1>1, <1>8, <3>2
      <4>2. DOMAIN jobs[m] = {} /\ new = 1
        BY <1>5, <4>1 DEF Unhandled
      <4>3. \A u \in Thread : \A k \in DOMAIN jobs'[u] : ~Holds(u, k, m)'
        BY <1>1, <1>8, <1>14, <3>2
      <4> QED BY <1>1, <1>5, <4>1, <4>2, <4>3 DEF Unhandled
    <3> QED BY <3>1, <3>2 DEF TakenFor
  <2> QED BY <2>1, <2>2 DEF Taken
<1>16. Dealt'
  <2>1. SUFFICES ASSUME NEW n \in submitted, n # m, jobs[n] = <<>>, n \notin Failed
                 PROVE  \E u \in Thread : \E k \in DOMAIN jobs'[u] : Holds(u, k, n)'
    BY <1>1, <1>5, <1>9 DEF Dealt, DInv, DagTypeOK, Thread
  <2>2. PICK u \in Thread : \E k \in DOMAIN jobs[u] : Holds(u, k, n)
    BY <1>1, <2>1 DEF RInv, Dealt
  <2>3. PICK k \in DOMAIN jobs[u] : Holds(u, k, n)
    BY <2>2
  <2>4. k \in DOMAIN jobs'[u] /\ Holds(u, k, n)'
    BY <1>1, <1>5, <1>11, <2>1, <2>3 DEF Holds
  <2> QED BY <2>4
<1>17. Counts'
  <2>1. ASSUME NEW n \in Node
        PROVE  (\E k \in DOMAIN jobs'[n] : jobs'[n][k].at \notin Early)
               <=> (\E k \in DOMAIN jobs[n] : jobs[n][k].at \notin Early)
    BY <1>1, <1>3, <1>5, <1>6, <1>10, <1>11 DEF Thread, Holds, Early
  <2>2. Counted' = Counted
    BY <1>1, <2>1 DEF Counted
  <2> QED BY <1>1, <2>2 DEF RInv, Counts, TakenOnce
<1>18. Promised'
  <2>1. SUFFICES ASSUME ~cancelled, ~allDone, NEW n \in Node, Ready(n)
                 PROVE  \E u \in Thread : \E k \in DOMAIN jobs'[u] : Hope(jobs[u][k], n)'
    BY <1>1, <1>9 DEF Promised, Ready
  <2>2. PICK u \in Thread : \E k \in DOMAIN jobs[u] : Hope(jobs[u][k], n)
    BY <1>1, <2>1 DEF RInv, Promised
  <2>3. PICK k \in DOMAIN jobs[u] : Hope(jobs[u][k], n)
    BY <2>2
  <2>4. k \in DOMAIN jobs'[u]
    BY <1>11
  <2>5. CASE u = t /\ k = i
    <3>1. m <= n /\ deps[n] \subseteq jobs[t][i].seen /\ n # m
      BY <1>1, <1>7, <2>1, <2>3, <2>5 DEF Hope, Holds, Ready
    <3>2. m + 1 <= n
      BY <3>1 DEF Node
    <3> QED BY <1>1, <1>3, <1>5, <2>4, <2>5, <3>1, <3>2 DEF Hope
  <2>6. CASE ~(u = t /\ k = i)
    BY <1>1, <1>5, <2>3, <2>4, <2>6 DEF Hope
  <2> QED BY <2>5, <2>6
<1> QED BY <1>12, <1>13, <1>15, <1>16, <1>17, <1>18 DEF RInv

\* A task returns: its callback has yet to look at every other task.
LEMMA JobSucceedsRest ==
  ASSUME DInv, RInv, NEW t \in Node, NEW i \in DOMAIN jobs[t], JobSucceeds(t, i)
  PROVE  RInv'
<1> DEFINE job == [jobs[t][i] EXCEPT !.at = "counting"]
<1>1. /\ Goes(t, i, job) /\ jobs[t][i].at = "running" /\ results' = results \cup {t}
      /\ UNCHANGED <<deps, main, cancelled, errors, submitted, taken, finished, allDone>>
  BY DEF JobSucceeds, JobGoes, At, poolRest
<1>2. JobsType /\ jobs[t][i] \in Job /\ main \notin {"validate", "invalid"}
      /\ t \in Thread /\ jobs[t] # <<>>
  BY JobFacts DEF Thread
<1>3. job \in Job /\ job.at = "counting"
  BY <1>2, JobTurns DEF JobState
<1> HIDE DEF job
<1>4. Moved(t, i, job)
  BY <1>1, <1>2, <1>3, MovedFacts
<1>5. DoneTasks' = DoneTasks \cup {t} /\ Failed' = Failed
  BY <1>1 DEF DoneTasks, Failed
<1>6. Fresh'
  BY <1>1, <1>2, <1>4 DEF RInv, Fresh, Moved, Thread
<1>7. Recorded'
  BY <1>1, <1>2, <1>3, <1>4, <1>5 DEF RInv, Recorded, Moved, Thread
<1>8. \A u \in Thread : \A k \in DOMAIN jobs'[u] : \A n \in Node :
        Holds(u, k, n)' => k \in DOMAIN jobs[u] /\ Holds(u, k, n)
  BY <1>3, <1>4 DEF Moved, Holds
<1>9. Taken'
  BY <1>1, <1>4, <1>8 DEF RInv, Taken, TakenFor, Unhandled, Moved, Thread
<1>10. Dealt'
  <2>1. SUFFICES ASSUME NEW n \in submitted, main = "execute", jobs[n] = <<>>, n \notin Failed
                 PROVE  \E u \in Thread : \E k \in DOMAIN jobs'[u] : Holds(u, k, n)'
    BY <1>1, <1>4, <1>5 DEF Dealt, Moved, DInv, DagTypeOK, Thread
  <2>2. PICK u \in Thread : \E k \in DOMAIN jobs[u] : Holds(u, k, n)
    BY <2>1 DEF RInv, Dealt
  <2>3. PICK k \in DOMAIN jobs[u] : Holds(u, k, n)
    BY <2>2
  <2>4. k \in DOMAIN jobs'[u] /\ Holds(u, k, n)'
    BY <1>1, <1>4, <2>3 DEF Moved, Holds
  <2> QED BY <2>4
<1>11. Counts'
  <2>1. Counted' = Counted
    BY <1>1, <1>3, <1>4 DEF Counted, Early, Moved, Thread
  <2> QED BY <1>1, <2>1 DEF RInv, Counts, TakenOnce
<1>12. Promised'
  <2>1. \A n \in Node : Hope(jobs[t][i], n)' /\ i \in DOMAIN jobs'[t]
    BY <1>2, <1>3, <1>4 DEF Moved, Hope
  <2> QED BY <1>2, <2>1 DEF Promised
<1> QED BY <1>6, <1>7, <1>9, <1>10, <1>11, <1>12 DEF RInv

\* A task raises, possibly after another scan has aborted it.
LEMMA JobFailsRest ==
  ASSUME DInv, RInv, NEW t \in Node, NEW i \in DOMAIN jobs[t], JobFails(t, i)
  PROVE  RInv'
<1> DEFINE job == [jobs[t][i] EXCEPT !.at = "counting"]
<1>1. /\ Goes(t, i, job) /\ jobs[t][i].at \in {"queued", "running"}
      /\ errors' = [errors EXCEPT ![t] = "failed"]
      /\ UNCHANGED <<deps, main, cancelled, results, submitted, taken, finished, allDone>>
  BY DEF JobFails, JobGoes, At
<1>2. JobsType /\ jobs[t][i] \in Job /\ main \notin {"validate", "invalid"}
      /\ t \in Thread /\ jobs[t] # <<>>
  BY JobFacts DEF Thread
<1>3. job \in Job /\ job.at = "counting"
  BY <1>2, JobTurns DEF JobState
<1> HIDE DEF job
<1>4. Moved(t, i, job)
  BY <1>1, <1>2, <1>3, MovedFacts
<1>5. errors'[t] = "failed" /\ (\A n \in Node : n # t => errors'[n] = errors[n])
      /\ DoneTasks' = DoneTasks \cup {t} /\ Failed' = Failed \cup {t}
  BY <1>1 DEF DoneTasks, Failed, DInv, DagTypeOK
<1>6. Fresh'
  BY <1>1, <1>2, <1>4 DEF RInv, Fresh, Moved, Thread
<1>7. Recorded'
  BY <1>1, <1>2, <1>3, <1>4, <1>5 DEF RInv, Recorded, Moved, Thread
<1>8. \A u \in Thread : \A k \in DOMAIN jobs'[u] : \A n \in Node :
        Holds(u, k, n)' => k \in DOMAIN jobs[u] /\ Holds(u, k, n)
  BY <1>3, <1>4 DEF Moved, Holds
<1>9. Taken'
  <2>1. ASSUME NEW n \in Node
        PROVE  TakenFor(n)'
    <3>1. TakenFor(n)
      BY DEF RInv, Taken
    <3>2. DOMAIN jobs'[n] = DOMAIN jobs[n] /\ (jobs'[n] = <<>> <=> jobs[n] = <<>>)
      BY <1>4 DEF Moved, Thread
    <3>3. Unhandled(n)' <=> Unhandled(n)
      BY <1>2, <1>5, <3>2 DEF Unhandled
    <3>4. jobs[n] # <<>> /\ errors[n] # "aborted" => errors'[n] # "aborted"
      BY <1>5
    <3> QED BY <1>1, <1>8, <3>1, <3>2, <3>3, <3>4 DEF TakenFor
  <2> QED BY <2>1 DEF Taken
<1>10. Dealt'
  <2>1. SUFFICES ASSUME NEW n \in submitted, main = "execute", jobs[n] = <<>>, n \notin Failed
                 PROVE  \E u \in Thread : \E k \in DOMAIN jobs'[u] : Holds(u, k, n)'
    BY <1>1, <1>4, <1>5 DEF Dealt, Moved, DInv, DagTypeOK, Thread
  <2>2. PICK u \in Thread : \E k \in DOMAIN jobs[u] : Holds(u, k, n)
    BY <2>1 DEF RInv, Dealt
  <2>3. PICK k \in DOMAIN jobs[u] : Holds(u, k, n)
    BY <2>2
  <2>4. k \in DOMAIN jobs'[u] /\ Holds(u, k, n)'
    BY <1>1, <1>4, <2>3 DEF Moved, Holds
  <2> QED BY <2>4
<1>11. Counts'
  <2>1. \A n \in Node : \A k \in DOMAIN jobs'[n] :
          /\ k \in DOMAIN jobs[n]
          /\ jobs'[n][k].at \in Early
               <=> jobs[n][k].at \in Early
    BY <1>1, <1>3, <1>4 DEF Moved, Thread, Early
  <2>2. Counted' \subseteq Counted
    BY <1>5, <2>1 DEF Counted
  <2>3. errors[t] # "aborted" => Counted \subseteq Counted'
    BY <1>4, <1>5, <2>1 DEF Counted, Early, Moved, Thread
  <2>4. Cardinality(Counted') <= Cardinality(Counted)
    BY <2>2, CountedFinite, FS_Subset
  <2>5. TakenOnce => errors[t] # "aborted"
    BY <1>2 DEF RInv, Taken, TakenFor, TakenOnce
  <2>6. Cardinality(Counted) \in Nat /\ Cardinality(Counted') \in Nat /\ finished \in Nat
    <3>1. IsFiniteSet(Counted')
      BY <2>2, CountedFinite, FS_Subset
    <3> QED BY <3>1, CountedFinite, FS_CardinalityType DEF DInv, DagTypeOK
  <2>7. Cardinality(Counted') <= finished
    BY <2>4, <2>6 DEF RInv, Counts
  <2>8. TakenOnce => finished = Cardinality(Counted')
    <3>1. TakenOnce => Counted' = Counted
      BY <2>2, <2>3, <2>5
    <3> QED BY <3>1 DEF RInv, Counts
  <2> QED BY <1>1, <2>7, <2>8 DEF RInv, Counts, TakenOnce
<1>12. Promised'
  <2>1. \A n \in Node : Hope(jobs[t][i], n)' /\ i \in DOMAIN jobs'[t]
    BY <1>2, <1>3, <1>4 DEF Moved, Hope
  <2> QED BY <1>2, <2>1 DEF Promised
<1> QED BY <1>6, <1>7, <1>9, <1>10, <1>11, <1>12 DEF RInv

\* The callback counts its task.
LEMMA CountJobRest ==
  ASSUME DInv, RInv, NEW t \in Node, NEW i \in DOMAIN jobs[t], CountJob(t, i)
  PROVE  RInv'
<1>1. /\ jobs[t][i].at = "counting" /\ Count
      /\ UNCHANGED <<deps, main, cancelled, results, errors, submitted, taken>>
  BY DEF CountJob, At, poolRest
<1>2. JobsType /\ jobs[t][i] \in Job /\ main \notin {"validate", "invalid"}
      /\ t \in Thread /\ jobs[t] # <<>>
  BY JobFacts DEF Thread
<1>3. PICK job \in Job : /\ Goes(t, i, job) /\ job.at \in {"counted", "gone"}
                         /\ job.at = "gone" => finished' >= NumNodes
  <2>1. Gone \in Job /\ Gone.at = "gone"
    BY DEF Gone, Job, JobState
  <2>2. [jobs[t][i] EXCEPT !.at = "counted"] \in Job
        /\ [jobs[t][i] EXCEPT !.at = "counted"].at = "counted"
    BY <1>2, JobTurns DEF JobState
  <2> QED BY <2>1, <2>2 DEF CountJob, JobGoes
<1>4. Moved(t, i, job)
  BY <1>2, <1>3, MovedFacts
<1>5. DoneTasks' = DoneTasks /\ Failed' = Failed
  BY <1>1 DEF DoneTasks, Failed
<1>6. Fresh'
  BY <1>1, <1>2, <1>4 DEF RInv, Fresh, Moved, Thread
<1>7. Recorded'
  BY <1>1, <1>2, <1>3, <1>4, <1>5 DEF RInv, Recorded, Moved, Thread
<1>8. \A u \in Thread : \A k \in DOMAIN jobs'[u] : \A n \in Node :
        Holds(u, k, n)' => k \in DOMAIN jobs[u] /\ Holds(u, k, n)
  BY <1>3, <1>4 DEF Moved, Holds
<1>9. Taken'
  BY <1>1, <1>4, <1>8 DEF RInv, Taken, TakenFor, Unhandled, Moved, Thread
<1>10. Dealt'
  <2>1. SUFFICES ASSUME NEW n \in submitted, main = "execute", jobs[n] = <<>>, n \notin Failed
                 PROVE  \E u \in Thread : \E k \in DOMAIN jobs'[u] : Holds(u, k, n)'
    BY <1>1, <1>4, <1>5 DEF Dealt, Moved, DInv, DagTypeOK, Thread
  <2>2. PICK u \in Thread : \E k \in DOMAIN jobs[u] : Holds(u, k, n)
    BY <2>1 DEF RInv, Dealt
  <2>3. PICK k \in DOMAIN jobs[u] : Holds(u, k, n)
    BY <2>2
  <2>4. k \in DOMAIN jobs'[u] /\ Holds(u, k, n)'
    BY <1>1, <1>4, <2>3 DEF Moved, Holds
  <2> QED BY <2>4
<1>11. Counts'
  <2>1. Counted' = Counted \cup {t}
    BY <1>1, <1>3, <1>4 DEF Counted, Early, Moved, Thread
  <2>2. TakenOnce => t \notin Counted
    <3>1. ASSUME TakenOnce
          PROVE  DOMAIN jobs[t] \subseteq {1} /\ errors[t] # "aborted"
      BY <1>2, <3>1 DEF RInv, Taken, TakenFor, TakenOnce
    <3> QED BY <1>1, <3>1 DEF Counted, Early
  <2> QED BY <1>1, <2>1, <2>2, CountOneMore DEF RInv, DInv
<1>12. Promised'
  <2>2. CASE job.at = "gone"
    BY <1>1, <1>3, <2>2 DEF Promised, Count
  <2>3. CASE job.at = "counted"
    <3>1. \A n \in Node : Hope(jobs[t][i], n)' /\ i \in DOMAIN jobs'[t]
      BY <1>2, <2>3, <1>4 DEF Moved, Hope
    <3> QED BY <1>2, <3>1 DEF Promised
  <2> QED BY <1>3, <2>2, <2>3
<1> QED BY <1>6, <1>7, <1>9, <1>10, <1>11, <1>12 DEF RInv

\* The steps of a job that only move it.
LEMMA QuietStepRest ==
  ASSUME DInv, RInv, NEW t \in Thread, NEW i \in DOMAIN jobs[t],
         \/ ScanFinds(t, i) \/ ScanEnds(t, i) \/ SubmitRefused(t, i)
         \/ t \in Node /\ (JobStarts(t, i) \/ JobDies(t, i) \/ ScanAgain(t, i))
  PROVE  RInv'
<1>1. jobs[t][i] \in Job
  BY JobFacts
<1>2. Gone \in Job /\ Gone.at = "gone"
  BY DEF Gone, Job, JobState
<1>3. UNCHANGED <<deps, main, results, errors, submitted, taken, finished, allDone, cancelled>>
  BY DEF ScanFinds, ScanEnds, SubmitRefused, JobStarts, JobDies, ScanAgain, poolRest
<1>4. CASE ScanFinds(t, i)
  <2>1. PICK m \in Candidates(jobs[t][i]) :
          /\ \A k \in Candidates(jobs[t][i]) : m <= k
          /\ Goes(t, i, [jobs[t][i] EXCEPT !.at = "add", !.next = m])
    BY <1>4 DEF ScanFinds
  <2> DEFINE job == [jobs[t][i] EXCEPT !.at = "add", !.next = m]
  <2>2. m \in Nat /\ "add" \in JobState
    BY DEF Candidates, Node, JobState
  <2>3. job \in Job /\ job.at = "add" /\ job.next = m /\ job.seen = jobs[t][i].seen
    BY <1>1, <2>2 DEF Job
  <2>4. jobs[t][i].at = "scan"
    BY <1>4 DEF ScanFinds, At
  <2>5. Goes(t, i, job)
    BY <2>1
  <2> HIDE DEF job
  <2>6. ASSUME NEW n \in Node, Ready(n), Hope(jobs[t][i], n)
        PROVE  Hope(job, n)
    <3>1. n \in Candidates(jobs[t][i])
      BY <2>4, <2>6 DEF Candidates, Ready, Hope
    <3> QED BY <2>1, <2>3, <2>4, <2>6, <3>1 DEF Hope
  <2> QED BY <1>3, <2>3, <2>4, <2>5, <2>6, QuietKeeps DEF Early, Holds
<1>5. CASE ScanEnds(t, i)
  <2>1. Goes(t, i, Gone) /\ jobs[t][i].at = "scan" /\ Candidates(jobs[t][i]) = {}
    BY <1>5 DEF ScanEnds, At
  <2>2. \A n \in Node : ~(Ready(n) /\ Hope(jobs[t][i], n))
    BY <2>1 DEF Candidates, Ready, Hope
  <2> QED BY <1>2, <1>3, <2>1, <2>2, QuietKeeps DEF Early, Holds
<1>6. CASE SubmitRefused(t, i)
  <2>1. Goes(t, i, Gone) /\ jobs[t][i].at = "submit" /\ main # "execute"
    BY <1>6 DEF SubmitRefused, At
  <2> QED BY <1>2, <1>3, <2>1, QuietKeeps DEF Early
<1>7. CASE t \in Node /\ JobStarts(t, i)
  <2> DEFINE job == [jobs[t][i] EXCEPT !.at = "running"]
  <2>1. Goes(t, i, job) /\ jobs[t][i].at = "queued"
    BY <1>7 DEF JobStarts, JobGoes, At
  <2>2. job \in Job /\ job.at = "running"
    BY <1>1, JobTurns DEF JobState
  <2> HIDE DEF job
  <2>3. \A n \in Node : ~Hope(jobs[t][i], n)
    BY <2>1 DEF Hope
  <2> QED BY <1>3, <2>1, <2>2, <2>3, QuietKeeps DEF Early, Holds
<1>8. CASE t \in Node /\ ScanAgain(t, i)
  <2> DEFINE new == NewScan(results \cup Failed)
  <2>1. new \in Job /\ new.at = "scan" /\ new.next = 1 /\ new.seen = DoneTasks
    BY DEF NewScan, Job, JobState, DoneTasks, Failed, DInv, DagTypeOK
  <2>2. jobs[t][i].at = "counted" /\ Goes(t, i, IF cancelled THEN Gone ELSE new)
    BY <1>8 DEF ScanAgain, At
  <2> HIDE DEF new
  <2>3. CASE cancelled
    BY <1>2, <1>3, <2>2, <2>3, QuietKeeps DEF Early, Holds
  <2>4. CASE ~cancelled
    <3>1. \A n \in Node : Ready(n) => Hope(new, n)
      BY <2>1 DEF Ready, Hope, Node
    <3> QED BY <1>3, <2>1, <2>2, <2>4, <3>1, QuietKeeps DEF Early, Holds
  <2> QED BY <2>3, <2>4
<1>9. CASE t \in Node /\ JobDies(t, i)
  <2> DEFINE job == [jobs[t][i] EXCEPT !.at = "dead"]
  <2>1. Goes(t, i, job) /\ jobs[t][i].at = "running"
    BY <1>9 DEF JobDies, JobGoes, At
  <2>2. job \in Job /\ job.at = "dead"
    BY <1>1, JobTurns DEF JobState
  <2> HIDE DEF job
  <2>3. \A n \in Node : ~Hope(jobs[t][i], n)
    BY <2>1 DEF Hope
  <2> QED BY <1>3, <2>1, <2>2, <2>3, QuietKeeps DEF Early, Holds
<1> QED BY <1>4, <1>5, <1>6, <1>7, <1>8, <1>9

-----------------------------------------------------------------------------
\* The validation has no effect on the pool until it opens it.
LEMMA SearchRest ==
  ASSUME DInv, RInv, Search
  PROVE  RInv'
<1>1. main = "validate"
  BY DEF Search, SelfReference, FoundCycle, Leave, Validated, SearchFrom, Visit, InSearch
<1>2. \A u \in Thread : jobs[u] = <<>>
  BY <1>1 DEF DInv, NoJobsYet
<1>3. results = {} /\ submitted = {} /\ (\A n \in Node : errors[n] = "none")
      /\ DoneTasks = {} /\ Failed = {}
  BY <1>1 DEF RInv, Fresh, DoneTasks, Failed
<1>4. CASE Validated
  <2>1. /\ jobs' = [jobs EXCEPT ![Main] = <<NewScan({})>>] /\ main' = "execute"
        /\ UNCHANGED <<deps, results, errors, submitted, taken, finished, allDone, cancelled>>
    BY <1>4 DEF Validated
  <2>2. Main \in Thread /\ Main \notin Node /\ jobs \in [Thread -> Seq(Job)]
    BY DEF Main, Thread, Node, DInv, DagTypeOK
  <2>3. jobs'[Main] = <<NewScan({})>> /\ \A n \in Node : jobs'[n] = <<>>
    BY <1>2, <2>1, <2>2 DEF Thread
  <2>4. DOMAIN jobs'[Main] = {1} /\ jobs'[Main][1] = NewScan({})
        /\ (\A n \in Node : DOMAIN jobs'[n] = {}) /\ (\A n \in Node : DOMAIN jobs[n] = {})
    BY <1>2, <2>3 DEF Thread
  <2>5. NewScan({}).at = "scan" /\ NewScan({}).next = 1 /\ NewScan({}).seen = {}
    BY DEF NewScan
  <2>6. \A u \in Thread : \A k \in DOMAIN jobs'[u] : \A n \in Node : ~Holds(u, k, n)'
    BY <2>4, <2>5 DEF Holds, Thread
  <2>7. Fresh' /\ Recorded'
    BY <1>3, <2>1, <2>3, <2>4 DEF Fresh, Recorded
  <2>8. Taken'
    BY <1>3, <2>1, <2>3, <2>4, <2>6 DEF RInv, Taken, TakenFor, Unhandled
  <2>9. Dealt'
    BY <1>3, <2>1 DEF Dealt
  <2>10. Counted' = Counted
    BY <1>3, <2>1, <2>4 DEF Counted
  <2>11. Counts'
    BY <2>1, <2>10 DEF RInv, Counts, TakenOnce
  <2>12. ASSUME NEW n \in Node, Ready(n)'
         PROVE  Hope(jobs[Main][1], n)'
    <3>1. deps'[n] = {}
      BY <1>3, <2>1, <2>12 DEF Ready, DoneTasks, Failed
    <3> QED BY <2>1, <2>4, <2>5, <3>1 DEF Hope, Node
  <2>13. Promised'
    BY <2>2, <2>4, <2>12 DEF Promised
  <2> QED BY <2>7, <2>8, <2>9, <2>11, <2>13 DEF RInv
<1>5. CASE ~Validated
  <2>1. main' \in {"validate", "invalid"}
        /\ UNCHANGED <<deps, results, errors, submitted, taken, finished, allDone, jobs, cancelled>>
    BY <1>1, <1>5 DEF Search, SelfReference, FoundCycle, Leave, SearchFrom, Visit, Invalid,
                      poolVars
  <2>2. Fresh' /\ Recorded' /\ Dealt' /\ Promised'
    BY <1>3, <2>1 DEF RInv, Fresh, Recorded, DoneTasks, Failed, Dealt, Promised
  <2>3. Taken'
    BY <2>1 DEF RInv, Taken, TakenFor, Unhandled, Holds
  <2>4. Counted' = Counted
    BY <2>1 DEF Counted
  <2>5. Counts'
    BY <2>1, <2>4 DEF RInv, Counts, TakenOnce
  <2> QED BY <2>2, <2>3, <2>5 DEF RInv
<1> QED BY <1>4, <1>5

\* execute() only wakes when the event is set, and closes the pool.
LEMMA MainRest ==
  ASSUME DInv, RInv, MainStep \/ Cancel \/ UNCHANGED vars
  PROVE  RInv'
<1>1. UNCHANGED <<deps, results, errors, submitted, taken, finished, allDone, jobs>>
  BY DEF MainStep, MainWakes, MainReturns, Cancel, vars, poolVars
<1>2. \/ main' = main /\ (cancelled' = cancelled \/ cancelled')
      \/ main' \in {"shutdown", "returned", "raised"} /\ allDone
  BY DEF MainStep, MainWakes, MainReturns, Cancel, vars, RInv, Counts
<1>3. DoneTasks' = DoneTasks /\ Failed' = Failed /\ Counted' = Counted
  BY <1>1 DEF DoneTasks, Failed, Counted
<1>4. Fresh' /\ Recorded' /\ Dealt'
  BY <1>1, <1>2, <1>3 DEF RInv, Fresh, Recorded, Dealt, Holds
<1>5. Taken'
  BY <1>1 DEF RInv, Taken, TakenFor, Unhandled, Holds
<1>6. Counts'
  BY <1>1, <1>2, <1>3 DEF RInv, Counts, TakenOnce
<1>7. Promised'
  BY <1>1, <1>2, <1>3 DEF RInv, Promised, Ready, Hope
<1> QED BY <1>4, <1>5, <1>6, <1>7 DEF RInv

\* The invariant holds before the validation, ...
LEMMA InitRest == Init => RInv
<1> SUFFICES ASSUME Init PROVE RInv
  OBVIOUS
<1>1. /\ main = "validate" /\ results = {} /\ submitted = {} /\ finished = 0 /\ allDone = FALSE
      /\ \A n \in Node : errors[n] = "none" /\ taken[n] = 0
      /\ \A u \in Thread : jobs[u] = <<>> /\ DOMAIN jobs[u] = {}
  BY DEF Init, Thread
<1>2. Main \in Thread /\ Node \subseteq Thread
  BY DEF Thread
<1>3. Fresh /\ Recorded /\ Dealt /\ Promised
  BY <1>1, <1>2 DEF Fresh, Recorded, Dealt, Promised
<1>4. Taken
  BY <1>1, <1>2 DEF Taken, TakenFor, Unhandled
<1>5. Counted = {} /\ Cardinality({}) = 0
  BY <1>1, <1>2, FS_EmptySet DEF Counted, Early
<1>6. Counts
  BY <1>1, <1>5, DagAssumption DEF Counts
<1> QED BY <1>3, <1>4, <1>6 DEF RInv

\* ... and every step keeps it.
LEMMA NextRest == DInv /\ RInv /\ [Next]_vars => RInv'
<1> SUFFICES ASSUME DInv, RInv, [Next]_vars PROVE RInv'
  OBVIOUS
<1>1. CASE Search
  BY <1>1, SearchRest
<1>2. CASE \E n \in Node \cup {Main} : \E i \in DOMAIN jobs[n] : ScanStep(n, i)
  <2>1. PICK t \in Thread : \E i \in DOMAIN jobs[t] : ScanStep(t, i)
    BY <1>2 DEF Thread
  <2>2. PICK i \in DOMAIN jobs[t] : ScanStep(t, i)
    BY <2>1
  <2> QED BY <2>2, QuietStepRest, ScanAddsRest, ScanAbortsRest, ScanSubmitsRest DEF ScanStep
<1>3. CASE \E n \in Node : \E i \in DOMAIN jobs[n] : JobStep(n, i)
  <2>1. PICK t \in Node : \E i \in DOMAIN jobs[t] : JobStep(t, i)
    BY <1>3
  <2>2. PICK i \in DOMAIN jobs[t] : JobStep(t, i)
    BY <2>1
  <2>3. t \in Thread
    BY DEF Thread
  <2> QED BY <2>2, <2>3, QuietStepRest, JobSucceedsRest, JobFailsRest, CountJobRest DEF JobStep
<1>4. CASE MainStep \/ Cancel \/ UNCHANGED vars
  BY <1>4, MainRest
<1> QED BY <1>1, <1>2, <1>3, <1>4 DEF Next

\* Both invariants hold in every state of the executor.
THEOREM RestInvariant == Spec => [](DInv /\ RInv)
<1>1. Init => DInv /\ RInv
  BY InitDInv, InitRest
<1>2. (DInv /\ RInv) /\ [Next]_vars => (DInv /\ RInv)'
  BY NextDInv, NextRest
<1> QED BY <1>1, <1>2, PTL DEF Spec

\* What the counter promises: when it has reached the number of tasks and no task was
\* taken twice, every task is done.
LEMMA CountedAll ==
  ASSUME RInv, DagTypeOK, TakenOnce, allDone
  PROVE  DoneTasks = Node
<1>1. finished >= NumNodes /\ finished = Cardinality(Counted) /\ NumNodes \in Nat
  BY DagAssumption DEF RInv, Counts
<1>2. Counted \subseteq Node /\ IsFiniteSet(Node) /\ Cardinality(Node) = NumNodes
  BY CountedFinite DEF Counted
<1>3. Counted = Node
  <2>1. Cardinality(Counted) <= Cardinality(Node)
        /\ (Cardinality(Counted) = Cardinality(Node) => Counted = Node)
    BY <1>2, FS_Subset
  <2> QED BY <1>1, <1>2, <2>1, CountedFinite
<1>4. Counted \subseteq DoneTasks
  BY DEF Counted, Early, DoneTasks, Failed, RInv, Recorded
<1>5. DoneTasks \subseteq Node
  BY DEF DoneTasks, Failed, DagTypeOK
<1> QED BY <1>3, <1>4, <1>5

\* execute() has a result or an error of every task when it wakes, for every graph
\* and every interleaving of the scans in which no two of them took the same task.
THEOREM NothingLost == Spec => []NothingIsLost
<1>1. DInv /\ RInv => NothingIsLost
  BY CountedAll DEF DInv, RInv, Counts, NothingIsLost, DoneTasks
<1> QED BY <1>1, RestInvariant, PTL

\* At rest, either every task was counted and the event is set, or one of those that are
\* not done is ready (the graph has no cycle), and somebody had yet to look at it.
LEMMA NobodyLeftBehind ==
  ASSUME DInv, RInv
  PROVE  ExecuteNeverHangs
<1> SUFFICES ASSUME AtRest, ~cancelled, ~allDone,
                    \A n \in Node : \A d \in deps[n] : errors[d] # "aborted",
                    \A n \in Node : \A i \in DOMAIN jobs[n] : jobs[n][i].at # "dead"
             PROVE  FALSE
  BY DEF ExecuteNeverHangs
<1>1. main = "execute" /\ Acyclic
  BY DEF AtRest, DInv, ValidationIsRight
<1>2. \A t \in Thread : \A i \in DOMAIN jobs[t] : jobs[t][i].at = "gone"
  BY DEF AtRest, AllGone, At, Thread, RInv, Fresh
<1>3. CASE DoneTasks = Node
  <2>1. Counted = Node
    <3>1. ASSUME NEW n \in Node
          PROVE  n \in Counted
      <4>1. errors[n] = "aborted" \/ jobs[n] # <<>>
        BY <1>3, <3>1 DEF DoneTasks, Failed, RInv, Recorded, DInv, DagTypeOK
      <4>2. CASE jobs[n] # <<>>
        <5>1. 1 \in DOMAIN jobs[n]
          BY <4>2 DEF DInv, DagTypeOK
        <5> QED BY <1>2, <5>1 DEF Counted, Early, Thread
      <4> QED BY <4>1, <4>2 DEF Counted, Early
    <3> QED BY <3>1 DEF Counted
  <2>2. Cardinality(Counted) = NumNodes
    BY <2>1, CountedFinite
  <2> QED BY <2>2 DEF RInv, Counts
<1>4. CASE DoneTasks # Node
  <2>1. DoneTasks \subseteq Node
    BY DEF DoneTasks, Failed, DInv, DagTypeOK
  <2>2. PICK n \in Node \ DoneTasks : deps[n] \cap (Node \ DoneTasks) = {}
    BY <1>1, <1>4, <2>1 DEF Acyclic
  <2>3. deps[n] \subseteq DoneTasks
    BY <2>2 DEF DInv, DagTypeOK
  <2>4. n \notin submitted
    <3>1. jobs[n] = <<>>
      <4>1. SUFFICES ASSUME jobs[n] # <<>> PROVE FALSE
        OBVIOUS
      <4>2. 1 \in DOMAIN jobs[n]
        BY <2>2, <4>1 DEF DInv, DagTypeOK
      <4> QED BY <1>2, <2>2, <4>2 DEF RInv, Recorded, Thread
    <3> QED BY <1>1, <1>2, <2>2, <3>1 DEF RInv, Dealt, Holds, DoneTasks
  <2>5. Ready(n)
    BY <2>2, <2>3, <2>4 DEF Ready
  <2>6. PICK t \in Thread : \E i \in DOMAIN jobs[t] : Hope(jobs[t][i], n)
    BY <1>1, <2>2, <2>5 DEF RInv, Promised
  <2> QED BY <1>2, <2>6 DEF Hope
<1> QED BY <1>3, <1>4

\* When every thread has come to rest, the event is set: no interleaving of the scans
\* loses the last task that became ready, for every graph and every number of tasks.
THEOREM NeverHangs == Spec => []ExecuteNeverHangs
<1>1. DInv /\ RInv => ExecuteNeverHangs
  BY NobodyLeftBehind
<1> QED BY <1>1, RestInvariant, PTL
=============================================================================
