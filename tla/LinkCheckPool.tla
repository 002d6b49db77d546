---------------------------- MODULE LinkCheckPool ----------------------------
(***************************************************************************)
(* LinkCheckWorkerPool (internal/analyzer/linkchecker_pool.go): a bounded  *)
(* channel of jobs, a fixed set of worker goroutines, one goroutine per    *)
(* link under a per-job semaphore, a cache of single-link verdicts, the    *)
(* sync.Map of jobs clients look up, and the goroutine that collects old   *)
(* entries of it.                                                          *)
(*                                                                         *)
(* Two steps of a worker hold the job's lock (Locked): the fields they     *)
(* write are assigned when the lock is released, and a reader that does    *)
(* not take the lock may see any of them early; LinkCheckClients adds      *)
(* those readers.  A step of a link goroutine is one critical section or   *)
(* one call; wall-clock time appears as jobs growing old (Age), cache      *)
(* entries expiring (CacheDrop) and checks ending (CheckLink).             *)
(***************************************************************************)
EXTENDS Naturals, Sequences, FiniteSets

CONSTANTS
    Jobs,        \* ids that generateJobID can return, all distinct
    Links,       \* URLs a page can link to
    Workers,     \* the worker goroutines
    QueueSize,   \* capacity of the jobs channel
    SemCap,      \* capacity of the semaphore of a job (10 in the code)
    SharedCache, \* the link cache is Redis, which other instances read too
    NoJob,       \* what an idle worker serves
    NoResult,    \* a nil *LinkCheckResult
    QueueFull    \* the LinkError{Reason: "queue_full"} of a rejected job

ASSUME LinksAssumption == IsFiniteSet(Links) /\ QueueFull \notin Links
ASSUME CapacityAssumption == QueueSize \in Nat \ {0} /\ SemCap \in Nat \ {0}
ASSUME SharedCacheAssumption == SharedCache \in BOOLEAN
ASSUME WorkersAssumption == IsFiniteSet(Workers)
ASSUME NoJobAssumption == NoJob \notin Jobs

Statuses == {"absent", "pending", "in_progress", "completed", "failed"}

Results == [checked : Nat, accessible : Nat,
            inaccessible : SUBSET (Links \cup {QueueFull})]

ASSUME ResultAssumption == NoResult \notin Results

\* What is known about a link: nothing, it answered, it did not, or the
\* request was cut short because the context was cancelled.
Verdicts == {"none", "ok", "bad", "canceled"}

Steps == {"off", "idle", "taken", "starting", "dispatch", "finalizing",
          "storing", "exited"}

TaskSteps == {"none", "lookup", "check", "store", "report", "done"}

VARIABLES
    pool,          \* "idle" until Start, "running", "stopped" after Stop
    queue,         \* the jobs channel
    results,       \* keys of the sync.Map
    urls,          \* urls[j]: LinkCheckJob.URLs
    status,        \* status[j]: LinkCheckJob.Status
    result,        \* result[j]: LinkCheckJob.Result
    old,           \* jobs created more than maxAge ago
    step,          \* step[w]: where worker w is
    serving,       \* serving[w]: the job worker w has received
    task,          \* task[j][u]: where the goroutine checking u for j is
    verdict,       \* verdict[j][u]: the verdict that goroutine holds
    accessible,    \* accessible[j]: the counter of processJob
    inaccessible,  \* inaccessible[j]: the list of processJob
    cached,        \* cached[u]: the link cache
    cleaner,       \* the cleanup goroutine: "off", "on", "exited"
    sweep          \* jobs the running gcOldJobs has still to visit

jobVars == <<urls, status, result>>
workerVars == <<step, serving>>
taskVars == <<task, verdict, accessible, inaccessible, cached>>
gcVars == <<old, cleaner, sweep>>
vars == <<pool, queue, results, jobVars, workerVars, taskVars, gcVars>>

TypeOK ==
    /\ pool \in {"idle", "running", "stopped"}
    /\ queue \in Seq(Jobs)
    /\ results \in SUBSET Jobs
    /\ urls \in [Jobs -> SUBSET Links]
    /\ status \in [Jobs -> Statuses]
    /\ result \in [Jobs -> Results \cup {NoResult}]
    /\ old \in SUBSET Jobs
    /\ step \in [Workers -> Steps]
    /\ serving \in [Workers -> Jobs \cup {NoJob}]
    /\ task \in [Jobs -> [Links -> TaskSteps]]
    /\ verdict \in [Jobs -> [Links -> Verdicts]]
    /\ accessible \in [Jobs -> Nat]
    /\ inaccessible \in [Jobs -> SUBSET Links]
    /\ cached \in [Links -> Verdicts]
    /\ cleaner \in {"off", "on", "exited"}
    /\ sweep \in SUBSET Jobs

Init ==
    /\ pool = "idle"
    /\ queue = <<>>
    /\ results = {}
    /\ urls = [j \in Jobs |-> {}]
    /\ status = [j \in Jobs |-> "absent"]
    /\ result = [j \in Jobs |-> NoResult]
    /\ old = {}
    /\ step = [w \in Workers |-> "off"]
    /\ serving = [w \in Workers |-> NoJob]
    /\ task = [j \in Jobs |-> [u \in Links |-> "none"]]
    /\ verdict = [j \in Jobs |-> [u \in Links |-> "none"]]
    /\ accessible = [j \in Jobs |-> 0]
    /\ inaccessible = [j \in Jobs |-> {}]
    /\ cached = [u \in Links |-> "none"]
    /\ cleaner = "off"
    /\ sweep = {}
-----------------------------------------------------------------------------
\* Goroutines of job j that hold a slot of its semaphore.
InFlight(j) == {u \in urls[j] : task[j][u] \notin {"none", "done"}}

\* Variant: no wg.Wait(), the job ends with its last goroutine launched.
AllLaunched(j) == \A u \in urls[j] : task[j][u] # "none"

\* wg.Wait() of job j returns: every link was dispatched and is accounted for.
AllReported(j) == \A u \in urls[j] : task[j][u] = "done"

\* A worker holds the lock of job j.
Locked(j) == \E w \in Workers : /\ serving[w] = j
                                /\ step[w] \in {"starting", "finalizing"}

\* IsComplete, as the holder of the lock sees it.
Finished(j) == status[j] \in {"completed", "failed"}
-----------------------------------------------------------------------------
(* The life of the pool *)

Start ==
    /\ pool = "idle"
    /\ pool' = "running"
    /\ step' = [w \in Workers |-> "idle"]
    /\ cleaner' = "on"
    /\ UNCHANGED <<queue, results, jobVars, serving, taskVars, old, sweep>>

\* Stop cancels the context and closes stopCleanup; it waits for nobody.  A
\* server that runs with link checking disabled stops a pool never started.
Stop ==
    /\ pool \in {"idle", "running"}
    /\ pool' = "stopped"
    /\ UNCHANGED <<queue, results, jobVars, workerVars, taskVars, gcVars>>

Rejection == [checked |-> 0, accessible |-> 0, inaccessible |-> {QueueFull}]

\* Submit: the job is stored, then offered to the channel without blocking.
\* Until Submit returns nobody else knows the id, so its writes are one step.
Submit(j, us) ==
    /\ status[j] = "absent"
    /\ urls' = [urls EXCEPT ![j] = us]
    /\ results' = results \cup {j}
    /\ \/ /\ Len(queue) < QueueSize
          /\ queue' = Append(queue, j)
          /\ status' = [status EXCEPT ![j] = "pending"]
          /\ UNCHANGED result
       \/ /\ Len(queue) = QueueSize
          /\ status' = [status EXCEPT ![j] = "failed"]
          /\ result' = [result EXCEPT ![j] = Rejection]
          /\ UNCHANGED queue
    /\ UNCHANGED <<pool, workerVars, taskVars, gcVars>>
-----------------------------------------------------------------------------
(* A worker goroutine *)

\* worker: the select receives a job.  After Stop both cases of the select
\* are ready and Go picks either, so a stopped pool may still take a job.
Take(w) ==
    /\ step[w] = "idle"
    /\ queue # <<>>
    /\ serving' = [serving EXCEPT ![w] = Head(queue)]
    /\ queue' = Tail(queue)
    /\ step' = [step EXCEPT ![w] = "taken"]
    /\ UNCHANGED <<pool, results, jobVars, taskVars, gcVars>>

\* Variant: processJob gives up when the context is cancelled.
WorkerExitMidJob(w) ==
    /\ step[w] \in {"idle", "dispatch"}
    /\ pool = "stopped"
    /\ step' = [step EXCEPT ![w] = "exited"]
    /\ UNCHANGED <<pool, queue, results, jobVars, serving, taskVars, gcVars>>

\* worker: the select sees the cancelled context.
WorkerExit(w) ==
    /\ step[w] = "idle"
    /\ pool = "stopped"
    /\ step' = [step EXCEPT ![w] = "exited"]
    /\ UNCHANGED <<pool, queue, results, jobVars, serving, taskVars, gcVars>>

LockForStart(w) ==
    /\ step[w] = "taken"
    /\ step' = [step EXCEPT ![w] = "starting"]
    /\ UNCHANGED <<pool, queue, results, jobVars, serving, taskVars, gcVars>>

\* Variant: the result is allocated empty when the job starts.
MarkStartedWithResult(w) ==
    /\ step[w] = "starting"
    /\ status' = [status EXCEPT ![serving[w]] = "in_progress"]
    /\ result' = [result EXCEPT ![serving[w]] =
                    [checked |-> 0, accessible |-> 0, inaccessible |-> {}]]
    /\ step' = [step EXCEPT ![w] = "dispatch"]
    /\ UNCHANGED <<pool, queue, results, urls, serving, taskVars, gcVars>>

MarkStarted(w) ==
    /\ step[w] = "starting"
    /\ status' = [status EXCEPT ![serving[w]] = "in_progress"]
    /\ step' = [step EXCEPT ![w] = "dispatch"]
    /\ UNCHANGED <<pool, queue, results, urls, result, serving, taskVars, gcVars>>

\* Variant: a goroutine per link, no semaphore.
DispatchUnbounded(w, u) ==
    /\ step[w] = "dispatch"
    /\ u \in urls[serving[w]]
    /\ task[serving[w]][u] = "none"
    /\ task' = [task EXCEPT ![serving[w]][u] = "lookup"]
    /\ UNCHANGED <<pool, queue, results, jobVars, workerVars, verdict,
                   accessible, inaccessible, cached, gcVars>>

\* The loop over job.URLs: a slot of the semaphore, then a goroutine.  The
\* order of the loop matters to nobody, so any link not yet dispatched goes.
Dispatch(w, u) ==
    LET j == serving[w] IN
    /\ step[w] = "dispatch"
    /\ u \in urls[j]
    /\ task[j][u] = "none"
    /\ Cardinality(InFlight(j)) < SemCap
    /\ task' = [task EXCEPT ![j][u] = "lookup"]
    /\ UNCHANGED <<pool, queue, results, jobVars, workerVars, verdict,
                   accessible, inaccessible, cached, gcVars>>

LockForFinish(w) ==
    /\ step[w] = "dispatch"
    /\ AllReported(serving[w])
    /\ step' = [step EXCEPT ![w] = "finalizing"]
    /\ UNCHANGED <<pool, queue, results, jobVars, serving, taskVars, gcVars>>

\* Variant: the result counts only the links that answered as checked.
PublishChecked(w) ==
    LET j == serving[w] IN
    /\ step[w] = "finalizing"
    /\ status' = [status EXCEPT ![j] = "completed"]
    /\ result' = [result EXCEPT ![j] =
                    [checked |-> accessible[j],
                     accessible |-> accessible[j],
                     inaccessible |-> inaccessible[j]]]
    /\ step' = [step EXCEPT ![w] = "storing"]
    /\ UNCHANGED <<pool, queue, results, urls, serving, taskVars, gcVars>>

\* Variant: the lock is released before Result is assigned.
PublishStatusAlone(w) ==
    /\ step[w] = "finalizing"
    /\ status' = [status EXCEPT ![serving[w]] = "completed"]
    /\ step' = [step EXCEPT ![w] = "storing"]
    /\ UNCHANGED <<pool, queue, results, urls, result, serving, taskVars, gcVars>>

Publish(w) ==
    LET j == serving[w] IN
    /\ step[w] = "finalizing"
    /\ status' = [status EXCEPT ![j] = "completed"]
    /\ result' = [result EXCEPT ![j] =
                    [checked |-> Cardinality(urls[j]),
                     accessible |-> accessible[j],
                     inaccessible |-> inaccessible[j]]]
    /\ step' = [step EXCEPT ![w] = "storing"]
    /\ UNCHANGED <<pool, queue, results, urls, serving, taskVars, gcVars>>

\* Variant: the worker returns after its first job.
StoreJobAndReturn(w) ==
    /\ step[w] = "storing"
    /\ results' = results \cup {serving[w]}
    /\ step' = [step EXCEPT ![w] = "exited"]
    /\ serving' = [serving EXCEPT ![w] = NoJob]
    /\ UNCHANGED <<pool, queue, jobVars, taskVars, gcVars>>

\* Variant: a job with broken links is offered to the workers once more.
StoreJobAndRetry(w) ==
    LET j == serving[w] IN
    /\ step[w] = "storing"
    /\ results' = results \cup {j}
    /\ \/ inaccessible[j] = {} /\ UNCHANGED queue
       \/ Len(queue) < QueueSize /\ queue' = Append(queue, j)
    /\ step' = [step EXCEPT ![w] = "idle"]
    /\ serving' = [serving EXCEPT ![w] = NoJob]
    /\ UNCHANGED <<pool, jobVars, taskVars, gcVars>>

\* p.results.Store(job.ID, job), which also brings back a collected job.
StoreJob(w) ==
    /\ step[w] = "storing"
    /\ results' = results \cup {serving[w]}
    /\ step' = [step EXCEPT ![w] = "idle"]
    /\ serving' = [serving EXCEPT ![w] = NoJob]
    /\ UNCHANGED <<pool, queue, jobVars, taskVars, gcVars>>
-----------------------------------------------------------------------------
(* The goroutine that checks link u for job j: its lookup, its check and its *)
(* store run under one context, the pool's.                                  *)

\* Redis refuses a call whose context is cancelled; the cache in memory does
\* not look at the context.
CacheReachable == ~(SharedCache /\ pool = "stopped")

LookupHit(j, u) ==
    /\ task[j][u] = "lookup"
    /\ cached[u] # "none"
    /\ CacheReachable
    /\ verdict' = [verdict EXCEPT ![j][u] = cached[u]]
    /\ task' = [task EXCEPT ![j][u] = "report"]
    /\ UNCHANGED <<pool, queue, results, jobVars, workerVars, accessible,
                   inaccessible, cached, gcVars>>

\* Any error of the cache counts as a miss, so a stored entry may be missed.
LookupMiss(j, u) ==
    /\ task[j][u] = "lookup"
    /\ task' = [task EXCEPT ![j][u] = "check"]
    /\ UNCHANGED <<pool, queue, results, jobVars, workerVars, verdict,
                   accessible, inaccessible, cached, gcVars>>

\* checkLink runs under the pool's context alone: only Stop cancels it.
CheckLink(j, u, v) ==
    /\ task[j][u] = "check"
    /\ v = "canceled" => pool = "stopped"
    /\ verdict' = [verdict EXCEPT ![j][u] = v]
    /\ task' = [task EXCEPT ![j][u] = "store"]
    /\ UNCHANGED <<pool, queue, results, jobVars, workerVars, accessible,
                   inaccessible, cached, gcVars>>

\* Variant: the verdict is stored under a background context.
StoreVerdictInBackground(j, u) ==
    /\ task[j][u] = "store"
    /\ task' = [task EXCEPT ![j][u] = "report"]
    /\ cached' \in {cached, [cached EXCEPT ![u] = verdict[j][u]]}
    /\ UNCHANGED <<pool, queue, results, jobVars, workerVars, verdict,
                   accessible, inaccessible, gcVars>>

\* Any verdict is stored, also that of a check cut short; the error of
\* SetCachedLink is dropped.
StoreVerdict(j, u) ==
    /\ task[j][u] = "store"
    /\ task' = [task EXCEPT ![j][u] = "report"]
    /\ \/ cached' = cached
       \/ CacheReachable /\ cached' = [cached EXCEPT ![u] = verdict[j][u]]
    /\ UNCHANGED <<pool, queue, results, jobVars, workerVars, verdict,
                   accessible, inaccessible, gcVars>>

\* Variant: a broken link returns before wg.Done().
ReportAccessible(j, u) ==
    /\ task[j][u] = "report"
    /\ verdict[j][u] = "ok"
    /\ task' = [task EXCEPT ![j][u] = "done"]
    /\ accessible' = [accessible EXCEPT ![j] = @ + 1]
    /\ UNCHANGED <<pool, queue, results, jobVars, workerVars, verdict, cached,
                   inaccessible, gcVars>>

\* The update of the counters under mu, then the release of the slot.
Report(j, u) ==
    /\ task[j][u] = "report"
    /\ task' = [task EXCEPT ![j][u] = "done"]
    /\ \/ /\ verdict[j][u] = "ok"
          /\ accessible' = [accessible EXCEPT ![j] = @ + 1]
          /\ UNCHANGED inaccessible
       \/ /\ verdict[j][u] # "ok"
          /\ inaccessible' = [inaccessible EXCEPT ![j] = @ \cup {u}]
          /\ UNCHANGED accessible
    /\ UNCHANGED <<pool, queue, results, jobVars, workerVars, verdict, cached,
                   gcVars>>

\* A cached verdict expires or is evicted.
CacheDrop(u) ==
    /\ cached[u] # "none"
    /\ cached' = [cached EXCEPT ![u] = "none"]
    /\ UNCHANGED <<pool, queue, results, jobVars, workerVars, task, verdict,
                   accessible, inaccessible, gcVars>>
-----------------------------------------------------------------------------
(* The cleanup goroutine *)

\* maxAge has passed since job j was created, whatever it is doing.
Age(j) ==
    /\ status[j] # "absent"
    /\ j \notin old
    /\ old' = old \cup {j}
    /\ UNCHANGED <<pool, queue, results, jobVars, workerVars, taskVars,
                   cleaner, sweep>>

\* Variant: the sweep does not compare CreatedAt with the cutoff.
GcTickAll ==
    /\ cleaner = "on"
    /\ sweep = {}
    /\ results # {}
    /\ sweep' = results
    /\ UNCHANGED <<pool, queue, results, jobVars, workerVars, taskVars, old,
                   cleaner>>

\* The ticker fires and gcOldJobs fixes its cutoff (a tick that finds nothing
\* to delete is no step).  A tick may still win the select after Stop.
GcTick ==
    /\ cleaner = "on"
    /\ sweep = {}
    /\ results \cap old # {}
    /\ sweep' = old
    /\ UNCHANGED <<pool, queue, results, jobVars, workerVars, taskVars, old,
                   cleaner>>

\* Variant: the entry is judged by CompletedAt, which a rejected job has not.
GcVisitCompleted(j) ==
    /\ j \in sweep
    /\ sweep' = sweep \ {j}
    /\ results' = results \ {i \in {j} : status[i] = "completed"}
    /\ UNCHANGED <<pool, queue, jobVars, workerVars, taskVars, old, cleaner>>

\* The callback of results.Range: an entry is judged by its age alone.
GcVisit(j) ==
    /\ j \in sweep
    /\ sweep' = sweep \ {j}
    /\ results' = results \ {j}
    /\ UNCHANGED <<pool, queue, jobVars, workerVars, taskVars, old, cleaner>>

CleanupExit ==
    /\ cleaner = "on"
    /\ pool = "stopped"
    /\ sweep = {}
    /\ cleaner' = "exited"
    /\ UNCHANGED <<pool, queue, results, jobVars, workerVars, taskVars, old,
                   sweep>>
-----------------------------------------------------------------------------
WorkerStep(w) ==
    \/ Take(w) \/ WorkerExit(w) \/ LockForStart(w) \/ MarkStarted(w)
    \/ LockForFinish(w) \/ Publish(w) \/ StoreJob(w)
    \/ \E u \in Links : Dispatch(w, u)

LinkStep(j, u) ==
    \/ LookupHit(j, u) \/ LookupMiss(j, u)
    \/ \E v \in {"ok", "bad", "canceled"} : CheckLink(j, u, v)
    \/ StoreVerdict(j, u) \/ Report(j, u)

\* After Stop the process may end: no goroutine of the pool is left.
Terminated ==
    /\ pool = "stopped"
    /\ \A w \in Workers : step[w] \in {"off", "exited"}
    /\ cleaner \in {"off", "exited"}
    /\ UNCHANGED vars

\* Every step but the submission of a job, which a client takes.
PoolStep ==
    \/ Start \/ Stop
    \/ \E w \in Workers : WorkerStep(w)
    \/ \E j \in Jobs, u \in Links : LinkStep(j, u)
    \/ \E u \in Links : CacheDrop(u)
    \/ \E j \in Jobs : Age(j) \/ GcVisit(j)
    \/ GcTick \/ CleanupExit
    \/ Terminated

Next ==
    \/ PoolStep
    \/ \E j \in Jobs, us \in (SUBSET Links) \ {{}} : Submit(j, us)

Spec == Init /\ [][Next]_vars

\* Goroutines are scheduled; a check ends because the HTTP client has a
\* timeout; time passes and the ticker fires.  Start, Stop and Submit are
\* the environment's, and the cache owes nothing.
Fairness ==
    /\ \A w \in Workers : WF_vars(WorkerStep(w))
    /\ \A j \in Jobs, u \in Links : WF_vars(LinkStep(j, u))
    /\ \A j \in Jobs : WF_vars(Age(j)) /\ WF_vars(GcVisit(j))
    /\ WF_vars(GcTick) /\ WF_vars(CleanupExit)

FairSpec == Spec /\ Fairness
-----------------------------------------------------------------------------
(* Safety *)

\* A result published by processJob puts every link of its job on exactly
\* one side: the goroutines' counters, lists and the number of links agree,
\* and the links reported as broken are those with a verdict other than ok.
ResultAccountsForEveryLink ==
    \A j \in Jobs : status[j] = "completed" =>
        /\ result[j].checked = Cardinality(urls[j])
        /\ result[j].accessible + Cardinality(result[j].inaccessible)
              = result[j].checked
        /\ result[j].inaccessible = {u \in urls[j] : verdict[j][u] # "ok"}

\* Every unfinished job has somebody to finish it: it waits in the channel or
\* a worker is between receiving it and publishing its result.
NoJobOrphaned ==
    \A j \in Jobs :
        /\ status[j] = "pending" =>
              \/ \E i \in 1..Len(queue) : queue[i] = j
              \/ \E w \in Workers : serving[w] = j /\ step[w] \in {"taken", "starting"}
        /\ status[j] = "in_progress" =>
              \E w \in Workers : serving[w] = j /\ step[w] \in {"dispatch", "finalizing"}

\* A job is received by one worker only, and only once: nothing that a
\* worker serves is still queued, and no two workers serve one job.
ExclusiveService ==
    \A w \in Workers : serving[w] # NoJob =>
        /\ \A i \in 1..Len(queue) : queue[i] # serving[w]
        /\ \A v \in Workers \ {w} : serving[v] # serving[w]

\* The outgoing requests of the whole pool are bounded by workers times the
\* semaphore, whatever is submitted: the fixed pool bounds the resources.
RequestsBounded ==
    Cardinality({t \in Jobs \X Links : task[t[1]][t[2]] \notin {"none", "done"}})
        <= Cardinality(Workers) * SemCap

\* A job younger than maxAge is found by GetJob: neither a sweep that runs
\* while jobs are stored nor a second Store of a finished job loses it.
YoungJobsAreKept ==
    \A j \in Jobs : status[j] # "absent" /\ j \notin old => j \in results

\* A shared cache never tells other instances that a link is broken because
\* this one was stopped: Stop cuts checks short and their verdicts are stored
\* like any other, but the context that cuts the check also refuses its store.
StopIsKeptPrivate ==
    SharedCache => \A u \in Links : cached[u] # "canceled"

\* JobMaxAge is how long completed jobs are kept: nothing else is collected.
OnlyFinishedJobsCollected ==
    [][\A j \in results \ results' : Finished(j)]_vars

\* Seen through urls, status and result alone, the pool keeps the promises
\* of JobLifecycle: statuses only advance, a job starts once, a finished
\* job never changes again and its result is a partition of its links.
Lifecycle == INSTANCE JobLifecycle

ImplementsJobLifecycle == Lifecycle!Spec
-----------------------------------------------------------------------------
(* The inductive invariant behind the theorems of LinkCheck_proofs *)

\* A worker serves a job exactly between receiving it and storing it, and its
\* step fixes the status of that job.
ServiceInv ==
    \A w \in Workers :
        /\ pool = "idle" => step[w] = "off"
        /\ step[w] \in {"off", "idle", "exited"} <=> serving[w] = NoJob
        /\ step[w] \in {"taken", "starting"} => status[serving[w]] = "pending"
        /\ step[w] \in {"dispatch", "finalizing"} => status[serving[w]] = "in_progress"
        /\ step[w] = "storing" => status[serving[w]] = "completed"
        /\ step[w] = "finalizing" => AllReported(serving[w])

\* The channel holds distinct jobs, all of them pending.
QueueInv ==
    \A i \in 1..Len(queue) :
        /\ status[queue[i]] = "pending"
        /\ \A k \in 1..Len(queue) : queue[i] = queue[k] => i = k

\* The links of job j found to answer, so far.
Answered(j) == {u \in Links : task[j][u] = "done" /\ verdict[j][u] = "ok"}

\* Only links of a started job have goroutines, and the counters of a job
\* are those of the goroutines that have reported.
TaskInv ==
    \A j \in Jobs :
        /\ \A u \in Links : task[j][u] # "none" =>
              u \in urls[j] /\ status[j] \in {"in_progress", "completed"}
        /\ accessible[j] = Cardinality(Answered(j))
        /\ inaccessible[j] = {u \in Links : task[j][u] = "done" /\ verdict[j][u] # "ok"}

\* A job has no result before it ends, and ends with its counters.
ResultInv ==
    \A j \in Jobs :
        /\ status[j] \in {"absent", "pending", "in_progress"} => result[j] = NoResult
        /\ status[j] = "completed" =>
              /\ AllReported(j)
              /\ result[j] = [checked |-> Cardinality(urls[j]),
                              accessible |-> accessible[j],
                              inaccessible |-> inaccessible[j]]

IndInv ==
    /\ TypeOK /\ ServiceInv /\ QueueInv /\ ExclusiveService /\ NoJobOrphaned
    /\ TaskInv /\ ResultInv
-----------------------------------------------------------------------------
(* Liveness *)

\* A job accepted by a running pool is finished unless the pool is stopped.
PendingJobsSettle ==
    \A j \in Jobs : (pool = "running" /\ status[j] = "pending")
                       ~> (Finished(j) \/ pool = "stopped")

\* A job a worker has started completes, even if the pool is stopped then.
StartedJobsComplete ==
    \A j \in Jobs : (status[j] = "in_progress") ~> (status[j] = "completed")

\* After Stop every goroutine of the pool ends.
StoppedPoolDrains ==
    (pool = "stopped") ~> /\ \A w \in Workers : step[w] \in {"off", "exited"}
                          /\ cleaner \in {"off", "exited"}

\* The results map does not grow for ever: in a pool that keeps running,
\* every job is in the end collected for good, also one that processJob
\* stored again after it had been collected.
JobsAreForgotten ==
    <>[](pool = "running") => \A j \in Jobs : <>[](j \notin results)
=============================================================================
