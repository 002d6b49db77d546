-------------------------- MODULE LinkCheck_proofs --------------------------
(***************************************************************************)
(* Theorems about LinkCheckPool and LinkCheckClients for any number of     *)
(* jobs, links, workers and polls, any queue size and any semaphore.  Of   *)
(* the pool: the inductive invariant IndInv, the safety properties it      *)
(* implies, and the refinement of JobLifecycle.  Of its clients: what a    *)
(* synchronous request answers with, and what a page comes to display      *)
(* although HandleGetJob reads without the lock.  These rest on two facts  *)
(* about the pool: a finished job does not change, and once a worker has   *)
(* taken the lock to finish a job, the result that it is about to publish  *)
(* is fixed.                                                               *)
(***************************************************************************)
EXTENDS LinkCheckClients, FiniteSetTheorems, FunctionTheorems, TLAPS

\* Sets of links are finite, so their cardinalities are numbers.
LEMMA LinkSets ==
    ASSUME NEW S \in SUBSET Links
    PROVE  IsFiniteSet(S) /\ Cardinality(S) \in Nat
  BY LinksAssumption, FS_Subset, FS_CardinalityType

\* A worker past the select serves a job.
LEMMA ServedJob ==
    ASSUME IndInv, NEW w \in Workers, step[w] \notin {"off", "idle", "exited"}
    PROVE  serving[w] \in Jobs
  BY DEF IndInv, TypeOK, ServiceInv
-----------------------------------------------------------------------------
\* Every variable keeps its type.
LEMMA TypeStep == IndInv /\ [Next]_vars => TypeOK'
<1> SUFFICES ASSUME IndInv, [Next]_vars PROVE TypeOK'
  OBVIOUS
<1> USE DEF TypeOK
<1>0. TypeOK
  BY DEF IndInv
<1>1. CASE Start
  BY <1>0, <1>1 DEF Start, jobVars, taskVars, Steps
<1>2. CASE Stop
  BY <1>0, <1>2 DEF Stop, jobVars, workerVars, taskVars, gcVars
<1>3. ASSUME NEW j \in Jobs, NEW us \in (SUBSET Links) \ {{}}, Submit(j, us)
      PROVE  TypeOK'
  <2>1. Rejection \in Results
    BY DEF Rejection, Results
  <2>2. Append(queue, j) \in Seq(Jobs)
    BY <1>0
  <2>3. urls' \in [Jobs -> SUBSET Links] /\ results' \in SUBSET Jobs
    BY <1>0, <1>3 DEF Submit
  <2>4. CASE Len(queue) < QueueSize
    <3>1. queue' = Append(queue, j) /\ UNCHANGED result
          /\ status' = [status EXCEPT ![j] = "pending"]
      BY <1>0, <1>3, <2>4, CapacityAssumption DEF Submit
    <3> QED
      BY <1>0, <1>3, <2>2, <2>3, <3>1 DEF Submit, Statuses, workerVars, taskVars, gcVars
  <2>5. CASE ~(Len(queue) < QueueSize)
    <3>1. UNCHANGED queue /\ status' = [status EXCEPT ![j] = "failed"]
          /\ result' = [result EXCEPT ![j] = Rejection]
      BY <1>3, <2>5 DEF Submit
    <3> QED
      BY <1>0, <1>3, <2>1, <2>3, <3>1 DEF Submit, Statuses, workerVars, taskVars, gcVars
  <2> QED
    BY <2>4, <2>5
<1>4. ASSUME NEW w \in Workers, Take(w) PROVE TypeOK'
  <2>1. Head(queue) \in Jobs /\ Tail(queue) \in Seq(Jobs)
    BY <1>0, <1>4 DEF Take
  <2> QED
    BY <1>0, <1>4, <2>1 DEF Take, Steps, jobVars, taskVars, gcVars
<1>5. ASSUME NEW w \in Workers, WorkerExit(w) PROVE TypeOK'
  BY <1>0, <1>5 DEF WorkerExit, Steps, jobVars, taskVars, gcVars
<1>6. ASSUME NEW w \in Workers, LockForStart(w) PROVE TypeOK'
  BY <1>0, <1>6 DEF LockForStart, Steps, jobVars, taskVars, gcVars
<1>7. ASSUME NEW w \in Workers, MarkStarted(w) PROVE TypeOK'
  BY <1>0, <1>7 DEF MarkStarted, Steps, Statuses, taskVars, gcVars
<1>8. ASSUME NEW w \in Workers, LockForFinish(w) PROVE TypeOK'
  BY <1>0, <1>8 DEF LockForFinish, Steps, jobVars, taskVars, gcVars
<1>9. ASSUME NEW w \in Workers, Publish(w) PROVE TypeOK'
  <2>1. serving[w] \in Jobs
    BY <1>9, ServedJob DEF Publish
  <2>2. Cardinality(urls[serving[w]]) \in Nat
    BY <1>0, <2>1, LinkSets
  <2>3. [checked |-> Cardinality(urls[serving[w]]), accessible |-> accessible[serving[w]],
         inaccessible |-> inaccessible[serving[w]]] \in Results
    BY <1>0, <2>1, <2>2 DEF Results
  <2> QED
    BY <1>0, <1>9, <2>1, <2>3 DEF Publish, Steps, Statuses, taskVars, gcVars
<1>10. ASSUME NEW w \in Workers, StoreJob(w) PROVE TypeOK'
  <2>1. serving[w] \in Jobs
    BY <1>10, ServedJob DEF StoreJob
  <2> QED
    BY <1>0, <1>10, <2>1 DEF StoreJob, Steps, jobVars, taskVars, gcVars
<1>11. ASSUME NEW w \in Workers, NEW u \in Links, Dispatch(w, u) PROVE TypeOK'
  <2>1. serving[w] \in Jobs
    BY <1>11, ServedJob DEF Dispatch
  <2> QED
    BY <1>0, <1>11, <2>1 DEF Dispatch, TaskSteps, jobVars, workerVars, gcVars
<1>12. ASSUME NEW j \in Jobs, NEW u \in Links, LookupHit(j, u) PROVE TypeOK'
  BY <1>0, <1>12 DEF LookupHit, TaskSteps, jobVars, workerVars, gcVars
<1>13. ASSUME NEW j \in Jobs, NEW u \in Links, LookupMiss(j, u) PROVE TypeOK'
  BY <1>0, <1>13 DEF LookupMiss, TaskSteps, jobVars, workerVars, gcVars
<1>14. ASSUME NEW j \in Jobs, NEW u \in Links, NEW v \in {"ok", "bad", "canceled"},
              CheckLink(j, u, v)
       PROVE  TypeOK'
  BY <1>0, <1>14 DEF CheckLink, TaskSteps, Verdicts, jobVars, workerVars, gcVars
<1>15. ASSUME NEW j \in Jobs, NEW u \in Links, StoreVerdict(j, u) PROVE TypeOK'
  <2>1. cached' \in [Links -> Verdicts]
    <3>1. [cached EXCEPT ![u] = verdict[j][u]] \in [Links -> Verdicts]
      BY <1>0
    <3> QED
      BY <1>0, <1>15, <3>1 DEF StoreVerdict
  <2> QED
    BY <1>0, <1>15, <2>1 DEF StoreVerdict, TaskSteps, jobVars, workerVars, gcVars
<1>16. ASSUME NEW j \in Jobs, NEW u \in Links, Report(j, u) PROVE TypeOK'
  <2>1. task' \in [Jobs -> [Links -> TaskSteps]]
    BY <1>0, <1>16 DEF Report, TaskSteps
  <2>2. accessible' \in [Jobs -> Nat]
    <3>1. [accessible EXCEPT ![j] = @ + 1] \in [Jobs -> Nat]
      BY <1>0
    <3> QED
      BY <1>0, <1>16, <3>1 DEF Report
  <2>3. inaccessible' \in [Jobs -> SUBSET Links]
    <3>1. [inaccessible EXCEPT ![j] = @ \cup {u}] \in [Jobs -> SUBSET Links]
      BY <1>0
    <3> QED
      BY <1>0, <1>16, <3>1 DEF Report
  <2> QED
    BY <1>0, <1>16, <2>1, <2>2, <2>3 DEF Report, jobVars, workerVars, gcVars
<1>17. ASSUME NEW u \in Links, CacheDrop(u) PROVE TypeOK'
  BY <1>0, <1>17 DEF CacheDrop, Verdicts, jobVars, workerVars, gcVars
<1>18. ASSUME NEW j \in Jobs, Age(j) \/ GcVisit(j) PROVE TypeOK'
  BY <1>0, <1>18 DEF Age, GcVisit, jobVars, workerVars, taskVars
<1>19. CASE GcTick \/ CleanupExit
  BY <1>0, <1>19 DEF GcTick, CleanupExit, jobVars, workerVars, taskVars
<1>20. CASE UNCHANGED vars
  BY <1>0, <1>20 DEF vars, jobVars, workerVars, taskVars, gcVars
<1> QED
  BY <1>1, <1>2, <1>3, <1>4, <1>5, <1>6, <1>7, <1>8, <1>9, <1>10, <1>11, <1>12,
     <1>13, <1>14, <1>15, <1>16, <1>17, <1>18, <1>19, <1>20
     DEF Next, PoolStep, WorkerStep, LinkStep, Terminated
-----------------------------------------------------------------------------
\* The steps that touch no worker, no queue and no job: the lemmas below
\* dispose of them together.
Quiet == UNCHANGED <<pool, queue, jobVars, workerVars>>

LEMMA QuietSteps ==
    ASSUME \/ \E j \in Jobs, u \in Links : LinkStep(j, u)
           \/ \E u \in Links : CacheDrop(u)
           \/ \E j \in Jobs : Age(j) \/ GcVisit(j)
           \/ GcTick \/ CleanupExit
           \/ UNCHANGED vars
    PROVE  Quiet
  BY DEF LinkStep, LookupHit, LookupMiss, CheckLink, StoreVerdict, Report, CacheDrop,
         Age, GcVisit, GcTick, CleanupExit, Quiet, vars, jobVars, workerVars

LEMMA DispatchQuiet ==
    ASSUME NEW w \in Workers, NEW u \in Links, Dispatch(w, u)
    PROVE  Quiet
  BY DEF Dispatch, Quiet, jobVars, workerVars

\* A job whose links are all accounted for has no goroutine left to move.
LEMMA ReportedStays ==
    ASSUME IndInv, [Next]_vars, NEW j \in Jobs,
           status[j] \in {"in_progress", "completed"}, AllReported(j)
    PROVE  AllReported(j)'
<1> USE DEF AllReported, IndInv, TypeOK
<1>1. ASSUME NEW i \in Jobs, NEW u \in Links, LinkStep(i, u)
      PROVE  AllReported(j)'
  <2>1. \A x \in Links : task[j][x] \in {"none", "done"}
    BY DEF TaskInv
  <2>2. UNCHANGED urls
    BY <1>1, QuietSteps DEF Quiet, jobVars
  <2>3. task[i][u] \notin {"none", "done"}
    BY <1>1 DEF LinkStep, LookupHit, LookupMiss, CheckLink, StoreVerdict, Report
  <2>4. i # j
    BY <2>1, <2>3
  <2>5. task'[j] = task[j]
    BY <1>1, <2>4 DEF LinkStep, LookupHit, LookupMiss, CheckLink, StoreVerdict, Report
  <2> QED
    BY <2>2, <2>5
<1>2. ASSUME NEW w \in Workers, NEW u \in Links, Dispatch(w, u)
      PROVE  AllReported(j)'
  <2>1. serving[w] # j
    BY <1>2 DEF Dispatch
  <2> QED
    BY <1>2, <2>1 DEF Dispatch, jobVars
<1>3. ASSUME NEW i \in Jobs, NEW us \in (SUBSET Links) \ {{}}, Submit(i, us)
      PROVE  AllReported(j)'
  BY <1>3 DEF Submit, taskVars
<1>4. CASE UNCHANGED <<urls, task>>
  BY <1>4
<1> QED
  BY <1>1, <1>2, <1>3, <1>4
     DEF Next, PoolStep, WorkerStep, Terminated, vars, jobVars, taskVars, Start, Stop,
         Take, WorkerExit, LockForStart, MarkStarted, LockForFinish, Publish, StoreJob,
         CacheDrop, Age, GcVisit, GcTick, CleanupExit
-----------------------------------------------------------------------------
\* A worker enters the final critical section by taking the lock only.
LEMMA FinalizingSteps ==
    ASSUME TypeOK, [Next]_vars, NEW x \in Workers, step'[x] = "finalizing"
    PROVE  \/ step[x] = "finalizing" /\ serving'[x] = serving[x]
           \/ LockForFinish(x)
<1> USE DEF TypeOK
<1>1. CASE Start
  BY <1>1 DEF Start
<1>2. CASE Stop \/ (\E j \in Jobs, us \in (SUBSET Links) \ {{}} : Submit(j, us)) \/ Quiet
  BY <1>2 DEF Stop, Submit, Quiet, workerVars
<1>3. ASSUME NEW w \in Workers, LockForFinish(w)
      PROVE  (step[x] = "finalizing" /\ serving'[x] = serving[x]) \/ LockForFinish(x)
  BY <1>3 DEF LockForFinish
<1>4. ASSUME NEW w \in Workers,
             \/ Take(w) \/ WorkerExit(w) \/ LockForStart(w) \/ MarkStarted(w)
             \/ Publish(w) \/ StoreJob(w)
      PROVE  step[x] = "finalizing" /\ serving'[x] = serving[x]
  BY <1>4 DEF Take, WorkerExit, LockForStart, MarkStarted, Publish, StoreJob
<1> QED
  BY <1>1, <1>2, <1>3, <1>4, QuietSteps, DispatchQuiet
     DEF Next, PoolStep, WorkerStep, Terminated

\* A worker serves a job exactly while its step says so, and that job has the
\* status the step requires.
LEMMA ServiceStep == IndInv /\ [Next]_vars => ServiceInv'
<1> SUFFICES ASSUME IndInv, [Next]_vars, NEW x \in Workers
             PROVE  /\ pool' = "idle" => step'[x] = "off"
                    /\ step'[x] \in {"off", "idle", "exited"} <=> serving'[x] = NoJob
                    /\ step'[x] \in {"taken", "starting"} => status'[serving'[x]] = "pending"
                    /\ step'[x] \in {"dispatch", "finalizing"}
                          => status'[serving'[x]] = "in_progress"
                    /\ step'[x] = "storing" => status'[serving'[x]] = "completed"
                    /\ step'[x] = "finalizing" => AllReported(serving[x])'
  BY DEF ServiceInv
<1> DEFINE Goal == /\ pool' = "idle" => step'[x] = "off"
                   /\ step'[x] \in {"off", "idle", "exited"} <=> serving'[x] = NoJob
                   /\ step'[x] \in {"taken", "starting"} => status'[serving'[x]] = "pending"
                   /\ step'[x] \in {"dispatch", "finalizing"}
                         => status'[serving'[x]] = "in_progress"
                   /\ step'[x] = "storing" => status'[serving'[x]] = "completed"
<1>a. TypeOK /\ ServiceInv /\ ExclusiveService /\ QueueInv
  BY DEF IndInv
<1>b. step[x] \notin {"off", "idle", "exited"} => serving[x] \in Jobs
  BY ServedJob
<1>c. x \in Workers /\ step[x] \in Steps /\ serving[x] \in Jobs \cup {NoJob}
  BY <1>a DEF TypeOK
<1>1. ASSUME Start PROVE Goal
  BY <1>1, <1>a, <1>c DEF Start, ServiceInv, TypeOK, Steps
<1>2. ASSUME Stop PROVE Goal
  BY <1>2, <1>a DEF Stop, ServiceInv, jobVars, workerVars
<1>3. ASSUME NEW j \in Jobs, NEW us \in (SUBSET Links) \ {{}}, Submit(j, us)
      PROVE  Goal
  <2>1. UNCHANGED <<pool, step, serving>>
    BY <1>3 DEF Submit, workerVars
  <2>2. \A i \in Jobs : i # j => status'[i] = status[i]
    BY <1>3, <1>a DEF Submit, TypeOK
  <2>3. serving[x] # j
    BY <1>3, <1>a, <1>c, NoJobAssumption DEF Submit, ServiceInv, Steps
  <2> QED
    BY <1>a, <1>b, <2>1, <2>2, <2>3 DEF ServiceInv
<1>4. ASSUME NEW w \in Workers, Take(w) PROVE Goal
  <2>1. Head(queue) \in Jobs /\ status[Head(queue)] = "pending"
    BY <1>4, <1>a DEF Take, TypeOK, QueueInv
  <2>2. pool # "idle"
    BY <1>4, <1>a DEF Take, ServiceInv
  <2> QED
    BY <1>4, <1>a, <1>c, <2>1, <2>2, NoJobAssumption DEF Take, ServiceInv, TypeOK, jobVars
<1>5. ASSUME NEW w \in Workers,
             WorkerExit(w) \/ LockForStart(w) \/ LockForFinish(w) \/ StoreJob(w)
      PROVE  Goal
  <2>1. pool # "idle"
    BY <1>5, <1>a DEF WorkerExit, LockForStart, LockForFinish, StoreJob, ServiceInv
  <2> QED
    BY <1>5, <1>a, <1>c, <2>1
       DEF WorkerExit, LockForStart, LockForFinish, StoreJob, ServiceInv, TypeOK, jobVars
<1>6. ASSUME NEW w \in Workers, MarkStarted(w) \/ Publish(w) PROVE Goal
  <2>1. serving[w] \in Jobs /\ pool # "idle"
    BY <1>6, <1>a, ServedJob DEF MarkStarted, Publish, ServiceInv
  <2>2. x # w /\ serving[x] # NoJob => serving[x] # serving[w]
    BY <1>a, <2>1, NoJobAssumption DEF ExclusiveService
  <2>3. status'[serving[w]] = (IF step[w] = "starting" THEN "in_progress" ELSE "completed")
    BY <1>6, <1>a, <2>1 DEF MarkStarted, Publish, TypeOK
  <2>4. \A i \in Jobs : i # serving[w] => status'[i] = status[i]
    BY <1>6, <1>a DEF MarkStarted, Publish, TypeOK
  <2>5. UNCHANGED <<pool, serving>>
        /\ step' = [step EXCEPT ![w] = IF step[w] = "starting" THEN "dispatch" ELSE "storing"]
    BY <1>6 DEF MarkStarted, Publish
  <2>6. step[w] \in {"starting", "finalizing"}
    BY <1>6 DEF MarkStarted, Publish
  <2>7. CASE x = w
    BY <1>a, <2>1, <2>3, <2>5, <2>6, <2>7, NoJobAssumption DEF TypeOK, ServiceInv
  <2>8. CASE x # w
    <3>1. step'[x] = step[x]
      BY <1>a, <2>5, <2>8 DEF TypeOK
    <3> QED
      BY <1>a, <1>b, <2>2, <2>4, <2>5, <2>8, <3>1, NoJobAssumption DEF ServiceInv
  <2> QED
    BY <2>7, <2>8
<1>7. ASSUME Quiet PROVE Goal
  BY <1>7, <1>a DEF Quiet, jobVars, workerVars, ServiceInv
<1>8. Goal
  <2> HIDE DEF Goal
  <2> QED
    BY <1>1, <1>2, <1>3, <1>4, <1>5, <1>6, <1>7, QuietSteps, DispatchQuiet
       DEF Next, PoolStep, WorkerStep, Terminated
<1>9. step'[x] = "finalizing" => AllReported(serving[x])'
  <2> SUFFICES ASSUME step'[x] = "finalizing" PROVE AllReported(serving[x])'
    OBVIOUS
  <2>1. CASE step[x] = "finalizing" /\ serving'[x] = serving[x]
    <3>1. serving[x] \in Jobs /\ status[serving[x]] = "in_progress"
          /\ AllReported(serving[x])
      BY <1>a, <1>b, <2>1 DEF ServiceInv
    <3>2. \A j \in Jobs : status[j] = "in_progress" /\ AllReported(j) => AllReported(j)'
      BY ReportedStays
    <3> QED
      BY <2>1, <3>1, <3>2 DEF AllReported
  <2>2. CASE LockForFinish(x)
    BY <2>2 DEF LockForFinish, AllReported, jobVars, taskVars
  <2> QED
    BY <1>a, <2>1, <2>2, FinalizingSteps
<1> QED
  BY <1>8, <1>9
-----------------------------------------------------------------------------
\* The channel holds pending jobs only, each once.
LEMMA QueueStep == IndInv /\ [Next]_vars => QueueInv'
<1> SUFFICES ASSUME IndInv, [Next]_vars PROVE QueueInv'
  OBVIOUS
<1>a. TypeOK /\ ServiceInv /\ ExclusiveService /\ QueueInv
  BY DEF IndInv
<1>1. ASSUME NEW j \in Jobs, NEW us \in (SUBSET Links) \ {{}}, Submit(j, us)
      PROVE  QueueInv'
  <2>1. \A i \in 1..Len(queue) : queue[i] \in Jobs /\ queue[i] # j
    BY <1>a, <1>1 DEF QueueInv, Submit, TypeOK
  <2>2. \A i \in Jobs : i # j => status'[i] = status[i]
    BY <1>a, <1>1 DEF Submit, TypeOK
  <2>3. CASE queue' = queue
    BY <1>a, <2>1, <2>2, <2>3 DEF QueueInv
  <2>4. CASE queue' = Append(queue, j) /\ status' = [status EXCEPT ![j] = "pending"]
    <3>1. Len(queue') = Len(queue) + 1 /\ queue'[Len(queue) + 1] = j
          /\ \A i \in 1..Len(queue) : queue'[i] = queue[i]
      BY <1>a, <2>4 DEF TypeOK
    <3>2. status'[j] = "pending"
      BY <1>a, <2>4 DEF TypeOK
    <3>3. Len(queue) \in Nat
      BY <1>a DEF TypeOK
    <3> QED
      BY <1>a, <2>1, <2>2, <3>1, <3>2, <3>3 DEF QueueInv
  <2> QED
    BY <1>1, <2>3, <2>4 DEF Submit
<1>2. ASSUME NEW w \in Workers, Take(w) PROVE QueueInv'
  <2>1. Len(queue') = Len(queue) - 1 /\ Len(queue) \in Nat \ {0}
        /\ \A i \in 1..Len(queue') : queue'[i] = queue[i + 1]
    BY <1>a, <1>2 DEF Take, TypeOK
  <2>2. UNCHANGED status
    BY <1>2 DEF Take, jobVars
  <2> QED
    BY <1>a, <2>1, <2>2 DEF QueueInv
<1>3. ASSUME NEW w \in Workers, MarkStarted(w) \/ Publish(w) PROVE QueueInv'
  <2>1. serving[w] \in Jobs
    BY <1>3, ServedJob DEF MarkStarted, Publish
  <2>2. \A i \in 1..Len(queue) : queue[i] # serving[w]
    BY <1>a, <2>1, NoJobAssumption DEF ExclusiveService
  <2>3. \A i \in Jobs : i # serving[w] => status'[i] = status[i]
    BY <1>a, <1>3 DEF MarkStarted, Publish, TypeOK
  <2>4. UNCHANGED queue
    BY <1>3 DEF MarkStarted, Publish
  <2>5. \A i \in 1..Len(queue) : queue[i] \in Jobs
    BY <1>a DEF TypeOK
  <2> QED
    BY <1>a, <2>2, <2>3, <2>4, <2>5 DEF QueueInv
<1>4. CASE UNCHANGED <<queue, status>>
  BY <1>a, <1>4 DEF QueueInv
<1>5. CASE Quiet
  BY <1>4, <1>5 DEF Quiet, jobVars
<1> QED
  BY <1>1, <1>2, <1>3, <1>4, <1>5, QuietSteps, DispatchQuiet
     DEF Next, PoolStep, WorkerStep, Terminated, Start, Stop, WorkerExit, LockForStart,
         LockForFinish, StoreJob, jobVars
-----------------------------------------------------------------------------
\* No job is served twice, or served and queued.
LEMMA ExclusiveStep == IndInv /\ [Next]_vars => ExclusiveService'
<1> SUFFICES ASSUME IndInv, [Next]_vars PROVE ExclusiveService'
  OBVIOUS
<1>a. TypeOK /\ ServiceInv /\ ExclusiveService /\ QueueInv
  BY DEF IndInv
<1>1. ASSUME NEW j \in Jobs, NEW us \in (SUBSET Links) \ {{}}, Submit(j, us)
      PROVE  ExclusiveService'
  <2>1. UNCHANGED serving
    BY <1>1 DEF Submit, workerVars
  <2>2. \A w \in Workers : serving[w] # j
    BY ZenonT(40), <1>a, <1>1, ServedJob, NoJobAssumption DEF Submit, ServiceInv, TypeOK, Steps
  <2>3. CASE queue' = queue
    BY <1>a, <2>1, <2>3 DEF ExclusiveService
  <2>4. CASE queue' = Append(queue, j)
    <3>1. \A i \in 1..Len(queue') : queue'[i] = j \/ (i \in 1..Len(queue) /\ queue'[i] = queue[i])
      BY <1>a, <2>4 DEF TypeOK
    <3> QED
      BY <1>a, <2>1, <2>2, <3>1 DEF ExclusiveService
  <2> QED
    BY <1>1, <2>3, <2>4 DEF Submit
<1>2. ASSUME NEW w \in Workers, Take(w) PROVE ExclusiveService'
  <2>1. /\ 1 \in 1..Len(queue) /\ Head(queue) = queue[1]
        /\ \A i \in 1..Len(queue') : i + 1 \in 1..Len(queue) /\ queue'[i] = queue[i + 1]
    BY <1>a, <1>2 DEF Take, TypeOK
  <2>2. \A i \in 1..Len(queue') : queue'[i] # queue[1]
    <3>1. \A i \in 1..Len(queue') : i + 1 # 1
      BY <1>a DEF TypeOK
    <3> QED
      BY <1>a, <2>1, <3>1 DEF QueueInv
  <2>3. serving' = [serving EXCEPT ![w] = queue[1]]
    BY <1>2, <2>1 DEF Take
  <2>4. \A x \in Workers : serving[x] # NoJob => serving[x] # queue[1]
    BY <1>a, <2>1 DEF ExclusiveService
  <2>5. \A x \in Workers : serving[x] # NoJob => \A i \in 1..Len(queue') : queue'[i] # serving[x]
    BY <1>a, <2>1 DEF ExclusiveService
  <2>6. \A x \in Workers : serving'[x] = IF x = w THEN queue[1] ELSE serving[x]
    BY <1>a, <2>3 DEF TypeOK
  <2> QED
    BY <1>a, <2>2, <2>4, <2>5, <2>6 DEF ExclusiveService
<1>3. ASSUME NEW w \in Workers, StoreJob(w) PROVE ExclusiveService'
  BY <1>a, <1>3 DEF StoreJob, ExclusiveService, TypeOK
<1>4. CASE UNCHANGED <<queue, serving>>
  BY <1>a, <1>4 DEF ExclusiveService
<1>5. CASE Quiet
  BY <1>4, <1>5 DEF Quiet, workerVars
<1> QED
  BY <1>1, <1>2, <1>3, <1>4, <1>5, QuietSteps, DispatchQuiet
     DEF Next, PoolStep, WorkerStep, Terminated, Start, Stop, WorkerExit, LockForStart,
         MarkStarted, LockForFinish, Publish, workerVars
-----------------------------------------------------------------------------
\* Somebody answers for every unfinished job.
LEMMA OrphanStep == IndInv /\ [Next]_vars => NoJobOrphaned'
<1> SUFFICES ASSUME IndInv, [Next]_vars, NEW j \in Jobs
             PROVE  /\ status'[j] = "pending" =>
                          \/ \E i \in 1..Len(queue') : queue'[i] = j
                          \/ \E w \in Workers : serving'[w] = j /\ step'[w] \in {"taken", "starting"}
                    /\ status'[j] = "in_progress" =>
                          \E w \in Workers : serving'[w] = j /\ step'[w] \in {"dispatch", "finalizing"}
  BY DEF NoJobOrphaned
<1> DEFINE Goal == /\ status'[j] = "pending" =>
                         \/ \E i \in 1..Len(queue') : queue'[i] = j
                         \/ \E w \in Workers : serving'[w] = j /\ step'[w] \in {"taken", "starting"}
                   /\ status'[j] = "in_progress" =>
                         \E w \in Workers : serving'[w] = j /\ step'[w] \in {"dispatch", "finalizing"}
<1>a. TypeOK /\ ServiceInv /\ ExclusiveService /\ QueueInv /\ NoJobOrphaned
  BY DEF IndInv
<1>1. ASSUME Start PROVE Goal
  <2>1. \A w \in Workers : serving[w] = NoJob
    BY <1>1, <1>a DEF Start, ServiceInv
  <2> QED
    BY <1>1, <1>a, <2>1, NoJobAssumption DEF Start, NoJobOrphaned, jobVars
<1>2. ASSUME Stop PROVE Goal
  BY <1>2, <1>a DEF Stop, NoJobOrphaned, jobVars, workerVars
<1>3. ASSUME NEW i \in Jobs, NEW us \in (SUBSET Links) \ {{}}, Submit(i, us)
      PROVE  Goal
  <2>1. UNCHANGED <<step, serving>>
    BY <1>3 DEF Submit, workerVars
  <2>2. \A k \in 1..Len(queue) : k \in 1..Len(queue') /\ queue'[k] = queue[k]
    <3>1. CASE queue' = Append(queue, i)
      BY <1>a, <3>1 DEF TypeOK
    <3>2. CASE queue' = queue
      BY <3>2
    <3> QED
      BY <1>3, <3>1, <3>2 DEF Submit
  <2>3. CASE i # j
    <3>1. status'[j] = status[j]
      BY <1>3, <1>a, <2>3 DEF Submit, TypeOK
    <3> QED
      BY <1>a, <2>1, <2>2, <3>1 DEF NoJobOrphaned
  <2>4. CASE i = j
    <3>1. CASE queue' = Append(queue, j)
      <4>1. Len(queue') \in 1..Len(queue') /\ queue'[Len(queue')] = j
        BY <1>a, <3>1 DEF TypeOK
      <4>2. status'[j] # "in_progress"
        BY <1>a, <1>3, <2>4 DEF Submit, TypeOK
      <4> QED
        BY <4>1, <4>2
    <3>2. CASE status' = [status EXCEPT ![j] = "failed"]
      BY <1>a, <3>2 DEF TypeOK
    <3> QED
      BY <1>3, <2>4, <3>1, <3>2 DEF Submit
  <2> QED
    BY <2>3, <2>4
<1>4. ASSUME NEW w \in Workers, Take(w) PROVE Goal
  <2>1. \A i \in 1..Len(queue) :
           queue[i] = Head(queue) \/ \E k \in 1..Len(queue') : queue'[k] = queue[i]
    <3>1. queue' = Tail(queue) /\ queue # <<>> /\ queue \in Seq(Jobs)
      BY <1>a, <1>4 DEF Take, TypeOK
    <3>2. /\ Len(queue) \in Nat /\ Len(queue') = Len(queue) - 1
          /\ Head(queue) = queue[1]
          /\ \A k \in 1..Len(queue') : queue'[k] = queue[k + 1]
      BY <3>1
    <3>3. ASSUME NEW i \in 1..Len(queue), i # 1
          PROVE  \E k \in 1..Len(queue') : queue'[k] = queue[i]
      <4>1. i - 1 \in 1..Len(queue') /\ (i - 1) + 1 = i
        BY <3>2, <3>3
      <4> QED
        BY <3>2, <4>1
    <3> QED
      BY <3>2, <3>3
  <2>2. /\ serving' = [serving EXCEPT ![w] = Head(queue)]
        /\ step' = [step EXCEPT ![w] = "taken"]
        /\ UNCHANGED status /\ step[w] = "idle"
    BY <1>4 DEF Take, jobVars
  <2>3. \A x \in Workers : x # w => serving'[x] = serving[x] /\ step'[x] = step[x]
    BY <1>a, <2>2 DEF TypeOK
  <2>4. serving'[w] = Head(queue) /\ step'[w] = "taken"
    BY <1>a, <2>2 DEF TypeOK
  <2> QED
    BY <1>a, <2>1, <2>2, <2>3, <2>4 DEF NoJobOrphaned
<1>5. ASSUME NEW w \in Workers,
             WorkerExit(w) \/ LockForStart(w) \/ LockForFinish(w) \/ StoreJob(w)
      PROVE  Goal
  <2>1. UNCHANGED <<queue, status>>
    BY <1>5 DEF WorkerExit, LockForStart, LockForFinish, StoreJob, jobVars
  <2>2. \A x \in Workers : x # w => serving'[x] = serving[x] /\ step'[x] = step[x]
    BY <1>5, <1>a DEF WorkerExit, LockForStart, LockForFinish, StoreJob, TypeOK
  <2>3. \/ step[w] \in {"idle", "storing"}
        \/ serving'[w] = serving[w] /\ step[w] = "taken" /\ step'[w] = "starting"
        \/ serving'[w] = serving[w] /\ step[w] = "dispatch" /\ step'[w] = "finalizing"
    BY <1>5, <1>a DEF WorkerExit, LockForStart, LockForFinish, StoreJob, TypeOK
  <2> QED
    BY <1>a, <2>1, <2>2, <2>3 DEF NoJobOrphaned
<1>6. ASSUME NEW w \in Workers, MarkStarted(w) \/ Publish(w) PROVE Goal
  <2>1. serving[w] \in Jobs /\ UNCHANGED <<queue, serving>>
    BY <1>6, ServedJob DEF MarkStarted, Publish
  <2>2. /\ status' = [status EXCEPT ![serving[w]] =
                        IF step[w] = "starting" THEN "in_progress" ELSE "completed"]
        /\ step' = [step EXCEPT ![w] = IF step[w] = "starting" THEN "dispatch" ELSE "storing"]
    BY <1>6 DEF MarkStarted, Publish
  <2>3. CASE serving[w] = j
    <3>1. status'[j] = (IF step[w] = "starting" THEN "in_progress" ELSE "completed")
      BY <1>a, <2>2, <2>3 DEF TypeOK
    <3>2. step[w] = "starting" => step'[w] = "dispatch"
      BY <1>a, <2>2 DEF TypeOK
    <3> QED
      BY <2>1, <2>3, <3>1, <3>2
  <2>4. CASE serving[w] # j
    <3>1. status'[j] = status[j]
      BY <1>a, <2>1, <2>2, <2>4 DEF TypeOK
    <3>2. \A x \in Workers : x # w => step'[x] = step[x]
      BY <1>a, <2>2 DEF TypeOK
    <3> QED
      BY <1>a, <2>1, <2>4, <3>1, <3>2 DEF NoJobOrphaned
  <2> QED
    BY <2>3, <2>4
<1>7. ASSUME Quiet PROVE Goal
  BY <1>a, <1>7 DEF Quiet, jobVars, workerVars, NoJobOrphaned
<1> HIDE DEF Goal
<1>8. Goal
  BY <1>1, <1>2, <1>3, <1>4, <1>5, <1>6, <1>7, QuietSteps, DispatchQuiet
     DEF Next, PoolStep, WorkerStep, Terminated
<1> QED
  BY <1>8 DEF Goal
-----------------------------------------------------------------------------
\* What a job's counters must equal depends only on its finished goroutines.
LEMMA SameTally ==
    ASSUME TypeOK, TypeOK', TaskInv, NEW j \in Jobs,
           accessible'[j] = accessible[j], inaccessible'[j] = inaccessible[j],
           \A u \in Links : /\ task'[j][u] = "done" <=> task[j][u] = "done"
                            /\ task[j][u] = "done" => verdict'[j][u] = verdict[j][u]
    PROVE  /\ accessible'[j] = Cardinality(Answered(j)')
           /\ inaccessible'[j] = {u \in Links : task'[j][u] = "done" /\ verdict'[j][u] # "ok"}
<1>1. Answered(j)' = Answered(j)
  BY DEF Answered
<1>2. {u \in Links : task'[j][u] = "done" /\ verdict'[j][u] # "ok"}
        = {u \in Links : task[j][u] = "done" /\ verdict[j][u] # "ok"}
  OBVIOUS
<1> QED
  BY <1>1, <1>2 DEF TaskInv

\* Goroutines exist for links of started jobs only, and the counters of a job
\* are those of the goroutines that have reported.
LEMMA TaskStep == IndInv /\ TypeOK' /\ [Next]_vars => TaskInv'
<1> SUFFICES ASSUME IndInv, TypeOK', [Next]_vars, NEW j \in Jobs
             PROVE  /\ \A u \in Links : task'[j][u] # "none" =>
                          u \in urls'[j] /\ status'[j] \in {"in_progress", "completed"}
                    /\ accessible'[j] = Cardinality(Answered(j)')
                    /\ inaccessible'[j]
                          = {u \in Links : task'[j][u] = "done" /\ verdict'[j][u] # "ok"}
  BY DEF TaskInv, Answered
<1> DEFINE Belongs == \A u \in Links : task'[j][u] # "none" =>
                         u \in urls'[j] /\ status'[j] \in {"in_progress", "completed"}
           Tally == /\ accessible'[j] = Cardinality(Answered(j)')
                    /\ inaccessible'[j]
                          = {u \in Links : task'[j][u] = "done" /\ verdict'[j][u] # "ok"}
<1>a. TypeOK /\ ServiceInv /\ TaskInv
  BY DEF IndInv
<1>b. \A u \in Links : task[j][u] # "none" =>
         u \in urls[j] /\ status[j] \in {"in_progress", "completed"}
  BY <1>a DEF TaskInv
<1>1. ASSUME UNCHANGED <<task, verdict, accessible, inaccessible>> PROVE Tally
  BY <1>1, <1>a, SameTally
<1>2. ASSUME UNCHANGED <<task, urls, status>> PROVE Belongs
  BY <1>2, <1>b
<1>3. ASSUME NEW i \in Jobs, NEW us \in (SUBSET Links) \ {{}}, Submit(i, us)
      PROVE  Belongs /\ Tally
  <2>1. UNCHANGED <<task, verdict, accessible, inaccessible>>
    BY <1>3 DEF Submit, taskVars
  <2>2. CASE i = j
    <3>1. \A u \in Links : task[j][u] = "none"
      BY <1>3, <1>b, <2>2 DEF Submit
    <3> QED
      BY <1>1, <2>1, <3>1
  <2>3. CASE i # j
    <3>1. urls'[j] = urls[j] /\ status'[j] = status[j]
      BY <1>3, <1>a, <2>3 DEF Submit, TypeOK
    <3> QED
      BY <1>1, <1>b, <2>1, <3>1
  <2> QED
    BY <2>2, <2>3
<1>4. ASSUME NEW w \in Workers, MarkStarted(w) \/ Publish(w) PROVE Belongs /\ Tally
  <2>1. UNCHANGED <<urls, task, verdict, accessible, inaccessible>>
    BY <1>4 DEF MarkStarted, Publish, taskVars
  <2>2. status'[j] \in {status[j], "in_progress", "completed"}
    BY <1>4, <1>a DEF MarkStarted, Publish, TypeOK
  <2> QED
    BY <1>1, <1>b, <2>1, <2>2
<1>5. ASSUME NEW w \in Workers, NEW v \in Links, Dispatch(w, v) PROVE Belongs /\ Tally
  <2>1. /\ serving[w] \in Jobs
        /\ v \in urls[serving[w]] /\ task[serving[w]][v] = "none"
        /\ task' = [task EXCEPT ![serving[w]][v] = "lookup"]
        /\ UNCHANGED <<urls, status, verdict, accessible, inaccessible>>
        /\ step[w] = "dispatch"
    BY <1>5, ServedJob DEF Dispatch, jobVars
  <2>2. status[serving[w]] = "in_progress"
    BY <1>a, <2>1 DEF ServiceInv
  <2>3. \A u \in Links : task'[j][u] =
           IF j = serving[w] /\ u = v THEN "lookup" ELSE task[j][u]
    BY <1>a, <2>1 DEF TypeOK
  <2>4. Belongs
    BY <1>b, <2>1, <2>2, <2>3
  <2>5. Tally
    BY <1>a, <2>1, <2>3, SameTally
  <2> QED
    BY <2>4, <2>5
<1>6. ASSUME NEW i \in Jobs, NEW v \in Links,
             \/ LookupHit(i, v) \/ LookupMiss(i, v) \/ StoreVerdict(i, v)
             \/ \E x \in {"ok", "bad", "canceled"} : CheckLink(i, v, x)
      PROVE  Belongs /\ Tally
  <2>1. /\ task[i][v] \notin {"none", "done"}
        /\ \E to \in {"check", "store", "report"} : task' = [task EXCEPT ![i][v] = to]
        /\ UNCHANGED <<urls, status, accessible, inaccessible>>
        /\ verdict' = verdict \/ \E y : verdict' = [verdict EXCEPT ![i][v] = y]
    BY <1>6 DEF LookupHit, LookupMiss, StoreVerdict, CheckLink, jobVars
  <2>2. \A u \in Links : IF i = j /\ u = v THEN task'[j][u] \notin {"none", "done"}
                                           ELSE /\ task'[j][u] = task[j][u]
                                                /\ verdict'[j][u] = verdict[j][u]
    BY <1>a, <2>1 DEF TypeOK
  <2>3. Belongs
    BY <1>b, <2>1, <2>2
  <2>4. Tally
    BY <1>a, <2>1, <2>2, SameTally
  <2> QED
    BY <2>3, <2>4
<1>7. ASSUME NEW i \in Jobs, NEW v \in Links, Report(i, v) PROVE Belongs /\ Tally
  <2>1. /\ task[i][v] = "report"
        /\ task' = [task EXCEPT ![i][v] = "done"]
        /\ UNCHANGED <<urls, status, verdict>>
    BY <1>7 DEF Report, jobVars
  <2>2. \A u \in Links : task'[j][u] = IF i = j /\ u = v THEN "done" ELSE task[j][u]
    BY <1>a, <2>1 DEF TypeOK
  <2>3. Belongs
    BY <1>b, <2>1, <2>2
  <2>4. CASE i # j
    <3>1. accessible'[j] = accessible[j] /\ inaccessible'[j] = inaccessible[j]
      BY <1>7, <1>a, <2>4 DEF Report, TypeOK
    <3>2. Tally
      BY <1>a, <2>1, <2>2, <2>4, <3>1, SameTally
    <3> QED
      BY <2>3, <3>2
  <2>5. CASE i = j /\ verdict[i][v] = "ok"
    <3>1. accessible'[j] = accessible[j] + 1 /\ UNCHANGED inaccessible
      BY <1>7, <1>a, <2>5 DEF Report, TypeOK
    <3>2. Answered(j)' = Answered(j) \cup {v} /\ v \notin Answered(j)
      BY <2>1, <2>2, <2>5 DEF Answered
    <3>3. IsFiniteSet(Answered(j))
      BY LinkSets DEF Answered
    <3>4. Cardinality(Answered(j)') = Cardinality(Answered(j)) + 1
      BY <3>2, <3>3, FS_AddElement
    <3>5. {u \in Links : task'[j][u] = "done" /\ verdict'[j][u] # "ok"}
            = {u \in Links : task[j][u] = "done" /\ verdict[j][u] # "ok"}
      BY <2>1, <2>2, <2>5
    <3>6. /\ accessible[j] = Cardinality(Answered(j))
          /\ inaccessible[j] = {u \in Links : task[j][u] = "done" /\ verdict[j][u] # "ok"}
      BY <1>a DEF TaskInv
    <3> QED
      BY <2>3, <3>1, <3>4, <3>5, <3>6
  <2>6. CASE i = j /\ verdict[i][v] # "ok"
    <3>1. UNCHANGED accessible /\ inaccessible'[j] = inaccessible[j] \cup {v}
      BY <1>7, <1>a, <2>6 DEF Report, TypeOK
    <3>2. Answered(j)' = Answered(j)
      BY <2>1, <2>2, <2>6 DEF Answered
    <3>3. {u \in Links : task'[j][u] = "done" /\ verdict'[j][u] # "ok"}
            = {u \in Links : task[j][u] = "done" /\ verdict[j][u] # "ok"} \cup {v}
      BY <2>1, <2>2, <2>6
    <3>4. /\ accessible[j] = Cardinality(Answered(j))
          /\ inaccessible[j] = {u \in Links : task[j][u] = "done" /\ verdict[j][u] # "ok"}
      BY <1>a DEF TaskInv
    <3> QED
      BY <2>3, <3>1, <3>2, <3>3, <3>4
  <2> QED
    BY <2>4, <2>5, <2>6
<1> HIDE DEF Belongs, Tally
<1>8. Belongs /\ Tally
  <2>1. CASE UNCHANGED <<urls, status, task, verdict, accessible, inaccessible>>
    BY <1>1, <1>2, <2>1
  <2> QED
    BY <1>3, <1>4, <1>5, <1>6, <1>7, <2>1
       DEF Next, PoolStep, WorkerStep, LinkStep, Terminated, vars, jobVars, taskVars, Start,
           Stop, Take, WorkerExit, LockForStart, LockForFinish, StoreJob, CacheDrop, Age,
           GcVisit, GcTick, CleanupExit
<1> QED
  BY <1>8 DEF Belongs, Tally
-----------------------------------------------------------------------------
\* The counters of a job all of whose links are accounted for stay put.
LEMMA TallyStays ==
    ASSUME IndInv, [Next]_vars, NEW j \in Jobs,
           status[j] \in {"in_progress", "completed"}, AllReported(j)
    PROVE  /\ urls'[j] = urls[j]
           /\ accessible'[j] = accessible[j] /\ inaccessible'[j] = inaccessible[j]
<1>a. TypeOK /\ TaskInv
  BY DEF IndInv
<1>1. ASSUME NEW i \in Jobs, NEW u \in Links, Report(i, u)
      PROVE  accessible'[j] = accessible[j] /\ inaccessible'[j] = inaccessible[j]
  <2>1. i # j
    BY <1>1, <1>a DEF Report, AllReported, TaskInv
  <2> QED
    BY <1>1, <1>a, <2>1 DEF Report, TypeOK
<1>2. ASSUME NEW i \in Jobs, NEW us \in (SUBSET Links) \ {{}}, Submit(i, us)
      PROVE  urls'[j] = urls[j] /\ UNCHANGED <<accessible, inaccessible>>
  BY <1>2, <1>a DEF Submit, TypeOK, taskVars
<1>3. ASSUME NEW i \in Jobs, NEW u \in Links, LinkStep(i, u) PROVE UNCHANGED urls
  BY <1>3, QuietSteps DEF Quiet, jobVars
<1>4. ASSUME NEW i \in Jobs, NEW u \in Links, LinkStep(i, u)
      PROVE  Report(i, u) \/ UNCHANGED <<accessible, inaccessible>>
  BY <1>4 DEF LinkStep, LookupHit, LookupMiss, CheckLink, StoreVerdict
<1>5. CASE UNCHANGED <<urls, accessible, inaccessible>>
  BY <1>5
<1> QED
  BY <1>1, <1>2, <1>3, <1>4, <1>5
     DEF Next, PoolStep, WorkerStep, Terminated, vars, jobVars, taskVars, Start, Stop,
         Take, WorkerExit, LockForStart, MarkStarted, Dispatch, LockForFinish, Publish,
         StoreJob, CacheDrop, Age, GcVisit, GcTick, CleanupExit
-----------------------------------------------------------------------------
\* A job has no result before it ends, and ends with its counters.
LEMMA ResultStep == IndInv /\ TypeOK' /\ [Next]_vars => ResultInv'
<1> SUFFICES ASSUME IndInv, TypeOK', [Next]_vars, NEW j \in Jobs
             PROVE  /\ status'[j] \in {"absent", "pending", "in_progress"} => result'[j] = NoResult
                    /\ status'[j] = "completed" =>
                          /\ AllReported(j)'
                          /\ result'[j] = [checked |-> Cardinality(urls'[j]),
                                           accessible |-> accessible'[j],
                                           inaccessible |-> inaccessible'[j]]
  BY DEF ResultInv, AllReported
<1> DEFINE Goal == /\ status'[j] \in {"absent", "pending", "in_progress"} => result'[j] = NoResult
                   /\ status'[j] = "completed" =>
                         /\ AllReported(j)'
                         /\ result'[j] = [checked |-> Cardinality(urls'[j]),
                                          accessible |-> accessible'[j],
                                          inaccessible |-> inaccessible'[j]]
<1>a. TypeOK /\ ServiceInv /\ ResultInv
  BY DEF IndInv
<1>1. ASSUME status'[j] = status[j], result'[j] = result[j] PROVE Goal
  <2>1. status[j] = "completed" => AllReported(j)' /\ urls'[j] = urls[j]
           /\ accessible'[j] = accessible[j] /\ inaccessible'[j] = inaccessible[j]
    BY <1>a, ReportedStays, TallyStays DEF ResultInv
  <2> QED
    BY <1>1, <1>a, <2>1 DEF ResultInv
<1>2. ASSUME NEW i \in Jobs, NEW us \in (SUBSET Links) \ {{}}, Submit(i, us)
      PROVE  Goal
  <2>1. CASE i = j
    <3>1. status[j] = "absent" /\ result[j] = NoResult
      BY <1>2, <1>a, <2>1 DEF Submit, ResultInv
    <3>2. status'[j] \in {"pending", "failed"} /\ (status'[j] = "pending" => result' = result)
      BY <1>2, <1>a, <2>1 DEF Submit, TypeOK
    <3> QED
      BY <3>1, <3>2
  <2>2. CASE i # j
    <3>1. status'[j] = status[j] /\ result'[j] = result[j]
      BY <1>2, <1>a, <2>2 DEF Submit, TypeOK
    <3> QED
      BY <1>1, <3>1
  <2> QED
    BY <2>1, <2>2
<1>3. ASSUME NEW w \in Workers, MarkStarted(w) PROVE Goal
  <2>1. serving[w] \in Jobs /\ status[serving[w]] = "pending" /\ UNCHANGED result
        /\ status' = [status EXCEPT ![serving[w]] = "in_progress"]
    BY <1>3, <1>a, ServedJob DEF MarkStarted, ServiceInv
  <2>2. CASE serving[w] = j
    BY <1>a, <2>1, <2>2 DEF ResultInv, TypeOK
  <2>3. CASE serving[w] # j
    <3>1. status'[j] = status[j] /\ result'[j] = result[j]
      BY <1>a, <2>1, <2>3 DEF TypeOK
    <3> QED
      BY <1>1, <3>1
  <2> QED
    BY <2>2, <2>3
<1>4. ASSUME NEW w \in Workers, Publish(w) PROVE Goal
  <2>1. /\ serving[w] \in Jobs /\ AllReported(serving[w])
        /\ status' = [status EXCEPT ![serving[w]] = "completed"]
        /\ result' = [result EXCEPT ![serving[w]] =
                        [checked |-> Cardinality(urls[serving[w]]),
                         accessible |-> accessible[serving[w]],
                         inaccessible |-> inaccessible[serving[w]]]]
        /\ UNCHANGED <<urls, taskVars>>
    BY <1>4, <1>a, ServedJob DEF Publish, ServiceInv
  <2>2. CASE serving[w] = j
    <3>1. AllReported(j)'
      BY <2>1, <2>2 DEF AllReported, taskVars
    <3>2. status'[j] = "completed"
      BY <1>a, <2>1, <2>2 DEF TypeOK
    <3>3. result'[j] = [checked |-> Cardinality(urls[j]), accessible |-> accessible[j],
                        inaccessible |-> inaccessible[j]]
      BY <1>a, <2>1, <2>2 DEF TypeOK
    <3> QED
      BY <2>1, <3>1, <3>2, <3>3 DEF taskVars
  <2>3. CASE serving[w] # j
    <3>1. status'[j] = status[j] /\ result'[j] = result[j]
      BY <1>a, <2>1, <2>3 DEF TypeOK
    <3> QED
      BY <1>1, <3>1
  <2> QED
    BY <2>2, <2>3
<1>5. ASSUME Quiet \/ UNCHANGED <<status, result>> PROVE Goal
  BY <1>1, <1>5 DEF Quiet, jobVars
<1> HIDE DEF Goal
<1>6. Goal
  BY <1>2, <1>3, <1>4, <1>5, QuietSteps, DispatchQuiet
     DEF Next, PoolStep, WorkerStep, Terminated, Start, Stop, Take, WorkerExit, LockForStart,
         LockForFinish, StoreJob, jobVars
<1> QED
  BY <1>6 DEF Goal
-----------------------------------------------------------------------------
\* The pool's structure is an invariant: workers, channel, goroutines, counters
\* and results of LinkCheckWorkerPool agree with each other in every state.
THEOREM IndInvCorrect == Spec => []IndInv
<1>1. Init => IndInv
  <2> SUFFICES ASSUME Init PROVE IndInv
    OBVIOUS
  <2>1. TypeOK
    BY DEF Init, TypeOK, Statuses, Steps, TaskSteps, Verdicts
  <2>2. ServiceInv /\ QueueInv /\ ExclusiveService /\ NoJobOrphaned /\ ResultInv
    BY NoJobAssumption DEF Init, ServiceInv, QueueInv, ExclusiveService, NoJobOrphaned, ResultInv
  <2>3. TaskInv
    <3>1. \A j \in Jobs : Answered(j) = {}
      BY DEF Init, Answered
    <3> QED
      BY <3>1, FS_EmptySet DEF Init, TaskInv
  <2> QED
    BY <2>1, <2>2, <2>3 DEF IndInv
<1>2. IndInv /\ [Next]_vars => IndInv'
  BY TypeStep, ServiceStep, QueueStep, ExclusiveStep, OrphanStep, TaskStep, ResultStep
     DEF IndInv
<1> QED
  BY <1>1, <1>2, PTL DEF Spec

\* Every variable of the pool keeps its type, counters and queue included.
THEOREM TypeCorrect == Spec => []TypeOK
<1>1. IndInv => TypeOK
  BY DEF IndInv
<1> QED
  BY <1>1, IndInvCorrect, PTL

\* Receiving from the channel hands a job to exactly one worker goroutine.
THEOREM ExclusiveServiceCorrect == Spec => []ExclusiveService
<1>1. IndInv => ExclusiveService
  BY DEF IndInv
<1> QED
  BY <1>1, IndInvCorrect, PTL

\* Neither a full queue, nor Stop, nor the sweep of old jobs leaves an
\* unfinished job that is neither queued nor served.
THEOREM NoJobOrphanedCorrect == Spec => []NoJobOrphaned
<1>1. IndInv => NoJobOrphaned
  BY DEF IndInv
<1> QED
  BY <1>1, IndInvCorrect, PTL

\* processJob's counters, list and number of URLs agree in every result it
\* publishes, whatever the goroutines' interleaving, the cache and Stop do.
THEOREM ResultCorrect == Spec => []ResultAccountsForEveryLink
<1>1. IndInv => ResultAccountsForEveryLink
  <2> SUFFICES ASSUME IndInv, NEW j \in Jobs, status[j] = "completed"
               PROVE  /\ result[j].checked = Cardinality(urls[j])
                      /\ result[j].accessible + Cardinality(result[j].inaccessible)
                            = result[j].checked
                      /\ result[j].inaccessible = {u \in urls[j] : verdict[j][u] # "ok"}
    BY DEF ResultAccountsForEveryLink
  <2>1. /\ AllReported(j)
        /\ result[j] = [checked |-> Cardinality(urls[j]), accessible |-> accessible[j],
                        inaccessible |-> inaccessible[j]]
    BY DEF IndInv, ResultInv
  <2>2. /\ urls[j] \subseteq Links
        /\ \A u \in Links : task[j][u] = "done" <=> u \in urls[j]
    BY <2>1 DEF IndInv, TypeOK, TaskInv, AllReported
  <2>3. /\ accessible[j] = Cardinality(Answered(j))
        /\ inaccessible[j] = {u \in urls[j] : verdict[j][u] # "ok"}
    BY <2>2 DEF IndInv, TaskInv
  <2>4. /\ Answered(j) \cup inaccessible[j] = urls[j]
        /\ Answered(j) \cap inaccessible[j] = {}
    BY <2>2, <2>3 DEF Answered
  <2>5. IsFiniteSet(Answered(j)) /\ IsFiniteSet(inaccessible[j])
    BY <2>2, <2>4, LinkSets
  <2>6. Cardinality(Answered(j)) + Cardinality(inaccessible[j]) = Cardinality(urls[j])
    <3>1. Cardinality(Answered(j) \cup inaccessible[j])
            = Cardinality(Answered(j)) + Cardinality(inaccessible[j])
              - Cardinality(Answered(j) \cap inaccessible[j])
      BY <2>5, FS_Union
    <3>2. Cardinality(Answered(j) \cap inaccessible[j]) = 0
      BY <2>4, FS_EmptySet
    <3>3. Cardinality(Answered(j)) \in Nat /\ Cardinality(inaccessible[j]) \in Nat
      BY <2>5, FS_CardinalityType
    <3>4. Cardinality(Answered(j) \cup inaccessible[j]) = Cardinality(urls[j])
      BY <2>4
    <3> QED
      BY <3>1, <3>2, <3>3, <3>4
  <2> QED
    BY <2>1, <2>3, <2>6
<1> QED
  BY <1>1, IndInvCorrect, PTL
-----------------------------------------------------------------------------
\* The links of job j that hold a slot of its semaphore, and the bound that
\* the semaphore is.
Checked(j) == {u \in Links : task[j][u] \notin {"none", "done"}}
SlotsInv == \A j \in Jobs : Cardinality(Checked(j)) <= SemCap

\* A slot is taken in Dispatch alone; a step of a link keeps or releases one.
LEMMA SlotsStep == IndInv /\ SlotsInv /\ [Next]_vars => SlotsInv'
<1> SUFFICES ASSUME IndInv, SlotsInv, [Next]_vars PROVE SlotsInv'
  OBVIOUS
<1>1. TypeOK
  BY DEF IndInv
<1>2. CASE UNCHANGED task
  BY <1>2 DEF SlotsInv, Checked
<1>3. ASSUME NEW w \in Workers, NEW u \in Links, Dispatch(w, u) PROVE SlotsInv'
  <2>1. PICK j \in Jobs : j = serving[w]
    BY <1>3, ServedJob DEF Dispatch
  <2>2. task' = [task EXCEPT ![j][u] = "lookup"]
    BY <1>3, <2>1 DEF Dispatch
  <2>3. InFlight(j) = Checked(j)
    BY <1>1 DEF InFlight, Checked, IndInv, TaskInv, TypeOK
  <2>4. Cardinality(Checked(j)) < SemCap
    BY <1>3, <2>1, <2>3 DEF Dispatch
  <2>5. Checked(j)' = Checked(j) \cup {u}
    BY <1>1, <2>2 DEF Checked, TypeOK
  <2>6. Cardinality(Checked(j)') <= SemCap
    <3>1. IsFiniteSet(Checked(j)) /\ Cardinality(Checked(j)) \in Nat
      BY LinkSets DEF Checked
    <3>2. Cardinality(Checked(j)') \in {Cardinality(Checked(j)), Cardinality(Checked(j)) + 1}
      BY <2>5, <3>1, FS_AddElement
    <3> QED
      BY <2>4, <3>1, <3>2, CapacityAssumption
  <2>7. ASSUME NEW k \in Jobs, k # j PROVE Checked(k)' = Checked(k)
    BY <1>1, <2>2, <2>7 DEF Checked, TypeOK
  <2> QED
    BY <2>6, <2>7 DEF SlotsInv
<1>4. ASSUME NEW j \in Jobs, NEW u \in Links, LinkStep(j, u) PROVE SlotsInv'
  <2>1. task[j][u] \notin {"none", "done"} /\ \E s \in TaskSteps : task' = [task EXCEPT ![j][u] = s]
    BY <1>4 DEF LinkStep, LookupHit, LookupMiss, CheckLink, StoreVerdict, Report, TaskSteps
  <2>2. ASSUME NEW k \in Jobs PROVE Cardinality(Checked(k)') <= SemCap
    <3>1. Checked(k)' \subseteq Checked(k)
      BY <1>1, <2>1 DEF Checked, TypeOK
    <3>2. IsFiniteSet(Checked(k)) /\ Cardinality(Checked(k)) \in Nat
      BY LinkSets DEF Checked
    <3>3. Cardinality(Checked(k)') \in Nat /\ Cardinality(Checked(k)') <= Cardinality(Checked(k))
      BY <3>1, <3>2, FS_Subset, FS_CardinalityType
    <3> QED
      BY <3>2, <3>3, CapacityAssumption DEF SlotsInv
  <2> QED
    BY <2>2 DEF SlotsInv
<1>5. \/ UNCHANGED task
      \/ \E w \in Workers, u \in Links : Dispatch(w, u)
      \/ \E j \in Jobs, u \in Links : LinkStep(j, u)
  BY DEF Next, PoolStep, WorkerStep, Start, Stop, Submit, Take, WorkerExit, LockForStart, MarkStarted,
     LockForFinish, Publish, StoreJob, CacheDrop, Age, GcVisit, GcTick, CleanupExit, Terminated,
     taskVars, vars
<1> QED
  BY <1>2, <1>3, <1>4, <1>5

\* A job with links under check is served.
LEMMA CheckedIsServed ==
    ASSUME IndInv, NEW j \in Jobs, Checked(j) # {}
    PROVE  \E w \in Workers : serving[w] = j
<1>1. PICK u \in Links : task[j][u] \notin {"none", "done"}
  BY DEF Checked
<1>2. u \in urls[j] /\ status[j] \in {"in_progress", "completed"}
  BY <1>1 DEF IndInv, TaskInv
<1>3. status[j] # "completed"
  BY <1>1, <1>2 DEF IndInv, ResultInv, AllReported
<1> QED
  BY <1>2, <1>3 DEF IndInv, NoJobOrphaned

\* Its links can be numbered within the semaphore.
LEMMA SlotNumbers ==
    ASSUME SlotsInv, NEW j \in Jobs
    PROVE  \E g \in [Checked(j) -> 1..SemCap] : \A u, v \in Checked(j) : g[u] = g[v] => u = v
<1> DEFINE n == Cardinality(Checked(j))
<1>1. n \in Nat /\ ExistsBijection(1..n, Checked(j))
  BY LinkSets, FS_CardinalityType DEF Checked
<1>2. PICK f \in Bijection(Checked(j), 1..n) : TRUE
  <2>1. ExistsBijection(Checked(j), 1..n)
    BY <1>1, Fun_ExistsBijSymmetric
  <2> QED
    BY <2>1 DEF ExistsBijection
<1>3. f \in Injection(Checked(j), 1..n)
  BY <1>2 DEF Bijection
<1>4. f \in [Checked(j) -> 1..n] /\ \A u, v \in Checked(j) : f[u] = f[v] => u = v
  <2> HIDE DEF n
  <2> QED
    BY <1>3, Fun_InjectionProperties
<1>5. 1..n \subseteq 1..SemCap
  BY <1>1, CapacityAssumption DEF SlotsInv
<1> QED
  BY <1>4, <1>5

\* Each link under check has a worker and a number of its own.
LEMMA SlotsBoundRequests == IndInv /\ SlotsInv => RequestsBounded
<1> SUFFICES ASSUME IndInv, SlotsInv PROVE RequestsBounded
  OBVIOUS
<1> DEFINE T == {t \in Jobs \X Links : task[t[1]][t[2]] \notin {"none", "done"}}
           Numbering(j, g) == /\ g \in [Checked(j) -> 1..SemCap]
                              /\ \A u, v \in Checked(j) : g[u] = g[v] => u = v
           owner == [j \in Jobs |-> CHOOSE w \in Workers : serving[w] = j]
           slot == [j \in Jobs |-> CHOOSE g : Numbering(j, g)]
           place == [t \in T |-> <<owner[t[1]], slot[t[1]][t[2]]>>]
           Places == Workers \X (1..SemCap)
<1>1. \A j \in Jobs : Numbering(j, slot[j])
  <2>1. ASSUME NEW j \in Jobs PROVE \E g : Numbering(j, g)
    BY SlotNumbers
  <2> QED
    BY <2>1
<1>2. \A t \in T : t[1] \in Jobs /\ t[2] \in Checked(t[1]) /\ t = <<t[1], t[2]>>
  BY DEF Checked
<1>3. \A t \in T : owner[t[1]] \in Workers /\ serving[owner[t[1]]] = t[1]
  <2>1. ASSUME NEW t \in T PROVE \E w \in Workers : serving[w] = t[1]
    BY <1>2, CheckedIsServed
  <2> QED
    BY <1>2, <2>1
<1>4. \A t \in T : slot[t[1]][t[2]] \in 1..SemCap
  BY <1>1, <1>2
<1>5. place \in [T -> Places]
  BY <1>3, <1>4
<1>6. ASSUME NEW s \in T, NEW t \in T, place[s] = place[t] PROVE s = t
  <2>a. /\ place[s] = <<owner[s[1]], slot[s[1]][s[2]]>>
        /\ place[t] = <<owner[t[1]], slot[t[1]][t[2]]>>
    <3> HIDE DEF owner, slot, T
    <3> QED
      OBVIOUS
  <2>1. owner[s[1]] = owner[t[1]] /\ slot[s[1]][s[2]] = slot[t[1]][t[2]]
    <3> HIDE DEF owner, slot, T, place
    <3>1. <<owner[s[1]], slot[s[1]][s[2]]>> = <<owner[t[1]], slot[t[1]][t[2]]>>
      BY <1>6, <2>a, Zenon
    <3> QED
      BY <3>1
  <2>2. s[1] = t[1]
    BY <1>3, <2>1
  <2>3. s[2] = t[2]
    BY <1>1, <1>2, <2>1, <2>2
  <2> QED
    BY <1>2, <2>2, <2>3
<1>7. place \in Injection(T, Places)
  <2> HIDE DEF place, T, Places
  <2> QED
    BY <1>5, <1>6, Fun_IsInj
<1>8. IsFiniteSet(Places) /\ Cardinality(Places) = Cardinality(Workers) * SemCap
  <2>1. IsFiniteSet(1..SemCap) /\ Cardinality(1..SemCap) = SemCap
    BY CapacityAssumption, FS_Interval
  <2> QED
    BY <2>1, WorkersAssumption, FS_Product
<1>9. Cardinality(T) <= Cardinality(Places)
  <2> HIDE DEF place, T, Places
  <2> QED
    BY <1>7, <1>8, FS_Injection
<1> QED
  BY <1>8, <1>9 DEF RequestsBounded

\* The fixed pool bounds the outgoing requests: however many jobs and links
\* there are, no more are under check than workers times the semaphore.
THEOREM RequestsCorrect == Spec => []RequestsBounded
<1>1. Init => SlotsInv
  <2>1. Init => \A j \in Jobs : Checked(j) = {}
    BY DEF Init, Checked
  <2> QED
    BY <2>1, FS_EmptySet, CapacityAssumption DEF SlotsInv
<1> QED
  BY <1>1, SlotsStep, SlotsBoundRequests, IndInvCorrect, PTL DEF Spec
-----------------------------------------------------------------------------
\* The sweep under way visits old jobs only, so it never takes a young one.
KeepInv == sweep \subseteq old /\ YoungJobsAreKept

\* Between Submit and maxAge the job stays in the map: no sweep, and no second
\* Store by a worker, loses it.
THEOREM YoungJobsCorrect == Spec => []YoungJobsAreKept
<1>1. Init => KeepInv
  BY DEF Init, KeepInv, YoungJobsAreKept
<1>2. IndInv /\ KeepInv /\ [Next]_vars => KeepInv'
  <2> SUFFICES ASSUME IndInv, KeepInv, [Next]_vars PROVE KeepInv'
    OBVIOUS
  <2> USE DEF KeepInv, YoungJobsAreKept
  <2>a. TypeOK
    BY DEF IndInv
  <2>1. ASSUME NEW j \in Jobs, NEW us \in (SUBSET Links) \ {{}}, Submit(j, us)
        PROVE  KeepInv'
    <3>1. /\ results' = results \cup {j} /\ UNCHANGED <<old, sweep>>
          /\ \A i \in Jobs : i # j => status'[i] = status[i]
      BY <2>1, <2>a DEF Submit, TypeOK, gcVars
    <3> QED
      BY <3>1
  <2>2. ASSUME NEW w \in Workers, MarkStarted(w) \/ Publish(w) PROVE KeepInv'
    <3>1. serving[w] \in Jobs /\ status[serving[w]] # "absent"
      BY <2>2, ServedJob DEF MarkStarted, Publish, IndInv, ServiceInv
    <3>2. \A i \in Jobs : status'[i] # "absent" => status[i] # "absent"
      BY <2>2, <2>a, <3>1 DEF MarkStarted, Publish, TypeOK
    <3> QED
      BY <2>2, <3>2 DEF MarkStarted, Publish, gcVars
  <2>3. ASSUME NEW w \in Workers, StoreJob(w) PROVE KeepInv'
    BY <2>3 DEF StoreJob, jobVars, gcVars
  <2>4. ASSUME NEW j \in Jobs, Age(j) \/ GcVisit(j) PROVE KeepInv'
    BY <2>4 DEF Age, GcVisit, jobVars
  <2>5. CASE GcTick
    BY <2>5 DEF GcTick, jobVars
  <2>6. CASE UNCHANGED <<results, status, old, sweep>>
    BY <2>6
  <2>7. ASSUME NEW j \in Jobs, NEW u \in Links, LinkStep(j, u)
        PROVE  UNCHANGED <<results, status, old, sweep>>
    BY <2>7 DEF LinkStep, LookupHit, LookupMiss, CheckLink, StoreVerdict, Report, jobVars, gcVars
  <2> QED
    BY <2>1, <2>2, <2>3, <2>4, <2>5, <2>6, <2>7
       DEF Next, PoolStep, WorkerStep, Terminated, vars, jobVars, gcVars, Start, Stop, Take,
           WorkerExit, LockForStart, Dispatch, LockForFinish, CacheDrop, CleanupExit
<1>3. KeepInv => YoungJobsAreKept
  BY DEF KeepInv
<1> QED
  BY <1>1, <1>2, <1>3, IndInvCorrect, PTL DEF Spec

\* Only Stop cuts a check short: until then neither a goroutine nor the link
\* cache, which feeds other goroutines, holds the verdict of such a check.
CutShortInv ==
    pool # "stopped" => \A u \in Links : /\ cached[u] # "canceled"
                                        /\ \A j \in Jobs : verdict[j][u] # "canceled"

\* A goroutine that stores the verdict of a check cut short does so under the
\* cancelled context, which a shared cache refuses: whatever checks were under
\* way when the pool stopped, other instances never read that their links are
\* broken.
THEOREM StopCorrect == Spec => []StopIsKeptPrivate
<1>1. Init => CutShortInv /\ StopIsKeptPrivate
  BY DEF Init, CutShortInv, StopIsKeptPrivate
<1>2. TypeOK /\ CutShortInv /\ [Next]_vars => CutShortInv'
  <2> SUFFICES ASSUME TypeOK, CutShortInv, [Next]_vars
               PROVE  CutShortInv'
    OBVIOUS
  <2> USE DEF CutShortInv, TypeOK
  <2>1. CASE Start \/ Stop
    BY <2>1 DEF Start, Stop, taskVars
  <2>2. ASSUME NEW j \in Jobs, NEW u \in Links, LookupHit(j, u) \/ LookupMiss(j, u)
        PROVE  CutShortInv'
    BY <2>2 DEF LookupHit, LookupMiss
  <2>3. ASSUME NEW j \in Jobs, NEW u \in Links, NEW v \in {"ok", "bad", "canceled"},
               CheckLink(j, u, v)
        PROVE  CutShortInv'
    BY <2>3 DEF CheckLink
  <2>4. ASSUME NEW j \in Jobs, NEW u \in Links, StoreVerdict(j, u)
        PROVE  CutShortInv'
    BY <2>4 DEF StoreVerdict
  <2>5. ASSUME NEW u \in Links, CacheDrop(u) PROVE CutShortInv'
    BY <2>5 DEF CacheDrop
  <2>6. CASE UNCHANGED <<pool, verdict, cached>>
    BY <2>6
  <2> QED
    BY <2>1, <2>2, <2>3, <2>4, <2>5, <2>6
       DEF Next, PoolStep, WorkerStep, LinkStep, Terminated, vars, taskVars, Take, WorkerExit,
           LockForStart, MarkStarted, Dispatch, LockForFinish, Publish, StoreJob, Report, Age,
           GcVisit, GcTick, CleanupExit, Submit
<1>3. TypeOK /\ CutShortInv /\ StopIsKeptPrivate /\ [Next]_vars => StopIsKeptPrivate'
  <2> SUFFICES ASSUME TypeOK, CutShortInv, StopIsKeptPrivate, [Next]_vars, SharedCache
               PROVE  \A u \in Links : cached'[u] # "canceled"
    BY DEF StopIsKeptPrivate
  <2> USE DEF StopIsKeptPrivate, TypeOK
  <2>1. ASSUME NEW j \in Jobs, NEW u \in Links, StoreVerdict(j, u)
        PROVE  \A t \in Links : cached'[t] # "canceled"
    <3>1. CASE cached' = cached
      BY <3>1
    <3>2. CASE CacheReachable /\ cached' = [cached EXCEPT ![u] = verdict[j][u]]
      <4>1. verdict[j][u] # "canceled"
        BY <3>2 DEF CacheReachable, CutShortInv
      <4> QED
        BY <3>2, <4>1
    <3> QED
      BY <2>1, <3>1, <3>2 DEF StoreVerdict
  <2>2. ASSUME NEW u \in Links, CacheDrop(u)
        PROVE  \A t \in Links : cached'[t] # "canceled"
    BY <2>2 DEF CacheDrop
  <2>3. CASE UNCHANGED cached
    BY <2>3
  <2> QED
    BY <2>1, <2>2, <2>3
       DEF Next, PoolStep, WorkerStep, LinkStep, Terminated, vars, taskVars, Start, Stop, Take,
           WorkerExit, LockForStart, MarkStarted, Dispatch, LockForFinish, Publish, StoreJob,
           LookupHit, LookupMiss, CheckLink, Report, Age, GcVisit, GcTick, CleanupExit, Submit
<1> QED
  BY <1>1, <1>2, <1>3, TypeCorrect, PTL DEF Spec
-----------------------------------------------------------------------------
\* JobLifecycle counts links as the pool does.
LEMMA SameCardinality == \A S : Lifecycle!Cardinality(S) = Cardinality(S)
  BY DEF Cardinality, Lifecycle!Cardinality

\* A step of the pool is a step of the life of one job, or none at all.
LEMMA LifecycleStep ==
    ASSUME IndInv, [Next]_vars
    PROVE  [Lifecycle!Next]_Lifecycle!vars
<1> USE DEF Lifecycle!vars
<1>a. TypeOK /\ ServiceInv
  BY DEF IndInv
<1>1. ASSUME NEW j \in Jobs, NEW us \in (SUBSET Links) \ {{}}, Submit(j, us)
      PROVE  Lifecycle!Next
  <2>1. Lifecycle!Queue(j, us) \/ Lifecycle!Reject(j, us)
    BY <1>1 DEF Submit, Rejection, Lifecycle!Queue, Lifecycle!Reject, Lifecycle!Rejection
  <2> QED
    BY <2>1 DEF Lifecycle!Next
<1>2. ASSUME NEW w \in Workers, MarkStarted(w) PROVE Lifecycle!Next
  <2>1. serving[w] \in Jobs /\ Lifecycle!Begin(serving[w])
    BY <1>2, <1>a, ServedJob DEF MarkStarted, ServiceInv, Lifecycle!Begin
  <2> QED
    BY <2>1 DEF Lifecycle!Next
<1>3. ASSUME NEW w \in Workers, Publish(w) PROVE Lifecycle!Next
  <2>1. /\ serving[w] \in Jobs /\ status[serving[w]] = "in_progress"
        /\ AllReported(serving[w])
    BY <1>3, <1>a, ServedJob DEF Publish, ServiceInv
  <2>2. /\ urls[serving[w]] \subseteq Links
        /\ \A u \in Links : task[serving[w]][u] = "done" <=> u \in urls[serving[w]]
    BY <2>1 DEF IndInv, TypeOK, TaskInv, AllReported
  <2>3. /\ accessible[serving[w]] = Cardinality(Answered(serving[w]))
        /\ inaccessible[serving[w]] =
              {u \in Links : task[serving[w]][u] = "done" /\ verdict[serving[w]][u] # "ok"}
    BY <2>1 DEF IndInv, TaskInv
  <2>4. inaccessible[serving[w]] \subseteq urls[serving[w]]
    BY <2>2, <2>3
  <2>5. Answered(serving[w]) = urls[serving[w]] \ inaccessible[serving[w]]
    BY <2>2, <2>3 DEF Answered
  <2>6. accessible[serving[w]] = Cardinality(urls[serving[w]] \ inaccessible[serving[w]])
    BY <2>3, <2>5
  <2>7. Lifecycle!Complete(serving[w], inaccessible[serving[w]])
    BY <1>3, <2>1, <2>6, SameCardinality DEF Publish, Lifecycle!Complete, Lifecycle!Outcome
  <2> QED
    BY <2>1, <2>4, <2>7 DEF Lifecycle!Next
<1>4. CASE UNCHANGED jobVars
  BY <1>4 DEF jobVars
<1>5. CASE Quiet
  BY <1>4, <1>5 DEF Quiet
<1> QED
  BY <1>1, <1>2, <1>3, <1>4, <1>5, QuietSteps, DispatchQuiet
     DEF Next, PoolStep, WorkerStep, Terminated, Start, Stop, Take, WorkerExit, LockForStart,
         LockForFinish, StoreJob

\* The pool implements JobLifecycle: whatever its workers, goroutines and sweeps
\* do, a client sees a job queue or be rejected, start once, and complete once
\* with a result that splits its links.
THEOREM PoolImplementsLifecycle == Spec => ImplementsJobLifecycle
<1>1. Init => Lifecycle!Init
  BY DEF Init, Lifecycle!Init
<1>2. IndInv /\ [Next]_vars => [Lifecycle!Next]_Lifecycle!vars
  BY LifecycleStep
<1> QED
  BY <1>1, <1>2, IndInvCorrect, PTL DEF Spec, ImplementsJobLifecycle, Lifecycle!Spec
-----------------------------------------------------------------------------
(* The clients *)

\* The clients change nothing of the pool but by Submit.
LEMMA PoolGoesOn == [ClientsNext]_allVars => [Next]_vars
  BY DEF ClientsNext, allVars, SubmitAndWait, SubmitAndRender, CallerStep, WaitGetJob, WaitIsComplete,
         WaitTimeout, TakeAnswer, DeadlinePasses, PollTick, FetchStep, ServeLookup,
         ServeSnapshot, Deliver, LosePoll, Next

\* What a step of the pool may do to a job.
LEMMA JobMoves ==
    ASSUME IndInv, [Next]_vars, NEW j \in Jobs
    PROVE  \/ status'[j] = status[j] /\ result'[j] = result[j]
           \/ /\ status[j] = "absent"
              /\ \/ status'[j] = "pending" /\ result'[j] = result[j]
                 \/ status'[j] = "failed" /\ result'[j] = Rejection
           \/ status[j] = "pending" /\ status'[j] = "in_progress" /\ result'[j] = result[j]
           \/ status[j] = "in_progress" /\ status'[j] = "completed" /\ result'[j] = Published(j)
<1>a. TypeOK /\ ServiceInv
  BY DEF IndInv
<1>1. ASSUME NEW i \in Jobs, NEW us \in (SUBSET Links) \ {{}}, Submit(i, us)
      PROVE  \/ status'[j] = status[j] /\ result'[j] = result[j]
             \/ /\ status[j] = "absent"
                /\ \/ status'[j] = "pending" /\ result'[j] = result[j]
                   \/ status'[j] = "failed" /\ result'[j] = Rejection
  BY <1>1, <1>a DEF Submit, TypeOK
<1>2. ASSUME NEW w \in Workers, MarkStarted(w)
      PROVE  \/ status'[j] = status[j] /\ result'[j] = result[j]
             \/ status[j] = "pending" /\ status'[j] = "in_progress" /\ result'[j] = result[j]
  BY <1>2, <1>a DEF MarkStarted, TypeOK, ServiceInv
<1>3. ASSUME NEW w \in Workers, Publish(w)
      PROVE  \/ status'[j] = status[j] /\ result'[j] = result[j]
             \/ status[j] = "in_progress" /\ status'[j] = "completed" /\ result'[j] = Published(j)
  BY <1>3, <1>a DEF Publish, TypeOK, ServiceInv, Published
<1>4. CASE UNCHANGED jobVars
  BY <1>4 DEF jobVars
<1> QED
  BY <1>1, <1>2, <1>3, <1>4, QuietSteps, DispatchQuiet
     DEF Next, PoolStep, WorkerStep, Terminated, Start, Stop, Take, WorkerExit, LockForStart,
         LockForFinish, StoreJob, Quiet

\* A rejected job says so in its result.
FailedInv == \A j \in Jobs : status[j] = "failed" => result[j] = Rejection

LEMMA FailedStep == IndInv /\ FailedInv /\ [Next]_vars => FailedInv'
  BY JobMoves DEF FailedInv

\* A job that is over has a result, and a result means that it is over.
LEMMA FinishedHasResult ==
    ASSUME IndInv, FailedInv, NEW j \in Jobs
    PROVE  Finished(j) <=> result[j] # NoResult
<1>1. status[j] \in Statuses
  BY DEF IndInv, TypeOK
<1>2. CASE status[j] = "completed"
  <2>1. result[j] = Published(j)
    BY <1>2 DEF IndInv, ResultInv, Published
  <2>2. Published(j) \in Results
    <3>1. Cardinality(urls[j]) \in Nat
      BY LinkSets DEF IndInv, TypeOK
    <3> QED
      BY <3>1 DEF Published, Results, IndInv, TypeOK
  <2> QED
    BY <1>2, <2>1, <2>2, ResultAssumption DEF Finished
<1>3. CASE status[j] = "failed"
  <2>1. Rejection \in Results
    BY DEF Rejection, Results
  <2> QED
    BY <1>3, <2>1, ResultAssumption DEF Finished, FailedInv
<1>4. CASE status[j] \in {"absent", "pending", "in_progress"}
  BY <1>4 DEF Finished, IndInv, ResultInv
<1> QED
  BY <1>1, <1>2, <1>3, <1>4 DEF Statuses

LEMMA FinishedStays ==
    ASSUME IndInv, [Next]_vars, NEW j \in Jobs, Finished(j)
    PROVE  Finished(j)' /\ status'[j] = status[j] /\ result'[j] = result[j]
  BY JobMoves DEF Finished

\* A worker leaves the final critical section by publishing only.
LEMMA FinalizingEnds ==
    ASSUME IndInv, [Next]_vars, NEW w \in Workers, step[w] = "finalizing"
    PROVE  Publish(w) \/ (step'[w] = "finalizing" /\ serving'[w] = serving[w])
<1>a. TypeOK
  BY DEF IndInv
<1>1. CASE Start
  <2>1. FALSE
    BY <1>1 DEF Start, IndInv, ServiceInv
  <2> QED
    BY <2>1
<1>2. CASE Stop \/ (\E j \in Jobs, us \in (SUBSET Links) \ {{}} : Submit(j, us)) \/ Quiet
  BY <1>2 DEF Stop, Submit, Quiet, workerVars
<1>3. ASSUME NEW x \in Workers,
             \/ Take(x) \/ WorkerExit(x) \/ LockForStart(x) \/ MarkStarted(x)
             \/ LockForFinish(x) \/ StoreJob(x)
      PROVE  step'[w] = "finalizing" /\ serving'[w] = serving[w]
  BY <1>3, <1>a DEF Take, WorkerExit, LockForStart, MarkStarted, LockForFinish, StoreJob, TypeOK
<1>4. ASSUME NEW x \in Workers, Publish(x), x # w
      PROVE  step'[w] = "finalizing" /\ serving'[w] = serving[w]
  BY <1>4, <1>a DEF Publish, TypeOK
<1> QED
  BY <1>1, <1>2, <1>3, <1>4, QuietSteps, DispatchQuiet
     DEF Next, PoolStep, WorkerStep, Terminated

\* Once the outcome of a job is being written it is fixed.
LEMMA OutcomeStays ==
    ASSUME IndInv, FailedInv, [Next]_vars, NEW j \in Jobs, Decided(j)
    PROVE  Decided(j)' /\ Outcome(j)' = Outcome(j)
<1>1. CASE Finished(j)
  BY <1>1, FinishedHasResult, FinishedStays DEF Decided, Outcome
<1>2. CASE ~Finished(j)
  <2>1. PICK w \in Workers : serving[w] = j /\ step[w] = "finalizing"
    BY <1>2 DEF Decided, LockedAt
  <2>2. status[j] = "in_progress" /\ AllReported(j)
    BY <2>1 DEF IndInv, ServiceInv
  <2>3. Published(j)' = Published(j)
    BY <2>2, TallyStays DEF Published
  <2>4. result[j] = NoResult /\ result'[j] \in {NoResult, Published(j)}
    BY <1>2, <2>2, JobMoves, FinishedHasResult
  <2>5. Outcome(j)' = Outcome(j)
    BY <2>3, <2>4 DEF Outcome
  <2>6. CASE Publish(w)
    BY <2>1, <2>5, <2>6 DEF Publish, Decided, Finished, IndInv, TypeOK
  <2>7. CASE step'[w] = "finalizing" /\ serving'[w] = serving[w]
    BY <2>1, <2>5, <2>7 DEF Decided, LockedAt
  <2> QED
    BY <2>1, <2>6, <2>7, FinalizingEnds
<1> QED
  BY <1>1, <1>2
-----------------------------------------------------------------------------
\* A request that has seen its job over keeps what it ended with.
SyncInv ==
    /\ caller \in [Jobs -> {"none", "polling", "loaded", "matched", "answered",
                            "notfound", "timedout"}]
    /\ overdue \in SUBSET Jobs
    /\ reply \in [Jobs -> [status : Statuses, result : Results \cup {NoResult}]]
    /\ \A j \in Jobs :
          /\ caller[j] \in {"matched", "answered"} => Finished(j)
          /\ caller[j] = "answered" => reply[j] = Snapshot(status[j], result[j])

LEMMA SyncStep == IndInv /\ FailedInv /\ SyncInv /\ [ClientsNext]_allVars => SyncInv'
<1> SUFFICES ASSUME IndInv, FailedInv, SyncInv, [ClientsNext]_allVars PROVE SyncInv'
  OBVIOUS
<1>0. [Next]_vars /\ TypeOK
  BY PoolGoesOn DEF IndInv
<1>1. \A j \in Jobs : Finished(j) =>
         Finished(j)' /\ status'[j] = status[j] /\ result'[j] = result[j]
  BY <1>0, FinishedStays
<1>2. CASE UNCHANGED callerVars
  BY <1>1, <1>2 DEF SyncInv, callerVars, Snapshot
<1>3. ASSUME NEW j \in Jobs, NEW us \in (SUBSET Links) \ {{}}, SubmitAndWait(j, us) PROVE SyncInv'
  BY <1>1, <1>3 DEF SubmitAndWait, SyncInv, Snapshot
<1>4. ASSUME NEW j \in Jobs, DeadlinePasses(j) \/ WaitGetJob(j) \/ WaitTimeout(j) PROVE SyncInv'
  BY <1>1, <1>4 DEF DeadlinePasses, WaitGetJob, WaitTimeout, SyncInv, Snapshot
<1>5. ASSUME NEW j \in Jobs, WaitIsComplete(j) PROVE SyncInv'
  <2>1. UNCHANGED <<status, result, overdue, reply>>
    BY <1>5 DEF WaitIsComplete, vars, jobVars
  <2>2. caller' = [caller EXCEPT ![j] = IF Finished(j) THEN "matched" ELSE "polling"]
    BY <1>5 DEF WaitIsComplete
  <2> QED
    BY <1>1, <2>1, <2>2 DEF SyncInv, Snapshot
<1>6. ASSUME NEW j \in Jobs, TakeAnswer(j) PROVE SyncInv'
  <2>1. Snapshot(status[j], result[j]) \in [status : Statuses, result : Results \cup {NoResult}]
    BY <1>0 DEF TypeOK, Snapshot
  <2>2. UNCHANGED <<status, result, overdue>>
    BY <1>6 DEF TakeAnswer, vars, jobVars
  <2>3. /\ caller' = [caller EXCEPT ![j] = "answered"]
        /\ reply' = [reply EXCEPT ![j] = Snapshot(status[j], result[j])]
        /\ Finished(j)
    BY <1>6 DEF TakeAnswer, SyncInv
  <2> QED
    BY <2>1, <2>2, <2>3 DEF SyncInv, Finished
<1>7. \/ UNCHANGED callerVars
      \/ \E j \in Jobs : \/ \E us \in (SUBSET Links) \ {{}} : SubmitAndWait(j, us)
                         \/ DeadlinePasses(j) \/ CallerStep(j)
  BY DEF ClientsNext, allVars, clientVars, SubmitAndRender, PollTick, FetchStep, ServeLookup,
         ServeSnapshot, Deliver, LosePoll
<1> QED
  BY <1>2, <1>3, <1>4, <1>5, <1>6, <1>7 DEF CallerStep

\* What the clients rest on is true of the pool that they use.
LEMMA PoolUnderClients == ClientsSpec => [](IndInv /\ FailedInv)
<1>1. ClientsInit => Init
  BY DEF ClientsInit
<1>2. ClientsSpec => Spec
  BY <1>1, PoolGoesOn, PTL DEF ClientsSpec, Spec
<1>3. Init => FailedInv
  BY DEF Init, FailedInv
<1>4. Spec => [](IndInv /\ FailedInv)
  BY <1>3, FailedStep, IndInvCorrect, PTL DEF Spec
<1> QED
  BY <1>2, <1>4, PTL

(***************************************************************************)
(* A synchronous request that is answered with a job reports the final     *)
(* status and result of that job, copied without the lock (WaitForJob,     *)
(* performLinkCheck).                                                      *)
(***************************************************************************)
THEOREM SyncAnswerCorrect == ClientsSpec => []SyncAnswerIsFinal
<1>1. ClientsInit => SyncInv
  BY DEF ClientsInit, SyncInv, Snapshot, Statuses
<1>2. IndInv /\ FailedInv /\ SyncInv => SyncAnswerIsFinal
  BY FinishedHasResult DEF SyncInv, SyncAnswerIsFinal
<1> QED
  BY <1>1, <1>2, SyncStep, PoolUnderClients, PTL DEF ClientsSpec
-----------------------------------------------------------------------------
\* A page shows a job that was submitted, and counts what it sends.
PagesInv ==
    /\ page \in [Jobs -> {"none", "polling", "done", "gaveup"}]
    /\ attempts \in [Jobs -> 0..(MaxAttempts + 1)]
    /\ text \in [Jobs -> Statuses \cup {Torn, "timeout"}]
    /\ \A j \in Jobs :
          /\ status[j] = "absent" => page[j] = "none"
          /\ page[j] = "none" => attempts[j] = 0
          /\ page[j] = "polling" => attempts[j] <= MaxAttempts

Polls == [at : {"free", "sent", "loaded", "ready"},
          job : Jobs \cup {NoJob}, status : Statuses \cup {Torn},
          result : Results \cup {NoResult}, settled : BOOLEAN]

\* Result r may be shown for job j: it contradicts nothing in the outcome.
Agrees(j, r) == Decided(j) /\ r \in Parts(Outcome(j))

\* What poll p has read is true of the job it asks for, and if p has found the
\* job settled, it is all there is.
PollOK(p) ==
    /\ p.at # "free" => p.job \in Jobs /\ page[p.job] # "none"
    /\ p.at \in {"loaded", "ready"} /\ p.settled => Finished(p.job)
    /\ p.at = "ready" =>
          /\ p.settled => p.status = status[p.job] /\ p.result = result[p.job]
          /\ p.result # NoResult => Agrees(p.job, p.result)

PollsInv == fetch \in [Fetches -> Polls] /\ \A f \in Fetches : PollOK(fetch[f])

\* What a page displays was read by one of its polls.
DisplayInv == shown \in [Jobs -> Results \cup {NoResult}] /\ ShownResultAgrees

\* A part of a result is of the type of a result.
LEMMA ReadTypes ==
    ASSUME IndInv, FailedInv, NEW j \in Jobs
    PROVE  /\ StatusReads(j) \subseteq Statuses \cup {Torn}
           /\ ResultReads(j) \subseteq Results \cup {NoResult}
<1>1. Cardinality(urls[j]) \in Nat
  BY LinkSets DEF IndInv, TypeOK
<1>2. Published(j) \in Results
  BY <1>1 DEF Published, Results, IndInv, TypeOK
<1>3. Decided(j) => Outcome(j) \in Results
  BY <1>2, FinishedHasResult DEF Outcome, IndInv, TypeOK
<1>4. ASSUME NEW r \in Results PROVE Parts(r) \subseteq Results
  BY DEF Parts, Results
<1> QED
  BY <1>3, <1>4 DEF StatusReads, ResultReads, Statuses

\* What a finished job carries is part of itself.
LEMMA FinishedAgrees ==
    ASSUME IndInv, FailedInv, NEW j \in Jobs, Finished(j)
    PROVE  Agrees(j, result[j])
<1>1. result[j] \in Results
  BY FinishedHasResult DEF IndInv, TypeOK
<1>2. result[j] \in Parts(result[j])
  BY <1>1 DEF Parts, Results
<1> QED
  BY <1>2, FinishedHasResult DEF Agrees, Decided, Outcome

LEMMA PagesStep == IndInv /\ PagesInv /\ PollsInv /\ [ClientsNext]_allVars => PagesInv'
<1> SUFFICES ASSUME IndInv, PagesInv, PollsInv, [ClientsNext]_allVars PROVE PagesInv'
  OBVIOUS
<1>0. [Next]_vars /\ TypeOK
  BY PoolGoesOn DEF IndInv
<1>1. \A j \in Jobs : status'[j] = "absent" => status[j] = "absent"
  BY <1>0, JobMoves
<1>2. CASE UNCHANGED <<page, attempts, text>>
  BY <1>1, <1>2 DEF PagesInv
<1>3. ASSUME NEW j \in Jobs, NEW us \in (SUBSET Links) \ {{}}, SubmitAndRender(j, us)
      PROVE  PagesInv'
  <2>1. status[j] = "absent" /\ status'[j] # "absent"
    BY <1>0, <1>3 DEF SubmitAndRender, Submit, TypeOK
  <2>2. /\ page' = [page EXCEPT ![j] = "polling"] /\ text' = [text EXCEPT ![j] = "pending"]
        /\ attempts' = attempts
    BY <1>3 DEF SubmitAndRender
  <2> QED
    BY <1>1, <2>1, <2>2, AttemptsAssumption DEF PagesInv, Statuses
<1>4. ASSUME NEW j \in Jobs, PollTick(j) PROVE PagesInv'
  <2>1. UNCHANGED status /\ page[j] = "polling" /\ attempts' = [attempts EXCEPT ![j] = @ + 1]
    BY <1>4 DEF PollTick, vars, jobVars
  <2>2. attempts[j] \in Nat /\ attempts[j] <= MaxAttempts /\ status[j] # "absent"
    BY <2>1, AttemptsAssumption DEF PagesInv
  <2>3. CASE /\ page' = [page EXCEPT ![j] = "gaveup"]
             /\ text' = [text EXCEPT ![j] = "timeout"]
    BY <2>1, <2>2, <2>3, AttemptsAssumption DEF PagesInv
  <2>4. CASE attempts[j] < MaxAttempts /\ UNCHANGED <<page, text>>
    BY <2>1, <2>2, <2>4, AttemptsAssumption DEF PagesInv
  <2> QED
    BY <1>4, <2>3, <2>4 DEF PollTick
<1>5. ASSUME NEW f \in Fetches, Deliver(f) PROVE PagesInv'
  <2>1. PICK j \in Jobs : j = fetch[f].job /\ page[j] # "none"
    BY <1>5 DEF Deliver, PollsInv, PollOK
  <2>2. fetch[f].status \in Statuses \cup {Torn}
    BY DEF PollsInv, Polls
  <2>3. /\ UNCHANGED <<status, attempts>>
        /\ text' = [text EXCEPT ![j] = fetch[f].status]
        /\ page' = [page EXCEPT ![j] = "done"] \/ page' = [page EXCEPT ![j] = @]
    BY <1>5, <2>1 DEF Deliver, vars, jobVars
  <2> QED
    BY <2>1, <2>2, <2>3 DEF PagesInv
<1>6. \/ UNCHANGED <<page, attempts, text>>
      \/ \E j \in Jobs : PollTick(j) \/ \E us \in (SUBSET Links) \ {{}} : SubmitAndRender(j, us)
      \/ \E f \in Fetches : Deliver(f)
  BY DEF ClientsNext, allVars, clientVars, pageVars, SubmitAndWait, CallerStep, WaitGetJob,
         WaitIsComplete, WaitTimeout, TakeAnswer, DeadlinePasses, FetchStep, ServeLookup,
         ServeSnapshot, LosePoll
<1> QED
  BY <1>2, <1>3, <1>4, <1>5, <1>6

LEMMA PageStays ==
    ASSUME PagesInv, PollsInv, [ClientsNext]_allVars, NEW j \in Jobs, page[j] # "none"
    PROVE  page'[j] # "none"
<1>1. ASSUME NEW f \in Fetches, Deliver(f) PROVE page'[j] # "none"
  BY <1>1 DEF Deliver, PagesInv
<1>2. ASSUME NEW i \in Jobs, PollTick(i) \/ \E us \in (SUBSET Links) \ {{}} : SubmitAndRender(i, us)
      PROVE  page'[j] # "none"
  BY <1>2 DEF PollTick, SubmitAndRender, PagesInv
<1> QED
  BY <1>1, <1>2 DEF ClientsNext, allVars, clientVars, pageVars, SubmitAndWait, CallerStep, WaitGetJob,
     WaitIsComplete, WaitTimeout, TakeAnswer, DeadlinePasses, FetchStep, ServeLookup,
     ServeSnapshot, LosePoll

\* What was read stays true, whatever the pool and the clients do.
LEMMA PollStays ==
    ASSUME IndInv, FailedInv, PagesInv, PollsInv, [ClientsNext]_allVars,
           NEW p \in Polls, PollOK(p)
    PROVE  PollOK(p)'
<1>0. [Next]_vars
  BY PoolGoesOn
<1>1. CASE p.at = "free"
  BY <1>1 DEF PollOK
<1>2. CASE p.at # "free"
  <2>1. p.job \in Jobs /\ page[p.job] # "none"
    BY <1>2 DEF PollOK
  <2>2. page'[p.job] # "none"
    BY <2>1, PageStays
  <2>3. Finished(p.job) => /\ Finished(p.job)' /\ status'[p.job] = status[p.job]
                           /\ result'[p.job] = result[p.job]
    BY <1>0, <2>1, FinishedStays
  <2>4. Agrees(p.job, p.result) => Agrees(p.job, p.result)'
    BY <1>0, <2>1, OutcomeStays DEF Agrees, Parts
  <2> QED
    BY <2>1, <2>2, <2>3, <2>4 DEF PollOK
<1> QED
  BY <1>1, <1>2

\* A poll is sent with nothing read, and each read adds what the job shows.
LEMMA PollsStep ==
    IndInv /\ FailedInv /\ PagesInv /\ PollsInv /\ [ClientsNext]_allVars => PollsInv'
<1> SUFFICES ASSUME IndInv, FailedInv, PagesInv, PollsInv, [ClientsNext]_allVars PROVE PollsInv'
  OBVIOUS
<1>1. ASSUME NEW f \in Fetches, NEW p \in Polls, PollOK(p), fetch' = [fetch EXCEPT ![f] = p]
      PROVE  PollsInv'
  <2>1. ASSUME NEW g \in Fetches PROVE PollOK(fetch[g])'
    <3>1. PICK q \in Polls : q = fetch'[g] /\ PollOK(q)
      BY <1>1 DEF PollsInv
    <3>2. PollOK(q)'
      BY <3>1, PollStays
    <3> QED
      BY <3>1, <3>2 DEF PollOK, Agrees, Parts
  <2>2. fetch' \in [Fetches -> Polls]
    BY <1>1 DEF PollsInv
  <2> QED
    BY <2>1, <2>2 DEF PollsInv
<1>2. CASE UNCHANGED fetch
  <2>1. ASSUME NEW g \in Fetches PROVE PollOK(fetch[g])'
    <3>1. PICK q \in Polls : q = fetch'[g] /\ PollOK(q)
      BY <1>2 DEF PollsInv
    <3>2. PollOK(q)'
      BY <3>1, PollStays
    <3> QED
      BY <3>1, <3>2 DEF PollOK, Agrees, Parts
  <2> QED
    BY <1>2, <2>1 DEF PollsInv
<1>3. FreeFetch \in Polls /\ PollOK(FreeFetch)
  BY DEF FreeFetch, Polls, PollOK, Statuses
<1>4. ASSUME NEW j \in Jobs, PollTick(j) PROVE PollsInv'
  <2>1. CASE UNCHANGED fetch
    BY <1>2, <2>1
  <2>2. ASSUME NEW f \in Fetches,
               fetch' = [fetch EXCEPT ![f] = [FreeFetch EXCEPT !.at = "sent", !.job = j]]
        PROVE  PollsInv'
    <3> DEFINE p == [FreeFetch EXCEPT !.at = "sent", !.job = j]
    <3>1. page[j] # "none"
      BY <1>4 DEF PollTick
    <3>2. p \in Polls /\ PollOK(p)
      BY <3>1 DEF FreeFetch, Polls, PollOK, Statuses
    <3> QED
      BY <1>1, <2>2, <3>2
  <2> QED
    BY <1>4, <2>1, <2>2 DEF PollTick
<1>5. ASSUME NEW f \in Fetches, ServeLookup(f) PROVE PollsInv'
  <2> DEFINE j == fetch[f].job
             settled == Finished(j) /\ \A w \in Workers : serving[w] # j
             p == [fetch[f] EXCEPT !.at = "loaded", !.settled = settled]
  <2>1. fetch[f] \in Polls /\ fetch[f].at = "sent" /\ PollOK(fetch[f])
    BY <1>5 DEF ServeLookup, PollsInv
  <2>2. settled \in BOOLEAN
    BY DEF Finished
  <2>3. p \in Polls
    BY <2>1, <2>2 DEF Polls
  <2>4. p.at = "loaded" /\ p.job = j /\ (p.settled => Finished(j))
    BY <2>1 DEF Polls
  <2>5. PollOK(p)
    BY <2>1, <2>4 DEF PollOK
  <2>6. fetch' = [fetch EXCEPT ![f] = p] \/ fetch' = [fetch EXCEPT ![f] = FreeFetch]
    BY <1>5 DEF ServeLookup
  <2> HIDE DEF p
  <2> QED
    BY <1>1, <1>3, <2>3, <2>5, <2>6
<1>6. ASSUME NEW f \in Fetches, ServeSnapshot(f) PROVE PollsInv'
  <2> DEFINE j == fetch[f].job
             p(s, r) == [fetch[f] EXCEPT !.at = "ready", !.status = s, !.result = r]
  <2>1. fetch[f] \in Polls /\ fetch[f].at = "loaded" /\ PollOK(fetch[f])
    BY <1>6 DEF ServeSnapshot, PollsInv
  <2>2. j \in Jobs /\ page[j] # "none" /\ (fetch[f].settled => Finished(j))
    BY <2>1 DEF PollOK
  <2>3. PICK s \in (IF fetch[f].settled THEN {status[j]} ELSE StatusReads(j)),
             r \in (IF fetch[f].settled THEN {result[j]} ELSE ResultReads(j)) :
               fetch' = [fetch EXCEPT ![f] = p(s, r)]
    BY <1>6 DEF ServeSnapshot
  <2>4. s \in Statuses \cup {Torn} /\ r \in Results \cup {NoResult}
    BY <2>2, ReadTypes DEF IndInv, TypeOK
  <2>5. p(s, r) \in Polls
    BY <2>1, <2>4 DEF Polls
  <2>6. /\ p(s, r).at = "ready" /\ p(s, r).job = j /\ p(s, r).status = s /\ p(s, r).result = r
        /\ p(s, r).settled = fetch[f].settled
    BY <2>1 DEF Polls
  <2>7. fetch[f].settled => s = status[j] /\ r = result[j]
    BY <2>3
  <2>8. r # NoResult => Agrees(j, r)
    <3>1. CASE fetch[f].settled
      BY <2>2, <2>7, <3>1, FinishedAgrees
    <3>2. CASE ~fetch[f].settled
      BY <2>3, <3>2 DEF ResultReads, Agrees
    <3> QED
      BY <3>1, <3>2
  <2>9. PollOK(p(s, r))
    BY <2>2, <2>6, <2>7, <2>8 DEF PollOK
  <2> HIDE DEF p
  <2> QED
    BY <1>1, <2>3, <2>5, <2>9
<1>7. ASSUME NEW f \in Fetches, Deliver(f) \/ LosePoll(f) PROVE PollsInv'
  BY <1>1, <1>3, <1>7 DEF Deliver, LosePoll
<1>8. \/ UNCHANGED fetch
      \/ \E j \in Jobs : PollTick(j)
      \/ \E f \in Fetches : FetchStep(f) \/ LosePoll(f)
  BY DEF ClientsNext, allVars, clientVars, SubmitAndWait, SubmitAndRender, CallerStep, WaitGetJob,
         WaitIsComplete, WaitTimeout, TakeAnswer, DeadlinePasses
<1> QED
  BY <1>2, <1>4, <1>5, <1>6, <1>7, <1>8 DEF FetchStep

\* The page shows what a poll read, and that remains what the job shows.
LEMMA DisplayStep ==
    IndInv /\ FailedInv /\ PollsInv /\ DisplayInv /\ [ClientsNext]_allVars => DisplayInv'
<1> SUFFICES ASSUME IndInv, FailedInv, PollsInv, DisplayInv, [ClientsNext]_allVars
             PROVE  DisplayInv'
  OBVIOUS
<1>1. [Next]_vars
  BY PoolGoesOn
<1>2. \A j \in Jobs : \A r : Agrees(j, r) => Agrees(j, r)'
  BY <1>1, OutcomeStays DEF Agrees, Parts
<1>3. CASE UNCHANGED shown
  <2>1. ASSUME NEW j \in Jobs, shown'[j] # NoResult PROVE Agrees(j, shown[j])'
    BY <1>2, <1>3, <2>1 DEF DisplayInv, ShownResultAgrees, Agrees, Parts
  <2> QED
    BY <1>3, <2>1 DEF DisplayInv, ShownResultAgrees, Agrees
<1>4. ASSUME NEW f \in Fetches, Deliver(f) PROVE DisplayInv'
  <2>1. PICK p \in Polls : p = fetch[f] /\ PollOK(p) /\ p.at = "ready"
    BY <1>4 DEF Deliver, PollsInv
  <2>2. p.job \in Jobs /\ (p.result # NoResult => Agrees(p.job, p.result))
    BY <2>1 DEF PollOK
  <2>3. p.result \in Results \cup {NoResult}
    BY DEF Polls
  <2>4. PICK r \in {p.result, shown[p.job]} :
           /\ shown' = [shown EXCEPT ![p.job] = r]
           /\ r = p.result => (r # NoResult \/ r = shown[p.job])
    BY <1>4, <2>1, <2>2 DEF Deliver
  <2>5. shown' \in [Jobs -> Results \cup {NoResult}]
    BY <2>2, <2>3, <2>4 DEF DisplayInv
  <2>6. r # NoResult => Agrees(p.job, r)
    BY <2>2, <2>4 DEF DisplayInv, ShownResultAgrees, Agrees
  <2>7. \A j \in Jobs : shown'[j] # NoResult => Agrees(j, shown'[j])
    BY <2>2, <2>4, <2>6 DEF DisplayInv, ShownResultAgrees, Agrees
  <2>8. \A j \in Jobs : shown'[j] # NoResult => Decided(j)' /\ shown'[j] \in Parts(Outcome(j)')
    BY <1>1, <2>7, OutcomeStays DEF Agrees
  <2> QED
    BY <2>5, <2>8 DEF DisplayInv, ShownResultAgrees, Parts
<1>5. UNCHANGED shown \/ \E f \in Fetches : Deliver(f)
  BY DEF ClientsNext, allVars, clientVars, pageVars, SubmitAndWait, SubmitAndRender, CallerStep,
         WaitGetJob, WaitIsComplete, WaitTimeout, TakeAnswer, DeadlinePasses, PollTick, FetchStep,
         ServeLookup, ServeSnapshot, LosePoll
<1> QED
  BY <1>3, <1>4, <1>5

\* All of it together holds from the start and is kept.
LEMMA PagesCorrect ==
    ClientsSpec => [](IndInv /\ FailedInv /\ SyncInv /\ PagesInv /\ PollsInv /\ DisplayInv)
<1>1. ClientsInit => SyncInv /\ PagesInv /\ PollsInv /\ DisplayInv
  <2> SUFFICES ASSUME ClientsInit PROVE SyncInv /\ PagesInv /\ PollsInv /\ DisplayInv
    OBVIOUS
  <2>1. SyncInv
    BY DEF ClientsInit, SyncInv, Snapshot, Statuses
  <2>2. PagesInv
    BY AttemptsAssumption DEF ClientsInit, PagesInv, Statuses
  <2>3. PollsInv
    BY DEF ClientsInit, PollsInv, Polls, PollOK, FreeFetch, Statuses
  <2>4. DisplayInv
    BY DEF ClientsInit, DisplayInv, ShownResultAgrees
  <2> QED
    BY <2>1, <2>2, <2>3, <2>4
<1> QED
  BY <1>1, SyncStep, PagesStep, PollsStep, DisplayStep, PoolUnderClients, PTL DEF ClientsSpec

(***************************************************************************)
(* The second Store of a job makes the unlocked reads of HandleGetJob safe *)
(* for every later poll: it finds the status and the result that the job   *)
(* keeps.  The timer of a page never exceeds its limit.                    *)
(***************************************************************************)
THEOREM ClientsInvCorrect == ClientsSpec => []ClientsInv
<1>1. SyncInv /\ PagesInv /\ PollsInv /\ DisplayInv => ClientsTypeOK
  BY DEF SyncInv, PagesInv, PollsInv, Polls, DisplayInv, ClientsTypeOK
<1>2. IndInv /\ FailedInv /\ PollsInv => SettledSnapshotIsFinal
  <2> SUFFICES ASSUME IndInv, FailedInv, PollsInv, NEW f \in Fetches,
                      fetch[f].at = "ready", fetch[f].settled
               PROVE  /\ Finished(fetch[f].job)
                      /\ fetch[f].status = status[fetch[f].job]
                      /\ fetch[f].result = result[fetch[f].job]
                      /\ fetch[f].result # NoResult
    BY DEF SettledSnapshotIsFinal
  <2>1. /\ fetch[f].job \in Jobs /\ Finished(fetch[f].job)
        /\ fetch[f].status = status[fetch[f].job]
        /\ fetch[f].result = result[fetch[f].job]
    BY DEF PollsInv, PollOK
  <2> QED
    BY <2>1, FinishedHasResult
<1>3. IndInv /\ FailedInv /\ SyncInv /\ PagesInv /\ PollsInv /\ DisplayInv => ClientsInv
  BY <1>1, <1>2 DEF ClientsInv
<1> QED
  BY <1>3, PagesCorrect, PTL

(***************************************************************************)
(* What a page displays as the result of its job contradicts nothing in    *)
(* the outcome of the job, in whatever order its polls come back and       *)
(* although no lock orders what each of them reads (HandleGetJob,          *)
(* pollLinkCheckStatus).                                                   *)
(***************************************************************************)
THEOREM ShownCorrect == ClientsSpec => []ShownResultAgrees
<1>1. DisplayInv => ShownResultAgrees
  BY DEF DisplayInv
<1> QED
  BY <1>1, PagesCorrect, PTL
=============================================================================
