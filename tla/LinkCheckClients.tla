-------------------------- MODULE LinkCheckClients --------------------------
(***************************************************************************)
(* The clients of the link checker, composed with it: a synchronous        *)
(* request that waits for its job (Service.performLinkCheck, WaitForJob),  *)
(* and the result page of the web UI whose script polls GET /api/jobs/{id} *)
(* (app.js), each poll served by HandleGetJob.                             *)
(*                                                                         *)
(* HandleGetJob reads the job without its lock, so nothing orders its two  *)
(* reads or makes the writes of a worker visible to them, except those     *)
(* made before the Store through which the job was found.  Every other     *)
(* write may be seen or missed, whatever was seen of the rest: of a string *)
(* - two words - half (Torn), of a result the pointer without the fields   *)
(* behind it.  A read only ever gains values as the job goes on, so one    *)
(* late step for both reads has every outcome that two earlier ones have.  *)
(***************************************************************************)
EXTENDS LinkCheckPool

CONSTANTS
    Fetches,      \* polls of a page that can be under way at once (a bound)
    MaxAttempts,  \* maxAttempts of app.js (30)
    Torn          \* a status read half before and half after a write

ASSUME AttemptsAssumption == MaxAttempts \in Nat

VARIABLES
    caller,    \* caller[j]: the synchronous request that submitted j
    overdue,   \* jobs whose synchronous request is past its deadline
    reply,     \* reply[j]: the status and result that request answers with
    page,      \* page[j]: the interval timer of the page showing j
    attempts,  \* attempts[j]: ticks of that timer
    fetch,     \* fetch[f]: a poll on its way, and what it has read so far
    text,      \* text[j]: the status the page displays
    shown      \* shown[j]: the result the page displays, or NoResult

callerVars == <<caller, overdue, reply>>
pageVars == <<page, attempts, text, shown>>
clientVars == <<callerVars, pageVars, fetch>>
allVars == <<vars, clientVars>>

Snapshot(s, r) == [status |-> s, result |-> r]

FreeFetch == [at |-> "free", job |-> NoJob, status |-> "absent",
              result |-> NoResult, settled |-> FALSE]

ClientsTypeOK ==
    /\ caller \in [Jobs -> {"none", "polling", "loaded", "matched", "answered",
                            "notfound", "timedout"}]
    /\ overdue \in SUBSET Jobs
    /\ reply \in [Jobs -> [status : Statuses, result : Results \cup {NoResult}]]
    /\ page \in [Jobs -> {"none", "polling", "done", "gaveup"}]
    /\ attempts \in [Jobs -> 0..(MaxAttempts + 1)]
    /\ fetch \in [Fetches ->
         [at : {"free", "sent", "loaded", "ready"},
          job : Jobs \cup {NoJob}, status : Statuses \cup {Torn},
          result : Results \cup {NoResult}, settled : BOOLEAN]]
    /\ text \in [Jobs -> Statuses \cup {Torn, "timeout"}]
    /\ shown \in [Jobs -> Results \cup {NoResult}]

ClientsInit ==
    /\ Init
    /\ caller = [j \in Jobs |-> "none"]
    /\ overdue = {}
    /\ reply = [j \in Jobs |-> Snapshot("absent", NoResult)]
    /\ page = [j \in Jobs |-> "none"]
    /\ attempts = [j \in Jobs |-> 0]
    /\ fetch = [f \in Fetches |-> FreeFetch]
    /\ text = [j \in Jobs |-> "absent"]
    /\ shown = [j \in Jobs |-> NoResult]
-----------------------------------------------------------------------------
(* performLinkCheck: a synchronous request waits, an asynchronous one        *)
(* renders a page that polls.                                                *)

SubmitAndWait(j, us) ==
    /\ Submit(j, us)
    /\ caller' = [caller EXCEPT ![j] = "polling"]
    /\ UNCHANGED <<overdue, reply, pageVars, fetch>>

SubmitAndRender(j, us) ==
    /\ Submit(j, us)
    /\ page' = [page EXCEPT ![j] = "polling"]
    /\ text' = [text EXCEPT ![j] = "pending"]
    /\ UNCHANGED <<callerVars, attempts, shown, fetch>>
-----------------------------------------------------------------------------
(* WaitForJob *)

DeadlinePasses(j) ==
    /\ caller[j] \in {"polling", "loaded"}
    /\ j \notin overdue
    /\ overdue' = overdue \cup {j}
    /\ UNCHANGED <<vars, caller, reply, pageVars, fetch>>

\* Variant: the loop does not look at its deadline.
WaitGetJobForEver(j) ==
    /\ caller[j] = "polling"
    /\ caller' = [caller EXCEPT ![j] = IF j \in results THEN "loaded" ELSE "notfound"]
    /\ UNCHANGED <<vars, overdue, reply, pageVars, fetch>>

WaitGetJob(j) ==
    /\ caller[j] = "polling"
    /\ j \notin overdue
    /\ caller' = [caller EXCEPT ![j] = IF j \in results THEN "loaded" ELSE "notfound"]
    /\ UNCHANGED <<vars, overdue, reply, pageVars, fetch>>

\* Variant: IsComplete does not take the lock.
WaitIsCompleteUnlocked(j) ==
    /\ caller[j] = "loaded"
    /\ caller' = [caller EXCEPT ![j] =
         IF Finished(j) \/ \E w \in Workers : serving[w] = j /\ step[w] = "finalizing"
         THEN "matched" ELSE "polling"]
    /\ UNCHANGED <<vars, overdue, reply, pageVars, fetch>>

\* IsComplete takes the read lock, so it waits for a worker that holds it.
WaitIsComplete(j) ==
    /\ caller[j] = "loaded"
    /\ ~Locked(j)
    /\ caller' = [caller EXCEPT ![j] = IF Finished(j) THEN "matched" ELSE "polling"]
    /\ UNCHANGED <<vars, overdue, reply, pageVars, fetch>>

\* The deadline is looked at between two polls, never after a match.
WaitTimeout(j) ==
    /\ caller[j] = "polling"
    /\ j \in overdue
    /\ caller' = [caller EXCEPT ![j] = "timedout"]
    /\ UNCHANGED <<vars, overdue, reply, pageVars, fetch>>

\* performLinkCheck copies job.Status and job.Result, again without the lock.
TakeAnswer(j) ==
    /\ caller[j] = "matched"
    /\ caller' = [caller EXCEPT ![j] = "answered"]
    /\ reply' = [reply EXCEPT ![j] = Snapshot(status[j], result[j])]
    /\ UNCHANGED <<vars, overdue, pageVars, fetch>>
-----------------------------------------------------------------------------
(* HandleGetJob *)

Published(j) == [checked |-> Cardinality(urls[j]), accessible |-> accessible[j],
                 inaccessible |-> inaccessible[j]]

LockedAt(j, s) == \E w \in Workers : serving[w] = j /\ step[w] = s

\* The outcome of job j is written, or being written by a worker.
Decided(j) == Finished(j) \/ LockedAt(j, "finalizing")

Outcome(j) == IF result[j] # NoResult THEN result[j] ELSE Published(j)

\* What a reader may see behind the pointer of a result whose fields were
\* written before the pointer but need not be visible with it (the image is
\* built for arm64 too): of each field all or nothing, of a list any part.
Parts(r) == [checked : {0, r.checked}, accessible : {0, r.accessible},
             inaccessible : SUBSET r.inaccessible]

\* What a read of job.Status may return that is not ordered after the writes.
StatusReads(j) ==
    {"pending"}
      \cup (IF status[j] = "in_progress" \/ LockedAt(j, "starting") \/ Decided(j)
            THEN {"in_progress", Torn} ELSE {})
      \cup (IF Decided(j) THEN {"completed"} ELSE {})

\* What such a read of job.Result may return.
ResultReads(j) == {NoResult} \cup (IF Decided(j) THEN Parts(Outcome(j)) ELSE {})

\* GetJob: a missing job is a 404, on which the script keeps polling.  A job
\* found after its last writer has stored it (processJob's second Store, or
\* Submit for a rejected job) comes with all that was written to it.
ServeLookup(f) ==
    LET j == fetch[f].job
        settled == Finished(j) /\ \A w \in Workers : serving[w] # j IN
    /\ fetch[f].at = "sent"
    /\ fetch' = [fetch EXCEPT ![f] =
         IF j \in results THEN [@ EXCEPT !.at = "loaded", !.settled = settled]
         ELSE FreeFetch]
    /\ UNCHANGED <<vars, callerVars, pageVars>>

\* The two reads of HandleGetJob.
ServeSnapshot(f) ==
    LET j == fetch[f].job IN
    /\ fetch[f].at = "loaded"
    /\ \E s \in (IF fetch[f].settled THEN {status[j]} ELSE StatusReads(j)),
          r \in (IF fetch[f].settled THEN {result[j]} ELSE ResultReads(j)) :
         fetch' = [fetch EXCEPT ![f] =
                     [@ EXCEPT !.at = "ready", !.status = s, !.result = r]]
    /\ UNCHANGED <<vars, callerVars, pageVars>>
-----------------------------------------------------------------------------
(* pollLinkCheckStatus *)

\* A tick of the timer does not wait for the polls of earlier ticks.
PollTick(j) ==
    /\ page[j] = "polling"
    /\ attempts' = [attempts EXCEPT ![j] = @ + 1]
    /\ \/ /\ attempts[j] >= MaxAttempts
          /\ page' = [page EXCEPT ![j] = "gaveup"]
          /\ text' = [text EXCEPT ![j] = "timeout"]
          /\ UNCHANGED fetch
       \/ /\ attempts[j] < MaxAttempts
          /\ \E f \in Fetches :
               /\ fetch[f].at = "free"
               /\ fetch' = [fetch EXCEPT ![f] = [FreeFetch EXCEPT !.at = "sent", !.job = j]]
          /\ UNCHANGED <<page, text>>
    /\ UNCHANGED <<vars, callerVars, shown>>

\* A poll comes back, whatever has happened to the timer since it was sent.
Deliver(f) ==
    LET j == fetch[f].job
        seen == fetch[f]
        final == seen.status \in {"completed", "failed"} IN
    /\ seen.at = "ready"
    /\ text' = [text EXCEPT ![j] = seen.status]
    /\ page' = [page EXCEPT ![j] = IF final THEN "done" ELSE @]
    /\ shown' = [shown EXCEPT ![j] =
                   IF final /\ seen.result # NoResult THEN seen.result ELSE @]
    /\ fetch' = [fetch EXCEPT ![f] = FreeFetch]
    /\ UNCHANGED <<vars, callerVars, attempts>>

\* A poll that fails on the network is logged and forgotten.
LosePoll(f) ==
    /\ fetch[f].at # "free"
    /\ fetch' = [fetch EXCEPT ![f] = FreeFetch]
    /\ UNCHANGED <<vars, callerVars, pageVars>>
-----------------------------------------------------------------------------
CallerStep(j) ==
    \/ WaitGetJob(j) \/ WaitIsComplete(j) \/ WaitTimeout(j) \/ TakeAnswer(j)

FetchStep(f) ==
    ServeLookup(f) \/ ServeSnapshot(f) \/ Deliver(f)

ClientsNext ==
    \/ PoolStep /\ UNCHANGED clientVars
    \/ \E j \in Jobs, us \in (SUBSET Links) \ {{}} :
         SubmitAndWait(j, us) \/ SubmitAndRender(j, us)
    \/ \E j \in Jobs : CallerStep(j) \/ DeadlinePasses(j) \/ PollTick(j)
    \/ \E f \in Fetches : FetchStep(f) \/ LosePoll(f)

ClientsSpec == ClientsInit /\ [][ClientsNext]_allVars

\* The browser's timer ticks, and a poll is answered: HandleGetJob waits for
\* nobody.  Time passes for a waiting request, and its goroutine is scheduled.
\* Of the pool nothing is assumed but that a worker leaves a critical section.
ClientsFairSpec ==
    /\ ClientsSpec
    /\ \A j \in Jobs : WF_allVars(DeadlinePasses(j)) /\ WF_allVars(CallerStep(j))
    /\ \A w \in Workers : WF_allVars((MarkStarted(w) \/ Publish(w)) /\ UNCHANGED clientVars)
    /\ \A j \in Jobs : WF_allVars(PollTick(j))
    /\ \A f \in Fetches : WF_allVars(FetchStep(f))
-----------------------------------------------------------------------------
\* A synchronous request that is answered with a job reports what that job
\* ends with: the status and the result come from one finished job although
\* both are copied without the lock, after IsComplete has released it.
SyncAnswerIsFinal ==
    \A j \in Jobs : caller[j] = "answered" =>
        /\ reply[j] = Snapshot(status[j], result[j])
        /\ Finished(j) /\ result[j] # NoResult

\* The second Store of processJob publishes the job: a poll that finds a job
\* after it answers with the status and the result the job ended with, both
\* of them, although HandleGetJob takes no lock.
SettledSnapshotIsFinal ==
    \A f \in Fetches : fetch[f].at = "ready" /\ fetch[f].settled =>
        /\ Finished(fetch[f].job)
        /\ fetch[f].status = status[fetch[f].job]
        /\ fetch[f].result = result[fetch[f].job]
        /\ fetch[f].result # NoResult

\* A settled snapshot is final, and nothing in flight leaves its type: the
\* polls that a page sends are counted and stay within the limit.
ClientsInv == ClientsTypeOK /\ SettledSnapshotIsFinal

\* What the page displays as the result never contradicts the outcome of the
\* job: the job is over, or its worker is about to say so, each number is the
\* final one or a 0 in its place, and every link shown as broken is one the
\* job ends with as broken; however polls overtake each other, whatever their
\* unordered reads see, and also when the job is collected meanwhile.
ShownResultAgrees ==
    \A j \in Jobs : shown[j] # NoResult => Decided(j) /\ shown[j] \in Parts(Outcome(j))

\* Nobody waits for ever, be it a synchronous request or the script of a page,
\* of which each job has one or the other: not for a job that no worker takes,
\* since the pool was stopped or never started, nor for one that was collected,
\* nor for the lock of a job that a worker is writing to, nor for polls that
\* are lost or answered with a 404.
WaitingEnds ==
    \A j \in Jobs :
        (caller[j] \in {"polling", "loaded", "matched"} \/ page[j] = "polling")
          ~> (caller[j] \in {"answered", "notfound", "timedout"} \/ page[j] \in {"done", "gaveup"})

\* Mu protects concurrent access to the fields of a job, so a page that stops
\* polling because the job is over has a result to display.
FinishedPageShowsResult ==
    \A j \in Jobs : page[j] = "done" => shown[j] # NoResult

\* The script polls for the completion of the job: once it has seen the job
\* over, the page does not say again that it is waiting or being checked.
FinishedPageSaysSo ==
    \A j \in Jobs : page[j] = "done" => text[j] \notin {"pending", "in_progress"}
=============================================================================
