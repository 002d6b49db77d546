---------------------------- MODULE JobLifecycle ----------------------------
(***************************************************************************)
(* What a client of the link checker is promised about one job, with no    *)
(* queue, worker, lock or cache: a job is submitted with a set of links,   *)
(* is rejected at once or waits, is picked up once, and ends with a result *)
(* that puts every one of its links on exactly one side.  LinkCheckPool    *)
(* implements this specification.                                          *)
(***************************************************************************)
EXTENDS Naturals, FiniteSets

CONSTANTS
    Jobs,       \* the job ids generateJobID can return
    Links,      \* the URLs a job can be asked to check
    NoResult,   \* the nil *LinkCheckResult
    QueueFull   \* the LinkError{Reason: "queue_full"} of a rejected job

VARIABLES
    urls,     \* urls[j]: the links job j was submitted with
    status,   \* status[j]: LinkCheckJob.Status, or "absent"
    result    \* result[j]: LinkCheckJob.Result

vars == <<urls, status, result>>

Init ==
    /\ urls = [j \in Jobs |-> {}]
    /\ status = [j \in Jobs |-> "absent"]
    /\ result = [j \in Jobs |-> NoResult]

Rejection == [checked |-> 0, accessible |-> 0, inaccessible |-> {QueueFull}]

\* The result of a job whose links are us, of which those in broken failed.
Outcome(us, broken) ==
    [checked |-> Cardinality(us),
     accessible |-> Cardinality(us \ broken),
     inaccessible |-> broken]

Queue(j, us) ==
    /\ status[j] = "absent"
    /\ urls' = [urls EXCEPT ![j] = us]
    /\ status' = [status EXCEPT ![j] = "pending"]
    /\ UNCHANGED result

Reject(j, us) ==
    /\ status[j] = "absent"
    /\ urls' = [urls EXCEPT ![j] = us]
    /\ status' = [status EXCEPT ![j] = "failed"]
    /\ result' = [result EXCEPT ![j] = Rejection]

Begin(j) ==
    /\ status[j] = "pending"
    /\ status' = [status EXCEPT ![j] = "in_progress"]
    /\ UNCHANGED <<urls, result>>

Complete(j, broken) ==
    /\ status[j] = "in_progress"
    /\ status' = [status EXCEPT ![j] = "completed"]
    /\ result' = [result EXCEPT ![j] = Outcome(urls[j], broken)]
    /\ UNCHANGED urls

Next ==
    \E j \in Jobs :
        \/ \E us \in (SUBSET Links) \ {{}} : Queue(j, us) \/ Reject(j, us)
        \/ Begin(j)
        \/ \E broken \in SUBSET urls[j] : Complete(j, broken)

Spec == Init /\ [][Next]_vars
=============================================================================
